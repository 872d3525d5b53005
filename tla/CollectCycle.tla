---------------------------- MODULE CollectCycle ----------------------------
(***************************************************************************)
(* The collection cycle of one (integration, stream):                      *)
(*   run_collection_once / _run_collection_once  collectors/pipeline.py    *)
(*   CursorStore.load / save                     collectors/state/cursor.py*)
(*   claim / release_many                        collectors/state/dedupe.py*)
(*                                                                         *)
(* Celery workers run cycles of the same stream.  A cycle takes the Redis  *)
(* lock, loads the cursor, reads the vendor's events in order, claims each *)
(* one for deduplication, batches or diverts it, hands full batches to     *)
(* every destination, stores the cursor and finally releases the claims it *)
(* did not settle.  Events are the positions 1..NumEvents of the vendor's  *)
(* stream; a cursor is the last position consumed.                         *)
(*                                                                         *)
(* Next holds whatever may go wrong while the lock outlives its cycle:     *)
(* every operation may raise, before the cursor is loaded too, replies of  *)
(* Redis get lost, keys are evicted, the process may die.  LockFault breaks*)
(* the remaining assumption.  The causes of loss the code leaves open are  *)
(* recorded in history variables no guard reads, so that the properties    *)
(* can say: nothing is lost but by one of them.                            *)
(***************************************************************************)
EXTENDS Integers, FiniteSets

CONSTANTS
    Workers,      \* Celery worker processes able to run this stream
    Dests,        \* destinations a routed event is fanned out to
    NumEvents,    \* events the vendor will ever publish
    BatchSize,    \* config.collector_batch_size
    PageCap,      \* most events one cycle reads (the vendor module's page cap)
    Overlap,      \* events re-read behind the cursor (inclusive lower bounds)
    Lookback,     \* default window of a collector started without a cursor
    MaxFailures,  \* bound on operations that fail and cycles cut short
    Nobody        \* the lock is free

ASSUME WorkersAssumption == Nobody \notin Workers
ASSUME BoundsAssumption ==
    /\ NumEvents \in Nat
    /\ BatchSize \in Nat \ {0}
    /\ Overlap \in Nat
    /\ PageCap \in Nat /\ PageCap > Overlap
    /\ Lookback \in Nat
    /\ MaxFailures \in Nat

Events == 1..NumEvents

(***************************************************************************)
(* Cursor values.  Absent is a missing key or row, Empty the stored `{}',  *)
(* which the collector treats like no cursor at all.                       *)
(***************************************************************************)
Absent == -2
Empty  == -1
Cursors == {Absent, Empty} \cup (0..NumEvents)

VARIABLES
    head,         \* how many events the vendor has published
    lock,         \* value of collect:lock:{integration}:{stream}
    hot,          \* Redis cursor
    cold,         \* collection_state.cursor
    claims,       \* events whose dedupe key exists in Redis
    queue,        \* events accepted by the broker, per destination
    shed,         \* events refused at the queue ceiling, per destination
    quarantined,  \* events stored in quarantine_events
    discarded,    \* events dropped by policy: suppressed, OCSF fail_closed,
                  \* or quarantine writes over the budget
    failures,     \* operations that failed and cycles cut short so far
    pc,           \* where each worker's cycle stands
    owns,         \* the cycle took the lock, so its `finally' releases it
    before,       \* cursor_before
    start,        \* position the collector started reading from
    pos,          \* last event the collector yielded
    batch,        \* events batched and not handed off
    unsettled,    \* unsettled_claims
    todo,         \* destinations of the current batch still to be enqueued
    out,          \* cursor being stored
    failed,       \* the cycle is in its `except' path
    orphaned,     \* history: events whose claim outlived its cycle unsettled
    skipped,      \* history: events behind the lookback of a cycle that found
                  \* no position
    evicted,      \* history: events whose claim Redis evicted under its cycle
    overrun       \* history: running cycles whose lock expired or never was

store == <<hot, cold>>
sinks == <<queue, shed, quarantined, discarded>>
local == <<pc, owns, before, start, pos, batch, unsettled, todo, out, failed>>
causes == <<orphaned, skipped, evicted, overrun>>
vars  == <<head, lock, store, claims, sinks, failures, local, causes>>

Phases == {"off", "load", "collect", "enqueue", "enqueueLast",
           "saveHot", "saveCold", "release", "unlock"}

Init ==
    /\ head = 0
    /\ lock = Nobody
    /\ hot = 0 /\ cold = 0
    /\ claims = {}
    /\ queue = [d \in Dests |-> {}]
    /\ shed = [d \in Dests |-> {}]
    /\ quarantined = {} /\ discarded = {}
    /\ failures = 0
    /\ pc = [w \in Workers |-> "off"]
    /\ owns = [w \in Workers |-> FALSE]
    /\ before = [w \in Workers |-> Absent]
    /\ start = [w \in Workers |-> 0]
    /\ pos = [w \in Workers |-> 0]
    /\ batch = [w \in Workers |-> {}]
    /\ unsettled = [w \in Workers |-> {}]
    /\ todo = [w \in Workers |-> {}]
    /\ out = [w \in Workers |-> Absent]
    /\ failed = [w \in Workers |-> FALSE]
    /\ orphaned = {} /\ skipped = {} /\ evicted = {} /\ overrun = {}

-----------------------------------------------------------------------------
(* The vendor and Redis on their own.                                      *)

\* External: the vendor publishes its next event.
Publish ==
    /\ head < NumEvents
    /\ head' = head + 1
    /\ UNCHANGED <<lock, store, claims, sinks, failures, local, causes>>

\* Another operation that does not do its job; MaxFailures bounds them.
Incomplete ==
    /\ failures < MaxFailures
    /\ failures' = failures + 1

\* A dedupe key no cycle holds reaches its TTL of hours.
ClaimExpire(e) ==
    /\ e \in claims
    /\ \A w \in Workers : e \notin unsettled[w]
    /\ claims' = claims \ {e}
    /\ UNCHANGED <<head, causes, lock, store, sinks, failures, local>>

\* volatile-lru evicts a dedupe key under memory pressure while a cycle still
\* counts on it.
ClaimEvict(e) ==
    /\ e \in claims
    /\ \E w \in Workers : e \in unsettled[w]
    /\ Incomplete
    /\ claims' = claims \ {e}
    /\ evicted' = evicted \cup {e}
    /\ UNCHANGED <<head, orphaned, skipped, overrun, lock, store, sinks,
                   local>>

\* The lock of a process that died reaches its TTL.
LockTimeout ==
    /\ \E w \in Workers : lock = w /\ pc[w] = "off"
    /\ lock' = Nobody
    /\ UNCHANGED <<head, causes, store, claims, sinks, failures, local>>

\* Redis restarts empty between cycles: the hot cursor and the claims are gone.
RedisFlush ==
    /\ \A w \in Workers : pc[w] = "off"
    /\ hot # Absent
    /\ hot' = Absent /\ claims' = {} /\ lock' = Nobody
    /\ UNCHANGED <<head, causes, cold, sinks, failures, local>>

-----------------------------------------------------------------------------
(* run_collection_once: the lock.                                          *)

Goto(w, phase) == pc' = [pc EXCEPT ![w] = phase]

\* SET collect:lock NX EX: the cycle starts holding the lock.
Begin(w) ==
    /\ pc[w] = "off"
    /\ lock = Nobody
    /\ lock' = w
    /\ owns' = [owns EXCEPT ![w] = TRUE]
    /\ Goto(w, "load")
    /\ UNCHANGED <<head, causes, store, claims, sinks, failures, before, start,
                   pos, batch, unsettled, todo, out, failed>>

\* Mutant: a plain DEL, without comparing the token.
UnlockedByAnyone(w) == IF owns[w] THEN Nobody ELSE lock

\* _RELEASE_IF_MINE_LUA: compare the token, then delete.
UnlockedBy(w) == IF owns[w] /\ lock = w THEN Nobody ELSE lock

\* The cycle's process-local state disappears with the cycle.
Forget(w) ==
    /\ Goto(w, "off")
    /\ owns' = [owns EXCEPT ![w] = FALSE]
    /\ before' = [before EXCEPT ![w] = Absent]
    /\ start' = [start EXCEPT ![w] = 0]
    /\ pos' = [pos EXCEPT ![w] = 0]
    /\ batch' = [batch EXCEPT ![w] = {}]
    /\ unsettled' = [unsettled EXCEPT ![w] = {}]
    /\ todo' = [todo EXCEPT ![w] = {}]
    /\ out' = [out EXCEPT ![w] = Absent]
    /\ failed' = [failed EXCEPT ![w] = FALSE]
    /\ overrun' = overrun \ {w}

Unlock(w) ==
    /\ pc[w] = "unlock"
    /\ lock' = UnlockedBy(w)
    /\ Forget(w)
    /\ UNCHANGED <<head, orphaned, skipped, evicted, store, claims, sinks,
                   failures>>

-----------------------------------------------------------------------------
(* _run_collection_once: prologue and cursor.                              *)

\* What may become of an event: a message for every destination (or a shed
\* one), a quarantine row, or a policy drop.
Accounted == {e \in Events :
    \/ e \in quarantined \cup discarded
    \/ \A d \in Dests : e \in queue[d] \cup shed[d]}

\* The integration is inactive, a partner, or its collector is unregistered.
SkipInactive(w) ==
    /\ pc[w] = "load"
    /\ Incomplete
    /\ Goto(w, "release")
    /\ UNCHANGED <<head, causes, lock, store, claims, sinks, owns, before,
                   start, pos, batch, unsettled, todo, out, failed>>

\* CursorStore.load: the hot key when it holds anything, else the cold row.
LoadedCursor == IF hot # Absent THEN hot ELSE cold

\* Mutant: no floor at the beginning of the stream.
BehindUnfloored(c, n) == c - n

\* Where a collector given cursor c starts: behind it by the overlap, or at
\* the default lookback when the cursor is missing or `{}'.
Behind(c, n) == IF c >= n THEN c - n ELSE 0
StartOf(c) == IF c >= 0 THEN Behind(c, Overlap) ELSE Behind(head, Lookback)

\* Events a collector without a position leaves behind for good.
SkippedBy(c) ==
    IF c >= 0 THEN {} ELSE {e \in Events : e <= StartOf(c)} \ Accounted

Load(w) ==
    /\ pc[w] = "load"
    /\ skipped' = skipped \cup SkippedBy(LoadedCursor)
    /\ before' = [before EXCEPT ![w] = LoadedCursor]
    /\ start' = [start EXCEPT ![w] = StartOf(LoadedCursor)]
    /\ pos' = [pos EXCEPT ![w] = StartOf(LoadedCursor)]
    /\ Goto(w, "collect")
    /\ UNCHANGED <<head, orphaned, evicted, overrun, lock, store, claims,
                   sinks, failures, owns, batch, unsettled, todo, out, failed>>

-----------------------------------------------------------------------------
(* The loop over collector.collect().                                      *)

\* The collector yields event e next.
Yields(w, e) ==
    /\ pc[w] = "collect"
    /\ e = pos[w] + 1
    /\ e <= head
    /\ pos[w] < start[w] + PageCap
    /\ pos' = [pos EXCEPT ![w] = e]

\* Mutant: the key is set without NX.
ClaimBlindly(w, e) ==
    /\ claims' = claims \cup {e}
    /\ unsettled' = [unsettled EXCEPT ![w] = @ \cup {e}]

\* SET dedupe:{id} NX succeeds and the id joins unsettled_claims.
Claim(w, e) ==
    /\ e \notin claims
    /\ claims' = claims \cup {e}
    /\ unsettled' = [unsettled EXCEPT ![w] = @ \cup {e}]

\* Mutant: a duplicate ends the page.
DedupedLast(w) == \E e \in Events :
    /\ Yields(w, e)
    /\ e \in claims
    /\ IF batch[w] = {} THEN Goto(w, "saveHot") /\ out' = [out EXCEPT ![w] = e]
                        ELSE UNCHANGED <<pc, out>>
    /\ UNCHANGED <<head, causes, lock, store, claims, sinks, failures, owns,
                   before, start, batch, unsettled, todo, failed>>

\* claim() returns False: the event is a duplicate.
Deduped(w) == \E e \in Events :
    /\ Yields(w, e)
    /\ e \in claims
    /\ UNCHANGED <<head, causes, lock, store, claims, sinks, failures, pc,
                   owns, before, start, batch, unsettled, todo, out, failed>>

\* No mapping, mapping error, OCSF quarantine or no customer id: the event is
\* written to quarantine, or only counted when the budget is spent or the
\* insert fails.  Its claim stays in unsettled_claims.
Quarantine(w) == \E e \in Events :
    /\ Yields(w, e)
    /\ Claim(w, e)
    /\ \/ quarantined' = quarantined \cup {e} /\ discarded' = discarded
       \/ discarded' = discarded \cup {e} /\ quarantined' = quarantined
    /\ UNCHANGED <<head, causes, lock, store, queue, shed, failures, pc, owns,
                   before, start, batch, todo, out, failed>>

\* Suppressed by signature, or OCSF fail_closed.
Discard(w) == \E e \in Events :
    /\ Yields(w, e)
    /\ Claim(w, e)
    /\ discarded' = discarded \cup {e}
    /\ UNCHANGED <<head, causes, lock, store, queue, shed, quarantined,
                   failures, pc, owns, before, start, batch, todo, out,
                   failed>>

\* The event joins the batch; the batch is flushed when full or overdue.
Append(w) == \E e \in Events, flush \in BOOLEAN :
    /\ Yields(w, e)
    /\ Claim(w, e)
    /\ batch' = [batch EXCEPT ![w] = @ \cup {e}]
    /\ Cardinality(batch[w]) + 1 >= BatchSize => flush
    /\ IF flush THEN /\ Goto(w, "enqueue")
                     /\ todo' = [todo EXCEPT ![w] = Dests]
                ELSE UNCHANGED <<pc, todo>>
    /\ UNCHANGED <<head, causes, lock, store, sinks, failures, owns, before,
                   start, out, failed>>

\* The collector stops: nothing more to read, or the page cap is reached.
EndOfStream(w) ==
    /\ pc[w] = "collect"
    /\ pos[w] = head \/ pos[w] >= start[w] + PageCap
    /\ IF batch[w] # {}
         THEN /\ Goto(w, "enqueueLast")
              /\ todo' = [todo EXCEPT ![w] = Dests]
              /\ UNCHANGED out
         ELSE /\ Goto(w, "saveHot")
              /\ out' = [out EXCEPT ![w] = pos[w]]
              /\ UNCHANGED todo
    /\ UNCHANGED <<head, causes, lock, store, claims, sinks, failures, owns,
                   before, start, pos, batch, unsettled, failed>>

-----------------------------------------------------------------------------
(* _enqueue_routed: one message per destination, then the settlement.      *)

Enqueuing(w) == pc[w] \in {"enqueue", "enqueueLast"}

EnqueueTo(w, d) ==
    /\ Enqueuing(w)
    /\ d \in todo[w]
    /\ queue' = [queue EXCEPT ![d] = @ \cup batch[w]]
    /\ todo' = [todo EXCEPT ![w] = @ \ {d}]
    /\ UNCHANGED <<head, causes, lock, store, claims, shed, quarantined,
                   discarded, failures, pc, owns, before, start, pos, batch,
                   unsettled, out, failed>>

\* _should_shed_dispatch: the destination's queue is at its ceiling.
ShedTo(w, d) ==
    /\ Enqueuing(w)
    /\ d \in todo[w]
    /\ shed' = [shed EXCEPT ![d] = @ \cup batch[w]]
    /\ todo' = [todo EXCEPT ![w] = @ \ {d}]
    /\ UNCHANGED <<head, causes, lock, store, claims, queue, quarantined,
                   discarded, failures, pc, owns, before, start, pos, batch,
                   unsettled, out, failed>>

\* Mutant: the claims are settled before the hand-off to every destination.
SettleEarly(w) ==
    /\ Enqueuing(w)
    /\ unsettled' = [unsettled EXCEPT ![w] = @ \ batch[w]]
    /\ UNCHANGED <<head, causes, lock, store, claims, sinks, failures, pc,
                   owns, before, start, pos, batch, todo, out, failed>>

\* The claims of the batch are settled only after the hand-off returned.
Settle(w) ==
    /\ Enqueuing(w)
    /\ todo[w] = {}
    /\ unsettled' = [unsettled EXCEPT ![w] = @ \ batch[w]]
    /\ batch' = [batch EXCEPT ![w] = {}]
    /\ IF pc[w] = "enqueue"
         THEN Goto(w, "collect") /\ UNCHANGED out
         ELSE Goto(w, "saveHot") /\ out' = [out EXCEPT ![w] = pos[w]]
    /\ UNCHANGED <<head, causes, lock, store, claims, sinks, failures, owns,
                   before, start, pos, todo, failed>>

-----------------------------------------------------------------------------
(* CursorStore.save, the `except' path and the `finally'.                  *)

\* The Redis write is best-effort: it may be refused and the save goes on.
SaveHot(w) ==
    /\ pc[w] = "saveHot"
    /\ \/ hot' = out[w] /\ UNCHANGED failures
       \/ Incomplete /\ UNCHANGED hot
    /\ Goto(w, "saveCold")
    /\ UNCHANGED <<head, causes, lock, cold, claims, sinks, owns, before,
                   start, pos, batch, unsettled, todo, out, failed>>

SaveCold(w) ==
    /\ pc[w] = "saveCold"
    /\ cold' = out[w]
    /\ Goto(w, "release")
    /\ UNCHANGED <<head, causes, lock, hot, claims, sinks, failures, owns,
                   before, start, pos, batch, unsettled, todo, out, failed>>

\* Mutant: the error path stores the position reached so far.
ErrorCursorReached(w) == pos[w]

\* cursor_before or {}
ErrorCursor(w) == IF before[w] >= 0 THEN before[w] ELSE Empty

\* The `except Exception' handler: the previous cursor is going to be stored
\* with the error.
Raise(w) ==
    /\ Incomplete
    /\ failed' = [failed EXCEPT ![w] = TRUE]
    /\ out' = [out EXCEPT ![w] = ErrorCursor(w)]
    /\ Goto(w, "saveHot")

\* WorkerShutdown is a BaseException: no `except', only the `finally'.
Interrupt(w) ==
    /\ Incomplete
    /\ failed' = [failed EXCEPT ![w] = TRUE]
    /\ Goto(w, "release")
    /\ UNCHANGED out

\* A vendor, Redis, broker or soft-time-limit exception inside the loop, or a
\* database exception while storing the final cursor.
FailCycle(w) ==
    /\ pc[w] \in {"collect", "enqueue", "enqueueLast", "saveCold"}
    /\ ~failed[w]
    /\ Raise(w)
    /\ UNCHANGED <<head, causes, lock, store, claims, sinks, owns, before,
                   start, pos, batch, unsettled, todo>>

\* Token refresh, config, mapping or the load itself raises before
\* cursor_before is assigned.
FailEarly(w) ==
    /\ pc[w] = "load"
    /\ Raise(w)
    /\ UNCHANGED <<head, causes, lock, store, claims, sinks, owns, before,
                   start, pos, batch, unsettled, todo>>

Shutdown(w) ==
    /\ pc[w] \in Phases \ {"off", "release", "unlock"}
    /\ Interrupt(w)
    /\ UNCHANGED <<head, causes, lock, store, claims, sinks, owns, before,
                   start, pos, batch, unsettled, todo>>

\* The await of claim() ends with a lost reply, the soft time limit or a
\* shutdown after Redis executed the SET: the key exists, no unsettled_claims
\* has it, and the event is not processed.
ClaimUnseen(w) == \E e \in Events :
    /\ Yields(w, e)
    /\ e \notin claims
    /\ claims' = claims \cup {e}
    /\ orphaned' = orphaned \cup {e}
    /\ Raise(w) \/ Interrupt(w)
    /\ UNCHANGED <<head, skipped, evicted, overrun, lock, store, sinks, owns,
                   before, start, batch, unsettled, todo>>

\* A database exception while storing the error itself is logged only.
ErrorSaveFails(w) ==
    /\ pc[w] = "saveCold"
    /\ failed[w]
    /\ Goto(w, "release")
    /\ UNCHANGED <<head, causes, lock, store, claims, sinks, failures, owns,
                   before, start, pos, batch, unsettled, todo, out, failed>>

\* release_many(unsettled_claims)
Release(w) ==
    /\ pc[w] = "release"
    /\ claims' = claims \ unsettled[w]
    /\ unsettled' = [unsettled EXCEPT ![w] = {}]
    /\ batch' = [batch EXCEPT ![w] = {}]
    /\ Goto(w, "unlock")
    /\ UNCHANGED <<head, causes, lock, store, sinks, failures, owns, before,
                   start, pos, todo, out, failed>>

\* The DEL is refused and the exception swallowed: the keys stay until their
\* TTL.
ReleaseFails(w) ==
    /\ pc[w] = "release"
    /\ Incomplete
    /\ orphaned' = orphaned \cup (unsettled[w] \cap claims)
    /\ unsettled' = [unsettled EXCEPT ![w] = {}]
    /\ batch' = [batch EXCEPT ![w] = {}]
    /\ Goto(w, "unlock")
    /\ UNCHANGED <<head, skipped, evicted, overrun, lock, store, claims, sinks,
                   owns, before, start, pos, todo, out, failed>>

\* SIGKILL / OOM: no `finally' runs; claims and lock stay behind.
Crash(w) ==
    /\ pc[w] # "off"
    /\ Incomplete
    /\ orphaned' = orphaned \cup (unsettled[w] \cap claims)
    /\ Forget(w)
    /\ UNCHANGED <<head, skipped, evicted, lock, store, claims, sinks>>

-----------------------------------------------------------------------------
(* The lock lost under a running cycle.                                    *)

\* The lock reaches its TTL while its cycle is still running.
LockExpire ==
    /\ \E w \in Workers : lock = w /\ pc[w] # "off"
    /\ lock' = Nobody
    /\ overrun' = overrun \cup {lock}
    /\ UNCHANGED <<head, orphaned, skipped, evicted, store, claims, sinks,
                   failures, local>>

\* Redis refuses the SET: the cycle goes on without a lock.
BeginLockless(w) ==
    /\ pc[w] = "off"
    /\ Goto(w, "load")
    /\ overrun' = overrun \cup {w}
    /\ UNCHANGED <<head, orphaned, skipped, evicted, lock, store, claims,
                   sinks, failures, owns, before, start, pos, batch, unsettled,
                   todo, out, failed>>

-----------------------------------------------------------------------------
CycleStep(w) ==
    \/ SkipInactive(w) \/ Load(w)
    \/ Deduped(w) \/ Quarantine(w) \/ Discard(w) \/ Append(w) \/ EndOfStream(w)
    \/ \E d \in Dests : EnqueueTo(w, d) \/ ShedTo(w, d)
    \/ Settle(w) \/ SaveHot(w) \/ SaveCold(w)
    \/ FailEarly(w) \/ FailCycle(w) \/ ErrorSaveFails(w) \/ Shutdown(w)
    \/ ClaimUnseen(w)
    \/ Release(w) \/ ReleaseFails(w) \/ Unlock(w)

Next ==
    \/ Publish
    \/ RedisFlush \/ LockTimeout
    \/ \E e \in Events : ClaimExpire(e) \/ ClaimEvict(e)
    \/ \E w \in Workers : Begin(w) \/ CycleStep(w) \/ Crash(w)

LockFault == LockExpire \/ \E w \in Workers : BeginLockless(w)

(***************************************************************************)
(* The beat fires every stream at its cadence and Celery runs what is      *)
(* queued: a worker able to start or to continue a cycle does so.  The     *)
(* lock's TTL runs out whatever became of its holder.                      *)
(***************************************************************************)
Fairness ==
    /\ \A w \in Workers : WF_vars(Begin(w) \/ CycleStep(w))
    /\ WF_vars(LockTimeout)

Spec         == Init /\ [][Next]_vars /\ Fairness
SpecLockLost == Init /\ [][Next \/ LockFault]_vars

-----------------------------------------------------------------------------
(* Properties.                                                             *)

\* Every variable stays in its domain.
TypeOK ==
    /\ head \in 0..NumEvents
    /\ lock \in Workers \cup {Nobody}
    /\ hot \in Cursors /\ cold \in Cursors
    /\ claims \in SUBSET Events
    /\ queue \in [Dests -> SUBSET Events]
    /\ shed \in [Dests -> SUBSET Events]
    /\ quarantined \in SUBSET Events /\ discarded \in SUBSET Events
    /\ failures \in 0..MaxFailures
    /\ pc \in [Workers -> Phases]
    /\ owns \in [Workers -> BOOLEAN]
    /\ before \in [Workers -> Cursors]
    /\ start \in [Workers -> 0..NumEvents]
    /\ pos \in [Workers -> 0..NumEvents]
    /\ batch \in [Workers -> SUBSET Events]
    /\ unsettled \in [Workers -> SUBSET Events]
    /\ todo \in [Workers -> SUBSET Dests]
    /\ out \in [Workers -> Cursors]
    /\ failed \in [Workers -> BOOLEAN]
    /\ orphaned \in SUBSET Events /\ skipped \in SUBSET Events
    /\ evicted \in SUBSET Events /\ overrun \in SUBSET Workers

\* Accounted for, or given up by one of the two causes the code leaves open:
\* a claim that outlived the cycle that took it (a lost reply of SET, a refused
\* DEL, a killed process), or a cycle that found no position to resume from.
Answered == Accounted \cup orphaned \cup skipped

\* Neither stored cursor ever stands past an event that was not handed off,
\* quarantined or dropped by policy, unless one of the two causes took it:
\* settlement, cursor store, error path, release and deduplication lose
\* nothing else (pipeline.py:1882, 1932, state/cursor.py).
CursorCovered ==
    \A e \in Events : (e <= hot \/ e <= cold) => e \in Answered

\* A dedupe key is backed by a hand-off, belongs to a cycle that is still going
\* to settle or release it, or was left behind by a cycle cut short; with any
\* other key the retry would discard the event as a duplicate
\* (pipeline.py:927-938, the compensation of ADR-0015).
ClaimsBacked ==
    \A e \in claims : e \in Answered \/ \E w \in Workers : e \in unsettled[w]

\* Whatever happens to the lock and to the workers, two live cycles process the
\* same event only if Redis evicted its key: deduplication alone keeps them
\* apart, and a cycle in its `finally' deletes no other cycle's claim.
ExclusiveProcessing ==
    /\ \A w \in Workers : /\ batch[w] \subseteq unsettled[w]
                          /\ unsettled[w] \subseteq claims \cup evicted
    /\ \A v, w \in Workers :
         v # w => unsettled[v] \cap unsettled[w] \subseteq evicted

\* A lock lost costs one overlap and no more: of two cycles that run at the same
\* time one has outlived its own lock or started without one.  A late cycle
\* that freed its successor's lock would let a third one in, and so on
\* (_RELEASE_IF_MINE_LUA, pipeline.py:767-775, 889-903).
NoCascade ==
    \A v, w \in Workers :
        v # w /\ pc[v] # "off" /\ pc[w] # "off" =>
            v \in overrun \/ w \in overrun

\* Every published event is eventually handed off, quarantined or dropped, or
\* one of the two causes took it, as long as failures stop.
EventuallyAccounted ==
    \A e \in Events : (e <= head) ~> e \in Answered

\* With no cycle running, an event the next cycle will not read again is
\* accounted for or one of the two causes took it ("nunca para perda de dado",
\* pipeline.py:829; "Nenhuma perda silenciosa",
\* docs-site/docs/concepts/architecture.md:141).
NoLossAtRest ==
    (\A w \in Workers : pc[w] = "off") /\ LoadedCursor >= 0 =>
        \A e \in Events : e <= StartOf(LoadedCursor) => e \in Answered

\* A failed cycle stores the previous cursor: a recorded position is never
\* replaced by the empty one (state/cursor.py:10-12).
PositionKept == [][cold >= 0 => cold' >= 0]_vars

-----------------------------------------------------------------------------
(* The inductive strengthenings behind the theorems of CollectCycleProofs. *)

\* A worker without a cycle, or past the `finally' of one, holds no claims and
\* no batch.
OffClean ==
    \A w \in Workers :
        pc[w] \in {"off", "unlock"} => unsettled[w] = {} /\ batch[w] = {}

\* A running cycle holds the lock unless it overran it.
LockHeld == \A w \in Workers : pc[w] # "off" /\ w \notin overrun => lock = w

\* Inductive under every fault, those of the lock included.
FaultyInv == TypeOK /\ ExclusiveProcessing /\ OffClean /\ LockHeld

\* Without lock faults only the cycle that holds the lock is running.
OneCycle == \A w \in Workers : pc[w] # "off" => lock = w

\* A claim that left the batch without being settled was diverted.
DivertedAccounted ==
    \A w \in Workers : \A e \in unsettled[w] : e \in batch[w] \/ e \in Answered

CoveredUpTo(c) == \A e \in Events : e <= c => e \in Answered

\* Everything a running cycle has read is accounted for or in its batch.
ReadCovered ==
    \A w \in Workers : pc[w] \in {"collect", "enqueue", "enqueueLast"} =>
        \A e \in Events : e <= pos[w] => e \in batch[w] \/ e \in Answered

\* Destinations already served hold the whole batch.
ServedHoldBatch ==
    \A w \in Workers : Enqueuing(w) =>
        \A d \in Dests \ todo[w] : batch[w] \subseteq queue[d] \cup shed[d]

\* The cursor about to be stored is covered, and so is the one a failure would
\* store instead.
SaveCovered ==
    \A w \in Workers : pc[w] \in {"saveHot", "saveCold"} => CoveredUpTo(out[w])
BeforeCovered == \A w \in Workers : CoveredUpTo(before[w])

\* Inductive as long as the lock outlives its cycle.
CycleInv ==
    /\ FaultyInv /\ overrun = {} /\ ClaimsBacked /\ DivertedAccounted
    /\ CursorCovered /\ ReadCovered /\ ServedHoldBatch /\ SaveCovered
    /\ BeforeCovered

\* No cursor is `{}': the stream kept a position.
PositionKnown == (hot >= 0 \/ hot = Absent) /\ cold >= 0

\* Accounted for, or in the batch of a cycle that is still running.
Carried == {e \in Events : e \in Accounted \/ \E w \in Workers : e \in batch[w]}
CarriedUpTo(c) == \A e \in Events : e <= c => e \in Carried

\* What a cycle has read, or is about to store, is carried by some cycle, and
\* it stores nothing before its own batch is handed off.
CycleCarries(w) ==
    /\ pc[w] \in {"collect", "enqueue", "enqueueLast"} => CarriedUpTo(pos[w])
    /\ pc[w] \in {"saveHot", "saveCold"} => out[w] >= 0 /\ CarriedUpTo(out[w])
    /\ pc[w] \in {"saveHot", "saveCold", "release"} => batch[w] = {}

\* Whatever a claim, a cursor or a cycle has passed is carried by someone.
AllCarried ==
    /\ claims \subseteq Carried
    /\ PositionKnown /\ CarriedUpTo(hot) /\ CarriedUpTo(cold)
    /\ \A w \in Workers : CycleCarries(w)

\* Inductive although cycles overlap, as long as none of them fails.
SharedInv ==
    /\ FaultyInv /\ ServedHoldBatch
    /\ failures = 0 => AllCarried /\ orphaned = {} /\ skipped = {}

=============================================================================
