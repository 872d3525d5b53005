------------------------------- MODULE Absence -------------------------------
(***************************************************************************)
(* One absence rule (collectors/inflight/absence.py): an alert when events *)
(* of a watched key stop coming.                                           *)
(*                                                                         *)
(* Two halves share three Redis hashes.  A collection cycle writes, in its *)
(* finally, the keys it saw and its heartbeat; a periodic tick reads the   *)
(* hashes, opens a Detection for a key that is silent, closes it when the  *)
(* key is back, and forgets a key that is silent for too long.  Every      *)
(* Redis pipeline and every commit is a step of its own.  The cycles of    *)
(* the organization's other streams and integrations write the same hashes *)
(* and the same heartbeat.                                                 *)
(*                                                                         *)
(* Time is counted in tick periods (ABSENCE_TICK_SECONDS).  Hashes hold    *)
(* instants; the model keeps their ages.  A tick ends before the TTL of    *)
(* its lock, which ends before the next tick is due.  Suppression outlasts *)
(* the silence of a key, so record() bumps the Detection of the key that   *)
(* is still open; the rule pins a stream, so the second guard applies, and *)
(* no other integration that has the stream is behind; ABSENCE_AUTO_CLOSE  *)
(* is on; analysts do not reopen what is closed.                           *)
(***************************************************************************)
EXTENDS Integers, FiniteSets, FiniteSetsExt

CONSTANTS
    NumKeys,         \* values of the group_by field, in the order of HGETALL
    Tickers,         \* processes that may get the tick's message
    Deadline,        \* window_seconds
    Grace,           \* ABSENCE_GRACE_SECONDS
    Forget,          \* forget_seconds
    ObserverMaxAge,  \* ABSENCE_OBSERVER_MAX_AGE_SECONDS
    CycleMax,        \* longest time from reading the source to the flush
    KeyCap,          \* ABSENCE_MAX_KEYS_PER_RULE
    AlertBudget,     \* ABSENCE_MAX_ALERTS_PER_TICK
    MaxFaults        \* how often something fails

ASSUME AbsenceAssumption ==
    /\ {NumKeys, Deadline, KeyCap, AlertBudget} \subseteq Nat \ {0}
    /\ {Grace, ObserverMaxAge, CycleMax, MaxFaults} \subseteq Nat
    \* _compile_absence asks for no more: the grace may outlast it.
    /\ Forget \in Nat /\ Forget >= Deadline

Keys == 1..NumKeys

\* The field is not in the hash.
Absent == -1

\* Which Detection a mark names: the newest of its key, or a former one.  A
\* new one is only made when the others are closed, so no more is needed.
Newest == 0
Former == 1
Marks  == {Absent, Newest, Former}

VARIABLES
    \* the source
    waiting,  \* age of the oldest event of each key the cycle has not read
    hidden,   \* keys with such events when a cycle failed to read the source
    \* Redis and CollectionState
    seen,     \* absence:...:seen, age of the last sighting
    alerted,  \* absence:...:alerted, the Detection of each key
    beat,     \* age of meta.last_cycle
    own,      \* age of the last heartbeat of the cycle that reads the source
    lag,      \* age of the watermark when last_run_capped, else Absent
    lock,     \* corr:absence:{rule}: some tick of this period has begun
    \* the database
    open,     \* keys whose newest Detection is open
    \* the collection cycle
    cyc,      \* [pc, keys matched, keys watched when it counted, cap reached]
    age,      \* time since it read the source
    \* the ticks
    tick,     \* [pc, and what the tick decided from what it read]
    heard,    \* silent keys that were alerted, or whose tick was held or failed
    starved,  \* other silent keys that found the budget of a tick spent
    faults

source  == <<waiting, hidden>>
redis   == <<seen, alerted, beat, own>>
cycle   == <<cyc, age>>
silence == <<heard, starved>>
vars    == <<source, redis, lag, lock, open, cycle, tick, silence, faults>>

NoMark    == [k \in Keys |-> Absent]
IdleCycle == [pc |-> "idle", keys |-> {}, known |-> {}, capped |-> FALSE]
IdleTick  == [pc |-> "idle", forget |-> {}, back |-> {}, silent |-> {},
              left |-> 0, due |-> NoMark, marks |-> NoMark]

Init ==
    /\ waiting = [k \in Keys |-> Absent] /\ hidden = {}
    /\ seen = [k \in Keys |-> Absent]
    /\ alerted = NoMark
    /\ beat = ObserverMaxAge + 1 /\ own = beat /\ lag = Absent /\ lock = FALSE
    /\ open = {}
    /\ cyc = IdleCycle /\ age = 0
    /\ tick = [t \in Tickers |-> IdleTick]
    /\ heard = {} /\ starved = {} /\ faults = 0

Fails == faults < MaxFaults /\ faults' = faults + 1

Backlog == {k \in Keys : waiting[k] # Absent}

\* Keys whose time is over.
Overdue == {k \in Keys : seen[k] > Deadline + Grace}

\* The silence of these keys is known of, or there was no tick to tell.
Hears(keys) ==
    /\ heard' = heard \cup (keys \cap Overdue)
    /\ starved' = starved \ keys

-----------------------------------------------------------------------------
(* The source and the collection cycle.                                    *)

\* An expected event of key k happens.  One that happens during a cycle that
\* takes no time might as well happen after it.
Happen(k) ==
    /\ waiting[k] = Absent
    /\ cyc.pc = "idle" \/ CycleMax > 0
    /\ waiting' = [waiting EXCEPT ![k] = 0]
    /\ UNCHANGED <<hidden, redis, lag, lock, open, cycle, tick, silence, faults>>

\* The cycle reads the source, oldest event first, until there is none left
\* or, which a burst makes happen now and then, its cap is reached.
Collect ==
    /\ cyc.pc = "idle"
    /\ \E read \in SUBSET Backlog :
        /\ \A k \in read, r \in Backlog \ read : waiting[k] >= waiting[r]
        /\ IF read = Backlog THEN UNCHANGED faults ELSE read # {} /\ Fails
        /\ waiting' = [k \in Keys |-> IF k \in read THEN Absent ELSE waiting[k]]
        /\ hidden' = hidden \ read
        /\ cyc' = [IdleCycle EXCEPT !.pc = "save", !.keys = read, !.capped = read # Backlog]
    /\ age' = 0
    /\ UNCHANGED <<redis, lag, lock, open, tick, silence>>

\* The source fails on the way: what was read is flushed all the same, and
\* the flags of the last good cycle stay.
CollectFails ==
    /\ cyc.pc = "idle"
    /\ Fails
    /\ \E read \in SUBSET Backlog :
        /\ waiting' = [k \in Keys |-> IF k \in read THEN Absent ELSE waiting[k]]
        /\ hidden' = Backlog \ read
        /\ cyc' = [IdleCycle EXCEPT !.pc = "count", !.keys = read]
    /\ age' = 0
    /\ UNCHANGED <<redis, lag, lock, open, tick, silence>>

\* Mutant: a capped run is never taken back.
SaveStateSticky ==
    /\ cyc.pc = "save"
    /\ lag' = IF cyc.capped THEN Max({waiting[k] : k \in Backlog}) ELSE lag
    /\ cyc' = [cyc EXCEPT !.pc = "count"]
    /\ UNCHANGED <<source, redis, lock, open, age, tick, silence, faults>>

\* CursorStore.save: watermark_at and last_run_capped.
SaveState ==
    /\ cyc.pc = "save"
    /\ lag' = IF cyc.capped THEN Max({waiting[k] : k \in Backlog}) ELSE Absent
    /\ cyc' = [cyc EXCEPT !.pc = "count"]
    /\ UNCHANGED <<source, redis, lock, open, age, tick, silence, faults>>

\* apply_absence_presence, first pipeline: which keys the rule watches, and
\* how many (HLEN, HMGET).
Count ==
    /\ cyc.pc = "count"
    /\ cyc' = [cyc EXCEPT !.pc = "flush", !.known = {k \in Keys : seen[k] # Absent}]
    /\ UNCHANGED <<source, redis, lag, lock, open, age, tick, silence, faults>>

\* These keys are seen now, which ends their silence.
Sighted(written) ==
    /\ seen' = [k \in Keys |-> IF k \in written THEN 0 ELSE seen[k]]
    /\ heard' = heard \ written
    /\ starved' = starved \ written
    /\ beat' = 0

\* Second pipeline: the sightings, keys that were new when it counted only up
\* to the cap, and the heartbeat, which is written even when nothing matched.
Flush ==
    /\ cyc.pc = "flush"
    /\ LET new  == cyc.keys \ cyc.known
           room == Max({0, KeyCap - Cardinality(cyc.known)})
       IN  \E admitted \in kSubset(Min({room, Cardinality(new)}), new) :
            Sighted((cyc.keys \cap cyc.known) \cup admitted)
    /\ own' = 0
    /\ cyc' = IdleCycle
    /\ UNCHANGED <<source, alerted, lag, lock, open, age, tick, faults>>

\* Another cycle of the organization flushes: note_rules gives it every
\* absence rule, so it writes their heartbeats whatever it read, and the keys
\* it matched, if it has the stream too.  Each of these cycles counted on its
\* own, so together they may pass the cap.
Stranger ==
    /\ \E written \in SUBSET Keys : Sighted(written)
    /\ UNCHANGED <<source, alerted, own, lag, lock, open, cycle, tick, faults>>

\* Redis refuses one of the pipelines, or the worker dies: no sightings, no
\* heartbeat.  The events stay claimed and are not matched again.
FlushLost ==
    /\ cyc.pc \in {"save", "count", "flush"}
    /\ Fails
    /\ cyc' = IdleCycle
    /\ UNCHANGED <<source, redis, lag, lock, open, age, tick, silence>>

-----------------------------------------------------------------------------
(* The tick: evaluate_absence_rule.                                        *)

Running(t) == tick[t].pc # "idle"

\* Idle tickers are all alike: one of them gets the message.
Gets(t) == ~Running(t) /\ t = CHOOSE u \in Tickers : ~Running(u)

\* SET NX EX: one tick per period.  Refused, the message is done.
Begin(t) ==
    /\ Gets(t)
    /\ ~lock
    /\ lock' = TRUE
    /\ tick' = [tick EXCEPT ![t].pc = "read"]
    /\ UNCHANGED <<source, redis, lag, open, cycle, silence, faults>>

\* Redis refuses the SET: another tick of the period goes on without the
\* lock.
BeginUnlocked(t) ==
    /\ Gets(t)
    /\ lock
    /\ Fails
    /\ tick' = [tick EXCEPT ![t].pc = "read"]
    /\ UNCHANGED <<source, redis, lag, lock, open, cycle, silence>>

\* No tick in this period: the beat is down.
NoTick ==
    /\ ~lock
    /\ Fails
    /\ lock' = TRUE
    /\ Hears(Keys)
    /\ UNCHANGED <<source, redis, lag, open, cycle, tick>>

\* Mutant: a source that is behind is not asked about.
NeverLagging == FALSE

\* The two guards: the observer was looking, and the source is not behind.
Observed == beat <= ObserverMaxAge
Lagging  == lag > Deadline

\* What the tick makes of the hashes it read.
ToForget == {k \in Keys : seen[k] > Forget}

\* Mutant: a key to be forgotten is a candidate as well.
SilentOrForgotten == Overdue

Silent   == Overdue \ ToForget
Back     == {k \in Keys \ (ToForget \cup Silent) : seen[k] # Absent /\ alerted[k] # Absent}

\* Where a tick that has decided goes on: what has no keys is left out.
From(first, d) ==
    CASE first = "unwatch" /\ d.forget # {} -> "unwatch"
      [] first = "unwatch" /\ d.back # {} -> "close"
      [] first = "close" /\ d.back # {} -> "unmark"
      [] OTHER -> "alert"

\* The snapshot, and the decision for every key.  The rules of a tick share
\* its budget: what is left of it depends on the rules before this one.
Read(t) ==
    /\ tick[t].pc = "read"
    /\ Observed
    /\ ~Lagging
    /\ LET d == [forget |-> ToForget, back |-> Back]
       IN  \E left \in IF Silent = {} THEN {0} ELSE 0..AlertBudget : tick' = [tick EXCEPT ![t] =
             [pc |-> From("unwatch", d), forget |-> ToForget, back |-> Back, silent |-> Silent,
              left |-> left, due |-> NoMark, marks |-> alerted]]
    /\ UNCHANGED <<source, redis, lag, lock, open, cycle, silence, faults>>

\* A tick that cannot prove it was looking says nothing.
Held(t) ==
    /\ tick[t].pc = "read"
    /\ ~Observed \/ Lagging
    /\ tick' = [tick EXCEPT ![t] = IdleTick]
    /\ Hears(Keys)
    /\ UNCHANGED <<source, redis, lag, lock, open, cycle, faults>>

\* One pipeline: forgotten keys leave the vigil, with their marks.
Unwatch(t) ==
    /\ tick[t].pc = "unwatch"
    /\ seen' = [k \in Keys |-> IF k \in tick[t].forget THEN Absent ELSE seen[k]]
    /\ alerted' = [k \in Keys |-> IF k \in tick[t].forget /\ tick[t].marks[k] # Absent
                                  THEN Absent ELSE alerted[k]]
    /\ heard' = heard \ tick[t].forget
    /\ starved' = starved \ tick[t].forget
    /\ tick' = [tick EXCEPT ![t].pc = "close"]
    /\ UNCHANGED <<source, beat, own, lag, lock, open, cycle, faults>>

\* Mutant: the return of a key closes nothing.
ClosingForgotten(t) == {k \in tick[t].forget : tick[t].marks[k] = Newest}

\* _close_detection: the one the mark names; a former one is closed already.
Closing(t) == {k \in tick[t].forget \cup tick[t].back : tick[t].marks[k] = Newest}

Close(t) ==
    /\ tick[t].pc = "close"
    /\ open' = open \ Closing(t)
    /\ tick' = [tick EXCEPT ![t].pc = From("close", tick[t])]
    /\ UNCHANGED <<source, redis, lag, lock, cycle, silence, faults>>

\* The marks of the keys that came back.
Unmark(t) ==
    /\ tick[t].pc = "unmark"
    /\ alerted' = [k \in Keys |-> IF k \in tick[t].back THEN Absent ELSE alerted[k]]
    /\ tick' = [tick EXCEPT ![t].pc = "alert"]
    /\ UNCHANGED <<source, seen, beat, own, lag, lock, open, cycle, silence, faults>>

\* Mutant: the last alert of the budget is never spent.
TriedButLast(t) == IF tick[t].left <= 1 THEN {} ELSE tick[t].silent

\* The keys are tried in the order of HGETALL until the budget of the tick is
\* spent, and every Detection recorded, new or bumped, spends one.
Tried(t) == IF tick[t].left = 0 THEN {} ELSE tick[t].silent

\* A mark of the Detection that was the newest names a former one from now on.
Superseded(marks, k) == [marks EXCEPT ![k] = IF @ = Newest THEN Former ELSE @]

\* record() finds an open Detection of the key and bumps it.  Its mark is due
\* when the snapshot had none.
Bump(t) ==
    /\ tick[t].pc = "alert"
    /\ Tried(t) # {}
    /\ LET k == Min(Tried(t))
       IN  /\ k \in open
           /\ tick' = [tick EXCEPT ![t].silent = @ \ {k}, ![t].left = @ - 1,
                 ![t].due[k] = IF tick[t].marks[k] = Absent THEN Newest ELSE @]
           /\ Hears({k})
    /\ UNCHANGED <<source, redis, lag, lock, open, cycle, faults>>

\* record() inserts a new one.
Alert(t) ==
    /\ tick[t].pc = "alert"
    /\ Tried(t) # {}
    /\ LET k == Min(Tried(t))
       IN  /\ k \notin open
           /\ open' = open \cup {k}
           /\ alerted' = Superseded(alerted, k)
           /\ tick' = [u \in Tickers |->
                LET now == [tick[u] EXCEPT !.marks = Superseded(@, k), !.due = Superseded(@, k)]
                IN  IF u # t THEN now
                    ELSE [now EXCEPT !.silent = @ \ {k}, !.left = @ - 1, !.due[k] = Newest]]
           /\ Hears({k})
    /\ UNCHANGED <<source, seen, beat, own, lag, lock, cycle, faults>>

\* What a tick leaves behind when its budget is spent.
Starves(t) == IF tick[t].left = 0 THEN (tick[t].silent \cap Overdue) \ heard ELSE {}

\* HSET of the marks; the tick is over.
Mark(t) ==
    /\ tick[t].pc = "alert"
    /\ Tried(t) = {}
    /\ alerted' = [k \in Keys |-> IF tick[t].due[k] # Absent THEN tick[t].due[k] ELSE alerted[k]]
    /\ tick' = [tick EXCEPT ![t] = IdleTick]
    /\ starved' = starved \cup Starves(t)
    /\ UNCHANGED <<source, seen, beat, own, lag, lock, open, cycle, heard, faults>>

-----------------------------------------------------------------------------
(* What fails in a tick is logged, and the tick goes on.                   *)

\* The first pipeline is refused (unavailable), or the process dies.
TickDies(t) ==
    /\ Running(t)
    /\ Fails
    /\ tick' = [tick EXCEPT ![t] = IdleTick]
    /\ Hears(Keys)
    /\ UNCHANGED <<source, redis, lag, lock, open, cycle>>

\* Redis refuses to forget, or to remove or set the marks.
WriteLost(t) ==
    /\ Fails
    /\ \/ /\ tick[t].pc = "unwatch"
          /\ tick' = [tick EXCEPT ![t].pc = "close"]
          /\ UNCHANGED starved
       \/ /\ tick[t].pc = "unmark"
          /\ tick' = [tick EXCEPT ![t].pc = "alert"]
          /\ UNCHANGED starved
       \/ /\ tick[t].pc = "alert" /\ Tried(t) = {} /\ tick[t].due # NoMark
          /\ tick' = [tick EXCEPT ![t] = IdleTick]
          /\ starved' = starved \cup Starves(t)
    /\ UNCHANGED <<source, redis, lag, lock, open, cycle, heard>>

\* The database refuses to close one of the Detections.
CloseLost(t) ==
    /\ tick[t].pc = "close"
    /\ Fails
    /\ \E lost \in Closing(t) : open' = open \ (Closing(t) \ {lost})
    /\ tick' = [tick EXCEPT ![t].pc = From("close", tick[t])]
    /\ UNCHANGED <<source, redis, lag, lock, cycle, silence>>

\* record() raises: the key is left for the next tick, the budget is not spent.
RecordLost(t) ==
    /\ tick[t].pc = "alert"
    /\ Tried(t) # {}
    /\ Fails
    /\ LET k == Min(Tried(t))
       IN  /\ tick' = [tick EXCEPT ![t].silent = @ \ {k}]
           /\ Hears({k})
    /\ UNCHANGED <<source, redis, lag, lock, open, cycle>>

\* The hashes are lost (expired, evicted): the vigil starts over.
Wipe ==
    /\ Fails
    /\ seen' = [k \in Keys |-> Absent]
    /\ alerted' = NoMark
    /\ beat' = ObserverMaxAge + 1
    /\ heard' = {} /\ starved' = {}
    /\ UNCHANGED <<source, own, lag, lock, open, cycle, tick>>

\* An analyst closes the Detection (PATCH /detections).
AnalystCloses(k) ==
    /\ k \in open
    /\ open' = open \ {k}
    /\ UNCHANGED <<source, redis, lag, lock, cycle, tick, silence, faults>>

-----------------------------------------------------------------------------
\* Ages beyond what any guard tells apart are the same.
Older(a, top) == IF a = Absent THEN Absent ELSE Min({a + 1, top})

\* An event the cycle has not read by then was held back by more than the
\* heartbeat and the watermark allow for.
Reach == Max({Deadline, ObserverMaxAge + CycleMax})

\* A period passes: it had its tick, which is over, and so is a cycle that is
\* due.  That this cycle is not flushed for longer than ObserverMaxAge is a
\* fault.
Pass ==
    /\ lock /\ \A t \in Tickers : ~Running(t)
    /\ cyc.pc = "idle" \/ age < CycleMax
    /\ IF own >= ObserverMaxAge THEN Fails ELSE UNCHANGED faults
    /\ waiting' = [k \in Keys |-> Older(waiting[k], Reach + 1)]
    /\ seen' = [k \in Keys |-> Older(seen[k], Forget + 1)]
    /\ beat' = Older(beat, ObserverMaxAge + 1)
    /\ own' = Older(own, ObserverMaxAge + 1)
    /\ lag' = Older(lag, Reach + 1)
    /\ age' = IF cyc.pc = "idle" THEN 0 ELSE age + 1
    /\ lock' = FALSE
    /\ UNCHANGED <<hidden, alerted, open, cyc, tick, silence>>

Cycle == Collect \/ SaveState \/ Count \/ Flush

Tick(t) ==
    \/ Begin(t) \/ Read(t) \/ Held(t) \/ Unwatch(t) \/ Close(t) \/ Unmark(t)
    \/ Bump(t) \/ Alert(t) \/ Mark(t)

Fault ==
    \/ CollectFails \/ FlushLost \/ NoTick \/ Wipe
    \/ \E t \in Tickers :
        \/ BeginUnlocked(t) \/ TickDies(t)
        \/ WriteLost(t) \/ CloseLost(t) \/ RecordLost(t)

Next ==
    \/ Pass \/ Cycle \/ Stranger \/ Fault
    \/ \E t \in Tickers : Tick(t)
    \/ \E k \in Keys : Happen(k) \/ AnalystCloses(k)

\* Collection cycles run at their cadence, the beat fires the tick, and time
\* passes.  Nothing is assumed of the source.
Fairness == SF_vars(Pass) /\ WF_vars(Cycle) /\ WF_vars(\E t \in Tickers : Tick(t))

Spec == Init /\ [][Next]_vars /\ Fairness

-----------------------------------------------------------------------------
Ages(top) == {Absent} \cup 0..top

\* The hashes hold ages and marks, the database an open Detection or none,
\* and a tick works on disjoint sets of keys.
TypeOK ==
    /\ waiting \in [Keys -> Ages(Reach + 1)] /\ hidden \subseteq Keys
    /\ seen \in [Keys -> Ages(Forget + 1)]
    /\ alerted \in [Keys -> Marks]
    /\ {beat, own} \subseteq 0..(ObserverMaxAge + 1) /\ lag \in Ages(Reach + 1) /\ lock \in BOOLEAN
    /\ open \subseteq Keys
    /\ cyc \in [pc : {"idle", "save", "count", "flush"}, keys : SUBSET Keys,
                known : SUBSET Keys, capped : BOOLEAN]
    /\ age \in 0..CycleMax
    /\ heard \cup starved \subseteq Keys /\ faults \in 0..MaxFaults
    /\ \A t \in Tickers :
        /\ tick[t].pc \in {"idle", "read", "unwatch", "close", "unmark", "alert"}
        /\ tick[t].forget \cup tick[t].back \cup tick[t].silent \subseteq Keys
        /\ tick[t].left \in 0..AlertBudget
        /\ {tick[t].marks, tick[t].due} \subseteq [Keys -> Marks]
        /\ tick[t].forget \cap (tick[t].back \cup tick[t].silent) = {}

\* The cycle that reads the source has not flushed for longer than the
\* heartbeat may be old, and the heartbeat is of another cycle.
Masked == own > ObserverMaxAge /\ beat < own

\* An alert says that the source is silent, not that the collection is late:
\* when a tick finds a key silent, no event of it has been waiting to be read
\* for longer than the window, or than the age the heartbeat may have (the
\* guards of evaluate_absence_rule).  The guards cannot tell whose heartbeat
\* it is, and a cycle that could not read the source writes one all the same:
\* a dead cycle that others mask, and events a failed one left, are excepted.
HonestAlert ==
    [][\A t \in Tickers : Read(t) =>
        \A k \in tick'[t].silent : waiting[k] <= Reach \/ k \in hidden \/ Masked]_vars

\* What absence.py says of the heartbeat: a tick that alerts has proof that
\* the observer was looking.  The code does not keep it, as
\* absence_stranger.cfg shows.
ObserverWasLooking ==
    [][\A t \in Tickers : Read(t) /\ tick'[t].silent # {} => own <= ObserverMaxAge]_vars

\* A key that is silent for long enough to be forgotten has been a candidate.
Candidates == Forget > Deadline + Grace

\* No key drops out of the vigil without a word: when a tick forgets one, its
\* silence was alerted before, or some tick of that time was held or failed,
\* or came to the key with the shared budget spent (evaluate_absence_rule).
\* A rule that forgets within the grace never alerts.
ForgottenWasAlerted ==
    [][\A t \in Tickers : Read(t) /\ Candidates => tick'[t].forget \subseteq heard \cup starved]_vars

\* What the log line of a spent budget says, "ficam para o proximo tique": the
\* key has its turn before it is forgotten.  The code does not keep it, as
\* absence_starved.cfg shows.
LeftForNextTick ==
    [][\A t \in Tickers : Read(t) /\ Candidates => tick'[t].forget \subseteq heard]_vars

\* Between ticks an open Detection is the one the mark of its key names, so
\* that the return of the key can close it (newly_alerted, the order of
\* HDEL and close), as long as no write failed.
OpenIsMarked ==
    faults = 0 /\ (\A t \in Tickers : ~Running(t)) =>
        \A k \in open : alerted[k] = Newest

\* An alert ends: a Detection that its mark names is closed, because the key
\* came back or was forgotten, however often events, ticks and cycles cross.
\* A key that is not watched is not looked at: a fault between forgetting it
\* and closing, or a vigil lost under a running tick, may leave its alert open.
AlertsEnd ==
    \A k \in Keys : []<>\/ k \notin open
                        \/ alerted[k] # Newest
                        \/ seen[k] = Absent /\ faults > 0

=============================================================================
