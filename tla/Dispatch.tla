------------------------------ MODULE Dispatch ------------------------------
(***************************************************************************)
(* The life of one batch on its way to one destination:                    *)
(*   dispatch_to_destination, dispatch_to_dlq    collectors/tasks.py       *)
(*   dispatch_batch_to_destination,                                        *)
(*   _send_chunk_with_retry                      collectors/pipeline.py    *)
(*   persist_rejected_to_dlq, persist_batch_dlq  collectors/delivery.py    *)
(*                                                                         *)
(* The broker delivers a message at least once (acks_late): when its       *)
(* worker dies it goes back to the queue.  The collector may enqueue the   *)
(* same batch in a second message while the first is being worked on.  A   *)
(* message is sent chunk by chunk; it ends when every chunk is accepted or *)
(* dead-lettered, or when it is turned into a dispatch_to_dlq message.     *)
(* Two ends leave events behind, and abandoned names them: the last Celery *)
(* retry fails, and the broker refuses the message the run publishes.      *)
(* The breaker is a choice here; CircuitBreaker models it.                 *)
(***************************************************************************)
EXTENDS Integers, Sequences

CONSTANTS
    Copies,         \* messages carrying the batch
    First,          \* the one enqueued first
    Chunks,         \* _chunk_batch of the batch: a sequence of sets of events
    MaxAttempts,    \* retry.max_retries: attempts after the first, per chunk
    MaxRetries,     \* Celery's max_retries of dispatch_to_destination
    MaxTransients,  \* bound on runs that end in a retryable error
    MaxCrashes      \* bound on workers that die

ASSUME DispatchAssumption ==
    /\ First \in Copies
    /\ Len(Chunks) \in Nat \ {0}
    /\ MaxAttempts \in Nat /\ MaxRetries \in Nat
    /\ MaxTransients \in Nat /\ MaxCrashes \in Nat

Events == UNION {Chunks[i] : i \in 1..Len(Chunks)}

\* error_kind of a destination_dlq row; "none": there is no row.
Kinds == {"none", "rejected", "breaker_open", "exhausted", "destination_missing",
          "cross_tenant_destination"}

\* Why a message was let go with its events unsettled; "no": it was not.
Causes == {"no", "exhausted", "refused"}

Targets == {"live", "missing", "foreign", "shadow"}

VARIABLES
    target,      \* what _load_destination_config finds
    accepted,    \* events the sink accepted
    rows,        \* destination_dlq rows of this destination, by event
    dropped,     \* events of a dead letter whose insert failed (best-effort)
    shadowed,    \* events formatted for a shadow destination, by design unsent
    pc,          \* where each message stands
    chunk,       \* the chunk it sends
    attempt,     \* retries of that chunk so far
    retries,     \* Celery retries of the message so far
    kind,        \* error_kind of the dead letter it became
    abandoned,   \* (history) why it was let go unsettled
    transients,  \* runs that ended in a retryable error
    crashes      \* workers that died

fate  == <<accepted, rows, dropped, shadowed>>
run   == <<chunk, attempt, retries, kind>>
count == <<transients, crashes>>
vars  == <<target, fate, pc, run, abandoned, count>>

Phases == {"absent", "queued", "send", "dlq", "done"}

Init ==
    /\ target \in Targets
    /\ accepted = {} /\ dropped = {} /\ shadowed = {}
    /\ rows = [e \in Events |-> "none"]
    /\ pc = [c \in Copies |-> IF c = First THEN "queued" ELSE "absent"]
    /\ chunk = [c \in Copies |-> 1]
    /\ attempt = [c \in Copies |-> 0]
    /\ retries = [c \in Copies |-> 0]
    /\ kind = [c \in Copies |-> "none"]
    /\ abandoned = [c \in Copies |-> "no"]
    /\ transients = 0 /\ crashes = 0

Goto(c, phase) == pc' = [pc EXCEPT ![c] = phase]

\* The locals of a run die with it.
EndRun(c) ==
    /\ chunk' = [chunk EXCEPT ![c] = 1]
    /\ attempt' = [attempt EXCEPT ![c] = 0]

\* The task fails: its message is acknowledged and nothing else carries the batch.
LetGo(c, why) ==
    /\ Goto(c, "done")
    /\ abandoned' = [abandoned EXCEPT ![c] = why]

\* The run ends by publishing a message, its own retry or a dead letter.  apply_async
\* may raise, which fails the task.
Publish(c, phase) ==
    \/ Goto(c, phase) /\ UNCHANGED abandoned
    \/ LetGo(c, "refused")

-----------------------------------------------------------------------------
(* delivery.py: dead letters.                                              *)

\* One row per (destination, event): inserted, or its error_kind overwritten.
Upsert(es, k) == rows' = [e \in Events |-> IF e \in es THEN k ELSE rows[e]]

\* persist_batch_dlq: every caller ignores its result.
PersistBatch(k) ==
    \/ Upsert(Events, k) /\ UNCHANGED dropped
    \/ dropped' = dropped \cup Events /\ UNCHANGED rows

-----------------------------------------------------------------------------
(* dispatch_batch_to_destination: the destination is resolved.             *)

\* The configuration changes between the enqueue and the dispatch.
Reconfigure ==
    /\ target' \in Targets \ {target}
    /\ UNCHANGED <<fate, pc, run, abandoned, count>>

\* The destination is gone, disabled, or belongs to another organization.
Undeliverable(c) ==
    /\ pc[c] = "queued"
    /\ \/ target = "missing" /\ PersistBatch("destination_missing")
       \/ target = "foreign" /\ PersistBatch("cross_tenant_destination")
    /\ Goto(c, "done")
    /\ UNCHANGED <<target, accepted, shadowed, run, abandoned, count>>

\* delivery.shadow: format and measure only.
Shadow(c) ==
    /\ pc[c] = "queued"
    /\ target = "shadow"
    /\ shadowed' = shadowed \cup Events
    /\ Goto(c, "done")
    /\ UNCHANGED <<target, accepted, rows, dropped, run, abandoned, count>>

Start(c) ==
    /\ pc[c] = "queued"
    /\ target = "live"
    /\ Goto(c, "send")
    /\ UNCHANGED <<target, fate, run, abandoned, count>>

-----------------------------------------------------------------------------
(* _send_chunk_with_retry: one attempt at the current chunk.               *)

\* Mutant: one chunk too many.
AdvancePast(c) ==
    /\ IF chunk[c] <= Len(Chunks)
         THEN /\ chunk' = [chunk EXCEPT ![c] = @ + 1]
              /\ attempt' = [attempt EXCEPT ![c] = 0]
              /\ UNCHANGED pc
         ELSE Goto(c, "done") /\ EndRun(c)
    /\ UNCHANGED <<retries, kind, abandoned>>

\* The chunk is finished: the next one, or the end of the message.
Advance(c) ==
    /\ IF chunk[c] < Len(Chunks)
         THEN /\ chunk' = [chunk EXCEPT ![c] = @ + 1]
              /\ attempt' = [attempt EXCEPT ![c] = 0]
              /\ UNCHANGED pc
         ELSE Goto(c, "done") /\ EndRun(c)
    /\ UNCHANGED <<retries, kind, abandoned>>

\* The error reaches Celery: autoretry publishes the message again; past max_retries
\* the task fails, and the message is acknowledged without a dead letter.
Transient(c) ==
    /\ transients < MaxTransients
    /\ transients' = transients + 1
    /\ IF retries[c] < MaxRetries
         THEN /\ Publish(c, "queued")
              /\ retries' = [retries EXCEPT ![c] = @ + 1]
         ELSE /\ LetGo(c, "exhausted")
              /\ UNCHANGED retries
    /\ EndRun(c)
    /\ UNCHANGED <<kind, crashes>>

Sending(c) ==
    /\ pc[c] = "send"
    /\ UNCHANGED <<target, shadowed>>

\* Accepted as a whole.
Accept(c) ==
    /\ Sending(c)
    /\ accepted' = accepted \cup Chunks[chunk[c]]
    /\ Advance(c)
    /\ UNCHANGED <<rows, dropped, count>>

\* Mutant: the rejects count as handled even when their rows were not written.
RejectUnchecked(c) == \E es \in SUBSET Chunks[chunk[c]] \ {{}} :
    /\ Sending(c)
    /\ accepted' = accepted \cup (Chunks[chunk[c]] \ es)
    /\ \/ Upsert(es, "rejected") /\ Advance(c) /\ UNCHANGED count
       \/ UNCHANGED rows /\ Advance(c) /\ UNCHANGED count
    /\ UNCHANGED dropped

\* Some events are rejected for good and get a row each; when the rows cannot
\* be written the whole message is retried.
Reject(c) == \E es \in SUBSET Chunks[chunk[c]] \ {{}} :
    /\ Sending(c)
    /\ accepted' = accepted \cup (Chunks[chunk[c]] \ es)
    /\ \/ Upsert(es, "rejected") /\ Advance(c) /\ UNCHANGED count
       \/ UNCHANGED rows /\ Transient(c)
    /\ UNCHANGED dropped

\* Timeout or retryable answer, whatever the sink took of the chunk: another
\* attempt after the backoff, or the retryable error.
Retry(c) == \E es \in SUBSET Chunks[chunk[c]] :
    /\ Sending(c)
    /\ accepted' = accepted \cup es
    /\ \/ /\ attempt[c] < MaxAttempts
          /\ attempt' = [attempt EXCEPT ![c] = @ + 1]
          /\ UNCHANGED <<pc, chunk, retries, kind, abandoned, count>>
       \/ Transient(c)
    /\ UNCHANGED <<rows, dropped>>

\* BreakerOpen before an attempt, or an unexpected error: the whole batch
\* becomes a dispatch_to_dlq message.
DeadLetter(c, k) ==
    /\ pc[c] = "send"
    /\ Publish(c, "dlq")
    /\ EndRun(c)
    /\ kind' = [kind EXCEPT ![c] = k]
    /\ UNCHANGED <<target, fate, retries, count>>

BreakerOpen(c) == DeadLetter(c, "breaker_open")
Unexpected(c)  == DeadLetter(c, "exhausted")

-----------------------------------------------------------------------------
(* dispatch_to_dlq, and the broker.                                        *)

DispatchToDlq(c) ==
    /\ pc[c] = "dlq"
    /\ PersistBatch(kind[c])
    /\ Goto(c, "done")
    /\ UNCHANGED <<target, accepted, shadowed, run, abandoned, count>>

\* Mutant: acks_late is off, the message is acknowledged before it is worked on.
CrashAcked(c) ==
    /\ pc[c] = "send"
    /\ crashes < MaxCrashes
    /\ crashes' = crashes + 1
    /\ Goto(c, "done") /\ EndRun(c)
    /\ UNCHANGED <<target, fate, retries, kind, abandoned, transients>>

\* The worker dies: the unacknowledged message returns to its queue.
Crash(c) ==
    /\ pc[c] = "send"
    /\ crashes < MaxCrashes
    /\ crashes' = crashes + 1
    /\ Goto(c, "queued") /\ EndRun(c)
    /\ UNCHANGED <<target, fate, retries, kind, abandoned, transients>>

\* A collection cycle that served this destination and then failed reads the
\* same events again and enqueues them in a second message.
EnqueueAgain(c) ==
    /\ pc[c] = "absent"
    /\ Goto(c, "queued")
    /\ UNCHANGED <<target, fate, run, abandoned, count>>

-----------------------------------------------------------------------------
Work(c) ==
    \/ Undeliverable(c) \/ Shadow(c) \/ Start(c)
    \/ Accept(c) \/ Reject(c) \/ Retry(c) \/ BreakerOpen(c) \/ Unexpected(c)
    \/ DispatchToDlq(c)

Next ==
    \/ Reconfigure
    \/ \E c \in Copies : Work(c) \/ Crash(c) \/ EnqueueAgain(c)

\* Workers consume their queues.
Fairness == \A c \in Copies : WF_vars(Work(c))

Spec == Init /\ [][Next]_vars /\ Fairness

-----------------------------------------------------------------------------
(* Properties.                                                             *)

\* Every variable stays in its domain.
TypeOK ==
    /\ target \in Targets
    /\ accepted \in SUBSET Events
    /\ dropped \in SUBSET Events /\ shadowed \in SUBSET Events
    /\ rows \in [Events -> Kinds]
    /\ pc \in [Copies -> Phases]
    /\ chunk \in [Copies -> 1..Len(Chunks)]
    /\ attempt \in [Copies -> 0..MaxAttempts]
    /\ retries \in [Copies -> 0..MaxRetries]
    /\ kind \in [Copies -> Kinds]
    /\ abandoned \in [Copies -> Causes]
    /\ transients \in 0..MaxTransients
    /\ crashes \in 0..MaxCrashes

\* The event reached the sink, a row, or one of the two documented exceptions:
\* a shadow destination and a dead letter whose insert failed.
Settled == {e \in Events : rows[e] # "none"} \cup accepted \cup dropped \cup shadowed

Live(c) == pc[c] \in {"queued", "send", "dlq"}

\* A message that ends has settled every event of the batch, unless it is one of the
\* two that are let go: chunk by chunk progress, partial rejection, a failed
\* dead-letter insert, crashes and second messages lose nothing by themselves
\* (tasks.py:158-290, pipeline.py:2862-3464).
NothingLost ==
    \A c \in Copies : pc[c] = "done" => Events \subseteq Settled \/ abandoned[c] # "no"

\* What the documentation says without exception ("Nenhuma perda silenciosa",
\* architecture.md:141): a message is live or every event is settled.  It does not
\* hold; dispatch_exhausted.cfg shows the retry that fails for the last time.
NoSilentLoss == (\E c \in Copies : Live(c)) \/ Events \subseteq Settled

\* The Celery lane keeps the contract of a lane: it owns the batch while a
\* message for it is live, and says so when it lets a message go.
Contract == INSTANCE DeliveryContract
              WITH owned <- \E c \in Copies : Live(c), settled <- Settled,
                   abandoned <- \E c \in Copies : abandoned[c] # "no"

\* The lane lets go of a batch only when all of it is settled or a message for it
\* was let go, takes no outcome back, and gets there in the end (tasks.py:148-283,
\* pipeline.py:3028-3462).
ImplementsContract == Contract!Spec

-----------------------------------------------------------------------------
(* The inductive strengthening behind DispatchProofs.                      *)

\* Chunks already passed are settled.
PassedSettled ==
    \A c \in Copies : pc[c] = "send" =>
        \A i \in 1..Len(Chunks) : i < chunk[c] => Chunks[i] \subseteq Settled

\* A message that is not being sent is before its first chunk.
RunFresh == \A c \in Copies : pc[c] # "send" => chunk[c] = 1

\* A message is never retried more often than a run of it failed, and is exhausted
\* only by one failure more than there are retries.
RetriesCounted ==
    \A c \in Copies :
        /\ retries[c] <= transients
        /\ abandoned[c] = "exhausted" => retries[c] = MaxRetries /\ MaxRetries < transients

\* Only a message that ended was let go.
AbandonedEnded == \A c \in Copies : abandoned[c] # "no" => pc[c] = "done"

\* A dead letter knows why it is one, and the batch was handed over.
KindKnown == \A c \in Copies : pc[c] = "dlq" => kind[c] # "none"
HandedOver == pc[First] # "absent"

DispatchInv ==
    /\ TypeOK
    /\ NothingLost /\ PassedSettled /\ RunFresh /\ RetriesCounted /\ AbandonedEnded
    /\ KindKnown /\ HandedOver

=============================================================================
