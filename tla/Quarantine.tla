------------------------------ MODULE Quarantine ------------------------------
(***************************************************************************)
(* The quarantine: intake by the collection cycle under a write budget per *)
(* reason (pipeline._make_quarantine_budget, quarantine.send_to_quarantine)*)
(* and the replay of its rows, by the API one at a time                    *)
(* (routers/quarantine.reprocess) or in bulk by Celery tasks               *)
(* (tasks.reprocess_quarantine_event), racing each other, discards and     *)
(* retention.                                                              *)
(*                                                                         *)
(* A replay reads the row, applies the mapping that is current, hands the  *)
(* event to each destination it is routed to, and then marks the row.      *)
(***************************************************************************)
EXTENDS Integers, FiniteSets

CONSTANTS
    Events,       \* events that fail normalisation
    Kinds,        \* the reasons: error_kind
    KindOf,       \* the reason of each
    Cap,          \* QUARANTINE_MAX_PER_KIND_PER_RUN
    Truncated,    \* events over QUARANTINE_RAW_MAX_BYTES
    Dests,        \* destinations an event is routed to
    DropNewest,   \* those that shed a batch when their queue is at its ceiling
    Replays,      \* API requests and tasks that run at a time
    MaxRequests,  \* bound on replays asked for
    MaxFaults     \* bound on crashes and errors

ASSUME QuarantineAssumption ==
    /\ IsFiniteSet(Events) /\ IsFiniteSet(Replays) /\ KindOf \in [Events -> Kinds]
    /\ Cap \in Nat /\ MaxRequests \in Nat /\ MaxFaults \in Nat

VARIABLES
    handled,   \* events of the cycle that went to the quarantine
    writes,    \* the budget's counter of each reason
    tried,     \* events of the cycle an insert was tried for
    row,       \* "none", "held", "marked" (reprocessed_at) or "gone"
    expired,   \* held events whose expires_at has passed
    mapped,    \* reasons events no longer fail for
    messages,  \* reprocess_quarantine_event messages of an event
    run,       \* a replay: pc, event, task and the destinations still to do
    sent,      \* pairs of event and destination handed to dispatch
    told,      \* events a replay gave a new error, or whose task failed
    requests, faults

intake == <<handled, writes, tried>>
world  == <<expired, mapped>>
counts == <<requests, faults>>
vars   == <<intake, row, world, messages, run, sent, told, counts>>

Idle == [pc |-> "idle"]
Working == [pc : {"read", "send"}, event : Events, task : BOOLEAN, todo : SUBSET Dests]

Init ==
    /\ handled = {} /\ writes = [k \in Kinds |-> 0] /\ tried = {}
    /\ row = [e \in Events |-> "none"] /\ expired = {} /\ mapped = {}
    /\ messages = [e \in Events |-> 0] /\ run = [r \in Replays |-> Idle]
    /\ sent = {} /\ told = {}
    /\ requests = 0 /\ faults = 0

-----------------------------------------------------------------------------
(* Intake.                                                                 *)

\* Mutant: one budget for all the reasons.
SpentShared(k) == \E j \in Kinds : writes[j] >= Cap

\* The budget of the reason is spent.
Spent(k) == writes[k] >= Cap

\* One more write, or the first refusal, which is logged and counted.
Count(k) == IF writes[k] <= Cap THEN writes[k] + 1 ELSE writes[k]

\* An event fails; within the budget its row is inserted, best effort.
Fail(e) ==
    /\ e \notin handled
    /\ handled' = handled \cup {e}
    /\ writes' = [writes EXCEPT ![KindOf[e]] = Count(KindOf[e])]
    /\ IF Spent(KindOf[e]) THEN UNCHANGED <<tried, row, faults>>
       ELSE /\ tried' = tried \cup {e}
            /\ \/ row' = [row EXCEPT ![e] = "held"] /\ UNCHANGED faults
               \/ /\ faults < MaxFaults /\ faults' = faults + 1
                  /\ UNCHANGED row
    /\ UNCHANGED <<world, messages, run, sent, told, requests>>

-----------------------------------------------------------------------------
(* What else happens to a row.                                             *)

\* Discarded by an operator, pruned by retention, or deleted with its integration.
Delete(e) ==
    /\ row[e] \in {"held", "marked"}
    /\ row' = [row EXCEPT ![e] = "gone"]
    /\ UNCHANGED <<intake, world, messages, run, sent, told, counts>>

Expire(e) ==
    /\ row[e] = "held" /\ e \notin expired
    /\ expired' = expired \cup {e}
    /\ UNCHANGED <<intake, row, mapped, messages, run, sent, told, counts>>

\* An operator fixes what makes events fail for one reason.
Remap(k) ==
    /\ k \notin mapped
    /\ mapped' = mapped \cup {k}
    /\ UNCHANGED <<intake, row, expired, messages, run, sent, told, counts>>

Replayable(e) == row[e] = "held" /\ e \notin expired

\* bulk_reprocess.
Request(e) ==
    /\ requests < MaxRequests /\ requests' = requests + 1
    /\ Replayable(e)
    /\ messages' = [messages EXCEPT ![e] = @ + 1]
    /\ UNCHANGED <<intake, row, world, run, sent, told, faults>>

-----------------------------------------------------------------------------
(* Replays.                                                                *)

Set(r, v) == run' = [run EXCEPT ![r] = v]

\* The task is over and its message acknowledged; the API just answers.
Acked(r) == IF run[r].task THEN [messages EXCEPT ![run[r].event] = @ - 1] ELSE messages

\* Messages of an event no task has in hand.
Running(e) == {r \in Replays : run[r].pc # "idle" /\ run[r].event = e /\ run[r].task}
Pending(e) == messages[e] > Cardinality(Running(e))

\* reprocess: an operator asks for one event, which is read.
Click(r, e) ==
    /\ run[r] = Idle
    /\ requests < MaxRequests /\ requests' = requests + 1
    /\ Replayable(e)
    /\ Set(r, [pc |-> "read", event |-> e, task |-> FALSE, todo |-> {}])
    /\ UNCHANGED <<intake, row, world, messages, sent, told, faults>>

\* reprocess_quarantine_event takes a message and reads the row.
Take(r, e) ==
    /\ run[r] = Idle
    /\ Pending(e)
    /\ IF Replayable(e)
       THEN /\ Set(r, [pc |-> "read", event |-> e, task |-> TRUE, todo |-> {}])
            /\ UNCHANGED messages
       ELSE /\ messages' = [messages EXCEPT ![e] = @ - 1]
            /\ UNCHANGED run
    /\ UNCHANGED <<intake, row, world, sent, told, counts>>

\* attempt_reprocess fails: the error of the row is updated, unless it is gone.
Refuse(r) ==
    /\ run[r].pc = "read"
    /\ run[r].event \in Truncated \/ KindOf[run[r].event] \notin mapped
    /\ IF row[run[r].event] = "gone" THEN UNCHANGED told
       ELSE told' = told \cup {run[r].event}
    /\ Set(r, Idle) /\ messages' = Acked(r)
    /\ UNCHANGED <<intake, row, world, sent, counts>>

\* Mutant: what was cut is replayed too.
AttemptCut(r) ==
    /\ run[r].pc = "read"
    /\ KindOf[run[r].event] \in mapped
    /\ Set(r, [run[r] EXCEPT !.pc = "send", !.todo = Dests])
    /\ UNCHANGED <<intake, row, world, messages, sent, told, counts>>

\* attempt_reprocess succeeds on a payload that was stored whole.
Attempt(r) ==
    /\ run[r].pc = "read"
    /\ run[r].event \notin Truncated /\ KindOf[run[r].event] \in mapped
    /\ Set(r, [run[r] EXCEPT !.pc = "send", !.todo = Dests])
    /\ UNCHANGED <<intake, row, world, messages, sent, told, counts>>

\* _enqueue_dispatch, one destination after the other; one that sheds says nothing.
Enqueue(r) ==
    /\ run[r].pc = "send"
    /\ \E d \in run[r].todo :
         /\ \/ sent' = sent \cup {<<run[r].event, d>>}
            \/ d \in DropNewest /\ UNCHANGED sent
         /\ Set(r, [run[r] EXCEPT !.todo = @ \ {d}])
    /\ UNCHANGED <<intake, row, world, messages, told, counts>>

\* The task or the request fails: the message is gone, the row as it was.
Abandon(r) ==
    /\ Set(r, Idle) /\ messages' = Acked(r)
    /\ told' = IF run[r].task THEN told \cup {run[r].event} ELSE told
    /\ UNCHANGED <<intake, world, sent>>

\* Mutant: the row is marked as soon as the mapping applied.
CommitEarly(r) ==
    /\ run[r].pc = "send"
    /\ row[run[r].event] # "gone"
    /\ row' = [row EXCEPT ![run[r].event] = "marked"]
    /\ Set(r, Idle) /\ messages' = Acked(r)
    /\ UNCHANGED <<intake, world, sent, told, counts>>

\* Mutant: the row is written back if it is gone.
CommitMerged(r) ==
    /\ run[r].pc = "send" /\ run[r].todo = {}
    /\ row' = [row EXCEPT ![run[r].event] = "marked"]
    /\ Set(r, Idle) /\ messages' = Acked(r)
    /\ UNCHANGED <<intake, world, sent, told, counts>>

\* reprocessed_at is committed after the last hand-over.
Commit(r) ==
    /\ run[r].pc = "send" /\ run[r].todo = {}
    /\ row[run[r].event] # "gone"
    /\ row' = [row EXCEPT ![run[r].event] = "marked"]
    /\ Set(r, Idle) /\ messages' = Acked(r)
    /\ UNCHANGED <<intake, world, sent, told, counts>>

\* The row was deleted meanwhile: the update matches none, and the session raises.
CommitStale(r) ==
    /\ run[r].pc = "send" /\ run[r].todo = {}
    /\ row[run[r].event] = "gone"
    /\ Abandon(r)
    /\ UNCHANGED <<row, counts>>

Fault == faults < MaxFaults /\ faults' = faults + 1 /\ UNCHANGED requests

\* A broker that refuses a hand-over, or a query or commit that fails, with an error
\* Celery does not retry, or the last retry.
Error(r) ==
    /\ run[r].pc \in {"read", "send"}
    /\ Fault
    /\ Abandon(r)
    /\ UNCHANGED row

\* Mutant: the message is acknowledged when it is taken.
CrashAcked(r) ==
    /\ run[r].pc \in {"read", "send"}
    /\ Fault
    /\ Set(r, Idle) /\ messages' = Acked(r)
    /\ UNCHANGED <<intake, row, world, sent, told>>

\* The process dies, or a connection error makes Celery retry: the message stays.
Crash(r) ==
    /\ run[r].pc \in {"read", "send"}
    /\ Fault
    /\ Set(r, Idle)
    /\ UNCHANGED <<intake, row, world, messages, sent, told>>

-----------------------------------------------------------------------------
Step(r) == Refuse(r) \/ Attempt(r) \/ Enqueue(r) \/ Commit(r) \/ CommitStale(r)

Next ==
    \/ \E e \in Events : Fail(e) \/ Delete(e) \/ Expire(e) \/ Request(e)
    \/ \E k \in Kinds : Remap(k)
    \/ \E r \in Replays, e \in Events : Click(r, e) \/ Take(r, e)
    \/ \E r \in Replays : Step(r) \/ Error(r) \/ Crash(r)

\* Workers take messages and finish what they took; nothing obliges operators.
Fairness ==
    /\ \A r \in Replays : WF_vars(Step(r))
    /\ \A e \in Events : WF_vars(\E r \in Replays : Take(r, e))

Spec == Init /\ [][Next]_vars /\ Fairness

-----------------------------------------------------------------------------
(* Properties.                                                             *)

TypeOK ==
    /\ handled \subseteq Events /\ tried \subseteq handled
    /\ writes \in [Kinds -> 0..(Cap + 1)]
    /\ row \in [Events -> {"none", "held", "marked", "gone"}]
    /\ expired \subseteq Events /\ mapped \subseteq Kinds
    /\ told \subseteq Events
    /\ messages \in [Events -> 0..MaxRequests]
    /\ run \in [Replays -> {Idle} \cup Working]
    /\ sent \subseteq (Events \ Truncated) \X Dests
    /\ requests \in 0..MaxRequests /\ faults \in 0..MaxFaults

\* A row marked as reprocessed was handed to every destination but those that shed
\* load, whatever crashed, failed or ran beside the replay: no event is
\* "reprocessado mas nunca enviado".
MarkedWasSent == \A e \in Events :
    row[e] = "marked" => \A d \in Dests \ DropNewest : <<e, d>> \in sent

Of(S, k) == {e \in S : KindOf[e] = k}

\* In a cycle each reason gets the rows its own budget allows, however many events
\* fail for other reasons: a flood of one never hides the only one of another.
KindsRepresented == \A k \in Kinds :
    Cardinality(Of(tried, k)) =
        IF Cardinality(Of(handled, k)) < Cap THEN Cardinality(Of(handled, k)) ELSE Cap

\* A row that was discarded or pruned never comes back, even when a replay that had
\* read it commits later.
DeletedForGood == [][\A e \in Events : row[e] = "gone" => row'[e] = "gone"]_vars

\* A bulk replay that was accepted comes to an end the operator can see: the row is
\* marked, deleted or expired, has a new error, or its task failed.
AcceptedSettles == \A e \in Events : messages[e] > 0 ~>
    row[e] \in {"marked", "gone"} \/ e \in expired \cup told

=============================================================================
