------------------------------ MODULE DlqDrain ------------------------------
(***************************************************************************)
(* Reprocessing the dead letters of one destination:                       *)
(*   drain_destination_dlq                       collectors/tasks.py       *)
(*   DestinationRepository (the DLQ methods)     db/repository.py          *)
(*   persist_rejected_to_dlq, persist_batch_dlq  collectors/delivery.py    *)
(*                                                                         *)
(* A drain lists the rows, and lot by lot stamps them "reprocessing",      *)
(* dispatches their events, reads the rows again and deletes those whose   *)
(* stamp survived: whoever refuses an event rewrites its row.  Live        *)
(* traffic dead-letters events into the same table meanwhile, retention    *)
(* deletes old rows from it, and other drains work on the same rows.       *)
(***************************************************************************)
EXTENDS Integers, FiniteSets

CONSTANTS
    Drains,       \* drain tasks that may run at the same time
    Events,       \* events of this destination
    Blank,        \* events whose row has no payload
    Garbled,      \* events whose payload is not JSON
    LotSize,      \* _DRENO_TAMANHO_LOTE
    MaxPerRun,    \* _DRENO_MAX_POR_EXECUCAO
    MaxGen,       \* bound on the rows an event ever gets
    MaxFaults     \* bound on refusals, failed dispatches and dead workers

ASSUME DrainAssumption ==
    /\ Blank \subseteq Events /\ Garbled \subseteq Events
    /\ LotSize \in Nat \ {0} /\ MaxPerRun \in Nat \ {0}
    /\ MaxGen \in Nat /\ MaxFaults \in Nat

Kinds == {"error", "reprocessing"}

\* A row of destination_dlq (db/models.py:1533-1575); its primary key is
\* <<event, gen>>: deleted rows never come back.
Row == [event : Events, gen : 1..MaxGen, kind : Kinds]
Key == Events \X (1..MaxGen)

VARIABLES
    rows,       \* destination_dlq, the rows of this destination
    gen,        \* rows each event had so far
    fate,       \* history: what last happened to the event that may end its row
    tried,      \* events of a dispatch the breaker let through
    faults,     \* faults so far
    pc,         \* where each drain stands
    want,       \* event_ids of the task
    rest,       \* rows left for the continuation
    todo,       \* candidates not yet in a lot
    lot,        \* the current lot
    gone        \* rows found with their stamp intact

table == <<rows, gen, fate>>
task  == <<want, rest, todo, lot, gone>>
vars  == <<table, tried, faults, pc, task>>

\* The sink accepted the event; its dispatch sent nothing; another drain stamped
\* its row between a drain's dispatch and its reading; retention deleted the row.
Fates  == {"none", "delivered", "unsent", "restamped", "purged"}
Phases == {"off", "queued", "stamp", "send", "read", "delete"}

Init ==
    /\ rows = {} /\ tried = {}
    /\ gen = [e \in Events |-> 0]
    /\ fate = [e \in Events |-> "none"]
    /\ faults = 0
    /\ pc = [d \in Drains |-> "off"]
    /\ want = [d \in Drains |-> {}]
    /\ rest = [d \in Drains |-> {}]
    /\ todo = [d \in Drains |-> {}]
    /\ lot = [d \in Drains |-> {}]
    /\ gone = [d \in Drains |-> {}]

Goto(d, phase) == pc' = [pc EXCEPT ![d] = phase]
KeyOf(r) == <<r.event, r.gen>>
EventsOf(keys) == {k[1] : k \in keys}
HasRow(e) == \E r \in rows : r.event = e

\* The events es that have a row and are not delivered yet meet their fate; a new
\* row starts without one.
Meet(es, what) ==
    fate' = [e \in Events |->
                IF gen'[e] # gen[e] THEN "none"
                ELSE IF e \in es /\ HasRow(e) /\ fate[e] # "delivered" THEN what
                ELSE fate[e]]

Fault ==
    /\ faults < MaxFaults
    /\ faults' = faults + 1

-----------------------------------------------------------------------------
(* delivery.py: INSERT, and on the unique constraint UPDATE.               *)

\* Mutant: on conflict the existing row is left as it is.
UpsertSkipping(es) ==
    LET fresh == {e \in es : ~HasRow(e)}
    IN  /\ \A e \in fresh : gen[e] < MaxGen
        /\ rows' = rows \cup {[event |-> e, gen |-> gen[e] + 1, kind |-> "error"] : e \in fresh}
        /\ gen' = [e \in Events |-> IF e \in fresh THEN gen[e] + 1 ELSE gen[e]]

\* Mutant: no unique constraint, every dead letter is a new row.
UpsertAppending(es) ==
    /\ \A e \in es : gen[e] < MaxGen
    /\ rows' = rows \cup {[event |-> e, gen |-> gen[e] + 1, kind |-> "error"] : e \in es}
    /\ gen' = [e \in Events |-> IF e \in es THEN gen[e] + 1 ELSE gen[e]]

Upsert(es) ==
    LET fresh == {e \in es : ~HasRow(e)}
    IN  /\ \A e \in fresh : gen[e] < MaxGen
        /\ rows' = {IF r.event \in es THEN [r EXCEPT !.kind = "error"] ELSE r : r \in rows}
              \cup {[event |-> e, gen |-> gen[e] + 1, kind |-> "error"] : e \in fresh}
        /\ gen' = [e \in Events |-> IF e \in fresh THEN gen[e] + 1 ELSE gen[e]]

\* Dispatch of live traffic gives up on an event.
LiveDeadLetter(e) ==
    /\ Upsert({e})
    /\ Meet({}, "none")
    /\ UNCHANGED <<tried, faults, pc, task>>

\* prune_expired_destination_dlq: rows past the retention, by one DELETE; a row is
\* any age here.
Purge == \E old \in SUBSET rows \ {{}} :
    /\ rows' = rows \ old
    /\ UNCHANGED <<gen, tried, faults, pc, task>>
    /\ Meet({r.event : r \in old}, "purged")

-----------------------------------------------------------------------------
(* drain_destination_dlq: the prologue.                                    *)

\* POST .../dlq/reprocess: all rows, or the given event_ids that have one; no
\* task when there is none.  Nothing keeps a second task from being queued.
Request(d) == \E es \in SUBSET {e \in Events : HasRow(e)} \ {{}} :
    /\ pc[d] = "off"
    /\ Goto(d, "queued")
    /\ want' = [want EXCEPT ![d] = es]
    /\ UNCHANGED <<table, tried, faults, rest, todo, lot, gone>>

\* The lots are done: the next one, the continuation, or the end.
Proceed(d, keys, left) ==
    /\ todo' = [todo EXCEPT ![d] = keys]
    /\ rest' = [rest EXCEPT ![d] = left]
    /\ lot' = [lot EXCEPT ![d] = {}]
    /\ gone' = [gone EXCEPT ![d] = {}]
    /\ IF keys # {}
         THEN Goto(d, "stamp") /\ UNCHANGED want
         ELSE /\ Goto(d, IF left # {} THEN "queued" ELSE "off")
              /\ want' = [want EXCEPT ![d] = left]

\* list_dlq_for_reprocess, the ceiling per run, and the payload checks: a row
\* without payload is deleted, one that does not parse gets its error.
List(d) ==
    LET listed == {r \in rows : r.event \in want[d]}
    IN  \E taken \in SUBSET listed :
          /\ pc[d] = "queued"
          /\ IF Cardinality(listed) <= MaxPerRun
               THEN taken = listed
               ELSE Cardinality(taken) = MaxPerRun
          /\ rows' = {IF r \in taken /\ r.event \in Garbled
                        THEN [r EXCEPT !.kind = "error"] ELSE r :
                      r \in {r \in rows : ~(r \in taken /\ r.event \in Blank)}}
          /\ Proceed(d, {KeyOf(r) : r \in {r \in taken : r.event \notin Blank \cup Garbled}},
                     {r.event : r \in listed \ taken})
          /\ UNCHANGED <<gen, fate, tried, faults>>

\* The keys other drains have dispatched and not read back.
Unread(d) == UNION {lot[c] : c \in {c \in Drains \ {d} : pc[c] = "read"}}

\* marcar_dlq_em_reprocesso(ids_lote): one UPDATE by primary key
\* (db/repository.py:3197-3223), whatever the rows say.
Stamp(d) == \E keys \in SUBSET todo[d] :
    /\ pc[d] = "stamp"
    /\ IF Cardinality(todo[d]) <= LotSize
         THEN keys = todo[d]
         ELSE Cardinality(keys) = LotSize
    /\ lot' = [lot EXCEPT ![d] = keys]
    /\ todo' = [todo EXCEPT ![d] = @ \ keys]
    /\ rows' = {IF KeyOf(r) \in keys THEN [r EXCEPT !.kind = "reprocessing"] ELSE r :
                r \in rows}
    /\ Goto(d, "send")
    /\ UNCHANGED <<gen, tried, faults, want, rest, gone>>
    /\ Meet(EventsOf(keys \cap Unread(d)), "restamped")

-----------------------------------------------------------------------------
(* dispatch_batch_to_destination(destination_id, envelopes).               *)

\* It returns: what the sink did not accept was rejected, and rewritten.  A
\* missing or foreign destination accepts nothing and rewrites all.
SendReturns(d) == \E ok \in SUBSET EventsOf(lot[d]) :
    /\ pc[d] = "send"
    /\ Upsert(EventsOf(lot[d]) \ ok)
    /\ Meet(ok, "delivered")
    /\ tried' = tried \cup EventsOf(lot[d])
    /\ Goto(d, "read")
    /\ UNCHANGED <<faults, task>>

\* It returns without having sent or rewritten anything: a shadow destination,
\* or a missing one while the DLQ write fails.
SendSkipped(d) ==
    /\ pc[d] = "send"
    /\ tried' = tried \cup EventsOf(lot[d])
    /\ Goto(d, "read")
    /\ UNCHANGED <<rows, gen, faults, task>>
    /\ Meet(EventsOf(lot[d]), "unsent")

\* Mutant: the lot the breaker refused is not part of the continuation.
RemainderWithoutLot(d) == EventsOf(todo[d]) \cup rest[d]

\* restantes = candidatos[inicio:] + restantes
Remainder(d) == EventsOf(lot[d] \cup todo[d]) \cup rest[d]

\* BreakerOpen, perhaps after the first chunks: the lot is rewritten, unless
\* the write fails, and everything left waits for the continuation.
SendRefused(d) == \E ok \in SUBSET EventsOf(lot[d]) :
    /\ pc[d] = "send"
    /\ Fault
    /\ Upsert(EventsOf(lot[d])) \/ UNCHANGED <<rows, gen>>
    /\ Meet(ok, "delivered")
    /\ Proceed(d, {}, Remainder(d))
    /\ UNCHANGED tried

\* Any other exception: the lot is rewritten, unless the write fails, and the
\* next lot follows.
SendFails(d) == \E ok \in SUBSET EventsOf(lot[d]) :
    /\ pc[d] = "send"
    /\ Fault
    /\ Upsert(EventsOf(lot[d])) \/ UNCHANGED <<rows, gen>>
    /\ Meet(ok, "delivered")
    /\ tried' = tried \cup EventsOf(lot[d])
    /\ Proceed(d, todo[d], rest[d])

-----------------------------------------------------------------------------
(* The outcome per event, and the end of the task.                         *)

\* dlq_error_kinds (db/repository.py:3225-3236): a missing row counts like one
\* whose stamp survived.
Read(d) ==
    /\ pc[d] = "read"
    /\ gone' = [gone EXCEPT ![d] =
          {k \in lot[d] : \A r \in rows : KeyOf(r) = k => r.kind = "reprocessing"}]
    /\ Goto(d, "delete")
    /\ UNCHANGED <<table, tried, faults, want, rest, todo, lot>>

\* delete_dlq_entries(entregues): by primary key, whatever the row says now
\* (db/repository.py:3238-3248).
Delete(d) ==
    /\ pc[d] = "delete"
    /\ rows' = {r \in rows : KeyOf(r) \notin gone[d]}
    /\ Proceed(d, todo[d], rest[d])
    /\ UNCHANGED <<gen, fate, tried, faults>>

\* The worker dies; acks_late runs the task again from the beginning.
Crash(d) ==
    /\ pc[d] \notin {"off", "queued"}
    /\ Fault
    /\ Goto(d, "queued")
    /\ rest' = [rest EXCEPT ![d] = {}]
    /\ todo' = [todo EXCEPT ![d] = {}]
    /\ lot' = [lot EXCEPT ![d] = {}]
    /\ gone' = [gone EXCEPT ![d] = {}]
    /\ UNCHANGED <<table, tried, want>>

-----------------------------------------------------------------------------
Work(d) ==
    \/ List(d) \/ Stamp(d)
    \/ SendReturns(d) \/ SendSkipped(d) \/ SendRefused(d) \/ SendFails(d)
    \/ Read(d) \/ Delete(d)

Next ==
    \/ \E e \in Events : LiveDeadLetter(e)
    \/ Purge
    \/ \E d \in Drains : Request(d) \/ Work(d) \/ Crash(d)

\* The queue dispatch.dlq is consumed.
Fairness == \A d \in Drains : WF_vars(Work(d))

Spec == Init /\ [][Next]_vars /\ Fairness

-----------------------------------------------------------------------------
(* Properties.                                                             *)

\* Every variable stays in its domain, and (destination_id, event_id) is unique
\* in the table (uq_dest_dlq_dest_event).
TypeOK ==
    /\ rows \in SUBSET Row
    /\ \A r, s \in rows : r.event = s.event => r = s
    /\ gen \in [Events -> 0..MaxGen]
    /\ fate \in [Events -> Fates] /\ tried \in SUBSET Events
    /\ faults \in 0..MaxFaults
    /\ pc \in [Drains -> Phases]
    /\ want \in [Drains -> SUBSET Events] /\ rest \in [Drains -> SUBSET Events]
    /\ todo \in [Drains -> SUBSET Key] /\ lot \in [Drains -> SUBSET Key]
    /\ gone \in [Drains -> SUBSET Key]

\* The events with a payload whose last row left the table.
Rowless == {e \in Events \ Blank : gen[e] > 0 /\ ~HasRow(e)}

\* A row with a payload leaves the table only once the sink accepted the event or
\* retention deleted the row, through any number of drains, refusals, failed writes
\* and crashes; a drain loses one only when its dispatch sent nothing, or when
\* another drain stamps the row between this one's dispatch and its reading
\* (tasks.py:475-480, 538-596).
NoRowLost == \A e \in Rowless : fate[e] # "none"

\* What tasks.py:475 says of the outcome, "sem perder evento": refuted by a shadow
\* destination (drain_unsent.cfg).
OutcomeIsTrue == \A e \in Rowless : fate[e] # "unsent"

\* What repository.py:3183-3184 says of two drains, "concurrent reprocess tasks
\* converge safely": refuted by two drains of one row (drain_concurrent.cfg).
DrainsConverge == \A e \in Rowless : fate[e] # "restamped"

\* Every row a drain was asked for is dispatched once the breaker and the
\* workers stop failing it, through lots, ceilings and continuations, or is
\* gone or unreadable by then (tasks.py:480-610).
RequestedTried ==
    \A e \in Events \ (Blank \cup Garbled) : \A d \in Drains :
        (pc[d] = "queued" /\ e \in want[d]) ~> (e \in tried \/ ~HasRow(e))

-----------------------------------------------------------------------------
(* The inductive strengthening behind DlqDrainProofs.                      *)

\* The keys in the table and in a drain's hands have been given out, so that a
\* new row never has one of them.
KeysIssued ==
    /\ \A r \in rows : r.gen <= gen[r.event]
    /\ \A d \in Drains : \A k \in todo[d] \cup lot[d] \cup gone[d] : k[2] <= gen[k[1]]

\* After the dispatch a surviving stamp means that the event met its fate, and so
\* does a row about to be deleted.
StampSpeaksFor(d) ==
    \A r \in rows :
        /\ pc[d] = "read" /\ KeyOf(r) \in lot[d] /\ r.kind = "reprocessing"
              => fate[r.event] # "none"
        /\ pc[d] = "delete" /\ KeyOf(r) \in gone[d] => fate[r.event] # "none"

StampMeansFate == \A d \in Drains : StampSpeaksFor(d)

DrainInv == TypeOK /\ NoRowLost /\ KeysIssued /\ StampMeansFate

=============================================================================
