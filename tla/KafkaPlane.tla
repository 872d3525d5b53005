----------------------------- MODULE KafkaPlane -----------------------------
(***************************************************************************)
(* The Kafka data plane (collectors/dataplane/kafka_transport.py): the     *)
(* lane a routed sub-batch takes when EVENT_DATAPLANE = kafka.             *)
(*                                                                         *)
(* The producer cuts the sub-batch into records the topic accepts and      *)
(* blocks on every acknowledgement; what fits no record goes to the        *)
(* dead-letter table.  A group of dispatcher processes consumes the        *)
(* partition of the destination, dispatches one record at a time and       *)
(* commits its offset afterwards.  A rebalance moves the partition while   *)
(* the old owner may still be dispatching.                                 *)
(*                                                                         *)
(* Events are the positions of the sub-batch; a record is the set of its   *)
(* events, and {} a record that does not decode.  Offsets start at 1.      *)
(***************************************************************************)
EXTENDS Integers, Sequences

CONSTANTS
    Consumers,      \* dispatcher processes of the group
    Nobody,         \* the partition is not assigned
    NumEvents,      \* events of the sub-batch
    Sizes,          \* possible serialised sizes of the runs lo..hi of events
    FrameLimit,     \* 90% of KAFKA_MAX_REQUEST_BYTES
    RequestLimit,   \* the smaller of the client's and the broker's ceiling
    MaxAttempts,    \* KAFKA_MAX_DELIVERY_ATTEMPTS
    MaxRaises,      \* bound on produce calls that raise
    MaxDisturbances,\* bound on rebalances and consumers that die
    MaxRecords      \* bound on the length of the partition

Events  == 1..NumEvents
Offsets == 1..MaxRecords

ASSUME KafkaAssumption ==
    /\ Nobody \notin Consumers
    /\ NumEvents \in Nat \ {0}
    /\ Sizes \subseteq [Events -> [Events -> Nat]]
    /\ FrameLimit \in Nat \ {0} /\ RequestLimit \in Nat
    /\ MaxAttempts \in Nat /\ MaxRaises \in Nat /\ MaxDisturbances \in Nat
    /\ MaxRecords \in Nat \ {0}

VARIABLES
    size,       \* serialised size of each run of events
    todo,       \* frames still to produce: intervals of events, with their limit
    oversized,  \* events found to fit no record
    produced,   \* produce() returned
    raises,     \* produce() calls that raised
    log,        \* the records of the partition
    committed,  \* offsets up to this one are committed
    owner,      \* the consumer the partition is assigned to
    pos,        \* the last offset each consumer fetched, or was told to skip to
    cur,        \* the offset of the record it has in hand, 0 for none
    attempts,   \* its transient failures by offset
    pc,         \* where it stands
    disturbed,  \* rebalances and deaths so far
    kept,       \* events the sink took, or with a dead-letter row
    dropped     \* events given up with a log line: the best-effort insert of the
                \* dead letter failed, or the dispatch raised something unexpected

producer == <<size, todo, oversized, produced, raises>>
topic    == <<log, committed, owner>>
consumer == <<pos, cur, attempts, pc>>
fate     == <<kept, dropped>>
vars     == <<producer, topic, consumer, disturbed, fate>>

Phases == {"poll", "dispatch", "commit"}

WholeBatch == <<[lo |-> 1, hi |-> NumEvents, limit |-> FrameLimit]>>

Init ==
    /\ size \in Sizes
    /\ todo = WholeBatch /\ oversized = {} /\ produced = FALSE /\ raises = 0
    /\ log \in {<<>>, <<{}>>}
    /\ committed = 0 /\ owner = Nobody
    /\ pos = [c \in Consumers |-> 0] /\ cur = [c \in Consumers |-> 0]
    /\ attempts = [c \in Consumers |-> [o \in Offsets |-> 0]]
    /\ pc = [c \in Consumers |-> "poll"]
    /\ disturbed = 0
    /\ kept = {} /\ dropped = {}

-----------------------------------------------------------------------------
(* The producer: _frames, _produce_framed, produce.                        *)

\* len(encode_delivery(...)) of the events lo..hi.
Bytes(f) == size[f.lo][f.hi]

Frame == Head(todo)
Single(f) == f.lo = f.hi
Half(f)   == (f.hi - f.lo + 1) \div 2

\* Mutant: the bisection forgets its second half.
BisectOneHalf ==
    /\ todo # <<>>
    /\ Bytes(Frame) > Frame.limit /\ ~Single(Frame)
    /\ todo' = <<[Frame EXCEPT !.hi = Frame.lo + Half(Frame) - 1]>> \o Tail(todo)
    /\ UNCHANGED <<size, oversized, produced, raises, topic, consumer, disturbed, fate>>

\* _frames: a frame above its limit is bisected.
Bisect ==
    /\ todo # <<>>
    /\ Bytes(Frame) > Frame.limit /\ ~Single(Frame)
    /\ todo' = <<[Frame EXCEPT !.hi = Frame.lo + Half(Frame) - 1],
                 [Frame EXCEPT !.lo = Frame.lo + Half(Frame)]>> \o Tail(todo)
    /\ UNCHANGED <<size, oversized, produced, raises, topic, consumer, disturbed, fate>>

Framed == todo # <<>> /\ (Bytes(Frame) <= Frame.limit \/ Single(Frame))

\* produce() raises: the collection cycle fails, gives its claims back, and the
\* next one produces the whole sub-batch again.
Raise ==
    /\ raises < MaxRaises
    /\ raises' = raises + 1
    /\ todo' = WholeBatch /\ oversized' = {}
    /\ UNCHANGED <<size, produced>>

Stored == log' = Append(log, Frame.lo..Frame.hi)

\* _produce_value: acknowledged, refused, or lost with or without the record
\* having been stored.
Produce ==
    /\ Framed
    /\ Bytes(Frame) <= RequestLimit
    /\ Len(log) < MaxRecords
    /\ \/ Stored /\ todo' = Tail(todo) /\ UNCHANGED <<size, oversized, produced, raises>>
       \/ Stored /\ Raise
       \/ Raise /\ UNCHANGED log
    /\ UNCHANGED <<committed, owner, consumer, disturbed, fate>>

\* Refused by size, by the client or by the broker: a single event is set aside,
\* a larger record is framed again with half of its size as limit.
TooLarge ==
    /\ Framed
    /\ Bytes(Frame) > RequestLimit
    /\ IF Single(Frame)
         THEN /\ todo' = Tail(todo)
              /\ oversized' = oversized \cup {Frame.lo}
         ELSE /\ todo' = <<[Frame EXCEPT !.limit = IF Bytes(Frame) \div 2 > 1
                              THEN Bytes(Frame) \div 2 ELSE 1]>> \o Tail(todo)
              /\ UNCHANGED oversized
    /\ UNCHANGED <<size, produced, raises, topic, consumer, disturbed, fate>>

\* _divert_oversized_to_dlq, a row per event; a failed insert raises.
Divert ==
    /\ todo = <<>> /\ ~produced
    /\ \/ /\ kept' = kept \cup oversized
          /\ produced' = TRUE
          /\ UNCHANGED <<size, todo, oversized, raises>>
       \/ \E es \in SUBSET oversized \ {oversized} :
            kept' = kept \cup es /\ Raise
    /\ UNCHANGED <<topic, consumer, disturbed, dropped>>

-----------------------------------------------------------------------------
(* The consumer group, from how the loop uses it.                          *)

\* The partition is assigned; fetching starts at the committed offset, and the
\* former owner has no position any more.
Assign(c) ==
    /\ owner' = c
    /\ pos' = [x \in Consumers |-> IF x = c THEN committed ELSE 0]
    /\ UNCHANGED <<producer, log, committed, cur, attempts, pc, fate>>

Join(c) ==
    /\ owner = Nobody
    /\ Assign(c)
    /\ UNCHANGED disturbed

\* The partition moves, whatever its owner is doing.
Rebalance(c) ==
    /\ owner \notin {Nobody, c}
    /\ disturbed < MaxDisturbances
    /\ disturbed' = disturbed + 1
    /\ Assign(c)

\* The loop starts over with empty hands.
Restart(c) ==
    /\ pc' = [pc EXCEPT ![c] = "poll"]
    /\ pos' = [pos EXCEPT ![c] = 0]
    /\ cur' = [cur EXCEPT ![c] = 0]
    /\ attempts' = [attempts EXCEPT ![c] = [o \in Offsets |-> 0]]

\* A dispatcher dies, or is cancelled past its drain deadline, and starts anew.
Die(c) ==
    /\ disturbed < MaxDisturbances
    /\ disturbed' = disturbed + 1
    /\ owner' = IF owner = c THEN Nobody ELSE owner
    /\ Restart(c)
    /\ UNCHANGED <<producer, log, committed, fate>>

-----------------------------------------------------------------------------
(* run_dispatch_consumer.                                                  *)

\* getone(): the position moves past the record at once.
GetOne(c) ==
    /\ pc[c] = "poll" /\ owner = c
    /\ pos[c] < Len(log)
    /\ pos' = [pos EXCEPT ![c] = @ + 1]
    /\ cur' = [cur EXCEPT ![c] = pos[c] + 1]
    /\ pc' = [pc EXCEPT ![c] = "dispatch"]
    /\ UNCHANGED <<producer, topic, attempts, disturbed, fate>>

\* The record in hand.
Record(c) == IF pc[c] = "poll" THEN {} ELSE log[cur[c]]

\* The record is finished with: commit next.
Finish(c) ==
    /\ pc[c] = "dispatch"
    /\ pc' = [pc EXCEPT ![c] = "commit"]
    /\ UNCHANGED <<producer, topic, pos, cur, disturbed>>

\* The payload does not decode: discarded.
Invalid(c) ==
    /\ Finish(c)
    /\ Record(c) = {}
    /\ UNCHANGED <<attempts, fate>>

\* dispatch_batch_to_destination returned: accepted, or rejected with a row.
Dispatched(c) ==
    /\ Finish(c)
    /\ Record(c) # {}
    /\ kept' = kept \cup Record(c)
    /\ UNCHANGED <<attempts, dropped>>

\* persist_batch_dlq, whose result is ignored, after the sink took the events es.
PersistBatch(c, es) ==
    \/ kept' = kept \cup Record(c) /\ UNCHANGED dropped
    \/ kept' = kept \cup es /\ dropped' = dropped \cup (Record(c) \ kept')

\* Mutant: the batch refused by the breaker is committed without a dead letter.
BreakerOpenUnkept(c) ==
    /\ Finish(c)
    /\ Record(c) # {}
    /\ UNCHANGED <<attempts, fate>>

\* BreakerOpen, before some chunk: the batch becomes a dead letter.
BreakerOpen(c) == \E es \in SUBSET Record(c) :
    /\ Finish(c)
    /\ Record(c) # {}
    /\ PersistBatch(c, es)
    /\ UNCHANGED attempts

\* Mutant: the position is not moved back before the retry.
TransientUnsought(c) == \E es \in SUBSET Record(c) :
    /\ pc[c] = "dispatch" /\ Record(c) # {}
    /\ attempts' = [attempts EXCEPT ![c][cur[c]] = @ + 1]
    /\ IF attempts[c][cur[c]] + 1 > MaxAttempts
         THEN Finish(c) /\ PersistBatch(c, es)
         ELSE /\ kept' = kept \cup es
              /\ pc' = [pc EXCEPT ![c] = "poll"]
              /\ cur' = [cur EXCEPT ![c] = 0]
              /\ UNCHANGED <<producer, topic, pos, disturbed, dropped>>

\* Mutant: the position is moved one record too far back.
TransientSeekPast(c) == \E es \in SUBSET Record(c) :
    /\ pc[c] = "dispatch" /\ Record(c) # {}
    /\ attempts' = [attempts EXCEPT ![c][cur[c]] = @ + 1]
    /\ kept' = kept \cup es
    /\ pos' = [pos EXCEPT ![c] = cur[c] - 2]
    /\ cur' = [cur EXCEPT ![c] = 0]
    /\ pc' = [pc EXCEPT ![c] = "poll"]
    /\ UNCHANGED <<producer, topic, disturbed, dropped>>

\* TransientDeliveryError, after the sink took any part of the record: seek back
\* and try again, or, past the last attempt, dead-letter it.
Transient(c) == \E es \in SUBSET Record(c) :
    /\ pc[c] = "dispatch" /\ Record(c) # {}
    /\ attempts' = [attempts EXCEPT ![c][cur[c]] = @ + 1]
    /\ IF attempts[c][cur[c]] + 1 > MaxAttempts
         THEN Finish(c) /\ PersistBatch(c, es)
         ELSE /\ kept' = kept \cup es
              /\ owner = c
              /\ pos' = [pos EXCEPT ![c] = cur[c] - 1]
              /\ cur' = [cur EXCEPT ![c] = 0]
              /\ pc' = [pc EXCEPT ![c] = "poll"]
              /\ UNCHANGED <<producer, topic, disturbed, dropped>>

\* The same, when the partition is gone: the seek raises, the loop ends and the
\* process starts anew.
SeekRefused(c) == \E es \in SUBSET Record(c) :
    /\ pc[c] = "dispatch" /\ Record(c) # {}
    /\ owner # c
    /\ attempts[c][cur[c]] + 1 <= MaxAttempts
    /\ kept' = kept \cup es
    /\ Restart(c)
    /\ UNCHANGED <<producer, topic, disturbed, dropped>>

\* Any other exception of the dispatch: the record is committed, and the part of
\* it that has no outcome yet is only logged.
Failed(c) == \E es \in SUBSET Record(c) :
    /\ Finish(c)
    /\ Record(c) # {}
    /\ kept' = kept \cup es
    /\ dropped' = dropped \cup (Record(c) \ kept')
    /\ UNCHANGED attempts

\* _commit(tp, offset): refused, with a CommitFailedError that is caught, when the
\* partition was lost meanwhile.  Any other error of it ends the loop, before or
\* after the broker took the offset: Die here, or after the step.
Commit(c) ==
    /\ pc[c] = "commit"
    /\ committed' = IF owner = c THEN cur[c] ELSE committed
    /\ attempts' = [attempts EXCEPT ![c][cur[c]] = 0]
    /\ pc' = [pc EXCEPT ![c] = "poll"]
    /\ cur' = [cur EXCEPT ![c] = 0]
    /\ UNCHANGED <<producer, log, owner, pos, disturbed, fate>>

-----------------------------------------------------------------------------
Producing == Bisect \/ Produce \/ TooLarge \/ Divert

Loop(c) ==
    \/ GetOne(c) \/ Invalid(c) \/ Dispatched(c) \/ BreakerOpen(c) \/ Transient(c)
    \/ SeekRefused(c) \/ Failed(c) \/ Commit(c)

Next ==
    \/ Producing
    \/ \E c \in Consumers : Join(c) \/ Rebalance(c) \/ Die(c) \/ Loop(c)

\* The collector repeats its cycles, the dispatchers run, and the group assigns
\* a free partition.
Fairness ==
    /\ WF_vars(Producing)
    /\ \A c \in Consumers : WF_vars(Loop(c)) /\ WF_vars(Join(c))

Spec == Init /\ [][Next]_vars /\ Fairness

-----------------------------------------------------------------------------
(* Properties.                                                             *)

TypeOK ==
    /\ size \in Sizes
    /\ todo \in Seq([lo : Events, hi : Events, limit : Nat])
    /\ oversized \subseteq Events /\ produced \in BOOLEAN /\ raises \in 0..MaxRaises
    /\ log \in Seq(SUBSET Events) /\ Len(log) <= MaxRecords
    /\ committed \in 0..Len(log)
    /\ owner \in Consumers \cup {Nobody}
    /\ pos \in [Consumers -> 0..Len(log)]
    /\ cur \in [Consumers -> 0..Len(log)]
    /\ attempts \in [Consumers -> [Offsets -> Nat]]
    /\ pc \in [Consumers -> Phases]
    /\ disturbed \in 0..MaxDisturbances
    /\ kept \subseteq Events /\ dropped \subseteq Events

Settled == kept \cup dropped

Done(o) == log[o] \subseteq Settled

\* A committed offset never hides an unsettled record, neither its own nor an
\* earlier one: no rebalance, retry or late commit makes the group skip a record.
CommittedSettled == \A o \in 1..committed : Done(o)

\* Head-of-line order: a consumer takes a record in hand only after every earlier
\* one has its outcome, although a failed record is fetched again by seeking.
InOrder == \A c \in Consumers :
    pc[c] # "poll" => \A o \in 1..(cur[c] - 1) : Done(o)

\* The lane keeps the contract of delivery lanes: it lets go of the batch only
\* when every event is settled, outcomes are final, and all are settled in the end.
Contract == INSTANCE DeliveryContract
    WITH owned <- ~produced \/ committed < Len(log), settled <- Settled,
         abandoned <- FALSE

ImplementsContract == Contract!Spec

=============================================================================
