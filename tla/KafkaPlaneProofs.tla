-------------------------- MODULE KafkaPlaneProofs --------------------------
(***************************************************************************)
(* Theorems about KafkaPlane, for every sub-batch, size limits, group of   *)
(* dispatchers and number of attempts.                                     *)
(***************************************************************************)
EXTENDS KafkaPlane, TLAPS

InFrame(e, i) == e \in todo[i].lo..todo[i].hi

\* The runs of events still to produce are not empty.
FramesProper == \A i \in 1..Len(todo) : todo[i].lo <= todo[i].hi

\* Every event is still to produce, set aside, in a record, or settled.
Covered == \A e \in Events :
    \/ \E i \in 1..Len(todo) : InFrame(e, i)
    \/ e \in oversized
    \/ e \in Settled
    \/ \E o \in 1..Len(log) : e \in log[o]

\* What produce() leaves behind when it returns.
Returned == produced => todo = <<>> /\ oversized \subseteq Settled

\* What the owner has fetched is done, but for the record in hand.
OwnerBehind == \A c \in Consumers :
    owner = c => \A o \in 1..pos[c] : Done(o) \/ (pc[c] = "dispatch" /\ o = cur[c])

\* A consumer has a record in hand outside of the poll; before the commit its
\* record is done.
InHand == \A c \in Consumers :
    /\ pc[c] # "poll" => cur[c] \in 1..Len(log)
    /\ pc[c] = "commit" => Done(cur[c])

ProducerInv == FramesProper /\ Covered /\ Returned
GroupInv    == CommittedSettled /\ InOrder /\ OwnerBehind /\ InHand
KafkaInv    == TypeOK /\ ProducerInv /\ GroupInv

-----------------------------------------------------------------------------
(* Outcomes are final, and the log only grows.                             *)

LEMMA RecordFacts ==
    ASSUME TypeOK, InHand, NEW c \in Consumers
    PROVE  /\ Record(c) \subseteq Events
           /\ pc[c] # "poll" => Record(c) = log[cur[c]] /\ cur[c] \in 1..Len(log)
  BY DEF TypeOK, InHand, Record

\* What a step of the loop does to the outcomes.
LEMMA FateStep ==
    ASSUME TypeOK, InHand, NEW c \in Consumers, Loop(c)
    PROVE  /\ kept \subseteq kept' /\ dropped \subseteq dropped'
           /\ kept' \subseteq Events /\ dropped' \subseteq Events
           /\ UNCHANGED <<producer, log, owner, disturbed>>
<1>1. Record(c) \subseteq Events
  BY RecordFacts
<1>2. ASSUME NEW es \in SUBSET Record(c), PersistBatch(c, es)
      PROVE  /\ kept \subseteq kept' /\ dropped \subseteq dropped'
             /\ kept' \subseteq Events /\ dropped' \subseteq Events
  BY <1>1, <1>2 DEF PersistBatch, TypeOK
<1>3. CASE GetOne(c) \/ Invalid(c) \/ Commit(c)
  BY <1>3 DEF GetOne, Invalid, Commit, Finish, topic, fate, TypeOK
<1>4. CASE Dispatched(c)
  BY <1>1, <1>4 DEF Dispatched, Finish, topic, TypeOK
<1>5. CASE BreakerOpen(c)
  BY <1>2, <1>5 DEF BreakerOpen, Finish, topic
<1>6. CASE Transient(c)
  BY <1>1, <1>2, <1>6 DEF Transient, Finish, topic, TypeOK
<1>7. CASE SeekRefused(c)
  BY <1>1, <1>7 DEF SeekRefused, topic, TypeOK
<1>8. CASE Failed(c)
  BY <1>1, <1>8 DEF Failed, Finish, topic, TypeOK
<1> QED BY <1>3, <1>4, <1>5, <1>6, <1>7, <1>8 DEF Loop

\* A finished record is done.
LEMMA FinishDone ==
    ASSUME TypeOK, InHand, NEW c \in Consumers, pc[c] = "dispatch",
           Invalid(c) \/ Dispatched(c) \/ BreakerOpen(c) \/ Failed(c)
           \/ (Transient(c) /\ Finish(c))
    PROVE  log[cur[c]] \subseteq Settled' /\ Finish(c)
<1>1. Record(c) = log[cur[c]]
  BY DEF Record
<1>2. CASE Invalid(c)
  BY <1>1, <1>2 DEF Invalid
<1>3. CASE Dispatched(c)
  BY <1>1, <1>3 DEF Dispatched, Settled
<1>4. CASE BreakerOpen(c)
  BY <1>1, <1>4 DEF BreakerOpen, PersistBatch, Settled
<1>5. CASE Failed(c)
  BY <1>1, <1>5 DEF Failed, Settled
<1>6. CASE Transient(c) /\ Finish(c)
  <2>1. pc'[c] = "commit"
    BY <1>6 DEF Finish, TypeOK
  <2>2. PICK es \in SUBSET Record(c) : PersistBatch(c, es)
    BY <1>6, <2>1 DEF Transient, TypeOK
  <2> QED BY <1>1, <1>6, <2>2 DEF PersistBatch, Settled
<1> QED BY <1>2, <1>3, <1>4, <1>5, <1>6

-----------------------------------------------------------------------------
(* The producer.                                                           *)

Frames == [lo : Events, hi : Events, limit : Nat]

\* The whole sub-batch is a frame that covers every event.
LEMMA WholeFacts ==
    /\ WholeBatch \in Seq(Frames) /\ Len(WholeBatch) = 1
    /\ WholeBatch[1].lo = 1 /\ WholeBatch[1].hi = NumEvents
  BY KafkaAssumption DEF WholeBatch, Frames, Events

\* The two halves of a bisected frame are frames and cover what it covered.
LEMMA BisectFacts ==
    ASSUME TypeOK, FramesProper, Bisect
    PROVE  /\ todo' \in Seq(Frames) /\ FramesProper'
           /\ \A e \in Events : (\E i \in 1..Len(todo) : InFrame(e, i))
                                => (\E i \in 1..Len(todo') : InFrame(e, i)')
<1> DEFINE a == [Frame EXCEPT !.hi = Frame.lo + Half(Frame) - 1]
           b == [Frame EXCEPT !.lo = Frame.lo + Half(Frame)]
<1>1. todo \in Seq(Frames) /\ todo # <<>> /\ Frame \in Frames /\ Frame.lo < Frame.hi
      /\ Frame = todo[1]
  <2>1. todo \in Seq(Frames) /\ todo # <<>>
    BY DEF TypeOK, Bisect, Frames
  <2>2. Frame \in Frames /\ Frame = todo[1] /\ 1 \in 1..Len(todo)
    BY <2>1 DEF Frame
  <2>3. Frame.lo <= Frame.hi /\ Frame.lo # Frame.hi
    BY <2>2 DEF FramesProper, Bisect, Single
  <2>4. Frame.lo \in Int /\ Frame.hi \in Int
    BY <2>2 DEF Frames, Events
  <2> QED BY <2>1, <2>2, <2>3, <2>4
<1>2. /\ Half(Frame) \in 1..(Frame.hi - Frame.lo)
      /\ Frame.lo \in 1..NumEvents /\ Frame.hi \in 1..NumEvents
  BY <1>1, KafkaAssumption, SMTT(30) DEF Half, Frames, Events
<1>3. /\ a \in Frames /\ b \in Frames
      /\ a.lo = Frame.lo /\ a.hi = Frame.lo + Half(Frame) - 1
      /\ b.lo = Frame.lo + Half(Frame) /\ b.hi = Frame.hi
  <2>1. /\ Frame.lo + Half(Frame) - 1 \in Events /\ Frame.lo + Half(Frame) \in Events
    BY <1>2, KafkaAssumption, SMTT(30) DEF Events
  <2> QED BY <1>1, <2>1 DEF Frames
<1> HIDE DEF a, b
<1>4. todo' = <<a, b>> \o Tail(todo)
  BY DEF Bisect, a, b
<1>5. /\ todo' \in Seq(Frames) /\ Len(todo') = Len(todo) + 1
      /\ todo'[1] = a /\ todo'[2] = b
      /\ \A i \in 3..Len(todo') : todo'[i] = todo[i - 1]
  BY <1>1, <1>3, <1>4
<1>6. FramesProper'
  <2> SUFFICES ASSUME NEW i \in 1..Len(todo') PROVE todo'[i].lo <= todo'[i].hi
    BY DEF FramesProper
  <2>1. CASE i = 1
    BY <1>2, <1>3, <1>5, <2>1
  <2>2. CASE i = 2
    BY <1>2, <1>3, <1>5, <2>2
  <2>3. CASE i \in 3..Len(todo')
    BY <1>1, <1>5, <2>3 DEF FramesProper
  <2> QED BY <1>1, <1>5, <2>1, <2>2, <2>3
<1>7. ASSUME NEW e \in Events, NEW i \in 1..Len(todo), InFrame(e, i)
      PROVE  \E j \in 1..Len(todo') : e \in todo'[j].lo..todo'[j].hi
  <2>1. CASE i = 1 /\ e < Frame.lo + Half(Frame)
    BY <1>1, <1>2, <1>3, <1>5, <1>7, <2>1 DEF InFrame, Events
  <2>2. CASE i = 1 /\ e >= Frame.lo + Half(Frame)
    <3>1. e \in b.lo..b.hi
      BY <1>1, <1>2, <1>3, <1>7, <2>2 DEF InFrame, Events
    <3>2. 2 \in 1..Len(todo')
      BY <1>1, <1>5
    <3> QED BY <1>5, <3>1, <3>2
  <2>3. CASE i \in 2..Len(todo)
    <3>1. i + 1 \in 3..Len(todo') /\ todo'[i + 1] = todo[i]
      BY <1>1, <1>5, <2>3
    <3> QED BY <1>1, <1>5, <1>7, <2>3, <3>1 DEF InFrame
  <2> QED BY <1>1, <1>2, <2>1, <2>2, <2>3 DEF Events
<1> QED BY <1>5, <1>6, <1>7 DEF InFrame

\* Steps of the producer keep the types and its part of the invariant.
LEMMA ProducingStep ==
    ASSUME TypeOK, ProducerInv, Producing
    PROVE  /\ TypeOK' /\ ProducerInv'
           /\ kept \subseteq kept' /\ dropped' = dropped
           /\ Len(log') \in Nat /\ Len(log) <= Len(log')
           /\ \A o \in 1..Len(log) : log'[o] = log[o]
           /\ UNCHANGED <<committed, owner, consumer>>
<1> USE DEF ProducerInv
<1>0. todo \in Seq(Frames) /\ log \in Seq(SUBSET Events)
  BY DEF TypeOK, Frames
<1>1. CASE Bisect
  <2>1. TypeOK' /\ UNCHANGED <<oversized, produced, topic, consumer, fate>>
    BY <1>1, BisectFacts DEF Bisect, TypeOK, Frames, topic, consumer, fate
  <2>2. Covered' /\ Returned'
    BY <1>1, <2>1, BisectFacts DEF Bisect, Covered, Returned, topic, fate, Settled
  <2> QED BY <1>0, <1>1, <2>1, <2>2, BisectFacts DEF topic, fate
<1>2. CASE Raise /\ kept \subseteq kept' /\ kept' \subseteq Events /\ dropped' = dropped
           /\ ~produced
           /\ log' \in Seq(SUBSET Events) /\ Len(log) <= Len(log')
           /\ Len(log') <= MaxRecords
           /\ (\A o \in 1..Len(log) : log'[o] = log[o])
           /\ UNCHANGED <<committed, owner, consumer, disturbed>>
  <2>1. TypeOK'
    <3>1. 0..Len(log) \subseteq 0..Len(log')
      BY <1>0, <1>2
    <3>2. /\ committed' \in 0..Len(log') /\ pos' \in [Consumers -> 0..Len(log')]
          /\ cur' \in [Consumers -> 0..Len(log')]
      BY <1>2, <3>1 DEF TypeOK, consumer
    <3>3. raises' \in 0..MaxRaises /\ produced' = produced /\ size' = size
      BY <1>2, KafkaAssumption, SMTT(30) DEF Raise, TypeOK
    <3>4. todo' \in Seq([lo : Events, hi : Events, limit : Nat]) /\ oversized' \subseteq Events
      BY <1>2, WholeFacts DEF Raise, Frames
    <3> QED BY <1>2, <3>2, <3>3, <3>4 DEF TypeOK, consumer
  <2>2. FramesProper' /\ Covered' /\ Returned'
    BY <1>2, WholeFacts, KafkaAssumption
       DEF Raise, FramesProper, Covered, Returned, InFrame, Events
  <2> QED BY <1>0, <1>2, <2>1, <2>2
<1>3. ASSUME todo # <<>>
      PROVE  /\ Frame \in Frames /\ Frame = todo[1] /\ Frame.lo..Frame.hi \subseteq Events
             /\ Tail(todo) \in Seq(Frames) /\ Len(Tail(todo)) = Len(todo) - 1
             /\ \A i \in 2..Len(todo) : todo[i] = Tail(todo)[i - 1]
             /\ \A i \in 1..Len(Tail(todo)) : Tail(todo)[i] = todo[i + 1]
             /\ Len(todo) \in Nat \ {0}
             /\ ~produced
  <2>1. Frame \in Frames /\ Frame = todo[1] /\ Len(todo) \in Nat \ {0} /\ ~produced
    BY <1>0, <1>3 DEF Frame, Returned
  <2>2. Frame.lo..Frame.hi \subseteq Events
    BY <2>1, KafkaAssumption DEF Frames, Events
  <2> QED BY <1>0, <1>3, <2>1, <2>2
<1>4. ASSUME todo # <<>>, todo' = Tail(todo)
      PROVE  /\ FramesProper'
             /\ \A e \in Events : (\E i \in 1..Len(todo) : InFrame(e, i))
                   => \/ e \in Frame.lo..Frame.hi
                      \/ \E i \in 1..Len(todo') : InFrame(e, i)'
  <2>1. FramesProper'
    BY <1>3, <1>4 DEF FramesProper
  <2>2. ASSUME NEW e \in Events, NEW i \in 1..Len(todo), InFrame(e, i)
        PROVE  e \in Frame.lo..Frame.hi
               \/ \E j \in 1..Len(todo') : e \in todo'[j].lo..todo'[j].hi
    <3>1. CASE i = 1
      BY <1>3, <1>4, <2>2, <3>1 DEF InFrame
    <3>2. CASE i \in 2..Len(todo)
      <4>1. i - 1 \in 1..Len(todo') /\ todo'[i - 1] = todo[i]
        BY <1>3, <1>4, <3>2
      <4> QED BY <2>2, <4>1 DEF InFrame
    <3> QED BY <1>3, <1>4, <3>1, <3>2
  <2> QED BY <2>1, <2>2 DEF InFrame
<1>5. ASSUME Stored, todo # <<>>
      PROVE  /\ log' \in Seq(SUBSET Events) /\ Len(log') = Len(log) + 1
             /\ \A o \in 1..Len(log) : log'[o] = log[o]
             /\ log'[Len(log) + 1] = Frame.lo..Frame.hi
  BY <1>0, <1>3, <1>5 DEF Stored
<1>6. CASE Produce
  <2>1. todo # <<>> /\ UNCHANGED <<committed, owner, consumer, disturbed, fate>>
    BY <1>6 DEF Produce, Framed
  <2>2. kept' = kept /\ dropped' = dropped /\ kept \subseteq Events
    BY <2>1 DEF fate, TypeOK
  <2>0. Len(log) + 1 <= MaxRecords /\ Len(log) <= MaxRecords /\ Len(log) \in Nat
    BY <1>0, <1>6, KafkaAssumption DEF Produce
  <2>3. CASE Stored /\ Raise
    BY <1>0, <1>2, <1>3, <1>5, <2>0, <2>1, <2>2, <2>3
  <2>4. CASE Raise /\ UNCHANGED log
    BY <1>0, <1>2, <1>3, <2>0, <2>1, <2>2, <2>4
  <2>5. CASE Stored /\ todo' = Tail(todo) /\ UNCHANGED <<size, oversized, produced, raises>>
    <3>1. TypeOK'
      <4>1. todo' \in Seq([lo : Events, hi : Events, limit : Nat])
        BY <1>3, <2>1, <2>5 DEF Frames
      <4>2. /\ committed' \in 0..Len(log') /\ log' \in Seq(SUBSET Events)
            /\ Len(log') <= MaxRecords
        BY <1>0, <1>5, <2>0, <2>1, <2>5 DEF TypeOK
      <4>3. pos' \in [Consumers -> 0..Len(log')] /\ cur' \in [Consumers -> 0..Len(log')]
        <5>1. 0..Len(log) \subseteq 0..Len(log')
          BY <1>0, <1>5, <2>1, <2>5
        <5> QED BY <2>1, <5>1 DEF TypeOK, consumer
      <4> QED BY <2>1, <2>2, <2>5, <4>1, <4>2, <4>3 DEF TypeOK, consumer
    <3>2. Covered'
      <4> SUFFICES ASSUME NEW e \in Events
                   PROVE  \/ \E i \in 1..Len(todo') : InFrame(e, i)'
                          \/ e \in oversized' \/ e \in Settled'
                          \/ \E o \in 1..Len(log') : e \in log'[o]
        BY DEF Covered
      <4>1. CASE e \in oversized \/ e \in Settled
        BY <2>2, <2>5, <4>1 DEF Settled
      <4>2. CASE \E o \in 1..Len(log) : e \in log[o]
        BY <1>0, <1>5, <2>1, <2>5, <4>2
      <4>3. CASE e \in Frame.lo..Frame.hi
        <5>1. Len(log) + 1 \in 1..Len(log')
          BY <1>0, <1>5, <2>1, <2>5
        <5> QED BY <1>5, <2>1, <2>5, <4>3, <5>1
      <4>4. CASE \E i \in 1..Len(todo) : InFrame(e, i)
        BY <1>4, <2>1, <2>5, <4>3, <4>4
      <4> QED BY <4>1, <4>2, <4>4 DEF Covered
    <3>3. Returned'
      BY <1>3, <2>1, <2>5 DEF Returned
    <3> QED BY <1>0, <1>4, <1>5, <2>1, <2>2, <2>5, <3>1, <3>2, <3>3
  <2> QED BY <1>6, <2>3, <2>4, <2>5 DEF Produce
<1>7. CASE TooLarge
  <2>1. todo # <<>> /\ UNCHANGED <<produced, topic, consumer, disturbed, fate>>
    BY <1>7 DEF TooLarge, Framed
  <2>2. Bytes(Frame) \in Nat
    BY <1>3, <2>1, KafkaAssumption DEF Bytes, Frames, TypeOK
  <2>3. CASE todo' = Tail(todo) /\ oversized' = oversized \cup {Frame.lo} /\ Single(Frame)
    <3>1. TypeOK'
      BY <1>3, <1>7, <2>1, <2>3 DEF TooLarge, TypeOK, Frames, topic, consumer, fate
    <3>2. Frame.lo..Frame.hi = {Frame.lo}
      BY <1>3, <2>1, <2>3, KafkaAssumption DEF Single, Frames, Events
    <3>3. Covered'
      BY <1>4, <2>1, <2>3, <3>2 DEF Covered, topic, fate, Settled
    <3> QED BY <1>0, <1>3, <1>4, <2>1, <2>3, <3>1, <3>3 DEF topic, fate, Returned
  <2>4. CASE /\ UNCHANGED oversized
             /\ todo' = <<[Frame EXCEPT !.limit = IF Bytes(Frame) \div 2 > 1
                             THEN Bytes(Frame) \div 2 ELSE 1]>> \o Tail(todo)
    <3> DEFINE n == IF Bytes(Frame) \div 2 > 1 THEN Bytes(Frame) \div 2 ELSE 1
               f == [Frame EXCEPT !.limit = n]
    <3>1. n \in Nat /\ todo' = <<f>> \o Tail(todo)
      BY <2>2, <2>4
    <3> HIDE DEF n
    <3>5. f \in Frames /\ f.lo = Frame.lo /\ f.hi = Frame.hi
      BY <1>3, <2>1, <3>1 DEF Frames
    <3> HIDE DEF f
    <3>6. /\ todo' \in Seq(Frames) /\ Len(todo') = Len(todo) /\ todo'[1] = f
          /\ \A i \in 2..Len(todo) : todo'[i] = todo[i]
      BY <1>0, <1>3, <2>1, <3>1, <3>5
    <3>2. /\ todo' \in Seq(Frames) /\ Len(todo') = Len(todo)
          /\ \A i \in 1..Len(todo) : todo'[i].lo = todo[i].lo /\ todo'[i].hi = todo[i].hi
      BY <1>3, <2>1, <3>5, <3>6
    <3>3. TypeOK'
      BY <1>7, <2>1, <2>4, <3>2 DEF TooLarge, TypeOK, Frames, topic, consumer, fate
    <3>4. FramesProper' /\ Covered' /\ Returned'
      BY <1>3, <2>1, <2>4, <3>2
         DEF FramesProper, Covered, Returned, InFrame, topic, fate, Settled
    <3> QED BY <1>0, <2>1, <3>3, <3>4 DEF topic, fate
  <2> QED BY <1>7, <2>3, <2>4 DEF TooLarge
<1>8. CASE Divert
  <2>1. todo = <<>> /\ ~produced /\ UNCHANGED <<topic, consumer, disturbed, dropped>>
    BY <1>8 DEF Divert
  <2>2. CASE /\ kept' = kept \cup oversized /\ produced' = TRUE
             /\ UNCHANGED <<size, todo, oversized, raises>>
    <3>1. TypeOK'
      BY <2>1, <2>2 DEF TypeOK, topic, consumer
    <3>2. FramesProper' /\ Covered' /\ Returned'
      BY <2>1, <2>2 DEF FramesProper, Covered, Returned, InFrame, topic, Settled
    <3> QED BY <1>0, <2>1, <2>2, <3>1, <3>2 DEF topic
  <2>3. CASE \E es \in SUBSET oversized \ {oversized} : kept' = kept \cup es /\ Raise
    BY <1>0, <1>2, <2>1, <2>3 DEF topic, TypeOK
  <2> QED BY <1>8, <2>2, <2>3 DEF Divert
<1> QED BY <1>1, <1>6, <1>7, <1>8 DEF Producing

-----------------------------------------------------------------------------
(* The consumer group.                                                     *)

\* Steps of the group and of the loop keep the types.
LEMMA GroupTypes ==
    ASSUME TypeOK, InHand, NEW c \in Consumers,
           Join(c) \/ Rebalance(c) \/ Die(c) \/ Loop(c)
    PROVE  TypeOK'
<1>0. Len(log) \in Nat /\ 0 \in 0..Len(log)
  BY DEF TypeOK
<1>1. CASE Join(c) \/ Rebalance(c)
  <2>1. disturbed' \in 0..MaxDisturbances
    BY <1>1, KafkaAssumption DEF Join, Rebalance, TypeOK
  <2>2. UNCHANGED <<size, todo, oversized, produced, raises, log, committed, cur, attempts,
                    pc, kept, dropped>>
    BY <1>1 DEF Join, Rebalance, Assign, producer, fate
  <2>3. owner' \in Consumers \cup {Nobody} /\ pos' \in [Consumers -> 0..Len(log)]
    BY <1>0, <1>1 DEF Join, Rebalance, Assign, TypeOK
  <2> QED BY <2>1, <2>2, <2>3 DEF TypeOK
<1>2. ASSUME Restart(c)
      PROVE  /\ pc' \in [Consumers -> Phases] /\ attempts' \in [Consumers -> [Offsets -> Nat]]
             /\ pos' \in [Consumers -> 0..Len(log)] /\ cur' \in [Consumers -> 0..Len(log)]
  BY <1>0, <1>2 DEF Restart, TypeOK, Phases
<1>3. CASE Die(c)
  <2>1. disturbed' \in 0..MaxDisturbances /\ owner' \in Consumers \cup {Nobody}
    BY <1>3, KafkaAssumption DEF Die, TypeOK
  <2>2. UNCHANGED <<size, todo, oversized, produced, raises, log, committed, kept, dropped>>
    BY <1>3 DEF Die, producer, fate
  <2>3. Restart(c)
    BY <1>3 DEF Die
  <2> QED BY <1>2, <2>1, <2>2, <2>3 DEF TypeOK
<1>4. CASE Loop(c)
  <2>1. kept' \subseteq Events /\ dropped' \subseteq Events
        /\ UNCHANGED <<producer, log, owner, disturbed>>
    BY <1>4, FateStep
  <2>2. ASSUME cur[c] \in 1..Len(log)
        PROVE  /\ [attempts EXCEPT ![c][cur[c]] = @ + 1] \in [Consumers -> [Offsets -> Nat]]
               /\ [attempts EXCEPT ![c][cur[c]] = 0] \in [Consumers -> [Offsets -> Nat]]
    <3>0. cur[c] \in Offsets
      BY <1>0, <2>2, KafkaAssumption DEF TypeOK, Offsets
    <3>1. attempts[c] \in [Offsets -> Nat] /\ cur[c] \in Offsets /\ attempts[c][cur[c]] \in Nat
      BY <3>0 DEF TypeOK
    <3>2. /\ [attempts[c] EXCEPT ![cur[c]] = attempts[c][cur[c]] + 1] \in [Offsets -> Nat]
          /\ [attempts[c] EXCEPT ![cur[c]] = 0] \in [Offsets -> Nat]
      BY <3>1
    <3> QED BY <3>2 DEF TypeOK
  <2>3. /\ pc' \in [Consumers -> Phases] /\ attempts' \in [Consumers -> [Offsets -> Nat]]
        /\ pos' \in [Consumers -> 0..Len(log)] /\ cur' \in [Consumers -> 0..Len(log)]
        /\ committed' \in 0..Len(log)
    <3>1. CASE GetOne(c)
      BY <1>0, <3>1 DEF GetOne, TypeOK, Phases, topic
    <3>2. CASE Finish(c) /\ UNCHANGED attempts
      BY <3>2 DEF Finish, TypeOK, Phases, topic
    <3>3. CASE Transient(c)
      <4>1. pc[c] = "dispatch" /\ cur[c] \in 1..Len(log)
        BY <3>3 DEF Transient, InHand
      <4>2. attempts' \in [Consumers -> [Offsets -> Nat]]
        BY <2>2, <3>3, <4>1 DEF Transient
      <4>3. CASE Finish(c)
        BY <4>2, <4>3 DEF Finish, TypeOK, Phases, topic
      <4>4. CASE ~Finish(c)
        <5>1. /\ pos' = [pos EXCEPT ![c] = cur[c] - 1] /\ cur' = [cur EXCEPT ![c] = 0]
              /\ pc' = [pc EXCEPT ![c] = "poll"] /\ UNCHANGED topic
          BY <3>3, <4>4 DEF Transient
        <5>2. cur[c] - 1 \in 0..Len(log)
          BY <1>0, <4>1
        <5> QED BY <1>0, <4>2, <5>1, <5>2 DEF TypeOK, Phases, topic
      <4> QED BY <4>3, <4>4
    <3>4. CASE SeekRefused(c)
      BY <1>2, <3>4 DEF SeekRefused, TypeOK, topic
    <3>5. CASE Commit(c)
      <4>1. cur[c] \in 1..Len(log)
        BY <3>5 DEF Commit, InHand
      <4> QED BY <1>0, <2>2, <3>5, <4>1 DEF Commit, TypeOK, Phases
    <3> QED BY <1>4, <3>1, <3>2, <3>3, <3>4, <3>5
            DEF Loop, Invalid, Dispatched, BreakerOpen, Failed
  <2> QED BY <2>1, <2>3 DEF TypeOK, producer
<1> QED BY <1>1, <1>3, <1>4

\* What is done stays done.
LEMMA DoneStays ==
    ASSUME kept \subseteq kept', dropped \subseteq dropped',
           \A o \in 1..Len(log) : log'[o] = log[o],
           NEW o \in 1..Len(log), Done(o)
    PROVE  Done(o)'
  BY DEF Done, Settled

\* A step that leaves the consumers alone keeps the group's invariant.
LEMMA GroupUntouched ==
    ASSUME TypeOK, GroupInv, kept \subseteq kept', dropped \subseteq dropped',
           Len(log') \in Nat, Len(log) <= Len(log'),
           \A o \in 1..Len(log) : log'[o] = log[o],
           UNCHANGED <<committed, owner, consumer>>
    PROVE  GroupInv'
<1> USE DEF GroupInv
<1>0. /\ Len(log) \in Nat /\ committed \in 0..Len(log)
      /\ \A c \in Consumers : pos[c] \in 0..Len(log) /\ cur[c] \in 0..Len(log)
  BY DEF TypeOK
<1>1. \A o \in 1..Len(log) : Done(o) => Done(o)'
  BY DoneStays
<1>2. CommittedSettled'
  BY <1>0, <1>1 DEF CommittedSettled
<1>3. InOrder'
  BY <1>0, <1>1 DEF InOrder, consumer
<1>4. OwnerBehind'
  BY <1>0, <1>1 DEF OwnerBehind, consumer
<1>5. InHand'
  BY <1>0, <1>1 DEF InHand, consumer
<1> QED BY <1>2, <1>3, <1>4, <1>5

\* A rebalance, a death or a step of the loop keeps the group's invariant.
LEMMA GroupStep ==
    ASSUME TypeOK, GroupInv, NEW c \in Consumers,
           Join(c) \/ Rebalance(c) \/ Die(c) \/ Loop(c)
    PROVE  GroupInv'
<1> USE DEF GroupInv
<1>0. /\ Len(log) \in Nat /\ committed \in 0..Len(log)
      /\ \A d \in Consumers : pos[d] \in 0..Len(log) /\ cur[d] \in 0..Len(log)
      /\ pos \in [Consumers -> 0..Len(log)] /\ cur \in [Consumers -> 0..Len(log)]
      /\ pc \in [Consumers -> Phases]
  BY DEF TypeOK
<1>1. CASE Join(c) \/ Rebalance(c)
  <2>1. UNCHANGED <<log, committed, cur, pc, kept, dropped>> /\ owner' = c
        /\ pos' = [x \in Consumers |-> IF x = c THEN committed ELSE 0]
    BY <1>1 DEF Join, Rebalance, Assign, fate
  <2>2. \A o \in 1..Len(log) : Done(o)' = Done(o)
    BY <2>1 DEF Done, Settled
  <2>3. CommittedSettled'
    BY <1>0, <2>1, <2>2 DEF CommittedSettled
  <2>5. InOrder'
    BY <1>0, <2>1, <2>2 DEF InOrder
  <2>6. InHand'
    BY <1>0, <2>1, <2>2 DEF InHand
  <2>4. OwnerBehind'
    <3>1. owner' \in Consumers => pos'[owner'] = committed
      BY <2>1
    <3> QED BY <1>0, <2>1, <2>2, <3>1 DEF OwnerBehind, CommittedSettled
  <2> QED BY <2>3, <2>4, <2>5, <2>6
<1>2. ASSUME Restart(c), UNCHANGED <<log, committed>>, owner' = owner \/ owner' = Nobody,
             kept \subseteq kept', dropped \subseteq dropped'
      PROVE  GroupInv'
  <2>1. /\ pc' = [pc EXCEPT ![c] = "poll"] /\ pos' = [pos EXCEPT ![c] = 0]
        /\ cur' = [cur EXCEPT ![c] = 0]
    BY <1>2 DEF Restart
  <2>2. \A o \in 1..Len(log) : Done(o) => Done(o)'
    BY <1>2, DoneStays
  <2>3. CommittedSettled'
    BY <1>0, <1>2, <2>2 DEF CommittedSettled
  <2>4. InOrder'
    BY <1>0, <1>2, <2>1, <2>2 DEF InOrder, Phases
  <2>5. OwnerBehind'
    BY <1>0, <1>2, <2>1, <2>2, KafkaAssumption DEF OwnerBehind, Phases
  <2>6. InHand'
    BY <1>0, <1>2, <2>1, <2>2 DEF InHand, Phases
  <2> QED BY <2>3, <2>4, <2>5, <2>6
<1>3. CASE Die(c)
  BY <1>2, <1>3 DEF Die, fate
<1>4. CASE Loop(c)
  <2>1. kept \subseteq kept' /\ dropped \subseteq dropped' /\ UNCHANGED <<log, owner>>
    BY <1>4, FateStep
  <2>2. \A o \in 1..Len(log) : Done(o) => Done(o)'
    BY <2>1, DoneStays
  <2>3. CASE GetOne(c)
    <3>1. /\ pc[c] = "poll" /\ owner = c /\ pos[c] < Len(log)
          /\ pos' = [pos EXCEPT ![c] = pos[c] + 1] /\ cur' = [cur EXCEPT ![c] = pos[c] + 1]
          /\ pc' = [pc EXCEPT ![c] = "dispatch"] /\ UNCHANGED committed
      BY <2>3 DEF GetOne, topic
    <3>2. \A o \in 1..pos[c] : Done(o)
      BY <3>1 DEF OwnerBehind
    <3>3. CommittedSettled'
      BY <1>0, <2>1, <2>2, <3>1 DEF CommittedSettled
    <3>4. InOrder'
      BY <1>0, <2>1, <2>2, <3>1, <3>2 DEF InOrder
    <3>5. OwnerBehind'
      BY <1>0, <2>1, <2>2, <3>1, <3>2 DEF OwnerBehind
    <3>6. InHand'
      BY <1>0, <2>1, <2>2, <3>1 DEF InHand
    <3> QED BY <3>3, <3>4, <3>5, <3>6
  <2>4. CASE Invalid(c) \/ Dispatched(c) \/ BreakerOpen(c) \/ Failed(c)
             \/ (Transient(c) /\ Finish(c))
    <3>1. pc[c] = "dispatch" /\ Finish(c)
      BY <2>4 DEF Invalid, Dispatched, BreakerOpen, Failed, Finish
    <3>2. log[cur[c]] \subseteq Settled'
      BY <2>4, <3>1, FinishDone
    <3>3. /\ pc' = [pc EXCEPT ![c] = "commit"] /\ UNCHANGED <<committed, pos, cur>>
          /\ cur[c] \in 1..Len(log)
      BY <3>1 DEF Finish, topic, InHand
    <3>4. Done(cur[c])'
      BY <2>1, <3>2, <3>3 DEF Done
    <3>5. CommittedSettled' /\ InOrder'
      BY <1>0, <2>1, <2>2, <3>1, <3>3 DEF CommittedSettled, InOrder, Phases
    <3>6. OwnerBehind'
      BY <1>0, <2>1, <2>2, <3>1, <3>3, <3>4 DEF OwnerBehind, Phases
    <3>7. InHand'
      BY <1>0, <2>1, <2>2, <3>1, <3>3, <3>4 DEF InHand, Phases
    <3> QED BY <3>5, <3>6, <3>7
  <2>5. CASE Transient(c) /\ ~Finish(c)
    <3>1. /\ pc[c] = "dispatch" /\ cur[c] \in 1..Len(log)
          /\ pos' = [pos EXCEPT ![c] = cur[c] - 1] /\ cur' = [cur EXCEPT ![c] = 0]
          /\ pc' = [pc EXCEPT ![c] = "poll"] /\ UNCHANGED committed
      BY <2>5 DEF Transient, topic, InHand
    <3>2. \A o \in 1..(cur[c] - 1) : Done(o)
      BY <3>1 DEF InOrder
    <3>3. CommittedSettled' /\ InOrder'
      BY <1>0, <2>1, <2>2, <3>1 DEF CommittedSettled, InOrder, Phases
    <3>4. OwnerBehind'
      BY <1>0, <2>1, <2>2, <3>1, <3>2 DEF OwnerBehind, Phases
    <3>5. InHand'
      BY <1>0, <2>1, <2>2, <3>1 DEF InHand, Phases
    <3> QED BY <3>3, <3>4, <3>5
  <2>6. CASE SeekRefused(c)
    BY <1>2, <2>1, <2>6 DEF SeekRefused, topic
  <2>7. CASE Commit(c)
    <3>1. /\ pc[c] = "commit" /\ cur[c] \in 1..Len(log) /\ Done(cur[c])
          /\ committed' = (IF owner = c THEN cur[c] ELSE committed)
          /\ cur' = [cur EXCEPT ![c] = 0]
          /\ pc' = [pc EXCEPT ![c] = "poll"] /\ UNCHANGED pos
      BY <2>7 DEF Commit, InHand
    <3>2. \A o \in 1..cur[c] : Done(o)
      BY <1>0, <3>1 DEF InOrder
    <3>3. CommittedSettled'
      BY <1>0, <2>1, <2>2, <3>1, <3>2 DEF CommittedSettled
    <3>4. InOrder' /\ InHand'
      BY <1>0, <2>1, <2>2, <3>1 DEF InOrder, InHand, Phases
    <3>5. OwnerBehind'
      BY <1>0, <2>1, <2>2, <3>1, <3>2 DEF OwnerBehind, Phases
    <3> QED BY <3>3, <3>4, <3>5
  <2> QED BY <1>4, <2>3, <2>4, <2>5, <2>6, <2>7 DEF Loop
<1> QED BY <1>1, <1>3, <1>4

-----------------------------------------------------------------------------
(* The theorems.                                                           *)

LEMMA KafkaInit == Init => KafkaInv
<1> SUFFICES ASSUME Init PROVE KafkaInv
  OBVIOUS
<1> USE KafkaAssumption
<1>1. log \in Seq(SUBSET Events) /\ Len(log) \in 0..1 /\ Len(log) <= MaxRecords
  <2>1. CASE log = <<>>
    BY <2>1
  <2>2. CASE log = <<{}>>
    BY <2>2
  <2> QED BY <2>1, <2>2 DEF Init
<1>2. TypeOK
  <2>1. /\ todo \in Seq([lo : Events, hi : Events, limit : Nat])
        /\ attempts \in [Consumers -> [Offsets -> Nat]] /\ raises \in 0..MaxRaises
        /\ disturbed \in 0..MaxDisturbances /\ pc \in [Consumers -> Phases]
    BY WholeFacts DEF Init, Frames, Phases
  <2>2. /\ committed \in 0..Len(log) /\ pos \in [Consumers -> 0..Len(log)]
        /\ cur \in [Consumers -> 0..Len(log)]
    BY <1>1 DEF Init
  <2> QED BY <1>1, <2>1, <2>2 DEF Init, TypeOK
<1>3. ProducerInv
  BY WholeFacts DEF Init, ProducerInv, FramesProper, Covered, Returned, InFrame, Events
<1>4. GroupInv
  BY DEF Init, GroupInv, CommittedSettled, InOrder, OwnerBehind, InHand
<1> QED BY <1>2, <1>3, <1>4 DEF KafkaInv

LEMMA KafkaStep ==
    ASSUME KafkaInv, [Next]_vars
    PROVE  KafkaInv' /\ Settled \subseteq Settled'
<1> USE DEF KafkaInv
<1>1. CASE Producing
  <2>1. GroupInv'
    BY <1>1, ProducingStep, GroupUntouched DEF TypeOK
  <2> QED BY <1>1, <2>1, ProducingStep DEF Settled
<1>2. ASSUME NEW c \in Consumers, Join(c) \/ Rebalance(c) \/ Die(c) \/ Loop(c)
      PROVE  KafkaInv' /\ Settled \subseteq Settled'
  <2>1. InHand
    BY DEF GroupInv
  <2>2. TypeOK' /\ GroupInv'
    BY <1>2, <2>1, GroupTypes, GroupStep
  <2>3. kept \subseteq kept' /\ dropped \subseteq dropped' /\ UNCHANGED <<producer, log>>
    <3>1. CASE Loop(c)
      BY <2>1, <3>1, FateStep
    <3>2. CASE Join(c) \/ Rebalance(c) \/ Die(c)
      BY <3>2 DEF Join, Rebalance, Die, Assign, fate
    <3> QED BY <1>2, <3>1, <3>2
  <2>4. ProducerInv'
    BY <2>3 DEF ProducerInv, FramesProper, Covered, Returned, InFrame, producer, Settled
  <2> QED BY <2>2, <2>3, <2>4 DEF Settled
<1>3. CASE UNCHANGED vars
  <2>1. UNCHANGED <<size, todo, oversized, produced, raises, log, committed, owner, pos, cur,
                    attempts, pc, disturbed, kept, dropped>>
    BY <1>3 DEF vars, producer, topic, consumer, fate
  <2>2. TypeOK'
    BY <2>1 DEF TypeOK
  <2>3. ProducerInv'
    BY <2>1 DEF ProducerInv, FramesProper, Covered, Returned, InFrame, Settled
  <2>4. GroupInv'
    BY <2>1 DEF GroupInv, CommittedSettled, InOrder, OwnerBehind, InHand, Done, Settled
  <2> QED BY <2>1, <2>2, <2>3, <2>4 DEF Settled
<1> QED BY <1>1, <1>2, <1>3 DEF Next

\* Offsets stay within the log, and every run of events left to produce is a run of
\* the sub-batch, whoever joins, dies or raises (kafka_transport.py:590-791).
THEOREM KafkaTypes == Spec => []TypeOK
<1>1. KafkaInv /\ [Next]_vars => KafkaInv'
  BY KafkaStep
<1>2. KafkaInv => TypeOK
  BY DEF KafkaInv
<1> QED BY KafkaInit, <1>1, <1>2, PTL DEF Spec

\* No rebalance, retry, restart or late commit makes the group skip a record: what
\* a committed offset covers is settled (kafka_transport.py:590-791).
THEOREM GroupNeverSkips == Spec => []CommittedSettled
<1>1. KafkaInv /\ [Next]_vars => KafkaInv'
  BY KafkaStep
<1>2. KafkaInv => CommittedSettled
  BY DEF KafkaInv, GroupInv
<1> QED BY KafkaInit, <1>1, <1>2, PTL DEF Spec

\* A record is taken in hand only after the earlier ones have their outcomes, by
\* the owner and by a consumer that lost the partition alike.
THEOREM RecordsInOrder == Spec => []InOrder
<1>1. KafkaInv /\ [Next]_vars => KafkaInv'
  BY KafkaStep
<1>2. KafkaInv => InOrder
  BY DEF KafkaInv, GroupInv
<1> QED BY KafkaInit, <1>1, <1>2, PTL DEF Spec

Owned == ~produced \/ committed < Len(log)

\* A batch the lane let go of is settled.
LEMMA ReleasedSettled == KafkaInv => Owned \/ Settled = Events
<1> SUFFICES ASSUME KafkaInv, ~Owned PROVE Settled = Events
  OBVIOUS
<1>1. Settled \subseteq Events /\ committed = Len(log) /\ Len(log) \in Nat
  BY DEF KafkaInv, TypeOK, Settled, Owned
<1>2. ASSUME NEW e \in Events PROVE e \in Settled
  <2>1. todo = <<>> /\ oversized \subseteq Settled
    BY DEF KafkaInv, ProducerInv, Returned, Owned
  <2>2. e \in Settled \/ \E o \in 1..Len(log) : e \in log[o]
    BY <2>1 DEF KafkaInv, ProducerInv, Covered
  <2> QED BY <1>1, <2>2 DEF KafkaInv, GroupInv, CommittedSettled, Done
<1> QED BY <1>1, <1>2

\* The Kafka lane implements the safety part of the delivery contract, for every
\* sub-batch, size limits and group (kafka_transport.py:377-545, 590-791).
THEOREM KafkaKeepsContract == Spec => Contract!Safety
<1>1. Init => Contract!Init
  BY DEF Init, Contract!Init, Settled
<1>2. KafkaInv /\ [Next]_vars => KafkaInv'
  BY KafkaStep
<1>3. /\ KafkaInv /\ [Next]_vars
      /\ Owned \/ Settled = Events
      /\ (Owned \/ Settled = Events)'
      => [Contract!Next]_(Contract!vars)
  <2> SUFFICES ASSUME KafkaInv, [Next]_vars, Owned \/ Settled = Events,
                      (Owned \/ Settled = Events)'
               PROVE  [Contract!Next]_(Contract!vars)
    OBVIOUS
  <2>1. Settled \subseteq Settled' /\ Settled' \in SUBSET Events
    BY KafkaStep DEF KafkaInv, TypeOK, Settled
  <2>2. CASE Owned
    BY <2>1, <2>2 DEF Contract!Next, Contract!Work, Contract!vars, Owned
  <2>3. CASE ~Owned /\ Owned'
    BY <2>1, <2>3 DEF Contract!Next, Contract!HandOverAgain, Owned
  <2>4. CASE ~Owned /\ ~Owned'
    BY <2>1, <2>4 DEF Contract!vars, Owned
  <2> QED BY <2>2, <2>3, <2>4
<1> QED
  BY KafkaInit, ReleasedSettled, <1>1, <1>2, <1>3, PTL DEF Spec, Contract!Safety

=============================================================================
