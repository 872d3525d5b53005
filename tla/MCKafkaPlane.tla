---------------------------- MODULE MCKafkaPlane ----------------------------
(* Model of KafkaPlane for TLC. *)
EXTENDS KafkaPlane, SequencesExt

\* Sizes that add up, event by event.
Additive(sizes) == [lo \in Events |-> [hi \in Events |->
    FoldSeq(LAMBDA n, sum : n + sum, 0, SubSeq(sizes, lo, hi))]]

\* A sub-batch that is refused as a whole and bisected, and one with an event that
\* fits no record.
MCSizes == {Additive(<<2, 2>>), Additive(<<1, 4>>)}

=============================================================================
