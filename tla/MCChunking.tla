----------------------------- MODULE MCChunking -----------------------------
EXTENDS Chunking, SequencesExt

CONSTANTS
    MaxLen,  \* bound on the length of a batch
    Sizes    \* serialised sizes of events

\* Either limit alone, both, an item limit of one, and limits that cross.
MCLimits == [items : {1, 3}, bytes : {0, 5}] \cup {[items |-> 5, bytes |-> 5]}

\* Every batch of at most MaxLen events of these sizes.
MCBatches ==
    {[len  |-> Len(sizes),
      upto |-> [i \in 0..Len(sizes) |-> FoldLeft(LAMBDA b, n : b + n, 0, SubSeq(sizes, 1, i))]]
        : sizes \in UNION {[1..n -> Sizes] : n \in 0..MaxLen}}

=============================================================================
