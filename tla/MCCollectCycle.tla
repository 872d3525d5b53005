--------------------------- MODULE MCCollectCycle ---------------------------
(* Small instances of CollectCycle for TLC. *)
EXTENDS CollectCycle, TLC

WorkerSymmetry == Permutations(Workers)
DestSymmetry == Permutations(Dests)
Symmetry == WorkerSymmetry \cup DestSymmetry

\* No guard reads where events went, so a run that only asks who processes
\* what may identify states that differ in the sinks alone.
ProcessingView == <<head, lock, store, claims, failures, local, evicted,
                    overrun>>

\* What became of an event is never taken back, and nothing but Answered reads
\* it: a run about fates may identify states that agree on which events are
\* answered and, for the others, on the destinations already served.
FateView ==
    <<head, lock, store, claims, failures, local, Answered,
      [d \in Dests |-> (queue[d] \cup shed[d]) \ Answered]>>
=============================================================================
