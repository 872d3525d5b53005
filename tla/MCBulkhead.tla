------------------------------ MODULE MCBulkhead ------------------------------
(* Model of Bulkhead for TLC: two dispatches in one process, a third in another *)
(* whose host's clock is ahead.                                                  *)
EXTENDS Bulkhead

CONSTANTS t1, t2, t3, l1, l2

MCLoopOf == [t \in Tasks |-> IF t = t3 THEN l2 ELSE l1]
\* t2 plays the part of t1 but for a second token, drawn after the first leaked.
MCTokens == [t \in Tasks |-> IF t = t2 THEN {<<t, 1>>} ELSE {<<t, 1>>, <<t, 2>>}]
MCSkew   == [l \in Loops |-> IF l = l2 THEN 1 ELSE 0]

=============================================================================
