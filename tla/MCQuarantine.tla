----------------------------- MODULE MCQuarantine -----------------------------
(* Model of Quarantine for TLC: a flood of one reason, and one event of another *)
(* that was too large to be stored whole.                                        *)
EXTENDS Quarantine

CONSTANTS e1, e2, e3, k1, k2

MCKindOf == [e \in Events |-> IF e = e3 THEN k2 ELSE k1]

=============================================================================
