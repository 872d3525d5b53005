------------------------------ MODULE MCAbsence ------------------------------
EXTENDS Absence

=============================================================================
