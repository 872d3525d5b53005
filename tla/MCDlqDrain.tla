----------------------------- MODULE MCDlqDrain -----------------------------
EXTENDS DlqDrain, TLC

\* Events and drains are interchangeable, as far as no constant names them.
Symmetry == Permutations(Drains) \cup Permutations(Events \ (Blank \cup Garbled))

=============================================================================
