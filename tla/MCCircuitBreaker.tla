-------------------------- MODULE MCCircuitBreaker --------------------------
EXTENDS CircuitBreaker, TLC

\* Workers are interchangeable.
Symmetry == Permutations(Workers)

=============================================================================
