------------------------------- MODULE MCKeys -------------------------------
EXTENDS Keys, TLC

\* Isolates and processes are interchangeable.
Symmetry == Permutations(Isolates) \cup Permutations(Procs)

=============================================================================
