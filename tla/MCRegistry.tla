----------------------------- MODULE MCRegistry -----------------------------
EXTENDS Registry, TLC

\* Admin requests, and reads of the cache, are interchangeable.
Symmetry == Permutations(Procs) \cup Permutations(Reads)

=============================================================================
