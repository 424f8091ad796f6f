------------------------------ MODULE MCTokens ------------------------------
\* Two requests at a time, which are interchangeable.
EXTENDS Tokens, TLC

ProcSymmetry == Permutations(Procs)
=============================================================================
