---------------------------- MODULE MCDirectory ----------------------------
(***************************************************************************)
(* A model of Directory: requests and users are interchangeable.           *)
(***************************************************************************)
EXTENDS Directory, TLC

Symmetry == Permutations(Procs) \union Permutations(Users)
=============================================================================
