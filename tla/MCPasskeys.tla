----------------------------- MODULE MCPasskeys -----------------------------
(***************************************************************************)
(* A model of Passkeys: requests, users and credentials are                *)
(* interchangeable.                                                        *)
(***************************************************************************)
EXTENDS Passkeys, TLC

Symmetry == Permutations(Procs) \union Permutations(Users) \union Permutations(Creds)
=============================================================================
