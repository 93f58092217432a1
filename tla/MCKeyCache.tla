------------------------------ MODULE MCKeyCache ------------------------------
(***************************************************************************)
(* KeyCache on a small instance.                                           *)
(***************************************************************************)
EXTENDS KeyCache, TLC

CONSTANTS k1, k2, k3, c1, c2

Symmetric == Permutations(Keys) \cup Permutations(Calls)
=============================================================================
