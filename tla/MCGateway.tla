------------------------------ MODULE MCGateway ------------------------------
(***************************************************************************)
(* Gateway on a small instance.                                            *)
(***************************************************************************)
EXTENDS Gateway

CONSTANTS r1, r2, alice, bob
=============================================================================
