--------------------------- MODULE MCRemoteAccess ---------------------------
(* Instances of RemoteAccess for TLC. *)
EXTENDS RemoteAccess

CONSTANTS p1, c1, c2
=============================================================================
