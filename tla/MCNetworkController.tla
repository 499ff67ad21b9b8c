------------------------ MODULE MCNetworkController ------------------------
(* Small instances of NetworkController for TLC.                           *)
EXTENDS NetworkController

CONSTANTS p1, p2
=============================================================================
