-------------------------- MODULE MCSessionManager --------------------------
(* A small instance of SessionManager for TLC.                             *)
EXTENDS SessionManager, TLC

CONSTANTS k1, k2, n1, a, b, h1, h2

ManagerSymmetry ==
  Permutations({k1, k2}) \cup Permutations({a, b}) \cup Permutations({h1, h2})
=============================================================================
