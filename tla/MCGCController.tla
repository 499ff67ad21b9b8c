-------------------------- MODULE MCGCController --------------------------
(* A small instance of GCController for TLC: one session with both         *)
(* timeouts and one without the second.                                    *)
EXTENDS GCController

CONSTANTS p1, p2, reusing, plain

MCSessionOf == [p \in PodIds |-> IF p = p1 THEN reusing ELSE plain]
MCTimeoutSeconds == [s \in Sessions |-> 1]
MCReutilizeTimeoutSeconds == [s \in Sessions |-> IF s = reusing THEN 1 ELSE 0]
=============================================================================
