--------------------------- MODULE MCTelepresence ---------------------------
(* A small instance of Telepresence for TLC.                               *)
EXTENDS Telepresence, TLC

CONSTANTS c1, c2, t1, s1

MCTemplateOf == [p \in PodIds |-> t1]
OnePerPod == [t \in Templates |-> 1]
TwoPerPod == [t \in Templates |-> 2]
WithIp == {TRUE}
JoinsThenDrops == {<<"absent", "up">>, <<"up", "down">>}
JoinsThenLeaves == {<<"absent", "up">>, <<"up", "absent">>}

ClientSymmetry == Permutations(Clients)
=============================================================================
