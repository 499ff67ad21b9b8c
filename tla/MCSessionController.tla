------------------------ MODULE MCSessionController ------------------------
(* Small instances of SessionController for TLC.                           *)
EXTENDS SessionController, TLC

CONSTANTS c1, c2, c3, t1, t2, s1, s2

MCTemplateOf ==
  [p \in PodIds |-> IF t2 \in Templates /\ p % 2 = 0 THEN t2 ELSE t1]
NonePerPod == [t \in Templates |-> 0]
OnePerPod == [t \in Templates |-> 1]
TwoPerPod == [t \in Templates |-> 2]
EitherIp == BOOLEAN
WithIp == {TRUE}
AllEdits == {e \in ClientStates \X ClientStates : e[1] # e[2]}
Joins == {<<"absent", "up">>}
JoinsThenDrops == {<<"absent", "up">>, <<"up", "down">>}
Flapping == {<<"absent", "up">>, <<"up", "down">>, <<"down", "up">>}
ClientSymmetry == Permutations(Clients)
=============================================================================
