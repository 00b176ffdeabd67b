---------------------------- MODULE MCAutoAssign -----------------------------
(* AutoAssign for TLC: three nodes on two bridges, or two on one.          *)
EXTENDS AutoAssign

OneBridge == {1}
TwoBridges == {1, 2}
TwoNodes == {1, 2}
ThreeNodes == {1, 2, 3}
HomeTwo == [m \in TwoNodes |-> 1]
HomeThree == [m \in ThreeNodes |-> IF m = 3 THEN 2 ELSE 1]
=============================================================================
