----------------------------- MODULE MCBatchOta ------------------------------
(* BatchOta for TLC: two bridges, the first with two nodes.                *)
EXTENDS BatchOta

CONSTANTS b1, b2, n1, n2, n3

TwoBridges == {b1, b2}
OneBridge  == {b1}
ThreeNodes == {n1, n2, n3}
TwoNodes   == {n1, n2}
HomeThree  == [m \in ThreeNodes |-> IF m = n3 THEN b2 ELSE b1]
HomeTwo    == [m \in TwoNodes |-> b1]
HomeApart  == [m \in TwoNodes |-> IF m = n1 THEN b1 ELSE b2]

(* A batch on both bridges is looked at until it is stopped or a bridge is  *)
(* disconnected; what stops and second orders do, on the first bridge while *)
(* the other is idle.  n2 is used after n1, of which it is the double.      *)
Used == {m \in Nodes : status[m] # "NONE" \/ \E s \in DOMAIN sess : sess[s].mac = m}
SmallOrders ==
  /\ n2 \in Used => n1 \in Used
  /\ IF n3 \in Used THEN orders <= 1 /\ \A s \in DOMAIN sess : ~ sess[s].abort
     ELSE orders >= 1 => wanted[b2] /\ linkUp[b2] /\ at[b2] = "tick"

Nothing == {}
ManualAndLinks == {"manual", "link"}
=============================================================================
