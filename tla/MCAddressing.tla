---------------------------- MODULE MCAddressing -----------------------------
(* Addressing for TLC: two nodes on one bridge.  They come to have one     *)
(* address when one is assigned before the other has been heard, and none  *)
(* when it is cleared.                                                     *)
EXTENDS Addressing

OneBridge == {1}
TwoNodes == {1, 2}
SameBridge == [m \in TwoNodes |-> 1]
OneAndTwo == {<<1, 2>>}
=============================================================================
