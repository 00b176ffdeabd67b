----------------------------- MODULE MCGameEvents -----------------------------
(* GameEvents for TLC: two threads.  TCP clients and the REST client share *)
(* nothing but the events: in a behaviour only one sort comes.  Those of   *)
(* the other have been there and left; when the REST client comes, two     *)
(* events have filled its queue already.                                   *)
EXTENDS GameEvents

BothWirings == {"window", "console"}
TwoThreads == <<<<"touch", "game", "touch">>, <<"link", "touch">>>>

MCInit ==
  /\ InitAtRest
  /\ \/ /\ sock = [c \in Clients |-> "dead"] /\ connects = 0
        /\ made = <<1, 2>> /\ rest = <<<<1, 1>>, <<2, 2>>>>
     \/ /\ sock = [c \in Clients |-> "none"] /\ connects = MaxConnects
        /\ made = <<0, 0>> /\ rest = <<>>

MCSpec == MCInit /\ [][Next]_vars /\ Fairness
=============================================================================
