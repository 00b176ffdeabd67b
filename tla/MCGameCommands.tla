--------------------------- MODULE MCGameCommands ----------------------------
(* GameCommands for TLC: two bridges, two threads, a choice of requests.   *)
EXTENDS GameCommands

Nodes == {1, 11, 12}

Body ==
  [way |-> "rest", auth |-> TRUE, msg |-> "set", game |-> "Action", bridge |-> 0, at |-> 0,
   reset |-> FALSE, idle |-> FALSE, alloff |-> FALSE, pixels |-> FALSE,
   general |-> "", nodes |-> {}, setkey |-> "", fields |-> {}, wrong |-> {}]

StartKey == [Body EXCEPT !.setkey = "good", !.at = 11, !.bridge = 1]
Hide == [Body EXCEPT !.game = "Hide"]
Message == [Body EXCEPT !.way = "tcp"]

Unified ==
  {StartKey,
   [StartKey EXCEPT !.setkey = "short", !.general = "good", !.nodes = {1}, !.bridge = 0],
   [Body EXCEPT !.general = "good", !.nodes = {12}, !.bridge = 2],
   [Body EXCEPT !.reset = TRUE], [Body EXCEPT !.idle = TRUE, !.pixels = TRUE, !.bridge = 1],
   [Body EXCEPT !.reset = TRUE, !.general = "good"],
   [Hide EXCEPT !.general = "good", !.at = 1, !.fields = {"Arm", "Motion"}, !.wrong = {"Motion"}],
   [Hide EXCEPT !.alloff = TRUE, !.bridge = 2],
   [Body EXCEPT !.game = "Vibron", !.fields = {"GridEffect"}, !.setkey = "good"],
   [Body EXCEPT !.game = "Tesla", !.fields = {"DropArm"}, !.at = 1]}

Messages ==
  {[Message EXCEPT !.msg = "hide", !.general = "token"],
   [Message EXCEPT !.msg = "hide", !.general = "good"],
   [Message EXCEPT !.msg = "hide", !.general = "good", !.at = 1],
   [Message EXCEPT !.msg = "S", !.setkey = "good", !.at = 11],
   [Message EXCEPT !.msg = "node", !.bridge = 1, !.way = "rest"],
   [Message EXCEPT !.msg = "malformed"],
   [Message EXCEPT !.msg = "bridges"],
   [Message EXCEPT !.msg = "array"]}

(* Any request, and next to it one of those that share most with others.   *)
Rivals ==
  {StartKey, [Body EXCEPT !.reset = TRUE, !.bridge = 1], [Message EXCEPT !.msg = "hide", !.general = "token"]}

AnyAndRival == <<Unified \cup Messages, Rivals>>
=============================================================================
