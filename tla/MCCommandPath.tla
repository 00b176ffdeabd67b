---------------------------- MODULE MCCommandPath ----------------------------
(* CommandPath for TLC: two callers send the same command to one node.     *)
EXTENDS CommandPath

CONSTANTS c1, c2, key

TwoCommands == {c1, c2}
OneKey      == {key}

SameKey == [c \in Commands |-> key]

(* TX_PRIORITY_GAME                                                        *)
GamePriority == [c \in Commands |-> 0]
=============================================================================
