------------------------------- MODULE OtaWire -------------------------------
(***************************************************************************)
(* The serial bus between the service and the nodes of one bridge, as one  *)
(* OTA transfer sees it: a TCP link to a USR-DR134 converter and an RS485  *)
(* pair behind it.  Both directions keep the order of the frames and may   *)
(* lose any of them: a frame whose CRC fails at the service is dropped by  *)
(* parse_frame, a frame the node never hears leaves no trace.  A loss is   *)
(* modelled where the frame would have been read.                          *)
(*                                                                         *)
(* A request carries cmd and pkt, an answer all of these fields:           *)
(*   cmd   the command byte of core/protocol.py                            *)
(*   pkt   the packet number of UPDATE_DATA and of its three-byte answer   *)
(*   st    the status or error byte of an answer                           *)
(*   len   the number of data bytes of an answer                           *)
(*   re    the command a NACK names; on any other answer it is an          *)
(*         auxiliary field, the command that caused it, never read by the  *)
(*         service                                                         *)
(*   src   the node that sent the answer                                   *)
(***************************************************************************)
EXTENDS Integers, Sequences

CONSTANTS
  NChunks,     \* number of 240-byte chunks of the firmware image
  ByteMod,     \* number of values of a byte: 256
  Me,          \* the node under update
  Sisters,     \* the other nodes of the bus
  WireBound,   \* bound: frames in flight before a timer may add another
  Hazards      \* what may go wrong, see AllHazards

AllHazards == {
  "loss",      \* a frame or an answer disappears
  "damage",    \* a request reaches the node with a bad frame CRC
  "bitrot",    \* a chunk whose own CRC fails behind a good frame CRC
  "slow",      \* a deadline passes while an answer is on its way
  "restart",   \* the node restarts in the middle of a transfer
  "expiry",    \* the node's own OTA timeout
  "flash",     \* Update.begin, Update.write or Update.end fails
  "refusal",   \* the node refuses the password or the image size
  "sisters",   \* other nodes of the bus speak
  "abort" }    \* the operator cancels

ASSUME NChunksAssumption == NChunks \in Nat \ {0}
ASSUME ByteModAssumption == ByteMod \in Nat \ {0}
ASSUME HazardsAssumption == Hazards \subseteq AllHazards
ASSUME WireAssumption == Me \notin Sisters /\ WireBound \in Nat

VARIABLES
  down,        \* frames on their way to the node, oldest first
  up           \* answers on their way to the service, oldest first

wireVars == <<down, up>>

Requests == {"ENTER_BOOT", "UPDATE_START", "UPDATE_DATA", "UPDATE_END", "ABORT_BOOT"}
Answers  == {"BOOT_ACK", "UPDATE_ACK", "BOOT_ERROR", "NACK", "ACK"}

PktType == 0 .. NChunks

RequestFrame == [cmd : Requests, pkt : PktType]

AnswerFrame ==
  [cmd : Answers, re : Requests \cup {"none"}, pkt : PktType, st : Nat, len : Nat,
   src : Sisters \cup {Me}]

Request(c, p) == [cmd |-> c, pkt |-> p]

(* An answer of n data bytes.                                              *)
Answer(c, cause, p, status, n, s) ==
  [cmd |-> c, re |-> cause, pkt |-> p, st |-> status, len |-> n, src |-> s]

(* data[0] of an UPDATE_ACK: the low byte of the packet number when three  *)
(* bytes answer UPDATE_DATA, the status byte when one byte answers         *)
(* UPDATE_START or UPDATE_END.                                             *)
FirstByte(f) == IF f.len = 3 THEN f.pkt % ByteMod ELSE f.st

WireTypeOK == down \in Seq(RequestFrame) /\ up \in Seq(AnswerFrame)

WireInit == down = <<>> /\ up = <<>>

(* There is room for one more frame that answers nothing.                  *)
WireHasRoom == Len(down) + Len(up) < WireBound
=============================================================================
