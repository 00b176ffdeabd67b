------------------------------ MODULE OtaFlash -------------------------------
(***************************************************************************)
(* One firmware update: an OtaSession of the service, driven by its bridge *)
(* worker, and the OtaMgr of the node, joined by the bus.                  *)
(***************************************************************************)
EXTENDS OtaSession, OtaNode

vars == <<sessionVars, nodeVars, wireVars>>

Init == WireInit /\ SessionInit /\ NodeInit

ServiceStep == (SessionNext \/ LoseAnswer) /\ UNCHANGED nodeVars
BusStep     == NodeNext /\ UNCHANGED sessionVars

Next == ServiceStep \/ BusStep

(* The worker's loop never stops turning, so a pending answer is read, a   *)
(* pending abort is served and an expired deadline is noticed; a frame     *)
(* does not stay on the bus for ever.  Tick is strongly fair because a     *)
(* deadline passes whatever is in flight: only the bound WireBound can     *)
(* disable it for a while.                                                 *)
Fairness ==
  /\ WF_vars(Receive /\ UNCHANGED nodeVars)
  /\ SF_vars(Tick /\ UNCHANGED nodeVars)
  /\ WF_vars(NodeStep /\ UNCHANGED sessionVars)

Spec == Init /\ [][Next]_vars
FairSpec == Spec /\ Fairness

TypeOK == WireTypeOK /\ SessionTypeOK /\ NodeTypeOK

-----------------------------------------------------------------------------
FullImage == [i \in 1 .. NChunks |-> i - 1]

(* The report "ota_done" (_done: the flash is complete, the node restarts) *)
(* is true: the node has committed the image.                              *)
DoneMeansCommitted == phase = "DONE" => image = FullImage

(* Whatever is lost, repeated or refused on the way, the image a node      *)
(* boots is all the chunks in order, each once.                            *)
CommittedImageIsWhole == image \in {<<>>, FullImage}

(* The bytes the operator is shown as sent are on the node: as long as the *)
(* node still receives this image, it has stored every chunk the session   *)
(* has moved past.                                                         *)
AckedChunksAreStored ==
  phase \in {"FLASH", "END"} /\ pktIndex > 0 /\ fwStarted => pktIndex <= expectPkt

(* The two sides never drift apart by more than one chunk: a chunk on its  *)
(* way to a node that receives is the one the node expects or a repetition *)
(* of the one before, so none is ever refused as out of order, however     *)
(* requests and answers are lost or repeated, and even if the node         *)
(* restarts and is started again.                                          *)
NodeNeverSeesGap ==
  fwStarted => \A i \in DOMAIN down :
    down[i].cmd = "UPDATE_DATA" => down[i].pkt \in {expectPkt, expectPkt - 1}

-----------------------------------------------------------------------------
Verdict ==
  CASE phase = "DONE"               -> "success"
    [] phase \in {"ERROR", "ABORTED"} -> "failure"
    [] OTHER                        -> "none"

Promise == INSTANCE FlashPromise
             WITH store <- written, boot <- image, verdict <- Verdict

(* The transfer keeps the promise: every step of the session, the node and *)
(* the bus is a step of FlashPromise or leaves its variables alone.        *)
PromiseKept == Promise!Spec

-----------------------------------------------------------------------------
(* Resending a chunk because of a NACK or of status 0x03 costs no retry.   *)
UncountedResend ==
  /\ Receive
  /\ phase = "FLASH" /\ ~ abortRequested
  /\ \/ Head(up).cmd = "NACK" /\ Head(up).re = "UPDATE_DATA" /\ Head(up).src = Me
     \/ Head(up).cmd = "UPDATE_ACK" /\ Head(up).pkt = pktIndex /\ Head(up).st = 3

(* A started update ends with a verdict, unless the node keeps asking for  *)
(* the same chunk for ever: the retry limits bound everything else.        *)
EndsUnlessNodeKeepsAsking ==
  (phase \in Running ~> Finished) \/ []<><<UncountedResend>>_vars

-----------------------------------------------------------------------------
(* The inductive invariant.  Both directions keep their order, so the      *)
(* requests of one update travel round the loop session -> node -> session *)
(* sorted by stage: ENTER_BOOT, UPDATE_START, the chunks, UPDATE_END.  What *)
(* is in flight is therefore at most one stage behind the session: an      *)
(* answer that moves the session on leaves nothing older behind it.        *)

Stage(c, p) ==
  CASE c = "ENTER_BOOT"   -> 0
    [] c = "UPDATE_START" -> 1
    [] c = "UPDATE_DATA"  -> 2 + p
    [] c = "UPDATE_END"   -> NChunks + 2
    [] OTHER              -> NChunks + 3

DownStage(i) == Stage(down[i].cmd, down[i].pkt)
UpStage(i)   == Stage(up[i].re, up[i].pkt)
SessionStage == Stage(PhaseRequest, pktIndex)

IsAck(f) == f.cmd \in {"BOOT_ACK", "UPDATE_ACK"}

(* What the node can have answered: the shape of each acknowledgement, and *)
(* the one that reports a commit reports the truth.                        *)
GoodAnswer(f) ==
  /\ f.cmd = "BOOT_ACK" => f.re = "ENTER_BOOT"
  /\ f.cmd = "UPDATE_ACK" =>
       \/ f.re = "UPDATE_START" /\ f.len = 1
       \/ f.re = "UPDATE_DATA"  /\ f.len = 3 /\ f.pkt < NChunks
       \/ f.re = "UPDATE_END"   /\ f.len = 1 /\ (f.st = 0 => image = FullImage)

GoodRequest(f) == f.cmd = "UPDATE_DATA" => f.pkt < NChunks

WireInv ==
  /\ \A i \in DOMAIN up : GoodAnswer(up[i])
  /\ \A i \in DOMAIN down : GoodRequest(down[i])
  /\ phase = "IDLE" => down = <<>> /\ \A i \in DOMAIN up : ~ IsAck(up[i])

OrderInv ==
  /\ \A i, j \in DOMAIN down : i < j => DownStage(i) <= DownStage(j)
  /\ \A i, j \in DOMAIN up :
       i < j /\ IsAck(up[i]) /\ IsAck(up[j]) => UpStage(i) <= UpStage(j)
  /\ \A i \in DOMAIN up, j \in DOMAIN down : IsAck(up[i]) => UpStage(i) <= DownStage(j)

WindowInv ==
  phase \in Running =>
    /\ \A j \in DOMAIN down : DownStage(j) \in SessionStage - 1 .. SessionStage
    /\ \A i \in DOMAIN up : IsAck(up[i]) => UpStage(i) \in SessionStage - 1 .. SessionStage

(* The node writes in order, and its counter counts what it wrote.         *)
StoreInv ==
  /\ phase = "FLASH" => pktIndex < NChunks
  /\ phase = "END" => pktIndex = NChunks
  /\ expectPkt = Len(written)
  /\ \A i \in DOMAIN written : written[i] = i - 1

(* An acknowledged chunk is still there as long as the transfer is.        *)
AckInv ==
  fwStarted => \A i \in DOMAIN up :
    up[i].cmd = "UPDATE_ACK" /\ up[i].re = "UPDATE_DATA" /\ up[i].st = 0
      => up[i].pkt < expectPkt

(* Why the success report is true: it is the answer to UPDATE_END, because *)
(* no other answer that can still arrive starts with the byte 0.  This     *)
(* needs the number of the last chunk not to end in a zero byte.           *)
LastChunkTellsItself == (NChunks - 1) % ByteMod # 0

(* All of it together.                                                     *)
IInv ==
  /\ TypeOK
  /\ WireInv
  /\ OrderInv
  /\ WindowInv
  /\ StoreInv
  /\ AckInv
  /\ CommittedImageIsWhole
  /\ AckedChunksAreStored
  /\ NodeNeverSeesGap
  /\ DoneMeansCommitted
=============================================================================
