----------------------------- MODULE OtaSession ------------------------------
(***************************************************************************)
(* core/ota_session.py: the state machine that updates one node.  It has   *)
(* no thread: the bridge worker calls tick() in every turn of its loop and *)
(* feed_frame() for every answer it parses, so each action below is one    *)
(* such call.  request_abort() alone comes from another thread.            *)
(*                                                                         *)
(* Time is abstracted: tick() may find the deadline passed at any moment.  *)
(* Without the hazard "slow" it passes only when nothing is in flight.     *)
(***************************************************************************)
EXTENDS OtaWire

CONSTANTS
  MaxRetries,      \* OTA_MAX_RETRIES
  MaxFlashRetries  \* the limit tick() uses in FLASH

ASSUME SessionAssumption == MaxRetries \in Nat /\ MaxFlashRetries \in Nat

VARIABLES
  phase,           \* self.phase
  pktIndex,        \* self._pkt_index
  retries,         \* self._retries
  abortRequested   \* self._abort_requested

sessionVars == <<phase, pktIndex, retries, abortRequested>>

Running  == {"ENTER_BOOT", "START", "FLASH", "END"}
Verdicts == {"DONE", "ERROR", "ABORTED"}

(* self._finished: every assignment of it follows one of these phases.     *)
Finished == phase \in Verdicts

SessionTypeOK ==
  /\ phase \in {"IDLE"} \cup Running \cup Verdicts
  /\ pktIndex \in 0 .. NChunks
  /\ retries \in Nat
  /\ abortRequested \in BOOLEAN

SessionInit ==
  /\ phase = "IDLE"
  /\ pktIndex = 0
  /\ retries = 0
  /\ abortRequested = FALSE

(* The command the current phase has sent and waits an answer for.         *)
PhaseRequest ==
  CASE phase = "ENTER_BOOT" -> "ENTER_BOOT"
    [] phase = "START"      -> "UPDATE_START"
    [] phase = "FLASH"      -> "UPDATE_DATA"
    [] phase = "END"        -> "UPDATE_END"
    [] OTHER                -> "ABORT_BOOT"

RetryLimit == IF phase = "FLASH" THEN MaxFlashRetries ELSE MaxRetries

Send(c, p) == down' = Append(down, Request(c, p))

-----------------------------------------------------------------------------
(* start(): an image that is too small or has no magic byte never gets     *)
(* here, so the model starts from an accepted one.                         *)
Start ==
  /\ phase = "IDLE"
  /\ phase' = "ENTER_BOOT"
  /\ retries' = 0
  /\ Send("ENTER_BOOT", 0)
  /\ UNCHANGED <<pktIndex, abortRequested, up>>

(* request_abort(), from the GUI thread.                                   *)
RequestAbort ==
  /\ "abort" \in Hazards
  /\ phase \in Running
  /\ abortRequested' = TRUE
  /\ UNCHANGED <<phase, pktIndex, retries, wireVars>>

(* tick() when an abort is pending.                                        *)
AbortFinish ==
  /\ phase \in Running
  /\ abortRequested
  /\ phase' = "ABORTED"
  /\ Send("ABORT_BOOT", 0)
  /\ UNCHANGED <<pktIndex, retries, abortRequested, up>>

(* Variant with a bug: tick() without the check of _finished.              *)
DeadlineAfterVerdict ==
  /\ phase # "IDLE"
  /\ ~ abortRequested
  /\ down = <<>> /\ up = <<>>

DeadlinePassed ==
  /\ phase \in Running
  /\ ~ abortRequested
  /\ \/ "slow" \in Hazards /\ WireHasRoom
     \/ down = <<>> /\ up = <<>>

(* Variant with a bug: a resend that is not counted.                       *)
TimeoutResendUncounted ==
  /\ DeadlinePassed
  /\ Send(PhaseRequest, IF phase = "FLASH" THEN pktIndex ELSE 0)
  /\ UNCHANGED <<sessionVars, up>>

(* tick() past the deadline: send the request of the phase once more.      *)
TimeoutResend ==
  /\ DeadlinePassed
  /\ retries + 1 <= RetryLimit
  /\ retries' = retries + 1
  /\ Send(PhaseRequest, IF phase = "FLASH" THEN pktIndex ELSE 0)
  /\ UNCHANGED <<phase, pktIndex, abortRequested, up>>

(* tick() past the deadline when the retries are used up.                  *)
TimeoutFail ==
  /\ DeadlinePassed
  /\ retries + 1 > RetryLimit
  /\ retries' = retries + 1
  /\ phase' = "ERROR"
  /\ UNCHANGED <<pktIndex, abortRequested, wireVars>>

-----------------------------------------------------------------------------
(* feed_frame(f), one operator per outcome.  Every one consumes the head   *)
(* of up; Receive below does that.                                         *)

Ignore == UNCHANGED <<sessionVars, down>>

Fail ==
  /\ phase' = "ERROR"
  /\ UNCHANGED <<pktIndex, retries, abortRequested, down>>

(* _send_chunk(): the retry counter is left as it is.                      *)
SendChunk(p) ==
  /\ phase' = "FLASH"
  /\ Send("UPDATE_DATA", p)

(* Variant with a bug: a NACK in FLASH goes back to the chunk before.      *)
FeedNackStepsBack(f) ==
  /\ f.cmd = "NACK"
  /\ IF f.src = Me /\ f.re = PhaseRequest /\ phase = "FLASH"
     THEN /\ pktIndex' = pktIndex - 1
          /\ SendChunk(pktIndex)
          /\ UNCHANGED <<retries, abortRequested>>
     ELSE Ignore

(* A NACK reaches the session only from its own node (bridge_worker), and  *)
(* counts only if it names the command of the phase.  In FLASH the chunk   *)
(* is sent again at once, without a retry being counted.                   *)
FeedNack(f) ==
  /\ f.cmd = "NACK"
  /\ \/ /\ f.src # Me \/ f.re # PhaseRequest
        /\ Ignore
     \/ /\ f.src = Me /\ f.re = PhaseRequest
        /\ IF phase = "FLASH"
           THEN SendChunk(pktIndex) /\ UNCHANGED <<pktIndex, retries, abortRequested>>
           ELSE Fail

(* A BOOT_ERROR ends the session whichever node sent it.                   *)
FeedBootError(f) ==
  /\ f.cmd = "BOOT_ERROR"
  /\ Fail

FeedBootAck(f) ==
  /\ f.cmd = "BOOT_ACK"
  /\ IF phase = "ENTER_BOOT"
     THEN IF f.st = 1
          THEN /\ phase' = "START"
               /\ retries' = 0
               /\ Send("UPDATE_START", 0)
               /\ UNCHANGED <<pktIndex, abortRequested>>
          ELSE Fail
     ELSE Ignore

FeedStartAck(f) ==
  /\ f.cmd = "UPDATE_ACK" /\ phase = "START"
  /\ IF FirstByte(f) = 0
     THEN /\ pktIndex' = 0
          /\ SendChunk(0)
          /\ UNCHANGED <<retries, abortRequested>>
     ELSE Fail

(* The three-byte answer to the current chunk: the next chunk, or          *)
(* UPDATE_END after the last one.                                          *)
ChunkStored ==
  /\ pktIndex' = pktIndex + 1
  /\ retries' = 0
  /\ IF pktIndex + 1 >= NChunks
     THEN phase' = "END" /\ Send("UPDATE_END", 0)
     ELSE SendChunk(pktIndex + 1)
  /\ UNCHANGED abortRequested

(* Variant with a bug: the packet number is not compared.                  *)
FeedDataAckAnyPacket(f) ==
  /\ f.cmd = "UPDATE_ACK" /\ phase = "FLASH"
  /\ IF f.len = 3 /\ f.st = 0 THEN ChunkStored ELSE Ignore

FeedDataAck(f) ==
  /\ f.cmd = "UPDATE_ACK" /\ phase = "FLASH"
  /\ \/ /\ f.len = 3 /\ f.pkt # pktIndex
        /\ Ignore
     \/ /\ f.len = 3 /\ f.pkt = pktIndex /\ f.st = 0
        /\ ChunkStored
     \/ /\ f.len = 3 /\ f.pkt = pktIndex /\ f.st = 3
        /\ SendChunk(pktIndex)
        /\ UNCHANGED <<pktIndex, retries, abortRequested>>
     \/ /\ f.len = 3 /\ f.pkt = pktIndex /\ f.st \notin {0, 3}
        /\ Fail
     \/ /\ f.len # 3
        /\ IF f.len = 1 /\ f.st # 0 THEN Fail ELSE Ignore

(* Variant with a bug: any UPDATE_ACK completes the update.                *)
FeedEndAckAnyStatus(f) ==
  /\ f.cmd = "UPDATE_ACK" /\ phase = "END"
  /\ phase' = "DONE"
  /\ UNCHANGED <<pktIndex, retries, abortRequested, down>>

(* The answer to UPDATE_END is recognised by its first byte alone.         *)
FeedEndAck(f) ==
  /\ f.cmd = "UPDATE_ACK" /\ phase = "END"
  /\ IF FirstByte(f) = 0
     THEN phase' = "DONE" /\ UNCHANGED <<pktIndex, retries, abortRequested, down>>
     ELSE Fail

FeedOther(f) ==
  /\ \/ f.cmd = "ACK"
     \/ f.cmd = "UPDATE_ACK" /\ phase = "ENTER_BOOT"
  /\ Ignore

(* The worker reads one answer.  Before start(), after the verdict and     *)
(* once an abort is requested it has no effect.                            *)
Receive ==
  /\ up # <<>>
  /\ up' = Tail(up)
  /\ LET f == Head(up) IN
     IF phase \notin Running \/ abortRequested
     THEN Ignore
     ELSE \/ FeedNack(f)
          \/ FeedBootError(f)
          \/ FeedBootAck(f)
          \/ FeedStartAck(f)
          \/ FeedDataAck(f)
          \/ FeedEndAck(f)
          \/ FeedOther(f)

(* An answer that never arrives, or arrives damaged: parse_frame drops it. *)
LoseAnswer ==
  /\ "loss" \in Hazards
  /\ up # <<>>
  /\ up' = Tail(up)
  /\ UNCHANGED <<sessionVars, down>>

Tick == TimeoutResend \/ TimeoutFail \/ AbortFinish

SessionNext == Start \/ RequestAbort \/ Tick \/ Receive
=============================================================================
