------------------------------- MODULE OtaNode -------------------------------
(***************************************************************************)
(* The node's side of a firmware update: class OtaMgr of main.cpp, the OTA *)
(* branch and the ENTER_BOOT case of FrameRx::dispatchBody, and            *)
(* taskOtaTimeout.  A node that is not in OTA mode answers the update      *)
(* commands from the default case of the dispatcher: NACK(cmd, 0xFF).      *)
(*                                                                         *)
(* Update.write and Update.end belong to the ESP8266 core, which is not    *)
(* part of the repository; they are modelled by what OtaMgr relies on: a   *)
(* sequence of written chunks, that becomes the boot image when end(true)  *)
(* succeeds and is dropped by end(false).                                  *)
(***************************************************************************)
EXTENDS OtaWire

VARIABLES
  mode,        \* OtaMgr::state
  fwStarted,   \* OtaMgr::fwStarted
  expectPkt,   \* OtaMgr::expectPkt
  written,     \* the packets behind OtaMgr::written, in the order written
  image,       \* the packets of the image the node boots next, <<>>: the old one
  refusal      \* what the node will not accept: the password, the size or nothing

nodeVars == <<mode, fwStarted, expectPkt, written, image, refusal>>

Modes == {"IDLE", "WAIT_START", "RECEIVING"}

NodeTypeOK ==
  /\ mode \in Modes
  /\ fwStarted \in BOOLEAN
  /\ expectPkt \in 0 .. NChunks
  /\ written \in Seq(0 .. NChunks - 1)
  /\ image \in Seq(0 .. NChunks - 1)
  /\ refusal \in {"none", "password", "size"}

NodeInit ==
  /\ mode = "IDLE"
  /\ fwStarted = FALSE
  /\ expectPkt = 0
  /\ written = <<>>
  /\ image = <<>>
  /\ refusal \in IF "refusal" \in Hazards THEN {"none", "password", "size"} ELSE {"none"}

InOta == mode # "IDLE"    \* OtaMgr::active()

Reply(a) == up' = Append(up, a)
Nack(f, err) == Reply(Answer("NACK", f.cmd, 0, err, 3, Me))

(* ack3 of handleData.                                                     *)
Ack3(f, status) == Reply(Answer("UPDATE_ACK", "UPDATE_DATA", f.pkt, status, 3, Me))
Ack1(f, status) == Reply(Answer("UPDATE_ACK", f.cmd, 0, status, 1, Me))

-----------------------------------------------------------------------------
(* Variant with a bug: Update.end(true) instead of Update.end(false).      *)
AbortLocalCommits ==
  /\ mode' = "IDLE"
  /\ fwStarted' = FALSE
  /\ image' = IF fwStarted THEN written ELSE image
  /\ UNCHANGED <<expectPkt, written>>

(* abortLocal(): an unfinished Update is ended without committing it.      *)
AbortLocal ==
  /\ mode' = "IDLE"
  /\ fwStarted' = FALSE
  /\ UNCHANGED <<expectPkt, written, image>>

(* ENTER_BOOT outside OTA mode checks the password, inside it does not.    *)
HandleEnterBoot(f) ==
  /\ f.cmd = "ENTER_BOOT"
  /\ IF InOta
     THEN /\ Reply(Answer("BOOT_ACK", "ENTER_BOOT", 0, 1, 1, Me))
          /\ UNCHANGED <<mode, fwStarted, expectPkt, written, image>>
     ELSE IF refusal = "password"
          THEN /\ Nack(f, 17)
               /\ UNCHANGED <<mode, fwStarted, expectPkt, written, image>>
          ELSE /\ mode' = "WAIT_START"
               /\ fwStarted' = FALSE
               /\ expectPkt' = 0
               /\ written' = <<>>
               /\ Reply(Answer("BOOT_ACK", "ENTER_BOOT", 0, 1, 1, Me))
               /\ UNCHANGED image

(* handleStart(): a second UPDATE_START begins the image anew; when        *)
(* Update.begin fails the image of the first one is gone already.          *)
HandleStart(f) ==
  /\ f.cmd = "UPDATE_START" /\ InOta
  /\ \/ /\ refusal = "size"
        /\ Ack1(f, 1)
        /\ UNCHANGED <<mode, fwStarted, expectPkt, written, image>>
     \/ /\ refusal # "size" /\ "flash" \in Hazards
        /\ fwStarted' = FALSE
        /\ Ack1(f, 1)
        /\ UNCHANGED <<mode, expectPkt, written, image>>
     \/ /\ refusal # "size"
        /\ mode' = "RECEIVING"
        /\ fwStarted' = TRUE
        /\ expectPkt' = 0
        /\ written' = <<>>
        /\ Ack1(f, 0)
        /\ UNCHANGED image

Unwritten == UNCHANGED <<mode, fwStarted, expectPkt, written, image>>

(* handleData(), check by check in the order of the code.  The image the   *)
(* service sends starts with the magic byte, so packet 0 passes its check. *)
HandleData(f) ==
  /\ f.cmd = "UPDATE_DATA" /\ InOta
  /\ IF ~ fwStarted
     THEN Nack(f, 2) /\ Unwritten
     ELSE \/ /\ "bitrot" \in Hazards
             /\ Ack3(f, 3) /\ Unwritten
          \/ /\ f.pkt + 1 = expectPkt
             /\ Ack3(f, 0) /\ Unwritten
          \/ /\ f.pkt + 1 # expectPkt /\ f.pkt # expectPkt
             /\ Ack3(f, 2) /\ Unwritten
          \/ /\ f.pkt = expectPkt /\ Len(written) + 1 > NChunks
             /\ Ack3(f, 1) /\ Unwritten
          \/ /\ f.pkt = expectPkt /\ Len(written) + 1 <= NChunks
             /\ "flash" \in Hazards
             /\ Ack3(f, 2) /\ Unwritten
          \/ /\ f.pkt = expectPkt /\ Len(written) + 1 <= NChunks
             /\ written' = Append(written, f.pkt)
             /\ expectPkt' = expectPkt + 1
             /\ Ack3(f, 0)
             /\ UNCHANGED <<mode, fwStarted, image>>

(* handleEnd(): commit and restart, or give the image up.  magicOk is true *)
(* whenever packet 0 was written, so a complete image implies it.          *)
HandleEnd(f) ==
  /\ f.cmd = "UPDATE_END" /\ InOta
  /\ \/ /\ ~ fwStarted
        /\ Nack(f, 2) /\ Unwritten
     \/ /\ fwStarted
        /\ Len(written) # NChunks
        /\ Ack1(f, 4) /\ AbortLocal
     \/ /\ fwStarted /\ Len(written) = NChunks
        /\ "flash" \in Hazards
        /\ Ack1(f, 1) /\ AbortLocal
     \/ /\ fwStarted /\ Len(written) = NChunks
        /\ Ack1(f, 0)
        /\ image' = written
        /\ mode' = "IDLE"
        /\ fwStarted' = FALSE
        /\ expectPkt' = 0
        /\ written' = <<>>

HandleAbort(f) ==
  /\ f.cmd = "ABORT_BOOT" /\ InOta
  /\ Reply(Answer("ACK", "ABORT_BOOT", 0, 0, 2, Me))
  /\ AbortLocal

(* The default case of dispatchBody: the node runs its application.        *)
HandleUnknown(f) ==
  /\ f.cmd # "ENTER_BOOT" /\ ~ InOta
  /\ Nack(f, 255)
  /\ Unwritten

(* One request reaches the node with a good frame CRC.                     *)
Dispatch ==
  /\ down # <<>>
  /\ down' = Tail(down)
  /\ LET f == Head(down) IN
       \/ HandleEnterBoot(f)
       \/ HandleStart(f)
       \/ HandleData(f)
       \/ HandleEnd(f)
       \/ HandleAbort(f)
       \/ HandleUnknown(f)
  /\ UNCHANGED refusal

(* A request with a bad frame CRC that still carries the node's address.   *)
DispatchDamaged ==
  /\ "damage" \in Hazards
  /\ down # <<>>
  /\ down' = Tail(down)
  /\ Nack(Head(down), 1)
  /\ UNCHANGED nodeVars

(* A request the node never hears: noise on the pair, a node restarting, a *)
(* bridge that is disconnected.                                            *)
LoseRequest ==
  /\ "loss" \in Hazards
  /\ down # <<>>
  /\ down' = Tail(down)
  /\ UNCHANGED <<nodeVars, up>>

(* taskOtaTimeout: WAIT_START lasts 180 s and RECEIVING 30 s without a     *)
(* frame; the model lets the timer run out at any moment.                  *)
NodeTimeout ==
  /\ "expiry" \in Hazards
  /\ InOta
  /\ WireHasRoom
  /\ AbortLocal
  /\ Reply(Answer("BOOT_ERROR", "none", 0, 254, 1, Me))
  /\ UNCHANGED <<refusal, down>>

(* A watchdog reset or a power cycle: setup() leaves OtaMgr as constructed. *)
NodeRestart ==
  /\ "restart" \in Hazards
  /\ InOta
  /\ mode' = "IDLE"
  /\ fwStarted' = FALSE
  /\ expectPkt' = 0
  /\ written' = <<>>
  /\ UNCHANGED <<image, refusal, wireVars>>

(* Another node of the bus, which runs the same program: it refuses a      *)
(* command (the default of dispatchBody), or its own OTA mode, left over   *)
(* from an earlier session, times out (taskOtaTimeout).  When it does is   *)
(* left open.                                                              *)
SisterSpeaks ==
  /\ "sisters" \in Hazards
  /\ WireHasRoom
  /\ \E s \in Sisters :
       \/ Reply(Answer("NACK", "UPDATE_DATA", 0, 255, 3, s))
       \/ Reply(Answer("BOOT_ERROR", "none", 0, 254, 1, s))
  /\ UNCHANGED <<nodeVars, down>>

NodeStep == Dispatch \/ DispatchDamaged \/ LoseRequest

NodeNext == NodeStep \/ NodeTimeout \/ NodeRestart \/ SisterSpeaks
=============================================================================
