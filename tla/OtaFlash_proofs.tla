--------------------------- MODULE OtaFlash_proofs ---------------------------
(***************************************************************************)
(* Proofs about OtaFlash, for every image size, every set of sister nodes, *)
(* every retry limit and every set of hazards.  Four parts: the types and  *)
(* the store of the node; the truth of ota_done; the refinement of         *)
(* FlashPromise; the rest of the invariant IInv.                           *)
(***************************************************************************)
EXTENDS OtaFlash, SequenceTheorems, TLAPS

LocalInv == TypeOK /\ StoreInv /\ CommittedImageIsWhole

-----------------------------------------------------------------------------
(* Sequences.                                                              *)

LEMMA TailFacts ==
  ASSUME NEW S, NEW s \in Seq(S), s # <<>>
  PROVE  /\ Head(s) = s[1] /\ Head(s) \in S
         /\ Tail(s) \in Seq(S)
         /\ Len(Tail(s)) = Len(s) - 1
         /\ \A i \in DOMAIN Tail(s) : i + 1 \in DOMAIN s /\ Tail(s)[i] = s[i + 1]
  OBVIOUS

LEMMA AppendFacts ==
  ASSUME NEW S, NEW s \in Seq(S), NEW e \in S
  PROVE  /\ Append(s, e) \in Seq(S)
         /\ Len(Append(s, e)) = Len(s) + 1
         /\ \A i \in DOMAIN s : i \in DOMAIN Append(s, e) /\ Append(s, e)[i] = s[i]
         /\ Append(s, e)[Len(s) + 1] = e
         /\ \A i \in DOMAIN Append(s, e) : i \in DOMAIN s \/ i = Len(s) + 1
  OBVIOUS

(* Every frame the session and the node send is a frame.                   *)
LEMMA RequestIsFrame ==
  ASSUME NEW c \in Requests, NEW p \in PktType
  PROVE  Request(c, p) \in RequestFrame
  BY DEF Request, RequestFrame

LEMMA AnswerIsFrame ==
  ASSUME NEW c \in Answers, NEW cause \in Requests \cup {"none"}, NEW p \in PktType,
         NEW st \in Nat, NEW n \in Nat, NEW s \in Sisters \cup {Me}
  PROVE  Answer(c, cause, p, st, n, s) \in AnswerFrame
  BY DEF Answer, AnswerFrame

-----------------------------------------------------------------------------
LEMMA InitLocal == Init => LocalInv
<1> SUFFICES ASSUME Init PROVE LocalInv
  OBVIOUS
<1> USE NChunksAssumption DEF Init
<1>1. WireTypeOK
  BY DEF WireInit, WireTypeOK
<1>2. SessionTypeOK
  <2>1. phase \in {"IDLE"} \cup Running \cup Verdicts
    BY DEF SessionInit
  <2>2. pktIndex \in 0 .. NChunks /\ retries \in Nat
    BY DEF SessionInit
  <2>3. abortRequested \in BOOLEAN
    BY DEF SessionInit
  <2> QED BY <2>1, <2>2, <2>3 DEF SessionTypeOK
<1>3. NodeTypeOK
  <2>1. refusal \in {"none", "password", "size"}
    BY DEF NodeInit
  <2>2. mode \in Modes /\ expectPkt \in 0 .. NChunks
    BY DEF NodeInit, Modes
  <2>3. fwStarted \in BOOLEAN
    BY DEF NodeInit
  <2>4. written \in Seq(0 .. NChunks - 1) /\ image \in Seq(0 .. NChunks - 1)
    BY DEF NodeInit
  <2> QED BY <2>1, <2>2, <2>3, <2>4 DEF NodeTypeOK
<1>4. StoreInv
  BY DEF NodeInit, SessionInit, StoreInv
<1>5. CommittedImageIsWhole
  BY DEF NodeInit, CommittedImageIsWhole
<1> QED BY <1>1, <1>2, <1>3, <1>4, <1>5 DEF LocalInv, TypeOK

(* A step of the session keeps the types and the window of packet numbers. *)
LEMMA SessionLocal ==
  ASSUME LocalInv, ServiceStep
  PROVE  LocalInv'
<1> USE NChunksAssumption DEF LocalInv, TypeOK, WireTypeOK, SessionTypeOK, NodeTypeOK,
      StoreInv, CommittedImageIsWhole, FullImage
<1>0. UNCHANGED nodeVars
  BY DEF ServiceStep
<1>1. 0 \in PktType /\ pktIndex \in PktType
  BY DEF PktType
<1>2. CASE Start
  <2>1. Request("ENTER_BOOT", 0) \in RequestFrame
    BY <1>1, RequestIsFrame DEF Requests
  <2> QED BY <1>0, <1>2, <2>1 DEF Start, Send, nodeVars, Running, Verdicts
<1>3. CASE RequestAbort
  BY <1>0, <1>3 DEF RequestAbort, nodeVars, wireVars, Running, Verdicts
<1>4. CASE AbortFinish
  <2>1. Request("ABORT_BOOT", 0) \in RequestFrame
    BY <1>1, RequestIsFrame DEF Requests
  <2> QED BY <1>0, <1>4, <2>1 DEF AbortFinish, Send, nodeVars, Running, Verdicts
<1>5. CASE TimeoutResend
  <2>1. PhaseRequest \in Requests
    BY DEF PhaseRequest, Requests
  <2>2. Request(PhaseRequest, IF phase = "FLASH" THEN pktIndex ELSE 0) \in RequestFrame
    BY <1>1, <2>1, RequestIsFrame
  <2> QED BY <1>0, <1>5, <2>2 DEF TimeoutResend, Send, nodeVars
<1>6. CASE TimeoutFail
  BY <1>0, <1>6 DEF TimeoutFail, nodeVars, wireVars, Running, Verdicts
<1>7. CASE LoseAnswer
  BY <1>0, <1>7 DEF LoseAnswer, nodeVars, sessionVars
<1>8. CASE Receive
  <2>1. up' \in Seq(AnswerFrame)
    BY <1>8, TailFacts DEF Receive
  <2>2. CASE Ignore
    BY <1>0, <2>1, <2>2 DEF Ignore, nodeVars, sessionVars
  <2>3. CASE Fail
    BY <1>0, <2>1, <2>3 DEF Fail, nodeVars, Running, Verdicts
  <2>4. CASE SendChunk(pktIndex) /\ UNCHANGED <<pktIndex, retries, abortRequested>> /\ phase = "FLASH"
    <3>1. Request("UPDATE_DATA", pktIndex) \in RequestFrame
      BY <1>1, RequestIsFrame DEF Requests
    <3> QED BY <1>0, <2>1, <2>4, <3>1 DEF SendChunk, Send, nodeVars
  <2>5. CASE phase' = "START" /\ retries' = 0 /\ Send("UPDATE_START", 0)
             /\ UNCHANGED <<pktIndex, abortRequested>>
    <3>1. Request("UPDATE_START", 0) \in RequestFrame
      BY <1>1, RequestIsFrame DEF Requests
    <3> QED BY <1>0, <2>1, <2>5, <3>1 DEF Send, nodeVars, Running
  <2>6. CASE pktIndex' = 0 /\ SendChunk(0) /\ UNCHANGED <<retries, abortRequested>>
    <3>1. Request("UPDATE_DATA", 0) \in RequestFrame
      BY <1>1, RequestIsFrame DEF Requests
    <3> QED BY <1>0, <2>1, <2>6, <3>1 DEF SendChunk, Send, nodeVars, Running
  <2>7. CASE ChunkStored /\ phase = "FLASH"
    <3>1. pktIndex < NChunks /\ pktIndex + 1 \in PktType
      BY <2>7 DEF PktType
    <3>2. Request("UPDATE_END", 0) \in RequestFrame /\ Request("UPDATE_DATA", pktIndex + 1) \in RequestFrame
      BY <1>1, <3>1, RequestIsFrame DEF Requests
    <3>3. down' \in Seq(RequestFrame)
      <4>1. \/ down' = Append(down, Request("UPDATE_END", 0))
            \/ down' = Append(down, Request("UPDATE_DATA", pktIndex + 1))
        BY <2>7 DEF ChunkStored, SendChunk, Send
      <4>2. down \in Seq(RequestFrame)
        OBVIOUS
      <4> HIDE DEF LocalInv
      <4> QED BY <3>2, <4>1, <4>2, AppendFacts
    <3> QED BY <1>0, <2>1, <2>7, <3>1, <3>3 DEF ChunkStored, SendChunk, nodeVars, Running
  <2>8. CASE phase' = "DONE" /\ UNCHANGED <<pktIndex, retries, abortRequested, down>>
    BY <1>0, <2>1, <2>8 DEF nodeVars, Verdicts
  <2> DEFINE f == Head(up)
  <2>9. \/ Ignore \/ FeedNack(f) \/ FeedBootError(f) \/ FeedBootAck(f) \/ FeedStartAck(f)
        \/ FeedDataAck(f) \/ FeedEndAck(f) \/ FeedOther(f)
    BY <1>8 DEF Receive
  <2>10. CASE FeedNack(f)
    BY <2>10, <2>2, <2>3, <2>4 DEF FeedNack
  <2>11. CASE FeedBootError(f)
    BY <2>11, <2>3 DEF FeedBootError
  <2>12. CASE FeedBootAck(f)
    BY <2>12, <2>2, <2>3, <2>5 DEF FeedBootAck
  <2>13. CASE FeedStartAck(f)
    BY <2>13, <2>3, <2>6 DEF FeedStartAck
  <2>14. CASE FeedDataAck(f)
    BY <2>14, <2>2, <2>3, <2>4, <2>7 DEF FeedDataAck
  <2>15. CASE FeedEndAck(f)
    BY <2>15, <2>3, <2>8 DEF FeedEndAck
  <2>16. CASE FeedOther(f)
    BY <2>16, <2>2 DEF FeedOther
  <2> QED
    BY <2>2, <2>9, <2>10, <2>11, <2>12, <2>13, <2>14, <2>15, <2>16
<1> QED
  BY <1>2, <1>3, <1>4, <1>5, <1>6, <1>7, <1>8 DEF ServiceStep, SessionNext, Tick

(* An ordered prefix of full length is the whole image.                    *)
LEMMA PrefixIsFull ==
  ASSUME NEW S, NEW w \in Seq(S), Len(w) = NChunks, \A i \in DOMAIN w : w[i] = i - 1
  PROVE  w = FullImage
<1>1. w = [i \in DOMAIN w |-> w[i]] /\ DOMAIN w = 1 .. NChunks
  OBVIOUS
<1> QED BY <1>1, Zenon DEF FullImage

LEMMA FullImageTyped == FullImage \in Seq(0 .. NChunks - 1) /\ Len(FullImage) = NChunks
<1>1. \A i \in 1 .. NChunks : i - 1 \in 0 .. NChunks - 1
  BY NChunksAssumption
<1>2. FullImage \in [1 .. NChunks -> 0 .. NChunks - 1]
  BY <1>1 DEF FullImage
<1> QED BY <1>2, NChunksAssumption DEF FullImage

(* The answers of the node are answers.                                    *)
LEMMA ReplyKeepsType ==
  ASSUME up \in Seq(AnswerFrame), NEW a \in AnswerFrame, Reply(a)
  PROVE  up' \in Seq(AnswerFrame)
  BY AppendFacts DEF Reply

LEMMA ReplyTyped ==
  ASSUME up \in Seq(AnswerFrame), NEW f \in RequestFrame
  PROVE  /\ \A err \in Nat : Nack(f, err) => up' \in Seq(AnswerFrame)
         /\ \A st \in Nat : Ack3(f, st) => up' \in Seq(AnswerFrame)
         /\ \A st \in Nat : Ack1(f, st) => up' \in Seq(AnswerFrame)
<1>1. f.cmd \in Requests /\ f.pkt \in PktType /\ 0 \in PktType
  BY NChunksAssumption DEF RequestFrame, PktType
<1>3. \A err \in Nat : Answer("NACK", f.cmd, 0, err, 3, Me) \in AnswerFrame
  BY <1>1, AnswerIsFrame DEF Answers
<1>4. \A st \in Nat : Answer("UPDATE_ACK", "UPDATE_DATA", f.pkt, st, 3, Me) \in AnswerFrame
  BY <1>1, AnswerIsFrame DEF Answers, Requests
<1>5. \A st \in Nat : Answer("UPDATE_ACK", f.cmd, 0, st, 1, Me) \in AnswerFrame
  BY <1>1, AnswerIsFrame DEF Answers
<1> QED BY <1>3, <1>4, <1>5, ReplyKeepsType DEF Nack, Ack3, Ack1

(* A request handled by the node keeps what it wrote an ordered prefix.    *)
LEMMA DispatchLocal ==
  ASSUME LocalInv, Dispatch, UNCHANGED sessionVars
  PROVE  LocalInv'
<1> USE NChunksAssumption DEF LocalInv, TypeOK, WireTypeOK, SessionTypeOK, NodeTypeOK,
      StoreInv, CommittedImageIsWhole, FullImage
<1> DEFINE f == Head(down)
<1>1. f \in RequestFrame /\ down' \in Seq(RequestFrame)
  BY TailFacts DEF Dispatch
<1>2. f.cmd \in Requests /\ f.pkt \in PktType /\ 0 \in PktType
  BY <1>1 DEF RequestFrame, PktType
<1>3. /\ \A err \in Nat : Nack(f, err) => up' \in Seq(AnswerFrame)
      /\ \A st \in Nat : Ack3(f, st) => up' \in Seq(AnswerFrame)
      /\ \A st \in Nat : Ack1(f, st) => up' \in Seq(AnswerFrame)
  BY <1>1, ReplyTyped
<1>4. refusal' = refusal /\ UNCHANGED sessionVars
  BY DEF Dispatch
<1> HIDE DEF f
<1>5. CASE up' \in Seq(AnswerFrame) /\ Unwritten
  BY <1>1, <1>4, <1>5 DEF Unwritten, sessionVars
<1>6. CASE up' \in Seq(AnswerFrame) /\ AbortLocal
  BY <1>1, <1>4, <1>6 DEF AbortLocal, sessionVars, Modes
<1>7. CASE HandleEnterBoot(f)
  <2>1. Answer("BOOT_ACK", "ENTER_BOOT", 0, 1, 1, Me) \in AnswerFrame
    BY <1>2, AnswerIsFrame DEF Answers, Requests
  <2>2. up' \in Seq(AnswerFrame)
    <3>1. Nack(f, 17) \/ Reply(Answer("BOOT_ACK", "ENTER_BOOT", 0, 1, 1, Me))
      BY <1>7 DEF HandleEnterBoot
    <3>2. up \in Seq(AnswerFrame) /\ 17 \in Nat
      OBVIOUS
    <3> HIDE DEF LocalInv
    <3> QED BY <1>3, <2>1, <3>1, <3>2, ReplyKeepsType
  <2>3. CASE mode' = "WAIT_START" /\ fwStarted' = FALSE /\ expectPkt' = 0 /\ written' = <<>>
             /\ UNCHANGED image
    <3>1. fwStarted' \in BOOLEAN
      BY <2>3
    <3>2. mode' \in Modes /\ expectPkt' = 0 /\ written' = <<>> /\ image' = image
      BY <2>3 DEF Modes
    <3> QED BY <1>1, <1>4, <2>2, <3>1, <3>2 DEF sessionVars
  <2> QED BY <1>5, <1>7, <2>2, <2>3 DEF HandleEnterBoot, Unwritten
<1>8. CASE HandleStart(f)
  <2>1. up' \in Seq(AnswerFrame)
    <3>1. Ack1(f, 0) \/ Ack1(f, 1)
      BY <1>8 DEF HandleStart
    <3> QED BY <1>3, <3>1
  <2>2. CASE mode' = "RECEIVING" /\ fwStarted' = TRUE /\ expectPkt' = 0 /\ written' = <<>>
             /\ UNCHANGED image
    <3>1. fwStarted' \in BOOLEAN
      BY <2>2
    <3>2. mode' \in Modes /\ expectPkt' = 0 /\ written' = <<>> /\ image' = image
      BY <2>2 DEF Modes
    <3> QED BY <1>1, <1>4, <2>1, <3>1, <3>2 DEF sessionVars
  <2>3. CASE fwStarted' = FALSE /\ UNCHANGED <<mode, expectPkt, written, image>>
    <3>1. fwStarted' \in BOOLEAN
      BY <2>3
    <3>2. mode' = mode /\ expectPkt' = expectPkt /\ written' = written /\ image' = image
      BY <2>3
    <3> QED BY <1>1, <1>4, <2>1, <3>1, <3>2 DEF sessionVars
  <2>4. CASE Unwritten
    BY <1>5, <2>1, <2>4
  <2> QED BY <1>8, <2>2, <2>3, <2>4 DEF HandleStart, Unwritten
<1>9. CASE HandleData(f)
  <2>1. up' \in Seq(AnswerFrame)
    BY <1>3, <1>9 DEF HandleData
  <2>2. CASE /\ f.pkt = expectPkt /\ Len(written) + 1 <= NChunks
             /\ written' = Append(written, f.pkt)
             /\ expectPkt' = expectPkt + 1
             /\ UNCHANGED <<mode, fwStarted, image>>
    <3>1. f.pkt \in 0 .. NChunks - 1
      BY <1>2, <2>2 DEF PktType
    <3>2. /\ written' \in Seq(0 .. NChunks - 1)
          /\ Len(written') = Len(written) + 1
          /\ \A i \in DOMAIN written' : written'[i] = i - 1
      BY <2>2, <3>1
    <3> QED BY <1>1, <1>4, <2>1, <2>2, <3>2 DEF sessionVars
  <2> QED BY <1>5, <1>9, <2>1, <2>2 DEF HandleData
<1>10. CASE HandleEnd(f)
  <2>1. up' \in Seq(AnswerFrame)
    BY <1>3, <1>10 DEF HandleEnd
  <2>2. CASE /\ Len(written) = NChunks
             /\ image' = written
             /\ mode' = "IDLE" /\ fwStarted' = FALSE /\ expectPkt' = 0 /\ written' = <<>>
    <3>1. image' = FullImage
      BY <2>2, PrefixIsFull
    <3>2. image' \in Seq(0 .. NChunks - 1)
      BY <2>2
    <3>3. fwStarted' \in BOOLEAN
      BY <2>2
    <3>4. mode' \in Modes /\ expectPkt' = 0 /\ written' = <<>>
      BY <2>2 DEF Modes
    <3> HIDE DEF FullImage
    <3> QED BY <1>1, <1>4, <2>1, <3>1, <3>2, <3>3, <3>4 DEF sessionVars
  <2> QED BY <1>5, <1>6, <1>10, <2>1, <2>2 DEF HandleEnd
<1>11. CASE HandleAbort(f)
  <2>1. Answer("ACK", "ABORT_BOOT", 0, 0, 2, Me) \in AnswerFrame
    BY <1>2, AnswerIsFrame DEF Answers, Requests
  <2>2. up' \in Seq(AnswerFrame)
    BY <1>11, <2>1 DEF HandleAbort, Reply
  <2> QED BY <1>6, <1>11, <2>2 DEF HandleAbort
<1>12. CASE HandleUnknown(f)
  BY <1>3, <1>5, <1>12 DEF HandleUnknown
<1> QED
  BY <1>7, <1>8, <1>9, <1>10, <1>11, <1>12 DEF Dispatch, f

(* The rest of what happens on the bus.                                    *)
LEMMA BusLocal ==
  ASSUME LocalInv, BusStep
  PROVE  LocalInv'
<1> USE DEF LocalInv, TypeOK, WireTypeOK, SessionTypeOK, NodeTypeOK,
      StoreInv, CommittedImageIsWhole
<1>1. UNCHANGED sessionVars
  BY DEF BusStep
<1>2. 0 \in PktType
  BY NChunksAssumption DEF PktType
<1>3. CASE Dispatch
  BY <1>1, <1>3, DispatchLocal
<1>4. CASE DispatchDamaged
  <2>1. Head(down) \in RequestFrame /\ down' \in Seq(RequestFrame)
    BY <1>4, TailFacts DEF DispatchDamaged
  <2>2. up' \in Seq(AnswerFrame)
    BY <1>4, <2>1, ReplyTyped DEF DispatchDamaged
  <2> QED BY <1>1, <1>4, <2>1, <2>2 DEF DispatchDamaged, nodeVars, sessionVars
<1>5. CASE LoseRequest
  BY <1>1, <1>5, TailFacts DEF LoseRequest, nodeVars, sessionVars
<1>6. CASE NodeTimeout
  <2>1. Answer("BOOT_ERROR", "none", 0, 254, 1, Me) \in AnswerFrame
    BY <1>2, AnswerIsFrame DEF Answers
  <2>2. up' \in Seq(AnswerFrame)
    BY <1>6, <2>1, ReplyKeepsType DEF NodeTimeout
  <2> QED BY <1>1, <1>6, <2>2 DEF NodeTimeout, AbortLocal, sessionVars, Modes
<1>7. CASE NodeRestart
  <2>1. fwStarted' \in BOOLEAN
    BY <1>7 DEF NodeRestart
  <2>2. /\ mode' \in Modes /\ expectPkt' = 0 /\ written' = <<>>
        /\ UNCHANGED <<image, refusal, down, up>>
    BY <1>7 DEF NodeRestart, wireVars, Modes
  <2> QED BY <1>1, <2>1, <2>2, NChunksAssumption DEF sessionVars
<1>8. CASE SisterSpeaks
  <2>1. \A s \in Sisters :
          /\ Answer("NACK", "UPDATE_DATA", 0, 255, 3, s) \in AnswerFrame
          /\ Answer("BOOT_ERROR", "none", 0, 254, 1, s) \in AnswerFrame
    BY <1>2, AnswerIsFrame DEF Answers, Requests
  <2>2. up' \in Seq(AnswerFrame)
    BY <1>8, <2>1, ReplyKeepsType DEF SisterSpeaks
  <2> QED BY <1>1, <1>8, <2>2 DEF SisterSpeaks, nodeVars, sessionVars
<1> QED
  BY <1>3, <1>4, <1>5, <1>6, <1>7, <1>8 DEF BusStep, NodeNext, NodeStep

LEMMA LocalInductive == LocalInv /\ [Next]_vars => LocalInv'
<1>1. CASE LocalInv /\ UNCHANGED vars
  BY <1>1 DEF LocalInv, TypeOK, WireTypeOK, SessionTypeOK, NodeTypeOK, StoreInv,
      CommittedImageIsWhole, vars, sessionVars, nodeVars, wireVars
<1> QED BY <1>1, SessionLocal, BusLocal DEF Next

LEMMA LocalHolds == Spec => []LocalInv
  BY InitLocal, LocalInductive, PTL DEF Spec

(* Every variable keeps its type; in particular the packet numbers of the  *)
(* service and of the node stay within the image.                          *)
THEOREM TypesHold == Spec => []TypeOK
<1>1. LocalInv => TypeOK
  BY DEF LocalInv
<1> QED BY <1>1, LocalHolds, PTL

(* Whatever is lost, damaged, repeated or refused, and however often the   *)
(* node restarts, an image a node commits is all chunks in order.          *)
THEOREM ImageIsWhole == Spec => []CommittedImageIsWhole
<1>1. LocalInv => CommittedImageIsWhole
  BY DEF LocalInv
<1> QED BY <1>1, LocalHolds, PTL

-----------------------------------------------------------------------------
(***************************************************************************)
(* The report ota_done is true, for images of every size whose last chunk  *)
(* has a number that does not end in a zero byte, and whatever is lost,    *)
(* repeated, damaged, refused or restarted.                                *)
(*                                                                         *)
(* The session takes for the answer to UPDATE_END what starts with a zero  *)
(* byte.  That it is that answer follows from the order of the bus: the    *)
(* requests go round from the session to the node and back as answers,     *)
(* sorted by their stage, so an answer that moves the session on leaves    *)
(* nothing older behind it, and in END only the answers to the last chunk  *)
(* and to UPDATE_END are left.                                             *)
(***************************************************************************)

ReqStage(f) == Stage(f.cmd, f.pkt)
AnsStage(f) == Stage(f.re, f.pkt)

(* OrderInv, of any two queues.                                            *)
Sorted(d, u) ==
  /\ \A i, j \in DOMAIN d : i < j => ReqStage(d[i]) <= ReqStage(d[j])
  /\ \A i, j \in DOMAIN u : i < j /\ IsAck(u[i]) /\ IsAck(u[j]) => AnsStage(u[i]) <= AnsStage(u[j])
  /\ \A i \in DOMAIN u, j \in DOMAIN d : IsAck(u[i]) => AnsStage(u[i]) <= ReqStage(d[j])

(* WindowInv, of any two queues and any stage s.                           *)
Near(d, u, s) ==
  /\ \A j \in DOMAIN d : ReqStage(d[j]) \in s - 1 .. s
  /\ \A i \in DOMAIN u : IsAck(u[i]) => AnsStage(u[i]) \in s - 1 .. s

(* GoodAnswer, for any image.                                              *)
Truthful(f, img) ==
  /\ f.cmd = "BOOT_ACK" => f.re = "ENTER_BOOT"
  /\ f.cmd = "UPDATE_ACK" =>
       \/ f.re = "UPDATE_START" /\ f.len = 1
       \/ f.re = "UPDATE_DATA"  /\ f.len = 3 /\ f.pkt < NChunks
       \/ f.re = "UPDATE_END"   /\ f.len = 1 /\ (f.st = 0 => img = FullImage)

Wires(d, u, img) ==
  /\ d \in Seq(RequestFrame) /\ u \in Seq(AnswerFrame)
  /\ Sorted(d, u)
  /\ \A i \in DOMAIN d : GoodRequest(d[i])
  /\ \A i \in DOMAIN u : Truthful(u[i], img)

Quiet(u) == \A i \in DOMAIN u : ~ IsAck(u[i])

RoundInv ==
  /\ LocalInv
  /\ Wires(down, up, image)
  /\ phase \in Running => Near(down, up, SessionStage)
  /\ phase = "IDLE" => down = <<>> /\ Quiet(up)
  /\ DoneMeansCommitted

-----------------------------------------------------------------------------
(* Stages are numbers, and a chunk comes after its predecessor.            *)

LEMMA StageNat ==
  ASSUME NEW c, NEW p \in PktType
  PROVE  Stage(c, p) \in Nat
  BY NChunksAssumption DEF Stage, PktType

LEMMA FrameStages ==
  /\ \A f \in RequestFrame : ReqStage(f) \in Nat
  /\ \A f \in AnswerFrame : AnsStage(f) \in Nat
  BY StageNat DEF ReqStage, AnsStage, RequestFrame, AnswerFrame

(* The queues when their oldest frame is taken away.                       *)
LEMMA TailDown ==
  ASSUME NEW d, NEW u, NEW img, Wires(d, u, img), d # <<>>
  PROVE  /\ Wires(Tail(d), u, img)
         /\ \A s : Near(d, u, s) => Near(Tail(d), u, s)
<1>1. /\ Tail(d) \in Seq(RequestFrame)
      /\ \A i \in DOMAIN Tail(d) : i + 1 \in DOMAIN d /\ Tail(d)[i] = d[i + 1]
  BY TailFacts DEF Wires
<1>2. \A i, j \in DOMAIN Tail(d) : i < j => i + 1 < j + 1
  BY <1>1
<1>3. Sorted(Tail(d), u)
  BY <1>1, <1>2 DEF Wires, Sorted
<1>4. \A i \in DOMAIN Tail(d) : GoodRequest(Tail(d)[i])
  BY <1>1 DEF Wires
<1>5. \A s : Near(d, u, s) => Near(Tail(d), u, s)
  BY <1>1 DEF Near
<1> QED BY <1>1, <1>3, <1>4, <1>5 DEF Wires

LEMMA TailUp ==
  ASSUME NEW d, NEW u, NEW img, Wires(d, u, img), u # <<>>
  PROVE  /\ Wires(d, Tail(u), img)
         /\ Head(u) \in AnswerFrame /\ Truthful(Head(u), img)
         /\ \A s : Near(d, u, s) => Near(d, Tail(u), s)
         /\ \A s : Near(d, u, s) /\ IsAck(Head(u)) => AnsStage(Head(u)) \in s - 1 .. s
         /\ Quiet(u) => Quiet(Tail(u))
<1>1. /\ Tail(u) \in Seq(AnswerFrame) /\ Head(u) = u[1] /\ Head(u) \in AnswerFrame
      /\ \A i \in DOMAIN Tail(u) : i + 1 \in DOMAIN u /\ Tail(u)[i] = u[i + 1]
  BY TailFacts DEF Wires
<1>2. \A i, j \in DOMAIN Tail(u) : i < j => i + 1 < j + 1
  BY <1>1
<1>3. 1 \in DOMAIN u
  BY DEF Wires
<1>4. Sorted(d, Tail(u))
  BY <1>1, <1>2 DEF Wires, Sorted
<1>5. \A i \in DOMAIN Tail(u) : Truthful(Tail(u)[i], img)
  BY <1>1 DEF Wires
<1>6. \A s : Near(d, u, s) => Near(d, Tail(u), s)
  BY <1>1 DEF Near
<1>7. \A s : Near(d, u, s) /\ IsAck(Head(u)) => AnsStage(Head(u)) \in s - 1 .. s
  BY <1>1, <1>3 DEF Near
<1>8. Truthful(Head(u), img)
  BY <1>1, <1>3 DEF Wires
<1>9. Quiet(u) => Quiet(Tail(u))
  BY <1>1 DEF Quiet
<1> QED BY <1>1, <1>4, <1>5, <1>6, <1>7, <1>8, <1>9 DEF Wires

(* An answer that is not older than the stage leaves nothing older behind. *)
LEMMA MovesOn ==
  ASSUME NEW d, NEW u, NEW img, Wires(d, u, img), u # <<>>, IsAck(Head(u)),
         NEW s \in Nat, AnsStage(Head(u)) = s, Near(d, u, s)
  PROVE  Near(d, Tail(u), s + 1)
<1>1. /\ Head(u) = u[1] /\ 1 \in DOMAIN u
      /\ \A i \in DOMAIN Tail(u) : i + 1 \in DOMAIN u /\ 1 < i + 1 /\ Tail(u)[i] = u[i + 1]
  BY TailFacts DEF Wires
<1>2. \A j \in DOMAIN d : s <= ReqStage(d[j])
  BY <1>1 DEF Wires, Sorted
<1>3. \A i \in DOMAIN Tail(u) : IsAck(Tail(u)[i]) => s <= AnsStage(Tail(u)[i])
  BY <1>1 DEF Wires, Sorted
<1>4. \A j \in DOMAIN d : ReqStage(d[j]) \in s - 1 .. s
  BY DEF Near
<1>5. \A i \in DOMAIN Tail(u) : IsAck(Tail(u)[i]) => AnsStage(Tail(u)[i]) \in s - 1 .. s
  BY <1>1 DEF Near
<1>6. \A j \in DOMAIN d : ReqStage(d[j]) \in (s + 1) - 1 .. s + 1
  BY <1>2, <1>4
<1>7. \A i \in DOMAIN Tail(u) : IsAck(Tail(u)[i]) => AnsStage(Tail(u)[i]) \in (s + 1) - 1 .. s + 1
  BY <1>3, <1>5
<1> QED BY <1>6, <1>7 DEF Near

(* The queues when a request is added that is not older than the rest.     *)
LEMMA Requested ==
  ASSUME NEW d, NEW u, NEW img, Wires(d, u, img), NEW x \in RequestFrame, GoodRequest(x),
         \A i \in DOMAIN d : ReqStage(d[i]) <= ReqStage(x),
         \A i \in DOMAIN u : IsAck(u[i]) => AnsStage(u[i]) <= ReqStage(x)
  PROVE  /\ Wires(Append(d, x), u, img)
         /\ \A s \in Nat : Near(d, u, s) /\ ReqStage(x) = s => Near(Append(d, x), u, s)
<1> DEFINE e == Append(d, x)
<1>1. /\ e \in Seq(RequestFrame)
      /\ \A i \in DOMAIN d : e[i] = d[i] /\ i < Len(d) + 1
      /\ \A i \in DOMAIN e : i \in DOMAIN d \/ i = Len(d) + 1
      /\ e[Len(d) + 1] = x /\ Len(d) \in Nat
  BY AppendFacts DEF Wires
<1>2. ReqStage(x) \in Nat
  BY FrameStages
<1> HIDE DEF e
<1>3. \A i, j \in DOMAIN e : i < j => ReqStage(e[i]) <= ReqStage(e[j])
  <2> SUFFICES ASSUME NEW i \in DOMAIN e, NEW j \in DOMAIN e, i < j
               PROVE  ReqStage(e[i]) <= ReqStage(e[j])
    OBVIOUS
  <2>1. CASE j \in DOMAIN d
    <3>1. i \in DOMAIN d
      BY <1>1, <2>1
    <3> QED BY <1>1, <2>1, <3>1 DEF Wires, Sorted
  <2>2. CASE j = Len(d) + 1
    <3>1. i \in DOMAIN d
      BY <1>1, <2>2
    <3> QED BY <1>1, <2>2, <3>1
  <2> QED BY <1>1, <2>1, <2>2
<1>4. Sorted(e, u)
  BY <1>1, <1>3 DEF Wires, Sorted
<1>5. \A i \in DOMAIN e : GoodRequest(e[i])
  BY <1>1 DEF Wires
<1>6. ASSUME NEW s \in Nat, Near(d, u, s), ReqStage(x) = s
      PROVE  Near(e, u, s)
  BY <1>1, <1>6 DEF Near
<1> QED BY <1>1, <1>4, <1>5, <1>6 DEF Wires, e

(* The queues when the node answers, to the request it has just read or    *)
(* not at all, or another node speaks.                                     *)
LEMMA Answered ==
  ASSUME NEW d, NEW u, NEW img, Wires(d, u, img), d # <<>>,
         NEW a \in AnswerFrame, Truthful(a, img),
         IsAck(a) => AnsStage(a) = ReqStage(Head(d))
  PROVE  /\ Wires(Tail(d), Append(u, a), img)
         /\ \A s \in Nat : Near(d, u, s) => Near(Tail(d), Append(u, a), s)
<1> DEFINE v == Append(u, a)
           t == Tail(d)
<1>1. /\ v \in Seq(AnswerFrame)
      /\ \A i \in DOMAIN u : v[i] = u[i] /\ i < Len(u) + 1
      /\ \A i \in DOMAIN v : i \in DOMAIN u \/ i = Len(u) + 1
      /\ v[Len(u) + 1] = a /\ Len(u) \in Nat
  BY AppendFacts DEF Wires
<1>2. /\ t \in Seq(RequestFrame) /\ Head(d) = d[1] /\ 1 \in DOMAIN d
      /\ \A i \in DOMAIN t : i + 1 \in DOMAIN d /\ t[i] = d[i + 1] /\ 1 < i + 1
  BY TailFacts DEF Wires
<1>3. Wires(t, u, img) /\ \A s : Near(d, u, s) => Near(t, u, s)
  BY TailDown
<1> HIDE DEF v, t
<1>4. \A j \in DOMAIN t : IsAck(a) => AnsStage(a) <= ReqStage(t[j])
  BY <1>2 DEF Wires, Sorted
<1>5. \A i \in DOMAIN u : IsAck(u[i]) /\ IsAck(a) => AnsStage(u[i]) <= AnsStage(a)
  BY <1>2 DEF Wires, Sorted
<1>6. \A i, j \in DOMAIN v :
        i < j /\ IsAck(v[i]) /\ IsAck(v[j]) => AnsStage(v[i]) <= AnsStage(v[j])
  <2> SUFFICES ASSUME NEW i \in DOMAIN v, NEW j \in DOMAIN v, i < j, IsAck(v[i]), IsAck(v[j])
               PROVE  AnsStage(v[i]) <= AnsStage(v[j])
    OBVIOUS
  <2>1. CASE j \in DOMAIN u
    <3>1. i \in DOMAIN u
      BY <1>1, <2>1
    <3> QED BY <1>1, <2>1, <3>1 DEF Wires, Sorted
  <2>2. CASE j = Len(u) + 1
    <3>1. i \in DOMAIN u
      BY <1>1, <2>2
    <3> QED BY <1>1, <1>5, <2>2, <3>1
  <2> QED BY <1>1, <2>1, <2>2
<1>7. Sorted(t, v)
  BY <1>1, <1>3, <1>4, <1>6 DEF Wires, Sorted
<1>8. \A i \in DOMAIN v : Truthful(v[i], img)
  BY <1>1 DEF Wires
<1>9. ASSUME NEW s \in Nat, Near(d, u, s)
      PROVE  Near(t, v, s)
  <2>1. Near(t, u, s)
    BY <1>3, <1>9
  <2>2. ReqStage(d[1]) \in s - 1 .. s
    BY <1>2, <1>9 DEF Near
  <2> QED BY <1>1, <1>2, <2>1, <2>2 DEF Near
<1> QED BY <1>1, <1>2, <1>3, <1>7, <1>8, <1>9 DEF Wires, v, t

LEMMA Spoken ==
  ASSUME NEW d, NEW u, NEW img, Wires(d, u, img), NEW a \in AnswerFrame, ~ IsAck(a)
  PROVE  /\ Wires(d, Append(u, a), img)
         /\ \A s : Near(d, u, s) => Near(d, Append(u, a), s)
         /\ Quiet(u) => Quiet(Append(u, a))
<1> DEFINE v == Append(u, a)
<1>1. /\ v \in Seq(AnswerFrame)
      /\ \A i \in DOMAIN u : v[i] = u[i]
      /\ \A i \in DOMAIN v : i \in DOMAIN u \/ i = Len(u) + 1
      /\ v[Len(u) + 1] = a
  BY AppendFacts DEF Wires
<1> HIDE DEF v
<1>2. \A i \in DOMAIN v : IsAck(v[i]) => i \in DOMAIN u /\ v[i] = u[i]
  BY <1>1
<1>3. Sorted(d, v)
  BY <1>2 DEF Wires, Sorted
<1>4. \A i \in DOMAIN v : Truthful(v[i], img)
  BY <1>1 DEF Wires, Truthful, IsAck
<1>5. \A s : Near(d, u, s) => Near(d, v, s)
  BY <1>2 DEF Near
<1>6. Quiet(u) => Quiet(v)
  BY <1>2 DEF Quiet
<1> QED BY <1>1, <1>3, <1>4, <1>5, <1>6 DEF Wires, v

(* What was true of an image stays true when the whole image is committed. *)
LEMMA Committed ==
  ASSUME NEW d, NEW u, NEW img, Wires(d, u, img)
  PROVE  Wires(d, u, FullImage)
  BY DEF Wires, Truthful

-----------------------------------------------------------------------------
(* The calls of the session.                                               *)

LEMMA StageBound ==
  /\ \A f \in RequestFrame : ReqStage(f) <= NChunks + 3
  /\ \A f \in AnswerFrame : AnsStage(f) <= NChunks + 3
  BY NChunksAssumption DEF ReqStage, AnsStage, Stage, RequestFrame, AnswerFrame, PktType

(* The request of the phase has the stage of the session.                  *)
LEMMA RequestStage ==
  ASSUME NEW c \in Requests, NEW p \in PktType
  PROVE  /\ Request(c, p) \in RequestFrame
         /\ ReqStage(Request(c, p)) = Stage(c, p)
         /\ GoodRequest(Request(c, p)) <=> (c = "UPDATE_DATA" => p < NChunks)
  BY RequestIsFrame DEF ReqStage, Request, GoodRequest

(* An acknowledgement of the stage of the session lets it send a request   *)
(* of the next one.                                                        *)
LEMMA Advance ==
  ASSUME NEW d, NEW u, NEW img, Wires(d, u, img), u # <<>>, IsAck(Head(u)),
         NEW s \in Nat, AnsStage(Head(u)) = s, Near(d, u, s),
         NEW x \in RequestFrame, GoodRequest(x), ReqStage(x) = s + 1
  PROVE  Wires(Append(d, x), Tail(u), img) /\ Near(Append(d, x), Tail(u), s + 1)
<1>1. Wires(d, Tail(u), img) /\ Near(d, Tail(u), s + 1)
  BY TailUp, MovesOn
<1>2. /\ \A i \in DOMAIN d : ReqStage(d[i]) <= s + 1
      /\ \A i \in DOMAIN Tail(u) : IsAck(Tail(u)[i]) => AnsStage(Tail(u)[i]) <= s + 1
  BY <1>1 DEF Near
<1>3. s + 1 \in Nat
  OBVIOUS
<1> QED BY <1>1, <1>2, <1>3, Requested

(* A repetition of the request of the phase.                               *)
LEMMA Repeat ==
  ASSUME NEW d, NEW u, NEW img, Wires(d, u, img), NEW s \in Nat, Near(d, u, s),
         NEW x \in RequestFrame, GoodRequest(x), ReqStage(x) = s
  PROVE  Wires(Append(d, x), u, img) /\ Near(Append(d, x), u, s)
<1>1. /\ \A i \in DOMAIN d : ReqStage(d[i]) <= s
      /\ \A i \in DOMAIN u : IsAck(u[i]) => AnsStage(u[i]) <= s
  BY DEF Near
<1> QED BY <1>1, Requested

LEMMA PhaseStage ==
  ASSUME LocalInv
  PROVE  /\ SessionStage \in Nat
         /\ phase = "ENTER_BOOT" => SessionStage = 0
         /\ phase = "START" => SessionStage = 1
         /\ phase = "FLASH" => SessionStage = 2 + pktIndex /\ pktIndex < NChunks
         /\ phase = "END" => SessionStage = NChunks + 2
  BY NChunksAssumption DEF SessionStage, PhaseRequest, Stage, LocalInv, StoreInv, TypeOK,
     SessionTypeOK

(* The calls that send nothing new and may end the session.                *)
LEMMA QuietCalls ==
  ASSUME RoundInv, UNCHANGED nodeVars, LocalInv', down' = down,
         up' = up \/ (up # <<>> /\ up' = Tail(up)),
         \/ UNCHANGED <<phase, pktIndex>>
         \/ phase' \in {"ERROR", "ABORTED"}
  PROVE  RoundInv'
<1>1. /\ Wires(down, up', image)
      /\ \A s : Near(down, up, s) => Near(down, up', s)
      /\ Quiet(up) => Quiet(up')
  BY TailUp DEF RoundInv
<1>2. image' = image
  BY DEF nodeVars
<1>3. CASE UNCHANGED <<phase, pktIndex>>
  <2>1. SessionStage' = SessionStage
    BY <1>3 DEF SessionStage, PhaseRequest, Stage
  <2> QED BY <1>1, <1>2, <1>3, <2>1 DEF RoundInv, DoneMeansCommitted
<1>4. CASE phase' \in {"ERROR", "ABORTED"}
  BY <1>1, <1>2, <1>4 DEF RoundInv, DoneMeansCommitted, Running
<1> QED BY <1>3, <1>4

LEMMA CallsRound ==
  ASSUME RoundInv, ServiceStep, ~ Receive
  PROVE  RoundInv'
<1>1. LocalInv /\ LocalInv' /\ UNCHANGED nodeVars /\ image' = image
  BY SessionLocal DEF RoundInv, ServiceStep, nodeVars
<1>2. 0 \in PktType /\ pktIndex \in PktType /\ down \in Seq(RequestFrame) /\ up \in Seq(AnswerFrame)
  BY <1>1, NChunksAssumption DEF PktType, LocalInv, TypeOK, SessionTypeOK, WireTypeOK
<1>3. CASE Start
  <2> DEFINE x == Request("ENTER_BOOT", 0)
  <2>1. x \in RequestFrame /\ GoodRequest(x) /\ ReqStage(x) = 0
    BY <1>2, RequestStage DEF Requests, Stage
  <2>2. /\ phase = "IDLE" /\ phase' = "ENTER_BOOT" /\ down' = Append(down, x) /\ up' = up
    BY <1>3 DEF Start, Send
  <2> HIDE DEF x
  <2>3. Near(down, up, 0)
    BY <2>2 DEF RoundInv, Quiet, Near
  <2>4. Wires(Append(down, x), up, image) /\ Near(Append(down, x), up, 0)
    BY <2>1, <2>3, Repeat DEF RoundInv
  <2>5. SessionStage' = 0
    BY <2>2 DEF SessionStage, PhaseRequest, Stage
  <2> QED BY <1>1, <2>2, <2>4, <2>5 DEF RoundInv, DoneMeansCommitted
<1>4. CASE RequestAbort
  BY <1>1, <1>4, QuietCalls DEF RequestAbort, wireVars
<1>5. CASE AbortFinish
  <2> DEFINE x == Request("ABORT_BOOT", 0)
  <2>1. x \in RequestFrame /\ GoodRequest(x) /\ ReqStage(x) = NChunks + 3
    BY <1>2, RequestStage DEF Requests, Stage
  <2>2. phase' = "ABORTED" /\ down' = Append(down, x) /\ up' = up
    BY <1>5 DEF AbortFinish, Send
  <2> HIDE DEF x
  <2>3. /\ \A i \in DOMAIN down : ReqStage(down[i]) <= ReqStage(x)
        /\ \A i \in DOMAIN up : IsAck(up[i]) => AnsStage(up[i]) <= ReqStage(x)
    BY <1>2, <2>1, StageBound
  <2>4. Wires(Append(down, x), up, image)
    BY <2>1, <2>3, Requested DEF RoundInv
  <2> QED BY <1>1, <2>2, <2>4 DEF RoundInv, DoneMeansCommitted, Running
<1>6. CASE TimeoutResend
  <2> DEFINE p == IF phase = "FLASH" THEN pktIndex ELSE 0
             x == Request(PhaseRequest, p)
  <2>1. /\ phase \in Running /\ phase' = phase /\ pktIndex' = pktIndex
        /\ down' = Append(down, x) /\ up' = up
    BY <1>6 DEF TimeoutResend, DeadlinePassed, Send
  <2>2. PhaseRequest \in Requests /\ p \in PktType
    BY <1>2 DEF PhaseRequest, Requests
  <2>3. ReqStage(x) = SessionStage
    BY <2>1, <2>2, RequestStage DEF SessionStage, PhaseRequest, Stage, Running
  <2>4. GoodRequest(x)
    BY <1>1, <2>1, <2>2, RequestStage, PhaseStage DEF PhaseRequest, Running
  <2>5. x \in RequestFrame
    BY <2>2, RequestStage
  <2> HIDE DEF x
  <2>6. Wires(Append(down, x), up, image) /\ Near(Append(down, x), up, SessionStage)
    BY <1>1, <2>1, <2>3, <2>4, <2>5, Repeat, PhaseStage DEF RoundInv
  <2>7. SessionStage' = SessionStage
    BY <2>1 DEF SessionStage, PhaseRequest, Stage
  <2> QED BY <1>1, <2>1, <2>6, <2>7 DEF RoundInv, DoneMeansCommitted, Running
<1>7. CASE TimeoutFail
  BY <1>1, <1>7, QuietCalls DEF TimeoutFail, wireVars
<1>8. CASE LoseAnswer
  BY <1>1, <1>8, QuietCalls DEF LoseAnswer, sessionVars
<1> QED BY <1>3, <1>4, <1>5, <1>6, <1>7, <1>8 DEF ServiceStep, SessionNext, Tick

(* The only answer that ends an update with success, when the number of    *)
(* the last chunk does not end in a zero byte.                             *)
LEMMA ZeroByteMeansEnd ==
  ASSUME LocalInv, LastChunkTellsItself, NEW f \in AnswerFrame, Truthful(f, image),
         f.cmd = "UPDATE_ACK", phase = "END", FirstByte(f) = 0,
         AnsStage(f) \in SessionStage - 1 .. SessionStage
  PROVE  image = FullImage
<1>1. SessionStage = NChunks + 2 /\ AnsStage(f) >= NChunks + 1
  BY NChunksAssumption, PhaseStage DEF AnswerFrame
<1>2. f.re # "UPDATE_START"
  BY <1>1, NChunksAssumption DEF AnsStage, Stage
<1>3. CASE f.re = "UPDATE_DATA"
  <2>1. f.len = 3 /\ f.pkt < NChunks /\ f.pkt \in Nat
    BY <1>3 DEF Truthful, AnswerFrame, PktType
  <2>2. AnsStage(f) = 2 + f.pkt
    BY <1>3 DEF AnsStage, Stage
  <2>3. f.pkt = NChunks - 1
    BY <1>1, <2>1, <2>2, NChunksAssumption
  <2> QED BY <2>1, <2>3 DEF FirstByte, LastChunkTellsItself
<1>4. CASE f.re = "UPDATE_END"
  BY <1>4 DEF Truthful, FirstByte
<1> QED BY <1>2, <1>3, <1>4 DEF Truthful

(* Every acknowledgement that counts in a phase has the stage of the phase,*)
(* except in END.                                                          *)
LEMMA ReceiveRound ==
  ASSUME RoundInv, LastChunkTellsItself, Receive, UNCHANGED nodeVars
  PROVE  RoundInv'
<1> DEFINE f == Head(up)
<1>1. LocalInv /\ LocalInv' /\ image' = image /\ up # <<>> /\ up' = Tail(up)
  BY SessionLocal DEF RoundInv, ServiceStep, SessionNext, Receive, nodeVars
<1>2. /\ f \in AnswerFrame /\ Truthful(f, image)
      /\ Wires(down, Tail(up), image)
      /\ \A s : Near(down, up, s) => Near(down, Tail(up), s)
      /\ \A s : Near(down, up, s) /\ IsAck(f) => AnsStage(f) \in s - 1 .. s
  BY <1>1, TailUp DEF RoundInv
<1>3. CASE Ignore
  BY <1>1, <1>3, QuietCalls DEF Ignore, sessionVars
<1>4. CASE Fail
  BY <1>1, <1>4, QuietCalls DEF Fail
<1>5. CASE ~ Ignore /\ ~ Fail
  <2>1. phase \in Running /\ Near(down, up, SessionStage) /\ SessionStage \in Nat
    BY <1>1, <1>5, PhaseStage DEF Receive, RoundInv
  <2>2. \/ /\ phase = "FLASH" /\ SendChunk(pktIndex) /\ pktIndex' = pktIndex
        \/ /\ f.cmd = "BOOT_ACK" /\ phase = "ENTER_BOOT"
           /\ phase' = "START" /\ Send("UPDATE_START", 0)
        \/ /\ f.cmd = "UPDATE_ACK" /\ phase = "START" /\ pktIndex' = 0 /\ SendChunk(0)
        \/ /\ f.cmd = "UPDATE_ACK" /\ phase = "FLASH" /\ f.len = 3 /\ f.pkt = pktIndex
           /\ ChunkStored
        \/ /\ f.cmd = "UPDATE_ACK" /\ phase = "END" /\ FirstByte(f) = 0
           /\ phase' = "DONE" /\ down' = down
    BY <1>5 DEF Receive, FeedNack, FeedBootError, FeedBootAck, FeedStartAck, FeedDataAck,
                FeedEndAck, FeedOther
  <2> HIDE DEF f
  <2>3. 0 \in PktType /\ pktIndex \in PktType /\ pktIndex \in Nat
    BY <1>1, NChunksAssumption DEF PktType, LocalInv, TypeOK, SessionTypeOK
  <2>4. ASSUME NEW x \in RequestFrame, GoodRequest(x), down' = Append(down, x), phase' \in Running,
               ReqStage(x) = SessionStage', phase' # "IDLE", phase' # "DONE",
               \/ SessionStage' = SessionStage
               \/ IsAck(f) /\ AnsStage(f) = SessionStage /\ SessionStage' = SessionStage + 1
        PROVE  RoundInv'
    <3>1. Wires(Append(down, x), Tail(up), image) /\ Near(Append(down, x), Tail(up), SessionStage')
      <4>1. CASE SessionStage' = SessionStage
        <5>1. Near(down, Tail(up), SessionStage)
          BY <1>2, <2>1
        <5> QED BY <1>2, <2>1, <2>4, <4>1, <5>1, Repeat
      <4>2. CASE IsAck(f) /\ AnsStage(f) = SessionStage /\ SessionStage' = SessionStage + 1
        BY <1>1, <2>1, <2>4, <4>2, Advance DEF f, RoundInv
      <4> QED BY <2>4, <4>1, <4>2
    <3> QED BY <1>1, <2>4, <3>1 DEF RoundInv, DoneMeansCommitted
  <2>5. CASE phase = "FLASH" /\ SendChunk(pktIndex) /\ pktIndex' = pktIndex
    <3> DEFINE x == Request("UPDATE_DATA", pktIndex)
    <3>1. /\ phase' = "FLASH" /\ down' = Append(down, x)
          /\ SessionStage' = SessionStage /\ ReqStage(x) = SessionStage
          /\ x \in RequestFrame /\ GoodRequest(x)
      BY <1>1, <2>3, <2>5, RequestStage, PhaseStage DEF SendChunk, Send, SessionStage,
         PhaseRequest, Stage, Requests
    <3> HIDE DEF x
    <3> QED BY <2>4, <3>1 DEF Running
  <2>6. CASE /\ f.cmd = "BOOT_ACK" /\ phase = "ENTER_BOOT"
             /\ phase' = "START" /\ Send("UPDATE_START", 0)
    <3> DEFINE x == Request("UPDATE_START", 0)
    <3>1. /\ down' = Append(down, x) /\ ReqStage(x) = 1
          /\ x \in RequestFrame /\ GoodRequest(x)
      BY <2>3, <2>6, RequestStage DEF Send, Stage, Requests
    <3>2. IsAck(f) /\ AnsStage(f) = 0
      BY <1>2, <2>6 DEF Truthful, IsAck, AnsStage, Stage
    <3>3. SessionStage = 0 /\ SessionStage' = 1
      BY <1>1, <2>6, PhaseStage DEF SessionStage, PhaseRequest, Stage
    <3> HIDE DEF x
    <3> QED BY <2>4, <2>6, <3>1, <3>2, <3>3 DEF Running
  <2>7. CASE f.cmd = "UPDATE_ACK" /\ phase = "START" /\ pktIndex' = 0 /\ SendChunk(0)
    <3> DEFINE x == Request("UPDATE_DATA", 0)
    <3>1. /\ phase' = "FLASH" /\ down' = Append(down, x) /\ ReqStage(x) = 2
          /\ x \in RequestFrame /\ GoodRequest(x)
      BY <2>3, <2>7, NChunksAssumption, RequestStage DEF SendChunk, Send, Stage, Requests
    <3>2. SessionStage = 1 /\ SessionStage' = 2
      BY <1>1, <2>7, <3>1, PhaseStage DEF SessionStage, PhaseRequest, Stage
    <3>3. IsAck(f) /\ AnsStage(f) \in 0 .. 1
      BY <1>2, <2>1, <2>7, <3>2 DEF IsAck
    <3>4. AnsStage(f) = 1
      <4>1. f.pkt \in Nat
        BY <1>2 DEF AnswerFrame, PktType
      <4> QED BY <1>2, <2>7, <3>3, <4>1, NChunksAssumption DEF Truthful, AnsStage, Stage
    <3> HIDE DEF x
    <3> QED BY <2>4, <3>1, <3>2, <3>3, <3>4 DEF Running
  <2>8. CASE /\ f.cmd = "UPDATE_ACK" /\ phase = "FLASH" /\ f.len = 3 /\ f.pkt = pktIndex
             /\ ChunkStored
    <3>1. IsAck(f) /\ AnsStage(f) = SessionStage /\ SessionStage = 2 + pktIndex /\ pktIndex < NChunks
      <4>1. f.re = "UPDATE_DATA"
        BY <1>2, <2>8 DEF Truthful
      <4> QED BY <1>1, <2>8, <4>1, PhaseStage DEF IsAck, AnsStage, Stage
    <3>2. CASE pktIndex + 1 >= NChunks
      <4> DEFINE x == Request("UPDATE_END", 0)
      <4>1. /\ phase' = "END" /\ down' = Append(down, x) /\ ReqStage(x) = NChunks + 2
            /\ x \in RequestFrame /\ GoodRequest(x)
        BY <2>3, <2>8, <3>2, RequestStage DEF ChunkStored, Send, Stage, Requests
      <4>2. SessionStage' = NChunks + 2 /\ SessionStage' = SessionStage + 1
        <5>1. SessionStage' = NChunks + 2
          BY <4>1 DEF SessionStage, PhaseRequest, Stage
        <5>2. pktIndex + 1 = NChunks
          BY <2>3, <3>1, <3>2, NChunksAssumption
        <5> QED BY <2>3, <3>1, <5>1, <5>2
      <4> HIDE DEF x
      <4> QED BY <2>4, <3>1, <4>1, <4>2 DEF Running
    <3>3. CASE ~ (pktIndex + 1 >= NChunks)
      <4> DEFINE x == Request("UPDATE_DATA", pktIndex + 1)
      <4>1. pktIndex + 1 \in PktType /\ pktIndex + 1 < NChunks
        BY <2>3, <3>3, NChunksAssumption DEF PktType
      <4>2. /\ phase' = "FLASH" /\ pktIndex' = pktIndex + 1 /\ down' = Append(down, x)
            /\ ReqStage(x) = 2 + (pktIndex + 1)
            /\ x \in RequestFrame /\ GoodRequest(x)
        BY <2>8, <3>3, <4>1, RequestStage DEF ChunkStored, SendChunk, Send, Stage, Requests
      <4>3. SessionStage' = 2 + (pktIndex + 1)
        BY <4>2 DEF SessionStage, PhaseRequest, Stage
      <4>4. SessionStage' = SessionStage + 1
        BY <2>3, <3>1, <4>3
      <4> HIDE DEF x
      <4> QED BY <2>4, <3>1, <4>2, <4>3, <4>4 DEF Running
    <3> QED BY <3>2, <3>3
  <2>9. CASE /\ f.cmd = "UPDATE_ACK" /\ phase = "END" /\ FirstByte(f) = 0
             /\ phase' = "DONE" /\ down' = down
    <3>1. AnsStage(f) \in SessionStage - 1 .. SessionStage
      BY <1>2, <2>1, <2>9 DEF IsAck
    <3>2. image = FullImage
      BY <1>1, <1>2, <2>9, <3>1, ZeroByteMeansEnd
    <3> QED BY <1>1, <1>2, <2>9, <3>2 DEF RoundInv, DoneMeansCommitted, Running
  <2> QED BY <2>2, <2>5, <2>6, <2>7, <2>8, <2>9
<1> QED BY <1>3, <1>4, <1>5

-----------------------------------------------------------------------------
(* The handlers of the node and the bus.                                   *)

(* The session does not move, and no image but the whole one is committed. *)
LEMMA BusKeeps ==
  ASSUME RoundInv, LocalInv', UNCHANGED sessionVars, image' \in {image, FullImage},
         NEW d, NEW u, down' = d, up' = u, Wires(d, u, image'),
         \A s \in Nat : Near(down, up, s) => Near(d, u, s),
         phase = "IDLE" => d = <<>> /\ Quiet(u)
  PROVE  RoundInv'
<1>1. SessionStage' = SessionStage
  BY DEF sessionVars, SessionStage, PhaseRequest, Stage
<1>2. SessionStage \in Nat
  BY PhaseStage DEF RoundInv
<1>3. phase' = phase
  BY DEF sessionVars
<1>4. phase' \in Running => Near(down', up', SessionStage')
  BY <1>1, <1>2, <1>3 DEF RoundInv
<1>5. DoneMeansCommitted'
  BY <1>3 DEF RoundInv, DoneMeansCommitted
<1> QED BY <1>3, <1>4, <1>5 DEF RoundInv

LEMMA NodeAnswers ==
  ASSUME RoundInv, LocalInv', UNCHANGED sessionVars, image' \in {image, FullImage},
         down # <<>>, down' = Tail(down), NEW a \in AnswerFrame, up' = Append(up, a),
         Truthful(a, image'), IsAck(a) => AnsStage(a) = ReqStage(Head(down))
  PROVE  RoundInv'
<1>1. Wires(down, up, image')
  BY Committed DEF RoundInv
<1>2. /\ Wires(Tail(down), Append(up, a), image')
      /\ \A s \in Nat : Near(down, up, s) => Near(Tail(down), Append(up, a), s)
  BY <1>1, Answered
<1>3. phase # "IDLE"
  BY DEF RoundInv
<1> QED BY <1>2, <1>3, BusKeeps

(* The three forms of an answer of the node.                               *)
LEMMA NackForm ==
  ASSUME NEW f \in RequestFrame, NEW err \in Nat
  PROVE  LET a == Answer("NACK", f.cmd, 0, err, 3, Me) IN
           a \in AnswerFrame /\ ~ IsAck(a) /\ \A img : Truthful(a, img)
<1>1. f.cmd \in Requests \cup {"none"} /\ 0 \in PktType
  BY NChunksAssumption DEF RequestFrame, PktType
<1>2. Answer("NACK", f.cmd, 0, err, 3, Me) \in AnswerFrame
  BY <1>1, AnswerIsFrame DEF Answers
<1> QED BY <1>2 DEF Answer, IsAck, Truthful

LEMMA Ack3Form ==
  ASSUME NEW f \in RequestFrame, NEW st \in Nat, f.cmd = "UPDATE_DATA", GoodRequest(f)
  PROVE  LET a == Answer("UPDATE_ACK", "UPDATE_DATA", f.pkt, st, 3, Me) IN
           a \in AnswerFrame /\ AnsStage(a) = ReqStage(f) /\ \A img : Truthful(a, img)
<1>1. f.pkt \in PktType /\ f.pkt < NChunks
  BY DEF RequestFrame, GoodRequest
<1>2. Answer("UPDATE_ACK", "UPDATE_DATA", f.pkt, st, 3, Me) \in AnswerFrame
  BY <1>1, AnswerIsFrame DEF Answers, Requests
<1> QED BY <1>1, <1>2 DEF Answer, Truthful, AnsStage, ReqStage, Stage

LEMMA Ack1Form ==
  ASSUME NEW f \in RequestFrame, NEW st \in Nat, f.cmd \in {"UPDATE_START", "UPDATE_END"}
  PROVE  LET a == Answer("UPDATE_ACK", f.cmd, 0, st, 1, Me) IN
           /\ a \in AnswerFrame /\ AnsStage(a) = ReqStage(f)
           /\ \A img : (f.cmd = "UPDATE_END" /\ st = 0 => img = FullImage) => Truthful(a, img)
<1>1. f.cmd \in Requests \cup {"none"} /\ 0 \in PktType
  BY NChunksAssumption DEF RequestFrame, PktType
<1>2. Answer("UPDATE_ACK", f.cmd, 0, st, 1, Me) \in AnswerFrame
  BY <1>1, AnswerIsFrame DEF Answers
<1> QED BY <1>2 DEF Answer, Truthful, AnsStage, ReqStage, Stage

LEMMA DispatchRound ==
  ASSUME RoundInv, Dispatch, UNCHANGED sessionVars
  PROVE  RoundInv'
<1> DEFINE f == Head(down)
<1>1. LocalInv /\ LocalInv' /\ down # <<>> /\ down' = Tail(down)
  BY DispatchLocal DEF RoundInv, Dispatch
<1>2. f \in RequestFrame /\ GoodRequest(f)
  <2>1. f = down[1] /\ f \in RequestFrame /\ 1 \in DOMAIN down
    BY <1>1, TailFacts DEF RoundInv, Wires
  <2> QED BY <2>1 DEF RoundInv, Wires
<1>3. \/ HandleEnterBoot(f) \/ HandleStart(f) \/ HandleData(f)
      \/ HandleEnd(f) \/ HandleAbort(f) \/ HandleUnknown(f)
  BY DEF Dispatch
<1> HIDE DEF f
<1>4. ASSUME NEW a \in AnswerFrame, Reply(a), image' \in {image, FullImage},
             Truthful(a, image'), IsAck(a) => AnsStage(a) = ReqStage(f)
      PROVE  RoundInv'
  BY <1>1, <1>4, NodeAnswers DEF Reply, f
<1>5. ASSUME NEW err \in Nat, Nack(f, err), image' = image
      PROVE  RoundInv'
  BY <1>2, <1>4, <1>5, NackForm DEF Nack
<1>6. CASE HandleEnterBoot(f)
  <2>1. image' = image /\ f.cmd = "ENTER_BOOT"
    BY <1>6 DEF HandleEnterBoot
  <2>2. CASE Nack(f, 17)
    BY <1>5, <2>1, <2>2
  <2>3. CASE Reply(Answer("BOOT_ACK", "ENTER_BOOT", 0, 1, 1, Me))
    <3> DEFINE a == Answer("BOOT_ACK", "ENTER_BOOT", 0, 1, 1, Me)
    <3>1. 0 \in PktType
      BY NChunksAssumption DEF PktType
    <3>2. a \in AnswerFrame
      BY <3>1, AnswerIsFrame DEF Answers, Requests
    <3>3. Truthful(a, image') /\ AnsStage(a) = ReqStage(f)
      BY <2>1 DEF Answer, Truthful, AnsStage, ReqStage, Stage
    <3> HIDE DEF a
    <3>4. Reply(a)
      BY <2>3 DEF a
    <3> QED BY <1>4, <2>1, <3>2, <3>3, <3>4
  <2> QED BY <1>6, <2>2, <2>3 DEF HandleEnterBoot
<1>7. CASE HandleStart(f)
  <2>1. image' = image /\ f.cmd = "UPDATE_START" /\ \E st \in {0, 1} : Ack1(f, st)
    BY <1>7 DEF HandleStart
  <2>2. PICK st \in Nat : Ack1(f, st)
    BY <2>1
  <2> DEFINE a == Answer("UPDATE_ACK", f.cmd, 0, st, 1, Me)
  <2>3. a \in AnswerFrame /\ AnsStage(a) = ReqStage(f) /\ Truthful(a, image')
    BY <1>2, <2>1, Ack1Form
  <2>4. Reply(a)
    BY <2>2 DEF Ack1
  <2> HIDE DEF a
  <2> QED BY <1>4, <2>1, <2>3, <2>4
<1>8. CASE HandleData(f)
  <2>1. image' = image /\ f.cmd = "UPDATE_DATA"
    BY <1>8 DEF HandleData, Unwritten
  <2>2. Nack(f, 2) \/ \E st \in 0 .. 3 : Ack3(f, st)
    BY <1>8 DEF HandleData
  <2>3. CASE Nack(f, 2)
    BY <1>5, <2>1, <2>3
  <2>4. ASSUME NEW st \in Nat, Ack3(f, st)
        PROVE  RoundInv'
    <3> DEFINE a == Answer("UPDATE_ACK", "UPDATE_DATA", f.pkt, st, 3, Me)
    <3>1. a \in AnswerFrame /\ AnsStage(a) = ReqStage(f) /\ Truthful(a, image')
      BY <1>2, <2>1, Ack3Form
    <3>2. Reply(a)
      BY <2>4 DEF Ack3
    <3> HIDE DEF a
    <3> QED BY <1>4, <2>1, <3>1, <3>2
  <2> QED BY <2>2, <2>3, <2>4
<1>9. CASE HandleEnd(f)
  <2>1. f.cmd = "UPDATE_END"
    BY <1>9 DEF HandleEnd
  <2>2. \/ Nack(f, 2) /\ image' = image
        \/ \E st \in {1, 4} : Ack1(f, st) /\ image' = image
        \/ Ack1(f, 0) /\ image' = written /\ Len(written) = NChunks
    BY <1>9 DEF HandleEnd, Unwritten, AbortLocal
  <2>3. CASE Nack(f, 2) /\ image' = image
    BY <1>5, <2>3
  <2>4. ASSUME NEW st \in Nat, Ack1(f, st), image' \in {image, FullImage},
               st = 0 => image' = FullImage
        PROVE  RoundInv'
    <3> DEFINE a == Answer("UPDATE_ACK", f.cmd, 0, st, 1, Me)
    <3>1. a \in AnswerFrame /\ AnsStage(a) = ReqStage(f) /\ Truthful(a, image')
      BY <1>2, <2>1, <2>4, Ack1Form
    <3>2. Reply(a)
      BY <2>4 DEF Ack1
    <3> HIDE DEF a
    <3> QED BY <1>4, <2>4, <3>1, <3>2
  <2>5. CASE Ack1(f, 0) /\ image' = written /\ Len(written) = NChunks
    <3>1. image' \in {<<>>, FullImage}
      BY <1>1 DEF LocalInv, CommittedImageIsWhole
    <3>2. image' # <<>>
      BY <2>5, NChunksAssumption
    <3> QED BY <2>4, <2>5, <3>1, <3>2
  <2> QED BY <2>2, <2>3, <2>4, <2>5
<1>10. CASE HandleAbort(f)
  <2> DEFINE a == Answer("ACK", "ABORT_BOOT", 0, 0, 2, Me)
  <2>1. Reply(a) /\ image' = image
    BY <1>10 DEF HandleAbort, AbortLocal
  <2>2. 0 \in PktType
    BY NChunksAssumption DEF PktType
  <2>3. a \in AnswerFrame
    BY <2>2, AnswerIsFrame DEF Answers, Requests
  <2>4. ~ IsAck(a) /\ Truthful(a, image')
    BY DEF Answer, IsAck, Truthful
  <2> HIDE DEF a
  <2> QED BY <1>4, <2>1, <2>3, <2>4
<1>11. CASE HandleUnknown(f)
  BY <1>5, <1>11 DEF HandleUnknown, Unwritten
<1> QED BY <1>3, <1>6, <1>7, <1>8, <1>9, <1>10, <1>11

LEMMA BusRound ==
  ASSUME RoundInv, BusStep
  PROVE  RoundInv'
<1>1. LocalInv' /\ UNCHANGED sessionVars
  BY BusLocal DEF RoundInv, BusStep
<1>2. CASE Dispatch
  BY <1>1, <1>2, DispatchRound
<1>3. CASE DispatchDamaged
  <2>1. /\ down # <<>> /\ down' = Tail(down) /\ image' = image
        /\ up' = Append(up, Answer("NACK", Head(down).cmd, 0, 1, 3, Me))
    BY <1>3 DEF DispatchDamaged, Nack, Reply, nodeVars
  <2>2. Head(down) \in RequestFrame
    BY <2>1, TailFacts DEF RoundInv, Wires
  <2> DEFINE a == Answer("NACK", Head(down).cmd, 0, 1, 3, Me)
  <2>3. a \in AnswerFrame /\ ~ IsAck(a) /\ Truthful(a, image')
    BY <2>2, NackForm
  <2>4. up' = Append(up, a)
    BY <2>1
  <2> HIDE DEF a
  <2> QED BY <1>1, <2>1, <2>3, <2>4, NodeAnswers
<1>4. CASE LoseRequest
  <2>1. down # <<>> /\ down' = Tail(down) /\ image' = image /\ up' = up
    BY <1>4 DEF LoseRequest, nodeVars
  <2>2. Wires(Tail(down), up, image') /\ \A s : Near(down, up, s) => Near(Tail(down), up, s)
    BY <2>1, TailDown DEF RoundInv
  <2>3. phase # "IDLE"
    BY <2>1 DEF RoundInv
  <2> QED BY <1>1, <2>1, <2>2, <2>3, BusKeeps
<1>5. CASE NodeRestart
  <2>1. down' = down /\ up' = up /\ image' = image
    BY <1>5 DEF NodeRestart, wireVars
  <2> QED BY <1>1, <2>1, BusKeeps DEF RoundInv
<1>6. CASE NodeTimeout \/ SisterSpeaks
  <2>1. down' = down /\ image' = image
        /\ \/ Reply(Answer("BOOT_ERROR", "none", 0, 254, 1, Me))
           \/ \E s \in Sisters : \/ Reply(Answer("NACK", "UPDATE_DATA", 0, 255, 3, s))
                                 \/ Reply(Answer("BOOT_ERROR", "none", 0, 254, 1, s))
    BY <1>6 DEF NodeTimeout, SisterSpeaks, AbortLocal, nodeVars
  <2>2. 0 \in PktType
    BY NChunksAssumption DEF PktType
  <2>3. \E a \in AnswerFrame : ~ IsAck(a) /\ up' = Append(up, a)
    <3>1. \A s \in Sisters \cup {Me} :
            LET e == Answer("BOOT_ERROR", "none", 0, 254, 1, s)
                n == Answer("NACK", "UPDATE_DATA", 0, 255, 3, s)
            IN  e \in AnswerFrame /\ n \in AnswerFrame /\ ~ IsAck(e) /\ ~ IsAck(n)
      BY <2>2 DEF Answer, AnswerFrame, Answers, Requests, IsAck
    <3> QED BY <2>1, <3>1 DEF Reply
  <2>4. PICK a \in AnswerFrame : ~ IsAck(a) /\ up' = Append(up, a)
    BY <2>3
  <2>5. /\ Wires(down, Append(up, a), image')
        /\ \A s : Near(down, up, s) => Near(down, Append(up, a), s)
        /\ Quiet(up) => Quiet(Append(up, a))
    BY <2>1, <2>4, Spoken DEF RoundInv
  <2>6. phase = "IDLE" => down = <<>> /\ Quiet(Append(up, a))
    BY <2>5 DEF RoundInv
  <2> QED BY <1>1, <2>1, <2>4, <2>5, <2>6, BusKeeps
<1> QED BY <1>2, <1>3, <1>4, <1>5, <1>6 DEF BusStep, NodeNext, NodeStep

-----------------------------------------------------------------------------
LEMMA RoundInductive == RoundInv /\ LastChunkTellsItself /\ [Next]_vars => RoundInv'
<1> SUFFICES ASSUME RoundInv, LastChunkTellsItself, [Next]_vars
             PROVE  RoundInv'
  OBVIOUS
<1>1. CASE ServiceStep
  BY <1>1, CallsRound, ReceiveRound DEF ServiceStep
<1>2. CASE BusStep
  BY <1>2, BusRound
<1>3. CASE UNCHANGED vars
  <2>1. LocalInv'
    BY <1>3, LocalInductive DEF RoundInv
  <2>2. /\ UNCHANGED sessionVars /\ image' = image /\ down' = down /\ up' = up
    BY <1>3 DEF vars, nodeVars, wireVars
  <2> QED BY <2>1, <2>2, BusKeeps DEF RoundInv
<1> QED BY <1>1, <1>2, <1>3 DEF Next

LEMMA InitRound == Init => RoundInv
<1> SUFFICES ASSUME Init
             PROVE  RoundInv
  OBVIOUS
<1>1. LocalInv
  BY InitLocal
<1>2. down = <<>> /\ up = <<>> /\ phase = "IDLE"
  BY DEF Init, WireInit, SessionInit
<1>3. Wires(down, up, image)
  BY <1>2 DEF Wires, Sorted
<1> QED BY <1>1, <1>2, <1>3 DEF RoundInv, Quiet, Running, DoneMeansCommitted

(* When the session reports ota_done, the node has committed the whole     *)
(* image: for every number of chunks whose last one tells itself from a    *)
(* status byte, every retry limit and every set of hazards.                *)
THEOREM DoneIsTrue == LastChunkTellsItself /\ Spec => []DoneMeansCommitted
<1>1. RoundInv => DoneMeansCommitted
  BY DEF RoundInv
<1>2. /\ RoundInv /\ LastChunkTellsItself
      /\ [Next]_vars
      => (RoundInv /\ LastChunkTellsItself)'
  BY RoundInductive DEF LastChunkTellsItself
<1> QED BY <1>1, <1>2, InitRound, PTL DEF Spec

-----------------------------------------------------------------------------
(***************************************************************************)
(* The transfer implements FlashPromise: with the store of the promise the *)
(* chunks the node has written, its boot image that of the node and its    *)
(* verdict what the session has reported, every step of the session, the   *)
(* node and the bus is a step of the promise or leaves it alone.           *)
(***************************************************************************)

(* What a promise is about.                                                *)
Told == <<written, image, Verdict>>

LEMMA VerdictOf ==
  /\ phase = "DONE" => Verdict = "success"
  /\ phase \in {"ERROR", "ABORTED"} => Verdict = "failure"
  /\ phase \notin Verdicts => Verdict = "none"
  BY DEF Verdict, Verdicts

(* A verdict is final: no call of the session changes it.                  *)
LEMMA VerdictIsFinal ==
  ASSUME ServiceStep, phase \in Verdicts
  PROVE  phase' = phase
<1>1. phase \notin Running /\ phase # "IDLE"
  BY DEF Verdicts, Running
<1>2. CASE Receive
  BY <1>1, <1>2 DEF Receive, Ignore, sessionVars
<1>3. CASE LoseAnswer
  BY <1>3 DEF LoseAnswer, sessionVars
<1> QED BY <1>1, <1>2, <1>3 DEF ServiceStep, SessionNext, Tick, Start, RequestAbort, TimeoutResend,
           TimeoutFail, AbortFinish, DeadlinePassed

LEMMA ServicePromise ==
  ASSUME RoundInv, RoundInv', ServiceStep
  PROVE  Promise!Next \/ UNCHANGED Told
<1>1. written' = written /\ image' = image
  BY DEF ServiceStep, nodeVars
<1>2. phase' \in {"IDLE"} \cup Running \cup Verdicts
  BY DEF RoundInv, LocalInv, TypeOK, SessionTypeOK
<1>3. CASE phase' = phase
  BY <1>1, <1>3 DEF Told, Verdict
<1>4. CASE phase \notin Verdicts
  <2>1. Verdict = "none"
    BY <1>4, VerdictOf
  <2>2. CASE phase' = "DONE"
    <3>1. Verdict' = "success"
      BY <2>2 DEF Verdict
    <3>2. image = Promise!FullImage
      BY <1>1, <2>2 DEF RoundInv, DoneMeansCommitted, FullImage, Promise!FullImage
    <3> QED BY <1>1, <2>1, <3>1, <3>2 DEF Promise!Next, Promise!ReportSuccess
  <2>3. CASE phase' \in {"ERROR", "ABORTED"}
    <3>1. Verdict' = "failure"
      BY <2>3 DEF Verdict
    <3> QED BY <1>1, <2>1, <3>1 DEF Promise!Next, Promise!ReportFailure
  <2>4. CASE phase' \notin Verdicts
    <3>1. Verdict' = "none"
      BY <2>4 DEF Verdict, Verdicts
    <3> QED BY <1>1, <2>1, <3>1 DEF Told
  <2> QED BY <2>2, <2>3, <2>4 DEF Verdicts
<1> QED BY <1>3, <1>4, VerdictIsFinal

(* The image the node has in its store is all of it when it has the length.*)
LEMMA DispatchPromise ==
  ASSUME LocalInv, Dispatch, UNCHANGED sessionVars
  PROVE  Promise!Next \/ UNCHANGED Told
<1> DEFINE f == Head(down)
<1>1. \/ HandleEnterBoot(f) \/ HandleStart(f) \/ HandleData(f)
      \/ HandleEnd(f) \/ HandleAbort(f) \/ HandleUnknown(f)
  BY DEF Dispatch
<1>2. Verdict' = Verdict
  BY DEF Verdict, sessionVars
<1>3. written \in Seq(0 .. NChunks - 1) /\ expectPkt = Len(written)
  BY DEF LocalInv, TypeOK, NodeTypeOK, StoreInv
<1> HIDE DEF f
<1>4. CASE written' = written /\ image' = image
  BY <1>2, <1>4 DEF Told
<1>5. CASE written' = <<>> /\ image' = image
  BY <1>2, <1>5 DEF Promise!Next, Promise!Drop
<1>6. CASE HandleEnterBoot(f) \/ HandleStart(f) \/ HandleAbort(f) \/ HandleUnknown(f)
  <2>1. (written' = written \/ written' = <<>>) /\ image' = image
    BY <1>6 DEF HandleEnterBoot, HandleStart, HandleAbort, HandleUnknown, AbortLocal, Unwritten
  <2> QED BY <1>4, <1>5, <2>1
<1>7. CASE HandleData(f)
  <2>1. \/ written' = written /\ image' = image
        \/ /\ f.pkt = expectPkt /\ Len(written) + 1 <= NChunks
           /\ written' = Append(written, f.pkt) /\ image' = image
    BY <1>7 DEF HandleData, Unwritten
  <2>2. CASE /\ f.pkt = expectPkt /\ Len(written) + 1 <= NChunks
             /\ written' = Append(written, f.pkt) /\ image' = image
    <3>1. Len(written) < NChunks
      BY <1>3, <2>2, NChunksAssumption
    <3>2. written' = Append(written, Len(written))
      BY <1>3, <2>2
    <3> QED BY <1>2, <2>2, <3>1, <3>2 DEF Promise!Next, Promise!WriteNext
  <2> QED BY <1>4, <2>1, <2>2
<1>8. CASE HandleEnd(f)
  <2>1. \/ written' = written /\ image' = image
        \/ Len(written) = NChunks /\ image' = written /\ written' = <<>>
    BY <1>8 DEF HandleEnd, Unwritten, AbortLocal
  <2>2. CASE Len(written) = NChunks /\ image' = written /\ written' = <<>>
    <3>1. \A i \in DOMAIN written : written[i] = i - 1
      BY DEF LocalInv, StoreInv
    <3>2. written = FullImage
      BY <1>3, <2>2, <3>1, PrefixIsFull
    <3>3. written = Promise!FullImage
      BY <3>2 DEF FullImage, Promise!FullImage
    <3> QED BY <1>2, <2>2, <3>3 DEF Promise!Next, Promise!Commit
  <2> QED BY <1>4, <2>1, <2>2
<1> QED BY <1>1, <1>6, <1>7, <1>8

LEMMA BusPromise ==
  ASSUME LocalInv, BusStep
  PROVE  Promise!Next \/ UNCHANGED Told
<1>1. UNCHANGED sessionVars /\ Verdict' = Verdict
  BY DEF BusStep, Verdict, sessionVars
<1>2. CASE Dispatch
  BY <1>1, <1>2, DispatchPromise
<1>3. CASE DispatchDamaged \/ LoseRequest \/ SisterSpeaks \/ NodeTimeout
  <2>1. written' = written /\ image' = image
    BY <1>3 DEF DispatchDamaged, LoseRequest, SisterSpeaks, NodeTimeout, AbortLocal, nodeVars
  <2> QED BY <1>1, <2>1 DEF Told
<1>4. CASE NodeRestart
  <2>1. written' = <<>> /\ image' = image
    BY <1>4 DEF NodeRestart
  <2> QED BY <1>1, <2>1 DEF Promise!Next, Promise!Drop
<1> QED BY <1>2, <1>3, <1>4 DEF BusStep, NodeNext, NodeStep

(* The protocol implements its promise, for images of every size whose     *)
(* last chunk tells itself from a status byte: chunks are written in order *)
(* or dropped, only the whole image is committed, success is reported only *)
(* after that, and a verdict is final.                                     *)
THEOREM PromiseIsKept == LastChunkTellsItself /\ Spec => PromiseKept
<1> DEFINE Inv == RoundInv /\ LastChunkTellsItself
<1>1. Init => Promise!Init
  <2> SUFFICES ASSUME Init
               PROVE  Promise!Init
    OBVIOUS
  <2>1. written = <<>> /\ image = <<>> /\ phase = "IDLE"
    BY DEF Init, NodeInit, SessionInit
  <2>2. Verdict = "none"
    BY <2>1, VerdictOf DEF Verdicts
  <2> QED BY <2>1, <2>2 DEF Promise!Init
<1>2. Inv /\ [Next]_vars => Inv'
  BY RoundInductive DEF LastChunkTellsItself
<1>3. Inv /\ [Next]_vars => [Promise!Next]_(Promise!promiseVars)
  <2> SUFFICES ASSUME Inv, [Next]_vars
               PROVE  Promise!Next \/ UNCHANGED Told
    BY DEF Promise!promiseVars, Told
  <2>1. CASE ServiceStep
    BY <1>2, <2>1, ServicePromise
  <2>2. CASE BusStep
    BY <2>2, BusPromise DEF RoundInv
  <2>3. CASE UNCHANGED vars
    BY <2>3 DEF vars, sessionVars, nodeVars, Told, Verdict
  <2> QED BY <2>1, <2>2, <2>3 DEF Next
<1> QED BY <1>1, <1>2, <1>3, InitRound, PTL DEF Spec, PromiseKept, Promise!Spec

-----------------------------------------------------------------------------
(***************************************************************************)
(* The rest of the invariant IInv: an acknowledged chunk is stored, and    *)
(* the session and the node never drift apart by more than one chunk.      *)
(*                                                                         *)
(* Two facts are needed besides IInv.  What is on its way to the node      *)
(* spans two stages even after the verdict, when the window says nothing   *)
(* (Spread): a second UPDATE_START, which begins the image anew, is        *)
(* followed by no chunk but the first.  And a node that receives is not    *)
(* ahead of the session by more than a chunk (Ahead).                      *)
(***************************************************************************)

Spread(d) ==
  \A i, j \in DOMAIN d :
    d[j].cmd # "ABORT_BOOT" => ReqStage(d[j]) <= ReqStage(d[i]) + 1

Ahead ==
  fwStarted =>
    /\ phase \notin {"IDLE", "ENTER_BOOT"}
    /\ phase = "START" => expectPkt = 0
    /\ phase = "FLASH" => expectPkt <= pktIndex + 1

(* AckInv, of any answers.                                                 *)
StoredUpTo(u, e) ==
  \A i \in DOMAIN u :
    u[i].cmd = "UPDATE_ACK" /\ u[i].re = "UPDATE_DATA" /\ u[i].st = 0 => u[i].pkt < e

(* NodeNeverSeesGap, of any requests.                                      *)
NoGap(d, e) == \A i \in DOMAIN d : d[i].cmd = "UPDATE_DATA" => d[i].pkt \in {e, e - 1}

DriftInv ==
  /\ RoundInv
  /\ Spread(down)
  /\ Ahead
  /\ fwStarted => StoredUpTo(up, expectPkt) /\ NoGap(down, expectPkt)
  /\ AckedChunksAreStored

-----------------------------------------------------------------------------
(* Queues that lose their oldest frame.                                    *)
LEMMA TailKeeps ==
  ASSUME NEW d \in Seq(RequestFrame), d # <<>>
  PROVE  /\ Spread(d) => Spread(Tail(d))
         /\ \A e : NoGap(d, e) => NoGap(Tail(d), e)
<1>1. \A i \in DOMAIN Tail(d) : i + 1 \in DOMAIN d /\ Tail(d)[i] = d[i + 1]
  BY TailFacts
<1> QED BY <1>1 DEF Spread, NoGap

LEMMA TailStored ==
  ASSUME NEW u \in Seq(AnswerFrame), u # <<>>, NEW e, StoredUpTo(u, e)
  PROVE  StoredUpTo(Tail(u), e)
<1>1. \A i \in DOMAIN Tail(u) : i + 1 \in DOMAIN u /\ Tail(u)[i] = u[i + 1]
  BY TailFacts
<1> QED BY <1>1 DEF StoredUpTo

(* A window of two stages is a spread of two.                              *)
LEMMA NearIsSpread ==
  ASSUME NEW d \in Seq(RequestFrame), NEW u, NEW s \in Nat, Near(d, u, s)
  PROVE  Spread(d)
<1>1. \A i \in DOMAIN d : ReqStage(d[i]) \in s - 1 .. s
  BY DEF Near
<1> QED BY <1>1 DEF Spread

LEMMA Typed ==
  ASSUME RoundInv
  PROVE  /\ down \in Seq(RequestFrame) /\ up \in Seq(AnswerFrame)
         /\ pktIndex \in Nat /\ expectPkt \in Nat /\ fwStarted \in BOOLEAN
         /\ SessionStage \in Nat
  BY NChunksAssumption, PhaseStage DEF RoundInv, LocalInv, TypeOK, WireTypeOK, SessionTypeOK,
     NodeTypeOK

-----------------------------------------------------------------------------
(* The calls of the session.                                               *)

(* What a call may do to the queues and to the window.                     *)
LEMMA CallShape ==
  ASSUME RoundInv, ServiceStep
  PROVE  /\ up' = up \/ (up # <<>> /\ up' = Tail(up))
         /\ \/ down' = down
            \/ down' = Append(down, Request("ABORT_BOOT", 0)) /\ phase' = "ABORTED"
            \/ \E c \in {"ENTER_BOOT", "UPDATE_START", "UPDATE_END"} :
                 down' = Append(down, Request(c, 0)) /\ phase' \in Running
            \/ down' = Append(down, Request("UPDATE_DATA", pktIndex')) /\ phase' = "FLASH"
<1>1. CASE Receive
  BY <1>1 DEF Receive, Ignore, FeedNack, FeedBootError, FeedBootAck, FeedStartAck, FeedDataAck,
     FeedEndAck, FeedOther, Fail, SendChunk, ChunkStored, Send, Running, sessionVars
<1>2. CASE TimeoutResend
  BY <1>2 DEF TimeoutResend, DeadlinePassed, Send, PhaseRequest, Running
<1>3. CASE Start \/ RequestAbort \/ AbortFinish \/ TimeoutFail \/ LoseAnswer
  BY <1>3 DEF Start, RequestAbort, AbortFinish, TimeoutFail, LoseAnswer, Send, wireVars, Running
<1> QED BY <1>1, <1>2, <1>3 DEF ServiceStep, SessionNext, Tick

LEMMA CallPhase ==
  ASSUME RoundInv, ServiceStep
  PROVE  \/ phase' = phase /\ pktIndex' = pktIndex
         \/ phase' \in Verdicts
         \/ phase = "IDLE" /\ phase' = "ENTER_BOOT"
         \/ phase = "ENTER_BOOT" /\ phase' = "START"
         \/ phase = "START" /\ phase' = "FLASH" /\ pktIndex' = 0
         \/ /\ phase = "FLASH" /\ phase' \in {"FLASH", "END"} /\ pktIndex' = pktIndex + 1
            /\ up # <<>> /\ Head(up).cmd = "UPDATE_ACK" /\ Head(up).len = 3
            /\ Head(up).pkt = pktIndex /\ Head(up).st = 0
<1>1. CASE Receive
  BY <1>1 DEF Receive, Ignore, FeedNack, FeedBootError, FeedBootAck, FeedStartAck, FeedDataAck,
     FeedEndAck, FeedOther, Fail, SendChunk, ChunkStored, Verdicts, sessionVars
<1>2. CASE Start \/ RequestAbort \/ AbortFinish \/ TimeoutFail \/ TimeoutResend \/ LoseAnswer
  BY <1>2 DEF Start, RequestAbort, AbortFinish, TimeoutFail, TimeoutResend, LoseAnswer,
     Verdicts, sessionVars
<1> QED BY <1>1, <1>2 DEF ServiceStep, SessionNext, Tick

LEMMA CallsDrift ==
  ASSUME DriftInv, RoundInv', ServiceStep
  PROVE  DriftInv'
<1>1. RoundInv /\ fwStarted' = fwStarted /\ expectPkt' = expectPkt
  BY DEF DriftInv, ServiceStep, nodeVars
<1>2. /\ down \in Seq(RequestFrame) /\ up \in Seq(AnswerFrame)
      /\ pktIndex \in Nat /\ expectPkt \in Nat
  BY <1>1, Typed
<1>3. pktIndex' \in Nat /\ down' \in Seq(RequestFrame) /\ SessionStage' \in Nat
  <2>1. LocalInv'
    BY DEF RoundInv
  <2>2. pktIndex' \in Nat /\ down' \in Seq(RequestFrame)
    BY <2>1, NChunksAssumption DEF LocalInv, TypeOK, SessionTypeOK, WireTypeOK
  <2>3. SessionStage' \in Nat
    BY <2>1, NChunksAssumption DEF LocalInv, TypeOK, SessionTypeOK, SessionStage, PhaseRequest, Stage
  <2> QED BY <2>2, <2>3
<1>4. ASSUME fwStarted
      PROVE  StoredUpTo(up', expectPkt)
  BY <1>1, <1>2, <1>4, CallShape, TailStored DEF DriftInv
<1>5. ASSUME fwStarted, up # <<>>, Head(up).cmd = "UPDATE_ACK", Head(up).len = 3,
             Head(up).pkt = pktIndex, Head(up).st = 0
      PROVE  pktIndex < expectPkt
  <2>1. Head(up) = up[1] /\ 1 \in DOMAIN up
    BY <1>2, <1>5
  <2>2. Head(up).re = "UPDATE_DATA"
    BY <1>1, <1>5, <2>1 DEF RoundInv, Wires, Truthful
  <2> QED BY <1>5, <2>1, <2>2 DEF DriftInv, StoredUpTo
<1>6. AckedChunksAreStored'
  <2> SUFFICES ASSUME phase' \in {"FLASH", "END"}, pktIndex' > 0, fwStarted
               PROVE  pktIndex' <= expectPkt
    BY <1>1 DEF AckedChunksAreStored
  <2>1. CASE phase' = phase /\ pktIndex' = pktIndex
    BY <2>1 DEF DriftInv, AckedChunksAreStored
  <2>2. CASE pktIndex' = pktIndex + 1 /\ pktIndex < expectPkt
    BY <1>2, <2>2
  <2> QED BY <1>1, <1>5, <2>1, <2>2, CallPhase DEF Verdicts
<1>7. Ahead'
  <2> SUFFICES ASSUME fwStarted
               PROVE  /\ phase' \notin {"IDLE", "ENTER_BOOT"}
                      /\ phase' = "START" => expectPkt = 0
                      /\ phase' = "FLASH" => expectPkt <= pktIndex' + 1
    BY <1>1 DEF Ahead
  <2>1. /\ phase \notin {"IDLE", "ENTER_BOOT"}
        /\ phase = "START" => expectPkt = 0
        /\ phase = "FLASH" => expectPkt <= pktIndex + 1
    BY DEF DriftInv, Ahead
  <2> QED BY <1>1, <1>2, <2>1, CallPhase DEF Verdicts
<1>8. Spread(down')
  <2>1. CASE down' = down
    BY <2>1 DEF DriftInv
  <2>2. CASE phase' \in Running
    <3>1. Near(down', up', SessionStage')
      BY <2>2 DEF RoundInv
    <3> QED BY <1>3, <3>1, NearIsSpread
  <2>3. CASE down' = Append(down, Request("ABORT_BOOT", 0))
    <3> DEFINE x == Request("ABORT_BOOT", 0)
               e == Append(down, x)
    <3>1. x \in RequestFrame /\ x.cmd = "ABORT_BOOT" /\ ReqStage(x) = NChunks + 3
      BY NChunksAssumption, RequestStage DEF Requests, Stage, Request, PktType
    <3>2. /\ \A i \in DOMAIN down : e[i] = down[i]
          /\ \A i \in DOMAIN e : i \in DOMAIN down \/ i = Len(down) + 1
          /\ e[Len(down) + 1] = x
      BY <1>2, <3>1, AppendFacts
    <3>3. \A i \in DOMAIN down : down[i] \in RequestFrame
      BY <1>2
    <3> HIDE DEF x, e
    <3>4. \A j \in DOMAIN down : ReqStage(down[j]) <= ReqStage(x) + 1
      BY <3>1, <3>3, StageBound, FrameStages, NChunksAssumption
    <3>5. Spread(e)
      BY <3>1, <3>2, <3>4 DEF DriftInv, Spread
    <3> QED BY <2>3, <3>5 DEF e, x
  <2> QED BY <1>1, <2>1, <2>2, <2>3, CallShape DEF Running
<1>9. ASSUME fwStarted
      PROVE  NoGap(down', expectPkt)
  <2>1. NoGap(down, expectPkt)
    BY <1>9 DEF DriftInv
  <2>2. ASSUME NEW x \in RequestFrame, x.cmd = "UPDATE_DATA" => x.pkt \in {expectPkt, expectPkt - 1}
        PROVE  NoGap(Append(down, x), expectPkt)
    <3> DEFINE e == Append(down, x)
    <3>1. /\ \A i \in DOMAIN down : e[i] = down[i]
          /\ \A i \in DOMAIN e : i \in DOMAIN down \/ i = Len(down) + 1
          /\ e[Len(down) + 1] = x
      BY <1>2, AppendFacts
    <3> HIDE DEF e
    <3>2. NoGap(e, expectPkt)
      BY <2>1, <2>2, <3>1 DEF NoGap
    <3> QED BY <3>2 DEF e
  <2>3. ASSUME phase' = "FLASH"
        PROVE  pktIndex' \in {expectPkt, expectPkt - 1}
    <3>1. pktIndex' > 0 => pktIndex' <= expectPkt
      BY <1>1, <1>6, <1>9, <2>3 DEF AckedChunksAreStored
    <3>2. expectPkt <= pktIndex' + 1
      BY <1>1, <1>7, <1>9, <2>3 DEF Ahead
    <3>3. CASE pktIndex' = 0
      <4>1. expectPkt = 0 \/ expectPkt = 1
        BY <1>2, <3>2, <3>3
      <4> QED BY <3>3, <4>1
    <3>4. CASE pktIndex' > 0
      <4>1. \A e, q \in Nat : q <= e /\ e <= q + 1 => q = e \/ q = e - 1
        OBVIOUS
      <4>2. pktIndex' \in Nat /\ expectPkt \in Nat
        BY <1>2, <1>3
      <4>3. pktIndex' = expectPkt \/ pktIndex' = expectPkt - 1
        BY <3>1, <3>2, <3>4, <4>1, <4>2
      <4> QED BY <4>3
    <3>5. pktIndex' = 0 \/ pktIndex' > 0
      BY <1>3
    <3> QED BY <3>3, <3>4, <3>5
  <2>4. CASE down' = down
    BY <2>1, <2>4
  <2>5. ASSUME NEW c \in {"ABORT_BOOT", "ENTER_BOOT", "UPDATE_START", "UPDATE_END"},
               down' = Append(down, Request(c, 0))
        PROVE  NoGap(down', expectPkt)
    <3>1. Request(c, 0) \in RequestFrame /\ Request(c, 0).cmd # "UPDATE_DATA"
      BY NChunksAssumption, RequestIsFrame DEF Request, Requests, PktType
    <3> QED BY <2>2, <2>5, <3>1
  <2>6. CASE down' = Append(down, Request("UPDATE_DATA", pktIndex')) /\ phase' = "FLASH"
    <3>1. pktIndex' \in PktType
      BY DEF RoundInv, LocalInv, TypeOK, SessionTypeOK, PktType
    <3>2. Request("UPDATE_DATA", pktIndex') \in RequestFrame
          /\ Request("UPDATE_DATA", pktIndex').pkt = pktIndex'
      BY <3>1, RequestIsFrame DEF Request, Requests
    <3> QED BY <2>2, <2>3, <2>6, <3>2
  <2> QED BY <1>1, <2>4, <2>5, <2>6, CallShape
<1> QED BY <1>1, <1>4, <1>6, <1>7, <1>8, <1>9 DEF DriftInv

-----------------------------------------------------------------------------
(* The handlers of the node and the bus.                                   *)

(* A request disappears or is answered, without news of a stored chunk.    *)
LEMMA NothingStored ==
  ASSUME DriftInv, RoundInv', UNCHANGED sessionVars,
         down' = down \/ (down # <<>> /\ down' = Tail(down)),
         fwStarted' => fwStarted /\ expectPkt' = expectPkt,
         \/ up' = up
         \/ \E a \in AnswerFrame :
              /\ up' = Append(up, a)
              /\ a.cmd = "UPDATE_ACK" /\ a.re = "UPDATE_DATA" /\ a.st = 0
                   => fwStarted /\ a.pkt < expectPkt
  PROVE  DriftInv'
<1>1. RoundInv /\ down \in Seq(RequestFrame) /\ up \in Seq(AnswerFrame)
  BY Typed DEF DriftInv
<1>2. Spread(down') /\ \A e : NoGap(down, e) => NoGap(down', e)
  BY <1>1, TailKeeps DEF DriftInv
<1>3. ASSUME fwStarted'
      PROVE  StoredUpTo(up', expectPkt')
  <2>1. fwStarted /\ expectPkt' = expectPkt /\ StoredUpTo(up, expectPkt)
    BY <1>3 DEF DriftInv
  <2>2. CASE up' = up
    BY <2>1, <2>2
  <2>3. ASSUME NEW a \in AnswerFrame, up' = Append(up, a),
               a.cmd = "UPDATE_ACK" /\ a.re = "UPDATE_DATA" /\ a.st = 0 => a.pkt < expectPkt
        PROVE  StoredUpTo(up', expectPkt')
    <3> DEFINE v == Append(up, a)
    <3>1. /\ \A i \in DOMAIN up : v[i] = up[i]
          /\ \A i \in DOMAIN v : i \in DOMAIN up \/ i = Len(up) + 1
          /\ v[Len(up) + 1] = a
      BY <1>1, AppendFacts
    <3> HIDE DEF v
    <3>2. StoredUpTo(v, expectPkt)
      BY <2>1, <2>3, <3>1 DEF StoredUpTo
    <3> QED BY <2>1, <2>3, <3>2 DEF v
  <2> QED BY <2>2, <2>3
<1>4. phase' = phase /\ pktIndex' = pktIndex
  BY DEF sessionVars
<1>5. Ahead' /\ AckedChunksAreStored'
  BY <1>4 DEF DriftInv, Ahead, AckedChunksAreStored
<1> QED BY <1>2, <1>3, <1>5 DEF DriftInv

(* UPDATE_START begins the image anew: nothing newer can be in flight but  *)
(* the first chunk, and the session has not moved past any.                *)
LEMMA StartDrift ==
  ASSUME DriftInv, RoundInv', UNCHANGED sessionVars, down # <<>>, down' = Tail(down),
         Head(down).cmd = "UPDATE_START", expectPkt' = 0,
         NEW a \in AnswerFrame, up' = Append(up, a), a.re = "UPDATE_START"
  PROVE  DriftInv'
<1> DEFINE f == Head(down)
           v == Append(up, a)
<1>1. /\ RoundInv /\ down \in Seq(RequestFrame) /\ up \in Seq(AnswerFrame)
      /\ pktIndex \in Nat /\ SessionStage \in Nat
  BY Typed DEF DriftInv
<1>2. f = down[1] /\ 1 \in DOMAIN down /\ ReqStage(f) = 1
  BY <1>1, TailFacts DEF ReqStage, Stage
<1>3. phase' = phase /\ pktIndex' = pktIndex
  BY DEF sessionVars
<1>4. /\ \A i \in DOMAIN up : v[i] = up[i]
      /\ \A i \in DOMAIN v : i \in DOMAIN up \/ i = Len(up) + 1
      /\ v[Len(up) + 1] = a
  BY <1>1, AppendFacts
<1>5. \A i \in DOMAIN Tail(down) : i + 1 \in DOMAIN down /\ Tail(down)[i] = down[i + 1]
  BY <1>1, TailFacts
<1>6. phase \in Running => 1 \in SessionStage - 1 .. SessionStage
  BY <1>1, <1>2 DEF RoundInv, Near
<1>7. phase # "IDLE"
  BY <1>1, <1>2 DEF RoundInv
<1> HIDE DEF f, v
<1>8. StoredUpTo(v, 0)
  <2> SUFFICES ASSUME NEW i \in DOMAIN v,
                      v[i].cmd = "UPDATE_ACK", v[i].re = "UPDATE_DATA"
               PROVE  FALSE
    BY DEF StoredUpTo
  <2>1. i \in DOMAIN up /\ v[i] = up[i]
    BY <1>4
  <2>2. AnsStage(up[i]) <= 1
    BY <1>1, <1>2, <2>1 DEF RoundInv, Wires, Sorted, IsAck
  <2>3. up[i].pkt \in Nat
    <3>1. up[i] \in AnswerFrame
      BY <1>1, <2>1
    <3> QED BY <3>1, NChunksAssumption DEF AnswerFrame, PktType
  <2> QED BY <2>1, <2>2, <2>3 DEF AnsStage, Stage
<1>9. NoGap(Tail(down), 0)
  <2> SUFFICES ASSUME NEW i \in DOMAIN Tail(down), Tail(down)[i].cmd = "UPDATE_DATA"
               PROVE  Tail(down)[i].pkt = 0
    BY DEF NoGap
  <2>1. i + 1 \in DOMAIN down /\ Tail(down)[i] = down[i + 1]
    BY <1>5
  <2>2. ReqStage(down[i + 1]) <= 2
    BY <1>2, <2>1 DEF DriftInv, Spread
  <2>3. down[i + 1].pkt \in Nat
    <3>1. down[i + 1] \in RequestFrame
      BY <1>1, <2>1
    <3> QED BY <3>1, NChunksAssumption DEF RequestFrame, PktType
  <2> QED BY <2>1, <2>2, <2>3 DEF ReqStage, Stage
<1>10. /\ phase = "ENTER_BOOT" => SessionStage = 0
       /\ phase = "FLASH" => SessionStage = 2 + pktIndex
       /\ phase = "END" => SessionStage = NChunks + 2
  BY <1>1, PhaseStage DEF RoundInv
<1>11. Ahead'
  BY <1>1, <1>3, <1>6, <1>7, <1>10 DEF Ahead, Running
<1>12. AckedChunksAreStored'
  BY <1>1, <1>3, <1>6, <1>10, NChunksAssumption DEF AckedChunksAreStored, Running
<1>13. Spread(down')
  BY <1>1, TailKeeps DEF DriftInv
<1> QED BY <1>8, <1>9, <1>11, <1>12, <1>13 DEF DriftInv, v

(* A chunk is written: the one the node expects, so what follows it is a   *)
(* repetition of it.                                                       *)
LEMMA WriteDrift ==
  ASSUME DriftInv, RoundInv', UNCHANGED sessionVars, down # <<>>, down' = Tail(down),
         Head(down).cmd = "UPDATE_DATA", Head(down).pkt = expectPkt,
         fwStarted, expectPkt' = expectPkt + 1,
         NEW a \in AnswerFrame, up' = Append(up, a), a.pkt = expectPkt
  PROVE  DriftInv'
<1> DEFINE f == Head(down)
           v == Append(up, a)
<1>1. /\ RoundInv /\ down \in Seq(RequestFrame) /\ up \in Seq(AnswerFrame)
      /\ pktIndex \in Nat /\ SessionStage \in Nat /\ expectPkt \in Nat
  BY Typed DEF DriftInv
<1>2. f = down[1] /\ 1 \in DOMAIN down /\ ReqStage(f) = 2 + expectPkt
  BY <1>1, TailFacts DEF ReqStage, Stage
<1>3. phase' = phase /\ pktIndex' = pktIndex
  BY DEF sessionVars
<1>4. /\ \A i \in DOMAIN up : v[i] = up[i]
      /\ \A i \in DOMAIN v : i \in DOMAIN up \/ i = Len(up) + 1
      /\ v[Len(up) + 1] = a
  BY <1>1, AppendFacts
<1>5. \A i \in DOMAIN Tail(down) : i + 1 \in DOMAIN down /\ Tail(down)[i] = down[i + 1]
  BY <1>1, TailFacts
<1>6. phase \in Running => 2 + expectPkt \in SessionStage - 1 .. SessionStage
  BY <1>1, <1>2 DEF RoundInv, Near
<1>7. StoredUpTo(up, expectPkt) /\ NoGap(down, expectPkt)
  BY DEF DriftInv
<1> HIDE DEF f, v
<1>8. StoredUpTo(v, expectPkt + 1)
  <2> SUFFICES ASSUME NEW i \in DOMAIN v,
                      v[i].cmd = "UPDATE_ACK", v[i].re = "UPDATE_DATA", v[i].st = 0
               PROVE  v[i].pkt < expectPkt + 1
    BY DEF StoredUpTo
  <2>1. CASE i \in DOMAIN up
    <3>1. v[i] = up[i] /\ up[i].pkt < expectPkt
      BY <1>4, <1>7, <2>1 DEF StoredUpTo
    <3>2. up[i].pkt \in Nat
      <4>1. up[i] \in AnswerFrame
        BY <1>1, <2>1
      <4> QED BY <4>1, NChunksAssumption DEF AnswerFrame, PktType
    <3> QED BY <1>1, <3>1, <3>2
  <2>2. CASE i = Len(up) + 1
    BY <1>1, <1>4, <2>2
  <2> QED BY <1>4, <2>1, <2>2
<1>9. NoGap(Tail(down), expectPkt + 1)
  <2> SUFFICES ASSUME NEW i \in DOMAIN Tail(down), Tail(down)[i].cmd = "UPDATE_DATA"
               PROVE  Tail(down)[i].pkt = expectPkt
    BY <1>1 DEF NoGap
  <2>1. i + 1 \in DOMAIN down /\ Tail(down)[i] = down[i + 1] /\ 1 < i + 1
    BY <1>1, <1>5
  <2>2. 2 + expectPkt <= ReqStage(down[i + 1])
    BY <1>1, <1>2, <2>1 DEF RoundInv, Wires, Sorted
  <2>3. down[i + 1].pkt \in {expectPkt, expectPkt - 1}
    BY <1>7, <2>1 DEF NoGap
  <2> QED BY <1>1, <2>1, <2>2, <2>3 DEF ReqStage, Stage
<1>10. /\ phase = "START" => SessionStage = 1
       /\ phase = "FLASH" => SessionStage = 2 + pktIndex
  BY <1>1, PhaseStage DEF RoundInv
<1>11. Ahead'
  <2>1. phase \notin {"IDLE", "ENTER_BOOT"}
    BY DEF DriftInv, Ahead
  <2>2. phase # "START"
    BY <1>1, <1>6, <1>10 DEF Running
  <2>3. phase = "FLASH" => expectPkt + 1 <= pktIndex + 1
    BY <1>1, <1>6, <1>10 DEF Running
  <2> QED BY <1>3, <2>1, <2>2, <2>3 DEF Ahead
<1>12. AckedChunksAreStored'
  BY <1>1, <1>3 DEF DriftInv, AckedChunksAreStored
<1>13. Spread(down')
  BY <1>1, TailKeeps DEF DriftInv
<1> QED BY <1>8, <1>9, <1>11, <1>12, <1>13 DEF DriftInv, v

LEMMA DispatchDrift ==
  ASSUME DriftInv, RoundInv', Dispatch, UNCHANGED sessionVars
  PROVE  DriftInv'
<1> DEFINE f == Head(down)
<1>1. RoundInv /\ down # <<>> /\ down' = Tail(down)
  BY DEF DriftInv, Dispatch
<1>2. f \in RequestFrame /\ GoodRequest(f) /\ expectPkt \in Nat
  <2>1. f = down[1] /\ f \in RequestFrame /\ 1 \in DOMAIN down
    BY <1>1, TailFacts DEF RoundInv, Wires
  <2> QED BY <1>1, <2>1, Typed DEF RoundInv, Wires
<1>3. \/ HandleEnterBoot(f) \/ HandleStart(f) \/ HandleData(f)
      \/ HandleEnd(f) \/ HandleAbort(f) \/ HandleUnknown(f)
  BY DEF Dispatch
<1> HIDE DEF f
<1>4. /\ 0 \in PktType
      /\ \A err \in Nat : Answer("NACK", f.cmd, 0, err, 3, Me) \in AnswerFrame
      /\ \A st \in Nat : Answer("UPDATE_ACK", f.cmd, 0, st, 1, Me) \in AnswerFrame
      /\ \A st \in Nat : Answer("UPDATE_ACK", "UPDATE_DATA", f.pkt, st, 3, Me) \in AnswerFrame
      /\ Answer("BOOT_ACK", "ENTER_BOOT", 0, 1, 1, Me) \in AnswerFrame
      /\ Answer("ACK", "ABORT_BOOT", 0, 0, 2, Me) \in AnswerFrame
  BY <1>2, NChunksAssumption, AnswerIsFrame DEF PktType, Answers, Requests, RequestFrame
<1>5. ASSUME NEW a \in AnswerFrame, Reply(a), fwStarted' => fwStarted /\ expectPkt' = expectPkt,
             \/ a.cmd # "UPDATE_ACK" \/ a.re # "UPDATE_DATA" \/ a.st # 0
             \/ fwStarted /\ a.pkt < expectPkt
      PROVE  DriftInv'
  BY <1>1, <1>5, NothingStored DEF Reply
<1>6. ASSUME NEW err \in Nat, Nack(f, err), fwStarted' => fwStarted /\ expectPkt' = expectPkt
      PROVE  DriftInv'
  <2> DEFINE a == Answer("NACK", f.cmd, 0, err, 3, Me)
  <2>1. a \in AnswerFrame /\ a.cmd = "NACK" /\ Reply(a)
    BY <1>4, <1>6 DEF Nack, Answer
  <2> HIDE DEF a
  <2> QED BY <1>5, <1>6, <2>1
<1>7. ASSUME NEW st \in Nat, Ack1(f, st), f.cmd # "UPDATE_DATA",
             fwStarted' => fwStarted /\ expectPkt' = expectPkt
      PROVE  DriftInv'
  <2> DEFINE a == Answer("UPDATE_ACK", f.cmd, 0, st, 1, Me)
  <2>1. a \in AnswerFrame /\ a.re = f.cmd /\ Reply(a)
    BY <1>4, <1>7 DEF Ack1, Answer
  <2> HIDE DEF a
  <2> QED BY <1>5, <1>7, <2>1
<1>8. ASSUME NEW st \in Nat, Ack3(f, st), fwStarted' => fwStarted /\ expectPkt' = expectPkt,
             st = 0 => fwStarted /\ f.pkt < expectPkt
      PROVE  DriftInv'
  <2> DEFINE a == Answer("UPDATE_ACK", "UPDATE_DATA", f.pkt, st, 3, Me)
  <2>1. a \in AnswerFrame /\ a.st = st /\ a.pkt = f.pkt /\ Reply(a)
    BY <1>4, <1>8 DEF Ack3, Answer
  <2> HIDE DEF a
  <2> QED BY <1>5, <1>8, <2>1
<1>9. CASE HandleEnterBoot(f)
  <2>1. fwStarted' => fwStarted /\ expectPkt' = expectPkt
    BY <1>9 DEF HandleEnterBoot
  <2>2. CASE Nack(f, 17)
    BY <1>6, <2>1, <2>2
  <2>3. CASE Reply(Answer("BOOT_ACK", "ENTER_BOOT", 0, 1, 1, Me))
    <3> DEFINE a == Answer("BOOT_ACK", "ENTER_BOOT", 0, 1, 1, Me)
    <3>1. a \in AnswerFrame /\ a.cmd = "BOOT_ACK" /\ Reply(a)
      BY <1>4, <2>3 DEF Answer
    <3> HIDE DEF a
    <3> QED BY <1>5, <2>1, <3>1
  <2> QED BY <1>9, <2>2, <2>3 DEF HandleEnterBoot
<1>10. CASE HandleStart(f)
  <2>1. f.cmd = "UPDATE_START"
    BY <1>10 DEF HandleStart
  <2>2. CASE Ack1(f, 1) /\ (fwStarted' => fwStarted /\ expectPkt' = expectPkt)
    BY <1>7, <2>1, <2>2
  <2>3. CASE Ack1(f, 0) /\ expectPkt' = 0
    <3> DEFINE a == Answer("UPDATE_ACK", f.cmd, 0, 0, 1, Me)
    <3>1. a \in AnswerFrame /\ a.re = "UPDATE_START" /\ up' = Append(up, a)
      BY <1>4, <2>1, <2>3 DEF Ack1, Answer, Reply
    <3> HIDE DEF a
    <3> QED BY <1>1, <2>1, <2>3, <3>1, StartDrift DEF f
  <2> QED BY <1>10, <2>2, <2>3 DEF HandleStart
<1>11. CASE HandleData(f)
  <2>1. f.cmd = "UPDATE_DATA"
    BY <1>11 DEF HandleData
  <2>2. CASE Nack(f, 2) /\ Unwritten
    BY <1>6, <2>2 DEF Unwritten
  <2>3. CASE Unwritten /\ \E st \in {1, 2, 3} : Ack3(f, st)
    BY <1>8, <2>3 DEF Unwritten
  <2>4. CASE fwStarted /\ f.pkt + 1 = expectPkt /\ Ack3(f, 0) /\ Unwritten
    <3>1. f.pkt < expectPkt
      BY <1>2, <2>4 DEF RequestFrame, PktType
    <3> QED BY <1>8, <2>4, <3>1 DEF Unwritten
  <2>5. CASE fwStarted /\ f.pkt = expectPkt /\ expectPkt' = expectPkt + 1 /\ Ack3(f, 0)
    <3> DEFINE a == Answer("UPDATE_ACK", "UPDATE_DATA", f.pkt, 0, 3, Me)
    <3>1. a \in AnswerFrame /\ a.pkt = expectPkt /\ up' = Append(up, a)
      BY <1>4, <2>5 DEF Ack3, Answer, Reply
    <3> HIDE DEF a
    <3> QED BY <1>1, <2>1, <2>5, <3>1, WriteDrift DEF f
  <2> QED BY <1>11, <2>2, <2>3, <2>4, <2>5 DEF HandleData
<1>12. CASE HandleEnd(f)
  <2>1. f.cmd = "UPDATE_END"
    BY <1>12 DEF HandleEnd
  <2>2. \/ Nack(f, 2) /\ Unwritten
        \/ ~ fwStarted' /\ \E st \in {0, 1, 4} : Ack1(f, st)
    BY <1>12 DEF HandleEnd, AbortLocal
  <2> QED BY <1>6, <1>7, <2>1, <2>2 DEF Unwritten
<1>13. CASE HandleAbort(f)
  <2> DEFINE a == Answer("ACK", "ABORT_BOOT", 0, 0, 2, Me)
  <2>1. a \in AnswerFrame /\ a.cmd = "ACK" /\ Reply(a) /\ ~ fwStarted'
    BY <1>4, <1>13 DEF Answer, HandleAbort, AbortLocal
  <2> HIDE DEF a
  <2> QED BY <1>5, <2>1
<1>14. CASE HandleUnknown(f)
  BY <1>6, <1>14 DEF HandleUnknown, Unwritten
<1> QED BY <1>3, <1>9, <1>10, <1>11, <1>12, <1>13, <1>14

LEMMA BusDrift ==
  ASSUME DriftInv, RoundInv', BusStep
  PROVE  DriftInv'
<1>1. UNCHANGED sessionVars /\ RoundInv
  BY DEF BusStep, DriftInv
<1>2. CASE Dispatch
  BY <1>1, <1>2, DispatchDrift
<1>3. CASE DispatchDamaged
  <2> DEFINE a == Answer("NACK", Head(down).cmd, 0, 1, 3, Me)
  <2>1. /\ down # <<>> /\ down' = Tail(down) /\ fwStarted' = fwStarted /\ expectPkt' = expectPkt
        /\ up' = Append(up, a)
    BY <1>3 DEF DispatchDamaged, Nack, Reply, nodeVars
  <2>2. Head(down) \in RequestFrame
    BY <1>1, <2>1, TailFacts DEF RoundInv, Wires
  <2>3. a \in AnswerFrame /\ a.cmd = "NACK"
    BY <2>2, NackForm DEF Answer
  <2> HIDE DEF a
  <2> QED BY <1>1, <2>1, <2>3, NothingStored
<1>4. CASE LoseRequest
  <2>1. /\ down # <<>> /\ down' = Tail(down) /\ fwStarted' = fwStarted /\ expectPkt' = expectPkt
        /\ up' = up
    BY <1>4 DEF LoseRequest, nodeVars
  <2> QED BY <1>1, <2>1, NothingStored
<1>5. CASE NodeRestart
  <2>1. down' = down /\ up' = up /\ ~ fwStarted'
    BY <1>5 DEF NodeRestart, wireVars
  <2> QED BY <1>1, <2>1, NothingStored
<1>6. CASE NodeTimeout \/ SisterSpeaks
  <2>1. /\ down' = down /\ (fwStarted' => fwStarted /\ expectPkt' = expectPkt)
        /\ \/ Reply(Answer("BOOT_ERROR", "none", 0, 254, 1, Me))
           \/ \E s \in Sisters : \/ Reply(Answer("NACK", "UPDATE_DATA", 0, 255, 3, s))
                                 \/ Reply(Answer("BOOT_ERROR", "none", 0, 254, 1, s))
    BY <1>6 DEF NodeTimeout, SisterSpeaks, AbortLocal, nodeVars
  <2>2. 0 \in PktType
    BY NChunksAssumption DEF PktType
  <2>3. PICK a \in AnswerFrame : a.cmd # "UPDATE_ACK" /\ up' = Append(up, a)
    <3>1. \A s \in Sisters \cup {Me} :
            LET e == Answer("BOOT_ERROR", "none", 0, 254, 1, s)
                n == Answer("NACK", "UPDATE_DATA", 0, 255, 3, s)
            IN  /\ e \in AnswerFrame /\ n \in AnswerFrame
                /\ e.cmd # "UPDATE_ACK" /\ n.cmd # "UPDATE_ACK"
      BY <2>2 DEF Answer, AnswerFrame, Answers, Requests
    <3> QED BY <2>1, <3>1 DEF Reply
  <2> QED BY <1>1, <2>1, <2>3, NothingStored
<1> QED BY <1>2, <1>3, <1>4, <1>5, <1>6 DEF BusStep, NodeNext, NodeStep

-----------------------------------------------------------------------------
LEMMA DriftInductive == DriftInv /\ LastChunkTellsItself /\ [Next]_vars => DriftInv'
<1> SUFFICES ASSUME DriftInv, LastChunkTellsItself, [Next]_vars
             PROVE  DriftInv'
  OBVIOUS
<1>1. RoundInv'
  BY RoundInductive DEF DriftInv
<1>2. CASE ServiceStep
  BY <1>1, <1>2, CallsDrift
<1>3. CASE BusStep
  BY <1>1, <1>3, BusDrift
<1>4. CASE UNCHANGED vars
  BY <1>1, <1>4, NothingStored DEF vars, nodeVars, wireVars
<1> QED BY <1>2, <1>3, <1>4 DEF Next

LEMMA InitDrift == Init => DriftInv
<1> SUFFICES ASSUME Init
             PROVE  DriftInv
  OBVIOUS
<1>1. down = <<>> /\ phase = "IDLE" /\ ~ fwStarted
  BY DEF Init, WireInit, SessionInit, NodeInit
<1>2. RoundInv
  BY InitRound
<1> QED BY <1>1, <1>2 DEF DriftInv, Spread, Ahead, AckedChunksAreStored

(* The invariant of the model is a part of this one.                       *)
LEMMA DriftIsInvariant == DriftInv => IInv
<1> SUFFICES ASSUME DriftInv
             PROVE  IInv
  OBVIOUS
<1>1. RoundInv /\ LocalInv /\ Wires(down, up, image)
  BY DEF DriftInv, RoundInv
<1>2. TypeOK /\ StoreInv /\ CommittedImageIsWhole
  BY <1>1 DEF LocalInv
<1>3. WireInv
  BY <1>1 DEF RoundInv, Wires, Quiet, Truthful, WireInv, GoodAnswer
<1>4. OrderInv
  BY <1>1 DEF Wires, Sorted, OrderInv, ReqStage, AnsStage, DownStage, UpStage
<1>5. WindowInv
  BY <1>1 DEF RoundInv, Near, WindowInv, ReqStage, AnsStage, DownStage, UpStage
<1>6. AckInv /\ NodeNeverSeesGap
  BY DEF DriftInv, StoredUpTo, NoGap, AckInv, NodeNeverSeesGap
<1>7. AckedChunksAreStored /\ DoneMeansCommitted
  BY <1>1 DEF DriftInv, RoundInv
<1> QED BY <1>2, <1>3, <1>4, <1>5, <1>6, <1>7 DEF IInv

(* The whole invariant of the update holds, for images of every size whose *)
(* last chunk has a number that does not end in a zero byte.               *)
THEOREM InvariantHolds == LastChunkTellsItself /\ Spec => []IInv
<1>1. DriftInv => IInv
  BY DriftIsInvariant
<1>2. /\ DriftInv /\ LastChunkTellsItself
      /\ [Next]_vars
      => (DriftInv /\ LastChunkTellsItself)'
  BY DriftInductive DEF LastChunkTellsItself
<1> QED BY <1>1, <1>2, InitDrift, PTL DEF Spec

(* The bytes shown as sent are stored as long as the node receives them,   *)
(* and no chunk is ever refused as out of order.                           *)
THEOREM SidesStayTogether ==
  LastChunkTellsItself /\ Spec => []AckedChunksAreStored /\ []NodeNeverSeesGap
<1>1. IInv => AckedChunksAreStored /\ NodeNeverSeesGap
  BY DEF IInv
<1> QED BY <1>1, InvariantHolds, PTL
=============================================================================
