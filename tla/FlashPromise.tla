---------------------------- MODULE FlashPromise -----------------------------
(***************************************************************************)
(* What a firmware update promises to the operator and to the node, with   *)
(* no frame, timer or retry in sight:                                      *)
(*   - the chunks of the image are written in order, each exactly once, or *)
(*     the whole attempt is dropped;                                       *)
(*   - only a complete image becomes the boot image;                       *)
(*   - success is reported only for a node that has committed the image;   *)
(*   - a verdict, once given, is never changed.                            *)
(* Failure may be reported at any time, even for a node that committed: a  *)
(* lost answer to UPDATE_END leaves the service no way to know.            *)
(***************************************************************************)
EXTENDS Integers, Sequences

CONSTANT NChunks

VARIABLES
  store,      \* the chunks written so far, in the order written
  boot,       \* the chunks of the committed image, <<>> if there is none
  verdict     \* what the operator has been told

promiseVars == <<store, boot, verdict>>

FullImage == [i \in 1 .. NChunks |-> i - 1]

Init ==
  /\ store = <<>>
  /\ boot = <<>>
  /\ verdict = "none"

WriteNext ==
  /\ Len(store) < NChunks
  /\ store' = Append(store, Len(store))
  /\ UNCHANGED <<boot, verdict>>

Drop ==
  /\ store' = <<>>
  /\ UNCHANGED <<boot, verdict>>

Commit ==
  /\ store = FullImage
  /\ boot' = FullImage
  /\ store' = <<>>
  /\ UNCHANGED verdict

ReportSuccess ==
  /\ verdict = "none"
  /\ boot = FullImage
  /\ verdict' = "success"
  /\ UNCHANGED <<store, boot>>

ReportFailure ==
  /\ verdict = "none"
  /\ verdict' = "failure"
  /\ UNCHANGED <<store, boot>>

Next == WriteNext \/ Drop \/ Commit \/ ReportSuccess \/ ReportFailure

Spec == Init /\ [][Next]_promiseVars
=============================================================================
