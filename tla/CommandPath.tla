----------------------------- MODULE CommandPath -----------------------------
(***************************************************************************)
(* The way of a command from Service.send_cmd to the bus and of its        *)
(* answer back: the transmit queue of a BridgeWorker, the FeedbackTracker  *)
(* that matches ACK and NACK with the commands that wait for them, and the *)
(* sweep that repeats a command that got no answer in time.                *)
(*                                                                         *)
(* Four kinds of threads meet here: the callers of send_cmd (GUI, REST and *)
(* game clients), the bridge worker, the poll thread that sweeps, and the  *)
(* thread that starts an OTA session.  One action is one stretch of code   *)
(* that no other thread can divide.  The age of a command is abstracted:   *)
(* the sweep may find any registered command older than FEEDBACK_TIMEOUT_S. *)
(***************************************************************************)
EXTENDS Integers, Sequences, FiniteSets, SequencesExt

CONSTANTS
  Commands,      \* the commands sent, each by a thread of its own
  Keys,          \* the keys (bridge, addr, cmd) of the tracker
  KeyOf,         \* the key of each command
  Priority,      \* the TX_PRIORITY_* of each command, the smallest goes first
  Awaited,       \* the commands sent with expect_feedback
  MaxResends,    \* max_retries of sweep_timeouts
  Troubles       \* what may happen on the way, see AllTroubles

AllTroubles == {
  "loss",        \* a frame or an answer is lost
  "nack",        \* the node refuses a command
  "ota",         \* an OTA session runs on the bridge for a while
  "link" }       \* the link breaks and comes back

ASSUME FiniteAssumption == IsFiniteSet(Commands) /\ IsFiniteSet(Keys)
ASSUME KeysAssumption == KeyOf \in [Commands -> Keys]
ASSUME PriorityAssumption == Priority \in [Commands -> Nat]
ASSUME AwaitedAssumption == Awaited \subseteq Commands
ASSUME ResendsAssumption == MaxResends \in Nat
ASSUME TroublesAssumption == Troubles \subseteq AllTroubles

VARIABLES
  pc,            \* how far the caller of each command has come
  txq,           \* _tx_queue, in the order of the numbers from _tx_seq
  linkUp,        \* link.connected
  ota,           \* an OTA session runs on this bridge
  pending,       \* _pending: for each key the commands that wait, oldest first
  sweep,         \* where sweep_timeouts stands
  expired,       \* its list of expired commands
  tries,         \* pc.retries of each command
  down, up,      \* the frames and the answers on their way
  answers,       \* auxiliary: how often the node gave each answer to each key
  verdict        \* the final reports on each command: "OO", "PP", "TIMEOUT"

vars == <<pc, txq, linkUp, ota, pending, sweep, expired, tries,
          down, up, answers, verdict>>

CallerPlaces == {"idle", "admitted", "queued", "returned", "refused"}
Codes == {"OO", "PP", "TIMEOUT"}

TypeOK ==
  /\ pc \in [Commands -> CallerPlaces]
  /\ txq \in Seq(Commands)
  /\ linkUp \in BOOLEAN /\ ota \in BOOLEAN
  /\ pending \in [Keys -> Seq(Awaited)]
  /\ sweep \in {"idle", "deciding", "resending", "registering"}
  /\ expired \in Seq(Awaited)
  /\ tries \in [Commands -> 0 .. MaxResends]
  /\ down \in Seq(Commands)
  /\ up \in Seq([cmd : Commands, ok : BOOLEAN])
  /\ answers \in [Keys -> [{"OO", "PP"} -> Nat]]
  /\ verdict \in [Commands -> Seq(Codes)]

Init ==
  /\ pc = [c \in Commands |-> "idle"]
  /\ txq = <<>>
  /\ linkUp = TRUE /\ ota = FALSE
  /\ pending = [k \in Keys |-> <<>>]
  /\ sweep = "idle"
  /\ expired = <<>>
  /\ tries = [c \in Commands |-> 0]
  /\ down = <<>> /\ up = <<>>
  /\ answers = [k \in Keys |-> [a \in {"OO", "PP"} |-> 0]]
  /\ verdict = [c \in Commands |-> <<>>]

trackerVars == <<pending, sweep, expired, tries, verdict>>
busVars     == <<down, up, answers>>
callerVars  == <<pc, txq>>

-----------------------------------------------------------------------------
(* The caller: Service.send_cmd and BridgeWorker.send.                     *)

(* The checks: the link is up and no OTA session runs.  What is checked    *)
(* here is not held until the command is queued.                           *)
Admit(c) ==
  /\ pc[c] = "idle"
  /\ pc' = [pc EXCEPT ![c] = IF linkUp /\ ~ ota THEN "admitted" ELSE "refused"]
  /\ UNCHANGED <<txq, linkUp, ota, trackerVars, busVars>>

(* The number and the queue have locks of their own, but a number that is  *)
(* not in the queue yet has no effect: the two steps are one here.         *)
PutQueue(c) ==
  /\ pc[c] = "admitted"
  /\ pc' = [pc EXCEPT ![c] = IF c \in Awaited THEN "queued" ELSE "returned"]
  /\ txq' = Append(txq, c)
  /\ UNCHANGED <<linkUp, ota, trackerVars, busVars>>

(* feedback.expect(): only now can an answer be matched.                   *)
Expect(c) ==
  /\ pc[c] = "queued"
  /\ pc' = [pc EXCEPT ![c] = "returned"]
  /\ pending' = [pending EXCEPT ![KeyOf[c]] = Append(@, c)]
  /\ UNCHANGED <<txq, linkUp, ota, sweep, expired, tries, verdict, busVars>>

-----------------------------------------------------------------------------
(* The worker.                                                             *)

(* The queue gives out the smallest priority first, and among equals the   *)
(* smallest number.                                                        *)
IsNext(i) ==
  \A j \in DOMAIN txq :
    \/ Priority[txq[i]] < Priority[txq[j]]
    \/ Priority[txq[i]] = Priority[txq[j]] /\ i <= j

PutOnBus(c) == down' = Append(down, c)

(* _tx_one_frame(): the next item of the queue, when the link is up.       *)
Transmit(i) ==
  /\ linkUp /\ IsNext(i)
  /\ txq' = RemoveAt(txq, i)
  /\ PutOnBus(txq[i])
  /\ UNCHANGED <<pc, linkUp, ota, trackerVars>>
  /\ UNCHANGED <<up, answers>>

(* The link breaks while the item is sent: it is not put back.             *)
TransmitLost(i) ==
  /\ "link" \in Troubles
  /\ linkUp /\ IsNext(i)
  /\ txq' = RemoveAt(txq, i)
  /\ linkUp' = FALSE
  /\ UNCHANGED <<pc, ota, trackerVars, busVars>>

Conclude(c, code) == verdict' = [verdict EXCEPT ![c] = Append(@, code)]

Code(ok) == IF ok THEN "OO" ELSE "PP"

(* Variants with a bug: the command stays registered after its answer; one *)
(* answer concludes every command with the key.                            *)
ResolveAgain(k, ok) ==
  IF pending[k] # <<>>
  THEN Conclude(Head(pending[k]), Code(ok)) /\ UNCHANGED pending
  ELSE UNCHANGED <<pending, verdict>>

ResolveAll(k, ok) ==
  /\ pending' = [pending EXCEPT ![k] = <<>>]
  /\ verdict' = [c \in Commands |->
       IF c \in ToSet(pending[k]) THEN Append(verdict[c], Code(ok)) ELSE verdict[c]]

(* _resolve(): the oldest command with the key takes the answer.  Nobody   *)
(* registers a broadcast, so its second lookup finds nothing.              *)
Resolve(k, ok) ==
  IF pending[k] # <<>>
  THEN /\ pending' = [pending EXCEPT ![k] = Tail(@)]
       /\ Conclude(Head(pending[k]), Code(ok))
  ELSE UNCHANGED <<pending, verdict>>

ReadAnswer ==
  /\ up # <<>>
  /\ up' = Tail(up)
  /\ Resolve(KeyOf[Head(up).cmd], Head(up).ok)
  /\ UNCHANGED <<callerVars, linkUp, ota, sweep, expired, tries>>
  /\ UNCHANGED <<down, answers>>

-----------------------------------------------------------------------------
(* sweep_timeouts(), in the poll thread.                                   *)

Places == {p \in Keys \X (1 .. Cardinality(Commands)) : p[2] <= Len(pending[p[1]])}

(* Under the lock, the commands of old are taken out of pending: those of  *)
(* one key oldest first, the keys in any order.                            *)
Collect(old) ==
  /\ sweep = "idle"
  /\ old # {} /\ old \subseteq Places
  /\ \E ps \in SetToSeqs(old) :
       /\ \A i, j \in DOMAIN ps : i < j /\ ps[i][1] = ps[j][1] => ps[i][2] < ps[j][2]
       /\ expired' = [i \in DOMAIN ps |-> pending[ps[i][1]][ps[i][2]]]
  /\ pending' = [k \in Keys |->
                   LET keep == {i \in DOMAIN pending[k] : <<k, i>> \notin old}
                       at(n) == CHOOSE i \in keep : Cardinality({j \in keep : j <= i}) = n
                   IN  [n \in 1 .. Cardinality(keep) |-> pending[k][at(n)]]]
  /\ sweep' = "deciding"
  /\ UNCHANGED <<callerVars, linkUp, ota, tries, verdict, busVars>>

(* Without the lock, each of them is repeated or given up.                 *)
NextExpired ==
  /\ expired' = Tail(expired)
  /\ sweep' = IF Len(expired) = 1 THEN "idle" ELSE "deciding"

(* Variant with a bug: one repetition too many.                            *)
ResendAllowedOnceMore(c) == tries[c] <= MaxResends /\ linkUp /\ ~ ota

ResendAllowed(c) == tries[c] < MaxResends /\ linkUp /\ ~ ota

Decide ==
  /\ sweep = "deciding"
  /\ IF ResendAllowed(Head(expired))
     THEN sweep' = "resending" /\ UNCHANGED <<expired, verdict>>
     ELSE Conclude(Head(expired), "TIMEOUT") /\ NextExpired
  /\ UNCHANGED <<callerVars, linkUp, ota, pending, tries, busVars>>

(* _resend_feedback() writes to the link past the transmit queue.          *)
Resend ==
  /\ sweep = "resending"
  /\ IF linkUp
     THEN PutOnBus(Head(expired)) /\ sweep' = "registering" /\ UNCHANGED <<expired, verdict>>
     ELSE Conclude(Head(expired), "TIMEOUT") /\ NextExpired /\ UNCHANGED down
  /\ UNCHANGED <<callerVars, linkUp, ota, pending, tries>>
  /\ UNCHANGED <<up, answers>>

(* Variant with a bug: a repeated command is not registered again.         *)
RegisterNot ==
  /\ sweep = "registering"
  /\ NextExpired
  /\ UNCHANGED <<callerVars, linkUp, ota, pending, tries, verdict, busVars>>

(* After the resend it is registered again, behind newer commands.         *)
Register ==
  /\ sweep = "registering"
  /\ tries' = [tries EXCEPT ![Head(expired)] = @ + 1]
  /\ pending' = [pending EXCEPT ![KeyOf[Head(expired)]] = Append(@, Head(expired))]
  /\ NextExpired
  /\ UNCHANGED <<callerVars, linkUp, ota, verdict, busVars>>

-----------------------------------------------------------------------------
(* The node carries out a command and answers it, or refuses it.           *)
NodeAnswers ==
  /\ down # <<>>
  /\ down' = Tail(down)
  /\ \E ok \in IF "nack" \in Troubles THEN BOOLEAN ELSE {TRUE} :
       /\ up' = Append(up, [cmd |-> Head(down), ok |-> ok])
       /\ answers' = [answers EXCEPT ![KeyOf[Head(down)]][Code(ok)] = @ + 1]
  /\ UNCHANGED <<callerVars, linkUp, ota, trackerVars>>

LoseFrame ==
  /\ "loss" \in Troubles
  /\ \/ down # <<>> /\ down' = Tail(down) /\ UNCHANGED up
     \/ up # <<>> /\ up' = Tail(up) /\ UNCHANGED down
  /\ UNCHANGED <<callerVars, linkUp, ota, trackerVars, answers>>

ToggleOta ==
  /\ "ota" \in Troubles
  /\ ota' = ~ ota
  /\ UNCHANGED <<callerVars, linkUp, trackerVars, busVars>>

ToggleLink ==
  /\ "link" \in Troubles
  /\ linkUp' = ~ linkUp
  /\ UNCHANGED <<callerVars, ota, trackerVars, busVars>>

CallerStep(c) == Admit(c) \/ PutQueue(c) \/ Expect(c)
SweepStep == Decide \/ Resend \/ Register

Next ==
  \/ \E c \in Commands : CallerStep(c)
  \/ \E i \in DOMAIN txq : Transmit(i) \/ TransmitLost(i)
  \/ ReadAnswer
  \/ \E old \in SUBSET Places : Collect(old)
  \/ SweepStep
  \/ NodeAnswers
  \/ LoseFrame
  \/ ToggleOta
  \/ ToggleLink

Spec == Init /\ [][Next]_vars

(* The threads run; a command that stays registered grows old, and the     *)
(* poll thread, which sweeps in every twentieth turn, finds it.            *)
Fairness ==
  /\ \A c \in Commands : WF_vars(CallerStep(c))
  /\ WF_vars(SweepStep)
  /\ \A c \in Awaited :
       SF_vars(\E old \in SUBSET Places :
                 /\ \E p \in old : pending[p[1]][p[2]] = c
                 /\ Collect(old))

FairSpec == Spec /\ Fairness

-----------------------------------------------------------------------------
(* A command is reported on at most once, although its answer, the answers *)
(* to its repetitions and the sweep all compete to conclude it.            *)
OneVerdict == \A c \in Commands : Len(verdict[c]) <= 1

(* No answer is used twice, and none for the other verdict: of the         *)
(* commands with one key, no more are reported as carried out (refused)    *)
(* than the node has carried out (refused).  In particular "OO" is true of *)
(* a command that shares its key with no other.                            *)
AnswersUsedOnce ==
  \A k \in Keys, a \in {"OO", "PP"} :
    Cardinality({c \in Commands : KeyOf[c] = k /\ verdict[c] # <<>> /\ verdict[c][1] = a})
      <= answers[k][a]

(* Every command that waits for feedback gets a final report.              *)
EveryCommandConcluded ==
  \A c \in Awaited : pc[c] = "returned" ~> verdict[c] # <<>>
=============================================================================
