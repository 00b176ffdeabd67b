------------------------------ MODULE BatchOta -------------------------------
(***************************************************************************)
(* core/batch_ota.py with the panels that call it: a batch update gives    *)
(* each bridge a queue of nodes and flashes the next one when the event    *)
(* that ends a session is handled.  Everything here runs in the GUI thread *)
(* (MainWindow hands it the events), interleaved with the bridge workers.  *)
(*                                                                         *)
(* What a call of the GUI thread still has to do is in todo, one task for  *)
(* each stretch that another thread can observe; the next click or event   *)
(* is served when todo is empty.                                           *)
(***************************************************************************)
EXTENDS OtaBridge, FiniteSets, SequencesExt

CONSTANT MaxOrders   \* bound: batches and single updates the operator starts

ASSUME OrdersAssumption == MaxOrders \in Nat
ASSUME FiniteAssumption == IsFiniteSet(Nodes) /\ IsFiniteSet(Bridges)

VARIABLES
  active,        \* _active
  status,        \* the status of each BatchNodeStatus, "NONE" without one
  queue,         \* _queues
  done, failed,  \* _done_count, _failed_count
  todo,          \* the rest of the running call
  told,          \* what the operator was last told of a batch
  orders         \* how many updates were ordered

batchVars == <<active, status, queue, done, failed, todo, told, orders>>
vars == <<bridgeVars, batchVars>>

Targets == {m \in Nodes : status[m] # "NONE"}
TargetBridges == {Home[m] : m \in Targets}

Statuses == {"NONE", "PENDING", "FLASHING", "DONE", "FAILED", "SKIPPED"}
Report(kind, d, f) == [kind |-> kind, done |-> d, failed |-> f]

(* One task for each stretch of the code that another thread can observe.  *)
Kick(b)  == [op |-> "kick", bridge |-> b]
Start(m, batch) == [op |-> "start", mac |-> m, batch |-> batch]
Flag(m)  == [op |-> "flag", mac |-> m]
Begun    == [op |-> "begun"]

Tasks == {Kick(b) : b \in Bridges} \cup {Start(m, x) : m \in Nodes, x \in BOOLEAN}
           \cup {Flag(m) : m \in Nodes} \cup {Begun}

BatchTypeOK ==
  /\ active \in BOOLEAN
  /\ status \in [Nodes -> Statuses]
  /\ queue \in [Bridges -> Seq(Nodes)]
  /\ done \in Nat /\ failed \in Nat
  /\ todo \in Seq(Tasks)
  /\ told \in [kind : {"none", "started", "refused", "completed", "stopped"},
               done : Nat, failed : Nat]
  /\ orders \in 0 .. MaxOrders

BatchInit ==
  /\ active = FALSE
  /\ status = [m \in Nodes |-> "NONE"]
  /\ queue = [b \in Bridges |-> <<>>]
  /\ done = 0 /\ failed = 0
  /\ todo = <<>>
  /\ told = Report("none", 0, 0)
  /\ orders = 0

Init == BridgeInit /\ BatchInit

-----------------------------------------------------------------------------
(* Variant with a bug: the queues are not looked at.                       *)
BatchOverWhenIdle(q) == \A b \in TargetBridges : ~ OtaActive(b)

(* _check_finished(), after the counters became f and the queues q.        *)
BatchOver(q) == \A b \in TargetBridges : q[b] = <<>> /\ ~ OtaActive(b)

CheckFinished(q, f) ==
  IF active /\ BatchOver(q)
  THEN active' = FALSE /\ told' = Report("completed", done, f)
  ELSE UNCHANGED <<active, told>>

(* start(): the checks of the image aside, some bridge must be connected.  *)
BatchStart(macs) ==
  /\ todo = <<>> /\ ~ active
  /\ orders < MaxOrders
  /\ orders > 0 => "stop" \in Disturbances
  /\ macs # {} /\ \E m \in macs : linkUp[Home[m]]
  /\ orders' = orders + 1
  /\ active' = TRUE
  /\ done' = 0 /\ failed' = 0
  /\ status' = [m \in Nodes |-> IF m \in macs THEN "PENDING" ELSE "NONE"]
  /\ queue' = [b \in Bridges |-> SetToSeq({m \in macs : Home[m] = b})]
  /\ todo' = Append(SetToSeq({Kick(Home[m]) : m \in macs}), Begun)
  /\ UNCHANGED <<bridgeVars, told>>

(* The end of start(): a batch that began nowhere is refused.  No event is *)
(* handled in between, so a bridge has begun if and only if a node has the *)
(* status FLASHING: a failed start_ota leaves FAILED behind.               *)
BatchBegun ==
  /\ todo # <<>> /\ Head(todo) = Begun
  /\ todo' = Tail(todo)
  /\ IF \E m \in Nodes : status[m] = "FLASHING"
     THEN told' = Report("started", done, failed) /\ UNCHANGED active
     ELSE told' = Report("refused", done, failed) /\ active' = FALSE
  /\ UNCHANGED <<bridgeVars, status, queue, done, failed, orders>>

(* _kick_bridge() up to the call of start_ota.                             *)
KickBridge(b) ==
  /\ todo # <<>> /\ Head(todo) = Kick(b)
  /\ \/ /\ queue[b] = <<>>
        /\ CheckFinished(queue, failed)
        /\ todo' = Tail(todo)
        /\ UNCHANGED <<status, queue, failed>>
     \/ /\ queue[b] # <<>> /\ ~ linkUp[b]
        /\ LET lost == {m \in ToSet(queue[b]) : status[m] = "PENDING"}
               left == [queue EXCEPT ![b] = <<>>] IN
             /\ status' = [m \in Nodes |-> IF m \in lost THEN "FAILED" ELSE status[m]]
             /\ failed' = failed + Cardinality(lost)
             /\ queue' = left
             /\ CheckFinished(left, failed + Cardinality(lost))
        /\ todo' = Tail(todo)
     \/ /\ queue[b] # <<>> /\ linkUp[b] /\ OtaActive(b)
        /\ todo' = Tail(todo)
        /\ UNCHANGED <<active, status, queue, failed, told>>
     \/ /\ queue[b] # <<>> /\ linkUp[b] /\ ~ OtaActive(b)
        /\ queue' = [queue EXCEPT ![b] = Tail(@)]
        /\ status' = [status EXCEPT ![Head(queue[b])] = "FLASHING"]
        /\ todo' = <<Start(Head(queue[b]), TRUE)>> \o Tail(todo)
        /\ UNCHANGED <<active, failed, told>>
  /\ UNCHANGED <<bridgeVars, done, orders>>

(* start_ota(), and for a batch what _kick_bridge does when it fails.      *)
StartSession(m, batch) ==
  /\ todo # <<>> /\ Head(todo) = Start(m, batch)
  /\ \/ /\ StartOta(m)
        /\ todo' = <<Flag(m)>> \o Tail(todo)
        /\ UNCHANGED <<active, status, failed, told>>
     \/ /\ ~ OtaStartable(m) /\ ~ batch
        /\ todo' = Tail(todo)
        /\ UNCHANGED <<bridgeVars, active, status, failed, told>>
     \/ /\ ~ OtaStartable(m) /\ batch
        /\ status' = [status EXCEPT ![m] = "FAILED"]
        /\ failed' = failed + 1
        /\ IF queue[Home[m]] # <<>>
           THEN todo' = <<Kick(Home[m])>> \o Tail(todo) /\ UNCHANGED <<active, told>>
           ELSE todo' = Tail(todo) /\ CheckFinished(queue, failed + 1)
        /\ UNCHANGED bridgeVars
  /\ UNCHANGED <<queue, done, orders>>

FlagSession(m) ==
  /\ todo # <<>> /\ Head(todo) = Flag(m)
  /\ FlagOta(m)
  /\ todo' = Tail(todo)
  /\ UNCHANGED <<active, status, queue, done, failed, told, orders>>

-----------------------------------------------------------------------------
(* The pump of the GUI: the panel drops an event while no batch is active. *)
Ignored ==
  UNCHANGED <<active, status, queue, done, failed, todo, told, orders>>

OnProgress(e) ==
  /\ e.kind = "ota_progress"
  /\ status' = [status EXCEPT ![e.mac] = IF @ = "PENDING" THEN "FLASHING" ELSE @]
  /\ UNCHANGED <<active, queue, done, failed, todo, told, orders>>

(* Variant with a bug: the next node is started only after a success.      *)
OnErrorAlone(e) ==
  /\ e.kind = "ota_error"
  /\ IF status[e.mac] = "FLASHING"
     THEN status' = [status EXCEPT ![e.mac] = "FAILED"] /\ failed' = failed + 1
     ELSE UNCHANGED <<status, failed>>
  /\ UNCHANGED <<active, queue, done, todo, told, orders>>

(* Variants with a bug: the failure is not counted; the phase of the       *)
(* session is taken for the status; a failed node goes back to its queue.  *)
OnErrorUncounted(e) ==
  /\ e.kind = "ota_error"
  /\ status' = [status EXCEPT ![e.mac] = IF @ = "FLASHING" THEN "FAILED" ELSE @]
  /\ todo' = <<Kick(Home[e.mac])>>
  /\ UNCHANGED <<active, queue, done, failed, told, orders>>

OnErrorPhase(e) ==
  /\ e.kind = "ota_error"
  /\ status' = [status EXCEPT ![e.mac] = "ERROR"]
  /\ failed' = failed + 1
  /\ todo' = <<Kick(Home[e.mac])>>
  /\ UNCHANGED <<active, queue, done, told, orders>>

OnErrorRequeued(e) ==
  /\ e.kind = "ota_error"
  /\ status' = [status EXCEPT ![e.mac] = IF @ = "FLASHING" THEN "PENDING" ELSE @]
  /\ queue' = [queue EXCEPT ![Home[e.mac]] = Append(@, e.mac)]
  /\ todo' = <<Kick(Home[e.mac])>>
  /\ UNCHANGED <<active, done, failed, told, orders>>

OnError(e) ==
  /\ e.kind = "ota_error"
  /\ IF status[e.mac] = "FLASHING"
     THEN status' = [status EXCEPT ![e.mac] = "FAILED"] /\ failed' = failed + 1
     ELSE UNCHANGED <<status, failed>>
  /\ todo' = <<Kick(Home[e.mac])>>
  /\ UNCHANGED <<active, queue, done, told, orders>>

OnDone(e) ==
  /\ e.kind = "ota_done"
  /\ IF status[e.mac] = "FLASHING"
     THEN status' = [status EXCEPT ![e.mac] = "DONE"] /\ done' = done + 1
     ELSE UNCHANGED <<status, done>>
  /\ todo' = <<Kick(Home[e.mac])>>
  /\ UNCHANGED <<active, queue, failed, told, orders>>

HandleEvent ==
  /\ todo = <<>> /\ eq # <<>>
  /\ eq' = Tail(eq)
  /\ UNCHANGED <<linkUp, wanted, sess, ota, at, held, flag>>
  /\ IF active
     THEN OnProgress(Head(eq)) \/ OnError(Head(eq)) \/ OnDone(Head(eq))
     ELSE Ignored

-----------------------------------------------------------------------------
(* stop(): cancel what runs, skip what waits.  The queues stay as they are. *)
BatchStop ==
  /\ "stop" \in Disturbances
  /\ todo = <<>> /\ active
  /\ active' = FALSE
  /\ AbortOta({b \in TargetBridges : OtaActive(b)})
  /\ status' = [m \in Nodes |->
                  IF status[m] \in {"PENDING", "FLASHING"} THEN "SKIPPED" ELSE status[m]]
  /\ told' = Report("stopped", done, failed)
  /\ UNCHANGED <<linkUp, wanted, ota, at, held, flag, eq>>
  /\ UNCHANGED <<queue, done, failed, todo, orders>>

(* The OTA panel: update one node, cancel the update of its bridge.        *)
ManualStart(m) ==
  /\ "manual" \in Disturbances
  /\ todo = <<>>
  /\ orders < MaxOrders
  /\ orders' = orders + 1
  /\ todo' = <<Start(m, FALSE)>>
  /\ UNCHANGED <<bridgeVars, active, status, queue, done, failed, told>>

ManualAbort(b) ==
  /\ "manual" \in Disturbances
  /\ todo = <<>> /\ OtaActive(b)
  /\ AbortOta({b})
  /\ UNCHANGED <<linkUp, wanted, ota, at, held, flag, eq, batchVars>>

OperatorDisconnect(b) == todo = <<>> /\ Disconnect(b) /\ UNCHANGED batchVars

GuiTask ==
  \/ BatchBegun
  \/ \E b \in Bridges : KickBridge(b)
  \/ \E m \in Nodes : FlagSession(m) \/ \E x \in BOOLEAN : StartSession(m, x)

Operator ==
  \/ \E macs \in SUBSET Nodes : BatchStart(macs)
  \/ BatchStop
  \/ \E m \in Nodes : ManualStart(m)
  \/ \E b \in Bridges : ManualAbort(b) \/ OperatorDisconnect(b)

WorkerNext ==
  /\ \E b \in Bridges : WorkerStep(b) \/ Reconnect(b) \/ LinkLost(b)
  /\ UNCHANGED batchVars

Next == GuiTask \/ HandleEvent \/ Operator \/ WorkerNext

(* A thread that can move does; a session ends (OtaFlash says when it      *)
(* does).                                                                  *)
Fairness ==
  /\ WF_vars(GuiTask)
  /\ WF_vars(HandleEvent)
  /\ \A b \in Bridges :
       /\ WF_vars(WorkerStep(b) /\ UNCHANGED batchVars)
       /\ SF_vars(TickEnds(b) /\ UNCHANGED batchVars)

Spec == Init /\ [][Next]_vars
FairSpec == Spec /\ Fairness

TypeOK == BridgeTypeOK /\ BatchTypeOK

-----------------------------------------------------------------------------
(* No running session is ever abandoned: as long as it runs its worker     *)
(* drives it, so a bridge never carries two updates, although start_ota    *)
(* replaces and _finalize_ota drops sessions from different threads.       *)
NoOrphanSession ==
  \A s \in DOMAIN sess : Running(s) => ota[Home[sess[s].mac]] = s

(* The counters shown to the operator count the nodes with that verdict,   *)
(* as long as this batch is the only update ordered: a single update       *)
(* beside it, and events of a stopped batch that are handled in the next   *)
(* one, make a node count twice.                                           *)
CountsAreRight ==
  orders <= 1 =>
    /\ done = Cardinality({m \in Nodes : status[m] = "DONE"})
    /\ failed = Cardinality({m \in Nodes : status[m] = "FAILED"})

(* A verdict of the batch is the verdict of a session: a success always,   *)
(* a failure as long as no other order mixes in.                           *)
VerdictsAreTrue ==
  \A m \in Nodes :
    /\ status[m] = "DONE" => \E s \in DOMAIN sess : sess[s].mac = m /\ sess[s].state = "done"
    /\ status[m] = "FAILED" /\ orders <= 1 =>
         \A s \in DOMAIN sess : sess[s].mac = m => sess[s].state = "error"

(* A node is flashed at most once for each order that may name it.         *)
OncePerOrder ==
  \A m \in Nodes : Cardinality({s \in DOMAIN sess : sess[s].mac = m}) <= orders

(* When completion is reported no target is still waiting for its turn.    *)
NobodyLeftWaiting ==
  told.kind = "completed" /\ ~ active => \A m \in Nodes : status[m] # "PENDING"

(* A batch ends, whatever sessions, links and single updates do meanwhile. *)
BatchEnds == active ~> ~ active

(* "All nodes were flashed successfully" (the dialog of the batch panel    *)
(* when a batch completes without a failure).                              *)
AllFlashedIsTrue ==
  told.kind = "completed" /\ told.failed = 0 => told.done = Cardinality(Targets)
=============================================================================
