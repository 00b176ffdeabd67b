----------------------------- MODULE AutoAssign ------------------------------
(***************************************************************************)
(* The automatic assignment of addresses (gui/load_form.py): every known   *)
(* node gets a temporary address; then the operator touches the nodes one  *)
(* after the other and each gets the next number.                          *)
(*                                                                         *)
(* The procedure is a set of callbacks that start each other with          *)
(* QTimer.singleShot and run one at a time in the GUI thread.  Times are   *)
(* left out: a callback that is due runs some time later.  One procedure   *)
(* is followed; colours and the log are left out.                          *)
(*                                                                         *)
(* Addressing shows what the service and the nodes do meanwhile.  Here a   *)
(* worker may learn of any address at any time (Hear), within a bound.     *)
(***************************************************************************)
EXTENDS Integers, Sequences, FiniteSets, SequencesExt

CONSTANTS
  Nodes,         \* the nodes the registry knows: their MACs, which are ordered
  Bridges,       \* the bridges of the service
  Home,          \* the bridge each node hangs on
  MaxAddr,       \* the largest address: 0xFE
  TempBase,      \* the first temporary address: 0xE0
  MaxSurprises   \* bound: broken links and answers with an unexpected address

ASSUME NodesAssumption == Nodes \subseteq Nat \ {0} /\ IsFiniteSet(Nodes)
ASSUME HomeAssumption == Home \in [Nodes -> Bridges]
ASSUME AddrAssumption ==
  {MaxAddr, TempBase, MaxSurprises} \subseteq Nat /\ MaxAddr > 0 /\ TempBase <= MaxAddr

VARIABLES
  addr,          \* the address of each node in the registry
  named,         \* nodes that have an address in _addr_to_mac of their worker
  link,          \* link.connected
  phase,         \* off; giving temporary addresses; _auto_assign_active
  targets,       \* _target_list
  tempClear,     \* calls of _assign_temp_address that are due: of which node,
                 \* and whether a link was down when it was due before
  tempSet,       \* calls of its _do_set that are due, likewise (two of one
                 \* node that were both put off count as one)
  counter,       \* _counter_address
  assigned,      \* _assigned_macs
  pending,       \* _pending_macs
  processing,    \* _processing
  kicks,         \* calls of _process_queue that are due
  jobs,          \* the address of the _do_assign that is due for a node, else 0
  stopping,      \* the _stop_auto_assign after the last number is due
  gave,          \* auxiliary: the address a node was given, else 0
  announced,     \* auxiliary: "all nodes got an address" was logged
  surprises      \* number of surprises so far

serviceVars == <<addr, named, link, surprises>>
tempVars    == <<targets, tempClear, tempSet>>
queueVars   == <<assigned, pending, processing, kicks, jobs>>
resultVars  == <<gave, announced, stopping>>
vars        == <<serviceVars, phase, tempVars, counter, queueVars, resultVars>>

(* What the registry may hold: with many nodes a temporary address is too  *)
(* large for a byte.                                                       *)
Known == 0 .. MaxAddr + Cardinality(Nodes)

TypeOK ==
  /\ addr \in [Nodes -> Known] /\ named \subseteq Nodes
  /\ link \in [Bridges -> BOOLEAN] /\ surprises \in 0 .. MaxSurprises
  /\ phase \in {"off", "temp", "on"}
  /\ targets \subseteq Nodes
  /\ tempClear \subseteq targets \X BOOLEAN /\ tempSet \subseteq targets \X BOOLEAN
  /\ counter \in 1 .. MaxAddr + Cardinality(Nodes)
  /\ assigned \subseteq targets
  /\ pending \in Seq(targets) /\ IsInjective(pending)
  /\ processing \in BOOLEAN /\ kicks \in 0 .. Cardinality(Nodes)
  /\ jobs \in [Nodes -> 0 .. MaxAddr]
  /\ gave \in [Nodes -> 0 .. MaxAddr] /\ announced \in BOOLEAN /\ stopping \in BOOLEAN

Init ==
  /\ addr = [m \in Nodes |-> 0] /\ named = {}
  /\ link = [b \in Bridges |-> TRUE] /\ surprises = 0
  /\ phase = "off" /\ targets = {} /\ tempClear = {} /\ tempSet = {}
  /\ counter = 1 /\ assigned = {} /\ pending = <<>> /\ processing = FALSE
  /\ kicks = 0 /\ jobs = [m \in Nodes |-> 0]
  /\ gave = [m \in Nodes |-> 0] /\ announced = FALSE /\ stopping = FALSE

-----------------------------------------------------------------------------
(* The service meanwhile.                                                  *)

Surprise == surprises < MaxSurprises /\ surprises' = surprises + 1

(* The dispatcher of a worker: a discovery, an acknowledgment or a status  *)
(* of a node, with the address it has or had.                              *)
Hear(m) ==
  /\ Surprise
  /\ \E a \in 0 .. MaxAddr :
       /\ addr' = [addr EXCEPT ![m] = a]
       /\ named' = IF a = 0 THEN named ELSE named \cup {m}
  /\ UNCHANGED <<link, phase, tempVars, counter, queueVars, resultVars>>

LinkBreaks(b) ==
  /\ Surprise /\ link[b] /\ link' = [link EXCEPT ![b] = FALSE]
  /\ UNCHANGED <<addr, named, phase, tempVars, counter, queueVars, resultVars>>

Reconnect(b) ==
  /\ ~ link[b] /\ link' = [link EXCEPT ![b] = TRUE]
  /\ UNCHANGED <<addr, named, surprises, phase, tempVars, counter, queueVars, resultVars>>

-----------------------------------------------------------------------------
(* Temporary addresses.                                                    *)

(* _do_start_auto_assign(): the nodes known on connected bridges.          *)
StartAutoAssign ==
  /\ targets = {}
  /\ targets' = {m \in Nodes : link[Home[m]]}
  /\ targets' # {}
  /\ phase' = "temp" /\ tempClear' = targets' \X {FALSE}
  /\ UNCHANGED <<serviceVars, tempSet, counter, queueVars, resultVars>>

(* The n-th node in the order of the MACs gets the n-th temporary address, *)
(* also when there is none.                                                *)
TempAddr(m) == TempBase + Cardinality({n \in targets : n < m})

(* _assign_temp_address(): CLEAR_ADDRESS and notify_cleared().  Without a  *)
(* link it is tried again up to five times, 800 ms apart.                  *)
TempAddressClear(m, late) ==
  /\ <<m, late>> \in tempClear
  /\ LET rest == tempClear \ {<<m, late>>}
     IN  IF link[Home[m]]
           THEN /\ tempClear' = rest
                /\ tempSet' = tempSet \cup {<<m, late>>} /\ named' = named \ {m}
           ELSE /\ \/ tempClear' = rest \cup {<<m, TRUE>>}
                   \/ late /\ tempClear' = rest
                /\ UNCHANGED <<tempSet, named>>
  /\ UNCHANGED <<addr, link, surprises, phase, targets, counter, queueVars, resultVars>>

(* Its _do_set(): the registry and the map are written without an answer.  *)
TempAddressSet(m, late) ==
  /\ <<m, late>> \in tempSet
  /\ tempSet' = tempSet \ {<<m, late>>}
  /\ IF link[Home[m]]
       THEN /\ named' = named \cup {m}
            /\ addr' = [addr EXCEPT ![m] = TempAddr(m)]
            /\ UNCHANGED tempClear
       ELSE tempClear' = tempClear \cup {<<m, TRUE>>} /\ UNCHANGED <<named, addr>>
  /\ UNCHANGED <<link, surprises, phase, targets, counter, queueVars, resultVars>>

TempAddress(m) ==
  \E late \in BOOLEAN : TempAddressClear(m, late) \/ TempAddressSet(m, late)

(* _activate_auto_assign(), which comes after the calls that went as       *)
(* planned; those that were put off may still be due, and stay so.  The    *)
(* nodes the worker knows no address of are tried again.                   *)
Activate ==
  /\ phase = "temp" /\ \A m \in targets : <<m, FALSE>> \notin tempClear \cup tempSet
  /\ tempClear' = tempClear \cup ((targets \ named) \X {FALSE})
  /\ phase' = IF targets \subseteq named THEN "on" ELSE "temp"
  /\ UNCHANGED <<serviceVars, targets, tempSet, counter, queueVars, resultVars>>

-----------------------------------------------------------------------------
(* The queue.                                                              *)

Queued(m) == \E i \in DOMAIN pending : pending[i] = m

(* Variant with a bug: a node that waits already is queued once more.      *)
TouchQueuesAgain(m) ==
  /\ phase = "on" /\ m \in targets \ assigned
  /\ pending' = Append(pending, m)
  /\ kicks' = IF processing THEN kicks ELSE kicks + 1
  /\ UNCHANGED <<serviceVars, phase, tempVars, counter, assigned, processing, jobs, resultVars>>

(* on_touch_event() of a touch that the worker or the registry could       *)
(* attribute to node m.                                                    *)
Touch(m) ==
  /\ phase = "on" /\ m \in targets \ assigned /\ ~ Queued(m)
  /\ pending' = Append(pending, m)
  /\ kicks' = IF processing THEN kicks ELSE kicks + 1
  /\ UNCHANGED <<serviceVars, phase, tempVars, counter, assigned, processing, jobs, resultVars>>

(* _stop_auto_assign()                                                     *)
StopAutoAssign == phase' = "off" /\ processing' = FALSE /\ pending' = <<>>

(* _assign_next_to_selected()                                              *)
AssignNextToSelected(m) ==
  \/ counter <= MaxAddr /\ Touch(m)
  \/ /\ phase = "on" /\ counter > MaxAddr /\ m \in targets \ assigned /\ ~ Queued(m)
     /\ StopAutoAssign
     /\ UNCHANGED <<serviceVars, tempVars, counter, assigned, kicks, jobs, resultVars>>

(* _process_queue().  The node is marked and cleared; its number is taken  *)
(* now and assigned 700 ms later.  Its branch for a node that is marked    *)
(* already is left out: no node is marked and waiting at the same time.    *)
ProcessNothing ==
  /\ phase # "on" \/ pending = <<>>
  /\ processing' = FALSE
  /\ UNCHANGED <<phase, pending, assigned, jobs, named>>

ProcessExhausted ==
  /\ phase = "on" /\ pending # <<>> /\ counter > MaxAddr
  /\ StopAutoAssign
  /\ UNCHANGED <<assigned, jobs, named>>

(* Variant with a bug: the node is not marked until it has its number.     *)
ProcessNextUnmarked ==
  LET m == Head(pending)
  IN  /\ phase = "on" /\ pending # <<>> /\ counter <= MaxAddr
      /\ processing' = TRUE
      /\ pending' = Tail(pending)
      /\ jobs' = [jobs EXCEPT ![m] = counter]
      /\ named' = IF link[Home[m]] THEN named \ {m} ELSE named
      /\ UNCHANGED <<phase, assigned>>

ProcessNext ==
  LET m == Head(pending)
  IN  /\ phase = "on" /\ pending # <<>> /\ counter <= MaxAddr
      /\ processing' = TRUE
      /\ pending' = Tail(pending)
      /\ assigned' = assigned \cup {m}
      /\ jobs' = [jobs EXCEPT ![m] = counter]
      /\ named' = IF link[Home[m]] THEN named \ {m} ELSE named
      /\ UNCHANGED phase

ProcessQueue ==
  /\ kicks > 0 /\ kicks' = kicks - 1
  /\ ProcessNothing \/ ProcessExhausted \/ ProcessNext
  /\ UNCHANGED <<addr, link, surprises, tempVars, counter, resultVars>>

-----------------------------------------------------------------------------
(* _do_assign(): assign_address() and what follows its answer.             *)

(* can_assign() and the check of the link in assign_address().             *)
CanAssign(m, a) ==
  /\ link[Home[m]]
  /\ \A n \in Nodes \ {m} : Home[n] = Home[m] => addr[n] # a

Assigned(m, a) ==
  /\ addr' = [addr EXCEPT ![m] = a]
  /\ gave' = [gave EXCEPT ![m] = a]
  /\ IF targets \subseteq assigned
       THEN stopping' = TRUE /\ announced' = TRUE /\ UNCHANGED kicks
       ELSE kicks' = kicks + 1 /\ UNCHANGED <<stopping, announced>>
  /\ UNCHANGED <<assigned, pending>>

(* Variant with a bug: the queue is not looked at again after a failure.   *)
NotAssignedStops(m) ==
  /\ assigned' = assigned \ {m}
  /\ pending' = <<m>> \o pending
  /\ UNCHANGED <<kicks, addr, resultVars>>

NotAssigned(m) ==
  /\ assigned' = assigned \ {m}
  /\ pending' = <<m>> \o pending
  /\ kicks' = kicks + 1
  /\ UNCHANGED <<addr, resultVars>>

DoAssign(m) ==
  /\ jobs[m] # 0
  /\ jobs' = [jobs EXCEPT ![m] = 0]
  /\ counter' = counter + 1
  /\ IF CanAssign(m, jobs[m]) THEN Assigned(m, jobs[m]) ELSE NotAssigned(m)
  /\ UNCHANGED <<named, link, surprises, phase, tempVars, processing>>

(* The timers after the last number, and the button of the operator.       *)
StopTimer ==
  /\ stopping /\ stopping' = FALSE
  /\ StopAutoAssign
  /\ UNCHANGED <<serviceVars, tempVars, counter, assigned, kicks, jobs, gave, announced>>

StopButton ==
  /\ phase = "on"
  /\ StopAutoAssign
  /\ UNCHANGED <<serviceVars, tempVars, counter, assigned, kicks, jobs, resultVars>>

-----------------------------------------------------------------------------
Next ==
  \/ StartAutoAssign \/ Activate \/ ProcessQueue \/ StopTimer \/ StopButton
  \/ \E m \in Nodes :
       \/ Hear(m) \/ TempAddress(m)
       \/ Touch(m) \/ AssignNextToSelected(m) \/ DoAssign(m)
  \/ \E b \in Bridges : LinkBreaks(b) \/ Reconnect(b)

Spec == Init /\ [][Next]_vars

(* A timer that is due runs; a link comes back.                            *)
FairSpec ==
  /\ Spec
  /\ WF_vars(Activate) /\ WF_vars(ProcessQueue) /\ WF_vars(StopTimer)
  /\ \A m \in Nodes :
       /\ WF_vars(DoAssign(m))
       /\ \A late \in BOOLEAN :
            WF_vars(TempAddressClear(m, late)) /\ WF_vars(TempAddressSet(m, late))
  /\ \A b \in Bridges : WF_vars(Reconnect(b))

-----------------------------------------------------------------------------
(* Properties.                                                             *)

(* A node that was given its number in this procedure is not given another *)
(* one, however often it is touched, selected, cleared or retried.         *)
NumberedOnce == [][\A m \in Nodes : gave[m] # 0 => gave'[m] = gave[m]]_vars

(* A node that was touched gets its number, or the procedure is over: the  *)
(* callbacks do not lose the thread, whatever fails on the way.            *)
TouchedIsNumbered ==
  \A m \in Nodes : Queued(m) ~> (gave[m] # 0 \/ phase # "on")

(* "All N nodes got an address" (the log of _do_assign), when everything   *)
(* that was due has run.  Two nodes that are touched before _process_queue *)
(* runs are processed at the same time with one number; the second is      *)
(* refused, and the procedure is stopped because both are marked.          *)
AllNumbered ==
  announced /\ ~ stopping /\ kicks = 0 /\ (\A m \in Nodes : jobs[m] = 0)
    => \A m \in targets : gave[m] # 0
=============================================================================
