----------------------------- MODULE Addressing ------------------------------
(***************************************************************************)
(* How nodes get their addresses and how the service knows them: the       *)
(* NodeRegistry, the commands of RBusService and of the operator that set  *)
(* and clear an address, the poll loop, the dispatcher of the bridge       *)
(* worker, and the node's side (EepromMgr, deferred replies, discovery).   *)
(*                                                                         *)
(* The registry is written by three kinds of threads: the GUI before the   *)
(* node has heard of its address, the worker from answers that may be old, *)
(* and the GUI again when a bridge is disconnected.  A frame that leaves   *)
(* the transmit queue is handled by the nodes at once; answers travel.     *)
(*                                                                         *)
(* Of an update only what it does to addressing and polling is here: the   *)
(* commands it refuses, the node in OTA mode, which answers nothing but    *)
(* GET_STATUS, and the in_ota flag, which start_ota() and _finalize_ota()  *)
(* write in two threads and after the lock of the session is released.     *)
(*                                                                         *)
(* Left out: has_code, versions, touch masks (a node that answers has      *)
(* code); the request for the status of a node without address, which is   *)
(* broadcast and which no node answers; the maps by which a worker names   *)
(* the sender of a touch, see AutoAssign.                                  *)
(***************************************************************************)
EXTENDS Integers, Sequences, FiniteSets, SequencesExt

CONSTANTS
  Bridges,       \* the bridges of the service
  Nodes,         \* the nodes: their MACs, which are ordered
  Home,          \* the bridge each node hangs on
  MaxAddr,       \* the largest address: 0xFE
  Given,         \* the addresses the nodes may have been given before
  MaxClicks,     \* bound: clicks of the operator, after the first connect
  MaxFaults,     \* bound: lost frames, broken links, restarts
  BusBound,      \* bound: answers on the bus while the worker sends
  PollBound      \* bound: polls that wait in a transmit queue

ASSUME NodesAssumption == Nodes \subseteq Nat \ {0} /\ IsFiniteSet(Nodes)
ASSUME AddressHomeAssumption == Home \in [Nodes -> Bridges]
ASSUME GivenAssumption == Given \subseteq [Nodes -> 0 .. MaxAddr]
ASSUME BoundsAssumption ==
  MaxAddr \in Nat \ {0} /\ {MaxClicks, MaxFaults, BusBound, PollBound} \subseteq Nat

VARIABLES
  link,          \* link.connected
  wanted,        \* _want_connected
  ota,           \* the node and the address of the session that is active
  txq,           \* _tx_queue of each worker, oldest first
  bus,           \* answers on their way to each worker
  reg,           \* NodeRegistry._nodes
  rr,            \* _rr_index of each bridge
  paused,        \* _poll_pause_until of each bridge is not over
  marks,         \* calls of set_ota_flag() that are due
  naddr,         \* EEPROM address of each node
  disc,          \* g_discReplyPending of each node
  ack,           \* g_addrAckValue of a node with g_addrAckPending, else 0
  boot,          \* g_otaActive of each node
  gui,           \* the assign_address() that is between check and commit
  clicks,        \* number of clicks so far
  faults         \* number of faults so far

linkVars == <<link, wanted, ota>>
pollVars == <<rr, paused>>
nodeVars == <<naddr, disc, ack, boot>>
boundVars == <<clicks, faults>>
vars == <<linkVars, txq, bus, reg, marks, pollVars, nodeVars, gui, boundVars>>

NoNode == 0
Reserved == MaxAddr + 1                        \* 0xFF, the broadcast address
Addrs == 1 .. MaxAddr

Commands == [cmd : {"DISCOVERY_REQ", "SET_ADDRESS", "CLEAR_ADDRESS", "GET_STATUS"},
             mac : Nodes \cup {NoNode}, addr : 0 .. MaxAddr, prio : {0, 5, 10}]
Answers == [kind : {"DISCOVERY_RES", "ADDRESS_ACK", "STATUS"}, mac : Nodes, addr : 0 .. MaxAddr,
            in_ota : BOOLEAN]
Idle == [mac |-> NoNode, addr |-> 0]
Absent == [known |-> FALSE, addr |-> 0, dup |-> FALSE, in_ota |-> FALSE]

TypeOK ==
  /\ link \in [Bridges -> BOOLEAN] /\ wanted \in [Bridges -> BOOLEAN]
  /\ ota \in [Bridges -> [mac : Nodes \cup {NoNode}, addr : 0 .. MaxAddr]]
  /\ txq \in [Bridges -> Seq(Commands)]
  /\ bus \in [Bridges -> Seq(Answers)]
  /\ reg \in [Nodes -> [known : BOOLEAN, addr : 0 .. MaxAddr, dup : BOOLEAN, in_ota : BOOLEAN]]
  /\ rr \in [Bridges -> {0} \cup 0 .. Cardinality(Nodes) - 1]
  /\ paused \in [Bridges -> BOOLEAN]
  /\ marks \subseteq Nodes \X BOOLEAN
  /\ naddr \in [Nodes -> 0 .. MaxAddr]
  /\ disc \in [Nodes -> BOOLEAN]
  /\ ack \in [Nodes -> 0 .. MaxAddr]
  /\ boot \in [Nodes -> BOOLEAN]
  /\ gui \in [mac : Nodes \cup {NoNode}, addr : 0 .. MaxAddr]
  /\ clicks \in 0 .. MaxClicks /\ faults \in 0 .. MaxFaults

(* The service has just been started; the nodes keep the addresses they    *)
(* were given before, which may coincide.                                  *)
Init ==
  /\ link = [b \in Bridges |-> FALSE] /\ wanted = [b \in Bridges |-> FALSE]
  /\ ota = [b \in Bridges |-> Idle]
  /\ txq = [b \in Bridges |-> <<>>] /\ bus = [b \in Bridges |-> <<>>]
  /\ reg = [m \in Nodes |-> Absent]
  /\ rr = [b \in Bridges |-> 0] /\ paused = [b \in Bridges |-> FALSE]
  /\ marks = {}
  /\ naddr \in Given
  /\ disc = [m \in Nodes |-> FALSE] /\ ack = [m \in Nodes |-> 0]
  /\ boot = [m \in Nodes |-> FALSE]
  /\ gui = Idle
  /\ clicks = 0 /\ faults = 0

Click == clicks < MaxClicks /\ clicks' = clicks + 1 /\ UNCHANGED faults
Fault == faults < MaxFaults /\ faults' = faults + 1 /\ UNCHANGED clicks
ClickAndFault ==
  /\ clicks < MaxClicks /\ clicks' = clicks + 1
  /\ faults < MaxFaults /\ faults' = faults + 1

NodesOf(b) == {m \in Nodes : Home[m] = b}
OtaActive(b) == ota[b] # Idle

-----------------------------------------------------------------------------
(* NodeRegistry.                                                           *)

Shares(r, m) ==
  /\ r[m].known /\ r[m].addr # 0
  /\ \E n \in Nodes \ {m} : r[n].known /\ Home[n] = Home[m] /\ r[n].addr = r[m].addr

(* _recompute_dups()                                                       *)
RecomputeDups(r) == [m \in Nodes |-> [r[m] EXCEPT !.dup = Shares(r, m)]]

Entry(a, v) == [known |-> TRUE, addr |-> a, dup |-> FALSE, in_ota |-> v]

(* Variant with a bug: the duplicates are only looked for at the node.     *)
UpsertMarksOne(m, a, v) ==
  LET r == [reg EXCEPT ![m] = Entry(a, v)]
  IN  [r EXCEPT ![m].dup = Shares(r, m)]

(* Variant with a bug: a node that is known keeps the address it has.      *)
UpsertOnlyNew(m, a, v) ==
  RecomputeDups([reg EXCEPT ![m] = Entry(IF reg[m].known THEN reg[m].addr ELSE a, v)])

(* upsert_discovery, upsert_addr_ack, upsert_status: they differ in the    *)
(* flag in_ota, which only a status brings.                                *)
Upsert(m, a, v) == RecomputeDups([reg EXCEPT ![m] = Entry(a, v)])

(* set_ota_flag(), which is called after the lock that guards the session  *)
(* was released.                                                           *)
SetOtaFlag(m, v) ==
  /\ <<m, v>> \in marks /\ marks' = marks \ {<<m, v>>}
  /\ reg' = IF reg[m].known THEN [reg EXCEPT ![m].in_ota = v] ELSE reg
  /\ UNCHANGED <<linkVars, txq, bus, pollVars, nodeVars, gui, boundVars>>

(* remove_by_bridge(), and the same loop in LoadForm._toggle_bridge.       *)
RemoveByBridge(b) == [m \in Nodes |-> IF Home[m] = b THEN Absent ELSE reg[m]]

(* can_assign()                                                            *)
CanAssign(m, a) ==
  /\ a \notin {0, Reserved}
  /\ \A n \in Nodes \ {m} : ~(reg[n].known /\ Home[n] = Home[m] /\ reg[n].addr = a)

(* next_free_addr(): 0 when all are taken.                                 *)
NextFreeAddr(b) ==
  LET free == Addrs \ {reg[n].addr : n \in {n \in NodesOf(b) : reg[n].known}}
  IN  IF free = {} THEN 0 ELSE CHOOSE a \in free : \A c \in free : a <= c

-----------------------------------------------------------------------------
(* BridgeWorker.send(), for the queue and for what the dispatcher sends.   *)

Frame(cmd, m, a, prio) == [cmd |-> cmd, mac |-> m, addr |-> a, prio |-> prio]

Send(b, frames) ==
  txq' = IF OtaActive(b) THEN txq ELSE [txq EXCEPT ![b] = @ \o frames]

(* _tx_one_frame(), and what the nodes that hear the frame do.  SET and    *)
(* CLEAR are for the node with that MAC.  Nodes with the same address      *)
(* answer at the same time: at most one answer gets through.               *)
NextOut(b, i) ==
  \A j \in DOMAIN txq[b] :
    \/ txq[b][i].prio < txq[b][j].prio
    \/ txq[b][i].prio = txq[b][j].prio /\ i <= j

Answer(kind, m, a, v) == [kind |-> kind, mac |-> m, addr |-> a, in_ota |-> v]
Say(b, answers) == bus' = [bus EXCEPT ![b] = @ \o answers]

(* In OTA mode a node answers a request for its status, and nothing else.  *)
Running(hear) == {m \in hear : ~ boot[m]}

HandleDiscovery(b, hear) ==
  /\ disc' = [m \in Nodes |-> disc[m] \/ m \in Running(hear)]
  /\ UNCHANGED <<bus, naddr, ack, boot>>

HandleSetAddress(b, f, hear) ==
  /\ IF f.mac \in Running(hear) /\ f.addr \in Addrs
       THEN naddr' = [naddr EXCEPT ![f.mac] = f.addr] /\ ack' = [ack EXCEPT ![f.mac] = f.addr]
       ELSE UNCHANGED <<naddr, ack>>
  /\ UNCHANGED <<bus, disc, boot>>

HandleClearAddress(b, f, hear) ==
  /\ IF f.mac \in Running(hear)
       THEN /\ naddr' = [naddr EXCEPT ![f.mac] = 0]
            /\ Say(b, <<Answer("ADDRESS_ACK", f.mac, 0, FALSE)>>)
       ELSE UNCHANGED <<naddr, bus>>
  /\ UNCHANGED <<disc, ack, boot>>

HandleGetStatus(b, f, hear) ==
  LET called == {m \in hear : naddr[m] = f.addr}
  IN  /\ \/ called = {} /\ UNCHANGED bus
         \/ \E m \in called : Say(b, <<Answer("STATUS", m, naddr[m], boot[m])>>)
         \/ Cardinality(called) > 1 /\ UNCHANGED bus
      /\ UNCHANGED nodeVars

Handle(b, f, hear) ==
  \/ f.cmd = "DISCOVERY_REQ" /\ HandleDiscovery(b, hear)
  \/ f.cmd = "SET_ADDRESS" /\ HandleSetAddress(b, f, hear)
  \/ f.cmd = "CLEAR_ADDRESS" /\ HandleClearAddress(b, f, hear)
  \/ f.cmd = "GET_STATUS" /\ HandleGetStatus(b, f, hear)

TransmitTo(b, hear) ==
  /\ link[b] /\ Len(bus[b]) < BusBound
  /\ \E i \in DOMAIN txq[b] :
       /\ NextOut(b, i)
       /\ txq' = [txq EXCEPT ![b] = RemoveAt(@, i)]
       /\ Handle(b, txq[b][i], hear)
  /\ UNCHANGED <<linkVars, reg, marks, pollVars, gui>>

Transmit(b) == TransmitTo(b, NodesOf(b)) /\ UNCHANGED boundVars
TransmitMissed(b) == Fault /\ \E m \in NodesOf(b) : TransmitTo(b, NodesOf(b) \ {m})

-----------------------------------------------------------------------------
(* The node.                                                               *)

(* What a node says of itself, unless it is in OTA mode.                   *)
Tell(m, kind, a) ==
  /\ ~ boot[m] /\ Say(Home[m], <<Answer(kind, m, a, FALSE)>>)
  /\ UNCHANGED <<linkVars, txq, reg, marks, pollVars, boot, gui, boundVars>>

(* taskDeferredReplies: the address is read when the reply is sent.        *)
DeferredDiscovery(m) ==
  /\ disc[m] /\ disc' = [disc EXCEPT ![m] = FALSE]
  /\ Tell(m, "DISCOVERY_RES", naddr[m]) /\ UNCHANGED <<naddr, ack>>

DeferredAck(m) ==
  /\ ack[m] # 0 /\ ack' = [ack EXCEPT ![m] = 0]
  /\ Tell(m, "ADDRESS_ACK", ack[m]) /\ UNCHANGED <<naddr, disc>>

(* taskAutoDiscovery: a node without address, on a bus that is silent.     *)
AutoDiscovery(m) ==
  /\ naddr[m] = 0 /\ link[Home[m]]
  /\ txq[Home[m]] = <<>> /\ bus[Home[m]] = <<>>
  /\ Tell(m, "DISCOVERY_RES", 0) /\ UNCHANGED <<naddr, disc, ack>>

(* The address is in the EEPROM, the pending replies are not.              *)
Reboot(m) ==
  /\ disc' = [disc EXCEPT ![m] = FALSE] /\ ack' = [ack EXCEPT ![m] = 0]
  /\ boot' = [boot EXCEPT ![m] = FALSE]

NodeRestart(m) ==
  /\ Fault
  /\ disc[m] \/ ack[m] # 0 \/ boot[m]
  /\ Reboot(m)
  /\ UNCHANGED <<linkVars, txq, bus, reg, marks, pollVars, naddr, gui>>

(* ENTER_BOOT of the session reaches the node with the address it is for.  *)
EnterBoot(m) ==
  /\ OtaActive(Home[m]) /\ naddr[m] = ota[Home[m]].addr /\ ~ boot[m]
  /\ boot' = [boot EXCEPT ![m] = TRUE]
  /\ UNCHANGED <<linkVars, txq, bus, reg, marks, pollVars, naddr, disc, ack, gui, boundVars>>

(* The node aborts the update, or restarts with the new program.  Nothing  *)
(* forces it to: every frame that is for it puts off its time limit of 30  *)
(* or 180 s, and a discovery, every 10 s, is for every node.               *)
LeaveBoot(m) ==
  /\ boot[m]
  /\ \/ boot' = [boot EXCEPT ![m] = FALSE] /\ UNCHANGED <<disc, ack>>
     \/ Reboot(m)
  /\ UNCHANGED <<linkVars, txq, bus, reg, marks, pollVars, naddr, gui, boundVars>>

-----------------------------------------------------------------------------
(* BridgeWorker._auto_dispatch, of the answers above.                      *)

AskStatus(b, a) == Send(b, IF a = 0 THEN <<>> ELSE <<Frame("GET_STATUS", NoNode, a, 0)>>)

Receive(b) ==
  /\ link[b] /\ bus[b] # <<>>
  /\ LET x == Head(bus[b])
     IN  /\ reg' = Upsert(x.mac, x.addr,
                           IF x.kind = "STATUS" THEN x.in_ota ELSE reg[x.mac].in_ota)
         /\ IF x.kind = "STATUS" THEN UNCHANGED txq ELSE AskStatus(b, x.addr)
  /\ bus' = [bus EXCEPT ![b] = Tail(@)]
  /\ UNCHANGED <<linkVars, marks, pollVars, nodeVars, gui, boundVars>>

LoseAnswer(b) ==
  /\ Fault /\ bus[b] # <<>>
  /\ bus' = [bus EXCEPT ![b] = Tail(@)]
  /\ UNCHANGED <<linkVars, txq, reg, marks, pollVars, nodeVars, gui>>

-----------------------------------------------------------------------------
(* The poll thread: _poll_loop and broadcast_discovery.                    *)

(* The nodes polled on a bridge, and the place of a node among them: by    *)
(* address, and those that share one in a fixed order.                     *)
Polled(b) == {m \in NodesOf(b) : reg[m].known /\ reg[m].addr # 0 /\ ~ reg[m].in_ota}

PollPlace(b, m) ==
  Cardinality({n \in Polled(b) : \/ reg[n].addr < reg[m].addr
                                 \/ reg[n].addr = reg[m].addr /\ n < m})

(* Variant with a bug: the index starts over too early.                    *)
NextIndexShort(i, n) == (i + 1) % (IF n = 1 THEN 1 ELSE n - 1)

(* Variant with a bug: the index does not start over.                      *)
NextIndexRuns(i, n) == i + 1

NextIndex(i, n) == (i + 1) % n

PollsIn(b) == {i \in DOMAIN txq[b] : txq[b][i].prio = 10}
OnlyPolls(b) == PollsIn(b) = DOMAIN txq[b]

(* The loop goes on after POLL_TIMEOUT_S whether or not the poll has left  *)
(* the queue or was answered; PollBound says how far it gets ahead.        *)
PollOf(b, targets) ==
  /\ link[b] /\ ~ OtaActive(b) /\ ~ paused[b]
  /\ Cardinality(PollsIn(b)) < PollBound
  /\ \E m \in Polled(b) \cap targets :
       LET n   == Cardinality(Polled(b))
           idx == rr[b] % n
       IN  /\ PollPlace(b, m) = idx
           /\ rr' = [rr EXCEPT ![b] = NextIndex(idx, n)]
           /\ Send(b, <<Frame("GET_STATUS", NoNode, reg[m].addr, 10)>>)
  /\ UNCHANGED <<linkVars, bus, reg, marks, paused, nodeVars, gui, boundVars>>

Poll(b) == PollOf(b, Nodes)

(* send_cmd(), called by other threads, keeps the loop from polling the    *)
(* bridge for 150 ms; its frame changes nothing that is modelled here.     *)
SendCmd(b) ==
  /\ Click /\ link[b] /\ paused' = [paused EXCEPT ![b] = TRUE]
  /\ UNCHANGED <<linkVars, txq, bus, reg, marks, rr, nodeVars, gui>>

PauseEnds(b) ==
  /\ paused[b] /\ paused' = [paused EXCEPT ![b] = FALSE]
  /\ UNCHANGED <<linkVars, txq, bus, reg, marks, rr, nodeVars, gui, boundVars>>

(* Every 10 s, when what goes ahead of the polls has left the queue.       *)
BroadcastDiscovery(b) ==
  /\ link[b] /\ ~ OtaActive(b) /\ OnlyPolls(b)
  /\ Send(b, <<Frame("DISCOVERY_REQ", NoNode, 0, 5)>>)
  /\ UNCHANGED <<linkVars, bus, reg, marks, pollVars, nodeVars, gui, boundVars>>

-----------------------------------------------------------------------------
(* The operator: LoadForm.  The GUI has one thread; other threads run      *)
(* between the check of assign_address() and what it does afterwards.      *)

GuiFree == gui = Idle

AssignCheck(m, a) ==
  /\ CanAssign(m, a)
  /\ gui' = [mac |-> m, addr |-> a]

(* The answer of send() is ignored: the registry is updated even when the  *)
(* command was refused.                                                    *)
AssignCommit ==
  LET b == Home[gui.mac]
  IN  /\ link[b]
      /\ Send(b, <<Frame("SET_ADDRESS", gui.mac, gui.addr, 5)>>)
      /\ reg' = Upsert(gui.mac, gui.addr, reg[gui.mac].in_ota)
      /\ gui' = Idle
      /\ UNCHANGED <<linkVars, bus, marks, pollVars, nodeVars, boundVars>>

AssignRefused ==
  /\ ~ link[Home[gui.mac]]
  /\ gui' = Idle
  /\ UNCHANGED <<linkVars, txq, bus, reg, marks, pollVars, nodeVars, boundVars>>

(* _assign_addr() of an address typed in or suggested by _suggest_addr().  *)
AssignAddr(m) ==
  /\ GuiFree /\ Click /\ reg[m].known
  /\ \E a \in Addrs : AssignCheck(m, a)
  /\ UNCHANGED <<linkVars, txq, bus, reg, marks, pollVars, nodeVars>>

SuggestedAddr(m) ==
  /\ GuiFree /\ Click /\ reg[m].known
  /\ NextFreeAddr(Home[m]) # 0 /\ AssignCheck(m, NextFreeAddr(Home[m]))
  /\ UNCHANGED <<linkVars, txq, bus, reg, marks, pollVars, nodeVars>>

AssignEnds == ~ GuiFree /\ (AssignCommit \/ AssignRefused)

(* _clear_addr(), which leaves the registry to the answer of the node;     *)
(* _clear_all_addresses() sends the command to one node after the other,   *)
(* ahead of the other commands in the queue.                               *)
ClearAddr(m) ==
  /\ GuiFree /\ Click /\ reg[m].known /\ link[Home[m]]
  /\ \/ Send(Home[m], <<Frame("CLEAR_ADDRESS", m, 0, 5)>>)
     \/ reg[m].addr # 0 /\ Send(Home[m], <<Frame("CLEAR_ADDRESS", m, 0, 0)>>)
  /\ UNCHANGED <<linkVars, bus, reg, marks, pollVars, nodeVars, gui>>

(* _toggle_bridge()                                                        *)
ConnectBridge(b) ==
  /\ GuiFree /\ ~ link[b]
  /\ wanted' = [wanted EXCEPT ![b] = TRUE]
  /\ link' = [link EXCEPT ![b] = TRUE]
  /\ Send(b, <<Frame("DISCOVERY_REQ", NoNode, 0, 5)>>)
  /\ UNCHANGED <<ota, bus, reg, marks, pollVars, nodeVars, gui, boundVars>>

DisconnectBridge(b) ==
  /\ GuiFree /\ Click /\ link[b]
  /\ wanted' = [wanted EXCEPT ![b] = FALSE]
  /\ link' = [link EXCEPT ![b] = FALSE]
  /\ reg' = RemoveByBridge(b)
  /\ UNCHANGED <<ota, txq, bus, marks, pollVars, nodeVars, gui>>

(* Troubles of the link.                                                   *)
LinkBreaks(b) ==
  /\ Fault /\ link[b] /\ link' = [link EXCEPT ![b] = FALSE]
  /\ UNCHANGED <<wanted, ota, txq, bus, reg, marks, pollVars, nodeVars, gui>>

Reconnect(b) ==
  /\ wanted[b] /\ ~ link[b] /\ link' = [link EXCEPT ![b] = TRUE]
  /\ UNCHANGED <<wanted, ota, txq, bus, reg, marks, pollVars, nodeVars, gui, boundVars>>

(* An update that begins and ends; it uses up a click and a fault.  A      *)
(* session that is replaced before the worker saw its end is never         *)
(* finalized: the flag it was to reset stays.                              *)
OtaBegins(b) ==
  /\ ClickAndFault /\ link[b] /\ ~ OtaActive(b)
  /\ \E m \in NodesOf(b), never \in SUBSET (NodesOf(b) \X {FALSE}) :
       /\ reg[m].known /\ reg[m].addr # 0
       /\ ota' = [ota EXCEPT ![b] = [mac |-> m, addr |-> reg[m].addr]]
       /\ marks' = (marks \ never) \cup {<<m, TRUE>>}
  /\ UNCHANGED <<link, wanted, txq, bus, reg, pollVars, nodeVars, gui>>

OtaEnds(b) ==
  /\ OtaActive(b) /\ ota' = [ota EXCEPT ![b] = Idle]
  /\ marks' = marks \cup {<<ota[b].mac, FALSE>>}
  /\ UNCHANGED <<link, wanted, txq, bus, reg, pollVars, nodeVars, gui, boundVars>>

-----------------------------------------------------------------------------
Next ==
  \/ \E b \in Bridges :
       \/ Transmit(b) \/ TransmitMissed(b) \/ Receive(b) \/ LoseAnswer(b)
       \/ Poll(b) \/ SendCmd(b) \/ PauseEnds(b) \/ BroadcastDiscovery(b)
       \/ ConnectBridge(b) \/ DisconnectBridge(b) \/ LinkBreaks(b) \/ Reconnect(b)
       \/ OtaBegins(b) \/ OtaEnds(b)
  \/ \E m \in Nodes :
       \/ DeferredDiscovery(m) \/ DeferredAck(m) \/ AutoDiscovery(m) \/ NodeRestart(m)
       \/ EnterBoot(m) \/ LeaveBoot(m) \/ \E v \in BOOLEAN : SetOtaFlag(m, v)
       \/ AssignAddr(m) \/ SuggestedAddr(m) \/ ClearAddr(m)
  \/ AssignEnds

Spec == Init /\ [][Next]_vars

(* A poll leaves the queue.                                                *)
TransmitPoll(b) == OnlyPolls(b) /\ Transmit(b)

(* The threads turn, the nodes answer, a link that is wanted comes back,   *)
(* an update and a pause end.  The faults are bounded, so losses stop.     *)
(* A discovery comes every ten seconds, whatever the queue holds, and      *)
(* polls leave in between: strong, for other frames go ahead of them.      *)
Fairness ==
  /\ \A b \in Bridges :
       /\ WF_vars(Transmit(b)) /\ WF_vars(Receive(b)) /\ WF_vars(Poll(b))
       /\ WF_vars(BroadcastDiscovery(b)) /\ SF_vars(TransmitPoll(b))
       /\ WF_vars(Reconnect(b)) /\ WF_vars(OtaEnds(b)) /\ WF_vars(PauseEnds(b))
  /\ \A m \in Nodes :
       /\ WF_vars(DeferredDiscovery(m)) /\ WF_vars(DeferredAck(m))
       /\ \A v \in BOOLEAN : WF_vars(SetOtaFlag(m, v))
  /\ WF_vars(AssignEnds)

FairSpec == Spec /\ Fairness

-----------------------------------------------------------------------------
(* Properties.                                                             *)

(* Two nodes of a bridge with one address are shown as duplicates, both,   *)
(* and nobody else is, whichever thread wrote the registry last.           *)
DupsAreFlagged == \A m \in Nodes : reg[m].dup = Shares(reg, m)

(* When the operator has stopped and losses have, the registry comes to    *)
(* hold the address of every node that is not in OTA mode for ever: a SET  *)
(* that was lost or refused, an answer that was old, do no lasting harm.   *)
RegistryHeals ==
  \A m \in Nodes :
    <>[] ~ boot[m] => <>[](reg[m].known => reg[m].addr = naddr[m])

(* No node that stays in the registry with an address of its own is passed *)
(* over by the round robin for ever, although the list it walks changes    *)
(* and the flag in_ota may be wrong after an update, as long as the nodes  *)
(* of its bridge do come out of OTA mode.                                  *)
PolledAgain ==
  \A m \in Nodes :
    <>[](/\ reg[m].known /\ reg[m].addr # 0 /\ ~ reg[m].dup
         /\ \A n \in NodesOf(Home[m]) : ~ boot[n])
      => []<><<PollOf(Home[m], {m})>>_vars
=============================================================================
