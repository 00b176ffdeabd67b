-------------------------- MODULE Addressing_proofs ---------------------------
(***************************************************************************)
(* For any bridges, nodes and bounds: the registry flags the duplicates    *)
(* and only them, whichever thread wrote it last; and every address, index *)
(* and frame stays in its range.                                           *)
(*                                                                         *)
(* The registry is written in four ways only: not at all, by Upsert, by    *)
(* RemoveByBridge and by set_ota_flag().  Upsert flags anew from scratch;  *)
(* a bridge that is removed takes all nodes with it that could share an    *)
(* address; the flag in_ota has nothing to do with addresses.              *)
(*                                                                         *)
(* The ranges (RestType) need two facts about the operators: the index of  *)
(* the poll is reduced by the number of nodes before it is used, and       *)
(* next_free_addr() has a least free address to return.                    *)
(***************************************************************************)
EXTENDS Addressing, FiniteSetTheorems, WellFoundedInduction, TLAPS

(* A registry whose entries have their four fields; which addresses they   *)
(* hold does not matter.                                                   *)
IsReg(r) ==
  /\ r = [m \in Nodes |-> [known |-> r[m].known, addr |-> r[m].addr, dup |-> r[m].dup,
                            in_ota |-> r[m].in_ota]]
  /\ \A m \in Nodes : r[m].known \in BOOLEAN /\ r[m].dup \in BOOLEAN

RegInv == IsReg(reg) /\ DupsAreFlagged

(* The ways the registry is written.                                       *)
RegWrite ==
  \/ UNCHANGED reg
  \/ \E m \in Nodes : \E a, v : reg' = Upsert(m, a, v)
  \/ \E m \in Nodes, v \in BOOLEAN : reg' = [reg EXCEPT ![m].in_ota = v]
  \/ \E b \in Bridges : reg' = RemoveByBridge(b)

-----------------------------------------------------------------------------
(* What is right for the registry a service starts with.                   *)
LEMMA InitReg == Init => RegInv
<1> SUFFICES ASSUME Init PROVE RegInv
  OBVIOUS
<1>1. \A m \in Nodes : reg[m] = [known |-> FALSE, addr |-> 0, dup |-> FALSE, in_ota |-> FALSE]
  BY DEF Init, Absent
<1>2. IsReg(reg)
  BY <1>1 DEF Init, Absent, IsReg
<1>3. \A m \in Nodes : reg[m].dup = FALSE /\ Shares(reg, m) = FALSE
  BY <1>1 DEF Shares
<1>4. DupsAreFlagged
  BY <1>3, Zenon DEF DupsAreFlagged
<1> QED BY <1>2, <1>4 DEF RegInv

(* _recompute_dups() flags the duplicates of any registry.                 *)
LEMMA RecomputeIsRight ==
  ASSUME NEW r, IsReg(r), reg' = RecomputeDups(r)
  PROVE  RegInv'
<1>1. ASSUME NEW m \in Nodes
      PROVE  reg'[m] = [known |-> r[m].known, addr |-> r[m].addr, dup |-> Shares(r, m),
                        in_ota |-> r[m].in_ota]
  <2>1. r[m] = [known |-> r[m].known, addr |-> r[m].addr, dup |-> r[m].dup,
                in_ota |-> r[m].in_ota]
    BY DEF IsReg
  <2>2. reg'[m] = [r[m] EXCEPT !.dup = Shares(r, m)]
    BY DEF RecomputeDups
  <2> QED BY <2>1, <2>2
<1>2. \A m \in Nodes : Shares(r, m) \in BOOLEAN
  BY Zenon DEF Shares
<1>3. ASSUME NEW m \in Nodes
      PROVE  /\ reg'[m].known = r[m].known /\ reg'[m].addr = r[m].addr
             /\ reg'[m].dup = Shares(r, m) /\ reg'[m].in_ota = r[m].in_ota
  <2> DEFINE k == r[m].known
             a == r[m].addr
             d == Shares(r, m)
             o == r[m].in_ota
             e == reg'[m]
  <2>1. e = [known |-> k, addr |-> a, dup |-> d, in_ota |-> o]
    BY <1>1
  <2> HIDE DEF k, a, d, o, e
  <2>2. e.known = k /\ e.addr = a /\ e.dup = d /\ e.in_ota = o
    BY <2>1
  <2> QED BY <2>2 DEF k, a, d, o, e
<1>4. ASSUME NEW m \in Nodes
      PROVE  reg'[m].dup = Shares(r, m)
  BY <1>3
<1>5. IsReg(reg')
  <2>1. reg' = [m \in Nodes |-> reg'[m]]
    BY DEF RecomputeDups
  <2>2. ASSUME NEW m \in Nodes
        PROVE  reg'[m] = [known |-> reg'[m].known, addr |-> reg'[m].addr, dup |-> reg'[m].dup,
                          in_ota |-> reg'[m].in_ota]
    BY <1>1, <1>3, Zenon
  <2>3. ASSUME NEW m \in Nodes
        PROVE  reg'[m].known \in BOOLEAN /\ reg'[m].dup \in BOOLEAN
    BY <1>2, <1>3, <1>4 DEF IsReg
  <2> QED BY <2>1, <2>2, <2>3 DEF IsReg
<1>6. ASSUME NEW m \in Nodes
      PROVE  Shares(reg', m) <=> Shares(r, m)
  <2>1. \A n \in Nodes : (reg'[n].known <=> r[n].known) /\ reg'[n].addr = r[n].addr
    BY <1>3
  <2> QED BY <2>1 DEF Shares
<1>7. DupsAreFlagged'
  <2>1. ASSUME NEW m \in Nodes
        PROVE  reg'[m].dup = Shares(reg', m)
    <3>1. Shares(reg', m) \in BOOLEAN /\ Shares(r, m) \in BOOLEAN
      BY Zenon DEF Shares
    <3>2. Shares(reg', m) = Shares(r, m)
      BY <1>6, <3>1
    <3> QED BY <1>4, <3>2
  <2> QED BY <2>1, Zenon DEF DupsAreFlagged
<1> QED BY <1>5, <1>7 DEF RegInv

(* An upsert, whatever address it brings.                                  *)
LEMMA UpsertKeeps ==
  ASSUME RegInv, NEW m \in Nodes, NEW a, NEW v, reg' = Upsert(m, a, v)
  PROVE  RegInv'
<1> DEFINE r == [reg EXCEPT ![m] = Entry(a, v)]
<1>1. IsReg(r)
  BY DEF RegInv, IsReg, Entry
<1>2. reg' = RecomputeDups(r)
  BY DEF Upsert
<1> HIDE DEF r
<1> QED BY <1>1, <1>2, RecomputeIsRight

(* Nodes of other bridges share nothing with those that are removed.       *)
LEMMA RemoveKeeps ==
  ASSUME RegInv, NEW b \in Bridges, reg' = RemoveByBridge(b)
  PROVE  RegInv'
<1>1. IsReg(reg')
  BY DEF RegInv, IsReg, RemoveByBridge, Absent
<1>2. ASSUME NEW m \in Nodes, Home[m] = b
      PROVE  ~ reg'[m].known /\ reg'[m].dup = FALSE
  BY <1>2 DEF RemoveByBridge, Absent
<1>3. ASSUME NEW m \in Nodes, Home[m] # b
      PROVE  reg'[m] = reg[m]
  BY <1>3 DEF RemoveByBridge
<1>4. ASSUME NEW m \in Nodes
      PROVE  reg'[m].dup = Shares(reg', m)
  <2>1. CASE Home[m] = b
    BY <1>2, <2>1 DEF Shares
  <2>2. CASE Home[m] # b
    <3>1. Shares(reg', m) <=> Shares(reg, m)
      BY <1>2, <1>3, <2>2 DEF Shares
    <3>2. reg[m].dup = Shares(reg, m)
      BY DEF RegInv, DupsAreFlagged
    <3> QED BY <3>1, <3>2, <1>3, <2>2 DEF Shares
  <2> QED BY <2>1, <2>2
<1>5. DupsAreFlagged'
  BY <1>4 DEF DupsAreFlagged
<1> QED BY <1>1, <1>5 DEF RegInv

(* set_ota_flag() leaves addresses and duplicates alone.                   *)
LEMMA FlagKeeps ==
  ASSUME RegInv, NEW m \in Nodes, NEW v \in BOOLEAN, reg' = [reg EXCEPT ![m].in_ota = v]
  PROVE  RegInv'
<1>1. IsReg(reg')
  BY DEF RegInv, IsReg
<1>2. \A n \in Nodes : /\ reg'[n].known = reg[n].known /\ reg'[n].addr = reg[n].addr
                       /\ reg'[n].dup = reg[n].dup
  BY DEF RegInv, IsReg
<1>3. ASSUME NEW n \in Nodes
      PROVE  reg'[n].dup = Shares(reg', n)
  <2>1. Shares(reg', n) <=> Shares(reg, n)
    BY <1>2 DEF Shares
  <2>2. Shares(reg', n) \in BOOLEAN /\ Shares(reg, n) \in BOOLEAN
    BY Zenon DEF Shares
  <2>3. reg[n].dup = Shares(reg, n)
    BY DEF RegInv, DupsAreFlagged
  <2> QED BY <1>2, <2>1, <2>2, <2>3
<1>4. DupsAreFlagged'
  BY <1>3, Zenon DEF DupsAreFlagged
<1> QED BY <1>1, <1>4 DEF RegInv

-----------------------------------------------------------------------------
(* Whom the answers on the bus and the assignment under way name: nodes.   *)
NamesInv ==
  /\ bus \in [Bridges -> Seq(Answers)]
  /\ naddr \in [Nodes -> 0 .. MaxAddr] /\ ack \in [Nodes -> 0 .. MaxAddr]
  /\ boot \in [Nodes -> BOOLEAN]
  /\ gui = Idle \/ gui.mac \in Nodes

Inv == RegInv /\ NamesInv

LEMMA InitNames == Init => NamesInv
  BY BoundsAssumption, GivenAssumption DEF Init, NamesInv

(* Appending answers, and taking the first one away.                       *)
LEMMA SayKeeps ==
  ASSUME NamesInv, NEW b, NEW s \in Seq(Answers), Say(b, s)
  PROVE  bus' \in [Bridges -> Seq(Answers)]
<1>1. ASSUME b \in Bridges
      PROVE  bus[b] \o s \in Seq(Answers)
  BY <1>1 DEF NamesInv
<1> QED BY <1>1 DEF NamesInv, Say

LEMMA TailKeeps ==
  ASSUME NamesInv, NEW b \in Bridges, bus[b] # <<>>, bus' = [bus EXCEPT ![b] = Tail(@)]
  PROVE  bus' \in [Bridges -> Seq(Answers)]
<1>1. Tail(bus[b]) \in Seq(Answers)
  BY DEF NamesInv
<1> QED BY <1>1 DEF NamesInv

LEMMA OneAnswer ==
  ASSUME NEW kind \in {"DISCOVERY_RES", "ADDRESS_ACK", "STATUS"}, NEW m \in Nodes,
         NEW a \in 0 .. MaxAddr, NEW v \in BOOLEAN
  PROVE  <<Answer(kind, m, a, v)>> \in Seq(Answers)
  BY DEF Answer, Answers

(* The handlers of the nodes.                                              *)
LEMMA HandleKeeps ==
  ASSUME NamesInv, NEW b, NEW f, NEW hear \in SUBSET Nodes, Handle(b, f, hear), UNCHANGED gui
  PROVE  NamesInv'
<1>1. CASE HandleDiscovery(b, hear)
  BY <1>1 DEF HandleDiscovery, NamesInv
<1>2. CASE HandleSetAddress(b, f, hear)
  <2>1. CASE f.mac \in Running(hear) /\ f.addr \in Addrs
    <3>1. f.addr \in 0 .. MaxAddr
      BY <2>1, BoundsAssumption DEF Addrs
    <3> QED BY <1>2, <2>1, <3>1 DEF HandleSetAddress, NamesInv
  <2>2. CASE ~ (f.mac \in Running(hear) /\ f.addr \in Addrs)
    BY <1>2, <2>2 DEF HandleSetAddress, NamesInv
  <2> QED BY <2>1, <2>2
<1>3. CASE HandleClearAddress(b, f, hear)
  <2>1. CASE f.mac \in Running(hear)
    <3>1. 0 \in 0 .. MaxAddr
      BY BoundsAssumption
    <3>2. <<Answer("ADDRESS_ACK", f.mac, 0, FALSE)>> \in Seq(Answers)
      BY <2>1, <3>1, OneAnswer DEF Running
    <3>3. bus' \in [Bridges -> Seq(Answers)]
      BY <1>3, <2>1, <3>2, SayKeeps DEF HandleClearAddress
    <3> QED BY <1>3, <2>1, <3>1, <3>3 DEF HandleClearAddress, NamesInv
  <2>2. CASE f.mac \notin Running(hear)
    BY <1>3, <2>2 DEF HandleClearAddress, NamesInv
  <2> QED BY <2>1, <2>2
<1>4. CASE HandleGetStatus(b, f, hear)
  <2>1. CASE UNCHANGED bus
    BY <1>4, <2>1 DEF HandleGetStatus, nodeVars, NamesInv
  <2>2. CASE \E m \in hear : Say(b, <<Answer("STATUS", m, naddr[m], boot[m])>>)
    <3>1. PICK m \in hear : Say(b, <<Answer("STATUS", m, naddr[m], boot[m])>>)
      BY <2>2
    <3>2. <<Answer("STATUS", m, naddr[m], boot[m])>> \in Seq(Answers)
      BY OneAnswer DEF NamesInv
    <3>3. bus' \in [Bridges -> Seq(Answers)]
      BY <3>1, <3>2, SayKeeps
    <3> QED BY <1>4, <3>3 DEF HandleGetStatus, nodeVars, NamesInv
  <2> QED BY <1>4, <2>1, <2>2 DEF HandleGetStatus
<1> QED BY <1>1, <1>2, <1>3, <1>4 DEF Handle

-----------------------------------------------------------------------------
(* Every step writes the registry in one of three ways, and names nodes.   *)
LEMMA BridgeStep ==
  ASSUME Inv, NEW b \in Bridges,
         \/ Transmit(b) \/ TransmitMissed(b) \/ Receive(b) \/ LoseAnswer(b)
         \/ Poll(b) \/ SendCmd(b) \/ PauseEnds(b) \/ BroadcastDiscovery(b)
         \/ ConnectBridge(b) \/ DisconnectBridge(b) \/ LinkBreaks(b) \/ Reconnect(b)
         \/ OtaBegins(b) \/ OtaEnds(b)
  PROVE  RegWrite /\ NamesInv'
<1> USE DEF Inv
<1>1. ASSUME NEW hear \in SUBSET Nodes, TransmitTo(b, hear)
      PROVE  RegWrite /\ NamesInv'
  <2>1. \E f : Handle(b, f, hear)
    BY <1>1 DEF TransmitTo
  <2> QED BY <1>1, <2>1, HandleKeeps DEF TransmitTo, RegWrite
<1>2. CASE Transmit(b)
  BY <1>1, <1>2 DEF Transmit, NodesOf
<1>3. CASE TransmitMissed(b)
  BY <1>1, <1>3 DEF TransmitMissed, NodesOf
<1>4. CASE Receive(b)
  <2>1. Head(bus[b]) \in Answers
    BY <1>4 DEF Receive, NamesInv
  <2>2. RegWrite
    BY <1>4, <2>1 DEF Receive, RegWrite, Answers
  <2>3. bus' \in [Bridges -> Seq(Answers)]
    BY <1>4, TailKeeps DEF Receive
  <2> QED BY <1>4, <2>2, <2>3 DEF Receive, NamesInv, nodeVars
<1>5. CASE LoseAnswer(b)
  <2>1. bus' \in [Bridges -> Seq(Answers)]
    BY <1>5, TailKeeps DEF LoseAnswer
  <2> QED BY <1>5, <2>1 DEF LoseAnswer, NamesInv, nodeVars, RegWrite
<1>6. CASE Poll(b) \/ SendCmd(b) \/ PauseEnds(b) \/ BroadcastDiscovery(b)
  BY <1>6 DEF Poll, PollOf, SendCmd, PauseEnds, BroadcastDiscovery, NamesInv, nodeVars, RegWrite
<1>7. CASE ConnectBridge(b) \/ LinkBreaks(b) \/ Reconnect(b) \/ OtaBegins(b) \/ OtaEnds(b)
  BY <1>7 DEF ConnectBridge, LinkBreaks, Reconnect, OtaBegins, OtaEnds, NamesInv, nodeVars,
              RegWrite
<1>8. CASE DisconnectBridge(b)
  BY <1>8 DEF DisconnectBridge, NamesInv, nodeVars, RegWrite
<1> QED BY <1>2, <1>3, <1>4, <1>5, <1>6, <1>7, <1>8

LEMMA NodeStep ==
  ASSUME Inv, NEW m \in Nodes,
         \/ DeferredDiscovery(m) \/ DeferredAck(m) \/ AutoDiscovery(m) \/ NodeRestart(m)
         \/ EnterBoot(m) \/ LeaveBoot(m) \/ \E v \in BOOLEAN : SetOtaFlag(m, v)
         \/ AssignAddr(m) \/ SuggestedAddr(m) \/ ClearAddr(m)
  PROVE  RegWrite /\ NamesInv'
<1> USE DEF Inv
<1>1. ASSUME NEW kind \in {"DISCOVERY_RES", "ADDRESS_ACK", "STATUS"}, NEW a \in 0 .. MaxAddr,
             Tell(m, kind, a)
      PROVE  bus' \in [Bridges -> Seq(Answers)]
  BY <1>1, OneAnswer, SayKeeps DEF Tell
<1>2. CASE DeferredDiscovery(m)
  <2>1. bus' \in [Bridges -> Seq(Answers)]
    BY <1>1, <1>2 DEF DeferredDiscovery, NamesInv
  <2> QED BY <1>2, <2>1 DEF DeferredDiscovery, Tell, NamesInv, RegWrite
<1>3. CASE DeferredAck(m)
  <2>1. bus' \in [Bridges -> Seq(Answers)]
    BY <1>1, <1>3 DEF DeferredAck, NamesInv
  <2>2. ack' \in [Nodes -> 0 .. MaxAddr]
    BY <1>3, BoundsAssumption DEF DeferredAck, NamesInv
  <2> QED BY <1>3, <2>1, <2>2 DEF DeferredAck, Tell, NamesInv, RegWrite
<1>4. CASE AutoDiscovery(m)
  <2>1. bus' \in [Bridges -> Seq(Answers)]
    BY <1>1, <1>4, BoundsAssumption DEF AutoDiscovery, NamesInv
  <2> QED BY <1>4, <2>1 DEF AutoDiscovery, nodeVars, Tell, NamesInv, RegWrite
<1>5. CASE NodeRestart(m)
  <2>1. ack' \in [Nodes -> 0 .. MaxAddr]
    BY <1>5, BoundsAssumption DEF NodeRestart, Reboot, NamesInv
  <2> QED BY <1>5, <2>1 DEF NodeRestart, Reboot, NamesInv, RegWrite
<1>6. CASE AssignAddr(m) \/ SuggestedAddr(m)
  BY <1>6 DEF AssignAddr, SuggestedAddr, AssignCheck, nodeVars, NamesInv, RegWrite
<1>7. CASE ClearAddr(m)
  BY <1>7 DEF ClearAddr, nodeVars, NamesInv, RegWrite
<1>8. CASE EnterBoot(m)
  BY <1>8 DEF EnterBoot, NamesInv, RegWrite
<1>9. CASE LeaveBoot(m)
  <2>1. ack' \in [Nodes -> 0 .. MaxAddr]
    <3>1. 0 \in 0 .. MaxAddr
      BY BoundsAssumption
    <3> QED BY <1>9, <3>1 DEF LeaveBoot, Reboot, NamesInv
  <2>2. boot' \in [Nodes -> BOOLEAN]
    BY <1>9 DEF LeaveBoot, Reboot, NamesInv
  <2> QED BY <1>9, <2>1, <2>2 DEF LeaveBoot, NamesInv, RegWrite
<1>10. ASSUME NEW v \in BOOLEAN, SetOtaFlag(m, v)
       PROVE  RegWrite /\ NamesInv'
  <2>1. RegWrite
    BY <1>10 DEF SetOtaFlag, RegWrite
  <2> QED BY <1>10, <2>1 DEF SetOtaFlag, nodeVars, NamesInv
<1> QED BY <1>2, <1>3, <1>4, <1>5, <1>6, <1>7, <1>8, <1>9, <1>10

LEMMA AssignEndsStep ==
  ASSUME Inv, AssignEnds
  PROVE  RegWrite /\ NamesInv'
<1>1. gui.mac \in Nodes
  BY DEF Inv, NamesInv, AssignEnds, GuiFree
<1> QED BY <1>1 DEF AssignEnds, AssignCommit, AssignRefused, nodeVars, Inv, NamesInv, RegWrite

LEMMA StepKeeps == Inv /\ [Next]_vars => Inv'
<1> SUFFICES ASSUME Inv, [Next]_vars PROVE Inv'
  OBVIOUS
<1>1. RegWrite /\ NamesInv'
  <2>1. CASE UNCHANGED vars
    BY <2>1 DEF vars, nodeVars, Inv, NamesInv, RegWrite
  <2> QED BY <2>1, BridgeStep, NodeStep, AssignEndsStep DEF Next
<1>2. RegInv'
  <2>1. CASE UNCHANGED reg
    BY <2>1 DEF Inv, RegInv, IsReg, DupsAreFlagged, Shares
  <2> QED BY <1>1, <2>1, UpsertKeeps, RemoveKeeps, FlagKeeps DEF RegWrite, Inv
<1> QED BY <1>1, <1>2 DEF Inv

-----------------------------------------------------------------------------
(* Two nodes of a bridge with one address are flagged, both, and nobody    *)
(* else is: for every number of bridges, nodes and addresses, with any     *)
(* number of clicks and faults.                                            *)
THEOREM DuplicatesAreSeen == Spec => []DupsAreFlagged
<1>1. Init => Inv
  BY InitReg, InitNames DEF Inv
<1>2. Inv => DupsAreFlagged
  BY DEF Inv, RegInv
<1> QED BY <1>1, <1>2, StepKeeps, PTL DEF Spec


-----------------------------------------------------------------------------
(* A set of numbers that is not empty has a least element.                 *)
LEMMA LeastOf ==
  ASSUME NEW T, T \subseteq Nat, T # {}
  PROVE  \E m \in T : \A i \in T : m <= i
<1>1. PICK m \in T : \A i \in T : ~ (<<i, m>> \in OpToRel(<, Nat))
  BY NatLessThanWellFounded, WFMin
<1>2. \A i \in T : ~ (i < m)
  BY <1>1 DEF OpToRel
<1> QED BY <1>2

(* next_free_addr() returns an address or 0.                               *)
LEMMA FreeAddress == ASSUME NEW b PROVE NextFreeAddr(b) \in 0 .. MaxAddr
<1> DEFINE free == Addrs \ {reg[n].addr : n \in {n \in NodesOf(b) : reg[n].known}}
<1>1. free \subseteq Nat /\ free \subseteq 0 .. MaxAddr
  BY BoundsAssumption DEF Addrs
<1>2. NextFreeAddr(b) = IF free = {} THEN 0 ELSE CHOOSE a \in free : \A c \in free : a <= c
  BY DEF NextFreeAddr
<1> HIDE DEF free
<1>3. CASE free = {}
  BY <1>2, <1>3, BoundsAssumption
<1>4. CASE free # {}
  <2>1. \E a \in free : \A c \in free : a <= c
    BY <1>1, <1>4, LeastOf
  <2>2. (CHOOSE a \in free : \A c \in free : a <= c) \in free
    BY <2>1
  <2> QED BY <1>1, <1>2, <1>4, <2>2
<1> QED BY <1>3, <1>4

(* Taking a frame out of a queue.                                          *)
LEMMA RemoveAtType ==
  ASSUME NEW T, NEW s \in Seq(T), NEW i \in DOMAIN s
  PROVE  RemoveAt(s, i) \in Seq(T)
<1>1. i \in 1 .. Len(s)
  OBVIOUS
<1>2. SubSeq(s, 1, i - 1) \in Seq(T)
  BY <1>1
<1>3. SubSeq(s, i + 1, Len(s)) \in Seq(T)
  BY <1>1
<1> QED BY <1>2, <1>3 DEF RemoveAt

(* The index of the round robin stays below the number of nodes.           *)
LEMMA IndexInRange ==
  ASSUME NEW n \in Nat, NEW N \in Nat, n # 0, n <= N, NEW i \in Nat
  PROVE  NextIndex(i % n, n) \in 0 .. N - 1
<1> DEFINE j == i % n
<1>1. j \in 0 .. n - 1
  OBVIOUS
<1> HIDE DEF j
<1>2. (j + 1) % n \in 0 .. n - 1
  BY <1>1
<1> QED BY <1>2 DEF NextIndex, j

-----------------------------------------------------------------------------
(* What the queues, the registry and the index hold.                       *)
QueueType == txq \in [Bridges -> Seq(Commands)]
RegType ==
  reg \in [Nodes -> [known : BOOLEAN, addr : 0 .. MaxAddr, dup : BOOLEAN, in_ota : BOOLEAN]]
IndexType == rr \in [Bridges -> {0} \cup 0 .. Cardinality(Nodes) - 1]

(* What send() appends to a queue are commands.                            *)
LEMMA OneCommand ==
  ASSUME NEW cmd \in {"DISCOVERY_REQ", "SET_ADDRESS", "CLEAR_ADDRESS", "GET_STATUS"},
         NEW m \in Nodes \cup {NoNode}, NEW a \in 0 .. MaxAddr, NEW prio \in {0, 5, 10}
  PROVE  <<Frame(cmd, m, a, prio)>> \in Seq(Commands)
  BY DEF Frame, Commands

LEMMA SendType ==
  ASSUME QueueType, NEW b, NEW s \in Seq(Commands), Send(b, s)
  PROVE  txq' \in [Bridges -> Seq(Commands)]
<1>1. ASSUME b \in Bridges
      PROVE  txq[b] \o s \in Seq(Commands)
  BY <1>1 DEF QueueType
<1> QED BY <1>1 DEF QueueType, Send

LEMMA AskStatusType ==
  ASSUME QueueType, NEW b, NEW a \in 0 .. MaxAddr, AskStatus(b, a)
  PROVE  txq' \in [Bridges -> Seq(Commands)]
<1> DEFINE s == IF a = 0 THEN <<>> ELSE <<Frame("GET_STATUS", NoNode, a, 0)>>
<1>1. s \in Seq(Commands)
  BY OneCommand
<1>2. Send(b, s)
  BY DEF AskStatus
<1> HIDE DEF s
<1> QED BY <1>1, <1>2, SendType

(* The two ways the registry is written keep addresses addresses.          *)
LEMMA UpsertType ==
  ASSUME RegType, NEW m \in Nodes, NEW a \in 0 .. MaxAddr, NEW v \in BOOLEAN,
         reg' = Upsert(m, a, v)
  PROVE  RegType'
<1> DEFINE r == [reg EXCEPT ![m] = Entry(a, v)]
<1>1. r \in [Nodes -> [known : BOOLEAN, addr : 0 .. MaxAddr, dup : BOOLEAN, in_ota : BOOLEAN]]
  BY DEF RegType, Entry
<1>2. reg' = RecomputeDups(r)
  BY DEF Upsert
<1> HIDE DEF r
<1>3. \A n \in Nodes : Shares(r, n) \in BOOLEAN
  BY Zenon DEF Shares
<1> QED BY <1>1, <1>2, <1>3 DEF RecomputeDups, RegType

LEMMA RemoveType ==
  ASSUME RegType, NEW b, reg' = RemoveByBridge(b)
  PROVE  RegType'
  BY BoundsAssumption DEF RegType, RemoveByBridge, Absent

LinkType == link \in [Bridges -> BOOLEAN] /\ wanted \in [Bridges -> BOOLEAN]
OtaType == ota \in [Bridges -> {Idle} \cup [mac : Nodes, addr : 0 .. MaxAddr]]
MarksType == marks \subseteq Nodes \X BOOLEAN
PauseType == paused \in [Bridges -> BOOLEAN]
GuiType == gui \in [mac : Nodes \cup {NoNode}, addr : 0 .. MaxAddr]
BoundType == clicks \in 0 .. MaxClicks /\ faults \in 0 .. MaxFaults
DiscType == disc \in [Nodes -> BOOLEAN]

(* TypeOK without what NamesInv says already.                              *)
RestType ==
  /\ LinkType /\ OtaType /\ MarksType /\ PauseType
  /\ QueueType /\ RegType /\ IndexType /\ GuiType /\ BoundType /\ DiscType

LEMMA InitRest == Init => RestType
<1> SUFFICES ASSUME Init PROVE RestType
  OBVIOUS
<1>1. LinkType /\ QueueType /\ IndexType /\ DiscType /\ MarksType /\ PauseType
  BY DEF Init, LinkType, QueueType, IndexType, DiscType, MarksType, PauseType
<1>2. RegType /\ GuiType /\ BoundType
  BY BoundsAssumption DEF Init, RegType, GuiType, BoundType, Idle, Absent
<1>3. OtaType
  BY DEF Init, OtaType
<1> QED BY <1>1, <1>2, <1>3 DEF RestType

LEMMA ClickType == ASSUME BoundType, Click PROVE BoundType'
  BY BoundsAssumption DEF BoundType, Click

LEMMA FaultType == ASSUME BoundType, Fault PROVE BoundType'
  BY BoundsAssumption DEF BoundType, Fault

(* What a call of set_ota_flag() that becomes due is.                      *)
LEMMA OneMark ==
  ASSUME NEW m \in Nodes, NEW v \in BOOLEAN
  PROVE  {<<m, v>>} \subseteq Nodes \X BOOLEAN
  OBVIOUS

(* A step that leaves most variables alone.                                *)
LEMMA Untouched ==
  /\ UNCHANGED linkVars /\ LinkType /\ OtaType => LinkType' /\ OtaType'
  /\ UNCHANGED pollVars /\ IndexType /\ PauseType => IndexType' /\ PauseType'
  /\ UNCHANGED boundVars /\ BoundType => BoundType'
  /\ UNCHANGED nodeVars /\ DiscType => DiscType'
  /\ UNCHANGED disc /\ DiscType => DiscType'
  /\ UNCHANGED txq /\ QueueType => QueueType'
  /\ UNCHANGED reg /\ RegType => RegType'
  /\ UNCHANGED gui /\ GuiType => GuiType'
  /\ UNCHANGED marks /\ MarksType => MarksType'
  /\ UNCHANGED paused /\ PauseType => PauseType'
  /\ UNCHANGED rr /\ IndexType => IndexType'
  /\ UNCHANGED ota /\ OtaType => OtaType'
  BY DEF linkVars, pollVars, boundVars, nodeVars, LinkType, OtaType, IndexType, PauseType,
         BoundType, DiscType, QueueType, RegType, GuiType, MarksType

(* The poll of a node.                                                     *)
LEMMA PollType ==
  ASSUME RestType, NEW b \in Bridges, Poll(b)
  PROVE  RestType'
<1> USE DEF RestType
<1> DEFINE n == Cardinality(Polled(b))
<1>1. PICK m \in Polled(b) :
        /\ rr' = [rr EXCEPT ![b] = NextIndex(rr[b] % n, n)]
        /\ Send(b, <<Frame("GET_STATUS", NoNode, reg[m].addr, 10)>>)
  BY DEF Poll, PollOf
<1>2. m \in Nodes /\ Polled(b) \subseteq Nodes
  BY <1>1 DEF Polled, NodesOf
<1>3. IsFiniteSet(Polled(b)) /\ IsFiniteSet(Nodes)
  BY <1>2, NodesAssumption, FS_Subset
<1>4. n \in Nat /\ Cardinality(Nodes) \in Nat /\ n <= Cardinality(Nodes)
  BY <1>2, <1>3, FS_CardinalityType, FS_Subset, NodesAssumption
<1>5. n # 0
  BY <1>1, <1>3, FS_EmptySet
<1>6. rr[b] \in Nat
  <2>1. rr[b] \in {0} \cup 0 .. Cardinality(Nodes) - 1
    BY DEF IndexType
  <2> QED BY <1>4, <2>1
<1>7. NextIndex(rr[b] % n, n) \in 0 .. Cardinality(Nodes) - 1
  <2> HIDE DEF n
  <2> QED BY <1>4, <1>5, <1>6, IndexInRange
<1>8. IndexType'
  BY <1>1, <1>7 DEF IndexType
<1>9. <<Frame("GET_STATUS", NoNode, reg[m].addr, 10)>> \in Seq(Commands)
  BY <1>2, OneCommand DEF RegType
<1>10. txq' \in [Bridges -> Seq(Commands)]
  BY <1>1, <1>9, SendType
<1>11. UNCHANGED <<linkVars, reg, marks, paused, nodeVars, gui, boundVars>>
  BY DEF Poll, PollOf
<1>12. QueueType'
  BY <1>10 DEF QueueType
<1> QED BY <1>8, <1>11, <1>12, Untouched

(* A frame leaves the queue and is handled.                                *)
LEMMA TransmitType ==
  ASSUME RestType, NEW b \in Bridges, NEW hear, TransmitTo(b, hear), BoundType'
  PROVE  RestType'
<1> USE DEF RestType
<1>1. PICK i \in DOMAIN txq[b] :
        /\ txq' = [txq EXCEPT ![b] = RemoveAt(@, i)]
        /\ Handle(b, txq[b][i], hear)
  BY DEF TransmitTo
<1>2. RemoveAt(txq[b], i) \in Seq(Commands)
  <2>1. txq[b] \in Seq(Commands)
    BY DEF QueueType
  <2> QED BY <1>1, <2>1, RemoveAtType
<1>3. UNCHANGED <<linkVars, reg, marks, pollVars, gui>>
  BY DEF TransmitTo
<1>4. QueueType'
  BY <1>1, <1>2 DEF QueueType
<1>5. DiscType'
  <2>1. CASE HandleDiscovery(b, hear)
    BY <2>1 DEF HandleDiscovery, DiscType
  <2>2. CASE UNCHANGED disc
    BY <2>2, Untouched
  <2> QED BY <1>1, <2>1, <2>2 DEF Handle, HandleSetAddress, HandleClearAddress,
                                  HandleGetStatus, nodeVars
<1> QED BY <1>3, <1>4, <1>5, Untouched

LEMMA BridgeTypes ==
  ASSUME Inv, RestType, NEW b \in Bridges,
         \/ Transmit(b) \/ TransmitMissed(b) \/ Receive(b) \/ LoseAnswer(b)
         \/ Poll(b) \/ SendCmd(b) \/ PauseEnds(b) \/ BroadcastDiscovery(b)
         \/ ConnectBridge(b) \/ DisconnectBridge(b) \/ LinkBreaks(b) \/ Reconnect(b)
         \/ OtaBegins(b) \/ OtaEnds(b)
  PROVE  RestType'
<1>0. <<Frame("DISCOVERY_REQ", NoNode, 0, 5)>> \in Seq(Commands)
  <2>1. 0 \in 0 .. MaxAddr
    BY BoundsAssumption
  <2> QED BY <2>1, OneCommand
<1> USE DEF RestType
<1>1. CASE Transmit(b)
  <2>1. BoundType'
    BY <1>1 DEF Transmit, boundVars, BoundType
  <2> QED BY <1>1, <2>1, TransmitType DEF Transmit
<1>2. CASE TransmitMissed(b)
  <2>1. BoundType'
    BY <1>2, FaultType DEF TransmitMissed
  <2>2. \E m : TransmitTo(b, NodesOf(b) \ {m})
    BY <1>2 DEF TransmitMissed
  <2> QED BY <2>1, <2>2, TransmitType
<1>3. CASE Receive(b)
  <2> DEFINE x == Head(bus[b])
             v == IF x.kind = "STATUS" THEN x.in_ota ELSE reg[x.mac].in_ota
  <2>1. x \in Answers
    BY <1>3 DEF Receive, Inv, NamesInv
  <2>2. x.mac \in Nodes /\ x.addr \in 0 .. MaxAddr /\ x.in_ota \in BOOLEAN
    BY <2>1 DEF Answers
  <2>3. reg[x.mac].in_ota \in BOOLEAN
    BY <2>2 DEF RegType
  <2>4. v \in BOOLEAN
    BY <2>2, <2>3
  <2>5. reg' = Upsert(x.mac, x.addr, v) /\ (UNCHANGED txq \/ AskStatus(b, x.addr))
    BY <1>3 DEF Receive
  <2>6. UNCHANGED <<linkVars, marks, pollVars, nodeVars, gui, boundVars>>
    BY <1>3 DEF Receive
  <2> HIDE DEF x, v
  <2>7. RegType'
    BY <2>2, <2>4, <2>5, UpsertType
  <2>8. txq' \in [Bridges -> Seq(Commands)]
    BY <2>2, <2>5, AskStatusType DEF QueueType
  <2> QED BY <2>6, <2>7, <2>8, Untouched DEF QueueType
<1>4. CASE LoseAnswer(b)
  <2>1. BoundType'
    BY <1>4, FaultType DEF LoseAnswer
  <2>2. UNCHANGED <<linkVars, txq, reg, marks, pollVars, nodeVars, gui>>
    BY <1>4 DEF LoseAnswer
  <2> QED BY <2>1, <2>2, Untouched
<1>5. CASE BroadcastDiscovery(b)
  <2>1. txq' \in [Bridges -> Seq(Commands)]
    BY <1>0, <1>5, SendType DEF BroadcastDiscovery
  <2>2. UNCHANGED <<linkVars, reg, marks, pollVars, nodeVars, gui, boundVars>>
    BY <1>5 DEF BroadcastDiscovery
  <2> QED BY <2>1, <2>2, Untouched DEF QueueType
<1>6. CASE ConnectBridge(b)
  <2>1. txq' \in [Bridges -> Seq(Commands)]
    BY <1>0, <1>6, SendType DEF ConnectBridge
  <2>2. LinkType'
    BY <1>6 DEF ConnectBridge, LinkType
  <2>3. UNCHANGED <<ota, reg, marks, pollVars, nodeVars, gui, boundVars>>
    BY <1>6 DEF ConnectBridge
  <2> QED BY <2>1, <2>2, <2>3, Untouched DEF QueueType
<1>7. CASE DisconnectBridge(b)
  <2>1. BoundType'
    BY <1>7, ClickType DEF DisconnectBridge
  <2>2. LinkType'
    BY <1>7 DEF DisconnectBridge, LinkType
  <2>3. RegType'
    BY <1>7, RemoveType DEF DisconnectBridge
  <2>4. UNCHANGED <<ota, txq, marks, pollVars, nodeVars, gui>>
    BY <1>7 DEF DisconnectBridge
  <2> QED BY <2>1, <2>2, <2>3, <2>4, Untouched
<1>8. CASE LinkBreaks(b)
  <2>1. BoundType' /\ LinkType'
    BY <1>8, FaultType DEF LinkBreaks, LinkType
  <2>2. UNCHANGED <<ota, txq, reg, marks, pollVars, nodeVars, gui>>
    BY <1>8 DEF LinkBreaks
  <2> QED BY <2>1, <2>2, Untouched
<1>9. CASE Reconnect(b)
  <2>1. LinkType'
    BY <1>9 DEF Reconnect, LinkType
  <2>2. UNCHANGED <<ota, txq, reg, marks, pollVars, nodeVars, gui, boundVars>>
    BY <1>9 DEF Reconnect
  <2> QED BY <2>1, <2>2, Untouched
<1>10. CASE OtaBegins(b)
  <2>1. BoundType'
    BY <1>10, BoundsAssumption DEF OtaBegins, ClickAndFault, BoundType
  <2>2. PICK m \in NodesOf(b), never \in SUBSET (NodesOf(b) \X {FALSE}) :
          /\ ota' = [ota EXCEPT ![b] = [mac |-> m, addr |-> reg[m].addr]]
          /\ marks' = (marks \ never) \cup {<<m, TRUE>>}
    BY <1>10 DEF OtaBegins
  <2>3. m \in Nodes /\ reg[m].addr \in 0 .. MaxAddr
    BY DEF NodesOf, RegType
  <2>4. OtaType'
    BY <2>2, <2>3 DEF OtaType
  <2>5. MarksType'
    <3>1. {<<m, TRUE>>} \subseteq Nodes \X BOOLEAN
      BY <2>3, OneMark
    <3> QED BY <2>2, <3>1, Zenon DEF MarksType
  <2>6. UNCHANGED <<link, wanted, txq, reg, pollVars, nodeVars, gui>>
    BY <1>10 DEF OtaBegins
  <2> QED BY <2>1, <2>4, <2>5, <2>6, Untouched DEF LinkType
<1>11. CASE OtaEnds(b)
  <2>1. ota[b].mac \in Nodes
    BY <1>11 DEF OtaEnds, OtaActive, OtaType
  <2>2. OtaType'
    BY <1>11 DEF OtaEnds, OtaType
  <2>3. MarksType'
    <3>1. {<<ota[b].mac, FALSE>>} \subseteq Nodes \X BOOLEAN
      BY <2>1, OneMark
    <3> QED BY <1>11, <3>1, Zenon DEF OtaEnds, MarksType
  <2>4. UNCHANGED <<link, wanted, txq, reg, pollVars, nodeVars, gui, boundVars>>
    BY <1>11 DEF OtaEnds
  <2> QED BY <2>2, <2>3, <2>4, Untouched DEF LinkType
<1>12. CASE SendCmd(b)
  <2>1. BoundType' /\ PauseType'
    BY <1>12, ClickType DEF SendCmd, PauseType
  <2>2. UNCHANGED <<linkVars, txq, reg, marks, rr, nodeVars, gui>>
    BY <1>12 DEF SendCmd
  <2> QED BY <2>1, <2>2, Untouched
<1>13. CASE PauseEnds(b)
  <2>1. PauseType'
    BY <1>13 DEF PauseEnds, PauseType
  <2>2. UNCHANGED <<linkVars, txq, reg, marks, rr, nodeVars, gui, boundVars>>
    BY <1>13 DEF PauseEnds
  <2> QED BY <2>1, <2>2, Untouched
<1> QED BY <1>1, <1>2, <1>3, <1>4, <1>5, <1>6, <1>7, <1>8, <1>9, <1>10, <1>11, <1>12, <1>13,
           PollType

LEMMA NodeTypes ==
  ASSUME Inv, RestType, NEW m \in Nodes,
         \/ DeferredDiscovery(m) \/ DeferredAck(m) \/ AutoDiscovery(m) \/ NodeRestart(m)
         \/ EnterBoot(m) \/ LeaveBoot(m) \/ \E v \in BOOLEAN : SetOtaFlag(m, v)
         \/ AssignAddr(m) \/ SuggestedAddr(m) \/ ClearAddr(m)
  PROVE  RestType'
<1> USE DEF RestType
<1>1. CASE DeferredDiscovery(m) \/ DeferredAck(m) \/ AutoDiscovery(m)
  <2>1. DiscType'
    BY <1>1 DEF DeferredDiscovery, DeferredAck, AutoDiscovery, DiscType
  <2>2. UNCHANGED <<linkVars, txq, reg, marks, pollVars, gui, boundVars>>
    BY <1>1 DEF DeferredDiscovery, DeferredAck, AutoDiscovery, Tell
  <2> QED BY <2>1, <2>2, Untouched
<1>2. CASE NodeRestart(m)
  <2>1. BoundType' /\ DiscType'
    BY <1>2, FaultType DEF NodeRestart, Reboot, DiscType
  <2>2. UNCHANGED <<linkVars, txq, reg, marks, pollVars, gui>>
    BY <1>2 DEF NodeRestart
  <2> QED BY <2>1, <2>2, Untouched
<1>3. CASE AssignAddr(m) \/ SuggestedAddr(m)
  <2>1. BoundType'
    BY <1>3, ClickType DEF AssignAddr, SuggestedAddr
  <2>2. PICK a \in 0 .. MaxAddr : AssignCheck(m, a)
    <3>1. Addrs \subseteq 0 .. MaxAddr
      BY BoundsAssumption DEF Addrs
    <3> QED BY <1>3, <3>1, FreeAddress DEF AssignAddr, SuggestedAddr
  <2>3. GuiType'
    BY <2>2 DEF AssignCheck, GuiType
  <2>4. UNCHANGED <<linkVars, txq, reg, marks, pollVars, nodeVars>>
    BY <1>3 DEF AssignAddr, SuggestedAddr
  <2> QED BY <2>1, <2>3, <2>4, Untouched
<1>4. CASE ClearAddr(m)
  <2>1. BoundType'
    BY <1>4, ClickType DEF ClearAddr
  <2>2. PICK p \in {0, 5} : Send(Home[m], <<Frame("CLEAR_ADDRESS", m, 0, p)>>)
    BY <1>4 DEF ClearAddr
  <2>3. <<Frame("CLEAR_ADDRESS", m, 0, p)>> \in Seq(Commands)
    BY BoundsAssumption, OneCommand
  <2>4. txq' \in [Bridges -> Seq(Commands)]
    BY <2>2, <2>3, SendType
  <2>5. UNCHANGED <<linkVars, reg, marks, pollVars, nodeVars, gui>>
    BY <1>4 DEF ClearAddr
  <2> QED BY <2>1, <2>4, <2>5, Untouched DEF QueueType
<1>5. CASE EnterBoot(m) \/ LeaveBoot(m)
  <2>1. DiscType'
    BY <1>5 DEF EnterBoot, LeaveBoot, Reboot, DiscType
  <2>2. UNCHANGED <<linkVars, txq, reg, marks, pollVars, gui, boundVars>>
    BY <1>5 DEF EnterBoot, LeaveBoot
  <2> QED BY <2>1, <2>2, Untouched
<1>6. ASSUME NEW v \in BOOLEAN, SetOtaFlag(m, v)
      PROVE  RestType'
  <2>1. MarksType'
    BY <1>6 DEF SetOtaFlag, MarksType
  <2>2. RegType'
    BY <1>6 DEF SetOtaFlag, RegType
  <2>3. UNCHANGED <<linkVars, txq, pollVars, nodeVars, gui, boundVars>>
    BY <1>6 DEF SetOtaFlag
  <2> QED BY <2>1, <2>2, <2>3, Untouched
<1> QED BY <1>1, <1>2, <1>3, <1>4, <1>5, <1>6

LEMMA AssignEndsTypes ==
  ASSUME Inv, RestType, AssignEnds
  PROVE  RestType'
<1> USE DEF RestType
<1>1. gui.mac \in Nodes /\ gui.addr \in 0 .. MaxAddr
  BY DEF Inv, NamesInv, AssignEnds, GuiFree, GuiType
<1>2. gui' = Idle
  BY DEF AssignEnds, AssignCommit, AssignRefused
<1>3. GuiType'
  BY <1>2, BoundsAssumption DEF GuiType, Idle
<1>4. UNCHANGED <<linkVars, marks, pollVars, nodeVars, boundVars>>
  BY DEF AssignEnds, AssignCommit, AssignRefused
<1>5. RegType' /\ QueueType'
  <2>1. CASE AssignCommit
    <3>1. /\ reg' = Upsert(gui.mac, gui.addr, reg[gui.mac].in_ota)
          /\ Send(Home[gui.mac], <<Frame("SET_ADDRESS", gui.mac, gui.addr, 5)>>)
      BY <2>1 DEF AssignCommit
    <3>2. <<Frame("SET_ADDRESS", gui.mac, gui.addr, 5)>> \in Seq(Commands)
      BY <1>1, OneCommand
    <3>3. txq' \in [Bridges -> Seq(Commands)]
      BY <3>1, <3>2, SendType
    <3>4. reg[gui.mac].in_ota \in BOOLEAN
      BY <1>1 DEF RegType
    <3>5. RegType'
      BY <1>1, <3>1, <3>4, UpsertType
    <3> QED BY <3>3, <3>5 DEF QueueType
  <2>2. CASE AssignRefused
    BY <2>2, Untouched DEF AssignRefused
  <2> QED BY <2>1, <2>2 DEF AssignEnds
<1> QED BY <1>3, <1>4, <1>5, Untouched

LEMMA RestKeeps == Inv /\ RestType /\ [Next]_vars => RestType'
<1> SUFFICES ASSUME Inv, RestType, [Next]_vars PROVE RestType'
  OBVIOUS
<1>1. CASE UNCHANGED vars
  BY <1>1, Untouched DEF vars, RestType
<1> QED BY <1>1, BridgeTypes, NodeTypes, AssignEndsTypes DEF Next

-----------------------------------------------------------------------------
(* What the operator, the poll thread and the dispatcher put into a queue  *)
(* are commands with an address the nodes accept or 0, the registry only   *)
(* holds such addresses, and the index of the round robin stays below the  *)
(* number of nodes, however the list it walks grows and shrinks.           *)
THEOREM AddressesInRange == Spec => []TypeOK
<1>1. Init => Inv /\ RestType
  BY InitReg, InitNames, InitRest DEF Inv
<1>2. OtaType => ota \in [Bridges -> [mac : Nodes \cup {NoNode}, addr : 0 .. MaxAddr]]
  BY BoundsAssumption DEF OtaType, Idle
<1>3. Inv /\ RestType => TypeOK
  BY <1>2 DEF Inv, NamesInv, TypeOK, RestType, LinkType, QueueType, RegType, IndexType, GuiType,
         BoundType, DiscType, MarksType, PauseType
<1> QED BY <1>1, <1>3, StepKeeps, RestKeeps, PTL DEF Spec

=============================================================================
