---------------------------- MODULE BatchOta_proofs ----------------------------
(***************************************************************************)
(* Proofs about BatchOta and OtaBridge, for every set of nodes and bridges *)
(* and every number of orders.                                             *)
(*                                                                         *)
(* BridgeInv is about the workers alone: a worker that has a session in    *)
(* its hands has one of its own bridge that is over.  EventInv ties the    *)
(* events to the sessions they speak of.  PlanInv says what is queued and  *)
(* what the GUI thread has still to do; OrderInv counts, for each node,    *)
(* the sessions it had and the places where one more may come from.  The   *)
(* statuses of the nodes follow from these (StatusInv).                    *)
(***************************************************************************)
EXTENDS BatchOta, TLAPS, FiniteSetTheorems, FunctionTheorems, SequenceTheorems

InHands == {"tickVerdict", "clear", "unflag", "rxVerdict"}

WorkerInv ==
  \A b \in Bridges :
    /\ ota[b] # 0 => Home[sess[ota[b]].mac] = b
    /\ at[b] \in InHands => held[b] # 0 /\ ~ Running(held[b]) /\ Home[sess[held[b]].mac] = b

BridgeInv == BridgeTypeOK /\ WorkerInv /\ NoOrphanSession

(* An event speaks of a session, and the last event of its verdict.        *)
Speaks(e, s) ==
  /\ sess[s].mac = e.mac
  /\ e.kind = "ota_done" => sess[s].state = "done"
  /\ e.kind = "ota_error" => sess[s].state = "error"

EventInv == \A i \in DOMAIN eq : \E s \in DOMAIN sess : Speaks(eq[i], s)

Once(s) == \A i, j \in DOMAIN s : s[i] = s[j] => i = j

Starts(m) == {Start(m, TRUE), Start(m, FALSE)}

StartsNext(m) == todo # <<>> /\ Head(todo) \in Starts(m)

(* A queue names nodes of its bridge, each once; a session is started by   *)
(* the first task alone; a node the batch starts is shown as FLASHING.     *)
PlanInv ==
  /\ \A b \in Bridges : Once(queue[b]) /\ \A i \in DOMAIN queue[b] : Home[queue[b][i]] = b
  /\ \A i \in DOMAIN todo : \A m \in Nodes : todo[i] \in Starts(m) => i = 1
  /\ \A m \in Nodes : todo # <<>> /\ Head(todo) = Start(m, TRUE) => status[m] = "FLASHING"

SessionsOf(m) == {s \in DOMAIN sess : sess[s].mac = m}
Queued(m)   == IF m \in ToSet(queue[Home[m]]) THEN 1 ELSE 0
Starting(m) == IF StartsNext(m) THEN 1 ELSE 0

OrderInv == \A m \in Nodes : Cardinality(SessionsOf(m)) + Queued(m) + Starting(m) <= orders

(* With one order only, a queued node has no verdict, and a single update  *)
(* meets no batch.                                                         *)
StatusInv ==
  /\ \A m \in Nodes : active /\ status[m] = "PENDING" => m \in ToSet(queue[Home[m]])
  /\ orders = 0 => \A m \in Nodes : status[m] = "NONE"
  /\ orders <= 1 =>
       \A m \in Nodes :
         /\ m \in ToSet(queue[Home[m]]) => status[m] \in {"PENDING", "SKIPPED"}
         /\ todo # <<>> /\ Head(todo) = Start(m, FALSE) => status[m] = "NONE"

BatchInv ==
  /\ TypeOK
  /\ WorkerInv
  /\ NoOrphanSession
  /\ EventInv
  /\ PlanInv
  /\ OrderInv
  /\ StatusInv
  /\ CountsAreRight
  /\ VerdictsAreTrue
  /\ NobodyLeftWaiting

-----------------------------------------------------------------------------
(* Sequences.                                                              *)

LEMMA TailFacts ==
  ASSUME NEW S, NEW s \in Seq(S), s # <<>>
  PROVE  /\ Head(s) = s[1] /\ Head(s) \in S /\ 1 \in DOMAIN s
         /\ Tail(s) \in Seq(S)
         /\ Len(s) \in Nat /\ Len(Tail(s)) = Len(s) - 1
         /\ DOMAIN s = 1 .. Len(s) /\ DOMAIN Tail(s) = 1 .. Len(Tail(s))
         /\ \A i \in DOMAIN Tail(s) : i + 1 \in DOMAIN s /\ Tail(s)[i] = s[i + 1] /\ i \in Nat /\ i # 0
  OBVIOUS

LEMMA AppendFacts ==
  ASSUME NEW S, NEW s \in Seq(S), NEW e \in S
  PROVE  /\ Append(s, e) \in Seq(S) /\ Append(s, e) # <<>>
         /\ Len(s) + 1 \in DOMAIN Append(s, e) /\ Append(s, e)[Len(s) + 1] = e
         /\ \A i \in DOMAIN Append(s, e) :
              (i \in DOMAIN s /\ Append(s, e)[i] = s[i]) \/ (i = Len(s) + 1 /\ Append(s, e)[i] = e)
         /\ \A i \in DOMAIN s : i # Len(s) + 1 /\ i \in DOMAIN Append(s, e) /\ Append(s, e)[i] = s[i]
  OBVIOUS

-----------------------------------------------------------------------------
(* The bridge workers.                                                     *)

(* What any step may do to the sessions: it may create one, and a session  *)
(* that is over stays what it is.                                          *)
SessionsGrow ==
  \A s \in DOMAIN sess :
    /\ s \in DOMAIN sess' /\ sess'[s].mac = sess[s].mac
    /\ sess[s].state # "running" => sess'[s].state = sess[s].state

LEMMA BridgeTypes ==
  ASSUME BridgeTypeOK
  PROVE  /\ Len(sess) \in Nat /\ DOMAIN sess = 1 .. Len(sess)
         /\ \A s \in DOMAIN sess : sess[s] \in Session /\ sess[s].mac \in Nodes
         /\ \A b \in Bridges : /\ ota[b] \in Nat /\ (ota[b] # 0 => ota[b] \in DOMAIN sess)
                               /\ held[b] \in Nat /\ (held[b] # 0 => held[b] \in DOMAIN sess)
         /\ \A m \in Nodes : Home[m] \in Bridges
<1>1. sess \in Seq(Session) /\ Len(sess) \in Nat /\ DOMAIN sess = 1 .. Len(sess)
  BY DEF BridgeTypeOK
<1>2. \A s \in DOMAIN sess : sess[s] \in Session /\ sess[s].mac \in Nodes
  <2>1. \A x \in Session : x.mac \in Nodes
    BY DEF Session
  <2> QED BY <1>1, <2>1
<1>3. \A b \in Bridges : ota[b] \in 0 .. Len(sess) /\ held[b] \in 0 .. Len(sess)
  BY DEF BridgeTypeOK
<1>4. \A m \in Nodes : Home[m] \in Bridges
  BY HomeAssumption
<1> QED BY <1>1, <1>2, <1>3, <1>4

(* The sessions keep their number, and what they become is given.          *)
LEMMA SameSessions ==
  ASSUME BridgeTypeOK, NEW new, sess' = [s \in DOMAIN sess |-> new[s]],
         \A s \in DOMAIN sess : new[s] \in Session /\ new[s].mac = sess[s].mac
  PROVE  /\ sess' \in Seq(Session) /\ DOMAIN sess' = DOMAIN sess /\ Len(sess') = Len(sess)
         /\ \A s \in DOMAIN sess : sess'[s] = new[s]
<1>1. Len(sess) \in Nat /\ DOMAIN sess = 1 .. Len(sess)
  BY BridgeTypes
<1>2. sess' \in [1 .. Len(sess) -> Session] /\ \A s \in DOMAIN sess : sess'[s] = new[s]
  BY <1>1
<1> QED BY <1>1, <1>2

(* A session ends, once.                                                   *)
LEMMA EndFacts ==
  ASSUME BridgeTypeOK, NEW s0 \in DOMAIN sess, Running(s0), NEW how \in {"done", "error"},
         EndSession(s0, how)
  PROVE  /\ sess' \in Seq(Session) /\ DOMAIN sess' = DOMAIN sess /\ Len(sess') = Len(sess)
         /\ sess'[s0].state = how
         /\ \A s \in DOMAIN sess : /\ sess'[s].mac = sess[s].mac
                                   /\ s # s0 => sess'[s].state = sess[s].state
         /\ SessionsGrow
<1> DEFINE new == [s \in DOMAIN sess |-> IF s = s0 THEN [sess[s] EXCEPT !.state = how] ELSE sess[s]]
<1>1. sess' = [s \in DOMAIN sess |-> new[s]]
  <2>1. sess = [s \in DOMAIN sess |-> sess[s]]
    BY DEF BridgeTypeOK
  <2> QED BY <2>1 DEF EndSession
<1>2. \A s \in DOMAIN sess :
        /\ new[s] \in Session /\ new[s].mac = sess[s].mac
        /\ new[s].state = IF s = s0 THEN how ELSE sess[s].state
  BY BridgeTypes DEF Session
<1> HIDE DEF new
<1>3. /\ sess' \in Seq(Session) /\ DOMAIN sess' = DOMAIN sess /\ Len(sess') = Len(sess)
      /\ \A s \in DOMAIN sess : sess'[s] = new[s]
  BY <1>1, <1>2, SameSessions
<1>4. sess[s0].state = "running"
  BY DEF Running
<1> QED BY <1>2, <1>3, <1>4 DEF SessionsGrow

LEMMA AbortFacts ==
  ASSUME BridgeTypeOK, NEW bs, AbortOta(bs)
  PROVE  /\ sess' \in Seq(Session) /\ DOMAIN sess' = DOMAIN sess /\ Len(sess') = Len(sess)
         /\ \A s \in DOMAIN sess : sess'[s].mac = sess[s].mac /\ sess'[s].state = sess[s].state
         /\ SessionsGrow
<1> DEFINE new == [s \in DOMAIN sess |-> [sess[s] EXCEPT !.abort = @ \/ \E b \in bs : ota[b] = s]]
<1>1. sess' = [s \in DOMAIN sess |-> new[s]]
  BY DEF AbortOta
<1>2. \A s \in DOMAIN sess :
        new[s] \in Session /\ new[s].mac = sess[s].mac /\ new[s].state = sess[s].state
  BY BridgeTypes DEF Session
<1> HIDE DEF new
<1>3. /\ sess' \in Seq(Session) /\ DOMAIN sess' = DOMAIN sess /\ Len(sess') = Len(sess)
      /\ \A s \in DOMAIN sess : sess'[s] = new[s]
  BY <1>1, <1>2, SameSessions
<1> QED BY <1>2, <1>3 DEF SessionsGrow

LEMMA StartFacts ==
  ASSUME BridgeTypeOK, NEW m \in Nodes, StartOta(m)
  PROVE  /\ sess' \in Seq(Session) /\ Len(sess') = Len(sess) + 1
         /\ DOMAIN sess' = DOMAIN sess \cup {Len(sess) + 1} /\ Len(sess) + 1 \notin DOMAIN sess
         /\ sess'[Len(sess) + 1].mac = m /\ sess'[Len(sess) + 1].state = "running"
         /\ \A s \in DOMAIN sess : sess'[s] = sess[s]
         /\ SessionsGrow
<1> DEFINE n == [mac |-> m, state |-> "running", abort |-> FALSE]
<1>1. n \in Session /\ n.mac = m /\ n.state = "running"
  BY DEF Session
<1>2. sess' = Append(sess, n) /\ sess \in Seq(Session)
  BY DEF StartOta, BridgeTypeOK
<1> HIDE DEF n
<1>3. /\ sess' \in Seq(Session) /\ Len(sess') = Len(sess) + 1 /\ Len(sess) \in Nat
      /\ DOMAIN sess = 1 .. Len(sess) /\ DOMAIN sess' = 1 .. Len(sess')
      /\ sess'[Len(sess) + 1] = n
      /\ \A s \in DOMAIN sess : sess'[s] = sess[s]
  BY <1>1, <1>2
<1>4. DOMAIN sess' = DOMAIN sess \cup {Len(sess) + 1} /\ Len(sess) + 1 \notin DOMAIN sess
  BY <1>3
<1> QED BY <1>1, <1>3, <1>4 DEF SessionsGrow

(* An event that is queued is an event.                                    *)
LEMMA EmitFacts ==
  ASSUME BridgeTypeOK, NEW k \in {"ota_progress", "ota_done", "ota_error"}, NEW m \in Nodes,
         Emit(k, m)
  PROVE  /\ eq' \in Seq(Event)
         /\ \A i \in DOMAIN eq' :
              (i \in DOMAIN eq /\ eq'[i] = eq[i]) \/ (eq'[i].kind = k /\ eq'[i].mac = m)
<1> DEFINE e == [kind |-> k, mac |-> m]
<1>1. e \in Event /\ e.kind = k /\ e.mac = m
  BY DEF Event
<1>2. eq' = Append(eq, e) /\ eq \in Seq(Event)
  BY DEF Emit, BridgeTypeOK
<1> HIDE DEF e
<1> QED BY <1>1, <1>2, AppendFacts

(* The steps of a worker that leave the sessions alone.                    *)
LEMMA LoopKeeps ==
  ASSUME BridgeInv, EventInv, NEW b \in Bridges,
         \/ TickAlive(b) \/ QueueVerdict(b) \/ ClearOta(b) \/ UnflagOta(b) \/ ReceiveNothing(b)
         \/ ReportProgress(b) \/ Reconnect(b) \/ LinkLost(b)
         \/ \E m \in Nodes, mode \in BOOLEAN : ReceiveStatus(b, m, mode)
  PROVE  BridgeInv' /\ EventInv' /\ sess' = sess
<1>1. BridgeTypeOK /\ WorkerInv /\ NoOrphanSession
  BY DEF BridgeInv
<1>2. sess' = sess
  BY DEF TickAlive, QueueVerdict, ClearOta, UnflagOta, ReceiveNothing, ReportProgress, Reconnect,
         LinkLost, ReceiveStatus
<1>3. /\ linkUp \in [Bridges -> BOOLEAN] /\ wanted \in [Bridges -> BOOLEAN]
      /\ ota \in [Bridges -> 0 .. Len(sess)] /\ held \in [Bridges -> 0 .. Len(sess)]
      /\ at \in [Bridges -> Places] /\ flag \in [Nodes -> BOOLEAN] /\ eq \in Seq(Event)
      /\ Len(sess) \in Nat
  BY <1>1, BridgeTypes DEF BridgeTypeOK
(* Where the worker goes, and what it then has in its hands.               *)
<1> DEFINE Holds(p, s) == p \in InHands => s # 0 /\ ~ Running(s) /\ Home[sess[s].mac] = b
<1>4. /\ linkUp' \in [Bridges -> BOOLEAN] /\ wanted' \in [Bridges -> BOOLEAN] /\ flag' \in [Nodes -> BOOLEAN]
  <2>1. CASE UnflagOta(b)
    BY <1>3, <2>1 DEF UnflagOta
  <2>2. CASE \E m \in Nodes, mode \in BOOLEAN : ReceiveStatus(b, m, mode)
    BY <1>3, <2>2 DEF ReceiveStatus
  <2>3. CASE Reconnect(b) \/ LinkLost(b)
    BY <1>3, <2>3 DEF Reconnect, LinkLost
  <2> QED BY <1>3, <2>1, <2>2, <2>3 DEF TickAlive, QueueVerdict, ClearOta, ReceiveNothing, ReportProgress
<1>5. \/ UNCHANGED <<at, held>>
      \/ \E p \in Places, s \in 0 .. Len(sess) : Move(b, p, s) /\ Holds(p, s)
  <2>1. 0 \in 0 .. Len(sess) /\ {"rx", "tick", "clear", "unflag"} \subseteq Places
        /\ "rx" \notin InHands /\ "tick" \notin InHands
    BY <1>3 DEF Places, InHands
  <2>2. CASE TickAlive(b)
    <3>1. CASE Move(b, "rx", 0)
      BY <2>1, <3>1
    <3>2. CASE ota[b] # 0 /\ ~ Running(ota[b]) /\ Move(b, "clear", ota[b])
      <4>1. ota[b] \in 0 .. Len(sess) /\ Holds("clear", ota[b])
        BY <1>1, <1>3, <3>2 DEF WorkerInv
      <4> QED BY <2>1, <3>2, <4>1
    <3> QED BY <2>2, <3>1, <3>2 DEF TickAlive
  <2>3. CASE QueueVerdict(b) \/ ClearOta(b)
    <3>1. at[b] \in InHands /\ held[b] \in 0 .. Len(sess)
      BY <1>3, <2>3 DEF QueueVerdict, ClearOta, InHands
    <3>2. \A p \in Places : Holds(p, held[b])
      BY <1>1, <3>1 DEF WorkerInv
    <3>3. Move(b, "clear", held[b]) \/ Move(b, "unflag", held[b]) \/ Move(b, "tick", 0)
      BY <2>3 DEF QueueVerdict, ClearOta
    <3> HIDE DEF Holds
    <3>4. Holds("tick", 0)
      BY <2>1 DEF Holds
    <3> QED BY <2>1, <3>1, <3>2, <3>3, <3>4
  <2>4. CASE \/ UnflagOta(b) \/ ReceiveNothing(b) \/ ReportProgress(b)
             \/ \E m \in Nodes, mode \in BOOLEAN : ReceiveStatus(b, m, mode)
    <3>1. Move(b, "rx", 0) \/ Move(b, "tick", 0)
      BY <2>4 DEF UnflagOta, ReceiveNothing, ReportProgress, ReceiveStatus
    <3>2. Holds("rx", 0) /\ Holds("tick", 0)
      BY <2>1
    <3> HIDE DEF Holds
    <3> QED BY <2>1, <3>1, <3>2
  <2> QED BY <2>2, <2>3, <2>4 DEF Reconnect, LinkLost
<1>6. /\ at' \in [Bridges -> Places] /\ held' \in [Bridges -> 0 .. Len(sess)]
      /\ \A c \in Bridges : at'[c] \in InHands =>
            held'[c] # 0 /\ ~ Running(held'[c]) /\ Home[sess[held'[c]].mac] = c
  <2>1. CASE UNCHANGED <<at, held>>
    BY <1>1, <1>3, <2>1 DEF WorkerInv
  <2>2. ASSUME NEW p \in Places, NEW s \in 0 .. Len(sess), Move(b, p, s), Holds(p, s)
        PROVE  /\ at' \in [Bridges -> Places] /\ held' \in [Bridges -> 0 .. Len(sess)]
               /\ \A c \in Bridges : at'[c] \in InHands =>
                     held'[c] # 0 /\ ~ Running(held'[c]) /\ Home[sess[held'[c]].mac] = c
    <3>1. /\ at' \in [Bridges -> Places] /\ held' \in [Bridges -> 0 .. Len(sess)]
          /\ at'[b] = p /\ held'[b] = s
          /\ \A c \in Bridges : c # b => at'[c] = at[c] /\ held'[c] = held[c]
      BY <1>3, <2>2 DEF Move
    <3> QED BY <1>1, <2>2, <3>1 DEF WorkerInv
  <2> QED BY <1>5, <2>1, <2>2
(* A worker drops a session only when it is over.                          *)
<1>7. /\ ota' \in [Bridges -> 0 .. Len(sess)]
      /\ \A c \in Bridges : ota'[c] = ota[c] \/ (ota'[c] = 0 /\ ~ Running(ota[c]))
  <2>1. CASE ClearOta(b)
    <3>1. at[b] \in InHands /\ ~ Running(held[b])
      BY <1>1, <2>1 DEF ClearOta, InHands, WorkerInv
    <3>2. ota' = [ota EXCEPT ![b] = IF @ = held[b] THEN 0 ELSE @]
      BY <2>1 DEF ClearOta
    <3>3. ota' \in [Bridges -> 0 .. Len(sess)]
      BY <1>3, <3>2
    <3>4. ASSUME NEW c \in Bridges
          PROVE  ota'[c] = ota[c] \/ (ota'[c] = 0 /\ ~ Running(ota[c]))
      BY <1>3, <3>1, <3>2
    <3> QED BY <3>3, <3>4
  <2>2. CASE ~ ClearOta(b)
    <3>1. ota' = ota
      BY <2>2 DEF TickAlive, QueueVerdict, UnflagOta, ReceiveNothing, ReportProgress, Reconnect,
                  LinkLost, ReceiveStatus
    <3> QED BY <1>3, <3>1
  <2> QED BY <2>1, <2>2
<1>8. eq' \in Seq(Event) /\ EventInv'
  <2>1. CASE QueueVerdict(b)
    <3> DEFINE s == held[b]
               k == IF sess[s].state = "done" THEN "ota_done" ELSE "ota_error"
    <3>1. s \in DOMAIN sess /\ ~ Running(s) /\ s # 0 /\ sess[s].mac \in Nodes
      <4>1. at[b] \in InHands
        BY <2>1 DEF QueueVerdict, InHands
      <4> QED BY <1>1, <4>1, BridgeTypes DEF WorkerInv
    <3>2. sess[s].state \in {"done", "error"}
      BY <1>1, <3>1, BridgeTypes DEF Running, Session
    <3>3. Emit(k, sess[s].mac) /\ k \in {"ota_progress", "ota_done", "ota_error"}
      BY <2>1 DEF QueueVerdict
    <3> HIDE DEF s
    <3>4. /\ eq' \in Seq(Event)
          /\ \A i \in DOMAIN eq' :
               (i \in DOMAIN eq /\ eq'[i] = eq[i]) \/ (eq'[i].kind = k /\ eq'[i].mac = sess[s].mac)
      <4> HIDE DEF k
      <4> QED BY <1>1, <3>1, <3>3, EmitFacts
    <3>5. \A e : e.kind = k /\ e.mac = sess[s].mac => Speaks(e, s)
      BY <3>2 DEF Speaks
    <3> QED BY <1>2, <3>1, <3>4, <3>5 DEF EventInv, Speaks
  <2>2. CASE ReportProgress(b)
    <3> DEFINE s == ota[b]
    <3>1. s \in DOMAIN sess /\ sess[s].mac \in Nodes /\ Emit("ota_progress", sess[s].mac)
      BY <1>1, <2>2, BridgeTypes DEF ReportProgress, Running
    <3> HIDE DEF s
    <3>2. /\ eq' \in Seq(Event)
          /\ \A i \in DOMAIN eq' : (i \in DOMAIN eq /\ eq'[i] = eq[i])
               \/ (eq'[i].kind = "ota_progress" /\ eq'[i].mac = sess[s].mac)
      BY <1>1, <3>1, EmitFacts
    <3>3. \A e : e.kind = "ota_progress" /\ e.mac = sess[s].mac => Speaks(e, s)
      BY DEF Speaks
    <3> QED BY <1>2, <3>1, <3>2, <3>3 DEF EventInv, Speaks
  <2>3. CASE ~ QueueVerdict(b) /\ ~ ReportProgress(b)
    <3>1. eq' = eq
      BY <2>3 DEF TickAlive, ClearOta, UnflagOta, ReceiveNothing, Reconnect, LinkLost, ReceiveStatus
    <3> QED BY <1>2, <1>3, <3>1 DEF EventInv, Speaks
  <2> QED BY <2>1, <2>2, <2>3
<1>9. BridgeTypeOK'
  BY <1>1, <1>2, <1>4, <1>6, <1>7, <1>8 DEF BridgeTypeOK
<1>10. WorkerInv'
  BY <1>1, <1>2, <1>6, <1>7 DEF WorkerInv, Running
<1>11. NoOrphanSession'
  <2>1. ASSUME NEW s \in DOMAIN sess, Running(s)
        PROVE  ota'[Home[sess[s].mac]] = s
    <3>1. ota[Home[sess[s].mac]] = s /\ Home[sess[s].mac] \in Bridges
      BY <1>1, <2>1, BridgeTypes DEF NoOrphanSession
    <3> QED BY <1>7, <2>1, <3>1
  <2> QED BY <1>2, <2>1 DEF NoOrphanSession, Running
<1> QED BY <1>2, <1>8, <1>9, <1>10, <1>11 DEF BridgeInv

(* Nothing in the hands of a worker becomes untrue while sessions end.     *)
LEMMA SpeaksStill ==
  ASSUME EventInv, SessionsGrow, eq' = eq
  PROVE  EventInv'
<1>1. ASSUME NEW i \in DOMAIN eq
      PROVE  \E s \in DOMAIN sess' : Speaks(eq[i], s)'
  <2>1. PICK s \in DOMAIN sess : Speaks(eq[i], s)
    BY DEF EventInv
  <2>2. s \in DOMAIN sess' /\ sess'[s].mac = sess[s].mac
        /\ (sess[s].state # "running" => sess'[s].state = sess[s].state)
    BY DEF SessionsGrow
  <2>3. Speaks(eq[i], s)'
    BY <2>1, <2>2 DEF Speaks
  <2> QED BY <2>2, <2>3
<1> QED BY <1>1 DEF EventInv, Speaks

LEMMA EndKeeps ==
  ASSUME BridgeInv, EventInv, NEW b \in Bridges, TickEnds(b) \/ ReceiveEnds(b)
  PROVE  BridgeInv' /\ EventInv' /\ SessionsGrow /\ DOMAIN sess' = DOMAIN sess
<1>1. BridgeTypeOK /\ WorkerInv /\ NoOrphanSession
  BY DEF BridgeInv
<1> DEFINE s0 == ota[b]
<1>2. Running(s0) /\ s0 \in DOMAIN sess /\ Home[sess[s0].mac] = b
  BY <1>1, BridgeTypes DEF TickEnds, ReceiveEnds, Running, WorkerInv
<1>3. PICK how \in {"done", "error"} : EndSession(s0, how)
  BY DEF TickEnds, ReceiveEnds
<1>4. PICK p \in {"tickVerdict", "rxVerdict"} : Move(b, p, s0)
  BY DEF TickEnds, ReceiveEnds
<1>5. UNCHANGED <<linkUp, wanted, ota, flag, eq>>
  BY DEF TickEnds, ReceiveEnds
<1> HIDE DEF s0
<1>6. /\ sess' \in Seq(Session) /\ DOMAIN sess' = DOMAIN sess /\ Len(sess') = Len(sess)
      /\ sess'[s0].state = how
      /\ \A s \in DOMAIN sess : /\ sess'[s].mac = sess[s].mac
                                /\ s # s0 => sess'[s].state = sess[s].state
      /\ SessionsGrow
  BY <1>1, <1>2, <1>3, EndFacts
<1>7. /\ at' \in [Bridges -> Places] /\ held' \in [Bridges -> 0 .. Len(sess)]
      /\ at'[b] = p /\ held'[b] = s0 /\ p \in InHands
      /\ \A c \in Bridges : c # b => at'[c] = at[c] /\ held'[c] = held[c]
  <2>1. s0 \in 0 .. Len(sess) /\ p \in Places /\ p \in InHands
    BY <1>1, <1>2, BridgeTypes DEF Places, InHands
  <2>2. at \in [Bridges -> Places] /\ held \in [Bridges -> 0 .. Len(sess)]
    BY <1>1 DEF BridgeTypeOK
  <2> QED BY <1>4, <2>1, <2>2 DEF Move
<1>8. BridgeTypeOK'
  BY <1>1, <1>5, <1>6, <1>7 DEF BridgeTypeOK
<1>9. \A s \in DOMAIN sess :
        /\ sess'[s].mac = sess[s].mac
        /\ sess'[s].state = "running" => s # s0 /\ sess[s].state = "running"
  <2>1. sess'[s0].state # "running"
    BY <1>3, <1>6
  <2>2. ASSUME NEW s \in DOMAIN sess, sess'[s].state = "running"
        PROVE  s # s0 /\ sess[s].state = "running"
    <3>1. s # s0
      BY <2>1, <2>2
    <3> QED BY <1>6, <2>2, <3>1
  <2>3. \A s \in DOMAIN sess : sess'[s].mac = sess[s].mac
    BY <1>6
  <2> QED BY <2>2, <2>3
<1>10. WorkerInv'
  <2> SUFFICES ASSUME NEW c \in Bridges
               PROVE  /\ ota'[c] # 0 => Home[sess'[ota'[c]].mac] = c
                      /\ at'[c] \in InHands =>
                           held'[c] # 0 /\ ~(held'[c] # 0 /\ sess'[held'[c]].state = "running")
                           /\ Home[sess'[held'[c]].mac] = c
    BY DEF WorkerInv, Running
  <2>1. ota'[c] # 0 => Home[sess'[ota'[c]].mac] = c
    <3>1. ota[c] # 0 => ota[c] \in DOMAIN sess /\ Home[sess[ota[c]].mac] = c
      BY <1>1, BridgeTypes DEF WorkerInv
    <3>2. ota'[c] = ota[c]
      BY <1>5
    <3> QED BY <1>9, <3>1, <3>2
  <2>2. CASE c = b
    <3>1. sess'[s0].state # "running" /\ sess'[s0].mac = sess[s0].mac /\ s0 # 0
      BY <1>2, <1>9 DEF Running
    <3> QED BY <1>2, <1>7, <2>1, <2>2, <3>1
  <2>3. CASE c # b
    <3>1. at'[c] = at[c] /\ held'[c] = held[c]
      BY <1>7, <2>3
    <3>2. at[c] \in InHands => held[c] # 0 /\ held[c] \in DOMAIN sess /\ ~ Running(held[c])
                              /\ Home[sess[held[c]].mac] = c
      BY <1>1, BridgeTypes DEF WorkerInv
    <3> QED BY <1>9, <2>1, <3>1, <3>2 DEF Running
  <2> QED BY <2>2, <2>3
<1>11. NoOrphanSession'
  <2>1. ASSUME NEW s \in DOMAIN sess', Running(s)'
        PROVE  ota'[Home[sess'[s].mac]] = s
    <3>1. s \in DOMAIN sess /\ Running(s) /\ sess'[s].mac = sess[s].mac
      BY <1>6, <1>9, <2>1 DEF Running
    <3> QED BY <1>1, <1>5, <3>1 DEF NoOrphanSession
  <2> QED BY <2>1 DEF NoOrphanSession
<1>12. EventInv'
  BY <1>5, <1>6, SpeaksStill
<1> QED BY <1>6, <1>8, <1>10, <1>11, <1>12 DEF BridgeInv

LEMMA WorkerKeeps ==
  ASSUME BridgeInv, EventInv, NEW b \in Bridges, WorkerStep(b) \/ Reconnect(b) \/ LinkLost(b)
  PROVE  BridgeInv' /\ EventInv' /\ SessionsGrow /\ DOMAIN sess' = DOMAIN sess
<1>1. CASE TickEnds(b) \/ ReceiveEnds(b)
  BY <1>1, EndKeeps
<1>2. CASE ~(TickEnds(b) \/ ReceiveEnds(b))
  <2>1. BridgeInv' /\ EventInv' /\ sess' = sess
    BY <1>2, LoopKeeps DEF WorkerStep
  <2> QED BY <2>1 DEF SessionsGrow
<1> QED BY <1>1, <1>2

LEMMA AbortKeeps ==
  ASSUME BridgeInv, EventInv, NEW bs, AbortOta(bs),
         linkUp' \in [Bridges -> BOOLEAN], wanted' \in [Bridges -> BOOLEAN],
         UNCHANGED <<ota, at, held, flag, eq>>
  PROVE  BridgeInv' /\ EventInv' /\ SessionsGrow /\ DOMAIN sess' = DOMAIN sess
<1>1. BridgeTypeOK /\ WorkerInv /\ NoOrphanSession
  BY DEF BridgeInv
<1>2. /\ sess' \in Seq(Session) /\ DOMAIN sess' = DOMAIN sess /\ Len(sess') = Len(sess)
      /\ \A s \in DOMAIN sess : sess'[s].mac = sess[s].mac /\ sess'[s].state = sess[s].state
      /\ SessionsGrow
  BY <1>1, AbortFacts
<1>3. BridgeTypeOK'
  BY <1>1, <1>2 DEF BridgeTypeOK
<1>4. WorkerInv'
  <2> SUFFICES ASSUME NEW c \in Bridges
               PROVE  /\ ota'[c] # 0 => Home[sess'[ota'[c]].mac] = c
                      /\ at'[c] \in InHands =>
                           held'[c] # 0 /\ ~(held'[c] # 0 /\ sess'[held'[c]].state = "running")
                           /\ Home[sess'[held'[c]].mac] = c
    BY DEF WorkerInv, Running
  <2>1. /\ ota[c] # 0 => ota[c] \in DOMAIN sess /\ Home[sess[ota[c]].mac] = c
        /\ at[c] \in InHands => held[c] # 0 /\ held[c] \in DOMAIN sess /\ sess[held[c]].state # "running"
                                /\ Home[sess[held[c]].mac] = c
    BY <1>1, BridgeTypes DEF WorkerInv, Running
  <2> QED BY <1>2, <2>1
<1>5. NoOrphanSession'
  BY <1>1, <1>2 DEF NoOrphanSession, Running
<1> QED BY <1>2, <1>3, <1>4, <1>5, SpeaksStill DEF BridgeInv

(* start_ota() replaces only a session that is over.                       *)
LEMMA StartKeeps ==
  ASSUME BridgeInv, EventInv, NEW m \in Nodes, StartOta(m)
  PROVE  BridgeInv' /\ EventInv'
<1>1. BridgeTypeOK /\ WorkerInv /\ NoOrphanSession
  BY DEF BridgeInv
<1> DEFINE n == Len(sess) + 1
<1>2. /\ sess' \in Seq(Session) /\ Len(sess') = n
      /\ DOMAIN sess' = DOMAIN sess \cup {n} /\ n \notin DOMAIN sess
      /\ sess'[n].mac = m /\ sess'[n].state = "running"
      /\ \A s \in DOMAIN sess : sess'[s] = sess[s]
      /\ SessionsGrow
  BY <1>1, StartFacts
<1>3. /\ ~ Running(ota[Home[m]]) /\ ota' = [ota EXCEPT ![Home[m]] = n]
      /\ Emit("ota_progress", m) /\ UNCHANGED <<linkUp, wanted, at, held, flag>>
  BY DEF StartOta, OtaStartable, OtaActive
<1>4. /\ eq' \in Seq(Event)
      /\ \A i \in DOMAIN eq' : (i \in DOMAIN eq /\ eq'[i] = eq[i])
           \/ (eq'[i].kind = "ota_progress" /\ eq'[i].mac = m)
  BY <1>1, <1>3, EmitFacts
<1>5. Len(sess) \in Nat /\ Home[m] \in Bridges /\ n # 0
  BY <1>1, BridgeTypes
<1>6. /\ ota' \in [Bridges -> 0 .. n] /\ ota'[Home[m]] = n
      /\ \A c \in Bridges : c # Home[m] => ota'[c] = ota[c]
  <2>1. ota \in [Bridges -> 0 .. Len(sess)]
    BY <1>1 DEF BridgeTypeOK
  <2>2. ota \in [Bridges -> 0 .. n] /\ n \in 0 .. n
    BY <1>5, <2>1
  <2> HIDE DEF n
  <2> QED BY <1>3, <1>5, <2>2
<1>7. held \in [Bridges -> 0 .. n]
  <2>1. held \in [Bridges -> 0 .. Len(sess)]
    BY <1>1 DEF BridgeTypeOK
  <2> QED BY <1>5, <2>1
<1> HIDE DEF n
<1>8. BridgeTypeOK'
  BY <1>1, <1>2, <1>3, <1>4, <1>6, <1>7 DEF BridgeTypeOK
<1>9. WorkerInv'
  <2> SUFFICES ASSUME NEW c \in Bridges
               PROVE  /\ ota'[c] # 0 => Home[sess'[ota'[c]].mac] = c
                      /\ at'[c] \in InHands =>
                           held'[c] # 0 /\ ~(held'[c] # 0 /\ sess'[held'[c]].state = "running")
                           /\ Home[sess'[held'[c]].mac] = c
    BY DEF WorkerInv, Running
  <2>1. /\ ota[c] # 0 => ota[c] \in DOMAIN sess /\ Home[sess[ota[c]].mac] = c
        /\ at[c] \in InHands => held[c] # 0 /\ held[c] \in DOMAIN sess /\ sess[held[c]].state # "running"
                                /\ Home[sess[held[c]].mac] = c
    BY <1>1, BridgeTypes DEF WorkerInv, Running
  <2>2. ota'[c] # 0 => Home[sess'[ota'[c]].mac] = c
    BY <1>2, <1>6, <2>1
  <2> QED BY <1>2, <1>3, <2>1, <2>2
<1>10. NoOrphanSession'
  <2> SUFFICES ASSUME NEW s \in DOMAIN sess', Running(s)'
               PROVE  ota'[Home[sess'[s].mac]] = s
    BY DEF NoOrphanSession
  <2>1. CASE s = n
    BY <1>2, <1>6, <2>1
  <2>2. CASE s # n
    <3>1. s \in DOMAIN sess /\ Running(s) /\ sess'[s].mac = sess[s].mac
      BY <1>2, <2>2 DEF Running
    <3>2. ota[Home[sess[s].mac]] = s /\ Home[sess[s].mac] \in Bridges
      BY <1>1, <3>1, BridgeTypes DEF NoOrphanSession
    <3>3. Home[sess[s].mac] # Home[m]
      BY <1>3, <3>1, <3>2
    <3> QED BY <1>6, <3>1, <3>2, <3>3
  <2> QED BY <2>1, <2>2
<1>11. EventInv'
  <2> SUFFICES ASSUME NEW i \in DOMAIN eq'
               PROVE  \E s \in DOMAIN sess' : Speaks(eq[i], s)'
    BY DEF EventInv
  <2>1. CASE i \in DOMAIN eq /\ eq'[i] = eq[i]
    <3>1. PICK s \in DOMAIN sess : Speaks(eq[i], s)
      BY <2>1 DEF EventInv
    <3>2. s \in DOMAIN sess' /\ sess'[s] = sess[s]
      BY <1>2
    <3> QED BY <2>1, <3>1, <3>2 DEF Speaks
  <2>2. CASE eq'[i].kind = "ota_progress" /\ eq'[i].mac = m
    <3>1. n \in DOMAIN sess' /\ sess'[n].mac = m
      BY <1>2
    <3> QED BY <2>2, <3>1 DEF Speaks
  <2> QED BY <1>4, <2>1, <2>2
<1> QED BY <1>8, <1>9, <1>10, <1>11 DEF BridgeInv

-----------------------------------------------------------------------------
(* The queues and the tasks.                                               *)

(* SetToSeq lists the elements of a finite set, each once.                 *)
LEMMA SetToSeqFacts ==
  ASSUME NEW S, IsFiniteSet(S)
  PROVE  /\ SetToSeq(S) \in Seq(S)
         /\ Once(SetToSeq(S))
         /\ ToSet(SetToSeq(S)) = S
<1> DEFINE n == Cardinality(S)
           f == SetToSeq(S)
<1>1. n \in Nat /\ ExistsBijection(1 .. n, S)
  BY FS_CardinalityType
<1>2. \E g \in [1 .. n -> S] : IsInjective(g)
  BY <1>1 DEF ExistsBijection, Bijection, Injection
<1>3. f \in [1 .. n -> S] /\ IsInjective(f)
  BY <1>2 DEF SetToSeq
<1>4. f \in Injection(1 .. n, S)
  BY <1>3 DEF Injection
<1>5. IsFiniteSet(1 .. n) /\ Cardinality(1 .. n) = n
  BY <1>1, FS_Interval
<1>6. f \in Surjection(1 .. n, S)
  BY <1>4, <1>5, FS_Injection
<1> HIDE DEF f, n
<1>7. ToSet(f) = S
  BY <1>3, <1>6 DEF Surjection, ToSet
<1>8. Once(f)
  BY <1>3 DEF IsInjective, Once
<1>9. f \in Seq(S)
  BY <1>1, <1>3
<1> QED BY <1>7, <1>8, <1>9 DEF f

LEMMA OnceTail ==
  ASSUME NEW S, NEW s \in Seq(S), s # <<>>, Once(s)
  PROVE  /\ Once(Tail(s))
         /\ Head(s) \in ToSet(s) /\ Head(s) \notin ToSet(Tail(s))
         /\ \A x : x \in ToSet(Tail(s)) <=> x \in ToSet(s) /\ x # Head(s)
<1>1. /\ Head(s) = s[1] /\ 1 \in DOMAIN s
      /\ \A i \in DOMAIN Tail(s) : i + 1 \in DOMAIN s /\ Tail(s)[i] = s[i + 1] /\ i \in Nat /\ i # 0
  BY TailFacts
<1>2. \A i \in DOMAIN s : i = 1 \/ (i - 1 \in DOMAIN Tail(s) /\ Tail(s)[i - 1] = s[i])
  <2> SUFFICES ASSUME NEW i \in DOMAIN s, i # 1
               PROVE  i - 1 \in DOMAIN Tail(s) /\ Tail(s)[i - 1] = s[i]
    OBVIOUS
  <2>1. i - 1 \in DOMAIN Tail(s) /\ (i - 1) + 1 = i
    BY TailFacts
  <2> QED BY <1>1, <2>1
<1>3. Once(Tail(s))
  <2> SUFFICES ASSUME NEW i \in DOMAIN Tail(s), NEW j \in DOMAIN Tail(s), Tail(s)[i] = Tail(s)[j]
               PROVE  i = j
    BY DEF Once
  <2>1. i + 1 = j + 1
    BY <1>1 DEF Once
  <2> QED BY <1>1, <2>1
<1>4. ASSUME NEW i \in DOMAIN Tail(s)
      PROVE  Tail(s)[i] # Head(s) /\ Tail(s)[i] \in ToSet(s)
  BY <1>1 DEF Once, ToSet
<1>5. Head(s) \in ToSet(s)
  BY <1>1 DEF ToSet
<1>6. ASSUME NEW x, x \in ToSet(s), x # Head(s)
      PROVE  x \in ToSet(Tail(s))
  <2>1. PICK i \in DOMAIN s : s[i] = x
    BY <1>6 DEF ToSet
  <2>2. i # 1
    BY <1>1, <1>6, <2>1
  <2>3. i - 1 \in DOMAIN Tail(s) /\ Tail(s)[i - 1] = x
    BY <1>2, <2>1, <2>2
  <2> QED BY <2>3 DEF ToSet
<1> QED BY <1>3, <1>4, <1>5, <1>6 DEF ToSet

(* The tasks differ.                                                       *)
LEMMA TaskFacts ==
  /\ \A b : Kick(b).op = "kick" /\ Kick(b).bridge = b
  /\ \A m, x : Start(m, x).op = "start" /\ Start(m, x).mac = m /\ Start(m, x).batch = x
  /\ \A m : Flag(m).op = "flag"
  /\ Begun.op = "begun"
  /\ \A m, n : Start(m, TRUE) # Start(n, FALSE)
  /\ \A m, n : Start(m, TRUE) = Start(n, TRUE) => m = n
  /\ \A m \in Nodes : Start(m, TRUE) \in Tasks /\ Start(m, FALSE) \in Tasks /\ Flag(m) \in Tasks
  /\ \A b \in Bridges : Kick(b) \in Tasks
  /\ Begun \in Tasks
  /\ \A t, m : t \in Starts(m) => t.op = "start"
<1>1. ASSUME NEW m, NEW n, Start(m, TRUE) = Start(n, FALSE)
      PROVE  FALSE
  <2>1. Start(m, TRUE).batch = TRUE /\ Start(n, FALSE).batch = FALSE
    BY DEF Start
  <2>2. Start(m, TRUE).batch = Start(n, FALSE).batch
    BY <1>1
  <2> QED BY <2>1, <2>2
<1>2. ASSUME NEW m, NEW n, Start(m, TRUE) = Start(n, TRUE)
      PROVE  m = n
  <2>1. Start(m, TRUE).mac = m /\ Start(n, TRUE).mac = n
    BY DEF Start
  <2> QED BY <1>2, <2>1
<1>3. ASSUME NEW m \in Nodes, NEW x \in BOOLEAN
      PROVE  Start(m, x) \in Tasks
  <2> DEFINE S == {Start(n, y) : n \in Nodes, y \in BOOLEAN}
  <2>1. S \subseteq Tasks
    BY DEF Tasks
  <2>2. Start(m, x) \in S
    OBVIOUS
  <2> QED BY <2>1, <2>2
<1>4. \A m \in Nodes : Start(m, TRUE) \in Tasks /\ Start(m, FALSE) \in Tasks
  BY <1>3
<1>5. \A m \in Nodes : Flag(m) \in Tasks
  BY DEF Tasks
<1>6. \A b \in Bridges : Kick(b) \in Tasks
  BY DEF Tasks
<1>7. Begun \in Tasks
  BY DEF Tasks
<1>8. \A t, m : t \in Starts(m) => t.op = "start"
  BY DEF Starts, Start
<1> QED BY <1>1, <1>2, <1>4, <1>5, <1>6, <1>7, <1>8 DEF Kick, Start, Flag, Begun

(* The first task is done, or another one takes its place.                 *)
LEMMA TaskDone ==
  ASSUME todo \in Seq(Tasks), todo # <<>>
  PROVE  /\ Head(todo) \in Tasks
         /\ Tail(todo) \in Seq(Tasks)
         /\ (\A i \in DOMAIN todo : \A m \in Nodes : todo[i] \in Starts(m) => i = 1) =>
              \A i \in DOMAIN Tail(todo) : \A m \in Nodes : Tail(todo)[i] \notin Starts(m)
<1>1. \A i \in DOMAIN Tail(todo) : i + 1 \in DOMAIN todo /\ Tail(todo)[i] = todo[i + 1] /\ i + 1 # 1
  BY TailFacts
<1> QED BY <1>1, TailFacts

LEMMA TaskFirst ==
  ASSUME NEW t \in Tasks, NEW rest \in Seq(Tasks)
  PROVE  /\ <<t>> \o rest \in Seq(Tasks) /\ <<t>> \o rest # <<>> /\ Head(<<t>> \o rest) = t
         /\ \A i \in DOMAIN (<<t>> \o rest) :
              i # 1 => i - 1 \in DOMAIN rest /\ (<<t>> \o rest)[i] = rest[i - 1]
<1>1. /\ <<t>> \o rest \in Seq(Tasks) /\ <<t>> \o rest # <<>>
      /\ Len(<<t>> \o rest) = Len(rest) + 1
      /\ Head(<<t>> \o rest) = t
  OBVIOUS
<1>2. ASSUME NEW i \in DOMAIN (<<t>> \o rest), i # 1
      PROVE  i - 1 \in DOMAIN rest /\ (<<t>> \o rest)[i] = rest[i - 1]
  BY <1>1, <1>2
<1> QED BY <1>1, <1>2

-----------------------------------------------------------------------------
(* Counting.                                                               *)

With(st, v) == {m \in Nodes : st[m] = v}

LEMMA WithFinite ==
  ASSUME NEW st, NEW v
  PROVE  IsFiniteSet(With(st, v)) /\ Cardinality(With(st, v)) \in Nat
<1>1. IsFiniteSet(With(st, v))
  BY FiniteAssumption, FS_Subset DEF With
<1> QED BY <1>1, FS_CardinalityType

(* A node gets a status it did not have.                                   *)
LEMMA StatusSet ==
  ASSUME status \in [Nodes -> Statuses], NEW m \in Nodes, NEW v, status[m] # v,
         status' = [status EXCEPT ![m] = v]
  PROVE  /\ Cardinality(With(status', v)) = Cardinality(With(status, v)) + 1
         /\ \A w : w # v /\ w # status[m] => With(status', w) = With(status, w)
         /\ \A n \in Nodes : status'[n] = IF n = m THEN v ELSE status[n]
<1>1. \A n \in Nodes : status'[n] = IF n = m THEN v ELSE status[n]
  OBVIOUS
<1>2. With(status', v) = With(status, v) \cup {m} /\ m \notin With(status, v)
  BY <1>1 DEF With
<1>3. Cardinality(With(status', v)) = Cardinality(With(status, v)) + 1
  BY <1>2, WithFinite, FS_AddElement
<1>4. \A w : w # v /\ w # status[m] => With(status', w) = With(status, w)
  BY <1>1 DEF With
<1> QED BY <1>1, <1>3, <1>4

(* The sessions of a node are finitely many; a queue and the first task    *)
(* add at most one each.                                                   *)
LEMMA OrderTypes ==
  ASSUME BridgeTypeOK, NEW m
  PROVE  /\ IsFiniteSet(SessionsOf(m)) /\ Cardinality(SessionsOf(m)) \in Nat
         /\ Queued(m) \in {0, 1} /\ Starting(m) \in {0, 1}
<1>1. IsFiniteSet(DOMAIN sess)
  BY BridgeTypes, FS_Interval
<1>2. IsFiniteSet(SessionsOf(m))
  BY <1>1, FS_Subset DEF SessionsOf
<1> QED BY <1>2, FS_CardinalityType DEF Queued, Starting

(* A node that may still get its session has none under the first order,   *)
(* and never more than one.                                                *)
LEMMA FirstOrder ==
  ASSUME BridgeTypeOK, OrderInv, orders <= 1, orders \in Nat, NEW m \in Nodes
  PROVE  /\ \A s, r \in SessionsOf(m) : s = r
         /\ m \in ToSet(queue[Home[m]]) => SessionsOf(m) = {} /\ ~ StartsNext(m)
         /\ StartsNext(m) => SessionsOf(m) = {}
<1>1. /\ Cardinality(SessionsOf(m)) \in Nat /\ IsFiniteSet(SessionsOf(m))
      /\ Queued(m) \in {0, 1} /\ Starting(m) \in {0, 1}
      /\ Cardinality(SessionsOf(m)) + Queued(m) + Starting(m) <= 1
  BY OrderTypes DEF OrderInv
<1>2. Cardinality(SessionsOf(m)) = 0 => SessionsOf(m) = {}
  BY <1>1, FS_EmptySet
<1>3. Cardinality(SessionsOf(m)) = 1 => \E s : SessionsOf(m) = {s}
  BY <1>1, FS_Singleton
<1>4. Cardinality(SessionsOf(m)) \in {0, 1}
  BY <1>1
<1>5. Queued(m) = 1 => SessionsOf(m) = {} /\ Starting(m) = 0
  BY <1>1, <1>2
<1>6. Starting(m) = 1 => SessionsOf(m) = {}
  BY <1>1, <1>2
<1> QED BY <1>2, <1>3, <1>4, <1>5, <1>6 DEF Queued, Starting

-----------------------------------------------------------------------------
(* The steps that leave the batch alone.                                   *)

(* The verdicts stay true while sessions end.                              *)
LEMMA VerdictsStay ==
  ASSUME BridgeTypeOK, VerdictsAreTrue, SessionsGrow, DOMAIN sess' = DOMAIN sess,
         UNCHANGED <<status, orders>>
  PROVE  VerdictsAreTrue'
<1> SUFFICES ASSUME NEW m \in Nodes
             PROVE  /\ status[m] = "DONE" =>
                         \E s \in DOMAIN sess : sess'[s].mac = m /\ sess'[s].state = "done"
                    /\ status[m] = "FAILED" /\ orders <= 1 =>
                         \A s \in DOMAIN sess : sess'[s].mac = m => sess'[s].state = "error"
  BY DEF VerdictsAreTrue
<1>1. \A s \in DOMAIN sess :
        /\ sess'[s].mac = sess[s].mac
        /\ sess[s].state \in {"done", "error"} => sess'[s].state = sess[s].state
  BY DEF SessionsGrow
<1> QED BY <1>1 DEF VerdictsAreTrue

LEMMA BatchStays ==
  ASSUME BatchInv, BridgeInv', EventInv', SessionsGrow, DOMAIN sess' = DOMAIN sess, UNCHANGED batchVars
  PROVE  BatchInv'
<1>1. /\ TypeOK /\ PlanInv /\ OrderInv /\ StatusInv
      /\ CountsAreRight /\ VerdictsAreTrue /\ NobodyLeftWaiting /\ BridgeTypeOK
  BY DEF BatchInv, TypeOK
<1>2. UNCHANGED <<active, status, queue, done, failed, todo, told, orders>>
  BY DEF batchVars
<1>3. TypeOK' /\ WorkerInv' /\ NoOrphanSession'
  BY <1>1, <1>2 DEF BridgeInv, TypeOK, BatchTypeOK
<1>4. PlanInv' /\ StatusInv' /\ CountsAreRight' /\ NobodyLeftWaiting'
  BY <1>1, <1>2 DEF PlanInv, StatusInv, CountsAreRight, NobodyLeftWaiting
<1>5. OrderInv'
  <2>1. \A m \in Nodes : SessionsOf(m)' = SessionsOf(m)
    BY DEF SessionsOf, SessionsGrow
  <2> QED BY <1>1, <1>2, <2>1 DEF OrderInv, Queued, Starting, StartsNext
<1>6. VerdictsAreTrue'
  BY <1>1, <1>2, VerdictsStay
<1> QED BY <1>3, <1>4, <1>5, <1>6 DEF BatchInv

-----------------------------------------------------------------------------
(* The steps of the GUI thread.                                            *)

LEMMA BridgeSame ==
  ASSUME BatchInv, UNCHANGED bridgeVars
  PROVE  BridgeInv' /\ EventInv' /\ SessionsGrow /\ DOMAIN sess' = DOMAIN sess
<1>1. UNCHANGED <<linkUp, wanted, sess, ota, at, held, flag, eq>>
  BY DEF bridgeVars
<1> QED BY <1>1 DEF BatchInv, BridgeInv, TypeOK, BridgeTypeOK, WorkerInv, NoOrphanSession, EventInv,
               Speaks, Running, SessionsGrow

(* The batch in parts, for any step.                                       *)
LEMMA BatchParts ==
  ASSUME BatchInv
  PROVE  /\ BridgeTypeOK /\ BridgeInv /\ EventInv /\ PlanInv /\ OrderInv /\ StatusInv
         /\ CountsAreRight /\ VerdictsAreTrue /\ NobodyLeftWaiting /\ TypeOK
         /\ active \in BOOLEAN /\ status \in [Nodes -> Statuses] /\ queue \in [Bridges -> Seq(Nodes)]
         /\ done \in Nat /\ failed \in Nat /\ todo \in Seq(Tasks)
         /\ told \in [kind : {"none", "started", "refused", "completed", "stopped"},
                      done : Nat, failed : Nat]
         /\ orders \in Nat /\ orders <= MaxOrders
  BY OrdersAssumption DEF BatchInv, BridgeInv, TypeOK, BatchTypeOK

LEMMA ReportType ==
  ASSUME NEW k \in {"none", "started", "refused", "completed", "stopped"}, NEW d \in Nat, NEW f \in Nat
  PROVE  /\ Report(k, d, f) \in [kind : {"none", "started", "refused", "completed", "stopped"},
                                 done : Nat, failed : Nat]
         /\ Report(k, d, f).kind = k
  BY DEF Report

(* The first task is done and no session is started next.                  *)
LEMMA TailPlan ==
  ASSUME BatchInv, todo # <<>>, todo' = Tail(todo)
  PROVE  /\ todo' \in Seq(Tasks)
         /\ \A i \in DOMAIN todo' : \A m \in Nodes : todo'[i] \notin Starts(m)
         /\ \A m \in Nodes : ~ StartsNext(m)' /\ ~(todo' # <<>> /\ Head(todo') \in Starts(m))
<1>1. /\ todo' \in Seq(Tasks)
      /\ \A i \in DOMAIN todo' : \A m \in Nodes : todo'[i] \notin Starts(m)
  BY BatchParts, TaskDone DEF PlanInv
<1>2. todo' # <<>> => Head(todo') = todo'[1] /\ 1 \in DOMAIN todo'
  BY <1>1, TailFacts
<1> QED BY <1>1, <1>2 DEF StartsNext

(* A batch that is found finished has nobody waiting.                      *)
LEMMA FinishFacts ==
  ASSUME BatchInv, NEW q, NEW f \in Nat, CheckFinished(q, f), done \in Nat,
         \A m \in Nodes : status'[m] = "PENDING" =>
            status[m] = "PENDING" /\ (active => q[Home[m]] # <<>>)
  PROVE  /\ active' \in BOOLEAN /\ (active' => active)
         /\ told' \in [kind : {"none", "started", "refused", "completed", "stopped"},
                       done : Nat, failed : Nat]
         /\ NobodyLeftWaiting'
<1>1. CASE active /\ BatchOver(q)
  <2>1. active' = FALSE /\ told' = Report("completed", done, f)
    BY <1>1 DEF CheckFinished
  <2>2. ASSUME NEW m \in Nodes, status'[m] = "PENDING"
        PROVE  FALSE
    <3>1. status[m] = "PENDING" /\ q[Home[m]] # <<>>
      BY <1>1, <2>2
    <3>2. Home[m] \in TargetBridges
      BY <3>1 DEF TargetBridges, Targets
    <3> QED BY <1>1, <3>1, <3>2 DEF BatchOver
  <2> QED BY <2>1, <2>2, ReportType DEF NobodyLeftWaiting
<1>2. CASE ~(active /\ BatchOver(q))
  <2>1. active' = active /\ told' = told
    BY <1>2 DEF CheckFinished
  <2> QED BY <2>1, BatchParts DEF NobodyLeftWaiting
<1> QED BY <1>1, <1>2

(* The sum of OrderInv does not grow.                                      *)
LEMMA OrderStays ==
  ASSUME BatchInv, SessionsGrow, DOMAIN sess' = DOMAIN sess, orders' = orders,
         \A m \in Nodes : Queued(m)' + Starting(m)' <= Queued(m) + Starting(m)
  PROVE  OrderInv'
<1> SUFFICES ASSUME NEW m \in Nodes
             PROVE  Cardinality(SessionsOf(m)') + Queued(m)' + Starting(m)' <= orders
  BY DEF OrderInv
<1>1. SessionsOf(m)' = SessionsOf(m)
  BY DEF SessionsOf, SessionsGrow
<1>2. Cardinality(SessionsOf(m)) + Queued(m) + Starting(m) <= orders
  BY BatchParts DEF OrderInv
<1>3. Cardinality(SessionsOf(m)) \in Nat /\ Queued(m) \in {0, 1} /\ Starting(m) \in {0, 1} /\ orders \in Nat
  BY BatchParts, OrderTypes
<1>4. Queued(m)' \in {0, 1} /\ Starting(m)' \in {0, 1}
  BY DEF Queued, Starting
<1>5. Queued(m)' + Starting(m)' <= Queued(m) + Starting(m)
  OBVIOUS
<1> QED BY <1>1, <1>2, <1>3, <1>4, <1>5

(* A step of the GUI thread that starts no session.                        *)
LEMMA GuiKeeps ==
  ASSUME BatchInv, BridgeInv', EventInv', SessionsGrow, DOMAIN sess' = DOMAIN sess, orders' = orders, BatchTypeOK', PlanInv', StatusInv',
         \A m \in Nodes : Queued(m)' + Starting(m)' <= Queued(m) + Starting(m),
         CountsAreRight', VerdictsAreTrue', NobodyLeftWaiting'
  PROVE  BatchInv'
<1>1. OrderInv'
  BY OrderStays
<1> QED BY <1>1 DEF BatchInv, BridgeInv, TypeOK

(* A task that only decides whether the batch is over.                     *)
LEMMA QuietKeeps ==
  ASSUME BatchInv, BridgeInv', EventInv', SessionsGrow, DOMAIN sess' = DOMAIN sess,
         UNCHANGED <<status, queue, done, failed, orders>>,
         todo # <<>>, todo' = Tail(todo), active' \in BOOLEAN, active' => active,
         told' \in [kind : {"none", "started", "refused", "completed", "stopped"},
                    done : Nat, failed : Nat],
         NobodyLeftWaiting'
  PROVE  BatchInv'
<1>1. /\ todo' \in Seq(Tasks)
      /\ \A i \in DOMAIN todo' : \A m \in Nodes : todo'[i] \notin Starts(m)
      /\ \A m \in Nodes : ~ StartsNext(m)' /\ ~(todo' # <<>> /\ Head(todo') \in Starts(m))
  BY TailPlan
<1>2. BatchTypeOK'
  BY <1>1, BatchParts DEF TypeOK, BatchTypeOK
<1>3. PlanInv'
  BY <1>1, BatchParts DEF PlanInv, Starts
<1>4. ASSUME NEW m \in Nodes
      PROVE  Queued(m)' + Starting(m)' <= Queued(m) + Starting(m)
  <2>1. Queued(m)' = Queued(m) /\ Starting(m)' = 0
    BY <1>1 DEF Queued, Starting
  <2> QED BY <2>1 DEF Queued, Starting
<1>5. StatusInv'
  <2>1. \A m \in Nodes : ~(todo' # <<>> /\ Head(todo') = Start(m, FALSE))
    BY <1>1 DEF Starts
  <2>2. StatusInv
    BY BatchParts
  <2> QED BY <2>1, <2>2 DEF StatusInv
<1>6. CountsAreRight' /\ VerdictsAreTrue'
  BY VerdictsStay, BatchParts DEF CountsAreRight
<1> QED BY <1>2, <1>3, <1>4, <1>5, <1>6, GuiKeeps

LEMMA BegunKeeps ==
  ASSUME BatchInv, BatchBegun
  PROVE  BatchInv'
<1>1. /\ todo # <<>> /\ todo' = Tail(todo)
      /\ UNCHANGED <<status, queue, done, failed, orders>> /\ UNCHANGED bridgeVars
      /\ \E k \in {"started", "refused"} : told' = Report(k, done, failed)
      /\ active' = active \/ active' = FALSE
  BY DEF BatchBegun
<1>2. PICK k \in {"started", "refused"} : told' = Report(k, done, failed)
  BY <1>1
<1>3. k \in {"none", "started", "refused", "completed", "stopped"} /\ done \in Nat /\ failed \in Nat
  BY BatchParts
<1>4. /\ Report(k, done, failed) \in [kind : {"none", "started", "refused", "completed", "stopped"},
                                      done : Nat, failed : Nat]
      /\ Report(k, done, failed).kind = k
  BY <1>3, ReportType
<1>5. NobodyLeftWaiting'
  BY <1>2, <1>4 DEF NobodyLeftWaiting
<1>6. active' \in BOOLEAN /\ (active' => active)
  <2>1. active \in BOOLEAN
    BY BatchParts
  <2>2. CASE active' = active
    BY <2>1, <2>2
  <2>3. CASE active' = FALSE
    BY <2>3
  <2> QED BY <1>1, <2>2, <2>3
<1> QED BY <1>1, <1>2, <1>4, <1>5, <1>6, QuietKeeps, BridgeSame

(* What is queued belongs to the bridge of the queue.                      *)
LEMMA QueueFacts ==
  ASSUME BatchInv
  PROVE  /\ \A b \in Bridges : /\ queue[b] \in Seq(Nodes) /\ Once(queue[b])
                               /\ \A m \in ToSet(queue[b]) : m \in Nodes /\ Home[m] = b
         /\ \A m \in Nodes : Home[m] \in Bridges
         /\ \A m \in Nodes : active /\ status[m] = "PENDING" => queue[Home[m]] # <<>>
         /\ ToSet(<<>>) = {}
<1>1. ASSUME NEW b \in Bridges
      PROVE  queue[b] \in Seq(Nodes) /\ Once(queue[b])
  BY BatchParts DEF PlanInv
<1>2. ASSUME NEW b \in Bridges, NEW m \in ToSet(queue[b])
      PROVE  m \in Nodes /\ Home[m] = b
  <2>1. PICK i \in DOMAIN queue[b] : m = queue[b][i]
    BY <1>2 DEF ToSet
  <2>2. queue[b][i] \in Nodes
    BY <1>1, <2>1
  <2> QED BY <2>1, <2>2, BatchParts DEF PlanInv
<1>3. ToSet(<<>>) = {}
  BY DEF ToSet
<1>4. \A m \in Nodes : active /\ status[m] = "PENDING" => queue[Home[m]] # <<>>
  BY <1>3, BatchParts DEF StatusInv
<1> QED BY <1>1, <1>2, <1>3, <1>4, HomeAssumption

(* A queue without a connection: its nodes fail.                           *)
LEMMA KickLost ==
  ASSUME BatchInv, NEW b \in Bridges, todo # <<>>, todo' = Tail(todo), NEW lost, NEW left,
         lost = {m \in ToSet(queue[b]) : status[m] = "PENDING"},
         left = [queue EXCEPT ![b] = <<>>],
         status' = [m \in Nodes |-> IF m \in lost THEN "FAILED" ELSE status[m]],
         failed' = failed + Cardinality(lost),
         queue' = left,
         CheckFinished(left, failed + Cardinality(lost)),
         UNCHANGED bridgeVars, UNCHANGED <<done, orders>>
  PROVE  BatchInv'
<1>1. /\ todo' \in Seq(Tasks)
      /\ \A i \in DOMAIN todo' : \A m \in Nodes : todo'[i] \notin Starts(m)
      /\ \A m \in Nodes : ~ StartsNext(m)' /\ ~(todo' # <<>> /\ Head(todo') \in Starts(m))
  BY TailPlan
<1>2. \A m \in lost : m \in Nodes /\ Home[m] = b /\ status[m] = "PENDING" /\ m \in ToSet(queue[Home[m]])
  BY QueueFacts
<1>3. IsFiniteSet(lost) /\ Cardinality(lost) \in Nat
  <2>1. lost \subseteq Nodes
    BY <1>2
  <2> QED BY <2>1, FiniteAssumption, FS_Subset, FS_CardinalityType
<1>4. /\ queue' \in [Bridges -> Seq(Nodes)] /\ queue'[b] = <<>>
      /\ \A c \in Bridges : c # b => queue'[c] = queue[c]
  BY BatchParts
<1>5. \A m \in Nodes : status'[m] = IF m \in lost THEN "FAILED" ELSE status[m]
  OBVIOUS
<1>6. status' \in [Nodes -> Statuses]
  <2>1. "FAILED" \in Statuses /\ status \in [Nodes -> Statuses]
    BY BatchParts DEF Statuses
  <2> QED BY <2>1
<1>7. \A m \in Nodes : status'[m] = "PENDING" =>
        status[m] = "PENDING" /\ m \notin lost /\ (active => m \in ToSet(queue[Home[m]]) /\ Home[m] # b)
  BY <1>5, BatchParts DEF StatusInv
<1>8. /\ active' \in BOOLEAN /\ (active' => active)
      /\ told' \in [kind : {"none", "started", "refused", "completed", "stopped"},
                    done : Nat, failed : Nat]
      /\ NobodyLeftWaiting'
  <2>1. failed + Cardinality(lost) \in Nat /\ done \in Nat
    BY <1>3, BatchParts
  <2>2. \A m \in Nodes : status'[m] = "PENDING" => status[m] = "PENDING" /\ (active => left[Home[m]] # <<>>)
    BY <1>4, <1>7, QueueFacts
  <2> QED BY <2>1, <2>2, FinishFacts
<1>9. BatchTypeOK'
  BY <1>1, <1>3, <1>4, <1>6, <1>8, BatchParts DEF TypeOK, BatchTypeOK
<1>10. PlanInv'
  <2>1. ASSUME NEW c \in Bridges
        PROVE  Once(queue'[c]) /\ \A i \in DOMAIN queue'[c] : Home[queue'[c][i]] = c
    <3>1. CASE c = b
      BY <1>4, <3>1 DEF Once
    <3>2. CASE c # b
      BY <1>4, <3>2, BatchParts DEF PlanInv
    <3> QED BY <3>1, <3>2
  <2>2. \A m \in Nodes : ~(todo' # <<>> /\ Head(todo') = Start(m, TRUE))
    BY <1>1 DEF Starts
  <2> QED BY <1>1, <2>1, <2>2 DEF PlanInv
<1>11. \A m \in Nodes : m \in ToSet(queue'[Home[m]]) => m \in ToSet(queue[Home[m]]) /\ m \notin lost
  BY <1>2, <1>4, QueueFacts
<1>12. ASSUME NEW m \in Nodes
       PROVE  Queued(m)' + Starting(m)' <= Queued(m) + Starting(m)
  <2>1. Starting(m)' = 0
    BY <1>1 DEF Starting
  <2>2. Queued(m)' = 1 => Queued(m) = 1
    BY <1>11 DEF Queued
  <2>3. Queued(m)' \in {0, 1}
    BY DEF Queued
  <2> QED BY <2>1, <2>2, <2>3 DEF Queued, Starting
<1>13. StatusInv'
  <2>1. \A m \in Nodes : ~(todo' # <<>> /\ Head(todo') = Start(m, FALSE))
    BY <1>1 DEF Starts
  <2>2. \A m \in Nodes : active' /\ status'[m] = "PENDING" => m \in ToSet(queue'[Home[m]])
    BY <1>4, <1>7, <1>8, QueueFacts
  <2>3. orders' = 0 => \A m \in Nodes : status'[m] = "NONE"
    BY <1>2, <1>5, BatchParts DEF StatusInv
  <2>4. orders' <= 1 =>
          \A m \in Nodes : m \in ToSet(queue'[Home[m]]) => status'[m] \in {"PENDING", "SKIPPED"}
    BY <1>5, <1>11, BatchParts DEF StatusInv
  <2> QED BY <2>1, <2>2, <2>3, <2>4 DEF StatusInv
<1>14. CountsAreRight'
  <2>1. With(status', "DONE") = With(status, "DONE")
    BY <1>2, <1>5 DEF With
  <2>2. With(status', "FAILED") = With(status, "FAILED") \cup lost
        /\ With(status, "FAILED") \cap lost = {}
    BY <1>2, <1>5 DEF With
  <2>3. Cardinality(With(status, "FAILED") \cup lost)
          = Cardinality(With(status, "FAILED")) + Cardinality(lost) - Cardinality(With(status, "FAILED") \cap lost)
    BY <1>3, WithFinite, FS_Union
  <2>4. Cardinality(With(status', "FAILED")) = Cardinality(With(status, "FAILED")) + Cardinality(lost)
    <3>1. Cardinality({}) = 0
      BY FS_EmptySet
    <3>2. Cardinality(With(status, "FAILED")) \in Nat
      BY WithFinite
    <3> DEFINE n == Cardinality(With(status, "FAILED"))
               k == Cardinality(lost)
    <3>3. Cardinality(With(status', "FAILED")) = n + k - 0
      BY <2>2, <2>3, <3>1
    <3>4. n \in Nat /\ k \in Nat
      BY <1>3, <3>2
    <3> HIDE DEF n, k
    <3>5. n + k - 0 = n + k
      BY <3>4
    <3> QED BY <3>3, <3>5 DEF n, k
  <2> QED BY <2>1, <2>4, BatchParts DEF CountsAreRight, With
<1>15. VerdictsAreTrue'
  <2>1. sess' = sess
    BY DEF bridgeVars
  <2>2. ASSUME NEW m \in Nodes, status'[m] = "DONE"
        PROVE  \E s \in DOMAIN sess : sess[s].mac = m /\ sess[s].state = "done"
    BY <1>5, <2>2, BatchParts DEF VerdictsAreTrue
  <2>3. ASSUME NEW m \in Nodes, status'[m] = "FAILED", orders <= 1,
               NEW s \in DOMAIN sess, sess[s].mac = m
        PROVE  sess[s].state = "error"
    <3>1. CASE m \in lost
      <4>1. SessionsOf(m) = {}
        BY <1>2, <2>3, <3>1, FirstOrder, BatchParts
      <4> QED BY <2>3, <4>1 DEF SessionsOf
    <3>2. CASE m \notin lost
      BY <1>5, <2>3, <3>2, BatchParts DEF VerdictsAreTrue
    <3> QED BY <3>1, <3>2
  <2> QED BY <2>1, <2>2, <2>3 DEF VerdictsAreTrue
<1> QED BY <1>8, <1>9, <1>10, <1>12, <1>13, <1>14, <1>15, GuiKeeps, BridgeSame

(* The next node of a queue is taken.                                      *)
LEMMA KickStarts ==
  ASSUME BatchInv, NEW b \in Bridges, todo # <<>>, queue[b] # <<>>, NEW h, h = Head(queue[b]),
         queue' = [queue EXCEPT ![b] = Tail(@)],
         status' = [status EXCEPT ![h] = "FLASHING"],
         todo' = <<Start(h, TRUE)>> \o Tail(todo),
         UNCHANGED bridgeVars, UNCHANGED <<active, done, failed, told, orders>>
  PROVE  BatchInv'
<1>1. /\ queue[b] \in Seq(Nodes) /\ Once(queue[b])
      /\ h \in Nodes /\ Home[h] = b /\ h \in ToSet(queue[Home[h]])
  <2>1. queue[b] \in Seq(Nodes) /\ Once(queue[b])
    BY QueueFacts
  <2>2. h \in ToSet(queue[b])
    BY <2>1, OnceTail
  <2> QED BY <2>1, <2>2, QueueFacts
<1>2. /\ queue' \in [Bridges -> Seq(Nodes)] /\ queue'[b] = Tail(queue[b])
      /\ \A c \in Bridges : c # b => queue'[c] = queue[c]
  <2>1. Tail(queue[b]) \in Seq(Nodes)
    BY <1>1
  <2> QED BY <2>1, BatchParts
<1>3. \A m \in Nodes : status'[m] = IF m = h THEN "FLASHING" ELSE status[m]
  BY BatchParts
<1>4. status' \in [Nodes -> Statuses]
  BY BatchParts DEF Statuses
<1>5. /\ Once(Tail(queue[b]))
      /\ \A x : x \in ToSet(Tail(queue[b])) <=> x \in ToSet(queue[b]) /\ x # h
  BY <1>1, OnceTail
<1>6. \A m \in Nodes : m \in ToSet(queue'[Home[m]]) <=> m \in ToSet(queue[Home[m]]) /\ m # h
  BY <1>1, <1>2, <1>5, QueueFacts
<1>7. orders <= 1 => status[h] \in {"PENDING", "SKIPPED"}
  BY <1>1, BatchParts DEF StatusInv
<1>8. /\ todo' \in Seq(Tasks) /\ todo' # <<>> /\ Head(todo') = Start(h, TRUE)
      /\ \A i \in DOMAIN todo' : \A m \in Nodes : todo'[i] \in Starts(m) => i = 1
  <2>1. Start(h, TRUE) \in Tasks
    BY <1>1, TaskFacts
  <2>2. /\ Tail(todo) \in Seq(Tasks)
        /\ \A i \in DOMAIN Tail(todo) : \A m \in Nodes : Tail(todo)[i] \notin Starts(m)
    BY TaskDone, BatchParts DEF PlanInv
  <2> QED BY <2>1, <2>2, TaskFirst
<1>9. BatchTypeOK'
  BY <1>2, <1>4, <1>8, BatchParts DEF TypeOK, BatchTypeOK
<1>10. PlanInv'
  <2>1. ASSUME NEW c \in Bridges
        PROVE  Once(queue'[c]) /\ \A i \in DOMAIN queue'[c] : Home[queue'[c][i]] = c
    <3>1. CASE c = b
      <4>1. \A i \in DOMAIN Tail(queue[b]) : Tail(queue[b])[i] \in ToSet(queue[b])
        BY <1>5 DEF ToSet
      <4> QED BY <1>2, <1>5, <3>1, <4>1, QueueFacts
    <3>2. CASE c # b
      BY <1>2, <3>2, BatchParts DEF PlanInv
    <3> QED BY <3>1, <3>2
  <2>2. \A m \in Nodes : Head(todo') = Start(m, TRUE) => status'[m] = "FLASHING"
    BY <1>3, <1>8, TaskFacts
  <2> QED BY <1>8, <2>1, <2>2 DEF PlanInv
<1>11. ASSUME NEW m \in Nodes
       PROVE  Queued(m)' + Starting(m)' <= Queued(m) + Starting(m)
  <2>1. CASE m = h
    <3>1. Queued(m)' = 0 /\ Queued(m) = 1
      BY <1>1, <1>6, <2>1 DEF Queued
    <3> QED BY <3>1 DEF Starting
  <2>2. CASE m # h
    <3>1. Queued(m)' = Queued(m)
      BY <1>6, <2>2 DEF Queued
    <3>2. Start(h, TRUE) # Start(m, TRUE) /\ Start(h, TRUE) # Start(m, FALSE)
      BY <2>2, TaskFacts
    <3>3. ~(todo' # <<>> /\ Head(todo') \in Starts(m))
      BY <1>8, <3>2 DEF Starts
    <3>4. Starting(m)' = 0
      BY <3>3 DEF Starting, StartsNext
    <3> QED BY <3>1, <3>4 DEF Queued, Starting
  <2> QED BY <2>1, <2>2
<1>12. StatusInv'
  <2>1. \A m \in Nodes : ~(Head(todo') = Start(m, FALSE))
    BY <1>8, TaskFacts
  <2>2. \A m \in Nodes : active' /\ status'[m] = "PENDING" => m \in ToSet(queue'[Home[m]])
    BY <1>3, <1>6, BatchParts DEF StatusInv
  <2>3. orders # 0
    BY <1>1, <1>7, BatchParts DEF StatusInv
  <2>4. orders' <= 1 =>
          \A m \in Nodes : m \in ToSet(queue'[Home[m]]) => status'[m] \in {"PENDING", "SKIPPED"}
    BY <1>3, <1>6, BatchParts DEF StatusInv
  <2> QED BY <2>1, <2>2, <2>3, <2>4 DEF StatusInv
<1>13. CountsAreRight'
  <2>1. ASSUME orders <= 1
        PROVE  With(status', "DONE") = With(status, "DONE") /\ With(status', "FAILED") = With(status, "FAILED")
    BY <1>3, <1>7, <2>1 DEF With
  <2> QED BY <2>1, BatchParts DEF CountsAreRight, With
<1>14. VerdictsAreTrue'
  BY <1>3, BatchParts DEF VerdictsAreTrue, bridgeVars
<1>15. NobodyLeftWaiting'
  BY <1>3, BatchParts DEF NobodyLeftWaiting
<1> QED BY <1>9, <1>10, <1>11, <1>12, <1>13, <1>14, <1>15, GuiKeeps, BridgeSame

LEMMA KickKeeps ==
  ASSUME BatchInv, NEW b \in Bridges, KickBridge(b)
  PROVE  BatchInv'
<1>1. todo # <<>> /\ UNCHANGED bridgeVars /\ UNCHANGED <<done, orders>>
  BY DEF KickBridge
<1>2. CASE /\ queue[b] = <<>> /\ CheckFinished(queue, failed)
           /\ todo' = Tail(todo) /\ UNCHANGED <<status, queue, failed>>
  <2>1. \A m \in Nodes : status'[m] = "PENDING" =>
          status[m] = "PENDING" /\ (active => queue[Home[m]] # <<>>)
    BY <1>2, QueueFacts
  <2>2. /\ active' \in BOOLEAN /\ (active' => active)
        /\ told' \in [kind : {"none", "started", "refused", "completed", "stopped"},
                      done : Nat, failed : Nat]
        /\ NobodyLeftWaiting'
    BY <1>2, <2>1, FinishFacts, BatchParts
  <2> QED BY <1>1, <1>2, <2>2, QuietKeeps, BridgeSame
<1>3. CASE todo' = Tail(todo) /\ UNCHANGED <<active, status, queue, failed, told>>
  <2>1. NobodyLeftWaiting'
    BY <1>3, BatchParts DEF NobodyLeftWaiting
  <2> QED BY <1>1, <1>3, <2>1, QuietKeeps, BridgeSame, BatchParts
<1>4. CASE queue[b] # <<>> /\ ~ linkUp[b] /\ ~(todo' = Tail(todo) /\ UNCHANGED <<active, status, queue, failed, told>>)
  <2> DEFINE lost == {m \in ToSet(queue[b]) : status[m] = "PENDING"}
             left == [queue EXCEPT ![b] = <<>>]
  <2>1. /\ todo' = Tail(todo)
        /\ status' = [m \in Nodes |-> IF m \in lost THEN "FAILED" ELSE status[m]]
        /\ failed' = failed + Cardinality(lost)
        /\ queue' = left
        /\ CheckFinished(left, failed + Cardinality(lost))
    BY <1>4 DEF KickBridge
  <2>2. lost = {m \in ToSet(queue[b]) : status[m] = "PENDING"} /\ left = [queue EXCEPT ![b] = <<>>]
    OBVIOUS
  <2> HIDE DEF lost, left
  <2> QED BY <1>1, <2>1, <2>2, KickLost
<1>5. CASE /\ queue[b] # <<>>
           /\ queue' = [queue EXCEPT ![b] = Tail(@)]
           /\ status' = [status EXCEPT ![Head(queue[b])] = "FLASHING"]
           /\ todo' = <<Start(Head(queue[b]), TRUE)>> \o Tail(todo)
           /\ UNCHANGED <<active, failed, told>>
  BY <1>1, <1>5, KickStarts
<1> QED BY <1>2, <1>3, <1>4, <1>5 DEF KickBridge

(* The first task is replaced by one that starts no session.               *)
LEMMA NextPlan ==
  ASSUME BatchInv, todo # <<>>, NEW t \in Tasks, t.op # "start", todo' = <<t>> \o Tail(todo)
  PROVE  /\ todo' \in Seq(Tasks)
         /\ \A i \in DOMAIN todo' : \A m \in Nodes : todo'[i] \notin Starts(m)
         /\ \A m \in Nodes : ~ StartsNext(m)' /\ ~(todo' # <<>> /\ Head(todo') \in Starts(m))
<1>1. /\ Tail(todo) \in Seq(Tasks)
      /\ \A i \in DOMAIN Tail(todo) : \A m \in Nodes : Tail(todo)[i] \notin Starts(m)
  BY TaskDone, BatchParts DEF PlanInv
<1>2. /\ todo' \in Seq(Tasks) /\ Head(todo') = t /\ todo' # <<>>
      /\ \A i \in DOMAIN todo' : i # 1 => i - 1 \in DOMAIN Tail(todo) /\ todo'[i] = Tail(todo)[i - 1]
  BY <1>1, TaskFirst
<1>3. todo'[1] = t
  BY <1>2
<1>4. \A m : t \notin Starts(m)
  BY TaskFacts
<1> QED BY <1>1, <1>2, <1>3, <1>4 DEF StartsNext

(* What holds when a session is about to be started.                       *)
LEMMA StartNow ==
  ASSUME BatchInv, NEW m \in Nodes, NEW x \in BOOLEAN, todo # <<>>, Head(todo) = Start(m, x)
  PROVE  /\ StartsNext(m)
         /\ x => status[m] = "FLASHING"
         /\ orders <= 1 => status[m] # "FAILED"
<1>1. CASE x = TRUE
  <2>1. Head(todo) = Start(m, TRUE)
    BY <1>1
  <2>2. status[m] = "FLASHING"
    BY <2>1, BatchParts DEF PlanInv
  <2> QED BY <2>1, <2>2 DEF StartsNext, Starts
<1>2. CASE x = FALSE
  <2>1. Head(todo) = Start(m, FALSE)
    BY <1>2
  <2>2. orders <= 1 => status[m] = "NONE"
    BY <2>1, BatchParts DEF StatusInv
  <2> QED BY <1>2, <2>1, <2>2 DEF StartsNext, Starts
<1> QED BY <1>1, <1>2

LEMMA SessionBegins ==
  ASSUME BatchInv, NEW m \in Nodes, NEW x \in BOOLEAN, todo # <<>>, Head(todo) = Start(m, x),
         StartOta(m), todo' = <<Flag(m)>> \o Tail(todo),
         UNCHANGED <<active, status, queue, done, failed, told, orders>>
  PROVE  BatchInv'
<1> DEFINE n == Len(sess) + 1
<1>1. /\ DOMAIN sess' = DOMAIN sess \cup {n} /\ n \notin DOMAIN sess
      /\ sess'[n].mac = m
      /\ \A s \in DOMAIN sess : sess'[s] = sess[s]
  BY StartFacts, BatchParts
<1> HIDE DEF n
<1>2. BridgeInv' /\ EventInv'
  BY StartKeeps, BatchParts
<1>3. /\ StartsNext(m) /\ (x => status[m] = "FLASHING") /\ (orders <= 1 => status[m] # "FAILED")
  BY StartNow
<1>4. /\ todo' \in Seq(Tasks)
      /\ \A i \in DOMAIN todo' : \A l \in Nodes : todo'[i] \notin Starts(l)
      /\ \A l \in Nodes : ~ StartsNext(l)' /\ ~(todo' # <<>> /\ Head(todo') \in Starts(l))
  <2>1. Flag(m) \in Tasks /\ Flag(m).op # "start"
    BY TaskFacts
  <2> QED BY <2>1, NextPlan
<1>5. TypeOK'
  BY <1>2, <1>4, BatchParts DEF TypeOK, BatchTypeOK, BridgeInv
<1>6. PlanInv'
  BY <1>4, BatchParts DEF PlanInv, Starts
<1>7. OrderInv'
  <2> SUFFICES ASSUME NEW l \in Nodes
               PROVE  Cardinality(SessionsOf(l)') + Queued(l)' + Starting(l)' <= orders
    BY DEF OrderInv
  <2>1. Queued(l)' = Queued(l) /\ Starting(l)' = 0
    BY <1>4 DEF Queued, Starting
  <2>2. Cardinality(SessionsOf(l)) + Queued(l) + Starting(l) <= orders
    BY BatchParts DEF OrderInv
  <2>3. /\ Cardinality(SessionsOf(l)) \in Nat /\ IsFiniteSet(SessionsOf(l))
        /\ Queued(l) \in {0, 1} /\ Starting(l) \in {0, 1} /\ orders \in Nat
    BY BatchParts, OrderTypes
  <2>4. CASE l = m
    <3>1. SessionsOf(l)' = SessionsOf(l) \cup {n} /\ n \notin SessionsOf(l)
      BY <1>1, <2>4 DEF SessionsOf
    <3>2. Cardinality(SessionsOf(l)') = Cardinality(SessionsOf(l)) + 1
      BY <2>3, <3>1, FS_AddElement
    <3>3. Starting(l) = 1
      BY <1>3, <2>4 DEF Starting
    <3> QED BY <2>1, <2>2, <2>3, <3>2, <3>3
  <2>5. CASE l # m
    <3>1. SessionsOf(l)' = SessionsOf(l)
      BY <1>1, <2>5 DEF SessionsOf
    <3> QED BY <2>1, <2>2, <2>3, <3>1
  <2> QED BY <2>4, <2>5
<1>8. StatusInv'
  <2>1. \A l \in Nodes : ~(todo' # <<>> /\ Head(todo') = Start(l, FALSE))
    BY <1>4 DEF Starts
  <2> QED BY <2>1, BatchParts DEF StatusInv
<1>9. CountsAreRight' /\ NobodyLeftWaiting'
  BY BatchParts DEF CountsAreRight, NobodyLeftWaiting
<1>10. VerdictsAreTrue'
  <2>1. ASSUME NEW l \in Nodes, status[l] = "DONE"
        PROVE  \E s \in DOMAIN sess' : sess'[s].mac = l /\ sess'[s].state = "done"
    BY <1>1, <2>1, BatchParts DEF VerdictsAreTrue
  <2>2. ASSUME NEW l \in Nodes, status[l] = "FAILED", orders <= 1,
               NEW s \in DOMAIN sess', sess'[s].mac = l
        PROVE  sess'[s].state = "error"
    <3>1. s # n
      BY <1>1, <1>3, <2>2
    <3> QED BY <1>1, <2>2, <3>1, BatchParts DEF VerdictsAreTrue
  <2> QED BY <2>1, <2>2 DEF VerdictsAreTrue
<1> QED BY <1>2, <1>5, <1>6, <1>7, <1>8, <1>9, <1>10 DEF BatchInv, BridgeInv

(* start_ota() refuses a node of the batch.                                *)
LEMMA SessionRefused ==
  ASSUME BatchInv, NEW m \in Nodes, todo # <<>>, Head(todo) = Start(m, TRUE),
         status' = [status EXCEPT ![m] = "FAILED"], failed' = failed + 1,
         \/ /\ todo' = <<Kick(Home[m])>> \o Tail(todo)
            /\ UNCHANGED <<active, told>>
         \/ todo' = Tail(todo) /\ CheckFinished(queue, failed + 1),
         UNCHANGED bridgeVars, UNCHANGED <<queue, done, orders>>
  PROVE  BatchInv'
<1>1. StartsNext(m) /\ status[m] = "FLASHING"
  BY StartNow
<1>2. /\ todo' \in Seq(Tasks)
      /\ \A i \in DOMAIN todo' : \A l \in Nodes : todo'[i] \notin Starts(l)
      /\ \A l \in Nodes : ~ StartsNext(l)' /\ ~(todo' # <<>> /\ Head(todo') \in Starts(l))
  <2>1. Kick(Home[m]) \in Tasks /\ Kick(Home[m]).op # "start"
    BY HomeAssumption, TaskFacts
  <2> QED BY <2>1, NextPlan, TailPlan
<1>3. /\ Cardinality(With(status', "FAILED")) = Cardinality(With(status, "FAILED")) + 1
      /\ With(status', "DONE") = With(status, "DONE")
      /\ \A l \in Nodes : status'[l] = IF l = m THEN "FAILED" ELSE status[l]
  <2>1. status \in [Nodes -> Statuses] /\ status[m] # "FAILED" /\ "DONE" # "FAILED" /\ "DONE" # status[m]
    BY <1>1, BatchParts
  <2> QED BY <2>1, StatusSet
<1>4. status' \in [Nodes -> Statuses]
  BY BatchParts DEF Statuses
<1>5. /\ active' \in BOOLEAN /\ (active' => active)
      /\ told' \in [kind : {"none", "started", "refused", "completed", "stopped"},
                    done : Nat, failed : Nat]
      /\ NobodyLeftWaiting'
  <2>1. CASE UNCHANGED <<active, told>>
    BY <1>3, <2>1, BatchParts DEF NobodyLeftWaiting
  <2>2. CASE CheckFinished(queue, failed + 1)
    <3>1. failed + 1 \in Nat /\ done \in Nat
      BY BatchParts
    <3>2. \A l \in Nodes : status'[l] = "PENDING" =>
            status[l] = "PENDING" /\ (active => queue[Home[l]] # <<>>)
      BY <1>3, QueueFacts
    <3> QED BY <2>2, <3>1, <3>2, FinishFacts
  <2> QED BY <2>1, <2>2
<1>6. BatchTypeOK'
  BY <1>2, <1>4, <1>5, BatchParts DEF TypeOK, BatchTypeOK
<1>7. PlanInv'
  BY <1>2, BatchParts DEF PlanInv, Starts
<1>8. ASSUME NEW l \in Nodes
      PROVE  Queued(l)' + Starting(l)' <= Queued(l) + Starting(l)
  <2>1. Queued(l)' = Queued(l) /\ Starting(l)' = 0
    BY <1>2 DEF Queued, Starting
  <2> QED BY <2>1 DEF Queued, Starting
<1>9. StatusInv'
  <2>1. \A l \in Nodes : ~(todo' # <<>> /\ Head(todo') = Start(l, FALSE))
    BY <1>2 DEF Starts
  <2>2. \A l \in Nodes : active' /\ status'[l] = "PENDING" => l \in ToSet(queue[Home[l]])
    BY <1>3, <1>5, BatchParts DEF StatusInv
  <2>3. orders # 0
    BY <1>1, BatchParts DEF StatusInv
  <2>4. orders <= 1 => \A l \in Nodes : l \in ToSet(queue[Home[l]]) => status'[l] \in {"PENDING", "SKIPPED"}
    BY <1>1, <1>3, BatchParts DEF StatusInv
  <2> QED BY <2>1, <2>2, <2>3, <2>4 DEF StatusInv
<1>10. CountsAreRight'
  BY <1>3, BatchParts DEF CountsAreRight, With
<1>11. VerdictsAreTrue'
  <2>1. sess' = sess
    BY DEF bridgeVars
  <2>2. ASSUME NEW l \in Nodes, status'[l] = "DONE"
        PROVE  \E s \in DOMAIN sess : sess[s].mac = l /\ sess[s].state = "done"
    BY <1>3, <2>2, BatchParts DEF VerdictsAreTrue
  <2>3. ASSUME NEW l \in Nodes, status'[l] = "FAILED", orders <= 1,
               NEW s \in DOMAIN sess, sess[s].mac = l
        PROVE  sess[s].state = "error"
    <3>1. CASE l = m
      <4>1. SessionsOf(m) = {}
        BY <1>1, <2>3, FirstOrder, BatchParts
      <4> QED BY <2>3, <3>1, <4>1 DEF SessionsOf
    <3>2. CASE l # m
      BY <1>3, <2>3, <3>2, BatchParts DEF VerdictsAreTrue
    <3> QED BY <3>1, <3>2
  <2> QED BY <2>1, <2>2, <2>3 DEF VerdictsAreTrue
<1> QED BY <1>5, <1>6, <1>7, <1>8, <1>9, <1>10, <1>11, GuiKeeps, BridgeSame

LEMMA SessionKeeps ==
  ASSUME BatchInv, NEW m \in Nodes, NEW x \in BOOLEAN, StartSession(m, x)
  PROVE  BatchInv'
<1>1. todo # <<>> /\ Head(todo) = Start(m, x) /\ UNCHANGED <<queue, done, orders>>
  BY DEF StartSession
<1>2. CASE /\ StartOta(m) /\ todo' = <<Flag(m)>> \o Tail(todo)
           /\ UNCHANGED <<active, status, failed, told>>
  BY <1>1, <1>2, SessionBegins
<1>3. CASE todo' = Tail(todo) /\ UNCHANGED <<bridgeVars, active, status, failed, told>>
  <2>1. NobodyLeftWaiting'
    BY <1>3, BatchParts DEF NobodyLeftWaiting
  <2> QED BY <1>1, <1>3, <2>1, QuietKeeps, BridgeSame, BatchParts
<1>4. CASE /\ x
           /\ status' = [status EXCEPT ![m] = "FAILED"]
           /\ failed' = failed + 1
           /\ IF queue[Home[m]] # <<>>
              THEN todo' = <<Kick(Home[m])>> \o Tail(todo) /\ UNCHANGED <<active, told>>
              ELSE todo' = Tail(todo) /\ CheckFinished(queue, failed + 1)
           /\ UNCHANGED bridgeVars
  <2>1. Head(todo) = Start(m, TRUE)
    <3>1. x = TRUE
      BY <1>4
    <3> QED BY <1>1, <3>1
  <2>2. \/ todo' = <<Kick(Home[m])>> \o Tail(todo) /\ UNCHANGED <<active, told>>
        \/ todo' = Tail(todo) /\ CheckFinished(queue, failed + 1)
    BY <1>4
  <2> QED BY <1>1, <1>4, <2>1, <2>2, SessionRefused
<1> QED BY <1>2, <1>3, <1>4 DEF StartSession

(* The registry and the events may change without the sessions.            *)
LEMMA OutsideKeeps ==
  ASSUME BatchInv, UNCHANGED <<linkUp, wanted, sess, ota, at, held>>,
         flag' \in [Nodes -> BOOLEAN], eq' \in Seq(Event), EventInv'
  PROVE  BridgeInv' /\ EventInv' /\ SessionsGrow /\ DOMAIN sess' = DOMAIN sess
<1>1. BridgeTypeOK /\ WorkerInv /\ NoOrphanSession
  BY DEF BatchInv, TypeOK
<1> QED BY <1>1 DEF BridgeInv, BridgeTypeOK, WorkerInv, NoOrphanSession, Running, SessionsGrow

LEMMA FlagKeeps ==
  ASSUME BatchInv, NEW m \in Nodes, FlagSession(m)
  PROVE  BatchInv'
<1>1. /\ todo # <<>> /\ todo' = Tail(todo)
      /\ flag' = [flag EXCEPT ![m] = TRUE]
      /\ UNCHANGED <<linkUp, wanted, sess, ota, at, held, eq>>
      /\ UNCHANGED <<active, status, queue, done, failed, told, orders>>
  BY DEF FlagSession, FlagOta
<1>2. flag' \in [Nodes -> BOOLEAN] /\ eq' \in Seq(Event)
  BY <1>1, BatchParts DEF BridgeTypeOK
<1>3. EventInv'
  BY <1>1, BatchParts DEF EventInv, Speaks
<1>4. BridgeInv' /\ EventInv' /\ SessionsGrow /\ DOMAIN sess' = DOMAIN sess
  BY <1>1, <1>2, <1>3, OutsideKeeps
<1>5. NobodyLeftWaiting'
  BY <1>1, BatchParts DEF NobodyLeftWaiting
<1> QED BY <1>1, <1>4, <1>5, QuietKeeps, BatchParts

-----------------------------------------------------------------------------
(* The events.                                                             *)

(* A step of the GUI thread between two calls that has no plan, or plans   *)
(* to look at a bridge again.                                              *)
LEMMA IdlePlan ==
  ASSUME BatchInv, todo = <<>>, todo' = <<>> \/ \E b \in Bridges : todo' = <<Kick(b)>>
  PROVE  /\ todo' \in Seq(Tasks)
         /\ \A i \in DOMAIN todo' : \A m \in Nodes : todo'[i] \notin Starts(m)
         /\ \A m \in Nodes : ~ StartsNext(m)' /\ ~(todo' # <<>> /\ Head(todo') \in Starts(m))
<1>1. CASE todo' = <<>>
  BY <1>1 DEF StartsNext
<1>2. ASSUME NEW b \in Bridges, todo' = <<Kick(b)>>
      PROVE  /\ todo' \in Seq(Tasks)
             /\ \A i \in DOMAIN todo' : \A m \in Nodes : todo'[i] \notin Starts(m)
             /\ \A m \in Nodes : ~ StartsNext(m)' /\ ~(todo' # <<>> /\ Head(todo') \in Starts(m))
  <2>1. Kick(b) \in Tasks /\ \A m : Kick(b) \notin Starts(m)
    <3>1. Kick(b).op = "kick" /\ Kick(b) \in Tasks
      BY TaskFacts
    <3> QED BY <3>1, TaskFacts
  <2>2. todo' \in Seq(Tasks) /\ Head(todo') = Kick(b) /\ DOMAIN todo' = {1} /\ todo'[1] = Kick(b)
    BY <1>2, <2>1
  <2> QED BY <2>1, <2>2 DEF StartsNext
<1> QED BY <1>1, <1>2

(* What the sessions say of the node of an event.                          *)
LEMMA NodeOfEvent ==
  ASSUME BatchInv, NEW s \in DOMAIN sess
  PROVE  /\ sess[s].mac \in Nodes
         /\ orders <= 1 => /\ sess[s].mac \notin ToSet(queue[Home[sess[s].mac]])
                           /\ \A r \in DOMAIN sess : sess[r].mac = sess[s].mac => r = s
<1> DEFINE m == sess[s].mac
<1>1. m \in Nodes
  BY BridgeTypes, BatchParts
<1>2. s \in SessionsOf(m)
  BY DEF SessionsOf
<1> HIDE DEF m
<1>3. orders <= 1 => m \notin ToSet(queue[Home[m]]) /\ \A r \in SessionsOf(m) : r = s
  BY <1>1, <1>2, FirstOrder, BatchParts
<1> QED BY <1>1, <1>3 DEF SessionsOf, m

(* An event becomes the status of its node.                                *)
LEMMA VerdictKeeps ==
  ASSUME BatchInv, BridgeInv', EventInv', sess' = sess, todo = <<>>,
         NEW b \in Bridges, todo' = <<Kick(b)>>,
         NEW s \in DOMAIN sess, NEW m, m = sess[s].mac, status[m] = "FLASHING",
         NEW v \in {"DONE", "FAILED"}, status' = [status EXCEPT ![m] = v],
         v = "DONE" => sess[s].state = "done" /\ done' = done + 1 /\ failed' = failed,
         v = "FAILED" => sess[s].state = "error" /\ failed' = failed + 1 /\ done' = done,
         UNCHANGED <<active, queue, told, orders>>
  PROVE  BatchInv'
<1>1. /\ m \in Nodes
      /\ orders <= 1 => /\ m \notin ToSet(queue[Home[m]])
                        /\ \A r \in DOMAIN sess : sess[r].mac = m => r = s
  BY NodeOfEvent
<1>2. /\ todo' \in Seq(Tasks)
      /\ \A i \in DOMAIN todo' : \A l \in Nodes : todo'[i] \notin Starts(l)
      /\ \A l \in Nodes : ~ StartsNext(l)' /\ ~(todo' # <<>> /\ Head(todo') \in Starts(l))
  BY IdlePlan
<1>3. /\ Cardinality(With(status', v)) = Cardinality(With(status, v)) + 1
      /\ \A w : w # v /\ w # status[m] => With(status', w) = With(status, w)
      /\ \A l \in Nodes : status'[l] = IF l = m THEN v ELSE status[l]
  <2>1. status \in [Nodes -> Statuses] /\ status[m] # v
    BY BatchParts
  <2> QED BY <1>1, <2>1, StatusSet
<1>4. status' \in [Nodes -> Statuses]
  BY BatchParts DEF Statuses
<1>5. done' \in Nat /\ failed' \in Nat
  BY BatchParts
<1>6. BatchTypeOK'
  BY <1>2, <1>4, <1>5, BatchParts DEF TypeOK, BatchTypeOK
<1>7. PlanInv'
  BY <1>2, BatchParts DEF PlanInv, Starts
<1>8. ASSUME NEW l \in Nodes
      PROVE  Queued(l)' + Starting(l)' <= Queued(l) + Starting(l)
  <2>1. Queued(l)' = Queued(l) /\ Starting(l)' = 0
    BY <1>2 DEF Queued, Starting
  <2> QED BY <2>1 DEF Queued, Starting
<1>9. StatusInv'
  <2>1. \A l \in Nodes : ~(todo' # <<>> /\ Head(todo') = Start(l, FALSE))
    BY <1>2 DEF Starts
  <2>2. \A l \in Nodes : active' /\ status'[l] = "PENDING" => l \in ToSet(queue[Home[l]])
    BY <1>3, BatchParts DEF StatusInv
  <2>3. orders # 0
    BY <1>1, BatchParts DEF StatusInv
  <2>4. orders <= 1 => \A l \in Nodes : l \in ToSet(queue[Home[l]]) => status'[l] \in {"PENDING", "SKIPPED"}
    BY <1>1, <1>3, BatchParts DEF StatusInv
  <2> QED BY <2>1, <2>2, <2>3, <2>4 DEF StatusInv
<1>10. CountsAreRight'
  <2>1. CASE v = "DONE"
    <3>1. With(status', "FAILED") = With(status, "FAILED")
      BY <1>3, <2>1
    <3>2. done' = done + 1 /\ failed' = failed
      BY <2>1
    <3>3. Cardinality(With(status', "DONE")) = Cardinality(With(status, "DONE")) + 1
      BY <1>3, <2>1
    <3>4. CountsAreRight
      BY BatchParts
    <3> QED BY <3>1, <3>2, <3>3, <3>4 DEF CountsAreRight, With
  <2>2. CASE v = "FAILED"
    <3>1. With(status', "DONE") = With(status, "DONE")
      BY <1>3, <2>2
    <3>2. failed' = failed + 1 /\ done' = done
      BY <2>2
    <3>3. Cardinality(With(status', "FAILED")) = Cardinality(With(status, "FAILED")) + 1
      BY <1>3, <2>2
    <3>4. CountsAreRight
      BY BatchParts
    <3> QED BY <3>1, <3>2, <3>3, <3>4 DEF CountsAreRight, With
  <2> QED BY <2>1, <2>2
<1>11. VerdictsAreTrue'
  <2>1. ASSUME NEW l \in Nodes, status'[l] = "DONE"
        PROVE  \E r \in DOMAIN sess : sess[r].mac = l /\ sess[r].state = "done"
    <3>1. CASE l = m
      BY <1>3, <2>1, <3>1
    <3>2. CASE l # m
      BY <1>3, <2>1, <3>2, BatchParts DEF VerdictsAreTrue
    <3> QED BY <3>1, <3>2
  <2>2. ASSUME NEW l \in Nodes, status'[l] = "FAILED", orders <= 1,
               NEW r \in DOMAIN sess, sess[r].mac = l
        PROVE  sess[r].state = "error"
    <3>1. CASE l = m
      BY <1>1, <1>3, <2>2, <3>1
    <3>2. CASE l # m
      BY <1>3, <2>2, <3>2, BatchParts DEF VerdictsAreTrue
    <3> QED BY <3>1, <3>2
  <2> QED BY <2>1, <2>2 DEF VerdictsAreTrue
<1>12. NobodyLeftWaiting'
  BY <1>3, BatchParts DEF NobodyLeftWaiting
<1>13. SessionsGrow /\ DOMAIN sess' = DOMAIN sess
  BY DEF SessionsGrow
<1> QED BY <1>6, <1>7, <1>8, <1>9, <1>10, <1>11, <1>12, <1>13, GuiKeeps

(* An event of a session that flashes something else or nothing.           *)
LEMMA LookAgainKeeps ==
  ASSUME BatchInv, BridgeInv', EventInv', sess' = sess, todo = <<>>,
         NEW b \in Bridges, todo' = <<Kick(b)>>,
         UNCHANGED <<active, status, queue, done, failed, told, orders>>
  PROVE  BatchInv'
<1>1. /\ todo' \in Seq(Tasks)
      /\ \A i \in DOMAIN todo' : \A l \in Nodes : todo'[i] \notin Starts(l)
      /\ \A l \in Nodes : ~ StartsNext(l)' /\ ~(todo' # <<>> /\ Head(todo') \in Starts(l))
  BY IdlePlan
<1>2. BatchTypeOK'
  BY <1>1, BatchParts DEF TypeOK, BatchTypeOK
<1>3. PlanInv'
  BY <1>1, BatchParts DEF PlanInv, Starts
<1>4. ASSUME NEW l \in Nodes
      PROVE  Queued(l)' + Starting(l)' <= Queued(l) + Starting(l)
  <2>1. Queued(l)' = Queued(l) /\ Starting(l)' = 0
    BY <1>1 DEF Queued, Starting
  <2> QED BY <2>1 DEF Queued, Starting
<1>5. StatusInv'
  <2>1. \A l \in Nodes : ~(todo' # <<>> /\ Head(todo') = Start(l, FALSE))
    BY <1>1 DEF Starts
  <2> QED BY <2>1, BatchParts DEF StatusInv
<1>6. CountsAreRight' /\ VerdictsAreTrue' /\ NobodyLeftWaiting'
  BY BatchParts DEF CountsAreRight, VerdictsAreTrue, NobodyLeftWaiting
<1>7. SessionsGrow /\ DOMAIN sess' = DOMAIN sess
  BY DEF SessionsGrow
<1> QED BY <1>2, <1>3, <1>4, <1>5, <1>6, <1>7, GuiKeeps

LEMMA ProgressKeeps ==
  ASSUME BatchInv, BridgeInv', EventInv', sess' = sess, todo = <<>>, todo' = todo,
         NEW s \in DOMAIN sess, NEW m, m = sess[s].mac,
         status' = [status EXCEPT ![m] = IF @ = "PENDING" THEN "FLASHING" ELSE @],
         UNCHANGED <<active, queue, done, failed, told, orders>>
  PROVE  BatchInv'
<1>1. /\ m \in Nodes
      /\ orders <= 1 => m \notin ToSet(queue[Home[m]])
  BY NodeOfEvent
<1>2. \A l \in Nodes : status'[l] = IF l = m /\ status[l] = "PENDING" THEN "FLASHING" ELSE status[l]
  BY <1>1, BatchParts
<1>3. status' \in [Nodes -> Statuses]
  <2>1. status \in [Nodes -> Statuses] /\ "FLASHING" \in Statuses /\ status[m] \in Statuses
    BY <1>1, BatchParts DEF Statuses
  <2> QED BY <2>1
<1>4. BatchTypeOK'
  BY <1>3, BatchParts DEF TypeOK, BatchTypeOK
<1>5. PlanInv'
  BY BatchParts DEF PlanInv
<1>6. ASSUME NEW l \in Nodes
      PROVE  Queued(l)' + Starting(l)' <= Queued(l) + Starting(l)
  <2>1. Queued(l)' = Queued(l) /\ Starting(l)' = Starting(l)
    BY DEF Queued, Starting, StartsNext
  <2> QED BY <2>1 DEF Queued, Starting
<1>7. StatusInv'
  <2>1. \A l \in Nodes : active' /\ status'[l] = "PENDING" => l \in ToSet(queue[Home[l]])
    BY <1>2, BatchParts DEF StatusInv
  <2>2. orders = 0 => \A l \in Nodes : status'[l] = "NONE"
    BY <1>2, BatchParts DEF StatusInv
  <2>3. orders <= 1 => \A l \in Nodes : l \in ToSet(queue[Home[l]]) => status'[l] \in {"PENDING", "SKIPPED"}
    BY <1>1, <1>2, BatchParts DEF StatusInv
  <2> QED BY <2>1, <2>2, <2>3 DEF StatusInv
<1>8. CountsAreRight'
  <2>1. With(status', "DONE") = With(status, "DONE") /\ With(status', "FAILED") = With(status, "FAILED")
    BY <1>2 DEF With
  <2> QED BY <2>1, BatchParts DEF CountsAreRight, With
<1>9. VerdictsAreTrue'
  BY <1>2, BatchParts DEF VerdictsAreTrue
<1>10. NobodyLeftWaiting'
  BY <1>2, BatchParts DEF NobodyLeftWaiting
<1>11. SessionsGrow /\ DOMAIN sess' = DOMAIN sess
  BY DEF SessionsGrow
<1> QED BY <1>4, <1>5, <1>6, <1>7, <1>8, <1>9, <1>10, <1>11, GuiKeeps

LEMMA EventKeeps ==
  ASSUME BatchInv, HandleEvent
  PROVE  BatchInv'
<1>1. /\ todo = <<>> /\ eq # <<>> /\ eq' = Tail(eq)
      /\ UNCHANGED <<linkUp, wanted, sess, ota, at, held, flag>>
  BY DEF HandleEvent
<1>2. eq \in Seq(Event) /\ flag \in [Nodes -> BOOLEAN] /\ EventInv
  BY BatchParts DEF BridgeTypeOK
<1>3. /\ Head(eq) = eq[1] /\ Head(eq) \in Event /\ 1 \in DOMAIN eq
      /\ Tail(eq) \in Seq(Event)
      /\ \A i \in DOMAIN Tail(eq) : i + 1 \in DOMAIN eq /\ Tail(eq)[i] = eq[i + 1]
  BY <1>1, <1>2, TailFacts
<1>4. EventInv'
  <2>1. ASSUME NEW i \in DOMAIN eq'
        PROVE  \E s \in DOMAIN sess' : Speaks(eq[i], s)'
    <3>1. i + 1 \in DOMAIN eq /\ eq'[i] = eq[i + 1]
      BY <1>1, <1>3
    <3>2. PICK s \in DOMAIN sess : Speaks(eq[i + 1], s)
      BY <1>2, <3>1 DEF EventInv
    <3> QED BY <1>1, <3>1, <3>2 DEF Speaks
  <2> QED BY <2>1 DEF EventInv
<1>5. BridgeInv' /\ EventInv' /\ SessionsGrow /\ DOMAIN sess' = DOMAIN sess /\ sess' = sess
  BY <1>1, <1>2, <1>3, <1>4, OutsideKeeps
<1> DEFINE e == Head(eq)
<1>6. PICK s \in DOMAIN sess : Speaks(e, s)
  BY <1>2, <1>3 DEF EventInv
<1>7. /\ e.mac = sess[s].mac /\ sess[s].mac \in Nodes /\ Home[sess[s].mac] \in Bridges
      /\ (e.kind = "ota_done" => sess[s].state = "done")
      /\ (e.kind = "ota_error" => sess[s].state = "error")
  BY <1>6, NodeOfEvent, HomeAssumption DEF Speaks
<1> HIDE DEF e
<1>8. CASE ~ active
  <2>1. UNCHANGED batchVars
    BY <1>8 DEF HandleEvent, Ignored, batchVars
  <2> QED BY <1>5, <2>1, BatchStays
<1>9. CASE OnProgress(e)
  <2>1. /\ todo' = todo
        /\ status' = [status EXCEPT ![sess[s].mac] = IF @ = "PENDING" THEN "FLASHING" ELSE @]
        /\ UNCHANGED <<active, queue, done, failed, told, orders>>
    BY <1>7, <1>9 DEF OnProgress
  <2> QED BY <1>1, <1>5, <1>6, <2>1, ProgressKeeps
<1>10. CASE OnError(e) /\ status[e.mac] # "FLASHING"
  <2>1. /\ todo' = <<Kick(Home[sess[s].mac])>>
        /\ UNCHANGED <<active, status, queue, done, failed, told, orders>>
    BY <1>7, <1>10 DEF OnError
  <2> QED BY <1>1, <1>5, <1>7, <2>1, LookAgainKeeps
<1>11. CASE OnDone(e) /\ status[e.mac] # "FLASHING"
  <2>1. /\ todo' = <<Kick(Home[sess[s].mac])>>
        /\ UNCHANGED <<active, status, queue, done, failed, told, orders>>
    BY <1>7, <1>11 DEF OnDone
  <2> QED BY <1>1, <1>5, <1>7, <2>1, LookAgainKeeps
<1>12. CASE OnError(e) /\ status[e.mac] = "FLASHING"
  <2>1. /\ todo' = <<Kick(Home[sess[s].mac])>>
        /\ status[sess[s].mac] = "FLASHING"
        /\ status' = [status EXCEPT ![sess[s].mac] = "FAILED"]
        /\ failed' = failed + 1 /\ done' = done
        /\ sess[s].state = "error"
        /\ UNCHANGED <<active, queue, told, orders>>
    BY <1>7, <1>12 DEF OnError
  <2>2. "FAILED" \in {"DONE", "FAILED"} /\ "FAILED" # "DONE"
    OBVIOUS
  <2> QED BY <1>1, <1>5, <1>6, <1>7, <2>1, <2>2, VerdictKeeps
<1>13. CASE OnDone(e) /\ status[e.mac] = "FLASHING"
  <2>1. /\ todo' = <<Kick(Home[sess[s].mac])>>
        /\ status[sess[s].mac] = "FLASHING"
        /\ status' = [status EXCEPT ![sess[s].mac] = "DONE"]
        /\ done' = done + 1 /\ failed' = failed
        /\ sess[s].state = "done"
        /\ UNCHANGED <<active, queue, told, orders>>
    BY <1>7, <1>13 DEF OnDone
  <2>2. "DONE" \in {"DONE", "FAILED"} /\ "FAILED" # "DONE"
    OBVIOUS
  <2> QED BY <1>1, <1>5, <1>6, <1>7, <2>1, <2>2, VerdictKeeps
<1> QED BY <1>8, <1>9, <1>10, <1>11, <1>12, <1>13 DEF HandleEvent, e

-----------------------------------------------------------------------------
(* The operator.                                                           *)

LEMMA StopKeeps ==
  ASSUME BatchInv, BatchStop
  PROVE  BatchInv'
<1>1. /\ todo = <<>> /\ active' = FALSE
      /\ AbortOta({b \in TargetBridges : OtaActive(b)})
      /\ status' = [m \in Nodes |->
                      IF status[m] \in {"PENDING", "FLASHING"} THEN "SKIPPED" ELSE status[m]]
      /\ told' = Report("stopped", done, failed)
      /\ UNCHANGED <<linkUp, wanted, ota, at, held, flag, eq>>
      /\ UNCHANGED <<queue, done, failed, todo, orders>>
  BY DEF BatchStop
<1>2. BridgeInv' /\ EventInv' /\ SessionsGrow /\ DOMAIN sess' = DOMAIN sess
  <2>1. linkUp' \in [Bridges -> BOOLEAN] /\ wanted' \in [Bridges -> BOOLEAN]
    BY <1>1, BatchParts DEF BridgeTypeOK
  <2> QED BY <1>1, <2>1, AbortKeeps, BatchParts
<1>3. \A m \in Nodes :
        status'[m] = IF status[m] \in {"PENDING", "FLASHING"} THEN "SKIPPED" ELSE status[m]
  BY <1>1
<1>4. status' \in [Nodes -> Statuses]
  <2>1. \A m \in Nodes : status[m] \in Statuses
    BY BatchParts
  <2> QED BY <1>1, <2>1 DEF Statuses
<1>5. /\ told' \in [kind : {"none", "started", "refused", "completed", "stopped"},
                    done : Nat, failed : Nat]
      /\ told'.kind = "stopped"
  BY <1>1, ReportType, BatchParts
<1>6. BatchTypeOK'
  BY <1>1, <1>4, <1>5, BatchParts DEF TypeOK, BatchTypeOK
<1>7. PlanInv'
  BY <1>1, BatchParts DEF PlanInv
<1>8. ASSUME NEW l \in Nodes
      PROVE  Queued(l)' + Starting(l)' <= Queued(l) + Starting(l)
  <2>1. Queued(l)' = Queued(l) /\ Starting(l)' = Starting(l)
    BY <1>1 DEF Queued, Starting, StartsNext
  <2> QED BY <2>1 DEF Queued, Starting
<1>9. StatusInv'
  <2>1. orders = 0 => \A l \in Nodes : status'[l] = "NONE"
    BY <1>3, BatchParts DEF StatusInv
  <2>2. orders <= 1 => \A l \in Nodes : l \in ToSet(queue[Home[l]]) => status'[l] \in {"PENDING", "SKIPPED"}
    BY <1>3, BatchParts DEF StatusInv
  <2> QED BY <1>1, <2>1, <2>2 DEF StatusInv
<1>10. CountsAreRight'
  <2>1. With(status', "DONE") = With(status, "DONE") /\ With(status', "FAILED") = With(status, "FAILED")
    BY <1>3 DEF With
  <2> QED BY <1>1, <2>1, BatchParts DEF CountsAreRight, With
<1>11. VerdictsAreTrue'
  <2>1. \A s \in DOMAIN sess :
          /\ sess'[s].mac = sess[s].mac
          /\ sess[s].state \in {"done", "error"} => sess'[s].state = sess[s].state
    BY <1>2 DEF SessionsGrow
  <2>2. \A m \in Nodes : status'[m] \in {"DONE", "FAILED"} => status[m] = status'[m]
    BY <1>3
  <2>3. VerdictsAreTrue
    BY BatchParts
  <2>4. ASSUME NEW l \in Nodes, status'[l] = "DONE"
        PROVE  \E r \in DOMAIN sess : sess'[r].mac = l /\ sess'[r].state = "done"
    BY <2>1, <2>2, <2>3, <2>4 DEF VerdictsAreTrue
  <2>5. ASSUME NEW l \in Nodes, status'[l] = "FAILED", orders <= 1,
               NEW r \in DOMAIN sess, sess'[r].mac = l
        PROVE  sess'[r].state = "error"
    BY <2>1, <2>2, <2>3, <2>5 DEF VerdictsAreTrue
  <2> QED BY <1>1, <1>2, <2>4, <2>5 DEF VerdictsAreTrue
<1>12. NobodyLeftWaiting'
  BY <1>5 DEF NobodyLeftWaiting
<1> QED BY <1>1, <1>2, <1>6, <1>7, <1>8, <1>9, <1>10, <1>11, <1>12, GuiKeeps

(* Every order may add one session of a node.                              *)
LEMMA OrderAdded ==
  ASSUME BatchInv, SessionsGrow, DOMAIN sess' = DOMAIN sess, orders' = orders + 1,
         \A m \in Nodes : Queued(m)' + Starting(m)' <= Queued(m) + Starting(m) + 1
  PROVE  OrderInv'
<1> SUFFICES ASSUME NEW m \in Nodes
             PROVE  Cardinality(SessionsOf(m)') + Queued(m)' + Starting(m)' <= orders + 1
  BY DEF OrderInv
<1>1. SessionsOf(m)' = SessionsOf(m)
  BY DEF SessionsOf, SessionsGrow
<1>2. Cardinality(SessionsOf(m)) + Queued(m) + Starting(m) <= orders
  BY BatchParts DEF OrderInv
<1>3. Cardinality(SessionsOf(m)) \in Nat /\ Queued(m) \in {0, 1} /\ Starting(m) \in {0, 1} /\ orders \in Nat
  BY BatchParts, OrderTypes
<1>4. Queued(m)' \in {0, 1} /\ Starting(m)' \in {0, 1}
  BY DEF Queued, Starting
<1>5. Queued(m)' + Starting(m)' <= Queued(m) + Starting(m) + 1
  OBVIOUS
<1> QED BY <1>1, <1>2, <1>3, <1>4, <1>5

LEMMA OneTask ==
  ASSUME NEW t \in Tasks
  PROVE  <<t>> \in Seq(Tasks) /\ Head(<<t>>) = t /\ DOMAIN <<t>> = {1}
  OBVIOUS

LEMMA ManualKeeps ==
  ASSUME BatchInv, NEW m \in Nodes, ManualStart(m)
  PROVE  BatchInv'
<1>1. /\ todo = <<>> /\ orders < MaxOrders /\ orders' = orders + 1
      /\ todo' = <<Start(m, FALSE)>>
      /\ UNCHANGED bridgeVars /\ UNCHANGED <<active, status, queue, done, failed, told>>
  BY DEF ManualStart
<1>2. BridgeInv' /\ EventInv' /\ SessionsGrow /\ DOMAIN sess' = DOMAIN sess /\ sess' = sess
  BY <1>1, BridgeSame DEF bridgeVars
<1>3. todo' \in Seq(Tasks) /\ Head(todo') = Start(m, FALSE) /\ DOMAIN todo' = {1}
  <2>1. Start(m, FALSE) \in Tasks
    BY TaskFacts
  <2> QED BY <1>1, <2>1, OneTask
<1>4. BatchTypeOK'
  <2>1. orders' \in 0 .. MaxOrders
    BY <1>1, OrdersAssumption, BatchParts
  <2> QED BY <1>1, <1>3, <2>1, BatchParts DEF TypeOK, BatchTypeOK
<1>5. PlanInv'
  <2>1. \A l \in Nodes : Head(todo') # Start(l, TRUE)
    BY <1>3, TaskFacts
  <2> QED BY <1>1, <1>3, <2>1, BatchParts DEF PlanInv
<1>6. OrderInv'
  <2>1. ASSUME NEW l \in Nodes
        PROVE  Queued(l)' + Starting(l)' <= Queued(l) + Starting(l) + 1
    <3>1. Queued(l)' = Queued(l) /\ Starting(l)' \in {0, 1} /\ Starting(l) = 0
      BY <1>1 DEF Queued, Starting, StartsNext
    <3> QED BY <3>1 DEF Queued
  <2> QED BY <1>1, <1>2, <2>1, OrderAdded
<1>7. StatusInv'
  <2>1. orders = 0 => \A l \in Nodes : l \notin ToSet(queue[Home[l]])
    <3>1. ASSUME orders = 0, NEW l \in Nodes
          PROVE  Queued(l) = 0
      <4>1. Cardinality(SessionsOf(l)) + Queued(l) + Starting(l) <= 0
        BY <3>1, BatchParts DEF OrderInv
      <4>2. Cardinality(SessionsOf(l)) \in Nat /\ Queued(l) \in {0, 1} /\ Starting(l) \in {0, 1}
        BY BatchParts, OrderTypes
      <4> QED BY <4>1, <4>2
    <3> QED BY <3>1 DEF Queued
  <2>2. orders \in Nat
    BY BatchParts
  <2>3. orders' # 0 /\ (orders' <= 1 => orders = 0)
    BY <1>1, <2>2
  <2> QED BY <1>1, <2>1, <2>3, BatchParts DEF StatusInv
<1>8. CountsAreRight' /\ VerdictsAreTrue' /\ NobodyLeftWaiting'
  <2>1. orders' <= 1 => orders <= 1
    BY <1>1, BatchParts
  <2> QED BY <1>1, <1>2, <2>1, BatchParts DEF CountsAreRight, VerdictsAreTrue, NobodyLeftWaiting
<1> QED BY <1>2, <1>4, <1>5, <1>6, <1>7, <1>8 DEF BatchInv, BridgeInv, TypeOK

(* start(): a queue for each bridge, and a look at each bridge.            *)
LEMMA BatchPlan ==
  ASSUME NEW macs \in SUBSET Nodes
  PROVE  /\ \A b \in Bridges :
              LET q == SetToSeq({m \in macs : Home[m] = b}) IN
                q \in Seq(Nodes) /\ Once(q) /\ ToSet(q) = {m \in macs : Home[m] = b}
         /\ LET ks == SetToSeq({Kick(Home[m]) : m \in macs}) IN
              /\ Append(ks, Begun) \in Seq(Tasks)
              /\ \A i \in DOMAIN Append(ks, Begun) : Append(ks, Begun)[i].op # "start"
<1>1. ASSUME NEW b \in Bridges
      PROVE  LET q == SetToSeq({m \in macs : Home[m] = b}) IN
               q \in Seq(Nodes) /\ Once(q) /\ ToSet(q) = {m \in macs : Home[m] = b}
  <2> DEFINE S == {m \in macs : Home[m] = b}
  <2>1. S \subseteq Nodes /\ IsFiniteSet(S)
    BY FiniteAssumption, FS_Subset
  <2> HIDE DEF S
  <2>2. SetToSeq(S) \in Seq(S) /\ Once(SetToSeq(S)) /\ ToSet(SetToSeq(S)) = S
    BY <2>1, SetToSeqFacts
  <2>3. SetToSeq(S) \in Seq(Nodes)
    BY <2>1, <2>2
  <2> QED BY <2>2, <2>3 DEF S
<1> DEFINE K == {Kick(Home[m]) : m \in macs}
<1>2. IsFiniteSet(K)
  <2> DEFINE f == [m \in macs |-> Kick(Home[m])]
  <2>1. IsFiniteSet(macs)
    BY FiniteAssumption, FS_Subset
  <2>2. f \in Surjection(macs, K)
    BY DEF Surjection
  <2> QED BY <2>1, <2>2, FS_Surjection
<1>3. \A t \in K : t \in Tasks /\ t.op # "start"
  <2> SUFFICES ASSUME NEW m \in macs
               PROVE  Kick(Home[m]) \in Tasks /\ Kick(Home[m]).op # "start"
    OBVIOUS
  <2>1. Home[m] \in Bridges
    BY HomeAssumption
  <2>2. Kick(Home[m]).op = "kick" /\ Kick(Home[m]) \in Tasks
    BY <2>1, TaskFacts
  <2> QED BY <2>2
<1> DEFINE ks == SetToSeq(K)
<1> HIDE DEF K
<1>4. ks \in Seq(K)
  BY <1>2, SetToSeqFacts
<1> HIDE DEF ks
<1>5. ks \in Seq(Tasks) /\ \A i \in DOMAIN ks : ks[i].op # "start"
  BY <1>3, <1>4
<1>6. Begun \in Tasks /\ Begun.op # "start"
  BY TaskFacts
<1>7. Append(ks, Begun) \in Seq(Tasks) /\ \A i \in DOMAIN Append(ks, Begun) : Append(ks, Begun)[i].op # "start"
  BY <1>5, <1>6, AppendFacts
<1> QED BY <1>1, <1>7 DEF ks, K

LEMMA BatchStartKeeps ==
  ASSUME BatchInv, NEW macs \in SUBSET Nodes, BatchStart(macs)
  PROVE  BatchInv'
<1>1. /\ todo = <<>> /\ orders < MaxOrders /\ orders' = orders + 1
      /\ active' = TRUE /\ done' = 0 /\ failed' = 0
      /\ status' = [m \in Nodes |-> IF m \in macs THEN "PENDING" ELSE "NONE"]
      /\ queue' = [b \in Bridges |-> SetToSeq({m \in macs : Home[m] = b})]
      /\ todo' = Append(SetToSeq({Kick(Home[m]) : m \in macs}), Begun)
      /\ UNCHANGED bridgeVars /\ UNCHANGED told
  BY DEF BatchStart
<1>2. BridgeInv' /\ EventInv' /\ SessionsGrow /\ DOMAIN sess' = DOMAIN sess
  BY <1>1, BridgeSame
<1>3. \A b \in Bridges : /\ queue'[b] \in Seq(Nodes) /\ Once(queue'[b])
                         /\ ToSet(queue'[b]) = {m \in macs : Home[m] = b}
  BY <1>1, BatchPlan
<1>4. todo' \in Seq(Tasks) /\ \A i \in DOMAIN todo' : todo'[i].op # "start"
  BY <1>1, BatchPlan
<1>5. /\ \A i \in DOMAIN todo' : \A m \in Nodes : todo'[i] \notin Starts(m)
      /\ \A m \in Nodes : ~(todo' # <<>> /\ Head(todo') \in Starts(m))
  <2>1. \A i \in DOMAIN todo' : \A m \in Nodes : todo'[i] \notin Starts(m)
    BY <1>4, TaskFacts
  <2>2. todo' # <<>> => Head(todo') = todo'[1] /\ 1 \in DOMAIN todo'
    BY <1>4, TailFacts
  <2> QED BY <2>1, <2>2
<1>6. queue' \in [Bridges -> Seq(Nodes)]
  BY <1>1, <1>3
<1>7. status' \in [Nodes -> Statuses] /\ \A m \in Nodes : status'[m] = IF m \in macs THEN "PENDING" ELSE "NONE"
  BY <1>1 DEF Statuses
<1>8. BatchTypeOK'
  <2>1. orders' \in 0 .. MaxOrders
    BY <1>1, OrdersAssumption, BatchParts
  <2>2. active' \in BOOLEAN /\ done' \in Nat /\ failed' \in Nat
    BY <1>1
  <2> QED BY <1>1, <1>4, <1>6, <1>7, <2>1, <2>2, BatchParts DEF BatchTypeOK
<1>9. PlanInv'
  <2>1. ASSUME NEW b \in Bridges
        PROVE  Once(queue'[b]) /\ \A i \in DOMAIN queue'[b] : Home[queue'[b][i]] = b
    <3>1. \A i \in DOMAIN queue'[b] : queue'[b][i] \in ToSet(queue'[b])
      BY DEF ToSet
    <3> QED BY <1>3, <3>1
  <2>2. \A m \in Nodes : ~(todo' # <<>> /\ Head(todo') = Start(m, TRUE))
    BY <1>5 DEF Starts
  <2> QED BY <1>5, <2>1, <2>2 DEF PlanInv
<1>10. OrderInv'
  <2>1. ASSUME NEW l \in Nodes
        PROVE  Queued(l)' + Starting(l)' <= Queued(l) + Starting(l) + 1
    <3>1. Starting(l)' = 0 /\ Queued(l)' \in {0, 1}
      BY <1>5 DEF Queued, Starting, StartsNext
    <3>2. Queued(l) \in {0, 1} /\ Starting(l) \in {0, 1}
      BY DEF Queued, Starting
    <3> QED BY <3>1, <3>2
  <2> QED BY <1>1, <1>2, <2>1, OrderAdded
<1>11. StatusInv'
  <2>1. \A m \in Nodes : m \in ToSet(queue'[Home[m]]) <=> status'[m] = "PENDING"
    <3>1. \A m \in Nodes : Home[m] \in Bridges
      BY HomeAssumption
    <3> QED BY <1>3, <1>7, <3>1
  <2>2. orders' # 0
    BY <1>1, BatchParts
  <2>3. \A m \in Nodes : ~(todo' # <<>> /\ Head(todo') = Start(m, FALSE))
    BY <1>5 DEF Starts
  <2> QED BY <2>1, <2>2, <2>3 DEF StatusInv
<1>12. CountsAreRight'
  <2>1. With(status', "DONE") = {} /\ With(status', "FAILED") = {}
    BY <1>7 DEF With
  <2> QED BY <1>1, <2>1, FS_EmptySet DEF CountsAreRight, With
<1>13. VerdictsAreTrue'
  BY <1>7 DEF VerdictsAreTrue
<1>14. NobodyLeftWaiting'
  BY <1>1 DEF NobodyLeftWaiting
<1> QED BY <1>2, <1>8, <1>9, <1>10, <1>11, <1>12, <1>13, <1>14 DEF BatchInv, BridgeInv, TypeOK

LEMMA AbortStays ==
  ASSUME BatchInv, NEW b \in Bridges, ManualAbort(b) \/ OperatorDisconnect(b)
  PROVE  BatchInv'
<1>1. /\ AbortOta({b}) /\ UNCHANGED <<ota, at, held, flag, eq>> /\ UNCHANGED batchVars
      /\ \/ UNCHANGED <<linkUp, wanted>>
         \/ wanted' = [wanted EXCEPT ![b] = FALSE] /\ linkUp' = [linkUp EXCEPT ![b] = FALSE]
  BY DEF ManualAbort, OperatorDisconnect, Disconnect, batchVars
<1>2. linkUp' \in [Bridges -> BOOLEAN] /\ wanted' \in [Bridges -> BOOLEAN]
  BY <1>1, BatchParts DEF BridgeTypeOK
<1>3. BridgeInv' /\ EventInv' /\ SessionsGrow /\ DOMAIN sess' = DOMAIN sess
  BY <1>1, <1>2, AbortKeeps, BatchParts
<1> QED BY <1>1, <1>3, BatchStays

-----------------------------------------------------------------------------
(* Every step.                                                             *)

LEMMA BatchStarts ==
  ASSUME Init
  PROVE  BatchInv
<1>1. BridgeInit /\ BatchInit
  BY DEF Init
<1>2. /\ sess = <<>> /\ eq = <<>> /\ todo = <<>> /\ orders = 0 /\ active = FALSE
      /\ done = 0 /\ failed = 0 /\ told = Report("none", 0, 0)
      /\ DOMAIN sess = {} /\ DOMAIN eq = {} /\ DOMAIN todo = {} /\ Len(sess) = 0
  BY <1>1 DEF BridgeInit, BatchInit
<1>3. /\ \A b \in Bridges : ota[b] = 0 /\ at[b] = "tick" /\ held[b] = 0 /\ queue[b] = <<>>
      /\ \A m \in Nodes : status[m] = "NONE"
  BY <1>1 DEF BridgeInit, BatchInit
<1>4. BridgeTypeOK
  BY <1>1, <1>2 DEF BridgeInit, BridgeTypeOK, Places
<1>5. told \in [kind : {"none", "started", "refused", "completed", "stopped"}, done : Nat, failed : Nat]
      /\ told.kind = "none"
  BY <1>2, ReportType
<1>6. BatchTypeOK
  <2>1. queue \in [Bridges -> Seq(Nodes)] /\ status \in [Nodes -> Statuses] /\ todo \in Seq(Tasks)
    BY <1>1 DEF BatchInit, Statuses
  <2>2. orders \in 0 .. MaxOrders
    BY <1>2, OrdersAssumption
  <2> QED BY <1>2, <1>5, <2>1, <2>2 DEF BatchTypeOK
<1>7. WorkerInv /\ NoOrphanSession /\ EventInv
  BY <1>2, <1>3 DEF WorkerInv, InHands, NoOrphanSession, EventInv
<1>8. PlanInv
  BY <1>2, <1>3 DEF PlanInv, Once
<1>9. ToSet(<<>>) = {} /\ \A m \in Nodes : queue[Home[m]] = <<>>
  BY <1>3, HomeAssumption DEF ToSet
<1>10. OrderInv
  <2> SUFFICES ASSUME NEW m \in Nodes
               PROVE  Cardinality(SessionsOf(m)) + Queued(m) + Starting(m) <= 0
    BY <1>2 DEF OrderInv
  <2>1. SessionsOf(m) = {} /\ Cardinality({}) = 0
    BY <1>2, FS_EmptySet DEF SessionsOf
  <2>2. Queued(m) = 0 /\ Starting(m) = 0
    BY <1>2, <1>9 DEF Queued, Starting, StartsNext
  <2> QED BY <2>1, <2>2
<1>11. StatusInv
  BY <1>2, <1>3, <1>9 DEF StatusInv
<1>12. CountsAreRight
  <2>1. {m \in Nodes : status[m] = "DONE"} = {} /\ {m \in Nodes : status[m] = "FAILED"} = {}
    BY <1>3
  <2> QED BY <1>2, <2>1, FS_EmptySet DEF CountsAreRight
<1>13. VerdictsAreTrue /\ NobodyLeftWaiting
  BY <1>3, <1>5 DEF VerdictsAreTrue, NobodyLeftWaiting
<1> QED BY <1>4, <1>6, <1>7, <1>8, <1>10, <1>11, <1>12, <1>13 DEF BatchInv, TypeOK

LEMMA BatchInductive ==
  ASSUME BatchInv, [Next]_vars
  PROVE  BatchInv'
<1>1. CASE UNCHANGED vars
  <2>1. UNCHANGED bridgeVars /\ UNCHANGED batchVars
    BY <1>1 DEF vars
  <2> QED BY <2>1, BridgeSame, BatchStays
<1>2. CASE GuiTask
  BY <1>2, BegunKeeps, KickKeeps, FlagKeeps, SessionKeeps DEF GuiTask
<1>3. CASE HandleEvent
  BY <1>3, EventKeeps
<1>4. CASE Operator
  BY <1>4, BatchStartKeeps, StopKeeps, ManualKeeps, AbortStays DEF Operator
<1>5. CASE WorkerNext
  <2>1. PICK b \in Bridges : WorkerStep(b) \/ Reconnect(b) \/ LinkLost(b)
    BY <1>5 DEF WorkerNext
  <2>2. BridgeInv' /\ EventInv' /\ SessionsGrow /\ DOMAIN sess' = DOMAIN sess
    BY <2>1, WorkerKeeps, BatchParts
  <2> QED BY <1>5, <2>2, BatchStays DEF WorkerNext
<1> QED BY <1>1, <1>2, <1>3, <1>4, <1>5 DEF Next

LEMMA BatchInvAlways == Spec => []BatchInv
<1>1. Init => BatchInv
  BY BatchStarts
<1>2. BatchInv /\ [Next]_vars => BatchInv'
  BY BatchInductive
<1> QED BY <1>1, <1>2, PTL DEF Spec

(* The state of the batch, of the workers and of what the GUI thread has   *)
(* still to do is always well-formed.                                      *)
THEOREM BatchTypes == Spec => []TypeOK
<1>1. BatchInv => TypeOK
  BY DEF BatchInv
<1> QED BY <1>1, BatchInvAlways, PTL

(* The worker of a bridge drives every session of this bridge that runs:   *)
(* start_ota() replaces and _finalize_ota() drops only sessions that are   *)
(* over, in whatever order the threads take their locks.                   *)
THEOREM NobodyIsAbandoned == Spec => []NoOrphanSession
<1>1. BatchInv => NoOrphanSession
  BY DEF BatchInv
<1> QED BY <1>1, BatchInvAlways, PTL

(* No node is flashed more often than updates were ordered: an event that  *)
(* kicks a bridge takes a node out of its queue before it is started.      *)
THEOREM FlashedOncePerOrder == Spec => []OncePerOrder
<1>1. BatchInv => OncePerOrder
  <2> SUFFICES ASSUME BatchInv, NEW m \in Nodes
               PROVE  Cardinality(SessionsOf(m)) <= orders
    BY DEF OncePerOrder, SessionsOf
  <2>1. Cardinality(SessionsOf(m)) + Queued(m) + Starting(m) <= orders
    BY BatchParts DEF OrderInv
  <2>2. Cardinality(SessionsOf(m)) \in Nat /\ Queued(m) \in {0, 1} /\ Starting(m) \in {0, 1} /\ orders \in Nat
    BY BatchParts, OrderTypes
  <2> QED BY <2>1, <2>2
<1> QED BY <1>1, BatchInvAlways, PTL

(* The two counters of the batch panel are the numbers of nodes with that  *)
(* verdict, as long as this batch is the only update ordered.              *)
THEOREM CountersAgree == Spec => []CountsAreRight
<1>1. BatchInv => CountsAreRight
  BY DEF BatchInv
<1> QED BY <1>1, BatchInvAlways, PTL

(* A node shown as DONE had a session that succeeded; under one order a    *)
(* node shown as FAILED had none that did not fail.                        *)
THEOREM VerdictsHold == Spec => []VerdictsAreTrue
<1>1. BatchInv => VerdictsAreTrue
  BY DEF BatchInv
<1> QED BY <1>1, BatchInvAlways, PTL

(* A batch that was reported as completed has no node left in a queue with *)
(* its turn still to come.                                                 *)
THEOREM NoTargetForgotten == Spec => []NobodyLeftWaiting
<1>1. BatchInv => NobodyLeftWaiting
  BY DEF BatchInv
<1> QED BY <1>1, BatchInvAlways, PTL

===============================================================================
