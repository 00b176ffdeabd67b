------------------------------ MODULE GameEvents ------------------------------
(***************************************************************************)
(* How an event of the service reaches the games: over TCP                 *)
(* (GameBridgeServer.broadcast) and over REST (enqueue_event, then a poll  *)
(* of the client ActionGame.py).                                           *)
(*                                                                         *)
(* Several threads emit events: the worker of each bridge (what its nodes  *)
(* send), the RBusPoller (feedback of commands that are retried or given   *)
(* up) and the main thread (connected, disconnected).  All three may emit  *)
(* events of the same bridge.                                              *)
(*                                                                         *)
(* The two programs wire this differently.  In the window the emitting     *)
(* thread puts the event into the REST queue and into the queue _eq of the *)
(* GUI, whose timer takes it out and broadcasts it; the main thread is the *)
(* one of the GUI.  On the console (run.py) the emitting thread does all   *)
(* of it itself, side by side with the others: there is no one order of    *)
(* the events of different threads, not even for those of one bridge.      *)
(*                                                                         *)
(* An event is <<t, n>>, the n-th of thread t.  Left out: what the events  *)
(* say, the panels of the GUI they are passed to next, the initial state a *)
(* TCP client is sent, how long a poll waits, and the end of the programs. *)
(* A panel that opens a message box stops the broadcasts of the window     *)
(* until the user has closed it (_slot_completed does): the fairness of    *)
(* the GUI below assumes that he does.                                     *)
(***************************************************************************)
EXTENDS Naturals, Sequences, FiniteSets

CONSTANTS
  Wirings,       \* the programs looked at: "window", "console"
  Threads,       \* numbers of the threads that emit events, from 1
  Main,          \* the main thread, in the window the one of the GUI
  KindOf,        \* of each thread the kinds of its events, in order
  Clients,       \* TCP connections, 1 .. n, in the order they come
  MaxTogether,   \* GB_MAX_CLIENTS
  MaxQueue,      \* maxlen of the REST queue
  Jobs,          \* bound: polls under way
  MaxConnects,   \* bound: how often the client connects to REST
  MaxFailures    \* bound: polls that fail

ASSUME ConstantsAssumption ==
  /\ Wirings \subseteq {"window", "console"} /\ Threads \subseteq Nat \ {0} /\ Main \in Threads
  /\ KindOf \in [Threads -> Seq({"touch", "link", "game"})] /\ Clients \subseteq Nat \ {0}
  /\ {MaxTogether, MaxQueue, MaxConnects, MaxFailures} \subseteq Nat /\ MaxQueue > 0

Gui == 0                     \* what broadcasts in the window: _pump(), run by Main
Events == UNION {{<<t, n>> : n \in DOMAIN KindOf[t]} : t \in Threads}
Kind(e) == KindOf[e[1]][e[2]]

VARIABLES
  wiring,     \* which of the programs runs
  made,       \* of each thread the number of its last event
  stage,      \* where it is with that event
  eq,         \* MainWindow._eq
  pumped,     \* what _pump() took out and has not handled yet
  cast,       \* of each thread and _pump() its broadcast: whether it is under way, to whom yet, who is dead
  clients,    \* _clients: the connections the server knows
  sock,       \* a connection: not made, open, gone (its peer left), dead (alive flag cleared)
  last,       \* the last event of each thread a connection was sent, 0 for none
  rest,       \* the REST queue
  active,     \* _poll_active of the client
  busy,       \* _poll_busy
  jobs,       \* its polls
  shown,      \* events its window was given
  lost,       \* auxiliary: events lost for a known reason
  connects, failures

workVars == <<wiring, made, stage, eq, pumped, cast>>
tcpVars  == <<clients, sock, last>>
pollVars == <<active, busy, jobs, shown, connects, failures>>
vars     == <<workVars, tcpVars, rest, lost, pollVars>>

Elements(s) == {s[i] : i \in DOMAIN s}
NoCast == [on |-> FALSE, to |-> {}, dead |-> {}]
NoJob == [at |-> "free", batch |-> {}]

TypeOK ==
  /\ wiring \in Wirings
  /\ made \in [Threads -> Nat] /\ stage \in [Threads -> {"idle", "rest", "eq", "cast"}]
  /\ eq \in Seq(Events) /\ pumped \in Seq(Events)
  /\ cast \in [Threads \cup {Gui} ->
                 [on : BOOLEAN, to : SUBSET Clients, dead : SUBSET Clients]]
  /\ clients \subseteq Clients /\ Cardinality(clients) <= MaxTogether
  /\ sock \in [Clients -> {"none", "open", "gone", "dead"}]
  /\ last \in [Clients -> [Threads -> Nat]]
  /\ rest \in Seq(Events) /\ Len(rest) <= MaxQueue
  /\ active \in BOOLEAN /\ busy \in BOOLEAN
  /\ jobs \in [Jobs -> [at : {"free", "asked", "given_up", "answered"}, batch : SUBSET Events]]
  /\ shown \subseteq Events /\ lost \subseteq Events
  /\ connects \in 0 .. MaxConnects /\ failures \in 0 .. MaxFailures

InitAtRest ==
  /\ wiring \in Wirings /\ stage = [t \in Threads |-> "idle"]
  /\ eq = <<>> /\ pumped = <<>> /\ cast = [g \in Threads \cup {Gui} |-> NoCast]
  /\ clients = {}
  /\ last = [c \in Clients |-> [t \in Threads |-> 0]]
  /\ active = FALSE /\ busy = FALSE
  /\ jobs = [j \in Jobs |-> NoJob] /\ shown = {} /\ lost = {}
  /\ failures = 0

Init ==
  /\ InitAtRest
  /\ sock = [c \in Clients |-> "none"] /\ connects = 0
  /\ made = [t \in Threads |-> 0] /\ rest = <<>>

(* The kinds GameBridgeServer.on_service_event() has a branch for, and     *)
(* those that are put into the REST queue.                                 *)
TcpKinds == {"touch", "link"}
RestKinds == IF wiring = "window" THEN {"touch"} ELSE {"touch", "game"}

-----------------------------------------------------------------------------
(* A thread that emits events, and the pump of the window.                 *)

(* Variant with a bug: in the window too the emitting thread broadcasts.   *)
EmitRealtime(t) ==
  /\ stage[t] = "idle" /\ made[t] < Len(KindOf[t])
  /\ made' = [made EXCEPT ![t] = @ + 1]
  /\ stage' = [stage EXCEPT ![t] = "cast"]
  /\ UNCHANGED <<wiring, eq, pumped, cast, tcpVars, rest, lost, pollVars>>

(* In the window the main thread emits nothing in the middle of a          *)
(* broadcast of its own.                                                   *)
Emit(t) ==
  /\ stage[t] = "idle" /\ made[t] < Len(KindOf[t])
  /\ t = Main => ~ cast[Gui].on
  /\ made' = [made EXCEPT ![t] = @ + 1]
  /\ stage' = [stage EXCEPT ![t] = IF wiring = "window" THEN "rest" ELSE "cast"]
  /\ UNCHANGED <<wiring, eq, pumped, cast, tcpVars, rest, lost, pollVars>>

(* Variant with a bug: the queue has no limit.                             *)
RestPutUnlimited(t) ==
  /\ stage[t] = "rest"
  /\ rest' = IF Kind(<<t, made[t]>>) \in RestKinds THEN Append(rest, <<t, made[t]>>) ELSE rest
  /\ stage' = [stage EXCEPT ![t] = IF wiring = "window" THEN "eq" ELSE "idle"]
  /\ UNCHANGED <<wiring, made, eq, pumped, cast, tcpVars, lost, pollVars>>

(* enqueue_event(): a full queue drops its oldest event.                   *)
RestPut(t) ==
  LET e == <<t, made[t]>>
      full == Len(rest) = MaxQueue
  IN /\ stage[t] = "rest"
     /\ IF Kind(e) \notin RestKinds THEN UNCHANGED <<rest, lost>>
        ELSE /\ rest' = Append(IF full THEN Tail(rest) ELSE rest, e)
             /\ lost' = IF full THEN lost \cup {Head(rest)} ELSE lost
     /\ stage' = [stage EXCEPT ![t] = IF wiring = "window" THEN "eq" ELSE "idle"]
     /\ UNCHANGED <<wiring, made, eq, pumped, cast, tcpVars, pollVars>>

EqPut(t) ==
  /\ stage[t] = "eq" /\ stage' = [stage EXCEPT ![t] = "idle"]
  /\ eq' = Append(eq, <<t, made[t]>>)
  /\ UNCHANGED <<wiring, made, pumped, cast, tcpVars, rest, lost, pollVars>>

(* Variant with a bug: one event at a time, taken from the wrong end.      *)
PumpNewest ==
  /\ pumped = <<>> /\ eq # <<>> /\ stage[Main] = "idle"
  /\ pumped' = <<eq[Len(eq)]>> /\ eq' = SubSeq(eq, 1, Len(eq) - 1)
  /\ UNCHANGED <<wiring, made, stage, cast, tcpVars, rest, lost, pollVars>>

(* _pump(): the queue is exchanged for an empty one under its lock.        *)
Pump ==
  /\ pumped = <<>> /\ eq # <<>> /\ stage[Main] = "idle"
  /\ pumped' = eq /\ eq' = <<>>
  /\ UNCHANGED <<wiring, made, stage, cast, tcpVars, rest, lost, pollVars>>

(* The event a thread has to broadcast, and what it does afterwards.       *)
Current(g) == IF g = Gui THEN Head(pumped) ELSE <<g, made[g]>>
HasCurrent(g) == IF g = Gui THEN pumped # <<>> ELSE stage[g] = "cast"
Finish(g) ==
  /\ cast' = [cast EXCEPT ![g] = NoCast]
  /\ IF g = Gui THEN pumped' = Tail(pumped) /\ UNCHANGED stage
     ELSE stage' = [stage EXCEPT ![g] = "rest"] /\ UNCHANGED pumped

(* on_service_event(), and the copy of the clients under their lock.       *)
CastStart(g) ==
  /\ HasCurrent(g) /\ ~ cast[g].on
  /\ g = Gui => stage[Main] = "idle"
  /\ IF clients = {} \/ Kind(Current(g)) \notin TcpKinds THEN Finish(g)
     ELSE /\ cast' = [cast EXCEPT ![g] = [on |-> TRUE, to |-> clients, dead |-> {}]]
          /\ UNCHANGED <<pumped, stage>>
  /\ UNCHANGED <<wiring, made, eq, tcpVars, rest, lost, pollVars>>

(* Variant with a bug: the first client that is dead ends the broadcast.   *)
CastSendStops(g) ==
  /\ cast[g].on
  /\ \E c \in cast[g].to :
       \E ok \in {sock[c] = "open", sock[c] # "dead"} :
         /\ cast' = [cast EXCEPT ![g].to = IF ok THEN @ \ {c} ELSE {},
                                ![g].dead = IF ok THEN @ ELSE @ \cup {c}]
         /\ sock' = [sock EXCEPT ![c] = IF ok THEN @ ELSE "dead"]
         /\ last' = IF sock[c] # "open" THEN last
                    ELSE [last EXCEPT ![c][Current(g)[1]] = Current(g)[2]]
  /\ UNCHANGED <<wiring, made, stage, eq, pumped, clients, rest, lost, pollVars>>

(* _ClientHandler.send(): the send to a peer that left may fail.           *)
CastSend(g) ==
  /\ cast[g].on
  /\ \E c \in cast[g].to :
       \E ok \in {sock[c] = "open", sock[c] # "dead"} :
         /\ cast' = [cast EXCEPT ![g].to = @ \ {c}, ![g].dead = IF ok THEN @ ELSE @ \cup {c}]
         /\ sock' = [sock EXCEPT ![c] = IF ok THEN @ ELSE "dead"]
         /\ last' = IF sock[c] # "open" THEN last
                    ELSE [last EXCEPT ![c][Current(g)[1]] = Current(g)[2]]
  /\ UNCHANGED <<wiring, made, stage, eq, pumped, clients, rest, lost, pollVars>>

CastEnd(g) ==
  /\ cast[g].on /\ cast[g].to = {}
  /\ clients' = clients \ cast[g].dead /\ Finish(g)
  /\ UNCHANGED <<wiring, made, eq, sock, last, rest, lost, pollVars>>

-----------------------------------------------------------------------------
(* TCP clients.                                                            *)

(* _accept_loop(): a client too many is told so and closed.                *)
Join(c) ==
  /\ sock[c] = "none" /\ \A d \in Clients : d < c => sock[d] # "none"
  /\ IF Cardinality(clients) < MaxTogether
     THEN clients' = clients \cup {c} /\ sock' = [sock EXCEPT ![c] = "open"]
     ELSE sock' = [sock EXCEPT ![c] = "dead"] /\ UNCHANGED clients
  /\ UNCHANGED <<workVars, last, rest, lost, pollVars>>

Leave(c) ==
  /\ sock[c] = "open" /\ sock' = [sock EXCEPT ![c] = "gone"]
  /\ UNCHANGED <<workVars, clients, last, rest, lost, pollVars>>

(* _ClientHandler.run() ends and _on_client_disconnect() is called.        *)
HandlerEnds(c) ==
  /\ sock[c] = "gone" \/ (sock[c] = "dead" /\ c \in clients)
  /\ sock' = [sock EXCEPT ![c] = "dead"] /\ clients' = clients \ {c}
  /\ UNCHANGED <<workVars, last, rest, lost, pollVars>>

-----------------------------------------------------------------------------
(* The client of the REST server.                                          *)

Connect ==
  /\ ~ active /\ connects < MaxConnects
  /\ active' = TRUE /\ busy' = FALSE /\ connects' = connects + 1
  /\ UNCHANGED <<workVars, tcpVars, rest, lost, jobs, shown, failures>>

Disconnect ==
  /\ active /\ active' = FALSE
  /\ UNCHANGED <<workVars, tcpVars, rest, lost, busy, jobs, shown, connects, failures>>

(* _poll_tick()                                                            *)
PollTick(j) ==
  /\ active /\ ~ busy /\ jobs[j].at = "free"
  /\ busy' = TRUE /\ jobs' = [jobs EXCEPT ![j].at = "asked"]
  /\ UNCHANGED <<workVars, tcpVars, rest, lost, active, shown, connects, failures>>

(* Variant with a bug: the events stay in the queue.                       *)
DrainKeeps(j) ==
  /\ jobs[j].at \in {"asked", "given_up"}
  /\ IF jobs[j].at = "asked"
     THEN jobs' = [jobs EXCEPT ![j] = [at |-> "answered", batch |-> Elements(rest)]]
     ELSE jobs' = [jobs EXCEPT ![j] = NoJob]
  /\ UNCHANGED <<workVars, tcpVars, rest, lost, active, busy, shown, connects, failures>>

(* _drain_events(): copy and clear under the lock; with an empty queue the *)
(* wait is over.  Nobody listens when the client has given the request up. *)
Drain(j) ==
  /\ jobs[j].at \in {"asked", "given_up"}
  /\ rest' = <<>>
  /\ IF jobs[j].at = "asked"
     THEN /\ jobs' = [jobs EXCEPT ![j] = [at |-> "answered", batch |-> Elements(rest)]]
          /\ UNCHANGED lost
     ELSE jobs' = [jobs EXCEPT ![j] = NoJob] /\ lost' = lost \cup Elements(rest)
  /\ UNCHANGED <<workVars, tcpVars, active, busy, shown, connects, failures>>

(* The rest of _poll_job(): what comes while the client is not active is   *)
(* dropped; busy is reset also by a job from before the last connect.      *)
JobEnds(j) ==
  /\ jobs[j].at = "answered"
  /\ jobs' = [jobs EXCEPT ![j] = NoJob] /\ busy' = FALSE
  /\ IF active THEN shown' = shown \cup jobs[j].batch /\ UNCHANGED lost
     ELSE lost' = lost \cup jobs[j].batch /\ UNCHANGED shown
  /\ UNCHANGED <<workVars, tcpVars, rest, active, connects, failures>>

(* Variant with a bug: a poll that failed stays busy.                      *)
JobFailsBusy(j) ==
  /\ failures < MaxFailures /\ failures' = failures + 1
  /\ \/ jobs[j].at = "asked"
        /\ \E at \in {"free", "given_up"} : jobs' = [jobs EXCEPT ![j].at = at]
        /\ UNCHANGED lost
     \/ jobs[j].at = "answered"
        /\ jobs' = [jobs EXCEPT ![j] = NoJob] /\ lost' = lost \cup jobs[j].batch
  /\ UNCHANGED <<workVars, tcpVars, rest, active, busy, shown, connects>>

(* A timeout or an error of the network: before the server has the request *)
(* or after it, or the answer is lost.                                     *)
JobFails(j) ==
  /\ failures < MaxFailures /\ failures' = failures + 1 /\ busy' = FALSE
  /\ \/ jobs[j].at = "asked"
        /\ \E at \in {"free", "given_up"} : jobs' = [jobs EXCEPT ![j].at = at]
        /\ UNCHANGED lost
     \/ jobs[j].at = "answered"
        /\ jobs' = [jobs EXCEPT ![j] = NoJob] /\ lost' = lost \cup jobs[j].batch
  /\ UNCHANGED <<workVars, tcpVars, rest, active, shown, connects>>

-----------------------------------------------------------------------------
Worker(t) == Emit(t) \/ RestPut(t) \/ EqPut(t)
Cast(g) == CastStart(g) \/ CastSend(g) \/ CastEnd(g)

Next ==
  \/ \E t \in Threads : Worker(t)
  \/ Pump \/ \E g \in Threads \cup {Gui} : Cast(g)
  \/ \E c \in Clients : Join(c) \/ Leave(c) \/ HandlerEnds(c)
  \/ Connect \/ Disconnect
  \/ \E j \in Jobs : PollTick(j) \/ Drain(j) \/ JobEnds(j) \/ JobFails(j)

Spec == Init /\ [][Next]_vars

(* The threads run; the timers of the GUI and of the client fire.          *)
Fairness ==
  /\ \A t \in Threads : WF_vars(RestPut(t) \/ EqPut(t))
  /\ WF_vars(Pump) /\ \A g \in Threads \cup {Gui} : WF_vars(Cast(g))
  /\ WF_vars(\E j \in Jobs : PollTick(j))
  /\ \A j \in Jobs : WF_vars(Drain(j)) /\ WF_vars(JobEnds(j))

FairSpec == Spec /\ Fairness

-----------------------------------------------------------------------------
(* Properties.                                                             *)

(* An event that was put into the REST queue is in one place: in the       *)
(* queue, in the answer to one poll, shown, or lost for one of the known   *)
(* reasons (the queue was full, the poll failed, the client had            *)
(* disconnected).  None is given out twice, none just vanishes, with two   *)
(* polls under way and events coming in between.                           *)
Queued(e) ==
  /\ Kind(e) \in RestKinds
  /\ e[2] < made[e[1]] \/ (e[2] = made[e[1]] /\ stage[e[1]] \in {"eq", "idle"})

EachEventOnce ==
  \A e \in Events :
    Cardinality({i \in DOMAIN rest : rest[i] = e})
      + Cardinality({j \in Jobs : e \in jobs[j].batch})
      + Cardinality({S \in {<<"shown", shown>>, <<"lost", lost>>} : e \in S[2]})
    = IF Queued(e) THEN 1 ELSE 0

(* A TCP client is sent the events of a thread in their order and, from    *)
(* its first one on, without a gap, although other clients come, go and    *)
(* break meanwhile and on the console the threads broadcast side by side.  *)
InOrderWithoutGaps ==
  [][\A c \in Clients, t \in Threads :
       last'[c][t] # last[c][t] /\ last[c][t] # 0 =>
         /\ last'[c][t] > last[c][t]
         /\ \A n \in last[c][t] + 1 .. last'[c][t] - 1 : Kind(<<t, n>>) \notin TcpKinds]_vars

(* In the window all TCP clients are sent the events of all threads in one *)
(* order: two clients that are connected never differ by the events of two *)
(* threads, only by the one event that is being broadcast.  On the console *)
(* this does not hold.                                                     *)
Apart(c, d, t) == last[c][t] # 0 /\ last[d][t] # 0 /\ last[c][t] # last[d][t]

SameOrder ==
  wiring = "window" =>
    \A c, d \in Clients : sock[c] = "open" /\ sock[d] = "open" =>
      \A t, u \in Threads : Apart(c, d, t) /\ Apart(c, d, u) => t = u

(* The event was emitted and its broadcast has not begun.                  *)
UnderWay(e) ==
  /\ made[e[1]] = e[2]
  /\ stage[e[1]] = "cast" => ~ cast[e[1]].on
  /\ stage[e[1]] \in IF wiring = "window" THEN {"rest", "eq"} ELSE {"cast"}

(* An event emitted while a TCP client is connected reaches this client,   *)
(* unless the client leaves, whatever becomes of the other clients.        *)
TcpArrives ==
  \A c \in Clients, e \in {f \in Events : Kind(f) \in TcpKinds} :
    UnderWay(e) /\ c \in clients /\ sock[c] = "open"
      ~> last[c][e[1]] >= e[2] \/ sock[c] # "open"

(* A client that polls empties the REST queue, also after polls that       *)
(* failed and with a poll from before it connected still under way.        *)
RestArrives == rest # <<>> ~> rest = <<>> \/ ~ active
=============================================================================
