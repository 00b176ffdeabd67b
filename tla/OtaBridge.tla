----------------------------- MODULE OtaBridge -------------------------------
(***************************************************************************)
(* The OTA side of core/bridge_worker.py: one BridgeWorker thread for each *)
(* bridge, which drives at most one OtaSession, and what other threads see *)
(* of it: is_ota_active(), the in_ota flag of the registry and the events  *)
(* it puts in the queue of the GUI.                                        *)
(*                                                                         *)
(* A session is reduced to its end here: OtaFlash says what happens on the *)
(* way.  One action is one critical section of the code: a thread may be   *)
(* interrupted between any two of them.                                    *)
(***************************************************************************)
EXTENDS Integers, Sequences

CONSTANTS
  Bridges,       \* the bridges of the service
  Nodes,         \* the nodes of the registry, all with an address
  Home,          \* the bridge of each node
  ProgressBound, \* bound: events in the queue before another progress event
  Disturbances   \* what may happen besides a batch update, see AllDisturbances

AllDisturbances == {
  "link",        \* a link breaks, or the operator disconnects a bridge
  "manual",      \* the OTA panel starts or cancels a single update
  "stop" }       \* the batch panel stops a batch and may start another one

ASSUME HomeAssumption == Home \in [Nodes -> Bridges] /\ ProgressBound \in Nat
ASSUME DisturbancesAssumption == Disturbances \subseteq AllDisturbances

VARIABLES
  linkUp,        \* link.connected of each bridge
  wanted,        \* _want_connected of each bridge
  sess,          \* every OtaSession created so far, oldest first
  ota,           \* self._ota of each worker: an index of sess, 0 for None
  at,            \* where the loop of each worker stands
  held,          \* the local variable of that loop that holds a session
  flag,          \* in_ota of each node in the registry
  eq             \* the event queue of the GUI: MainWindow._eq

bridgeVars == <<linkUp, wanted, sess, ota, at, held, flag, eq>>

Session == [mac : Nodes, state : {"running", "done", "error"}, abort : BOOLEAN]
Event   == [kind : {"ota_progress", "ota_done", "ota_error"}, mac : Nodes]
Places  == {"tick", "tickVerdict", "clear", "unflag", "rx", "rxVerdict"}

BridgeTypeOK ==
  /\ linkUp \in [Bridges -> BOOLEAN]
  /\ wanted \in [Bridges -> BOOLEAN]
  /\ sess \in Seq(Session)
  /\ ota \in [Bridges -> 0 .. Len(sess)]
  /\ at \in [Bridges -> Places]
  /\ held \in [Bridges -> 0 .. Len(sess)]
  /\ flag \in [Nodes -> BOOLEAN]
  /\ eq \in Seq(Event)

BridgeInit ==
  /\ linkUp = [b \in Bridges |-> TRUE]
  /\ wanted = [b \in Bridges |-> TRUE]
  /\ sess = <<>>
  /\ ota = [b \in Bridges |-> 0]
  /\ at = [b \in Bridges |-> "tick"]
  /\ held = [b \in Bridges |-> 0]
  /\ flag = [m \in Nodes |-> FALSE]
  /\ eq = <<>>

Running(s) == s # 0 /\ sess[s].state = "running"

(* is_ota_active()                                                         *)
OtaActive(b) == Running(ota[b])

Emit(kind, m) == eq' = Append(eq, [kind |-> kind, mac |-> m])

-----------------------------------------------------------------------------
(* start_ota() up to the release of _ota_lock.  A session that has ended   *)
(* but is not finalized yet is replaced.  The registry is told only after  *)
(* the lock is released: FlagOta, the next step of the same thread.        *)
OtaStartable(m) == ~ OtaActive(Home[m]) /\ linkUp[Home[m]]

StartOta(m) ==
  /\ OtaStartable(m)
  /\ sess' = Append(sess, [mac |-> m, state |-> "running", abort |-> FALSE])
  /\ ota' = [ota EXCEPT ![Home[m]] = Len(sess) + 1]
  /\ Emit("ota_progress", m)
  /\ UNCHANGED <<linkUp, wanted, at, held, flag>>

FlagOta(m) ==
  /\ flag' = [flag EXCEPT ![m] = TRUE]
  /\ UNCHANGED <<linkUp, wanted, sess, ota, at, held, eq>>

(* request_abort() on the current session of every bridge of bs.           *)
AbortOta(bs) ==
  sess' = [s \in DOMAIN sess |->
             [sess[s] EXCEPT !.abort = @ \/ \E b \in bs : ota[b] = s]]

-----------------------------------------------------------------------------
(* One turn of run().  tick() may end the session: an abort is served, the *)
(* retries are used up.  _finished is set before the event is queued.      *)
EndSession(s, how) == sess' = [sess EXCEPT ![s].state = how]

Move(b, place, s) ==
  /\ at' = [at EXCEPT ![b] = place]
  /\ held' = [held EXCEPT ![b] = s]

TickAlive(b) ==
  /\ at[b] = "tick"
  /\ \/ ota[b] = 0 /\ Move(b, "rx", 0)
     \/ Running(ota[b]) /\ ~ sess[ota[b]].abort /\ Move(b, "rx", 0)
     \/ ota[b] # 0 /\ ~ Running(ota[b]) /\ Move(b, "clear", ota[b])
  /\ UNCHANGED <<linkUp, wanted, sess, ota, flag, eq>>

TickEnds(b) ==
  /\ at[b] = "tick"
  /\ Running(ota[b])
  /\ EndSession(ota[b], "error")
  /\ Move(b, "tickVerdict", ota[b])
  /\ UNCHANGED <<linkUp, wanted, ota, flag, eq>>

(* Variant with a bug: every end is reported as a success.                 *)
QueueDone(b) ==
  /\ at[b] \in {"tickVerdict", "rxVerdict"}
  /\ Emit("ota_done", sess[held[b]].mac)
  /\ IF at[b] = "tickVerdict" THEN Move(b, "clear", held[b]) ELSE Move(b, "tick", 0)
  /\ UNCHANGED <<linkUp, wanted, sess, ota, flag>>

(* The event of _done or _fail, queued after _finished is set.             *)
QueueVerdict(b) ==
  /\ at[b] \in {"tickVerdict", "rxVerdict"}
  /\ LET s == sess[held[b]] IN
       Emit(IF s.state = "done" THEN "ota_done" ELSE "ota_error", s.mac)
  /\ IF at[b] = "tickVerdict" THEN Move(b, "clear", held[b]) ELSE Move(b, "tick", 0)
  /\ UNCHANGED <<linkUp, wanted, sess, ota, flag>>

(* Variant with a bug: the session found in _ota is dropped whichever it is. *)
ClearAnyOta(b) ==
  /\ at[b] = "clear"
  /\ ota' = [ota EXCEPT ![b] = 0]
  /\ Move(b, "unflag", held[b])
  /\ UNCHANGED <<linkUp, wanted, sess, flag, eq>>

(* _finalize_ota: forget the session if it is still the current one, then, *)
(* outside the lock, clear the flag of its node.                           *)
ClearOta(b) ==
  /\ at[b] = "clear"
  /\ ota' = [ota EXCEPT ![b] = IF @ = held[b] THEN 0 ELSE @]
  /\ Move(b, "unflag", held[b])
  /\ UNCHANGED <<linkUp, wanted, sess, flag, eq>>

UnflagOta(b) ==
  /\ at[b] = "unflag"
  /\ flag' = [flag EXCEPT ![sess[held[b]].mac] = FALSE]
  /\ Move(b, "rx", 0)
  /\ UNCHANGED <<linkUp, wanted, sess, ota, eq>>

(* The received data hold nothing of interest.                             *)
ReceiveNothing(b) ==
  /\ at[b] = "rx"
  /\ Move(b, "tick", 0)
  /\ UNCHANGED <<linkUp, wanted, sess, ota, flag, eq>>

(* The progress is reported when feed_frame() moves the session on, when   *)
(* tick() repeats a request, and just before tick() ends the session: its  *)
(* end is then still to come.                                              *)
ReportProgress(b) ==
  /\ at[b] \in {"tick", "rx"}
  /\ Running(ota[b])
  /\ at[b] = "rx" => ~ sess[ota[b]].abort
  /\ Len(eq) < ProgressBound
  /\ Emit("ota_progress", sess[ota[b]].mac)
  /\ Move(b, "tick", 0)
  /\ UNCHANGED <<linkUp, wanted, sess, ota, flag>>

(* feed_frame() ends the session, unless an abort is pending.              *)
ReceiveEnds(b) ==
  /\ at[b] = "rx" /\ linkUp[b]
  /\ Running(ota[b]) /\ ~ sess[ota[b]].abort
  /\ \E how \in {"done", "error"} : EndSession(ota[b], how)
  /\ Move(b, "rxVerdict", ota[b])
  /\ UNCHANGED <<linkUp, wanted, ota, flag, eq>>

(* The answer to a GET_STATUS, polled or sent after a discovery: in_ota    *)
(* becomes what the node says of itself.  Only a node that was asked to    *)
(* update can be in OTA mode.                                              *)
ReceiveStatus(b, m, mode) ==
  /\ at[b] = "rx" /\ linkUp[b]
  /\ Home[m] = b
  /\ mode => \E s \in DOMAIN sess : sess[s].mac = m
  /\ flag' = [flag EXCEPT ![m] = mode]
  /\ Move(b, "tick", 0)
  /\ UNCHANGED <<linkUp, wanted, sess, ota, eq>>

WorkerStep(b) ==
  \/ TickAlive(b)
  \/ TickEnds(b)
  \/ QueueVerdict(b)
  \/ ClearOta(b)
  \/ UnflagOta(b)
  \/ ReceiveNothing(b)
  \/ ReportProgress(b)
  \/ ReceiveEnds(b)
  \/ \E m \in Nodes, mode \in BOOLEAN : ReceiveStatus(b, m, mode)

-----------------------------------------------------------------------------
(* The peer closes the connection, or sending fails.                       *)
LinkLost(b) ==
  /\ "link" \in Disturbances
  /\ linkUp[b]
  /\ linkUp' = [linkUp EXCEPT ![b] = FALSE]
  /\ UNCHANGED <<wanted, sess, ota, at, held, flag, eq>>

(* The worker connects again as long as nobody pressed disconnect.         *)
Reconnect(b) ==
  /\ wanted[b] /\ ~ linkUp[b]
  /\ at[b] = "tick"
  /\ linkUp' = [linkUp EXCEPT ![b] = TRUE]
  /\ UNCHANGED <<wanted, sess, ota, at, held, flag, eq>>

(* disconnect(), from the GUI.                                             *)
Disconnect(b) ==
  /\ "link" \in Disturbances
  /\ wanted[b]
  /\ wanted' = [wanted EXCEPT ![b] = FALSE]
  /\ linkUp' = [linkUp EXCEPT ![b] = FALSE]
  /\ AbortOta({b})
  /\ UNCHANGED <<ota, at, held, flag, eq>>
=============================================================================
