---------------------------- MODULE GameCommands -----------------------------
(***************************************************************************)
(* How a request of a game becomes frames: the REST server (rest_api), the *)
(* dispatcher of the TCP server (game_bridge) and the action game, down to *)
(* RBusService.send_cmd().                                                 *)
(*                                                                         *)
(* Every request runs in a thread of its own.  Its body is turned into the *)
(* sequence of steps the handlers take for it (Plan); the thread takes     *)
(* them one by one, and between two sends of a thread links break, updates *)
(* start, bridges are added and other threads send.                        *)
(*                                                                         *)
(* Left out: what a frame carries (colours, keys, checksums: a field of a  *)
(* body is well formed or not, in the way the handlers tell apart); the    *)
(* queue behind send_cmd, see CommandPath; _active_nodes, which only       *)
(* ActionGame.on_touch reads and nobody calls; log texts; the test page.   *)
(***************************************************************************)
EXTENDS Naturals, Sequences, FiniteSets

CONSTANTS
  MaxBridges,      \* Bridge-1 .. Bridge-MaxBridges, in the order they are added
  Requests,        \* the requests of the games, for each thread
  Addrs,           \* the addresses nodes have
  Ready,           \* bridges that are added, connected and searched before the first request
  MaxActivations,  \* bound: action games that are created
  MaxRequests,     \* bound: requests, and the threads that handle them
  MaxSurprises     \* bound: links that break, updates that start, nodes that are forgotten

Bridges == 1 .. MaxBridges
Threads == 1 .. MaxRequests
AllBridges == 0                                \* "Bridge" is 0 or absent
Unknown == MaxBridges + 1                      \* a bridge the service does not have

Start == 11                                    \* the start key with its stage
Foot == 12

ASSUME BoundAssumption ==
  /\ {MaxBridges, MaxActivations, MaxRequests, MaxSurprises} \subseteq Nat
  /\ Addrs \subseteq Nat \ {0} /\ Ready \in 0 .. MaxBridges

(* A request: a body of PUT /api/nodes/set, or a message for the           *)
(* dispatcher, from TCP or from a path under /api/v1.                      *)
Texts == {"", "short", "wrong", "unknown", "token", "RRR", "good"}
Fields ==
  {"Arm", "Start", "Fail", "Cancel", "Motion", "GridEffect", "TimerStart", "TimerStop",
   "TeslaStart", "LightningFx", "DropArm", "DropCancel", "DropStatus"}

Bodies ==
  [way : {"rest", "tcp"}, auth : BOOLEAN,
   msg : {"set", "node", "malformed", "array", "read", "bridges", "L", "S", "hide"},
   game : {"", "Action", "Hide", "Vibron", "Tesla"}, bridge : 0 .. Unknown, at : Addrs \cup {0},
   reset : BOOLEAN, idle : BOOLEAN, alloff : BOOLEAN, pixels : BOOLEAN,
   general : Texts, nodes : SUBSET Addrs, setkey : Texts,
   fields : SUBSET Fields, wrong : SUBSET Fields]

ASSUME RequestAssumption == Requests \in [Threads -> SUBSET Bodies]

VARIABLES
  bus,         \* a bridge: not added yet, link down, link up, link up and an update runs
  known,       \* the addresses of the nodes in the registry
  inst,        \* service._action_game: the number of the instance, 0 for None
  lock,        \* _stage_lock of each instance
  epoch,       \* auxiliary: how often the lock was opened
  coloured,    \* auxiliary: the stage was coloured since then
  pc,          \* of each thread: free, busy, the answer it gave, or dead without one
  req,         \* its request
  todo,        \* the steps it still has to take
  mine,        \* the instance of the action game it works with
  verdict,     \* its results so far: none, all good, one bad
  missed,      \* auxiliary: a frame was not accepted
  owed,        \* auxiliary: bridges able to send all the time, without a frame so far
  surprises    \* number of surprises so far

stageVars  == <<lock, epoch, coloured>>
threadVars == <<pc, req, todo, mine, verdict, missed, owed>>
vars       == <<bus, known, inst, stageVars, threadVars, surprises>>

Instances == 1 .. MaxActivations
Answers == {"ok", "not_ok", "refused", "error"}

(* A step: what is done, for which bridges (of a sweep: which it has       *)
(* visited), for which node, and what the thread remembers from before.    *)
Step(do, to, at, mark) == [do |-> do, to |-> to, at |-> at, mark |-> mark]
Steps ==
  [do : {"send", "try", "find", "good", "bad", "refuse", "crash", "reset", "unlock",
         "die", "node", "look", "stage", "colour", "sweep", "display", "list"},
   to : SUBSET Bridges, at : Nat, mark : Nat]

TypeOK ==
  /\ bus \in [Bridges -> {"none", "down", "up", "ota"}]
  /\ known \in [Bridges -> SUBSET Addrs]
  /\ inst \in 0 .. MaxActivations
  /\ lock \in [Instances -> [Bridges -> BOOLEAN]]
  /\ epoch \in [Instances -> [Bridges -> Nat]]
  /\ coloured \in [Instances -> [Bridges -> BOOLEAN]]
  /\ pc \in [Threads -> {"free", "busy", "dead"} \cup Answers]
  /\ req \in [Threads -> Bodies \cup {<<>>}] /\ todo \in [Threads -> Seq(Steps)]
  /\ mine \in [Threads -> 0 .. MaxActivations]
  /\ verdict \in [Threads -> {"none", "good", "bad"}]
  /\ missed \in [Threads -> BOOLEAN]
  /\ owed \in [Threads -> SUBSET Bridges] /\ surprises \in 0 .. MaxSurprises

(* The servers listen before the bridges are added (MainWindow.__init__);  *)
(* some bridges may be in use when the first request comes.                *)
Init ==
  /\ bus = [b \in Bridges |-> IF b <= Ready THEN "up" ELSE "none"]
  /\ known = [b \in Bridges |-> IF b <= Ready THEN Addrs ELSE {}]
  /\ inst = 0
  /\ lock = [i \in Instances |-> [b \in Bridges |-> FALSE]]
  /\ epoch = [i \in Instances |-> [b \in Bridges |-> 0]]
  /\ coloured = [i \in Instances |-> [b \in Bridges |-> FALSE]]
  /\ pc = [t \in Threads |-> "free"] /\ req = [t \in Threads |-> <<>>]
  /\ todo = [t \in Threads |-> <<>>] /\ mine = [t \in Threads |-> 0]
  /\ verdict = [t \in Threads |-> "none"] /\ missed = [t \in Threads |-> FALSE]
  /\ owed = [t \in Threads |-> {}] /\ surprises = 0

InService == {b \in Bridges : bus[b] # "none"}
Connected(b) == bus[b] \in {"up", "ota"}

(* send_cmd(): the bridge exists, its link is up, and BridgeWorker.send()  *)
(* does not refuse the frame because of an update.                         *)
Accepts(b) == bus[b] = "up"

-----------------------------------------------------------------------------
(* From a body to steps.                                                   *)

(* The steps for the members of a set of numbers, in ascending order; of   *)
(* gives those of one member.                                              *)
Over(S, n, of) ==
  LET upTo[i \in 0 .. n] ==
        IF i = 0 THEN <<>> ELSE upTo[i - 1] \o (IF i \in S THEN of[i] ELSE <<>>)
  IN upTo[n]

Do(do) == <<Step(do, {}, 0, 0)>>
Broadcast(T) == <<Step("send", T, 0, 0)>>      \* _u_send()
Unicast(T, at) == <<Step("find", T, at, 0)>>   \* get_by_addr(), then send_cmd()
When(c, steps) == IF c THEN steps ELSE <<>>

(* _set_node_color() for the nodes of an L or an S; the results of the     *)
(* frames are not looked at.                                               *)
Colour(b, nodes) ==
  Over(nodes, Foot, [a \in nodes |-> <<Step("node", b, a, 0)>>]) \o Do("good")

(* _parse_general() and _handle_L()                                        *)
PlanL(b, text, nodes) ==
  CASE text \in {"short", "wrong"} -> Do("refuse")
    [] text = "unknown" \/ nodes = {} -> Do("bad")
    [] OTHER -> Colour(b, nodes)

(* _parse_set_key() and _handle_S()                                        *)
PlanS(b, text, at) ==
  CASE text = "short" -> Do("refuse")
    [] text \in {"wrong", "unknown"} -> Do("bad")
    [] OTHER -> Colour(b, {at})

(* _validate_tokens(), _handle_hide_cmd()                                  *)
PlanGeneral(T, text, at) ==
  CASE text \in {"short", "wrong"} -> Do("refuse")
    [] text = "unknown" -> Do("bad")
    [] text = "good" /\ at # 0 -> Unicast(T, at)
    [] OTHER -> Broadcast(T)

(* One of the commands of Hide, Vibron and Tesla: a wrong Motion or        *)
(* GridEffect is refused, wrong parameters of another field are answered   *)
(* with a bad result.                                                      *)
PlanField(r, T, f) ==
  When(f \in r.fields,
       CASE f \in r.wrong /\ f \in {"Motion", "GridEffect"} -> Do("refuse")
         [] f \in r.wrong -> Do("bad")
         [] f = "DropArm" /\ r.at # 0 -> Unicast(T, r.at)
         [] OTHER -> Broadcast(T))

PlanHide(r, T) ==
  IF r.setkey # "" THEN Do("refuse")
  ELSE When(r.general # "", PlanGeneral(T, r.general, r.at))
       \o PlanField(r, T, "Arm") \o PlanField(r, T, "Start") \o PlanField(r, T, "Fail")
       \o PlanField(r, T, "Cancel") \o PlanField(r, T, "Motion")

PlanVibron(r, T) ==
  When(r.general # "", PlanGeneral(T, r.general, 0))
  \o PlanField(r, T, "GridEffect") \o PlanField(r, T, "TimerStart")
  \o PlanField(r, T, "TimerStop")
  \o When(r.setkey # "", IF r.setkey = "good" THEN Broadcast(T) ELSE Do("bad"))

PlanTesla(r, T) ==
  IF r.general # "" \/ r.setkey # "" THEN Do("refuse")
  ELSE PlanField(r, T, "TeslaStart") \o PlanField(r, T, "LightningFx")
       \o PlanField(r, T, "DropArm") \o PlanField(r, T, "DropCancel")
       \o PlanField(r, T, "DropStatus")

PlanAction(r, T) ==
  IF r.general = "" /\ r.setkey = "" THEN Do("refuse")
  ELSE Over(T, MaxBridges, [b \in T |->
              When(r.general # "", PlanL({b}, r.general, r.nodes))
              \o When(r.setkey # "", PlanS({b}, r.setkey, r.at))])

(* _handle_idle() opens the lock first; the pixel count is sent unheeded.  *)
PlanIdle(r, b) ==
  <<Step("unlock", {b}, 0, 0)>>
  \o When(r.pixels, <<Step("try", {b}, 0, 0)>>) \o Broadcast({b})

(* _has_cmd(): of the fields only those of the game count.                 *)
FieldsOf(game) ==
  CASE game = "Hide" -> {"Arm", "Start", "Fail", "Cancel", "Motion"}
    [] game = "Vibron" -> {"GridEffect", "TimerStart", "TimerStop"}
    [] game = "Tesla" -> {"TeslaStart", "LightningFx", "DropArm", "DropCancel", "DropStatus"}
    [] OTHER -> {}

HasCommand(r) ==
  \/ r.alloff
  \/ r.game \in {"Action", "Vibron"} /\ (r.general # "" \/ r.setkey # "")
  \/ r.game = "Hide" /\ r.general # ""
  \/ r.fields \cap FieldsOf(r.game) # {}

(* Without "Bridge" all bridges of the service, or of the registry when    *)
(* there is none; else the one that is named, when it is known.            *)
Targets(r) ==
  LET inRegistry == {b \in Bridges : known[b] # {}}
  IN CASE r.bridge # AllBridges -> (InService \cup inRegistry) \cap {r.bridge}
       [] InService # {} -> InService
       [] OTHER -> inRegistry

(* _handle_nodes_set()                                                     *)
PlanSet(r) ==
  LET T == Targets(r)
  IN CASE ~ r.auth \/ r.game = "" -> Do("refuse")
       [] r.auth /\ r.game # "" /\ inst = 0 -> Do("bad")
       [] OTHER ->
            IF (r.reset /\ r.idle) \/ ((r.reset \/ r.idle) /\ HasCommand(r)) THEN Do("refuse")
            ELSE CASE T = {} -> Do("bad")
                   [] T # {} /\ r.reset ->
                        Over(T, MaxBridges, [b \in T |-> <<Step("reset", {b}, 0, 0)>>])
                   [] T # {} /\ r.idle -> Over(T, MaxBridges, [b \in T |-> PlanIdle(r, b)])
                   [] T # {} /\ r.alloff -> Broadcast(T)
                   [] OTHER -> CASE r.game = "Action" -> PlanAction(r, T)
                                 [] r.game = "Hide" -> PlanHide(r, T)
                                 [] r.game = "Vibron" -> PlanVibron(r, T)
                                 [] r.game = "Tesla" -> PlanTesla(r, T)

(* A command for one bridge or one of its nodes, as _node_routes() and the *)
(* TCP clients send it.                                                    *)
PlanNode(b) == IF b = {} THEN Do("bad") ELSE Broadcast(b)

(* GameBridgeServer._dispatch(), reached from TCP and from /api/v1: a      *)
(* command for one bridge, one whose numbers cannot be read, a question,   *)
(* that for the bridges, the action game, the hide game.  An L or S        *)
(* without bridge looks for its node everywhere.  A TCP message that is    *)
(* JSON but no object fails before the try of _on_client_message(); REST   *)
(* takes it for an empty body.                                             *)
PlanDispatch(r) ==
  LET b == {r.bridge} \cap Bridges
  IN CASE r.msg = "node" -> PlanNode(b)
       [] r.msg = "malformed" -> Do("crash")
       [] r.msg = "array" /\ r.way = "tcp" -> Do("die")
       [] r.msg = "read" -> Do("good")
       [] r.msg = "bridges" -> <<Step("list", {}, 0, Cardinality(InService))>>
       [] r.msg \in {"L", "S"} /\ inst = 0 -> Do("bad")
       [] r.msg = "L" /\ inst # 0 ->
            IF r.general = "good" THEN Colour(b, r.nodes) ELSE Do("bad")
       [] r.msg = "S" /\ inst # 0 ->
            IF r.setkey = "good" THEN Colour(b, {r.at}) ELSE Do("bad")
       [] r.msg = "hide" /\ r.general = "good" ->
            <<Step("display", {}, r.at, Cardinality(InService))>>
       [] r.msg = "hide" /\ r.general \in {"token", "RRR"} ->
            <<Step("sweep", {}, 0, Cardinality(InService))>>
       [] OTHER -> Do("bad")

Plan(r) == IF r.msg = "set" THEN PlanSet(r) ELSE PlanDispatch(r)

-----------------------------------------------------------------------------
(* A thread takes its steps.                                               *)

Now(t) == Head(todo[t])
At(t, do) == pc[t] = "busy" /\ todo[t] # <<>> /\ Now(t).do = do
Onward(t) == todo' = [todo EXCEPT ![t] = Tail(@)]
Becomes(t, steps) == todo' = [todo EXCEPT ![t] = steps \o Tail(@)]

envVars == <<bus, known, inst, surprises>>
askVars == <<req, mine>>

(* Variant with a bug: any() of the results.                               *)
ScoreAny(t, ok) ==
  verdict' = [verdict EXCEPT ![t] = IF ok \/ @ = "good" THEN "good" ELSE "bad"]

(* A result is appended to results; ok_all is all() of them.               *)
Score(t, ok) ==
  verdict' = [verdict EXCEPT ![t] = IF ok /\ @ # "bad" THEN "good" ELSE "bad"]

(* One call of send_cmd() to bridge b.                                     *)
Sent(t, b, ok) ==
  /\ missed' = [missed EXCEPT ![t] = @ \/ ~ ok]
  /\ owed' = [owed EXCEPT ![t] = IF ok THEN @ \ {b} ELSE @]

(* The threads are numbered as they are made.                              *)
Ask(t) == \E r \in Requests[t] :
  /\ pc[t] = "free" /\ \A u \in 1 .. t - 1 : pc[u] # "free"
  /\ pc' = [pc EXCEPT ![t] = "busy"] /\ req' = [req EXCEPT ![t] = r]
  /\ todo' = [todo EXCEPT ![t] = Plan(r)] /\ mine' = [mine EXCEPT ![t] = inst]
  /\ owed' = [owed EXCEPT ![t] = {b \in Bridges : Accepts(b)}]
  /\ UNCHANGED <<envVars, stageVars, verdict, missed>>

(* The next bridge of a broadcast or of the look up of a node; the result  *)
(* of a "try" is not looked at.                                            *)
SendNext(t) ==
  /\ \E do \in {"send", "find", "try"} : At(t, do)
  /\ \E b \in Now(t).to :
       LET left == Now(t).to \ {b}
           ok == Accepts(b) /\ (Now(t).do = "find" => Now(t).at \in known[b])
       IN /\ IF left = {} THEN Onward(t)
             ELSE Becomes(t, <<[Now(t) EXCEPT !.to = left]>>)
          /\ Sent(t, b, ok)
          /\ IF Now(t).do = "try" THEN UNCHANGED verdict ELSE Score(t, ok)
  /\ UNCHANGED <<envVars, stageVars, askVars, pc>>

Result(t) ==
  /\ At(t, "good") \/ At(t, "bad")
  /\ Score(t, Now(t).do = "good") /\ Onward(t)
  /\ UNCHANGED <<envVars, stageVars, askVars, pc, missed, owed>>

(* The frames for a node that was found: the foot is enabled before it is  *)
(* lit; of the start key the stage is a question of its own.               *)
Light(b, at) ==
  LET frame == <<Step("try", {b}, 0, 0)>>
  IN CASE at = Foot -> frame \o frame
       [] at = Start -> <<Step("stage", {b}, 0, 0)>> \o frame
       [] OTHER -> frame

(* _find_node(): the node of that bridge; or, without a bridge, of the     *)
(* first one that has it, in a walk over the dictionary of bridges, which  *)
(* remembers how many there were.                                          *)
FindNode(t) ==
  LET at == Now(t).at
  IN \/ /\ Now(t).do = "node" /\ Now(t).to = {}
        /\ Becomes(t, <<Step("look", {}, at, Cardinality(InService))>>)
     \/ /\ Now(t).do = "node"
        /\ \E b \in Now(t).to : IF at \in known[b] THEN Becomes(t, Light(b, at)) ELSE Onward(t)
     \/ /\ Now(t).do = "look" /\ Cardinality(InService) = Now(t).mark
        /\ \/ InService \subseteq Now(t).to /\ Onward(t)
           \/ \E b \in InService \ Now(t).to :
                /\ \A c \in InService \ Now(t).to : b <= c
                /\ Becomes(t, IF at \in known[b] THEN Light(b, at)
                              ELSE <<[Now(t) EXCEPT !.to = @ \cup {b}]>>)

(* _set_node_color()                                                       *)
ColourNode(t) ==
  /\ At(t, "node") \/ At(t, "look")
  /\ FindNode(t)
  /\ UNCHANGED <<envVars, stageVars, askVars, pc, verdict, missed, owed>>

(* Variant with a bug: the lock is looked at, never taken.                 *)
StageCheckUnlocked(t) ==
  /\ At(t, "stage")
  /\ \E b \in Now(t).to :
       IF lock[mine[t]][b] THEN Onward(t)
       ELSE Becomes(t, <<Step("colour", {b}, 0, epoch[mine[t]][b])>>)
  /\ UNCHANGED <<envVars, stageVars, askVars, pc, verdict, missed, owed>>

(* Under _lock: the first who comes takes the stage.                       *)
StageCheck(t) ==
  /\ At(t, "stage")
  /\ \E b \in Now(t).to :
       /\ lock' = [lock EXCEPT ![mine[t]][b] = TRUE]
       /\ IF lock[mine[t]][b] THEN Onward(t)
          ELSE Becomes(t, <<Step("colour", {b}, 0, epoch[mine[t]][b])>>)
  /\ UNCHANGED <<envVars, epoch, coloured, askVars, pc, verdict, missed, owed>>

(* The stage frame 0x45, outside the lock; its result is not looked at.    *)
ColourStage(t) ==
  /\ At(t, "colour") /\ Onward(t)
  /\ \E b \in Now(t).to :
       /\ Sent(t, b, Accepts(b))
       /\ coloured' = [coloured EXCEPT ![mine[t]][b] = @ \/ Now(t).mark = epoch[mine[t]][b]]
  /\ UNCHANGED <<envVars, lock, epoch, askVars, pc, verdict>>

(* _handle_reset(): the frame, and whether it was accepted or not, the     *)
(* lock; unless the service does not have the bridge.                      *)
Reset(t) ==
  /\ At(t, "reset")
  /\ \E b \in Now(t).to :
       IF b \in InService
       THEN /\ Sent(t, b, Accepts(b)) /\ Score(t, Accepts(b))
            /\ Becomes(t, <<Step("unlock", {b}, 0, 0)>>)
       ELSE Score(t, FALSE) /\ Onward(t) /\ UNCHANGED <<missed, owed>>
  /\ UNCHANGED <<envVars, stageVars, askVars, pc>>

Unlock(t) ==
  /\ At(t, "unlock") /\ Onward(t)
  /\ \E b \in Now(t).to :
       /\ lock' = [lock EXCEPT ![mine[t]][b] = FALSE]
       /\ epoch' = [epoch EXCEPT ![mine[t]][b] = @ + 1]
       /\ coloured' = [coloured EXCEPT ![mine[t]][b] = FALSE]
  /\ UNCHANGED <<envVars, askVars, pc, verdict, missed, owed>>

Sweeps(t) == At(t, "sweep") \/ At(t, "display") \/ At(t, "list")

(* Variant with a bug: a bridge without link ends the walk.                *)
SweepNextBreaks(t) ==
  /\ Sweeps(t)
  /\ Cardinality(InService) = Now(t).mark
  /\ \E b \in InService \ Now(t).to :
       LET there == known[b] # {} /\ (Now(t).at # 0 => Now(t).at \in known[b])
       IN /\ Becomes(t, <<[Now(t) EXCEPT !.to = IF Connected(b) THEN @ \cup {b} ELSE InService]>>)
          /\ IF Now(t).do # "list" /\ Connected(b) /\ (Now(t).do = "display" => there)
             THEN Sent(t, b, Accepts(b)) /\ Score(t, TRUE)
             ELSE UNCHANGED <<missed, owed, verdict>>
  /\ UNCHANGED <<envVars, stageVars, askVars, pc>>

(* _handle_hide() walks over the dictionary of bridges itself, and so does *)
(* get_bridges, which sends nothing.  A bridge without link is passed      *)
(* over; a display goes to every node of the registry, or to the one that  *)
(* is named, and what send_cmd() says is not looked at: "good" here means  *)
(* that something was sent.                                                *)
SweepNext(t) ==
  /\ Sweeps(t)
  /\ Cardinality(InService) = Now(t).mark
  /\ \E b \in InService \ Now(t).to :
       LET there == known[b] # {} /\ (Now(t).at # 0 => Now(t).at \in known[b])
       IN /\ Becomes(t, <<[Now(t) EXCEPT !.to = @ \cup {b}]>>)
          /\ IF Now(t).do # "list" /\ Connected(b) /\ (Now(t).do = "display" => there)
             THEN Sent(t, b, Accepts(b)) /\ Score(t, TRUE)
             ELSE UNCHANGED <<missed, owed, verdict>>
  /\ UNCHANGED <<envVars, stageVars, askVars, pc>>

(* A display that reached no node is broadcast, one for a node fails.      *)
SweepEnd(t) ==
  /\ Sweeps(t)
  /\ Cardinality(InService) = Now(t).mark /\ InService \subseteq Now(t).to
  /\ Becomes(t, IF Now(t).do # "display" \/ verdict[t] = "good" THEN Do("good")
                ELSE IF Now(t).at # 0 THEN Do("bad")
                ELSE <<Step("sweep", {}, 0, Cardinality(InService))>>)
  /\ UNCHANGED <<envVars, stageVars, askVars, pc, verdict, missed, owed>>

(* The end of a request: an answer, or none.                               *)
Reply(t, answer) ==
  /\ pc' = [pc EXCEPT ![t] = answer] /\ req' = [req EXCEPT ![t] = <<>>]
  /\ todo' = [todo EXCEPT ![t] = <<>>] /\ mine' = [mine EXCEPT ![t] = 0]
  /\ verdict' = [verdict EXCEPT ![t] = "none"]
  /\ missed' = [missed EXCEPT ![t] = FALSE] /\ owed' = [owed EXCEPT ![t] = {}]
  /\ UNCHANGED <<envVars, stageVars>>

(* A dictionary that grew is an exception for the one who walks over it.   *)
Fails(t) ==
  \/ At(t, "crash")
  \/ (Sweeps(t) \/ At(t, "look")) /\ Cardinality(InService) # Now(t).mark

(* Variant with a bug: the exception ends the thread without an answer.    *)
CrashUnanswered(t) == Fails(t) /\ UNCHANGED vars

(* An exception becomes an answer: of REST 500, of TCP an ack that is not  *)
(* ok.                                                                     *)
Crash(t) ==
  /\ Fails(t)
  /\ Reply(t, IF req[t].way = "rest" THEN "error" ELSE "not_ok")

(* One outside the try ends the thread of the client; nothing is sent.     *)
Die(t) == At(t, "die") /\ Reply(t, "dead")

Refuse(t) == At(t, "refuse") /\ Reply(t, "refused")

Done(t) == pc[t] = "busy" /\ todo[t] = <<>>

(* Variant with a bug: without any result there is no word for the answer. *)
AnswerVerdict(t) ==
  /\ Done(t)
  /\ Reply(t, IF verdict[t] = "good" THEN "ok" ELSE verdict[t])

(* The answer; without any result it is not ok.                            *)
Answer(t) ==
  /\ Done(t)
  /\ Reply(t, IF verdict[t] = "good" THEN "ok" ELSE "not_ok")

-----------------------------------------------------------------------------
(* What happens meanwhile.                                                 *)

Unsteady(b) == owed' = [t \in Threads |-> owed[t] \ {b}]
threadsButOwed == <<pc, req, todo, mine, verdict, missed>>

AddBridge ==
  /\ InService # Bridges
  /\ bus' = [bus EXCEPT ![Cardinality(InService) + 1] = "down"]
  /\ UNCHANGED <<known, inst, surprises, stageVars, threadVars>>

LinkUp(b) ==
  /\ bus[b] = "down" /\ bus' = [bus EXCEPT ![b] = "up"]
  /\ UNCHANGED <<known, inst, surprises, stageVars, threadVars>>

Discover(b) ==
  /\ Connected(b) /\ known[b] # Addrs /\ known' = [known EXCEPT ![b] = Addrs]
  /\ UNCHANGED <<bus, inst, surprises, stageVars, threadVars>>

(* The link breaks, or the operator closes it, which forgets the nodes.    *)
LinkDown(b) ==
  /\ Connected(b) /\ surprises < MaxSurprises
  /\ bus' = [bus EXCEPT ![b] = "down"] /\ surprises' = surprises + 1
  /\ known' \in {known, [known EXCEPT ![b] = {}]} /\ Unsteady(b)
  /\ UNCHANGED <<inst, stageVars, threadsButOwed>>

UpdateStarts(b) ==
  /\ bus[b] = "up" /\ surprises < MaxSurprises
  /\ bus' = [bus EXCEPT ![b] = "ota"] /\ surprises' = surprises + 1 /\ Unsteady(b)
  /\ UNCHANGED <<known, inst, stageVars, threadsButOwed>>

UpdateEnds(b) ==
  /\ bus[b] = "ota" /\ bus' = [bus EXCEPT ![b] = "up"]
  /\ UNCHANGED <<known, inst, surprises, stageVars, threadVars>>

(* GamesPanel._toggle_action(): a new game, with new locks.  Switching it  *)
(* off is no step: service._action_game keeps the game.                    *)
SwitchOn ==
  /\ inst < MaxActivations /\ inst' = inst + 1
  /\ UNCHANGED <<bus, known, surprises, stageVars, threadVars>>

-----------------------------------------------------------------------------
ThreadStep(t) ==
  \/ SendNext(t) \/ Result(t) \/ ColourNode(t) \/ StageCheck(t) \/ ColourStage(t)
  \/ Reset(t) \/ Unlock(t) \/ SweepNext(t) \/ SweepEnd(t)
  \/ Crash(t) \/ Die(t) \/ Refuse(t) \/ Answer(t)

Next ==
  \/ \E t \in Threads : ThreadStep(t) \/ Ask(t)
  \/ AddBridge \/ SwitchOn
  \/ \E b \in Bridges :
       LinkUp(b) \/ Discover(b) \/ LinkDown(b) \/ UpdateStarts(b) \/ UpdateEnds(b)

Spec == Init /\ [][Next]_vars

(* A thread that handles a request runs.                                   *)
FairSpec == Spec /\ \A t \in Threads : WF_vars(ThreadStep(t))

-----------------------------------------------------------------------------
(* Properties.                                                             *)

(* Between two openings of its lock the stage of a bridge is coloured at   *)
(* most once: a thread that is about to colour it is the only one to do so *)
(* since the lock was opened, and nobody has done it before.               *)
StageColouredOnce ==
  \A t \in Threads : At(t, "colour") =>
    \A b \in Now(t).to :
      /\ Now(t).mark = epoch[mine[t]][b] => ~ coloured[mine[t]][b]
      /\ \A u \in Threads \ {t} :
           At(u, "colour") /\ mine[u] = mine[t] /\ b \in Now(u).to => Now(u).mark # Now(t).mark

(* The answer "applied.ok" to a unified request that does not colour       *)
(* single nodes and does not set a pixel count: no frame of it was turned  *)
(* away, on none of its bridges.                                           *)
OkMeansSent ==
  \A t \in Threads :
    Done(t) /\ verdict[t] = "good" /\ req[t].msg = "set" /\ ~ req[t].pixels
      /\ (req[t].game = "Action" => req[t].reset \/ req[t].idle \/ req[t].alloff)
    => ~ missed[t]

(* A hide token that was acknowledged reached every bridge that could send *)
(* from beginning to end, whatever happened to the others meanwhile.       *)
TokensReachAll ==
  \A t \in Threads :
    Done(t) /\ verdict[t] = "good" /\ req[t].msg = "hide" /\ req[t].general \in {"token", "RRR"}
    => owed[t] = {}

(* Every request is answered, also when a handler raises an exception or   *)
(* bridges are added under a walk; except a TCP message that is no object. *)
EveryRequestAnswered ==
  \A t \in Threads : pc[t] = "busy" /\ req[t].msg # "array" ~> pc[t] \in Answers
=============================================================================
