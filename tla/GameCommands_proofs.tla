------------------------- MODULE GameCommands_proofs --------------------------
(***************************************************************************)
(* Proofs about GameCommands, for every number of bridges, activations and *)
(* requests, every set of threads and of bodies they may send.             *)
(*                                                                         *)
(* A plan is a sequence of steps, so the invariant says which steps can    *)
(* stand in it: TodoInv for all plans, OwnInv for those of requests that   *)
(* do not belong to a game, CleanInv for requests whose every frame is     *)
(* looked at (there a frame that was missed has made the answer bad).      *)
(* OwedInv and TokenInv are about the hide tokens: bridges come into       *)
(* service one after the other, and the walk over them has still to visit  *)
(* every bridge the token is owed to.  StageInv is about the start key: a  *)
(* colour step that is pending was planned under the lock, no two of them  *)
(* for one opening of the lock, and none after the key was coloured.       *)
(*                                                                         *)
(* What Over collects along the bridges is shown by least counterexample,  *)
(* on the set of the numbers for which the claim would fail.               *)
(***************************************************************************)
EXTENDS GameCommands, FiniteSetTheorems, SequenceTheorems, WellFoundedInduction, TLAPS

-----------------------------------------------------------------------------
(* A set of numbers that is not empty has a least element.                 *)
LEMMA LeastOf ==
  ASSUME NEW T, T \subseteq Nat, T # {}
  PROVE  \E m \in T : \A i \in T : m <= i
<1>1. PICK m \in T : \A i \in T : ~ (<<i, m>> \in OpToRel(<, Nat))
  BY NatLessThanWellFounded, WFMin
<1>2. \A i \in T : ~ (i < m)
  BY <1>1 DEF OpToRel
<1> QED BY <1>2

-----------------------------------------------------------------------------
(* The steps for the members of a set.                                     *)

(* f holds, for every i up to k, the steps for the members up to i.        *)
Joins(f, S, of, k) ==
  f = [i \in 0 .. k |-> IF i = 0 THEN <<>>
                        ELSE f[i - 1] \o (IF i \in S THEN of[i] ELSE <<>>)]

(* There is such a function: the first k without one would have one, which *)
(* extends that of k - 1.                                                  *)
LEMMA JoinsExist ==
  ASSUME NEW S, NEW of, NEW n \in Nat
  PROVE  \E f : Joins(f, S, of, n)
<1> DEFINE C == {k \in Nat : ~ \E f : Joins(f, S, of, k)}
<1> SUFFICES ASSUME C # {} PROVE FALSE
  OBVIOUS
<1>1. PICK k \in C : \A i \in C : k <= i
  <2>1. C \subseteq Nat
    OBVIOUS
  <2> HIDE DEF C
  <2> QED BY <2>1, LeastOf
<1>2. k \in Nat /\ ~ \E f : Joins(f, S, of, k)
  BY <1>1
<1>3. CASE k = 0
  <2>1. Joins([i \in 0 .. 0 |-> <<>>], S, of, 0)
    BY DEF Joins
  <2> QED BY <1>2, <1>3, <2>1
<1>4. CASE k # 0
  <2>1. k - 1 \in Nat /\ ~ (k <= k - 1)
    BY <1>2, <1>4
  <2>2. \E f : Joins(f, S, of, k - 1)
    BY <1>1, <2>1
  <2>3. PICK f : Joins(f, S, of, k - 1)
    BY <2>2
  <2> DEFINE last == f[k - 1] \o (IF k \in S THEN of[k] ELSE <<>>)
             h == [i \in 0 .. k |-> IF i = k THEN last ELSE f[i]]
  <2>4. \A i \in 0 .. k - 1 : h[i] = f[i]
    BY <1>2
  <2>5. h[k] = last
    <3>1. k \in 0 .. k
      BY <1>2
    <3> HIDE DEF last
    <3> QED BY <3>1
  <2>6. f[0] = <<>>
    BY <2>1, <2>3 DEF Joins
  <2>7. \A i \in 1 .. k - 1 : f[i] = f[i - 1] \o (IF i \in S THEN of[i] ELSE <<>>)
    BY <2>1, <2>3 DEF Joins
  <2>8. h[0] = <<>>
    BY <2>1, <2>4, <2>6
  <2>9. \A i \in 1 .. k - 1 : h[i] = h[i - 1] \o (IF i \in S THEN of[i] ELSE <<>>)
    <3>1. \A i \in 1 .. k - 1 : h[i] = f[i] /\ h[i - 1] = f[i - 1]
      BY <2>1, <2>4
    <3> HIDE DEF h
    <3> QED BY <2>7, <3>1
  <2>10. h[k] = h[k - 1] \o (IF k \in S THEN of[k] ELSE <<>>)
    BY <2>1, <2>4, <2>5
  <2>11. h = [i \in 0 .. k |-> h[i]]
    OBVIOUS
  <2> HIDE DEF h, last
  <2>12. \A i \in 0 .. k : i = 0 \/ i \in 1 .. k - 1 \/ i = k
    BY <1>2
  <2>13. Joins(h, S, of, k)
    BY <1>2, <1>4, <2>8, <2>9, <2>10, <2>11, <2>12 DEF Joins
  <2> QED BY <1>2, <2>13
<1> QED BY <1>3, <1>4

LEMMA OverJoins ==
  ASSUME NEW S, NEW of, NEW n \in Nat
  PROVE  \E f : Joins(f, S, of, n) /\ Over(S, n, of) = f[n]
<1> DEFINE f == CHOOSE f : Joins(f, S, of, n)
<1>1. Joins(f, S, of, n)
  BY JoinsExist
<1>2. Over(S, n, of) = f[n]
  BY DEF Over, Joins
<1> QED BY <1>1, <1>2

(* What holds of the steps of every member holds of all of them.           *)
LEMMA OverType ==
  ASSUME NEW X, NEW S, NEW of, NEW n \in Nat, \A i \in S : of[i] \in Seq(X)
  PROVE  Over(S, n, of) \in Seq(X)
<1>1. PICK f : Joins(f, S, of, n) /\ Over(S, n, of) = f[n]
  BY OverJoins
<1> DEFINE C == {k \in 0 .. n : f[k] \notin Seq(X)}
<1>2. SUFFICES ASSUME C # {} PROVE FALSE
  BY <1>1
<1>3. PICK k \in C : \A i \in C : k <= i
  <2>1. C \subseteq Nat
    OBVIOUS
  <2> HIDE DEF C
  <2> QED BY <1>2, <2>1, LeastOf
<1>4. k \in 0 .. n /\ f[k] \notin Seq(X)
  BY <1>3
<1>5. CASE k = 0
  <2>1. f[0] = <<>>
    BY <1>1 DEF Joins
  <2> QED BY <1>4, <1>5, <2>1
<1>6. CASE k # 0
  <2>1. k - 1 \in 0 .. n /\ ~ (k <= k - 1)
    BY <1>4, <1>6
  <2>2. f[k - 1] \in Seq(X)
    BY <1>3, <2>1
  <2>3. f[k] = f[k - 1] \o (IF k \in S THEN of[k] ELSE <<>>)
    BY <1>1, <1>4, <1>6 DEF Joins
  <2>4. (IF k \in S THEN of[k] ELSE <<>>) \in Seq(X)
    OBVIOUS
  <2>5. f[k] \in Seq(X)
    BY <2>2, <2>3, <2>4
  <2> QED BY <1>4, <2>5
<1> QED BY <1>5, <1>6

-----------------------------------------------------------------------------
(* The steps a body is turned into.                                        *)

AllDo ==
  {"send", "try", "find", "good", "bad", "refuse", "crash", "reset", "unlock",
   "die", "node", "look", "stage", "colour", "sweep", "display", "list"}
RestDo == {"send", "find", "good", "bad", "refuse"}

Made(D) == {s \in Steps : s.do \in D}

LEMMA OneStep ==
  ASSUME NEW D, NEW do \in D \cap AllDo, NEW to \in SUBSET Bridges, NEW at \in Nat,
         NEW mark \in Nat
  PROVE  Step(do, to, at, mark) \in Made(D) /\ <<Step(do, to, at, mark)>> \in Seq(Made(D))
<1>1. Step(do, to, at, mark) \in Steps
  BY DEF Step, Steps, AllDo
<1>2. Step(do, to, at, mark).do = do
  BY DEF Step
<1>3. Step(do, to, at, mark) \in Made(D)
  BY <1>1, <1>2 DEF Made
<1> QED BY <1>3

LEMMA DoType ==
  ASSUME NEW D, NEW do \in D \cap AllDo
  PROVE  Do(do) \in Seq(Made(D))
  BY OneStep DEF Do

LEMMA BroadcastType ==
  ASSUME NEW D, RestDo \subseteq D, NEW T \in SUBSET Bridges
  PROVE  Broadcast(T) \in Seq(Made(D))
  BY OneStep DEF Broadcast, RestDo, AllDo

LEMMA UnicastType ==
  ASSUME NEW D, RestDo \subseteq D, NEW T \in SUBSET Bridges, NEW at \in Nat
  PROVE  Unicast(T, at) \in Seq(Made(D))
  BY OneStep DEF Unicast, RestDo, AllDo

LEMMA Verdicts ==
  ASSUME NEW D, RestDo \subseteq D
  PROVE  {Do("good"), Do("bad"), Do("refuse"), <<>>} \subseteq Seq(Made(D))
  BY DoType DEF RestDo, AllDo

(* What a body holds.                                                      *)
LEMMA BodyType ==
  ASSUME NEW r \in Bodies
  PROVE  /\ r.at \in Nat /\ r.nodes \subseteq Nat
         /\ r.game \in {"", "Action", "Hide", "Vibron", "Tesla"}
<1>1. /\ r.at \in Addrs \cup {0} /\ r.nodes \in SUBSET Addrs
      /\ r.game \in {"", "Action", "Hide", "Vibron", "Tesla"}
  BY DEF Bodies
<1>2. Addrs \subseteq Nat
  BY BoundAssumption
<1>3. r.at \in Nat
  <2>1. 0 \in Nat
    OBVIOUS
  <2> QED BY <1>1, <1>2, <2>1, Zenon
<1>4. r.nodes \subseteq Nat
  BY <1>1, <1>2
<1> QED BY <1>1, <1>3, <1>4, Zenon

LEMMA WhenType ==
  ASSUME NEW D, RestDo \subseteq D, NEW c \in BOOLEAN, NEW s \in Seq(Made(D))
  PROVE  When(c, s) \in Seq(Made(D))
<1>1. <<>> \in Seq(Made(D))
  OBVIOUS
<1> QED BY <1>1, Zenon DEF When

LEMMA ColourType ==
  ASSUME NEW D, RestDo \cup {"node"} \subseteq D, NEW b \in SUBSET Bridges,
         NEW nodes \in SUBSET Nat
  PROVE  Colour(b, nodes) \in Seq(Made(D))
<1> DEFINE of == [a \in nodes |-> <<Step("node", b, a, 0)>>]
<1>1. \A a \in nodes : of[a] \in Seq(Made(D))
  BY OneStep DEF AllDo
<1> HIDE DEF of
<1>2. Over(nodes, Foot, of) \in Seq(Made(D))
  BY <1>1, OverType DEF Foot
<1>3. Colour(b, nodes) = Over(nodes, Foot, of) \o Do("good")
  BY DEF Colour, of
<1>4. Do("good") \in Seq(Made(D))
  BY Verdicts
<1> QED BY <1>2, <1>3, <1>4

LEMMA PlanLType ==
  ASSUME NEW D, RestDo \cup {"node"} \subseteq D, NEW b \in SUBSET Bridges, NEW text,
         NEW nodes \in SUBSET Nat
  PROVE  PlanL(b, text, nodes) \in Seq(Made(D))
<1>1. PlanL(b, text, nodes) \in {Do("refuse"), Do("bad"), Colour(b, nodes)}
  BY DEF PlanL
<1> QED BY <1>1, Verdicts, ColourType

LEMMA PlanSType ==
  ASSUME NEW D, RestDo \cup {"node"} \subseteq D, NEW b \in SUBSET Bridges, NEW text,
         NEW at \in Nat
  PROVE  PlanS(b, text, at) \in Seq(Made(D))
<1>1. PlanS(b, text, at) \in {Do("refuse"), Do("bad"), Colour(b, {at})}
  BY DEF PlanS
<1> QED BY <1>1, Verdicts, ColourType

LEMMA PlanGeneralType ==
  ASSUME NEW D, RestDo \subseteq D, NEW T \in SUBSET Bridges, NEW text, NEW at \in Nat
  PROVE  PlanGeneral(T, text, at) \in Seq(Made(D))
<1>1. PlanGeneral(T, text, at) \in {Do("refuse"), Do("bad"), Unicast(T, at), Broadcast(T)}
  BY DEF PlanGeneral
<1> QED BY <1>1, Verdicts, UnicastType, BroadcastType

LEMMA PlanFieldType ==
  ASSUME NEW D, RestDo \subseteq D, NEW r \in Bodies, NEW T \in SUBSET Bridges, NEW f
  PROVE  PlanField(r, T, f) \in Seq(Made(D))
<1>1. PlanField(r, T, f) \in {<<>>, Do("refuse"), Do("bad"), Unicast(T, r.at), Broadcast(T)}
  BY DEF PlanField, When
<1> QED BY <1>1, Verdicts, UnicastType, BroadcastType, BodyType

(* The games other than the action game.                                   *)
LEMMA PlanGameType ==
  ASSUME NEW D, RestDo \subseteq D, NEW r \in Bodies, NEW T \in SUBSET Bridges
  PROVE  {PlanHide(r, T), PlanVibron(r, T), PlanTesla(r, T)} \subseteq Seq(Made(D))
<1>1. \A f : PlanField(r, T, f) \in Seq(Made(D))
  BY PlanFieldType
<1>2. /\ When(r.general # "", PlanGeneral(T, r.general, r.at)) \in Seq(Made(D))
      /\ When(r.general # "", PlanGeneral(T, r.general, 0)) \in Seq(Made(D))
  <2>1. /\ PlanGeneral(T, r.general, r.at) \in Seq(Made(D))
        /\ PlanGeneral(T, r.general, 0) \in Seq(Made(D))
    BY PlanGeneralType, BodyType
  <2> QED BY <2>1, WhenType, Zenon
<1>3. When(r.setkey # "", IF r.setkey = "good" THEN Broadcast(T) ELSE Do("bad")) \in Seq(Made(D))
  BY Verdicts, BroadcastType DEF When
<1>4. \A s, t \in Seq(Made(D)) : s \o t \in Seq(Made(D))
  OBVIOUS
<1>5. PlanHide(r, T) \in Seq(Made(D))
  BY <1>1, <1>2, <1>4, Verdicts, Zenon DEF PlanHide
<1>6. PlanVibron(r, T) \in Seq(Made(D))
  BY <1>1, <1>2, <1>3, <1>4 DEF PlanVibron
<1>7. PlanTesla(r, T) \in Seq(Made(D))
  BY <1>1, <1>4, Verdicts DEF PlanTesla
<1> QED BY <1>5, <1>6, <1>7

LEMMA PlanActionType ==
  ASSUME NEW D, RestDo \cup {"node"} \subseteq D, NEW r \in Bodies, NEW T \in SUBSET Bridges
  PROVE  PlanAction(r, T) \in Seq(Made(D))
<1> DEFINE of == [b \in T |-> When(r.general # "", PlanL({b}, r.general, r.nodes))
                              \o When(r.setkey # "", PlanS({b}, r.setkey, r.at))]
<1>1. ASSUME NEW b \in T
      PROVE  of[b] \in Seq(Made(D))
  <2>1. When(r.general # "", PlanL({b}, r.general, r.nodes)) \in Seq(Made(D))
    <3>1. {b} \in SUBSET Bridges /\ r.nodes \in SUBSET Nat
      BY BodyType
    <3>2. PlanL({b}, r.general, r.nodes) \in Seq(Made(D))
      BY <3>1, PlanLType
    <3> QED BY <3>2, WhenType, Zenon
  <2>2. When(r.setkey # "", PlanS({b}, r.setkey, r.at)) \in Seq(Made(D))
    <3>1. {b} \in SUBSET Bridges /\ r.at \in Nat
      BY BodyType
    <3>2. PlanS({b}, r.setkey, r.at) \in Seq(Made(D))
      BY <3>1, PlanSType
    <3> QED BY <3>2, WhenType, Zenon
  <2> DEFINE general == When(r.general # "", PlanL({b}, r.general, r.nodes))
             setkey == When(r.setkey # "", PlanS({b}, r.setkey, r.at))
  <2>3. of[b] = general \o setkey
    BY Zenon
  <2> HIDE DEF of, general, setkey
  <2>4. general \o setkey \in Seq(Made(D))
    <3>1. general \in Seq(Made(D)) /\ setkey \in Seq(Made(D))
      BY <2>1, <2>2, Zenon DEF general, setkey
    <3> QED BY <3>1
  <2> QED BY <2>3, <2>4
<1>2. PlanAction(r, T) \in {Do("refuse"), Over(T, MaxBridges, of)}
  BY DEF PlanAction
<1> HIDE DEF of
<1>3. Over(T, MaxBridges, of) \in Seq(Made(D))
  BY <1>1, OverType, BoundAssumption
<1> QED BY <1>2, <1>3, Verdicts

LEMMA PlanIdleType ==
  ASSUME NEW D, RestDo \cup {"unlock"} \subseteq D, NEW r, r.pixels => "try" \in D,
         NEW b \in Bridges
  PROVE  PlanIdle(r, b) \in Seq(Made(D))
<1>1. <<Step("unlock", {b}, 0, 0)>> \in Seq(Made(D))
  BY OneStep DEF AllDo
<1>2. When(r.pixels, <<Step("try", {b}, 0, 0)>>) \in Seq(Made(D))
  BY OneStep DEF AllDo, When
<1>3. Broadcast({b}) \in Seq(Made(D))
  BY BroadcastType
<1> QED BY <1>1, <1>2, <1>3 DEF PlanIdle

(* A unified request that colours no single nodes.                         *)
Plain(r) == r.game = "Action" => r.reset \/ r.idle \/ r.alloff

LEMMA PlanSetType ==
  ASSUME NEW D, RestDo \subseteq D, NEW r \in Bodies,
         inst # 0 => /\ {"reset", "unlock"} \subseteq D
                     /\ r.pixels => "try" \in D
                     /\ ~ Plain(r) => "node" \in D
  PROVE  PlanSet(r) \in Seq(Made(D))
<1> DEFINE T == Targets(r)
           resets == Over(T, MaxBridges, [b \in T |-> <<Step("reset", {b}, 0, 0)>>])
           idles == Over(T, MaxBridges, [b \in T |-> PlanIdle(r, b)])
<1>1. T \in SUBSET Bridges
  BY DEF Targets, InService
<1>2. CASE inst = 0 \/ ~ r.auth \/ r.game = ""
  <2>1. PlanSet(r) \in {Do("refuse"), Do("bad")}
    BY <1>2 DEF PlanSet
  <2> QED BY <2>1, Verdicts
<1>3. CASE inst # 0 /\ r.auth /\ r.game # ""
  <2>1. resets \in Seq(Made(D))
    <3> DEFINE of == [b \in T |-> <<Step("reset", {b}, 0, 0)>>]
    <3>1. \A b \in T : of[b] \in Seq(Made(D))
      BY <1>1, <1>3, OneStep DEF AllDo
    <3> HIDE DEF of, T
    <3>2. Over(T, MaxBridges, of) \in Seq(Made(D))
      BY <3>1, OverType, BoundAssumption
    <3> QED BY <3>2 DEF of
  <2>2. idles \in Seq(Made(D))
    <3> DEFINE of == [b \in T |-> PlanIdle(r, b)]
    <3>1. \A b \in T : of[b] \in Seq(Made(D))
      BY <1>1, <1>3, PlanIdleType
    <3> HIDE DEF of, T
    <3>2. Over(T, MaxBridges, of) \in Seq(Made(D))
      BY <3>1, OverType, BoundAssumption
    <3> QED BY <3>2 DEF of
  <2>3. Broadcast(T) \in Seq(Made(D))
    BY <1>1, BroadcastType
  <2>4. {PlanHide(r, T), PlanVibron(r, T), PlanTesla(r, T)} \subseteq Seq(Made(D))
    BY <1>1, PlanGameType
  <2>5. ~ Plain(r) => PlanAction(r, T) \in Seq(Made(D))
    BY <1>1, <1>3, PlanActionType
  <2> HIDE DEF resets, idles, T
  <2>6. \/ PlanSet(r) \in {Do("refuse"), Do("bad"), resets, idles, Broadcast(T),
                           PlanHide(r, T), PlanVibron(r, T), PlanTesla(r, T)}
        \/ ~ Plain(r) /\ PlanSet(r) = PlanAction(r, T)
    <3>1. r.game \in {"Action", "Hide", "Vibron", "Tesla"}
      BY <1>3, BodyType
    <3> QED BY <1>3, <3>1 DEF PlanSet, Plain, T, resets, idles
  <2> QED BY <2>1, <2>2, <2>3, <2>4, <2>5, <2>6, Verdicts
<1> QED BY <1>2, <1>3

LEMMA ServiceSize == Cardinality(InService) \in Nat
<1>1. IsFiniteSet(Bridges)
  BY BoundAssumption, FS_Interval DEF Bridges
<1>2. IsFiniteSet(InService)
  BY <1>1, FS_Subset DEF InService
<1> QED BY <1>2, FS_CardinalityType

LEMMA PlanDispatchType ==
  ASSUME NEW D, RestDo \cup {"crash", "die", "sweep", "display", "list"} \subseteq D,
         NEW r \in Bodies, inst # 0 => "node" \in D
  PROVE  PlanDispatch(r) \in Seq(Made(D))
<1> DEFINE b == {r.bridge} \cap Bridges
           display == <<Step("display", {}, r.at, Cardinality(InService))>>
           sweep == <<Step("sweep", {}, 0, Cardinality(InService))>>
           list == <<Step("list", {}, 0, Cardinality(InService))>>
<1>1. PlanNode(b) \in Seq(Made(D))
  BY Verdicts, BroadcastType DEF PlanNode
<1>2. display \in Seq(Made(D)) /\ sweep \in Seq(Made(D)) /\ list \in Seq(Made(D))
  BY ServiceSize, BodyType, OneStep DEF AllDo
<1>3. Do("crash") \in Seq(Made(D)) /\ Do("die") \in Seq(Made(D))
  BY DoType DEF AllDo
<1>4. inst # 0 => Colour(b, r.nodes) \in Seq(Made(D)) /\ Colour(b, {r.at}) \in Seq(Made(D))
  BY ColourType, BodyType
<1>5. \/ PlanDispatch(r) \in {PlanNode(b), Do("crash"), Do("die"), Do("good"), Do("bad"),
                              display, sweep, list}
      \/ inst # 0 /\ PlanDispatch(r) \in {Colour(b, r.nodes), Colour(b, {r.at})}
  BY DEF PlanDispatch
<1> HIDE DEF b, display, sweep, list
<1> QED BY <1>1, <1>2, <1>3, <1>4, <1>5, Verdicts

-----------------------------------------------------------------------------
(* The inductive invariant.                                                *)

(* What a plan is made of: the stage is coloured by no plan, but by a      *)
(* thread that took the lock for it.  Without an instance of the action    *)
(* game no plan touches a stage.                                           *)
FreeDo == RestDo \cup {"try", "crash", "die", "sweep", "display", "list"}
PlanDo == FreeDo \cup {"reset", "unlock", "node"}
CleanDo == RestDo \cup {"reset", "unlock"}

(* The requests OkMeansSent and TokensReachAll speak of.                   *)
Clean(r) == r.msg = "set" /\ ~ r.pixels /\ Plain(r)
Token(r) == r.msg = "hide" /\ r.general \in {"token", "RRR"}

(* Only the step a thread is at may be one that its plan did not hold.     *)
TodoInv ==
  \A t \in Threads : todo[t] # <<>> => Tail(todo[t]) \in Seq(Made(PlanDo))

(* A thread that found no action game has nothing to do with stages.       *)
OwnInv ==
  \A t \in Threads : mine[t] = 0 => todo[t] \in Seq(Made(FreeDo))

(* A clean request takes clean steps, and the first frame that was turned  *)
(* away spoils its result for good.                                        *)
CleanInv ==
  \A t \in Threads :
    /\ pc[t] = "free" => missed[t] = FALSE
    /\ pc[t] = "busy" /\ Clean(req[t]) =>
         /\ todo[t] \in Seq(Made(CleanDo))
         /\ missed[t] = TRUE => verdict[t] = "bad"

(* The bridges were added one after the other, and those a thread still    *)
(* owes a frame could send all the time.                                   *)
OwedInv ==
  /\ \E k \in 0 .. MaxBridges : InService = 1 .. k
  /\ \A t \in Threads : \A b \in owed[t] : bus[b] = "up"

(* A hide token: the walk has not passed a bridge it owes a frame, and     *)
(* when it has ended there is none.                                        *)
TokenInv ==
  \A t \in Threads :
    pc[t] = "busy" /\ Token(req[t]) =>
      \/ /\ Len(todo[t]) = 1 /\ todo[t][1].do = "sweep"
         /\ todo[t][1].to \cap owed[t] = {}
      \/ owed[t] = {} /\ todo[t] \in {Do("good"), <<>>}

(* The lock of a stage is taken while it is coloured, and while a thread   *)
(* is about to colour it that saw it since the lock was last opened.       *)
Pending(t, b) == At(t, "colour") /\ b \in Now(t).to

LockCovers ==
  \A i \in Instances : \A b \in Bridges : coloured[i][b] = TRUE => lock[i][b] = TRUE

PendingHolds ==
  \A t \in Threads : \A b \in Bridges :
    Pending(t, b) =>
      /\ mine[t] \in Instances
      /\ Now(t).mark <= epoch[mine[t]][b]
      /\ Now(t).mark = epoch[mine[t]][b] =>
           lock[mine[t]][b] = TRUE /\ coloured[mine[t]][b] = FALSE

MarksDiffer ==
  \A t, u \in Threads : \A b \in Bridges :
    Pending(t, b) /\ Pending(u, b) /\ mine[t] = mine[u] /\ t # u =>
      Now(t).mark # Now(u).mark

StageInv == LockCovers /\ PendingHolds /\ MarksDiffer

CommandsInv ==
  TypeOK /\ TodoInv /\ OwnInv /\ CleanInv /\ OwedInv /\ TokenInv /\ StageInv

(* A plan.                                                                 *)
LEMMA PlanType ==
  ASSUME NEW r \in Bodies
  PROVE  /\ Plan(r) \in Seq(Made(PlanDo))
         /\ inst = 0 => Plan(r) \in Seq(Made(FreeDo))
         /\ Clean(r) => Plan(r) \in Seq(Made(CleanDo))
         /\ Token(r) => Plan(r) = <<Step("sweep", {}, 0, Cardinality(InService))>>
<1>1. Plan(r) \in Seq(Made(PlanDo))
  <2>1. RestDo \cup {"crash", "die", "sweep", "display", "list", "reset", "unlock", "try", "node"}
          \subseteq PlanDo
    BY DEF PlanDo, FreeDo
  <2>2. PlanSet(r) \in Seq(Made(PlanDo))
    BY <2>1, PlanSetType
  <2>3. PlanDispatch(r) \in Seq(Made(PlanDo))
    BY <2>1, PlanDispatchType
  <2> QED BY <2>2, <2>3 DEF Plan
<1>2. ASSUME inst = 0
      PROVE  Plan(r) \in Seq(Made(FreeDo))
  <2>1. RestDo \cup {"crash", "die", "sweep", "display", "list"} \subseteq FreeDo
    BY DEF FreeDo
  <2>2. PlanSet(r) \in Seq(Made(FreeDo))
    BY <1>2, <2>1, PlanSetType
  <2>3. PlanDispatch(r) \in Seq(Made(FreeDo))
    BY <1>2, <2>1, PlanDispatchType
  <2> QED BY <2>2, <2>3 DEF Plan
<1>3. ASSUME Clean(r)
      PROVE  Plan(r) \in Seq(Made(CleanDo))
  <2>1. RestDo \cup {"reset", "unlock"} \subseteq CleanDo
    BY DEF CleanDo
  <2>2. PlanSet(r) \in Seq(Made(CleanDo))
    BY <1>3, <2>1, PlanSetType DEF Clean
  <2> QED BY <1>3, <2>2 DEF Plan, Clean
<1>4. ASSUME Token(r)
      PROVE  Plan(r) = <<Step("sweep", {}, 0, Cardinality(InService))>>
  BY <1>4 DEF Token, Plan, PlanDispatch
<1> QED BY <1>1, <1>2, <1>3, <1>4

-----------------------------------------------------------------------------
(* What a thread has left to do.                                           *)

Moves(t, s) == todo' = [todo EXCEPT ![t] = s \o Tail(@)]

(* What takes the place of the step a thread is at: other steps of the     *)
(* same request, and the colouring of a stage only after its lock.         *)
Shape(t, s) ==
  /\ s \in Seq(Steps) /\ (s # <<>> => Tail(s) \in Seq(Made(PlanDo)))
  /\ Moves(t, s)
  /\ todo[t] \in Seq(Made(FreeDo)) => s \in Seq(Made(FreeDo))
  /\ todo[t] \in Seq(Made(CleanDo)) => s \in Seq(Made(CleanDo))
  /\ s # <<>> /\ Head(s).do = "colour" => At(t, "stage")

LEMMA StepsMade == Steps = Made(AllDo)
  BY DEF Steps, Made, AllDo

LEMMA NowType ==
  ASSUME TypeOK, NEW t \in Threads, todo[t] # <<>>
  PROVE  /\ Now(t) \in Steps /\ Tail(todo[t]) \in Seq(Steps)
         /\ Now(t).do \in AllDo /\ Now(t).to \in SUBSET Bridges
         /\ Now(t).at \in Nat /\ Now(t).mark \in Nat
<1>1. todo[t] \in Seq(Steps)
  BY DEF TypeOK
<1>2. Now(t) \in Steps /\ Tail(todo[t]) \in Seq(Steps)
  BY <1>1 DEF Now
<1> HIDE DEF Now
<1> QED BY <1>2 DEF Steps, AllDo

(* The kinds of a sequence of steps are the kind of its first.             *)
LEMMA NowMade ==
  ASSUME TypeOK, NEW t \in Threads, todo[t] # <<>>, NEW D, todo[t] \in Seq(Made(D))
  PROVE  Now(t) \in Made(D) /\ Now(t).do \in D
<1>1. Now(t) \in Made(D)
  BY DEF Now
<1> HIDE DEF Now
<1> QED BY <1>1 DEF Made

LEMMA StepExcept ==
  ASSUME NEW D, NEW x \in Made(D), NEW X \in SUBSET Bridges
  PROVE  /\ [x EXCEPT !.to = X] \in Made(D) /\ <<[x EXCEPT !.to = X]>> \in Seq(Made(D))
         /\ [x EXCEPT !.to = X].do = x.do /\ [x EXCEPT !.to = X].to = X
<1>1. x \in Steps /\ x.do \in D
  BY DEF Made
<1>2. [x EXCEPT !.to = X] \in Steps
  BY <1>1 DEF Steps
<1>3. [x EXCEPT !.to = X].do = x.do /\ [x EXCEPT !.to = X].to = X
  BY <1>1 DEF Steps
<1>4. [x EXCEPT !.to = X] \in Made(D)
  BY <1>1, <1>2, <1>3 DEF Made
<1> QED BY <1>3, <1>4

LEMMA MoveFacts ==
  ASSUME TypeOK, TodoInv, NEW t \in Threads, todo[t] # <<>>, NEW s, Shape(t, s)
  PROVE  /\ todo' \in [Threads -> Seq(Steps)] /\ TodoInv'
         /\ todo'[t] = s \o Tail(todo[t])
         /\ \A u \in Threads \ {t} : todo'[u] = todo[u]
         /\ s # <<>> => todo'[t] # <<>> /\ Head(todo'[t]) = Head(s)
         /\ s = <<>> => todo'[t] = Tail(todo[t])
<1> DEFINE q == Tail(todo[t])
<1>1. q \in Seq(Steps) /\ q \in Seq(Made(PlanDo))
  BY NowType DEF TodoInv
<1>2. s \in Seq(Steps) /\ (s # <<>> => Tail(s) \in Seq(Made(PlanDo)))
  BY DEF Shape
<1>3. todo \in [Threads -> Seq(Steps)] /\ todo' = [todo EXCEPT ![t] = s \o q]
  BY DEF Shape, Moves, TypeOK
<1> HIDE DEF q
<1>4. s \o q \in Seq(Steps)
  BY <1>1, <1>2
<1>5. todo'[t] = s \o q /\ \A u \in Threads \ {t} : todo'[u] = todo[u]
  BY <1>3
<1>6. todo' \in [Threads -> Seq(Steps)]
  BY <1>3, <1>4
<1>7. s = <<>> => s \o q = q
  BY <1>1
<1>8. s # <<>> => s \o q # <<>> /\ Head(s \o q) = Head(s) /\ Tail(s \o q) = Tail(s) \o q
  BY <1>1, <1>2
<1>9. todo'[t] # <<>> => Tail(todo'[t]) \in Seq(Made(PlanDo))
  <2>1. CASE s = <<>>
    BY <1>1, <1>5, <1>7, <2>1
  <2>2. CASE s # <<>>
    <3>1. Tail(s) \o q \in Seq(Made(PlanDo))
      BY <1>1, <1>2, <2>2
    <3> QED BY <1>5, <1>8, <2>2, <3>1
  <2> QED BY <2>1, <2>2
<1>10. TodoInv'
  BY <1>5, <1>9 DEF TodoInv
<1> QED BY <1>5, <1>6, <1>7, <1>8, <1>10 DEF q

LEMMA MoveStays ==
  ASSUME TypeOK, NEW t \in Threads, todo[t] # <<>>, NEW D, todo[t] \in Seq(Made(D)),
         NEW s \in Seq(Made(D)), Moves(t, s)
  PROVE  todo'[t] \in Seq(Made(D))
<1>1. Tail(todo[t]) \in Seq(Made(D))
  OBVIOUS
<1>2. s \o Tail(todo[t]) \in Seq(Made(D))
  BY <1>1
<1>3. todo'[t] = s \o Tail(todo[t])
  BY DEF Moves, TypeOK
<1> QED BY <1>2, <1>3

LEMMA OnwardShape ==
  ASSUME TypeOK, NEW t \in Threads, todo[t] # <<>>, Onward(t)
  PROVE  Shape(t, <<>>)
<1>1. Tail(todo[t]) \in Seq(Steps)
  BY NowType
<1>2. <<>> \o Tail(todo[t]) = Tail(todo[t])
  BY <1>1
<1>3. Moves(t, <<>>)
  BY <1>2 DEF Moves, Onward
<1> QED BY <1>3 DEF Shape

(* One step in place of one: of the same kind, or of one that goes with it.*)
LEMMA OneShape ==
  ASSUME TypeOK, NEW t \in Threads, todo[t] # <<>>, NEW x \in Steps, Becomes(t, <<x>>),
         Now(t).do \in FreeDo => x.do \in FreeDo, Now(t).do \in CleanDo => x.do \in CleanDo,
         x.do = "colour" => At(t, "stage")
  PROVE  Shape(t, <<x>>)
<1>1. Moves(t, <<x>>)
  BY DEF Moves, Becomes
<1>2. <<x>> \in Seq(Steps) /\ Tail(<<x>>) = <<>> /\ Head(<<x>>) = x
  OBVIOUS
<1>3. ASSUME NEW D, x.do \in D
      PROVE  <<x>> \in Seq(Made(D))
  BY <1>3 DEF Made
<1>4. todo[t] \in Seq(Made(FreeDo)) => <<x>> \in Seq(Made(FreeDo))
  BY <1>3, NowMade
<1>5. todo[t] \in Seq(Made(CleanDo)) => <<x>> \in Seq(Made(CleanDo))
  BY <1>3, NowMade
<1>6. Tail(<<x>>) \in Seq(Made(PlanDo))
  BY <1>2
<1> QED BY <1>1, <1>2, <1>4, <1>5, <1>6 DEF Shape

-----------------------------------------------------------------------------
(* The steps of a thread that is not at its answer.                        *)

Works(t) ==
  \/ SendNext(t) \/ Result(t) \/ ColourNode(t) \/ StageCheck(t) \/ ColourStage(t)
  \/ Reset(t) \/ Unlock(t) \/ SweepNext(t) \/ SweepEnd(t)

LEMMA Busy ==
  ASSUME NEW t \in Threads, NEW do, At(t, do)
  PROVE  pc[t] = "busy" /\ todo[t] # <<>> /\ Now(t).do = do
  BY DEF At

LEMMA OneMade ==
  ASSUME NEW do \in AllDo, NEW to \in SUBSET Bridges, NEW at \in Nat, NEW mark \in Nat
  PROVE  Step(do, to, at, mark) \in Steps /\ Step(do, to, at, mark).do = do
         /\ Step(do, to, at, mark).to = to /\ Step(do, to, at, mark).mark = mark
  BY DEF Step, Steps, AllDo

LEMMA SendShape ==
  ASSUME TypeOK, NEW t \in Threads, SendNext(t)
  PROVE  \E s : Shape(t, s)
<1>1. todo[t] # <<>>
  BY Busy DEF SendNext
<1>2. PICK b \in Now(t).to :
        LET left == Now(t).to \ {b}
        IN IF left = {} THEN Onward(t) ELSE Becomes(t, <<[Now(t) EXCEPT !.to = left]>>)
  BY DEF SendNext
<1> DEFINE left == Now(t).to \ {b}
           x == [Now(t) EXCEPT !.to = left]
<1>3. Now(t) \in Made(AllDo) /\ left \in SUBSET Bridges
  BY <1>1, NowType, StepsMade
<1>4. x \in Steps /\ x.do = Now(t).do
  BY <1>3, StepExcept, StepsMade
<1>5. Onward(t) \/ Becomes(t, <<x>>)
  BY <1>2
<1>6. Now(t).do # "colour"
  BY DEF SendNext, At
<1> HIDE DEF x
<1> QED BY <1>1, <1>4, <1>5, <1>6, OnwardShape, OneShape

LEMMA JoinFacts ==
  ASSUME NEW X, NEW a \in Seq(X), NEW c \in Seq(X), a # <<>>
  PROVE  a \o c \in Seq(X) /\ Head(a \o c) = Head(a) /\ Tail(a \o c) = Tail(a) \o c
  OBVIOUS

LEMMA LightShape ==
  ASSUME TypeOK, NEW t \in Threads, todo[t] # <<>>, Now(t).do \in {"node", "look"},
         NEW b \in Bridges, NEW at, Becomes(t, Light(b, at))
  PROVE  \E s : Shape(t, s)
<1> DEFINE x == Step("try", {b}, 0, 0)
           y == Step("stage", {b}, 0, 0)
<1>1. x \in Steps /\ x.do = "try" /\ y \in Steps /\ y.do = "stage"
  BY OneMade DEF AllDo
<1>2. PICK s \in {<<x>>, <<x>> \o <<x>>, <<y>> \o <<x>>} : Becomes(t, s)
  BY DEF Light
<1>3. x \in Made(PlanDo)
  BY <1>1 DEF Made, PlanDo, FreeDo
<1> HIDE DEF x, y
<1>4. s \in Seq(Steps) /\ Tail(s) \in Seq(Made(PlanDo)) /\ Head(s) \in {x, y}
  <2>1. CASE s = <<x>>
    <3>1. Tail(s) = <<>> /\ Head(s) = x /\ s \in Seq(Steps)
      BY <1>1, <2>1
    <3>2. <<>> \in Seq(Made(PlanDo))
      OBVIOUS
    <3> QED BY <3>1, <3>2
  <2>2. ASSUME NEW z \in {x, y}, s = <<z>> \o <<x>>
        PROVE  s \in Seq(Steps) /\ Tail(s) \in Seq(Made(PlanDo)) /\ Head(s) \in {x, y}
    <3>1. <<z>> \in Seq(Steps) /\ <<x>> \in Seq(Steps)
      BY <1>1, <2>2
    <3>2. Tail(s) = Tail(<<z>>) \o <<x>> /\ Head(s) = Head(<<z>>) /\ s \in Seq(Steps)
      BY <2>2, <3>1, JoinFacts
    <3>3. Tail(<<z>>) = <<>> /\ Head(<<z>>) = z
      OBVIOUS
    <3>4. <<>> \o <<x>> \in Seq(Made(PlanDo))
      BY <1>3
    <3> QED BY <2>2, <3>2, <3>3, <3>4
  <2> QED BY <1>2, <2>1, <2>2
<1>5. ASSUME todo[t] \in Seq(Made(FreeDo)) \/ todo[t] \in Seq(Made(CleanDo))
      PROVE  FALSE
  BY <1>5, NowMade DEF FreeDo, CleanDo, RestDo
<1>6. Moves(t, s)
  BY <1>2 DEF Moves, Becomes
<1>7. Head(s).do # "colour"
  BY <1>1, <1>4
<1> QED BY <1>4, <1>5, <1>6, <1>7 DEF Shape

LEMMA NodeShape ==
  ASSUME TypeOK, NEW t \in Threads, ColourNode(t)
  PROVE  \E s : Shape(t, s)
<1>1. todo[t] # <<>> /\ Now(t).do \in {"node", "look"} /\ FindNode(t)
  BY Busy DEF ColourNode
<1>2. Now(t) \in Made(AllDo) /\ Now(t).at \in Nat /\ Now(t).to \in SUBSET Bridges
  BY <1>1, NowType, StepsMade
<1>3. Now(t).do \notin FreeDo /\ Now(t).do \notin CleanDo /\ Now(t).do # "colour"
  BY <1>1 DEF FreeDo, CleanDo, RestDo
<1>4. CASE Onward(t)
  BY <1>1, <1>4, OnwardShape
<1>5. CASE \E b \in Bridges : Becomes(t, Light(b, Now(t).at))
  BY <1>1, <1>5, LightShape
<1>6. CASE Becomes(t, <<Step("look", {}, Now(t).at, Cardinality(InService))>>)
  <2> DEFINE x == Step("look", {}, Now(t).at, Cardinality(InService))
  <2>1. x \in Steps /\ x.do = "look"
    BY <1>2, OneMade, ServiceSize DEF AllDo
  <2>2. Becomes(t, <<x>>)
    BY <1>6
  <2> HIDE DEF x
  <2> QED BY <1>1, <1>3, <2>1, <2>2, OneShape
<1>7. ASSUME NEW b \in InService, Becomes(t, <<[Now(t) EXCEPT !.to = @ \cup {b}]>>)
      PROVE  \E s : Shape(t, s)
  <2> DEFINE X == Now(t).to \cup {b}
             x == [Now(t) EXCEPT !.to = X]
  <2>1. X \in SUBSET Bridges
    BY <1>2 DEF InService
  <2>2. x \in Steps /\ x.do = Now(t).do
    BY <1>2, <2>1, StepExcept, StepsMade
  <2>3. Becomes(t, <<x>>)
    BY <1>7
  <2> HIDE DEF x
  <2> QED BY <1>1, <1>3, <2>2, <2>3, OneShape
<1>8. \/ Onward(t) \/ \E b \in Bridges : Becomes(t, Light(b, Now(t).at))
      \/ Becomes(t, <<Step("look", {}, Now(t).at, Cardinality(InService))>>)
      \/ \E b \in InService : Becomes(t, <<[Now(t) EXCEPT !.to = @ \cup {b}]>>)
  BY <1>1, <1>2 DEF FindNode, InService
<1> QED BY <1>4, <1>5, <1>6, <1>7, <1>8

(* A thread that is at a stage has an action game.                         *)
LEMMA StageOwner ==
  ASSUME TypeOK, OwnInv, NEW t \in Threads,
         At(t, "node") \/ At(t, "stage") \/ At(t, "colour") \/ At(t, "reset") \/ At(t, "unlock")
  PROVE  mine[t] \in Instances
<1>1. todo[t] # <<>> /\ Now(t).do \in {"node", "stage", "colour", "reset", "unlock"}
  BY Busy
<1>2. ASSUME mine[t] = 0
      PROVE  FALSE
  <2>1. todo[t] \in Seq(Made(FreeDo))
    BY <1>2 DEF OwnInv
  <2> QED BY <1>1, <2>1, NowMade DEF FreeDo, RestDo
<1>3. mine[t] \in 0 .. MaxActivations
  BY DEF TypeOK
<1> QED BY <1>2, <1>3, BoundAssumption DEF Instances

LEMMA StageShape ==
  ASSUME TypeOK, OwnInv, NEW t \in Threads, StageCheck(t)
  PROVE  \E s : Shape(t, s)
<1>1. todo[t] # <<>> /\ Now(t).do = "stage" /\ At(t, "stage")
  BY Busy DEF StageCheck
<1>2. PICK b \in Now(t).to :
        \/ Onward(t)
        \/ Becomes(t, <<Step("colour", {b}, 0, epoch[mine[t]][b])>>)
  BY DEF StageCheck
<1>3. b \in Bridges /\ mine[t] \in Instances
  BY <1>1, <1>2, NowType, StageOwner
<1>4. epoch[mine[t]][b] \in Nat
  BY <1>3 DEF TypeOK
<1> DEFINE x == Step("colour", {b}, 0, epoch[mine[t]][b])
<1>5. x \in Steps /\ x.do = "colour"
  BY <1>3, <1>4, OneMade DEF AllDo
<1>6. Onward(t) \/ Becomes(t, <<x>>)
  BY <1>2
<1>7. Now(t).do \notin FreeDo /\ Now(t).do \notin CleanDo
  BY <1>1 DEF FreeDo, CleanDo, RestDo
<1> HIDE DEF x
<1> QED BY <1>1, <1>5, <1>6, <1>7, OnwardShape, OneShape

LEMMA ResetShape ==
  ASSUME TypeOK, NEW t \in Threads, Reset(t)
  PROVE  \E s : Shape(t, s)
<1>1. todo[t] # <<>> /\ Now(t).do = "reset"
  BY Busy DEF Reset
<1>2. PICK b \in Now(t).to : Onward(t) \/ Becomes(t, <<Step("unlock", {b}, 0, 0)>>)
  BY DEF Reset
<1>3. b \in Bridges
  BY <1>1, <1>2, NowType
<1> DEFINE x == Step("unlock", {b}, 0, 0)
<1>4. x \in Steps /\ x.do = "unlock"
  BY <1>3, OneMade DEF AllDo
<1>5. Onward(t) \/ Becomes(t, <<x>>)
  BY <1>2
<1>6. Now(t).do \notin FreeDo /\ x.do \in CleanDo
  BY <1>1, <1>4 DEF FreeDo, CleanDo, RestDo
<1> HIDE DEF x
<1> QED BY <1>1, <1>4, <1>5, <1>6, OnwardShape, OneShape

LEMMA SweepNextShape ==
  ASSUME TypeOK, NEW t \in Threads, SweepNext(t)
  PROVE  \E s : Shape(t, s)
<1>1. todo[t] # <<>> /\ Now(t).do \in {"sweep", "display", "list"}
  BY Busy DEF SweepNext, Sweeps
<1>2. PICK b \in InService : Becomes(t, <<[Now(t) EXCEPT !.to = @ \cup {b}]>>)
  BY DEF SweepNext, Sweeps
<1> DEFINE X == Now(t).to \cup {b}
           x == [Now(t) EXCEPT !.to = X]
<1>3. Now(t) \in Made(AllDo) /\ X \in SUBSET Bridges
  BY <1>1, <1>2, NowType, StepsMade DEF InService
<1>4. x \in Steps /\ x.do = Now(t).do
  BY <1>3, StepExcept, StepsMade
<1>5. Becomes(t, <<x>>)
  BY <1>2
<1> HIDE DEF x
<1> QED BY <1>1, <1>4, <1>5, OneShape

LEMMA SweepEndShape ==
  ASSUME TypeOK, NEW t \in Threads, SweepEnd(t)
  PROVE  \E s : Shape(t, s)
<1>1. todo[t] # <<>> /\ Now(t).do \in {"sweep", "display", "list"}
  BY Busy DEF SweepEnd, Sweeps
<1>2. PICK x \in {Step("good", {}, 0, 0), Step("bad", {}, 0, 0),
                  Step("sweep", {}, 0, Cardinality(InService))} : Becomes(t, <<x>>)
  BY DEF SweepEnd, Sweeps, Do
<1>3. x \in Steps /\ x.do \in {"good", "bad", "sweep"}
  BY <1>2, OneMade, ServiceSize DEF AllDo
<1>4. Now(t).do \notin CleanDo /\ x.do \in FreeDo /\ x.do # "colour"
  BY <1>1, <1>3 DEF FreeDo, CleanDo, RestDo
<1> QED BY <1>1, <1>2, <1>3, <1>4, OneShape

LEMMA WorkShape ==
  ASSUME TypeOK, OwnInv, NEW t \in Threads, Works(t)
  PROVE  todo[t] # <<>> /\ pc[t] = "busy" /\ \E s : Shape(t, s)
<1>1. todo[t] # <<>> /\ pc[t] = "busy"
  BY DEF Works, SendNext, Result, ColourNode, StageCheck, ColourStage, Reset, Unlock, SweepNext,
         SweepEnd, Sweeps, At
<1>2. CASE Result(t) \/ ColourStage(t) \/ Unlock(t)
  <2>1. Onward(t)
    BY <1>2 DEF Result, ColourStage, Unlock
  <2> QED BY <1>1, <2>1, OnwardShape
<1> QED BY <1>1, <1>2, SendShape, NodeShape, StageShape, ResetShape, SweepNextShape,
           SweepEndShape DEF Works

(* What happens to the rest of a request: the kinds of its steps stay.     *)
LEMMA WorkTodo ==
  ASSUME CommandsInv, NEW t \in Threads, Works(t)
  PROVE  /\ todo' \in [Threads -> Seq(Steps)] /\ TodoInv' /\ OwnInv'
         /\ todo[t] \in Seq(Made(CleanDo)) => todo'[t] \in Seq(Made(CleanDo))
         /\ \A u \in Threads \ {t} : todo'[u] = todo[u]
         /\ ~ At(t, "stage") => ~ At(t, "colour")'
<1> USE DEF CommandsInv
<1>1. todo[t] # <<>>
  BY WorkShape
<1>2. PICK s : Shape(t, s)
  BY WorkShape
<1>3. /\ todo' \in [Threads -> Seq(Steps)] /\ TodoInv'
      /\ \A u \in Threads \ {t} : todo'[u] = todo[u]
      /\ s # <<>> => todo'[t] # <<>> /\ Head(todo'[t]) = Head(s)
      /\ s = <<>> => todo'[t] = Tail(todo[t])
  BY <1>1, <1>2, MoveFacts
<1>4. todo[t] \in Seq(Made(CleanDo)) => todo'[t] \in Seq(Made(CleanDo))
  BY <1>1, <1>2, MoveStays DEF Shape
<1>5. todo[t] \in Seq(Made(FreeDo)) => todo'[t] \in Seq(Made(FreeDo))
  BY <1>1, <1>2, MoveStays DEF Shape
<1>6. UNCHANGED mine
  BY DEF Works, SendNext, Result, ColourNode, StageCheck, ColourStage, Reset, Unlock, SweepNext,
         SweepEnd, Sweeps, askVars
<1>7. OwnInv'
  BY <1>3, <1>5, <1>6 DEF OwnInv
<1>8. ASSUME At(t, "colour")', ~ At(t, "stage")
      PROVE  FALSE
  <2>1. todo'[t] # <<>> /\ Head(todo'[t]).do = "colour"
    BY <1>8 DEF At, Now
  <2>2. CASE s # <<>>
    BY <1>2, <1>3, <1>8, <2>1, <2>2 DEF Shape
  <2>3. CASE s = <<>>
    <3>1. todo'[t] \in Seq(Made(PlanDo))
      BY <1>1, <1>3, <2>3 DEF TodoInv
    <3>2. Head(todo'[t]) \in Made(PlanDo)
      BY <2>1, <3>1
    <3> QED BY <2>1, <3>2 DEF Made, PlanDo, FreeDo, RestDo
  <2> QED BY <2>2, <2>3
<1> QED BY <1>3, <1>4, <1>7, <1>8

-----------------------------------------------------------------------------
(* The results of a request and the frames it owes.                        *)

TallyType ==
  /\ verdict \in [Threads -> {"none", "good", "bad"}]
  /\ missed \in [Threads -> BOOLEAN]
  /\ owed \in [Threads -> SUBSET Bridges]

(* A step of thread t: the others keep theirs, and t owes no more than     *)
(* before.                                                                 *)
Tally(t) ==
  /\ TallyType'
  /\ \A u \in Threads \ {t} :
       verdict'[u] = verdict[u] /\ missed'[u] = missed[u] /\ owed'[u] = owed[u]
  /\ owed'[t] \subseteq owed[t]

(* A frame that is turned away leaves a bad result, which stays.           *)
Spoils(t) ==
  (missed[t] = TRUE => verdict[t] = "bad") => (missed'[t] = TRUE => verdict'[t] = "bad")

LEMMA ScoreFacts ==
  ASSUME TallyType, NEW t \in Threads, NEW ok \in BOOLEAN, Score(t, ok)
  PROVE  /\ verdict' \in [Threads -> {"none", "good", "bad"}]
         /\ \A u \in Threads \ {t} : verdict'[u] = verdict[u]
         /\ verdict[t] = "bad" \/ ok = FALSE => verdict'[t] = "bad"
         /\ ok = TRUE /\ verdict[t] # "bad" => verdict'[t] = "good"
<1>1. CASE ok = TRUE
  BY <1>1 DEF TallyType, Score
<1>2. CASE ok = FALSE
  BY <1>2 DEF TallyType, Score
<1> QED BY <1>1, <1>2

LEMMA SentFacts ==
  ASSUME TallyType, NEW t \in Threads, NEW b \in Bridges, NEW ok \in BOOLEAN, Sent(t, b, ok)
  PROVE  /\ missed' \in [Threads -> BOOLEAN] /\ owed' \in [Threads -> SUBSET Bridges]
         /\ \A u \in Threads \ {t} : missed'[u] = missed[u] /\ owed'[u] = owed[u]
         /\ owed'[t] \subseteq owed[t]
         /\ ok = TRUE => missed'[t] = missed[t] /\ b \notin owed'[t]
<1>1. CASE ok = TRUE
  <2>1. owed' = [owed EXCEPT ![t] = owed[t] \ {b}]
    BY <1>1 DEF Sent
  <2>2. missed' = missed
    <3>1. missed' = [missed EXCEPT ![t] = missed[t] \/ ~ ok]
      BY DEF Sent
    <3>2. missed[t] \in BOOLEAN
      BY DEF TallyType
    <3>3. (missed[t] \/ ~ ok) = missed[t]
      BY <1>1, <3>2
    <3> QED BY <3>1, <3>3 DEF TallyType
  <2> QED BY <2>1, <2>2 DEF TallyType
<1>2. CASE ok = FALSE
  <2>1. owed' = owed
    BY <1>2 DEF Sent, TallyType
  <2>2. missed' = [missed EXCEPT ![t] = TRUE]
    BY <1>2 DEF Sent, TallyType
  <2> QED BY <1>2, <2>1, <2>2 DEF TallyType
<1> QED BY <1>1, <1>2

LEMMA SendTally ==
  ASSUME TypeOK, NEW t \in Threads, SendNext(t)
  PROVE  Tally(t) /\ (Now(t).do # "try" => Spoils(t))
<1>0. TallyType /\ todo[t] # <<>>
  BY Busy DEF TallyType, TypeOK, SendNext
<1>1. PICK b \in Now(t).to :
        LET ok == Accepts(b) /\ (Now(t).do = "find" => Now(t).at \in known[b])
        IN /\ Sent(t, b, ok)
           /\ IF Now(t).do = "try" THEN UNCHANGED verdict ELSE Score(t, ok)
  BY DEF SendNext
<1> DEFINE ok == Accepts(b) /\ (Now(t).do = "find" => Now(t).at \in known[b])
<1>2. ok \in BOOLEAN /\ b \in Bridges
  BY <1>0, <1>1, NowType
<1>3. Sent(t, b, ok) /\ (Now(t).do = "try" => UNCHANGED verdict)
      /\ (Now(t).do # "try" => Score(t, ok))
  BY <1>1, Zenon
<1> HIDE DEF ok
<1>4. /\ missed' \in [Threads -> BOOLEAN] /\ owed' \in [Threads -> SUBSET Bridges]
      /\ \A u \in Threads \ {t} : missed'[u] = missed[u] /\ owed'[u] = owed[u]
      /\ owed'[t] \subseteq owed[t]
      /\ ok = TRUE => missed'[t] = missed[t] /\ b \notin owed'[t]
  BY <1>0, <1>2, <1>3, SentFacts
<1>5. CASE Now(t).do = "try"
  BY <1>0, <1>3, <1>4, <1>5 DEF Tally, TallyType
<1>6. CASE Now(t).do # "try"
  <2>1. /\ verdict' \in [Threads -> {"none", "good", "bad"}]
        /\ \A u \in Threads \ {t} : verdict'[u] = verdict[u]
        /\ verdict[t] = "bad" \/ ok = FALSE => verdict'[t] = "bad"
    BY <1>0, <1>2, <1>3, <1>6, ScoreFacts
  <2> QED BY <1>2, <1>4, <2>1 DEF Tally, TallyType, Spoils
<1> QED BY <1>5, <1>6

LEMMA ResultTally ==
  ASSUME TypeOK, NEW t \in Threads, Result(t)
  PROVE  Tally(t) /\ Spoils(t) /\ UNCHANGED owed
<1>0. TallyType
  BY DEF TallyType, TypeOK
<1> DEFINE ok == Now(t).do = "good"
<1>1. ok \in BOOLEAN /\ Score(t, ok) /\ UNCHANGED <<missed, owed>>
  BY DEF Result
<1> HIDE DEF ok
<1>2. /\ verdict' \in [Threads -> {"none", "good", "bad"}]
      /\ \A u \in Threads \ {t} : verdict'[u] = verdict[u]
      /\ verdict[t] = "bad" => verdict'[t] = "bad"
  BY <1>0, <1>1, ScoreFacts
<1> QED BY <1>0, <1>1, <1>2 DEF Tally, TallyType, Spoils

LEMMA ColourTally ==
  ASSUME TypeOK, NEW t \in Threads, ColourStage(t)
  PROVE  Tally(t)
<1>0. TallyType /\ todo[t] # <<>>
  BY Busy DEF TallyType, TypeOK, ColourStage
<1>1. PICK b \in Now(t).to : Sent(t, b, Accepts(b))
  BY DEF ColourStage
<1> DEFINE ok == Accepts(b)
<1>2. ok \in BOOLEAN /\ b \in Bridges /\ Sent(t, b, ok)
  BY <1>0, <1>1, NowType DEF Accepts
<1> HIDE DEF ok
<1>3. /\ missed' \in [Threads -> BOOLEAN] /\ owed' \in [Threads -> SUBSET Bridges]
      /\ \A u \in Threads \ {t} : missed'[u] = missed[u] /\ owed'[u] = owed[u]
      /\ owed'[t] \subseteq owed[t]
  BY <1>0, <1>2, SentFacts
<1>4. UNCHANGED verdict
  BY DEF ColourStage
<1> QED BY <1>0, <1>3, <1>4 DEF Tally, TallyType

LEMMA ResetTally ==
  ASSUME TypeOK, NEW t \in Threads, Reset(t)
  PROVE  Tally(t) /\ Spoils(t)
<1>0. TallyType /\ todo[t] # <<>>
  BY Busy DEF TallyType, TypeOK, Reset
<1>1. PICK b \in Now(t).to :
        \/ Sent(t, b, Accepts(b)) /\ Score(t, Accepts(b))
        \/ Score(t, FALSE) /\ UNCHANGED <<missed, owed>>
  BY DEF Reset
<1>2. CASE Sent(t, b, Accepts(b)) /\ Score(t, Accepts(b))
  <2> DEFINE ok == Accepts(b)
  <2>1. ok \in BOOLEAN /\ b \in Bridges /\ Sent(t, b, ok) /\ Score(t, ok)
    BY <1>0, <1>1, <1>2, NowType DEF Accepts
  <2> HIDE DEF ok
  <2>2. /\ missed' \in [Threads -> BOOLEAN] /\ owed' \in [Threads -> SUBSET Bridges]
        /\ \A u \in Threads \ {t} : missed'[u] = missed[u] /\ owed'[u] = owed[u]
        /\ owed'[t] \subseteq owed[t]
        /\ ok = TRUE => missed'[t] = missed[t]
    BY <1>0, <2>1, SentFacts
  <2>3. /\ verdict' \in [Threads -> {"none", "good", "bad"}]
        /\ \A u \in Threads \ {t} : verdict'[u] = verdict[u]
        /\ verdict[t] = "bad" \/ ok = FALSE => verdict'[t] = "bad"
    BY <1>0, <2>1, ScoreFacts
  <2> QED BY <2>1, <2>2, <2>3 DEF Tally, TallyType, Spoils
<1>3. CASE Score(t, FALSE) /\ UNCHANGED <<missed, owed>>
  <2>1. FALSE \in BOOLEAN
    OBVIOUS
  <2>2. /\ verdict' \in [Threads -> {"none", "good", "bad"}]
        /\ \A u \in Threads \ {t} : verdict'[u] = verdict[u]
        /\ verdict'[t] = "bad"
    BY <1>0, <1>3, <2>1 DEF Score, TallyType
  <2> QED BY <1>0, <1>3, <2>2 DEF Tally, TallyType, Spoils
<1> QED BY <1>1, <1>2, <1>3

LEMMA SweepTally ==
  ASSUME TypeOK, NEW t \in Threads, SweepNext(t)
  PROVE  Tally(t)
<1>0. TallyType
  BY DEF TallyType, TypeOK
<1>1. PICK b \in InService :
        \/ Sent(t, b, Accepts(b)) /\ Score(t, TRUE)
        \/ UNCHANGED <<missed, owed, verdict>>
  BY DEF SweepNext, Sweeps
<1>2. CASE Sent(t, b, Accepts(b)) /\ Score(t, TRUE)
  <2> DEFINE ok == Accepts(b)
  <2>1. ok \in BOOLEAN /\ b \in Bridges /\ Sent(t, b, ok)
    BY <1>1, <1>2 DEF Accepts, InService
  <2> HIDE DEF ok
  <2>2. /\ missed' \in [Threads -> BOOLEAN] /\ owed' \in [Threads -> SUBSET Bridges]
        /\ \A u \in Threads \ {t} : missed'[u] = missed[u] /\ owed'[u] = owed[u]
        /\ owed'[t] \subseteq owed[t]
    BY <1>0, <2>1, SentFacts
  <2>3. /\ verdict' \in [Threads -> {"none", "good", "bad"}]
        /\ \A u \in Threads \ {t} : verdict'[u] = verdict[u]
    BY <1>0, <1>2 DEF Score, TallyType
  <2> QED BY <2>2, <2>3 DEF Tally, TallyType
<1>3. CASE UNCHANGED <<missed, owed, verdict>>
  BY <1>0, <1>3 DEF Tally, TallyType
<1> QED BY <1>1, <1>2, <1>3

LEMMA WorkTally ==
  ASSUME TypeOK, NEW t \in Threads, Works(t)
  PROVE  Tally(t) /\ (todo[t] \in Seq(Made(CleanDo)) => Spoils(t))
<1>0. TallyType /\ todo[t] # <<>>
  BY DEF TallyType, TypeOK, Works, SendNext, Result, ColourNode, StageCheck, ColourStage, Reset,
         Unlock, SweepNext, SweepEnd, Sweeps, At
<1>1. CASE UNCHANGED <<verdict, missed, owed>>
  BY <1>0, <1>1 DEF Tally, TallyType, Spoils
<1>2. CASE SendNext(t)
  <2>1. todo[t] \in Seq(Made(CleanDo)) => Now(t).do # "try"
    BY <1>0, NowMade DEF CleanDo, RestDo
  <2> QED BY <1>2, <2>1, SendTally
<1>3. CASE ColourStage(t) \/ SweepNext(t)
  <2>1. todo[t] \notin Seq(Made(CleanDo))
    <3>1. Now(t).do \in {"colour", "sweep", "display", "list"}
      BY <1>3 DEF ColourStage, SweepNext, Sweeps, At
    <3> QED BY <1>0, <3>1, NowMade DEF CleanDo, RestDo
  <2> QED BY <1>3, <2>1, ColourTally, SweepTally
<1>4. CASE ColourNode(t) \/ StageCheck(t) \/ Unlock(t) \/ SweepEnd(t)
  <2>1. UNCHANGED <<verdict, missed, owed>>
    BY <1>4 DEF ColourNode, StageCheck, Unlock, SweepEnd, Sweeps
  <2> QED BY <1>1, <2>1
<1> QED BY <1>2, <1>3, <1>4, ResultTally, ResetTally DEF Works

-----------------------------------------------------------------------------
(* The parts of the invariant, for a step of a thread at work.             *)

LEMMA WorkSame ==
  ASSUME NEW t \in Threads, Works(t)
  PROVE  UNCHANGED <<bus, known, inst, surprises, pc, req, mine>>
  BY DEF Works, SendNext, Result, ColourNode, StageCheck, ColourStage, Reset, Unlock, SweepNext,
         SweepEnd, Sweeps, envVars, askVars

LEMMA WorkClean ==
  ASSUME CommandsInv, NEW t \in Threads, Works(t)
  PROVE  CleanInv'
<1> USE DEF CommandsInv
<1>1. UNCHANGED <<pc, req>> /\ pc[t] = "busy"
  BY WorkSame, WorkShape
<1>2. /\ \A u \in Threads \ {t} :
           todo'[u] = todo[u] /\ verdict'[u] = verdict[u] /\ missed'[u] = missed[u]
      /\ todo[t] \in Seq(Made(CleanDo)) => todo'[t] \in Seq(Made(CleanDo)) /\ Spoils(t)
  BY WorkTodo, WorkTally DEF Tally
<1>3. ASSUME NEW u \in Threads \ {t}
      PROVE  /\ pc'[u] = "free" => missed'[u] = FALSE
             /\ pc'[u] = "busy" /\ Clean(req'[u]) =>
                  /\ todo'[u] \in Seq(Made(CleanDo))
                  /\ missed'[u] = TRUE => verdict'[u] = "bad"
  BY <1>1, <1>2 DEF CleanInv
<1>4. /\ pc'[t] # "free"
      /\ Clean(req'[t]) => /\ todo'[t] \in Seq(Made(CleanDo))
                           /\ missed'[t] = TRUE => verdict'[t] = "bad"
  BY <1>1, <1>2 DEF CleanInv, Spoils
<1>5. ASSUME NEW u \in Threads
      PROVE  /\ pc'[u] = "free" => missed'[u] = FALSE
             /\ pc'[u] = "busy" /\ Clean(req'[u]) =>
                  /\ todo'[u] \in Seq(Made(CleanDo))
                  /\ missed'[u] = TRUE => verdict'[u] = "bad"
  BY <1>3, <1>4
<1> QED BY <1>5 DEF CleanInv

LEMMA WorkOwed ==
  ASSUME CommandsInv, NEW t \in Threads, Works(t)
  PROVE  OwedInv'
<1>1. UNCHANGED bus
  BY WorkSame
<1>2. \A u \in Threads : owed'[u] \subseteq owed[u]
  BY WorkTally DEF Tally, CommandsInv
<1> QED BY <1>1, <1>2 DEF CommandsInv, OwedInv, InService

(* The walk of a hide token.                                               *)
TokenAt(t) ==
  \/ Len(todo[t]) = 1 /\ todo[t][1].do = "sweep" /\ todo[t][1].to \cap owed[t] = {}
  \/ owed[t] = {} /\ todo[t] \in {Do("good"), <<>>}

LEMMA TailOfOne ==
  ASSUME NEW X, NEW s \in Seq(X), Len(s) = 1
  PROVE  Tail(s) = <<>>
<1>1. Tail(s) \in Seq(X) /\ Len(Tail(s)) = 0
  OBVIOUS
<1> QED BY <1>1, EmptySeq

LEMMA TokenWalk ==
  ASSUME CommandsInv, NEW t \in Threads, SweepNext(t), Len(todo[t]) = 1, Now(t).do = "sweep",
         Now(t).to \cap owed[t] = {}
  PROVE  TokenAt(t)'
<1> USE DEF CommandsInv
<1>1. todo[t] # <<>>
  BY Busy DEF SweepNext, Sweeps
<1>2. PICK b \in InService :
        /\ Becomes(t, <<[Now(t) EXCEPT !.to = @ \cup {b}]>>)
        /\ IF Connected(b) THEN Sent(t, b, Accepts(b)) ELSE UNCHANGED owed
  <2>1. Now(t).do # "display"
    OBVIOUS
  <2> QED BY <2>1 DEF SweepNext
<1> DEFINE X == Now(t).to \cup {b}
           x == [Now(t) EXCEPT !.to = X]
<1>3. Now(t) \in Made(AllDo) /\ X \in SUBSET Bridges /\ b \in Bridges
  BY <1>1, <1>2, NowType, StepsMade DEF InService
<1>4. x.do = "sweep" /\ x.to = X
  BY <1>3, StepExcept
<1>5. todo'[t] = <<x>> \o Tail(todo[t])
  BY <1>2 DEF Becomes, TypeOK
<1>6. Tail(todo[t]) = <<>>
  BY TailOfOne DEF TypeOK
<1>7. Len(todo'[t]) = 1 /\ todo'[t][1] = x
  BY <1>5, <1>6
<1>8. owed'[t] \subseteq owed[t] /\ b \notin owed'[t]
  <2>1. owed'[t] \subseteq owed[t]
    BY WorkTally DEF Works, Tally
  <2>2. CASE bus[b] = "up"
    <3>1. Sent(t, b, Accepts(b)) /\ Accepts(b)
      BY <1>2, <2>2 DEF Connected, Accepts
    <3>2. owed'[t] = owed[t] \ {b}
      BY <3>1 DEF Sent, TypeOK
    <3> QED BY <2>1, <3>2
  <2>3. CASE bus[b] # "up"
    BY <2>1, <2>3 DEF OwedInv
  <2> QED BY <2>2, <2>3
<1> HIDE DEF x
<1>9. x.to \cap owed'[t] = {}
  BY <1>4, <1>8
<1> QED BY <1>4, <1>7, <1>9 DEF TokenAt

LEMMA TokenArrives ==
  ASSUME CommandsInv, NEW t \in Threads, SweepEnd(t), Len(todo[t]) = 1, Now(t).do = "sweep",
         Now(t).to \cap owed[t] = {}
  PROVE  TokenAt(t)'
<1> USE DEF CommandsInv
<1>1. InService \subseteq Now(t).to /\ UNCHANGED owed
  BY DEF SweepEnd, Sweeps
<1>2. owed[t] = {}
  <2>1. owed[t] \subseteq InService
    BY DEF OwedInv, InService, TypeOK
  <2> QED BY <1>1, <2>1
<1>3. Becomes(t, Do("good"))
  BY DEF SweepEnd, Sweeps
<1>4. todo'[t] = Do("good") \o Tail(todo[t])
  BY <1>3 DEF Becomes, TypeOK
<1>5. Tail(todo[t]) = <<>>
  BY TailOfOne DEF TypeOK
<1>6. Do("good") \in Seq(Steps)
  BY DoType, StepsMade DEF AllDo
<1>7. todo'[t] = Do("good")
  BY <1>4, <1>5, <1>6
<1> QED BY <1>1, <1>2, <1>7 DEF TokenAt

LEMMA WorkToken ==
  ASSUME CommandsInv, NEW t \in Threads, Works(t)
  PROVE  TokenInv'
<1> USE DEF CommandsInv
<1>0. todo[t] # <<>> /\ pc[t] = "busy"
  BY WorkShape
<1>1. UNCHANGED <<pc, req>>
  BY WorkSame
<1>2. \A u \in Threads \ {t} : todo'[u] = todo[u] /\ owed'[u] = owed[u]
  BY WorkTodo, WorkTally DEF Tally
<1>3. ASSUME TokenAt(t)
      PROVE  TokenAt(t)'
  <2>1. CASE Len(todo[t]) = 1 /\ todo[t][1].do = "sweep" /\ todo[t][1].to \cap owed[t] = {}
    <3>1. Now(t) = todo[t][1] /\ Now(t).do = "sweep"
      BY <2>1 DEF Now, TypeOK
    <3>2. SweepNext(t) \/ SweepEnd(t)
      BY <3>1 DEF Works, SendNext, Result, ColourNode, StageCheck, ColourStage, Reset, Unlock, At
    <3> QED BY <2>1, <3>1, <3>2, TokenWalk, TokenArrives
  <2>2. CASE owed[t] = {} /\ todo[t] = Do("good")
    <3>1. Now(t).do = "good" /\ Tail(todo[t]) = <<>>
      BY <2>2 DEF Now, Do, Step
    <3>2. Result(t)
      BY <3>1 DEF Works, SendNext, ColourNode, StageCheck, ColourStage, Reset, Unlock, SweepNext,
                  SweepEnd, Sweeps, At
    <3>3. todo'[t] = <<>>
      BY <3>1, <3>2 DEF Result, Onward, TypeOK
    <3>4. owed'[t] = {}
      BY <2>2, <3>2, ResultTally
    <3> QED BY <3>3, <3>4 DEF TokenAt
  <2> QED BY <1>0, <1>3, <2>1, <2>2 DEF TokenAt
<1>4. \A u \in Threads : pc[u] = "busy" /\ Token(req[u]) => TokenAt(u)
  BY DEF TokenInv, TokenAt
<1>5. \A u \in Threads \ {t} : TokenAt(u)' <=> TokenAt(u)
  BY <1>2 DEF TokenAt
<1>6. \A u \in Threads : pc'[u] = "busy" /\ Token(req'[u]) => TokenAt(u)'
  BY <1>1, <1>3, <1>4, <1>5
<1> QED BY <1>6 DEF TokenInv, TokenAt

-----------------------------------------------------------------------------
(* The lock of a stage.                                                    *)

StageType ==
  /\ lock \in [Instances -> [Bridges -> BOOLEAN]]
  /\ epoch \in [Instances -> [Bridges -> Nat]]
  /\ coloured \in [Instances -> [Bridges -> BOOLEAN]]

(* Of the other threads nothing changes.                                   *)
LEMMA OthersSame ==
  ASSUME CommandsInv, NEW t \in Threads, Works(t)
  PROVE  \A u \in Threads \ {t} :
           /\ At(u, "colour")' <=> At(u, "colour")
           /\ Now(u)' = Now(u) /\ mine'[u] = mine[u]
           /\ \A b : Pending(u, b)' <=> Pending(u, b)
<1>1. UNCHANGED <<pc, mine>> /\ \A u \in Threads \ {t} : todo'[u] = todo[u]
  BY WorkSame, WorkTodo
<1>2. ASSUME NEW u \in Threads \ {t}
      PROVE  (At(u, "colour")' <=> At(u, "colour")) /\ Now(u)' = Now(u)
  BY <1>1 DEF At, Now
<1> QED BY <1>1, <1>2 DEF Pending

LEMMA NotPending ==
  ASSUME CommandsInv, NEW t \in Threads, Works(t), ~ StageCheck(t)
  PROVE  ~ At(t, "colour")'
<1>1. ~ At(t, "stage")
  BY DEF Works, SendNext, Result, ColourNode, ColourStage, Reset, Unlock, SweepNext, SweepEnd,
         Sweeps, At
<1> QED BY <1>1, WorkTodo

LEMMA StageQuiet ==
  ASSUME CommandsInv, NEW t \in Threads, Works(t), ~ StageCheck(t), UNCHANGED stageVars
  PROVE  StageInv'
<1>1. ~ At(t, "colour")'
  BY NotPending
<1>2. \A u \in Threads \ {t} :
        /\ Now(u)' = Now(u) /\ mine'[u] = mine[u]
        /\ \A b : Pending(u, b)' <=> Pending(u, b)
  BY OthersSame
<1>3. \A b : ~ Pending(t, b)'
  BY <1>1 DEF Pending
<1>4. UNCHANGED <<lock, epoch, coloured>>
  BY DEF stageVars
<1> QED BY <1>2, <1>3, <1>4 DEF StageInv, LockCovers, PendingHolds, MarksDiffer, CommandsInv

LEMMA TakesLock ==
  ASSUME CommandsInv, NEW t \in Threads, StageCheck(t)
  PROVE  StageInv' /\ StageType'
<1> USE DEF CommandsInv
<1>1. todo[t] # <<>> /\ At(t, "stage") /\ Works(t)
  BY Busy DEF StageCheck, Works
<1> DEFINE m == mine[t]
<1>2. m \in Instances
  BY <1>1, StageOwner
<1>3. PICK b \in Now(t).to :
        /\ lock' = [lock EXCEPT ![m][b] = TRUE]
        /\ \/ lock[m][b] = TRUE /\ Onward(t)
           \/ lock[m][b] # TRUE /\ Becomes(t, <<Step("colour", {b}, 0, epoch[m][b])>>)
  BY DEF StageCheck
<1>4. b \in Bridges
  BY <1>1, <1>3, NowType
<1>5. StageType /\ UNCHANGED <<epoch, coloured>>
  BY DEF TypeOK, StageType, StageCheck
<1>6. UNCHANGED <<pc, mine>>
  BY <1>1, WorkSame
<1> HIDE DEF m
<1>7. /\ lock' \in [Instances -> [Bridges -> BOOLEAN]] /\ lock'[m][b] = TRUE
      /\ \A i \in Instances : \A c \in Bridges : lock[i][c] = TRUE => lock'[i][c] = TRUE
  BY <1>2, <1>3, <1>4, <1>5 DEF StageType
<1>8. \A u \in Threads \ {t} :
        /\ Now(u)' = Now(u) /\ mine'[u] = mine[u]
        /\ \A c : Pending(u, c)' <=> Pending(u, c)
  BY <1>1, OthersSame
<1>9. \A i \in Instances : \A c \in Bridges : coloured'[i][c] = TRUE => lock'[i][c] = TRUE
  BY <1>5, <1>7 DEF StageInv, LockCovers, PendingHolds, MarksDiffer
<1>10. ASSUME NEW u \in Threads \ {t}, NEW c \in Bridges, Pending(u, c)'
       PROVE  /\ mine'[u] \in Instances
              /\ Now(u)'.mark <= epoch'[mine'[u]][c]
              /\ Now(u)'.mark = epoch'[mine'[u]][c] =>
                   lock'[mine'[u]][c] = TRUE /\ coloured'[mine'[u]][c] = FALSE
  BY <1>5, <1>7, <1>8, <1>10 DEF StageInv, LockCovers, PendingHolds, MarksDiffer
<1>11. CASE lock[m][b] = TRUE /\ Onward(t)
  <2>1. ~ At(t, "colour")'
    <3>1. Tail(todo[t]) \in Seq(Made(PlanDo)) /\ todo'[t] = Tail(todo[t])
      BY <1>1, <1>11 DEF TodoInv, Onward, TypeOK
    <3>2. ASSUME todo'[t] # <<>>
          PROVE  Head(todo'[t]) \in Made(PlanDo)
      BY <3>1, <3>2
    <3> QED BY <3>2 DEF At, Now, Made, PlanDo, FreeDo, RestDo
  <2>2. \A c : ~ Pending(t, c)'
    BY <2>1 DEF Pending
  <2>3. LockCovers'
    BY <1>9 DEF LockCovers
  <2>4. PendingHolds'
    BY <1>10, <2>2 DEF PendingHolds
  <2>5. MarksDiffer'
    BY <1>8, <2>2 DEF StageInv, MarksDiffer
  <2> QED BY <1>5, <1>7, <2>3, <2>4, <2>5 DEF StageInv, StageType
<1>12. CASE lock[m][b] # TRUE /\ Becomes(t, <<Step("colour", {b}, 0, epoch[m][b])>>)
  <2> DEFINE x == Step("colour", {b}, 0, epoch[m][b])
  <2>1. epoch[m][b] \in Nat /\ coloured[m][b] = FALSE
    <3>1. epoch[m][b] \in Nat /\ coloured[m][b] \in BOOLEAN
      BY <1>2, <1>4, <1>5 DEF StageType
    <3>2. coloured[m][b] # TRUE
      BY <1>2, <1>4, <1>12 DEF StageInv, LockCovers
    <3> QED BY <3>1, <3>2
  <2>2. x \in Steps /\ x.to = {b} /\ x.mark = epoch[m][b]
    BY <1>4, <2>1, OneMade DEF AllDo
  <2>3. todo'[t] = <<x>> \o Tail(todo[t])
    BY <1>12 DEF Becomes, TypeOK
  <2>4. Tail(todo[t]) \in Seq(Steps)
    BY <1>1, NowType
  <2> HIDE DEF x
  <2>5. Now(t)' = x
    BY <2>2, <2>3, <2>4 DEF Now
  <2>6. \A c : Pending(t, c)' => c = b
    BY <2>2, <2>5 DEF Pending
  <2>7. mine'[t] = m
    BY <1>6 DEF m
  <2>8. ASSUME NEW c \in Bridges, Pending(t, c)'
        PROVE  /\ mine'[t] \in Instances
               /\ Now(t)'.mark <= epoch'[mine'[t]][c]
               /\ Now(t)'.mark = epoch'[mine'[t]][c] =>
                    lock'[mine'[t]][c] = TRUE /\ coloured'[mine'[t]][c] = FALSE
    BY <1>2, <1>5, <1>7, <2>1, <2>2, <2>5, <2>6, <2>7, <2>8
  <2>9. ASSUME NEW u \in Threads \ {t}, Pending(u, b), mine[u] = m
        PROVE  Now(u).mark # epoch[m][b]
    BY <1>4, <1>12, <2>9 DEF StageInv, LockCovers, PendingHolds, MarksDiffer
  <2>10. ASSUME NEW u \in Threads, NEW v \in Threads, NEW c \in Bridges,
                Pending(u, c)', Pending(v, c)', mine'[u] = mine'[v], u # v
         PROVE  Now(u)'.mark # Now(v)'.mark
    <3>1. CASE u = t
      BY <1>8, <2>2, <2>5, <2>6, <2>7, <2>9, <2>10, <3>1
    <3>2. CASE v = t
      BY <1>8, <2>2, <2>5, <2>6, <2>7, <2>9, <2>10, <3>2
    <3>3. CASE u # t /\ v # t
      BY <1>8, <2>10, <3>3 DEF StageInv, LockCovers, PendingHolds, MarksDiffer
    <3> QED BY <3>1, <3>2, <3>3
  <2>11. LockCovers'
    BY <1>9 DEF LockCovers
  <2>12. PendingHolds'
    BY <1>10, <2>8 DEF PendingHolds
  <2>13. MarksDiffer'
    BY <2>10 DEF MarksDiffer
  <2> QED BY <1>5, <1>7, <2>11, <2>12, <2>13 DEF StageInv, StageType
<1> QED BY <1>3, <1>11, <1>12

LEMMA ColoursStage ==
  ASSUME CommandsInv, NEW t \in Threads, ColourStage(t)
  PROVE  StageInv' /\ StageType'
<1> USE DEF CommandsInv
<1>1. todo[t] # <<>> /\ At(t, "colour") /\ Works(t) /\ ~ StageCheck(t)
  BY Busy DEF ColourStage, StageCheck, Works, At
<1> DEFINE m == mine[t]
           k == Now(t).mark
<1>2. m \in Instances
  BY <1>1, StageOwner
<1>3. PICK b \in Now(t).to :
        coloured' = [coloured EXCEPT ![m][b] = @ \/ k = epoch[m][b]]
  BY DEF ColourStage
<1>4. b \in Bridges /\ Pending(t, b)
  BY <1>1, <1>3, NowType DEF Pending
<1>5. StageType /\ UNCHANGED <<lock, epoch>>
  BY DEF TypeOK, StageType, ColourStage
<1>6. k = epoch[m][b] =>
        /\ lock[m][b] = TRUE
        /\ \A u \in Threads \ {t} : Pending(u, b) /\ mine[u] = m => Now(u).mark # k
  BY <1>4 DEF StageInv, LockCovers, PendingHolds, MarksDiffer
<1>7. \A u \in Threads \ {t} :
        /\ Now(u)' = Now(u) /\ mine'[u] = mine[u]
        /\ \A c : Pending(u, c)' <=> Pending(u, c)
  BY <1>1, OthersSame
<1>8. \A c : ~ Pending(t, c)'
  BY <1>1, NotPending DEF Pending
<1> HIDE DEF m, k
<1>9. CASE k # epoch[m][b]
  <2>1. coloured' = coloured
    <3>1. coloured[m][b] \in BOOLEAN
      BY <1>2, <1>4, <1>5 DEF StageType
    <3>2. (coloured[m][b] \/ k = epoch[m][b]) = coloured[m][b]
      BY <1>9, <3>1
    <3>3. coloured' = [coloured EXCEPT ![m] = [coloured[m] EXCEPT ![b] = coloured[m][b]]]
      BY <1>3, <3>2
    <3> QED BY <1>2, <1>4, <1>5, <3>3 DEF StageType
  <2> QED BY <1>5, <1>7, <1>8, <2>1 DEF StageInv, LockCovers, PendingHolds, MarksDiffer, StageType
<1>10. CASE k = epoch[m][b]
  <2>1. coloured' = [coloured EXCEPT ![m][b] = TRUE]
    BY <1>3, <1>10
  <2>2. /\ coloured' \in [Instances -> [Bridges -> BOOLEAN]]
        /\ \A i \in Instances : \A c \in Bridges :
             (i # m \/ c # b) => coloured'[i][c] = coloured[i][c]
    BY <1>2, <1>4, <1>5, <2>1 DEF StageType
  <2>3. \A i \in Instances : \A c \in Bridges : coloured'[i][c] = TRUE => lock'[i][c] = TRUE
    BY <1>5, <1>6, <1>10, <2>2 DEF StageInv, LockCovers, PendingHolds, MarksDiffer
  <2>4. ASSUME NEW u \in Threads \ {t}, NEW c \in Bridges, Pending(u, c)'
        PROVE  /\ mine'[u] \in Instances
               /\ Now(u)'.mark <= epoch'[mine'[u]][c]
               /\ Now(u)'.mark = epoch'[mine'[u]][c] =>
                    lock'[mine'[u]][c] = TRUE /\ coloured'[mine'[u]][c] = FALSE
    BY <1>5, <1>6, <1>7, <1>10, <2>2, <2>4 DEF StageInv, LockCovers, PendingHolds, MarksDiffer
  <2>5. ASSUME NEW u \in Threads, NEW v \in Threads, NEW c \in Bridges,
               Pending(u, c)', Pending(v, c)', mine'[u] = mine'[v], u # v
        PROVE  Now(u)'.mark # Now(v)'.mark
    BY <1>7, <1>8, <2>5 DEF StageInv, LockCovers, PendingHolds, MarksDiffer
  <2>6. LockCovers'
    BY <2>3 DEF LockCovers
  <2>7. PendingHolds'
    BY <1>8, <2>4 DEF PendingHolds
  <2>8. MarksDiffer'
    BY <2>5 DEF MarksDiffer
  <2> QED BY <1>5, <2>2, <2>6, <2>7, <2>8 DEF StageInv, StageType
<1> QED BY <1>9, <1>10

LEMMA OpensLock ==
  ASSUME CommandsInv, NEW t \in Threads, Unlock(t)
  PROVE  StageInv' /\ StageType'
<1> USE DEF CommandsInv
<1>1. todo[t] # <<>> /\ At(t, "unlock") /\ Works(t) /\ ~ StageCheck(t)
  BY Busy DEF Unlock, StageCheck, Works, At
<1> DEFINE m == mine[t]
<1>2. m \in Instances
  BY <1>1, StageOwner
<1>3. PICK b \in Now(t).to :
        /\ lock' = [lock EXCEPT ![m][b] = FALSE]
        /\ epoch' = [epoch EXCEPT ![m][b] = @ + 1]
        /\ coloured' = [coloured EXCEPT ![m][b] = FALSE]
  BY DEF Unlock
<1>4. b \in Bridges
  BY <1>1, <1>3, NowType
<1>5. StageType
  BY DEF TypeOK, StageType
<1>6. \A u \in Threads \ {t} :
        /\ Now(u)' = Now(u) /\ mine'[u] = mine[u]
        /\ \A c : Pending(u, c)' <=> Pending(u, c)
  BY <1>1, OthersSame
<1>7. \A c : ~ Pending(t, c)'
  BY <1>1, NotPending DEF Pending
<1>8. \A u \in Threads : todo[u] # <<>> => Now(u).mark \in Nat
  BY NowType
<1> HIDE DEF m
<1>9. /\ StageType' /\ epoch'[m][b] = epoch[m][b] + 1 /\ epoch[m][b] \in Nat
      /\ coloured'[m][b] = FALSE
      /\ \A i \in Instances : \A c \in Bridges : (i # m \/ c # b) =>
           /\ lock'[i][c] = lock[i][c] /\ epoch'[i][c] = epoch[i][c]
           /\ coloured'[i][c] = coloured[i][c]
  <2>1. epoch[m][b] \in Nat /\ epoch[m][b] + 1 \in Nat
    BY <1>2, <1>4, <1>5 DEF StageType
  <2>2. lock' \in [Instances -> [Bridges -> BOOLEAN]]
    BY <1>2, <1>3, <1>4, <1>5 DEF StageType
  <2>3. coloured' \in [Instances -> [Bridges -> BOOLEAN]] /\ coloured'[m][b] = FALSE
    BY <1>2, <1>3, <1>4, <1>5 DEF StageType
  <2>4. epoch' \in [Instances -> [Bridges -> Nat]] /\ epoch'[m][b] = epoch[m][b] + 1
    BY <1>2, <1>3, <1>4, <1>5, <2>1 DEF StageType
  <2>5. \A i \in Instances : \A c \in Bridges : (i # m \/ c # b) =>
          lock'[i][c] = lock[i][c]
    BY <1>2, <1>3, <1>4, <1>5 DEF StageType
  <2>6. \A i \in Instances : \A c \in Bridges : (i # m \/ c # b) =>
          epoch'[i][c] = epoch[i][c]
    BY <1>2, <1>3, <1>4, <1>5 DEF StageType
  <2>7. \A i \in Instances : \A c \in Bridges : (i # m \/ c # b) =>
          coloured'[i][c] = coloured[i][c]
    BY <1>2, <1>3, <1>4, <1>5 DEF StageType
  <2> QED BY <2>1, <2>2, <2>3, <2>4, <2>5, <2>6, <2>7 DEF StageType
<1>10. \A i \in Instances : \A c \in Bridges : coloured'[i][c] = TRUE => lock'[i][c] = TRUE
  BY <1>9 DEF StageInv, LockCovers, PendingHolds, MarksDiffer
<1>11. ASSUME NEW u \in Threads \ {t}, NEW c \in Bridges, Pending(u, c)'
       PROVE  /\ mine'[u] \in Instances
              /\ Now(u)'.mark <= epoch'[mine'[u]][c]
              /\ Now(u)'.mark = epoch'[mine'[u]][c] =>
                   lock'[mine'[u]][c] = TRUE /\ coloured'[mine'[u]][c] = FALSE
  <2>1. /\ mine[u] \in Instances /\ Now(u).mark <= epoch[mine[u]][c]
        /\ Now(u).mark = epoch[mine[u]][c] =>
             lock[mine[u]][c] = TRUE /\ coloured[mine[u]][c] = FALSE
        /\ Now(u)' = Now(u) /\ mine'[u] = mine[u]
    BY <1>6, <1>11 DEF StageInv, LockCovers, PendingHolds, MarksDiffer
  <2>2. CASE mine[u] = m /\ c = b
    <3>1. Now(u).mark \in Nat
      BY <1>6, <1>8, <1>11, Busy DEF Pending
    <3> QED BY <1>9, <2>1, <2>2, <3>1
  <2>3. CASE ~ (mine[u] = m /\ c = b)
    BY <1>9, <2>1, <2>3
  <2> QED BY <2>2, <2>3
<1>12. ASSUME NEW u \in Threads, NEW v \in Threads, NEW c \in Bridges,
              Pending(u, c)', Pending(v, c)', mine'[u] = mine'[v], u # v
       PROVE  Now(u)'.mark # Now(v)'.mark
  BY <1>6, <1>7, <1>12 DEF StageInv, LockCovers, PendingHolds, MarksDiffer
<1>13. LockCovers'
  BY <1>10 DEF LockCovers
<1>14. PendingHolds'
  BY <1>7, <1>11 DEF PendingHolds
<1>15. MarksDiffer'
  BY <1>12 DEF MarksDiffer
<1> QED BY <1>9, <1>13, <1>14, <1>15 DEF StageInv

LEMMA WorkStage ==
  ASSUME CommandsInv, NEW t \in Threads, Works(t)
  PROVE  StageInv' /\ StageType'
<1>1. CASE UNCHANGED stageVars /\ ~ StageCheck(t)
  BY <1>1, StageQuiet DEF CommandsInv, TypeOK, StageType, stageVars
<1>2. CASE SendNext(t) \/ Result(t) \/ ColourNode(t) \/ Reset(t) \/ SweepNext(t) \/ SweepEnd(t)
  <2>1. UNCHANGED stageVars /\ ~ StageCheck(t)
    BY <1>2 DEF SendNext, Result, ColourNode, Reset, SweepNext, SweepEnd, Sweeps, StageCheck, At
  <2> QED BY <1>1, <2>1
<1> QED BY <1>2, TakesLock, ColoursStage, OpensLock DEF Works

-----------------------------------------------------------------------------
(* Every step keeps the invariant.                                         *)

LEMMA WorkKeeps ==
  ASSUME CommandsInv, NEW t \in Threads, Works(t)
  PROVE  CommandsInv'
<1>1. TallyType' /\ StageType' /\ todo' \in [Threads -> Seq(Steps)]
  BY WorkTally, WorkStage, WorkTodo DEF Tally, CommandsInv
<1>2. UNCHANGED <<bus, known, inst, surprises, pc, req, mine>>
  BY WorkSame
<1>3. TypeOK'
  BY <1>1, <1>2 DEF CommandsInv, TypeOK, TallyType, StageType
<1>4. TodoInv' /\ OwnInv' /\ CleanInv' /\ OwedInv' /\ TokenInv' /\ StageInv'
  BY WorkTodo, WorkClean, WorkOwed, WorkToken, WorkStage
<1> QED BY <1>3, <1>4 DEF CommandsInv

(* The stages, when a thread comes or goes.                                *)
LEMMA StageFrame ==
  ASSUME StageInv, NEW t \in Threads, UNCHANGED stageVars, ~ At(t, "colour")',
         \A u \in Threads \ {t} : pc'[u] = pc[u] /\ todo'[u] = todo[u] /\ mine'[u] = mine[u]
  PROVE  StageInv'
<1>1. ASSUME NEW u \in Threads \ {t}
      PROVE  (At(u, "colour")' <=> At(u, "colour")) /\ Now(u)' = Now(u)
  BY DEF At, Now
<1>2. \A u \in Threads \ {t} : \A b : Pending(u, b)' <=> Pending(u, b)
  BY <1>1 DEF Pending
<1>3. \A b : ~ Pending(t, b)'
  BY DEF Pending
<1>4. LockCovers'
  BY DEF StageInv, LockCovers, stageVars
<1>5. PendingHolds'
  BY <1>1, <1>2, <1>3 DEF StageInv, PendingHolds, stageVars
<1>6. MarksDiffer'
  BY <1>1, <1>2, <1>3 DEF StageInv, MarksDiffer
<1> QED BY <1>4, <1>5, <1>6 DEF StageInv

LEMMA AskKeeps ==
  ASSUME CommandsInv, NEW t \in Threads, Ask(t)
  PROVE  CommandsInv'
<1> USE DEF CommandsInv
<1>1. PICK r \in Requests[t] :
        /\ pc[t] = "free"
        /\ pc' = [pc EXCEPT ![t] = "busy"] /\ req' = [req EXCEPT ![t] = r]
        /\ todo' = [todo EXCEPT ![t] = Plan(r)] /\ mine' = [mine EXCEPT ![t] = inst]
        /\ owed' = [owed EXCEPT ![t] = {b \in Bridges : Accepts(b)}]
        /\ UNCHANGED <<envVars, stageVars, verdict, missed>>
  BY DEF Ask
<1>2. r \in Bodies
  BY <1>1, RequestAssumption
<1> DEFINE p == Plan(r)
           due == {b \in Bridges : Accepts(b)}
<1>3. /\ p \in Seq(Made(PlanDo))
      /\ inst = 0 => p \in Seq(Made(FreeDo))
      /\ Clean(r) => p \in Seq(Made(CleanDo))
      /\ Token(r) => p = <<Step("sweep", {}, 0, Cardinality(InService))>>
  BY <1>2, PlanType
<1>4. due \in SUBSET Bridges /\ \A b \in due : bus[b] = "up"
  BY DEF Accepts
<1>5. todo' = [todo EXCEPT ![t] = p] /\ owed' = [owed EXCEPT ![t] = due]
  BY <1>1
<1> HIDE DEF p, due
<1>6. p \in Seq(Steps) /\ (p # <<>> => Tail(p) \in Seq(Made(PlanDo)) /\ Head(p) \in Made(PlanDo))
  <2>1. Made(PlanDo) \subseteq Steps
    BY DEF Made
  <2>2. p \in Seq(Steps)
    BY <1>3, <2>1
  <2>3. p # <<>> => Tail(p) \in Seq(Made(PlanDo)) /\ Head(p) \in Made(PlanDo)
    BY <1>3
  <2> QED BY <2>2, <2>3
<1>7. /\ pc'[t] = "busy" /\ req'[t] = r /\ todo'[t] = p /\ mine'[t] = inst /\ owed'[t] = due
      /\ \A u \in Threads \ {t} :
           /\ pc'[u] = pc[u] /\ req'[u] = req[u] /\ todo'[u] = todo[u] /\ mine'[u] = mine[u]
           /\ owed'[u] = owed[u]
  BY <1>1, <1>5 DEF TypeOK
<1>8. UNCHANGED <<bus, known, inst, surprises, lock, epoch, coloured, verdict, missed>>
  BY <1>1 DEF envVars, stageVars
<1>9. TypeOK'
  <2>1. /\ pc' \in [Threads -> {"free", "busy", "dead"} \cup Answers]
        /\ req' \in [Threads -> Bodies \cup {<<>>}]
    BY <1>1, <1>2 DEF TypeOK
  <2>2. todo' \in [Threads -> Seq(Steps)] /\ mine' \in [Threads -> 0 .. MaxActivations]
    BY <1>1, <1>5, <1>6 DEF TypeOK
  <2>3. owed' \in [Threads -> SUBSET Bridges]
    BY <1>4, <1>5 DEF TypeOK
  <2> QED BY <1>8, <2>1, <2>2, <2>3 DEF TypeOK
<1>10. TodoInv' /\ OwnInv'
  <2>1. TodoInv'
    BY <1>6, <1>7 DEF TodoInv
  <2>2. OwnInv'
    BY <1>3, <1>7 DEF OwnInv, p
  <2> QED BY <2>1, <2>2
<1>11. CleanInv'
  <2>1. missed[t] = FALSE
    BY <1>1 DEF CleanInv
  <2>2. Clean(r) => p \in Seq(Made(CleanDo))
    BY <1>3
  <2> QED BY <1>7, <1>8, <2>1, <2>2 DEF CleanInv
<1>12. OwedInv'
  BY <1>4, <1>7, <1>8 DEF OwedInv, InService
<1>13. TokenInv'
  <2>1. Token(r) => Len(p) = 1 /\ p[1].do = "sweep" /\ p[1].to = {}
    BY <1>3 DEF Step
  <2>2. Token(req'[t]) => /\ Len(todo'[t]) = 1 /\ todo'[t][1].do = "sweep"
                          /\ todo'[t][1].to \cap owed'[t] = {}
    BY <1>7, <2>1
  <2> QED BY <1>7, <2>2 DEF TokenInv
<1>14. StageInv'
  <2>1. ~ At(t, "colour")'
    BY <1>6, <1>7 DEF At, Now, Made, PlanDo, FreeDo, RestDo
  <2> QED BY <1>7, <1>8, <2>1, StageFrame DEF stageVars
<1> QED BY <1>9, <1>10, <1>11, <1>12, <1>13, <1>14

LEMMA ReplyKeeps ==
  ASSUME CommandsInv, NEW t \in Threads, NEW answer \in Answers \cup {"dead"}, Reply(t, answer)
  PROVE  CommandsInv'
<1> USE DEF CommandsInv
<1>1. /\ pc' = [pc EXCEPT ![t] = answer] /\ req' = [req EXCEPT ![t] = <<>>]
      /\ todo' = [todo EXCEPT ![t] = <<>>] /\ mine' = [mine EXCEPT ![t] = 0]
      /\ verdict' = [verdict EXCEPT ![t] = "none"]
      /\ missed' = [missed EXCEPT ![t] = FALSE] /\ owed' = [owed EXCEPT ![t] = {}]
  BY DEF Reply
<1>2. UNCHANGED <<bus, known, inst, surprises, lock, epoch, coloured>>
  BY DEF Reply, envVars, stageVars
<1>3. TypeOK'
  <2>1. /\ pc' \in [Threads -> {"free", "busy", "dead"} \cup Answers]
        /\ req' \in [Threads -> Bodies \cup {<<>>}]
    BY <1>1 DEF TypeOK
  <2>2. todo' \in [Threads -> Seq(Steps)] /\ mine' \in [Threads -> 0 .. MaxActivations]
    BY <1>1, BoundAssumption DEF TypeOK
  <2>3. /\ owed' \in [Threads -> SUBSET Bridges] /\ missed' \in [Threads -> BOOLEAN]
        /\ verdict' \in [Threads -> {"none", "good", "bad"}]
    BY <1>1 DEF TypeOK
  <2> QED BY <1>2, <2>1, <2>2, <2>3 DEF TypeOK
<1>4. /\ pc'[t] \notin {"free", "busy"} /\ todo'[t] = <<>> /\ owed'[t] = {}
      /\ \A u \in Threads \ {t} :
           /\ pc'[u] = pc[u] /\ req'[u] = req[u] /\ todo'[u] = todo[u] /\ mine'[u] = mine[u]
           /\ owed'[u] = owed[u] /\ verdict'[u] = verdict[u] /\ missed'[u] = missed[u]
  BY <1>1 DEF TypeOK, Answers
<1>5. TodoInv' /\ OwnInv'
  <2>1. <<>> \in Seq(Made(FreeDo))
    OBVIOUS
  <2> QED BY <1>4, <2>1 DEF TodoInv, OwnInv
<1>6. CleanInv'
  BY <1>4 DEF CleanInv
<1>7. OwedInv'
  BY <1>2, <1>4 DEF OwedInv, InService
<1>8. TokenInv'
  BY <1>4 DEF TokenInv
<1>9. StageInv'
  <2>1. ~ At(t, "colour")'
    BY <1>4 DEF At
  <2> QED BY <1>2, <1>4, <2>1, StageFrame DEF stageVars
<1> QED BY <1>3, <1>5, <1>6, <1>7, <1>8, <1>9

LEMMA ThreadKeeps ==
  ASSUME CommandsInv, NEW t \in Threads, ThreadStep(t)
  PROVE  CommandsInv'
<1>1. CASE Works(t)
  BY <1>1, WorkKeeps
<1>2. CASE Crash(t) \/ Die(t) \/ Refuse(t) \/ Answer(t)
  <2>1. PICK answer \in Answers \cup {"dead"} : Reply(t, answer)
    BY <1>2 DEF Crash, Die, Refuse, Answer, Answers
  <2> QED BY <2>1, ReplyKeeps
<1> QED BY <1>1, <1>2 DEF ThreadStep, Works

-----------------------------------------------------------------------------
(* What happens meanwhile.                                                 *)

(* The parts of the invariant that speak of the threads only; they may owe *)
(* less than before.                                                       *)
LEMMA ThreadsFrame ==
  ASSUME CommandsInv, UNCHANGED stageVars, UNCHANGED threadsButOwed,
         \A t \in Threads : owed'[t] \subseteq owed[t]
  PROVE  TodoInv' /\ OwnInv' /\ CleanInv' /\ TokenInv' /\ StageInv'
<1> USE DEF CommandsInv
<1>1. UNCHANGED <<pc, req, todo, mine, verdict, missed, lock, epoch, coloured>>
  BY DEF stageVars, threadsButOwed
<1>2. TodoInv' /\ OwnInv' /\ CleanInv'
  BY <1>1 DEF TodoInv, OwnInv, CleanInv
<1>3. TokenInv'
  BY <1>1 DEF TokenInv
<1>4. LockCovers' /\ PendingHolds' /\ MarksDiffer'
  BY <1>1 DEF StageInv, LockCovers, PendingHolds, MarksDiffer, Pending, At, Now
<1> QED BY <1>2, <1>3, <1>4 DEF StageInv

LEMMA AddBridgeKeeps ==
  ASSUME CommandsInv, AddBridge
  PROVE  OwedInv' /\ bus' \in [Bridges -> {"none", "down", "up", "ota"}]
<1> USE DEF CommandsInv
<1>1. PICK k \in 0 .. MaxBridges : InService = 1 .. k
  BY DEF OwedInv
<1>2. Cardinality(InService) = k
  BY <1>1, FS_Interval
<1>3. k < MaxBridges
  BY <1>1, BoundAssumption DEF AddBridge, Bridges
<1>4. bus' = [bus EXCEPT ![k + 1] = "down"] /\ k + 1 \in Bridges
  BY <1>2, <1>3, BoundAssumption DEF AddBridge, Bridges
<1>5. bus' \in [Bridges -> {"none", "down", "up", "ota"}]
  BY <1>4 DEF TypeOK
<1>6. bus[k + 1] = "none"
  BY <1>1, <1>4 DEF InService
<1>7. InService' = InService \cup {k + 1}
  BY <1>4 DEF InService, TypeOK
<1>8. InService' = 1 .. k + 1 /\ k + 1 \in 0 .. MaxBridges
  BY <1>1, <1>3, <1>7, BoundAssumption
<1>9. UNCHANGED owed
  BY DEF AddBridge, threadVars
<1>10. \A t \in Threads : \A b \in owed'[t] : bus'[b] = "up"
  BY <1>4, <1>6, <1>9 DEF OwedInv, TypeOK
<1> QED BY <1>5, <1>8, <1>10 DEF OwedInv

(* A bridge that stays in service; whoever was owed a frame by it when it  *)
(* stops sending is no longer.                                             *)
LEMMA BridgeKeeps ==
  ASSUME CommandsInv, NEW b \in Bridges,
         \/ LinkUp(b) \/ Discover(b) \/ LinkDown(b) \/ UpdateStarts(b) \/ UpdateEnds(b)
  PROVE  /\ OwedInv' /\ bus' \in [Bridges -> {"none", "down", "up", "ota"}]
         /\ known' \in [Bridges -> SUBSET Addrs]
         /\ owed' \in [Threads -> SUBSET Bridges]
         /\ \A t \in Threads : owed'[t] \subseteq owed[t]
<1> USE DEF CommandsInv
<1>1. known' \in [Bridges -> SUBSET Addrs]
  BY DEF LinkUp, Discover, LinkDown, UpdateStarts, UpdateEnds, TypeOK
<1>2. /\ bus' \in [Bridges -> {"none", "down", "up", "ota"}] /\ bus[b] # "none" /\ bus'[b] # "none"
      /\ \A c \in Bridges \ {b} : bus'[c] = bus[c]
  BY DEF LinkUp, Discover, LinkDown, UpdateStarts, UpdateEnds, Connected, TypeOK
<1>3. InService' = InService
  BY <1>2 DEF InService
<1>4. /\ owed' \in [Threads -> SUBSET Bridges]
      /\ \A t \in Threads : owed'[t] \subseteq owed[t]
      /\ \A t \in Threads : bus'[b] = "up" \/ bus[b] # "up" \/ b \notin owed'[t]
  <2>1. CASE LinkDown(b) \/ UpdateStarts(b)
    <3>1. owed' = [t \in Threads |-> owed[t] \ {b}]
      BY <2>1 DEF LinkDown, UpdateStarts, Unsteady
    <3> QED BY <3>1 DEF TypeOK
  <2>2. CASE LinkUp(b) \/ Discover(b) \/ UpdateEnds(b)
    <3>1. UNCHANGED owed /\ (bus'[b] = "up" \/ UNCHANGED bus)
      BY <2>2 DEF LinkUp, Discover, UpdateEnds, threadVars, TypeOK
    <3>2. owed \in [Threads -> SUBSET Bridges]
      BY DEF TypeOK
    <3> QED BY <3>1, <3>2
  <2> QED BY <2>1, <2>2
<1>5. ASSUME NEW t \in Threads, NEW c \in owed'[t]
      PROVE  bus'[c] = "up"
  <2>1. c \in Bridges /\ c \in owed[t]
    BY <1>4, <1>5
  <2>2. bus[c] = "up"
    BY <2>1 DEF OwedInv
  <2>3. CASE c = b
    BY <1>4, <1>5, <2>2, <2>3
  <2>4. CASE c # b
    BY <1>2, <2>1, <2>2, <2>4
  <2> QED BY <2>3, <2>4
<1>6. OwedInv'
  BY <1>3, <1>5 DEF OwedInv
<1> QED BY <1>1, <1>2, <1>4, <1>6

LEMMA EnvironmentKeeps ==
  ASSUME CommandsInv,
         \/ AddBridge \/ SwitchOn
         \/ \E b \in Bridges :
              LinkUp(b) \/ Discover(b) \/ LinkDown(b) \/ UpdateStarts(b) \/ UpdateEnds(b)
  PROVE  CommandsInv'
<1> USE DEF CommandsInv
<1>1. UNCHANGED stageVars /\ UNCHANGED threadsButOwed
  BY DEF AddBridge, SwitchOn, LinkUp, Discover, LinkDown, UpdateStarts, UpdateEnds, threadVars,
         threadsButOwed
<1>2. inst' \in 0 .. MaxActivations /\ surprises' \in 0 .. MaxSurprises
  BY BoundAssumption
     DEF AddBridge, SwitchOn, LinkUp, Discover, LinkDown, UpdateStarts, UpdateEnds, TypeOK
<1>3. /\ OwedInv' /\ bus' \in [Bridges -> {"none", "down", "up", "ota"}]
      /\ known' \in [Bridges -> SUBSET Addrs] /\ owed' \in [Threads -> SUBSET Bridges]
      /\ \A t \in Threads : owed'[t] \subseteq owed[t]
  <2>1. CASE AddBridge
    <3>1. UNCHANGED <<known, owed>>
      BY <2>1 DEF AddBridge, threadVars
    <3>2. known \in [Bridges -> SUBSET Addrs] /\ owed \in [Threads -> SUBSET Bridges]
      BY DEF TypeOK
    <3> QED BY <2>1, <3>1, <3>2, AddBridgeKeeps
  <2>2. CASE SwitchOn
    <3>1. UNCHANGED <<bus, known, owed>>
      BY <2>2 DEF SwitchOn, threadVars
    <3>2. /\ bus \in [Bridges -> {"none", "down", "up", "ota"}]
          /\ known \in [Bridges -> SUBSET Addrs] /\ owed \in [Threads -> SUBSET Bridges]
      BY DEF TypeOK
    <3> QED BY <3>1, <3>2 DEF OwedInv, InService
  <2> QED BY <2>1, <2>2, BridgeKeeps
<1>4. TodoInv' /\ OwnInv' /\ CleanInv' /\ TokenInv' /\ StageInv'
  BY <1>1, <1>3, ThreadsFrame
<1>5. TypeOK'
  BY <1>1, <1>2, <1>3 DEF TypeOK, stageVars, threadsButOwed
<1> QED BY <1>3, <1>4, <1>5

LEMMA CommandsStep == CommandsInv /\ [Next]_vars => CommandsInv'
<1> SUFFICES ASSUME CommandsInv, [Next]_vars PROVE CommandsInv'
  OBVIOUS
<1>1. CASE UNCHANGED vars
  <2>1. UNCHANGED <<bus, known, inst, surprises, owed>> /\ UNCHANGED stageVars
        /\ UNCHANGED threadsButOwed
    BY <1>1 DEF vars, threadVars, threadsButOwed
  <2>2. TodoInv' /\ OwnInv' /\ CleanInv' /\ TokenInv' /\ StageInv'
    BY <2>1, ThreadsFrame
  <2>3. TypeOK'
    BY <2>1 DEF CommandsInv, TypeOK, stageVars, threadsButOwed
  <2>4. OwedInv'
    BY <2>1 DEF CommandsInv, OwedInv, InService
  <2> QED BY <2>2, <2>3, <2>4 DEF CommandsInv
<1> QED BY <1>1, ThreadKeeps, AskKeeps, EnvironmentKeeps DEF Next

LEMMA CommandsInit == Init => CommandsInv
<1> SUFFICES ASSUME Init PROVE CommandsInv
  OBVIOUS
<1>1. TypeOK
  BY BoundAssumption DEF Init, TypeOK
<1>2. \A t \in Threads : pc[t] = "free" /\ todo[t] = <<>> /\ missed[t] = FALSE /\ owed[t] = {}
  BY DEF Init
<1>3. TodoInv /\ CleanInv /\ TokenInv
  BY <1>2 DEF TodoInv, CleanInv, TokenInv
<1>4. OwnInv
  <2>1. <<>> \in Seq(Made(FreeDo))
    OBVIOUS
  <2> QED BY <1>2, <2>1 DEF OwnInv
<1>5. OwedInv
  <2>1. InService = 1 .. Ready /\ Ready \in 0 .. MaxBridges
    BY BoundAssumption DEF Init, InService, Bridges
  <2> QED BY <1>2, <2>1 DEF OwedInv
<1>6. StageInv
  <2>1. \A t \in Threads : \A b : ~ Pending(t, b)
    BY <1>2 DEF Pending, At
  <2>2. LockCovers
    BY DEF Init, LockCovers
  <2> QED BY <2>1, <2>2 DEF StageInv, PendingHolds, MarksDiffer
<1> QED BY <1>1, <1>3, <1>4, <1>5, <1>6 DEF CommandsInv

LEMMA CommandsInvariant == Spec => []CommandsInv
  BY CommandsInit, CommandsStep, PTL DEF Spec

-----------------------------------------------------------------------------
(* What the steps of a thread are, whom it owes a frame and what its locks *)
(* count stays of its type, for any requests and any number of threads.    *)
THEOREM CommandTypes == Spec => []TypeOK
<1>1. CommandsInv => TypeOK
  BY DEF CommandsInv
<1> QED BY <1>1, CommandsInvariant, PTL

(* Between two openings of its lock the stage of a bridge is coloured at   *)
(* most once, although the frame is sent after _lock has been released     *)
(* (_set_node_color).                                                      *)
THEOREM StageIsColouredOnce == Spec => []StageColouredOnce
<1>1. CommandsInv => StageColouredOnce
  <2> SUFFICES ASSUME CommandsInv, NEW t \in Threads, At(t, "colour"), NEW b \in Now(t).to
               PROVE  /\ Now(t).mark = epoch[mine[t]][b] => ~ coloured[mine[t]][b]
                      /\ \A u \in Threads \ {t} :
                           At(u, "colour") /\ mine[u] = mine[t] /\ b \in Now(u).to =>
                             Now(u).mark # Now(t).mark
    BY DEF StageColouredOnce
  <2>1. b \in Bridges /\ Pending(t, b)
    BY Busy, NowType DEF CommandsInv, Pending
  <2>2. Now(t).mark = epoch[mine[t]][b] => ~ coloured[mine[t]][b]
    BY <2>1 DEF CommandsInv, StageInv, PendingHolds
  <2>3. ASSUME NEW u \in Threads \ {t}, At(u, "colour"), mine[u] = mine[t], b \in Now(u).to
        PROVE  Now(u).mark # Now(t).mark
    <3>1. Pending(u, b)
      BY <2>3 DEF Pending
    <3> QED BY <2>1, <2>3, <3>1 DEF CommandsInv, StageInv, MarksDiffer
  <2> QED BY <2>2, <2>3
<1> QED BY <1>1, CommandsInvariant, PTL

(* "applied.ok" to a request that colours no single nodes and sets no      *)
(* pixel count: no frame of it was turned away (_handle_nodes_set).        *)
THEOREM OkIsSent == Spec => []OkMeansSent
<1>1. CommandsInv => OkMeansSent
  <2> SUFFICES ASSUME CommandsInv, NEW t \in Threads, Done(t), verdict[t] = "good",
                      Clean(req[t])
               PROVE  ~ missed[t]
    BY DEF OkMeansSent, Clean, Plain
  <2>1. missed[t] = TRUE => verdict[t] = "bad"
    BY DEF CommandsInv, CleanInv, Done
  <2>2. missed[t] \in BOOLEAN
    BY DEF CommandsInv, TypeOK
  <2> QED BY <2>1, <2>2
<1> QED BY <1>1, CommandsInvariant, PTL

(* A hide token that was acknowledged reached every bridge that could send *)
(* from beginning to end (_handle_hide), for any number of bridges.        *)
THEOREM TokensArrive == Spec => []TokensReachAll
<1>1. CommandsInv => TokensReachAll
  <2> SUFFICES ASSUME CommandsInv, NEW t \in Threads, Done(t), Token(req[t])
               PROVE  owed[t] = {}
    BY DEF TokensReachAll, Token
  <2>1. todo[t] = <<>> /\ pc[t] = "busy"
    BY DEF Done
  <2>2. Len(todo[t]) # 1
    BY <2>1
  <2> QED BY <2>1, <2>2 DEF CommandsInv, TokenInv
<1> QED BY <1>1, CommandsInvariant, PTL

===============================================================================
