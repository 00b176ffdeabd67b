--------------------------- MODULE GameEvents_proofs ---------------------------
(***************************************************************************)
(* Proofs about GameEvents, for every number of threads, events, clients   *)
(* and polls, every limit and both wirings.                                *)
(*                                                                         *)
(* StageInv says where an emitting thread can be, OnceInv that the         *)
(* places an event can be in do not overlap.  For the order of the events  *)
(* QueueInv says that the queues of the GUI hold the events of a thread    *)
(* one after the other, and LastInv that what a client has not got yet is  *)
(* what is still on its way to it.  KindInv leads to the one order of the  *)
(* window: what one client was sent before another is only what _pump() is *)
(* at.                                                                     *)
(***************************************************************************)
EXTENDS GameEvents, TLAPS, FiniteSetTheorems

StageInv ==
  /\ \A t \in Threads :
       /\ made[t] <= Len(KindOf[t])
       /\ stage[t] # "idle" => made[t] # 0
       /\ stage[t] \in IF wiring = "window" THEN {"idle", "rest", "eq"} ELSE {"idle", "cast", "rest"}
  /\ wiring = "console" => eq = <<>> /\ pumped = <<>>
  /\ \A g \in Threads \cup {Gui} : cast[g].on => HasCurrent(g)

Together == IsFiniteSet(clients)

-----------------------------------------------------------------------------
(* The REST queue.                                                         *)

OnceInv ==
  /\ \A i, k \in DOMAIN rest : rest[i] = rest[k] => i = k
  /\ \A j \in Jobs : jobs[j].at # "answered" => jobs[j].batch = {}
  /\ \A j, k \in Jobs : j # k => jobs[j].batch \cap jobs[k].batch = {}
  /\ \A j \in Jobs : jobs[j].batch \cap (Elements(rest) \cup shown \cup lost) = {}
  /\ Elements(rest) \cap (shown \cup lost) = {} /\ shown \cap lost = {}
  /\ \A e \in Events :
       Queued(e) <=> e \in Elements(rest) \cup shown \cup lost \/ \E j \in Jobs : e \in jobs[j].batch

-----------------------------------------------------------------------------
(* The TCP clients.                                                        *)

SockInv ==
  /\ \A c \in Clients :
       /\ sock[c] = "open" => c \in clients
       /\ c \in clients => sock[c] # "none"
       /\ sock[c] = "none" => \A t \in Threads : last[c][t] = 0
  /\ \A g \in Threads \cup {Gui} :
       /\ \A c \in cast[g].dead : sock[c] = "dead"
       /\ \A c \in cast[g].to : sock[c] # "none"

(* The last event of a thread that it is done with.                        *)
Put(t) == IF wiring = "window" /\ stage[t] # "idle" THEN made[t] - 1 ELSE made[t]

QueueInv ==
  /\ \A e \in Elements(eq) \cup Elements(pumped) : e[2] <= Put(e[1])
  /\ \A i, k \in DOMAIN eq : i < k /\ eq[i][1] = eq[k][1] => eq[i][2] < eq[k][2]
  /\ \A i, k \in DOMAIN pumped : i < k /\ pumped[i][1] = pumped[k][1] => pumped[i][2] < pumped[k][2]
  /\ \A i \in DOMAIN pumped, k \in DOMAIN eq : pumped[i][1] = eq[k][1] => pumped[i][2] < eq[k][2]

(* Behind an event in these queues nothing of its thread is missing.       *)
NoGapInv ==
  \A e \in Elements(eq) \cup Elements(pumped), n \in Nat :
    e[2] < n /\ n <= Put(e[1]) => <<e[1], n>> \in Elements(eq) \cup Elements(pumped)

(* The broadcast of thread g has passed client c.                          *)
Passed(g, c) == cast[g].on /\ c \notin cast[g].to

(* Event e is on its way to client c.                                      *)
Waits(c, e) ==
  \/ \E i \in DOMAIN eq : eq[i] = e
  \/ \E i \in DOMAIN pumped : pumped[i] = e /\ ~(i = 1 /\ Passed(Gui, c))
  \/ stage[e[1]] = "cast" /\ e[2] = made[e[1]] /\ ~ Passed(e[1], c)

LastOk(c, t) ==
  /\ last[c][t] <= Put(t)
  /\ sock[c] = "open" /\ last[c][t] # 0 =>
       \A n \in DOMAIN KindOf[t] :
         /\ Waits(c, <<t, n>>) => n > last[c][t]
         /\ last[c][t] < n /\ n <= Put(t) /\ Kind(<<t, n>>) \in TcpKinds => Waits(c, <<t, n>>)

LastInv == \A c \in Clients, t \in Threads : LastOk(c, t)

EventsInv == TypeOK /\ StageInv /\ Together /\ OnceInv /\ SockInv /\ QueueInv /\ NoGapInv /\ LastInv

-----------------------------------------------------------------------------
(* Events and sequences.                                                   *)

LEMMA EventFacts ==
  /\ \A t \in Threads : t \in Nat /\ t # Gui /\ Len(KindOf[t]) \in Nat
                        /\ DOMAIN KindOf[t] = 1 .. Len(KindOf[t])
                        /\ \A n \in DOMAIN KindOf[t] : <<t, n>> \in Events
  /\ \A e \in Events : e[1] \in Threads /\ e[2] \in DOMAIN KindOf[e[1]] /\ e = <<e[1], e[2]>>
                       /\ e[2] \in Nat /\ e[2] # 0 /\ e[2] <= Len(KindOf[e[1]])
<1>1. ASSUME NEW t \in Threads
      PROVE  t \in Nat /\ t # Gui /\ Len(KindOf[t]) \in Nat /\ DOMAIN KindOf[t] = 1 .. Len(KindOf[t])
  <2>1. KindOf[t] \in Seq({"touch", "link", "game"})
    BY ConstantsAssumption
  <2> QED BY <2>1, ConstantsAssumption DEF Gui
<1>2. ASSUME NEW t \in Threads, NEW n \in DOMAIN KindOf[t]
      PROVE  <<t, n>> \in Events
  BY DEF Events
<1>3. ASSUME NEW e \in Events
      PROVE  e[1] \in Threads /\ e[2] \in DOMAIN KindOf[e[1]] /\ e = <<e[1], e[2]>>
  <2>1. PICK t \in Threads : \E n \in DOMAIN KindOf[t] : e = <<t, n>>
    BY DEF Events
  <2>2. PICK n \in DOMAIN KindOf[t] : e = <<t, n>>
    BY <2>1
  <2> QED BY <2>2
<1>4. ASSUME NEW e \in Events
      PROVE  e[2] \in Nat /\ e[2] # 0 /\ e[2] <= Len(KindOf[e[1]])
  <2>1. e[2] \in 1 .. Len(KindOf[e[1]]) /\ Len(KindOf[e[1]]) \in Nat
    BY <1>1, <1>3
  <2> QED BY <2>1
<1> QED BY <1>1, <1>2, <1>3, <1>4

LEMMA TailFacts ==
  ASSUME NEW S, NEW s \in Seq(S), s # <<>>
  PROVE  /\ Head(s) = s[1] /\ Head(s) \in S /\ 1 \in DOMAIN s
         /\ Tail(s) \in Seq(S) /\ Len(Tail(s)) = Len(s) - 1
         /\ Len(s) \in Nat /\ DOMAIN s = 1 .. Len(s) /\ DOMAIN Tail(s) = 1 .. Len(Tail(s))
         /\ \A i \in DOMAIN Tail(s) : i \in Nat /\ i # 0 /\ i + 1 \in DOMAIN s /\ Tail(s)[i] = s[i + 1]
         /\ \A i \in DOMAIN s : i # 1 => i \in Nat /\ i - 1 \in DOMAIN Tail(s) /\ Tail(s)[i - 1] = s[i]
<1>1. /\ Head(s) = s[1] /\ Head(s) \in S /\ 1 \in DOMAIN s
      /\ Tail(s) \in Seq(S) /\ Len(Tail(s)) = Len(s) - 1
      /\ Len(s) \in Nat /\ DOMAIN s = 1 .. Len(s) /\ DOMAIN Tail(s) = 1 .. Len(Tail(s))
      /\ \A i \in DOMAIN Tail(s) : i \in Nat /\ i # 0 /\ i + 1 \in DOMAIN s /\ Tail(s)[i] = s[i + 1]
  OBVIOUS
<1>2. ASSUME NEW i \in DOMAIN s, i # 1
      PROVE  i \in Nat /\ i - 1 \in DOMAIN Tail(s) /\ Tail(s)[i - 1] = s[i]
  <2>1. i \in Nat /\ i - 1 \in DOMAIN Tail(s) /\ (i - 1) + 1 = i
    BY <1>1, <1>2
  <2> QED BY <1>1, <2>1
<1> QED BY <1>1, <1>2

LEMMA AppendFacts ==
  ASSUME NEW S, NEW s \in Seq(S), NEW e \in S
  PROVE  /\ Append(s, e) \in Seq(S) /\ Len(Append(s, e)) = Len(s) + 1
         /\ Len(s) + 1 \in DOMAIN Append(s, e) /\ Append(s, e)[Len(s) + 1] = e
         /\ \A i \in DOMAIN Append(s, e) :
              (i \in DOMAIN s /\ Append(s, e)[i] = s[i]) \/ (i = Len(s) + 1 /\ Append(s, e)[i] = e)
         /\ \A i \in DOMAIN s : i \in 1 .. Len(s) /\ i \in DOMAIN Append(s, e) /\ Append(s, e)[i] = s[i]
  OBVIOUS

(* What is in a queue after a step.                                        *)
LEMMA TailElements ==
  ASSUME NEW S, NEW s \in Seq(S), s # <<>>
  PROVE  /\ Elements(s) = Elements(Tail(s)) \cup {Head(s)}
         /\ (\A i, k \in DOMAIN s : s[i] = s[k] => i = k) =>
              /\ \A i, k \in DOMAIN Tail(s) : Tail(s)[i] = Tail(s)[k] => i = k
              /\ Head(s) \notin Elements(Tail(s))
<1>1. ASSUME NEW x
      PROVE  x \in Elements(s) <=> x \in Elements(Tail(s)) \/ x = Head(s)
  <2>1. ASSUME x \in Elements(s)
        PROVE  x \in Elements(Tail(s)) \/ x = Head(s)
    <3>1. PICK i \in DOMAIN s : s[i] = x
      BY <2>1 DEF Elements
    <3>2. CASE i = 1
      BY <3>1, <3>2, TailFacts
    <3>3. CASE i # 1
      <4>1. i - 1 \in DOMAIN Tail(s) /\ Tail(s)[i - 1] = x
        BY <3>1, <3>3, TailFacts
      <4> QED BY <4>1 DEF Elements
    <3> QED BY <3>2, <3>3
  <2>2. ASSUME x \in Elements(Tail(s))
        PROVE  x \in Elements(s)
    <3>1. PICK i \in DOMAIN Tail(s) : Tail(s)[i] = x
      BY <2>2 DEF Elements
    <3> QED BY <3>1, TailFacts DEF Elements
  <2>3. Head(s) \in Elements(s)
    BY TailFacts DEF Elements
  <2> QED BY <2>1, <2>2, <2>3
<1>2. ASSUME \A i, k \in DOMAIN s : s[i] = s[k] => i = k
      PROVE  /\ \A i, k \in DOMAIN Tail(s) : Tail(s)[i] = Tail(s)[k] => i = k
             /\ Head(s) \notin Elements(Tail(s))
  <2>1. ASSUME NEW i \in DOMAIN Tail(s), NEW k \in DOMAIN Tail(s), Tail(s)[i] = Tail(s)[k]
        PROVE  i = k
    <3>1. i + 1 = k + 1 /\ i \in Nat /\ k \in Nat
      BY <1>2, <2>1, TailFacts
    <3> QED BY <3>1
  <2>2. ASSUME NEW i \in DOMAIN Tail(s)
        PROVE  Tail(s)[i] # Head(s)
    <3>1. i + 1 # 1 /\ i + 1 \in DOMAIN s /\ 1 \in DOMAIN s /\ Tail(s)[i] = s[i + 1] /\ Head(s) = s[1]
      BY TailFacts
    <3> QED BY <1>2, <3>1
  <2> QED BY <2>1, <2>2 DEF Elements
<1> QED BY <1>1, <1>2

LEMMA AppendElements ==
  ASSUME NEW S, NEW s \in Seq(S), NEW e \in S
  PROVE  /\ Elements(Append(s, e)) = Elements(s) \cup {e}
         /\ (\A i, k \in DOMAIN s : s[i] = s[k] => i = k) /\ e \notin Elements(s) =>
              \A i, k \in DOMAIN Append(s, e) : Append(s, e)[i] = Append(s, e)[k] => i = k
<1>1. Elements(Append(s, e)) = Elements(s) \cup {e}
  BY AppendFacts DEF Elements
<1>2. ASSUME \A i, k \in DOMAIN s : s[i] = s[k] => i = k, e \notin Elements(s),
             NEW i \in DOMAIN Append(s, e), NEW k \in DOMAIN Append(s, e), Append(s, e)[i] = Append(s, e)[k]
      PROVE  i = k
  <2>1. \A l \in DOMAIN s : s[l] # e
    BY <1>2 DEF Elements
  <2> QED BY <1>2, <2>1, AppendFacts
<1> QED BY <1>1, <1>2

LEMMA EmptyElements == Elements(<<>>) = {} /\ DOMAIN <<>> = {}
  BY DEF Elements

-----------------------------------------------------------------------------
(* Types and stages.                                                       *)

Casts == [on : BOOLEAN, to : SUBSET Clients, dead : SUBSET Clients]

LEMMA Types ==
  ASSUME TypeOK
  PROVE  /\ wiring \in {"window", "console"}
         /\ \A t \in Threads : made[t] \in Nat /\ stage[t] \in {"idle", "rest", "eq", "cast"}
         /\ eq \in Seq(Events) /\ pumped \in Seq(Events) /\ rest \in Seq(Events)
         /\ \A g \in Threads \cup {Gui} :
              /\ cast[g] \in Casts /\ cast[g].on \in BOOLEAN
              /\ cast[g].to \subseteq Clients /\ cast[g].dead \subseteq Clients
         /\ \A c \in Clients, t \in Threads : last[c][t] \in Nat
         /\ \A j \in Jobs : /\ jobs[j].at \in {"free", "asked", "given_up", "answered"}
                            /\ jobs[j].batch \subseteq Events
<1>1. wiring \in {"window", "console"}
  BY ConstantsAssumption DEF TypeOK
<1>2. \A g \in Threads \cup {Gui} :
        /\ cast[g] \in Casts /\ cast[g].on \in BOOLEAN
        /\ cast[g].to \subseteq Clients /\ cast[g].dead \subseteq Clients
  <2>1. \A x \in Casts : x.on \in BOOLEAN /\ x.to \subseteq Clients /\ x.dead \subseteq Clients
    BY DEF Casts
  <2>2. \A g \in Threads \cup {Gui} : cast[g] \in Casts
    BY DEF TypeOK, Casts
  <2> QED BY <2>1, <2>2
<1>3. \A c \in Clients, t \in Threads : last[c][t] \in Nat
  <2>1. \A c \in Clients : last[c] \in [Threads -> Nat]
    BY DEF TypeOK
  <2> QED BY <2>1
<1>4. \A j \in Jobs : /\ jobs[j].at \in {"free", "asked", "given_up", "answered"}
                      /\ jobs[j].batch \subseteq Events
  <2>1. \A j \in Jobs :
          jobs[j] \in [at : {"free", "asked", "given_up", "answered"}, batch : SUBSET Events]
    BY DEF TypeOK
  <2> QED BY <2>1
<1> QED BY <1>1, <1>2, <1>3, <1>4 DEF TypeOK

(* The number of the event a thread is busy with.                          *)
LEMMA BusyFacts ==
  ASSUME TypeOK, StageInv, NEW t \in Threads, stage[t] # "idle"
  PROVE  <<t, made[t]>> \in Events /\ made[t] \in DOMAIN KindOf[t] /\ <<t, made[t]>>[1] = t
         /\ <<t, made[t]>>[2] = made[t]
<1>1. made[t] \in Nat /\ made[t] # 0 /\ made[t] <= Len(KindOf[t])
  BY Types DEF StageInv
<1>2. made[t] \in DOMAIN KindOf[t]
  BY <1>1, EventFacts
<1> QED BY <1>2, EventFacts

LEMMA CurrentFacts ==
  ASSUME TypeOK, StageInv, NEW g \in Threads \cup {Gui}, HasCurrent(g)
  PROVE  /\ Current(g) \in Events /\ Current(g)[1] \in Threads /\ Current(g)[2] \in Nat /\ Current(g)[2] # 0
         /\ g = Gui => pumped # <<>> /\ Current(g) = Head(pumped) /\ wiring = "window"
         /\ g # Gui => /\ g \in Threads /\ stage[g] = "cast" /\ wiring = "console"
                       /\ Current(g)[1] = g /\ Current(g)[2] = made[g]
<1>1. CASE g = Gui
  <2>1. pumped # <<>> /\ pumped \in Seq(Events) /\ Current(g) = Head(pumped)
    BY <1>1, Types DEF HasCurrent, Current
  <2>2. Head(pumped) \in Events
    BY <2>1, TailFacts
  <2>3. wiring = "window"
    BY <2>1, Types DEF StageInv
  <2> QED BY <1>1, <2>1, <2>2, <2>3, EventFacts
<1>2. CASE g # Gui
  <2>1. g \in Threads /\ stage[g] = "cast" /\ Current(g) = <<g, made[g]>>
    BY <1>2 DEF HasCurrent, Current
  <2>2. <<g, made[g]>> \in Events
    BY <2>1, BusyFacts
  <2>3. wiring = "console"
    BY <2>1, Types DEF StageInv
  <2> QED BY <1>2, <2>1, <2>2, <2>3, EventFacts
<1> QED BY <1>1, <1>2

(* The thread is done with its broadcast.                                  *)
LEMMA FinishFacts ==
  ASSUME TypeOK, StageInv, NEW g \in Threads \cup {Gui}, HasCurrent(g), Finish(g)
  PROVE  /\ cast' \in [Threads \cup {Gui} -> Casts]
         /\ cast'[g] = NoCast /\ \A h \in Threads \cup {Gui} : h # g => cast'[h] = cast[h]
         /\ pumped' \in Seq(Events) /\ stage' \in [Threads -> {"idle", "rest", "eq", "cast"}]
         /\ g = Gui => pumped' = Tail(pumped) /\ stage' = stage
         /\ g # Gui => /\ pumped' = pumped /\ stage[g] = "cast" /\ stage'[g] = "rest"
                       /\ \A t \in Threads : t # g => stage'[t] = stage[t]
<1>1. NoCast \in Casts
  BY DEF NoCast, Casts
<1>2. cast \in [Threads \cup {Gui} -> Casts] /\ stage \in [Threads -> {"idle", "rest", "eq", "cast"}]
      /\ pumped \in Seq(Events)
  BY DEF TypeOK, Casts
<1>3. /\ cast' \in [Threads \cup {Gui} -> Casts]
      /\ cast'[g] = NoCast /\ \A h \in Threads \cup {Gui} : h # g => cast'[h] = cast[h]
  BY <1>1, <1>2 DEF Finish
<1>4. CASE g = Gui
  <2>1. pumped # <<>>
    BY <1>4 DEF HasCurrent
  <2> QED BY <1>2, <1>3, <1>4, <2>1 DEF Finish
<1>5. CASE g # Gui
  BY <1>2, <1>3, <1>5 DEF Finish, HasCurrent
<1> QED BY <1>4, <1>5

TypeStage == TypeOK /\ StageInv /\ Together

LEMMA WorkerTypes ==
  ASSUME TypeStage, NEW t \in Threads, Worker(t)
  PROVE  TypeStage'
<1>1. TypeOK /\ StageInv /\ Together
  BY DEF TypeStage
<1>2. UNCHANGED <<wiring, pumped, cast, tcpVars, pollVars>>
  BY DEF Worker, Emit, RestPut, EqPut
<1>3. UNCHANGED <<clients, sock, last, active, busy, jobs, shown, connects, failures>>
  BY <1>2 DEF tcpVars, pollVars
<1>4. made \in [Threads -> Nat] /\ stage \in [Threads -> {"idle", "rest", "eq", "cast"}]
  BY <1>1 DEF TypeOK
<1>5. CASE Emit(t)
  <2>1. /\ stage[t] = "idle" /\ made[t] < Len(KindOf[t]) /\ UNCHANGED <<eq, rest, lost>>
        /\ made' \in [Threads -> Nat] /\ made'[t] = made[t] + 1
        /\ stage' \in [Threads -> {"idle", "rest", "eq", "cast"}]
        /\ stage'[t] = IF wiring = "window" THEN "rest" ELSE "cast"
        /\ \A c \in Threads : c # t => made'[c] = made[c] /\ stage'[c] = stage[c]
    BY <1>4, <1>5 DEF Emit
  <2>2. TypeOK'
    BY <1>1, <1>2, <1>3, <2>1 DEF TypeOK
  <2>3. made'[t] <= Len(KindOf[t]) /\ made'[t] # 0
    BY <1>1, <2>1, Types, EventFacts
  <2>4. \A g \in Threads \cup {Gui} : cast[g].on => HasCurrent(g)'
    BY <1>1, <1>2, <2>1 DEF StageInv, HasCurrent
  <2>5. StageInv'
    BY <1>1, <1>2, <2>1, <2>3, <2>4 DEF StageInv
  <2> QED BY <1>1, <1>3, <2>2, <2>5 DEF TypeStage, Together
<1>6. CASE RestPut(t)
  <2> DEFINE e == <<t, made[t]>>
  <2>1. /\ stage[t] = "rest" /\ UNCHANGED <<made, eq>>
        /\ stage' \in [Threads -> {"idle", "rest", "eq", "cast"}]
        /\ stage'[t] = IF wiring = "window" THEN "eq" ELSE "idle"
        /\ \A c \in Threads : c # t => stage'[c] = stage[c]
    BY <1>4, <1>6 DEF RestPut
  <2>2. e \in Events
    BY <1>1, <2>1, BusyFacts
  <2>3. \/ rest' = rest /\ lost' = lost
        \/ rest' = Append(rest, e) /\ lost' = lost /\ Len(rest) # MaxQueue
        \/ rest' = Append(Tail(rest), e) /\ lost' = lost \cup {Head(rest)} /\ Len(rest) = MaxQueue
    BY <1>6 DEF RestPut
  <2> HIDE DEF e
  <2>4. rest' \in Seq(Events) /\ Len(rest') <= MaxQueue /\ lost' \subseteq Events
    <3>1. rest \in Seq(Events) /\ Len(rest) <= MaxQueue /\ lost \subseteq Events /\ Len(rest) \in Nat
          /\ MaxQueue \in Nat /\ MaxQueue > 0
      BY <1>1, ConstantsAssumption DEF TypeOK
    <3>2. CASE rest' = rest /\ lost' = lost
      BY <3>1, <3>2
    <3>3. CASE rest' = Append(rest, e) /\ lost' = lost /\ Len(rest) # MaxQueue
      BY <2>2, <3>1, <3>3, AppendFacts
    <3>4. CASE rest' = Append(Tail(rest), e) /\ lost' = lost \cup {Head(rest)} /\ Len(rest) = MaxQueue
      <4>1. rest # <<>>
        BY <3>1, <3>4
      <4>2. Tail(rest) \in Seq(Events) /\ Head(rest) \in Events /\ Len(Tail(rest)) = Len(rest) - 1
        BY <3>1, <4>1, TailFacts
      <4> QED BY <2>2, <3>1, <3>4, <4>2, AppendFacts
    <3> QED BY <2>3, <3>2, <3>3, <3>4
  <2>5. TypeOK'
    BY <1>1, <1>2, <1>3, <2>1, <2>4 DEF TypeOK
  <2>6. \A g \in Threads \cup {Gui} : cast[g].on => HasCurrent(g)'
    BY <1>1, <1>2, <2>1 DEF StageInv, HasCurrent
  <2>7. StageInv'
    BY <1>1, <1>2, <2>1, <2>6 DEF StageInv
  <2> QED BY <1>1, <1>3, <2>5, <2>7 DEF TypeStage, Together
<1>7. CASE EqPut(t)
  <2>1. /\ stage[t] = "eq" /\ UNCHANGED <<made, rest, lost>>
        /\ eq' = Append(eq, <<t, made[t]>>)
        /\ stage' \in [Threads -> {"idle", "rest", "eq", "cast"}]
        /\ stage'[t] = "idle"
        /\ \A c \in Threads : c # t => stage'[c] = stage[c]
    BY <1>4, <1>7 DEF EqPut
  <2>2. <<t, made[t]>> \in Events
    BY <1>1, <2>1, BusyFacts
  <2>3. eq' \in Seq(Events)
    BY <1>1, <2>1, <2>2, Types, AppendFacts
  <2>4. TypeOK'
    BY <1>1, <1>2, <1>3, <2>1, <2>3 DEF TypeOK
  <2>5. \A g \in Threads \cup {Gui} : cast[g].on => HasCurrent(g)'
    BY <1>1, <1>2, <2>1 DEF StageInv, HasCurrent
  <2>6. wiring = "window"
    BY <1>1, <2>1, Types DEF StageInv
  <2>7. StageInv'
    BY <1>1, <1>2, <2>1, <2>5, <2>6 DEF StageInv
  <2> QED BY <1>1, <1>3, <2>4, <2>7 DEF TypeStage, Together
<1> QED BY <1>5, <1>6, <1>7 DEF Worker

(* One send of a broadcast.                                                *)
LEMMA SendFacts ==
  ASSUME TypeOK, StageInv, NEW g \in Threads \cup {Gui}, CastSend(g)
  PROVE  \E c \in cast[g].to, ok \in BOOLEAN :
           /\ cast[g].on /\ HasCurrent(g) /\ c \in Clients
           /\ cast' \in [Threads \cup {Gui} -> Casts]
           /\ \A h \in Threads \cup {Gui} : h # g => cast'[h] = cast[h]
           /\ cast'[g].on /\ cast'[g].to = cast[g].to \ {c}
           /\ cast'[g].dead = IF ok THEN cast[g].dead ELSE cast[g].dead \cup {c}
           /\ sock' \in [Clients -> {"none", "open", "gone", "dead"}]
           /\ sock'[c] = IF ok THEN sock[c] ELSE "dead"
           /\ (~ ok => sock[c] # "open")
           /\ \A d \in Clients : d # c => sock'[d] = sock[d]
           /\ last' \in [Clients -> [Threads -> Nat]]
           /\ \A d \in Clients, t \in Threads :
                last'[d][t] = IF d = c /\ sock[c] = "open" /\ t = Current(g)[1]
                              THEN Current(g)[2] ELSE last[d][t]
<1>1. PICK c \in cast[g].to : \E ok \in {sock[c] = "open", sock[c] # "dead"} :
         /\ cast' = [cast EXCEPT ![g].to = @ \ {c}, ![g].dead = IF ok THEN @ ELSE @ \cup {c}]
         /\ sock' = [sock EXCEPT ![c] = IF ok THEN @ ELSE "dead"]
         /\ last' = IF sock[c] # "open" THEN last
                    ELSE [last EXCEPT ![c][Current(g)[1]] = Current(g)[2]]
  BY DEF CastSend
<1>2. PICK ok \in {sock[c] = "open", sock[c] # "dead"} :
         /\ cast' = [cast EXCEPT ![g].to = @ \ {c}, ![g].dead = IF ok THEN @ ELSE @ \cup {c}]
         /\ sock' = [sock EXCEPT ![c] = IF ok THEN @ ELSE "dead"]
         /\ last' = IF sock[c] # "open" THEN last
                    ELSE [last EXCEPT ![c][Current(g)[1]] = Current(g)[2]]
  BY <1>1
<1>3. /\ cast \in [Threads \cup {Gui} -> Casts] /\ sock \in [Clients -> {"none", "open", "gone", "dead"}]
      /\ last \in [Clients -> [Threads -> Nat]]
  BY DEF TypeOK, Casts
<1>4. cast[g].on /\ HasCurrent(g) /\ c \in Clients /\ cast[g].to \subseteq Clients /\ cast[g].dead \subseteq Clients
  BY Types DEF CastSend, StageInv
<1>5. ok \in BOOLEAN /\ (~ ok => sock[c] # "open")
  BY <1>2
<1>6. /\ cast' \in [Threads \cup {Gui} -> Casts]
      /\ \A h \in Threads \cup {Gui} : h # g => cast'[h] = cast[h]
      /\ cast'[g].on /\ cast'[g].to = cast[g].to \ {c}
      /\ cast'[g].dead = IF ok THEN cast[g].dead ELSE cast[g].dead \cup {c}
  <2> DEFINE to2 == cast[g].to \ {c}
             dead2 == IF ok THEN cast[g].dead ELSE cast[g].dead \cup {c}
             x == [cast[g] EXCEPT !.to = to2, !.dead = dead2]
  <2>1. x \in Casts /\ x.on = cast[g].on /\ x.to = to2 /\ x.dead = dead2
    <3>1. cast[g] \in Casts /\ to2 \subseteq Clients /\ dead2 \subseteq Clients
      BY <1>3, <1>4
    <3> HIDE DEF to2, dead2
    <3> QED BY <3>1 DEF Casts
  <2>2. cast' = [cast EXCEPT ![g] = x]
    BY <1>2, <1>3 DEF Casts
  <2> HIDE DEF x
  <2> QED BY <1>3, <1>4, <2>1, <2>2
<1>7. /\ sock' \in [Clients -> {"none", "open", "gone", "dead"}]
      /\ sock'[c] = IF ok THEN sock[c] ELSE "dead"
      /\ \A d \in Clients : d # c => sock'[d] = sock[d]
  BY <1>2, <1>3, <1>4
<1>8. /\ last' \in [Clients -> [Threads -> Nat]]
      /\ \A d \in Clients, t \in Threads :
           last'[d][t] = IF d = c /\ sock[c] = "open" /\ t = Current(g)[1]
                         THEN Current(g)[2] ELSE last[d][t]
  <2>1. Current(g)[1] \in Threads /\ Current(g)[2] \in Nat
    BY <1>4, CurrentFacts
  <2> DEFINE b1 == Current(g)[1]
             n1 == Current(g)[2]
  <2>2. last' = IF sock[c] # "open" THEN last ELSE [last EXCEPT ![c][b1] = n1]
    BY <1>2
  <2>3. b1 \in Threads /\ n1 \in Nat
    BY <2>1
  <2> HIDE DEF b1, n1
  <2>4. CASE sock[c] # "open"
    BY <1>3, <2>2, <2>4
  <2>5. CASE sock[c] = "open"
    <3>1. last' = [last EXCEPT ![c] = [last[c] EXCEPT ![b1] = n1]]
      BY <2>2, <2>5
    <3>2. last[c] \in [Threads -> Nat]
      BY <1>3, <1>4
    <3>3. [last[c] EXCEPT ![b1] = n1] \in [Threads -> Nat]
      BY <2>3, <3>2
    <3>4. last' \in [Clients -> [Threads -> Nat]]
      BY <1>3, <3>1, <3>3
    <3>5. ASSUME NEW d \in Clients, NEW t \in Threads
          PROVE  last'[d][t] = IF d = c /\ t = b1 THEN n1 ELSE last[d][t]
      BY <1>3, <1>4, <2>3, <3>1, <3>2
    <3> QED BY <2>5, <3>4, <3>5 DEF b1, n1
  <2> QED BY <2>4, <2>5 DEF b1, n1
<1> QED BY <1>4, <1>5, <1>6, <1>7, <1>8

LEMMA CastTypes ==
  ASSUME TypeStage, NEW g \in Threads \cup {Gui}, Cast(g)
  PROVE  TypeStage'
<1>1. TypeOK /\ StageInv /\ Together
  BY DEF TypeStage
<1>2. UNCHANGED <<wiring, made, eq, rest, lost, active, busy, jobs, shown, connects, failures>>
  BY DEF Cast, CastStart, CastSend, CastEnd, pollVars
<1>3. /\ cast \in [Threads \cup {Gui} -> Casts] /\ clients \subseteq Clients
      /\ stage \in [Threads -> {"idle", "rest", "eq", "cast"}]
      /\ pumped \in Seq(Events)
  BY <1>1 DEF TypeOK, Casts
(* The end of a broadcast, or one that has nobody to reach.                *)
<1>4. ASSUME HasCurrent(g), Finish(g)
      PROVE  /\ cast' \in [Threads \cup {Gui} -> Casts] /\ pumped' \in Seq(Events)
             /\ stage' \in [Threads -> {"idle", "rest", "eq", "cast"}] /\ StageInv'
  <2>1. /\ cast' \in [Threads \cup {Gui} -> Casts]
        /\ cast'[g] = NoCast /\ \A h \in Threads \cup {Gui} : h # g => cast'[h] = cast[h]
        /\ pumped' \in Seq(Events) /\ stage' \in [Threads -> {"idle", "rest", "eq", "cast"}]
        /\ g = Gui => pumped' = Tail(pumped) /\ stage' = stage
        /\ g # Gui => /\ pumped' = pumped /\ stage[g] = "cast" /\ stage'[g] = "rest"
                      /\ \A t \in Threads : t # g => stage'[t] = stage[t]
    BY <1>1, <1>4, FinishFacts
  <2>2. NoCast.on = FALSE
    BY DEF NoCast
  <2>3. g = Gui => wiring = "window"
    BY <1>1, <1>4, CurrentFacts
  <2>4. g # Gui => wiring = "console" /\ g \in Threads
    BY <1>1, <1>4, CurrentFacts
  <2>5. \A h \in Threads \cup {Gui} : cast'[h].on => HasCurrent(h)'
    BY <1>1, <2>1, <2>2, <2>3, <2>4, EventFacts DEF StageInv, HasCurrent
  <2>6. \A t \in Threads :
          stage'[t] \in IF wiring = "window" THEN {"idle", "rest", "eq"} ELSE {"idle", "cast", "rest"}
    BY <1>1, <2>1, <2>4 DEF StageInv
  <2>7. \A t \in Threads : stage'[t] # "idle" => made[t] # 0
    BY <1>1, <2>1 DEF StageInv
  <2>8. wiring = "console" => pumped' = <<>>
    BY <1>1, <2>1, <2>3 DEF StageInv
  <2> QED BY <1>1, <1>2, <2>1, <2>5, <2>6, <2>7, <2>8 DEF StageInv
<1>5. CASE CastStart(g)
  <2>1. HasCurrent(g) /\ UNCHANGED <<clients, sock, last>>
    BY <1>5 DEF CastStart, tcpVars
  <2>2. CASE Finish(g)
    <3>1. /\ cast' \in [Threads \cup {Gui} -> Casts] /\ pumped' \in Seq(Events)
          /\ stage' \in [Threads -> {"idle", "rest", "eq", "cast"}] /\ StageInv'
      BY <1>4, <2>1, <2>2
    <3> QED BY <1>1, <1>2, <2>1, <3>1 DEF TypeStage, TypeOK, Casts, Together
  <2>3. CASE /\ cast' = [cast EXCEPT ![g] = [on |-> TRUE, to |-> clients, dead |-> {}]]
             /\ UNCHANGED <<pumped, stage>>
    <3>1. [on |-> TRUE, to |-> clients, dead |-> {}] \in Casts
      BY <1>3 DEF Casts
    <3>2. /\ cast' \in [Threads \cup {Gui} -> Casts]
          /\ \A h \in Threads \cup {Gui} : h # g => cast'[h] = cast[h]
      BY <1>3, <2>3, <3>1
    <3>3. \A h \in Threads \cup {Gui} : cast'[h].on => HasCurrent(h)'
      BY <1>1, <2>1, <2>3, <3>2, <1>2 DEF StageInv, HasCurrent
    <3>4. StageInv'
      BY <1>1, <1>2, <2>3, <3>3 DEF StageInv
    <3> QED BY <1>1, <1>2, <2>1, <2>3, <3>2, <3>4 DEF TypeStage, TypeOK, Casts, Together
  <2> QED BY <1>5, <2>2, <2>3 DEF CastStart
<1>6. CASE CastSend(g)
  <2>1. UNCHANGED <<stage, pumped, clients>>
    BY <1>6 DEF CastSend
  <2>2. /\ cast' \in [Threads \cup {Gui} -> Casts]
        /\ HasCurrent(g)
        /\ \A h \in Threads \cup {Gui} : h # g => cast'[h] = cast[h]
        /\ sock' \in [Clients -> {"none", "open", "gone", "dead"}]
        /\ last' \in [Clients -> [Threads -> Nat]]
    BY <1>1, <1>6, SendFacts
  <2>3. \A h \in Threads \cup {Gui} : cast'[h].on => HasCurrent(h)'
    BY <1>1, <2>1, <2>2, <1>2 DEF StageInv, HasCurrent
  <2>4. StageInv'
    BY <1>1, <1>2, <2>1, <2>3 DEF StageInv
  <2> QED BY <1>1, <1>2, <2>1, <2>2, <2>4 DEF TypeStage, TypeOK, Casts, Together
<1>7. CASE CastEnd(g)
  <2>1. HasCurrent(g) /\ Finish(g) /\ clients' = clients \ cast[g].dead /\ UNCHANGED <<sock, last>>
    BY <1>1, <1>7 DEF CastEnd, StageInv
  <2>2. /\ cast' \in [Threads \cup {Gui} -> Casts] /\ pumped' \in Seq(Events)
        /\ stage' \in [Threads -> {"idle", "rest", "eq", "cast"}] /\ StageInv'
    BY <1>4, <2>1
  <2>3. clients' \subseteq Clients /\ IsFiniteSet(clients') /\ Cardinality(clients') <= MaxTogether
    <3>1. IsFiniteSet(clients') /\ Cardinality(clients') <= Cardinality(clients)
          /\ Cardinality(clients) \in Nat /\ Cardinality(clients') \in Nat
      BY <1>1, <2>1, FS_Subset, FS_CardinalityType DEF Together
    <3>2. Cardinality(clients) <= MaxTogether /\ MaxTogether \in Nat
      BY <1>1, ConstantsAssumption DEF TypeOK
    <3>3. clients' \subseteq Clients
      BY <1>3, <2>1
    <3> QED BY <3>1, <3>2, <3>3
  <2> QED BY <1>1, <1>2, <2>1, <2>2, <2>3 DEF TypeStage, TypeOK, Casts, Together
<1> QED BY <1>5, <1>6, <1>7 DEF Cast

LEMMA ClientTypes ==
  ASSUME TypeStage, NEW c \in Clients, Join(c) \/ Leave(c) \/ HandlerEnds(c)
  PROVE  TypeStage'
<1>1. TypeOK /\ StageInv /\ Together
  BY DEF TypeStage
<1>2. UNCHANGED <<workVars, last, rest, lost, pollVars>>
  BY DEF Join, Leave, HandlerEnds
<1>3. UNCHANGED <<wiring, made, stage, eq, pumped, cast, last, rest, lost, active, busy, jobs, shown,
                  connects, failures>>
  BY <1>2 DEF workVars, pollVars
<1>4. sock' \in [Clients -> {"none", "open", "gone", "dead"}]
  BY <1>1 DEF TypeOK, Join, Leave, HandlerEnds
<1>5. clients' \subseteq Clients /\ IsFiniteSet(clients') /\ Cardinality(clients') <= MaxTogether
  <2>1. /\ clients \subseteq Clients /\ IsFiniteSet(clients) /\ Cardinality(clients) \in Nat
        /\ Cardinality(clients) <= MaxTogether /\ MaxTogether \in Nat
    BY <1>1, FS_CardinalityType, ConstantsAssumption DEF TypeOK, Together
  <2>2. CASE clients' = clients \cup {c} /\ Cardinality(clients) < MaxTogether
    <3>1. IsFiniteSet(clients') /\ (Cardinality(clients') = Cardinality(clients)
                                    \/ Cardinality(clients') = Cardinality(clients) + 1)
      BY <2>1, <2>2, FS_AddElement
    <3>2. clients' \subseteq Clients
      BY <2>1, <2>2
    <3> QED BY <2>1, <2>2, <3>1, <3>2
  <2>3. CASE clients' = clients \ {c}
    <3>1. IsFiniteSet(clients') /\ Cardinality(clients') <= Cardinality(clients)
          /\ Cardinality(clients') \in Nat
      BY <2>1, <2>3, FS_Subset, FS_CardinalityType
    <3>2. clients' \subseteq Clients
      BY <2>1, <2>3
    <3> QED BY <2>1, <3>1, <3>2
  <2>4. CASE clients' = clients
    BY <2>1, <2>4
  <2> QED BY <2>2, <2>3, <2>4 DEF Join, Leave, HandlerEnds
<1> QED BY <1>1, <1>3, <1>4, <1>5 DEF TypeStage, TypeOK, StageInv, HasCurrent, Together

LEMMA OtherTypes ==
  ASSUME TypeStage,
         Pump \/ Connect \/ Disconnect \/ \E j \in Jobs : PollTick(j) \/ Drain(j) \/ JobEnds(j) \/ JobFails(j)
  PROVE  TypeStage'
<1>1. TypeOK /\ StageInv /\ Together
  BY DEF TypeStage
<1>2. CASE Pump
  <2>1. pumped = <<>> /\ eq # <<>> /\ pumped' = eq /\ eq' = <<>>
        /\ UNCHANGED <<wiring, made, stage, cast, clients, sock, last, rest, lost, active, busy, jobs,
                       shown, connects, failures>>
    BY <1>2 DEF Pump, tcpVars, pollVars
  <2>2. wiring # "console"
    BY <1>1, <2>1 DEF StageInv
  <2>3. TypeOK'
    BY <1>1, <2>1 DEF TypeOK
  <2>4. StageInv'
    BY <1>1, <2>1, <2>2 DEF StageInv, HasCurrent
  <2> QED BY <1>1, <2>1, <2>3, <2>4 DEF TypeStage, Together
<1>3. CASE ~ Pump
  <2>1. UNCHANGED <<workVars, tcpVars>>
    BY <1>3 DEF Connect, Disconnect, PollTick, Drain, JobEnds, JobFails
  <2>2. UNCHANGED <<wiring, made, stage, eq, pumped, cast, clients, sock, last>>
    BY <2>1 DEF workVars, tcpVars
  <2>3. StageInv' /\ Together'
    BY <1>1, <2>2 DEF StageInv, Together, HasCurrent
  <2>4. Elements(rest) \subseteq Events /\ <<>> \in Seq(Events) /\ Len(<<>>) <= MaxQueue
    BY <1>1, ConstantsAssumption DEF TypeOK, Elements
  <2> DEFINE Job == [at : {"free", "asked", "given_up", "answered"}, batch : SUBSET Events]
  <2>5. jobs \in [Jobs -> Job] /\ NoJob \in Job
    BY <1>1 DEF TypeOK, NoJob
  <2>6. CASE Connect \/ Disconnect
    <3>1. UNCHANGED <<rest, lost, jobs, shown, failures>> /\ active' \in BOOLEAN /\ busy' \in BOOLEAN
          /\ connects' \in 0 .. MaxConnects
      <4>1. MaxConnects \in Nat /\ connects \in 0 .. MaxConnects /\ active \in BOOLEAN /\ busy \in BOOLEAN
        BY <1>1, ConstantsAssumption DEF TypeOK
      <4>2. CASE Connect
        <5>1. connects < MaxConnects /\ connects' = connects + 1 /\ active' = TRUE /\ busy' = FALSE
          BY <4>2 DEF Connect
        <5>2. connects' \in 0 .. MaxConnects
          BY <4>1, <5>1
        <5>3. UNCHANGED <<rest, lost, jobs, shown, failures>>
          BY <4>2 DEF Connect
        <5> QED BY <5>1, <5>2, <5>3
      <4>3. CASE Disconnect
        BY <4>1, <4>3 DEF Disconnect
      <4> QED BY <2>6, <4>2, <4>3
    <3> QED BY <1>1, <2>2, <2>3, <3>1 DEF TypeStage, TypeOK
  <2>7. ASSUME NEW j \in Jobs, PollTick(j) \/ Drain(j) \/ JobEnds(j) \/ JobFails(j)
        PROVE  TypeOK'
    <3>1. /\ jobs[j] \in Job /\ jobs[j].batch \subseteq Events
          /\ shown \subseteq Events /\ lost \subseteq Events
          /\ \A x \in {"free", "asked", "given_up", "answered"} : [jobs[j] EXCEPT !.at = x] \in Job
          /\ [at |-> "answered", batch |-> Elements(rest)] \in Job
      BY <1>1, <2>4, <2>5 DEF TypeOK
    <3>2. jobs' \in [Jobs -> Job]
      <4>1. \E x \in Job : jobs' = [jobs EXCEPT ![j] = x]
        <5>1. CASE PollTick(j)
          BY <2>5, <3>1, <5>1 DEF PollTick
        <5>2. CASE Drain(j)
          BY <2>5, <3>1, <5>2 DEF Drain
        <5>3. CASE JobEnds(j)
          BY <2>5, <3>1, <5>3 DEF JobEnds
        <5>4. CASE JobFails(j)
          BY <2>5, <3>1, <5>4 DEF JobFails
        <5> QED BY <2>7, <5>1, <5>2, <5>3, <5>4
      <4> HIDE DEF Job
      <4> QED BY <2>5, <4>1
    <3>3. rest' = rest \/ rest' = <<>>
      BY <2>7 DEF PollTick, Drain, JobEnds, JobFails
    <3>4. shown' \subseteq Events /\ lost' \subseteq Events
      BY <2>4, <2>7, <3>1 DEF PollTick, Drain, JobEnds, JobFails
    <3>5. active' \in BOOLEAN /\ busy' \in BOOLEAN /\ connects' = connects
      BY <1>1, <2>7 DEF PollTick, Drain, JobEnds, JobFails, TypeOK
    <3>6. failures' \in 0 .. MaxFailures
      BY <1>1, <2>7, ConstantsAssumption DEF PollTick, Drain, JobEnds, JobFails, TypeOK
    <3>7. rest' \in Seq(Events) /\ Len(rest') <= MaxQueue
      BY <1>1, <2>4, <3>3 DEF TypeOK
    <3> QED BY <1>1, <2>2, <3>2, <3>4, <3>5, <3>6, <3>7 DEF TypeOK
  <2> QED BY <1>3, <2>3, <2>6, <2>7 DEF TypeStage
<1> QED BY <1>2, <1>3

-----------------------------------------------------------------------------
(* The REST queue.                                                         *)

(* A step that moves no event.                                             *)
LEMMA OnceStays ==
  ASSUME OnceInv, UNCHANGED <<rest, shown, lost>>, \A e \in Events : Queued(e)' <=> Queued(e),
         \A j \in Jobs : /\ jobs'[j].batch = jobs[j].batch
                         /\ jobs'[j].at = "answered" <=> jobs[j].at = "answered"
  PROVE  OnceInv'
  BY DEF OnceInv

LEMMA QueuedStays ==
  ASSUME TypeStage, Next, \A t \in Threads : ~ RestPut(t)
  PROVE  \A e \in Events : Queued(e)' <=> Queued(e)
<1>1. TypeOK /\ StageInv
  BY DEF TypeStage
<1>2. wiring' = wiring
  BY DEF Next, Worker, Emit, RestPut, EqPut, Pump, Cast, CastStart, CastSend, CastEnd, Join, Leave,
         HandlerEnds, Connect, Disconnect, PollTick, Drain, JobEnds, JobFails, workVars
<1>3. RestKinds' = RestKinds /\ \A e : Kind(e)' = Kind(e)
  BY <1>2 DEF RestKinds, Kind
<1>4. made \in [Threads -> Nat] /\ stage \in [Threads -> {"idle", "rest", "eq", "cast"}]
  BY <1>1 DEF TypeOK
<1> SUFFICES ASSUME NEW e \in Events, NEW t \in Threads, t = e[1], e[2] \in Nat
             PROVE  (e[2] < made'[t] \/ (e[2] = made'[t] /\ stage'[t] \in {"eq", "idle"}))
                      <=> (e[2] < made[t] \/ (e[2] = made[t] /\ stage[t] \in {"eq", "idle"}))
  BY <1>3, EventFacts DEF Queued
<1>6. CASE made' = made /\ stage' = stage
  BY <1>6
<1>7. ASSUME NEW c \in Threads, Emit(c)
      PROVE  (e[2] < made'[t] \/ (e[2] = made'[t] /\ stage'[t] \in {"eq", "idle"}))
               <=> (e[2] < made[t] \/ (e[2] = made[t] /\ stage[t] \in {"eq", "idle"}))
  <2>1. CASE t = c
    <3>1. made'[t] = made[t] + 1 /\ stage[t] = "idle" /\ stage'[t] \in {"rest", "cast"} /\ made[t] \in Nat
      BY <1>4, <1>7, <2>1 DEF Emit
    <3> QED BY <3>1
  <2>2. CASE t # c
    BY <1>4, <1>7, <2>2 DEF Emit
  <2> QED BY <2>1, <2>2
<1>8. ASSUME NEW c \in Threads, EqPut(c)
      PROVE  (e[2] < made'[t] \/ (e[2] = made'[t] /\ stage'[t] \in {"eq", "idle"}))
               <=> (e[2] < made[t] \/ (e[2] = made[t] /\ stage[t] \in {"eq", "idle"}))
  BY <1>4, <1>8 DEF EqPut
<1>9. ASSUME NEW g \in Threads \cup {Gui}, Cast(g)
      PROVE  (e[2] < made'[t] \/ (e[2] = made'[t] /\ stage'[t] \in {"eq", "idle"}))
               <=> (e[2] < made[t] \/ (e[2] = made[t] /\ stage[t] \in {"eq", "idle"}))
  <2>1. made' = made
    BY <1>9 DEF Cast, CastStart, CastSend, CastEnd
  <2>2. CASE stage' = stage
    BY <2>1, <2>2
  <2>3. CASE stage' # stage
    <3>1. Finish(g) /\ HasCurrent(g)
      BY <1>1, <1>9, <2>3 DEF Cast, CastStart, CastSend, CastEnd, StageInv
    <3>2. /\ g = Gui => stage' = stage
          /\ g # Gui => /\ stage[g] = "cast" /\ stage'[g] = "rest"
                        /\ \A c \in Threads : c # g => stage'[c] = stage[c]
      BY <1>1, <3>1, FinishFacts
    <3> QED BY <2>1, <2>3, <3>2
  <2> QED BY <2>2, <2>3
<1>10. CASE ~ \E c \in Threads : Emit(c) \/ EqPut(c) \/ Cast(c)
  <2>1. CASE Cast(Gui)
    BY <1>9, <2>1
  <2>2. CASE ~ Cast(Gui)
    <3>1. made' = made /\ stage' = stage
      BY <1>10, <2>2 DEF Next, Worker, Pump, Join, Leave, HandlerEnds, Connect, Disconnect, PollTick,
                         Drain, JobEnds, JobFails, workVars
    <3> QED BY <1>6, <3>1
  <2> QED BY <2>1, <2>2
<1> QED BY <1>7, <1>8, <1>9, <1>10

(* enqueue_event(): the event had no place before.                         *)
LEMMA PutOnce ==
  ASSUME TypeStage, OnceInv, NEW t \in Threads, RestPut(t)
  PROVE  OnceInv'
<1>1. TypeOK /\ StageInv
  BY DEF TypeStage
<1> DEFINE e == <<t, made[t]>>
<1>2. /\ stage[t] = "rest" /\ UNCHANGED <<wiring, made, jobs, shown>>
      /\ stage' = [stage EXCEPT ![t] = IF wiring = "window" THEN "eq" ELSE "idle"]
  BY DEF RestPut, pollVars
<1>3. e \in Events /\ e[1] = t /\ e[2] = made[t] /\ made[t] \in Nat
  BY <1>1, <1>2, BusyFacts, Types
<1>4. \/ Kind(e) \notin RestKinds /\ rest' = rest /\ lost' = lost
      \/ Kind(e) \in RestKinds /\ rest' = Append(rest, e) /\ lost' = lost
      \/ /\ Kind(e) \in RestKinds /\ Len(rest) = MaxQueue
         /\ rest' = Append(Tail(rest), e) /\ lost' = lost \cup {Head(rest)}
  BY DEF RestPut
<1>5. ~ Queued(e)
  BY <1>2, <1>3 DEF Queued
<1> HIDE DEF e
<1>6. \A f \in Events : Queued(f)' <=> Queued(f) \/ (f = e /\ Kind(e) \in RestKinds)
  <2>1. RestKinds' = RestKinds /\ \A f : Kind(f)' = Kind(f)
    BY <1>2 DEF RestKinds, Kind
  <2>2. stage \in [Threads -> {"idle", "rest", "eq", "cast"}]
    BY <1>1 DEF TypeOK
  <2>3. ASSUME NEW f \in Events, f[1] # t
        PROVE  Queued(f)' <=> Queued(f)
    BY <1>2, <2>1, <2>2, <2>3, EventFacts DEF Queued
  <2>4. ASSUME NEW f \in Events, f[1] = t
        PROVE  Queued(f)' <=> Queued(f) \/ (f = e /\ Kind(e) \in RestKinds)
    <3>1. stage'[t] \in {"eq", "idle"} /\ stage[t] = "rest" /\ made'[t] = made[t]
      BY <1>2, <2>2
    <3>2. f = <<t, f[2]>> /\ f[2] \in Nat
      BY <2>4, EventFacts
    <3>3. f[2] = made[t] <=> f = e
      BY <3>2 DEF e
    <3> QED BY <1>3, <2>1, <2>4, <3>1, <3>2, <3>3 DEF Queued
  <2> QED BY <1>3, <2>3, <2>4
<1>7. rest \in Seq(Events)
  BY <1>1 DEF TypeOK
<1>8. e \notin Elements(rest) /\ e \notin shown /\ e \notin lost /\ \A j \in Jobs : e \notin jobs[j].batch
  BY <1>3, <1>5 DEF OnceInv
<1>9. CASE Kind(e) \notin RestKinds /\ rest' = rest /\ lost' = lost
  BY <1>2, <1>6, <1>9, OnceStays
<1>10. CASE Kind(e) \in RestKinds /\ rest' = Append(rest, e) /\ lost' = lost
  <2>1. /\ Elements(rest') = Elements(rest) \cup {e}
        /\ \A i, k \in DOMAIN rest' : rest'[i] = rest'[k] => i = k
    BY <1>3, <1>7, <1>8, <1>10, AppendElements DEF OnceInv
  <2>2. Elements(rest)' = Elements(rest')
    BY DEF Elements
  <2> QED BY <1>2, <1>6, <1>8, <1>10, <2>1, <2>2 DEF OnceInv
<1>11. CASE /\ Kind(e) \in RestKinds /\ Len(rest) = MaxQueue
            /\ rest' = Append(Tail(rest), e) /\ lost' = lost \cup {Head(rest)}
  <2> DEFINE h == Head(rest)
             tl == Tail(rest)
  <2>1. rest # <<>>
    BY <1>7, <1>11, ConstantsAssumption
  <2>2. /\ tl \in Seq(Events) /\ Elements(rest) = Elements(tl) \cup {h} /\ h \notin Elements(tl)
        /\ \A i, k \in DOMAIN tl : tl[i] = tl[k] => i = k
    BY <1>7, <2>1, TailFacts, TailElements DEF OnceInv
  <2>3. rest' = Append(tl, e) /\ lost' = lost \cup {h}
    BY <1>11
  <2> HIDE DEF h, tl
  <2>4. e \notin Elements(tl) /\ e # h
    BY <1>8, <2>2
  <2>5. /\ Elements(rest') = Elements(tl) \cup {e}
        /\ \A i, k \in DOMAIN rest' : rest'[i] = rest'[k] => i = k
    BY <1>3, <2>2, <2>3, <2>4, AppendElements
  <2>6. Elements(rest)' = Elements(rest')
    BY DEF Elements
  <2> QED BY <1>2, <1>6, <1>8, <1>11, <2>2, <2>3, <2>4, <2>5, <2>6 DEF OnceInv
<1> QED BY <1>4, <1>9, <1>10, <1>11

(* The polls.                                                              *)
LEMMA PollOnce ==
  ASSUME TypeStage, OnceInv, NEW j \in Jobs, PollTick(j) \/ Drain(j) \/ JobEnds(j) \/ JobFails(j),
         \A e \in Events : Queued(e)' <=> Queued(e)
  PROVE  OnceInv'
<1>1. \A k \in Jobs : jobs[k].batch \subseteq Events
  BY Types DEF TypeStage
<1>2. jobs \in [Jobs -> [at : {"free", "asked", "given_up", "answered"}, batch : SUBSET Events]]
  BY DEF TypeStage, TypeOK
<1>3. NoJob.batch = {} /\ NoJob.at = "free"
  BY DEF NoJob
<1>4. Elements(rest)' = Elements(rest') /\ Elements(<<>>) = {} /\ DOMAIN <<>> = {}
  BY EmptyElements DEF Elements
(* The job only changes its state.                                         *)
<1>5. CASE /\ UNCHANGED <<rest, shown, lost>>
           /\ \E x \in {"free", "asked", "given_up"} : jobs[j].at # "answered" /\ jobs' = [jobs EXCEPT ![j].at = x]
  <2>1. PICK x \in {"free", "asked", "given_up"} : jobs[j].at # "answered" /\ jobs' = [jobs EXCEPT ![j].at = x]
    BY <1>5
  <2>2. \A k \in Jobs : /\ jobs'[k].batch = jobs[k].batch
                        /\ jobs'[k].at = "answered" <=> jobs[k].at = "answered"
    <3>1. jobs'[j].at = x /\ jobs'[j].batch = jobs[j].batch
      BY <1>2, <2>1
    <3>2. \A k \in Jobs : k # j => jobs'[k] = jobs[k]
      BY <1>2, <2>1
    <3> QED BY <2>1, <3>1, <3>2
  <2> QED BY <1>5, <2>2, OnceStays
(* The whole queue becomes the answer of the job.                          *)
<1>6. CASE /\ jobs[j].at = "asked" /\ rest' = <<>> /\ UNCHANGED <<shown, lost>>
           /\ jobs' = [jobs EXCEPT ![j] = [at |-> "answered", batch |-> Elements(rest)]]
  <2>1. /\ jobs'[j].batch = Elements(rest) /\ jobs'[j].at = "answered" /\ jobs[j].batch = {}
        /\ \A k \in Jobs : k # j => jobs'[k] = jobs[k]
    BY <1>2, <1>6 DEF OnceInv
  <2> QED BY <1>4, <1>6, <2>1 DEF OnceInv
<1>7. CASE /\ jobs[j].at # "answered" /\ rest' = <<>> /\ lost' = lost \cup Elements(rest) /\ shown' = shown
           /\ jobs' = [jobs EXCEPT ![j] = NoJob]
  <2>1. /\ jobs'[j].batch = {} /\ jobs'[j].at = "free" /\ jobs[j].batch = {}
        /\ \A k \in Jobs : k # j => jobs'[k] = jobs[k]
    BY <1>2, <1>3, <1>7 DEF OnceInv
  <2> QED BY <1>4, <1>7, <2>1 DEF OnceInv
(* The answer is shown or lost.                                            *)
<1>8. CASE /\ rest' = rest /\ jobs' = [jobs EXCEPT ![j] = NoJob]
           /\ \/ shown' = shown \cup jobs[j].batch /\ lost' = lost
              \/ lost' = lost \cup jobs[j].batch /\ shown' = shown
  <2>1. /\ jobs'[j].batch = {} /\ jobs'[j].at = "free"
        /\ \A k \in Jobs : k # j => jobs'[k] = jobs[k]
    BY <1>2, <1>3, <1>8
  <2> DEFINE B == jobs[j].batch
  <2>2. B \cap (Elements(rest) \cup shown \cup lost) = {} /\ \A k \in Jobs : k # j => jobs[k].batch \cap B = {}
    BY DEF OnceInv
  <2> HIDE DEF B
  <2>3. \/ shown' = shown \cup B /\ lost' = lost
        \/ lost' = lost \cup B /\ shown' = shown
    BY <1>8 DEF B
  <2>4. \A e : (\E k \in Jobs : e \in jobs[k].batch) <=> e \in B \/ \E k \in Jobs : e \in jobs'[k].batch
    BY <2>1 DEF B
  <2> QED BY <1>4, <1>8, <2>1, <2>2, <2>3, <2>4 DEF OnceInv
<1> QED BY <1>5, <1>6, <1>7, <1>8 DEF PollTick, Drain, JobEnds, JobFails

LEMMA OnceKeeps ==
  ASSUME TypeStage, OnceInv, Next
  PROVE  OnceInv'
<1>1. CASE \E t \in Threads : RestPut(t)
  BY <1>1, PutOnce
<1>2. CASE ~ \E t \in Threads : RestPut(t)
  <2>1. \A e \in Events : Queued(e)' <=> Queued(e)
    BY <1>2, QueuedStays
  <2>2. CASE \E j \in Jobs : PollTick(j) \/ Drain(j) \/ JobEnds(j) \/ JobFails(j)
    BY <2>1, <2>2, PollOnce
  <2>3. CASE ~ \E j \in Jobs : PollTick(j) \/ Drain(j) \/ JobEnds(j) \/ JobFails(j)
    <3>1. UNCHANGED <<rest, shown, lost, jobs>>
      BY <1>2, <2>3 DEF Next, Worker, Emit, EqPut, Pump, Cast, CastStart, CastSend, CastEnd, Join, Leave,
                        HandlerEnds, Connect, Disconnect, pollVars
    <3> QED BY <2>1, <3>1, OnceStays
  <2> QED BY <2>2, <2>3
<1> QED BY <1>1, <1>2

(* The three counts of an event are at most one each.                      *)
LEMMA OnceCounts ==
  ASSUME OnceInv
  PROVE  EachEventOnce
<1> SUFFICES ASSUME NEW e \in Events
             PROVE  Cardinality({i \in DOMAIN rest : rest[i] = e})
                      + Cardinality({j \in Jobs : e \in jobs[j].batch})
                      + Cardinality({S \in {<<"shown", shown>>, <<"lost", lost>>} : e \in S[2]})
                    = IF Queued(e) THEN 1 ELSE 0
  BY DEF EachEventOnce
<1> DEFINE R == {i \in DOMAIN rest : rest[i] = e}
           J == {j \in Jobs : e \in jobs[j].batch}
           P == {S \in {<<"shown", shown>>, <<"lost", lost>>} : e \in S[2]}
           inRest == e \in Elements(rest)
           inJobs == \E j \in Jobs : e \in jobs[j].batch
           inBoth == e \in shown \cup lost
<1>1. Cardinality({}) = 0 /\ \A x : Cardinality({x}) = 1
  BY FS_EmptySet, FS_Singleton
<1>2. Cardinality(R) = IF inRest THEN 1 ELSE 0
  <2>1. CASE inRest
    <3>1. PICK i \in DOMAIN rest : rest[i] = e
      BY <2>1 DEF Elements
    <3>2. R = {i}
      BY <3>1 DEF OnceInv
    <3> QED BY <1>1, <2>1, <3>2
  <2>2. CASE ~ inRest
    <3>1. R = {}
      BY <2>2 DEF Elements
    <3> QED BY <1>1, <2>2, <3>1
  <2> QED BY <2>1, <2>2
<1>3. Cardinality(J) = IF inJobs THEN 1 ELSE 0
  <2>1. CASE inJobs
    <3>1. PICK j \in Jobs : e \in jobs[j].batch
      BY <2>1
    <3>2. J = {j}
      BY <3>1 DEF OnceInv
    <3> QED BY <1>1, <2>1, <3>2
  <2>2. CASE ~ inJobs
    <3>1. J = {}
      BY <2>2
    <3> QED BY <1>1, <2>2, <3>1
  <2> QED BY <2>1, <2>2
<1>4. Cardinality(P) = IF inBoth THEN 1 ELSE 0
  <2>1. CASE e \in shown
    <3>1. e \notin lost
      BY <2>1 DEF OnceInv
    <3>2. P = {<<"shown", shown>>}
      BY <2>1, <3>1
    <3> QED BY <1>1, <2>1, <3>2
  <2>2. CASE e \notin shown /\ e \in lost
    <3>1. P = {<<"lost", lost>>}
      BY <2>2
    <3> QED BY <1>1, <2>2, <3>1
  <2>3. CASE e \notin shown /\ e \notin lost
    <3>1. P = {}
      BY <2>3
    <3> QED BY <1>1, <2>3, <3>1
  <2> QED BY <2>1, <2>2, <2>3
<1>5. ~(inRest /\ inJobs) /\ ~(inRest /\ inBoth) /\ ~(inJobs /\ inBoth)
  BY DEF OnceInv
<1>6. Queued(e) <=> inRest \/ inJobs \/ inBoth
  BY DEF OnceInv
<1> HIDE DEF R, J, P, inRest, inJobs, inBoth
<1>7. Cardinality(R) + Cardinality(J) + Cardinality(P) = IF Queued(e) THEN 1 ELSE 0
  BY <1>2, <1>3, <1>4, <1>5, <1>6
<1> QED BY <1>7 DEF R, J, P

-----------------------------------------------------------------------------
(* The TCP clients.                                                        *)

LEMMA SockStays ==
  ASSUME SockInv, UNCHANGED <<clients, sock, last, cast>>
  PROVE  SockInv'
  BY DEF SockInv

LEMMA SockKeeps ==
  ASSUME TypeStage, SockInv, Next
  PROVE  SockInv'
<1>1. TypeOK /\ StageInv
  BY DEF TypeStage
<1>2. /\ cast \in [Threads \cup {Gui} -> Casts] /\ sock \in [Clients -> {"none", "open", "gone", "dead"}]
      /\ clients \subseteq Clients
      /\ \A g \in Threads \cup {Gui} : cast[g].to \subseteq Clients /\ cast[g].dead \subseteq Clients
  BY <1>1, Types DEF TypeOK, Casts
<1>3. ASSUME NEW g \in Threads \cup {Gui}, HasCurrent(g), Finish(g), UNCHANGED <<sock, last>>,
             clients' = clients \/ clients' = clients \ cast[g].dead
      PROVE  SockInv'
  <2>1. /\ cast'[g] = NoCast /\ \A h \in Threads \cup {Gui} : h # g => cast'[h] = cast[h]
    BY <1>1, <1>3, FinishFacts
  <2>2. NoCast.to = {} /\ NoCast.dead = {}
    BY DEF NoCast
  <2>3. \A h \in Threads \cup {Gui} :
          /\ \A c \in cast'[h].dead : sock[c] = "dead"
          /\ \A c \in cast'[h].to : sock[c] # "none"
    BY <2>1, <2>2 DEF SockInv
  <2>4. \A c \in Clients : sock[c] = "open" => c \notin cast[g].dead
    BY DEF SockInv
  <2> QED BY <1>3, <2>3, <2>4 DEF SockInv
<1>4. ASSUME NEW g \in Threads \cup {Gui}, CastStart(g)
      PROVE  SockInv'
  <2>1. HasCurrent(g) /\ UNCHANGED <<clients, sock, last>>
    BY <1>4 DEF CastStart, tcpVars
  <2>2. CASE Finish(g)
    BY <1>3, <2>1, <2>2
  <2>3. CASE cast' = [cast EXCEPT ![g] = [on |-> TRUE, to |-> clients, dead |-> {}]]
    <3>1. /\ cast'[g].to = clients /\ cast'[g].dead = {}
          /\ \A h \in Threads \cup {Gui} : h # g => cast'[h] = cast[h]
      BY <1>2, <2>3
    <3>2. \A c \in clients : sock[c] # "none"
      BY <1>2 DEF SockInv
    <3>3. \A h \in Threads \cup {Gui} :
            /\ \A c \in cast'[h].dead : sock[c] = "dead"
            /\ \A c \in cast'[h].to : sock[c] # "none"
      BY <3>1, <3>2 DEF SockInv
    <3> QED BY <2>1, <3>3 DEF SockInv
  <2> QED BY <1>4, <2>2, <2>3 DEF CastStart
<1>5. ASSUME NEW g \in Threads \cup {Gui}, CastSend(g)
      PROVE  SockInv'
  <2>1. clients' = clients
    BY <1>5 DEF CastSend
  <2>2. PICK c \in cast[g].to, ok \in BOOLEAN :
           /\ cast[g].on /\ HasCurrent(g) /\ c \in Clients
           /\ cast' \in [Threads \cup {Gui} -> Casts]
           /\ \A h \in Threads \cup {Gui} : h # g => cast'[h] = cast[h]
           /\ cast'[g].on /\ cast'[g].to = cast[g].to \ {c}
           /\ cast'[g].dead = IF ok THEN cast[g].dead ELSE cast[g].dead \cup {c}
           /\ sock' \in [Clients -> {"none", "open", "gone", "dead"}]
           /\ sock'[c] = IF ok THEN sock[c] ELSE "dead"
           /\ (~ ok => sock[c] # "open")
           /\ \A d \in Clients : d # c => sock'[d] = sock[d]
           /\ last' \in [Clients -> [Threads -> Nat]]
           /\ \A d \in Clients, t \in Threads :
                last'[d][t] = IF d = c /\ sock[c] = "open" /\ t = Current(g)[1]
                              THEN Current(g)[2] ELSE last[d][t]
    BY <1>1, <1>5, SendFacts
  <2>3. \A d \in Clients : /\ sock'[d] = "open" => sock[d] = "open"
                           /\ sock[d] = "dead" => sock'[d] = "dead"
                           /\ sock'[d] = "none" <=> sock[d] = "none"
    BY <2>2 DEF SockInv
  <2>4. \A d \in Clients : sock'[d] = "none" => \A t \in Threads : last'[d][t] = 0
    BY <2>2, <2>3 DEF SockInv
  <2>5. ASSUME NEW h \in Threads \cup {Gui}
        PROVE  /\ \A d \in cast'[h].dead : sock'[d] = "dead"
               /\ \A d \in cast'[h].to : sock'[d] # "none"
    BY <1>2, <2>2, <2>3 DEF SockInv
  <2> QED BY <2>1, <2>3, <2>4, <2>5 DEF SockInv
<1>6. ASSUME NEW g \in Threads \cup {Gui}, CastEnd(g)
      PROVE  SockInv'
  BY <1>1, <1>3, <1>6 DEF CastEnd, StageInv
<1>7. ASSUME NEW c \in Clients, Join(c)
      PROVE  SockInv'
  <2>1. UNCHANGED <<cast, last>> /\ sock[c] = "none"
    BY <1>7 DEF Join, workVars
  <2>2. \/ clients' = clients \cup {c} /\ sock' = [sock EXCEPT ![c] = "open"]
        \/ clients' = clients /\ sock' = [sock EXCEPT ![c] = "dead"]
    BY <1>7 DEF Join
  <2>3. (\A d \in Clients : d # c => sock'[d] = sock[d]) /\ sock'[c] \in {"open", "dead"}
        /\ (sock'[c] = "open" => c \in clients')
    BY <1>2, <2>2
  <2>4. \A g \in Threads \cup {Gui} : c \notin cast[g].dead
    BY <1>2, <2>1 DEF SockInv
  <2>5. \A d \in Clients : /\ sock'[d] = "open" => d \in clients'
                           /\ d \in clients' => sock'[d] # "none"
                           /\ sock'[d] = "none" => \A t \in Threads : last[d][t] = 0
    BY <2>2, <2>3 DEF SockInv
  <2>6. ASSUME NEW h \in Threads \cup {Gui}
        PROVE  /\ \A d \in cast[h].dead : sock'[d] = "dead"
               /\ \A d \in cast[h].to : sock'[d] # "none"
    BY <1>2, <2>3, <2>4 DEF SockInv
  <2> QED BY <2>1, <2>5, <2>6 DEF SockInv
<1>8. ASSUME NEW c \in Clients, Leave(c) \/ HandlerEnds(c)
      PROVE  SockInv'
  <2>1. UNCHANGED <<cast, last>>
    BY <1>8 DEF Leave, HandlerEnds, workVars
  <2>2. \/ sock[c] = "open" /\ sock' = [sock EXCEPT ![c] = "gone"] /\ clients' = clients
        \/ /\ sock[c] \in {"gone", "dead"} /\ sock' = [sock EXCEPT ![c] = "dead"]
           /\ clients' = clients \ {c}
    BY <1>8 DEF Leave, HandlerEnds
  <2>3. (\A d \in Clients : d # c => sock'[d] = sock[d]) /\ sock'[c] \in {"gone", "dead"}
        /\ (sock[c] = "dead" => sock'[c] = "dead")
    BY <1>2, <2>2
  <2>4. \A d \in Clients : /\ sock'[d] = "open" => d \in clients'
                           /\ d \in clients' => sock'[d] # "none"
                           /\ sock'[d] = "none" => \A t \in Threads : last[d][t] = 0
    BY <2>2, <2>3 DEF SockInv
  <2>5. ASSUME NEW h \in Threads \cup {Gui}
        PROVE  /\ \A d \in cast[h].dead : sock'[d] = "dead"
               /\ \A d \in cast[h].to : sock'[d] # "none"
    BY <1>2, <2>3 DEF SockInv
  <2> QED BY <2>1, <2>4, <2>5 DEF SockInv
<1>9. CASE /\ \A g \in Threads \cup {Gui} : ~ Cast(g)
           /\ \A c \in Clients : ~(Join(c) \/ Leave(c) \/ HandlerEnds(c))
  <2>1. UNCHANGED <<clients, sock, last, cast>>
    BY <1>9 DEF Next, Worker, Emit, RestPut, EqPut, Pump, Connect, Disconnect, PollTick, Drain, JobEnds,
                JobFails, workVars, tcpVars
  <2> QED BY <2>1, SockStays
<1> QED BY <1>4, <1>5, <1>6, <1>7, <1>8, <1>9 DEF Cast

-----------------------------------------------------------------------------
(* The order of the events.                                                *)

LEMMA PutFacts ==
  ASSUME TypeStage, NEW t \in Threads
  PROVE  /\ Put(t) \in Nat /\ Put(t) <= made[t]
         /\ wiring = "window" /\ stage[t] # "idle" => Put(t) = made[t] - 1
         /\ wiring = "window" /\ stage[t] = "idle" => Put(t) = made[t]
         /\ wiring = "console" => Put(t) = made[t]
<1>1. made[t] \in Nat /\ (stage[t] # "idle" => made[t] # 0)
  BY Types DEF TypeStage, StageInv
<1> QED BY <1>1 DEF Put

(* What the threads do to Put: it is never taken back.                     *)
LEMMA PutSame ==
  ASSUME TypeStage, Next, NEW t \in Threads, ~ Emit(t), ~ EqPut(t)
  PROVE  Put(t)' = Put(t)
<1>1. TypeOK /\ StageInv
  BY DEF TypeStage
<1>2. wiring' = wiring
  BY DEF Next, Worker, Emit, RestPut, EqPut, Pump, Cast, CastStart, CastSend, CastEnd, Join, Leave,
         HandlerEnds, Connect, Disconnect, PollTick, Drain, JobEnds, JobFails, workVars
<1>3. made \in [Threads -> Nat] /\ stage \in [Threads -> {"idle", "rest", "eq", "cast"}]
  BY <1>1 DEF TypeOK
<1>4. CASE made'[t] = made[t] /\ stage'[t] = stage[t]
  BY <1>2, <1>4 DEF Put
<1>5. ASSUME NEW c \in Threads, Emit(c) \/ EqPut(c)
      PROVE  Put(t)' = Put(t)
  <2>1. c # t
    BY <1>5
  <2> QED BY <1>3, <1>4, <1>5, <2>1 DEF Emit, EqPut
<1>6. ASSUME NEW c \in Threads, RestPut(c)
      PROVE  Put(t)' = Put(t)
  <2>1. CASE c # t
    BY <1>3, <1>4, <1>6, <2>1 DEF RestPut
  <2>2. CASE c = t
    <3>1. made' = made /\ stage[t] = "rest" /\ stage'[t] = IF wiring = "window" THEN "eq" ELSE "idle"
      BY <1>3, <1>6, <2>2 DEF RestPut
    <3> QED BY <1>2, <3>1 DEF Put
  <2> QED BY <2>1, <2>2
<1>7. ASSUME NEW g \in Threads \cup {Gui}, Cast(g)
      PROVE  Put(t)' = Put(t)
  <2>1. made' = made
    BY <1>7 DEF Cast, CastStart, CastSend, CastEnd
  <2>2. CASE stage' = stage
    BY <1>4, <2>1, <2>2
  <2>3. CASE stage' # stage
    <3>1. Finish(g) /\ HasCurrent(g)
      BY <1>1, <1>7, <2>3 DEF Cast, CastStart, CastSend, CastEnd, StageInv
    <3>2. /\ g = Gui => stage' = stage
          /\ g # Gui => \A c \in Threads : c # g => stage'[c] = stage[c]
      BY <1>1, <3>1, FinishFacts
    <3>3. g # Gui => wiring = "console"
      BY <1>1, <3>1, CurrentFacts
    <3> QED BY <1>2, <2>1, <2>3, <3>2, <3>3 DEF Put
  <2> QED BY <2>2, <2>3
<1>8. CASE /\ \A c \in Threads : ~ Worker(c)
           /\ \A g \in Threads \cup {Gui} : ~ Cast(g)
  <2>1. made' = made /\ stage' = stage
    BY <1>8 DEF Next, Worker, Pump, Join, Leave, HandlerEnds, Connect, Disconnect, PollTick, Drain,
                JobEnds, JobFails, workVars
  <2> QED BY <1>4, <2>1
<1> QED BY <1>5, <1>6, <1>7, <1>8 DEF Worker

LEMMA EmitFacts ==
  ASSUME TypeStage, NEW t \in Threads, Emit(t)
  PROVE  /\ Put(t)' = IF wiring = "window" THEN Put(t) ELSE made[t] + 1
         /\ stage[t] = "idle" /\ made'[t] = made[t] + 1 /\ wiring' = wiring
         /\ stage'[t] = IF wiring = "window" THEN "rest" ELSE "cast"
         /\ \A c \in Threads : c # t => made'[c] = made[c] /\ stage'[c] = stage[c]
         /\ UNCHANGED <<eq, pumped, cast, sock, last>>
<1>1. made \in [Threads -> Nat] /\ stage \in [Threads -> {"idle", "rest", "eq", "cast"}]
  BY DEF TypeStage, TypeOK
<1>2. /\ stage[t] = "idle" /\ made'[t] = made[t] + 1 /\ wiring' = wiring
      /\ stage'[t] = IF wiring = "window" THEN "rest" ELSE "cast"
      /\ \A c \in Threads : c # t => made'[c] = made[c] /\ stage'[c] = stage[c]
      /\ UNCHANGED <<eq, pumped, cast, sock, last>>
  BY <1>1 DEF Emit, tcpVars
<1>3. made[t] \in Nat
  BY <1>1
<1> QED BY <1>2, <1>3 DEF Put

LEMMA EqFacts ==
  ASSUME TypeStage, NEW t \in Threads, EqPut(t)
  PROVE  /\ Put(t)' = made[t] /\ Put(t) = made[t] - 1 /\ made[t] \in Nat
         /\ wiring = "window" /\ wiring' = wiring /\ made' = made
         /\ stage[t] = "eq" /\ stage'[t] = "idle"
         /\ \A c \in Threads : c # t => stage'[c] = stage[c]
         /\ <<t, made[t]>> \in Events /\ eq' = Append(eq, <<t, made[t]>>)
         /\ UNCHANGED <<pumped, cast, sock, last>>
<1>1. TypeOK /\ StageInv /\ stage \in [Threads -> {"idle", "rest", "eq", "cast"}]
  BY DEF TypeStage, TypeOK
<1>2. /\ stage[t] = "eq" /\ stage'[t] = "idle" /\ wiring' = wiring /\ made' = made
      /\ \A c \in Threads : c # t => stage'[c] = stage[c]
      /\ eq' = Append(eq, <<t, made[t]>>) /\ UNCHANGED <<pumped, cast, sock, last>>
  BY <1>1 DEF EqPut, tcpVars
<1>3. wiring = "window" /\ made[t] \in Nat
  BY <1>1, <1>2, Types DEF StageInv
<1>4. <<t, made[t]>> \in Events
  BY <1>1, <1>2, BusyFacts
<1> QED BY <1>2, <1>3, <1>4 DEF Put

LEMMA EqGrows ==
  ASSUME TypeStage, NEW t \in Threads, EqPut(t)
  PROVE  eq' # eq
<1>1. eq \in Seq(Events) /\ <<t, made[t]>> \in Events /\ eq' = Append(eq, <<t, made[t]>>)
  BY EqFacts DEF TypeStage, TypeOK
<1>2. Len(eq') = Len(eq) + 1 /\ Len(eq) \in Nat
  BY <1>1, AppendFacts
<1> QED BY <1>2

LEMMA QueueKeeps ==
  ASSUME TypeStage, QueueInv, Next
  PROVE  QueueInv'
<1>1. TypeOK /\ StageInv /\ eq \in Seq(Events) /\ pumped \in Seq(Events)
  BY DEF TypeStage, TypeOK
<1>2. \A e \in Elements(eq) \cup Elements(pumped) : e[1] \in Threads /\ e[2] \in Nat
  BY <1>1, EventFacts DEF Elements
<1>3. \A t \in Threads : Put(t) \in Nat /\ Put(t)' \in Nat /\ Put(t) <= Put(t)'
  <2> SUFFICES ASSUME NEW t \in Threads
               PROVE  Put(t) \in Nat /\ Put(t)' \in Nat /\ Put(t) <= Put(t)'
    OBVIOUS
  <2>1. Put(t) \in Nat /\ Put(t) <= made[t] /\ made[t] \in Nat
    BY <1>1, PutFacts, Types
  <2>2. CASE Emit(t)
    <3>1. Put(t)' = IF wiring = "window" THEN Put(t) ELSE made[t] + 1
      BY <2>2, EmitFacts
    <3> QED BY <2>1, <3>1
  <2>3. CASE EqPut(t)
    <3>1. Put(t)' = made[t]
      BY <2>3, EqFacts
    <3> QED BY <2>1, <3>1
  <2>4. CASE ~ Emit(t) /\ ~ EqPut(t)
    <3>1. Put(t)' = Put(t)
      BY <2>4, PutSame
    <3> QED BY <2>1, <3>1
  <2> QED BY <2>2, <2>3, <2>4
<1>4. ASSUME NEW e \in Elements(eq) \cup Elements(pumped)
      PROVE  e[2] <= Put(e[1])'
  <2> DEFINE t == e[1]
             n == e[2]
  <2>1. n <= Put(t)
    BY DEF QueueInv
  <2>2. t \in Threads /\ n \in Nat
    BY <1>2
  <2>3. Put(t) \in Nat /\ Put(t)' \in Nat /\ Put(t) <= Put(t)'
    BY <1>3, <2>2
  <2> HIDE DEF t, n
  <2>4. n <= Put(t)'
    BY <2>1, <2>2, <2>3
  <2> QED BY <2>4 DEF t, n
<1>5. Elements(eq)' = Elements(eq') /\ Elements(pumped)' = Elements(pumped')
  BY DEF Elements
<1>6. CASE UNCHANGED <<eq, pumped>>
  BY <1>5, <1>6, <1>4 DEF QueueInv
<1>7. ASSUME NEW t \in Threads, EqPut(t)
      PROVE  QueueInv'
  <2> DEFINE n == made[t]
             x == <<t, n>>
  <2>1. /\ Put(t)' = n /\ Put(t) = n - 1 /\ n \in Nat /\ x \in Events
        /\ eq' = Append(eq, x) /\ pumped' = pumped
    BY <1>7, EqFacts
  <2>2. x[1] = t /\ x[2] = n
    OBVIOUS
  <2> HIDE DEF n, x
  <2>3. \A i \in DOMAIN eq' : (i \in DOMAIN eq /\ eq'[i] = eq[i]) \/ (i = Len(eq) + 1 /\ eq'[i] = x)
    BY <1>1, <2>1, AppendFacts
  <2>4. \A i \in DOMAIN eq : i \in 1 .. Len(eq) /\ Len(eq) \in Nat
    BY <1>1
  <2>5. \A e \in Elements(eq) \cup Elements(pumped) : e[2] <= Put(e[1]) /\ (e[1] = t => e[2] < n)
    <3>1. \A e \in Elements(eq) \cup Elements(pumped) : e[2] <= Put(e[1])
      BY DEF QueueInv
    <3> QED BY <1>2, <2>1, <3>1
  <2>6. ASSUME NEW e \in Elements(eq') \cup Elements(pumped')
        PROVE  e[2] <= Put(e[1])'
    <3>1. e = x \/ e \in Elements(eq) \cup Elements(pumped)
      BY <2>1, <2>3 DEF Elements
    <3>2. e \in Elements(eq) \cup Elements(pumped) => e[2] <= Put(e[1])'
      BY <1>4
    <3> QED BY <2>1, <2>2, <3>1, <3>2
  <2>7. ASSUME NEW i \in DOMAIN eq', NEW k \in DOMAIN eq', i < k, eq'[i][1] = eq'[k][1]
        PROVE  eq'[i][2] < eq'[k][2]
    <3>1. i \in DOMAIN eq /\ eq'[i] = eq[i]
      BY <2>3, <2>4, <2>7, <1>1, AppendFacts
    <3>2. CASE k \in DOMAIN eq /\ eq'[k] = eq[k]
      BY <2>7, <3>1, <3>2 DEF QueueInv
    <3>3. CASE eq'[k] = x
      <4>1. eq[i] \in Elements(eq)
        BY <3>1 DEF Elements
      <4> QED BY <2>2, <2>5, <2>7, <3>1, <3>3, <4>1
    <3> QED BY <2>3, <3>2, <3>3
  <2>8. ASSUME NEW i \in DOMAIN pumped, NEW k \in DOMAIN eq', pumped[i][1] = eq'[k][1]
        PROVE  pumped[i][2] < eq'[k][2]
    <3>1. pumped[i] \in Elements(pumped)
      BY DEF Elements
    <3>2. CASE k \in DOMAIN eq /\ eq'[k] = eq[k]
      BY <2>8, <3>2 DEF QueueInv
    <3>3. CASE eq'[k] = x
      BY <2>2, <2>5, <2>8, <3>1, <3>3
    <3> QED BY <2>3, <3>2, <3>3
  <2> QED BY <1>5, <2>1, <2>6, <2>7, <2>8 DEF QueueInv
<1>8. CASE Pump
  <2>1. pumped' = eq /\ eq' = <<>>
    BY <1>8 DEF Pump
  <2>2. \A e \in Elements(eq) : e[2] <= Put(e[1])'
    BY <1>4
  <2> QED BY <1>5, <2>1, <2>2, EmptyElements DEF QueueInv
<1>9. CASE pumped' = Tail(pumped) /\ eq' = eq /\ pumped # <<>>
  <2> DEFINE tl == Tail(pumped)
  <2>1. \A i \in DOMAIN tl : i \in Nat /\ i + 1 \in DOMAIN pumped /\ tl[i] = pumped[i + 1]
    BY <1>1, <1>9, TailFacts
  <2>2. pumped' = tl /\ eq' = eq
    BY <1>9
  <2> HIDE DEF tl
  <2>3. Elements(tl) \subseteq Elements(pumped)
    BY <2>1 DEF Elements
  <2>4. \A e \in Elements(eq) \cup Elements(tl) : e[2] <= Put(e[1])'
    BY <1>4, <2>3
  <2>5. ASSUME NEW i \in DOMAIN tl, NEW k \in DOMAIN tl, i < k, tl[i][1] = tl[k][1]
        PROVE  tl[i][2] < tl[k][2]
    <3>1. i + 1 < k + 1
      BY <2>1, <2>5
    <3> QED BY <2>1, <2>5, <3>1 DEF QueueInv
  <2>6. ASSUME NEW i \in DOMAIN tl, NEW k \in DOMAIN eq, tl[i][1] = eq[k][1]
        PROVE  tl[i][2] < eq[k][2]
    BY <2>1, <2>6 DEF QueueInv
  <2> QED BY <1>5, <2>2, <2>4, <2>5, <2>6 DEF QueueInv
<1>10. ASSUME NEW g \in Threads \cup {Gui}, Cast(g)
       PROVE  QueueInv'
  <2>1. eq' = eq
    BY <1>10 DEF Cast, CastStart, CastSend, CastEnd
  <2>2. CASE pumped' = pumped
    BY <1>6, <2>1, <2>2
  <2>3. CASE pumped' # pumped
    <3>1. Finish(g) /\ HasCurrent(g)
      BY <1>1, <1>10, <2>3 DEF Cast, CastStart, CastSend, CastEnd, StageInv
    <3>2. pumped' = Tail(pumped) /\ pumped # <<>>
      BY <1>1, <2>3, <3>1, FinishFacts, CurrentFacts
    <3> QED BY <1>9, <2>1, <3>2
  <2> QED BY <2>2, <2>3
<1>11. CASE /\ \A t \in Threads : ~ EqPut(t)
            /\ \A g \in Threads \cup {Gui} : ~ Cast(g)
            /\ ~ Pump
  <2>1. UNCHANGED <<eq, pumped>>
    BY <1>11 DEF Next, Worker, Emit, RestPut, Join, Leave, HandlerEnds, Connect, Disconnect, PollTick,
                 Drain, JobEnds, JobFails, workVars
  <2> QED BY <1>6, <2>1
<1> QED BY <1>7, <1>8, <1>10, <1>11

LEMMA NoGapKeeps ==
  ASSUME TypeStage, QueueInv, NoGapInv, Next
  PROVE  NoGapInv'
<1> DEFINE Q == Elements(eq) \cup Elements(pumped)
           Q2 == Elements(eq') \cup Elements(pumped')
<1>1. TypeOK /\ StageInv /\ eq \in Seq(Events) /\ pumped \in Seq(Events)
  BY DEF TypeStage, TypeOK
<1>2. ASSUME NEW e \in Q
      PROVE  e[1] \in Threads /\ e[2] \in Nat /\ e = <<e[1], e[2]>>
  BY <1>1, EventFacts DEF Elements
<1>3. Elements(eq)' = Elements(eq') /\ Elements(pumped)' = Elements(pumped')
  BY DEF Elements
<1>4. ASSUME NEW t \in Threads, ~ EqPut(t), NEW e \in Q
      PROVE  Put(t)' = Put(t)
  <2>1. wiring = "window"
    BY <1>1, <1>4, EmptyElements, Types DEF StageInv
  <2> QED BY <1>4, <2>1, EmitFacts, PutSame
<1> SUFFICES ASSUME NEW e \in Q2, NEW n \in Nat, NEW t, t = e[1], e[2] < n, n <= Put(t)'
             PROVE  <<t, n>> \in Q2
  <2>1. ASSUME NEW e \in Q2, NEW n \in Nat, e[2] < n, n <= Put(e[1])'
        PROVE  <<e[1], n>> \in Q2
    BY <2>1
  <2> QED BY <1>3, <2>1 DEF NoGapInv
<1>5. ASSUME e \in Q, ~ EqPut(t)
      PROVE  <<t, n>> \in Q
  <2>1. t \in Threads /\ Put(t)' = Put(t)
    BY <1>2, <1>4, <1>5
  <2> QED BY <1>5, <2>1 DEF NoGapInv
<1>6. ASSUME NEW d \in Threads, EqPut(d)
      PROVE  <<t, n>> \in Q2
  <2> DEFINE m == made[d]
             x == <<d, m>>
  <2>1. /\ Put(d)' = m /\ Put(d) = m - 1 /\ m \in Nat /\ x \in Events
        /\ eq' = Append(eq, x) /\ pumped' = pumped /\ stage[d] = "eq"
        /\ \A c \in Threads : c # d => stage'[c] = stage[c]
    BY <1>6, EqFacts
  <2>2. x[1] = d /\ x[2] = m
    OBVIOUS
  <2>3. Q2 = Q \cup {x}
    <3> HIDE DEF x
    <3>1. Elements(Append(eq, x)) = Elements(eq) \cup {x}
      BY <1>1, <2>1, AppendElements
    <3> QED BY <2>1, <3>1
  <2>4. CASE e \notin Q
    <3>1. t = d /\ e[2] = m
      BY <2>2, <2>3, <2>4
    <3> HIDE DEF m, x
    <3> QED BY <2>1, <3>1
  <2>5. CASE e \in Q /\ t # d
    <3>1. t \in Threads
      BY <1>2, <2>5
    <3>2. ~ EqPut(t)
      BY <1>6, <2>1, <2>5, <3>1, EqFacts
    <3> QED BY <1>5, <2>3, <2>5, <3>2
  <2>6. CASE e \in Q /\ t = d /\ n = m
    BY <2>3, <2>6
  <2>7. CASE e \in Q /\ t = d /\ n # m
    <3> HIDE DEF m, x
    <3>1. n <= Put(t)
      BY <2>1, <2>7
    <3> QED BY <2>3, <2>7, <3>1 DEF NoGapInv
  <2> QED BY <2>4, <2>5, <2>6, <2>7
<1>7. CASE Pump
  <2>1. pumped = <<>> /\ pumped' = eq /\ eq' = <<>> /\ eq # <<>>
    BY <1>7 DEF Pump
  <2>2. Q2 = Q
    BY <2>1, EmptyElements
  <2>3. \A c \in Threads : ~ EqPut(c)
    BY <2>1, EqFacts
  <2> QED BY <1>2, <1>5, <2>2, <2>3
<1>8. CASE pumped' = Tail(pumped) /\ eq' = eq /\ pumped # <<>>
  <2>1. Elements(pumped) = Elements(pumped') \cup {Head(pumped)}
    BY <1>1, <1>8, TailElements
  <2>2. \A c \in Threads : ~ EqPut(c)
    BY <1>8, EqGrows
  <2>3. <<t, n>> \in Q
    BY <1>2, <1>5, <2>1, <2>2, <1>8
  <2>4. ASSUME <<t, n>> = Head(pumped)
        PROVE  FALSE
    <3>1. pumped[1] = <<t, n>> /\ 1 \in DOMAIN pumped /\ pumped[1][1] = t /\ pumped[1][2] = n
      BY <1>1, <1>8, <2>4, TailFacts
    <3>2. e[2] \in Nat
      BY <1>2, <1>8, <2>1
    <3>3. CASE e \in Elements(eq)
      <4>1. PICK k \in DOMAIN eq : eq[k] = e
        BY <3>3 DEF Elements
      <4>2. n < e[2]
        BY <3>1, <4>1 DEF QueueInv
      <4> QED BY <3>2, <4>2
    <3>4. CASE e \in Elements(pumped')
      <4>1. PICK k \in DOMAIN pumped' : pumped'[k] = e
        BY <3>4 DEF Elements
      <4>2. k + 1 \in DOMAIN pumped /\ pumped[k + 1] = e /\ 1 < k + 1
        BY <1>1, <1>8, <4>1, TailFacts
      <4>3. n < e[2]
        BY <3>1, <4>2 DEF QueueInv
      <4> QED BY <3>2, <4>3
    <3> QED BY <1>8, <3>3, <3>4
  <2> QED BY <1>8, <2>1, <2>3, <2>4
<1>9. ASSUME NEW g \in Threads \cup {Gui}, Cast(g)
      PROVE  <<t, n>> \in Q2
  <2>1. eq' = eq
    BY <1>9 DEF Cast, CastStart, CastSend, CastEnd
  <2>2. CASE pumped' = pumped
    <3>1. \A c \in Threads : ~ EqPut(c)
      BY <2>1, EqGrows
    <3> QED BY <1>2, <1>5, <2>1, <2>2, <3>1
  <2>3. CASE pumped' # pumped
    <3>1. Finish(g) /\ HasCurrent(g)
      BY <1>1, <1>9, <2>3 DEF Cast, CastStart, CastSend, CastEnd, StageInv
    <3>2. pumped' = Tail(pumped) /\ pumped # <<>>
      BY <1>1, <2>3, <3>1, FinishFacts, CurrentFacts
    <3> QED BY <1>8, <2>1, <3>2
  <2> QED BY <2>2, <2>3
<1>10. CASE /\ \A d \in Threads : ~ EqPut(d)
            /\ \A g \in Threads \cup {Gui} : ~ Cast(g)
            /\ ~ Pump
  <2>1. UNCHANGED <<eq, pumped>>
    BY <1>10 DEF Next, Worker, Emit, RestPut, Join, Leave, HandlerEnds, Connect, Disconnect, PollTick,
                 Drain, JobEnds, JobFails, workVars
  <2> QED BY <1>2, <1>5, <1>10, <2>1
<1> QED BY <1>6, <1>7, <1>9, <1>10

-----------------------------------------------------------------------------
(* What a client was sent, and what it still waits for.                    *)

(* A step that sends the client nothing, and takes nothing from its way    *)
(* that the client is to get.                                              *)
LEMMA LastSame ==
  ASSUME NEW c \in Clients, NEW t \in Threads, LastOk(c, t),
         last'[c][t] = last[c][t], Put(t)' = Put(t),
         sock'[c] = "open" /\ last[c][t] # 0 =>
           /\ sock[c] = "open"
           /\ \A n \in DOMAIN KindOf[t] :
                /\ Waits(c, <<t, n>>)' => Waits(c, <<t, n>>)
                /\ Waits(c, <<t, n>>) /\ Kind(<<t, n>>) \in TcpKinds => Waits(c, <<t, n>>)'
  PROVE  LastOk(c, t)'
<1>1. last'[c][t] <= Put(t)'
  BY DEF LastOk
<1>2. ASSUME sock'[c] = "open", last'[c][t] # 0, NEW n \in DOMAIN KindOf[t]
      PROVE  /\ Waits(c, <<t, n>>)' => n > last'[c][t]
             /\ last'[c][t] < n /\ n <= Put(t)' /\ Kind(<<t, n>>) \in TcpKinds => Waits(c, <<t, n>>)'
  BY <1>2 DEF LastOk
<1> QED BY <1>1, <1>2 DEF LastOk

(* What an event waits in is looked at only here.                          *)
LEMMA WaitsSame ==
  ASSUME NEW c, NEW t, NEW n, eq' = eq, pumped' = pumped, Passed(Gui, c)' <=> Passed(Gui, c),
         \/ stage'[t] = stage[t] /\ made'[t] = made[t] /\ (Passed(t, c)' <=> Passed(t, c))
         \/ stage[t] # "cast" /\ stage'[t] # "cast"
  PROVE  Waits(c, <<t, n>>)' <=> Waits(c, <<t, n>>)
<1>1. <<t, n>>[1] = t /\ <<t, n>>[2] = n
  OBVIOUS
<1> QED BY <1>1 DEF Waits

LEMMA LastEmit ==
  ASSUME EventsInv, Next, NEW d \in Threads, Emit(d), NEW c \in Clients, NEW t \in Threads
  PROVE  LastOk(c, t)'
<1>1. TypeStage /\ TypeOK /\ StageInv /\ LastOk(c, t)
  BY DEF EventsInv, TypeStage, LastInv
<1>2. /\ Put(d)' = IF wiring = "window" THEN Put(d) ELSE made[d] + 1
      /\ stage[d] = "idle" /\ made'[d] = made[d] + 1 /\ wiring' = wiring
      /\ stage'[d] = IF wiring = "window" THEN "rest" ELSE "cast"
      /\ \A h \in Threads : h # d => made'[h] = made[h] /\ stage'[h] = stage[h]
      /\ UNCHANGED <<eq, pumped, cast, sock, last>>
  BY <1>1, EmitFacts
<1>3. \A g : Passed(g, c)' <=> Passed(g, c)
  BY <1>2 DEF Passed
<1>4. CASE t # d
  <2>1. ~ Emit(t) /\ ~ EqPut(t)
    BY <1>1, <1>2, <1>4, EqGrows DEF Emit
  <2>2. Put(t)' = Put(t)
    BY <1>1, <2>1, PutSame
  <2>3. \A n \in DOMAIN KindOf[t] : Waits(c, <<t, n>>)' <=> Waits(c, <<t, n>>)
    BY <1>2, <1>3, <1>4, WaitsSame
  <2> QED BY <1>1, <1>2, <2>2, <2>3, LastSame
<1>5. CASE t = d /\ wiring = "window"
  <2>1. \A n \in DOMAIN KindOf[t] : Waits(c, <<t, n>>)' <=> Waits(c, <<t, n>>)
    BY <1>2, <1>3, <1>5, WaitsSame
  <2> QED BY <1>1, <1>2, <1>5, <2>1, LastSame
<1>6. CASE t = d /\ wiring = "console"
  <2>1. Put(t) = made[t] /\ Put(t)' = made[t] + 1 /\ made[t] \in Nat /\ last[c][t] \in Nat
        /\ last[c][t] <= made[t]
    BY <1>1, <1>2, <1>6, PutFacts, Types DEF LastOk
  <2>2. eq = <<>> /\ pumped = <<>> /\ ~ Passed(t, c)
    BY <1>1, <1>2, <1>6, EventFacts DEF StageInv, Passed, HasCurrent
  <2>3. ASSUME NEW n \in DOMAIN KindOf[t]
        PROVE  ~ Waits(c, <<t, n>>) /\ (Waits(c, <<t, n>>)' <=> n = made[t] + 1)
    <3>1. <<t, n>>[1] = t /\ <<t, n>>[2] = n
      OBVIOUS
    <3>2. stage[t] = "idle" /\ stage'[t] = "cast" /\ made'[t] = made[t] + 1 /\ eq' = <<>> /\ pumped' = <<>>
          /\ ~ Passed(t, c)'
      BY <1>2, <1>3, <1>6, <2>2
    <3> QED BY <2>2, <3>1, <3>2, EmptyElements DEF Waits
  <2>4. ASSUME sock'[c] = "open", last'[c][t] # 0, NEW n \in DOMAIN KindOf[t]
        PROVE  /\ Waits(c, <<t, n>>)' => n > last'[c][t]
               /\ last'[c][t] < n /\ n <= Put(t)' /\ Kind(<<t, n>>) \in TcpKinds => Waits(c, <<t, n>>)'
    <3>1. n \in Nat /\ sock[c] = "open" /\ last'[c][t] = last[c][t] /\ last[c][t] # 0
      BY <1>2, <2>4, EventFacts
    <3>2. last[c][t] < n /\ n <= Put(t) /\ Kind(<<t, n>>) \in TcpKinds => Waits(c, <<t, n>>)
      BY <1>1, <2>4, <3>1 DEF LastOk
    <3> QED BY <2>1, <2>3, <3>1, <3>2
  <2>5. last'[c][t] <= Put(t)'
    BY <1>2, <2>1
  <2> QED BY <2>4, <2>5 DEF LastOk
<1> QED BY <1>1, <1>4, <1>5, <1>6, Types

LEMMA LastEqPut ==
  ASSUME EventsInv, Next, NEW d \in Threads, EqPut(d), NEW c \in Clients, NEW t \in Threads
  PROVE  LastOk(c, t)'
<1> DEFINE m == made[d]
           x == <<d, m>>
<1>1. TypeStage /\ TypeOK /\ StageInv /\ LastOk(c, t) /\ eq \in Seq(Events)
  BY DEF EventsInv, TypeStage, LastInv, TypeOK
<1>2. /\ Put(d)' = m /\ Put(d) = m - 1 /\ m \in Nat
      /\ wiring = "window" /\ wiring' = wiring /\ made' = made
      /\ stage[d] = "eq" /\ stage'[d] = "idle"
      /\ \A h \in Threads : h # d => stage'[h] = stage[h]
      /\ x \in Events /\ eq' = Append(eq, x)
      /\ UNCHANGED <<pumped, cast, sock, last>>
  BY <1>1, EqFacts
<1>3. \A g : Passed(g, c)' <=> Passed(g, c)
  BY <1>2 DEF Passed
<1>4. ASSUME NEW n
      PROVE  Waits(c, <<t, n>>)' <=> Waits(c, <<t, n>>) \/ <<t, n>> = x
  <2>1. <<t, n>>[1] = t /\ <<t, n>>[2] = n
    OBVIOUS
  <2>2. (\E i \in DOMAIN eq' : eq'[i] = <<t, n>>) <=> (\E i \in DOMAIN eq : eq[i] = <<t, n>>) \/ <<t, n>> = x
    <3> DEFINE y == <<t, n>>
    <3> HIDE DEF x, y
    <3>1. Elements(eq') = Elements(eq) \cup {x}
      BY <1>1, <1>2, AppendElements
    <3>2. (\E i \in DOMAIN eq' : eq'[i] = y) <=> (\E i \in DOMAIN eq : eq[i] = y) \/ y = x
      BY <3>1 DEF Elements
    <3> QED BY <3>2 DEF y
  <2>3. stage'[t] = "cast" <=> stage[t] = "cast"
    BY <1>2
  <2> QED BY <1>2, <1>3, <2>1, <2>2, <2>3 DEF Waits
<1>5. CASE t # d
  <2>1. ~ Emit(t) /\ ~ EqPut(t)
    <3>1. stage'[t] = stage[t] /\ stage \in [Threads -> {"idle", "rest", "eq", "cast"}]
      BY <1>1, <1>2, <1>5 DEF TypeOK
    <3> QED BY <1>1, <3>1, EmitFacts, EqFacts, <1>2
  <2>2. Put(t)' = Put(t)
    BY <1>1, <2>1, PutSame
  <2>3. \A n \in DOMAIN KindOf[t] : Waits(c, <<t, n>>)' <=> Waits(c, <<t, n>>)
    BY <1>4, <1>5
  <2> QED BY <1>1, <1>2, <2>2, <2>3, LastSame
<1>6. CASE t = d
  <2> HIDE DEF m
  <2>1. last[c][t] \in Nat /\ last[c][t] <= m - 1
    BY <1>1, <1>2, <1>6, Types DEF LastOk
  <2>2. ASSUME sock'[c] = "open", last'[c][t] # 0, NEW n \in DOMAIN KindOf[t]
        PROVE  /\ Waits(c, <<t, n>>)' => n > last'[c][t]
               /\ last'[c][t] < n /\ n <= Put(t)' /\ Kind(<<t, n>>) \in TcpKinds => Waits(c, <<t, n>>)'
    <3>1. n \in Nat /\ sock[c] = "open" /\ last'[c][t] = last[c][t] /\ last[c][t] # 0 /\ Put(t)' = m
      BY <1>2, <1>6, <2>2, EventFacts
    <3>2. /\ Waits(c, <<t, n>>) => n > last[c][t]
          /\ last[c][t] < n /\ n <= m - 1 /\ Kind(<<t, n>>) \in TcpKinds => Waits(c, <<t, n>>)
      BY <1>1, <1>2, <1>6, <2>2, <3>1 DEF LastOk
    <3>3. Waits(c, <<t, n>>)' <=> Waits(c, <<t, n>>) \/ n = m
      BY <1>4, <1>6
    <3> QED BY <1>2, <2>1, <3>1, <3>2, <3>3
  <2>3. last'[c][t] <= Put(t)'
    BY <1>2, <1>6, <2>1
  <2> QED BY <2>2, <2>3 DEF LastOk
<1> QED BY <1>5, <1>6

(* A broadcast that ends takes one event out of the way, for the clients   *)
(* it has not passed.                                                      *)
LEMMA WaitsDone ==
  ASSUME TypeOK, StageInv, NEW g \in Threads \cup {Gui}, HasCurrent(g), Finish(g), eq' = eq, made' = made,
         NEW c \in Clients, NEW t \in Threads, NEW n \in DOMAIN KindOf[t]
  PROVE  /\ Waits(c, <<t, n>>)' => Waits(c, <<t, n>>)
         /\ Waits(c, <<t, n>>) => Waits(c, <<t, n>>)' \/ (<<t, n>> = Current(g) /\ ~ Passed(g, c))
<1>1. /\ cast'[g] = NoCast /\ \A h \in Threads \cup {Gui} : h # g => cast'[h] = cast[h]
      /\ g = Gui => pumped' = Tail(pumped) /\ stage' = stage
      /\ g # Gui => /\ pumped' = pumped /\ stage[g] = "cast" /\ stage'[g] = "rest"
                    /\ \A h \in Threads : h # g => stage'[h] = stage[h]
  BY FinishFacts
<1>2. (\A h \in Threads \cup {Gui} : h # g => (Passed(h, c)' <=> Passed(h, c))) /\ ~ Passed(g, c)'
  BY <1>1 DEF Passed, NoCast
<1>3. <<t, n>>[1] = t /\ <<t, n>>[2] = n /\ t # Gui
  BY EventFacts
<1>4. CASE g = Gui
  <2> DEFINE y == <<t, n>>
             inEq == \E i \in DOMAIN eq : eq[i] = y
             inStage == stage[t] = "cast" /\ n = made[t] /\ ~ Passed(t, c)
  <2>1. pumped \in Seq(Events) /\ pumped # <<>> /\ Current(g) = pumped[1] /\ pumped' = Tail(pumped)
    BY <1>1, <1>4, TailFacts, Types DEF HasCurrent, Current
  <2>2. Waits(c, y) <=> inEq \/ (\E i \in DOMAIN pumped : pumped[i] = y /\ ~(i = 1 /\ Passed(Gui, c))) \/ inStage
    BY <1>3 DEF Waits
  <2>3. Waits(c, y)' <=> inEq \/ (\E i \in DOMAIN pumped' : pumped'[i] = y) \/ inStage
    BY <1>1, <1>2, <1>3, <1>4 DEF Waits
  <2>4. (\E i \in DOMAIN pumped' : pumped'[i] = y) <=> \E i \in DOMAIN pumped : pumped[i] = y /\ i # 1
    <3> HIDE DEF y
    <3>1. ASSUME NEW i \in DOMAIN pumped', pumped'[i] = y
          PROVE  i + 1 \in DOMAIN pumped /\ pumped[i + 1] = y /\ i + 1 # 1
      BY <2>1, <3>1, TailFacts
    <3>2. ASSUME NEW i \in DOMAIN pumped, pumped[i] = y, i # 1
          PROVE  i - 1 \in DOMAIN pumped' /\ pumped'[i - 1] = y
      BY <2>1, <3>2, TailFacts
    <3> QED BY <3>1, <3>2
  <2> HIDE DEF y, inEq, inStage
  <2>5. /\ Waits(c, y)' => Waits(c, y)
        /\ Waits(c, y) => Waits(c, y)' \/ (y = Current(g) /\ ~ Passed(g, c))
    BY <1>4, <2>1, <2>2, <2>3, <2>4
  <2> QED BY <2>5 DEF y
<1>5. CASE g # Gui
  <2>1. CASE t # g
    <3>1. Waits(c, <<t, n>>)' <=> Waits(c, <<t, n>>)
      BY <1>1, <1>2, <1>5, <2>1, WaitsSame
    <3> QED BY <3>1
  <2>2. CASE t = g
    <3>1. Current(g) = <<g, made[g]>>
      BY <1>5 DEF Current
    <3> QED BY <1>1, <1>2, <1>3, <1>5, <2>2, <3>1 DEF Waits
  <2> QED BY <2>1, <2>2
<1> QED BY <1>4, <1>5

LEMMA LastCasts ==
  ASSUME EventsInv, Next, NEW g \in Threads \cup {Gui}, CastStart(g) \/ CastEnd(g),
         NEW c \in Clients, NEW t \in Threads
  PROVE  LastOk(c, t)'
<1>1. TypeStage /\ TypeOK /\ StageInv /\ SockInv /\ LastOk(c, t)
  BY DEF EventsInv, TypeStage, LastInv
<1>2. UNCHANGED <<made, eq, sock, last>> /\ HasCurrent(g)
  BY <1>1 DEF CastStart, CastEnd, tcpVars, StageInv
<1>3. ~ Emit(t) /\ ~ EqPut(t)
  <2>1. made[t] \in Nat /\ made'[t] = made[t]
    BY <1>1, <1>2, Types
  <2>2. ~ Emit(t)
    BY <1>1, <2>1, EmitFacts
  <2> QED BY <1>1, <1>2, <2>2, EqGrows
<1>4. Put(t)' = Put(t)
  BY <1>1, <1>3, PutSame
<1>5. CASE Finish(g) /\ (clients = {} \/ Kind(Current(g)) \notin TcpKinds \/ (cast[g].to = {} /\ cast[g].on))
  <2>1. sock[c] = "open" => c \in clients
    BY <1>1 DEF SockInv
  <2>2. clients # {} /\ Kind(Current(g)) \in TcpKinds => Passed(g, c)
    BY <1>5 DEF Passed
  <2>3. ASSUME sock'[c] = "open" /\ last[c][t] # 0, NEW n \in DOMAIN KindOf[t]
        PROVE  /\ Waits(c, <<t, n>>)' => Waits(c, <<t, n>>)
               /\ Waits(c, <<t, n>>) /\ Kind(<<t, n>>) \in TcpKinds => Waits(c, <<t, n>>)'
    <3>1. /\ Waits(c, <<t, n>>)' => Waits(c, <<t, n>>)
          /\ Waits(c, <<t, n>>) => Waits(c, <<t, n>>)' \/ (<<t, n>> = Current(g) /\ ~ Passed(g, c))
      BY <1>1, <1>2, <1>5, WaitsDone
    <3>2. clients # {}
      BY <1>2, <2>1, <2>3
    <3>3. <<t, n>> = Current(g) => Kind(<<t, n>>) = Kind(Current(g))
      OBVIOUS
    <3> QED BY <2>2, <3>1, <3>2, <3>3
  <2> QED BY <1>1, <1>2, <1>4, <2>3, LastSame
<1>6. CASE /\ ~ cast[g].on /\ cast' = [cast EXCEPT ![g] = [on |-> TRUE, to |-> clients, dead |-> {}]]
           /\ UNCHANGED <<pumped, stage>>
  <2>1. cast'[g].to = clients /\ \A h \in Threads \cup {Gui} : h # g => cast'[h] = cast[h]
    <3>1. cast \in [Threads \cup {Gui} -> Casts]
      BY <1>1 DEF TypeOK, Casts
    <3> QED BY <1>6, <3>1
  <2>2. ASSUME sock'[c] = "open" /\ last[c][t] # 0, NEW n \in DOMAIN KindOf[t]
        PROVE  Waits(c, <<t, n>>)' <=> Waits(c, <<t, n>>)
    <3>1. c \in clients
      BY <1>1, <1>2, <2>2 DEF SockInv
    <3>2. \A h \in Threads \cup {Gui} : Passed(h, c)' <=> Passed(h, c)
      BY <1>6, <2>1, <3>1 DEF Passed
    <3> QED BY <1>2, <1>6, <3>2, WaitsSame
  <2> QED BY <1>1, <1>2, <1>4, <2>2, LastSame
<1>7. CASE CastStart(g)
  <2>1. ~ cast[g].on
    BY <1>7 DEF CastStart
  <2>2. CASE clients = {} \/ Kind(Current(g)) \notin TcpKinds
    <3>1. Finish(g)
      BY <1>7, <2>2 DEF CastStart
    <3> QED BY <1>5, <2>2, <3>1
  <2>3. CASE ~(clients = {} \/ Kind(Current(g)) \notin TcpKinds)
    <3>1. cast' = [cast EXCEPT ![g] = [on |-> TRUE, to |-> clients, dead |-> {}]] /\ UNCHANGED <<pumped, stage>>
      BY <1>7, <2>3 DEF CastStart
    <3> QED BY <1>6, <2>1, <3>1
  <2> QED BY <2>2, <2>3
<1>8. CASE CastEnd(g)
  <2>1. Finish(g) /\ cast[g].to = {} /\ cast[g].on
    BY <1>8 DEF CastEnd
  <2> QED BY <1>5, <2>1
<1> QED BY <1>7, <1>8

(* What waits together with the event that is being sent comes after it.   *)
LEMMA NextInLine ==
  ASSUME TypeStage, QueueInv, NEW g \in Threads \cup {Gui}, HasCurrent(g), NEW c, NEW n,
         NEW t, t = Current(g)[1], Waits(c, <<t, n>>), <<t, n>> # Current(g)
  PROVE  Current(g)[2] < n
<1> DEFINE e == <<t, n>>
<1>1. TypeOK /\ StageInv /\ e[1] = t /\ e[2] = n
  BY DEF TypeStage
<1>2. CASE g = Gui
  <2>1. pumped \in Seq(Events) /\ pumped # <<>> /\ Current(g) = pumped[1] /\ 1 \in DOMAIN pumped /\ wiring = "window"
    BY <1>1, <1>2, TailFacts, CurrentFacts, Types
  <2>2. t \in Threads /\ stage[t] # "cast"
    BY <1>1, <2>1, CurrentFacts DEF StageInv
  <2>3. (\E k \in DOMAIN eq : eq[k] = e) \/ (\E k \in DOMAIN pumped : pumped[k] = e)
    BY <1>1, <2>2 DEF Waits
  <2> HIDE DEF e
  <2>4. ASSUME NEW k \in DOMAIN eq, eq[k] = e
        PROVE  Current(g)[2] < n
    <3>1. pumped[1][1] = eq[k][1]
      BY <1>1, <2>1, <2>4
    <3>2. pumped[1][2] < eq[k][2]
      BY <2>1, <3>1 DEF QueueInv
    <3> QED BY <1>1, <2>1, <2>4, <3>2
  <2>5. ASSUME NEW k \in DOMAIN pumped, pumped[k] = e
        PROVE  Current(g)[2] < n
    <3>1. 1 < k
      <4>1. k \in Nat /\ k # 0 /\ k # 1
        BY <2>1, <2>5 DEF e
      <4> QED BY <4>1
    <3>2. pumped[1][1] = pumped[k][1]
      BY <1>1, <2>1, <2>5
    <3>3. pumped[1][2] < pumped[k][2]
      BY <2>1, <3>1, <3>2 DEF QueueInv
    <3> QED BY <1>1, <2>1, <2>5, <3>3
  <2> QED BY <2>3, <2>4, <2>5
<1>3. CASE g # Gui
  <2>1. /\ g \in Threads /\ stage[g] = "cast" /\ wiring = "console" /\ Current(g) = <<g, made[g]>>
    BY <1>1, <1>3, CurrentFacts DEF Current
  <2>2. eq = <<>> /\ pumped = <<>>
    BY <1>1, <2>1 DEF StageInv
  <2>3. t = g
    BY <2>1
  <2>4. n = made[t]
    BY <1>1, <2>2, EmptyElements DEF Waits
  <2> QED BY <2>1, <2>3, <2>4
<1> QED BY <1>2, <1>3

LEMMA WaitsSent ==
  ASSUME TypeStage, QueueInv, NEW g \in Threads \cup {Gui}, HasCurrent(g), UNCHANGED <<eq, pumped, made, stage>>,
         NEW to \in cast[g].to, cast[g].on, cast'[g].on, cast'[g].to = cast[g].to \ {to},
         \A h \in Threads \cup {Gui} : h # g => cast'[h] = cast[h],
         NEW c \in Clients, NEW t \in Threads, NEW n \in DOMAIN KindOf[t]
  PROVE  /\ Waits(c, <<t, n>>)' => Waits(c, <<t, n>>)
         /\ Waits(c, <<t, n>>) => Waits(c, <<t, n>>)' \/ (c = to /\ <<t, n>> = Current(g))
         /\ c = to /\ <<t, n>> = Current(g) => ~ Waits(c, <<t, n>>)'
<1> DEFINE e == <<t, n>>
<1>1. TypeOK /\ StageInv /\ e[1] = t /\ e[2] = n /\ t # Gui
  BY EventFacts DEF TypeStage
<1>2. \A h \in Threads \cup {Gui} : Passed(h, c)' <=> Passed(h, c) \/ (h = g /\ c = to)
  BY DEF Passed
<1>3. Waits(c, e)' => Waits(c, e)
  BY <1>1, <1>2 DEF Waits
<1>4. ASSUME Waits(c, e), ~ Waits(c, e)'
      PROVE  c = to /\ e = Current(g)
  <2>1. CASE \E i \in DOMAIN eq : eq[i] = e
    BY <1>4, <2>1 DEF Waits
  <2>2. CASE \E i \in DOMAIN pumped : pumped[i] = e /\ ~(i = 1 /\ Passed(Gui, c))
    <3>1. PICK i \in DOMAIN pumped : pumped[i] = e /\ ~(i = 1 /\ Passed(Gui, c))
      BY <2>2
    <3>2. i = 1 /\ Passed(Gui, c)'
      BY <1>4, <3>1 DEF Waits
    <3>3. g = Gui /\ c = to
      BY <1>2, <3>1, <3>2
    <3>4. Current(g) = pumped[1]
      BY <1>1, <3>3, TailFacts, Types DEF HasCurrent, Current
    <3> QED BY <3>1, <3>2, <3>3, <3>4
  <2>3. CASE stage[t] = "cast" /\ n = made[t] /\ ~ Passed(t, c)
    <3>1. Passed(t, c)'
      BY <1>1, <1>4, <2>3 DEF Waits
    <3>2. g = t /\ c = to
      BY <1>2, <2>3, <3>1
    <3>3. Current(g) = <<t, made[t]>>
      BY <1>1, <3>2 DEF Current
    <3> QED BY <2>3, <3>2, <3>3
  <2> QED BY <1>1, <1>4, <2>1, <2>2, <2>3 DEF Waits
<1>5. ASSUME c = to, e = Current(g), Waits(c, e)'
      PROVE  FALSE
  <2>1. CASE g = Gui
    <3>1. pumped \in Seq(Events) /\ pumped # <<>> /\ pumped[1] = e /\ 1 \in DOMAIN pumped /\ wiring = "window"
      BY <1>1, <1>5, <2>1, TailFacts, CurrentFacts, Types
    <3>2. stage[t] # "cast"
      BY <1>1, <3>1 DEF StageInv
    <3>3. (\E k \in DOMAIN eq : eq[k] = e) \/ (\E k \in DOMAIN pumped : pumped[k] = e /\ k # 1)
      BY <1>1, <1>2, <1>5, <2>1, <3>2 DEF Waits
    <3>4. n \in Nat
      BY EventFacts
    <3> HIDE DEF e
    <3>5. ASSUME NEW k \in DOMAIN eq, eq[k] = e
          PROVE  FALSE
      <4>1. n < n
        BY <1>1, <3>1, <3>5 DEF QueueInv
      <4> QED BY <3>4, <4>1
    <3>6. ASSUME NEW k \in DOMAIN pumped, pumped[k] = e, k # 1
          PROVE  FALSE
      <4>1. 1 < k
        BY <3>1, <3>6
      <4>2. n < n
        BY <1>1, <3>1, <3>6, <4>1 DEF QueueInv
      <4> QED BY <3>4, <4>2
    <3> QED BY <3>3, <3>5, <3>6
  <2>2. CASE g # Gui
    <3>1. g \in Threads /\ wiring = "console" /\ Current(g)[1] = g
      BY <1>1, <2>2, CurrentFacts
    <3>2. eq = <<>> /\ pumped = <<>> /\ t = g
      BY <1>1, <1>5, <3>1 DEF StageInv
    <3> QED BY <1>1, <1>2, <1>5, <3>2, EmptyElements DEF Waits
  <2> QED BY <2>1, <2>2
<1> QED BY <1>3, <1>4, <1>5

LEMMA LastSend ==
  ASSUME EventsInv, Next, NEW g \in Threads \cup {Gui}, CastSend(g), NEW c \in Clients, NEW t \in Threads
  PROVE  LastOk(c, t)'
<1>1. TypeStage /\ TypeOK /\ StageInv /\ QueueInv /\ NoGapInv /\ LastOk(c, t)
  BY DEF EventsInv, TypeStage, LastInv
<1>2. wiring' = wiring /\ UNCHANGED <<eq, pumped, made, stage>>
  BY DEF CastSend
<1>3. PICK to \in cast[g].to, ok \in BOOLEAN :
         /\ cast[g].on /\ HasCurrent(g) /\ to \in Clients
         /\ cast' \in [Threads \cup {Gui} -> Casts]
         /\ \A h \in Threads \cup {Gui} : h # g => cast'[h] = cast[h]
         /\ cast'[g].on /\ cast'[g].to = cast[g].to \ {to}
         /\ cast'[g].dead = IF ok THEN cast[g].dead ELSE cast[g].dead \cup {to}
         /\ sock' \in [Clients -> {"none", "open", "gone", "dead"}]
         /\ sock'[to] = IF ok THEN sock[to] ELSE "dead"
         /\ (~ ok => sock[to] # "open")
         /\ \A d \in Clients : d # to => sock'[d] = sock[d]
         /\ last' \in [Clients -> [Threads -> Nat]]
         /\ \A d \in Clients, h \in Threads :
              last'[d][h] = IF d = to /\ sock[to] = "open" /\ h = Current(g)[1]
                            THEN Current(g)[2] ELSE last[d][h]
  BY <1>1, SendFacts
<1>4. Put(t)' = Put(t)
  BY <1>2 DEF Put
<1>5. sock'[c] = "open" => sock[c] = "open"
  BY <1>3
<1>6. ASSUME NEW n \in DOMAIN KindOf[t]
      PROVE  /\ Waits(c, <<t, n>>)' => Waits(c, <<t, n>>)
             /\ Waits(c, <<t, n>>) => Waits(c, <<t, n>>)' \/ (c = to /\ <<t, n>> = Current(g))
             /\ c = to /\ <<t, n>> = Current(g) => ~ Waits(c, <<t, n>>)'
  <2>1. /\ HasCurrent(g) /\ cast[g].on /\ cast'[g].on /\ cast'[g].to = cast[g].to \ {to}
        /\ \A h \in Threads \cup {Gui} : h # g => cast'[h] = cast[h]
    BY <1>3
  <2> QED BY <1>1, <1>2, <2>1, WaitsSent
<1>7. CASE ~(c = to /\ sock[to] = "open" /\ t = Current(g)[1])
  <2>1. last'[c][t] = last[c][t]
    BY <1>3, <1>7
  <2>2. ASSUME sock'[c] = "open", NEW n \in DOMAIN KindOf[t]
        PROVE  ~(c = to /\ <<t, n>> = Current(g))
    <3>1. <<t, n>> = Current(g) => Current(g)[1] = t
      OBVIOUS
    <3> QED BY <1>5, <1>7, <2>2, <3>1
  <2> QED BY <1>1, <1>4, <1>5, <1>6, <2>1, <2>2, LastSame
<1>8. CASE c = to /\ sock[to] = "open" /\ t = Current(g)[1]
  <2> DEFINE m == Current(g)[2]
  <2>1. last'[c][t] = m /\ m \in Nat /\ Current(g) = <<t, m>> /\ Current(g) \in Events
    BY <1>1, <1>3, <1>8, CurrentFacts, EventFacts
  <2>2. g = Gui => /\ Current(g) = pumped[1] /\ 1 \in DOMAIN pumped /\ wiring = "window"
                   /\ Current(g) \in Elements(pumped) /\ pumped \in Seq(Events)
    BY <1>1, <1>3, CurrentFacts, TailFacts, Types DEF Elements
  <2>3. g # Gui => Put(t) = m
    BY <1>1, <1>3, <1>8, CurrentFacts, PutFacts
  <2>4. Put(t) \in Nat
    BY <1>1, PutFacts
  <2>5. m <= Put(t)
    <3>1. CASE g = Gui
      <4>1. Current(g)[2] <= Put(Current(g)[1])
        BY <1>1, <2>2, <3>1 DEF QueueInv
      <4> QED BY <1>8, <4>1
    <3> QED BY <2>1, <2>3, <2>4, <3>1
  <2>6. ASSUME NEW n \in DOMAIN KindOf[t], Waits(c, <<t, n>>)'
        PROVE  n > m
    <3>1. Waits(c, <<t, n>>) /\ <<t, n>> # Current(g)
      BY <1>6, <1>8, <2>6
    <3>2. m < n
      BY <1>1, <1>3, <1>8, <3>1, NextInLine
    <3> QED BY <3>2
  <2>7. ASSUME NEW n \in DOMAIN KindOf[t], m < n, n <= Put(t)
        PROVE  Waits(c, <<t, n>>)'
    <3>1. n \in Nat
      BY EventFacts
    <3>2. g = Gui
      BY <2>1, <2>3, <2>7, <3>1
    <3>3. <<t, n>> \in Elements(eq) \cup Elements(pumped)
      BY <1>1, <1>8, <2>2, <2>7, <3>1, <3>2 DEF NoGapInv
    <3>4. Waits(c, <<t, n>>)
      <4>1. CASE <<t, n>> \in Elements(eq)
        BY <4>1 DEF Waits, Elements
      <4>2. CASE <<t, n>> \in Elements(pumped)
        <5>1. PICK i \in DOMAIN pumped : pumped[i] = <<t, n>>
          BY <4>2 DEF Elements
        <5>2. i # 1
          BY <2>1, <2>2, <2>7, <3>1, <3>2, <5>1
        <5> QED BY <5>1, <5>2 DEF Waits
      <4> QED BY <3>3, <4>1, <4>2
    <3>5. <<t, n>> # Current(g)
      BY <2>1, <2>7, <3>1
    <3> QED BY <1>6, <3>4, <3>5
  <2> HIDE DEF m
  <2>8. last'[c][t] <= Put(t)'
    BY <1>4, <2>1, <2>5
  <2>9. ASSUME NEW n \in DOMAIN KindOf[t]
        PROVE  /\ Waits(c, <<t, n>>)' => n > last'[c][t]
               /\ last'[c][t] < n /\ n <= Put(t)' => Waits(c, <<t, n>>)'
    BY <1>4, <2>1, <2>6, <2>7
  <2> QED BY <2>8, <2>9 DEF LastOk
<1> QED BY <1>7, <1>8

LEMMA LastKeeps ==
  ASSUME EventsInv, Next
  PROVE  LastInv'
<1> SUFFICES ASSUME NEW c \in Clients, NEW t \in Threads
             PROVE  LastOk(c, t)'
  BY DEF LastInv
<1>1. TypeStage /\ TypeOK /\ SockInv /\ LastOk(c, t)
  BY DEF EventsInv, TypeStage, LastInv
<1>2. CASE \E d \in Threads : Emit(d) \/ EqPut(d)
  BY <1>2, LastEmit, LastEqPut
<1>3. CASE \E g \in Threads \cup {Gui} : Cast(g)
  BY <1>3, LastCasts, LastSend DEF Cast
<1>4. CASE ~(\E d \in Threads : Emit(d) \/ EqPut(d)) /\ ~(\E g \in Threads \cup {Gui} : Cast(g))
  <2>1. Put(t)' = Put(t)
    BY <1>1, <1>4, PutSame
  <2>2. CASE \E d \in Threads : RestPut(d)
    <3>1. PICK d \in Threads : RestPut(d)
      BY <2>2
    <3>2. UNCHANGED <<made, eq, pumped, cast, sock, last>>
          /\ stage[d] = "rest" /\ stage'[d] \in {"eq", "idle"} /\ \A h \in Threads : h # d => stage'[h] = stage[h]
      <4>1. stage \in [Threads -> {"idle", "rest", "eq", "cast"}]
        BY <1>1 DEF TypeOK
      <4> QED BY <3>1, <4>1 DEF RestPut, tcpVars
    <3>3. \A g : Passed(g, c)' <=> Passed(g, c)
      BY <3>2 DEF Passed
    <3>4. stage'[t] = stage[t] \/ (stage[t] # "cast" /\ stage'[t] # "cast")
      BY <3>2
    <3>5. \A n \in DOMAIN KindOf[t] : Waits(c, <<t, n>>)' <=> Waits(c, <<t, n>>)
      BY <3>2, <3>3, <3>4, WaitsSame
    <3> QED BY <1>1, <2>1, <3>2, <3>5, LastSame
  <2>3. CASE Pump
    <3>1. pumped = <<>> /\ pumped' = eq /\ eq' = <<>> /\ UNCHANGED <<made, stage, cast, sock, last>>
      BY <2>3 DEF Pump, tcpVars
    <3>2. ~ Passed(Gui, c)' /\ (Passed(t, c)' <=> Passed(t, c))
      <4>1. ~ cast[Gui].on
        BY <1>1, <3>1 DEF TypeStage, StageInv, HasCurrent
      <4> QED BY <3>1, <4>1 DEF Passed
    <3>3. ASSUME NEW n \in DOMAIN KindOf[t]
          PROVE  Waits(c, <<t, n>>)' <=> Waits(c, <<t, n>>)
      <4>1. <<t, n>>[1] = t /\ <<t, n>>[2] = n
        OBVIOUS
      <4> QED BY <3>1, <3>2, <4>1, EmptyElements DEF Waits
    <3> QED BY <1>1, <2>1, <3>1, <3>3, LastSame
  <2>4. CASE ~ Pump /\ ~ \E d \in Threads : RestPut(d)
    <3>1. UNCHANGED <<wiring, made, stage, eq, pumped, cast, last>>
      BY <1>4, <2>4 DEF Next, Worker, Join, Leave, HandlerEnds, Connect, Disconnect, PollTick, Drain,
                        JobEnds, JobFails, workVars, tcpVars
    <3>2. sock'[c] = "open" => sock[c] = "open" \/ sock[c] = "none"
      <4>1. sock \in [Clients -> {"none", "open", "gone", "dead"}]
        BY <1>1 DEF TypeOK
      <4> QED BY <1>4, <2>4, <4>1 DEF Next, Worker, Join, Leave, HandlerEnds, Connect, Disconnect, PollTick,
                                      Drain, JobEnds, JobFails, tcpVars
    <3>3. sock[c] = "none" => last[c][t] = 0
      BY <1>1 DEF SockInv
    <3>4. \A n : Waits(c, <<t, n>>)' <=> Waits(c, <<t, n>>)
      BY <3>1 DEF Waits, Passed
    <3> QED BY <1>1, <2>1, <3>1, <3>2, <3>3, <3>4, LastSame
  <2> QED BY <2>2, <2>3, <2>4
<1> QED BY <1>2, <1>3, <1>4

-----------------------------------------------------------------------------
(* The invariant, and what follows from it.                                *)

LEMMA EventsStarts == Init => EventsInv
<1> SUFFICES ASSUME Init
             PROVE  EventsInv
  OBVIOUS
<1>1. /\ wiring \in Wirings
      /\ made = [t \in Threads |-> 0] /\ stage = [t \in Threads |-> "idle"]
      /\ eq = <<>> /\ pumped = <<>> /\ cast = [g \in Threads \cup {Gui} |-> NoCast]
      /\ clients = {} /\ sock = [c \in Clients |-> "none"]
      /\ last = [c \in Clients |-> [t \in Threads |-> 0]]
      /\ rest = <<>> /\ active = FALSE /\ busy = FALSE
      /\ jobs = [j \in Jobs |-> NoJob] /\ shown = {} /\ lost = {}
      /\ failures = 0 /\ connects = 0
  BY DEF Init, InitAtRest
<1>2. /\ NoCast.on = FALSE /\ NoCast.to = {} /\ NoCast.dead = {}
      /\ NoCast \in [on : BOOLEAN, to : SUBSET Clients, dead : SUBSET Clients]
      /\ NoJob.at = "free" /\ NoJob.batch = {}
      /\ NoJob \in [at : {"free", "asked", "given_up", "answered"}, batch : SUBSET Events]
  BY DEF NoCast, NoJob
<1>3. TypeOK
  <2>1. Cardinality({}) = 0
    BY FS_EmptySet
  <2>2. <<>> \in Seq(Events) /\ Len(<<>>) = 0
    OBVIOUS
  <2>3. MaxTogether \in Nat /\ MaxQueue \in Nat /\ MaxConnects \in Nat /\ MaxFailures \in Nat
    BY ConstantsAssumption
  <2>4. /\ made \in [Threads -> Nat] /\ stage \in [Threads -> {"idle", "rest", "eq", "cast"}]
        /\ cast \in [Threads \cup {Gui} ->
                       [on : BOOLEAN, to : SUBSET Clients, dead : SUBSET Clients]]
        /\ sock \in [Clients -> {"none", "open", "gone", "dead"}]
    BY <1>1, <1>2
  <2>5. last \in [Clients -> [Threads -> Nat]]
    BY <1>1
  <2>6. jobs \in [Jobs -> [at : {"free", "asked", "given_up", "answered"}, batch : SUBSET Events]]
    BY <1>1, <1>2
  <2>7. /\ eq \in Seq(Events) /\ pumped \in Seq(Events) /\ rest \in Seq(Events) /\ Len(rest) <= MaxQueue
        /\ Cardinality(clients) <= MaxTogether
        /\ connects \in 0 .. MaxConnects /\ failures \in 0 .. MaxFailures
    BY <1>1, <2>1, <2>2, <2>3
  <2> QED BY <1>1, <2>4, <2>5, <2>6, <2>7 DEF TypeOK
<1>4. StageInv /\ Together
  <2>1. IsFiniteSet({})
    BY FS_EmptySet
  <2> QED BY <1>1, <1>2, <2>1, EventFacts DEF StageInv, Together
<1>5. OnceInv
  <2>1. Elements(rest) = {} /\ DOMAIN rest = {}
    BY <1>1, EmptyElements
  <2>2. \A j \in Jobs : jobs[j].batch = {}
    BY <1>1, <1>2
  <2>3. ASSUME NEW e \in Events
        PROVE  ~ Queued(e)
    BY <1>1, EventFacts DEF Queued
  <2> QED BY <1>1, <2>1, <2>2, <2>3 DEF OnceInv
<1>6. SockInv
  BY <1>1, <1>2 DEF SockInv
<1>7. QueueInv /\ NoGapInv
  BY <1>1, EmptyElements DEF QueueInv, NoGapInv
<1>8. LastInv
  <2> SUFFICES ASSUME NEW c \in Clients, NEW t \in Threads
               PROVE  LastOk(c, t)
    BY DEF LastInv
  <2>1. last[c][t] = 0 /\ sock[c] = "none" /\ Put(t) = 0
    BY <1>1 DEF Put
  <2> QED BY <2>1 DEF LastOk
<1> QED BY <1>3, <1>4, <1>5, <1>6, <1>7, <1>8 DEF EventsInv

LEMMA EventsInductive == EventsInv /\ [Next]_vars => EventsInv'
<1> SUFFICES ASSUME EventsInv, [Next]_vars
             PROVE  EventsInv'
  OBVIOUS
<1>1. TypeStage /\ OnceInv /\ SockInv /\ QueueInv /\ NoGapInv
  BY DEF EventsInv, TypeStage
<1>2. CASE Next
  <2>1. TypeStage'
    BY <1>1, <1>2, WorkerTypes, CastTypes, ClientTypes, OtherTypes DEF Next
  <2> QED BY <1>1, <1>2, <2>1, OnceKeeps, SockKeeps, QueueKeeps, NoGapKeeps, LastKeeps
          DEF EventsInv, TypeStage
<1>3. CASE UNCHANGED vars
  <2>1. UNCHANGED <<wiring, made, stage, eq, pumped, cast, clients, sock, last, rest, lost, active, busy,
                    jobs, shown, connects, failures>>
    BY <1>3 DEF vars, workVars, tcpVars, pollVars
  <2>2. TypeOK' /\ StageInv' /\ Together'
    BY <2>1 DEF EventsInv, TypeOK, StageInv, Together, HasCurrent
  <2>3. OnceInv' /\ SockInv'
    BY <2>1 DEF EventsInv, OnceInv, SockInv, Queued, RestKinds, Elements
  <2>4. QueueInv' /\ NoGapInv'
    BY <2>1 DEF EventsInv, QueueInv, NoGapInv, Put, Elements
  <2>5. LastInv'
    BY <2>1 DEF EventsInv, LastInv, LastOk, Waits, Passed, Put
  <2> QED BY <2>2, <2>3, <2>4, <2>5 DEF EventsInv
<1> QED BY <1>2, <1>3

LEMMA EventsInvAlways == Spec => []EventsInv
<1> QED BY EventsStarts, EventsInductive, PTL DEF Spec

(* What one step sends a client is the next event of that thread it is to  *)
(* get.                                                                    *)
LEMMA SentInOrder ==
  ASSUME EventsInv, Next, NEW c \in Clients, NEW t \in Threads,
         last'[c][t] # last[c][t], last[c][t] # 0
  PROVE  /\ last'[c][t] > last[c][t]
         /\ \A n \in last[c][t] + 1 .. last'[c][t] - 1 : Kind(<<t, n>>) \notin TcpKinds
<1>1. TypeStage /\ TypeOK /\ StageInv /\ QueueInv /\ SockInv /\ LastOk(c, t)
  BY DEF EventsInv, TypeStage, LastInv
<1>2. PICK g \in Threads \cup {Gui} : CastSend(g)
  BY DEF Next, Worker, Emit, RestPut, EqPut, Pump, Cast, CastStart, CastEnd, Join, Leave, HandlerEnds,
         Connect, Disconnect, PollTick, Drain, JobEnds, JobFails, tcpVars
<1>3. PICK to \in cast[g].to, ok \in BOOLEAN :
         /\ cast[g].on /\ HasCurrent(g) /\ to \in Clients
         /\ cast' \in [Threads \cup {Gui} -> Casts]
         /\ \A h \in Threads \cup {Gui} : h # g => cast'[h] = cast[h]
         /\ cast'[g].on /\ cast'[g].to = cast[g].to \ {to}
         /\ cast'[g].dead = IF ok THEN cast[g].dead ELSE cast[g].dead \cup {to}
         /\ sock' \in [Clients -> {"none", "open", "gone", "dead"}]
         /\ sock'[to] = IF ok THEN sock[to] ELSE "dead"
         /\ (~ ok => sock[to] # "open")
         /\ \A d \in Clients : d # to => sock'[d] = sock[d]
         /\ last' \in [Clients -> [Threads -> Nat]]
         /\ \A d \in Clients, h \in Threads :
              last'[d][h] = IF d = to /\ sock[to] = "open" /\ h = Current(g)[1]
                            THEN Current(g)[2] ELSE last[d][h]
  BY <1>1, <1>2, SendFacts
<1> DEFINE m == Current(g)[2]
<1>4. c = to /\ sock[c] = "open" /\ t = Current(g)[1] /\ last'[c][t] = m
  BY <1>3
<1>5. Current(g) \in Events /\ Current(g) = <<t, m>> /\ m \in DOMAIN KindOf[t] /\ m \in Nat
      /\ DOMAIN KindOf[t] = 1 .. Len(KindOf[t]) /\ Len(KindOf[t]) \in Nat
  BY <1>1, <1>3, <1>4, CurrentFacts, EventFacts
<1>6. Waits(c, <<t, m>>)
  <2>1. ~ Passed(g, c)
    BY <1>3, <1>4 DEF Passed
  <2>2. CASE g = Gui
    <3>1. pumped[1] = <<t, m>> /\ 1 \in DOMAIN pumped
      BY <1>1, <1>3, <1>5, <2>2, CurrentFacts, TailFacts, Types
    <3> QED BY <2>1, <2>2, <3>1 DEF Waits
  <2>3. CASE g # Gui
    <3>1. stage[g] = "cast" /\ t = g /\ m = made[g]
      BY <1>1, <1>3, <1>4, <2>3, CurrentFacts
    <3>2. <<t, m>>[1] = t /\ <<t, m>>[2] = m
      OBVIOUS
    <3> QED BY <2>1, <3>1, <3>2 DEF Waits
  <2> QED BY <2>2, <2>3
<1>7. last[c][t] \in Nat /\ m > last[c][t]
  BY <1>1, <1>4, <1>5, <1>6, Types DEF LastOk
<1>8. m <= Put(t) /\ Put(t) \in Nat
  <2>1. LastOk(c, t)'
    BY <1>2, LastSend
  <2>2. Put(t)' = Put(t)
    BY <1>2 DEF CastSend, Put
  <2> QED BY <1>1, <1>4, <2>1, <2>2, PutFacts DEF LastOk
<1>9. ASSUME NEW n \in last[c][t] + 1 .. m - 1, Kind(<<t, n>>) \in TcpKinds
      PROVE  FALSE
  <2> HIDE DEF m
  <2>1. n \in Nat /\ last[c][t] < n /\ n < m /\ n <= Put(t) /\ n \in DOMAIN KindOf[t]
    BY <1>5, <1>7, <1>8
  <2>2. Waits(c, <<t, n>>)
    BY <1>1, <1>4, <1>9, <2>1 DEF LastOk
  <2>3. <<t, n>> # Current(g)
    BY <1>5, <2>1
  <2>4. m < n
    BY <1>1, <1>3, <1>4, <2>2, <2>3, NextInLine DEF m
  <2> QED BY <1>5, <2>1, <2>4
<1> QED BY <1>4, <1>7, <1>9

(* The state of the queues, of the broadcasts, of the connections and of   *)
(* the polls is always well-formed.                                        *)
THEOREM EventTypes == Spec => []TypeOK
<1>1. EventsInv => TypeOK
  BY DEF EventsInv
<1> QED BY <1>1, EventsInvAlways, PTL

(* enqueue_event(), the drains and the client of the REST server together: *)
(* an event that was put into the REST queue is in exactly one place, with *)
(* any number of polls under way.                                          *)
THEOREM NothingTwice == Spec => []EachEventOnce
<1>1. EventsInv => EachEventOnce
  BY OnceCounts DEF EventsInv
<1> QED BY <1>1, EventsInvAlways, PTL

(* broadcast(): a TCP client is sent the events of a thread in their order *)
(* and none of them is left out, in both programs, whoever else connects   *)
(* or breaks and however many threads broadcast side by side.              *)
THEOREM SentWithoutGaps == Spec => InOrderWithoutGaps
<1>1. ASSUME EventsInv, [Next]_vars
      PROVE  [\A c \in Clients, t \in Threads :
                last'[c][t] # last[c][t] /\ last[c][t] # 0 =>
                  /\ last'[c][t] > last[c][t]
                  /\ \A n \in last[c][t] + 1 .. last'[c][t] - 1 : Kind(<<t, n>>) \notin TcpKinds]_vars
  BY <1>1, SentInOrder
<1> QED BY <1>1, EventsInvAlways, PTL DEF Spec, InOrderWithoutGaps

-----------------------------------------------------------------------------
(* One order in the window.                                                *)

(* What is broadcast, and so what a client was sent, is of a kind that is  *)
(* sent over TCP.                                                          *)
KindInv ==
  /\ \A c \in Clients, t \in Threads :
       last[c][t] # 0 => last[c][t] \in DOMAIN KindOf[t] /\ Kind(<<t, last[c][t]>>) \in TcpKinds
  /\ \A g \in Threads \cup {Gui} : cast[g].on => Kind(Current(g)) \in TcpKinds

LEMMA KindKeeps ==
  ASSUME EventsInv, KindInv, Next
  PROVE  KindInv'
<1>1. TypeOK /\ StageInv
  BY DEF EventsInv
<1>2. ASSUME NEW t \in Threads, Emit(t)
      PROVE  KindInv'
  <2>1. UNCHANGED <<pumped, cast, last>> /\ stage[t] = "idle"
        /\ \A h \in Threads : h # t => made'[h] = made[h]
    <3>1. made \in [Threads -> Nat]
      BY <1>1 DEF TypeOK
    <3> QED BY <1>2, <3>1 DEF Emit, tcpVars
  <2>2. ASSUME NEW g \in Threads \cup {Gui}, cast[g].on
        PROVE  Current(g)' = Current(g)
    <3>1. g # t
      BY <1>1, <2>1, <2>2, EventFacts DEF StageInv, HasCurrent
    <3> QED BY <2>1, <3>1 DEF Current
  <2> QED BY <2>1, <2>2 DEF KindInv, Kind
<1>3. ASSUME NEW g \in Threads \cup {Gui}, CastStart(g) \/ CastEnd(g)
      PROVE  KindInv'
  <2>1. HasCurrent(g) /\ UNCHANGED <<made, last>>
    BY <1>1, <1>3 DEF CastStart, CastEnd, StageInv, tcpVars
  <2>2. CASE Finish(g)
    <3>1. ~ cast'[g].on /\ \A h \in Threads \cup {Gui} : h # g => cast'[h] = cast[h]
      BY <1>1, <2>1, <2>2, FinishFacts DEF NoCast
    <3>2. ASSUME NEW h \in Threads \cup {Gui}, h # g
          PROVE  Current(h)' = Current(h)
      BY <2>1, <2>2, <3>2 DEF Current, Finish
    <3> QED BY <2>1, <3>1, <3>2 DEF KindInv, Kind
  <2>3. CASE ~ Finish(g)
    <3>1. /\ Kind(Current(g)) \in TcpKinds /\ UNCHANGED <<pumped, stage>>
          /\ cast' = [cast EXCEPT ![g] = [on |-> TRUE, to |-> clients, dead |-> {}]]
      BY <1>3, <2>3 DEF CastStart, CastEnd
    <3>2. \A h \in Threads \cup {Gui} : h # g => cast'[h] = cast[h]
      BY <1>1, <3>1 DEF TypeOK
    <3>3. \A h \in Threads \cup {Gui} : Current(h)' = Current(h)
      BY <2>1, <3>1 DEF Current
    <3> QED BY <2>1, <3>1, <3>2, <3>3 DEF KindInv, Kind
  <2> QED BY <2>2, <2>3
<1>4. ASSUME NEW g \in Threads \cup {Gui}, CastSend(g)
      PROVE  KindInv'
  <2>1. PICK to \in cast[g].to, ok \in BOOLEAN :
          /\ cast[g].on /\ HasCurrent(g)
          /\ \A h \in Threads \cup {Gui} : h # g => cast'[h] = cast[h]
          /\ \A d \in Clients, t \in Threads :
               last'[d][t] = IF d = to /\ sock[to] = "open" /\ t = Current(g)[1]
                             THEN Current(g)[2] ELSE last[d][t]
    BY <1>1, <1>4, SendFacts
  <2>2. Current(g) \in Events /\ Kind(Current(g)) \in TcpKinds
    BY <1>1, <2>1, CurrentFacts DEF KindInv
  <2>3. /\ Current(g)[2] \in DOMAIN KindOf[Current(g)[1]]
        /\ Kind(<<Current(g)[1], Current(g)[2]>>) \in TcpKinds
    BY <2>2, EventFacts
  <2>4. ASSUME NEW c \in Clients, NEW t \in Threads, last'[c][t] # 0
        PROVE  last'[c][t] \in DOMAIN KindOf[t] /\ Kind(<<t, last'[c][t]>>) \in TcpKinds
    BY <2>1, <2>3, <2>4 DEF KindInv
  <2>5. ASSUME NEW h \in Threads \cup {Gui}, cast'[h].on
        PROVE  Kind(Current(h))' \in TcpKinds
    <3>1. Current(h)' = Current(h) /\ cast[h].on
      BY <1>4, <2>1, <2>5 DEF CastSend, Current
    <3> QED BY <3>1 DEF KindInv, Kind
  <2> QED BY <2>4, <2>5 DEF KindInv, Kind
<1>5. CASE Pump
  <2>1. pumped = <<>> /\ UNCHANGED <<made, cast, last>>
    BY <1>5 DEF Pump, tcpVars
  <2>2. ~ cast[Gui].on
    BY <1>1, <2>1 DEF StageInv, HasCurrent
  <2>3. \A g \in Threads \cup {Gui} : cast[g].on => Current(g)' = Current(g)
    BY <2>1, <2>2 DEF Current
  <2> QED BY <2>1, <2>3 DEF KindInv, Kind
<1>6. CASE ~ Pump /\ ~ (\E t \in Threads : Emit(t)) /\ ~ (\E g \in Threads \cup {Gui} : Cast(g))
  <2>1. UNCHANGED <<made, pumped, cast, last>>
    BY <1>6 DEF Next, Worker, RestPut, EqPut, Join, Leave, HandlerEnds, Connect, Disconnect, PollTick, Drain,
                JobEnds, JobFails, workVars, tcpVars
  <2> QED BY <2>1 DEF KindInv, Kind, Current
<1> QED BY <1>2, <1>3, <1>4, <1>5, <1>6 DEF Cast

(* In the window a client that is behind another one in the events of a    *)
(* thread waits for the event _pump() is at.                               *)
LEMMA AheadByCurrent ==
  ASSUME EventsInv, KindInv, wiring = "window", NEW c \in Clients, NEW d \in Clients, NEW t \in Threads,
         sock[c] = "open", sock[d] = "open", Apart(c, d, t), last[c][t] > last[d][t]
  PROVE  pumped[1][1] = t
<1> DEFINE n == last[c][t]
<1>1. LastOk(c, t) /\ LastOk(d, t) /\ StageInv /\ last[c][t] # 0 /\ last[d][t] # 0
  BY DEF EventsInv, LastInv, Apart
<1>2. n \in Nat /\ last[d][t] \in Nat /\ n \in DOMAIN KindOf[t] /\ Kind(<<t, n>>) \in TcpKinds
  BY <1>1, Types DEF EventsInv, KindInv
<1>3. n <= Put(t) /\ last[d][t] < n
  BY <1>1, <1>2 DEF LastOk
<1>4. Waits(d, <<t, n>>)
  BY <1>1, <1>2, <1>3 DEF LastOk
<1>5. ~ Waits(c, <<t, n>>)
  <2>1. Waits(c, <<t, n>>) => n > last[c][t]
    BY <1>1, <1>2 DEF LastOk
  <2> QED BY <1>2, <2>1
<1>6. stage[t] # "cast" /\ <<t, n>>[1] = t
  BY <1>1 DEF StageInv
<1>7. PICK i \in DOMAIN pumped : pumped[i] = <<t, n>>
  BY <1>4, <1>5, <1>6 DEF Waits
<1>8. i = 1
  BY <1>5, <1>7 DEF Waits
<1> QED BY <1>7, <1>8

(* _pump() is the only one to broadcast in the window: all TCP clients are *)
(* sent the events of all threads in one order, whoever comes and leaves.  *)
THEOREM WindowHasOneOrder == Spec => []SameOrder
<1>1. Init => KindInv
  <2> SUFFICES ASSUME Init
               PROVE  KindInv
    OBVIOUS
  <2>1. \A c \in Clients, t \in Threads : last[c][t] = 0
    BY DEF Init, InitAtRest
  <2>2. \A g \in Threads \cup {Gui} : ~ cast[g].on
    BY DEF Init, InitAtRest, NoCast
  <2> QED BY <2>1, <2>2 DEF KindInv
<1>2. EventsInv /\ KindInv /\ [Next]_vars => KindInv'
  <2>1. UNCHANGED vars /\ KindInv => KindInv'
    BY DEF vars, workVars, tcpVars, KindInv, Kind, Current
  <2> QED BY <2>1, KindKeeps
<1>3. EventsInv /\ KindInv => SameOrder
  <2> SUFFICES ASSUME EventsInv, KindInv, wiring = "window", NEW c \in Clients, NEW d \in Clients,
                      sock[c] = "open", sock[d] = "open", NEW t \in Threads, NEW u \in Threads,
                      Apart(c, d, t), Apart(c, d, u)
               PROVE  t = u
    BY DEF SameOrder
  <2>1. ASSUME NEW h \in Threads, Apart(c, d, h)
        PROVE  pumped[1][1] = h
    <3>1. Apart(d, c, h) /\ last[c][h] \in Nat /\ last[d][h] \in Nat /\ last[c][h] # last[d][h]
      BY <2>1, Types DEF Apart, EventsInv
    <3>2. last[c][h] > last[d][h] \/ last[d][h] > last[c][h]
      BY <3>1
    <3> QED BY <2>1, <3>1, <3>2, AheadByCurrent
  <2> QED BY <2>1
<1> QED BY <1>1, <1>2, <1>3, EventsInvAlways, PTL DEF Spec

================================================================================
