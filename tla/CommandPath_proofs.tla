-------------------------- MODULE CommandPath_proofs --------------------------
(***************************************************************************)
(* Proofs about CommandPath, for every set of commands, keys and           *)
(* priorities, every number of repetitions and every set of troubles.      *)
(*                                                                         *)
(* A command is registered at most once: in pending under its own key, or  *)
(* in the list of the sweep, and only while no report on it was given      *)
(* (TrackerInv).  That is why the answer, the sweep and the repetition     *)
(* cannot conclude it twice.  And every answer is counted where it is: on  *)
(* its way, or in the report on the one command that took it (CountInv).   *)
(***************************************************************************)
EXTENDS CommandPath, TLAPS, FiniteSetTheorems, FunctionTheorems, SequenceTheorems

Once(s) == \A i, j \in DOMAIN s : s[i] = s[j] => i = j

(* The caller has returned, and no report was given.                       *)
Open(c) == pc[c] = "returned" /\ verdict[c] = <<>>

PendingInv ==
  \A k \in Keys : \A i \in DOMAIN pending[k] :
    /\ KeyOf[pending[k][i]] = k
    /\ Open(pending[k][i])
    /\ \A j \in DOMAIN expired : expired[j] # pending[k][i]

CallerInv ==
  \A c \in Commands :
    /\ pc[c] # "returned" => verdict[c] = <<>>
    /\ pc[c] = "queued" => c \in Awaited

SweepInv ==
  /\ \A j \in DOMAIN expired : Open(expired[j])
  /\ Once(expired)
  /\ sweep = "idle" <=> expired = <<>>
  /\ sweep \in {"resending", "registering"} => tries[Head(expired)] < MaxResends

TrackerInv ==
  /\ PendingInv
  /\ \A k \in Keys : Once(pending[k])
  /\ CallerInv
  /\ SweepInv

UsedIn(v, k, a) == {c \in Commands : KeyOf[c] = k /\ v[c] # <<>> /\ v[c][1] = a}

ArrivedIn(u, k, a) == {i \in DOMAIN u : KeyOf[u[i].cmd] = k /\ Code(u[i].ok) = a}

CountInv ==
  \A k \in Keys, a \in {"OO", "PP"} :
    Cardinality(UsedIn(verdict, k, a)) + Cardinality(ArrivedIn(up, k, a)) <= answers[k][a]

PathInv == TypeOK /\ TrackerInv /\ OneVerdict /\ CountInv

-----------------------------------------------------------------------------
(* The rank of a number in a set of numbers.                               *)

(* A set of numbers that is not empty has a smallest one.                  *)
LEMMA Smallest ==
  ASSUME NEW T, T \subseteq Nat, T # {}
  PROVE  \E m \in T : \A i \in T : m <= i
<1>1. PICK m \in T : \A i \in T : ~ (<<i, m>> \in OpToRel(<, Nat))
  BY NatLessThanWellFounded, WFMin
<1>2. \A i \in T : ~(i < m)
  BY <1>1 DEF OpToRel
<1> QED BY <1>2

(* Of the elements up to m there are as many as up to m - 1, or one more.  *)
LEMMA RankStep ==
  ASSUME NEW N \in Nat, NEW S \in SUBSET (1 .. N), NEW m \in 1 .. N
  PROVE  /\ Cardinality({j \in S : j <= m}) \in Nat
         /\ Cardinality({j \in S : j <= m - 1}) \in Nat
         /\ m \notin S => Cardinality({j \in S : j <= m}) = Cardinality({j \in S : j <= m - 1})
         /\ Cardinality({j \in S : j <= m}) <= Cardinality({j \in S : j <= m - 1}) + 1
<1> DEFINE A == {j \in S : j <= m}
           B == {j \in S : j <= m - 1}
<1>1. IsFiniteSet(A) /\ IsFiniteSet(B) /\ IsFiniteSet(B \cup {m})
  <2>1. IsFiniteSet(1 .. N)
    BY FS_Interval
  <2> QED BY <2>1, FS_Subset
<1>2. Cardinality(A) \in Nat /\ Cardinality(B) \in Nat
  BY <1>1, FS_CardinalityType
<1>3. m \notin B
  OBVIOUS
<1>4. Cardinality(B \cup {m}) = Cardinality(B) + 1
  BY <1>1, <1>3, FS_AddElement
<1>5. A \subseteq B \cup {m} /\ (m \notin S => A = B)
  <2>1. \A j \in S : j \in Int /\ (j <= m <=> j <= m - 1 \/ j = m)
    OBVIOUS
  <2> QED BY <2>1
<1>6. Cardinality(A) <= Cardinality(B \cup {m})
  BY <1>1, <1>5, FS_Subset
<1> QED BY <1>2, <1>4, <1>5, <1>6

(* Every rank up to the size of the set is the rank of an element.         *)
LEMMA RankExists ==
  ASSUME NEW N \in Nat, NEW S \in SUBSET (1 .. N),
         NEW n \in 1 .. Cardinality(S)
  PROVE  \E i \in S : Cardinality({j \in S : j <= i}) = n
<1> DEFINE R(m) == Cardinality({j \in S : j <= m})
           T == {m \in 1 .. N : n <= R(m)}
<1>1. IsFiniteSet(S) /\ Cardinality(S) \in Nat
  <2>1. IsFiniteSet(1 .. N)
    BY FS_Interval
  <2>2. IsFiniteSet(S)
    BY <2>1, FS_Subset
  <2> QED BY <2>2, FS_CardinalityType
<1>2. R(N) = Cardinality(S) /\ R(0) = 0
  <2>1. \A j \in S : j <= N /\ ~(j <= 0)
    OBVIOUS
  <2>2. {j \in S : j <= N} = S /\ {j \in S : j <= 0} = {}
    BY <2>1
  <2> QED BY <2>2, FS_EmptySet
<1>3. N \in 1 .. N
  <2>1. N # 0
    BY <1>1, <1>2
  <2> QED BY <2>1
<1>4. T # {} /\ T \subseteq Nat
  BY <1>1, <1>2, <1>3
<1> HIDE DEF T
<1>5. PICK m \in T : \A i \in T : m <= i
  BY <1>4, Smallest
<1>6. m \in 1 .. N /\ n <= R(m)
  BY DEF T
<1>7. R(m - 1) < n
  <2>1. CASE m = 1
    BY <1>2, <2>1
  <2>2. CASE m # 1
    <3>1. m - 1 \in 1 .. N /\ m - 1 \notin T
      BY <1>5, <1>6, <2>2
    <3>2. R(m - 1) \in Nat
      BY <3>1, RankStep
    <3> QED BY <3>1, <3>2 DEF T
  <2> QED BY <2>1, <2>2
<1>8. R(m) = n /\ m \in S
  <2>1. /\ R(m) \in Nat /\ R(m - 1) \in Nat
        /\ m \notin S => R(m) = R(m - 1)
        /\ R(m) <= R(m - 1) + 1
    BY <1>6, RankStep
  <2> HIDE DEF R
  <2> QED BY <1>6, <1>7, <2>1
<1> QED BY <1>8

-----------------------------------------------------------------------------
(* Sequences.                                                              *)

LEMMA TailFacts ==
  ASSUME NEW S, NEW s \in Seq(S), s # <<>>
  PROVE  /\ Head(s) = s[1] /\ Head(s) \in S
         /\ Tail(s) \in Seq(S)
         /\ Len(s) \in Nat /\ Len(s) # 0 /\ Len(Tail(s)) = Len(s) - 1
         /\ DOMAIN s = 1 .. Len(s) /\ DOMAIN Tail(s) = 1 .. Len(Tail(s))
         /\ \A i \in DOMAIN Tail(s) : Tail(s)[i] = s[i + 1]
  OBVIOUS

(* What an appended element is and where.                                  *)
LEMMA AppendFacts ==
  ASSUME NEW S, NEW s \in Seq(S), NEW e \in S
  PROVE  /\ Append(s, e) \in Seq(S)
         /\ \A i \in DOMAIN Append(s, e) :
              (i \in DOMAIN s /\ Append(s, e)[i] = s[i]) \/ (i = Len(s) + 1 /\ Append(s, e)[i] = e)
         /\ \A i \in DOMAIN s : i # Len(s) + 1
  OBVIOUS

(* A sequence without an element twice stays one without its head, and     *)
(* with a new element.                                                     *)
LEMMA OnceTail ==
  ASSUME NEW S, NEW s \in Seq(S), s # <<>>, Once(s)
  PROVE  /\ Once(Tail(s))
         /\ \A i \in DOMAIN Tail(s) : Tail(s)[i] # Head(s) /\ (\E j \in DOMAIN s : Tail(s)[i] = s[j])
<1>1. \A i \in DOMAIN Tail(s) : i + 1 \in DOMAIN s /\ i + 1 # 1 /\ 1 \in DOMAIN s
                                /\ Tail(s)[i] = s[i + 1] /\ i \in Int
  BY TailFacts
<1>2. Once(Tail(s))
  <2> SUFFICES ASSUME NEW i \in DOMAIN Tail(s), NEW j \in DOMAIN Tail(s), Tail(s)[i] = Tail(s)[j]
               PROVE  i = j
    BY DEF Once
  <2>1. i + 1 = j + 1
    BY <1>1 DEF Once
  <2> QED BY <1>1, <2>1
<1>3. ASSUME NEW i \in DOMAIN Tail(s)
      PROVE  Tail(s)[i] # Head(s) /\ (\E j \in DOMAIN s : Tail(s)[i] = s[j])
  BY <1>1, TailFacts DEF Once
<1> QED BY <1>2, <1>3

LEMMA OnceAppend ==
  ASSUME NEW S, NEW s \in Seq(S), Once(s), NEW e \in S, \A i \in DOMAIN s : s[i] # e
  PROVE  Once(Append(s, e))
  BY AppendFacts DEF Once

-----------------------------------------------------------------------------
(* Answers on their way and answers used.                                  *)

Verdicts == [Commands -> Seq(Codes)]

Arrivals == Seq([cmd : Commands, ok : BOOLEAN])

LEMMA CodeType == \A ok \in BOOLEAN : Code(ok) \in {"OO", "PP"} /\ Code(ok) \in Codes
  BY DEF Code, Codes

LEMMA ArrivedFinite ==
  ASSUME NEW u \in Arrivals, NEW k, NEW a
  PROVE  IsFiniteSet(ArrivedIn(u, k, a)) /\ Cardinality(ArrivedIn(u, k, a)) \in Nat
<1>1. IsFiniteSet(1 .. Len(u)) /\ DOMAIN u = 1 .. Len(u)
  BY FS_Interval DEF Arrivals
<1>2. IsFiniteSet(ArrivedIn(u, k, a))
  BY <1>1, FS_Subset DEF ArrivedIn
<1> QED BY <1>2, FS_CardinalityType

LEMMA UsedFinite ==
  ASSUME NEW v \in Verdicts, NEW k, NEW a
  PROVE  IsFiniteSet(UsedIn(v, k, a)) /\ Cardinality(UsedIn(v, k, a)) \in Nat
<1>1. IsFiniteSet(UsedIn(v, k, a))
  BY FiniteAssumption, FS_Subset DEF UsedIn
<1> QED BY <1>1, FS_CardinalityType

(* The oldest answer leaves: one less of its key and code, if it is one of *)
(* them.                                                                   *)
LEMMA TailArrived ==
  ASSUME NEW u \in Arrivals, u # <<>>, NEW k, NEW a
  PROVE  /\ Tail(u) \in Arrivals
         /\ Head(u) \in [cmd : Commands, ok : BOOLEAN]
         /\ Cardinality(ArrivedIn(Tail(u), k, a)) =
              IF KeyOf[Head(u).cmd] = k /\ Code(Head(u).ok) = a
              THEN Cardinality(ArrivedIn(u, k, a)) - 1
              ELSE Cardinality(ArrivedIn(u, k, a))
<1> DEFINE D == ArrivedIn(u, k, a) \ {1}
           E == ArrivedIn(Tail(u), k, a)
           f == [i \in E |-> i + 1]
<1>1. /\ Tail(u) \in Arrivals /\ Head(u) = u[1] /\ Head(u) \in [cmd : Commands, ok : BOOLEAN]
      /\ Len(u) \in Nat /\ Len(u) # 0 /\ Len(Tail(u)) = Len(u) - 1
      /\ DOMAIN u = 1 .. Len(u) /\ DOMAIN Tail(u) = 1 .. Len(Tail(u))
      /\ \A i \in DOMAIN Tail(u) : Tail(u)[i] = u[i + 1]
  BY TailFacts DEF Arrivals
<1>2. IsFiniteSet(ArrivedIn(u, k, a)) /\ IsFiniteSet(E) /\ Cardinality(ArrivedIn(u, k, a)) \in Nat
  BY <1>1, ArrivedFinite
<1>3. \A i \in E : i \in Nat /\ i + 1 \in D
  BY <1>1 DEF ArrivedIn
<1>4. \A i \in D : i - 1 \in E /\ (i - 1) + 1 = i
  <2> SUFFICES ASSUME NEW i \in D PROVE i - 1 \in E /\ (i - 1) + 1 = i
    OBVIOUS
  <2>1. i \in 2 .. Len(u) /\ KeyOf[u[i].cmd] = k /\ Code(u[i].ok) = a
    BY <1>1 DEF ArrivedIn
  <2>2. i - 1 \in DOMAIN Tail(u) /\ (i - 1) + 1 = i
    BY <1>1, <2>1
  <2> QED BY <1>1, <2>1, <2>2 DEF ArrivedIn
<1> HIDE DEF D, E
<1>5. f \in Bijection(E, D)
  <2>1. f \in [E -> D]
    BY <1>3
  <2>2. \A i, j \in E : f[i] = f[j] => i = j
    BY <1>3
  <2>3. \A i \in D : \E j \in E : f[j] = i
    BY <1>4
  <2> QED BY <2>1, <2>2, <2>3, Fun_IsBij
<1>6. Cardinality(D) = Cardinality(E)
  BY <1>2, <1>5, FS_Bijection DEF ExistsBijection
<1>7. Cardinality(D) = IF 1 \in ArrivedIn(u, k, a) THEN Cardinality(ArrivedIn(u, k, a)) - 1
                       ELSE Cardinality(ArrivedIn(u, k, a))
  BY <1>2, FS_RemoveElement DEF D
<1>8. 1 \in ArrivedIn(u, k, a) <=> KeyOf[Head(u).cmd] = k /\ Code(Head(u).ok) = a
  BY <1>1 DEF ArrivedIn
<1> QED BY <1>1, <1>6, <1>7, <1>8 DEF E

(* The node sends one more answer.                                         *)
LEMMA AppendArrived ==
  ASSUME NEW u \in Arrivals, NEW e \in [cmd : Commands, ok : BOOLEAN], NEW k, NEW a
  PROVE  /\ Append(u, e) \in Arrivals
         /\ Cardinality(ArrivedIn(Append(u, e), k, a)) =
              IF KeyOf[e.cmd] = k /\ Code(e.ok) = a
              THEN Cardinality(ArrivedIn(u, k, a)) + 1
              ELSE Cardinality(ArrivedIn(u, k, a))
<1> DEFINE n == Len(u) + 1
           A == ArrivedIn(u, k, a)
<1>1. /\ Append(u, e) \in Arrivals
      /\ DOMAIN u = 1 .. Len(u) /\ Len(u) \in Nat /\ n \notin DOMAIN u
      /\ DOMAIN Append(u, e) = DOMAIN u \cup {n}
      /\ Append(u, e)[n] = e
      /\ \A i \in DOMAIN u : Append(u, e)[i] = u[i]
  BY DEF Arrivals
<1>2. ArrivedIn(Append(u, e), k, a) =
        IF KeyOf[e.cmd] = k /\ Code(e.ok) = a THEN A \cup {n} ELSE A
  BY <1>1 DEF ArrivedIn
<1>3. n \notin A
  BY <1>1 DEF ArrivedIn
<1>4. IsFiniteSet(A)
  BY ArrivedFinite
<1>5. Cardinality(A \cup {n}) = Cardinality(A) + 1
  BY <1>3, <1>4, FS_AddElement
<1> QED BY <1>1, <1>2, <1>5

(* A command without a report gets one.                                    *)
LEMMA Concluded ==
  ASSUME NEW c \in Commands, NEW code \in Codes, verdict \in Verdicts, verdict[c] = <<>>,
         Conclude(c, code)
  PROVE  /\ verdict' \in Verdicts
         /\ verdict'[c] = <<code>> /\ Len(verdict'[c]) = 1
         /\ \A d \in Commands : d # c => verdict'[d] = verdict[d]
<1>1. verdict' = [verdict EXCEPT ![c] = <<code>>]
  BY DEF Conclude, Verdicts
<1>2. <<code>> \in Seq(Codes) /\ Len(<<code>>) = 1
  OBVIOUS
<1> QED BY <1>1, <1>2 DEF Verdicts

LEMMA ConcludeUses ==
  ASSUME NEW c \in Commands, NEW code \in Codes, verdict \in Verdicts, verdict[c] = <<>>,
         Conclude(c, code), NEW k, NEW a
  PROVE  Cardinality(UsedIn(verdict', k, a)) =
           IF KeyOf[c] = k /\ code = a
           THEN Cardinality(UsedIn(verdict, k, a)) + 1
           ELSE Cardinality(UsedIn(verdict, k, a))
<1> DEFINE A == UsedIn(verdict, k, a)
<1>1. /\ verdict'[c] # <<>> /\ verdict'[c][1] = code
      /\ \A d \in Commands : d # c => verdict'[d] = verdict[d]
  BY Concluded
<1>2. c \notin A
  BY DEF UsedIn
<1>3. UsedIn(verdict', k, a) = IF KeyOf[c] = k /\ code = a THEN A \cup {c} ELSE A
  BY <1>1, <1>2 DEF UsedIn
<1>4. IsFiniteSet(A)
  BY UsedFinite
<1>5. Cardinality(A \cup {c}) = Cardinality(A) + 1
  BY <1>2, <1>4, FS_AddElement
<1> QED BY <1>1, <1>3, <1>5

-----------------------------------------------------------------------------
(* The steps that leave the tracker alone.                                 *)

LEMMA TrackerStays ==
  ASSUME TrackerInv, OneVerdict, UNCHANGED trackerVars,
         \A c \in Commands : pc[c] = "returned" => pc'[c] = "returned",
         \A c \in Commands : pc'[c] = "queued" => pc[c] = "queued" \/ c \in Awaited,
         TypeOK
  PROVE  TrackerInv' /\ OneVerdict'
<1>1. UNCHANGED <<pending, sweep, expired, tries, verdict>>
  BY DEF trackerVars
<1>2. \A k \in Keys : \A i \in DOMAIN pending[k] : pending[k][i] \in Commands
  BY AwaitedAssumption DEF TypeOK
<1>3. \A j \in DOMAIN expired : expired[j] \in Commands
  BY AwaitedAssumption DEF TypeOK
<1> QED BY <1>1, <1>2, <1>3 DEF TrackerInv, PendingInv, CallerInv, SweepInv, OneVerdict, Open, Once

LEMMA CountStays ==
  ASSUME CountInv, UNCHANGED <<up, answers, verdict>>
  PROVE  CountInv'
  BY DEF CountInv

LEMMA QueueTypes ==
  ASSUME TypeOK
  PROVE  /\ \A i \in DOMAIN txq : RemoveAt(txq, i) \in Seq(Commands) /\ txq[i] \in Commands
         /\ \A c \in Commands : Append(txq, c) \in Seq(Commands) /\ Append(down, c) \in Seq(Commands)
         /\ down # <<>> => Tail(down) \in Seq(Commands) /\ Head(down) \in Commands
<1>1. txq \in Seq(Commands) /\ down \in Seq(Commands)
  BY DEF TypeOK
<1>2. ASSUME NEW i \in DOMAIN txq
      PROVE  RemoveAt(txq, i) \in Seq(Commands) /\ txq[i] \in Commands
  <2>1. i \in 1 .. Len(txq) /\ Len(txq) \in Nat
    BY <1>1
  <2>2. SubSeq(txq, 1, i - 1) \in Seq(Commands) /\ SubSeq(txq, i + 1, Len(txq)) \in Seq(Commands)
    BY <1>1, <2>1
  <2> QED BY <1>1, <2>2 DEF RemoveAt
<1> QED BY <1>1, <1>2, TailFacts

LEMMA CallerKeeps ==
  ASSUME PathInv, NEW c \in Commands, Admit(c) \/ PutQueue(c)
  PROVE  PathInv'
<1>1. /\ UNCHANGED <<linkUp, ota, trackerVars, busVars>>
      /\ pc' \in [Commands -> CallerPlaces]
      /\ txq' \in Seq(Commands)
      /\ \A d \in Commands : pc[d] = "returned" => pc'[d] = "returned"
      /\ \A d \in Commands : pc'[d] = "queued" => pc[d] = "queued" \/ d \in Awaited
  <2>1. pc \in [Commands -> CallerPlaces] /\ txq \in Seq(Commands) /\ TypeOK
    BY DEF PathInv, TypeOK
  <2>2. CASE Admit(c)
    BY <2>1, <2>2 DEF Admit, CallerPlaces
  <2>3. CASE PutQueue(c)
    BY <2>1, <2>3, QueueTypes DEF PutQueue, CallerPlaces
  <2> QED BY <2>2, <2>3
<1>2. TypeOK'
  BY <1>1 DEF PathInv, TypeOK, trackerVars, busVars
<1>3. TrackerInv' /\ OneVerdict'
  BY <1>1, TrackerStays DEF PathInv
<1>4. CountInv'
  BY <1>1, CountStays DEF PathInv, trackerVars, busVars
<1> QED BY <1>2, <1>3, <1>4 DEF PathInv

LEMMA BusKeeps ==
  ASSUME PathInv,
         \/ \E i \in DOMAIN txq : Transmit(i) \/ TransmitLost(i)
         \/ ToggleOta
         \/ ToggleLink
         \/ LoseFrame
         \/ NodeAnswers
         \/ UNCHANGED vars
  PROVE  PathInv'
<1>1. TypeOK /\ TrackerInv /\ OneVerdict /\ CountInv
  BY DEF PathInv
<1>2. UNCHANGED trackerVars /\ pc' = pc
  BY DEF Transmit, TransmitLost, ToggleOta, ToggleLink, LoseFrame, NodeAnswers, vars, trackerVars, callerVars
<1>3. TrackerInv' /\ OneVerdict'
  BY <1>1, <1>2, TrackerStays
<1>4. SUFFICES TypeOK' /\ CountInv'
  BY <1>3 DEF PathInv
<1>5. CASE \E i \in DOMAIN txq : Transmit(i) \/ TransmitLost(i)
  <2>1. TypeOK'
    BY <1>1, <1>2, <1>5, QueueTypes DEF TypeOK, Transmit, TransmitLost, PutOnBus, trackerVars, busVars
  <2>2. CountInv'
    BY <1>1, <1>2, <1>5, CountStays DEF Transmit, TransmitLost, trackerVars, busVars
  <2> QED BY <2>1, <2>2
<1>6. CASE ToggleOta \/ ToggleLink \/ UNCHANGED vars
  <2>1. TypeOK'
    BY <1>1, <1>6 DEF TypeOK, ToggleOta, ToggleLink, vars, trackerVars, busVars, callerVars
  <2>2. CountInv'
    BY <1>1, <1>2, <1>6, CountStays DEF ToggleOta, ToggleLink, trackerVars, busVars, vars
  <2> QED BY <2>1, <2>2
<1>7. CASE LoseFrame
  <2>1. CASE down # <<>> /\ down' = Tail(down) /\ UNCHANGED up
    <3>1. TypeOK'
      BY <1>1, <1>7, <2>1, QueueTypes DEF TypeOK, LoseFrame, trackerVars, callerVars
    <3>2. CountInv'
      BY <1>1, <1>7, <2>1, CountStays DEF LoseFrame, trackerVars
    <3> QED BY <3>1, <3>2
  <2>2. CASE up # <<>> /\ up' = Tail(up) /\ UNCHANGED down
    <3>1. up \in Arrivals /\ verdict \in Verdicts
      BY <1>1 DEF TypeOK, Arrivals, Verdicts
    <3>2. up' \in Arrivals
      BY <2>2, <3>1, TailArrived
    <3>3. TypeOK'
      BY <1>1, <1>7, <2>2, <3>2 DEF TypeOK, LoseFrame, trackerVars, callerVars, Arrivals
    <3>4. CountInv'
      <4> SUFFICES ASSUME NEW k \in Keys, NEW a \in {"OO", "PP"}
                   PROVE  Cardinality(UsedIn(verdict', k, a)) + Cardinality(ArrivedIn(up', k, a)) <= answers'[k][a]
        BY DEF CountInv
      <4>1. verdict' = verdict /\ answers' = answers
        BY <1>7 DEF LoseFrame, trackerVars
      <4>2. Cardinality(ArrivedIn(up', k, a)) \in {Cardinality(ArrivedIn(up, k, a)), Cardinality(ArrivedIn(up, k, a)) - 1}
        BY <2>2, <3>1, TailArrived
      <4>3. Cardinality(ArrivedIn(up, k, a)) \in Nat /\ Cardinality(UsedIn(verdict, k, a)) \in Nat
        BY <3>1, ArrivedFinite, UsedFinite
      <4>4. Cardinality(UsedIn(verdict, k, a)) + Cardinality(ArrivedIn(up, k, a)) <= answers[k][a]
        BY <1>1 DEF CountInv
      <4>5. answers[k][a] \in Nat
        BY <1>1 DEF TypeOK
      <4> QED BY <4>1, <4>2, <4>3, <4>4, <4>5
    <3> QED BY <3>3, <3>4
  <2> QED BY <1>7, <2>1, <2>2 DEF LoseFrame
<1>8. CASE NodeAnswers
  <2>1. PICK ok \in BOOLEAN :
          /\ up' = Append(up, [cmd |-> Head(down), ok |-> ok])
          /\ answers' = [answers EXCEPT ![KeyOf[Head(down)]][Code(ok)] = @ + 1]
    BY <1>8 DEF NodeAnswers
  <2>2. /\ up \in Arrivals /\ verdict \in Verdicts /\ answers \in [Keys -> [{"OO", "PP"} -> Nat]]
    BY <1>1 DEF TypeOK, Arrivals, Verdicts
  <2> DEFINE e == [cmd |-> Head(down), ok |-> ok]
             key == KeyOf[Head(down)]
  <2>3. Head(down) \in Commands /\ Tail(down) \in Seq(Commands) /\ down' = Tail(down)
    BY <1>1, <1>8, QueueTypes DEF NodeAnswers
  <2>4. e \in [cmd : Commands, ok : BOOLEAN] /\ e.cmd = Head(down) /\ e.ok = ok
    BY <2>3
  <2>5. key \in Keys /\ Code(ok) \in {"OO", "PP"}
    BY <2>3, KeysAssumption, CodeType
  <2>6. up' \in Arrivals
    BY <2>1, <2>2, <2>4, AppendArrived
  <2>7. /\ answers' \in [Keys -> [{"OO", "PP"} -> Nat]]
        /\ \A k \in Keys, a \in {"OO", "PP"} :
             answers'[k][a] = IF k = key /\ a = Code(ok) THEN answers[k][a] + 1 ELSE answers[k][a]
    BY <2>1, <2>2, <2>5
  <2>8. TypeOK'
    BY <1>1, <1>8, <2>3, <2>6, <2>7 DEF TypeOK, NodeAnswers, trackerVars, callerVars, Arrivals
  <2>9. CountInv'
    <3> SUFFICES ASSUME NEW k \in Keys, NEW a \in {"OO", "PP"}
                 PROVE  Cardinality(UsedIn(verdict', k, a)) + Cardinality(ArrivedIn(up', k, a)) <= answers'[k][a]
      BY DEF CountInv
    <3>1. verdict' = verdict
      BY <1>2 DEF trackerVars
    <3>2. Cardinality(ArrivedIn(up', k, a)) =
            IF k = key /\ a = Code(ok) THEN Cardinality(ArrivedIn(up, k, a)) + 1 ELSE Cardinality(ArrivedIn(up, k, a))
      BY <2>1, <2>2, <2>4, AppendArrived
    <3>3. Cardinality(ArrivedIn(up, k, a)) \in Nat /\ Cardinality(UsedIn(verdict, k, a)) \in Nat
      BY <2>2, ArrivedFinite, UsedFinite
    <3>4. Cardinality(UsedIn(verdict, k, a)) + Cardinality(ArrivedIn(up, k, a)) <= answers[k][a]
      BY <1>1 DEF CountInv
    <3>5. answers[k][a] \in Nat
      BY <2>2
    <3> QED BY <2>7, <3>1, <3>2, <3>3, <3>4, <3>5
  <2> QED BY <2>8, <2>9
<1> QED BY <1>5, <1>6, <1>7, <1>8

-----------------------------------------------------------------------------
(* The steps of the tracker.                                               *)

(* What the tracker holds.                                                 *)
LEMMA TrackerTypes ==
  ASSUME TypeOK
  PROVE  /\ pending \in [Keys -> Seq(Awaited)] /\ expired \in Seq(Awaited)
         /\ verdict \in Verdicts /\ up \in Arrivals
         /\ \A k \in Keys : \A i \in DOMAIN pending[k] : pending[k][i] \in Awaited
         /\ \A j \in DOMAIN expired : expired[j] \in Awaited
         /\ Awaited \subseteq Commands
         /\ KeyOf \in [Commands -> Keys]
  BY AwaitedAssumption, KeysAssumption DEF TypeOK, Verdicts, Arrivals

(* A command that is registered comes last under its key.                  *)
LEMMA Registers ==
  ASSUME TypeOK, TrackerInv, NEW c \in Awaited,
         \A k \in Keys : \A i \in DOMAIN pending[k] : pending[k][i] # c,
         pending' = [pending EXCEPT ![KeyOf[c]] = Append(@, c)]
  PROVE  /\ pending' \in [Keys -> Seq(Awaited)]
         /\ \A k \in Keys : Once(pending'[k])
         /\ \A k \in Keys : \A i \in DOMAIN pending'[k] :
              (i \in DOMAIN pending[k] /\ pending'[k][i] = pending[k][i])
              \/ (k = KeyOf[c] /\ pending'[k][i] = c)
<1> DEFINE s == pending[KeyOf[c]]
<1>1. KeyOf[c] \in Keys /\ s \in Seq(Awaited) /\ Once(s) /\ \A i \in DOMAIN s : s[i] # c
  BY TrackerTypes DEF TrackerInv, PendingInv, CallerInv, SweepInv
<1>2. /\ \A k \in Keys : k # KeyOf[c] => pending'[k] = pending[k]
      /\ pending'[KeyOf[c]] = Append(s, c)
      /\ DOMAIN pending' = Keys
  BY <1>1, TrackerTypes
<1> HIDE DEF s
<1>3. /\ Append(s, c) \in Seq(Awaited)
      /\ \A i \in DOMAIN Append(s, c) :
              (i \in DOMAIN s /\ Append(s, c)[i] = s[i]) \/ (i = Len(s) + 1 /\ Append(s, c)[i] = c)
  BY <1>1, AppendFacts
<1>4. Once(Append(s, c))
  BY <1>1, OnceAppend
<1>5. pending' \in [Keys -> Seq(Awaited)]
  BY <1>1, <1>3, TrackerTypes
<1>6. \A k \in Keys : Once(pending'[k])
  BY <1>2, <1>4 DEF TrackerInv, PendingInv, CallerInv, SweepInv
<1>7. \A k \in Keys : \A i \in DOMAIN pending'[k] :
              (i \in DOMAIN pending[k] /\ pending'[k][i] = pending[k][i])
              \/ (k = KeyOf[c] /\ pending'[k][i] = c)
  BY <1>2, <1>3 DEF s
<1> QED BY <1>5, <1>6, <1>7

LEMMA ExpectKeeps ==
  ASSUME PathInv, NEW c \in Commands, Expect(c)
  PROVE  PathInv'
<1>1. TypeOK /\ TrackerInv /\ OneVerdict /\ CountInv
  BY DEF PathInv
<1>2. /\ pc[c] = "queued" /\ pc' = [pc EXCEPT ![c] = "returned"]
      /\ pending' = [pending EXCEPT ![KeyOf[c]] = Append(@, c)]
      /\ UNCHANGED <<txq, linkUp, ota, sweep, expired, tries, verdict, busVars>>
  BY DEF Expect
<1>3. /\ c \in Awaited /\ verdict[c] = <<>> /\ KeyOf[c] \in Keys
      /\ pc' \in [Commands -> CallerPlaces] /\ pc'[c] = "returned"
      /\ \A d \in Commands : d # c => pc'[d] = pc[d]
  BY <1>1, <1>2, TrackerTypes DEF TrackerInv, PendingInv, CallerInv, SweepInv, TypeOK, CallerPlaces
<1>4. \A k \in Keys : \A i \in DOMAIN pending[k] : pending[k][i] # c
  BY <1>1, <1>2 DEF TrackerInv, PendingInv, CallerInv, SweepInv, Open
<1>5. \A j \in DOMAIN expired : expired[j] # c
  BY <1>1, <1>2 DEF TrackerInv, PendingInv, CallerInv, SweepInv, Open
<1>6. /\ pending' \in [Keys -> Seq(Awaited)]
      /\ \A k \in Keys : Once(pending'[k])
      /\ \A k \in Keys : \A i \in DOMAIN pending'[k] :
           (i \in DOMAIN pending[k] /\ pending'[k][i] = pending[k][i])
           \/ (k = KeyOf[c] /\ pending'[k][i] = c)
  BY <1>1, <1>2, <1>3, <1>4, Registers
<1>7. TypeOK'
  BY <1>1, <1>2, <1>3, <1>6 DEF TypeOK, busVars
<1>8. \A d \in Commands : (Open(d) \/ d = c) => pc'[d] = "returned" /\ verdict'[d] = <<>>
  BY <1>2, <1>3 DEF Open
<1>9. TrackerInv'
  <2>1. PendingInv'
    <3> SUFFICES ASSUME NEW k \in Keys, NEW i \in DOMAIN pending'[k]
                 PROVE  /\ KeyOf[pending'[k][i]] = k
                        /\ pc'[pending'[k][i]] = "returned" /\ verdict'[pending'[k][i]] = <<>>
                        /\ \A j \in DOMAIN expired' : expired'[j] # pending'[k][i]
      BY DEF PendingInv, Open
    <3>1. CASE i \in DOMAIN pending[k] /\ pending'[k][i] = pending[k][i]
      <4>1. /\ pending[k][i] \in Commands /\ Open(pending[k][i]) /\ KeyOf[pending[k][i]] = k
            /\ \A j \in DOMAIN expired : expired[j] # pending[k][i]
        BY <1>1, <3>1, TrackerTypes DEF TrackerInv, PendingInv
      <4> QED BY <1>2, <1>8, <3>1, <4>1
    <3>2. CASE k = KeyOf[c] /\ pending'[k][i] = c
      BY <1>2, <1>5, <1>8, <3>2
    <3> QED BY <1>6, <3>1, <3>2
  <2>2. SweepInv'
    <3>1. UNCHANGED <<expired, sweep, tries>>
      BY <1>2
    <3>2. \A j \in DOMAIN expired : Open(expired[j])'
      <4>1. \A j \in DOMAIN expired : expired[j] \in Commands /\ Open(expired[j])
        BY <1>1, TrackerTypes DEF TrackerInv, SweepInv
      <4> QED BY <1>8, <3>1, <4>1 DEF Open
    <3> QED BY <1>1, <3>1, <3>2 DEF TrackerInv, SweepInv, Once
  <2>3. CallerInv'
    BY <1>1, <1>2, <1>3 DEF TrackerInv, CallerInv
  <2> QED BY <1>6, <2>1, <2>2, <2>3 DEF TrackerInv
<1>10. OneVerdict' /\ CountInv'
  BY <1>1, <1>2, CountStays DEF OneVerdict, busVars
<1> QED BY <1>7, <1>9, <1>10 DEF PathInv

(* The sweep goes on to its next command.                                  *)
LEMMA SweepGoesOn ==
  ASSUME TypeOK, TrackerInv, sweep # "idle", NextExpired
  PROVE  /\ Head(expired) \in Awaited /\ Open(Head(expired))
         /\ 1 \in DOMAIN expired /\ Head(expired) = expired[1]
         /\ expired' \in Seq(Awaited) /\ Once(expired')
         /\ \A j \in DOMAIN expired' : /\ expired'[j] # Head(expired)
                                       /\ \E m \in DOMAIN expired : expired'[j] = expired[m]
         /\ sweep' \in {"idle", "deciding"}
         /\ sweep' = "idle" <=> expired' = <<>>
<1>1. expired \in Seq(Awaited) /\ expired # <<>> /\ Once(expired)
  BY TrackerTypes DEF TrackerInv, SweepInv
<1>2. expired' = Tail(expired) /\ sweep' = IF Len(expired) = 1 THEN "idle" ELSE "deciding"
  BY DEF NextExpired
<1>3. /\ Head(expired) \in Awaited /\ Head(expired) = expired[1] /\ 1 \in DOMAIN expired
      /\ expired' \in Seq(Awaited) /\ Len(expired') = Len(expired) - 1 /\ Len(expired) \in Nat
  BY <1>1, <1>2, TailFacts
<1>4. Once(expired') /\ \A j \in DOMAIN expired' :
        expired'[j] # Head(expired) /\ \E m \in DOMAIN expired : expired'[j] = expired[m]
  BY <1>1, <1>2, OnceTail
<1>5. Len(expired) = 1 <=> expired' = <<>>
  BY <1>3
<1> QED BY <1>2, <1>3, <1>4, <1>5 DEF TrackerInv, SweepInv

(* A command that is nowhere registered any more may get its report.       *)
LEMMA GiveUpKeeps ==
  ASSUME PathInv, sweep # "idle", NextExpired, Conclude(Head(expired), "TIMEOUT"),
         UNCHANGED <<callerVars, linkUp, ota, pending, tries, busVars>>
  PROVE  PathInv'
<1>1. TypeOK /\ TrackerInv /\ OneVerdict /\ CountInv
  BY DEF PathInv
<1> DEFINE c == Head(expired)
<1>2. /\ c \in Commands /\ c \in Awaited /\ Open(c) /\ 1 \in DOMAIN expired /\ c = expired[1]
      /\ expired' \in Seq(Awaited) /\ Once(expired')
      /\ \A j \in DOMAIN expired' : expired'[j] # c /\ \E m \in DOMAIN expired : expired'[j] = expired[m]
      /\ sweep' \in {"idle", "deciding"}
      /\ sweep' = "idle" <=> expired' = <<>>
  BY <1>1, SweepGoesOn, TrackerTypes
<1>3. Conclude(c, "TIMEOUT")
  OBVIOUS
<1> HIDE DEF c
<1>4. /\ verdict' \in Verdicts /\ Len(verdict'[c]) = 1
      /\ \A d \in Commands : d # c => verdict'[d] = verdict[d]
      /\ \A k \in Keys, a \in {"OO", "PP"} :
           Cardinality(UsedIn(verdict', k, a)) = Cardinality(UsedIn(verdict, k, a))
  <2>1. verdict \in Verdicts /\ verdict[c] = <<>> /\ "TIMEOUT" \in Codes
    BY <1>1, <1>2, TrackerTypes DEF Open, Codes
  <2>2. /\ verdict' \in Verdicts /\ Len(verdict'[c]) = 1
        /\ \A d \in Commands : d # c => verdict'[d] = verdict[d]
    BY <1>2, <1>3, <2>1, Concluded
  <2>3. ASSUME NEW k \in Keys, NEW a \in {"OO", "PP"}
        PROVE  Cardinality(UsedIn(verdict', k, a)) = Cardinality(UsedIn(verdict, k, a))
    <3>1. "TIMEOUT" # a
      OBVIOUS
    <3> QED BY <1>2, <1>3, <2>1, <3>1, ConcludeUses
  <2> QED BY <2>2, <2>3
<1>5. UNCHANGED <<pc, txq, linkUp, ota, pending, tries, down, up, answers>>
  BY DEF callerVars, busVars
<1>6. \A d \in Commands : Open(d) /\ d # c => Open(d)'
  BY <1>4, <1>5 DEF Open
<1>7. TypeOK'
  BY <1>1, <1>2, <1>4, <1>5 DEF TypeOK, Verdicts
<1>8. PendingInv'
  <2> SUFFICES ASSUME NEW k \in Keys, NEW i \in DOMAIN pending[k]
               PROVE  /\ KeyOf[pending[k][i]] = k
                      /\ Open(pending[k][i])'
                      /\ \A j \in DOMAIN expired' : expired'[j] # pending[k][i]
    BY <1>5 DEF PendingInv, Open
  <2>1. /\ KeyOf[pending[k][i]] = k /\ Open(pending[k][i])
        /\ \A j \in DOMAIN expired : expired[j] # pending[k][i]
        /\ pending[k][i] \in Commands
    BY <1>1, TrackerTypes DEF TrackerInv, PendingInv
  <2>2. pending[k][i] # c
    BY <1>2, <2>1
  <2> QED BY <1>2, <1>6, <2>1, <2>2
<1>9. SweepInv'
  <2>1. \A j \in DOMAIN expired' : pc'[expired'[j]] = "returned" /\ verdict'[expired'[j]] = <<>>
    <3>1. \A m \in DOMAIN expired : Open(expired[m]) /\ expired[m] \in Commands
      BY <1>1, TrackerTypes DEF TrackerInv, SweepInv
    <3> QED BY <1>2, <1>6, <3>1 DEF Open
  <2> QED BY <1>2, <2>1 DEF SweepInv, Open
<1>10. CallerInv' /\ \A k \in Keys : Once(pending'[k])
  <2>1. pc[c] = "returned"
    BY <1>2 DEF Open
  <2> QED BY <1>1, <1>4, <1>5, <2>1 DEF TrackerInv, CallerInv
<1>11. OneVerdict'
  <2> SUFFICES ASSUME NEW d \in Commands
               PROVE  Len(verdict'[d]) <= 1
    BY DEF OneVerdict
  <2>1. CASE d = c
    <3>1. Len(verdict'[d]) = 1
      BY <1>4, <2>1
    <3> QED BY <3>1
  <2>2. CASE d # c
    BY <1>1, <1>4, <2>2 DEF OneVerdict
  <2> QED BY <2>1, <2>2
<1>12. CountInv'
  BY <1>1, <1>4, <1>5 DEF CountInv
<1> QED BY <1>7, <1>8, <1>9, <1>10, <1>11, <1>12 DEF PathInv, TrackerInv

LEMMA DecideKeeps ==
  ASSUME PathInv, Decide
  PROVE  PathInv'
<1>1. TypeOK /\ TrackerInv /\ OneVerdict /\ CountInv
  BY DEF PathInv
<1>2. CASE ResendAllowed(Head(expired))
  <2>1. /\ sweep = "deciding" /\ sweep' = "resending" /\ tries[Head(expired)] < MaxResends
        /\ UNCHANGED <<pc, txq, linkUp, ota, pending, expired, tries, verdict, down, up, answers>>
    BY <1>2 DEF Decide, ResendAllowed, callerVars, busVars
  <2>2. TypeOK'
    BY <1>1, <2>1 DEF TypeOK
  <2>3. TrackerInv'
    <3>1. PendingInv'
      BY <1>1, <2>1 DEF TrackerInv, PendingInv, Open
    <3>2. SweepInv'
      BY <1>1, <2>1 DEF TrackerInv, SweepInv, Open, Once
    <3> QED BY <1>1, <2>1, <3>1, <3>2 DEF TrackerInv, CallerInv, Once
  <2> QED BY <1>1, <2>1, <2>2, <2>3, CountStays DEF PathInv, OneVerdict
<1>3. CASE ~ ResendAllowed(Head(expired))
  BY <1>3, GiveUpKeeps DEF Decide
<1> QED BY <1>2, <1>3

LEMMA ResendKeeps ==
  ASSUME PathInv, Resend
  PROVE  PathInv'
<1>1. TypeOK /\ TrackerInv /\ OneVerdict /\ CountInv
  BY DEF PathInv
<1>2. CASE linkUp
  <2>1. /\ sweep = "resending" /\ sweep' = "registering" /\ down' = Append(down, Head(expired))
        /\ UNCHANGED <<pc, txq, linkUp, ota, pending, expired, tries, verdict, up, answers>>
    BY <1>2 DEF Resend, PutOnBus, callerVars
  <2>2. Head(expired) \in Commands
    <3>1. expired # <<>> /\ expired \in Seq(Awaited) /\ Awaited \subseteq Commands
      BY <1>1, <2>1, TrackerTypes DEF TrackerInv, SweepInv
    <3> QED BY <3>1, TailFacts
  <2>3. TypeOK'
    BY <1>1, <2>1, <2>2, QueueTypes DEF TypeOK
  <2>4. TrackerInv'
    <3>1. PendingInv'
      BY <1>1, <2>1 DEF TrackerInv, PendingInv, Open
    <3>2. SweepInv'
      BY <1>1, <2>1 DEF TrackerInv, SweepInv, Open, Once
    <3> QED BY <1>1, <2>1, <3>1, <3>2 DEF TrackerInv, CallerInv, Once
  <2> QED BY <1>1, <2>1, <2>3, <2>4, CountStays DEF PathInv, OneVerdict
<1>3. CASE ~ linkUp
  BY <1>3, GiveUpKeeps DEF Resend, busVars
<1> QED BY <1>2, <1>3

LEMMA RegisterKeeps ==
  ASSUME PathInv, Register
  PROVE  PathInv'
<1>1. TypeOK /\ TrackerInv /\ OneVerdict /\ CountInv
  BY DEF PathInv
<1> DEFINE c == Head(expired)
<1>2. /\ sweep = "registering" /\ NextExpired
      /\ tries' = [tries EXCEPT ![c] = @ + 1]
      /\ pending' = [pending EXCEPT ![KeyOf[c]] = Append(@, c)]
      /\ UNCHANGED <<pc, txq, linkUp, ota, verdict, down, up, answers>>
  BY DEF Register, callerVars, busVars
<1>3. /\ c \in Commands /\ c \in Awaited /\ Open(c) /\ 1 \in DOMAIN expired /\ c = expired[1]
      /\ expired' \in Seq(Awaited) /\ Once(expired')
      /\ \A j \in DOMAIN expired' : expired'[j] # c /\ \E m \in DOMAIN expired : expired'[j] = expired[m]
      /\ sweep' \in {"idle", "deciding"}
      /\ sweep' = "idle" <=> expired' = <<>>
  BY <1>1, <1>2, SweepGoesOn, TrackerTypes
<1>4. tries[c] < MaxResends
  BY <1>1, <1>2 DEF TrackerInv, SweepInv
<1> HIDE DEF c
<1>5. \A k \in Keys : \A i \in DOMAIN pending[k] : pending[k][i] # c
  BY <1>1, <1>3 DEF TrackerInv, PendingInv
<1>6. /\ pending' \in [Keys -> Seq(Awaited)]
      /\ \A k \in Keys : Once(pending'[k])
      /\ \A k \in Keys : \A i \in DOMAIN pending'[k] :
           (i \in DOMAIN pending[k] /\ pending'[k][i] = pending[k][i])
           \/ (k = KeyOf[c] /\ pending'[k][i] = c)
  BY <1>1, <1>2, <1>3, <1>5, Registers
<1>7. TypeOK'
  <2>1. tries' \in [Commands -> 0 .. MaxResends]
    BY <1>1, <1>2, <1>3, <1>4, ResendsAssumption DEF TypeOK
  <2> QED BY <1>1, <1>2, <1>3, <1>6, <2>1 DEF TypeOK
<1>8. \A d : Open(d) => pc'[d] = "returned" /\ verdict'[d] = <<>>
  BY <1>2 DEF Open
<1>9. PendingInv'
  <2> SUFFICES ASSUME NEW k \in Keys, NEW i \in DOMAIN pending'[k]
               PROVE  /\ KeyOf[pending'[k][i]] = k
                      /\ pc'[pending'[k][i]] = "returned" /\ verdict'[pending'[k][i]] = <<>>
                      /\ \A j \in DOMAIN expired' : expired'[j] # pending'[k][i]
    BY DEF PendingInv, Open
  <2>1. CASE i \in DOMAIN pending[k] /\ pending'[k][i] = pending[k][i]
    <3>1. /\ Open(pending[k][i]) /\ KeyOf[pending[k][i]] = k
          /\ \A j \in DOMAIN expired : expired[j] # pending[k][i]
      BY <1>1, <2>1 DEF TrackerInv, PendingInv
    <3> QED BY <1>3, <1>8, <2>1, <3>1
  <2>2. CASE k = KeyOf[c] /\ pending'[k][i] = c
    BY <1>3, <1>8, <2>2
  <2> QED BY <1>6, <2>1, <2>2
<1>10. SweepInv'
  <2>1. \A j \in DOMAIN expired' : pc'[expired'[j]] = "returned" /\ verdict'[expired'[j]] = <<>>
    BY <1>1, <1>3, <1>8 DEF TrackerInv, SweepInv
  <2> QED BY <1>3, <2>1 DEF SweepInv, Open
<1>11. CallerInv' /\ OneVerdict' /\ CountInv'
  BY <1>1, <1>2, CountStays DEF TrackerInv, CallerInv, OneVerdict
<1> QED BY <1>6, <1>7, <1>9, <1>10, <1>11 DEF PathInv, TrackerInv

(* The oldest command with the key takes the answer.                       *)
LEMMA ReadAnswerKeeps ==
  ASSUME PathInv, ReadAnswer
  PROVE  PathInv'
<1>1. TypeOK /\ TrackerInv /\ OneVerdict /\ CountInv
  BY DEF PathInv
<1> DEFINE e == Head(up)
           k0 == KeyOf[e.cmd]
           code == Code(e.ok)
<1>2. /\ up # <<>> /\ up' = Tail(up) /\ Resolve(k0, e.ok)
      /\ UNCHANGED <<pc, txq, linkUp, ota, sweep, expired, tries, down, answers>>
  BY DEF ReadAnswer, callerVars
<1>3. /\ up' \in Arrivals
      /\ e \in [cmd : Commands, ok : BOOLEAN]
      /\ \A k \in Keys, a \in {"OO", "PP"} :
           Cardinality(ArrivedIn(up', k, a)) =
             IF k = k0 /\ a = code THEN Cardinality(ArrivedIn(up, k, a)) - 1
             ELSE Cardinality(ArrivedIn(up, k, a))
  BY <1>1, <1>2, TrackerTypes, TailArrived
<1>4. k0 \in Keys /\ code \in {"OO", "PP"} /\ code \in Codes
  BY <1>3, KeysAssumption, CodeType
<1>5. \A k \in Keys, a \in {"OO", "PP"} :
        /\ Cardinality(ArrivedIn(up, k, a)) \in Nat /\ Cardinality(UsedIn(verdict, k, a)) \in Nat
        /\ answers[k][a] \in Nat
        /\ Cardinality(UsedIn(verdict, k, a)) + Cardinality(ArrivedIn(up, k, a)) <= answers[k][a]
  BY <1>1, TrackerTypes, ArrivedFinite, UsedFinite DEF TypeOK, CountInv
<1>6. CASE pending[k0] = <<>>
  <2>1. UNCHANGED <<pending, verdict>>
    BY <1>2, <1>6 DEF Resolve
  <2>2. TypeOK'
    BY <1>1, <1>2, <1>3, <2>1 DEF TypeOK, Arrivals
  <2>3. TrackerInv' /\ OneVerdict'
    BY <1>1, <1>2, <2>1, TrackerStays DEF trackerVars
  <2>4. CountInv'
    <3> SUFFICES ASSUME NEW k \in Keys, NEW a \in {"OO", "PP"}
                 PROVE  Cardinality(UsedIn(verdict', k, a)) + Cardinality(ArrivedIn(up', k, a)) <= answers'[k][a]
      BY DEF CountInv
    <3>1. Cardinality(ArrivedIn(up', k, a)) \in
            {Cardinality(ArrivedIn(up, k, a)), Cardinality(ArrivedIn(up, k, a)) - 1}
      BY <1>3
    <3> QED BY <1>2, <1>5, <2>1, <3>1
  <2> QED BY <2>2, <2>3, <2>4 DEF PathInv
<1>7. CASE pending[k0] # <<>>
  <2> DEFINE c == Head(pending[k0])
  <2>1. /\ pending' = [pending EXCEPT ![k0] = Tail(@)]
        /\ Conclude(c, code)
    BY <1>2, <1>7 DEF Resolve
  <2>2. /\ pending \in [Keys -> Seq(Awaited)] /\ pending[k0] \in Seq(Awaited) /\ Once(pending[k0])
        /\ Awaited \subseteq Commands
    BY <1>1, <1>4, TrackerTypes DEF TrackerInv
  <2>3. /\ c \in Commands /\ c = pending[k0][1] /\ 1 \in DOMAIN pending[k0]
        /\ Tail(pending[k0]) \in Seq(Awaited) /\ Once(Tail(pending[k0]))
        /\ \A i \in DOMAIN Tail(pending[k0]) :
             Tail(pending[k0])[i] # c /\ \E j \in DOMAIN pending[k0] : Tail(pending[k0])[i] = pending[k0][j]
    <3>1. /\ c \in Awaited /\ c = pending[k0][1] /\ 1 \in DOMAIN pending[k0]
          /\ Tail(pending[k0]) \in Seq(Awaited)
      BY <1>7, <2>2, TailFacts
    <3>2. /\ Once(Tail(pending[k0]))
          /\ \A i \in DOMAIN Tail(pending[k0]) :
               Tail(pending[k0])[i] # c /\ \E j \in DOMAIN pending[k0] : Tail(pending[k0])[i] = pending[k0][j]
      BY <1>7, <2>2, OnceTail
    <3> QED BY <2>2, <3>1, <3>2
  <2>4. Open(c) /\ KeyOf[c] = k0 /\ \A j \in DOMAIN expired : expired[j] # c
    BY <1>1, <1>4, <2>3 DEF TrackerInv, PendingInv
  <2> HIDE DEF c
  <2>5. verdict \in Verdicts /\ verdict[c] = <<>>
    BY <1>1, <2>4, TrackerTypes DEF Open
  <2>6. /\ verdict' \in Verdicts /\ Len(verdict'[c]) = 1
        /\ \A d \in Commands : d # c => verdict'[d] = verdict[d]
        /\ \A k \in Keys, a \in {"OO", "PP"} :
             Cardinality(UsedIn(verdict', k, a)) =
               IF k = k0 /\ a = code THEN Cardinality(UsedIn(verdict, k, a)) + 1
               ELSE Cardinality(UsedIn(verdict, k, a))
    <3> HIDE DEF code, k0
    <3>1. /\ verdict' \in Verdicts /\ Len(verdict'[c]) = 1
          /\ \A d \in Commands : d # c => verdict'[d] = verdict[d]
      BY <1>4, <2>1, <2>3, <2>5, Concluded
    <3>2. \A k \in Keys, a \in {"OO", "PP"} :
            Cardinality(UsedIn(verdict', k, a)) =
              IF k = k0 /\ a = code THEN Cardinality(UsedIn(verdict, k, a)) + 1
              ELSE Cardinality(UsedIn(verdict, k, a))
      BY <1>4, <2>1, <2>3, <2>4, <2>5, ConcludeUses
    <3> QED BY <3>1, <3>2
  <2>7. /\ pending' \in [Keys -> Seq(Awaited)] /\ pending'[k0] = Tail(pending[k0])
        /\ \A k \in Keys : k # k0 => pending'[k] = pending[k]
    BY <1>4, <2>1, <2>2, <2>3
  <2>8. \A k \in Keys : \A i \in DOMAIN pending'[k] :
          pending'[k][i] # c /\ \E j \in DOMAIN pending[k] : pending'[k][i] = pending[k][j]
    <3>1. \A k \in Keys : k # k0 => \A i \in DOMAIN pending[k] : pending[k][i] # c
      BY <1>1, <2>4 DEF TrackerInv, PendingInv
    <3> SUFFICES ASSUME NEW k \in Keys, NEW i \in DOMAIN pending'[k]
                 PROVE  pending'[k][i] # c /\ \E j \in DOMAIN pending[k] : pending'[k][i] = pending[k][j]
      OBVIOUS
    <3>2. CASE k = k0
      BY <2>3, <2>7, <3>2
    <3>3. CASE k # k0
      BY <2>7, <3>1, <3>3
    <3> QED BY <3>2, <3>3
  <2>9. \A d \in Commands : Open(d) /\ d # c => pc'[d] = "returned" /\ verdict'[d] = <<>>
    BY <1>2, <2>6 DEF Open
  <2>10. TypeOK'
    BY <1>1, <1>2, <1>3, <2>6, <2>7 DEF TypeOK, Verdicts, Arrivals
  <2>11. PendingInv'
    <3> SUFFICES ASSUME NEW k \in Keys, NEW i \in DOMAIN pending'[k]
                 PROVE  /\ KeyOf[pending'[k][i]] = k
                        /\ pc'[pending'[k][i]] = "returned" /\ verdict'[pending'[k][i]] = <<>>
                        /\ \A j \in DOMAIN expired' : expired'[j] # pending'[k][i]
      BY DEF PendingInv, Open
    <3>1. PICK j \in DOMAIN pending[k] : pending'[k][i] = pending[k][j] /\ pending[k][j] # c
      BY <2>8
    <3>2. /\ KeyOf[pending[k][j]] = k /\ Open(pending[k][j]) /\ pending[k][j] \in Commands
          /\ \A m \in DOMAIN expired : expired[m] # pending[k][j]
      BY <1>1, TrackerTypes DEF TrackerInv, PendingInv
    <3> QED BY <1>2, <2>9, <3>1, <3>2
  <2>12. SweepInv'
    <3>1. \A j \in DOMAIN expired : expired[j] \in Commands /\ Open(expired[j]) /\ expired[j] # c
      BY <1>1, <2>4, TrackerTypes DEF TrackerInv, SweepInv
    <3>2. \A j \in DOMAIN expired' : pc'[expired'[j]] = "returned" /\ verdict'[expired'[j]] = <<>>
      BY <1>2, <2>9, <3>1
    <3> QED BY <1>1, <1>2, <3>2 DEF TrackerInv, SweepInv, Open
  <2>13. CallerInv'
    <3>1. pc[c] = "returned"
      BY <2>4 DEF Open
    <3> QED BY <1>1, <1>2, <2>6, <3>1 DEF TrackerInv, CallerInv
  <2>14. \A k \in Keys : Once(pending'[k])
    BY <1>1, <2>3, <2>7 DEF TrackerInv
  <2>15. OneVerdict'
    <3> SUFFICES ASSUME NEW d \in Commands
                 PROVE  Len(verdict'[d]) <= 1
      BY DEF OneVerdict
    <3>1. CASE d = c
      <4>1. Len(verdict'[d]) = 1
        BY <2>6, <3>1
      <4> QED BY <4>1
    <3>2. CASE d # c
      BY <1>1, <2>6, <3>2 DEF OneVerdict
    <3> QED BY <3>1, <3>2
  <2>16. CountInv'
    <3> SUFFICES ASSUME NEW k \in Keys, NEW a \in {"OO", "PP"}
                 PROVE  Cardinality(UsedIn(verdict', k, a)) + Cardinality(ArrivedIn(up', k, a)) <= answers'[k][a]
      BY DEF CountInv
    <3>1. CASE k = k0 /\ a = code
      BY <1>2, <1>3, <1>5, <2>6, <3>1
    <3>2. CASE ~(k = k0 /\ a = code)
      BY <1>2, <1>3, <1>5, <2>6, <3>2
    <3> QED BY <3>1, <3>2
  <2> QED BY <2>10, <2>11, <2>12, <2>13, <2>14, <2>15, <2>16 DEF PathInv, TrackerInv
<1> QED BY <1>6, <1>7

(* The list of the sweep consists of what stands at the places ps of old.  *)
From(ps, old) ==
  /\ DOMAIN ps = DOMAIN expired'
  /\ \A i \in DOMAIN ps :
       /\ ps[i] \in old
       /\ ps[i][1] \in Keys /\ ps[i][2] \in DOMAIN pending[ps[i][1]]
       /\ ps[i] = <<ps[i][1], ps[i][2]>>
       /\ expired'[i] = pending[ps[i][1]][ps[i][2]]
  /\ Once(ps)

(* What is left of a key stood at the places at, which are not in old.     *)
Left(at, k, old) ==
  /\ \A n \in DOMAIN pending'[k] :
       /\ at[n] \in DOMAIN pending[k] /\ <<k, at[n]>> \notin old
       /\ pending'[k][n] = pending[k][at[n]]
  /\ \A m, n \in DOMAIN pending'[k] : at[m] = at[n] => m = n

(* What the sweep collects and what it leaves behind are places of pending *)
(* that no other command of pending or of the list comes from.             *)
LEMMA CollectMoves ==
  ASSUME TypeOK, NEW old, Collect(old)
  PROVE  /\ expired' \in Seq(Awaited) /\ expired' # <<>>
         /\ \E ps : From(ps, old)
         /\ pending' \in [Keys -> Seq(Awaited)]
         /\ \A k \in Keys : \E at : Left(at, k, old)
<1>1. /\ pending \in [Keys -> Seq(Awaited)]
      /\ \A k \in Keys : Len(pending[k]) \in Nat /\ DOMAIN pending[k] = 1 .. Len(pending[k])
                      /\ \A i \in DOMAIN pending[k] : pending[k][i] \in Awaited
  BY DEF TypeOK
<1>2. old # {} /\ old \subseteq Places
  BY DEF Collect
<1>3. \A p \in old : p = <<p[1], p[2]>> /\ p[1] \in Keys /\ p[2] \in DOMAIN pending[p[1]]
  BY <1>1, <1>2 DEF Places
<1>4. IsFiniteSet(old) /\ Cardinality(old) \in Nat /\ Cardinality(old) # 0
  <2>1. Cardinality(Commands) \in Nat
    BY FiniteAssumption, FS_CardinalityType
  <2>2. IsFiniteSet(1 .. Cardinality(Commands))
    BY <2>1, FS_Interval
  <2>3. IsFiniteSet(Keys \X (1 .. Cardinality(Commands)))
    BY <2>2, FiniteAssumption, FS_Product
  <2>4. IsFiniteSet(old)
    BY <1>2, <2>3, FS_Subset DEF Places
  <2> QED BY <1>2, <2>4, FS_CardinalityType, FS_EmptySet
<1>5. PICK ps \in SetToSeqs(old) : expired' = [i \in DOMAIN ps |-> pending[ps[i][1]][ps[i][2]]]
  BY DEF Collect
<1>6. /\ DOMAIN ps = 1 .. Cardinality(old)
      /\ \A i \in DOMAIN ps : ps[i] \in old
      /\ \A i, j \in DOMAIN ps : ps[i] = ps[j] => i = j
  BY DEF SetToSeqs
<1>7. \A i \in DOMAIN ps : expired'[i] = pending[ps[i][1]][ps[i][2]] /\ expired'[i] \in Awaited
  BY <1>1, <1>3, <1>5, <1>6
<1>8. expired' \in Seq(Awaited) /\ expired' # <<>>
  <2>1. expired' \in [1 .. Cardinality(old) -> Awaited]
    BY <1>5, <1>6, <1>7
  <2>2. expired' \in Seq(Awaited) /\ Len(expired') = Cardinality(old)
    BY <1>4, <2>1
  <2> QED BY <1>4, <2>2
<1> DEFINE Keep(k) == {i \in DOMAIN pending[k] : <<k, i>> \notin old}
           Rank(k, i) == Cardinality({j \in Keep(k) : j <= i})
           At(k, n) == CHOOSE i \in Keep(k) : Rank(k, i) = n
           Rest(k) == [n \in 1 .. Cardinality(Keep(k)) |-> pending[k][At(k, n)]]
<1>9. pending' = [k \in Keys |-> Rest(k)]
  BY DEF Collect
<1>10. ASSUME NEW k \in Keys
       PROVE  /\ Cardinality(Keep(k)) \in Nat
              /\ \A n \in 1 .. Cardinality(Keep(k)) : At(k, n) \in Keep(k) /\ Rank(k, At(k, n)) = n
  <2>1. Len(pending[k]) \in Nat /\ Keep(k) \in SUBSET (1 .. Len(pending[k]))
    BY <1>1, <1>10
  <2>2. IsFiniteSet(Keep(k))
    <3>1. IsFiniteSet(1 .. Len(pending[k]))
      BY <2>1, FS_Interval
    <3> QED BY <2>1, <3>1, FS_Subset
  <2>3. Cardinality(Keep(k)) \in Nat
    BY <2>2, FS_CardinalityType
  <2> HIDE DEF Keep
  <2>4. \A n \in 1 .. Cardinality(Keep(k)) : \E i \in Keep(k) : Rank(k, i) = n
    BY <2>1, RankExists
  <2> HIDE DEF Rank
  <2> QED BY <2>3, <2>4
<1> HIDE DEF At, Rank
<1>11. ASSUME NEW k \in Keys
       PROVE  Rest(k) \in Seq(Awaited) /\ DOMAIN Rest(k) = 1 .. Cardinality(Keep(k))
  <2>1. \A n \in 1 .. Cardinality(Keep(k)) : pending[k][At(k, n)] \in Awaited
    BY <1>1, <1>10, <1>11
  <2>2. Cardinality(Keep(k)) \in Nat
    BY <1>10, <1>11
  <2> HIDE DEF Keep
  <2> QED BY <2>1, <2>2
<1>12. pending' \in [Keys -> Seq(Awaited)]
  <2> HIDE DEF Rest
  <2> QED BY <1>9, <1>11
<1>13. ASSUME NEW k \in Keys
       PROVE  \E at : Left(at, k, old)
  <2> DEFINE D == 1 .. Cardinality(Keep(k))
             at == [n \in D |-> At(k, n)]
  <2>1. DOMAIN pending'[k] = D /\ \A n \in D : pending'[k][n] = pending[k][At(k, n)]
    BY <1>9, <1>11, <1>13
  <2>2. \A n \in D : At(k, n) \in Keep(k) /\ Rank(k, At(k, n)) = n
    BY <1>10, <1>13
  <2>3. \A n \in D : at[n] = At(k, n)
    OBVIOUS
  <2> HIDE DEF at, D
  <2>4. \A n \in D : /\ at[n] \in DOMAIN pending[k] /\ <<k, at[n]>> \notin old
                     /\ pending'[k][n] = pending[k][at[n]]
    BY <2>1, <2>2, <2>3
  <2>5. \A m, n \in D : at[m] = at[n] => m = n
    BY <2>2, <2>3
  <2>6. Left(at, k, old)
    BY <2>1, <2>4, <2>5 DEF Left
  <2> QED BY <2>6
<1>14. From(ps, old)
  <2>1. DOMAIN ps = DOMAIN expired'
    BY <1>5
  <2> QED BY <1>3, <1>6, <1>7, <2>1 DEF From, Once
<1> QED BY <1>8, <1>12, <1>13, <1>14

LEMMA CollectKeeps ==
  ASSUME PathInv, NEW old, Collect(old)
  PROVE  PathInv'
<1>1. TypeOK /\ TrackerInv /\ OneVerdict /\ CountInv
  BY DEF PathInv
<1>2. /\ sweep = "idle" /\ sweep' = "deciding"
      /\ UNCHANGED <<pc, txq, linkUp, ota, tries, verdict, down, up, answers>>
  BY DEF Collect, callerVars, busVars
<1>3. expired' \in Seq(Awaited) /\ expired' # <<>> /\ pending' \in [Keys -> Seq(Awaited)]
  BY <1>1, CollectMoves
<1>4. PICK ps : From(ps, old)
  BY <1>1, CollectMoves
(* Equal commands come from equal places.                                  *)
<1>5. \A k, l \in Keys : \A i \in DOMAIN pending[k], j \in DOMAIN pending[l] :
        pending[k][i] = pending[l][j] => k = l /\ i = j
  BY <1>1 DEF TrackerInv, PendingInv, Once
<1>6. \A k \in Keys : \A i \in DOMAIN pending[k] : Open(pending[k][i]) /\ KeyOf[pending[k][i]] = k
  BY <1>1 DEF TrackerInv, PendingInv
<1>7. \A k \in Keys : Once(pending'[k]) /\ \A n \in DOMAIN pending'[k] :
        \E i \in DOMAIN pending[k] : <<k, i>> \notin old /\ pending'[k][n] = pending[k][i]
  <2> SUFFICES ASSUME NEW k \in Keys
               PROVE  Once(pending'[k]) /\ \A n \in DOMAIN pending'[k] :
                        \E i \in DOMAIN pending[k] : <<k, i>> \notin old /\ pending'[k][n] = pending[k][i]
    OBVIOUS
  <2>1. PICK at : Left(at, k, old)
    BY <1>1, CollectMoves
  <2>2. Once(pending'[k])
    <3> SUFFICES ASSUME NEW m \in DOMAIN pending'[k], NEW n \in DOMAIN pending'[k],
                        pending'[k][m] = pending'[k][n]
                 PROVE  m = n
      BY DEF Once
    <3>1. /\ at[m] \in DOMAIN pending[k] /\ at[n] \in DOMAIN pending[k]
          /\ pending[k][at[m]] = pending[k][at[n]]
      BY <2>1 DEF Left
    <3>2. at[m] = at[n]
      BY <1>5, <3>1
    <3> QED BY <2>1, <3>2 DEF Left
  <2> QED BY <2>1, <2>2 DEF Left
<1>8. TypeOK'
  BY <1>1, <1>2, <1>3 DEF TypeOK
<1>9. PendingInv'
  <2> SUFFICES ASSUME NEW k \in Keys, NEW n \in DOMAIN pending'[k]
               PROVE  /\ KeyOf[pending'[k][n]] = k
                      /\ pc'[pending'[k][n]] = "returned" /\ verdict'[pending'[k][n]] = <<>>
                      /\ \A j \in DOMAIN expired' : expired'[j] # pending'[k][n]
    BY DEF PendingInv, Open
  <2>1. PICK i \in DOMAIN pending[k] : <<k, i>> \notin old /\ pending'[k][n] = pending[k][i]
    BY <1>7
  <2>2. ASSUME NEW j \in DOMAIN expired', expired'[j] = pending'[k][n]
        PROVE  FALSE
    <3>1. /\ ps[j] \in old /\ ps[j] = <<ps[j][1], ps[j][2]>>
          /\ ps[j][1] \in Keys /\ ps[j][2] \in DOMAIN pending[ps[j][1]]
          /\ pending[ps[j][1]][ps[j][2]] = pending[k][i]
      BY <1>4, <2>1, <2>2 DEF From
    <3>2. ps[j][1] = k /\ ps[j][2] = i
      BY <1>5, <3>1
    <3> QED BY <2>1, <3>1, <3>2
  <2> QED BY <1>2, <1>6, <2>1, <2>2 DEF Open
<1>10. SweepInv'
  <2>1. \A j \in DOMAIN expired' : pc'[expired'[j]] = "returned" /\ verdict'[expired'[j]] = <<>>
    BY <1>2, <1>4, <1>6 DEF Open, From
  <2>2. Once(expired')
    <3> SUFFICES ASSUME NEW i \in DOMAIN expired', NEW j \in DOMAIN expired', expired'[i] = expired'[j]
                 PROVE  i = j
      BY DEF Once
    <3>1. ps[i][1] = ps[j][1] /\ ps[i][2] = ps[j][2]
      BY <1>4, <1>5 DEF From
    <3>2. ps[i] = ps[j]
      BY <1>4, <3>1 DEF From
    <3> QED BY <1>4, <3>2 DEF From, Once
  <2> QED BY <1>2, <1>3, <2>1, <2>2 DEF SweepInv, Open
<1>11. CallerInv' /\ OneVerdict' /\ CountInv'
  BY <1>1, <1>2, CountStays DEF TrackerInv, CallerInv, OneVerdict
<1> QED BY <1>7, <1>8, <1>9, <1>10, <1>11 DEF PathInv, TrackerInv

-----------------------------------------------------------------------------
(* The theorems.                                                           *)

LEMMA PathInductive == PathInv /\ [Next]_vars => PathInv'
<1> SUFFICES ASSUME PathInv, [Next]_vars
             PROVE  PathInv'
  OBVIOUS
<1>1. ASSUME NEW c \in Commands, CallerStep(c)
      PROVE  PathInv'
  BY <1>1, CallerKeeps, ExpectKeeps DEF CallerStep
<1>2. CASE ReadAnswer
  BY <1>2, ReadAnswerKeeps
<1>3. ASSUME NEW old \in SUBSET Places, Collect(old)
      PROVE  PathInv'
  BY <1>3, CollectKeeps
<1>4. CASE SweepStep
  BY <1>4, DecideKeeps, ResendKeeps, RegisterKeeps DEF SweepStep
<1> QED BY <1>1, <1>2, <1>3, <1>4, BusKeeps DEF Next

LEMMA InitPath == Init => PathInv
<1> SUFFICES ASSUME Init PROVE PathInv
  OBVIOUS
<1>1. TypeOK
  <2>1. \A S : <<>> \in Seq(S)
    OBVIOUS
  <2>2. answers \in [Keys -> [{"OO", "PP"} -> Nat]]
    BY DEF Init
  <2>3. /\ pc \in [Commands -> CallerPlaces] /\ linkUp \in BOOLEAN /\ ota \in BOOLEAN
        /\ sweep = "idle" /\ tries \in [Commands -> 0 .. MaxResends]
    <3>1. 0 \in 0 .. MaxResends /\ "idle" \in CallerPlaces
      BY ResendsAssumption DEF CallerPlaces
    <3>2. /\ pc = [c \in Commands |-> "idle"] /\ tries = [c \in Commands |-> 0]
          /\ linkUp = TRUE /\ ota = FALSE /\ sweep = "idle"
      BY DEF Init
    <3> QED BY <3>1, <3>2
  <2>4. /\ txq = <<>> /\ expired = <<>> /\ down = <<>> /\ up = <<>>
        /\ pending = [k \in Keys |-> <<>>] /\ verdict = [c \in Commands |-> <<>>]
    BY DEF Init
  <2>5. pending \in [Keys -> Seq(Awaited)] /\ verdict \in [Commands -> Seq(Codes)]
    BY <2>1, <2>4
  <2>6. txq \in Seq(Commands) /\ expired \in Seq(Awaited) /\ down \in Seq(Commands)
        /\ up \in Seq([cmd : Commands, ok : BOOLEAN])
    BY <2>1, <2>4
  <2> QED BY <2>2, <2>3, <2>5, <2>6 DEF TypeOK
<1>2. TrackerInv /\ OneVerdict
  BY KeysAssumption DEF Init, TrackerInv, PendingInv, CallerInv, SweepInv, Once, Open, OneVerdict
<1>3. CountInv
  <2> SUFFICES ASSUME NEW k \in Keys, NEW a \in {"OO", "PP"}
               PROVE  Cardinality(UsedIn(verdict, k, a)) + Cardinality(ArrivedIn(up, k, a)) <= answers[k][a]
    BY DEF CountInv
  <2>1. UsedIn(verdict, k, a) = {} /\ ArrivedIn(up, k, a) = {}
    BY DEF Init, UsedIn, ArrivedIn
  <2>2. answers[k][a] = 0
    BY DEF Init
  <2> QED BY <2>1, <2>2, FS_EmptySet
<1> QED BY <1>1, <1>2, <1>3 DEF PathInv

LEMMA PathInvAlways == Spec => []PathInv
  BY InitPath, PathInductive, PTL DEF Spec

(* The tracker, the queue, the sweep and the bus hold only commands, for   *)
(* every number of commands, keys and repetitions, and no command is       *)
(* repeated more often than max_retries allows.                            *)
THEOREM PathTypes == Spec => []TypeOK
  BY PathInvAlways, PTL DEF PathInv

(* No command gets a second final report: an answer, an answer to one of   *)
(* its repetitions and the sweep cannot both conclude it, however the      *)
(* threads interleave.                                                     *)
THEOREM NoSecondVerdict == Spec => []OneVerdict
  BY PathInvAlways, PTL DEF PathInv

(* No ACK is taken for two commands and no NACK for an ACK: for each key   *)
(* and verdict there are never more reports than the node gave answers.    *)
THEOREM NoAnswerTwice == Spec => []AnswersUsedOnce
<1>1. PathInv => AnswersUsedOnce
  <2> SUFFICES ASSUME PathInv, NEW k \in Keys, NEW a \in {"OO", "PP"}
               PROVE  Cardinality(UsedIn(verdict, k, a)) <= answers[k][a]
    BY DEF AnswersUsedOnce, UsedIn
  <2>1. Cardinality(UsedIn(verdict, k, a)) \in Nat /\ Cardinality(ArrivedIn(up, k, a)) \in Nat
    BY TrackerTypes, ArrivedFinite, UsedFinite DEF PathInv
  <2>2. answers[k][a] \in Nat
    BY DEF PathInv, TypeOK
  <2> QED BY <2>1, <2>2 DEF PathInv, CountInv
<1> QED BY <1>1, PathInvAlways, PTL
===============================================================================
