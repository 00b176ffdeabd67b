-------------------------- MODULE AutoAssign_proofs ---------------------------
(***************************************************************************)
(* For any nodes, bridges, addresses and any number of surprises: a node   *)
(* that was given its number is not given another one, and the counter and *)
(* the callbacks of the wizard stay within their bounds.                   *)
(*                                                                         *)
(* The first claim rests on the marks of _assigned_macs: a node waits, or  *)
(* it is marked because its assignment is due, or it is marked because it  *)
(* has its number.  That waiting nodes are not marked is only inductive    *)
(* when no node waits twice: _process_queue marks the first of the queue.  *)
(*                                                                         *)
(* The bounds rest on a budget (BoundsInv): a run of _process_queue that   *)
(* is due, an assignment that is due and a target that was not touched yet *)
(* are together no more than the nodes; the counter and the assignments    *)
(* that are due are together no more than the addresses and the nodes.     *)
(***************************************************************************)
EXTENDS AutoAssign, TLAPS, FiniteSetTheorems

NumbersInv ==
  /\ jobs \in [Nodes -> Nat] /\ gave \in [Nodes -> Nat] /\ counter \in Nat \ {0}
  /\ targets \subseteq Nodes

(* The queue: nodes that are not marked, each of them once.                *)
QueueInv ==
  /\ pending \in Seq(Nodes)
  /\ \A i \in DOMAIN pending : pending[i] \notin assigned
  /\ \A i, j \in DOMAIN pending : pending[i] = pending[j] => i = j

(* A node with an assignment that is due, or with its number, is marked,   *)
(* and it does not have both.                                              *)
MarksInv ==
  \A m \in Nodes :
    /\ jobs[m] # 0 => m \in assigned /\ gave[m] = 0
    /\ gave[m] # 0 => m \in assigned

Inv == NumbersInv /\ QueueInv /\ MarksInv

(* What NumberedOnce says of one step.                                     *)
NumberKept == \A m \in Nodes : gave[m] # 0 => gave'[m] = gave[m]

LEMMA InitInv == Init => Inv
  BY DEF Init, Inv, NumbersInv, QueueInv, MarksInv

-----------------------------------------------------------------------------
(* Steps that leave the queue, the marks and the numbers alone.            *)
LEMMA Untouched ==
  ASSUME Inv, UNCHANGED <<jobs, gave, counter, targets, pending, assigned>>
  PROVE  Inv' /\ NumberKept
  BY DEF Inv, NumbersInv, QueueInv, MarksInv, NumberKept

(* Emptying the queue harms nothing.                                       *)
LEMMA Emptied ==
  ASSUME Inv, UNCHANGED <<jobs, gave, counter, targets, assigned>>, pending' = <<>>
  PROVE  Inv' /\ NumberKept
  BY DEF Inv, NumbersInv, QueueInv, MarksInv, NumberKept

LEMMA StartStep == ASSUME Inv, StartAutoAssign PROVE Inv' /\ NumberKept
  BY DEF StartAutoAssign, queueVars, resultVars, Inv, NumbersInv, QueueInv, MarksInv, NumberKept

(* A touch queues a node that neither waits nor is marked.                 *)
LEMMA TouchStep == ASSUME Inv, NEW m \in Nodes, Touch(m) PROVE Inv' /\ NumberKept
<1>1. /\ pending \in Seq(Nodes) /\ pending' = Append(pending, m)
      /\ m \notin assigned /\ assigned' = assigned
      /\ \A i \in DOMAIN pending : pending[i] # m
  BY DEF Touch, Queued, Inv, QueueInv
<1>2. QueueInv'
  BY <1>1 DEF Inv, QueueInv
<1>3. NumbersInv' /\ MarksInv' /\ NumberKept
  BY DEF Touch, tempVars, resultVars, Inv, NumbersInv, MarksInv, NumberKept
<1> QED BY <1>2, <1>3 DEF Inv

LEMMA SelectStep ==
  ASSUME Inv, NEW m \in Nodes, AssignNextToSelected(m) PROVE Inv' /\ NumberKept
<1>1. CASE Touch(m)
  BY <1>1, TouchStep
<1>2. CASE ~ Touch(m)
  BY <1>2, Emptied DEF AssignNextToSelected, StopAutoAssign, tempVars, resultVars
<1> QED BY <1>1, <1>2

(* The first of the queue is marked, and the others differ from it.        *)
LEMMA ProcessStep == ASSUME Inv, ProcessQueue PROVE Inv' /\ NumberKept
<1>1. UNCHANGED <<targets, counter, gave>>
  BY DEF ProcessQueue, tempVars, resultVars
<1>2. CASE ProcessNothing
  BY <1>1, <1>2, Untouched DEF ProcessNothing
<1>3. CASE ProcessExhausted
  BY <1>1, <1>3, Emptied DEF ProcessExhausted, StopAutoAssign
<1>4. CASE ProcessNext
  <2> DEFINE m == Head(pending)
  <2>1. /\ pending \in Seq(Nodes) /\ pending # <<>> /\ m = pending[1] /\ m \in Nodes
        /\ 1 \in DOMAIN pending
    BY <1>4 DEF ProcessNext, Inv, QueueInv
  <2>2. /\ pending' = Tail(pending) /\ assigned' = assigned \cup {m}
        /\ jobs' = [jobs EXCEPT ![m] = counter]
    BY <1>4 DEF ProcessNext
  <2>3. m \notin assigned
    BY <2>1 DEF Inv, QueueInv
  <2> HIDE DEF m
  <2>4. pending' \in Seq(Nodes)
    BY <2>1, <2>2
  <2>5. ASSUME NEW i \in DOMAIN pending'
        PROVE  i + 1 \in DOMAIN pending /\ pending'[i] = pending[i + 1] /\ i + 1 # 1
    BY <2>1, <2>2
  <2>6. QueueInv'
    BY <2>1, <2>2, <2>4, <2>5 DEF Inv, QueueInv
  <2>7. NumbersInv'
    BY <1>1, <2>2 DEF Inv, NumbersInv
  <2>8. MarksInv'
    BY <1>1, <2>1, <2>2, <2>3 DEF Inv, NumbersInv, MarksInv
  <2>9. NumberKept
    BY <1>1 DEF NumberKept
  <2> QED BY <2>6, <2>7, <2>8, <2>9 DEF Inv
<1> QED BY <1>2, <1>3, <1>4 DEF ProcessQueue

(* An assignment that is due gives a number to a node that has none, or    *)
(* puts it back in front of the queue, in which it is not.                 *)
LEMMA DoAssignStep == ASSUME Inv, NEW m \in Nodes, DoAssign(m) PROVE Inv' /\ NumberKept
<1>1. /\ jobs[m] # 0 /\ jobs' = [jobs EXCEPT ![m] = 0] /\ counter' = counter + 1
      /\ targets' = targets
  BY DEF DoAssign, tempVars
<1>2. m \in assigned /\ gave[m] = 0
  BY <1>1 DEF Inv, MarksInv
<1>3. CASE Assigned(m, jobs[m])
  <2>1. gave' = [gave EXCEPT ![m] = jobs[m]] /\ UNCHANGED <<assigned, pending>>
    BY <1>3 DEF Assigned
  <2> QED BY <1>1, <1>2, <2>1 DEF Inv, NumbersInv, QueueInv, MarksInv, NumberKept
<1>4. CASE NotAssigned(m)
  <2>1. /\ assigned' = assigned \ {m} /\ pending' = <<m>> \o pending /\ gave' = gave
    BY <1>4 DEF NotAssigned, resultVars
  <2>2. pending \in Seq(Nodes) /\ \A i \in DOMAIN pending : pending[i] # m
    BY <1>2 DEF Inv, QueueInv
  <2>3. pending' \in Seq(Nodes)
    BY <2>1, <2>2
  <2>4. ASSUME NEW i \in DOMAIN pending'
        PROVE  \/ i = 1 /\ pending'[i] = m
               \/ i # 1 /\ i - 1 \in DOMAIN pending /\ pending'[i] = pending[i - 1]
    BY <2>1, <2>2
  <2>5. QueueInv'
    <3>1. ASSUME NEW i \in DOMAIN pending' PROVE pending'[i] \notin assigned'
      BY <2>1, <2>4 DEF Inv, QueueInv
    <3>2. ASSUME NEW i \in DOMAIN pending', NEW j \in DOMAIN pending', pending'[i] = pending'[j]
          PROVE  i = j
      <4>1. i \in Int /\ j \in Int
        BY <2>3
      <4> QED BY <4>1, <2>2, <2>4, <3>2 DEF Inv, QueueInv
    <3> QED BY <2>3, <3>1, <3>2 DEF QueueInv
  <2>6. NumbersInv' /\ MarksInv' /\ NumberKept
    BY <1>1, <1>2, <2>1 DEF Inv, NumbersInv, MarksInv, NumberKept
  <2> QED BY <2>5, <2>6 DEF Inv
<1> QED BY <1>3, <1>4 DEF DoAssign

-----------------------------------------------------------------------------
LEMMA StepKeeps == Inv /\ [Next]_vars => Inv' /\ NumberKept
<1> SUFFICES ASSUME Inv, [Next]_vars PROVE Inv' /\ NumberKept
  OBVIOUS
<1>1. CASE UNCHANGED vars
  BY <1>1, Untouched DEF vars, tempVars, queueVars, resultVars
<1>2. CASE Activate \/ StopTimer \/ StopButton
  <2>1. CASE Activate
    BY <2>1, Untouched DEF Activate, queueVars, resultVars
  <2> QED BY <1>2, <2>1, Emptied DEF StopTimer, StopButton, StopAutoAssign, tempVars, resultVars
<1>3. ASSUME NEW m \in Nodes, Hear(m) \/ TempAddress(m)
      PROVE  Inv' /\ NumberKept
  BY <1>3, Untouched DEF Hear, TempAddress, TempAddressClear, TempAddressSet, tempVars, queueVars, resultVars
<1>4. ASSUME NEW b \in Bridges, LinkBreaks(b) \/ Reconnect(b)
      PROVE  Inv' /\ NumberKept
  BY <1>4, Untouched DEF LinkBreaks, Reconnect, tempVars, queueVars, resultVars
<1> QED BY <1>1, <1>2, <1>3, <1>4, StartStep, TouchStep, SelectStep, ProcessStep, DoAssignStep
        DEF Next

LEMMA InvHolds == Spec => []Inv
  BY InitInv, StepKeeps, PTL DEF Spec

(* No node is given a second number, whatever is touched, selected, lost   *)
(* or tried again, for every number of nodes, bridges and addresses.       *)
THEOREM NumbersAreFinal == Spec => NumberedOnce
<1>1. Inv /\ [Next]_vars => [NumberKept]_vars
  BY StepKeeps
<1>2. NumberedOnce <=> [][NumberKept]_vars
  BY PTL DEF NumberedOnce, NumberKept
<1> QED BY <1>1, <1>2, InvHolds, PTL DEF Spec

(* No node waits in the queue and is marked: the branch of _process_queue  *)
(* for such a node is never taken.                                         *)
THEOREM NoneMarkedWaits == Spec => [](\A m \in assigned : ~ Queued(m))
<1>1. Inv => \A m \in assigned : ~ Queued(m)
  BY DEF Inv, QueueInv, Queued
<1> QED BY <1>1, InvHolds, PTL

-----------------------------------------------------------------------------
(* Types and bounds.  A call of _process_queue is due for a touch or for   *)
(* an assignment that was due before it; a node is touched only once.      *)

Due == {m \in Nodes : jobs[m] # 0}
Fresh == IF phase = "off" THEN {} ELSE {m \in targets \ assigned : ~ Queued(m)}

BoundsInv ==
  /\ targets = {} => kicks = 0 /\ phase = "off"
  /\ kicks + Cardinality(Due) + Cardinality(Fresh) <= Cardinality(Nodes)
  /\ counter + Cardinality(Due) <= MaxAddr + Cardinality(Nodes)

AssignInv == Inv /\ TypeOK /\ BoundsInv

(* The sets that are counted.                                              *)
LEMMA Counted ==
  ASSUME NEW S \in SUBSET Nodes
  PROVE  /\ IsFiniteSet(S) /\ Cardinality(S) \in Nat /\ Cardinality(Nodes) \in Nat
         /\ Cardinality(S) <= Cardinality(Nodes)
         /\ \A T \in SUBSET S : Cardinality(T) \in Nat /\ Cardinality(T) <= Cardinality(S)
         /\ \A m \in S : Cardinality(S \ {m}) = Cardinality(S) - 1 /\ Cardinality(S) # 0
<1>1. IsFiniteSet(Nodes)
  BY NodesAssumption
<1>2. \A T \in SUBSET Nodes : IsFiniteSet(T) /\ Cardinality(T) \in Nat
  BY <1>1, FS_Subset, FS_CardinalityType
<1>3. /\ Cardinality(S) <= Cardinality(Nodes)
      /\ \A T \in SUBSET S : Cardinality(T) <= Cardinality(S)
  BY <1>1, <1>2, FS_Subset
<1>4. ASSUME NEW m \in S
      PROVE  Cardinality(S \ {m}) = Cardinality(S) - 1 /\ Cardinality(S) # 0
  BY <1>2, <1>4, FS_RemoveElement, FS_EmptySet
<1> QED BY <1>2, <1>3, <1>4

LEMMA Sums ==
  ASSUME Inv, TypeOK
  PROVE  /\ Due \in SUBSET Nodes /\ Fresh \in SUBSET Nodes
         /\ kicks \in Nat /\ counter \in Nat /\ MaxAddr \in Nat /\ MaxAddr > 0
         /\ targets \subseteq Nodes
  BY AddrAssumption, Counted DEF Due, Fresh, TypeOK, Inv, NumbersInv

(* Fewer of everything keeps the bounds.                                   *)
LEMMA FewerKeeps ==
  ASSUME Inv, TypeOK, BoundsInv, targets' = targets, counter' = counter, kicks' \in Nat, kicks' <= kicks,
         targets = {} => phase' = "off", jobs' = jobs, Fresh' \subseteq Fresh
  PROVE  BoundsInv'
<1>1. Due' = Due
  BY DEF Due
<1> DEFINE d == Cardinality(Due)
           f == Cardinality(Fresh)
           g == Cardinality(Fresh')
           n == Cardinality(Nodes)
           k == kicks'
<1>2. f \in Nat /\ g \in Nat /\ g <= f /\ d \in Nat /\ n \in Nat /\ k \in Nat /\ k <= kicks
  BY Sums, Counted
<1>3. kicks + d + f <= n /\ counter + d <= MaxAddr + n /\ (targets = {} => kicks = 0)
      /\ kicks \in Nat /\ counter \in Nat /\ MaxAddr \in Nat
  BY Sums DEF BoundsInv
<1> HIDE DEF d, f, g, n, k
<1>4. k + d + g <= n /\ (targets = {} => k = 0)
  BY <1>2, <1>3
<1> QED BY <1>1, <1>3, <1>4 DEF BoundsInv, d, g, n, k

LEMMA QueuedFacts ==
  ASSUME pending \in Seq(Nodes)
  PROVE  /\ pending # <<>> => /\ Head(pending) = pending[1] /\ Head(pending) \in Nodes /\ 1 \in DOMAIN pending
                              /\ Tail(pending) \in Seq(Nodes)
                              /\ \A i \in DOMAIN pending :
                                   i # 1 => i - 1 \in DOMAIN Tail(pending) /\ Tail(pending)[i - 1] = pending[i]
         /\ \A m \in Nodes : /\ \A i \in DOMAIN pending : /\ i \in DOMAIN Append(pending, m)
                                                          /\ Append(pending, m)[i] = pending[i]
                             /\ Len(pending) + 1 \in DOMAIN Append(pending, m)
                             /\ Append(pending, m)[Len(pending) + 1] = m
                             /\ 1 \in DOMAIN (<<m>> \o pending) /\ (<<m>> \o pending)[1] = m
                             /\ \A i \in DOMAIN pending : /\ i + 1 \in DOMAIN (<<m>> \o pending)
                                                          /\ (<<m>> \o pending)[i + 1] = pending[i]
<1>1. ASSUME pending # <<>>
      PROVE  /\ Head(pending) = pending[1] /\ Head(pending) \in Nodes /\ 1 \in DOMAIN pending
             /\ Tail(pending) \in Seq(Nodes)
             /\ \A i \in DOMAIN pending :
                  i # 1 => i - 1 \in DOMAIN Tail(pending) /\ Tail(pending)[i - 1] = pending[i]
  <2>1. /\ Head(pending) = pending[1] /\ Head(pending) \in Nodes /\ 1 \in DOMAIN pending
        /\ Tail(pending) \in Seq(Nodes) /\ Len(Tail(pending)) = Len(pending) - 1 /\ Len(pending) \in Nat
        /\ \A i \in DOMAIN Tail(pending) : Tail(pending)[i] = pending[i + 1]
        /\ DOMAIN Tail(pending) = 1 .. Len(pending) - 1 /\ DOMAIN pending = 1 .. Len(pending)
    BY <1>1
  <2>2. ASSUME NEW i \in DOMAIN pending, i # 1
        PROVE  i - 1 \in DOMAIN Tail(pending) /\ Tail(pending)[i - 1] = pending[i]
    <3>1. i - 1 \in DOMAIN Tail(pending) /\ (i - 1) + 1 = i
      BY <2>1, <2>2
    <3> QED BY <2>1, <3>1
  <2> QED BY <2>1, <2>2
<1>2. ASSUME NEW m \in Nodes
      PROVE  /\ \A i \in DOMAIN pending : /\ i \in DOMAIN Append(pending, m)
                                          /\ Append(pending, m)[i] = pending[i]
             /\ Len(pending) + 1 \in DOMAIN Append(pending, m)
             /\ Append(pending, m)[Len(pending) + 1] = m
             /\ 1 \in DOMAIN (<<m>> \o pending) /\ (<<m>> \o pending)[1] = m
             /\ \A i \in DOMAIN pending : /\ i + 1 \in DOMAIN (<<m>> \o pending)
                                          /\ (<<m>> \o pending)[i + 1] = pending[i]
  OBVIOUS
<1> QED BY <1>1, <1>2

LEMMA TouchBounds ==
  ASSUME Inv, TypeOK, BoundsInv, NEW m \in Nodes, Touch(m)
  PROVE  BoundsInv'
<1>1. /\ phase = "on" /\ m \in targets \ assigned /\ ~ Queued(m) /\ pending' = Append(pending, m)
      /\ UNCHANGED <<phase, targets, counter, assigned, jobs>> /\ kicks' \in {kicks, kicks + 1}
  BY DEF Touch, tempVars
<1>2. pending \in Seq(Nodes)
  BY DEF Inv, QueueInv
<1>3. m \in Fresh /\ Fresh' \subseteq Fresh \ {m}
  <2>1. \A n \in targets : Queued(n) => Queued(n)'
    BY <1>1, <1>2, QueuedFacts DEF Queued
  <2>2. Queued(m)'
    BY <1>1, <1>2, QueuedFacts DEF Queued
  <2> QED BY <1>1, <2>1, <2>2 DEF Fresh
<1>4. Due' = Due
  BY <1>1 DEF Due
<1> DEFINE d == Cardinality(Due)
           f == Cardinality(Fresh)
           g == Cardinality(Fresh')
           n == Cardinality(Nodes)
           k == kicks'
<1>5. f \in Nat /\ g \in Nat /\ g <= f - 1 /\ d \in Nat /\ n \in Nat
  <2>1. Fresh \ {m} \in SUBSET Nodes /\ Cardinality(Fresh \ {m}) = f - 1
    BY <1>3, Sums, Counted
  <2>2. g <= Cardinality(Fresh \ {m})
    BY <1>3, <2>1, Counted
  <2>3. f \in Nat /\ g \in Nat /\ d \in Nat /\ n \in Nat
    BY <1>3, Sums, Counted
  <2> QED BY <2>1, <2>2, <2>3
<1>6. kicks + d + f <= n /\ counter + d <= MaxAddr + n /\ kicks \in Nat /\ targets # {}
      /\ k \in Nat /\ k <= kicks + 1
  BY <1>1, Sums DEF BoundsInv
<1> HIDE DEF d, f, g, n, k
<1>7. k + d + g <= n
  BY <1>5, <1>6
<1> QED BY <1>1, <1>4, <1>6, <1>7 DEF BoundsInv, d, g, n, k

LEMMA ProcessBounds ==
  ASSUME Inv, TypeOK, BoundsInv, ProcessQueue
  PROVE  BoundsInv'
<1>1. kicks > 0 /\ kicks' = kicks - 1 /\ UNCHANGED <<targets, counter>> /\ targets # {}
      /\ kicks' \in Nat /\ kicks \in Nat /\ kicks' <= kicks
  <2>1. kicks > 0 /\ kicks' = kicks - 1 /\ UNCHANGED <<targets, counter>> /\ kicks \in Nat
    BY Sums DEF ProcessQueue, tempVars
  <2> QED BY <2>1 DEF BoundsInv
<1>2. CASE ProcessNothing \/ ProcessExhausted
  <2>1. jobs' = jobs /\ assigned' = assigned /\ (phase' = "off" \/ (phase' = phase /\ pending' = pending))
    BY <1>2 DEF ProcessNothing, ProcessExhausted, StopAutoAssign
  <2>2. Fresh' \subseteq Fresh
    BY <1>1, <2>1 DEF Fresh, Queued
  <2> QED BY <1>1, <2>1, <2>2, FewerKeeps
<1>3. CASE ProcessNext
  <2> DEFINE m == Head(pending)
  <2>1. pending \in Seq(Nodes)
    BY DEF Inv, QueueInv
  <2>2. /\ phase = "on" /\ pending # <<>> /\ counter <= MaxAddr /\ pending' = Tail(pending)
        /\ assigned' = assigned \cup {m} /\ jobs' = [jobs EXCEPT ![m] = counter] /\ phase' = phase
    BY <1>3 DEF ProcessNext
  <2>3. /\ m = pending[1] /\ m \in Nodes /\ 1 \in DOMAIN pending
        /\ \A i \in DOMAIN pending : i # 1 => i - 1 \in DOMAIN pending' /\ pending'[i - 1] = pending[i]
    BY <2>1, <2>2, QueuedFacts
  <2> HIDE DEF m
  <2>4. m \notin assigned /\ m \notin Due
    BY <2>3 DEF Inv, QueueInv, MarksInv, Due
  <2>5. Due' = Due \cup {m}
    BY <2>2, <2>3 DEF Due, Inv, NumbersInv
  <2>6. Fresh' \subseteq Fresh
    <3>1. \A n \in targets : n # m /\ Queued(n) => Queued(n)'
      BY <2>3 DEF Queued
    <3> QED BY <1>1, <2>2, <3>1 DEF Fresh
  <2> DEFINE d == Cardinality(Due)
             e == Cardinality(Due')
             f == Cardinality(Fresh)
             g == Cardinality(Fresh')
             n == Cardinality(Nodes)
             k == kicks'
  <2>7. d \in Nat /\ e \in Nat /\ e = d + 1 /\ e <= n /\ n \in Nat
    <3>1. Due' \in SUBSET Nodes /\ Due' \ {m} = Due /\ m \in Due'
      BY <2>3, <2>4, <2>5, Sums
    <3>2. d = e - 1 /\ e \in Nat /\ d \in Nat /\ e <= n /\ n \in Nat
      BY <3>1, Sums, Counted
    <3> QED BY <3>2
  <2>8. f \in Nat /\ g \in Nat /\ g <= f
    BY <2>6, Sums, Counted
  <2>9. kicks + d + f <= n /\ counter \in Nat /\ MaxAddr \in Nat
        /\ kicks \in Nat /\ k \in Nat /\ k = kicks - 1 /\ counter <= MaxAddr
    BY <1>1, <2>2, Sums DEF BoundsInv
  <2> HIDE DEF d, e, f, g, n, k
  <2>10. k + e + g <= n /\ counter + e <= MaxAddr + n
    BY <2>7, <2>8, <2>9
  <2> QED BY <1>1, <2>10 DEF BoundsInv, e, g, n, k
<1> QED BY <1>2, <1>3 DEF ProcessQueue

LEMMA DoAssignBounds ==
  ASSUME Inv, TypeOK, BoundsInv, NEW m \in Nodes, DoAssign(m)
  PROVE  BoundsInv'
<1>1. /\ jobs[m] # 0 /\ jobs' = [jobs EXCEPT ![m] = 0] /\ counter' = counter + 1
      /\ targets' = targets /\ phase' = phase
      /\ Assigned(m, jobs[m]) \/ NotAssigned(m)
  BY DEF DoAssign, tempVars
<1>2. kicks' \in {kicks, kicks + 1}
  BY <1>1 DEF Assigned, NotAssigned
<1>3. m \in Due /\ Due' = Due \ {m}
  BY <1>1 DEF Due, Inv, NumbersInv
<1>4. targets # {}
  BY <1>1 DEF Inv, MarksInv, TypeOK
<1>5. Fresh' \subseteq Fresh
  <2>1. CASE Assigned(m, jobs[m])
    BY <1>1, <2>1 DEF Assigned, Fresh, Queued
  <2>2. CASE NotAssigned(m)
    <3>1. pending \in Seq(Nodes) /\ assigned' = assigned \ {m} /\ pending' = <<m>> \o pending
      BY <2>2 DEF NotAssigned, Inv, QueueInv
    <3>2. Queued(m)' /\ \A n \in targets : Queued(n) => Queued(n)'
      <4>1. 1 \in DOMAIN pending' /\ pending'[1] = m
            /\ \A i \in DOMAIN pending : i + 1 \in DOMAIN pending' /\ pending'[i + 1] = pending[i]
        BY <3>1, QueuedFacts
      <4> QED BY <4>1 DEF Queued
    <3> QED BY <1>1, <3>1, <3>2 DEF Fresh
  <2> QED BY <1>1, <2>1, <2>2
<1> DEFINE d == Cardinality(Due)
           e == Cardinality(Due')
           f == Cardinality(Fresh)
           g == Cardinality(Fresh')
           n == Cardinality(Nodes)
           k == kicks'
           c == counter'
<1>6. d \in Nat /\ e \in Nat /\ e = d - 1 /\ n \in Nat
  <2>1. d \in Nat /\ n \in Nat /\ Cardinality(Due \ {m}) = d - 1 /\ d # 0
    BY <1>3, Sums, Counted
  <2> QED BY <1>3, <2>1
<1>7. f \in Nat /\ g \in Nat /\ g <= f
  BY <1>5, Sums, Counted
<1>8. kicks + d + f <= n /\ counter + d <= MaxAddr + n /\ kicks \in Nat /\ counter \in Nat /\ MaxAddr \in Nat
      /\ k \in Nat /\ k <= kicks + 1 /\ c = counter + 1
  BY <1>1, <1>2, Sums DEF BoundsInv
<1> HIDE DEF d, e, f, g, n, k, c
<1>9. k + e + g <= n /\ c + e <= MaxAddr + n
  BY <1>6, <1>7, <1>8
<1> QED BY <1>1, <1>4, <1>9 DEF BoundsInv, e, g, n, k, c

LEMMA StartBounds ==
  ASSUME Inv, TypeOK, BoundsInv, StartAutoAssign
  PROVE  BoundsInv'
<1>1. /\ targets = {} /\ targets' # {} /\ targets' \subseteq Nodes /\ phase' = "temp"
      /\ UNCHANGED <<counter, assigned, pending, kicks, jobs>>
  BY DEF StartAutoAssign, queueVars
<1>2. kicks = 0 /\ Due = {} /\ Due' = {}
  BY <1>1 DEF BoundsInv, Due, Inv, MarksInv, TypeOK
<1>3. Fresh' \in SUBSET Nodes
  BY <1>1 DEF Fresh
<1> DEFINE g == Cardinality(Fresh')
           n == Cardinality(Nodes)
<1>4. g \in Nat /\ n \in Nat /\ g <= n /\ Cardinality({}) = 0
  BY <1>3, Counted, FS_EmptySet
<1>5. counter + Cardinality({}) <= MaxAddr + n
  BY <1>2 DEF BoundsInv
<1> HIDE DEF g, n
<1>6. 0 + 0 + g <= n
  BY <1>4
<1> QED BY <1>1, <1>2, <1>4, <1>5, <1>6 DEF BoundsInv, g, n

LEMMA BoundsStep ==
  ASSUME Inv, TypeOK, BoundsInv, [Next]_vars
  PROVE  BoundsInv'
<1>1. kicks \in Nat /\ kicks <= kicks
  BY Sums
<1>2. CASE UNCHANGED vars
  <2>1. UNCHANGED <<phase, targets, counter, assigned, pending, kicks, jobs>>
    BY <1>2 DEF vars, tempVars, queueVars
  <2>2. Fresh' = Fresh
    BY <2>1 DEF Fresh, Queued
  <2> QED BY <1>1, <2>1, <2>2, FewerKeeps DEF BoundsInv
<1>3. CASE Activate
  <2>1. UNCHANGED <<targets, counter, assigned, pending, kicks, jobs>> /\ phase = "temp"
    BY <1>3 DEF Activate, queueVars
  <2>2. Fresh' \subseteq Fresh /\ (targets = {} => phase' = "off")
    BY <2>1 DEF Fresh, Queued, BoundsInv
  <2> QED BY <1>1, <2>1, <2>2, FewerKeeps
<1>4. CASE StopTimer \/ StopButton \/ \E m \in Nodes : AssignNextToSelected(m) /\ ~ Touch(m)
  <2>1. UNCHANGED <<targets, counter, assigned, kicks, jobs>> /\ phase' = "off"
    BY <1>4 DEF StopTimer, StopButton, AssignNextToSelected, StopAutoAssign, tempVars
  <2>2. Fresh' \subseteq Fresh
    BY <2>1 DEF Fresh
  <2> QED BY <1>1, <2>1, <2>2, FewerKeeps
<1>5. CASE \/ \E m \in Nodes : Hear(m) \/ TempAddress(m)
           \/ \E b \in Bridges : LinkBreaks(b) \/ Reconnect(b)
  <2>1. UNCHANGED <<phase, targets, counter, assigned, pending, kicks, jobs>>
    BY <1>5 DEF Hear, TempAddress, TempAddressClear, TempAddressSet, LinkBreaks, Reconnect, tempVars, queueVars
  <2>2. Fresh' = Fresh
    BY <2>1 DEF Fresh, Queued
  <2> QED BY <1>1, <2>1, <2>2, FewerKeeps DEF BoundsInv
<1> QED BY <1>2, <1>3, <1>4, <1>5, StartBounds, TouchBounds, ProcessBounds, DoAssignBounds DEF Next

(* The types, when the bounds hold before and after the step.              *)
LEMMA Numbers ==
  ASSUME Inv, TypeOK, BoundsInv
  PROVE  kicks \in 0 .. Cardinality(Nodes) /\ counter \in 1 .. MaxAddr + Cardinality(Nodes)
<1> DEFINE d == Cardinality(Due)
           f == Cardinality(Fresh)
           n == Cardinality(Nodes)
<1>1. d \in Nat /\ f \in Nat /\ n \in Nat /\ kicks \in Nat /\ counter \in Nat \ {0} /\ MaxAddr \in Nat
  BY Sums, Counted DEF Inv, NumbersInv
<1>2. kicks + d + f <= n /\ counter + d <= MaxAddr + n
  BY DEF BoundsInv
<1> HIDE DEF d, f, n
<1>3. kicks \in 0 .. n /\ counter \in 1 .. MaxAddr + n
  BY <1>1, <1>2
<1> QED BY <1>3 DEF n

LEMMA NumbersNext ==
  ASSUME Inv', BoundsInv', kicks' \in Nat
  PROVE  kicks' \in 0 .. Cardinality(Nodes) /\ counter' \in 1 .. MaxAddr + Cardinality(Nodes)
<1> DEFINE d == Cardinality(Due')
           f == Cardinality(Fresh')
           n == Cardinality(Nodes)
           k == kicks'
           c == counter'
<1>1. Due' \in SUBSET Nodes /\ Fresh' \in SUBSET Nodes
  BY DEF Due, Fresh, Inv, NumbersInv
<1>2. d \in Nat /\ f \in Nat /\ n \in Nat /\ k \in Nat /\ c \in Nat \ {0} /\ MaxAddr \in Nat
  BY <1>1, Counted, AddrAssumption DEF Inv, NumbersInv
<1>3. k + d + f <= n /\ c + d <= MaxAddr + n
  BY DEF BoundsInv
<1> HIDE DEF d, f, n, k, c
<1>4. k \in 0 .. n /\ c \in 1 .. MaxAddr + n
  BY <1>2, <1>3
<1> QED BY <1>4 DEF n, k, c

LEMMA TempAddrKnown ==
  ASSUME TypeOK, NEW m \in Nodes
  PROVE  TempAddr(m) \in Known
<1> DEFINE S == {n \in targets : n < m}
           n == Cardinality(Nodes)
           s == Cardinality(S)
<1>1. S \in SUBSET Nodes
  BY DEF TypeOK
<1>2. s \in Nat /\ n \in Nat /\ s <= n /\ MaxAddr \in Nat /\ TempBase \in Nat /\ TempBase <= MaxAddr
  BY <1>1, Counted, AddrAssumption
<1> HIDE DEF n, s
<1>3. TempBase + s \in 0 .. MaxAddr + n
  BY <1>2
<1> QED BY <1>3 DEF TempAddr, Known, s, n

LEMMA SmallKnown == \A a \in 0 .. MaxAddr : a \in Known
<1> DEFINE n == Cardinality(Nodes)
<1>1. n \in Nat /\ MaxAddr \in Nat
  BY Counted, AddrAssumption
<1> HIDE DEF n
<1>2. \A a \in 0 .. MaxAddr : a \in 0 .. MaxAddr + n
  BY <1>1
<1> QED BY <1>2 DEF Known, n

LEMMA PendingTypes ==
  ASSUME Inv', targets' \subseteq Nodes, \A i \in DOMAIN pending' : pending'[i] \in targets'
  PROVE  pending' \in Seq(targets') /\ IsInjective(pending')
<1>1. pending' \in Seq(Nodes) /\ \A i, j \in DOMAIN pending' : pending'[i] = pending'[j] => i = j
  BY DEF Inv, QueueInv
<1>2. pending' \in Seq(targets')
  <2>1. DOMAIN pending' = 1 .. Len(pending') /\ Len(pending') \in Nat
        /\ pending' = [i \in 1 .. Len(pending') |-> pending'[i]]
    BY <1>1
  <2> QED BY <2>1
<1>3. IsInjective(pending')
  BY <1>1 DEF IsInjective
<1> QED BY <1>2, <1>3

(* The calls that are due concern targets.                                 *)
ChainsType ==
  tempClear \subseteq targets \X BOOLEAN /\ tempSet \subseteq targets \X BOOLEAN

(* What the wizard writes.                                                 *)
LEMMA WizardTypes ==
  ASSUME Inv, TypeOK, BoundsInv, Next, Inv'
  PROVE  /\ targets' \subseteq Nodes /\ ChainsType'
         /\ assigned' \subseteq targets' /\ phase' \in {"off", "temp", "on"}
         /\ \A i \in DOMAIN pending' : pending'[i] \in targets'
<1> USE DEF ChainsType
<1>1. /\ targets \subseteq Nodes /\ ChainsType
      /\ assigned \subseteq targets /\ phase \in {"off", "temp", "on"}
      /\ pending \in Seq(targets) /\ pending \in Seq(Nodes)
      /\ \A i \in DOMAIN pending : pending[i] \in targets
  BY DEF TypeOK, Inv, QueueInv
<1>2. CASE StartAutoAssign
  <2>1. targets = {} /\ UNCHANGED <<pending, assigned>> /\ targets' \subseteq Nodes /\ tempClear' = targets' \X {FALSE}
        /\ tempSet' = tempSet /\ phase' = "temp"
    BY <1>2 DEF StartAutoAssign, queueVars
  <2> QED BY <1>1, <2>1
<1>3. CASE ProcessQueue
  <2>1. UNCHANGED <<targets, tempClear, tempSet>>
    BY <1>3 DEF ProcessQueue, tempVars
  <2>2. CASE ProcessNothing
    BY <1>1, <2>1, <2>2 DEF ProcessNothing
  <2>3. CASE ProcessExhausted
    BY <1>1, <2>1, <2>3 DEF ProcessExhausted, StopAutoAssign
  <2>4. CASE ProcessNext
    <3>1. pending # <<>> /\ pending' = Tail(pending) /\ assigned' = assigned \cup {Head(pending)} /\ phase' = phase
      BY <2>4 DEF ProcessNext
    <3>2. Head(pending) \in targets /\ Tail(pending) \in Seq(targets)
      BY <1>1, <3>1
    <3> QED BY <1>1, <2>1, <3>1, <3>2
  <2> QED BY <1>3, <2>2, <2>3, <2>4 DEF ProcessQueue
<1>4. ASSUME NEW m \in Nodes, Touch(m)
      PROVE  /\ targets' \subseteq Nodes /\ ChainsType'
             /\ assigned' \subseteq targets' /\ phase' \in {"off", "temp", "on"}
             /\ \A i \in DOMAIN pending' : pending'[i] \in targets'
  <2>1. m \in targets /\ pending' = Append(pending, m)
        /\ UNCHANGED <<targets, tempClear, tempSet, assigned, phase>>
    BY <1>4 DEF Touch, tempVars
  <2>2. pending' \in Seq(targets)
    BY <1>1, <2>1
  <2> QED BY <1>1, <2>1, <2>2
<1>5. ASSUME NEW m \in Nodes, DoAssign(m)
      PROVE  /\ targets' \subseteq Nodes /\ ChainsType'
             /\ assigned' \subseteq targets' /\ phase' \in {"off", "temp", "on"}
             /\ \A i \in DOMAIN pending' : pending'[i] \in targets'
  <2>1. UNCHANGED <<targets, tempClear, tempSet, phase>> /\ jobs[m] # 0
    BY <1>5 DEF DoAssign, tempVars
  <2>2. m \in targets
    BY <1>1, <2>1 DEF Inv, MarksInv
  <2>3. CASE Assigned(m, jobs[m])
    BY <1>1, <2>1, <2>3 DEF Assigned
  <2>4. CASE NotAssigned(m)
    <3>1. assigned' = assigned \ {m} /\ pending' = <<m>> \o pending
      BY <2>4 DEF NotAssigned
    <3>2. pending' \in Seq(targets)
      BY <1>1, <2>2, <3>1
    <3> QED BY <1>1, <2>1, <3>1, <3>2
  <2> QED BY <1>5, <2>3, <2>4 DEF DoAssign
<1>6. CASE StopTimer \/ StopButton \/ \E m \in Nodes : AssignNextToSelected(m) /\ ~ Touch(m)
  <2>1. UNCHANGED <<targets, tempClear, tempSet, assigned>> /\ phase' = "off" /\ pending' = <<>>
    BY <1>6 DEF StopTimer, StopButton, AssignNextToSelected, StopAutoAssign, tempVars
  <2> QED BY <1>1, <2>1
<1>7. CASE Activate
  BY <1>1, <1>7 DEF Activate, queueVars
<1>8. ASSUME NEW m \in Nodes, TempAddress(m)
      PROVE  /\ targets' \subseteq Nodes /\ ChainsType'
             /\ assigned' \subseteq targets' /\ phase' \in {"off", "temp", "on"}
             /\ \A i \in DOMAIN pending' : pending'[i] \in targets'
  <2>1. UNCHANGED <<targets, assigned, phase, pending>>
    BY <1>8 DEF TempAddress, TempAddressClear, TempAddressSet, queueVars
  <2>2. PICK late \in BOOLEAN : TempAddressClear(m, late) \/ TempAddressSet(m, late)
    BY <1>8 DEF TempAddress
  <2>3. <<m, late>> \in targets \X BOOLEAN
    BY <1>1, <2>2 DEF TempAddress, TempAddressClear, TempAddressSet
  <2>4. <<m, TRUE>> \in targets \X BOOLEAN
    BY <2>3
  <2>5. /\ \/ tempClear' \in {tempClear, tempClear \ {<<m, late>>}}
           \/ tempClear' = tempClear \cup {<<m, TRUE>>}
           \/ tempClear' = (tempClear \ {<<m, late>>}) \cup {<<m, TRUE>>}
        /\ \/ tempSet' \in {tempSet, tempSet \ {<<m, late>>}}
           \/ tempSet' = tempSet \cup {<<m, late>>}
    BY <2>2, Zenon DEF TempAddress, TempAddressClear, TempAddressSet
  <2>6. ChainsType'
    BY <1>1, <2>1, <2>3, <2>4, <2>5, Zenon
  <2> QED BY <1>1, <2>1, <2>6
<1>9. CASE (\E m \in Nodes : Hear(m)) \/ \E b \in Bridges : LinkBreaks(b) \/ Reconnect(b)
  BY <1>1, <1>9 DEF Hear, LinkBreaks, Reconnect, tempVars, queueVars
<1> QED BY <1>2, <1>3, <1>4, <1>5, <1>6, <1>7, <1>8, <1>9 DEF Next

(* What the service and the results hold.                                  *)
LEMMA ServiceTypes ==
  ASSUME Inv, TypeOK, Next
  PROVE  /\ addr' \in [Nodes -> Known] /\ named' \subseteq Nodes
         /\ link' \in [Bridges -> BOOLEAN] /\ surprises' \in 0 .. MaxSurprises
<1>1. /\ addr \in [Nodes -> Known] /\ named \subseteq Nodes
      /\ link \in [Bridges -> BOOLEAN] /\ surprises \in 0 .. MaxSurprises /\ MaxSurprises \in Nat
      /\ jobs \in [Nodes -> 0 .. MaxAddr]
  BY AddrAssumption DEF TypeOK
<1>2. Surprise => surprises' \in 0 .. MaxSurprises
  BY <1>1 DEF Surprise
<1>3. ASSUME NEW m \in Nodes, Hear(m)
      PROVE  addr' \in [Nodes -> Known] /\ named' \subseteq Nodes /\ UNCHANGED link /\ Surprise
  <2>1. PICK a \in 0 .. MaxAddr :
          /\ addr' = [addr EXCEPT ![m] = a] /\ named' = IF a = 0 THEN named ELSE named \cup {m}
    BY <1>3 DEF Hear
  <2>2. a \in Known
    BY SmallKnown
  <2> QED BY <1>1, <1>3, <2>1, <2>2 DEF Hear
<1>4. ASSUME NEW m \in Nodes, TempAddress(m)
      PROVE  UNCHANGED <<link, surprises>> /\ named' \subseteq Nodes /\ addr' \in [Nodes -> Known]
  <2>1. TempAddr(m) \in Known
    BY TempAddrKnown
  <2>2. /\ UNCHANGED <<link, surprises>> /\ named' \in {named, named \cup {m}, named \ {m}}
        /\ addr' = addr \/ addr' = [addr EXCEPT ![m] = TempAddr(m)]
    BY <1>4 DEF TempAddress, TempAddressClear, TempAddressSet
  <2> QED BY <1>1, <2>1, <2>2
<1>5. ASSUME NEW m \in Nodes, DoAssign(m)
      PROVE  UNCHANGED <<link, surprises, named>> /\ addr' \in [Nodes -> Known]
  <2>1. jobs[m] \in Known
    BY <1>1, SmallKnown
  <2>2. addr' = addr \/ addr' = [addr EXCEPT ![m] = jobs[m]]
    BY <1>5 DEF DoAssign, Assigned, NotAssigned
  <2> QED BY <1>1, <1>5, <2>1, <2>2 DEF DoAssign
<1>6. CASE ProcessQueue
  BY <1>1, <1>6 DEF ProcessQueue, ProcessNothing, ProcessExhausted, ProcessNext
<1>7. ASSUME NEW b \in Bridges, LinkBreaks(b) \/ Reconnect(b)
      PROVE  UNCHANGED <<addr, named>> /\ link' \in [Bridges -> BOOLEAN] /\ (Surprise \/ surprises' = surprises)
  BY <1>1, <1>7 DEF LinkBreaks, Reconnect
<1>8. CASE \/ StartAutoAssign \/ Activate \/ StopTimer \/ StopButton
           \/ \E m \in Nodes : Touch(m) \/ AssignNextToSelected(m)
  <2>1. UNCHANGED <<addr, named, link, surprises>>
    BY <1>8 DEF StartAutoAssign, Activate, StopTimer, StopButton, Touch, AssignNextToSelected, serviceVars
  <2> QED BY <1>1, <2>1
<1> QED BY <1>1, <1>2, <1>3, <1>4, <1>5, <1>6, <1>7, <1>8 DEF Next

LEMMA ResultTypes ==
  ASSUME Inv, TypeOK, Next
  PROVE  /\ kicks' \in Nat /\ processing' \in BOOLEAN /\ announced' \in BOOLEAN /\ stopping' \in BOOLEAN
         /\ jobs' \in [Nodes -> 0 .. MaxAddr] /\ gave' \in [Nodes -> 0 .. MaxAddr]
<1>1. /\ kicks \in Nat /\ processing \in BOOLEAN /\ announced \in BOOLEAN /\ stopping \in BOOLEAN
      /\ jobs \in [Nodes -> 0 .. MaxAddr] /\ gave \in [Nodes -> 0 .. MaxAddr] /\ counter \in Nat \ {0}
      /\ MaxAddr \in Nat
  BY Sums DEF TypeOK, Inv, NumbersInv
<1>2. CASE ProcessQueue
  <2>1. kicks' \in Nat /\ UNCHANGED <<announced, stopping, gave>>
    BY <1>1, <1>2 DEF ProcessQueue, resultVars
  <2>2. CASE ProcessNothing \/ ProcessExhausted
    BY <1>1, <2>1, <2>2 DEF ProcessNothing, ProcessExhausted, StopAutoAssign
  <2>3. CASE ProcessNext
    <3>1. counter \in 0 .. MaxAddr /\ processing' = TRUE /\ jobs' = [jobs EXCEPT ![Head(pending)] = counter]
      BY <1>1, <2>3 DEF ProcessNext
    <3> QED BY <1>1, <2>1, <3>1
  <2> QED BY <1>2, <2>2, <2>3 DEF ProcessQueue
<1>3. ASSUME NEW m \in Nodes, DoAssign(m)
      PROVE  /\ kicks' \in Nat /\ processing' \in BOOLEAN /\ announced' \in BOOLEAN /\ stopping' \in BOOLEAN
             /\ jobs' \in [Nodes -> 0 .. MaxAddr] /\ gave' \in [Nodes -> 0 .. MaxAddr]
  <2>1. /\ processing' = processing /\ jobs' = [jobs EXCEPT ![m] = 0] /\ jobs[m] \in 0 .. MaxAddr
        /\ Assigned(m, jobs[m]) \/ NotAssigned(m)
    BY <1>1, <1>3 DEF DoAssign
  <2>2. kicks' \in {kicks, kicks + 1} /\ (gave' = gave \/ gave' = [gave EXCEPT ![m] = jobs[m]])
    BY <2>1 DEF Assigned, NotAssigned, resultVars
  <2>3. announced' \in BOOLEAN /\ stopping' \in BOOLEAN
    <3>1. CASE UNCHANGED <<announced, stopping>>
      BY <1>1, <3>1
    <3>2. CASE announced' = TRUE /\ stopping' = TRUE
      BY <3>2
    <3> QED BY <2>1, <3>1, <3>2 DEF Assigned, NotAssigned, resultVars
  <2>4. kicks' \in Nat /\ gave' \in [Nodes -> 0 .. MaxAddr] /\ jobs' \in [Nodes -> 0 .. MaxAddr]
    BY <1>1, <2>1, <2>2
  <2>5. processing' \in BOOLEAN
    BY <1>1, <2>1
  <2> QED BY <2>3, <2>4, <2>5
<1>4. ASSUME NEW m \in Nodes, Touch(m)
      PROVE  kicks' \in Nat /\ UNCHANGED <<processing, announced, stopping, jobs, gave>>
  BY <1>1, <1>4 DEF Touch, resultVars
<1>5. CASE StopTimer \/ StopButton \/ \E m \in Nodes : AssignNextToSelected(m) /\ ~ Touch(m)
  <2>1. UNCHANGED <<kicks, announced, jobs, gave>> /\ processing' = FALSE /\ stopping' \in {stopping, FALSE}
    BY <1>5 DEF StopTimer, StopButton, AssignNextToSelected, StopAutoAssign, resultVars
  <2> QED BY <1>1, <2>1
<1>6. CASE \/ StartAutoAssign \/ Activate
           \/ \E m \in Nodes : Hear(m) \/ TempAddress(m)
           \/ \E b \in Bridges : LinkBreaks(b) \/ Reconnect(b)
  <2>1. UNCHANGED <<kicks, processing, announced, stopping, jobs, gave>>
    BY <1>6 DEF StartAutoAssign, Activate, Hear, TempAddress, TempAddressClear, TempAddressSet, LinkBreaks, Reconnect,
                queueVars, resultVars
  <2> QED BY <1>1, <2>1
<1> QED BY <1>1, <1>2, <1>3, <1>4, <1>5, <1>6 DEF Next

LEMMA AssignStarts == Init => AssignInv
<1> SUFFICES ASSUME Init
             PROVE  AssignInv
  OBVIOUS
<1>1. Inv
  BY InitInv
<1>2. MaxAddr \in Nat /\ MaxAddr > 0 /\ MaxSurprises \in Nat /\ Cardinality(Nodes) \in Nat /\ Cardinality({}) = 0
  BY AddrAssumption, Counted, FS_EmptySet
<1>3. BoundsInv
  <2>1. Due = {} /\ Fresh = {} /\ targets = {} /\ kicks = 0 /\ counter = 1 /\ phase = "off"
    BY DEF Due, Fresh, Init
  <2> QED BY <1>2, <2>1 DEF BoundsInv
<1>4. TypeOK
  <2>1. 0 \in Known /\ <<>> \in Seq({}) /\ IsInjective(<<>>)
    BY <1>2, SmallKnown DEF IsInjective
  <2>2. 1 \in 1 .. MaxAddr + Cardinality(Nodes)
    BY <1>2
  <2>3. addr \in [Nodes -> Known] /\ link \in [Bridges -> BOOLEAN]
        /\ jobs \in [Nodes -> 0 .. MaxAddr] /\ gave \in [Nodes -> 0 .. MaxAddr]
    BY <1>2, <2>1 DEF Init
  <2>4. /\ named = {} /\ surprises = 0 /\ phase = "off" /\ targets = {} /\ tempClear = {} /\ tempSet = {}
        /\ counter = 1 /\ assigned = {} /\ pending = <<>> /\ processing = FALSE /\ kicks = 0
        /\ announced = FALSE /\ stopping = FALSE
    BY DEF Init
  <2>5. 0 \in 0 .. MaxSurprises /\ 0 \in 0 .. Cardinality(Nodes)
    BY <1>2
  <2> QED BY <2>1, <2>2, <2>3, <2>4, <2>5 DEF TypeOK
<1> QED BY <1>1, <1>3, <1>4 DEF AssignInv

LEMMA AssignInductive == AssignInv /\ [Next]_vars => AssignInv'
<1> SUFFICES ASSUME AssignInv, [Next]_vars
             PROVE  AssignInv'
  OBVIOUS
<1>1. Inv /\ TypeOK /\ BoundsInv /\ Inv' /\ BoundsInv'
  BY StepKeeps, BoundsStep DEF AssignInv
<1>2. CASE Next
  <2>1. kicks' \in 0 .. Cardinality(Nodes) /\ counter' \in 1 .. MaxAddr + Cardinality(Nodes)
    BY <1>1, <1>2, ResultTypes, NumbersNext
  <2>2. pending' \in Seq(targets') /\ IsInjective(pending')
    BY <1>1, <1>2, WizardTypes, PendingTypes
  <2>3. TypeOK'
    BY <1>1, <1>2, <2>1, <2>2, WizardTypes, ServiceTypes, ResultTypes DEF TypeOK, Known, ChainsType
  <2> QED BY <1>1, <2>3 DEF AssignInv
<1>3. CASE UNCHANGED vars
  <2>1. TypeOK'
    BY <1>1, <1>3 DEF TypeOK, vars, serviceVars, tempVars, queueVars, resultVars, IsInjective
  <2> QED BY <1>1, <2>1 DEF AssignInv
<1> QED BY <1>2, <1>3

(* The state of the wizard is always well-formed: its counter stays below  *)
(* the number of addresses and nodes, and no more calls of _process_queue  *)
(* are due at a time than there are nodes.                                 *)
THEOREM WizardBounds == Spec => []TypeOK
<1>1. AssignInv => TypeOK
  BY DEF AssignInv
<1> QED BY <1>1, AssignStarts, AssignInductive, PTL DEF Spec

=============================================================================
