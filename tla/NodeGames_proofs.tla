--------------------------- MODULE NodeGames_proofs ---------------------------
(***************************************************************************)
(* For any number of frames, handled in any LED push: one engine of a node *)
(* plays at a time, and the effect of an engine does not outlive it.       *)
(*                                                                         *)
(* Good is the invariant, for a state of the node and not for the variable,*)
(* because the handlers are compositions of operators on such states: the  *)
(* operators keep it, and so do the handlers made of them.  Nothing about  *)
(* the rest of a task is needed: what it does when its push is over keeps  *)
(* Good in whatever state the frames meanwhile have left.                  *)
(***************************************************************************)
EXTENDS NodeGames, TLAPS, FiniteSetTheorems

EngineNames == {"game", "drop", "grid", "tmr"}

Plays(m, e) == Busy(m, e) /\ ~(e = "game" /\ m.game = "FAIL")

OnePlays(m) == \A e, f \in EngineNames : Plays(m, e) /\ Plays(m, f) => e = f

Owned(m) ==
  /\ m.effect = "GAME" => m.game # "IDLE" \/ m.drop # "IDLE"
  /\ m.effect \in GridEffects => m.grid # "NONE"

Good(m) == m \in NodeType /\ OnePlays(m) /\ Owned(m)

(* No engine is busy, and no effect of an engine is active.                *)
AllIdle(m) ==
  /\ m.game = "IDLE" /\ m.drop = "IDLE" /\ m.grid = "NONE" /\ ~ m.tmr
  /\ m.effect \notin {"GAME"} \cup GridEffects

-----------------------------------------------------------------------------
(* The operators on the state of a node.                                   *)

LEMMA AtRestGood == Good(AtRest)
  BY DEF Good, AtRest, NodeType, GameStates, TmrPhases, DropPhases, GridModes, RingPhases, Effects,
         GridEffects, OnePlays, Plays, Busy, Owned, EngineNames

(* In other words: which engines are busy.                                 *)
LEMMA OnePlaysMeans ==
  ASSUME NEW m
  PROVE  OnePlays(m) <=>
           /\ m.drop # "IDLE" => m.grid = "NONE" /\ ~ m.tmr /\ m.game \in {"IDLE", "FAIL"}
           /\ m.grid # "NONE" => ~ m.tmr /\ m.game \in {"IDLE", "FAIL"}
           /\ m.tmr => m.game \in {"IDLE", "FAIL"}
  BY DEF OnePlays, Plays, Busy, EngineNames

(* Finish is the end of any engine; no other engine is touched, and an     *)
(* effect that changes is switched off.                                    *)
LEMMA FinishGood ==
  ASSUME NEW m, Good(m), NEW e \in EngineNames
  PROVE  /\ Good(Finish(m, e)) /\ ~ Busy(Finish(m, e), e)
         /\ \A f \in EngineNames \ {e} : Busy(Finish(m, e), f) = Busy(m, f)
         /\ Finish(m, e).game \in {m.game, "IDLE"}
         /\ Finish(m, e).effect \in {m.effect, "NONE"}
<1>1. CASE e = "game"
  BY <1>1, OnePlaysMeans DEF Finish, GameFinish, Good, NodeType, Owned, GridEffects, GameStates,
     Effects, EngineNames, Busy
<1>2. CASE e = "drop"
  BY <1>2, OnePlaysMeans DEF Finish, DropFinish, Good, NodeType, Owned, GridEffects, DropPhases,
     Effects, EngineNames, Busy
<1>3. CASE e = "grid"
  BY <1>3, OnePlaysMeans DEF Finish, GridFinish, Good, NodeType, Owned, GridEffects, GridModes,
     Effects, EngineNames, Busy
<1>4. CASE e = "tmr"
  BY <1>4, OnePlaysMeans DEF Finish, TmrFinish, Good, NodeType, Owned, GridEffects, TmrPhases,
     Effects, EngineNames, Busy
<1> QED BY <1>1, <1>2, <1>3, <1>4 DEF EngineNames

LEMMA CancelGood ==
  ASSUME NEW m, Good(m), NEW e \in EngineNames
  PROVE  /\ Good(Cancel(m, e)) /\ ~ Busy(Cancel(m, e), e)
         /\ \A f \in EngineNames \ {e} : Busy(Cancel(m, e), f) = Busy(m, f)
         /\ Cancel(m, e).effect \in {m.effect, "NONE"}
  BY FinishGood DEF Cancel

LEMMA RingCancelGood ==
  ASSUME NEW m, Good(m)
  PROVE  /\ Good(RingCancel(m)) /\ \A f \in EngineNames : Busy(RingCancel(m), f) = Busy(m, f)
         /\ RingCancel(m).effect = m.effect
  BY OnePlaysMeans DEF RingCancel, Good, NodeType, Owned, RingPhases, EngineNames, Busy

LEMMA NoDisplayGood ==
  ASSUME NEW m, Good(m)
  PROVE  /\ Good(NoDisplay(m)) /\ \A f \in EngineNames : Busy(NoDisplay(m), f) = Busy(m, f)
         /\ NoDisplay(m).effect = m.effect
  BY OnePlaysMeans DEF NoDisplay, Good, NodeType, Owned, EngineNames, Busy

LEMMA ExitIdleGood ==
  ASSUME NEW m, Good(m)
  PROVE  /\ Good(ExitIdleMode(m)) /\ \A f \in EngineNames : Busy(ExitIdleMode(m), f) = Busy(m, f)
  BY OnePlaysMeans DEF ExitIdleMode, EffectStop, Good, NodeType, Owned, GridEffects, Effects,
     EngineNames, Busy

(* Nothing is left after the four engines have been cancelled.             *)
LEMMA CancelGamesGood ==
  ASSUME NEW m, Good(m)
  PROVE  /\ Good(CancelGames(m)) /\ Busy(CancelGames(m), "tmr") = Busy(m, "tmr")
         /\ \A f \in {"game", "drop", "grid"} : ~ Busy(CancelGames(m), f)
<1> DEFINE m1 == Cancel(m, "game")
           m2 == Cancel(m1, "drop")
           m3 == Cancel(m2, "grid")
<1>1. Good(m1) /\ ~ Busy(m1, "game") /\ Busy(m1, "tmr") = Busy(m, "tmr")
  BY CancelGood DEF EngineNames
<1> HIDE DEF m1
<1>2. /\ Good(m2) /\ ~ Busy(m2, "game") /\ ~ Busy(m2, "drop")
      /\ Busy(m2, "tmr") = Busy(m, "tmr")
  BY <1>1, CancelGood DEF EngineNames
<1> HIDE DEF m2
<1>3. /\ Good(m3) /\ ~ Busy(m3, "game") /\ ~ Busy(m3, "drop") /\ ~ Busy(m3, "grid")
      /\ Busy(m3, "tmr") = Busy(m, "tmr")
  BY <1>2, CancelGood DEF EngineNames
<1>4. m3 = CancelGames(m)
  BY DEF m1, m2, CancelGames
<1> HIDE DEF m3
<1> QED BY <1>3, <1>4

LEMMA IdleMeans ==
  ASSUME NEW m, Good(m), \A f \in EngineNames : ~ Busy(m, f)
  PROVE  AllIdle(m)
  BY DEF AllIdle, Busy, EngineNames, Good, Owned

LEMMA CancelAllGood ==
  ASSUME NEW m, Good(m)
  PROVE  Good(CancelAll(m)) /\ AllIdle(CancelAll(m))
<1> DEFINE m1 == RingCancel(CancelGames(m))
           m2 == Cancel(m1, "tmr")
<1>1. Good(m1) /\ \A f \in {"game", "drop", "grid"} : ~ Busy(m1, f)
  BY CancelGamesGood, RingCancelGood DEF EngineNames
<1> HIDE DEF m1
<1>2. Good(m2) /\ \A f \in EngineNames : ~ Busy(m2, f)
  BY <1>1, CancelGood DEF EngineNames
<1>3. m2 = CancelAll(m)
  BY DEF m1, CancelAll
<1> HIDE DEF m2
<1> QED BY <1>2, <1>3, IdleMeans

(* What a handler may do to a state in which every engine is kept as it is.*)
LEMMA DressingGood ==
  ASSUME NEW m, Good(m), NEW on \in BOOLEAN
  PROVE  /\ Good(Painted(m)) /\ Good(EffectStop(m)) /\ Good(RingWrite(m)) /\ Good(RingPressed(m))
         /\ Good([m EXCEPT !.effect = "NONE"])
         /\ Good([m EXCEPT !.lock = on]) /\ Good([m EXCEPT !.stage = on])
<1> USE OnePlaysMeans DEF Good, NodeType, Owned, GridEffects
<1>1. Good(Painted(m))
  BY DEF Painted, Effects
<1>2. Good(EffectStop(m)) /\ Good([m EXCEPT !.effect = "NONE"])
  BY DEF EffectStop, Effects
<1>3. Good(RingWrite(m))
  BY DEF RingWrite, Effects
<1>4. Good(RingPressed(m))
  BY DEF RingPressed, RingPhases
<1>5. Good([m EXCEPT !.lock = on]) /\ Good([m EXCEPT !.stage = on])
  OBVIOUS
<1> QED BY <1>1, <1>2, <1>3, <1>4, <1>5

(* What a handler may do when every engine is idle.                        *)
LEMMA StartGood ==
  ASSUME NEW m, Good(m), AllIdle(m)
  PROVE  /\ Good([m EXCEPT !.game = "ARMED", !.effect = "GAME", !.lock = TRUE])
         /\ Good([m EXCEPT !.drop = "FORWARD", !.effect = "GAME", !.lock = TRUE])
         /\ Good([m EXCEPT !.effect = "SELF_TEST", !.lock = TRUE])
         /\ Good([m EXCEPT !.effect = "OPEN", !.lock = TRUE])
         /\ \A e \in {"OPEN", "CLOSED", "ERROR", "IDLE"} : Good([m EXCEPT !.effect = e])
         /\ Good([m EXCEPT !.ring = "STEADY"])
         /\ Good([m EXCEPT !.kd = TRUE])
<1> USE OnePlaysMeans DEF Good, NodeType, Owned, GridEffects, AllIdle
<1>1. Good([m EXCEPT !.game = "ARMED", !.effect = "GAME", !.lock = TRUE])
  BY DEF Effects, GameStates
<1>2. Good([m EXCEPT !.drop = "FORWARD", !.effect = "GAME", !.lock = TRUE])
  BY DEF Effects, DropPhases
<1>3. /\ Good([m EXCEPT !.effect = "SELF_TEST", !.lock = TRUE])
      /\ Good([m EXCEPT !.effect = "OPEN", !.lock = TRUE])
  BY DEF Effects
<1>4. \A e \in {"OPEN", "CLOSED", "ERROR", "IDLE"} : Good([m EXCEPT !.effect = e])
  BY DEF Effects
<1>5. Good([m EXCEPT !.ring = "STEADY"]) /\ Good([m EXCEPT !.kd = TRUE])
  BY DEF RingPhases
<1> QED BY <1>1, <1>2, <1>3, <1>4, <1>5

-----------------------------------------------------------------------------
(* The frames of the master.                                               *)

LEMMA AwakeGood ==
  ASSUME Good(node)
  PROVE  /\ Good(Awake) /\ Good(NoDisplay(Awake))
         /\ Good(CancelAll(Awake)) /\ AllIdle(CancelAll(Awake))
         /\ Good(CancelAll(NoDisplay(Awake))) /\ AllIdle(CancelAll(NoDisplay(Awake)))
<1>1. Good(Awake)
  BY ExitIdleGood DEF Awake
<1> HIDE DEF Awake
<1>2. Good(NoDisplay(Awake))
  BY <1>1, NoDisplayGood
<1> QED BY <1>1, <1>2, CancelAllGood

(* A display that is taken away leaves an idle node idle.                  *)
LEMMA NoDisplayIdle ==
  ASSUME NEW m, Good(m), AllIdle(m)
  PROVE  Good(NoDisplay(m)) /\ AllIdle(NoDisplay(m))
  BY NoDisplayGood, IdleMeans DEF AllIdle, Busy, EngineNames

LEMMA PaintFrames ==
  ASSUME Good(node),
         \/ SetColor \/ SetChannelColor \/ SetPixelColor \/ ClearAll \/ SetBrightness
         \/ \E on \in BOOLEAN : StageLock(on)
         \/ ActionRing \/ ActionRingOff \/ ActionStageRgb \/ SetKeyDisplay
         \/ SetPixelCount \/ ClearAddress \/ Query
  PROVE  Good(node')
<1> DEFINE a  == Awake
           d  == NoDisplay(Awake)
           ca == CancelAll(Awake)
           cd == CancelAll(NoDisplay(Awake))
<1>1. Good(a) /\ Good(d) /\ Good(ca) /\ Good(cd)
  BY AwakeGood
<1>2. Good(Painted(ca)) /\ Good(Painted(cd))
  <2>1. AllIdle(ca) /\ AllIdle(cd)
    BY AwakeGood
  <2> HIDE DEF ca, cd
  <2> QED BY <1>1, DressingGood
<1>3. AllIdle(Painted(ca)) /\ AllIdle(Painted(cd))
  <2>1. AllIdle(ca) /\ AllIdle(cd)
    BY AwakeGood
  <2> HIDE DEF ca, cd
  <2> QED BY <1>1, <2>1 DEF AllIdle, Painted, GridEffects, Good, NodeType
<1>4. /\ Good([Painted(cd) EXCEPT !.ring = "STEADY"])
      /\ Good([Painted(ca) EXCEPT !.kd = TRUE])
  <2> HIDE DEF ca, cd
  <2> QED BY <1>2, <1>3, StartGood
<1>5. /\ Good(RingWrite(a)) /\ Good(RingWrite(d)) /\ Good([ca EXCEPT !.effect = "NONE"])
      /\ Good(EffectStop(ca))
      /\ \A on \in BOOLEAN : Good([a EXCEPT !.lock = on]) /\ Good([a EXCEPT !.stage = on])
  <2> HIDE DEF a, d, ca
  <2> QED BY <1>1, DressingGood
<1>6. CASE SetColor \/ ClearAll
  BY <1>1, <1>2, <1>6 DEF SetColor, ClearAll, Handled
<1>7. CASE SetChannelColor
  BY <1>1, <1>2, <1>5, <1>7 DEF SetChannelColor, SetColor, Handled
<1>8. CASE SetPixelColor
  BY <1>2, <1>5, <1>8 DEF SetPixelColor, Handled
<1>9. CASE SetBrightness \/ ClearAddress \/ \E on \in BOOLEAN : StageLock(on)
  BY <1>5, <1>9 DEF SetBrightness, ClearAddress, StageLock, Handled
<1>10. CASE ActionRing \/ SetKeyDisplay
  BY <1>4, <1>10 DEF ActionRing, SetKeyDisplay, Handled
<1>11. CASE ActionRingOff \/ ActionStageRgb \/ Query
  BY <1>1, <1>2, <1>11 DEF ActionRingOff, ActionStageRgb, Query, Handled
<1>12. CASE SetPixelCount
  BY <1>5, <1>12 DEF SetPixelCount, Handled
<1> QED BY <1>6, <1>7, <1>8, <1>9, <1>10, <1>11, <1>12

LEMMA EffectFrames ==
  ASSUME Good(node),
         \/ \E e \in {"NONE", "OPEN", "CLOSED", "ERROR", "IDLE"} : PixelEffect(e)
         \/ \E on \in BOOLEAN : SelfTest(on)
         \/ GameWait \/ ActionFootMode \/ EnterBoot
  PROVE  Good(node')
<1>1. ASSUME NEW e \in {"NONE", "OPEN", "CLOSED", "ERROR", "IDLE"}, PixelEffect(e)
      PROVE  Good(node')
  <2> DEFINE l == [NoDisplay(Awake) EXCEPT !.lock = TRUE]
             m == CancelAll(l)
  <2>1. Good(l)
    BY AwakeGood, DressingGood
  <2> HIDE DEF l
  <2>2. Good(m) /\ AllIdle(m)
    BY <2>1, CancelAllGood
  <2>3. node' = IF e = "NONE" THEN EffectStop(m) ELSE [m EXCEPT !.effect = e]
    BY <1>1 DEF PixelEffect, Handled, l
  <2> HIDE DEF m
  <2>4. CASE e = "NONE"
    BY <2>2, <2>3, <2>4, DressingGood
  <2>5. CASE e # "NONE"
    BY <2>2, <2>3, <2>5, StartGood
  <2> QED BY <2>4, <2>5
<1>2. ASSUME NEW on \in BOOLEAN, SelfTest(on)
      PROVE  Good(node')
  <2> DEFINE m == CancelAll(Awake)
  <2>1. Good(m) /\ AllIdle(m)
    BY AwakeGood
  <2>2. node' = IF on THEN [m EXCEPT !.effect = "SELF_TEST", !.lock = TRUE] ELSE EffectStop(m)
    BY <1>2 DEF SelfTest, Handled
  <2> HIDE DEF m
  <2> QED BY <2>1, <2>2, DressingGood, StartGood
<1>3. CASE GameWait
  <2> DEFINE d == Cancel(Cancel(Awake, "tmr"), "grid")
             m == CancelAll(NoDisplay(d))
  <2>1. Good(Cancel(Awake, "tmr"))
    BY AwakeGood, CancelGood DEF EngineNames
  <2>2. Good(d)
    BY <2>1, CancelGood DEF EngineNames
  <2> HIDE DEF d
  <2>3. Good(m) /\ AllIdle(m)
    BY <2>2, NoDisplayGood, CancelAllGood
  <2>4. node' = [m EXCEPT !.effect = "OPEN", !.lock = TRUE]
    BY <1>3 DEF GameWait, Handled, d
  <2> HIDE DEF m
  <2> QED BY <2>3, <2>4, StartGood
<1>4. CASE ActionFootMode
  <2> DEFINE c == Cancel(CancelGames(Awake), "tmr")
             m == NoDisplay(c)
  <2>1. Good(c)
    BY AwakeGood, CancelGamesGood, CancelGood DEF EngineNames
  <2> HIDE DEF c
  <2>2. Good(m)
    BY <2>1, NoDisplayGood
  <2>3. node' = m \/ node' = RingCancel(m)
    BY <1>4 DEF ActionFootMode, Handled, c
  <2> HIDE DEF m
  <2> QED BY <2>2, <2>3, RingCancelGood
<1>5. CASE EnterBoot
  BY <1>5, AwakeGood DEF EnterBoot
<1> QED BY <1>1, <1>2, <1>3, <1>4, <1>5

LEMMA GameFrames ==
  ASSUME Good(node), GameArm \/ GameStart \/ GameFail \/ GameCancel
  PROVE  Good(node')
<1>1. CASE GameArm
  <2> DEFINE g  == Cancel(Awake, "grid")
             m0 == RingCancel(g)
             t  == Cancel(m0, "tmr")
             p  == Cancel(t, "drop")
             q  == Cancel(p, "grid")
             m1 == NoDisplay(q)
  <2>1. Good(g)
    BY AwakeGood, CancelGood DEF EngineNames
  <2> HIDE DEF g
  <2>2. Good(m0)
    BY <2>1, RingCancelGood
  <2>3. /\ node' = m0 \/ node' = [m1 EXCEPT !.game = "ARMED", !.effect = "GAME", !.lock = TRUE]
    BY <1>1 DEF GameArm, Handled, g
  <2> HIDE DEF m0
  <2>4. Good(t) /\ ~ Busy(t, "tmr")
    BY <2>2, CancelGood DEF EngineNames
  <2> HIDE DEF t
  <2>5. Good(p) /\ ~ Busy(p, "tmr") /\ ~ Busy(p, "drop")
    BY <2>4, CancelGood DEF EngineNames
  <2> HIDE DEF p
  <2>6. Good(q) /\ ~ Busy(q, "tmr") /\ ~ Busy(q, "drop") /\ ~ Busy(q, "grid")
    BY <2>5, CancelGood DEF EngineNames
  <2> HIDE DEF q
  <2>7. Good(m1) /\ ~ Busy(m1, "tmr") /\ ~ Busy(m1, "drop") /\ ~ Busy(m1, "grid")
    BY <2>6, NoDisplayGood DEF EngineNames
  <2> HIDE DEF m1
  <2>8. Good([m1 EXCEPT !.game = "ARMED", !.effect = "GAME", !.lock = TRUE])
    BY <2>7, OnePlaysMeans DEF Busy, Good, NodeType, Owned, GridEffects, Effects, GameStates
  <2> QED BY <2>2, <2>3, <2>8
<1>2. CASE GameStart
  <2> DEFINE a == Awake
  <2>1. Good(a)
    BY AwakeGood
  <2>2. a.game = "ARMED"
    BY <1>2 DEF GameStart, Awake, ExitIdleMode, EffectStop, Good, NodeType
  <2>3. node' = [a EXCEPT !.game = "ACTIVE", !.effect = "GAME", !.lock = TRUE]
    BY <1>2 DEF GameStart, Handled
  <2> HIDE DEF a
  <2> QED BY <2>1, <2>2, <2>3, OnePlaysMeans DEF Good, NodeType, Owned, GridEffects, Effects,
             GameStates
<1>3. CASE GameFail
  <2> DEFINE a == Awake
  <2>1. Good(a)
    BY AwakeGood
  <2>2. node' = [a EXCEPT !.game = "FAIL", !.effect = "GAME", !.lock = TRUE]
    BY <1>3 DEF GameFail, Handled
  <2> HIDE DEF a
  <2> QED BY <2>1, <2>2, OnePlaysMeans DEF Good, NodeType, Owned, GridEffects, Effects,
             GameStates
<1>4. CASE GameCancel
  BY <1>4, AwakeGood, CancelGamesGood DEF GameCancel, Handled
<1> QED BY <1>1, <1>2, <1>3, <1>4

LEMMA TimerFrames ==
  ASSUME Good(node), TimerKeyStart \/ VibronRing \/ TimerStop \/ SetTimerCount
  PROVE  Good(node')
<1>1. CASE TimerKeyStart
  <2> DEFINE d == NoDisplay(Awake)
             g == CancelGames(d)
             r == RingCancel(g)
             m == [r EXCEPT !.effect = "NONE"]
  <2>1. Good(d)
    BY AwakeGood
  <2>2. node' = d \/ node' = [m EXCEPT !.tmr = TRUE, !.armed = FALSE, !.phase = "RUNNING",
                                       !.lock = TRUE]
    BY <1>1 DEF TimerKeyStart, Handled
  <2> HIDE DEF d
  <2>3. Good(g) /\ \A f \in {"game", "drop", "grid"} : ~ Busy(g, f)
    BY <2>1, CancelGamesGood
  <2> HIDE DEF g
  <2>4. Good(r) /\ \A f \in {"game", "drop", "grid"} : ~ Busy(r, f)
    BY <2>3, RingCancelGood DEF EngineNames
  <2> HIDE DEF r
  <2>5. Good([m EXCEPT !.tmr = TRUE, !.armed = FALSE, !.phase = "RUNNING", !.lock = TRUE])
    BY <2>4, OnePlaysMeans DEF Busy, Good, NodeType, Owned, GridEffects, Effects, TmrPhases
  <2> QED BY <2>1, <2>2, <2>5
<1>2. CASE VibronRing
  <2> DEFINE a == Awake
  <2>1. Good(a)
    BY AwakeGood
  <2>2. node' = [a EXCEPT !.armed = TRUE]
    BY <1>2 DEF VibronRing, Handled
  <2> HIDE DEF a
  <2> QED BY <2>1, <2>2, OnePlaysMeans DEF Good, NodeType, Owned, GridEffects
<1>3. CASE TimerStop
  BY <1>3, AwakeGood, CancelGood DEF TimerStop, Handled, EngineNames
<1>4. CASE SetTimerCount
  <2> DEFINE a == Cancel(Awake, "tmr")
             b == Cancel(a, "drop")
  <2>1. Good(a)
    BY AwakeGood, CancelGood DEF EngineNames
  <2>2. node' = Cancel(b, "grid")
    BY <1>4 DEF SetTimerCount, Handled
  <2> HIDE DEF a
  <2>3. Good(b)
    BY <2>1, CancelGood DEF EngineNames
  <2> HIDE DEF b
  <2> QED BY <2>2, <2>3, CancelGood DEF EngineNames
<1> QED BY <1>1, <1>2, <1>3, <1>4

LEMMA DropAndGridFrames ==
  ASSUME Good(node),
         \/ DropArm \/ DropCancel \/ GridStop
         \/ \E mode \in {"SELECT", "SHOW"} : GridStart(mode)
  PROVE  Good(node')
<1>1. CASE DropArm
  <2> DEFINE c == CancelAll(Awake)
             m == NoDisplay(c)
  <2>1. Good(c) /\ AllIdle(c)
    BY AwakeGood
  <2>2. node' = [m EXCEPT !.drop = "FORWARD", !.effect = "GAME", !.lock = TRUE]
    BY <1>1 DEF DropArm, Handled
  <2> HIDE DEF c
  <2>3. Good(m) /\ AllIdle(m)
    BY <2>1, NoDisplayIdle
  <2> HIDE DEF m
  <2> QED BY <2>2, <2>3, StartGood
<1>2. CASE DropCancel \/ GridStop
  BY <1>2, AwakeGood, CancelGood DEF DropCancel, GridStop, Handled, EngineNames
<1>3. ASSUME NEW mode \in {"SELECT", "SHOW"}, GridStart(mode)
      PROVE  Good(node')
  <2> DEFINE g == Cancel(Awake, "game")
             p == Cancel(g, "drop")
             t == Cancel(p, "tmr")
             r == RingCancel(t)
             m == NoDisplay(r)
  <2>1. Good(g) /\ ~ Busy(g, "game")
    BY AwakeGood, CancelGood DEF EngineNames
  <2>2. node' = [m EXCEPT !.grid = mode, !.lock = TRUE,
                          !.effect = IF mode = "SELECT" THEN "GRID_SELECT" ELSE "GRID_SHOW"]
    BY <1>3 DEF GridStart, Handled
  <2> HIDE DEF g
  <2>3. Good(p) /\ ~ Busy(p, "game") /\ ~ Busy(p, "drop")
    BY <2>1, CancelGood DEF EngineNames
  <2> HIDE DEF p
  <2>4. Good(t) /\ ~ Busy(t, "game") /\ ~ Busy(t, "drop") /\ ~ Busy(t, "tmr")
    BY <2>3, CancelGood DEF EngineNames
  <2> HIDE DEF t
  <2>5. Good(r) /\ ~ Busy(r, "game") /\ ~ Busy(r, "drop") /\ ~ Busy(r, "tmr")
    BY <2>4, RingCancelGood DEF EngineNames
  <2> HIDE DEF r
  <2>6. Good(m) /\ ~ Busy(m, "game") /\ ~ Busy(m, "drop") /\ ~ Busy(m, "tmr")
    BY <2>5, NoDisplayGood DEF EngineNames
  <2> HIDE DEF m
  <2> QED BY <2>2, <2>6, OnePlaysMeans DEF Busy, Good, NodeType, Owned, GridEffects, GridModes,
             Effects
<1> QED BY <1>1, <1>2, <1>3

LEMMA FrameGood ==
  ASSUME Good(node), Frame
  PROVE  Good(node')
  BY PaintFrames, EffectFrames, GameFrames, TimerFrames, DropAndGridFrames, AtRestGood
     DEF Frame, LeaveOta, Restart

-----------------------------------------------------------------------------
(* The tasks of loop().                                                    *)

LEMMA TaskGood ==
  ASSUME Good(node), TaskGame \/ TaskTimerBar \/ TaskDrop \/ TaskKeyRing \/ TaskEffects
  PROVE  Good(node')
<1> USE OnePlaysMeans DEF Good, NodeType, Owned, GridEffects
<1>1. CASE TaskGame
  BY <1>1 DEF TaskGame, Turn, Quiet, GameStates
<1>2. CASE TaskTimerBar
  BY <1>2 DEF TaskTimerBar, Turn, Quiet, TmrPhases
<1>3. CASE TaskDrop
  BY <1>3 DEF TaskDrop, DropForward, DropBack, DropHit, Turn, Quiet, DropPhases
<1>4. CASE TaskKeyRing
  BY <1>4 DEF TaskKeyRing, Turn, Quiet, RingPhases
<1>5. CASE TaskEffects
  BY <1>5 DEF TaskEffects, Turn, Quiet
<1> QED BY <1>1, <1>2, <1>3, <1>4, <1>5

LEMMA EngineEndGood ==
  ASSUME NEW m, Good(m)
  PROVE  Good(GameFinish(m)) /\ Good(DropFinish(m)) /\ Good(GridFinish(m)) /\ Good(TmrFinish(m))
<1>1. /\ Good(Finish(m, "game")) /\ Good(Finish(m, "drop"))
      /\ Good(Finish(m, "grid")) /\ Good(Finish(m, "tmr"))
  BY FinishGood DEF EngineNames
<1> QED BY <1>1 DEF Finish

(* A press of the key, in whatever state it finds the node.                *)
LEMMA KeyPressGood ==
  ASSUME Good(node), KeyPress
  PROVE  Good(node')
<1>1. \/ node' \in {node, RingPressed(node), NoDisplay(node)}
      \/ node' = RingPressed([node EXCEPT !.phase = "HIT_FLASH"])
      \/ node.game = "ACTIVE" /\ node' = [node EXCEPT !.game = "HIT_BLANK"]
      \/ node.drop = "FORWARD" /\ node' = RingPressed(DropHit(node))
  BY DEF KeyPress, Pressed
<1>2. Good([node EXCEPT !.phase = "HIT_FLASH"])
  BY OnePlaysMeans DEF Good, NodeType, Owned, GridEffects, TmrPhases
<1>3. node.game = "ACTIVE" => Good([node EXCEPT !.game = "HIT_BLANK"])
  BY OnePlaysMeans DEF Good, NodeType, Owned, GridEffects, GameStates
<1>4. node.drop = "FORWARD" => Good(DropHit(node))
  BY OnePlaysMeans DEF DropHit, Good, NodeType, Owned, GridEffects, DropPhases
<1>5. Good(RingPressed(node)) /\ Good(NoDisplay(node))
  BY DressingGood, NoDisplayGood
<1> QED BY <1>1, <1>2, <1>3, <1>4, <1>5, DressingGood

(* The rest of a task: whatever the frames have left meanwhile.            *)
LEMMA ResumeGood ==
  ASSUME Good(node), Resume
  PROVE  Good(node')
<1>1. CASE cont = "tmrFlash"
  BY <1>1, OnePlaysMeans DEF Resume, Resumed, Good, NodeType, Owned, GridEffects, TmrPhases
<1>2. CASE cont = "touchWake"
  BY <1>2, KeyPressGood DEF Resume
<1>3. CASE cont \in {"gridPress", "ringPress", "fxError"}
  BY <1>3, EngineEndGood, DressingGood DEF Resume, Resumed
<1>4. CASE cont \notin {"tmrFlash", "touchWake", "gridPress", "ringPress", "fxError"}
  BY <1>4, EngineEndGood DEF Resume, Resumed
<1> QED BY <1>1, <1>2, <1>3, <1>4

LEMMA CancelFromGood ==
  ASSUME NEW m, Good(m), NEW k, CancelFrom(m, k)
  PROVE  Good(node')
<1>1. node' \in {[RingCancel(m) EXCEPT !.lock = FALSE], [m EXCEPT !.lock = FALSE],
                 RingCancel(m), m}
  BY DEF CancelFrom
<1>2. Good(RingCancel(m))
  BY RingCancelGood
<1>3. Good([RingCancel(m) EXCEPT !.lock = FALSE]) /\ Good([m EXCEPT !.lock = FALSE])
  BY <1>2, DressingGood
<1> QED BY <1>1, <1>2, <1>3

LEMMA LinkGood ==
  ASSUME Good(node), LinkLost \/ LinkResume
  PROVE  Good(node')
<1>1. CASE LinkLost
  BY <1>1, CancelFromGood DEF LinkLost
<1>2. CASE LinkResume
  <2>1. PICK i \in 1 .. 4 : CancelFrom(Finish(node, Engines[i]), i + 1)
    BY <1>2 DEF LinkResume
  <2>2. Engines[i] \in EngineNames
    BY DEF Engines, EngineNames
  <2>3. Good(Finish(node, Engines[i]))
    BY <2>2, FinishGood
  <2> QED BY <2>1, <2>3, CancelFromGood
<1> QED BY <1>1, <1>2

-----------------------------------------------------------------------------
(* The touch.                                                              *)

LEMMA TouchGood ==
  ASSUME Good(node), TouchPress \/ TouchRelease
  PROVE  Good(node')
<1>1. CASE TouchPress
  <2>1. CASE node.effect = "IDLE"
    BY <1>1, <2>1, AwakeGood DEF TouchPress, Pressed
  <2>2. CASE node.effect # "IDLE"
    BY <1>1, <2>2, KeyPressGood DEF TouchPress
  <2> QED BY <2>1, <2>2
<1>2. CASE TouchRelease
  BY <1>2 DEF TouchRelease
<1> QED BY <1>1, <1>2

-----------------------------------------------------------------------------
LEMMA GoodAlways == Spec => []Good(node)
<1>1. Init => Good(node)
  BY AtRestGood DEF Init
<1>2. ASSUME Good(node), [Next]_vars
      PROVE  Good(node')
  <2>1. CASE Next
    BY <1>2, <2>1, FrameGood, TaskGood, ResumeGood, LinkGood, TouchGood DEF Next
  <2>2. CASE UNCHANGED vars
    BY <1>2, <2>2 DEF vars
  <2> QED BY <1>2, <2>1, <2>2
<1>3. Good(node) /\ [Next]_vars => Good(node)'
  <2>1. Good(node)' <=> Good(node')
    BY DEF Good, NodeType, OnePlays, Plays, Busy, EngineNames, Owned
  <2> QED BY <1>2, <2>1
<1> QED BY <1>1, <1>3, PTL DEF Spec

(* One engine of a node plays at a time, however many frames arrive and in *)
(* whatever LED push they are handled: no command leaves two games that    *)
(* both listen to the one key and both draw the strips.                    *)
THEOREM OneEnginePlays == Spec => []OneEngineAtATime
<1>1. Good(node) => OneEngineAtATime
  <2> SUFFICES ASSUME Good(node)
               PROVE  OneEngineAtATime
    OBVIOUS
  <2> DEFINE S == {e \in {"game", "drop", "grid", "tmr"} :
                     Busy(node, e) /\ ~(e = "game" /\ node.game = "FAIL")}
  <2>1. \A e, f \in S : e = f
    BY DEF Good, OnePlays, Plays, EngineNames
  <2>2. CASE S = {}
    BY <2>2, FS_EmptySet DEF OneEngineAtATime
  <2>3. CASE S # {}
    <3>1. PICK e \in S : TRUE
      BY <2>3
    <3>2. S = {e}
      BY <2>1, <3>1
    <3>3. Cardinality(S) = 1
      BY <3>2, FS_Singleton
    <3> QED BY <3>3 DEF OneEngineAtATime
  <2> QED BY <2>2, <2>3
<1> QED BY <1>1, GoodAlways, PTL

(* The effect of an engine does not outlive the engine, whichever of the   *)
(* commands, tasks, touches or link losses ended it: the node is not left  *)
(* deaf, nor with the strips reserved for a game that is over.             *)
THEOREM EffectsEndWithEngines == Spec => []EffectsAreOwned
<1>1. Good(node) => EffectsAreOwned
  BY DEF Good, Owned, EffectsAreOwned
<1> QED BY <1>1, GoodAlways, PTL

-----------------------------------------------------------------------------
(***************************************************************************)
(* For any number of frames: the results of one play of a node agree, and  *)
(* the variables of the node keep their types.                             *)
(*                                                                         *)
(* A command that starts no engine can only end plays: for the fields the  *)
(* results depend on, the state it leaves is the one it found with some    *)
(* engines idle (Less).  A command that starts one forgets the results of  *)
(* its earlier play.  What is left are the tasks and the touch, which look *)
(* at the phase of a play before they tell its result.                     *)
(***************************************************************************)

Less(m, n) ==
  /\ n.game \in {m.game, "IDLE"}
  /\ n.drop \in {m.drop, "IDLE"}
  /\ n.phase \in {m.phase, "IDLE"}

ToldType == told \in [{"game", "tmr", "drop"} -> SUBSET Results]

(* A game that was told TIMEOUT is over when its last push is.             *)
GameResults ==
  /\ "KEY_HIT" \in told.game => node.game \notin {"ARMED", "ACTIVE"}
  /\ "TIMEOUT" \in told.game => node.game \notin {"ARMED", "ACTIVE"} \/ cont = "gameEnd"
  /\ ~({"KEY_HIT", "TIMEOUT"} \subseteq told.game)

TmrResults ==
  /\ {"KEY_HIT", "TIMEOUT"} \cap told.tmr # {} => node.phase # "RUNNING"
  /\ ~({"KEY_HIT", "TIMEOUT"} \subseteq told.tmr)

OneOutcome == ("DROP_HIT" \in told.drop) # ("DROP_TIMEOUT" \in told.drop)

DropResults ==
  /\ node.drop = "FORWARD" => {"DROP_HIT", "DROP_TIMEOUT", "DROP_END"} \cap told.drop = {}
  /\ node.drop \in {"END_DRAIN", "RETURN", "START_DRAIN"} => OneOutcome
  /\ "DROP_END" \in told.drop => OneOutcome

PlayInv == Good(node) /\ ToldType /\ GameResults /\ TmrResults /\ DropResults

(* The results and the push stay what they are.                            *)
SameTold == told' = told /\ cont' = cont

-----------------------------------------------------------------------------
(* The operators on the state of a node end plays and start none.          *)

LEMMA LessTransitive ==
  ASSUME NEW m, NEW n, NEW p, Less(m, n), Less(n, p)
  PROVE  Less(m, p)
  BY DEF Less

LEMMA CancelLess ==
  ASSUME NEW m, Good(m), NEW e \in EngineNames
  PROVE  Less(m, Finish(m, e)) /\ Less(m, Cancel(m, e))
<1>1. Less(m, Finish(m, e))
  BY DEF Less, Finish, GameFinish, DropFinish, GridFinish, TmrFinish, EngineNames, Good, NodeType
<1> QED BY <1>1 DEF Cancel, Less

LEMMA SmallLess ==
  ASSUME NEW m, Good(m)
  PROVE  Less(m, RingCancel(m)) /\ Less(m, NoDisplay(m)) /\ Less(m, ExitIdleMode(m))
         /\ Less(m, EffectStop(m)) /\ Less(m, Painted(m)) /\ Less(m, RingWrite(m))
         /\ Less(m, RingPressed(m))
         /\ Less(m, [m EXCEPT !.effect = "NONE"])
         /\ \A on \in BOOLEAN : Less(m, [m EXCEPT !.lock = on]) /\ Less(m, [m EXCEPT !.stage = on])
  BY DEF Less, RingCancel, NoDisplay, ExitIdleMode, EffectStop, Painted, RingWrite, RingPressed,
         Good, NodeType

LEMMA CancelGamesLess ==
  ASSUME NEW m, Good(m)
  PROVE  Less(m, CancelGames(m))
<1> DEFINE m1 == Cancel(m, "game")
           m2 == Cancel(m1, "drop")
           m3 == Cancel(m2, "grid")
<1>1. Good(m1) /\ Less(m, m1)
  BY CancelGood, CancelLess DEF EngineNames
<1>2. m3 = CancelGames(m)
  BY DEF CancelGames
<1> HIDE DEF m1
<1>3. Good(m2) /\ Less(m1, m2)
  BY <1>1, CancelGood, CancelLess DEF EngineNames
<1> HIDE DEF m2
<1>4. Less(m2, m3)
  BY <1>3, CancelLess DEF EngineNames
<1> HIDE DEF m3
<1> QED BY <1>1, <1>2, <1>3, <1>4, LessTransitive

LEMMA CancelAllLess ==
  ASSUME NEW m, Good(m)
  PROVE  Less(m, CancelAll(m))
<1> DEFINE m1 == CancelGames(m)
           m2 == RingCancel(m1)
           m3 == Cancel(m2, "tmr")
<1>1. Good(m1) /\ Less(m, m1)
  BY CancelGamesGood, CancelGamesLess
<1>2. m3 = CancelAll(m)
  BY DEF CancelAll
<1> HIDE DEF m1
<1>3. Good(m2) /\ Less(m1, m2)
  BY <1>1, RingCancelGood, SmallLess
<1> HIDE DEF m2
<1>4. Less(m2, m3)
  BY <1>3, CancelLess DEF EngineNames
<1> HIDE DEF m3
<1> QED BY <1>1, <1>2, <1>3, <1>4, LessTransitive

-----------------------------------------------------------------------------
(* The frames that start no engine.                                        *)

LEMMA AwakeLess ==
  ASSUME Good(node)
  PROVE  /\ Less(node, Awake) /\ Less(node, NoDisplay(Awake))
         /\ Less(node, CancelAll(Awake)) /\ Less(node, CancelAll(NoDisplay(Awake)))
<1>1. Good(Awake) /\ Less(node, Awake)
  BY AwakeGood, SmallLess DEF Awake
<1> HIDE DEF Awake
<1>2. Good(NoDisplay(Awake)) /\ Less(node, NoDisplay(Awake))
  BY <1>1, NoDisplayGood, SmallLess, LessTransitive
<1> QED BY <1>1, <1>2, CancelAllLess, LessTransitive

LEMMA PaintLess ==
  ASSUME Good(node),
         \/ SetColor \/ SetChannelColor \/ SetPixelColor \/ ClearAll \/ SetBrightness
         \/ \E on \in BOOLEAN : StageLock(on)
         \/ ActionRing \/ ActionRingOff \/ ActionStageRgb \/ SetKeyDisplay
         \/ SetPixelCount \/ ClearAddress \/ Query
  PROVE  Less(node, node') /\ SameTold
<1> DEFINE a  == Awake
           d  == NoDisplay(Awake)
           ca == CancelAll(Awake)
           cd == CancelAll(NoDisplay(Awake))
<1>1. /\ Good(a) /\ Less(node, a) /\ Good(d) /\ Less(node, d)
      /\ Good(ca) /\ Less(node, ca) /\ Good(cd) /\ Less(node, cd)
  BY AwakeGood, AwakeLess
<1>2. SameTold
  BY DEF SameTold, SetColor, SetChannelColor, SetPixelColor, ClearAll, SetBrightness, StageLock,
         ActionRing, ActionRingOff, ActionStageRgb, SetKeyDisplay, SetPixelCount, ClearAddress,
         Query, Handled
<1>3. \E m \in {a, d, ca, cd} :
        \/ node' \in {m, Painted(m), RingWrite(m), EffectStop(m), [m EXCEPT !.effect = "NONE"]}
        \/ \E on \in BOOLEAN : node' \in {[m EXCEPT !.lock = on], [m EXCEPT !.stage = on]}
        \/ node' = [Painted(m) EXCEPT !.ring = "STEADY"]
        \/ node' = [Painted(m) EXCEPT !.kd = TRUE]
  BY DEF SetColor, SetChannelColor, SetPixelColor, ClearAll, SetBrightness, StageLock,
         ActionRing, ActionRingOff, ActionStageRgb, SetKeyDisplay, SetPixelCount, ClearAddress,
         Query, Handled
<1> HIDE DEF a, d, ca, cd
<1>4. PICK m \in {a, d, ca, cd} :
        \/ node' \in {m, Painted(m), RingWrite(m), EffectStop(m), [m EXCEPT !.effect = "NONE"]}
        \/ \E on \in BOOLEAN : node' \in {[m EXCEPT !.lock = on], [m EXCEPT !.stage = on]}
        \/ node' = [Painted(m) EXCEPT !.ring = "STEADY"]
        \/ node' = [Painted(m) EXCEPT !.kd = TRUE]
  BY <1>3
<1>5. Good(m) /\ Less(node, m)
  BY <1>1
<1>6. /\ Less(m, [Painted(m) EXCEPT !.ring = "STEADY"])
      /\ Less(m, [Painted(m) EXCEPT !.kd = TRUE])
  BY <1>5 DEF Less, Painted, Good, NodeType
<1>7. /\ Less(m, m) /\ Less(m, Painted(m)) /\ Less(m, RingWrite(m)) /\ Less(m, EffectStop(m))
      /\ Less(m, [m EXCEPT !.effect = "NONE"])
      /\ \A on \in BOOLEAN : Less(m, [m EXCEPT !.lock = on]) /\ Less(m, [m EXCEPT !.stage = on])
  <2>1. Less(m, m)
    BY DEF Less
  <2> QED BY <2>1, <1>5, SmallLess
<1>8. Less(m, node')
  BY <1>4, <1>6, <1>7
<1> QED BY <1>2, <1>5, <1>8, LessTransitive

LEMMA EffectLess ==
  ASSUME Good(node),
         \/ \E e \in {"NONE", "OPEN", "CLOSED", "ERROR", "IDLE"} : PixelEffect(e)
         \/ \E on \in BOOLEAN : SelfTest(on)
         \/ GameWait \/ ActionFootMode \/ EnterBoot
  PROVE  Less(node, node') /\ SameTold
<1>1. SameTold
  BY DEF SameTold, PixelEffect, SelfTest, GameWait, ActionFootMode, EnterBoot, Handled
<1>2. ASSUME NEW e \in {"NONE", "OPEN", "CLOSED", "ERROR", "IDLE"}, PixelEffect(e)
      PROVE  Less(node, node')
  <2> DEFINE d == NoDisplay(Awake)
             l == [d EXCEPT !.lock = TRUE]
             m == CancelAll(l)
  <2>1. Good(d) /\ Less(node, d)
    BY AwakeGood, AwakeLess
  <2>2. node' = IF e = "NONE" THEN EffectStop(m) ELSE [m EXCEPT !.effect = e]
    BY <1>2 DEF PixelEffect, Handled
  <2> HIDE DEF d
  <2>3. Good(l) /\ Less(node, l)
    BY <2>1, DressingGood, SmallLess, LessTransitive
  <2> HIDE DEF l
  <2>4. Good(m) /\ Less(node, m)
    BY <2>3, CancelAllGood, CancelAllLess, LessTransitive
  <2> HIDE DEF m
  <2> QED BY <2>2, <2>4 DEF Less, EffectStop, Good, NodeType
<1>3. ASSUME NEW on \in BOOLEAN, SelfTest(on)
      PROVE  Less(node, node')
  <2> DEFINE m == CancelAll(Awake)
  <2>1. Good(m) /\ Less(node, m)
    BY AwakeGood, AwakeLess
  <2>2. node' = IF on THEN [m EXCEPT !.effect = "SELF_TEST", !.lock = TRUE] ELSE EffectStop(m)
    BY <1>3 DEF SelfTest, Handled
  <2> HIDE DEF m
  <2> QED BY <2>1, <2>2 DEF Less, EffectStop, Good, NodeType
<1>4. CASE GameWait
  <2> DEFINE t == Cancel(Awake, "tmr")
             g == Cancel(t, "grid")
             d == NoDisplay(g)
             m == CancelAll(d)
  <2>1. Good(t) /\ Less(node, t)
    <3>1. Good(Awake) /\ Less(node, Awake)
      BY AwakeGood, AwakeLess
    <3> HIDE DEF Awake
    <3> QED BY <3>1, CancelGood, CancelLess, LessTransitive DEF EngineNames
  <2>2. node' = [m EXCEPT !.effect = "OPEN", !.lock = TRUE]
    BY <1>4 DEF GameWait, Handled
  <2> HIDE DEF t
  <2>3. Good(g) /\ Less(node, g)
    BY <2>1, CancelGood, CancelLess, LessTransitive DEF EngineNames
  <2> HIDE DEF g
  <2>4. Good(d) /\ Less(node, d)
    BY <2>3, NoDisplayGood, SmallLess, LessTransitive
  <2> HIDE DEF d
  <2>5. Good(m) /\ Less(node, m)
    BY <2>4, CancelAllGood, CancelAllLess, LessTransitive
  <2> HIDE DEF m
  <2> QED BY <1>1, <2>2, <2>5 DEF Less, Good, NodeType
<1>5. CASE ActionFootMode
  <2> DEFINE g == CancelGames(Awake)
             c == Cancel(g, "tmr")
             m == NoDisplay(c)
  <2>1. Good(g) /\ Less(node, g)
    <3>1. Good(Awake) /\ Less(node, Awake)
      BY AwakeGood, AwakeLess
    <3> HIDE DEF Awake
    <3> QED BY <3>1, CancelGamesGood, CancelGamesLess, LessTransitive
  <2>2. node' = m \/ node' = RingCancel(m)
    BY <1>5 DEF ActionFootMode, Handled
  <2> HIDE DEF g
  <2>3. Good(c) /\ Less(node, c)
    BY <2>1, CancelGood, CancelLess, LessTransitive DEF EngineNames
  <2> HIDE DEF c
  <2>4. Good(m) /\ Less(node, m)
    BY <2>3, NoDisplayGood, SmallLess, LessTransitive
  <2> HIDE DEF m
  <2>5. Less(m, RingCancel(m))
    BY <2>4, SmallLess
  <2> QED BY <1>1, <2>2, <2>4, <2>5, LessTransitive
<1>6. CASE EnterBoot
  BY <1>1, <1>6, AwakeLess DEF EnterBoot
<1> QED BY <1>1, <1>2, <1>3, <1>4, <1>5, <1>6

(* The grid is an engine that tells no results: starting it is here, too.  *)
LEMMA EndLess ==
  ASSUME Good(node),
         \/ GameCancel \/ VibronRing \/ TimerStop \/ SetTimerCount \/ DropCancel \/ GridStop
         \/ \E mode \in {"SELECT", "SHOW"} : GridStart(mode)
  PROVE  Less(node, node') /\ SameTold
<1>1. SameTold
  BY DEF SameTold, GameCancel, VibronRing, TimerStop, SetTimerCount, DropCancel, GridStop,
         GridStart, Handled
<1>2. Good(Awake) /\ Less(node, Awake)
  BY AwakeGood, AwakeLess
<1>3. CASE GameCancel \/ VibronRing \/ TimerStop \/ DropCancel \/ GridStop
  <2>1. \/ node' \in {CancelGames(Awake), [Awake EXCEPT !.armed = TRUE]}
        \/ \E e \in EngineNames : node' = Cancel(Awake, e)
    BY <1>3 DEF GameCancel, VibronRing, TimerStop, DropCancel, GridStop, Handled, EngineNames
  <2> HIDE DEF Awake
  <2>2. Less(Awake, [Awake EXCEPT !.armed = TRUE])
    BY <1>2 DEF Less, Good, NodeType
  <2>3. Less(Awake, node')
    BY <1>2, <2>1, <2>2, CancelGamesLess, CancelLess
  <2> QED BY <1>1, <1>2, <2>3, LessTransitive
<1>4. CASE SetTimerCount
  <2> DEFINE t == Cancel(Awake, "tmr")
             p == Cancel(t, "drop")
  <2>1. node' = Cancel(p, "grid")
    BY <1>4 DEF SetTimerCount, Handled
  <2> HIDE DEF Awake
  <2>2. Good(t) /\ Less(node, t)
    BY <1>2, CancelGood, CancelLess, LessTransitive DEF EngineNames
  <2> HIDE DEF t
  <2>3. Good(p) /\ Less(node, p)
    BY <2>2, CancelGood, CancelLess, LessTransitive DEF EngineNames
  <2> HIDE DEF p
  <2> QED BY <1>1, <2>1, <2>3, CancelLess, LessTransitive DEF EngineNames
<1>5. ASSUME NEW mode \in {"SELECT", "SHOW"}, GridStart(mode)
      PROVE  Less(node, node')
  <2> DEFINE g == Cancel(Awake, "game")
             p == Cancel(g, "drop")
             t == Cancel(p, "tmr")
             r == RingCancel(t)
             m == NoDisplay(r)
  <2>1. node' = [m EXCEPT !.grid = mode, !.lock = TRUE,
                          !.effect = IF mode = "SELECT" THEN "GRID_SELECT" ELSE "GRID_SHOW"]
    BY <1>5 DEF GridStart, Handled
  <2> HIDE DEF Awake
  <2>2. Good(g) /\ Less(node, g)
    BY <1>2, CancelGood, CancelLess, LessTransitive DEF EngineNames
  <2> HIDE DEF g
  <2>3. Good(p) /\ Less(node, p)
    BY <2>2, CancelGood, CancelLess, LessTransitive DEF EngineNames
  <2> HIDE DEF p
  <2>4. Good(t) /\ Less(node, t)
    BY <2>3, CancelGood, CancelLess, LessTransitive DEF EngineNames
  <2> HIDE DEF t
  <2>5. Good(r) /\ Less(node, r)
    BY <2>4, RingCancelGood, SmallLess, LessTransitive
  <2> HIDE DEF r
  <2>6. Good(m) /\ Less(node, m)
    BY <2>5, NoDisplayGood, SmallLess, LessTransitive
  <2> HIDE DEF m
  <2> QED BY <2>1, <2>6 DEF Less, Good, NodeType
<1> QED BY <1>1, <1>3, <1>4, <1>5

-----------------------------------------------------------------------------
(* What the frames do to the results.                                      *)

LEMMA EndingKeeps ==
  ASSUME PlayInv, Good(node'), Less(node, node'), SameTold
  PROVE  PlayInv'
<1>1. ToldType' /\ (Good(node))'
  BY DEF PlayInv, SameTold, ToldType, Good, NodeType, OnePlays, Plays, Busy, EngineNames, Owned
<1>2. GameResults'
  BY DEF PlayInv, SameTold, GameResults, Less
<1>3. TmrResults'
  BY DEF PlayInv, SameTold, TmrResults, Less
<1>4. DropResults'
  BY DEF PlayInv, SameTold, DropResults, OneOutcome, Less
<1> QED BY <1>1, <1>2, <1>3, <1>4 DEF PlayInv

(* The results of the engine that is started are forgotten, and the other  *)
(* plays are at most ended.                                                *)
LEMMA StartKeeps ==
  ASSUME PlayInv, Good(node'), cont' = cont, NEW e \in {"game", "tmr", "drop"},
         told' = Started(e),
         e # "game" => node'.game \in {node.game, "IDLE"},
         e # "tmr" => node'.phase \in {node.phase, "IDLE"},
         IF e = "drop" THEN node'.drop = "FORWARD" ELSE node'.drop \in {node.drop, "IDLE"}
  PROVE  PlayInv'
<1>1. ToldType
  BY DEF PlayInv
<1>2. /\ told'[e] = {}
      /\ \A f \in {"game", "tmr", "drop"} \ {e} : told'[f] = told[f]
      /\ ToldType'
  BY <1>1 DEF ToldType, Started
<1>3. (Good(node))'
  BY DEF Good, NodeType, OnePlays, Plays, Busy, EngineNames, Owned
<1>4. GameResults'
  <2>1. CASE e = "game"
    BY <1>2, <2>1 DEF GameResults
  <2>2. CASE e # "game"
    BY <1>2, <2>2 DEF PlayInv, GameResults
  <2> QED BY <2>1, <2>2
<1>5. TmrResults'
  <2>1. CASE e = "tmr"
    BY <1>2, <2>1 DEF TmrResults
  <2>2. CASE e # "tmr"
    BY <1>2, <2>2 DEF PlayInv, TmrResults
  <2> QED BY <2>1, <2>2
<1>6. DropResults'
  <2>1. CASE e = "drop"
    BY <1>2, <2>1 DEF DropResults, OneOutcome
  <2>2. CASE e # "drop"
    BY <1>2, <2>2 DEF PlayInv, DropResults, OneOutcome
  <2> QED BY <2>1, <2>2
<1> QED BY <1>2, <1>3, <1>4, <1>5, <1>6 DEF PlayInv

LEMMA GameFramesKeep ==
  ASSUME PlayInv, GameArm \/ GameStart \/ GameFail
  PROVE  PlayInv'
<1>1. Good(node) /\ Good(node')
  BY GameFrames DEF PlayInv
<1>2. Good(Awake) /\ Less(node, Awake)
  BY <1>1, AwakeGood, AwakeLess
<1>3. CASE GameArm
  <2> DEFINE g  == Cancel(Awake, "grid")
             m0 == RingCancel(g)
             t  == Cancel(m0, "tmr")
             p  == Cancel(t, "drop")
             q  == Cancel(p, "grid")
             m1 == NoDisplay(q)
  <2>1. cont' = cont
        /\ \/ node' = m0 /\ told' = told
           \/ /\ node' = [m1 EXCEPT !.game = "ARMED", !.effect = "GAME", !.lock = TRUE]
              /\ told' = Started("game")
    BY <1>3 DEF GameArm, Handled
  <2> HIDE DEF Awake
  <2>2. Good(g) /\ Less(node, g)
    BY <1>2, CancelGood, CancelLess, LessTransitive DEF EngineNames
  <2> HIDE DEF g
  <2>3. Good(m0) /\ Less(node, m0)
    BY <2>2, RingCancelGood, SmallLess, LessTransitive
  <2> HIDE DEF m0
  <2>4. Good(t) /\ Less(node, t)
    BY <2>3, CancelGood, CancelLess, LessTransitive DEF EngineNames
  <2> HIDE DEF t
  <2>5. Good(p) /\ Less(node, p)
    BY <2>4, CancelGood, CancelLess, LessTransitive DEF EngineNames
  <2> HIDE DEF p
  <2>6. Good(q) /\ Less(node, q)
    BY <2>5, CancelGood, CancelLess, LessTransitive DEF EngineNames
  <2> HIDE DEF q
  <2>7. Good(m1) /\ Less(node, m1)
    BY <2>6, NoDisplayGood, SmallLess, LessTransitive
  <2> HIDE DEF m1
  <2>8. CASE node' = m0 /\ told' = told
    BY <1>1, <2>1, <2>3, <2>8, EndingKeeps DEF SameTold
  <2>9. CASE /\ node' = [m1 EXCEPT !.game = "ARMED", !.effect = "GAME", !.lock = TRUE]
             /\ told' = Started("game")
    <3>1. node'.drop \in {node.drop, "IDLE"} /\ node'.phase \in {node.phase, "IDLE"}
      BY <2>7, <2>9 DEF Less, Good, NodeType
    <3> QED BY <1>1, <2>1, <2>9, <3>1, StartKeeps
  <2> QED BY <2>1, <2>8, <2>9
<1>4. CASE GameStart
  <2>1. /\ node.game = "ARMED" /\ told' = told /\ cont' = cont
        /\ node' = [Awake EXCEPT !.game = "ACTIVE", !.effect = "GAME", !.lock = TRUE]
    BY <1>4 DEF GameStart, Handled
  <2> HIDE DEF Awake
  <2>2. node'.drop \in {node.drop, "IDLE"} /\ node'.phase \in {node.phase, "IDLE"}
    BY <1>2, <2>1 DEF Less, Good, NodeType
  <2>3. ToldType' /\ (Good(node))'
    BY <1>1, <2>1 DEF PlayInv, ToldType, Good, NodeType, OnePlays, Plays, Busy, EngineNames, Owned
  <2>4. GameResults'
    BY <2>1 DEF PlayInv, GameResults
  <2>5. TmrResults'
    BY <2>1, <2>2 DEF PlayInv, TmrResults
  <2>6. DropResults'
    BY <2>1, <2>2 DEF PlayInv, DropResults, OneOutcome
  <2> QED BY <2>3, <2>4, <2>5, <2>6 DEF PlayInv
<1>5. CASE GameFail
  <2>1. /\ told' = Started("game") /\ cont' = cont
        /\ node' = [Awake EXCEPT !.game = "FAIL", !.effect = "GAME", !.lock = TRUE]
    BY <1>5 DEF GameFail, Handled
  <2> HIDE DEF Awake
  <2>2. node'.drop \in {node.drop, "IDLE"} /\ node'.phase \in {node.phase, "IDLE"}
    BY <1>2, <2>1 DEF Less, Good, NodeType
  <2> QED BY <1>1, <2>1, <2>2, StartKeeps
<1> QED BY <1>3, <1>4, <1>5

LEMMA TimerKeyStartKeeps ==
  ASSUME PlayInv, TimerKeyStart
  PROVE  PlayInv'
<1> DEFINE d == NoDisplay(Awake)
           g == CancelGames(d)
           r == RingCancel(g)
           m == [r EXCEPT !.effect = "NONE"]
<1>1. Good(node) /\ Good(node')
  BY TimerFrames DEF PlayInv
<1>2. Good(d) /\ Less(node, d)
  BY <1>1, AwakeGood, AwakeLess
<1>3. cont' = cont
      /\ \/ node' = d /\ told' = told
         \/ /\ node' = [m EXCEPT !.tmr = TRUE, !.armed = FALSE, !.phase = "RUNNING", !.lock = TRUE]
            /\ told' = Started("tmr")
  BY DEF TimerKeyStart, Handled
<1> HIDE DEF d
<1>4. Good(g) /\ Less(node, g)
  BY <1>2, CancelGamesGood, CancelGamesLess, LessTransitive
<1> HIDE DEF g
<1>5. Good(r) /\ Less(node, r)
  BY <1>4, RingCancelGood, SmallLess, LessTransitive
<1> HIDE DEF r
<1>6. CASE node' = d /\ told' = told
  BY <1>1, <1>2, <1>3, <1>6, EndingKeeps DEF SameTold
<1>7. CASE /\ node' = [m EXCEPT !.tmr = TRUE, !.armed = FALSE, !.phase = "RUNNING", !.lock = TRUE]
           /\ told' = Started("tmr")
  <2>1. node'.game \in {node.game, "IDLE"} /\ node'.drop \in {node.drop, "IDLE"}
    BY <1>5, <1>7 DEF Less, Good, NodeType
  <2> QED BY <1>1, <1>3, <1>7, <2>1, StartKeeps
<1> QED BY <1>3, <1>6, <1>7

LEMMA DropArmKeeps ==
  ASSUME PlayInv, DropArm
  PROVE  PlayInv'
<1> DEFINE c == CancelAll(Awake)
           m == NoDisplay(c)
<1>1. Good(node) /\ Good(node')
  BY DropAndGridFrames DEF PlayInv
<1>2. Good(c) /\ Less(node, c)
  BY <1>1, AwakeGood, AwakeLess
<1>3. /\ node' = [m EXCEPT !.drop = "FORWARD", !.effect = "GAME", !.lock = TRUE]
      /\ told' = Started("drop") /\ cont' = cont
  BY DEF DropArm, Handled
<1> HIDE DEF c
<1>4. Good(m) /\ Less(node, m)
  BY <1>2, NoDisplayGood, SmallLess, LessTransitive
<1> HIDE DEF m
<1>5. /\ node'.drop = "FORWARD"
      /\ node'.game \in {node.game, "IDLE"} /\ node'.phase \in {node.phase, "IDLE"}
  BY <1>3, <1>4 DEF Less, Good, NodeType
<1> QED BY <1>1, <1>3, <1>5, StartKeeps

LEMMA RestartKeeps ==
  ASSUME Restart
  PROVE  PlayInv'
<1>1. (Good(node))'
  BY AtRestGood DEF Restart, Good, NodeType, OnePlays, Plays, Busy, EngineNames, Owned
<1>2. /\ told'.game = {} /\ told'.tmr = {} /\ told'.drop = {} /\ ToldType'
      /\ node'.drop = "IDLE"
  BY DEF Restart, Silence, AtRest, ToldType
<1> QED BY <1>1, <1>2 DEF PlayInv, GameResults, TmrResults, DropResults, OneOutcome

LEMMA FrameKeeps ==
  ASSUME PlayInv, Frame
  PROVE  PlayInv'
<1>1. Good(node) /\ Good(node')
  BY FrameGood DEF PlayInv
<1>2. CASE GameArm \/ GameStart \/ GameFail \/ TimerKeyStart \/ DropArm \/ Restart
  BY <1>2, GameFramesKeep, TimerKeyStartKeeps, DropArmKeeps, RestartKeeps
<1>3. CASE LeaveOta
  BY <1>1, <1>3, EndingKeeps DEF LeaveOta, Less, SameTold
<1>4. CASE ~(GameArm \/ GameStart \/ GameFail \/ TimerKeyStart \/ DropArm \/ Restart \/ LeaveOta)
  <2>1. Less(node, node') /\ SameTold
    BY <1>1, <1>4, PaintLess, EffectLess, EndLess DEF Frame
  <2> QED BY <1>1, <2>1, EndingKeeps
<1> QED BY <1>2, <1>3, <1>4

-----------------------------------------------------------------------------
(* Tasks, pushes and the touch: the result is told in the phase it belongs *)
(* to, and the play leaves that phase.                                     *)

(* A step that tells something about engine e.                             *)
Tells(e, results) == told' = [told EXCEPT ![e] = @ \cup results]

LEMMA TellsMeans ==
  ASSUME ToldType, NEW e \in {"game", "tmr", "drop"}, NEW results \in SUBSET Results,
         Tells(e, results)
  PROVE  /\ ToldType' /\ told'[e] = told[e] \cup results
         /\ \A f \in {"game", "tmr", "drop"} \ {e} : told'[f] = told[f]
  BY DEF ToldType, Tells

(* Nothing that PlayInv speaks of is told, and plays are at most ended.    *)
LEMMA SilentKeeps ==
  ASSUME PlayInv, Good(node'), NEW e \in {"game", "tmr", "drop"},
         NEW results \in SUBSET {"SUCCESS_END", "FAIL_END", "WRONG_KEY", "DROP_ACTIVE", "DROP_MISS"},
         Tells(e, results),
         node'.game = node.game \/ node'.game \notin {"ARMED", "ACTIVE"},
         cont = "gameEnd" => cont' = "gameEnd" \/ node'.game = "IDLE",
         node'.phase = node.phase \/ node'.phase # "RUNNING",
         \/ node'.drop \in {node.drop, "IDLE"}
         \/ /\ node.drop \in {"END_DRAIN", "RETURN", "START_DRAIN"}
            /\ node'.drop \in {"END_DRAIN", "RETURN", "START_DRAIN"}
  PROVE  PlayInv'
<1>1. /\ ToldType' /\ told'[e] = told[e] \cup results
      /\ \A f \in {"game", "tmr", "drop"} \ {e} : told'[f] = told[f]
  <2>1. results \in SUBSET Results
    BY DEF Results
  <2> QED BY <2>1, TellsMeans DEF PlayInv
<1>2. \A f \in {"game", "tmr", "drop"} :
        \A r \in {"KEY_HIT", "TIMEOUT", "DROP_HIT", "DROP_TIMEOUT", "DROP_END"} :
          (r \in told'[f]) <=> (r \in told[f])
  BY <1>1
<1>3. (Good(node))'
  BY DEF Good, NodeType, OnePlays, Plays, Busy, EngineNames, Owned
<1>4. GameResults'
  BY <1>2 DEF PlayInv, GameResults
<1>5. TmrResults'
  BY <1>2 DEF PlayInv, TmrResults
<1>6. OneOutcome' <=> OneOutcome
  BY <1>2 DEF OneOutcome
<1>7. DropResults'
  BY <1>2, <1>6 DEF PlayInv, DropResults
<1> QED BY <1>1, <1>3, <1>4, <1>5, <1>7 DEF PlayInv

LEMMA GameTaskKeeps ==
  ASSUME PlayInv, TaskGame
  PROVE  PlayInv'
<1>1. Good(node) /\ Good(node') /\ cont = "none"
  BY TaskGood DEF PlayInv, TaskGame, Turn, Quiet, Loop
<1>2. CASE node.game \in {"ARMED", "ACTIVE"}
  <2>1. Tells("game", {"TIMEOUT"}) /\ node' = node /\ cont' = "gameEnd"
    BY <1>2 DEF TaskGame, Turn, Quiet, Tells
  <2>2. /\ ToldType' /\ told'.game = told.game \cup {"TIMEOUT"}
        /\ told'.tmr = told.tmr /\ told'.drop = told.drop
    BY <2>1, TellsMeans DEF PlayInv, Results
  <2>3. GameResults'
    BY <1>2, <2>1, <2>2 DEF PlayInv, GameResults
  <2>4. TmrResults' /\ DropResults'
    BY <2>1, <2>2 DEF PlayInv, TmrResults, DropResults, OneOutcome
  <2>5. (Good(node))'
    BY <2>1, <1>1 DEF Good, NodeType, OnePlays, Plays, Busy, EngineNames, Owned
  <2> QED BY <2>2, <2>3, <2>4, <2>5 DEF PlayInv
<1>3. CASE node.game \notin {"ARMED", "ACTIVE"}
  <2>1. \E results \in SUBSET {"SUCCESS_END", "FAIL_END"} : Tells("game", results)
    BY <1>3 DEF TaskGame, Turn, Quiet, Tells
  <2>2. /\ node'.phase = node.phase /\ node'.drop = node.drop
        /\ node'.game = node.game \/ node'.game \in {"HIT_FLASH", "REVERSE"}
    BY <1>1, <1>3 DEF TaskGame, Turn, Quiet, Good, NodeType
  <2> QED BY <1>1, <2>1, <2>2, SilentKeeps
<1> QED BY <1>2, <1>3

LEMMA TimerTaskKeeps ==
  ASSUME PlayInv, TaskTimerBar
  PROVE  PlayInv'
<1>1. Good(node) /\ Good(node') /\ cont = "none"
  BY TaskGood DEF PlayInv, TaskTimerBar, Turn, Quiet, Loop
<1>2. CASE node.phase = "RUNNING"
  <2>1. Tells("tmr", {"TIMEOUT"}) /\ node' = [node EXCEPT !.phase = "TIMEOUT_FADE"]
    BY <1>2 DEF TaskTimerBar, Turn, Quiet, Tells
  <2>2. /\ ToldType' /\ told'.tmr = told.tmr \cup {"TIMEOUT"}
        /\ told'.game = told.game /\ told'.drop = told.drop
    BY <2>1, TellsMeans DEF PlayInv, Results
  <2>3. node'.phase = "TIMEOUT_FADE" /\ node'.game = node.game /\ node'.drop = node.drop
    BY <2>1, <1>1 DEF Good, NodeType
  <2>4. TmrResults'
    BY <1>2, <2>2, <2>3 DEF PlayInv, TmrResults
  <2>5. GameResults' /\ DropResults'
    BY <1>1, <2>2, <2>3 DEF PlayInv, GameResults, DropResults, OneOutcome
  <2>6. (Good(node))'
    BY <1>1 DEF Good, NodeType, OnePlays, Plays, Busy, EngineNames, Owned
  <2> QED BY <2>2, <2>4, <2>5, <2>6 DEF PlayInv
<1>3. CASE node.phase # "RUNNING"
  <2>1. Tells("game", {}) /\ node' = node
    BY <1>3 DEF TaskTimerBar, Turn, Quiet, Tells
  <2> QED BY <1>1, <2>1, SilentKeeps
<1> QED BY <1>2, <1>3

LEMMA DropTaskKeeps ==
  ASSUME PlayInv, TaskDrop
  PROVE  PlayInv'
<1>1. Good(node) /\ Good(node') /\ cont = "none"
  BY TaskGood DEF PlayInv, TaskDrop, DropForward, DropBack, Turn, Quiet, Loop
<1>2. CASE DropForward
  <2>1. node.drop = "FORWARD"
    BY <1>2 DEF DropForward
  <2>2. \/ /\ Tells("drop", {"DROP_ACTIVE", "DROP_HIT"}) /\ node' = DropHit(node)
        \/ /\ Tells("drop", {"DROP_ACTIVE"}) /\ node' = node
        \/ /\ Tells("drop", {"DROP_ACTIVE", "DROP_TIMEOUT"})
           /\ node' = [node EXCEPT !.drop = "END_DRAIN"]
    BY <1>2 DEF DropForward, Turn, Tells
  <2>3. CASE Tells("drop", {"DROP_ACTIVE"}) /\ node' = node
    BY <1>1, <2>3, SilentKeeps
  <2>4. CASE \/ Tells("drop", {"DROP_ACTIVE", "DROP_HIT"}) /\ node' = DropHit(node)
             \/ /\ Tells("drop", {"DROP_ACTIVE", "DROP_TIMEOUT"})
                /\ node' = [node EXCEPT !.drop = "END_DRAIN"]
    <3>1. PICK r \in {"DROP_HIT", "DROP_TIMEOUT"} : Tells("drop", {"DROP_ACTIVE", r})
      BY <2>4
    <3>2. /\ ToldType' /\ told'.drop = told.drop \cup {"DROP_ACTIVE", r}
          /\ told'.game = told.game /\ told'.tmr = told.tmr
      BY <3>1, TellsMeans DEF PlayInv, Results
    <3>3. /\ node'.phase = node.phase /\ node'.game = node.game
          /\ node'.drop \in {"RETURN", "END_DRAIN"}
      BY <1>1, <2>4 DEF DropHit, Good, NodeType
    <3>4. {"DROP_HIT", "DROP_TIMEOUT", "DROP_END"} \cap told.drop = {}
      BY <2>1 DEF PlayInv, DropResults
    <3>5. OneOutcome'
      BY <3>2, <3>4 DEF OneOutcome
    <3>6. DropResults'
      BY <3>3, <3>5 DEF DropResults
    <3>7. GameResults' /\ TmrResults'
      BY <1>1, <3>2, <3>3 DEF PlayInv, GameResults, TmrResults
    <3>8. (Good(node))'
      BY <1>1 DEF Good, NodeType, OnePlays, Plays, Busy, EngineNames, Owned
    <3> QED BY <3>2, <3>6, <3>7, <3>8 DEF PlayInv
  <2> QED BY <2>2, <2>3, <2>4
<1>3. CASE DropBack
  <2>1. /\ node.drop \in {"END_DRAIN", "RETURN", "START_DRAIN"}
        /\ \/ /\ Tells("game", {})
              /\ node' \in {[node EXCEPT !.drop = "RETURN"], [node EXCEPT !.drop = "START_DRAIN"]}
           \/ Tells("drop", {"DROP_END"}) /\ node' = node
    BY <1>3 DEF DropBack, Turn, Quiet, Tells
  <2>2. CASE /\ Tells("game", {})
             /\ node' \in {[node EXCEPT !.drop = "RETURN"], [node EXCEPT !.drop = "START_DRAIN"]}
    <3>1. /\ node'.phase = node.phase /\ node'.game = node.game
          /\ node'.drop \in {"RETURN", "START_DRAIN"}
      BY <1>1, <2>2 DEF Good, NodeType
    <3> QED BY <1>1, <2>1, <2>2, <3>1, SilentKeeps
  <2>3. CASE Tells("drop", {"DROP_END"}) /\ node' = node
    <3>1. /\ ToldType' /\ told'.drop = told.drop \cup {"DROP_END"}
          /\ told'.game = told.game /\ told'.tmr = told.tmr
      BY <2>3, TellsMeans DEF PlayInv, Results
    <3>2. OneOutcome
      BY <2>1 DEF PlayInv, DropResults
    <3>3. OneOutcome'
      BY <3>1, <3>2 DEF OneOutcome
    <3>4. DropResults'
      BY <2>1, <2>3, <3>3 DEF DropResults
    <3>5. GameResults' /\ TmrResults'
      BY <1>1, <2>3, <3>1 DEF PlayInv, GameResults, TmrResults
    <3>6. (Good(node))'
      BY <1>1 DEF Good, NodeType, OnePlays, Plays, Busy, EngineNames, Owned
    <3> QED BY <3>1, <3>4, <3>5, <3>6 DEF PlayInv
  <2> QED BY <2>1, <2>2, <2>3
<1> QED BY <1>2, <1>3 DEF TaskDrop

LEMMA OtherTasksKeep ==
  ASSUME PlayInv, TaskKeyRing \/ TaskEffects
  PROVE  PlayInv'
<1>1. Good(node) /\ Good(node') /\ cont = "none" /\ Tells("game", {})
  BY TaskGood DEF PlayInv, TaskKeyRing, TaskEffects, Turn, Quiet, Loop, Tells
<1>2. node'.game = node.game /\ node'.phase = node.phase /\ node'.drop = node.drop
  BY <1>1 DEF TaskKeyRing, TaskEffects, Turn, Quiet, Good, NodeType
<1> QED BY <1>1, <1>2, SilentKeeps

(* A press looks at the phase of a play when the pushes before it are over.*)
LEMMA KeyPressKeeps ==
  ASSUME PlayInv, KeyPress, cont # "gameEnd"
  PROVE  PlayInv'
<1>1. Good(node) /\ Good(node')
  BY KeyPressGood DEF PlayInv
<1>2. \/ /\ \E results \in SUBSET {"WRONG_KEY"} : Tells("game", results)
         /\ node' \in {node, RingPressed(node), NoDisplay(node)}
      \/ Tells("drop", {"DROP_MISS"}) /\ node' = RingPressed(node)
      \/ /\ TmrTakes /\ Tells("tmr", {"KEY_HIT"})
         /\ node' = RingPressed([node EXCEPT !.phase = "HIT_FLASH"])
      \/ /\ node.game = "ACTIVE" /\ Tells("game", {"KEY_HIT"})
         /\ node' = [node EXCEPT !.game = "HIT_BLANK"]
      \/ /\ node.drop = "FORWARD" /\ Tells("drop", {"DROP_HIT"})
         /\ node' = RingPressed(DropHit(node))
  BY DEF KeyPress, Pressed, Tells
<1>3. CASE \/ /\ \E results \in SUBSET {"WRONG_KEY"} : Tells("game", results)
              /\ node' \in {node, RingPressed(node), NoDisplay(node)}
           \/ Tells("drop", {"DROP_MISS"}) /\ node' = RingPressed(node)
  <2>1. node'.game = node.game /\ node'.drop = node.drop /\ node'.phase = node.phase
    BY <1>1, <1>3 DEF RingPressed, NoDisplay, Good, NodeType
  <2> QED BY <1>1, <1>3, <2>1, SilentKeeps
<1>4. CASE /\ TmrTakes /\ Tells("tmr", {"KEY_HIT"})
           /\ node' = RingPressed([node EXCEPT !.phase = "HIT_FLASH"])
  <2>1. /\ ToldType' /\ told'.tmr = told.tmr \cup {"KEY_HIT"}
        /\ told'.game = told.game /\ told'.drop = told.drop
    BY <1>4, TellsMeans DEF PlayInv, Results
  <2>2. node'.game = node.game /\ node'.drop = node.drop /\ node'.phase = "HIT_FLASH"
    BY <1>1, <1>4 DEF RingPressed, Good, NodeType
  <2>3. TmrResults'
    BY <1>4, <2>1, <2>2 DEF PlayInv, TmrResults, TmrTakes
  <2>4. GameResults' /\ DropResults'
    BY <1>1, <2>1, <2>2 DEF PlayInv, GameResults, DropResults, OneOutcome
  <2>5. (Good(node))'
    BY <1>1 DEF Good, NodeType, OnePlays, Plays, Busy, EngineNames, Owned
  <2> QED BY <2>1, <2>3, <2>4, <2>5 DEF PlayInv
<1>5. CASE /\ node.game = "ACTIVE" /\ Tells("game", {"KEY_HIT"})
           /\ node' = [node EXCEPT !.game = "HIT_BLANK"]
  <2>1. /\ ToldType' /\ told'.game = told.game \cup {"KEY_HIT"}
        /\ told'.tmr = told.tmr /\ told'.drop = told.drop
    BY <1>5, TellsMeans DEF PlayInv, Results
  <2>2. node'.game = "HIT_BLANK" /\ node'.drop = node.drop /\ node'.phase = node.phase
    BY <1>1, <1>5 DEF RingPressed, Good, NodeType
  <2>3. GameResults'
    BY <1>1, <1>5, <2>1, <2>2 DEF PlayInv, GameResults
  <2>4. TmrResults' /\ DropResults'
    BY <1>1, <2>1, <2>2 DEF PlayInv, TmrResults, DropResults, OneOutcome
  <2>5. (Good(node))'
    BY <1>1 DEF Good, NodeType, OnePlays, Plays, Busy, EngineNames, Owned
  <2> QED BY <2>1, <2>3, <2>4, <2>5 DEF PlayInv
<1>6. CASE /\ node.drop = "FORWARD" /\ Tells("drop", {"DROP_HIT"})
           /\ node' = RingPressed(DropHit(node))
  <2>1. /\ ToldType' /\ told'.drop = told.drop \cup {"DROP_HIT"}
        /\ told'.game = told.game /\ told'.tmr = told.tmr
    BY <1>6, TellsMeans DEF PlayInv, Results
  <2>2. node'.game = node.game /\ node'.drop = "RETURN" /\ node'.phase = node.phase
    BY <1>1, <1>6 DEF RingPressed, DropHit, Good, NodeType
  <2>3. {"DROP_HIT", "DROP_TIMEOUT", "DROP_END"} \cap told.drop = {}
    BY <1>6 DEF PlayInv, DropResults
  <2>4. OneOutcome'
    BY <2>1, <2>3 DEF OneOutcome
  <2>5. DropResults'
    BY <2>2, <2>4 DEF DropResults
  <2>6. GameResults' /\ TmrResults'
    BY <1>1, <2>1, <2>2 DEF PlayInv, GameResults, TmrResults
  <2>7. (Good(node))'
    BY <1>1 DEF Good, NodeType, OnePlays, Plays, Busy, EngineNames, Owned
  <2> QED BY <2>1, <2>5, <2>6, <2>7 DEF PlayInv
<1> QED BY <1>2, <1>3, <1>4, <1>5, <1>6

LEMMA ResumeKeeps ==
  ASSUME PlayInv, Resume
  PROVE  PlayInv'
<1>1. Good(node) /\ Good(node')
  BY ResumeGood DEF PlayInv
<1>2. CASE cont = "touchWake"
  BY <1>2, KeyPressKeeps DEF Resume
<1>3. CASE cont # "touchWake"
  <2>1. \/ Tells("game", {}) \/ Tells("drop", {})
        \/ \E results \in SUBSET {"SUCCESS_END"} : Tells("tmr", results)
    BY <1>3 DEF Resume, Resumed, Tells
  <2>2. /\ node'.game \in {node.game, "IDLE"} /\ node'.drop \in {node.drop, "IDLE"}
        /\ node'.phase \in {node.phase, "IDLE", "REVERSE"}
        /\ cont = "gameEnd" => node'.game = "IDLE"
    BY <1>1, <1>3 DEF Resume, Resumed, GameFinish, DropFinish, GridFinish, TmrFinish, RingPressed,
                      EffectStop, Good, NodeType
  <2> QED BY <1>1, <2>1, <2>2, SilentKeeps
<1> QED BY <1>2, <1>3

LEMMA LinkKeeps ==
  ASSUME PlayInv, LinkLost \/ LinkResume
  PROVE  PlayInv'
<1>1. Good(node) /\ Good(node')
  BY LinkGood DEF PlayInv
<1>2. cont # "gameEnd" /\ Tells("game", {})
  BY DEF PlayInv, ToldType, LinkLost, LinkResume, Loop, LinkStage, Tells
<1>3. ASSUME NEW m, Good(m), NEW k, Less(node, m), CancelFrom(m, k)
      PROVE  Less(node, node')
  <2>1. node' \in {[RingCancel(m) EXCEPT !.lock = FALSE], [m EXCEPT !.lock = FALSE],
                   RingCancel(m), m}
    BY <1>3 DEF CancelFrom
  <2>2. Less(m, node')
    BY <1>3, <2>1 DEF RingCancel, Less, Good, NodeType
  <2> QED BY <1>3, <2>2, LessTransitive
<1>4. Less(node, node')
  <2>1. CASE LinkLost
    <3>1. Less(node, node) /\ CancelFrom(node, 1)
      BY <2>1 DEF LinkLost, Less
    <3> QED BY <1>1, <1>3, <3>1
  <2>2. CASE LinkResume
    <3>1. PICK i \in 1 .. 4 : CancelFrom(Finish(node, Engines[i]), i + 1)
      BY <2>2 DEF LinkResume
    <3>2. Engines[i] \in EngineNames
      BY DEF Engines, EngineNames
    <3>3. Good(Finish(node, Engines[i])) /\ Less(node, Finish(node, Engines[i]))
      BY <1>1, <3>2, FinishGood, CancelLess
    <3> QED BY <1>3, <3>1, <3>3
  <2> QED BY <2>1, <2>2
<1> QED BY <1>1, <1>2, <1>4, SilentKeeps DEF Less

LEMMA TouchKeeps ==
  ASSUME PlayInv, TouchPress
  PROVE  PlayInv'
<1>1. Good(node) /\ Good(node') /\ cont = "none"
  BY TouchGood DEF PlayInv, TouchPress, Loop
<1>2. CASE node.effect = "IDLE"
  <2>1. node' = Awake /\ Tells("game", {})
    BY <1>2 DEF TouchPress, Pressed, Tells
  <2>2. Less(node, node')
    BY <1>1, <2>1, AwakeLess
  <2> QED BY <1>1, <2>1, <2>2, SilentKeeps DEF Less
<1>3. CASE node.effect # "IDLE"
  BY <1>1, <1>3, KeyPressKeeps DEF TouchPress
<1> QED BY <1>2, <1>3

LEMMA UnchangedKeeps ==
  ASSUME PlayInv, UNCHANGED <<node, told, cont>>
  PROVE  PlayInv'
  BY DEF PlayInv, ToldType, GameResults, TmrResults, DropResults, OneOutcome, Good, NodeType,
         OnePlays, Plays, Busy, EngineNames, Owned

-----------------------------------------------------------------------------
LEMMA PlayInvAlways == Spec => []PlayInv
<1>1. Init => PlayInv
  <2> SUFFICES ASSUME Init
               PROVE  PlayInv
    OBVIOUS
  <2>1. Good(node) /\ node.drop = "IDLE"
    BY AtRestGood DEF Init, AtRest
  <2>2. told.game = {} /\ told.tmr = {} /\ told.drop = {} /\ ToldType
    BY DEF Init, Silence, ToldType
  <2> QED BY <2>1, <2>2 DEF PlayInv, GameResults, TmrResults, DropResults, OneOutcome
<1>2. PlayInv /\ [Next]_vars => PlayInv'
  <2> SUFFICES ASSUME PlayInv, [Next]_vars
               PROVE  PlayInv'
    OBVIOUS
  <2>1. CASE Frame
    BY <2>1, FrameKeeps
  <2>2. CASE TaskGame \/ TaskTimerBar \/ TaskDrop \/ TaskKeyRing \/ TaskEffects
    BY <2>2, GameTaskKeeps, TimerTaskKeeps, DropTaskKeeps, OtherTasksKeep
  <2>3. CASE Resume \/ LinkLost \/ LinkResume
    BY <2>3, ResumeKeeps, LinkKeeps
  <2>4. CASE TouchPress
    BY <2>4, TouchKeeps
  <2>5. CASE TouchRelease \/ UNCHANGED vars
    BY <2>5, UnchangedKeeps DEF TouchRelease, vars
  <2> QED BY <2>1, <2>2, <2>3, <2>4, <2>5 DEF Next
<1> QED BY <1>1, <1>2, PTL DEF Spec

(* The results of one play do not contradict each other, whatever frames   *)
(* are handled in the pushes between telling a result and ending the play: *)
(* a play that was hit does not time out, and a drop ends after exactly    *)
(* one of hit and timeout.                                                 *)
THEOREM ResultsAlwaysAgree == Spec => []ResultsAgree
<1>1. PlayInv => ResultsAgree
  BY DEF PlayInv, GameResults, TmrResults, DropResults, OneOutcome, ResultsAgree
<1> QED BY <1>1, PlayInvAlways, PTL

-----------------------------------------------------------------------------
(* The variables keep their types: the node is one of the states of its    *)
(* engines, and a push that is running has a rest that some task left.     *)
THEOREM NodeTypes == Spec => []TypeOK
<1> DEFINE Shape == cont \in Conts /\ pad \in {"PRESSED", "RELEASED"} /\ ota \in BOOLEAN
           Count == frames \in 0 .. MaxFrames
<1>1. Init => Shape /\ Count
  <2>1. Init => Shape
    BY DEF Init, Conts
  <2>2. Init => Count
    BY MaxFramesAssumption DEF Init
  <2> QED BY <2>1, <2>2
<1>2. ASSUME Frame
      PROVE  \/ frames < MaxFrames /\ frames' = frames + 1 /\ UNCHANGED <<cont, pad, ota>>
             \/ EnterBoot \/ LeaveOta \/ Restart
  BY <1>2 DEF Frame, SetColor, SetChannelColor, SetPixelColor, ClearAll, SetBrightness,
     PixelEffect, StageLock, ActionRing, ActionRingOff, ActionStageRgb, ActionFootMode,
     SetKeyDisplay, GameArm, GameStart, GameFail, GameCancel, GameWait, TimerKeyStart,
     VibronRing, TimerStop, SetTimerCount, DropArm, DropCancel, GridStart, GridStop,
     SelfTest, SetPixelCount, ClearAddress, Query, Handled
<1>3. ASSUME NEW m, NEW k \in 1 .. 5, CancelFrom(m, k)
      PROVE  cont' \in {"none"} \cup {LinkStage[i] : i \in 1 .. 4}
  <2> DEFINE left == {i \in k .. 4 : Busy(m, Engines[i])}
             first == CHOOSE j \in left : \A l \in left : j <= l
  <2>1. CASE left = {}
    BY <1>3, <2>1 DEF CancelFrom
  <2>2. CASE left # {}
    <3>1. left \subseteq 1 .. 4
      OBVIOUS
    <3>2. cont' = LinkStage[first]
      BY <1>3, <2>2 DEF CancelFrom
    <3> HIDE DEF left
    <3>3. \E j \in left : \A l \in left : j <= l
      <4>1. CASE 1 \in left
        BY <3>1, <4>1
      <4>2. CASE 1 \notin left /\ 2 \in left
        BY <3>1, <4>2
      <4>3. CASE 1 \notin left /\ 2 \notin left /\ 3 \in left
        BY <3>1, <4>3
      <4>4. CASE 1 \notin left /\ 2 \notin left /\ 3 \notin left
        <5>1. \A l \in left : l = 4
          BY <3>1, <4>4
        <5> QED BY <2>2, <5>1
      <4> QED BY <4>1, <4>2, <4>3, <4>4
    <3>4. first \in left
      BY <3>3
    <3> QED BY <3>1, <3>2, <3>4
  <2> QED BY <2>1, <2>2
<1>4. Shape /\ [Next]_vars => Shape'
  <2> SUFFICES ASSUME Shape, [Next]_vars
               PROVE  Shape'
    OBVIOUS
  <2>1. CASE Frame
    BY <1>2, <2>1 DEF EnterBoot, LeaveOta, Restart, Conts
  <2>2. CASE TaskGame \/ TaskTimerBar \/ TaskDrop \/ TaskKeyRing \/ TaskEffects
    BY <2>2 DEF TaskGame, TaskTimerBar, TaskDrop, DropForward, DropBack, TaskKeyRing,
       TaskEffects, Turn, Quiet, Conts
  <2>3. CASE Resume
    BY <2>3 DEF Resume, Resumed, KeyPress, Pressed, Conts
  <2>4. CASE LinkLost \/ LinkResume
    <3>1. UNCHANGED <<pad, ota>> /\ \E m : \E k \in 1 .. 5 : CancelFrom(m, k)
      <4>1. CASE LinkLost
        BY <4>1 DEF LinkLost
      <4>2. CASE LinkResume
        <5>1. PICK i \in 1 .. 4 : CancelFrom(Finish(node, Engines[i]), i + 1)
          BY <4>2 DEF LinkResume
        <5>2. i + 1 \in 1 .. 5
          OBVIOUS
        <5>3. UNCHANGED <<pad, ota>>
          BY <4>2 DEF LinkResume
        <5> QED BY <5>1, <5>2, <5>3
      <4> QED BY <2>4, <4>1, <4>2
    <3> QED BY <1>3, <3>1 DEF Conts
  <2>5. CASE TouchPress \/ TouchRelease
    BY <2>5 DEF TouchPress, KeyPress, Pressed, TouchRelease, Conts
  <2>6. CASE UNCHANGED vars
    BY <2>6 DEF vars
  <2> QED BY <2>1, <2>2, <2>3, <2>4, <2>5, <2>6 DEF Next
<1>5. Count /\ [Next]_vars => Count'
  <2> SUFFICES ASSUME Count, [Next]_vars
               PROVE  Count'
    OBVIOUS
  <2>1. CASE Frame
    <3>1. frames' = frames \/ (frames < MaxFrames /\ frames' = frames + 1)
      BY <1>2, <2>1 DEF EnterBoot, LeaveOta, Restart
    <3> QED BY <3>1, MaxFramesAssumption
  <2>2. CASE ~ Frame
    <3>1. frames' = frames
      BY <2>2 DEF Next, TaskGame, TaskTimerBar, TaskDrop, DropForward, DropBack, TaskKeyRing,
         TaskEffects, Turn, Quiet, Resume, Resumed, LinkLost, LinkResume, TouchPress, KeyPress,
         Pressed, TouchRelease, vars
    <3> QED BY <3>1
  <2> QED BY <2>1, <2>2
<1>6. Spec => [](Shape /\ Count)
  BY <1>1, <1>4, <1>5, PTL DEF Spec
<1>7. PlayInv /\ Shape /\ Count => TypeOK
  BY DEF PlayInv, Good, ToldType, TypeOK
<1> QED BY <1>6, <1>7, PlayInvAlways, PTL
===============================================================================
