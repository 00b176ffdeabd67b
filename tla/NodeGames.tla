------------------------------ MODULE NodeGames ------------------------------
(***************************************************************************)
(* The games of a node (main.cpp): the hide game, the timer bar, the drop  *)
(* game, the grid modes and the key ring, the commands that start and stop *)
(* them (FrameRx::dispatchBody), the tasks of loop() that play them, and   *)
(* the touch of the one key the hardware has.                              *)
(*                                                                         *)
(* The node has one thread, but its tasks are not atomic: ws_show_strip    *)
(* ends with comm_pump(), which reads the bus and dispatches what is there.*)
(* A frame is therefore handled in the middle of a task that pushes LEDs   *)
(* and that goes on, afterwards, with what it decided before.  "cont" is   *)
(* the rest of a task whose push is running; frames of the master are      *)
(* handled in every state, the other tasks when cont = "none".  Only the   *)
(* pushes after which a task still writes state are steps of their own.    *)
(*                                                                         *)
(* Times are left out: a task finds its deadline passed or not.  Colours   *)
(* and pixels, the foot pads and the boot animation are left out.          *)
(***************************************************************************)
EXTENDS Integers, Sequences, FiniteSets

CONSTANT MaxFrames   \* bound on the frames of the master
ASSUME MaxFramesAssumption == MaxFrames \in Nat

VARIABLES
  node,    \* the engines, the active effect and the locks
  cont,    \* the rest of the task whose LED push is running
  told,    \* the results sent to the master since an engine was last started
  pad,     \* SoftwareTouchCh::state of the key
  ota,     \* g_otaActive
  frames   \* number of frames handled

vars == <<node, cont, told, pad, ota, frames>>

GameStates  == {"IDLE", "ARMED", "ACTIVE", "HIT_BLANK", "HIT_FLASH", "REVERSE", "FAIL"}
TmrPhases   == {"IDLE", "RUNNING", "HIT_FLASH", "REVERSE", "TIMEOUT_FADE"}
DropPhases  == {"IDLE", "FORWARD", "END_DRAIN", "RETURN", "START_DRAIN"}
GridModes   == {"NONE", "SELECT", "SHOW"}       \* SHOW: LIGHTNING, RAIN or ERROR
RingPhases  == {"OFF", "STEADY", "FADE_OUT", "FADE_IN"}

(* OPEN and CLOSED are the effects of PIXEL_EFFECT that listen to the key  *)
(* and those that do not; ERROR is the one that ends by itself.            *)
Effects == {"NONE", "OPEN", "CLOSED", "ERROR", "IDLE", "SELF_TEST", "GAME",
            "GRID_SELECT", "GRID_SHOW"}
GridEffects == {"GRID_SELECT", "GRID_SHOW"}

Engines == <<"game", "drop", "grid", "tmr">>    \* in the order they are cancelled
LinkStage == <<"linkGame", "linkDrop", "linkGrid", "linkTmr">>
Conts == {"none", "gameEnd", "tmrFlash", "tmrReverse", "tmrFade", "dropEnd", "fxError",
          "touchWake", "gridPress", "ringPress"}
           \cup {LinkStage[i] : i \in 1 .. 4}

Results == {"KEY_HIT", "WRONG_KEY", "TIMEOUT", "SUCCESS_END", "FAIL_END",
            "DROP_ACTIVE", "DROP_HIT", "DROP_MISS", "DROP_TIMEOUT", "DROP_END"}

NodeType == [game : GameStates, tmr : BOOLEAN, phase : TmrPhases, armed : BOOLEAN,
             drop : DropPhases, grid : GridModes, ring : RingPhases, kd : BOOLEAN,
             effect : Effects, lock : BOOLEAN, stage : BOOLEAN]

AtRest == [game |-> "IDLE", tmr |-> FALSE, phase |-> "IDLE", armed |-> FALSE,
           drop |-> "IDLE", grid |-> "NONE", ring |-> "OFF", kd |-> FALSE,
           effect |-> "NONE", lock |-> FALSE, stage |-> FALSE]

Silence == [game |-> {}, tmr |-> {}, drop |-> {}]

(* After setup() and the boot animation.                                   *)
Init ==
  /\ node = AtRest
  /\ cont = "none"
  /\ told = Silence
  /\ pad = "RELEASED"
  /\ ota = FALSE
  /\ frames = 0

-----------------------------------------------------------------------------
(* The end of an engine, as the handlers and the tasks use it.             *)

GameFinish(m) ==
  IF m.effect = "GAME"
    THEN [m EXCEPT !.game = "IDLE", !.effect = "NONE", !.lock = FALSE]
    ELSE [m EXCEPT !.game = "IDLE"]

TmrFinish(m) == [m EXCEPT !.tmr = FALSE, !.armed = FALSE, !.phase = "IDLE"]

(* Variant with a bug: a drop that ends leaves the effect to the game.     *)
DropFinishKeepsEffect(m) == [m EXCEPT !.drop = "IDLE"]

DropFinish(m) ==
  IF m.effect = "GAME" /\ m.game = "IDLE"
    THEN [m EXCEPT !.drop = "IDLE", !.effect = "NONE", !.lock = FALSE]
    ELSE [m EXCEPT !.drop = "IDLE"]

GridFinish(m) ==
  IF m.effect \in GridEffects
    THEN [m EXCEPT !.grid = "NONE", !.effect = "NONE", !.lock = FALSE]
    ELSE [m EXCEPT !.grid = "NONE"]

Busy(m, e) ==
  CASE e = "game" -> m.game # "IDLE"
    [] e = "drop" -> m.drop # "IDLE"
    [] e = "grid" -> m.grid # "NONE"
    [] e = "tmr"  -> m.tmr

Finish(m, e) ==
  CASE e = "game" -> GameFinish(m)
    [] e = "drop" -> DropFinish(m)
    [] e = "grid" -> GridFinish(m)
    [] e = "tmr"  -> TmrFinish(m)

(* game_cancel, drop_cancel, grid_cancel; "if (g_tmrActive) tmr_finish".   *)
Cancel(m, e) == IF Busy(m, e) THEN Finish(m, e) ELSE m
RingCancel(m) == [m EXCEPT !.ring = "OFF"]

CancelGames(m) == Cancel(Cancel(Cancel(m, "game"), "drop"), "grid")
CancelAll(m) == Cancel(RingCancel(CancelGames(m)), "tmr")

EffectStop(m) == [m EXCEPT !.effect = "NONE", !.lock = FALSE]
ExitIdleMode(m) == IF m.effect \in {"IDLE", "SELF_TEST"} THEN EffectStop(m) ELSE m

(* Content of the master is on the strips.                                 *)
Painted(m) == [m EXCEPT !.effect = "NONE", !.lock = TRUE]
NoDisplay(m) == [m EXCEPT !.kd = FALSE]

-----------------------------------------------------------------------------
(* Frames of the master.  dispatchBody() leaves the idle effect before it  *)
(* looks at the command; nothing but OTA commands is handled during OTA.   *)

Awake == ExitIdleMode(node)

Handled(m, t) ==
  /\ ~ota
  /\ frames < MaxFrames
  /\ frames' = frames + 1
  /\ node' = m
  /\ told' = t
  /\ UNCHANGED <<cont, pad, ota>>

(* Results of an earlier play no longer count when an engine is started.   *)
Started(e) == [told EXCEPT ![e] = {}]

SetColor ==
  \/ Handled(Painted(CancelAll(NoDisplay(Awake))), told)
  \/ node.stage /\ Handled(NoDisplay(Awake), told)         \* black on the locked stage

(* Channel 3 is the key ring: the games go on, other effects stop.         *)
RingWrite(m) ==
  [m EXCEPT !.effect = IF @ = "GAME" THEN @ ELSE "NONE", !.lock = TRUE]

SetChannelColor ==
  \/ SetColor
  \/ Handled(RingWrite(NoDisplay(Awake)), told)

(* The games are cancelled before the stage lock is looked at.             *)
SetPixelColor ==
  \/ Handled(Painted(CancelAll(Awake)), told)
  \/ node.stage /\ Handled([CancelAll(Awake) EXCEPT !.effect = "NONE"], told)
  \/ Handled(RingWrite(Awake), told)

ClearAll == SetColor

SetBrightness == Handled([Awake EXCEPT !.lock = TRUE], told)

(* The lock is taken before the games are cancelled, and a game that is    *)
(* cancelled gives it back.                                                *)
PixelEffect(e) ==
  LET m == CancelAll([NoDisplay(Awake) EXCEPT !.lock = TRUE])
  IN  Handled(IF e = "NONE" THEN EffectStop(m) ELSE [m EXCEPT !.effect = e], told)

StageLock(on) == Handled([Awake EXCEPT !.stage = on], told)

ActionRing == Handled([Painted(CancelAll(NoDisplay(Awake))) EXCEPT !.ring = "STEADY"], told)

ActionRingOff == Handled(CancelAll(NoDisplay(Awake)), told)

ActionStageRgb == Handled(Painted(CancelAll(NoDisplay(Awake))), told)

(* Everything is cancelled before the payload is looked at.                *)
ActionFootMode ==
  LET m == NoDisplay(Cancel(CancelGames(Awake), "tmr"))
  IN  Handled(m, told) \/ Handled(RingCancel(m), told)

SetKeyDisplay == Handled([Painted(CancelAll(Awake)) EXCEPT !.kd = TRUE], told)

(* Variant with a bug: game_arm leaves the drop game alone.                *)
GameArmOverDrop ==
  LET m0 == RingCancel(Cancel(Awake, "grid"))
      m1 == NoDisplay(Cancel(m0, "tmr"))
  IN  Handled([m1 EXCEPT !.game = "ARMED", !.effect = "GAME", !.lock = TRUE], Started("game"))

GameArm ==
  LET m0 == RingCancel(Cancel(Awake, "grid"))
      m1 == NoDisplay(Cancel(Cancel(Cancel(m0, "tmr"), "drop"), "grid"))
  IN  \/ Handled(m0, told)                                 \* refused: key or seconds
      \/ Handled([m1 EXCEPT !.game = "ARMED", !.effect = "GAME", !.lock = TRUE],
                 Started("game"))

GameStart ==
  /\ node.game = "ARMED"
  /\ Handled([Awake EXCEPT !.game = "ACTIVE", !.effect = "GAME", !.lock = TRUE], told)

(* The other engines are not stopped.                                      *)
GameFail ==
  Handled([Awake EXCEPT !.game = "FAIL", !.effect = "GAME", !.lock = TRUE], Started("game"))

GameCancel == Handled(CancelGames(Awake), told)

GameWait ==
  LET m == CancelAll(NoDisplay(Cancel(Cancel(Awake, "tmr"), "grid")))
  IN  Handled([m EXCEPT !.effect = "OPEN", !.lock = TRUE], told)

TimerKeyStart ==
  LET m == [RingCancel(CancelGames(NoDisplay(Awake))) EXCEPT !.effect = "NONE"]
  IN  \/ Handled(NoDisplay(Awake), told)                   \* refused: key, seconds or stage
      \/ /\ ~node.stage
         /\ Handled([m EXCEPT !.tmr = TRUE, !.armed = FALSE, !.phase = "RUNNING",
                              !.lock = TRUE], Started("tmr"))

(* Variant with a bug: an armed timer is in a phase of its own.            *)
VibronRingPhase ==
  /\ node.tmr /\ node.phase = "RUNNING"
  /\ Handled([Awake EXCEPT !.armed = TRUE, !.phase = "ARMED"], told)

VibronRing ==
  /\ node.tmr /\ node.phase = "RUNNING"
  /\ Handled([Awake EXCEPT !.armed = TRUE], told)

TimerStop == Handled(Cancel(Awake, "tmr"), told)

DropArm ==
  Handled([NoDisplay(CancelAll(Awake)) EXCEPT !.drop = "FORWARD", !.effect = "GAME",
                                              !.lock = TRUE], Started("drop"))

(* grid_start of GRID_SELECT, TESLA_START, GRID_RAIN and GRID_ERROR.       *)
GridStart(mode) ==
  LET m == NoDisplay(RingCancel(Cancel(Cancel(Cancel(Awake, "game"), "drop"), "tmr")))
  IN  /\ ~node.stage
      /\ Handled([m EXCEPT !.grid = mode, !.lock = TRUE,
                           !.effect = IF mode = "SELECT" THEN "GRID_SELECT"
                                                         ELSE "GRID_SHOW"], told)

GridStop == Handled(Cancel(Awake, "grid"), told)     \* and TESLA_STOP
DropCancel == Handled(Cancel(Awake, "drop"), told)

SetTimerCount ==
  Handled(Cancel(Cancel(Cancel(Awake, "tmr"), "drop"), "grid"), told)

SelfTest(on) ==
  Handled(IF on THEN [CancelAll(Awake) EXCEPT !.effect = "SELF_TEST", !.lock = TRUE]
                ELSE EffectStop(CancelAll(Awake)), told)

SetPixelCount == Handled(EffectStop(CancelAll(Awake)), told)

ClearAddress == Handled([Awake EXCEPT !.lock = FALSE], told)

(* PING, GET_STATUS, POLL_STATE, DISCOVERY_REQ, a refused command ...      *)
Query == Handled(Awake, told)

EnterBoot ==
  /\ ~ota
  /\ frames < MaxFrames
  /\ frames' = frames + 1
  /\ node' = CancelAll(Awake)
  /\ ota' = TRUE
  /\ UNCHANGED <<cont, told, pad>>

(* ABORT_BOOT or taskOtaTimeout.                                           *)
LeaveOta ==
  /\ ota
  /\ ota' = FALSE
  /\ UNCHANGED <<node, cont, told, pad, frames>>

(* RESET, the end of an update, or the watchdog.                           *)
Restart ==
  /\ frames < MaxFrames
  /\ frames' = frames + 1
  /\ node' = AtRest /\ cont' = "none" /\ told' = Silence /\ pad' = "RELEASED" /\ ota' = FALSE

Frame ==
  \/ SetColor \/ SetChannelColor \/ SetPixelColor \/ ClearAll \/ SetBrightness
  \/ \E e \in {"NONE", "OPEN", "CLOSED", "ERROR", "IDLE"} : PixelEffect(e)
  \/ \E on \in BOOLEAN : StageLock(on)
  \/ ActionRing \/ ActionRingOff \/ ActionStageRgb \/ ActionFootMode \/ SetKeyDisplay
  \/ GameArm \/ GameStart \/ GameFail \/ GameCancel \/ GameWait
  \/ TimerKeyStart \/ VibronRing \/ TimerStop \/ SetTimerCount
  \/ DropArm \/ DropCancel
  \/ \E mode \in {"SELECT", "SHOW"} : GridStart(mode)
  \/ GridStop
  \/ \E on \in BOOLEAN : SelfTest(on)
  \/ SetPixelCount \/ ClearAddress \/ Query
  \/ EnterBoot \/ LeaveOta \/ Restart

-----------------------------------------------------------------------------
(* Tasks of loop().                                                        *)

Loop == cont = "none" /\ ~ota

(* One step of a task: the new state, what it tells the master of engine e *)
(* and the push it waits for.                                              *)
Turn(m, e, results, c) ==
  /\ Loop
  /\ node' = m
  /\ told' = [told EXCEPT ![e] = @ \cup results]
  /\ cont' = c
  /\ UNCHANGED <<pad, ota, frames>>

Quiet(m, c) == Turn(m, "game", {}, c)

(* taskGame: the result is sent, then game_finish() clears the display.    *)
TaskGame ==
  \/ /\ node.game \in {"ARMED", "ACTIVE"}
     /\ Turn(node, "game", {"TIMEOUT"}, "gameEnd")
  \/ node.game = "HIT_BLANK" /\ Quiet([node EXCEPT !.game = "HIT_FLASH"], "none")
  \/ node.game = "HIT_FLASH" /\ Quiet([node EXCEPT !.game = "REVERSE"], "none")
  \/ node.game = "REVERSE" /\ Turn(node, "game", {"SUCCESS_END"}, "gameEnd")
  \/ node.game = "FAIL" /\ Turn(node, "game", {"FAIL_END"}, "gameEnd")

(* taskTimerBar; the frames rendered in HIT_FLASH and REVERSE come before  *)
(* the phase changes.                                                      *)
TaskTimerBar ==
  /\ node.tmr
  /\ \/ /\ node.phase = "RUNNING"
        /\ Turn([node EXCEPT !.phase = "TIMEOUT_FADE"], "tmr", {"TIMEOUT"}, "none")
     \/ node.phase = "HIT_FLASH" /\ Quiet(node, "tmrFlash")
     \/ node.phase = "REVERSE" /\ Quiet(node, "tmrReverse")
     \/ node.phase = "TIMEOUT_FADE" /\ Quiet(node, "tmrFade")

(* Variant with a bug: the bar goes on after the hit.                      *)
DropHitGoesOn(m) == m

(* drop_doHit()                                                            *)
DropHit(m) == [m EXCEPT !.drop = "RETURN"]

(* taskDrop in FORWARD: the window opens, a key that is held hits, and the *)
(* end of the bar without a touch is a timeout.                            *)
DropForward ==
  /\ node.drop = "FORWARD"
  /\ \/ pad = "PRESSED" /\ Turn(DropHit(node), "drop", {"DROP_ACTIVE", "DROP_HIT"}, "none")
     \/ /\ pad = "RELEASED" /\ "DROP_ACTIVE" \notin told.drop
        /\ Turn(node, "drop", {"DROP_ACTIVE"}, "none")
     \/ /\ pad = "RELEASED"
        /\ Turn([node EXCEPT !.drop = "END_DRAIN"], "drop",
                {"DROP_ACTIVE", "DROP_TIMEOUT"}, "none")

(* Variant with a bug: a drop that has run out falls back to the bar.      *)
DropBackLoops ==
  \/ node.drop = "END_DRAIN" /\ Quiet([node EXCEPT !.drop = "RETURN"], "none")
  \/ node.drop = "RETURN" /\ Quiet([node EXCEPT !.drop = "START_DRAIN"], "none")
  \/ node.drop = "START_DRAIN" /\ Quiet([node EXCEPT !.drop = "RETURN"], "none")

(* taskDrop after FORWARD; a fast return ends without START_DRAIN.         *)
DropBack ==
  \/ node.drop = "END_DRAIN" /\ Quiet([node EXCEPT !.drop = "RETURN"], "none")
  \/ node.drop = "RETURN" /\ Quiet([node EXCEPT !.drop = "START_DRAIN"], "none")
  \/ /\ node.drop \in {"RETURN", "START_DRAIN"}
     /\ Turn(node, "drop", {"DROP_END"}, "dropEnd")

TaskDrop == DropForward \/ DropBack

TaskKeyRing ==
  \/ node.ring = "FADE_OUT" /\ Quiet([node EXCEPT !.ring = "FADE_IN"], "none")
  \/ node.ring = "FADE_IN" /\ Quiet([node EXCEPT !.ring = "STEADY"], "none")

(* fx_error pushes the strips when the display begins and when it ends.    *)
TaskEffects == node.effect = "ERROR" /\ Quiet(node, "fxError")

(* The rest of the task, when its push is over.                            *)
Resumed(m, e, results) ==
  /\ node' = m
  /\ told' = [told EXCEPT ![e] = @ \cup results]
  /\ cont' = "none"
  /\ UNCHANGED <<pad, ota, frames>>

RingPressed(m) == [m EXCEPT !.ring = IF @ = "STEADY" THEN "FADE_OUT" ELSE @]

(* A press of the key.  The engines are asked in turn and the first that   *)
(* takes the key has it: the display, the timer, the game, the drop, the   *)
(* grid; the ring sees every press but the one the display takes, after    *)
(* the pushes of a game that is hit and of a grid that is left.            *)
TmrTakes  == node.tmr /\ node.armed /\ node.phase = "RUNNING"
GameTakes == node.game \in {"ARMED", "ACTIVE"}

Pressed(m, e, results, c) ==
  /\ node' = m
  /\ told' = [told EXCEPT ![e] = @ \cup results]
  /\ cont' = c
  /\ UNCHANGED <<ota, frames>>

KeyPress ==
  \/ node.kd /\ Pressed(NoDisplay(node), "game", {}, "none")
  \/ /\ ~node.kd
     /\ \/ /\ TmrTakes
           /\ Pressed(RingPressed([node EXCEPT !.phase = "HIT_FLASH"]), "tmr", {"KEY_HIT"}, "none")
        \/ /\ ~TmrTakes /\ node.game = "ACTIVE"
           /\ Pressed([node EXCEPT !.game = "HIT_BLANK"], "game", {"KEY_HIT"}, "ringPress")
        \/ /\ ~TmrTakes /\ node.game = "ARMED"
           /\ Pressed(RingPressed(node), "game", {"WRONG_KEY"}, "none")
        \/ /\ ~TmrTakes /\ ~GameTakes /\ node.drop = "FORWARD"
           /\ \/ Pressed(RingPressed(DropHit(node)), "drop", {"DROP_HIT"}, "none")
              \/ /\ "DROP_ACTIVE" \notin told.drop
                 /\ Pressed(RingPressed(node), "drop", {"DROP_MISS"}, "none")
        \/ /\ ~TmrTakes /\ ~GameTakes /\ node.drop # "FORWARD"
           /\ IF node.drop = "IDLE" /\ node.grid = "SELECT"
                THEN Pressed(node, "game", {}, "gridPress")
                ELSE Pressed(RingPressed(node), "game", {}, "none")

(* After the error display's first push nothing is written unless its time *)
(* is over by then; after its last one the effect is stopped, also the     *)
(* effect of a game that was armed in that push.                           *)
Resume ==
  \/ cont = "gameEnd" /\ Resumed(GameFinish(node), "game", {})
  \/ cont = "tmrFlash" /\ Resumed([node EXCEPT !.phase = "REVERSE"], "tmr", {})
  \/ cont = "tmrReverse" /\ Resumed(TmrFinish(node), "tmr", {"SUCCESS_END"})
  \/ cont = "tmrFade" /\ Resumed(TmrFinish(node), "tmr", {})
  \/ cont = "dropEnd" /\ Resumed(DropFinish(node), "drop", {})
  \/ /\ cont = "fxError"
     /\ Resumed(node, "game", {}) \/ Resumed(EffectStop(node), "game", {})
  \/ cont = "touchWake" /\ KeyPress /\ UNCHANGED pad
  \/ cont = "gridPress" /\ Resumed(RingPressed(GridFinish(node)), "game", {})
  \/ cont = "ringPress" /\ Resumed(RingPressed(node), "game", {})

(* taskLinkSupervision: engine after engine is cancelled, each pushing the *)
(* LEDs before it is marked idle, the ring once, before the timer.         *)
(* CancelFrom(m, k) goes on at engine k.                                   *)
CancelFrom(m, k) ==
  LET left == {i \in k .. 4 : Busy(m, Engines[i])}
      i    == CHOOSE j \in left : \A l \in left : j <= l
  IN  IF left = {}
        THEN /\ node' = [(IF k <= 4 THEN RingCancel(m) ELSE m) EXCEPT !.lock = FALSE]
             /\ cont' = "none"
        ELSE node' = (IF i = 4 THEN RingCancel(m) ELSE m) /\ cont' = LinkStage[i]

LinkLost == Loop /\ CancelFrom(node, 1) /\ UNCHANGED <<told, pad, ota, frames>>

LinkResume ==
  /\ \E i \in 1 .. 4 : cont = LinkStage[i] /\ CancelFrom(Finish(node, Engines[i]), i + 1)
  /\ UNCHANGED <<told, pad, ota, frames>>

-----------------------------------------------------------------------------
(* TouchMgr::tick, for one key.                                            *)

TouchAllowed == node.effect \in {"NONE", "OPEN", "IDLE", "GAME", "GRID_SELECT"}

(* A press leaves the idle effect first, which pushes the strips.          *)
TouchPress ==
  /\ Loop
  /\ TouchAllowed
  /\ pad = "RELEASED" /\ pad' = "PRESSED"
  /\ IF node.effect = "IDLE" THEN Pressed(Awake, "game", {}, "touchWake") ELSE KeyPress

TouchRelease ==
  /\ Loop
  /\ pad = "PRESSED" /\ pad' = "RELEASED"     \* a key that is not listened to is released
  /\ UNCHANGED <<node, cont, told, ota, frames>>

-----------------------------------------------------------------------------
Next ==
  \/ Frame
  \/ TaskGame \/ TaskTimerBar \/ TaskDrop \/ TaskKeyRing \/ TaskEffects
  \/ Resume \/ LinkLost \/ LinkResume
  \/ TouchPress \/ TouchRelease

Spec == Init /\ [][Next]_vars

(* loop() calls every task again and again, and a push of LEDs ends; frames *)
(* and touches come or do not.  A drop that hangs over the bar is moved on. *)
FairSpec ==
  /\ Spec
  /\ WF_vars(Resume) /\ WF_vars(LinkResume)
  /\ WF_vars(TaskGame) /\ WF_vars(TaskTimerBar) /\ WF_vars(TaskDrop)
  /\ WF_vars(LeaveOta)

-----------------------------------------------------------------------------
(* Properties.                                                             *)

TypeOK ==
  /\ node \in NodeType
  /\ cont \in Conts
  /\ told \in [{"game", "tmr", "drop"} -> SUBSET Results]
  /\ pad \in {"PRESSED", "RELEASED"}
  /\ ota \in BOOLEAN
  /\ frames \in 0 .. MaxFrames

(* One engine plays at a time, whatever command arrives in whatever push:  *)
(* starting one stops the others.  The red FAIL display is the exception,  *)
(* GAME_FAIL stops nothing.                                                *)
OneEngineAtATime ==
  Cardinality({e \in {"game", "drop", "grid", "tmr"} :
                 Busy(node, e) /\ ~(e = "game" /\ node.game = "FAIL")}) <= 1

(* The effects that belong to an engine are gone when the engine is: a     *)
(* node is not left deaf (a grid show does not listen to the key) or with  *)
(* the strips reserved for a game that is over.  The reverse does not      *)
(* hold: an engine can be without its effect and lock, after GAME_ARM in   *)
(* the last push of the error display or a grid stopped under another one. *)
EffectsAreOwned ==
  /\ node.effect = "GAME" => node.game # "IDLE" \/ node.drop # "IDLE"
  /\ node.effect \in GridEffects => node.grid # "NONE"

(* The results of one play do not contradict each other: a play that was   *)
(* hit does not time out, and a drop ends after exactly one of the two.    *)
ResultsAgree ==
  /\ \A e \in {"game", "tmr"} : ~({"KEY_HIT", "TIMEOUT"} \subseteq told[e])
  /\ "DROP_END" \in told.drop =>
       ("DROP_HIT" \in told.drop) # ("DROP_TIMEOUT" \in told.drop)

(* Every play comes to an end by itself or by a command: a game, a drop or *)
(* a timer does not hang in one of its phases.                             *)
PlaysEnd ==
  /\ (node.game # "IDLE") ~> (node.game = "IDLE")
  /\ (node.drop # "IDLE") ~> (node.drop = "IDLE")
  /\ node.tmr ~> ~node.tmr
=============================================================================
