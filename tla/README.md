# A formal model of the RBUS service and node firmware

The repository (`Service_Action RestFul_3.7`) is a Python service that drives up to
a few hundred ESP8266 nodes (lights with a touch key, used for games) over RS485
pairs. Each pair hangs on a TCP-to-serial converter, the *bridge*; a node has a MAC
and a one-byte logical address. The service polls the nodes, gives them addresses,
sends them commands, updates their firmware, and offers all of this to a Qt GUI, to
REST and TCP clients and to games. This directory holds TLA+ models of its logic,
their TLC runs, and TLAPS proofs. Paths below are relative to
`src/Service_Action RestFul_3.7/`.

## 1. Inventory

| Component | State | Operations | Talks to | What makes it correct |
|---|---|---|---|---|
| OTA session, `core/ota_session.py` | phase, packet index, retries, deadline, abort flag | `start`, `request_abort`, `tick`, `feed_frame` | the node over the bus; events to the GUI | success is reported only for a node that committed the image; the session ends; the verdict is final |
| OTA manager of the node, `main.cpp` 3206-3312 | state, `fwStarted`, `expectPkt`, `written`, the boot image | ENTER_BOOT, UPDATE_START/DATA/END, ABORT_BOOT, timeout, restart | the session; the ESP8266 `Update` library | only a whole image, in order, becomes the boot image |
| Bus and frames, `core/protocol.py`, `core/tcp_link.py`, `main.cpp` 1163-1227 | receive buffers | `build_frame`, `parse_frame`, `FrameRx::tick` | everything | order is kept; a damaged frame is never taken for a good one |
| Bridge worker, `core/bridge_worker.py` | link, transmit queue, current OTA session, address maps | `connect`, `disconnect`, `send`, `start_ota`, `abort_ota`, the loop of `run` | registry, feedback, GUI events | one session at a time, never abandoned; what was sent is heard of |
| Command feedback, `core/feedback.py`, `service.py` 145-195 | `_pending` | `expect`, `on_ack`, `on_nack`, `sweep_timeouts` | worker, poll thread | one verdict for each command, and the right one |
| Batch OTA, `core/batch_ota.py` with its panel | queue of each bridge, status of each node, counters | `start`, `stop`, `on_ota_*` | workers, through the event queue of `MainWindow` | every node flashed once, counted once; the batch ends |
| Registry and addressing, `core/node_registry.py`, `service.py` 197-252, the address commands and EEPROM of `main.cpp` | nodes by MAC, addresses, duplicate flags; the address in each node | discovery, `assign_address`, `clear_address`, `upsert_*` | worker, poll, GUI | duplicates are shown; what the registry says of a node becomes true |
| Poll loop, `service.py` 309-390 | round-robin index of each bridge | one turn | workers, registry | no node is passed over for ever |
| Numbering wizard, `gui/load_form.py` | queue, marks, counter, due timers | start, touch, select, assign, stop | service, touch events | every touched node gets one number, and the end is announced truly |
| REST API, `core/rest_api.py` | event deque, last query | `PUT /api/nodes/set`, `/api/v1/...`, the event drain | service, action game | an ok means that everything was sent; no event is lost between two reads |
| Game bridge, `game_bridge.py` | TCP clients | commands, broadcasts of events | service, games | events arrive in order; a command reaches all bridges |
| Action game, `action_game.py`, `gui/games_panel.py` | stage lock of each bridge | L, S, Reset, Idle, hide, vibron and tesla commands | service, REST, game bridge | the start key is coloured once for each opening of its lock |
| REST client, `ActionGame.py` | connection, busy flag, polls under way | connect, poll, disconnect | REST API | it shows each event once |
| Node games, the rest of `main.cpp` | four engines, key ring, effect, locks, touch state | dispatcher, tasks of `loop()`, touch, link supervision | bus | one engine plays; nothing of it is left behind; it ends |
| GUI panels | forms | clicks | service | modelled with the operation they start |
| Effects, LED mapping, simulator, launchers, loggers, configuration | - | - | - | not modelled, section 6 |

What is hard here. Four kinds of threads (GUI, bridge workers, poll, REST and game
clients) share the workers and the registry with short locks that cover single
statements. Events reach the GUI through a queue and are old when they are handled.
The bus loses, damages and delays frames, and nothing on it carries a sequence number
except UPDATE_DATA. Both ends of an update have their own timers, and a node may
restart at any time. The node has one thread, but a push of its LEDs ends in
`comm_pump()`, which dispatches frames in the middle of a task. PROJECT.json lists
the hazards one by one, each at its line, with the properties that watch it.

## 2. Modules

**One firmware update.** `OtaWire` is the bus as one transfer sees it: two queues of
frames, lossy, never reordered. `OtaSession` is the service's side, one action per
call of `tick()`, `request_abort()` or `feed_frame()` (one operator for each outcome
of `feed_frame`, in the order of its checks). `OtaNode` is the node's side, one
operator per handler of `OtaMgr` and of the dispatcher. `OtaFlash` composes the two
and states the properties and the inductive invariant `IInv`. `FlashPromise` is the
abstract specification: chunks are stored in order or dropped, only the whole image
is committed, success is reported after a commit, a verdict is final.

Variables keep the names of the code (`phase`, `pktIndex`, `retries`,
`abortRequested`; `mode` for `OtaMgr::state`, `fwStarted`, `expectPkt`); `written` is
the list of packets behind the byte counter of that name, `image` what the node
boots. Left out: percentages, byte counts, the contents of chunks, times. The two
CRCs appear as the hazards `damage` and `bitrot`; chunk 0 always has the magic byte
because `start()` refuses any other image, so that branch of `handleData` cannot be
reached. `re` of an answer is auxiliary and read by no action of the service, except
in a NACK, which really names the command it refuses.

**Workers and batches.** `OtaBridge` is the OTA side of any number of bridge workers:
the loop of `run()` cut at every point where the session, its event or the lock
becomes visible to another thread, `start_ota`, `abort_ota`, `disconnect`, links that
break, and the `in_ota` flag of the registry. A session is reduced to its end here;
`OtaFlash` says what happens on the way. `BatchOta` adds `BatchOtaManager`, the event
pump of `MainWindow`, the batch panel and the single-update panel. The rest of a
running call of the GUI thread is the sequence `todo`, one task for each stretch
other threads can observe; a click or an event is served when it is empty. All of
these methods run in the GUI thread: the comment in `batch_ota.py` 46-48 that worker
threads call them is out of date. That a node may answer in_ota TRUE after any of its
sessions is an over-approximation of its own OTA mode, which `Addressing` has.

**Commands.** `CommandPath` is the way of a command: `Service.send_cmd`,
`BridgeWorker.send` in its observable steps, the transmit queue with its priorities
(a sequence in the order of the numbers of `_tx_seq`; a number and its place in the
queue are taken in one step, as a number that is not in the queue has no effect yet),
the answer, `FeedbackTracker`, the sweep of the poll thread with its repetitions. The
age of a command is abstracted: the sweep may find any registered command old.
`nth`, `sent`, `answers`, `missed` are auxiliary. Left out: what commands contain, the
turnaround delay (an item put back keeps its place); the pause of the poll is in
`Addressing`.
Broadcasts are never registered, so the second lookup of `_resolve` and the broadcast
branch of the sweep cannot be reached from `send`.

**Addresses.** `Addressing` holds the registry (`reg`: known, address, duplicate flag
and `in_ota` of each MAC), the transmit queue and the answers of each worker, the poll
loop with its round-robin index `rr` and its pause `paused` (`poll_pause_until`, set by
every `send_cmd`), the assignment and removal of addresses by the panel (`gui` is the
`assign_address()` that stands between its check and its commit), and the nodes: their
EEPROM address `naddr`, the deferred discovery reply `disc`, the deferred acknowledgment
`ack` and their OTA mode `boot`. The loop passes over nodes whose flag `in_ota` is set
and goes on after a poll that is still in the queue or was never answered. Of an update
there is what bears on this: `ota` holds the node and the address of the session, and
`marks` the calls of `set_ota_flag()` that are still to come, because `start_ota()` and
`_finalize_ota()` make them after the lock is released; a session that is replaced
before it was finalized never makes its second one. A node in OTA mode answers
GET_STATUS and nothing else. Its operators are the methods: `Upsert`, `RecomputeDups`,
`RemoveByBridge`, `SetOtaFlag`, `CanAssign`, `NextFreeAddr`, one per handler of the
node, `Receive` for the dispatcher of the worker. A frame that leaves the transmit
queue is handled by the nodes at once; answers travel and may be lost. Left out:
`has_code`, versions, touch masks, and the status request for a node without address,
which is broadcast and answered by nobody.

`AutoAssign` is the wizard that numbers the nodes in the order they are touched. It is
a set of callbacks that start each other with `QTimer.singleShot`; a callback that is
due is a member of `tempClear`, `tempSet`, `kicks` or `jobs` and runs some time later.
A member of the first two also says whether it is a retry: the procedure becomes active
when all first calls have run, so a retry that a broken link put off may come after that
and write a temporary address over a number in the registry.
What the registry learns meanwhile is arbitrary within a bound (`Hear`), which
`Addressing` justifies. One procedure is followed from its start.

**Games.** `GameCommands` is the way of a request to frames. A body (a record of what
the handlers tell apart in it) is turned by `Plan` into the sequence of steps the
handler takes; a thread takes them one at a time, and links, updates, new bridges and
other threads come in between. A walk over the dictionary of bridges (`Sweeps`: the
hide commands, `get_bridges`, `_find_node`) raises when a bridge was added under way; a
TCP message that is JSON but no object ends the thread of its client (`Die`), whose
handler stays in `_clients`. It covers `PUT /api/nodes/set`, the `/api/v1` routes,
`_dispatch` of the TCP server with the hide tokens and their walk over the bridges,
and the action game with its stage lock. `epoch`, `coloured`, `missed`, `owed` are
auxiliary. `on_touch` of the action game is left out: nothing calls it. Switching the
game off leaves `_action_game` set, and a new game starts with open locks (`SwitchOn`).

`GameEvents` is the way of an event back to the games: the REST queue with its limit,
the event queue of the window and its pump, broadcasts to TCP clients with their dead
list, and the poll of `ActionGame.py` with its busy flag. Events come from the workers,
from the RBusPoller thread (feedback of commands that are retried or given up) and from
the main thread (`Main`: connected, disconnected), and all of them may speak of the same
bridge; an event is known by the thread that emitted it. The two programs are wired
differently (`wiring`). In the window the GUI thread takes the events out of one queue
and broadcasts them, so that all clients see one order (SameOrder). On the console
(`run.py`) the threads broadcast side by side: two clients may see the events of two
threads in different orders, even those of one bridge, and only the order within a
thread is kept (InOrderWithoutGaps).

`NodeGames` is the node outside OTA: `node` holds the four engines, the key ring, the
key display, the active effect and the two locks. Every game command of
`FrameRx::dispatchBody` is one operator; the tasks of `loop()`, the touch of the key
and link supervision are actions. `cont` is the rest of a task whose LED push is
running; frames are handled in every state, everything else when `cont` is "none".
Only pushes after which a task still writes state are steps of their own, that is for
the effects and the touch: those of the error display, which ends with `effect_stop()`;
the one that leaves the idle effect, before the engines are asked for the key; and those
of a game that is hit or a grid that is left, before the key ring sees the press. Pushes
that follow each other with nothing written in between are one. Times, colours, pixels
and the foot pads are left out.

The `MC...` modules give the constants values. Operators marked "Variant with a bug"
are used by no specification: they are plausible mistakes, each paired in
PROJECT.json with the property that notices it.

## 3. Runs

| Run | Bounds | Shows |
|---|---|---|
| `ota_flash` | 5 chunks, 3 frames in flight, retry limits of the code (5 and 10), all hazards, fair | TypeOK, DoneMeansCommitted, CommittedImageIsWhole, `IInv`; the transfer implements `FlashPromise`; EndsUnlessNodeKeepsAsking |
| `ota_false_done` | 257 chunks, late answers only | violation, section 4 |
| `batch_verdicts` | 2 bridges, 3 nodes, 2 orders, everything; `SmallOrders` | TypeOK, NoOrphanSession, OncePerOrder, CountsAreRight, VerdictsAreTrue, NobodyLeftWaiting |
| `batch_ends` | 1 bridge, 2 nodes, 2 orders, single updates and links, fair | BatchEnds |
| `batch_all_flashed` | 2 bridges, 1 node each, nothing goes wrong | violation |
| `command_path` | the same command sent twice, 1 repetition, all troubles, fair | TypeOK, OneVerdict, AnswersUsedOnce, EveryCommandConcluded |
| `addressing` | 1 bridge, 2 nodes that start with the addresses 1 and 2, 1 click, 1 fault, 2 polls queued, fair | TypeOK, DupsAreFlagged, RegistryHeals, PolledAgain |
| `auto_assign` | 2 bridges, 3 nodes, 4 addresses of which 3 and 4 also temporary, 1 surprise, fair | TypeOK, NumberedOnce, TouchedIsNumbered |
| `wizard_complete` | 1 bridge, 2 nodes, no surprise | violation |
| `game_commands` | 2 bridges, one added late; any of 18 requests next to one of 3 rivals; 1 surprise, fair | TypeOK, StageColouredOnce, OkMeansSent, TokensReachAll, EveryRequestAnswered |
| `game_events` | both programs, 2 threads with 5 events, 2 TCP clients or 2 polls, a queue of 2, fair | TypeOK, EachEventOnce, SameOrder, InOrderWithoutGaps, TcpArrives, RestArrives |
| `node_games` | 4 frames, any touches, lost links and restarts, fair | TypeOK, OneEngineAtATime, EffectsAreOwned, ResultsAgree, PlaysEnd |

**Bounds.** `WireBound`: frames in flight before a timer may add one; a request and its
answers are never held back. `ProgressBound`: a progress event is only added to a
short event queue; verdicts always are. `MaxOrders`, `MaxClicks`: what the operator
orders. `MaxFaults`, `MaxSurprises`, `MaxFailures`: what goes wrong. `BusBound`:
answers on the bus while the worker sends. `PollBound`: polls that wait in a transmit
queue; two is one more than a loop that waited for its answers would have. `Given`: the
addresses the nodes may start with. `MaxActivations`, `MaxRequests`,
`MaxConnects`, `Jobs`: games, requests, connections and polls of the clients.
`MaxFrames`: frames a node handles.

Five chunks have a first, a last and several middle ones, and the window of the
protocol is one chunk, so more of them only repeat the middle; the effect that depends
on 256 packets has a run with 257. `ByteMod` is 256 throughout. Three frames in flight
are a repeated request, its answer and the answer to the original, which is what every
known hazard needs. The safety properties do not depend on these or any other bounds:
section 5 proves all of them for every value of the constants, those of an update that
speak of the last chunk under LastChunkTellsItself. Two commands with one key are the smallest case in which an answer can be
taken by the wrong one. `max_retries` of `feedback.py` 114 is 2; the run takes 1, which
already has an original, a repetition and the last sweep. Two nodes and two addresses
are what a duplicate needs; it comes about when one is assigned before the other was
heard. An update in `addressing` uses up the click and the fault, so the run has no
command of the operator that an update refuses, only its flag, its node in OTA mode and
the discoveries and polls it stops. In the wizard 3 and 4 are numbers and temporary addresses
at once, so that both kinds meet. `SmallOrders` follows a batch over two bridges until
it is stopped or disconnected, and what a stop and second orders do on the first
bridge with the second at rest: the batches of two bridges share no more than the
counters. In `game_events` a behaviour has TCP clients or the REST client, since these
share nothing but the events. Four frames are an armed game, what replaces it in a
push, and two more.

Deadlock is not checked: the systems may stop (an update has its verdict, a batch is
over, every command is concluded, the bounds are used up), and what must not stop is a
liveness property.

**Fairness** is that of threads, timers and the bus, never of luck. The worker's loop
always turns (`Receive`, `Tick`, `WorkerStep`, `Transmit`), a frame does not stay on
the wire for ever, the GUI handles its events and its due timers, a request thread
runs, `loop()` calls every task again and an LED push ends. A deadline passes whatever
is in flight, hence strong fairness of `Tick`, which the bound alone can disable. A
command that stays registered is found by a sweep. In `Addressing` everything is weakly
fair (the poll, the discovery of every ten seconds, the flag that is to be set, the end
of a pause and of an update, a broken link that is tried again), except that a poll
leaves a queue in which nothing else keeps waiting: strongly, since a discovery goes
ahead of it every ten seconds but not all the time. That a node comes out of OTA mode is
*not* assumed. The GUI's timer fires: a panel that opens a message box in the middle of
an event (`_slot_completed`, `gui/batch_ota_panel.py` 548 and 554) stops the broadcasts
until the operator closes it, and TcpArrives assumes that he does. For `BatchEnds` a session is
assumed to end; `OtaFlash` shows when it does: EndsUnlessNodeKeepsAsking excepts the
one case in which it need not. Losses are bounded by `MaxFaults` in `Addressing`: RegistryHeals is a statement
about the time after the last of them.

**Limits of the claims.** CountsAreRight and the second half of VerdictsAreTrue are
claimed only while the batch is the only update ordered (`orders <= 1`). Otherwise a
node can be counted twice: its progress event turns PENDING into FLASHING, the verdict
of the single update counts it, and it is still in its queue; and an event of a
stopped batch that is handled after the next one began is taken for one of the new
batch. NoOrphanSession and OncePerOrder are checked with all of these, but no property
says that `batch_ota.py` 295 counts right in such a case.

PromiseKept allows an update to fail at any time, as the bus may always fail it; so it
does not exclude a failure caused by a BOOT_ERROR of another node or, in two sessions
in a row, by an answer to the first. RegistryHeals and PolledAgain except nodes that stay
in OTA mode for ever (section 4). SameOrder is about the window. EveryRequestAnswered
excepts the TCP message that is no object. OkMeansSent
leaves out requests that colour single nodes and pixel counts: the code does not look at
the results of those frames. OneEngineAtATime excepts the FAIL display, which GAME_FAIL
starts without stopping anything.

## 4. What the runs found

Three statements of the code base do not hold; PROJECT.json quotes each.

1. `ota_false_done`: if the number of the last chunk is a multiple of 256, a second
   answer to that chunk is read in END as the success of UPDATE_END, before the node
   has handled it. `LastChunkTellsItself` excludes this, and the proofs assume it.
2. `batch_all_flashed`: two bridges that end together complete the batch before the
   second verdict is counted; the panel may announce that all nodes were flashed.
3. `wizard_complete`: two touches before `_process_queue` runs schedule it twice; both
   nodes get the same number, the second is refused, and the log says that all nodes
   were numbered.

Two more texts do not agree with the code in ways the models contain and no run is
spent on:

* `gui/ota_panel.py` 238 tells the operator that all ordinary traffic of the bridge stops
  during an update, `service.py` 16 that polling and discovery do, `service.py` 152 that
  no frame goes on the bus. What was queued, or had passed the check, before the session
  began is transmitted during it (`CommandPath`, `Addressing`).
* `game_bridge.py` 17 and 630 say that events are broadcast by the GUI thread. On the
  console the emitting threads do it (`run.py` 57-65), and two clients may see different
  orders (`GameEvents`).

The models also follow the code where it may surprise without contradicting a text:

* any other late answer to the last chunk is read in END as a refusal of UPDATE_END;
* a node that restarted refuses every chunk with a NACK, and as these resends are not
  counted the session may repeat the chunk for ever;
* a node left in OTA mode may stay in it for ever: every frame for it puts off its time
  limit (`main.cpp` 4121), and the discovery of every ten seconds is for every node. It
  is then not polled, and an address given to it is not taken;
* an answer that is read between the transmission and the registration of a command is
  dropped, and the command ends as TIMEOUT if no repetition is answered;
* the retry of a temporary address may come after the node got its number, see `AutoAssign`;
* a game armed in the last push of the error display loses its effect and its LED lock
  to `effect_stop()`, and plays on without them;
* a TCP message that is JSON but no object ends the thread of its client without an
  answer (`game_bridge.py` 370), while the client still gets broadcasts; the walk of the
  accept thread over the bridges (578) ends that thread if a bridge is added under way;
* the window does not put events of kind "game" into the REST queue, the console does;
* a wrong Motion or GridEffect is refused after the fields before it were sent.

## 5. Proofs

Every safety invariant, action property and refinement the passing runs check is also a
theorem, for every value of the constants the named assumptions of the modules allow.

| Module | Theorem | States |
|---|---|---|
| `OtaFlash_proofs` | TypesHold, ImageIsWhole | `[]TypeOK`, `[]CommittedImageIsWhole` |
| | DoneIsTrue | under LastChunkTellsItself, `[]DoneMeansCommitted` |
| | PromiseIsKept | under LastChunkTellsItself, `PromiseKept`: the update implements `FlashPromise` |
| | InvariantHolds, SidesStayTogether | under LastChunkTellsItself, `[]IInv`, and from it AckedChunksAreStored and NodeNeverSeesGap |
| `BatchOta_proofs` | BatchTypes, NobodyIsAbandoned, FlashedOncePerOrder | `[]TypeOK`, `[]NoOrphanSession`, `[]OncePerOrder` |
| | CountersAgree, VerdictsHold, NoTargetForgotten | `[]CountsAreRight`, `[]VerdictsAreTrue`, `[]NobodyLeftWaiting` |
| `CommandPath_proofs` | PathTypes, NoSecondVerdict, NoAnswerTwice | `[]TypeOK`, `[]OneVerdict`, `[]AnswersUsedOnce` |
| `Addressing_proofs` | DuplicatesAreSeen, AddressesInRange | `[]DupsAreFlagged`, `[]TypeOK` |
| `AutoAssign_proofs` | NumbersAreFinal, NoneMarkedWaits, WizardBounds | `NumberedOnce`; a numbered node waits in no queue; `[]TypeOK` |
| `GameCommands_proofs` | CommandTypes, StageIsColouredOnce, OkIsSent, TokensArrive | `[]TypeOK`, `[]StageColouredOnce`, `[]OkMeansSent`, `[]TokensReachAll` |
| `GameEvents_proofs` | EventTypes, NothingTwice | `[]TypeOK`, `[]EachEventOnce` |
| | SentWithoutGaps, WindowHasOneOrder | `InOrderWithoutGaps`, `[]SameOrder` |
| `NodeGames_proofs` | OneEnginePlays, EffectsEndWithEngines | `[]OneEngineAtATime`, `[]EffectsAreOwned` |
| | ResultsAlwaysAgree, NodeTypes | `[]ResultsAgree`, `[]TypeOK` |

**Assumptions.** Bounds are natural numbers, and each node is wired to one bridge. Sets
that are counted are finite: nodes and bridges (`BatchOta`), nodes (`Addressing`,
`AutoAssign`), commands and keys (`CommandPath`), as they are in a registry, which is a
dictionary. The temporary addresses of the wizard start within the addresses (0xE0 up
to 254). Only `LastChunkTellsItself` is a restriction the code does not guarantee;
`ota_false_done` shows what happens without it.

**The image.** `HandleEnd` commits when the *number* of written chunks is right, so the
invariant must know that the chunks written are 0, 1, 2, ... in order and that
`expectPkt` counts them (`StoreInv`); the packet index stays in the image only because
FLASH means that it is smaller than the number of chunks. `LocalInv` is `TypeOK`,
`StoreInv` and `CommittedImageIsWhole`. It needs nothing about the bus: the node alone
protects its image.

**The success report** needs the bus. The session takes any answer that starts with a
zero byte for the answer to UPDATE_END. `RoundInv` says that requests and answers
travel round the loop sorted by *stage* (ENTER_BOOT, UPDATE_START, the chunks,
UPDATE_END), that what is in flight of a running session is at most one stage behind
it, and what each acknowledgement can say. An answer that moves the session on leaves
nothing older behind it (`MovesOn`), so in END only the answers to the last chunk and
to UPDATE_END are left, and the former tells itself by its number.

**The promise** is a step simulation: with `RoundInv` each call of the session and each
handler of the node stores the next chunk, empties the store, commits the image, gives
a verdict, or changes none of the three.

**The drift** of the two sides is neither in `IInv` nor in `RoundInv` alone. `DriftInv`
adds that frames on their way to the node span two stages even after the verdict, when
the window says nothing (`Spread`), so that a second UPDATE_START is followed by no
chunk but the first; and that a node that receives is at most one chunk ahead of the
session (`Ahead`). With these an acknowledged chunk is stored and no chunk is out of
order, also across restarts.

**Batches.** `BridgeInv` is about the workers alone: what a worker has in its hands
between two steps is a session of its own bridge that is over, so clearing `_ota`
abandons nobody. `EventInv` ties each event in flight to the session it speaks of, and
`PlanInv` says what the queues of the batch hold and what the rest of a running call
may be. `OrderInv` counts: the sessions a node had, its places in the queues and the
starts still to come are together no more than the orders, which is OncePerOrder made
inductive. `StatusInv` says that who is PENDING is queued, from which completion leaves
nobody waiting; the counters need that, while one order is the only one, a queued node
has no verdict yet.

**Commands.** `TrackerInv` says that a command is registered in one place at most, under
its own key or in the list of the sweep, and only as long as no report on it was given;
hence one verdict, whoever comes first. AnswersUsedOnce is inductive as a sum
(`CountInv`): the answers on their way and the reports that used one are together no
more than what the node did.

**Duplicates.** The registry is written in four ways (`RegWrite`): an upsert, a removal
by bridge, the flag `in_ota` of one node, nothing. `RegInv` is kept by each of them, and `NamesInv` says that answers
on the bus and the running assignment name nodes. For the ranges (`RestType`) the poll
index is reduced by the number of nodes before it is used, although that number may
have changed since it was stored, and `next_free_addr` has a least free address.

**Numbers.** `NumbersInv`, `QueueInv` and `MarksInv`: who has an assignment due or a
number is marked, not both, and whoever waits is not marked and waits once. So no
assignment can reach a numbered node. The bounds rest on a budget (`BoundsInv`): runs of
`_process_queue` that are due, assignments that are due and targets not touched yet are
together no more than the nodes.

**Requests.** A plan is a sequence, and `TodoInv`, `OwnInv` and `CleanInv` say which
steps can stand in whose plan; nothing is claimed about their number. The first frame
of a clean request that is turned away spoils its result for good (`CleanInv`), and the
walk of a token has still to visit every bridge it owes a frame (`TokenInv`), which
needs that bridges come into service one after the other (`OwedInv`). For the start key
(`StageInv`): a colour step that is pending was planned under the lock of the opening
it is marked with, no two pending steps have the same mark, and as long as one of the
present opening is left the key was not coloured in it.

**Events.** For EachEventOnce the places an event can be in are disjoint (`OnceInv`) and
an emitting thread is at a place that agrees with what it has put in the queues
(`StageInv`). For the order, the queues of the window hold the events of a thread one
after the other (`QueueInv`), and what a client has not got yet is all still on its way
to it (`NoGapInv`, `LastInv`); a client in the list of the dead gets nothing more. For
SameOrder, what a client was sent is of a kind that goes over TCP (`KindInv`), so of two
connected clients one can be ahead of the other only by the event `_pump()` is at, and
that is an event of one thread.

**Node games.** `Good` is a property of one node state (its type, one engine, owned
effects), closed under every operator the handlers are made of; a resumed task starts
from whatever state the frames meanwhile have left, and is right from each. The
results need more: what `told` may hold in each phase of each engine and for each rest
of a task (`Less`, `Started`, `PlayInv`).

**Data.** The provers cannot instantiate a theorem of induction. The one lemma that needs
one, about a walk along the bridges (`Over`), is proved by least counterexample: the set
of numbers for which the claim fails, if it is not empty, has a least member (`WFMin`),
and its predecessor is one for which the claim holds.

**Only model-checked:** liveness, which TLAPS does not handle under fairness: BatchEnds,
EndsUnlessNodeKeepsAsking, EveryCommandConcluded, RegistryHeals, PolledAgain,
TouchedIsNumbered, EveryRequestAnswered, TcpArrives, RestArrives, PlaysEnd.

## 6. Not modelled, and the plan

Nothing a state machine would add: rendering of effects and the LED mapping
(`core/effect_engine.py`, `core/led_mapper.py`), colours, sounds and windows of
`ActionGame.py`, `gui/command_panel.py` and `gui/log_panel.py` (forms that call
`send_cmd` once), loggers, configuration, launchers, the simulator, and the top-level
`protocol.py`, a duplicate. External: the ESP8266 core with its `Update` library, TCP,
Qt.

Left out of modelled components, and worth doing next:

1. Frames: `parse_frame`, `build_frame` and `FrameRx::tick` as pure operators against
   a reference reading of a byte stream.
2. Two OTA sessions in a row on one bridge, with the answers of the first still on
   their way.
3. The node's poll answers with their touch queue, the foot pads, the heartbeat.
4. Larger instances of `Addressing` (two bridges, an update and a click) and `GameCommands` (three threads),
   which TLC does not finish in the time of a run.
5. Proofs: the steps of the liveness arguments that are not temporal (what a helpful
   action of the worker or the poll brings nearer to its end, and that no other step
   undoes it), and abstract specifications of a command and of an event, with the
   detailed modules shown to implement them.
