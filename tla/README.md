# A verification project for Sparta_Homework_07

TLA+ models of the two programs in this repository. One is the C++ gameplay
code under `src/Source/Sparta_Homework_07` (Unreal Engine 5.5): the laser
puzzle, the exchange of player pawns, the maze of falling platforms, the flight
of the drone, the jump of the pawn, and the doors and platforms of the level.
The other is the editor plugin under `src/Plugins/Developer/RiderLink`, which
keeps the editor and an IDE in step over a socket: the wire of its RD
framework, the life of the shared model, the play controls and synchronous
calls. TLC checks each model on small instances; TLAPS proves the most
important invariants for every value of the constants.

The repository has no design document or tests; the code, its comments and the
messages it logs are the only reference. What a blueprint, the level or the engine
decides is marked *external* in the modules and taken as widely as the code
allows.

Line numbers below are those of the `.cpp` files in `Private/`, and for the
plugin those of the file named.

## 1. Inventory

### The game

All gameplay runs on the game thread. The engine calls `Tick` of every actor
once a frame, in no order the code fixes; between two Ticks it runs input
handlers, overlap events, timer callbacks and, from time to time, the garbage
collector, which frees destroyed objects and nulls `UPROPERTY` pointers to them
(but no raw pointers). The hard behaviours of this code are therefore orders
of Ticks and events, pointers and flags that outlive what they describe,
operations that partly fail (`SpawnActor`), and reactions that must come to an
end.

| Component | State | Operations | Interacts with | Correct when |
|---|---|---|---|---|
| **Lasers**: `ALaser`, `ALaserSpawner`, `ALaser_Parents`, `ILaserInterface` | `LaserID`, `LastHitActor`, `CurrentHitActor`, `BounceLaser`; `ChildLasers` of a spawner; `LaserAttached` and `bActive` of a device | `Tick`, `SetLaserEndPoint`, `CancelTargetHit`, `RemoveFollowingLaser`, `AddLaserChild` | `LaserBounce` of the device hit; `RemoveFollowingLaser` of the spawner, which calls `CancelTargetHit` of other beams | the beams in the world are those the devices show, save what a beam turned into the void leaves behind (section 6); no null `BounceLaser` is used; the root survives |
| **Mirror, splitter, target**: `ALaserReflection`, `ALaserSplit`, `ALaserTarget` | `LaserAttached`, `bActive` | `LaserBounce(true/false)`, `ClearAttachedLasers`, `SpawnSplitLaser` | spawn beams, register them with the spawner | a target is lit exactly while it is the last actor a live beam hit: one that ends on it now, or has been turned from it into the void (section 6) |
| **Possession**: `ASpartaPlayerController` with `APawnCharacter`, `ASpartaCharacter`, `ADronePawn` | the possessed pawn, `PlayerPawn` (raw), the mapping context, `bIsGrabbing`, the function-static `ToggleGrabbing` | `SpawnDrone`, `ChangePlayer`, `ReturnPlayer`, `Grab`, the hold in `Tick` | handlers call `ChangePossess`, `ChangeMappingContext`, `SetPlayerPawn` of the controller, and destroy pawns | there is a way back from the drone; the player is always in control; the keys fit the pawn; what is held can be let go |
| **Maze**: `ARandomMazeSpawner` | the grid, the frontier queue, entrance and exit | `GenerateMaze` (`MarkCell`, `AddFrontier`), `SpawnMaze` | spawns one `AFallPlatform` per cell | a spanning tree of the rooms with one entrance and one exit |
| **Falling platform**: `AFallPlatform` | `IsFalling`, one timer handle, physics, `OriginTransform` | overlap, `FallingPlatform`, `ResetPlatform` | timer manager, physics | one handle serves two delays without mixing them up |
| **Drone flight**: `ADronePawn` | `bDroneOff`, `bIsGround`, `VerticalVelocity`, `CurrentSpeed` | `Move`, `DroneOff`, `CheckGround`, `Tick` | the floor | switched off it comes down; no fall is carried over |
| **Pawn motion**: `APawnCharacter` | `bMove`, `bIsGround`, `bIsFalling`, `bPressedJump`, `bJumpFirst`, `JumpSpeed` | `Move`, `StartJump`, `StopJump`, `Tick`, `CalNewLocation`, `CheckGround` | the floor | a jump lifts it, and it lands |
| **Buttons and doors**: `AActionButton`, `AMoveDoor` | `IsMoved`, `IsSpawned`; `bActive`, position | overlap; `Tick` | a button sets `bActive` of a door, or spawns an actor (in the level: the splitter) | a pressed button opens its door, nothing else does |
| **Moving platform**: `AMovePlatform` | position, `Direction` | `Tick` | its rider | to and fro without a jump |
| `ARotationPlatform`, `ATrampolinePlatform`, `ISelectableInterface`, `ASpartaGameMode` | none of their own | | | not modelled, see section 8 |

### The plugin

Four threads meet in it: the thread of the wire (connects, resends, reads), the
asynchronous thread of `ByteBufferAsyncProcessor` (sends), the thread of
`MainScheduler` (runs queued tasks one by one, owns the model) and the game
thread (delegates, `AsyncTask`). The logging thread is a fifth. Its hard
behaviours are those of threads and of a network: a step of one thread between
two of another, connections that break at any point, messages sent again,
references to a model that is replaced, lifetimes that end on another thread
than the one that uses them.

| Component | State | Operations | Interacts with | Correct when |
|---|---|---|---|---|
| **Wire**: `SocketWire`, `ByteBufferAsyncProcessor`, `PkgInputStream` | `data`, `queue`, `pending_queue`, three sequence numbers, `interrupt_balance`, `state`; the socket; `max_received_seqn` and the stream | `put`, `ThreadProc`, `process`, `resume` with `reprocess`, `pause`, `acknowledge`, `stop`; `set_socket_provider`, `send0`, `read_package`, `send_ack` | two threads at each end, the other end over TCP | no message is lost, repeated or overtaken; what is acknowledged was dispatched |
| **RiderLink**: `FRiderLinkModule` | `EditorModel`, `RdIsModelAlive`, `ModelLock` | `InitProtocol` and its tasks, `ViewModel`, `QueueAction`, `FireAsyncAction` | the wire's `connected`, `MainScheduler`, all other modules of the plugin | the model is alive just when there is a connection, and is not replaced while it is used |
| **Game control**: `FRiderGameControl`, its module | `GameControl`, the delegate handles, `playMode` | constructor, delegates, requests, start-up, shutdown | engine delegates on the game thread, `ULevelEditorPlaySettings`, signals of the model | Rider and the editor show the same; each request is answered |
| **Calls**: `RdCall`, `WiredRdTask` | `sync_task_id`, the result of the task | `sync`, the reply, cancellation by the lifetime | the wire, the broker; used by `RiderBlueprint` | a call is refused only while another is under way |
| **Scheduler, lifetimes, broker** | the queue of tasks; actions of a lifetime; subscriptions | `queue`, `terminate`, `add_action`, `dispatch`, `invoke` | all of the above | as far as the modules above rest on them |
| Logging, blueprints, live coding, shader info, debugger support; properties, maps and ext of RD; generated models; third-party code | | | | partly or not modelled, see section 8 |

The hazards of `PROJECT.json` list what is hard to test in each, at its line,
with the properties that watch over it.

## 2. Modules

| Module | Models | Composes |
|---|---|---|
| `LaserNetwork` | beams, spawners, mirrors, splitters, targets | |
| `LaserNetwork_proofs` | proofs about it | |
| `LaserChain_proofs` | proofs about the chains of beams that mirrors alone make | |
| `Possession` | controller, the three pawn classes, grabbing | |
| `Possession_proofs` | proofs about it | |
| `Maze` | `GenerateMaze` | |
| `FallPlatform` | `AFallPlatform` | |
| `MazeFloor` | `SpawnMaze` and the floor it builds | `Maze` (EXTENDS), `FallPlatform` (INSTANCE, one per cell) |
| `MazeFloor_proofs` | proofs about the maze and its floor | |
| `DroneFlight` | vertical flight of the drone | |
| `PawnMotion` | vertical motion of `APawnCharacter` | |
| `ButtonDoor`, `MovePlatform` | buttons and doors; platforms | |
| `Machinery` | both, ticked by one world | `ButtonDoor`, `MovePlatform` |
| `Machinery_proofs` | proofs about it | |
| `Level` | the actors of a level that share nothing but the world | `Machinery` (EXTENDS), `FallPlatform`, `DroneFlight`, `PawnMotion` (INSTANCE) |
| `Level_proofs` | proofs about its falling platforms | |
| `Outbox` | what the sending end of a wire promises | |
| `Wire` | one direction of a `SocketWire`, both its ends and the sockets | `Outbox` (INSTANCE, refinement) |
| `Wire_proofs` | proofs about it | |
| `RiderLink` | the model and its connections | |
| `GameControl` | the play controls over it | `RiderLink` (EXTENDS) |
| `GameControl_proofs` | proofs about both | |
| `Call` | synchronous calls | |
| `MCLaserNetwork`, `MCPossession`, `MCLevel`, `MCGameControl` | constants and symmetry for TLC | |

Definitions named `...Late`, `...Dropped`, `...Never` and the like that follow a
comment `MUTANT` are deliberately wrong variants of the definition below them.
No specification uses them; substituting one must break a property, which shows
that the property depends on that piece of the code.

### LaserNetwork

A beam's `LaserID` is the spawner's display name and one letter per device
passed. The model keeps `owner` and `path` (the letters); `FString::Contains`
on two IDs is `IDContains`: prefix of the path under one owner, and, across
owners, what `NameWithin` and `NameEnds` say of the display names. Geometry is
replaced by `sight[l]`, what the line trace of beam l hits; `Aim` changes it
whenever something is turned or carried.

`ALaser::Tick` (21-65) is split by its branches: `TickArrive` (new actor, the
old one no device), `TickLeave` (the old one is a device: `RemoveFollowingLaser`
runs first), `TickLost` (the trace misses and the stale actor is destroyed),
`TickCrash` (the beam rests on a mirror and `BounceLaser` is null). The loop of
`RemoveFollowingLaser` (LaserSpawner 35-47) is modelled one iteration a step
(`SweepSkip`, `SweepCancel`, `SweepDone`); `sweep` holds the control, so nothing
else moves until that Tick is over, as in the code. `SweepCancel` is the whole
of `CancelTargetHit` with the `LaserBounce(false)` it calls. `Collect` is the
collector: it nulls `BounceLaser` and list entries, which is what makes a stale
`BounceLaser` a null one.

`last` is `LastHitActor`, the last actor hit, which the code does not reset
when the trace misses (88-96). So `last[l] = d` does not say that the beam ends
on d. The properties therefore speak of what the line hits: beam l *sees* d
(`Sees`) when its line ends on d, and *lingers* on d (`Lingers`) when its line
misses and d is the last actor it hit. The network is `Settled` when every beam
has reacted to what it hits.

### Possession

Enhanced Input runs the handlers that fired in a frame one after another, in
the order they were bound; `Frame` collects them for a chord of keys, each
handler is an action, and a later handler may run on a pawn that an earlier one
has just stripped of its controller (`NoController`) or destroyed (`Unbound`).
`SpawnActor` may fail for every class in `MayFail`. `Destroy`, `Collect`,
`SpartaFalls`, `ItemFalls` and `TickHold` give the life of pawns and of what
they hold.

### Maze, FallPlatform, MazeFloor

`Maze` has one action per part of `GenerateMaze` (79-136): `Start`, an
iteration of the loop (`Grow`), its end (`Grown`), and the doors (`Doors`).
Weights only order the queue, and `rand()` allows any order, so a pop takes any
entry. In `FallPlatform` only the sign of the two delays matters, because
`SetTimer` with 0 clears the timer; how long a positive delay lasts is left
open. `MazeFloor` runs `SpawnMaze` (138-166) on the finished maze and then any
walk over the floor.

### DroneFlight, PawnMotion

Speeds are lengths per Tick; height over the floor is the only coordinate.
`Contact` and `Low` are where the sweep of `Tick` touches or is stopped by the
floor, `Reach` is what `CheckGround` sees. Horizontal motion appears only as a
change of the floor's height (`OverFloor`, `Depths`).

### ButtonDoor, MovePlatform, Machinery

Steps have varying length (`MoveSpeed * DeltaTime`), at least 1 and at most
`MaxStep` or `MaxMove`.

### Level

`Level` puts the actors that stand on their own into one world, so that one run
checks them. They share no state, therefore a behaviour of the level is one of
each of them; `part` chooses which of them a behaviour follows, and the rest
stay at their start.

### Wire and Outbox

`Wire` models one direction: an end that sends and an end that receives (both
ends run the same code). The sending end has two threads. The asynchronous one
(`AsyncThread`) is split where it holds no lock: `Take` (ThreadProc up to 161),
`Process` (it has `queue_lock`), then for each message `Send` (the call of the
processor) and `Record` (119-121), because an acknowledgement can be read by the
other thread between the two. The wire's thread (`WireThread`) exchanges the
socket (`Connect`), waits for the locks and drops what is acknowledged
(`Reprocess`), resends one message after another (`Resend`), unpauses
(`Resumed`), reads acknowledgements and, when the connection is gone, pauses
(`Disconnected`). Locks are guards: `Resuming` stands for `lock`, which
`resume()` holds throughout, `Processing` for `in_processing` and `queue_lock`.

Connections are numbered. `Break` cuts a suffix of what is under way in either
direction; what is sent later in that connection is lost, whether `Send`
reports it (`SendFails`) or not. The receiving end is `read_package` with what
follows from it: the acknowledgement, the test against `max_received_seqn` with
its exception for number 1, and what `return true` does to the stream
(`torn`). `overtaken` and `dispatched` are history variables.

`Outbox` states the promise in four numbers: put, sent, acknowledged, dropped.
`Wire` implements it, a message counting as sent from the call of `send0` on.

### RiderLink, GameControl

`RiderLink` has the task of `InitProtocol` in the steps another thread can come
between: `Replace` (the write lock is taken, the model is exchanged), `Bind`
(`connect` and `add_action`, which throw when the wire's thread has ended the
lifetime meanwhile; the scheduler catches it and drops the task), `Announce`
(84: whoever views the model is told), `Unlock` (86-94: the rest of the task; the
lock is held until then).
`Disconnect` ends a lifetime on the wire's thread and runs its action, which
queues `Gone`. A model is named by its connection.

`GameControl` adds the control. Its constructor (RiderGameControl.cpp 316-470,
with the handler at 492-496) runs on the scheduler's thread and is not atomic:
`making` says which step comes next, and between two of them the game thread
edits, plays and shuts the module down, and connections end.

| Step | Lines | What it does |
|---|---|---|
| `SubscribeEditor` | 321-440 | the delegates are registered, the model's signals advised; the delegates may be called from here on (some already during it, `Registering`), and `playMode` is still uninitialized (`Unset`) |
| `ReadMode` | 443-445 | the settings are read into a local (`got`) |
| `StoreMode` | 446 | `playMode` is assigned what was read |
| `SyncMode` | 448-451 | Rider is told the mode; throws when the model is not bound any more |
| `MarkReady` | 453-469 | Rider is told that the control is initialized |
| `Publish` | 494-496 | `GameControl` is assigned, whatever has become of the module |

`MakeControl` is one of them. When the module's lifetime has ended,
`add_action` and `bracket` throw or do nothing, and both are modelled.
`ShutdownModule` in the middle undoes the brackets passed so far. Two
history variables record the interleavings the code does not survive: `lost`
(an edit between `ReadMode` and `StoreMode`) and `late` (a shutdown while a
control is made).

What runs on the scheduler's thread runs there
at once (`invoke_or_queue`), what comes from another thread is a task that holds
a pointer to the control; when the control has been destroyed, that task may do
nothing, crash, or work on the control made since (`Tell`). A mode is a number
as in `PackToMode` and `UnpackFromMode`, five clients included.

### Call

The scheduler's thread spins in `sync`, so there is one call at a time; the
wire's thread receives the reply, or ends the lifetime. `Over` is the end of
`sync`: only a value gets past `value_or_throw().unwrap()` to the line that
clears `sync_task_id`.

## 3. Runs

| Run | Bounds | Question |
|---|---|---|
| `MirrorsOne` | 1 spawner, 2 mirrors, 2 targets, 4 beams, 2 bounces | Is the chain of beams always the one the devices show, whatever is turned while it is rebuilt? `TypeOK`, `NoOrphans`, `MirrorServed`, `UniqueID`, `LitByBeam` |
| `SplitBeams` | 1 mirror, 1 splitter of 2 beams that appears and falls, 4 beams | Does the bookkeeping survive where beams share an ID? `Registered`, `RootKept` |
| `MirrorsTwo` | 2 spawners sharing a mirror and a target | `Isolation` of one spawner's chain from the other's |
| `MirrorsSettle` | 1 spawner, 2 mirrors, 1 target, 3 beams in a chain, fairness | `Settles`: the reactions to a change end, and what is lit and shining then is what the lines show |
| `Possess` | 1 body, 2 Spartas, 2 drones, any keys in one frame, any spawn may fail, an item that may be destroyed | `WayBack`, `ContextMatches`, `OneDrone`, `HolderCanRelease`, `StillPlaying`; for a player who presses one key a frame and items that stay, `CarefulNeverCrashes` and `CarefulReturns` |
| `MazeFloor` | 7 x 5 cells (six rooms; the width given is 6), one walker, one platform falling at once | `Tree`, `FrontierServed`, `DoorsLeadIn` (with every room opened); then `PathHolds` |
| `MazeOddDoors` | 5 x 3 cells | the comment at RandomMazeSpawner.cpp:114 (violated) |
| `Level` | 2 platforms with all four combinations of delays, a character and a drone; heights to 14 (drone) and 22 (pawn), falls to 6 and 7, edges of depth 3; 2 doors with 3 buttons, 2 moving platforms, steps 1 or 2 | `OnePhase`, `StepFelt`, `ComesBack`; `OffComesDown`; `Lands`; `PressedMoves`, `DoorOpens`, `NoJump` |
| `Wire` | 3 messages, 3 connections of which the last does not break, fairness | `TypeOK`, `Bookkeeping`, `PopsPending`, `ForgottenIsDispatched`, `InOrder`, `SentIsAcknowledged`, `ImplementsOutbox` |
| `WireAckOrder` | 3 messages, 2 connections | the message at ByteBufferAsyncProcessor.cpp:259 (violated) |
| `GameControl` | 2 connections, 3 moves of the user, of Rider and of the logger, settings of 1 and 5 clients, fairness | `ReaderSafe`, `Settled`, `InStep`, `ReplacedWhenDead`, `Answered` |
| `CallBusy` | 3 calls | the message at RdCall.h:126 (violated) |

Why the bounds are enough. Chains of beams interact through their IDs, which
compare by prefix; with the two bounces of `MirrorsOne` there is a root, a beam to be cancelled and
one that follows it, and both mirrors can exchange places in the chain. Four
beam objects let a destroyed beam, not yet collected, exist beside a full
chain of three, so that a stale `BounceLaser` and a reused object both happen.
A bound makes a Tick wait (`Room`); in these runs what it excludes is unbounded
growth (section 6). `MirrorsSettle` must not owe its result to a bound, so the
divergence of facing mirrors is excluded by a hypothesis of its property: from
some point on no two live beams of a spawner end on the same mirror
(`NoMirrorTwice`). A chain over two mirrors then has at most three beams, which
is what the bounds allow (3 objects, `MaxBounce` 3, `MaxChildren` 3), and
chains of three do occur: a turn of the first mirror cancels two beams, and
the new ones appear in later Ticks, one after the other. The objects are
numbered and the lowest free one is taken (`LowestSpec`), since symmetry is not
sound for liveness; 53,453 states. In Possession
two drones and two Spartas are one more than may be live, so a second of each
can appear while the first is dead but not collected. A maze of 3 x 2 rooms is
the smallest with two independent cycles to avoid and a column of rooms in the
middle. Heights in the two motion models are chosen so that a fall starts
beyond `Reach`, passes it in one Tick, and both may or may not end below the
sweep's limit. Three connections of the wire
let two break, the second while what the first left pending is resent; a
message, its predecessor and its successor show every reordering; the last
connection must stay up for anything to be acknowledged in the end. For the
model and the control two connections are enough, since what is left over from
one meets at most the next. Each exception of `Settled` and `InStep` needs at
most two moves (without any one of them the run finds a violation); the third
lets another move fall into each of these behaviours. The theorems of section 4
hold for any number of moves.

`CHECK_DEADLOCK FALSE` is set where the system may stop: a chord run may end in
a crash or with the player's pawn gone for ever (`Possess`), a beam waits for
room in the pool (`SplitBeams`, `MirrorsSettle`), a destroyed control was used
(`GameControl`, `CallBusy`), or everything that can happen within the bounds has
happened (`MazeFloor`, `MazeOddDoors`, `Level`, `Wire`, `WireAckOrder`).

Fairness. The engine ticks every actor in every frame: `WF` of each beam's
Tick, of the drone's and pawn's Tick, of each door. (Of the moving platforms
only a safety property is checked, without fairness.) A Tick that
has begun runs to its end, as do the collected handlers and the one call of
`GenerateMaze`: `WF` of `Sweep`, `Handlers`, `GenerateMaze \/ SpawnMaze`. A
timer that is set fires: `WF` of `Timers`. The collector runs again and again:
`WF` of `Collect`. Nothing is ever assumed of the player, of what actors step
where, of physics, or of any choice of `rand()`.

In the plugin every thread that can take a step takes one: `WF` of
`AsyncThread`, `WireThread` and `PeerThread` in `Wire` (both ends connect again
and again, SocketWire.cpp 459 and 576), of `Scheduler` and `Execute` in
`GameControl`, and of the reader's end. The last connection of `Wire` does not
break; nothing is assumed of earlier ones, of those who put messages, of the
user or of Rider.

## 4. Proofs

TLAPS checks the following for every value of the constants allowed by the
named assumptions (`LaserAssumption`, `PossessionAssumption`, `DoorAssumption`,
`PlatformAssumption`, `WireAssumption`, `RiderLinkAssumption`, `ControlAssumption`, `MazeAssumption`).

`LaserNetwork_proofs`
- `TypeCorrect`: `Spec => []TypeOK`.
- `EveryBeamRegistered`: `Spec => []Registered`.
- `RootSurvives`: `Spec => []RootKept`.

`Registered` is not inductive: a cancellation removes the entry at the loop's
index from a list that earlier iterations have shortened, and the collector
nulls entries. The strengthening `RegInv` adds that every entry which is not
null is a beam of that spawner that is live or destroyed (`ListedBeams`), at
one place (`ListedOnce`); that live beams are listed (`LiveListed`); that the
loop stays within its list (`SweepInList`); and that what a device holds has
passed a device (`Held`), so that `ClearAttachedLasers` cannot reach a root
beam. The proof has a lemma for emission, for each kind of response, for each
step of the loop and for the collector; splitters and overlapping names are
included.

`LaserChain_proofs`, for levels without splitters and with display names none
of which contains another (`Plain == Splits = {} /\ NameWithin = {}`)
- `MirrorsUnique`: `Spec => []UniqueID`.
- `MirrorsServe`: `Spec => []MirrorServed`.
- `MirrorsLeaveNoOrphan`: `Spec => []NoOrphans`. In a settled network every reflected
  beam starts on a mirror that the live beam it follows from sees or lingers on.
- `MirrorsNeverCrash`: `BounceLaser` is never null when it is used at Laser.cpp:35.
- `MirrorsLight`, with one spawner (`Solo`): `Spec => []LitByBeam`. In a settled
  network a target is lit exactly when a live beam sees it or lingers on it.
- `MirrorsShow`, with one spawner: in a settled network in which no line
  misses, `ShownAsSeen` holds: the lit targets and the beams on mirrors are
  exactly what the lines show now. This is the safety half of `Settles`.
- `SpawnersApart`: `Spec => Isolation`, with splitters too.

The hypotheses are not there for the prover: with a splitter of two beams or
with overlapping names the statements are false (section 6), and with two
spawners the beam of one that leaves a shared target darkens it under the
other's. The strengthening is `ChainInv`: the list of a spawner is its chain of
beams, root first; beam i has passed i - 1 mirrors, and all but the last end on
the mirror that spawned the next (`ChainOf`). While the loop of
`RemoveFollowingLaser` runs, the list ends where the loop stands
(`SweepChain`): going backwards, it destroys the chain from its end, which is
why the index it removes at is the right one here. Only the beam whose Tick is
under way may rest on a mirror that has spawned nothing for it (`TailOff`).
Here "end on" and "rest on" mean `LastHitActor`, which the invariant is about;
so do `LitIsHit` (a lit target is the `LastHitActor` of a live beam, at every
step) and `HitIsLit` (the other way round, between two Ticks). Only in a settled
network does `LastHitActor` say what the line hits, unless the line misses:
that step leads from the invariant to the theorems.
`MirrorsOne.cfg` gives the constants of such a level.

`Possession_proofs`
- `DroneHasWayBack`: `Spec => []WayBack`.
- `PlayerInControl`: `Spec => []StillPlaying`.
- `DroneIsFlown`: `Spec => []OneDrone`.
- `ContextFollowsPawn`: `Spec => []ContextMatches`.
- `GrabCanBeReleased`: `Spec => []HolderCanRelease`.

The strengthening `PossessInv` says which pawns are in the world (`Company`: the
possessed one and, under a drone, the character it was launched from), and that
a new pawn holds nothing and the Sparta's static toggle is clear until the one
Sparta appears (`FreshHands`). The proofs allow any chords, any failing spawns
and any number of pawns.

- `PossessionTypes`: `Spec => []TypeOK`, the queue of handlers included.
- `CarefulIsSafe`: `PlaySpec => []CarefulNeverCrashes`, where `PlaySpec` (in
  `MCPossession`) records whether the player has been careful.

The invariant of the latter, `Care`: while the player presses one key a frame
and items stay, the queue is empty or holds one handler of the possessed pawn
(it binds two actions at most, one per key), so no handler runs on a pawn that
an earlier one of the frame has stripped of its controller; and who is grabbing
holds something.

`MazeFloor_proofs`
- `NoRoomIsDropped`: `Spec => []FrontierServed`.
- `EveryRoomAndBothDoors`: `Spec => []DoorsLeadIn`.
- `PathNeverFalls`: `Spec => []PathHolds`.
- `MazeIsTree`: `Spec => []Tree`, where `Tree` says that the open rooms and passages are
  always connected and have one passage less than rooms.

`FrontierServed` needs that only rooms are marked, that is the parity of the
coordinates, and `Spreading`: what is around an open room is open or on the
frontier. When the frontier is empty, all rooms are then open (`AllRooms`): of
the closed ones take one as near as possible to an open room; the next room on
the way is open, so this one is on the frontier. (The library's theorem that
every set has a minimal element stands in for an induction.) The floor adds
that only a platform with a holding time ever moves (`HoldsFirst`), and that an
open cell's has none (`Built`). `Tree` needs that a wall between two rooms is
opened with the second of them (`WallsLast`): each turn of the loop then adds
one closed room and the one closed wall between it and an open neighbour. Both
counts grow by one, and of every division of the open rooms in two the new
passage, or one that was there before, crosses it.

`Level_proofs`
- `TimerBelongsToPhase`: `LevelSpec => []OnePhase`.
- `EveryStepIsFelt`: `LevelSpec => []StepFelt`.

The two together with the types are inductive (`FallInv`).

`Machinery_proofs`
- `OnlyPressedDoorsMove`: `Spec => []PressedMoves`, with `PressInv`: an active
  door was pressed.
- `PlatformsDoNotJump`: `Spec => NoJump`, with `InRange`: a platform at an end
  of its way is already turned back, without which the clamp could throw it to
  the other end.

`Wire_proofs`
- `WireTypes`: `Spec => []TypeOK`.
- `SenderKeepsBooks`: `Spec => []Bookkeeping`.
- `NeverPopsEmpty`: `Spec => []PopsPending`.
- `WireImplementsOutbox`: `Spec => ImplementsOutbox`.
- `WireDeliversInOrder`: `Spec => []InOrder`.
- `WireForgetsDispatched`: `Spec => []ForgottenIsDispatched`.

The invariant is `WireInv`. To the three above it adds that
`current_seqn - 1 <= acknowledged_seqn`; that no package and no acknowledgement
under way in any connection carries a number beyond what was sent (`Underway`),
which is what bounds `acknowledged_seqn`; and where the threads may be
(`Threads`): a message that was sent and not recorded is at the front of the
queue, and while `reprocess()` works the other thread does not send. Dropping
what is acknowledged is then a suffix of a sequence of consecutive numbers, and
every step of `Wire` is one of `Outbox` or leaves its four numbers alone.

What the receiving end dispatches rests on `StreamInv`, which looks at what is
under way in every connection, the broken ones included. Until a thread was
late (`overtaken`) or the stream was cut (`torn`), the numbers in a connection
are consecutive up to the last one sent (`Consecutively`), so that `Break`, which
cuts a suffix, leaves no hole; the first unread one is not beyond the next to
be acknowledged, or follows the last received (`NoGap`); and everything up to
the last number received was dispatched, while nothing beyond it is
acknowledged or will be (`Received`). The exception for number 1 at
SocketWire.cpp:323 is the reason for the second half of `NoGap`: where a 1 is
still unread nothing was acknowledged.

`GameControl_proofs`
- `ReaderIsSafe`: `Spec => []ReaderSafe`.
- `LinkSettles`: `Spec => []Settled`.
- `ModelIsReplacedWhenDead`: `Spec => ReplacedWhenDead`.
- `RiderIsInStep`: `NoOtherBits` implies `Spec => []InStep`.

None of them is inductive: each depends on what is still queued. `LinkInv`
is about the order of two kinds of task in the scheduler's queue, those that
begin a connection and those that say that one is gone. Connections begin in
order (`InOrder`); a model that is alive is said to be gone before the next one
begins, and if the queue does not say so yet, its lifetime will (`Dies`); the
last connection either is still to begin or has its model (`Begins`). The other
tasks are quiet, and lemma `Shapes` reduces the steps of `GameControl` to the
nine steps of `RiderLink`, to queueing and finishing quiet tasks and to the
beginning of a `View` that makes a control. `Making` says when a constructor can
be at work, and that a shutdown meanwhile is recorded as `late`; `Controlled`
then ties the control to the model's life: there is one just when the model is
alive and viewed, unless it is being made, its connection is over, or it was
left behind.

`RiderIsInStep` needs `ShownInv`: what the last of the queued tasks of the
control tells Rider is what the editor has, and if none is queued Rider shows
it already (`StateTold`, `ModeTold`); a mode on its way from Rider that differs
brings both in step when it arrives. Before the initial sync Rider need not show
the mode yet (`Synced`). For this the delegates of a control must be registered
and its `playMode` be that of the settings; while the constructor is between
registering and storing, `playMode` is uninitialized or the mode an edit has put
there, and what it has read (`got`) is the mode of the settings unless the
behaviour is `lost` (`Informed`). No task may tell of the mode for a control not
yet made (`MadeOnly`), or it would
speak for the next one at the wrong time; that in turn rests on the order of
connections (`Ahead`) and on the module viewing the model once (`Views`).
`NoOtherBits == Modes \subseteq 0..15` is the range of what the model has of a
mode: the kind of play, three more bits, is left out; it is packed and unpacked
like the rest. Of bits above those, and of kind 7, the editor keeps nothing
(RiderGameControl.cpp 94-111), so that Rider would go on showing them.

Every invariant and every action property of the runs, and the refinement of
`Outbox`, is thereby stated by a theorem. Only model-checked are the properties
under fairness, since liveness and ENABLED are out of the prover's reach:
`Settles`, `CarefulReturns`, `ComesBack`, `OffComesDown`, `Lands`, `DoorOpens`,
`SentIsAcknowledged`, `Answered`; with them the two motion models, which have no
other property, and `Call`; and the three violations of section 5.

## 5. Where code and text disagree

- `MazeOddDoors`: the comment at RandomMazeSpawner.cpp:114 says that possible
  doors are added at odd coordinates only ("홀수 좌표만"); the loops at 116-121
  and 125-130 add every column over an open cell, so an even column above an
  opened wall can become a door. Such a door still leads into the maze
  (`DoorsLeadIn`).
- `WireAckOrder`: `acknowledge` logs "Acknowledge {} called, while next seqn MUST
  BE greater than {}" (ByteBufferAsyncProcessor.cpp:259). The asynchronous thread
  takes its data under `lock` (159) and calls `process()` (165) without it. When
  the connection is exchanged in between, it sends on the new socket before
  `resume()` resends, which then sends the same number again: two equal
  acknowledgements come back.
- `CallBusy`: a call is refused with "Already exists sync task for call"
  (RdCall.h:126). `sync` clears `sync_task_id` only when a value has arrived (84);
  after a timeout of 200 ms, a fault or a cancellation line 83 throws first, and
  every later call of that connection is refused. The branch of
  RiderBlueprint.cpp:32 for a faulted task is never reached for the same reason.

## 6. Limits the models make visible

No comment or test claims otherwise, so these are not findings; the properties
are stated so that they hold, and this is why they are stated as they are.

- **Splitters of two or more beams.** The beams a splitter spawns share one ID.
  A Tick of one cancels what follows from the others, so `UniqueID`,
  `MirrorServed` and `LitByBeam` do not hold, and after a collection the
  sibling's `BounceLaser` is null when it is used at Laser.cpp:35. `NoOrphans`
  also fails when a splitter falls out of the world and is collected before
  the beams that ended on it tick.
- **Spawners with overlapping names.** `Isolation` needs display names none of
  which contains another (`NameWithin = {}`).
- **A beam turned into the void** (its line, of fixed length, hits nothing) keeps
  `LastHitActor` and `CurrentHitActor` (Laser.cpp 88-96). Tick sees no change, so
  the target it ended on stays lit and the beam its mirror reflected goes on
  shining, until it hits some actor again or the old one is destroyed.
  `LitByBeam` and `NoOrphans` state this as their exception (`Lingers`).
  `Settles` shows that it goes no further: once no line misses, every light left
  by an earlier position goes out.
- **Lists grow.** Entries of destroyed beams stay in `LaserAttached`; entries of
  beams destroyed by `ClearAttachedLasers` stay in `ChildLasers`. The models bound
  the lists.
- **Facing mirrors.** Between two of them a beam comes back to a mirror it has
  passed, and the code spawns beams without end. `Settles` excludes that
  (`NoMirrorTwice`); the other runs bound the depth.
- **Mirrors only.** Without splitters `RemoveFollowingLaser` destroys a chain
  from its end, so `ClearAttachedLasers` never finds a live beam.
- **Two keys in one frame.** `SpawnDrone` and `ChangePlayer` together run the
  second handler on a pawn without a controller: `GetController()` is null
  (PawnCharacter.cpp:335); and a held item that falls out of the world is
  collected, after which `Tick` uses a null component (SpartaCharacter.cpp:49).
  `CarefulNeverCrashes` and `CarefulReturns` are therefore about players who
  press one key a frame, and items that are not destroyed.
- **A drone that fails to spawn** leaves an `APawnCharacter` with the drone's
  keys (PawnCharacter.cpp:316-327): `ContextMatches` leaves that class out.
- **A drone destroyed while holding** leaves the static `ToggleGrabbing` set; the
  next drone's first press of Grab only clears it. `HolderCanRelease` is
  an implication for drones and an equivalence for the one Sparta.
- **Fast falls.** The slide sweep overwrites `HitResult` before its normal is
  tested, so a drone or pawn whose next step ends inside the floor is not
  moved: it hangs in the air. `OffComesDown` and `Lands` exclude falls of more
  than `Reach - Contact` or `Reach - Low` in one Tick.
- **A jump can end at once**: `CheckGround` in the first Tick may still see the
  floor. `Lands` allows for it.
- **A platform with a reset time** that comes back while someone stands at its
  origin does not notice him (the overlap begins inside `SetActorTransform`,
  while `IsFalling` is true). `StepFelt` is about platforms without one.
- **A SpawnOnce button** is used up even if `SpawnActor` failed.
- **A platform with a zero step** at an end of its way would be clamped to the
  other end; `MoveSpeed` and `DeltaTime` are positive.
- `MoveDoor::bActive` and `APawnCharacter::bJumpFirst` are not set in the
  constructors; objects of the engine are zeroed before construction, so both
  start false.

And in the plugin:

- **A lost acknowledgement.** The sender resends, the receiver acknowledges again
  and `read_package` leaves with `return true` (SocketWire.cpp:325). As a number
  of bytes that is 1: `PkgInputStream` hands one byte of the duplicate to the
  message reader, and what follows is read at wrong places. `torn` records it;
  `ForgottenIsDispatched` says what holds until then.
- **Number 1 again.** It is accepted whatever was received before (323), so a first
  message whose acknowledgement was lost is dispatched twice, and all that
  follow it again. `InOrder` allows for exactly that.
- **A message overtakes others** in the behaviour of `WireAckOrder`; the receiver
  then takes the earlier ones for known. `overtaken` records it.
- **A failed send** leaves the rest of the queue until something is put again;
  `SentIsAcknowledged` is therefore about messages that were sent.
- **Pending messages** are dropped at a reconnection only, so `pending_queue` grows
  with every message of a connection.
- **Both ends at once.** When the user and Rider change the mode at the same time,
  each may keep its own; `InStep` leaves these behaviours out (`raced`).
- **Five clients** do not fit into the two bits of a mode and set
  bSpawnAtPlayerStart at the other end; the number itself is the same at both
  ends, which is what `InStep` says.
- **Other bits of a mode.** Bits that `PackToMode` has no place for are not kept by the
  editor: were Rider to choose such a mode, it would show what the editor does
  not have (`NoOtherBits`).
- **A destroyed control.** Tasks and delegates hold a raw pointer to it. `crashed`
  and `strayed` record that one of them ran too late; a constructor that throws
  leaves its delegates registered.
- **An edit while a control is made.** The delegates are registered (325-378)
  before the settings are read (445) and `playMode` is stored (446). An edit on
  the game thread between these two sets `playMode` and queues the new mode;
  446 then puts the old one back. Rider is told the old mode and then the new
  one, but when the user edits back, 370 finds `playMode` unchanged and tells
  nobody. `lost` records it until `playMode` changes again; `InStep` fails
  without this exception.
- **A shutdown while a control is made.** Between 494 and 495 `GameControl.Reset()`
  runs before `GameControl` is assigned, and a control is left behind after the
  module is over; so it is at other steps of the constructor, when `add_action`
  does not throw. `late` records it; `Settled` fails without this exception.
- **Ready for ever.** When the lifetime ends while the second bracket (454-469) is
  at work, Rider may have been told that the control is initialized with
  nobody left to say that it is not any more.

## 7. Plan

Done, in this order: `LaserNetwork` and its bookkeeping proofs, `Possession` and
its proofs, `Maze` with `FallPlatform` in `MazeFloor` with their proofs, `DroneFlight`,
`PawnMotion`, `ButtonDoor` and `MovePlatform` in `Machinery` with its proofs, all
of them in `Level`, with proofs; `Wire` with its abstract specification `Outbox` and the proof
that it implements it; `RiderLink` and `GameControl` with their proofs; `Call`. Then the
proofs of the chains of mirrors, of the tree of the maze, of what the wire
delivers, of what Rider shows and of the careful player.

Next:
1. An abstract specification of the light, and `LaserNetwork` without splitters
   shown to implement it when it is settled.
2. The queues of the message broker, and the convergence of `RdPropertyBase` and
   `RdMap` over two `Wire`s.

## 8. Not modelled

- Colours, materials, geometry and the scale of beams; of a solved target only
  `bActive`. `ClearAllLaserAtteched` and `UpdateLaserID` are never called.
- Cameras, Look handlers, sprint speeds, tilt and horizontal sliding.
- `ARotationPlatform` adds a constant rotation each Tick; the body of
  `ATrampolinePlatform::OnPlatformHit` is commented out; `ISelectableInterface`
  is an enumeration with pure virtual functions; `ASpartaGameMode` names
  default classes. The maze's editor-only Tick draws an outline.
- `SpawnActor` failing in `SpawnMaze` (RandomMazeSpawner.cpp 154-155, its result is
  used at once) and a `WorldMoveRef` that is null or no door (ActionButton.cpp:71):
  both end the game, and no level is set up so.
- Data races proper: two threads inside the engine's delegate lists at once, and a
  shutdown that resets `GameControl` while a task is inside one of its methods.
  The steps of the plugin's threads interleave, each as a whole.
- In the plugin: the heartbeat (its result is a property nobody reads), the
  encoding of values, identities and the ext handshake (one message per
  connection), properties, maps and lists over the wire (the plugin's own model
  uses signals and calls), the broker's queues for entities that are not
  subscribed yet, the port file of `ProtocolFactory`, shutdown of the link itself.
  `RiderLC`, `RiderShaderInfo` and `RiderDebuggerSupport` react to single events
  and keep no state.
- Generated models (`RiderLink/Public/Model`) and the code under
  `RD/thirdparty` (spdlog, ordered-map, clsocket, CTPL, optional, variant). By
  lines these are most of the C++ in the repository: a logging library, hash
  containers and vocabulary types whose behaviour the modelled code takes for
  granted. No share of them is counted as modelled.

## 9. Running

    tlc -config MirrorsOne.cfg MCLaserNetwork.tla
    tlapm LaserNetwork_proofs.tla

The module of each run is in `PROJECT.json`. `MirrorsOne` takes about a minute,
`GameControl` half a minute, the other runs seconds.
