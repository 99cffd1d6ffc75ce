----------------------------- MODULE GameControl -----------------------------
(***************************************************************************)
(* FRiderGameControl over FRiderLinkModule: the play state and the play    *)
(* mode of the editor are shown in Rider, and Rider asks the editor to     *)
(* play, pause, stop and to change the mode.                               *)
(*                                                                         *)
(* A control is made for a model when it comes alive, on the scheduler's   *)
(* thread, and destroyed when it is gone.  The constructor is not atomic:  *)
(* the game thread edits, plays and shuts the module down between any two  *)
(* of its steps, and connections end.  A control registers delegates with the *)
(* engine, which the game thread calls; what they have to tell Rider is a  *)
(* task that holds a pointer to the control.  When such a task runs after  *)
(* its control is destroyed, what it does is undefined: it may find the    *)
(* old model, or crash, or the control made since at the same address.     *)
(*                                                                         *)
(* What is fired on a bound model reaches Rider at once: how it travels is *)
(* module Wire.  Rider's own side is external; what is used of it is that  *)
(* it asks once it knows that the control is initialized.                  *)
(***************************************************************************)
EXTENDS RiderLink, FiniteSets

CONSTANTS
  Settings,      \* settings the user chooses among
  Modes,         \* modes Rider chooses among
  MaxMoves       \* bound: moves of the user, of Rider and of the logger

ASSUME ControlAssumption ==
  /\ Settings \subseteq [clients : Nat \ {0}, spawn : BOOLEAN, dedicated : BOOLEAN]
  /\ Modes \subseteq Nat

VARIABLES
  module,        \* FRiderGameControlModule: it views the model once it
                 \* has started and the scheduler has come to it
  control,       \* the model of GameControl, 0 for a null pointer
  making,        \* what the constructor of a control does next, or "no"
  got,           \* the mode it has read (a local; 0 when not in use)
  registered,    \* the controls whose delegates the engine holds
  playMode,      \* FRiderGameControl::playMode
  settings,      \* ULevelEditorPlaySettings
  playState,     \* what the editor does
  game,          \* AsyncTasks of the game thread, in order
  asked,         \* whom Rider's request is for, 0 before it is made
  answered,      \* Rider has the reply
  rider,         \* what Rider has been told in this connection
  crashed,
  moves,
  changed,       \* history: the play state has changed under this control
  lost,          \* history: the mode was edited between the constructor's
                 \* reading it and its storing what it has read, and playMode
                 \* has not changed since
  late,          \* history: the module was shut down while a control was made
  raced,         \* history: the mode was changed at both ends at once
  strayed        \* history: a task of a destroyed control did something

controlVars == <<module, control, making, got, registered, playMode, settings>>
gameVars    == <<playState, game>>
riderVars   == <<asked, answered, rider>>
history     == <<changed, lost, late, raced, strayed>>
vars == <<linkVars, controlVars, gameVars, riderVars, crashed, moves, history>>

None == "none"
Unset == -1      \* playMode of an object under construction: any number
PlayStates == {"Idle", "Play", "Pause"}

Bit(b) == IF b THEN 1 ELSE 0

(* The mode is a number: two bits for the clients, one each for            *)
(* bSpawnAtPlayerStart and bNetDedicated (the kind of play is left out).   *)
PackToMode(s) == (s.clients - 1) + 4 * Bit(s.spawn) + 8 * Bit(s.dedicated)

UnpackFromMode(m) ==
  [clients   |-> (m % 4) + 1,
   spawn     |-> (m \div 4) % 2 = 1,
   dedicated |-> (m \div 8) % 2 = 1]

(* Rider has been told nothing.                                            *)
Silence == [state |-> None, mode |-> -1, ready |-> FALSE]

Init ==
  /\ InitLink
  /\ module = "loaded" /\ control = 0 /\ registered = {}
  /\ making = "no" /\ got = 0
  /\ settings \in Settings /\ playMode = 0
  /\ playState = "Idle" /\ game = <<>>
  /\ asked = 0 /\ answered = FALSE /\ rider = Silence
  /\ crashed = FALSE /\ moves = 0
  /\ changed = FALSE /\ lost = FALSE /\ late = FALSE
  /\ raced = FALSE /\ strayed = FALSE

Move == moves < MaxMoves /\ moves' = moves + 1

-----------------------------------------------------------------------------
(* THE WIRE: Rider starts each connection anew.                            *)

Reconnect ==
  /\ Connect
  /\ rider' = Silence
  /\ UNCHANGED <<controlVars, gameVars, asked, answered, crashed, moves, history>>

Hangup ==
  /\ Disconnect
  /\ UNCHANGED <<controlVars, gameVars, riderVars, crashed, moves, history>>

Logging ==
  /\ \/ StartReading /\ Move
     \/ StopReading /\ UNCHANGED moves
  /\ UNCHANGED <<controlVars, gameVars, riderVars, crashed, history>>

-----------------------------------------------------------------------------
(* THE CONTROL                                                             *)

(* The steps of FRiderGameControl's constructor, from the handler that     *)
(* views the model to its assignment of GameControl.  It runs on the       *)
(* scheduler, so what it schedules runs at once.                           *)
GoOn(step) == making' = step /\ UNCHANGED <<at, tasks>>
Return     == making' = "no" /\ at' = "idle" /\ Finish

MakingKeeps == UNCHANGED <<conn, connected, EditorModel, alive, watched, reader,
                           module, settings, gameVars, asked, answered, crashed,
                           moves, late>>

(* The first bracket registers the delegates.  When the module's lifetime  *)
(* has ended, add_action in the handler or in the bracket throws (the      *)
(* latter leaves the delegates registered for an object that was never     *)
(* made), or the bracket does nothing.  The histories are of the control   *)
(* that is told by its delegates from here on.                             *)
SubscribeEditor ==
  /\ making = "delegates"
  /\ \/ /\ module # "over" /\ GoOn("read")
        /\ registered' = registered \cup {EditorModel}
        /\ playMode' = Unset
        /\ changed' = FALSE /\ lost' = FALSE /\ raced' = FALSE /\ strayed' = FALSE
     \/ /\ module = "over" /\ GoOn("read")
        /\ UNCHANGED <<registered, playMode, history>>
     \/ /\ module = "over" /\ Return
        /\ registered' \in {registered, registered \cup {EditorModel}}
        /\ UNCHANGED <<playMode, history>>
  /\ UNCHANGED <<control, got, rider>> /\ MakingKeeps

(* RetrieveSettings: what the constructor holds of the mode from here on   *)
(* is not kept up to date by the delegates.                                *)
ReadMode ==
  /\ making = "read" /\ GoOn("store")
  /\ got' = PackToMode(settings)
  /\ UNCHANGED <<control, registered, playMode, rider, history>> /\ MakingKeeps

(* playMode is assigned what was read.                                     *)
StoreMode ==
  /\ making = "store" /\ GoOn("sync")
  /\ playMode' = got /\ got' = 0
  /\ UNCHANGED <<control, registered, rider, history>> /\ MakingKeeps

(* MUTANT: no initial sync.                                                *)
SyncModeForgotten ==
  /\ making = "sync" /\ GoOn("ready")
  /\ UNCHANGED <<control, got, registered, playMode, rider, history>>
  /\ MakingKeeps

(* The initial sync.  To fire on a model that is not bound any more throws,*)
(* which leaves the delegates registered as well.                          *)
SyncMode ==
  /\ making = "sync"
  /\ IF Bound(EditorModel) THEN /\ rider' = [rider EXCEPT !.mode = playMode]
                                /\ GoOn("ready")
                           ELSE Return /\ UNCHANGED rider
  /\ UNCHANGED <<control, got, registered, playMode, history>> /\ MakingKeeps

(* The second bracket.  To set a property that is not bound tells nobody.  *)
MarkReady ==
  /\ making = "ready"
  /\ LET told == rider' = IF Bound(EditorModel) THEN [rider EXCEPT !.ready = TRUE]
                                                ELSE rider
     IN \/ module # "over" /\ told /\ GoOn("publish")
        \/ module = "over" /\ UNCHANGED rider /\ GoOn("publish")
        \/ module = "over" /\ told /\ Return
  /\ UNCHANGED <<control, got, registered, playMode, history>> /\ MakingKeeps

(* The handler assigns GameControl, whatever has become of the module.     *)
Publish ==
  /\ making = "publish" /\ Return
  /\ control' = EditorModel
  /\ UNCHANGED <<got, registered, playMode, rider, history>> /\ MakingKeeps

MakeControl ==
  SubscribeEditor \/ ReadMode \/ StoreMode \/ SyncMode \/ MarkReady \/ Publish

(* The control whose playMode is `playMode`: the one being made, or the one*)
(* there is.                                                               *)
Control == IF making = "no" THEN control ELSE EditorModel

(* The end of the model's lifetime: the delegates are removed and the      *)
(* control is destroyed.  The handles of an object that was never made are *)
(* read from freed memory: its delegates may stay.                         *)
DropControl ==
  /\ control' = 0
  /\ IF control # 0 THEN registered' = registered \ {control}
                    ELSE \/ registered' = registered \ {EditorModel}
                         \/ UNCHANGED registered

(* InitProtocol's tasks, with the handler that views the model.            *)
Link ==
  /\ \/ /\ NotConnected \/ Replace \/ Bind \/ (making = "no" /\ Unlock)
        /\ UNCHANGED <<control, making, registered>>
     \/ /\ Announce
        /\ making' = IF module = "viewing" /\ alive # "alive" THEN "delegates" ELSE making
        /\ UNCHANGED <<control, registered>>
     \/ /\ Gone
        /\ IF module = "viewing" /\ alive = "alive" THEN DropControl
                                         ELSE UNCHANGED <<control, registered>>
        /\ UNCHANGED making
  /\ UNCHANGED <<module, got, playMode, settings, gameVars, riderVars, crashed, moves,
                 history>>

(* StartupModule: ViewModel, from the game thread.                         *)
StartupModule ==
  /\ module = "loaded"
  /\ module' = "started"
  /\ Queue(<<Task("View", 0, 0)>>)
  /\ UNCHANGED <<conn, connected, at, EditorModel, alive, watched, reader,
                 control, making, got, registered, playMode, settings, gameVars, riderVars, crashed,
                 moves, history>>

(* ViewModel's task: the model may be alive already.  The lock is not held *)
(* while a control is made then.                                           *)
View ==
  /\ Runs("View")
  /\ module' = IF module = "over" THEN "over" ELSE "viewing"
  /\ IF module # "over" /\ alive = "alive"
       THEN making' = "delegates" /\ at' = "viewing" /\ UNCHANGED tasks
       ELSE Finish /\ UNCHANGED <<making, at>>
  /\ UNCHANGED <<conn, connected, EditorModel, alive, watched, reader, control, got,
                 registered, playMode, settings, gameVars, riderVars, crashed, moves,
                 history>>

(* ShutdownModule, on the game thread, ends the lifetimes: that the control*)
(* is not initialized any more is left to a task, the delegates are removed*)
(* and GameControl is reset.  Of a control that is being made, this undoes *)
(* the brackets passed; that GameControl is assigned later it cannot undo. *)
ShutdownModule ==
  /\ module \in {"started", "viewing"} /\ Move
  /\ LET ready == IF making = "publish" THEN EditorModel ELSE control
         bound == {control} \cup IF making \in {"no", "delegates"} THEN {} ELSE {EditorModel}
     IN /\ Queue(IF ready # 0 THEN <<Task("unready", ready, 0)>> ELSE <<>>)
        /\ registered' = registered \ bound
  /\ control' = 0 /\ module' = "over"
  /\ late' = (making # "no")
  /\ UNCHANGED <<conn, connected, at, EditorModel, alive, watched, reader, making, got,
                 playMode, settings, gameVars, riderVars, crashed, changed, lost, raced,
                 strayed>>

-----------------------------------------------------------------------------
(* THE EDITOR                                                              *)

(* The delegates of the controls in who are called, in some order.         *)
Notify(who, what, val) ==
  \E order \in [1..Cardinality(who) -> who] :
    /\ \A c \in who : \E i \in DOMAIN order : order[i] = c
    /\ Queue([i \in DOMAIN order |-> Task(what, order[i], val)])

(* The control that is registering its delegates, some of which may be     *)
(* called already.                                                         *)
Registering == IF making = "delegates" THEN {EditorModel} ELSE {}

(* BeginPIE, EndPIE, PausePIE, ResumePIE, and SingleStepPIE in a pause     *)
(* (which says Play, then Pause): the delegates queue what to tell Rider.  *)
After(s) == CASE s = "Idle"  -> {"Play"}
                   [] s = "Play"  -> {"Pause", "Idle"}
                   [] s = "Pause" -> {"Play", "Pause", "Idle"}

PlayWorld ==
  /\ Move
  /\ playState' \in After(playState)
  /\ \E new \in SUBSET Registering : Notify(registered \cup new, playState', 0)
  /\ changed' = (changed \/ Control # 0)
  /\ UNCHANGED <<conn, connected, at, EditorModel, alive, watched, reader, controlVars,
                 game, riderVars, crashed, lost, late, raced, strayed>>

(* The user edits the settings: OnObjectPropertyChanged.  Nothing is told  *)
(* of a mode that is the last one told.  A control under construction      *)
(* compares with whatever is in its memory, and so does one that was never *)
(* made.  The delegate is the last one registered.                         *)
Edit ==
  /\ Move
  /\ settings' \in Settings \ {settings}
  /\ LET mode == PackToMode(settings')
         heeds == registered \cap {Control}
     IN /\ playMode' = IF heeds = {} THEN playMode ELSE mode
        /\ \E who \in SUBSET registered :
             /\ playMode # Unset => who \cap heeds = IF mode = playMode THEN {} ELSE heeds
             /\ Notify(who, "mode", mode)
  /\ lost' = (making = "store" \/ (lost /\ playMode' = playMode))
  /\ raced' = (raced \/ \E i \in 1..Len(tasks) : tasks[i].do = "Mode" /\ Bound(tasks[i].of))
  /\ UNCHANGED <<conn, connected, at, EditorModel, alive, watched, reader, module, control,
                 making, got, registered, gameVars, riderVars, crashed, changed, late,
                 strayed>>

(* The task of a request: TryExecuteAction, then the reply.                *)
Execute ==
  /\ game # <<>>
  /\ game' = Tail(game)
  /\ Queue(<<Task("reply", Head(game), 0)>>)
  /\ UNCHANGED <<conn, connected, at, EditorModel, alive, watched, reader, controlVars,
                 playState, riderVars, crashed, moves, history>>

-----------------------------------------------------------------------------
(* RIDER (external): one request in a behaviour, and changes of the mode.  *)

Request ==
  /\ Move
  /\ rider.ready /\ connected /\ asked = 0
  /\ asked' = conn
  /\ Queue(<<Task("Request", conn, 0)>>)
  /\ UNCHANGED <<conn, connected, at, EditorModel, alive, watched, reader, controlVars,
                 gameVars, answered, rider, crashed, history>>

ChooseMode ==
  /\ Move
  /\ rider.ready /\ connected
  /\ \E m \in Modes \ {rider.mode} :
       /\ rider' = [rider EXCEPT !.mode = m]
       /\ Queue(<<Task("Mode", conn, m)>>)
  /\ UNCHANGED <<conn, connected, at, EditorModel, alive, watched, reader, controlVars,
                 gameVars, asked, answered, crashed, history>>

-----------------------------------------------------------------------------
(* THE TASKS OF A CONTROL                                                  *)

(* What Rider has when something is fired on the model.                    *)
Deliver(task) ==
  /\ rider' = CASE task.do \in PlayStates -> [rider EXCEPT !.state = task.do]
                [] task.do = "mode"         -> [rider EXCEPT !.mode = task.val]
                [] task.do = "unready"      -> [rider EXCEPT !.ready = FALSE]
                [] task.do = "reply"        -> rider
  /\ answered' = (answered \/ task.do = "reply")

(* A task that ScheduleModelAction has queued.  To fire on a model that is *)
(* not bound throws.                                                       *)
Tell ==
  /\ at = "idle" /\ tasks # <<>> /\ Head(tasks).do \in PlayStates \cup {"mode", "unready", "reply"}
  /\ LET task == Head(tasks)
         Nothing == UNCHANGED <<rider, answered>>
     IN IF control = task.of /\ control = EditorModel
          THEN /\ IF Bound(control) THEN Deliver(task) ELSE Nothing
               /\ UNCHANGED <<crashed, strayed>>
          ELSE \/ Nothing /\ crashed' \in BOOLEAN /\ UNCHANGED strayed
               \/ /\ Bound(EditorModel) /\ Deliver(task)
                  /\ strayed' = TRUE /\ UNCHANGED crashed
  /\ Finish
  /\ UNCHANGED <<conn, connected, at, EditorModel, alive, watched, reader, controlVars,
                 gameVars, asked, moves, changed, lost, late, raced>>

(* A message that the broker has queued for a signal of model n: it is     *)
(* dropped when the signal is not subscribed any more.                     *)
Heard(n) == Bound(n) /\ control = n /\ module # "over"

(* MUTANT: an unknown command gets no reply.                               *)
RequestUnanswered ==
  /\ Runs("Request")
  /\ IF Heard(Head(tasks).of)
       THEN \/ game' = Append(game, control)
            \/ UNCHANGED game
       ELSE UNCHANGED game
  /\ Finish
  /\ UNCHANGED <<conn, connected, at, EditorModel, alive, watched, reader, controlVars,
                 playState, riderVars, crashed, moves, history>>

(* requestPlayFromRider and the like.  The command may be unknown.         *)
RequestPlayWorldCommand ==
  /\ Runs("Request")
  /\ IF Heard(Head(tasks).of)
       THEN \/ game' = Append(game, control) /\ UNCHANGED answered
            \/ answered' = TRUE /\ UNCHANGED game
       ELSE UNCHANGED <<game, answered>>
  /\ Finish
  /\ UNCHANGED <<conn, connected, at, EditorModel, alive, watched, reader, controlVars,
                 playState, asked, rider, crashed, moves, history>>

(* playModeFromRider: UpdateSettings ends with PostEditChange, which calls *)
(* OnObjectPropertyChanged on this thread; what it schedules runs at once. *)
SetPlayMode ==
  /\ Runs("Mode")
  /\ IF Heard(Head(tasks).of)
       THEN /\ settings' = UnpackFromMode(Head(tasks).val)
            /\ playMode' = PackToMode(settings')
            /\ rider' = IF playMode' = playMode THEN rider
                                                ELSE [rider EXCEPT !.mode = playMode']
            /\ crashed' \in {FALSE, registered # {control}}
       ELSE UNCHANGED <<settings, playMode, rider, crashed>>
  /\ Finish
  /\ UNCHANGED <<conn, connected, at, EditorModel, alive, watched, reader, module, control,
                 making, got, registered, gameVars, asked, answered, moves, history>>

-----------------------------------------------------------------------------
Scheduler == Link \/ MakeControl \/ View \/ Tell \/ RequestPlayWorldCommand \/ SetPlayMode

Next ==
  /\ ~crashed
  /\ \/ Reconnect \/ Hangup \/ Logging
     \/ Scheduler
     \/ StartupModule \/ ShutdownModule
     \/ PlayWorld \/ Edit \/ Execute
     \/ Request \/ ChooseMode

Spec == Init /\ [][Next]_vars

FairSpec ==
  /\ Spec
  /\ WF_vars(~crashed /\ Scheduler)
  /\ WF_vars(~crashed /\ Execute)
  /\ WF_vars(~crashed /\ Logging /\ reader' = 0)

-----------------------------------------------------------------------------
(* While the logging thread fires on a model, it is the model, and alive:  *)
(* it is not destroyed under it (FireAsyncAction and the two write locks). *)
ReaderSafe == reader # 0 => reader = EditorModel /\ alive = "alive"

(* When the scheduler has nothing to do, the model is alive just when      *)
(* there is a connection, it is the model of that connection, and whoever  *)
(* views models has a control for it.  There is one exception: when the    *)
(* module is shut down while a control is made, the control stays behind.  *)
Settled ==
  tasks = <<>> /\ ~crashed =>
    /\ (alive = "alive") = connected
    /\ connected => EditorModel = conn
    /\ late \/ control = IF connected /\ module = "viewing" THEN conn ELSE 0

(* When there is nothing under way, Rider shows the play mode of the       *)
(* editor, and the play state if it has changed under this control: unless *)
(* both ends changed the mode at once, a task of a destroyed control       *)
(* reached a model, the mode was edited while the constructor held what it *)
(* had read of it (and not again since, but for an edit that restores what *)
(* it had read), or the control was left behind by a shutdown.             *)
InStep ==
  tasks = <<>> /\ control # 0 /\ ~raced /\ ~strayed /\ ~lost /\ ~late /\ ~crashed =>
    /\ rider.mode = PackToMode(settings)
    /\ changed => rider.state = playState

(* "Have to resort to RdProperty<bool> and change it before creating new   *)
(* RdEditorModel": the model is replaced only while it is not alive.       *)
ReplacedWhenDead == [][EditorModel' # EditorModel => alive # "alive"]_vars

(* What Rider asks of a control is answered while both are there.          *)
Answered ==
  asked # 0 ~> answered \/ crashed \/ ~Lives(asked) \/ module = "over"
==============================================================================
