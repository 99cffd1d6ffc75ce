------------------------------ MODULE RiderLink ------------------------------
(***************************************************************************)
(* FRiderLinkModule: how the editor's model follows the connections of the *)
(* wire (InitProtocol, from the first view of `connected' on), and the     *)
(* ways other modules get at the model.                                    *)
(*                                                                         *)
(* Three threads meet here.  The thread of the wire switches `connected',  *)
(* which ends the lifetime of the last connection on that thread.  The     *)
(* thread of MainScheduler runs the queued tasks one by one; it creates    *)
(* the model and says that it is alive.  The logging thread fires on the   *)
(* model directly, under a read lock.                                      *)
(*                                                                         *)
(* Connections are numbered, and so are the models: model k is the         *)
(* RdEditorModel made for connection k.  Models that are not EditorModel   *)
(* are destroyed.                                                          *)
(***************************************************************************)
EXTENDS Integers, Sequences

CONSTANT MaxConns   \* bound: connections

ASSUME RiderLinkAssumption == MaxConns \in Nat \ {0}

VARIABLES
  conn,         \* the last connection, 0 before the first
  connected,    \* IWire::connected
  tasks,        \* the queue of MainScheduler; its head is the task it runs
  at,           \* where the scheduler is in the task it runs
  EditorModel,  \* 0 for a null pointer
  alive,        \* RdIsModelAlive
  watched,      \* the lifetime of the connection has the action that
                \* queues RdIsModelAlive.set(false)
  reader        \* the model FireAsyncAction uses, 0 when it does not run

linkVars == <<conn, connected, tasks, at, EditorModel, alive, watched, reader>>

Task(do, n, val) == [do |-> do, of |-> n, val |-> val]

InitLink ==
  /\ conn = 0 /\ connected = FALSE
  /\ tasks = <<>> /\ at = "idle"
  /\ EditorModel = 0 /\ alive = "unset"
  /\ watched = FALSE
  /\ reader = 0

(* The lifetime of connection c has not ended.                             *)
Lives(c) == connected /\ c = conn

(* Connected and bound: what is fired on model m goes out.                 *)
Bound(m) == Lives(m) /\ m = EditorModel /\ at # "binding"

(* A task other than that of InitProtocol is at the head of the queue.     *)
Runs(do) == at = "idle" /\ tasks # <<>> /\ Head(tasks).do = do

Queue(new) == tasks' = tasks \o new
Finish     == tasks' = Tail(tasks)

-----------------------------------------------------------------------------
(* THE WIRE                                                                *)

(* connected.set(true): the view queues the task of a new connection.      *)
Connect ==
  /\ ~connected /\ conn < MaxConns
  /\ conn' = conn + 1 /\ connected' = TRUE
  /\ watched' = FALSE
  /\ Queue(<<Task("Connected", conn + 1, 0)>>)
  /\ UNCHANGED <<at, EditorModel, alive, reader>>

(* MUTANT: the end of the lifetime queues nothing.                         *)
DisconnectSilently ==
  /\ connected
  /\ connected' = FALSE /\ watched' = FALSE
  /\ Queue(<<Task("Disconnected", conn, 0)>>)
  /\ UNCHANGED <<conn, at, EditorModel, alive, reader>>

(* connected.set(false): the lifetime ends and runs its actions, then the  *)
(* view queues a task that returns at once.                                *)
Disconnect ==
  /\ connected
  /\ connected' = FALSE /\ watched' = FALSE
  /\ Queue((IF watched THEN <<Task("Gone", conn, 0)>> ELSE <<>>)
             \o <<Task("Disconnected", conn, 0)>>)
  /\ UNCHANGED <<conn, at, EditorModel, alive, reader>>

-----------------------------------------------------------------------------
(* THE SCHEDULER                                                           *)

(* IsConnected is false: the task returns at once.                         *)
NotConnected ==
  /\ Runs("Disconnected")
  /\ Finish
  /\ UNCHANGED <<conn, connected, at, EditorModel, alive, watched, reader>>

(* The task of a connection takes the write lock and replaces the model.   *)
Replace ==
  /\ Runs("Connected")
  /\ reader = 0
  /\ EditorModel' = Head(tasks).of
  /\ at' = "binding"
  /\ UNCHANGED <<conn, connected, tasks, alive, watched, reader>>

(* MUTANT: an action is added to a lifetime that has ended.                *)
BindUnchecked ==
  /\ at = "binding"
  /\ watched' = TRUE /\ at' = "bound"
  /\ UNCHANGED <<conn, connected, tasks, EditorModel, alive, reader>>

(* connect() and add_action.  Both throw when the lifetime has ended; the  *)
(* scheduler catches it, and the task is over.                             *)
Bind ==
  /\ at = "binding"
  /\ IF Lives(EditorModel) THEN /\ watched' = TRUE /\ at' = "bound"
                                /\ UNCHANGED tasks
                           ELSE /\ at' = "idle" /\ Finish
                                /\ UNCHANGED watched
  /\ UNCHANGED <<conn, connected, EditorModel, alive, reader>>

(* RdIsModelAlive.set(true): whoever views the model is told.              *)
Announce ==
  /\ at = "bound"
  /\ alive' = "alive"
  /\ at' = "announced"
  /\ UNCHANGED <<conn, connected, tasks, EditorModel, watched, reader>>

(* What is left of the task, and the lock is released.                     *)
Unlock ==
  /\ at = "announced"
  /\ at' = "idle"
  /\ Finish
  /\ UNCHANGED <<conn, connected, EditorModel, alive, watched, reader>>

(* MUTANT: the write lock is forgotten.                                    *)
GoneUnlocked ==
  /\ Runs("Gone")
  /\ alive' = "dead"
  /\ Finish
  /\ UNCHANGED <<conn, connected, at, EditorModel, watched, reader>>

(* The task that the end of the lifetime has queued.                       *)
Gone ==
  /\ Runs("Gone")
  /\ reader = 0
  /\ alive' = "dead"
  /\ Finish
  /\ UNCHANGED <<conn, connected, at, EditorModel, watched, reader>>

-----------------------------------------------------------------------------
(* THE LOGGING THREAD: FireAsyncAction, which takes the read lock.         *)

(* The task of a connection holds the write lock.                          *)
Locked == at \in {"binding", "bound", "announced"}

StartReading ==
  /\ reader = 0 /\ ~Locked
  /\ alive = "alive"
  /\ reader' = EditorModel
  /\ UNCHANGED <<conn, connected, tasks, at, EditorModel, alive, watched>>

StopReading ==
  /\ reader # 0
  /\ reader' = 0
  /\ UNCHANGED <<conn, connected, tasks, at, EditorModel, alive, watched>>
==============================================================================
