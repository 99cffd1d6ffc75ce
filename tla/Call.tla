-------------------------------- MODULE Call --------------------------------
(***************************************************************************)
(* A synchronous call of the editor to Rider (RdCall::sync over a          *)
(* WiredRdTask), as the handler of openBlueprint makes one.                *)
(*                                                                         *)
(* The thread of the scheduler spins in the call, so it makes one at a     *)
(* time and hears nothing meanwhile.  The thread of the wire puts the      *)
(* reply into the task (SynchronousScheduler), or cancels the task when it *)
(* ends the lifetime of the connection.  Tasks are numbered as             *)
(* Identities::next does; each is destroyed when its call is over, but     *)
(* stays subscribed at the broker until the lifetime ends.                 *)
(***************************************************************************)
EXTENDS Integers

CONSTANT MaxCalls   \* bound: calls, a positive number

VARIABLES
  connected,     \* the lifetime the call is bound to has not ended
  next,          \* the number of the next task
  calling,       \* the task whose call is under way, 0 for none
  sync_task_id,  \* RdCall::sync_task_id, 0 for none
  result,        \* the result of that task: "none", "ok", "fault", "cancelled"
  subscribed,    \* tasks the broker dispatches to
  asked,         \* requests Rider has not answered
  replies,       \* answers on their way: <<task, result>>
  crashed        \* a destroyed task was written to, and that was fatal

vars == <<connected, next, calling, sync_task_id, result, subscribed, asked,
          replies, crashed>>

Init ==
  /\ connected = TRUE /\ next = 1
  /\ calling = 0 /\ sync_task_id = 0 /\ result = "none"
  /\ subscribed = {} /\ asked = {} /\ replies = {}
  /\ crashed = FALSE

(* sync, start_internal: the task is made and subscribed first.  When      *)
(* sync_task_id is set, the call throws and leaves it subscribed.          *)
Sync ==
  /\ connected /\ calling = 0 /\ next <= MaxCalls
  /\ next' = next + 1
  /\ subscribed' = subscribed \cup {next}
  /\ \/ /\ sync_task_id # 0
        /\ UNCHANGED <<calling, sync_task_id, result, asked>>
     \/ /\ sync_task_id = 0
        /\ calling' = next /\ sync_task_id' = next /\ result' = "none"
        /\ asked' = asked \cup {next}
  /\ UNCHANGED <<connected, replies, crashed>>

(* Rider answers a request, with a value or with a fault.                  *)
Answer ==
  /\ \E t \in asked, r \in {"ok", "fault"} :
       /\ asked' = asked \ {t}
       /\ replies' = replies \cup {<<t, r>>}
  /\ UNCHANGED <<connected, next, calling, sync_task_id, result, subscribed,
                 crashed>>

(* on_wire_received.  The task of a call that is over has been destroyed:  *)
(* the broker's pointer to it dangles, and to use it may do anything.      *)
Receive ==
  /\ \E a \in replies :
       /\ replies' = replies \ {a}
       /\ IF a[1] = calling
            THEN /\ result' = IF result = "none" THEN a[2] ELSE result
                 /\ UNCHANGED crashed
            ELSE /\ crashed' \in IF a[1] \in subscribed THEN BOOLEAN ELSE {crashed}
                 /\ UNCHANGED result
  /\ UNCHANGED <<connected, next, calling, sync_task_id, subscribed, asked>>

(* sync comes to its end: has_value, or the lifetime is over, or the       *)
(* timeout is.  Only a value gets past value_or_throw().unwrap().          *)
Over ==
  /\ calling # 0
  /\ calling' = 0
  /\ sync_task_id' = IF result = "ok" THEN 0 ELSE sync_task_id
  /\ UNCHANGED <<connected, next, result, subscribed, asked, replies, crashed>>

(* The lifetime ends on the thread of the wire: tasks that still exist are *)
(* cancelled, the broker forgets them all, and what was sent is lost.      *)
Disconnect ==
  /\ connected
  /\ connected' = FALSE
  /\ result' = IF calling # 0 /\ result = "none" THEN "cancelled" ELSE result
  /\ subscribed' = {} /\ asked' = {} /\ replies' = {}
  /\ UNCHANGED <<next, calling, sync_task_id, crashed>>

(* A new connection has a model, and a call, of its own.                   *)
Reconnect ==
  /\ ~connected /\ calling = 0
  /\ connected' = TRUE /\ sync_task_id' = 0
  /\ UNCHANGED <<next, calling, result, subscribed, asked, replies, crashed>>

Next == ~crashed /\ (Sync \/ Answer \/ Receive \/ Over \/ Disconnect \/ Reconnect)

Spec == Init /\ [][Next]_vars

-----------------------------------------------------------------------------
(* What the message of start_internal says when a call is refused,         *)
(* "Already exists sync task for call": the task that sync_task_id names   *)
(* is under way.  A call that timed out or came back with a fault refutes  *)
(* it: every later call of that connection is refused.                     *)
RefusedWhenBusy == connected /\ sync_task_id # 0 => calling = sync_task_id
==============================================================================
