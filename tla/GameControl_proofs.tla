-------------------------- MODULE GameControl_proofs --------------------------
(***************************************************************************)
(* Proofs about the editor's model and the control made for it, for any    *)
(* number of connections and whatever the user, Rider and the logger do.   *)
(*                                                                         *)
(* The link rests on the order of two kinds of task in the queue of the    *)
(* scheduler: those that begin a connection and those that say that one is *)
(* gone.  The other tasks are quiet: they leave the link alone.  What      *)
(* Rider is shown rests on the last of them that tells of it.              *)
(***************************************************************************)
EXTENDS GameControl, FiniteSetTheorems, SequenceTheorems, TLAPS

Does == {"Connected", "Gone", "Disconnected", "View", "Idle", "Play", "Pause",
         "mode", "unready", "reply", "Request", "Mode"}

Tasks == [do : Does, of : 0..MaxConns, val : Int]

Begin(t) == t.do = "Connected"
End(t)   == t.do = "Gone"
Quiet(t) == ~Begin(t) /\ ~End(t)

LinkTypes ==
  /\ conn \in 0..MaxConns /\ connected \in BOOLEAN
  /\ tasks \in Seq(Tasks)
  /\ at \in {"idle", "binding", "bound", "announced", "viewing"}
  /\ EditorModel \in 0..conn
  /\ watched \in BOOLEAN

ControlTypes ==
  /\ control \in 0..conn /\ registered \subseteq 0..conn
  /\ making \in {"no", "delegates", "read", "store", "sync", "ready", "publish"}
  /\ playState \in PlayStates /\ game \in Seq(0..MaxConns)

(* In a queue s, connections begin in the order of their numbers, up to c. *)
InOrder(s, c) ==
  /\ \A i \in 1..Len(s) : Begin(s[i]) => s[i].of <= c
  /\ \A i, j \in 1..Len(s) :
       i < j /\ Begin(s[i]) /\ Begin(s[j]) => s[i].of < s[j].of

(* Some connection is said to be gone.                                     *)
HasEnd(s) == \E i \in 1..Len(s) : End(s[i])

(* A connection that begins, unless it is the one at work, comes after one *)
(* that is said to be gone.                                                *)
Guarded(s, working) ==
  \A i \in 1..Len(s) :
    Begin(s[i]) => \/ i = 1 /\ working
                   \/ \E j \in 1..Len(s) : j < i /\ End(s[j])

(* Connection c begins, and nothing after that is said to be gone.         *)
Latest(s, c) ==
  \E i \in 1..Len(s) :
    /\ Begin(s[i]) /\ s[i].of = c
    /\ \A j \in 1..Len(s) : j > i => ~End(s[j])

(* While a connection begins, its task is at the head of the queue, its    *)
(* model is not alive until it is announced, and nobody reads.  A model    *)
(* that was alive when it was viewed is alive as long as the view lasts.   *)
Working ==
  /\ Locked => /\ 1 \in 1..Len(tasks) /\ Begin(tasks[1]) /\ tasks[1].of = EditorModel
               /\ reader = 0 /\ (alive = "alive") = (at = "announced")
  /\ at = "viewing" => 1 \in 1..Len(tasks) /\ tasks[1].do = "View" /\ alive = "alive"

(* A model that is alive, or about to be, is said to be gone before the    *)
(* next connection begins, and the end of its lifetime sees to that.       *)
Dies ==
  alive = "alive" \/ at = "bound" =>
    /\ Guarded(tasks, Locked)
    /\ ~(connected /\ watched) => HasEnd(tasks)

(* The connection is about to begin, or its model is alive and stays so.   *)
Begins ==
  connected =>
    \/ Latest(tasks, conn)
    \/ ~Locked /\ alive = "alive" /\ EditorModel = conn /\ ~HasEnd(tasks)

LinkInv ==
  LinkTypes /\ InOrder(tasks, conn) /\ Working /\ Dies /\ Begins /\ ReaderSafe

(* A control is made in the task that announces the model or the one that  *)
(* views it, when the module has not been shut down before.                *)
Making ==
  /\ making # "no" => /\ at \in {"announced", "viewing"}
                      /\ module \in {"viewing", "over"} /\ (module = "over" => late)
  /\ late => module = "over"

(* There is a control only for a model that is alive, or that was when the *)
(* module was shut down; none only while it is made, or if the connection  *)
(* was lost before that.                                                   *)
Controlled ==
  IF module = "viewing" /\ alive = "alive"
    THEN \/ control = EditorModel
         \/ control = 0 /\ (~Lives(EditorModel) \/ making # "no")
    ELSE control = 0 \/ late

ControlInv == LinkInv /\ ControlTypes /\ Making /\ Controlled

-----------------------------------------------------------------------------
(* THE STEPS: of all that happens, these are what the link sees.           *)

AllButTasks == <<conn, connected, at, EditorModel, alive, watched, reader>>

QuietAppend ==
  /\ \E t \in Seq(Tasks) : /\ \A i \in 1..Len(t) : Quiet(t[i])
                           /\ tasks' = tasks \o t
  /\ UNCHANGED AllButTasks

StartView ==
  /\ at = "idle" /\ at' = "viewing" /\ alive = "alive"
  /\ tasks # <<>> /\ tasks[1].do = "View"
  /\ UNCHANGED <<conn, connected, tasks, EditorModel, alive, watched, reader>>

QuietFinish ==
  /\ at \in {"idle", "viewing"} /\ at' = "idle"
  /\ tasks # <<>> /\ Quiet(tasks[1])
  /\ Finish
  /\ UNCHANGED <<conn, connected, EditorModel, alive, watched, reader>>

LinkStep ==
  \/ Connect \/ Disconnect \/ Replace \/ Bind \/ Announce \/ Unlock \/ Gone
  \/ StartReading \/ StopReading
  \/ QuietAppend \/ StartView \/ QuietFinish \/ UNCHANGED linkVars

(* The tasks that are in a queue.                                          *)
In(s) == {s[i] : i \in 1..Len(s)}

LEMMA HeadIsFirst == ASSUME NEW S, NEW s \in Seq(S), s # <<>>
                     PROVE  Head(s) = s[1] /\ 1 \in 1..Len(s)
  BY HeadTailProperties, LenProperties, EmptySeq

LEMMA QueueOne ==
  ASSUME NEW k \in Tasks, Quiet(k), Queue(<<k>>), UNCHANGED AllButTasks
  PROVE  QuietAppend
<1>1. <<k>> \in Seq(Tasks) /\ Len(<<k>>) = 1 /\ <<k>>[1] = k
  OBVIOUS
<1>2. \A i \in 1..Len(<<k>>) : Quiet(<<k>>[i])
  BY <1>1
<1> QED
  BY <1>1, <1>2 DEF QuietAppend, Queue

(* All who are notified tell the same.                                     *)
TellIt(t, who, what, val) ==
  /\ \A k \in In(t) : k.do = what /\ k.of \in who /\ k.val = val
  /\ \A c \in who : \E k \in In(t) : k.of = c

LEMMA NotifyTells ==
  ASSUME NEW who \in SUBSET (0..MaxConns), NEW what \in PlayStates \cup {"mode"},
         NEW val \in Int, Notify(who, what, val)
  PROVE  \E t \in Seq(Tasks) : tasks' = tasks \o t /\ TellIt(t, who, what, val)
<1>1. Cardinality(who) \in Nat
  <2>1. IsFiniteSet(0..MaxConns)
    BY FS_Interval, RiderLinkAssumption
  <2> QED
    BY <2>1, FS_Subset, FS_CardinalityType
<1>2. PICK order \in [1..Cardinality(who) -> who] :
        /\ \A c \in who : \E i \in DOMAIN order : order[i] = c
        /\ Queue([i \in DOMAIN order |-> Task(what, order[i], val)])
  BY DEF Notify
<1> DEFINE t == [i \in 1..Cardinality(who) |-> Task(what, order[i], val)]
<1>3. \A i \in 1..Cardinality(who) : Task(what, order[i], val) \in Tasks
  <2>1. what \in Does
    BY DEF PlayStates, Does
  <2>2. \A i \in 1..Cardinality(who) : order[i] \in 0..MaxConns
    OBVIOUS
  <2> QED
    BY <2>1, <2>2 DEF Task, Tasks
<1>4. t \in Seq(Tasks) /\ Len(t) = Cardinality(who)
  <2>1. t \in [1..Cardinality(who) -> Tasks]
    BY <1>3
  <2> HIDE DEF t
  <2> QED
    BY <1>1, <2>1, SeqDef, LenProperties
<1>5. \A k \in In(t) : k.do = what /\ k.of \in who /\ k.val = val
  <2>1. \A i \in 1..Len(t) : t[i].do = what /\ t[i].of \in who /\ t[i].val = val
    BY <1>4 DEF Task
  <2> HIDE DEF t
  <2> QED
    BY <2>1 DEF In
<1>6. ASSUME NEW c \in who PROVE \E k \in In(t) : k.of = c
  <2>1. PICK i \in 1..Cardinality(who) : order[i] = c
    BY <1>2
  <2>2. t[i] \in In(t) /\ t[i].of = c
    BY <1>4, <2>1 DEF Task, In
  <2> QED
    BY <2>2
<1>7. tasks' = tasks \o t
  BY <1>2 DEF Queue
<1> HIDE DEF t
<1> QED
  BY <1>4, <1>5, <1>6, <1>7 DEF TellIt

(* It is quiet.                                                            *)
LEMMA NotifyQuiet ==
  ASSUME NEW who \in SUBSET (0..MaxConns), NEW what \in PlayStates \cup {"mode"},
         NEW val \in Int, Notify(who, what, val), UNCHANGED AllButTasks
  PROVE  QuietAppend
<1>1. PICK t \in Seq(Tasks) : tasks' = tasks \o t /\ TellIt(t, who, what, val)
  BY NotifyTells
<1>2. \A i \in 1..Len(t) : Quiet(t[i])
  BY <1>1 DEF TellIt, Quiet, Begin, End, PlayStates, In
<1> QED
  BY <1>1, <1>2 DEF QuietAppend

(* The constructor goes on in the task that it is in, or ends it.          *)
LEMMA MakeShapes ==
  ASSUME LinkInv, Making, MakeControl
  PROVE  \/ UNCHANGED linkVars /\ making # "no" /\ making' \notin {"no", "delegates"}
         \/ (Unlock \/ QuietFinish) /\ making # "no" /\ making' = "no"
<1>1. making # "no" /\ at \in {"announced", "viewing"}
  BY DEF Making, MakeControl, SubscribeEditor, ReadMode, StoreMode, SyncMode, MarkReady,
         Publish
<1>2. /\ MakingKeeps
      /\ \/ GoOn("read") \/ GoOn("store") \/ GoOn("sync") \/ GoOn("ready")
         \/ GoOn("publish") \/ Return
  BY DEF MakeControl, SubscribeEditor, ReadMode, StoreMode, SyncMode, MarkReady, Publish
<1>3. CASE Return
  <2>1. at = "announced" => Unlock
    BY <1>2, <1>3 DEF Return, MakingKeeps, Unlock
  <2>2. at = "viewing" => QuietFinish
    <3>1. at = "viewing" => tasks # <<>> /\ Quiet(tasks[1])
      BY EmptySeq DEF LinkInv, Working, Quiet, Begin, End
    <3> QED
      BY <1>2, <1>3, <3>1 DEF Return, MakingKeeps, QuietFinish
  <2> QED
    BY <1>1, <1>3, <2>1, <2>2 DEF Return
<1>4. CASE \/ GoOn("read") \/ GoOn("store") \/ GoOn("sync") \/ GoOn("ready")
           \/ GoOn("publish")
  BY <1>1, <1>2, <1>4 DEF GoOn, MakingKeeps, linkVars
<1> QED
  BY <1>2, <1>3, <1>4

LEMMA RegisteringTypes ==
  ASSUME LinkInv, ControlTypes, NEW new \in SUBSET Registering
  PROVE  registered \cup new \in SUBSET (0..MaxConns)
  BY RiderLinkAssumption DEF Registering, LinkInv, LinkTypes, ControlTypes

(* What happens beside the link only queues and finishes quiet tasks.      *)
LEMMA Shapes == ASSUME LinkInv, ControlTypes, Making, [Next]_vars
                PROVE  LinkStep
<1> USE DEF LinkStep
<1>0. CASE UNCHANGED vars
  BY <1>0 DEF vars, linkVars
<1> SUFFICES ASSUME Next PROVE LinkStep
  BY <1>0
<1>q. ASSUME NEW k \in Tasks, Quiet(k), Queue(<<k>>), UNCHANGED AllButTasks
      PROVE  LinkStep
  BY <1>q, QueueOne
<1>n. registered \in SUBSET (0..MaxConns) /\ control \in 0..MaxConns /\ conn \in 0..MaxConns
  BY RiderLinkAssumption DEF LinkInv, LinkTypes, ControlTypes
<1>h. tasks # <<>> => Head(tasks) = tasks[1]
  BY HeadIsFirst DEF LinkInv, LinkTypes
<1>1. CASE Reconnect
  BY <1>1 DEF Reconnect
<1>2. CASE Hangup
  BY <1>2 DEF Hangup
<1>3. CASE Logging
  BY <1>3 DEF Logging
<1>4. CASE Link
  <2>1. CASE NotConnected
    BY <2>1, <1>h DEF NotConnected, Runs, QuietFinish, Quiet, Begin, End
  <2> QED
    BY <1>4, <2>1 DEF Link
<1>5. CASE View
  <2>1. at = "idle" /\ tasks # <<>> /\ tasks[1].do = "View" /\ Quiet(tasks[1])
    BY <1>5, <1>h DEF View, Runs, Quiet, Begin, End
  <2> QED
    BY <1>5, <2>1 DEF View, StartView, QuietFinish
<1>6. CASE Tell
  BY <1>6, <1>h DEF Tell, QuietFinish, Quiet, Begin, End, PlayStates
<1>7. CASE RequestPlayWorldCommand
  BY <1>7, <1>h DEF RequestPlayWorldCommand, Runs, QuietFinish, Quiet, Begin, End
<1>8. CASE SetPlayMode
  BY <1>8, <1>h DEF SetPlayMode, Runs, QuietFinish, Quiet, Begin, End
<1>9. CASE StartupModule
  <2>1. Task("View", 0, 0) \in Tasks /\ Quiet(Task("View", 0, 0))
    BY RiderLinkAssumption DEF Task, Tasks, Does, Quiet, Begin, End
  <2> QED
    BY <1>9, <1>q, <2>1 DEF StartupModule, AllButTasks
<1>10. CASE ShutdownModule
  <2> DEFINE ready == IF making = "publish" THEN EditorModel ELSE control
  <2>1. Task("unready", ready, 0) \in Tasks /\ Quiet(Task("unready", ready, 0))
    BY <1>n, RiderLinkAssumption DEF Task, Tasks, Does, Quiet, Begin, End, LinkInv, LinkTypes
  <2>2. UNCHANGED AllButTasks
    BY <1>10 DEF ShutdownModule, AllButTasks
  <2>3. CASE ready # 0
    BY <1>10, <1>q, <2>1, <2>2, <2>3 DEF ShutdownModule
  <2>4. CASE ready = 0
    <3>1. tasks' = tasks \o <<>>
      BY <1>10, <2>4 DEF ShutdownModule, Queue
    <3>2. <<>> \in Seq(Tasks) /\ \A i \in 1..Len(<<>>) : Quiet(<<>>[i])
      BY EmptySeq
    <3> QED
      BY <2>2, <3>1, <3>2 DEF QuietAppend
  <2> QED
    BY <2>3, <2>4
<1>11. CASE PlayWorld
  <2>1. PICK who \in SUBSET (0..MaxConns) : Notify(who, playState', 0)
    BY <1>11, <1>n, RegisteringTypes DEF PlayWorld
  <2>2. UNCHANGED AllButTasks
    BY <1>11 DEF PlayWorld, AllButTasks
  <2>3. playState' \in PlayStates
    BY <1>11 DEF PlayWorld, After, PlayStates, ControlTypes
  <2>4. QuietAppend
    BY <2>1, <2>2, <2>3, NotifyQuiet
  <2> QED
    BY <2>4
<1>12. CASE Edit
  <2>1. UNCHANGED AllButTasks
    BY <1>12 DEF Edit, AllButTasks
  <2>2. PackToMode(settings') \in Int
    BY <1>12, ControlAssumption DEF Edit, PackToMode, Bit
  <2>3. PICK who \in SUBSET (0..MaxConns) : Notify(who, "mode", PackToMode(settings'))
    BY <1>12, <1>n DEF Edit
  <2>4. QuietAppend
    BY <2>1, <2>2, <2>3, NotifyQuiet
  <2> QED
    BY <2>4
<1>13. CASE Execute
  <2>1. Task("reply", Head(game), 0) \in Tasks /\ Quiet(Task("reply", Head(game), 0))
    <3>1. Head(game) \in 0..MaxConns
      BY <1>13, HeadTailProperties DEF Execute, ControlTypes
    <3> QED
      BY <3>1 DEF Task, Tasks, Does, Quiet, Begin, End
  <2> QED
    BY <1>13, <1>q, <2>1 DEF Execute, AllButTasks
<1>14. CASE Request
  <2>1. Task("Request", conn, 0) \in Tasks /\ Quiet(Task("Request", conn, 0))
    BY <1>n DEF Task, Tasks, Does, Quiet, Begin, End
  <2> QED
    BY <1>14, <1>q, <2>1 DEF Request, AllButTasks
<1>15. CASE ChooseMode
  <2>1. PICK m \in Modes : Queue(<<Task("Mode", conn, m)>>)
    BY <1>15 DEF ChooseMode
  <2>2. Task("Mode", conn, m) \in Tasks /\ Quiet(Task("Mode", conn, m))
    BY <1>n, ControlAssumption DEF Task, Tasks, Does, Quiet, Begin, End
  <2> QED
    BY <1>15, <1>q, <2>1, <2>2 DEF ChooseMode, AllButTasks
<1>16. CASE MakeControl
  BY <1>16, MakeShapes
<1> QED
  BY <1>1, <1>2, <1>3, <1>4, <1>5, <1>6, <1>7, <1>8, <1>9, <1>10, <1>11, <1>12,
     <1>13, <1>14, <1>15, <1>16 DEF Next, Scheduler

-----------------------------------------------------------------------------
(* WHAT HAPPENS TO A QUEUE                                                 *)

LEMMA Appended ==
  ASSUME NEW s \in Seq(Tasks), NEW t \in Seq(Tasks)
  PROVE  /\ s \o t \in Seq(Tasks)
         /\ \A i \in 1..Len(s) : i \in 1..Len(s \o t) /\ (s \o t)[i] = s[i]
         /\ \A i \in 1..Len(s \o t) :
              i \notin 1..Len(s) => /\ i - Len(s) \in 1..Len(t)
                                   /\ (s \o t)[i] = t[i - Len(s)]
         /\ \A k \in 1..Len(t) : /\ Len(s) + k \in 1..Len(s \o t)
                                 /\ (s \o t)[Len(s) + k] = t[k]
  BY ConcatProperties, LenProperties

(* Appending tasks none of which begins a connection.                      *)
LEMMA AppendNoBegin ==
  ASSUME NEW s \in Seq(Tasks), NEW t \in Seq(Tasks), NEW c, NEW working,
         \A i \in 1..Len(t) : ~Begin(t[i])
  PROVE  /\ InOrder(s, c) => InOrder(s \o t, c)
         /\ Guarded(s, working) => Guarded(s \o t, working)
         /\ HasEnd(s) \/ HasEnd(t) => HasEnd(s \o t)
<1> DEFINE r == s \o t
<1>1. /\ \A i \in 1..Len(s) : i \in 1..Len(r) /\ r[i] = s[i]
      /\ \A i \in 1..Len(r) : Begin(r[i]) => i \in 1..Len(s) /\ r[i] = s[i]
      /\ \A k \in 1..Len(t) : Len(s) + k \in 1..Len(r) /\ r[Len(s) + k] = t[k]
  BY Appended
<1> HIDE DEF r
<1>2. InOrder(s, c) => InOrder(r, c)
  BY <1>1 DEF InOrder
<1>3. Guarded(s, working) => Guarded(r, working)
  BY <1>1 DEF Guarded
<1>4. HasEnd(s) \/ HasEnd(t) => HasEnd(r)
  BY <1>1 DEF HasEnd
<1> QED
  BY <1>2, <1>3, <1>4 DEF r

(* Appending quiet tasks.                                                  *)
LEMMA AppendQuiet ==
  ASSUME NEW s \in Seq(Tasks), NEW t \in Seq(Tasks), NEW c,
         \A i \in 1..Len(t) : Quiet(t[i])
  PROVE  /\ HasEnd(s \o t) => HasEnd(s)
         /\ Latest(s, c) => Latest(s \o t, c)
<1> DEFINE r == s \o t
<1>1. /\ \A i \in 1..Len(s) : i \in 1..Len(r) /\ r[i] = s[i]
      /\ \A i \in 1..Len(r) : End(r[i]) => i \in 1..Len(s) /\ r[i] = s[i]
  BY Appended DEF Quiet
<1> HIDE DEF r
<1>2. HasEnd(r) => HasEnd(s)
  BY <1>1 DEF HasEnd
<1>3. Latest(s, c) => Latest(r, c)
  BY <1>1 DEF Latest
<1> QED
  BY <1>2, <1>3 DEF r

(* Appending the beginning of the next connection.                         *)
LEMMA AppendBegin ==
  ASSUME NEW s \in Seq(Tasks), NEW k \in Tasks, NEW c \in Int,
         Begin(k), k.of = c + 1
  PROVE  /\ InOrder(s, c) => InOrder(s \o <<k>>, c + 1)
         /\ Latest(s \o <<k>>, c + 1)
         /\ Guarded(s, TRUE) /\ HasEnd(s) => Guarded(s \o <<k>>, TRUE)
         /\ Guarded(s, FALSE) /\ HasEnd(s) => Guarded(s \o <<k>>, FALSE)
<1> DEFINE r == s \o <<k>>
           n == Len(s) + 1
<1>1. <<k>> \in Seq(Tasks) /\ Len(<<k>>) = 1 /\ <<k>>[1] = k
  OBVIOUS
<1>2. /\ r \in Seq(Tasks) /\ n \in Nat /\ Len(r) = n /\ r[n] = k
      /\ \A i \in 1..Len(s) : i \in 1..n /\ i < n /\ r[i] = s[i]
      /\ \A i \in 1..n : i = n \/ (i \in 1..Len(s) /\ r[i] = s[i])
  BY <1>1, ConcatProperties, LenProperties
<1>3. n \in 1..n
  BY <1>2
<1>4. \A i \in 1..Len(s) : s[i].of \in Int
  <2>1. \A i \in 1..Len(s) : s[i] \in Tasks
    BY ElementOfSeq
  <2> QED
    BY <2>1, RiderLinkAssumption DEF Tasks
<1> HIDE DEF r, n
<1>5. InOrder(s, c) => InOrder(r, c + 1)
  BY <1>2, <1>3, <1>4 DEF InOrder
<1>6. Latest(r, c + 1)
  BY <1>2, <1>3 DEF Latest
<1>7. ASSUME NEW working \in BOOLEAN, Guarded(s, working), HasEnd(s)
      PROVE  Guarded(r, working)
  BY <1>2, <1>3, <1>7 DEF Guarded, HasEnd
<1> QED
  BY <1>5, <1>6, <1>7 DEF r

(* Finishing the task at the head.                                         *)
LEMMA TailOfQueue ==
  ASSUME NEW s \in Seq(Tasks), 1 \in 1..Len(s), NEW c, NEW working
  PROVE  /\ Tail(s) \in Seq(Tasks)
         /\ InOrder(s, c) => InOrder(Tail(s), c)
         /\ ~End(s[1]) => /\ Guarded(s, working) => Guarded(Tail(s), FALSE)
                          /\ HasEnd(s) <=> HasEnd(Tail(s))
         /\ Latest(s, c) => \/ Latest(Tail(s), c)
                            \/ Begin(s[1]) /\ s[1].of = c /\ ~HasEnd(Tail(s))
<1> DEFINE r == Tail(s)
<1>1. /\ r \in Seq(Tasks) /\ Len(s) \in Nat
      /\ \A i \in 1..Len(r) : i + 1 \in 1..Len(s) /\ r[i] = s[i + 1]
      /\ \A i \in 1..Len(s) : i # 1 => i - 1 \in 1..Len(r) /\ r[i - 1] = s[i]
  BY HeadTailProperties, LenProperties, EmptySeq
<1> HIDE DEF r
<1>2. ASSUME InOrder(s, c) PROVE InOrder(r, c)
  <2>1. ASSUME NEW i \in 1..Len(r), Begin(r[i]) PROVE r[i].of <= c
    BY <1>1, <1>2, <2>1 DEF InOrder
  <2>2. ASSUME NEW i \in 1..Len(r), NEW j \in 1..Len(r), i < j, Begin(r[i]), Begin(r[j])
        PROVE  r[i].of < r[j].of
    <3>1. i + 1 \in 1..Len(s) /\ j + 1 \in 1..Len(s) /\ i + 1 < j + 1
      BY <1>1, <2>2
    <3> QED
      BY <1>1, <1>2, <2>2, <3>1 DEF InOrder
  <2> QED
    BY <2>1, <2>2 DEF InOrder
<1>3. ASSUME ~End(s[1]), Guarded(s, working) PROVE Guarded(r, FALSE)
  <2>1. SUFFICES ASSUME NEW i \in 1..Len(r), Begin(r[i])
                 PROVE  \E j \in 1..Len(r) : j < i /\ End(r[j])
    BY DEF Guarded
  <2>2. i + 1 \in 1..Len(s) /\ i + 1 # 1 /\ r[i] = s[i + 1]
    BY <1>1
  <2>3. PICK j \in 1..Len(s) : j < i + 1 /\ End(s[j])
    BY <1>3, <2>1, <2>2 DEF Guarded
  <2>4. j # 1
    BY <1>3, <2>3
  <2>5. j - 1 \in 1..Len(r) /\ r[j - 1] = s[j] /\ j - 1 < i
    BY <1>1, <2>3, <2>4
  <2> QED
    BY <2>3, <2>5
<1>4. ~End(s[1]) => (HasEnd(s) <=> HasEnd(r))
  BY <1>1 DEF HasEnd
<1>5. ASSUME Latest(s, c)
      PROVE  Latest(r, c) \/ (Begin(s[1]) /\ s[1].of = c /\ ~HasEnd(r))
  <2>1. PICK i \in 1..Len(s) : /\ Begin(s[i]) /\ s[i].of = c
                               /\ \A j \in 1..Len(s) : j > i => ~End(s[j])
    BY <1>5 DEF Latest
  <2>2. CASE i = 1
    BY <1>1, <2>1, <2>2 DEF HasEnd
  <2>3. CASE i # 1
    <3>1. i - 1 \in 1..Len(r) /\ r[i - 1] = s[i]
      BY <1>1, <2>3
    <3>2. ASSUME NEW j \in 1..Len(r), j > i - 1 PROVE ~End(r[j])
      <4>1. j + 1 \in 1..Len(s) /\ r[j] = s[j + 1] /\ j + 1 > i
        BY <1>1, <3>2
      <4> QED
        BY <2>1, <4>1
    <3> QED
      BY <2>1, <3>1, <3>2 DEF Latest
  <2> QED
    BY <2>2, <2>3
<1> QED
  BY <1>1, <1>2, <1>3, <1>4, <1>5 DEF r

-----------------------------------------------------------------------------
(* THE LINK                                                                *)

LEMMA LinkInit == ASSUME InitLink PROVE LinkInv
<1>1. LinkTypes
  <2>1. <<>> \in Seq(Tasks) /\ 0 \in 0..MaxConns /\ 0 \in 0..0
    BY RiderLinkAssumption
  <2> QED
    BY <2>1 DEF InitLink, LinkTypes
<1>2. InOrder(tasks, conn) /\ Working /\ Dies /\ Begins /\ ReaderSafe
  BY DEF InitLink, InOrder, Working, Locked, Dies, Begins, ReaderSafe
<1> QED
  BY <1>1, <1>2 DEF LinkInv

(* A model that is alive is never under the hand of the task at the head,  *)
(* and the next one does not begin before it is gone.                      *)
LEMMA NoReplace == ASSUME LinkInv, Replace PROVE alive # "alive"
<1>1. at = "idle" /\ Begin(tasks[1]) /\ 1 \in 1..Len(tasks)
  BY HeadIsFirst DEF LinkInv, LinkTypes, Replace, Runs, Begin
<1>2. ~Guarded(tasks, FALSE)
  BY <1>1 DEF Guarded
<1>3. Locked = FALSE
  BY <1>1 DEF Locked
<1> QED
  BY <1>2, <1>3 DEF LinkInv, Dies

LEMMA FinishHead ==
  ASSUME LinkInv, 1 \in 1..Len(tasks), Finish
  PROVE  /\ tasks' \in Seq(Tasks)
         /\ InOrder(tasks', conn)
         /\ ~End(tasks[1]) => /\ Guarded(tasks, Locked) => Guarded(tasks', FALSE)
                              /\ HasEnd(tasks) <=> HasEnd(tasks')
         /\ Latest(tasks, conn) =>
              \/ Latest(tasks', conn)
              \/ Begin(tasks[1]) /\ tasks[1].of = conn /\ ~HasEnd(tasks')
<1> tasks \in Seq(Tasks) /\ InOrder(tasks, conn)
  BY DEF LinkInv, LinkTypes
<1> QED
  BY TailOfQueue DEF Finish

LEMMA ConnectKeeps == ASSUME LinkInv, Connect PROVE LinkInv'
<1> DEFINE k == Task("Connected", conn + 1, 0)
<1>1. /\ tasks \in Seq(Tasks) /\ conn \in 0..MaxConns /\ conn + 1 \in 0..MaxConns
      /\ tasks' = tasks \o <<k>> /\ conn' = conn + 1 /\ connected' = TRUE
      /\ watched' = FALSE /\ UNCHANGED <<at, EditorModel, alive, reader>> /\ ~connected
  BY RiderLinkAssumption DEF LinkInv, LinkTypes, Connect, Queue
<1>2. k \in Tasks /\ Begin(k) /\ ~End(k) /\ k.of = conn + 1
  BY <1>1 DEF Task, Tasks, Does, Begin, End
<1> HIDE DEF k
<1>3. <<k>> \in Seq(Tasks) /\ Len(<<k>>) = 1 /\ <<k>>[1] = k
  BY <1>2
<1>l. Locked' = Locked /\ Locked \in BOOLEAN
  BY <1>1 DEF Locked
<1>a. conn \in Int
  BY <1>1, RiderLinkAssumption
<1>b. /\ InOrder(tasks, conn) => InOrder(tasks \o <<k>>, conn + 1)
      /\ Latest(tasks \o <<k>>, conn + 1)
      /\ Guarded(tasks, TRUE) /\ HasEnd(tasks) => Guarded(tasks \o <<k>>, TRUE)
      /\ Guarded(tasks, FALSE) /\ HasEnd(tasks) => Guarded(tasks \o <<k>>, FALSE)
  BY <1>1, <1>2, <1>a, AppendBegin
<1>4. LinkTypes'
  <2>1. tasks' \in Seq(Tasks)
    BY <1>1, <1>3, Appended
  <2>2. EditorModel' \in 0..conn'
    BY <1>1 DEF LinkInv, LinkTypes
  <2> QED
    BY <1>1, <2>1, <2>2 DEF LinkInv, LinkTypes
<1>5. InOrder(tasks', conn')
  BY <1>1, <1>b DEF LinkInv
<1>6. Working'
  BY <1>1, <1>3, <1>l, Appended DEF LinkInv, Working
<1>7. Dies'
  <2>1. ASSUME alive = "alive" \/ at = "bound"
        PROVE  Guarded(tasks, Locked) /\ HasEnd(tasks)
    BY <1>1, <2>1 DEF LinkInv, Dies
  <2>2. ASSUME alive = "alive" \/ at = "bound" PROVE HasEnd(tasks')
    <3>1. \A i \in 1..Len(tasks) : i \in 1..Len(tasks') /\ tasks'[i] = tasks[i]
      BY <1>1, <1>3, Appended
    <3> QED
      BY <2>1, <2>2, <3>1 DEF HasEnd
  <2>3. ASSUME alive = "alive" \/ at = "bound" PROVE Guarded(tasks', Locked)
    BY <1>1, <1>b, <1>l, <2>1, <2>3
  <2> QED
    BY <1>1, <1>l, <2>2, <2>3 DEF Dies
<1>8. Begins'
  BY <1>1, <1>b DEF Begins
<1>9. ReaderSafe'
  BY <1>1 DEF LinkInv, ReaderSafe
<1> QED
  BY <1>4, <1>5, <1>6, <1>7, <1>8, <1>9 DEF LinkInv

LEMMA DisconnectKeeps == ASSUME LinkInv, Disconnect PROVE LinkInv'
<1> DEFINE g == Task("Gone", conn, 0)
           d == Task("Disconnected", conn, 0)
           t == (IF watched THEN <<g>> ELSE <<>>) \o <<d>>
<1>1. /\ tasks \in Seq(Tasks) /\ conn \in 0..MaxConns /\ connected' = FALSE
      /\ tasks' = tasks \o t /\ watched' = FALSE
      /\ UNCHANGED <<conn, at, EditorModel, alive, reader>> /\ connected /\ watched \in BOOLEAN
  BY RiderLinkAssumption DEF LinkInv, LinkTypes, Disconnect, Queue
<1>2. g \in Tasks /\ End(g) /\ ~Begin(g) /\ d \in Tasks /\ Quiet(d) /\ ~Begin(d)
  BY <1>1 DEF Task, Tasks, Does, Begin, End, Quiet
<1> HIDE DEF g, d
<1>3. /\ t \in Seq(Tasks) /\ \A i \in 1..Len(t) : ~Begin(t[i])
      /\ watched => HasEnd(t)
  <2>1. CASE watched
    <3>1. t = <<g>> \o <<d>>
      BY <2>1
    <3>2. /\ <<g>> \in Seq(Tasks) /\ Len(<<g>>) = 1 /\ <<g>>[1] = g
          /\ <<d>> \in Seq(Tasks) /\ Len(<<d>>) = 1 /\ <<d>>[1] = d
      BY <1>2
    <3>3. /\ t \in Seq(Tasks) /\ 1 \in 1..Len(t) /\ t[1] = g
          /\ \A i \in 1..Len(t) : t[i] \in {g, d}
      <4> HIDE DEF t
      <4> QED
        BY <3>1, <3>2, Appended
    <3> QED
      BY <1>2, <3>3 DEF HasEnd
  <2>2. CASE ~watched
    <3>1. t = <<d>>
      BY <2>2
    <3> QED
      BY <1>2, <2>2, <3>1
  <2> QED
    BY <1>1, <2>1, <2>2
<1> HIDE DEF t
<1>4. LinkTypes'
  BY <1>1, <1>3, Appended DEF LinkInv, LinkTypes
<1>5. InOrder(tasks', conn')
  BY <1>1, <1>3, AppendNoBegin DEF LinkInv
<1>l. Locked' = Locked
  BY <1>1 DEF Locked
<1>6. Working'
  BY <1>1, <1>3, <1>l, Appended DEF LinkInv, Working
<1>7. Dies'
  <2>1. Guarded(tasks, Locked) => Guarded(tasks', Locked)
    BY <1>1, <1>3, AppendNoBegin
  <2>2. HasEnd(tasks) \/ HasEnd(t) => HasEnd(tasks')
    BY <1>1, <1>3, AppendNoBegin
  <2> QED
    BY <1>1, <1>3, <1>l, <2>1, <2>2 DEF LinkInv, Dies
<1>8. Begins' /\ ReaderSafe'
  BY <1>1 DEF LinkInv, Begins, ReaderSafe
<1> QED
  BY <1>4, <1>5, <1>6, <1>7, <1>8 DEF LinkInv

LEMMA QuietAppendKeeps == ASSUME LinkInv, QuietAppend PROVE LinkInv'
<1>1. PICK t \in Seq(Tasks) : (\A i \in 1..Len(t) : Quiet(t[i])) /\ tasks' = tasks \o t
  BY DEF QuietAppend
<1>2. /\ UNCHANGED <<conn, connected, at, EditorModel, alive, watched, reader>>
      /\ tasks \in Seq(Tasks)
  BY DEF QuietAppend, AllButTasks, LinkInv, LinkTypes
<1>3. \A i \in 1..Len(t) : ~Begin(t[i])
  BY <1>1 DEF Quiet
<1>4. LinkTypes'
  BY <1>1, <1>2, Appended DEF LinkInv, LinkTypes
<1>5. InOrder(tasks', conn')
  BY <1>1, <1>2, <1>3, AppendNoBegin DEF LinkInv
<1>l. Locked' = Locked
  BY <1>2 DEF Locked
<1>6. Working'
  BY <1>1, <1>2, <1>l, Appended DEF LinkInv, Working
<1>7. HasEnd(tasks) <=> HasEnd(tasks')
  BY <1>1, <1>2, <1>3, AppendNoBegin, AppendQuiet
<1>8. Dies'
  <2>1. Guarded(tasks, Locked) => Guarded(tasks', Locked)
    BY <1>1, <1>2, <1>3, AppendNoBegin
  <2> QED
    BY <1>2, <1>7, <1>l, <2>1 DEF LinkInv, Dies
<1>9. Begins'
  <2>1. Latest(tasks, conn) => Latest(tasks', conn)
    BY <1>1, <1>2, AppendQuiet
  <2> QED
    BY <1>2, <1>7, <1>l, <2>1 DEF LinkInv, Begins
<1>10. ReaderSafe'
  BY <1>2 DEF LinkInv, ReaderSafe
<1> QED
  BY <1>4, <1>5, <1>6, <1>8, <1>9, <1>10 DEF LinkInv

LEMMA QuietFinishKeeps == ASSUME LinkInv, QuietFinish PROVE LinkInv'
<1>1. /\ UNCHANGED <<conn, connected, EditorModel, alive, watched, reader>>
      /\ at' = "idle" /\ Locked = FALSE /\ Locked' = FALSE
      /\ Quiet(tasks[1]) /\ ~Begin(tasks[1]) /\ ~End(tasks[1])
      /\ 1 \in 1..Len(tasks) /\ Finish
  BY HeadIsFirst DEF QuietFinish, Locked, LinkInv, LinkTypes, Quiet
<1>2. /\ tasks' \in Seq(Tasks) /\ InOrder(tasks', conn)
      /\ Guarded(tasks, Locked) => Guarded(tasks', FALSE)
      /\ HasEnd(tasks) <=> HasEnd(tasks')
      /\ Latest(tasks, conn) => Latest(tasks', conn)
  BY <1>1, FinishHead
<1>3. LinkTypes' /\ InOrder(tasks', conn')
  BY <1>1, <1>2 DEF LinkInv, LinkTypes
<1>4. Working' /\ ReaderSafe'
  BY <1>1 DEF LinkInv, Working, ReaderSafe
<1>5. Dies'
  BY <1>1, <1>2 DEF LinkInv, Dies
<1>6. Begins'
  BY <1>1, <1>2 DEF LinkInv, Begins
<1> QED
  BY <1>3, <1>4, <1>5, <1>6 DEF LinkInv

LEMMA StartViewKeeps == ASSUME LinkInv, StartView PROVE LinkInv'
<1>1. /\ UNCHANGED <<conn, connected, tasks, EditorModel, alive, watched, reader>>
      /\ at' = "viewing" /\ Locked = FALSE /\ Locked' = FALSE /\ alive = "alive"
      /\ 1 \in 1..Len(tasks) /\ tasks[1].do = "View"
  BY HeadIsFirst DEF StartView, Locked, LinkInv, LinkTypes
<1>2. LinkTypes' /\ InOrder(tasks', conn') /\ Working' /\ ReaderSafe'
  BY <1>1 DEF LinkInv, LinkTypes, Working, ReaderSafe
<1>3. Dies' /\ Begins'
  BY <1>1 DEF LinkInv, Dies, Begins
<1> QED
  BY <1>2, <1>3 DEF LinkInv

LEMMA BindKeeps == ASSUME LinkInv, Bind PROVE LinkInv'
<1>1. /\ at = "binding" /\ UNCHANGED <<conn, connected, EditorModel, alive, reader>>
      /\ 1 \in 1..Len(tasks) /\ Begin(tasks[1]) /\ ~End(tasks[1])
      /\ tasks[1].of = EditorModel /\ alive # "alive" /\ reader = 0 /\ Locked = TRUE
  BY DEF Bind, LinkInv, Working, Locked, Begin, End
<1>2. ReaderSafe'
  BY <1>1 DEF ReaderSafe
<1>3. connected => Latest(tasks, conn)
  BY <1>1 DEF LinkInv, Begins
<1>4. CASE Lives(EditorModel)
  <2>1. /\ connected /\ EditorModel = conn /\ watched' = TRUE /\ at' = "bound"
        /\ UNCHANGED tasks /\ Locked' = TRUE
    BY <1>4 DEF Bind, Lives, Locked
  <2>2. LinkTypes' /\ InOrder(tasks', conn') /\ Working'
    BY <1>1, <2>1 DEF LinkInv, LinkTypes, Working
  <2>3. Guarded(tasks, TRUE)
    <3>1. SUFFICES ASSUME NEW i \in 1..Len(tasks), Begin(tasks[i]), i # 1 PROVE FALSE
      BY DEF Guarded
    <3>2. conn < tasks[i].of /\ tasks[i].of <= conn
      BY <1>1, <2>1, <3>1 DEF LinkInv, InOrder
    <3>3. tasks[i].of \in Int /\ conn \in Int
      <4>1. tasks[i] \in Tasks
        BY ElementOfSeq DEF LinkInv, LinkTypes
      <4> QED
        BY <4>1, RiderLinkAssumption DEF Tasks, LinkInv, LinkTypes
    <3> QED
      BY <3>2, <3>3
  <2>4. Dies'
    BY <1>1, <2>1, <2>3 DEF Dies
  <2>5. Begins'
    BY <1>1, <1>3, <2>1 DEF Begins
  <2> QED
    BY <1>2, <2>2, <2>4, <2>5 DEF LinkInv
<1>5. CASE ~Lives(EditorModel)
  <2>1. /\ ~(connected /\ EditorModel = conn) /\ at' = "idle" /\ Finish /\ UNCHANGED watched
        /\ Locked' = FALSE
    BY <1>5 DEF Bind, Lives, Locked
  <2>2. /\ tasks' \in Seq(Tasks) /\ InOrder(tasks', conn)
        /\ Latest(tasks, conn) => Latest(tasks', conn) \/ EditorModel = conn
    BY <1>1, <2>1, FinishHead
  <2>3. LinkTypes' /\ InOrder(tasks', conn') /\ Working' /\ Dies'
    BY <1>1, <2>1, <2>2 DEF LinkInv, LinkTypes, Working, Dies
  <2>4. Begins'
    BY <1>1, <1>3, <2>1, <2>2 DEF Begins
  <2> QED
    BY <1>2, <2>3, <2>4 DEF LinkInv
<1> QED
  BY <1>4, <1>5

LEMMA AnnounceKeeps == ASSUME LinkInv, Announce PROVE LinkInv'
<1>1. /\ at = "bound" /\ at' = "announced" /\ alive' = "alive"
      /\ UNCHANGED <<conn, connected, tasks, EditorModel, watched, reader>>
      /\ Locked = TRUE /\ Locked' = TRUE
  BY DEF Announce, Locked
<1>2. LinkTypes' /\ InOrder(tasks', conn') /\ Working' /\ ReaderSafe'
  BY <1>1 DEF LinkInv, LinkTypes, Working, ReaderSafe
<1>3. Dies' /\ Begins'
  BY <1>1 DEF LinkInv, Dies, Begins
<1> QED
  BY <1>2, <1>3 DEF LinkInv

LEMMA UnlockKeeps == ASSUME LinkInv, Unlock PROVE LinkInv'
<1>1. /\ at = "announced" /\ at' = "idle" /\ alive = "alive" /\ Finish
      /\ UNCHANGED <<conn, connected, EditorModel, alive, watched, reader>>
      /\ 1 \in 1..Len(tasks) /\ Begin(tasks[1]) /\ ~End(tasks[1])
      /\ tasks[1].of = EditorModel /\ reader = 0 /\ Locked = TRUE /\ Locked' = FALSE
  BY DEF Unlock, LinkInv, Working, Locked, Begin, End
<1>2. /\ tasks' \in Seq(Tasks) /\ InOrder(tasks', conn)
      /\ Guarded(tasks, TRUE) => Guarded(tasks', FALSE)
      /\ HasEnd(tasks) <=> HasEnd(tasks')
      /\ Latest(tasks, conn) =>
           Latest(tasks', conn) \/ (EditorModel = conn /\ ~HasEnd(tasks'))
  BY <1>1, FinishHead
<1>3. LinkTypes' /\ InOrder(tasks', conn') /\ Working' /\ ReaderSafe'
  BY <1>1, <1>2 DEF LinkInv, LinkTypes, Working, ReaderSafe
<1>4. Dies'
  BY <1>1, <1>2 DEF LinkInv, Dies
<1>5. Begins'
  BY <1>1, <1>2 DEF LinkInv, Begins
<1> QED
  BY <1>3, <1>4, <1>5 DEF LinkInv

LEMMA GoneKeeps == ASSUME LinkInv, Gone PROVE LinkInv'
<1>1. /\ at = "idle" /\ alive' = "dead" /\ Finish /\ reader = 0 /\ Locked = FALSE
      /\ UNCHANGED <<conn, connected, at, EditorModel, watched, reader>>
      /\ 1 \in 1..Len(tasks) /\ End(tasks[1]) /\ ~Begin(tasks[1])
  BY HeadIsFirst DEF Gone, Runs, Locked, LinkInv, LinkTypes, Begin, End
<1>2. /\ tasks' \in Seq(Tasks) /\ InOrder(tasks', conn)
      /\ Latest(tasks, conn) => Latest(tasks', conn)
  BY <1>1, FinishHead
<1>3. LinkTypes' /\ InOrder(tasks', conn') /\ Working' /\ Dies' /\ ReaderSafe'
  BY <1>1, <1>2 DEF LinkInv, LinkTypes, Working, Locked, Dies, ReaderSafe
<1>4. HasEnd(tasks)
  BY <1>1 DEF HasEnd
<1>5. Begins'
  BY <1>1, <1>2, <1>4 DEF LinkInv, Begins
<1> QED
  BY <1>3, <1>5 DEF LinkInv

LEMMA ReplaceKeeps == ASSUME LinkInv, Replace PROVE LinkInv'
<1>1. /\ at = "idle" /\ at' = "binding" /\ reader = 0 /\ alive # "alive"
      /\ Locked = FALSE /\ Locked' = TRUE
      /\ UNCHANGED <<conn, connected, tasks, alive, watched, reader>>
      /\ 1 \in 1..Len(tasks) /\ Begin(tasks[1]) /\ EditorModel' = tasks[1].of
  BY NoReplace, HeadIsFirst DEF Replace, Runs, Locked, LinkInv, LinkTypes, Begin
<1>2. EditorModel' \in 0..conn'
  <2>1. tasks[1] \in Tasks
    BY <1>1, ElementOfSeq DEF LinkInv, LinkTypes
  <2>2. tasks[1].of <= conn
    BY <1>1 DEF LinkInv, InOrder
  <2> QED
    BY <1>1, <2>1, <2>2, RiderLinkAssumption DEF Tasks, LinkInv, LinkTypes
<1>3. LinkTypes' /\ InOrder(tasks', conn') /\ Working' /\ Dies' /\ ReaderSafe'
  BY <1>1, <1>2 DEF LinkInv, LinkTypes, Working, Dies, ReaderSafe
<1>4. Begins'
  BY <1>1 DEF LinkInv, Begins
<1> QED
  BY <1>3, <1>4 DEF LinkInv

LEMMA ReadingKeeps == ASSUME LinkInv, StartReading \/ StopReading PROVE LinkInv'
<1>1. /\ UNCHANGED <<conn, connected, tasks, at, EditorModel, alive, watched>>
      /\ reader' = 0 \/ (~Locked /\ alive = "alive" /\ reader' = EditorModel)
      /\ Locked' = Locked
  BY DEF StartReading, StopReading, Locked
<1>2. LinkTypes' /\ InOrder(tasks', conn') /\ Working' /\ ReaderSafe'
  BY <1>1 DEF LinkInv, LinkTypes, Working, ReaderSafe
<1>3. Dies' /\ Begins'
  BY <1>1 DEF LinkInv, Dies, Begins
<1> QED
  BY <1>2, <1>3 DEF LinkInv

LEMMA LinkKeeps == ASSUME LinkInv, LinkStep PROVE LinkInv'
<1>1. CASE UNCHANGED linkVars
  BY <1>1 DEF linkVars, LinkInv, LinkTypes, Working, Locked, Dies, Begins, ReaderSafe
<1> QED
  BY <1>1, ConnectKeeps, DisconnectKeeps, ReplaceKeeps, BindKeeps, AnnounceKeeps,
     UnlockKeeps, GoneKeeps, ReadingKeeps, QuietAppendKeeps, StartViewKeeps,
     QuietFinishKeeps DEF LinkStep

-----------------------------------------------------------------------------
(* THE CONTROL                                                             *)

LEMMA ConnGrows == ASSUME LinkTypes, LinkStep PROVE 0..conn \subseteq 0..conn'
<1>1. conn' = conn \/ conn' = conn + 1
  BY DEF LinkStep, Connect, Disconnect, Replace, Bind, Announce, Unlock, Gone, StartReading,
         StopReading, QuietAppend, StartView, QuietFinish, AllButTasks, linkVars
<1> QED
  BY <1>1, RiderLinkAssumption DEF LinkTypes

(* What the steps of the constructor have in common.                       *)
LEMMA MakeFrame ==
  ASSUME MakeControl
  PROVE  /\ making # "no"
         /\ making' \in {"no", "read", "store", "sync", "ready", "publish"}
         /\ making = "publish" => making' = "no"
         /\ UNCHANGED <<conn, connected, EditorModel, alive, module, settings>>
         /\ UNCHANGED <<playState, game, crashed, late>>
         /\ IF making = "publish" THEN control' = EditorModel ELSE control' = control
         /\ registered' \in {registered, registered \cup {EditorModel}}
<1> USE DEF GoOn, Return, MakingKeeps, gameVars
<1>1. CASE SubscribeEditor
  BY <1>1 DEF SubscribeEditor
<1>2. CASE ReadMode \/ StoreMode
  BY <1>2 DEF ReadMode, StoreMode
<1>3. CASE SyncMode
  BY <1>3 DEF SyncMode
<1>4. CASE MarkReady
  BY <1>4 DEF MarkReady
<1>5. CASE Publish
  BY <1>5 DEF Publish
<1> QED
  BY <1>1, <1>2, <1>3, <1>4, <1>5 DEF MakeControl

(* How far the constructor is: it begins when a model that is viewed comes *)
(* alive, or one that is alive is viewed.                                  *)
LEMMA MakingMoves ==
  ASSUME [Next]_vars
  PROVE  \/ UNCHANGED <<making, late>>
         \/ MakeControl /\ UNCHANGED late
         \/ UNCHANGED making /\ ShutdownModule
         \/ /\ making' = "delegates" /\ UNCHANGED <<late, control, registered>>
            /\ \/ Announce /\ module = "viewing" /\ UNCHANGED module
               \/ View /\ alive = "alive" /\ at' = "viewing" /\ module' = "viewing"
<1>1. CASE Link
  <2>1. CASE Announce
    <3>1. /\ at = "bound" /\ UNCHANGED <<module, late>>
      BY <1>1, <2>1 DEF Announce, Link, history
    <3>2. /\ making' = IF module = "viewing" /\ alive # "alive" THEN "delegates" ELSE making
          /\ UNCHANGED <<control, registered>>
      BY <1>1, <2>1, <3>1 DEF Link, NotConnected, Replace, Bind, Unlock, Gone, Runs
    <3> QED
      BY <2>1, <3>1, <3>2
  <2>2. CASE ~Announce
    BY <1>1, <2>2 DEF Link, history
  <2> QED
    BY <2>1, <2>2
<1>2. CASE View
  BY <1>2 DEF View, history
<1>3. CASE UNCHANGED vars
  BY <1>3 DEF vars, controlVars, history
<1>4. CASE MakeControl
  BY <1>4, MakeFrame
<1>5. CASE ShutdownModule
  BY <1>5 DEF ShutdownModule
<1> QED
  BY <1>1, <1>2, <1>3, <1>4, <1>5 DEF Next, Scheduler, Reconnect, Hangup, Logging, Tell,
     RequestPlayWorldCommand, SetPlayMode, StartupModule, PlayWorld, Edit, Execute,
     Request, ChooseMode, controlVars, history

LEMMA ControlTypesKept ==
  ASSUME LinkTypes, ControlTypes, [Next]_vars, LinkStep
  PROVE  ControlTypes'
<1>c. 0..conn \subseteq 0..conn' /\ EditorModel \in 0..conn /\ 0 \in 0..conn
  BY ConnGrows, RiderLinkAssumption DEF LinkTypes
<1>n. conn \in 0..MaxConns /\ control \in 0..MaxConns
  BY RiderLinkAssumption DEF LinkTypes, ControlTypes
<1>1. control' \in 0..conn /\ registered' \subseteq 0..conn
  <2>1. CASE UNCHANGED <<control, registered>>
    BY <2>1 DEF ControlTypes
  <2>2. CASE MakeControl
    BY <1>c, <2>2, MakeFrame DEF ControlTypes
  <2>3. ASSUME DropControl PROVE <1>1
    BY <1>c, <2>3 DEF DropControl, ControlTypes
  <2>4. CASE Link
    BY <2>1, <2>3, <2>4 DEF Link
  <2>5. CASE View
    BY <2>1, <2>5 DEF View
  <2>6. CASE ShutdownModule
    BY <1>c, <2>6 DEF ShutdownModule, ControlTypes
  <2>7. CASE UNCHANGED vars
    BY <2>1, <2>7 DEF vars, controlVars
  <2> QED
    BY <2>1, <2>2, <2>4, <2>5, <2>6, <2>7 DEF Next, Scheduler, Reconnect, Hangup, Logging,
       Tell, RequestPlayWorldCommand, SetPlayMode, StartupModule, PlayWorld, Edit, Execute,
       Request, ChooseMode, controlVars
<1>2. playState' \in PlayStates
  <2>1. CASE UNCHANGED playState
    BY <2>1 DEF ControlTypes
  <2>2. CASE PlayWorld
    BY <2>2 DEF PlayWorld, After, PlayStates, ControlTypes
  <2>3. CASE UNCHANGED vars
    BY <2>1, <2>3 DEF vars, gameVars
  <2>4. CASE MakeControl
    BY <2>1, <2>4, MakeFrame
  <2> QED
    BY <2>1, <2>2, <2>3, <2>4 DEF Next, Scheduler, Link, View, ShutdownModule, Reconnect,
       Hangup, Logging, Tell, RequestPlayWorldCommand, SetPlayMode, StartupModule, Edit,
       Execute, Request, ChooseMode, gameVars
<1>3. game' \in Seq(0..MaxConns)
  <2>1. CASE UNCHANGED game
    BY <2>1 DEF ControlTypes
  <2>2. CASE Execute
    BY <2>2, HeadTailProperties DEF Execute, ControlTypes
  <2>3. CASE RequestPlayWorldCommand
    <3>1. CASE game' = Append(game, control)
      BY <1>n, <3>1, AppendProperties DEF ControlTypes
    <3> QED
      BY <2>1, <2>3, <3>1 DEF RequestPlayWorldCommand
  <2>4. CASE UNCHANGED vars
    BY <2>1, <2>4 DEF vars, gameVars
  <2>5. CASE MakeControl
    BY <2>1, <2>5, MakeFrame
  <2> QED
    BY <2>1, <2>2, <2>3, <2>4, <2>5 DEF Next, Scheduler, Link, View, ShutdownModule, Reconnect,
       Hangup, Logging, Tell, SetPlayMode, StartupModule, PlayWorld, Edit, Request,
       ChooseMode, gameVars
<1>4. making' \in {"no", "delegates", "read", "store", "sync", "ready", "publish"}
  BY MakingMoves, MakeFrame DEF ControlTypes
<1> QED
  BY <1>c, <1>1, <1>2, <1>3, <1>4 DEF ControlTypes

(* How the module changes, and who changes it.                             *)
LEMMA ModuleSteps ==
  ASSUME [Next]_vars
  PROVE  \/ UNCHANGED module
         \/ module = "loaded" /\ module' = "started" /\ UNCHANGED <<making, late, control>>
         \/ View /\ module # "over" /\ module' = "viewing"
         \/ /\ module \in {"started", "viewing"} /\ module' = "over"
            /\ late' = (making # "no") /\ control' = 0 /\ UNCHANGED <<making, at>>
<1>1. CASE StartupModule
  BY <1>1 DEF StartupModule, history
<1>2. CASE ShutdownModule
  BY <1>2 DEF ShutdownModule
<1>3. CASE View
  BY <1>3 DEF View
<1>4. CASE Link
  BY <1>4 DEF Link
<1>5. CASE MakeControl
  BY <1>5, MakeFrame
<1>6. CASE UNCHANGED vars
  BY <1>6 DEF vars, controlVars
<1> QED
  BY <1>1, <1>2, <1>3, <1>4, <1>5, <1>6 DEF Next, Scheduler, Reconnect, Hangup, Logging,
     Tell, RequestPlayWorldCommand, SetPlayMode, PlayWorld, Edit, Execute, Request,
     ChooseMode, controlVars

(* While a control is made, the scheduler does nothing else.               *)
LEMMA WhileMaking ==
  ASSUME Making, making # "no", Scheduler
  PROVE  MakeControl
<1>1. at \in {"announced", "viewing"}
  BY DEF Making
<1>2. ~Link
  BY <1>1 DEF Link, NotConnected, Replace, Bind, Announce, Gone, Runs
<1>3. ~(View \/ Tell \/ RequestPlayWorldCommand \/ SetPlayMode)
  BY <1>1 DEF View, Tell, RequestPlayWorldCommand, SetPlayMode, Runs
<1> QED
  BY <1>2, <1>3 DEF Scheduler

LEMMA MakingKept ==
  ASSUME Making, [Next]_vars
  PROVE  Making'
<1>1. late' => module' = "over"
  BY MakingMoves, MakeFrame, ModuleSteps DEF Making, ShutdownModule
<1>2. SUFFICES ASSUME making' # "no"
               PROVE  /\ at' \in {"announced", "viewing"}
                      /\ module' \in {"viewing", "over"} /\ (module' = "over" => late')
  BY <1>1 DEF Making
<1>3. CASE making # "no"
  <2>1. /\ at \in {"announced", "viewing"} /\ module \in {"viewing", "over"}
        /\ module = "over" => late
    BY <1>3 DEF Making
  <2>2. at' \in {"announced", "viewing"}
    <3>1. CASE MakeControl
      BY <1>2, <2>1, <3>1 DEF MakeControl, SubscribeEditor, ReadMode, StoreMode, SyncMode,
         MarkReady, Publish, GoOn, Return
    <3>2. CASE UNCHANGED at
      BY <2>1, <3>2
    <3>3. CASE UNCHANGED vars
      BY <3>2, <3>3 DEF vars, linkVars
    <3> QED
      BY <1>3, <3>1, <3>2, <3>3, WhileMaking DEF Next, Reconnect, Hangup, Connect,
         Disconnect, Logging, StartReading, StopReading, StartupModule, ShutdownModule,
         PlayWorld, Edit, Execute, Request, ChooseMode
  <2>3. module' \in {"viewing", "over"} /\ (module' = "over" => late')
    BY <1>3, <2>1, ModuleSteps, MakingMoves, MakeFrame DEF ShutdownModule
  <2> QED
    BY <2>2, <2>3
<1>4. CASE making = "no"
  <2>1. /\ making' = "delegates" /\ UNCHANGED <<late, control, registered>>
        /\ \/ Announce /\ module = "viewing" /\ UNCHANGED module
           \/ View /\ alive = "alive" /\ at' = "viewing" /\ module' = "viewing"
    BY <1>2, <1>4, MakingMoves, MakeFrame
  <2>2. Announce => at' = "announced" /\ ~late
    BY <1>4, <2>1 DEF Announce, Making, View, Runs
  <2> QED
    BY <2>1, <2>2
<1> QED
  BY <1>3, <1>4

(* A control is made, kept and destroyed with the life of its model.       *)
LEMMA ControlledKept ==
  ASSUME LinkInv, Making, Controlled, [Next]_vars
  PROVE  Controlled'
<1>e. EditorModel \in 0..conn /\ conn \in Nat
  BY RiderLinkAssumption DEF LinkInv, LinkTypes
<1>m. late' => module' = "over"
  BY MakingKept DEF Making
<1>1. ASSUME UNCHANGED <<module, control, EditorModel, alive, making, late>>,
             Lives(EditorModel)' => Lives(EditorModel)
      PROVE  Controlled'
  BY <1>1 DEF Controlled
<1>2. CASE UNCHANGED vars
  BY <1>1, <1>2 DEF vars, linkVars, controlVars, history, Lives
<1>3. CASE Reconnect
  <2>1. ~Lives(EditorModel)'
    BY <1>e, <1>3 DEF Reconnect, Connect, Lives
  <2> QED
    BY <1>1, <1>3, <2>1 DEF Reconnect, Connect, controlVars, history
<1>4. CASE Hangup
  BY <1>1, <1>4 DEF Hangup, Disconnect, controlVars, history, Lives
<1>5. CASE Logging
  BY <1>1, <1>5 DEF Logging, StartReading, StopReading, controlVars, history, Lives
<1>6. CASE Link
  <2>0. UNCHANGED <<module, late>>
    BY <1>6 DEF Link, history
  <2>1. CASE NotConnected \/ Bind \/ (making = "no" /\ Unlock)
    BY <1>1, <1>6, <2>0, <2>1 DEF Link, NotConnected, Bind, Unlock, Announce, Gone, Replace,
                                  Runs, Lives
  <2>2. CASE Replace
    <3>1. alive # "alive" /\ UNCHANGED <<control, alive>>
      BY <1>6, <2>2, NoReplace DEF Link, Replace, NotConnected, Bind, Announce, Unlock, Gone,
                                   Runs
    <3> QED
      BY <2>0, <3>1 DEF Controlled
  <2>3. CASE Announce
    <3>1. alive # "alive" /\ alive' = "alive" /\ at = "bound" /\ making = "no"
      BY <2>3 DEF Announce, LinkInv, Working, Locked, Making
    <3>2. /\ making' = (IF module = "viewing" THEN "delegates" ELSE "no")
          /\ UNCHANGED control
      BY <1>6, <2>3, <3>1 DEF Link, Announce, NotConnected, Bind, Unlock, Gone, Replace, Runs
    <3> QED
      BY <1>m, <2>0, <3>1, <3>2 DEF Controlled
  <2>4. CASE Gone
    <3>1. /\ alive' = "dead" /\ at = "idle"
      BY <2>4 DEF Gone, Runs
    <3>2. IF module = "viewing" /\ alive = "alive" THEN DropControl ELSE UNCHANGED control
      BY <1>6, <2>4, <3>1 DEF Link, Announce, NotConnected, Bind, Unlock, Gone, Replace, Runs
    <3> QED
      BY <2>0, <3>1, <3>2 DEF DropControl, Controlled
  <2> QED
    BY <1>6, <2>1, <2>2, <2>3, <2>4 DEF Link
<1>7. CASE MakeControl
  <2>1. /\ making # "no" /\ at \in {"announced", "viewing"} /\ alive = "alive"
        /\ module \in {"viewing", "over"} /\ (module = "over" => late)
        /\ UNCHANGED <<module, EditorModel, alive, late, conn, connected>>
    BY <1>7, MakeFrame DEF Making, LinkInv, Working, Locked
  <2>2. UNCHANGED Lives(EditorModel) /\ Bound(EditorModel) = Lives(EditorModel)
    BY <2>1 DEF Lives, Bound
  <2>3. CASE module = "over"
    BY <2>1, <2>3 DEF Controlled
  <2>4. CASE module = "viewing"
    <3>1. \/ making' # "no" /\ UNCHANGED control
          \/ UNCHANGED control /\ ~Lives(EditorModel)
          \/ control' = EditorModel
      BY <1>7, <2>2, <2>4 DEF MakeControl, SubscribeEditor, ReadMode, StoreMode, SyncMode,
         MarkReady, Publish, GoOn
    <3> QED
      BY <2>1, <2>2, <2>4, <3>1 DEF Controlled
  <2> QED
    BY <2>1, <2>3, <2>4
<1>8. CASE View
  <2>1. /\ at = "idle" /\ UNCHANGED <<EditorModel, alive, conn, connected, control, late>>
        /\ making = "no"
    BY <1>8 DEF View, Runs, history, Making
  <2>2. CASE module # "over" /\ alive = "alive"
    <3>1. making' = "delegates" /\ module' = "viewing"
      BY <1>8, <2>2 DEF View
    <3>2. control = EditorModel \/ control = 0
      BY <2>2 DEF Controlled, Making
    <3> QED
      BY <2>1, <2>2, <3>1, <3>2 DEF Controlled
  <2>3. CASE ~(module # "over" /\ alive = "alive")
    <3>1. alive # "alive" \/ (module = "over" /\ module' = "over")
      BY <1>8, <2>3 DEF View
    <3> QED
      BY <2>1, <3>1 DEF Controlled
  <2> QED
    BY <2>2, <2>3
<1>9. CASE StartupModule
  <2>1. /\ module = "loaded" /\ module' = "started"
        /\ UNCHANGED <<control, late>>
    BY <1>9 DEF StartupModule, history
  <2> QED
    BY <2>1 DEF Controlled
<1>10. CASE ShutdownModule
  BY <1>10 DEF ShutdownModule, Controlled
<1>11. CASE Tell \/ RequestPlayWorldCommand \/ SetPlayMode
  BY <1>1, <1>11 DEF Tell, RequestPlayWorldCommand, SetPlayMode, controlVars, history, Lives
<1>12. CASE PlayWorld \/ Edit \/ Execute \/ Request \/ ChooseMode
  BY <1>1, <1>12 DEF PlayWorld, Edit, Execute, Request, ChooseMode, controlVars, history, Lives
<1> QED
  BY <1>2, <1>3, <1>4, <1>5, <1>6, <1>7, <1>8, <1>9, <1>10, <1>11, <1>12 DEF Next, Scheduler

-----------------------------------------------------------------------------
(* The invariant that the rest follows from.                               *)
THEOREM ControlInvariant == Spec => []ControlInv
<1>1. Init => ControlInv
  <2> SUFFICES ASSUME Init PROVE ControlInv
    OBVIOUS
  <2>1. LinkInv
    BY LinkInit DEF Init
  <2>2. ControlTypes /\ Controlled
    BY DEF Init, InitLink, ControlTypes, Controlled, PlayStates
  <2>3. Making
    BY DEF Init, Making
  <2> QED
    BY <2>1, <2>2, <2>3 DEF ControlInv
<1>2. ControlInv /\ [Next]_vars => ControlInv'
  <2> SUFFICES ASSUME ControlInv, [Next]_vars PROVE ControlInv'
    OBVIOUS
  <2>1. LinkInv /\ LinkTypes /\ ControlTypes /\ Making /\ Controlled
    BY DEF ControlInv, LinkInv
  <2>2. LinkStep
    BY <2>1, Shapes
  <2> QED
    BY <2>1, <2>2, LinkKeeps, ControlTypesKept, MakingKept, ControlledKept DEF ControlInv
<1> QED
  BY <1>1, <1>2, PTL DEF Spec

(* The logging thread never fires on a model that is destroyed or is not   *)
(* alive: what the two locks of FRiderLinkModule are for.                  *)
THEOREM ReaderIsSafe == Spec => []ReaderSafe
<1>1. ControlInv => ReaderSafe
  BY DEF ControlInv, LinkInv
<1> QED
  BY <1>1, ControlInvariant, PTL

(* When the scheduler has nothing to do, the model is alive just when      *)
(* there is a connection, and the control is there just when it is viewed: *)
(* however often the connection was lost and at whatever point, also while *)
(* the control was made, and unless the module was shut down at that very  *)
(* time.                                                                   *)
THEOREM LinkSettles == Spec => []Settled
<1>1. ControlInv => Settled
  <2> SUFFICES ASSUME ControlInv, tasks = <<>> PROVE
        /\ (alive = "alive") = connected
        /\ connected => EditorModel = conn
        /\ late \/ control = IF connected /\ module = "viewing" THEN conn ELSE 0
    BY DEF Settled
  <2>1. ~HasEnd(tasks) /\ ~Latest(tasks, conn) /\ 1 \notin 1..Len(tasks)
    BY DEF HasEnd, Latest
  <2>2. LinkInv /\ Making /\ Controlled /\ connected \in BOOLEAN
    BY DEF ControlInv, LinkInv, LinkTypes
  <2>3. alive = "alive" => connected
    BY <2>1, <2>2 DEF LinkInv, Dies
  <2>4. connected => alive = "alive" /\ EditorModel = conn
    BY <2>1, <2>2 DEF LinkInv, Begins
  <2>5. at # "announced" /\ at # "viewing"
    BY <2>1, <2>2 DEF LinkInv, Working, Locked
  <2>6. making = "no"
    BY <2>2, <2>5 DEF Making
  <2>7. late \/ control = IF connected /\ module = "viewing" THEN conn ELSE 0
    BY <2>2, <2>3, <2>4, <2>6 DEF Controlled, Lives
  <2> QED
    BY <2>2, <2>3, <2>4, <2>7
<1> QED
  BY <1>1, ControlInvariant, PTL

(* The model is replaced only while it is not alive, so nobody who views   *)
(* RdIsModelAlive ever sees two models without a gap between them.         *)
THEOREM ModelIsReplacedWhenDead == Spec => ReplacedWhenDead
<1>1. ControlInv /\ [Next]_vars => [EditorModel' # EditorModel => alive # "alive"]_vars
  <2> SUFFICES ASSUME ControlInv, [Next]_vars, EditorModel' # EditorModel
               PROVE  alive # "alive"
    OBVIOUS
  <2>1. LinkInv /\ LinkStep
    BY Shapes DEF ControlInv, LinkInv
  <2>2. Replace
    BY <2>1 DEF LinkStep, Connect, Disconnect, Bind, Announce, Unlock, Gone, StartReading,
       StopReading, QuietAppend, StartView, QuietFinish, AllButTasks, linkVars
  <2> QED
    BY <2>1, <2>2, NoReplace
<1> QED
  BY <1>1, ControlInvariant, PTL DEF Spec, ReplacedWhenDead

-----------------------------------------------------------------------------
(* WHAT RIDER IS SHOWN                                                     *)
(*                                                                         *)
(* What Rider will have been told when the queue is empty is what the last *)
(* task of the control tells it, or what it has, if there is none.         *)

TellsState(c) == {k \in Tasks : k.do \in PlayStates /\ k.of = c}
TellsMode(c)  == {k \in Tasks : k.do = "mode" /\ k.of = c}
SetsMode(c)   == {k \in Tasks : k.do = "Mode" /\ k.of = c}

(* From some task of M on, those of M are in G; or there is none, and now. *)
Told(s, M, G, now) ==
  \/ \E i \in 1..Len(s) :
       s[i] \in M /\ \A j \in 1..Len(s) : j >= i /\ s[j] \in M => s[j] \in G
  \/ In(s) \cap M = {} /\ now

StateShown(s, c, state, now) ==
  Told(s, TellsState(c), {k \in Tasks : k.do = state}, now)

(* What Rider asks for after what the control tells it is answered by the  *)
(* control, so a mode that differs on the way to it brings both in step.   *)
ModeShown(s, c, mode, now) ==
  /\ \A i, j \in 1..Len(s) : i < j /\ s[i] \in SetsMode(c) => s[j] \notin TellsMode(c)
  /\ \/ \E k \in In(s) : k \in SetsMode(c) /\ k.val # mode
     \/ Told(s, TellsMode(c), {k \in Tasks : k.val = mode}, now)

SettingsType == [clients : Nat \ {0}, spawn : BOOLEAN, dedicated : BOOLEAN]
RiderType    == [state : PlayStates \cup {None}, mode : Int, ready : BOOLEAN]

ShownTypes ==
  /\ module \in {"loaded", "started", "viewing", "over"}
  /\ rider \in RiderType
  /\ settings \in SettingsType /\ playMode \in Int /\ got \in Nat
  /\ crashed \in BOOLEAN /\ {changed, lost, raced, strayed} \subseteq BOOLEAN
  /\ \A k \in In(tasks) : k.do = "Mode" => k.val \in Modes

(* Connections that have yet to begin are later than the model's.          *)
Ahead ==
  \A k \in In(tasks) :
    Begin(k) => EditorModel < k.of \/ (Locked /\ k.of = EditorModel)

(* The module views the model once, and until then makes no control.       *)
Views ==
  /\ \A k \in In(tasks) :
       k.do = "View" => module \in {"started", "over"} \/ (at = "viewing" /\ module = "viewing")
  /\ \A i, j \in 1..Len(tasks) : tasks[i].do = "View" /\ tasks[j].do = "View" => i = j

(* The delegates of a control of model n may have been registered.         *)
Made(n) ==
  \/ n < EditorModel
  \/ /\ n = EditorModel /\ at \notin {"binding", "bound"} /\ making # "delegates"
     /\ module \in {"viewing", "over"}

(* Delegates, and what they tell of the mode, belong to controls made.     *)
MadeOnly ==
  /\ \A n \in registered : Made(n)
  /\ \A k \in In(tasks) : k.do = "mode" => Made(k.of)

(* A control is there, or its delegates are, and is looked after.          *)
Kept == Control # 0 /\ making # "delegates" /\ ~late

(* The mode is in Rider's hands: the initial sync is over.                 *)
Synced == making \in {"no", "ready", "publish"}

Mode == PackToMode(settings)

(* The delegates of the control are there.  It knows the mode, once it has *)
(* stored what it had read of it, or nothing of it before.                 *)
Informed ==
  Kept =>
    /\ Control \in registered
    /\ IF making \in {"read", "store"}
         THEN /\ playMode \in {Unset, Mode}
              /\ playMode = Unset => In(tasks) \cap TellsMode(Control) = {}
              /\ lost => making = "store"
              /\ making = "store" => lost \/ got = Mode
         ELSE playMode # Unset /\ (lost \/ playMode = Mode)

StateTold ==
  Kept /\ Lives(Control) /\ changed /\ ~strayed /\ ~crashed =>
    StateShown(tasks, Control, playState, rider.state = playState)

ModeTold ==
  Kept /\ Lives(Control) /\ ~lost /\ ~raced /\ ~strayed /\ ~crashed =>
    ModeShown(tasks, Control, Mode, Synced => rider.mode = Mode)

ShownInv ==
  ShownTypes /\ Ahead /\ Views /\ MadeOnly /\ Informed /\ StateTold /\ ModeTold

-----------------------------------------------------------------------------
(* QUEUES THAT TELL                                                        *)

LEMMA InAppended ==
  ASSUME NEW s \in Seq(Tasks), NEW t \in Seq(Tasks)
  PROVE  In(s \o t) = In(s) \cup In(t) /\ In(s \o t) \subseteq Tasks
<1> DEFINE r == s \o t
<1>1. /\ r \in Seq(Tasks)
      /\ \A i \in 1..Len(s) : i \in 1..Len(r) /\ r[i] = s[i]
      /\ \A i \in 1..Len(r) :
           i \notin 1..Len(s) => i - Len(s) \in 1..Len(t) /\ r[i] = t[i - Len(s)]
      /\ \A k \in 1..Len(t) : Len(s) + k \in 1..Len(r) /\ r[Len(s) + k] = t[k]
  BY Appended
<1>2. \A i \in 1..Len(r) : r[i] \in Tasks
  BY <1>1, ElementOfSeq
<1> HIDE DEF r
<1>3. In(r) \subseteq In(s) \cup In(t)
  BY <1>1 DEF In
<1>4. In(s) \cup In(t) \subseteq In(r)
  BY <1>1 DEF In
<1> QED
  BY <1>2, <1>3, <1>4 DEF In, r

LEMMA InOne == ASSUME NEW k \in Tasks
               PROVE  <<k>> \in Seq(Tasks) /\ In(<<k>>) = {k}
<1>1. <<k>> \in Seq(Tasks) /\ Len(<<k>>) = 1 /\ <<k>>[1] = k
  OBVIOUS
<1> QED
  BY <1>1 DEF In

(* The head is finished.  What is left was behind it.                      *)
LEMMA InTail ==
  ASSUME NEW s \in Seq(Tasks), 1 \in 1..Len(s)
  PROVE  /\ Tail(s) \in Seq(Tasks)
         /\ \A i \in 1..Len(Tail(s)) : i + 1 \in 1..Len(s) /\ Tail(s)[i] = s[i + 1]
         /\ \A i \in 1..Len(s) : i # 1 => i - 1 \in 1..Len(Tail(s)) /\ Tail(s)[i - 1] = s[i]
         /\ In(Tail(s)) \subseteq In(s) /\ In(s) \subseteq In(Tail(s)) \cup {s[1]}
         /\ s[1] \in Tasks
<1> DEFINE r == Tail(s)
<1>1. /\ r \in Seq(Tasks) /\ Len(s) \in Nat
      /\ \A i \in 1..Len(r) : i + 1 \in 1..Len(s) /\ r[i] = s[i + 1]
      /\ \A i \in 1..Len(s) : i # 1 => i - 1 \in 1..Len(r) /\ r[i - 1] = s[i]
  BY HeadTailProperties, LenProperties, EmptySeq
<1>2. s[1] \in Tasks
  BY ElementOfSeq
<1> HIDE DEF r
<1>3. In(r) \subseteq In(s)
  BY <1>1 DEF In
<1>4. In(s) \subseteq In(r) \cup {s[1]}
  BY <1>1 DEF In
<1> QED
  BY <1>1, <1>2, <1>3, <1>4 DEF r

LEMMA ToldAppend ==
  ASSUME NEW s \in Seq(Tasks), NEW t \in Seq(Tasks), NEW M, NEW G, NEW now,
         Told(s, M, G, now), In(t) \cap M = {}
  PROVE  Told(s \o t, M, G, now)
<1> DEFINE r == s \o t
<1>1. /\ \A i \in 1..Len(s) : i \in 1..Len(r) /\ r[i] = s[i]
      /\ \A i \in 1..Len(r) : r[i] \in M => i \in 1..Len(s) /\ r[i] = s[i]
  <2>1. \A i \in 1..Len(t) : t[i] \notin M
    BY DEF In
  <2> QED
    BY <2>1, Appended
<1>2. In(s) \cap M = {} => In(r) \cap M = {}
  BY InAppended
<1> HIDE DEF r
<1>3. ASSUME NEW i \in 1..Len(s), s[i] \in M,
             \A j \in 1..Len(s) : j >= i /\ s[j] \in M => s[j] \in G
      PROVE  Told(r, M, G, now)
  BY <1>1, <1>3 DEF Told
<1> QED
  BY <1>2, <1>3 DEF Told, r

(* What is appended tells of M, and all of it is in G.                     *)
LEMMA ToldNews ==
  ASSUME NEW s \in Seq(Tasks), NEW t \in Seq(Tasks), NEW M, NEW G, NEW now,
         In(t) \cap M # {}, In(t) \cap M \subseteq G
  PROVE  Told(s \o t, M, G, now)
<1> DEFINE r == s \o t
<1>0. PICK k \in 1..Len(t) : t[k] \in M
  BY DEF In
<1>1. /\ Len(s) \in Nat /\ Len(s) + k \in 1..Len(r) /\ r[Len(s) + k] = t[k]
      /\ \A i \in 1..Len(r) : i >= Len(s) + k =>
           i \notin 1..Len(s) /\ i - Len(s) \in 1..Len(t) /\ r[i] = t[i - Len(s)]
  BY Appended, LenProperties
<1>2. \A i \in 1..Len(t) : t[i] \in M => t[i] \in G
  BY DEF In
<1> HIDE DEF r
<1> QED
  BY <1>0, <1>1, <1>2 DEF Told, r

LEMMA ToldTail ==
  ASSUME NEW s \in Seq(Tasks), 1 \in 1..Len(s), NEW M, NEW G, NEW now,
         Told(s, M, G, now)
  PROVE  /\ s[1] \notin M => Told(Tail(s), M, G, now)
         /\ s[1] \in M => Told(Tail(s), M, G, s[1] \in G)
<1> DEFINE r == Tail(s)
<1>1. /\ r \in Seq(Tasks)
      /\ \A i \in 1..Len(r) : i + 1 \in 1..Len(s) /\ r[i] = s[i + 1]
      /\ \A i \in 1..Len(s) : i # 1 => i - 1 \in 1..Len(r) /\ r[i - 1] = s[i]
      /\ In(r) \subseteq In(s) /\ s[1] \in In(s)
  BY InTail DEF In
<1> HIDE DEF r
<1>2. ASSUME NEW i \in 1..Len(s), i # 1, s[i] \in M, NEW then,
             \A j \in 1..Len(s) : j >= i /\ s[j] \in M => s[j] \in G
      PROVE  Told(r, M, G, then)
  <2>1. i - 1 \in 1..Len(r) /\ r[i - 1] \in M
    BY <1>1, <1>2
  <2>2. ASSUME NEW j \in 1..Len(r), j >= i - 1, r[j] \in M PROVE r[j] \in G
    <3>1. j + 1 \in 1..Len(s) /\ r[j] = s[j + 1] /\ j + 1 >= i
      BY <1>1, <2>2
    <3> QED
      BY <1>2, <2>2, <3>1
  <2> QED
    BY <2>1, <2>2 DEF Told
<1>3. ASSUME s[1] \in M, \A j \in 1..Len(s) : j >= 1 /\ s[j] \in M => s[j] \in G
      PROVE  Told(r, M, G, s[1] \in G)
  <2>1. \A j \in 1..Len(r) : r[j] \in M => r[j] \in G
    BY <1>1, <1>3
  <2>2. s[1] \in G
    BY <1>3
  <2>3. CASE In(r) \cap M = {}
    BY <2>2, <2>3 DEF Told
  <2>4. CASE In(r) \cap M # {}
    BY <2>1, <2>4 DEF Told, In
  <2> QED
    BY <2>3, <2>4
<1>4. ASSUME s[1] \notin M PROVE Told(r, M, G, now)
  <2>1. CASE In(s) \cap M = {} /\ now
    BY <1>1, <2>1 DEF Told
  <2> QED
    BY <1>2, <1>4, <2>1 DEF Told
<1>5. ASSUME s[1] \in M PROVE Told(r, M, G, s[1] \in G)
  <2>1. In(s) \cap M # {}
    BY <1>1, <1>5
  <2>2. PICK i \in 1..Len(s) :
          s[i] \in M /\ \A j \in 1..Len(s) : j >= i /\ s[j] \in M => s[j] \in G
    BY <2>1 DEF Told
  <2> QED
    BY <1>2, <1>3, <1>5, <2>2
<1> QED
  BY <1>4, <1>5 DEF r

(* From queue s to queue r nothing is queued or finished that is in M.     *)
Aside(s, r, M) ==
  \/ r = s
  \/ \E t \in Seq(Tasks) : r = s \o t /\ In(t) \cap M = {}
  \/ 1 \in 1..Len(s) /\ s[1] \notin M /\ r = Tail(s)

LEMMA StateAside ==
  ASSUME NEW s \in Seq(Tasks), NEW r, NEW c, NEW state, NEW now,
         StateShown(s, c, state, now), Aside(s, r, TellsState(c))
  PROVE  StateShown(r, c, state, now)
  BY ToldAppend, ToldTail DEF StateShown, Aside

LEMMA ModeAside ==
  ASSUME NEW s \in Seq(Tasks), NEW r, NEW c, NEW mode, NEW now,
         ModeShown(s, c, mode, now), Aside(s, r, TellsMode(c) \cup SetsMode(c))
  PROVE  ModeShown(r, c, mode, now)
<1> DEFINE M == TellsMode(c)
           S == SetsMode(c)
           G == {k \in Tasks : k.val = mode}
<1>1. CASE r = s
  BY <1>1
<1>2. ASSUME NEW t \in Seq(Tasks), r = s \o t, In(t) \cap (M \cup S) = {}
      PROVE  ModeShown(r, c, mode, now)
  <2>0. /\ \A i \in 1..Len(r) : r[i] \in M \cup S => i \in 1..Len(s) /\ r[i] = s[i]
        /\ In(s) \subseteq In(r)
    <3>1. \A i \in 1..Len(t) : t[i] \notin M \cup S
      BY <1>2 DEF In
    <3> HIDE DEF M, S
    <3> QED
      BY <1>2, <3>1, Appended, InAppended
  <2>1. \A i, j \in 1..Len(r) : i < j /\ r[i] \in S => r[j] \notin M
    <3> HIDE DEF M, S
    <3>1. \A i, j \in 1..Len(s) : i < j /\ s[i] \in S => s[j] \notin M
      BY DEF ModeShown, M, S
    <3> QED
      BY <2>0, <3>1
  <2>2. Told(s, M, G, now) => Told(r, M, G, now)
    <3> HIDE DEF M, S, G
    <3> QED
      BY <1>2, ToldAppend
  <2> QED
    BY <2>0, <2>1, <2>2 DEF ModeShown
<1>3. ASSUME 1 \in 1..Len(s), s[1] \notin M \cup S, r = Tail(s)
      PROVE  ModeShown(r, c, mode, now)
  <2>0. /\ \A i \in 1..Len(r) : i + 1 \in 1..Len(s) /\ r[i] = s[i + 1]
        /\ In(s) \subseteq In(r) \cup {s[1]}
    BY <1>3, InTail
  <2>1. \A i, j \in 1..Len(r) : i < j /\ r[i] \in S => r[j] \notin M
    <3> HIDE DEF M, S
    <3>1. \A i, j \in 1..Len(s) : i < j /\ s[i] \in S => s[j] \notin M
      BY DEF ModeShown, M, S
    <3>2. \A i, j \in 1..Len(r) : i < j => i + 1 < j + 1
      OBVIOUS
    <3> QED
      BY <2>0, <3>1, <3>2
  <2>2. Told(s, M, G, now) => Told(r, M, G, now)
    <3> HIDE DEF M, S, G
    <3> QED
      BY <1>3, ToldTail
  <2> QED
    BY <1>3, <2>0, <2>1, <2>2 DEF ModeShown
<1> QED
  BY <1>1, <1>2, <1>3 DEF Aside

-----------------------------------------------------------------------------
(* WHAT A STEP QUEUES                                                      *)

Fresh(k) ==
  /\ Begin(k) => k.of = conn + 1
  /\ k.do = "View" => module = "loaded" /\ module' = "started"
  /\ k.do = "mode" => k.of \in registered
  /\ k.do = "Mode" => k.val \in Modes

Queues(t) == tasks' = tasks \o t /\ \A k \in In(t) : Fresh(k)

QueueStep ==
  \/ tasks' = tasks
  \/ 1 \in 1..Len(tasks) /\ tasks' = Tail(tasks)
  \/ \E k \in Tasks : Queues(<<k>>)
  \/ \E t \in Seq(Tasks) : Queues(t) /\ \A k \in In(t) : k.do # "View"

LEMMA QueueOneFresh ==
  ASSUME NEW k \in Tasks, Queue(<<k>>), Fresh(k)
  PROVE  QueueStep
  BY InOne DEF Queue, Queues, QueueStep

LEMMA StepQueues == ASSUME LinkInv, ControlTypes, Making, [Next]_vars
                    PROVE  QueueStep
<1>n. /\ registered \in SUBSET (0..MaxConns) /\ control \in 0..MaxConns
      /\ conn \in 0..MaxConns /\ tasks \in Seq(Tasks)
  BY RiderLinkAssumption DEF LinkInv, LinkTypes, ControlTypes
<1>h. tasks # <<>> => 1 \in 1..Len(tasks)
  BY <1>n, HeadIsFirst
<1>q. ASSUME NEW k \in Tasks, Queue(<<k>>), Fresh(k) PROVE QueueStep
  BY <1>q, QueueOneFresh
<1>f. ASSUME Finish, tasks # <<>> PROVE QueueStep
  BY <1>f, <1>h DEF Finish, QueueStep
<1>s. ASSUME UNCHANGED tasks PROVE QueueStep
  BY <1>s DEF QueueStep
<1>0. CASE UNCHANGED vars
  BY <1>0, <1>s DEF vars, linkVars
<1>1. CASE Reconnect
  <2> DEFINE k == Task("Connected", conn + 1, 0)
  <2>1. Queue(<<k>>) /\ conn + 1 \in 0..MaxConns
    BY <1>1, <1>n, RiderLinkAssumption DEF Reconnect, Connect
  <2>2. k \in Tasks /\ Fresh(k)
    BY <2>1 DEF Task, Tasks, Does, Fresh, Begin
  <2> HIDE DEF k
  <2> QED
    BY <1>q, <2>1, <2>2
<1>2. CASE Hangup
  <2> DEFINE g == Task("Gone", conn, 0)
             d == Task("Disconnected", conn, 0)
             t == (IF watched THEN <<g>> ELSE <<>>) \o <<d>>
  <2>1. tasks' = tasks \o t
    BY <1>2 DEF Hangup, Disconnect, Queue
  <2>2. /\ g \in Tasks /\ Fresh(g) /\ g.do # "View"
        /\ d \in Tasks /\ Fresh(d) /\ d.do # "View"
    BY <1>n DEF Task, Tasks, Does, Fresh, Begin
  <2> HIDE DEF g, d
  <2>3. /\ <<g>> \in Seq(Tasks) /\ In(<<g>>) = {g}
        /\ <<d>> \in Seq(Tasks) /\ In(<<d>>) = {d}
        /\ <<>> \in Seq(Tasks) /\ In(<<>>) = {}
    <3>1. <<>> \in Seq(Tasks) /\ In(<<>>) = {}
      BY DEF In
    <3> QED
      BY <2>2, <3>1, InOne
  <2>4. t \in Seq(Tasks) /\ In(t) \subseteq {g, d}
    <3>1. CASE watched
      <4>1. t = <<g>> \o <<d>>
        BY <3>1
      <4> HIDE DEF t
      <4> QED
        BY <2>3, <4>1, Appended, InAppended
    <3>2. CASE ~watched
      <4>1. t = <<>> \o <<d>>
        BY <3>2
      <4> HIDE DEF t
      <4> QED
        BY <2>3, <4>1, Appended, InAppended
    <3> QED
      BY <3>1, <3>2
  <2> HIDE DEF t
  <2>5. Queues(t) /\ \A k \in In(t) : k.do # "View"
    BY <2>1, <2>2, <2>4 DEF Queues
  <2> QED
    BY <2>4, <2>5 DEF QueueStep
<1>3. CASE Logging
  BY <1>3, <1>s DEF Logging, StartReading, StopReading
<1>4. CASE Link
  <2>1. CASE Unlock
    BY <1>f, <2>1, EmptySeq DEF Unlock, LinkInv, Working, Locked
  <2>2. CASE Bind
    BY <1>f, <1>s, <2>2, EmptySeq DEF Bind, LinkInv, Working, Locked
  <2> QED
    BY <1>4, <1>f, <1>s, <2>1, <2>2 DEF Link, NotConnected, Replace, Announce, Gone, Runs
<1>5. CASE View
  BY <1>5, <1>f, <1>s DEF View, Runs
<1>6. CASE Tell
  BY <1>6, <1>f DEF Tell
<1>7. CASE RequestPlayWorldCommand
  BY <1>7, <1>f DEF RequestPlayWorldCommand, Runs
<1>8. CASE SetPlayMode
  BY <1>8, <1>f DEF SetPlayMode, Runs
<1>9. CASE StartupModule
  <2>1. Task("View", 0, 0) \in Tasks /\ Fresh(Task("View", 0, 0))
    BY <1>9, RiderLinkAssumption DEF StartupModule, Task, Tasks, Does, Fresh, Begin
  <2> QED
    BY <1>9, <1>q, <2>1 DEF StartupModule
<1>10. CASE ShutdownModule
  <2> DEFINE ready == IF making = "publish" THEN EditorModel ELSE control
  <2>1. Task("unready", ready, 0) \in Tasks /\ Fresh(Task("unready", ready, 0))
    BY <1>n, RiderLinkAssumption DEF Task, Tasks, Does, Fresh, Begin, LinkInv, LinkTypes
  <2>2. CASE ready # 0
    BY <1>10, <1>q, <2>1, <2>2 DEF ShutdownModule
  <2>3. CASE ready = 0
    BY <1>10, <1>n, <1>s, <2>3 DEF ShutdownModule, Queue
  <2> QED
    BY <2>2, <2>3
<1>11. CASE PlayWorld
  <2>0. PICK who \in SUBSET (0..MaxConns) : Notify(who, playState', 0)
    BY <1>11, <1>n, RegisteringTypes DEF PlayWorld
  <2>1. playState' \in PlayStates
    BY <1>11 DEF PlayWorld, After, PlayStates, ControlTypes
  <2>2. PICK t \in Seq(Tasks) : tasks' = tasks \o t /\ TellIt(t, who, playState', 0)
    <3>1. playState' \in PlayStates \cup {"mode"} /\ 0 \in Int
      BY <2>1
    <3> QED
      BY <2>0, <3>1, NotifyTells
  <2>3. Queues(t) /\ \A k \in In(t) : k.do # "View"
    BY <2>1, <2>2 DEF TellIt, Queues, Fresh, Begin, PlayStates
  <2> QED
    BY <2>3 DEF QueueStep
<1>12. CASE Edit
  <2>1. PackToMode(settings') \in Int
    BY <1>12, ControlAssumption DEF Edit, PackToMode, Bit
  <2>2. PICK who \in SUBSET registered : Notify(who, "mode", PackToMode(settings'))
    BY <1>12 DEF Edit
  <2>3. PICK t \in Seq(Tasks) :
          tasks' = tasks \o t /\ TellIt(t, who, "mode", PackToMode(settings'))
    <3>1. who \in SUBSET (0..MaxConns)
      BY <1>n
    <3> QED
      BY <2>1, <2>2, <3>1, NotifyTells
  <2>4. Queues(t) /\ \A k \in In(t) : k.do # "View"
    BY <2>3 DEF TellIt, Queues, Fresh, Begin
  <2> QED
    BY <2>4 DEF QueueStep
<1>13. CASE Execute
  <2>1. Head(game) \in 0..MaxConns
    BY <1>13, HeadTailProperties DEF Execute, ControlTypes
  <2>2. Task("reply", Head(game), 0) \in Tasks /\ Fresh(Task("reply", Head(game), 0))
    BY <2>1 DEF Task, Tasks, Does, Fresh, Begin
  <2> QED
    BY <1>13, <1>q, <2>2 DEF Execute
<1>14. CASE Request
  <2>1. Task("Request", conn, 0) \in Tasks /\ Fresh(Task("Request", conn, 0))
    BY <1>n DEF Task, Tasks, Does, Fresh, Begin
  <2> QED
    BY <1>14, <1>q, <2>1 DEF Request
<1>15. CASE ChooseMode
  <2>1. PICK m \in Modes : Queue(<<Task("Mode", conn, m)>>)
    BY <1>15 DEF ChooseMode
  <2>2. Task("Mode", conn, m) \in Tasks /\ Fresh(Task("Mode", conn, m))
    BY <1>n, ControlAssumption DEF Task, Tasks, Does, Fresh, Begin
  <2> QED
    BY <1>q, <2>1, <2>2
<1>16. CASE MakeControl
  <2>1. CASE UNCHANGED linkVars
    BY <1>s, <2>1 DEF linkVars
  <2>2. CASE Unlock
    BY <1>f, <2>2, EmptySeq DEF Unlock, LinkInv, Working, Locked
  <2>3. CASE QuietFinish
    BY <1>f, <2>3 DEF QuietFinish
  <2> QED
    BY <1>16, <2>1, <2>2, <2>3, MakeShapes
<1> QED
  BY <1>0, <1>1, <1>2, <1>3, <1>4, <1>5, <1>6, <1>7, <1>8, <1>9, <1>10, <1>11, <1>12,
     <1>13, <1>14, <1>15, <1>16 DEF Next, Scheduler

LEMMA StepFresh ==
  ASSUME LinkInv, QueueStep
  PROVE  \A k \in In(tasks') : k \in In(tasks) \/ (k \in Tasks /\ Fresh(k))
<1>1. tasks \in Seq(Tasks)
  BY DEF LinkInv, LinkTypes
<1>2. ASSUME NEW t \in Seq(Tasks), Queues(t), NEW k \in In(tasks')
      PROVE  k \in In(tasks) \/ (k \in Tasks /\ Fresh(k))
  BY <1>1, <1>2, InAppended DEF Queues
<1>3. 1 \in 1..Len(tasks) /\ tasks' = Tail(tasks) => In(tasks') \subseteq In(tasks)
  BY <1>1, InTail
<1>4. ASSUME NEW k \in Tasks PROVE <<k>> \in Seq(Tasks)
  OBVIOUS
<1> QED
  BY <1>2, <1>3, <1>4 DEF QueueStep

-----------------------------------------------------------------------------
(* WHAT A STEP KEEPS                                                       *)

(* How the model and the place of the scheduler in its task change.        *)
LEMMA LinkMoves ==
  ASSUME LinkInv, LinkStep
  PROVE  \/ /\ UNCHANGED <<EditorModel, Locked>>
            /\ at' \in {"binding", "bound"} => at \in {"binding", "bound"}
         \/ /\ at = "idle" /\ at' = "binding" /\ UNCHANGED tasks
            /\ 1 \in 1..Len(tasks) /\ Begin(tasks[1]) /\ EditorModel' = tasks[1].of
         \/ /\ Locked /\ at' = "idle" /\ UNCHANGED EditorModel
            /\ 1 \in 1..Len(tasks) /\ Begin(tasks[1]) /\ tasks[1].of = EditorModel
            /\ tasks' = Tail(tasks)
<1>1. CASE Replace
  BY <1>1, HeadIsFirst DEF Replace, Runs, LinkInv, LinkTypes, Begin
<1>2. CASE Bind
  BY <1>2 DEF Bind, Finish, LinkInv, Working, Locked
<1>3. CASE Announce \/ Unlock
  BY <1>3 DEF Announce, Unlock, Finish, LinkInv, Working, Locked
<1>4. CASE StartView \/ QuietFinish
  BY <1>4 DEF StartView, QuietFinish, Locked
<1> QED
  BY <1>1, <1>2, <1>3, <1>4 DEF LinkStep, Connect, Disconnect, Gone, StartReading,
     StopReading, QuietAppend, AllButTasks, linkVars, Locked

LEMMA AheadKept ==
  ASSUME LinkInv, LinkStep, QueueStep, Ahead
  PROVE  Ahead'
<1>1. /\ tasks \in Seq(Tasks) /\ EditorModel \in 0..conn /\ conn \in 0..MaxConns
      /\ \A i \in 1..Len(tasks) : tasks[i].of \in 0..MaxConns
  <2>1. tasks \in Seq(Tasks) /\ EditorModel \in 0..conn /\ conn \in 0..MaxConns
    BY DEF LinkInv, LinkTypes
  <2>2. \A i \in 1..Len(tasks) : tasks[i] \in Tasks
    BY <2>1, ElementOfSeq
  <2> QED
    BY <2>1, <2>2 DEF Tasks
<1>2. EditorModel < conn + 1
  BY <1>1, RiderLinkAssumption
<1>3. ASSUME 1 \in 1..Len(tasks), Begin(tasks[1]), NEW i \in 1..Len(tasks), i # 1, Begin(tasks[i])
      PROVE  tasks[1].of < tasks[i].of
  BY <1>3 DEF LinkInv, InOrder
<1>4. CASE UNCHANGED <<EditorModel, Locked>>
  BY <1>2, <1>4, StepFresh DEF Ahead, Fresh
<1>5. CASE /\ at = "idle" /\ at' = "binding" /\ UNCHANGED tasks
           /\ 1 \in 1..Len(tasks) /\ Begin(tasks[1]) /\ EditorModel' = tasks[1].of
  BY <1>3, <1>5 DEF Ahead, In, Locked
<1>6. CASE /\ Locked /\ at' = "idle" /\ UNCHANGED EditorModel
           /\ 1 \in 1..Len(tasks) /\ Begin(tasks[1]) /\ tasks[1].of = EditorModel
           /\ tasks' = Tail(tasks)
  <2>1. SUFFICES ASSUME NEW k \in In(tasks'), Begin(k) PROVE EditorModel < k.of
    BY <1>6 DEF Ahead
  <2>2. PICK i \in 1..Len(tasks) : i # 1 /\ k = tasks[i]
    <3>1. PICK j \in 1..Len(Tail(tasks)) : k = Tail(tasks)[j]
      BY <1>6 DEF In
    <3>2. j + 1 \in 1..Len(tasks) /\ k = tasks[j + 1] /\ j + 1 # 1
      BY <1>1, <1>6, <3>1, InTail
    <3> QED
      BY <3>2
  <2> QED
    BY <1>3, <1>6, <2>1, <2>2
<1> QED
  BY <1>4, <1>5, <1>6, LinkMoves

LEMMA ViewsKept ==
  ASSUME ShownTypes, Views, LinkInv, LinkStep, QueueStep, [Next]_vars
  PROVE  Views'
<1> DEFINE Once(s) ==
      \A i, j \in 1..Len(s) : s[i].do = "View" /\ s[j].do = "View" => i = j
<1>1. tasks \in Seq(Tasks) /\ Once(tasks)
  BY DEF LinkInv, LinkTypes, Views
<1>2. ASSUME 1 \in 1..Len(tasks), tasks' = Tail(tasks)
      PROVE  Once(tasks')
  <2>1. /\ \A i \in 1..Len(tasks') : i + 1 \in 1..Len(tasks) /\ tasks'[i] = tasks[i + 1]
        /\ \A i, j \in 1..Len(tasks') : i + 1 = j + 1 => i = j
    BY <1>1, <1>2, InTail
  <2> QED
    BY <1>1, <2>1
<1>3. ASSUME NEW t \in Seq(Tasks), tasks' = tasks \o t, \A k \in In(t) : k.do # "View"
      PROVE  Once(tasks')
  <2>1. \A i \in 1..Len(t) : t[i].do # "View"
    BY <1>3 DEF In
  <2>2. \A i \in 1..Len(tasks') : tasks'[i].do = "View" => i \in 1..Len(tasks) /\ tasks'[i] = tasks[i]
    BY <1>1, <1>3, <2>1, Appended
  <2> QED
    BY <1>1, <2>2
<1>4. ASSUME NEW k \in Tasks, tasks' = tasks \o <<k>>, Fresh(k), k.do = "View"
      PROVE  Once(tasks')
  <2>1. \A i \in 1..Len(tasks) : tasks[i].do # "View"
    BY <1>4 DEF Views, Fresh, In
  <2>2. <<k>> \in Seq(Tasks) /\ Len(<<k>>) = 1
    OBVIOUS
  <2>3. \A i \in 1..Len(tasks') : tasks'[i].do = "View" => i - Len(tasks) \in 1..1
    BY <1>1, <1>4, <2>1, <2>2, Appended
  <2>4. Len(tasks) \in Nat /\ \A i \in 1..Len(tasks') : i \in Int
    BY <1>1, LenProperties
  <2>5. \A i, j \in Int : i - Len(tasks) \in 1..1 /\ j - Len(tasks) \in 1..1 => i = j
    BY <2>4
  <2> QED
    BY <2>3, <2>4, <2>5
<1>5. Once(tasks')
  <2>1. ASSUME NEW k \in Tasks, Queues(<<k>>) PROVE Once(tasks')
    <3>1. <<k>> \in Seq(Tasks) /\ In(<<k>>) = {k} /\ tasks' = tasks \o <<k>> /\ Fresh(k)
      BY <2>1, InOne DEF Queues
    <3> QED
      BY <1>3, <1>4, <3>1
  <2> QED
    BY <1>1, <1>2, <1>3, <2>1 DEF QueueStep, Queues
<1>6. ASSUME NEW k \in In(tasks'), k.do = "View",
             1 \in 1..Len(tasks), tasks[1].do = "View", tasks' = Tail(tasks)
      PROVE  FALSE
  <2>1. PICK j \in 1..Len(Tail(tasks)) : k = Tail(tasks)[j]
    BY <1>6 DEF In
  <2>2. j + 1 \in 1..Len(tasks) /\ k = tasks[j + 1] /\ j + 1 # 1
    BY <1>1, <1>6, <2>1, InTail
  <2> QED
    BY <1>1, <1>6, <2>2
<1>7. ASSUME NEW k \in In(tasks'), k.do = "View"
      PROVE  module' \in {"started", "over"} \/ (at' = "viewing" /\ module' = "viewing")
  <2>1. \/ module \in {"started", "over"} \/ module' = "started"
        \/ at = "viewing" /\ module = "viewing"
    BY <1>7, StepFresh DEF Views, Fresh
  <2>2. CASE at = "viewing" /\ module = "viewing"
    <3>1. 1 \in 1..Len(tasks) /\ tasks[1].do = "View"
      BY <2>2 DEF LinkInv, Working
    <3>2. at' = "viewing" \/ tasks' = Tail(tasks)
      BY <2>2 DEF LinkStep, Connect, Disconnect, Replace, Bind, Announce, Unlock, Gone, Runs,
         StartReading, StopReading, QuietAppend, StartView, QuietFinish, Finish, AllButTasks,
         linkVars
    <3> QED
      BY <1>6, <1>7, <2>2, <3>1, <3>2, ModuleSteps
  <2>3. CASE View
    <3>1. /\ at = "idle" /\ 1 \in 1..Len(tasks) /\ tasks[1].do = "View"
          /\ tasks' = Tail(tasks) \/ (at' = "viewing" /\ module' = "viewing")
      BY <1>1, <2>3, HeadIsFirst DEF View, Runs, Finish
    <3> QED
      BY <1>6, <1>7, <3>1
  <2> QED
    BY <2>1, <2>2, <2>3, ModuleSteps
<1> QED
  BY <1>5, <1>7 DEF Views

LEMMA PackIsNat == ASSUME NEW s \in SettingsType PROVE PackToMode(s) \in Nat
  BY DEF SettingsType, PackToMode, Bit

LEMMA UnpackIsSettings ==
  ASSUME NEW m \in Nat
  PROVE  UnpackFromMode(m) \in SettingsType
<1>1. (m % 4) + 1 \in Nat \ {0}
  OBVIOUS
<1> QED
  BY <1>1 DEF UnpackFromMode, SettingsType

LEMMA RiderTypeKept ==
  ASSUME NEW r \in RiderType
  PROVE  /\ \A m \in Int : [r EXCEPT !.mode = m] \in RiderType
         /\ [r EXCEPT !.ready = TRUE] \in RiderType
         /\ [r EXCEPT !.ready = FALSE] \in RiderType
         /\ \A p \in PlayStates : [r EXCEPT !.state = p] \in RiderType
  BY DEF RiderType

LEMMA ShownTypesKept ==
  ASSUME ShownTypes, LinkInv, ControlTypes, QueueStep, [Next]_vars
  PROVE  ShownTypes'
<1>t. /\ rider \in RiderType /\ settings \in SettingsType /\ PackToMode(settings) \in Nat
      /\ playMode \in Int /\ got \in Nat /\ Unset \in Int
      /\ tasks # <<>> => Head(tasks) \in Tasks /\ Head(tasks) \in In(tasks)
  BY PackIsNat, HeadIsFirst, ElementOfSeq DEF ShownTypes, LinkInv, LinkTypes, In, Unset
<1>1. module' \in {"loaded", "started", "viewing", "over"}
  BY ModuleSteps DEF ShownTypes
<1>2. settings' \in SettingsType
  <2>1. CASE UNCHANGED settings
    BY <1>t, <2>1
  <2>2. CASE Edit
    BY <2>2, ControlAssumption DEF Edit, SettingsType
  <2>3. CASE SetPlayMode
    <3>1. Head(tasks).val \in Nat
      BY <1>t, <2>3, ControlAssumption DEF SetPlayMode, Runs, ShownTypes
    <3> QED
      BY <2>1, <2>3, <3>1, UnpackIsSettings DEF SetPlayMode
  <2>4. CASE UNCHANGED vars
    BY <2>1, <2>4 DEF vars, controlVars
  <2>5. CASE MakeControl
    BY <2>1, <2>5, MakeFrame
  <2> QED
    BY <2>1, <2>2, <2>3, <2>4, <2>5 DEF Next, Scheduler, Reconnect, Hangup, Logging, Link,
       Tell, RequestPlayWorldCommand, View, StartupModule, ShutdownModule, PlayWorld, Execute,
       Request, ChooseMode, controlVars
<1>3. playMode' \in Int /\ got' \in Nat
  <2>1. CASE UNCHANGED <<playMode, got>>
    BY <1>t, <2>1
  <2>2. PackToMode(settings') \in Nat /\ PackToMode(settings') \in Int
    BY <1>2, PackIsNat
  <2>3. CASE Edit
    BY <1>t, <2>2, <2>3 DEF Edit
  <2>4. CASE SetPlayMode
    BY <1>t, <2>2, <2>4 DEF SetPlayMode
  <2>5. CASE MakeControl
    BY <1>t, <2>5 DEF MakeControl, SubscribeEditor, ReadMode, StoreMode, SyncMode, MarkReady,
       Publish
  <2>6. CASE UNCHANGED vars
    BY <2>1, <2>6 DEF vars, controlVars
  <2> QED
    BY <2>1, <2>3, <2>4, <2>5, <2>6 DEF Next, Scheduler, Reconnect, Hangup, Logging, Link,
       Tell, RequestPlayWorldCommand, View, StartupModule, ShutdownModule, PlayWorld, Execute,
       Request, ChooseMode, controlVars
<1>4. rider' \in RiderType
  <2>1. CASE UNCHANGED rider
    BY <1>t, <2>1
  <2>2. CASE MakeControl
    <3>1. rider' \in {rider, [rider EXCEPT !.mode = playMode], [rider EXCEPT !.ready = TRUE]}
      BY <2>2 DEF MakeControl, SubscribeEditor, ReadMode, StoreMode, SyncMode, MarkReady,
         Publish
    <3> QED
      BY <1>t, <3>1, RiderTypeKept
  <2>3. CASE Reconnect
    BY <2>3 DEF Reconnect, Silence, RiderType
  <2>4. CASE Link \/ View
    BY <2>1, <2>4 DEF Link, View, riderVars
  <2>6. CASE ChooseMode
    <3>1. PICK m \in Modes : rider' = [rider EXCEPT !.mode = m]
      BY <2>6 DEF ChooseMode
    <3>2. m \in Int
      BY ControlAssumption
    <3> QED
      BY <1>t, <3>1, <3>2, RiderTypeKept
  <2>7. CASE Tell
    <3>1. ASSUME Deliver(Head(tasks)) PROVE <1>4
      <4>1. Head(tasks).val \in Int /\ Head(tasks).do \in PlayStates \cup {"mode", "unready", "reply"}
        BY <1>t, <2>7 DEF Tell, Tasks
      <4>2. CASE Head(tasks).do \in PlayStates
        <5>1. rider' = [rider EXCEPT !.state = Head(tasks).do]
          BY <3>1, <4>2 DEF Deliver, PlayStates
        <5> QED
          BY <1>t, <4>2, <5>1, RiderTypeKept
      <4>3. CASE Head(tasks).do = "mode"
        BY <1>t, <3>1, <4>1, <4>3, RiderTypeKept DEF Deliver, PlayStates
      <4>4. CASE Head(tasks).do = "unready"
        BY <1>t, <3>1, <4>4, RiderTypeKept DEF Deliver, PlayStates
      <4>5. CASE Head(tasks).do = "reply"
        BY <1>t, <3>1, <4>5 DEF Deliver, PlayStates
      <4> QED
        BY <4>1, <4>2, <4>3, <4>4, <4>5
    <3> QED
      BY <2>1, <2>7, <3>1 DEF Tell
  <2>8. CASE SetPlayMode
    <3>1. settings' \in SettingsType => PackToMode(settings') \in Int
      BY PackIsNat
    <3> QED
      BY <1>t, <1>2, <2>1, <2>8, <3>1, RiderTypeKept DEF SetPlayMode
  <2>9. CASE UNCHANGED vars
    BY <2>1, <2>9 DEF vars, riderVars
  <2> QED
    BY <2>1, <2>2, <2>3, <2>4, <2>6, <2>7, <2>8, <2>9 DEF Next, Scheduler, Hangup,
       Logging, RequestPlayWorldCommand, StartupModule, ShutdownModule, PlayWorld, Edit,
       Execute, Request, riderVars
<1>5. {changed', lost', raced', strayed'} \subseteq BOOLEAN
  <2>1. CASE UNCHANGED <<changed, lost, raced, strayed>>
    BY <2>1 DEF ShownTypes
  <2>2. CASE MakeControl
    <3>1. \/ UNCHANGED <<changed, lost, raced, strayed>>
          \/ changed' = FALSE /\ lost' = FALSE /\ raced' = FALSE /\ strayed' = FALSE
      BY <2>2 DEF MakeControl, SubscribeEditor, ReadMode, StoreMode, SyncMode, MarkReady,
         Publish, history
    <3> QED
      BY <2>1, <3>1
  <2>3. CASE PlayWorld
    BY <2>3 DEF PlayWorld, ShownTypes
  <2>4. CASE Edit
    BY <2>4 DEF Edit, ShownTypes
  <2>5. CASE Tell
    BY <2>5 DEF Tell, ShownTypes
  <2>6. CASE UNCHANGED vars
    BY <2>1, <2>6 DEF vars, history
  <2> QED
    BY <2>1, <2>2, <2>3, <2>4, <2>5, <2>6 DEF Next, Scheduler, Link, View, Reconnect, Hangup,
       Logging, RequestPlayWorldCommand, SetPlayMode, StartupModule, ShutdownModule, Execute,
       Request, ChooseMode, history
<1>6. crashed' \in BOOLEAN
  <2>1. CASE UNCHANGED crashed
    BY <2>1 DEF ShownTypes
  <2>2. CASE Tell
    BY <2>1, <2>2 DEF Tell
  <2>3. CASE SetPlayMode
    BY <2>1, <2>3 DEF SetPlayMode
  <2>4. CASE UNCHANGED vars
    BY <2>1, <2>4 DEF vars
  <2>5. CASE MakeControl
    BY <2>1, <2>5, MakeFrame
  <2> QED
    BY <2>1, <2>2, <2>3, <2>4, <2>5 DEF Next, Scheduler, Reconnect, Hangup, Logging, Link, View,
       RequestPlayWorldCommand, StartupModule, ShutdownModule, PlayWorld, Edit, Execute,
       Request, ChooseMode
<1>7. \A k \in In(tasks') : k.do = "Mode" => k.val \in Modes
  BY StepFresh DEF ShownTypes, Fresh
<1> QED
  BY <1>1, <1>2, <1>3, <1>4, <1>5, <1>6, <1>7 DEF ShownTypes

(* Who is registered by a step, and how: only when a control is made.      *)
LEMMA Registers ==
  ASSUME LinkInv, Making, [Next]_vars
  PROVE  \/ registered' \subseteq registered
         \/ /\ registered' \subseteq registered \cup {EditorModel}
            /\ UNCHANGED EditorModel /\ at' \notin {"binding", "bound"}
            /\ module' \in {"viewing", "over"} /\ making' # "delegates"
<1>1. CASE UNCHANGED registered
  BY <1>1
<1>2. CASE Link
  BY <1>2 DEF Link, DropControl
<1>3. CASE MakeControl
  <2>1. at' \notin {"binding", "bound"}
    BY <1>3, MakeShapes DEF Making, MakeControl, linkVars, Unlock, QuietFinish
  <2>2. module \in {"viewing", "over"}
    BY <1>3, MakeFrame DEF Making
  <2> QED
    BY <1>3, <2>1, <2>2, MakeFrame
<1>4. CASE ShutdownModule
  BY <1>4 DEF ShutdownModule
<1>5. CASE UNCHANGED vars
  BY <1>5 DEF vars, controlVars
<1>6. CASE View
  BY <1>6 DEF View
<1> QED
  BY <1>1, <1>2, <1>3, <1>4, <1>5, <1>6 DEF Next, Scheduler, Reconnect, Hangup, Logging, Tell,
     RequestPlayWorldCommand, SetPlayMode, StartupModule, PlayWorld, Edit, Execute, Request,
     ChooseMode, controlVars

(* What has been made stays made: models are replaced by later ones.       *)
LEMMA MadeKept ==
  ASSUME LinkInv, LinkStep, ControlTypes, Making, Views, Ahead, MadeOnly, QueueStep,
         [Next]_vars
  PROVE  MadeOnly'
<1>1. EditorModel \in Int /\ \A i \in 1..Len(tasks) : tasks[i].of \in Int
  <2>1. \A i \in 1..Len(tasks) : tasks[i] \in Tasks
    BY ElementOfSeq DEF LinkInv, LinkTypes
  <2> QED
    BY <2>1, RiderLinkAssumption DEF LinkInv, LinkTypes, Tasks
<1>2. ASSUME NEW n \in Int, Made(n) PROVE Made(n)'
  <2>1. module \in {"viewing", "over"} => module' \in {"viewing", "over"}
    BY ModuleSteps
  <2>2. /\ module \in {"viewing", "over"} /\ making # "delegates"
        /\ at \notin {"binding", "bound"}
        => making' # "delegates"
    <3>1. CASE Announce
      BY <3>1 DEF Announce
    <3>2. CASE View /\ module' = "viewing"
      <4>1. module \in {"started", "over"}
        <5>1. 1 \in 1..Len(tasks) /\ tasks[1].do = "View" /\ at = "idle"
          BY <3>2, HeadIsFirst DEF View, Runs, LinkInv, LinkTypes
        <5> QED
          BY <5>1 DEF Views, In
      <4> QED
        BY <3>2, <4>1 DEF View
    <3> QED
      BY <3>1, <3>2, MakingMoves, MakeFrame
  <2>3. CASE /\ UNCHANGED <<EditorModel, Locked>>
             /\ at' \in {"binding", "bound"} => at \in {"binding", "bound"}
    BY <1>2, <2>1, <2>2, <2>3 DEF Made
  <2>4. CASE /\ at = "idle" /\ 1 \in 1..Len(tasks) /\ Begin(tasks[1])
             /\ EditorModel' = tasks[1].of
    <3>1. EditorModel < EditorModel'
      BY <2>4 DEF Ahead, In, Locked
    <3>2. EditorModel' \in Int
      BY <1>1, <2>4
    <3> QED
      BY <1>1, <1>2, <3>1, <3>2 DEF Made
  <2>5. CASE at' = "idle" /\ UNCHANGED EditorModel
    BY <1>2, <2>1, <2>2, <2>5 DEF Made
  <2> QED
    BY <2>3, <2>4, <2>5, LinkMoves
<1>3. \A n \in registered : n \in Int
  BY RiderLinkAssumption DEF ControlTypes, LinkInv, LinkTypes
<1>4. \A n \in registered' : Made(n)'
  <2>1. CASE /\ registered' \subseteq registered \cup {EditorModel}
             /\ UNCHANGED EditorModel /\ at' \notin {"binding", "bound"}
             /\ module' \in {"viewing", "over"} /\ making' # "delegates"
    BY <1>2, <1>3, <2>1 DEF MadeOnly, Made
  <2> QED
    BY <1>2, <1>3, <2>1, Registers DEF MadeOnly
<1>5. \A k \in In(tasks') : k.do = "mode" => Made(k.of)'
  <2>1. SUFFICES ASSUME NEW k \in In(tasks'), k.do = "mode" PROVE Made(k.of)'
    OBVIOUS
  <2>2. k \in In(tasks) \/ k.of \in registered
    BY <2>1, StepFresh DEF Fresh
  <2>3. k.of \in Int
    BY <1>1, <1>3, <2>2 DEF In
  <2>4. Made(k.of)
    BY <2>1, <2>2 DEF MadeOnly
  <2> QED
    BY <1>2, <2>3, <2>4
<1> QED
  BY <1>4, <1>5 DEF MadeOnly

-----------------------------------------------------------------------------
(* A CONTROL IN STEP                                                       *)

Follows == Informed /\ StateTold /\ ModeTold

LEMMA ControlFacts ==
  ASSUME LinkInv, Making, Controlled, Kept
  PROVE  /\ module = "viewing" /\ alive = "alive" /\ Control = EditorModel
         /\ at \notin {"binding", "bound"}
         /\ Lives(Control) => Bound(Control) /\ Control = conn
<1>1. module = "viewing" /\ alive = "alive" /\ Control = EditorModel
  BY DEF Making, Controlled, Kept, Control, LinkInv, Working, Locked
<1>2. at \notin {"binding", "bound"}
  BY <1>1 DEF LinkInv, Working, Locked
<1> QED
  BY <1>1, <1>2 DEF Lives, Bound

(* A task runs only when no control is made.                               *)
LEMMA IdleFacts == ASSUME Making, at = "idle"
                   PROVE  making = "no" /\ Control = control
  BY DEF Making, Control

(* What is appended or finished, when it is a single task.                 *)
LEMMA AsideOne ==
  ASSUME NEW M, tasks \in Seq(Tasks)
  PROVE  /\ UNCHANGED tasks => Aside(tasks, tasks', M)
         /\ \A k \in Tasks : Queue(<<k>>) /\ k \notin M => Aside(tasks, tasks', M)
         /\ tasks # <<>> /\ Finish /\ Head(tasks) \notin M => Aside(tasks, tasks', M)
<1>1. ASSUME NEW k \in Tasks, Queue(<<k>>), k \notin M PROVE Aside(tasks, tasks', M)
  <2>1. <<k>> \in Seq(Tasks) /\ In(<<k>>) \cap M = {}
    BY <1>1, InOne
  <2> QED
    BY <1>1, <2>1 DEF Queue, Aside
<1>2. ASSUME tasks # <<>>, Finish, Head(tasks) \notin M PROVE Aside(tasks, tasks', M)
  BY <1>2, HeadIsFirst DEF Finish, Aside
<1> QED
  BY <1>1, <1>2 DEF Aside

LEMMA AsideIn ==
  ASSUME NEW s \in Seq(Tasks), NEW r, NEW M, Aside(s, r, M), In(s) \cap M = {}
  PROVE  In(r) \cap M = {}
<1>1. CASE r = s
  BY <1>1
<1>2. ASSUME NEW t \in Seq(Tasks), r = s \o t, In(t) \cap M = {} PROVE In(r) \cap M = {}
  BY <1>2, InAppended
<1>3. CASE 1 \in 1..Len(s) /\ r = Tail(s)
  BY <1>3, InTail
<1> QED
  BY <1>1, <1>2, <1>3 DEF Aside

(* The control looked after, if one is, was looked after before.           *)
Continues == Kept' => Kept /\ Control' = Control

(* Nothing that the control knows or that Rider is shown is touched.       *)
LEMMA InformedSame ==
  ASSUME LinkInv, Informed, Continues, Control \in registered => Control \in registered',
         UNCHANGED <<making, lost, playMode, got>>, Mode' = Mode,
         Aside(tasks, tasks', TellsMode(Control))
  PROVE  Informed'
<1>1. tasks \in Seq(Tasks)
  BY DEF LinkInv, LinkTypes
<1>2. SUFFICES ASSUME Kept' PROVE Informed'
  BY DEF Informed
<1>3. Kept /\ Control' = Control
  BY <1>2 DEF Continues
<1>4. In(tasks) \cap TellsMode(Control) = {} => In(tasks') \cap TellsMode(Control) = {}
  BY <1>1, AsideIn
<1> QED
  BY <1>3, <1>4 DEF Informed

LEMMA StateSame ==
  ASSUME LinkInv, StateTold, ~crashed, Continues, UNCHANGED <<playState, conn, connected>>,
         changed' => changed, strayed => strayed', rider'.state = rider.state,
         Aside(tasks, tasks', TellsState(Control))
  PROVE  StateTold'
<1>1. tasks \in Seq(Tasks)
  BY DEF LinkInv, LinkTypes
<1>2. SUFFICES ASSUME Kept', Lives(Control)', changed', ~strayed'
               PROVE  StateShown(tasks', Control', playState', rider'.state = playState')
  BY DEF StateTold
<1>3. Kept /\ Control' = Control /\ Lives(Control) /\ changed /\ ~strayed
  BY <1>2 DEF Continues, Lives
<1>4. StateShown(tasks, Control, playState, rider.state = playState)
  BY <1>3 DEF StateTold
<1>5. StateShown(tasks', Control, playState, rider.state = playState)
  BY <1>1, <1>4, StateAside
<1> QED
  BY <1>3, <1>5

LEMMA ModeSame ==
  ASSUME LinkInv, ModeTold, ~crashed, Continues, UNCHANGED <<conn, connected>>,
         Mode' = Mode, Synced' = Synced, lost => lost', raced => raced', strayed => strayed',
         rider'.mode = rider.mode,
         Aside(tasks, tasks', TellsMode(Control) \cup SetsMode(Control))
  PROVE  ModeTold'
<1>1. tasks \in Seq(Tasks)
  BY DEF LinkInv, LinkTypes
<1>2. SUFFICES ASSUME Kept', Lives(Control)', ~lost', ~raced', ~strayed'
               PROVE  ModeShown(tasks', Control', Mode', Synced' => rider'.mode = Mode')
  BY DEF ModeTold
<1>3. Kept /\ Control' = Control /\ Lives(Control) /\ ~lost /\ ~raced /\ ~strayed
  BY <1>2 DEF Continues, Lives
<1>4. ModeShown(tasks, Control, Mode, Synced => rider.mode = Mode)
  BY <1>3 DEF ModeTold
<1>5. ModeShown(tasks', Control, Mode, Synced => rider.mode = Mode)
  BY <1>1, <1>4, ModeAside
<1> QED
  BY <1>3, <1>5

Deaf == TellsState(Control) \cup TellsMode(Control) \cup SetsMode(Control)

Steady ==
  /\ UNCHANGED <<making, control, registered, playMode, got, settings, EditorModel, late>>
  /\ UNCHANGED <<changed, lost, raced, strayed, playState, conn, connected>>

LEMMA AsideDeaf ==
  ASSUME Aside(tasks, tasks', Deaf)
  PROVE  /\ Aside(tasks, tasks', TellsState(Control))
         /\ Aside(tasks, tasks', TellsMode(Control))
         /\ Aside(tasks, tasks', TellsMode(Control) \cup SetsMode(Control))
  BY DEF Aside, Deaf

(* Steps that neither tell Rider anything nor change what it is told.      *)
LEMMA Elsewhere ==
  ASSUME LinkInv, Follows, ~crashed, Steady,
         rider'.state = rider.state, rider'.mode = rider.mode, Aside(tasks, tasks', Deaf)
  PROVE  Follows'
<1>1. Continues
  BY DEF Steady, Continues, Kept, Control
<1>2. Mode' = Mode /\ Synced' = Synced
  BY DEF Steady, Mode, Synced
<1>3. Informed'
  BY <1>1, <1>2, AsideDeaf, InformedSame DEF Steady, Follows
<1>4. StateTold'
  BY <1>1, AsideDeaf, StateSame DEF Steady, Follows
<1>5. ModeTold'
  BY <1>1, <1>2, AsideDeaf, ModeSame DEF Steady, Follows
<1> QED
  BY <1>3, <1>4, <1>5 DEF Follows

LEMMA Unkept == ASSUME ~Kept' PROVE Follows'
  BY DEF Follows, Informed, StateTold, ModeTold

(* The connection ends, or another begins: the control is not heard.       *)
LEMMA LivesOn ==
  ASSUME ControlInv, Connect \/ Disconnect, UNCHANGED <<making, control>>
  PROVE  ~Lives(Control)'
<1>1. Control \in 0..conn /\ conn \in Nat
  BY RiderLinkAssumption DEF ControlInv, ControlTypes, LinkInv, LinkTypes, Control
<1>2. Control' = Control
  BY DEF Connect, Disconnect, Control
<1> QED
  BY <1>1, <1>2 DEF Connect, Disconnect, Lives

LEMMA WireKeeps ==
  ASSUME ControlInv, Follows, QueueStep, Reconnect \/ Hangup
  PROVE  Follows'
<1>1. UNCHANGED <<controlVars, history, EditorModel>> /\ (Connect \/ Disconnect)
  BY DEF Reconnect, Hangup, Connect, Disconnect
<1>2. ~Lives(Control)'
  BY <1>1, LivesOn DEF controlVars
<1>3. StateTold' /\ ModeTold'
  BY <1>2 DEF StateTold, ModeTold
<1>4. /\ UNCHANGED <<making, lost, playMode, got, registered, settings>>
      /\ Control' = Control /\ (Kept' => Kept)
  BY <1>1 DEF controlVars, history, Kept, Control
<1>5. In(tasks) \cap TellsMode(Control) = {} => In(tasks') \cap TellsMode(Control) = {}
  <2>1. ASSUME NEW k \in In(tasks'), k \in TellsMode(Control) PROVE k \in In(tasks)
    <3>1. /\ tasks \in Seq(Tasks) /\ conn \in 0..MaxConns
          /\ (Connect => conn + 1 \in 0..MaxConns)
      BY RiderLinkAssumption DEF ControlInv, LinkInv, LinkTypes, Connect
    <3>2. CASE Connect
      <4> DEFINE b == Task("Connected", conn + 1, 0)
      <4>1. b \in Tasks /\ b.do = "Connected" /\ tasks' = tasks \o <<b>>
        BY <3>1, <3>2 DEF Connect, Queue, Task, Tasks, Does
      <4> HIDE DEF b
      <4>2. In(tasks') = In(tasks) \cup {b}
        BY <3>1, <4>1, InOne, InAppended
      <4> QED
        BY <2>1, <4>1, <4>2 DEF TellsMode
    <3>3. CASE Disconnect
      <4> DEFINE g == Task("Gone", conn, 0)
                 d == Task("Disconnected", conn, 0)
      <4>1. g \in Tasks /\ d \in Tasks /\ g.do # "mode" /\ d.do # "mode"
        BY <3>1 DEF Task, Tasks, Does
      <4>2. tasks' = tasks \o ((IF watched THEN <<g>> ELSE <<>>) \o <<d>>)
        BY <3>3 DEF Disconnect, Queue
      <4> HIDE DEF g, d
      <4>3. <<>> \in Seq(Tasks) /\ In(<<>>) = {}
        BY DEF In
      <4>4. <<g>> \in Seq(Tasks) /\ In(<<g>>) = {g} /\ <<d>> \in Seq(Tasks) /\ In(<<d>>) = {d}
        BY <4>1, InOne
      <4>5. CASE watched
        <5>1. tasks' = tasks \o (<<g>> \o <<d>>)
          BY <4>2, <4>5
        <5>2. <<g>> \o <<d>> \in Seq(Tasks) /\ In(<<g>> \o <<d>>) = {g, d}
          <6>1. <<g>> \o <<d>> \in Seq(Tasks)
            BY <4>4, Appended
          <6>2. In(<<g>> \o <<d>>) = In(<<g>>) \cup In(<<d>>)
            BY <4>4, InAppended
          <6> QED
            BY <4>4, <6>1, <6>2
        <5>3. In(tasks') = In(tasks) \cup {g, d}
          BY <3>1, <5>1, <5>2, InAppended
        <5> QED
          BY <2>1, <4>1, <5>3 DEF TellsMode
      <4>6. CASE ~watched
        <5>1. tasks' = tasks \o (<<>> \o <<d>>)
          BY <4>2, <4>6
        <5>2. <<>> \o <<d>> \in Seq(Tasks) /\ In(<<>> \o <<d>>) = {d}
          BY <4>3, <4>4, InAppended, Appended
        <5>3. In(tasks') = In(tasks) \cup {d}
          BY <3>1, <5>1, <5>2, InAppended
        <5> QED
          BY <2>1, <4>1, <5>3 DEF TellsMode
      <4> QED
        BY <4>5, <4>6
    <3> QED
      BY <1>1, <3>2, <3>3
  <2> QED
    BY <2>1
<1>6. Informed'
  <2>1. Mode' = Mode
    BY <1>4 DEF Mode
  <2> QED
    BY <1>4, <1>5, <2>1 DEF Informed, Follows
<1> QED
  BY <1>3, <1>6 DEF Follows

(* Of the tasks of InitProtocol, those that end without a change of the    *)
(* model leave a control to look after.                                    *)
LEMMA LinkKeepsShown ==
  ASSUME ControlInv, ShownInv, ~crashed, Link
  PROVE  Follows'
<1>1. /\ LinkInv /\ Making /\ Controlled /\ Follows /\ tasks \in Seq(Tasks)
      /\ tasks # <<>> => Head(tasks) = tasks[1]
  BY HeadIsFirst DEF ControlInv, ShownInv, LinkInv, LinkTypes, Follows
<1>2. /\ UNCHANGED <<module, got, playMode, settings, playState, rider, crashed>>
      /\ UNCHANGED <<changed, lost, late, raced, strayed>>
  BY DEF Link, gameVars, riderVars, history
<1>3. CASE NotConnected \/ (making = "no" /\ Unlock)
  <2>1. UNCHANGED <<control, making, registered, EditorModel, conn, connected>>
    BY <1>3 DEF Link, NotConnected, Unlock, Replace, Bind, Announce, Gone, Runs
  <2>2. tasks # <<>> /\ Finish /\ Head(tasks).do \in {"Disconnected", "Connected"}
    BY <1>1, <1>3, EmptySeq DEF NotConnected, Unlock, Runs, LinkInv, Working, Locked, Begin
  <2>3. Aside(tasks, tasks', Deaf)
    <3>1. Head(tasks) \notin Deaf
      BY <2>2 DEF Deaf, TellsState, TellsMode, SetsMode, PlayStates
    <3> QED
      BY <1>1, <2>2, <3>1, AsideOne
  <2>4. Steady
    BY <1>2, <2>1 DEF Steady
  <2> QED
    BY <1>1, <1>2, <2>3, <2>4, Elsewhere
<1>4. CASE Replace \/ Bind
  <2>1. alive # "alive"
    BY <1>1, <1>4, NoReplace DEF Bind, LinkInv, Working, Locked
  <2>2. making = "no" /\ UNCHANGED <<control, making>>
    BY <1>1, <1>4 DEF Link, NotConnected, Unlock, Replace, Bind, Announce, Gone, Runs, Making
  <2>3. control = 0 \/ late
    BY <1>1, <2>1 DEF Controlled
  <2> QED
    BY <1>2, <2>2, <2>3, Unkept DEF Kept, Control
<1>5. CASE Announce
  <2>1. alive # "alive" /\ at = "bound" /\ making = "no"
    BY <1>1, <1>5 DEF Announce, LinkInv, Working, Locked, Making
  <2>2. /\ UNCHANGED control
        /\ making' = IF module = "viewing" THEN "delegates" ELSE "no"
    BY <1>5, <2>1 DEF Link, NotConnected, Unlock, Replace, Bind, Announce, Gone, Runs
  <2>3. control = 0 \/ late
    BY <1>1, <2>1 DEF Controlled
  <2> QED
    BY <1>2, <2>2, <2>3, Unkept DEF Kept, Control
<1>6. CASE Gone
  <2>1. at = "idle" /\ making = "no"
    BY <1>1, <1>6 DEF Gone, Runs, Making
  <2>2. /\ UNCHANGED making
        /\ IF module = "viewing" /\ alive = "alive" THEN control' = 0 ELSE UNCHANGED control
    BY <1>6, <2>1 DEF Link, NotConnected, Unlock, Replace, Bind, Announce, Gone, Runs,
                      DropControl
  <2> QED
    BY <1>1, <1>2, <2>1, <2>2, Unkept DEF Kept, Control, Controlled
<1> QED
  BY <1>3, <1>4, <1>5, <1>6 DEF Link

(* A control is made for a model that is viewed while it is alive.         *)
LEMMA ViewKeepsShown ==
  ASSUME ControlInv, ShownInv, ~crashed, View
  PROVE  Follows'
<1>1. LinkInv /\ Follows /\ tasks \in Seq(Tasks) /\ tasks # <<>> /\ Head(tasks).do = "View"
  BY DEF ControlInv, ShownInv, LinkInv, LinkTypes, Follows, View, Runs
<1>2. CASE module # "over" /\ alive = "alive"
  <2>1. making' = "delegates"
    BY <1>2 DEF View
  <2> QED
    BY <2>1, Unkept DEF Kept
<1>3. CASE ~(module # "over" /\ alive = "alive")
  <2>1. Finish /\ Steady /\ UNCHANGED rider
    BY <1>3 DEF View, Steady, gameVars, riderVars, history
  <2>2. Head(tasks) \notin Deaf
    BY <1>1 DEF Deaf, TellsState, TellsMode, SetsMode, PlayStates
  <2> QED
    BY <1>1, <2>1, <2>2, AsideOne, Elsewhere
<1> QED
  BY <1>2, <1>3

(* The delegates of a control are registered, and none of its own tells of *)
(* the mode yet.                                                           *)
LEMMA SubscribeKeeps ==
  ASSUME ControlInv, ShownInv, ~crashed, SubscribeEditor
  PROVE  Follows'
<1>1. LinkInv /\ Making /\ MadeOnly /\ tasks \in Seq(Tasks) /\ EditorModel \in Int
  BY RiderLinkAssumption DEF ControlInv, ShownInv, LinkInv, LinkTypes
<1>2. CASE module = "over"
  <2>1. late'
    BY <1>1, <1>2 DEF SubscribeEditor, MakingKeeps, Making
  <2> QED
    BY <2>1, Unkept DEF Kept
<1>3. CASE module # "over"
  <2>1. /\ making = "delegates" /\ making' = "read" /\ UNCHANGED <<tasks, EditorModel, settings>>
        /\ registered' = registered \cup {EditorModel} /\ playMode' = Unset
        /\ changed' = FALSE /\ lost' = FALSE
    BY <1>3 DEF SubscribeEditor, GoOn, MakingKeeps
  <2>2. Control' = EditorModel
    BY <2>1 DEF Control
  <2>3. In(tasks) \cap TellsMode(EditorModel) = {}
    <3>1. ~Made(EditorModel)
      BY <1>1, <2>1 DEF Made
    <3> QED
      BY <3>1, <1>1 DEF MadeOnly, TellsMode
  <2>4. Informed'
    BY <2>1, <2>2, <2>3 DEF Informed, Unset
  <2>5. StateTold'
    BY <2>1 DEF StateTold
  <2>6. ModeTold'
    <3>1. ~Synced'
      BY <2>1 DEF Synced
    <3>2. Told(tasks, TellsMode(EditorModel), {k \in Tasks : k.val = Mode'}, Synced' => rider'.mode = Mode')
      BY <2>3, <3>1 DEF Told
    <3>3. \A j \in 1..Len(tasks) : tasks[j] \notin TellsMode(EditorModel)
      BY <2>3 DEF In
    <3>4. ModeShown(tasks, EditorModel, Mode', Synced' => rider'.mode = Mode')
      BY <3>2, <3>3 DEF ModeShown
    <3> QED
      BY <2>1, <2>2, <3>4 DEF ModeTold
  <2> QED
    BY <2>4, <2>5, <2>6 DEF Follows
<1> QED
  BY <1>2, <1>3

(* What the constructor has read of the mode is what it stores and tells,  *)
(* unless the mode was edited in between.                                  *)
LEMMA MakeKeepsShown ==
  ASSUME ControlInv, ShownInv, ~crashed, MakeControl
  PROVE  Follows'
<1>1. /\ LinkInv /\ Making /\ Controlled /\ Follows /\ Informed /\ StateTold /\ ModeTold
      /\ tasks \in Seq(Tasks) /\ rider \in RiderType
  BY DEF ControlInv, ShownInv, LinkInv, LinkTypes, Follows, ShownTypes
<1>2. CASE SubscribeEditor
  BY <1>2, SubscribeKeeps
<1> SUFFICES ASSUME Kept', ~SubscribeEditor PROVE Follows'
  BY <1>2, Unkept
<1>3. /\ UNCHANGED <<EditorModel, settings, playState, registered, late, conn, connected>>
      /\ UNCHANGED <<changed, lost, raced, strayed>>
      /\ rider'.state = rider.state /\ making # "no" /\ making # "delegates"
  <2>1. UNCHANGED <<registered, changed, lost, raced, strayed>>
    BY DEF MakeControl, ReadMode, StoreMode, SyncMode, MarkReady, Publish, history
  <2>2. rider'.state = rider.state
    <3>1. rider' \in {rider, [rider EXCEPT !.mode = playMode], [rider EXCEPT !.ready = TRUE]}
      BY DEF MakeControl, ReadMode, StoreMode, SyncMode, MarkReady, Publish
    <3> QED
      BY <1>1, <3>1 DEF RiderType
  <2>3. making # "delegates"
    BY DEF MakeControl, ReadMode, StoreMode, SyncMode, MarkReady, Publish
  <2> QED
    BY <2>1, <2>2, <2>3, MakeFrame
<1>4. ~late /\ module = "viewing" /\ alive = "alive" /\ at \in {"announced", "viewing"}
  BY <1>1, <1>3 DEF Kept, Making, LinkInv, Working, Locked
<1>5. Control = EditorModel /\ Bound(EditorModel) = Lives(EditorModel)
  BY <1>3, <1>4 DEF Control, Bound, Lives
<1>6. Control' = EditorModel /\ Kept
  <2>1. control' \in {control, EditorModel}
    BY MakeFrame
  <2>2. Control' = EditorModel
    BY <1>1, <1>3, <1>4, <2>1 DEF Kept, Control, Controlled
  <2> QED
    BY <1>3, <1>4, <1>5, <2>2 DEF Kept
<1>7. Aside(tasks, tasks', Deaf)
  <2>1. CASE UNCHANGED tasks
    BY <1>1, <2>1, AsideOne
  <2>2. CASE Unlock \/ QuietFinish
    <3>1. tasks # <<>> /\ Finish /\ Head(tasks).do \in {"Connected", "View"}
      BY <1>1, <1>4, <2>2, EmptySeq, HeadIsFirst DEF Unlock, QuietFinish, LinkInv, Working,
         Locked, Begin
    <3>2. Head(tasks) \notin Deaf
      BY <3>1 DEF Deaf, TellsState, TellsMode, SetsMode, PlayStates
    <3> QED
      BY <1>1, <3>1, <3>2, AsideOne
  <2> QED
    BY <1>1, <2>1, <2>2, MakeShapes DEF linkVars
<1>8. Continues /\ Mode' = Mode
  BY <1>3, <1>5, <1>6 DEF Continues, Mode
<1>9. StateTold'
  BY <1>1, <1>3, <1>7, <1>8, AsideDeaf, StateSame
<1>10. In(tasks) \cap TellsMode(Control) = {} => In(tasks') \cap TellsMode(Control) = {}
  BY <1>1, <1>7, AsideDeaf, AsideIn
<1>11. CASE ReadMode
  <2>1. /\ making = "read" /\ making' = "store" /\ got' = Mode /\ UNCHANGED <<playMode, rider>>
    BY <1>11 DEF ReadMode, GoOn, Mode
  <2>2. Informed'
    BY <1>1, <1>3, <1>5, <1>6, <1>8, <1>10, <2>1 DEF Informed
  <2>3. Synced' = Synced
    BY <2>1 DEF Synced
  <2> QED
    BY <1>1, <1>3, <1>7, <1>8, <1>9, <2>1, <2>2, <2>3, AsideDeaf, ModeSame DEF Follows
<1>12. CASE StoreMode
  <2>1. /\ making = "store" /\ making' = "sync" /\ playMode' = got /\ UNCHANGED rider
        /\ playMode' # Unset
    <3>1. got # Unset
      BY DEF ShownInv, ShownTypes, Unset
    <3> QED
      BY <1>12, <3>1 DEF StoreMode, GoOn
  <2>2. Informed'
    BY <1>1, <1>3, <1>5, <1>6, <1>8, <2>1 DEF Informed
  <2>3. Synced' = Synced
    BY <2>1 DEF Synced
  <2> QED
    BY <1>1, <1>3, <1>7, <1>8, <1>9, <2>1, <2>2, <2>3, AsideDeaf, ModeSame DEF Follows
<1>13. CASE SyncMode
  <2>1. making = "sync" /\ UNCHANGED playMode /\ making' \in {"ready", "no"}
    BY <1>13 DEF SyncMode, GoOn, Return
  <2>2. Informed'
    BY <1>1, <1>3, <1>5, <1>6, <1>8, <2>1 DEF Informed
  <2>3. ModeTold'
    <3>1. CASE ~Lives(EditorModel)
      BY <1>3, <1>6, <3>1 DEF ModeTold, Lives
    <3>2. CASE Lives(EditorModel)
      <4>1. making' = "ready" /\ rider' = [rider EXCEPT !.mode = playMode] /\ UNCHANGED tasks
        BY <1>5, <1>13, <3>2 DEF SyncMode, GoOn
      <4>2. rider'.mode = playMode
        BY <1>1, <4>1 DEF RiderType
      <4>3. SUFFICES ASSUME ~lost, ~raced, ~strayed
                     PROVE  ModeShown(tasks, Control, Mode, Synced' => rider'.mode = Mode)
        BY <1>3, <1>5, <1>6, <1>8, <4>1 DEF ModeTold
      <4>4. playMode = Mode
        BY <1>1, <1>6, <2>1, <4>3 DEF Informed
      <4>5. ModeShown(tasks, Control, Mode, Synced => rider.mode = Mode)
        BY <1>1, <1>5, <1>6, <3>2, <4>3 DEF ModeTold
      <4>6. (Synced => rider.mode = Mode) = (Synced' => rider'.mode = Mode)
        BY <2>1, <4>2, <4>4 DEF Synced
      <4> QED
        BY <4>5, <4>6
    <3> QED
      BY <3>1, <3>2
  <2> QED
    BY <1>9, <2>2, <2>3 DEF Follows
<1>14. CASE MarkReady \/ Publish
  <2>1. /\ making \in {"ready", "publish"} /\ making' \in {"publish", "no"} /\ UNCHANGED playMode
        /\ rider' \in {rider, [rider EXCEPT !.ready = TRUE]}
    BY <1>14 DEF MarkReady, Publish, GoOn, Return
  <2>2. rider'.mode = rider.mode
    BY <1>1, <2>1 DEF RiderType
  <2>3. Informed'
    BY <1>1, <1>3, <1>5, <1>6, <1>8, <2>1 DEF Informed
  <2>4. Synced' = Synced
    BY <2>1 DEF Synced
  <2> QED
    BY <1>1, <1>3, <1>7, <1>8, <1>9, <2>2, <2>3, <2>4, AsideDeaf, ModeSame DEF Follows
<1> QED
  BY <1>11, <1>12, <1>13, <1>14 DEF MakeControl

(* What Rider shows of the play state or the mode is what it is told.      *)
LEMMA TellKeeps ==
  ASSUME ControlInv, ShownInv, ~crashed, Tell
  PROVE  Follows'
<1> DEFINE task == Head(tasks)
<1>1. /\ LinkInv /\ Making /\ Controlled /\ tasks \in Seq(Tasks) /\ tasks # <<>> /\ Finish
      /\ Follows /\ Informed /\ StateTold /\ ModeTold
      /\ task = tasks[1] /\ 1 \in 1..Len(tasks) /\ task \in Tasks /\ tasks' = Tail(tasks)
      /\ task.do \in PlayStates \cup {"mode", "unready", "reply"}
      /\ UNCHANGED <<making, control, registered, playMode, got, settings, EditorModel, late>>
      /\ UNCHANGED <<changed, lost, raced, playState, conn, connected>>
      /\ rider \in RiderType /\ strayed \in BOOLEAN /\ at = "idle"
  BY HeadIsFirst, ElementOfSeq DEF Tell, Finish, ControlInv, LinkInv, LinkTypes, controlVars,
     gameVars, ShownInv, ShownTypes, Follows
<1>2. making = "no" /\ Control = control
  BY <1>1, IdleFacts
<1>3. /\ Continues /\ Mode' = Mode /\ Synced' = Synced /\ Synced
      /\ Control' = Control /\ (Kept' => Kept) /\ Lives(Control)' = Lives(Control)
  BY <1>1, <1>2 DEF Continues, Kept, Control, Mode, Synced, Lives
<1>4. Informed'
  BY <1>1, <1>2, <1>3 DEF Informed
<1>5. SUFFICES ASSUME Kept, Lives(Control), ~strayed', ~crashed'
               PROVE  Follows'
  BY <1>3, <1>4 DEF Follows, StateTold, ModeTold
<1>6. ~strayed
  BY <1>1, <1>5 DEF Tell
<1>7. Control = EditorModel /\ Bound(Control)
  BY <1>1, <1>5, ControlFacts
<1>8. CASE Control # task.of
  <2>1. UNCHANGED <<rider, strayed>>
    BY <1>2, <1>5, <1>8 DEF Tell
  <2>2. Aside(tasks, tasks', Deaf)
    <3>1. task \notin Deaf
      BY <1>8 DEF Deaf, TellsState, TellsMode, SetsMode
    <3> QED
      BY <1>1, <3>1, AsideOne
  <2>3. Steady
    BY <1>1, <2>1 DEF Steady
  <2> QED
    BY <1>1, <2>1, <2>2, <2>3, Elsewhere
<1>9. CASE Control = task.of
  <2>1. Deliver(task) /\ UNCHANGED strayed
    BY <1>2, <1>7, <1>9 DEF Tell
  <2>2. CASE task.do \in PlayStates
    <3>1. rider' = [rider EXCEPT !.state = task.do]
      BY <2>1, <2>2 DEF Deliver, PlayStates
    <3>2. rider'.mode = rider.mode /\ rider'.state = task.do
      BY <1>1, <3>1 DEF RiderType
    <3>3. ModeTold'
      <4>1. task \notin TellsMode(Control) \cup SetsMode(Control)
        BY <2>2 DEF TellsMode, SetsMode, PlayStates
      <4>2. Aside(tasks, tasks', TellsMode(Control) \cup SetsMode(Control))
        BY <1>1, <4>1, AsideOne
      <4> QED
        BY <1>1, <1>3, <2>1, <3>2, <4>2, ModeSame
    <3>4. StateTold'
      <4>1. SUFFICES ASSUME changed
                     PROVE  StateShown(tasks', Control, playState, task.do = playState)
        BY <1>1, <1>3, <3>2 DEF StateTold
      <4>2. Told(tasks, TellsState(Control), {k \in Tasks : k.do = playState}, rider.state = playState)
        BY <1>1, <1>5, <1>6, <4>1 DEF StateTold, StateShown
      <4>3. tasks[1] \in TellsState(Control)
        BY <1>1, <1>9, <2>2 DEF TellsState
      <4>4. Told(Tail(tasks), TellsState(Control), {k \in Tasks : k.do = playState},
                 tasks[1] \in {k \in Tasks : k.do = playState})
        BY <1>1, <4>2, <4>3, ToldTail
      <4>5. (tasks[1] \in {k \in Tasks : k.do = playState}) = (task.do = playState)
        BY <1>1
      <4> QED
        BY <1>1, <4>4, <4>5 DEF StateShown
    <3> QED
      BY <1>4, <3>3, <3>4 DEF Follows
  <2>3. CASE task.do = "mode"
    <3>1. rider' = [rider EXCEPT !.mode = task.val]
      BY <2>1, <2>3 DEF Deliver, PlayStates
    <3>2. rider'.mode = task.val /\ rider'.state = rider.state
      BY <1>1, <3>1 DEF RiderType, Tasks
    <3>3. StateTold'
      <4>1. task \notin TellsState(Control)
        BY <2>3 DEF TellsState, PlayStates
      <4>2. Aside(tasks, tasks', TellsState(Control))
        BY <1>1, <4>1, AsideOne
      <4> QED
        BY <1>1, <1>3, <2>1, <3>2, <4>2, StateSame
    <3>4. ModeTold'
      <4> DEFINE M == TellsMode(Control)
                 S == SetsMode(Control)
                 G == {k \in Tasks : k.val = Mode}
      <4>1. SUFFICES ASSUME ~raced, ~lost
                     PROVE  ModeShown(tasks', Control, Mode, Synced => task.val = Mode)
        BY <1>1, <1>3, <3>2 DEF ModeTold
      <4>2. ModeShown(tasks, Control, Mode, Synced => rider.mode = Mode)
        BY <1>1, <1>5, <1>6, <4>1 DEF ModeTold
      <4>3. tasks[1] \in M /\ tasks[1] \notin S
        BY <1>1, <1>9, <2>3 DEF TellsMode, SetsMode
      <4>4. /\ \A i \in 1..Len(tasks') : i + 1 \in 1..Len(tasks) /\ tasks'[i] = tasks[i + 1]
            /\ In(tasks) \subseteq In(tasks') \cup {tasks[1]}
            /\ \A i, j \in 1..Len(tasks') : i < j => i + 1 < j + 1
        BY <1>1, InTail
      <4>5. \A i, j \in 1..Len(tasks') : i < j /\ tasks'[i] \in S => tasks'[j] \notin M
        <5>1. \A i, j \in 1..Len(tasks) : i < j /\ tasks[i] \in S => tasks[j] \notin M
          BY <4>2 DEF ModeShown
        <5> HIDE DEF M, S
        <5> QED
          BY <4>4, <5>1
      <4>6. ASSUME NEW then, Told(tasks, M, G, then)
            PROVE  Told(tasks', M, G, Synced => task.val = Mode)
        <5>1. Told(Tail(tasks), M, G, tasks[1] \in G)
          <6> HIDE DEF M, G
          <6> QED
            BY <1>1, <4>3, <4>6, ToldTail
        <5>2. (tasks[1] \in G) = (Synced => task.val = Mode)
          BY <1>1, <1>3
        <5> QED
          BY <1>1, <5>1, <5>2
      <4>7. ASSUME NEW k \in In(tasks), k \in S, k.val # Mode PROVE k \in In(tasks')
        BY <4>3, <4>4, <4>7
      <4> QED
        BY <4>2, <4>5, <4>6, <4>7 DEF ModeShown
    <3> QED
      BY <1>4, <3>3, <3>4 DEF Follows
  <2>4. CASE task.do \in {"unready", "reply"}
    <3>1. rider' = rider \/ rider' = [rider EXCEPT !.ready = FALSE]
      BY <2>1, <2>4 DEF Deliver, PlayStates
    <3>2. rider'.mode = rider.mode /\ rider'.state = rider.state
      BY <1>1, <3>1 DEF RiderType
    <3>3. Aside(tasks, tasks', Deaf)
      <4>1. task \notin Deaf
        BY <2>4 DEF Deaf, TellsState, TellsMode, SetsMode, PlayStates
      <4> QED
        BY <1>1, <4>1, AsideOne
    <3>4. Steady
      BY <1>1, <2>1 DEF Steady
    <3> QED
      BY <1>1, <3>2, <3>3, <3>4, Elsewhere
  <2> QED
    BY <1>1, <2>2, <2>3, <2>4
<1> QED
  BY <1>8, <1>9

(* The delegates of the control queue what Rider is to be told of the play *)
(* state, also while the constructor is at work.                           *)
LEMMA PlayWorldKeeps ==
  ASSUME ControlInv, ShownInv, ~crashed, PlayWorld
  PROVE  Follows'
<1>0. playState' \in PlayStates
  BY DEF PlayWorld, After, PlayStates, ControlInv, ControlTypes
<1>1. /\ LinkInv /\ ControlTypes /\ Informed /\ ModeTold /\ tasks \in Seq(Tasks)
      /\ playState' \in PlayStates \cup {"mode"} /\ playState' \in PlayStates /\ 0 \in Int
      /\ UNCHANGED <<making, control, registered, playMode, got, settings, EditorModel>>
      /\ UNCHANGED <<late, lost, raced, strayed, rider, conn, connected>>
  BY <1>0 DEF PlayWorld, ControlInv, LinkInv, LinkTypes, controlVars, riderVars, ShownInv
<1>2. PICK new \in SUBSET Registering : Notify(registered \cup new, playState', 0)
  BY DEF PlayWorld
<1> DEFINE who == registered \cup new
<1>3. PICK t \in Seq(Tasks) : tasks' = tasks \o t /\ TellIt(t, who, playState', 0)
  <2>1. who \in SUBSET (0..MaxConns)
    BY <1>1, RegisteringTypes
  <2> HIDE DEF who
  <2> QED
    BY <1>1, <1>2, <2>1, NotifyTells DEF who
<1>4. In(t) \subseteq Tasks /\ \A k \in In(t) : k.do = playState'
  BY <1>3, ElementOfSeq DEF In, TellIt
<1>5. /\ Continues /\ Mode' = Mode /\ Synced' = Synced
      /\ Control' = Control /\ (Kept' => Kept)
  BY <1>1 DEF Continues, Kept, Control, Mode, Synced
<1>6. StateTold'
  <2>1. SUFFICES ASSUME Kept
                 PROVE  StateShown(tasks', Control, playState', rider.state = playState')
    BY <1>1, <1>5 DEF StateTold
  <2> DEFINE M == TellsState(Control)
             G == {k \in Tasks : k.do = playState'}
  <2>2. Control \in who
    BY <1>1, <2>1 DEF Informed
  <2>3. PICK k \in In(t) : k.of = Control
    BY <1>3, <2>2 DEF TellIt
  <2>4. In(t) \cap M # {} /\ In(t) \cap M \subseteq G
    BY <1>1, <1>4, <2>3 DEF TellsState
  <2>5. Told(tasks \o t, M, G, rider.state = playState')
    <3> HIDE DEF M, G
    <3> QED
      BY <1>1, <2>4, ToldNews
  <2> QED
    BY <1>3, <2>5 DEF StateShown
<1>7. In(t) \cap (TellsMode(Control) \cup SetsMode(Control)) = {}
  BY <1>1, <1>4 DEF TellsMode, SetsMode, PlayStates
<1>8. ModeTold'
  <2>1. Aside(tasks, tasks', TellsMode(Control) \cup SetsMode(Control))
    BY <1>3, <1>7 DEF Aside
  <2> QED
    BY <1>1, <1>5, <2>1, ModeSame
<1>9. Informed'
  <2>1. Aside(tasks, tasks', TellsMode(Control))
    BY <1>3, <1>7 DEF Aside
  <2> QED
    BY <1>1, <1>5, <2>1, InformedSame
<1> QED
  BY <1>6, <1>8, <1>9 DEF Follows

(* The user changes the mode, and Rider has not: else it is a race.  A     *)
(* control that is being made may tell of it or not: it has yet to read    *)
(* the mode, or what it stores is not the mode any more.                   *)
LEMMA EditKeeps ==
  ASSUME ControlInv, ShownInv, ~crashed, Edit
  PROVE  Follows'
<1> DEFINE mode == PackToMode(settings')
           heeds == registered \cap {Control}
<1>1. /\ LinkInv /\ Making /\ Controlled /\ tasks \in Seq(Tasks)
      /\ Informed /\ StateTold /\ ModeTold
      /\ registered \in SUBSET (0..MaxConns)
      /\ UNCHANGED <<making, control, registered, got, EditorModel, late, playState, changed>>
      /\ UNCHANGED <<strayed, rider, conn, connected>>
      /\ lost \in BOOLEAN
  BY RiderLinkAssumption DEF Edit, ControlInv, ControlTypes, LinkInv, LinkTypes, riderVars,
     gameVars, ShownInv, ShownTypes
<1>2. mode \in Nat /\ mode # Unset /\ mode \in Int /\ Mode' = mode
  <2>1. settings' \in SettingsType
    BY ControlAssumption DEF Edit, SettingsType
  <2>2. PackToMode(settings') \in Nat
    BY <2>1, PackIsNat
  <2> QED
    BY <2>2 DEF Unset, Mode
<1>3. PICK who \in SUBSET registered :
        /\ playMode # Unset => who \cap heeds = IF mode = playMode THEN {} ELSE heeds
        /\ Notify(who, "mode", mode)
  BY DEF Edit
<1>4. PICK t \in Seq(Tasks) : tasks' = tasks \o t /\ TellIt(t, who, "mode", mode)
  <2>1. who \in SUBSET (0..MaxConns) /\ "mode" \in PlayStates \cup {"mode"}
    BY <1>1
  <2> HIDE DEF mode
  <2> QED
    BY <1>2, <1>3, <2>1, NotifyTells
<1>5. In(t) \subseteq Tasks /\ \A k \in In(t) : k.do = "mode" /\ k.of \in who /\ k.val = mode
  BY <1>4, ElementOfSeq DEF In, TellIt
<1>6. /\ Continues /\ Synced' = Synced /\ Control' = Control /\ (Kept' => Kept)
      /\ Lives(Control)' = Lives(Control)
  BY <1>1 DEF Continues, Kept, Control, Synced, Lives
<1>7. /\ playMode' = IF heeds = {} THEN playMode ELSE mode
      /\ lost' = (making = "store" \/ (lost /\ playMode' = playMode))
      /\ raced' = (raced \/ \E i \in 1..Len(tasks) : tasks[i].do = "Mode" /\ Bound(tasks[i].of))
  BY DEF Edit
<1>8. SUFFICES ASSUME Kept PROVE Follows'
  BY <1>6, Unkept
<1>9. heeds = {Control} /\ playMode' = mode
  BY <1>1, <1>7, <1>8 DEF Informed
<1> HIDE DEF mode, heeds
<1>10. Informed'
  BY <1>1, <1>2, <1>6, <1>7, <1>8, <1>9 DEF Informed
<1>11. StateTold'
  <2>1. In(t) \cap TellsState(Control) = {}
    BY <1>5 DEF TellsState, PlayStates
  <2>2. Aside(tasks, tasks', TellsState(Control))
    BY <1>4, <2>1 DEF Aside
  <2> QED
    BY <1>1, <1>6, <2>2, StateSame
<1>12. ModeTold'
  <2> DEFINE M == TellsMode(Control)
             S == SetsMode(Control)
             G == {k \in Tasks : k.val = mode}
  <2>1. CASE Control \in who
    <3>1. SUFFICES ASSUME Lives(Control), ~raced'
                   PROVE  ModeShown(tasks', Control, mode, Synced' => rider'.mode = mode)
      BY <1>2, <1>6 DEF ModeTold
    <3>2. In(tasks) \cap S = {}
      BY <1>1, <1>7, <1>8, <3>1, ControlFacts DEF SetsMode, In
    <3>3. In(t) \cap S = {}
      BY <1>5 DEF SetsMode
    <3>4. \A j \in 1..Len(tasks') : tasks'[j] \notin S
      <4>1. In(tasks') \cap S = {}
        <5> HIDE DEF S
        <5> QED
          BY <1>1, <1>4, <3>2, <3>3, InAppended
      <4> HIDE DEF S
      <4> QED
        BY <4>1 DEF In
    <3>5. In(t) \cap M # {} /\ In(t) \cap M \subseteq G
      <4>1. PICK k \in In(t) : k.of = Control
        BY <1>4, <2>1 DEF TellIt
      <4>2. k \in M
        BY <1>5, <4>1 DEF TellsMode
      <4>3. In(t) \cap M \subseteq G
        BY <1>5
      <4> QED
        BY <4>2, <4>3
    <3>6. Told(tasks \o t, M, G, Synced' => rider'.mode = mode)
      <4> HIDE DEF M, G
      <4> QED
        BY <1>1, <3>5, ToldNews
    <3> QED
      BY <1>4, <3>4, <3>6 DEF ModeShown
  <2>2. CASE Control \notin who
    <3>1. In(t) \cap (M \cup S) = {} /\ In(t) \cap M = {}
      BY <1>5, <2>2 DEF TellsMode, SetsMode
    <3>2. CASE playMode = Unset
      <4>1. ~Synced' /\ In(tasks) \cap M = {}
        BY <1>1, <1>6, <1>8, <3>2 DEF Informed, Synced
      <4>2. In(tasks') \cap M = {}
        <5> HIDE DEF M
        <5> QED
          BY <1>1, <1>4, <3>1, <4>1, InAppended
      <4>3. \A j \in 1..Len(tasks') : tasks'[j] \notin M
        <5> HIDE DEF M
        <5> QED
          BY <4>2 DEF In
      <4>4. ModeShown(tasks', Control, mode, Synced' => rider'.mode = mode)
        BY <4>1, <4>2, <4>3 DEF ModeShown, Told
      <4> QED
        BY <1>2, <1>6, <4>4 DEF ModeTold
    <3>3. CASE playMode # Unset
      <4>1. mode = playMode
        BY <1>3, <1>9, <2>2, <3>3
      <4>2. SUFFICES ASSUME ~lost' PROVE ModeTold'
        BY DEF ModeTold
      <4>3. ~lost /\ making # "store"
        BY <1>1, <1>7, <1>9, <4>1, <4>2
      <4>4. playMode = Mode
        BY <1>1, <1>8, <3>3, <4>3 DEF Informed
      <4>5. Aside(tasks, tasks', M \cup S)
        BY <1>4, <3>1 DEF Aside
      <4> QED
        BY <1>1, <1>2, <1>6, <1>7, <4>1, <4>3, <4>4, <4>5, ModeSame
    <3> QED
      BY <3>2, <3>3
  <2> QED
    BY <2>1, <2>2
<1> QED
  BY <1>10, <1>11, <1>12 DEF Follows

(* Rider chooses another mode than it shows: it is on its way.             *)
LEMMA ChooseModeKeeps ==
  ASSUME ControlInv, ShownInv, ~crashed, ChooseMode
  PROVE  Follows'
<1>1. /\ LinkInv /\ Making /\ Controlled /\ tasks \in Seq(Tasks) /\ conn \in 0..MaxConns
      /\ Informed /\ StateTold /\ ModeTold /\ rider \in RiderType
      /\ UNCHANGED <<making, control, registered, playMode, got, settings, EditorModel, late>>
      /\ UNCHANGED <<changed, lost, raced, strayed, playState, conn, connected>>
  BY DEF ChooseMode, ControlInv, LinkInv, LinkTypes, ShownInv, ShownTypes, controlVars,
         gameVars, history
<1>2. PICK m \in Modes \ {rider.mode} :
        rider' = [rider EXCEPT !.mode = m] /\ Queue(<<Task("Mode", conn, m)>>)
  BY DEF ChooseMode
<1> DEFINE k == Task("Mode", conn, m)
<1>3. /\ k \in Tasks /\ k.do = "Mode" /\ k.of = conn /\ k.val = m
      /\ rider'.mode = m /\ rider'.state = rider.state
  BY <1>1, <1>2, ControlAssumption DEF Task, Tasks, Does, RiderType
<1> HIDE DEF k
<1>4. <<k>> \in Seq(Tasks) /\ In(<<k>>) = {k} /\ tasks' = tasks \o <<k>> /\ Queue(<<k>>)
  BY <1>2, <1>3, InOne DEF Queue, k
<1>5. /\ Continues /\ Mode' = Mode /\ Synced' = Synced /\ Control' = Control
      /\ (Kept' => Kept) /\ Lives(Control)' = Lives(Control)
  BY <1>1 DEF Continues, Kept, Control, Mode, Synced, Lives
<1>6. k \notin TellsState(Control) \cup TellsMode(Control)
  BY <1>3 DEF TellsState, TellsMode, PlayStates
<1>7. StateTold'
  <2>1. Aside(tasks, tasks', TellsState(Control))
    BY <1>1, <1>3, <1>4, <1>6, AsideOne
  <2> QED
    BY <1>1, <1>3, <1>5, <2>1, StateSame
<1>8. Informed'
  <2>1. Aside(tasks, tasks', TellsMode(Control))
    BY <1>1, <1>3, <1>4, <1>6, AsideOne
  <2> QED
    BY <1>1, <1>5, <2>1, InformedSame
<1>9. ModeTold'
  <2> DEFINE M == TellsMode(Control)
             S == SetsMode(Control)
             G == {q \in Tasks : q.val = Mode}
  <2>1. SUFFICES ASSUME Kept, Lives(Control), ~lost, ~raced, ~strayed
                 PROVE  ModeShown(tasks', Control, Mode, Synced => m = Mode)
    BY <1>1, <1>3, <1>5 DEF ModeTold
  <2>2. ModeShown(tasks, Control, Mode, Synced => rider.mode = Mode)
    BY <1>1, <2>1 DEF ModeTold
  <2>3. k \in S /\ k \notin M
    BY <1>1, <1>3, <1>6, <2>1, ControlFacts DEF SetsMode
  <2>4. \A i, j \in 1..Len(tasks') : i < j /\ tasks'[i] \in S => tasks'[j] \notin M
    <3>1. \A i, j \in 1..Len(tasks) : i < j /\ tasks[i] \in S => tasks[j] \notin M
      BY <2>2 DEF ModeShown
    <3>2. \A j \in 1..Len(tasks') :
            \/ j \in 1..Len(tasks) /\ tasks'[j] = tasks[j]
            \/ j \notin 1..Len(tasks) /\ tasks'[j] = k
      <4>1. \A j \in 1..Len(<<k>>) : <<k>>[j] = k
        BY <1>4 DEF In
      <4> QED
        BY <1>1, <1>4, <4>1, Appended
    <3>3. Len(tasks) \in Nat /\ \A i, j \in 1..Len(tasks') : i < j /\ j \in 1..Len(tasks) => i \in 1..Len(tasks)
      BY <1>1, LenProperties
    <3> HIDE DEF M, S
    <3> QED
      BY <2>3, <3>1, <3>2, <3>3
  <2>5. In(tasks) \subseteq In(tasks') /\ k \in In(tasks')
    BY <1>1, <1>4, InAppended
  <2>6. ASSUME NEW now, Told(tasks, M, G, now) PROVE Told(tasks', M, G, now)
    <3> HIDE DEF M, S, G
    <3> QED
      BY <1>1, <1>4, <2>3, <2>6, ToldAppend
  <2>7. CASE \E q \in In(tasks) : q \in S /\ q.val # Mode
    BY <2>4, <2>5, <2>7 DEF ModeShown
  <2>8. CASE Told(tasks, M, G, Synced => rider.mode = Mode)
    <3>1. CASE Synced /\ rider.mode = Mode
      <4>1. k.val # Mode
        BY <1>2, <1>3, <3>1
      <4> QED
        BY <2>3, <2>4, <2>5, <4>1 DEF ModeShown
    <3>2. CASE ~(Synced /\ rider.mode = Mode)
      <4>1. Told(tasks, M, G, Synced => m = Mode)
        BY <2>8, <3>2 DEF Told
      <4>2. Told(tasks', M, G, Synced => m = Mode)
        BY <2>6, <4>1
      <4> QED
        BY <2>4, <4>2 DEF ModeShown
    <3> QED
      BY <3>1, <3>2
  <2> QED
    BY <2>2, <2>7, <2>8 DEF ModeShown
<1> QED
  BY <1>7, <1>8, <1>9 DEF Follows

(* The modes that Rider chooses among have no other bits than those of the *)
(* clients, of bSpawnAtPlayerStart and of bNetDedicated.                   *)
NoOtherBits == Modes \subseteq 0..15

LEMMA PackUnpack == ASSUME NEW m \in 0..15 PROVE PackToMode(UnpackFromMode(m)) = m
<1>1. PackToMode(UnpackFromMode(m)) =
        (m % 4) + 1 - 1 + 4 * Bit((m \div 4) % 2 = 1) + 8 * Bit((m \div 8) % 2 = 1)
  BY DEF PackToMode, UnpackFromMode
<1>2. m = (m % 4) + 4 * (m \div 4) /\ m \div 4 \in 0..3 /\ m % 4 \in 0..3
  OBVIOUS
<1>3. m \div 4 = ((m \div 4) % 2) + 2 * (m \div 8) /\ m \div 8 \in 0..1
      /\ (m \div 4) % 2 \in 0..1 /\ (m \div 8) % 2 = m \div 8
  OBVIOUS
<1> QED
  BY <1>1, <1>2, <1>3 DEF Bit

(* Rider sets the mode.  What the control then tells is what Rider shows.  *)
LEMMA SetPlayModeKeeps ==
  ASSUME NoOtherBits, ControlInv, ShownInv, ~crashed, SetPlayMode
  PROVE  Follows'
<1> DEFINE task == Head(tasks)
<1>1. /\ LinkInv /\ Making /\ Controlled /\ tasks \in Seq(Tasks) /\ tasks # <<>> /\ Finish
      /\ Follows /\ Informed /\ StateTold /\ ModeTold
      /\ task = tasks[1] /\ 1 \in 1..Len(tasks) /\ task \in Tasks /\ tasks' = Tail(tasks)
      /\ task.do = "Mode" /\ task.val \in Modes
      /\ UNCHANGED <<making, control, registered, got, EditorModel, late, playState>>
      /\ UNCHANGED <<changed, lost, raced, strayed, conn, connected>>
      /\ rider \in RiderType /\ at = "idle"
  BY HeadIsFirst, ElementOfSeq DEF SetPlayMode, Runs, Finish, ControlInv, LinkInv, LinkTypes,
     gameVars, history, ShownInv, ShownTypes, Follows, In
<1>2. making = "no" /\ Control = control
  BY <1>1, IdleFacts
<1>3. /\ Continues /\ Synced' = Synced /\ Synced /\ Control' = Control
      /\ (Kept' => Kept) /\ Lives(Control)' = Lives(Control)
  BY <1>1, <1>2 DEF Continues, Kept, Control, Synced, Lives
<1>4. SUFFICES ASSUME Kept PROVE Follows'
  BY <1>3, Unkept
<1>5. Control = EditorModel /\ module = "viewing" /\ (Lives(Control) => Bound(Control))
  BY <1>1, <1>4, ControlFacts
<1>6. CASE ~Heard(task.of)
  <2>1. UNCHANGED <<settings, playMode, rider>>
    BY <1>6 DEF SetPlayMode
  <2>2. Mode' = Mode
    BY <2>1 DEF Mode
  <2>3. Informed'
    BY <1>1, <1>2, <1>3, <2>1, <2>2 DEF Informed
  <2>4. SUFFICES ASSUME Lives(Control) PROVE Follows'
    BY <1>3, <2>3 DEF Follows, StateTold, ModeTold
  <2>5. task.of # Control
    BY <1>2, <1>5, <1>6, <2>4 DEF Heard
  <2>6. task \notin Deaf
    BY <2>5 DEF Deaf, TellsState, TellsMode, SetsMode
  <2>7. Steady
    BY <1>1, <2>1 DEF Steady
  <2> QED
    BY <1>1, <2>1, <2>6, <2>7, AsideOne, Elsewhere
<1>7. CASE Heard(task.of)
  <2>1. PackToMode(UnpackFromMode(task.val)) = task.val
    BY <1>1, PackUnpack DEF NoOtherBits
  <2>2. /\ task.of = Control /\ playMode' = task.val /\ Mode' = task.val
        /\ rider' = IF task.val = playMode THEN rider ELSE [rider EXCEPT !.mode = task.val]
    BY <1>2, <1>7, <2>1 DEF SetPlayMode, Heard, Mode
  <2>3. /\ rider'.state = rider.state
        /\ rider'.mode = IF task.val = playMode THEN rider.mode ELSE task.val
    BY <1>1, <2>2 DEF RiderType, Tasks
  <2>4. StateTold'
    <3>1. task \notin TellsState(Control)
      BY <1>1 DEF TellsState, PlayStates
    <3>2. Aside(tasks, tasks', TellsState(Control))
      BY <1>1, <3>1, AsideOne
    <3> QED
      BY <1>1, <1>3, <2>3, <3>2, StateSame
  <2>5. Informed'
    <3>1. task.val # Unset
      BY <1>1, ControlAssumption DEF Unset
    <3> QED
      BY <1>1, <1>2, <1>3, <1>4, <2>2, <3>1 DEF Informed
  <2>6. ModeTold'
    <3> DEFINE M == TellsMode(Control)
               S == SetsMode(Control)
               G == {k \in Tasks : k.val = playMode}
    <3>1. SUFFICES ASSUME Lives(Control), ~lost, ~raced, ~strayed
                   PROVE  ModeShown(tasks', Control, task.val, Synced => rider'.mode = task.val)
      BY <1>1, <1>3, <2>2 DEF ModeTold
    <3>2. ModeShown(tasks, Control, playMode, rider.mode = playMode)
      <4>1. playMode = Mode
        BY <1>2, <1>4, <3>1, <1>1 DEF Informed
      <4>2. ModeShown(tasks, Control, Mode, Synced => rider.mode = Mode)
        BY <1>1, <1>4, <3>1 DEF ModeTold
      <4>3. (Synced => rider.mode = Mode) = (rider.mode = Mode)
        BY <1>3
      <4> QED
        BY <4>1, <4>2, <4>3
    <3>3. task \in S
      BY <1>1, <2>2 DEF SetsMode
    <3>4. In(tasks) \cap M = {}
      <4>1. \A j \in 1..Len(tasks) : 1 < j => tasks[j] \notin M
        BY <1>1, <3>2, <3>3 DEF ModeShown
      <4>2. tasks[1] \notin M
        BY <1>1 DEF TellsMode
      <4>3. \A j \in 1..Len(tasks) : j = 1 \/ 1 < j
        OBVIOUS
      <4> HIDE DEF M
      <4> QED
        BY <4>1, <4>2, <4>3 DEF In
    <3>5. /\ In(tasks') \subseteq In(tasks) /\ In(tasks) \subseteq In(tasks') \cup {task}
      BY <1>1, InTail
    <3>6. In(tasks') \cap M = {}
      BY <3>4, <3>5
    <3>7. \A j \in 1..Len(tasks') : tasks'[j] \notin M
      <4> HIDE DEF M
      <4> QED
        BY <3>6 DEF In
    <3>8. \/ \E k \in In(tasks') : k \in S /\ k.val # task.val
          \/ rider'.mode = task.val
      <4>1. CASE task.val = playMode
        <5>1. \/ \E k \in In(tasks) : k \in S /\ k.val # playMode
              \/ rider.mode = playMode
          <6>1. Told(tasks, M, G, rider.mode = playMode) => rider.mode = playMode
            <7> HIDE DEF M, G
            <7> QED
              BY <3>4 DEF Told, In
          <6> QED
            BY <3>2, <6>1 DEF ModeShown
        <5> QED
          BY <2>3, <3>5, <4>1, <5>1
      <4>2. CASE task.val # playMode
        BY <2>3, <4>2
      <4> QED
        BY <4>1, <4>2
    <3>9. rider'.mode = task.val =>
            Told(tasks', M, {k \in Tasks : k.val = task.val}, Synced => rider'.mode = task.val)
      BY <3>6 DEF Told
    <3> QED
      BY <3>7, <3>8, <3>9 DEF ModeShown
  <2> QED
    BY <2>4, <2>5, <2>6 DEF Follows
<1> QED
  BY <1>6, <1>7

LEMMA FollowsKept ==
  ASSUME NoOtherBits, ControlInv, ShownInv, QueueStep, [Next]_vars
  PROVE  Follows'
<1>1. /\ LinkInv /\ LinkTypes /\ ControlTypes /\ Making /\ Controlled /\ Follows
      /\ ShownTypes /\ Views
      /\ tasks \in Seq(Tasks) /\ conn \in 0..MaxConns /\ control \in 0..MaxConns
      /\ tasks # <<>> => Head(tasks) = tasks[1]
  BY RiderLinkAssumption, HeadIsFirst DEF ControlInv, LinkInv, LinkTypes, ControlTypes,
     ShownInv, Follows
<1>2. CASE UNCHANGED vars
  <2>1. /\ UNCHANGED <<making, control, registered, playMode, got, settings, EditorModel, late>>
        /\ UNCHANGED <<changed, lost, raced, strayed, playState, conn, connected, crashed>>
        /\ UNCHANGED <<tasks, rider>>
    BY <1>2 DEF vars, linkVars, controlVars, gameVars, riderVars, history
  <2>2. UNCHANGED <<Kept, Control, Mode, Synced>> /\ Lives(Control)' = Lives(Control)
    BY <2>1 DEF Kept, Control, Mode, Synced, Lives
  <2> QED
    BY <1>1, <2>1, <2>2 DEF Follows, Informed, StateTold, ModeTold
<1> SUFFICES ASSUME Next, ~crashed PROVE Follows'
  BY <1>2 DEF Next
<1>o. ASSUME Steady, UNCHANGED rider, NEW k \in Tasks, Queue(<<k>>),
             k.do \in {"View", "reply", "Request"}
      PROVE  Follows'
  <2>1. k \notin Deaf
    BY <1>o DEF Deaf, TellsState, TellsMode, SetsMode, PlayStates
  <2> QED
    BY <1>o, <1>1, <2>1, AsideOne, Elsewhere
<1>3. CASE Reconnect \/ Hangup
  BY <1>1, <1>3, WireKeeps
<1>4. CASE Logging
  <2>1. Steady /\ UNCHANGED <<tasks, rider>>
    BY <1>4 DEF Logging, StartReading, StopReading, Steady, controlVars, gameVars, riderVars,
                history
  <2> QED
    BY <1>1, <2>1, AsideOne, Elsewhere
<1>5. CASE StartupModule
  <2> DEFINE k == Task("View", 0, 0)
  <2>1. k \in Tasks /\ k.do = "View"
    BY RiderLinkAssumption DEF Task, Tasks, Does
  <2>2. Queue(<<k>>) /\ Steady /\ UNCHANGED rider
    BY <1>5 DEF StartupModule, Steady, gameVars, riderVars, history
  <2> HIDE DEF k
  <2> QED
    BY <1>o, <2>1, <2>2
<1>6. CASE ShutdownModule
  <2>1. control' = 0 /\ late' = (making # "no") /\ UNCHANGED making
    BY <1>6 DEF ShutdownModule
  <2> QED
    BY <2>1, Unkept DEF Kept, Control
<1>7. CASE Execute
  <2> DEFINE k == Task("reply", Head(game), 0)
  <2>1. Head(game) \in 0..MaxConns
    BY <1>1, <1>7, HeadTailProperties DEF Execute, ControlTypes
  <2>2. k \in Tasks /\ k.do = "reply"
    BY <2>1 DEF Task, Tasks, Does
  <2>3. Queue(<<k>>) /\ Steady /\ UNCHANGED rider
    BY <1>7 DEF Execute, Steady, controlVars, riderVars, history
  <2> HIDE DEF k
  <2> QED
    BY <1>o, <2>2, <2>3
<1>8. CASE Request
  <2> DEFINE k == Task("Request", conn, 0)
  <2>1. k \in Tasks /\ k.do = "Request"
    BY <1>1 DEF Task, Tasks, Does
  <2>2. Queue(<<k>>) /\ Steady /\ UNCHANGED rider
    BY <1>8 DEF Request, Steady, controlVars, gameVars, history
  <2> HIDE DEF k
  <2> QED
    BY <1>o, <2>1, <2>2
<1>9. CASE RequestPlayWorldCommand
  <2>1. Steady /\ UNCHANGED rider /\ tasks # <<>> /\ Finish /\ Head(tasks).do = "Request"
    BY <1>9 DEF RequestPlayWorldCommand, Runs, Steady, controlVars, history
  <2>2. Head(tasks) \notin Deaf
    BY <2>1 DEF Deaf, TellsState, TellsMode, SetsMode, PlayStates
  <2> QED
    BY <1>1, <2>1, <2>2, AsideOne, Elsewhere
<1>10. CASE Link \/ MakeControl \/ View
  BY <1>10, LinkKeepsShown, MakeKeepsShown, ViewKeepsShown
<1>11. CASE Tell \/ PlayWorld \/ Edit \/ ChooseMode \/ SetPlayMode
  BY <1>11, TellKeeps, PlayWorldKeeps, EditKeeps, ChooseModeKeeps, SetPlayModeKeeps
<1> QED
  BY <1>3, <1>4, <1>5, <1>6, <1>7, <1>8, <1>9, <1>10, <1>11 DEF Next, Scheduler

(* When nothing is under way, Rider shows the play mode of the editor, and *)
(* the play state if it has changed under this control: whatever the order *)
(* in which the user, Rider and the wire did what they did, also while the *)
(* constructor of the control was at work.  The exceptions are those of    *)
(* InStep: both ends changed the mode at once, a task of a destroyed       *)
(* control strayed, the mode was edited between the constructor's reading  *)
(* it and storing it, or the module was shut down while it was at work.    *)
(* Rider must not choose a mode with bits that the editor does not keep:   *)
(* it would show them, and the editor would not.                           *)
THEOREM RiderIsInStep == ASSUME NoOtherBits PROVE Spec => []InStep
<1>1. Init => ControlInv /\ ShownInv
  <2> SUFFICES ASSUME Init PROVE ControlInv /\ ShownInv
    OBVIOUS
  <2>1. ControlInv
    <3>1. LinkInv
      BY LinkInit DEF Init
    <3>2. ControlTypes /\ Controlled /\ Making
      BY DEF Init, InitLink, ControlTypes, Controlled, Making, PlayStates
    <3> QED
      BY <3>1, <3>2 DEF ControlInv
  <2>2. In(tasks) = {}
    BY DEF Init, InitLink, In
  <2>3. ShownTypes
    <3>1. rider \in RiderType
      BY DEF Init, Silence, RiderType
    <3>2. settings \in SettingsType
      BY ControlAssumption DEF Init, SettingsType
    <3>3. playMode \in Int /\ got \in Nat
      BY DEF Init
    <3>4. crashed \in BOOLEAN /\ {changed, lost, raced, strayed} \subseteq BOOLEAN
      BY DEF Init
    <3>5. module \in {"loaded", "started", "viewing", "over"}
      BY DEF Init
    <3> QED
      BY <2>2, <3>1, <3>2, <3>3, <3>4, <3>5 DEF ShownTypes
  <2>4. Ahead /\ MadeOnly
    BY <2>2 DEF Init, Ahead, MadeOnly
  <2>5. Views
    BY <2>2 DEF Init, InitLink, Views
  <2>6. ~Kept
    BY DEF Init, Kept, Control
  <2> QED
    BY <2>1, <2>3, <2>4, <2>5, <2>6 DEF ShownInv, Informed, StateTold, ModeTold
<1>2. ControlInv /\ ShownInv /\ [Next]_vars => (ControlInv /\ ShownInv)'
  <2> SUFFICES ASSUME ControlInv, ShownInv, [Next]_vars PROVE ControlInv' /\ ShownInv'
    OBVIOUS
  <2>1. /\ LinkInv /\ LinkTypes /\ ControlTypes /\ Making /\ Controlled
        /\ ShownTypes /\ Ahead /\ Views /\ MadeOnly
    BY DEF ControlInv, LinkInv, ShownInv
  <2>2. LinkStep /\ QueueStep
    BY <2>1, Shapes, StepQueues
  <2>3. ControlInv'
    BY <2>1, <2>2, LinkKeeps, ControlTypesKept, MakingKept, ControlledKept DEF ControlInv
  <2>4. ShownTypes' /\ Views'
    BY <2>1, <2>2, ShownTypesKept, ViewsKept
  <2>5. Ahead' /\ MadeOnly'
    BY <2>1, <2>2, AheadKept, MadeKept
  <2>6. Follows'
    BY <2>2, FollowsKept
  <2> QED
    BY <2>3, <2>4, <2>5, <2>6 DEF ShownInv, Follows
<1>3. ControlInv /\ ShownInv => InStep
  <2> SUFFICES ASSUME ControlInv, ShownInv, tasks = <<>>, control # 0,
                      ~raced, ~strayed, ~lost, ~late, ~crashed
               PROVE  rider.mode = PackToMode(settings) /\ (changed => rider.state = playState)
    BY DEF InStep
  <2>1. /\ LinkInv /\ Making /\ Controlled /\ StateTold /\ ModeTold
        /\ In(tasks) = {} /\ 1 \notin 1..Len(tasks)
    BY DEF ControlInv, ShownInv, In
  <2>2. making = "no" /\ Control = control /\ Kept
    <3>1. at # "announced" /\ at # "viewing"
      BY <2>1 DEF LinkInv, Working, Locked
    <3> QED
      BY <2>1, <3>1 DEF Making, Control, Kept
  <2>3. Lives(control)
    <3>1. control = EditorModel /\ alive = "alive"
      BY <2>1, <2>2, ControlFacts
    <3>2. ~HasEnd(tasks) /\ ~Latest(tasks, conn)
      BY DEF HasEnd, Latest
    <3> QED
      BY <2>1, <3>1, <3>2 DEF LinkInv, Dies, Begins, Lives
  <2>4. rider.mode = Mode
    <3>1. ModeShown(tasks, control, Mode, Synced => rider.mode = Mode)
      BY <2>1, <2>2, <2>3 DEF ModeTold
    <3> QED
      BY <2>1, <2>2, <3>1 DEF ModeShown, Told, Synced
  <2>5. changed => rider.state = playState
    BY <2>1, <2>2, <2>3 DEF StateTold, StateShown, Told
  <2> QED
    BY <2>4, <2>5 DEF Mode
<1> QED
  BY <1>1, <1>2, <1>3, PTL DEF Spec
=============================================================================
