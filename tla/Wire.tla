-------------------------------- MODULE Wire --------------------------------
(***************************************************************************)
(* One direction of rd::SocketWire: the end that sends, with the           *)
(* ByteBufferAsyncProcessor that numbers, keeps and resends its messages,  *)
(* the sockets between the two ends, and the end that receives and         *)
(* acknowledges.  (Both ends run the same code; the other direction is the *)
(* same again.)                                                            *)
(*                                                                         *)
(* Two threads work at the sending end: the thread of the wire, which      *)
(* connects, resends what is pending and then reads acknowledgements, and  *)
(* the asynchronous thread, which takes what was put and sends it.  Locks  *)
(* order them, but the asynchronous thread holds none between taking the   *)
(* data and processing it.                                                 *)
(*                                                                         *)
(* Connections are numbered; each end goes through them one by one.  When  *)
(* one breaks, a suffix of what is under way in it is lost in either       *)
(* direction.                                                              *)
(***************************************************************************)
EXTENDS Integers, Sequences

CONSTANTS
  MaxPuts,     \* bound: messages put in a behaviour
  MaxConns     \* bound: connections; the last one does not break

ASSUME WireAssumption == MaxPuts \in Nat /\ MaxConns \in Nat \ {0}

Conns == 1..MaxConns

VARIABLES
  data,               \* messages put and not taken yet, in order
  queue,              \* taken and not sent yet
  pending_queue,      \* sent, from the one with number current_seqn on
  max_sent_seqn,
  current_seqn,
  acknowledged_seqn,
  interrupt_balance,  \* 1 while paused
  state,              \* StateKind, from start() on
  thread,             \* where the asynchronous thread is in ThreadProc
  socket,             \* the connection of socket_provider, 0 for none
  phase,              \* where the thread of the wire is in set_socket_provider
  resent,             \* how many pending messages reprocess() has sent
  live,               \* the connections that are not broken
  msgs,               \* msgs[c]: packages under way in connection c
  acks,               \* acks[c]: acknowledgements under way in c
  peer,               \* the connection of the receiving end
  reading,            \* the receiving end is in receiverProc
  max_received_seqn,
  torn,               \* a byte too many is in the receiver's stream
  dispatched,         \* history: the messages dispatched, in order
  overtaken,          \* history: a message was sent in a connection before
                      \* the pending ones were sent again
  puts                \* messages put so far: message n is the n-th

seqns  == <<max_sent_seqn, current_seqn, acknowledged_seqn>>
buffer == <<data, queue, pending_queue, seqns, interrupt_balance, state, thread, puts>>
sender == <<socket, phase, resent>>
link   == <<live, msgs, acks>>
target == <<peer, reading, max_received_seqn, torn, dispatched>>
vars   == <<buffer, sender, link, target, overtaken>>

Package == [seqn : 1..MaxPuts, body : 1..MaxPuts]

TypeOK ==
  /\ data \in Seq(1..MaxPuts) /\ queue \in Seq(1..MaxPuts)
  /\ pending_queue \in Seq(1..MaxPuts)
  /\ max_sent_seqn \in 0..MaxPuts /\ acknowledged_seqn \in 0..MaxPuts
  /\ current_seqn \in 1..MaxPuts + 1
  /\ interrupt_balance \in {0, 1}
  /\ state \in {"AsyncProcessing", "Stopping", "Terminated"}
  /\ thread \in {"waiting", "taken", "sending", "sent", "ended"}
  /\ socket \in 0..MaxConns /\ peer \in 0..MaxConns
  /\ phase \in {"offline", "connecting", "resuming", "receiving"}
  /\ resent \in 0..MaxPuts
  /\ live \subseteq Conns
  /\ msgs \in [Conns -> Seq(Package)] /\ acks \in [Conns -> Seq(1..MaxPuts)]
  /\ reading \in BOOLEAN /\ torn \in BOOLEAN /\ overtaken \in BOOLEAN
  /\ max_received_seqn \in 0..MaxPuts
  /\ dispatched \in Seq(1..MaxPuts)
  /\ puts \in 0..MaxPuts

(* The constructor of Base: paused, started.                               *)
Init ==
  /\ data = <<>> /\ queue = <<>> /\ pending_queue = <<>>
  /\ max_sent_seqn = 0 /\ current_seqn = 1 /\ acknowledged_seqn = 0
  /\ interrupt_balance = 1 /\ state = "AsyncProcessing" /\ thread = "waiting"
  /\ socket = 0 /\ phase = "offline" /\ resent = 0
  /\ live = Conns
  /\ msgs = [c \in Conns |-> <<>>] /\ acks = [c \in Conns |-> <<>>]
  /\ peer = 0 /\ reading = FALSE /\ max_received_seqn = 0 /\ torn = FALSE
  /\ dispatched = <<>> /\ overtaken = FALSE /\ puts = 0

-----------------------------------------------------------------------------
(* LOCKS: reprocess() runs under lock, queue_lock and processing_lock,     *)
(* process() under the last two.                                           *)
Resuming   == phase = "resuming"
Processing == thread \in {"sending", "sent"}

(* put(); a message put later is dropped.                                  *)
Put ==
  /\ ~Resuming
  /\ state = "AsyncProcessing" /\ puts < MaxPuts
  /\ puts' = puts + 1
  /\ data' = Append(data, puts + 1)
  /\ UNCHANGED <<queue, pending_queue, seqns, interrupt_balance, state, thread,
                 sender, link, target, overtaken>>

(* MUTANT: the queue is replaced.                                          *)
TakeOver ==
  /\ thread = "waiting" /\ ~Resuming
  /\ state # "Terminated" /\ data # <<>> /\ interrupt_balance = 0
  /\ queue' = data /\ data' = <<>>
  /\ thread' = "taken"
  /\ UNCHANGED <<pending_queue, seqns, interrupt_balance, state, puts,
                 sender, link, target, overtaken>>

(* ThreadProc up to process(): all data goes to the end of the queue.      *)
Take ==
  /\ thread = "waiting" /\ ~Resuming
  /\ state # "Terminated" /\ data # <<>> /\ interrupt_balance = 0
  /\ queue' = queue \o data /\ data' = <<>>
  /\ thread' = "taken"
  /\ UNCHANGED <<pending_queue, seqns, interrupt_balance, state, puts,
                 sender, link, target, overtaken>>

(* ThreadProc returns.                                                     *)
ThreadEnds ==
  /\ thread = "waiting" /\ ~Resuming
  /\ \/ state = "Terminated"
     \/ state = "Stopping" /\ (data = <<>> \/ interrupt_balance # 0)
  /\ thread' = "ended"
  /\ UNCHANGED <<data, queue, pending_queue, seqns, interrupt_balance, state, puts,
                 sender, link, target, overtaken>>

(* process() has its locks.                                                *)
Process ==
  /\ thread = "taken" /\ ~Resuming
  /\ thread' = "sending"
  /\ UNCHANGED <<data, queue, pending_queue, seqns, interrupt_balance, state, puts,
                 sender, link, target, overtaken>>

(* send0: what is sent in a broken connection is lost, whether Send says   *)
(* so or not.                                                              *)
Transmit(seqn, body) ==
  /\ socket # 0
  /\ IF socket \in live
     THEN msgs' = [msgs EXCEPT ![socket] = Append(@, [seqn |-> seqn, body |-> body])]
     ELSE UNCHANGED msgs
  /\ UNCHANGED <<live, acks>>

SendFails == socket \notin live /\ UNCHANGED link

(* The loop of process(): the front of the queue is sent ...               *)
Send ==
  /\ thread = "sending" /\ queue # <<>>
  /\ Transmit(max_sent_seqn + 1, Head(queue))
  /\ thread' = "sent"
  /\ overtaken' = (overtaken \/ (phase = "connecting" /\ socket \in live))
  /\ UNCHANGED <<data, queue, pending_queue, seqns, interrupt_balance, state, puts,
                 sender, target>>

(* MUTANT: a message that was sent stays in the queue.                     *)
RecordNoPop ==
  /\ thread = "sent"
  /\ max_sent_seqn' = max_sent_seqn + 1
  /\ pending_queue' = Append(pending_queue, Head(queue))
  /\ thread' = "sending"
  /\ UNCHANGED <<data, queue, current_seqn, acknowledged_seqn, interrupt_balance, state, puts,
                 sender, link, target, overtaken>>

(* ... and only then becomes pending.                                      *)
Record ==
  /\ thread = "sent"
  /\ max_sent_seqn' = max_sent_seqn + 1
  /\ pending_queue' = Append(pending_queue, Head(queue))
  /\ queue' = Tail(queue)
  /\ thread' = "sending"
  /\ UNCHANGED <<data, current_seqn, acknowledged_seqn, interrupt_balance, state, puts,
                 sender, link, target, overtaken>>

(* The loop ends with the queue, or with a failure that leaves the rest of *)
(* the queue for the next time there is data.                              *)
ProcessEnds ==
  /\ thread = "sending"
  /\ (queue = <<>> /\ UNCHANGED link) \/ SendFails
  /\ thread' = "waiting"
  /\ UNCHANGED <<data, queue, pending_queue, seqns, interrupt_balance, state, puts,
                 sender, target, overtaken>>

-----------------------------------------------------------------------------
(* THE THREAD OF THE WIRE AT THE SENDING END                               *)

(* set_socket_provider has exchanged the socket.                           *)
Connect ==
  /\ phase = "offline" /\ state = "AsyncProcessing" /\ socket < MaxConns
  /\ socket' = socket + 1
  /\ phase' = "connecting"
  /\ UNCHANGED <<buffer, resent, link, target, overtaken>>

MaxOf(m, n) == IF m > n THEN m ELSE n

(* MUTANT: all that was sent is dropped.                                   *)
ReprocessDropsAll ==
  /\ phase = "connecting" /\ ~Processing
  /\ pending_queue' = <<>> /\ current_seqn' = max_sent_seqn + 1
  /\ phase' = "resuming" /\ resent' = 0
  /\ UNCHANGED <<data, queue, max_sent_seqn, acknowledged_seqn, interrupt_balance, state, thread,
                 puts, socket, link, target, overtaken>>

(* resume(), and reprocess() up to its second loop: what is acknowledged   *)
(* is no longer pending.                                                   *)
Reprocess ==
  /\ phase = "connecting" /\ ~Processing
  /\ LET first == MaxOf(current_seqn, acknowledged_seqn + 1) IN
     /\ pending_queue' = SubSeq(pending_queue, first - current_seqn + 1, Len(pending_queue))
     /\ current_seqn' = first
  /\ phase' = "resuming" /\ resent' = 0
  /\ UNCHANGED <<data, queue, max_sent_seqn, acknowledged_seqn, interrupt_balance, state, thread,
                 puts, socket, link, target, overtaken>>

Resend ==
  /\ Resuming /\ resent < Len(pending_queue)
  /\ Transmit(current_seqn + resent, pending_queue[resent + 1])
  /\ resent' = resent + 1
  /\ UNCHANGED <<buffer, socket, phase, target, overtaken>>

(* MUTANT: the rest is left for later.                                     *)
ResumeEarly ==
  /\ Resuming
  /\ UNCHANGED link
  /\ interrupt_balance' = 0
  /\ phase' = "receiving" /\ resent' = 0
  /\ UNCHANGED <<data, queue, pending_queue, seqns, state, thread, puts,
                 socket, target, overtaken>>

(* The end of resume(), which does not look at what reprocess() returns.   *)
Resumed ==
  /\ Resuming
  /\ (resent = Len(pending_queue) /\ UNCHANGED link) \/ SendFails
  /\ interrupt_balance' = 0
  /\ phase' = "receiving" /\ resent' = 0
  /\ UNCHANGED <<data, queue, pending_queue, seqns, state, thread, puts,
                 socket, target, overtaken>>

(* read_header reads an acknowledgement; acknowledge().                    *)
Acknowledge ==
  /\ phase = "receiving" /\ acks[socket] # <<>>
  /\ acknowledged_seqn' = MaxOf(acknowledged_seqn, Head(acks[socket]))
  /\ acks' = [acks EXCEPT ![socket] = Tail(@)]
  /\ UNCHANGED <<data, queue, pending_queue, max_sent_seqn, current_seqn, interrupt_balance,
                 state, thread, puts, sender, live, msgs, target, overtaken>>

(* receiverProc is over; pause("Disconnected") waits for process().        *)
Disconnected ==
  /\ phase = "receiving" /\ socket \notin live /\ acks[socket] = <<>>
  /\ ~Processing
  /\ interrupt_balance' = 1
  /\ phase' = "offline"
  /\ UNCHANGED <<data, queue, pending_queue, seqns, state, thread, puts,
                 socket, resent, link, target, overtaken>>

(* The lifetime of the wire ends: stop(), which first lets the thread send *)
(* what there is ...                                                       *)
Stop ==
  /\ state = "AsyncProcessing" /\ ~Resuming
  /\ state' = "Stopping"
  /\ UNCHANGED <<data, queue, pending_queue, seqns, interrupt_balance, thread, puts,
                 sender, link, target, overtaken>>

(* The connection c breaks, or is closed.                                  *)
Breaks(c) ==
  /\ live' = live \ {c}
  /\ \E k \in 0..Len(msgs[c]) : msgs' = [msgs EXCEPT ![c] = SubSeq(@, 1, k)]
  /\ \E k \in 0..Len(acks[c]) : acks' = [acks EXCEPT ![c] = SubSeq(@, 1, k)]

(* ... and, when it has ended or the time is up, terminates it and closes  *)
(* the socket.                                                             *)
Terminate ==
  /\ state = "Stopping" /\ ~Resuming
  /\ state' = "Terminated"
  /\ IF socket = 0 THEN UNCHANGED link ELSE Breaks(socket)
  /\ UNCHANGED <<data, queue, pending_queue, seqns, interrupt_balance, thread, puts,
                 sender, target, overtaken>>

-----------------------------------------------------------------------------
(* THE SOCKETS AND THE RECEIVING END                                       *)

(* External: a connection breaks.                                          *)
Break(c) ==
  /\ c \in live /\ c < MaxConns /\ (socket = c \/ peer = c)
  /\ Breaks(c)
  /\ UNCHANGED <<buffer, sender, target, overtaken>>

PeerConnects ==
  /\ ~reading /\ peer < MaxConns
  /\ peer' = peer + 1 /\ reading' = TRUE
  /\ UNCHANGED <<buffer, sender, link, max_received_seqn, torn, dispatched, overtaken>>

(* send_ack                                                                *)
SendAck(seqn) ==
  acks' = IF peer \in live THEN [acks EXCEPT ![peer] = Append(@, seqn)] ELSE acks

(* MUTANT: no check for what was received already.                         *)
ReadPackageAgain ==
  /\ reading /\ msgs[peer] # <<>>
  /\ LET m == Head(msgs[peer]) IN
     /\ msgs' = [msgs EXCEPT ![peer] = Tail(@)]
     /\ SendAck(m.seqn)
     /\ max_received_seqn' = m.seqn
     /\ dispatched' = IF torn THEN dispatched ELSE Append(dispatched, m.body)
     /\ UNCHANGED torn
  /\ UNCHANGED <<buffer, sender, live, peer, reading, overtaken>>

(* MUTANT: the acknowledgement names the next number.                      *)
ReadPackageAcksNext ==
  /\ reading /\ msgs[peer] # <<>>
  /\ LET m == Head(msgs[peer]) IN
     /\ msgs' = [msgs EXCEPT ![peer] = Tail(@)]
     /\ SendAck(IF m.seqn < puts THEN m.seqn + 1 ELSE m.seqn)
     /\ max_received_seqn' = m.seqn
     /\ dispatched' = IF torn THEN dispatched ELSE Append(dispatched, m.body)
     /\ UNCHANGED torn
  /\ UNCHANGED <<buffer, sender, live, peer, reading, overtaken>>

(* read_package: a number that is not above max_received_seqn, and not 1,  *)
(* was received before.  The package is acknowledged, and "return true"    *)
(* then gives the stream one byte of it: from there on the stream is read  *)
(* at wrong places and no message is dispatched as it was sent.            *)
ReadPackage ==
  /\ reading /\ msgs[peer] # <<>>
  /\ LET m == Head(msgs[peer]) IN
     /\ msgs' = [msgs EXCEPT ![peer] = Tail(@)]
     /\ SendAck(m.seqn)
     /\ IF m.seqn <= max_received_seqn /\ m.seqn # 1
        THEN torn' = TRUE /\ UNCHANGED <<max_received_seqn, dispatched>>
        ELSE /\ max_received_seqn' = m.seqn
             /\ dispatched' = IF torn THEN dispatched ELSE Append(dispatched, m.body)
             /\ UNCHANGED torn
  /\ UNCHANGED <<buffer, sender, live, peer, reading, overtaken>>

PeerDisconnected ==
  /\ reading /\ peer \notin live /\ msgs[peer] = <<>>
  /\ reading' = FALSE
  /\ UNCHANGED <<buffer, sender, link, peer, max_received_seqn, torn, dispatched, overtaken>>

-----------------------------------------------------------------------------
AsyncThread == Take \/ ThreadEnds \/ Process \/ Send \/ Record \/ ProcessEnds
WireThread  == Connect \/ Reprocess \/ Resend \/ Resumed \/ Acknowledge \/ Disconnected
PeerThread  == PeerConnects \/ ReadPackage \/ PeerDisconnected

Next ==
  \/ Put \/ Stop \/ Terminate
  \/ AsyncThread
  \/ WireThread
  \/ PeerThread
  \/ \E c \in Conns : Break(c)

Spec == Init /\ [][Next]_vars

(* Threads that can run do; the ends connect again and again.  Nothing is  *)
(* assumed of those who put messages, of Stop, or of connections, except   *)
(* that the last one does not break.                                       *)
FairSpec ==
  Spec /\ WF_vars(AsyncThread) /\ WF_vars(WireThread) /\ WF_vars(PeerThread)

-----------------------------------------------------------------------------
(* PROPERTIES *)

Consecutive(s, first) == \A i \in 1..Len(s) : s[i] = first + i - 1

(* Whatever the order of puts, failed sends, pauses and resumes, what is   *)
(* pending, queued and put forms one sequence without gap or repetition,   *)
(* and a pending message keeps the number it was first sent with.          *)
Bookkeeping ==
  /\ max_sent_seqn = current_seqn + Len(pending_queue) - 1
  /\ puts = max_sent_seqn + Len(queue) + Len(data)
  /\ Consecutive(pending_queue, current_seqn)
  /\ Consecutive(queue, max_sent_seqn + 1)
  /\ Consecutive(data, max_sent_seqn + Len(queue) + 1)

(* An acknowledgement can arrive before the message is recorded as sent;   *)
(* yet reprocess(), which pops a pending message for each acknowledged     *)
(* number, never pops an empty queue.                                      *)
PopsPending ==
  /\ acknowledged_seqn <= max_sent_seqn + 1
  /\ acknowledged_seqn > max_sent_seqn => thread = "sent"

(* A message that is acknowledged, and may therefore be forgotten by the   *)
(* sender, was dispatched, unless the thread was late (then one sent after *)
(* it hid it) or the receiver's stream is torn.                            *)
ForgottenIsDispatched ==
  ~overtaken /\ ~torn =>
    \A n \in 1..acknowledged_seqn : \E i \in DOMAIN dispatched : dispatched[i] = n

(* Through all reconnections the receiver dispatches no message before the *)
(* one put before it: only the very first can come again, and then all     *)
(* that follow it do.                                                      *)
InOrder ==
  ~overtaken =>
    \A i \in DOMAIN dispatched :
      dispatched[i] = 1 \/ (i > 1 /\ dispatched[i] = dispatched[i - 1] + 1)

(* A message that was sent is acknowledged, however many connections break *)
(* on the way, unless the wire is stopped.                                 *)
SentIsAcknowledged ==
  \A n \in 1..MaxPuts :
    (max_sent_seqn >= n) ~> (acknowledged_seqn >= n \/ state # "AsyncProcessing")

(* acknowledge(): "next seqn MUST BE greater".                             *)
AcksGrow == [][Acknowledge => Head(acks[socket]) > acknowledged_seqn]_vars

(* The sending end implements the outbox.  A message counts as sent when   *)
(* send0 has sent it, before it is recorded.                               *)
Sent == IF thread = "sent" THEN max_sent_seqn + 1 ELSE max_sent_seqn

Promised == INSTANCE Outbox WITH
  put <- puts, sent <- Sent, acknowledged <- acknowledged_seqn, dropped <- current_seqn - 1

ImplementsOutbox == Promised!OutboxSpec
=============================================================================
