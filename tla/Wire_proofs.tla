---------------------------- MODULE Wire_proofs ----------------------------
(* Proofs about Wire, for any number of messages and of connections.       *)
EXTENDS Wire, SequenceTheorems, TLAPS

Numbers == 1..MaxPuts

-----------------------------------------------------------------------------
(* CONSECUTIVE NUMBERS *)

LEMMA ConsecutiveAppend ==
  ASSUME NEW s \in Seq(Int), NEW f \in Int, Consecutive(s, f)
  PROVE  Consecutive(Append(s, f + Len(s)), f)
BY AppendProperties DEF Consecutive

LEMMA ConsecutiveConcat ==
  ASSUME NEW s \in Seq(Int), NEW t \in Seq(Int), NEW f \in Int,
         Consecutive(s, f), Consecutive(t, f + Len(s))
  PROVE  Consecutive(s \o t, f)
BY ConcatProperties DEF Consecutive

LEMMA ConsecutiveTail ==
  ASSUME NEW s \in Seq(Int), NEW f \in Int, Consecutive(s, f), s # <<>>
  PROVE  Head(s) = f /\ Consecutive(Tail(s), f + 1)
BY HeadTailProperties, EmptySeq DEF Consecutive

LEMMA ConsecutiveSuffix ==
  ASSUME NEW s \in Seq(Int), NEW f \in Int, Consecutive(s, f), NEW k \in 0..Len(s)
  PROVE  /\ Len(SubSeq(s, k + 1, Len(s))) = Len(s) - k
         /\ Consecutive(SubSeq(s, k + 1, Len(s)), f + k)
BY SubSeqProperties DEF Consecutive

-----------------------------------------------------------------------------
(* THE INVARIANT *)

(* Nothing is under way that was not sent.                                 *)
Underway ==
  /\ msgs \in [Conns -> Seq([seqn : 1..Sent, body : Numbers])]
  /\ acks \in [Conns -> Seq(1..Sent)]

(* The locks keep process() and reprocess() apart, and each end has a      *)
(* socket while it uses one.                                               *)
Threads ==
  /\ Resuming => ~Processing
  /\ thread = "sent" => queue # <<>>
  /\ resent <= Len(pending_queue)
  /\ phase # "offline" => socket \in Conns
  /\ reading => peer \in Conns

WireInv ==
  /\ TypeOK
  /\ Bookkeeping
  /\ PopsPending
  /\ current_seqn - 1 <= acknowledged_seqn
  /\ Underway
  /\ Threads

LEMMA InitWireInv == Init => WireInv
<1> SUFFICES ASSUME Init PROVE WireInv
  OBVIOUS
<1> USE WireAssumption DEF Init
<1>1. /\ <<>> \in Seq(1..MaxPuts) /\ <<>> \in Seq(Package)
      /\ <<>> \in Seq([seqn : 1..Sent, body : Numbers]) /\ <<>> \in Seq(1..Sent)
      /\ Len(<<>>) = 0
  BY EmptySeq
<1>2. TypeOK
  <2>1. msgs \in [Conns -> Seq(Package)] /\ acks \in [Conns -> Seq(1..MaxPuts)]
    BY <1>1
  <2>2. /\ max_sent_seqn \in 0..MaxPuts /\ acknowledged_seqn \in 0..MaxPuts
        /\ current_seqn \in 1..MaxPuts + 1 /\ interrupt_balance \in {0, 1}
        /\ socket \in 0..MaxConns /\ peer \in 0..MaxConns /\ resent \in 0..MaxPuts
        /\ max_received_seqn \in 0..MaxPuts /\ puts \in 0..MaxPuts
    OBVIOUS
  <2>3. /\ state \in {"AsyncProcessing", "Stopping", "Terminated"}
        /\ thread \in {"waiting", "taken", "sending", "sent", "ended"}
        /\ phase \in {"offline", "connecting", "resuming", "receiving"}
        /\ live \subseteq Conns
        /\ reading \in BOOLEAN /\ torn \in BOOLEAN /\ overtaken \in BOOLEAN
    OBVIOUS
  <2> QED BY <1>1, <2>1, <2>2, <2>3 DEF TypeOK
<1>3. Bookkeeping
  BY <1>1 DEF Bookkeeping, Consecutive
<1>4. Underway
  BY <1>1 DEF Underway
<1> QED
  BY <1>1, <1>2, <1>3, <1>4 DEF WireInv, PopsPending, Threads, Resuming

(* The steps that leave the buffer alone.                                  *)
LEMMA LeavesBuffer ==
  ASSUME Connect \/ Resend \/ PeerThread \/ (\E c \in Conns : Break(c)) \/ UNCHANGED vars
  PROVE  UNCHANGED buffer
BY DEF Connect, Resend, PeerThread, PeerConnects, ReadPackage, PeerDisconnected, Break, vars

LEMMA StepBookkeeping ==
  ASSUME WireInv, [Next]_vars
  PROVE  Bookkeeping'
<1>i. TypeOK /\ Bookkeeping /\ PopsPending /\ Threads
  BY DEF WireInv
<1>0. /\ data \in Seq(Int) /\ queue \in Seq(Int) /\ pending_queue \in Seq(Int)
      /\ puts \in Int /\ max_sent_seqn \in Int /\ current_seqn \in Int /\ acknowledged_seqn \in Int
      /\ Len(data) \in Nat /\ Len(queue) \in Nat /\ Len(pending_queue) \in Nat
  <2>1. 1..MaxPuts \subseteq Int
    OBVIOUS
  <2>2. data \in Seq(Int) /\ queue \in Seq(Int) /\ pending_queue \in Seq(Int)
    BY <1>i, <2>1, SeqMonotonic DEF TypeOK
  <2>3. Len(data) \in Nat /\ Len(queue) \in Nat /\ Len(pending_queue) \in Nat
    BY <2>2, LenProperties
  <2> QED BY <1>i, <2>2, <2>3, WireAssumption DEF TypeOK
<1>1. CASE UNCHANGED buffer
  BY <1>i, <1>1 DEF buffer, seqns, Bookkeeping
<1>2. CASE Put
  <2>1. data' = Append(data, max_sent_seqn + Len(queue) + 1 + Len(data))
    BY <1>i, <1>0, <1>2 DEF Put, Bookkeeping
  <2>2. Consecutive(data', max_sent_seqn + Len(queue) + 1)
    BY <1>i, <1>0, <2>1, ConsecutiveAppend DEF Bookkeeping
  <2>3. Len(data') = Len(data) + 1
    BY <1>0, <2>1, AppendProperties
  <2>4. UNCHANGED <<queue, pending_queue, max_sent_seqn, current_seqn>> /\ puts' = puts + 1
    BY <1>2 DEF Put, seqns
  <2> QED BY <1>i, <1>0, <2>2, <2>3, <2>4 DEF Bookkeeping
<1>3. CASE Take
  <2>1. Consecutive(queue', max_sent_seqn + 1) /\ Len(queue') = Len(queue) + Len(data)
    BY <1>i, <1>0, <1>3, ConsecutiveConcat, ConcatProperties DEF Take, Bookkeeping
  <2> QED BY <1>i, <1>0, <1>3, <2>1, EmptySeq DEF Take, seqns, Bookkeeping, Consecutive
<1>4. CASE Record
  <2>1. queue # <<>>
    BY <1>i, <1>4 DEF Record, Threads
  <2>2. /\ Head(queue) = max_sent_seqn + 1 /\ Consecutive(Tail(queue), max_sent_seqn + 2)
        /\ Len(Tail(queue)) = Len(queue) - 1
    BY <1>i, <1>0, <2>1, ConsecutiveTail, HeadTailProperties DEF Bookkeeping
  <2>3. /\ Consecutive(pending_queue', current_seqn)
        /\ Len(pending_queue') = Len(pending_queue) + 1
    BY <1>i, <1>0, <1>4, <2>2, ConsecutiveAppend, AppendProperties DEF Record, Bookkeeping
  <2>4. UNCHANGED <<data, current_seqn, puts>> /\ queue' = Tail(queue)
    BY <1>4 DEF Record
  <2>5. max_sent_seqn' = max_sent_seqn + 1 /\ Len(queue') = Len(queue) - 1
    BY <1>4, <2>2, <2>4 DEF Record
  <2>6. /\ max_sent_seqn' + 1 = max_sent_seqn + 2
        /\ max_sent_seqn' + Len(queue') + 1 = max_sent_seqn + Len(queue) + 1
    BY <1>0, <2>5
  <2>7. /\ Consecutive(queue', max_sent_seqn' + 1)
        /\ Consecutive(data', max_sent_seqn' + Len(queue') + 1)
    BY <1>i, <2>2, <2>4, <2>6 DEF Bookkeeping
  <2>8. /\ max_sent_seqn' = current_seqn + Len(pending_queue') - 1
        /\ puts = max_sent_seqn' + Len(queue') + Len(data)
    BY <1>i, <1>0, <2>3, <2>5 DEF Bookkeeping
  <2> QED BY <2>3, <2>4, <2>7, <2>8 DEF Bookkeeping
<1>5. CASE Reprocess
  <2>1. acknowledged_seqn <= max_sent_seqn
    BY <1>i, <1>0, <1>5 DEF Reprocess, PopsPending, Processing
  <2> DEFINE k == current_seqn' - current_seqn
  <2>2. k \in 0..Len(pending_queue) /\ current_seqn' = current_seqn + k
    BY <1>i, <1>0, <1>5, <2>1 DEF Reprocess, MaxOf, Bookkeeping
  <2>3. pending_queue' = SubSeq(pending_queue, k + 1, Len(pending_queue))
    BY <1>5 DEF Reprocess
  <2> HIDE DEF k
  <2>4. Len(pending_queue') = Len(pending_queue) - k /\ Consecutive(pending_queue', current_seqn')
    BY <1>i, <1>0, <2>2, <2>3, ConsecutiveSuffix DEF Bookkeeping
  <2>5. UNCHANGED <<data, queue, max_sent_seqn, puts>>
    BY <1>5 DEF Reprocess
  <2>6. max_sent_seqn' = current_seqn' + Len(pending_queue') - 1
    BY <1>i, <1>0, <2>2, <2>4, <2>5 DEF Bookkeeping
  <2> QED BY <1>i, <2>4, <2>5, <2>6 DEF Bookkeeping
<1>6. CASE Acknowledge
  BY <1>i, <1>6 DEF Acknowledge, Bookkeeping
<1>7. CASE Stop \/ Terminate \/ ThreadEnds \/ Process \/ Send \/ ProcessEnds \/ Resumed \/ Disconnected
  BY <1>i, <1>7 DEF Stop, Terminate, ThreadEnds, Process, Send, ProcessEnds, Resumed, Disconnected,
              seqns, Bookkeeping
<1> QED
  BY <1>1, <1>2, <1>3, <1>4, <1>5, <1>6, <1>7, LeavesBuffer DEF Next, AsyncThread, WireThread
-----------------------------------------------------------------------------
(* TYPES *)

LEMMA StepSequences ==
  ASSUME WireInv, [Next]_vars
  PROVE  data' \in Seq(1..MaxPuts) /\ queue' \in Seq(1..MaxPuts) /\ pending_queue' \in Seq(1..MaxPuts)
         /\ puts' \in 0..MaxPuts
<1>i. TypeOK /\ Threads /\ WireAssumption
  BY WireAssumption DEF WireInv
<1>1. CASE UNCHANGED buffer
  BY <1>i, <1>1 DEF buffer, TypeOK
<1>2. CASE Put
  <2>1. puts + 1 \in 1..MaxPuts
    BY <1>i, <1>2 DEF Put, TypeOK
  <2>2. data' \in Seq(1..MaxPuts)
    BY <1>i, <1>2, <2>1, AppendProperties DEF Put, TypeOK
  <2> QED BY <1>i, <1>2, <2>1, <2>2 DEF Put, TypeOK
<1>3. CASE Take
  <2>1. queue' \in Seq(1..MaxPuts)
    BY <1>i, <1>3, ConcatProperties DEF Take, TypeOK
  <2> QED BY <1>i, <1>3, <2>1, EmptySeq DEF Take, TypeOK
<1>4. CASE Record
  <2>1. Head(queue) \in 1..MaxPuts /\ Tail(queue) \in Seq(1..MaxPuts)
    BY <1>i, <1>4, HeadTailProperties DEF Record, TypeOK, Threads
  <2>2. pending_queue' \in Seq(1..MaxPuts)
    BY <1>i, <1>4, <2>1, AppendProperties DEF Record, TypeOK
  <2> QED BY <1>i, <1>4, <2>1, <2>2 DEF Record, TypeOK
<1>5. CASE Reprocess
  <2> DEFINE m == MaxOf(current_seqn, acknowledged_seqn + 1) - current_seqn + 1
  <2>1. m \in Int /\ m >= 1
    BY <1>i DEF MaxOf, TypeOK
  <2>2. pending_queue' = SubSeq(pending_queue, m, Len(pending_queue))
    BY <1>5 DEF Reprocess
  <2> HIDE DEF m
  <2>3. Len(pending_queue) \in Nat /\ \A i \in m..Len(pending_queue) : pending_queue[i] \in 1..MaxPuts
    <3>1. Len(pending_queue) \in Nat
      BY <1>i, LenProperties DEF TypeOK
    <3>2. \A i \in 1..Len(pending_queue) : pending_queue[i] \in 1..MaxPuts
      BY <1>i, ElementOfSeq DEF TypeOK
    <3> QED BY <2>1, <3>1, <3>2
  <2>4. pending_queue' \in Seq(1..MaxPuts)
    BY <2>1, <2>2, <2>3, SubSeqProperties
  <2> QED BY <1>i, <1>5, <2>4 DEF Reprocess, TypeOK
<1>6. CASE Acknowledge
  BY <1>i, <1>6 DEF Acknowledge, TypeOK
<1>7. CASE Stop \/ Terminate \/ ThreadEnds \/ Process \/ Send \/ ProcessEnds \/ Resumed \/ Disconnected
  BY <1>i, <1>7 DEF Stop, Terminate, ThreadEnds, Process, Send, ProcessEnds, Resumed, Disconnected, TypeOK
<1> QED
  BY <1>1, <1>2, <1>3, <1>4, <1>5, <1>6, <1>7, LeavesBuffer DEF Next, AsyncThread, WireThread

(* The numbers follow from the bookkeeping.                                *)
LEMMA StepNumbers ==
  ASSUME WireInv, [Next]_vars
  PROVE  /\ max_sent_seqn' \in 0..MaxPuts /\ acknowledged_seqn' \in 0..MaxPuts
         /\ current_seqn' \in 1..MaxPuts + 1
<1>i. TypeOK /\ Threads /\ WireAssumption
  BY WireAssumption DEF WireInv
<1>1. /\ Len(data') \in Nat /\ Len(queue') \in Nat /\ Len(pending_queue') \in Nat
      /\ puts' \in 0..MaxPuts
  BY StepSequences, LenProperties
<1>2. /\ max_sent_seqn' = current_seqn' + Len(pending_queue') - 1
      /\ puts' = max_sent_seqn' + Len(queue') + Len(data')
  BY StepBookkeeping DEF Bookkeeping
<1>3. current_seqn' \in Int /\ current_seqn' >= 1
  <2>1. CASE Reprocess
    BY <1>i, <2>1 DEF Reprocess, MaxOf, TypeOK
  <2>2. CASE UNCHANGED current_seqn
    BY <1>i, <2>2 DEF TypeOK
  <2>3. CASE UNCHANGED buffer
    BY <2>2, <2>3 DEF buffer, seqns
  <2> QED
    BY <2>1, <2>2, <2>3, LeavesBuffer
    DEF Next, AsyncThread, WireThread, Put, Stop, Terminate, Take, ThreadEnds, Process, Send, Record,
        ProcessEnds, Resumed, Acknowledge, Disconnected, seqns
<1>4. max_sent_seqn' \in Int
  BY <1>1, <1>2, <1>3
<1>5. acknowledged_seqn' \in 0..MaxPuts
  <2>1. CASE Acknowledge
    <3>1. socket \in Conns
      BY <1>i, <2>1 DEF Acknowledge, Threads
    <3>2. Head(acks[socket]) \in 1..MaxPuts
      BY <1>i, <2>1, <3>1, HeadTailProperties DEF Acknowledge, TypeOK
    <3> QED BY <1>i, <2>1, <3>2 DEF Acknowledge, MaxOf, TypeOK
  <2>2. CASE UNCHANGED acknowledged_seqn
    BY <1>i, <2>2 DEF TypeOK
  <2>3. CASE UNCHANGED buffer
    BY <2>2, <2>3 DEF buffer, seqns
  <2> QED
    BY <2>1, <2>2, <2>3, LeavesBuffer
    DEF Next, AsyncThread, WireThread, Put, Stop, Terminate, Take, ThreadEnds, Process, Send, Record,
        ProcessEnds, Resumed, Reprocess, Disconnected, seqns
<1> QED BY <1>i, <1>1, <1>2, <1>3, <1>4, <1>5
Control ==
  /\ interrupt_balance \in {0, 1}
  /\ state \in {"AsyncProcessing", "Stopping", "Terminated"}
  /\ thread \in {"waiting", "taken", "sending", "sent", "ended"}
  /\ socket \in 0..MaxConns /\ peer \in 0..MaxConns
  /\ phase \in {"offline", "connecting", "resuming", "receiving"}
  /\ live \subseteq Conns
  /\ reading \in BOOLEAN /\ torn \in BOOLEAN /\ overtaken \in BOOLEAN

LEMMA StepControl ==
  ASSUME WireInv, [Next]_vars
  PROVE  Control'
<1>i. Control /\ MaxConns \in Nat
  BY WireAssumption DEF WireInv, TypeOK, Control
<1> USE DEF Control
<1>1. CASE Put \/ Take \/ ThreadEnds \/ Process \/ Record \/ Stop
  BY <1>i, <1>1 DEF Put, Take, ThreadEnds, Process, Record, Stop, sender, link, target
<1>2. CASE Send \/ ProcessEnds
  BY <1>i, <1>2 DEF Send, ProcessEnds, Transmit, SendFails, sender, link, target
<1>3. CASE Connect
  BY <1>i, <1>3 DEF Connect, buffer, link, target
<1>4. CASE Reprocess \/ Resumed \/ Acknowledge \/ Disconnected
  BY <1>i, <1>4 DEF Reprocess, Resumed, Acknowledge, Disconnected, SendFails, sender, link, target
<1>5. CASE Resend
  BY <1>i, <1>5 DEF Resend, Transmit, buffer, target
<1>6. CASE Terminate
  BY <1>i, <1>6 DEF Terminate, Breaks, sender, link, target
<1>7. CASE \E c \in Conns : Break(c)
  BY <1>i, <1>7 DEF Break, Breaks, buffer, sender, target
<1>8. CASE PeerConnects
  BY <1>i, <1>8 DEF PeerConnects, buffer, sender, link
<1>9. CASE ReadPackage
  <2>1. UNCHANGED <<buffer, sender, live, peer, reading, overtaken>> /\ (torn' = TRUE \/ UNCHANGED torn)
    BY <1>9 DEF ReadPackage
  <2> QED BY <1>i, <2>1 DEF buffer, sender
<1>10. CASE PeerDisconnected
  BY <1>i, <1>10 DEF PeerDisconnected, buffer, sender, link
<1>11. CASE UNCHANGED vars
  BY <1>i, <1>11 DEF vars, buffer, sender, link, target
<1> QED
  BY <1>1, <1>2, <1>3, <1>4, <1>5, <1>6, <1>7, <1>8, <1>9, <1>10, <1>11
  DEF Next, AsyncThread, WireThread, PeerThread

LEMMA StepThreads ==
  ASSUME WireInv, [Next]_vars
  PROVE  Threads' /\ resent' \in Nat
<1>i. Threads /\ Len(pending_queue) \in Nat /\ resent \in Nat /\ socket \in Nat /\ peer \in Nat /\ MaxConns \in Nat
  BY WireAssumption, LenProperties DEF WireInv, TypeOK
<1>n. Len(pending_queue') \in Nat
  BY StepSequences, LenProperties
<1> USE DEF Threads, Resuming, Processing
<1>1. CASE Put \/ ThreadEnds \/ Process \/ Stop \/ Terminate
  BY <1>i, <1>1 DEF Put, ThreadEnds, Process, Stop, Terminate, sender, target
<1>2. CASE Send \/ ProcessEnds
  BY <1>i, <1>2 DEF Send, ProcessEnds, sender, target
<1>3. CASE Take
  BY <1>i, <1>3 DEF Take, sender, target
<1>4. CASE Record
  <2>1. Len(pending_queue') = Len(pending_queue) + 1
    BY <1>4, HeadTailProperties, AppendProperties DEF Record, WireInv, TypeOK
  <2> QED BY <1>i, <1>4, <2>1 DEF Record, sender, target
<1>5. CASE Connect
  BY <1>i, <1>5 DEF Connect, buffer, target, Conns
<1>6. CASE Reprocess
  <2>1. resent' = 0 /\ UNCHANGED <<thread, queue, socket, reading, peer>>
    BY <1>6 DEF Reprocess, target
  <2>2. ~Processing' /\ socket' \in Conns
    BY <1>i, <1>6, <2>1 DEF Reprocess
  <2> QED BY <1>i, <1>n, <2>1, <2>2
<1>7. CASE Resumed \/ Acknowledge \/ Disconnected
  BY <1>i, <1>7 DEF Resumed, Acknowledge, Disconnected, sender, target
<1>8. CASE Resend
  BY <1>i, <1>8 DEF Resend, buffer, target
<1>9. CASE \E c \in Conns : Break(c)
  BY <1>i, <1>9 DEF Break, buffer, sender, target
<1>10. CASE PeerConnects
  BY <1>i, <1>10 DEF PeerConnects, buffer, sender, Conns
<1>11. CASE ReadPackage \/ PeerDisconnected
  BY <1>i, <1>11 DEF ReadPackage, PeerDisconnected, buffer, sender
<1>12. CASE UNCHANGED vars
  BY <1>i, <1>12 DEF vars, buffer, sender, target
<1> QED
  BY <1>1, <1>2, <1>3, <1>4, <1>5, <1>6, <1>7, <1>8, <1>9, <1>10, <1>11, <1>12
  DEF Next, AsyncThread, WireThread, PeerThread

-----------------------------------------------------------------------------
(* WHAT IS UNDER WAY *)

(* What counts as sent grows, and stays below what was put.                *)
LEMMA SentGrows ==
  ASSUME WireInv, [Next]_vars
  PROVE  /\ Sent \in Nat /\ Sent' \in Nat /\ Sent <= Sent' /\ Sent' <= MaxPuts
         /\ Send => Sent' = max_sent_seqn + 1
<1>1. max_sent_seqn \in Nat /\ max_sent_seqn' \in Nat /\ MaxPuts \in Nat
  BY StepNumbers, WireAssumption DEF WireInv, TypeOK
<1>0. /\ \A m \in Nat : m + 1 \in Nat
      /\ \A m, q, d, p \in Nat : p = m + q + d /\ p <= MaxPuts /\ q > 0 => m + 1 <= MaxPuts
  BY <1>1
<1>2. Sent' <= MaxPuts
  <2>1. /\ puts' = max_sent_seqn' + Len(queue') + Len(data') /\ puts' \in 0..MaxPuts
        /\ puts' \in Nat /\ puts' <= MaxPuts /\ Len(queue') \in Nat /\ Len(data') \in Nat
    BY StepBookkeeping, StepSequences, LenProperties DEF Bookkeeping
  <2>2. thread' = "sent" => Len(queue') > 0
    BY StepThreads, StepSequences, EmptySeq DEF Threads
  <2>3. max_sent_seqn' <= MaxPuts
    BY <1>1, <2>1
  <2>4. ASSUME thread' = "sent" PROVE max_sent_seqn' + 1 <= MaxPuts
    <3>1. Len(queue') > 0
      BY <2>2, <2>4
    <3> QED BY <1>0, <1>1, <2>1, <3>1
  <2> QED BY <2>3, <2>4 DEF Sent
<1>3. Sent <= Sent'
  <2>1. CASE Record
    BY <1>1, <2>1 DEF Record, Sent
  <2>2. CASE UNCHANGED max_sent_seqn /\ thread # "sent"
    BY <1>1, <2>2 DEF Sent
  <2>3. CASE UNCHANGED <<max_sent_seqn, thread>>
    BY <1>1, <2>3 DEF Sent
  <2>4. CASE UNCHANGED buffer
    BY <2>3, <2>4 DEF buffer, seqns
  <2> QED
    BY <2>1, <2>2, <2>3, <2>4, LeavesBuffer
    DEF Next, AsyncThread, WireThread, Put, Stop, Terminate, Take, ThreadEnds, Process, Send,
        ProcessEnds, Reprocess, Resumed, Acknowledge, Disconnected, seqns
<1>4. Send => Sent' = max_sent_seqn + 1
  BY DEF Send, Sent, seqns
<1>5. Sent \in Nat
  BY <1>1 DEF Sent
<1>6. Sent' \in Nat
  BY <1>0, <1>1 DEF Sent
<1> QED BY <1>2, <1>3, <1>4, <1>5, <1>6
(* A longer range only makes room.                                         *)
LEMMA Widen ==
  ASSUME NEW m \in Nat, NEW n \in Nat, m <= n
  PROVE  /\ \A s \in Seq(1..m) : s \in Seq(1..n)
         /\ \A s \in Seq([seqn : 1..m, body : Numbers]) : s \in Seq([seqn : 1..n, body : Numbers])
<1>1. 1..m \subseteq 1..n /\ [seqn : 1..m, body : Numbers] \subseteq [seqn : 1..n, body : Numbers]
  OBVIOUS
<1> QED BY <1>1, SeqMonotonic

LEMMA Prefix ==
  ASSUME NEW S, NEW s \in Seq(S), NEW k \in 0..Len(s)
  PROVE  SubSeq(s, 1, k) \in Seq(S)
<1>1. Len(s) \in Nat /\ \A i \in 1..Len(s) : s[i] \in S
  BY LenProperties, ElementOfSeq
<1>2. \A i \in 1..k : s[i] \in S
  BY <1>1
<1> QED BY <1>1, <1>2, SubSeqProperties

(* Channels keep their types when they are read, cut or written.           *)
LEMMA ChannelKeeps ==
  ASSUME NEW S, NEW f \in [Conns -> Seq(S)], NEW c \in Conns
  PROVE  /\ f[c] # <<>> => Head(f[c]) \in S /\ [f EXCEPT ![c] = Tail(@)] \in [Conns -> Seq(S)]
         /\ \A k \in 0..Len(f[c]) : [f EXCEPT ![c] = SubSeq(@, 1, k)] \in [Conns -> Seq(S)]
         /\ \A e \in S : [f EXCEPT ![c] = Append(@, e)] \in [Conns -> Seq(S)]
BY HeadTailProperties, AppendProperties, Prefix

LEMMA StepUnderway ==
  ASSUME WireInv, [Next]_vars
  PROVE  Underway'
<1> DEFINE P == [seqn : 1..Sent', body : Numbers]
           A == 1..Sent'
<1>i. TypeOK /\ Threads /\ Bookkeeping
  BY DEF WireInv
<1>g. Sent \in Nat /\ Sent' \in Nat /\ Sent <= Sent'
  BY SentGrows
<1>1. msgs \in [Conns -> Seq(P)] /\ acks \in [Conns -> Seq(A)]
  <2>1. msgs \in [Conns -> Seq([seqn : 1..Sent, body : Numbers])] /\ acks \in [Conns -> Seq(1..Sent)]
    BY DEF WireInv, Underway
  <2> QED BY <1>g, <2>1, Widen
<1> SUFFICES msgs' \in [Conns -> Seq(P)] /\ acks' \in [Conns -> Seq(A)]
  BY DEF Underway
<1>n. max_sent_seqn \in Nat /\ Sent >= max_sent_seqn
  BY <1>i DEF TypeOK, Sent
<1>2. CASE UNCHANGED link
  BY <1>1, <1>2 DEF link
<1>3. CASE Send
  <2>1. Sent' = max_sent_seqn + 1 /\ max_sent_seqn + 1 \in A
    BY <1>3, <1>g, <1>n, SentGrows
  <2>2. Head(queue) \in Numbers
    BY <1>i, <1>3, HeadTailProperties DEF Send, TypeOK, Numbers
  <2>3. [seqn |-> max_sent_seqn + 1, body |-> Head(queue)] \in P
    BY <2>1, <2>2
  <2>4. socket \in Conns
    BY <1>i, <1>3 DEF Send, Transmit, TypeOK, Conns
  <2> DEFINE e == [seqn |-> max_sent_seqn + 1, body |-> Head(queue)]
  <2>5. UNCHANGED acks /\ (UNCHANGED msgs \/ msgs' = [msgs EXCEPT ![socket] = Append(@, e)])
    BY <1>3 DEF Send, Transmit
  <2> HIDE DEF e
  <2>6. e \in P
    BY <2>3 DEF e
  <2> HIDE DEF P
  <2> HIDE DEF A
  <2>a. [msgs EXCEPT ![socket] = Append(@, e)] \in [Conns -> Seq(P)]
    BY <1>1, <2>4, <2>6, ChannelKeeps
  <2> QED BY <1>1, <2>5, <2>a
<1>4. CASE Resend
  <2>1. socket \in Conns /\ resent \in Nat /\ resent < Len(pending_queue) /\ Len(pending_queue) \in Nat
    BY <1>i, <1>4, LenProperties DEF Resend, Resuming, Threads, TypeOK
  <2>2. current_seqn + resent \in 1..Sent
    BY <1>i, <1>g, <1>n, <2>1 DEF Bookkeeping, TypeOK
  <2>3. current_seqn + resent \in A
    BY <1>g, <2>2
  <2>4. pending_queue[resent + 1] \in Numbers
    <3>1. resent + 1 \in 1..Len(pending_queue)
      BY <2>1
    <3>2. pending_queue \in Seq(Numbers)
      BY <1>i DEF TypeOK, Numbers
    <3> QED BY <3>1, <3>2, ElementOfSeq
  <2>5. [seqn |-> current_seqn + resent, body |-> pending_queue[resent + 1]] \in P
    BY <2>3, <2>4
  <2> DEFINE e == [seqn |-> current_seqn + resent, body |-> pending_queue[resent + 1]]
  <2>6. UNCHANGED acks /\ (UNCHANGED msgs \/ msgs' = [msgs EXCEPT ![socket] = Append(@, e)])
    BY <1>4 DEF Resend, Transmit
  <2> HIDE DEF e
  <2>7. e \in P
    BY <2>5 DEF e
  <2> HIDE DEF P
  <2> HIDE DEF A
  <2>a. [msgs EXCEPT ![socket] = Append(@, e)] \in [Conns -> Seq(P)]
    BY <1>1, <2>1, <2>7, ChannelKeeps
  <2> QED BY <1>1, <2>6, <2>a
<1>5. CASE Acknowledge
  <2>1. socket \in Conns
    BY <1>i, <1>5 DEF Acknowledge, Threads
  <2> QED BY <1>1, <1>5, <2>1, ChannelKeeps DEF Acknowledge
<1>6. ASSUME NEW c \in Conns, Breaks(c)
      PROVE  msgs' \in [Conns -> Seq(P)] /\ acks' \in [Conns -> Seq(A)]
  <2> HIDE DEF P
  <2>1. PICK k \in 0..Len(msgs[c]) : msgs' = [msgs EXCEPT ![c] = SubSeq(@, 1, k)]
    BY <1>6 DEF Breaks
  <2>2. PICK j \in 0..Len(acks[c]) : acks' = [acks EXCEPT ![c] = SubSeq(@, 1, j)]
    BY <1>6 DEF Breaks
  <2>3. msgs' \in [Conns -> Seq(P)]
    BY <1>1, <2>1, ChannelKeeps
  <2>4. acks' \in [Conns -> Seq(A)]
    BY <1>1, <2>2, ChannelKeeps
  <2> QED BY <2>3, <2>4
<1>7. CASE Terminate
  <2>1. socket \in Conns \/ socket = 0
    BY <1>i DEF TypeOK, Conns
  <2> QED BY <1>2, <1>6, <1>7, <2>1 DEF Terminate
<1>8. CASE ReadPackage
  <2>1. peer \in Conns
    BY <1>i, <1>8 DEF ReadPackage, Threads
  <2>2. Head(msgs[peer]) \in P
    BY <1>1, <1>8, <2>1, ChannelKeeps DEF ReadPackage
  <2>3. Head(msgs[peer]).seqn \in A
    BY <2>2
  <2>4. msgs' = [msgs EXCEPT ![peer] = Tail(@)] /\ SendAck(Head(msgs[peer]).seqn) /\ msgs[peer] # <<>>
    BY <1>8 DEF ReadPackage
  <2> QED BY <1>1, <2>1, <2>3, <2>4, ChannelKeeps DEF SendAck
<1>9. CASE ProcessEnds \/ Resumed
  BY <1>2, <1>9 DEF ProcessEnds, Resumed, SendFails
<1>10. CASE \E c \in Conns : Break(c)
  BY <1>6, <1>10 DEF Break
<1> QED
  BY <1>2, <1>3, <1>4, <1>5, <1>7, <1>8, <1>9, <1>10
  DEF Next, AsyncThread, WireThread, PeerThread, Put, Stop, Take, ThreadEnds, Process, Record,
      Connect, Reprocess, Disconnected, PeerConnects, PeerDisconnected, vars
-----------------------------------------------------------------------------
(* ACKNOWLEDGEMENTS *)

LEMMA AcknowledgedIsSent ==
  ASSUME WireInv
  PROVE  acknowledged_seqn <= Sent
BY DEF WireInv, TypeOK, PopsPending, Sent

(* Only Acknowledge moves acknowledged_seqn, to a number under way.        *)
LEMMA AcknowledgedMoves ==
  ASSUME WireInv, [Next]_vars
  PROVE  \/ UNCHANGED acknowledged_seqn
         \/ /\ Acknowledge /\ acknowledged_seqn' \in 1..Sent
            /\ acknowledged_seqn' > acknowledged_seqn
            /\ UNCHANGED <<puts, max_sent_seqn, thread, current_seqn>>
<1>1. CASE Acknowledge
  <2>1. socket \in Conns
    BY <1>1 DEF Acknowledge, WireInv, Threads
  <2>2. Head(acks[socket]) \in 1..Sent
    BY <1>1, <2>1, HeadTailProperties DEF Acknowledge, WireInv, Underway
  <2>3. acknowledged_seqn \in Nat /\ Sent \in Nat
    BY SentGrows DEF WireInv, TypeOK
  <2>4. acknowledged_seqn' = MaxOf(acknowledged_seqn, Head(acks[socket]))
        /\ UNCHANGED <<puts, max_sent_seqn, thread, current_seqn>>
    BY <1>1 DEF Acknowledge
  <2> QED BY <1>1, <2>2, <2>3, <2>4 DEF MaxOf
<1>2. CASE UNCHANGED buffer
  BY <1>2 DEF buffer, seqns
<1> QED
  BY <1>1, <1>2, LeavesBuffer
  DEF Next, AsyncThread, WireThread, Put, Stop, Terminate, Take, ThreadEnds, Process, Send, Record,
      ProcessEnds, Reprocess, Resumed, Disconnected, seqns

(* Only Reprocess moves current_seqn, to just after what is acknowledged.  *)
LEMMA CurrentMoves ==
  ASSUME WireInv, [Next]_vars
  PROVE  \/ UNCHANGED current_seqn
         \/ /\ current_seqn < acknowledged_seqn + 1
            /\ current_seqn' = acknowledged_seqn + 1
            /\ UNCHANGED <<puts, max_sent_seqn, thread, acknowledged_seqn>>
<1>1. CASE Reprocess
  <2>1. current_seqn' = MaxOf(current_seqn, acknowledged_seqn + 1)
        /\ UNCHANGED <<puts, max_sent_seqn, thread, acknowledged_seqn>>
    BY <1>1 DEF Reprocess
  <2>2. current_seqn \in Int /\ acknowledged_seqn \in Int
    BY WireAssumption DEF WireInv, TypeOK
  <2> QED BY <2>1, <2>2 DEF MaxOf
<1>2. CASE UNCHANGED buffer
  BY <1>2 DEF buffer, seqns
<1> QED
  BY <1>1, <1>2, LeavesBuffer
  DEF Next, AsyncThread, WireThread, Put, Stop, Terminate, Take, ThreadEnds, Process, Send, Record,
      ProcessEnds, Acknowledge, Resumed, Disconnected, seqns

LEMMA StepAcknowledged ==
  ASSUME WireInv, [Next]_vars
  PROVE  PopsPending' /\ current_seqn' - 1 <= acknowledged_seqn'
<1>1. /\ acknowledged_seqn \in Nat /\ current_seqn \in Nat /\ max_sent_seqn \in Nat
      /\ acknowledged_seqn' \in Nat /\ current_seqn' \in Nat /\ max_sent_seqn' \in Nat
  BY StepNumbers, WireAssumption DEF WireInv, TypeOK
<1>2. Sent \in Nat /\ Sent' \in Nat /\ Sent <= Sent'
  BY SentGrows
<1>3. acknowledged_seqn' <= Sent'
  BY <1>1, <1>2, AcknowledgedIsSent, AcknowledgedMoves
<1>4. \A a, m \in Nat : (a <= m => a <= m + 1 /\ ~(a > m)) /\ (a <= m + 1 => a <= m + 1)
  OBVIOUS
<1>5. PopsPending'
  <2>1. CASE thread' = "sent"
    BY <1>1, <1>3, <1>4, <2>1 DEF PopsPending, Sent
  <2>2. CASE thread' # "sent"
    BY <1>1, <1>3, <1>4, <2>2 DEF PopsPending, Sent
  <2> QED BY <2>1, <2>2
<1>6. current_seqn - 1 <= acknowledged_seqn
  BY DEF WireInv
<1>7. \A c, a, b \in Nat : c - 1 <= a /\ a <= b => c - 1 <= b
  OBVIOUS
<1>8. acknowledged_seqn <= acknowledged_seqn'
  BY <1>1, AcknowledgedMoves
<1>9. current_seqn' - 1 <= acknowledged_seqn'
  <2>1. CASE UNCHANGED current_seqn
    BY <1>1, <1>6, <1>7, <1>8, <2>1
  <2>2. CASE current_seqn' = acknowledged_seqn + 1 /\ UNCHANGED acknowledged_seqn
    BY <1>1, <2>2
  <2> QED BY <2>1, <2>2, CurrentMoves
<1> QED BY <1>5, <1>9
-----------------------------------------------------------------------------
(* THE RECEIVER'S TYPES, AND ALL OF THEM *)

LEMMA StepReceived ==
  ASSUME WireInv, [Next]_vars
  PROVE  max_received_seqn' \in 0..MaxPuts /\ dispatched' \in Seq(1..MaxPuts)
<1>i. /\ max_received_seqn \in 0..MaxPuts /\ dispatched \in Seq(1..MaxPuts)
      /\ msgs \in [Conns -> Seq(Package)] /\ MaxPuts \in Nat /\ Threads
  BY WireAssumption DEF WireInv, TypeOK
<1>1. CASE ReadPackage
  <2> DEFINE m == Head(msgs[peer])
  <2>1. peer \in Conns /\ msgs[peer] # <<>>
    BY <1>i, <1>1 DEF ReadPackage, Threads
  <2>2. m \in Package
    BY <1>i, <2>1, HeadTailProperties
  <2>3. m.seqn \in 1..MaxPuts /\ m.body \in 1..MaxPuts
    BY <2>2 DEF Package
  <2>4. /\ max_received_seqn' = max_received_seqn \/ max_received_seqn' = m.seqn
        /\ dispatched' = dispatched \/ dispatched' = Append(dispatched, m.body)
    BY <1>1 DEF ReadPackage
  <2> HIDE DEF m
  <2>5. max_received_seqn' \in 0..MaxPuts
    BY <1>i, <2>3, <2>4
  <2>6. Append(dispatched, m.body) \in Seq(1..MaxPuts)
    BY <1>i, <2>3, AppendProperties
  <2>7. dispatched' \in Seq(1..MaxPuts)
    BY <1>i, <2>4, <2>6
  <2> QED BY <2>5, <2>7
<1>2. CASE UNCHANGED <<max_received_seqn, dispatched>>
  BY <1>i, <1>2
<1>3. CASE UNCHANGED target
  BY <1>2, <1>3 DEF target
<1> QED
  BY <1>1, <1>2, <1>3
  DEF Next, AsyncThread, WireThread, PeerThread, Put, Stop, Terminate, Take, ThreadEnds, Process,
      Send, Record, ProcessEnds, Connect, Reprocess, Resend, Resumed, Acknowledge, Disconnected,
      Break, PeerConnects, PeerDisconnected, vars

LEMMA StepTypeOK ==
  ASSUME WireInv, [Next]_vars
  PROVE  TypeOK'
<1>1. Sent' \in Nat /\ Sent' <= MaxPuts /\ MaxPuts \in Nat
  BY SentGrows, WireAssumption
<1>2. Package = [seqn : 1..MaxPuts, body : Numbers]
  BY DEF Package, Numbers
<1>3. msgs' \in [Conns -> Seq(Package)] /\ acks' \in [Conns -> Seq(1..MaxPuts)]
  <2>1. /\ msgs' \in [Conns -> Seq([seqn : 1..Sent', body : Numbers])]
        /\ acks' \in [Conns -> Seq(1..Sent')]
    BY StepUnderway DEF Underway
  <2> QED BY <1>1, <1>2, <2>1, Widen
<1>4. resent' \in 0..MaxPuts
  <2>1. resent' \in Nat /\ resent' <= Len(pending_queue') /\ Len(pending_queue') \in Nat
    BY StepThreads, StepSequences, LenProperties DEF Threads
  <2>2. /\ max_sent_seqn' = current_seqn' + Len(pending_queue') - 1
        /\ max_sent_seqn' \in 0..MaxPuts /\ current_seqn' \in 1..MaxPuts + 1
    BY StepBookkeeping, StepNumbers DEF Bookkeeping
  <2>3. \A r, l, c, m \in Int : r <= l /\ m = c + l - 1 /\ m <= MaxPuts /\ c >= 1 => r <= MaxPuts
    BY <1>1
  <2> QED BY <1>1, <2>1, <2>2, <2>3
<1> QED
  BY <1>3, <1>4, StepSequences, StepNumbers, StepControl, StepReceived DEF TypeOK, Control

LEMMA StepWireInv ==
  ASSUME WireInv, [Next]_vars
  PROVE  WireInv'
BY StepTypeOK, StepBookkeeping, StepAcknowledged, StepUnderway, StepThreads DEF WireInv

LEMMA WireInvAlways == Spec => []WireInv
BY InitWireInv, StepWireInv, PTL DEF Spec

-----------------------------------------------------------------------------
(* THE STREAM: what is under way, and what the ends know of each other     *)

(* A package carries the message that has its number.                      *)
Whole(s) == \A i \in 1..Len(s) : s[i].body = s[i].seqn
Bodies == \A c \in Conns : Whole(msgs[c])

(* Both ends go through the connections in order, and leave one only when  *)
(* it is broken and they have read what there was.                         *)
ConnOrder ==
  \A c \in Conns :
    /\ c > socket => msgs[c] = <<>> /\ acks[c] = <<>>
    /\ c < socket \/ (c = socket /\ phase = "offline") => c \notin live /\ acks[c] = <<>>
    /\ c < peer \/ (c = peer /\ ~reading) => c \notin live /\ msgs[c] = <<>>

(* reprocess() starts at the first message that is not acknowledged.       *)
ResendsFirst == Resuming => acknowledged_seqn = current_seqn - 1

(* The last number sent in the connection of the sending end.              *)
Transmitted == IF Resuming THEN current_seqn + resent - 1 ELSE Sent

Attached == socket \in live /\ phase \in {"resuming", "receiving"}

Numbered(s) == \A i \in 1..Len(s) : s[i].seqn = s[1].seqn + i - 1

(* What is under way in a connection has consecutive numbers, up to the    *)
(* last one sent; when all of it was read, that one was received, unless   *)
(* nothing was sent yet.                                                   *)
Consecutively ==
  /\ \A c \in Conns : Numbered(msgs[c])
  /\ phase = "connecting" => msgs[socket] = <<>> /\ acks[socket] = <<>>
  /\ Attached =>
       /\ msgs[socket] # <<>> => msgs[socket][Len(msgs[socket])].seqn = Transmitted
       /\ msgs[socket] = <<>> => \/ peer = socket /\ max_received_seqn = Transmitted
                                 \/ Transmitted <= acknowledged_seqn
       /\ \A i \in 1..Len(acks[socket]) : acks[socket][i] <= Transmitted

(* The first unread number of a connection leaves no gap; when it is 1,    *)
(* nothing was acknowledged and no acknowledgement is under way.           *)
NoGap ==
  \A c \in Conns : c >= peer /\ msgs[c] # <<>> =>
    /\ \/ msgs[c][1].seqn <= acknowledged_seqn + 1
       \/ c = peer /\ msgs[c][1].seqn = max_received_seqn + 1
    /\ msgs[c][1].seqn = 1 => acknowledged_seqn = 0 /\ \A e \in Conns : acks[e] = <<>>

(* What is acknowledged is below the last number received, and everything  *)
(* up to that one was dispatched.                                          *)
Received ==
  /\ acknowledged_seqn <= max_received_seqn
  /\ \A c \in Conns : \A i \in 1..Len(acks[c]) : acks[c][i] <= max_received_seqn
  /\ dispatched = <<>> => max_received_seqn = 0
  /\ dispatched # <<>> => dispatched[Len(dispatched)] = max_received_seqn
  /\ \A n \in 1..max_received_seqn : \E i \in 1..Len(dispatched) : dispatched[i] = n

(* The thread was not late and the receiver's stream is whole.             *)
Sound == ~overtaken /\ ~torn

StreamInv ==
  /\ Bodies /\ ConnOrder /\ ResendsFirst /\ InOrder
  /\ Sound => Consecutively /\ NoGap /\ Received

(* Streams that are written, read and cut.                                 *)
LEMMA NumberedAppend ==
  ASSUME NEW s \in Seq(Package), Numbered(s), Whole(s), NEW e \in Package, e.body = e.seqn,
         s # <<>> => e.seqn = s[Len(s)].seqn + 1
  PROVE  /\ Append(s, e) \in Seq(Package) /\ Append(s, e) # <<>>
         /\ Numbered(Append(s, e)) /\ Whole(Append(s, e))
         /\ Append(s, e)[Len(Append(s, e))] = e
         /\ Append(s, e)[1] = IF s = <<>> THEN e ELSE s[1]
<1> DEFINE t == Append(s, e)
           n == Len(s)
<1>1. /\ t \in Seq(Package) /\ t # <<>> /\ Len(t) = n + 1 /\ t[n + 1] = e
      /\ \A i \in 1..n : t[i] = s[i]
      /\ n \in Nat
  BY AppendProperties, LenProperties
<1>2. s = <<>> <=> n = 0
  BY <1>1, EmptySeq
<1>3. \A i \in 1..n : s[i] \in Package
  BY ElementOfSeq
<1> HIDE DEF t, n
<1>4. \A i \in 1..(n + 1) : i \in 1..n \/ i = n + 1
  BY <1>1
<1>5. t[1] = IF s = <<>> THEN e ELSE s[1]
  BY <1>1, <1>2
<1>6. \A p \in Package : p.seqn \in Int
  BY DEF Package
<1>7. Whole(t)
  BY <1>1, <1>4 DEF Whole, n
<1>8. Numbered(t)
  <2> SUFFICES ASSUME NEW i \in 1..(n + 1)  PROVE t[i].seqn = t[1].seqn + i - 1
    BY <1>1 DEF Numbered
  <2>1. CASE n = 0
    BY <2>1, <1>1, <1>6
  <2>2. CASE n # 0
    <3>1. 1 \in 1..n /\ n \in 1..n /\ s # <<>>
      BY <2>2, <1>1, <1>2
    <3>2. \A j \in 1..n : s[j].seqn = s[1].seqn + j - 1
      BY DEF Numbered, n
    <3>3. s[n].seqn = s[1].seqn + n - 1 /\ e.seqn = s[n].seqn + 1 /\ s[1].seqn \in Int
      BY <3>1, <3>2, <1>3, <1>6 DEF n
    <3>4. e.seqn = s[1].seqn + (n + 1) - 1
      BY <3>3, <1>1
    <3> QED BY <1>1, <1>4, <3>1, <3>2, <3>4
  <2> QED BY <2>1, <2>2
<1> QED BY <1>1, <1>5, <1>7, <1>8 DEF t

LEMMA NumberedTail ==
  ASSUME NEW s \in Seq(Package), Numbered(s), Whole(s), s # <<>>
  PROVE  /\ Head(s) = s[1] /\ s[1] \in Package /\ s[1].body = s[1].seqn
         /\ Numbered(Tail(s)) /\ Whole(Tail(s))
         /\ Tail(s) # <<>> => /\ Tail(s)[1].seqn = s[1].seqn + 1
                              /\ Tail(s)[Len(Tail(s))] = s[Len(s)]
         /\ Tail(s) = <<>> => s[Len(s)] = s[1]
         /\ s[1].seqn <= s[Len(s)].seqn
<1> DEFINE t == Tail(s)
           n == Len(s)
<1>1. /\ t \in Seq(Package) /\ Len(t) = n - 1 /\ n \in Nat \ {0}
      /\ \A i \in 1..(n - 1) : t[i] = s[i + 1]
      /\ Head(s) = s[1]
  BY HeadTailProperties, EmptySeq
<1>2. t = <<>> <=> n = 1
  BY <1>1, EmptySeq
<1>3. \A i \in 1..n : s[i] \in Package
  BY ElementOfSeq
<1> HIDE DEF t
<1>4. \A p \in Package : p.seqn \in Int
  BY DEF Package
<1>5. \A j \in 1..n : s[j].seqn = s[1].seqn + j - 1 /\ s[j].body = s[j].seqn
  BY DEF Numbered, Whole
<1> HIDE DEF n
<1>6. \A i \in 1..(n - 1) : i + 1 \in 1..n
  BY <1>1
<1>7. Whole(t)
  BY <1>1, <1>5, <1>6 DEF Whole
<1>8. 1 \in 1..n /\ n \in 1..n /\ s[1].seqn \in Int
  BY <1>1, <1>3, <1>4
<1>9. Numbered(t)
  <2> SUFFICES ASSUME NEW i \in 1..(n - 1)  PROVE t[i].seqn = t[1].seqn + i - 1
    BY <1>1 DEF Numbered
  <2>1. i + 1 \in 1..n /\ 1 \in 1..(n - 1) /\ 1 + 1 \in 1..n
    BY <1>1
  <2>2. t[i].seqn = s[1].seqn + (i + 1) - 1 /\ t[1].seqn = s[1].seqn + (1 + 1) - 1
    BY <2>1, <1>1, <1>5
  <2> QED BY <2>1, <2>2, <1>8
<1>10. t # <<>> => t[1].seqn = s[1].seqn + 1 /\ t[Len(t)] = s[n]
  <2> SUFFICES ASSUME t # <<>>  PROVE t[1].seqn = s[1].seqn + 1 /\ t[n - 1] = s[n]
    BY <1>1
  <2>1. 1 \in 1..(n - 1) /\ n - 1 \in 1..(n - 1) /\ (n - 1) + 1 = n /\ 1 + 1 \in 1..n
    BY <1>1, <1>2
  <2>2. t[1] = s[1 + 1] /\ s[1 + 1].seqn = s[1].seqn + (1 + 1) - 1
    BY <2>1, <1>1, <1>5
  <2>3. t[n - 1] = s[n]
    BY <2>1, <1>1
  <2> QED BY <2>2, <2>3, <1>8
<1>11. s[1].seqn <= s[n].seqn /\ s[1].body = s[1].seqn /\ s[1] \in Package
  <2>1. s[n].seqn = s[1].seqn + n - 1
    BY <1>5, <1>8
  <2> QED BY <2>1, <1>1, <1>3, <1>5, <1>8
<1> QED BY <1>1, <1>2, <1>7, <1>9, <1>10, <1>11 DEF t, n

LEMMA NumberedCut ==
  ASSUME NEW S, NEW s \in Seq(S), NEW k \in 0..Len(s)
  PROVE  /\ SubSeq(s, 1, k) \in Seq(S) /\ Len(SubSeq(s, 1, k)) = k
         /\ \A i \in 1..k : SubSeq(s, 1, k)[i] = s[i] /\ i \in 1..Len(s)
         /\ SubSeq(s, 1, k) # <<>> => s # <<>> /\ SubSeq(s, 1, k)[1] = s[1]
         /\ Numbered(s) => Numbered(SubSeq(s, 1, k))
         /\ Whole(s) => Whole(SubSeq(s, 1, k))
<1> DEFINE t == SubSeq(s, 1, k)
<1>1. k \in Int /\ Len(s) \in Nat /\ \A i \in 1..k : i \in 1..Len(s) /\ s[i] \in S
  BY LenProperties, ElementOfSeq
<1>2. t \in Seq(S) /\ Len(t) = k /\ \A i \in 1..k : t[i] = s[i]
  BY <1>1, SubSeqProperties
<1>3. t # <<>> => k # 0
  BY <1>2, EmptySeq
<1> HIDE DEF t
<1>4. k # 0 => 1 \in 1..k /\ s # <<>>
  BY <1>1, EmptySeq
<1>5. Numbered(s) => Numbered(t)
  BY <1>1, <1>2, <1>3, <1>4 DEF Numbered
<1>6. Whole(s) => Whole(t)
  BY <1>1, <1>2 DEF Whole
<1> QED BY <1>1, <1>2, <1>3, <1>4, <1>5, <1>6 DEF t

-----------------------------------------------------------------------------
(* THE STEPS OF THE STREAM *)

LEMMA StreamTypes ==
  ASSUME WireInv
  PROVE  /\ acknowledged_seqn \in Nat /\ current_seqn \in Nat /\ current_seqn >= 1 /\ resent \in Nat
         /\ max_received_seqn \in Nat /\ max_sent_seqn \in Nat
         /\ Sent \in Nat /\ Transmitted \in Nat /\ socket \in Nat /\ peer \in Nat
         /\ Conns \subseteq Nat \ {0}
         /\ msgs \in [Conns -> Seq(Package)] /\ acks \in [Conns -> Seq(Nat)]
         /\ \A c \in Conns : /\ Len(msgs[c]) \in Nat /\ Len(acks[c]) \in Nat
                             /\ msgs[c] = <<>> <=> Len(msgs[c]) = 0
                             /\ acks[c] = <<>> <=> Len(acks[c]) = 0
<1>1. /\ TypeOK /\ MaxPuts \in Nat /\ MaxConns \in Nat
  BY WireAssumption DEF WireInv
<1>2. /\ acknowledged_seqn \in Nat /\ current_seqn \in Nat /\ current_seqn >= 1 /\ resent \in Nat
      /\ max_received_seqn \in Nat /\ max_sent_seqn \in Nat /\ socket \in Nat /\ peer \in Nat
      /\ Conns \subseteq Nat \ {0}
  BY <1>1 DEF TypeOK, Conns
<1>3. Sent \in Nat /\ Transmitted \in Nat
  <2>1. \A m \in Nat : m + 1 \in Nat
    OBVIOUS
  <2>2. \A m, n \in Nat : m >= 1 => m + n - 1 \in Nat
    OBVIOUS
  <2> QED BY <1>2, <2>1, <2>2 DEF Sent, Transmitted
<1>4. msgs \in [Conns -> Seq(Package)] /\ acks \in [Conns -> Seq(Nat)]
  <2>1. msgs \in [Conns -> Seq(Package)] /\ acks \in [Conns -> Seq(1..MaxPuts)]
    BY <1>1 DEF TypeOK
  <2>2. \A s \in Seq(1..MaxPuts) : s \in Seq(Nat)
    <3>1. 1..MaxPuts \subseteq Nat
      OBVIOUS
    <3> QED BY <3>1, SeqMonotonic
  <2> QED BY <2>1, <2>2
<1>5. ASSUME NEW c \in Conns
      PROVE  /\ Len(msgs[c]) \in Nat /\ Len(acks[c]) \in Nat
             /\ msgs[c] = <<>> <=> Len(msgs[c]) = 0
             /\ acks[c] = <<>> <=> Len(acks[c]) = 0
  <2>1. msgs[c] \in Seq(Package) /\ acks[c] \in Seq(Nat)
    BY <1>4
  <2> QED BY <2>1, EmptySeq, LenProperties
<1> QED BY <1>2, <1>3, <1>4, <1>5

(* Steps that change neither a connection nor what an end knows of it.     *)
LEMMA StreamFrame ==
  ASSUME StreamInv,
         UNCHANGED <<socket, phase, live, msgs, acks, peer, reading, max_received_seqn, torn,
                     dispatched, overtaken, acknowledged_seqn, current_seqn>>,
         Attached => UNCHANGED Transmitted
  PROVE  StreamInv'
<1>1. Bodies' /\ ConnOrder' /\ ResendsFirst' /\ InOrder'
  BY DEF StreamInv, Bodies, ConnOrder, ResendsFirst, InOrder, Resuming
<1>2. (Attached' <=> Attached) /\ (Sound' <=> Sound)
  BY DEF Attached, Sound
<1>3. Sound => Consecutively' /\ NoGap' /\ Received'
  BY <1>2 DEF StreamInv, Consecutively, NoGap, Received
<1> QED BY <1>1, <1>2, <1>3 DEF StreamInv

(* What is acknowledged was sent in this connection or before.             *)
LEMMA AckedTransmitted ==
  ASSUME WireInv, StreamInv, Attached
  PROVE  /\ acknowledged_seqn <= Transmitted /\ socket \in Conns /\ socket >= peer
         /\ phase = "receiving" => Transmitted = Sent
<1>1. acknowledged_seqn <= Sent
  BY AcknowledgedIsSent
<1>2. Resuming => acknowledged_seqn = current_seqn - 1
  BY DEF StreamInv, ResendsFirst
<1>3. acknowledged_seqn <= Transmitted
  <2>1. \A c, r, a \in Nat : a = c - 1 => a <= c + r - 1
    OBVIOUS
  <2> QED BY <1>1, <1>2, <2>1, StreamTypes DEF Transmitted
<1>4. socket \in Conns
  BY DEF WireInv, Threads, Attached
<1>5. ~(socket < peer)
  BY <1>4 DEF StreamInv, ConnOrder, Attached
<1>6. phase = "receiving" => Transmitted = Sent
  BY DEF Transmitted, Resuming
<1> QED BY <1>3, <1>4, <1>5, <1>6, StreamTypes

(* A whole message is sent in a connection that is not broken.             *)
LEMMA SendsWhole ==
  ASSUME WireInv, Bodies, ConnOrder, socket \in live, socket \in Conns,
         NEW e \in Package, e.body = e.seqn,
         msgs' = [msgs EXCEPT ![socket] = Append(@, e)],
         UNCHANGED <<socket, phase, live, acks, peer, reading>>
  PROVE  Bodies' /\ ConnOrder'
<1> DEFINE s == msgs[socket]
<1>t. msgs \in [Conns -> Seq(Package)] /\ socket \in Nat /\ peer \in Nat /\ socket >= peer
  <2>1. ~(socket < peer)
    BY DEF ConnOrder
  <2> QED BY <2>1, StreamTypes
<1>m. /\ msgs'[socket] = Append(s, e)
      /\ \A c \in Conns : c # socket => msgs'[c] = msgs[c]
  BY <1>t
<1>0. Whole(s) /\ s \in Seq(Package)
  BY <1>t DEF Bodies
<1>1. Bodies'
  <2>1. Whole(Append(s, e))
    <3>1. Len(s) \in Nat /\ Len(Append(s, e)) = Len(s) + 1 /\ Append(s, e)[Len(s) + 1] = e
          /\ \A i \in 1..Len(s) : Append(s, e)[i] = s[i]
      BY <1>0, AppendProperties, LenProperties
    <3>2. \A i \in 1..(Len(s) + 1) : i \in 1..Len(s) \/ i = Len(s) + 1
      BY <3>1
    <3> HIDE DEF s
    <3> QED BY <1>0, <3>1, <3>2 DEF Whole
  <2> QED BY <2>1, <1>m DEF Bodies
<1>2. ConnOrder'
  <2>1. \A c \in Conns : c = socket => ~(c > socket) /\ ~(c < peer) /\ ~(c = peer /\ ~reading)
    BY <1>t DEF ConnOrder
  <2> QED BY <2>1, <1>m DEF ConnOrder
<1> QED BY <1>1, <1>2

(* The sending end sends the next number.                                  *)
LEMMA StreamAppend ==
  ASSUME WireInv, StreamInv, Attached,
         NEW e \in Package, e.seqn = Transmitted + 1, e.body = e.seqn,
         msgs' = [msgs EXCEPT ![socket] = Append(@, e)],
         UNCHANGED <<socket, phase, live, acks, peer, reading, max_received_seqn, torn,
                     dispatched, acknowledged_seqn, current_seqn, overtaken>>,
         Transmitted' = Transmitted + 1
  PROVE  StreamInv'
<1>t. /\ msgs \in [Conns -> Seq(Package)] /\ socket \in Conns /\ Transmitted \in Nat
      /\ acknowledged_seqn \in Nat /\ max_received_seqn \in Nat /\ socket \in Nat /\ peer \in Nat
      /\ acknowledged_seqn <= Transmitted /\ socket >= peer /\ Conns \subseteq Nat
  BY StreamTypes, AckedTransmitted
<1> DEFINE s == msgs[socket]
<1>m. /\ msgs'[socket] = Append(s, e)
      /\ \A c \in Conns : c # socket => msgs'[c] = msgs[c]
  BY <1>t
<1>0. Whole(s) /\ s \in Seq(Package)
  BY <1>t DEF StreamInv, Bodies
<1>1. Bodies' /\ ConnOrder'
  <2>1. Bodies /\ ConnOrder /\ socket \in live
    BY DEF StreamInv, Attached
  <2> QED BY <1>t, <2>1, SendsWhole
<1>3. ResendsFirst' /\ InOrder' /\ (Attached' <=> Attached) /\ (Sound' <=> Sound)
  BY DEF StreamInv, ResendsFirst, InOrder, Attached, Sound, Resuming
<1>4. ASSUME Sound  PROVE Consecutively' /\ NoGap' /\ Received'
  <2>1. Consecutively /\ NoGap /\ Received
    BY <1>4 DEF StreamInv
  <2>2. Numbered(s) /\ (s # <<>> => s[Len(s)].seqn = Transmitted)
        /\ (s = <<>> => \/ peer = socket /\ max_received_seqn = Transmitted
                        \/ Transmitted <= acknowledged_seqn)
        /\ \A i \in 1..Len(acks[socket]) : acks[socket][i] <= Transmitted
    BY <1>t, <2>1 DEF Consecutively
  <2>3. /\ Append(s, e) # <<>> /\ Numbered(Append(s, e))
        /\ Append(s, e)[Len(Append(s, e))] = e
        /\ Append(s, e)[1] = IF s = <<>> THEN e ELSE s[1]
    BY <1>0, <2>2, NumberedAppend
  <2> HIDE DEF s
  <2>4. \A i \in 1..Len(acks[socket]) : acks[socket][i] \in Nat
    <3>1. acks[socket] \in Seq(Nat)
      BY <1>t, StreamTypes
    <3> QED BY <3>1, ElementOfSeq
  <2>5. Consecutively'
    <3>1. \A c \in Conns : Numbered(msgs'[c])
      BY <1>m, <2>1, <2>3 DEF Consecutively
    <3>2. phase # "connecting"
      BY DEF Attached
    <3>3. \A i \in 1..Len(acks[socket]) : acks[socket][i] <= Transmitted + 1
      BY <1>t, <2>2, <2>4
    <3> QED BY <1>m, <1>3, <2>3, <3>1, <3>2, <3>3 DEF Consecutively
  <2>6. NoGap'
    <3> SUFFICES ASSUME NEW c \in Conns, c >= peer, msgs'[c] # <<>>
                 PROVE  /\ \/ msgs'[c][1].seqn <= acknowledged_seqn + 1
                           \/ c = peer /\ msgs'[c][1].seqn = max_received_seqn + 1
                        /\ msgs'[c][1].seqn = 1 => /\ acknowledged_seqn = 0
                                                   /\ \A d \in Conns : acks[d] = <<>>
      BY DEF NoGap
    <3>1. CASE c # socket
      BY <3>1, <1>m, <2>1 DEF NoGap
    <3>2. CASE c = socket /\ s # <<>>
      <4>1. msgs'[c][1] = msgs[c][1] /\ msgs[c] # <<>>
        BY <3>2, <1>m, <2>3 DEF s
      <4> QED BY <4>1, <2>1 DEF NoGap
    <3>3. CASE c = socket /\ s = <<>>
      <4>1. msgs'[c][1].seqn = Transmitted + 1
        BY <3>3, <1>m, <2>3
      <4>2. \/ peer = socket /\ max_received_seqn = Transmitted
            \/ Transmitted <= acknowledged_seqn
        BY <3>3, <2>2
      <4>3. ASSUME Transmitted = 0
            PROVE  acknowledged_seqn = 0 /\ \A d \in Conns : acks[d] = <<>>
        <5>1. acknowledged_seqn = 0
          BY <4>3, <1>t
        <5>2. ASSUME NEW d \in Conns  PROVE acks[d] = <<>>
          <6>1. CASE d # socket
            BY <6>1, <1>t DEF StreamInv, ConnOrder
          <6>2. CASE d = socket
            <7> SUFFICES ASSUME Len(acks[socket]) # 0  PROVE FALSE
              BY <6>2, StreamTypes
            <7>1. 1 \in 1..Len(acks[socket])
              BY <1>t, StreamTypes
            <7>2. acks[socket][1] <= 0
              BY <4>3, <7>1, <2>2
            <7>3. acks[socket][1] \in 1..Sent
              <8>1. acks[socket] \in Seq(1..Sent)
                BY <1>t DEF WireInv, Underway
              <8> QED BY <8>1, <7>1, ElementOfSeq
            <7> QED BY <7>2, <7>3
          <6> QED BY <6>1, <6>2
        <5> QED BY <5>1, <5>2
      <4>4. Transmitted + 1 = 1 => Transmitted = 0
        BY <1>t
      <4> QED BY <3>3, <4>1, <4>2, <4>3, <4>4, <1>t
    <3> QED BY <3>1, <3>2, <3>3
  <2>7. Received'
    BY <2>1 DEF Received
  <2> QED BY <2>5, <2>6, <2>7
<1> QED BY <1>1, <1>3, <1>4 DEF StreamInv

LEMMA InitStream == Init => StreamInv
<1> SUFFICES ASSUME Init  PROVE StreamInv
  OBVIOUS
<1>0. /\ socket = 0 /\ peer = 0 /\ phase = "offline" /\ acknowledged_seqn = 0 /\ max_received_seqn = 0
      /\ dispatched = <<>> /\ Len(<<>>) = 0
      /\ \A c \in Conns : msgs[c] = <<>> /\ acks[c] = <<>>
  BY EmptySeq DEF Init
<1>1. Bodies /\ ResendsFirst /\ InOrder
  BY <1>0 DEF Bodies, Whole, ResendsFirst, Resuming, InOrder
<1>2. ConnOrder
  BY <1>0, WireAssumption DEF ConnOrder, Conns
<1>3. Consecutively
  BY <1>0 DEF Consecutively, Attached, Numbered
<1>4. NoGap /\ Received
  BY <1>0 DEF NoGap, Received
<1> QED BY <1>1, <1>2, <1>3, <1>4 DEF StreamInv

(* Steps of the two threads that send nothing.                             *)
LEMMA StreamQuiet ==
  ASSUME WireInv, StreamInv,
         \/ Put \/ Stop \/ Take \/ ThreadEnds \/ Process \/ Record
         \/ ProcessEnds \/ UNCHANGED vars
  PROVE  StreamInv'
<1>1. UNCHANGED <<socket, phase, resent, live, msgs, acks, peer, reading, max_received_seqn, torn,
                  dispatched, overtaken, acknowledged_seqn, current_seqn>>
  BY DEF Put, Stop, Take, ThreadEnds, Process, Record, ProcessEnds, SendFails, vars,
         buffer, sender, link, target, seqns
<1>2. UNCHANGED Sent
  BY DEF Put, Stop, Take, ThreadEnds, Process, Record, ProcessEnds, vars, buffer, seqns, Sent
<1> QED BY <1>1, <1>2, StreamFrame DEF Transmitted, Resuming

LEMMA StreamSend ==
  ASSUME WireInv, StreamInv, Send
  PROVE  StreamInv'
<1>0. /\ UNCHANGED <<data, queue, pending_queue, max_sent_seqn, current_seqn, acknowledged_seqn,
                     socket, phase, resent, live, acks, peer, reading, max_received_seqn, torn,
                     dispatched>>
      /\ thread = "sending" /\ thread' = "sent" /\ queue # <<>> /\ socket # 0
      /\ overtaken' = (overtaken \/ (phase = "connecting" /\ socket \in live))
  BY DEF Send, Transmit, sender, target, seqns
<1>t. TypeOK /\ Threads /\ Bookkeeping /\ Processing /\ ~Resuming
  BY <1>0 DEF WireInv, Threads, Processing
<1>s. socket \in Conns
  BY <1>0, <1>t DEF TypeOK, Conns
<1>1. CASE socket \notin live
  <2>1. UNCHANGED msgs /\ ~Attached
    BY <1>1 DEF Send, Transmit, Attached
  <2>2. UNCHANGED overtaken
    <3>1. overtaken \in BOOLEAN
      BY <1>t DEF TypeOK
    <3> QED BY <3>1, <1>0, <1>1
  <2> QED BY <1>0, <2>1, <2>2, StreamFrame
<1>2. CASE socket \in live
  <2> DEFINE e == [seqn |-> max_sent_seqn + 1, body |-> Head(queue)]
  <2>1. msgs' = [msgs EXCEPT ![socket] = Append(@, e)]
    BY <1>2 DEF Send, Transmit
  <2>2. Head(queue) = max_sent_seqn + 1 /\ Head(queue) \in 1..MaxPuts
    <3>1. queue \in Seq(1..MaxPuts) /\ queue \in Seq(Int) /\ max_sent_seqn + 1 \in Int
      <4>1. 1..MaxPuts \subseteq Int
        OBVIOUS
      <4>2. queue \in Seq(1..MaxPuts)
        BY <1>t DEF TypeOK
      <4>3. queue \in Seq(Int)
        BY <4>1, <4>2, SeqMonotonic
      <4> QED BY <4>2, <4>3, StreamTypes
    <3> QED BY <3>1, <1>0, <1>t, ConsecutiveTail, HeadTailProperties DEF Bookkeeping
  <2>3. e \in Package /\ e.body = e.seqn /\ e.seqn = max_sent_seqn + 1
    BY <2>2 DEF Package
  <2> HIDE DEF e
  <2>4. CASE phase = "connecting"
    <3>1. overtaken'
      BY <1>0, <1>2, <2>4
    <3>2. Bodies' /\ ConnOrder'
      BY <1>0, <1>2, <1>s, <2>1, <2>3, SendsWhole DEF StreamInv
    <3>3. ResendsFirst' /\ InOrder' /\ ~Sound'
      BY <1>0, <3>1, <2>4 DEF ResendsFirst, Resuming, InOrder, Sound
    <3> QED BY <3>2, <3>3 DEF StreamInv
  <2>5. CASE phase = "receiving"
    <3>1. Attached
      BY <1>2, <2>5 DEF Attached
    <3>2. Transmitted = max_sent_seqn /\ Transmitted' = max_sent_seqn + 1
      BY <1>0, <1>t DEF Transmitted, Sent, Resuming
    <3>3. UNCHANGED overtaken
      <4>1. overtaken \in BOOLEAN
        BY <1>t DEF TypeOK
      <4> QED BY <4>1, <1>0, <2>5
    <3> QED BY <1>0, <2>1, <2>3, <3>1, <3>2, <3>3, StreamAppend
  <2>6. phase # "offline"
    BY <1>2, <1>s DEF StreamInv, ConnOrder
  <2> QED BY <1>t, <2>4, <2>5, <2>6 DEF TypeOK, Resuming
<1> QED BY <1>1, <1>2

LEMMA StreamResend ==
  ASSUME WireInv, StreamInv, Resend
  PROVE  StreamInv'
<1>0. /\ UNCHANGED <<thread, pending_queue, max_sent_seqn, current_seqn, acknowledged_seqn,
                     socket, phase, live, acks, peer, reading, max_received_seqn, torn,
                     dispatched, overtaken>>
      /\ Resuming /\ resent < Len(pending_queue) /\ resent' = resent + 1
  BY DEF Resend, Transmit, buffer, target, seqns
<1>t. TypeOK /\ Threads /\ Bookkeeping
  BY DEF WireInv
<1>1. CASE socket \notin live
  <2>1. UNCHANGED msgs /\ ~Attached
    BY <1>1 DEF Resend, Transmit, Attached
  <2> QED BY <1>0, <2>1, StreamFrame
<1>2. CASE socket \in live
  <2> DEFINE e == [seqn |-> current_seqn + resent, body |-> pending_queue[resent + 1]]
  <2>1. msgs' = [msgs EXCEPT ![socket] = Append(@, e)]
    BY <1>2 DEF Resend, Transmit
  <2>2. resent + 1 \in 1..Len(pending_queue)
    BY <1>0, <1>t, StreamTypes, LenProperties DEF TypeOK
  <2>3. pending_queue[resent + 1] = current_seqn + resent
    <3>1. pending_queue[resent + 1] = current_seqn + (resent + 1) - 1
      BY <1>t, <2>2 DEF Bookkeeping, Consecutive
    <3> QED BY <3>1, StreamTypes
  <2>4. pending_queue[resent + 1] \in 1..MaxPuts
    BY <1>t, <2>2, ElementOfSeq DEF TypeOK
  <2>5. e \in Package /\ e.body = e.seqn /\ e.seqn = current_seqn + resent
    BY <2>3, <2>4 DEF Package
  <2> HIDE DEF e
  <2>6. Attached
    BY <1>0, <1>2 DEF Attached, Resuming
  <2>7. e.seqn = Transmitted + 1 /\ Transmitted' = Transmitted + 1
    <3>1. Transmitted = current_seqn + resent - 1 /\ Transmitted' = current_seqn + (resent + 1) - 1
      BY <1>0 DEF Transmitted, Resuming
    <3>2. \A c, r \in Nat : c + r = (c + r - 1) + 1 /\ c + (r + 1) - 1 = (c + r - 1) + 1
      OBVIOUS
    <3> QED BY <2>5, <3>1, <3>2, StreamTypes
  <2> QED BY <1>0, <2>1, <2>5, <2>6, <2>7, StreamAppend
<1> QED BY <1>1, <1>2

(* The wire's thread.                                                      *)
LEMMA StreamConnect ==
  ASSUME WireInv, StreamInv, Connect
  PROVE  StreamInv'
<1>0. /\ UNCHANGED <<thread, max_sent_seqn, acknowledged_seqn, live, msgs, acks, peer, reading,
                     max_received_seqn, torn, dispatched, overtaken>>
      /\ phase = "offline" /\ phase' = "connecting" /\ socket' = socket + 1 /\ socket < MaxConns
  BY DEF Connect, buffer, seqns, link, target
<1>t. socket \in Nat /\ Conns \subseteq Nat /\ socket' \in Conns
  BY <1>0, StreamTypes, WireAssumption DEF Conns
<1>1. \A c \in Conns : /\ c > socket' => c > socket
                       /\ c < socket' => c < socket \/ c = socket
  BY <1>0, <1>t
<1>2. Bodies' /\ ResendsFirst' /\ InOrder' /\ (Sound' <=> Sound) /\ ~Attached'
  BY <1>0 DEF StreamInv, Bodies, ResendsFirst, Resuming, InOrder, Sound, Attached
<1>3. ConnOrder'
  <2>1. ConnOrder
    BY DEF StreamInv
  <2> QED BY <1>0, <1>1, <2>1 DEF ConnOrder
<1>4. ASSUME Sound  PROVE Consecutively' /\ NoGap' /\ Received'
  <2>1. Consecutively /\ NoGap /\ Received /\ ConnOrder
    BY <1>4 DEF StreamInv
  <2>2. msgs[socket'] = <<>> /\ acks[socket'] = <<>>
    <3>1. socket' > socket
      BY <1>0, <1>t
    <3> QED BY <1>t, <2>1, <3>1 DEF ConnOrder
  <2>3. Consecutively'
    BY <1>0, <1>2, <2>1, <2>2 DEF Consecutively
  <2> QED BY <1>0, <2>1, <2>3 DEF NoGap, Received
<1> QED BY <1>2, <1>3, <1>4 DEF StreamInv

LEMMA StreamReprocess ==
  ASSUME WireInv, StreamInv, Reprocess
  PROVE  StreamInv'
<1>0. /\ UNCHANGED <<acknowledged_seqn, socket, live, msgs, acks, peer, reading,
                     max_received_seqn, torn, dispatched, overtaken>>
      /\ phase = "connecting" /\ phase' = "resuming" /\ resent' = 0
      /\ current_seqn' = MaxOf(current_seqn, acknowledged_seqn + 1)
  BY DEF Reprocess, link, target
<1>1. current_seqn' = acknowledged_seqn + 1
  <2>1. current_seqn - 1 <= acknowledged_seqn
    BY DEF WireInv
  <2> QED BY <1>0, <2>1, StreamTypes DEF MaxOf
<1>2. acknowledged_seqn = current_seqn' - 1 /\ Transmitted' = acknowledged_seqn
  <2>1. \A a \in Nat : a = (a + 1) - 1 /\ (a + 1) + 0 - 1 = a
    OBVIOUS
  <2> QED BY <1>0, <1>1, <2>1, StreamTypes DEF Transmitted, Resuming
<1>3. Bodies' /\ ConnOrder' /\ ResendsFirst' /\ InOrder' /\ (Sound' <=> Sound)
  BY <1>0, <1>2 DEF StreamInv, Bodies, ConnOrder, ResendsFirst, InOrder, Sound
<1>4. ASSUME Sound  PROVE Consecutively' /\ NoGap' /\ Received'
  <2>1. Consecutively /\ NoGap /\ Received
    BY <1>4 DEF StreamInv
  <2>2. msgs[socket] = <<>> /\ acks[socket] = <<>> /\ Len(acks[socket]) = 0
    BY <1>0, <2>1, EmptySeq DEF Consecutively
  <2>3. Transmitted' <= acknowledged_seqn'
    BY <1>0, <1>2, StreamTypes
  <2>4. Consecutively'
    BY <1>0, <2>1, <2>2, <2>3 DEF Consecutively
  <2> QED BY <1>0, <2>1, <2>4 DEF NoGap, Received
<1> QED BY <1>3, <1>4 DEF StreamInv

LEMMA StreamResumed ==
  ASSUME WireInv, StreamInv, Resumed
  PROVE  StreamInv'
<1>0. /\ UNCHANGED <<thread, max_sent_seqn, current_seqn, acknowledged_seqn, socket, live, msgs,
                     acks, peer, reading, max_received_seqn, torn, dispatched, overtaken>>
      /\ Resuming /\ phase = "resuming" /\ phase' = "receiving"
      /\ resent = Len(pending_queue) \/ socket \notin live
  BY DEF Resumed, SendFails, link, target, seqns, Resuming
<1>1. Bodies' /\ ConnOrder' /\ ResendsFirst' /\ InOrder' /\ (Sound' <=> Sound)
  BY <1>0 DEF StreamInv, Bodies, ConnOrder, ResendsFirst, Resuming, InOrder, Sound
<1>2. Attached' => Attached /\ Transmitted' = Transmitted
  <2> SUFFICES ASSUME Attached'  PROVE Attached /\ Transmitted' = Transmitted
    OBVIOUS
  <2>1. Attached /\ resent = Len(pending_queue)
    BY <1>0 DEF Attached
  <2>2. thread # "sent"
    BY <1>0 DEF WireInv, Threads, Processing
  <2>3. Transmitted = current_seqn + Len(pending_queue) - 1 /\ Transmitted' = max_sent_seqn
    BY <1>0, <2>1, <2>2 DEF Transmitted, Sent, Resuming
  <2> QED BY <2>1, <2>3 DEF WireInv, Bookkeeping
<1>3. ASSUME Sound  PROVE Consecutively' /\ NoGap' /\ Received'
  <2>1. Consecutively /\ NoGap /\ Received
    BY <1>3 DEF StreamInv
  <2>2. Consecutively'
    BY <1>0, <1>2, <2>1 DEF Consecutively
  <2> QED BY <1>0, <2>1, <2>2 DEF NoGap, Received
<1> QED BY <1>1, <1>3 DEF StreamInv

LEMMA StreamAcknowledge ==
  ASSUME WireInv, StreamInv, Acknowledge
  PROVE  StreamInv'
<1> DEFINE s == acks[socket]
           h == Head(s)
<1>0. /\ UNCHANGED <<thread, max_sent_seqn, current_seqn, socket, phase, resent, live, msgs,
                     peer, reading, max_received_seqn, torn, dispatched, overtaken>>
      /\ phase = "receiving" /\ s # <<>>
      /\ acknowledged_seqn' = MaxOf(acknowledged_seqn, h)
      /\ acks' = [acks EXCEPT ![socket] = Tail(@)]
  BY DEF Acknowledge, sender, target
<1>t. /\ socket \in Conns /\ acks \in [Conns -> Seq(Nat)]
      /\ acknowledged_seqn \in Nat /\ max_received_seqn \in Nat
      /\ \A c \in Conns : acks[c] = <<>> <=> Len(acks[c]) = 0
  BY <1>0, StreamTypes DEF WireInv, Threads
<1>1. /\ Len(s) \in Nat \ {0} /\ Len(Tail(s)) = Len(s) - 1 /\ h = s[1] /\ h \in Nat
      /\ \A i \in 1..(Len(s) - 1) : Tail(s)[i] = s[i + 1]
  BY <1>0, <1>t, HeadTailProperties, EmptySeq
<1>2. /\ acks'[socket] = Tail(s)
      /\ \A c \in Conns : c # socket => acks'[c] = acks[c]
  BY <1>0, <1>t
<1> HIDE DEF h
<1>3. /\ \A i \in 1..Len(Tail(s)) : i + 1 \in 1..Len(s) /\ Tail(s)[i] = s[i + 1]
      /\ 1 \in 1..Len(s)
  BY <1>1
<1> HIDE DEF s
<1>4. acknowledged_seqn' >= acknowledged_seqn /\ acknowledged_seqn' \in {acknowledged_seqn, h}
      /\ acknowledged_seqn' \in Nat
  BY <1>0, <1>t, <1>1 DEF MaxOf
<1>5. Bodies' /\ ResendsFirst' /\ InOrder' /\ (Sound' <=> Sound)
  BY <1>0 DEF StreamInv, Bodies, ResendsFirst, Resuming, InOrder, Sound
<1>6. ConnOrder'
  <2>1. ConnOrder
    BY DEF StreamInv
  <2>2. ~(socket < socket) /\ ~(socket > socket)
    BY <1>t, StreamTypes
  <2> QED BY <1>0, <1>2, <2>1, <2>2 DEF ConnOrder
<1>7. (Attached' <=> Attached) /\ Transmitted' = Transmitted /\ Transmitted \in Nat
  <2>1. UNCHANGED Transmitted
    BY <1>0 DEF Transmitted, Sent, Resuming
  <2> QED BY <1>0, <2>1, StreamTypes DEF Attached
<1>8. ASSUME Sound  PROVE Consecutively' /\ NoGap' /\ Received'
  <2>1. Consecutively /\ NoGap /\ Received
    BY <1>8 DEF StreamInv
  <2>2. Consecutively'
    <3>1. Transmitted <= acknowledged_seqn => Transmitted <= acknowledged_seqn'
      BY <1>t, <1>4, <1>7
    <3>2. Attached => \A i \in 1..Len(Tail(s)) : Tail(s)[i] <= Transmitted
      BY <1>3, <2>1 DEF Consecutively, s
    <3> QED BY <1>0, <1>2, <1>7, <2>1, <3>1, <3>2 DEF Consecutively
  <2>3. NoGap'
    <3> SUFFICES ASSUME NEW c \in Conns, c >= peer, msgs[c] # <<>>
                 PROVE  /\ \/ msgs[c][1].seqn <= acknowledged_seqn' + 1
                           \/ c = peer /\ msgs[c][1].seqn = max_received_seqn + 1
                        /\ msgs[c][1].seqn # 1
      BY <1>0 DEF NoGap
    <3>1. msgs[c][1].seqn \in Int
      <4>1. msgs[c] \in Seq(Package)
        BY StreamTypes
      <4>2. msgs[c][1] \in Package
        BY <4>1, HeadTailProperties
      <4> QED BY <4>2 DEF Package
    <3>2. msgs[c][1].seqn <= acknowledged_seqn + 1 => msgs[c][1].seqn <= acknowledged_seqn' + 1
      BY <3>1, <1>t, <1>4
    <3>3. s = acks[socket] /\ s # <<>>
      BY <1>0 DEF s
    <3> QED BY <2>1, <3>2, <3>3, <1>t DEF NoGap
  <2>4. Received'
    <3>1. h <= max_received_seqn
      BY <1>1, <1>3, <1>t, <2>1 DEF Received, s
    <3>2. acknowledged_seqn' <= max_received_seqn
      BY <1>4, <2>1, <3>1 DEF Received
    <3>3. \A c \in Conns : \A i \in 1..Len(acks'[c]) : acks'[c][i] <= max_received_seqn
      <4>1. \A i \in 1..Len(Tail(s)) : Tail(s)[i] <= max_received_seqn
        BY <1>3, <1>t, <2>1 DEF Received, s
      <4> QED BY <1>2, <2>1, <4>1 DEF Received
    <3> QED BY <1>0, <2>1, <3>2, <3>3 DEF Received
  <2> QED BY <2>2, <2>3, <2>4
<1> QED BY <1>5, <1>6, <1>8 DEF StreamInv

LEMMA StreamDisconnected ==
  ASSUME WireInv, StreamInv, Disconnected
  PROVE  StreamInv'
<1>0. /\ UNCHANGED <<acknowledged_seqn, socket, live, msgs, acks, peer, reading,
                     max_received_seqn, torn, dispatched, overtaken>>
      /\ phase' = "offline" /\ socket \notin live /\ acks[socket] = <<>>
  BY DEF Disconnected, link, target, seqns
<1>1. Bodies' /\ ResendsFirst' /\ InOrder' /\ (Sound' <=> Sound) /\ ~Attached'
  BY <1>0 DEF StreamInv, Bodies, ResendsFirst, Resuming, InOrder, Sound, Attached
<1>2. ConnOrder'
  BY <1>0 DEF StreamInv, ConnOrder
<1>3. ASSUME Sound  PROVE Consecutively' /\ NoGap' /\ Received'
  BY <1>0, <1>1, <1>3 DEF StreamInv, Consecutively, NoGap, Received
<1> QED BY <1>1, <1>2, <1>3 DEF StreamInv

(* A connection breaks: what is left in it was there before.               *)
LEMMA BrokenKeeps ==
  ASSUME WireInv, NEW c \in Conns, Breaks(c), NEW d \in Conns
  PROVE  /\ d # c => msgs'[d] = msgs[d] /\ acks'[d] = acks[d]
         /\ msgs'[d] # <<>> => msgs[d] # <<>> /\ msgs'[d][1] = msgs[d][1]
         /\ Numbered(msgs[d]) => Numbered(msgs'[d])
         /\ Whole(msgs[d]) => Whole(msgs'[d])
         /\ acks[d] = <<>> => acks'[d] = <<>>
         /\ \A i \in 1..Len(acks'[d]) : i \in 1..Len(acks[d]) /\ acks'[d][i] = acks[d][i]
<1>t. msgs \in [Conns -> Seq(Package)] /\ acks \in [Conns -> Seq(Nat)]
  BY StreamTypes
<1>1. PICK k \in 0..Len(msgs[c]) : msgs' = [msgs EXCEPT ![c] = SubSeq(@, 1, k)]
  BY DEF Breaks
<1>2. PICK j \in 0..Len(acks[c]) : acks' = [acks EXCEPT ![c] = SubSeq(@, 1, j)]
  BY DEF Breaks
<1>3. CASE d # c
  <2>1. msgs'[d] = msgs[d] /\ acks'[d] = acks[d]
    BY <1>t, <1>1, <1>2, <1>3
  <2> QED BY <2>1
<1>4. CASE d = c
  <2>1. msgs'[c] = SubSeq(msgs[c], 1, k) /\ acks'[c] = SubSeq(acks[c], 1, j)
    BY <1>t, <1>1, <1>2
  <2>2. msgs[c] \in Seq(Package) /\ acks[c] \in Seq(Nat)
    BY <1>t
  <2>3. /\ msgs'[c] # <<>> => msgs[c] # <<>> /\ msgs'[c][1] = msgs[c][1]
        /\ Numbered(msgs[c]) => Numbered(msgs'[c])
        /\ Whole(msgs[c]) => Whole(msgs'[c])
    BY <2>1, <2>2, NumberedCut
  <2>4. /\ acks[c] = <<>> => acks'[c] = <<>>
        /\ \A i \in 1..Len(acks'[c]) : i \in 1..Len(acks[c]) /\ acks'[c][i] = acks[c][i]
    BY <2>1, <2>2, NumberedCut
  <2> QED BY <1>4, <2>3, <2>4
<1> QED BY <1>3, <1>4

LEMMA StreamBreaks ==
  ASSUME WireInv, StreamInv, NEW c \in Conns, Breaks(c),
         UNCHANGED <<thread, max_sent_seqn, current_seqn, acknowledged_seqn, socket, phase, resent,
                     peer, reading, max_received_seqn, torn, dispatched, overtaken>>
  PROVE  StreamInv'
<1>0. live' = live \ {c}
  BY DEF Breaks
<1>1. UNCHANGED Transmitted
  BY DEF Transmitted, Sent, Resuming
<1>2. Bodies'
  BY BrokenKeeps DEF StreamInv, Bodies
<1>3. ConnOrder'
  <2>1. \A d \in Conns : /\ msgs[d] = <<>> => msgs'[d] = <<>>
                         /\ acks[d] = <<>> => acks'[d] = <<>>
    BY BrokenKeeps
  <2> QED BY <1>0, <2>1 DEF StreamInv, ConnOrder
<1>4. ResendsFirst' /\ InOrder' /\ (Sound' <=> Sound)
  BY DEF StreamInv, ResendsFirst, Resuming, InOrder, Sound
<1>5. ASSUME Sound  PROVE Consecutively' /\ NoGap' /\ Received'
  <2>1. Consecutively /\ NoGap /\ Received
    BY <1>5 DEF StreamInv
  <2>2. Consecutively'
    <3>1. \A d \in Conns : Numbered(msgs'[d])
      BY <2>1, BrokenKeeps DEF Consecutively
    <3>2. phase = "connecting" => msgs'[socket] = <<>> /\ acks'[socket] = <<>>
      BY <2>1, BrokenKeeps DEF Consecutively, WireInv, Threads
    <3>3. Attached' => Attached /\ msgs'[socket] = msgs[socket] /\ acks'[socket] = acks[socket]
      <4> SUFFICES ASSUME Attached'
                   PROVE  Attached /\ msgs'[socket] = msgs[socket] /\ acks'[socket] = acks[socket]
        OBVIOUS
      <4>1. Attached /\ socket # c
        BY <1>0 DEF Attached
      <4>2. socket \in Conns
        BY <4>1, AckedTransmitted
      <4> QED BY <4>1, <4>2, BrokenKeeps
    <3> QED BY <1>1, <2>1, <3>1, <3>2, <3>3 DEF Consecutively
  <2>3. NoGap'
    <3>1. \A d \in Conns : /\ msgs'[d] # <<>> => msgs[d] # <<>> /\ msgs'[d][1] = msgs[d][1]
                           /\ acks[d] = <<>> => acks'[d] = <<>>
      BY BrokenKeeps
    <3> QED BY <2>1, <3>1 DEF NoGap
  <2>4. Received'
    <3>1. \A d \in Conns : \A i \in 1..Len(acks'[d]) :
            i \in 1..Len(acks[d]) /\ acks'[d][i] = acks[d][i]
      BY BrokenKeeps
    <3> QED BY <2>1, <3>1 DEF Received
  <2> QED BY <2>2, <2>3, <2>4
<1> QED BY <1>2, <1>3, <1>4, <1>5 DEF StreamInv

LEMMA StreamBroken ==
  ASSUME WireInv, StreamInv, Terminate \/ \E c \in Conns : Break(c)
  PROVE  StreamInv'
<1>1. CASE \E c \in Conns : Break(c)
  <2>1. PICK c \in Conns : Break(c)
    BY <1>1
  <2> QED BY <2>1, StreamBreaks DEF Break, buffer, seqns, sender, target
<1>2. CASE Terminate
  <2>1. UNCHANGED <<thread, max_sent_seqn, current_seqn, acknowledged_seqn, socket, phase, resent,
                    peer, reading, max_received_seqn, torn, dispatched, overtaken>>
    BY <1>2 DEF Terminate, seqns, sender, target
  <2>2. CASE socket = 0
    <3>1. UNCHANGED <<live, msgs, acks>>
      BY <1>2, <2>2 DEF Terminate, link
    <3>2. UNCHANGED Transmitted
      BY <2>1 DEF Transmitted, Sent, Resuming
    <3> QED BY <2>1, <3>1, <3>2, StreamFrame
  <2>3. CASE socket # 0
    <3>1. socket \in Conns
      BY <2>3 DEF WireInv, TypeOK, Conns
    <3>2. Breaks(socket)
      BY <1>2, <2>3 DEF Terminate
    <3> QED BY <2>1, <3>1, <3>2, StreamBreaks
  <2> QED BY <2>2, <2>3
<1> QED BY <1>1, <1>2

(* The receiving end takes the next connection, or leaves its own.         *)
LEMMA StreamPeer ==
  ASSUME WireInv, StreamInv, PeerConnects \/ PeerDisconnected
  PROVE  StreamInv'
<1>0. UNCHANGED <<thread, max_sent_seqn, current_seqn, acknowledged_seqn, socket, phase, resent,
                  live, msgs, acks, max_received_seqn, torn, dispatched, overtaken>>
  BY DEF PeerConnects, PeerDisconnected, buffer, seqns, sender, link
<1>t. peer \in Nat /\ Conns \subseteq Nat
  BY StreamTypes
<1>1. /\ \/ peer' = peer /\ reading /\ ~reading' /\ peer \notin live /\ msgs[peer] = <<>>
         \/ peer' = peer + 1 /\ ~reading /\ reading'
  BY DEF PeerConnects, PeerDisconnected
<1>2. \A c \in Conns : /\ c < peer' => c < peer \/ c = peer
                       /\ c >= peer' => c >= peer
                       /\ c >= peer' /\ peer' # peer => c # peer
  <2>1. \A c, p, q \in Nat :
          q = p \/ q = p + 1 =>
            /\ c < q => c < p \/ c = p
            /\ c >= q => c >= p
            /\ c >= q /\ q # p => c # p
    OBVIOUS
  <2>2. peer' \in Nat /\ (peer' = peer \/ peer' = peer + 1)
    BY <1>1, <1>t
  <2> QED BY <1>t, <2>1, <2>2
<1>3. Bodies' /\ ResendsFirst' /\ InOrder' /\ (Sound' <=> Sound) /\ (Attached' <=> Attached)
      /\ Transmitted' = Transmitted
  BY <1>0 DEF StreamInv, Bodies, ResendsFirst, Resuming, InOrder, Sound, Attached, Transmitted, Sent
<1>4. ConnOrder'
  <2>1. ConnOrder
    BY DEF StreamInv
  <2>2. ASSUME NEW c \in Conns, c < peer' \/ (c = peer' /\ ~reading')
        PROVE  c \notin live /\ msgs[c] = <<>>
    <3>1. CASE peer' = peer
      BY <1>1, <1>t, <2>1, <2>2, <3>1 DEF ConnOrder
    <3>2. CASE peer' = peer + 1
      <4>1. ~reading /\ reading'
        BY <1>1, <1>t, <3>2
      <4> QED BY <1>2, <2>1, <2>2, <4>1 DEF ConnOrder
    <3> QED BY <1>1, <3>1, <3>2
  <2> QED BY <1>0, <2>1, <2>2 DEF ConnOrder
<1>5. ASSUME Sound  PROVE Consecutively' /\ NoGap' /\ Received'
  <2>1. Consecutively /\ NoGap /\ Received
    BY <1>5 DEF StreamInv
  <2>2. Consecutively'
    <3>1. Attached /\ peer = socket => peer' = peer
      <4> SUFFICES ASSUME Attached, peer = socket, peer' # peer  PROVE FALSE
        OBVIOUS
      <4>1. ~reading
        BY <1>1
      <4> QED BY <4>1, AckedTransmitted DEF StreamInv, ConnOrder, Attached
    <3> QED BY <1>0, <1>3, <2>1, <3>1 DEF Consecutively
  <2>3. NoGap'
    <3> SUFFICES ASSUME NEW c \in Conns, c >= peer', msgs[c] # <<>>
                 PROVE  /\ \/ msgs[c][1].seqn <= acknowledged_seqn + 1
                           \/ c = peer' /\ msgs[c][1].seqn = max_received_seqn + 1
                        /\ msgs[c][1].seqn = 1 => /\ acknowledged_seqn = 0
                                                  /\ \A d \in Conns : acks[d] = <<>>
      BY <1>0 DEF NoGap
    <3> QED BY <1>2, <2>1 DEF NoGap
  <2> QED BY <1>0, <2>1, <2>2, <2>3 DEF Received
<1> QED BY <1>3, <1>4, <1>5 DEF StreamInv

(* A package that is read and not refused is the next one, or the first    *)
(* again.                                                                  *)
LEMMA ReadsNext ==
  ASSUME WireInv, StreamInv, Sound, reading, msgs[peer] # <<>>,
         ~(msgs[peer][1].seqn <= max_received_seqn /\ msgs[peer][1].seqn # 1)
  PROVE  \/ msgs[peer][1].seqn = max_received_seqn + 1
         \/ /\ msgs[peer][1].seqn = 1 /\ acknowledged_seqn = 0
            /\ \A c \in Conns : acks[c] = <<>>
<1>1. peer \in Conns /\ peer \in Nat /\ acknowledged_seqn \in Nat /\ max_received_seqn \in Nat
  BY StreamTypes DEF WireInv, Threads
<1>2. msgs[peer][1].seqn \in Nat
  <2>1. msgs[peer] \in Seq(Package)
    BY <1>1, StreamTypes
  <2>2. msgs[peer][1] \in Package
    BY <2>1, HeadTailProperties
  <2> QED BY <2>2 DEF Package
<1>3. NoGap /\ Received /\ peer >= peer
  BY <1>1 DEF StreamInv
<1>4. /\ \/ msgs[peer][1].seqn <= acknowledged_seqn + 1
         \/ msgs[peer][1].seqn = max_received_seqn + 1
      /\ msgs[peer][1].seqn = 1 => acknowledged_seqn = 0 /\ \A c \in Conns : acks[c] = <<>>
  BY <1>1, <1>3 DEF NoGap
<1>5. acknowledged_seqn <= max_received_seqn
  BY <1>3 DEF Received
<1>6. \A q, a, r \in Nat : a <= r /\ (q <= a + 1 \/ q = r + 1) /\ ~(q <= r /\ q # 1)
                           => q = r + 1 \/ q = 1
  OBVIOUS
<1> QED BY <1>1, <1>2, <1>4, <1>5, <1>6

(* The state after a package was read.                                     *)
LEMMA ReadEffect ==
  ASSUME WireInv, StreamInv, ReadPackage
  PROVE  LET s == msgs[peer] IN
         /\ peer \in Conns /\ reading /\ s \in Seq(Package) /\ s # <<>> /\ Whole(s) /\ Head(s) = s[1]
         /\ msgs'[peer] = Tail(s)
         /\ peer \in live => acks'[peer] = Append(acks[peer], s[1].seqn)
         /\ peer \notin live => acks'[peer] = acks[peer]
         /\ \A c \in Conns : c # peer => msgs'[c] = msgs[c] /\ acks'[c] = acks[c]
         /\ UNCHANGED <<thread, max_sent_seqn, current_seqn, acknowledged_seqn, socket, phase, resent,
                        live, peer, reading, overtaken>>
         /\ peer \in live => peer = socket /\ phase # "offline"
<1> DEFINE s == msgs[peer]
<1>1. peer \in Conns /\ reading /\ s # <<>>
  BY DEF ReadPackage, WireInv, Threads
<1>2. msgs \in [Conns -> Seq(Package)] /\ acks \in [Conns -> Seq(Nat)] /\ socket \in Nat
      /\ Conns \subseteq Nat
  BY StreamTypes
<1>3. s \in Seq(Package) /\ Whole(s) /\ Head(s) = s[1]
  BY <1>1, <1>2, HeadTailProperties DEF StreamInv, Bodies
<1>4. msgs' = [msgs EXCEPT ![peer] = Tail(@)] /\ SendAck(s[1].seqn)
  BY <1>3 DEF ReadPackage
<1>5. UNCHANGED <<thread, max_sent_seqn, current_seqn, acknowledged_seqn, socket, phase, resent,
                  live, peer, reading, overtaken>>
  BY DEF ReadPackage, buffer, seqns, sender
<1>6. peer \in live => peer = socket /\ phase # "offline"
  <2> SUFFICES ASSUME peer \in live  PROVE peer = socket /\ phase # "offline"
    OBVIOUS
  <2>1. ~(peer > socket) /\ ~(peer < socket \/ (peer = socket /\ phase = "offline"))
    BY <1>1 DEF StreamInv, ConnOrder
  <2> QED BY <1>1, <1>2, <2>1
<1> HIDE DEF s
<1>7. /\ peer \in live => acks'[peer] = Append(acks[peer], s[1].seqn)
      /\ peer \notin live => acks'[peer] = acks[peer]
      /\ \A c \in Conns : c # peer => acks'[c] = acks[c]
  BY <1>1, <1>2, <1>4 DEF SendAck
<1>8. msgs'[peer] = Tail(s) /\ \A c \in Conns : c # peer => msgs'[c] = msgs[c]
  BY <1>1, <1>2, <1>4 DEF s
<1> QED BY <1>1, <1>3, <1>5, <1>6, <1>7, <1>8 DEF s

LEMMA StreamReadShape ==
  ASSUME WireInv, StreamInv, ReadPackage
  PROVE  Bodies' /\ ConnOrder' /\ ResendsFirst'
<1> DEFINE s == msgs[peer]
<1>0. /\ peer \in Conns /\ reading /\ s \in Seq(Package) /\ s # <<>> /\ Whole(s)
      /\ msgs'[peer] = Tail(s)
      /\ peer \notin live => acks'[peer] = acks[peer]
      /\ \A c \in Conns : c # peer => msgs'[c] = msgs[c] /\ acks'[c] = acks[c]
      /\ UNCHANGED <<current_seqn, acknowledged_seqn, socket, phase, live, peer, reading>>
      /\ peer \in live => peer = socket /\ phase # "offline"
  BY ReadEffect
<1>t. peer \in Nat /\ socket \in Nat
  BY StreamTypes
<1>1. Bodies'
  <2>1. Whole(Tail(s))
    <3>1. /\ Len(Tail(s)) = Len(s) - 1 /\ Len(s) \in Nat
          /\ \A i \in 1..(Len(s) - 1) : Tail(s)[i] = s[i + 1] 
      BY <1>0, HeadTailProperties, LenProperties
    <3> HIDE DEF s
    <3>2. \A i \in 1..(Len(s) - 1) : i + 1 \in 1..Len(s)
      BY <3>1
    <3> QED BY <1>0, <3>1, <3>2 DEF Whole
  <2> QED BY <1>0, <2>1 DEF StreamInv, Bodies
<1>2. ConnOrder'
  <2>1. ConnOrder
    BY DEF StreamInv
  <2>2. \A c \in Conns : c = peer => /\ ~(c > socket)
                                    /\ ~(c < peer \/ (c = peer /\ ~reading))
    BY <1>0, <1>t, <2>1 DEF ConnOrder
  <2>3. ASSUME peer < socket \/ (peer = socket /\ phase = "offline")
        PROVE  peer \notin live /\ acks'[peer] = <<>>
    BY <1>0, <1>t, <2>1, <2>3 DEF ConnOrder
  <2> QED BY <1>0, <2>1, <2>2, <2>3 DEF ConnOrder
<1>3. ResendsFirst'
  BY <1>0 DEF StreamInv, ResendsFirst, Resuming
<1> QED BY <1>1, <1>2, <1>3

(* The message that is read goes to the end of what was dispatched.        *)
LEMMA StreamDispatch ==
  ASSUME WireInv, StreamInv, ReadPackage, Sound,
         dispatched' = Append(dispatched, msgs[peer][1].seqn),
         max_received_seqn' = msgs[peer][1].seqn,
         ~(msgs[peer][1].seqn <= max_received_seqn /\ msgs[peer][1].seqn # 1)
  PROVE  InOrder' /\ Received'
<1> DEFINE s == msgs[peer]
           q == s[1].seqn
           n == Len(dispatched)
<1>0. /\ peer \in Conns /\ reading /\ s # <<>> /\ s \in Seq(Package)
      /\ peer \in live => acks'[peer] = Append(acks[peer], q)
      /\ peer \notin live => acks'[peer] = acks[peer]
      /\ \A c \in Conns : c # peer => acks'[c] = acks[c]
      /\ UNCHANGED <<acknowledged_seqn, overtaken>>
  BY ReadEffect
<1>1. \/ q = max_received_seqn + 1
      \/ q = 1 /\ acknowledged_seqn = 0 /\ \A c \in Conns : acks[c] = <<>>
  BY <1>0, ReadsNext
<1>t. /\ acknowledged_seqn \in Nat /\ max_received_seqn \in Nat
      /\ acks \in [Conns -> Seq(Nat)] /\ dispatched \in Seq(Nat)
  <2>1. dispatched \in Seq(1..MaxPuts) /\ 1..MaxPuts \subseteq Nat
    BY DEF WireInv, TypeOK
  <2> QED BY <2>1, SeqMonotonic, StreamTypes
<1>q. q \in Nat \ {0}
  <2>1. s[1] \in Package
    BY <1>0, HeadTailProperties
  <2> QED BY <2>1 DEF Package
<1>r. Received /\ InOrder /\ ~overtaken
  BY DEF StreamInv, Sound
<1>d. /\ n \in Nat /\ Len(dispatched') = n + 1 /\ dispatched'[n + 1] = q
      /\ \A i \in 1..n : dispatched'[i] = dispatched[i] /\ dispatched[i] \in Nat
      /\ dispatched = <<>> <=> n = 0
      /\ dispatched' # <<>>
  BY <1>t, <1>q, AppendProperties, LenProperties, ElementOfSeq, EmptySeq
<1>R. max_received_seqn' = q /\ UNCHANGED acknowledged_seqn
  BY <1>0
<1> HIDE DEF q, n, s
<1>i. \A i \in 1..(n + 1) : i \in 1..n \/ i = n + 1
  BY <1>d
<1>2. InOrder'
  <2> SUFFICES ASSUME NEW i \in 1..(n + 1)
               PROVE  dispatched'[i] = 1 \/ (i > 1 /\ dispatched'[i] = dispatched'[i - 1] + 1)
    <3>1. DOMAIN dispatched' = 1..(n + 1)
      <4>1. dispatched' \in Seq(Nat)
        BY <1>t, <1>q, AppendProperties DEF q, s
      <4> QED BY <4>1, <1>d, LenProperties
    <3> QED BY <3>1 DEF InOrder
  <2>1. CASE i \in 1..n
    <3>1. DOMAIN dispatched = 1..n
      BY <1>t, LenProperties DEF n
    <3>2. dispatched[i] = 1 \/ (i > 1 /\ dispatched[i] = dispatched[i - 1] + 1)
      BY <1>r, <2>1, <3>1 DEF InOrder
    <3>3. i > 1 => i - 1 \in 1..n
      BY <2>1, <1>d
    <3> QED BY <1>d, <2>1, <3>2, <3>3
  <2>2. CASE i = n + 1
    <3>1. CASE q = 1
      BY <2>2, <3>1, <1>d
    <3>2. CASE q # 1 /\ q = max_received_seqn + 1
      <4>1. dispatched # <<>>
        BY <3>2, <1>r, <1>t DEF Received
      <4>2. dispatched[n] = max_received_seqn /\ n # 0
        BY <4>1, <1>r, <1>d DEF Received, n
      <4>3. n \in 1..n /\ (n + 1) - 1 = n /\ n + 1 > 1
        BY <4>2, <1>d
      <4> QED BY <2>2, <3>2, <4>2, <4>3, <1>d
    <3> QED BY <1>1, <3>1, <3>2
  <2> QED BY <1>i, <2>1, <2>2
<1>3. acknowledged_seqn <= q
  BY <1>1, <1>r, <1>t, <1>q DEF Received
<1>4. ASSUME NEW c \in Conns, NEW i \in 1..Len(acks'[c])  PROVE acks'[c][i] <= q
  <2>1. \A j \in 1..Len(acks[c]) : acks[c][j] <= q
    <3>1. ASSUME NEW j \in 1..Len(acks[c])  PROVE acks[c][j] <= q
      <4>1. acks[c] \in Seq(Nat)
        BY <1>t
      <4>2. acks[c][j] \in Nat /\ acks[c] # <<>>
        BY <4>1, ElementOfSeq, EmptySeq
      <4>3. q = max_received_seqn + 1 /\ acks[c][j] <= max_received_seqn
        BY <4>2, <1>1, <1>r DEF Received
      <4> QED BY <4>2, <4>3, <1>t
    <3> QED BY <3>1
  <2>2. acks'[c] = acks[c] \/ acks'[c] = Append(acks[c], q)
    BY <1>0
  <2>3. CASE acks'[c] = Append(acks[c], q)
    <3>1. acks[c] \in Seq(Nat)
      BY <1>t
    <3>2. /\ Len(acks'[c]) = Len(acks[c]) + 1 /\ acks'[c][Len(acks[c]) + 1] = q
          /\ \A j \in 1..Len(acks[c]) : acks'[c][j] = acks[c][j]
          /\ Len(acks[c]) \in Nat
      BY <2>3, <3>1, <1>q, AppendProperties, LenProperties
    <3>3. i \in 1..Len(acks[c]) \/ i = Len(acks[c]) + 1
      BY <3>2
    <3> QED BY <2>1, <3>2, <3>3, <1>q
  <2> QED BY <2>1, <2>2, <2>3
<1>5. ASSUME NEW m \in 1..q  PROVE \E i \in 1..(n + 1) : dispatched'[i] = m
  <2>1. CASE m = q
    <3>1. n + 1 \in 1..(n + 1)
      BY <1>d
    <3> QED BY <2>1, <3>1, <1>d
  <2>2. CASE m # q
    <3>1. m \in 1..max_received_seqn
      BY <2>2, <1>1, <1>t, <1>q
    <3>2. PICK i \in 1..n : dispatched[i] = m
      BY <3>1, <1>r DEF Received, n
    <3>3. i \in 1..(n + 1)
      BY <1>d
    <3> QED BY <3>2, <3>3, <1>d
  <2> QED BY <2>1, <2>2
<1> QED BY <1>2, <1>3, <1>4, <1>5, <1>d, <1>R DEF Received

LEMMA StreamNoGap ==
  ASSUME WireInv, StreamInv, ReadPackage, Sound,
         max_received_seqn' = msgs[peer][1].seqn
  PROVE  NoGap'
<1> DEFINE s == msgs[peer]
<1>0. /\ peer \in Conns /\ s \in Seq(Package) /\ s # <<>> /\ Whole(s)
      /\ msgs'[peer] = Tail(s)
      /\ peer \notin live => acks'[peer] = acks[peer]
      /\ \A c \in Conns : c # peer => msgs'[c] = msgs[c] /\ acks'[c] = acks[c]
      /\ UNCHANGED <<acknowledged_seqn, socket, live, peer>>
      /\ peer \in live => peer = socket
  BY ReadEffect
<1>t. peer \in Nat /\ socket \in Nat /\ Conns \subseteq Nat
  BY StreamTypes
<1>r. NoGap /\ Consecutively
  BY DEF StreamInv
<1> SUFFICES ASSUME NEW c \in Conns, c >= peer, msgs'[c] # <<>>
             PROVE  /\ \/ msgs'[c][1].seqn <= acknowledged_seqn + 1
                       \/ c = peer /\ msgs'[c][1].seqn = max_received_seqn' + 1
                    /\ msgs'[c][1].seqn = 1 => /\ acknowledged_seqn = 0
                                               /\ \A d \in Conns : acks'[d] = <<>>
  BY <1>0 DEF NoGap
<1>1. CASE c = peer
  <2>1. Numbered(s)
    BY <1>0, <1>r DEF Consecutively
  <2>2. Tail(s)[1].seqn = s[1].seqn + 1 /\ s[1] \in Package
    BY <1>0, <1>1, <2>1, NumberedTail
  <2>3. s[1].seqn \in Nat \ {0}
    BY <2>2 DEF Package
  <2> HIDE DEF s
  <2>4. msgs'[c][1].seqn = s[1].seqn + 1 /\ max_received_seqn' = s[1].seqn
    BY <1>0, <1>1, <2>2 DEF s
  <2>5. s[1].seqn + 1 # 1
    BY <2>3
  <2> QED BY <1>1, <2>4, <2>5
<1>2. CASE c # peer
  <2>1. msgs'[c] = msgs[c] /\ msgs[c] # <<>>
    BY <1>0, <1>2
  <2>2. peer \notin live
    <3>1. ~(c > socket)
      BY <2>1 DEF StreamInv, ConnOrder
    <3>2. peer < socket
      BY <1>t, <1>2, <3>1
    <3> QED BY <1>0, <1>t, <3>2
  <2>3. \A d \in Conns : acks'[d] = acks[d]
    BY <1>0, <2>2
  <2> QED BY <1>2, <1>r, <2>1, <2>3 DEF NoGap
<1> QED BY <1>1, <1>2

LEMMA StreamConsecutively ==
  ASSUME WireInv, StreamInv, ReadPackage, Sound,
         max_received_seqn' = msgs[peer][1].seqn
  PROVE  Consecutively'
<1> DEFINE s == msgs[peer]
<1>0. /\ peer \in Conns /\ s \in Seq(Package) /\ s # <<>> /\ Whole(s)
      /\ msgs'[peer] = Tail(s)
      /\ peer \in live => acks'[peer] = Append(acks[peer], s[1].seqn)
      /\ peer \notin live => acks'[peer] = acks[peer]
      /\ \A c \in Conns : c # peer => msgs'[c] = msgs[c] /\ acks'[c] = acks[c]
      /\ UNCHANGED <<thread, max_sent_seqn, current_seqn, acknowledged_seqn, socket, phase, resent,
                     live, peer, reading>>
  BY ReadEffect
<1>r. Consecutively
  BY DEF StreamInv
<1>1. /\ s[1] \in Package /\ Numbered(Tail(s))
      /\ Tail(s) # <<>> => Tail(s)[Len(Tail(s))] = s[Len(s)]
      /\ Tail(s) = <<>> => s[Len(s)] = s[1]
      /\ s[1].seqn <= s[Len(s)].seqn
  <2>1. Numbered(s)
    BY <1>0, <1>r DEF Consecutively
  <2> QED BY <1>0, <2>1, NumberedTail
<1>2. \A c \in Conns : Numbered(msgs'[c])
  BY <1>0, <1>1, <1>r DEF Consecutively
<1>3. phase = "connecting" => msgs'[socket] = <<>> /\ acks'[socket] = <<>>
  <2> SUFFICES ASSUME phase = "connecting"
               PROVE  msgs'[socket] = <<>> /\ acks'[socket] = <<>>
    OBVIOUS
  <2>1. msgs[socket] = <<>> /\ acks[socket] = <<>> /\ socket \in Conns
    BY <1>r DEF Consecutively, WireInv, Threads
  <2> QED BY <1>0, <2>1
<1>4. (Attached' <=> Attached) /\ Transmitted' = Transmitted /\ Transmitted \in Nat
  <2>1. UNCHANGED Transmitted
    BY <1>0 DEF Transmitted, Sent, Resuming
  <2> QED BY <1>0, <2>1, StreamTypes DEF Attached
<1>5. ASSUME Attached
      PROVE  /\ msgs'[socket] # <<>> => msgs'[socket][Len(msgs'[socket])].seqn = Transmitted
             /\ msgs'[socket] = <<>> => \/ peer = socket /\ max_received_seqn' = Transmitted
                                        \/ Transmitted <= acknowledged_seqn
             /\ \A i \in 1..Len(acks'[socket]) : acks'[socket][i] <= Transmitted
  <2>s. socket \in Conns
    BY <1>5, AckedTransmitted
  <2>r. /\ msgs[socket] # <<>> => msgs[socket][Len(msgs[socket])].seqn = Transmitted
        /\ msgs[socket] = <<>> => \/ peer = socket /\ max_received_seqn = Transmitted
                                  \/ Transmitted <= acknowledged_seqn
        /\ \A i \in 1..Len(acks[socket]) : acks[socket][i] <= Transmitted
    BY <1>5, <1>r DEF Consecutively
  <2>1. CASE socket # peer
    BY <1>0, <2>s, <2>r, <2>1
  <2>2. CASE socket = peer
    <3>1. s[Len(s)].seqn = Transmitted
      BY <1>0, <2>r, <2>2
    <3>2. s[1].seqn \in Nat /\ s[1].seqn <= Transmitted
      <4>1. s[1].seqn \in Nat
        BY <1>1 DEF Package
      <4> QED BY <4>1, <1>1, <3>1
    <3>3. acks[socket] \in Seq(Nat)
      BY <2>s, StreamTypes
    <3>4. acks'[socket] = Append(acks[socket], s[1].seqn) /\ peer \in live
      BY <1>0, <1>5, <2>2 DEF Attached
    <3> HIDE DEF s
    <3>5. /\ Len(acks'[socket]) = Len(acks[socket]) + 1
          /\ acks'[socket][Len(acks[socket]) + 1] = s[1].seqn
          /\ \A j \in 1..Len(acks[socket]) : acks'[socket][j] = acks[socket][j]
          /\ Len(acks[socket]) \in Nat
      BY <3>2, <3>3, <3>4, AppendProperties, LenProperties
    <3>6. \A i \in 1..(Len(acks[socket]) + 1) :
            i \in 1..Len(acks[socket]) \/ i = Len(acks[socket]) + 1
      BY <3>5
    <3>7. \A i \in 1..Len(acks'[socket]) : acks'[socket][i] <= Transmitted
      BY <2>r, <3>2, <3>5, <3>6
    <3>8. msgs'[socket] # <<>> => msgs'[socket][Len(msgs'[socket])].seqn = Transmitted
      BY <1>0, <1>1, <2>2, <3>1
    <3>9. msgs'[socket] = <<>> => max_received_seqn' = Transmitted
      BY <1>0, <1>1, <2>2, <3>1 DEF s
    <3> QED BY <2>2, <3>7, <3>8, <3>9
  <2> QED BY <2>1, <2>2
<1> QED BY <1>0, <1>2, <1>3, <1>4, <1>5 DEF Consecutively

LEMMA StreamReadPackage ==
  ASSUME WireInv, StreamInv, ReadPackage
  PROVE  StreamInv'
<1> DEFINE m == msgs[peer][1]
<1>0. /\ Head(msgs[peer]) = m /\ m.body = m.seqn /\ UNCHANGED overtaken
      /\ reading /\ msgs[peer] # <<>>
  <2>1. /\ msgs[peer] \in Seq(Package) /\ msgs[peer] # <<>> /\ Whole(msgs[peer])
        /\ Head(msgs[peer]) = m /\ UNCHANGED overtaken /\ reading
    BY ReadEffect
  <2>2. 1 \in 1..Len(msgs[peer])
    <3>1. Len(msgs[peer]) \in Nat /\ Len(msgs[peer]) # 0
      BY <2>1, EmptySeq, LenProperties
    <3> QED BY <3>1
  <2> QED BY <2>1, <2>2 DEF Whole
<1>1. Bodies' /\ ConnOrder' /\ ResendsFirst'
  BY StreamReadShape
<1>2. CASE m.seqn <= max_received_seqn /\ m.seqn # 1
  <2>1. torn' /\ UNCHANGED dispatched
    BY <1>0, <1>2 DEF ReadPackage
  <2> QED BY <1>0, <1>1, <2>1 DEF StreamInv, InOrder, Sound
<1>3. CASE ~(m.seqn <= max_received_seqn /\ m.seqn # 1)
  <2>1. /\ max_received_seqn' = m.seqn /\ UNCHANGED torn
        /\ dispatched' = IF torn THEN dispatched ELSE Append(dispatched, m.seqn)
    BY <1>0, <1>3 DEF ReadPackage
  <2>2. CASE Sound
    <3>1. dispatched' = Append(dispatched, m.seqn)
      BY <2>1, <2>2 DEF Sound
    <3>2. InOrder' /\ Received'
      BY <1>3, <2>1, <2>2, <3>1, StreamDispatch
    <3> QED BY <1>1, <2>1, <2>2, <3>2, StreamNoGap, StreamConsecutively DEF StreamInv
  <2>3. CASE ~Sound
    <3>1. ~Sound'
      BY <1>0, <2>1, <2>3 DEF Sound
    <3>2. overtaken' \/ UNCHANGED dispatched
      BY <1>0, <2>1, <2>3 DEF Sound
    <3> QED BY <1>0, <1>1, <3>1, <3>2 DEF StreamInv, InOrder
  <2> QED BY <2>2, <2>3
<1> QED BY <1>2, <1>3

LEMMA StepStream ==
  ASSUME WireInv, StreamInv, [Next]_vars
  PROVE  StreamInv'
BY StreamQuiet, StreamSend, StreamResend, StreamConnect, StreamReprocess, StreamResumed,
   StreamAcknowledge, StreamDisconnected, StreamBroken, StreamPeer, StreamReadPackage
DEF Next, AsyncThread, WireThread, PeerThread

LEMMA StreamInvAlways == Spec => []StreamInv
BY InitStream, StepStream, WireInvAlways, PTL DEF Spec

-----------------------------------------------------------------------------
(* THEOREMS *)

(* Every variable keeps its type: no number passes the messages put.       *)
THEOREM WireTypes == Spec => []TypeOK
<1>1. WireInv => TypeOK
  BY DEF WireInv
<1> QED BY <1>1, WireInvAlways, PTL

(* The sender neither loses, repeats nor renumbers a message, whatever     *)
(* fails and however often it reconnects.                                  *)
THEOREM SenderKeepsBooks == Spec => []Bookkeeping
<1>1. WireInv => Bookkeeping
  BY DEF WireInv
<1> QED BY <1>1, WireInvAlways, PTL

(* reprocess() never pops an empty queue.                                  *)
THEOREM NeverPopsEmpty == Spec => []PopsPending
<1>1. WireInv => PopsPending
  BY DEF WireInv
<1> QED BY <1>1, WireInvAlways, PTL

(* The sending end of the wire implements the outbox: it sends in order    *)
(* what was put, and drops only what was acknowledged.                     *)
THEOREM WireImplementsOutbox == Spec => ImplementsOutbox
<1> USE DEF Promised!OutboxNext, Promised!outbox
<1>1. Init => Promised!OutboxInit
  BY DEF Init, Sent, Promised!OutboxInit
<1>2. ASSUME WireInv, [Next]_vars
      PROVE  [Promised!OutboxNext]_(Promised!outbox)
  <2>t. /\ Sent \in Nat /\ acknowledged_seqn \in Nat /\ current_seqn \in Nat /\ puts \in Nat
        /\ max_sent_seqn \in Nat /\ acknowledged_seqn <= Sent
    BY <1>2, SentGrows, AcknowledgedIsSent, WireAssumption DEF WireInv, TypeOK
  <2>1. CASE Put
    BY <2>1 DEF Put, Sent, seqns, Promised!PutNext
  <2>2. CASE Send
    <3>1. UNCHANGED <<puts, acknowledged_seqn, current_seqn>>
      BY <2>2 DEF Send, seqns
    <3>2. Sent = max_sent_seqn /\ Sent' = max_sent_seqn + 1
      BY <1>2, <2>2, SentGrows DEF Send, Sent
    <3>3. Sent < puts
      <4>1. Sent' <= puts
        <5>1. puts = max_sent_seqn + Len(queue) + Len(data) /\ queue # <<>>
          BY <1>2, <2>2 DEF Send, WireInv, Bookkeeping
        <5>2. Len(queue) \in Nat \ {0} /\ Len(data) \in Nat
          BY <1>2, <5>1, EmptySeq, LenProperties DEF WireInv, TypeOK
        <5> QED BY <2>t, <3>2, <5>1, <5>2
      <4> QED BY <2>t, <3>2, <4>1
    <3> QED BY <3>1, <3>2, <3>3 DEF Promised!SendNext
  <2>3. CASE UNCHANGED <<puts, acknowledged_seqn, current_seqn>> /\ Sent' = Sent
    BY <2>3
  <2>4. CASE Record
    BY <2>3, <2>4 DEF Record, Sent
  <2>5. CASE Acknowledge
    <3>1. UNCHANGED acknowledged_seqn \/ acknowledged_seqn' \in acknowledged_seqn + 1..Sent
      BY <1>2, <2>t, AcknowledgedMoves
    <3>2. UNCHANGED <<puts, Sent, current_seqn>>
      BY <2>5 DEF Acknowledge, Sent
    <3> QED BY <2>3, <3>1, <3>2 DEF Promised!AcknowledgeUpTo
  <2>6. CASE Reprocess
    <3>1. \/ UNCHANGED current_seqn
          \/ current_seqn < acknowledged_seqn + 1 /\ current_seqn' = acknowledged_seqn + 1
      BY <1>2, CurrentMoves
    <3>2. UNCHANGED <<puts, Sent, acknowledged_seqn>>
      BY <2>6 DEF Reprocess, Sent
    <3>3. UNCHANGED current_seqn \/ current_seqn' - 1 \in current_seqn - 1 + 1..acknowledged_seqn
      BY <2>t, <3>1
    <3> QED BY <2>3, <3>2, <3>3 DEF Promised!DropUpTo
  <2>7. CASE UNCHANGED buffer
    BY <2>3, <2>7 DEF buffer, seqns, Sent
  <2>8. CASE UNCHANGED <<puts, seqns>> /\ thread # "sent" /\ thread' # "sent"
    BY <2>3, <2>8 DEF seqns, Sent
  <2>9. CASE Stop \/ Terminate \/ Resumed \/ Disconnected
    BY <2>3, <2>9 DEF Stop, Terminate, Resumed, Disconnected, seqns, Sent
  <2>10. CASE Take \/ ThreadEnds \/ Process \/ ProcessEnds
    BY <2>8, <2>10 DEF Take, ThreadEnds, Process, ProcessEnds
  <2> QED
    BY <1>2, <2>1, <2>2, <2>4, <2>5, <2>6, <2>7, <2>9, <2>10, LeavesBuffer DEF Next, AsyncThread, WireThread
<1> QED BY <1>1, <1>2, WireInvAlways, PTL DEF Spec, ImplementsOutbox, Promised!OutboxSpec

(* Whatever breaks and however often the ends reconnect, as long as no     *)
(* message overtakes the pending ones the receiver dispatches no message   *)
(* before the one put before it: only the first may come again.            *)
THEOREM WireDeliversInOrder == Spec => []InOrder
<1>1. StreamInv => InOrder
  BY DEF StreamInv
<1> QED BY <1>1, StreamInvAlways, PTL

(* reprocess() forgets only what the receiver has dispatched, as long as   *)
(* the thread was not late and the receiver's stream is whole.             *)
THEOREM WireForgetsDispatched == Spec => []ForgottenIsDispatched
<1>1. WireInv /\ StreamInv => ForgottenIsDispatched
  <2> SUFFICES ASSUME WireInv, StreamInv, ~overtaken, ~torn, NEW n \in 1..acknowledged_seqn
               PROVE  \E i \in DOMAIN dispatched : dispatched[i] = n
    BY DEF ForgottenIsDispatched
  <2>1. Received
    BY DEF StreamInv, Sound
  <2>2. n \in 1..max_received_seqn
    BY <2>1, StreamTypes DEF Received
  <2>3. DOMAIN dispatched = 1..Len(dispatched)
    BY LenProperties DEF WireInv, TypeOK
  <2> QED BY <2>1, <2>2, <2>3 DEF Received
<1> QED BY <1>1, WireInvAlways, StreamInvAlways, PTL
=============================================================================
