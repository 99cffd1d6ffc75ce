------------------------------- MODULE Outbox -------------------------------
(***************************************************************************)
(* What the sending end of a wire promises for its messages, which are     *)
(* numbered in the order in which they were put: they are sent in that     *)
(* order, only a message that was sent is acknowledged, and only one that  *)
(* is acknowledged is dropped.                                             *)
(***************************************************************************)
EXTENDS Integers

VARIABLES put, sent, acknowledged, dropped   \* the last message of each kind

outbox == <<put, sent, acknowledged, dropped>>

OutboxInit == put = 0 /\ sent = 0 /\ acknowledged = 0 /\ dropped = 0

PutNext ==
  /\ put' = put + 1
  /\ UNCHANGED <<sent, acknowledged, dropped>>

SendNext ==
  /\ sent < put
  /\ sent' = sent + 1
  /\ UNCHANGED <<put, acknowledged, dropped>>

(* An acknowledgement stands for all messages up to its own.               *)
AcknowledgeUpTo ==
  /\ acknowledged' \in acknowledged + 1..sent
  /\ UNCHANGED <<put, sent, dropped>>

DropUpTo ==
  /\ dropped' \in dropped + 1..acknowledged
  /\ UNCHANGED <<put, sent, acknowledged>>

OutboxNext == PutNext \/ SendNext \/ AcknowledgeUpTo \/ DropUpTo

OutboxSpec == OutboxInit /\ [][OutboxNext]_outbox
=============================================================================
