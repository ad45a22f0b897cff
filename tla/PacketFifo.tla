----------------------------- MODULE PacketFifo -----------------------------
(***************************************************************************)
(* What one direction of the bank's Network promises its two users: a     *)
(* bounded first-in first-out queue of packets.  The producer's packet     *)
(* enters at the tail, only while there is room; a packet leaves at the    *)
(* head, only once the consumer holds a complete copy of it.               *)
(***************************************************************************)
EXTENDS Naturals, Sequences

CONSTANTS
  Packet,     \* the packets
  Capacity    \* maxNbPackets of the Network

VARIABLES
  outbox,     \* the Transactions object the producer passes
  queue,      \* the packets in transit, oldest first
  inbox       \* the consumer's Transactions object

fifoVars == <<outbox, queue, inbox>>

Init ==
  /\ outbox \in Packet
  /\ queue = << >>
  /\ inbox \in Packet

Prepare ==
  /\ outbox' \in Packet
  /\ UNCHANGED <<queue, inbox>>

Put ==
  /\ Len(queue) < Capacity
  /\ queue' = Append(queue, outbox)
  /\ UNCHANGED <<outbox, inbox>>

(* The object is the consumer's: between two removals it may change freely. *)
Fill ==
  /\ inbox' \in Packet
  /\ UNCHANGED <<outbox, queue>>

Take ==
  /\ queue # << >>
  /\ inbox = Head(queue)
  /\ queue' = Tail(queue)
  /\ UNCHANGED <<outbox, inbox>>

Next == Prepare \/ Put \/ Fill \/ Take

Spec == Init /\ [][Next]_fifoVars

=============================================================================
