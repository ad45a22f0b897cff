-------------------------- MODULE NonblockingServer --------------------------
(***************************************************************************)
(* cpp/async/nonblocking/server.cpp (and its copy nonblocking.cpp): an     *)
(* echo server on one thread.  A Connection waits until its non-blocking   *)
(* socket is readable or writable and then reads or writes what it can.    *)
(* Only the handlers of its waits hold a reference to a Connection: one    *)
(* that waits for nothing is destroyed and its socket closed.              *)
(*                                                                         *)
(* One handler runs at a time, so a handler with all it calls is a step.   *)
(* A wait that ends although there is nothing to read, or no room to       *)
(* write, gets would_block and waits again: no step of its own.            *)
(*                                                                         *)
(* Byte k of a peer is the number k, so a byte that is lost, repeated or   *)
(* out of order shows.                                                     *)
(***************************************************************************)
EXTENDS Integers, Sequences

CONSTANTS
  Peer,         \* the clients that connect
  MaxBytes,     \* bytes a peer sends (bound)
  SendBuffer    \* bytes the kernel takes from the server for a peer (bound)

ASSUME ServerAssumption ==
  /\ MaxBytes \in Nat
  /\ SendBuffer \in Nat \ {0}

VARIABLES
  connection,         \* what the server knows of each peer
  state_,             \* Session: reading or writing
  write_buffer_,      \* Session: bytes to echo
  read_in_progress_,  \* Connection: waiting to read
  write_in_progress_, \* Connection: waiting to write
  sent,               \* peer: bytes sent
  received,           \* peer: bytes received
  shut,               \* peer: has ended its stream
  reset,              \* the link is broken
  toServer,           \* bytes on their way to the server's read
  toPeer              \* bytes the kernel has taken for the peer

session == <<connection, state_, write_buffer_, read_in_progress_,
             write_in_progress_>>
link    == <<sent, received, shut, reset, toServer, toPeer>>
vars    == <<session, link>>

Init ==
  /\ connection = [p \in Peer |-> "none"]
  /\ state_ = [p \in Peer |-> "reading"]
  /\ write_buffer_ = [p \in Peer |-> << >>]
  /\ read_in_progress_ = [p \in Peer |-> FALSE]
  /\ write_in_progress_ = [p \in Peer |-> FALSE]
  /\ sent = [p \in Peer |-> 0]
  /\ received = [p \in Peer |-> << >>]
  /\ shut = [p \in Peer |-> FALSE]
  /\ reset = [p \in Peer |-> FALSE]
  /\ toServer = [p \in Peer |-> << >>]
  /\ toPeer = [p \in Peer |-> << >>]

-----------------------------------------------------------------------------
(* Plausible mistakes, which the properties below must catch.              *)

OperationsWithoutState(p, state, reading, writing) ==
  /\ read_in_progress_' = [read_in_progress_ EXCEPT ![p] = TRUE]
  /\ write_in_progress_' =
       [write_in_progress_ EXCEPT ![p] = (writing \/ state = "writing")]

OperationsOnlyWrite(p, state, reading, writing) ==
  /\ read_in_progress_' = [read_in_progress_ EXCEPT ![p] = reading]
  /\ write_in_progress_' =
       [write_in_progress_ EXCEPT ![p] = (writing \/ state = "writing")]

ReadFailureIgnored(p) ==
  /\ read_in_progress_[p]
  /\ reset[p] \/ (shut[p] /\ toServer[p] = << >>)
  /\ UNCHANGED vars

WriteOnce(p, taken) ==
  /\ write_buffer_' = [write_buffer_ EXCEPT ![p] = << >>]
  /\ state_' = [state_ EXCEPT ![p] = "reading"]

-----------------------------------------------------------------------------
(* Connection::operations, in a session with the given state and waits.    *)
Operations(p, state, reading, writing) ==
  /\ read_in_progress_' =
       [read_in_progress_ EXCEPT ![p] = (reading \/ state = "reading")]
  /\ write_in_progress_' =
       [write_in_progress_ EXCEPT ![p] = (writing \/ state = "writing")]

(* socket_.close(): waits still pending on the socket are aborted.         *)
Close(p) ==
  /\ connection' = [connection EXCEPT ![p] = "closed"]
  /\ read_in_progress_' = [read_in_progress_ EXCEPT ![p] = FALSE]
  /\ write_in_progress_' = [write_in_progress_ EXCEPT ![p] = FALSE]

(* The handler of async_accept; it accepts again, after an error too.      *)
Accept(p) ==
  /\ connection[p] = "pending"
  /\ connection' = [connection EXCEPT ![p] = "open"]
  /\ Operations(p, state_[p], FALSE, FALSE)
  /\ UNCHANGED <<state_, write_buffer_, link>>

(* The handler of wait_read: Session::read takes all there is.  What comes *)
(* with the end of the stream is taken too, and then the socket is closed. *)
ReadSome(p) ==
  /\ read_in_progress_[p] /\ ~reset[p]
  /\ toServer[p] # << >>
  /\ write_buffer_' = [write_buffer_ EXCEPT ![p] = toServer[p]]
  /\ toServer' = [toServer EXCEPT ![p] = << >>]
  /\ state_' = [state_ EXCEPT ![p] = "writing"]
  /\ IF shut[p]
     THEN Close(p)
     ELSE /\ Operations(p, "writing", FALSE, write_in_progress_[p])
          /\ UNCHANGED connection
  /\ UNCHANGED <<sent, received, shut, reset, toPeer>>

ReadFails(p) ==
  /\ read_in_progress_[p]
  /\ reset[p] \/ (shut[p] /\ toServer[p] = << >>)
  /\ Close(p)
  /\ UNCHANGED <<state_, write_buffer_, link>>

(* How many of n bytes the kernel takes when it has room for so many.      *)
Accepted(room, n) == IF n < room THEN n ELSE room

(* Session::write keeps what the kernel did not take, and goes on writing  *)
(* while there is any.                                                     *)
KeepRest(p, taken) ==
  LET rest == SubSeq(write_buffer_[p], taken + 1, Len(write_buffer_[p]))
  IN /\ write_buffer_' = [write_buffer_ EXCEPT ![p] = rest]
     /\ state_' = [state_ EXCEPT ![p] =
                     IF rest = << >> THEN "reading" ELSE "writing"]

(* The handler of wait_write.                                              *)
WriteSome(p) ==
  /\ write_in_progress_[p] /\ ~reset[p]
  /\ Len(toPeer[p]) < SendBuffer
  /\ LET taken == Accepted(SendBuffer - Len(toPeer[p]), Len(write_buffer_[p]))
     IN /\ toPeer' = [toPeer EXCEPT
                        ![p] = @ \o SubSeq(write_buffer_[p], 1, taken)]
        /\ KeepRest(p, taken)
  /\ Operations(p, state_'[p], read_in_progress_[p], FALSE)
  /\ UNCHANGED <<connection, sent, received, shut, reset, toServer>>

WriteFails(p) ==
  /\ write_in_progress_[p] /\ reset[p]
  /\ Close(p)
  /\ UNCHANGED <<state_, write_buffer_, link>>

-----------------------------------------------------------------------------
(* The peers and the network.                                              *)

PeerConnects(p) ==
  /\ connection[p] = "none"
  /\ connection' = [connection EXCEPT ![p] = "pending"]
  /\ UNCHANGED <<state_, write_buffer_, read_in_progress_, write_in_progress_,
                 link>>

PeerSends(p) ==
  /\ connection[p] \in {"pending", "open"}
  /\ ~shut[p] /\ ~reset[p] /\ sent[p] < MaxBytes
  /\ sent' = [sent EXCEPT ![p] = @ + 1]
  /\ toServer' = [toServer EXCEPT ![p] = Append(@, sent[p] + 1)]
  /\ UNCHANGED <<session, received, shut, reset, toPeer>>

PeerReceives(p) ==
  /\ toPeer[p] # << >> /\ ~reset[p]
  /\ received' = [received EXCEPT ![p] = Append(@, Head(toPeer[p]))]
  /\ toPeer' = [toPeer EXCEPT ![p] = Tail(@)]
  /\ UNCHANGED <<session, sent, shut, reset, toServer>>

PeerShuts(p) ==
  /\ connection[p] \in {"pending", "open"} /\ ~shut[p] /\ ~reset[p]
  /\ shut' = [shut EXCEPT ![p] = TRUE]
  /\ UNCHANGED <<session, sent, received, reset, toServer, toPeer>>

LinkBreaks(p) ==
  /\ connection[p] \in {"pending", "open"} /\ ~reset[p]
  /\ reset' = [reset EXCEPT ![p] = TRUE]
  /\ UNCHANGED <<session, sent, received, shut, toServer, toPeer>>

-----------------------------------------------------------------------------
Handler(p) ==
  Accept(p) \/ ReadSome(p) \/ ReadFails(p) \/ WriteSome(p) \/ WriteFails(p)

Environment(p) ==
  \/ PeerConnects(p) \/ PeerSends(p) \/ PeerReceives(p) \/ PeerShuts(p)
  \/ LinkBreaks(p)

Next == \E p \in Peer : Handler(p) \/ Environment(p)

Spec == Init /\ [][Next]_vars

(* io_context::run takes its handlers in turn, so every ready handler runs. *)
(* A peer goes on receiving.                                                *)
Fairness ==
  \A p \in Peer : WF_vars(Handler(p)) /\ WF_vars(PeerReceives(p))

FairSpec == Spec /\ Fairness

-----------------------------------------------------------------------------
Stream(n) == [k \in 1 .. n |-> k]

Types ==
  /\ connection \in [Peer -> {"none", "pending", "open", "closed"}]
  /\ state_ \in [Peer -> {"reading", "writing"}]
  /\ write_buffer_ \in [Peer -> Seq(1 .. MaxBytes)]
  /\ read_in_progress_ \in [Peer -> BOOLEAN]
  /\ write_in_progress_ \in [Peer -> BOOLEAN]
  /\ sent \in [Peer -> 0 .. MaxBytes]
  /\ received \in [Peer -> Seq(1 .. MaxBytes)]
  /\ shut \in [Peer -> BOOLEAN]
  /\ reset \in [Peer -> BOOLEAN]
  /\ toServer \in [Peer -> Seq(1 .. MaxBytes)]
  /\ toPeer \in [Peer -> Seq(1 .. MaxBytes)]
  /\ \A p \in Peer : Len(toPeer[p]) <= SendBuffer

(* No peer receives more bytes than it sent.                               *)
TypeOK == Types /\ \A p \in Peer : Len(received[p]) <= sent[p]

(* An open connection waits for exactly one thing, the one its session is  *)
(* in the state for; a session writes exactly while it has bytes to echo   *)
(* (lines 54-79).  With no wait the connection would be gone, with both a  *)
(* read would replace bytes not yet written (line 19).                     *)
OneWait ==
  \A p \in Peer :
    /\ connection[p] = "open" =>
         /\ read_in_progress_[p] <=> state_[p] = "reading"
         /\ write_in_progress_[p] <=> state_[p] = "writing"
         /\ state_[p] = "writing" <=> write_buffer_[p] # << >>
    /\ connection[p] # "open" =>
         ~read_in_progress_[p] /\ ~write_in_progress_[p]
    /\ connection[p] \in {"none", "pending"} =>
         state_[p] = "reading" /\ write_buffer_[p] = << >>

(* Every byte a peer sent is where it belongs, once and in order: received, *)
(* in the kernel, in the write buffer or still to be read (lines 15-33).    *)
NothingLost ==
  \A p \in Peer :
    received[p] \o toPeer[p] \o write_buffer_[p] \o toServer[p]
      = Stream(sent[p])

(* A peer that neither ends its stream nor loses its link gets every byte  *)
(* back (lines 51-80).                                                     *)
EveryByteEchoed ==
  \A p \in Peer : \A k \in 1 .. MaxBytes :
    connection[p] = "open" /\ sent[p] = k
      ~> Len(received[p]) >= k \/ shut[p] \/ reset[p]

(* A connection whose peer has gone is closed, whatever it was waiting for *)
(* (lines 61-64 and 75-78).                                                *)
ClosedInTheEnd ==
  \A p \in Peer :
    connection[p] = "open" /\ (shut[p] \/ reset[p]) ~> connection[p] = "closed"

=============================================================================
