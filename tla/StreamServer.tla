---------------------------- MODULE StreamServer ----------------------------
(***************************************************************************)
(* The other end of a client's connection, external to the programs that   *)
(* read it: once the request has arrived it sends an answer, part by part, *)
(* and at any moment it may end the stream, or the link may break.  An     *)
(* answer is the number of its parts that have been sent.                  *)
(***************************************************************************)
EXTENDS Integers, Sequences

CONSTANTS
  Connections,  \* connections a client makes
  MaxParts      \* parts the server sends on a connection (bound)

ASSUME StreamAssumption == Connections \in Nat /\ MaxParts \in Nat

Conn == 1 .. Connections    \* numbered in the order made

VARIABLES
  stream,       \* none, open, asked (the request is there), shut or reset
  parts         \* parts sent

StreamInit ==
  /\ stream = [c \in Conn |-> "none"]
  /\ parts = [c \in Conn |-> 0]

StreamTypes ==
  /\ stream \in [Conn -> {"none", "open", "asked", "shut", "reset"}]
  /\ parts \in [Conn -> 0 .. MaxParts]

Live(c)  == stream[c] \in {"open", "asked"}
Ended(c) == stream[c] \in {"shut", "reset"}

ServerSends(c) ==
  /\ stream[c] = "asked" /\ parts[c] < MaxParts
  /\ parts' = [parts EXCEPT ![c] = @ + 1]
  /\ UNCHANGED stream

ServerEnds(c) ==
  /\ Live(c)
  /\ stream' = [stream EXCEPT ![c] = "shut"]
  /\ UNCHANGED parts

LinkBreaks(c) ==
  /\ Live(c)
  /\ stream' = [stream EXCEPT ![c] = "reset"]
  /\ UNCHANGED parts

Server(c) == ServerSends(c) \/ ServerEnds(c) \/ LinkBreaks(c)

(* What a client that reads until the stream ends may have at the end: a   *)
(* broken link loses what was still on its way.                            *)
ReadToEnd(c) ==
  CASE stream[c] = "shut"  -> {parts[c]}
    [] stream[c] = "reset" -> 0 .. parts[c]
    [] OTHER               -> {}

=============================================================================
