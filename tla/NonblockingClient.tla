------------------------- MODULE NonblockingClient --------------------------
(***************************************************************************)
(* cpp/async/nonblocking/client.cpp: requests sent over one connection     *)
(* each, all on the thread that runs the io_context.  The sockets are      *)
(* waited for without blocking, but connect, write and read block, and the *)
(* read lasts until the server ends the stream.                            *)
(*                                                                         *)
(* A handler with all it calls is one step, but for the read, which ends   *)
(* in a step of its own: until then no other handler runs.                 *)
(***************************************************************************)
EXTENDS StreamServer

VARIABLES
  main,               \* running, returned, or failed with an exception
  resolving,          \* connections whose address is being resolved
  state_,             \* Session: writing or reading
  write_in_progress_, \* Connection: waiting to write
  read_in_progress_,  \* Connection: waiting to read
  reading,            \* the connection the thread reads from, 0 if none
  printed             \* parts printed of each answer

session == <<state_, write_in_progress_, read_in_progress_>>
vars    == <<main, resolving, session, reading, printed, stream, parts>>

(* main: every request resolves its address, then the context runs.        *)
Init ==
  /\ StreamInit
  /\ main = "running"
  /\ resolving = Conn
  /\ state_ = [c \in Conn |-> "writing"]
  /\ write_in_progress_ = [c \in Conn |-> FALSE]
  /\ read_in_progress_ = [c \in Conn |-> FALSE]
  /\ reading = 0
  /\ printed = [c \in Conn |-> 0]

Free == main = "running" /\ reading = 0

-----------------------------------------------------------------------------
(* Plausible mistakes, which the properties below must catch.              *)

WriteForgotten(c, wrote) ==
  IF wrote = "all" THEN state_ ELSE [state_ EXCEPT ![c] = "reading"]

ReadUntilMore(c) ==
  /\ reading = c /\ printed[c] < parts[c]
  /\ printed' = [printed EXCEPT ![c] = parts[c]]
  /\ UNCHANGED <<main, resolving, session, reading, stream, parts>>

-----------------------------------------------------------------------------
(* The handler of async_resolve: without an address the connection is      *)
(* closed; a connect that fails throws out of io_context::run, and nothing *)
(* else runs.  One resolver answers in the order of the questions.         *)
Resolved(c) ==
  /\ Free /\ c \in resolving /\ \A d \in resolving : c <= d
  /\ resolving' = resolving \ {c}
  /\ \/ UNCHANGED <<main, write_in_progress_, stream>>
     \/ /\ main' = "failed"
        /\ UNCHANGED <<write_in_progress_, stream>>
     \/ /\ stream' = [stream EXCEPT ![c] = "open"]
        /\ write_in_progress_' = [write_in_progress_ EXCEPT ![c] = TRUE]
        /\ UNCHANGED main
  /\ UNCHANGED <<state_, read_in_progress_, reading, printed, parts>>

(* Session::write: reading begins as soon as any byte was written, because *)
(* nothing fills write_buffer_.                                            *)
AfterWrite(c, wrote) ==
  IF wrote = "nothing" THEN state_ ELSE [state_ EXCEPT ![c] = "reading"]

(* The handler of wait_write, with Connection::response.                   *)
WriteReady(c) ==
  /\ Free /\ write_in_progress_[c]
  /\ write_in_progress_' = [write_in_progress_ EXCEPT ![c] = FALSE]
  /\ \E wrote \in {"all", "some", "nothing"} :
       /\ (wrote = "all") <=> (stream[c] # "reset")
       /\ state_' = AfterWrite(c, wrote)
       /\ stream' = IF wrote = "all" /\ stream[c] = "open"
                    THEN [stream EXCEPT ![c] = "asked"] ELSE stream
  /\ read_in_progress_' =
       [read_in_progress_ EXCEPT ![c] = (state_'[c] = "reading")]
  /\ UNCHANGED <<main, resolving, reading, printed, parts>>

(* The handler of wait_read, which finds something or the end.             *)
ReadReady(c) ==
  /\ Free /\ read_in_progress_[c]
  /\ parts[c] > 0 \/ Ended(c)
  /\ read_in_progress_' = [read_in_progress_ EXCEPT ![c] = FALSE]
  /\ reading' = c
  /\ UNCHANGED <<main, resolving, state_, write_in_progress_, printed, stream,
                 parts>>

(* Session::read prints what it has, whatever the error.                   *)
ReadEnds(c) ==
  /\ reading = c
  /\ reading' = 0
  /\ \E n \in ReadToEnd(c) : printed' = [printed EXCEPT ![c] = n]
  /\ UNCHANGED <<main, resolving, session, stream, parts>>

(* io_context::run returns when nothing is waited for.                     *)
Returns ==
  /\ Free /\ resolving = {}
  /\ \A c \in Conn : ~write_in_progress_[c] /\ ~read_in_progress_[c]
  /\ main' = "returned"
  /\ UNCHANGED <<resolving, session, reading, printed, stream, parts>>

Handlers ==
  \/ \E c \in Conn : Resolved(c) \/ WriteReady(c) \/ ReadReady(c) \/ ReadEnds(c)
  \/ Returns

Environment ==
  /\ main = "running" /\ \E c \in Conn : Server(c)
  /\ UNCHANGED <<main, resolving, session, reading, printed>>

Next == Handlers \/ Environment

Spec == Init /\ [][Next]_vars

(* The thread runs what is ready.  Nothing is assumed of the server.       *)
Fairness == WF_vars(Handlers)

FairSpec == Spec /\ Fairness

-----------------------------------------------------------------------------
TypeOK ==
  /\ StreamTypes
  /\ main \in {"running", "returned", "failed"}
  /\ resolving \subseteq Conn
  /\ state_ \in [Conn -> {"writing", "reading"}]
  /\ write_in_progress_ \in [Conn -> BOOLEAN]
  /\ read_in_progress_ \in [Conn -> BOOLEAN]
  /\ reading \in Conn \cup {0}
  /\ printed \in [Conn -> 0 .. MaxParts]

(* When the context has run out of work, every connection that was made    *)
(* has come to its end, and of an answer that ended in order every part is *)
(* printed: no wait was forgotten on the way from the write (lines 29-33)  *)
(* to the read (lines 67-82), and no read stopped short (lines 17-23).     *)
ServedToTheEnd ==
  main = "returned" =>
    \A c \in Conn :
      /\ ~Live(c)
      /\ stream[c] = "shut" => printed[c] = parts[c]

(* If the server does not keep its streams open for ever, the program ends *)
(* (lines 151-176): only the blocking read of line 19 can hold it up.      *)
EndsIfServerEnds ==
  ([]<>(\A c \in Conn : ~Live(c))) => <>(main # "running")

=============================================================================
