--------------------------- MODULE PostedRequests ---------------------------
(***************************************************************************)
(* cpp/async/nonblocking/client2.cpp: requests posted to an io_context     *)
(* that one thread runs.  The handler of a posted request starts to        *)
(* resolve the address and then runs one more handler itself, so handlers  *)
(* nest: the next posted request runs inside the one before.  The handler  *)
(* of a resolved address does all the rest, connect, write, read and call  *)
(* back, and blocks; when it ends, all the run_one's it was nested in end. *)
(*                                                                         *)
(* What a run_one with nothing to run or to wait for would do is not       *)
(* modelled: RunOneHasWork says that none is called so.                    *)
(***************************************************************************)
EXTENDS StreamServer

CONSTANT WithCallback   \* the requests whose answer is handed to a callback

ASSUME CallbackAssumption == WithCallback \subseteq Conn

VARIABLES
  main,       \* running, returned, or failed with an exception
  queue,      \* io_context: handlers ready to run
  asked,      \* the resolver's questions not yet answered
  nested,     \* handlers on the stack that wait in run_one
  reading,    \* the request whose answer is being read, 0 if none
  callbacks   \* the callbacks so far: request and parts of its answer

vars == <<main, queue, asked, nested, reading, callbacks, stream, parts>>

(* A handler: of a posted request, or of a resolved address.               *)
Posted(k)   == [request |-> k, resolved |-> FALSE]
Resolved(k) == [request |-> k, resolved |-> TRUE]

(* main posts every request, in order, and runs the context.               *)
Init ==
  /\ StreamInit
  /\ main = "running"
  /\ queue = [k \in Conn |-> Posted(k)]
  /\ asked = << >>
  /\ nested = 0
  /\ reading = 0
  /\ callbacks = << >>

Free == main = "running" /\ reading = 0

-----------------------------------------------------------------------------
(* Plausible mistakes, which the properties below must catch.              *)

RunOneOnly(k) ==
  /\ nested' = nested + 1
  /\ UNCHANGED asked

LastAnswered(k) ==
  /\ asked # << >> /\ asked[Len(asked)] = k
  /\ asked' = SubSeq(asked, 1, Len(asked) - 1)
  /\ queue' = Append(queue, Resolved(k))
  /\ UNCHANGED <<main, nested, reading, callbacks, stream, parts>>

-----------------------------------------------------------------------------
(* async_request asks the resolver; then the handler waits in run_one.     *)
AskAndRunOne(k) ==
  /\ asked' = Append(asked, k)
  /\ nested' = nested + 1

(* The handler posted by post_request.                                     *)
RunPosted(k) ==
  /\ Free /\ queue # << >> /\ Head(queue) = Posted(k)
  /\ queue' = Tail(queue)
  /\ AskAndRunOne(k)
  /\ UNCHANGED <<main, reading, callbacks, stream, parts>>

(* The resolver's thread answers one question after another.               *)
Answer(k) ==
  /\ asked # << >> /\ Head(asked) = k
  /\ asked' = Tail(asked)
  /\ queue' = Append(queue, Resolved(k))
  /\ UNCHANGED <<main, nested, reading, callbacks, stream, parts>>

(* A handler that ends was the one its run_one waited for, and so on up    *)
(* the stack.                                                              *)
AllRunOnesEnd == nested' = 0

(* The handler of a resolved address, which may end early: no address, or  *)
(* a write that fails.  A connect that fails throws through every handler  *)
(* on the stack to main.                                                   *)
RunResolved(k) ==
  /\ Free /\ queue # << >> /\ Head(queue) = Resolved(k)
  /\ queue' = Tail(queue)
  /\ \/ AllRunOnesEnd /\ UNCHANGED <<main, reading, stream>>
     \/ /\ main' = "failed" /\ nested' = 0
        /\ UNCHANGED <<reading, stream>>
     \/ /\ stream' = [stream EXCEPT ![k] = "reset"]
        /\ AllRunOnesEnd
        /\ UNCHANGED <<main, reading>>
     \/ /\ stream' = [stream EXCEPT ![k] = "asked"]
        /\ reading' = k
        /\ UNCHANGED <<main, nested>>
  /\ UNCHANGED <<asked, callbacks, parts>>

(* Its read ends with the stream; an error drops what was read.            *)
ReadEnds(k) ==
  /\ reading = k /\ Ended(k)
  /\ reading' = 0
  /\ AllRunOnesEnd
  /\ callbacks' = IF stream[k] = "shut" /\ k \in WithCallback
                  THEN Append(callbacks, <<k, parts[k]>>) ELSE callbacks
  /\ UNCHANGED <<main, queue, asked, stream, parts>>

(* run returns when the context has nothing to do or to wait for.          *)
Returns ==
  /\ Free /\ queue = << >> /\ asked = << >> /\ nested = 0
  /\ main' = "returned"
  /\ UNCHANGED <<queue, asked, nested, reading, callbacks, stream, parts>>

Handlers ==
  \/ \E k \in Conn : RunPosted(k) \/ RunResolved(k) \/ ReadEnds(k)
  \/ Returns

Resolver == main = "running" /\ \E k \in Conn : Answer(k)

Environment ==
  /\ main = "running" /\ \E k \in Conn : Server(k)
  /\ UNCHANGED <<main, queue, asked, nested, reading, callbacks>>

Next == Handlers \/ Resolver \/ Environment

Spec == Init /\ [][Next]_vars

(* The thread runs what is ready, the resolver answers in the end.         *)
Fairness == WF_vars(Handlers) /\ WF_vars(Resolver)

FairSpec == Spec /\ Fairness

-----------------------------------------------------------------------------
TypeOK ==
  /\ StreamTypes
  /\ main \in {"running", "returned", "failed"}
  /\ queue \in Seq([request : Conn, resolved : BOOLEAN])
  /\ asked \in Seq(Conn)
  /\ nested \in Nat
  /\ reading \in Conn \cup {0}
  /\ callbacks \in Seq(Conn \X (0 .. MaxParts))

(* A handler that waits in run_one waits for something (line 63): another  *)
(* handler is ready, an address is being resolved, or one that was runs.   *)
RunOneHasWork ==
  nested > 0 => queue # << >> \/ asked # << >> \/ reading # 0

(* Callbacks come in the order of the requests, once each, with the whole  *)
(* answer of a stream that ended in order (lines 112-118); and when the    *)
(* context has run out of work none that was due is missing.               *)
AnswersInOrder ==
  /\ \A i \in DOMAIN callbacks :
       /\ \A j \in 1 .. i - 1 : callbacks[j][1] < callbacks[i][1]
       /\ stream[callbacks[i][1]] = "shut"
       /\ callbacks[i][2] = parts[callbacks[i][1]]
  /\ main = "returned" =>
       \A k \in WithCallback : stream[k] = "shut" =>
         \E i \in DOMAIN callbacks : callbacks[i][1] = k

(* If the server does not keep its streams open for ever, the program ends *)
(* (lines 142-163), nested as its handlers are.                            *)
EndsIfServerEnds ==
  ([]<>(\A k \in Conn : ~Live(k))) => <>(main # "running")

=============================================================================
