----------------------------- MODULE ChatServer -----------------------------
(***************************************************************************)
(* python/websockets/thread-asyncio/server.py: one event loop runs a serve *)
(* task for each socket and one notify task, which sends every message of  *)
(* a queue to every socket of a list; a thread posts the messages.         *)
(*                                                                         *)
(* A task runs from one await to the next without interruption: that is a  *)
(* step.  An await of a send ends when the socket has taken the data or    *)
(* the connection is closed, which raises ConnectionClosed.                *)
(*                                                                         *)
(* The for loop of notify is Python's: the iterator is a position in the   *)
(* list itself, which serve and notify change meanwhile.                   *)
(***************************************************************************)
EXTENDS Integers, SequencesExt

CONSTANTS
  Socket,       \* the clients that connect
  MaxMessages   \* messages the thread posts (bound)

ASSUME ChatAssumption == IsFiniteSet(Socket) /\ MaxMessages \in Nat

VARIABLES
  closed,     \* sockets whose connection the server's library knows closed
  sentTo,     \* what each socket was sent: welcome, then messages
  serve,      \* where the serve task of each socket is
  websockets, \* the list
  posted,     \* messages the thread has posted
  scheduled,  \* calls of put_nowait the loop has still to make
  messages,   \* the queue
  notify,     \* where the notify task is
  message,    \* its local variables: the message,
  position,   \*   the iterator's position,
  websocket,  \*   and the socket
  removals    \* sockets removed since the message was taken (history)

sockets == <<closed, sentTo, serve>>
queue   == <<posted, scheduled, messages>>
round   == <<message, position, websocket, removals>>
vars    == <<sockets, websockets, queue, notify, round>>

Welcome == 0

Init ==
  /\ closed = {}
  /\ sentTo = [s \in Socket |-> << >>]
  /\ serve = [s \in Socket |-> "none"]
  /\ websockets = << >>
  /\ posted = 0
  /\ scheduled = << >>
  /\ messages = << >>
  /\ notify = "get"
  /\ message = 0
  /\ position = 1
  /\ websocket \in Socket
  /\ removals = 0

-----------------------------------------------------------------------------
(* Plausible mistakes, which the properties below must catch.              *)

WithoutLast(s) == Front(websockets)

EndOfRoundAdvances ==
  /\ notify = "next" /\ position > Len(websockets)
  /\ notify' = "get"
  /\ position' = position + 1
  /\ UNCHANGED <<sockets, websockets, queue, message, websocket, removals>>

IterateAgain == position' = position

GiveUp(without) ==
  /\ websockets' = without
  /\ removals' = removals + 1
  /\ notify' = "get"

PutWithoutWaking ==
  /\ scheduled # << >>
  /\ scheduled' = Tail(scheduled)
  /\ messages' = Append(messages, Head(scheduled))
  /\ UNCHANGED <<sockets, websockets, posted, notify, round>>

ServeStaysRemoved(s) ==
  /\ serve[s] = "sleep" /\ s \in ToSet(websockets) /\ s \in closed
  /\ serve' = [serve EXCEPT ![s] = "ended"]
  /\ UNCHANGED <<closed, sentTo, websockets, queue, notify, round>>

-----------------------------------------------------------------------------
(* serve.  A connection closed before the welcome ends the task with the   *)
(* exception; the socket is in the list already.                           *)
Serve(s) ==
  /\ serve[s] = "none"
  /\ websockets' = Append(websockets, s)
  /\ IF s \in closed
     THEN /\ serve' = [serve EXCEPT ![s] = "ended"]
          /\ UNCHANGED sentTo
     ELSE /\ serve' = [serve EXCEPT ![s] = "welcome"]
          /\ sentTo' = [sentTo EXCEPT ![s] = Append(@, Welcome)]
  /\ UNCHANGED <<closed, queue, notify, round>>

ServeWelcomed(s) ==
  /\ serve[s] = "welcome"
  /\ serve' = [serve EXCEPT ![s] = IF s \in closed THEN "ended" ELSE "sleep"]
  /\ UNCHANGED <<closed, sentTo, websockets, queue, notify, round>>

(* After the sleep; while the socket is in the list the task sleeps again. *)
ServeWakes(s) ==
  /\ serve[s] = "sleep" /\ s \notin ToSet(websockets)
  /\ serve' = [serve EXCEPT ![s] = "ended"]
  /\ UNCHANGED <<closed, sentTo, websockets, queue, notify, round>>

-----------------------------------------------------------------------------
(* notify.                                                                 *)

NotifyGets ==
  /\ notify = "get" /\ messages # << >>
  /\ message' = Head(messages)
  /\ messages' = Tail(messages)
  /\ notify' = "next"
  /\ position' = 1
  /\ removals' = 0
  /\ UNCHANGED <<sockets, websockets, posted, scheduled, websocket>>

(* The queue is empty: get waits for a put to wake it.                     *)
NotifyWaits ==
  /\ notify = "get" /\ messages = << >>
  /\ notify' = "waiting"
  /\ UNCHANGED <<sockets, websockets, queue, round>>

NotifyEnds ==
  /\ notify = "next" /\ position > Len(websockets)
  /\ notify' = "get"
  /\ UNCHANGED <<sockets, websockets, queue, round>>

(* self.websockets.remove(websocket)                                       *)
Without(s) == RemoveFirst(websockets, s)

(* The iterator moves on before the body runs.                             *)
Iterate == position' = position + 1

(* except ConnectionClosed: the list loses the socket, the loop goes on.   *)
Drop(without) ==
  /\ websockets' = without
  /\ removals' = removals + 1
  /\ notify' = "next"

(* The body up to the await: a send to a closed connection fails at once.  *)
NotifySends ==
  /\ notify = "next" /\ position <= Len(websockets)
  /\ websocket' = websockets[position]
  /\ Iterate
  /\ IF websocket' \in closed
     THEN Drop(Without(websocket')) /\ UNCHANGED sentTo
     ELSE /\ sentTo' = [sentTo EXCEPT ![websocket'] = Append(@, message)]
          /\ notify' = "sending"
          /\ UNCHANGED <<websockets, removals>>
  /\ UNCHANGED <<closed, serve, queue, message>>

NotifySent ==
  /\ notify = "sending"
  /\ IF websocket \in closed
     THEN Drop(Without(websocket))
     ELSE notify' = "next" /\ UNCHANGED <<websockets, removals>>
  /\ UNCHANGED <<sockets, queue, message, position, websocket>>

-----------------------------------------------------------------------------
(* callback_simulation: the thread leaves the put to the loop.             *)
Post ==
  /\ posted < MaxMessages
  /\ posted' = posted + 1
  /\ scheduled' = Append(scheduled, posted + 1)
  /\ UNCHANGED <<sockets, websockets, messages, notify, round>>

(* The loop makes the call; put_nowait wakes a get that waits.             *)
Put ==
  /\ scheduled # << >>
  /\ scheduled' = Tail(scheduled)
  /\ messages' = Append(messages, Head(scheduled))
  /\ notify' = IF notify = "waiting" THEN "get" ELSE notify
  /\ UNCHANGED <<sockets, websockets, posted, round>>

ConnectionCloses(s) ==
  /\ s \notin closed
  /\ closed' = closed \cup {s}
  /\ UNCHANGED <<sentTo, serve, websockets, queue, notify, round>>

-----------------------------------------------------------------------------
Notify ==
  NotifyGets \/ NotifyWaits \/ NotifyEnds \/ NotifySends \/ NotifySent

Next ==
  \/ Notify \/ Post \/ Put
  \/ \E s \in Socket :
       Serve(s) \/ ServeWelcomed(s) \/ ServeWakes(s) \/ ConnectionCloses(s)

Spec == Init /\ [][Next]_vars

(* The loop takes its ready tasks in turn, and a send either is taken or   *)
(* fails (the library closes a connection that answers no ping).           *)
Fairness ==
  /\ WF_vars(Notify) /\ WF_vars(Put)
  /\ \A s \in Socket : WF_vars(ServeWelcomed(s)) /\ WF_vars(ServeWakes(s))

FairSpec == Spec /\ Fairness

-----------------------------------------------------------------------------
Message == 1 .. MaxMessages

TypeOK ==
  /\ closed \subseteq Socket
  /\ sentTo \in [Socket -> Seq({Welcome} \cup Message)]
  /\ serve \in [Socket -> {"none", "welcome", "sleep", "ended"}]
  /\ websockets \in Seq(Socket)
  /\ posted \in 0 .. MaxMessages
  /\ scheduled \in Seq(Message) /\ messages \in Seq(Message)
  /\ notify \in {"get", "waiting", "next", "sending"}
  /\ message \in 0 .. MaxMessages
  /\ position \in 1 .. Cardinality(Socket) + 1
  /\ websocket \in Socket
  /\ removals \in 0 .. Cardinality(Socket)

(* A socket is sent the welcome first, then messages in the order they     *)
(* were posted, none twice, although the list changes under the iteration  *)
(* (lines 13-19 and 31-39).                                                *)
InOrderOnce ==
  \A s \in Socket :
    /\ sentTo[s] # << >> => sentTo[s][1] = Welcome
    /\ \A i, j \in DOMAIN sentTo[s] : i < j => sentTo[s][i] < sentTo[s][j]

(* Only sockets whose connection is closed leave the list, and only their  *)
(* serve task ends, which would close the connection (lines 25-27, 39).    *)
LiveStaysServed ==
  \A s \in Socket \ closed :
    serve[s] # "none" => s \in ToSet(websockets) /\ serve[s] # "ended"

(* When a message is through, an open socket of the list has been sent it  *)
(* unless another was removed meanwhile: removing an element makes the     *)
(* iteration skip the next one, so each removal costs at most one socket   *)
(* the message (lines 34-39).                                              *)
MissedOnlyByRemoval ==
  [][notify = "next" /\ notify' = "get" =>
       Cardinality({s \in ToSet(websockets') \ closed' :
                      Last(sentTo'[s]) # message'}) <= removals']_vars

(* Every message the thread posts is taken from the queue, although the    *)
(* thread is not the loop's and notify may be waiting (lines 31, 50).      *)
PostedIsTaken ==
  \A k \in Message : posted >= k ~> message >= k

(* The serve task of a socket that left the list ends, so that the library *)
(* lets go of the connection (lines 21-27).                                *)
RemovedIsReleased ==
  \A s \in Socket :
    serve[s] # "none" /\ s \notin ToSet(websockets) ~> serve[s] = "ended"

=============================================================================
