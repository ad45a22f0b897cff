-------------------------- MODULE AsioClientsProofs -------------------------
(***************************************************************************)
(* The two clients of cpp/async/nonblocking.                               *)
(*                                                                         *)
(* client2.cpp (PostedRequests), whatever the number of requests: the      *)
(* types, that a handler that waits in run_one has something to wait for,  *)
(* and that the callbacks come in the order of the requests, whole, and    *)
(* none is missing at the end.                                             *)
(*                                                                         *)
(* client.cpp (NonblockingClient, here N), for any number of connections   *)
(* and any answers: a client that has run out of work has forgotten no     *)
(* connection and cut no answer short.                                     *)
(***************************************************************************)
EXTENDS MCAsioClients, SequenceTheorems, TLAPS

(* What is needed of the types.                                            *)
Shape ==
  /\ queue \in Seq([request : Conn, resolved : BOOLEAN])
  /\ asked \in Seq(Conn)
  /\ nested \in Nat
  /\ reading \in Conn \cup {0}

(* Who waits has an address in the making: asked for, found, or in use.    *)
(* A posted request that is ready is not enough: it waits in its turn.     *)
AddressDue ==
  nested > 0 => \/ asked # << >>
                \/ reading # 0
                \/ \E i \in DOMAIN queue : queue[i].resolved

Inv == Shape /\ AddressDue

LEMMA InitInv ==
  Init => Inv
<1>. SUFFICES ASSUME Init PROVE Inv
  OBVIOUS
<1>1. /\ nested = 0 /\ reading = 0 /\ asked = << >>
      /\ queue = [k \in 1 .. Connections |-> Posted(k)]
  BY DEF Init, Conn
<1>2. \A k \in 1 .. Connections :
        Posted(k) \in [request : Conn, resolved : BOOLEAN]
  BY DEF Posted, Conn
<1>3. queue \in Seq([request : Conn, resolved : BOOLEAN])
  BY <1>1, <1>2, StreamAssumption
<1>. QED  BY <1>1, <1>3 DEF Inv, Shape, AddressDue

(* A sequence that loses its head, and one that gains an element.          *)
LEMMA Shorter ==
  ASSUME NEW S, NEW q \in Seq(S), q # << >>
  PROVE  Tail(q) \in Seq(S) /\ Head(q) \in S
OBVIOUS

LEMMA Longer ==
  ASSUME NEW S, NEW q \in Seq(S), NEW e \in S
  PROVE  /\ Append(q, e) \in Seq(S) /\ Append(q, e) # << >>
         /\ Len(q) + 1 \in DOMAIN Append(q, e)
         /\ Append(q, e)[Len(q) + 1] = e
OBVIOUS

LEMMA RunPostedKeeps ==
  ASSUME Inv, NEW k \in Conn, RunPosted(k)
  PROVE  Inv'
<1>1. /\ queue # << >> /\ queue' = Tail(queue)
      /\ asked' = Append(asked, k) /\ nested' = nested + 1
      /\ reading' = reading
  BY DEF RunPosted, AskAndRunOne
<1>2. asked' \in Seq(Conn) /\ asked' # << >>
  BY <1>1, Longer DEF Inv, Shape
<1>3. queue' \in Seq([request : Conn, resolved : BOOLEAN])
  BY <1>1, Shorter DEF Inv, Shape
<1>. QED  BY <1>1, <1>2, <1>3 DEF Inv, Shape, AddressDue

LEMMA AnswerKeeps ==
  ASSUME Inv, NEW k \in Conn, Answer(k)
  PROVE  Inv'
<1>1. /\ asked # << >> /\ asked' = Tail(asked)
      /\ queue' = Append(queue, Resolved(k))
      /\ UNCHANGED <<nested, reading>>
  BY DEF Answer
<1>2. Resolved(k) \in [request : Conn, resolved : BOOLEAN]
      /\ Resolved(k).resolved
  BY DEF Resolved
<1>3. /\ queue' \in Seq([request : Conn, resolved : BOOLEAN])
      /\ \E i \in DOMAIN queue' : queue'[i].resolved
  <2>1. /\ queue' \in Seq([request : Conn, resolved : BOOLEAN])
        /\ Len(queue) + 1 \in DOMAIN queue'
        /\ queue'[Len(queue) + 1] = Resolved(k)
    BY <1>1, <1>2, Longer DEF Inv, Shape
  <2>. QED  BY <1>2, <2>1
<1>4. asked' \in Seq(Conn)
  BY <1>1, Shorter DEF Inv, Shape
<1>. QED  BY <1>1, <1>3, <1>4 DEF Inv, Shape, AddressDue

LEMMA RunResolvedKeeps ==
  ASSUME Inv, NEW k \in Conn, RunResolved(k)
  PROVE  Inv'
<1>1. /\ queue # << >> /\ queue' = Tail(queue) /\ asked' = asked
      /\ \/ nested' = 0 /\ reading' = reading
         \/ nested' = nested /\ reading' = k
  BY DEF RunResolved, AllRunOnesEnd
<1>2. queue' \in Seq([request : Conn, resolved : BOOLEAN])
  BY <1>1, Shorter DEF Inv, Shape
<1>3. k # 0
  BY StreamAssumption DEF Conn
<1>. QED  BY <1>1, <1>2, <1>3 DEF Inv, Shape, AddressDue

LEMMA NextKeepsInv ==
  Inv /\ [Next]_vars => Inv'
<1>. SUFFICES ASSUME Inv, [Next]_vars PROVE Inv'
  OBVIOUS
<1>1. CASE UNCHANGED <<queue, asked, nested, reading>>
  BY <1>1 DEF Inv, Shape, AddressDue
<1>2. ASSUME NEW k \in Conn, ReadEnds(k) PROVE Inv'
  <2>1. nested' = 0 /\ reading' = 0 /\ UNCHANGED <<queue, asked>>
    BY <1>2 DEF ReadEnds, AllRunOnesEnd
  <2>. QED  BY <2>1 DEF Inv, Shape, AddressDue
<1>3. CASE Handlers
  <2>1. CASE Returns
    BY <1>1, <2>1 DEF Returns
  <2>. QED  BY <1>2, <1>3, <2>1, RunPostedKeeps, RunResolvedKeeps
            DEF Handlers
<1>4. CASE Resolver
  BY <1>4, AnswerKeeps DEF Resolver
<1>5. CASE Environment
  BY <1>1, <1>5 DEF Environment
<1>. QED  BY <1>1, <1>3, <1>4, <1>5 DEF Next, vars

LEMMA InvHasWork ==
  Inv => RunOneHasWork
<1>. SUFFICES ASSUME Inv, nested > 0
              PROVE  queue # << >> \/ asked # << >> \/ reading # 0
  BY DEF RunOneHasWork
<1>1. queue = << >> => ~ \E i \in DOMAIN queue : queue[i].resolved
  OBVIOUS
<1>. QED  BY <1>1 DEF Inv, AddressDue

-----------------------------------------------------------------------------
(* The rest of the types.                                                  *)
Rest ==
  /\ StreamTypes
  /\ main \in {"running", "returned", "failed"}
  /\ callbacks \in Seq(Conn \X (0 .. MaxParts))

LEMMA ServerTypes ==
  ASSUME StreamTypes, NEW k \in Conn, Server(k)
  PROVE  StreamTypes'
<1>1. MaxParts \in Nat
  BY StreamAssumption
<1>2. CASE ServerSends(k)
  BY <1>1, <1>2 DEF ServerSends, StreamTypes
<1>3. CASE ServerEnds(k) \/ LinkBreaks(k)
  BY <1>3 DEF ServerEnds, LinkBreaks, StreamTypes
<1>. QED  BY <1>2, <1>3 DEF Server

LEMMA RestKeeps ==
  ASSUME Rest, [Next]_vars
  PROVE  Rest'
<1>1. CASE UNCHANGED <<main, callbacks, stream, parts>>
  BY <1>1 DEF Rest, StreamTypes
<1>2. ASSUME NEW k \in Conn, RunResolved(k) PROVE Rest'
  <2>1. /\ main' \in {"running", "returned", "failed"}
        /\ UNCHANGED <<callbacks, parts>>
    BY <1>2 DEF RunResolved, Rest
  <2>2. \/ stream' = stream
        \/ stream' = [stream EXCEPT ![k] = "reset"]
        \/ stream' = [stream EXCEPT ![k] = "asked"]
    BY <1>2 DEF RunResolved
  <2>3. StreamTypes'
    BY <2>1, <2>2 DEF Rest, StreamTypes
  <2>. QED  BY <2>1, <2>3 DEF Rest
<1>3. ASSUME NEW k \in Conn, ReadEnds(k) PROVE Rest'
  <2>1. <<k, parts[k]>> \in Conn \X (0 .. MaxParts)
    BY DEF Rest, StreamTypes
  <2>2. callbacks' \in Seq(Conn \X (0 .. MaxParts))
    BY <1>3, <2>1, Longer DEF ReadEnds, Rest
  <2>. QED  BY <1>3, <2>2 DEF ReadEnds, Rest, StreamTypes
<1>4. CASE Handlers
  <2>1. CASE Returns
    BY <2>1 DEF Returns, Rest, StreamTypes
  <2>2. ASSUME NEW k \in Conn, RunPosted(k) PROVE Rest'
    BY <1>1, <2>2 DEF RunPosted
  <2>. QED  BY <1>2, <1>3, <1>4, <2>1, <2>2 DEF Handlers
<1>5. CASE Resolver
  BY <1>1, <1>5 DEF Resolver, Answer
<1>6. CASE Environment
  BY <1>6, ServerTypes DEF Environment, Rest
<1>. QED  BY <1>1, <1>4, <1>5, <1>6 DEF Next, vars

(* The variables of client2.cpp's model keep their types.                  *)
THEOREM PostedTypeCorrect == Spec => []TypeOK
<1>1. Init => Rest
  BY StreamAssumption DEF Init, StreamInit, StreamTypes, Rest
<1>2. Init => Inv
  BY InitInv
<1>3. Inv /\ Rest /\ [Next]_vars => Inv' /\ Rest'
  BY NextKeepsInv, RestKeeps
<1>4. Inv /\ Rest => TypeOK
  BY DEF Inv, Shape, Rest, TypeOK
<1>. QED  BY <1>1, <1>2, <1>3, <1>4, PTL DEF Spec

(* client2.cpp line 63: run_one is never called with nothing to run or to  *)
(* wait for, whatever the number of requests posted.                       *)
THEOREM RunOneAlwaysHasWork == Spec => []RunOneHasWork
<1>1. Init => Inv
  BY InitInv
<1>2. Inv /\ [Next]_vars => Inv'
  BY NextKeepsInv
<1>3. Inv => RunOneHasWork
  BY InvHasWork
<1>. QED  BY <1>1, <1>2, <1>3, PTL DEF Spec

-----------------------------------------------------------------------------
(* The order of the requests: those resolved come before those asked for,  *)
(* which come before those still posted, each group in its own order.      *)
QueueOrder ==
  \A i, j \in DOMAIN queue :
    (\/ i < j /\ (queue[i].resolved <=> queue[j].resolved)
     \/ queue[i].resolved /\ ~queue[j].resolved)
    => queue[i].request < queue[j].request

AskedOrder ==
  \A i, j \in DOMAIN asked : i < j => asked[i] < asked[j]

AskedBetween ==
  \A i \in DOMAIN queue, j \in DOMAIN asked :
    /\ queue[i].resolved => queue[i].request < asked[j]
    /\ ~queue[i].resolved => asked[j] < queue[i].request

(* A request that waits has no stream, and what is read or was called back *)
(* came before it.                                                         *)
Untouched(k) ==
  /\ stream[k] = "none"
  /\ reading # 0 => reading < k
  /\ \A c \in DOMAIN callbacks : callbacks[c][1] < k

WaitingUntouched ==
  /\ \A i \in DOMAIN queue : Untouched(queue[i].request)
  /\ \A j \in DOMAIN asked : Untouched(asked[j])

CallbackOrder ==
  \A i \in DOMAIN callbacks :
    /\ \A j \in 1 .. i - 1 : callbacks[j][1] < callbacks[i][1]
    /\ reading # 0 => callbacks[i][1] < reading

CallbackWhole ==
  \A i \in DOMAIN callbacks :
    /\ stream[callbacks[i][1]] = "shut"
    /\ callbacks[i][2] = parts[callbacks[i][1]]

(* Only the stream that is read is live, and an answer that is due and not *)
(* being read has been called back.                                        *)
OneLive == \A k \in Conn : Live(k) => reading = k

NoneMissing ==
  \A k \in WithCallback : stream[k] = "shut" =>
    reading = k \/ \E i \in DOMAIN callbacks : callbacks[i][1] = k

DoneIdle == main = "returned" => reading = 0

Waiting == QueueOrder /\ AskedOrder /\ AskedBetween
Served  == CallbackOrder /\ CallbackWhole /\ OneLive /\ NoneMissing /\ DoneIdle
Order   == Waiting /\ WaitingUntouched /\ Served

LEMMA InitOrder ==
  Init => Order
<1>. SUFFICES ASSUME Init PROVE Order
  OBVIOUS
<1>1. /\ main = "running" /\ reading = 0 /\ asked = << >> /\ callbacks = << >>
      /\ queue = [k \in Conn |-> Posted(k)]
      /\ stream = [c \in Conn |-> "none"]
  BY DEF Init, StreamInit
<1>2. \A k \in Conn : /\ ~queue[k].resolved /\ queue[k].request = k
                      /\ stream[k] = "none"
  BY <1>1 DEF Posted
<1>3. /\ DOMAIN queue = Conn /\ DOMAIN asked = {} /\ DOMAIN callbacks = {}
  BY <1>1
<1>4. Waiting
  BY <1>2, <1>3 DEF Waiting, QueueOrder, AskedOrder, AskedBetween
<1>5. WaitingUntouched
  BY <1>1, <1>2, <1>3 DEF WaitingUntouched, Untouched
<1>6. Served
  BY <1>1, <1>2, <1>3, CallbackAssumption
  DEF Served, CallbackOrder, CallbackWhole, OneLive, NoneMissing, DoneIdle,
      Live
<1>. QED  BY <1>4, <1>5, <1>6 DEF Order

(* Where the elements of a shorter and of a longer sequence come from.     *)
LEMMA ShorterAt ==
  ASSUME NEW S, NEW q \in Seq(S), q # << >>
  PROVE  /\ 1 \in DOMAIN q /\ q[1] = Head(q)
         /\ \A i \in DOMAIN Tail(q) :
              i \in Nat /\ i + 1 \in DOMAIN q /\ Tail(q)[i] = q[i + 1]
              /\ 1 < i + 1
OBVIOUS

LEMMA LongerAt ==
  ASSUME NEW S, NEW q \in Seq(S), NEW e \in S
  PROVE  \A i \in DOMAIN Append(q, e) :
           \/ i \in DOMAIN q /\ Append(q, e)[i] = q[i]
           \/ /\ i = Len(q) + 1 /\ Append(q, e)[i] = e
              /\ \A j \in DOMAIN q : j < i
OBVIOUS

LEMMA ElementAt ==
  ASSUME NEW S, NEW q \in Seq(S), NEW i \in DOMAIN q
  PROVE  q[i] \in S
OBVIOUS

LEMMA Members ==
  ASSUME Shape, Rest
  PROVE  /\ \A i \in DOMAIN queue : queue[i].request \in Conn
         /\ \A j \in DOMAIN asked : asked[j] \in Conn
         /\ \A c \in DOMAIN callbacks : callbacks[c][1] \in Conn
         /\ Conn \subseteq Int
<1>1. ASSUME NEW i \in DOMAIN queue PROVE queue[i].request \in Conn
  <2>1. queue[i] \in [request : Conn, resolved : BOOLEAN]
    BY ElementAt DEF Shape
  <2>. QED  BY <2>1
<1>2. \A j \in DOMAIN asked : asked[j] \in Conn
  BY ElementAt DEF Shape
<1>3. ASSUME NEW c \in DOMAIN callbacks PROVE callbacks[c][1] \in Conn
  <2>1. callbacks[c] \in Conn \X (0 .. MaxParts)
    BY ElementAt DEF Rest
  <2>. QED  BY <2>1
<1>4. Conn \subseteq Int
  BY DEF Conn
<1>. QED  BY <1>1, <1>2, <1>3, <1>4

LEMMA RunPostedKeepsOrder ==
  ASSUME Inv, Rest, Order, NEW k \in Conn, RunPosted(k)
  PROVE  Order'
<1>1. /\ queue # << >> /\ Head(queue) = Posted(k) /\ queue' = Tail(queue)
      /\ asked' = Append(asked, k)
      /\ UNCHANGED <<main, reading, callbacks, stream, parts>>
  BY DEF RunPosted, AskAndRunOne
<1>2. /\ 1 \in DOMAIN queue /\ queue[1].request = k /\ ~queue[1].resolved
      /\ \A i \in DOMAIN queue' :
           i \in Nat /\ i + 1 \in DOMAIN queue /\ queue'[i] = queue[i + 1]
           /\ 1 < i + 1
  BY <1>1, ShorterAt DEF Inv, Shape, Posted
<1>3. \A j \in DOMAIN asked' :
        \/ j \in DOMAIN asked /\ asked'[j] = asked[j]
        \/ asked'[j] = k /\ \A l \in DOMAIN asked : l < j
  BY <1>1, LongerAt DEF Inv, Shape
<1>4. \A i, j \in DOMAIN asked' :
        i < j => i \in DOMAIN asked /\ asked'[i] = asked[i]
  BY <1>1, LongerAt DEF Inv, Shape
<1>5. QueueOrder'
  BY <1>2 DEF Order, Waiting, QueueOrder
<1>6. AskedOrder'
  BY <1>2, <1>3, <1>4 DEF Order, Waiting, AskedOrder, AskedBetween
<1>7. AskedBetween'
  BY <1>2, <1>3 DEF Order, Waiting, QueueOrder, AskedBetween
<1>8. WaitingUntouched'
  BY <1>1, <1>2, <1>3 DEF Order, WaitingUntouched, Untouched
<1>9. Served'
  BY <1>1 DEF Order, Served, CallbackOrder, CallbackWhole, OneLive, NoneMissing,
              DoneIdle, Live
<1>. QED  BY <1>5, <1>6, <1>7, <1>8, <1>9 DEF Order, Waiting

LEMMA AnswerKeepsOrder ==
  ASSUME Inv, Rest, Order, NEW k \in Conn, Answer(k)
  PROVE  Order'
<1>1. /\ asked # << >> /\ Head(asked) = k /\ asked' = Tail(asked)
      /\ queue' = Append(queue, Resolved(k))
      /\ UNCHANGED <<main, reading, callbacks, stream, parts>>
  BY DEF Answer
<1>2. /\ 1 \in DOMAIN asked /\ asked[1] = k
      /\ \A j \in DOMAIN asked' :
           j \in Nat /\ j + 1 \in DOMAIN asked /\ asked'[j] = asked[j + 1]
           /\ 1 < j + 1
  BY <1>1, ShorterAt DEF Inv, Shape
<1>3. /\ Resolved(k) \in [request : Conn, resolved : BOOLEAN]
      /\ Resolved(k).resolved /\ Resolved(k).request = k
  BY DEF Resolved
<1>4. \A i \in DOMAIN queue' :
        \/ i \in DOMAIN queue /\ queue'[i] = queue[i]
        \/ /\ queue'[i].resolved /\ queue'[i].request = k
           /\ i = Len(queue) + 1 /\ \A j \in DOMAIN queue : j < i
  BY <1>1, <1>3, LongerAt DEF Inv, Shape
<1>5. DOMAIN queue \subseteq Nat
  BY DEF Inv, Shape
<1>6. QueueOrder'
  BY <1>2, <1>4, <1>5 DEF Order, Waiting, QueueOrder, AskedBetween
<1>7. AskedOrder'
  BY <1>2 DEF Order, Waiting, AskedOrder
<1>8. AskedBetween'
  BY <1>2, <1>4 DEF Order, Waiting, AskedOrder, AskedBetween
<1>9. WaitingUntouched'
  BY <1>1, <1>2, <1>4 DEF Order, WaitingUntouched, Untouched
<1>10. Served'
  BY <1>1 DEF Order, Served, CallbackOrder, CallbackWhole, OneLive, NoneMissing,
              DoneIdle, Live
<1>. QED  BY <1>6, <1>7, <1>8, <1>9, <1>10 DEF Order, Waiting

LEMMA RunResolvedKeepsOrder ==
  ASSUME Inv, Rest, Order, NEW k \in Conn, RunResolved(k)
  PROVE  Order'
<1>1. /\ reading = 0 /\ queue # << >> /\ Head(queue) = Resolved(k)
      /\ queue' = Tail(queue)
      /\ UNCHANGED <<asked, callbacks, parts>>
  BY DEF RunResolved, Free
<1>2. /\ 1 \in DOMAIN queue /\ queue[1].request = k /\ queue[1].resolved
      /\ \A i \in DOMAIN queue' :
           i \in Nat /\ i + 1 \in DOMAIN queue /\ queue'[i] = queue[i + 1]
           /\ 1 < i + 1
  BY <1>1, ShorterAt DEF Inv, Shape, Resolved
<1>3. /\ \/ reading' = 0 /\ stream' = stream
         \/ reading' = 0 /\ stream' = [stream EXCEPT ![k] = "reset"]
         \/ reading' = k /\ stream' = [stream EXCEPT ![k] = "asked"]
      /\ main' # "returned"
  BY <1>1 DEF RunResolved, Free
<1>4. \A l \in Conn : l # k => stream'[l] = stream[l]
  BY <1>3 DEF Rest, StreamTypes
<1>5. /\ \A i \in DOMAIN queue' : queue'[i].request \in Conn
                                  /\ k < queue'[i].request
      /\ \A j \in DOMAIN asked : asked[j] \in Conn /\ k < asked[j]
  BY <1>2, Members DEF Inv, Order, Waiting, QueueOrder, AskedBetween
<1>6. Untouched(k)
  BY <1>2 DEF Order, WaitingUntouched
<1>7. Conn \subseteq Int /\ \A l \in Conn : l # 0
  BY DEF Conn
<1>8. Waiting'
  BY <1>1, <1>2
  DEF Order, Waiting, QueueOrder, AskedOrder, AskedBetween
<1>9. WaitingUntouched'
  <2>1. ASSUME NEW l \in Conn, k < l, Untouched(l) PROVE Untouched(l)'
    <3>1. l # k
      BY <1>7, <2>1
    <3>2. stream'[l] = "none"
      BY <1>4, <2>1, <3>1 DEF Untouched
    <3>3. reading' # 0 => reading' < l
      BY <1>3, <2>1
    <3>. QED  BY <1>1, <2>1, <3>2, <3>3 DEF Untouched
  <2>2. /\ \A i \in DOMAIN queue' : Untouched(queue'[i].request)
        /\ \A j \in DOMAIN asked : Untouched(asked[j])
    BY <1>2 DEF Order, WaitingUntouched
  <2>3. ASSUME NEW i \in DOMAIN queue' PROVE Untouched(queue[i].request)'
    BY <1>5, <2>1, <2>2 DEF Untouched
  <2>4. ASSUME NEW j \in DOMAIN asked PROVE Untouched(asked[j])'
    BY <1>1, <1>5, <2>1, <2>2 DEF Untouched
  <2>. QED  BY <1>1, <2>3, <2>4 DEF WaitingUntouched
<1>10. \A c \in DOMAIN callbacks :
         callbacks[c][1] \in Conn /\ callbacks[c][1] < k
  BY <1>6, Members DEF Untouched, Inv
<1>11. CallbackOrder' /\ CallbackWhole'
  <2>1. CallbackOrder'
    BY <1>1, <1>3, <1>10 DEF Order, Served, CallbackOrder
  <2>2. \A c \in DOMAIN callbacks : callbacks[c][1] # k
    BY <1>7, <1>10
  <2>. QED  BY <1>1, <1>4, <1>10, <2>1, <2>2 DEF Order, Served, CallbackWhole
<1>12. OneLive'
  <2>1. \A l \in Conn : ~Live(l)
    BY <1>1, <1>7 DEF Order, Served, OneLive
  <2>2. \A l \in Conn : l # k => ~Live(l)'
    BY <1>4, <2>1 DEF Live
  <2>3. Live(k)' => reading' = k
    BY <1>3, <2>1 DEF Live, Rest, StreamTypes
  <2>. QED  BY <2>2, <2>3 DEF OneLive, Live
<1>13. NoneMissing'
  BY <1>1, <1>3, <1>6, CallbackAssumption, StreamAssumption
  DEF Order, Served, NoneMissing, Rest, StreamTypes, Untouched, Conn
<1>. QED  BY <1>3, <1>8, <1>9, <1>11, <1>12, <1>13
          DEF Order, Served, DoneIdle

LEMMA ReadEndsKeepsOrder ==
  ASSUME Inv, Rest, Order, NEW k \in Conn, ReadEnds(k)
  PROVE  Order'
<1>1. /\ reading = k /\ k # 0 /\ Ended(k) /\ reading' = 0
      /\ UNCHANGED <<main, queue, asked, stream, parts>>
  BY DEF ReadEnds, Conn
<1>2. DOMAIN callbacks \subseteq Nat
  BY DEF Rest
<1>3. \/ /\ stream[k] = "shut" /\ k \in WithCallback
         /\ \A i \in DOMAIN callbacks' :
              \/ i \in DOMAIN callbacks /\ callbacks'[i] = callbacks[i]
              \/ i = Len(callbacks) + 1 /\ callbacks'[i] = <<k, parts[k]>>
         /\ DOMAIN callbacks' = 1 .. Len(callbacks) + 1
         /\ \A i \in DOMAIN callbacks : callbacks'[i] = callbacks[i]
         /\ callbacks'[Len(callbacks) + 1] = <<k, parts[k]>>
      \/ /\ ~(stream[k] = "shut" /\ k \in WithCallback)
         /\ callbacks' = callbacks
  BY DEF ReadEnds, Rest
<1>4. \A i \in DOMAIN callbacks' :
        \/ i \in DOMAIN callbacks /\ callbacks'[i] = callbacks[i]
        \/ i = Len(callbacks) + 1 /\ callbacks'[i] = <<k, parts[k]>>
           /\ stream[k] = "shut"
  BY <1>3
<1>5. DOMAIN callbacks = 1 .. Len(callbacks) /\ Len(callbacks) \in Nat
  BY DEF Rest
<1>6. Waiting'
  BY <1>1 DEF Order, Waiting, QueueOrder, AskedOrder, AskedBetween
<1>7. WaitingUntouched'
  BY <1>1, <1>4 DEF Order, WaitingUntouched, Untouched
<1>8. CallbackOrder'
  <2>1. ASSUME NEW i \in DOMAIN callbacks', NEW j \in 1 .. i - 1
        PROVE  callbacks'[j][1] < callbacks'[i][1]
    <3>1. j \in DOMAIN callbacks' /\ j < i
      BY <1>3, <1>5
    <3>2. j \in DOMAIN callbacks /\ callbacks'[j] = callbacks[j]
      BY <1>4, <1>5, <3>1
    <3>. QED  BY <1>1, <1>4, <1>5, <3>2 DEF Order, Served, CallbackOrder
  <2>. QED  BY <1>1, <2>1 DEF CallbackOrder
<1>9. CallbackWhole'
  BY <1>1, <1>4 DEF Order, Served, CallbackWhole
<1>10. OneLive' /\ DoneIdle'
  BY <1>1 DEF Order, Served, OneLive, DoneIdle, Live, Ended
<1>11. NoneMissing'
  <2>1. ASSUME NEW l \in WithCallback, stream[l] = "shut"
        PROVE  \E i \in DOMAIN callbacks' : callbacks'[i][1] = l
    <3>1. CASE l = k
      BY <1>3, <1>5, <2>1, <3>1
    <3>2. CASE l # k
      <4>1. PICK i \in DOMAIN callbacks : callbacks[i][1] = l
        BY <1>1, <2>1, <3>2 DEF Order, Served, NoneMissing
      <4>. QED  BY <1>3, <1>5, <4>1
    <3>. QED  BY <3>1, <3>2
  <2>. QED  BY <1>1, <2>1 DEF NoneMissing
<1>. QED  BY <1>6, <1>7, <1>8, <1>9, <1>10, <1>11 DEF Order, Served

(* The server only touches a live stream, which is the one being read.     *)
LEMMA ServerKeepsOrder ==
  ASSUME Inv, Rest, Order, Environment
  PROVE  Order'
<1>1. PICK k \in Conn : Server(k)
  BY DEF Environment
<1>2. UNCHANGED <<main, queue, asked, nested, reading, callbacks>>
  BY DEF Environment
<1>3. Live(k) /\ stream[k] # "shut" /\ stream[k] # "none"
  BY <1>1 DEF Server, ServerSends, ServerEnds, LinkBreaks, Live
<1>4. reading = k
  BY <1>3 DEF Order, Served, OneLive
<1>5. \A l \in Conn : l # k => stream'[l] = stream[l] /\ parts'[l] = parts[l]
  BY <1>1 DEF Server, ServerSends, ServerEnds, LinkBreaks, Rest, StreamTypes
<1>6. Waiting'
  BY <1>2 DEF Order, Waiting, QueueOrder, AskedOrder, AskedBetween
<1>7. WaitingUntouched'
  <2>1. \A l \in Conn : Untouched(l) => Untouched(l)'
    BY <1>2, <1>3, <1>5 DEF Untouched
  <2>2. /\ \A i \in DOMAIN queue : queue[i].request \in Conn
        /\ \A j \in DOMAIN asked : asked[j] \in Conn
    BY Members DEF Inv
  <2>. QED  BY <1>2, <2>1, <2>2 DEF Order, WaitingUntouched, Untouched
<1>8. \A c \in DOMAIN callbacks : callbacks[c][1] \in Conn
  BY Members DEF Inv
<1>9. CallbackOrder' /\ CallbackWhole'
  BY <1>2, <1>3, <1>5, <1>8 DEF Order, Served, CallbackOrder, CallbackWhole
<1>10. OneLive' /\ NoneMissing' /\ DoneIdle'
  BY <1>2, <1>4, <1>5, CallbackAssumption
  DEF Order, Served, OneLive, NoneMissing, DoneIdle, Live
<1>. QED  BY <1>6, <1>7, <1>9, <1>10 DEF Order, Served

LEMMA NextKeepsOrder ==
  Inv /\ Rest /\ Order /\ [Next]_vars => Order'
<1>. SUFFICES ASSUME Inv, Rest, Order, [Next]_vars PROVE Order'
  OBVIOUS
<1>1. CASE UNCHANGED <<queue, asked, reading, callbacks, stream, parts>>
           /\ (main' = main \/ reading = 0)
  BY <1>1
  DEF Order, Waiting, QueueOrder, AskedOrder, AskedBetween, WaitingUntouched,
      Untouched, Served, CallbackOrder, CallbackWhole, OneLive, NoneMissing,
      DoneIdle, Live
<1>2. CASE Handlers
  <2>1. CASE Returns
    BY <1>1, <2>1 DEF Returns, Free
  <2>. QED  BY <1>2, <2>1, RunPostedKeepsOrder, RunResolvedKeepsOrder,
               ReadEndsKeepsOrder DEF Handlers
<1>3. CASE Resolver
  BY <1>3, AnswerKeepsOrder DEF Resolver
<1>4. CASE Environment
  BY <1>4, ServerKeepsOrder
<1>. QED  BY <1>1, <1>2, <1>3, <1>4 DEF Next, vars

LEMMA OrderAnswers ==
  Order => AnswersInOrder
<1>. SUFFICES ASSUME Order PROVE AnswersInOrder
  OBVIOUS
<1>1. \A k \in WithCallback : k # 0
  BY CallbackAssumption DEF Conn
<1>. QED
  BY <1>1
  DEF AnswersInOrder, Order, Served, CallbackOrder, CallbackWhole, NoneMissing,
      DoneIdle

(* client2.cpp lines 112-118 and 142-163: the callbacks come in the order  *)
(* of the requests, each once and with its whole answer, and none that was *)
(* due is missing when the program ends, whatever the number of requests.  *)
THEOREM AnswersAlwaysInOrder == Spec => []AnswersInOrder
<1>1. Init => Inv /\ Order
  BY InitInv, InitOrder
<1>2. Init => Rest
  BY StreamAssumption DEF Init, StreamInit, StreamTypes, Rest
<1>3. Inv /\ Rest /\ Order /\ [Next]_vars => Inv' /\ Rest' /\ Order'
  BY NextKeepsInv, RestKeeps, NextKeepsOrder
<1>4. Order => AnswersInOrder
  BY OrderAnswers
<1>. QED  BY <1>1, <1>2, <1>3, <1>4, PTL DEF Spec

-----------------------------------------------------------------------------
(* client.cpp.                                                             *)

(* A connection that was made is waited for or read from, or it is over.   *)
Attended ==
  \A c \in N!Conn :
    stream[c] # "none" =>
      \/ write_in_progress_[c] \/ read_in_progress_[c] \/ readingFrom = c
      \/ stream[c] = "reset"
      \/ stream[c] = "shut" /\ printed[c] = parts[c]

(* Nothing is waited for when the context has returned.                    *)
ClientQuiet ==
  clientMain = "returned" =>
    /\ readingFrom = 0
    /\ \A c \in N!Conn : ~write_in_progress_[c] /\ ~read_in_progress_[c]

ClientInv == N!TypeOK /\ Attended /\ ClientQuiet

LEMMA ClientInit ==
  N!Init => ClientInv
BY StreamAssumption
   DEF N!Init, N!StreamInit, ClientInv, N!TypeOK, N!StreamTypes, Attended,
       ClientQuiet, N!Conn

LEMMA NotZero ==
  \A c \in N!Conn : c # 0
BY StreamAssumption DEF N!Conn

LEMMA ClientResolvedKeeps ==
  ASSUME ClientInv, NEW c \in N!Conn, N!Resolved(c)
  PROVE  ClientInv'
<1>. USE DEF ClientInv
<1>1. N!TypeOK'
  BY DEF N!Resolved, N!TypeOK, N!StreamTypes
<1>2. Attended'
  BY DEF N!Resolved, N!Free, N!TypeOK, N!StreamTypes, Attended
<1>3. clientMain # "returned" /\ clientMain' # "returned"
  BY DEF N!Resolved, N!Free
<1>. QED  BY <1>1, <1>2, <1>3 DEF ClientQuiet

LEMMA WriteReadyKeeps ==
  ASSUME ClientInv, NEW c \in N!Conn, N!WriteReady(c)
  PROVE  ClientInv'
<1>. USE DEF ClientInv
<1>1. PICK wrote \in {"all", "some", "nothing"} :
        /\ (wrote = "all") <=> (stream[c] # "reset")
        /\ state_' = N!AfterWrite(c, wrote)
        /\ stream' = IF wrote = "all" /\ stream[c] = "open"
                     THEN [stream EXCEPT ![c] = "asked"] ELSE stream
  BY DEF N!WriteReady
<1>2. /\ write_in_progress_' = [write_in_progress_ EXCEPT ![c] = FALSE]
      /\ read_in_progress_' =
           [read_in_progress_ EXCEPT ![c] = (state_'[c] = "reading")]
      /\ UNCHANGED <<clientMain, resolving, readingFrom, printed, parts>>
      /\ clientMain = "running"
  BY DEF N!WriteReady, N!Free
<1>3. state_' \in [N!Conn -> {"writing", "reading"}]
      /\ (stream[c] # "reset" => state_'[c] = "reading")
  BY <1>1 DEF N!AfterWrite, N!TypeOK
<1>4. /\ stream' \in [N!Conn -> {"none", "open", "asked", "shut", "reset"}]
      /\ stream'[c] = "reset" <=> stream[c] = "reset"
      /\ \A d \in N!Conn \ {c} : stream'[d] = stream[d]
  BY <1>1 DEF N!TypeOK, N!StreamTypes
<1>5. /\ read_in_progress_' \in [N!Conn -> BOOLEAN]
      /\ stream[c] # "reset" => read_in_progress_'[c]
      /\ \A d \in N!Conn \ {c} : read_in_progress_'[d] = read_in_progress_[d]
  <2>. DEFINE reads == (state_'[c] = "reading")
  <2>1. reads \in BOOLEAN /\ (stream[c] # "reset" => reads)
    BY <1>3
  <2>. HIDE DEF reads
  <2>2. read_in_progress_' = [read_in_progress_ EXCEPT ![c] = reads]
    BY <1>2 DEF reads
  <2>. QED  BY <2>1, <2>2 DEF N!TypeOK
<1>6. /\ write_in_progress_' \in [N!Conn -> BOOLEAN]
      /\ \A d \in N!Conn \ {c} : write_in_progress_'[d] = write_in_progress_[d]
  BY <1>2 DEF N!TypeOK
<1>7. N!TypeOK'
  BY <1>2, <1>3, <1>4, <1>5, <1>6 DEF N!TypeOK, N!StreamTypes
<1>8. Attended'
  <2>1. ASSUME NEW d \in N!Conn, d # c PROVE (stream[d] # "none" =>
          \/ write_in_progress_[d] \/ read_in_progress_[d] \/ readingFrom = d
          \/ stream[d] = "reset"
          \/ stream[d] = "shut" /\ printed[d] = parts[d])'
    BY <1>2, <1>4, <1>5, <1>6, <2>1 DEF Attended, N!TypeOK, N!StreamTypes
  <2>2. read_in_progress_'[c] \/ stream'[c] = "reset"
    BY <1>4, <1>5
  <2>. QED  BY <2>1, <2>2 DEF Attended, N!TypeOK, N!StreamTypes
<1>. QED  BY <1>2, <1>7, <1>8 DEF ClientQuiet

LEMMA ClientReadKeeps ==
  ASSUME ClientInv, NEW c \in N!Conn, N!ReadReady(c) \/ N!ReadEnds(c)
  PROVE  ClientInv'
<1>. USE DEF ClientInv
<1>1. CASE N!ReadReady(c)
  <2>1. N!TypeOK'
    BY <1>1 DEF N!ReadReady, N!TypeOK, N!StreamTypes, N!session
  <2>2. Attended'
    BY <1>1, NotZero DEF N!ReadReady, N!Free, N!TypeOK, N!StreamTypes,
       Attended, N!session
  <2>3. clientMain' = "running"
    BY <1>1 DEF N!ReadReady, N!Free
  <2>. QED  BY <2>1, <2>2, <2>3 DEF ClientQuiet
<1>2. CASE N!ReadEnds(c)
  <2>1. PICK n \in N!ReadToEnd(c) : printed' = [printed EXCEPT ![c] = n]
    BY <1>2 DEF N!ReadEnds
  <2>2. /\ n \in 0 .. MaxParts
        /\ stream[c] = "reset" \/ (stream[c] = "shut" /\ n = parts[c])
    <3>1. parts[c] \in 0 .. MaxParts
      BY DEF N!TypeOK, N!StreamTypes
    <3>2. CASE stream[c] = "shut"
      BY <2>1, <3>1, <3>2 DEF N!ReadToEnd
    <3>3. CASE stream[c] = "reset"
      BY <2>1, <3>1, <3>3, StreamAssumption DEF N!ReadToEnd
    <3>4. CASE stream[c] # "shut" /\ stream[c] # "reset"
      BY <2>1, <3>4 DEF N!ReadToEnd
    <3>. QED  BY <3>2, <3>3, <3>4
  <2>3. readingFrom = c /\ readingFrom' = 0 /\ c # 0
        /\ UNCHANGED <<clientMain, resolving, state_, write_in_progress_,
                       read_in_progress_, stream, parts>>
    BY <1>2, NotZero DEF N!ReadEnds, N!session
  <2>4. N!TypeOK'
    BY <2>1, <2>2, <2>3 DEF N!TypeOK, N!StreamTypes
  <2>5. Attended'
    BY <2>1, <2>2, <2>3 DEF N!TypeOK, N!StreamTypes, Attended
  <2>. QED  BY <2>3, <2>4, <2>5 DEF ClientQuiet
<1>. QED  BY <1>1, <1>2

LEMMA ClientServerKeeps ==
  ASSUME ClientInv, NEW c \in N!Conn, N!Server(c),
         UNCHANGED <<clientMain, resolving, N!session, readingFrom, printed>>
  PROVE  ClientInv'
<1>. USE DEF ClientInv
<1>1. N!TypeOK'
  BY StreamAssumption DEF N!Server, N!ServerSends, N!ServerEnds,
     N!LinkBreaks, N!TypeOK, N!StreamTypes, N!session
<1>2. Attended'
  BY DEF N!Server, N!ServerSends, N!ServerEnds, N!LinkBreaks, N!Live, N!TypeOK,
     N!StreamTypes, Attended, N!session
<1>. QED  BY <1>1, <1>2 DEF ClientQuiet, N!session

LEMMA ClientNextKeeps ==
  ClientInv /\ [N!Next]_(N!vars) => ClientInv'
<1>. SUFFICES ASSUME ClientInv, [N!Next]_(N!vars) PROVE ClientInv'
  OBVIOUS
<1>1. CASE UNCHANGED N!vars
  BY <1>1 DEF ClientInv, N!TypeOK, N!StreamTypes, Attended, ClientQuiet,
     N!vars, N!session
<1>2. CASE N!Returns
  <2>1. /\ UNCHANGED <<resolving, N!session, readingFrom, printed, stream,
                       parts>>
        /\ clientMain' = "returned" /\ readingFrom = 0
        /\ \A c \in N!Conn : ~write_in_progress_[c] /\ ~read_in_progress_[c]
    BY <1>2 DEF N!Returns, N!Free
  <2>. QED  BY <2>1 DEF ClientInv, N!TypeOK, N!StreamTypes, Attended,
               ClientQuiet, N!session
<1>3. CASE N!Environment
  BY <1>3, ClientServerKeeps DEF N!Environment
<1>. QED  BY <1>1, <1>2, <1>3, ClientResolvedKeeps, WriteReadyKeeps,
             ClientReadKeeps
          DEF N!Next, N!Handlers

LEMMA InvServes ==
  ClientInv => N!ServedToTheEnd
BY NotZero DEF ClientInv, N!TypeOK, N!StreamTypes, Attended, ClientQuiet,
   N!ServedToTheEnd, N!Live

-----------------------------------------------------------------------------
(* The types of the client's state and of its server's.                    *)
THEOREM ClientTypeCorrect == N!Spec => []N!TypeOK
<1>1. N!Init => ClientInv
  BY ClientInit
<1>2. ClientInv /\ [N!Next]_(N!vars) => ClientInv'
  BY ClientNextKeeps
<1>3. ClientInv => N!TypeOK
  BY DEF ClientInv
<1>. QED  BY <1>1, <1>2, <1>3, PTL DEF N!Spec

(* client.cpp lines 17-33 and 67-82: when the context has run out of work, *)
(* every connection is over and every answer that ended is printed whole.  *)
THEOREM ServedToTheEndAlways == N!Spec => []N!ServedToTheEnd
<1>1. N!Init => ClientInv
  BY ClientInit
<1>2. ClientInv /\ [N!Next]_(N!vars) => ClientInv'
  BY ClientNextKeeps
<1>3. ClientInv => N!ServedToTheEnd
  BY InvServes
<1>. QED  BY <1>1, <1>2, <1>3, PTL DEF N!Spec

-----------------------------------------------------------------------------
(* Either client in behaviours of its own: the other one stays still.      *)
OneRuns ==
  \/ clientMain = "not run" /\ readingFrom = 0
  \/ main = "not run" /\ reading = 0 /\ ClientInv

LEMMA OtherStaysStill ==
  /\ main = "not run" /\ reading = 0 => ~Next
  /\ clientMain = "not run" /\ readingFrom = 0 => ~N!Next
<1>1. main = "not run" /\ reading = 0 => ~Next
  <2>1. \A k \in Conn : k # 0
    BY StreamAssumption DEF Conn
  <2>. QED  BY <2>1 DEF Next, Handlers, RunPosted, RunResolved, ReadEnds,
               Returns, Free, Resolver, Environment
<1>2. clientMain = "not run" /\ readingFrom = 0 => ~N!Next
  BY NotZero DEF N!Next, N!Handlers, N!Resolved, N!WriteReady, N!ReadReady,
     N!ReadEnds, N!Returns, N!Free, N!Environment
<1>. QED  BY <1>1, <1>2

LEMMA OneRunsKeeps ==
  OneRuns /\ [RunPostedRequests \/ RunClient]_<<vars, clientVars>> => OneRuns'
<1>. SUFFICES ASSUME OneRuns,
                     [RunPostedRequests \/ RunClient]_<<vars, clientVars>>
              PROVE  OneRuns'
  OBVIOUS
<1>1. CASE clientMain = "not run" /\ readingFrom = 0
  BY <1>1, OtherStaysStill DEF RunPostedRequests, RunClient, OneRuns, clientVars
<1>2. CASE main = "not run" /\ reading = 0 /\ ClientInv
  <2>1. [N!Next]_(N!vars) /\ UNCHANGED <<main, reading>>
    BY <1>2, OtherStaysStill DEF RunPostedRequests, RunClient, clientVars,
       postedVars, vars, N!vars, N!session
  <2>. QED  BY <1>2, <2>1, ClientNextKeeps DEF OneRuns
<1>. QED  BY <1>1, <1>2 DEF OneRuns

(* The same of the two clients as they are checked together.               *)
THEOREM ClientAlwaysServesToTheEnd == MCSpec => []ServedToTheEnd
<1>1. MCInit => OneRuns
  BY ClientInit DEF MCInit, NoClient, NotPosting, OneRuns
<1>2. OneRuns => ServedToTheEnd
  <2>1. clientMain = "not run" => ServedToTheEnd
    BY DEF ServedToTheEnd, N!ServedToTheEnd
  <2>. QED  BY <2>1, InvServes DEF OneRuns, ServedToTheEnd
<1>. QED  BY <1>1, <1>2, OneRunsKeeps, PTL DEF MCSpec

=============================================================================
