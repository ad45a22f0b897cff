------------------------ MODULE PythonProgramsProofs ------------------------
(***************************************************************************)
(* The chat server, for any number of sockets and messages, and the        *)
(* timeout, for any number of waits.                                       *)
(*                                                                         *)
(* Chat: the list holds no socket twice, so that a removal is a shift of   *)
(* the sockets behind it (RemovedFrom).  From that follow what a round     *)
(* sends and whom it can miss.                                             *)
(*                                                                         *)
(* Timeout (here T): what the waiting thread knows at each statement of    *)
(* wait about the event and about its own success.                         *)
(***************************************************************************)
EXTENDS MCPythonPrograms, SequenceTheorems, FiniteSetTheorems, TLAPS

-----------------------------------------------------------------------------
(* The chat server's inductive invariant.                                  *)

(* Nothing is in the sequence twice.                                       *)
Distinct(q) == \A i, j \in DOMAIN q : q[i] = q[j] => i = j

(* The sockets whose serve task has started.                               *)
Begun == {s \in Socket : serve[s] # "none"}

(* The list holds each started socket at most once, and notify sends to    *)
(* the one it has just passed; every removal was of a started socket.      *)
Listed ==
  /\ Distinct(websockets)
  /\ \A k \in DOMAIN websockets : websockets[k] \in Begun
  /\ notify = "sending" =>
       /\ position - 1 \in DOMAIN websockets
       /\ websocket = websockets[position - 1]
  /\ removals + Len(websockets) <= Cardinality(Begun)

(* The numbers after n, in order.                                          *)
Follows(q, n) == \A i \in 1 .. Len(q) : q[i] = n + i

(* The messages on their way are those after the last one taken, in order. *)
Pipeline ==
  /\ Follows(messages, message)
  /\ Follows(scheduled, message + Len(messages))
  /\ posted = message + Len(messages) + Len(scheduled)

InRound == notify \in {"next", "sending"}

(* Nobody was sent a later message, and who is still to come in a round    *)
(* was sent only earlier ones.                                             *)
SentBefore ==
  /\ \A s \in Socket : \A i \in DOMAIN sentTo[s] : sentTo[s][i] <= message
  /\ InRound =>
       /\ message > 0
       /\ \A k \in DOMAIN websockets : k >= position =>
            \A i \in DOMAIN sentTo[websockets[k]] :
              sentTo[websockets[k]][i] < message

(* A socket is welcomed when its task starts, unless it is closed then.    *)
Welcomed ==
  \A s \in Socket :
    /\ serve[s] = "none" => sentTo[s] = << >>
    /\ s \notin closed /\ serve[s] # "none" => sentTo[s] # << >>

(* The open sockets the round has passed without sending them the message. *)
Missed ==
  {s \in Socket : \E k \in DOMAIN websockets :
     /\ k < position /\ websockets[k] = s
     /\ s \notin closed /\ Last(sentTo[s]) # message}

(* There are no more of them than removals; nor will there be when the     *)
(* places between the end of a shortened list and the iterator are filled. *)
Misses ==
  InRound =>
    /\ Cardinality(Missed) <= removals
    /\ Cardinality(Missed) + (position - 1 - Len(websockets)) <= removals

(* The types; the position and the removals are bounded because of Listed. *)
ChatInv ==
  /\ TypeOK /\ Listed /\ Pipeline
  /\ SentBefore /\ Welcomed /\ InOrderOnce
  /\ LiveStaysServed /\ Misses

-----------------------------------------------------------------------------
(* Sequences.                                                              *)

(* Removing an element of a list without duplicates shifts those after it. *)
LEMMA RemovedFrom ==
  ASSUME NEW S, NEW q \in Seq(S), Distinct(q), NEW p \in DOMAIN q
  PROVE  LET r == RemoveFirst(q, q[p])
         IN  /\ r \in Seq(S) /\ Len(r) = Len(q) - 1
             /\ \A k \in 1 .. Len(q) - 1 : r[k] = IF k < p THEN q[k] ELSE q[k + 1]
<1> DEFINE r == RemoveFirst(q, q[p])
           I == {i \in 1 .. Len(q) : q[i] = q[p]}
<1>1. p \in 1 .. Len(q) /\ Len(q) \in Nat
  BY LenProperties
<1>2. I = {p}
  BY <1>1 DEF Distinct
<1>3. Min(I) = p
  BY <1>1, <1>2 DEF Min
<1>4. r = SubSeq(q, 1, p - 1) \o SubSeq(q, p + 1, Len(q))
  <2>1. r = RemoveAt(q, IF I # {} THEN Min(I) ELSE 0)
    BY <1>1 DEF RemoveFirst, SelectInSeq
  <2> QED BY <1>2, <1>3, <2>1 DEF RemoveAt
<1>5. /\ SubSeq(q, 1, p - 1) \in Seq(S) /\ Len(SubSeq(q, 1, p - 1)) = p - 1
      /\ \A k \in 1 .. p - 1 : SubSeq(q, 1, p - 1)[k] = q[k]
  BY <1>1, SubSeqProperties
<1>6. /\ SubSeq(q, p + 1, Len(q)) \in Seq(S)
      /\ Len(SubSeq(q, p + 1, Len(q))) = Len(q) - p
      /\ \A k \in 1 .. Len(q) - p : SubSeq(q, p + 1, Len(q))[k] = q[p + k]
  BY <1>1, SubSeqProperties
<1> DEFINE a == SubSeq(q, 1, p - 1)
           b == SubSeq(q, p + 1, Len(q))
<1> HIDE DEF a, b
<1>7. /\ r \in Seq(S) /\ Len(r) = Len(q) - 1
      /\ \A k \in 1 .. Len(q) - 1 : r[k] = IF k < p THEN q[k] ELSE q[k + 1]
  <2>1. r = a \o b
    BY <1>4 DEF a, b
  <2>2. /\ a \in Seq(S) /\ Len(a) = p - 1 /\ \A k \in 1 .. p - 1 : a[k] = q[k]
    BY <1>5 DEF a
  <2>3. /\ b \in Seq(S) /\ Len(b) = Len(q) - p
        /\ \A k \in 1 .. Len(q) - p : b[k] = q[p + k]
    BY <1>6 DEF b
  <2> HIDE DEF r
  <2> QED BY <1>1, <2>1, <2>2, <2>3, ConcatProperties
<1> QED BY <1>7

LEMMA RemovedIs ==
  ASSUME NEW S, NEW q \in Seq(S), Distinct(q), NEW p \in DOMAIN q, NEW r,
         r = RemoveFirst(q, q[p])
  PROVE  /\ r \in Seq(S) /\ Len(r) = Len(q) - 1
         /\ \A k \in 1 .. Len(q) - 1 : r[k] = IF k < p THEN q[k] ELSE q[k + 1]
BY RemovedFrom

LEMMA Appended ==
  ASSUME NEW S, NEW q \in Seq(S), NEW e \in S
  PROVE  /\ Append(q, e) \in Seq(S) /\ Len(Append(q, e)) = Len(q) + 1
         /\ DOMAIN Append(q, e) = 1 .. Len(q) + 1
         /\ \A k \in 1 .. Len(q) : Append(q, e)[k] = q[k]
         /\ Append(q, e)[Len(q) + 1] = e
OBVIOUS

LEMMA TailIs ==
  ASSUME NEW S, NEW q \in Seq(S), q # << >>
  PROVE  /\ Tail(q) \in Seq(S) /\ Len(Tail(q)) = Len(q) - 1 /\ Len(q) > 0
         /\ Head(q) = q[1] /\ Head(q) \in S
         /\ \A k \in 1 .. Len(q) - 1 : Tail(q)[k] = q[k + 1]
BY HeadTailProperties, LenProperties

LEMMA FollowsTail ==
  ASSUME NEW S, NEW q \in Seq(S), q # << >>, NEW n \in Nat, Follows(q, n)
  PROVE  /\ Follows(Tail(q), n + 1) /\ Head(q) = n + 1
         /\ Len(Tail(q)) = Len(q) - 1 /\ Len(q) > 0
<1>1. /\ Len(Tail(q)) = Len(q) - 1 /\ Len(q) > 0 /\ Head(q) = q[1]
      /\ \A k \in 1 .. Len(q) - 1 : Tail(q)[k] = q[k + 1]
  BY TailIs
<1>2. Len(q) \in Nat
  BY LenProperties
<1>3. ASSUME NEW k \in 1 .. Len(q) - 1
      PROVE  Tail(q)[k] = (n + 1) + k
  <2>1. q[k + 1] = n + (k + 1)
    BY <1>2 DEF Follows
  <2>. QED  BY <1>1, <2>1
<1>. QED  BY <1>1, <1>2, <1>3 DEF Follows

LEMMA FollowsAppend ==
  ASSUME NEW S, NEW q \in Seq(S), NEW n \in Nat, Follows(q, n),
         NEW e \in S, e = n + Len(q) + 1
  PROVE  Follows(Append(q, e), n) /\ Len(Append(q, e)) = Len(q) + 1
<1>1. /\ Len(Append(q, e)) = Len(q) + 1 /\ Len(q) \in Nat
      /\ \A k \in 1 .. Len(q) : Append(q, e)[k] = q[k]
      /\ Append(q, e)[Len(q) + 1] = e
  BY Appended, LenProperties
<1>. QED  BY <1>1 DEF Follows

(* A sequence without duplicates that gains a new element keeps none.      *)
LEMMA DistinctGrows ==
  ASSUME NEW S, NEW q \in Seq(S), NEW e \in S, Distinct(q),
         \A k \in DOMAIN q : q[k] # e
  PROVE  Distinct(Append(q, e))
BY Appended, LenProperties DEF Distinct

LEMMA DistinctShrinks ==
  ASSUME NEW S, NEW q \in Seq(S), Distinct(q), NEW p \in DOMAIN q, NEW r,
         r = RemoveFirst(q, q[p])
  PROVE  Distinct(r) /\ \A k \in DOMAIN r : r[k] # q[p]
<1>1. Len(q) \in Nat /\ DOMAIN q = 1 .. Len(q) /\ p \in 1 .. Len(q)
  BY LenProperties
<1>2. /\ DOMAIN r = 1 .. Len(q) - 1
      /\ \A k \in 1 .. Len(q) - 1 : r[k] = IF k < p THEN q[k] ELSE q[k + 1]
  BY <1>1, RemovedIs, LenProperties
<1>. DEFINE From(k) == IF k < p THEN k ELSE k + 1
<1>3. ASSUME NEW k \in DOMAIN r
      PROVE  From(k) \in DOMAIN q /\ From(k) # p /\ r[k] = q[From(k)]
  BY <1>1, <1>2
<1>4. ASSUME NEW i \in DOMAIN r, NEW j \in DOMAIN r, From(i) = From(j)
      PROVE  i = j
  BY <1>1, <1>2, <1>4
<1>. HIDE DEF From
<1>5. \A i, j \in DOMAIN r : r[i] = r[j] => i = j
  BY <1>3, <1>4 DEF Distinct
<1>6. \A k \in DOMAIN r : r[k] # q[p]
  BY <1>3 DEF Distinct
<1>. QED  BY <1>5, <1>6 DEF Distinct

-----------------------------------------------------------------------------
(* The started sockets.                                                    *)

LEMMA BegunFinite ==
  ASSUME TypeOK
  PROVE  /\ IsFiniteSet(Socket) /\ Cardinality(Socket) \in Nat
         /\ Cardinality(Begun) \in Nat /\ IsFiniteSet(Begun)
         /\ Cardinality(Begun) <= Cardinality(Socket)
<1>1. Begun \in SUBSET Socket
  BY DEF Begun
<1>. QED  BY <1>1, ChatAssumption, FS_Subset, FS_CardinalityType

LEMMA BegunGrows ==
  ASSUME TypeOK, NEW s \in Socket, Serve(s)
  PROVE  /\ Begun' = Begun \cup {s} /\ s \notin Begun
         /\ Cardinality(Begun') = Cardinality(Begun) + 1
<1>1. serve[s] = "none" /\ \E to \in {"ended", "welcome"} :
        serve' = [serve EXCEPT ![s] = to]
  BY DEF Serve
<1>2. Begun' = Begun \cup {s} /\ s \notin Begun
  BY <1>1 DEF Begun, TypeOK
<1>. QED  BY <1>2, BegunFinite, FS_AddElement

LEMMA BegunStays ==
  ASSUME TypeOK, [Next]_vars, ~ \E s \in Socket : Serve(s)
  PROVE  Begun' = Begun
<1>1. CASE UNCHANGED serve
  BY <1>1 DEF Begun
<1>2. CASE \E s \in Socket : ServeWelcomed(s) \/ ServeWakes(s)
  <2>1. PICK s \in Socket : ServeWelcomed(s) \/ ServeWakes(s)
    BY <1>2
  <2>2. serve[s] # "none" /\ \E to \in {"ended", "sleep"} :
          serve' = [serve EXCEPT ![s] = to]
    BY <2>1 DEF ServeWelcomed, ServeWakes
  <2>. QED  BY <2>2 DEF Begun, TypeOK
<1>. QED
  BY <1>1, <1>2 DEF Next, Notify, NotifyGets, NotifyWaits, NotifyEnds,
     NotifySends, NotifySent, Post, Put, ConnectionCloses, vars, sockets

-----------------------------------------------------------------------------
(* The steps that change the list or what the sockets were sent.           *)

(* The socket at place p, which the iterator has passed, leaves the list.  *)
Removes(p) ==
  /\ InRound /\ p \in DOMAIN websockets /\ websockets[p] \in closed
  /\ websockets' = RemoveFirst(websockets, websockets[p])
  /\ position' = p + 1 /\ position \in {p, p + 1}
  /\ removals' = removals + 1
  /\ notify' = "next"
  /\ UNCHANGED <<sockets, queue, message>>

(* The message is sent to the socket at the iterator's place.              *)
SendsTo(s) ==
  /\ notify = "next" /\ notify' = "sending"
  /\ position \in DOMAIN websockets /\ s = websockets[position]
  /\ s \notin closed
  /\ position' = position + 1 /\ websocket' = s
  /\ sentTo' = [sentTo EXCEPT ![s] = Append(@, message)]
  /\ UNCHANGED <<closed, serve, websockets, queue, message, removals>>

LEMMA SendsIs ==
  ASSUME TypeOK, NotifySends
  PROVE  \/ \E p \in DOMAIN websockets : Removes(p) /\ websocket' \in Socket
         \/ \E s \in Socket : SendsTo(s)
<1>1. position \in DOMAIN websockets /\ websockets[position] \in Socket
      /\ websocket' = websockets[position] /\ position' = position + 1
  BY LenProperties, ElementOfSeq DEF NotifySends, Iterate, TypeOK
<1>2. CASE websocket' \in closed
  <2>. Removes(position)
    BY <1>1, <1>2
       DEF NotifySends, Drop, Without, Removes, InRound, sockets, queue
  <2>. QED  BY <1>1
<1>3. CASE websocket' \notin closed
  <2>. SendsTo(websockets[position])
    BY <1>1, <1>3 DEF NotifySends, SendsTo, queue
  <2>. QED  BY <1>1
<1>. QED  BY <1>2, <1>3

LEMMA SentIs ==
  ASSUME TypeOK, Listed, NotifySent
  PROVE  \/ \E p \in DOMAIN websockets : Removes(p) /\ websocket' \in Socket
         \/ /\ notify = "sending" /\ notify' = "next"
            /\ UNCHANGED <<sockets, websockets, queue, round>>
<1>1. CASE websocket \in closed
  <2>1. /\ position - 1 \in DOMAIN websockets
        /\ websocket = websockets[position - 1]
        /\ position - 1 \in Int /\ position = (position - 1) + 1
        /\ position' = position /\ websocket' = websocket
    BY DEF NotifySent, Listed, TypeOK
  <2>. DEFINE p == position - 1
  <2>2. Removes(p)
    BY <1>1, <2>1
       DEF NotifySent, Drop, Without, Removes, InRound, sockets, queue
  <2>. QED  BY <2>1, <2>2 DEF TypeOK
<1>2. CASE websocket \notin closed
  BY <1>2 DEF NotifySent, round
<1>. QED  BY <1>1, <1>2

(* What is left to prove of a step, when the list and what was sent stay.  *)
Elsewhere ==
  /\ UNCHANGED <<websockets, sentTo, message, position, removals, websocket>>
  /\ closed \subseteq closed'
  /\ notify' = "sending" => notify = "sending"
  /\ notify' = "next" => InRound

(* Every step is one of these.                                             *)
LEMMA StepIs ==
  ASSUME TypeOK, Listed, [Next]_vars
  PROVE  \/ \E p \in DOMAIN websockets : Removes(p) /\ websocket' \in Socket
         \/ \E s \in Socket : SendsTo(s)
         \/ \E s \in Socket : Serve(s)
         \/ NotifyGets
         \/ Elsewhere
<1>. USE DEF Elsewhere, sockets, round
<1>1. CASE UNCHANGED vars
  BY <1>1 DEF vars, InRound
<1>2. CASE NotifyWaits \/ NotifyEnds
  BY <1>2 DEF NotifyWaits, NotifyEnds
<1>3. CASE NotifySends
  BY <1>3, SendsIs
<1>4. CASE NotifySent
  BY <1>4, SentIs DEF InRound
<1>5. CASE Post
  BY <1>5 DEF Post, InRound
<1>6. CASE Put
  BY <1>6 DEF Put, InRound
<1>7. CASE \E s \in Socket :
             ServeWelcomed(s) \/ ServeWakes(s) \/ ConnectionCloses(s)
  BY <1>7 DEF ServeWelcomed, ServeWakes, ConnectionCloses, InRound
<1>. QED
  BY <1>1, <1>2, <1>3, <1>4, <1>5, <1>6, <1>7 DEF Next, Notify

(* The list after a removal, and after a socket came.                      *)
LEMMA ListRemoves ==
  ASSUME TypeOK, Listed, NEW p \in DOMAIN websockets, Removes(p)
  PROVE  /\ websockets' \in Seq(Socket) /\ Len(websockets') = Len(websockets) - 1
         /\ p \in 1 .. Len(websockets) /\ Len(websockets) \in Nat
         /\ Distinct(websockets')
         /\ \A k \in DOMAIN websockets' : websockets'[k] # websockets[p]
         /\ \A k \in 1 .. Len(websockets) - 1 :
              websockets'[k] = IF k < p THEN websockets[k] ELSE websockets[k + 1]
         /\ ToSet(websockets') = ToSet(websockets) \ {websockets[p]}
<1>1. websockets \in Seq(Socket) /\ Distinct(websockets)
      /\ websockets' = RemoveFirst(websockets, websockets[p])
  BY DEF TypeOK, Listed, Removes
<1>2. /\ websockets' \in Seq(Socket) /\ Len(websockets') = Len(websockets) - 1
      /\ \A k \in 1 .. Len(websockets) - 1 :
           websockets'[k] = IF k < p THEN websockets[k] ELSE websockets[k + 1]
  BY <1>1, RemovedIs
<1>3. Distinct(websockets')
      /\ \A k \in DOMAIN websockets' : websockets'[k] # websockets[p]
  BY <1>1, DistinctShrinks
<1>4. /\ Len(websockets) \in Nat /\ DOMAIN websockets = 1 .. Len(websockets)
      /\ DOMAIN websockets' = 1 .. Len(websockets) - 1
  BY <1>1, <1>2, LenProperties
<1>5. ToSet(websockets') \subseteq ToSet(websockets) \ {websockets[p]}
  BY <1>2, <1>3, <1>4 DEF ToSet
<1>6. ASSUME NEW k \in DOMAIN websockets, k # p
      PROVE  \E i \in DOMAIN websockets' : websockets'[i] = websockets[k]
  <2>1. CASE k < p
    BY <1>2, <1>4, <1>6, <2>1
  <2>2. CASE k > p
    <3>1. k - 1 \in DOMAIN websockets' /\ websockets'[k - 1] = websockets[k]
      BY <1>2, <1>4, <2>2
    <3>. QED  BY <3>1
  <2>. QED  BY <1>4, <1>6, <2>1, <2>2
<1>7. ToSet(websockets) \ {websockets[p]} \subseteq ToSet(websockets')
  BY <1>6 DEF ToSet
<1>. QED  BY <1>2, <1>3, <1>4, <1>5, <1>7

LEMMA ListGrows ==
  ASSUME TypeOK, Listed, NEW s \in Socket, Serve(s)
  PROVE  /\ websockets' \in Seq(Socket) /\ Len(websockets') = Len(websockets) + 1
         /\ Len(websockets) \in Nat /\ Distinct(websockets')
         /\ DOMAIN websockets' = 1 .. Len(websockets) + 1
         /\ \A k \in 1 .. Len(websockets) : websockets'[k] = websockets[k]
         /\ websockets'[Len(websockets) + 1] = s
         /\ ToSet(websockets') = ToSet(websockets) \cup {s}
<1>1. websockets \in Seq(Socket) /\ Distinct(websockets)
      /\ websockets' = Append(websockets, s)
  BY DEF TypeOK, Listed, Serve
<1>2. \A k \in DOMAIN websockets : websockets[k] # s
  BY BegunGrows DEF Listed
<1>3. Distinct(websockets')
  BY <1>1, <1>2, DistinctGrows
<1>4. /\ websockets' \in Seq(Socket) /\ Len(websockets') = Len(websockets) + 1
      /\ DOMAIN websockets' = 1 .. Len(websockets) + 1
      /\ \A k \in 1 .. Len(websockets) : websockets'[k] = websockets[k]
      /\ websockets'[Len(websockets) + 1] = s
      /\ Len(websockets) \in Nat /\ DOMAIN websockets = 1 .. Len(websockets)
  BY <1>1, Appended, LenProperties
<1>5. ToSet(websockets') = ToSet(websockets) \cup {s}
  BY <1>4 DEF ToSet
<1>. QED  BY <1>3, <1>4, <1>5

-----------------------------------------------------------------------------
(* The parts of the invariant, step by step.                               *)

LEMMA ListedStep ==
  ASSUME TypeOK, Listed, [Next]_vars
  PROVE  Listed'
<1>1. /\ Len(websockets) \in Nat /\ DOMAIN websockets = 1 .. Len(websockets)
      /\ removals \in Nat /\ position \in Nat /\ position >= 1
  BY LenProperties DEF TypeOK
<1>2. CASE \E p \in DOMAIN websockets : Removes(p) /\ websocket' \in Socket
  <2>1. PICK p \in DOMAIN websockets : Removes(p)
    BY <1>2
  <2>2. /\ Len(websockets') = Len(websockets) - 1 /\ Distinct(websockets')
        /\ ToSet(websockets') = ToSet(websockets) \ {websockets[p]}
    BY <2>1, ListRemoves
  <2>3. Begun' = Begun /\ notify' = "next" /\ removals' = removals + 1
    BY <2>1 DEF Removes, Begun, sockets
  <2>4. \A k \in DOMAIN websockets' : websockets'[k] \in Begun'
    BY <2>2, <2>3 DEF Listed, ToSet
  <2>. QED  BY <1>1, <2>2, <2>3, <2>4, BegunFinite DEF Listed
<1>3. CASE \E s \in Socket : SendsTo(s)
  <2>1. PICK s \in Socket : SendsTo(s)
    BY <1>3
  <2>. QED  BY <1>1, <2>1 DEF SendsTo, Listed, Begun
<1>4. CASE \E s \in Socket : Serve(s)
  <2>1. PICK s \in Socket : Serve(s)
    BY <1>4
  <2>2. /\ Len(websockets') = Len(websockets) + 1 /\ Distinct(websockets')
        /\ DOMAIN websockets' = 1 .. Len(websockets) + 1
        /\ \A k \in 1 .. Len(websockets) : websockets'[k] = websockets[k]
        /\ websockets'[Len(websockets) + 1] = s
    BY <2>1, ListGrows
  <2>3. /\ Begun' = Begun \cup {s}
        /\ Cardinality(Begun') = Cardinality(Begun) + 1
    BY <2>1, BegunGrows
  <2>4. UNCHANGED <<notify, position, websocket, removals>>
    BY <2>1 DEF Serve, round
  <2>5. \A k \in DOMAIN websockets' : websockets'[k] \in Begun'
    BY <1>1, <2>2, <2>3 DEF Listed
  <2>6. notify' = "sending" => /\ position' - 1 \in DOMAIN websockets'
                               /\ websocket' = websockets'[position' - 1]
    BY <1>1, <2>2, <2>4 DEF Listed
  <2>7. removals' + Len(websockets') <= Cardinality(Begun')
    BY <1>1, <2>2, <2>3, <2>4, BegunFinite DEF Listed
  <2>. QED  BY <2>2, <2>5, <2>6, <2>7 DEF Listed
<1>5. CASE NotifyGets
  <2>1. Begun' = Begun /\ websockets' = websockets /\ removals' = 0
        /\ notify' = "next"
    BY <1>5 DEF NotifyGets, Begun, sockets
  <2>. QED  BY <1>1, <2>1, BegunFinite DEF Listed
<1>6. CASE Elsewhere /\ ~ \E s \in Socket : Serve(s)
  <2>1. Begun' = Begun
    BY <1>6, BegunStays
  <2>. QED  BY <1>6, <2>1 DEF Elsewhere, Listed
<1>. QED  BY <1>2, <1>3, <1>4, <1>5, <1>6, StepIs

LEMMA PipelineStep ==
  ASSUME TypeOK, Pipeline, [Next]_vars
  PROVE  Pipeline'
<1>1. /\ Len(messages) \in Nat /\ Len(scheduled) \in Nat
      /\ message \in Nat /\ posted \in Nat
  BY LenProperties, ChatAssumption DEF TypeOK
<1>2. messages \in Seq(Nat) /\ scheduled \in Seq(Nat)
  BY SeqMonotonic, ChatAssumption DEF TypeOK, Message
<1>3. /\ Follows(messages, message)
      /\ Follows(scheduled, message + Len(messages))
      /\ posted = message + Len(messages) + Len(scheduled)
  BY DEF Pipeline
<1>4. CASE NotifyGets
  <2>1. /\ Follows(Tail(messages), message + 1)
        /\ Head(messages) = message + 1
        /\ Len(Tail(messages)) = Len(messages) - 1
    BY <1>1, <1>2, <1>3, <1>4, FollowsTail DEF NotifyGets
  <2>2. /\ message' = message + 1 /\ messages' = Tail(messages)
        /\ scheduled' = scheduled /\ posted' = posted
    BY <1>4, <2>1 DEF NotifyGets
  <2>3. message' + Len(messages') = message + Len(messages)
    <3>1. /\ message' = message + 1 /\ Len(messages') = Len(messages) - 1
      BY <2>1, <2>2
    <3>. QED  BY <1>1, <3>1
  <2>4. Follows(messages', message')
    BY <2>1, <2>2
  <2>5. Follows(scheduled', message' + Len(messages'))
    BY <1>3, <2>2, <2>3
  <2>6. posted' = message' + Len(messages') + Len(scheduled')
    BY <1>3, <2>2, <2>3
  <2>. QED  BY <2>4, <2>5, <2>6 DEF Pipeline
<1>5. CASE Post
  <2>1. /\ scheduled' = Append(scheduled, posted + 1) /\ posted' = posted + 1
        /\ message' = message /\ messages' = messages
    BY <1>5 DEF Post, round
  <2>2. /\ Follows(scheduled', message + Len(messages))
        /\ Len(scheduled') = Len(scheduled) + 1
    <3>1. message + Len(messages) \in Nat /\ posted + 1 \in Nat
      BY <1>1
    <3>. QED  BY <1>2, <1>3, <2>1, <3>1, FollowsAppend
  <2>3. posted' = message' + Len(messages') + Len(scheduled')
    BY <1>1, <1>3, <2>1, <2>2
  <2>. QED  BY <1>3, <2>1, <2>2, <2>3 DEF Pipeline
<1>6. CASE Put
  <2>1. /\ scheduled' = Tail(scheduled) /\ scheduled # << >>
        /\ messages' = Append(messages, Head(scheduled))
        /\ message' = message /\ posted' = posted
    BY <1>6 DEF Put, round
  <2>2. /\ Follows(scheduled', message + Len(messages) + 1)
        /\ Head(scheduled) = message + Len(messages) + 1
        /\ Len(scheduled') = Len(scheduled) - 1
    <3>1. message + Len(messages) \in Nat
      BY <1>1
    <3>. QED  BY <1>2, <1>3, <2>1, <3>1, FollowsTail
  <2>3. /\ Follows(messages', message)
        /\ Len(messages') = Len(messages) + 1
    <3>1. Head(scheduled) \in Nat
      BY <1>1, <2>2
    <3>. QED  BY <1>1, <1>2, <1>3, <2>1, <2>2, <3>1, FollowsAppend
  <2>4. message' + Len(messages') = message + Len(messages) + 1
    BY <1>1, <2>1, <2>3
  <2>5. posted' = message' + Len(messages') + Len(scheduled')
    BY <1>1, <1>3, <2>1, <2>2, <2>4
  <2>. QED  BY <2>1, <2>2, <2>3, <2>4, <2>5 DEF Pipeline
<1>7. CASE UNCHANGED <<message, posted, scheduled, messages>>
  BY <1>7 DEF Pipeline
<1>. QED
  BY <1>4, <1>5, <1>6, <1>7 DEF Next, Notify, NotifyWaits, NotifyEnds,
     NotifySends, NotifySent, Serve, ServeWelcomed, ServeWakes,
     ConnectionCloses, vars, queue, round

LEMMA TypeStep ==
  ASSUME TypeOK, Listed, [Next]_vars
  PROVE  TypeOK'
<1>1. /\ Len(websockets) \in Nat /\ DOMAIN websockets = 1 .. Len(websockets)
      /\ removals \in Nat /\ position \in Nat /\ Len(websockets) <= Cardinality(Socket)
      /\ removals + Len(websockets) <= Cardinality(Socket)
  BY LenProperties, BegunFinite DEF TypeOK, Listed
<1>2. closed' \subseteq Socket
  BY DEF TypeOK, Next, Notify, NotifyGets, NotifyWaits, NotifyEnds,
     NotifySends, NotifySent, Post, Put, Serve, ServeWelcomed, ServeWakes,
     ConnectionCloses, vars, sockets
<1>3. sentTo' \in [Socket -> Seq({Welcome} \cup Message)]
  <2>. USE DEF TypeOK
  <2>1. ASSUME NEW s \in Socket, NEW m \in {Welcome} \cup Message,
               sentTo' = [sentTo EXCEPT ![s] = Append(@, m)]
        PROVE  sentTo' \in [Socket -> Seq({Welcome} \cup Message)]
    <3>1. Append(sentTo[s], m) \in Seq({Welcome} \cup Message)
      BY <2>1, Appended
    <3>. QED  BY <2>1, <3>1
  <2>2. message \in {Welcome} \cup Message
    BY ChatAssumption DEF Welcome, Message
  <2>3. CASE \E s \in Socket : SendsTo(s)
    BY <2>1, <2>2, <2>3 DEF SendsTo
  <2>4. CASE \E s \in Socket : Serve(s)
    BY <2>1, <2>4 DEF Serve
  <2>5. CASE UNCHANGED sentTo
    BY <2>5
  <2>. QED  BY <2>3, <2>4, <2>5, StepIs
            DEF Removes, NotifyGets, Elsewhere, sockets
<1>4. serve' \in [Socket -> {"none", "welcome", "sleep", "ended"}]
  BY DEF TypeOK, Next, Notify, NotifyGets, NotifyWaits, NotifyEnds,
     NotifySends, NotifySent, Post, Put, Serve, ServeWelcomed, ServeWakes,
     ConnectionCloses, vars, sockets
<1>5. websockets' \in Seq(Socket)
  <2>1. CASE \E p \in DOMAIN websockets : Removes(p)
    BY <2>1, ListRemoves
  <2>2. CASE \E s \in Socket : Serve(s)
    BY <2>2, ListGrows
  <2>3. CASE UNCHANGED websockets
    BY <2>3 DEF TypeOK
  <2>. QED  BY <2>1, <2>2, <2>3, StepIs DEF SendsTo, NotifyGets, Elsewhere
<1>6. /\ posted' \in 0 .. MaxMessages /\ message' \in 0 .. MaxMessages
      /\ scheduled' \in Seq(Message) /\ messages' \in Seq(Message)
  <2>1. /\ posted \in 0 .. MaxMessages /\ message \in 0 .. MaxMessages
        /\ scheduled \in Seq(Message) /\ messages \in Seq(Message)
    BY DEF TypeOK
  <2>2. CASE NotifyGets
    <3>1. Head(messages) \in Message /\ Tail(messages) \in Seq(Message)
      BY <2>1, <2>2, TailIs DEF NotifyGets
    <3>. QED  BY <2>1, <2>2, <3>1, ChatAssumption DEF NotifyGets, Message
  <2>3. CASE Post
    <3>1. posted + 1 \in Message
      BY <2>1, <2>3, ChatAssumption DEF Post, Message
    <3>2. scheduled' \in Seq(Message)
      BY <2>1, <2>3, <3>1, Appended DEF Post
    <3>3. posted' \in 0 .. MaxMessages
      BY <2>3, <3>1, ChatAssumption DEF Post, Message
    <3>. QED  BY <2>1, <2>3, <3>2, <3>3 DEF Post, round
  <2>4. CASE Put
    <3>1. Head(scheduled) \in Message /\ scheduled' \in Seq(Message)
      BY <2>1, <2>4, TailIs DEF Put
    <3>2. messages' \in Seq(Message)
      BY <2>1, <2>4, <3>1, Appended DEF Put
    <3>. QED  BY <2>1, <2>4, <3>1, <3>2 DEF Put, round
  <2>5. CASE UNCHANGED <<message, posted, scheduled, messages>>
    BY <2>1, <2>5
  <2>. QED
    BY <2>2, <2>3, <2>4, <2>5 DEF Next, Notify, NotifyWaits, NotifyEnds,
       NotifySends, NotifySent, Serve, ServeWelcomed, ServeWakes,
       ConnectionCloses, vars, queue, round
<1>7. notify' \in {"get", "waiting", "next", "sending"}
  BY DEF TypeOK, Next, Notify, NotifyGets, NotifyWaits, NotifyEnds,
     NotifySends, NotifySent, Drop, Post, Put, Serve, ServeWelcomed, ServeWakes,
     ConnectionCloses, vars
<1>8. /\ position' \in 1 .. Cardinality(Socket) + 1 /\ websocket' \in Socket
      /\ removals' \in 0 .. Cardinality(Socket)
  <2>1. /\ position \in 1 .. Cardinality(Socket) + 1 /\ websocket \in Socket
        /\ removals \in 0 .. Cardinality(Socket) /\ Cardinality(Socket) \in Nat
    BY BegunFinite DEF TypeOK
  <2>2. CASE \E p \in DOMAIN websockets : Removes(p) /\ websocket' \in Socket
    BY <1>1, <2>1, <2>2 DEF Removes
  <2>3. CASE \E s \in Socket : SendsTo(s)
    BY <1>1, <2>1, <2>3 DEF SendsTo
  <2>4. CASE NotifyGets
    BY <2>1, <2>4 DEF NotifyGets
  <2>5. CASE UNCHANGED <<position, websocket, removals>>
    BY <2>1, <2>5
  <2>. QED  BY <2>2, <2>3, <2>4, <2>5, StepIs DEF Serve, round, Elsewhere
<1>. QED  BY <1>2, <1>3, <1>4, <1>5, <1>6, <1>7, <1>8 DEF TypeOK
(* What the sockets were sent are numbers, the last one being the last.    *)
LEMMA SentIsSeq ==
  ASSUME TypeOK, NEW s \in Socket
  PROVE  /\ sentTo[s] \in Seq(Nat) /\ Len(sentTo[s]) \in Nat
         /\ DOMAIN sentTo[s] = 1 .. Len(sentTo[s])
         /\ \A i \in DOMAIN sentTo[s] : sentTo[s][i] \in Nat
         /\ message \in Nat
<1>1. sentTo[s] \in Seq(Nat)
  <2>1. {Welcome} \cup Message \subseteq Nat
    BY ChatAssumption DEF Message, Welcome
  <2>2. sentTo[s] \in Seq({Welcome} \cup Message)
    BY DEF TypeOK
  <2>. QED  BY <2>1, <2>2, SeqMonotonic
<1>2. message \in Nat
  BY ChatAssumption DEF TypeOK
<1>. QED  BY <1>1, <1>2, LenProperties, ElementOfSeq

(* A send adds the message, to that socket alone.                          *)
LEMMA SendAppends ==
  ASSUME TypeOK, Listed, NEW s \in Socket, SendsTo(s)
  PROVE  /\ DOMAIN sentTo'[s] = 1 .. Len(sentTo[s]) + 1
         /\ \A i \in 1 .. Len(sentTo[s]) : sentTo'[s][i] = sentTo[s][i]
         /\ sentTo'[s][Len(sentTo[s]) + 1] = message
         /\ sentTo'[s] # << >> /\ Last(sentTo'[s]) = message
         /\ \A r \in Socket : r # s => sentTo'[r] = sentTo[r]
         /\ s \in Begun
<1>1. sentTo' = [sentTo EXCEPT ![s] = Append(sentTo[s], message)]
  BY DEF SendsTo, TypeOK
<1>2. sentTo[s] \in Seq(Nat) /\ message \in Nat /\ Len(sentTo[s]) \in Nat
  BY SentIsSeq
<1>3. sentTo'[s] = Append(sentTo[s], message)
      /\ \A r \in Socket : r # s => sentTo'[r] = sentTo[r]
  BY <1>1 DEF TypeOK
<1>4. /\ sentTo'[s] \in Seq(Nat) /\ Len(sentTo'[s]) = Len(sentTo[s]) + 1
      /\ DOMAIN sentTo'[s] = 1 .. Len(sentTo[s]) + 1
      /\ \A i \in 1 .. Len(sentTo[s]) : sentTo'[s][i] = sentTo[s][i]
      /\ sentTo'[s][Len(sentTo[s]) + 1] = message
  BY <1>2, <1>3, Appended
<1>5. sentTo'[s] # << >>
  BY <1>2, <1>4
<1>6. Last(sentTo'[s]) = message
  BY <1>2, <1>4 DEF Last
<1>. QED  BY <1>3, <1>4, <1>5, <1>6 DEF SendsTo, Listed

(* A started socket is sent the welcome, or nothing if it is closed.       *)
LEMMA ServeSendsWelcome ==
  ASSUME TypeOK, Welcomed, NEW s \in Socket, Serve(s)
  PROVE  /\ \A r \in Socket : r # s => sentTo'[r] = sentTo[r]
         /\ \/ sentTo'[s] = << >> /\ s \in closed
            \/ sentTo'[s] = << Welcome >>
<1>1. sentTo[s] = << >>
  BY DEF Serve, Welcomed
<1>. QED  BY <1>1 DEF Serve, TypeOK

LEMMA WelcomedStep ==
  ASSUME TypeOK, Listed, Welcomed, [Next]_vars
  PROVE  Welcomed'
<1>1. closed \subseteq closed' /\ closed \subseteq Socket
  BY DEF TypeOK, Next, Notify, NotifyGets, NotifyWaits, NotifyEnds,
     NotifySends, NotifySent, Post, Put, Serve, ServeWelcomed, ServeWakes,
     ConnectionCloses, vars, sockets
<1>2. CASE \E s \in Socket : SendsTo(s)
  <2>1. PICK s \in Socket : SendsTo(s)
    BY <1>2
  <2>2. /\ sentTo'[s] # << >> /\ s \in Begun
        /\ \A r \in Socket : r # s => sentTo'[r] = sentTo[r]
    BY <2>1, SendAppends
  <2>3. UNCHANGED <<serve, closed>>
    BY <2>1 DEF SendsTo
  <2>. QED  BY <2>2, <2>3 DEF Welcomed, Begun
<1>3. CASE \E s \in Socket : Serve(s)
  <2>1. PICK s \in Socket : Serve(s)
    BY <1>3
  <2>2. /\ \A r \in Socket : r # s => sentTo'[r] = sentTo[r]
        /\ sentTo'[s] = << >> => s \in closed
    BY <2>1, ServeSendsWelcome
  <2>3. /\ serve'[s] # "none"
        /\ \A r \in Socket : r # s => serve'[r] = serve[r]
    BY <2>1 DEF Serve, TypeOK
  <2>. QED  BY <1>1, <2>2, <2>3 DEF Welcomed
<1>4. CASE UNCHANGED sentTo /\ ~ \E s \in Socket : Serve(s)
  <2>1. Begun' = Begun
    BY <1>4, BegunStays
  <2>2. \A s \in Socket : serve'[s] = "none" <=> serve[s] = "none"
    BY <2>1 DEF Begun
  <2>. QED  BY <1>1, <1>4, <2>2 DEF Welcomed
<1>. QED  BY <1>2, <1>3, <1>4, StepIs
          DEF Removes, NotifyGets, Elsewhere, sockets

LEMMA SentBeforeStep ==
  ASSUME TypeOK, Listed, Pipeline, Welcomed, SentBefore, [Next]_vars
  PROVE  SentBefore'
<1>1. /\ Len(websockets) \in Nat /\ DOMAIN websockets = 1 .. Len(websockets)
      /\ position \in Nat /\ message \in Nat
      /\ \A k \in DOMAIN websockets : websockets[k] \in Socket
  BY LenProperties, ElementOfSeq, ChatAssumption DEF TypeOK
<1>. DEFINE Sent(s) == sentTo[s]
            UpTo(s) == \A i \in DOMAIN sentTo[s] : sentTo[s][i] <= message
            Less(s) == \A i \in DOMAIN sentTo[s] : sentTo[s][i] < message
<1>2. (\A s \in Socket : UpTo(s))
      /\ (InRound => /\ message > 0
                     /\ \A k \in DOMAIN websockets :
                          k >= position => Less(websockets[k]))
  BY DEF SentBefore
<1>3. SUFFICES /\ \A s \in Socket : UpTo(s)'
               /\ InRound' => /\ message' > 0
                              /\ \A k \in DOMAIN websockets' :
                                   k >= position' => Less(websockets[k])'
  BY DEF SentBefore
<1>4. CASE \E p \in DOMAIN websockets : Removes(p)
  <2>1. PICK p \in DOMAIN websockets : Removes(p)
    BY <1>4
  <2>2. /\ UNCHANGED <<sentTo, message>> /\ InRound
        /\ position' = p + 1 /\ position <= p + 1
    BY <1>1, <2>1 DEF Removes, sockets
  <2>3. /\ \A k \in 1 .. Len(websockets) - 1 :
             websockets'[k] = IF k < p THEN websockets[k] ELSE websockets[k + 1]
        /\ DOMAIN websockets' = 1 .. Len(websockets) - 1
    BY <2>1, ListRemoves, LenProperties
  <2>4. ASSUME NEW k \in DOMAIN websockets', k >= position'
        PROVE  Less(websockets[k])'
    <3>1. /\ k + 1 \in DOMAIN websockets /\ k + 1 >= position
          /\ websockets'[k] = websockets[k + 1]
      BY <1>1, <2>2, <2>3, <2>4
    <3>2. Less(websockets[k + 1])
      BY <1>2, <2>2, <3>1
    <3>. QED  BY <2>2, <3>1, <3>2
  <2>. QED  BY <1>2, <2>2, <2>4
<1>5. CASE \E s \in Socket : SendsTo(s)
  <2>1. PICK s \in Socket : SendsTo(s)
    BY <1>5
  <2>2. /\ UNCHANGED <<websockets, message>> /\ InRound
        /\ position' = position + 1 /\ position \in DOMAIN websockets
        /\ websockets[position] = s
    BY <2>1 DEF SendsTo, InRound
  <2>3. /\ DOMAIN sentTo'[s] = 1 .. Len(sentTo[s]) + 1
        /\ \A i \in 1 .. Len(sentTo[s]) : sentTo'[s][i] = sentTo[s][i]
        /\ sentTo'[s][Len(sentTo[s]) + 1] = message
        /\ \A r \in Socket : r # s => sentTo'[r] = sentTo[r]
    BY <2>1, SendAppends
  <2>4. UpTo(s)'
    <3>1. Len(sentTo[s]) \in Nat /\ DOMAIN sentTo[s] = 1 .. Len(sentTo[s])
      BY SentIsSeq
    <3>2. ASSUME NEW i \in 1 .. Len(sentTo[s]) + 1
          PROVE  sentTo'[s][i] <= message
      <4>1. CASE i \in 1 .. Len(sentTo[s])
        <5>1. sentTo'[s][i] = sentTo[s][i] /\ i \in DOMAIN sentTo[s]
          BY <2>3, <3>1, <4>1
        <5>. QED  BY <1>2, <5>1
      <4>2. CASE i = Len(sentTo[s]) + 1
        BY <1>1, <2>3, <4>2
      <4>. QED  BY <3>1, <4>1, <4>2
    <3>. QED  BY <2>2, <2>3, <3>2
  <2>5. \A r \in Socket : UpTo(r)'
    BY <1>2, <2>2, <2>3, <2>4
  <2>6. ASSUME NEW k \in DOMAIN websockets', k >= position'
        PROVE  Less(websockets[k])'
    <3>1. k \in DOMAIN websockets /\ k >= position /\ k # position
      BY <1>1, <2>2, <2>6
    <3>2. websockets[k] # s /\ websockets[k] \in Socket
      BY <1>1, <2>2, <3>1 DEF Listed, Distinct
    <3>3. Less(websockets[k])
      BY <1>2, <2>2, <3>1
    <3>. QED  BY <2>2, <2>3, <3>2, <3>3
  <2>. QED  BY <1>2, <2>2, <2>5, <2>6
<1>6. CASE \E s \in Socket : Serve(s)
  <2>1. PICK s \in Socket : Serve(s)
    BY <1>6
  <2>2. UNCHANGED <<notify, message, position>>
    BY <2>1 DEF Serve, round
  <2>3. /\ \A r \in Socket : r # s => sentTo'[r] = sentTo[r]
        /\ sentTo'[s] = << >> \/ sentTo'[s] = << 0 >>
    BY <2>1, ServeSendsWelcome DEF Welcome
  <2>4. \A i \in DOMAIN sentTo'[s] : sentTo'[s][i] = 0
    BY <2>3
  <2>5. /\ DOMAIN websockets' = 1 .. Len(websockets) + 1
        /\ \A k \in 1 .. Len(websockets) : websockets'[k] = websockets[k]
        /\ websockets'[Len(websockets) + 1] = s
    BY <2>1, ListGrows
  <2>6. \A r \in Socket : UpTo(r)'
    BY <1>1, <1>2, <2>2, <2>3, <2>4
  <2>7. ASSUME InRound', NEW k \in DOMAIN websockets', k >= position'
        PROVE  Less(websockets[k])'
    <3>1. InRound /\ message > 0
      BY <1>2, <2>2, <2>7 DEF InRound
    <3>2. CASE websockets'[k] = s
      BY <2>2, <2>4, <3>1, <3>2
    <3>3. CASE websockets'[k] # s
      <4>1. k \in DOMAIN websockets /\ websockets'[k] = websockets[k]
        BY <1>1, <2>5, <3>3
      <4>2. Less(websockets[k]) /\ websockets[k] \in Socket
        BY <1>1, <1>2, <2>2, <2>7, <3>1, <4>1
      <4>. QED  BY <2>2, <2>3, <3>3, <4>1, <4>2
    <3>. QED  BY <3>2, <3>3
  <2>8. InRound' => message' > 0
    BY <1>2, <2>2 DEF InRound
  <2>. QED  BY <2>6, <2>7, <2>8
<1>7. CASE NotifyGets
  <2>1. message' = message + 1 /\ UNCHANGED <<sentTo, websockets>>
    <3>1. Head(messages) = message + 1
      <4>1. messages \in Seq(Nat) /\ messages # << >>
        BY <1>7, SeqMonotonic, ChatAssumption DEF TypeOK, Message, NotifyGets
      <4>. QED  BY <1>1, <4>1, FollowsTail DEF Pipeline
    <3>. QED  BY <1>7, <3>1 DEF NotifyGets, sockets
  <2>2. \A s \in Socket : \A i \in DOMAIN sentTo[s] : sentTo[s][i] \in Nat
    BY SentIsSeq
  <2>3. \A s \in Socket : UpTo(s)' /\ Less(s)'
    BY <1>1, <1>2, <2>1, <2>2
  <2>. QED  BY <1>1, <2>1, <2>3
<1>8. CASE Elsewhere
  <2>1. InRound' => InRound
    BY <1>8 DEF Elsewhere, InRound
  <2>. QED  BY <1>2, <1>8, <2>1 DEF Elsewhere
<1>. QED  BY <1>4, <1>5, <1>6, <1>7, <1>8, StepIs

LEMMA InOrderStep ==
  ASSUME TypeOK, Listed, Welcomed, SentBefore, InOrderOnce, [Next]_vars
  PROVE  InOrderOnce'
<1>. DEFINE InOrder(q) ==
              /\ q # << >> => q[1] = Welcome
              /\ \A i, j \in DOMAIN q : i < j => q[i] < q[j]
<1>1. \A s \in Socket : InOrder(sentTo[s])
  BY DEF InOrderOnce
<1>2. SUFFICES \A s \in Socket : InOrder(sentTo[s])'
  BY DEF InOrderOnce
<1>3. CASE \E s \in Socket : SendsTo(s)
  <2>1. PICK s \in Socket : SendsTo(s)
    BY <1>3
  <2>2. /\ DOMAIN sentTo'[s] = 1 .. Len(sentTo[s]) + 1
        /\ \A i \in 1 .. Len(sentTo[s]) : sentTo'[s][i] = sentTo[s][i]
        /\ sentTo'[s][Len(sentTo[s]) + 1] = message
        /\ \A r \in Socket : r # s => sentTo'[r] = sentTo[r]
        /\ s \in Begun
    BY <2>1, SendAppends
  <2>3. /\ sentTo[s] \in Seq(Nat) /\ Len(sentTo[s]) \in Nat /\ message \in Nat
        /\ DOMAIN sentTo[s] = 1 .. Len(sentTo[s])
    BY SentIsSeq
  <2>4. \A i \in 1 .. Len(sentTo[s]) : sentTo[s][i] < message
    <3>1. /\ InRound /\ position \in DOMAIN websockets
          /\ websockets[position] = s /\ position >= position
      BY <2>1 DEF SendsTo, InRound, TypeOK
    <3>. QED  BY <2>3, <3>1 DEF SentBefore
  <2>5. sentTo[s] # << >>
    BY <2>1, <2>2 DEF SendsTo, Welcomed, Begun
  <2>6. sentTo'[s][1] = Welcome
    <3>1. 1 \in 1 .. Len(sentTo[s])
      BY <2>3, <2>5
    <3>. QED  BY <1>1, <2>2, <2>5, <3>1
  <2>7. ASSUME NEW i \in 1 .. Len(sentTo[s]) + 1,
               NEW j \in 1 .. Len(sentTo[s]) + 1, i < j
        PROVE  sentTo'[s][i] < sentTo'[s][j]
    <3>1. i \in 1 .. Len(sentTo[s]) /\ sentTo'[s][i] = sentTo[s][i]
      BY <2>2, <2>3, <2>7
    <3>2. CASE j = Len(sentTo[s]) + 1
      BY <2>2, <2>4, <3>1, <3>2
    <3>3. CASE j \in 1 .. Len(sentTo[s])
      BY <1>1, <2>2, <2>3, <2>7, <3>1, <3>3
    <3>. QED  BY <2>3, <3>2, <3>3
  <2>8. InOrder(sentTo[s])'
    BY <2>2, <2>6, <2>7
  <2>. QED  BY <1>1, <2>2, <2>8
<1>4. CASE \E s \in Socket : Serve(s)
  <2>1. PICK s \in Socket : Serve(s)
    BY <1>4
  <2>2. /\ \A r \in Socket : r # s => sentTo'[r] = sentTo[r]
        /\ sentTo'[s] = << >> \/ sentTo'[s] = << Welcome >>
    BY <2>1, ServeSendsWelcome
  <2>3. InOrder(sentTo[s])'
    BY <2>2
  <2>. QED  BY <1>1, <2>2, <2>3
<1>5. CASE UNCHANGED sentTo
  BY <1>1, <1>5
<1>. QED  BY <1>3, <1>4, <1>5, StepIs
          DEF Removes, NotifyGets, Elsewhere, sockets

LEMMA LiveStep ==
  ASSUME TypeOK, Listed, LiveStaysServed, [Next]_vars
  PROVE  LiveStaysServed'
<1>1. \A s \in Socket \ closed :
        serve[s] # "none" => s \in ToSet(websockets) /\ serve[s] # "ended"
  BY DEF LiveStaysServed
<1>2. SUFFICES \A s \in Socket \ closed' :
        serve'[s] # "none" => s \in ToSet(websockets') /\ serve'[s] # "ended"
  BY DEF LiveStaysServed
<1>3. CASE \E p \in DOMAIN websockets : Removes(p)
  <2>1. PICK p \in DOMAIN websockets : Removes(p)
    BY <1>3
  <2>2. /\ websockets[p] \in closed /\ UNCHANGED <<closed, serve>>
        /\ ToSet(websockets') = ToSet(websockets) \ {websockets[p]}
    BY <2>1, ListRemoves DEF Removes, sockets
  <2>. QED  BY <1>1, <2>2
<1>4. CASE \E s \in Socket : Serve(s)
  <2>1. PICK s \in Socket : Serve(s)
    BY <1>4
  <2>2. /\ closed' = closed /\ ToSet(websockets') = ToSet(websockets) \cup {s}
        /\ s \notin closed => serve'[s] # "ended"
        /\ \A r \in Socket : r # s => serve'[r] = serve[r]
    BY <2>1, ListGrows DEF Serve, TypeOK
  <2>. QED  BY <1>1, <2>2
<1>5. CASE \E s \in Socket : ServeWelcomed(s) \/ ServeWakes(s)
  <2>1. PICK s \in Socket : ServeWelcomed(s) \/ ServeWakes(s)
    BY <1>5
  <2>2. /\ UNCHANGED <<closed, websockets>> /\ serve[s] # "none"
        /\ \A r \in Socket : r # s => serve'[r] = serve[r]
    BY <2>1 DEF ServeWelcomed, ServeWakes, TypeOK
  <2>3. serve'[s] = "ended" => s \in closed
    BY <1>1, <2>1 DEF ServeWelcomed, ServeWakes, TypeOK
  <2>. QED  BY <1>1, <2>2, <2>3
<1>6. CASE closed \subseteq closed' /\ UNCHANGED <<serve, websockets>>
  BY <1>1, <1>6
<1>7. CASE NotifySends \/ NotifySent
  BY <1>3, <1>6, <1>7, SendsIs, SentIs DEF SendsTo, sockets
<1>. QED
  BY <1>4, <1>5, <1>6, <1>7
     DEF Next, Notify, NotifyGets, NotifyWaits, NotifyEnds, Post, Put,
         ConnectionCloses, vars, sockets

(* One socket more at most, when all new ones are the same.                *)
LEMMA OneMore ==
  ASSUME NEW S, IsFiniteSet(S), NEW x, NEW R \in SUBSET (S \cup {x})
  PROVE  /\ Cardinality(S) \in Nat /\ Cardinality(R) \in Nat
         /\ Cardinality(R) <= Cardinality(S) + 1
         /\ R \subseteq S => Cardinality(R) <= Cardinality(S)
<1>1. IsFiniteSet(S \cup {x}) /\ Cardinality(S \cup {x}) \in Nat
      /\ Cardinality(S \cup {x}) <= Cardinality(S) + 1 /\ Cardinality(S) \in Nat
  BY FS_AddElement, FS_CardinalityType
<1>2. IsFiniteSet(R) /\ Cardinality(R) <= Cardinality(S \cup {x})
      /\ Cardinality(R) \in Nat
  BY <1>1, FS_Subset, FS_CardinalityType
<1>3. R \subseteq S => Cardinality(R) <= Cardinality(S)
  BY FS_Subset
<1>. QED  BY <1>1, <1>2, <1>3

LEMMA MissedFinite ==
  IsFiniteSet(Missed) /\ Cardinality(Missed) \in Nat
<1>1. Missed \in SUBSET Socket
  BY DEF Missed
<1>. QED  BY <1>1, ChatAssumption, FS_Subset, FS_CardinalityType

LEMMA MissesStep ==
  ASSUME TypeOK, Listed, Welcomed, Misses, [Next]_vars
  PROVE  Misses'
<1>. DEFINE Beyond == position - 1 - Len(websockets)
<1>1. /\ Len(websockets) \in Nat /\ DOMAIN websockets = 1 .. Len(websockets)
      /\ position \in Nat /\ position >= 1 /\ removals \in Nat
      /\ \A k \in DOMAIN websockets : websockets[k] \in Socket
  BY LenProperties, ElementOfSeq, BegunFinite DEF TypeOK
<1>2. IsFiniteSet(Missed) /\ Cardinality(Missed) \in Nat
  BY MissedFinite
<1>3. SUFFICES ASSUME InRound'
               PROVE  /\ Cardinality(Missed') <= removals'
                      /\ Cardinality(Missed') + Beyond' <= removals'
  BY DEF Misses
<1>4. CASE \E p \in DOMAIN websockets : Removes(p)
  <2>1. PICK p \in DOMAIN websockets : Removes(p)
    BY <1>4
  <2>2. /\ UNCHANGED <<sentTo, message, closed>> /\ InRound
        /\ position' = p + 1 /\ p <= position /\ removals' = removals + 1
    BY <1>1, <2>1 DEF Removes, sockets
  <2>3. /\ \A k \in 1 .. Len(websockets) - 1 :
             websockets'[k] = IF k < p THEN websockets[k] ELSE websockets[k + 1]
        /\ Len(websockets') = Len(websockets) - 1
        /\ DOMAIN websockets' = 1 .. Len(websockets) - 1
    BY <2>1, ListRemoves, LenProperties
  <2>4. ASSUME NEW s \in Missed', s \notin Missed
        PROVE  p < Len(websockets) /\ s = websockets[p + 1]
    <3>1. PICK k \in 1 .. Len(websockets) - 1 :
            /\ k < p + 1 /\ websockets'[k] = s
            /\ s \notin closed /\ Last(sentTo[s]) # message
      BY <2>2, <2>3 DEF Missed
    <3>2. ~ k < p
      <4>. SUFFICES ASSUME k < p PROVE FALSE
        OBVIOUS
      <4>1. k \in DOMAIN websockets /\ k < position /\ websockets[k] = s
        BY <1>1, <2>2, <2>3, <3>1
      <4>. QED  BY <1>1, <2>4, <3>1, <4>1 DEF Missed
    <3>. QED  BY <1>1, <2>3, <3>1, <3>2
  <2>5. Missed' \in SUBSET (Missed \cup {websockets[p + 1]})
        /\ (p >= Len(websockets) => Missed' \subseteq Missed)
    BY <1>1, <2>4
  <2>6. /\ Cardinality(Missed') \in Nat
        /\ Cardinality(Missed') <= Cardinality(Missed) + 1
        /\ p >= Len(websockets) => Cardinality(Missed') <= Cardinality(Missed)
    BY <1>2, <2>5, OneMore
  <2>7. Beyond' = p - Len(websockets) + 1 /\ p <= Len(websockets)
    BY <1>1, <2>2, <2>3
  <2>8. Cardinality(Missed) <= removals
    BY <2>2 DEF Misses
  <2>. QED  BY <1>1, <1>2, <2>2, <2>6, <2>7, <2>8
<1>5. CASE \E s \in Socket : SendsTo(s)
  <2>1. PICK s \in Socket : SendsTo(s)
    BY <1>5
  <2>2. /\ UNCHANGED <<websockets, message, closed, removals>> /\ InRound
        /\ position' = position + 1 /\ position \in DOMAIN websockets
        /\ websockets[position] = s
    BY <2>1 DEF SendsTo, InRound
  <2>3. /\ Last(sentTo'[s]) = message
        /\ \A r \in Socket : r # s => sentTo'[r] = sentTo[r]
    BY <2>1, SendAppends
  <2>4. ASSUME NEW r \in Missed' PROVE r \in Missed
    <3>1. PICK k \in DOMAIN websockets :
            /\ k < position + 1 /\ websockets[k] = r
            /\ r \in Socket /\ r \notin closed /\ Last(sentTo'[r]) # message
      BY <2>2 DEF Missed
    <3>2. r # s /\ k # position
      BY <2>2, <2>3, <3>1
    <3>3. k < position /\ Last(sentTo[r]) # message
      BY <1>1, <2>3, <3>1, <3>2
    <3>. QED  BY <3>1, <3>3 DEF Missed
  <2>5. Cardinality(Missed') \in Nat /\ Cardinality(Missed') <= Cardinality(Missed)
    <3>1. Missed' \in SUBSET (Missed \cup {s}) /\ Missed' \subseteq Missed
      BY <2>4
    <3>. QED  BY <1>2, <3>1, OneMore
  <2>6. Beyond' <= 0 /\ Beyond' \in Int
    BY <1>1, <2>2
  <2>7. Cardinality(Missed) <= removals
    BY <2>2 DEF Misses
  <2>. QED  BY <1>1, <1>2, <2>2, <2>5, <2>6, <2>7
<1>6. CASE \E s \in Socket : Serve(s)
  <2>1. PICK s \in Socket : Serve(s)
    BY <1>6
  <2>2. UNCHANGED <<notify, message, position, removals, closed>>
    BY <2>1 DEF Serve, round
  <2>3. \A r \in Socket : r # s => sentTo'[r] = sentTo[r]
    BY <2>1, ServeSendsWelcome
  <2>4. /\ DOMAIN websockets' = 1 .. Len(websockets) + 1
        /\ Len(websockets') = Len(websockets) + 1
        /\ \A k \in 1 .. Len(websockets) : websockets'[k] = websockets[k]
        /\ websockets'[Len(websockets) + 1] = s
    BY <2>1, ListGrows
  <2>5. \A k \in DOMAIN websockets : websockets[k] # s
    BY <2>1, BegunGrows DEF Listed
  <2>6. ASSUME NEW r \in Missed', r \notin Missed
        PROVE  r = s /\ position > Len(websockets) + 1
    <3>1. PICK k \in 1 .. Len(websockets) + 1 :
            /\ k < position /\ websockets'[k] = r
            /\ r \in Socket /\ r \notin closed /\ Last(sentTo'[r]) # message
      BY <2>2, <2>4 DEF Missed
    <3>2. k = Len(websockets) + 1
      <4>. SUFFICES ASSUME k \in 1 .. Len(websockets) PROVE FALSE
        BY <1>1
      <4>1. k \in DOMAIN websockets /\ websockets[k] = r /\ r # s
        BY <1>1, <2>4, <2>5, <3>1
      <4>. QED  BY <2>3, <2>6, <3>1, <4>1 DEF Missed
    <3>. QED  BY <1>1, <2>4, <3>1, <3>2
  <2>7. Missed' \in SUBSET (Missed \cup {s})
        /\ (position <= Len(websockets) + 1 => Missed' \subseteq Missed)
    BY <1>1, <2>6
  <2>8. /\ Cardinality(Missed') \in Nat
        /\ Cardinality(Missed') <= Cardinality(Missed) + 1
        /\ position <= Len(websockets) + 1
             => Cardinality(Missed') <= Cardinality(Missed)
    BY <1>2, <2>7, OneMore
  <2>9. Beyond' = Beyond - 1 /\ Beyond \in Int
    BY <1>1, <2>2, <2>4
  <2>10. Cardinality(Missed) <= removals
         /\ Cardinality(Missed) + Beyond <= removals
    BY <1>3, <2>2 DEF Misses, InRound
  <2>11. CASE position <= Len(websockets) + 1
    BY <1>1, <1>2, <2>2, <2>8, <2>9, <2>10, <2>11
  <2>12. CASE position > Len(websockets) + 1
    <3>1. Beyond >= 1
      BY <1>1, <2>12
    <3>. HIDE DEF Beyond
    <3>. QED  BY <1>1, <1>2, <2>2, <2>8, <2>9, <2>10, <3>1
  <2>. QED  BY <1>1, <2>11, <2>12
<1>7. CASE NotifyGets
  <2>1. position' = 1 /\ websockets' = websockets /\ removals' = 0
    BY <1>7 DEF NotifyGets
  <2>2. Missed' = {}
    BY <1>1, <2>1 DEF Missed
  <2>3. Cardinality(Missed') = 0
    BY <2>2, FS_EmptySet
  <2>. QED  BY <1>1, <2>1, <2>3
<1>8. CASE Elsewhere
  <2>1. InRound
    BY <1>3, <1>8 DEF Elsewhere, InRound
  <2>2. Missed' \subseteq Missed
    BY <1>8 DEF Elsewhere, Missed
  <2>3. Cardinality(Missed') \in Nat /\ Cardinality(Missed') <= Cardinality(Missed)
    BY <1>2, <2>2, FS_Subset, FS_CardinalityType
  <2>4. Beyond' = Beyond /\ removals' = removals /\ Beyond \in Int
    BY <1>1, <1>8 DEF Elsewhere
  <2>5. Cardinality(Missed) <= removals
        /\ Cardinality(Missed) + Beyond <= removals
    BY <2>1 DEF Misses
  <2>. QED  BY <1>1, <1>2, <2>3, <2>4, <2>5
<1>. QED  BY <1>4, <1>5, <1>6, <1>7, <1>8, StepIs

-----------------------------------------------------------------------------
(* The chat server's theorems.                                             *)

LEMMA ChatInit ==
  Init => ChatInv
<1>. SUFFICES ASSUME Init PROVE ChatInv
  OBVIOUS
<1>1. /\ websockets = << >> /\ messages = << >> /\ scheduled = << >>
      /\ \A s \in Socket : sentTo[s] = << >> /\ serve[s] = "none"
      /\ notify = "get" /\ removals = 0 /\ message = 0 /\ posted = 0
      /\ position = 1 /\ websocket \in Socket /\ closed = {}
  BY DEF Init
<1>2. IsFiniteSet(Socket) /\ Cardinality(Socket) \in Nat
  BY ChatAssumption, FS_CardinalityType
<1>3. TypeOK
  BY <1>1, <1>2, ChatAssumption, EmptySeq DEF Init, TypeOK
<1>4. Begun = {} /\ Cardinality(Begun) = 0
  BY <1>1, FS_EmptySet DEF Begun
<1>. QED
  BY <1>1, <1>3, <1>4 DEF ChatInv, Listed, Distinct, Pipeline, Follows,
     SentBefore, Welcomed, InOrderOnce, LiveStaysServed, Misses, InRound

LEMMA ChatStep ==
  ChatInv /\ [Next]_vars => ChatInv'
<1>. SUFFICES ASSUME ChatInv, [Next]_vars PROVE ChatInv'
  OBVIOUS
<1>1. /\ TypeOK /\ Listed /\ Pipeline
      /\ SentBefore /\ Welcomed /\ InOrderOnce
      /\ LiveStaysServed /\ Misses
  BY DEF ChatInv
<1>2. TypeOK' /\ Listed' /\ Pipeline'
  BY <1>1, TypeStep, ListedStep, PipelineStep
<1>3. SentBefore' /\ Welcomed' /\ InOrderOnce'
  BY <1>1, SentBeforeStep, WelcomedStep, InOrderStep
<1>4. LiveStaysServed' /\ Misses'
  BY <1>1, LiveStep, MissesStep
<1>. QED  BY <1>2, <1>3, <1>4 DEF ChatInv

LEMMA ChatInvariant ==
  Spec => []ChatInv
BY ChatInit, ChatStep, PTL DEF Spec

(* However many sockets come and go, each is sent the welcome first, then  *)
(* messages in the order they were posted, none twice (server.py lines     *)
(* 13-19 and 31-39).                                                       *)
THEOREM MessagesInOrderOnce ==
  Spec => []InOrderOnce
<1>1. ChatInv => InOrderOnce
  BY DEF ChatInv
<1>. QED  BY <1>1, ChatInvariant, PTL

(* A socket that is still open is in the list, and its serve task runs     *)
(* (lines 25-27, 39).                                                      *)
THEOREM OpenSocketsAreServed ==
  Spec => []LiveStaysServed
<1>1. ChatInv => LiveStaysServed
  BY DEF ChatInv
<1>. QED  BY <1>1, ChatInvariant, PTL

(* A message misses at most as many of the open sockets as were removed    *)
(* from the list during its round (lines 34-39).                           *)
THEOREM RemovalsBoundMisses ==
  Spec => MissedOnlyByRemoval
<1>1. ASSUME ChatInv, [Next]_vars
      PROVE  [notify = "next" /\ notify' = "get" =>
                Cardinality({s \in ToSet(websockets') \ closed' :
                               Last(sentTo'[s]) # message'}) <= removals']_vars
  <2>. SUFFICES ASSUME Next, notify = "next", notify' = "get"
                PROVE  Cardinality({s \in ToSet(websockets') \ closed' :
                               Last(sentTo'[s]) # message'}) <= removals'
    BY <1>1
  <2>1. TypeOK /\ Listed /\ Misses
    BY <1>1 DEF ChatInv
  <2>2. NotifyEnds
    BY <2>1 DEF Next, Notify, NotifyGets, NotifyWaits, NotifySends, NotifySent,
       Drop, Post, Put, Serve, ServeWelcomed, ServeWakes, ConnectionCloses
  <2>3. /\ position > Len(websockets)
        /\ UNCHANGED <<websockets, closed, sentTo, message, removals>>
    BY <2>2 DEF NotifyEnds, sockets, round
  <2>4. Len(websockets) \in Nat /\ DOMAIN websockets = 1 .. Len(websockets)
        /\ position \in Nat /\ removals \in Nat
        /\ \A k \in DOMAIN websockets : websockets[k] \in Socket
    BY <2>1, LenProperties, ElementOfSeq, BegunFinite DEF TypeOK
  <2>5. {s \in ToSet(websockets) \ closed : Last(sentTo[s]) # message}
          \subseteq Missed
    BY <2>3, <2>4 DEF Missed, ToSet
  <2>6. Cardinality({s \in ToSet(websockets) \ closed :
                       Last(sentTo[s]) # message}) <= Cardinality(Missed)
    BY <2>5, MissedFinite, FS_Subset
  <2>7. Cardinality(Missed) <= removals
    BY <2>1 DEF Misses, InRound
  <2>8. Cardinality({s \in ToSet(websockets) \ closed :
                       Last(sentTo[s]) # message}) \in Nat
    BY <2>5, MissedFinite, FS_Subset, FS_CardinalityType
  <2>. QED  BY <2>3, <2>4, <2>6, <2>7, <2>8, MissedFinite
<1>. QED  BY <1>1, ChatInvariant, PTL DEF Spec, MissedOnlyByRemoval

-----------------------------------------------------------------------------
(* The timeout: what the waiting thread knows where it is.                 *)

(* While the wait is open the event is there, and set when it was stopped  *)
(* in time; after it, success tells the same, and at last expired does.    *)
Knows ==
  /\ waiter \in {"activate", "wait"} =>
       event # "none" /\ (event = "set" <=> inTime)
  /\ waiter \in {"check", "expire"} => event # "none" /\ (success <=> inTime)
  /\ waiter = "inactive" => event # "none" /\ (expired <=> ~ inTime)

TimeoutInv == T!TypeOK /\ Knows

LEMMA TimeoutInit ==
  T!Init => TimeoutInv
<1>. SUFFICES ASSUME T!Init PROVE TimeoutInv
  OBVIOUS
<1>1. /\ event = "none" /\ waiter = "none" /\ waits = 0 /\ user = "out"
      /\ raise_e \in BOOLEAN /\ active \in BOOLEAN /\ expired \in BOOLEAN
      /\ success \in BOOLEAN /\ inTime \in BOOLEAN
  BY DEF T!Init
<1>2. ~ active
  BY DEF T!Init
<1>3. answer \in [op : {"none", "active", "TypeError"},
                  after : {"out", "entered", "asked", "stopped"}, is : BOOLEAN]
  BY DEF T!Init, T!NoAnswer
<1>4. waits \in 0 .. MaxWaits
  BY <1>1, WaitsAssumption
<1>. QED  BY <1>1, <1>2, <1>3, <1>4 DEF TimeoutInv, T!TypeOK, Knows

LEMMA TimeoutTypes ==
  ASSUME T!TypeOK, Knows, [T!Next]_timeoutVars
  PROVE  T!TypeOK'
<1>. USE DEF T!TypeOK, T!Goes, T!flags, T!caller, T!wait
<1>1. CASE UNCHANGED timeoutVars
  BY <1>1 DEF timeoutVars
<1>2. CASE T!MakeEvent
  BY <1>2 DEF T!MakeEvent
<1>3. CASE T!Activate
  BY <1>3 DEF T!Activate, Knows
<1>4. CASE T!Woken \/ T!TimesUp
  BY <1>4 DEF T!Woken, T!TimesUp
<1>5. CASE T!Check
  BY <1>5 DEF T!Check
<1>6. CASE T!SetExpired
  BY <1>6 DEF T!SetExpired
<1>7. CASE T!Deactivate
  <2>1. active' = FALSE /\ waiter' = "done"
    BY <1>7 DEF T!Deactivate
  <2>2. UNCHANGED <<raise_e, event, expired, success, waits, user, answer,
                    inTime>>
    BY <1>7 DEF T!Deactivate
  <2>3. active' \in BOOLEAN /\ (active' => event' # "none")
    BY <2>1
  <2>. QED  BY <2>1, <2>2, <2>3
<1>8. CASE T!WaitAgain \/ T!WaitDirectly \/ T!Enter
  BY <1>8, WaitsAssumption DEF T!WaitAgain, T!WaitDirectly, T!Enter
<1>9. CASE T!Stop \/ T!Exit \/ T!AskExpired
  <2>1. T!SetEvent /\ UNCHANGED <<waiter, success, waits>>
    BY <1>9 DEF T!Stop, T!Exit, T!AskExpired
  <2>2. /\ event' \in {"none", "clear", "set"} /\ inTime' \in BOOLEAN
        /\ raise_e' \in BOOLEAN /\ active' \in BOOLEAN /\ expired' \in BOOLEAN
        /\ active' => event' # "none"
    BY <2>1 DEF T!SetEvent
  <2>3. user' \in {"out", "direct", "entered", "asked", "stopped"}
    BY <1>9 DEF T!Stop, T!Exit, T!AskExpired
  <2>4. answer' \in [op : {"none", "active", "TypeError"},
                     after : {"out", "entered", "asked", "stopped"},
                     is : BOOLEAN]
    <3>1. CASE answer' = answer
      BY <3>1
    <3>2. CASE T!AskExpired
      BY <3>2 DEF T!AskExpired, T!InBody
    <3>. QED  BY <1>9, <3>1, <3>2 DEF T!Stop, T!Exit
  <2>. QED  BY <2>1, <2>2, <2>3, <2>4
<1>10. CASE T!AskActive
  BY <1>10 DEF T!AskActive, T!InBody
<1>. QED  BY <1>1, <1>2, <1>3, <1>4, <1>5, <1>6, <1>7, <1>8, <1>9, <1>10
          DEF T!Next, T!Wait

LEMMA TimeoutKnows ==
  ASSUME T!TypeOK, Knows, [T!Next]_timeoutVars
  PROVE  Knows'
<1>. USE DEF Knows, T!Goes, T!flags, T!caller, T!wait
<1>1. CASE UNCHANGED timeoutVars
  BY <1>1 DEF timeoutVars
<1>2. CASE T!MakeEvent
  BY <1>2 DEF T!MakeEvent
<1>3. CASE T!Activate
  BY <1>3 DEF T!Activate
<1>4. CASE T!Woken
  <2>1. event' = "set" /\ success' /\ inTime' /\ waiter' = "check"
    BY <1>4 DEF T!Woken
  <2>. QED  BY <2>1
<1>5. CASE T!TimesUp
  <2>1. event' = "clear" /\ ~ success' /\ ~ inTime' /\ waiter' = "check"
    BY <1>5 DEF T!TimesUp
  <2>. QED  BY <2>1
<1>6. CASE T!Check
  BY <1>6 DEF T!Check
<1>7. CASE T!SetExpired
  <2>1. (expired' <=> ~ inTime') /\ event' # "none" /\ waiter' = "inactive"
    BY <1>7 DEF T!SetExpired, T!TypeOK
  <2>. QED  BY <2>1
<1>8. CASE T!Deactivate \/ T!WaitAgain \/ T!WaitDirectly \/ T!Enter
  BY <1>8 DEF T!Deactivate, T!WaitAgain, T!WaitDirectly, T!Enter
<1>9. CASE T!SetEvent /\ UNCHANGED <<waiter, success>>
  <2>1. /\ waiter' = waiter /\ success' = success /\ expired' = expired
        /\ event' = IF event = "none" THEN "none" ELSE "set"
        /\ inTime' <=> inTime \/ waiter \in {"activate", "wait"}
    BY <1>9 DEF T!SetEvent
  <2>2. CASE waiter \in {"activate", "wait"}
    <3>1. event' = "set" /\ inTime'
      BY <2>1, <2>2
    <3>. QED  BY <2>1, <2>2, <3>1
  <2>3. CASE waiter \in {"check", "expire", "inactive"}
    <3>1. event' # "none" /\ (inTime' <=> inTime)
      BY <2>1, <2>3
    <3>. QED  BY <2>1, <2>3, <3>1
  <2>. QED  BY <2>1, <2>2, <2>3
<1>10. CASE T!AskActive
  BY <1>10 DEF T!AskActive
<1>. QED  BY <1>1, <1>2, <1>3, <1>4, <1>5, <1>6, <1>7, <1>8, <1>9, <1>10
          DEF T!Next, T!Wait, T!Stop, T!Exit, T!AskExpired

LEMMA TimeoutStep ==
  TimeoutInv /\ [T!Next]_timeoutVars => TimeoutInv'
BY TimeoutTypes, TimeoutKnows DEF TimeoutInv

LEMMA TimeoutSettles ==
  TimeoutInv /\ T!Next /\ active /\ ~ active' => (expired' <=> ~ inTime')
<1>. SUFFICES ASSUME TimeoutInv, T!Next, active, ~ active'
              PROVE  expired' <=> ~ inTime'
  OBVIOUS
<1>1. T!Deactivate
  BY DEF TimeoutInv, T!TypeOK, T!Next, T!Wait, T!MakeEvent, T!Activate, T!Woken,
     T!TimesUp, T!Check, T!SetExpired, T!WaitAgain, T!WaitDirectly, T!Enter,
     T!Stop, T!SetEvent,
     T!AskActive, T!AskExpired, T!Exit, T!flags, T!caller, T!wait
<1>. QED  BY <1>1 DEF T!Deactivate, TimeoutInv, Knows

-----------------------------------------------------------------------------
(* Both, one of them at rest.                                              *)

(* A program that is not run has no step to take.                          *)
ChatRests ==
  /\ notify = "not run" /\ posted = MaxMessages /\ scheduled = << >>
  /\ closed = Socket /\ \A s \in Socket : serve[s] = "ended"

TimeoutRests == waiter = "not run" /\ user = "out" /\ ~ active

JointInv ==
  /\ ChatRests \/ ChatInv
  /\ TimeoutRests \/ TimeoutInv

LEMMA JointInit ==
  MCInit => JointInv
<1>1. NoChat => ChatRests
  BY DEF NoChat, ChatRests
<1>2. NoTimeout => TimeoutRests
  BY DEF NoTimeout, TimeoutRests
<1>3. Init /\ NoTimeout => JointInv
  BY <1>2, ChatInit DEF JointInv
<1>4. NoChat /\ T!Init => JointInv
  BY <1>1, TimeoutInit DEF JointInv
<1>5. MCInit => (Init /\ NoTimeout) \/ (NoChat /\ T!Init)
  BY DEF MCInit
<1>. QED  BY <1>3, <1>4, <1>5, Zenon

LEMMA ChatAtRest ==
  ChatRests => ~ Next
<1>. SUFFICES ASSUME ChatRests PROVE ~ Next
  OBVIOUS
<1>1. ~ Notify
  BY DEF ChatRests, Notify, NotifyGets, NotifyWaits, NotifyEnds, NotifySends,
         NotifySent
<1>2. ~ Post /\ ~ Put
  <2>1. ~ MaxMessages < MaxMessages
    BY ChatAssumption
  <2>2. scheduled = << >> /\ posted = MaxMessages
    BY DEF ChatRests
  <2>. QED  BY <2>1, <2>2, Zenon DEF Post, Put
<1>3. ASSUME NEW s \in Socket
      PROVE  ~ (Serve(s) \/ ServeWelcomed(s) \/ ServeWakes(s)
                \/ ConnectionCloses(s))
  <2>1. serve[s] = "ended" /\ s \in closed
    BY DEF ChatRests
  <2>. QED  BY <2>1 DEF Serve, ServeWelcomed, ServeWakes, ConnectionCloses
<1>. QED  BY <1>1, <1>2, <1>3 DEF Next

LEMMA TimeoutAtRest ==
  TimeoutRests => ~ T!Next
BY DEF TimeoutRests, T!Next, T!Wait, T!MakeEvent, T!Activate, T!Woken,
   T!TimesUp, T!Check, T!SetExpired, T!Deactivate, T!WaitAgain, T!WaitDirectly,
   T!Enter, T!Stop, T!AskActive, T!AskExpired, T!Exit, T!InBody

LEMMA JointStep ==
  JointInv /\ [RunChat \/ RunTimeout]_<<vars, timeoutVars>> => JointInv'
<1>. SUFFICES ASSUME JointInv, [RunChat \/ RunTimeout]_<<vars, timeoutVars>>
              PROVE  JointInv'
  OBVIOUS
<1>1. [Next]_vars /\ [T!Next]_timeoutVars
  BY DEF RunChat, RunTimeout
<1>2. ChatRests' \/ ChatInv'
  <2>1. CASE ChatRests
    <3>1. UNCHANGED vars
      BY <1>1, <2>1, ChatAtRest
    <3>. QED  BY <2>1, <3>1 DEF vars, sockets, queue, ChatRests
  <2>2. CASE ChatInv
    BY <1>1, <2>2, ChatStep
  <2>. QED  BY <2>1, <2>2 DEF JointInv
<1>3. TimeoutRests' \/ TimeoutInv'
  <2>1. CASE TimeoutRests
    <3>1. UNCHANGED timeoutVars
      BY <1>1, <2>1, TimeoutAtRest
    <3>. QED  BY <2>1, <3>1 DEF timeoutVars, TimeoutRests
  <2>2. CASE TimeoutInv
    BY <1>1, <2>2, TimeoutStep
  <2>. QED  BY <2>1, <2>2 DEF JointInv
<1>. QED  BY <1>2, <1>3 DEF JointInv

LEMMA JointInvariant ==
  MCSpec => []JointInv
BY JointInit, JointStep, PTL DEF MCSpec

(* The types of both programs, whatever the sockets, messages and waits:   *)
(* the iterator never gets further than one place beyond the number of     *)
(* sockets, and an active timeout has an event (server.py lines 6-39,      *)
(* timeout.py lines 10-31).                                                *)
THEOREM PythonTypes ==
  MCSpec => []JointTypes
<1>1. JointInv => JointTypes
  BY DEF JointInv, ChatRests, ChatInv, TimeoutRests, TimeoutInv, JointTypes
<1>. QED  BY <1>1, JointInvariant, PTL

(* Whoever sees a timeout turn inactive may read expired: it tells whether *)
(* this wait was stopped in time (timeout.py lines 22-27).                 *)
THEOREM InactiveIsSettled ==
  MCSpec => SettledWhenInactive
<1>1. ASSUME JointInv, [RunChat \/ RunTimeout]_<<vars, timeoutVars>>
      PROVE  [active /\ ~ active' => expired' = ~ inTime']_timeoutVars
  <2>. SUFFICES ASSUME active, ~ active' PROVE expired' = ~ inTime'
    OBVIOUS
  <2>1. T!Next
    BY <1>1 DEF RunChat, RunTimeout, timeoutVars
  <2>2. TimeoutInv
    BY <1>1 DEF JointInv, TimeoutRests
  <2>3. expired' \in BOOLEAN /\ inTime' \in BOOLEAN
    BY <1>1, <2>1, <2>2, TimeoutStep DEF TimeoutInv, T!TypeOK
  <2>. QED  BY <2>1, <2>2, <2>3, TimeoutSettles
<1>2. JointInv /\ [RunChat \/ RunTimeout]_<<vars, timeoutVars>>
        => [active /\ ~ active' => expired' = ~ inTime']_(T!vars)
  BY <1>1 DEF T!vars, T!flags, T!wait, T!caller, timeoutVars
<1>. QED  BY <1>2, JointInvariant, PTL
          DEF MCSpec, SettledWhenInactive, T!SettledWhenInactive

=============================================================================
