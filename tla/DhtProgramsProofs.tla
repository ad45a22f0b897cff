------------------------- MODULE DhtProgramsProofs --------------------------
(***************************************************************************)
(* The DHT proxy, for any requests and any number of values: its types,    *)
(* that no callback of the node finds the server destroyed, and that a     *)
(* request is answered once.  The DHT clients, for any number of values    *)
(* given to putget: that main goes on from a wait only for a reason, and   *)
(* that a callback which comes too late was given up.                      *)
(***************************************************************************)
EXTENDS MCDhtPrograms, SequenceTheorems, TLAPS

Part == Final \cup {"header", "value"}

(* What each step of the owner leaves behind: the server's thread has      *)
(* ended before the node is joined, and the node before the members go.    *)
NodeFirst ==
  /\ ~dangling
  /\ owner \in {"joining node", "node joined", "ended"} =>
       server \in {"failed", "closed"}
  /\ nodeRuns <=> owner \notin {"node joined", "ended"}

(* A get of RESTinio, which alone sends a header.                          *)
Chunked(r) == kind[r] = "get" /\ front = "restinio"

(* AnsweredOnce of one request, and what was written when: nothing before  *)
(* the request is taken up, and the header before the table calls back.    *)
Good(r) ==
  /\ \A i \in DOMAIN answer[r] :
       /\ answer[r][i] \in Final => i = Len(answer[r]) /\ phase[r] = "over"
       /\ answer[r][i] = "header" <=> Chunked(r) /\ i = 1
  /\ phase[r] \in {"none", "sent", "accepted"} => answer[r] = << >>
  /\ phase[r] = "dht" /\ Chunked(r) => answer[r] # << >>
  /\ phase[r] = "over" /\ r \in connected =>
       answer[r] # << >> /\ answer[r][Len(answer[r])] \in Final

AllGood == \A r \in Request : Good(r)

-----------------------------------------------------------------------------
LEMMA Parts ==
  ASSUME NEW a \in Seq(Part), NEW e \in Part
  PROVE  /\ Append(a, e) \in Seq(Part)
         /\ Append(a, e) # << >>
         /\ Len(Append(a, e)) = Len(a) + 1
         /\ DOMAIN Append(a, e) = 1 .. Len(a) + 1
         /\ DOMAIN a = 1 .. Len(a) /\ Len(a) \in Nat
         /\ a # << >> <=> Len(a) > 0
         /\ \A i \in 1 .. Len(a) : Append(a, e)[i] = a[i]
         /\ Append(a, e)[Len(a) + 1] = e
OBVIOUS

(* What a write leaves: one more part, or, without a connection, nothing.  *)
LEMMA Written ==
  ASSUME TypeOK, NEW r \in Request, NEW e \in Part, Write(r, e)
  PROVE  /\ answer' \in [Request -> Seq(Part)]
         /\ answer'[r] = IF r \in connected THEN Append(answer[r], e)
                                            ELSE answer[r]
         /\ \A s \in Request \ {r} : answer'[s] = answer[s]
<1>1. answer \in [Request -> Seq(Part)]
  BY DEF TypeOK, Part
<1>2. Append(answer[r], e) \in Seq(Part)
  BY <1>1, Parts
<1>. QED  BY <1>1, <1>2 DEF Write

(* A step that changes one request, and closes connections at most, keeps  *)
(* the others good.                                                        *)
LEMMA OneRequest ==
  ASSUME AllGood, NEW r \in Request, Good(r)', front' = front,
         \A s \in Request \ {r} :
           /\ kind'[s] = kind[s] /\ phase'[s] = phase[s]
           /\ answer'[s] = answer[s]
           /\ s \in connected' => s \in connected
  PROVE  AllGood'
<1>. SUFFICES ASSUME NEW s \in Request, s # r PROVE Good(s)'
  BY DEF AllGood
<1>1. Good(s)
  BY DEF AllGood
<1>. QED  BY <1>1 DEF Good, Chunked

LEMMA NoRequest ==
  ASSUME AllGood, UNCHANGED <<front, kind, phase, answer>>,
         connected' \subseteq connected
  PROVE  AllGood'
BY DEF AllGood, Good, Chunked

-----------------------------------------------------------------------------
(* The last part of an answer makes the request over.                      *)
LEMMA ReplyGood ==
  ASSUME TypeOK, NEW r \in Request, Good(r), NEW e \in Final, Reply(r, e),
         phase[r] # "over", Chunked(r) => answer[r] # << >>,
         UNCHANGED <<front, kind>>, r \in connected' => r \in connected
  PROVE  Good(r)'
<1>1. e \in Part /\ e # "header"
  BY DEF Part, Final
<1>2. answer[r] \in Seq(Part)
  BY DEF TypeOK, Part
<1>3. phase'[r] = "over"
  BY DEF Reply, Over, TypeOK
<1>4. Chunked(r)' <=> Chunked(r)
  BY DEF Chunked
<1>5. CASE r \in connected
  <2>1. answer'[r] = Append(answer[r], e)
    BY <1>1, <1>5, Written DEF Reply
  <2>2. \A i \in DOMAIN answer[r] :
          answer[r][i] \notin Final
          /\ (answer[r][i] = "header" <=> Chunked(r) /\ i = 1)
    BY DEF Good
  <2>3. \A i \in DOMAIN answer'[r] :
          /\ answer'[r][i] \in Final => i = Len(answer'[r])
          /\ answer'[r][i] = "header" <=> Chunked(r) /\ i = 1
    BY <1>1, <1>2, <2>1, <2>2, Parts
  <2>4. answer'[r] # << >> /\ answer'[r][Len(answer'[r])] \in Final
    BY <1>1, <1>2, <2>1, Parts
  <2>. QED  BY <1>3, <1>4, <2>3, <2>4 DEF Good
<1>6. CASE r \notin connected
  <2>1. answer'[r] = answer[r]
    BY <1>1, <1>6, Written DEF Reply
  <2>. QED  BY <1>3, <1>4, <1>6, <2>1 DEF Good
<1>. QED  BY <1>5, <1>6

(* A part that is not the last.                                            *)
LEMMA WriteGood ==
  ASSUME TypeOK, NEW r \in Request, Good(r),
         NEW e \in {"header", "value"}, Write(r, e), phase'[r] = "dht",
         r \in connected \/ answer[r] # << >>,
         phase[r] # "over",
         Chunked(r), e = "header" <=> answer[r] = << >>,
         UNCHANGED <<front, kind>>
  PROVE  Good(r)'
<1>1. e \in Part /\ e \notin Final
  BY DEF Part, Final
<1>2. answer[r] \in Seq(Part)
  BY DEF TypeOK, Part
<1>3. Chunked(r)'
  BY DEF Chunked
<1>4. \A i \in DOMAIN answer[r] :
        answer[r][i] \notin Final /\ (answer[r][i] = "header" <=> i = 1)
  BY DEF Good
<1>5. CASE r \in connected
  <2>1. answer'[r] = Append(answer[r], e)
    BY <1>1, <1>5, Written
  <2>2. \A i \in DOMAIN answer'[r] :
          answer'[r][i] \notin Final /\ (answer'[r][i] = "header" <=> i = 1)
    BY <1>1, <1>2, <1>4, <2>1, Parts
  <2>3. answer'[r] # << >>
    BY <1>1, <1>2, <2>1, Parts
  <2>. QED  BY <1>3, <2>2, <2>3 DEF Good
<1>6. CASE r \notin connected
  <2>1. answer'[r] = answer[r]
    BY <1>1, <1>6, Written
  <2>. QED  BY <1>3, <1>4, <1>6, <2>1 DEF Good
<1>. QED  BY <1>5, <1>6

-----------------------------------------------------------------------------
(* The handlers.                                                           *)

Frame == UNCHANGED <<front, server, owner, nodeRuns, kind, nodes, dangling>>

LEMMA HandlesFrame ==
  ASSUME NEW r \in Request, NEW f, NEW kinds, Handles(r, f, kinds)
  PROVE  /\ Frame /\ front = f /\ kind[r] \in kinds
         /\ phase[r] = "sent" /\ r \in connected
BY DEF Handles, lifecycle, Frame

(* The types after a handler, if it keeps those of what it changes.        *)
LEMMA FrameTypes ==
  ASSUME TypeOK, Frame, busy' \subseteq Request,
         connected' \subseteq Request,
         phase' \in [Request -> {"none", "sent", "accepted", "dht", "over"}],
         answer' \in [Request -> Seq(Part)], dhtNodeInfo' \in BOOLEAN
  PROVE  TypeOK'
BY DEF TypeOK, Frame, Part

LEMMA ReplyKeeps ==
  ASSUME TypeOK, AllGood, NEW r \in Request, NEW e \in Final, Reply(r, e),
         phase[r] # "over", Chunked(r) => answer[r] # << >>,
         UNCHANGED <<front, kind, connected>>
  PROVE  /\ AllGood'
         /\ answer' \in [Request -> Seq(Part)]
         /\ phase' \in [Request -> {"none", "sent", "accepted", "dht", "over"}]
<1>1. e \in Part
  BY DEF Part
<1>2. phase' = [phase EXCEPT ![r] = "over"]
  BY DEF Reply, Over
<1>3. /\ answer' \in [Request -> Seq(Part)]
      /\ \A s \in Request \ {r} : answer'[s] = answer[s]
  BY <1>1, Written DEF Reply
<1>4. Good(r)'
  BY ReplyGood DEF AllGood
<1>5. \A s \in Request \ {r} : phase'[s] = phase[s]
  BY <1>2 DEF TypeOK
<1>6. AllGood'
  BY <1>3, <1>4, <1>5, OneRequest
<1>. QED  BY <1>2, <1>3, <1>6 DEF TypeOK

LEMMA ServeKeeps ==
  ASSUME TypeOK, AllGood, NEW r \in Request,
         Options(r) \/ GetNodeInfo(r) \/ PistachePut(r)
  PROVE  TypeOK' /\ AllGood'
<1>1. /\ Frame /\ phase[r] = "sent" /\ ~Chunked(r)
      /\ \E e \in Final : Reply(r, e)
      /\ UNCHANGED <<busy, connected>>
      /\ dhtNodeInfo' \in BOOLEAN
  <2>1. CASE Options(r)
    <3>1. Handles(r, "restinio", {"options"})
      BY <2>1 DEF Options
    <3>2. Frame /\ phase[r] = "sent" /\ kind[r] = "options"
      BY <3>1, HandlesFrame
    <3>. QED  BY <2>1, <3>2 DEF Options, Chunked, Final, TypeOK
  <2>2. CASE GetNodeInfo(r)
    <3>1. Handles(r, "restinio", {"info"})
      BY <2>2 DEF GetNodeInfo
    <3>2. Frame /\ phase[r] = "sent" /\ kind[r] = "info"
      BY <3>1, HandlesFrame
    <3>3. dhtNodeInfo' \in BOOLEAN
      BY <2>2 DEF GetNodeInfo, RememberNodes, TypeOK
    <3>. QED  BY <2>2, <3>2, <3>3 DEF GetNodeInfo, Chunked, Final
  <2>3. CASE PistachePut(r)
    <3>1. Handles(r, "pistache", {"put"})
      BY <2>3 DEF PistachePut
    <3>2. Frame /\ phase[r] = "sent" /\ front = "pistache"
      BY <3>1, HandlesFrame
    <3>. QED  BY <2>3, <3>2 DEF PistachePut, Chunked, Final, TypeOK
  <2>. QED  BY <2>1, <2>2, <2>3
<1>2. PICK e \in Final : Reply(r, e)
  BY <1>1
<1>3. UNCHANGED <<front, kind, connected>> /\ phase[r] # "over"
  BY <1>1 DEF Frame
<1>4. /\ AllGood'
      /\ answer' \in [Request -> Seq(Part)]
      /\ phase' \in [Request -> {"none", "sent", "accepted", "dht", "over"}]
  BY <1>1, <1>2, <1>3, ReplyKeeps
<1>. QED  BY <1>1, <1>4, FrameTypes DEF TypeOK

LEMMA GetKeeps ==
  ASSUME TypeOK, AllGood, NEW r \in Request, Get(r)
  PROVE  TypeOK' /\ AllGood'
<1>1. /\ Frame /\ phase[r] = "sent" /\ Chunked(r) /\ r \in connected
      /\ Write(r, "header") /\ phase' = [phase EXCEPT ![r] = "dht"]
      /\ UNCHANGED <<busy, connected, dhtNodeInfo>>
  BY HandlesFrame DEF Get, StartChunks, Chunked
<1>2. Good(r) /\ answer[r] = << >>
  BY <1>1 DEF AllGood, Good
<1>3. phase'[r] = "dht" /\ \A s \in Request \ {r} : phase'[s] = phase[s]
  BY <1>1 DEF TypeOK
<1>4. Good(r)'
  <2>1. UNCHANGED <<front, kind>> /\ phase[r] # "over"
    BY <1>1 DEF Frame
  <2>. QED  BY <1>1, <1>2, <1>3, <2>1, WriteGood
<1>5. /\ answer' \in [Request -> Seq(Part)]
      /\ \A s \in Request \ {r} : answer'[s] = answer[s]
  BY <1>1, Written DEF Part
<1>6. AllGood'
  BY <1>1, <1>3, <1>4, <1>5, OneRequest DEF Frame
<1>. QED  BY <1>1, <1>5, <1>6, FrameTypes DEF TypeOK

(* A handler that leaves the answer to others, or none at all.             *)
LEMMA NoAnswerKeeps ==
  ASSUME TypeOK, AllGood, NEW r \in Request, Frame,
         phase[r] = "sent", UNCHANGED answer,
         NEW p \in {"accepted", "dht", "over"},
         phase' = [phase EXCEPT ![r] = p],
         p = "dht" => ~Chunked(r),
         p = "over" => r \notin connected',
         connected' \subseteq connected
  PROVE  AllGood'
<1>1. answer[r] = << >> /\ answer'[r] = << >>
  BY DEF AllGood, Good
<1>2. phase'[r] = p /\ \A s \in Request \ {r} : phase'[s] = phase[s]
  BY DEF TypeOK
<1>3. Chunked(r)' <=> Chunked(r)
  BY DEF Chunked, Frame
<1>4. Good(r)'
  BY <1>1, <1>2, <1>3 DEF Good
<1>. QED  BY <1>2, <1>4, OneRequest DEF Frame

LEMMA PutKeeps ==
  ASSUME TypeOK, AllGood, NEW r \in Request, Put(r)
  PROVE  TypeOK' /\ AllGood'
<1>1. /\ Frame /\ phase[r] = "sent" /\ ~Chunked(r)
      /\ kind[r] \in {"put", "empty put", "bad put", "odd put"}
      /\ UNCHANGED <<busy, dhtNodeInfo>>
      /\ connected' = IF kind[r] = "odd put" THEN connected \ {r}
                                             ELSE connected
  <2>1. Handles(r, "restinio", {"put", "empty put", "bad put", "odd put"})
    BY DEF Put
  <2>2. /\ Frame /\ phase[r] = "sent"
        /\ kind[r] \in {"put", "empty put", "bad put", "odd put"}
    BY <2>1, HandlesFrame
  <2>. QED  BY <2>2 DEF Put, Chunked
<1>2. CASE kind[r] = "empty put"
  <2>1. /\ Reply(r, "bad request") /\ "bad request" \in Final
        /\ UNCHANGED <<front, kind, connected>> /\ phase[r] # "over"
    BY <1>1, <1>2 DEF Put, Final, Frame
  <2>2. /\ AllGood'
        /\ answer' \in [Request -> Seq(Part)]
        /\ phase' \in [Request -> {"none", "sent", "accepted", "dht", "over"}]
    BY <1>1, <2>1, ReplyKeeps
  <2>. QED  BY <1>1, <2>1, <2>2, FrameTypes DEF TypeOK
<1>3. CASE kind[r] # "empty put"
  <2>1. PICK p \in {"accepted", "dht", "over"} :
          /\ phase' = [phase EXCEPT ![r] = p] /\ UNCHANGED answer
          /\ p = "over" => kind[r] = "odd put"
    BY <1>1, <1>3 DEF Put, Over
  <2>2. connected' \subseteq connected
        /\ (p = "over" => r \notin connected')
    BY <1>1, <2>1
  <2>3. AllGood'
    BY <1>1, <2>1, <2>2, NoAnswerKeeps
  <2>4. phase' \in [Request -> {"none", "sent", "accepted", "dht", "over"}]
        /\ answer' \in [Request -> Seq(Part)]
    BY <2>1 DEF TypeOK, Part
  <2>. QED  BY <1>1, <2>2, <2>3, <2>4, FrameTypes DEF TypeOK
<1>. QED  BY <1>2, <1>3

LEMMA PistacheGetKeeps ==
  ASSUME TypeOK, AllGood, NEW r \in Request, PistacheGet(r)
  PROVE  TypeOK' /\ AllGood'
<1>1. /\ Frame /\ phase[r] = "sent" /\ ~Chunked(r)
      /\ busy' = {r} /\ phase' = [phase EXCEPT ![r] = "dht"]
      /\ UNCHANGED <<connected, answer, dhtNodeInfo>>
  BY HandlesFrame DEF PistacheGet, Chunked
<1>2. AllGood'
  BY <1>1, NoAnswerKeeps
<1>3. phase' \in [Request -> {"none", "sent", "accepted", "dht", "over"}]
      /\ answer' \in [Request -> Seq(Part)]
  BY <1>1 DEF TypeOK, Part
<1>. QED  BY <1>1, <1>2, <1>3, FrameTypes DEF TypeOK

LEMMA CallbackKeeps ==
  ASSUME TypeOK, AllGood, NEW r \in Request, Callback(r)
  PROVE  TypeOK' /\ AllGood'
<1>1. /\ phase[r] = "dht" /\ busy' = busy \ {r}
      /\ dangling' \in BOOLEAN
      /\ UNCHANGED <<front, server, owner, nodeRuns, kind, connected, nodes,
                     dhtNodeInfo>>
  BY DEF Callback, lifecycle, info, TypeOK
<1>2. Good(r) /\ (Chunked(r) => answer[r] # << >>) /\ phase[r] # "over"
  BY <1>1 DEF AllGood, Good
<1>3. /\ AllGood'
      /\ answer' \in [Request -> Seq(Part)]
      /\ phase' \in [Request -> {"none", "sent", "accepted", "dht", "over"}]
  <2>1. CASE Chunked(r) /\ Write(r, "value") /\ UNCHANGED phase
    <3>1. phase'[r] = "dht"
      BY <1>1, <2>1
    <3>2. Good(r)'
      BY <1>1, <1>2, <2>1, <3>1, WriteGood
    <3>3. /\ answer' \in [Request -> Seq(Part)]
          /\ \A s \in Request \ {r} : answer'[s] = answer[s]
      BY <2>1, Written DEF Part
    <3>4. AllGood'
      BY <1>1, <2>1, <3>2, <3>3, OneRequest
    <3>. QED  BY <2>1, <3>3, <3>4 DEF TypeOK
  <2>2. CASE \E e \in Final : Reply(r, e)
    <3>1. PICK e \in Final : Reply(r, e)
      BY <2>2
    <3>. QED  BY <1>1, <1>2, <3>1, ReplyKeeps
  <2>. QED  BY <2>1, <2>2 DEF Callback, Chunked, Final
<1>. QED  BY <1>1, <1>3 DEF TypeOK, Part

-----------------------------------------------------------------------------
(* The rest.                                                               *)

LEMMA SendsKeeps ==
  ASSUME TypeOK, AllGood, NEW r \in Request, ClientSends(r)
  PROVE  TypeOK' /\ AllGood'
<1>1. /\ phase[r] = "none" /\ phase' = [phase EXCEPT ![r] = "sent"]
      /\ connected' = connected \cup {r}
      /\ UNCHANGED <<front, server, owner, nodeRuns, busy, answer, nodes,
                     dhtNodeInfo, dangling>>
  BY DEF ClientSends, lifecycle, info
<1>2. PICK k \in Kinds : kind' = [kind EXCEPT ![r] = k]
  BY DEF ClientSends, Kinds
<1>3. answer'[r] = << >> /\ phase'[r] = "sent"
  BY <1>1 DEF AllGood, Good, TypeOK
<1>4. Good(r)'
  BY <1>3 DEF Good
<1>5. \A s \in Request \ {r} : kind'[s] = kind[s] /\ phase'[s] = phase[s]
  BY <1>1, <1>2 DEF TypeOK
<1>6. AllGood'
  BY <1>1, <1>4, <1>5, OneRequest
<1>7. TypeOK'
  BY <1>1, <1>2 DEF TypeOK
<1>. QED  BY <1>6, <1>7

Owning == Open \/ Stop \/ ServerEnds \/ Owner

LEMMA OwningKeeps ==
  ASSUME TypeOK, AllGood, Owning
  PROVE  TypeOK' /\ AllGood'
<1>1. /\ UNCHANGED <<front, busy, kind, phase, answer, nodes, dhtNodeInfo,
                     dangling>>
      /\ connected' \subseteq connected
      /\ server' \in {"starting", "open", "failed", "closing", "closed"}
      /\ owner' \in {"running", "joining", "joining node", "node joined",
                    "ended"}
      /\ nodeRuns' \in BOOLEAN
  BY DEF Owning, Open, Stop, ServerEnds, Owner, Joined, Destroyed, JoinNode,
         exchange, info, TypeOK
<1>2. AllGood'
  BY <1>1, NoRequest
<1>. QED  BY <1>1, <1>2 DEF TypeOK

LEMMA QuietKeeps ==
  ASSUME TypeOK, AllGood,
         \/ NodesChange \/ UNCHANGED vars
         \/ \E r \in Request : CloseByLimit(r) \/ ClientLeaves(r)
  PROVE  TypeOK' /\ AllGood'
<1>1. /\ UNCHANGED <<front, server, owner, nodeRuns, busy, kind, phase,
                     answer, dhtNodeInfo, dangling>>
      /\ connected' \subseteq connected
      /\ nodes' \in BOOLEAN
  BY DEF NodesChange, CloseByLimit, ClientLeaves, vars, lifecycle, exchange,
         info, TypeOK
<1>2. AllGood'
  BY <1>1, NoRequest
<1>. QED  BY <1>1, <1>2 DEF TypeOK

LEMMA NextKeeps ==
  TypeOK /\ AllGood /\ [Next]_vars => TypeOK' /\ AllGood'
<1>. SUFFICES ASSUME TypeOK, AllGood, [Next]_vars
              PROVE  TypeOK' /\ AllGood'
  OBVIOUS
<1>1. CASE Serve
  BY <1>1, ServeKeeps, GetKeeps, PutKeeps, PistacheGetKeeps DEF Serve
<1>2. CASE Owning
  BY <1>2, OwningKeeps
<1>3. CASE \E r \in Request : Callback(r) \/ ClientSends(r)
  BY <1>3, CallbackKeeps, SendsKeeps
<1>4. CASE \/ NodesChange \/ UNCHANGED vars
           \/ \E r \in Request : CloseByLimit(r) \/ ClientLeaves(r)
  BY <1>4, QuietKeeps
<1>. QED  BY <1>1, <1>2, <1>3, <1>4 DEF Next, Owning

LEMMA InitKeeps == Init => TypeOK /\ AllGood
<1>. SUFFICES ASSUME Init PROVE TypeOK /\ AllGood
  OBVIOUS
<1>1. << >> \in Seq(Part)
  OBVIOUS
<1>2. TypeOK
  BY <1>1 DEF Init, TypeOK, Kinds, Part
<1>3. AllGood
  <2>1. \A r \in Request : answer[r] = << >> /\ phase[r] = "none"
    BY DEF Init
  <2>2. \A i \in DOMAIN << >> : FALSE
    OBVIOUS
  <2>3. \A r \in Request : \A i \in DOMAIN answer[r] : FALSE
    BY <2>1, <2>2
  <2>. QED  BY <2>1, <2>3 DEF AllGood, Good
<1>. QED  BY <1>2, <1>3

(* A callback needs the node, which is joined before the members go; the   *)
(* node needs no more handlers, and is joined after their thread.          *)
LEMMA NodeFirstKeeps ==
  NodeFirst /\ [Next]_vars => NodeFirst'
<1>. SUFFICES ASSUME NodeFirst, [Next]_vars PROVE NodeFirst'
  OBVIOUS
<1>1. CASE UNCHANGED <<server, owner, nodeRuns, dangling>>
  BY <1>1 DEF NodeFirst
<1>2. ASSUME NEW r \in Request, Callback(r) PROVE NodeFirst'
  BY <1>2 DEF NodeFirst, Callback, lifecycle
<1>3. CASE Serve
  BY <1>1, <1>3 DEF Serve, Options, GetNodeInfo, Get, Put, PistacheGet,
                    PistachePut, Handles, lifecycle
<1>4. CASE Owning
  <2>1. CASE Open
    BY <2>1 DEF Open, NodeFirst, exchange, info
  <2>2. CASE Stop
    BY <2>2 DEF Stop, NodeFirst, exchange, info
  <2>3. CASE ServerEnds
    BY <2>3 DEF ServerEnds, NodeFirst
  <2>4. CASE Joined
    BY <2>4 DEF Joined, NodeFirst, exchange, info
  <2>5. CASE JoinNode
    BY <2>5 DEF JoinNode, NodeFirst, exchange, info
  <2>6. CASE Destroyed
    BY <2>6 DEF Destroyed, NodeFirst, exchange, info
  <2>. QED  BY <1>4, <2>1, <2>2, <2>3, <2>4, <2>5, <2>6 DEF Owning, Owner
<1>5. CASE NodesChange \/ UNCHANGED vars
  BY <1>1, <1>5 DEF NodesChange, vars, lifecycle
<1>6. ASSUME NEW r \in Request,
             CloseByLimit(r) \/ ClientSends(r) \/ ClientLeaves(r)
      PROVE  NodeFirst'
  BY <1>1, <1>6 DEF CloseByLimit, ClientSends, ClientLeaves, lifecycle
<1>. QED  BY <1>2, <1>3, <1>4, <1>5, <1>6 DEF Next, Owning

-----------------------------------------------------------------------------
(* The variables of the proxy's model keep their types.                    *)
THEOREM ProxyTypeCorrect == Spec => []TypeOK
<1>1. Init => TypeOK /\ AllGood
  BY InitKeeps
<1>2. TypeOK /\ AllGood /\ [Next]_vars => TypeOK' /\ AllGood'
  BY NextKeeps
<1>. QED  BY <1>1, <1>2, PTL DEF Spec

(* A request is answered once, in order, and is over after that, whatever  *)
(* the interleaving of handlers, callbacks, time limits and clients.       *)
THEOREM AlwaysAnsweredOnce == Spec => []AnsweredOnce
<1>1. Init => TypeOK /\ AllGood
  BY InitKeeps
<1>2. TypeOK /\ AllGood /\ [Next]_vars => TypeOK' /\ AllGood'
  BY NextKeeps
<1>3. AllGood => AnsweredOnce
  BY DEF AllGood, Good, Chunked, AnsweredOnce
<1>. QED  BY <1>1, <1>2, <1>3, PTL DEF Spec

(* No callback of the node finds the server destroyed.                     *)
THEOREM NeverDangling == Spec => []NoCallbackAfterEnd
<1>1. Init => NodeFirst
  BY DEF Init, NodeFirst
<1>2. NodeFirst /\ [Next]_vars => NodeFirst'
  BY NodeFirstKeeps
<1>3. NodeFirst => NoCallbackAfterEnd
  BY DEF NodeFirst, NoCallbackAfterEnd
<1>. QED  BY <1>1, <1>2, <1>3, PTL DEF Spec

-----------------------------------------------------------------------------
(* The clients.  What their lists of steps have in common, whatever the    *)
(* number of values.                                                       *)

(* The operations begun before step i.                                     *)
Begins(i)  == C!Code[i].do \in {"start", "listen"}
BegunAt(i) == {o \in C!Ops : \E j \in DOMAIN C!Code :
                                j < i /\ Begins(j) /\ C!Code[j].op = o}

(* An operation is begun at one step only.                                 *)
BegunOnce ==
  \A i, j \in DOMAIN C!Code :
    Begins(i) /\ Begins(j) /\ C!Code[j].op = C!Code[i].op => i = j

(* What a wait waits for was begun before it, and, unless an earlier wait  *)
(* has the same flag, nothing else with that flag was.                     *)
WaitsFit ==
  \A i \in DOMAIN C!Code : C!Code[i].do = "wait" =>
    /\ C!AwaitedAt(i) \in BegunAt(i)
    /\ \A o \in BegunAt(i) : C!Flag(o) = C!Code[i].flag =>
         C!Stale(i) \/ o = C!AwaitedAt(i)

(* Every operation with a flag is waited for, unless it repeats.           *)
FlagsAwaited ==
  \A o \in C!Ops :
    \/ C!Flag(o) = "none" \/ C!Repeats(o)
    \/ \E i \in DOMAIN C!Code : C!Code[i].do = "wait" /\ C!AwaitedAt(i) = o

(* A program that may leave steps out, or starts its listeners again, has  *)
(* no wait; in the second case its operations have no flag either, and its *)
(* listeners are begun.                                                    *)
JumpsFit ==
  \A i \in DOMAIN C!Code :
    /\ C!Code[i].do \in {"connectivityChanged", "check"} =>
         \A j \in DOMAIN C!Code : C!Code[j].do # "wait"
    /\ C!Code[i].do = "connectivityChanged" =>
         \A o \in C!Ops :
           C!Flag(o) = "none" /\ (C!Repeats(o) => o \in BegunAt(i))
    /\ C!Code[i].do = "again" => i > 1 /\ C!Code[i - 1].do = "periodic"

WellFormed == BegunOnce /\ WaitsFit /\ FlagsAwaited /\ JumpsFit

(* The operation has called back, or is about to again.                    *)
Called(o) ==
  op[o] \in {"calling", "called"} \/ (C!Repeats(o) /\ op[o] = "finished")

(* Where main is in a wait, and what it has begun.                         *)
Place ==
  /\ waiting # "no" => pc \in DOMAIN C!Code /\ C!Code[pc].do = "wait"
  /\ \A o \in C!Ops : op[o] # "none" => o \in BegunAt(pc)
  /\ alive # "alive" => pc = Len(C!Code) + 1

(* A flag that is set was set by an operation, which has called back.      *)
Raised ==
  \A f \in flags : f # "none" /\ \E o \in C!Ops : C!Flag(o) = f /\ Called(o)

(* Main has passed no wait whose operation has not called back, unless the *)
(* time was up or the flag was left set.                                   *)
Passed ==
  \A i \in DOMAIN C!Code : i < pc /\ C!Code[i].do = "wait" =>
    Called(C!AwaitedAt(i)) \/ i \in expired \/ C!Stale(i)

ClientInv ==
  C!TypeOK /\ WellFormed /\ Place /\ Raised /\ Passed /\ LateOnlyIfGivenUp

LEMMA PutGetCode ==
  ASSUME program = "putget"
  PROVE  /\ DOMAIN C!Code = 1 .. 2 * Values + 2 /\ Len(C!Code) = 2 * Values + 2
         /\ \A v \in 1 .. Values :
              /\ C!Code[2 * v - 1] = C!Start(v, "node_action")
              /\ C!Code[2 * v] = C!Wait("node_action")
         /\ C!Code[2 * Values + 1] = C!Start(Values + 1, "none")
         /\ C!Code[2 * Values + 2] = C!Future(Values + 1)
<1>. DEFINE n == 2 * Values
            Puts == [i \in 1 .. n |->
                       IF i % 2 = 1 THEN C!Start((i + 1) \div 2, "node_action")
                                    ELSE C!Wait("node_action")]
            one == C!Start(Values + 1, "none")
            two == C!Future(Values + 1)
            S == {Puts[i] : i \in 1 .. n} \cup {one, two}
<1>1. C!Code = Puts \o <<one, two>>
  BY DEF C!Code, C!Steps, C!PutGet
<1>2. n \in Nat
  BY ValuesAssumption
<1>3. ASSUME NEW v \in 1 .. Values
      PROVE  /\ 2 * v - 1 \in 1 .. n /\ 2 * v \in 1 .. n
             /\ Puts[2 * v - 1] = C!Start(v, "node_action")
             /\ Puts[2 * v] = C!Wait("node_action")
  <2>1. /\ 2 * v - 1 \in 1 .. n /\ 2 * v \in 1 .. n
        /\ (2 * v - 1) % 2 = 1 /\ (2 * v) % 2 = 0
        /\ ((2 * v - 1) + 1) \div 2 = v
    BY ValuesAssumption
  <2>2. Puts[2 * v] = C!Wait("node_action")
    BY <2>1
  <2>3. Puts[2 * v - 1] = C!Start(((2 * v - 1) + 1) \div 2, "node_action")
    BY <2>1
  <2>. QED  BY <2>1, <2>2, <2>3
<1>4. Puts \in Seq(S) /\ Len(Puts) = n
  <2>1. Puts \in [1 .. n -> S]
    OBVIOUS
  <2>. HIDE DEF Puts, S
  <2>. QED  BY <1>2, <2>1
<1>. HIDE DEF Puts
<1>5. <<one, two>> \in Seq(S) /\ Len(<<one, two>>) = 2
  <2>1. one \in S /\ two \in S
    OBVIOUS
  <2>. HIDE DEF one, two, S
  <2>. QED  BY <2>1
<1>6. /\ C!Code \in Seq(S) /\ Len(C!Code) = n + 2
      /\ \A i \in 1 .. n + 2 :
           C!Code[i] = IF i <= n THEN Puts[i] ELSE <<one, two>>[i - n]
  <2>. HIDE DEF one, two, S, n
  <2>. QED  BY <1>1, <1>2, <1>4, <1>5, ConcatProperties
<1>7. DOMAIN C!Code = 1 .. n + 2
  BY <1>6, LenProperties
<1>8. C!Code[n + 1] = one /\ C!Code[n + 2] = two
  <2>. HIDE DEF one, two, S, n
  <2>1. C!Code[n + 1] = <<one, two>>[1] /\ C!Code[n + 2] = <<one, two>>[2]
    BY <1>2, <1>6
  <2>. QED  BY <2>1
<1>9. ASSUME NEW v \in 1 .. Values
      PROVE  /\ C!Code[2 * v - 1] = C!Start(v, "node_action")
             /\ C!Code[2 * v] = C!Wait("node_action")
  <2>. HIDE DEF n
  <2>1. /\ 2 * v - 1 \in 1 .. n + 2 /\ 2 * v - 1 <= n
        /\ 2 * v \in 1 .. n + 2 /\ 2 * v <= n
    BY <1>2, <1>3
  <2>2. C!Code[2 * v - 1] = Puts[2 * v - 1] /\ C!Code[2 * v] = Puts[2 * v]
    BY <1>6, <2>1
  <2>. QED  BY <1>3, <2>2
<1>. QED  BY <1>6, <1>7, <1>8, <1>9

LEMMA FlagIs ==
  ASSUME NEW i \in DOMAIN C!Code,
         \A j \in DOMAIN C!Code :
           C!Code[j].op = C!Code[i].op => C!Code[j].flag = C!Code[i].flag
  PROVE  C!Flag(C!Code[i].op) = C!Code[i].flag
<1>. DEFINE c == CHOOSE j \in DOMAIN C!Code : C!Code[j].op = C!Code[i].op
<1>1. c \in DOMAIN C!Code /\ C!Code[c].op = C!Code[i].op
  OBVIOUS
<1>2. C!Flag(C!Code[i].op) = C!Code[c].flag
  BY DEF C!Flag
<1>. HIDE DEF c
<1>. QED  BY <1>1, <1>2

(* The last step before a wait that has its flag names what it awaits.     *)
LEMMA AwaitedIs ==
  ASSUME NEW n \in Nat, DOMAIN C!Code = 1 .. n,
         NEW i \in 1 .. n, C!Code[i].op = 0,
         NEW j \in 1 .. i - 1, C!Code[j].op # 0,
         C!Code[j].flag = C!Code[i].flag,
         \A k \in j + 1 .. i - 1 :
           C!Code[k].flag # C!Code[i].flag \/ C!Code[k].op = 0
  PROVE  C!AwaitedAt(i) = C!Code[j].op
<1>. DEFINE Last(o) ==
       \E m \in 1 .. i :
         /\ C!Code[m].op = o /\ C!Code[m].flag = C!Code[i].flag
         /\ \A k \in m + 1 .. i - 1 :
              C!Code[k].flag # C!Code[i].flag \/ C!Code[k].op = 0
<1>1. C!Code[j].op \in C!Ops
  BY DEF C!Ops
<1>2. Last(C!Code[j].op)
  OBVIOUS
<1>3. ASSUME NEW o \in C!Ops, Last(o) PROVE o = C!Code[j].op
  <2>1. PICK m \in 1 .. i :
          /\ C!Code[m].op = o /\ C!Code[m].flag = C!Code[i].flag
          /\ \A k \in m + 1 .. i - 1 :
               C!Code[k].flag # C!Code[i].flag \/ C!Code[k].op = 0
    BY <1>3
  <2>2. o # 0
    BY DEF C!Ops
  <2>3. m # i
    BY <2>1, <2>2
  <2>4. ~ m < j
    BY <2>1
  <2>5. ~ j < m
    BY <2>1, <2>2, <2>3
  <2>. QED  BY <2>1, <2>4, <2>5
<1>4. C!AwaitedAt(i) = CHOOSE o \in C!Ops : Last(o)
  BY DEF C!AwaitedAt
<1>. HIDE DEF Last
<1>. QED  BY <1>1, <1>2, <1>3, <1>4

LEMMA PutGetFits ==
  ASSUME program = "putget"
  PROVE  WellFormed /\ DOMAIN C!Code = 1 .. Len(C!Code) /\ Len(C!Code) \in Nat
<1>. DEFINE n == 2 * Values + 2
            Is(i, do, o, flag) ==
              C!Code[i].do = do /\ C!Code[i].op = o /\ C!Code[i].flag = flag
<1>1. /\ DOMAIN C!Code = 1 .. n /\ Len(C!Code) = n /\ n \in Nat
      /\ \A v \in 1 .. Values : Is(2 * v - 1, "start", v, "node_action")
      /\ \A v \in 1 .. Values : Is(2 * v, "wait", 0, "node_action")
      /\ Is(n - 1, "start", Values + 1, "none")
      /\ Is(n, "future", Values + 1, "none")
  <2>1. n - 1 = 2 * Values + 1 /\ n \in Nat
    BY ValuesAssumption
  <2>2. /\ DOMAIN C!Code = 1 .. n /\ Len(C!Code) = n
        /\ C!Code[n - 1] = C!Start(Values + 1, "none")
        /\ C!Code[n] = C!Future(Values + 1)
    BY <2>1, PutGetCode
  <2>3. \A v \in 1 .. Values : /\ C!Code[2 * v - 1] = C!Start(v, "node_action")
                               /\ C!Code[2 * v] = C!Wait("node_action")
    BY PutGetCode
  <2>. HIDE DEF n
  <2>4. /\ Is(n - 1, "start", Values + 1, "none")
        /\ Is(n, "future", Values + 1, "none")
    BY <2>2 DEF C!Start, C!Future, C!Step
  <2>5. \A v \in 1 .. Values : /\ Is(2 * v - 1, "start", v, "node_action")
                               /\ Is(2 * v, "wait", 0, "node_action")
    <3>. TAKE v \in 1 .. Values
    <3>1. C!Code[2 * v - 1] = C!Start(v, "node_action")
          /\ C!Code[2 * v] = C!Wait("node_action")
      BY <2>3
    <3>2. Is(2 * v - 1, "start", v, "node_action")
      BY <3>1 DEF C!Start, C!Step
    <3>3. Is(2 * v, "wait", 0, "node_action")
      BY <3>1 DEF C!Wait, C!Step
    <3>. QED  BY <3>2, <3>3
  <2>. QED  BY <2>1, <2>2, <2>4, <2>5
<1>2. ASSUME NEW i \in 1 .. n
      PROVE  \/ \E v \in 1 .. Values :
                  \/ i = 2 * v - 1 /\ Is(i, "start", v, "node_action")
                  \/ i = 2 * v /\ Is(i, "wait", 0, "node_action")
             \/ i = n - 1 /\ Is(i, "start", Values + 1, "none")
             \/ i = n /\ Is(i, "future", Values + 1, "none")
  <2>1. CASE i <= 2 * Values
    <3>. DEFINE v == (i + 1) \div 2
    <3>1. v \in 1 .. Values /\ (i = 2 * v - 1 \/ i = 2 * v)
      BY <2>1, ValuesAssumption
    <3>. HIDE DEF v, n
    <3>2. Is(2 * v - 1, "start", v, "node_action")
          /\ Is(2 * v, "wait", 0, "node_action")
      BY <1>1, <3>1
    <3>. HIDE DEF Is
    <3>. QED  BY <3>1, <3>2
  <2>2. CASE i > 2 * Values
    <3>1. i = n - 1 \/ i = n
      BY <2>2, ValuesAssumption
    <3>. HIDE DEF n
    <3>. QED  BY <1>1, <3>1
  <2>. QED  BY <2>1, <2>2, ValuesAssumption
<1>n. /\ \A v \in 1 .. Values : /\ v \in Nat /\ v # 0 /\ v # Values + 1
                                /\ 2 * v \in 1 .. n /\ 2 * v - 1 \in 1 .. n
                                /\ 2 * v - 1 \in 1 .. 2 * v - 1
      /\ n \in 1 .. n /\ n - 1 \in 1 .. n /\ Values + 1 # 0 /\ Values \in Nat
  BY ValuesAssumption
<1>. HIDE DEF n
<1>3. ASSUME NEW i \in 1 .. n, Begins(i)
      PROVE  (C!Code[i].op = Values + 1 /\ i = n - 1)
             \/ (C!Code[i].op \in 1 .. Values /\ i = 2 * C!Code[i].op - 1)
  BY <1>2, <1>3 DEF Begins
<1>4. ASSUME NEW i \in 1 .. n, C!Code[i].do = "wait"
      PROVE  \E v \in 1 .. Values : i = 2 * v /\ C!Code[i].flag = "node_action"
  BY <1>2, <1>4
<1>5. BegunOnce
  <2>. SUFFICES ASSUME NEW i \in 1 .. n, NEW j \in 1 .. n, Begins(i), Begins(j),
                       C!Code[j].op = C!Code[i].op
                PROVE  i = j
    BY <1>1 DEF BegunOnce
  <2>. QED  BY <1>n, <1>3
<1>6. \A v \in 1 .. Values : C!AwaitedAt(2 * v) = v
  <2>. TAKE v \in 1 .. Values
  <2>1. 2 * v \in 1 .. n /\ 2 * v - 1 \in 1 .. 2 * v - 1 /\ v # 0
    BY <1>n
  <2>2. \A k \in (2 * v - 1) + 1 .. 2 * v - 1 : FALSE
    BY <1>n
  <2>. QED  BY <1>1, <2>1, <2>2, AwaitedIs
<1>7. \A v \in 1 .. Values : C!Flag(v) = "node_action"
  <2>. TAKE v \in 1 .. Values
  <2>1. 2 * v - 1 \in DOMAIN C!Code /\ C!Code[2 * v - 1].op = v
    BY <1>1, <1>n
  <2>2. ASSUME NEW j \in 1 .. n, C!Code[j].op = v
        PROVE  C!Code[j].flag = "node_action"
    BY <1>2, <1>n, <2>2
  <2>. QED  BY <1>1, <2>1, <2>2, FlagIs
<1>8. C!Flag(Values + 1) = "none"
  <2>1. n \in DOMAIN C!Code
    BY <1>1, <1>n
  <2>2. ASSUME NEW j \in 1 .. n, C!Code[j].op = Values + 1
        PROVE  C!Code[j].flag = "none"
    BY <1>2, <1>n, <2>2
  <2>. QED  BY <1>1, <2>1, <2>2, FlagIs
<1>9. C!Ops = (1 .. Values) \cup {Values + 1}
  <2>1. ASSUME NEW i \in 1 .. n
        PROVE  C!Code[i].op \in (1 .. Values) \cup {Values + 1, 0}
    BY <1>2
  <2>2. C!Ops \subseteq (1 .. Values) \cup {Values + 1}
    BY <1>1, <2>1 DEF C!Ops
  <2>3. \A v \in 1 .. Values : v \in C!Ops
    BY <1>1, <1>n DEF C!Ops
  <2>4. Values + 1 \in C!Ops
    BY <1>1, <1>n DEF C!Ops
  <2>. QED  BY <2>2, <2>3, <2>4
<1>10. WaitsFit
  <2>. SUFFICES ASSUME NEW v \in 1 .. Values
                PROVE  /\ C!AwaitedAt(2 * v) \in BegunAt(2 * v)
                       /\ \A o \in BegunAt(2 * v) :
                            C!Flag(o) = "node_action" =>
                              C!Stale(2 * v) \/ o = C!AwaitedAt(2 * v)
    <3>. SUFFICES ASSUME NEW i \in 1 .. n, C!Code[i].do = "wait"
                  PROVE  /\ C!AwaitedAt(i) \in BegunAt(i)
                         /\ \A o \in BegunAt(i) : C!Flag(o) = C!Code[i].flag =>
                              C!Stale(i) \/ o = C!AwaitedAt(i)
      BY <1>1 DEF WaitsFit
    <3>1. PICK v \in 1 .. Values : i = 2 * v /\ C!Code[i].flag = "node_action"
      BY <1>4
    <3>. QED  BY <3>1
  <2>1. /\ 2 * v - 1 \in DOMAIN C!Code /\ 2 * v - 1 < 2 * v /\ Begins(2 * v - 1)
        /\ C!Code[2 * v - 1].op = v /\ v \in C!Ops
    BY <1>1, <1>n, <1>9 DEF Begins
  <2>2. C!AwaitedAt(2 * v) \in BegunAt(2 * v)
    BY <1>6, <2>1 DEF BegunAt
  <2>3. CASE v = 1
    <3>1. ASSUME NEW o \in BegunAt(2 * v) PROVE o = 1
      <4>1. PICK j \in 1 .. n : j < 2 /\ C!Code[j].op = o
        BY <1>1, <2>3 DEF BegunAt
      <4>2. j = 2 * 1 - 1
        BY <1>1, <4>1
      <4>. QED  BY <1>1, <2>3, <4>1, <4>2
    <3>. QED  BY <1>6, <2>2, <2>3, <3>1
  <2>4. CASE v # 1
    <3>1. 1 \in 1 .. Values /\ 2 * 1 \in 1 .. 2 * v - 1
      BY <1>n, <2>4
    <3>2. C!Code[2 * 1].do = "wait" /\ C!Code[2 * 1].flag = "node_action"
          /\ C!Code[2 * v].flag = "node_action"
      BY <1>1, <3>1
    <3>3. C!Stale(2 * v)
      BY <3>1, <3>2 DEF C!Stale
    <3>. QED  BY <2>2, <3>3
  <2>. QED  BY <2>3, <2>4
<1>11. FlagsAwaited
  <2>. SUFFICES ASSUME NEW o \in 1 .. Values
                PROVE  \E i \in DOMAIN C!Code :
                         C!Code[i].do = "wait" /\ C!AwaitedAt(i) = o
    BY <1>8, <1>9 DEF FlagsAwaited
  <2>1. 2 * o \in DOMAIN C!Code
    BY <1>1, <1>n
  <2>. QED  BY <1>1, <1>6, <2>1
<1>12. JumpsFit
  <2>1. ASSUME NEW i \in 1 .. n
        PROVE  C!Code[i].do \in {"start", "wait", "future"}
    BY <1>2
  <2>. QED  BY <1>1, <2>1 DEF JumpsFit
<1>. QED  BY <1>1, <1>5, <1>10, <1>11, <1>12 DEF WellFormed

LEMMA DhtClientFits ==
  ASSUME program = "dhtclient"
  PROVE  WellFormed /\ DOMAIN C!Code = 1 .. Len(C!Code) /\ Len(C!Code) \in Nat
<1>. DEFINE Is(i, do, o, flag) ==
              C!Code[i].do = do /\ C!Code[i].op = o /\ C!Code[i].flag = flag
<1>1. /\ DOMAIN C!Code = 1 .. 6 /\ Len(C!Code) = 6
      /\ Is(1, "listen", 1, "doneListen") /\ Is(2, "start", 2, "donePut")
      /\ Is(3, "wait", 0, "donePut") /\ Is(4, "start", 3, "doneGet")
      /\ Is(5, "wait", 0, "doneGet") /\ Is(6, "wait", 0, "doneListen")
      /\ C!Code[1] = C!Listen(1, "doneListen")
  <2>1. C!Code = <<C!Listen(1, "doneListen"), C!Start(2, "donePut"),
                   C!Wait("donePut"), C!Start(3, "doneGet"), C!Wait("doneGet"),
                   C!Wait("doneListen")>>
    BY DEF C!Code, C!Steps, C!DhtClient
  <2>. QED  BY <2>1 DEF C!Listen, C!Start, C!Wait, C!Step
<1>2. \A i \in 1 .. 6 : i \in {1, 2, 3, 4, 5, 6}
  OBVIOUS
<1>3. C!Ops = {1, 2, 3}
  BY <1>1, <1>2 DEF C!Ops
<1>4. BegunOnce
  BY <1>1, <1>2 DEF BegunOnce, Begins
<1>5. C!AwaitedAt(3) = 2 /\ C!AwaitedAt(5) = 3 /\ C!AwaitedAt(6) = 1
  <2>1. C!AwaitedAt(3) = C!Code[2].op
    BY <1>1, AwaitedIs
  <2>2. C!AwaitedAt(5) = C!Code[4].op
    BY <1>1, AwaitedIs
  <2>3. \A k \in 1 + 1 .. 6 - 1 : C!Code[k].flag # C!Code[6].flag
    BY <1>1, <1>2
  <2>4. C!AwaitedAt(6) = C!Code[1].op
    BY <1>1, <2>3, AwaitedIs
  <2>. QED  BY <1>1, <2>1, <2>2, <2>4
<1>6. /\ C!Flag(1) = "doneListen" /\ C!Flag(2) = "donePut"
      /\ C!Flag(3) = "doneGet"
  <2>1. C!Flag(C!Code[1].op) = C!Code[1].flag
    BY <1>1, <1>2, FlagIs
  <2>2. C!Flag(C!Code[2].op) = C!Code[2].flag
    BY <1>1, <1>2, FlagIs
  <2>3. C!Flag(C!Code[4].op) = C!Code[4].flag
    BY <1>1, <1>2, FlagIs
  <2>. QED  BY <1>1, <2>1, <2>2, <2>3
<1>7. WaitsFit
  <2>1. 2 \in BegunAt(3) /\ 3 \in BegunAt(5) /\ 1 \in BegunAt(6)
    BY <1>1, <1>3 DEF BegunAt, Begins
  <2>2. \A o \in C!Ops : /\ C!Flag(o) = "donePut" => o = 2
                         /\ C!Flag(o) = "doneGet" => o = 3
                         /\ C!Flag(o) = "doneListen" => o = 1
    BY <1>3, <1>6
  <2>3. \A i \in 1 .. 6 : C!Code[i].do = "wait" => i \in {3, 5, 6}
    BY <1>1, <1>2
  <2>4. \A i : BegunAt(i) \subseteq C!Ops
    BY DEF BegunAt
  <2>. QED  BY <1>1, <1>5, <2>1, <2>2, <2>3, <2>4 DEF WaitsFit
<1>8. FlagsAwaited
  BY <1>1, <1>3, <1>5 DEF FlagsAwaited
<1>9. JumpsFit
  BY <1>1, <1>2 DEF JumpsFit
<1>. QED  BY <1>1, <1>4, <1>7, <1>8, <1>9 DEF WellFormed

(* The other programs wait for no flag.                                    *)
LEMMA OthersFit ==
  ASSUME program \in {"dhtclient_async", "future_get", "namedir"}
  PROVE  WellFormed /\ DOMAIN C!Code = 1 .. Len(C!Code) /\ Len(C!Code) \in Nat
<1>. DEFINE Is(i, do, o) ==
              C!Code[i].do = do /\ C!Code[i].op = o /\ C!Code[i].flag = "none"
<1>1. CASE program = "dhtclient_async"
  <2>1. /\ DOMAIN C!Code = 1 .. 7 /\ Len(C!Code) = 7
        /\ Is(1, "check", 0) /\ Is(2, "listen", 1) /\ Is(3, "start", 2)
        /\ Is(4, "start", 3) /\ Is(5, "start", 4) /\ Is(6, "periodic", 0)
        /\ Is(7, "connectivityChanged", 0)
    <3>1. C!Code = <<C!Plain("check"), C!Listen(1, "none"), C!Start(2, "none"),
                     C!Start(3, "none"), C!Start(4, "none"),
                     C!Plain("periodic"), C!Plain("connectivityChanged")>>
      BY <1>1 DEF C!Code, C!Steps, C!DhtClientAsync
    <3>. QED  BY <3>1 DEF C!Plain, C!Listen, C!Start, C!Step
  <2>2. \A i \in 1 .. 7 : i \in {1, 2, 3, 4, 5, 6, 7}
    OBVIOUS
  <2>3. C!Ops = {1, 2, 3, 4}
    BY <2>1, <2>2 DEF C!Ops
  <2>4. ASSUME NEW o \in C!Ops PROVE C!Flag(o) = "none"
    <3>1. PICK i \in 1 .. 7 : C!Code[i].op = o
      BY <2>1, <2>4 DEF C!Ops
    <3>2. \A j \in 1 .. 7 : C!Code[j].flag = "none"
      BY <2>1, <2>2
    <3>. QED  BY <2>1, <3>1, <3>2, FlagIs
  <2>5. ASSUME NEW o \in C!Ops, C!Repeats(o) PROVE o \in BegunAt(7)
    <3>1. PICK i \in 1 .. 7 : C!Code[i].do = "listen" /\ C!Code[i].op = o
      BY <2>1, <2>5 DEF C!Repeats, C!Listen, C!Step
    <3>2. i < 7
      BY <2>1, <3>1
    <3>. QED  BY <2>1, <3>1, <3>2 DEF BegunAt, Begins
  <2>6. \A i \in 1 .. 7 : /\ C!Code[i].do \notin {"wait", "again"}
                          /\ C!Code[i].do = "connectivityChanged" => i = 7
    BY <2>1, <2>2
  <2>7. BegunOnce
    BY <2>1, <2>2 DEF BegunOnce, Begins
  <2>8. WaitsFit /\ FlagsAwaited /\ JumpsFit
    BY <2>1, <2>4, <2>5, <2>6 DEF WaitsFit, FlagsAwaited, JumpsFit
  <2>. QED  BY <2>1, <2>7, <2>8 DEF WellFormed
<1>2. CASE program = "future_get"
  <2>1. /\ DOMAIN C!Code = 1 .. 5 /\ Len(C!Code) = 5
        /\ Is(1, "check", 0) /\ Is(2, "start", 1) /\ Is(3, "start", 2)
        /\ Is(4, "periodic", 0) /\ Is(5, "again", 0)
    <3>1. C!Code = <<C!Plain("check"), C!Start(1, "none"), C!Start(2, "none"),
                     C!Plain("periodic"), C!Plain("again")>>
      BY <1>2 DEF C!Code, C!Steps, C!FutureGet
    <3>. QED  BY <3>1 DEF C!Plain, C!Start, C!Step
  <2>2. \A i \in 1 .. 5 : i \in {1, 2, 3, 4, 5}
    OBVIOUS
  <2>3. ASSUME NEW o \in C!Ops PROVE C!Flag(o) = "none"
    <3>1. PICK i \in 1 .. 5 : C!Code[i].op = o
      BY <2>1, <2>3 DEF C!Ops
    <3>2. \A j \in 1 .. 5 : C!Code[j].flag = "none"
      BY <2>1, <2>2
    <3>. QED  BY <2>1, <3>1, <3>2, FlagIs
  <2>4. \A i \in 1 .. 5 : /\ C!Code[i].do \notin {"wait", "connectivityChanged"}
                          /\ C!Code[i].do = "again" => i = 5
    BY <2>1, <2>2
  <2>5. BegunOnce
    BY <2>1, <2>2 DEF BegunOnce, Begins
  <2>6. WaitsFit /\ FlagsAwaited /\ JumpsFit
    BY <2>1, <2>3, <2>4 DEF WaitsFit, FlagsAwaited, JumpsFit
  <2>. QED  BY <2>1, <2>5, <2>6 DEF WellFormed
<1>3. CASE program = "namedir"
  <2>1. /\ DOMAIN C!Code = 1 .. 7 /\ Len(C!Code) = 7
        /\ Is(1, "check", 0) /\ Is(2, "check", 0) /\ Is(3, "check", 0)
        /\ Is(4, "start", 1) /\ Is(5, "start", 2) /\ Is(6, "start", 3)
        /\ Is(7, "forever", 0)
    <3>1. C!Code = <<C!Plain("check"), C!Plain("check"), C!Plain("check"),
                     C!Start(1, "none"), C!Start(2, "none"), C!Start(3, "none"),
                     C!Plain("forever")>>
      BY <1>3 DEF C!Code, C!Steps, C!NameDir
    <3>. QED  BY <3>1 DEF C!Plain, C!Start, C!Step
  <2>2. \A i \in 1 .. 7 : i \in {1, 2, 3, 4, 5, 6, 7}
    OBVIOUS
  <2>3. ASSUME NEW o \in C!Ops PROVE C!Flag(o) = "none"
    <3>1. PICK i \in 1 .. 7 : C!Code[i].op = o
      BY <2>1, <2>3 DEF C!Ops
    <3>2. \A j \in 1 .. 7 : C!Code[j].flag = "none"
      BY <2>1, <2>2
    <3>. QED  BY <2>1, <3>1, <3>2, FlagIs
  <2>4. \A i \in 1 .. 7 :
          C!Code[i].do \notin {"wait", "connectivityChanged", "again"}
    BY <2>1, <2>2
  <2>5. BegunOnce
    BY <2>1, <2>2 DEF BegunOnce, Begins
  <2>6. WaitsFit /\ FlagsAwaited /\ JumpsFit
    BY <2>1, <2>3, <2>4 DEF WaitsFit, FlagsAwaited, JumpsFit
  <2>. QED  BY <2>1, <2>5, <2>6 DEF WellFormed
<1>. QED  BY <1>1, <1>2, <1>3

LEMMA ProgramsFit ==
  ASSUME program \in DOMAIN C!Steps
  PROVE  WellFormed /\ DOMAIN C!Code = 1 .. Len(C!Code) /\ Len(C!Code) \in Nat
<1>1. program \in {"putget", "dhtclient", "dhtclient_async", "future_get",
                   "namedir"}
  BY DEF C!Steps
<1>. QED  BY <1>1, PutGetFits, DhtClientFits, OthersFit

-----------------------------------------------------------------------------
(* The list of steps does not change, nor what is read off it.             *)
LEMMA SameCode ==
  ASSUME program' = program
  PROVE  /\ C!Code' = C!Code /\ C!Ops' = C!Ops
         /\ \A i : /\ C!AwaitedAt(i)' = C!AwaitedAt(i)
                   /\ C!Stale(i)' <=> C!Stale(i)
                   /\ BegunAt(i)' = BegunAt(i)
         /\ \A o : /\ C!Flag(o)' = C!Flag(o)
                   /\ C!Repeats(o)' <=> C!Repeats(o)
<1>1. C!Code' = C!Code
  BY DEF C!Code
<1>2. C!Ops' = C!Ops
  BY <1>1 DEF C!Ops
<1>. DEFINE Awaited(code, ops, i) ==
              CHOOSE o \in ops :
                \E j \in 1 .. i :
                  /\ code[j].op = o /\ code[j].flag = code[i].flag
                  /\ \A k \in j + 1 .. i - 1 :
                       code[k].flag # code[i].flag \/ code[k].op = 0
            FlagOf(code, o) ==
              LET i == CHOOSE i \in DOMAIN code : code[i].op = o
              IN  code[i].flag
<1>3. \A i : C!AwaitedAt(i)' = C!AwaitedAt(i)
  <2>1. \A i : /\ C!AwaitedAt(i) = Awaited(C!Code, C!Ops, i)
               /\ C!AwaitedAt(i)' = Awaited(C!Code', C!Ops', i)
    BY DEF C!AwaitedAt
  <2>. HIDE DEF Awaited
  <2>. QED  BY <1>1, <1>2, <2>1
<1>4. \A o : C!Flag(o)' = C!Flag(o)
  <2>1. \A o : /\ C!Flag(o) = FlagOf(C!Code, o)
               /\ C!Flag(o)' = FlagOf(C!Code', o)
    BY DEF C!Flag
  <2>. HIDE DEF FlagOf
  <2>. QED  BY <1>1, <2>1
<1>5. \A i : C!Stale(i)' <=> C!Stale(i)
  BY <1>1 DEF C!Stale
<1>6. \A i : BegunAt(i)' = BegunAt(i)
  BY <1>1, <1>2 DEF BegunAt, Begins
<1>7. \A o : C!Repeats(o)' <=> C!Repeats(o)
  BY <1>1, <1>4 DEF C!Repeats, C!Listen, C!Step
<1>. QED  BY <1>1, <1>2, <1>3, <1>4, <1>5, <1>6, <1>7

LEMMA WellFormedKept ==
  ASSUME program' = program, WellFormed
  PROVE  WellFormed'
<1>1. BegunOnce'
  BY SameCode DEF WellFormed, BegunOnce, Begins
<1>2. WaitsFit'
  BY SameCode DEF WellFormed, WaitsFit
<1>3. FlagsAwaited'
  BY SameCode DEF WellFormed, FlagsAwaited
<1>4. JumpsFit'
  BY SameCode DEF WellFormed, JumpsFit
<1>. QED  BY <1>1, <1>2, <1>3, <1>4 DEF WellFormed

(* Whether it has called back matters for an operation that has a flag, or *)
(* that main waits for.                                                    *)
Watched(o) ==
  \/ C!Flag(o) # "none"
  \/ \E i \in DOMAIN C!Code : C!Code[i].do = "wait" /\ C!AwaitedAt(i) = o

(* A step that sets no flag keeps the invariant if what has called back    *)
(* stays so, and if main passes a wait only as it may.                     *)
LEMMA NoFlagSet ==
  ASSUME ClientInv, program' = program, onThread' = onThread,
         flags' = flags, late' = late,
         pc' \in 1 .. Len(C!Code) + 1,
         waiting' \in {"no", "tested", "asleep"},
         op' \in [C!Ops -> {"none", "started", "finished", "calling", "called"}],
         expired \subseteq expired', expired' \subseteq DOMAIN C!Code,
         alive' \in {"alive", "locals destroyed", "stopping", "ended"},
         waiting' # "no" => pc' \in DOMAIN C!Code /\ C!Code[pc'].do = "wait",
         \A o \in C!Ops : op'[o] # "none" => o \in BegunAt(pc'),
         alive' # "alive" => pc' = Len(C!Code) + 1,
         \A o \in C!Ops : Watched(o) /\ Called(o) => Called(o)',
         \A i \in DOMAIN C!Code :
           C!Code[i].do = "wait" /\ i < pc' /\ ~ i < pc =>
             Called(C!AwaitedAt(i)) \/ i \in expired' \/ C!Stale(i)
  PROVE  ClientInv'
<1>1. C!TypeOK'
  BY SameCode DEF ClientInv, C!TypeOK
<1>2. Place'
  BY SameCode DEF Place
<1>3. Raised'
  BY SameCode DEF ClientInv, Raised, Watched
<1>4. Passed'
  <2>. SUFFICES ASSUME NEW i \in DOMAIN C!Code, i < pc', C!Code[i].do = "wait"
                PROVE  Called(C!AwaitedAt(i))' \/ i \in expired' \/ C!Stale(i)
    BY SameCode DEF Passed
  <2>1. C!AwaitedAt(i) \in C!Ops /\ Watched(C!AwaitedAt(i))
    BY DEF ClientInv, WellFormed, WaitsFit, BegunAt, Watched
  <2>2. Called(C!AwaitedAt(i)) \/ i \in expired' \/ C!Stale(i)
    BY DEF ClientInv, Passed
  <2>3. C!AwaitedAt(i)' = C!AwaitedAt(i)
    BY SameCode
  <2>4. Called(C!AwaitedAt(i)) => Called(C!AwaitedAt(i))'
    BY <2>1, <2>3
  <2>. QED  BY <2>2, <2>4
<1>5. LateOnlyIfGivenUp'
  BY SameCode DEF ClientInv, LateOnlyIfGivenUp, C!LateOnlyIfGivenUp
<1>. QED  BY <1>1, <1>2, <1>3, <1>4, <1>5, WellFormedKept DEF ClientInv

LEMMA ClientInit ==
  ASSUME C!Init
  PROVE  ClientInv
<1>1. WellFormed /\ DOMAIN C!Code = 1 .. Len(C!Code) /\ Len(C!Code) \in Nat
  BY ProgramsFit DEF C!Init
<1>2. C!TypeOK
  <2>1. onThread \in BOOLEAN
    BY DEF C!Init
  <2>2. op \in [C!Ops -> {"none", "started", "finished", "calling", "called"}]
    BY DEF C!Init
  <2>. QED  BY <1>1, <2>1, <2>2 DEF C!Init, C!TypeOK
<1>3. Place /\ Raised
  BY DEF C!Init, Place, Raised
<1>4. Passed
  BY <1>1 DEF C!Init, Passed
<1>5. LateOnlyIfGivenUp
  BY DEF C!Init, LateOnlyIfGivenUp, C!LateOnlyIfGivenUp
<1>. QED  BY <1>1, <1>2, <1>3, <1>4, <1>5 DEF ClientInv

(* Main's own steps.                                                       *)
LEMMA MainStep ==
  ASSUME ClientInv, C!Main
  PROVE  ClientInv'
<1>1. /\ WellFormed /\ C!TypeOK /\ Place /\ Raised /\ Passed
      /\ Len(C!Code) \in Nat /\ DOMAIN C!Code = 1 .. Len(C!Code)
      /\ pc \in 1 .. Len(C!Code) + 1
  BY ProgramsFit DEF ClientInv, C!TypeOK
<1>2. ASSUME NEW i \in Int, NEW j \in Int, i <= j
      PROVE  BegunAt(i) \subseteq BegunAt(j)
  BY <1>1, <1>2 DEF BegunAt
<1>3. ASSUME NEW o \in C!Ops, program' = program, op' = op
      PROVE  Called(o) => Called(o)'
  BY <1>3, SameCode DEF Called
<1>4. CASE C!Begin
  <2>. DEFINE b == C!Code[pc].op
  <2>1. /\ alive = "alive" /\ pc \in DOMAIN C!Code /\ Begins(pc)
        /\ op' = [op EXCEPT ![b] = "started"] /\ pc' = pc + 1
        /\ UNCHANGED <<program, onThread, waiting, flags, expired, alive, late>>
    BY <1>4 DEF C!Begin, C!At, Begins
  <2>2. waiting = "no"
    BY <1>1, <2>1 DEF Place, Begins
  <2>3. b \in C!Ops => op[b] = "none"
    BY <1>1, <2>1 DEF Place, WellFormed, BegunOnce, BegunAt
  <2>4. ASSUME NEW o \in C!Ops, op'[o] # "none" PROVE o \in BegunAt(pc + 1)
    <3>1. CASE o = b
      BY <1>1, <2>1, <3>1 DEF BegunAt
    <3>2. CASE o # b
      <4>1. op[o] # "none"
        BY <1>1, <2>1, <2>4, <3>2 DEF C!TypeOK
      <4>2. BegunAt(pc) \subseteq BegunAt(pc + 1)
        BY <1>1, <1>2
      <4>. QED  BY <1>1, <4>1, <4>2 DEF Place
    <3>. QED  BY <3>1, <3>2
  <2>5. ASSUME NEW o \in C!Ops, Called(o) PROVE Called(o)'
    <3>1. o # b
      BY <2>3, <2>5 DEF Called
    <3>2. op'[o] = op[o]
      BY <1>1, <2>1, <3>1 DEF C!TypeOK
    <3>. QED  BY <2>1, <2>5, <3>2, SameCode DEF Called
  <2>6. op' \in [C!Ops -> {"none", "started", "finished", "calling", "called"}]
    BY <1>1, <2>1 DEF C!TypeOK
  <2>7. \A i \in DOMAIN C!Code : i < pc' /\ ~ i < pc => i = pc
    BY <1>1, <2>1
  <2>8. C!Code[pc].do # "wait" /\ pc' \in 1 .. Len(C!Code) + 1
    BY <1>1, <2>1 DEF Begins
  <2>. QED
    BY <1>1, <2>1, <2>2, <2>4, <2>5, <2>6, <2>7, <2>8, NoFlagSet DEF C!TypeOK
<1>5. CASE C!TestFlag
  <2>1. /\ alive = "alive" /\ pc \in DOMAIN C!Code /\ C!Code[pc].do = "wait"
        /\ UNCHANGED <<program, onThread, flags, op, alive, late, expired>>
        /\ \/ C!Code[pc].flag \in flags /\ pc' = pc + 1 /\ waiting' = "no"
           \/ pc' = pc /\ waiting' = "tested"
    BY <1>5 DEF C!TestFlag, C!At, C!FallAsleep
  <2>2. ASSUME NEW i \in DOMAIN C!Code, C!Code[i].do = "wait", i < pc', ~ i < pc
        PROVE  Called(C!AwaitedAt(i)) \/ C!Stale(i)
    <3>1. i = pc /\ C!Code[pc].flag \in flags
      BY <1>1, <2>1, <2>2
    <3>2. PICK o \in C!Ops : C!Flag(o) = C!Code[pc].flag /\ Called(o)
      BY <1>1, <3>1 DEF Raised
    <3>3. o \in BegunAt(pc)
      BY <1>1, <3>2 DEF Place, Called
    <3>. QED  BY <1>1, <2>2, <3>1, <3>2, <3>3 DEF WellFormed, WaitsFit
  <2>3. \A o \in C!Ops : op'[o] # "none" => o \in BegunAt(pc')
    <3>1. BegunAt(pc) \subseteq BegunAt(pc')
      BY <1>1, <1>2, <2>1
    <3>. QED  BY <1>1, <2>1, <3>1 DEF Place
  <2>4. pc' \in 1 .. Len(C!Code) + 1
        /\ (waiting' # "no" => pc' = pc)
    BY <1>1, <2>1
  <2>. QED  BY <1>1, <1>3, <2>1, <2>2, <2>3, <2>4, NoFlagSet DEF C!TypeOK
<1>6. CASE C!Sleep
  <2>1. /\ waiting = "tested" /\ waiting' = "asleep"
        /\ UNCHANGED <<program, onThread, pc, flags, op, expired, alive, late>>
    BY <1>6 DEF C!Sleep
  <2>. QED  BY <1>1, <1>3, <2>1, NoFlagSet DEF C!TypeOK, Place
<1>7. CASE C!TimeOut
  <2>1. /\ waiting = "asleep" /\ waiting' = "no" /\ pc' = pc + 1
        /\ expired' = IF C!Code[pc].flag \in flags THEN expired
                                                  ELSE expired \cup {pc}
        /\ UNCHANGED <<program, onThread, flags, op, alive, late>>
    BY <1>7 DEF C!TimeOut, C!After
  <2>2. pc \in DOMAIN C!Code /\ C!Code[pc].do = "wait"
    BY <1>1, <2>1 DEF Place
  <2>3. ASSUME NEW i \in DOMAIN C!Code, C!Code[i].do = "wait", i < pc', ~ i < pc
        PROVE  Called(C!AwaitedAt(i)) \/ i \in expired' \/ C!Stale(i)
    <3>1. i = pc
      BY <1>1, <2>1, <2>3
    <3>2. CASE C!Code[pc].flag \in flags
      <4>1. PICK o \in C!Ops : C!Flag(o) = C!Code[pc].flag /\ Called(o)
        BY <1>1, <3>2 DEF Raised
      <4>2. o \in BegunAt(pc)
        BY <1>1, <4>1 DEF Place, Called
      <4>. QED  BY <1>1, <2>3, <3>1, <4>1, <4>2 DEF WellFormed, WaitsFit
    <3>3. CASE C!Code[pc].flag \notin flags
      BY <2>1, <3>1, <3>3
    <3>. QED  BY <3>2, <3>3
  <2>4. \A o \in C!Ops : op'[o] # "none" => o \in BegunAt(pc')
    <3>1. BegunAt(pc) \subseteq BegunAt(pc')
      BY <1>1, <1>2, <2>1
    <3>. QED  BY <1>1, <2>1, <3>1 DEF Place
  <2>5. pc' \in 1 .. Len(C!Code) + 1 /\ alive = "alive"
    BY <1>1, <2>1, <2>2 DEF Place
  <2>6. expired \subseteq expired' /\ expired' \subseteq DOMAIN C!Code
    BY <1>1, <2>1, <2>2 DEF C!TypeOK
  <2>. QED
    BY <1>1, <1>3, <2>1, <2>3, <2>4, <2>5, <2>6, NoFlagSet DEF C!TypeOK
<1>8. CASE C!TakeFuture \/ C!Periodic
  <2>1. /\ alive = "alive" /\ pc \in DOMAIN C!Code /\ C!Code[pc].do # "wait"
        /\ pc' = pc + 1
        /\ UNCHANGED <<program, onThread, waiting, flags, expired, alive, late>>
    BY <1>8 DEF C!TakeFuture, C!Periodic, C!At
  <2>2. /\ op' \in [C!Ops -> {"none", "started", "finished", "calling", "called"}]
        /\ \A o \in C!Ops :
             op'[o] = op[o] \/ (op[o] = "finished" /\ op'[o] = "called")
    <3>1. CASE C!TakeFuture
      BY <1>1, <3>1 DEF C!TakeFuture, C!TypeOK
    <3>2. CASE C!Periodic
      <4>. DEFINE called(o) == ~onThread /\ op[o] = "finished"
      <4>1. op' = [o \in C!Ops |-> IF called(o) THEN "called" ELSE op[o]]
        BY <3>2 DEF C!Periodic
      <4>2. \A o : called(o) => op[o] = "finished"
        OBVIOUS
      <4>. HIDE DEF called
      <4>. QED  BY <1>1, <4>1, <4>2 DEF C!TypeOK
    <3>. QED  BY <1>8, <3>1, <3>2
  <2>3. \A o \in C!Ops : Called(o) => Called(o)'
    BY <2>1, <2>2, SameCode DEF Called
  <2>4. \A o \in C!Ops : op'[o] # "none" => o \in BegunAt(pc')
    <3>1. BegunAt(pc) \subseteq BegunAt(pc')
      BY <1>1, <1>2, <2>1
    <3>. QED  BY <1>1, <2>2, <3>1 DEF Place
  <2>5. /\ waiting = "no" /\ pc' \in 1 .. Len(C!Code) + 1
        /\ \A i \in DOMAIN C!Code : i < pc' /\ ~ i < pc => i = pc
    BY <1>1, <2>1 DEF Place
  <2>. QED  BY <1>1, <2>1, <2>2, <2>3, <2>4, <2>5, NoFlagSet DEF C!TypeOK
<1>9. CASE C!RestartListeners
  <2>1. /\ alive = "alive" /\ pc \in DOMAIN C!Code /\ pc' = pc + 1
        /\ C!Code[pc].do = "connectivityChanged"
        /\ UNCHANGED <<program, onThread, waiting, flags, expired, alive, late>>
        /\ op' = [o \in C!Ops |-> IF C!Repeats(o) /\ op[o] # "calling"
                                  THEN "started" ELSE op[o]]
    BY <1>9 DEF C!RestartListeners, C!At
  <2>2. /\ \A j \in DOMAIN C!Code : C!Code[j].do # "wait"
        /\ \A o \in C!Ops : C!Flag(o) = "none" /\ (C!Repeats(o) => o \in BegunAt(pc))
    BY <1>1, <2>1 DEF WellFormed, JumpsFit
  <2>3. \A o \in C!Ops : ~Watched(o)
    BY <2>2 DEF Watched
  <2>4. op' \in [C!Ops -> {"none", "started", "finished", "calling", "called"}]
    BY <1>1, <2>1 DEF C!TypeOK
  <2>5. \A o \in C!Ops : op'[o] # "none" => o \in BegunAt(pc')
    <3>1. BegunAt(pc) \subseteq BegunAt(pc')
      BY <1>1, <1>2, <2>1
    <3>. QED  BY <1>1, <2>1, <2>2, <3>1 DEF Place
  <2>6. waiting = "no" /\ pc' \in 1 .. Len(C!Code) + 1
    BY <1>1, <2>1, <2>2 DEF Place
  <2>. QED  BY <1>1, <2>1, <2>2, <2>3, <2>4, <2>5, <2>6, NoFlagSet DEF C!TypeOK
<1>10. CASE C!Again
  <2>1. /\ alive = "alive" /\ pc \in DOMAIN C!Code /\ pc' = pc - 1
        /\ C!Code[pc].do = "again"
        /\ UNCHANGED <<program, onThread, waiting, flags, op, expired, alive,
                       late>>
    BY <1>10 DEF C!Again, C!At
  <2>2. pc > 1 /\ C!Code[pc - 1].do = "periodic"
    BY <1>1, <2>1 DEF WellFormed, JumpsFit
  <2>3. BegunAt(pc) \subseteq BegunAt(pc - 1)
    BY <1>1, <2>2 DEF BegunAt, Begins
  <2>4. waiting = "no" /\ pc' \in 1 .. Len(C!Code) + 1
        /\ \A i \in DOMAIN C!Code : i < pc' => i < pc
    BY <1>1, <2>1, <2>2 DEF Place
  <2>5. \A o \in C!Ops : op'[o] # "none" => o \in BegunAt(pc')
    BY <1>1, <2>1, <2>3 DEF Place
  <2>. QED  BY <1>1, <1>3, <2>1, <2>4, <2>5, NoFlagSet DEF C!TypeOK
<1>11. CASE C!Check
  <2>1. /\ alive = "alive" /\ pc \in DOMAIN C!Code /\ C!Code[pc].do = "check"
        /\ pc' \in {pc + 1, Len(C!Code) + 1}
        /\ UNCHANGED <<program, onThread, waiting, flags, op, expired, alive,
                       late>>
    BY <1>11 DEF C!Check, C!At
  <2>2. \A j \in DOMAIN C!Code : C!Code[j].do # "wait"
    BY <1>1, <2>1 DEF WellFormed, JumpsFit
  <2>3. \A o \in C!Ops : op'[o] # "none" => o \in BegunAt(pc')
    <3>1. pc \in Int /\ pc' \in Int /\ pc <= pc'
      BY <1>1, <2>1
    <3>2. BegunAt(pc) \subseteq BegunAt(pc')
      BY <1>2, <3>1
    <3>. QED  BY <1>1, <2>1, <3>2 DEF Place
  <2>4. waiting = "no" /\ pc' \in 1 .. Len(C!Code) + 1
    BY <1>1, <2>1 DEF Place
  <2>. QED  BY <1>1, <1>3, <2>1, <2>2, <2>3, <2>4, NoFlagSet DEF C!TypeOK
<1>12. CASE C!Return
  <2>1. /\ UNCHANGED <<program, onThread, pc, waiting, flags, op, expired, late>>
        /\ alive' \in {"locals destroyed", "stopping", "ended"}
        /\ alive = "alive" => pc = Len(C!Code) + 1
    BY <1>12 DEF C!Return
  <2>. QED  BY <1>1, <1>3, <2>1, NoFlagSet DEF C!TypeOK, Place
<1>. QED  BY <1>4, <1>5, <1>6, <1>7, <1>8, <1>9, <1>10, <1>11, <1>12 DEF C!Main

(* A callback writes to a flag that is gone only after main has passed its *)
(* wait.                                                                   *)
LEMMA LibraryStep ==
  ASSUME ClientInv, NEW o \in C!Ops, C!Library(o)
  PROVE  ClientInv'
<1>1. /\ WellFormed /\ C!TypeOK /\ Place /\ Raised /\ Passed
      /\ Len(C!Code) \in Nat /\ DOMAIN C!Code = 1 .. Len(C!Code)
      /\ pc \in 1 .. Len(C!Code) + 1
  BY ProgramsFit DEF ClientInv, C!TypeOK
<1>2. CASE C!Finish(o)
  <2>1. /\ op[o] = "started" \/ (C!Repeats(o) /\ op[o] = "called")
        /\ op' = [op EXCEPT ![o] = "finished"]
        /\ UNCHANGED <<program, onThread, pc, waiting, flags, expired, alive,
                       late>>
    BY <1>2 DEF C!Finish
  <2>2. \A p \in C!Ops : op'[p] = IF p = o THEN "finished" ELSE op[p]
    BY <1>1, <2>1 DEF C!TypeOK
  <2>3. \A p \in C!Ops : Called(p) => Called(p)'
    BY <2>1, <2>2, SameCode DEF Called
  <2>4. op' \in [C!Ops -> {"none", "started", "finished", "calling", "called"}]
    BY <1>1, <2>1 DEF C!TypeOK
  <2>. QED  BY <1>1, <2>1, <2>2, <2>3, <2>4, NoFlagSet DEF C!TypeOK, Place
<1>3. CASE C!CallbackNotifies(o)
  <2>1. /\ op[o] = "calling" /\ op' = [op EXCEPT ![o] = "called"]
        /\ waiting' \in {waiting, "no"}
        /\ UNCHANGED <<program, onThread, pc, flags, expired, alive, late>>
    BY <1>3 DEF C!CallbackNotifies
  <2>2. \A p \in C!Ops : op'[p] = IF p = o THEN "called" ELSE op[p]
    BY <1>1, <2>1 DEF C!TypeOK
  <2>3. \A p \in C!Ops : Called(p) => Called(p)'
    BY <2>1, <2>2, SameCode DEF Called
  <2>4. op' \in [C!Ops -> {"none", "started", "finished", "calling", "called"}]
    BY <1>1, <2>1 DEF C!TypeOK
  <2>. QED  BY <1>1, <2>1, <2>2, <2>3, <2>4, NoFlagSet DEF C!TypeOK, Place
<1>4. CASE C!CallbackSets(o)
  <2>1. /\ op[o] = "finished" /\ op' = [op EXCEPT ![o] = "calling"]
        /\ flags' = flags \cup ({C!Flag(o)} \ {"none"})
        /\ late' = IF alive # "alive" /\ C!Flag(o) # "none" THEN late \cup {o}
                                                           ELSE late
        /\ UNCHANGED <<program, onThread, pc, waiting, expired, alive>>
    BY <1>4 DEF C!CallbackSets
  <2>2. /\ op' \in [C!Ops -> {"none", "started", "finished", "calling", "called"}]
        /\ \A p \in C!Ops : op'[p] = IF p = o THEN "calling" ELSE op[p]
    BY <1>1, <2>1 DEF C!TypeOK
  <2>3. Called(o)' /\ \A p \in C!Ops : Called(p) => Called(p)'
    BY <2>1, <2>2, SameCode DEF Called
  <2>4. C!TypeOK'
    <3>1. flags' \subseteq {C!Flag(p) : p \in C!Ops} /\ late' \subseteq C!Ops
      BY <1>1, <2>1 DEF C!TypeOK
    <3>2. {C!Flag(p) : p \in C!Ops}' = {C!Flag(p) : p \in C!Ops}
      BY <2>1, SameCode
    <3>3. onThread' \in BOOLEAN
      BY <1>1, <2>1 DEF C!TypeOK
    <3>. QED
      BY <1>1, <2>1, <2>2, <3>1, <3>2, <3>3, SameCode DEF C!TypeOK
  <2>5. Place'
    BY <1>1, <2>1, <2>2, SameCode DEF Place
  <2>6. Raised'
    BY <1>1, <2>1, <2>3, SameCode DEF Raised
  <2>7. Passed'
    <3>. SUFFICES ASSUME NEW i \in DOMAIN C!Code, i < pc, C!Code[i].do = "wait"
                  PROVE  Called(C!AwaitedAt(i))' \/ i \in expired \/ C!Stale(i)
      BY <2>1, SameCode DEF Passed
    <3>1. C!AwaitedAt(i) \in C!Ops
      BY <1>1 DEF WellFormed, WaitsFit, BegunAt
    <3>2. C!AwaitedAt(i)' = C!AwaitedAt(i)
      BY <2>1, SameCode
    <3>3. Called(C!AwaitedAt(i)) => Called(C!AwaitedAt(i))'
      BY <2>3, <3>1, <3>2
    <3>. QED  BY <1>1, <3>3 DEF Passed
  <2>8. ASSUME alive # "alive", C!Flag(o) # "none"
        PROVE  \/ C!Repeats(o)
               \/ \E i \in DOMAIN C!Code :
                    /\ C!Code[i].do = "wait" /\ C!AwaitedAt(i) = o
                    /\ i \in expired \/ C!Stale(i)
    <3>1. SUFFICES ASSUME NEW i \in DOMAIN C!Code, C!Code[i].do = "wait",
                          C!AwaitedAt(i) = o, ~C!Repeats(o)
                   PROVE  i \in expired \/ C!Stale(i)
      BY <1>1, <2>8 DEF WellFormed, FlagsAwaited
    <3>2. i < pc
      BY <1>1, <2>8, <3>1 DEF Place
    <3>3. ~Called(o)
      BY <2>1, <3>1 DEF Called
    <3>. QED  BY <1>1, <3>1, <3>2, <3>3 DEF Passed
  <2>9. LateOnlyIfGivenUp'
    BY <2>1, <2>8, SameCode DEF ClientInv, LateOnlyIfGivenUp, C!LateOnlyIfGivenUp
  <2>. QED
    BY <1>1, <2>1, <2>4, <2>5, <2>6, <2>7, <2>9, WellFormedKept DEF ClientInv
<1>. QED  BY <1>2, <1>3, <1>4 DEF C!Library

-----------------------------------------------------------------------------
(* The clients beside the proxy: the ones that are not run do nothing.     *)
Rests ==
  /\ alive = "not run" /\ waiting = "no" /\ pc = 1 /\ late = {}
  /\ \A o \in C!Ops : op[o] = "none"

LEMMA RestingClient ==
  ASSUME Rests
  PROVE  ~C!Next
<1>1. ~C!Main
  BY DEF Rests, C!Main, C!At, C!Begin, C!TestFlag, C!Sleep, C!TimeOut,
         C!TakeFuture, C!Periodic, C!RestartListeners, C!Again, C!Check,
         C!Return
<1>2. \A o \in C!Ops : ~C!Library(o)
  BY DEF Rests, C!Library, C!Finish, C!CallbackSets, C!CallbackNotifies
<1>. QED  BY <1>1, <1>2 DEF C!Next

LEMMA ClientsInvariant == MCSpec => [](Rests \/ ClientInv)
<1>1. MCInit => Rests \/ ClientInv
  <2>1. ASSUME NoClient PROVE Rests
    BY <2>1 DEF NoClient, Rests
  <2>. QED  BY <2>1, ClientInit DEF MCInit
<1>2. (Rests \/ ClientInv) /\ [RunProxy \/ RunClient]_<<vars, clientVars>>
      => (Rests \/ ClientInv)'
  <2>. SUFFICES ASSUME Rests \/ ClientInv,
                       [RunProxy \/ RunClient]_<<vars, clientVars>>
                PROVE  (Rests \/ ClientInv)'
    OBVIOUS
  <2>1. CASE RunClient
    <3>1. C!Next /\ ClientInv
      BY <2>1, RestingClient DEF RunClient
    <3>. QED  BY <3>1, MainStep, LibraryStep DEF C!Next
  <2>2. CASE UNCHANGED clientVars
    <3>1. UNCHANGED <<program, onThread, pc, waiting, flags, op, expired,
                      alive, late>>
      BY <2>2 DEF clientVars
    <3>2. Rests => Rests'
      BY <3>1, SameCode DEF Rests
    <3>3. ASSUME ClientInv PROVE ClientInv'
      <4>1. WellFormed' /\ C!TypeOK'
        BY <3>1, <3>3, SameCode, WellFormedKept DEF ClientInv, C!TypeOK
      <4>2. Place' /\ Raised' /\ Passed'
        BY <3>1, <3>3, SameCode DEF ClientInv, Place, Raised, Passed, Called
      <4>3. LateOnlyIfGivenUp'
        BY <3>1, <3>3, SameCode
        DEF ClientInv, LateOnlyIfGivenUp, C!LateOnlyIfGivenUp
      <4>. QED  BY <4>1, <4>2, <4>3 DEF ClientInv
    <3>. QED  BY <3>2, <3>3
  <2>. QED  BY <2>1, <2>2 DEF RunProxy
<1>. QED  BY <1>1, <1>2, PTL DEF MCSpec

(* putget.cpp, dhtclient.cpp: main goes on from a wait only when what it   *)
(* waits for has called back, when the time is up, or when the flag was    *)
(* left set by an earlier put.  For any number of values given to putget.  *)
THEOREM WaitsEndForAReason == MCSpec => []WaitsForItsOwn
<1>1. Rests => WaitsForItsOwn
  <2>1. pc = 1 => \A i \in 1 .. pc - 1 : FALSE
    OBVIOUS
  <2>2. pc = 1 => WaitsForItsOwn
    BY <2>1 DEF WaitsForItsOwn, C!WaitsForItsOwn
  <2>. QED  BY <2>2 DEF Rests
<1>2. ClientInv => WaitsForItsOwn
  <2>. SUFFICES ASSUME ClientInv, NEW i \in 1 .. pc - 1, C!Code[i].do = "wait"
                PROVE  \/ C!CalledBack(C!AwaitedAt(i))
                       \/ i \in expired \/ C!Stale(i)
    BY DEF WaitsForItsOwn, C!WaitsForItsOwn
  <2>1. DOMAIN C!Code = 1 .. Len(C!Code) /\ Len(C!Code) \in Nat
    BY ProgramsFit DEF ClientInv, C!TypeOK
  <2>2. i \in DOMAIN C!Code /\ i < pc
    <3>1. pc \in 1 .. Len(C!Code) + 1
      BY DEF ClientInv, C!TypeOK
    <3>. QED  BY <2>1, <3>1
  <2>. QED  BY <2>2 DEF ClientInv, Passed, Called, C!CalledBack
<1>. QED  BY <1>1, <1>2, ClientsInvariant, PTL

(* putget.cpp, dhtclient.cpp: a callback writes to a flag that main has    *)
(* destroyed only if main gave up its wait, went on because of a stale     *)
(* flag, or if it is a listener's.                                         *)
THEOREM LateCallbacksAreExplained == MCSpec => []LateOnlyIfGivenUp
<1>1. Rests => LateOnlyIfGivenUp
  BY DEF Rests, LateOnlyIfGivenUp, C!LateOnlyIfGivenUp
<1>2. ClientInv => LateOnlyIfGivenUp
  BY DEF ClientInv
<1>. QED  BY <1>1, <1>2, ClientsInvariant, PTL

(* cpp/opendht, cpp/jami: main is where its list of steps can take it, and *)
(* no flag or operation is one of another program.                         *)
THEOREM ClientsStayTyped == MCSpec => []ClientsTyped
<1>1. Rests \/ ClientInv => ClientsTyped
  BY DEF Rests, ClientInv, ClientsTyped
<1>. QED  BY <1>1, ClientsInvariant, PTL

=============================================================================
