--------------------------- MODULE DhtProxyServer ---------------------------
(***************************************************************************)
(* cpp/opendht/dhtproxyserver: a node of a distributed hash table behind a *)
(* web server, RESTinio (proxy_restinio.cpp) or Pistache                   *)
(* (proxy_pistache.cpp).  One thread runs the handlers of requests; the    *)
(* node's thread calls back with values and results.  RESTinio's get and   *)
(* put answer from those callbacks; Pistache's get blocks its thread.      *)
(*                                                                         *)
(* A request is one of its kinds on a connection of its own.  A handler is *)
(* one step.  An answer is the sequence of its parts.                      *)
(***************************************************************************)
EXTENDS Integers, Sequences

CONSTANTS
  Request,      \* the requests
  MaxValues     \* values found for a key (bound)

ASSUME ProxyAssumption == MaxValues \in Nat

VARIABLES
  front,        \* the web server: restinio or pistache
  server,       \* starting, open, failed, closing, closed
  owner,        \* running, joining (the server's thread), joining node,
                \* node joined or ended (the members are destroyed)
  nodeRuns,     \* the node's thread runs
  busy,         \* pistache: the requests whose get holds the thread
  kind,         \* what each request asks for
  phase,        \* none, sent, accepted, dht (a callback is due), over
  connected,    \* connections open
  answer,       \* parts sent to each
  nodes,        \* the node knows good nodes
  dhtNodeInfo,  \* what the server remembers of that
  dangling      \* a callback ran after the server was destroyed

lifecycle == <<front, server, owner, nodeRuns>>
info      == <<nodes, dhtNodeInfo>>
exchange  == <<busy, kind, phase, connected, answer>>
vars      == <<lifecycle, exchange, info, dangling>>

Kinds == {"options", "info", "get", "put", "empty put", "bad put", "odd put"}

Init ==
  /\ front \in {"restinio", "pistache"}
  /\ server = "starting"
  /\ owner = "running"
  /\ nodeRuns = TRUE
  /\ busy = {}
  /\ kind = [r \in Request |-> "get"]
  /\ phase = [r \in Request |-> "none"]
  /\ connected = {}
  /\ answer = [r \in Request |-> << >>]
  /\ nodes = FALSE
  /\ dhtNodeInfo = FALSE
  /\ dangling = FALSE

-----------------------------------------------------------------------------
(* Plausible mistakes, which the properties below must catch.              *)

DoneAtOnce(r) ==
  /\ answer' = [answer EXCEPT ![r] = <<"header", "done">>]
  /\ phase' = [phase EXCEPT ![r] = "dht"]

NodeNotJoined ==
  /\ owner = "joining node"
  /\ owner' = "node joined"
  /\ UNCHANGED <<front, server, nodeRuns, exchange, info, dangling>>

NoTimeLimit(r) ==
  /\ front = "restinio" /\ r \in connected /\ phase[r] = "over"
  /\ connected' = connected \ {r}
  /\ UNCHANGED <<lifecycle, busy, kind, phase, answer, info, dangling>>

-----------------------------------------------------------------------------
(* What is written to a connection that is gone is lost.                   *)
Write(r, part) ==
  answer' = [answer EXCEPT ![r] =
               IF r \in connected THEN Append(@, part) ELSE @]

Over(r) == phase' = [phase EXCEPT ![r] = "over"]

Reply(r, part) == Write(r, part) /\ Over(r)

(* The thread of the server takes up a request.                            *)
Handles(r, f, kinds) ==
  /\ front = f /\ server \in {"open", "closing"}
  /\ phase[r] = "sent" /\ r \in connected /\ kind[r] \in kinds
  /\ busy = {}
  /\ UNCHANGED <<lifecycle, kind, nodes, dangling>>

-----------------------------------------------------------------------------
(* RESTinio.                                                               *)

Options(r) ==
  /\ Handles(r, "restinio", {"options"})
  /\ Reply(r, "ok")
  /\ UNCHANGED <<busy, connected, dhtNodeInfo>>

(* The node is asked while no good node is remembered.                     *)
RememberNodes == dhtNodeInfo' = (dhtNodeInfo \/ nodes)

GetNodeInfo(r) ==
  /\ Handles(r, "restinio", {"info"})
  /\ RememberNodes
  /\ Reply(r, "ok")
  /\ UNCHANGED <<busy, connected>>

(* The header goes out first; values and end come from the callbacks.      *)
StartChunks(r) ==
  /\ Write(r, "header")
  /\ phase' = [phase EXCEPT ![r] = "dht"]

Get(r) ==
  /\ Handles(r, "restinio", {"get"})
  /\ StartChunks(r)
  /\ UNCHANGED <<busy, connected, dhtNodeInfo>>

(* No body: refused.  A body that is no JSON: accepted and never answered. *)
(* JSON that makes no value throws, and the library closes the connection. *)
Put(r) ==
  /\ Handles(r, "restinio", {"put", "empty put", "bad put", "odd put"})
  /\ CASE kind[r] = "empty put" -> Reply(r, "bad request")
       [] kind[r] = "bad put" ->
            phase' = [phase EXCEPT ![r] = "accepted"] /\ UNCHANGED answer
       [] kind[r] = "odd put" -> Over(r) /\ UNCHANGED answer
       [] kind[r] = "put" ->
            phase' = [phase EXCEPT ![r] = "dht"] /\ UNCHANGED answer
  /\ connected' = IF kind[r] = "odd put" THEN connected \ {r} ELSE connected
  /\ UNCHANGED <<busy, dhtNodeInfo>>

(* The callbacks, on the node's thread.  They use the server.              *)
Callback(r) ==
  /\ phase[r] = "dht" /\ nodeRuns
  /\ \/ /\ front = "restinio" /\ kind[r] = "get"
        /\ \/ Len(answer[r]) <= MaxValues /\ Write(r, "value") /\ UNCHANGED phase
           \/ Reply(r, "done")
     \/ /\ front = "restinio" /\ kind[r] = "put"
        /\ \E part \in {"echo", "bad gateway"} : Reply(r, part)
     \/ front = "pistache" /\ Reply(r, "values")
  /\ busy' = busy \ {r}
  /\ dangling' = (dangling \/ owner = "ended")
  /\ UNCHANGED <<lifecycle, kind, connected, info>>

(* RESTinio closes a connection whose answer, next request or write is     *)
(* not there in 10 s.                                                      *)
CloseByLimit(r) ==
  /\ front = "restinio" /\ r \in connected /\ phase[r] # "sent"
  /\ connected' = connected \ {r}
  /\ UNCHANGED <<lifecycle, busy, kind, phase, answer, info, dangling>>

-----------------------------------------------------------------------------
(* Pistache: one thread, blocked by a get until all values are there.      *)

PistacheGet(r) ==
  /\ Handles(r, "pistache", {"get"})
  /\ busy' = {r}
  /\ phase' = [phase EXCEPT ![r] = "dht"]
  /\ UNCHANGED <<connected, answer, dhtNodeInfo>>

PistachePut(r) ==
  /\ Handles(r, "pistache", {"put"})
  /\ Reply(r, "echo")
  /\ UNCHANGED <<busy, connected, dhtNodeInfo>>

-----------------------------------------------------------------------------
(* From construction to destruction.                                       *)

(* The port may be taken: RESTinio's thread then ends, while running()     *)
(* stays true; Pistache's exception ends the program.                      *)
Open ==
  /\ server = "starting"
  /\ \/ server' = "open" /\ UNCHANGED <<owner, nodeRuns>>
     \/ /\ server' = "failed"
        /\ owner' = IF front = "restinio" THEN owner ELSE "ended"
        /\ nodeRuns' = (front = "restinio")
  /\ UNCHANGED <<front, exchange, info, dangling>>

(* stop(), at any moment of RESTinio's, and the return of serve(), which    *)
(* Pistache has to have begun.  No connection is accepted any more.  To     *)
(* close a server that is not open yet does nothing.                       *)
Stop ==
  /\ owner = "running"
  /\ front = "pistache" => server = "open"
  /\ owner' = "joining"
  /\ server' = IF server = "open" THEN "closing" ELSE server
  /\ UNCHANGED <<front, nodeRuns, exchange, info, dangling>>

(* io_context::run returns when no connection is left; Pistache drops its  *)
(* connections when its thread is free.                                    *)
ServerEnds ==
  /\ server = "closing" /\ busy = {}
  /\ front = "restinio" => connected = {}
  /\ server' = "closed"
  /\ connected' = {}
  /\ UNCHANGED <<front, owner, nodeRuns, busy, kind, phase, answer, info,
                 dangling>>

(* The owner joins the server's thread, then the node's, then destroys the *)
(* members: three steps of its own.                                        *)
Joined ==
  /\ owner = "joining" /\ server \in {"failed", "closed"}
  /\ owner' = "joining node"
  /\ UNCHANGED <<front, server, nodeRuns, exchange, info, dangling>>

JoinNode ==
  /\ owner = "joining node"
  /\ owner' = "node joined"
  /\ nodeRuns' = FALSE
  /\ UNCHANGED <<front, server, exchange, info, dangling>>

Destroyed ==
  /\ owner = "node joined"
  /\ owner' = "ended"
  /\ UNCHANGED <<front, server, nodeRuns, exchange, info, dangling>>

-----------------------------------------------------------------------------
(* The clients and the rest of the table.                                  *)

ClientSends(r) ==
  /\ server = "open" /\ phase[r] = "none"
  /\ \E k \in IF front = "restinio" THEN Kinds ELSE {"get", "put"} :
       kind' = [kind EXCEPT ![r] = k]
  /\ phase' = [phase EXCEPT ![r] = "sent"]
  /\ connected' = connected \cup {r}
  /\ UNCHANGED <<lifecycle, busy, answer, info, dangling>>

ClientLeaves(r) ==
  /\ r \in connected
  /\ connected' = connected \ {r}
  /\ UNCHANGED <<lifecycle, busy, kind, phase, answer, info, dangling>>

NodesChange ==
  /\ nodeRuns
  /\ nodes' = ~nodes
  /\ UNCHANGED <<lifecycle, exchange, dhtNodeInfo, dangling>>

-----------------------------------------------------------------------------
Serve ==
  \E r \in Request :
    \/ Options(r) \/ GetNodeInfo(r) \/ Get(r) \/ Put(r)
    \/ PistacheGet(r) \/ PistachePut(r)

Owner == Joined \/ JoinNode \/ Destroyed

Next ==
  \/ Serve \/ Open \/ Stop \/ ServerEnds \/ Owner \/ NodesChange
  \/ \E r \in Request :
       Callback(r) \/ CloseByLimit(r) \/ ClientSends(r) \/ ClientLeaves(r)

Spec == Init /\ [][Next]_vars

(* The server's thread and the owner run, and a connection's time is up in *)
(* the end.  Nothing is assumed of the clients, and nothing of the node,   *)
(* which may never call back.                                              *)
Fairness ==
  /\ WF_vars(Open) /\ WF_vars(Serve) /\ WF_vars(ServerEnds) /\ WF_vars(Owner)
  /\ \A r \in Request : WF_vars(CloseByLimit(r))

FairSpec == Spec /\ Fairness

-----------------------------------------------------------------------------
Final == {"ok", "bad request", "done", "echo", "bad gateway", "values"}

TypeOK ==
  /\ front \in {"restinio", "pistache"}
  /\ server \in {"starting", "open", "failed", "closing", "closed"}
  /\ owner \in {"running", "joining", "joining node", "node joined", "ended"}
  /\ nodeRuns \in BOOLEAN
  /\ busy \subseteq Request
  /\ kind \in [Request -> Kinds]
  /\ phase \in [Request -> {"none", "sent", "accepted", "dht", "over"}]
  /\ connected \subseteq Request
  /\ answer \in [Request -> Seq(Final \cup {"header", "value"})]
  /\ nodes \in BOOLEAN /\ dhtNodeInfo \in BOOLEAN /\ dangling \in BOOLEAN

(* A request is answered once: what ends an answer comes last, after the   *)
(* header and the values of a get, and not before the request is over      *)
(* (proxy_restinio.cpp lines 86-197, proxy_pistache.cpp lines 35-64).      *)
AnsweredOnce ==
  \A r \in Request :
    /\ \A i \in DOMAIN answer[r] :
         /\ answer[r][i] \in Final => i = Len(answer[r]) /\ phase[r] = "over"
         /\ answer[r][i] = "header" <=> kind[r] = "get" /\ i = 1
                                          /\ front = "restinio"
    /\ phase[r] = "over" /\ r \in connected =>
         answer[r] # << >> /\ answer[r][Len(answer[r])] \in Final

(* No callback of the node uses a server that has been destroyed, and no   *)
(* handler runs on a node that was joined: stop joins the server's thread, *)
(* then the node, before the members go (proxy_restinio.cpp lines 44-62,   *)
(* proxy_pistache.cpp lines 25-29).                                        *)
NoCallbackAfterEnd ==
  ~dangling /\ (server \in {"open", "closing"} => nodeRuns)

(* Stopped before its thread had opened it, a server opens all the same,   *)
(* serves for ever, and is joined in vain (lines 27-34 and 56-59).         *)
StoppedTooEarly == owner = "joining" /\ server = "open"

(* Every request is over or its connection closed in the end, with a body  *)
(* that cannot be parsed (line 165) or a node that never calls back, and a *)
(* server that is stopped ends, unless it was stopped too early.  Only a   *)
(* get holds up Pistache.                                                  *)
SettlesAndStops ==
  /\ \A r \in Request :
       phase[r] = "sent" ~> phase[r] = "over" \/ r \notin connected \/ busy # {}
  /\ owner = "joining" ~> owner = "ended" \/ busy # {} \/ StoppedTooEarly

=============================================================================
