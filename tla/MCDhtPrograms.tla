--------------------------- MODULE MCDhtPrograms ----------------------------
(***************************************************************************)
(* The programs around a node of the distributed hash table, the proxy     *)
(* server and the clients, each in behaviours of its own: the one that is  *)
(* not run has its server, or its main, at "not run" and never moves.      *)
(***************************************************************************)
EXTENDS DhtProxyServer

CONSTANT Values     \* see DhtClients
ASSUME ValuesAssumption == Values \in Nat

VARIABLES program, onThread, pc, waiting, flags, op, expired, alive, late

clientVars == <<program, onThread, pc, waiting, flags, op, expired, alive,
                late>>

C == INSTANCE DhtClients

NoProxy ==
  /\ front = "restinio" /\ server = "not run" /\ owner = "not run"
  /\ nodeRuns = FALSE /\ busy = {} /\ connected = {}
  /\ kind = [r \in Request |-> "get"] /\ phase = [r \in Request |-> "none"]
  /\ answer = [r \in Request |-> << >>]
  /\ nodes = FALSE /\ dhtNodeInfo = FALSE /\ dangling = FALSE
NoClient ==
  /\ program = "putget" /\ onThread = TRUE /\ pc = 1 /\ waiting = "no"
  /\ flags = {} /\ op = [o \in C!Ops |-> "none"] /\ expired = {}
  /\ alive = "not run" /\ late = {}

MCInit == (Init /\ NoClient) \/ (NoProxy /\ C!Init)

RunProxy  == Next /\ UNCHANGED clientVars
RunClient == C!Next /\ UNCHANGED vars

MCSpec ==
  /\ MCInit
  /\ [][RunProxy \/ RunClient]_<<vars, clientVars>>
  /\ Fairness /\ C!Fairness

-----------------------------------------------------------------------------
(* cpp/opendht/putget.cpp, dhtclient.cpp: see DhtClients.                  *)
WaitsForItsOwn == C!WaitsForItsOwn

(* cpp/opendht/putget.cpp, dhtclient.cpp: see DhtClients.                  *)
LateOnlyIfGivenUp == C!LateOnlyIfGivenUp

(* cpp/opendht/putget.cpp, dhtclient.cpp, dhtclient_async.cpp: see         *)
(* DhtClients.                                                             *)
ProgramsReturn == C!ProgramsReturn

(* main of a client is where its list of steps can take it, and no flag or *)
(* operation is one of another program (cpp/opendht, cpp/jami).            *)
ClientsTyped == alive = "not run" \/ C!TypeOK

=============================================================================
