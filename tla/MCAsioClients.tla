--------------------------- MODULE MCAsioClients ----------------------------
(***************************************************************************)
(* The two clients of cpp/async/nonblocking, each in behaviours of its     *)
(* own: the one that is not run has the main "not run" and never moves.    *)
(***************************************************************************)
EXTENDS PostedRequests

VARIABLES
  clientMain, resolving, state_, write_in_progress_, read_in_progress_,
  readingFrom, printed

clientVars == <<clientMain, resolving, state_, write_in_progress_,
                read_in_progress_, readingFrom, printed>>
postedVars == <<main, queue, asked, nested, reading, callbacks>>

N == INSTANCE NonblockingClient
       WITH main <- clientMain, reading <- readingFrom

NotPosting ==
  /\ main = "not run" /\ queue = << >> /\ asked = << >>
  /\ nested = 0 /\ reading = 0 /\ callbacks = << >>
NoClient ==
  /\ clientMain = "not run" /\ resolving = {} /\ state_ = {}
  /\ write_in_progress_ = {} /\ read_in_progress_ = {}
  /\ readingFrom = 0 /\ printed = {}

MCInit == (Init /\ NoClient) \/ (NotPosting /\ N!Init)

RunPostedRequests == Next /\ UNCHANGED clientVars
RunClient         == N!Next /\ UNCHANGED postedVars

MCSpec ==
  /\ MCInit
  /\ [][RunPostedRequests \/ RunClient]_<<vars, clientVars>>
  /\ Fairness /\ N!Fairness

-----------------------------------------------------------------------------
(* cpp/async/nonblocking/client.cpp: see NonblockingClient.                *)
ServedToTheEnd == N!ServedToTheEnd

(* Either client ends if its server ends its streams.                      *)
ProgramsEnd == EndsIfServerEnds /\ N!EndsIfServerEnds

=============================================================================
