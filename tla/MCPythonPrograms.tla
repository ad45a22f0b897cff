-------------------------- MODULE MCPythonPrograms --------------------------
(***************************************************************************)
(* The Python programs whose main thread and a second thread talk over     *)
(* flags and queues, the chat server and the timeout, each in behaviours   *)
(* of its own: the one that is not run has its notify task, or its waiting *)
(* thread, at "not run" and never moves.                                   *)
(***************************************************************************)
EXTENDS ChatServer

CONSTANT MaxWaits   \* see Timeout

ASSUME WaitsAssumption == MaxWaits \in Nat

VARIABLES
  raise_e, event, active, expired, waiter, success, waits, user, answer, inTime

timeoutVars == <<raise_e, event, active, expired, waiter, success, waits,
                 user, answer, inTime>>

T == INSTANCE Timeout

NoChat ==
  /\ closed = Socket /\ serve = [s \in Socket |-> "ended"]
  /\ sentTo = [s \in Socket |-> << >>] /\ websockets = << >>
  /\ posted = MaxMessages /\ scheduled = << >> /\ messages = << >>
  /\ notify = "not run" /\ message = MaxMessages /\ position = 1
  /\ websocket = CHOOSE s \in Socket : TRUE
  /\ removals = 0
NoTimeout ==
  /\ raise_e = FALSE /\ event = "none" /\ active = FALSE /\ expired = FALSE
  /\ waiter = "not run" /\ success = FALSE /\ waits = 0
  /\ user = "out" /\ answer = T!NoAnswer /\ inTime = FALSE

MCInit == (Init /\ NoTimeout) \/ (NoChat /\ T!Init)

RunChat    == Next /\ UNCHANGED timeoutVars
RunTimeout == T!Next /\ UNCHANGED vars

MCSpec ==
  /\ MCInit
  /\ [][RunChat \/ RunTimeout]_<<vars, timeoutVars>>
  /\ Fairness /\ T!Fairness

-----------------------------------------------------------------------------
(* The types of whichever program runs (server.py lines 6-39, timeout.py   *)
(* lines 10-31): the iterator stays within one of the list's sockets, and  *)
(* an active timeout has an event.                                         *)
JointTypes ==
  /\ notify = "not run" \/ TypeOK
  /\ waiter = "not run" \/ T!TypeOK

(* python/timeout.py lines 22-27: see Timeout.                             *)
SettledWhenInactive == T!SettledWhenInactive

(* python/timeout.py line 22: see Timeout.                                 *)
WaitEnds == T!WaitEnds

=============================================================================
