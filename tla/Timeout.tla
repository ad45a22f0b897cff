------------------------------- MODULE Timeout -------------------------------
(***************************************************************************)
(* python/timeout.py: a Timeout object on which one thread waits with a    *)
(* time limit while another asks whether it is active and stops it.  With  *)
(* the statement "with run(secs)" the waiting thread is started on entry   *)
(* and stopped on exit; the object may also be waited on directly, as in   *)
(* timeout_tests.py, and more than once.  Each statement of wait is a step.*)
(***************************************************************************)
EXTENDS Naturals

CONSTANT MaxWaits   \* calls of wait on one object (bound)

VARIABLES
  raise_e,  \* the object's flag: an expired wait raises an exception
  event,    \* _event: "none" before the first wait, else "clear" or "set"
  active,
  expired,
  waiter,   \* the statement of wait the waiting thread is at
  success,  \* its local variable
  waits,    \* calls of wait so far
  user,     \* what the body of the with statement last did; out of it, or
            \* "direct" for an object used without one
  answer,   \* what it was last answered
  inTime    \* this wait was stopped before its time limit (history)

flags  == <<raise_e, event, active, expired>>
wait   == <<waiter, success, waits>>
caller == <<user, answer>>
vars   == <<flags, wait, caller, inTime>>

NoAnswer == [op |-> "none", after |-> "out", is |-> FALSE]

Init ==
  /\ raise_e \in BOOLEAN
  /\ event = "none"
  /\ active = FALSE
  /\ expired = FALSE
  /\ waiter = "none"
  /\ success = FALSE
  /\ waits = 0
  /\ user = "out"
  /\ answer = NoAnswer
  /\ inTime = FALSE

Goes(to) == waiter' = to

-----------------------------------------------------------------------------
(* Plausible mistakes, which the properties below must catch.              *)

ExpiredLast ==
  /\ waiter = "expire"
  /\ active' = FALSE
  /\ Goes("inactive")
  /\ UNCHANGED <<raise_e, event, expired, success, waits, caller, inTime>>

NoLimit == FALSE /\ UNCHANGED vars

-----------------------------------------------------------------------------
(* Timeout.wait                                                            *)

MakeEvent ==
  /\ waiter = "start"
  /\ event' = "clear"
  /\ inTime' = FALSE
  /\ Goes("activate")
  /\ UNCHANGED <<raise_e, active, expired, success, waits, caller>>

Activate ==
  /\ waiter = "activate"
  /\ active' = TRUE
  /\ Goes("wait")
  /\ UNCHANGED <<raise_e, event, expired, success, waits, caller, inTime>>

(* The event is set, before the wait or during it.                         *)
Woken ==
  /\ waiter = "wait" /\ event = "set"
  /\ success' = TRUE
  /\ Goes("check")
  /\ UNCHANGED <<flags, waits, caller, inTime>>

(* The limit passes first; a stop after that changes nothing any more.     *)
TimesUp ==
  /\ waiter = "wait" /\ event = "clear"
  /\ success' = FALSE
  /\ Goes("check")
  /\ UNCHANGED <<flags, waits, caller, inTime>>

Check ==
  /\ waiter = "check"
  /\ Goes(IF ~success /\ raise_e THEN "raised" ELSE "expire")
  /\ UNCHANGED <<flags, success, waits, caller, inTime>>

SetExpired ==
  /\ waiter = "expire"
  /\ expired' = ~success
  /\ Goes("inactive")
  /\ UNCHANGED <<raise_e, event, active, success, waits, caller, inTime>>

Deactivate ==
  /\ waiter = "inactive"
  /\ active' = FALSE
  /\ Goes("done")
  /\ UNCHANGED <<raise_e, event, expired, success, waits, caller, inTime>>

-----------------------------------------------------------------------------
(* A thread calls wait, again perhaps; others may call stop.               *)
WaitDirectly ==
  /\ waiter = "none" /\ user = "out" /\ waits < MaxWaits
  /\ user' = "direct"
  /\ waits' = waits + 1
  /\ Goes("start")
  /\ UNCHANGED <<flags, success, answer, inTime>>

WaitAgain ==
  /\ user = "direct" /\ waiter \in {"done", "raised"} /\ waits < MaxWaits
  /\ waits' = waits + 1
  /\ Goes("start")
  /\ UNCHANGED <<flags, success, caller, inTime>>

-----------------------------------------------------------------------------
InBody == user \in {"entered", "asked", "stopped"}

(* run.__enter__ starts the thread, whose Timeout() never raises.          *)
Enter ==
  /\ ~raise_e
  /\ user = "out" /\ waiter = "none" /\ waits < MaxWaits
  /\ user' = "entered"
  /\ waits' = waits + 1
  /\ Goes("start")
  /\ UNCHANGED <<flags, success, answer, inTime>>

(* Timeout.stop: without an event there is nothing to set.                 *)
SetEvent ==
  /\ event' = IF event = "none" THEN "none" ELSE "set"
  /\ inTime' = (inTime \/ (waiter \in {"activate", "wait"}))
  /\ UNCHANGED <<raise_e, active, expired>>

Stop ==
  /\ user # "out"
  /\ SetEvent
  /\ user' = IF InBody THEN "stopped" ELSE user
  /\ UNCHANGED <<wait, answer>>

AskActive ==
  /\ InBody
  /\ answer' = [op |-> "active", after |-> user, is |-> active]
  /\ user' = "asked"
  /\ UNCHANGED <<flags, wait, inTime>>

(* TimeoutThread.expired calls the flag, which raises a TypeError; the     *)
(* exception leaves the body, and run.__exit__ stops and swallows it.      *)
AskExpired ==
  /\ InBody
  /\ answer' = [op |-> "TypeError", after |-> user, is |-> FALSE]
  /\ SetEvent
  /\ user' = "out"
  /\ UNCHANGED wait

Exit ==
  /\ InBody
  /\ SetEvent
  /\ user' = "out"
  /\ UNCHANGED <<wait, answer>>

-----------------------------------------------------------------------------
Wait ==
  \/ MakeEvent \/ Activate \/ Woken \/ TimesUp \/ Check \/ SetExpired
  \/ Deactivate

Next ==
  \/ Wait \/ WaitDirectly \/ WaitAgain
  \/ Enter \/ Stop \/ AskActive \/ AskExpired \/ Exit

Spec == Init /\ [][Next]_vars

(* The waiting thread is scheduled, and time passes.                       *)
Fairness == WF_vars(Wait)

FairSpec == Spec /\ Fairness

-----------------------------------------------------------------------------
(* An active object has an event, so a stop that follows an answer         *)
(* "active" is never without effect (lines 19-20 and 30).                  *)
TypeOK ==
  /\ raise_e \in BOOLEAN
  /\ event \in {"none", "clear", "set"}
  /\ active \in BOOLEAN /\ expired \in BOOLEAN
  /\ waiter \in {"none", "start", "activate", "wait", "check", "expire",
                 "inactive", "done", "raised"}
  /\ success \in BOOLEAN
  /\ waits \in 0 .. MaxWaits
  /\ user \in {"out", "direct", "entered", "asked", "stopped"}
  /\ answer \in [op : {"none", "active", "TypeError"},
                 after : {"out", "entered", "asked", "stopped"}, is : BOOLEAN]
  /\ inTime \in BOOLEAN
  /\ active => event # "none"

(* Once the object turns inactive its expired flag tells whether this wait *)
(* was stopped in time, whatever an earlier wait left and however late a   *)
(* stop came; who polls active need not wait any longer (lines 22-27).     *)
SettledWhenInactive ==
  [][active /\ ~active' => expired' = ~inTime']_vars

(* A wait ends, stopped or not (line 22).                                  *)
WaitEnds == waiter = "start" ~> waiter \in {"done", "raised"}

(* timeout_tests.py:13 and 15: in the body of the with statement the       *)
(* timeout is active, and right after stop it is not.                      *)
StopTestPasses ==
  answer.op = "active" =>
    /\ answer.after = "entered" => answer.is
    /\ answer.after = "stopped" => ~answer.is

=============================================================================
