----------------------------- MODULE DhtClients ------------------------------
(***************************************************************************)
(* The programs that use a distributed hash table from main: putget.cpp,   *)
(* dhtclient.cpp, dhtclient_async.cpp and future-get.cpp of cpp/opendht,   *)
(* and cpp/jami/namedir.cpp.  Each is a list of steps of the main thread;  *)
(* the library's thread finishes what was started and calls back.          *)
(*                                                                         *)
(* A callback sets a flag of main's and then notifies it, without the      *)
(* mutex, so it may come between main's test of the flag and its sleep.    *)
(* The flags are locals of main, destroyed before the library's thread     *)
(* ends.  Sleeps only take time and are left out.                          *)
(***************************************************************************)
EXTENDS Integers, Sequences

CONSTANT Values     \* values given to putget, at least one

VARIABLES
  program,    \* the program that runs
  onThread,   \* callbacks run on the library's thread, or only in periodic
  pc,         \* main's next step
  waiting,    \* main in wait_for: no, has tested the flag, or is asleep
  flags,      \* flags set
  op,         \* operations: none, started, finished, calling, called
  expired,    \* steps whose wait gave up
  alive,      \* main's locals, until they are destroyed and the thread ends
  late        \* operations whose callback wrote to a destroyed flag

vars == <<program, onThread, pc, waiting, flags, op, expired, alive, late>>

-----------------------------------------------------------------------------
(* The steps.  An operation may raise a flag when it calls back, and a     *)
(* listening one may call back again.                                      *)
Step(do, o, flag)   == [do |-> do, op |-> o, flag |-> flag]
Start(o, flag)      == Step("start", o, flag)
Listen(o, flag)     == Step("listen", o, flag)
Wait(flag)          == Step("wait", 0, flag)
Future(o)           == Step("future", o, "none")
Plain(do)           == Step(do, 0, "none")

(* Plausible mistakes, which the properties below must catch.              *)

DhtClientOneFlag ==
  <<Listen(1, "done"), Start(2, "done"), Wait("done"),
    Start(3, "doneGet"), Wait("doneGet"), Wait("done")>>

DhtClientOneWait ==
  <<Listen(1, "doneListen"), Start(2, "donePut"), Wait("donePut"),
    Start(3, "doneGet"), Wait("doneListen")>>

DhtClientNoLimit ==
  <<Listen(1, "none"), Start(2, "none"), Future(2), Start(3, "none"),
    Future(3), Future(1)>>

NextButOne(step) == step + 2

-----------------------------------------------------------------------------
(* The programs.                                                           *)

(* putget: every put raises the one flag, which is never lowered.          *)
PutGet ==
  [i \in 1 .. 2 * Values |->
     IF i % 2 = 1 THEN Start((i + 1) \div 2, "node_action")
                  ELSE Wait("node_action")]
  \o <<Start(Values + 1, "none"), Future(Values + 1)>>

DhtClient ==
  <<Listen(1, "doneListen"), Start(2, "donePut"), Wait("donePut"),
    Start(3, "doneGet"), Wait("doneGet"), Wait("doneListen")>>

DhtClientAsync ==
  <<Plain("check"), Listen(1, "none"), Start(2, "none"), Start(3, "none"),
    Start(4, "none"), Plain("periodic"), Plain("connectivityChanged")>>

(* The future of the first get is dropped, so nothing waits for it.        *)
FutureGet ==
  <<Plain("check"), Start(1, "none"), Start(2, "none"), Plain("periodic"),
    Plain("again")>>

(* namedir: two checks of the library, two lookups and a registration.     *)
NameDir ==
  <<Plain("check"), Plain("check"), Plain("check"), Start(1, "none"),
    Start(2, "none"), Start(3, "none"), Plain("forever")>>

Steps ==
  [putget |-> PutGet, dhtclient |-> DhtClient,
   dhtclient_async |-> DhtClientAsync, future_get |-> FutureGet,
   namedir |-> NameDir]

Code     == Steps[program]
Ops      == {Code[i].op : i \in DOMAIN Code} \ {0}
Flag(o)  == LET i == CHOOSE i \in DOMAIN Code : Code[i].op = o
            IN Code[i].flag
Repeats(o) == \E i \in DOMAIN Code : Code[i] = Listen(o, Flag(o))

(* DhtRunner has a thread of its own.  A DhtProxyClient may only queue its *)
(* callbacks for periodic.                                                 *)
Init ==
  /\ program \in DOMAIN Steps
  /\ onThread \in IF program \in {"putget", "namedir"} THEN {TRUE} ELSE BOOLEAN
  /\ pc = 1
  /\ waiting = "no"
  /\ flags = {}
  /\ op = [o \in Ops |-> "none"]
  /\ expired = {}
  /\ alive = "alive"
  /\ late = {}

-----------------------------------------------------------------------------
(* main.                                                                   *)

At(do) ==
  alive = "alive" /\ pc \in DOMAIN Code /\ Code[pc].do = do

Begin ==
  /\ At("start") \/ At("listen")
  /\ op' = [op EXCEPT ![Code[pc].op] = "started"]
  /\ pc' = pc + 1
  /\ UNCHANGED <<program, onThread, waiting, flags, expired, alive, late>>

(* wait_for tests before it sleeps; a set flag lets main pass.             *)
FallAsleep == waiting' = "tested" /\ UNCHANGED <<pc, expired>>

TestFlag ==
  /\ At("wait") /\ waiting = "no"
  /\ IF Code[pc].flag \in flags
     THEN pc' = pc + 1 /\ UNCHANGED <<waiting, expired>>
     ELSE FallAsleep
  /\ UNCHANGED <<program, onThread, flags, op, alive, late>>

Sleep ==
  /\ waiting = "tested"
  /\ waiting' = "asleep"
  /\ UNCHANGED <<program, onThread, pc, flags, op, expired, alive, late>>

After(step) == step + 1

(* After 10 or 20 seconds main goes on, whatever the flag.                 *)
TimeOut ==
  /\ waiting = "asleep"
  /\ waiting' = "no"
  /\ pc' = After(pc)
  /\ expired' = IF Code[pc].flag \in flags THEN expired ELSE expired \cup {pc}
  /\ UNCHANGED <<program, onThread, flags, op, alive, late>>

(* The values of a get: its future is ready when the get is done.          *)
TakeFuture ==
  /\ At("future") /\ op[Code[pc].op] = "called"
  /\ pc' = pc + 1
  /\ UNCHANGED <<program, onThread, waiting, flags, op, expired, alive, late>>

(* periodic runs the callbacks that are queued, on main's thread; none of  *)
(* the programs that call it gives a callback a flag.                      *)
Periodic ==
  /\ At("periodic")
  /\ op' = [o \in Ops |-> IF ~onThread /\ op[o] = "finished"
                          THEN "called" ELSE op[o]]
  /\ pc' = pc + 1
  /\ UNCHANGED <<program, onThread, waiting, flags, expired, alive, late>>

(* connectivityChanged starts the listeners again.                         *)
RestartListeners ==
  /\ At("connectivityChanged")
  /\ op' = [o \in Ops |-> IF Repeats(o) /\ op[o] # "calling"
                          THEN "started" ELSE op[o]]
  /\ pc' = pc + 1
  /\ UNCHANGED <<program, onThread, waiting, flags, expired, alive, late>>

Again ==
  /\ At("again")
  /\ pc' = pc - 1
  /\ UNCHANGED <<program, onThread, waiting, flags, op, expired, alive, late>>

(* Too few arguments, or a library that does not start, end the program.   *)
Check ==
  /\ At("check")
  /\ pc' \in {pc + 1, Len(Code) + 1}
  /\ UNCHANGED <<program, onThread, waiting, flags, op, expired, alive, late>>

(* main's locals go first; then the node or client stops its thread, which *)
(* ends the call it is in.                                                 *)
Return ==
  /\ \/ alive = "alive" /\ pc = Len(Code) + 1 /\ alive' = "locals destroyed"
     \/ alive = "locals destroyed" /\ alive' = "stopping"
     \/ /\ alive = "stopping" /\ \A o \in Ops : op[o] # "calling"
        /\ alive' = "ended"
  /\ UNCHANGED <<program, onThread, pc, waiting, flags, op, expired, late>>

Main ==
  \/ Begin \/ TestFlag \/ Sleep \/ TimeOut \/ TakeFuture \/ Periodic
  \/ RestartListeners \/ Again \/ Check \/ Return

-----------------------------------------------------------------------------
(* The library.                                                            *)

Finish(o) ==
  /\ alive # "ended"
  /\ op[o] = "started" \/ (Repeats(o) /\ op[o] = "called")
  /\ op' = [op EXCEPT ![o] = "finished"]
  /\ UNCHANGED <<program, onThread, pc, waiting, flags, expired, alive, late>>

CallbackSets(o) ==
  /\ onThread /\ alive \in {"alive", "locals destroyed"} /\ op[o] = "finished"
  /\ \A p \in Ops : op[p] # "calling"
  /\ op' = [op EXCEPT ![o] = "calling"]
  /\ flags' = flags \cup ({Flag(o)} \ {"none"})
  /\ late' = IF alive # "alive" /\ Flag(o) # "none" THEN late \cup {o} ELSE late
  /\ UNCHANGED <<program, onThread, pc, waiting, expired, alive>>

(* notify_all or notify_one wakes main only if it is asleep already.       *)
CallbackNotifies(o) ==
  /\ op[o] = "calling"
  /\ op' = [op EXCEPT ![o] = "called"]
  /\ waiting' = IF waiting = "asleep" /\ Flag(o) # "none" THEN "no" ELSE waiting
  /\ UNCHANGED <<program, onThread, pc, flags, expired, alive, late>>

Library(o) == Finish(o) \/ CallbackSets(o) \/ CallbackNotifies(o)

Next == Main \/ \E o \in Ops : Library(o)

Spec == Init /\ [][Next]_vars

(* main runs, and a thread that calls back ends its call.  The time a wait *)
(* may last is counted from its begin, so however often it is woken for    *)
(* nothing it gives up in the end.                                         *)
Fairness ==
  /\ WF_vars(Main) /\ SF_vars(TimeOut)
  /\ WF_vars(\E o \in Ops : CallbackNotifies(o))

FairSpec == Spec /\ Fairness

-----------------------------------------------------------------------------
TypeOK ==
  /\ program \in DOMAIN Steps
  /\ onThread \in BOOLEAN
  /\ pc \in 1 .. Len(Code) + 1
  /\ waiting \in {"no", "tested", "asleep"}
  /\ flags \subseteq {Flag(o) : o \in Ops}
  /\ op \in [Ops -> {"none", "started", "finished", "calling", "called"}]
  /\ expired \subseteq DOMAIN Code
  /\ alive \in {"alive", "locals destroyed", "stopping", "ended"}
  /\ late \subseteq Ops

(* The operation whose end the wait at step i is for: the one started last *)
(* with its flag.                                                          *)
AwaitedAt(i) ==
  CHOOSE o \in Ops :
    \E j \in 1 .. i :
      /\ Code[j].op = o /\ Code[j].flag = Code[i].flag
      /\ \A k \in j + 1 .. i - 1 : Code[k].flag # Code[i].flag \/ Code[k].op = 0

(* A later wait on a flag that an earlier operation raised as well.        *)
Stale(i) ==
  \E j \in 1 .. i - 1 : Code[j].do = "wait" /\ Code[j].flag = Code[i].flag

(* The operation has called back, or, if it repeats, is about to again.    *)
CalledBack(o) ==
  op[o] \in {"calling", "called"} \/ (Repeats(o) /\ op[o] = "finished")

(* main goes on from a wait only when what it waits for has called back,   *)
(* when the time is up, or when the flag was raised for an earlier put     *)
(* (putget.cpp line 27: node_action is never lowered).  So dhtclient.cpp   *)
(* gets after its put (lines 31-48), and putget after its first.           *)
WaitsForItsOwn ==
  \A i \in 1 .. pc - 1 :
    Code[i].do = "wait" =>
      \/ CalledBack(AwaitedAt(i))
      \/ i \in expired
      \/ Stale(i)

(* A callback writes to a flag that main has destroyed only if main gave   *)
(* up its wait, went on because of a stale flag, or if it is a listener,   *)
(* which nothing cancels (dhtclient.cpp line 18, putget.cpp line 32).      *)
LateOnlyIfGivenUp ==
  \A o \in late :
    \/ Repeats(o)
    \/ \E i \in DOMAIN Code :
         /\ Code[i].do = "wait" /\ AwaitedAt(i) = o
         /\ i \in expired \/ Stale(i)

GetCalledBack == program = "putget" /\ op[Values + 1] = "called"

(* Every program that has no endless loop ends, even if no callback ever   *)
(* comes; putget alone waits for its last get without a limit (line 41).   *)
ProgramsReturn ==
  program \in {"dhtclient", "dhtclient_async"}
    \/ (program = "putget" /\ <>GetCalledBack)
  => <>(alive = "ended")

=============================================================================
