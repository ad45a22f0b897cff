---------------------------- MODULE BoundedBuffer ----------------------------
(***************************************************************************)
(* python/boundedbuffer_semaphore.py: producers and consumers share a list *)
(* of slots, two indices and a counter under one semaphore.  A thread that *)
(* finds nothing to do leaves the with block by continue and tries again.  *)
(* Every statement that touches a shared variable is a step; the sleep     *)
(* after a round touches none and is left out.                             *)
(***************************************************************************)
EXTENDS Integers

CONSTANTS
  Producer,   \* the threads that run produce (10 to 20 in the program)
  Consumer,   \* the threads that run consume (10 to 20)
  buf_size    \* slots of the buffer (10)

ASSUME BufferAssumption ==
  /\ buf_size \in Nat \ {0}
  /\ Producer \cap Consumer = {}

Thread == Producer \cup Consumer
Slot   == 0 .. (buf_size - 1)
Blank  == " "
Item   == "x"

VARIABLES
  semaphore,     \* permits of s
  buf,           \* the slots
  producer_idx,  \* next slot to fill
  consumer_idx,  \* next slot to empty
  counter,       \* slots filled
  printed,       \* the last line printed
  pc             \* the statement each thread is at

shared == <<buf, producer_idx, consumer_idx, counter, printed>>
vars   == <<semaphore, shared, pc>>

Goes(t, to) == pc' = [pc EXCEPT ![t] = to]

Init ==
  /\ semaphore = 1
  /\ buf = [i \in Slot |-> Blank]
  /\ producer_idx = 0
  /\ consumer_idx = 0
  /\ counter = 0
  /\ printed = [what |-> "nothing", item |-> Blank, index |-> 0]
  /\ pc = [t \in Thread |-> "acquire"]

-----------------------------------------------------------------------------
(* Plausible mistakes, which the properties below must catch.              *)

TestFullLate(t) ==
  /\ pc[t] = "test"
  /\ Goes(t, IF counter > buf_size THEN "release" ELSE "write")
  /\ UNCHANGED <<semaphore, shared>>

AcquireAnyway(t) ==
  /\ pc[t] = "acquire"
  /\ Goes(t, "test")
  /\ UNCHANGED <<semaphore, shared>>

ContinueWithoutRelease(t) ==
  /\ pc[t] = "test"
  /\ Goes(t, IF counter = 0 THEN "acquire" ELSE "write")
  /\ UNCHANGED <<semaphore, shared>>

-----------------------------------------------------------------------------
NextIndex(i) == (i + 1) % buf_size

(* with s: *)
Acquire(t) ==
  /\ pc[t] = "acquire"
  /\ semaphore > 0
  /\ semaphore' = semaphore - 1
  /\ Goes(t, "test")
  /\ UNCHANGED shared

(* The end of the with block, by continue or after the last statement. *)
Release(t) ==
  /\ pc[t] = "release"
  /\ semaphore' = semaphore + 1
  /\ Goes(t, "acquire")
  /\ UNCHANGED shared

-----------------------------------------------------------------------------
TestFull(t) ==
  /\ pc[t] = "test"
  /\ Goes(t, IF counter = buf_size THEN "release" ELSE "write")
  /\ UNCHANGED <<semaphore, shared>>

Fill(t) ==
  /\ pc[t] = "write"
  /\ buf' = [buf EXCEPT ![producer_idx] = Item]
  /\ Goes(t, "advance")
  /\ UNCHANGED <<semaphore, producer_idx, consumer_idx, counter, printed>>

AdvanceProducer(t) ==
  /\ pc[t] = "advance"
  /\ producer_idx' = NextIndex(producer_idx)
  /\ Goes(t, "print")
  /\ UNCHANGED <<semaphore, buf, consumer_idx, counter, printed>>

PrintProduced(t) ==
  /\ pc[t] = "print"
  /\ printed' = [what |-> "produced", item |-> Item, index |-> producer_idx]
  /\ Goes(t, "count")
  /\ UNCHANGED <<semaphore, buf, producer_idx, consumer_idx, counter>>

CountUp(t) ==
  /\ pc[t] = "count"
  /\ counter' = counter + 1
  /\ Goes(t, "release")
  /\ UNCHANGED <<semaphore, buf, producer_idx, consumer_idx, printed>>

Produce(t) ==
  \/ Acquire(t) \/ TestFull(t) \/ Fill(t) \/ AdvanceProducer(t)
  \/ PrintProduced(t) \/ CountUp(t) \/ Release(t)

-----------------------------------------------------------------------------
TestEmpty(t) ==
  /\ pc[t] = "test"
  /\ Goes(t, IF counter = 0 THEN "release" ELSE "write")
  /\ UNCHANGED <<semaphore, shared>>

Clear(t) ==
  /\ pc[t] = "write"
  /\ buf' = [buf EXCEPT ![consumer_idx] = Blank]
  /\ Goes(t, "advance")
  /\ UNCHANGED <<semaphore, producer_idx, consumer_idx, counter, printed>>

AdvanceConsumer(t) ==
  /\ pc[t] = "advance"
  /\ consumer_idx' = NextIndex(consumer_idx)
  /\ Goes(t, "print")
  /\ UNCHANGED <<semaphore, buf, producer_idx, counter, printed>>

PrintConsumed(t) ==
  /\ pc[t] = "print"
  /\ printed' = [what |-> "consumed", item |-> buf[consumer_idx],
                 index |-> consumer_idx]
  /\ Goes(t, "count")
  /\ UNCHANGED <<semaphore, buf, producer_idx, consumer_idx, counter>>

CountDown(t) ==
  /\ pc[t] = "count"
  /\ counter' = counter - 1
  /\ Goes(t, "release")
  /\ UNCHANGED <<semaphore, buf, producer_idx, consumer_idx, printed>>

Consume(t) ==
  \/ Acquire(t) \/ TestEmpty(t) \/ Clear(t) \/ AdvanceConsumer(t)
  \/ PrintConsumed(t) \/ CountDown(t) \/ Release(t)

-----------------------------------------------------------------------------
Next == (\E t \in Producer : Produce(t)) \/ (\E t \in Consumer : Consume(t))

Spec == Init /\ [][Next]_vars

-----------------------------------------------------------------------------
(* A thread between its write and its count has moved the stock but not    *)
(* the counter; one between its write and its advance not the index.       *)

Holding(t)   == pc[t] # "acquire"
Uncounted(S) == \E t \in S : pc[t] \in {"advance", "print", "count"}
Advancing(S) == \E t \in S : pc[t] = "advance"

Stock ==
  counter + (IF Uncounted(Producer) THEN 1 ELSE 0)
          - (IF Uncounted(Consumer) THEN 1 ELSE 0)

FirstFilled ==
  IF Advancing(Consumer) THEN NextIndex(consumer_idx) ELSE consumer_idx
FirstFree   ==
  IF Advancing(Producer) THEN NextIndex(producer_idx) ELSE producer_idx

(* How many slots i is ahead of the first filled one.                      *)
Ahead(i) ==
  IF i >= FirstFilled THEN i - FirstFilled ELSE i - FirstFilled + buf_size

-----------------------------------------------------------------------------
TypeOK ==
  /\ semaphore \in Nat
  /\ buf \in [Slot -> {Blank, Item}]
  /\ producer_idx \in Slot
  /\ consumer_idx \in Slot
  /\ counter \in 0 .. buf_size
  /\ printed \in [what : {"nothing", "produced", "consumed"},
                  item : {Blank, Item}, index : Slot]
  /\ pc \in [Thread -> {"acquire", "test", "write", "advance", "print",
                        "count", "release"}]

(* Whenever no thread is inside the with block, the counter, the indices   *)
(* and the list agree: the filled slots are the counter ones from          *)
(* consumer_idx on, and producer_idx is the slot after them (lines 23-31   *)
(* and 38-46).                                                             *)
SharedStateAgrees ==
  semaphore = 1 =>
    /\ \A i \in Slot : buf[i] = Item <=>
         (IF i >= consumer_idx THEN i - consumer_idx
          ELSE i - consumer_idx + buf_size) < counter
    /\ \/ producer_idx = consumer_idx + counter
       \/ producer_idx = consumer_idx + counter - buf_size

(* A producer fills only an empty slot and a consumer empties only a       *)
(* filled one, whatever the other threads did since they last tested the   *)
(* counter (lines 24-27 and 39-42).                                        *)
NoOverwrite ==
  [][/\ \A t \in Producer :
          pc[t] = "write" /\ pc'[t] # "write" => buf[producer_idx] = Blank
     /\ \A t \in Consumer :
          pc[t] = "write" /\ pc'[t] # "write" => buf[consumer_idx] = Item]_vars

-----------------------------------------------------------------------------
(* The inductive invariant behind them.                                    *)

MutualExclusion ==
  /\ semaphore \in {0, 1}
  /\ semaphore = 1 <=> \A t \in Thread : ~Holding(t)
  /\ \A t, u \in Thread : Holding(t) /\ Holding(u) => t = u

(* The test that let a thread in stays true until it counts.               *)
TestHolds ==
  /\ \A t \in Producer :
       pc[t] \in {"write", "advance", "print", "count"} => counter < buf_size
  /\ \A t \in Consumer :
       pc[t] \in {"write", "advance", "print", "count"} => counter > 0

StockContiguous ==
  /\ \A i \in Slot : buf[i] = Item <=> Ahead(i) < Stock
  /\ FirstFree = FirstFilled + Stock \/ FirstFree = FirstFilled + Stock - buf_size

(* At most one thread is inside the with block, what it tested still       *)
(* holds, and the filled slots are the stock from the first one on         *)
(* (lines 22-31 and 37-46).                                                *)
BufferInv ==
  TypeOK /\ MutualExclusion /\ TestHolds /\ StockContiguous

=============================================================================
