---------------------------- MODULE NetworkBuffer ----------------------------
(***************************************************************************)
(* One of the two ring buffers of class Network (banknetworkthreads): the  *)
(* array of packets, its two indices, its status string, the method that   *)
(* puts a packet in it (send or transferOut) and the method that gets one  *)
(* out (transferIn or receive), each called by one thread that first       *)
(* busy-waits on the status.                                               *)
(*                                                                         *)
(* The fields of Network are static, its methods are synchronized INSTANCE *)
(* methods: a call holds the monitor of the Network object it is made on,  *)
(* and two calls exclude each other only when they are made on the same    *)
(* object.  PutObject and GetObject are the objects the two threads use.   *)
(* Every access to a shared field is a step of its own; a synchronized     *)
(* getter is one step that needs the monitor of its object free.           *)
(*                                                                         *)
(* Packets are tuples of NbFields values, one per copied field of class    *)
(* Transactions.  The error field and the status stamp are left out: no    *)
(* step of the transfer reads them.                                        *)
(***************************************************************************)
EXTENDS Integers, Sequences

CONSTANTS
  MaxNbPackets,   \* maxNbPackets, the number of slots
  NbFields,       \* fields copied from one Transactions object to another
  Value,          \* the values of a field
  BlankPacket,    \* a Transactions object as its constructor leaves it
  Object,         \* the Network objects of the program
  PutObject,      \* the one the producing thread calls
  GetObject,      \* the one the consuming thread calls
  PutCall,        \* names of the two calls, as holders of a monitor
  GetCall,
  OtherCalls,     \* calls on the other ring buffer of the same objects
  Free            \* the monitor is not held

Field  == 1 .. NbFields
Packet == [Field -> Value]
Slot   == 0 .. (MaxNbPackets - 1)

ASSUME BufferAssumption ==
  /\ MaxNbPackets \in Nat \ {0}
  /\ NbFields \in Nat \ {0}
  /\ BlankPacket \in Packet
  /\ PutObject \in Object
  /\ GetObject \in Object
  /\ PutCall # GetCall
  /\ Free \notin {PutCall, GetCall}
  /\ {PutCall, GetCall, Free} \cap OtherCalls = {}

VARIABLES
  buffer,         \* inComingPacket or outGoingPacket
  inputIndex,     \* next slot to put in
  outputIndex,    \* next slot to get from
  bufferStatus,   \* inBufferStatus or outBufferStatus
  monitor,        \* who holds the monitor of each Network object
  putStep,        \* where the producer is
  putField,       \* next field its call copies
  putPacket,      \* the argument of its call
  getStep,        \* where the consumer is
  getField,       \* next field its call copies
  getPacket       \* the consumer's own Transactions object

putVars  == <<putStep, putField, putPacket>>
getVars  == <<getStep, getField, getPacket>>
ringVars == <<buffer, inputIndex, outputIndex, bufferStatus>>
vars     == <<ringVars, monitor, putVars, getVars>>

Status == {"normal", "full", "empty"}

(* Before the status is written back a call is at the step named after the *)
(* status its comparison chose.                                            *)
PutUpdating == {"compare", "full", "normal"}
GetUpdating == {"compare", "empty", "normal"}
PutCalling  == {"copy", "advance"} \cup PutUpdating
GetCalling  == {"copy", "advance"} \cup GetUpdating

Init ==
  /\ buffer = [s \in Slot |-> BlankPacket]
  /\ inputIndex = 0
  /\ outputIndex = 0
  /\ bufferStatus = "empty"
  /\ monitor = [o \in Object |-> Free]
  /\ putStep = "outside" /\ putField = 1 /\ putPacket = BlankPacket
  /\ getStep = "outside" /\ getField = 1 /\ getPacket = BlankPacket

-----------------------------------------------------------------------------
(* Plausible mistakes, which the properties below must catch.              *)

PutPollIgnoringFull ==
  /\ putStep = "outside"
  /\ monitor[PutObject] = Free
  /\ putStep' = "ready"
  /\ UNCHANGED <<ringVars, monitor, putField, putPacket, getVars>>

PutCompareOneEarly ==
  /\ putStep = "compare"
  /\ putStep' = IF (inputIndex + 1) % MaxNbPackets = outputIndex
                THEN "full" ELSE "normal"
  /\ UNCHANGED <<ringVars, monitor, putField, putPacket, getVars>>

GetCopyAtInputIndex ==
  /\ getStep = "copy"
  /\ getPacket' = [getPacket EXCEPT ![getField] = buffer[inputIndex][getField]]
  /\ IF getField = NbFields
     THEN getStep' = "advance" /\ UNCHANGED getField
     ELSE getField' = getField + 1 /\ UNCHANGED getStep
  /\ UNCHANGED <<ringVars, monitor, putVars>>

-----------------------------------------------------------------------------
NextIndex(index) == (index + 1) % MaxNbPackets

-----------------------------------------------------------------------------
(* The producing thread: leave the busy-wait, then call.                   *)

PutPoll ==
  /\ putStep = "outside"
  /\ monitor[PutObject] = Free
  /\ bufferStatus # "full"
  /\ putStep' = "ready"
  /\ UNCHANGED <<ringVars, monitor, putField, putPacket, getVars>>

PutEnter(packet) ==
  /\ putStep = "ready"
  /\ monitor[PutObject] = Free
  /\ monitor' = [monitor EXCEPT ![PutObject] = PutCall]
  /\ putStep' = "copy"
  /\ putField' = 1
  /\ putPacket' = packet
  /\ UNCHANGED <<ringVars, getVars>>

PutCopy ==
  /\ putStep = "copy"
  /\ buffer' = [buffer EXCEPT ![inputIndex] =
                  [@ EXCEPT ![putField] = putPacket[putField]]]
  /\ IF putField = NbFields
     THEN putStep' = "advance" /\ UNCHANGED putField
     ELSE putField' = putField + 1 /\ UNCHANGED putStep
  /\ UNCHANGED <<inputIndex, outputIndex, bufferStatus, monitor, putPacket,
                 getVars>>

PutAdvance ==
  /\ putStep = "advance"
  /\ inputIndex' = NextIndex(inputIndex)
  /\ putStep' = "compare"
  /\ UNCHANGED <<buffer, outputIndex, bufferStatus, monitor, putField,
                 putPacket, getVars>>

PutCompare ==
  /\ putStep = "compare"
  /\ putStep' = IF inputIndex = outputIndex THEN "full" ELSE "normal"
  /\ UNCHANGED <<ringVars, monitor, putField, putPacket, getVars>>

PutReturn ==
  /\ putStep \in {"full", "normal"}
  /\ bufferStatus' = putStep
  /\ monitor' = [monitor EXCEPT ![PutObject] = Free]
  /\ putStep' = "outside"
  /\ UNCHANGED <<buffer, inputIndex, outputIndex, putField, putPacket, getVars>>

-----------------------------------------------------------------------------
(* The consuming thread.                                                   *)

GetPoll ==
  /\ getStep = "outside"
  /\ monitor[GetObject] = Free
  /\ bufferStatus # "empty"
  /\ getStep' = "ready"
  /\ UNCHANGED <<ringVars, monitor, putVars, getField, getPacket>>

GetEnter ==
  /\ getStep = "ready"
  /\ monitor[GetObject] = Free
  /\ monitor' = [monitor EXCEPT ![GetObject] = GetCall]
  /\ getStep' = "copy"
  /\ getField' = 1
  /\ UNCHANGED <<ringVars, putVars, getPacket>>

GetCopy ==
  /\ getStep = "copy"
  /\ getPacket' = [getPacket EXCEPT ![getField] = buffer[outputIndex][getField]]
  /\ IF getField = NbFields
     THEN getStep' = "advance" /\ UNCHANGED getField
     ELSE getField' = getField + 1 /\ UNCHANGED getStep
  /\ UNCHANGED <<ringVars, monitor, putVars>>

GetAdvance ==
  /\ getStep = "advance"
  /\ outputIndex' = NextIndex(outputIndex)
  /\ getStep' = "compare"
  /\ UNCHANGED <<buffer, inputIndex, bufferStatus, monitor, putVars, getField,
                 getPacket>>

GetCompare ==
  /\ getStep = "compare"
  /\ getStep' = IF outputIndex = inputIndex THEN "empty" ELSE "normal"
  /\ UNCHANGED <<ringVars, monitor, putVars, getField, getPacket>>

GetReturn ==
  /\ getStep \in {"empty", "normal"}
  /\ bufferStatus' = getStep
  /\ monitor' = [monitor EXCEPT ![GetObject] = Free]
  /\ getStep' = "outside"
  /\ UNCHANGED <<buffer, inputIndex, outputIndex, putVars, getField, getPacket>>

(* Outside a call the consumer may write to its own object (the server     *)
(* stores the new balance in it).                                          *)
GetterWrites(packet) ==
  /\ getStep = "outside"
  /\ getPacket' = packet
  /\ UNCHANGED <<ringVars, monitor, putVars, getStep, getField>>

-----------------------------------------------------------------------------
(* Calls on the other ring buffer take and release the same monitors.      *)

OtherEnter(o, c) ==
  /\ monitor[o] = Free
  /\ monitor' = [monitor EXCEPT ![o] = c]
  /\ UNCHANGED <<ringVars, putVars, getVars>>

OtherReturn(o) ==
  /\ monitor[o] \in OtherCalls
  /\ monitor' = [monitor EXCEPT ![o] = Free]
  /\ UNCHANGED <<ringVars, putVars, getVars>>

-----------------------------------------------------------------------------
Put ==
  \/ PutPoll
  \/ \E p \in Packet : PutEnter(p)
  \/ PutCopy \/ PutAdvance \/ PutCompare \/ PutReturn

Get ==
  \/ GetPoll \/ GetEnter \/ GetCopy \/ GetAdvance \/ GetCompare \/ GetReturn
  \/ \E p \in Packet : GetterWrites(p)

Other ==
  \E o \in Object :
    \/ \E c \in OtherCalls : OtherEnter(o, c)
    \/ OtherReturn(o)

Next == Put \/ Get \/ Other

Spec == Init /\ [][Next]_vars

-----------------------------------------------------------------------------
(* How many packets are in the ring, and which.  Equal indices mean an     *)
(* empty or a full ring; the index moved last, or the status once it is    *)
(* written back, tells which.                                              *)

RingFull ==
  /\ inputIndex = outputIndex
  /\ \/ putStep \in PutUpdating
     \/ getStep \notin GetUpdating /\ bufferStatus = "full"

Occupancy ==
  IF inputIndex = outputIndex
  THEN IF RingFull THEN MaxNbPackets ELSE 0
  ELSE IF inputIndex > outputIndex
       THEN inputIndex - outputIndex
       ELSE inputIndex - outputIndex + MaxNbPackets

SlotAt(k) ==
  IF outputIndex + k < MaxNbPackets
  THEN outputIndex + k
  ELSE outputIndex + k - MaxNbPackets

InTransit == [k \in 1 .. Occupancy |-> buffer[SlotAt(k - 1)]]

Fifo == INSTANCE PacketFifo
          WITH Capacity <- MaxNbPackets, outbox <- putPacket,
               queue <- InTransit, inbox <- getPacket

(* The two threads share one Network object, or they do not.               *)
OneObject == PutObject = GetObject

(* The two threads are not both between moving their index and writing the *)
(* status back.  One object enforces it; two objects leave it to chance.   *)
UpdatesApart == ~(putStep \in PutUpdating /\ getStep \in GetUpdating)

-----------------------------------------------------------------------------
TypeOK ==
  /\ buffer \in [Slot -> Packet]
  /\ inputIndex \in Slot
  /\ outputIndex \in Slot
  /\ bufferStatus \in Status
  /\ monitor \in [Object -> {Free, PutCall, GetCall} \cup OtherCalls]
  /\ putStep \in {"outside", "ready"} \cup PutCalling
  /\ putField \in Field
  /\ putPacket \in Packet
  /\ getStep \in {"outside", "ready"} \cup GetCalling
  /\ getField \in Field
  /\ getPacket \in Packet

(* The status string tells the truth whenever no call is between moving an *)
(* index and writing the status back: "normal" exactly when the indices    *)
(* differ (Network.java 362-370, 392-401, 425-434 and 458-467).            *)
StatusTruthful ==
  putStep \notin PutUpdating /\ getStep \notin GetUpdating
    => (bufferStatus = "normal" <=> inputIndex # outputIndex)

(* The status is read before the call and the call does not check again:   *)
(* between the two the ring can neither fill up under the producer nor     *)
(* empty under the consumer (Client.java 153-162 and 181-185, Server.java  *)
(* 193-197 and 230-234).                                                   *)
PollStaysValid ==
  /\ putStep \in {"ready", "copy", "advance"} => Occupancy < MaxNbPackets
  /\ getStep \in {"ready", "copy", "advance"} => Occupancy > 0

(* Every packet is delivered whole, once, in the order it was put, and no  *)
(* packet is overwritten before it is taken: the packets of                *)
(* Network.java:13 and :14 form a bounded queue.                           *)
DeliversInOrder == Fifo!Spec

-----------------------------------------------------------------------------
(* The inductive invariant behind them, whatever objects the threads use,  *)
(* for as long as UpdatesApart has held.                                   *)

MonitorHeld ==
  /\ putStep \in PutCalling <=> monitor[PutObject] = PutCall
  /\ getStep \in GetCalling <=> monitor[GetObject] = GetCall

ComparisonHolds ==
  /\ putStep \in {"full", "normal"} =>
       (putStep = "full" <=> inputIndex = outputIndex)
  /\ getStep \in {"empty", "normal"} =>
       (getStep = "empty" <=> inputIndex = outputIndex)

PollRemembered ==
  /\ putStep \in {"ready", "copy", "advance"} => bufferStatus # "full"
  /\ getStep \in {"ready", "copy", "advance"} => bufferStatus # "empty"

CopiedSoFar ==
  /\ putStep = "copy" =>
       \A f \in Field : f < putField => buffer[inputIndex][f] = putPacket[f]
  /\ putStep = "advance" => buffer[inputIndex] = putPacket
  /\ getStep = "copy" =>
       \A f \in Field : f < getField => getPacket[f] = buffer[outputIndex][f]
  /\ getStep = "advance" => getPacket = buffer[outputIndex]

(* What a call has compared or copied so far, and what its caller read in  *)
(* the status, is still so (Network.java 349-470).                         *)
RingInv ==
  /\ TypeOK
  /\ MonitorHeld
  /\ StatusTruthful
  /\ ComparisonHolds
  /\ PollRemembered
  /\ CopiedSoFar

=============================================================================
