------------------------- MODULE NetworkBufferProofs -------------------------
(***************************************************************************)
(* What holds of NetworkBuffer for every number of slots, of fields and of *)
(* values, and whatever objects the two threads call.  Type correctness    *)
(* and the use of the monitors hold of every behaviour; the rest holds of  *)
(* a behaviour whose index updates stay apart, which with one object they  *)
(* do and with two they may fail to.                                       *)
(***************************************************************************)
EXTENDS NetworkBuffer, SequenceTheorems, TLAPS

(* The index arithmetic stays in the ring. *)
LEMMA NextIndexInRing ==
  ASSUME NEW i \in Slot
  PROVE  /\ NextIndex(i) \in Slot
         /\ NextIndex(i) = IF i + 1 = MaxNbPackets THEN 0 ELSE i + 1
  BY BufferAssumption DEF NextIndex, Slot

LEMMA TypeInit == Init => TypeOK
  BY BufferAssumption DEF Init, TypeOK, Slot, Field, Packet, Status, PutCalling,
     GetCalling, PutUpdating, GetUpdating

LEMMA TypeStep ==
  ASSUME TypeOK, [Next]_vars
  PROVE  TypeOK'
<1> USE BufferAssumption DEF TypeOK
<1>1. CASE PutPoll
  BY <1>1 DEF PutPoll, ringVars, getVars, PutCalling
<1>2. ASSUME NEW p \in Packet, PutEnter(p) PROVE TypeOK'
  BY <1>2 DEF PutEnter, ringVars, getVars, PutCalling, Field
<1>3. CASE PutCopy
  <2>1. buffer' \in [Slot -> Packet]
    BY <1>3 DEF PutCopy, Packet
  <2>2. putStep' \in {"outside", "ready"} \cup PutCalling /\ putField' \in Field
    BY <1>3 DEF PutCopy, PutCalling, Field
  <2> QED BY <1>3, <2>1, <2>2 DEF PutCopy, getVars
<1>4. CASE PutAdvance
  BY <1>4, NextIndexInRing DEF PutAdvance, getVars, PutCalling, PutUpdating
<1>5. CASE PutCompare
  BY <1>5 DEF PutCompare, ringVars, getVars, PutCalling, PutUpdating
<1>6. CASE PutReturn
  BY <1>6 DEF PutReturn, getVars, Status
<1>7. CASE GetPoll
  BY <1>7 DEF GetPoll, ringVars, putVars
<1>8. CASE GetEnter
  BY <1>8 DEF GetEnter, ringVars, putVars, GetCalling, Field
<1>9. CASE GetCopy
  <2>1. getPacket' \in Packet
    BY <1>9 DEF GetCopy, Packet
  <2>2. getStep' \in {"outside", "ready"} \cup GetCalling /\ getField' \in Field
    BY <1>9 DEF GetCopy, GetCalling, Field
  <2> QED BY <1>9, <2>1, <2>2 DEF GetCopy, ringVars, putVars
<1>10. CASE GetAdvance
  BY <1>10, NextIndexInRing DEF GetAdvance, putVars, GetCalling, GetUpdating
<1>11. CASE GetCompare
  BY <1>11 DEF GetCompare, ringVars, putVars, GetCalling, GetUpdating
<1>12. CASE GetReturn
  BY <1>12 DEF GetReturn, putVars, Status
<1>13. ASSUME NEW p \in Packet, GetterWrites(p) PROVE TypeOK'
  BY <1>13 DEF GetterWrites, ringVars, putVars
<1>14. ASSUME NEW o \in Object, NEW c \in OtherCalls, OtherEnter(o, c) PROVE TypeOK'
  BY <1>14 DEF OtherEnter, ringVars, putVars, getVars
<1>15. ASSUME NEW o \in Object, OtherReturn(o) PROVE TypeOK'
  BY <1>15 DEF OtherReturn, ringVars, putVars, getVars
<1>16. CASE UNCHANGED vars
  BY <1>16 DEF vars, ringVars, putVars, getVars
<1> QED
  BY <1>1, <1>2, <1>3, <1>4, <1>5, <1>6, <1>7, <1>8, <1>9, <1>10, <1>11,
     <1>12, <1>13, <1>14, <1>15, <1>16 DEF Next, Put, Get, Other

(* Every variable of the ring buffer keeps its type, in every interleaving *)
(* of send or transferOut with transferIn or receive.                      *)
THEOREM TypeCorrect == Spec => []TypeOK
  BY TypeInit, TypeStep, PTL DEF Spec

-----------------------------------------------------------------------------
(* Whatever objects the threads use, a thread is inside a call exactly     *)
(* while the call holds the monitor of its object, and a call takes a      *)
(* monitor that is free and gives back the one it holds.                   *)
LEMMA HeldStep ==
  ASSUME TypeOK, MonitorHeld, [Next]_vars
  PROVE  MonitorHeld'
<1> USE BufferAssumption DEF TypeOK, MonitorHeld, PutCalling, GetCalling,
     PutUpdating, GetUpdating
<1>1. CASE Put
  BY <1>1 DEF Put, PutPoll, PutEnter, PutCopy, PutAdvance, PutCompare,
     PutReturn, ringVars, getVars
<1>2. CASE Get
  BY <1>2 DEF Get, GetPoll, GetEnter, GetCopy, GetAdvance, GetCompare,
     GetReturn, GetterWrites, ringVars, putVars
<1>3. CASE Other
  BY <1>3 DEF Other, OtherEnter, OtherReturn, ringVars, putVars, getVars
<1>4. CASE UNCHANGED vars
  BY <1>4 DEF vars, ringVars, putVars, getVars
<1> QED
  BY <1>1, <1>2, <1>3, <1>4 DEF Next

LEMMA PutHolds ==
  ASSUME MonitorHeld, Put
  PROVE  \/ UNCHANGED monitor
         \/ /\ monitor[PutObject] = Free
            /\ monitor' = [monitor EXCEPT ![PutObject] = PutCall]
         \/ /\ monitor[PutObject] = PutCall
            /\ monitor' = [monitor EXCEPT ![PutObject] = Free]
  BY DEF MonitorHeld, PutCalling, PutUpdating, Put, PutPoll, PutEnter, PutCopy,
     PutAdvance, PutCompare, PutReturn

LEMMA GetHolds ==
  ASSUME MonitorHeld, Get
  PROVE  \/ UNCHANGED monitor
         \/ /\ monitor[GetObject] = Free
            /\ monitor' = [monitor EXCEPT ![GetObject] = GetCall]
         \/ /\ monitor[GetObject] = GetCall
            /\ monitor' = [monitor EXCEPT ![GetObject] = Free]
  BY DEF MonitorHeld, GetCalling, GetUpdating, Get, GetPoll, GetEnter, GetCopy,
     GetAdvance, GetCompare, GetReturn, GetterWrites

LEMMA HeldInit == Init => MonitorHeld
  BY BufferAssumption DEF Init, MonitorHeld, PutCalling, GetCalling,
     PutUpdating, GetUpdating

LEMMA RingInit == Init => RingInv
  BY TypeInit, BufferAssumption DEF Init, RingInv, MonitorHeld, StatusTruthful,
     ComparisonHolds, PollRemembered, CopiedSoFar, PutCalling, GetCalling,
     PutUpdating, GetUpdating

LEMMA RingStep ==
  ASSUME RingInv, UpdatesApart, UpdatesApart', [Next]_vars
  PROVE  RingInv'
<1> USE BufferAssumption DEF RingInv
<1> USE DEF PutCalling, GetCalling, PutUpdating, GetUpdating
<1>1. TypeOK'
  BY TypeStep
<1>2. /\ ~(putStep \in PutUpdating /\ getStep \in GetUpdating)
      /\ ~(putStep' \in PutUpdating /\ getStep' \in GetUpdating)
  BY DEF UpdatesApart
<1>3. CASE PutPoll
  BY <1>1, <1>2, <1>3 DEF PutPoll, ringVars, getVars, TypeOK, MonitorHeld, StatusTruthful, ComparisonHolds,
     PollRemembered, CopiedSoFar
<1>4. ASSUME NEW p \in Packet, PutEnter(p) PROVE RingInv'
  <2>1. MonitorHeld'
    BY <1>2, <1>4 DEF PutEnter, ringVars, getVars, TypeOK, MonitorHeld
  <2>2. StatusTruthful' /\ ComparisonHolds' /\ PollRemembered'
    BY <1>2, <1>4 DEF PutEnter, ringVars, getVars, MonitorHeld,
       StatusTruthful, ComparisonHolds, PollRemembered
  <2>3. CopiedSoFar'
    BY <1>2, <1>4 DEF PutEnter, ringVars, getVars, MonitorHeld, TypeOK, Field,
       CopiedSoFar
  <2> QED BY <1>1, <2>1, <2>2, <2>3
<1>5. CASE PutCopy
  <2>0. getStep \in {"copy", "advance"} => inputIndex # outputIndex
    BY <1>5 DEF PutCopy, StatusTruthful, PollRemembered, TypeOK, Status
  <2>1. \A f \in Field : f <= putField => buffer'[inputIndex][f] = putPacket[f]
    BY <1>5 DEF PutCopy, CopiedSoFar, TypeOK, Packet, Field
  <2>2. CASE putField = NbFields
    <3>1. buffer'[inputIndex] = putPacket
      BY <2>1, <2>2, <1>1, <1>5 DEF PutCopy, TypeOK, Packet, Field
    <3> QED
      BY <1>1, <1>2, <1>5, <2>0, <2>2, <3>1 DEF PutCopy, getVars, TypeOK, MonitorHeld,
         StatusTruthful, ComparisonHolds, PollRemembered, CopiedSoFar
  <2>3. CASE putField # NbFields
    <3>1. \A f \in Field : f < putField' => buffer'[inputIndex][f] = putPacket[f]
      BY <2>1, <2>3, <1>5 DEF PutCopy, TypeOK, Field
    <3> QED
      BY <1>1, <1>2, <1>5, <2>0, <2>3, <3>1 DEF PutCopy, getVars, TypeOK, MonitorHeld,
         StatusTruthful, ComparisonHolds, PollRemembered, CopiedSoFar
  <2> QED BY <2>2, <2>3
<1>6. CASE PutAdvance
  <2>1. MonitorHeld'
    BY <1>2, <1>6 DEF PutAdvance, getVars, TypeOK, MonitorHeld
  <2>2. StatusTruthful' /\ ComparisonHolds' /\ PollRemembered'
    BY <1>2, <1>6 DEF PutAdvance, getVars, MonitorHeld,
       StatusTruthful, ComparisonHolds, PollRemembered
  <2>3. CopiedSoFar'
    BY <1>2, <1>6 DEF PutAdvance, getVars, MonitorHeld, TypeOK,
       CopiedSoFar
  <2> QED BY <1>1, <2>1, <2>2, <2>3
<1>7. CASE PutCompare
  BY <1>1, <1>2, <1>7 DEF PutCompare, ringVars, getVars, TypeOK, MonitorHeld, StatusTruthful, ComparisonHolds,
     PollRemembered, CopiedSoFar
<1>8. CASE PutReturn
  BY <1>1, <1>2, <1>8 DEF PutReturn, getVars, TypeOK, MonitorHeld, StatusTruthful, ComparisonHolds,
     PollRemembered, CopiedSoFar
<1>9. CASE GetPoll
  BY <1>1, <1>2, <1>9 DEF GetPoll, ringVars, putVars, TypeOK, MonitorHeld, StatusTruthful, ComparisonHolds,
     PollRemembered, CopiedSoFar
<1>10. CASE GetEnter
  <2>1. MonitorHeld'
    BY <1>2, <1>10 DEF GetEnter, ringVars, putVars, TypeOK, MonitorHeld
  <2>2. StatusTruthful' /\ ComparisonHolds' /\ PollRemembered'
    BY <1>2, <1>10 DEF GetEnter, ringVars, putVars, MonitorHeld,
       StatusTruthful, ComparisonHolds, PollRemembered
  <2>3. CopiedSoFar'
    BY <1>2, <1>10 DEF GetEnter, ringVars, putVars, MonitorHeld, TypeOK, Field,
       CopiedSoFar
  <2> QED BY <1>1, <2>1, <2>2, <2>3
<1>11. CASE GetCopy
  <2>1. \A f \in Field : f <= getField => getPacket'[f] = buffer[outputIndex][f]
    BY <1>11 DEF GetCopy, CopiedSoFar, TypeOK, Packet, Field
  <2>2. CASE getField = NbFields
    <3>1. getPacket' = buffer[outputIndex]
      BY <2>1, <2>2, <1>1, <1>11 DEF GetCopy, TypeOK, Packet, Field, ringVars
    <3> QED
      BY <1>1, <1>2, <1>11, <2>2, <3>1 DEF GetCopy, ringVars, putVars, MonitorHeld,
         StatusTruthful, ComparisonHolds, PollRemembered, CopiedSoFar
  <2>3. CASE getField # NbFields
    <3>1. \A f \in Field : f < getField' => getPacket'[f] = buffer[outputIndex][f]
      BY <2>1, <2>3, <1>11 DEF GetCopy, TypeOK, Field
    <3> QED
      BY <1>1, <1>2, <1>11, <2>3, <3>1 DEF GetCopy, ringVars, putVars, MonitorHeld,
         StatusTruthful, ComparisonHolds, PollRemembered, CopiedSoFar
  <2> QED BY <2>2, <2>3
<1>12. CASE GetAdvance
  <2>1. MonitorHeld'
    BY <1>2, <1>12 DEF GetAdvance, putVars, TypeOK, MonitorHeld
  <2>2. StatusTruthful' /\ ComparisonHolds' /\ PollRemembered'
    BY <1>2, <1>12 DEF GetAdvance, putVars, MonitorHeld,
       StatusTruthful, ComparisonHolds, PollRemembered
  <2>3. CopiedSoFar'
    BY <1>2, <1>12 DEF GetAdvance, putVars, MonitorHeld, TypeOK,
       CopiedSoFar
  <2> QED BY <1>1, <2>1, <2>2, <2>3
<1>13. CASE GetCompare
  BY <1>1, <1>2, <1>13 DEF GetCompare, ringVars, putVars, TypeOK, MonitorHeld, StatusTruthful, ComparisonHolds,
     PollRemembered, CopiedSoFar
<1>14. CASE GetReturn
  BY <1>1, <1>2, <1>14 DEF GetReturn, putVars, TypeOK, MonitorHeld, StatusTruthful, ComparisonHolds,
     PollRemembered, CopiedSoFar
<1>15. ASSUME NEW p \in Packet, GetterWrites(p) PROVE RingInv'
  BY <1>1, <1>2, <1>15 DEF GetterWrites, ringVars, putVars, TypeOK, MonitorHeld, StatusTruthful, ComparisonHolds,
     PollRemembered, CopiedSoFar
<1>16. ASSUME NEW o \in Object, NEW c \in OtherCalls, OtherEnter(o, c) PROVE RingInv'
  BY <1>1, <1>2, <1>16 DEF OtherEnter, ringVars, putVars, getVars, TypeOK, MonitorHeld, StatusTruthful, ComparisonHolds,
     PollRemembered, CopiedSoFar
<1>17. ASSUME NEW o \in Object, OtherReturn(o) PROVE RingInv'
  BY <1>1, <1>2, <1>17 DEF OtherReturn, ringVars, putVars, getVars, TypeOK, MonitorHeld, StatusTruthful, ComparisonHolds,
     PollRemembered, CopiedSoFar
<1>18. CASE UNCHANGED vars
  BY <1>1, <1>18 DEF vars, ringVars, putVars, getVars, MonitorHeld, StatusTruthful, ComparisonHolds,
     PollRemembered, CopiedSoFar
<1> QED
  BY <1>3, <1>4, <1>5, <1>6, <1>7, <1>8, <1>9, <1>10, <1>11,
     <1>12, <1>13, <1>14, <1>15, <1>16, <1>17, <1>18 DEF Next, Put, Get, Other

(* Whatever send or transferOut and transferIn or receive do, on one       *)
(* Network object or on two, each finds the ring as it left it or as its   *)
(* caller saw it through the status, unless two calls have been between    *)
(* their index and their status at once.                                   *)
THEOREM RingInvariant == Spec /\ []UpdatesApart => []RingInv
<1>1. RingInv /\ UpdatesApart /\ UpdatesApart' /\ [Next]_vars => RingInv'
  BY RingStep
<1> QED
  BY <1>1, RingInit, PTL DEF Spec

(* The status string of a buffer lies about its indices only after two     *)
(* calls have been between their index and their status at once.           *)
THEOREM StatusAlwaysTruthful == Spec /\ []UpdatesApart => []StatusTruthful
<1>1. RingInv => StatusTruthful
  BY DEF RingInv
<1> QED
  BY <1>1, RingInvariant, PTL

LEMMA RoomOrPacket ==
  ASSUME RingInv, UpdatesApart
  PROVE  PollStaysValid
  BY BufferAssumption DEF UpdatesApart, RingInv, TypeOK, StatusTruthful,
     PollRemembered, PollStaysValid, Occupancy, RingFull, Slot, Status,
     PutUpdating, GetUpdating

(* The busy-wait before a call and the call itself are as good as one      *)
(* atomic test, although they take no common lock: the ring still has      *)
(* room, or a packet, when the call runs, unless two calls have been       *)
(* between their index and their status at once.                           *)
THEOREM PollAlwaysValid == Spec /\ []UpdatesApart => []PollStaysValid
<1>1. RingInv /\ UpdatesApart => PollStaysValid
  BY RoomOrPacket
<1> QED
  BY <1>1, RingInvariant, PTL

(* Threads that share one Network object keep their updates apart: the     *)
(* monitor lets one of the two calls in at a time.                         *)
THEOREM OneObjectKeepsApart ==
  ASSUME OneObject
  PROVE  Spec => []UpdatesApart
<1>1. MonitorHeld => UpdatesApart
  BY BufferAssumption DEF OneObject, MonitorHeld, UpdatesApart, PutCalling,
     GetCalling
<1>2. TypeOK /\ MonitorHeld /\ [Next]_vars => MonitorHeld'
  BY HeldStep
<1> QED
  BY <1>1, <1>2, HeldInit, TypeCorrect, PTL DEF Spec

-----------------------------------------------------------------------------
(* The packets of the ring as a sequence.                                  *)

LEMMA OccupancyRange ==
  ASSUME TypeOK
  PROVE  Occupancy \in 0 .. MaxNbPackets
  BY BufferAssumption DEF TypeOK, Occupancy, Slot

(* The slots in use are the Occupancy slots from the output index on; the  *)
(* input index is the one after them.                                      *)
LEMMA SlotsInUse ==
  ASSUME TypeOK
  PROVE  /\ \A k \in 0 .. (Occupancy - 1) : SlotAt(k) \in Slot
         /\ Occupancy < MaxNbPackets =>
              /\ SlotAt(Occupancy) = inputIndex
              /\ \A k \in 0 .. (Occupancy - 1) : SlotAt(k) # inputIndex
         /\ SlotAt(0) = outputIndex
  BY BufferAssumption DEF TypeOK, Occupancy, Slot, SlotAt

LEMMA InTransitIsSequence ==
  ASSUME TypeOK
  PROVE  /\ InTransit \in Seq(Packet)
         /\ Len(InTransit) = Occupancy
         /\ \A k \in 1 .. Occupancy : InTransit[k] = buffer[SlotAt(k - 1)]
<1>1. Occupancy \in Nat
  BY OccupancyRange, BufferAssumption
<1>2. \A k \in 1 .. Occupancy : buffer[SlotAt(k - 1)] \in Packet
  BY <1>1, SlotsInUse DEF TypeOK
<1>3. InTransit \in [1 .. Occupancy -> Packet]
  BY <1>2 DEF InTransit
<1>4. InTransit \in Seq(Packet)
  BY <1>1, <1>3, SeqDef
<1>5. Len(InTransit) = Occupancy
  BY <1>1, <1>3, <1>4, LenProperties
<1> QED
  BY <1>4, <1>5 DEF InTransit

(* The same in the state after a step. *)
LEMMA InTransitIsSequenceAfter ==
  TypeOK' => InTransit' \in Seq(Packet) /\ Len(InTransit') = Occupancy'
<1>1. TypeOK => InTransit \in Seq(Packet) /\ Len(InTransit) = Occupancy
  BY InTransitIsSequence
<1>2. TypeOK' => (InTransit \in Seq(Packet) /\ Len(InTransit) = Occupancy)'
  BY <1>1, PTL
<1> QED BY <1>2 DEF Packet, Field

LEMMA InTransitKept ==
  ASSUME TypeOK, TypeOK', Occupancy' = Occupancy, outputIndex' = outputIndex,
         \A k \in 0 .. (Occupancy - 1) : buffer'[SlotAt(k)] = buffer[SlotAt(k)]
  PROVE  InTransit' = InTransit
<1>1. Occupancy \in Nat
  BY OccupancyRange, BufferAssumption
<1>2. \A k \in 1 .. Occupancy : buffer'[SlotAt(k - 1)'] = buffer[SlotAt(k - 1)]
  BY <1>1 DEF SlotAt
<1> QED
  BY <1>2 DEF InTransit

(* Moving the input index puts the copied packet at the tail. *)
LEMMA AdvanceAppends ==
  ASSUME RingInv, UpdatesApart, UpdatesApart', TypeOK', PutAdvance
  PROVE  Fifo!Put
<1> USE BufferAssumption DEF RingInv
<1>1. Occupancy \in Nat /\ Occupancy < MaxNbPackets
  BY RoomOrPacket, OccupancyRange DEF PutAdvance, PollStaysValid
<1>2. Occupancy' = Occupancy + 1
  <2>1. getStep \notin GetUpdating
    BY DEF PutAdvance, getVars, UpdatesApart, PutUpdating
  <2>2. inputIndex' = IF inputIndex + 1 = MaxNbPackets THEN 0 ELSE inputIndex + 1
    BY NextIndexInRing DEF PutAdvance, TypeOK
  <2> QED
    BY <1>1, <2>1, <2>2 DEF PutAdvance, getVars, TypeOK, Occupancy, RingFull, Slot,
       PutUpdating
<1> DEFINE longer == Append(InTransit, putPacket)
<1>3. InTransit' \in Seq(Packet) /\ Len(InTransit') = Len(InTransit) + 1
  BY <1>2, InTransitIsSequence, InTransitIsSequenceAfter
<1>4. longer \in Seq(Packet) /\ Len(longer) = Len(InTransit) + 1
  BY InTransitIsSequence, AppendProperties DEF TypeOK
<1>5. \A k \in 1 .. Len(InTransit') : InTransit'[k] = longer[k]
  <2> SUFFICES ASSUME NEW k \in 1 .. (Occupancy + 1) PROVE InTransit'[k] = longer[k]
    BY <1>3, InTransitIsSequence
  <2>1. InTransit'[k] = buffer[SlotAt(k - 1)]
    BY <1>1, <1>2 DEF InTransit, SlotAt, PutAdvance
  <2>2. CASE k \in 1 .. Occupancy
    BY <2>1, <2>2, InTransitIsSequence, AppendProperties DEF TypeOK
  <2>3. CASE k = Occupancy + 1
    <3>1. longer[k] = putPacket
      BY <2>3, InTransitIsSequence, AppendProperties DEF TypeOK
    <3>2. buffer[SlotAt(k - 1)] = putPacket
      BY <1>1, <2>3, SlotsInUse DEF PutAdvance, CopiedSoFar
    <3> QED BY <2>1, <3>1, <3>2
  <2>4. k \in 1 .. Occupancy \/ k = Occupancy + 1
    BY <1>1
  <2> QED BY <2>2, <2>3, <2>4
<1>6. InTransit' = longer
  BY <1>3, <1>4, <1>5, SeqEqual
<1> QED
  BY <1>1, <1>6, InTransitIsSequence DEF Fifo!Put, PutAdvance, getVars

(* Moving the output index takes the packet the consumer has copied. *)
LEMMA AdvanceTakes ==
  ASSUME RingInv, UpdatesApart, UpdatesApart', TypeOK', GetAdvance
  PROVE  Fifo!Take
<1> USE BufferAssumption DEF RingInv
<1>1. Occupancy \in Nat /\ Occupancy > 0
  BY RoomOrPacket, OccupancyRange DEF GetAdvance, PollStaysValid
<1>2. outputIndex' = IF outputIndex + 1 = MaxNbPackets THEN 0 ELSE outputIndex + 1
  BY NextIndexInRing DEF GetAdvance, TypeOK
<1>3. Occupancy' = Occupancy - 1
  <2>1. putStep \notin PutUpdating
    BY DEF GetAdvance, putVars, UpdatesApart, GetUpdating
  <2> QED
    BY <1>1, <1>2, <2>1 DEF GetAdvance, putVars, TypeOK, Occupancy, RingFull, Slot,
       GetUpdating
<1>4. InTransit # << >>
  BY <1>1, InTransitIsSequence, EmptySeq
<1>5. /\ Tail(InTransit) \in Seq(Packet)
      /\ Len(Tail(InTransit)) = Occupancy - 1
      /\ \A k \in 1 .. (Occupancy - 1) : Tail(InTransit)[k] = InTransit[k + 1]
  BY <1>4, InTransitIsSequence, HeadTailProperties
<1>6. InTransit' \in Seq(Packet) /\ Len(InTransit') = Occupancy - 1
  BY <1>3, InTransitIsSequenceAfter
<1>7. \A k \in 1 .. (Occupancy - 1) : InTransit'[k] = Tail(InTransit)[k]
  <2> SUFFICES ASSUME NEW k \in 1 .. (Occupancy - 1)
               PROVE  InTransit'[k] = Tail(InTransit)[k]
    OBVIOUS
  <2>1. InTransit'[k] = buffer[SlotAt(k - 1)']
    BY <1>1, <1>3 DEF InTransit, GetAdvance
  <2>2. SlotAt(k - 1)' = SlotAt(k)
    BY <1>1, <1>2, OccupancyRange DEF SlotAt, TypeOK, Slot
  <2>3. InTransit[k + 1] = buffer[SlotAt(k)]
    BY <1>1 DEF InTransit
  <2> QED BY <1>5, <2>1, <2>2, <2>3
<1>8. InTransit' = Tail(InTransit)
  BY <1>5, <1>6, <1>7, SeqEqual
<1>9. getPacket = Head(InTransit)
  <2>1. InTransit[1] = buffer[outputIndex]
    BY <1>1, InTransitIsSequence, SlotsInUse
  <2> QED BY <1>4, <2>1, InTransitIsSequence DEF GetAdvance, CopiedSoFar
<1> QED
  BY <1>4, <1>8, <1>9 DEF Fifo!Take, GetAdvance, putVars

(* No other step changes what is in transit. *)
LEMMA OnlyAdvancesMove ==
  ASSUME RingInv, RingInv', UpdatesApart, [Next]_vars, ~PutAdvance, ~GetAdvance
  PROVE  InTransit' = InTransit
<1> USE BufferAssumption DEF RingInv
<1>0. ~(putStep \in PutUpdating /\ getStep \in GetUpdating)
  BY DEF UpdatesApart
<1>1. CASE PutPoll
  BY <1>1, InTransitKept DEF PutPoll, ringVars, getVars, Occupancy, RingFull,
     PutUpdating
<1>2. ASSUME NEW p \in Packet, PutEnter(p) PROVE InTransit' = InTransit
  BY <1>2, InTransitKept DEF PutEnter, ringVars, getVars, Occupancy, RingFull,
     PutUpdating
<1>3. CASE PutCopy
  <2>1. Occupancy < MaxNbPackets
    BY <1>3, RoomOrPacket DEF PutCopy, PollStaysValid
  <2>2. Occupancy' = Occupancy
    BY <1>3 DEF PutCopy, getVars, Occupancy, RingFull, PutUpdating
  <2>3. \A k \in 0 .. (Occupancy - 1) : buffer'[SlotAt(k)] = buffer[SlotAt(k)]
    BY <1>3, <2>1, SlotsInUse DEF PutCopy, TypeOK
  <2> QED
    BY <1>3, <2>2, <2>3, InTransitKept DEF PutCopy
<1>4. CASE PutCompare
  BY <1>4, InTransitKept DEF PutCompare, ringVars, getVars, Occupancy, RingFull,
     PutUpdating
<1>5. CASE PutReturn
  <2>1. Occupancy' = Occupancy
    BY <1>0, <1>5 DEF PutReturn, getVars, Occupancy, RingFull, PutUpdating,
       GetUpdating, PutCalling, GetCalling, ComparisonHolds
  <2> QED BY <1>5, <2>1, InTransitKept DEF PutReturn
<1>6. CASE GetPoll
  BY <1>6, InTransitKept DEF GetPoll, ringVars, putVars, Occupancy, RingFull,
     GetUpdating
<1>7. CASE GetEnter
  BY <1>7, InTransitKept DEF GetEnter, ringVars, putVars, Occupancy, RingFull,
     GetUpdating
<1>8. CASE GetCopy
  BY <1>8, InTransitKept DEF GetCopy, ringVars, putVars, Occupancy, RingFull,
     GetUpdating
<1>9. CASE GetCompare
  BY <1>9, InTransitKept DEF GetCompare, ringVars, putVars, Occupancy, RingFull,
     GetUpdating
<1>10. CASE GetReturn
  <2>1. Occupancy' = Occupancy
    BY <1>0, <1>10 DEF GetReturn, putVars, Occupancy, RingFull, PutUpdating,
       GetUpdating, PutCalling, GetCalling, ComparisonHolds
  <2> QED BY <1>10, <2>1, InTransitKept DEF GetReturn
<1>11. ASSUME NEW p \in Packet, GetterWrites(p) PROVE InTransit' = InTransit
  BY <1>11, InTransitKept DEF GetterWrites, ringVars, putVars, Occupancy, RingFull
<1>12. CASE Other \/ UNCHANGED vars
  <2>1. UNCHANGED <<ringVars, putVars, getVars>>
    BY <1>12 DEF Other, OtherEnter, OtherReturn, vars
  <2> QED
    BY <2>1, InTransitKept DEF ringVars, putVars, getVars, Occupancy, RingFull
<1> QED
  BY <1>1, <1>2, <1>3, <1>4, <1>5, <1>6, <1>7, <1>8, <1>9, <1>10, <1>11, <1>12
     DEF Next, Put, Get

LEMMA FifoStep ==
  ASSUME RingInv, RingInv', UpdatesApart, UpdatesApart', [Next]_vars
  PROVE  [Fifo!Next]_(Fifo!fifoVars)
<1> USE DEF Fifo!fifoVars
<1>1. CASE PutAdvance
  BY <1>1, AdvanceAppends DEF RingInv, Fifo!Next
<1>2. CASE GetAdvance
  BY <1>2, AdvanceTakes DEF RingInv, Fifo!Next
<1>3. CASE ~PutAdvance /\ ~GetAdvance
  <2>1. InTransit' = InTransit
    BY <1>3, OnlyAdvancesMove
  <2>2. putPacket' \in Packet /\ getPacket' \in Packet
    BY DEF RingInv, TypeOK
  <2>3. putPacket' = putPacket \/ getPacket' = getPacket
    BY DEF Next, Put, Get, Other, PutPoll, PutEnter, PutCopy, PutAdvance,
       PutCompare, PutReturn, GetPoll, GetEnter, GetCopy, GetAdvance,
       GetCompare, GetReturn, GetterWrites, OtherEnter, OtherReturn, putVars,
       getVars, vars
  <2> QED BY <2>1, <2>2, <2>3 DEF Fifo!Next, Fifo!Prepare, Fifo!Fill
<1> QED BY <1>1, <1>2, <1>3

(* A ring of class Network is a bounded first-in first-out queue, on one   *)
(* object or on two, as long as no two calls are between their index and   *)
(* their status at once: the ring buffer implements PacketFifo, the        *)
(* packets in transit being those from the output index to the input       *)
(* index.  Overlapping copies do no harm.                                  *)
THEOREM NetworkIsFifo == Spec /\ []UpdatesApart => DeliversInOrder
<1>1. Init => Fifo!Init
  <2> SUFFICES ASSUME Init PROVE Fifo!Init
    OBVIOUS
  <2>1. Occupancy = 0
    BY DEF Init, Occupancy, RingFull, PutUpdating
  <2>2. InTransit = << >>
    BY <2>1, TypeInit, InTransitIsSequence, EmptySeq
  <2> QED BY <2>2, BufferAssumption DEF Init, Fifo!Init
<1>2. RingInv /\ RingInv' /\ UpdatesApart /\ UpdatesApart' /\ [Next]_vars
        => [Fifo!Next]_(Fifo!fifoVars)
  BY FifoStep
<1> QED
  BY <1>1, <1>2, RingInvariant, PTL DEF Spec, DeliversInOrder, Fifo!Spec

=============================================================================
