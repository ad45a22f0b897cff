------------------------- MODULE BoundedBufferProofs -------------------------
(***************************************************************************)
(* The inductive invariant of BoundedBuffer and what follows from it, for  *)
(* any number of producers and consumers and any buffer size.              *)
(***************************************************************************)
EXTENDS BoundedBuffer, TLAPS

-----------------------------------------------------------------------------
LEMMA NextIsWrapped ==
  ASSUME NEW i \in Slot
  PROVE  /\ NextIndex(i) \in Slot
         /\ NextIndex(i) = IF i = buf_size - 1 THEN 0 ELSE i + 1
BY BufferAssumption DEF NextIndex, Slot

(* The threads other than t are outside the with block. *)
Alone(t) == \A u \in Thread : u # t => pc[u] = "acquire"

LEMMA HolderIsAlone ==
  ASSUME MutualExclusion, NEW t \in Thread, Holding(t)
  PROVE  Alone(t) /\ semaphore = 0
BY DEF MutualExclusion, Holding, Alone

(* With one thread inside, the quantifiers over threads are about it.      *)
LEMMA ProducerAlone ==
  ASSUME NEW t \in Producer
  PROVE  Alone(t) =>
           /\ Uncounted(Producer) <=> pc[t] \in {"advance", "print", "count"}
           /\ Advancing(Producer) <=> pc[t] = "advance"
           /\ ~Uncounted(Consumer) /\ ~Advancing(Consumer)
BY BufferAssumption DEF Alone, Thread, Uncounted, Advancing

LEMMA ConsumerAlone ==
  ASSUME NEW t \in Consumer
  PROVE  Alone(t) =>
           /\ Uncounted(Consumer) <=> pc[t] \in {"advance", "print", "count"}
           /\ Advancing(Consumer) <=> pc[t] = "advance"
           /\ ~Uncounted(Producer) /\ ~Advancing(Producer)
BY BufferAssumption DEF Alone, Thread, Uncounted, Advancing

(* A step of the thread inside leaves the others outside.                  *)
LEMMA StepsAlone ==
  ASSUME TypeOK, MutualExclusion, NEW t \in Thread,
         NEW to \in {"acquire", "test", "write", "advance", "print",
                     "count", "release"},
         Holding(t), to # "acquire", Goes(t, to), UNCHANGED semaphore
  PROVE  /\ pc' \in [Thread -> {"acquire", "test", "write", "advance",
                                "print", "count", "release"}]
         /\ pc'[t] = to
         /\ Alone(t)'
         /\ MutualExclusion'
BY HolderIsAlone DEF TypeOK, MutualExclusion, Alone, Holding, Goes

-----------------------------------------------------------------------------
(* Entering and leaving the with block.                                    *)

LEMMA AcquireKeeps ==
  ASSUME BufferInv, NEW t \in Thread, Acquire(t)
  PROVE  BufferInv'
<1>1. \A u \in Thread : pc[u] = "acquire"
  BY DEF BufferInv, MutualExclusion, TypeOK, Holding, Acquire
<1>2. /\ semaphore = 1 /\ semaphore' = 0
      /\ pc' = [pc EXCEPT ![t] = "test"]
      /\ UNCHANGED shared
  BY DEF BufferInv, MutualExclusion, Acquire, Goes
<1>3. TypeOK'
  BY <1>2 DEF BufferInv, TypeOK, shared
<1>4. \A u \in Thread : pc'[u] = IF u = t THEN "test" ELSE "acquire"
  BY <1>1, <1>2 DEF BufferInv, TypeOK
<1>5. MutualExclusion'
  BY <1>2, <1>4 DEF MutualExclusion, Holding
<1>6. TestHolds'
  BY <1>4 DEF TestHolds, Thread
<1>7. /\ UNCHANGED <<Uncounted(Producer), Uncounted(Consumer)>>
      /\ UNCHANGED <<Advancing(Producer), Advancing(Consumer)>>
  BY <1>1, <1>4 DEF Uncounted, Advancing, Thread
<1>8. StockContiguous'
  BY <1>2, <1>7 DEF BufferInv, StockContiguous, Ahead, Stock, FirstFilled,
     FirstFree, shared
<1>. QED  BY <1>3, <1>5, <1>6, <1>8 DEF BufferInv

LEMMA ReleaseKeeps ==
  ASSUME BufferInv, NEW t \in Thread, Release(t)
  PROVE  BufferInv'
<1>1. Alone(t) /\ semaphore = 0
  BY HolderIsAlone DEF BufferInv, Holding, Release
<1>2. /\ pc[t] = "release" /\ semaphore' = 1
      /\ pc' = [pc EXCEPT ![t] = "acquire"]
      /\ UNCHANGED shared
  BY <1>1 DEF Release, Goes
<1>3. TypeOK'
  BY <1>2 DEF BufferInv, TypeOK, shared
<1>4. \A u \in Thread : pc'[u] = "acquire"
  BY <1>1, <1>2 DEF BufferInv, TypeOK, Alone
<1>5. MutualExclusion'
  BY <1>2, <1>4 DEF MutualExclusion, Holding
<1>6. TestHolds'
  BY <1>4 DEF TestHolds, Thread
<1>7. /\ UNCHANGED <<Uncounted(Producer), Uncounted(Consumer)>>
      /\ UNCHANGED <<Advancing(Producer), Advancing(Consumer)>>
  BY <1>1, <1>2, <1>4 DEF Uncounted, Advancing, Thread, Alone
<1>8. StockContiguous'
  BY <1>2, <1>7 DEF BufferInv, StockContiguous, Ahead, Stock, FirstFilled,
     FirstFree, shared
<1>. QED  BY <1>3, <1>5, <1>6, <1>8 DEF BufferInv

-----------------------------------------------------------------------------
(* What a step inside the with block means for the threads of its kind.    *)

LEMMA ProducerMoves ==
  ASSUME BufferInv, NEW t \in Producer,
         NEW to \in {"test", "write", "advance", "print", "count", "release"},
         Holding(t), Goes(t, to), UNCHANGED semaphore
  PROVE  /\ pc' \in [Thread -> {"acquire", "test", "write", "advance",
                                "print", "count", "release"}]
         /\ MutualExclusion'
         /\ pc'[t] = to
         /\ \A u \in Thread : u # t => pc[u] = "acquire" /\ pc'[u] = "acquire"
         /\ Uncounted(Producer) <=> pc[t] \in {"advance", "print", "count"}
         /\ Uncounted(Producer)' <=> to \in {"advance", "print", "count"}
         /\ Advancing(Producer) <=> pc[t] = "advance"
         /\ Advancing(Producer)' <=> to = "advance"
         /\ ~Uncounted(Consumer) /\ ~Uncounted(Consumer)'
         /\ ~Advancing(Consumer) /\ ~Advancing(Consumer)'
<1>1. t \in Thread
  BY DEF Thread
<1>2. Alone(t)
  BY <1>1, HolderIsAlone DEF BufferInv
<1>3. /\ pc' \in [Thread -> {"acquire", "test", "write", "advance",
                             "print", "count", "release"}]
      /\ pc'[t] = to /\ Alone(t)' /\ MutualExclusion'
  BY <1>1, StepsAlone DEF BufferInv
<1>4. /\ Uncounted(Producer)' <=> to \in {"advance", "print", "count"}
      /\ Advancing(Producer)' <=> to = "advance"
      /\ ~Uncounted(Consumer)' /\ ~Advancing(Consumer)'
  BY <1>3, BufferAssumption DEF Alone, Thread, Uncounted, Advancing
<1>. QED  BY <1>2, <1>3, <1>4, ProducerAlone DEF Alone

LEMMA ConsumerMoves ==
  ASSUME BufferInv, NEW t \in Consumer,
         NEW to \in {"test", "write", "advance", "print", "count", "release"},
         Holding(t), Goes(t, to), UNCHANGED semaphore
  PROVE  /\ pc' \in [Thread -> {"acquire", "test", "write", "advance",
                                "print", "count", "release"}]
         /\ MutualExclusion'
         /\ pc'[t] = to
         /\ \A u \in Thread : u # t => pc[u] = "acquire" /\ pc'[u] = "acquire"
         /\ Uncounted(Consumer) <=> pc[t] \in {"advance", "print", "count"}
         /\ Uncounted(Consumer)' <=> to \in {"advance", "print", "count"}
         /\ Advancing(Consumer) <=> pc[t] = "advance"
         /\ Advancing(Consumer)' <=> to = "advance"
         /\ ~Uncounted(Producer) /\ ~Uncounted(Producer)'
         /\ ~Advancing(Producer) /\ ~Advancing(Producer)'
<1>1. t \in Thread
  BY DEF Thread
<1>2. Alone(t)
  BY <1>1, HolderIsAlone DEF BufferInv
<1>3. /\ pc' \in [Thread -> {"acquire", "test", "write", "advance",
                             "print", "count", "release"}]
      /\ pc'[t] = to /\ Alone(t)' /\ MutualExclusion'
  BY <1>1, StepsAlone DEF BufferInv
<1>4. /\ Uncounted(Consumer)' <=> to \in {"advance", "print", "count"}
      /\ Advancing(Consumer)' <=> to = "advance"
      /\ ~Uncounted(Producer)' /\ ~Advancing(Producer)'
  BY <1>3, BufferAssumption DEF Alone, Thread, Uncounted, Advancing
<1>. QED  BY <1>2, <1>3, <1>4, ConsumerAlone DEF Alone

-----------------------------------------------------------------------------
(* The steps of a producer.                                                *)

LEMMA TestFullKeeps ==
  ASSUME BufferInv, NEW t \in Producer, TestFull(t)
  PROVE  BufferInv'
<1>. PICK to \in {"release", "write"} :
        Goes(t, to) /\ (to = "release" <=> counter = buf_size)
  BY DEF TestFull
<1>1. pc[t] = "test" /\ Holding(t) /\ UNCHANGED <<semaphore, shared>>
  BY DEF TestFull, Holding
<1>2. /\ pc' \in [Thread -> {"acquire", "test", "write", "advance",
                             "print", "count", "release"}]
      /\ MutualExclusion'
      /\ pc'[t] = to
      /\ \A u \in Thread : u # t => pc'[u] = "acquire"
      /\ ~Uncounted(Producer) /\ ~Uncounted(Producer)'
      /\ ~Advancing(Producer) /\ ~Advancing(Producer)'
      /\ ~Uncounted(Consumer) /\ ~Uncounted(Consumer)'
      /\ ~Advancing(Consumer) /\ ~Advancing(Consumer)'
  BY <1>1, ProducerMoves
<1>3. TypeOK'
  BY <1>1, <1>2 DEF BufferInv, TypeOK, shared
<1>4. TestHolds'
  BY <1>1, <1>2, BufferAssumption DEF BufferInv, TypeOK, TestHolds, Thread,
     shared
<1>5. StockContiguous'
  BY <1>1, <1>2 DEF BufferInv, StockContiguous, Ahead, Stock, FirstFilled,
     FirstFree, shared
<1>. QED  BY <1>2, <1>3, <1>4, <1>5 DEF BufferInv

LEMMA FillKeeps ==
  ASSUME BufferInv, NEW t \in Producer, Fill(t)
  PROVE  BufferInv' /\ buf[producer_idx] = Blank
<1>1. /\ pc[t] = "write" /\ Holding(t) /\ Goes(t, "advance")
      /\ buf' = [buf EXCEPT ![producer_idx] = Item]
      /\ UNCHANGED <<semaphore, producer_idx, consumer_idx, counter, printed>>
  BY DEF Fill, Holding
<1>2. /\ pc' \in [Thread -> {"acquire", "test", "write", "advance",
                             "print", "count", "release"}]
      /\ MutualExclusion'
      /\ pc'[t] = "advance"
      /\ \A u \in Thread : u # t => pc'[u] = "acquire"
      /\ ~Uncounted(Producer) /\ Uncounted(Producer)'
      /\ ~Advancing(Producer) /\ Advancing(Producer)'
      /\ ~Uncounted(Consumer) /\ ~Uncounted(Consumer)'
      /\ ~Advancing(Consumer) /\ ~Advancing(Consumer)'
  BY <1>1, ProducerMoves
<1>3. TypeOK'
  BY <1>1, <1>2 DEF BufferInv, TypeOK
<1>4. counter < buf_size /\ TestHolds'
  BY <1>1, <1>2, BufferAssumption DEF BufferInv, TestHolds, Thread
<1>5. /\ producer_idx \in Slot /\ consumer_idx \in Slot
      /\ counter \in Nat /\ buf_size \in Nat
      /\ NextIndex(producer_idx) =
           IF producer_idx = buf_size - 1 THEN 0 ELSE producer_idx + 1
  BY NextIsWrapped, BufferAssumption DEF BufferInv, TypeOK
<1>6. /\ Stock = counter /\ Stock' = counter + 1
      /\ FirstFilled = consumer_idx /\ FirstFilled' = consumer_idx
      /\ FirstFree = producer_idx /\ FirstFree' = NextIndex(producer_idx)
  BY <1>1, <1>2, <1>5 DEF Stock, FirstFilled, FirstFree, NextIndex
<1>7. /\ \A i \in Slot : buf[i] = Item <=> Ahead(i) < counter
      /\ \/ producer_idx = consumer_idx + counter
         \/ producer_idx = consumer_idx + counter - buf_size
  BY <1>6 DEF BufferInv, StockContiguous
<1>8. \A i \in Slot :
         Ahead(i) = IF i >= consumer_idx THEN i - consumer_idx
                    ELSE i - consumer_idx + buf_size
  BY <1>6 DEF Ahead
<1>9. \A i \in Slot : Ahead(i)' = Ahead(i)
  BY <1>6 DEF Ahead
<1>10. \A i \in Slot : Ahead(i) = counter <=> i = producer_idx
  BY <1>4, <1>5, <1>7, <1>8 DEF Slot
<1>11. \A i \in Slot : buf'[i] = IF i = producer_idx THEN Item ELSE buf[i]
  BY <1>1 DEF BufferInv, TypeOK
<1>12. \A i \in Slot : buf'[i] = Item <=> Ahead(i) < counter + 1
  BY <1>5, <1>7, <1>8, <1>10, <1>11 DEF Slot
<1>13. StockContiguous'
  <2>1. FirstFree' = FirstFilled' + Stock' \/ FirstFree' = FirstFilled' + Stock' - buf_size
    BY <1>4, <1>5, <1>6, <1>7 DEF Slot
  <2>. QED  BY <2>1, <1>6, <1>9, <1>12 DEF StockContiguous
<1>14. buf[producer_idx] = Blank
  BY <1>5, <1>7, <1>10 DEF BufferInv, TypeOK, Slot
<1>. QED  BY <1>2, <1>3, <1>4, <1>13, <1>14 DEF BufferInv

LEMMA AdvanceProducerKeeps ==
  ASSUME BufferInv, NEW t \in Producer, AdvanceProducer(t)
  PROVE  BufferInv'
<1>1. /\ pc[t] = "advance" /\ Holding(t) /\ Goes(t, "print")
      /\ producer_idx' = NextIndex(producer_idx)
      /\ UNCHANGED <<semaphore, buf, consumer_idx, counter, printed>>
  BY DEF AdvanceProducer, Holding
<1>2. /\ pc' \in [Thread -> {"acquire", "test", "write", "advance",
                             "print", "count", "release"}]
      /\ MutualExclusion'
      /\ pc'[t] = "print"
      /\ \A u \in Thread : u # t => pc'[u] = "acquire"
      /\ Uncounted(Producer) /\ Uncounted(Producer)'
      /\ Advancing(Producer) /\ ~Advancing(Producer)'
      /\ ~Uncounted(Consumer) /\ ~Uncounted(Consumer)'
      /\ ~Advancing(Consumer) /\ ~Advancing(Consumer)'
  BY <1>1, ProducerMoves
<1>3. NextIndex(producer_idx) \in Slot
  BY NextIsWrapped DEF BufferInv, TypeOK
<1>4. TypeOK'
  BY <1>1, <1>2, <1>3 DEF BufferInv, TypeOK
<1>5. TestHolds'
  BY <1>1, <1>2, BufferAssumption DEF BufferInv, TestHolds, Thread
<1>6. /\ UNCHANGED <<Stock, FirstFilled>> /\ FirstFree' = FirstFree
  BY <1>1, <1>2 DEF Stock, FirstFilled, FirstFree, NextIndex
<1>7. StockContiguous'
  BY <1>1, <1>6 DEF BufferInv, StockContiguous, Ahead
<1>. QED  BY <1>2, <1>4, <1>5, <1>7 DEF BufferInv

LEMMA PrintProducedKeeps ==
  ASSUME BufferInv, NEW t \in Producer, PrintProduced(t)
  PROVE  BufferInv'
<1>1. /\ pc[t] = "print" /\ Holding(t) /\ Goes(t, "count")
      /\ printed' = [what |-> "produced", item |-> Item, index |-> producer_idx]
      /\ UNCHANGED <<semaphore, buf, producer_idx, consumer_idx, counter>>
  BY DEF PrintProduced, Holding
<1>2. /\ pc' \in [Thread -> {"acquire", "test", "write", "advance",
                             "print", "count", "release"}]
      /\ MutualExclusion'
      /\ pc'[t] = "count"
      /\ \A u \in Thread : u # t => pc'[u] = "acquire"
      /\ Uncounted(Producer) /\ Uncounted(Producer)'
      /\ ~Advancing(Producer) /\ ~Advancing(Producer)'
      /\ ~Uncounted(Consumer) /\ ~Uncounted(Consumer)'
      /\ ~Advancing(Consumer) /\ ~Advancing(Consumer)'
  BY <1>1, ProducerMoves
<1>3. TypeOK'
  BY <1>1, <1>2 DEF BufferInv, TypeOK
<1>4. TestHolds'
  BY <1>1, <1>2, BufferAssumption DEF BufferInv, TestHolds, Thread
<1>5. StockContiguous'
  BY <1>1, <1>2 DEF BufferInv, StockContiguous, Ahead, Stock, FirstFilled,
     FirstFree
<1>. QED  BY <1>2, <1>3, <1>4, <1>5 DEF BufferInv

LEMMA CountUpKeeps ==
  ASSUME BufferInv, NEW t \in Producer, CountUp(t)
  PROVE  BufferInv'
<1>1. /\ pc[t] = "count" /\ Holding(t) /\ Goes(t, "release")
      /\ counter' = counter + 1
      /\ UNCHANGED <<semaphore, buf, producer_idx, consumer_idx, printed>>
  BY DEF CountUp, Holding
<1>2. /\ pc' \in [Thread -> {"acquire", "test", "write", "advance",
                             "print", "count", "release"}]
      /\ MutualExclusion'
      /\ pc'[t] = "release"
      /\ \A u \in Thread : u # t => pc'[u] = "acquire"
      /\ Uncounted(Producer) /\ ~Uncounted(Producer)'
      /\ ~Advancing(Producer) /\ ~Advancing(Producer)'
      /\ ~Uncounted(Consumer) /\ ~Uncounted(Consumer)'
      /\ ~Advancing(Consumer) /\ ~Advancing(Consumer)'
  BY <1>1, ProducerMoves
<1>3. counter \in Nat /\ counter < buf_size
  BY <1>1, BufferAssumption DEF BufferInv, TypeOK, TestHolds
<1>4. TypeOK'
  BY <1>1, <1>2, <1>3, BufferAssumption DEF BufferInv, TypeOK
<1>5. TestHolds'
  BY <1>2, BufferAssumption DEF TestHolds, Thread
<1>6. UNCHANGED <<Stock, FirstFilled, FirstFree>>
  BY <1>1, <1>2, <1>3 DEF Stock, FirstFilled, FirstFree
<1>7. StockContiguous'
  BY <1>1, <1>6 DEF BufferInv, StockContiguous, Ahead
<1>. QED  BY <1>2, <1>4, <1>5, <1>7 DEF BufferInv

-----------------------------------------------------------------------------
(* The steps of a consumer.                                                *)

LEMMA TestEmptyKeeps ==
  ASSUME BufferInv, NEW t \in Consumer, TestEmpty(t)
  PROVE  BufferInv'
<1>. PICK to \in {"release", "write"} :
        Goes(t, to) /\ (to = "release" <=> counter = 0)
  BY DEF TestEmpty
<1>1. pc[t] = "test" /\ Holding(t) /\ UNCHANGED <<semaphore, shared>>
  BY DEF TestEmpty, Holding
<1>2. /\ pc' \in [Thread -> {"acquire", "test", "write", "advance",
                             "print", "count", "release"}]
      /\ MutualExclusion'
      /\ pc'[t] = to
      /\ \A u \in Thread : u # t => pc'[u] = "acquire"
      /\ ~Uncounted(Producer) /\ ~Uncounted(Producer)'
      /\ ~Advancing(Producer) /\ ~Advancing(Producer)'
      /\ ~Uncounted(Consumer) /\ ~Uncounted(Consumer)'
      /\ ~Advancing(Consumer) /\ ~Advancing(Consumer)'
  BY <1>1, ConsumerMoves
<1>3. TypeOK'
  BY <1>1, <1>2 DEF BufferInv, TypeOK, shared
<1>4. TestHolds'
  BY <1>1, <1>2, BufferAssumption DEF BufferInv, TypeOK, TestHolds, Thread,
     shared
<1>5. StockContiguous'
  BY <1>1, <1>2 DEF BufferInv, StockContiguous, Ahead, Stock, FirstFilled,
     FirstFree, shared
<1>. QED  BY <1>2, <1>3, <1>4, <1>5 DEF BufferInv

LEMMA ClearKeeps ==
  ASSUME BufferInv, NEW t \in Consumer, Clear(t)
  PROVE  BufferInv' /\ buf[consumer_idx] = Item
<1>1. /\ pc[t] = "write" /\ Holding(t) /\ Goes(t, "advance")
      /\ buf' = [buf EXCEPT ![consumer_idx] = Blank]
      /\ UNCHANGED <<semaphore, producer_idx, consumer_idx, counter, printed>>
  BY DEF Clear, Holding
<1>2. /\ pc' \in [Thread -> {"acquire", "test", "write", "advance",
                             "print", "count", "release"}]
      /\ MutualExclusion'
      /\ pc'[t] = "advance"
      /\ \A u \in Thread : u # t => pc'[u] = "acquire"
      /\ ~Uncounted(Consumer) /\ Uncounted(Consumer)'
      /\ ~Advancing(Consumer) /\ Advancing(Consumer)'
      /\ ~Uncounted(Producer) /\ ~Uncounted(Producer)'
      /\ ~Advancing(Producer) /\ ~Advancing(Producer)'
  BY <1>1, ConsumerMoves
<1>3. TypeOK'
  BY <1>1, <1>2 DEF BufferInv, TypeOK
<1>4. counter > 0 /\ TestHolds'
  BY <1>1, <1>2, BufferAssumption DEF BufferInv, TestHolds, Thread
<1>5. /\ producer_idx \in Slot /\ consumer_idx \in Slot
      /\ counter \in Nat /\ buf_size \in Nat /\ counter <= buf_size
      /\ NextIndex(consumer_idx) =
           IF consumer_idx = buf_size - 1 THEN 0 ELSE consumer_idx + 1
  BY NextIsWrapped, BufferAssumption DEF BufferInv, TypeOK
<1>6. /\ Stock = counter /\ Stock' = counter - 1
      /\ FirstFilled = consumer_idx /\ FirstFilled' = NextIndex(consumer_idx)
      /\ FirstFree = producer_idx /\ FirstFree' = producer_idx
  BY <1>1, <1>2, <1>5 DEF Stock, FirstFilled, FirstFree, NextIndex
<1>7. /\ \A i \in Slot : buf[i] = Item <=> Ahead(i) < counter
      /\ \/ producer_idx = consumer_idx + counter
         \/ producer_idx = consumer_idx + counter - buf_size
  BY <1>6 DEF BufferInv, StockContiguous
<1>8. \A i \in Slot :
         Ahead(i) = IF i >= consumer_idx THEN i - consumer_idx
                    ELSE i - consumer_idx + buf_size
  BY <1>6 DEF Ahead
<1>9. \A i \in Slot :
         Ahead(i)' = IF i = consumer_idx THEN buf_size - 1 ELSE Ahead(i) - 1
  BY <1>5, <1>6, <1>8 DEF Ahead, Slot
<1>10. \A i \in Slot : buf'[i] = IF i = consumer_idx THEN Blank ELSE buf[i]
  BY <1>1 DEF BufferInv, TypeOK
<1>11. Item # Blank
  BY DEF Item, Blank
<1>12. \A i \in Slot : buf'[i] = Item <=> Ahead(i)' < counter - 1
  <2>. SUFFICES ASSUME NEW i \in Slot
                PROVE  buf'[i] = Item <=> Ahead(i)' < counter - 1
    OBVIOUS
  <2>1. CASE i = consumer_idx
    <3>1. buf'[i] # Item /\ Ahead(i)' = buf_size - 1
      BY <2>1, <1>9, <1>10, <1>11
    <3>. QED  BY <3>1, <1>5
  <2>2. CASE i # consumer_idx
    <3>1. buf'[i] = buf[i] /\ Ahead(i)' = Ahead(i) - 1
      BY <2>2, <1>9, <1>10
    <3>2. Ahead(i) \in Int
      BY <1>5, <1>8 DEF Slot
    <3>3. Ahead(i) < counter <=> Ahead(i)' < counter - 1
      BY <3>1, <3>2, <1>5
    <3>. QED  BY <3>1, <3>3, <1>7
  <2>. QED  BY <2>1, <2>2
<1>13. StockContiguous'
  <2>1. FirstFree' = FirstFilled' + Stock' \/ FirstFree' = FirstFilled' + Stock' - buf_size
    BY <1>4, <1>5, <1>6, <1>7 DEF Slot
  <2>. QED  BY <2>1, <1>6, <1>12 DEF StockContiguous
<1>14. buf[consumer_idx] = Item
  BY <1>4, <1>5, <1>7, <1>8 DEF Slot
<1>. QED  BY <1>2, <1>3, <1>4, <1>13, <1>14 DEF BufferInv

LEMMA AdvanceConsumerKeeps ==
  ASSUME BufferInv, NEW t \in Consumer, AdvanceConsumer(t)
  PROVE  BufferInv'
<1>1. /\ pc[t] = "advance" /\ Holding(t) /\ Goes(t, "print")
      /\ consumer_idx' = NextIndex(consumer_idx)
      /\ UNCHANGED <<semaphore, buf, producer_idx, counter, printed>>
  BY DEF AdvanceConsumer, Holding
<1>2. /\ pc' \in [Thread -> {"acquire", "test", "write", "advance",
                             "print", "count", "release"}]
      /\ MutualExclusion'
      /\ pc'[t] = "print"
      /\ \A u \in Thread : u # t => pc'[u] = "acquire"
      /\ Uncounted(Consumer) /\ Uncounted(Consumer)'
      /\ Advancing(Consumer) /\ ~Advancing(Consumer)'
      /\ ~Uncounted(Producer) /\ ~Uncounted(Producer)'
      /\ ~Advancing(Producer) /\ ~Advancing(Producer)'
  BY <1>1, ConsumerMoves
<1>3. NextIndex(consumer_idx) \in Slot
  BY NextIsWrapped DEF BufferInv, TypeOK
<1>4. TypeOK'
  BY <1>1, <1>2, <1>3 DEF BufferInv, TypeOK
<1>5. TestHolds'
  BY <1>1, <1>2, BufferAssumption DEF BufferInv, TestHolds, Thread
<1>6. /\ UNCHANGED <<Stock, FirstFree>> /\ FirstFilled' = FirstFilled
  BY <1>1, <1>2 DEF Stock, FirstFilled, FirstFree, NextIndex
<1>7. StockContiguous'
  BY <1>1, <1>6 DEF BufferInv, StockContiguous, Ahead
<1>. QED  BY <1>2, <1>4, <1>5, <1>7 DEF BufferInv

LEMMA PrintConsumedKeeps ==
  ASSUME BufferInv, NEW t \in Consumer, PrintConsumed(t)
  PROVE  BufferInv'
<1>1. /\ pc[t] = "print" /\ Holding(t) /\ Goes(t, "count")
      /\ printed' = [what |-> "consumed", item |-> buf[consumer_idx],
                     index |-> consumer_idx]
      /\ UNCHANGED <<semaphore, buf, producer_idx, consumer_idx, counter>>
  BY DEF PrintConsumed, Holding
<1>2. /\ pc' \in [Thread -> {"acquire", "test", "write", "advance",
                             "print", "count", "release"}]
      /\ MutualExclusion'
      /\ pc'[t] = "count"
      /\ \A u \in Thread : u # t => pc'[u] = "acquire"
      /\ Uncounted(Consumer) /\ Uncounted(Consumer)'
      /\ ~Advancing(Consumer) /\ ~Advancing(Consumer)'
      /\ ~Uncounted(Producer) /\ ~Uncounted(Producer)'
      /\ ~Advancing(Producer) /\ ~Advancing(Producer)'
  BY <1>1, ConsumerMoves
<1>3. TypeOK'
  BY <1>1, <1>2 DEF BufferInv, TypeOK
<1>4. TestHolds'
  BY <1>1, <1>2, BufferAssumption DEF BufferInv, TestHolds, Thread
<1>5. StockContiguous'
  BY <1>1, <1>2 DEF BufferInv, StockContiguous, Ahead, Stock, FirstFilled,
     FirstFree
<1>. QED  BY <1>2, <1>3, <1>4, <1>5 DEF BufferInv

LEMMA CountDownKeeps ==
  ASSUME BufferInv, NEW t \in Consumer, CountDown(t)
  PROVE  BufferInv'
<1>1. /\ pc[t] = "count" /\ Holding(t) /\ Goes(t, "release")
      /\ counter' = counter - 1
      /\ UNCHANGED <<semaphore, buf, producer_idx, consumer_idx, printed>>
  BY DEF CountDown, Holding
<1>2. /\ pc' \in [Thread -> {"acquire", "test", "write", "advance",
                             "print", "count", "release"}]
      /\ MutualExclusion'
      /\ pc'[t] = "release"
      /\ \A u \in Thread : u # t => pc'[u] = "acquire"
      /\ Uncounted(Consumer) /\ ~Uncounted(Consumer)'
      /\ ~Advancing(Consumer) /\ ~Advancing(Consumer)'
      /\ ~Uncounted(Producer) /\ ~Uncounted(Producer)'
      /\ ~Advancing(Producer) /\ ~Advancing(Producer)'
  BY <1>1, ConsumerMoves
<1>3. counter \in 0 .. buf_size /\ counter > 0
  BY <1>1, BufferAssumption DEF BufferInv, TypeOK, TestHolds
<1>4. TypeOK'
  BY <1>1, <1>2, <1>3, BufferAssumption DEF BufferInv, TypeOK
<1>5. TestHolds'
  BY <1>2, BufferAssumption DEF TestHolds, Thread
<1>6. UNCHANGED <<Stock, FirstFilled, FirstFree>>
  BY <1>1, <1>2, <1>3 DEF Stock, FirstFilled, FirstFree
<1>7. StockContiguous'
  BY <1>1, <1>6 DEF BufferInv, StockContiguous, Ahead
<1>. QED  BY <1>2, <1>4, <1>5, <1>7 DEF BufferInv

-----------------------------------------------------------------------------
LEMMA InitHolds ==
  ASSUME Init
  PROVE  BufferInv
<1>1. TypeOK
  BY BufferAssumption DEF Init, TypeOK, Slot
<1>2. \A t \in Thread : pc[t] = "acquire"
  BY DEF Init
<1>3. MutualExclusion
  BY <1>2 DEF Init, MutualExclusion, Holding
<1>4. TestHolds
  BY <1>2 DEF TestHolds, Thread
<1>5. Stock = 0 /\ FirstFilled = 0 /\ FirstFree = 0
  BY <1>2 DEF Init, Stock, FirstFilled, FirstFree, Uncounted, Advancing, Thread
<1>6. \A i \in Slot : buf[i] # Item
  BY DEF Init, Item, Blank
<1>7. \A i \in Slot : Ahead(i) = i
  BY <1>5, BufferAssumption DEF Ahead, Slot
<1>8. StockContiguous
  BY <1>5, <1>6, <1>7, BufferAssumption DEF StockContiguous, Slot
<1>. QED  BY <1>1, <1>3, <1>4, <1>8 DEF BufferInv

LEMMA StepHolds ==
  BufferInv /\ [Next]_vars => BufferInv'
<1>. SUFFICES ASSUME BufferInv, [Next]_vars
              PROVE  BufferInv'
  OBVIOUS
<1>1. ASSUME NEW t \in Producer, Produce(t)
      PROVE  BufferInv'
  BY <1>1, AcquireKeeps, TestFullKeeps, FillKeeps, AdvanceProducerKeeps,
     PrintProducedKeeps, CountUpKeeps, ReleaseKeeps DEF Produce, Thread
<1>2. ASSUME NEW t \in Consumer, Consume(t)
      PROVE  BufferInv'
  BY <1>2, AcquireKeeps, TestEmptyKeeps, ClearKeeps, AdvanceConsumerKeeps,
     PrintConsumedKeeps, CountDownKeeps, ReleaseKeeps DEF Consume, Thread
<1>3. CASE UNCHANGED vars
  BY <1>3 DEF vars, shared, BufferInv, TypeOK, MutualExclusion, Holding,
     TestHolds, StockContiguous, Stock, FirstFilled, FirstFree, Ahead,
     Uncounted, Advancing
<1>. QED  BY <1>1, <1>2, <1>3 DEF Next

(* At most one thread is inside the with block, what it tested still holds *)
(* there, and the filled slots are consecutive.                            *)
THEOREM BufferInvariant == Spec => []BufferInv
<1>1. Init => BufferInv
  BY InitHolds
<1>. QED  BY <1>1, StepHolds, PTL DEF Spec

(* Every variable keeps its type; the counter stays between 0 and the size. *)
THEOREM TypeCorrect == Spec => []TypeOK
<1>1. BufferInv => TypeOK
  BY DEF BufferInv
<1>. QED  BY <1>1, BufferInvariant, PTL

(* Counter, indices and list agree whenever the semaphore is free.         *)
THEOREM SharedStateAlwaysAgrees == Spec => []SharedStateAgrees
<1>1. BufferInv => SharedStateAgrees
  <2>. SUFFICES ASSUME BufferInv, semaphore = 1
                PROVE  SharedStateAgrees
    BY DEF SharedStateAgrees
  <2>1. \A t \in Thread : pc[t] = "acquire"
    BY DEF BufferInv, MutualExclusion, Holding
  <2>2. Stock = counter /\ FirstFilled = consumer_idx /\ FirstFree = producer_idx
    BY <2>1 DEF BufferInv, TypeOK, Stock, FirstFilled, FirstFree, Uncounted,
       Advancing, Thread
  <2>. QED  BY <2>2 DEF BufferInv, StockContiguous, SharedStateAgrees, Ahead
<1>. QED  BY <1>1, BufferInvariant, PTL

(* Only its own step takes a thread away from its write.                   *)
LEMMA OnlyOwnStep ==
  ASSUME TypeOK, Next, NEW t \in Thread, pc[t] = "write", pc'[t] # "write"
  PROVE  /\ t \in Producer => Fill(t)
         /\ t \in Consumer => Clear(t)
<1>1. \A u \in Thread, to \in STRING : Goes(u, to) => u = t
  BY DEF TypeOK, Goes
<1>2. ASSUME NEW u \in Producer, Produce(u)
      PROVE  u = t /\ Fill(t)
  BY <1>2, <1>1 DEF Produce, Acquire, TestFull, Fill, AdvanceProducer,
     PrintProduced, CountUp, Release, Thread, Goes, TypeOK
<1>3. ASSUME NEW u \in Consumer, Consume(u)
      PROVE  u = t /\ Clear(t)
  BY <1>3, <1>1 DEF Consume, Acquire, TestEmpty, Clear, AdvanceConsumer,
     PrintConsumed, CountDown, Release, Thread, Goes, TypeOK
<1>. QED  BY <1>2, <1>3, BufferAssumption DEF Next

(* No producer overwrites an item and no consumer takes from an empty slot. *)
THEOREM NothingOverwritten == Spec => NoOverwrite
<1>. DEFINE Careful ==
       /\ \A t \in Producer :
            pc[t] = "write" /\ pc'[t] # "write" => buf[producer_idx] = Blank
       /\ \A t \in Consumer :
            pc[t] = "write" /\ pc'[t] # "write" => buf[consumer_idx] = Item
<1>1. BufferInv /\ [Next]_vars => [Careful]_vars
  <2>. SUFFICES ASSUME BufferInv, Next
                PROVE  Careful
    OBVIOUS
  <2>1. ASSUME NEW t \in Producer, pc[t] = "write", pc'[t] # "write"
        PROVE  buf[producer_idx] = Blank
    <3>1. Fill(t)
      BY <2>1, OnlyOwnStep DEF BufferInv, Thread
    <3>. QED  BY <3>1, FillKeeps
  <2>2. ASSUME NEW t \in Consumer, pc[t] = "write", pc'[t] # "write"
        PROVE  buf[consumer_idx] = Item
    <3>1. Clear(t)
      BY <2>2, OnlyOwnStep DEF BufferInv, Thread
    <3>. QED  BY <3>1, ClearKeeps
  <2>. QED  BY <2>1, <2>2
<1>. QED  BY <1>1, BufferInvariant, PTL DEF Spec, NoOverwrite
=============================================================================
