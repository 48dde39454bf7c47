----------------------- MODULE ProducerConsumerProofs -----------------------
(* Proofs about the bounded buffer of producer_consurmer.cpp. *)
EXTENDS ProducerConsumer, SequenceTheorems, TLAPS

\* A thread that sleeps has reason to.
SleepersHaveReason ==
  /\ producer = "waiting" => Len(buffer) >= MaxBufferSize
  /\ consumer = "waiting" => buffer = <<>>

LEMMA ZeroIsData == 0 \in Data
BY BufferAssumption DEF Data

LEMMA Counting == ASSUME NEW d \in Data PROVE (d + 1) % DataBound \in Data
BY BufferAssumption DEF Data

LEMMA TypeInit == BufferInit => BufferTypeOK
BY ZeroIsData DEF BufferInit, BufferTypeOK

LEMMA TypeStep == BufferTypeOK /\ [BufferNext]_bounded => BufferTypeOK'
<1> SUFFICES ASSUME BufferTypeOK, [BufferNext]_bounded PROVE BufferTypeOK'
  OBVIOUS
<1> USE DEF BufferTypeOK
<1>1. CASE ProducerWaits
  BY <1>1 DEF ProducerWaits
<1>2. CASE Produce
  BY <1>2, Counting DEF Produce, NotifyConsumer
<1>3. CASE ConsumerWaits
  BY <1>3 DEF ConsumerWaits
<1>4. CASE Consume
  <2>1. Head(buffer) \in Data /\ Tail(buffer) \in Seq(Data)
    BY <1>4, HeadTailProperties DEF Consume
  <2> QED
    BY <1>4, <2>1 DEF Consume, NotifyProducer
<1>5. CASE WaitEnds
  BY <1>5 DEF WaitEnds
<1>6. CASE UNCHANGED bounded
  BY <1>6 DEF bounded
<1> QED
  BY <1>1, <1>2, <1>3, <1>4, <1>5, <1>6 DEF BufferNext, ProducerRound, ConsumerRound

\* Every variable has its type.
THEOREM TypeCorrect == BufferSpec => []BufferTypeOK
BY TypeInit, TypeStep, PTL DEF BufferSpec

\* The initial state of the buffer is that of the abstract queue, and every
\* step of the two threads is a step of the queue or leaves it alone.
THEOREM Implements == BufferSpec => Refinement
<1>1. BufferInit => Queue!Init
  BY ZeroIsData DEF BufferInit, Queue!Init
<1>2. BufferTypeOK /\ [BufferNext]_bounded => [Queue!Next]_<<buffer, consumed>>
  <2> SUFFICES ASSUME BufferTypeOK, [BufferNext]_bounded
               PROVE [Queue!Next]_<<buffer, consumed>>
    OBVIOUS
  <2>1. CASE Produce
    <3>1. Queue!Push(data)
      BY <2>1 DEF Produce, HasRoom, Queue!Push
    <3> QED
      BY <3>1 DEF Queue!Next, BufferTypeOK
  <2>2. CASE Consume
    <3>1. Queue!Pop
      BY <2>2 DEF Consume, Queue!Pop
    <3> QED
      BY <3>1 DEF Queue!Next
  <2>3. CASE ProducerWaits \/ ConsumerWaits \/ WaitEnds \/ UNCHANGED bounded
    BY <2>3 DEF ProducerWaits, ConsumerWaits, WaitEnds, bounded
  <2> QED
    BY <2>1, <2>2, <2>3 DEF BufferNext, ProducerRound, ConsumerRound
<1> QED
  BY <1>1, <1>2, TypeCorrect, PTL DEF BufferSpec, Refinement, Queue!Spec

\* A sleeping producer has a full buffer and a sleeping consumer an empty one,
\* since each round of the one wakes the other.
LEMMA SleepersStep ==
  BufferTypeOK /\ SleepersHaveReason /\ [BufferNext]_bounded => SleepersHaveReason'
<1> SUFFICES ASSUME BufferTypeOK, SleepersHaveReason, [BufferNext]_bounded
             PROVE SleepersHaveReason'
  OBVIOUS
<1> USE DEF SleepersHaveReason
<1>1. CASE ProducerWaits
  BY <1>1, BufferAssumption DEF ProducerWaits, HasRoom, BufferTypeOK
<1>2. CASE Produce
  BY <1>2 DEF Produce, NotifyConsumer
<1>3. CASE ConsumerWaits
  BY <1>3 DEF ConsumerWaits
<1>4. CASE Consume
  BY <1>4 DEF Consume, NotifyProducer
<1>5. CASE WaitEnds
  BY <1>5 DEF WaitEnds
<1>6. CASE UNCHANGED bounded
  BY <1>6 DEF bounded
<1> QED
  BY <1>1, <1>2, <1>3, <1>4, <1>5, <1>6 DEF BufferNext, ProducerRound, ConsumerRound

\* The two threads never both sleep: a buffer is not full and empty at once.
THEOREM NeverBothAsleep == BufferSpec => []SomebodyAwake
<1>1. BufferInit => SleepersHaveReason
  BY DEF BufferInit, SleepersHaveReason
<1>2. BufferTypeOK /\ SleepersHaveReason => SomebodyAwake
  BY BufferAssumption DEF BufferTypeOK, SleepersHaveReason, SomebodyAwake
<1> QED
  BY <1>1, <1>2, SleepersStep, TypeCorrect, PTL DEF BufferSpec
=============================================================================
