-------------------------- MODULE ProducerConsumer --------------------------
(***************************************************************************)
(* The bounded buffer of producer_consurmer.cpp: two threads, one mutex,   *)
(* a condition variable for each thread.                                   *)
(*                                                                         *)
(* A step is what a thread does between taking mtx and giving it up, in    *)
(* the wait or at the end of the round.  The notification is inside it.    *)
(* The sleep that ends a round is part of the place "enter".               *)
(***************************************************************************)
EXTENDS Integers, Sequences

CONSTANTS
  MaxBufferSize,   \* MAX_BUFFER_SIZE
  DataBound        \* bound: data is counted modulo this

ASSUME BufferAssumption ==
  /\ MaxBufferSize \in Nat \ {0}
  /\ DataBound \in Nat \ {0}

VARIABLES
  buffer,     \* buffer
  data,       \* the local variable of producer
  consumed,   \* the local variable data of consumer
  producer,   \* "enter": about to lock mtx; "waiting": on cv_producer
  consumer    \* the same, on cv_consumer

bounded == <<buffer, data, consumed, producer, consumer>>

Data == 0 .. DataBound - 1

\* consumer has not assigned its variable yet.
BufferInit ==
  /\ buffer = <<>>
  /\ data = 0
  /\ consumed = 0
  /\ producer = "enter"
  /\ consumer = "enter"

\* Mutant: lets one item more in.
RoomForMore == Len(buffer) <= MaxBufferSize

HasRoom == Len(buffer) < MaxBufferSize

ProducerWaits ==
  /\ producer = "enter"
  /\ ~HasRoom
  /\ producer' = "waiting"
  /\ UNCHANGED <<buffer, data, consumed, consumer>>

\* Mutant: nobody wakes the consumer.
LetConsumerSleep == UNCHANGED consumer

\* notify_one: there is at most one thread to wake.
NotifyConsumer == consumer' = "enter"

Produce ==
  /\ producer = "enter"
  /\ HasRoom
  /\ buffer' = Append(buffer, data)
  /\ data' = (data + 1) % DataBound
  /\ NotifyConsumer
  /\ UNCHANGED <<consumed, producer>>

ConsumerWaits ==
  /\ consumer = "enter"
  /\ buffer = <<>>
  /\ consumer' = "waiting"
  /\ UNCHANGED <<buffer, data, consumed, producer>>

\* Mutant: nobody wakes the producer.
LetProducerSleep == UNCHANGED producer

NotifyProducer == producer' = "enter"

Consume ==
  /\ consumer = "enter"
  /\ buffer # <<>>
  /\ consumed' = Head(buffer)
  /\ buffer' = Tail(buffer)
  /\ NotifyProducer
  /\ UNCHANGED <<data, consumer>>

\* A wait may end without a notification.
WaitEnds ==
  /\ \/ producer = "waiting" /\ producer' = "enter" /\ UNCHANGED consumer
     \/ consumer = "waiting" /\ consumer' = "enter" /\ UNCHANGED producer
  /\ UNCHANGED <<buffer, data, consumed>>

ProducerRound == ProducerWaits \/ Produce
ConsumerRound == ConsumerWaits \/ Consume

BufferNext == ProducerRound \/ ConsumerRound \/ WaitEnds

BufferSpec == BufferInit /\ [][BufferNext]_bounded

\* Neither thread ends or holds mtx for ever: a thread that is back at the lock
\* gets it.  Nothing makes a wait end without a notification.
BufferFairness == WF_bounded(ProducerRound) /\ WF_bounded(ConsumerRound)

FairBufferSpec == BufferSpec /\ BufferFairness

-----------------------------------------------------------------------------
(* Properties *)

\* Every variable has its type.
BufferTypeOK ==
  /\ buffer \in Seq(Data)
  /\ data \in Data /\ consumed \in Data
  /\ producer \in {"enter", "waiting"}
  /\ consumer \in {"enter", "waiting"}

Queue == INSTANCE Fifo
           WITH Item <- Data, Capacity <- MaxBufferSize,
                queue <- buffer, got <- consumed

\* The two threads use the buffer as one bounded queue: "produce only while
\* it is not full, consume only while it is not empty", and nothing is lost,
\* doubled or overtaken in between.
Refinement == Queue!Spec

\* The two threads never both sleep: whoever goes to sleep has notified the
\* other since that one did.
SomebodyAwake == producer = "enter" \/ consumer = "enter"

\* Every number is consumed in its turn, for ever.
AllConsumed == \A d \in Data : []<>(consumed = d)
=============================================================================
