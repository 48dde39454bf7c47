----------------------------- MODULE SPSCQueue ------------------------------
(***************************************************************************)
(* The ring buffer of SPSCQueue.cpp, shared without a lock by one thread   *)
(* that pushes and one that pops.                                          *)
(*                                                                         *)
(* The counters _tail and _head are of type size_t and are never reduced   *)
(* modulo the capacity: they wrap at Wrap = 2^w.  Each thread writes one   *)
(* of them and loads the other with memory_order_acquire: such a load may  *)
(* return any value the counter has had since the last one this thread     *)
(* saw.  What was stored before the value it returns is then visible.  The *)
(* accesses to _buffer are plain: its slots must not be written and read   *)
(* at the same time.                                                       *)
(***************************************************************************)
EXTENDS Integers, Sequences

CONSTANTS
  Item,       \* T
  Capacity,   \* _capacity
  Wrap        \* the number of values of size_t

\* static_assert(Size > 0).  The code asks no more of Size, but see Slot.
ASSUME CapacityAssumption ==
  /\ Capacity \in Nat \ {0}
  /\ Wrap \in Nat
  /\ Capacity < Wrap
  /\ Item # {}

VARIABLES
  tail, head,     \* _tail and _head
  buffer,         \* _buffer
  pushing,        \* where the producer is in push
  seenHead,       \* the last value of _head it saw
  item,           \* the argument of push
  popping,        \* where the consumer is in pop
  seenTail,       \* the last value of _tail it saw
  out,            \* *item: what it read out of the buffer
  got             \* *item when pop last returned true

producer == <<pushing, seenHead, item>>
consumer == <<popping, seenTail, out, got>>
vars == <<tail, head, buffer, producer, consumer>>

Counter == 0 .. Wrap - 1

\* The elements of _buffer are not initialized.
Init ==
  /\ tail = 0 /\ head = 0
  /\ buffer \in [0 .. Capacity - 1 -> Item]
  /\ pushing = "idle" /\ seenHead = 0 /\ item \in Item
  /\ popping = "idle" /\ seenTail = 0 /\ out \in Item /\ got = out

-----------------------------------------------------------------------------
(* Arithmetic of size_t *)

\* t - h, the result of size().
Size(h, t) == (t - h) % Wrap

\* Mutant: reduces the counters modulo the capacity: full looks empty.
SuccessorReduced(n) == (n + 1) % Capacity

Successor(n) == (n + 1) % Wrap

\* The slot of a counter.  Neighbours have neighbouring slots also where the
\* counter wraps only if the capacity divides Wrap.
Slot(n) == n % Capacity

\* Mutant: pushes while the queue holds one item more than its capacity.
FullLate(h, t) == Size(h, t) > Capacity

Full(h, t) == Size(h, t) = Capacity

\* Mutant: pops when nothing was pushed.
NeverEmpty(h, t) == FALSE

Empty(h, t) == h = t

\* The values a load of a counter may return.
Loadable(seen, current) ==
  {n \in Counter : Size(seen, n) <= Size(seen, current)}

-----------------------------------------------------------------------------
(* The producer *)

\* push returns false.
PushRefused ==
  /\ pushing = "idle"
  /\ \E h \in Loadable(seenHead, head) : Full(h, tail) /\ seenHead' = h
  /\ UNCHANGED <<tail, head, buffer, pushing, item, consumer>>

PushClaim(x) ==
  /\ pushing = "idle"
  /\ \E h \in Loadable(seenHead, head) : ~Full(h, tail) /\ seenHead' = h
  /\ item' = x
  /\ pushing' = "writing"
  /\ UNCHANGED <<tail, head, buffer, consumer>>

PushWrite ==
  /\ pushing = "writing"
  /\ buffer' = [buffer EXCEPT ![Slot(tail)] = item]
  /\ pushing' = "publishing"
  /\ UNCHANGED <<tail, head, seenHead, item, consumer>>

PushPublish ==
  /\ pushing = "publishing"
  /\ tail' = Successor(tail)
  /\ pushing' = "idle"
  /\ UNCHANGED <<head, buffer, seenHead, item, consumer>>

\* empty(), full() or size() called by the producer.
ProducerLooks ==
  /\ pushing = "idle"
  /\ seenHead' \in Loadable(seenHead, head)
  /\ UNCHANGED <<tail, head, buffer, pushing, item, consumer>>

-----------------------------------------------------------------------------
(* The consumer *)

\* pop returns false.  With nullptr it does so without a load: no step.
PopRefused ==
  /\ popping = "idle"
  /\ \E t \in Loadable(seenTail, tail) : Empty(head, t) /\ seenTail' = t
  /\ UNCHANGED <<tail, head, buffer, popping, out, got, producer>>

PopClaim ==
  /\ popping = "idle"
  /\ \E t \in Loadable(seenTail, tail) : ~Empty(head, t) /\ seenTail' = t
  /\ popping' = "reading"
  /\ UNCHANGED <<tail, head, buffer, out, got, producer>>

PopRead ==
  /\ popping = "reading"
  /\ out' = buffer[Slot(head)]
  /\ popping' = "releasing"
  /\ UNCHANGED <<tail, head, buffer, seenTail, got, producer>>

PopRelease ==
  /\ popping = "releasing"
  /\ head' = Successor(head)
  /\ got' = out
  /\ popping' = "idle"
  /\ UNCHANGED <<tail, buffer, seenTail, out, producer>>

ConsumerLooks ==
  /\ popping = "idle"
  /\ seenTail' \in Loadable(seenTail, tail)
  /\ UNCHANGED <<tail, head, buffer, popping, out, got, producer>>

Next ==
  \/ PushRefused \/ PushWrite \/ PushPublish \/ ProducerLooks
  \/ \E x \in Item : PushClaim(x)
  \/ PopRefused \/ PopClaim \/ PopRead \/ PopRelease \/ ConsumerLooks

Spec == Init /\ [][Next]_vars

-----------------------------------------------------------------------------
(* Properties *)

\* The plain accesses of push and pop (lines 22 and 37) never race: while
\* the producer writes a slot the consumer does not read that slot.
NoRace ==
  ~ /\ pushing = "writing"
    /\ popping = "reading"
    /\ Slot(tail) = Slot(head)

\* size() called by the producer or by the consumer never exceeds the
\* capacity, however old the counter it loads (called by a third thread,
\* between whose two loads both others move, it may).
SizeInRange ==
  /\ Size(head, tail) <= Capacity
  /\ Size(seenHead, tail) <= Capacity
  /\ Size(head, seenTail) <= Capacity

\* The items between head and tail, oldest first.
Inside == [k \in 1 .. Size(head, tail) |-> buffer[Slot((head + k - 1) % Wrap)]]

Abstract == INSTANCE Fifo WITH queue <- Inside

\* push and pop, whose steps interleave and whose loads may be stale, act as
\* one bounded queue: an item is in when _tail is stored, it is out when
\* _head is stored, and what pop hands out is the oldest item, once.
Refinement == Abstract!Spec
=============================================================================
