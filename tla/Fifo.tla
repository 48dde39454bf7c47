-------------------------------- MODULE Fifo --------------------------------
(***************************************************************************)
(* What a bounded first-in first-out queue promises its callers: an item   *)
(* enters only while there is room, and the items leave in the order they  *)
(* entered, each once and unchanged.  SPSCQueue implements it.             *)
(***************************************************************************)
EXTENDS Integers, Sequences

CONSTANTS Item, Capacity

VARIABLES
  queue,    \* the items inside, oldest first
  got       \* what the last pop returned

Init == queue = <<>> /\ got \in Item

Push(x) ==
  /\ Len(queue) < Capacity
  /\ queue' = Append(queue, x)
  /\ UNCHANGED got

Pop ==
  /\ queue # <<>>
  /\ got' = Head(queue)
  /\ queue' = Tail(queue)

Next == Pop \/ \E x \in Item : Push(x)

Spec == Init /\ [][Next]_<<queue, got>>
=============================================================================
