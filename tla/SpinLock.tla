------------------------------- MODULE SpinLock -------------------------------
(***************************************************************************)
(* SpinLock.cpp: an atomic flag that a thread sets to lock and clears to   *)
(* unlock, and data that the threads increment while they hold the lock.   *)
(*                                                                         *)
(* Memory is weak: a thread sees at least the increments it made and those *)
(* it learned of by an acquire that reads a release; clear stores in the   *)
(* flag what the thread has seen, test_and_set takes it over.  A flag that *)
(* nobody initializes is set or clear at the start.                        *)
(***************************************************************************)
EXTENDS Integers

CONSTANTS
  Thread,
  MaxWrites   \* bound on the increments

VARIABLES
  flag,       \* _flag: whether it is set, and the increments released with it
  writes,     \* the increments made
  seen,       \* per thread the increments it is sure to see
  holding     \* per thread whether it is between lock and unlock

lock == <<flag, writes, seen, holding>>

LockInit ==
  /\ \E set \in BOOLEAN : flag = [set |-> set, seen |-> 0]
  /\ writes = 0
  /\ seen = [t \in Thread |-> 0]
  /\ holding = [t \in Thread |-> FALSE]

\* The greater of what t has seen and what came with the flag.
Acquired(t) == IF flag.seen > seen[t] THEN flag.seen ELSE seen[t]

\* lock: the test_and_set that finds the flag clear ends the loop ...
Lock(t) ==
  /\ ~holding[t] /\ ~flag.set
  /\ flag' = [flag EXCEPT !.set = TRUE]
  /\ seen' = [seen EXCEPT ![t] = Acquired(t)]
  /\ holding' = [holding EXCEPT ![t] = TRUE]
  /\ UNCHANGED writes

\* ... and one that finds it set goes round again.
Spin(t) ==
  /\ ~holding[t] /\ flag.set
  /\ seen' = [seen EXCEPT ![t] = Acquired(t)]
  /\ UNCHANGED <<flag, writes, holding>>

\* The critical section: read the data one has seen, write it plus one.
Increment(t) ==
  /\ holding[t] /\ writes < MaxWrites
  /\ writes' = writes + 1
  /\ seen' = [seen EXCEPT ![t] = seen[t] + 1]
  /\ UNCHANGED <<flag, holding>>

\* Mutant: clear(memory_order_relaxed).
ClearRelaxed(t) == flag' = [set |-> FALSE, seen |-> 0]

Clear(t) == flag' = [set |-> FALSE, seen |-> seen[t]]

Unlock(t) ==
  /\ holding[t]
  /\ Clear(t)
  /\ holding' = [holding EXCEPT ![t] = FALSE]
  /\ UNCHANGED <<writes, seen>>

LockNext == \E t \in Thread : Lock(t) \/ Spin(t) \/ Increment(t) \/ Unlock(t)

LockSpec == LockInit /\ [][LockNext]_lock

-----------------------------------------------------------------------------
(* Properties *)

\* Who holds the lock is alone and sees every increment made before: no update
\* of the data is lost, on any processor, and whatever the flag was at first.
NoLostUpdate ==
  \A t \in Thread : holding[t] =>
    seen[t] = writes /\ \A u \in Thread \ {t} : ~holding[u]
=============================================================================
