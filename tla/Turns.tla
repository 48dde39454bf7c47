-------------------------------- MODULE Turns --------------------------------
(***************************************************************************)
(* The three threads of multiThread.cpp that print 1, 2, 3 in turn: they   *)
(* wait on one condition variable for their value of i % 3.  A step is     *)
(* what a thread does between taking m and giving it up.                   *)
(*                                                                         *)
(* i is an int that is incremented for ever.  The overflow is undefined;   *)
(* the usual build goes on with the least int, and % then gives a value    *)
(* that is not positive.                                                   *)
(***************************************************************************)
EXTENDS Integers

CONSTANT MaxInt    \* the greatest int, a natural number

VARIABLES
  i,         \* i
  place      \* per thread: "enter" about to lock m, or "waiting" on cv

vars == <<i, place>>

\* print1, print2, print3 by the remainder each waits for.
Thread == 0 .. 2

Init ==
  /\ i = 0
  /\ place = [t \in Thread |-> "enter"]

\* i % 3 of C++, which has the sign of i.
Remainder == IF i >= 0 THEN i % 3 ELSE -((-i) % 3)

Wait(t) ==
  /\ place[t] = "enter"
  /\ Remainder # t
  /\ place' = [place EXCEPT ![t] = "waiting"]
  /\ UNCHANGED i

\* Mutant: notify_one.
NotifyOne ==
  \/ \E t \in Thread :
       place[t] = "waiting" /\ place' = [place EXCEPT ![t] = "enter"]
  \/ (\A t \in Thread : place[t] # "waiting") /\ UNCHANGED place

NotifyAll == place' = [t \in Thread |-> "enter"]

Increment == IF i = MaxInt THEN -MaxInt - 1 ELSE i + 1

TakeTurn(t) ==
  /\ place[t] = "enter"
  /\ Remainder = t
  /\ i' = Increment
  /\ NotifyAll

WakeSpuriously(t) ==
  /\ place[t] = "waiting"
  /\ place' = [place EXCEPT ![t] = "enter"]
  /\ UNCHANGED i

Round(t) == Wait(t) \/ TakeTurn(t)

Next == \E t \in Thread : Round(t) \/ WakeSpuriously(t)

Spec == Init /\ [][Next]_vars

\* A thread at the lock gets it in the end.
Fairness == \A t \in Thread : WF_vars(Round(t))

-----------------------------------------------------------------------------
(* Properties *)

\* No thread waits in vain while i is in range: every number is printed, by
\* the thread whose turn it is.  (After the overflow all three wait.)
TurnsGoOn == \A n \in 0 .. MaxInt - 1 : i = n ~> i = n + 1
=============================================================================
