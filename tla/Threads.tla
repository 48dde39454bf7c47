------------------------------- MODULE Threads -------------------------------
(***************************************************************************)
(* The programs that are built of threads and condition variables, for     *)
(* TLC: ThreadPool, ProducerConsumer and Turns.  They share nothing: a     *)
(* behaviour runs one of them, and the variables of the others do not      *)
(* change.                                                                 *)
(***************************************************************************)
EXTENDS ThreadPool, ProducerConsumer

CONSTANT MaxInt

VARIABLES
  i, place,   \* those of Turns
  program     \* the one that runs

Printers == INSTANCE Turns

ThreadsInit ==
  /\ program \in {"pool", "buffer", "printers"}
  /\ Init /\ BufferInit /\ Printers!Init

Step ==
  \/ /\ program = "pool" /\ Next
     /\ UNCHANGED <<bounded, i, place>>
  \/ /\ program = "buffer" /\ BufferNext
     /\ UNCHANGED <<vars, i, place>>
  \/ /\ program = "printers" /\ Printers!Next
     /\ UNCHANGED <<vars, bounded>>

ThreadsNext == Step /\ UNCHANGED program

Threads ==
  /\ ThreadsInit
  /\ [][ThreadsNext]_<<vars, bounded, i, place, program>>
  /\ program = "pool" => Fairness
  /\ program = "buffer" => BufferFairness
  /\ program = "printers" => Printers!Fairness

-----------------------------------------------------------------------------
(* Properties: those of the components, stated there, and these two of a     *)
(* program that never ends                                                   *)

\* Every number is consumed in its turn (ProducerConsumer.tla).
BufferGoesOn == program = "buffer" => AllConsumed

\* Every number is printed by the thread whose turn it is (Turns.tla).
TurnsGoOn == program = "printers" => Printers!TurnsGoOn
=============================================================================
