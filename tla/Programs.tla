-------------------------------- MODULE Programs --------------------------------
(***************************************************************************)
(* The small programs of the repository for TLC, each with the bounds that *)
(* make its interesting cases happen.  They share nothing: a behaviour     *)
(* runs one of them, and the variables of the others do not change.        *)
(***************************************************************************)
EXTENDS SPSCQueue, SharedPtr, SpinLock, HashTable, LinearProbing,
        MemlimitHashTable, LRUCache, LFUCache, PureFunctions, Numbers

VARIABLE program  \* the one that runs

ring == <<tail, head, buffer, producer, consumer>>

\* std::hash of an int is the int.
OwnHash == [k \in Key |-> k]

\* The room of each value in the table with a memory limit.
OddRoom == [v \in Value |-> 2 * v - 1]

\* A node for each key of the table with a memory limit: the key 1 is longer.
NodeRoom == [k \in NodeKey |-> 1 + k]

-----------------------------------------------------------------------------
(* The calls of the functions that keep no state *)

Numerals == {<<"num", 3>>, <<"num", 20>>}

Compound(trees) ==
  {<<op, a, b>> : op \in {"+", "-", "*", "/"}, a \in trees, b \in trees}
  \union {<<"neg", a>> : a \in trees}

Small == Numerals \union Compound(Numerals)

SmallCalls ==
  {<<"sort", s>> : s \in BoundedSeq(1 .. 3, 5)}
  \union {<<"increasing", s>> : s \in BoundedSeq(1 .. 3, 5) \ {<<>>}}
  \union {<<"common", s, t>> : s \in BoundedSeq(1 .. 2, 4), t \in BoundedSeq(1 .. 2, 4)}
  \union {<<"find", s, n>> : s \in {u \in BoundedSeq(1 .. 3, 6) : IsSorted(u, <=)}, n \in 0 .. 4}
  \union {<<"match", s, t>> : s \in BoundedSeq(1 .. 2, 6), t \in BoundedSeq(1 .. 2, 4) \ {<<>>}}
  \union {<<"digits", nums, n>> : nums \in SUBSET {0, 1, 3, 9} \ {{}}, n \in 0 .. 140}
  \union {<<"calculate", tree>> : tree \in Small \union Compound(Small)}

-----------------------------------------------------------------------------

ProgramsInit ==
  /\ program \in {"HashTable", "MemlimitHashTable", "LinearProbing", "LRUCache",
                  "LFUCache", "SharedPtr", "SpinLock", "SPSCQueue", "functions"}
  /\ ChainedInit /\ LimitedInit /\ ProbingInit /\ LruInit /\ LfuInit
  /\ PointersInit /\ LockInit /\ Init /\ call = <<>>
  /\ flag.set => program = "SpinLock"
  /\ program # "SPSCQueue" => buffer = [n \in DOMAIN buffer |-> item] /\ out = item
                              /\ item = CHOOSE x \in Item : TRUE

Step ==
  \/ /\ program = "HashTable" /\ ChainedNext
     /\ UNCHANGED <<limited, probing, lru, lfu, pointers, lock, ring, call>>
  \/ /\ program = "MemlimitHashTable" /\ LimitedNext
     /\ UNCHANGED <<chained, probing, lru, lfu, pointers, lock, ring, call>>
  \/ /\ program = "LinearProbing" /\ ProbingNext
     /\ UNCHANGED <<chained, limited, lru, lfu, pointers, lock, ring, call>>
  \/ /\ program = "LRUCache" /\ LruNext
     /\ UNCHANGED <<chained, limited, probing, lfu, pointers, lock, ring, call>>
  \/ /\ program = "LFUCache" /\ LfuNext
     /\ UNCHANGED <<chained, limited, probing, lru, pointers, lock, ring, call>>
  \/ /\ program = "SharedPtr" /\ PointersNext
     /\ UNCHANGED <<chained, limited, probing, lru, lfu, lock, ring, call>>
  \/ /\ program = "SpinLock" /\ LockNext
     /\ UNCHANGED <<chained, limited, probing, lru, lfu, pointers, ring, call>>
  \/ /\ program = "functions" /\ (Call \/ Return)
     /\ UNCHANGED <<chained, limited, probing, lru, lfu, pointers, lock, ring>>
  \/ /\ program = "SPSCQueue" /\ Next
     /\ UNCHANGED <<chained, limited, probing, lru, lfu, pointers, lock, call>>

ProgramsNext == Step /\ UNCHANGED program

Programs ==
  /\ ProgramsInit
  /\ [][ProgramsNext]_<<program, chained, limited, probing, lru, lfu, pointers, lock, ring, call>>

-----------------------------------------------------------------------------
(* Properties: those of the components, stated there, and those of Numbers *)

\* Numbers below a bound with given digits are found and counted (Numbers.tla).
Digits == Calling("digits") => DigitsRight(call[2], call[3])

\* The calculator gives the value of the expression (Numbers.tla).
Calculates == Calling("calculate") => CalculatesRight(call[2])
=============================================================================
