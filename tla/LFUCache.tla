------------------------------- MODULE LFUCache -------------------------------
(***************************************************************************)
(* LFU.cpp: nodes in one list per number of uses, an index from keys to    *)
(* nodes, and the least number of uses.  Both operations run under the     *)
(* mutex.  An empty list stands for one that is not in _freq_to_list.      *)
(***************************************************************************)
EXTENDS Keys, Integers, SequencesExt

CONSTANTS
  MaxItems,  \* _capacity
  MaxFreq    \* bound on the number of uses of a key

\* The constructor asserts that the capacity is positive.
ASSUME ItemsAssumption == MaxItems \in Nat \ {0} /\ MaxFreq \in Nat \ {0}

VARIABLES
  lists,     \* _freq_to_list: per frequency the keys, the last used first
  minFreq,   \* _min_freq
  index,     \* _index: for the stored keys the value and frequency of the node
  lfuAnswer  \* the last operation, its key, and the value put or found

lfu == <<lists, minFreq, index, lfuAnswer>>

LfuInit ==
  /\ lists = [f \in 1 .. MaxFreq |-> <<>>]
  /\ minFreq = 1
  /\ index = <<>>
  /\ lfuAnswer = <<>>

Stored == DOMAIN index

\* The iterator in the index: the place of the key in the list it is in.
Iterator(k) == SelectInSeq(lists[index[k][2]], LAMBDA j : j = k)

\* Mutant: _min_freq follows every node that leaves the list.
NextMinAlways(f) == IF minFreq = f THEN minFreq + 1 ELSE minFreq

\* _min_freq after a node left the list of f for the next one.
NextMin(f) == IF lists'[f] = <<>> /\ minFreq = f THEN minFreq + 1 ELSE minFreq

\* move_item, with the value the node then has.
MoveItem(k, v) ==
  LET f == index[k][2]
  IN  /\ f < MaxFreq
      /\ lists' = [lists EXCEPT ![f] = RemoveAt(@, Iterator(k)), ![f + 1] = Cons(k, @)]
      /\ minFreq' = NextMin(f)
      /\ index' = [index EXCEPT ![k] = <<v, f + 1>>]

OverwriteItem(k, v) == k \in Stored /\ MoveItem(k, v)

\* Mutant: the most recent key of the list goes.
EvictedFront == IF Cardinality(Stored) >= MaxItems THEN 1 ELSE 0

\* The place in the list of the least frequency of the key that put evicts, 0
\* when there is still room.
Evicted == IF Cardinality(Stored) >= MaxItems THEN Len(lists[minFreq]) ELSE 0

StoreItem(k, v) ==
  /\ k \notin Stored
  /\ LET left == IF Evicted = 0 THEN lists
                 ELSE [lists EXCEPT ![minFreq] = RemoveAt(@, Evicted)]
         kept == IF Evicted = 0 THEN Stored ELSE Stored \ {lists[minFreq][Evicted]}
     IN  /\ lists' = [left EXCEPT ![1] = Cons(k, @)]
         /\ index' = [j \in kept \union {k} |-> IF j = k THEN <<v, 1>> ELSE index[j]]
  /\ minFreq' = 1

PutItem(k, v) ==
  /\ OverwriteItem(k, v) \/ StoreItem(k, v)
  /\ lfuAnswer' = <<"put", k, v>>

GetItem(k) ==
  \/ /\ k \in Stored
     /\ MoveItem(k, index[k][1])
     /\ lfuAnswer' = <<"get", k, index[k][1]>>
  \/ /\ k \notin Stored
     /\ lfuAnswer' = <<"get", k, Absent>>
     /\ UNCHANGED <<lists, minFreq, index>>

LfuNext == \E k \in Key : GetItem(k) \/ \E v \in Value : PutItem(k, v)

LfuSpec == LfuInit /\ [][LfuNext]_lfu

-----------------------------------------------------------------------------
(* Properties *)

\* _min_freq names the least frequency in use, so that put evicts from a list
\* that exists, however gets and puts of other keys emptied the lists.
MinFreqIsLeast ==
  Stored # {} => minFreq = Min({index[k][2] : k \in Stored})

LfuCache == INSTANCE Cache WITH
  Counts <- TRUE, None <- Absent, Capacity <- MaxItems,
  contents <- [k \in Key |-> IF k \in Stored THEN index[k][1] ELSE Absent],
  order <- FlattenSeq(Reverse(lists)),
  uses <- [k \in Key |-> IF k \in Stored THEN index[k][2] ELSE 0],
  stale <- {},
  answer <- lfuAnswer

\* Lists, index and _min_freq are one cache: a key goes only when the cache is
\* full, and then it is one of those used least, the one whose last use is
\* longest ago.
LfuIsCache == LfuCache!Spec
=============================================================================
