------------------------------- MODULE LRUCache -------------------------------
(***************************************************************************)
(* LRUWithTTL.cpp: a list of nodes, the last used first, and an index from *)
(* keys to nodes.  Both operations run under the mutex.  For the time a    *)
(* node expires at, the model keeps the time it has left.                  *)
(***************************************************************************)
EXTENDS Keys, Integers, SequencesExt

CONSTANTS
  MaxNodes,  \* _capacity
  Ttl        \* the times to live that callers give

\* The constructor asserts that the capacity is positive.
ASSUME NodesAssumption == MaxNodes \in Nat \ {0} /\ Ttl \subseteq Nat

VARIABLES
  nodes,     \* _data: <<key, value, time left>>
  lruIndex,  \* the keys of _index; the node of a key is found in nodes
  lruAnswer  \* the last operation, its key, and the value put or found

lru == <<nodes, lruIndex, lruAnswer>>

LruInit ==
  /\ nodes = <<>>
  /\ lruIndex = {}
  /\ lruAnswer = <<>>

PlaceOf(k) == SelectInSeq(nodes, LAMBDA node : node[1] = k)

NodeOf(k) == nodes[PlaceOf(k)]

\* Mutant: a node is still live at the very time it expires at.
ExpiredLate(node) == node[3] < 0

Expired(node) == node[3] <= 0

ToFront(k, node) == nodes' = Cons(node, RemoveAt(nodes, PlaceOf(k)))

Overwrite(k, v, ttl) ==
  /\ k \in lruIndex
  /\ ToFront(k, <<k, v, ttl>>)
  /\ UNCHANGED lruIndex

\* What the two loops of put leave: expired nodes are dropped from the back up
\* to the first live one, then nodes until one fits.
Kept ==
  LET live == SelectLastInSeq(nodes, LAMBDA node : ~Expired(node))
  IN  SubSeq(nodes, 1, Min({live, MaxNodes - 1}))

Store(k, v, ttl) ==
  /\ k \notin lruIndex
  /\ nodes' = Cons(<<k, v, ttl>>, Kept)
  /\ lruIndex' = {k} \union {Kept[i][1] : i \in DOMAIN Kept}

PutNode(k, v) ==
  /\ \E ttl \in Ttl : Overwrite(k, v, ttl) \/ Store(k, v, ttl)
  /\ lruAnswer' = <<"put", k, v>>

Found(k) == k \in lruIndex /\ ~Expired(NodeOf(k))

Hit(k) ==
  /\ Found(k)
  /\ ToFront(k, NodeOf(k))
  /\ lruAnswer' = <<"get", k, NodeOf(k)[2]>>
  /\ UNCHANGED lruIndex

EraseItem(k) ==
  /\ nodes' = RemoveAt(nodes, PlaceOf(k))
  /\ lruIndex' = lruIndex \ {k}

Miss(k) ==
  /\ ~Found(k)
  /\ IF k \in lruIndex THEN EraseItem(k) ELSE UNCHANGED <<nodes, lruIndex>>
  /\ lruAnswer' = <<"get", k, Absent>>

Older(node) == IF Expired(node) THEN node ELSE <<node[1], node[2], node[3] - 1>>

\* The clock goes on.
Tick ==
  /\ \E i \in DOMAIN nodes : ~Expired(nodes[i])
  /\ nodes' = [i \in DOMAIN nodes |-> Older(nodes[i])]
  /\ UNCHANGED <<lruIndex, lruAnswer>>

LruNext ==
  (\E k \in Key : Hit(k) \/ Miss(k) \/ \E v \in Value : PutNode(k, v)) \/ Tick

LruSpec == LruInit /\ [][LruNext]_lru

-----------------------------------------------------------------------------
(* Properties *)

LruCache == INSTANCE Cache WITH
  Counts <- FALSE, None <- Absent, Capacity <- MaxNodes,
  contents <- [k \in Key |-> IF k \in lruIndex THEN NodeOf(k)[2] ELSE Absent],
  order <- [i \in DOMAIN nodes |-> nodes[i][1]],
  uses <- [k \in Key |-> IF k \in lruIndex THEN 1 ELSE 0],
  stale <- {k \in lruIndex : NodeOf(k)[3] = 0},
  answer <- lruAnswer

\* The list and the index are one cache: an expired value is never found, a
\* live one is lost only when the cache is full, and then it is the one whose
\* last use is longest ago.
LruIsCache == LruCache!Spec
=============================================================================
