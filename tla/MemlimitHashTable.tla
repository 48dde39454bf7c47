--------------------------- MODULE MemlimitHashTable ---------------------------
(***************************************************************************)
(* MemlimtiHashTable.cpp: a chained hash table that adds up the memory of  *)
(* its nodes and refuses a new key above a limit.  insert, find and erase  *)
(* run under the table's lock, the move assignment under both locks.  The  *)
(* move constructor takes no lock of the table it empties; its callers see *)
(* to it that nobody else uses that one.                                   *)
(*                                                                         *)
(* Keys and values are charged with their capacity(), which for one and    *)
(* the same string differs from object to object: what insert is charged   *)
(* for its arguments need not be what the copies in the node take, which   *)
(* is what erase and the next update give back.                            *)
(***************************************************************************)
EXTENDS Keys, Integers, SequencesExt

CONSTANTS
  NodeKey,    \* the keys that are used with this table
  BucketNum,  \* bucket_num
  Room,       \* Room[v]: the room of a new copy of v, the least one v fits in
  NodeSize,   \* NodeSize[k]: a Node and the room of a new copy of the key k
  Limit,      \* mem_limit
  SizeT       \* 2^w for the w bits of size_t

ASSUME LimitAssumption ==
  /\ NodeKey \subseteq Key
  /\ BucketNum \in Nat \ {0} /\ SizeT \in Nat \ {0}
  /\ Room \in [Value -> Nat] /\ NodeSize \in [NodeKey -> Nat] /\ Limit \in Nat

VARIABLES
  chains, used, limit,  \* _buckets, _memory_used, _memory_limit of two tables
  home,                 \* the table that has not been moved from
  exact,                \* history: each charge was the room then taken
  limitedAnswer

limited == <<chains, used, limit, home, exact, limitedAnswer>>

Tables == {1, 2}

Rooms == {Room[v] : v \in Value}

\* What a node can be charged with.
NodeCharges == {NodeSize[k] + room : k \in NodeKey, room \in Rooms}

LimitedInit ==
  /\ chains = [t \in Tables |-> [b \in 0 .. BucketNum - 1 |-> <<>>]]
  /\ used = [t \in Tables |-> 0]
  /\ limit = [t \in Tables |-> Limit]
  /\ home = 1
  /\ exact = TRUE
  /\ limitedAnswer = <<>>

Chain(k) == chains[home][Hash[k] % BucketNum]

SetChain(k, chain) == chains' = [chains EXCEPT ![home][Hash[k] % BucketNum] = chain]

\* A node is its key, its value and the room of the value.
NodeAt(k) == SelectInSeq(Chain(k), LAMBDA node : node[1] = k)

Find(k) == IF NodeAt(k) = 0 THEN Absent ELSE Chain(k)[NodeAt(k)][2]

\* Mutant: the new value is not charged.
ChargeOldOnly(old, room) == used' = [used EXCEPT ![home] = (@ - old) % SizeT]

Charge(old, room) == used' = [used EXCEPT ![home] = (@ - old + room) % SizeT]

\* A string that takes a longer value grows to any room the value fits in.
RoomKept(old, v) == IF Room[v] <= old THEN {old} ELSE {r \in Rooms : r >= Room[v]}

\* insert of a key in the table; room is the argument's capacity.
UpdateNode(k, v, room) ==
  LET old == Chain(k)[NodeAt(k)][3]
  IN  /\ NodeAt(k) # 0
      /\ Charge(old, room)
      /\ \E kept \in RoomKept(old, v) :
           /\ SetChain(k, ReplaceAt(Chain(k), NodeAt(k), <<k, v, kept>>))
           /\ exact' = (exact /\ kept = room)
      /\ limitedAnswer' = <<"insert", k, TRUE>>

\* need is a Node with the capacities of both arguments.
WithinLimit(need) == (used[home] + need) % SizeT <= limit[home]

AddNode(k, v, need) ==
  /\ NodeAt(k) = 0 /\ WithinLimit(need)
  /\ SetChain(k, Cons(<<k, v, Room[v]>>, Chain(k)))
  /\ Charge(0, need)
  /\ exact' = (exact /\ need = NodeSize[k] + Room[v])
  /\ limitedAnswer' = <<"insert", k, TRUE>>

RefuseNode(k, need) ==
  /\ NodeAt(k) = 0 /\ ~WithinLimit(need)
  /\ limitedAnswer' = <<"insert", k, FALSE>>
  /\ UNCHANGED <<chains, used, exact>>

InsertNode(k) ==
  /\ \E v \in Value :
       \/ \E room \in Rooms : room >= Room[v] /\ UpdateNode(k, v, room)
       \/ \E need \in NodeCharges :
            /\ need >= NodeSize[k] + Room[v]
            /\ AddNode(k, v, need) \/ RefuseNode(k, need)
  /\ UNCHANGED <<limit, home>>

EraseNode(k) ==
  /\ IF NodeAt(k) = 0
     THEN UNCHANGED <<chains, used>>
     ELSE /\ SetChain(k, RemoveAt(Chain(k), NodeAt(k)))
          /\ Charge(NodeSize[k] + Chain(k)[NodeAt(k)][3], 0)
  /\ limitedAnswer' = <<"erase", k, NodeAt(k) # 0>>
  /\ UNCHANGED <<limit, home, exact>>

\* Mutant: the limit stays behind.
AllButLimit == <<chains[home], used[home], limit[3 - home]>>

\* What a move takes, when it takes everything.
Everything == <<chains[home], used[home], limit[home]>>

\* Move construction or assignment: the other table drops what it holds, takes
\* everything, and leaves this one without buckets and limit.
MoveTable ==
  /\ home' = 3 - home
  /\ chains' = [t \in Tables |-> IF t = home THEN <<>> ELSE Everything[1]]
  /\ used' = [t \in Tables |-> IF t = home THEN 0 ELSE Everything[2]]
  /\ limit' = [t \in Tables |-> IF t = home THEN 0 ELSE Everything[3]]
  /\ UNCHANGED <<exact, limitedAnswer>>

LimitedNext == (\E k \in NodeKey : InsertNode(k) \/ EraseNode(k)) \/ MoveTable

LimitedSpec == LimitedInit /\ [][LimitedNext]_limited

-----------------------------------------------------------------------------
(* Properties *)

Nodes == UNION {ToSet(chains[home][b]) : b \in DOMAIN chains[home]}

\* The bytes the nodes take.
Bytes == UNION {{node} \X (1 .. NodeSize[node[1]] + node[3]) : node \in Nodes}

Memory == Cardinality(Bytes)

\* Where the table has nodes: bucket and place.
NodePlaces == UNION {{b} \X DOMAIN chains[home][b] : b \in DOMAIN chains[home]}

LimitedMap == INSTANCE Dictionary WITH
  Key <- NodeKey, None <- Absent,
  contents <- [k \in NodeKey |-> Find(k)],
  size <- Cardinality(NodePlaces),
  full <- exact => \E need \in NodeCharges : Memory + need > Limit,
  answer <- limitedAnswer

\* Through insertions, updates, erasures and moves the table is a dictionary;
\* as long as every charge was the room then taken, it refuses a key only when
\* the memory of its nodes leaves no place for the largest one.
LimitedIsDictionary == LimitedMap!Spec

\* _memory_used is the memory of the nodes as long as every charge was the
\* room then taken, in whichever table the nodes are.  (An update by a shorter
\* string breaks it, since the node keeps its room and the account does not,
\* and so does a key or value that comes with room to spare.)
AccountExact == exact => used[home] = Memory
=============================================================================
