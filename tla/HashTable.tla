------------------------------- MODULE HashTable -------------------------------
(***************************************************************************)
(* HashTable.cpp: a vector of buckets, each a list of key and value pairs. *)
(***************************************************************************)
EXTENDS Keys, Integers, SequencesExt

CONSTANT Buckets    \* the bucket count

ASSUME BucketsAssumption == Buckets \in Nat \ {0}

VARIABLES buckets, chainedAnswer

chained == <<buckets, chainedAnswer>>

ChainedInit ==
  /\ buckets = [b \in 0 .. Buckets - 1 |-> <<>>]
  /\ chainedAnswer = <<>>

List(k) == buckets[Hash[k] % Buckets]

\* Mutant: only the first pair of the list is compared.
PlaceAtHead(k) == IF List(k) # <<>> /\ List(k)[1][1] = k THEN 1 ELSE 0

\* The place of the first pair with the key in its list; 0 when there is none.
Place(k) == SelectInSeq(List(k), LAMBDA p : p[1] = k)

GetPair(k) == IF Place(k) = 0 THEN Absent ELSE List(k)[Place(k)][2]

SetList(k, list) == buckets' = [buckets EXCEPT ![Hash[k] % Buckets] = list]

Put(k, v) ==
  /\ SetList(k, IF Place(k) = 0
                THEN Append(List(k), <<k, v>>)
                ELSE ReplaceAt(List(k), Place(k), <<k, v>>))
  /\ chainedAnswer' = <<"insert", k, TRUE>>

ErasePair(k) ==
  /\ SetList(k, IF Place(k) = 0 THEN List(k) ELSE RemoveAt(List(k), Place(k)))
  /\ chainedAnswer' = <<"erase", k, Place(k) # 0>>

ChainedNext == \E k \in Key : (\E v \in Value : Put(k, v)) \/ ErasePair(k)

ChainedSpec == ChainedInit /\ [][ChainedNext]_chained

-----------------------------------------------------------------------------
(* Properties *)

\* Where the table has pairs: bucket and place.
Pairs == UNION {{b} \X DOMAIN buckets[b] : b \in DOMAIN buckets}

Map == INSTANCE Dictionary WITH
  None <- Absent,
  contents <- [k \in Key |-> GetPair(k)],
  size <- Cardinality(Pairs),
  full <- FALSE,
  answer <- chainedAnswer

\* The table is a dictionary that never refuses a key and holds no pair twice.
ChainedIsDictionary == Map!Spec
=============================================================================
