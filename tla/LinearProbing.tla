----------------------------- MODULE LinearProbing -----------------------------
(***************************************************************************)
(* QuadraticProbingHashTable.cpp, whose class is LinearProbingHashTable:   *)
(* open addressing with linear probing; an erased bucket stays in the way  *)
(* of a search as "deleted".  A place is the number of steps from a key's  *)
(* first bucket; -1 stands for npos.                                       *)
(***************************************************************************)
EXTENDS Keys, Integers, FiniteSetsExt

CONSTANTS
  Smallest,    \* the least capacity the constructor asks for, 4 in the code
  Requested    \* the constructor's argument

IsPrime(n) == n >= 2 /\ \A f \in 2 .. n - 1 : f * f <= n => n % f # 0

\* The constructor finds a prime: there is one between any number above 0 and
\* its double.
ASSUME ProbingAssumption ==
  /\ Smallest \in Nat /\ Requested \in Nat
  /\ \E m \in LET n == Max({Smallest, Requested}) IN n .. 2 * n : IsPrime(m)

VARIABLES table, capacity, size, probingAnswer

probing == <<table, capacity, size, probingAnswer>>

\* There is a prime between n and 2 * n.
NextPrime(n) == Min({m \in n .. 2 * n : IsPrime(m)})

EmptyBucket == <<"empty">>
DeletedBucket == <<"deleted">>
Occupied(k, v) == <<"occupied", k, v>>

ProbingInit ==
  /\ capacity = NextPrime(Max({Smallest, Requested}))
  /\ table = [b \in 0 .. capacity - 1 |-> EmptyBucket]
  /\ size = 0
  /\ probingAnswer = <<>>

Probe(k, step) == ((Hash[k] % capacity) + step) % capacity

First(steps) == IF steps = {} THEN -1 ELSE Min(steps)

\* Mutant: a deleted bucket ends the search too.
SearchedToDeleted(empty, deleted) ==
  0 .. (IF deleted # -1 THEN deleted ELSE IF empty = -1 THEN capacity ELSE empty) - 1

\* The steps of a search, given the first empty and the first deleted bucket.
Searched(empty, deleted) == 0 .. (IF empty = -1 THEN capacity ELSE empty) - 1

\* The loop of findIndex and insertInternal: where the key is, and where it
\* would go: in the first deleted bucket met, else in the empty one.
Look(k) ==
  LET probed == [s \in 0 .. capacity - 1 |-> table[Probe(k, s)]]
      empty == First({s \in DOMAIN probed : probed[s] = EmptyBucket})
      deleted == First({s \in DOMAIN probed : probed[s] = DeletedBucket})
      searched == Searched(empty, deleted)
  IN  [found |-> First({s \in searched : \E v \in Value : probed[s] = Occupied(k, v)}),
       free |-> IF deleted \in searched THEN deleted ELSE empty]

Get(k) == LET at == Look(k).found
          IN  IF at = -1 THEN Absent ELSE table[Probe(k, at)][3]

Insert(k, v) ==
  LET look == Look(k)
      to == IF look.found # -1 THEN look.found ELSE look.free
  IN  /\ to # -1
      /\ table' = [table EXCEPT ![Probe(k, to)] = Occupied(k, v)]
      /\ size' = IF look.found = -1 THEN size + 1 ELSE size
      /\ probingAnswer' = <<"insert", k, TRUE>>
      /\ UNCHANGED capacity

Refuse(k) ==
  /\ Look(k) = [found |-> -1, free |-> -1]
  /\ probingAnswer' = <<"insert", k, FALSE>>
  /\ UNCHANGED <<table, capacity, size>>

Erase(k) ==
  LET at == Look(k).found
  IN  /\ IF at = -1
         THEN UNCHANGED <<table, size>>
         ELSE /\ table' = [table EXCEPT ![Probe(k, at)] = DeletedBucket]
              /\ size' = size - 1
      /\ probingAnswer' = <<"erase", k, at # -1>>
      /\ UNCHANGED capacity

ProbingNext ==
  \E k \in Key : (\E v \in Value : Insert(k, v)) \/ Refuse(k) \/ Erase(k)

ProbingSpec == ProbingInit /\ [][ProbingNext]_probing

-----------------------------------------------------------------------------
(* Properties *)

Table == INSTANCE Dictionary WITH
  None <- Absent,
  contents <- [k \in Key |-> Get(k)],
  full <- size = capacity,
  answer <- probingAnswer

\* The table is a dictionary that counts its keys and refuses one only when
\* every bucket is occupied: deleted buckets are used again, and no key that
\* was stored behind one is lost or stored twice.
ProbingIsDictionary == Table!Spec
=============================================================================
