----------------------------- MODULE TableProofs -----------------------------
(***************************************************************************)
(* Linear probing with deleted buckets, the chained table and the one with *)
(* a memory limit implement the dictionary, for any keys and values, any   *)
(* hash function and any number of buckets; and the account of the memory  *)
(* is exact as long as each charge is.                                     *)
(***************************************************************************)
EXTENDS LinearProbing, HashTable, MemlimitHashTable, FiniteSetTheorems, SequenceTheorems,
        WellFoundedInduction, TLAPS

\* What Min chooses, as there is no infinite descent among the naturals.
LEMMA LeastElement ==
  ASSUME NEW S \in SUBSET Nat, S # {}
  PROVE  Min(S) \in S /\ \A y \in S : Min(S) <= y
<1> DEFINE R == {ss \in Nat \X Nat : ss[1] < ss[2]}
<1>1. IsWellFoundedOn(R, Nat)
  BY NatLessThanWellFounded DEF OpToRel
<1>2. \A x, y \in Nat : x < y => <<x, y>> \in R
  OBVIOUS
<1> HIDE DEF R
<1>3. PICK x \in S : \A y \in S : ~(<<y, x>> \in R)
  BY <1>1, WFMin
<1>4. ASSUME NEW y \in S PROVE x <= y
  <2>1. x \in Nat /\ y \in Nat
    OBVIOUS
  <2>2. ~(y < x)
    BY <1>2, <1>3, <2>1
  <2> QED
    BY <2>1, <2>2
<1> QED
  BY <1>4 DEF Min

-----------------------------------------------------------------------------
(* Sequences, and the places of a table of sequences *)

\* RemoveAt moves the elements behind the place one down.
LEMMA Removed ==
  ASSUME NEW S, NEW s \in Seq(S), NEW p \in 1 .. Len(s)
  PROVE  /\ RemoveAt(s, p) \in Seq(S)
         /\ Len(RemoveAt(s, p)) = Len(s) - 1
         /\ \A i \in 1 .. Len(s) - 1 :
              RemoveAt(s, p)[i] = IF i < p THEN s[i] ELSE s[i + 1]
<1> DEFINE a == SubSeq(s, 1, p - 1)
           b == SubSeq(s, p + 1, Len(s))
<1>1. Len(s) \in Nat /\ p \in Nat
  BY LenProperties
<1>2. a \in Seq(S) /\ Len(a) = p - 1 /\ \A i \in 1 .. p - 1 : a[i] = s[i]
  BY <1>1, SubSeqProperties
<1>3. b \in Seq(S) /\ Len(b) = Len(s) - p /\ \A i \in 1 .. Len(s) - p : b[i] = s[i + p]
  BY <1>1, SubSeqProperties
<1> HIDE DEF a, b
<1>4. RemoveAt(s, p) = a \o b
  BY DEF RemoveAt, a, b
<1>5. PICK c : c = a \o b
  OBVIOUS
<1>6. /\ c \in Seq(S) /\ Len(c) = Len(s) - 1
      /\ \A i \in 1 .. Len(s) - 1 : c[i] = IF i <= p - 1 THEN a[i] ELSE b[i - (p - 1)]
  <2>1. /\ c \in Seq(S) /\ Len(c) = Len(a) + Len(b)
        /\ \A i \in 1 .. Len(a) + Len(b) : c[i] = IF i <= Len(a) THEN a[i] ELSE b[i - Len(a)]
    BY <1>2, <1>3, <1>5, ConcatProperties
  <2>2. PICK n : n = Len(a) + Len(b)
    OBVIOUS
  <2>3. n = Len(s) - 1
    BY <1>1, <1>2, <1>3, <2>2
  <2>4. PICK m : m = Len(a)
    OBVIOUS
  <2>5. m = p - 1
    BY <1>2, <2>4
  <2>6. \A i \in 1 .. n : c[i] = IF i <= m THEN a[i] ELSE b[i - m]
    BY <2>1, <2>2, <2>4
  <2> QED
    BY <2>1, <2>2, <2>3, <2>5, <2>6
<1>7. ASSUME NEW i \in 1 .. Len(s) - 1
      PROVE  c[i] = IF i < p THEN s[i] ELSE s[i + 1]
  <2>1. CASE i < p
    <3>1. i \in 1 .. p - 1 /\ i <= p - 1
      BY <1>1, <2>1
    <3>2. c[i] = a[i]
      BY <1>6, <3>1
    <3>3. c[i] = s[i]
      BY <1>2, <3>1, <3>2
    <3> QED
      BY <2>1, <3>3
  <2>2. CASE ~(i < p)
    <3>1. PICK j \in 1 .. Len(s) - p : i = j + (p - 1)
      BY <1>1, <2>2
    <3>2. c[i] = b[j] /\ b[j] = s[j + p] /\ j + p = i + 1
      BY <1>1, <1>3, <1>6, <3>1
    <3> QED
      BY <2>2, <3>2
  <2> QED
    BY <2>1, <2>2
<1> QED
  BY <1>4, <1>5, <1>6, <1>7

\* The same as a map from the places of the shorter sequence.
ComesFrom(from, l, s, p) ==
  /\ from \in [1 .. Len(l) -> 1 .. Len(s)]
  /\ \A i \in 1 .. Len(l) : from[i] # p /\ l[i] = s[from[i]]
  /\ \A i, j \in 1 .. Len(l) : from[i] = from[j] => i = j
  /\ \A i \in 1 .. Len(s) : i # p => \E j \in 1 .. Len(l) : from[j] = i

LEMMA RemovedFrom ==
  ASSUME NEW S, NEW s \in Seq(S), NEW p \in 1 .. Len(s), NEW l, l = RemoveAt(s, p)
  PROVE  \E from : ComesFrom(from, l, s, p)
<1> DEFINE from == [i \in 1 .. Len(l) |-> IF i < p THEN i ELSE i + 1]
<1>1. Len(s) \in Nat /\ p \in Nat
  BY LenProperties
<1>2. /\ l \in Seq(S) /\ Len(l) = Len(s) - 1
      /\ \A i \in 1 .. Len(l) : l[i] = IF i < p THEN s[i] ELSE s[i + 1]
  BY <1>1, Removed
<1>3. from \in [1 .. Len(l) -> 1 .. Len(s)]
  BY <1>1, <1>2
<1>4. \A i \in 1 .. Len(l) : from[i] # p /\ l[i] = s[from[i]]
  BY <1>1, <1>2
<1>5. \A i, j \in 1 .. Len(l) : from[i] = from[j] => i = j
  BY <1>1, <1>2
<1>6. ASSUME NEW i \in 1 .. Len(s), i # p
      PROVE  \E j \in 1 .. Len(l) : from[j] = i
  <2>1. CASE i < p
    BY <1>1, <1>2, <2>1
  <2>2. CASE i > p
    <3>1. i - 1 \in 1 .. Len(l) /\ from[i - 1] = i
      BY <1>1, <1>2, <2>2
    <3> QED
      BY <3>1
  <2> QED
    BY <1>1, <1>2, <1>6, <2>1, <2>2
<1> HIDE DEF from
<1>7. ComesFrom(from, l, s, p)
  BY <1>3, <1>4, <1>5, <1>6 DEF ComesFrom
<1> QED
  BY <1>7

\* Cons puts an element in front.
IsCons(l, e, s, S) ==
  /\ l \in Seq(S) /\ Len(l) = Len(s) + 1
  /\ l[1] = e
  /\ \A i \in 1 .. Len(s) : l[i + 1] = s[i]
  /\ \A i \in 1 .. Len(l) : i = 1 \/ (i - 1 \in 1 .. Len(s) /\ l[i] = s[i - 1])

LEMMA ConsIs ==
  ASSUME NEW S, NEW s \in Seq(S), NEW e \in S, NEW l, l = Cons(e, s)
  PROVE  IsCons(l, e, s, S)
<1>1. Len(s) \in Nat
  BY LenProperties
<1>2. <<e>> \in Seq(S) /\ Len(<<e>>) = 1 /\ <<e>>[1] = e
  OBVIOUS
<1>3. l = <<e>> \o s
  BY DEF Cons
<1>4. /\ l \in Seq(S) /\ Len(l) = Len(<<e>>) + Len(s)
      /\ \A i \in 1 .. Len(<<e>>) + Len(s) :
           l[i] = IF i <= Len(<<e>>) THEN <<e>>[i] ELSE s[i - Len(<<e>>)]
  BY <1>2, <1>3, ConcatProperties
<1>5. /\ Len(l) = Len(s) + 1
      /\ \A i \in 1 .. Len(s) + 1 : l[i] = IF i <= 1 THEN <<e>>[i] ELSE s[i - 1]
  BY <1>1, <1>2, <1>4
<1>6. l[1] = e
  BY <1>1, <1>2, <1>5
<1>7. \A i \in 1 .. Len(s) : l[i + 1] = s[i]
  BY <1>1, <1>5
<1>8. \A i \in 1 .. Len(l) : i = 1 \/ (i - 1 \in 1 .. Len(s) /\ l[i] = s[i - 1])
  BY <1>1, <1>5
<1> QED
  BY <1>4, <1>5, <1>6, <1>7, <1>8 DEF IsCons

\* The places of a table: bucket, and place in its list.
PlacesOf(t) == UNION {{b} \X DOMAIN t[b] : b \in DOMAIN t}

\* A table with a list in each bucket.
IsTable(t, R) ==
  DOMAIN t = R /\ \A b \in R : Len(t[b]) \in Nat /\ DOMAIN t[b] = 1 .. Len(t[b])

LEMMA TableIs ==
  ASSUME NEW R, NEW S, NEW t \in [R -> Seq(S)]
  PROVE  IsTable(t, R)
BY LenProperties DEF IsTable

LEMMA PlacesAre ==
  ASSUME NEW R, NEW t, IsTable(t, R)
  PROVE  \A x : x \in PlacesOf(t) <=> \E b \in R : \E i \in 1 .. Len(t[b]) : x = <<b, i>>
<1>1. ASSUME NEW x
      PROVE  x \in PlacesOf(t) <=> \E b \in R : x \in {b} \X DOMAIN t[b]
  BY DEF PlacesOf, IsTable
<1>2. ASSUME NEW x, NEW b \in R
      PROVE  x \in {b} \X DOMAIN t[b] <=> \E i \in 1 .. Len(t[b]) : x = <<b, i>>
  <2>1. DOMAIN t[b] = 1 .. Len(t[b])
    BY DEF IsTable
  <2> QED
    BY <2>1
<1> QED
  BY <1>1, <1>2

\* The places after a change of the length of a list by at most one.
Resized(t, u, c, n, m) ==
  /\ m = n => PlacesOf(u) = PlacesOf(t)
  /\ m = n + 1 => PlacesOf(u) = PlacesOf(t) \cup {<<c, n + 1>>}
  /\ m = n - 1 => PlacesOf(u) = PlacesOf(t) \ {<<c, n>>}
  /\ <<c, n + 1>> \notin PlacesOf(t)
  /\ n > 0 => <<c, n>> \in PlacesOf(t)

LEMMA PlacesChange ==
  ASSUME NEW R, NEW t, IsTable(t, R), NEW u, IsTable(u, R), NEW c \in R,
         \A b \in R : b # c => u[b] = t[b]
  PROVE  Resized(t, u, c, Len(t[c]), Len(u[c]))
<1> DEFINE n == Len(t[c])
           m == Len(u[c])
<1>1. n \in Nat /\ m \in Nat /\ \A b \in R : Len(t[b]) \in Nat /\ Len(u[b]) \in Nat
  BY DEF IsTable
<1>2. \A x : x \in PlacesOf(t) <=> \E b \in R : \E i \in 1 .. Len(t[b]) : x = <<b, i>>
  BY PlacesAre
<1>3. \A x : x \in PlacesOf(u) <=> \E b \in R : \E i \in 1 .. Len(u[b]) : x = <<b, i>>
  BY PlacesAre
<1>4. ASSUME NEW b \in R
      PROVE  IF b = c THEN Len(t[b]) = n /\ Len(u[b]) = m ELSE Len(u[b]) = Len(t[b])
  OBVIOUS
<1>5. ASSUME m = n
      PROVE  PlacesOf(u) = PlacesOf(t)
  <2>1. \A b \in R : Len(u[b]) = Len(t[b])
    BY <1>4, <1>5
  <2>2. \A x : x \in PlacesOf(u) <=> x \in PlacesOf(t)
    BY <1>2, <1>3, <2>1
  <2> QED
    BY <2>2
<1>6. ASSUME m = n + 1
      PROVE  PlacesOf(u) = PlacesOf(t) \cup {<<c, n + 1>>}
  <2>1. ASSUME NEW x \in PlacesOf(u)
        PROVE  x \in PlacesOf(t) \cup {<<c, n + 1>>}
    <3>1. PICK b \in R : \E i \in 1 .. Len(u[b]) : x = <<b, i>>
      BY <1>3
    <3>2. PICK i \in 1 .. Len(u[b]) : x = <<b, i>>
      BY <3>1
    <3>3. i \in 1 .. Len(t[b]) \/ (b = c /\ i = n + 1)
      BY <1>1, <1>4, <1>6, <3>2
    <3> QED
      BY <1>2, <1>3, <3>2, <3>3
  <2>2. ASSUME NEW x \in PlacesOf(t)
        PROVE  x \in PlacesOf(u)
    <3>1. PICK b \in R : \E i \in 1 .. Len(t[b]) : x = <<b, i>>
      BY <1>2
    <3>2. PICK i \in 1 .. Len(t[b]) : x = <<b, i>>
      BY <3>1
    <3>3. i \in 1 .. Len(u[b])
      BY <1>1, <1>4, <1>6, <3>2
    <3> QED
      BY <1>2, <1>3, <3>2, <3>3
  <2>3. <<c, n + 1>> \in PlacesOf(u)
    <3>1. n + 1 \in 1 .. Len(u[c])
      BY <1>1, <1>6
    <3> QED
      BY <1>3, <3>1
  <2> QED
    BY <2>1, <2>2, <2>3
<1>7. ASSUME m = n - 1
      PROVE  PlacesOf(u) = PlacesOf(t) \ {<<c, n>>}
  <2>1. ASSUME NEW x \in PlacesOf(u)
        PROVE  x \in PlacesOf(t) \ {<<c, n>>}
    <3>1. PICK b \in R : \E i \in 1 .. Len(u[b]) : x = <<b, i>>
      BY <1>3
    <3>2. PICK i \in 1 .. Len(u[b]) : x = <<b, i>>
      BY <3>1
    <3>3. i \in 1 .. Len(t[b]) /\ ~(b = c /\ i = n)
      BY <1>1, <1>4, <1>7, <3>2
    <3> QED
      BY <1>2, <1>3, <3>2, <3>3
  <2>2. ASSUME NEW x \in PlacesOf(t) \ {<<c, n>>}
        PROVE  x \in PlacesOf(u)
    <3>1. PICK b \in R : \E i \in 1 .. Len(t[b]) : x = <<b, i>>
      BY <1>2
    <3>2. PICK i \in 1 .. Len(t[b]) : x = <<b, i>>
      BY <3>1
    <3>3. i \in 1 .. Len(u[b])
      BY <1>1, <1>4, <1>7, <3>2
    <3> QED
      BY <1>2, <1>3, <3>2, <3>3
  <2> QED
    BY <2>1, <2>2
<1>8. <<c, n + 1>> \notin PlacesOf(t)
  BY <1>1, <1>2
<1>9. n > 0 => <<c, n>> \in PlacesOf(t)
  BY <1>1, <1>2
<1> QED
  BY <1>5, <1>6, <1>7, <1>8, <1>9 DEF Resized

-----------------------------------------------------------------------------
(* Linear probing: the invariant *)

Slots == 0 .. capacity - 1

Contents == {EmptyBucket, DeletedBucket} \cup {Occupied(k, v) : k \in Key, v \in Value}

ProbingTypes ==
  /\ capacity \in Nat \ {0}
  /\ table \in [Slots -> Contents]
  /\ size \in Nat

Holds(b, k) == \E v \in Value : table[b] = Occupied(k, v)

\* On the way to a key there is no empty bucket.
KeysReachable ==
  \A k \in Key, s \in Slots :
    Holds(Probe(k, s), k) => \A u \in 0 .. s - 1 : table[Probe(k, u)] # EmptyBucket

\* No key is in two buckets.
BucketsOnce ==
  \A k \in Key, b, c \in Slots : Holds(b, k) /\ Holds(c, k) => b = c

UsedBuckets == {b \in Slots : \E k \in Key : Holds(b, k)}

StoredKeys == {k \in Key : \E b \in Slots : Holds(b, k)}

BucketsCounted ==
  /\ IsFiniteSet(StoredKeys)
  /\ size = Cardinality(UsedBuckets)
  /\ size = Cardinality(StoredKeys)

ProbingInv == ProbingTypes /\ KeysReachable /\ BucketsOnce /\ BucketsCounted

-----------------------------------------------------------------------------
(* Buckets and probes *)

\* The first of some steps, or -1.
LEMMA FirstIs ==
  ASSUME NEW S \in SUBSET Nat
  PROVE  /\ S = {} => First(S) = -1
         /\ S # {} => First(S) \in S /\ \A y \in S : First(S) <= y
  BY LeastElement DEF First

\* What a bucket holds tells its state, its key and its value.
LEMMA ContentsDiffer ==
  /\ EmptyBucket # DeletedBucket
  /\ \A k, v : Occupied(k, v) \notin {EmptyBucket, DeletedBucket}
  /\ \A k, v, j, u : Occupied(k, v) = Occupied(j, u) => k = j /\ v = u
  /\ \A k, v : Occupied(k, v)[3] = v
  BY DEF EmptyBucket, DeletedBucket, Occupied

\* Below twice the capacity the remainder is a subtraction.
LEMMA Wrapped ==
  ASSUME NEW d \in Nat \ {0}, NEW x \in 0 .. d - 1, NEW s \in 0 .. d - 1
  PROVE  (x + s) % d = IF x + s < d THEN x + s ELSE x + s - d
  OBVIOUS

\* A key's probes go on from its first bucket, around the end.
LEMMA ProbeIs ==
  ASSUME ProbingTypes, NEW k \in Key
  PROVE  \E x \in Slots : \A s \in Slots :
           Probe(k, s) = IF x + s < capacity THEN x + s ELSE x + s - capacity
<1>1. PICK x : x = Hash[k] % capacity
  OBVIOUS
<1>2. x \in Slots
  BY <1>1, KeysAssumption DEF ProbingTypes, Slots
<1>3. \A s \in Slots :
        (x + s) % capacity = IF x + s < capacity THEN x + s ELSE x + s - capacity
  BY <1>2, Wrapped DEF ProbingTypes, Slots
<1> QED
  BY <1>1, <1>2, <1>3 DEF Probe

\* The probes of a key meet each bucket once.
LEMMA Probes ==
  ASSUME ProbingTypes, NEW k \in Key
  PROVE  /\ \A s \in Slots : Probe(k, s) \in Slots
         /\ \A s, u \in Slots : Probe(k, s) = Probe(k, u) => s = u
         /\ \A b \in Slots : \E s \in Slots : Probe(k, s) = b
<1>1. PICK x \in Slots : \A s \in Slots :
        Probe(k, s) = IF x + s < capacity THEN x + s ELSE x + s - capacity
  BY ProbeIs
<1>2. capacity \in Nat \ {0}
  BY DEF ProbingTypes
<1>3. \A s, u \in Slots : Probe(k, s) = Probe(k, u) => s = u
  BY <1>1, <1>2 DEF Slots
<1>4. \A s \in Slots : Probe(k, s) \in Slots
  BY <1>1, <1>2 DEF Slots
<1>5. ASSUME NEW b \in Slots
      PROVE  \E s \in Slots : Probe(k, s) = b
  <2>1. PICK s : s = IF x <= b THEN b - x ELSE b - x + capacity
    OBVIOUS
  <2>2. s \in Slots
    BY <2>1, <1>2 DEF Slots
  <2>3. Probe(k, s) = b
    BY <1>1, <1>2, <2>1, <2>2 DEF Slots
  <2> QED
    BY <2>2, <2>3
<1> QED
  BY <1>3, <1>4, <1>5

-----------------------------------------------------------------------------
(* The search *)

\* Where a key is found, and where it would go.
Goes(k, found, free) ==
  /\ found \in Slots \cup {-1} /\ free \in Slots \cup {-1}
  /\ found # -1 => Holds(Probe(k, found), k)
  /\ found = -1 => \A b \in Slots : ~Holds(b, k)
  /\ free # -1 => /\ table[Probe(k, free)] \in {EmptyBucket, DeletedBucket}
                  /\ \A u \in 0 .. free - 1 : table[Probe(k, u)] # EmptyBucket
  /\ free = -1 => \A b \in Slots : table[b] \notin {EmptyBucket, DeletedBucket}

\* What the loop of findIndex and insertInternal finds.
LEMMA LookIs ==
  ASSUME ProbingTypes, KeysReachable, NEW k \in Key
  PROVE  \E found, free :
           Look(k) = [found |-> found, free |-> free] /\ Goes(k, found, free)
<1> DEFINE probed == [s \in 0 .. capacity - 1 |-> table[Probe(k, s)]]
           E == {s \in DOMAIN probed : probed[s] = EmptyBucket}
           D == {s \in DOMAIN probed : probed[s] = DeletedBucket}
           e == First(E)
           d == First(D)
           searched == Searched(e, d)
           F == {s \in searched : \E v \in Value : probed[s] = Occupied(k, v)}
           free == IF d \in searched THEN d ELSE e
<1>1. Look(k) = [found |-> First(F), free |-> free]
  BY DEF Look
<1>2. /\ DOMAIN probed = Slots
      /\ \A s \in Slots : probed[s] = table[Probe(k, s)]
  BY DEF Slots
<1>3. /\ E = {s \in Slots : table[Probe(k, s)] = EmptyBucket}
      /\ D = {s \in Slots : table[Probe(k, s)] = DeletedBucket}
  BY <1>2
<1>4. searched = 0 .. (IF e = -1 THEN capacity ELSE e) - 1
  BY DEF Searched
<1>5. capacity \in Nat \ {0} /\ Slots \subseteq Nat
  BY DEF ProbingTypes, Slots
<1> HIDE DEF probed, E, D, e, d, searched
<1>6. /\ e \in Slots \cup {-1} /\ d \in Slots \cup {-1}
      /\ e # -1 => e \in E /\ \A s \in E : e <= s
      /\ e = -1 => E = {}
      /\ d # -1 => d \in D /\ \A s \in D : d <= s
      /\ d = -1 => D = {}
  BY <1>3, <1>5, FirstIs DEF e, d
<1>7. searched \subseteq Slots
  BY <1>4, <1>5, <1>6 DEF Slots
<1>8. F = {s \in searched : Holds(Probe(k, s), k)}
  BY <1>2, <1>7 DEF Holds
<1> HIDE DEF F
<1>9. /\ First(F) \in Slots \cup {-1}
      /\ First(F) # -1 => Holds(Probe(k, First(F)), k)
      /\ First(F) = -1 => F = {}
  <2>1. F \in SUBSET Nat /\ F \subseteq Slots
    BY <1>5, <1>7, <1>8
  <2>2. F # {} => First(F) # -1
    BY <1>5, <2>1, FirstIs
  <2> QED
    BY <1>8, <2>1, <2>2, FirstIs
<1>10. ASSUME First(F) = -1, NEW b \in Slots, Holds(b, k)
       PROVE  FALSE
  <2>1. PICK s \in Slots : Probe(k, s) = b
    BY Probes
  <2>2. s \notin E /\ \A u \in 0 .. s - 1 : u \notin E
    <3>1. table[b] # EmptyBucket
      BY <1>10, ContentsDiffer DEF Holds
    <3> QED
      BY <1>3, <1>10, <2>1, <3>1 DEF KeysReachable
  <2>3. s \in searched
    BY <1>4, <1>5, <1>6, <2>2 DEF Slots
  <2> QED
    BY <1>8, <1>9, <1>10, <2>1, <2>3
<1>11. ASSUME free # -1
       PROVE  /\ table[Probe(k, free)] \in {EmptyBucket, DeletedBucket}
              /\ \A u \in 0 .. free - 1 : table[Probe(k, u)] # EmptyBucket
  <2>1. CASE d \in searched
    <3>1. d # -1 /\ free = d /\ d \in D
      BY <1>5, <1>6, <1>7, <2>1
    <3>2. \A u \in 0 .. d - 1 : u \in Slots /\ u \notin E
      BY <1>4, <1>5, <1>6, <1>7, <2>1, <3>1 DEF Slots
    <3> QED
      BY <1>3, <3>1, <3>2
  <2>2. CASE d \notin searched
    <3>1. free = e /\ e \in E /\ e \in Slots
      BY <1>6, <1>11, <2>2
    <3>2. \A u \in 0 .. e - 1 : u \in Slots /\ u \notin E
      BY <1>5, <1>6, <3>1 DEF Slots
    <3> QED
      BY <1>3, <3>1, <3>2
  <2> QED
    BY <2>1, <2>2
<1>12. ASSUME free = -1, NEW b \in Slots
       PROVE  table[b] \notin {EmptyBucket, DeletedBucket}
  <2>1. PICK s \in Slots : Probe(k, s) = b
    BY Probes
  <2>2. e = -1 /\ searched = Slots
    BY <1>4, <1>5, <1>6, <1>7, <1>12 DEF Slots
  <2>3. d = -1
    BY <1>6, <1>12, <2>2
  <2> QED
    BY <1>3, <1>6, <2>1, <2>2, <2>3
<1>13. free \in Slots \cup {-1}
  BY <1>6
<1> HIDE DEF free
<1>14. Goes(k, First(F), free)
  BY <1>9, <1>10, <1>11, <1>12, <1>13 DEF Goes
<1> QED
  BY <1>1, <1>14

\* What get returns.
Finds ==
  \A k \in Key :
    /\ \A b \in Slots, v \in Value : table[b] = Occupied(k, v) => Get(k) = v
    /\ (\A b \in Slots : ~Holds(b, k)) => Get(k) = Absent

\* The invariant makes get right.
LEMMA GetFinds ==
  ProbingInv => Finds
<1> SUFFICES ASSUME ProbingTypes, KeysReachable, BucketsOnce, NEW k \in Key
             PROVE  /\ \A b \in Slots, v \in Value :
                         table[b] = Occupied(k, v) => Get(k) = v
                    /\ (\A b \in Slots : ~Holds(b, k)) => Get(k) = Absent
  BY DEF ProbingInv, Finds
<1>1. PICK found, free :
        Look(k) = [found |-> found, free |-> free] /\ Goes(k, found, free)
  BY LookIs
<1>2. Get(k) = IF found = -1 THEN Absent ELSE table[Probe(k, found)][3]
  BY <1>1 DEF Get
<1>3. /\ found \in Slots \cup {-1}
      /\ found # -1 => Probe(k, found) \in Slots /\ Holds(Probe(k, found), k)
      /\ found = -1 => \A b \in Slots : ~Holds(b, k)
  BY <1>1, Probes DEF Goes
<1>4. ASSUME NEW b \in Slots, NEW v \in Value, table[b] = Occupied(k, v)
      PROVE  Get(k) = v
  <2>1. Holds(b, k)
    BY <1>4 DEF Holds
  <2>2. found # -1 /\ b = Probe(k, found)
    BY <1>3, <2>1 DEF BucketsOnce
  <2> QED
    BY <1>2, <1>4, <2>2, ContentsDiffer
<1> QED
  BY <1>2, <1>3, <1>4

-----------------------------------------------------------------------------
(* The invariant *)

\* There are finitely many buckets in use.
LEMMA UsedFinite ==
  ASSUME ProbingTypes
  PROVE  IsFiniteSet(UsedBuckets) /\ UsedBuckets \subseteq Slots
<1>1. IsFiniteSet(Slots)
  <2>1. 0 \in Int /\ capacity - 1 \in Int
    BY DEF ProbingTypes
  <2> QED
    BY <2>1, FS_Interval DEF Slots
<1>2. UsedBuckets \subseteq Slots
  BY DEF UsedBuckets
<1> QED
  BY <1>1, <1>2, FS_Subset

\* The constructor finds a capacity and leaves every bucket empty.
LEMMA ProbingInitHolds ==
  ProbingInit => ProbingInv
<1> SUFFICES ASSUME ProbingInit PROVE ProbingInv
  OBVIOUS
<1>1. capacity \in Nat \ {0}
  <2> DEFINE n == Max({Smallest, Requested})
             S == {m \in n .. 2 * n : IsPrime(m)}
  <2>1. n \in Nat
    <3>1. \E x \in {Smallest, Requested} : \A y \in {Smallest, Requested} : x >= y
      BY ProbingAssumption
    <3> QED
      BY <3>1, ProbingAssumption DEF Max
  <2>2. S # {}
    BY ProbingAssumption
  <2>3. S \in SUBSET Nat /\ \A m \in S : m >= 2
    BY <2>1 DEF IsPrime
  <2>4. capacity = Min(S)
    BY DEF ProbingInit, NextPrime
  <2> HIDE DEF n, S
  <2>5. Min(S) \in S
    BY <2>2, <2>3, LeastElement
  <2>6. capacity \in Nat /\ capacity >= 2
    BY <2>3, <2>4, <2>5
  <2> QED
    BY <2>6
<1>2. table = [b \in Slots |-> EmptyBucket] /\ size = 0
  BY DEF ProbingInit, Slots
<1>3. ProbingTypes
  BY <1>1, <1>2 DEF ProbingTypes, Contents
<1>4. \A b \in Slots, k \in Key : ~Holds(b, k)
  BY <1>2, ContentsDiffer DEF Holds
<1>5. UsedBuckets = {} /\ StoredKeys = {}
  BY <1>4 DEF UsedBuckets, StoredKeys
<1>6. BucketsCounted
  BY <1>2, <1>5, FS_EmptySet DEF BucketsCounted
<1>7. KeysReachable
  BY <1>3, <1>4, Probes DEF KeysReachable
<1> QED
  BY <1>3, <1>4, <1>6, <1>7 DEF ProbingInv, BucketsOnce

\* What is stored of the other keys stays where it is.
OthersStay(k) ==
  /\ UNCHANGED capacity
  /\ \A j \in Key \ {k}, b \in Slots, u \in Value :
       table'[b] = Occupied(j, u) <=> table[b] = Occupied(j, u)

\* As long as the capacity stays, so do the probes.
LEMMA SameProbes ==
  ASSUME UNCHANGED capacity
  PROVE  Slots' = Slots /\ \A k, s : Probe(k, s)' = Probe(k, s)
  BY DEF Slots, Probe

\* A pair is written over its key, or into a bucket that was met on the way.
LEMMA PutKeeps ==
  ASSUME ProbingInv, NEW k \in Key, NEW v \in Value, NEW s \in Slots,
         table' = [table EXCEPT ![Probe(k, s)] = Occupied(k, v)],
         UNCHANGED capacity,
         \/ Holds(Probe(k, s), k) /\ size' = size
         \/ /\ size' = size + 1
            /\ \A b \in Slots : ~Holds(b, k)
            /\ table[Probe(k, s)] \in {EmptyBucket, DeletedBucket}
            /\ \A u \in 0 .. s - 1 : table[Probe(k, u)] # EmptyBucket
  PROVE  /\ ProbingInv'
         /\ OthersStay(k)
         /\ \E b \in Slots : table'[b] = Occupied(k, v)
<1>1. ProbingTypes /\ KeysReachable /\ BucketsOnce /\ BucketsCounted
  BY DEF ProbingInv
<1>2. Slots' = Slots /\ \A j, u : Probe(j, u)' = Probe(j, u)
  BY SameProbes
<1>3. PICK c \in Slots : c = Probe(k, s)
  BY <1>1, Probes
<1>4. \A b \in Slots : table'[b] = IF b = c THEN Occupied(k, v) ELSE table[b]
  BY <1>1, <1>3 DEF ProbingTypes
<1>5. \A j \in Key, u \in Value : j # k => table[c] # Occupied(j, u)
  BY <1>3, ContentsDiffer DEF Holds
<1>6. \A b \in Slots, j \in Key : Holds(b, j)' <=> IF b = c THEN j = k ELSE Holds(b, j)
  BY <1>4, ContentsDiffer DEF Holds
<1>7. ProbingTypes'
  <2>1. Occupied(k, v) \in Contents
    BY DEF Contents
  <2>2. table' \in [Slots -> Contents]
    BY <1>1, <2>1 DEF ProbingTypes
  <2>3. size' \in Nat
    BY <1>1 DEF ProbingTypes
  <2> QED
    BY <1>1, <1>2, <2>2, <2>3 DEF ProbingTypes
<1>8. KeysReachable'
  <2>1. ASSUME NEW j \in Key, NEW t \in Slots, Holds(Probe(j, t), j)',
               NEW u \in 0 .. t - 1
        PROVE  table'[Probe(j, u)] # EmptyBucket
    <3>1. u \in Slots /\ Probe(j, u) \in Slots /\ Probe(j, t) \in Slots
      <4>1. u \in Slots
        BY <1>1 DEF ProbingTypes, Slots
      <4> QED
        BY <1>1, <4>1, Probes
    <3>2. table[Probe(j, u)] # EmptyBucket
      <4>1. CASE Probe(j, t) = c
        <5>1. j = k /\ t = s
          BY <1>1, <1>2, <1>3, <1>6, <2>1, <3>1, <4>1, Probes
        <5> QED
          BY <1>1, <1>3, <2>1, <5>1 DEF KeysReachable
      <4>2. CASE Probe(j, t) # c
        BY <1>1, <1>2, <1>6, <2>1, <3>1, <4>2 DEF KeysReachable
      <4> QED
        BY <4>1, <4>2
    <3> QED
      BY <1>4, <3>1, <3>2, ContentsDiffer
  <2> QED
    BY <1>2, <2>1 DEF KeysReachable
<1>9. BucketsOnce'
  <2>1. ASSUME NEW j \in Key, NEW b \in Slots, NEW d \in Slots,
               Holds(b, j)', Holds(d, j)'
        PROVE  b = d
    BY <1>1, <1>3, <1>5, <1>6, <2>1 DEF BucketsOnce
  <2> QED
    BY <1>2, <2>1 DEF BucketsOnce
<1>10. BucketsCounted'
  <2>1. IsFiniteSet(UsedBuckets) /\ IsFiniteSet(StoredKeys)
    BY <1>1, UsedFinite DEF BucketsCounted
  <2>2. UsedBuckets' = UsedBuckets \cup {c} /\ StoredKeys' = StoredKeys \cup {k}
    <3>1. UsedBuckets' = {b \in Slots : \E j \in Key : Holds(b, j)'}
      BY <1>2 DEF UsedBuckets
    <3>2. StoredKeys' = {j \in Key : \E b \in Slots : Holds(b, j)'}
      BY <1>2 DEF StoredKeys
    <3>3. \A j \in Key : j # k => ~Holds(c, j)
      BY <1>5 DEF Holds
    <3> QED
      BY <1>6, <3>1, <3>2, <3>3 DEF UsedBuckets, StoredKeys
  <2>3. CASE Holds(c, k) /\ size' = size
    <3>1. c \in UsedBuckets /\ k \in StoredKeys
      BY <2>3 DEF UsedBuckets, StoredKeys
    <3>2. UsedBuckets' = UsedBuckets /\ StoredKeys' = StoredKeys
      BY <2>2, <3>1
    <3> QED
      BY <1>1, <2>3, <3>2 DEF BucketsCounted
  <2>4. CASE /\ size' = size + 1
             /\ \A b \in Slots : ~Holds(b, k)
             /\ table[c] \in {EmptyBucket, DeletedBucket}
    <3>1. c \notin UsedBuckets /\ k \notin StoredKeys
      BY <2>4, ContentsDiffer DEF UsedBuckets, StoredKeys, Holds
    <3>2. /\ Cardinality(UsedBuckets') = Cardinality(UsedBuckets) + 1
          /\ Cardinality(StoredKeys') = Cardinality(StoredKeys) + 1
          /\ IsFiniteSet(StoredKeys')
      BY <2>1, <2>2, <3>1, FS_AddElement
    <3> QED
      BY <1>1, <2>4, <3>2 DEF BucketsCounted
  <2> QED
    BY <1>3, <2>3, <2>4
<1>11. OthersStay(k)
  BY <1>4, <1>5, ContentsDiffer DEF OthersStay
<1> QED
  BY <1>4, <1>7, <1>8, <1>9, <1>10, <1>11 DEF ProbingInv

\* A deleted bucket does not end a search, so every other key is still reached.
LEMMA EraseKeeps ==
  ASSUME ProbingInv, NEW k \in Key, NEW c \in Slots, Holds(c, k),
         table' = [table EXCEPT ![c] = DeletedBucket],
         UNCHANGED capacity, size' = size - 1
  PROVE  /\ ProbingInv'
         /\ OthersStay(k)
         /\ \A b \in Slots : ~Holds(b, k)'
<1>1. ProbingTypes /\ KeysReachable /\ BucketsOnce /\ BucketsCounted
  BY DEF ProbingInv
<1>2. Slots' = Slots /\ \A j, u : Probe(j, u)' = Probe(j, u)
  BY SameProbes
<1>3. \A b \in Slots : table'[b] = IF b = c THEN DeletedBucket ELSE table[b]
  BY <1>1 DEF ProbingTypes
<1>4. \A b \in Slots, j \in Key : Holds(b, j)' <=> b # c /\ Holds(b, j)
  BY <1>3, ContentsDiffer DEF Holds
<1>5. \A j \in Key : Holds(c, j) => j = k
  BY ContentsDiffer DEF Holds
<1>6. KeysReachable'
  <2>1. ASSUME NEW j \in Key, NEW t \in Slots, Holds(Probe(j, t), j)',
               NEW u \in 0 .. t - 1
        PROVE  table'[Probe(j, u)] # EmptyBucket
    <3>1. u \in Slots
      BY <1>1 DEF ProbingTypes, Slots
    <3>2. Probe(j, u) \in Slots /\ Probe(j, t) \in Slots
      BY <1>1, <3>1, Probes
    <3>3. table[Probe(j, u)] # EmptyBucket
      BY <1>1, <1>2, <1>4, <2>1, <3>2 DEF KeysReachable
    <3> QED
      BY <1>3, <3>2, <3>3, ContentsDiffer
  <2> QED
    BY <1>2, <2>1 DEF KeysReachable
<1>7. BucketsOnce'
  BY <1>1, <1>2, <1>4 DEF BucketsOnce
<1>8. \A b \in Slots : ~Holds(b, k)'
  BY <1>1, <1>4 DEF BucketsOnce
<1>9. /\ IsFiniteSet(UsedBuckets) /\ IsFiniteSet(StoredKeys)
      /\ c \in UsedBuckets /\ k \in StoredKeys
  BY <1>1, UsedFinite DEF BucketsCounted, UsedBuckets, StoredKeys
<1>10. UsedBuckets' = UsedBuckets \ {c} /\ StoredKeys' = StoredKeys \ {k}
  <2>1. UsedBuckets' = {b \in Slots : \E j \in Key : Holds(b, j)'}
    BY <1>2 DEF UsedBuckets
  <2>2. StoredKeys' = {j \in Key : \E b \in Slots : Holds(b, j)'}
    BY <1>2 DEF StoredKeys
  <2> QED
    BY <1>4, <1>5, <1>8, <2>1, <2>2 DEF UsedBuckets, StoredKeys
<1>11. /\ Cardinality(UsedBuckets') = Cardinality(UsedBuckets) - 1
       /\ Cardinality(StoredKeys') = Cardinality(StoredKeys) - 1
       /\ IsFiniteSet(StoredKeys')
  BY <1>9, <1>10, FS_RemoveElement
<1>12. BucketsCounted'
  BY <1>1, <1>11 DEF BucketsCounted
<1>13. ProbingTypes'
  <2>1. table' \in [Slots -> Contents]
    BY <1>1 DEF ProbingTypes, Contents
  <2>2. size' \in Nat
    BY <1>12, FS_CardinalityType DEF BucketsCounted
  <2> QED
    BY <1>1, <1>2, <2>1, <2>2 DEF ProbingTypes
<1>14. OthersStay(k)
  BY <1>3, <1>5, ContentsDiffer DEF OthersStay, Holds
<1> QED
  BY <1>6, <1>7, <1>8, <1>12, <1>13, <1>14 DEF ProbingInv

-----------------------------------------------------------------------------
(* Each step is one of the dictionary *)

\* What a step of key k to value x does to what get returns.
Becomes(k, x) ==
  \A j \in Key : Get(j)' = IF j = k THEN x ELSE Get(j)

\* get returns for the other keys what it did.
LEMMA OthersFound ==
  ASSUME NEW k \in Key, Finds, Finds', OthersStay(k)
  PROVE  \A j \in Key \ {k} : Get(j)' = Get(j)
<1> SUFFICES ASSUME NEW j \in Key \ {k} PROVE Get(j)' = Get(j)
  OBVIOUS
<1>1. Slots' = Slots
  BY SameProbes DEF OthersStay
<1>2. ASSUME NEW b \in Slots, NEW u \in Value, table[b] = Occupied(j, u)
      PROVE  Get(j)' = Get(j)
  <2>1. table'[b] = Occupied(j, u)
    BY <1>2 DEF OthersStay
  <2> QED
    BY <1>1, <1>2, <2>1 DEF Finds
<1>3. ASSUME \A b \in Slots, u \in Value : table[b] # Occupied(j, u)
      PROVE  Get(j)' = Get(j)
  <2>1. \A b \in Slots : ~Holds(b, j)
    BY <1>3 DEF Holds
  <2>2. \A b \in Slots : ~Holds(b, j)'
    BY <1>3 DEF Holds, OthersStay
  <2> QED
    BY <1>1, <2>1, <2>2 DEF Finds
<1> QED
  BY <1>2, <1>3

\* The keys get finds are those that are stored.
FoundCounted == size = Cardinality({k \in Key : Get(k) # Absent})

\* The size is the number of keys that get finds.
LEMMA StoredAreFound ==
  ProbingInv /\ Finds => FoundCounted
<1> SUFFICES ASSUME ProbingInv, Finds
             PROVE  size = Cardinality({k \in Key : Get(k) # Absent})
  BY DEF FoundCounted
<1>1. ASSUME NEW k \in Key
      PROVE  Get(k) # Absent <=> \E b \in Slots : Holds(b, k)
  BY KeysAssumption DEF Finds, Holds
<1>2. StoredKeys = {k \in Key : Get(k) # Absent}
  BY <1>1 DEF StoredKeys
<1> QED
  BY <1>2 DEF ProbingInv, BucketsCounted

\* insert sets the key, and no other.
LEMMA InsertSteps ==
  ASSUME ProbingInv, NEW k \in Key, NEW v \in Value, Insert(k, v)
  PROVE  /\ ProbingInv'
         /\ Finds /\ Finds' => Becomes(k, v)
<1>1. PICK found, free :
        Look(k) = [found |-> found, free |-> free] /\ Goes(k, found, free)
  BY LookIs DEF ProbingInv
<1>2. PICK to : to = IF found # -1 THEN found ELSE free
  OBVIOUS
<1>3. /\ to # -1
      /\ table' = [table EXCEPT ![Probe(k, to)] = Occupied(k, v)]
      /\ size' = IF found = -1 THEN size + 1 ELSE size
      /\ UNCHANGED capacity
  BY <1>1, <1>2 DEF Insert
<1>4. to \in Slots
  BY <1>1, <1>2, <1>3 DEF Goes
<1>5. \/ Holds(Probe(k, to), k) /\ size' = size
      \/ /\ size' = size + 1
         /\ \A b \in Slots : ~Holds(b, k)
         /\ table[Probe(k, to)] \in {EmptyBucket, DeletedBucket}
         /\ \A u \in 0 .. to - 1 : table[Probe(k, u)] # EmptyBucket
  BY <1>1, <1>2, <1>3 DEF Goes
<1>6. ProbingInv' /\ OthersStay(k) /\ \E b \in Slots : table'[b] = Occupied(k, v)
  BY <1>3, <1>4, <1>5, PutKeeps
<1>7. ASSUME Finds, Finds' PROVE Becomes(k, v)
  <2>1. Get(k)' = v
    BY <1>3, <1>6, <1>7, SameProbes DEF Finds
  <2>2. \A j \in Key \ {k} : Get(j)' = Get(j)
    BY <1>6, <1>7, OthersFound
  <2> QED
    BY <2>1, <2>2 DEF Becomes
<1> QED
  BY <1>6, <1>7

\* erase takes the key away, no other, and says whether it was there.
LEMMA EraseSteps ==
  ASSUME ProbingInv, NEW k \in Key, Erase(k)
  PROVE  /\ ProbingInv'
         /\ Finds /\ Finds' => /\ Becomes(k, Absent)
                              /\ probingAnswer' = <<"erase", k, Get(k) # Absent>>
<1>1. PICK found, free :
        Look(k) = [found |-> found, free |-> free] /\ Goes(k, found, free)
  BY LookIs DEF ProbingInv
<1>2. /\ IF found = -1
         THEN UNCHANGED <<table, size>>
         ELSE table' = [table EXCEPT ![Probe(k, found)] = DeletedBucket] /\ size' = size - 1
      /\ probingAnswer' = <<"erase", k, found # -1>>
      /\ UNCHANGED capacity
  BY <1>1 DEF Erase
<1>3. CASE found = -1
  <2>1. UNCHANGED <<table, size, capacity>>
    BY <1>2, <1>3
  <2>2. ProbingInv'
    BY <2>1 DEF ProbingInv, ProbingTypes, KeysReachable, BucketsOnce, BucketsCounted,
                UsedBuckets, StoredKeys, Holds, Probe, Slots
  <2>3. \A b \in Slots : ~Holds(b, k)
    BY <1>1, <1>3 DEF Goes
  <2>4. \A j : Get(j)' = Get(j)
    BY <2>1 DEF Get, Look, Searched, Probe
  <2>5. Finds => Get(k) = Absent
    BY <2>3 DEF Finds
  <2> QED
    BY <1>2, <1>3, <2>2, <2>4, <2>5 DEF Becomes
<1>4. CASE found # -1
  <2>1. PICK c \in Slots : c = Probe(k, found) /\ Holds(c, k)
    BY <1>1, <1>4, Probes DEF Goes, ProbingInv
  <2>2. ProbingInv' /\ OthersStay(k) /\ \A b \in Slots : ~Holds(b, k)'
    BY <1>2, <1>4, <2>1, EraseKeeps
  <2>3. ASSUME Finds, Finds'
        PROVE  Becomes(k, Absent) /\ probingAnswer' = <<"erase", k, Get(k) # Absent>>
    <3>1. Get(k)' = Absent
      BY <1>2, <2>2, <2>3, SameProbes DEF Finds
    <3>2. Get(k) # Absent
      BY <2>1, <2>3, KeysAssumption DEF Finds, Holds
    <3>3. \A j \in Key \ {k} : Get(j)' = Get(j)
      BY <2>2, <2>3, OthersFound
    <3> QED
      BY <1>2, <1>4, <3>1, <3>2, <3>3 DEF Becomes
  <2> QED
    BY <2>2, <2>3
<1> QED
  BY <1>3, <1>4

\* insert gives up only when every bucket holds a key.
LEMMA RefuseSteps ==
  ASSUME ProbingInv, NEW k \in Key, Refuse(k)
  PROVE  /\ ProbingInv'
         /\ \A j : Get(j)' = Get(j)
         /\ Finds => Get(k) = Absent
         /\ size = capacity
<1>1. PICK found, free :
        Look(k) = [found |-> found, free |-> free] /\ Goes(k, found, free)
  BY LookIs DEF ProbingInv
<1>2. found = -1 /\ free = -1 /\ UNCHANGED <<table, capacity, size>>
  BY <1>1 DEF Refuse
<1>3. ProbingInv'
  BY <1>2 DEF ProbingInv, ProbingTypes, KeysReachable, BucketsOnce, BucketsCounted,
              UsedBuckets, StoredKeys, Holds, Probe, Slots
<1>4. \A j : Get(j)' = Get(j)
  BY <1>2 DEF Get, Look, Searched, Probe
<1>5. Finds => Get(k) = Absent
  BY <1>1, <1>2 DEF Finds, Goes
<1>6. UsedBuckets = Slots
  <2>1. ASSUME NEW b \in Slots PROVE \E j \in Key : Holds(b, j)
    <3>1. table[b] \in Contents /\ table[b] \notin {EmptyBucket, DeletedBucket}
      BY <1>1, <1>2 DEF Goes, ProbingInv, ProbingTypes
    <3> QED
      BY <3>1 DEF Contents, Holds
  <2> QED
    BY <2>1 DEF UsedBuckets
<1>7. Cardinality(Slots) = capacity
  <2>1. capacity \in Nat \ {0} /\ 0 \in Int /\ capacity - 1 \in Int
    BY DEF ProbingInv, ProbingTypes
  <2> QED
    BY <2>1, FS_Interval DEF Slots
<1>8. size = capacity
  BY <1>6, <1>7 DEF ProbingInv, BucketsCounted
<1> QED
  BY <1>3, <1>4, <1>5, <1>8

\* The invariant is kept by every step.
LEMMA ProbingInvStep ==
  ProbingInv /\ [ProbingNext]_probing => ProbingInv'
<1> SUFFICES ASSUME ProbingInv, [ProbingNext]_probing PROVE ProbingInv'
  OBVIOUS
<1>1. CASE ProbingNext
  BY <1>1, InsertSteps, EraseSteps, RefuseSteps DEF ProbingNext
<1>2. CASE UNCHANGED probing
  BY <1>2 DEF probing, ProbingInv, ProbingTypes, KeysReachable, BucketsOnce,
              BucketsCounted, UsedBuckets, StoredKeys, Holds, Probe, Slots
<1> QED
  BY <1>1, <1>2

\* Every step is a step of the dictionary, or none.
LEMMA ProbingDictionaryStep ==
  ASSUME ProbingInv, Finds, Finds', FoundCounted', [ProbingNext]_probing
  PROVE  [Table!Next]_<<[k \in Key |-> Get(k)], size, probingAnswer>>
<1> DEFINE contents == [k \in Key |-> Get(k)]
<1> SUFFICES Table!Next \/ UNCHANGED <<contents, size, probingAnswer>>
  OBVIOUS
<1>1. size' = Table!Cardinality({k \in Key : contents'[k] # Absent})
  <2>1. size' = Cardinality({k \in Key : Get(k)' # Absent})
    BY DEF FoundCounted
  <2>2. \A k \in Key : contents'[k] = Get(k)'
    OBVIOUS
  <2>3. {k \in Key : contents'[k] # Absent} = {k \in Key : Get(k)' # Absent}
    BY <2>2
  <2>4. \A S : Table!Cardinality(S) = Cardinality(S)
    BY DEF Table!Cardinality, Cardinality
  <2> QED
    BY <2>1, <2>3, <2>4
<1>2. ASSUME NEW k \in Key, NEW x, Becomes(k, x)
      PROVE  contents' = [contents EXCEPT ![k] = x]
  BY <1>2 DEF Becomes
<1>3. ASSUME NEW k \in Key, NEW v \in Value, Insert(k, v)
      PROVE  Table!Insert(k, v)
  <2>1. contents' = [contents EXCEPT ![k] = v]
    BY <1>2, <1>3, InsertSteps
  <2> QED
    BY <1>3, <2>1 DEF Insert, Table!Insert
<1>4. ASSUME NEW k \in Key, Refuse(k)
      PROVE  Table!Refuse(k)
  <2>1. contents' = contents /\ contents[k] = Absent /\ size = capacity
    BY <1>4, RefuseSteps
  <2> QED
    BY <1>4, <2>1 DEF Refuse, Table!Refuse
<1>5. ASSUME NEW k \in Key, Erase(k)
      PROVE  Table!Erase(k)
  <2>1. contents' = [contents EXCEPT ![k] = Absent]
    BY <1>2, <1>5, EraseSteps
  <2>2. probingAnswer' = <<"erase", k, contents[k] # Absent>>
    BY <1>5, EraseSteps
  <2> QED
    BY <2>1, <2>2 DEF Table!Erase
<1>6. CASE ProbingNext
  <2>1. PICK k \in Key : (\E v \in Value : Insert(k, v)) \/ Refuse(k) \/ Erase(k)
    BY <1>6 DEF ProbingNext
  <2>2. (\E v \in Value : Table!Insert(k, v)) \/ Table!Refuse(k) \/ Table!Erase(k)
    BY <1>3, <1>4, <1>5, <2>1
  <2> QED
    BY <1>1, <2>2 DEF Table!Next
<1>7. CASE UNCHANGED probing
  <2>1. \A k : Get(k)' = Get(k)
    BY <1>7 DEF probing, Get, Look, Searched, Probe
  <2>2. contents' = contents
    BY <2>1
  <2>3. UNCHANGED <<contents, size, probingAnswer>>
    BY <1>7, <2>2 DEF probing
  <2> HIDE DEF contents
  <2> QED
    BY <2>3
<1> QED
  BY <1>6, <1>7

-----------------------------------------------------------------------------
(* The theorems *)

\* The invariant holds for ever.
LEMMA ProbingInvHolds == ProbingSpec => []ProbingInv
  BY ProbingInitHolds, ProbingInvStep, PTL DEF ProbingSpec

\* The open-addressing table is a dictionary: no key is lost or stored twice,
\* deleted buckets are used again, and only a table full of keys refuses one.
THEOREM ProbingImplements == ProbingSpec => ProbingIsDictionary
<1>1. ProbingInit => Table!Init
  <2> SUFFICES ASSUME ProbingInit PROVE Table!Init
    OBVIOUS
  <2>1. ProbingInv /\ Finds
    BY ProbingInitHolds, GetFinds
  <2>2. \A b \in Slots, k \in Key : ~Holds(b, k)
    BY ContentsDiffer DEF ProbingInit, Slots, Holds
  <2>3. [k \in Key |-> Get(k)] = [k \in Key |-> Absent]
    BY <2>1, <2>2 DEF Finds
  <2> QED
    BY <2>3 DEF ProbingInit, Table!Init
<1>2. ProbingInv /\ Finds /\ Finds' /\ FoundCounted' /\ [ProbingNext]_probing
        => [Table!Next]_<<[k \in Key |-> Get(k)], size, probingAnswer>>
  BY ProbingDictionaryStep
<1> QED
  BY <1>1, <1>2, ProbingInvHolds, GetFinds, StoredAreFound, PTL
  DEF ProbingSpec, ProbingIsDictionary, Table!Spec

-----------------------------------------------------------------------------
(* The invariant of the chained table *)

Pair == Key \X Value

Rows == 0 .. Buckets - 1

ChainTypes == buckets \in [Rows -> Seq(Pair)]

Row(k) == Hash[k] % Buckets

\* A pair is in the bucket of its key.
PairsAtHome ==
  \A b \in Rows : \A i \in 1 .. Len(buckets[b]) : Row(buckets[b][i][1]) = b

\* No key is in a bucket twice.
PairsOnce ==
  \A b \in Rows : \A i, j \in 1 .. Len(buckets[b]) :
    buckets[b][i][1] = buckets[b][j][1] => i = j

InList(k, v) == \E i \in 1 .. Len(List(k)) : List(k)[i] = <<k, v>>

KeysHeld == {k \in Key : \E v \in Value : InList(k, v)}

PairsCounted ==
  /\ IsFiniteSet(Pairs) /\ IsFiniteSet(KeysHeld)
  /\ Cardinality(Pairs) = Cardinality(KeysHeld)

ChainInv == ChainTypes /\ PairsAtHome /\ PairsOnce /\ PairsCounted

\* A key's list is the bucket of its hash.
LEMMA RowOf ==
  \A k \in Key : Row(k) \in Rows /\ List(k) = buckets[Row(k)]
BY KeysAssumption, BucketsAssumption DEF Row, Rows, List

\* The elements of a bucket are pairs.
LEMMA ListOf ==
  ASSUME ChainTypes, NEW b \in Rows
  PROVE  /\ buckets[b] \in Seq(Pair) /\ Len(buckets[b]) \in Nat
         /\ \A i \in 1 .. Len(buckets[b]) :
              /\ buckets[b][i] \in Pair
              /\ buckets[b][i][1] \in Key /\ buckets[b][i][2] \in Value
              /\ buckets[b][i] = <<buckets[b][i][1], buckets[b][i][2]>>
<1>1. buckets[b] \in Seq(Pair)
  BY DEF ChainTypes
<1>2. Len(buckets[b]) \in Nat /\ \A i \in 1 .. Len(buckets[b]) : buckets[b][i] \in Pair
  BY <1>1, LenProperties, ElementOfSeq
<1> QED
  BY <1>1, <1>2 DEF Pair

\* The search of a list finds the key if and only if it is there.
LEMMA PlaceIs ==
  ASSUME ChainTypes, NEW k \in Key
  PROVE  \/ /\ Place(k) = 0
            /\ \A i \in 1 .. Len(List(k)) : List(k)[i][1] # k
            /\ \A v : ~InList(k, v)
         \/ /\ Place(k) \in 1 .. Len(List(k))
            /\ List(k)[Place(k)][1] = k
            /\ List(k)[Place(k)][2] \in Value
            /\ InList(k, List(k)[Place(k)][2])
<1> DEFINE I == {i \in 1 .. Len(List(k)) : List(k)[i][1] = k}
<1>1. Place(k) = IF I # {} THEN Min(I) ELSE 0
  BY DEF Place, SelectInSeq
<1>2. I \in SUBSET Nat
  BY RowOf, ListOf
<1>3. CASE I = {}
  <2>1. Place(k) = 0 /\ \A i \in 1 .. Len(List(k)) : List(k)[i][1] # k
    BY <1>1, <1>3
  <2> QED
    BY <2>1 DEF InList
<1>4. CASE I # {}
  <2> HIDE DEF I
  <2>1. Place(k) \in I
    BY <1>1, <1>2, <1>4, LeastElement
  <2>2. Place(k) \in 1 .. Len(List(k)) /\ List(k)[Place(k)][1] = k
    BY <2>1 DEF I
  <2>3. List(k)[Place(k)] = <<k, List(k)[Place(k)][2]>> /\ List(k)[Place(k)][2] \in Value
    <3>1. Row(k) \in Rows /\ List(k) = buckets[Row(k)]
      BY RowOf
    <3> QED
      BY <2>2, <3>1, ListOf
  <2> QED
    BY <2>2, <2>3 DEF InList
<1> QED
  BY <1>3, <1>4

-----------------------------------------------------------------------------
(* The three changes of a list *)

Has(l, j, u) == \E i \in 1 .. Len(l) : l[i] = <<j, u>>

\* A list that may take the place of k's: it differs in k only.
Fits(l, k) ==
  /\ l \in Seq(Pair)
  /\ \A i \in 1 .. Len(l) : Row(l[i][1]) = Row(k)
  /\ \A i, j \in 1 .. Len(l) : l[i][1] = l[j][1] => i = j
  /\ \A j \in Key \ {k}, u \in Value : Has(l, j, u) <=> Has(List(k), j, u)

\* What is stored of the other keys stays where it is.
OthersKept(k) ==
  \A j \in Key \ {k}, u \in Value : InList(j, u)' <=> InList(j, u)

\* The lists that put and erase leave fit: the one with the new pair,
LEMMA AppendFits ==
  ASSUME ChainTypes, PairsAtHome, PairsOnce, NEW k \in Key, NEW v \in Value, Place(k) = 0
  PROVE  /\ Fits(Append(List(k), <<k, v>>), k)
         /\ Len(Append(List(k), <<k, v>>)) = Len(List(k)) + 1
         /\ Has(Append(List(k), <<k, v>>), k, v)
<1> DEFINE s == List(k)
           l == Append(s, <<k, v>>)
<1>1. Row(k) \in Rows /\ s = buckets[Row(k)]
  BY RowOf
<1>2. /\ s \in Seq(Pair) /\ Len(s) \in Nat
      /\ \A i \in 1 .. Len(s) : s[i] \in Pair /\ Row(s[i][1]) = Row(k)
      /\ \A i, j \in 1 .. Len(s) : s[i][1] = s[j][1] => i = j
  BY <1>1, ListOf DEF PairsAtHome, PairsOnce
<1>3. \A i \in 1 .. Len(s) : s[i][1] # k
  BY PlaceIs
<1>4. <<k, v>> \in Pair
  BY DEF Pair
<1> HIDE DEF s
<1>5. /\ l \in Seq(Pair) /\ Len(l) = Len(s) + 1
      /\ \A i \in 1 .. Len(s) : l[i] = s[i]
      /\ l[Len(s) + 1] = <<k, v>>
  BY <1>2, <1>4, AppendProperties
<1> HIDE DEF l
<1>6. \A i \in 1 .. Len(l) : i \in 1 .. Len(s) \/ i = Len(s) + 1
  BY <1>2, <1>5
<1>7. \A i \in 1 .. Len(l) : Row(l[i][1]) = Row(k)
  BY <1>2, <1>5, <1>6
<1>8. \A i, j \in 1 .. Len(l) : l[i][1] = l[j][1] => i = j
  BY <1>2, <1>3, <1>5, <1>6
<1>9. ASSUME NEW j \in Key \ {k}, NEW u \in Value
      PROVE  Has(l, j, u) <=> Has(s, j, u)
  <2>1. Has(s, j, u) => Has(l, j, u)
    BY <1>2, <1>5 DEF Has
  <2>2. Has(l, j, u) => Has(s, j, u)
    BY <1>2, <1>5, <1>6 DEF Has
  <2> QED
    BY <2>1, <2>2
<1>10. Has(l, k, v)
  BY <1>2, <1>5 DEF Has
<1> QED
  BY <1>5, <1>7, <1>8, <1>9, <1>10 DEF Fits, s, l

\* the one with the new value in place of the old one,
LEMMA ReplaceFits ==
  ASSUME ChainTypes, PairsAtHome, PairsOnce, NEW k \in Key, NEW v \in Value, Place(k) # 0
  PROVE  /\ Fits(ReplaceAt(List(k), Place(k), <<k, v>>), k)
         /\ Len(ReplaceAt(List(k), Place(k), <<k, v>>)) = Len(List(k))
         /\ Has(ReplaceAt(List(k), Place(k), <<k, v>>), k, v)
<1> DEFINE s == List(k)
           p == Place(k)
           l == ReplaceAt(s, p, <<k, v>>)
<1>1. Row(k) \in Rows /\ s = buckets[Row(k)]
  BY RowOf
<1>2. /\ s \in Seq(Pair) /\ Len(s) \in Nat
      /\ \A i \in 1 .. Len(s) : s[i] \in Pair /\ Row(s[i][1]) = Row(k)
      /\ \A i, j \in 1 .. Len(s) : s[i][1] = s[j][1] => i = j
  BY <1>1, ListOf DEF PairsAtHome, PairsOnce
<1>3. p \in 1 .. Len(s) /\ s[p][1] = k
  BY PlaceIs
<1>4. <<k, v>> \in Pair
  BY DEF Pair
<1>5. l = [s EXCEPT ![p] = <<k, v>>]
  BY DEF ReplaceAt
<1> HIDE DEF s, p, l
<1>6. /\ l \in Seq(Pair) /\ Len(l) = Len(s)
      /\ \A i \in 1 .. Len(s) : l[i] = IF i = p THEN <<k, v>> ELSE s[i]
  BY <1>2, <1>3, <1>4, <1>5, ExceptSeq
<1>7. \A i \in 1 .. Len(l) : Row(l[i][1]) = Row(k)
  BY <1>2, <1>6
<1>8. \A i \in 1 .. Len(l) : l[i][1] = s[i][1]
  BY <1>3, <1>6
<1>9. ASSUME NEW j \in Key \ {k}, NEW u \in Value
      PROVE  Has(l, j, u) <=> Has(s, j, u)
  <2>1. \A i \in 1 .. Len(s) : l[i] = <<j, u>> <=> s[i] = <<j, u>>
    BY <1>3, <1>6
  <2> QED
    BY <1>6, <2>1 DEF Has
<1>10. Has(l, k, v)
  BY <1>3, <1>6 DEF Has
<1> QED
  BY <1>2, <1>6, <1>7, <1>8, <1>9, <1>10 DEF Fits, s, p, l

\* and the one without the key.
LEMMA RemoveFits ==
  ASSUME ChainTypes, PairsAtHome, PairsOnce, NEW k \in Key, Place(k) # 0
  PROVE  /\ Fits(RemoveAt(List(k), Place(k)), k)
         /\ Len(RemoveAt(List(k), Place(k))) = Len(List(k)) - 1
         /\ \A v : ~Has(RemoveAt(List(k), Place(k)), k, v)
<1> DEFINE s == List(k)
           p == Place(k)
           l == RemoveAt(s, p)
<1>1. Row(k) \in Rows /\ s = buckets[Row(k)]
  BY RowOf
<1>2. /\ s \in Seq(Pair) /\ Len(s) \in Nat
      /\ \A i \in 1 .. Len(s) : s[i] \in Pair /\ Row(s[i][1]) = Row(k)
      /\ \A i, j \in 1 .. Len(s) : s[i][1] = s[j][1] => i = j
  BY <1>1, ListOf DEF PairsAtHome, PairsOnce
<1>3. p \in 1 .. Len(s) /\ s[p][1] = k
  BY PlaceIs
<1> HIDE DEF s, p
<1> HIDE DEF l
<1>4. l \in Seq(Pair) /\ Len(l) = Len(s) - 1
  BY <1>2, <1>3, Removed DEF l
<1>10. PICK from : ComesFrom(from, l, s, p)
  <2>1. l = RemoveAt(s, p)
    BY DEF l
  <2> QED
    BY <1>2, <1>3, <2>1, RemovedFrom
<1>5. /\ from \in [1 .. Len(l) -> 1 .. Len(s)]
      /\ \A i \in 1 .. Len(l) : from[i] # p /\ l[i] = s[from[i]]
      /\ \A i, j \in 1 .. Len(l) : from[i] = from[j] => i = j
      /\ \A i \in 1 .. Len(s) : i # p => \E j \in 1 .. Len(l) : from[j] = i
  BY <1>10 DEF ComesFrom
<1>6. ASSUME NEW i \in 1 .. Len(l)
      PROVE  Row(l[i][1]) = Row(k)
  <2>1. from[i] \in 1 .. Len(s) /\ l[i] = s[from[i]]
    BY <1>5
  <2> QED
    BY <1>2, <2>1
<1>7. ASSUME NEW i \in 1 .. Len(l), NEW j \in 1 .. Len(l), l[i][1] = l[j][1]
      PROVE  i = j
  <2>1. /\ from[i] \in 1 .. Len(s) /\ l[i] = s[from[i]]
        /\ from[j] \in 1 .. Len(s) /\ l[j] = s[from[j]]
    BY <1>5
  <2>2. from[i] = from[j]
    BY <1>2, <1>7, <2>1
  <2> QED
    BY <1>5, <2>2
<1>8. ASSUME NEW j \in Key \ {k}, NEW u \in Value
      PROVE  Has(l, j, u) <=> Has(s, j, u)
  <2>1. ASSUME NEW i \in 1 .. Len(l), l[i] = <<j, u>>
        PROVE  \E h \in 1 .. Len(s) : s[h] = <<j, u>>
    <3>1. from[i] \in 1 .. Len(s) /\ s[from[i]] = <<j, u>>
      BY <1>5, <2>1
    <3> QED
      BY <3>1
  <2>2. ASSUME NEW i \in 1 .. Len(s), s[i] = <<j, u>>
        PROVE  \E h \in 1 .. Len(l) : l[h] = <<j, u>>
    <3>1. i # p
      BY <1>3, <2>2
    <3> QED
      BY <1>5, <2>2, <3>1
  <2> QED
    BY <2>1, <2>2 DEF Has
<1>9. ASSUME NEW v, Has(l, k, v) PROVE FALSE
  <2>1. PICK i \in 1 .. Len(l) : l[i] = <<k, v>>
    BY <1>9 DEF Has
  <2>2. s[from[i]][1] = s[p][1]
    BY <1>3, <1>5, <2>1
  <2> QED
    BY <1>2, <1>3, <1>5, <2>2
<1> QED
  BY <1>4, <1>6, <1>7, <1>8, <1>9 DEF Fits, s, p, l

-----------------------------------------------------------------------------
(* The invariant is kept *)

\* A list that fits keeps the invariant and the other keys.
LEMMA ChangeKeeps ==
  ASSUME ChainTypes, PairsAtHome, PairsOnce, NEW k \in Key, NEW l, Fits(l, k), SetList(k, l)
  PROVE  /\ ChainTypes' /\ PairsAtHome' /\ PairsOnce'
         /\ OthersKept(k)
         /\ \A v : InList(k, v)' <=> Has(l, k, v)
<1>1. PICK c \in Rows : c = Row(k)
  BY RowOf
<1>2. buckets' = [buckets EXCEPT ![c] = l]
  BY <1>1 DEF SetList, Row
<1>3. \A b \in Rows : buckets'[b] = IF b = c THEN l ELSE buckets[b]
  BY <1>2 DEF ChainTypes
<1>4. ChainTypes'
  BY <1>2 DEF ChainTypes, Fits
<1>5. PairsAtHome'
  BY <1>1, <1>3 DEF PairsAtHome, Fits
<1>6. PairsOnce'
  BY <1>1, <1>3 DEF PairsOnce, Fits
<1>7. \A j : List(j)' = buckets'[Row(j)]
  BY DEF List, Row
<1>8. ASSUME NEW j \in Key \ {k}, NEW u \in Value
      PROVE  InList(j, u)' <=> InList(j, u)
  <2>1. InList(j, u)' <=> Has(buckets'[Row(j)], j, u)
    BY <1>7 DEF InList, Has
  <2>2. InList(j, u) <=> Has(buckets[Row(j)], j, u)
    BY RowOf DEF InList, Has
  <2>3. CASE Row(j) = c
    <3>1. buckets'[Row(j)] = l /\ buckets[Row(j)] = List(k)
      BY <1>1, <1>3, <2>3, RowOf
    <3> QED
      BY <2>1, <2>2, <3>1 DEF Fits
  <2>4. CASE Row(j) # c
    BY <1>3, <2>1, <2>2, <2>4, RowOf
  <2> QED
    BY <2>3, <2>4
<1>9. \A v : InList(k, v)' <=> Has(l, k, v)
  BY <1>1, <1>3, <1>7 DEF InList, Has
<1> QED
  BY <1>4, <1>5, <1>6, <1>8, <1>9 DEF OthersKept

\* The places in use, after a change of a list.
LEMMA PairsChange ==
  ASSUME ChainTypes, NEW k \in Key, NEW l, Fits(l, k), SetList(k, l), NEW n, n = Len(List(k))
  PROVE  /\ Len(l) = n => Pairs' = Pairs
         /\ Len(l) = n + 1 => \E x : x \notin Pairs /\ Pairs' = Pairs \cup {x}
         /\ Len(l) = n - 1 /\ n > 0 => \E x \in Pairs : Pairs' = Pairs \ {x}
<1>1. PICK c \in Rows : c = Row(k) /\ List(k) = buckets[c]
  BY RowOf
<1>2. /\ buckets \in [Rows -> Seq(Pair)] /\ buckets' \in [Rows -> Seq(Pair)]
      /\ buckets'[c] = l /\ \A b \in Rows : b # c => buckets'[b] = buckets[b]
  BY <1>1 DEF SetList, Row, ChainTypes, Fits
<1>0. IsTable(buckets, Rows) /\ IsTable(buckets', Rows)
  BY <1>2, TableIs
<1>3. Pairs = PlacesOf(buckets) /\ Pairs' = PlacesOf(buckets')
  BY DEF Pairs, PlacesOf
<1>4. Resized(buckets, buckets', c, Len(buckets[c]), Len(buckets'[c]))
  BY <1>0, <1>2, PlacesChange
<1> QED
  BY <1>1, <1>2, <1>3, <1>4 DEF Resized

\* What getting a key returns.
FindsPairs ==
  \A k \in Key :
    /\ \A v \in Value : InList(k, v) => GetPair(k) = v
    /\ (\A v \in Value : ~InList(k, v)) => GetPair(k) = Absent

\* The invariant makes get right.
LEMMA GetPairFinds ==
  ChainInv => FindsPairs
<1> SUFFICES ASSUME ChainTypes, PairsOnce, NEW k \in Key
             PROVE  /\ \A v \in Value : InList(k, v) => GetPair(k) = v
                    /\ (\A v \in Value : ~InList(k, v)) => GetPair(k) = Absent
  BY DEF ChainInv, FindsPairs
<1>1. CASE Place(k) = 0
  <2>1. \A v : ~InList(k, v)
    <3>1. \A i \in 1 .. Len(List(k)) : List(k)[i][1] # k
      BY <1>1, PlaceIs
    <3> QED
      BY <3>1 DEF InList
  <2> QED
    BY <1>1, <2>1 DEF GetPair
<1>2. CASE Place(k) # 0
  <2>1. /\ Place(k) \in 1 .. Len(List(k)) /\ List(k)[Place(k)][1] = k
        /\ List(k)[Place(k)][2] \in Value /\ InList(k, List(k)[Place(k)][2])
        /\ GetPair(k) = List(k)[Place(k)][2]
    BY <1>2, PlaceIs DEF GetPair
  <2>2. ASSUME NEW v \in Value, InList(k, v)
        PROVE  GetPair(k) = v
    <3>1. PICK i \in 1 .. Len(List(k)) : List(k)[i] = <<k, v>>
      BY <2>2 DEF InList
    <3>2. i = Place(k)
      BY <2>1, <3>1, RowOf DEF PairsOnce
    <3> QED
      BY <2>1, <3>1, <3>2
  <2> QED
    BY <2>1, <2>2
<1> QED
  BY <1>1, <1>2

-----------------------------------------------------------------------------
(* Each step is one of the dictionary *)

\* What a step of key k to value x does to what getting a key returns.
PairBecomes(k, x) ==
  \A j \in Key : GetPair(j)' = IF j = k THEN x ELSE GetPair(j)

\* get returns for the other keys what it did.
LEMMA OthersGot ==
  ASSUME NEW k \in Key, FindsPairs, FindsPairs', OthersKept(k)
  PROVE  \A j \in Key \ {k} : GetPair(j)' = GetPair(j)
<1> SUFFICES ASSUME NEW j \in Key \ {k} PROVE GetPair(j)' = GetPair(j)
  OBVIOUS
<1>1. ASSUME NEW u \in Value, InList(j, u)
      PROVE  GetPair(j)' = GetPair(j)
  BY <1>1 DEF FindsPairs, OthersKept
<1>2. ASSUME \A u \in Value : ~InList(j, u)
      PROVE  GetPair(j)' = GetPair(j)
  BY <1>2 DEF FindsPairs, OthersKept
<1> QED
  BY <1>1, <1>2

\* put sets the key, and no other, and one more place is used if it is new.
LEMMA PutSteps ==
  ASSUME ChainInv, NEW k \in Key, NEW v \in Value, Put(k, v)
  PROVE  /\ ChainInv'
         /\ FindsPairs /\ FindsPairs' => PairBecomes(k, v)
<1>1. ChainTypes /\ PairsAtHome /\ PairsOnce /\ PairsCounted
  BY DEF ChainInv
<1>2. PICK n \in Nat : n = Len(List(k))
  BY <1>1, RowOf, ListOf
<1>3. PICK l : l = IF Place(k) = 0 THEN Append(List(k), <<k, v>>)
                   ELSE ReplaceAt(List(k), Place(k), <<k, v>>)
  OBVIOUS
<1>4. /\ Fits(l, k) /\ Has(l, k, v)
      /\ Len(l) = IF Place(k) = 0 THEN n + 1 ELSE n
  BY <1>1, <1>2, <1>3, AppendFits, ReplaceFits
<1>5. SetList(k, l)
  BY <1>3 DEF Put
<1>6. /\ ChainTypes' /\ PairsAtHome' /\ PairsOnce' /\ OthersKept(k)
      /\ InList(k, v)'
  BY <1>1, <1>4, <1>5, ChangeKeeps
<1>7. KeysHeld' = KeysHeld \cup {k}
  BY <1>6 DEF KeysHeld, OthersKept
<1>8. PairsCounted'
  <2>1. CASE Place(k) = 0
    <3>1. k \notin KeysHeld
      <4>1. \A i \in 1 .. Len(List(k)) : List(k)[i][1] # k
        BY <1>1, <2>1, PlaceIs
      <4> QED
        BY <4>1 DEF KeysHeld, InList
    <3>2. PICK x : x \notin Pairs /\ Pairs' = Pairs \cup {x}
      BY <1>1, <1>2, <1>4, <1>5, <2>1, PairsChange
    <3>3. /\ IsFiniteSet(Pairs') /\ Cardinality(Pairs') = Cardinality(Pairs) + 1
          /\ IsFiniteSet(KeysHeld') /\ Cardinality(KeysHeld') = Cardinality(KeysHeld) + 1
      BY <1>1, <1>7, <3>1, <3>2, FS_AddElement DEF PairsCounted
    <3> QED
      BY <1>1, <3>3 DEF PairsCounted
  <2>2. CASE Place(k) # 0
    <3>1. k \in KeysHeld
      BY <1>1, <2>2, PlaceIs DEF KeysHeld
    <3>2. Pairs' = Pairs
      BY <1>1, <1>2, <1>4, <1>5, <2>2, PairsChange
    <3>3. KeysHeld' = KeysHeld
      BY <1>7, <3>1
    <3> QED
      BY <1>1, <3>2, <3>3 DEF PairsCounted
  <2> QED
    BY <2>1, <2>2
<1>9. ASSUME FindsPairs, FindsPairs' PROVE PairBecomes(k, v)
  <2>1. GetPair(k)' = v
    BY <1>6, <1>9 DEF FindsPairs
  <2>2. \A j \in Key \ {k} : GetPair(j)' = GetPair(j)
    BY <1>6, <1>9, OthersGot
  <2> QED
    BY <2>1, <2>2 DEF PairBecomes
<1> QED
  BY <1>6, <1>8, <1>9 DEF ChainInv

\* The invariant speaks of the buckets only.
LEMMA SameChains ==
  ASSUME ChainInv, UNCHANGED buckets
  PROVE  ChainInv'
<1>1. ChainTypes'
  BY DEF ChainInv, ChainTypes
<1>2. PairsAtHome' /\ PairsOnce'
  BY DEF ChainInv, PairsAtHome, PairsOnce
<1>3. Pairs' = Pairs
  BY DEF Pairs
<1>4. KeysHeld' = KeysHeld
  BY DEF KeysHeld, InList, List
<1>5. PairsCounted'
  BY <1>3, <1>4 DEF ChainInv, PairsCounted
<1> QED
  BY <1>1, <1>2, <1>5 DEF ChainInv

\* erase takes the key away, no other, and says whether it was there.
LEMMA ErasePairSteps ==
  ASSUME ChainInv, NEW k \in Key, ErasePair(k)
  PROVE  /\ ChainInv'
         /\ FindsPairs /\ FindsPairs' =>
              PairBecomes(k, Absent) /\ chainedAnswer' = <<"erase", k, GetPair(k) # Absent>>
<1>1. ChainTypes /\ PairsAtHome /\ PairsOnce /\ PairsCounted
  BY DEF ChainInv
<1>2. PICK n \in Nat : n = Len(List(k))
  BY <1>1, RowOf, ListOf
<1>3. chainedAnswer' = <<"erase", k, Place(k) # 0>>
  BY DEF ErasePair
<1>4. CASE Place(k) = 0
  <2>1. UNCHANGED buckets
    <3>1. PICK r : r = Row(k)
      OBVIOUS
    <3>2. buckets' = [buckets EXCEPT ![r] = buckets[r]]
      BY <1>4, <3>1 DEF ErasePair, SetList, List, Row
    <3>3. buckets \in [Rows -> Seq(Pair)]
      BY <1>1 DEF ChainTypes
    <3> QED
      BY <3>2, <3>3
  <2>2. ChainInv'
    BY <2>1, SameChains
  <2>3. \A j : GetPair(j)' = GetPair(j)
    BY <2>1 DEF GetPair, Place, List, SelectInSeq
  <2>4. \A v : ~InList(k, v)
    <3>1. \A i \in 1 .. Len(List(k)) : List(k)[i][1] # k
      BY <1>1, <1>4, PlaceIs
    <3> QED
      BY <3>1 DEF InList
  <2>5. FindsPairs => GetPair(k) = Absent
    BY <2>4 DEF FindsPairs
  <2> QED
    BY <1>3, <1>4, <2>2, <2>3, <2>5 DEF PairBecomes
<1>5. CASE Place(k) # 0
  <2>1. PICK l : l = RemoveAt(List(k), Place(k))
    OBVIOUS
  <2>2. Fits(l, k) /\ (\A v : ~Has(l, k, v)) /\ Len(l) = n - 1
    BY <1>1, <1>2, <1>5, <2>1, RemoveFits
  <2>3. SetList(k, l)
    BY <1>5, <2>1 DEF ErasePair
  <2>4. /\ ChainTypes' /\ PairsAtHome' /\ PairsOnce' /\ OthersKept(k)
        /\ \A v : ~InList(k, v)'
    BY <1>1, <2>2, <2>3, ChangeKeeps
  <2>5. PICK u \in Value : InList(k, u)
    BY <1>1, <1>5, PlaceIs
  <2>6. KeysHeld' = KeysHeld \ {k} /\ k \in KeysHeld
    BY <2>4, <2>5 DEF KeysHeld, OthersKept
  <2>7. PICK x \in Pairs : Pairs' = Pairs \ {x}
    <3>1. n > 0
      BY <1>2, <2>5 DEF InList
    <3> QED
      BY <1>1, <1>2, <2>2, <2>3, <3>1, PairsChange
  <2>8. PairsCounted'
    <3>1. /\ IsFiniteSet(Pairs') /\ Cardinality(Pairs') = Cardinality(Pairs) - 1
          /\ IsFiniteSet(KeysHeld') /\ Cardinality(KeysHeld') = Cardinality(KeysHeld) - 1
      BY <1>1, <2>6, <2>7, FS_RemoveElement DEF PairsCounted
    <3> QED
      BY <1>1, <3>1 DEF PairsCounted
  <2>9. ASSUME FindsPairs, FindsPairs'
        PROVE  PairBecomes(k, Absent) /\ GetPair(k) # Absent
    <3>1. GetPair(k)' = Absent
      BY <2>4, <2>9 DEF FindsPairs
    <3>2. GetPair(k) # Absent
      BY <2>5, <2>9, KeysAssumption DEF FindsPairs
    <3>3. \A j \in Key \ {k} : GetPair(j)' = GetPair(j)
      BY <2>4, <2>9, OthersGot
    <3> QED
      BY <3>1, <3>2, <3>3 DEF PairBecomes
  <2> QED
    BY <1>3, <1>5, <2>4, <2>8, <2>9 DEF ChainInv
<1> QED
  BY <1>4, <1>5

\* The constructor leaves every list empty.
LEMMA ChainInitHolds ==
  ChainedInit => ChainInv
<1> SUFFICES ASSUME ChainedInit PROVE ChainInv
  OBVIOUS
<1>1. buckets = [b \in Rows |-> <<>>]
  BY DEF ChainedInit, Rows
<1>2. ChainTypes
  BY <1>1, EmptySeq DEF ChainTypes
<1>3. \A b \in Rows : 1 .. Len(buckets[b]) = {}
  BY <1>1, EmptySeq
<1>4. Pairs = {}
  <2>1. IsTable(buckets, Rows) /\ Pairs = PlacesOf(buckets)
    BY <1>2, TableIs DEF ChainTypes, Pairs, PlacesOf
  <2> QED
    BY <1>3, <2>1, PlacesAre
<1>5. KeysHeld = {}
  BY <1>3, RowOf DEF KeysHeld, InList
<1>6. PairsCounted
  BY <1>4, <1>5, FS_EmptySet DEF PairsCounted
<1>7. PairsAtHome /\ PairsOnce
  BY <1>3 DEF PairsAtHome, PairsOnce
<1> QED
  BY <1>2, <1>6, <1>7 DEF ChainInv

\* The invariant is kept by every step.
LEMMA ChainInvStep ==
  ChainInv /\ [ChainedNext]_chained => ChainInv'
<1> SUFFICES ASSUME ChainInv, [ChainedNext]_chained PROVE ChainInv'
  OBVIOUS
<1>1. CASE ChainedNext
  BY <1>1, PutSteps, ErasePairSteps DEF ChainedNext
<1>2. CASE UNCHANGED chained
  BY <1>2, SameChains DEF chained
<1> QED
  BY <1>1, <1>2

\* As many pairs as keys that are found.
PairsFound == Cardinality(Pairs) = Cardinality({k \in Key : GetPair(k) # Absent})

\* There are as many pairs as keys that get finds.
LEMMA HeldAreFound ==
  ChainInv /\ FindsPairs => PairsFound
<1> SUFFICES ASSUME ChainInv, FindsPairs PROVE PairsFound
  OBVIOUS
<1>1. ASSUME NEW k \in Key
      PROVE  GetPair(k) # Absent <=> \E v \in Value : InList(k, v)
  BY KeysAssumption DEF FindsPairs
<1>2. KeysHeld = {k \in Key : GetPair(k) # Absent}
  BY <1>1 DEF KeysHeld
<1> QED
  BY <1>2 DEF ChainInv, PairsCounted, PairsFound

\* Every step is a step of the dictionary, or none.
LEMMA ChainDictionaryStep ==
  ASSUME ChainInv, FindsPairs, FindsPairs', PairsFound', [ChainedNext]_chained
  PROVE  [Map!Next]_<<[k \in Key |-> GetPair(k)], Cardinality(Pairs), chainedAnswer>>
<1> DEFINE contents == [k \in Key |-> GetPair(k)]
           held == Cardinality(Pairs)
<1> SUFFICES Map!Next \/ UNCHANGED <<contents, held, chainedAnswer>>
  OBVIOUS
<1>1. held' = Map!Cardinality({k \in Key : contents'[k] # Absent})
  <2>1. held' = Cardinality({k \in Key : GetPair(k)' # Absent})
    BY DEF PairsFound
  <2>2. \A k \in Key : contents'[k] = GetPair(k)'
    OBVIOUS
  <2>3. {k \in Key : contents'[k] # Absent} = {k \in Key : GetPair(k)' # Absent}
    BY <2>2
  <2>4. \A S : Map!Cardinality(S) = Cardinality(S)
    BY DEF Map!Cardinality, Cardinality
  <2> QED
    BY <2>1, <2>3, <2>4
<1>2. ASSUME NEW k \in Key, NEW x, PairBecomes(k, x)
      PROVE  contents' = [contents EXCEPT ![k] = x]
  BY <1>2 DEF PairBecomes
<1>3. ASSUME NEW k \in Key, NEW v \in Value, Put(k, v)
      PROVE  Map!Insert(k, v)
  <2>1. contents' = [contents EXCEPT ![k] = v]
    BY <1>2, <1>3, PutSteps
  <2> QED
    BY <1>3, <2>1 DEF Put, Map!Insert
<1>4. ASSUME NEW k \in Key, ErasePair(k)
      PROVE  Map!Erase(k)
  <2>1. contents' = [contents EXCEPT ![k] = Absent]
    BY <1>2, <1>4, ErasePairSteps
  <2>2. chainedAnswer' = <<"erase", k, contents[k] # Absent>>
    BY <1>4, ErasePairSteps
  <2> QED
    BY <2>1, <2>2 DEF Map!Erase
<1>5. CASE ChainedNext
  <2>1. PICK k \in Key : (\E v \in Value : Put(k, v)) \/ ErasePair(k)
    BY <1>5 DEF ChainedNext
  <2>2. (\E v \in Value : Map!Insert(k, v)) \/ Map!Erase(k)
    BY <1>3, <1>4, <2>1
  <2> QED
    BY <1>1, <2>2 DEF Map!Next
<1>6. CASE UNCHANGED chained
  <2>1. \A k : GetPair(k)' = GetPair(k)
    BY <1>6 DEF chained, GetPair, Place, List, SelectInSeq
  <2>2. contents' = contents
    BY <2>1
  <2>3. held' = held
    BY <1>6 DEF chained, Pairs
  <2>4. UNCHANGED <<contents, held, chainedAnswer>>
    BY <1>6, <2>2, <2>3 DEF chained
  <2> HIDE DEF contents, held
  <2> QED
    BY <2>4
<1> QED
  BY <1>5, <1>6

\* The invariant holds for ever.
LEMMA ChainInvHolds == ChainedSpec => []ChainInv
  BY ChainInitHolds, ChainInvStep, PTL DEF ChainedSpec

\* The chained table is a dictionary that never refuses a key: whatever the
\* hash function does to the keys, no key is lost or in its list twice.
THEOREM ChainingImplements == ChainedSpec => ChainedIsDictionary
<1>1. ChainedInit => Map!Init
  <2> SUFFICES ASSUME ChainedInit PROVE Map!Init
    OBVIOUS
  <2>1. ChainInv /\ FindsPairs
    BY ChainInitHolds, GetPairFinds
  <2>2. \A b \in Rows : 1 .. Len(buckets[b]) = {}
    BY EmptySeq DEF ChainedInit, Rows
  <2>3. \A k \in Key, v \in Value : ~InList(k, v)
    BY <2>2, RowOf DEF InList
  <2>4. [k \in Key |-> GetPair(k)] = [k \in Key |-> Absent]
    BY <2>1, <2>3 DEF FindsPairs
  <2>5. Cardinality(Pairs) = 0
    <3>1. Pairs = {}
      <4>1. IsTable(buckets, Rows) /\ Pairs = PlacesOf(buckets)
        BY <2>1, TableIs DEF ChainInv, ChainTypes, Pairs, PlacesOf
      <4> QED
        BY <2>2, <4>1, PlacesAre
    <3> QED
      BY <3>1, FS_EmptySet
  <2> QED
    BY <2>4, <2>5 DEF ChainedInit, Map!Init
<1>2. ChainInv /\ FindsPairs /\ FindsPairs' /\ PairsFound' /\ [ChainedNext]_chained
        => [Map!Next]_<<[k \in Key |-> GetPair(k)], Cardinality(Pairs), chainedAnswer>>
  BY ChainDictionaryStep
<1> QED
  BY <1>1, <1>2, ChainInvHolds, GetPairFinds, HeldAreFound, PTL
  DEF ChainedSpec, ChainedIsDictionary, Map!Spec

-----------------------------------------------------------------------------
(* The table with a memory limit: the invariant *)

NodeRows == 0 .. BucketNum - 1

NodeRow(k) == Hash[k] % BucketNum

Node == NodeKey \X Value \X Nat

NodeTypes ==
  /\ chains \in [Tables -> {chains[1], chains[2]}]
  /\ chains[home] \in [NodeRows -> Seq(Node)]
  /\ home \in Tables
  /\ used \in [Tables -> Nat]
  /\ limit \in [Tables -> Nat] /\ limit[home] = Limit
  /\ exact \in BOOLEAN

\* Every node is in the list of its key's bucket,
NodesAtHome ==
  \A b \in NodeRows : \A i \in 1 .. Len(chains[home][b]) :
    NodeRow(chains[home][b][i][1]) = b

\* and no key is in it twice.
NodesOnce ==
  \A b \in NodeRows : \A i, j \in 1 .. Len(chains[home][b]) :
    chains[home][b][i][1] = chains[home][b][j][1] => i = j

KeysNoded == {k \in NodeKey : \E n \in Nodes : n[1] = k}

NodesCounted ==
  /\ IsFiniteSet(NodePlaces) /\ IsFiniteSet(KeysNoded)
  /\ Cardinality(NodePlaces) = Cardinality(KeysNoded)

\* What is charged is the memory of the nodes, as far as size_t can count it.
BytesCounted ==
  /\ IsFiniteSet(Bytes)
  /\ exact => used[home] = Memory % SizeT

LimitedInv == NodeTypes /\ NodesAtHome /\ NodesOnce /\ NodesCounted /\ BytesCounted

-----------------------------------------------------------------------------
(* Its lists *)

IsIn(l, n) == \E i \in 1 .. Len(l) : l[i] = n

LEMMA NodeRowOf ==
  \A k \in NodeKey : NodeRow(k) \in NodeRows /\ Chain(k) = chains[home][NodeRow(k)]
BY KeysAssumption, LimitAssumption DEF NodeRow, NodeRows, Chain

\* The elements of a list are nodes.
LEMMA NodeListOf ==
  ASSUME NodeTypes, NEW b \in NodeRows
  PROVE  /\ chains[home][b] \in Seq(Node) /\ Len(chains[home][b]) \in Nat
         /\ \A i \in 1 .. Len(chains[home][b]) : chains[home][b][i] \in Node
<1>1. chains[home][b] \in Seq(Node)
  BY DEF NodeTypes
<1> QED
  BY <1>1, LenProperties, ElementOfSeq

\* The nodes are the elements of the lists.
LEMMA NodesAre ==
  ASSUME NodeTypes
  PROVE  \A n : n \in Nodes <=> \E b \in NodeRows : IsIn(chains[home][b], n)
<1>1. DOMAIN chains[home] = NodeRows
  BY DEF NodeTypes
<1>2. ASSUME NEW n, NEW b \in NodeRows
      PROVE  n \in ToSet(chains[home][b]) <=> IsIn(chains[home][b], n)
  <2>1. DOMAIN chains[home][b] = 1 .. Len(chains[home][b])
    BY NodeListOf, LenProperties
  <2> QED
    BY <2>1 DEF ToSet, IsIn
<1> QED
  BY <1>1, <1>2 DEF Nodes

LEMMA NodeIs ==
  ASSUME NodeTypes, NEW n \in Nodes
  PROVE  /\ n \in Node
         /\ n[1] \in NodeKey /\ n[2] \in Value /\ n[3] \in Nat
         /\ n = <<n[1], n[2], n[3]>>
<1>1. n \in Node
  BY NodesAre, NodeListOf DEF IsIn
<1> QED
  BY <1>1 DEF Node

\* The nodes of a key are in its list.
LEMMA NodesInChain ==
  ASSUME NodeTypes, NodesAtHome, NEW k \in NodeKey, NEW n, n[1] = k
  PROVE  n \in Nodes <=> IsIn(Chain(k), n)
<1>1. NodeRow(k) \in NodeRows /\ Chain(k) = chains[home][NodeRow(k)]
  BY NodeRowOf
<1>2. ASSUME NEW b \in NodeRows, IsIn(chains[home][b], n)
      PROVE  b = NodeRow(k)
  BY <1>2 DEF NodesAtHome, IsIn
<1> QED
  BY <1>1, <1>2, NodesAre

\* No key has two nodes.
LEMMA NodeUnique ==
  ASSUME NodeTypes, NodesAtHome, NodesOnce, NEW m \in Nodes, NEW n \in Nodes, m[1] = n[1]
  PROVE  m = n
<1>1. PICK k \in NodeKey : m[1] = k /\ n[1] = k
  BY NodeIs
<1>2. IsIn(Chain(k), m) /\ IsIn(Chain(k), n)
  BY <1>1, NodesInChain
<1>3. NodeRow(k) \in NodeRows /\ Chain(k) = chains[home][NodeRow(k)]
  BY NodeRowOf
<1> QED
  BY <1>1, <1>2, <1>3 DEF IsIn, NodesOnce

\* The search of a list finds the key's node if there is one.
LEMMA NodeAtIs ==
  ASSUME NodeTypes, NodesAtHome, NEW k \in NodeKey
  PROVE  \/ /\ NodeAt(k) = 0
            /\ \A i \in 1 .. Len(Chain(k)) : Chain(k)[i][1] # k
            /\ \A n \in Nodes : n[1] # k
         \/ /\ NodeAt(k) \in 1 .. Len(Chain(k))
            /\ Chain(k)[NodeAt(k)] \in Nodes
            /\ Chain(k)[NodeAt(k)][1] = k
<1> DEFINE I == {i \in 1 .. Len(Chain(k)) : Chain(k)[i][1] = k}
<1>1. NodeAt(k) = IF I # {} THEN Min(I) ELSE 0
  BY DEF NodeAt, SelectInSeq
<1>2. I \in SUBSET Nat
  BY NodeRowOf, NodeListOf
<1>3. CASE I = {}
  <2>1. NodeAt(k) = 0 /\ \A i \in 1 .. Len(Chain(k)) : Chain(k)[i][1] # k
    BY <1>1, <1>3
  <2>2. \A n : ~(n[1] = k /\ IsIn(Chain(k), n))
    BY <2>1 DEF IsIn
  <2> QED
    BY <2>1, <2>2, NodesInChain
<1>4. CASE I # {}
  <2> HIDE DEF I
  <2>1. NodeAt(k) \in I
    BY <1>1, <1>2, <1>4, LeastElement
  <2>2. NodeAt(k) \in 1 .. Len(Chain(k)) /\ Chain(k)[NodeAt(k)][1] = k
    BY <2>1 DEF I
  <2>3. IsIn(Chain(k), Chain(k)[NodeAt(k)])
    BY <2>2 DEF IsIn
  <2> QED
    BY <2>2, <2>3, NodesInChain
<1> QED
  BY <1>3, <1>4

-----------------------------------------------------------------------------
(* The three changes of a list *)

\* A list that may take the place of k's: of k it has the new node, if any.
Takes(l, k, new) ==
  /\ l \in Seq(Node)
  /\ \A i \in 1 .. Len(l) : NodeRow(l[i][1]) = NodeRow(k)
  /\ \A i, j \in 1 .. Len(l) : l[i][1] = l[j][1] => i = j
  /\ \A n : IsIn(l, n) <=> (IsIn(Chain(k), n) /\ n[1] # k) \/ n \in new

\* What the lemmas on the three changes need of the list.
LEMMA ChainIs ==
  ASSUME NodeTypes, NodesAtHome, NodesOnce, NEW k \in NodeKey
  PROVE  /\ Chain(k) \in Seq(Node) /\ Len(Chain(k)) \in Nat
         /\ \A i \in 1 .. Len(Chain(k)) : NodeRow(Chain(k)[i][1]) = NodeRow(k)
         /\ \A i, j \in 1 .. Len(Chain(k)) : Chain(k)[i][1] = Chain(k)[j][1] => i = j
<1>1. NodeRow(k) \in NodeRows /\ Chain(k) = chains[home][NodeRow(k)]
  BY NodeRowOf
<1> QED
  BY <1>1, NodeListOf DEF NodesAtHome, NodesOnce

\* A new key's node goes in front of the list,
LEMMA ConsTakes ==
  ASSUME NodeTypes, NodesAtHome, NodesOnce, NEW k \in NodeKey, NodeAt(k) = 0,
         NEW e \in Node, e[1] = k, NEW l, l = Cons(e, Chain(k))
  PROVE  Takes(l, k, {e}) /\ Len(l) = Len(Chain(k)) + 1
<1>1. PICK s : s = Chain(k)
  OBVIOUS
<1>2. /\ s \in Seq(Node) /\ Len(s) \in Nat
      /\ \A i \in 1 .. Len(s) : NodeRow(s[i][1]) = NodeRow(k)
      /\ \A i, j \in 1 .. Len(s) : s[i][1] = s[j][1] => i = j
  BY <1>1, ChainIs
<1>3. \A i \in 1 .. Len(s) : s[i][1] # k
  BY <1>1, NodeAtIs
<1>4. /\ l \in Seq(Node) /\ Len(l) = Len(s) + 1
      /\ l[1] = e
      /\ \A i \in 1 .. Len(s) : l[i + 1] = s[i]
      /\ \A i \in 1 .. Len(l) : i = 1 \/ (i - 1 \in 1 .. Len(s) /\ l[i] = s[i - 1])
  <2>1. l = Cons(e, s) /\ s \in Seq(Node) /\ e \in Node
    BY <1>1, <1>2
  <2>2. IsCons(l, e, s, Node)
    BY <2>1, ConsIs
  <2> QED
    BY <2>2 DEF IsCons
<1>5. ASSUME NEW i \in 1 .. Len(l)
      PROVE  NodeRow(l[i][1]) = NodeRow(k)
  <2>1. CASE i = 1
    BY <1>4, <2>1
  <2>2. CASE i # 1
    <3>1. PICK j \in 1 .. Len(s) : l[i] = s[j]
      BY <1>4, <2>2
    <3> QED
      BY <1>2, <3>1
  <2> QED
    BY <2>1, <2>2
<1>6. ASSUME NEW i \in 1 .. Len(l), NEW j \in 1 .. Len(l), l[i][1] = l[j][1]
      PROVE  i = j
  <2>1. CASE i = 1 \/ j = 1
    BY <1>3, <1>4, <1>6, <2>1
  <2>2. CASE i # 1 /\ j # 1
    <3>1. s[i - 1][1] = s[j - 1][1] /\ i - 1 \in 1 .. Len(s) /\ j - 1 \in 1 .. Len(s)
      BY <1>4, <1>6, <2>2
    <3>2. i - 1 = j - 1
      BY <1>2, <3>1
    <3> QED
      BY <3>2
  <2> QED
    BY <2>1, <2>2
<1>7. ASSUME NEW n
      PROVE  IsIn(l, n) <=> (IsIn(s, n) /\ n[1] # k) \/ n \in {e}
  <2>1. ASSUME NEW i \in 1 .. Len(l), l[i] = n
        PROVE  (IsIn(s, n) /\ n[1] # k) \/ n = e
    BY <1>3, <1>4, <2>1 DEF IsIn
  <2>2. ASSUME NEW i \in 1 .. Len(s), s[i] = n
        PROVE  IsIn(l, n)
    <3>1. i + 1 \in 1 .. Len(l) /\ l[i + 1] = n
      BY <1>2, <1>4, <2>2
    <3> QED
      BY <3>1 DEF IsIn
  <2>3. IsIn(l, e)
    BY <1>2, <1>4 DEF IsIn
  <2> QED
    BY <2>1, <2>2, <2>3 DEF IsIn
<1> QED
  BY <1>1, <1>4, <1>5, <1>6, <1>7 DEF Takes

\* a key's new node takes the place of the old one,
LEMMA ReplaceTakes ==
  ASSUME NodeTypes, NodesAtHome, NodesOnce, NEW k \in NodeKey, NodeAt(k) # 0,
         NEW e \in Node, e[1] = k, NEW l, l = ReplaceAt(Chain(k), NodeAt(k), e)
  PROVE  Takes(l, k, {e}) /\ Len(l) = Len(Chain(k))
<1>1. PICK s, p : s = Chain(k) /\ p = NodeAt(k)
  OBVIOUS
<1>2. /\ s \in Seq(Node) /\ Len(s) \in Nat
      /\ \A i \in 1 .. Len(s) : NodeRow(s[i][1]) = NodeRow(k)
      /\ \A i, j \in 1 .. Len(s) : s[i][1] = s[j][1] => i = j
  BY <1>1, ChainIs
<1>3. p \in 1 .. Len(s) /\ s[p][1] = k
  BY <1>1, NodeAtIs
<1>4. l = [s EXCEPT ![p] = e]
  BY <1>1 DEF ReplaceAt
<1>5. /\ l \in Seq(Node) /\ Len(l) = Len(s)
      /\ \A i \in 1 .. Len(s) : l[i] = IF i = p THEN e ELSE s[i]
  BY <1>2, <1>3, <1>4, ExceptSeq
<1>6. \A i \in 1 .. Len(l) : NodeRow(l[i][1]) = NodeRow(k)
  BY <1>2, <1>5
<1>7. \A i \in 1 .. Len(l) : l[i][1] = s[i][1]
  BY <1>3, <1>5
<1>8. ASSUME NEW n
      PROVE  IsIn(l, n) <=> (IsIn(s, n) /\ n[1] # k) \/ n \in {e}
  <2>1. ASSUME NEW i \in 1 .. Len(l), l[i] = n
        PROVE  (IsIn(s, n) /\ n[1] # k) \/ n = e
    <3>1. CASE i # p
      BY <1>2, <1>3, <1>5, <2>1, <3>1 DEF IsIn
    <3> QED
      BY <1>3, <1>5, <2>1, <3>1
  <2>2. ASSUME NEW i \in 1 .. Len(s), s[i] = n, n[1] # k
        PROVE  IsIn(l, n)
    BY <1>3, <1>5, <2>2 DEF IsIn
  <2>3. IsIn(l, e)
    BY <1>3, <1>5 DEF IsIn
  <2> QED
    BY <2>1, <2>2, <2>3 DEF IsIn
<1> QED
  BY <1>1, <1>2, <1>5, <1>6, <1>7, <1>8 DEF Takes

\* and an erased one leaves the list.
LEMMA RemoveTakes ==
  ASSUME NodeTypes, NodesAtHome, NodesOnce, NEW k \in NodeKey, NodeAt(k) # 0,
         NEW l, l = RemoveAt(Chain(k), NodeAt(k))
  PROVE  Takes(l, k, {}) /\ Len(l) = Len(Chain(k)) - 1
<1>1. PICK s, p : s = Chain(k) /\ p = NodeAt(k)
  OBVIOUS
<1>2. /\ s \in Seq(Node) /\ Len(s) \in Nat
      /\ \A i \in 1 .. Len(s) : NodeRow(s[i][1]) = NodeRow(k)
      /\ \A i, j \in 1 .. Len(s) : s[i][1] = s[j][1] => i = j
  BY <1>1, ChainIs
<1>3. p \in 1 .. Len(s) /\ s[p][1] = k
  BY <1>1, NodeAtIs
<1>4. l \in Seq(Node) /\ Len(l) = Len(s) - 1
  BY <1>1, <1>2, <1>3, Removed
<1>10. PICK from : ComesFrom(from, l, s, p)
  <2>1. l = RemoveAt(s, p) /\ s \in Seq(Node) /\ p \in 1 .. Len(s)
    BY <1>1, <1>2, <1>3
  <2> QED
    BY <2>1, RemovedFrom
<1>5. /\ from \in [1 .. Len(l) -> 1 .. Len(s)]
      /\ \A i \in 1 .. Len(l) : from[i] # p /\ l[i] = s[from[i]]
      /\ \A i, j \in 1 .. Len(l) : from[i] = from[j] => i = j
      /\ \A i \in 1 .. Len(s) : i # p => \E j \in 1 .. Len(l) : from[j] = i
  BY <1>10 DEF ComesFrom
<1>6. ASSUME NEW i \in 1 .. Len(l)
      PROVE  NodeRow(l[i][1]) = NodeRow(k)
  <2>1. from[i] \in 1 .. Len(s) /\ l[i] = s[from[i]]
    BY <1>5
  <2> QED
    BY <1>2, <2>1
<1>7. ASSUME NEW i \in 1 .. Len(l), NEW j \in 1 .. Len(l), l[i][1] = l[j][1]
      PROVE  i = j
  <2>1. /\ from[i] \in 1 .. Len(s) /\ l[i] = s[from[i]]
        /\ from[j] \in 1 .. Len(s) /\ l[j] = s[from[j]]
    BY <1>5
  <2>2. from[i] = from[j]
    BY <1>2, <1>7, <2>1
  <2> QED
    BY <1>5, <2>2
<1>8. ASSUME NEW n
      PROVE  IsIn(l, n) <=> (IsIn(s, n) /\ n[1] # k)
  <2>1. ASSUME NEW i \in 1 .. Len(l), l[i] = n
        PROVE  IsIn(s, n) /\ n[1] # k
    <3>1. from[i] \in 1 .. Len(s) /\ from[i] # p /\ s[from[i]] = n
      BY <1>5, <2>1
    <3> QED
      BY <1>2, <1>3, <3>1 DEF IsIn
  <2>2. ASSUME NEW i \in 1 .. Len(s), s[i] = n, n[1] # k
        PROVE  IsIn(l, n)
    <3>1. PICK j \in 1 .. Len(l) : from[j] = i
      BY <1>3, <1>5, <2>2
    <3> QED
      BY <1>5, <2>2, <3>1 DEF IsIn
  <2> QED
    BY <2>1, <2>2 DEF IsIn
<1> QED
  BY <1>1, <1>4, <1>6, <1>7, <1>8 DEF Takes
-----------------------------------------------------------------------------
(* What a change of a list does to the nodes and their places *)

\* The table after a change of k's list: its nodes, and where they are.
Changed(k, l, new) ==
  /\ chains' \in [Tables -> {chains'[1], chains'[2]}]
  /\ chains'[home] \in [NodeRows -> Seq(Node)]
  /\ NodesAtHome' /\ NodesOnce'
  /\ \A n : n \in Nodes' <=> (n \in Nodes /\ n[1] # k) \/ n \in new
  /\ Len(l) = Len(Chain(k)) => NodePlaces' = NodePlaces
  /\ Len(l) = Len(Chain(k)) + 1 =>
       \E x : x \notin NodePlaces /\ NodePlaces' = NodePlaces \cup {x}
  /\ Len(l) = Len(Chain(k)) - 1 /\ Len(Chain(k)) > 0 =>
       \E x \in NodePlaces : NodePlaces' = NodePlaces \ {x}

LEMMA ChainChanges ==
  ASSUME NodeTypes, NodesAtHome, NodesOnce, NEW k \in NodeKey, NEW l,
         NEW new \in SUBSET Node, \A n \in new : n[1] = k,
         Takes(l, k, new), SetChain(k, l), home' = home
  PROVE  Changed(k, l, new)
<1>1. PICK c \in NodeRows : c = NodeRow(k) /\ Chain(k) = chains[home][c]
  BY NodeRowOf
<1>2. chains' = [chains EXCEPT ![home][c] = l]
  BY <1>1 DEF SetChain, NodeRow
<1>3. chains' \in [Tables -> {chains'[1], chains'[2]}]
  BY <1>2 DEF NodeTypes, Tables
<1>4. chains'[home] = [chains[home] EXCEPT ![c] = l]
  BY <1>2 DEF NodeTypes
<1>5. PICK t, u : t = chains[home] /\ u = chains'[home]
  OBVIOUS
<1>6. t \in [NodeRows -> Seq(Node)] /\ u = [t EXCEPT ![c] = l]
  BY <1>4, <1>5 DEF NodeTypes
<1>7. /\ u \in [NodeRows -> Seq(Node)]
      /\ \A b \in NodeRows : u[b] = IF b = c THEN l ELSE t[b]
  BY <1>6 DEF Takes
<1>8. \A b \in NodeRows : \A i \in 1 .. Len(u[b]) : NodeRow(u[b][i][1]) = b
  BY <1>1, <1>5, <1>7 DEF NodesAtHome, Takes
<1>9. \A b \in NodeRows : \A i, j \in 1 .. Len(u[b]) : u[b][i][1] = u[b][j][1] => i = j
  BY <1>1, <1>5, <1>7 DEF NodesOnce, Takes
<1>10. NodesAtHome' /\ NodesOnce'
  BY <1>5, <1>8, <1>9 DEF NodesAtHome, NodesOnce, NodeRow, NodeRows
<1>11. \A n : n \in Nodes' <=> \E b \in NodeRows : IsIn(u[b], n)
  <2>1. ASSUME NEW n, NEW b \in NodeRows
        PROVE  n \in ToSet(u[b]) <=> IsIn(u[b], n)
    <3>1. u[b] \in Seq(Node)
      BY <1>7
    <3>2. DOMAIN u[b] = 1 .. Len(u[b])
      BY <3>1, LenProperties
    <3> QED
      BY <3>2 DEF ToSet, IsIn
  <2>2. Nodes' = UNION {ToSet(u[b]) : b \in NodeRows}
    BY <1>5, <1>7 DEF Nodes
  <2> QED
    BY <2>1, <2>2
<1>12. ASSUME NEW n
       PROVE  n \in Nodes' <=> (n \in Nodes /\ n[1] # k) \/ n \in new
  <2>1. IsIn(u[c], n) <=> (IsIn(t[c], n) /\ n[1] # k) \/ n \in new
    BY <1>1, <1>5, <1>7 DEF Takes
  <2>2. \A b \in NodeRows \ {c} : IsIn(u[b], n) <=> IsIn(t[b], n)
    BY <1>7
  <2>3. \A b \in NodeRows \ {c} : IsIn(t[b], n) => n[1] # k
    BY <1>1, <1>5 DEF IsIn, NodesAtHome
  <2>4. n \in Nodes <=> \E b \in NodeRows : IsIn(t[b], n)
    BY <1>5, NodesAre
  <2> QED
    BY <1>11, <2>1, <2>2, <2>3, <2>4
<1>13. NodePlaces = PlacesOf(t) /\ NodePlaces' = PlacesOf(u)
  BY <1>5 DEF NodePlaces, PlacesOf
<1>14. Resized(t, u, c, Len(t[c]), Len(u[c]))
  <2>1. IsTable(t, NodeRows) /\ IsTable(u, NodeRows)
    BY <1>6, <1>7, TableIs
  <2> QED
    BY <1>7, <2>1, PlacesChange
<1>15. t[c] = Chain(k) /\ u[c] = l
  BY <1>1, <1>5, <1>7
<1>16. u = chains'[home]
  BY <1>5
<1> QED
  BY <1>3, <1>7, <1>10, <1>12, <1>13, <1>14, <1>15, <1>16 DEF Changed, Resized

-----------------------------------------------------------------------------
(* The memory of the nodes *)

LEMMA Quotient ==
  ASSUME NEW d \in Nat \ {0}, NEW x \in Nat
  PROVE  \E q \in Nat : x = d * q + (x % d) /\ x % d \in 0 .. d - 1
<1>1. x \div d \in Nat /\ x % d \in 0 .. d - 1 /\ x = d * (x \div d) + (x % d)
  OBVIOUS
<1> QED
  BY <1>1

\* The remainder of a sum is that of the sum with the remainder.
LEMMA RemainderOfSum ==
  ASSUME NEW d \in Nat \ {0}, NEW x \in Nat, NEW y \in Int, x + y \in Nat
  PROVE  ((x % d) + y) % d = (x + y) % d
<1>1. PICK q \in Nat : x = d * q + (x % d) /\ x % d \in 0 .. d - 1
  BY Quotient
<1>2. PICK z \in Nat : z = x + y
  OBVIOUS
<1>3. PICK p \in Nat : z = d * p + (z % d) /\ z % d \in 0 .. d - 1
  BY Quotient
<1>4. PICK r \in 0 .. d - 1 : r = z % d
  BY <1>3
<1>5. PICK a \in Int : a = p - q
  OBVIOUS
<1>6. (x % d) + y = d * a + r
  <2>1. PICK u \in Int, w \in Int : u = d * p /\ w = d * q
    OBVIOUS
  <2>2. d * a = u - w
    BY <1>5, <2>1
  <2>3. PICK s \in Int : s = x % d
    BY <1>1
  <2>4. x = w + s /\ z = u + r
    BY <1>1, <1>3, <1>4, <2>1, <2>3
  <2>5. s + y = (u - w) + r
    BY <1>2, <2>4
  <2> QED
    BY <2>2, <2>3, <2>5
<1>7. (d * a + r) % d = r
  BY SMTT(30)
<1> QED
  BY <1>2, <1>4, <1>6, <1>7

BytesOf(N) == UNION {{node} \X (1 .. NodeSize[node[1]] + node[3]) : node \in N}

\* A node more adds its size,
LEMMA BytesAdded ==
  ASSUME NEW N, IsFiniteSet(BytesOf(N)), NEW n, n \notin N, n[1] \in NodeKey, n[3] \in Nat
  PROVE  /\ IsFiniteSet(BytesOf(N \cup {n}))
         /\ Cardinality(BytesOf(N \cup {n})) = Cardinality(BytesOf(N)) + NodeSize[n[1]] + n[3]
<1>0. PICK bulk : bulk = NodeSize[n[1]] /\ bulk \in Nat
  BY LimitAssumption
<1> DEFINE B == {n} \X (1 .. NodeSize[n[1]] + n[3])
<1>1. BytesOf(N \cup {n}) = BytesOf(N) \cup B
  BY DEF BytesOf
<1>2. BytesOf(N) \cap B = {}
  BY DEF BytesOf
<1>3. IsFiniteSet(B) /\ Cardinality(B) = NodeSize[n[1]] + n[3]
  <2>1. IsFiniteSet({n}) /\ Cardinality({n}) = 1
    BY FS_Singleton
  <2>2. PICK m \in Nat : m = NodeSize[n[1]] + n[3]
    BY <1>0
  <2>3. IsFiniteSet(1 .. m) /\ Cardinality(1 .. m) = m
    <3>1. /\ IsFiniteSet(1 .. m)
          /\ Cardinality(1 .. m) = IF 1 > m THEN 0 ELSE m - 1 + 1
      <4>1. 1 \in Int /\ m \in Int
        BY <2>2
      <4> QED
        BY <4>1, FS_Interval, Zenon
    <3> QED
      BY <2>2, <3>1
  <2>4. PICK a, b : a = {n} /\ b = 1 .. m
    OBVIOUS
  <2>5. /\ IsFiniteSet(a) /\ Cardinality(a) = 1
        /\ IsFiniteSet(b) /\ Cardinality(b) = m
    BY <2>1, <2>3, <2>4
  <2>6. IsFiniteSet(a \X b) /\ Cardinality(a \X b) = Cardinality(a) * Cardinality(b)
    BY <2>5, FS_Product
  <2>7. B = a \X b /\ 1 * m = m
    BY <2>2, <2>4
  <2> QED
    BY <2>2, <2>5, <2>6, <2>7
<1>4. Cardinality({}) = 0
  BY FS_EmptySet
<1>5. /\ IsFiniteSet(BytesOf(N) \cup B)
      /\ Cardinality(BytesOf(N) \cup B) = Cardinality(BytesOf(N)) + Cardinality(B) - 0
  BY <1>2, <1>3, <1>4, FS_Union
<1>6. Cardinality(BytesOf(N)) \in Nat
  BY FS_CardinalityType
<1>7. PICK m : m = n[3] /\ m \in Nat
  OBVIOUS
<1> HIDE DEF B
<1>8. Cardinality(BytesOf(N) \cup B) = Cardinality(BytesOf(N)) + NodeSize[n[1]] + m
  BY <1>0, <1>3, <1>5, <1>6, <1>7
<1> QED
  BY <1>1, <1>5, <1>7, <1>8

\* and a node less takes it away.
LEMMA BytesRemoved ==
  ASSUME NEW N, IsFiniteSet(BytesOf(N)), NEW n \in N, n[1] \in NodeKey, n[3] \in Nat
  PROVE  /\ IsFiniteSet(BytesOf(N \ {n}))
         /\ Cardinality(BytesOf(N)) = Cardinality(BytesOf(N \ {n})) + NodeSize[n[1]] + n[3]
<1>1. PICK M : M = N \ {n}
  OBVIOUS
<1>2. n \notin M /\ N = M \cup {n}
  BY <1>1
<1>3. BytesOf(M) \subseteq BytesOf(N)
  BY <1>1 DEF BytesOf
<1>4. IsFiniteSet(BytesOf(M))
  BY <1>3, FS_Subset
<1>5. Cardinality(BytesOf(M \cup {n})) = Cardinality(BytesOf(M)) + NodeSize[n[1]] + n[3]
  BY <1>2, <1>4, BytesAdded
<1> QED
  BY <1>1, <1>2, <1>4, <1>5
-----------------------------------------------------------------------------
(* The invariant is kept *)

\* The rest of the nodes stay; the key has the new node, if any.
NodesBecome(k, new) ==
  \A n : n \in Nodes' <=> (n \in Nodes /\ n[1] # k) \/ n \in new

\* What a search of the table finds.
FindsNodes ==
  \A k \in NodeKey :
    /\ \A n \in Nodes : n[1] = k => Find(k) = n[2]
    /\ (\A n \in Nodes : n[1] # k) => Find(k) = Absent

LEMMA FindFinds ==
  LimitedInv => FindsNodes
<1> SUFFICES ASSUME LimitedInv, NEW k \in NodeKey
             PROVE  /\ \A n \in Nodes : n[1] = k => Find(k) = n[2]
                    /\ (\A n \in Nodes : n[1] # k) => Find(k) = Absent
  BY DEF FindsNodes
<1>1. NodeTypes /\ NodesAtHome /\ NodesOnce
  BY DEF LimitedInv
<1>2. CASE NodeAt(k) = 0
  <2>1. \A n \in Nodes : n[1] # k
    BY <1>1, <1>2, NodeAtIs
  <2> QED
    BY <1>2, <2>1 DEF Find
<1>3. CASE NodeAt(k) # 0
  <2>1. PICK m : m = Chain(k)[NodeAt(k)]
    OBVIOUS
  <2>2. m \in Nodes /\ m[1] = k
    BY <1>1, <1>3, <2>1, NodeAtIs
  <2>3. Find(k) = m[2]
    BY <1>3, <2>1 DEF Find
  <2>4. \A n \in Nodes : n[1] = k => n = m
    BY <1>1, <2>2, NodeUnique
  <2> QED
    BY <2>2, <2>3, <2>4
<1> QED
  BY <1>2, <1>3

\* What a step of key k to value x does to what a search finds.
NodeBecomes(k, x) ==
  \A j \in NodeKey : Find(j)' = IF j = k THEN x ELSE Find(j)

LEMMA FindAfter ==
  ASSUME NEW k \in NodeKey, NEW new, NodesBecome(k, new), FindsNodes, FindsNodes',
         \A n \in new : n[1] = k, NEW x,
         new = {} => x = Absent, \A n \in new : n[2] = x
  PROVE  NodeBecomes(k, x)
<1>1. ASSUME NEW j \in NodeKey \ {k}
      PROVE  Find(j)' = Find(j)
  <2>1. \A n : n[1] = j => (n \in Nodes' <=> n \in Nodes)
    BY DEF NodesBecome
  <2>2. CASE \E n \in Nodes : n[1] = j
    BY <2>1, <2>2 DEF FindsNodes
  <2>3. CASE \A n \in Nodes : n[1] # j
    BY <2>1, <2>3 DEF FindsNodes
  <2> QED
    BY <2>2, <2>3
<1>2. Find(k)' = x
  <2>1. CASE new = {}
    <3>1. \A n \in Nodes' : n[1] # k
      BY <2>1 DEF NodesBecome
    <3> QED
      BY <2>1, <3>1 DEF FindsNodes
  <2>2. CASE new # {}
    <3>1. PICK n \in new : n[1] = k /\ n[2] = x
      BY <2>2
    <3>2. n \in Nodes'
      BY <3>1 DEF NodesBecome
    <3> QED
      BY <3>1, <3>2 DEF FindsNodes
  <2> QED
    BY <2>1, <2>2
<1> QED
  BY <1>1, <1>2 DEF NodeBecomes

\* What size_t counts is a natural number.
LEMMA Counted ==
  ASSUME NEW z \in Int
  PROVE  z % SizeT \in Nat
<1>1. PICK d \in Nat \ {0} : d = SizeT
  BY LimitAssumption
<1>2. z % d \in Nat
  OBVIOUS
<1> QED
  BY <1>1, <1>2

LEMMA RoomsAre ==
  Rooms \subseteq Nat
BY LimitAssumption DEF Rooms

LEMMA ChargesAre ==
  NodeCharges \subseteq Nat /\ \A k \in NodeKey : NodeSize[k] \in Nat
BY RoomsAre, LimitAssumption DEF NodeCharges

\* A key's new value.
LEMMA UpdateNodeSteps ==
  ASSUME LimitedInv, NEW k \in NodeKey, NEW v \in Value, NEW room \in Rooms,
         UpdateNode(k, v, room), UNCHANGED <<limit, home>>
  PROVE  /\ LimitedInv'
         /\ FindsNodes /\ FindsNodes' => NodeBecomes(k, v)
<1>1. NodeTypes /\ NodesAtHome /\ NodesOnce /\ NodesCounted /\ BytesCounted
  BY DEF LimitedInv
<1>2. PICK o : o = Chain(k)[NodeAt(k)]
  OBVIOUS
<1>3. NodeAt(k) # 0 /\ used' = [used EXCEPT ![home] = (@ - o[3] + room) % SizeT]
  BY <1>2 DEF UpdateNode, Charge
<1>4. PICK kept \in RoomKept(o[3], v) :
        /\ SetChain(k, ReplaceAt(Chain(k), NodeAt(k), <<k, v, kept>>))
        /\ exact' = (exact /\ kept = room)
  BY <1>2 DEF UpdateNode
<1>5. o \in Nodes /\ o[1] = k /\ o[3] \in Nat
  BY <1>1, <1>2, <1>3, NodeAtIs, NodeIs
<1>6. kept \in Nat /\ room \in Nat
  BY <1>5, RoomsAre DEF RoomKept
<1>7. PICK e : e = <<k, v, kept>>
  OBVIOUS
<1>8. e \in Node /\ e[1] = k /\ e[2] = v /\ e[3] = kept
  BY <1>6, <1>7 DEF Node
<1>9. PICK l : l = ReplaceAt(Chain(k), NodeAt(k), e)
  OBVIOUS
<1>10. Takes(l, k, {e}) /\ Len(l) = Len(Chain(k))
  BY <1>1, <1>3, <1>8, <1>9, ReplaceTakes
<1>11. Changed(k, l, {e})
  BY <1>1, <1>4, <1>7, <1>8, <1>9, <1>10, ChainChanges
<1>12. NodesBecome(k, {e})
  BY <1>11 DEF Changed, NodesBecome
<1>13. NodeTypes'
  <2>1. used[home] - o[3] + room \in Int
    BY <1>1, <1>5, <1>6 DEF NodeTypes
  <2>2. used' \in [Tables -> Nat]
    BY <1>1, <1>3, <2>1, Counted DEF NodeTypes
  <2>3. exact' \in BOOLEAN
    BY <1>4
  <2> QED
    BY <1>1, <1>11, <2>2, <2>3 DEF NodeTypes, Changed, Tables, NodeRows
<1>14. NodesCounted'
  <2>1. KeysNoded' = KeysNoded
    BY <1>5, <1>8, <1>12 DEF KeysNoded, NodesBecome
  <2>2. NodePlaces' = NodePlaces
    BY <1>10, <1>11 DEF Changed
  <2> QED
    BY <1>1, <2>1, <2>2 DEF NodesCounted
<1>15. BytesCounted'
  <2>1. Nodes' = (Nodes \ {o}) \cup {e}
    <3>1. \A n \in Nodes : n[1] = k <=> n = o
      BY <1>1, <1>5, NodeUnique
    <3>2. \A n : n \in Nodes' <=> n \in (Nodes \ {o}) \cup {e}
      BY <1>12, <3>1 DEF NodesBecome
    <3> QED
      BY <3>2
  <2>2. e \notin Nodes \ {o}
    BY <1>1, <1>5, <1>8, NodeUnique
  <2>3. Bytes = BytesOf(Nodes) /\ Bytes' = BytesOf(Nodes')
    BY DEF Bytes, BytesOf
  <2>0. PICK bulk : bulk = NodeSize[k] /\ bulk \in Nat
    BY ChargesAre
  <2>4. PICK c : c = Cardinality(BytesOf(Nodes \ {o}))
    OBVIOUS
  <2>5. IsFiniteSet(BytesOf(Nodes \ {o})) /\ Memory = c + bulk + o[3]
    BY <1>1, <1>5, <2>0, <2>3, <2>4, BytesRemoved DEF BytesCounted, Memory
  <2>6. IsFiniteSet(Bytes') /\ Memory' = c + bulk + kept
    BY <1>6, <1>8, <2>0, <2>1, <2>2, <2>3, <2>4, <2>5, BytesAdded DEF Memory
  <2>7. ASSUME exact'
        PROVE  used'[home'] = Memory' % SizeT
    <3>1. used[home] = Memory % SizeT /\ kept = room
      BY <1>1, <1>4, <2>7 DEF BytesCounted
    <3>2. c \in Nat
      BY <2>4, <2>5, FS_CardinalityType
    <3>3. PICK y \in Int : y = room - o[3]
      BY <1>5, <1>6
    <3>4. Memory \in Nat /\ Memory' \in Nat /\ Memory + y = Memory'
      BY <1>5, <1>6, <2>0, <2>5, <2>6, <3>1, <3>2, <3>3
    <3>5. ((Memory % SizeT) + y) % SizeT = (Memory + y) % SizeT
      BY <3>4, RemainderOfSum, LimitAssumption
    <3>6. used[home] - o[3] + room = (Memory % SizeT) + y
      BY <1>1, <1>5, <1>6, <3>1, <3>3 DEF NodeTypes
    <3> QED
      BY <1>1, <1>3, <3>4, <3>5, <3>6 DEF NodeTypes
  <2> QED
    BY <2>6, <2>7 DEF BytesCounted
<1>16. FindsNodes /\ FindsNodes' => NodeBecomes(k, v)
  BY <1>8, <1>12, FindAfter
<1> QED
  BY <1>11, <1>13, <1>14, <1>15, <1>16 DEF LimitedInv, Changed

\* A new key.
LEMMA AddNodeSteps ==
  ASSUME LimitedInv, NEW k \in NodeKey, NEW v \in Value, NEW need \in NodeCharges,
         AddNode(k, v, need), UNCHANGED <<limit, home>>
  PROVE  /\ LimitedInv'
         /\ FindsNodes /\ FindsNodes' => NodeBecomes(k, v)
<1>1. NodeTypes /\ NodesAtHome /\ NodesOnce /\ NodesCounted /\ BytesCounted
  BY DEF LimitedInv
<1>2. PICK e : e = <<k, v, Room[v]>>
  OBVIOUS
<1>3. /\ NodeAt(k) = 0 /\ SetChain(k, Cons(e, Chain(k)))
      /\ used' = [used EXCEPT ![home] = (@ - 0 + need) % SizeT]
      /\ exact' = (exact /\ need = NodeSize[k] + Room[v])
  BY <1>2 DEF AddNode, Charge
<1>4. need \in Nat /\ Room[v] \in Nat /\ NodeSize[k] \in Nat
  BY ChargesAre, LimitAssumption
<1>5. e \in Node /\ e[1] = k /\ e[2] = v /\ e[3] = Room[v]
  BY <1>2, <1>4 DEF Node
<1>6. PICK l : l = Cons(e, Chain(k))
  OBVIOUS
<1>7. Takes(l, k, {e}) /\ Len(l) = Len(Chain(k)) + 1
  BY <1>1, <1>3, <1>5, <1>6, ConsTakes
<1>8. Changed(k, l, {e})
  BY <1>1, <1>3, <1>5, <1>6, <1>7, ChainChanges
<1>9. NodesBecome(k, {e})
  BY <1>8 DEF Changed, NodesBecome
<1>10. \A n \in Nodes : n[1] # k
  BY <1>1, <1>3, NodeAtIs
<1>11. NodeTypes'
  <2>1. used[home] - 0 + need \in Int
    BY <1>1, <1>4 DEF NodeTypes
  <2>2. used' \in [Tables -> Nat]
    BY <1>1, <1>3, <2>1, Counted DEF NodeTypes
  <2>3. exact' \in BOOLEAN
    BY <1>3
  <2> QED
    BY <1>1, <1>8, <2>2, <2>3 DEF NodeTypes, Changed, Tables, NodeRows
<1>12. NodesCounted'
  <2>1. KeysNoded' = KeysNoded \cup {k} /\ k \notin KeysNoded
    BY <1>5, <1>9, <1>10 DEF KeysNoded, NodesBecome
  <2>2. PICK x : x \notin NodePlaces /\ NodePlaces' = NodePlaces \cup {x}
    BY <1>7, <1>8 DEF Changed
  <2>3. /\ IsFiniteSet(NodePlaces') /\ Cardinality(NodePlaces') = Cardinality(NodePlaces) + 1
        /\ IsFiniteSet(KeysNoded') /\ Cardinality(KeysNoded') = Cardinality(KeysNoded) + 1
    BY <1>1, <2>1, <2>2, FS_AddElement DEF NodesCounted
  <2> QED
    BY <1>1, <2>3 DEF NodesCounted
<1>13. BytesCounted'
  <2>1. Nodes' = Nodes \cup {e} /\ e \notin Nodes
    <3>1. \A n : n \in Nodes' <=> n \in Nodes \cup {e}
      BY <1>9, <1>10 DEF NodesBecome
    <3> QED
      BY <1>5, <1>10, <3>1
  <2>2. Bytes = BytesOf(Nodes) /\ Bytes' = BytesOf(Nodes')
    BY DEF Bytes, BytesOf
  <2>3. IsFiniteSet(Bytes') /\ Memory' = Memory + NodeSize[k] + Room[v]
    BY <1>1, <1>4, <1>5, <2>1, <2>2, BytesAdded DEF BytesCounted, Memory
  <2>4. ASSUME exact'
        PROVE  used'[home'] = Memory' % SizeT
    <3>1. used[home] = Memory % SizeT /\ need = NodeSize[k] + Room[v]
      BY <1>1, <1>3, <2>4 DEF BytesCounted
    <3>2. Memory \in Nat
      BY <1>1, FS_CardinalityType DEF BytesCounted, Memory
    <3>3. PICK y \in Int : y = need
      BY <1>4
    <3>4. Memory' \in Nat /\ Memory + y = Memory'
      BY <1>4, <2>3, <3>1, <3>2, <3>3
    <3>5. ((Memory % SizeT) + y) % SizeT = (Memory + y) % SizeT
      BY <3>2, <3>4, RemainderOfSum, LimitAssumption
    <3>6. used[home] - 0 + need = (Memory % SizeT) + y
      BY <1>1, <1>4, <3>1, <3>3 DEF NodeTypes
    <3> QED
      BY <1>1, <1>3, <3>4, <3>5, <3>6 DEF NodeTypes
  <2> QED
    BY <2>3, <2>4 DEF BytesCounted
<1>14. FindsNodes /\ FindsNodes' => NodeBecomes(k, v)
  BY <1>5, <1>9, FindAfter
<1> QED
  BY <1>8, <1>11, <1>12, <1>13, <1>14 DEF LimitedInv, Changed

\* An erased key.
LEMMA EraseNodeSteps ==
  ASSUME LimitedInv, NEW k \in NodeKey, EraseNode(k)
  PROVE  /\ LimitedInv'
         /\ FindsNodes /\ FindsNodes' =>
              NodeBecomes(k, Absent) /\ limitedAnswer' = <<"erase", k, Find(k) # Absent>>
<1>1. NodeTypes /\ NodesAtHome /\ NodesOnce /\ NodesCounted /\ BytesCounted
  BY DEF LimitedInv
<1>2. /\ UNCHANGED <<limit, home, exact>>
      /\ limitedAnswer' = <<"erase", k, NodeAt(k) # 0>>
  BY DEF EraseNode
<1>3. CASE NodeAt(k) = 0
  <2>1. UNCHANGED <<chains, used>>
    BY <1>3 DEF EraseNode
  <2>2. LimitedInv'
    BY <1>2, <2>1 DEF LimitedInv, NodeTypes, NodesAtHome, NodesOnce, NodesCounted,
      BytesCounted, KeysNoded, Nodes, NodePlaces, Memory, Bytes, NodeRow, NodeRows
  <2>3. \A j : Find(j)' = Find(j)
    BY <1>2, <2>1 DEF Find, NodeAt, Chain, SelectInSeq
  <2>4. \A n \in Nodes : n[1] # k
    BY <1>1, <1>3, NodeAtIs
  <2>5. FindsNodes => Find(k) = Absent
    BY <2>4 DEF FindsNodes
  <2> QED
    BY <1>2, <1>3, <2>2, <2>3, <2>5 DEF NodeBecomes
<1>4. CASE NodeAt(k) # 0
  <2>1. PICK o : o = Chain(k)[NodeAt(k)]
    OBVIOUS
  <2>2. PICK l : l = RemoveAt(Chain(k), NodeAt(k))
    OBVIOUS
  <2>3. /\ SetChain(k, l)
        /\ used' = [used EXCEPT ![home] = (@ - (NodeSize[k] + o[3]) + 0) % SizeT]
    BY <1>4, <2>1, <2>2 DEF EraseNode, Charge
  <2>4. o \in Nodes /\ o[1] = k /\ o[2] \in Value /\ o[3] \in Nat /\ NodeSize[k] \in Nat
    BY <1>1, <1>4, <2>1, NodeAtIs, NodeIs, ChargesAre
  <2>5. Takes(l, k, {}) /\ Len(l) = Len(Chain(k)) - 1
    BY <1>1, <1>4, <2>2, RemoveTakes
  <2>6. Changed(k, l, {})
    BY <1>1, <1>2, <2>3, <2>5, ChainChanges
  <2>7. NodesBecome(k, {})
    BY <2>6 DEF Changed, NodesBecome
  <2>8. NodeTypes'
    <3>1. used[home] - (NodeSize[k] + o[3]) + 0 \in Int
      BY <1>1, <2>4 DEF NodeTypes
    <3>2. used' \in [Tables -> Nat]
      BY <1>1, <2>3, <3>1, Counted DEF NodeTypes
    <3> QED
      BY <1>1, <1>2, <2>6, <3>2 DEF NodeTypes, Changed, Tables, NodeRows
  <2>9. NodesCounted'
    <3>1. KeysNoded' = KeysNoded \ {k} /\ k \in KeysNoded
      BY <2>4, <2>7 DEF KeysNoded, NodesBecome
    <3>2. Len(Chain(k)) > 0
      BY <1>1, <1>4, NodeAtIs, ChainIs
    <3>3. PICK x \in NodePlaces : NodePlaces' = NodePlaces \ {x}
      BY <2>5, <2>6, <3>2 DEF Changed
    <3>4. /\ IsFiniteSet(NodePlaces') /\ Cardinality(NodePlaces') = Cardinality(NodePlaces) - 1
          /\ IsFiniteSet(KeysNoded') /\ Cardinality(KeysNoded') = Cardinality(KeysNoded) - 1
      BY <1>1, <3>1, <3>3, FS_RemoveElement DEF NodesCounted
    <3> QED
      BY <1>1, <3>4 DEF NodesCounted
  <2>10. BytesCounted'
    <3>1. Nodes' = Nodes \ {o}
      <4>1. \A n \in Nodes : n[1] = k <=> n = o
        BY <1>1, <2>4, NodeUnique
      <4>2. \A n : n \in Nodes' <=> n \in Nodes \ {o}
        BY <2>7, <4>1 DEF NodesBecome
      <4> QED
        BY <4>2
    <3>2. Bytes = BytesOf(Nodes) /\ Bytes' = BytesOf(Nodes')
      BY DEF Bytes, BytesOf
    <3>3. IsFiniteSet(Bytes') /\ Memory = Memory' + NodeSize[k] + o[3]
      BY <1>1, <2>4, <3>1, <3>2, BytesRemoved DEF BytesCounted, Memory
    <3>4. ASSUME exact'
          PROVE  used'[home'] = Memory' % SizeT
      <4>1. used[home] = Memory % SizeT
        BY <1>1, <1>2, <3>4 DEF BytesCounted
      <4>2. Memory \in Nat /\ Memory' \in Nat
        BY <1>1, <3>3, FS_CardinalityType DEF BytesCounted, Memory
      <4>3. PICK y \in Int : y = 0 - (NodeSize[k] + o[3])
        BY <2>4
      <4>4. Memory + y = Memory'
        BY <2>4, <3>3, <4>2, <4>3
      <4>5. ((Memory % SizeT) + y) % SizeT = (Memory + y) % SizeT
        BY <4>2, <4>4, RemainderOfSum, LimitAssumption
      <4>6. used[home] - (NodeSize[k] + o[3]) + 0 = (Memory % SizeT) + y
        BY <1>1, <2>4, <4>1, <4>3 DEF NodeTypes
      <4> QED
        BY <1>1, <1>2, <2>3, <4>4, <4>5, <4>6 DEF NodeTypes
    <3> QED
      BY <3>3, <3>4 DEF BytesCounted
  <2>11. ASSUME FindsNodes, FindsNodes'
         PROVE  NodeBecomes(k, Absent) /\ Find(k) # Absent
    <3>1. NodeBecomes(k, Absent)
      BY <2>7, <2>11, FindAfter
    <3>2. Find(k) # Absent
      BY <2>4, <2>11, KeysAssumption DEF FindsNodes
    <3> QED
      BY <3>1, <3>2
  <2> QED
    BY <1>2, <1>4, <2>6, <2>8, <2>9, <2>10, <2>11 DEF LimitedInv, Changed
<1> QED
  BY <1>3, <1>4

\* A refused key leaves the table as it was, and there was no room for it.
LEMMA RefuseNodeSteps ==
  ASSUME LimitedInv, NEW k \in NodeKey, NEW need \in NodeCharges,
         RefuseNode(k, need), UNCHANGED <<limit, home>>
  PROVE  /\ LimitedInv'
         /\ \A j : Find(j)' = Find(j)
         /\ FindsNodes => Find(k) = Absent
         /\ exact => Memory + need > Limit
<1>1. NodeTypes /\ NodesAtHome /\ BytesCounted
  BY DEF LimitedInv
<1>2. /\ UNCHANGED <<chains, used, exact, limit, home>>
      /\ NodeAt(k) = 0 /\ (used[home] + need) % SizeT > Limit
  BY <1>1, ChargesAre, LimitAssumption DEF RefuseNode, WithinLimit, NodeTypes
<1>3. LimitedInv'
  BY <1>2 DEF LimitedInv, NodeTypes, NodesAtHome, NodesOnce, NodesCounted,
    BytesCounted, KeysNoded, Nodes, NodePlaces, Memory, Bytes, NodeRow, NodeRows
<1>4. \A j : Find(j)' = Find(j)
  BY <1>2 DEF Find, NodeAt, Chain, SelectInSeq
<1>5. FindsNodes => Find(k) = Absent
  BY <1>1, <1>2, NodeAtIs DEF FindsNodes
<1>6. ASSUME exact
      PROVE  Memory + need > Limit
  <2>1. used[home] = Memory % SizeT /\ Memory \in Nat
    BY <1>1, <1>6, FS_CardinalityType DEF BytesCounted, Memory
  <2>2. PICK d \in Nat \ {0} : d = SizeT
    BY LimitAssumption
  <2>3. PICK m \in Nat, y \in Int : m = Memory /\ y = need /\ y \in Nat
    BY <2>1, ChargesAre
  <2>4. m + y \in Nat
    BY <2>3
  <2>5. ((m % d) + y) % d = (m + y) % d
    BY <2>4, RemainderOfSum
  <2>6. PICK z \in Nat : z = m + y
    BY <2>4
  <2>7. z % d <= z
    OBVIOUS
  <2>8. used[home] + need = (m % d) + y
    BY <1>1, <2>1, <2>2, <2>3 DEF NodeTypes
  <2>9. z % d > Limit /\ z % d \in Nat
    BY <1>2, <2>2, <2>5, <2>6, <2>8
  <2>10. z > Limit
    BY <2>7, <2>9, LimitAssumption
  <2> QED
    BY <2>3, <2>6, <2>10
<1> QED
  BY <1>3, <1>4, <1>5, <1>6

\* A move takes the nodes, their account and the limit with it.
LEMMA MoveTableSteps ==
  ASSUME LimitedInv, MoveTable
  PROVE  /\ LimitedInv'
         /\ \A j : Find(j)' = Find(j)
         /\ NodePlaces' = NodePlaces
<1>1. NodeTypes /\ NodesAtHome /\ NodesOnce /\ NodesCounted /\ BytesCounted
  BY DEF LimitedInv
<1>2. home' \in Tables /\ home' # home
  BY <1>1 DEF MoveTable, NodeTypes, Tables
<1>3. /\ chains'[home'] = chains[home] /\ used'[home'] = used[home]
      /\ limit'[home'] = limit[home] /\ exact' = exact
  BY <1>2 DEF MoveTable, Everything
<1>4. NodeTypes'
  <2>1. chains' \in [Tables -> {chains'[1], chains'[2]}]
    BY DEF MoveTable, Tables
  <2>2. used' \in [Tables -> Nat] /\ limit' \in [Tables -> Nat]
    BY <1>1 DEF MoveTable, Everything, NodeTypes
  <2> QED
    BY <1>1, <1>2, <1>3, <2>1, <2>2 DEF NodeTypes, NodeRows, Tables
<1>5. /\ NodesAtHome' /\ NodesOnce' /\ NodesCounted' /\ BytesCounted'
      /\ NodePlaces' = NodePlaces
  BY <1>1, <1>3 DEF NodesAtHome, NodesOnce, NodesCounted, BytesCounted,
    KeysNoded, Nodes, NodePlaces, Memory, Bytes, NodeRow, NodeRows
<1>6. \A j : Find(j)' = Find(j)
  BY <1>3 DEF Find, NodeAt, Chain, SelectInSeq
<1> QED
  BY <1>4, <1>5, <1>6 DEF LimitedInv

\* The constructor's table has no nodes.
LEMMA NoNodesAtFirst ==
  ASSUME LimitedInit
  PROVE  /\ NodeTypes /\ Nodes = {} /\ NodePlaces = {}
         /\ \A b \in NodeRows : 1 .. Len(chains[home][b]) = {}
<1>1. chains[home] = [b \in NodeRows |-> <<>>]
  BY DEF LimitedInit, NodeRows, Tables
<1>2. NodeTypes
  <2>1. <<>> \in Seq(Node)
    BY EmptySeq
  <2>2. chains[home] \in [NodeRows -> Seq(Node)]
    BY <1>1, <2>1
  <2>3. chains \in [Tables -> {chains[1], chains[2]}]
    BY DEF LimitedInit, Tables
  <2>4. used \in [Tables -> Nat] /\ limit \in [Tables -> Nat] /\ limit[home] = Limit
    BY LimitAssumption DEF LimitedInit, Tables
  <2> QED
    BY <2>2, <2>3, <2>4 DEF LimitedInit, NodeTypes, Tables
<1>3. \A b \in NodeRows : 1 .. Len(chains[home][b]) = {}
  BY <1>1, EmptySeq
<1>4. Nodes = {}
  BY <1>2, <1>3, NodesAre DEF IsIn
<1>5. NodePlaces = {}
  <2>1. PICK t : t = chains[home]
    OBVIOUS
  <2>2. t \in [NodeRows -> Seq(Node)]
    BY <1>2, <2>1 DEF NodeTypes
  <2>3. IsTable(t, NodeRows) /\ NodePlaces = PlacesOf(t)
    BY <2>1, <2>2, TableIs DEF NodePlaces, PlacesOf
  <2> QED
    BY <1>3, <2>1, <2>3, PlacesAre
<1> QED
  BY <1>2, <1>3, <1>4, <1>5

LEMMA LimitedInitHolds ==
  LimitedInit => LimitedInv
<1> SUFFICES ASSUME LimitedInit PROVE LimitedInv
  OBVIOUS
<1>1. /\ NodeTypes /\ Nodes = {} /\ NodePlaces = {}
      /\ \A b \in NodeRows : 1 .. Len(chains[home][b]) = {}
  BY NoNodesAtFirst
<1>2. IsFiniteSet({}) /\ Cardinality({}) = 0
  BY FS_EmptySet
<1>3. NodesCounted
  <2>1. KeysNoded = {}
    BY <1>1 DEF KeysNoded
  <2> QED
    BY <1>1, <1>2, <2>1 DEF NodesCounted
<1>4. BytesCounted
  <2>1. Bytes = {}
    BY <1>1 DEF Bytes
  <2>2. 0 % SizeT = 0
    BY LimitAssumption
  <2>3. used[home] = 0
    BY DEF LimitedInit, Tables
  <2> QED
    BY <1>2, <2>1, <2>2, <2>3 DEF BytesCounted, Memory
<1> QED
  BY <1>1, <1>3, <1>4 DEF LimitedInv, NodesAtHome, NodesOnce

\* The invariant is kept by every step.
LEMMA LimitedInvStep ==
  LimitedInv /\ [LimitedNext]_limited => LimitedInv'
<1> SUFFICES ASSUME LimitedInv, [LimitedNext]_limited PROVE LimitedInv'
  OBVIOUS
<1>1. ASSUME NEW k \in NodeKey, InsertNode(k) PROVE LimitedInv'
  <2>1. PICK v \in Value :
          \/ \E room \in Rooms : UpdateNode(k, v, room)
          \/ \E need \in NodeCharges : AddNode(k, v, need) \/ RefuseNode(k, need)
    BY <1>1 DEF InsertNode
  <2>2. UNCHANGED <<limit, home>>
    BY <1>1 DEF InsertNode
  <2> QED
    BY <2>1, <2>2, UpdateNodeSteps, AddNodeSteps, RefuseNodeSteps
<1>2. ASSUME NEW k \in NodeKey, EraseNode(k) PROVE LimitedInv'
  BY <1>2, EraseNodeSteps
<1>3. CASE MoveTable
  BY <1>3, MoveTableSteps
<1>4. CASE UNCHANGED limited
  BY <1>4 DEF limited, LimitedInv, NodeTypes, NodesAtHome, NodesOnce, NodesCounted,
    BytesCounted, KeysNoded, Nodes, NodePlaces, Memory, Bytes, NodeRow, NodeRows
<1> QED
  BY <1>1, <1>2, <1>3, <1>4 DEF LimitedNext

\* The invariant holds for ever.
LEMMA LimitedInvHolds == LimitedSpec => []LimitedInv
  BY LimitedInitHolds, LimitedInvStep, PTL DEF LimitedSpec

\* The nodes fit into memory: size_t can count their bytes.
Addressable == Memory < SizeT

\* While each charge was the room then taken, _memory_used is the memory of the
\* nodes, through insertions, updates, erasures and moves in any order.
THEOREM AccountIsExact == LimitedSpec /\ []Addressable => []AccountExact
<1>1. LimitedInv /\ Addressable => AccountExact
  <2> SUFFICES ASSUME LimitedInv, Addressable, exact
               PROVE  used[home] = Memory
    BY DEF AccountExact
  <2>1. used[home] = Memory % SizeT /\ Memory \in Nat
    BY FS_CardinalityType DEF LimitedInv, BytesCounted, Memory
  <2>2. PICK m \in Nat, d \in Nat \ {0} : m = Memory /\ d = SizeT
    BY <2>1, LimitAssumption
  <2>3. m < d
    BY <2>2 DEF Addressable
  <2>4. m % d = m
    BY <2>3
  <2> QED
    BY <2>1, <2>2, <2>4
<1> QED
  BY <1>1, LimitedInvHolds, PTL

-----------------------------------------------------------------------------
(* Each step is one of the dictionary *)

\* As many nodes as keys that are found.
NodesFound ==
  Cardinality(NodePlaces) = Cardinality({k \in NodeKey : Find(k) # Absent})

LEMMA NodedAreFound ==
  LimitedInv /\ FindsNodes => NodesFound
<1> SUFFICES ASSUME LimitedInv, FindsNodes PROVE NodesFound
  OBVIOUS
<1>1. ASSUME NEW k \in NodeKey
      PROVE  Find(k) # Absent <=> \E n \in Nodes : n[1] = k
  BY NodeIs, KeysAssumption DEF FindsNodes, LimitedInv
<1>2. KeysNoded = {k \in NodeKey : Find(k) # Absent}
  BY <1>1 DEF KeysNoded
<1> QED
  BY <1>2 DEF LimitedInv, NodesCounted, NodesFound

\* Every step is a step of the dictionary, or none.
LEMMA LimitedDictionaryStep ==
  ASSUME LimitedInv, FindsNodes, FindsNodes', NodesFound', [LimitedNext]_limited
  PROVE  [LimitedMap!Next]_<<[k \in NodeKey |-> Find(k)], Cardinality(NodePlaces), limitedAnswer>>
<1> DEFINE contents == [k \in NodeKey |-> Find(k)]
           held == Cardinality(NodePlaces)
<1> SUFFICES LimitedMap!Next \/ UNCHANGED <<contents, held, limitedAnswer>>
  OBVIOUS
<1>1. held' = LimitedMap!Cardinality({k \in NodeKey : contents'[k] # Absent})
  <2>1. held' = Cardinality({k \in NodeKey : Find(k)' # Absent})
    BY DEF NodesFound
  <2>2. \A k \in NodeKey : contents'[k] = Find(k)'
    OBVIOUS
  <2>3. {k \in NodeKey : contents'[k] # Absent} = {k \in NodeKey : Find(k)' # Absent}
    BY <2>2
  <2>4. \A S : LimitedMap!Cardinality(S) = Cardinality(S)
    BY DEF LimitedMap!Cardinality, Cardinality
  <2> QED
    BY <2>1, <2>3, <2>4
<1>2. ASSUME NEW k \in NodeKey, NEW x, NodeBecomes(k, x)
      PROVE  contents' = [contents EXCEPT ![k] = x]
  BY <1>2 DEF NodeBecomes
<1>3. ASSUME NEW k \in NodeKey, InsertNode(k)
      PROVE  (\E v \in Value : LimitedMap!Insert(k, v)) \/ LimitedMap!Refuse(k)
  <2>1. PICK v \in Value :
          \/ \E room \in Rooms : UpdateNode(k, v, room)
          \/ \E need \in NodeCharges : AddNode(k, v, need) \/ RefuseNode(k, need)
    BY <1>3 DEF InsertNode
  <2>2. UNCHANGED <<limit, home>>
    BY <1>3 DEF InsertNode
  <2>3. CASE \/ \E room \in Rooms : UpdateNode(k, v, room)
             \/ \E need \in NodeCharges : AddNode(k, v, need)
    <3>1. contents' = [contents EXCEPT ![k] = v]
      BY <1>2, <2>2, <2>3, UpdateNodeSteps, AddNodeSteps
    <3>2. limitedAnswer' = <<"insert", k, TRUE>>
      BY <2>3 DEF UpdateNode, AddNode
    <3> QED
      BY <3>1, <3>2 DEF LimitedMap!Insert
  <2>4. ASSUME NEW need \in NodeCharges, RefuseNode(k, need)
        PROVE  LimitedMap!Refuse(k)
    <3>1. /\ \A j : Find(j)' = Find(j)
          /\ Find(k) = Absent
          /\ exact => Memory + need > Limit
      BY <2>2, <2>4, RefuseNodeSteps
    <3>2. contents' = contents /\ contents[k] = Absent
      BY <3>1
    <3>3. limitedAnswer' = <<"insert", k, FALSE>>
      BY <2>4 DEF RefuseNode
    <3>4. exact => \E c \in NodeCharges : Memory + c > Limit
      BY <3>1
    <3> HIDE DEF contents
    <3> QED
      BY <3>2, <3>3, <3>4 DEF LimitedMap!Refuse, contents
  <2> QED
    BY <2>1, <2>3, <2>4
<1>4. ASSUME NEW k \in NodeKey, EraseNode(k)
      PROVE  LimitedMap!Erase(k)
  <2>1. contents' = [contents EXCEPT ![k] = Absent]
    BY <1>2, <1>4, EraseNodeSteps
  <2>2. limitedAnswer' = <<"erase", k, contents[k] # Absent>>
    BY <1>4, EraseNodeSteps
  <2> QED
    BY <2>1, <2>2 DEF LimitedMap!Erase
<1>5. CASE \E k \in NodeKey : InsertNode(k) \/ EraseNode(k)
  <2>1. PICK k \in NodeKey : InsertNode(k) \/ EraseNode(k)
    BY <1>5
  <2>2. (\E v \in Value : LimitedMap!Insert(k, v)) \/ LimitedMap!Refuse(k) \/ LimitedMap!Erase(k)
    BY <1>3, <1>4, <2>1
  <2> QED
    BY <1>1, <2>2 DEF LimitedMap!Next
<1>6. CASE MoveTable
  <2>1. (\A k : Find(k)' = Find(k)) /\ held' = held
    BY <1>6, MoveTableSteps
  <2>2. contents' = contents /\ limitedAnswer' = limitedAnswer
    BY <1>6, <2>1 DEF MoveTable
  <2> HIDE DEF contents, held
  <2> QED
    BY <2>1, <2>2
<1>7. CASE UNCHANGED limited
  <2>1. \A k : Find(k)' = Find(k)
    BY <1>7 DEF limited, Find, NodeAt, Chain, SelectInSeq
  <2>2. contents' = contents
    BY <2>1
  <2>3. held' = held /\ limitedAnswer' = limitedAnswer
    BY <1>7 DEF limited, NodePlaces
  <2> HIDE DEF contents, held
  <2> QED
    BY <2>2, <2>3
<1> QED
  BY <1>5, <1>6, <1>7 DEF LimitedNext

\* The table with a memory limit is a dictionary: no key is lost or kept twice
\* by insertions, updates, erasures and moves, and as long as the account is
\* right a key is refused only when the largest node does not fit.
THEOREM LimitedImplements == LimitedSpec => LimitedIsDictionary
<1>1. LimitedInit => LimitedMap!Init
  <2> SUFFICES ASSUME LimitedInit PROVE LimitedMap!Init
    OBVIOUS
  <2>1. FindsNodes /\ Nodes = {} /\ NodePlaces = {}
    BY LimitedInitHolds, FindFinds, NoNodesAtFirst
  <2>2. [k \in NodeKey |-> Find(k)] = [k \in NodeKey |-> Absent]
    BY <2>1 DEF FindsNodes
  <2>3. Cardinality(NodePlaces) = 0
    BY <2>1, FS_EmptySet
  <2> QED
    BY <2>2, <2>3 DEF LimitedInit, LimitedMap!Init
<1>2. LimitedInv /\ FindsNodes /\ FindsNodes' /\ NodesFound' /\ [LimitedNext]_limited
        => [LimitedMap!Next]_<<[k \in NodeKey |-> Find(k)], Cardinality(NodePlaces), limitedAnswer>>
  BY LimitedDictionaryStep
<1> QED
  BY <1>1, <1>2, LimitedInvHolds, FindFinds, NodedAreFound, PTL
  DEF LimitedSpec, LimitedIsDictionary, LimitedMap!Spec
=============================================================================
