------------------------------ MODULE CacheProofs ------------------------------
(***************************************************************************)
(* The caches, for any keys, values and capacities.  LFU: the least        *)
(* frequency is where put looks for a key to evict, and there are never    *)
(* more keys than the capacity.  Both implement Cache, the LFU cache and   *)
(* the LRU cache with time to live.                                        *)
(***************************************************************************)
EXTENDS LFUCache, LRUCache, TableProofs

Freqs == 1 .. MaxFreq

ItemTypes ==
  /\ lists \in [Freqs -> Seq(Key)]
  /\ minFreq \in Freqs
  /\ Stored \subseteq Key
  /\ index \in [Stored -> Value \X Freqs]

\* The list of a frequency has the keys of that frequency,
ListsAreIndex ==
  \A f \in Freqs : \A k : IsIn(lists[f], k) <=> k \in Stored /\ index[k][2] = f

\* each once.
ListsOnce ==
  \A f \in Freqs : \A i, j \in 1 .. Len(lists[f]) : lists[f][i] = lists[f][j] => i = j

\* _min_freq is the frequency of a key, and of no key more than that.
MinFreqInUse ==
  Stored # {} =>
    /\ \E k \in Stored : index[k][2] = minFreq
    /\ \A k \in Stored : minFreq <= index[k][2]

WithinCapacity == IsFiniteSet(Stored) /\ Cardinality(Stored) <= MaxItems

LfuInv == ItemTypes /\ ListsAreIndex /\ ListsOnce /\ MinFreqInUse /\ WithinCapacity

\* A stored key is in the list of its frequency, where the index says.
LEMMA IteratorIs ==
  ASSUME ItemTypes, ListsAreIndex, NEW k \in Stored
  PROVE  /\ index[k][1] \in Value /\ index[k][2] \in Freqs
         /\ Iterator(k) \in 1 .. Len(lists[index[k][2]])
         /\ lists[index[k][2]][Iterator(k)] = k
<1>1. index[k][1] \in Value /\ index[k][2] \in Freqs
  BY DEF ItemTypes
<1> DEFINE I == {i \in 1 .. Len(lists[index[k][2]]) : lists[index[k][2]][i] = k}
<1>2. Iterator(k) = IF I # {} THEN Min(I) ELSE 0
  BY DEF Iterator, SelectInSeq
<1>3. I # {}
  BY <1>1, SMTT(20) DEF ListsAreIndex, IsIn
<1>4. I \in SUBSET Nat
  OBVIOUS
<1>5. I \subseteq 1 .. Len(lists[index[k][2]]) /\ \A i \in I : lists[index[k][2]][i] = k
  OBVIOUS
<1> HIDE DEF I
<1>6. Iterator(k) \in I
  BY <1>2, <1>3, <1>4, LeastElement
<1> QED
  BY <1>1, <1>5, <1>6

\* A list without one of its elements.
LEMMA ListRemoved ==
  ASSUME NEW s \in Seq(Key), \A i, j \in 1 .. Len(s) : s[i] = s[j] => i = j,
         NEW p \in 1 .. Len(s), NEW l, l = RemoveAt(s, p)
  PROVE  /\ l \in Seq(Key)
         /\ \A i, j \in 1 .. Len(l) : l[i] = l[j] => i = j
         /\ \A k : IsIn(l, k) <=> IsIn(s, k) /\ k # s[p]
<1>1. l \in Seq(Key)
  BY Removed
<1>5. PICK from : ComesFrom(from, l, s, p)
  BY RemovedFrom
<1>2. /\ from \in [1 .. Len(l) -> 1 .. Len(s)]
      /\ \A i \in 1 .. Len(l) : from[i] # p /\ l[i] = s[from[i]]
      /\ \A i, j \in 1 .. Len(l) : from[i] = from[j] => i = j
      /\ \A i \in 1 .. Len(s) : i # p => \E j \in 1 .. Len(l) : from[j] = i
  BY <1>5 DEF ComesFrom
<1>3. ASSUME NEW i \in 1 .. Len(l), NEW j \in 1 .. Len(l), l[i] = l[j]
      PROVE  i = j
  <2>1. from[i] \in 1 .. Len(s) /\ from[j] \in 1 .. Len(s) /\ s[from[i]] = s[from[j]]
    BY <1>2, <1>3
  <2>2. from[i] = from[j]
    BY <2>1
  <2> QED
    BY <1>2, <2>2
<1>4. ASSUME NEW k
      PROVE  IsIn(l, k) <=> IsIn(s, k) /\ k # s[p]
  <2>1. ASSUME NEW i \in 1 .. Len(l), l[i] = k
        PROVE  IsIn(s, k) /\ k # s[p]
    <3>1. from[i] \in 1 .. Len(s) /\ from[i] # p /\ s[from[i]] = k
      BY <1>2, <2>1
    <3> QED
      BY <3>1 DEF IsIn
  <2>2. ASSUME NEW i \in 1 .. Len(s), s[i] = k, k # s[p]
        PROVE  IsIn(l, k)
    <3>1. PICK j \in 1 .. Len(l) : from[j] = i
      BY <1>2, <2>2
    <3> QED
      BY <1>2, <2>2, <3>1 DEF IsIn
  <2> QED
    BY <2>1, <2>2 DEF IsIn
<1> QED
  BY <1>1, <1>3, <1>4

\* A list with a new element in front.
LEMMA ListAdded ==
  ASSUME NEW s \in Seq(Key), \A i, j \in 1 .. Len(s) : s[i] = s[j] => i = j,
         NEW e \in Key, ~IsIn(s, e), NEW l, l = Cons(e, s)
  PROVE  /\ l \in Seq(Key)
         /\ \A i, j \in 1 .. Len(l) : l[i] = l[j] => i = j
         /\ \A k : IsIn(l, k) <=> IsIn(s, k) \/ k = e
<1>1. IsCons(l, e, s, Key)
  BY ConsIs
<1>2. Len(s) \in Nat /\ Len(l) = Len(s) + 1 /\ l \in Seq(Key)
  BY <1>1, LenProperties DEF IsCons
<1>3. ASSUME NEW i \in 1 .. Len(l), NEW j \in 1 .. Len(l), l[i] = l[j]
      PROVE  i = j
  <2>1. CASE i = 1 \/ j = 1
    <3>1. \A h \in 1 .. Len(l) : h # 1 => l[h] # e
      BY <1>1 DEF IsCons, IsIn
    <3>2. l[1] = e
      BY <1>1 DEF IsCons
    <3> QED
      BY <1>3, <2>1, <3>1, <3>2
  <2>2. CASE i # 1 /\ j # 1
    <3>1. s[i - 1] = s[j - 1] /\ i - 1 \in 1 .. Len(s) /\ j - 1 \in 1 .. Len(s)
      BY <1>1, <1>3, <2>2 DEF IsCons
    <3>2. PICK a, b : a = i - 1 /\ b = j - 1
      OBVIOUS
    <3>3. a = b
      BY <3>1, <3>2
    <3> QED
      BY <1>2, <3>2, <3>3
  <2> QED
    BY <2>1, <2>2
<1>4. ASSUME NEW k
      PROVE  IsIn(l, k) <=> IsIn(s, k) \/ k = e
  <2>1. ASSUME NEW i \in 1 .. Len(l), l[i] = k
        PROVE  IsIn(s, k) \/ k = e
    BY <1>1, <2>1 DEF IsCons, IsIn
  <2>2. ASSUME NEW i \in 1 .. Len(s), s[i] = k
        PROVE  IsIn(l, k)
    <3>1. i + 1 \in 1 .. Len(l) /\ l[i + 1] = k
      BY <1>1, <1>2, <2>2 DEF IsCons
    <3> QED
      BY <3>1 DEF IsIn
  <2>3. IsIn(l, e)
    BY <1>1, <1>2 DEF IsCons, IsIn
  <2> QED
    BY <2>1, <2>2, <2>3 DEF IsIn
<1> QED
  BY <1>2, <1>3, <1>4

\* The least frequency in use is the one that MinFreqIsLeast names.
LEMMA LeastIs ==
  ASSUME ItemTypes, MinFreqInUse
  PROVE  MinFreqIsLeast
<1> SUFFICES ASSUME Stored # {}
             PROVE  minFreq = Min({index[k][2] : k \in Stored})
  BY DEF MinFreqIsLeast
<1> DEFINE F == {index[k][2] : k \in Stored}
<1>1. F \in SUBSET Nat /\ F # {} /\ minFreq \in F /\ \A f \in F : minFreq <= f
  BY DEF ItemTypes, MinFreqInUse, Freqs
<1> HIDE DEF F
<1>2. Min(F) \in F /\ Min(F) <= minFreq
  BY <1>1, LeastElement
<1>3. minFreq <= Min(F) /\ Min(F) \in Nat /\ minFreq \in Nat
  BY <1>1, <1>2
<1>4. minFreq = Min(F)
  BY <1>2, <1>3
<1> QED
  BY <1>4 DEF F

\* A use of a stored key, by get or put, moves it to the next list.
LEMMA MoveItemKeeps ==
  ASSUME LfuInv, NEW k \in Stored, NEW v \in Value, MoveItem(k, v)
  PROVE  LfuInv'
<1>1. ItemTypes /\ ListsAreIndex /\ ListsOnce /\ MinFreqInUse /\ WithinCapacity
  BY DEF LfuInv
<1>2. PICK f \in Freqs : f = index[k][2]
  BY <1>1, IteratorIs
<1>3. f + 1 \in Freqs /\ f # f + 1
  BY <1>2, ItemsAssumption DEF MoveItem, Freqs
<1>4. PICK s, p, l, m, n :
        s = lists[f] /\ p = Iterator(k) /\ l = RemoveAt(s, p)
        /\ m = lists[f + 1] /\ n = Cons(k, m)
  OBVIOUS
<1>5. /\ s \in Seq(Key) /\ \A i, j \in 1 .. Len(s) : s[i] = s[j] => i = j
      /\ m \in Seq(Key) /\ \A i, j \in 1 .. Len(m) : m[i] = m[j] => i = j
  BY <1>1, <1>3, <1>4 DEF ItemTypes, ListsOnce
<1>6. p \in 1 .. Len(s) /\ s[p] = k
  BY <1>1, <1>2, <1>4, IteratorIs
<1>7. k \in Key /\ ~IsIn(m, k)
  BY <1>1, <1>2, <1>3, <1>4 DEF ItemTypes, ListsAreIndex
<1>8. /\ l \in Seq(Key) /\ \A i, j \in 1 .. Len(l) : l[i] = l[j] => i = j
      /\ \A j : IsIn(l, j) <=> IsIn(s, j) /\ j # k
  BY <1>4, <1>5, <1>6, ListRemoved, SMTT(20)
<1>9. /\ n \in Seq(Key) /\ \A i, j \in 1 .. Len(n) : n[i] = n[j] => i = j
      /\ \A j : IsIn(n, j) <=> IsIn(m, j) \/ j = k
  BY <1>4, <1>5, <1>7, ListAdded
<1>10. /\ lists' \in [Freqs -> Seq(Key)]
       /\ lists'[f] = l /\ lists'[f + 1] = n
       /\ \A g \in Freqs : g # f /\ g # f + 1 => lists'[g] = lists[g]
  <2>1. lists' = [[lists EXCEPT ![f] = l] EXCEPT ![f + 1] = n]
    BY <1>1, <1>2, <1>3, <1>4 DEF MoveItem, ItemTypes
  <2> QED
    BY <1>1, <1>3, <1>8, <1>9, <2>1 DEF ItemTypes
<1>11. /\ Stored' = Stored
       /\ index'[k] = <<v, f + 1>> /\ \A j \in Stored \ {k} : index'[j] = index[j]
       /\ index' \in [Stored -> Value \X Freqs]
  BY <1>1, <1>2, <1>3 DEF MoveItem, ItemTypes, Stored
<1>12. minFreq' = IF l = <<>> /\ minFreq = f THEN f + 1 ELSE minFreq
  BY <1>2, <1>10 DEF MoveItem, NextMin
<1>13. ItemTypes'
  BY <1>1, <1>3, <1>10, <1>11, <1>12 DEF ItemTypes, Freqs
<1>14. ListsAreIndex'
  <2>1. ASSUME NEW g \in Freqs, NEW j
        PROVE  IsIn(lists'[g], j) <=> j \in Stored' /\ index'[j][2] = g
    <3>1. CASE g = f
      <4>1. IsIn(s, j) <=> j \in Stored /\ index[j][2] = f
        BY <1>1, <1>4 DEF ListsAreIndex
      <4>2. IsIn(l, j) <=> j \in Stored /\ index[j][2] = f /\ j # k
        BY <1>8, <4>1
      <4>3. index'[k][2] # f
        BY <1>3, <1>11
      <4>4. j \in Stored \ {k} => index'[j][2] = index[j][2]
        BY <1>11
      <4> QED
        BY <1>10, <1>11, <3>1, <4>2, <4>3, <4>4
    <3>2. CASE g = f + 1
      <4>1. IsIn(m, j) <=> j \in Stored /\ index[j][2] = f + 1
        BY <1>1, <1>3, <1>4 DEF ListsAreIndex
      <4>2. IsIn(n, j) <=> (j \in Stored /\ index[j][2] = f + 1) \/ j = k
        BY <1>9, <4>1
      <4>3. index'[k][2] = f + 1
        BY <1>11
      <4>4. j \in Stored \ {k} => index'[j][2] = index[j][2]
        BY <1>11
      <4> QED
        BY <1>10, <1>11, <3>2, <4>2, <4>3, <4>4
    <3>3. CASE g # f /\ g # f + 1
      <4>1. IsIn(lists[g], j) <=> j \in Stored /\ index[j][2] = g
        BY <1>1 DEF ListsAreIndex
      <4>2. lists'[g] = lists[g]
        BY <1>10, <3>3
      <4>3. index'[k][2] = f + 1 /\ index[k][2] = f
        BY <1>2, <1>11
      <4>4. j \in Stored \ {k} => index'[j][2] = index[j][2]
        BY <1>11
      <4> QED
        BY <1>11, <3>3, <4>1, <4>2, <4>3, <4>4
    <3> QED
      BY <3>1, <3>2, <3>3
  <2> QED
    BY <2>1 DEF ListsAreIndex, IsIn
<1>15. ListsOnce'
  BY <1>1, <1>8, <1>9, <1>10 DEF ListsOnce
<1>16. MinFreqInUse'
  <2>1. index'[k][2] = f + 1 /\ \A j \in Stored \ {k} : index'[j][2] = index[j][2]
    BY <1>11
  <2>2. \A j \in Stored : index[j][2] \in Nat /\ minFreq <= index[j][2]
    BY <1>1 DEF MinFreqInUse, ItemTypes, Freqs
  <2>3. minFreq \in Nat /\ f \in Nat /\ minFreq <= f
    BY <1>1, <1>2, <2>2 DEF ItemTypes, Freqs
  <2>4. CASE minFreq = f /\ l = <<>>
    <3>1. \A j : ~IsIn(l, j)
      BY <2>4, EmptySeq DEF IsIn
    <3>2. \A j \in Stored \ {k} : index[j][2] # f
      BY <1>1, <1>2, <1>4, <1>8, <3>1 DEF ListsAreIndex
    <3>3. \A j \in Stored : minFreq' <= index'[j][2]
      BY <1>12, <2>1, <2>2, <2>3, <2>4, <3>2
    <3> QED
      BY <1>11, <1>12, <2>1, <2>4, <3>3 DEF MinFreqInUse
  <2>5. CASE minFreq = f /\ l # <<>>
    <3>1. PICK j : IsIn(l, j)
      <4>1. Len(l) \in Nat /\ Len(l) # 0
        BY <1>8, <2>5, EmptySeq, LenProperties
      <4> QED
        BY <4>1 DEF IsIn
    <3>2. j \in Stored \ {k} /\ index[j][2] = f
      BY <1>1, <1>2, <1>4, <1>8, <3>1 DEF ListsAreIndex
    <3>3. \A i \in Stored : minFreq' <= index'[i][2]
      BY <1>12, <2>1, <2>2, <2>3, <2>5
    <3> QED
      BY <1>11, <1>12, <2>1, <2>5, <3>2, <3>3 DEF MinFreqInUse
  <2>6. CASE minFreq # f
    <3>1. PICK j \in Stored : index[j][2] = minFreq
      BY <1>1 DEF MinFreqInUse
    <3>2. j # k
      BY <1>2, <2>6, <3>1
    <3>3. \A i \in Stored : minFreq' <= index'[i][2]
      BY <1>12, <2>1, <2>2, <2>3, <2>6
    <3> QED
      BY <1>11, <1>12, <2>1, <2>6, <3>1, <3>2, <3>3 DEF MinFreqInUse
  <2> QED
    BY <2>4, <2>5, <2>6
<1>17. WithinCapacity'
  BY <1>1, <1>11 DEF WithinCapacity
<1> QED
  BY <1>13, <1>14, <1>15, <1>16, <1>17 DEF LfuInv

\* Lists and keys that leave room for a new key.
Leaves(left, kept) ==
  /\ left \in [Freqs -> Seq(Key)]
  /\ \A f \in Freqs : \A i, j \in 1 .. Len(left[f]) : left[f][i] = left[f][j] => i = j
  /\ \A f \in Freqs : \A j : IsIn(left[f], j) <=> j \in kept /\ index[j][2] = f
  /\ kept \subseteq Stored /\ IsFiniteSet(kept) /\ Cardinality(kept) < MaxItems

\* What an eviction leaves, if there has to be one: as _min_freq is in use, the
\* list it takes a key from is there and not empty.
LEMMA EvictedLeaves ==
  ASSUME LfuInv, NEW left, NEW kept,
         left = IF Evicted = 0 THEN lists
                ELSE [lists EXCEPT ![minFreq] = RemoveAt(@, Evicted)],
         kept = IF Evicted = 0 THEN Stored ELSE Stored \ {lists[minFreq][Evicted]}
  PROVE  Leaves(left, kept)
<1>1. ItemTypes /\ ListsAreIndex /\ ListsOnce /\ MinFreqInUse /\ WithinCapacity
  BY DEF LfuInv
<1>2. PICK s : s = lists[minFreq]
  OBVIOUS
<1>3. /\ minFreq \in Freqs /\ s \in Seq(Key)
      /\ \A i, j \in 1 .. Len(s) : s[i] = s[j] => i = j
  BY <1>1, <1>2 DEF ItemTypes, ListsOnce
<1>4. Cardinality(Stored) \in Nat /\ Len(s) \in Nat
  BY <1>1, <1>3, FS_CardinalityType, LenProperties DEF WithinCapacity
<1>5. CASE Cardinality(Stored) < MaxItems
  <2>1. Evicted = 0
    BY <1>4, <1>5, ItemsAssumption DEF Evicted
  <2> QED
    BY <1>1, <1>5, <2>1 DEF Leaves, ItemTypes, ListsAreIndex, ListsOnce, WithinCapacity
<1>6. CASE Cardinality(Stored) >= MaxItems
  <2>1. Stored # {}
    BY <1>6, FS_EmptySet, ItemsAssumption
  <2>2. PICK k \in Stored : index[k][2] = minFreq
    BY <1>1, <2>1 DEF MinFreqInUse
  <2>3. IsIn(s, k)
    BY <1>1, <1>2, <1>3, <2>2 DEF ListsAreIndex
  <2>4. PICK p \in 1 .. Len(s) : p = Len(s) /\ Evicted = p
    BY <1>2, <1>4, <1>6, <2>3 DEF IsIn, Evicted
  <2>5. PICK x : x = s[p]
    OBVIOUS
  <2>6. x \in Stored /\ index[x][2] = minFreq
    BY <1>1, <1>2, <1>3, <2>5 DEF ListsAreIndex, IsIn
  <2>7. PICK l : l = RemoveAt(s, p)
    OBVIOUS
  <2>8. /\ l \in Seq(Key) /\ \A i, j \in 1 .. Len(l) : l[i] = l[j] => i = j
        /\ \A j : IsIn(l, j) <=> IsIn(s, j) /\ j # x
    BY <1>3, <2>5, <2>7, ListRemoved
  <2>9. left = [lists EXCEPT ![minFreq] = l] /\ kept = Stored \ {x}
    BY <1>2, <2>4, <2>5, <2>7
  <2>10. /\ left \in [Freqs -> Seq(Key)]
         /\ \A f \in Freqs : left[f] = IF f = minFreq THEN l ELSE lists[f]
    BY <1>1, <2>8, <2>9 DEF ItemTypes
  <2>11. \A f \in Freqs : \A i, j \in 1 .. Len(left[f]) : left[f][i] = left[f][j] => i = j
    BY <1>1, <2>8, <2>10 DEF ListsOnce
  <2>12. ASSUME NEW f \in Freqs, NEW j
         PROVE  IsIn(left[f], j) <=> j \in kept /\ index[j][2] = f
    <3>1. IsIn(lists[f], j) <=> j \in Stored /\ index[j][2] = f
      BY <1>1 DEF ListsAreIndex
    <3>2. CASE f = minFreq
      BY <1>2, <2>8, <2>9, <2>10, <3>1, <3>2
    <3>3. CASE f # minFreq
      BY <2>6, <2>9, <2>10, <3>1, <3>3
    <3> QED
      BY <3>2, <3>3
  <2>13. IsFiniteSet(kept) /\ Cardinality(kept) = Cardinality(Stored) - 1
    BY <1>1, <2>6, <2>9, FS_RemoveElement DEF WithinCapacity
  <2>14. Cardinality(kept) < MaxItems
    BY <1>1, <1>4, <2>13, ItemsAssumption DEF WithinCapacity
  <2> QED
    BY <2>9, <2>10, <2>11, <2>12, <2>13, <2>14 DEF Leaves
<1> QED
  BY <1>4, <1>5, <1>6, ItemsAssumption

\* A new key is used once, in front of the others used once.
LEMMA StoreItemKeeps ==
  ASSUME LfuInv, NEW k \in Key, NEW v \in Value, StoreItem(k, v)
  PROVE  LfuInv'
<1>1. PICK left, kept :
        /\ left = IF Evicted = 0 THEN lists
                  ELSE [lists EXCEPT ![minFreq] = RemoveAt(@, Evicted)]
        /\ kept = IF Evicted = 0 THEN Stored ELSE Stored \ {lists[minFreq][Evicted]}
  OBVIOUS
<1>2. /\ lists' = [left EXCEPT ![1] = Cons(k, @)]
      /\ index' = [j \in kept \union {k} |-> IF j = k THEN <<v, 1>> ELSE index[j]]
      /\ k \notin Stored /\ minFreq' = 1
  BY <1>1 DEF StoreItem
<1>3. Leaves(left, kept)
  BY <1>1, EvictedLeaves
<1>4. 1 \in Freqs /\ k \notin kept /\ kept \subseteq Stored
  BY <1>2, <1>3, ItemsAssumption DEF Freqs, Leaves
<1>5. PICK s, n : s = left[1] /\ n = Cons(k, s)
  OBVIOUS
<1>6. s \in Seq(Key) /\ (\A i, j \in 1 .. Len(s) : s[i] = s[j] => i = j) /\ ~IsIn(s, k)
  BY <1>3, <1>4, <1>5 DEF Leaves
<1>7. /\ n \in Seq(Key) /\ \A i, j \in 1 .. Len(n) : n[i] = n[j] => i = j
      /\ \A j : IsIn(n, j) <=> IsIn(s, j) \/ j = k
  BY <1>5, <1>6, ListAdded
<1>8. /\ lists' \in [Freqs -> Seq(Key)]
      /\ \A f \in Freqs : lists'[f] = IF f = 1 THEN n ELSE left[f]
  BY <1>2, <1>3, <1>4, <1>5, <1>7 DEF Leaves
<1>9. /\ Stored' = kept \cup {k}
      /\ index'[k] = <<v, 1>> /\ \A j \in kept : index'[j] = index[j]
  BY <1>2, <1>4 DEF Stored
<1>10. ItemTypes'
  <2>1. \A j \in kept : index[j] \in Value \X Freqs /\ j \in Key
    BY <1>4 DEF LfuInv, ItemTypes
  <2>2. index' \in [kept \cup {k} -> Value \X Freqs]
    BY <1>2, <1>4, <2>1
  <2> QED
    BY <1>2, <1>4, <1>8, <1>9, <2>1, <2>2 DEF ItemTypes, Freqs
<1>11. ListsAreIndex'
  <2>1. ASSUME NEW f \in Freqs, NEW j
        PROVE  IsIn(lists'[f], j) <=> j \in Stored' /\ index'[j][2] = f
    <3>1. IsIn(left[f], j) <=> j \in kept /\ index[j][2] = f
      BY <1>3 DEF Leaves
    <3>2. index'[k][2] = 1 /\ (j \in kept => index'[j][2] = index[j][2])
      BY <1>9
    <3>3. CASE f = 1
      BY <1>4, <1>5, <1>7, <1>8, <1>9, <3>1, <3>2, <3>3
    <3>4. CASE f # 1
      BY <1>4, <1>8, <1>9, <3>1, <3>2, <3>4
    <3> QED
      BY <3>3, <3>4
  <2> QED
    BY <2>1 DEF ListsAreIndex, IsIn
<1>12. ListsOnce'
  BY <1>3, <1>7, <1>8 DEF ListsOnce, Leaves
<1>13. MinFreqInUse'
  <2>1. \A j \in Stored' : index'[j][2] \in Freqs
    BY <1>10 DEF ItemTypes, Freqs
  <2>2. \A j \in Stored' : minFreq' <= index'[j][2]
    BY <1>2, <2>1 DEF Freqs
  <2>3. k \in Stored' /\ index'[k][2] = minFreq'
    BY <1>2, <1>9
  <2> QED
    BY <2>2, <2>3 DEF MinFreqInUse
<1>14. WithinCapacity'
  <2>1. IsFiniteSet(kept \cup {k}) /\ Cardinality(kept \cup {k}) = Cardinality(kept) + 1
    BY <1>3, <1>4, FS_AddElement DEF Leaves
  <2>2. Cardinality(kept) \in Nat /\ Cardinality(kept) < MaxItems
    BY <1>3, FS_CardinalityType DEF Leaves
  <2>3. Cardinality(kept) + 1 <= MaxItems
    BY <2>2, ItemsAssumption
  <2> QED
    BY <1>9, <2>1, <2>3 DEF WithinCapacity
<1> QED
  BY <1>10, <1>11, <1>12, <1>13, <1>14 DEF LfuInv

LEMMA LfuInitHolds ==
  LfuInit => LfuInv
<1> SUFFICES ASSUME LfuInit PROVE LfuInv
  OBVIOUS
<1>1. lists = [f \in Freqs |-> <<>>] /\ minFreq = 1 /\ index = <<>>
  BY DEF LfuInit, Freqs
<1>2. Stored = {}
  BY <1>1 DEF Stored
<1>3. ItemTypes
  <2>1. index \in [{} -> Value \X Freqs]
    BY <1>1
  <2>2. 1 \in Freqs
    BY ItemsAssumption DEF Freqs
  <2> QED
    BY <1>1, <1>2, <2>1, <2>2, EmptySeq DEF ItemTypes
<1>4. \A f \in Freqs : 1 .. Len(lists[f]) = {}
  BY <1>1, EmptySeq
<1>5. ListsAreIndex /\ ListsOnce
  BY <1>2, <1>4 DEF ListsAreIndex, ListsOnce, IsIn
<1>6. MinFreqInUse /\ WithinCapacity
  BY <1>2, FS_EmptySet, ItemsAssumption DEF MinFreqInUse, WithinCapacity
<1> QED
  BY <1>3, <1>5, <1>6 DEF LfuInv

\* The invariant is kept by every step.
LEMMA LfuInvStep ==
  LfuInv /\ [LfuNext]_lfu => LfuInv'
<1> SUFFICES ASSUME LfuInv, [LfuNext]_lfu PROVE LfuInv'
  OBVIOUS
<1>1. ASSUME UNCHANGED <<lists, minFreq, index>> PROVE LfuInv'
  BY <1>1 DEF LfuInv, ItemTypes, ListsAreIndex, ListsOnce, MinFreqInUse, WithinCapacity,
    Stored, IsIn
<1>2. ASSUME NEW k \in Key, GetItem(k) PROVE LfuInv'
  <2>1. CASE k \in Stored /\ MoveItem(k, index[k][1])
    BY <2>1, IteratorIs, MoveItemKeeps DEF LfuInv
  <2> QED
    BY <1>1, <1>2, <2>1 DEF GetItem
<1>3. ASSUME NEW k \in Key, NEW v \in Value, PutItem(k, v) PROVE LfuInv'
  BY <1>3, MoveItemKeeps, StoreItemKeeps DEF PutItem, OverwriteItem
<1>4. CASE UNCHANGED lfu
  BY <1>1, <1>4 DEF lfu
<1> QED
  BY <1>2, <1>3, <1>4 DEF LfuNext

LEMMA LfuInvHolds == LfuSpec => []LfuInv
  BY LfuInitHolds, LfuInvStep, PTL DEF LfuSpec

\* put always evicts from the list of the least frequency, which is there,
\* whatever gets, puts and evictions emptied or refilled the lists.
THEOREM LeastIsMinFreq == LfuSpec => []MinFreqIsLeast
<1>1. LfuInv => MinFreqIsLeast
  BY LeastIs DEF LfuInv
<1> QED
  BY <1>1, LfuInvHolds, PTL

\* There are never more keys than the capacity.
THEOREM ItemsWithinCapacity == LfuSpec => []WithinCapacity
<1>1. LfuInv => WithinCapacity
  BY DEF LfuInv
<1> QED
  BY <1>1, LfuInvHolds, PTL

-----------------------------------------------------------------------------
(* The LRU cache: the invariant *)

LruNode == Key \X Value \X Nat

LruTypes == nodes \in Seq(LruNode) /\ lruIndex \subseteq Key

\* The index has the keys of the list,
IndexIsNodes ==
  \A k : k \in lruIndex <=> \E i \in 1 .. Len(nodes) : nodes[i][1] = k

\* each of them once.
Apart(s) == \A i, j \in 1 .. Len(s) : s[i][1] = s[j][1] => i = j

LruInv == LruTypes /\ IndexIsNodes /\ Apart(nodes) /\ Len(nodes) <= MaxNodes

KeysOf(s) == [i \in DOMAIN s |-> s[i][1]]

-----------------------------------------------------------------------------
(* Its list *)

\* What Max chooses from a bounded set.
LEMMA GreatestElement ==
  ASSUME NEW n \in Nat, NEW S \in SUBSET (1 .. n), S # {}
  PROVE  Max(S) \in S /\ \A y \in S : y <= Max(S)
<1> DEFINE T == {n - x : x \in S}
<1>1. T \in SUBSET Nat /\ T # {}
  <2>1. \A x \in S : n - x \in Nat
    OBVIOUS
  <2> QED
    BY <2>1
<1>2. PICK x \in S : n - x = Min(T) /\ \A t \in T : n - x <= t
  <2>1. Min(T) \in T /\ \A t \in T : Min(T) <= t
    BY <1>1, LeastElement
  <2> QED
    BY <2>1
<1>3. ASSUME NEW y \in S PROVE x >= y
  <2>1. n - x <= n - y /\ x \in Nat /\ y \in Nat
    BY <1>2
  <2> QED
    BY <2>1
<1>4. \E z \in S : \A y \in S : z >= y
  BY <1>3
<1>5. Max(S) \in S /\ \A y \in S : Max(S) >= y
  BY <1>4 DEF Max
<1> QED
  BY <1>5

\* Where a key is, if it is anywhere.
LEMMA PlaceOfIs ==
  ASSUME LruTypes, NEW k
  PROVE  /\ PlaceOf(k) = 0 => \A i \in 1 .. Len(nodes) : nodes[i][1] # k
         /\ PlaceOf(k) # 0 => PlaceOf(k) \in 1 .. Len(nodes) /\ nodes[PlaceOf(k)][1] = k
<1> DEFINE I == {i \in 1 .. Len(nodes) : nodes[i][1] = k}
<1>1. PlaceOf(k) = IF I # {} THEN Min(I) ELSE 0
  BY DEF PlaceOf, SelectInSeq
<1>2. I \in SUBSET Nat
  OBVIOUS
<1>3. \A i : i \in I <=> i \in 1 .. Len(nodes) /\ nodes[i][1] = k
  OBVIOUS
<1> HIDE DEF I
<1>4. CASE I = {}
  BY <1>1, <1>3, <1>4
<1>5. CASE I # {}
  <2>1. PlaceOf(k) \in I
    BY <1>1, <1>2, <1>5, LeastElement
  <2> QED
    BY <1>3, <2>1
<1> QED
  BY <1>4, <1>5

LEMMA KeysAre ==
  ASSUME NEW s \in Seq(LruNode)
  PROVE  /\ KeysOf(s) \in Seq(Key) /\ Len(KeysOf(s)) = Len(s)
         /\ \A i \in 1 .. Len(s) : KeysOf(s)[i] = s[i][1]
<1>1. Len(s) \in Nat /\ DOMAIN s = 1 .. Len(s) /\ \A i \in 1 .. Len(s) : s[i] \in LruNode
  BY LenProperties, ElementOfSeq
<1>2. KeysOf(s) \in [1 .. Len(s) -> Key]
  BY <1>1 DEF KeysOf, LruNode
<1>3. KeysOf(s) \in Seq(Key)
  BY <1>1, <1>2
<1>4. Len(KeysOf(s)) = Len(s)
  BY <1>1, <1>2, <1>3, LenProperties
<1> QED
  BY <1>1, <1>3, <1>4 DEF KeysOf

\* A node leaves the list,
LEMMA NodeRemoved ==
  ASSUME NEW s \in Seq(LruNode), Apart(s), NEW k, NEW p \in 1 .. Len(s), s[p][1] = k,
         NEW l, l = RemoveAt(s, p)
  PROVE  /\ l \in Seq(LruNode) /\ Len(l) = Len(s) - 1 /\ Apart(l)
         /\ \A n : IsIn(l, n) <=> IsIn(s, n) /\ n[1] # k
         /\ KeysOf(l) = RemoveAt(KeysOf(s), p)
<1>1. Len(s) \in Nat /\ p \in Nat /\ l \in Seq(LruNode) /\ Len(l) = Len(s) - 1
  BY LenProperties, Removed
<1>2. PICK from : ComesFrom(from, l, s, p)
  BY RemovedFrom
<1>3. /\ \A i \in 1 .. Len(l) : from[i] \in 1 .. Len(s) /\ from[i] # p /\ l[i] = s[from[i]]
      /\ \A i, j \in 1 .. Len(l) : from[i] = from[j] => i = j
      /\ \A i \in 1 .. Len(s) : i # p => \E j \in 1 .. Len(l) : from[j] = i
  BY <1>2 DEF ComesFrom
<1>4. ASSUME NEW i \in 1 .. Len(l), NEW j \in 1 .. Len(l), l[i][1] = l[j][1]
      PROVE  i = j
  <2>1. from[i] = from[j]
    BY <1>3, <1>4 DEF Apart
  <2> QED
    BY <1>3, <2>1
<1>5. ASSUME NEW n
      PROVE  IsIn(l, n) <=> IsIn(s, n) /\ n[1] # k
  <2>1. ASSUME NEW i \in 1 .. Len(l), l[i] = n
        PROVE  IsIn(s, n) /\ n[1] # k
    <3>1. from[i] \in 1 .. Len(s) /\ from[i] # p /\ s[from[i]] = n
      BY <1>3, <2>1
    <3> QED
      BY <3>1 DEF IsIn, Apart
  <2>2. ASSUME NEW i \in 1 .. Len(s), s[i] = n, n[1] # k
        PROVE  IsIn(l, n)
    <3>1. PICK j \in 1 .. Len(l) : from[j] = i
      BY <1>3, <2>2
    <3> QED
      BY <1>3, <2>2, <3>1 DEF IsIn
  <2> QED
    BY <2>1, <2>2 DEF IsIn
<1>6. KeysOf(l) = RemoveAt(KeysOf(s), p)
  <2>1. PICK a, b : a = KeysOf(l) /\ b = RemoveAt(KeysOf(s), p)
    OBVIOUS
  <2>2. PICK q : q = KeysOf(s)
    OBVIOUS
  <2>3. q \in Seq(Key) /\ Len(q) = Len(s) /\ \A i \in 1 .. Len(s) : q[i] = s[i][1]
    BY <2>2, KeysAre
  <2>4. a \in Seq(Key) /\ Len(a) = Len(l) /\ \A i \in 1 .. Len(l) : a[i] = l[i][1]
    BY <1>1, <2>1, KeysAre
  <2>5. p \in 1 .. Len(q) /\ b = RemoveAt(q, p)
    BY <2>1, <2>2, <2>3
  <2>6. /\ b \in Seq(Key) /\ Len(b) = Len(q) - 1
        /\ \A i \in 1 .. Len(q) - 1 : b[i] = IF i < p THEN q[i] ELSE q[i + 1]
    BY <2>3, <2>5, Removed
  <2>7. \A i \in 1 .. Len(l) : l[i] = IF i < p THEN s[i] ELSE s[i + 1]
    BY <1>1, Removed
  <2>8. ASSUME NEW i \in 1 .. Len(l) PROVE a[i] = b[i]
    <3>1. i \in 1 .. Len(q) - 1 /\ a[i] = l[i][1]
      BY <1>1, <2>3, <2>4
    <3>2. CASE i < p
      <4>1. i \in 1 .. Len(s)
        BY <1>1
      <4> QED
        BY <2>3, <2>6, <2>7, <3>1, <3>2, <4>1
    <3>3. CASE ~(i < p)
      <4>1. PICK j \in 1 .. Len(s) : j = i + 1
        BY <1>1
      <4> QED
        BY <2>3, <2>6, <2>7, <3>1, <3>3, <4>1
    <3> QED
      BY <3>2, <3>3
  <2>9. a = b
    BY <1>1, <2>3, <2>4, <2>6, <2>8, SeqEqual
  <2> QED
    BY <2>1, <2>9
<1> QED
  BY <1>1, <1>4, <1>5, <1>6 DEF Apart

\* one comes in front of it,
LEMMA NodeAdded ==
  ASSUME NEW s \in Seq(LruNode), Apart(s), NEW e \in LruNode,
         \A i \in 1 .. Len(s) : s[i][1] # e[1], NEW l, l = Cons(e, s)
  PROVE  /\ l \in Seq(LruNode) /\ Len(l) = Len(s) + 1 /\ Apart(l)
         /\ \A n : IsIn(l, n) <=> IsIn(s, n) \/ n = e
         /\ KeysOf(l) = Cons(e[1], KeysOf(s))
<1>1. IsCons(l, e, s, LruNode)
  BY ConsIs
<1>2. Len(s) \in Nat /\ Len(l) = Len(s) + 1 /\ l \in Seq(LruNode)
  BY <1>1, LenProperties DEF IsCons
<1>3. ASSUME NEW i \in 1 .. Len(l), NEW j \in 1 .. Len(l), l[i][1] = l[j][1]
      PROVE  i = j
  <2>1. CASE i = 1 \/ j = 1
    <3>1. \A h \in 1 .. Len(l) : h # 1 => l[h][1] # e[1]
      BY <1>1 DEF IsCons
    <3>2. l[1] = e
      BY <1>1 DEF IsCons
    <3> QED
      BY <1>3, <2>1, <3>1, <3>2
  <2>2. CASE i # 1 /\ j # 1
    <3>1. PICK a \in 1 .. Len(s), b \in 1 .. Len(s) :
            a = i - 1 /\ b = j - 1 /\ l[i] = s[a] /\ l[j] = s[b]
      BY <1>1, <2>2 DEF IsCons
    <3>2. a = b
      BY <1>3, <3>1 DEF Apart
    <3> QED
      BY <1>2, <3>1, <3>2
  <2> QED
    BY <2>1, <2>2
<1>4. ASSUME NEW n
      PROVE  IsIn(l, n) <=> IsIn(s, n) \/ n = e
  <2>1. ASSUME NEW i \in 1 .. Len(l), l[i] = n
        PROVE  IsIn(s, n) \/ n = e
    BY <1>1, <2>1 DEF IsCons, IsIn
  <2>2. ASSUME NEW i \in 1 .. Len(s), s[i] = n
        PROVE  IsIn(l, n)
    <3>1. i + 1 \in 1 .. Len(l) /\ l[i + 1] = n
      BY <1>1, <1>2, <2>2 DEF IsCons
    <3> QED
      BY <3>1 DEF IsIn
  <2>3. IsIn(l, e)
    BY <1>1, <1>2 DEF IsCons, IsIn
  <2> QED
    BY <2>1, <2>2, <2>3 DEF IsIn
<1>5. KeysOf(l) = Cons(e[1], KeysOf(s))
  <2>1. PICK a, q, b : a = KeysOf(l) /\ q = KeysOf(s) /\ b = Cons(e[1], q)
    OBVIOUS
  <2>2. q \in Seq(Key) /\ Len(q) = Len(s) /\ \A i \in 1 .. Len(s) : q[i] = s[i][1]
    BY <2>1, KeysAre
  <2>3. a \in Seq(Key) /\ Len(a) = Len(l) /\ \A i \in 1 .. Len(l) : a[i] = l[i][1]
    BY <1>2, <2>1, KeysAre
  <2>4. e[1] \in Key
    BY DEF LruNode
  <2>5. IsCons(b, e[1], q, Key)
    BY <2>1, <2>2, <2>4, ConsIs
  <2>6. b \in Seq(Key) /\ Len(b) = Len(l) /\ b[1] = e[1]
    BY <1>2, <2>2, <2>5 DEF IsCons
  <2>7. ASSUME NEW i \in 1 .. Len(l) PROVE a[i] = b[i]
    <3>1. a[i] = l[i][1]
      BY <2>3
    <3>2. CASE i = 1
      BY <1>1, <2>6, <3>1, <3>2 DEF IsCons
    <3>3. CASE i # 1
      <4>1. PICK j \in 1 .. Len(s) : j = i - 1 /\ l[i] = s[j]
        BY <1>1, <3>3 DEF IsCons
      <4>2. i = j + 1
        BY <1>2, <4>1
      <4>3. b[i] = q[j]
        BY <2>2, <2>5, <4>2 DEF IsCons
      <4> QED
        BY <2>2, <3>1, <4>1, <4>3
    <3> QED
      BY <3>2, <3>3
  <2>8. a = b
    BY <2>3, <2>6, <2>7, SeqEqual
  <2> QED
    BY <2>1, <2>8
<1> QED
  BY <1>2, <1>3, <1>4, <1>5 DEF Apart

\* or its end is cut off.
LEMMA NodesCut ==
  ASSUME NEW s \in Seq(LruNode), Apart(s), NEW m \in 0 .. Len(s), NEW l, l = SubSeq(s, 1, m)
  PROVE  /\ l \in Seq(LruNode) /\ Len(l) = m /\ Apart(l)
         /\ \A i \in 1 .. m : l[i] = s[i]
         /\ KeysOf(l) = SubSeq(KeysOf(s), 1, m)
<1>1. Len(s) \in Nat /\ m \in Nat /\ 1 .. m \subseteq 1 .. Len(s)
  BY LenProperties
<1>2. l \in Seq(LruNode) /\ Len(l) = m /\ \A i \in 1 .. m : l[i] = s[i]
  BY <1>1, SubSeqProperties
<1>3. Apart(l)
  BY <1>1, <1>2 DEF Apart
<1>4. PICK a, q, b : a = KeysOf(l) /\ q = KeysOf(s) /\ b = SubSeq(q, 1, m)
  OBVIOUS
<1>5. q \in Seq(Key) /\ Len(q) = Len(s) /\ \A i \in 1 .. Len(s) : q[i] = s[i][1]
  BY <1>4, KeysAre
<1>6. a \in Seq(Key) /\ Len(a) = m /\ \A i \in 1 .. m : a[i] = l[i][1]
  BY <1>2, <1>4, KeysAre
<1>7. b \in Seq(Key) /\ Len(b) = m /\ \A i \in 1 .. m : b[i] = q[i]
  BY <1>1, <1>4, <1>5, SubSeqProperties
<1>8. a = b
  <2>1. ASSUME NEW i \in 1 .. m PROVE a[i] = b[i]
    <3>1. i \in 1 .. Len(s) /\ l[i] = s[i] /\ a[i] = l[i][1] /\ b[i] = q[i]
      BY <1>1, <1>2, <1>6, <1>7
    <3> QED
      BY <1>5, <3>1
  <2> QED
    BY <1>6, <1>7, <2>1, SeqEqual
<1> QED
  BY <1>2, <1>3, <1>4, <1>8

\* A key's node is the one with the key.
NodesRight ==
  /\ \A k \in lruIndex :
       PlaceOf(k) \in 1 .. Len(nodes) /\ NodeOf(k) = nodes[PlaceOf(k)]
       /\ NodeOf(k) \in LruNode /\ NodeOf(k)[1] = k
  /\ \A n : IsIn(nodes, n) => n[1] \in lruIndex /\ NodeOf(n[1]) = n
  /\ \A k : k \notin lruIndex => PlaceOf(k) = 0
  /\ KeysOf(nodes) \in Seq(Key) /\ Len(KeysOf(nodes)) = Len(nodes)
  /\ \A k : k \in lruIndex <=> IsIn(KeysOf(nodes), k)

LEMMA NodeOfIs ==
  LruInv => NodesRight
<1> SUFFICES ASSUME LruInv PROVE NodesRight
  OBVIOUS
<1>1. LruTypes /\ IndexIsNodes /\ Apart(nodes)
  BY DEF LruInv
<1>2. ASSUME NEW k \in lruIndex
      PROVE  PlaceOf(k) \in 1 .. Len(nodes) /\ nodes[PlaceOf(k)][1] = k
  BY <1>1, PlaceOfIs DEF IndexIsNodes
<1>3. ASSUME NEW k \in lruIndex
      PROVE  NodeOf(k) = nodes[PlaceOf(k)] /\ NodeOf(k) \in LruNode /\ NodeOf(k)[1] = k
  BY <1>1, <1>2 DEF NodeOf, LruTypes
<1>4. ASSUME NEW n, IsIn(nodes, n)
      PROVE  n[1] \in lruIndex /\ NodeOf(n[1]) = n
  <2>1. PICK i \in 1 .. Len(nodes) : nodes[i] = n
    BY <1>4 DEF IsIn
  <2>2. n[1] \in lruIndex
    BY <1>1, <2>1 DEF IndexIsNodes
  <2>3. PICK p : p = PlaceOf(n[1])
    OBVIOUS
  <2>4. p \in 1 .. Len(nodes) /\ nodes[p][1] = nodes[i][1]
    BY <1>2, <2>1, <2>2, <2>3
  <2>5. p = i
    BY <1>1, <2>4 DEF Apart
  <2> QED
    BY <2>1, <2>2, <2>3, <2>5 DEF NodeOf
<1>5. ASSUME NEW k, k \notin lruIndex PROVE PlaceOf(k) = 0
  BY <1>1, <1>5, PlaceOfIs DEF IndexIsNodes
<1>6. /\ KeysOf(nodes) \in Seq(Key) /\ Len(KeysOf(nodes)) = Len(nodes)
      /\ \A i \in 1 .. Len(nodes) : KeysOf(nodes)[i] = nodes[i][1]
  BY <1>1, KeysAre DEF LruTypes
<1>7. ASSUME NEW k PROVE k \in lruIndex <=> IsIn(KeysOf(nodes), k)
  BY <1>1, <1>6 DEF IndexIsNodes, IsIn
<1> QED
  BY <1>2, <1>3, <1>4, <1>5, <1>6, <1>7 DEF NodesRight

\* The invariant of a new list, by its elements.
LEMMA InvOfNodes ==
  ASSUME nodes' \in Seq(LruNode), Apart(nodes)', Len(nodes') <= MaxNodes,
         \A k : k \in lruIndex' <=> \E n : IsIn(nodes', n) /\ n[1] = k
  PROVE  LruInv'
<1>1. lruIndex' \subseteq Key
  BY DEF IsIn, LruNode
<1>2. IndexIsNodes'
  BY DEF IndexIsNodes, IsIn
<1> QED
  BY <1>1, <1>2 DEF LruInv, LruTypes

-----------------------------------------------------------------------------
(* Its steps *)

\* Of the other keys a step only leaves some out.
OnlyKey(k) ==
  \A j \in lruIndex' : j # k => j \in lruIndex /\ NodeOf(j)' = NodeOf(j)

\* The node of k has come to the front.
FrontIs(k, node) ==
  /\ NodeOf(k)' = node
  /\ OnlyKey(k)
  /\ KeysOf(nodes)' = Cons(k, RemoveAt(KeysOf(nodes), PlaceOf(k)))
  /\ RemoveAt(KeysOf(nodes), PlaceOf(k)) \in Seq(Key)
  /\ \A j : IsIn(RemoveAt(KeysOf(nodes), PlaceOf(k)), j) <=> j \in lruIndex /\ j # k

LEMMA FrontSteps ==
  ASSUME LruInv, NEW k \in lruIndex, NEW node \in LruNode, node[1] = k,
         ToFront(k, node), UNCHANGED lruIndex
  PROVE  LruInv' /\ (NodesRight' => FrontIs(k, node))
<1>1. LruTypes /\ IndexIsNodes /\ Apart(nodes) /\ NodesRight /\ Len(nodes) <= MaxNodes
  BY NodeOfIs DEF LruInv
<1>2. PICK p, l : p = PlaceOf(k) /\ l = RemoveAt(nodes, p)
  OBVIOUS
<1>3. nodes \in Seq(LruNode) /\ p \in 1 .. Len(nodes) /\ nodes[p][1] = k
  BY <1>1, <1>2 DEF NodesRight, LruTypes
<1>4. /\ l \in Seq(LruNode) /\ Len(l) = Len(nodes) - 1 /\ Apart(l)
      /\ \A n : IsIn(l, n) <=> IsIn(nodes, n) /\ n[1] # k
      /\ KeysOf(l) = RemoveAt(KeysOf(nodes), p)
  BY <1>1, <1>2, <1>3, NodeRemoved
<1>5. PICK m : m = Cons(node, l)
  OBVIOUS
<1>6. nodes' = m
  BY <1>2, <1>5 DEF ToFront
<1>7. \A i \in 1 .. Len(l) : l[i][1] # node[1]
  BY <1>4 DEF IsIn
<1>8. /\ m \in Seq(LruNode) /\ Len(m) = Len(l) + 1 /\ Apart(m)
      /\ \A n : IsIn(m, n) <=> IsIn(l, n) \/ n = node
      /\ KeysOf(m) = Cons(k, KeysOf(l))
  BY <1>4, <1>5, <1>7, NodeAdded
<1>9. Len(nodes) \in Nat /\ Len(m) = Len(nodes)
  BY <1>3, <1>4, <1>8, LenProperties
<1>10. \A j : j \in lruIndex <=> \E n : IsIn(nodes, n) /\ n[1] = j
  BY <1>1 DEF IndexIsNodes, IsIn
<1>11. ASSUME NEW j
       PROVE  j \in lruIndex' <=> \E n : IsIn(m, n) /\ n[1] = j
  <2>1. CASE j = k
    BY <1>8, <2>1
  <2>2. CASE j # k
    BY <1>4, <1>8, <1>10, <2>2
  <2> QED
    BY <2>1, <2>2
<1>12. LruInv'
  BY <1>1, <1>6, <1>8, <1>9, <1>11, InvOfNodes DEF Apart
<1>13. ASSUME NodesRight'
       PROVE  FrontIs(k, node)
  <2>1. NodeOf(k)' = node
    BY <1>6, <1>8, <1>13 DEF NodesRight
  <2>2. ASSUME NEW j \in lruIndex', j # k
        PROVE  j \in lruIndex /\ NodeOf(j)' = NodeOf(j)
    <3>1. PICK n : IsIn(m, n) /\ n[1] = j
      BY <1>11
    <3>2. NodeOf(j)' = n
      BY <1>6, <1>13, <3>1 DEF NodesRight
    <3>3. IsIn(nodes, n)
      BY <1>4, <1>8, <2>2, <3>1
    <3>4. NodeOf(j) = n
      BY <1>1, <3>1, <3>3 DEF NodesRight
    <3> QED
      BY <3>2, <3>4
  <2>3. KeysOf(nodes)' = KeysOf(m)
    BY <1>6 DEF KeysOf
  <2>4. KeysOf(l) \in Seq(Key) /\ Len(KeysOf(l)) = Len(l)
        /\ \A i \in 1 .. Len(l) : KeysOf(l)[i] = l[i][1]
    BY <1>4, KeysAre
  <2>5. ASSUME NEW j
        PROVE  IsIn(KeysOf(l), j) <=> j \in lruIndex /\ j # k
    <3>1. IsIn(KeysOf(l), j) <=> \E n : IsIn(l, n) /\ n[1] = j
      BY <2>4 DEF IsIn
    <3> QED
      BY <1>4, <1>10, <3>1
  <2> QED
    BY <1>2, <1>4, <1>8, <2>1, <2>2, <2>3, <2>4, <2>5 DEF FrontIs, OnlyKey
<1> QED
  BY <1>12, <1>13

\* A key that has expired is erased by get.
LEMMA EraseItemSteps ==
  ASSUME LruInv, NEW k \in lruIndex, EraseItem(k)
  PROVE  /\ LruInv'
         /\ NodesRight' => /\ OnlyKey(k) /\ lruIndex' = lruIndex \ {k}
                           /\ KeysOf(nodes)' = RemoveAt(KeysOf(nodes), PlaceOf(k))
<1>1. LruTypes /\ IndexIsNodes /\ Apart(nodes) /\ NodesRight /\ Len(nodes) <= MaxNodes
  BY NodeOfIs DEF LruInv
<1>2. PICK p, l : p = PlaceOf(k) /\ l = RemoveAt(nodes, p)
  OBVIOUS
<1>3. nodes \in Seq(LruNode) /\ p \in 1 .. Len(nodes) /\ nodes[p][1] = k
  BY <1>1, <1>2 DEF NodesRight, LruTypes
<1>4. /\ l \in Seq(LruNode) /\ Len(l) = Len(nodes) - 1 /\ Apart(l)
      /\ \A n : IsIn(l, n) <=> IsIn(nodes, n) /\ n[1] # k
      /\ KeysOf(l) = RemoveAt(KeysOf(nodes), p)
  BY <1>1, <1>2, <1>3, NodeRemoved
<1>5. nodes' = l /\ lruIndex' = lruIndex \ {k}
  BY <1>2 DEF EraseItem
<1>6. \A j : j \in lruIndex <=> \E n : IsIn(nodes, n) /\ n[1] = j
  BY <1>1 DEF IndexIsNodes, IsIn
<1>7. \A j : j \in lruIndex' <=> \E n : IsIn(l, n) /\ n[1] = j
  BY <1>4, <1>5, <1>6
<1>8. Len(l) <= MaxNodes
  BY <1>1, <1>3, <1>4, LenProperties, NodesAssumption
<1>9. LruInv'
  BY <1>4, <1>5, <1>7, <1>8, InvOfNodes DEF Apart
<1>10. ASSUME NodesRight', NEW j \in lruIndex'
       PROVE  j \in lruIndex /\ NodeOf(j)' = NodeOf(j)
  <2>1. PICK n : IsIn(l, n) /\ n[1] = j
    BY <1>7
  <2>2. NodeOf(j)' = n
    BY <1>5, <1>10, <2>1 DEF NodesRight
  <2>3. NodeOf(j) = n /\ j \in lruIndex
    BY <1>1, <1>4, <2>1 DEF NodesRight
  <2> QED
    BY <2>2, <2>3
<1>11. KeysOf(nodes)' = KeysOf(l)
  BY <1>5 DEF KeysOf
<1> QED
  BY <1>2, <1>4, <1>5, <1>9, <1>10, <1>11 DEF OnlyKey

\* What put keeps before it stores a new key: all but the last m nodes, which
\* have expired or are the last one of a full cache.
KeptIs(m) ==
  /\ m \in 0 .. Len(nodes) /\ m < MaxNodes
  /\ Kept = SubSeq(nodes, 1, m)
  /\ \/ \A i \in m + 1 .. Len(nodes) : Expired(nodes[i])
     \/ (m = Len(nodes) - 1 /\ Len(nodes) = MaxNodes)

LEMMA KeptAre ==
  ASSUME LruInv
  PROVE  \E m : KeptIs(m)
<1> DEFINE I == {i \in 1 .. Len(nodes) : ~Expired(nodes[i])}
           live == IF I # {} THEN Max(I) ELSE 0
           m == Min({live, MaxNodes - 1})
<1>1. Len(nodes) \in Nat /\ Len(nodes) <= MaxNodes /\ MaxNodes \in Nat \ {0}
  BY LenProperties, NodesAssumption DEF LruInv, LruTypes
<1>2. Kept = SubSeq(nodes, 1, m)
  BY DEF Kept, SelectLastInSeq
<1>3. I \in SUBSET (1 .. Len(nodes)) /\ \A i \in 1 .. Len(nodes) : ~Expired(nodes[i]) => i \in I
  OBVIOUS
<1> HIDE DEF I
<1>4. live \in 0 .. Len(nodes) /\ \A i \in I : i <= live
  <2>1. CASE I = {}
    BY <1>1, <2>1
  <2>2. CASE I # {}
    <3>1. Max(I) \in I /\ \A i \in I : i <= Max(I)
      BY <1>1, <1>3, <2>2, GreatestElement
    <3>2. live = Max(I)
      BY <2>2
    <3>3. Max(I) \in 1 .. Len(nodes)
      BY <1>3, <3>1
    <3> HIDE DEF live
    <3> QED
      BY <1>1, <3>1, <3>2, <3>3
  <2> QED
    BY <2>1, <2>2
<1> HIDE DEF live
<1>5. \/ m = live /\ live <= MaxNodes - 1
      \/ m = MaxNodes - 1 /\ MaxNodes - 1 <= live
  <2> DEFINE S == {live, MaxNodes - 1}
  <2>1. S \in SUBSET Nat /\ S # {} /\ live \in S /\ MaxNodes - 1 \in S
    BY <1>1, <1>4
  <2>2. \A y \in S : y = live \/ y = MaxNodes - 1
    OBVIOUS
  <2> HIDE DEF S
  <2>3. Min(S) \in S /\ Min(S) <= live /\ Min(S) <= MaxNodes - 1
    BY <2>1, LeastElement
  <2>4. m = Min(S)
    BY DEF S
  <2> HIDE DEF m
  <2> QED
    BY <2>2, <2>3, <2>4
<1> HIDE DEF m
<1>6. m \in 0 .. Len(nodes) /\ m < MaxNodes
  BY <1>1, <1>4, <1>5
<1>7. CASE m = live
  <2>1. \A i \in m + 1 .. Len(nodes) : Expired(nodes[i])
    BY <1>1, <1>3, <1>4, <1>7
  <2> QED
    BY <1>2, <1>6, <2>1 DEF KeptIs
<1>8. CASE m # live
  <2>1. m = Len(nodes) - 1 /\ Len(nodes) = MaxNodes
    BY <1>1, <1>4, <1>5, <1>8
  <2> QED
    BY <1>2, <1>6, <2>1 DEF KeptIs
<1> QED
  BY <1>7, <1>8

\* The new key is in front of the m kept.
StoredFront(k, node, m) ==
  /\ NodeOf(k)' = node
  /\ OnlyKey(k)
  /\ KeysOf(nodes)' = Cons(k, SubSeq(KeysOf(nodes), 1, m))
  /\ SubSeq(KeysOf(nodes), 1, m) \in Seq(Key) /\ Len(SubSeq(KeysOf(nodes), 1, m)) = m
  /\ \A i \in 1 .. m : SubSeq(KeysOf(nodes), 1, m)[i] = KeysOf(nodes)[i]
  /\ \A j : j \in lruIndex' <=> j = k \/ IsIn(SubSeq(KeysOf(nodes), 1, m), j)

LEMMA StoreSteps ==
  ASSUME LruInv, NEW k \in Key, NEW v \in Value, NEW ttl \in Ttl, Store(k, v, ttl),
         NEW m, KeptIs(m)
  PROVE  LruInv' /\ (NodesRight' => StoredFront(k, <<k, v, ttl>>, m))
<1>1. LruTypes /\ IndexIsNodes /\ Apart(nodes) /\ NodesRight
  BY NodeOfIs DEF LruInv
<1>2. PICK l : l = Kept
  OBVIOUS
<1>3. nodes \in Seq(LruNode) /\ l = SubSeq(nodes, 1, m) /\ m \in 0 .. Len(nodes) /\ m < MaxNodes
  BY <1>1, <1>2 DEF LruTypes, KeptIs
<1>4. /\ l \in Seq(LruNode) /\ Len(l) = m /\ Apart(l)
      /\ \A i \in 1 .. m : l[i] = nodes[i]
      /\ KeysOf(l) = SubSeq(KeysOf(nodes), 1, m)
  BY <1>1, <1>3, NodesCut
<1>5. PICK node : node = <<k, v, ttl>>
  OBVIOUS
<1>6. node \in LruNode /\ node[1] = k
  BY <1>5, NodesAssumption DEF LruNode
<1>7. Len(nodes) \in Nat /\ 1 .. m \subseteq 1 .. Len(nodes)
  BY <1>3, LenProperties
<1>8. \A i \in 1 .. Len(l) : l[i][1] # node[1]
  BY <1>1, <1>4, <1>6, <1>7 DEF Store, IndexIsNodes
<1>9. PICK q : q = Cons(node, l)
  OBVIOUS
<1>10. /\ q \in Seq(LruNode) /\ Len(q) = Len(l) + 1 /\ Apart(q)
       /\ \A n : IsIn(q, n) <=> IsIn(l, n) \/ n = node
       /\ KeysOf(q) = Cons(k, KeysOf(l))
  BY <1>4, <1>6, <1>8, <1>9, NodeAdded
<1>11. nodes' = q
  BY <1>2, <1>5, <1>9 DEF Store
<1>12. DOMAIN l = 1 .. m
  BY <1>4, LenProperties
<1>13. lruIndex' = {k} \union {l[i][1] : i \in DOMAIN l}
  BY <1>2 DEF Store
<1>14. ASSUME NEW j
       PROVE  j \in lruIndex' <=> j = k \/ \E n : IsIn(l, n) /\ n[1] = j
  BY <1>4, <1>12, <1>13 DEF IsIn
<1>15. ASSUME NEW j
       PROVE  j \in lruIndex' <=> \E n : IsIn(q, n) /\ n[1] = j
  BY <1>6, <1>10, <1>14
<1>16. Len(q) <= MaxNodes
  BY <1>3, <1>4, <1>7, <1>10, NodesAssumption
<1>17. LruInv'
  BY <1>10, <1>11, <1>15, <1>16, InvOfNodes DEF Apart
<1>18. ASSUME NodesRight'
       PROVE  StoredFront(k, node, m)
  <2>1. NodeOf(k)' = node
    BY <1>6, <1>10, <1>11, <1>18 DEF NodesRight
  <2>2. ASSUME NEW j \in lruIndex', j # k
        PROVE  j \in lruIndex /\ NodeOf(j)' = NodeOf(j)
    <3>1. PICK n : IsIn(l, n) /\ n[1] = j
      BY <1>14, <2>2
    <3>2. NodeOf(j)' = n
      BY <1>10, <1>11, <1>18, <3>1 DEF NodesRight
    <3>3. IsIn(nodes, n)
      BY <1>4, <1>7, <3>1 DEF IsIn
    <3>4. j \in lruIndex /\ NodeOf(j) = n
      BY <1>1, <3>1, <3>3 DEF NodesRight
    <3> QED
      BY <3>2, <3>4
  <2>3. KeysOf(nodes)' = KeysOf(q)
    BY <1>11 DEF KeysOf
  <2>4. /\ KeysOf(l) \in Seq(Key) /\ Len(KeysOf(l)) = m
        /\ \A i \in 1 .. m : KeysOf(l)[i] = l[i][1]
    BY <1>4, KeysAre
  <2>5. \A i \in 1 .. m : KeysOf(l)[i] = KeysOf(nodes)[i]
    BY <1>3, <1>4, <1>7, <2>4, KeysAre
  <2>6. ASSUME NEW j
        PROVE  IsIn(KeysOf(l), j) <=> \E n : IsIn(l, n) /\ n[1] = j
    BY <1>4, <2>4 DEF IsIn
  <2> QED
    BY <1>4, <1>10, <1>14, <2>1, <2>2, <2>3, <2>4, <2>5, <2>6 DEF StoredFront, OnlyKey
<1> QED
  BY <1>5, <1>17, <1>18

\* As time goes by, keys and values stay as they are.
LEMMA TickSteps ==
  ASSUME LruInv, Tick
  PROVE  /\ LruInv' /\ KeysOf(nodes)' = KeysOf(nodes) /\ lruIndex' = lruIndex
         /\ NodesRight' =>
              \A j \in lruIndex : /\ (NodeOf(j)')[2] = NodeOf(j)[2]
                                  /\ NodeOf(j)[3] = 0 => (NodeOf(j)')[3] = 0
<1>1. LruTypes /\ IndexIsNodes /\ Apart(nodes) /\ NodesRight /\ Len(nodes) <= MaxNodes
  BY NodeOfIs DEF LruInv
<1>2. /\ nodes \in Seq(LruNode) /\ Len(nodes) \in Nat /\ DOMAIN nodes = 1 .. Len(nodes)
      /\ \A i \in 1 .. Len(nodes) : nodes[i] \in LruNode
  BY <1>1, LenProperties, ElementOfSeq DEF LruTypes
<1>3. ASSUME NEW n \in LruNode
      PROVE  /\ Older(n) \in LruNode /\ Older(n)[1] = n[1] /\ Older(n)[2] = n[2]
             /\ n[3] = 0 => Older(n)[3] = 0
  <2>1. CASE n[3] <= 0
    BY <2>1 DEF Older, Expired, LruNode
  <2>2. CASE ~(n[3] <= 0)
    <3>1. n[3] - 1 \in Nat /\ n[1] \in Key /\ n[2] \in Value /\ n[3] # 0
      BY <2>2 DEF LruNode
    <3>2. Older(n) = <<n[1], n[2], n[3] - 1>>
      BY <2>2 DEF Older, Expired
    <3> QED
      BY <3>1, <3>2 DEF LruNode
  <2> QED
    BY <2>1, <2>2
<1>4. nodes' = [i \in 1 .. Len(nodes) |-> Older(nodes[i])] /\ UNCHANGED <<lruIndex, lruAnswer>>
  BY <1>2 DEF Tick
<1>5. nodes' \in [1 .. Len(nodes) -> LruNode]
  BY <1>2, <1>3, <1>4
<1>6. nodes' \in Seq(LruNode)
  BY <1>2, <1>5
<1>7. Len(nodes') = Len(nodes) /\ DOMAIN nodes' = 1 .. Len(nodes)
  BY <1>2, <1>5, <1>6, LenProperties
<1>8. \A i \in 1 .. Len(nodes) : nodes'[i] = Older(nodes[i]) /\ nodes'[i][1] = nodes[i][1]
  BY <1>2, <1>3, <1>4
<1>9. Apart(nodes)'
  BY <1>1, <1>7, <1>8 DEF Apart
<1>10. \A k : k \in lruIndex' <=> \E n : IsIn(nodes', n) /\ n[1] = k
  BY <1>1, <1>4, <1>7, <1>8 DEF IndexIsNodes, IsIn
<1>11. LruInv'
  BY <1>1, <1>6, <1>7, <1>9, <1>10, InvOfNodes
<1>12. KeysOf(nodes)' = KeysOf(nodes)
  BY <1>2, <1>7, <1>8 DEF KeysOf
<1>13. ASSUME NodesRight', NEW j \in lruIndex
       PROVE  NodeOf(j)' = Older(NodeOf(j)) /\ NodeOf(j) \in LruNode
  <2>1. PICK i \in 1 .. Len(nodes) : nodes[i] = NodeOf(j) /\ nodes[i][1] = j
    BY <1>1 DEF NodesRight
  <2>2. IsIn(nodes', nodes'[i]) /\ nodes'[i][1] = j
    BY <1>7, <1>8, <2>1 DEF IsIn
  <2>3. NodeOf(j)' = nodes'[i]
    BY <1>13, <2>2 DEF NodesRight
  <2> QED
    BY <1>1, <1>8, <2>1, <2>3 DEF NodesRight
<1> QED
  BY <1>3, <1>4, <1>11, <1>12, <1>13

LEMMA LruInitHolds ==
  LruInit => LruInv
<1> SUFFICES ASSUME LruInit PROVE LruInv
  OBVIOUS
<1>1. nodes = <<>> /\ lruIndex = {} /\ nodes \in Seq(LruNode) /\ Len(nodes) = 0
  BY EmptySeq DEF LruInit
<1> QED
  BY <1>1, NodesAssumption DEF LruInv, LruTypes, IndexIsNodes, Apart

\* The invariant is kept by every step.
LEMMA LruInvStep ==
  LruInv /\ [LruNext]_lru => LruInv'
<1> SUFFICES ASSUME LruInv, [LruNext]_lru PROVE LruInv'
  OBVIOUS
<1>1. ASSUME UNCHANGED <<nodes, lruIndex>> PROVE LruInv'
  BY <1>1 DEF LruInv, LruTypes, IndexIsNodes, Apart
<1>2. ASSUME NEW k \in lruIndex
      PROVE  k \in Key /\ NodeOf(k) \in LruNode /\ NodeOf(k)[1] = k
  BY NodeOfIs DEF NodesRight, LruInv, LruTypes
<1>3. ASSUME NEW k \in Key, Hit(k) PROVE LruInv'
  BY <1>2, <1>3, FrontSteps DEF Hit, Found
<1>4. ASSUME NEW k \in Key, Miss(k) PROVE LruInv'
  BY <1>1, <1>4, EraseItemSteps DEF Miss
<1>5. ASSUME NEW k \in Key, NEW v \in Value, PutNode(k, v) PROVE LruInv'
  <2>1. PICK ttl \in Ttl : Overwrite(k, v, ttl) \/ Store(k, v, ttl)
    BY <1>5 DEF PutNode
  <2>2. CASE Overwrite(k, v, ttl)
    <3>1. <<k, v, ttl>> \in LruNode
      BY NodesAssumption DEF LruNode
    <3> QED
      BY <2>2, <3>1, FrontSteps DEF Overwrite
  <2>3. CASE Store(k, v, ttl)
    BY <2>3, KeptAre, StoreSteps
  <2> QED
    BY <2>1, <2>2, <2>3
<1>6. CASE Tick
  BY <1>6, TickSteps
<1>7. CASE UNCHANGED lru
  BY <1>1, <1>7 DEF lru
<1> QED
  BY <1>3, <1>4, <1>5, <1>6, <1>7 DEF LruNext

LEMMA LruInvHolds == LruSpec => []LruInv
  BY LruInitHolds, LruInvStep, PTL DEF LruSpec

-----------------------------------------------------------------------------
(* Each of its steps is one of the cache *)

\* The key in front of others that were used as often as it is now.
LEMMA RankIs ==
  ASSUME NEW k \in Key, NEW kept \in Seq(Key),
         KeysOf(nodes)' = Cons(k, kept),
         \A j : IsIn(kept, j) => j \in lruIndex,
         \A j : j \in lruIndex' <=> j = k \/ IsIn(kept, j)
  PROVE  LruCache!Rank(kept, k, 1)
<1> DEFINE usage == [j \in Key |-> IF j \in lruIndex THEN 1 ELSE 0]
           after == [j \in Key |-> IF j \in lruIndex' THEN 1 ELSE 0]
           ahead == {i \in DOMAIN kept : usage[kept[i]] > 1}
<1>1. Len(kept) \in Nat /\ DOMAIN kept = 1 .. Len(kept) /\ \A i \in 1 .. Len(kept) : kept[i] \in Key
  BY LenProperties, ElementOfSeq
<1>2. ahead = {}
  BY <1>1
<1>3. LruCache!Cardinality(ahead) = 0
  <2>1. LruCache!Cardinality(ahead) = Cardinality(ahead)
    BY DEF LruCache!Cardinality, Cardinality
  <2> QED
    BY <1>2, <2>1, FS_EmptySet
<1>4. LruCache!InsertAt(kept, 0 + 1, k) = Cons(k, kept)
  <2>1. SubSeq(kept, 1, 0) = <<>>
    BY <1>1
  <2>2. SubSeq(kept, 1, Len(kept)) = kept
    BY <1>1
  <2>3. <<>> \o <<k>> = <<k>>
    OBVIOUS
  <2>4. LruCache!InsertAt(kept, 0 + 1, k)
          = (SubSeq(kept, 1, 0) \o <<k>>) \o SubSeq(kept, 1, Len(kept))
    BY DEF LruCache!InsertAt
  <2> QED
    BY <2>1, <2>2, <2>3, <2>4 DEF Cons
<1>5. LruCache!Placed(kept, k, 1) = Cons(k, kept)
  BY <1>3, <1>4 DEF LruCache!Placed
<1>6. ASSUME NEW j \in Key
      PROVE  after[j] = IF j = k THEN 1 ELSE IF LruCache!Contains(kept, j) THEN usage[j] ELSE 0
  <2>1. LruCache!Contains(kept, j) <=> IsIn(kept, j)
    BY DEF LruCache!Contains, IsIn
  <2> QED
    BY <2>1
<1>7. after = [j \in Key |->
                 IF j = k THEN 1 ELSE IF LruCache!Contains(kept, j) THEN usage[j] ELSE 0]
  BY <1>6
<1> QED
  BY <1>5, <1>7 DEF LruCache!Rank, KeysOf

\* The order of eviction without a key.
LEMMA OthersIs ==
  ASSUME LruInv, NEW k
  PROVE  LruCache!Others(k) = IF k \in lruIndex THEN RemoveAt(KeysOf(nodes), PlaceOf(k))
                              ELSE KeysOf(nodes)
<1>1. NodesRight /\ nodes \in Seq(LruNode)
  BY NodeOfIs DEF LruInv, LruTypes
<1>2. PICK s : s = KeysOf(nodes)
  OBVIOUS
<1>3. s \in Seq(Key) /\ Len(s) = Len(nodes) /\ \A i \in 1 .. Len(nodes) : s[i] = nodes[i][1]
  BY <1>1, <1>2, KeysAre
<1>4. {i \in 1 .. Len(s) : s[i] = k} = {i \in 1 .. Len(nodes) : nodes[i][1] = k}
  BY <1>3
<1>5. LruCache!SelectInSeq(s, LAMBDA j : j = k) = PlaceOf(k)
  <2> DEFINE I == {i \in 1 .. Len(s) : s[i] = k}
  <2>1. LruCache!SelectInSeq(s, LAMBDA j : j = k) = IF I # {} THEN LruCache!Min(I) ELSE 0
    BY DEF LruCache!SelectInSeq
  <2>2. LruCache!Min(I) = Min(I)
    BY DEF LruCache!Min, Min
  <2>3. PlaceOf(k) = IF I # {} THEN Min(I) ELSE 0
    BY <1>4 DEF PlaceOf, SelectInSeq
  <2> HIDE DEF I
  <2> QED
    BY <2>1, <2>2, <2>3
<1>6. LruCache!Others(k) = RemoveAt(s, PlaceOf(k))
  BY <1>2, <1>5 DEF LruCache!Others, LruCache!RemoveAt, RemoveAt, KeysOf
<1>7. ASSUME k \notin lruIndex
      PROVE  RemoveAt(s, PlaceOf(k)) = s
  <2>1. PlaceOf(k) = 0
    BY <1>1, <1>7 DEF NodesRight
  <2>2. SubSeq(s, 1, 0 - 1) = <<>> /\ SubSeq(s, 0 + 1, Len(s)) = s /\ <<>> \o s = s
    BY <1>3
  <2> QED
    BY <2>1, <2>2 DEF RemoveAt
<1> QED
  BY <1>2, <1>6, <1>7

\* The contents of the cache, and the keys in it that have expired.
Shown == [k \in Key |-> IF k \in lruIndex THEN NodeOf(k)[2] ELSE Absent]

Usage == [k \in Key |-> IF k \in lruIndex THEN 1 ELSE 0]

Gone == {k \in lruIndex : NodeOf(k)[3] = 0}

LEMMA ShownIs ==
  ASSUME LruInv
  PROVE  /\ \A k \in Key : Shown[k] # Absent <=> k \in lruIndex
         /\ \A k \in lruIndex : k \in Key /\ k \in Gone <=> Expired(NodeOf(k))
         /\ lruIndex \subseteq Key
<1>1. NodesRight /\ lruIndex \subseteq Key
  BY NodeOfIs DEF LruInv, LruTypes
<1>2. ASSUME NEW k \in lruIndex
      PROVE  NodeOf(k)[2] \in Value /\ NodeOf(k)[3] \in Nat
  BY <1>1 DEF NodesRight, LruNode
<1>3. ASSUME NEW k \in Key
      PROVE  Shown[k] # Absent <=> k \in lruIndex
  BY <1>2, KeysAssumption DEF Shown
<1>4. ASSUME NEW k \in lruIndex
      PROVE  k \in Key /\ k \in Gone <=> Expired(NodeOf(k))
  BY <1>1, <1>2 DEF Gone, Expired
<1> QED
  BY <1>1, <1>3, <1>4

\* The elements of a sequence of keys.
LEMMA SetIs ==
  ASSUME NEW s \in Seq(Key)
  PROVE  \A k : k \in LruCache!ToSet(s) <=> IsIn(s, k)
<1>1. DOMAIN s = 1 .. Len(s)
  BY LenProperties
<1> QED
  BY <1>1 DEF LruCache!ToSet, IsIn

\* Of the other keys the same are expired as before, and still there.
LEMMA ExpiryIs ==
  ASSUME NodesRight', NEW k, OnlyKey(k)
  PROVE  LruCache!Expiry(k)
<1>1. PICK s : s = KeysOf(nodes)'
  OBVIOUS
<1>2. s \in Seq(Key) /\ \A j : j \in lruIndex' <=> IsIn(s, j)
  BY <1>1 DEF NodesRight
<1>3. LruCache!ToSet(s) = lruIndex'
  BY <1>2, SetIs
<1>4. Gone' \ {k} = (Gone \cap lruIndex') \ {k}
  BY DEF Gone, OnlyKey
<1> QED
  BY <1>1, <1>3, <1>4 DEF LruCache!Expiry, Gone, KeysOf

\* A use of a stored key, by get or put.
LEMMA UseIs ==
  ASSUME LruInv, NEW k \in lruIndex, NEW node, FrontIs(k, node), UNCHANGED lruIndex
  PROVE  LruCache!Use(k)
<1>1. k \in Key
  BY DEF LruInv, LruTypes
<1>2. PICK kept : kept = RemoveAt(KeysOf(nodes), PlaceOf(k))
  OBVIOUS
<1>3. /\ kept \in Seq(Key) /\ KeysOf(nodes)' = Cons(k, kept)
      /\ \A j : IsIn(kept, j) <=> j \in lruIndex /\ j # k
  BY <1>2 DEF FrontIs
<1>4. LruCache!Rank(kept, k, 1)
  BY <1>1, <1>3, RankIs
<1>5. LruCache!Others(k) = kept
  BY <1>2, OthersIs
<1> QED
  BY <1>4, <1>5 DEF LruCache!Use, LruCache!Rank

LEMMA HitIs ==
  ASSUME LruInv, NodesRight', NEW k \in Key, Hit(k)
  PROVE  LruCache!Hit(k)
<1>1. k \in lruIndex /\ ~Expired(NodeOf(k)) /\ UNCHANGED lruIndex
  BY DEF Hit, Found
<1>2. NodesRight /\ NodeOf(k) \in LruNode /\ NodeOf(k)[1] = k
  BY <1>1, NodeOfIs DEF NodesRight
<1>3. FrontIs(k, NodeOf(k))
  BY <1>1, <1>2, FrontSteps DEF Hit
<1>4. \A j \in lruIndex : NodeOf(j)' = NodeOf(j)
  BY <1>1, <1>3 DEF FrontIs, OnlyKey
<1>5. Shown' = Shown /\ Gone' = Gone
  BY <1>1, <1>4 DEF Shown, Gone
<1>6. Shown[k] # Absent /\ k \notin Gone /\ Shown[k] = NodeOf(k)[2]
  BY <1>1, ShownIs DEF Shown
<1>7. lruAnswer' = <<"get", k, Shown[k]>>
  BY <1>6 DEF Hit
<1>8. LruCache!Use(k)
  BY <1>1, <1>3, UseIs
<1> QED
  BY <1>5, <1>6, <1>7, <1>8 DEF LruCache!Hit, Shown, Gone

LEMMA MissIs ==
  ASSUME LruInv, NodesRight', NEW k \in Key, Miss(k)
  PROVE  LruCache!Miss(k)
<1>1. Shown[k] = Absent \/ k \in Gone
  BY ShownIs DEF Miss, Found
<1>2. lruAnswer' = <<"get", k, Absent>>
  BY DEF Miss
<1>3. /\ OnlyKey(k) /\ lruIndex' = lruIndex \ {k}
      /\ KeysOf(nodes)' = LruCache!Others(k)
  <2>1. CASE k \in lruIndex
    BY <2>1, EraseItemSteps, OthersIs DEF Miss
  <2>2. CASE k \notin lruIndex
    <3>1. nodes' = nodes /\ lruIndex' = lruIndex
      BY <2>2 DEF Miss
    <3>2. \A j : NodeOf(j)' = NodeOf(j)
      BY <3>1 DEF NodeOf, PlaceOf, SelectInSeq
    <3> QED
      BY <2>2, <3>1, <3>2, OthersIs DEF OnlyKey, KeysOf
  <2> QED
    BY <2>1, <2>2
<1>4. Shown' = [Shown EXCEPT ![k] = Absent]
  BY <1>3 DEF Shown, OnlyKey
<1>5. Usage' = [Usage EXCEPT ![k] = 0]
  BY <1>3 DEF Usage
<1>6. Gone' = Gone \ {k}
  BY <1>3 DEF Gone, OnlyKey
<1> QED
  BY <1>1, <1>2, <1>3, <1>4, <1>5, <1>6 DEF LruCache!Miss, Shown, Usage, Gone, KeysOf

LEMMA OverwriteIs ==
  ASSUME LruInv, NodesRight', NEW k \in Key, NEW v \in Value, NEW ttl \in Ttl,
         Overwrite(k, v, ttl), lruAnswer' = <<"put", k, v>>
  PROVE  LruCache!Overwrite(k, v)
<1>1. k \in lruIndex /\ UNCHANGED lruIndex
  BY DEF Overwrite
<1>2. PICK node : node = <<k, v, ttl>>
  OBVIOUS
<1>3. node \in LruNode /\ node[1] = k /\ node[2] = v
  BY <1>2, NodesAssumption DEF LruNode
<1>4. FrontIs(k, node)
  BY <1>1, <1>2, <1>3, FrontSteps DEF Overwrite
<1>5. OnlyKey(k) /\ NodeOf(k)' = node
  BY <1>4 DEF FrontIs
<1>6. Shown' = [Shown EXCEPT ![k] = v]
  BY <1>1, <1>3, <1>5 DEF Shown, OnlyKey
<1>7. LruCache!Expiry(k)
  BY <1>5, ExpiryIs
<1>8. LruCache!Use(k) /\ Shown[k] # Absent
  BY <1>1, <1>4, UseIs, ShownIs
<1> QED
  BY <1>6, <1>7, <1>8 DEF LruCache!Overwrite, Shown

LEMMA StoreIs ==
  ASSUME LruInv, NodesRight', NEW k \in Key, NEW v \in Value, NEW ttl \in Ttl,
         Store(k, v, ttl), lruAnswer' = <<"put", k, v>>
  PROVE  LruCache!Store(k, v)
<1>1. k \notin lruIndex
  BY DEF Store
<1>2. PICK m : KeptIs(m)
  BY KeptAre
<1>3. PICK node : node = <<k, v, ttl>>
  OBVIOUS
<1>4. StoredFront(k, node, m) /\ node[2] = v
  BY <1>2, <1>3, StoreSteps
<1>5. PICK s, kept : s = KeysOf(nodes) /\ kept = SubSeq(s, 1, m)
  OBVIOUS
<1>6. /\ NodeOf(k)' = node /\ OnlyKey(k)
      /\ KeysOf(nodes)' = Cons(k, kept)
      /\ kept \in Seq(Key) /\ Len(kept) = m
      /\ \A i \in 1 .. m : kept[i] = s[i]
      /\ \A j : j \in lruIndex' <=> j = k \/ IsIn(kept, j)
  BY <1>4, <1>5 DEF StoredFront
<1>7. /\ NodesRight /\ nodes \in Seq(LruNode)
      /\ s \in Seq(Key) /\ Len(s) = Len(nodes)
      /\ \A i \in 1 .. Len(nodes) : s[i] = nodes[i][1]
      /\ Len(nodes) \in Nat
  BY <1>5, NodeOfIs, KeysAre, LenProperties DEF LruInv, LruTypes
<1>8. /\ m \in 0 .. Len(s) /\ m < MaxNodes
      /\ \/ \A i \in m + 1 .. Len(s) : Expired(nodes[i])
         \/ m = Len(s) - 1 /\ Len(s) = MaxNodes
  BY <1>2, <1>7 DEF KeptIs
<1>9. \A j : j \in lruIndex <=> IsIn(s, j)
  BY <1>5, <1>7 DEF NodesRight
<1>10. \A j : IsIn(kept, j) => j \in lruIndex
  BY <1>6, <1>7, <1>8, <1>9 DEF IsIn
<1>11. LruCache!Rank(kept, k, 1)
  BY <1>6, <1>10, RankIs
<1>12. PICK n : n = Len(s) - m
  OBVIOUS
<1>13. n \in 0 .. Len(s) /\ Len(s) - n = m
  BY <1>7, <1>8, <1>12
<1>14. \/ LruCache!ToSet(s) \ LruCache!ToSet(kept) \subseteq Gone
       \/ n = 1 /\ Len(s) = MaxNodes
  <2>1. CASE \A i \in m + 1 .. Len(s) : Expired(nodes[i])
    <3>1. ASSUME NEW j, IsIn(s, j), ~IsIn(kept, j)
          PROVE  j \in Gone
      <4>1. PICK i \in 1 .. Len(s) : s[i] = j
        BY <3>1 DEF IsIn
      <4>2. ~(i \in 1 .. m)
        BY <1>6, <3>1, <4>1 DEF IsIn
      <4>3. Expired(nodes[i]) /\ nodes[i][1] = j
        BY <1>7, <1>8, <2>1, <4>1, <4>2
      <4>4. j \in lruIndex /\ NodeOf(j) = nodes[i]
        BY <1>7, <4>1, <4>3 DEF NodesRight, IsIn
      <4> QED
        BY <4>3, <4>4, ShownIs
    <3> QED
      BY <1>6, <1>7, <3>1, SetIs
  <2>2. CASE m = Len(s) - 1 /\ Len(s) = MaxNodes
    BY <1>7, <1>12, <2>2
  <2> QED
    BY <1>8, <2>1, <2>2
<1>15. Shown' = [j \in Key |->
                   IF j = k THEN v ELSE IF Usage'[j] > 0 THEN Shown[j] ELSE Absent]
  <2>1. ASSUME NEW j \in Key
        PROVE  Shown'[j] = IF j = k THEN v ELSE IF Usage'[j] > 0 THEN Shown[j] ELSE Absent
    BY <1>4, <1>6 DEF Shown, Usage, OnlyKey
  <2>2. Shown' = [j \in Key |-> Shown'[j]]
    BY DEF Shown
  <2> QED
    BY <2>1, <2>2
<1>16. LruCache!Expiry(k)
  BY <1>6, ExpiryIs
<1>17. Shown[k] = Absent
  BY <1>1, ShownIs
<1>18. \E h \in 0 .. Len(KeysOf(nodes)) :
         LET rest == SubSeq(KeysOf(nodes), 1, Len(KeysOf(nodes)) - h)
         IN  /\ Len(rest) < MaxNodes
             /\ \/ LruCache!ToSet(KeysOf(nodes)) \ LruCache!ToSet(rest) \subseteq Gone
                \/ h = 1 /\ Len(KeysOf(nodes)) = MaxNodes
             /\ LruCache!Rank(rest, k, 1)
  <2>1. Len(kept) < MaxNodes
    BY <1>6, <1>8
  <2>2. SubSeq(KeysOf(nodes), 1, Len(KeysOf(nodes)) - n) = kept
    BY <1>5, <1>13
  <2>3. LruCache!Rank(SubSeq(KeysOf(nodes), 1, Len(KeysOf(nodes)) - n), k, 1)
    BY <1>11, <2>2 DEF LruCache!Rank
  <2> QED
    BY <1>5, <1>13, <1>14, <2>1, <2>2, <2>3
<1> QED
  BY <1>15, <1>16, <1>17, <1>18 DEF LruCache!Store, Shown, Usage, Gone, KeysOf

LEMMA TickIs ==
  ASSUME LruInv, NodesRight', Tick
  PROVE  LruCache!Expire
<1>1. /\ LruInv' /\ KeysOf(nodes)' = KeysOf(nodes) /\ lruIndex' = lruIndex
      /\ \A j \in lruIndex : /\ (NodeOf(j)')[2] = NodeOf(j)[2]
                             /\ NodeOf(j)[3] = 0 => (NodeOf(j)')[3] = 0
  BY TickSteps
<1>2. Shown' = Shown /\ Usage' = Usage /\ UNCHANGED lruAnswer
  BY <1>1 DEF Shown, Usage, Tick
<1>3. Gone \subseteq Gone'
  BY <1>1 DEF Gone
<1>4. Gone' \subseteq LruCache!ToSet(KeysOf(nodes))
  <2>1. PICK s : s = KeysOf(nodes)
    OBVIOUS
  <2>2. s \in Seq(Key) /\ \A j : j \in lruIndex <=> IsIn(s, j)
    BY <2>1, NodeOfIs DEF NodesRight
  <2>3. Gone' \subseteq lruIndex
    BY <1>1 DEF Gone
  <2> QED
    BY <2>1, <2>2, <2>3, SetIs
<1> QED
  BY <1>1, <1>2, <1>3, <1>4 DEF LruCache!Expire, Shown, Usage, Gone, KeysOf

\* Every step is a step of the cache, or none.
LEMMA LruCacheStep ==
  ASSUME LruInv, NodesRight', [LruNext]_lru
  PROVE  [LruCache!Next]_<<Shown, KeysOf(nodes), Usage, Gone, lruAnswer>>
<1>1. CASE \E k \in Key : Hit(k) \/ Miss(k) \/ \E v \in Value : PutNode(k, v)
  <2>1. PICK k \in Key : Hit(k) \/ Miss(k) \/ \E v \in Value : PutNode(k, v)
    BY <1>1
  <2>2. ASSUME NEW v \in Value, PutNode(k, v)
        PROVE  LruCache!Overwrite(k, v) \/ LruCache!Store(k, v)
    BY <2>2, OverwriteIs, StoreIs DEF PutNode
  <2> QED
    BY <2>1, <2>2, HitIs, MissIs DEF LruCache!Next
<1>2. CASE Tick
  BY <1>2, TickIs DEF LruCache!Next
<1>3. CASE UNCHANGED lru
  <2>1. nodes' = nodes /\ lruIndex' = lruIndex /\ lruAnswer' = lruAnswer
    BY <1>3 DEF lru
  <2>2. \A j : NodeOf(j)' = NodeOf(j)
    BY <2>1 DEF NodeOf, PlaceOf, SelectInSeq
  <2> QED
    BY <2>1, <2>2 DEF Shown, Usage, Gone, KeysOf
<1> QED
  BY <1>1, <1>2, <1>3 DEF LruNext

\* The LRU cache with time to live is a cache: no expired value is found, and
\* a live one goes only when the cache is full, the one whose last use is
\* longest ago, however gets, puts and the clock mix.
THEOREM LruImplements == LruSpec => LruIsCache
<1>1. LruInit => LruCache!Init
  <2> SUFFICES ASSUME LruInit PROVE LruCache!Init
    OBVIOUS
  <2>1. nodes = <<>> /\ lruIndex = {} /\ lruAnswer = <<>>
    BY DEF LruInit
  <2>2. KeysOf(nodes) = <<>>
    BY <2>1 DEF KeysOf
  <2> QED
    BY <2>1, <2>2 DEF LruCache!Init, KeysOf
<1>2. LruInv /\ NodesRight' /\ [LruNext]_lru
        => [LruCache!Next]_<<Shown, KeysOf(nodes), Usage, Gone, lruAnswer>>
  BY LruCacheStep
<1> QED
  BY <1>1, <1>2, LruInvHolds, NodeOfIs, PTL
  DEF LruSpec, LruIsCache, LruCache!Spec, Shown, Usage, Gone, KeysOf

-----------------------------------------------------------------------------
(* The LFU cache implements the cache: sequences in an order *)

SortedBy(s, R) == \A i, j \in 1 .. Len(s) : i < j => <<s[i], s[j]>> \in R

\* All of a goes before all of b.
Ahead(a, b, R) == \A i \in 1 .. Len(a), j \in 1 .. Len(b) : <<a[i], b[j]>> \in R

\* There is one way only to put a set in an order.
LEMMA OneOrder ==
  ASSUME NEW S, NEW R, \A a, b : <<a, b>> \in R => <<b, a>> \notin R,
         NEW s \in Seq(S), NEW t \in Seq(S), SortedBy(s, R), SortedBy(t, R),
         \A k : IsIn(s, k) <=> IsIn(t, k)
  PROVE  s = t
<1>1. Len(s) \in Nat /\ Len(t) \in Nat
  BY LenProperties
<1>2. ASSUME NEW i \in 1 .. Len(s), NEW j \in 1 .. Len(s), s[i] = s[j]
      PROVE  i = j
  <2>1. \A a : <<a, a>> \notin R
    OBVIOUS
  <2>2. ~(i < j) /\ ~(j < i)
    BY <1>2, <2>1 DEF SortedBy
  <2> QED
    BY <2>2
<1>3. ASSUME NEW i \in 1 .. Len(t), NEW j \in 1 .. Len(t), t[i] = t[j]
      PROVE  i = j
  <2>1. \A a : <<a, a>> \notin R
    OBVIOUS
  <2>2. ~(i < j) /\ ~(j < i)
    BY <1>3, <2>1 DEF SortedBy
  <2> QED
    BY <2>2
<1> DEFINE D == {i \in 1 .. Len(s) : i \in 1 .. Len(t) /\ s[i] # t[i]}
<1>4. D = {}
  <2> SUFFICES ASSUME D # {} PROVE FALSE
    OBVIOUS
  <2>1. D \in SUBSET Nat
    OBVIOUS
  <2>2. PICK d \in D : \A i \in D : d <= i
    BY <2>1, LeastElement
  <2>3. d \in 1 .. Len(s) /\ d \in 1 .. Len(t) /\ s[d] # t[d]
    OBVIOUS
  <2>4. PICK j \in 1 .. Len(t) : t[j] = s[d]
    BY <2>3 DEF IsIn
  <2>5. PICK i \in 1 .. Len(s) : s[i] = t[d]
    BY <2>3 DEF IsIn
  <2>6. \A h \in 1 .. d - 1 : h \in 1 .. Len(s) /\ h \in 1 .. Len(t) /\ s[h] = t[h]
    BY <1>1, <2>2, <2>3
  <2>7. d < j
    <3>1. ~(j \in 1 .. d - 1)
      BY <1>2, <2>3, <2>4, <2>6
    <3> QED
      BY <2>3, <2>4, <3>1
  <2>8. d < i
    <3>1. ~(i \in 1 .. d - 1)
      BY <1>3, <2>3, <2>5, <2>6
    <3> QED
      BY <2>3, <2>5, <3>1
  <2>9. <<s[d], t[d]>> \in R
    BY <2>3, <2>5, <2>8 DEF SortedBy
  <2>10. <<t[d], s[d]>> \in R
    BY <2>3, <2>4, <2>7 DEF SortedBy
  <2> QED
    BY <2>9, <2>10
<1>5. \A i \in 1 .. Len(s) : i \in 1 .. Len(t) => s[i] = t[i]
  BY <1>4
<1>6. ~(Len(s) < Len(t))
  <2> SUFFICES ASSUME Len(s) < Len(t) PROVE FALSE
    OBVIOUS
  <2>1. PICK n \in 1 .. Len(t) : n = Len(s) + 1
    BY <1>1
  <2>2. PICK j \in 1 .. Len(s) : s[j] = t[n]
    BY <2>1 DEF IsIn
  <2>3. j \in 1 .. Len(t) /\ j # n
    BY <1>1, <2>1
  <2> QED
    BY <1>3, <1>5, <2>2, <2>3
<1>7. ~(Len(t) < Len(s))
  <2> SUFFICES ASSUME Len(t) < Len(s) PROVE FALSE
    OBVIOUS
  <2>1. PICK n \in 1 .. Len(s) : n = Len(t) + 1
    BY <1>1
  <2>2. PICK j \in 1 .. Len(t) : t[j] = s[n]
    BY <2>1 DEF IsIn
  <2>3. j \in 1 .. Len(s) /\ j # n
    BY <1>1, <2>1
  <2> QED
    BY <1>2, <1>5, <2>2, <2>3
<1>8. Len(s) = Len(t)
  BY <1>1, <1>6, <1>7
<1> QED
  BY <1>5, <1>8, SeqEqual

\* Two pieces in order, the one before the other.
IsJoin(c, a, b, S, R) ==
  /\ c \in Seq(S) /\ Len(c) = Len(a) + Len(b) /\ SortedBy(c, R)
  /\ \A k : IsIn(c, k) <=> IsIn(a, k) \/ IsIn(b, k)

LEMMA Joined ==
  ASSUME NEW S, NEW R, NEW a \in Seq(S), NEW b \in Seq(S), SortedBy(a, R), SortedBy(b, R),
         Ahead(a, b, R)
  PROVE  IsJoin(a \o b, a, b, S, R)
<1>0. PICK c : c = a \o b
  OBVIOUS
<1>1. PICK m \in Nat, n \in Nat : m = Len(a) /\ n = Len(b)
  BY LenProperties
<1>2. /\ c \in Seq(S) /\ Len(c) = Len(a) + Len(b)
      /\ \A i \in 1 .. Len(a) + Len(b) : c[i] = IF i <= Len(a) THEN a[i] ELSE b[i - Len(a)]
  BY <1>0, ConcatProperties
<1>3. Len(c) = m + n /\ \A i \in 1 .. m + n : c[i] = IF i <= m THEN a[i] ELSE b[i - m]
  BY <1>1, <1>2
<1>4. \A i \in 1 .. m : i \in 1 .. m + n /\ c[i] = a[i]
  <2>1. \A i \in 1 .. m : i \in 1 .. m + n /\ i <= m
    BY <1>1
  <2> QED
    BY <1>3, <2>1
<1>5. \A j \in 1 .. n : j + m \in 1 .. m + n /\ c[j + m] = b[j]
  BY <1>3
<1>6. \A i \in 1 .. m + n : i \in 1 .. m \/ \E j \in 1 .. n : i = j + m
  <2>1. ASSUME NEW i \in 1 .. m + n, ~(i \in 1 .. m)
        PROVE  i - m \in 1 .. n /\ i = (i - m) + m
    BY <2>1
  <2> QED
    BY <2>1
<1>7. ASSUME NEW x \in 1 .. m + n, NEW y \in 1 .. m + n, x < y
      PROVE  <<c[x], c[y]>> \in R
  <2>1. CASE x \in 1 .. m /\ y \in 1 .. m
    BY <1>1, <1>4, <1>7, <2>1 DEF SortedBy
  <2>2. CASE x \in 1 .. m /\ ~(y \in 1 .. m)
    <3>1. PICK j \in 1 .. n : y = j + m
      BY <1>6, <2>2
    <3> QED
      BY <1>1, <1>4, <1>5, <2>2, <3>1 DEF Ahead
  <2>3. CASE ~(x \in 1 .. m)
    <3>1. PICK i \in 1 .. n : x = i + m
      BY <1>6, <2>3
    <3>2. ~(y \in 1 .. m)
      BY <1>7, <2>3
    <3>3. PICK j \in 1 .. n : y = j + m
      BY <1>6, <3>2
    <3>4. i < j
      BY <1>7, <3>1, <3>3
    <3> QED
      BY <1>1, <1>5, <3>1, <3>3, <3>4 DEF SortedBy
  <2> QED
    BY <2>1, <2>2, <2>3
<1>8. ASSUME NEW k
      PROVE  IsIn(c, k) <=> IsIn(a, k) \/ IsIn(b, k)
  <2>1. ASSUME NEW x \in 1 .. m + n, c[x] = k
        PROVE  IsIn(a, k) \/ IsIn(b, k)
    <3>1. CASE x \in 1 .. m
      BY <1>1, <1>4, <2>1, <3>1 DEF IsIn
    <3>2. CASE ~(x \in 1 .. m)
      <4>1. PICK j \in 1 .. n : x = j + m
        BY <1>6, <3>2
      <4> QED
        BY <1>1, <1>5, <2>1, <4>1 DEF IsIn
    <3> QED
      BY <3>1, <3>2
  <2>2. ASSUME NEW i \in 1 .. m, a[i] = k PROVE IsIn(c, k)
    BY <1>3, <1>4, <2>2 DEF IsIn
  <2>3. ASSUME NEW j \in 1 .. n, b[j] = k PROVE IsIn(c, k)
    BY <1>3, <1>5, <2>3 DEF IsIn
  <2> QED
    BY <1>1, <1>3, <2>1, <2>2, <2>3 DEF IsIn
<1> QED
  BY <1>0, <1>1, <1>2, <1>3, <1>7, <1>8 DEF SortedBy, IsJoin

\* A sequence in order cut in two.
Cut(s, S, R, m, a, b) ==
         /\ a \in Seq(S) /\ Len(a) = m /\ SortedBy(a, R) /\ \A i \in 1 .. m : a[i] = s[i]
         /\ b \in Seq(S) /\ Len(b) = Len(s) - m /\ SortedBy(b, R)
         /\ \A i \in 1 .. Len(s) - m : b[i] = s[i + m]
LEMMA PartSorted ==
  ASSUME NEW S, NEW R, NEW s \in Seq(S), SortedBy(s, R), NEW m \in 0 .. Len(s)
  PROVE  Cut(s, S, R, m, SubSeq(s, 1, m), SubSeq(s, m + 1, Len(s)))
<1>0. PICK a, b : a = SubSeq(s, 1, m) /\ b = SubSeq(s, m + 1, Len(s))
  OBVIOUS
<1>1. Len(s) \in Nat /\ m \in Nat
  BY LenProperties
<1>2. a \in Seq(S) /\ Len(a) = m /\ \A i \in 1 .. m : a[i] = s[i]
  BY <1>0, <1>1, SubSeqProperties
<1>3. b \in Seq(S) /\ Len(b) = Len(s) - m /\ \A i \in 1 .. Len(s) - m : b[i] = s[i + m]
  BY <1>0, <1>1, SubSeqProperties
<1>4. SortedBy(a, R)
  <2>1. \A i \in 1 .. m : i \in 1 .. Len(s)
    BY <1>1
  <2> QED
    BY <1>2, <2>1 DEF SortedBy
<1>5. SortedBy(b, R)
  <2>1. ASSUME NEW i \in 1 .. Len(s) - m, NEW j \in 1 .. Len(s) - m, i < j
        PROVE  i + m \in 1 .. Len(s) /\ j + m \in 1 .. Len(s) /\ i + m < j + m
    BY <1>1, <2>1
  <2> QED
    BY <1>3, <2>1 DEF SortedBy
<1> QED
  BY <1>0, <1>2, <1>3, <1>4, <1>5 DEF Cut

\* A new element in its place: behind the c elements that go before it.
GoesAt(s, c, k, R) ==
  /\ c \in 0 .. Len(s)
  /\ \A i \in 1 .. c : <<s[i], k>> \in R
  /\ \A i \in c + 1 .. Len(s) : <<k, s[i]>> \in R

IsInsertion(t, s, k, S, R) ==
  /\ t \in Seq(S) /\ SortedBy(t, R)
  /\ \A j : IsIn(t, j) <=> IsIn(s, j) \/ j = k

LEMMA InsertedSorted ==
  ASSUME NEW S, NEW R, NEW s \in Seq(S), SortedBy(s, R), NEW k \in S, NEW c, GoesAt(s, c, k, R),
         NEW t, t = SubSeq(s, 1, c) \o <<k>> \o SubSeq(s, c + 1, Len(s))
  PROVE  IsInsertion(t, s, k, S, R)
<1>0. /\ c \in 0 .. Len(s)
      /\ \A i \in 1 .. c : <<s[i], k>> \in R
      /\ \A i \in c + 1 .. Len(s) : <<k, s[i]>> \in R
  BY DEF GoesAt
<1>1. Len(s) \in Nat /\ c \in Nat
  BY <1>0, LenProperties
<1>2. PICK a, b, e : /\ a = SubSeq(s, 1, c) /\ b = SubSeq(s, c + 1, Len(s))
                     /\ e = <<k>>
  OBVIOUS
<1>3. /\ a \in Seq(S) /\ Len(a) = c /\ SortedBy(a, R) /\ \A i \in 1 .. c : a[i] = s[i]
      /\ b \in Seq(S) /\ Len(b) = Len(s) - c /\ SortedBy(b, R)
      /\ \A i \in 1 .. Len(s) - c : b[i] = s[i + c]
  <2>1. Cut(s, S, R, c, SubSeq(s, 1, c), SubSeq(s, c + 1, Len(s)))
    BY <1>0, PartSorted
  <2> QED
    BY <1>2, <2>1 DEF Cut
<1>4. e \in Seq(S) /\ Len(e) = 1 /\ e[1] = k
  BY <1>2
<1>5. SortedBy(e, R)
  BY <1>4 DEF SortedBy
<1>6. PICK d : d = a \o e
  OBVIOUS
<1>7. Ahead(a, e, R)
  <2>1. \A j \in 1 .. Len(e) : j = 1 /\ e[j] = k
    BY <1>4
  <2>2. \A i \in 1 .. Len(a) : <<a[i], k>> \in R
    BY <1>0, <1>3
  <2> QED
    BY <2>1, <2>2 DEF Ahead
<1>8. /\ d \in Seq(S) /\ Len(d) = c + 1 /\ SortedBy(d, R)
      /\ \A j : IsIn(d, j) <=> IsIn(a, j) \/ IsIn(e, j)
  <2>1. a \in Seq(S) /\ SortedBy(a, R) /\ e \in Seq(S) /\ Len(a) = c /\ Len(e) = 1
    BY <1>3, <1>4
  <2>2. /\ d \in Seq(S) /\ Len(d) = Len(a) + Len(e) /\ SortedBy(d, R)
        /\ \A j : IsIn(d, j) <=> IsIn(a, j) \/ IsIn(e, j)
    <3>1. IsJoin(a \o e, a, e, S, R)
      BY <1>3, <1>5, <1>7, <2>1, Joined
    <3> QED
      BY <1>6, <3>1 DEF IsJoin
  <2> QED
    BY <2>1, <2>2
<1>16. \A i \in 1 .. c + 1 : d[i] = IF i <= c THEN a[i] ELSE e[i - c]
  <2>1. /\ a \in Seq(S) /\ e \in Seq(S) /\ Len(a) = c /\ Len(e) = 1
    BY <1>3, <1>4
  <2>2. \A i \in 1 .. Len(a) + Len(e) : d[i] = IF i <= Len(a) THEN a[i] ELSE e[i - Len(a)]
    BY <1>6, <2>1, ConcatProperties
  <2> QED
    BY <2>1, <2>2
<1>9. \A i \in 1 .. c : d[i] = s[i]
  BY <1>1, <1>3, <1>16
<1>10. d[c + 1] = k
  <2>1. PICK i \in 1 .. c + 1 : i = c + 1
    BY <1>1
  <2>2. d[i] = e[i - c]
    BY <1>1, <1>16, <2>1
  <2>3. i - c = 1
    BY <1>1, <2>1
  <2> QED
    BY <1>4, <2>1, <2>2, <2>3
<1>11. ASSUME NEW i \in 1 .. Len(d), NEW j \in 1 .. Len(b)
       PROVE  <<d[i], b[j]>> \in R
  <2>1. PICK h \in c + 1 .. Len(s) : h = j + c /\ b[j] = s[h]
    BY <1>1, <1>3
  <2>2. CASE i = c + 1
    BY <1>0, <1>10, <2>1, <2>2
  <2>3. CASE i # c + 1
    <3>1. i \in 1 .. c /\ i \in 1 .. Len(s) /\ h \in 1 .. Len(s) /\ i < h
      BY <1>0, <1>1, <1>8, <2>1, <2>3
    <3> QED
      BY <1>9, <2>1, <3>1 DEF SortedBy
  <2> QED
    BY <2>2, <2>3
<1>12. t = d \o b
  BY <1>2, <1>6
<1>13. /\ t \in Seq(S) /\ SortedBy(t, R)
       /\ \A j : IsIn(t, j) <=> IsIn(d, j) \/ IsIn(b, j)
  <2>1. Ahead(d, b, R)
    BY <1>11 DEF Ahead
  <2> QED
    <3>1. IsJoin(d \o b, d, b, S, R)
      BY <1>3, <1>8, <2>1, Joined
    <3> QED
      BY <1>12, <3>1 DEF IsJoin
<1>14. ASSUME NEW j
       PROVE  IsIn(s, j) <=> IsIn(a, j) \/ IsIn(b, j)
  <2>1. ASSUME NEW i \in 1 .. Len(s), s[i] = j
        PROVE  IsIn(a, j) \/ IsIn(b, j)
    <3>1. CASE i \in 1 .. c
      BY <1>3, <2>1, <3>1 DEF IsIn
    <3>2. CASE ~(i \in 1 .. c)
      <4>1. PICK h \in 1 .. Len(s) - c : i = h + c
        <5>1. i - c \in 1 .. Len(s) - c /\ i = (i - c) + c
          BY <1>1, <3>2
        <5> QED
          BY <5>1
      <4> QED
        BY <1>3, <2>1, <4>1 DEF IsIn
    <3> QED
      BY <3>1, <3>2
  <2>2. ASSUME NEW i \in 1 .. c, a[i] = j PROVE IsIn(s, j)
    <3>1. i \in 1 .. Len(s)
      BY <1>0, <1>1
    <3> QED
      BY <1>3, <2>2, <3>1 DEF IsIn
  <2>3. ASSUME NEW i \in 1 .. Len(s) - c, b[i] = j PROVE IsIn(s, j)
    <3>1. i + c \in 1 .. Len(s)
      BY <1>0, <1>1
    <3> QED
      BY <1>3, <2>3, <3>1 DEF IsIn
  <2> QED
    BY <1>3, <2>1, <2>2, <2>3 DEF IsIn
<1>15. \A j : IsIn(e, j) <=> j = k
  BY <1>4 DEF IsIn
<1> QED
  BY <1>8, <1>13, <1>14, <1>15 DEF IsInsertion

\* The unfinished results of the flattening of a sequence of sequences.
Flattens(h, seqs, m) ==
  h = [i \in 1 .. m |-> IF i = 1 THEN seqs[i] ELSE h[i - 1] \o seqs[i]]

\* They are defined for every length.
LEMMA FlattensExist ==
  ASSUME NEW n \in Nat \ {0}, NEW seqs
  PROVE  \E h : Flattens(h, seqs, n)
<1> DEFINE D == {m \in Nat : m > 0 /\ ~ \E h : Flattens(h, seqs, m)}
<1>1. D = {}
  <2> SUFFICES ASSUME D # {} PROVE FALSE
    OBVIOUS
  <2>1. D \in SUBSET Nat
    OBVIOUS
  <2>2. PICK d \in D : \A m \in D : d <= m
    BY <2>1, LeastElement
  <2>3. d \in Nat /\ d > 0 /\ ~ \E h : Flattens(h, seqs, d)
    OBVIOUS
  <2>4. CASE d = 1
    <3>1. PICK h : h = [i \in 1 .. 1 |-> seqs[i]]
      OBVIOUS
    <3>2. h = [i \in 1 .. 1 |-> IF i = 1 THEN seqs[i] ELSE h[i - 1] \o seqs[i]]
      BY <3>1
    <3> QED
      BY <2>3, <2>4, <3>2 DEF Flattens
  <2>5. CASE d # 1
    <3>1. PICK c \in Nat : c = d - 1 /\ c > 0 /\ d = c + 1
      BY <2>3, <2>5
    <3>2. c \notin D
      BY <2>2, <3>1
    <3>3. PICK h : Flattens(h, seqs, c)
      BY <3>1, <3>2
    <3>4. \A i \in 1 .. c : h[i] = IF i = 1 THEN seqs[i] ELSE h[i - 1] \o seqs[i]
      BY <3>3 DEF Flattens
    <3>5. PICK g : g = [i \in 1 .. d |-> IF i = d THEN h[c] \o seqs[d] ELSE h[i]]
      OBVIOUS
    <3>6. \A i \in 1 .. c : i \in 1 .. d /\ i # d
      BY <3>1
    <3>7. \A i \in 1 .. c : g[i] = h[i]
      BY <3>5, <3>6
    <3>8. ASSUME NEW i \in 1 .. d
          PROVE  g[i] = IF i = 1 THEN seqs[i] ELSE g[i - 1] \o seqs[i]
      <4>1. CASE i = d
        <5>1. c \in 1 .. c /\ i - 1 = c /\ i # 1
          BY <2>5, <3>1, <4>1
        <5> QED
          BY <3>5, <3>7, <4>1, <5>1
      <4>2. CASE i # d
        <5>1. i \in 1 .. c /\ (i # 1 => i - 1 \in 1 .. c)
          BY <3>1, <4>2
        <5> QED
          BY <3>4, <3>7, <5>1
      <4> QED
        BY <4>1, <4>2
    <3>9. g = [i \in 1 .. d |-> IF i = 1 THEN seqs[i] ELSE g[i - 1] \o seqs[i]]
      <4>1. g = [i \in 1 .. d |-> g[i]]
        BY <3>5
      <4> QED
        BY <3>8, <4>1
    <3> QED
      BY <2>3, <3>9 DEF Flattens
  <2> QED
    BY <2>4, <2>5
<1>2. n \notin D
  BY <1>1
<1> QED
  BY <1>2

\* FlattenSeq is the last of them.
LEMMA FlattenIs ==
  ASSUME NEW n \in Nat \ {0}, NEW S, NEW seqs \in [1 .. n -> S]
  PROVE  \E h : Flattens(h, seqs, n) /\ FlattenSeq(seqs) = h[n]
<1>1. Len(seqs) = n
  OBVIOUS
<1> DEFINE h == CHOOSE f : f = [i \in 1 .. n |-> IF i = 1 THEN seqs[i] ELSE f[i - 1] \o seqs[i]]
<1>2. h = [i \in 1 .. n |-> IF i = 1 THEN seqs[i] ELSE h[i - 1] \o seqs[i]]
  BY FlattensExist DEF Flattens
<1>3. FlattenSeq(seqs) = h[n]
  BY <1>1 DEF FlattenSeq
<1> QED
  BY <1>2, <1>3 DEF Flattens

\* Pieces in order, one before the next, are in order when flattened.
LEMMA FlattenSorted ==
  ASSUME NEW S, NEW R, NEW n \in Nat \ {0}, NEW seqs \in [1 .. n -> Seq(S)],
         \A i \in 1 .. n : SortedBy(seqs[i], R),
         \A i, j \in 1 .. n : i < j => Ahead(seqs[i], seqs[j], R)
  PROVE  /\ FlattenSeq(seqs) \in Seq(S) /\ SortedBy(FlattenSeq(seqs), R)
         /\ \A k : IsIn(FlattenSeq(seqs), k) <=> \E i \in 1 .. n : IsIn(seqs[i], k)
<1>1. PICK h : Flattens(h, seqs, n) /\ FlattenSeq(seqs) = h[n]
  BY FlattenIs
<1>2. \A i \in 1 .. n : h[i] = IF i = 1 THEN seqs[i] ELSE h[i - 1] \o seqs[i]
  BY <1>1 DEF Flattens
<1> DEFINE Fine(m) == /\ h[m] \in Seq(S) /\ SortedBy(h[m], R)
                      /\ \A k : IsIn(h[m], k) <=> \E i \in 1 .. m : IsIn(seqs[i], k)
           D == {m \in 1 .. n : ~Fine(m)}
<1>3. D = {}
  <2> SUFFICES ASSUME D # {} PROVE FALSE
    OBVIOUS
  <2>1. D \in SUBSET Nat
    OBVIOUS
  <2>2. PICK d \in D : \A m \in D : d <= m
    <3> HIDE DEF D
    <3> QED
      BY <2>1, LeastElement
  <2>3. d \in 1 .. n /\ ~Fine(d)
    OBVIOUS
  <2>4. CASE d = 1
    <3>1. h[1] = seqs[1] /\ 1 \in 1 .. n /\ \A i : i \in 1 .. 1 <=> i = 1
      BY <1>2
    <3>2. Fine(1)
      BY <3>1
    <3> QED
      BY <2>3, <2>4, <3>2
  <2>5. CASE d # 1
    <3>1. PICK c \in 1 .. n : c = d - 1 /\ c < d /\ \A i : i \in 1 .. d <=> i \in 1 .. c \/ i = d
      <4>1. d - 1 \in 1 .. n /\ d - 1 < d
        BY <2>3, <2>5
      <4>2. \A i : i \in 1 .. d <=> i \in 1 .. d - 1 \/ i = d
        BY <2>3, <2>5
      <4> QED
        BY <4>1, <4>2
    <3>2. Fine(c)
      <4>1. ~(d <= c)
        BY <2>3, <3>1
      <4>2. c \notin D
        <5> HIDE DEF D
        <5> QED
          BY <2>2, <4>1
      <4> QED
        BY <4>2
    <3>3. PICK a, b : a = h[c] /\ b = seqs[d]
      OBVIOUS
    <3>4. h[d] = a \o b
      BY <1>2, <2>5, <3>1, <3>3
    <3>5. a \in Seq(S) /\ SortedBy(a, R) /\ b \in Seq(S) /\ SortedBy(b, R)
      BY <2>3, <3>2, <3>3
    <3>6. ASSUME NEW x \in 1 .. Len(a), NEW y \in 1 .. Len(b)
          PROVE  <<a[x], b[y]>> \in R
      <4>1. IsIn(a, a[x])
        BY DEF IsIn
      <4>2. PICK i \in 1 .. c : IsIn(seqs[i], a[x])
        BY <3>2, <3>3, <4>1
      <4>3. PICK z \in 1 .. Len(seqs[i]) : seqs[i][z] = a[x]
        BY <4>2 DEF IsIn
      <4>4. i \in 1 .. n /\ i < d
        BY <3>1
      <4>5. Ahead(seqs[i], b, R)
        BY <2>3, <3>3, <4>4
      <4> QED
        BY <4>3, <4>5 DEF Ahead
    <3>7. Ahead(a, b, R)
      BY <3>6 DEF Ahead
    <3>8. IsJoin(a \o b, a, b, S, R)
      BY <3>5, <3>7, Joined
    <3>9. h[d] \in Seq(S) /\ SortedBy(h[d], R)
      BY <3>4, <3>8 DEF IsJoin
    <3>10. ASSUME NEW k
           PROVE  IsIn(h[d], k) <=> \E i \in 1 .. d : IsIn(seqs[i], k)
      <4>1. IsIn(h[d], k) <=> IsIn(a, k) \/ IsIn(b, k)
        BY <3>4, <3>8 DEF IsJoin
      <4>2. IsIn(a, k) <=> \E i \in 1 .. c : IsIn(seqs[i], k)
        BY <3>2, <3>3
      <4> QED
        BY <3>1, <3>3, <4>1, <4>2
    <3>11. Fine(d)
      BY <3>9, <3>10
    <3> QED
      BY <2>3, <3>11
  <2> QED
    BY <2>4, <2>5
<1>4. n \in 1 .. n
  OBVIOUS
<1>5. n \notin D
  <2> HIDE DEF D
  <2> QED
    BY <1>3
<1>6. Fine(n)
  BY <1>4, <1>5
<1> QED
  BY <1>1, <1>6

-----------------------------------------------------------------------------
(* The order in which put evicts *)

Precedes(l, a, b) == \E i, j \in 1 .. Len(l) : i < j /\ l[i] = a /\ l[j] = b

\* The pairs of stored keys of which the second is evicted first.
Earlier ==
  {e \in Stored \X Stored :
     \/ index[e[1]][2] > index[e[2]][2]
     \/ /\ index[e[1]][2] = index[e[2]][2]
        /\ Precedes(lists[index[e[1]][2]], e[1], e[2])}

LEMMA EarlierIs ==
  \A a, b : <<a, b>> \in Earlier <=>
    /\ a \in Stored /\ b \in Stored
    /\ \/ index[a][2] > index[b][2]
       \/ index[a][2] = index[b][2] /\ Precedes(lists[index[a][2]], a, b)
BY DEF Earlier

LEMMA EarlierOneWay ==
  ASSUME ItemTypes, ListsOnce
  PROVE  \A a, b : <<a, b>> \in Earlier => <<b, a>> \notin Earlier
<1> SUFFICES ASSUME NEW a, NEW b, <<a, b>> \in Earlier, <<b, a>> \in Earlier
             PROVE  FALSE
  OBVIOUS
<1>1. a \in Stored /\ b \in Stored
  BY EarlierIs
<1>2. PICK f \in Freqs, g \in Freqs : f = index[a][2] /\ g = index[b][2]
  BY <1>1 DEF ItemTypes
<1>3. f = g
  <2>1. f \in Nat /\ g \in Nat
    BY DEF Freqs
  <2>2. f > g \/ f = g
    BY <1>2, EarlierIs
  <2>3. g > f \/ g = f
    BY <1>2, EarlierIs
  <2> QED
    BY <2>1, <2>2, <2>3
<1>4. Precedes(lists[f], a, b) /\ Precedes(lists[f], b, a)
  <2>1. ~(f > g) /\ ~(g > f)
    BY <1>3 DEF Freqs
  <2> QED
    BY <1>2, <1>3, <2>1, EarlierIs
<1>5. PICK l : l = lists[f]
  OBVIOUS
<1>6. Len(l) \in Nat /\ \A i, j \in 1 .. Len(l) : l[i] = l[j] => i = j
  BY <1>5, LenProperties DEF ItemTypes, ListsOnce
<1>7. PICK i \in 1 .. Len(l), j \in 1 .. Len(l) : i < j /\ l[i] = a /\ l[j] = b
  BY <1>4, <1>5 DEF Precedes
<1>8. PICK x \in 1 .. Len(l), y \in 1 .. Len(l) : x < y /\ l[x] = b /\ l[y] = a
  BY <1>4, <1>5 DEF Precedes
<1>9. x = j /\ y = i
  BY <1>6, <1>7, <1>8
<1> QED
  BY <1>7, <1>8, <1>9

\* The order of the cache: the lists from the greatest frequency down.
EvictionOrder == FlattenSeq(Reverse(lists))

LEMMA OrderIs ==
  ASSUME ItemTypes, ListsAreIndex, ListsOnce
  PROVE  /\ EvictionOrder \in Seq(Key) /\ SortedBy(EvictionOrder, Earlier)
         /\ \A k : IsIn(EvictionOrder, k) <=> k \in Stored
<1>1. PICK n \in Nat \ {0} : n = MaxFreq
  BY ItemsAssumption
<1>2. lists \in [1 .. n -> Seq(Key)] /\ Len(lists) = n
  BY <1>1 DEF ItemTypes, Freqs
<1>3. PICK seqs : seqs = Reverse(lists)
  OBVIOUS
<1>4. seqs = [i \in 1 .. n |-> lists[(n - i) + 1]]
  BY <1>2, <1>3 DEF Reverse
<1>5. \A i \in 1 .. n : (n - i) + 1 \in 1 .. n /\ seqs[i] = lists[(n - i) + 1]
  BY <1>4
<1>6. seqs \in [1 .. n -> Seq(Key)]
  BY <1>2, <1>4, <1>5
<1>7. ASSUME NEW f \in 1 .. n, NEW i \in 1 .. Len(lists[f])
      PROVE  lists[f][i] \in Stored /\ index[lists[f][i]][2] = f
  BY <1>1, <1>7 DEF ListsAreIndex, IsIn, Freqs
<1>8. ASSUME NEW i \in 1 .. n
      PROVE  SortedBy(seqs[i], Earlier)
  <2>1. PICK f \in 1 .. n : seqs[i] = lists[f]
    BY <1>5
  <2>2. ASSUME NEW x \in 1 .. Len(lists[f]), NEW y \in 1 .. Len(lists[f]), x < y
        PROVE  <<lists[f][x], lists[f][y]>> \in Earlier
    <3>1. Precedes(lists[f], lists[f][x], lists[f][y])
      BY <2>2 DEF Precedes
    <3> QED
      BY <1>7, <3>1, EarlierIs
  <2> QED
    BY <2>1, <2>2 DEF SortedBy
<1>9. ASSUME NEW i \in 1 .. n, NEW j \in 1 .. n, i < j
      PROVE  Ahead(seqs[i], seqs[j], Earlier)
  <2>1. PICK f \in 1 .. n, g \in 1 .. n : f > g /\ seqs[i] = lists[f] /\ seqs[j] = lists[g]
    <3>1. (n - i) + 1 > (n - j) + 1
      BY <1>9
    <3> QED
      BY <1>5, <3>1
  <2>2. ASSUME NEW x \in 1 .. Len(lists[f]), NEW y \in 1 .. Len(lists[g])
        PROVE  <<lists[f][x], lists[g][y]>> \in Earlier
    BY <1>7, <2>1, EarlierIs
  <2> QED
    BY <2>1, <2>2 DEF Ahead
<1>10. PICK o : o = FlattenSeq(seqs)
  OBVIOUS
<1>11. /\ o \in Seq(Key) /\ SortedBy(o, Earlier)
       /\ \A k : IsIn(o, k) <=> \E i \in 1 .. n : IsIn(seqs[i], k)
  BY <1>6, <1>8, <1>9, <1>10, FlattenSorted
<1>12. ASSUME NEW k
       PROVE  IsIn(o, k) <=> k \in Stored
  <2>1. ASSUME IsIn(o, k) PROVE k \in Stored
    <3>1. PICK i \in 1 .. n : IsIn(seqs[i], k)
      BY <1>11, <2>1
    <3>2. PICK f \in Freqs : IsIn(lists[f], k)
      BY <1>1, <1>5, <3>1 DEF Freqs
    <3> QED
      BY <3>2 DEF ListsAreIndex
  <2>2. ASSUME k \in Stored PROVE IsIn(o, k)
    <3>1. PICK f \in 1 .. n : index[k][2] = f
      BY <1>1, <2>2 DEF ItemTypes, Freqs
    <3>2. IsIn(lists[f], k)
      BY <1>1, <2>2, <3>1 DEF ListsAreIndex, Freqs
    <3>3. (n - f) + 1 \in 1 .. n /\ (n - ((n - f) + 1)) + 1 = f
      OBVIOUS
    <3>4. seqs[(n - f) + 1] = lists[f]
      BY <1>5, <3>3
    <3> QED
      BY <1>11, <3>2, <3>3, <3>4
  <2> QED
    BY <2>1, <2>2
<1> QED
  BY <1>3, <1>10, <1>11, <1>12 DEF EvictionOrder

\* No key twice.
LEMMA SortedOnce ==
  ASSUME NEW S, NEW R, \A a, b : <<a, b>> \in R => <<b, a>> \notin R,
         NEW s \in Seq(S), SortedBy(s, R)
  PROVE  \A i, j \in 1 .. Len(s) : s[i] = s[j] => i = j
<1>1. \A a : <<a, a>> \notin R
  OBVIOUS
<1>2. ASSUME NEW i \in 1 .. Len(s), NEW j \in 1 .. Len(s), s[i] = s[j]
      PROVE  i = j
  <2>1. Len(s) \in Nat
    BY LenProperties
  <2>2. ~(i < j) /\ ~(j < i)
    BY <1>1, <1>2 DEF SortedBy
  <2> QED
    BY <2>1, <2>2
<1> QED
  BY <1>2

\* The number of keys is the length of the order.
LEMMA OrderLength ==
  ASSUME ItemTypes, ListsAreIndex, ListsOnce
  PROVE  IsFiniteSet(Stored) /\ Cardinality(Stored) = Len(EvictionOrder)
<1>1. PICK o : o = EvictionOrder
  OBVIOUS
<1>2. o \in Seq(Key) /\ SortedBy(o, Earlier) /\ \A k : IsIn(o, k) <=> k \in Stored
  BY <1>1, OrderIs
<1>3. PICK n \in Nat : n = Len(o)
  BY <1>2, LenProperties
<1>4. \A i, j \in 1 .. n : o[i] = o[j] => i = j
  BY <1>2, <1>3, EarlierOneWay, SortedOnce
<1>5. o \in [1 .. n -> Stored]
  <2>1. o \in [1 .. n -> Key]
    BY <1>2, <1>3, LenProperties
  <2>2. \A i \in 1 .. n : o[i] \in Stored
    BY <1>2, <1>3 DEF IsIn
  <2> QED
    BY <2>1, <2>2
<1>6. \A k \in Stored : \E i \in 1 .. n : o[i] = k
  BY <1>2, <1>3 DEF IsIn
<1>7. o \in Bijection(1 .. n, Stored)
  BY <1>4, <1>5, <1>6 DEF Bijection, Injection, Surjection, IsInjective
<1>8. ExistsBijection(1 .. n, Stored)
  BY <1>7 DEF ExistsBijection
<1>9. IsFiniteSet(1 .. n) /\ Cardinality(1 .. n) = n
  BY FS_Interval
<1> QED
  BY <1>1, <1>3, <1>8, <1>9, FS_Bijection

\* RemoveAt leaves a sequence in order.
LEMMA RemovedSorted ==
  ASSUME NEW S, NEW R, NEW s \in Seq(S), SortedBy(s, R), NEW p \in 1 .. Len(s)
  PROVE  RemoveAt(s, p) \in Seq(S) /\ SortedBy(RemoveAt(s, p), R)
<1>1. PICK l : l = RemoveAt(s, p)
  OBVIOUS
<1>2. /\ l \in Seq(S) /\ Len(l) = Len(s) - 1
      /\ \A i \in 1 .. Len(s) - 1 : l[i] = IF i < p THEN s[i] ELSE s[i + 1]
  BY <1>1, Removed
<1>3. Len(s) \in Nat
  BY LenProperties
<1>4. ASSUME NEW i \in 1 .. Len(s) - 1, NEW j \in 1 .. Len(s) - 1, i < j
      PROVE  <<l[i], l[j]>> \in R
  <2>1. PICK x \in 1 .. Len(s) : x = (IF i < p THEN i ELSE i + 1) /\ l[i] = s[x]
    <3>1. (IF i < p THEN i ELSE i + 1) \in 1 .. Len(s)
      BY <1>3
    <3> QED
      BY <1>2, <3>1
  <2>2. PICK y \in 1 .. Len(s) : y = (IF j < p THEN j ELSE j + 1) /\ l[j] = s[y]
    <3>1. (IF j < p THEN j ELSE j + 1) \in 1 .. Len(s)
      BY <1>3
    <3> QED
      BY <1>2, <3>1
  <2>3. x < y
    BY <1>4, <2>1, <2>2
  <2> QED
    BY <2>1, <2>2, <2>3 DEF SortedBy
<1> QED
  BY <1>1, <1>2, <1>4 DEF SortedBy

\* Elements that stay keep their order.
LEMMA PrecedesRemoved ==
  ASSUME NEW S, NEW s \in Seq(S), NEW p \in 1 .. Len(s), NEW a, NEW b,
         a # s[p], b # s[p], Precedes(s, a, b)
  PROVE  Precedes(RemoveAt(s, p), a, b)
<1>1. PICK l : l = RemoveAt(s, p)
  OBVIOUS
<1>2. /\ l \in Seq(S) /\ Len(l) = Len(s) - 1
      /\ \A i \in 1 .. Len(s) - 1 : l[i] = IF i < p THEN s[i] ELSE s[i + 1]
  BY <1>1, Removed
<1>3. Len(s) \in Nat
  BY LenProperties
<1>4. PICK i \in 1 .. Len(s), j \in 1 .. Len(s) : i < j /\ s[i] = a /\ s[j] = b
  BY DEF Precedes
<1>5. i # p /\ j # p
  BY <1>4
<1>6. PICK x \in 1 .. Len(s) - 1 : x = (IF i < p THEN i ELSE i - 1)
  BY <1>3, <1>4, <1>5
<1>7. PICK y \in 1 .. Len(s) - 1 : y = (IF j < p THEN j ELSE j - 1)
  BY <1>3, <1>4, <1>5
<1>8. l[x] = a
  <2>1. CASE i < p
    BY <1>2, <1>4, <1>6, <2>1
  <2>2. CASE ~(i < p)
    <3>1. ~(x < p) /\ x + 1 = i
      BY <1>5, <1>6, <2>2
    <3> QED
      BY <1>2, <1>4, <3>1
  <2> QED
    BY <2>1, <2>2
<1>9. l[y] = b
  <2>1. CASE j < p
    BY <1>2, <1>4, <1>7, <2>1
  <2>2. CASE ~(j < p)
    <3>1. ~(y < p) /\ y + 1 = j
      BY <1>5, <1>7, <2>2
    <3> QED
      BY <1>2, <1>4, <3>1
  <2> QED
    BY <2>1, <2>2
<1>10. x < y
  BY <1>4, <1>5, <1>6, <1>7
<1> QED
  BY <1>1, <1>2, <1>8, <1>9, <1>10 DEF Precedes

\* A new element precedes the ones that are there, which keep their order.
LEMMA PrecedesCons ==
  ASSUME NEW S, NEW s \in Seq(S), NEW e \in S
  PROVE  /\ \A a, b : Precedes(s, a, b) => Precedes(Cons(e, s), a, b)
         /\ \A a : IsIn(s, a) => Precedes(Cons(e, s), e, a)
<1>1. PICK l : l = Cons(e, s)
  OBVIOUS
<1>2. /\ Len(s) \in Nat /\ Len(l) = Len(s) + 1 /\ l[1] = e
      /\ \A i \in 1 .. Len(s) : l[i + 1] = s[i]
  <2>1. IsCons(l, e, s, S)
    BY <1>1, ConsIs
  <2> QED
    BY <2>1, LenProperties DEF IsCons
<1>3. \A i \in 1 .. Len(s) : i + 1 \in 1 .. Len(l) /\ 1 \in 1 .. Len(l) /\ 1 < i + 1
  BY <1>2
<1>4. ASSUME NEW a, NEW b, Precedes(s, a, b)
      PROVE  Precedes(l, a, b)
  <2>1. PICK i \in 1 .. Len(s), j \in 1 .. Len(s) : i < j /\ s[i] = a /\ s[j] = b
    BY <1>4 DEF Precedes
  <2>2. i + 1 < j + 1
    BY <2>1
  <2> QED
    BY <1>2, <1>3, <2>1, <2>2 DEF Precedes
<1>5. ASSUME NEW a, IsIn(s, a)
      PROVE  Precedes(l, e, a)
  <2>1. PICK i \in 1 .. Len(s) : s[i] = a
    BY <1>5 DEF IsIn
  <2> QED
    BY <1>2, <1>3, <2>1 DEF Precedes
<1> QED
  BY <1>1, <1>4, <1>5

\* A set of places that has every place below one it has.
LEMMA SegmentIs ==
  ASSUME NEW n \in Nat, NEW D \in SUBSET (1 .. n),
         \A i, j \in 1 .. n : i < j /\ j \in D => i \in D
  PROVE  Cardinality(D) \in 0 .. n /\ \A i \in 1 .. n : i \in D <=> i <= Cardinality(D)
<1>1. PICK c \in 0 .. n : D = 1 .. c
  <2> DEFINE E == (1 .. n) \ D
  <2>1. CASE E = {}
    <3>1. D = 1 .. n
      BY <2>1
    <3>2. n \in 0 .. n
      OBVIOUS
    <3> QED
      BY <3>1, <3>2
  <2>2. CASE E # {}
    <3>1. E \in SUBSET Nat
      OBVIOUS
    <3>2. PICK e \in E : \A i \in E : e <= i
      BY <2>2, <3>1, LeastElement
    <3>3. e \in 1 .. n /\ e \notin D
      OBVIOUS
    <3>4. ASSUME NEW i \in 1 .. n
          PROVE  i \in D <=> i < e
      <4>1. i \in D \/ e <= i
        BY <3>2
      <4>2. i \in D => ~(e < i) /\ i # e
        BY <3>3
      <4> QED
        BY <3>3, <4>1, <4>2
    <3>5. \A i : i \in 1 .. e - 1 <=> i \in 1 .. n /\ i < e
      BY <3>3
    <3>6. D = 1 .. e - 1
      BY <3>4, <3>5
    <3>7. e - 1 \in 0 .. n
      BY <3>3
    <3> QED
      BY <3>6, <3>7
  <2> QED
    BY <2>1, <2>2
<1>2. Cardinality(1 .. c) = IF 1 > c THEN 0 ELSE c - 1 + 1
  BY FS_Interval
<1>3. Cardinality(D) = c
  BY <1>1, <1>2
<1> QED
  BY <1>1, <1>3

-----------------------------------------------------------------------------
(* Each step of the LFU cache is one of the cache *)

\* The values of the stored keys, and how often they were used.
Values == [k \in Key |-> IF k \in Stored THEN index[k][1] ELSE Absent]

Uses == [k \in Key |-> IF k \in Stored THEN index[k][2] ELSE 0]

OrderRight ==
  /\ EvictionOrder \in Seq(Key) /\ SortedBy(EvictionOrder, Earlier)
  /\ \A k : IsIn(EvictionOrder, k) <=> k \in Stored
  /\ \A a, b : <<a, b>> \in Earlier => <<b, a>> \notin Earlier
  /\ \A i, j \in 1 .. Len(EvictionOrder) : EvictionOrder[i] = EvictionOrder[j] => i = j
  /\ Cardinality(Stored) = Len(EvictionOrder)

LEMMA OrderHolds ==
  ASSUME LfuInv
  PROVE  OrderRight
<1>1. ItemTypes /\ ListsAreIndex /\ ListsOnce
  BY DEF LfuInv
<1>2. \A a, b : <<a, b>> \in Earlier => <<b, a>> \notin Earlier
  BY <1>1, EarlierOneWay
<1>3. PICK o, R : o = EvictionOrder /\ R = Earlier
  OBVIOUS
<1>4. o \in Seq(Key) /\ SortedBy(o, R) /\ \A a, b : <<a, b>> \in R => <<b, a>> \notin R
  BY <1>1, <1>2, <1>3, OrderIs
<1>5. \A i, j \in 1 .. Len(o) : o[i] = o[j] => i = j
  BY <1>4, SortedOnce
<1> QED
  BY <1>1, <1>2, <1>3, <1>5, OrderIs, OrderLength DEF OrderRight

\* A key put at its place among keys in order.
Joins(k, g, kept) ==
  /\ kept \in Seq(Key) /\ SortedBy(kept, Earlier)
  /\ k \in Key /\ ~IsIn(kept, k) /\ k \in Stored' /\ index'[k][2] = g
  /\ \A j : IsIn(kept, j) => j \in Stored /\ index'[j] = index[j]
  /\ \A j : j \in Stored' <=> j = k \/ IsIn(kept, j)
  /\ \A a, b : IsIn(kept, a) /\ IsIn(kept, b) /\ <<a, b>> \in Earlier => <<a, b>> \in Earlier'
  /\ \A j : IsIn(kept, j) =>
       IF index[j][2] > g THEN <<j, k>> \in Earlier' ELSE <<k, j>> \in Earlier'

LEMMA JoinedIs ==
  ASSUME ItemTypes, OrderRight, OrderRight', NEW k, NEW g \in Nat, NEW kept, Joins(k, g, kept)
  PROVE  LfuCache!Rank(kept, k, g)
<1>1. kept \in Seq(Key) /\ k \in Key
  BY DEF Joins
<1>2. PICK n \in Nat : n = Len(kept) /\ DOMAIN kept = 1 .. n
  BY <1>1, LenProperties
<1>3. ASSUME NEW i \in 1 .. n
      PROVE  /\ IsIn(kept, kept[i]) /\ kept[i] \in Key /\ kept[i] \in Stored
             /\ index[kept[i]][2] \in Nat /\ Uses[kept[i]] = index[kept[i]][2]
  <2>1. IsIn(kept, kept[i]) /\ kept[i] \in Key
    BY <1>1, <1>2, ElementOfSeq DEF IsIn
  <2>2. kept[i] \in Stored
    BY <2>1 DEF Joins
  <2>3. index[kept[i]][2] \in Nat
    BY <2>2 DEF ItemTypes, Freqs
  <2> QED
    BY <2>1, <2>2, <2>3 DEF Uses
<1> DEFINE D == {i \in DOMAIN kept : Uses[kept[i]] > g}
<1>4. /\ D \in SUBSET (1 .. n)
      /\ \A i \in 1 .. n : i \in D <=> index[kept[i]][2] > g
  BY <1>2, <1>3
<1> HIDE DEF D
<1>5. ASSUME NEW i \in 1 .. n, NEW j \in 1 .. n, i < j, j \in D
      PROVE  i \in D
  <2>1. <<kept[i], kept[j]>> \in Earlier
    BY <1>2, <1>5 DEF Joins, SortedBy
  <2>2. index[kept[i]][2] > index[kept[j]][2] \/ index[kept[i]][2] = index[kept[j]][2]
    BY <2>1, EarlierIs
  <2>3. index[kept[j]][2] > g
    BY <1>4, <1>5
  <2> QED
    BY <1>3, <1>4, <2>2, <2>3
<1>6. Cardinality(D) \in 0 .. n /\ \A i \in 1 .. n : i \in D <=> i <= Cardinality(D)
  BY <1>4, <1>5, SegmentIs
<1>7. PICK c \in 0 .. n : c = Cardinality(D) /\ \A i \in 1 .. n : i \in D <=> i <= c
  BY <1>6
<1>8. PICK R : R = Earlier'
  OBVIOUS
<1>9. SortedBy(kept, R)
  <2>1. ASSUME NEW i \in 1 .. n, NEW j \in 1 .. n, i < j
        PROVE  <<kept[i], kept[j]>> \in Earlier'
    <3>1. <<kept[i], kept[j]>> \in Earlier
      BY <1>2, <2>1 DEF Joins, SortedBy
    <3> QED
      BY <1>3, <3>1 DEF Joins
  <2> QED
    BY <1>2, <1>8, <2>1 DEF SortedBy
<1>10. \A i \in 1 .. c : <<kept[i], k>> \in R
  <2>1. ASSUME NEW i \in 1 .. c
        PROVE  <<kept[i], k>> \in Earlier'
    <3>1. i \in 1 .. n /\ i <= c
      OBVIOUS
    <3>2. index[kept[i]][2] > g
      BY <1>4, <1>7, <3>1
    <3> QED
      BY <1>3, <3>1, <3>2 DEF Joins
  <2> QED
    BY <1>8, <2>1
<1>11. \A i \in c + 1 .. n : <<k, kept[i]>> \in R
  <2>1. ASSUME NEW i \in c + 1 .. n
        PROVE  <<k, kept[i]>> \in Earlier'
    <3>1. i \in 1 .. n /\ ~(i <= c)
      OBVIOUS
    <3>2. ~(index[kept[i]][2] > g)
      BY <1>4, <1>7, <3>1
    <3> QED
      BY <1>3, <3>1, <3>2 DEF Joins
  <2> QED
    BY <1>8, <2>1
<1>12. PICK t : t = SubSeq(kept, 1, c) \o <<k>> \o SubSeq(kept, c + 1, Len(kept))
  OBVIOUS
<1>13. t \in Seq(Key) /\ SortedBy(t, R) /\ \A j : IsIn(t, j) <=> IsIn(kept, j) \/ j = k
  <2>1. GoesAt(kept, c, k, R)
    BY <1>2, <1>10, <1>11 DEF GoesAt
  <2>2. IsInsertion(t, kept, k, Key, R)
    BY <1>1, <1>9, <1>12, <2>1, InsertedSorted
  <2> QED
    BY <2>2 DEF IsInsertion
<1>14. t = EvictionOrder'
  <2>1. PICK o : o = EvictionOrder'
    OBVIOUS
  <2>2. /\ o \in Seq(Key) /\ SortedBy(o, R)
        /\ \A a, b : <<a, b>> \in R => <<b, a>> \notin R
        /\ \A j : IsIn(o, j) <=> j \in Stored'
    BY <1>8, <2>1 DEF OrderRight
  <2>3. \A j : IsIn(t, j) <=> IsIn(o, j)
    BY <1>13, <2>2 DEF Joins
  <2> QED
    BY <1>13, <2>1, <2>2, <2>3, OneOrder
<1>15. LfuCache!Cardinality(D) = c
  BY <1>7 DEF LfuCache!Cardinality, Cardinality
<1>16. LfuCache!InsertAt(kept, c + 1, k) = t
  <2>1. (c + 1) - 1 = c
    OBVIOUS
  <2> QED
    BY <1>12, <2>1 DEF LfuCache!InsertAt
<1>17. LfuCache!Placed(kept, k, g) = EvictionOrder'
  BY <1>14, <1>15, <1>16 DEF LfuCache!Placed, D, Uses
<1>18. ASSUME NEW j \in Key
       PROVE  Uses'[j] = IF j = k THEN g ELSE IF LfuCache!Contains(kept, j) THEN Uses[j] ELSE 0
  <2>1. LfuCache!Contains(kept, j) <=> IsIn(kept, j)
    BY DEF LfuCache!Contains, IsIn
  <2> QED
    BY <2>1 DEF Joins, Uses
<1>19. Uses' = [j \in Key |->
                  IF j = k THEN g ELSE IF LfuCache!Contains(kept, j) THEN Uses[j] ELSE 0]
  <2>1. Uses' = [j \in Key |-> Uses'[j]]
    BY DEF Uses
  <2> QED
    BY <1>18, <2>1
<1> QED
  BY <1>17, <1>19 DEF LfuCache!Rank, EvictionOrder, Uses

\* The order of eviction without a key.
LEMMA LfuOthersIs ==
  ASSUME OrderRight, NEW k, NEW s, s = LfuCache!Others(k)
  PROVE  /\ k \notin Stored => s = EvictionOrder
         /\ s \in Seq(Key) /\ SortedBy(s, Earlier)
         /\ \A j : IsIn(s, j) <=> j \in Stored /\ j # k
<1>1. PICK o : o = EvictionOrder
  OBVIOUS
<1>2. /\ o \in Seq(Key) /\ SortedBy(o, Earlier)
      /\ \A j : IsIn(o, j) <=> j \in Stored
      /\ \A i, j \in 1 .. Len(o) : o[i] = o[j] => i = j
  BY <1>1 DEF OrderRight
<1> DEFINE I == {i \in 1 .. Len(o) : o[i] = k}
<1>3. LfuCache!SelectInSeq(o, LAMBDA j : j = k) = IF I # {} THEN LfuCache!Min(I) ELSE 0
  BY DEF LfuCache!SelectInSeq
<1>4. LfuCache!Min(I) = Min(I)
  BY DEF LfuCache!Min, Min
<1>5. I \in SUBSET Nat
  OBVIOUS
<1>6. PICK p : p = LfuCache!SelectInSeq(o, LAMBDA j : j = k)
  OBVIOUS
<1>7. s = RemoveAt(o, p)
  BY <1>1, <1>6 DEF LfuCache!Others, LfuCache!RemoveAt, RemoveAt, EvictionOrder
<1>8. CASE k \in Stored
  <2>1. I # {}
    BY <1>2, <1>8 DEF IsIn
  <2>2. Min(I) \in I
    <3> HIDE DEF I
    <3> QED
      BY <1>5, <2>1, LeastElement
  <2>3. p \in 1 .. Len(o) /\ o[p] = k
    BY <1>3, <1>4, <1>6, <2>1, <2>2
  <2>4. RemoveAt(o, p) \in Seq(Key) /\ SortedBy(RemoveAt(o, p), Earlier)
    BY <1>2, <2>3, RemovedSorted
  <2>5. \A j : IsIn(s, j) <=> IsIn(o, j) /\ j # k
    BY <1>2, <1>7, <2>3, ListRemoved
  <2> QED
    BY <1>2, <1>7, <1>8, <2>4, <2>5
<1>9. CASE k \notin Stored
  <2>1. I = {}
    BY <1>2, <1>9 DEF IsIn
  <2>2. p = 0
    BY <1>3, <1>6, <2>1
  <2>3. SubSeq(o, 1, 0 - 1) = <<>> /\ SubSeq(o, 0 + 1, Len(o)) = o /\ <<>> \o o = o
    BY <1>2
  <2>4. s = o
    BY <1>7, <2>2, <2>3 DEF RemoveAt
  <2> QED
    BY <1>1, <1>2, <1>9, <2>4
<1> QED
  BY <1>8, <1>9

\* A use of a stored key, by get or put.
LEMMA MoveSteps ==
  ASSUME LfuInv, OrderRight, OrderRight', NEW k \in Stored, NEW v \in Value, MoveItem(k, v)
  PROVE  /\ LfuCache!Use(k) /\ k \in Key /\ Stored' = Stored
         /\ index'[k][1] = v /\ \A j \in Stored \ {k} : index'[j] = index[j]
<1>1. ItemTypes /\ ListsAreIndex /\ ListsOnce
  BY DEF LfuInv
<1>2. PICK f \in Freqs : f = index[k][2]
  BY <1>1, IteratorIs
<1>3. f + 1 \in Freqs /\ f # f + 1 /\ f \in Nat
  BY <1>2, ItemsAssumption DEF MoveItem, Freqs
<1>4. PICK s, p, l, m, n :
        s = lists[f] /\ p = Iterator(k) /\ l = RemoveAt(s, p)
        /\ m = lists[f + 1] /\ n = Cons(k, m)
  OBVIOUS
<1>5. s \in Seq(Key) /\ m \in Seq(Key) /\ k \in Key /\ p \in 1 .. Len(s) /\ s[p] = k
  BY <1>1, <1>2, <1>3, <1>4, IteratorIs DEF ItemTypes
<1>6. /\ lists'[f] = l /\ lists'[f + 1] = n
      /\ \A g \in Freqs : g # f /\ g # f + 1 => lists'[g] = lists[g]
  BY <1>1, <1>2, <1>3, <1>4 DEF MoveItem, ItemTypes
<1>7. /\ Stored' = Stored
      /\ index'[k] = <<v, f + 1>> /\ \A j \in Stored \ {k} : index'[j] = index[j]
  BY <1>1, <1>2, <1>3 DEF MoveItem, ItemTypes, Stored
<1>8. PICK kept : kept = LfuCache!Others(k)
  OBVIOUS
<1>9. /\ kept \in Seq(Key) /\ SortedBy(kept, Earlier)
      /\ \A j : IsIn(kept, j) <=> j \in Stored /\ j # k
  BY <1>8, LfuOthersIs
<1>10. \A a, b : Precedes(m, a, b) => Precedes(n, a, b)
  BY <1>4, <1>5, PrecedesCons
<1>11. \A a : IsIn(m, a) => Precedes(n, k, a)
  BY <1>4, <1>5, PrecedesCons
<1>12. \A a, b : a # k /\ b # k /\ Precedes(s, a, b) => Precedes(l, a, b)
  BY <1>4, <1>5, PrecedesRemoved
<1>13. ASSUME NEW a, NEW b, IsIn(kept, a), IsIn(kept, b), <<a, b>> \in Earlier
       PROVE  <<a, b>> \in Earlier'
  <2>1. /\ a \in Stored \ {k} /\ b \in Stored \ {k}
        /\ index'[a] = index[a] /\ index'[b] = index[b]
    BY <1>7, <1>9, <1>13
  <2>2. PICK g \in Freqs : g = index[a][2]
    BY <1>1, <2>1 DEF ItemTypes
  <2>3. CASE index[a][2] > index[b][2]
    BY <1>7, <2>1, <2>3 DEF Earlier
  <2>4. CASE g = index[b][2] /\ Precedes(lists[g], a, b)
    <3>1. Precedes(lists'[g], a, b)
      BY <1>4, <1>6, <1>10, <1>12, <2>1, <2>4
    <3>2. /\ a \in Stored' /\ b \in Stored'
          /\ index'[a][2] = g /\ index'[b][2] = g
      BY <1>7, <2>1, <2>2, <2>4
    <3> QED
      BY <3>1, <3>2 DEF Earlier, Precedes
  <2> QED
    BY <1>13, <2>2, <2>3, <2>4, EarlierIs
<1>14. ASSUME NEW j, IsIn(kept, j)
       PROVE  IF index[j][2] > f + 1 THEN <<j, k>> \in Earlier' ELSE <<k, j>> \in Earlier'
  <2>1. j \in Stored \ {k} /\ index'[j] = index[j] /\ j \in Stored' /\ k \in Stored'
    BY <1>7, <1>9, <1>14
  <2>2. PICK g \in Freqs : g = index[j][2]
    BY <1>1, <2>1 DEF ItemTypes
  <2>3. index'[j][2] = g /\ index'[k][2] = f + 1 /\ g \in Nat
    BY <1>7, <2>1, <2>2 DEF Freqs
  <2>4. CASE g > f + 1
    BY <2>1, <2>2, <2>3, <2>4 DEF Earlier
  <2>5. CASE g < f + 1
    <3>1. index'[k][2] > index'[j][2] /\ ~(index[j][2] > f + 1)
      BY <1>3, <2>2, <2>3, <2>5
    <3> QED
      BY <2>1, <3>1 DEF Earlier
  <2>6. CASE g = f + 1
    <3>1. IsIn(m, j)
      BY <1>1, <1>4, <2>1, <2>2, <2>6 DEF ListsAreIndex
    <3>2. Precedes(lists'[f + 1], k, j)
      BY <1>6, <1>11, <3>1
    <3>3. ~(index[j][2] > f + 1)
      BY <1>3, <2>2, <2>6
    <3> QED
      BY <2>1, <2>3, <2>6, <3>2, <3>3 DEF Earlier, Precedes
  <2> QED
    BY <1>3, <2>3, <2>4, <2>5, <2>6
<1>15. Joins(k, f + 1, kept)
  BY <1>5, <1>7, <1>9, <1>13, <1>14 DEF Joins
<1>16. LfuCache!Rank(kept, k, f + 1)
  BY <1>1, <1>3, <1>15, JoinedIs
<1>17. Uses[k] + 1 = f + 1
  BY <1>2, <1>5 DEF Uses
<1>18. LfuCache!Use(k)
  BY <1>8, <1>16, <1>17 DEF LfuCache!Use, LfuCache!Rank, Uses
<1> QED
  BY <1>5, <1>7, <1>18

LEMMA ValuesAre ==
  ASSUME LfuInv
  PROVE  \A k \in Key : Values[k] # Absent <=> k \in Stored
BY KeysAssumption DEF LfuInv, ItemTypes, Values

LEMMA LfuGetIs ==
  ASSUME LfuInv, OrderRight, OrderRight', NEW k \in Key, GetItem(k)
  PROVE  LfuCache!Hit(k) \/ LfuCache!Miss(k)
<1>1. CASE k \in Stored
  <2>1. MoveItem(k, index[k][1]) /\ lfuAnswer' = <<"get", k, index[k][1]>>
    BY <1>1 DEF GetItem
  <2>2. index[k][1] \in Value
    BY <1>1, IteratorIs DEF LfuInv
  <2>3. /\ LfuCache!Use(k) /\ Stored' = Stored
        /\ index'[k][1] = index[k][1] /\ \A j \in Stored \ {k} : index'[j] = index[j]
    BY <1>1, <2>1, <2>2, MoveSteps
  <2>4. Values' = Values
    BY <2>3 DEF Values
  <2>5. Values[k] # Absent /\ Values[k] = index[k][1]
    BY <1>1, ValuesAre DEF Values
  <2>6. LfuCache!Hit(k)
    BY <2>1, <2>3, <2>4, <2>5 DEF LfuCache!Hit, Values
  <2> QED
    BY <2>6
<1>2. CASE k \notin Stored
  <2>1. lfuAnswer' = <<"get", k, Absent>> /\ UNCHANGED <<lists, minFreq, index>>
    BY <1>2 DEF GetItem
  <2>2. Values' = Values /\ Uses' = Uses /\ EvictionOrder' = EvictionOrder
    BY <2>1 DEF Values, Uses, EvictionOrder, Stored
  <2>3. Values[k] = Absent /\ Uses[k] = 0
    BY <1>2 DEF Values, Uses
  <2>4. [Values EXCEPT ![k] = Absent] = Values /\ [Uses EXCEPT ![k] = 0] = Uses
    BY <2>3 DEF Values, Uses
  <2>5. LfuCache!Others(k) = EvictionOrder
    BY <1>2, LfuOthersIs
  <2>6. LfuCache!Miss(k)
    BY <2>1, <2>2, <2>3, <2>4, <2>5 DEF LfuCache!Miss, Values, Uses, EvictionOrder
  <2> QED
    BY <2>6
<1> QED
  BY <1>1, <1>2

LEMMA LfuOverwriteIs ==
  ASSUME LfuInv, OrderRight, OrderRight', NEW k \in Key, NEW v \in Value, OverwriteItem(k, v),
         lfuAnswer' = <<"put", k, v>>
  PROVE  LfuCache!Overwrite(k, v)
<1>1. k \in Stored /\ MoveItem(k, v)
  BY DEF OverwriteItem
<1>2. /\ LfuCache!Use(k) /\ Stored' = Stored
      /\ index'[k][1] = v /\ \A j \in Stored \ {k} : index'[j] = index[j]
  BY <1>1, MoveSteps
<1>3. Values' = [Values EXCEPT ![k] = v]
  BY <1>1, <1>2 DEF Values
<1>4. Values[k] # Absent
  BY <1>1, ValuesAre
<1>5. LfuCache!Expiry(k)
  BY DEF LfuCache!Expiry
<1> QED
  BY <1>2, <1>3, <1>4, <1>5 DEF LfuCache!Overwrite, Values

\* The key that put evicts is the last of the order.
LEMMA LastIs ==
  ASSUME LfuInv, OrderRight, Cardinality(Stored) >= MaxItems
  PROVE  /\ Len(EvictionOrder) = MaxItems /\ Evicted = Len(lists[minFreq])
         /\ Evicted \in 1 .. Len(lists[minFreq])
         /\ EvictionOrder[Len(EvictionOrder)] = lists[minFreq][Evicted]
<1>1. ItemTypes /\ ListsAreIndex /\ ListsOnce /\ MinFreqInUse /\ WithinCapacity
  BY DEF LfuInv
<1>2. PICK o, s, R : o = EvictionOrder /\ s = lists[minFreq] /\ R = Earlier
  OBVIOUS
<1>3. /\ o \in Seq(Key) /\ SortedBy(o, R)
      /\ \A k : IsIn(o, k) <=> k \in Stored
      /\ \A a, b : <<a, b>> \in R => <<b, a>> \notin R
      /\ Cardinality(Stored) = Len(o)
  BY <1>2 DEF OrderRight
<1>4. minFreq \in Freqs /\ s \in Seq(Key) /\ Len(s) \in Nat /\ Len(o) \in Nat
  BY <1>1, <1>2, <1>3, LenProperties DEF ItemTypes
<1>5. Len(o) = MaxItems /\ Len(o) > 0
  BY <1>1, <1>3, <1>4, ItemsAssumption DEF WithinCapacity
<1>6. Stored # {}
  <2>1. 1 \in 1 .. Len(o)
    BY <1>4, <1>5
  <2> QED
    BY <1>3, <2>1 DEF IsIn
<1>7. PICK j \in Stored : index[j][2] = minFreq
  BY <1>1, <1>6 DEF MinFreqInUse
<1>8. IsIn(s, j)
  BY <1>1, <1>2, <1>4, <1>7 DEF ListsAreIndex
<1>9. PICK p \in 1 .. Len(s) : p = Len(s) /\ Evicted = p
  <2>1. Evicted = Len(s)
    BY <1>2 DEF Evicted
  <2> QED
    BY <1>4, <1>8, <2>1 DEF IsIn
<1>10. PICK x : x = s[p]
  OBVIOUS
<1>11. x \in Stored /\ index[x][2] = minFreq
  <2>1. IsIn(s, x)
    BY <1>10 DEF IsIn
  <2> QED
    BY <1>1, <1>2, <1>4, <2>1 DEF ListsAreIndex
<1>12. ASSUME NEW y \in Stored, y # x
       PROVE  <<y, x>> \in R
  <2>1. PICK f \in Freqs : f = index[y][2]
    BY <1>1 DEF ItemTypes
  <2>2. minFreq <= f /\ f \in Nat /\ minFreq \in Nat
    BY <1>1, <1>4, <2>1 DEF MinFreqInUse, Freqs
  <2>3. CASE f = minFreq
    <3>1. PICK i \in 1 .. Len(s) : s[i] = y
      <4>1. IsIn(s, y)
        BY <1>1, <1>2, <1>4, <2>1, <2>3 DEF ListsAreIndex
      <4> QED
        BY <4>1 DEF IsIn
    <3>2. i < p
      BY <1>4, <1>9, <1>10, <1>12, <3>1
    <3>3. Precedes(s, y, x)
      BY <1>10, <3>1, <3>2 DEF Precedes
    <3> QED
      BY <1>2, <1>11, <2>1, <2>3, <3>3, EarlierIs
  <2>4. CASE f # minFreq
    <3>1. index[y][2] > index[x][2]
      BY <1>11, <2>1, <2>2, <2>4
    <3> QED
      BY <1>2, <1>11, <3>1, EarlierIs
  <2> QED
    BY <2>3, <2>4
<1>13. PICK i \in 1 .. Len(o) : o[i] = x
  BY <1>3, <1>11 DEF IsIn
<1>14. i = Len(o)
  <2> SUFFICES ASSUME i # Len(o) PROVE FALSE
    OBVIOUS
  <2>1. PICK h \in 1 .. Len(o) : h = i + 1
    BY <1>4
  <2>2. <<x, o[h]>> \in R
    BY <1>3, <1>13, <2>1 DEF SortedBy
  <2>3. o[h] \in Stored
    BY <1>3 DEF IsIn
  <2>4. o[h] # x
    BY <1>3, <2>2
  <2> QED
    BY <1>3, <1>12, <2>2, <2>3, <2>4
<1> QED
  BY <1>2, <1>5, <1>9, <1>10, <1>13, <1>14


\* The keys that a new one leaves, in order: all, or all but the last.
Remaining(s, n, left, kept) ==
  /\ n \in 0 .. Len(EvictionOrder) /\ s = SubSeq(EvictionOrder, 1, Len(EvictionOrder) - n)
  /\ n = 0 \/ (n = 1 /\ Len(EvictionOrder) = MaxItems)
  /\ s \in Seq(Key) /\ Len(s) < MaxItems /\ SortedBy(s, Earlier)
  /\ \A j : IsIn(s, j) <=> j \in kept
  /\ \A f \in Freqs : \A a, b :
       a \in kept /\ b \in kept /\ Precedes(lists[f], a, b) => Precedes(left[f], a, b)

LEMMA RemainingIs ==
  ASSUME LfuInv, OrderRight, NEW left, NEW kept,
         left = IF Evicted = 0 THEN lists
                ELSE [lists EXCEPT ![minFreq] = RemoveAt(@, Evicted)],
         kept = IF Evicted = 0 THEN Stored ELSE Stored \ {lists[minFreq][Evicted]}
  PROVE  \E s, n : Remaining(s, n, left, kept)
<1>1. ItemTypes /\ ListsOnce /\ WithinCapacity
  BY DEF LfuInv
<1>2. PICK o, R : o = EvictionOrder /\ R = Earlier
  OBVIOUS
<1>3. /\ o \in Seq(Key) /\ SortedBy(o, R)
      /\ \A k : IsIn(o, k) <=> k \in Stored
      /\ \A i, j \in 1 .. Len(o) : o[i] = o[j] => i = j
      /\ Cardinality(Stored) = Len(o)
  BY <1>2 DEF OrderRight
<1>4. Len(o) \in Nat
  BY <1>3, LenProperties
<1>5. CASE Cardinality(Stored) < MaxItems
  <2>1. Evicted = 0
    BY <1>3, <1>4, <1>5, ItemsAssumption DEF Evicted
  <2>2. left = lists /\ kept = Stored
    BY <2>1
  <2>3. SubSeq(o, 1, Len(o) - 0) = o
    BY <1>3, <1>4
  <2>4. Remaining(o, 0, left, kept)
    <3>1. 0 \in 0 .. Len(o) /\ o = SubSeq(o, 1, Len(o) - 0) /\ Len(o) < MaxItems
      BY <1>3, <1>4, <1>5, <2>3
    <3> QED
      BY <1>2, <1>3, <2>2, <3>1 DEF Remaining
  <2> QED
    BY <2>4
<1>6. CASE Cardinality(Stored) >= MaxItems
  <2>1. PICK l, p : l = lists[minFreq] /\ p = Evicted
    OBVIOUS
  <2>2. /\ Len(o) = MaxItems /\ p = Len(l) /\ p \in 1 .. Len(l)
        /\ o[Len(o)] = l[p]
    BY <1>2, <1>6, <2>1, LastIs
  <2>3. l \in Seq(Key) /\ minFreq \in Freqs
    BY <1>1, <2>1 DEF ItemTypes
  <2>4. left = [lists EXCEPT ![minFreq] = RemoveAt(l, p)] /\ kept = Stored \ {l[p]}
    BY <2>1, <2>2, <2>3
  <2>5. PICK m \in 0 .. Len(o) : m = Len(o) - 1
    BY <1>4, <2>2, ItemsAssumption
  <2>6. PICK s : s = SubSeq(o, 1, m)
    OBVIOUS
  <2>7. /\ s \in Seq(Key) /\ Len(s) = m /\ SortedBy(s, R)
        /\ \A i \in 1 .. m : s[i] = o[i]
    <3>1. Cut(o, Key, R, m, SubSeq(o, 1, m), SubSeq(o, m + 1, Len(o)))
      BY <1>3, PartSorted
    <3> QED
      BY <2>6, <3>1 DEF Cut
  <2>8. ASSUME NEW j
        PROVE  IsIn(s, j) <=> j \in kept
    <3>1. ASSUME NEW i \in 1 .. m, s[i] = j
          PROVE  j \in kept
      <4>1. i \in 1 .. Len(o) /\ Len(o) \in 1 .. Len(o) /\ i # Len(o)
        BY <1>4, <2>2, <2>5, ItemsAssumption
      <4>2. IsIn(o, j) /\ j # l[p]
        BY <1>3, <2>2, <2>7, <3>1, <4>1 DEF IsIn
      <4> QED
        BY <1>3, <2>4, <4>2
    <3>2. ASSUME j \in kept
          PROVE  \E i \in 1 .. m : s[i] = j
      <4>1. PICK i \in 1 .. Len(o) : o[i] = j
        BY <1>3, <2>4, <3>2 DEF IsIn
      <4>2. i # Len(o)
        BY <2>2, <2>4, <3>2, <4>1
      <4>3. i \in 1 .. m
        BY <1>4, <2>5, <4>1, <4>2
      <4> QED
        BY <2>7, <4>1, <4>3
    <3> QED
      BY <2>7, <3>1, <3>2 DEF IsIn
  <2>9. ASSUME NEW f \in Freqs, NEW a, NEW b, a \in kept, b \in kept, Precedes(lists[f], a, b)
        PROVE  Precedes(left[f], a, b)
    <3>1. left[f] = IF f = minFreq THEN RemoveAt(l, p) ELSE lists[f]
      BY <1>1, <2>4 DEF ItemTypes
    <3>2. a # l[p] /\ b # l[p]
      BY <2>4, <2>9
    <3>3. Precedes(l, a, b) => Precedes(RemoveAt(l, p), a, b)
      BY <2>2, <2>3, <3>2, PrecedesRemoved
    <3> QED
      BY <2>1, <2>9, <3>1, <3>3
  <2>10. /\ 1 \in 0 .. Len(o) /\ s = SubSeq(o, 1, Len(o) - 1) /\ Len(s) < MaxItems
    BY <1>4, <2>2, <2>5, <2>6, <2>7, ItemsAssumption
  <2>11. Remaining(s, 1, left, kept)
    BY <1>2, <2>2, <2>7, <2>8, <2>9, <2>10 DEF Remaining
  <2> QED
    BY <2>11
<1>7. Cardinality(Stored) < MaxItems \/ Cardinality(Stored) >= MaxItems
  BY <1>3, <1>4, ItemsAssumption
<1> QED
  BY <1>5, <1>6, <1>7

LEMMA LfuStoreIs ==
  ASSUME LfuInv, OrderRight, OrderRight', NEW k \in Key, NEW v \in Value, StoreItem(k, v),
         lfuAnswer' = <<"put", k, v>>
  PROVE  LfuCache!Store(k, v)
<1>1. PICK left, kept :
        /\ left = IF Evicted = 0 THEN lists
                  ELSE [lists EXCEPT ![minFreq] = RemoveAt(@, Evicted)]
        /\ kept = IF Evicted = 0 THEN Stored ELSE Stored \ {lists[minFreq][Evicted]}
  OBVIOUS
<1>2. /\ lists' = [left EXCEPT ![1] = Cons(k, @)]
      /\ index' = [j \in kept \union {k} |-> IF j = k THEN <<v, 1>> ELSE index[j]]
      /\ k \notin Stored
  BY <1>1 DEF StoreItem
<1>3. Leaves(left, kept)
  BY <1>1, EvictedLeaves
<1>4. PICK s, n : Remaining(s, n, left, kept)
  BY <1>1, RemainingIs
<1>5. ItemTypes /\ 1 \in Freqs /\ k \notin kept /\ kept \subseteq Stored
  BY <1>2, <1>3, ItemsAssumption DEF Freqs, Leaves, LfuInv
<1>6. PICK l, m : l = left[1] /\ m = Cons(k, l)
  OBVIOUS
<1>7. l \in Seq(Key) /\ \A j : IsIn(l, j) <=> j \in kept /\ index[j][2] = 1
  BY <1>3, <1>5, <1>6 DEF Leaves
<1>8. \A f \in Freqs : lists'[f] = IF f = 1 THEN m ELSE left[f]
  BY <1>2, <1>3, <1>5, <1>6 DEF Leaves
<1>9. /\ Stored' = kept \cup {k}
      /\ index'[k] = <<v, 1>> /\ \A j \in kept : index'[j] = index[j]
  BY <1>2, <1>5 DEF Stored
<1>10. /\ s \in Seq(Key) /\ SortedBy(s, Earlier) /\ \A j : IsIn(s, j) <=> j \in kept
       /\ \A f \in Freqs : \A a, b :
            a \in kept /\ b \in kept /\ Precedes(lists[f], a, b) => Precedes(left[f], a, b)
  BY <1>4 DEF Remaining
<1>11. \A a, b : Precedes(l, a, b) => Precedes(m, a, b)
  BY <1>6, <1>7, PrecedesCons
<1>12. \A a : IsIn(l, a) => Precedes(m, k, a)
  BY <1>6, <1>7, PrecedesCons
<1>13. ASSUME NEW a \in kept, NEW b \in kept, <<a, b>> \in Earlier
       PROVE  <<a, b>> \in Earlier'
  <2>1. /\ a \in Stored' /\ b \in Stored' /\ index'[a] = index[a] /\ index'[b] = index[b]
    BY <1>9
  <2>2. PICK f \in Freqs : f = index[a][2]
    BY <1>5 DEF ItemTypes
  <2>3. CASE index[a][2] > index[b][2]
    BY <2>1, <2>3 DEF Earlier
  <2>4. CASE f = index[b][2] /\ Precedes(lists[f], a, b)
    <3>1. Precedes(left[f], a, b)
      BY <1>10, <2>4
    <3>2. Precedes(lists'[f], a, b)
      BY <1>6, <1>8, <1>11, <3>1
    <3>3. index'[a][2] = f /\ index'[b][2] = f
      BY <2>1, <2>2, <2>4
    <3> QED
      BY <2>1, <3>2, <3>3 DEF Earlier, Precedes
  <2> QED
    BY <1>13, <2>2, <2>3, <2>4, EarlierIs
<1>14. ASSUME NEW j \in kept
       PROVE  IF index[j][2] > 1 THEN <<j, k>> \in Earlier' ELSE <<k, j>> \in Earlier'
  <2>1. j \in Stored' /\ k \in Stored' /\ index'[j] = index[j] /\ index'[k][2] = 1
    BY <1>9
  <2>2. PICK f \in Freqs : f = index[j][2]
    BY <1>5 DEF ItemTypes
  <2>3. CASE f > 1
    BY <2>1, <2>2, <2>3 DEF Earlier
  <2>4. CASE f = 1
    <3>1. IsIn(l, j)
      BY <1>7, <2>2, <2>4
    <3>2. Precedes(lists'[1], k, j)
      BY <1>5, <1>8, <1>12, <3>1
    <3>3. index'[j][2] = 1 /\ ~(index[j][2] > 1)
      BY <2>1, <2>2, <2>4
    <3> QED
      BY <2>1, <3>2, <3>3 DEF Earlier, Precedes
  <2> QED
    BY <2>2, <2>3, <2>4 DEF Freqs
<1>15. Joins(k, 1, s)
  <2>1. ~IsIn(s, k) /\ k \in Stored' /\ index'[k][2] = 1
    BY <1>5, <1>9, <1>10
  <2>2. \A j : IsIn(s, j) => j \in Stored /\ index'[j] = index[j]
    BY <1>5, <1>9, <1>10
  <2>3. \A j : j \in Stored' <=> j = k \/ IsIn(s, j)
    BY <1>9, <1>10
  <2> QED
    BY <1>10, <1>13, <1>14, <2>1, <2>2, <2>3 DEF Joins
<1>16. LfuCache!Rank(s, k, 1)
  BY <1>5, <1>15, JoinedIs
<1>17. Values' = [j \in Key |->
                    IF j = k THEN v ELSE IF Uses'[j] > 0 THEN Values[j] ELSE Absent]
  <2>1. ASSUME NEW j \in Key
        PROVE  Values'[j] = IF j = k THEN v ELSE IF Uses'[j] > 0 THEN Values[j] ELSE Absent
    <3>1. CASE j \in kept
      <4>1. index'[j] = index[j] /\ j \in Stored /\ j \in Stored' /\ j # k /\ index[j][2] \in Freqs
        BY <1>5, <1>9, <3>1 DEF ItemTypes
      <4>2. Uses'[j] > 0
        BY <4>1 DEF Uses, Freqs
      <4> QED
        BY <4>1, <4>2 DEF Values
    <3>2. CASE j = k
      BY <1>9, <3>2 DEF Values
    <3>3. CASE j \notin kept /\ j # k
      BY <1>9, <3>3 DEF Values, Uses
    <3> QED
      BY <3>1, <3>2, <3>3
  <2>2. Values' = [j \in Key |-> Values'[j]]
    BY DEF Values
  <2> QED
    BY <2>1, <2>2
<1>18. LfuCache!Expiry(k)
  BY DEF LfuCache!Expiry
<1>19. Values[k] = Absent
  BY <1>2, ValuesAre
<1>20. PICK o : o = EvictionOrder
  OBVIOUS
<1>21. /\ n \in 0 .. Len(o) /\ s = SubSeq(o, 1, Len(o) - n) /\ Len(s) < MaxItems
       /\ n = 0 \/ (n = 1 /\ Len(o) = MaxItems)
  BY <1>4, <1>20 DEF Remaining
<1>22. o \in Seq(Key)
  BY <1>20 DEF OrderRight
<1>23. \/ LfuCache!ToSet(o) \ LfuCache!ToSet(s) \subseteq {}
       \/ n = 1 /\ Len(o) = MaxItems
  <2>1. CASE n = 0
    <3>1. s = o
      BY <1>21, <1>22, <2>1
    <3> QED
      BY <3>1
  <2> QED
    BY <1>21, <2>1
<1>24. \E h \in 0 .. Len(o) :
         LET rest == SubSeq(o, 1, Len(o) - h)
         IN  /\ Len(rest) < MaxItems
             /\ \/ LfuCache!ToSet(o) \ LfuCache!ToSet(rest) \subseteq {}
                \/ h = 1 /\ Len(o) = MaxItems
             /\ LfuCache!Rank(rest, k, 1)
  <2>1. LfuCache!Rank(SubSeq(o, 1, Len(o) - n), k, 1)
    BY <1>16, <1>21 DEF LfuCache!Rank
  <2> QED
    BY <1>21, <1>23, <2>1
<1> QED
  BY <1>17, <1>18, <1>19, <1>20, <1>24 DEF LfuCache!Store, Values, Uses, EvictionOrder

\* Every step is a step of the cache, or none.
LEMMA LfuCacheStep ==
  ASSUME LfuInv, OrderRight, OrderRight', [LfuNext]_lfu
  PROVE  [LfuCache!Next]_<<Values, EvictionOrder, Uses, {}, lfuAnswer>>
<1>1. CASE LfuNext
  <2>1. PICK k \in Key : GetItem(k) \/ \E v \in Value : PutItem(k, v)
    BY <1>1 DEF LfuNext
  <2>2. ASSUME NEW v \in Value, PutItem(k, v)
        PROVE  LfuCache!Overwrite(k, v) \/ LfuCache!Store(k, v)
    BY <2>2, LfuOverwriteIs, LfuStoreIs DEF PutItem
  <2> QED
    BY <2>1, <2>2, LfuGetIs DEF LfuCache!Next
<1>2. CASE UNCHANGED lfu
  BY <1>2 DEF lfu, Values, Uses, EvictionOrder, Stored
<1> QED
  BY <1>1, <1>2

\* The LFU cache is a cache: its lists, its index and its least frequency agree
\* on every key, and put evicts one used least, of several the one whose last
\* use is longest ago, and only when the cache is full.
THEOREM LfuImplements == LfuSpec => LfuIsCache
<1>1. LfuInit => LfuCache!Init
  <2> SUFFICES ASSUME LfuInit PROVE LfuCache!Init
    OBVIOUS
  <2>1. lfuAnswer = <<>> /\ Stored = {}
    BY DEF LfuInit, Stored
  <2>2. LfuInv
    BY LfuInitHolds
  <2>3. OrderRight
    BY <2>2, OrderHolds
  <2>4. EvictionOrder = <<>>
    <3>1. PICK o : o = EvictionOrder
      OBVIOUS
    <3>2. o \in Seq(Key) /\ Len(o) = 0
      BY <2>1, <2>3, <3>1, FS_EmptySet DEF OrderRight
    <3> QED
      BY <3>1, <3>2, EmptySeq
  <2>5. Values = [k \in Key |-> Absent] /\ Uses = [k \in Key |-> 0]
    BY <2>1 DEF Values, Uses
  <2> QED
    BY <2>1, <2>4, <2>5 DEF LfuCache!Init, Values, Uses, EvictionOrder
<1>2. LfuInv /\ OrderRight /\ OrderRight' /\ [LfuNext]_lfu
        => [LfuCache!Next]_<<Values, EvictionOrder, Uses, {}, lfuAnswer>>
  BY LfuCacheStep
<1> QED
  BY <1>1, <1>2, LfuInvHolds, OrderHolds, PTL
  DEF LfuSpec, LfuIsCache, LfuCache!Spec, Values, Uses, EvictionOrder
=============================================================================
