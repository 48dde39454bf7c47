---------------------------- MODULE AtomicsProofs ----------------------------
(***************************************************************************)
(* What is built on atomic operations: the spin lock loses no update, for  *)
(* any threads and any number of them; shared objects live exactly as long *)
(* as a pointer owns them, for any number of pointers and objects; and the *)
(* ring buffer never races on a slot and implements the bounded queue of   *)
(* Fifo, for any items, any capacity and any width of the counters: as     *)
(* long as the counters have not wrapped, and for ever if the capacity     *)
(* divides 2^w.                                                            *)
(***************************************************************************)
EXTENDS SpinLock, SharedPtr, SPSCQueue, FiniteSetTheorems, SequenceTheorems, TLAPS

-----------------------------------------------------------------------------
(* The spin lock *)

LockTypes ==
  /\ flag \in [set : BOOLEAN, seen : Nat]
  /\ writes \in Nat
  /\ seen \in [Thread -> Nat]
  /\ holding \in [Thread -> BOOLEAN]

\* Nobody has seen more than was written, nor does the flag carry more.
SeenIsWritten ==
  /\ flag.seen <= writes
  /\ \A t \in Thread : seen[t] <= writes

\* A clear flag carries every increment, to whoever acquires it next.
ClearCarriesAll == ~flag.set => flag.seen = writes

\* The owner of the lock has set the flag and seen every increment.
OwnerSeesAll == \A t \in Thread : holding[t] => flag.set /\ seen[t] = writes

OneOwner == \A t, u \in Thread : holding[t] /\ holding[u] => t = u

LockInv == LockTypes /\ SeenIsWritten /\ ClearCarriesAll /\ OwnerSeesAll /\ OneOwner

-----------------------------------------------------------------------------

\* What t knows after test_and_set: what it knew, or what the flag carried.
LEMMA AcquiredBounds ==
  ASSUME LockInv, NEW t \in Thread
  PROVE  /\ Acquired(t) \in Nat
         /\ Acquired(t) <= writes
         /\ flag.seen = writes => Acquired(t) = writes
  BY DEF LockInv, LockTypes, SeenIsWritten, Acquired

\* The invariant is kept by each of the four steps.
LEMMA LockKeeps ==
  ASSUME LockInv, NEW t \in Thread, Lock(t)
  PROVE  LockInv'
<1>1. /\ Acquired(t) \in Nat
      /\ Acquired(t) = writes
  BY AcquiredBounds DEF LockInv, ClearCarriesAll, Lock
<1>2. \A u \in Thread : ~holding[u]
  BY DEF LockInv, OwnerSeesAll, Lock
<1>3. LockTypes'
  BY <1>1 DEF LockInv, LockTypes, Lock
<1>4. SeenIsWritten' /\ ClearCarriesAll' /\ OwnerSeesAll'
  BY <1>1, <1>2 DEF LockInv, LockTypes, SeenIsWritten, ClearCarriesAll, OwnerSeesAll,
                    Lock
<1>5. OneOwner'
  BY <1>2 DEF LockInv, LockTypes, OneOwner, Lock
<1> QED
  BY <1>3, <1>4, <1>5 DEF LockInv

\* A test_and_set that finds the flag set only learns.
LEMMA SpinKeeps ==
  ASSUME LockInv, NEW t \in Thread, Spin(t)
  PROVE  LockInv'
  BY AcquiredBounds
  DEF LockInv, LockTypes, SeenIsWritten, ClearCarriesAll, OwnerSeesAll, OneOwner, Spin

\* Nobody but the owner writes, and the flag stays set meanwhile.
LEMMA IncrementKeeps ==
  ASSUME LockInv, NEW t \in Thread, Increment(t)
  PROVE  LockInv'
<1>1. flag.set /\ seen[t] = writes /\ \A u \in Thread : holding[u] => u = t
  BY DEF LockInv, OwnerSeesAll, OneOwner, Increment
<1> QED
  BY <1>1
  DEF LockInv, LockTypes, SeenIsWritten, ClearCarriesAll, OwnerSeesAll, OneOwner,
      Increment

\* clear releases all the increments, since the owner has seen them.
LEMMA UnlockKeeps ==
  ASSUME LockInv, NEW t \in Thread, Unlock(t)
  PROVE  LockInv'
<1>1. seen[t] = writes /\ \A u \in Thread : holding[u] => u = t
  BY DEF LockInv, OwnerSeesAll, OneOwner, Unlock
<1> QED
  BY <1>1
  DEF LockInv, LockTypes, SeenIsWritten, ClearCarriesAll, OwnerSeesAll, OneOwner,
      Unlock, Clear

\* The lock excludes, and what was written under it is seen by the next owner
\* (lock, unlock), for every set of threads, also if the flag is set at first.
THEOREM LockIsSafe == LockSpec => []NoLostUpdate
<1>1. LockInit => LockInv
  BY DEF LockInit, LockInv, LockTypes, SeenIsWritten, ClearCarriesAll, OwnerSeesAll,
         OneOwner
<1>2. LockInv /\ [LockNext]_lock => LockInv'
  <2> SUFFICES ASSUME LockInv, [LockNext]_lock
               PROVE  LockInv'
    OBVIOUS
  <2>1. CASE UNCHANGED lock
    BY <2>1
    DEF lock, LockInv, LockTypes, SeenIsWritten, ClearCarriesAll, OwnerSeesAll, OneOwner
  <2>2. ASSUME NEW t \in Thread, Lock(t) \/ Spin(t) \/ Increment(t) \/ Unlock(t)
        PROVE  LockInv'
    BY <2>2, LockKeeps, SpinKeeps, IncrementKeeps, UnlockKeeps
  <2> QED
    BY <2>1, <2>2 DEF LockNext
<1>3. LockInv => NoLostUpdate
  BY DEF LockInv, LockTypes, OwnerSeesAll, OneOwner, NoLostUpdate
<1> QED
  BY <1>1, <1>2, <1>3, PTL DEF LockSpec

-----------------------------------------------------------------------------
(* Shared pointers: the invariant *)

Work == [step : {"idle", "release", "delete", "add"},
         from : Pointer \union {None}, move : BOOLEAN]

PointersTypes ==
  /\ data \in [Pointer -> Object \union {None}]
  /\ count \in [Object -> Int]
  /\ deleted \in [Object -> {-1, 0, 1}]
  /\ work \in [Pointer -> Work]

\* An object is alive if and only if a pointer refers to it.
AliveIffOwned ==
  \A o \in Object : deleted[o] = 0 <=> \E p \in Pointer : data[p] = o

\* The source of a copy or a move stays as it is until its fields are taken,
\* and a moved source has one taker.
SourcesIdle ==
  \A p \in Pointer : work[p].from # None =>
    work[p].from # p /\ work[work[p].from] = Idle

MovesAlone ==
  \A p, r \in Pointer :
    work[p].from # None /\ work[p].from = work[r].from /\ work[p].move => p = r

\* A copy that has not counted itself yet has a source that is counted.
AddKnown ==
  \A p \in Pointer : work[p].step = "add" =>
    /\ work[p].from # None /\ ~work[p].move
    /\ data[p] # None /\ data[work[p].from] = data[p]

\* Who is about to delete an object is the only one to refer to it.
DeleteAlone ==
  \A p \in Pointer : work[p].step = "delete" =>
    data[p] # None /\ \A r \in Pointer : data[r] = data[p] => r = p

\* The pointers to o, without those that have not added themselves yet and
\* those that have already taken themselves off.
Counted(o) ==
  {p \in Pointer : data[p] = o /\ work[p].step \notin {"add", "delete"}}

CountRight == \A o \in Object : count[o] = Cardinality(Counted(o))

PointersInv ==
  /\ PointersTypes /\ AliveIffOwned
  /\ SourcesIdle /\ MovesAlone
  /\ AddKnown /\ DeleteAlone
  /\ CountRight

-----------------------------------------------------------------------------
(* Counting *)

\* A count has a value, as there are finitely many pointers.
LEMMA CountedFinite ==
  ASSUME NEW o
  PROVE  IsFiniteSet(Counted(o)) /\ Counted(o) \subseteq Pointer
  BY PointerAssumption, FS_Subset DEF Counted

\* One member of a set gives its place to another.
LEMMA Exchange ==
  ASSUME NEW S, IsFiniteSet(S), NEW p \in S, NEW q, q \notin S
  PROVE  Cardinality((S \ {p}) \union {q}) = Cardinality(S)
<1>1. IsFiniteSet(S \ {p}) /\ Cardinality(S \ {p}) = Cardinality(S) - 1
  BY FS_RemoveElement
<1>2. q \notin S \ {p}
  OBVIOUS
<1>3. Cardinality((S \ {p}) \union {q}) = Cardinality(S \ {p}) + 1
  BY <1>1, <1>2, FS_AddElement
<1> QED
  BY <1>1, <1>3, FS_CardinalityType

\* A pointer that does nothing is counted.
LEMMA IdleCounted ==
  ASSUME NEW p \in Pointer, work[p] = Idle, NEW o, data[p] = o
  PROVE  p \in Counted(o)
  BY DEF Counted, Idle

\* Nothing refers to an object that was never made or was deleted.
LEMMA UnusedUncounted ==
  ASSUME PointersInv, NEW o \in Object, deleted[o] # 0
  PROVE  (\A p \in Pointer : data[p] # o) /\ Counted(o) = {}
  BY DEF PointersInv, AliveIffOwned, Counted

\* A copy on its way to being counted, and its source.
LEMMA CopyKnown ==
  ASSUME PointersInv, NEW r \in Pointer, work[r].step = "add"
  PROVE  /\ work[r] # Idle /\ work[r].from \in Pointer /\ ~work[r].move
         /\ data[r] # None /\ data[work[r].from] = data[r]
  BY DEF PointersInv, PointersTypes, Work, AddKnown, Idle

-----------------------------------------------------------------------------
(* The steps that begin an operation *)

\* A pointer without data is given a new object.
LEMMA ConstructKeeps ==
  ASSUME PointersInv, NEW p \in Pointer, NEW o \in Object, Construct(p, o)
  PROVE  PointersInv'
<1> USE PointerAssumption DEF PointersInv, PointersTypes
<1>1. CASE /\ data' = [data EXCEPT ![p] = o]
           /\ count' = [count EXCEPT ![o] = 1]
           /\ deleted' = [deleted EXCEPT ![o] = 0]
  <2>1. /\ work' = work /\ work[p] = Idle /\ data[p] = None
        /\ deleted[o] = -1 /\ \A r \in Pointer : work[r].from # p
    BY DEF Construct, Writable, Users
  <2>2. \A r \in Pointer : data[r] # o
    BY <2>1, UnusedUncounted
  <2>3. PointersTypes'
    BY <1>1, <2>1
  <2>4. AliveIffOwned'
    BY <1>1, <2>1, <2>2 DEF AliveIffOwned
  <2>5. SourcesIdle' /\ MovesAlone'
    BY <2>1 DEF SourcesIdle, MovesAlone
  <2>6. AddKnown'
    BY <1>1, <2>1 DEF AddKnown, Idle
  <2>7. DeleteAlone'
    BY <1>1, <2>1, <2>2 DEF DeleteAlone, Idle
  <2>8. CountRight'
    <3> SUFFICES ASSUME NEW x \in Object
                 PROVE  count'[x] = Cardinality(Counted(x)')
      BY DEF CountRight
    <3>1. CASE x = o
      <4>1. Counted(x)' = {p}
        BY <1>1, <2>1, <2>2, <3>1 DEF Counted, Idle
      <4> QED
        BY <1>1, <3>1, <4>1, FS_Singleton
    <3>2. CASE x # o
      <4>1. Counted(x)' = Counted(x)
        BY <1>1, <2>1, <3>2 DEF Counted
      <4> QED
        BY <1>1, <3>2, <4>1 DEF CountRight
    <3> QED
      BY <3>1, <3>2
  <2> QED
    BY <2>3, <2>4, <2>5, <2>6, <2>7, <2>8
<1>2. CASE deleted' = [deleted EXCEPT ![o] = 1] /\ UNCHANGED <<data, count>>
  <2>1. work' = work /\ deleted[o] = -1
    BY DEF Construct
  <2> QED
    BY <1>2, <2>1
    DEF AliveIffOwned, SourcesIdle, MovesAlone, AddKnown, DeleteAlone, CountRight,
        Counted
<1> QED
  BY <1>1, <1>2 DEF Construct

\* A pointer starts to let go of what it has; the source it will take from
\* may be used that way.
LEMMA BeginKeeps ==
  ASSUME PointersInv, NEW p \in Pointer, NEW q \in Pointer \union {None}, q # p,
         NEW move \in BOOLEAN, Writable(p),
         q # None => IF move THEN Writable(q) ELSE Readable(q),
         Goto(p, Rest("release", q, move)), UNCHANGED <<data, count, deleted>>
  PROVE  PointersInv'
<1> USE PointerAssumption DEF PointersInv, PointersTypes
<1>1. /\ work[p] = Idle /\ \A r \in Pointer : work[r].from # p
      /\ work' = [work EXCEPT ![p] = Rest("release", q, move)]
      /\ data' = data /\ count' = count /\ deleted' = deleted
  BY DEF Writable, Users, Goto
<1>2. q # None => work[q] = Idle
                  /\ \A r \in Pointer : work[r].from = q => ~move /\ ~work[r].move
  BY DEF Writable, Readable, Users
<1>3. PointersTypes'
  BY <1>1 DEF Rest, Work
<1>4. AliveIffOwned'
  BY <1>1 DEF AliveIffOwned
<1>5. SourcesIdle'
  BY <1>1, <1>2 DEF SourcesIdle, Rest
<1>6. MovesAlone'
  BY <1>1, <1>2 DEF MovesAlone, Rest
<1>7. AddKnown' /\ DeleteAlone'
  BY <1>1 DEF AddKnown, DeleteAlone, Rest
<1>8. \A o : Counted(o)' = Counted(o)
  BY <1>1 DEF Counted, Rest, Idle
<1> QED
  BY <1>1, <1>3, <1>4, <1>5, <1>6, <1>7, <1>8 DEF CountRight

\* Two pointers that do nothing exchange what they have.
LEMMA SwapKeeps ==
  ASSUME PointersInv, NEW p \in Pointer, NEW q \in Pointer, Swap(p, q)
  PROVE  PointersInv'
<1> USE PointerAssumption DEF PointersInv, PointersTypes
<1>1. /\ work[p] = Idle /\ \A r \in Pointer : work[r].from # p
      /\ work[q] = Idle /\ \A r \in Pointer : work[r].from # q
      /\ data' = [data EXCEPT ![p] = data[q], ![q] = data[p]]
      /\ work' = work /\ count' = count /\ deleted' = deleted /\ p # q
  BY DEF Swap, Writable, Users
<1>2. PointersTypes'
  BY <1>1
<1>3. AliveIffOwned'
  BY <1>1 DEF AliveIffOwned
<1>4. SourcesIdle' /\ MovesAlone'
  BY <1>1 DEF SourcesIdle, MovesAlone
<1>5. AddKnown'
  <2> SUFFICES ASSUME NEW r \in Pointer, work[r].step = "add"
               PROVE  /\ work[r].from # None /\ ~work[r].move
                      /\ data'[r] # None /\ data'[work[r].from] = data'[r]
    BY <1>1 DEF AddKnown
  <2>1. r # p /\ r # q /\ work[r].from \in Pointer
    BY <1>1, CopyKnown
  <2> QED
    BY <1>1, <2>1, CopyKnown
<1>6. DeleteAlone'
  BY <1>1 DEF DeleteAlone, Idle
<1>7. CountRight'
  <2> SUFFICES ASSUME NEW o \in Object
               PROVE  Cardinality(Counted(o)') = Cardinality(Counted(o))
    BY <1>1 DEF CountRight
  <2>1. CASE (data[p] = o) <=> (data[q] = o)
    BY <1>1, <2>1 DEF Counted
  <2>2. CASE data[p] = o /\ data[q] # o
    <3>1. p \in Counted(o) /\ q \notin Counted(o)
      BY <1>1, <2>2 DEF Counted, Idle
    <3>2. Counted(o)' = (Counted(o) \ {p}) \union {q}
      BY <1>1, <2>2 DEF Counted, Idle
    <3> QED
      BY <3>1, <3>2, CountedFinite, Exchange
  <2>3. CASE data[q] = o /\ data[p] # o
    <3>1. q \in Counted(o) /\ p \notin Counted(o)
      BY <1>1, <2>3 DEF Counted, Idle
    <3>2. Counted(o)' = (Counted(o) \ {q}) \union {p}
      BY <1>1, <2>3 DEF Counted, Idle
    <3> QED
      BY <3>1, <3>2, CountedFinite, Exchange
  <2> QED
    BY <2>1, <2>2, <2>3
<1> QED
  BY <1>2, <1>3, <1>4, <1>5, <1>6, <1>7

\* reset: p gets the new object, the temporary lets go of the old one.
LEMMA ResetKeeps ==
  ASSUME PointersInv, NEW p \in Pointer, NEW temp \in Pointer, NEW o \in Object,
         Reset(p, temp, o)
  PROVE  PointersInv'
<1> USE PointerAssumption DEF PointersInv, PointersTypes
<1>1. CASE /\ data' = [data EXCEPT ![p] = o, ![temp] = data[p]]
           /\ count' = [count EXCEPT ![o] = 1]
           /\ deleted' = [deleted EXCEPT ![o] = 0]
           /\ Goto(temp, Rest("release", None, FALSE))
  <2>1. /\ work' = [work EXCEPT ![temp] = Rest("release", None, FALSE)]
        /\ work[p] = Idle /\ work[temp] = Idle /\ p # temp
        /\ \A r \in Pointer : work[r].from # p /\ work[r].from # temp
        /\ data[temp] = None /\ deleted[o] = -1
    BY <1>1 DEF Reset, Writable, Users, Goto
  <2>2. (\A r \in Pointer : data[r] # o) /\ Counted(o) = {}
    BY <2>1, UnusedUncounted
  <2>3. PointersTypes'
    BY <1>1, <2>1 DEF Rest, Work
  <2>4. AliveIffOwned'
    BY <1>1, <2>1, <2>2 DEF AliveIffOwned
  <2>5. SourcesIdle' /\ MovesAlone'
    BY <2>1 DEF SourcesIdle, MovesAlone, Rest
  <2>6. AddKnown'
    <3> SUFFICES ASSUME NEW r \in Pointer, work'[r].step = "add"
                 PROVE  /\ work'[r].from # None /\ ~work'[r].move
                        /\ data'[r] # None /\ data'[work'[r].from] = data'[r]
      BY DEF AddKnown
    <3>1. r # temp /\ work'[r] = work[r]
      BY <2>1 DEF Rest
    <3>2. r # p /\ work[r].from \in Pointer
      BY <2>1, <3>1, CopyKnown
    <3> QED
      BY <1>1, <2>1, <3>1, <3>2, CopyKnown
  <2>7. DeleteAlone'
    BY <1>1, <2>1, <2>2 DEF DeleteAlone, Rest, Idle
  <2>8. CountRight'
    <3> SUFFICES ASSUME NEW x \in Object
                 PROVE  count'[x] = Cardinality(Counted(x)')
      BY DEF CountRight
    <3>1. CASE x = o
      <4>1. Counted(x)' = {p}
        BY <1>1, <2>1, <2>2, <3>1 DEF Counted, Rest, Idle
      <4> QED
        BY <1>1, <3>1, <4>1, FS_Singleton
    <3>2. CASE x # o /\ x = data[p]
      <4>1. p \in Counted(x) /\ temp \notin Counted(x)
        BY <2>1, <3>2 DEF Counted, Idle
      <4>2. Counted(x)' = (Counted(x) \ {p}) \union {temp}
        BY <1>1, <2>1, <3>2 DEF Counted, Rest, Idle
      <4> QED
        BY <1>1, <3>2, <4>1, <4>2, CountedFinite, Exchange DEF CountRight
    <3>3. CASE x # o /\ x # data[p]
      <4>1. Counted(x)' = Counted(x)
        BY <1>1, <2>1, <3>3 DEF Counted, Rest, Idle
      <4> QED
        BY <1>1, <3>3, <4>1 DEF CountRight
    <3> QED
      BY <3>1, <3>2, <3>3
  <2> QED
    BY <2>3, <2>4, <2>5, <2>6, <2>7, <2>8
<1>2. CASE deleted' = [deleted EXCEPT ![o] = 1] /\ UNCHANGED <<data, count, work>>
  <2>1. deleted[o] = -1
    BY DEF Reset
  <2> QED
    BY <1>2, <2>1
    DEF AliveIffOwned, SourcesIdle, MovesAlone, AddKnown, DeleteAlone, CountRight,
        Counted
<1> QED
  BY <1>1, <1>2 DEF Reset

-----------------------------------------------------------------------------
(* The steps that end one *)

\* A pointer that has let go takes over the fields of its source: apart from
\* the count, which the last release has to get right, nothing is disturbed.
LEMMA TakeEffect ==
  ASSUME PointersInv, NEW p \in Pointer, Take(p), work[p].step \in {"release", "delete"}
  PROVE  /\ data' \in [Pointer -> Object \union {None}] /\ work' \in [Pointer -> Work]
         /\ SourcesIdle' /\ MovesAlone' /\ AddKnown' /\ DeleteAlone'
         /\ \A o \in Object :
              /\ (\E r \in Pointer : data'[r] = o) <=> \E r \in Pointer \ {p} : data[r] = o
              /\ Cardinality(Counted(o)') = Cardinality(Counted(o) \ {p})
<1> USE PointerAssumption DEF PointersInv, PointersTypes
<1> DEFINE q == work[p].from
           new == IF q = None THEN None ELSE data[q]
           next == IF work[p].move \/ new = None THEN Idle ELSE Rest("add", q, FALSE)
<1>1. /\ data' = [r \in Pointer |-> IF r = p THEN new
                                    ELSE IF r = q /\ work[p].move THEN None ELSE data[r]]
      /\ work' = [work EXCEPT ![p] = next]
  BY DEF Take, Goto
<1>2. q \in Pointer \union {None} /\ new \in Object \union {None} /\ next \in Work
  BY DEF Work, Idle, Rest
<1>3. q # None => q \in Pointer /\ q # p /\ work[q] = Idle
  BY <1>2 DEF SourcesIdle
<1>4. \A r \in Pointer : work[r].from # p
  BY DEF SourcesIdle, Idle
<1>5. \A r \in Pointer : r # p => work'[r] = work[r]
  BY <1>1
<1>6. work'[p] = next /\ (next = Idle \/ (next = Rest("add", q, FALSE) /\ q # None /\ ~work[p].move))
  BY <1>1
<1> HIDE DEF q, new, next
<1>7. data' \in [Pointer -> Object \union {None}] /\ work' \in [Pointer -> Work]
  BY <1>1, <1>2
<1>8. SourcesIdle'
  <2> SUFFICES ASSUME NEW r \in Pointer, work'[r].from # None
               PROVE  work'[r].from # r /\ work'[work'[r].from] = Idle
    BY DEF SourcesIdle
  <2>1. CASE r = p
    BY <1>3, <1>5, <1>6, <2>1 DEF Idle, Rest
  <2>2. CASE r # p
    BY <1>4, <1>5, <2>2 DEF SourcesIdle, Work
  <2> QED
    BY <2>1, <2>2
<1>9. MovesAlone'
  BY <1>5, <1>6 DEF MovesAlone, Idle, Rest, q
<1>10. AddKnown'
  <2> SUFFICES ASSUME NEW r \in Pointer, work'[r].step = "add"
               PROVE  /\ work'[r].from # None /\ ~work'[r].move
                      /\ data'[r] # None /\ data'[work'[r].from] = data'[r]
    BY DEF AddKnown
  <2>1. CASE r = p
    BY <1>1, <1>3, <1>6, <2>1 DEF Idle, Rest, new, next
  <2>2. CASE r # p
    <3>1. /\ work'[r] = work[r] /\ work[r].from \in Pointer /\ work[r].from # p
          /\ data[r] # None /\ data[work[r].from] = data[r] /\ ~work[r].move
      BY <1>4, <1>5, <2>2 DEF AddKnown, Work
    <3>2. ~(r = q /\ work[p].move)
      BY <1>3, <3>1 DEF Idle
    <3>3. ~(work[r].from = q /\ work[p].move)
      BY <2>2, <3>1 DEF MovesAlone, q
    <3> QED
      BY <1>1, <2>2, <3>1, <3>2, <3>3
  <2> QED
    BY <2>1, <2>2
<1>11. DeleteAlone'
  <2> SUFFICES ASSUME NEW r \in Pointer, work'[r].step = "delete"
               PROVE  data'[r] # None /\ \A s \in Pointer : data'[s] = data'[r] => s = r
    BY DEF DeleteAlone
  <2>1. r # p /\ work[r].step = "delete"
    BY <1>5, <1>6 DEF Idle, Rest
  <2>2. r # q /\ data[r] # None /\ \A s \in Pointer : data[s] = data[r] => s = r
    BY <1>3, <2>1 DEF DeleteAlone, Idle
  <2>3. new # data[r]
    BY <1>3, <2>2 DEF new
  <2> QED
    BY <1>1, <2>1, <2>2, <2>3
<1>12. ASSUME NEW o \in Object
       PROVE  (\E r \in Pointer : data'[r] = o) <=> \E r \in Pointer \ {p} : data[r] = o
  <2>1. ASSUME NEW r \in Pointer, data'[r] = o
        PROVE  \E s \in Pointer \ {p} : data[s] = o
    BY <1>1, <1>3, <2>1 DEF new
  <2>2. ASSUME NEW r \in Pointer \ {p}, data[r] = o
        PROVE  \E s \in Pointer : data'[s] = o
    BY <1>1, <1>3, <2>2 DEF new
  <2> QED
    BY <2>1, <2>2
<1>13. ASSUME NEW o \in Object
       PROVE  Cardinality(Counted(o)') = Cardinality(Counted(o) \ {p})
  <2>1. IsFiniteSet(Counted(o) \ {p})
    BY CountedFinite, FS_RemoveElement
  <2>2. CASE work[p].move /\ new = o
    <3>1. q \in Counted(o) \ {p} /\ p \notin Counted(o) \ {p}
      BY <1>3, <2>2, IdleCounted DEF new
    <3>2. Counted(o)' = ((Counted(o) \ {p}) \ {q}) \union {p}
      BY <1>1, <1>3, <1>5, <1>6, <2>2 DEF Counted, Idle, Rest, new
    <3>3. ASSUME NEW S, IsFiniteSet(S), q \in S, p \notin S
          PROVE  Cardinality((S \ {q}) \union {p}) = Cardinality(S)
      BY <3>3, Exchange
    <3> QED
      BY <2>1, <3>1, <3>2, <3>3
  <2>3. CASE ~(work[p].move /\ new = o)
    <3>1. ASSUME NEW r \in Pointer
          PROVE  r \in Counted(o)' <=> r \in Counted(o) \ {p}
      <4>1. CASE r = p
        BY <1>1, <1>6, <2>3, <4>1 DEF Counted, Idle, Rest, new, next
      <4>2. CASE r # p /\ r = q /\ work[p].move
        BY <1>1, <1>5, <2>3, <4>2 DEF Counted, new
      <4>3. CASE r # p /\ ~(r = q /\ work[p].move)
        BY <1>1, <1>5, <4>3 DEF Counted
      <4> QED
        BY <4>1, <4>2, <4>3
    <3>2. Counted(o)' \subseteq Pointer /\ Counted(o) \subseteq Pointer
      BY DEF Counted
    <3>3. Counted(o)' = Counted(o) \ {p}
      BY <3>1, <3>2
    <3> QED
      BY <3>3
  <2> QED
    BY <2>2, <2>3
<1> QED
  BY <1>7, <1>8, <1>9, <1>10, <1>11, <1>12, <1>13

\* fetch_sub, and what follows when it was not the last pointer, or there was
\* nothing to let go of.
LEMMA ReleaseKeeps ==
  ASSUME PointersInv, NEW p \in Pointer, Release(p)
  PROVE  PointersInv'
<1> USE PointerAssumption DEF PointersInv, PointersTypes
<1> DEFINE o == data[p]
<1>1. work[p].step = "release" /\ deleted' = deleted
  BY DEF Release
<1>2. CASE o = None
  <2>1. Take(p) /\ count' = count
    BY <1>2 DEF Release
  <2>2. \A x \in Object : Counted(x) \ {p} = Counted(x)
                          /\ \A r \in Pointer : data[r] = x => r # p
    BY <1>2 DEF Counted
  <2>3. /\ data' \in [Pointer -> Object \union {None}] /\ work' \in [Pointer -> Work]
        /\ SourcesIdle' /\ MovesAlone' /\ AddKnown' /\ DeleteAlone'
    BY <1>1, <2>1, TakeEffect
  <2>4. \A x \in Object : Cardinality(Counted(x)') = Cardinality(Counted(x))
    BY <1>1, <2>1, <2>2, TakeEffect
  <2>5. \A x \in Object : (\E r \in Pointer : data'[r] = x) <=> \E r \in Pointer : data[r] = x
    <3> TAKE x \in Object
    <3>1. (\E r \in Pointer : data'[r] = x) <=> \E r \in Pointer \ {p} : data[r] = x
      BY <1>1, <2>1, TakeEffect
    <3> QED
      BY <2>2, <3>1
  <2>6. AliveIffOwned'
    BY <1>1, <2>5 DEF AliveIffOwned
  <2>7. CountRight'
    BY <2>1, <2>4 DEF CountRight
  <2> QED
    BY <1>1, <2>1, <2>3, <2>6, <2>7
<1>3. CASE o # None
  <2>1. o \in Object /\ count' = [count EXCEPT ![o] = @ - 1]
    BY <1>3 DEF Release
  <2>2. p \in Counted(o) /\ \A x \in Object : x # o => p \notin Counted(x)
    BY <1>1 DEF Counted
  <2>3. \A x \in Object : count'[x] = Cardinality(Counted(x) \ {p})
    <3> TAKE x \in Object
    <3>1. IsFiniteSet(Counted(x))
      BY CountedFinite
    <3>2. Cardinality(Counted(x) \ {p}) = IF x = o THEN Cardinality(Counted(x)) - 1
                                          ELSE Cardinality(Counted(x))
      BY <2>2, <3>1, FS_RemoveElement
    <3> QED
      BY <2>1, <3>2 DEF CountRight
  <2>4. CASE IsLast(o)
    <3>1. work' = [work EXCEPT ![p] = [work[p] EXCEPT !.step = "delete"]] /\ data' = data
      BY <1>3, <2>4 DEF Release, Goto
    <3>2. Counted(o) = {p}
      <4>1. IsFiniteSet(Counted(o)) /\ Cardinality(Counted(o)) = 1
        BY <2>1, <2>4, CountedFinite DEF CountRight, IsLast
      <4>2. PICK y : Counted(o) = {y}
        BY <4>1, FS_Singleton
      <4> QED
        BY <2>2, <4>2
    <3>3. ASSUME NEW r \in Pointer, data[r] = o
          PROVE  r = p
      <4>1. CASE work[r].step = "add"
        <5>1. work[r].from \in Pointer /\ data[work[r].from] = o /\ work[work[r].from] = Idle
          BY <1>3, <3>3, <4>1, CopyKnown DEF SourcesIdle
        <5>2. work[r].from = p
          BY <3>2, <5>1, IdleCounted
        <5> QED
          BY <1>1, <5>1, <5>2 DEF Idle
      <4>2. CASE work[r].step = "delete"
        BY <3>3, <4>2 DEF DeleteAlone
      <4>3. CASE work[r].step \notin {"add", "delete"}
        BY <3>2, <3>3, <4>3 DEF Counted
      <4> QED
        BY <4>1, <4>2, <4>3
    <3>4. PointersTypes'
      BY <1>1, <2>1, <3>1 DEF Work
    <3>5. AliveIffOwned'
      BY <1>1, <3>1 DEF AliveIffOwned
    <3>6. /\ work'[p].from = work[p].from /\ work'[p].move = work[p].move
          /\ work'[p].step = "delete"
          /\ \A r \in Pointer : r # p => work'[r] = work[r]
      BY <3>1 DEF Work
    <3>7. SourcesIdle' /\ MovesAlone'
      <4>1. \A r \in Pointer : work[r].from # p
        BY <1>1 DEF SourcesIdle, Idle
      <4>2. \A r \in Pointer : work'[r].from = work[r].from /\ work'[r].move = work[r].move
        BY <3>6
      <4>3. MovesAlone'
        BY <4>2 DEF MovesAlone
      <4>4. SourcesIdle'
        BY <3>6, <4>1, <4>2 DEF SourcesIdle, Work
      <4> QED
        BY <4>3, <4>4
    <3>8. AddKnown'
      BY <3>1, <3>6 DEF AddKnown
    <3>9. DeleteAlone'
      BY <1>3, <3>1, <3>3, <3>6 DEF DeleteAlone
    <3>10. CountRight'
      <4>1. \A x \in Object : Counted(x)' = Counted(x) \ {p}
        BY <3>1, <3>6 DEF Counted
      <4> QED
        BY <2>3, <4>1 DEF CountRight
    <3> QED
      BY <3>4, <3>5, <3>7, <3>8, <3>9, <3>10
  <2>5. CASE ~IsLast(o)
    <3>1. Take(p)
      BY <1>3, <2>5 DEF Release
    <3>2. /\ data' \in [Pointer -> Object \union {None}] /\ work' \in [Pointer -> Work]
          /\ SourcesIdle' /\ MovesAlone' /\ AddKnown' /\ DeleteAlone'
      BY <1>1, <3>1, TakeEffect
    <3>3. PointersTypes'
      BY <1>1, <2>1, <3>2
    <3>4. CountRight'
      <4>1. \A x \in Object : Cardinality(Counted(x)') = Cardinality(Counted(x) \ {p})
        BY <1>1, <3>1, TakeEffect
      <4> QED
        BY <2>3, <4>1 DEF CountRight
    <3>5. \E r \in Pointer \ {p} : data[r] = o
      <4>1. IsFiniteSet(Counted(o)) /\ Cardinality(Counted(o)) # 1
        BY <2>1, <2>5, CountedFinite DEF CountRight, IsLast
      <4>2. Counted(o) # {p}
        BY <4>1, FS_Singleton
      <4> QED
        BY <2>2, <4>2 DEF Counted
    <3>6. \A x \in Object : (\E r \in Pointer : data'[r] = x) <=> \E r \in Pointer : data[r] = x
      <4> TAKE x \in Object
      <4>1. (\E r \in Pointer : data'[r] = x) <=> \E r \in Pointer \ {p} : data[r] = x
        BY <1>1, <3>1, TakeEffect
      <4> QED
        BY <3>5, <4>1
    <3>7. AliveIffOwned'
      BY <1>1, <3>6 DEF AliveIffOwned
    <3> QED
      BY <3>2, <3>3, <3>4, <3>7
  <2> QED
    BY <2>4, <2>5
<1> QED
  BY <1>2, <1>3

\* The deletion, by the only pointer to the object, which then goes on.
LEMMA DeleteKeeps ==
  ASSUME PointersInv, NEW p \in Pointer, Delete(p)
  PROVE  PointersInv'
<1> USE PointerAssumption DEF PointersInv, PointersTypes
<1> DEFINE o == data[p]
<1>1. /\ work[p].step = "delete" /\ Take(p)
      /\ deleted' = [deleted EXCEPT ![o] = @ + 1] /\ count' = count
  BY DEF Delete
<1>2. o \in Object /\ \A r \in Pointer : data[r] = o => r = p
  BY <1>1 DEF DeleteAlone
<1>3. deleted[o] = 0
  BY <1>2 DEF AliveIffOwned
<1>4. /\ data' \in [Pointer -> Object \union {None}] /\ work' \in [Pointer -> Work]
      /\ SourcesIdle' /\ MovesAlone' /\ AddKnown' /\ DeleteAlone'
  BY <1>1, TakeEffect
<1>5. PointersTypes'
  BY <1>1, <1>2, <1>3, <1>4
<1>6. AliveIffOwned'
  <2> SUFFICES ASSUME NEW x \in Object
               PROVE  deleted'[x] = 0 <=> \E r \in Pointer : data'[r] = x
    BY DEF AliveIffOwned
  <2>1. (\E r \in Pointer : data'[r] = x) <=> \E r \in Pointer \ {p} : data[r] = x
    BY <1>1, TakeEffect
  <2>2. CASE x = o
    BY <1>1, <1>2, <1>3, <2>1, <2>2
  <2>3. CASE x # o
    BY <1>1, <2>1, <2>3 DEF AliveIffOwned
  <2> QED
    BY <2>2, <2>3
<1>7. CountRight'
  <2>1. \A x \in Object : Counted(x) \ {p} = Counted(x)
    BY <1>1 DEF Counted
  <2> QED
    BY <1>1, <2>1, TakeEffect DEF CountRight
<1> QED
  BY <1>4, <1>5, <1>6, <1>7

\* fetch_add
LEMMA AddKeeps ==
  ASSUME PointersInv, NEW p \in Pointer, Add(p)
  PROVE  PointersInv'
<1> USE PointerAssumption DEF PointersInv, PointersTypes
<1> DEFINE o == data[p]
<1>1. /\ work[p].step = "add" /\ work' = [work EXCEPT ![p] = Idle]
      /\ count' = [count EXCEPT ![o] = @ + 1] /\ data' = data /\ deleted' = deleted
  BY DEF Add, Goto
<1>2. o \in Object /\ work[p] # Idle
  BY <1>1, CopyKnown
<1>3. PointersTypes' /\ AliveIffOwned'
  BY <1>1, <1>2 DEF AliveIffOwned, Work, Idle
<1>4. SourcesIdle' /\ MovesAlone'
  <2>1. /\ work'[p] = Idle /\ Idle.from = None
        /\ \A r \in Pointer : work[r].from # p /\ (r # p => work'[r] = work[r])
    BY <1>1, <1>2 DEF SourcesIdle, Idle
  <2>2. SourcesIdle'
    BY <1>1, <2>1 DEF SourcesIdle, Work
  <2>3. MovesAlone'
    BY <2>1 DEF MovesAlone
  <2> QED
    BY <2>2, <2>3
<1>5. AddKnown' /\ DeleteAlone'
  BY <1>1 DEF AddKnown, DeleteAlone, Idle
<1>6. CountRight'
  <2> SUFFICES ASSUME NEW x \in Object
               PROVE  count'[x] = Cardinality(Counted(x)')
    BY DEF CountRight
  <2>1. CASE x = o
    <3>1. p \notin Counted(x) /\ Counted(x)' = Counted(x) \union {p}
      BY <1>1, <2>1 DEF Counted, Idle
    <3>2. Cardinality(Counted(x)') = Cardinality(Counted(x)) + 1
      BY <3>1, CountedFinite, FS_AddElement
    <3> QED
      BY <1>1, <1>2, <2>1, <3>2 DEF CountRight
  <2>2. CASE x # o
    <3>1. Counted(x)' = Counted(x)
      BY <1>1, <2>2 DEF Counted, Idle
    <3> QED
      BY <1>1, <1>2, <2>2, <3>1 DEF CountRight
  <2> QED
    BY <2>1, <2>2
<1> QED
  BY <1>3, <1>4, <1>5, <1>6

-----------------------------------------------------------------------------

\* The invariant holds at first and is kept by every step.
LEMMA PointersInductive ==
  (PointersInit => PointersInv) /\ (PointersInv /\ [PointersNext]_pointers => PointersInv')
<1>1. ASSUME PointersInit
      PROVE  PointersInv
  <2>1. PointersTypes
    BY <1>1 DEF PointersInit, PointersTypes, Work, Idle
  <2>2. AliveIffOwned
    BY <1>1, PointerAssumption DEF PointersInit, AliveIffOwned
  <2>3. SourcesIdle /\ MovesAlone /\ AddKnown /\ DeleteAlone
    BY <1>1 DEF PointersInit, SourcesIdle, MovesAlone, AddKnown, DeleteAlone, Idle
  <2>4. CountRight
    <3>1. \A o \in Object : Counted(o) = {}
      BY <1>1, PointerAssumption DEF PointersInit, Counted
    <3> QED
      BY <1>1, <3>1, FS_EmptySet DEF PointersInit, CountRight
  <2> QED
    BY <2>1, <2>2, <2>3, <2>4 DEF PointersInv
<1>2. ASSUME PointersInv, [PointersNext]_pointers
      PROVE  PointersInv'
  <2>1. CASE UNCHANGED pointers
    BY <1>2, <2>1
    DEF pointers, PointersInv, PointersTypes, AliveIffOwned, SourcesIdle, MovesAlone,
        AddKnown, DeleteAlone, CountRight, Counted
  <2>2. ASSUME NEW p \in Pointer, NEW o \in Object, Construct(p, o)
        PROVE  PointersInv'
    BY <1>2, <2>2, ConstructKeeps
  <2>3. ASSUME NEW p \in Pointer, NEW temp \in Pointer, NEW o \in Object, Reset(p, temp, o)
        PROVE  PointersInv'
    BY <1>2, <2>3, ResetKeeps
  <2>4. ASSUME NEW p \in Pointer, Destroy(p)
        PROVE  PointersInv'
    <3>1. None \in Pointer \union {None} /\ None # p
      BY PointerAssumption
    <3> QED
      BY <1>2, <2>4, <3>1, BeginKeeps DEF Destroy
  <2>5. ASSUME NEW p \in Pointer, NEW q \in Pointer, Swap(p, q)
        PROVE  PointersInv'
    BY <1>2, <2>5, SwapKeeps
  <2>6. ASSUME NEW p \in Pointer, NEW q \in Pointer, NEW move \in BOOLEAN, Assign(p, q, move)
        PROVE  PointersInv'
    BY <1>2, <2>6, BeginKeeps DEF Assign
  <2>7. ASSUME NEW p \in Pointer, Release(p) \/ Delete(p) \/ Add(p)
        PROVE  PointersInv'
    BY <1>2, <2>7, ReleaseKeeps, DeleteKeeps, AddKeeps
  <2> QED
    BY <1>2, <2>1, <2>2, <2>3, <2>4, <2>5, <2>6, <2>7 DEF PointersNext
<1> QED
  BY <1>1, <1>2

\* Whatever pointers are copied, moved, assigned, swapped, reset and destroyed
\* by whichever threads, an object is deleted once, when the last of them has
\* let go of it (release, operator=), and not before.
THEOREM OwnedObjectsLive == PointersSpec => []LivesWhileOwned
<1>1. PointersInv => LivesWhileOwned
  BY DEF PointersInv, PointersTypes, AliveIffOwned, LivesWhileOwned
<1> QED
  BY <1>1, PointersInductive, PTL DEF PointersSpec

-----------------------------------------------------------------------------
(* The ring buffer.  The arithmetic of its counters comes first, so that the *)
(* steps of the two threads need only linear facts.                          *)

\* The order of the slots survives the wrap of the counters.
Divides == \E m \in Nat : Wrap = Capacity * m

\* The slots from counter h to counter t are neighbours: always if Divides,
\* else as long as t has not wrapped while h has not.
Near(h, t) == Divides \/ h <= t

Regular == Near(head, tail)

-----------------------------------------------------------------------------
(* Arithmetic *)

LEMMA Division ==
  ASSUME NEW a \in Nat, NEW d \in Nat \ {0}
  PROVE  /\ a \div d \in Nat
         /\ a % d \in 0 .. d - 1
         /\ a = d * (a \div d) + (a % d)
  OBVIOUS

LEMMA Remainder ==
  ASSUME NEW d \in Nat \ {0}, NEW q \in Nat, NEW r \in 0 .. d - 1
  PROVE  (d * q + r) % d = r
  OBVIOUS

\* A multiple of the capacity does not change the slot.
LEMMA SlotOfMultiple ==
  ASSUME NEW a \in Nat, NEW m \in Nat
  PROVE  Slot(a + Capacity * m) = Slot(a)
<1> DEFINE q == a \div Capacity
           r == a % Capacity
<1>1. q \in Nat /\ r \in 0 .. Capacity - 1 /\ a = Capacity * q + r
  BY Division, CapacityAssumption
<1> HIDE DEF q, r
<1>2. q + m \in Nat /\ a + Capacity * m = Capacity * (q + m) + r
  BY <1>1, CapacityAssumption
<1>3. (Capacity * (q + m) + r) % Capacity = r
  BY <1>1, <1>2, Remainder, CapacityAssumption
<1> QED
  BY <1>2, <1>3 DEF Slot, r

\* Counters closer than a capacity have different slots.
LEMMA SlotsApart ==
  ASSUME NEW a \in Nat, NEW k \in 1 .. Capacity - 1
  PROVE  Slot(a) # Slot(a + k)
<1> DEFINE q == a \div Capacity
           r == a % Capacity
<1>1. q \in Nat /\ r \in 0 .. Capacity - 1 /\ a = Capacity * q + r
  BY Division, CapacityAssumption
<1>2. Slot(a) = r
  BY DEF Slot
<1> HIDE DEF q, r
<1>3. ASSUME NEW p \in Nat, NEW s \in 0 .. Capacity - 1, a + k = Capacity * p + s
      PROVE  Slot(a + k) = s
  BY <1>3, Remainder, CapacityAssumption DEF Slot
<1>4. CASE r + k < Capacity
  <2>1. a + k = Capacity * q + (r + k) /\ r + k \in 0 .. Capacity - 1
    BY <1>1, <1>4, CapacityAssumption
  <2> QED
    BY <1>1, <1>2, <1>3, <2>1
<1>5. CASE r + k >= Capacity
  <2>1. /\ q + 1 \in Nat
        /\ a + k = Capacity * (q + 1) + (r + k - Capacity)
        /\ r + k - Capacity \in 0 .. Capacity - 1
    BY <1>1, <1>5, CapacityAssumption
  <2>2. Slot(a + k) = r + k - Capacity
    BY <1>3, <2>1
  <2> QED
    BY <1>1, <1>2, <2>2, CapacityAssumption
<1> QED
  BY <1>1, <1>4, <1>5, CapacityAssumption

LEMMA SlotInBuffer ==
  ASSUME NEW n \in Nat
  PROVE  Slot(n) \in 0 .. Capacity - 1
  BY CapacityAssumption DEF Slot

LEMMA SizeIs ==
  ASSUME NEW h \in Counter, NEW t \in Counter
  PROVE  Size(h, t) = IF h <= t THEN t - h ELSE t - h + Wrap
  BY CapacityAssumption DEF Size, Counter

LEMMA SuccessorIs ==
  ASSUME NEW n \in Counter
  PROVE  Successor(n) = IF n = Wrap - 1 THEN 0 ELSE n + 1
  BY CapacityAssumption DEF Successor, Counter

LEMMA AheadIs ==
  ASSUME NEW n \in Counter, NEW k \in 0 .. Wrap
  PROVE  (n + k) % Wrap = IF n + k < Wrap THEN n + k ELSE n + k - Wrap
  BY CapacityAssumption DEF Counter

LEMMA SizeAhead ==
  ASSUME NEW h \in Counter, NEW t \in Counter
  PROVE  (h + Size(h, t)) % Wrap = t
<1> DEFINE n == Size(h, t)
<1>1. n = IF h <= t THEN t - h ELSE t - h + Wrap
  BY SizeIs
<1> HIDE DEF n
<1>2. h + n = IF h <= t THEN t ELSE t + Wrap
  BY <1>1, CapacityAssumption DEF Counter
<1>3. n \in 0 .. Wrap
  BY <1>1, CapacityAssumption DEF Counter
<1>4. (h + n) % Wrap = IF h + n < Wrap THEN h + n ELSE h + n - Wrap
  BY <1>3, AheadIs
<1> QED
  BY <1>2, <1>4, CapacityAssumption DEF Counter, n

\* From a one meets c before t, and n before c.
LEMMA Between ==
  ASSUME NEW a \in Counter, NEW n \in Counter, NEW c \in Counter, NEW t \in Counter,
         Size(a, t) = Size(a, c) + Size(c, t), Size(a, n) <= Size(a, c)
  PROVE  /\ Size(n, t) = Size(n, c) + Size(c, t)
         /\ Size(n, t) <= Size(a, t)
         /\ Size(a, t) = Size(a, n) + Size(n, t)
<1>1. /\ Size(a, t) = IF a <= t THEN t - a ELSE t - a + Wrap
      /\ Size(a, c) = IF a <= c THEN c - a ELSE c - a + Wrap
      /\ Size(a, n) = IF a <= n THEN n - a ELSE n - a + Wrap
      /\ Size(n, c) = IF n <= c THEN c - n ELSE c - n + Wrap
      /\ Size(c, t) = IF c <= t THEN t - c ELSE t - c + Wrap
      /\ Size(n, t) = IF n <= t THEN t - n ELSE t - n + Wrap
  BY SizeIs
<1> QED
  BY <1>1, CapacityAssumption DEF Counter

\* From a one meets c before t, and from c one meets n before t.
LEMMA Beyond ==
  ASSUME NEW a \in Counter, NEW c \in Counter, NEW n \in Counter, NEW t \in Counter,
         Size(a, t) = Size(a, c) + Size(c, t), Size(c, n) <= Size(c, t)
  PROVE  Size(a, t) = Size(a, n) + Size(n, t)
<1>1. /\ Size(a, t) = IF a <= t THEN t - a ELSE t - a + Wrap
      /\ Size(a, c) = IF a <= c THEN c - a ELSE c - a + Wrap
      /\ Size(a, n) = IF a <= n THEN n - a ELSE n - a + Wrap
      /\ Size(c, n) = IF c <= n THEN n - c ELSE n - c + Wrap
      /\ Size(c, t) = IF c <= t THEN t - c ELSE t - c + Wrap
      /\ Size(n, t) = IF n <= t THEN t - n ELSE t - n + Wrap
  BY SizeIs
<1> QED
  BY <1>1, CapacityAssumption DEF Counter

LEMMA SizeInNat ==
  ASSUME NEW h \in Counter, NEW t \in Counter
  PROVE  Size(h, t) \in Nat
  BY CapacityAssumption DEF Size, Counter

\* One more in front, one less behind.
LEMMA SizeSteps ==
  ASSUME NEW h \in Counter, NEW t \in Counter
  PROVE  /\ Size(h, t) < Wrap - 1 => Size(h, Successor(t)) = Size(h, t) + 1
         /\ h # t => Size(Successor(h), t) = Size(h, t) - 1
         /\ Successor(h) \in Counter
         /\ Size(h, t) \in Nat
         /\ h = t <=> Size(h, t) = 0
<1>1. /\ Successor(h) = IF h = Wrap - 1 THEN 0 ELSE h + 1
      /\ Successor(t) = IF t = Wrap - 1 THEN 0 ELSE t + 1
  BY SuccessorIs
<1>2. Successor(h) \in Counter /\ Successor(t) \in Counter
  BY <1>1, CapacityAssumption DEF Counter
<1>3. /\ Size(h, t) = IF h <= t THEN t - h ELSE t - h + Wrap
      /\ Size(h, Successor(t)) =
           IF h <= Successor(t) THEN Successor(t) - h ELSE Successor(t) - h + Wrap
      /\ Size(Successor(h), t) =
           IF Successor(h) <= t THEN t - Successor(h) ELSE t - Successor(h) + Wrap
  BY <1>2, SizeIs
<1> QED
  BY <1>1, <1>2, <1>3, CapacityAssumption DEF Counter

\* The slot of the k-th counter after h.
LEMMA SlotAhead ==
  ASSUME NEW h \in Counter, NEW t \in Counter, NEW k \in 0 .. Size(h, t), Near(h, t)
  PROVE  Slot((h + k) % Wrap) = Slot(h + k)
<1> DEFINE n == (h + k) % Wrap
<1>1. k \in 0 .. Wrap /\ h \in Nat /\ (h <= t => h + k < Wrap)
  BY SizeIs, CapacityAssumption DEF Counter
<1>2. n = IF h + k < Wrap THEN h + k ELSE h + k - Wrap
  BY <1>1, AheadIs
<1> HIDE DEF n
<1>3. CASE h + k < Wrap
  BY <1>2, <1>3 DEF n
<1>4. CASE h + k >= Wrap
  <2>1. PICK m \in Nat : Wrap = Capacity * m
    BY <1>1, <1>4, CapacityAssumption DEF Near, Divides, Counter
  <2>2. n \in Nat /\ h + k = n + Wrap
    BY <1>1, <1>2, <1>4, CapacityAssumption
  <2>3. Slot(n + Capacity * m) = Slot(n)
    BY <2>2, SlotOfMultiple
  <2> QED
    BY <2>1, <2>2, <2>3 DEF n
<1> QED
  BY <1>1, <1>3, <1>4, CapacityAssumption

\* A queue with room has no item in the slot of t.
LEMMA SlotFree ==
  ASSUME NEW h \in Counter, NEW t \in Counter, Near(h, t), Size(h, t) < Capacity,
         NEW k \in Nat, k < Size(h, t)
  PROVE  Slot((h + k) % Wrap) # Slot(t)
<1> DEFINE n == Size(h, t)
<1>1. n \in Nat /\ n <= Wrap /\ h \in Nat
  BY SizeIs, CapacityAssumption DEF Counter
<1>2. (h + n) % Wrap = t
  BY SizeAhead
<1>3. Slot((h + k) % Wrap) = Slot(h + k) /\ Slot(t) = Slot(h + n)
  BY <1>1, <1>2, SlotAhead
<1> HIDE DEF n
<1>4. n - k \in 1 .. Capacity - 1 /\ h + k \in Nat
  BY <1>1, CapacityAssumption DEF n
<1>5. Slot(h + k) # Slot((h + k) + (n - k))
  BY <1>4, SlotsApart
<1>6. (h + k) + (n - k) = h + n
  BY <1>1
<1> QED
  BY <1>3, <1>5, <1>6

-----------------------------------------------------------------------------
(* The counters *)

TypeOK ==
  /\ tail \in Counter /\ head \in Counter
  /\ seenHead \in Counter /\ seenTail \in Counter
  /\ buffer \in [0 .. Capacity - 1 -> Item]
  /\ pushing \in {"idle", "writing", "publishing"}
  /\ popping \in {"idle", "reading", "releasing"}
  /\ item \in Item /\ out \in Item /\ got \in Item

\* Going up from seenHead one meets head, seenTail and tail, in that order and
\* within one capacity.
InOrder ==
  /\ Size(seenHead, tail) = Size(seenHead, head) + Size(head, tail)
  /\ Size(head, tail) = Size(head, seenTail) + Size(seenTail, tail)
  /\ Size(seenHead, tail) <= Capacity

\* What a thread has found true of the other's counter stays true while it works.
Claims ==
  /\ pushing # "idle" => Size(seenHead, tail) < Capacity
  /\ popping # "idle" => head # seenTail

Written == pushing = "publishing" => buffer[Slot(tail)] = item

CounterInv == TypeOK /\ InOrder /\ Claims /\ Written

LEMMA LoadableIs ==
  ASSUME NEW s \in Counter, NEW c \in Counter, NEW n \in Loadable(s, c)
  PROVE  n \in Counter /\ Size(s, n) <= Size(s, c)
  BY DEF Loadable

LEMMA CounterInit == Init => CounterInv
<1> SUFFICES ASSUME Init PROVE CounterInv
  OBVIOUS
<1>1. 0 \in Counter
  BY CapacityAssumption DEF Counter
<1>2. Size(0, 0) = 0
  BY <1>1, SizeIs
<1> QED
  BY <1>1, <1>2, CapacityAssumption DEF Init, CounterInv, TypeOK, InOrder, Claims, Written

\* The producer learns of pops.
LEMMA LoadHeadKeeps ==
  ASSUME CounterInv, NEW h \in Loadable(seenHead, head)
  PROVE  /\ h \in Counter
         /\ Size(h, tail) = Size(h, head) + Size(head, tail)
         /\ Size(h, tail) <= Size(seenHead, tail)
<1>1. h \in Counter /\ Size(seenHead, h) <= Size(seenHead, head)
  BY LoadableIs DEF CounterInv, TypeOK
<1> QED
  BY <1>1, Between DEF CounterInv, TypeOK, InOrder

\* The consumer learns of pushes.
LEMMA LoadTailKeeps ==
  ASSUME CounterInv, NEW t \in Loadable(seenTail, tail)
  PROVE  /\ t \in Counter
         /\ Size(head, tail) = Size(head, t) + Size(t, tail)
<1>1. t \in Counter /\ Size(seenTail, t) <= Size(seenTail, tail)
  BY LoadableIs DEF CounterInv, TypeOK
<1> QED
  BY <1>1, Beyond DEF CounterInv, TypeOK, InOrder

LEMMA ProducerLoads ==
  ASSUME CounterInv, PushRefused \/ ProducerLooks
  PROVE  CounterInv'
<1>1. /\ pushing = "idle"
      /\ seenHead' \in Loadable(seenHead, head)
      /\ UNCHANGED <<tail, head, buffer, pushing, item, popping, seenTail, out, got>>
  BY DEF PushRefused, ProducerLooks, consumer
<1>2. /\ seenHead' \in Counter
      /\ Size(seenHead', tail) = Size(seenHead', head) + Size(head, tail)
      /\ Size(seenHead', tail) <= Size(seenHead, tail)
  BY <1>1, LoadHeadKeeps
<1>3. Size(seenHead', tail) <= Capacity
  <2>1. Size(seenHead', tail) \in Nat /\ Size(seenHead, tail) \in Nat
    BY <1>2, SizeInNat DEF CounterInv, TypeOK
  <2> QED
    BY <1>2, <2>1, CapacityAssumption DEF CounterInv, InOrder
<1> QED
  BY <1>1, <1>2, <1>3 DEF CounterInv, TypeOK, InOrder, Claims, Written

LEMMA PushClaimKeeps ==
  ASSUME CounterInv, NEW x \in Item, PushClaim(x)
  PROVE  CounterInv'
<1>1. PICK h \in Loadable(seenHead, head) : ~Full(h, tail) /\ seenHead' = h
  BY DEF PushClaim
<1>2. /\ h \in Counter
      /\ Size(h, tail) = Size(h, head) + Size(head, tail)
      /\ Size(h, tail) <= Size(seenHead, tail)
  BY LoadHeadKeeps
<1>3. Size(h, tail) < Capacity /\ Size(h, tail) <= Capacity
  <2>1. Size(h, tail) \in Nat /\ Size(seenHead, tail) \in Nat
    BY <1>2, SizeInNat DEF CounterInv, TypeOK
  <2> QED
    BY <1>1, <1>2, <2>1, CapacityAssumption DEF CounterInv, InOrder, Full
<1>4. /\ seenHead' = h /\ item' = x /\ pushing' = "writing"
      /\ UNCHANGED <<tail, head, buffer, popping, seenTail, out, got>>
  BY <1>1 DEF PushClaim, consumer
<1> QED
  BY <1>2, <1>3, <1>4 DEF CounterInv, TypeOK, InOrder, Claims, Written

LEMMA PushWriteKeeps ==
  ASSUME CounterInv, PushWrite
  PROVE  CounterInv'
<1>1. Slot(tail) \in 0 .. Capacity - 1
  BY SlotInBuffer, CapacityAssumption DEF CounterInv, TypeOK, Counter
<1> QED
  BY <1>1 DEF CounterInv, TypeOK, InOrder, Claims, Written, PushWrite, consumer

LEMMA PushPublishKeeps ==
  ASSUME CounterInv, PushPublish
  PROVE  CounterInv'
<1>1. /\ tail' = Successor(tail) /\ tail' \in Counter /\ pushing' = "idle"
      /\ UNCHANGED <<head, buffer, seenHead, item, popping, seenTail, out, got>>
  BY SizeSteps DEF CounterInv, TypeOK, PushPublish, consumer
<1>2. /\ Size(seenHead, tail) < Capacity /\ Capacity < Wrap
      /\ Size(seenHead, tail) \in Nat /\ Size(head, tail) \in Nat
      /\ Size(seenTail, tail) \in Nat /\ Size(head, seenTail) \in Nat
      /\ Size(seenHead, head) \in Nat
  BY SizeSteps, CapacityAssumption DEF CounterInv, TypeOK, Claims, PushPublish
<1>3. /\ Size(head, tail) < Wrap - 1
      /\ Size(seenTail, tail) < Wrap - 1
      /\ Size(seenHead, tail) < Wrap - 1
  BY <1>2, CapacityAssumption DEF CounterInv, InOrder
<1>4. /\ Size(seenHead, tail') = Size(seenHead, tail) + 1
      /\ Size(head, tail') = Size(head, tail) + 1
      /\ Size(seenTail, tail') = Size(seenTail, tail) + 1
  BY <1>1, <1>3, SizeSteps DEF CounterInv, TypeOK
<1>5. InOrder'
  BY <1>1, <1>2, <1>4, CapacityAssumption DEF CounterInv, InOrder
<1> QED
  BY <1>1, <1>5 DEF CounterInv, TypeOK, Claims, Written

LEMMA ConsumerLoads ==
  ASSUME CounterInv, PopRefused \/ PopClaim \/ ConsumerLooks
  PROVE  CounterInv'
<1>1. /\ seenTail' \in Loadable(seenTail, tail)
      /\ popping' # "idle" => head # seenTail'
      /\ popping' \in {"idle", "reading"}
      /\ UNCHANGED <<tail, head, buffer, pushing, seenHead, item, out, got>>
  BY DEF CounterInv, TypeOK, PopRefused, PopClaim, ConsumerLooks, producer, Empty
<1>2. /\ seenTail' \in Counter
      /\ Size(head, tail) = Size(head, seenTail') + Size(seenTail', tail)
  BY <1>1, LoadTailKeeps
<1> QED
  BY <1>1, <1>2 DEF CounterInv, TypeOK, InOrder, Claims, Written

LEMMA PopReadKeeps ==
  ASSUME CounterInv, PopRead
  PROVE  CounterInv'
<1>1. Slot(head) \in 0 .. Capacity - 1
  BY SlotInBuffer, CapacityAssumption DEF CounterInv, TypeOK, Counter
<1> QED
  BY <1>1 DEF CounterInv, TypeOK, InOrder, Claims, Written, PopRead, producer

LEMMA PopReleaseKeeps ==
  ASSUME CounterInv, PopRelease
  PROVE  CounterInv'
<1>1. /\ head' = Successor(head) /\ head' \in Counter /\ popping' = "idle" /\ got' = out
      /\ UNCHANGED <<tail, buffer, pushing, seenHead, item, seenTail, out>>
  BY SizeSteps DEF CounterInv, TypeOK, PopRelease, producer
<1>2. /\ head # seenTail
      /\ Size(seenHead, tail) \in Nat /\ Size(head, tail) \in Nat
      /\ Size(seenTail, tail) \in Nat /\ Size(head, seenTail) \in Nat
      /\ Size(seenHead, head) \in Nat
      /\ Size(head, seenTail) # 0
  BY SizeSteps, CapacityAssumption DEF CounterInv, TypeOK, Claims, PopRelease
<1>3. head # tail /\ Size(seenHead, head) < Wrap - 1
  BY <1>2, SizeSteps, CapacityAssumption DEF CounterInv, TypeOK, InOrder
<1>4. /\ Size(seenHead, head') = Size(seenHead, head) + 1
      /\ Size(head', tail) = Size(head, tail) - 1
      /\ Size(head', seenTail) = Size(head, seenTail) - 1
  BY <1>1, <1>2, <1>3, SizeSteps DEF CounterInv, TypeOK
<1>5. InOrder'
  BY <1>1, <1>2, <1>4, CapacityAssumption DEF CounterInv, InOrder
<1> QED
  BY <1>1, <1>5 DEF CounterInv, TypeOK, Claims, Written

LEMMA CounterNext == CounterInv /\ [Next]_vars => CounterInv'
<1> SUFFICES ASSUME CounterInv, [Next]_vars
             PROVE  CounterInv'
  OBVIOUS
<1>1. CASE UNCHANGED vars
  BY <1>1 DEF vars, producer, consumer, CounterInv, TypeOK, InOrder, Claims, Written
<1>2. ASSUME NEW x \in Item, PushClaim(x)
      PROVE  CounterInv'
  BY <1>2, PushClaimKeeps
<1> QED
  BY <1>1, <1>2, ProducerLoads, PushWriteKeeps, PushPublishKeeps,
     ConsumerLoads, PopReadKeeps, PopReleaseKeeps
  DEF Next

\* What size() returns to either thread never exceeds the capacity: for any
\* capacity and width, also when the counters wrap.
THEOREM SizesInRange == Spec => []SizeInRange
<1>1. CounterInv => SizeInRange
  <2> SUFFICES ASSUME CounterInv PROVE SizeInRange
    OBVIOUS
  <2>1. /\ Size(seenHead, head) \in Nat /\ Size(head, tail) \in Nat
        /\ Size(head, seenTail) \in Nat /\ Size(seenTail, tail) \in Nat
    BY SizeSteps DEF CounterInv, TypeOK
  <2> QED
    BY <2>1, CapacityAssumption DEF CounterInv, InOrder, SizeInRange
<1> QED
  BY <1>1, CounterInit, CounterNext, PTL DEF Spec

-----------------------------------------------------------------------------
(* The buffer *)

\* What the consumer has read is still what its slot holds.
Read == popping = "releasing" => out = buffer[Slot(head)]

BufferInv == CounterInv /\ Read

\* The slot of the producer, from the claim on, holds none of the items.
LEMMA TailIsFree ==
  ASSUME CounterInv, Regular, pushing # "idle", NEW k \in Nat, k < Size(head, tail)
  PROVE  Slot((head + k) % Wrap) # Slot(tail)
<1>1. /\ Size(seenHead, tail) < Capacity
      /\ Size(seenHead, tail) = Size(seenHead, head) + Size(head, tail)
      /\ head \in Counter /\ tail \in Counter
      /\ Size(seenHead, tail) \in Nat /\ Size(seenHead, head) \in Nat
      /\ Size(head, tail) \in Nat
  BY SizeInNat DEF CounterInv, TypeOK, InOrder, Claims
<1>2. Size(head, tail) < Capacity
  BY <1>1, CapacityAssumption
<1> QED
  BY <1>1, <1>2, SlotFree DEF Regular

\* As the consumer has claimed the item at head, head is not the free slot.
LEMMA HeadIsApart ==
  ASSUME CounterInv, Regular, pushing # "idle", popping # "idle"
  PROVE  Slot(head) # Slot(tail)
<1>1. /\ head \in Counter /\ tail \in Counter /\ seenTail \in Counter
      /\ head # seenTail
      /\ Size(head, tail) = Size(head, seenTail) + Size(seenTail, tail)
      /\ Size(head, tail) \in Nat /\ Size(seenTail, tail) \in Nat
      /\ Size(head, seenTail) \in Nat
  BY SizeInNat DEF CounterInv, TypeOK, InOrder, Claims
<1>2. Size(head, seenTail) # 0
  BY <1>1, SizeSteps
<1>3. 0 < Size(head, tail)
  BY <1>1, <1>2
<1>4. (head + 0) % Wrap = head
  BY <1>1, CapacityAssumption DEF Counter
<1> QED
  BY <1>3, <1>4, TailIsFree

LEMMA BufferNext == BufferInv /\ Regular /\ [Next]_vars => BufferInv'
<1> SUFFICES ASSUME BufferInv, Regular, [Next]_vars
             PROVE  BufferInv'
  OBVIOUS
<1>1. CounterInv'
  BY CounterNext DEF BufferInv
<1>2. Read'
  <2>1. CASE PushWrite
    <3>1. CASE popping = "releasing"
      <4>1. Slot(head) # Slot(tail)
        BY <2>1, <3>1, HeadIsApart DEF BufferInv, PushWrite
      <4>2. Slot(head) \in 0 .. Capacity - 1 /\ buffer \in [0 .. Capacity - 1 -> Item]
        BY SlotInBuffer, CapacityAssumption DEF BufferInv, CounterInv, TypeOK, Counter
      <4> QED
        BY <2>1, <4>1, <4>2 DEF BufferInv, Read, PushWrite, consumer
    <3> QED
      BY <2>1, <3>1 DEF Read, PushWrite, consumer
  <2>2. ASSUME NEW x \in Item, PushClaim(x)
        PROVE  Read'
    BY <2>2 DEF BufferInv, Read, PushClaim, consumer
  <2>3. CASE PushRefused \/ PushPublish \/ ProducerLooks
    BY <2>3 DEF BufferInv, Read, PushRefused, PushPublish, ProducerLooks, consumer
  <2>4. CASE PopRefused \/ PopClaim \/ PopRead \/ PopRelease \/ ConsumerLooks
    BY <2>4
    DEF BufferInv, Read, PopRefused, PopClaim, PopRead, PopRelease, ConsumerLooks, producer
  <2>5. CASE UNCHANGED vars
    BY <2>5 DEF vars, consumer, BufferInv, Read
  <2> QED
    BY <2>1, <2>2, <2>3, <2>4, <2>5 DEF Next
<1> QED
  BY <1>1, <1>2 DEF BufferInv

LEMMA BufferInit == Init => BufferInv
  BY CounterInit DEF Init, BufferInv, Read

\* No slot is written while it is read, as long as the counters have not wrapped.
THEOREM NoRaceBeforeWrap == Spec /\ []Regular => []NoRace
<1>1. BufferInv /\ Regular => NoRace
  BY HeadIsApart DEF BufferInv, NoRace
<1> QED
  BY <1>1, BufferInit, BufferNext, PTL DEF Spec

\* ... and for ever if the capacity divides 2^w.
THEOREM NeverRaces ==
  ASSUME Divides
  PROVE  Spec => []NoRace
<1>1. Regular
  BY DEF Regular, Near
<1> QED
  BY <1>1, NoRaceBeforeWrap, PTL

-----------------------------------------------------------------------------
(* The refinement *)

\* The counters of the items inside, and so the slots, lie in the buffer.
LEMMA InsideSlots ==
  ASSUME CounterInv, NEW k \in 1 .. Size(head, tail)
  PROVE  Slot((head + k - 1) % Wrap) \in 0 .. Capacity - 1
<1>1. head \in Nat /\ Size(head, tail) \in Nat
  BY SizeInNat DEF CounterInv, TypeOK, Counter
<1>2. head + k - 1 \in Nat
  BY <1>1
<1>3. (head + k - 1) % Wrap \in Nat
  BY <1>2, CapacityAssumption
<1> QED
  BY <1>3, SlotInBuffer

InsideIsRight ==
  /\ Inside \in Seq(Item)
  /\ Len(Inside) = Size(head, tail)
  /\ \A k \in 1 .. Size(head, tail) :
       Inside[k] = buffer[Slot((head + k - 1) % Wrap)]

LEMMA InsideIs == CounterInv => InsideIsRight
<1> SUFFICES ASSUME CounterInv PROVE InsideIsRight
  OBVIOUS
<1>1. Size(head, tail) \in Nat
  BY SizeInNat DEF CounterInv, TypeOK
<1>2. \A k \in 1 .. Size(head, tail) : buffer[Slot((head + k - 1) % Wrap)] \in Item
  BY InsideSlots DEF CounterInv, TypeOK
<1> QED
  BY <1>1, <1>2 DEF Inside, InsideIsRight

\* A step that moves no counter and writes no slot of an item changes nothing.
LEMMA InsideStays ==
  ASSUME CounterInv, Regular, [Next]_vars, UNCHANGED <<tail, head>>
  PROVE  UNCHANGED Inside
<1> SUFFICES ASSUME NEW k \in 1 .. Size(head, tail)
             PROVE  buffer'[Slot((head + k - 1) % Wrap)] = buffer[Slot((head + k - 1) % Wrap)]
  BY DEF Inside
<1>1. CASE PushWrite
  <2>1. Size(head, tail) \in Nat /\ head \in Nat
    BY SizeInNat DEF CounterInv, TypeOK, Counter
  <2>2. k - 1 \in Nat /\ k - 1 < Size(head, tail) /\ head + (k - 1) = head + k - 1
    BY <2>1
  <2>3. Slot((head + k - 1) % Wrap) # Slot(tail)
    BY <1>1, <2>2, TailIsFree DEF PushWrite
  <2>4. Slot((head + k - 1) % Wrap) \in 0 .. Capacity - 1
    BY InsideSlots
  <2> QED
    BY <1>1, <2>3, <2>4 DEF CounterInv, TypeOK, PushWrite
<1>2. CASE ~PushWrite
  BY <1>2
  DEF Next, vars, PushRefused, PushPublish, ProducerLooks, PushClaim, PopRefused, PopClaim,
      PopRead, PopRelease, ConsumerLooks, producer, consumer
<1> QED
  BY <1>1, <1>2

\* The store of _tail puts the item behind those inside.
LEMMA PublishPushes ==
  ASSUME BufferInv, PushPublish
  PROVE  Abstract!Push(item)
<1>1. CounterInv /\ CounterInv'
  BY PushPublishKeeps DEF BufferInv
<1>2. /\ tail' = Successor(tail) /\ buffer[Slot(tail)] = item /\ item \in Item
      /\ UNCHANGED <<head, buffer, got>>
  BY <1>1 DEF CounterInv, TypeOK, Written, PushPublish, consumer
<1>3. /\ Size(head, tail) < Capacity
      /\ Size(head, tail) \in Nat
      /\ Size(head, tail') = Size(head, tail) + 1
  <2>1. /\ Size(seenHead, tail) < Capacity
        /\ Size(seenHead, tail) = Size(seenHead, head) + Size(head, tail)
        /\ Size(seenHead, head) \in Nat /\ Size(head, tail) \in Nat
        /\ Size(seenHead, tail) \in Nat
    BY <1>1, SizeInNat DEF CounterInv, TypeOK, InOrder, Claims, PushPublish
  <2>2. Size(head, tail) < Capacity /\ Size(head, tail) < Wrap - 1
    BY <2>1, CapacityAssumption
  <2> QED
    BY <1>1, <1>2, <2>1, <2>2, SizeSteps, SMTT(20) DEF CounterInv, TypeOK
<1>4. InsideIsRight /\ InsideIsRight'
  BY <1>1, InsideIs, PTL
<1>5. Inside' = Append(Inside, item)
  <2> DEFINE n == Size(head, tail)
  <2>1. /\ Inside \in Seq(Item) /\ Len(Inside) = n
        /\ Inside' \in Seq(Item) /\ Len(Inside') = n + 1
        /\ \A k \in 1 .. n : Inside'[k] = Inside[k]
        /\ Inside'[n + 1] = buffer[Slot((head + (n + 1) - 1) % Wrap)]
    BY <1>2, <1>3, <1>4 DEF InsideIsRight
  <2>2. (head + n) % Wrap = tail
    BY <1>1, SizeAhead DEF CounterInv, TypeOK
  <2>3. n \in Nat
    BY <1>3
  <2> HIDE DEF n
  <2>4. head + (n + 1) - 1 = head + n
    BY <1>1, <2>3 DEF CounterInv, TypeOK, Counter
  <2>5. Inside'[n + 1] = item
    BY <1>2, <2>1, <2>2, <2>4
  <2>6. /\ Append(Inside, item) \in Seq(Item)
        /\ Len(Append(Inside, item)) = n + 1
        /\ \A k \in 1 .. n : Append(Inside, item)[k] = Inside[k]
        /\ Append(Inside, item)[n + 1] = item
    BY <1>2, <2>1, <2>3, AppendProperties
  <2>7. \A k \in 1 .. n + 1 : Inside'[k] = Append(Inside, item)[k]
    BY <2>1, <2>3, <2>5, <2>6
  <2> QED
    BY <2>1, <2>6, <2>7, SeqEqual
<1> QED
  BY <1>2, <1>3, <1>4, <1>5 DEF InsideIsRight, Abstract!Push

\* The store of _head takes the oldest item out; pop has just handed it out.
LEMMA ReleasePops ==
  ASSUME BufferInv, PopRelease
  PROVE  Abstract!Pop
<1>1. CounterInv /\ CounterInv'
  BY PopReleaseKeeps DEF BufferInv
<1>2. /\ head' = Successor(head) /\ got' = out /\ out = buffer[Slot(head)]
      /\ head \in Counter /\ tail \in Counter /\ head # seenTail
      /\ UNCHANGED <<tail, buffer>>
  BY DEF BufferInv, CounterInv, TypeOK, Claims, Read, PopRelease, producer
<1>3. /\ Size(head, tail) \in Nat /\ Size(head, tail) # 0
      /\ Size(head', tail) = Size(head, tail) - 1
  <2>1. /\ Size(head, tail) = Size(head, seenTail) + Size(seenTail, tail)
        /\ Size(head, seenTail) \in Nat /\ Size(seenTail, tail) \in Nat
        /\ Size(head, seenTail) # 0
    BY <1>1, <1>2, SizeInNat, SizeSteps DEF CounterInv, TypeOK, InOrder
  <2>2. Size(head, tail) \in Nat /\ Size(head, tail) # 0
    BY <2>1
  <2> QED
    BY <1>2, <2>2, SizeSteps
<1>4. InsideIsRight /\ InsideIsRight'
  BY <1>1, InsideIs, PTL
<1> DEFINE n == Size(head, tail)
<1>5. /\ Inside \in Seq(Item) /\ Len(Inside) = n
      /\ \A k \in 1 .. n : Inside[k] = buffer[Slot((head + k - 1) % Wrap)]
      /\ Inside' \in Seq(Item) /\ Len(Inside') = n - 1
      /\ \A k \in 1 .. n - 1 : Inside'[k] = buffer[Slot((head' + k - 1) % Wrap)]
  BY <1>2, <1>3, <1>4 DEF InsideIsRight
<1>6. n \in Nat \ {0}
  BY <1>3
<1> HIDE DEF n
<1>7. Inside # <<>> /\ Head(Inside) = Inside[1]
  BY <1>5, <1>6
<1>8. Inside[1] = buffer[Slot(head)]
  <2>1. (head + 1 - 1) % Wrap = head
    BY <1>2, CapacityAssumption DEF Counter
  <2> QED
    BY <1>5, <1>6, <2>1
<1>9. Inside' = Tail(Inside)
  <2>1. /\ Tail(Inside) \in Seq(Item) /\ Len(Tail(Inside)) = n - 1
        /\ \A k \in 1 .. n - 1 : Tail(Inside)[k] = Inside[k + 1]
    BY <1>5, <1>6, <1>7, HeadTailProperties
  <2>2. ASSUME NEW k \in 1 .. n - 1
        PROVE  Inside'[k] = Inside[k + 1]
    <3>1. k - 1 \in 0 .. Wrap /\ k \in 0 .. Wrap /\ k \in 1 .. n - 1 /\ k + 1 \in 1 .. n
      BY <1>2, <1>6, SizeIs, CapacityAssumption DEF n, Counter
    <3>2. head' \in Counter /\ head' = IF head = Wrap - 1 THEN 0 ELSE head + 1
      BY <1>2, SuccessorIs, SizeSteps
    <3>3. /\ (head + k) % Wrap = IF head + k < Wrap THEN head + k ELSE head + k - Wrap
          /\ (head' + (k - 1)) % Wrap =
               IF head' + (k - 1) < Wrap THEN head' + (k - 1) ELSE head' + (k - 1) - Wrap
      BY <1>2, <3>1, <3>2, AheadIs
    <3>4. (head + k) % Wrap = (head' + (k - 1)) % Wrap
      BY <1>2, <3>1, <3>2, <3>3, CapacityAssumption DEF Counter
    <3>5. head' + k - 1 = head' + (k - 1) /\ head + (k + 1) - 1 = head + k
      BY <1>2, <3>1, <3>2 DEF Counter
    <3> QED
      BY <1>5, <3>1, <3>4, <3>5
  <2>3. \A k \in 1 .. n - 1 : Inside'[k] = Tail(Inside)[k]
    BY <2>1, <2>2
  <2> QED
    BY <1>5, <1>6, <2>1, <2>3, SeqEqual
<1> QED
  BY <1>2, <1>7, <1>8, <1>9 DEF Abstract!Pop

\* Every step is a push, a pop or no step of the queue.
LEMMA StepRefines ==
  BufferInv /\ Regular /\ [Next]_vars => [Abstract!Next]_<<Inside, got>>
<1> SUFFICES ASSUME BufferInv, Regular, [Next]_vars
             PROVE  Abstract!Next \/ UNCHANGED <<Inside, got>>
  BY DEF BufferInv
<1>1. CounterInv
  BY DEF BufferInv
<1>2. CASE PushPublish
  <2>1. item \in Item
    BY <1>1 DEF CounterInv, TypeOK
  <2> QED
    BY <1>2, <2>1, PublishPushes DEF Abstract!Next
<1>3. CASE PopRelease
  BY <1>3, ReleasePops DEF Abstract!Next
<1>4. CASE ~PushPublish /\ ~PopRelease
  <2>1. UNCHANGED <<tail, head, got>>
    BY <1>4
    DEF Next, vars, PushRefused, PushWrite, ProducerLooks, PushClaim, PopRefused, PopClaim,
        PopRead, ConsumerLooks, producer, consumer
  <2> QED
    BY <1>1, <2>1, InsideStays
<1> QED
  BY <1>2, <1>3, <1>4

LEMMA InitRefines == Init => Abstract!Init
<1> SUFFICES ASSUME Init PROVE Inside = <<>> /\ got \in Item
  BY DEF Abstract!Init
<1>1. CounterInv /\ Size(head, tail) = 0
  BY CounterInit, SizeSteps DEF Init, CounterInv, TypeOK
<1>2. Inside \in Seq(Item) /\ Len(Inside) = 0
  BY <1>1, InsideIs DEF InsideIsRight
<1> QED
  BY <1>1, <1>2, EmptySeq DEF CounterInv, TypeOK

\* The ring buffer is a bounded queue as long as the counters have not wrapped.
THEOREM FifoBeforeWrap == Spec /\ []Regular => Refinement
<1>1. Spec /\ []Regular => []BufferInv
  BY BufferInit, BufferNext, PTL DEF Spec
<1> QED
  BY <1>1, InitRefines, StepRefines, PTL DEF Spec, Refinement, Abstract!Spec

\* ... and for ever if the capacity divides 2^w.
THEOREM ImplementsFifo ==
  ASSUME Divides
  PROVE  Spec => Refinement
<1>1. Regular
  BY DEF Regular, Near
<1> QED
  BY <1>1, FifoBeforeWrap, PTL
=============================================================================
