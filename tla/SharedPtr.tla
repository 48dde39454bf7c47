------------------------------- MODULE SharedPtr -------------------------------
(***************************************************************************)
(* SharedPtr.cpp: pointers that share an object and its atomic count, used *)
(* by several threads.  The accesses to the count and the deletion are     *)
(* steps of their own.  As for any class, two threads may use one pointer  *)
(* at the same time only to read it; a count may be shared without limit.  *)
(* An object does not itself own pointers.                                 *)
(***************************************************************************)
EXTENDS Integers, FiniteSets

CONSTANTS Pointer, Object, None

ASSUME PointerAssumption ==
  IsFiniteSet(Pointer) /\ None \notin Pointer /\ None \notin Object

VARIABLES
  data,     \* _data of each pointer, None for nullptr; a dead pointer has None
  count,    \* the count that _ref of the pointers to an object refers to
  deleted,  \* how often an object and its count were deleted; -1 before new
  work      \* per pointer: the rest of the operation it is the target of

pointers == <<data, count, deleted, work>>

\* What a pointer still has to do.  "release" and "delete" are the two steps
\* of release(); then the fields of the pointer "from" are taken over, if any:
\* by a copy, which then has to "add" itself, or by a move.
Idle == [step |-> "idle", from |-> None, move |-> FALSE]
Rest(s, from, move) == [step |-> s, from |-> from, move |-> move]

PointersInit ==
  /\ data = [p \in Pointer |-> None]
  /\ count = [o \in Object |-> 0]
  /\ deleted = [o \in Object |-> -1]
  /\ work = [p \in Pointer |-> Idle]

Users(p) == {q \in Pointer : work[q].from = p}

Writable(p) == work[p] = Idle /\ Users(p) = {}

Readable(p) == work[p] = Idle /\ \A q \in Users(p) : ~work[q].move

Goto(p, w) == work' = [work EXCEPT ![p] = w]

\* SharedPtr(T*).  When the allocation of the count fails, the object is
\* deleted and there is no pointer.
Construct(p, o) ==
  /\ Writable(p) /\ data[p] = None /\ deleted[o] = -1
  /\ \/ /\ data' = [data EXCEPT ![p] = o]
        /\ count' = [count EXCEPT ![o] = 1]
        /\ deleted' = [deleted EXCEPT ![o] = 0]
     \/ /\ deleted' = [deleted EXCEPT ![o] = 1]
        /\ UNCHANGED <<data, count>>
  /\ UNCHANGED work

\* reset(data): a temporary on the new object, swapped with p, is destroyed.
Reset(p, temp, o) ==
  /\ Writable(p) /\ Writable(temp) /\ p # temp
  /\ data[temp] = None /\ deleted[o] = -1
  /\ \/ /\ data' = [data EXCEPT ![p] = o, ![temp] = data[p]]
        /\ count' = [count EXCEPT ![o] = 1]
        /\ deleted' = [deleted EXCEPT ![o] = 0]
        /\ Goto(temp, Rest("release", None, FALSE))
     \/ /\ deleted' = [deleted EXCEPT ![o] = 1]
        /\ UNCHANGED <<data, count, work>>

\* The destructor, and reset() without an object.
Destroy(p) ==
  /\ Writable(p)
  /\ Goto(p, Rest("release", None, FALSE))
  /\ UNCHANGED <<data, count, deleted>>

\* Copy and move construction (of a p without data) and assignment.
Assign(p, q, move) ==
  /\ p # q /\ Writable(p)
  /\ IF move THEN Writable(q) ELSE Readable(q)
  /\ Goto(p, Rest("release", q, move))
  /\ UNCHANGED <<data, count, deleted>>

Swap(p, q) ==
  /\ p # q /\ Writable(p) /\ Writable(q)
  /\ data' = [data EXCEPT ![p] = data[q], ![q] = data[p]]
  /\ UNCHANGED <<count, deleted, work>>

\* After release(): the fields of from, or null.
Take(p) ==
  LET q == work[p].from
      new == IF q = None THEN None ELSE data[q]
  IN  /\ data' = [r \in Pointer |-> IF r = p THEN new
                                    ELSE IF r = q /\ work[p].move THEN None ELSE data[r]]
      /\ Goto(p, IF work[p].move \/ new = None THEN Idle ELSE Rest("add", q, FALSE))

\* Mutant: a count of one is taken for one that is left.
LastOne(o) == count[o] = 2

\* fetch_sub(1) == 1
IsLast(o) == count[o] = 1

Release(p) ==
  /\ work[p].step = "release"
  /\ IF data[p] = None
     THEN Take(p) /\ UNCHANGED count
     ELSE /\ count' = [count EXCEPT ![data[p]] = @ - 1]
          /\ IF IsLast(data[p])
             THEN Goto(p, [work[p] EXCEPT !.step = "delete"]) /\ UNCHANGED data
             ELSE Take(p)
  /\ UNCHANGED deleted

Delete(p) ==
  /\ work[p].step = "delete"
  /\ deleted' = [deleted EXCEPT ![data[p]] = @ + 1]
  /\ Take(p)
  /\ UNCHANGED count

\* fetch_add(1)
Add(p) ==
  /\ work[p].step = "add"
  /\ count' = [count EXCEPT ![data[p]] = @ + 1]
  /\ Goto(p, Idle)
  /\ UNCHANGED <<data, deleted>>

PointersNext ==
  \E p \in Pointer :
    \/ \E o \in Object : Construct(p, o) \/ \E q \in Pointer : Reset(p, q, o)
    \/ Destroy(p)
    \/ \E q \in Pointer : Swap(p, q) \/ \E move \in BOOLEAN : Assign(p, q, move)
    \/ Release(p) \/ Delete(p) \/ Add(p)

PointersSpec == PointersInit /\ [][PointersNext]_pointers

-----------------------------------------------------------------------------
(* Properties *)

\* Whatever threads copy, assign, reset and destroy at the same time: an object
\* is there as long as a pointer refers to it, and when the last one has let go
\* it has been deleted, exactly once.
LivesWhileOwned ==
  \A o \in Object : deleted[o] # -1 =>
    deleted[o] = IF \E p \in Pointer : data[p] = o THEN 0 ELSE 1
=============================================================================
