-------------------------------- MODULE Sorting --------------------------------
(***************************************************************************)
(* MergeSort.cpp, QuickSort.cpp and HeapSort.cpp as operators on sequences *)
(* of integers.  Indices start at 1 here, at 0 in the code.                *)
(***************************************************************************)
EXTENDS Integers, SequencesExt, Loops

Swapped(s, i, j) == [s EXCEPT ![i] = s[j], ![j] = s[i]]

\* The contents that nums may have while it is sorted.
Arrays(s) == [DOMAIN s -> Int]

-----------------------------------------------------------------------------
(* Merge sort *)

\* The first loop that merges: what is left of the two halves, and temp.
MergeStep ==
  [x \in [left : Seq(Int), right : Seq(Int), temp : Seq(Int)] |->
     IF x.left = <<>> \/ x.right = <<>> THEN x
     ELSE IF Head(x.left) <= Head(x.right)
     THEN [x EXCEPT !.left = Tail(x.left), !.temp = Append(x.temp, Head(x.left))]
     ELSE [x EXCEPT !.right = Tail(x.right), !.temp = Append(x.temp, Head(x.right))]]

Merge(a, b) ==
  LET end == While(MergeStep, [left |-> a, right |-> b, temp |-> <<>>])
  IN  end.temp \o (end.left \o end.right)

\* sort, and the recursion of mergeSort on nums[l .. r].
MergeSort(s) ==
  LET sort[t \in Seq(Int)] ==
        IF Len(t) <= 1 THEN t
        ELSE LET m == (Len(t) + 1) \div 2
                 left == sort[SubSeq(t, 1, m)]
                 right == sort[SubSeq(t, m + 1, Len(t))]
             IN  IF Last(left) <= Head(right) THEN left \o right ELSE Merge(left, right)
  IN  sort[s]

-----------------------------------------------------------------------------
(* Quick sort *)

\* The loop of partition3 with its variables.
PartitionStep(s, pivot) ==
  [x \in {y \in [seq : Arrays(s), lt : 1 .. Len(s) + 1, i : 1 .. Len(s) + 1, gt : 0 .. Len(s)] :
            y.lt <= y.i} |->
     IF x.i > x.gt THEN x
     ELSE IF x.seq[x.i] < pivot
     THEN [seq |-> Swapped(x.seq, x.i, x.lt), lt |-> x.lt + 1, i |-> x.i + 1, gt |-> x.gt]
     ELSE IF x.seq[x.i] > pivot
     THEN [seq |-> Swapped(x.seq, x.i, x.gt), lt |-> x.lt, i |-> x.i, gt |-> x.gt - 1]
     ELSE [x EXCEPT !.i = x.i + 1]]

\* The variables after it, when rand() chose the pivot at p.
Partition(s, l, r, p) ==
  While(PartitionStep(s, s[p]), [seq |-> Swapped(s, p, r), lt |-> l, i |-> l, gt |-> r - 1])

\* Mutant: the pivot stays at the end.
Partition3NoSwap(s, l, r) == {Partition(s, l, r, p) : p \in l .. r}

\* What partition3 may return and leave in nums.
Partition3(s, l, r) ==
  {LET end == Partition(s, l, r, p)
   IN  [end EXCEPT !.seq = Swapped(end.seq, end.i, r)] : p \in l .. r}

\* Every result quickSort may have.
QuickSort(s) ==
  LET sort[x \in [seq : Arrays(s), l : 1 .. Len(s) + 1, r : 0 .. Len(s)]] ==
        IF x.l >= x.r THEN {x.seq}
        ELSE UNION {UNION {sort[[seq |-> t, l |-> part.i + 1, r |-> x.r]] :
                             t \in sort[[seq |-> part.seq, l |-> x.l, r |-> part.lt - 1]]} :
                      part \in Partition3(x.seq, x.l, x.r)}
  IN  sort[[seq |-> s, l |-> 1, r |-> Len(s)]]

-----------------------------------------------------------------------------
(* Heap sort *)

\* Where adjust finds the greatest of i and its children.
MaxIndex(s, i, size) ==
  LET left == IF 2 * i <= size /\ s[i] < s[2 * i] THEN 2 * i ELSE i
  IN  IF 2 * i + 1 <= size /\ s[left] < s[2 * i + 1] THEN 2 * i + 1 ELSE left

AdjustStep(s, size) ==
  [x \in [seq : Arrays(s), i : 1 .. size] |->
     LET most == MaxIndex(x.seq, x.i, size)
     IN  IF most = x.i THEN x ELSE [seq |-> Swapped(x.seq, x.i, most), i |-> most]]

Adjust(s, i, size) == While(AdjustStep(s, size), [seq |-> s, i |-> i]).seq

\* The two loops of heapSort.
HeapStep(s) ==
  [x \in [seq : Arrays(s), i : 0 .. Len(s)] |->
     IF x.i = 0 THEN x ELSE [seq |-> Adjust(x.seq, x.i, Len(s)), i |-> x.i - 1]]

PopStep(s) ==
  [x \in [seq : Arrays(s), i : 0 .. Len(s)] |->
     IF x.i <= 1 THEN x
     ELSE [seq |-> Adjust(Swapped(x.seq, x.i, 1), 1, x.i - 1), i |-> x.i - 1]]

HeapSort(s) ==
  LET heap == While(HeapStep(s), [seq |-> s, i |-> Len(s) \div 2]).seq
  IN  While(PopStep(s), [seq |-> heap, i |-> Len(s)]).seq

-----------------------------------------------------------------------------
(* Properties *)

Rearranged(s) == {[i \in DOMAIN s |-> s[p[i]]] : p \in Bijection(DOMAIN s, DOMAIN s)}

\* Every result is a sorted rearrangement of the input, whatever pivots are
\* drawn.
SortsRight(s) ==
  /\ QuickSort(s) # {}
  /\ \A t \in {MergeSort(s), HeapSort(s)} \union QuickSort(s) :
       t \in Rearranged(s) /\ IsSorted(t, <=)
=============================================================================
