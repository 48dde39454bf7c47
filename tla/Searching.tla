------------------------------- MODULE Searching -------------------------------
(***************************************************************************)
(* BinarySearch.cpp and KMP.cpp as operators on sequences.  Indices start  *)
(* at 1 here, at 0 in the code; 0 stands for -1.                           *)
(***************************************************************************)
EXTENDS Integers, SequencesExt, Loops

-----------------------------------------------------------------------------
(* The three binary searches *)

\* The variables of each search: lo .. hi is the range that is left.
Range2 == [lo : Int, hi : Int]

Middle(x) == x.lo + (x.hi - x.lo) \div 2

MiddleUp(x) == x.lo + (x.hi - x.lo + 1) \div 2

SearchStep(s, target) ==
  [x \in Range2 |->
     IF x.lo > x.hi \/ s[Middle(x)] = target THEN x
     ELSE IF s[Middle(x)] < target THEN [x EXCEPT !.lo = Middle(x) + 1]
     ELSE [x EXCEPT !.hi = Middle(x) - 1]]

Search(s, target) ==
  LET end == While(SearchStep(s, target), [lo |-> 1, hi |-> Len(s)])
  IN  IF end.lo > end.hi THEN 0 ELSE Middle(end)

FirstStep(s, target) ==
  [x \in Range2 |->
     IF x.lo >= x.hi THEN x
     ELSE IF s[Middle(x)] = target THEN [x EXCEPT !.hi = Middle(x)]
     ELSE [x EXCEPT !.lo = Middle(x) + 1]]

SearchFirst(s, target) == While(FirstStep(s, target), [lo |-> 1, hi |-> Len(s)]).lo

LastStep(s, target) ==
  [x \in Range2 |->
     IF x.lo >= x.hi THEN x
     ELSE IF s[MiddleUp(x)] = target THEN [x EXCEPT !.lo = MiddleUp(x)]
     ELSE [x EXCEPT !.hi = MiddleUp(x) - 1]]

SearchLast(s, target) == While(LastStep(s, target), [lo |-> 1, hi |-> Len(s)]).lo

-----------------------------------------------------------------------------
(* Knuth, Morris, Pratt *)

\* Contents of next: after a mismatch the pattern goes on at an earlier index.
NextTables(p) == {next \in [DOMAIN p -> Nat] : \A j \in DOMAIN p : next[j] < j}

\* What the loops of getnext and getnextnext store for i + 1 when the prefix
\* that ends at i is also the one that ends at j.
Entry(p, next, i, j) == j + 1

EntryOptimized(p, next, i, j) == IF p[i + 1] = p[j + 1] THEN next[j + 1] ELSE j + 1

\* The body of getnext, or of getnextnext when optimized.
FillStep(p, optimized) ==
  [x \in {y \in [next : NextTables(p), i : DOMAIN p, j : Nat] : y.j < y.i} |->
     IF x.i >= Len(p) THEN x
     ELSE IF x.j = 0 \/ p[x.i] = p[x.j]
     THEN [next |-> [x.next EXCEPT ![x.i + 1] =
                       IF optimized THEN EntryOptimized(p, x.next, x.i, x.j)
                       ELSE Entry(p, x.next, x.i, x.j)],
           i |-> x.i + 1, j |-> x.j + 1]
     ELSE [x EXCEPT !.j = x.next[x.j]]]

GetNext(p, optimized) ==
  While(FillStep(p, optimized), [next |-> [i \in DOMAIN p |-> 0], i |-> 1, j |-> 0]).next

\* Mutant: after a mismatch the pattern starts again at its first character.
Restart(next, j) == IF j = 1 THEN 0 ELSE 1

\* Where the pattern goes on after a mismatch at j.
Back(next, j) == next[j]

\* The body of KMP.
MatchStep(s, p, next) ==
  [x \in [i : 1 .. Len(s) + 1, j : 0 .. Len(p) + 1] |->
     IF x.i > Len(s) \/ x.j > Len(p) THEN x
     ELSE IF x.j = 0 \/ s[x.i] = p[x.j] THEN [i |-> x.i + 1, j |-> x.j + 1]
     ELSE [x EXCEPT !.j = Back(next, x.j)]]

Kmp(s, p, optimized) ==
  LET end == While(MatchStep(s, p, GetNext(p, optimized)), [i |-> 1, j |-> 1])
  IN  IF end.j > Len(p) THEN end.i - Len(p) ELSE 0

-----------------------------------------------------------------------------
(* Properties *)

Places(s, target) == {i \in DOMAIN s : s[i] = target}

\* In a sorted sequence the first search finds the target if it is there.  The
\* other two find the first and the last place of a target that is there, but
\* only of one that is the greatest, or the least, element: they take every
\* other element to be on the same side of it.
BinarySearchRight(s, target) ==
  LET places == Places(s, target)
  IN  /\ IF places = {} THEN Search(s, target) = 0 ELSE Search(s, target) \in places
      /\ Len(s) \in places => SearchFirst(s, target) = Min(places)
      /\ 1 \in places => SearchLast(s, target) = Max(places)

\* What the comments promise of the other two: right for every target.
FirstAndLastRight(s, target) ==
  LET places == Places(s, target)
  IN  places # {} => /\ SearchFirst(s, target) = Min(places)
                     /\ SearchLast(s, target) = Max(places)

\* With either table the pattern is found at its first place in the text, and
\* not found when it has none.
KmpRight(s, p) ==
  LET places == {i \in 1 .. Len(s) - Len(p) + 1 : SubSeq(s, i, i + Len(p) - 1) = p}
  IN  \A optimized \in BOOLEAN :
        Kmp(s, p, optimized) = IF places = {} THEN 0 ELSE Min(places)
=============================================================================
