----------------------------- MODULE Subsequences -----------------------------
(***************************************************************************)
(* LIS.cpp and LCS.cpp as operators on sequences of integers, characters   *)
(* among them.  The sequences are built from their ends: what the code     *)
(* appends and reverses at last is put in front here.                      *)
(***************************************************************************)
EXTENDS Integers, SequencesExt, Loops

-----------------------------------------------------------------------------
(* Longest increasing subsequence of a nonempty sequence *)

\* Mutant: equal neighbours extend a run.
SmallerOrEqual(s, i) == {j \in 1 .. i - 1 : s[j] <= s[i]}

Smaller(s, i) == {j \in 1 .. i - 1 : s[j] < s[i]}

\* dp: the length of the longest run that ends at each index.
Runs(s) ==
  LET run[i \in DOMAIN s] == 1 + Max({0} \union {run[j] : j \in Smaller(s, i)})
  IN  run

\* prev: the first index that gave the length of the run; 0 where it starts.
Prev(s, run, i) ==
  IF run[i] = 1 THEN 0 ELSE Min({j \in Smaller(s, i) : run[j] = run[i] - 1})

\* The loop that collects the run, from its last element to its first.
RunStep(s, run) ==
  [x \in [seq : Seq(Int), i : 0 .. Len(s)] |->
     IF x.i = 0 THEN x ELSE [seq |-> <<s[x.i]>> \o x.seq, i |-> Prev(s, run, x.i)]]

\* longIncreaseSequence: the length and the sequence.
LongIncreaseSequence(s) ==
  LET run == Runs(s)
      most == Max({run[i] : i \in DOMAIN s})
      index == Min({i \in DOMAIN s : run[i] = most})
  IN  <<most, While(RunStep(s, run), [seq |-> <<>>, i |-> index]).seq>>

-----------------------------------------------------------------------------
(* Longest common subsequence *)

\* dp, filled by both functions.
Common(a, b) ==
  LET dp[x \in (0 .. Len(a)) \X (0 .. Len(b))] ==
        IF x[1] = 0 \/ x[2] = 0 THEN 0
        ELSE IF a[x[1]] = b[x[2]] THEN dp[<<x[1] - 1, x[2] - 1>>] + 1
        ELSE Max({dp[<<x[1] - 1, x[2]>>], dp[<<x[1], x[2] - 1>>]})
  IN  dp

LongestCommonSubsequence(a, b) == Common(a, b)[<<Len(a), Len(b)>>]

\* The loop that walks back through dp.
WalkStep(a, b, dp) ==
  [x \in [lcs : Seq(Int), i : 0 .. Len(a), j : 0 .. Len(b)] |->
     IF x.i = 0 \/ x.j = 0 THEN x
     ELSE IF a[x.i] = b[x.j]
     THEN [lcs |-> <<a[x.i]>> \o x.lcs, i |-> x.i - 1, j |-> x.j - 1]
     ELSE IF dp[<<x.i - 1, x.j>>] >= dp[<<x.i, x.j - 1>>]
     THEN [x EXCEPT !.i = x.i - 1]
     ELSE [x EXCEPT !.j = x.j - 1]]

GetLongestCommonSubsequence(a, b) ==
  While(WalkStep(a, b, Common(a, b)), [lcs |-> <<>>, i |-> Len(a), j |-> Len(b)]).lcs

-----------------------------------------------------------------------------
(* Properties *)

\* The places of the elements of each subsequence.
Selections(s) == {at \in BoundedSeq(DOMAIN s, Len(s)) : IsSorted(at, <)}

AllSubsequences(s) == {[k \in DOMAIN at |-> s[at[k]]] : at \in Selections(s)}

\* The length is that of the longest increasing subsequence, and the sequence
\* is one of that length.
IncreasingRight(s) ==
  LET increasing == {t \in AllSubsequences(s) : IsSorted(t, <)}
      result == LongIncreaseSequence(s)
  IN  /\ result[1] = Max({Len(t) : t \in increasing})
      /\ result[2] \in increasing /\ Len(result[2]) = result[1]

\* The walk back finds a common subsequence, of the length computed forwards,
\* and none is longer.
CommonRight(a, b) ==
  LET common == AllSubsequences(a) \intersect AllSubsequences(b)
      result == GetLongestCommonSubsequence(a, b)
  IN  /\ result \in common
      /\ Len(result) = LongestCommonSubsequence(a, b)
      /\ \A t \in common : Len(t) <= Len(result)
=============================================================================
