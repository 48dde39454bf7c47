----------------------------- MODULE PureFunctions -----------------------------
(***************************************************************************)
(* The calls of the functions that keep no state, one after the other.     *)
(***************************************************************************)
EXTENDS Sorting, Subsequences, Searching

CONSTANT Calls  \* each is the name of a property and the arguments

\* The arguments the functions are defined for.  Calls of other names are not
\* those of the three modules.
ASSUME CallsAssumption ==
  \A c \in Calls :
    /\ c[1] = "sort" => c[2] \in Seq(Int)
    /\ c[1] = "increasing" => c[2] \in Seq(Int) /\ c[2] # <<>>
    /\ c[1] = "common" => c[2] \in Seq(Int) /\ c[3] \in Seq(Int)
    /\ c[1] = "find" => c[2] \in Seq(Int) /\ IsSorted(c[2], <=) /\ c[3] \in Int
    /\ c[1] = "match" => c[2] \in Seq(Int) /\ c[3] \in Seq(Int) /\ c[3] # <<>>

VARIABLE call  \* the one under way, or <<>>

Call == call = <<>> /\ call' \in Calls

Return == call # <<>> /\ call' = <<>>

FunctionsSpec == call = <<>> /\ [][Call \/ Return]_call

Calling(function) == call # <<>> /\ call[1] = function

-----------------------------------------------------------------------------

\* The three sorts sort (Sorting.tla).
Sorts == Calling("sort") => SortsRight(call[2])

\* The longest increasing and the longest common subsequence are found
\* (Subsequences.tla).
FindsSubsequences ==
  /\ Calling("increasing") => IncreasingRight(call[2])
  /\ Calling("common") => CommonRight(call[2], call[3])

\* Binary search and pattern matching find what is there (Searching.tla).
Searches ==
  /\ Calling("find") => BinarySearchRight(call[2], call[3])
  /\ Calling("match") => KmpRight(call[2], call[3])

\* The two binary searches for repeated elements find the first and the last
\* place of any target that is there, as the comments above them say.
FindsFirstAndLast ==
  Calling("find") => FirstAndLastRight(call[2], call[3])
=============================================================================
