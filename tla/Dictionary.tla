------------------------------ MODULE Dictionary ------------------------------
(***************************************************************************)
(* What every hash table of the repository promises: a mapping from keys   *)
(* to values, the number of keys in it, and honest answers.                *)
(***************************************************************************)
EXTENDS FiniteSets

CONSTANTS Key, Value, None

VARIABLES
  contents,  \* what get would give for each key; None when it finds nothing
  size,      \* the number of entries held
  full,      \* the table has a reason to refuse a key it does not hold
  answer     \* the last operation, its key, and what it returned

Init ==
  /\ contents = [k \in Key |-> None]
  /\ size = 0
  /\ answer = <<>>

Insert(k, v) ==
  /\ answer' = <<"insert", k, TRUE>>
  /\ contents' = [contents EXCEPT ![k] = v]

Refuse(k) ==
  /\ answer' = <<"insert", k, FALSE>>
  /\ contents[k] = None
  /\ full
  /\ UNCHANGED contents

Erase(k) ==
  /\ answer' = <<"erase", k, contents[k] # None>>
  /\ contents' = [contents EXCEPT ![k] = None]

Next ==
  /\ \E k \in Key : (\E v \in Value : Insert(k, v)) \/ Refuse(k) \/ Erase(k)
  /\ size' = Cardinality({k \in Key : contents'[k] # None})

Spec == Init /\ [][Next]_<<contents, size, answer>>
=============================================================================
