--------------------------------- MODULE Keys ---------------------------------
(***************************************************************************)
(* What a hash table is used with: keys, values, and std::hash.            *)
(***************************************************************************)
EXTENDS Naturals

CONSTANTS Key, Value,
  Absent,    \* no value: what a search for a key that is not there gives
  Hash       \* Hash[k], std::hash of the key

ASSUME KeysAssumption == Hash \in [Key -> Nat] /\ Absent \notin Value
=============================================================================
