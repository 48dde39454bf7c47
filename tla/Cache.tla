-------------------------------- MODULE Cache --------------------------------
(***************************************************************************)
(* What the two caches promise: at most Capacity keys; a key that is stored *)
(* is found until it expires or is evicted; the key evicted is the one     *)
(* used least, and of several the one whose last use is longest ago.       *)
(***************************************************************************)
EXTENDS Integers, SequencesExt

CONSTANTS Key, Value, None, Capacity,
  Counts     \* whether uses count (LFU) or only the last one does (LRU)

VARIABLES
  contents,  \* the value stored for each key, None without one
  order,     \* the stored keys, the next to be evicted last
  uses,      \* how often each stored key was used; 1 unless Counts
  stale,     \* the stored keys that have expired
  answer     \* the last operation, its key, and the value found

Init ==
  /\ contents = [k \in Key |-> None]
  /\ order = <<>>
  /\ uses = [k \in Key |-> 0]
  /\ stale = {}
  /\ answer = <<>>

\* kept with k placed before every key that is not used more often.
Placed(kept, k, n) ==
  LET ahead == Cardinality({i \in DOMAIN kept : uses[kept[i]] > n})
  IN  InsertAt(kept, ahead + 1, k)

\* k used n times, put at its place among the keys of kept; the others go.
Rank(kept, k, n) ==
  /\ order' = Placed(kept, k, n)
  /\ uses' = [j \in Key |->
                IF j = k THEN n ELSE IF Contains(kept, j) THEN uses[j] ELSE 0]

\* order without k; the place of a key that is not there is 0, and nothing goes.
Others(k) == RemoveAt(order, SelectInSeq(order, LAMBDA j : j = k))

Use(k) == Rank(Others(k), k, IF Counts THEN uses[k] + 1 ELSE 1)

Hit(k) ==
  /\ contents[k] # None /\ k \notin stale
  /\ answer' = <<"get", k, contents[k]>>
  /\ Use(k)
  /\ UNCHANGED <<contents, stale>>

\* A key that has expired is not found, and dropped.
Miss(k) ==
  /\ contents[k] = None \/ k \in stale
  /\ answer' = <<"get", k, None>>
  /\ contents' = [contents EXCEPT ![k] = None]
  /\ order' = Others(k)
  /\ uses' = [uses EXCEPT ![k] = 0]
  /\ stale' = stale \ {k}

\* A value may be stored that has already expired.
Expiry(k) == stale' \ {k} = (stale \cap ToSet(order')) \ {k}

Overwrite(k, v) ==
  /\ contents[k] # None
  /\ answer' = <<"put", k, v>>
  /\ Use(k)
  /\ contents' = [contents EXCEPT ![k] = v]
  /\ Expiry(k)

\* A new key: the last n keys go, all of them expired, or only the last one
\* because the cache is full.
Store(k, v) ==
  /\ contents[k] = None
  /\ answer' = <<"put", k, v>>
  /\ \E n \in 0 .. Len(order) :
       LET kept == SubSeq(order, 1, Len(order) - n)
       IN  /\ Len(kept) < Capacity
           /\ \/ ToSet(order) \ ToSet(kept) \subseteq stale
              \/ n = 1 /\ Len(order) = Capacity
           /\ Rank(kept, k, 1)
  /\ contents' = [j \in Key |->
                    IF j = k THEN v ELSE IF uses'[j] > 0 THEN contents[j] ELSE None]
  /\ Expiry(k)

Expire ==
  /\ stale \subseteq stale' /\ stale' \subseteq ToSet(order)
  /\ UNCHANGED <<contents, order, uses, answer>>

Next ==
  \/ \E k \in Key : Hit(k) \/ Miss(k) \/ \E v \in Value : Overwrite(k, v) \/ Store(k, v)
  \/ Expire

Spec == Init /\ [][Next]_<<contents, order, uses, stale, answer>>
=============================================================================
