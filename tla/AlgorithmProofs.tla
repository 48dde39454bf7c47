---------------------------- MODULE AlgorithmProofs ----------------------------
(***************************************************************************)
(* The sorts, the subsequences, the binary searches and Knuth, Morris,     *)
(* Pratt are right for every input: every sequence of integers, every      *)
(* target and every pattern, whatever pivots are drawn.                    *)
(*                                                                         *)
(* An argument about a loop has three parts: a measure that each pass      *)
(* makes smaller, an invariant that each pass keeps, and what the two give *)
(* where the loop ends (WhileEnds).  Recursive functions are shown to be   *)
(* solutions of their equations (FixedPoint).  Where one would use         *)
(* induction, a set of naturals at which a claim fails is supposed not to  *)
(* be empty, and its least element refuted (LeastElement).                 *)
(***************************************************************************)
EXTENDS PureFunctions, FiniteSetTheorems, SequenceTheorems, WellFoundedInduction, TLAPS

-----------------------------------------------------------------------------
(* Loops and recursive functions *)

(* A nonempty set of natural numbers has a least element, the one that Min   *)
(* chooses, as there is no infinite descent among the naturals.              *)
LEMMA LeastElement ==
  ASSUME NEW S \in SUBSET Nat, S # {}
  PROVE  Min(S) \in S /\ \A y \in S : Min(S) <= y
<1> DEFINE R == {ss \in Nat \X Nat : ss[1] < ss[2]}
<1>1. IsWellFoundedOn(R, Nat)
  BY NatLessThanWellFounded DEF OpToRel
<1>2. \A x, y \in Nat : x < y => <<x, y>> \in R
  OBVIOUS
<1> HIDE DEF R
<1>3. PICK x \in S : \A y \in S : ~(<<y, x>> \in R)
  BY <1>1, WFMin
<1>4. ASSUME NEW y \in S PROVE x <= y
  <2>1. x \in Nat /\ y \in Nat
    OBVIOUS
  <2>2. ~(y < x)
    BY <1>2, <1>3, <2>1
  <2> QED
    BY <2>1, <2>2
<1> QED
  BY <1>4 DEF Min

-----------------------------------------------------------------------------
(* Recursion: a functional whose value at x depends on the values at smaller *)
(* arguments only has a fixed point.                                         *)

\* f solves the recursive equation F for all arguments of measure below n.
Solves(S, F, m, f, n) == \A x \in S : m[x] < n => f[x] = F[f][x]

\* f and g agree on the arguments of measure below n.
Agree(S, m, f, g, n) == \A y \in S : m[y] < n => f[y] = g[y]

\* F looks only at arguments of a smaller measure.
Descends(S, V, F, m) ==
  \A f, g \in [S -> V], x \in S : Agree(S, m, f, g, m[x]) => F[f][x] = F[g][x]

(* Two functions that solve the equation below n agree below n. *)
LEMMA SolutionsAgree ==
  ASSUME NEW S, NEW V, NEW F, NEW m \in [S -> Nat], Descends(S, V, F, m),
         NEW f \in [S -> V], NEW g \in [S -> V], NEW n \in Nat,
         Solves(S, F, m, f, n), Solves(S, F, m, g, n)
  PROVE  Agree(S, m, f, g, n)
<1> DEFINE D == {k \in Nat : k < n /\ \E x \in S : m[x] = k /\ f[x] # g[x]}
<1> SUFFICES ASSUME NEW x \in S, m[x] < n, f[x] # g[x]  PROVE FALSE
  BY DEF Agree
<1>1. m[x] \in D
  OBVIOUS
<1>2. PICK k \in D : \A i \in D : k <= i
  <2>1. D \subseteq Nat
    OBVIOUS
  <2> HIDE DEF D
  <2>2. QED
    BY <1>1, <2>1, LeastElement
<1>3. PICK y \in S : m[y] = k /\ f[y] # g[y]
  BY <1>2
<1>4. Agree(S, m, f, g, m[y])
  <2> SUFFICES ASSUME NEW z \in S, m[z] < m[y], f[z] # g[z]  PROVE FALSE
    BY DEF Agree
  <2>1. m[z] \in D
    BY <1>2, <1>3
  <2>2. QED
    BY <1>2, <1>3, <2>1
<1>5. F[f][y] = F[g][y]
  BY <1>4 DEF Descends
<1>6. f[y] = F[f][y] /\ g[y] = F[g][y]
  BY <1>2, <1>3 DEF Solves
<1>7. QED
  BY <1>3, <1>5, <1>6

(* Below every n there is a solution. *)
LEMMA SolutionsBelow ==
  ASSUME NEW S, NEW V, NEW F \in [[S -> V] -> [S -> V]], NEW m \in [S -> Nat],
         Descends(S, V, F, m), [S -> V] # {}
  PROVE  \A n \in Nat : \E f \in [S -> V] : Solves(S, F, m, f, n)
<1> DEFINE P(n) == \E f \in [S -> V] : Solves(S, F, m, f, n)
           D == {n \in Nat : ~ P(n)}
<1>1. P(0)
  BY DEF Solves
<1>2. \A n \in Nat : P(n) => P(n + 1)
  <2> SUFFICES ASSUME NEW n \in Nat, NEW f \in [S -> V], Solves(S, F, m, f, n)
               PROVE  P(n + 1)
    OBVIOUS
  <2>1. F[f] \in [S -> V]
    OBVIOUS
  <2>2. ASSUME NEW x \in S, m[x] < n + 1  PROVE F[f][x] = F[F[f]][x]
    <3>1. Agree(S, m, f, F[f], m[x])
      BY <2>2 DEF Agree, Solves
    <3>2. QED
      BY <2>1, <3>1 DEF Descends
  <2>3. Solves(S, F, m, F[f], n + 1)
    BY <2>2 DEF Solves
  <2>4. QED
    BY <2>1, <2>3
<1>3. SUFFICES ASSUME D # {}  PROVE FALSE
  OBVIOUS
<1>4. PICK n \in D : \A k \in D : n <= k
  <2>1. D \subseteq Nat
    OBVIOUS
  <2> HIDE DEF D
  <2>2. QED
    BY <1>3, <2>1, LeastElement
<1> HIDE DEF P
<1>5. n \in Nat /\ ~ P(n)
  BY <1>4
<1>6. n # 0
  BY <1>1, <1>5
<1>7. n - 1 \in Nat /\ n = (n - 1) + 1
  BY <1>5, <1>6
<1>8. ~ P(n - 1)
  BY <1>2, <1>5, <1>7
<1>9. QED
  BY <1>4, <1>5, <1>7, <1>8

\* Some function on S solves F everywhere.
HasFixedPoint(S, V, F) == \E f \in [S -> V] : \A x \in S : f[x] = F[f][x]

(* The functional has a fixed point. *)
LEMMA FixedPoint ==
  ASSUME NEW S, NEW V, NEW F \in [[S -> V] -> [S -> V]], NEW m \in [S -> Nat],
         Descends(S, V, F, m), [S -> V] # {}
  PROVE  HasFixedPoint(S, V, F)
<1> DEFINE part(n) == CHOOSE f \in [S -> V] : Solves(S, F, m, f, n)
           whole == [x \in S |-> part(m[x] + 1)[x]]
<1>1. \A n \in Nat : part(n) \in [S -> V] /\ Solves(S, F, m, part(n), n)
  BY SolutionsBelow
<1> HIDE DEF part
<1>2. whole \in [S -> V]
  BY <1>1
<1>3. ASSUME NEW x \in S  PROVE whole[x] = F[whole][x]
  <2>1. m[x] \in Nat /\ m[x] + 1 \in Nat
    OBVIOUS
  <2> DEFINE f == part(m[x] + 1)
  <2>2. f \in [S -> V] /\ Solves(S, F, m, f, m[x] + 1)
    BY <1>1, <2>1
  <2>3. ASSUME NEW y \in S, m[y] < m[x]  PROVE whole[y] = f[y]
    <3> DEFINE g == part(m[y] + 1)
    <3>1. m[y] + 1 \in Nat /\ m[y] + 1 <= m[x] + 1 /\ m[y] < m[y] + 1
      BY <2>3
    <3>2. g \in [S -> V] /\ Solves(S, F, m, g, m[y] + 1)
      BY <1>1, <3>1
    <3>3. Solves(S, F, m, f, m[y] + 1)
      BY <2>2, <3>1 DEF Solves
    <3> HIDE DEF f
    <3>4. whole[y] = g[y]
      OBVIOUS
    <3> HIDE DEF g, whole
    <3>5. Agree(S, m, g, f, m[y] + 1)
      BY <2>2, <3>1, <3>2, <3>3, SolutionsAgree
    <3>6. QED
      BY <3>1, <3>4, <3>5 DEF Agree
  <2>4. whole[x] = f[x]
    OBVIOUS
  <2> HIDE DEF whole, f
  <2>5. Agree(S, m, whole, f, m[x])
    BY <2>3 DEF Agree
  <2>6. F[whole][x] = F[f][x]
    BY <1>2, <2>2, <2>5 DEF Descends
  <2>7. f[x] = F[f][x]
    BY <2>1, <2>2 DEF Solves
  <2>8. QED
    BY <2>4, <2>6, <2>7
<1> HIDE DEF whole
<1>4. QED
  BY <1>2, <1>3 DEF HasFixedPoint

-----------------------------------------------------------------------------
(* Loops *)

(* A loop whose measure m decreases ends, and where it ends every invariant *)
(* I of its body holds.                                                     *)
Halts(S, step, m) == \A y \in S : step[y] = y \/ m[step[y]] < m[y]

(* While is the function that its recursive definition describes. *)
LEMMA WhileIs ==
  ASSUME NEW S, NEW step \in [S -> S], NEW m \in [S -> Nat], Halts(S, step, m)
  PROVE  \E end \in [S -> S] :
           /\ \A y \in S : end[y] = IF step[y] = y THEN y ELSE end[step[y]]
           /\ \A y : While(step, y) = end[y]
<1> DEFINE F == [f \in [S -> S] |-> [y \in S |-> IF step[y] = y THEN y ELSE f[step[y]]]]
           E(f) == f = [y \in DOMAIN step |-> IF step[y] = y THEN y ELSE f[step[y]]]
<1>0. DOMAIN step = S /\ \A y \in S : step[y] \in S
  OBVIOUS
<1>1. F \in [[S -> S] -> [S -> S]]
  BY <1>0, Zenon
<1>2. Descends(S, S, F, m)
  BY <1>0 DEF Descends, Agree, Halts
<1>3. [S -> S] # {}
  OBVIOUS
<1>4. PICK f \in [S -> S] : \A y \in S : f[y] = F[f][y]
  <2> HIDE DEF F
  <2>1. HasFixedPoint(S, S, F)
    BY <1>1, <1>2, <1>3, FixedPoint
  <2>2. QED
    BY <2>1 DEF HasFixedPoint
<1>5. E(f)
  BY <1>0, <1>4
<1> DEFINE end == CHOOSE g : E(g)
<1>6. E(end)
  <2> HIDE DEF E
  <2>1. QED
    BY <1>5
<1>7. \A y : While(step, y) = end[y]
  BY Zenon DEF While
<1> HIDE DEF end
<1>8. end = [y \in S |-> IF step[y] = y THEN y ELSE end[step[y]]]
  BY <1>0, <1>6
<1> HIDE DEF E
<1>9. \A y \in S : end[y] = IF step[y] = y THEN y ELSE end[step[y]]
  BY <1>8
<1>10. end \in [S -> S]
  <2> DEFINE D == {k \in Nat : \E y \in S : m[y] = k /\ end[y] \notin S}
  <2>1. SUFFICES ASSUME NEW y \in S, end[y] \notin S  PROVE FALSE
    BY <1>8
  <2>2. m[y] \in D
    BY <2>1
  <2>3. PICK k \in D : \A i \in D : k <= i
    <3>1. D \subseteq Nat
      OBVIOUS
    <3> HIDE DEF D
    <3>2. QED
      BY <2>2, <3>1, LeastElement
  <2>4. PICK z \in S : m[z] = k /\ end[z] \notin S
    BY <2>3
  <2>5. step[z] # z /\ end[z] = end[step[z]] /\ step[z] \in S
    BY <1>0, <1>9, <2>4
  <2>6. m[step[z]] \in D
    BY <2>4, <2>5
  <2>7. m[step[z]] < m[z]
    BY <2>5 DEF Halts
  <2>8. QED
    BY <2>3, <2>4, <2>6, <2>7
<1>11. QED
  BY <1>7, <1>9, <1>10

(* A loop that halts ends in its invariant, and its body changes nothing *)
(* there.                                                                *)
LEMMA WhileEnds ==
  ASSUME NEW S, NEW step \in [S -> S], NEW m \in [S -> Nat], Halts(S, step, m),
         NEW I \in SUBSET S, \A y \in I : step[y] \in I, NEW x \in I
  PROVE  While(step, x) \in I /\ step[While(step, x)] = While(step, x)
<1>1. PICK end \in [S -> S] :
           /\ \A y \in S : end[y] = IF step[y] = y THEN y ELSE end[step[y]]
           /\ \A y : While(step, y) = end[y]
  BY WhileIs
<1> DEFINE Good(y) == end[y] \in I /\ step[end[y]] = end[y]
           D == {k \in Nat : \E y \in I : m[y] = k /\ ~ Good(y)}
<1>2. SUFFICES ASSUME ~ Good(x)  PROVE FALSE
  BY <1>1
<1>3. m[x] \in D
  BY <1>2
<1>4. PICK k \in D : \A i \in D : k <= i
  <2>1. D \subseteq Nat
    OBVIOUS
  <2> HIDE DEF D
  <2>2. QED
    BY <1>3, <2>1, LeastElement
<1>5. PICK z \in I : m[z] = k /\ ~ Good(z)
  BY <1>4
<1>6. step[z] # z /\ end[z] = end[step[z]] /\ step[z] \in I
  BY <1>1, <1>5
<1>7. m[step[z]] \in D
  BY <1>5, <1>6
<1>8. m[step[z]] < m[z]
  BY <1>6 DEF Halts
<1>9. QED
  BY <1>4, <1>5, <1>7, <1>8

-----------------------------------------------------------------------------
(* The binary searches *)

(* Integer division by two. *)
LEMMA Halved ==
  ASSUME NEW n \in Nat
  PROVE  n \div 2 \in Nat /\ 2 * (n \div 2) <= n /\ n <= 2 * (n \div 2) + 1
OBVIOUS

(* The index in the middle is in the range, above its lower end if rounded up. *)
LEMMA MiddleIs ==
  ASSUME NEW x \in Range2, x.lo <= x.hi
  PROVE  /\ Middle(x) \in Int /\ x.lo <= Middle(x) /\ Middle(x) <= x.hi
         /\ MiddleUp(x) \in Int /\ x.lo <= MiddleUp(x)
         /\ x.lo < x.hi => Middle(x) < x.hi /\ x.lo < MiddleUp(x) /\ MiddleUp(x) <= x.hi
<1> DEFINE n == x.hi - x.lo
<1>1. x.lo \in Int /\ x.hi \in Int /\ n \in Nat /\ n + 1 \in Nat
  BY DEF Range2
<1>2. /\ n \div 2 \in Nat /\ 2 * (n \div 2) <= n /\ n <= 2 * (n \div 2) + 1
      /\ (n + 1) \div 2 \in Nat /\ 2 * ((n + 1) \div 2) <= n + 1
      /\ n + 1 <= 2 * ((n + 1) \div 2) + 1
  <2> HIDE DEF n
  <2>1. QED
    BY <1>1, Halved
<1>3. PICK h, u \in Nat : h = n \div 2 /\ u = (n + 1) \div 2
  BY <1>2
<1>4. Middle(x) = x.lo + h /\ MiddleUp(x) = x.lo + u
  BY <1>1, <1>3 DEF Middle, MiddleUp
<1>5. 2 * h <= n /\ n <= 2 * h + 1 /\ 2 * u <= n + 1 /\ n + 1 <= 2 * u + 1
  BY <1>2, <1>3
<1>6. QED
  BY <1>1, <1>4, <1>5

\* No element is greater than one behind it.
Ordered(s) == \A i, j \in 1 .. Len(s) : i < j => s[i] <= s[j]

\* The room that is left to a search.
Room2(x) == IF x.lo <= x.hi THEN x.hi - x.lo + 1 ELSE 0

\* The measure of the binary searches: how much of the sequence is left.
RoomOf == [x \in Range2 |-> Room2(x)]

(* The measure is a function to the naturals. *)
LEMMA RoomIs == RoomOf \in [Range2 -> Nat]
BY DEF RoomOf, Room2, Range2

(* The first search. *)
LEMMA SearchRight ==
  ASSUME NEW s \in Seq(Int), Ordered(s), NEW target \in Int
  PROVE  IF Places(s, target) = {} THEN Search(s, target) = 0
         ELSE Search(s, target) \in Places(s, target)
<1> DEFINE step == SearchStep(s, target)
           I == {x \in Range2 : 1 <= x.lo /\ x.hi <= Len(s)
                                /\ \A i \in DOMAIN s : s[i] = target => x.lo <= i /\ i <= x.hi}
           x0 == [lo |-> 1, hi |-> Len(s)]
<1>0. Len(s) \in Nat /\ DOMAIN s = 1 .. Len(s) /\ \A i \in 1 .. Len(s) : s[i] \in Int
  OBVIOUS
<1>1. ASSUME NEW x \in Range2
      PROVE  x.lo \in Int /\ x.hi \in Int /\ x = [lo |-> x.lo, hi |-> x.hi]
  BY DEF Range2
<1>2. ASSUME NEW x \in Range2
      PROVE  \/ step[x] = x /\ (x.lo > x.hi \/ s[Middle(x)] = target)
             \/ /\ x.lo <= x.hi /\ step[x] \in Range2 /\ step[x] # x
                /\ Room2(step[x]) < Room2(x)
                /\ Middle(x) \in Int /\ x.lo <= Middle(x) /\ Middle(x) <= x.hi
                /\ \/ s[Middle(x)] < target /\ step[x] = [lo |-> Middle(x) + 1, hi |-> x.hi]
                   \/ /\ ~ s[Middle(x)] < target /\ s[Middle(x)] # target
                      /\ step[x] = [lo |-> x.lo, hi |-> Middle(x) - 1]
  <2>1. x.lo \in Int /\ x.hi \in Int
    BY <1>1
  <2>2. step[x] = IF x.lo > x.hi \/ s[Middle(x)] = target THEN x
                  ELSE IF s[Middle(x)] < target THEN [x EXCEPT !.lo = Middle(x) + 1]
                  ELSE [x EXCEPT !.hi = Middle(x) - 1]
    BY Zenon DEF SearchStep
  <2>3. CASE x.lo > x.hi \/ s[Middle(x)] = target
    BY <2>2, <2>3, Zenon
  <2>4. CASE ~ (x.lo > x.hi \/ s[Middle(x)] = target)
    <3>1. x.lo <= x.hi
      BY <2>1, <2>4
    <3>2. Middle(x) \in Int /\ x.lo <= Middle(x) /\ Middle(x) <= x.hi
      BY <3>1, MiddleIs
    <3>3. step[x] = IF s[Middle(x)] < target THEN [x EXCEPT !.lo = Middle(x) + 1]
                    ELSE [x EXCEPT !.hi = Middle(x) - 1]
      BY <2>2, <2>4, Zenon
    <3> HIDE DEF step
    <3>4. CASE s[Middle(x)] < target
      <4>1. step[x] = [lo |-> Middle(x) + 1, hi |-> x.hi]
        BY <1>1, <3>3, <3>4
      <4>2. step[x] \in Range2 /\ step[x].lo = Middle(x) + 1 /\ step[x].hi = x.hi
        BY <2>1, <3>2, <4>1 DEF Range2
      <4>3. Room2(step[x]) < Room2(x) /\ step[x] # x
        BY <2>1, <3>1, <3>2, <4>2 DEF Room2
      <4>4. QED
        BY <3>1, <3>2, <3>4, <4>1, <4>2, <4>3
    <3>5. CASE ~ s[Middle(x)] < target
      <4>1. step[x] = [lo |-> x.lo, hi |-> Middle(x) - 1]
        BY <1>1, <3>3, <3>5
      <4>2. step[x] \in Range2 /\ step[x].lo = x.lo /\ step[x].hi = Middle(x) - 1
        BY <2>1, <3>2, <4>1 DEF Range2
      <4>3. Room2(step[x]) < Room2(x) /\ step[x] # x
        BY <2>1, <3>1, <3>2, <4>2 DEF Room2
      <4>4. QED
        BY <2>4, <3>1, <3>2, <3>5, <4>1, <4>2, <4>3
    <3>6. QED
      BY <3>4, <3>5
  <2>5. QED
    BY <2>3, <2>4
<1>3. step \in [Range2 -> Range2]
  <2>1. ASSUME NEW x \in Range2  PROVE step[x] \in Range2
    <3> HIDE DEF step
    <3>1. QED
      BY <1>2
  <2>2. QED
    BY <2>1 DEF SearchStep
<1>4. Halts(Range2, step, RoomOf)
  <2> SUFFICES ASSUME NEW x \in Range2, step[x] # x  PROVE RoomOf[step[x]] < RoomOf[x]
    BY DEF Halts
  <2>1. RoomOf[step[x]] = Room2(step[x]) /\ RoomOf[x] = Room2(x)
    BY <1>3 DEF RoomOf
  <2> HIDE DEF step
  <2>2. QED
    BY <1>2, <2>1
<1>5. ASSUME NEW x \in I  PROVE step[x] \in I
  <2> HIDE DEF step
  <2> SUFFICES ASSUME step[x] # x  PROVE step[x] \in I
    OBVIOUS
  <2>1. /\ x \in Range2 /\ x.lo \in Int /\ x.hi \in Int /\ 1 <= x.lo /\ x.hi <= Len(s)
        /\ x.lo <= Middle(x) /\ Middle(x) <= x.hi /\ Middle(x) \in Int
    BY <1>1, <1>2
  <2>2. Middle(x) \in DOMAIN s /\ s[Middle(x)] \in Int
    BY <1>0, <2>1
  <2>3. CASE /\ s[Middle(x)] < target /\ step[x] = [lo |-> Middle(x) + 1, hi |-> x.hi]
    <3>1. \A i \in DOMAIN s : s[i] = target => Middle(x) + 1 <= i
      BY <1>0, <2>2, <2>3 DEF Ordered
    <3>2. QED
      BY <1>0, <2>1, <2>3, <3>1 DEF Range2
  <2>4. CASE /\ ~ s[Middle(x)] < target /\ s[Middle(x)] # target
             /\ step[x] = [lo |-> x.lo, hi |-> Middle(x) - 1]
    <3>1. \A i \in DOMAIN s : s[i] = target => i <= Middle(x) - 1
      BY <1>0, <2>2, <2>4 DEF Ordered
    <3>2. QED
      BY <1>0, <2>1, <2>4, <3>1 DEF Range2
  <2>5. QED
    BY <1>2, <2>3, <2>4
<1>6. x0 \in I
  BY <1>0 DEF Range2
<1> DEFINE end == While(step, x0)
<1>7. end \in I /\ step[end] = end
  <2> HIDE DEF step, x0
  <2>0. I \in SUBSET Range2
    OBVIOUS
  <2> HIDE DEF I
  <2>1. QED
    BY <1>3, <1>4, <1>5, <1>6, <2>0, RoomIs, WhileEnds
<1>8. Search(s, target) = IF end.lo > end.hi THEN 0 ELSE Middle(end)
  BY DEF Search
<1> HIDE DEF end, step
<1>9. CASE end.lo > end.hi
  <2>1. Places(s, target) = {}
    BY <1>0, <1>1, <1>7, <1>9 DEF Places
  <2>2. QED
    BY <1>8, <1>9, <2>1
<1>10. CASE ~ (end.lo > end.hi)
  <2>1. /\ Middle(end) \in DOMAIN s
    <3>1. end \in Range2 /\ end.lo <= end.hi /\ 1 <= end.lo /\ end.hi <= Len(s)
      BY <1>1, <1>7, <1>10
    <3>2. Middle(end) \in Int /\ end.lo <= Middle(end) /\ Middle(end) <= end.hi
      BY <3>1, MiddleIs
    <3>3. QED
      BY <1>0, <1>1, <3>1, <3>2
  <2>2. s[Middle(end)] = target
    BY <1>2, <1>7, <1>10
  <2>3. Middle(end) \in Places(s, target)
    BY <2>1, <2>2 DEF Places
  <2>4. QED
    BY <1>8, <1>10, <2>3
<1>11. QED
  BY <1>9, <1>10

(* The search for the first place of the greatest element. *)
LEMMA SearchFirstRight ==
  ASSUME NEW s \in Seq(Int), Ordered(s), NEW target \in Int, Len(s) \in Places(s, target)
  PROVE  SearchFirst(s, target) \in Places(s, target)
         /\ \A i \in Places(s, target) : SearchFirst(s, target) <= i
<1> DEFINE step == FirstStep(s, target)
           I == {x \in Range2 : /\ 1 <= x.lo /\ x.lo <= x.hi /\ x.hi <= Len(s)
                                /\ s[x.hi] = target /\ \A i \in DOMAIN s : s[i] = target => x.lo <= i}
           x0 == [lo |-> 1, hi |-> Len(s)]
<1>0. Len(s) \in Nat /\ DOMAIN s = 1 .. Len(s) /\ \A i \in 1 .. Len(s) : s[i] \in Int
  OBVIOUS
<1>1. ASSUME NEW x \in Range2
      PROVE  x.lo \in Int /\ x.hi \in Int /\ x = [lo |-> x.lo, hi |-> x.hi]
  BY DEF Range2
<1>2. ASSUME NEW x \in Range2
      PROVE  \/ step[x] = x /\ x.lo >= x.hi
             \/ /\ x.lo < x.hi /\ step[x] \in Range2 /\ step[x] # x
                /\ Room2(step[x]) < Room2(x)
                /\ Middle(x) \in Int /\ x.lo <= Middle(x) /\ Middle(x) < x.hi
                /\ \/ s[Middle(x)] = target /\ step[x].lo = x.lo /\ step[x].hi = Middle(x)
                   \/ s[Middle(x)] # target /\ step[x].lo = Middle(x) + 1 /\ step[x].hi = x.hi
  <2>1. x.lo \in Int /\ x.hi \in Int
    BY <1>1
  <2>2. step[x] = IF x.lo >= x.hi THEN x
                  ELSE IF s[Middle(x)] = target THEN [x EXCEPT !.hi = Middle(x)]
                  ELSE [x EXCEPT !.lo = Middle(x) + 1]
    BY Zenon DEF FirstStep
  <2>3. CASE x.lo >= x.hi
    BY <2>2, <2>3, Zenon
  <2>4. CASE ~ (x.lo >= x.hi)
    <3>1. x.lo < x.hi /\ x.lo <= x.hi
      BY <2>1, <2>4
    <3>2. Middle(x) \in Int /\ x.lo <= Middle(x) /\ Middle(x) < x.hi
      BY <3>1, MiddleIs
    <3>3. step[x] = IF s[Middle(x)] = target THEN [x EXCEPT !.hi = Middle(x)]
                    ELSE [x EXCEPT !.lo = Middle(x) + 1]
      BY <2>2, <2>4, Zenon
    <3> HIDE DEF step
    <3>4. CASE s[Middle(x)] = target
      <4>1. step[x] = [lo |-> x.lo, hi |-> Middle(x)]
        BY <1>1, <3>3, <3>4
      <4>2. step[x] \in Range2 /\ step[x].lo = x.lo /\ step[x].hi = Middle(x)
        BY <2>1, <3>2, <4>1 DEF Range2
      <4>3. Room2(step[x]) < Room2(x) /\ step[x] # x
        BY <2>1, <3>1, <3>2, <4>2 DEF Room2
      <4>4. QED
        BY <3>1, <3>2, <3>4, <4>2, <4>3
    <3>5. CASE s[Middle(x)] # target
      <4>1. step[x] = [lo |-> Middle(x) + 1, hi |-> x.hi]
        BY <1>1, <3>3, <3>5
      <4>2. step[x] \in Range2 /\ step[x].lo = Middle(x) + 1 /\ step[x].hi = x.hi
        BY <2>1, <3>2, <4>1 DEF Range2
      <4>3. Room2(step[x]) < Room2(x) /\ step[x] # x
        BY <2>1, <3>1, <3>2, <4>2 DEF Room2
      <4>4. QED
        BY <3>1, <3>2, <3>5, <4>2, <4>3
    <3>6. QED
      BY <3>4, <3>5
  <2>5. QED
    BY <2>3, <2>4
<1>3. step \in [Range2 -> Range2]
  <2>1. ASSUME NEW x \in Range2  PROVE step[x] \in Range2
    <3> HIDE DEF step
    <3>1. QED
      BY <1>2
  <2>2. QED
    BY <2>1 DEF FirstStep
<1>4. Halts(Range2, step, RoomOf)
  <2> SUFFICES ASSUME NEW x \in Range2, step[x] # x  PROVE RoomOf[step[x]] < RoomOf[x]
    BY DEF Halts
  <2>1. RoomOf[step[x]] = Room2(step[x]) /\ RoomOf[x] = Room2(x)
    BY <1>3 DEF RoomOf
  <2> HIDE DEF step
  <2>2. QED
    BY <1>2, <2>1
<1>5. ASSUME NEW x \in I  PROVE step[x] \in I
  <2> HIDE DEF step
  <2> SUFFICES ASSUME step[x] # x  PROVE step[x] \in I
    OBVIOUS
  <2>1. /\ x \in Range2 /\ x.lo \in Int /\ x.hi \in Int /\ 1 <= x.lo /\ x.hi <= Len(s)
        /\ x.lo <= Middle(x) /\ Middle(x) < x.hi /\ Middle(x) \in Int
    BY <1>1, <1>2
  <2>2. Middle(x) \in DOMAIN s /\ s[Middle(x)] \in Int
    BY <1>0, <2>1
  <2>3. CASE s[Middle(x)] = target /\ step[x].lo = x.lo /\ step[x].hi = Middle(x)
    BY <1>2, <2>1, <2>3
  <2>4. CASE s[Middle(x)] # target /\ step[x].lo = Middle(x) + 1 /\ step[x].hi = x.hi
    <3>1. \A i \in DOMAIN s : i <= Middle(x) => s[i] # target
      <4>1. Len(s) \in DOMAIN s /\ s[Len(s)] = target
        BY DEF Places
      <4>2. \A i \in 1 .. Len(s) : s[i] <= target
        BY <1>0, <4>1 DEF Ordered
      <4>3. s[Middle(x)] < target
        BY <1>0, <2>2, <2>4, <4>2
      <4>4. \A i \in 1 .. Len(s) : i <= Middle(x) => s[i] <= s[Middle(x)]
        BY <1>0, <2>2 DEF Ordered
      <4>5. QED
        BY <1>0, <2>2, <4>3, <4>4
    <3>2. \A i \in DOMAIN s : s[i] = target => Middle(x) + 1 <= i
      BY <1>0, <2>2, <3>1
    <3>3. step[x] \in Range2 /\ Middle(x) + 1 <= x.hi /\ 1 <= Middle(x) + 1
      BY <1>2, <2>1, <2>4
    <3>4. QED
      BY <2>1, <2>4, <3>2, <3>3
  <2>5. QED
    BY <1>2, <2>3, <2>4
<1>6. x0 \in I
  BY <1>0 DEF Range2, Places
<1> DEFINE end == While(step, x0)
<1>7. end \in I /\ step[end] = end
  <2> HIDE DEF step, x0
  <2>0. I \in SUBSET Range2
    OBVIOUS
  <2> HIDE DEF I
  <2>1. QED
    BY <1>3, <1>4, <1>5, <1>6, <2>0, RoomIs, WhileEnds
<1>8. SearchFirst(s, target) = end.lo
  BY DEF SearchFirst
<1> HIDE DEF end, step
<1>9. end.lo = end.hi /\ end.lo \in DOMAIN s
  BY <1>0, <1>1, <1>2, <1>7
<1>10. end.lo \in Places(s, target)
  BY <1>7, <1>9 DEF Places
<1>11. \A i \in Places(s, target) : end.lo <= i
  BY <1>7, <1>9 DEF Places
<1>12. QED
  BY <1>8, <1>9, <1>10, <1>11 DEF Places

(* The search for the last place of the least element. *)
LEMMA SearchLastRight ==
  ASSUME NEW s \in Seq(Int), Ordered(s), NEW target \in Int, 1 \in Places(s, target)
  PROVE  SearchLast(s, target) \in Places(s, target)
         /\ \A i \in Places(s, target) : SearchLast(s, target) >= i
<1> DEFINE step == LastStep(s, target)
           I == {x \in Range2 : /\ 1 <= x.lo /\ x.lo <= x.hi /\ x.hi <= Len(s)
                                /\ s[x.lo] = target /\ \A i \in DOMAIN s : s[i] = target => i <= x.hi}
           x0 == [lo |-> 1, hi |-> Len(s)]
<1>0. Len(s) \in Nat /\ DOMAIN s = 1 .. Len(s) /\ \A i \in 1 .. Len(s) : s[i] \in Int
  OBVIOUS
<1>1. ASSUME NEW x \in Range2
      PROVE  x.lo \in Int /\ x.hi \in Int /\ x = [lo |-> x.lo, hi |-> x.hi]
  BY DEF Range2
<1>2. ASSUME NEW x \in Range2
      PROVE  \/ step[x] = x /\ x.lo >= x.hi
             \/ /\ x.lo < x.hi /\ step[x] \in Range2 /\ step[x] # x
                /\ Room2(step[x]) < Room2(x)
                /\ MiddleUp(x) \in Int /\ x.lo < MiddleUp(x) /\ MiddleUp(x) <= x.hi
                /\ \/ s[MiddleUp(x)] = target /\ step[x].lo = MiddleUp(x) /\ step[x].hi = x.hi
                   \/ s[MiddleUp(x)] # target /\ step[x].lo = x.lo /\ step[x].hi = MiddleUp(x) - 1
  <2>1. x.lo \in Int /\ x.hi \in Int
    BY <1>1
  <2>2. step[x] = IF x.lo >= x.hi THEN x
                  ELSE IF s[MiddleUp(x)] = target THEN [x EXCEPT !.lo = MiddleUp(x)]
                  ELSE [x EXCEPT !.hi = MiddleUp(x) - 1]
    BY Zenon DEF LastStep
  <2>3. CASE x.lo >= x.hi
    BY <2>2, <2>3, Zenon
  <2>4. CASE ~ (x.lo >= x.hi)
    <3>1. x.lo < x.hi /\ x.lo <= x.hi
      BY <2>1, <2>4
    <3>2. MiddleUp(x) \in Int /\ x.lo < MiddleUp(x) /\ MiddleUp(x) <= x.hi
      BY <3>1, MiddleIs
    <3>3. step[x] = IF s[MiddleUp(x)] = target THEN [x EXCEPT !.lo = MiddleUp(x)]
                    ELSE [x EXCEPT !.hi = MiddleUp(x) - 1]
      BY <2>2, <2>4, Zenon
    <3> HIDE DEF step
    <3>4. CASE s[MiddleUp(x)] = target
      <4>1. step[x] = [lo |-> MiddleUp(x), hi |-> x.hi]
        BY <1>1, <3>3, <3>4
      <4>2. step[x] \in Range2 /\ step[x].lo = MiddleUp(x) /\ step[x].hi = x.hi
        BY <2>1, <3>2, <4>1 DEF Range2
      <4>3. Room2(step[x]) < Room2(x) /\ step[x] # x
        BY <2>1, <3>1, <3>2, <4>2 DEF Room2
      <4>4. QED
        BY <3>1, <3>2, <3>4, <4>2, <4>3
    <3>5. CASE s[MiddleUp(x)] # target
      <4>1. step[x] = [lo |-> x.lo, hi |-> MiddleUp(x) - 1]
        BY <1>1, <3>3, <3>5
      <4>2. step[x] \in Range2 /\ step[x].lo = x.lo /\ step[x].hi = MiddleUp(x) - 1
        BY <2>1, <3>2, <4>1 DEF Range2
      <4>3. Room2(step[x]) < Room2(x) /\ step[x] # x
        BY <2>1, <3>1, <3>2, <4>2 DEF Room2
      <4>4. QED
        BY <3>1, <3>2, <3>5, <4>2, <4>3
    <3>6. QED
      BY <3>4, <3>5
  <2>5. QED
    BY <2>3, <2>4
<1>3. step \in [Range2 -> Range2]
  <2>1. ASSUME NEW x \in Range2  PROVE step[x] \in Range2
    <3> HIDE DEF step
    <3>1. QED
      BY <1>2
  <2>2. QED
    BY <2>1 DEF LastStep
<1>4. Halts(Range2, step, RoomOf)
  <2> SUFFICES ASSUME NEW x \in Range2, step[x] # x  PROVE RoomOf[step[x]] < RoomOf[x]
    BY DEF Halts
  <2>1. RoomOf[step[x]] = Room2(step[x]) /\ RoomOf[x] = Room2(x)
    BY <1>3 DEF RoomOf
  <2> HIDE DEF step
  <2>2. QED
    BY <1>2, <2>1
<1>5. ASSUME NEW x \in I  PROVE step[x] \in I
  <2> HIDE DEF step
  <2> SUFFICES ASSUME step[x] # x  PROVE step[x] \in I
    OBVIOUS
  <2>1. /\ x \in Range2 /\ x.lo \in Int /\ x.hi \in Int /\ 1 <= x.lo /\ x.hi <= Len(s)
        /\ x.lo < MiddleUp(x) /\ MiddleUp(x) <= x.hi /\ MiddleUp(x) \in Int
    BY <1>1, <1>2
  <2>2. MiddleUp(x) \in DOMAIN s /\ s[MiddleUp(x)] \in Int
    BY <1>0, <2>1
  <2>3. CASE s[MiddleUp(x)] = target /\ step[x].lo = MiddleUp(x) /\ step[x].hi = x.hi
    BY <1>2, <2>1, <2>3
  <2>4. CASE s[MiddleUp(x)] # target /\ step[x].lo = x.lo /\ step[x].hi = MiddleUp(x) - 1
    <3>1. \A i \in DOMAIN s : MiddleUp(x) <= i => s[i] # target
      <4>1. 1 \in DOMAIN s /\ s[1] = target
        BY DEF Places
      <4>2. \A i \in 1 .. Len(s) : s[i] >= target
        BY <1>0, <4>1 DEF Ordered
      <4>3. s[MiddleUp(x)] > target
        BY <1>0, <2>2, <2>4, <4>2
      <4>4. \A i \in 1 .. Len(s) : i >= MiddleUp(x) => s[i] >= s[MiddleUp(x)]
        BY <1>0, <2>2 DEF Ordered
      <4>5. QED
        BY <1>0, <2>2, <4>3, <4>4
    <3>2. \A i \in DOMAIN s : s[i] = target => i <= MiddleUp(x) - 1
      BY <1>0, <2>2, <3>1
    <3>3. step[x] \in Range2 /\ x.lo <= MiddleUp(x) - 1 /\ MiddleUp(x) - 1 <= Len(s)
      BY <1>0, <1>2, <2>1, <2>4
    <3>4. QED
      BY <2>1, <2>4, <3>2, <3>3
  <2>5. QED
    BY <1>2, <2>3, <2>4
<1>6. x0 \in I
  BY <1>0 DEF Range2, Places
<1> DEFINE end == While(step, x0)
<1>7. end \in I /\ step[end] = end
  <2> HIDE DEF step, x0
  <2>0. I \in SUBSET Range2
    OBVIOUS
  <2> HIDE DEF I
  <2>1. QED
    BY <1>3, <1>4, <1>5, <1>6, <2>0, RoomIs, WhileEnds
<1>8. SearchLast(s, target) = end.lo
  BY DEF SearchLast
<1> HIDE DEF end, step
<1>9. end.lo = end.hi /\ end.lo \in DOMAIN s
  BY <1>0, <1>1, <1>2, <1>7
<1>10. end.lo \in Places(s, target)
  BY <1>7, <1>9 DEF Places
<1>11. \A i \in Places(s, target) : i <= end.lo
  BY <1>7, <1>9 DEF Places
<1>12. QED
  BY <1>8, <1>9, <1>10, <1>11 DEF Places

-----------------------------------------------------------------------------
(* Knuth, Morris, Pratt *)

(* What Min and Max choose. *)
LEMMA MinIs ==
  ASSUME NEW S \in SUBSET Int, NEW n \in S, \A i \in S : n <= i
  PROVE  Min(S) = n
<1>1. Min(S) \in S /\ \A i \in S : Min(S) <= i
  BY DEF Min
<1>2. Min(S) \in Int /\ n \in Int
  BY <1>1
<1>3. Min(S) <= n /\ n <= Min(S)
  BY <1>1
<1>4. QED
  BY <1>2, <1>3

(* The maximum of a set that has one. *)
LEMMA MaxIs ==
  ASSUME NEW S \in SUBSET Int, NEW n \in S, \A i \in S : n >= i
  PROVE  Max(S) = n
<1>1. Max(S) \in S /\ \A i \in S : Max(S) >= i
  BY DEF Max
<1>2. Max(S) \in Int /\ n \in Int
  BY <1>1
<1>3. Max(S) >= n /\ n >= Max(S)
  BY <1>1
<1>4. QED
  BY <1>2, <1>3

\* With j of the pattern under i of the text, all before j fits.
Fits(s, p, i, j) == \A k \in 1 .. j - 1 : p[k] = s[i - j + k]

(* What fits the prefix that fits the text fits the text, and conversely. *)
LEMMA FitsWithin ==
  ASSUME NEW s, NEW p, NEW i \in Nat, NEW j \in Nat, NEW k \in Nat, k < j, j <= i,
         Fits(s, p, i, j)
  PROVE  Fits(p, p, j, k) <=> Fits(s, p, i, k)
<1>1. ASSUME NEW h \in 1 .. k - 1  PROVE p[j - k + h] = s[i - k + h]
  <2>1. j - k + h \in 1 .. j - 1 /\ i - j + (j - k + h) = i - k + h
    BY <1>1
  <2>2. QED
    BY <2>1 DEF Fits
<1>2. QED
  BY <1>1 DEF Fits

\* After a mismatch at j the table goes on where the prefix fits, and leaves
\* out only what would mismatch as well.
GoesOn(p, next, j) ==
  /\ Fits(p, p, j, next[j])
  /\ \A k \in next[j] + 1 .. j - 1 : Fits(p, p, j, k) => p[k] = p[j]

\* The variables of getnext.
FillState(p) == {y \in [next : NextTables(p), i : DOMAIN p, j : Nat] : y.j < y.i}

\* The invariant of the loop that fills the table.
FillInv(p, x) ==
  /\ Fits(p, p, x.i, x.j)
  /\ \A k \in x.j + 1 .. x.i - 1 : Fits(p, p, x.i, k) => p[k] # p[x.i]
  /\ \A h \in 1 .. x.i : GoesOn(p, x.next, h)

(* The loop goes on with the prefix that it has, or with a shorter one. *)
LEMMA FillStepIs ==
  ASSUME NEW C, NEW p \in Seq(C), NEW optimized \in BOOLEAN, NEW x \in FillState(p)
  PROVE  LET y == FillStep(p, optimized)[x]
         IN  /\ y \in FillState(p)
             /\ \/ y = x /\ x.i = Len(p)
                \/ /\ x.i < Len(p) /\ (x.j = 0 \/ p[x.i] = p[x.j])
                   /\ y.i = x.i + 1 /\ y.j = x.j + 1
                   /\ \A h \in 1 .. x.i : y.next[h] = x.next[h]
                   /\ y.next[y.i] = IF optimized /\ p[y.i] = p[y.j] THEN x.next[y.j] ELSE y.j
                \/ /\ x.i < Len(p) /\ x.j # 0 /\ p[x.i] # p[x.j]
                   /\ y.next = x.next /\ y.i = x.i /\ y.j = x.next[x.j] /\ y.j < x.j
<1> DEFINE y == FillStep(p, optimized)[x]
<1>0. Len(p) \in Nat /\ DOMAIN p = 1 .. Len(p)
  OBVIOUS
<1>1. /\ x \in [next : NextTables(p), i : DOMAIN p, j : Nat] /\ x.j < x.i
      /\ x.i \in 1 .. Len(p) /\ x.j \in Nat /\ x.next \in [1 .. Len(p) -> Nat]
      /\ \A h \in 1 .. Len(p) : x.next[h] < h
      /\ x = [next |-> x.next, i |-> x.i, j |-> x.j]
  BY <1>0 DEF FillState, NextTables
<1> DEFINE new == [x.next EXCEPT ![x.i + 1] =
                     IF optimized THEN EntryOptimized(p, x.next, x.i, x.j)
                     ELSE Entry(p, x.next, x.i, x.j)]
<1>2. y = IF x.i >= Len(p) THEN x
          ELSE IF x.j = 0 \/ p[x.i] = p[x.j]
          THEN [next |-> new, i |-> x.i + 1, j |-> x.j + 1]
          ELSE [x EXCEPT !.j = x.next[x.j]]
  BY Zenon DEF FillStep, FillState
<1>3. CASE x.i >= Len(p)
  <2>1. x.i = Len(p)
    BY <1>0, <1>1, <1>3
  <2>2. QED
    BY <1>2, <1>3, <2>1, Zenon
<1>4. CASE x.i < Len(p) /\ (x.j = 0 \/ p[x.i] = p[x.j])
  <2>1. y = [next |-> new, i |-> x.i + 1, j |-> x.j + 1]
    BY <1>1, <1>2, <1>4
  <2>2. x.i + 1 \in 1 .. Len(p) /\ x.j + 1 \in 1 .. x.i /\ x.j + 1 \in Nat
    BY <1>0, <1>1, <1>4
  <2>3. /\ new \in [1 .. Len(p) -> Nat]
        /\ \A h \in 1 .. Len(p) : h # x.i + 1 => new[h] = x.next[h]
        /\ new[x.i + 1] = IF optimized /\ p[x.i + 1] = p[x.j + 1] THEN x.next[x.j + 1]
                          ELSE x.j + 1
    BY <1>0, <1>1, <2>2 DEF Entry, EntryOptimized
  <2> HIDE DEF new
  <2>4. \A h \in 1 .. Len(p) : new[h] < h
    BY SMTT(30), <1>0, <1>1, <2>2, <2>3
  <2>5. new \in NextTables(p)
    BY <1>0, <2>3, <2>4 DEF NextTables
  <2>6. y \in FillState(p) /\ y.i = x.i + 1 /\ y.j = x.j + 1 /\ y.next = new
    BY <1>0, <1>1, <2>1, <2>2, <2>5 DEF FillState
  <2> HIDE DEF y
  <2>7. /\ \A h \in 1 .. x.i : y.next[h] = x.next[h]
        /\ y.next[y.i] = IF optimized /\ p[y.i] = p[y.j] THEN x.next[y.j] ELSE y.j
    BY <1>0, <1>1, <2>2, <2>3, <2>6
  <2>8. QED
    BY <1>4, <2>6, <2>7 DEF y
<1>5. CASE x.i < Len(p) /\ ~ (x.j = 0 \/ p[x.i] = p[x.j])
  <2>1. y = [x EXCEPT !.j = x.next[x.j]]
    BY <1>1, <1>2, <1>5
  <2>2. x.j \in 1 .. Len(p) /\ x.next[x.j] \in Nat /\ x.next[x.j] < x.j
    BY <1>0, <1>1, <1>5
  <2>3. y = [next |-> x.next, i |-> x.i, j |-> x.next[x.j]]
    BY <1>1, <2>1
  <2>4. y \in FillState(p) /\ y.i = x.i /\ y.j = x.next[x.j] /\ y.next = x.next
    BY <1>0, <1>1, <2>2, <2>3 DEF FillState
  <2> HIDE DEF y
  <2>5. QED
    BY <1>5, <2>2, <2>4 DEF y
<1>6. QED
  BY <1>0, <1>1, <1>3, <1>4, <1>5

(* The invariant is kept. *)
LEMMA FillKeeps ==
  ASSUME NEW C, NEW p \in Seq(C), NEW optimized \in BOOLEAN, NEW x \in FillState(p),
         FillInv(p, x)
  PROVE  FillInv(p, FillStep(p, optimized)[x])
<1> DEFINE y == FillStep(p, optimized)[x]
<1>0. /\ Len(p) \in Nat /\ DOMAIN p = 1 .. Len(p)
      /\ x.i \in 1 .. Len(p) /\ x.j \in Nat /\ x.j < x.i
      /\ x.next \in [1 .. Len(p) -> Nat] /\ \A h \in 1 .. Len(p) : x.next[h] < h
  BY DEF FillState, NextTables
<1>1. \/ y = x /\ x.i = Len(p)
      \/ /\ x.i < Len(p) /\ (x.j = 0 \/ p[x.i] = p[x.j])
         /\ y.i = x.i + 1 /\ y.j = x.j + 1
         /\ \A h \in 1 .. x.i : y.next[h] = x.next[h]
         /\ y.next[y.i] = IF optimized /\ p[y.i] = p[y.j] THEN x.next[y.j] ELSE y.j
      \/ /\ x.i < Len(p) /\ x.j # 0 /\ p[x.i] # p[x.j]
         /\ y.next = x.next /\ y.i = x.i /\ y.j = x.next[x.j] /\ y.j < x.j
  BY FillStepIs
<1> HIDE DEF y
<1>2. CASE /\ x.i < Len(p) /\ (x.j = 0 \/ p[x.i] = p[x.j])
           /\ y.i = x.i + 1 /\ y.j = x.j + 1
           /\ \A h \in 1 .. x.i : y.next[h] = x.next[h]
           /\ y.next[y.i] = IF optimized /\ p[y.i] = p[y.j] THEN x.next[y.j] ELSE y.j
  <2>1. Fits(p, p, x.i + 1, x.j + 1)
    <3> SUFFICES ASSUME NEW k \in 1 .. x.j  PROVE p[k] = p[x.i - x.j + k]
      <4>1. (x.j + 1) - 1 = x.j /\ (x.i + 1) - (x.j + 1) = x.i - x.j
        BY <1>0
      <4>2. QED
        BY <4>1 DEF Fits
    <3>1. CASE k = x.j
      BY <1>0, <1>2, <3>1
    <3>2. CASE k # x.j
      <4>1. k \in 1 .. x.j - 1
        BY <1>0, <3>2
      <4>2. QED
        BY <4>1 DEF FillInv, Fits
    <3>3. QED
      BY <3>1, <3>2
  <2>2. ASSUME NEW k \in x.j + 2 .. x.i, Fits(p, p, x.i + 1, k)  PROVE FALSE
    <3>1. k - 1 \in x.j + 1 .. x.i - 1 /\ k \in Nat /\ k - 1 \in 1 .. k - 1 /\ x.i \in Nat
      BY <1>0
    <3>2. p[k - 1] = p[x.i]
      <4>1. (x.i + 1) - k + (k - 1) = x.i
        BY <3>1
      <4>2. p[k - 1] = p[(x.i + 1) - k + (k - 1)]
        BY <2>2, <3>1 DEF Fits
      <4>3. QED
        BY <4>1, <4>2, Zenon
    <3>3. Fits(p, p, x.i, k - 1)
      <4> SUFFICES ASSUME NEW h \in 1 .. (k - 1) - 1  PROVE p[h] = p[x.i - (k - 1) + h]
        BY DEF Fits
      <4>1. h \in 1 .. k - 1 /\ (x.i + 1) - k + h = x.i - (k - 1) + h
        BY <3>1
      <4>2. p[h] = p[(x.i + 1) - k + h]
        BY <2>2, <4>1 DEF Fits
      <4>3. QED
        BY <4>1, <4>2, Zenon
    <3>4. QED
      BY <3>1, <3>2, <3>3 DEF FillInv
  <2>3. /\ x.j + 1 \in 1 .. x.i /\ x.j + 1 \in Nat /\ x.i + 1 \in Nat
        /\ x.i + 1 \in 1 .. Len(p) /\ x.j + 1 < x.i + 1
    BY <1>0, <1>2
  <2>4. GoesOn(p, y.next, x.i + 1)
    <3>1. CASE ~ (optimized /\ p[y.i] = p[y.j])
      <4>1. y.next[x.i + 1] = x.j + 1
        BY <1>2, <3>1
      <4>2. \A k \in (x.j + 1) + 1 .. (x.i + 1) - 1 : ~ Fits(p, p, x.i + 1, k)
        BY <1>0, <2>2
      <4>3. QED
        BY <2>1, <4>1, <4>2 DEF GoesOn
    <3>2. CASE optimized /\ p[y.i] = p[y.j]
      <4> DEFINE n == x.next[x.j + 1]
      <4>1. y.next[x.i + 1] = n /\ p[x.i + 1] = p[x.j + 1]
        BY <1>2, <3>2
      <4>2. n \in Nat /\ n < x.j + 1
        BY <1>0, <2>3
      <4>3. GoesOn(p, x.next, x.j + 1)
        BY <2>3 DEF FillInv
      <4>4. Fits(p, p, x.j + 1, n)
        BY <4>3 DEF GoesOn
      <4>5. Fits(p, p, x.i + 1, n)
        <5> HIDE DEF n
        <5>1. QED
          BY <2>1, <2>3, <4>2, <4>4, FitsWithin
      <4>6. ASSUME NEW k \in n + 1 .. (x.i + 1) - 1, Fits(p, p, x.i + 1, k)
            PROVE  p[k] = p[x.i + 1]
        <5>1. k \in Nat /\ k <= x.i /\ n < k
          BY <1>0, <4>2
        <5>2. ~ (k >= x.j + 2)
          BY <1>0, <2>2, <4>6, <5>1
        <5>3. CASE k = x.j + 1
          BY <4>1, <5>3
        <5>4. CASE k < x.j + 1
          <6>1. Fits(p, p, x.j + 1, k)
            BY <2>1, <2>3, <4>6, <5>1, <5>4, FitsWithin
          <6>2. k \in n + 1 .. (x.j + 1) - 1
            BY <1>0, <4>2, <5>1, <5>4
          <6>3. p[k] = p[x.j + 1]
            BY <4>3, <6>1, <6>2 DEF GoesOn
          <6>4. QED
            BY <4>1, <6>3
        <5>5. QED
          BY <1>0, <5>1, <5>2, <5>3, <5>4
      <4> HIDE DEF n
      <4>7. QED
        BY <4>1, <4>5, <4>6 DEF GoesOn
    <3>3. QED
      BY <3>1, <3>2
  <2>5. \A h \in 1 .. x.i : GoesOn(p, y.next, h)
    BY <1>2 DEF FillInv, GoesOn
  <2>6. \A h \in 1 .. x.i + 1 : GoesOn(p, y.next, h)
    BY <1>0, <2>4, <2>5
  <2>7. \A k \in (x.j + 1) + 1 .. (x.i + 1) - 1 : ~ Fits(p, p, x.i + 1, k)
    BY <1>0, <2>2
  <2>8. FillInv(p, y)
    BY <1>2, <2>1, <2>6, <2>7 DEF FillInv
  <2>9. QED
    BY <2>8 DEF y
<1>3. CASE /\ x.i < Len(p) /\ x.j # 0 /\ p[x.i] # p[x.j]
           /\ y.next = x.next /\ y.i = x.i /\ y.j = x.next[x.j] /\ y.j < x.j
  <2> DEFINE n == x.next[x.j]
  <2>1. x.j \in 1 .. x.i /\ n \in Nat /\ n < x.j /\ x.i \in Nat /\ x.j <= x.i
    BY <1>0, <1>3
  <2>2. GoesOn(p, x.next, x.j)
    BY <2>1 DEF FillInv
  <2>3. Fits(p, p, x.j, n) /\ Fits(p, p, x.i, x.j)
    BY <2>2 DEF GoesOn, FillInv
  <2> HIDE DEF n
  <2>4. Fits(p, p, x.i, n)
    BY <1>0, <2>1, <2>3, FitsWithin
  <2>5. ASSUME NEW k \in n + 1 .. x.i - 1, Fits(p, p, x.i, k)  PROVE p[k] # p[x.i]
    <3>1. k \in Nat /\ n < k /\ k < x.i
      BY <1>0, <2>1
    <3>2. CASE k > x.j
      BY <1>0, <2>5, <3>1, <3>2 DEF FillInv
    <3>3. CASE k = x.j
      BY <1>3, <3>3
    <3>4. CASE k < x.j
      <4>1. Fits(p, p, x.j, k)
        BY <1>0, <2>1, <2>3, <2>5, <3>1, <3>4, FitsWithin
      <4>2. k \in x.next[x.j] + 1 .. x.j - 1
        BY <1>0, <2>1, <3>1, <3>4 DEF n
      <4>3. p[k] = p[x.j]
        BY <2>2, <4>1, <4>2 DEF GoesOn
      <4>4. QED
        BY <1>3, <4>3
    <3>5. QED
      BY <1>0, <3>1, <3>2, <3>3, <3>4
  <2>6. \A h \in 1 .. x.i : GoesOn(p, x.next, h)
    BY DEF FillInv
  <2>7. y.j = n
    BY <1>3 DEF n
  <2>8. FillInv(p, y)
    BY <1>3, <2>4, <2>5, <2>6, <2>7 DEF FillInv
  <2>9. QED
    BY <2>8 DEF y
<1>4. QED
  BY <1>1, <1>2, <1>3 DEF y

(* Both tables go on rightly after every mismatch. *)
LEMMA TableRight ==
  ASSUME NEW C, NEW p \in Seq(C), p # <<>>, NEW optimized \in BOOLEAN
  PROVE  /\ GetNext(p, optimized) \in NextTables(p)
         /\ \A j \in 1 .. Len(p) : GoesOn(p, GetNext(p, optimized), j)
<1> DEFINE step == FillStep(p, optimized)
           S == FillState(p)
           I == {x \in S : FillInv(p, x)}
           x0 == [next |-> [i \in DOMAIN p |-> 0], i |-> 1, j |-> 0]
           m == [x \in S |-> 2 * (Len(p) - x.i) + x.j]
<1>0. Len(p) \in Nat /\ DOMAIN p = 1 .. Len(p) /\ Len(p) >= 1
  OBVIOUS
<1>1. step \in [S -> S]
  <2>1. \A x \in S : step[x] \in S
    BY FillStepIs
  <2>2. step = [x \in S |-> step[x]]
    BY DEF FillStep, FillState
  <2>3. QED
    BY <2>1, <2>2
<1>2. \A x \in S : x.i \in 1 .. Len(p) /\ x.j \in Nat
  BY <1>0 DEF FillState
<1>3. m \in [S -> Nat]
  BY <1>0, <1>2
<1>4. Halts(S, step, m)
  <2> SUFFICES ASSUME NEW x \in S  PROVE step[x] = x \/ m[step[x]] < m[x]
    BY DEF Halts
  <2> PICK y \in S : y = step[x]
    BY <1>1
  <2>1. m[y] = 2 * (Len(p) - y.i) + y.j /\ m[x] = 2 * (Len(p) - x.i) + x.j
    OBVIOUS
  <2>2. y = x \/ (y.i = x.i + 1 /\ y.j = x.j + 1) \/ (y.i = x.i /\ y.j < x.j)
    BY FillStepIs
  <2> HIDE DEF m, step, S
  <2>3. QED
    <3>1. /\ x.i \in Nat /\ y.i \in Nat /\ x.j \in Nat /\ y.j \in Nat
          /\ x.i <= Len(p) /\ y.i <= Len(p)
      BY <1>0, <1>2
    <3>2. CASE y = x
      BY <3>2
    <3>3. CASE y.i = x.i + 1 /\ y.j = x.j + 1
      <4>1. 2 * (Len(p) - (x.i + 1)) + (x.j + 1) < 2 * (Len(p) - x.i) + x.j
        BY <1>0, <3>1
      <4>2. QED
        BY <2>1, <3>3, <4>1
    <3>4. CASE y.i = x.i /\ y.j < x.j
      BY <1>0, <2>1, <3>1, <3>4
    <3>5. QED
      BY <2>2, <3>2, <3>3, <3>4
<1>5. \A x \in I : step[x] \in I
  BY <1>1, FillKeeps
<1>6. x0 \in I
  <2>1. x0 \in S
    BY <1>0 DEF FillState, NextTables
  <2>2. \A h \in 1 .. 1 : GoesOn(p, x0.next, h)
    BY <1>0 DEF GoesOn, Fits
  <2>3. FillInv(p, x0)
    BY <2>2 DEF FillInv, Fits
  <2>4. QED
    BY <2>1, <2>3
<1> DEFINE end == While(step, x0)
<1>7. end \in I /\ step[end] = end
  <2> HIDE DEF step, x0, m
  <2>0. I \in SUBSET S
    OBVIOUS
  <2> HIDE DEF I, S
  <2>1. QED
    BY <1>1, <1>3, <1>4, <1>5, <1>6, <2>0, WhileEnds
<1>8. GetNext(p, optimized) = end.next
  BY DEF GetNext
<1>9. end.i = Len(p)
  <2> HIDE DEF end
  <2>1. end \in S /\ step[end] = end
    BY <1>7
  <2>2. \/ end.i = Len(p) \/ end.i = end.i + 1 \/ end.j < end.j
    BY <2>1, FillStepIs
  <2>3. QED
    BY <1>2, <2>1, <2>2
<1> HIDE DEF end
<1>10. end.next \in NextTables(p)
  BY <1>7 DEF FillState
<1>11. QED
  BY <1>7, <1>8, <1>9, <1>10 DEF FillInv

\* The variables of KMP.
MatchState(s, p) == [i : 1 .. Len(s) + 1, j : 0 .. Len(p) + 1]

\* The pattern is at d + 1 of the text.
IsAt(s, p, d) == d + Len(p) <= Len(s) /\ \A k \in 1 .. Len(p) : s[d + k] = p[k]

\* The invariant of the loop that matches.
MatchInv(s, p, x) ==
  /\ x.j <= x.i
  /\ Fits(s, p, x.i, x.j)
  /\ \A d \in 0 .. (x.i - x.j) - 1 : ~ IsAt(s, p, d)

(* What the body of KMP does: it ends, both indices go on, or the pattern *)
(* falls back.                                                            *)
LEMMA MatchStepIs ==
  ASSUME NEW C, NEW s \in Seq(C), NEW p \in Seq(C), NEW next \in NextTables(p),
         NEW x \in MatchState(s, p)
  PROVE  LET y == MatchStep(s, p, next)[x]
         IN  /\ y \in MatchState(s, p)
             /\ \/ y = x /\ (x.i > Len(s) \/ x.j > Len(p))
                \/ /\ x.i <= Len(s) /\ x.j <= Len(p) /\ (x.j = 0 \/ s[x.i] = p[x.j])
                   /\ y.i = x.i + 1 /\ y.j = x.j + 1
                \/ /\ x.i <= Len(s) /\ x.j \in 1 .. Len(p) /\ s[x.i] # p[x.j]
                   /\ y.i = x.i /\ y.j = next[x.j] /\ y.j < x.j
<1> DEFINE y == MatchStep(s, p, next)[x]
<1>0. Len(p) \in Nat /\ DOMAIN p = 1 .. Len(p) /\ Len(s) \in Nat
  OBVIOUS
<1>1. /\ x.i \in 1 .. Len(s) + 1 /\ x.j \in 0 .. Len(p) + 1 /\ x = [i |-> x.i, j |-> x.j]
      /\ next \in [1 .. Len(p) -> Nat] /\ \A h \in 1 .. Len(p) : next[h] < h
  BY <1>0 DEF MatchState, NextTables
<1>2. y = IF x.i > Len(s) \/ x.j > Len(p) THEN x
          ELSE IF x.j = 0 \/ s[x.i] = p[x.j] THEN [i |-> x.i + 1, j |-> x.j + 1]
          ELSE [x EXCEPT !.j = next[x.j]]
  BY Zenon DEF MatchStep, MatchState, Back
<1>3. CASE x.i > Len(s) \/ x.j > Len(p)
  BY <1>2, <1>3, Zenon
<1>4. CASE ~ (x.i > Len(s) \/ x.j > Len(p)) /\ (x.j = 0 \/ s[x.i] = p[x.j])
  <2>1. y = [i |-> x.i + 1, j |-> x.j + 1]
    BY <1>2, <1>4, Zenon
  <2>2. y \in MatchState(s, p) /\ y.i = x.i + 1 /\ y.j = x.j + 1
    BY <1>0, <1>1, <1>4, <2>1 DEF MatchState
  <2> HIDE DEF y
  <2>3. x.i <= Len(s) /\ x.j <= Len(p)
    BY <1>0, <1>1, <1>4
  <2>4. QED
    BY <1>4, <2>2, <2>3 DEF y
<1>5. CASE ~ (x.i > Len(s) \/ x.j > Len(p)) /\ ~ (x.j = 0 \/ s[x.i] = p[x.j])
  <2>1. y = [x EXCEPT !.j = next[x.j]]
    BY <1>2, <1>5, Zenon
  <2>2. x.i <= Len(s) /\ x.j \in 1 .. Len(p)
    BY <1>0, <1>1, <1>5
  <2>3. next[x.j] \in Nat /\ next[x.j] < x.j
    BY <1>1, <2>2
  <2>4. y = [i |-> x.i, j |-> next[x.j]]
    BY <1>1, <2>1
  <2>5. y \in MatchState(s, p) /\ y.i = x.i /\ y.j = next[x.j]
    BY <1>0, <1>1, <2>2, <2>3, <2>4 DEF MatchState
  <2> HIDE DEF y
  <2>6. QED
    BY <1>5, <2>2, <2>3, <2>5 DEF y
<1>6. QED
  BY <1>3, <1>4, <1>5

(* The body of KMP keeps the invariant of its loop. *)
LEMMA MatchKeeps ==
  ASSUME NEW C, NEW s \in Seq(C), NEW p \in Seq(C), NEW next \in NextTables(p),
         \A j \in 1 .. Len(p) : GoesOn(p, next, j),
         NEW x \in MatchState(s, p), MatchInv(s, p, x)
  PROVE  MatchInv(s, p, MatchStep(s, p, next)[x])
<1> DEFINE y == MatchStep(s, p, next)[x]
<1>0. /\ Len(p) \in Nat /\ DOMAIN p = 1 .. Len(p) /\ Len(s) \in Nat
      /\ x.i \in Nat /\ x.j \in Nat /\ x.j <= x.i
      /\ next \in [1 .. Len(p) -> Nat]
  BY DEF MatchState, MatchInv, NextTables
<1>1. \/ y = x
      \/ /\ x.i <= Len(s) /\ x.j <= Len(p) /\ (x.j = 0 \/ s[x.i] = p[x.j])
         /\ y.i = x.i + 1 /\ y.j = x.j + 1
      \/ /\ x.i <= Len(s) /\ x.j \in 1 .. Len(p) /\ s[x.i] # p[x.j]
         /\ y.i = x.i /\ y.j = next[x.j] /\ y.j < x.j
  BY MatchStepIs
<1> HIDE DEF y
<1>2. CASE /\ x.i <= Len(s) /\ x.j <= Len(p) /\ (x.j = 0 \/ s[x.i] = p[x.j])
           /\ y.i = x.i + 1 /\ y.j = x.j + 1
  <2>1. Fits(s, p, x.i + 1, x.j + 1)
    <3> SUFFICES ASSUME NEW k \in 1 .. x.j  PROVE p[k] = s[x.i - x.j + k]
      <4>1. (x.j + 1) - 1 = x.j /\ (x.i + 1) - (x.j + 1) = x.i - x.j
        BY <1>0
      <4>2. QED
        BY <4>1 DEF Fits
    <3>1. CASE k = x.j
      BY SMTT(30), <1>0, <1>2, <3>1
    <3>2. CASE k # x.j
      <4>1. k \in 1 .. x.j - 1
        BY <1>0, <3>2
      <4>2. QED
        BY <4>1 DEF MatchInv, Fits
    <3>3. QED
      BY <3>1, <3>2
  <2>2. (x.i + 1) - (x.j + 1) = x.i - x.j
    BY <1>0
  <2>3. \A d \in 0 .. (y.i - y.j) - 1 : ~ IsAt(s, p, d)
    BY <1>2, <2>2 DEF MatchInv
  <2>4. QED
    BY <1>0, <1>2, <2>1, <2>3 DEF MatchInv, y
<1>3. CASE /\ x.i <= Len(s) /\ x.j \in 1 .. Len(p) /\ s[x.i] # p[x.j]
           /\ y.i = x.i /\ y.j = next[x.j] /\ y.j < x.j
  <2> DEFINE n == next[x.j]
  <2>1. n \in Nat /\ n < x.j /\ x.j \in 1 .. Len(p)
    BY <1>0, <1>3
  <2>2. GoesOn(p, next, x.j)
    BY <2>1
  <2>3. Fits(p, p, x.j, n) /\ Fits(s, p, x.i, x.j)
    BY <2>2 DEF GoesOn, MatchInv
  <2>4. \A k \in n + 1 .. x.j - 1 : Fits(p, p, x.j, k) => p[k] = p[x.j]
    BY <2>2, Zenon DEF GoesOn
  <2>5. y.j = n
    BY <1>3
  <2> HIDE DEF n
  <2>6. Fits(s, p, x.i, n)
    BY <1>0, <2>1, <2>3, FitsWithin
  <2>7. ASSUME NEW d \in 0 .. (x.i - n) - 1, IsAt(s, p, d)  PROVE FALSE
    <3> DEFINE k == x.i - d
    <3>1. k \in Int /\ n < k /\ k <= x.i /\ d = x.i - k /\ d \in Nat
      BY <1>0, <2>1
    <3> HIDE DEF k
    <3>2. k <= x.j
      <4>1. ~ d \in 0 .. (x.i - x.j) - 1
        BY <2>7 DEF MatchInv
      <4>2. QED
        BY <1>0, <2>1, <3>1, <4>1
    <3>3. \A h \in 1 .. k : s[x.i - k + h] = p[h]
      <4>1. \A h \in 1 .. k : h \in 1 .. Len(p)
        BY <1>0, <2>1, <3>1, <3>2
      <4>2. QED
        BY <2>7, <3>1, <4>1 DEF IsAt
    <3>4. k \in 1 .. k /\ x.i - k + k = x.i
      BY <1>0, <2>1, <3>1
    <3>5. s[x.i] = p[k]
      BY <3>3, <3>4
    <3>6. k # x.j
      BY <1>3, <3>5
    <3>7. k \in Nat /\ k < x.j
      BY <1>0, <2>1, <3>1, <3>2, <3>6
    <3>8. Fits(s, p, x.i, k)
      <4>1. \A h \in 1 .. k - 1 : h \in 1 .. k
        BY <3>7
      <4>2. QED
        BY <3>3, <4>1 DEF Fits
    <3>9. Fits(p, p, x.j, k)
      BY <1>0, <2>1, <2>3, <3>7, <3>8, FitsWithin
    <3>10. k \in n + 1 .. x.j - 1
      BY <1>0, <2>1, <3>1, <3>7
    <3>11. QED
      BY <1>3, <2>4, <3>5, <3>9, <3>10
  <2>8. QED
    BY <1>0, <1>3, <2>1, <2>5, <2>6, <2>7 DEF MatchInv, y
<1>4. QED
  BY <1>1, <1>2, <1>3 DEF y

(* The places of the pattern. *)
LEMMA PlacesOfPattern ==
  ASSUME NEW C, NEW s \in Seq(C), NEW p \in Seq(C), p # <<>>,
         NEW i \in 1 .. Len(s) - Len(p) + 1
  PROVE  SubSeq(s, i, i + Len(p) - 1) = p <=> IsAt(s, p, i - 1)
<1>0. Len(p) \in Nat /\ Len(p) >= 1 /\ Len(s) \in Nat /\ i \in Nat /\ DOMAIN p = 1 .. Len(p)
  OBVIOUS
<1> DEFINE t == SubSeq(s, i, i + Len(p) - 1)
<1>1. 1 <= i /\ i + Len(p) - 1 <= Len(s) /\ i + Len(p) - 1 \in Nat
  BY <1>0
<1>2. t = [k \in 1 .. Len(p) |-> s[i + k - 1]]
  <2>1. t = [k \in 1 .. (i + Len(p) - 1) - i + 1 |-> s[i + k - 1]]
    BY <1>0, <1>1
  <2>2. (i + Len(p) - 1) - i + 1 = Len(p)
    BY <1>0
  <2>3. QED
    BY <2>1, <2>2
<1>3. p = [k \in 1 .. Len(p) |-> p[k]]
  OBVIOUS
<1>4. t = p <=> \A k \in 1 .. Len(p) : s[i + k - 1] = p[k]
  <2> HIDE DEF t
  <2>1. QED
    BY <1>2, <1>3
<1>5. \A k \in 1 .. Len(p) : i + k - 1 = (i - 1) + k
  BY <1>0
<1>6. (i - 1) + Len(p) <= Len(s)
  BY <1>0
<1>7. QED
  BY <1>4, <1>5, <1>6 DEF IsAt

(* The pattern is found at its first place. *)
LEMMA KmpFinds ==
  ASSUME NEW C, NEW s \in Seq(C), NEW p \in Seq(C), p # <<>>
  PROVE  KmpRight(s, p)
<1> DEFINE places == {i \in 1 .. Len(s) - Len(p) + 1 : SubSeq(s, i, i + Len(p) - 1) = p}
<1> SUFFICES ASSUME NEW optimized \in BOOLEAN
             PROVE  Kmp(s, p, optimized) = IF places = {} THEN 0 ELSE Min(places)
  BY DEF KmpRight
<1> DEFINE next == GetNext(p, optimized)
           step == MatchStep(s, p, next)
           S == MatchState(s, p)
           I == {x \in S : MatchInv(s, p, x)}
           x0 == [i |-> 1, j |-> 1]
           m == [x \in S |-> 2 * ((Len(s) + 1) - x.i) + x.j]
<1>0. Len(p) \in Nat /\ DOMAIN p = 1 .. Len(p) /\ Len(p) >= 1 /\ Len(s) \in Nat
  OBVIOUS
<1>1. next \in NextTables(p) /\ \A j \in 1 .. Len(p) : GoesOn(p, next, j)
  BY TableRight
<1> HIDE DEF next
<1>2. step \in [S -> S]
  <2>1. \A x \in S : step[x] \in S
    BY <1>1, MatchStepIs
  <2>2. step = [x \in S |-> step[x]]
    BY DEF MatchStep, MatchState
  <2>3. QED
    BY <2>1, <2>2
<1>3. \A x \in S : x.i \in 1 .. Len(s) + 1 /\ x.j \in 0 .. Len(p) + 1
  BY <1>0 DEF MatchState
<1>4. m \in [S -> Nat]
  BY <1>0, <1>3
<1>5. Halts(S, step, m)
  <2> SUFFICES ASSUME NEW x \in S  PROVE step[x] = x \/ m[step[x]] < m[x]
    BY DEF Halts
  <2> PICK y \in S : y = step[x]
    BY <1>2
  <2>1. m[y] = 2 * ((Len(s) + 1) - y.i) + y.j /\ m[x] = 2 * ((Len(s) + 1) - x.i) + x.j
    OBVIOUS
  <2>2. y = x \/ (y.i = x.i + 1 /\ y.j = x.j + 1) \/ (y.i = x.i /\ y.j < x.j)
    BY <1>1, MatchStepIs
  <2> HIDE DEF m, step, S
  <2>3. QED
    <3>1. /\ x.i \in Nat /\ y.i \in Nat /\ x.j \in Nat /\ y.j \in Nat
          /\ x.i <= (Len(s) + 1) /\ y.i <= (Len(s) + 1)
      BY <1>0, <1>3
    <3>2. CASE y = x
      BY <3>2
    <3>3. CASE y.i = x.i + 1 /\ y.j = x.j + 1
      <4>1. 2 * ((Len(s) + 1) - (x.i + 1)) + (x.j + 1) < 2 * ((Len(s) + 1) - x.i) + x.j
        BY SMTT(30), <1>0, <3>1
      <4>2. QED
        BY <2>1, <3>3, <4>1
    <3>4. CASE y.i = x.i /\ y.j < x.j
      BY <1>0, <2>1, <3>1, <3>4
    <3>5. QED
      BY <2>2, <3>2, <3>3, <3>4
<1>6. \A x \in I : step[x] \in I
  BY <1>1, <1>2, MatchKeeps
<1>7. x0 \in I
  <2>1. x0 \in S
    BY <1>0 DEF MatchState
  <2>2. MatchInv(s, p, x0)
    BY DEF MatchInv, Fits
  <2>3. QED
    BY <2>1, <2>2
<1> DEFINE end == While(step, x0)
<1>8. end \in I /\ step[end] = end
  <2> HIDE DEF step, x0, m
  <2>0. I \in SUBSET S
    OBVIOUS
  <2> HIDE DEF I, S
  <2>1. QED
    BY <1>2, <1>4, <1>5, <1>6, <1>7, <2>0, WhileEnds
<1>9. Kmp(s, p, optimized) = IF end.j > Len(p) THEN end.i - Len(p) ELSE 0
  BY DEF Kmp, next
<1>10. end.i > Len(s) \/ end.j > Len(p)
  <2> HIDE DEF end
  <2>1. end \in S /\ step[end] = end
    BY <1>8
  <2>2. \/ end.i > Len(s) \/ end.j > Len(p) \/ end.i = end.i + 1 \/ end.j < end.j
    BY <1>1, <2>1, MatchStepIs
  <2>3. QED
    BY <1>0, <1>3, <2>1, <2>2
<1> HIDE DEF end
<1>11. /\ end.i \in 1 .. Len(s) + 1 /\ end.j \in 0 .. Len(p) + 1 /\ end.j <= end.i
       /\ Fits(s, p, end.i, end.j) /\ \A d \in 0 .. (end.i - end.j) - 1 : ~ IsAt(s, p, d)
  BY <1>3, <1>8 DEF MatchInv
<1>12. \A i \in 1 .. Len(s) - Len(p) + 1 : i \in places <=> IsAt(s, p, i - 1)
  BY PlacesOfPattern
<1>13. places \subseteq 1 .. Len(s) - Len(p) + 1
  OBVIOUS
<1> HIDE DEF places
<1>14. CASE end.j > Len(p)
  <2> DEFINE i == end.i - Len(p)
  <2>1. end.j = Len(p) + 1 /\ i \in 1 .. Len(s) - Len(p) + 1 /\ end.i - end.j = i - 1
    BY <1>0, <1>11, <1>14
  <2>2. IsAt(s, p, i - 1)
    <3>1. \A k \in 1 .. Len(p) : k \in 1 .. end.j - 1
      BY <1>0, <2>1
    <3>2. \A k \in 1 .. Len(p) : p[k] = s[i - 1 + k]
      BY <1>11, <2>1, <3>1 DEF Fits
    <3>3. (i - 1) + Len(p) <= Len(s)
      BY <1>0, <2>1
    <3> HIDE DEF i
    <3>4. QED
      BY <3>2, <3>3 DEF IsAt
  <2>3. i \in places
    BY <1>12, <2>1, <2>2
  <2>4. ASSUME NEW k \in places  PROVE i <= k
    <3>1. k \in 1 .. Len(s) - Len(p) + 1 /\ IsAt(s, p, k - 1)
      BY <1>12, <1>13
    <3>2. ~ k - 1 \in 0 .. (end.i - end.j) - 1
      BY <1>11, <3>1
    <3>3. QED
      BY <1>0, <1>11, <2>1, <3>1, <3>2
  <2>5. places \in SUBSET Int
    BY <1>0, <1>13
  <2> HIDE DEF i
  <2>6. Min(places) = i
    BY <2>3, <2>4, <2>5, MinIs
  <2>7. QED
    BY <1>9, <1>14, <2>3, <2>6 DEF i
<1>15. CASE ~ (end.j > Len(p))
  <2>1. ASSUME NEW k \in places  PROVE FALSE
    <3>1. k \in 1 .. Len(s) - Len(p) + 1 /\ IsAt(s, p, k - 1)
      BY <1>12, <1>13
    <3>2. k - 1 \in 0 .. (end.i - end.j) - 1
      BY <1>0, <1>10, <1>11, <1>15, <3>1
    <3>3. QED
      BY <1>11, <3>1, <3>2
  <2>2. places = {}
    BY <2>1
  <2>3. QED
    BY <1>9, <1>15, <2>2
<1>16. QED
  BY <1>14, <1>15

(* The three binary searches are right in a sorted sequence. *)
LEMMA BinarySearchFinds ==
  ASSUME NEW s \in Seq(Int), Ordered(s), NEW target \in Int
  PROVE  BinarySearchRight(s, target)
<1>1. Places(s, target) \in SUBSET Int
  BY DEF Places
<1>2. Len(s) \in Places(s, target) => SearchFirst(s, target) = Min(Places(s, target))
  BY <1>1, SearchFirstRight, MinIs
<1>3. 1 \in Places(s, target) => SearchLast(s, target) = Max(Places(s, target))
  BY <1>1, SearchLastRight, MaxIs
<1>4. QED
  BY <1>2, <1>3, SearchRight DEF BinarySearchRight

-----------------------------------------------------------------------------
(* Rearrangements *)

\* f rearranges 1 .. n.
Bijects(f, n) ==
  /\ f \in [1 .. n -> 1 .. n]
  /\ \A i, j \in 1 .. n : f[i] = f[j] => i = j
  /\ \A j \in 1 .. n : \E i \in 1 .. n : f[i] = j

\* t has the values of s, rearranged by f.
Moves(f, s, t, n) == \A i \in 1 .. n : t[i] = s[f[i]]

\* t has the values of s, rearranged between l and r.
Shuffled(s, t, n, l, r) ==
  \E f \in [1 .. n -> 1 .. n] :
    /\ Bijects(f, n) /\ Moves(f, s, t, n)
    /\ \A i \in 1 .. n : i \notin l .. r => f[i] = i

(* Nothing moved: the identity rearranges. *)
LEMMA ShuffledSame ==
  ASSUME NEW n \in Nat, NEW s, NEW t, NEW l, NEW r, \A i \in 1 .. n : t[i] = s[i]
  PROVE  Shuffled(s, t, n, l, r)
<1> DEFINE f == [i \in 1 .. n |-> i]
<1>1. Bijects(f, n)
  BY DEF Bijects
<1>2. Moves(f, s, t, n)
  BY DEF Moves
<1>3. f \in [1 .. n -> 1 .. n] /\ \A i \in 1 .. n : i \notin l .. r => f[i] = i
  OBVIOUS
<1> HIDE DEF f
<1>4. QED
  BY <1>1, <1>2, <1>3 DEF Shuffled

(* One rearrangement after another inside its range. *)
LEMMA ShuffledThen ==
  ASSUME NEW n \in Nat, NEW s, NEW t, NEW u, NEW l, NEW r, NEW k, NEW h,
         Shuffled(s, t, n, l, r), Shuffled(t, u, n, k, h),
         \A i \in k .. h : i \in l .. r
  PROVE  Shuffled(s, u, n, l, r)
<1>1. PICK f \in [1 .. n -> 1 .. n] :
        /\ Bijects(f, n) /\ Moves(f, s, t, n)
        /\ \A i \in 1 .. n : i \notin l .. r => f[i] = i
  BY DEF Shuffled
<1>2. PICK g \in [1 .. n -> 1 .. n] :
        /\ Bijects(g, n) /\ Moves(g, t, u, n)
        /\ \A i \in 1 .. n : i \notin k .. h => g[i] = i
  BY DEF Shuffled
<1> DEFINE e == [i \in 1 .. n |-> f[g[i]]]
<1>3. \A i \in 1 .. n : g[i] \in 1 .. n /\ f[i] \in 1 .. n
  OBVIOUS
<1>4. e \in [1 .. n -> 1 .. n] /\ \A i \in 1 .. n : e[i] = f[g[i]]
  BY <1>3
<1> HIDE DEF e
<1>5. Bijects(e, n)
  <2>1. ASSUME NEW i \in 1 .. n, NEW j \in 1 .. n, e[i] = e[j]  PROVE i = j
    <3>1. g[i] \in 1 .. n /\ g[j] \in 1 .. n /\ f[g[i]] = f[g[j]]
      BY <1>3, <1>4, <2>1
    <3>2. g[i] = g[j]
      BY <1>1, <3>1 DEF Bijects
    <3>3. QED
      BY <1>2, <3>2 DEF Bijects
  <2>2. ASSUME NEW j \in 1 .. n  PROVE \E i \in 1 .. n : e[i] = j
    <3>1. PICK k1 \in 1 .. n : f[k1] = j
      BY <1>1 DEF Bijects
    <3>2. PICK k2 \in 1 .. n : g[k2] = k1
      BY <1>2 DEF Bijects
    <3>3. QED
      BY <1>4, <3>1, <3>2
  <2>3. QED
    BY <1>4, <2>1, <2>2 DEF Bijects
<1>6. Moves(e, s, u, n)
  <2> SUFFICES ASSUME NEW i \in 1 .. n  PROVE u[i] = s[e[i]]
    BY DEF Moves
  <2>1. u[i] = t[g[i]] /\ g[i] \in 1 .. n
    BY <1>2, <1>3 DEF Moves
  <2>2. t[g[i]] = s[f[g[i]]]
    BY <1>1, <2>1 DEF Moves
  <2>3. QED
    BY <1>4, <2>1, <2>2
<1>7. ASSUME NEW i \in 1 .. n, i \notin l .. r  PROVE e[i] = i
  <2>1. i \notin k .. h
    BY <1>7
  <2>2. QED
    BY <1>1, <1>2, <1>4, <1>7, <2>1
<1>8. QED
  BY <1>4, <1>5, <1>6, <1>7 DEF Shuffled

\* t is s with the values at i and j, both between l and r, exchanged.
Exchanged(s, t, n, l, r, i, j) ==
  /\ t \in [1 .. n -> Int] /\ t[i] = s[j] /\ t[j] = s[i]
  /\ \A k \in 1 .. n : k # i /\ k # j => t[k] = s[k]
  /\ Shuffled(s, t, n, l, r)

(* std::swap of two elements of the range rearranges it. *)
LEMMA ShuffledSwap ==
  ASSUME NEW n \in Nat, NEW s \in [1 .. n -> Int], NEW l \in Int, NEW r \in Int,
         NEW i \in 1 .. n, NEW j \in 1 .. n, i \in l .. r, j \in l .. r
  PROVE  Exchanged(s, Swapped(s, i, j), n, l, r, i, j)
<1> DEFINE t == Swapped(s, i, j)
           f == [k \in 1 .. n |-> IF k = i THEN j ELSE IF k = j THEN i ELSE k]
<1>1. /\ t \in [1 .. n -> Int] /\ t[i] = s[j] /\ t[j] = s[i]
      /\ \A k \in 1 .. n : k # i /\ k # j => t[k] = s[k]
  BY DEF Swapped
<1>2. f \in [1 .. n -> 1 .. n] /\ f[i] = j /\ f[j] = i
      /\ \A k \in 1 .. n : k # i /\ k # j => f[k] = k
  OBVIOUS
<1> HIDE DEF f, t
<1>3. Bijects(f, n)
  <2>1. \A k, h \in 1 .. n : f[k] = f[h] => k = h
    BY <1>2
  <2>2. \A k \in 1 .. n : f[f[k]] = k /\ f[k] \in 1 .. n
    BY <1>2
  <2>3. QED
    BY <1>2, <2>1, <2>2 DEF Bijects
<1>4. Moves(f, s, t, n)
  BY <1>1, <1>2 DEF Moves
<1>5. \A k \in 1 .. n : k \notin l .. r => f[k] = k
  BY <1>2
<1>6. Shuffled(s, t, n, l, r)
  BY <1>2, <1>3, <1>4, <1>5 DEF Shuffled
<1>7. QED
  BY <1>1, <1>6 DEF t, Exchanged

(* Outside nothing moves, inside the values come from inside. *)
LEMMA ShuffledKeeps ==
  ASSUME NEW n \in Nat, NEW s, NEW t, NEW l, NEW r, Shuffled(s, t, n, l, r)
  PROVE  /\ \A i \in 1 .. n : i \notin l .. r => t[i] = s[i]
         /\ \A i \in 1 .. n : i \in l .. r => \E j \in 1 .. n : j \in l .. r /\ t[i] = s[j]
<1>1. PICK f \in [1 .. n -> 1 .. n] :
        /\ Bijects(f, n) /\ Moves(f, s, t, n)
        /\ \A i \in 1 .. n : i \notin l .. r => f[i] = i
  BY DEF Shuffled
<1>2. \A i \in 1 .. n : i \notin l .. r => t[i] = s[i]
  BY <1>1 DEF Moves
<1>3. ASSUME NEW i \in 1 .. n, i \in l .. r  PROVE f[i] \in l .. r
  BY <1>1, <1>3 DEF Bijects
<1>4. QED
  BY <1>1, <1>2, <1>3 DEF Moves

(* The rearrangements of the proofs are those that SortsRight speaks of. *)
LEMMA ShuffledRearranged ==
  ASSUME NEW s \in Seq(Int), NEW t, NEW l, NEW r, NEW u \in [1 .. Len(s) -> Int],
         Shuffled(s, u, Len(s), l, r), t = u
  PROVE  t \in Rearranged(s)
<1>1. PICK f \in [1 .. Len(s) -> 1 .. Len(s)] : Bijects(f, Len(s)) /\ Moves(f, s, u, Len(s))
  BY DEF Shuffled
<1>2. DOMAIN s = 1 .. Len(s)
  OBVIOUS
<1>3. f \in Bijection(DOMAIN s, DOMAIN s)
  BY <1>1, <1>2 DEF Bijects, Bijection, Injection, Surjection, IsInjective
<1>4. u = [i \in DOMAIN s |-> s[f[i]]]
  <2>1. u = [i \in 1 .. Len(s) |-> u[i]]
    OBVIOUS
  <2>2. QED
    BY <1>1, <1>2, <2>1 DEF Moves
<1>5. QED
  BY <1>3, <1>4 DEF Rearranged

\* Rearranged in this form.
LEMMA RearrangedShuffled ==
  ASSUME NEW s \in Seq(Int), NEW t \in Rearranged(s)
  PROVE  t \in Seq(Int) /\ Len(t) = Len(s) /\ Shuffled(s, t, Len(s), 1, Len(s))
<1>0. DOMAIN s = 1 .. Len(s) /\ Len(s) \in Nat /\ \A i \in 1 .. Len(s) : s[i] \in Int
  OBVIOUS
<1>1. PICK f \in Bijection(DOMAIN s, DOMAIN s) : t = [i \in DOMAIN s |-> s[f[i]]]
  BY DEF Rearranged
<1>2. f \in [1 .. Len(s) -> 1 .. Len(s)] /\ Bijects(f, Len(s))
  BY <1>0, <1>1 DEF Bijects, Bijection, Injection, Surjection, IsInjective
<1>3. Moves(f, s, t, Len(s))
  BY <1>0, <1>1 DEF Moves
<1>4. Shuffled(s, t, Len(s), 1, Len(s))
  BY <1>2, <1>3 DEF Shuffled
<1>5. t \in [1 .. Len(s) -> Int]
  BY <1>0, <1>1, <1>2
<1>6. QED
  BY <1>0, <1>4, <1>5

-----------------------------------------------------------------------------
(* Merge sort *)

(* The first element of a sequence and what follows it. *)
LEMMA TailIs ==
  ASSUME NEW s \in Seq(Int), s # <<>>
  PROVE  /\ Head(s) = s[1] /\ Head(s) \in Int /\ Len(s) \in Nat /\ Len(s) >= 1
         /\ Tail(s) \in Seq(Int) /\ Len(Tail(s)) = Len(s) - 1
         /\ \A i \in 1 .. Len(s) - 1 : Tail(s)[i] = s[i + 1]
BY HeadTailProperties

(* A sequence with an element more. *)
LEMMA AppendIs ==
  ASSUME NEW s \in Seq(Int), NEW v \in Int
  PROVE  /\ Append(s, v) \in Seq(Int) /\ Len(Append(s, v)) = Len(s) + 1 /\ Len(s) \in Nat
         /\ \A i \in 1 .. Len(s) : Append(s, v)[i] = s[i]
         /\ Append(s, v)[Len(s) + 1] = v
OBVIOUS

(* Two sequences joined. *)
LEMMA ConcatIs ==
  ASSUME NEW s \in Seq(Int), NEW t \in Seq(Int)
  PROVE  /\ s \o t \in Seq(Int) /\ Len(s \o t) = Len(s) + Len(t)
         /\ Len(s) \in Nat /\ Len(t) \in Nat
         /\ \A i \in 1 .. Len(s) : (s \o t)[i] = s[i]
         /\ \A i \in 1 .. Len(t) : (s \o t)[Len(s) + i] = t[i]
         /\ \A i \in Len(s) + 1 .. Len(s) + Len(t) : i - Len(s) \in 1 .. Len(t)
                                                     /\ (s \o t)[i] = t[i - Len(s)]
BY ConcatProperties

\* Every value of s is below every value of t.
Below(s, t) == \A i \in 1 .. Len(s), j \in 1 .. Len(t) : s[i] <= t[j]

(* What follows the least element of an ordered sequence is ordered. *)
LEMMA OrderedTail ==
  ASSUME NEW s \in Seq(Int), s # <<>>, Ordered(s)
  PROVE  Ordered(Tail(s)) /\ \A i \in 1 .. Len(s) : Head(s) <= s[i]
<1>1. Ordered(Tail(s))
  <2> SUFFICES ASSUME NEW i \in 1 .. Len(s) - 1, NEW j \in 1 .. Len(s) - 1, i < j
               PROVE  Tail(s)[i] <= Tail(s)[j]
    BY TailIs DEF Ordered
  <2>1. i + 1 \in 1 .. Len(s) /\ j + 1 \in 1 .. Len(s) /\ i + 1 < j + 1
    BY TailIs
  <2>2. QED
    BY <2>1, TailIs DEF Ordered
<1>2. ASSUME NEW i \in 1 .. Len(s)  PROVE Head(s) <= s[i]
  <2>1. 1 \in 1 .. Len(s) /\ (i = 1 \/ 1 < i)
    BY TailIs
  <2>2. QED
    BY <2>1, TailIs DEF Ordered
<1>3. QED
  BY <1>1, <1>2

(* Ordered sequences, none of the first greater than one of the second, *)
(* join in order.                                                       *)
LEMMA OrderedConcat ==
  ASSUME NEW s \in Seq(Int), NEW t \in Seq(Int), Ordered(s), Ordered(t), Below(s, t)
  PROVE  Ordered(s \o t)
<1> SUFFICES ASSUME NEW i \in 1 .. Len(s) + Len(t), NEW j \in 1 .. Len(s) + Len(t), i < j
             PROVE  (s \o t)[i] <= (s \o t)[j]
  BY ConcatIs DEF Ordered
<1>1. CASE i <= Len(s) /\ j <= Len(s)
  <2>1. i \in 1 .. Len(s) /\ j \in 1 .. Len(s)
    BY <1>1
  <2>2. QED
    BY <2>1, ConcatIs DEF Ordered
<1>2. CASE i <= Len(s) /\ j > Len(s)
  <2>1. i \in 1 .. Len(s) /\ j \in Len(s) + 1 .. Len(s) + Len(t)
    BY <1>2, ConcatIs
  <2>2. (s \o t)[i] = s[i] /\ (s \o t)[j] = t[j - Len(s)] /\ j - Len(s) \in 1 .. Len(t)
    BY <2>1, ConcatIs
  <2>3. QED
    BY <2>1, <2>2 DEF Below
<1>3. CASE i > Len(s) /\ j > Len(s)
  <2>1. i \in Len(s) + 1 .. Len(s) + Len(t) /\ j \in Len(s) + 1 .. Len(s) + Len(t)
    BY <1>3, ConcatIs
  <2>2. /\ (s \o t)[i] = t[i - Len(s)] /\ i - Len(s) \in 1 .. Len(t)
        /\ (s \o t)[j] = t[j - Len(s)] /\ j - Len(s) \in 1 .. Len(t)
    BY <2>1, ConcatIs
  <2>3. i - Len(s) < j - Len(s)
    BY ConcatIs
  <2>4. QED
    BY <2>2, <2>3 DEF Ordered
<1>4. QED
  BY <1>1, <1>2, <1>3, ConcatIs

(* A greatest element may follow an ordered sequence. *)
LEMMA OrderedAppend ==
  ASSUME NEW s \in Seq(Int), NEW v \in Int, Ordered(s), \A i \in 1 .. Len(s) : s[i] <= v
  PROVE  Ordered(Append(s, v))
<1> DEFINE t == Append(s, v)
<1>1. Len(t) = Len(s) + 1 /\ Len(s) \in Nat /\ t[Len(s) + 1] = v
      /\ \A i \in 1 .. Len(s) : t[i] = s[i]
  BY AppendIs
<1> HIDE DEF t
<1>2. ASSUME NEW i \in 1 .. Len(s) + 1, NEW j \in 1 .. Len(s) + 1, i < j  PROVE t[i] <= t[j]
  <2>1. i \in 1 .. Len(s)
    BY <1>1, <1>2
  <2>2. CASE j = Len(s) + 1
    BY <1>1, <2>1, <2>2
  <2>3. CASE j # Len(s) + 1
    <3>1. j \in 1 .. Len(s)
      BY <1>1, <2>3
    <3>2. QED
      BY <1>1, <1>2, <2>1, <3>1 DEF Ordered
  <2>4. QED
    BY <2>2, <2>3
<1>3. QED
  BY <1>1, <1>2 DEF Ordered, t

\* The variables of the merge.
MergeState == [left : Seq(Int), right : Seq(Int), temp : Seq(Int)]

\* All that a merge still has: temp and what is left of the halves.
Whole(x) == x.temp \o (x.left \o x.right)

\* Invariant of the merge: the three parts are ordered, temp is below the
\* halves, nothing is lost.
MergeInv(w, x) ==
  /\ Ordered(x.temp) /\ Ordered(x.left) /\ Ordered(x.right)
  /\ Below(x.temp, x.left) /\ Below(x.temp, x.right)
  /\ Len(Whole(x)) = Len(w) /\ Shuffled(w, Whole(x), Len(w), 1, Len(w))

(* What one pass of the merge does: it ends or moves the first element of *)
(* one half.                                                              *)
LEMMA MergeStepIs ==
  ASSUME NEW x \in MergeState
  PROVE  LET y == MergeStep[x]
         IN  \/ y = x /\ (x.left = <<>> \/ x.right = <<>>)
             \/ /\ x.left # <<>> /\ x.right # <<>> /\ Head(x.left) <= Head(x.right)
                /\ y \in MergeState /\ y.left = Tail(x.left) /\ y.right = x.right
                /\ y.temp = Append(x.temp, Head(x.left))
             \/ /\ x.left # <<>> /\ x.right # <<>> /\ ~ (Head(x.left) <= Head(x.right))
                /\ y \in MergeState /\ y.left = x.left /\ y.right = Tail(x.right)
                /\ y.temp = Append(x.temp, Head(x.right))
<1> DEFINE y == MergeStep[x]
<1>1. /\ x = [left |-> x.left, right |-> x.right, temp |-> x.temp]
      /\ x.left \in Seq(Int) /\ x.right \in Seq(Int) /\ x.temp \in Seq(Int)
  BY DEF MergeState
<1>2. y = IF x.left = <<>> \/ x.right = <<>> THEN x
          ELSE IF Head(x.left) <= Head(x.right)
          THEN [x EXCEPT !.left = Tail(x.left), !.temp = Append(x.temp, Head(x.left))]
          ELSE [x EXCEPT !.right = Tail(x.right), !.temp = Append(x.temp, Head(x.right))]
  BY Zenon DEF MergeStep, MergeState
<1>3. CASE x.left = <<>> \/ x.right = <<>>
  BY <1>2, <1>3, Zenon
<1>4. CASE x.left # <<>> /\ x.right # <<>> /\ Head(x.left) <= Head(x.right)
  <2>1. y = [x EXCEPT !.left = Tail(x.left), !.temp = Append(x.temp, Head(x.left))]
    BY <1>2, <1>4, Zenon
  <2>2. y = [left |-> Tail(x.left), right |-> x.right, temp |-> Append(x.temp, Head(x.left))]
    BY <1>1, <2>1
  <2>3. Tail(x.left) \in Seq(Int) /\ Append(x.temp, Head(x.left)) \in Seq(Int)
    BY <1>1, <1>4, TailIs, AppendIs
  <2>4. /\ y \in MergeState /\ y.left = Tail(x.left) /\ y.right = x.right
        /\ y.temp = Append(x.temp, Head(x.left))
    BY <1>1, <2>2, <2>3 DEF MergeState
  <2> HIDE DEF y
  <2>5. QED
    BY <1>4, <2>4 DEF y
<1>5. CASE x.left # <<>> /\ x.right # <<>> /\ ~ (Head(x.left) <= Head(x.right))
  <2>1. y = [x EXCEPT !.right = Tail(x.right), !.temp = Append(x.temp, Head(x.right))]
    BY <1>2, <1>5, Zenon
  <2>2. y = [left |-> x.left, right |-> Tail(x.right), temp |-> Append(x.temp, Head(x.right))]
    BY <1>1, <2>1
  <2>3. Tail(x.right) \in Seq(Int) /\ Append(x.temp, Head(x.right)) \in Seq(Int)
    BY <1>1, <1>5, TailIs, AppendIs
  <2>4. /\ y \in MergeState /\ y.left = x.left /\ y.right = Tail(x.right)
        /\ y.temp = Append(x.temp, Head(x.right))
    BY <1>1, <2>2, <2>3 DEF MergeState
  <2> HIDE DEF y
  <2>5. QED
    BY <1>5, <2>4 DEF y
<1>6. QED
  BY <1>3, <1>4, <1>5

\* z has the values of a, then those of b, then those of c.
Parts(z, a, b, c) ==
  /\ z \in Seq(Int) /\ Len(z) = Len(a) + Len(b) + Len(c)
  /\ Len(a) \in Nat /\ Len(b) \in Nat /\ Len(c) \in Nat
  /\ \A i \in 1 .. Len(a) : z[i] = a[i]
  /\ \A i \in 1 .. Len(b) : z[Len(a) + i] = b[i]
  /\ \A i \in 1 .. Len(c) : z[Len(a) + Len(b) + i] = c[i]

(* The places of three sequences joined. *)
LEMMA WholeIs ==
  ASSUME NEW a \in Seq(Int), NEW b \in Seq(Int), NEW c \in Seq(Int)
  PROVE  Parts(a \o (b \o c), a, b, c)
<1>1. b \o c \in Seq(Int)
  BY ConcatIs
<1>2. /\ a \o (b \o c) \in Seq(Int) /\ Len(a \o (b \o c)) = Len(a) + Len(b \o c)
      /\ Len(b \o c) = Len(b) + Len(c)
      /\ Len(a) \in Nat /\ Len(b) \in Nat /\ Len(c) \in Nat
      /\ \A i \in 1 .. Len(a) : (a \o (b \o c))[i] = a[i]
      /\ \A i \in 1 .. Len(b \o c) : (a \o (b \o c))[Len(a) + i] = (b \o c)[i]
      /\ \A i \in 1 .. Len(b) : (b \o c)[i] = b[i]
      /\ \A i \in 1 .. Len(c) : (b \o c)[Len(b) + i] = c[i]
  BY <1>1, ConcatIs
<1>3. ASSUME NEW i \in 1 .. Len(b)  PROVE (a \o (b \o c))[Len(a) + i] = b[i]
  <2>1. i \in 1 .. Len(b \o c)
    BY <1>2
  <2>2. QED
    BY <1>2, <2>1
<1>4. ASSUME NEW i \in 1 .. Len(c)  PROVE (a \o (b \o c))[Len(a) + Len(b) + i] = c[i]
  <2>1. Len(b) + i \in 1 .. Len(b \o c)
    BY <1>2
  <2>2. Len(a) + Len(b) + i = Len(a) + (Len(b) + i)
    BY <1>2
  <2>3. QED
    BY <1>2, <2>1, <2>2
<1>5. QED
  BY <1>2, <1>3, <1>4 DEF Parts

(* Taking the first of the left half moves nothing. *)
LEMMA TakenLeft ==
  ASSUME NEW a \in Seq(Int), NEW b \in Seq(Int), NEW c \in Seq(Int), b # <<>>
  PROVE  Append(a, Head(b)) \o (Tail(b) \o c) = a \o (b \o c)
<1> DEFINE v == Append(a, Head(b)) \o (Tail(b) \o c)
           w == a \o (b \o c)
           A == Len(a)
           B == Len(b)
           C == Len(c)
           d == Append(a, Head(b))
           e == Tail(b)
<1>1. /\ Head(b) \in Int /\ B >= 1 /\ e \in Seq(Int) /\ Len(e) = B - 1
      /\ \A i \in 1 .. B - 1 : e[i] = b[i + 1]
  BY TailIs
<1>2. /\ d \in Seq(Int) /\ Len(d) = A + 1
      /\ \A i \in 1 .. A : d[i] = a[i]
      /\ d[A + 1] = b[1]
  BY <1>1, TailIs, AppendIs
<1>3. /\ w \in Seq(Int) /\ Len(w) = A + B + C
      /\ A \in Nat /\ B \in Nat /\ C \in Nat
      /\ \A i \in 1 .. A : w[i] = a[i]
      /\ \A i \in 1 .. B : w[A + i] = b[i]
      /\ \A i \in 1 .. C : w[A + B + i] = c[i]
  <2>1. Parts(w, a, b, c)
    BY WholeIs
  <2> HIDE DEF w
  <2>2. QED
    BY <2>1 DEF Parts
<1>4. /\ v \in Seq(Int) /\ Len(v) = Len(d) + Len(e) + C
      /\ \A i \in 1 .. Len(d) : v[i] = d[i]
      /\ \A i \in 1 .. Len(e) : v[Len(d) + i] = e[i]
      /\ \A i \in 1 .. C : v[Len(d) + Len(e) + i] = c[i]
  <2>1. d \in Seq(Int) /\ e \in Seq(Int)
    BY <1>1, <1>2
  <2> HIDE DEF d, e, A, B, C
  <2> DEFINE z == d \o (e \o c)
  <2>2. v = z
    BY DEF d, e
  <2>3. Parts(z, d, e, c)
    BY <2>1, WholeIs
  <2> HIDE DEF z, v
  <2>4. /\ z \in Seq(Int) /\ Len(z) = Len(d) + Len(e) + C
        /\ \A i \in 1 .. Len(d) : z[i] = d[i]
        /\ \A i \in 1 .. Len(e) : z[Len(d) + i] = e[i]
        /\ \A i \in 1 .. C : z[Len(d) + Len(e) + i] = c[i]
    BY <2>3 DEF Parts, C
  <2>5. QED
    BY <2>2, <2>4
<1> HIDE DEF v, w, A, B, C, d, e
<1>5. ASSUME NEW i \in 1 .. Len(w)  PROVE v[i] = w[i]
  <2>0. i \in Nat /\ 1 <= i /\ i <= A + B + C
    BY <1>3
  <2>1. CASE i <= A
    <3>1. i \in 1 .. A /\ i \in 1 .. Len(d)
      BY <1>2, <1>3, <2>0, <2>1
    <3>2. QED
      BY <1>2, <1>3, <1>4, <3>1
  <2>2. CASE i = A + 1
    <3>1. 1 \in 1 .. B /\ A + 1 \in 1 .. Len(d)
      BY <1>1, <1>2, <1>3
    <3>2. w[A + 1] = b[1] /\ v[A + 1] = d[A + 1]
      BY <1>3, <1>4, <3>1
    <3>3. QED
      BY <1>2, <2>2, <3>2
  <2>3. CASE i > A + 1 /\ i <= A + B
    <3> DEFINE k == i - (A + 1)
    <3>1. k \in 1 .. B - 1 /\ k + 1 \in 1 .. B /\ i = (A + 1) + k /\ i = A + (k + 1)
      BY <1>3, <2>0, <2>3
    <3> HIDE DEF k
    <3>2. v[Len(d) + k] = e[k] /\ w[A + (k + 1)] = b[k + 1]
      BY <1>1, <1>3, <1>4, <3>1
    <3>3. QED
      BY <1>1, <1>2, <3>1, <3>2
  <2>4. CASE i > A + B
    <3> DEFINE k == i - (A + B)
    <3>1. k \in 1 .. C /\ i = A + B + k /\ i = (A + 1) + (B - 1) + k
      BY <1>3, <2>0, <2>4
    <3> HIDE DEF k
    <3>2. v[Len(d) + Len(e) + k] = c[k] /\ w[A + B + k] = c[k]
      BY <1>3, <1>4, <3>1
    <3>3. QED
      BY <1>1, <1>2, <3>1, <3>2
  <2>5. QED
    BY <1>3, <2>0, <2>1, <2>2, <2>3, <2>4
<1>6. Len(v) = Len(w)
  BY <1>1, <1>2, <1>3, <1>4
<1>7. v = w
  BY <1>3, <1>4, <1>5, <1>6, SeqEqual
<1>8. QED
  BY <1>7 DEF v, w, d, e

\* What the first of the right half does to the places.
Rotates(f, A, B, n) ==
  /\ \A i \in 1 .. n : i <= A \/ i > A + B + 1 => f[i] = i
  /\ f[A + 1] = A + B + 1
  /\ \A i \in A + 2 .. A + B + 1 : f[i] = i - 1

(* Moving one element forward over a block is a rearrangement. *)
LEMMA Rotation ==
  ASSUME NEW A \in Nat, NEW B \in Nat, NEW n \in Nat, A + B + 1 <= n
  PROVE  \E f \in [1 .. n -> 1 .. n] : Bijects(f, n) /\ Rotates(f, A, B, n)
<1> DEFINE M == A + B + 1
           f == [i \in 1 .. n |-> IF i <= A \/ i > M THEN i ELSE IF i = A + 1 THEN M ELSE i - 1]
<1>0. M \in Nat /\ A < M /\ M <= n /\ M = A + B + 1
  OBVIOUS
<1> HIDE DEF M
<1>1. /\ f \in [1 .. n -> 1 .. n]
      /\ \A i \in 1 .. n : f[i] = IF i <= A \/ i > M THEN i
                                  ELSE IF i = A + 1 THEN M ELSE i - 1
  BY <1>0
<1> HIDE DEF f
<1>2. Rotates(f, A, B, n)
  BY <1>0, <1>1 DEF Rotates
<1>3. ASSUME NEW i \in 1 .. n, NEW j \in 1 .. n, f[i] = f[j]  PROVE i = j
  <2>1. /\ \/ i <= A /\ f[i] = i
           \/ i > M /\ f[i] = i
           \/ i = A + 1 /\ f[i] = M
           \/ i > A + 1 /\ i <= M /\ f[i] = i - 1
        /\ \/ j <= A /\ f[j] = j
           \/ j > M /\ f[j] = j
           \/ j = A + 1 /\ f[j] = M
           \/ j > A + 1 /\ j <= M /\ f[j] = j - 1
    BY <1>0, <1>1
  <2>2. i \in Nat /\ j \in Nat /\ f[i] \in Nat /\ f[j] \in Nat
    BY <1>1
  <2>3. QED
    BY <1>0, <1>3, <2>1, <2>2
<1>4. ASSUME NEW j \in 1 .. n  PROVE \E i \in 1 .. n : f[i] = j
  <2>1. CASE j <= A \/ j > M
    BY <1>1, <2>1
  <2>2. CASE j = M
    <3>1. A + 1 \in 1 .. n /\ f[A + 1] = j
      BY <1>0, <1>1, <2>2
    <3>2. QED
      BY <3>1
  <2>3. CASE A < j /\ j < M
    <3>1. j + 1 \in 1 .. n /\ f[j + 1] = j
      BY <1>0, <1>1, <2>3
    <3>2. QED
      BY <3>1
  <2>4. QED
    BY <1>0, <2>1, <2>2, <2>3
<1>5. QED
  BY <1>1, <1>2, <1>3, <1>4 DEF Bijects

(* Taking the first of the right half moves it before the left half. *)
LEMMA TakenRight ==
  ASSUME NEW a \in Seq(Int), NEW b \in Seq(Int), NEW c \in Seq(Int), c # <<>>
  PROVE  LET v == Append(a, Head(c)) \o (b \o Tail(c))
             w == a \o (b \o c)
         IN  Len(v) = Len(w) /\ Shuffled(w, v, Len(w), 1, Len(w))
<1> DEFINE v == Append(a, Head(c)) \o (b \o Tail(c))
           w == a \o (b \o c)
           A == Len(a)
           B == Len(b)
           C == Len(c)
           n == Len(w)
           d == Append(a, Head(c))
           e == Tail(c)
<1>1. /\ Head(c) \in Int /\ C >= 1 /\ e \in Seq(Int) /\ Len(e) = C - 1
      /\ \A i \in 1 .. C - 1 : e[i] = c[i + 1]
  BY TailIs
<1>2. /\ d \in Seq(Int) /\ Len(d) = A + 1
      /\ \A i \in 1 .. A : d[i] = a[i]
      /\ d[A + 1] = c[1]
  BY <1>1, TailIs, AppendIs
<1>3. /\ w \in Seq(Int) /\ n = A + B + C
      /\ A \in Nat /\ B \in Nat /\ C \in Nat
      /\ \A i \in 1 .. A : w[i] = a[i]
      /\ \A i \in 1 .. B : w[A + i] = b[i]
      /\ \A i \in 1 .. C : w[A + B + i] = c[i]
  <2>1. Parts(w, a, b, c)
    BY WholeIs
  <2> HIDE DEF w
  <2>2. QED
    BY <2>1 DEF Parts
<1>4. /\ v \in Seq(Int) /\ Len(v) = Len(d) + B + Len(e)
      /\ \A i \in 1 .. Len(d) : v[i] = d[i]
      /\ \A i \in 1 .. B : v[Len(d) + i] = b[i]
      /\ \A i \in 1 .. Len(e) : v[Len(d) + B + i] = e[i]
  <2>1. d \in Seq(Int) /\ e \in Seq(Int)
    BY <1>1, <1>2
  <2> HIDE DEF d, e, A, B, C
  <2> DEFINE z == d \o (b \o e)
  <2>2. v = z
    BY DEF d, e
  <2>3. Parts(z, d, b, e)
    BY <2>1, WholeIs
  <2> HIDE DEF z, v
  <2>4. /\ z \in Seq(Int) /\ Len(z) = Len(d) + B + Len(e)
        /\ \A i \in 1 .. Len(d) : z[i] = d[i]
        /\ \A i \in 1 .. B : z[Len(d) + i] = b[i]
        /\ \A i \in 1 .. Len(e) : z[Len(d) + B + i] = e[i]
    BY <2>3 DEF Parts, B
  <2>5. QED
    BY <2>2, <2>4
<1> HIDE DEF v, w, A, B, C, n, d, e
<1>5. n \in Nat /\ A + B + 1 <= n
  BY <1>1, <1>3
<1>6. PICK f \in [1 .. n -> 1 .. n] : Bijects(f, n) /\ Rotates(f, A, B, n)
  BY <1>3, <1>5, Rotation
<1>7. ASSUME NEW i \in 1 .. n  PROVE v[i] = w[f[i]]
  <2>0. i \in Nat /\ 1 <= i /\ i <= A + B + C
    BY <1>3
  <2>1. CASE i <= A
    <3>1. i \in 1 .. A /\ i \in 1 .. Len(d)
      BY <1>2, <1>3, <2>0, <2>1
    <3>2. f[i] = i
      BY <1>6, <2>1 DEF Rotates
    <3>3. QED
      BY <1>2, <1>3, <1>4, <3>1, <3>2
  <2>2. CASE i = A + 1
    <3>1. 1 \in 1 .. C /\ A + 1 \in 1 .. Len(d)
      BY <1>1, <1>2, <1>3
    <3>2. w[A + B + 1] = c[1] /\ v[A + 1] = d[A + 1]
      BY <1>3, <1>4, <3>1
    <3>3. f[A + 1] = A + B + 1
      BY <1>6 DEF Rotates
    <3>4. QED
      BY <1>2, <2>2, <3>2, <3>3
  <2>3. CASE i > A + 1 /\ i <= A + B + 1
    <3> DEFINE k == i - (A + 1)
    <3>1. k \in 1 .. B /\ i = (A + 1) + k /\ i - 1 = A + k /\ i \in A + 2 .. A + B + 1
      BY <1>3, <2>0, <2>3
    <3> HIDE DEF k
    <3>2. v[Len(d) + k] = b[k] /\ w[A + k] = b[k]
      BY <1>3, <1>4, <3>1
    <3>3. f[i] = i - 1
      BY <1>6, <3>1 DEF Rotates
    <3>4. QED
      BY <1>2, <3>1, <3>2, <3>3
  <2>4. CASE i > A + B + 1
    <3> DEFINE k == i - (A + B + 1)
    <3>1. /\ k \in 1 .. C - 1 /\ k + 1 \in 1 .. C
          /\ i = (A + 1) + B + k /\ i = A + B + (k + 1)
      BY <1>3, <2>0, <2>4
    <3> HIDE DEF k
    <3>2. v[Len(d) + B + k] = e[k] /\ w[A + B + (k + 1)] = c[k + 1]
      BY <1>1, <1>3, <1>4, <3>1
    <3>3. f[i] = i
      BY <1>6, <2>4 DEF Rotates
    <3>4. QED
      BY <1>1, <1>2, <3>1, <3>2, <3>3
  <2>5. QED
    BY <1>3, <2>0, <2>1, <2>2, <2>3, <2>4
<1>8. Shuffled(w, v, n, 1, n)
  <2>1. \A i \in 1 .. n : i \notin 1 .. n => f[i] = i
    OBVIOUS
  <2>2. QED
    BY <1>6, <1>7, <2>1 DEF Shuffled, Moves
<1>9. Len(v) = n
  BY <1>1, <1>2, <1>3, <1>4
<1>10. QED
  BY <1>8, <1>9 DEF v, w, n, d, e

(* The invariant is kept. *)
LEMMA MergeKeeps ==
  ASSUME NEW w, NEW x \in MergeState, MergeInv(w, x), Len(w) \in Nat
  PROVE  MergeInv(w, MergeStep[x])
<1> DEFINE y == MergeStep[x]
<1>0. /\ x.left \in Seq(Int) /\ x.right \in Seq(Int) /\ x.temp \in Seq(Int)
      /\ Len(x.left) \in Nat /\ Len(x.right) \in Nat /\ Len(x.temp) \in Nat
      /\ \A i \in 1 .. Len(x.left) : x.left[i] \in Int
      /\ \A i \in 1 .. Len(x.right) : x.right[i] \in Int
      /\ \A i \in 1 .. Len(x.temp) : x.temp[i] \in Int
  BY DEF MergeState
<1>1. \/ y = x /\ (x.left = <<>> \/ x.right = <<>>)
      \/ /\ x.left # <<>> /\ x.right # <<>> /\ Head(x.left) <= Head(x.right)
         /\ y \in MergeState /\ y.left = Tail(x.left) /\ y.right = x.right
         /\ y.temp = Append(x.temp, Head(x.left))
      \/ /\ x.left # <<>> /\ x.right # <<>> /\ ~ (Head(x.left) <= Head(x.right))
         /\ y \in MergeState /\ y.left = x.left /\ y.right = Tail(x.right)
         /\ y.temp = Append(x.temp, Head(x.right))
  BY MergeStepIs
<1> HIDE DEF y
<1>2. ASSUME NEW b \in Seq(Int), NEW c \in Seq(Int), b # <<>>, c # <<>>,
             Ordered(b), Ordered(c), Below(x.temp, b), Below(x.temp, c), Head(b) <= Head(c)
      PROVE  /\ Ordered(Append(x.temp, Head(b))) /\ Ordered(Tail(b))
             /\ Below(Append(x.temp, Head(b)), Tail(b))
             /\ Below(Append(x.temp, Head(b)), c)
  <2> DEFINE v == Head(b)
             d == Append(x.temp, v)
             e == Tail(b)
             n == Len(x.temp)
  <2>1. /\ v = b[1] /\ v \in Int /\ Len(b) \in Nat /\ Len(b) >= 1 /\ Head(c) \in Int
        /\ e \in Seq(Int) /\ Len(e) = Len(b) - 1
        /\ \A i \in 1 .. Len(b) - 1 : e[i] = b[i + 1]
    BY <1>2, TailIs
  <2>2. Ordered(e) /\ (\A i \in 1 .. Len(b) : v <= b[i]) /\ \A i \in 1 .. Len(c) : Head(c) <= c[i]
    BY <1>2, OrderedTail
  <2>3. /\ d \in Seq(Int) /\ Len(d) = n + 1 /\ n \in Nat /\ d[n + 1] = v
        /\ \A i \in 1 .. n : d[i] = x.temp[i]
    BY <1>0, <2>1, AppendIs
  <2>4. \A i \in 1 .. n : x.temp[i] <= v
    BY <1>2, <2>1 DEF Below
  <2>5. Ordered(d)
    <3> HIDE DEF v
    <3>1. QED
      BY <1>0, <2>1, <2>4, OrderedAppend DEF MergeInv
  <2>6. Below(d, e)
    <3> HIDE DEF d, e, v, n
    <3> SUFFICES ASSUME NEW i \in 1 .. n + 1, NEW j \in 1 .. Len(b) - 1  PROVE d[i] <= e[j]
      BY <2>1, <2>3 DEF Below
    <3>1. j + 1 \in 1 .. Len(b) /\ e[j] = b[j + 1]
      BY <2>1
    <3>2. CASE i = n + 1
      BY <2>2, <2>3, <3>1, <3>2
    <3>3. CASE i # n + 1
      <4>1. i \in 1 .. n
        BY <2>3, <3>3
      <4>2. x.temp[i] <= b[j + 1]
        BY <1>2, <3>1, <4>1 DEF Below, n
      <4>3. QED
        BY <2>3, <3>1, <4>1, <4>2
    <3>4. QED
      BY <3>2, <3>3
  <2>7. Below(d, c)
    <3> HIDE DEF d, e, v, n
    <3> SUFFICES ASSUME NEW i \in 1 .. n + 1, NEW j \in 1 .. Len(c)  PROVE d[i] <= c[j]
      BY <2>3 DEF Below
    <3>1. CASE i = n + 1
      <4>1. Head(c) <= c[j] /\ v <= Head(c)
        BY <1>2, <2>2 DEF v
      <4>2. c[j] \in Int
        BY <1>2
      <4>3. v <= c[j]
        BY SMTT(30), <2>1, <4>1, <4>2
      <4>4. QED
        BY <2>3, <3>1, <4>3
    <3>2. CASE i # n + 1
      <4>1. i \in 1 .. n
        BY <2>3, <3>2
      <4>2. x.temp[i] <= c[j]
        BY <1>2, <4>1 DEF Below, n
      <4>3. QED
        BY <2>3, <4>1, <4>2
    <3>3. QED
      BY <3>1, <3>2
  <2>8. QED
    BY <2>2, <2>5, <2>6, <2>7
<1>3. CASE /\ x.left # <<>> /\ x.right # <<>> /\ Head(x.left) <= Head(x.right)
           /\ y \in MergeState /\ y.left = Tail(x.left) /\ y.right = x.right
           /\ y.temp = Append(x.temp, Head(x.left))
  <2>1. /\ Ordered(y.temp) /\ Ordered(y.left) /\ Ordered(y.right)
        /\ Below(y.temp, y.left) /\ Below(y.temp, y.right)
    BY <1>0, <1>2, <1>3 DEF MergeInv
  <2>2. Whole(y) = Whole(x)
    <3>1. Append(x.temp, Head(x.left)) \o (Tail(x.left) \o x.right)
            = x.temp \o (x.left \o x.right)
      BY <1>0, <1>3, TakenLeft, Zenon
    <3>2. QED
      BY <1>3, <3>1 DEF Whole
  <2>3. QED
    BY <2>1, <2>2, Zenon DEF MergeInv, y
<1>4. CASE /\ x.left # <<>> /\ x.right # <<>> /\ ~ (Head(x.left) <= Head(x.right))
           /\ y \in MergeState /\ y.left = x.left /\ y.right = Tail(x.right)
           /\ y.temp = Append(x.temp, Head(x.right))
  <2>0. Head(x.right) <= Head(x.left)
    BY <1>0, <1>4, TailIs
  <2>1. /\ Ordered(y.temp) /\ Ordered(y.left) /\ Ordered(y.right)
        /\ Below(y.temp, y.left) /\ Below(y.temp, y.right)
    BY <1>0, <1>2, <1>4, <2>0 DEF MergeInv
  <2>2. Len(Whole(y)) = Len(Whole(x)) /\ Shuffled(Whole(x), Whole(y), Len(Whole(x)), 1, Len(Whole(x)))
    <3> DEFINE v == Append(x.temp, Head(x.right)) \o (x.left \o Tail(x.right))
               u == x.temp \o (x.left \o x.right)
    <3>1. Len(v) = Len(u) /\ Shuffled(u, v, Len(u), 1, Len(u))
      BY <1>0, <1>4, TakenRight, Zenon
    <3>2. Whole(y) = v /\ Whole(x) = u
      BY <1>4 DEF Whole
    <3> HIDE DEF u, v
    <3>3. QED
      BY <3>1, <3>2, Zenon
  <2>3. Len(Whole(y)) = Len(w) /\ Shuffled(Whole(x), Whole(y), Len(w), 1, Len(w))
    BY <2>2, Zenon DEF MergeInv
  <2>4. Shuffled(w, Whole(x), Len(w), 1, Len(w))
    BY Zenon DEF MergeInv
  <2>5. Shuffled(w, Whole(y), Len(w), 1, Len(w))
    BY <2>3, <2>4, ShuffledThen
  <2>6. QED
    BY <2>1, <2>3, <2>5, Zenon DEF MergeInv, y
<1>5. CASE y = x
  BY <1>5 DEF y
<1>6. QED
  BY <1>1, <1>3, <1>4, <1>5, Zenon

(* Every pass of the merge leaves less in the halves. *)
LEMMA MergeHalts ==
  LET m == [x \in MergeState |-> Len(x.left) + Len(x.right)]
  IN  /\ MergeStep \in [MergeState -> MergeState] /\ m \in [MergeState -> Nat]
      /\ Halts(MergeState, MergeStep, m)
<1> DEFINE m == [x \in MergeState |-> Len(x.left) + Len(x.right)]
<1>1. MergeStep \in [MergeState -> MergeState]
  <2>1. ASSUME NEW x \in MergeState  PROVE MergeStep[x] \in MergeState
    BY MergeStepIs
  <2>2. MergeStep = [x \in MergeState |-> MergeStep[x]]
    BY DEF MergeStep, MergeState
  <2>3. QED
    BY <2>1, <2>2
<1>2. m \in [MergeState -> Nat]
  <2>1. ASSUME NEW x \in MergeState  PROVE Len(x.left) + Len(x.right) \in Nat
    <3>1. x.left \in Seq(Int) /\ x.right \in Seq(Int)
      BY DEF MergeState
    <3>2. Len(x.left) \in Nat /\ Len(x.right) \in Nat
      BY <3>1
    <3>3. \A p, q \in Nat : p + q \in Nat
      OBVIOUS
    <3>4. QED
      BY <3>2, <3>3, Zenon
  <2>2. QED
    BY <2>1
<1>3. Halts(MergeState, MergeStep, m)
  <2> SUFFICES ASSUME NEW x \in MergeState  PROVE MergeStep[x] = x \/ m[MergeStep[x]] < m[x]
    BY DEF Halts
  <2> PICK y \in MergeState : y = MergeStep[x]
    BY <1>1
  <2>1. x.left \in Seq(Int) /\ x.right \in Seq(Int) /\ Len(x.left) \in Nat /\ Len(x.right) \in Nat
    BY DEF MergeState
  <2>2. m[y] = Len(y.left) + Len(y.right) /\ m[x] = Len(x.left) + Len(x.right)
    OBVIOUS
  <2>3. \/ y = x
        \/ x.left # <<>> /\ y.left = Tail(x.left) /\ y.right = x.right
        \/ x.right # <<>> /\ y.left = x.left /\ y.right = Tail(x.right)
    BY MergeStepIs
  <2> HIDE DEF m
  <2>4. \/ y = x
        \/ Len(y.left) = Len(x.left) - 1 /\ Len(y.right) = Len(x.right)
        \/ Len(y.left) = Len(x.left) /\ Len(y.right) = Len(x.right) - 1
    BY <2>1, <2>3, TailIs
  <2>5. Len(y.left) \in Nat /\ Len(y.right) \in Nat
    BY DEF MergeState
  <2>6. CASE y = x
    BY <2>6
  <2>7. CASE y # x
    <3>1. \A p, q, k, h \in Nat : (k = p - 1 /\ h = q) \/ (k = p /\ h = q - 1) => k + h < p + q
      OBVIOUS
    <3>2. Len(y.left) + Len(y.right) < Len(x.left) + Len(x.right)
      BY <2>1, <2>4, <2>5, <2>7, <3>1, Zenon
    <3>3. QED
      BY <2>2, <3>2
  <2>8. QED
    BY <2>6, <2>7
<1>4. QED
  BY <1>1, <1>2, <1>3

\* t has the values of s in ascending order.
SortedFrom(s, t) ==
  t \in Seq(Int) /\ Len(t) = Len(s) /\ Ordered(t) /\ Shuffled(s, t, Len(s), 1, Len(s))

(* Two sorted halves become one sorted sequence. *)
LEMMA MergeRight ==
  ASSUME NEW a \in Seq(Int), NEW b \in Seq(Int), Ordered(a), Ordered(b)
  PROVE  SortedFrom(a \o b, Merge(a, b))
<1> DEFINE w == a \o b
           x0 == [left |-> a, right |-> b, temp |-> <<>>]
           I == {x \in MergeState : MergeInv(w, x)}
           m == [x \in MergeState |-> Len(x.left) + Len(x.right)]
           end == While(MergeStep, x0)
<1>1. /\ MergeStep \in [MergeState -> MergeState] /\ m \in [MergeState -> Nat]
      /\ Halts(MergeState, MergeStep, m)
  BY MergeHalts
<1>4. \A x \in I : MergeStep[x] \in I
  <2>1. Len(w) \in Nat
    BY ConcatIs
  <2> HIDE DEF w
  <2>2. QED
    BY <1>1, <2>1, MergeKeeps
<1>5. w \in Seq(Int) /\ Len(w) \in Nat
  BY ConcatIs
<1>6. x0 \in I
  <2>1. x0 \in MergeState /\ x0.left = a /\ x0.right = b /\ x0.temp = <<>>
    BY DEF MergeState
  <2>2. Whole(x0) = w
    BY <2>1, <1>5, ConcatEmptySeq, Zenon DEF Whole
  <2> HIDE DEF w
  <2>3. Shuffled(w, Whole(x0), Len(w), 1, Len(w)) /\ Len(Whole(x0)) = Len(w)
    <3>1. Shuffled(w, w, Len(w), 1, Len(w))
      BY <1>5, ShuffledSame
    <3>2. QED
      BY <2>2, <3>1, Zenon
  <2>4. Ordered(<<>>) /\ Below(<<>>, a) /\ Below(<<>>, b)
    BY DEF Ordered, Below
  <2> HIDE DEF x0
  <2>5. MergeInv(w, x0)
    BY <2>1, <2>3, <2>4, Zenon DEF MergeInv
  <2>6. QED
    BY <2>1, <2>5
<1>7. end \in I /\ MergeStep[end] = end
  <2> HIDE DEF x0, m, w
  <2>0. I \in SUBSET MergeState
    OBVIOUS
  <2> HIDE DEF I
  <2>1. QED
    BY <1>1, <1>4, <1>6, <2>0, WhileEnds
<1>8. Merge(a, b) = end.temp \o (end.left \o end.right)
  BY DEF Merge
<1> HIDE DEF end, x0, w
<1>9. /\ end \in MergeState /\ MergeInv(w, end)
      /\ end.left \in Seq(Int) /\ end.right \in Seq(Int) /\ end.temp \in Seq(Int)
  BY <1>7 DEF MergeState
<1>10. end.left = <<>> \/ end.right = <<>>
  <2>1. ASSUME end.left # <<>>, end.right # <<>>  PROVE FALSE
    <3>1. /\ Len(Tail(end.left)) = Len(end.left) - 1 /\ Len(end.left) \in Nat
          /\ Len(Tail(end.right)) = Len(end.right) - 1 /\ Len(end.right) \in Nat
      BY <1>9, <2>1, TailIs
    <3>2. end.left = Tail(end.left) \/ end.right = Tail(end.right)
      BY <1>7, <1>9, <2>1, MergeStepIs
    <3>3. Len(end.left) = Len(Tail(end.left)) \/ Len(end.right) = Len(Tail(end.right))
      BY <3>2, Zenon
    <3>4. QED
      BY <3>1, <3>3
  <2>2. QED
    BY <2>1
<1> DEFINE rest == end.left \o end.right
<1>11. rest = end.left \/ rest = end.right
  BY <1>9, <1>10, ConcatEmptySeq
<1>12. rest \in Seq(Int) /\ Ordered(rest) /\ Below(end.temp, rest)
  <2> HIDE DEF rest
  <2>1. QED
    BY <1>9, <1>11, Zenon DEF MergeInv
<1>13. Merge(a, b) = Whole(end)
  BY <1>8, Zenon DEF Whole
<1>14. Ordered(Whole(end)) /\ Whole(end) \in Seq(Int)
  <2>1. Whole(end) = end.temp \o rest
    BY DEF Whole
  <2> HIDE DEF rest
  <2>2. Ordered(end.temp)
    BY <1>9, Zenon DEF MergeInv
  <2>3. Ordered(end.temp \o rest) /\ end.temp \o rest \in Seq(Int)
    BY <1>9, <1>12, <2>2, OrderedConcat, ConcatIs
  <2>4. QED
    BY <2>1, <2>3, Zenon
<1>15. SortedFrom(w, Whole(end))
  BY <1>9, <1>14, Zenon DEF SortedFrom, MergeInv
<1>16. QED
  BY <1>13, <1>15, Zenon DEF w

(* The merge of two sequences of integers is one. *)
LEMMA MergeType ==
  ASSUME NEW a \in Seq(Int), NEW b \in Seq(Int)
  PROVE  Merge(a, b) \in Seq(Int)
<1> DEFINE x0 == [left |-> a, right |-> b, temp |-> <<>>]
           m == [x \in MergeState |-> Len(x.left) + Len(x.right)]
           end == While(MergeStep, x0)
<1>1. MergeStep \in [MergeState -> MergeState] /\ m \in [MergeState -> Nat]
      /\ Halts(MergeState, MergeStep, m)
  BY MergeHalts
<1>2. x0 \in MergeState
  BY DEF MergeState
<1>3. end \in MergeState
  <2>1. MergeState \in SUBSET MergeState /\ \A x \in MergeState : MergeStep[x] \in MergeState
    BY <1>1
  <2> HIDE DEF m, x0
  <2>2. QED
    BY <1>1, <1>2, <2>1, WhileEnds
<1>4. Merge(a, b) = end.temp \o (end.left \o end.right)
  BY DEF Merge
<1> HIDE DEF end
<1>5. QED
  BY <1>3, <1>4 DEF MergeState

\* e does on both sides of m what f and g do.
Joins(e, f, g, m, q) ==
  (\A i \in 1 .. m : e[i] = f[i]) /\ \A i \in 1 .. q : e[m + i] = m + g[i]

(* Rearrangements of two halves make one of the whole. *)
LEMMA Joined ==
  ASSUME NEW m \in Nat, NEW q \in Nat, NEW f, NEW g, Bijects(f, m), Bijects(g, q)
  PROVE  \E e \in [1 .. m + q -> 1 .. m + q] : Bijects(e, m + q) /\ Joins(e, f, g, m, q)
<1> DEFINE n == m + q
           e == [i \in 1 .. n |-> IF i \in 1 .. m THEN f[i] ELSE m + g[i - m]]
<1>0. /\ n \in Nat /\ m <= n /\ n = m + q
      /\ f \in [1 .. m -> 1 .. m] /\ g \in [1 .. q -> 1 .. q]
  <2>1. n \in Nat /\ m <= n /\ n = m + q
    OBVIOUS
  <2>2. f \in [1 .. m -> 1 .. m] /\ g \in [1 .. q -> 1 .. q]
    BY Zenon DEF Bijects
  <2>3. QED
    BY <2>1, <2>2, Zenon
<1> HIDE DEF n
<1>1. ASSUME NEW i \in 1 .. m  PROVE i \in 1 .. n /\ f[i] \in 1 .. m /\ f[i] \in 1 .. n
  <2>1. f[i] \in 1 .. m
    BY <1>0
  <2>2. QED
    BY <1>0, <2>1
<1>2. ASSUME NEW i \in 1 .. q
      PROVE  m + i \in 1 .. n /\ m + i \notin 1 .. m /\ (m + i) - m = i
             /\ g[i] \in 1 .. q /\ m + g[i] \in 1 .. n /\ m + g[i] \notin 1 .. m
  <2>1. g[i] \in 1 .. q
    BY <1>0
  <2>2. \A k \in 1 .. q : m + k \in 1 .. n /\ m + k \notin 1 .. m /\ (m + k) - m = k
    BY <1>0
  <2>3. QED
    BY <2>1, <2>2
<1>3. ASSUME NEW i \in 1 .. n  PROVE i \in 1 .. m \/ (i \notin 1 .. m /\ \E k \in 1 .. q : i = m + k)
  <2>1. CASE i \in 1 .. m
    BY <2>1
  <2>2. CASE i \notin 1 .. m
    <3>1. i - m \in 1 .. q /\ i = m + (i - m)
      BY <1>0, <2>2
    <3>2. QED
      BY <2>2, <3>1
  <2>3. QED
    BY <2>1, <2>2
<1>4. \A i \in 1 .. m : e[i] = f[i]
  BY <1>1
<1>5. \A i \in 1 .. q : e[m + i] = m + g[i]
  BY <1>2
<1>6. e = [i \in 1 .. n |-> e[i]]
  OBVIOUS
<1> HIDE DEF e
<1>7. ASSUME NEW i \in 1 .. n  PROVE e[i] \in 1 .. n
  <2>1. CASE i \in 1 .. m
    BY <1>1, <1>4, <2>1
  <2>2. CASE i \notin 1 .. m
    <3>1. PICK k \in 1 .. q : i = m + k
      BY <1>3, <2>2
    <3>2. QED
      BY <1>2, <1>5, <3>1
  <2>3. QED
    BY <2>1, <2>2
<1>8. e \in [1 .. n -> 1 .. n]
  BY <1>6, <1>7
<1>9. ASSUME NEW i \in 1 .. n, NEW j \in 1 .. n, e[i] = e[j]  PROVE i = j
  <2>1. CASE i \in 1 .. m /\ j \in 1 .. m
    BY <1>4, <1>9, <2>1 DEF Bijects
  <2>2. CASE i \in 1 .. m /\ j \notin 1 .. m
    <3>1. PICK k \in 1 .. q : j = m + k
      BY <1>3, <2>2
    <3>2. e[i] \in 1 .. m /\ e[j] \notin 1 .. m
      BY <1>1, <1>2, <1>4, <1>5, <2>2, <3>1
    <3>3. QED
      BY <1>9, <3>2
  <2>3. CASE i \notin 1 .. m /\ j \in 1 .. m
    <3>1. PICK k \in 1 .. q : i = m + k
      BY <1>3, <2>3
    <3>2. e[j] \in 1 .. m /\ e[i] \notin 1 .. m
      BY <1>1, <1>2, <1>4, <1>5, <2>3, <3>1
    <3>3. QED
      BY <1>9, <3>2
  <2>4. CASE i \notin 1 .. m /\ j \notin 1 .. m
    <3>1. PICK k \in 1 .. q : i = m + k
      BY <1>3, <2>4
    <3>2. PICK h \in 1 .. q : j = m + h
      BY <1>3, <2>4
    <3>3. m + g[k] = m + g[h]
      BY <1>5, <1>9, <3>1, <3>2
    <3>4. g[k] \in Nat /\ g[h] \in Nat
      BY <1>2
    <3>5. g[k] = g[h]
      <4>1. \A x, y \in Nat : m + x = m + y => x = y
        OBVIOUS
      <4>2. QED
        BY <3>3, <3>4, <4>1, Zenon
    <3>6. k = h
      BY <3>5 DEF Bijects
    <3>7. QED
      BY <3>1, <3>2, <3>6
  <2>5. QED
    BY <2>1, <2>2, <2>3, <2>4
<1>10. ASSUME NEW j \in 1 .. n  PROVE \E i \in 1 .. n : e[i] = j
  <2>1. CASE j \in 1 .. m
    <3>1. PICK i \in 1 .. m : f[i] = j
      BY <2>1 DEF Bijects
    <3>2. QED
      BY <1>1, <1>4, <3>1
  <2>2. CASE j \notin 1 .. m
    <3>1. PICK k \in 1 .. q : j = m + k
      BY <1>3, <2>2
    <3>2. PICK i \in 1 .. q : g[i] = k
      BY DEF Bijects
    <3>3. QED
      BY <1>2, <1>5, <3>1, <3>2
  <2>3. QED
    BY <2>1, <2>2
<1>11. Bijects(e, n) /\ Joins(e, f, g, m, q)
  BY <1>4, <1>5, <1>8, <1>9, <1>10 DEF Bijects, Joins
<1>12. QED
  BY <1>8, <1>11 DEF n

(* Two parts that are rearranged are together a rearrangement. *)
LEMMA HalvesShuffled ==
  ASSUME NEW t \in Seq(Int), NEW m \in 1 .. Len(t), NEW a, NEW b,
         SortedFrom(SubSeq(t, 1, m), a), SortedFrom(SubSeq(t, m + 1, Len(t)), b)
  PROVE  Len(a \o b) = Len(t) /\ Shuffled(t, a \o b, Len(t), 1, Len(t))
<1> DEFINE n == Len(t)
           u == SubSeq(t, 1, m)
           v == SubSeq(t, m + 1, n)
           w == a \o b
<1>1. n \in Nat /\ m \in Nat /\ 1 <= m /\ m <= n /\ \A i \in 1 .. n : t[i] \in Int
  OBVIOUS
<1>2. /\ u \in Seq(Int) /\ Len(u) = m /\ \A i \in 1 .. m : u[i] = t[i]
      /\ v \in Seq(Int) /\ Len(v) = n - m /\ \A i \in 1 .. n - m : v[i] = t[m + i]
  <2>1. /\ SubSeq(t, 1, m) \in Seq(Int) /\ Len(SubSeq(t, 1, m)) = m
        /\ \A i \in 1 .. m - 1 + 1 : SubSeq(t, 1, m)[i] = t[1 + i - 1]
    BY <1>1, SubSeqProperties
  <2>2. /\ SubSeq(t, m + 1, n) \in Seq(Int)
        /\ Len(SubSeq(t, m + 1, n)) = IF m + 1 <= n THEN n - (m + 1) + 1 ELSE 0
        /\ \A i \in 1 .. n - (m + 1) + 1 : SubSeq(t, m + 1, n)[i] = t[(m + 1) + i - 1]
    <3>1. m + 1 \in Int /\ n \in Int /\ \A i \in m + 1 .. n : t[i] \in Int
      BY <1>1
    <3> HIDE DEF n
    <3>2. QED
      BY <3>1, SubSeqProperties
  <2> HIDE DEF u, v, n
  <2>3. /\ u \in Seq(Int) /\ Len(u) = m /\ \A i \in 1 .. m - 1 + 1 : u[i] = t[1 + i - 1]
    BY <2>1 DEF u
  <2>4. /\ v \in Seq(Int) /\ Len(v) = IF m + 1 <= n THEN n - (m + 1) + 1 ELSE 0
        /\ \A i \in 1 .. n - (m + 1) + 1 : v[i] = t[(m + 1) + i - 1]
    BY <2>2 DEF v
  <2>5. m - 1 + 1 = m /\ n - (m + 1) + 1 = n - m /\ Len(v) = n - m
    BY <1>1, <2>4
  <2>6. ASSUME NEW i \in 1 .. m  PROVE u[i] = t[i]
    <3>1. 1 + i - 1 = i
      OBVIOUS
    <3>2. QED
      BY <2>3, <2>5, <3>1
  <2>7. ASSUME NEW i \in 1 .. n - m  PROVE v[i] = t[m + i]
    <3>1. (m + 1) + i - 1 = m + i
      BY <1>1
    <3>2. QED
      BY <2>4, <2>5, <3>1
  <2>8. QED
    BY <2>3, <2>4, <2>5, <2>6, <2>7
<1>3. SortedFrom(u, a) /\ SortedFrom(v, b)
  OBVIOUS
<1> HIDE DEF n, u, v
<1>4. /\ a \in Seq(Int) /\ Len(a) = m /\ Shuffled(u, a, m, 1, m)
      /\ b \in Seq(Int) /\ Len(b) = n - m /\ Shuffled(v, b, n - m, 1, n - m)
  BY <1>2, <1>3 DEF SortedFrom
<1>5. /\ Len(w) = n
      /\ \A i \in 1 .. m : w[i] = a[i]
      /\ \A i \in 1 .. n - m : w[m + i] = b[i]
  <2>1. /\ Len(w) = Len(a) + Len(b)
        /\ \A i \in 1 .. Len(a) : w[i] = a[i]
        /\ \A i \in 1 .. Len(b) : w[Len(a) + i] = b[i]
    BY <1>4, ConcatIs
  <2> HIDE DEF w
  <2>2. QED
    BY SMTT(30), <1>1, <1>4, <2>1
<1> HIDE DEF w
<1> DEFINE q == n - m
<1>6. q \in Nat /\ n = m + q
  BY <1>1
<1>7. PICK f : f \in [1 .. m -> 1 .. m] /\ Bijects(f, m) /\ Moves(f, u, a, m)
  BY <1>4 DEF Shuffled
<1>8. PICK g : g \in [1 .. q -> 1 .. q] /\ Bijects(g, q) /\ Moves(g, v, b, q)
  BY <1>4 DEF Shuffled
<1>9. PICK e : e \in [1 .. n -> 1 .. n] /\ Bijects(e, n) /\ Joins(e, f, g, m, q)
  <2> HIDE DEF q
  <2>1. QED
    BY <1>1, <1>6, <1>7, <1>8, Joined
<1>10. /\ \A i \in 1 .. q : w[m + i] = b[i] /\ v[i] = t[m + i]
       /\ \A i \in 1 .. m : w[i] = a[i] /\ u[i] = t[i]
  BY <1>2, <1>5
<1> HIDE DEF q
<1>11. ASSUME NEW i \in 1 .. n  PROVE w[i] = t[e[i]]
  <2>1. CASE i \in 1 .. m
    <3>1. w[i] = a[i] /\ e[i] = f[i] /\ f[i] \in 1 .. m
      BY <1>7, <1>9, <1>10, <2>1 DEF Joins
    <3>2. a[i] = u[f[i]] /\ u[f[i]] = t[f[i]]
      BY <1>7, <1>10, <2>1, <3>1 DEF Moves
    <3>3. QED
      BY <3>1, <3>2
  <2>2. CASE i \notin 1 .. m
    <3>1. PICK k \in 1 .. q : i = m + k
      <4>1. i - m \in 1 .. q /\ i = m + (i - m)
        BY <1>1, <1>6, <2>2
      <4>2. QED
        BY <4>1
    <3>2. w[i] = b[k] /\ e[i] = m + g[k] /\ g[k] \in 1 .. q
      BY <1>8, <1>9, <1>10, <3>1 DEF Joins
    <3>3. b[k] = v[g[k]] /\ v[g[k]] = t[m + g[k]]
      BY <1>8, <1>10, <3>2 DEF Moves
    <3>4. QED
      BY <3>2, <3>3
  <2>3. QED
    BY <2>1, <2>2
<1>12. Shuffled(t, w, n, 1, n)
  <2>1. \A i \in 1 .. n : i \notin 1 .. n => e[i] = i
    OBVIOUS
  <2>2. Moves(e, t, w, n)
    BY <1>11 DEF Moves
  <2>3. QED
    BY <1>9, <2>1, <2>2, Zenon DEF Shuffled
<1>13. QED
  BY <1>5, <1>12 DEF n, w

\* The body of mergeSort, with sort for the recursive calls.
MergeBody(sort, t) ==
  IF Len(t) <= 1 THEN t
  ELSE LET m == (Len(t) + 1) \div 2
           left == sort[SubSeq(t, 1, m)]
           right == sort[SubSeq(t, m + 1, Len(t))]
       IN  IF Last(left) <= Head(right) THEN left \o right ELSE Merge(left, right)

(* The middle splits a sequence of two or more in two that are shorter. *)
LEMMA MiddleOf ==
  ASSUME NEW t \in Seq(Int), ~ (Len(t) <= 1)
  PROVE  LET m == (Len(t) + 1) \div 2
         IN  /\ m \in 1 .. Len(t) /\ m < Len(t)
             /\ SubSeq(t, 1, m) \in Seq(Int) /\ Len(SubSeq(t, 1, m)) = m
             /\ SubSeq(t, m + 1, Len(t)) \in Seq(Int) /\ Len(SubSeq(t, m + 1, Len(t))) = Len(t) - m
<1> DEFINE n == Len(t)
           m == (n + 1) \div 2
<1>1. n \in Nat /\ n + 1 \in Nat /\ n >= 2 /\ \A i \in 1 .. n : t[i] \in Int
  OBVIOUS
<1>2. m \in Nat /\ 2 * m <= n + 1 /\ n + 1 <= 2 * m + 1
  <2> HIDE DEF n
  <2>1. QED
    BY <1>1, Halved
<1> HIDE DEF m, n
<1>3. m \in 1 .. n /\ m < n
  BY <1>1, <1>2
<1>4. /\ \A i \in 1 .. m : t[i] \in Int
      /\ \A i \in m + 1 .. n : t[i] \in Int
      /\ m + 1 \in Int /\ m \in Int /\ n \in Int
  BY <1>1, <1>3
<1>5. SubSeq(t, 1, m) \in Seq(Int) /\ Len(SubSeq(t, 1, m)) = IF 1 <= m THEN m - 1 + 1 ELSE 0
  BY <1>4, SubSeqProperties
<1>6. /\ SubSeq(t, m + 1, n) \in Seq(Int)
      /\ Len(SubSeq(t, m + 1, n)) = IF m + 1 <= n THEN n - (m + 1) + 1 ELSE 0
  BY <1>4, SubSeqProperties
<1>7. (IF 1 <= m THEN m - 1 + 1 ELSE 0) = m /\ (IF m + 1 <= n THEN n - (m + 1) + 1 ELSE 0) = n - m
  BY <1>1, <1>3
<1>8. Len(SubSeq(t, 1, m)) = m /\ Len(SubSeq(t, m + 1, n)) = n - m
  BY <1>5, <1>6, <1>7
<1>9. QED
  BY <1>3, <1>5, <1>6, <1>8 DEF n, m

(* mergeSort is a function with this body. *)
LEMMA MergeSortIs ==
  \E sort \in [Seq(Int) -> Seq(Int)] :
    /\ \A t \in Seq(Int) : sort[t] = MergeBody(sort, t)
    /\ \A s : MergeSort(s) = sort[s]
<1> DEFINE S == Seq(Int)
           F == [f \in [S -> S] |-> [t \in S |-> MergeBody(f, t)]]
           m == [t \in S |-> Len(t)]
           E(f) == f = [t \in Seq(Int) |->
                          IF Len(t) <= 1 THEN t
                          ELSE LET k == (Len(t) + 1) \div 2
                                   left == f[SubSeq(t, 1, k)]
                                   right == f[SubSeq(t, k + 1, Len(t))]
                               IN  IF Last(left) <= Head(right) THEN left \o right
                                   ELSE Merge(left, right)]
<1>1. ASSUME NEW f \in [S -> S], NEW t \in S  PROVE MergeBody(f, t) \in S
  <2>1. CASE Len(t) <= 1
    BY <2>1 DEF MergeBody
  <2>2. CASE ~ (Len(t) <= 1)
    <3> DEFINE k == (Len(t) + 1) \div 2
               left == f[SubSeq(t, 1, k)]
               right == f[SubSeq(t, k + 1, Len(t))]
    <3>1. left \in S /\ right \in S
      <4>1. SubSeq(t, 1, k) \in S /\ SubSeq(t, k + 1, Len(t)) \in S
        BY <2>2, MiddleOf
      <4>2. QED
        BY <4>1
    <3>2. MergeBody(f, t) = IF Last(left) <= Head(right) THEN left \o right ELSE Merge(left, right)
      BY <2>2, Zenon DEF MergeBody
    <3> HIDE DEF left, right
    <3>3. left \o right \in S /\ Merge(left, right) \in S
      BY <3>1, MergeType, ConcatIs
    <3>4. QED
      BY <3>2, <3>3, Zenon
  <2>3. QED
    BY <2>1, <2>2
<1>2. F \in [[S -> S] -> [S -> S]]
  BY <1>1
<1>3. m \in [S -> Nat]
  OBVIOUS
<1>4. Descends(S, S, F, m)
  <2> SUFFICES ASSUME NEW f \in [S -> S], NEW g \in [S -> S], NEW t \in S, Agree(S, m, f, g, m[t])
               PROVE  MergeBody(f, t) = MergeBody(g, t)
    BY DEF Descends
  <2>1. CASE Len(t) <= 1
    BY <2>1, Zenon DEF MergeBody
  <2>2. CASE ~ (Len(t) <= 1)
    <3> DEFINE k == (Len(t) + 1) \div 2
               a == SubSeq(t, 1, k)
               b == SubSeq(t, k + 1, Len(t))
    <3>0. Len(t) \in Nat
      OBVIOUS
    <3>1. /\ k \in 1 .. Len(t) /\ k < Len(t) /\ a \in S /\ b \in S
          /\ Len(a) = k /\ Len(b) = Len(t) - k /\ Len(t) \in Nat
      BY <2>2, <3>0, MiddleOf, Zenon
    <3> HIDE DEF a, b, k
    <3>2. Len(a) < Len(t) /\ Len(b) < Len(t)
      BY <3>1
    <3>3. m[a] < m[t] /\ m[b] < m[t]
      BY <3>1, <3>2
    <3>4. f[a] = g[a] /\ f[b] = g[b]
      BY <3>1, <3>3 DEF Agree
    <3> DEFINE M(x, y) == IF Last(x) <= Head(y) THEN x \o y ELSE Merge(x, y)
    <3>5. MergeBody(f, t) = M(f[a], f[b]) /\ MergeBody(g, t) = M(g[a], g[b])
      BY <2>2, Zenon DEF MergeBody, a, b, k
    <3> HIDE DEF M
    <3>6. QED
      BY <3>4, <3>5, Zenon
  <2>3. QED
    BY <2>1, <2>2
<1>5. [S -> S] # {}
  <2>1. [t \in S |-> t] \in [S -> S]
    OBVIOUS
  <2>2. QED
    BY <2>1
<1>6. PICK f \in [S -> S] : \A t \in S : f[t] = F[f][t]
  <2> HIDE DEF F, S, m
  <2>1. HasFixedPoint(S, S, F)
    BY <1>2, <1>3, <1>4, <1>5, FixedPoint
  <2>2. QED
    BY <2>1 DEF HasFixedPoint
<1>7. E(f)
  <2>1. \A t \in S : f[t] = MergeBody(f, t)
    BY <1>6
  <2>2. f = [t \in S |-> MergeBody(f, t)]
    BY <2>1
  <2>3. QED
    BY <2>2, Zenon DEF MergeBody
<1> DEFINE sort == CHOOSE g : E(g)
<1>8. E(sort)
  <2> HIDE DEF E
  <2>1. QED
    BY <1>7
<1>9. \A s : MergeSort(s) = sort[s]
  BY Zenon DEF MergeSort
<1> HIDE DEF sort
<1>10. sort = [t \in S |-> MergeBody(sort, t)]
  BY <1>8, Zenon DEF MergeBody
<1>11. \A t \in S : sort[t] = MergeBody(sort, t)
  <2> DEFINE G(t) == MergeBody(sort, t)
  <2> HIDE DEF G
  <2>1. sort = [t \in S |-> G(t)]
    BY <1>10 DEF G
  <2>2. \A t \in S : sort[t] = G(t)
    BY <2>1
  <2>3. QED
    BY <2>2 DEF G
<1>12. ASSUME NEW n \in Nat, NEW t \in S, Len(t) = n, sort[t] \notin S,
              \A u \in S : Len(u) < n => sort[u] \in S
       PROVE  FALSE
  <2>1. ~ (Len(t) <= 1)
    BY <1>11, <1>12 DEF MergeBody
  <2> DEFINE k == (Len(t) + 1) \div 2
             a == SubSeq(t, 1, k)
             b == SubSeq(t, k + 1, Len(t))
  <2>0. Len(t) \in Nat
    OBVIOUS
  <2>2. /\ k \in 1 .. Len(t) /\ k < Len(t) /\ a \in S /\ b \in S
        /\ Len(a) = k /\ Len(b) = Len(t) - k /\ Len(t) \in Nat
    BY <2>0, <2>1, MiddleOf, Zenon
  <2>3. sort[t] = IF Last(sort[a]) <= Head(sort[b]) THEN sort[a] \o sort[b]
                  ELSE Merge(sort[a], sort[b])
    BY <1>11, <2>1, Zenon DEF MergeBody
  <2> HIDE DEF a, b, k
  <2>4. Len(a) < n /\ Len(b) < n
    BY <1>12, <2>2
  <2>5. sort[a] \in S /\ sort[b] \in S
    BY <1>12, <2>2, <2>4
  <2>6. sort[a] \o sort[b] \in S /\ Merge(sort[a], sort[b]) \in S
    BY <2>5, MergeType, ConcatIs
  <2>7. QED
    BY <1>12, <2>3, <2>6, Zenon
<1>13. \A t \in S : sort[t] \in S
  <2> SUFFICES ASSUME NEW t0 \in S, sort[t0] \notin S  PROVE FALSE
    OBVIOUS
  <2> DEFINE D == {n \in Nat : \E t \in S : Len(t) = n /\ sort[t] \notin S}
  <2>1. Len(t0) \in D /\ D \subseteq Nat
    OBVIOUS
  <2>2. PICK n \in D : \A i \in D : n <= i
    <3> HIDE DEF D
    <3>1. QED
      BY <2>1, LeastElement
  <2>3. PICK t \in S : Len(t) = n /\ sort[t] \notin S
    BY <2>2
  <2>4. ASSUME NEW u \in S, Len(u) < n  PROVE sort[u] \in S
    <3>1. ASSUME sort[u] \notin S  PROVE FALSE
      <4>1. Len(u) \in D
        BY <3>1
      <4>2. QED
        BY <2>2, <2>4, <4>1
    <3>2. QED
      BY <3>1
  <2>5. n \in Nat
    BY <2>2
  <2>6. QED
    BY <1>12, <2>3, <2>4, <2>5
<1>14. sort \in [S -> S]
  BY <1>10, <1>13
<1>15. QED
  BY <1>9, <1>11, <1>14

(* If the last of a is not above the first of b, a is below b. *)
LEMMA LastBelow ==
  ASSUME NEW a \in Seq(Int), NEW b \in Seq(Int), Ordered(a), Ordered(b),
         Len(a) >= 1, Len(b) >= 1, Last(a) <= Head(b)
  PROVE  Below(a, b)
<1>1. /\ Len(a) \in Nat /\ Len(b) \in Nat /\ Last(a) = a[Len(a)] /\ Head(b) = b[1]
      /\ a[Len(a)] \in Int /\ b[1] \in Int
  BY DEF Last
<1> SUFFICES ASSUME NEW i \in 1 .. Len(a), NEW j \in 1 .. Len(b)  PROVE a[i] <= b[j]
  BY DEF Below
<1>2. a[i] \in Int /\ b[j] \in Int
  OBVIOUS
<1>3. a[i] <= a[Len(a)]
  <2>1. i = Len(a) \/ (i < Len(a) /\ Len(a) \in 1 .. Len(a))
    BY <1>1
  <2>2. QED
    BY <1>1, <2>1 DEF Ordered
<1>4. b[1] <= b[j]
  <2>1. j = 1 \/ (1 < j /\ 1 \in 1 .. Len(b))
    BY <1>1
  <2>2. QED
    BY <1>1, <2>1 DEF Ordered
<1>5. a[Len(a)] <= b[1]
  BY <1>1
<1>6. QED
  BY <1>1, <1>2, <1>3, <1>4, <1>5

(* mergeSort sorts. *)
LEMMA MergeSorts ==
  ASSUME NEW s \in Seq(Int)
  PROVE  SortedFrom(s, MergeSort(s))
<1> DEFINE S == Seq(Int)
<1>1. PICK sort \in [S -> S] : /\ \A t \in S : sort[t] = MergeBody(sort, t)
                               /\ \A t : MergeSort(t) = sort[t]
  BY MergeSortIs
<1>2. ASSUME NEW t \in S, \A u \in S : Len(u) < Len(t) => SortedFrom(u, sort[u])
      PROVE  SortedFrom(t, sort[t])
  <2>0. Len(t) \in Nat
    OBVIOUS
  <2>1. CASE Len(t) <= 1
    <3>1. sort[t] = t
      BY <1>1, <2>1, Zenon DEF MergeBody
    <3>2. Ordered(t)
      BY <2>0, <2>1 DEF Ordered
    <3>3. Shuffled(t, t, Len(t), 1, Len(t))
      BY <2>0, ShuffledSame
    <3>4. SortedFrom(t, t)
      BY <3>2, <3>3 DEF SortedFrom
    <3>5. QED
      BY <3>1, <3>4
  <2>2. CASE ~ (Len(t) <= 1)
    <3> DEFINE k == (Len(t) + 1) \div 2
               u == SubSeq(t, 1, k)
               v == SubSeq(t, k + 1, Len(t))
               a == sort[u]
               b == sort[v]
    <3>1. /\ k \in 1 .. Len(t) /\ k < Len(t) /\ u \in S /\ v \in S
          /\ Len(u) = k /\ Len(v) = Len(t) - k
      BY <2>0, <2>2, MiddleOf, Zenon
    <3>2. sort[t] = IF Last(a) <= Head(b) THEN a \o b ELSE Merge(a, b)
      BY <1>1, <2>2, Zenon DEF MergeBody
    <3> HIDE DEF k
    <3>3. /\ Len(u) < Len(t) /\ Len(v) < Len(t) /\ Len(u) >= 1 /\ Len(v) >= 1
      <4> HIDE DEF u, v
      <4>1. QED
        BY <2>0, <3>1
    <3>4. SortedFrom(u, a) /\ SortedFrom(v, b)
      <4> HIDE DEF u, v
      <4>1. QED
        BY <1>2, <3>1, <3>3
    <3>5. Len(a \o b) = Len(t) /\ Shuffled(t, a \o b, Len(t), 1, Len(t))
      <4> HIDE DEF a, b
      <4>1. QED
        BY <3>1, <3>4, HalvesShuffled, Zenon
    <3> HIDE DEF a, b, u, v
    <3>6. /\ a \in S /\ b \in S /\ Len(a) >= 1 /\ Len(b) >= 1 /\ Ordered(a) /\ Ordered(b)
          /\ a \o b \in S
      <4>1. /\ a \in S /\ b \in S /\ Len(a) = Len(u) /\ Len(b) = Len(v) /\ Ordered(a) /\ Ordered(b)
        BY <3>4, Zenon DEF SortedFrom
      <4>2. Len(a) >= 1 /\ Len(b) >= 1
        BY <3>3, <4>1, Zenon
      <4>3. QED
        BY <4>1, <4>2, ConcatIs
    <3>7. CASE Last(a) <= Head(b)
      <4>1. Ordered(a \o b)
        BY <3>6, <3>7, LastBelow, OrderedConcat
      <4>2. SortedFrom(t, a \o b)
        BY <3>5, <3>6, <4>1, Zenon DEF SortedFrom
      <4>3. QED
        BY <3>2, <3>7, <4>2, Zenon
    <3>8. CASE ~ (Last(a) <= Head(b))
      <4> DEFINE w == a \o b
                 c == Merge(a, b)
      <4>1. SortedFrom(w, c) /\ Len(w) = Len(t)
        BY <3>5, <3>6, MergeRight
      <4>2. Shuffled(t, w, Len(t), 1, Len(t))
        BY <3>5
      <4>3. sort[t] = c
        BY <3>2, <3>8, Zenon
      <4> HIDE DEF w, c
      <4>4. /\ c \in S /\ Len(c) = Len(t) /\ Ordered(c)
            /\ Shuffled(w, c, Len(t), 1, Len(t))
        BY <4>1, Zenon DEF SortedFrom
      <4>5. Shuffled(t, c, Len(t), 1, Len(t))
        BY <2>0, <4>2, <4>4, ShuffledThen
      <4>6. SortedFrom(t, c)
        BY <4>4, <4>5, Zenon DEF SortedFrom
      <4>7. QED
        BY <4>3, <4>6
    <3>9. QED
      BY <3>7, <3>8
  <2>3. QED
    BY <2>1, <2>2
<1>3. SUFFICES ASSUME ~ SortedFrom(s, sort[s])  PROVE FALSE
  BY <1>1
<1> DEFINE D == {n \in Nat : \E t \in S : Len(t) = n /\ ~ SortedFrom(t, sort[t])}
<1>4. Len(s) \in D /\ D \subseteq Nat
  BY <1>3
<1>5. PICK n \in D : \A i \in D : n <= i
  <2> HIDE DEF D
  <2>1. QED
    BY <1>4, LeastElement
<1>6. PICK t \in S : Len(t) = n /\ ~ SortedFrom(t, sort[t])
  BY <1>5
<1>7. ASSUME NEW u \in S, Len(u) < Len(t)  PROVE SortedFrom(u, sort[u])
  <2>1. ASSUME ~ SortedFrom(u, sort[u])  PROVE FALSE
    <3>1. Len(u) \in D
      BY <2>1
    <3>2. Len(u) \in Nat /\ n \in Nat /\ Len(u) < n /\ n <= Len(u)
      BY <1>5, <1>6, <1>7, <3>1
    <3>3. QED
      BY <3>2
  <2>2. QED
    BY <2>1
<1>8. QED
  BY <1>2, <1>6, <1>7

\* In the terms of the property.
LEMMA SortedFromIs ==
  ASSUME NEW s \in Seq(Int), NEW t, SortedFrom(s, t)
  PROVE  t \in Rearranged(s) /\ IsSorted(t, <=)
<1>1. t \in [1 .. Len(s) -> Int] /\ Shuffled(s, t, Len(s), 1, Len(s))
  BY DEF SortedFrom
<1>2. t \in Rearranged(s)
  BY <1>1, ShuffledRearranged
<1>3. IsSorted(t, <=)
  BY DEF SortedFrom, Ordered, IsSorted
<1>4. QED
  BY <1>2, <1>3

-----------------------------------------------------------------------------
(* Quick sort *)

(* An array of n integers is a sequence of that length. *)
LEMMA ArrayIs ==
  ASSUME NEW n \in Nat, NEW s \in [1 .. n -> Int]
  PROVE  s \in Seq(Int) /\ Len(s) = n /\ DOMAIN s = 1 .. n /\ Arrays(s) = [1 .. n -> Int]
<1>1. s \in Seq(Int)
  BY SeqDef
<1>2. DOMAIN s = 1 .. n /\ DOMAIN s = 1 .. Len(s) /\ Len(s) \in Nat
  BY <1>1
<1>3. Len(s) = n
  BY <1>2
<1>4. QED
  BY <1>1, <1>2, <1>3 DEF Arrays

\* What partition3 may have in its variables.
PartState(n) ==
  {y \in [seq : [1 .. n -> Int], lt : 1 .. n + 1, i : 1 .. n + 1, gt : 0 .. n] : y.lt <= y.i}

\* Invariant of partition3: smaller, equal, not yet seen, greater, and the
\* pivot at the end.
PartInv(s, n, l, r, pivot, q, a, i, g) ==
  /\ l <= a /\ a <= i /\ i <= g + 1 /\ g <= r - 1
  /\ Shuffled(s, q, n, l, r) /\ q[r] = pivot
  /\ \A k \in l .. a - 1 : q[k] < pivot
  /\ \A k \in a .. i - 1 : q[k] = pivot
  /\ \A k \in g + 1 .. r - 1 : q[k] > pivot

\* The variables of partition3 as a record.
PartVars(q, a, i, g) == [seq |-> q, lt |-> a, i |-> i, gt |-> g]

(* Every state of partition3 has the four variables. *)
LEMMA PartStateIs ==
  ASSUME NEW n \in Nat, NEW x \in PartState(n)
  PROVE  \E q \in [1 .. n -> Int], a \in 1 .. n + 1, i \in 1 .. n + 1, g \in 0 .. n :
           x = PartVars(q, a, i, g) /\ a <= i
<1>1. /\ x = PartVars(x.seq, x.lt, x.i, x.gt)
      /\ x.seq \in [1 .. n -> Int] /\ x.lt \in 1 .. n + 1 /\ x.i \in 1 .. n + 1
      /\ x.gt \in 0 .. n /\ x.lt <= x.i
  BY DEF PartState, PartVars
<1>2. QED
  BY <1>1

\* Where a step goes.
PartStepTo(y, pivot, q, a, i, g) ==
  \/ y = PartVars(q, a, i, g) /\ i > g
  \/ i <= g /\ q[i] < pivot /\ y = PartVars(Swapped(q, i, a), a + 1, i + 1, g)
  \/ i <= g /\ q[i] > pivot /\ y = PartVars(Swapped(q, i, g), a, i, g - 1)
  \/ i <= g /\ q[i] = pivot /\ y = PartVars(q, a, i + 1, g)

(* What one pass of partition3 does, in the cases of PartStepTo. *)
LEMMA PartStepIs ==
  ASSUME NEW n \in Nat, NEW s \in [1 .. n -> Int], NEW pivot \in Int,
         NEW q \in [1 .. n -> Int], NEW a \in 1 .. n + 1, NEW i \in 1 .. n + 1, NEW g \in 0 .. n,
         a <= i
  PROVE  PartStepTo(PartitionStep(s, pivot)[PartVars(q, a, i, g)], pivot, q, a, i, g)
<1> DEFINE x == PartVars(q, a, i, g)
           y == PartitionStep(s, pivot)[x]
<1>1. Arrays(s) = [1 .. n -> Int] /\ Len(s) = n
  BY ArrayIs
<1>2. y = IF x.i > x.gt THEN x
          ELSE IF x.seq[x.i] < pivot
          THEN PartVars(Swapped(x.seq, x.i, x.lt), x.lt + 1, x.i + 1, x.gt)
          ELSE IF x.seq[x.i] > pivot
          THEN PartVars(Swapped(x.seq, x.i, x.gt), x.lt, x.i, x.gt - 1)
          ELSE [x EXCEPT !.i = x.i + 1]
  <2>1. x \in {z \in [seq : Arrays(s), lt : 1 .. Len(s) + 1, i : 1 .. Len(s) + 1, gt : 0 .. Len(s)] :
                 z.lt <= z.i}
    BY <1>1 DEF PartVars
  <2> HIDE DEF x
  <2>2. QED
    BY <2>1, Zenon DEF PartitionStep, PartVars
<1>3. x.seq = q /\ x.lt = a /\ x.i = i /\ x.gt = g
  BY DEF PartVars
<1>4. [x EXCEPT !.i = i + 1] = PartVars(q, a, i + 1, g)
  <2> DEFINE k == i + 1
  <2> HIDE DEF k
  <2>1. [x EXCEPT !.i = k] = PartVars(q, a, k, g)
    BY DEF PartVars
  <2>2. QED
    BY <2>1 DEF k
<1> HIDE DEF x
<1>5. y = IF i > g THEN x
          ELSE IF q[i] < pivot
          THEN PartVars(Swapped(q, i, a), a + 1, i + 1, g)
          ELSE IF q[i] > pivot
          THEN PartVars(Swapped(q, i, g), a, i, g - 1)
          ELSE PartVars(q, a, i + 1, g)
  BY <1>2, <1>3, <1>4, Zenon
<1> HIDE DEF y
<1>6. i > g \/ (i <= g /\ i \in 1 .. n)
  OBVIOUS
<1>7. ASSUME i <= g, i \in 1 .. n
      PROVE  \/ q[i] < pivot /\ ~ (i > g)
             \/ q[i] > pivot /\ ~ (i > g) /\ ~ (q[i] < pivot)
             \/ q[i] = pivot /\ ~ (i > g) /\ ~ (q[i] < pivot) /\ ~ (q[i] > pivot)
  <2>1. q[i] \in Int
    BY <1>7
  <2>2. QED
    BY <1>7, <2>1
<1>8. CASE i > g
  BY <1>5, <1>8, Zenon DEF x, y, PartStepTo
<1>9. CASE i <= g /\ i \in 1 .. n
  BY <1>5, <1>7, <1>9, Zenon DEF x, y, PartStepTo
<1>10. QED
  BY <1>6, <1>8, <1>9

\* q with the values at i and j before r exchanged is t.
PartSwaps(s, q, t, n, l, r, i, j) ==
  /\ t \in [1 .. n -> Int] /\ Shuffled(s, t, n, l, r) /\ t[r] = q[r]
  /\ t[i] = q[j] /\ t[j] = q[i]
  /\ \A k \in l .. r : k # i /\ k # j => t[k] = q[k]

(* A swap below the pivot keeps the range and the pivot. *)
LEMMA PartSwap ==
  ASSUME NEW n \in Nat, NEW s \in [1 .. n -> Int], NEW q \in [1 .. n -> Int],
         NEW l \in 1 .. n, NEW r \in 1 .. n, NEW i \in l .. r - 1, NEW j \in l .. r - 1,
         Shuffled(s, q, n, l, r)
  PROVE  PartSwaps(s, q, Swapped(q, i, j), n, l, r, i, j)
<1> DEFINE t == Swapped(q, i, j)
<1>1. /\ i \in 1 .. n /\ j \in 1 .. n /\ i \in l .. r /\ j \in l .. r /\ i # r /\ j # r
      /\ \A k \in l .. r : k \in 1 .. n
      /\ l \in Int /\ r \in Int
  OBVIOUS
<1>2. Exchanged(q, t, n, l, r, i, j)
  BY <1>1, ShuffledSwap
<1> HIDE DEF t
<1>3. Shuffled(s, t, n, l, r)
  <2>1. Shuffled(q, t, n, l, r)
    BY <1>2 DEF Exchanged
  <2>2. QED
    BY <2>1, ShuffledThen
<1>4. t[r] = q[r]
  BY <1>1, <1>2 DEF Exchanged
<1>5. PartSwaps(s, q, t, n, l, r, i, j)
  BY <1>1, <1>2, <1>3, <1>4 DEF PartSwaps, Exchanged
<1>6. QED
  BY <1>5 DEF t

(* The pass that meets a smaller element keeps the invariant. *)
LEMMA PartLess ==
  ASSUME NEW n \in Nat, NEW s \in [1 .. n -> Int], NEW pivot \in Int,
         NEW q \in [1 .. n -> Int], NEW a \in Int, NEW i \in Int, NEW g \in Int,
         NEW l \in 1 .. n, NEW r \in 1 .. n, PartInv(s, n, l, r, pivot, q, a, i, g),
         i <= g, q[i] < pivot
  PROVE  PartInv(s, n, l, r, pivot, Swapped(q, i, a), a + 1, i + 1, g)
<1> DEFINE t == Swapped(q, i, a)
<1>1. /\ l <= a /\ a <= i /\ g <= r - 1 /\ Shuffled(s, q, n, l, r) /\ q[r] = pivot
      /\ \A k \in l .. a - 1 : q[k] < pivot
      /\ \A k \in a .. i - 1 : q[k] = pivot
      /\ \A k \in g + 1 .. r - 1 : q[k] > pivot
  BY DEF PartInv
<1>2. i \in l .. r - 1 /\ a \in l .. r - 1
  BY <1>1
<1>3. /\ Shuffled(s, t, n, l, r) /\ t[r] = pivot
      /\ t[i] = q[a] /\ t[a] = q[i]
      /\ \A k \in l .. r : k # i /\ k # a => t[k] = q[k]
  <2>1. PartSwaps(s, q, t, n, l, r, i, a)
    BY <1>1, <1>2, PartSwap
  <2> HIDE DEF t
  <2>2. QED
    BY <1>1, <2>1, Zenon DEF PartSwaps
<1> HIDE DEF t
<1>4. ASSUME NEW k \in l .. a  PROVE t[k] < pivot
  <2>1. CASE k = a
    BY <1>3, <2>1
  <2>2. CASE k # a
    <3>1. k \in l .. a - 1 /\ k \in l .. r /\ k # i
      BY <1>1, <1>2, <2>2
    <3>2. QED
      BY <1>1, <1>3, <2>2, <3>1
  <2>3. QED
    BY <2>1, <2>2
<1>5. ASSUME NEW k \in a + 1 .. i  PROVE t[k] = pivot
  <2>1. CASE k = i
    <3>1. a \in a .. i - 1
      BY <1>1, <2>1
    <3>2. QED
      BY <1>1, <1>3, <2>1, <3>1
  <2>2. CASE k # i
    <3>1. k \in a .. i - 1 /\ k \in l .. r /\ k # a
      BY <1>1, <1>2, <2>2
    <3>2. QED
      BY <1>1, <1>3, <2>2, <3>1
  <2>3. QED
    BY <2>1, <2>2
<1>6. ASSUME NEW k \in g + 1 .. r - 1  PROVE t[k] > pivot
  <2>1. k \in l .. r /\ k # i /\ k # a
    BY SMTT(30), <1>1, <1>2
  <2>2. QED
    BY <1>1, <1>3, <2>1
<1>7. /\ (a + 1) - 1 = a /\ (i + 1) - 1 = i
      /\ l <= a + 1 /\ a + 1 <= i + 1 /\ i + 1 <= g + 1
  BY <1>1
<1>8. QED
  BY <1>1, <1>3, <1>4, <1>5, <1>6, <1>7 DEF PartInv, t

(* The pass that meets a greater element keeps the invariant. *)
LEMMA PartMore ==
  ASSUME NEW n \in Nat, NEW s \in [1 .. n -> Int], NEW pivot \in Int,
         NEW q \in [1 .. n -> Int], NEW a \in Int, NEW i \in Int, NEW g \in Int,
         NEW l \in 1 .. n, NEW r \in 1 .. n, PartInv(s, n, l, r, pivot, q, a, i, g),
         i <= g, q[i] > pivot
  PROVE  PartInv(s, n, l, r, pivot, Swapped(q, i, g), a, i, g - 1)
<1> DEFINE t == Swapped(q, i, g)
<1>1. /\ l <= a /\ a <= i /\ g <= r - 1 /\ Shuffled(s, q, n, l, r) /\ q[r] = pivot
      /\ \A k \in l .. a - 1 : q[k] < pivot
      /\ \A k \in a .. i - 1 : q[k] = pivot
      /\ \A k \in g + 1 .. r - 1 : q[k] > pivot
  BY DEF PartInv
<1>2. i \in l .. r - 1 /\ g \in l .. r - 1
  BY <1>1
<1>3. /\ Shuffled(s, t, n, l, r) /\ t[r] = pivot
      /\ t[i] = q[g] /\ t[g] = q[i]
      /\ \A k \in l .. r : k # i /\ k # g => t[k] = q[k]
  <2>1. PartSwaps(s, q, t, n, l, r, i, g)
    BY <1>1, <1>2, PartSwap
  <2> HIDE DEF t
  <2>2. QED
    BY <1>1, <2>1, Zenon DEF PartSwaps
<1> HIDE DEF t
<1>4. ASSUME NEW k \in l .. a - 1  PROVE t[k] < pivot
  <2>1. k \in l .. r /\ k # i /\ k # g
    BY SMTT(30), <1>1, <1>2
  <2>2. QED
    BY <1>1, <1>3, <2>1
<1>5. ASSUME NEW k \in a .. i - 1  PROVE t[k] = pivot
  <2>1. k \in l .. r /\ k # i /\ k # g
    BY SMTT(30), <1>1, <1>2
  <2>2. QED
    BY <1>1, <1>3, <2>1
<1>6. ASSUME NEW k \in g .. r - 1  PROVE t[k] > pivot
  <2>1. CASE k = g
    BY <1>3, <2>1
  <2>2. CASE k # g
    <3>1. k \in g + 1 .. r - 1 /\ k \in l .. r /\ k # i
      BY <1>1, <1>2, <2>2
    <3>2. QED
      BY <1>1, <1>3, <2>2, <3>1
  <2>3. QED
    BY <2>1, <2>2
<1>7. (g - 1) + 1 = g /\ g - 1 <= r - 1 /\ i <= (g - 1) + 1
  BY <1>1
<1>8. QED
  BY <1>1, <1>3, <1>4, <1>5, <1>6, <1>7 DEF PartInv, t

(* The pass that meets an equal element keeps the invariant. *)
LEMMA PartSame ==
  ASSUME NEW n \in Nat, NEW s, NEW pivot \in Int,
         NEW q, NEW a \in Int, NEW i \in Int, NEW g \in Int,
         NEW l, NEW r, PartInv(s, n, l, r, pivot, q, a, i, g),
         i <= g, q[i] = pivot
  PROVE  PartInv(s, n, l, r, pivot, q, a, i + 1, g)
<1>1. ASSUME NEW k \in a .. i  PROVE q[k] = pivot
  <2>1. CASE k = i
    BY <2>1
  <2>2. CASE k # i
    <3>1. k \in a .. i - 1
      BY <2>2
    <3>2. QED
      BY <3>1 DEF PartInv
  <2>3. QED
    BY <2>1, <2>2
<1>2. (i + 1) - 1 = i /\ i + 1 <= g + 1 /\ (a <= i => a <= i + 1)
  OBVIOUS
<1>3. QED
  BY <1>1, <1>2 DEF PartInv

(* Variables in their ranges are a state of partition3. *)
LEMMA PartVarsIn ==
  ASSUME NEW n \in Nat, NEW q \in [1 .. n -> Int], NEW a \in 1 .. n + 1, NEW i \in 1 .. n + 1,
         NEW g \in 0 .. n, a <= i
  PROVE  PartVars(q, a, i, g) \in PartState(n)
BY DEF PartVars, PartState

\* The measure of partition3: how many elements are not yet seen.
PartRoom(n) == [x \in PartState(n) |-> IF x.i <= x.gt THEN (x.gt - x.i) + 1 ELSE 0]

(* The measure is a function to the naturals. *)
LEMMA PartRoomIs ==
  ASSUME NEW n \in Nat
  PROVE  PartRoom(n) \in [PartState(n) -> Nat]
<1>1. ASSUME NEW x \in PartState(n)
      PROVE  (IF x.i <= x.gt THEN (x.gt - x.i) + 1 ELSE 0) \in Nat
  <2>1. PICK i \in 1 .. n + 1, g \in 0 .. n : x.i = i /\ x.gt = g
    BY DEF PartState
  <2>2. (IF i <= g THEN (g - i) + 1 ELSE 0) \in Nat
    OBVIOUS
  <2>3. QED
    BY <2>1, <2>2, Zenon
<1>2. QED
  BY <1>1 DEF PartRoom

(* The measure at given variables. *)
LEMMA PartRoomAt ==
  ASSUME NEW n \in Nat, NEW q \in [1 .. n -> Int], NEW a \in 1 .. n + 1, NEW i \in 1 .. n + 1,
         NEW g \in 0 .. n, a <= i
  PROVE  PartRoom(n)[PartVars(q, a, i, g)] = IF i <= g THEN (g - i) + 1 ELSE 0
<1> DEFINE x == PartVars(q, a, i, g)
<1>1. x \in PartState(n)
  BY PartVarsIn
<1>2. x.i = i /\ x.gt = g
  BY DEF PartVars
<1> HIDE DEF x
<1>3. PartRoom(n)[x] = IF x.i <= x.gt THEN (x.gt - x.i) + 1 ELSE 0
  BY <1>1, Zenon DEF PartRoom
<1>4. PartRoom(n)[x] = IF i <= g THEN (g - i) + 1 ELSE 0
  BY <1>2, <1>3, Zenon
<1>5. QED
  BY <1>4 DEF x

(* Every step stays among the states and comes nearer to the end. *)
LEMMA PartHalts ==
  ASSUME NEW n \in Nat, NEW s \in [1 .. n -> Int], NEW pivot \in Int
  PROVE  /\ PartitionStep(s, pivot) \in [PartState(n) -> PartState(n)]
         /\ Halts(PartState(n), PartitionStep(s, pivot), PartRoom(n))
<1> DEFINE step == PartitionStep(s, pivot)
<1>1. ASSUME NEW x \in PartState(n)
      PROVE  step[x] \in PartState(n) /\ (step[x] = x \/ PartRoom(n)[step[x]] < PartRoom(n)[x])
  <2>1. PICK q \in [1 .. n -> Int], a \in 1 .. n + 1, i \in 1 .. n + 1, g \in 0 .. n :
           x = PartVars(q, a, i, g) /\ a <= i
    BY PartStateIs
  <2>2. \/ step[x] = x
        \/ i <= g /\ step[x] = PartVars(Swapped(q, i, a), a + 1, i + 1, g)
        \/ i <= g /\ step[x] = PartVars(Swapped(q, i, g), a, i, g - 1)
        \/ i <= g /\ step[x] = PartVars(q, a, i + 1, g)
    <3>1. PartStepTo(step[PartVars(q, a, i, g)], pivot, q, a, i, g)
      BY <2>1, PartStepIs
    <3> HIDE DEF step
    <3>2. PartStepTo(step[x], pivot, q, a, i, g)
      BY <2>1, <3>1, Zenon
    <3>3. QED
      BY <2>1, <3>2, Zenon DEF PartStepTo
  <2> HIDE DEF step
  <2>3. ASSUME NEW t \in [1 .. n -> Int], NEW b \in 1 .. n + 1, NEW k \in 1 .. n + 1, NEW h \in 0 .. n,
               b <= k, i <= g, h - k < g - i, step[x] = PartVars(t, b, k, h)
        PROVE  step[x] \in PartState(n) /\ PartRoom(n)[step[x]] < PartRoom(n)[x]
    <3>1. step[x] \in PartState(n)
      BY ZenonT(30), <2>3, PartVarsIn
    <3>2. PartRoom(n)[step[x]] = IF k <= h THEN (h - k) + 1 ELSE 0
      <4>1. PartRoom(n)[PartVars(t, b, k, h)] = IF k <= h THEN (h - k) + 1 ELSE 0
        BY <2>3, PartRoomAt
      <4>2. QED
        BY <2>3, <4>1, Zenon
    <3>3. PartRoom(n)[x] = IF i <= g THEN (g - i) + 1 ELSE 0
      BY <2>1, PartRoomAt
    <3>4. (IF k <= h THEN (h - k) + 1 ELSE 0) < IF i <= g THEN (g - i) + 1 ELSE 0
      BY <2>3
    <3>5. QED
      BY <3>1, <3>2, <3>3, <3>4, Zenon
  <2>4. CASE step[x] = x
    BY <2>4
  <2>5. ASSUME i <= g
        PROVE  /\ i \in 1 .. n /\ a \in 1 .. n /\ g \in 1 .. n
               /\ i + 1 \in 1 .. n + 1 /\ a + 1 \in 1 .. n + 1 /\ g - 1 \in 0 .. n
               /\ a + 1 <= i + 1 /\ a <= i + 1 /\ g - (i + 1) < g - i /\ (g - 1) - i < g - i
    BY <2>1, <2>5
  <2>6. CASE i <= g /\ step[x] = PartVars(Swapped(q, i, a), a + 1, i + 1, g)
    <3>1. Swapped(q, i, a) \in [1 .. n -> Int]
      BY <2>5, <2>6 DEF Swapped
    <3>2. QED
      BY <2>3, <2>5, <2>6, <3>1
  <2>7. CASE i <= g /\ step[x] = PartVars(Swapped(q, i, g), a, i, g - 1)
    <3>1. Swapped(q, i, g) \in [1 .. n -> Int]
      BY <2>5, <2>7 DEF Swapped
    <3>2. QED
      BY <2>1, <2>3, <2>5, <2>7, <3>1
  <2>8. CASE i <= g /\ step[x] = PartVars(q, a, i + 1, g)
    BY <2>3, <2>5, <2>8
  <2>9. QED
    BY <2>2, <2>4, <2>6, <2>7, <2>8
<1>2. step = [x \in PartState(n) |-> step[x]]
  <2>1. Arrays(s) = [1 .. n -> Int] /\ Len(s) = n
    BY ArrayIs
  <2>2. DOMAIN step = PartState(n)
    BY <2>1, Zenon DEF PartitionStep, PartState
  <2>3. step = [x \in DOMAIN step |-> step[x]]
    BY DEF PartitionStep
  <2>4. QED
    BY <2>2, <2>3, Zenon
<1> HIDE DEF step
<1>3. step \in [PartState(n) -> PartState(n)]
  BY <1>1, <1>2
<1>4. Halts(PartState(n), step, PartRoom(n))
  BY <1>1 DEF Halts
<1>5. QED
  BY <1>3, <1>4 DEF step

\* The variables after the loop of partition3 with the pivot p.
PartEnd(s, n, l, r, p, end) ==
  \E q \in [1 .. n -> Int], a \in 1 .. n, i \in 1 .. n, g \in 0 .. n :
    end = PartVars(q, a, i, g) /\ PartInv(s, n, l, r, p, q, a, i, g) /\ i > g

(* The loop of partition3 ends with its invariant, wherever the pivot was. *)
LEMMA PartitionRight ==
  ASSUME NEW n \in Nat, NEW s \in [1 .. n -> Int], NEW l \in 1 .. n, NEW r \in 1 .. n, l < r,
         NEW p \in l .. r
  PROVE  PartEnd(s, n, l, r, s[p], Partition(s, l, r, p))
<1> DEFINE pivot == s[p]
           step == PartitionStep(s, pivot)
           S == PartState(n)
           I == {x \in S : PartInv(s, n, l, r, pivot, x.seq, x.lt, x.i, x.gt)}
           t == Swapped(s, p, r)
           x0 == PartVars(t, l, l, r - 1)
           end == While(step, x0)
<1>0. p \in 1 .. n /\ pivot \in Int /\ p \in l .. r /\ r \in l .. r /\ l \in Int /\ r \in Int
  OBVIOUS
<1>1. Partition(s, l, r, p) = end
  BY DEF Partition, PartVars
<1> HIDE DEF pivot
<1>2. /\ step \in [S -> S] /\ Halts(S, step, PartRoom(n)) /\ PartRoom(n) \in [S -> Nat]
  BY <1>0, PartHalts, PartRoomIs
<1>3. ASSUME NEW q \in [1 .. n -> Int], NEW a \in 1 .. n + 1, NEW i \in 1 .. n + 1, NEW g \in 0 .. n,
             a <= i
      PROVE  PartVars(q, a, i, g) \in I <=> PartInv(s, n, l, r, pivot, q, a, i, g)
  <2> DEFINE x == PartVars(q, a, i, g)
  <2>1. x \in S /\ x.seq = q /\ x.lt = a /\ x.i = i /\ x.gt = g
    BY <1>3, PartVarsIn DEF PartVars
  <2> HIDE DEF x, S
  <2>2. x \in I <=> PartInv(s, n, l, r, pivot, q, a, i, g)
    BY <2>1, Zenon
  <2>3. QED
    BY <2>2 DEF x
<1>4. ASSUME NEW x \in I
      PROVE  \E q \in [1 .. n -> Int], a \in 1 .. n + 1, i \in 1 .. n + 1, g \in 0 .. n :
               x = PartVars(q, a, i, g) /\ a <= i /\ PartInv(s, n, l, r, pivot, q, a, i, g)
  <2>1. PICK q \in [1 .. n -> Int], a \in 1 .. n + 1, i \in 1 .. n + 1, g \in 0 .. n :
          x = PartVars(q, a, i, g) /\ a <= i
    BY PartStateIs
  <2> HIDE DEF I
  <2>2. PartInv(s, n, l, r, pivot, q, a, i, g)
    BY <1>3, <2>1
  <2>3. QED
    BY <2>1, <2>2
<1>5. ASSUME NEW x \in I  PROVE step[x] \in I
  <2>0. step[x] \in S
    BY <1>2
  <2>1. PICK q \in [1 .. n -> Int], a \in 1 .. n + 1, i \in 1 .. n + 1, g \in 0 .. n :
          x = PartVars(q, a, i, g) /\ a <= i /\ PartInv(s, n, l, r, pivot, q, a, i, g)
    BY <1>4
  <2>2. \/ step[x] = x
        \/ i <= g /\ q[i] < pivot /\ step[x] = PartVars(Swapped(q, i, a), a + 1, i + 1, g)
        \/ i <= g /\ q[i] > pivot /\ step[x] = PartVars(Swapped(q, i, g), a, i, g - 1)
        \/ i <= g /\ q[i] = pivot /\ step[x] = PartVars(q, a, i + 1, g)
    <3>1. PartStepTo(step[PartVars(q, a, i, g)], pivot, q, a, i, g)
      BY <1>0, <2>1, PartStepIs
    <3> HIDE DEF step
    <3>2. PartStepTo(step[x], pivot, q, a, i, g)
      BY <2>1, <3>1, Zenon
    <3>3. QED
      BY <2>1, <3>2, Zenon DEF PartStepTo
  <2> HIDE DEF step
  <2>3. ASSUME NEW u, NEW b, NEW k, NEW h, step[x] = PartVars(u, b, k, h),
               PartInv(s, n, l, r, pivot, u, b, k, h)
        PROVE  step[x] \in I
    <3>1. /\ step[x].seq = u /\ step[x].lt = b /\ step[x].i = k /\ step[x].gt = h
      BY <2>3 DEF PartVars
    <3>2. PartInv(s, n, l, r, pivot, step[x].seq, step[x].lt, step[x].i, step[x].gt)
      BY <2>3, <3>1, Zenon
    <3>3. QED
      BY <2>0, <3>2
  <2>4. CASE step[x] = x
    BY <2>4
  <2>4a. a \in Int /\ i \in Int /\ g \in Int
    OBVIOUS
  <2> HIDE DEF I
  <2>5. CASE i <= g /\ q[i] < pivot /\ step[x] = PartVars(Swapped(q, i, a), a + 1, i + 1, g)
    <3>1. PartInv(s, n, l, r, pivot, Swapped(q, i, a), a + 1, i + 1, g)
      BY <1>0, <2>1, <2>5, <2>4a, PartLess
    <3>2. QED
      BY <2>3, <2>5, <3>1
  <2>6. CASE i <= g /\ q[i] > pivot /\ step[x] = PartVars(Swapped(q, i, g), a, i, g - 1)
    <3>1. PartInv(s, n, l, r, pivot, Swapped(q, i, g), a, i, g - 1)
      BY <1>0, <2>1, <2>6, <2>4a, PartMore
    <3>2. QED
      BY <2>3, <2>6, <3>1
  <2>7. CASE i <= g /\ q[i] = pivot /\ step[x] = PartVars(q, a, i + 1, g)
    <3>1. PartInv(s, n, l, r, pivot, q, a, i + 1, g)
      BY <1>0, <2>1, <2>7, <2>4a, PartSame
    <3>2. QED
      BY <2>3, <2>7, <3>1
  <2>8. QED
    BY <2>2, <2>4, <2>5, <2>6, <2>7
<1>6. t \in [1 .. n -> Int] /\ Shuffled(s, t, n, l, r) /\ t[r] = pivot
  <2>1. Exchanged(s, t, n, l, r, p, r)
    BY <1>0, ShuffledSwap
  <2> HIDE DEF t
  <2>2. QED
    BY <2>1 DEF Exchanged, pivot
<1>7. x0 \in I
  <2>1. l \in 1 .. n + 1 /\ r - 1 \in 0 .. n /\ l <= l /\ l <= (r - 1) + 1 /\ r - 1 <= r - 1
    OBVIOUS
  <2> HIDE DEF t
  <2>2. PartInv(s, n, l, r, pivot, t, l, l, r - 1)
    BY <1>6, <2>1 DEF PartInv
  <2> HIDE DEF I
  <2>3. QED
    BY <1>3, <1>6, <2>1, <2>2
<1>8. end \in I /\ step[end] = end
  <2> HIDE DEF step, x0
  <2> DEFINE m == PartRoom(n)
  <2>1. I \in SUBSET S /\ \A y \in I : step[y] \in I
    BY <1>5
  <2>2. step \in [S -> S] /\ m \in [S -> Nat] /\ Halts(S, step, m)
    BY <1>2
  <2> HIDE DEF I, S, m
  <2>3. QED
    BY <1>7, <2>1, <2>2, WhileEnds, Zenon
<1> HIDE DEF end, x0, I
<1>9. PICK q \in [1 .. n -> Int], a \in 1 .. n + 1, i \in 1 .. n + 1, g \in 0 .. n :
        end = PartVars(q, a, i, g) /\ a <= i /\ PartInv(s, n, l, r, pivot, q, a, i, g)
  BY <1>4, <1>8
<1>10. i > g
  <2>1. \/ i > g
        \/ PartVars(q, a, i, g) = PartVars(Swapped(q, i, a), a + 1, i + 1, g)
        \/ PartVars(q, a, i, g) = PartVars(Swapped(q, i, g), a, i, g - 1)
        \/ PartVars(q, a, i, g) = PartVars(q, a, i + 1, g)
    <3>1. step[PartVars(q, a, i, g)] = PartVars(q, a, i, g)
      BY <1>8, <1>9
    <3>2. PartStepTo(step[PartVars(q, a, i, g)], pivot, q, a, i, g)
      BY <1>0, <1>9, PartStepIs
    <3> HIDE DEF step
    <3>3. PartStepTo(PartVars(q, a, i, g), pivot, q, a, i, g)
      BY <3>1, <3>2, Zenon
    <3>4. QED
      BY <3>3, Zenon DEF PartStepTo
  <2>2. ASSUME NEW u, NEW b, NEW k, NEW h, PartVars(q, a, i, g) = PartVars(u, b, k, h)
        PROVE  i = k /\ g = h
    BY <2>2, Zenon DEF PartVars
  <2> HIDE DEF PartVars
  <2>3. i > g \/ i = i + 1 \/ g = g - 1
    BY <2>1, <2>2
  <2>4. QED
    BY <2>3
<1>11. i <= g + 1 /\ g <= r - 1 /\ a <= i
  BY <1>9 DEF PartInv
<1>12. i \in 1 .. n /\ a \in 1 .. n
  BY <1>11
<1>13. PartEnd(s, n, l, r, pivot, end)
  BY <1>9, <1>10, <1>12, Zenon DEF PartEnd
<1>14. QED
  BY <1>1, <1>13 DEF pivot

\* What partition3 promises: below a smaller, above i greater than the pivot p.
Parted(s, n, l, r, p, q, a, i) ==
  /\ l <= a /\ a <= i /\ i <= r /\ Shuffled(s, q, n, l, r)
  /\ \A k \in l .. a - 1 : q[k] < p
  /\ \A k \in a .. i : q[k] = p
  /\ \A k \in i + 1 .. r : q[k] > p

\* partition3 returned and left y, for some pivot.
IsParted(s, n, l, r, y) ==
  \E q \in [1 .. n -> Int], a \in 1 .. n, i \in 1 .. n, g \in 0 .. n, p \in Int :
    y = PartVars(q, a, i, g) /\ Parted(s, n, l, r, p, q, a, i)

(* The last swap of partition3 puts the pivot behind its equals. *)
LEMMA PivotToItsPlace ==
  ASSUME NEW n \in Nat, NEW s \in [1 .. n -> Int], NEW l \in 1 .. n, NEW r \in 1 .. n, l < r,
         NEW p \in Int, NEW q \in [1 .. n -> Int], NEW a \in 1 .. n, NEW i \in 1 .. n,
         NEW g \in 0 .. n, PartInv(s, n, l, r, p, q, a, i, g), i > g
  PROVE  Parted(s, n, l, r, p, Swapped(q, i, r), a, i)
<1> DEFINE t == Swapped(q, i, r)
<1>1. /\ l <= a /\ a <= i /\ i <= g + 1 /\ g <= r - 1
      /\ Shuffled(s, q, n, l, r) /\ q[r] = p
      /\ \A k \in l .. a - 1 : q[k] < p
      /\ \A k \in a .. i - 1 : q[k] = p
      /\ \A k \in g + 1 .. r - 1 : q[k] > p
  BY DEF PartInv
<1>2. i \in l .. r /\ r \in l .. r /\ i = g + 1 /\ l \in Int /\ r \in Int
  BY <1>1
<1>3. Exchanged(q, t, n, l, r, i, r)
  BY <1>2, ShuffledSwap
<1> HIDE DEF t
<1>4. /\ t[i] = q[r] /\ t[r] = q[i] /\ Shuffled(q, t, n, l, r)
      /\ \A k \in 1 .. n : k # i /\ k # r => t[k] = q[k]
  BY <1>3 DEF Exchanged
<1>5. Shuffled(s, t, n, l, r)
  BY <1>1, <1>4, ShuffledThen
<1>6. ASSUME NEW k \in l .. a - 1  PROVE t[k] < p
  <2>1. k \in 1 .. n /\ k # i /\ k # r
    BY SMTT(30), <1>1, <1>2
  <2>2. QED
    BY <1>1, <1>4, <2>1
<1>7. ASSUME NEW k \in a .. i  PROVE t[k] = p
  <2>1. CASE k = i
    BY <1>1, <1>4, <2>1
  <2>2. CASE k # i
    <3>1. k \in 1 .. n /\ k # r /\ k \in a .. i - 1
      BY SMTT(30), <1>1, <1>2, <2>2
    <3>2. QED
      BY <1>1, <1>4, <2>2, <3>1
  <2>3. QED
    BY <2>1, <2>2
<1>8. ASSUME NEW k \in i + 1 .. r  PROVE t[k] > p
  <2>1. CASE k = r
    <3>1. i \in g + 1 .. r - 1
      BY <1>2, <2>1
    <3>2. QED
      BY <1>1, <1>4, <2>1, <3>1
  <2>2. CASE k # r
    <3>1. k \in 1 .. n /\ k # i /\ k \in g + 1 .. r - 1
      BY <1>1, <1>2, <2>2
    <3>2. QED
      BY <1>1, <1>4, <2>2, <3>1
  <2>3. QED
    BY <2>1, <2>2
<1>9. i <= r
  BY <1>2
<1>10. QED
  BY <1>1, <1>5, <1>6, <1>7, <1>8, <1>9 DEF Parted, t

(* partition3 parts. *)
LEMMA Partition3Right ==
  ASSUME NEW n \in Nat, NEW s \in [1 .. n -> Int], NEW l \in 1 .. n, NEW r \in 1 .. n, l < r
  PROVE  Partition3(s, l, r) # {} /\ \A y \in Partition3(s, l, r) : IsParted(s, n, l, r, y)
<1>1. Partition3(s, l, r) # {}
  <2>1. l \in l .. r
    OBVIOUS
  <2>2. QED
    BY <2>1 DEF Partition3
<1>2. ASSUME NEW y \in Partition3(s, l, r)  PROVE IsParted(s, n, l, r, y)
  <2>1. PICK p \in l .. r : y = [Partition(s, l, r, p) EXCEPT
                                   !.seq = Swapped(Partition(s, l, r, p).seq, Partition(s, l, r, p).i, r)]
    BY Zenon DEF Partition3
  <2>2. PICK q \in [1 .. n -> Int], a \in 1 .. n, i \in 1 .. n, g \in 0 .. n :
          /\ Partition(s, l, r, p) = PartVars(q, a, i, g)
          /\ PartInv(s, n, l, r, s[p], q, a, i, g) /\ i > g
    <3>1. PartEnd(s, n, l, r, s[p], Partition(s, l, r, p))
      BY PartitionRight
    <3>2. QED
      BY <3>1, Zenon DEF PartEnd
  <2>3. PartVars(q, a, i, g).seq = q /\ PartVars(q, a, i, g).i = i
    BY DEF PartVars
  <2>4. y = [PartVars(q, a, i, g) EXCEPT !.seq = Swapped(q, i, r)]
    BY <2>1, <2>2, <2>3, Zenon
  <2> DEFINE t == Swapped(q, i, r)
  <2>5. s[p] \in Int
    OBVIOUS
  <2>6. Parted(s, n, l, r, s[p], t, a, i)
    BY <2>2, <2>5, PivotToItsPlace
  <2>7. t \in [1 .. n -> Int]
    BY DEF Swapped
  <2> HIDE DEF t
  <2>8. [PartVars(q, a, i, g) EXCEPT !.seq = t] = PartVars(t, a, i, g)
    BY SMTT(30) DEF PartVars
  <2>9. y = PartVars(t, a, i, g)
    BY <2>4, <2>8 DEF t
  <2>10. QED
    BY <2>5, <2>6, <2>7, <2>9 DEF IsParted
<1>3. QED
  BY <1>1, <1>2

\* Outside l .. r nothing changes, inside no new element comes up.
Keeps(s, t, n, l, r) ==
  /\ \A i \in 1 .. n : i \notin l .. r => t[i] = s[i]
  /\ \A i \in 1 .. n : i \in l .. r => \E j \in 1 .. n : j \in l .. r /\ t[i] = s[j]

(* A rearrangement keeps what is outside its range. *)
LEMMA ShuffledStays ==
  ASSUME NEW n \in Nat, NEW s, NEW t, NEW l, NEW r, Shuffled(s, t, n, l, r)
  PROVE  Keeps(s, t, n, l, r)
BY ShuffledKeeps DEF Keeps

\* t is ordered between l and r.
OrderedIn(t, l, r) == \A i, j \in l .. r : i < j => t[i] <= t[j]

(* When both sides of the pivots are sorted, the whole is. *)
LEMMA QuickJoins ==
  ASSUME NEW n \in Nat, NEW s, NEW q \in [1 .. n -> Int], NEW t \in [1 .. n -> Int],
         NEW u \in [1 .. n -> Int], NEW l \in 1 .. n, NEW r \in 1 .. n,
         NEW a \in 1 .. n, NEW i \in 1 .. n, NEW p \in Int,
         Parted(s, n, l, r, p, q, a, i),
         Shuffled(q, t, n, l, a - 1), OrderedIn(t, l, a - 1),
         Shuffled(t, u, n, i + 1, r), OrderedIn(u, i + 1, r)
  PROVE  Shuffled(s, u, n, l, r) /\ OrderedIn(u, l, r)
<1>1. /\ l <= a /\ a <= i /\ i <= r /\ Shuffled(s, q, n, l, r)
      /\ \A k \in l .. a - 1 : q[k] < p
      /\ \A k \in a .. i : q[k] = p
      /\ \A k \in i + 1 .. r : q[k] > p
  BY DEF Parted
<1>2. Shuffled(s, u, n, l, r)
  <2>1. \A k \in l .. a - 1 : k \in l .. r
    BY <1>1
  <2>2. Shuffled(s, t, n, l, r)
    BY <1>1, <2>1, ShuffledThen
  <2>3. \A k \in i + 1 .. r : k \in l .. r
    BY <1>1
  <2>4. QED
    BY <2>2, <2>3, ShuffledThen
<1>3. /\ \A k \in 1 .. n : k \notin l .. a - 1 => t[k] = q[k]
      /\ \A k \in 1 .. n : k \in l .. a - 1 => \E j \in 1 .. n : j \in l .. a - 1 /\ t[k] = q[j]
  <2>1. Keeps(q, t, n, l, a - 1)
    BY ShuffledStays
  <2>2. QED
    BY <2>1, Zenon DEF Keeps
<1>4. /\ \A k \in 1 .. n : k \notin i + 1 .. r => u[k] = t[k]
      /\ \A k \in 1 .. n : k \in i + 1 .. r => \E j \in 1 .. n : j \in i + 1 .. r /\ u[k] = t[j]
  <2>1. Keeps(t, u, n, i + 1, r)
    BY ShuffledStays
  <2>2. QED
    BY <2>1, Zenon DEF Keeps
<1>5. ASSUME NEW k \in l .. a - 1  PROVE u[k] = t[k] /\ u[k] < p
  <2>1. k \in 1 .. n /\ k \notin i + 1 .. r
    BY <1>1
  <2>2. u[k] = t[k]
    BY <1>4, <2>1
  <2>3. PICK j \in l .. a - 1 : t[k] = q[j]
    BY <1>3, <2>1
  <2>4. QED
    BY <1>1, <2>2, <2>3
<1>6. ASSUME NEW k \in a .. i  PROVE u[k] = p
  <2>1. k \in 1 .. n /\ k \notin i + 1 .. r /\ k \notin l .. a - 1
    BY <1>1
  <2>2. QED
    BY <1>1, <1>3, <1>4, <2>1
<1>7. ASSUME NEW k \in i + 1 .. r  PROVE u[k] > p
  <2>1. k \in 1 .. n
    BY <1>1
  <2>2. PICK j \in 1 .. n : j \in i + 1 .. r /\ u[k] = t[j]
    BY <1>4, <2>1
  <2>3. j \notin l .. a - 1
    BY <1>1, <2>2
  <2>4. u[k] = q[j]
    BY <1>3, <2>2, <2>3
  <2>5. QED
    BY <1>1, <2>2, <2>4
<1>8. ASSUME NEW k \in l .. r, NEW j \in l .. r, k < j  PROVE u[k] <= u[j]
  <2>0. /\ u[k] \in Int /\ u[j] \in Int
        /\ \A v, w \in Int : (v < p /\ w = p) \/ (v < p /\ w > p) \/ (v = p /\ w > p) => v <= w
    BY SMTT(30), <1>1
  <2>1. CASE k \in l .. a - 1 /\ j \in l .. a - 1
    <3>1. t[k] <= t[j]
      BY <1>8, <2>1 DEF OrderedIn
    <3>2. QED
      BY <1>5, <2>1, <3>1
  <2>2. CASE k \in i + 1 .. r /\ j \in i + 1 .. r
    BY <1>8, <2>2 DEF OrderedIn
  <2>3. CASE k \in l .. a - 1 /\ j \in a .. i
    <3>1. u[k] < p /\ u[j] = p
      BY <1>5, <1>6, <2>3
    <3>2. QED
      BY <2>0, <3>1, Zenon
  <2>4. CASE k \in l .. a - 1 /\ j \in i + 1 .. r
    <3>1. u[k] < p /\ u[j] > p
      BY <1>5, <1>7, <2>4
    <3>2. QED
      BY <2>0, <3>1, Zenon
  <2>5. CASE k \in a .. i /\ j \in a .. i
    <3>1. u[k] = p /\ u[j] = p
      BY <1>6, <2>5
    <3>2. QED
      BY <3>1
  <2>6. CASE k \in a .. i /\ j \in i + 1 .. r
    <3>1. u[k] = p /\ u[j] > p
      BY <1>6, <1>7, <2>6
    <3>2. QED
      BY <2>0, <3>1, Zenon
  <2>7. /\ k \in l .. a - 1 \/ k \in a .. i \/ k \in i + 1 .. r
        /\ j \in l .. a - 1 \/ j \in a .. i \/ j \in i + 1 .. r
    BY SMTT(30), <1>1
  <2>8. /\ k \in i + 1 .. r => j \in i + 1 .. r
        /\ k \in a .. i => j \notin l .. a - 1
    BY SMTT(30), <1>1, <1>8
  <2>9. QED
    BY <2>1, <2>2, <2>3, <2>4, <2>5, <2>6, <2>7, <2>8
<1>9. QED
  BY <1>2, <1>8 DEF OrderedIn

-----------------------------------------------------------------------------
(* The recursion of quickSort. *)

\* The arguments of quickSort.
QuickState(n) == [seq : [1 .. n -> Int], l : 1 .. n + 1, r : 0 .. n]

\* The arguments of quickSort as a record.
QuickVars(q, l, r) == [seq |-> q, l |-> l, r |-> r]

\* The body of quickSort, its recursive calls answered by sort.
QuickBody(sort, x) ==
  IF x.l >= x.r THEN {x.seq}
  ELSE UNION {UNION {sort[[seq |-> t, l |-> part.i + 1, r |-> x.r]] :
                       t \in sort[[seq |-> part.seq, l |-> x.l, r |-> part.lt - 1]]} :
                part \in Partition3(x.seq, x.l, x.r)}

(* Every argument of quickSort has its three parts. *)
LEMMA QuickStateIs ==
  ASSUME NEW n \in Nat, NEW x \in QuickState(n)
  PROVE  \E q \in [1 .. n -> Int], l \in 1 .. n + 1, r \in 0 .. n : x = QuickVars(q, l, r)
<1>1. x.seq \in [1 .. n -> Int] /\ x.l \in 1 .. n + 1 /\ x.r \in 0 .. n
      /\ x = QuickVars(x.seq, x.l, x.r)
  BY DEF QuickState, QuickVars
<1>2. QED
  BY <1>1

(* Arguments in their ranges are arguments of quickSort. *)
LEMMA QuickVarsIn ==
  ASSUME NEW n \in Nat, NEW q \in [1 .. n -> Int], NEW l \in 1 .. n + 1, NEW r \in 0 .. n
  PROVE  QuickVars(q, l, r) \in QuickState(n)
BY DEF QuickVars, QuickState

\* The measure of quickSort: the size of the range.
QuickRoom(n) == [x \in QuickState(n) |-> IF x.l <= x.r THEN (x.r - x.l) + 1 ELSE 0]

(* The measure is a function to the naturals. *)
LEMMA QuickRoomIs ==
  ASSUME NEW n \in Nat
  PROVE  QuickRoom(n) \in [QuickState(n) -> Nat]
<1>1. ASSUME NEW x \in QuickState(n)
      PROVE  (IF x.l <= x.r THEN (x.r - x.l) + 1 ELSE 0) \in Nat
  <2>1. PICK l \in 1 .. n + 1, r \in 0 .. n : x.l = l /\ x.r = r
    BY DEF QuickState
  <2>2. (IF l <= r THEN (r - l) + 1 ELSE 0) \in Nat
    OBVIOUS
  <2>3. QED
    BY <2>1, <2>2, Zenon
<1>2. QED
  BY <1>1 DEF QuickRoom

(* The measure at given arguments. *)
LEMMA QuickRoomAt ==
  ASSUME NEW n \in Nat, NEW q \in [1 .. n -> Int], NEW l \in 1 .. n + 1, NEW r \in 0 .. n
  PROVE  QuickRoom(n)[QuickVars(q, l, r)] = IF l <= r THEN (r - l) + 1 ELSE 0
<1> DEFINE x == QuickVars(q, l, r)
<1>1. x \in QuickState(n)
  BY QuickVarsIn
<1>2. x.l = l /\ x.r = r
  BY DEF QuickVars
<1> HIDE DEF x
<1>3. QuickRoom(n)[x] = IF x.l <= x.r THEN (x.r - x.l) + 1 ELSE 0
  BY <1>1, Zenon DEF QuickRoom
<1>4. QuickRoom(n)[x] = IF l <= r THEN (r - l) + 1 ELSE 0
  BY <1>2, <1>3, Zenon
<1>5. QED
  BY <1>4 DEF x

\* u comes from sorting both sides of the pivots of a partition.
QuickHas(sort, q, l, r, u) ==
  \E part \in Partition3(q, l, r) :
    \E t \in sort[QuickVars(part.seq, l, part.lt - 1)] : u \in sort[QuickVars(t, part.i + 1, r)]

(* The body in these terms. *)
LEMMA QuickBodyIs ==
  ASSUME NEW n \in Nat, NEW q \in [1 .. n -> Int], NEW l \in 1 .. n + 1, NEW r \in 0 .. n, NEW sort
  PROVE  /\ l >= r => QuickBody(sort, QuickVars(q, l, r)) = {q}
         /\ l < r => \A u : u \in QuickBody(sort, QuickVars(q, l, r)) <=> QuickHas(sort, q, l, r, u)
<1> DEFINE x == QuickVars(q, l, r)
<1>1. x.seq = q /\ x.l = l /\ x.r = r
  BY DEF QuickVars
<1> HIDE DEF x
<1>2. ASSUME l >= r  PROVE QuickBody(sort, x) = {q}
  BY <1>1, <1>2, Zenon DEF QuickBody
<1>3. ASSUME l < r, NEW u  PROVE u \in QuickBody(sort, x) <=> QuickHas(sort, q, l, r, u)
  <2>1. ~ (l >= r)
    BY <1>3
  <2> DEFINE H(part, t) == sort[[seq |-> t, l |-> part.i + 1, r |-> x.r]]
             T(part) == sort[[seq |-> part.seq, l |-> x.l, r |-> part.lt - 1]]
             G(part) == UNION {H(part, t) : t \in T(part)}
  <2>2. u \in QuickBody(sort, x) <=> u \in UNION {G(part) : part \in Partition3(x.seq, x.l, x.r)}
    BY <1>1, <2>1, Zenon DEF QuickBody
  <2>3. \A part : u \in G(part) <=> \E t \in T(part) : u \in H(part, t)
    <3> HIDE DEF H, T
    <3>1. QED
      BY Zenon
  <2>4. u \in QuickBody(sort, x) <=>
          \E part \in Partition3(x.seq, x.l, x.r) : \E t \in T(part) : u \in H(part, t)
    <3> HIDE DEF H, T, G
    <3>1. QED
      BY <2>2, <2>3, Zenon
  <2>5. QED
    BY <1>1, <2>4, Zenon DEF QuickVars, QuickHas
<1>4. QED
  BY <1>2, <1>3 DEF x

\* y is a call on a smaller range than x.
QuickSmaller(n, x, y) == y \in QuickState(n) /\ QuickRoom(n)[y] < QuickRoom(n)[x]

(* Both recursive calls sort less. *)
LEMMA QuickDescends ==
  ASSUME NEW n \in Nat, NEW q \in [1 .. n -> Int], NEW l \in 1 .. n, NEW r \in 1 .. n, l < r,
         NEW t \in [1 .. n -> Int], NEW a \in 1 .. n, NEW i \in 1 .. n, l <= a, a <= i, i <= r
  PROVE  /\ QuickSmaller(n, QuickVars(q, l, r), QuickVars(t, l, a - 1))
         /\ QuickSmaller(n, QuickVars(q, l, r), QuickVars(t, i + 1, r))
<1>1. l \in 1 .. n + 1 /\ r \in 0 .. n /\ a - 1 \in 0 .. n /\ i + 1 \in 1 .. n + 1
  OBVIOUS
<1>2. QuickRoom(n)[QuickVars(q, l, r)] = (r - l) + 1
  <2>1. QuickRoom(n)[QuickVars(q, l, r)] = IF l <= r THEN (r - l) + 1 ELSE 0
    BY <1>1, QuickRoomAt
  <2>2. l <= r
    OBVIOUS
  <2>3. QED
    BY <2>1, <2>2, Zenon
<1>3. QuickSmaller(n, QuickVars(q, l, r), QuickVars(t, l, a - 1))
  <2> DEFINE b == a - 1
  <2>1. b \in 0 .. n /\ b < r /\ (IF l <= b THEN (b - l) + 1 ELSE 0) < (r - l) + 1
    OBVIOUS
  <2> HIDE DEF b
  <2>2. QuickRoom(n)[QuickVars(t, l, b)] = IF l <= b THEN (b - l) + 1 ELSE 0
    BY <1>1, <2>1, QuickRoomAt
  <2>3. QuickVars(t, l, b) \in QuickState(n)
    BY <1>1, <2>1, QuickVarsIn
  <2>4. QuickSmaller(n, QuickVars(q, l, r), QuickVars(t, l, b))
    BY <1>2, <2>1, <2>2, <2>3, Zenon DEF QuickSmaller
  <2>5. QED
    BY <2>4 DEF b
<1>4. QuickSmaller(n, QuickVars(q, l, r), QuickVars(t, i + 1, r))
  <2> DEFINE b == i + 1
  <2>1. b \in 1 .. n + 1 /\ l < b /\ (IF b <= r THEN (r - b) + 1 ELSE 0) < (r - l) + 1
    OBVIOUS
  <2> HIDE DEF b
  <2>2. QuickRoom(n)[QuickVars(t, b, r)] = IF b <= r THEN (r - b) + 1 ELSE 0
    BY <1>1, <2>1, QuickRoomAt
  <2>3. QuickVars(t, b, r) \in QuickState(n)
    BY <1>1, <2>1, QuickVarsIn
  <2>4. QuickSmaller(n, QuickVars(q, l, r), QuickVars(t, b, r))
    BY <1>2, <2>1, <2>2, <2>3, Zenon DEF QuickSmaller
  <2>5. QED
    BY <2>4 DEF b
<1>5. QED
  BY <1>3, <1>4

\* Both recursive calls are on smaller ranges.
QuickCalls(n, q, l, r, part) ==
  /\ QuickSmaller(n, QuickVars(q, l, r), QuickVars(part.seq, l, part.lt - 1))
  /\ \A t \in [1 .. n -> Int] : QuickSmaller(n, QuickVars(q, l, r), QuickVars(t, part.i + 1, r))

(* The two calls behind any partition are on smaller ranges. *)
LEMMA QuickBranches ==
  ASSUME NEW n \in Nat, NEW q \in [1 .. n -> Int], NEW l \in 1 .. n, NEW r \in 1 .. n, l < r,
         NEW part \in Partition3(q, l, r)
  PROVE  QuickCalls(n, q, l, r, part)
<1>1. IsParted(q, n, l, r, part)
  BY Partition3Right
<1>2. PICK t0 \in [1 .. n -> Int], a \in 1 .. n, i \in 1 .. n, g \in 0 .. n, p \in Int :
        part = PartVars(t0, a, i, g) /\ Parted(q, n, l, r, p, t0, a, i)
  BY <1>1, Zenon DEF IsParted
<1>3. part.seq = t0 /\ part.lt = a /\ part.i = i
  BY <1>2 DEF PartVars
<1>4. l <= a /\ a <= i /\ i <= r
  BY <1>2 DEF Parted
<1>5. QuickSmaller(n, QuickVars(q, l, r), QuickVars(t0, l, a - 1))
  BY <1>4, QuickDescends
<1>6. \A t \in [1 .. n -> Int] : QuickSmaller(n, QuickVars(q, l, r), QuickVars(t, i + 1, r))
  BY <1>4, QuickDescends
<1>7. QED
  BY <1>3, <1>5, <1>6, Zenon DEF QuickCalls

(* The body at x depends on the values at smaller arguments only. *)
LEMMA QuickWithin ==
  ASSUME NEW n \in Nat, NEW f \in [QuickState(n) -> SUBSET [1 .. n -> Int]], NEW g,
         NEW x \in QuickState(n), \A y \in QuickState(n) : QuickSmaller(n, x, y) => f[y] = g[y]
  PROVE  QuickBody(f, x) \subseteq QuickBody(g, x)
<1> SUFFICES ASSUME NEW u \in QuickBody(f, x)  PROVE u \in QuickBody(g, x)
  OBVIOUS
<1>1. PICK q \in [1 .. n -> Int], l \in 1 .. n + 1, r \in 0 .. n : x = QuickVars(q, l, r)
  BY QuickStateIs
<1>2. CASE l >= r
  BY <1>1, <1>2, QuickBodyIs
<1>3. CASE l < r
  <2>0. l \in 1 .. n /\ r \in 1 .. n
    BY <1>3
  <2>1. QuickHas(f, q, l, r, u)
    BY <1>1, <1>3, QuickBodyIs
  <2>2. PICK part \in Partition3(q, l, r) :
          \E t \in f[QuickVars(part.seq, l, part.lt - 1)] : u \in f[QuickVars(t, part.i + 1, r)]
    BY <2>1, Zenon DEF QuickHas
  <2>3. PICK t \in f[QuickVars(part.seq, l, part.lt - 1)] : u \in f[QuickVars(t, part.i + 1, r)]
    BY <2>2, Zenon
  <2>4. QuickCalls(n, q, l, r, part)
    BY <1>3, <2>0, QuickBranches
  <2> DEFINE y == QuickVars(part.seq, l, part.lt - 1)
             z == QuickVars(t, part.i + 1, r)
  <2> HIDE DEF y, z
  <2>5. QuickSmaller(n, x, y)
    BY <1>1, <2>4, Zenon DEF QuickCalls, y
  <2>6. f[y] = g[y] /\ f[y] \in SUBSET [1 .. n -> Int]
    BY <2>5 DEF QuickSmaller
  <2>7. t \in f[y] /\ u \in f[z]
    BY <2>3 DEF y, z
  <2>8. t \in [1 .. n -> Int]
    BY <2>6, <2>7, Zenon
  <2>9. QuickSmaller(n, x, z)
    BY <1>1, <2>4, <2>8, Zenon DEF QuickCalls, z
  <2>10. f[z] = g[z]
    BY <2>9 DEF QuickSmaller
  <2>11. t \in g[y] /\ u \in g[z]
    BY <2>6, <2>7, <2>10, Zenon
  <2>12. QuickHas(g, q, l, r, u)
    BY <2>11, Zenon DEF QuickHas, y, z
  <2>13. QED
    BY <1>1, <1>3, <2>12, QuickBodyIs
<1>4. QED
  BY <1>2, <1>3

(* What the body returns are arrays. *)
LEMMA QuickBodyType ==
  ASSUME NEW n \in Nat, NEW f, NEW x \in QuickState(n),
         \A y \in QuickState(n) : QuickSmaller(n, x, y) => f[y] \in SUBSET [1 .. n -> Int]
  PROVE  QuickBody(f, x) \in SUBSET [1 .. n -> Int]
<1> SUFFICES ASSUME NEW u \in QuickBody(f, x)  PROVE u \in [1 .. n -> Int]
  OBVIOUS
<1>1. PICK q \in [1 .. n -> Int], l \in 1 .. n + 1, r \in 0 .. n : x = QuickVars(q, l, r)
  BY QuickStateIs
<1>2. CASE l >= r
  BY <1>1, <1>2, QuickBodyIs
<1>3. CASE l < r
  <2>0. l \in 1 .. n /\ r \in 1 .. n
    BY <1>3
  <2>1. QuickHas(f, q, l, r, u)
    BY <1>1, <1>3, QuickBodyIs
  <2>2. PICK part \in Partition3(q, l, r) :
          \E t \in f[QuickVars(part.seq, l, part.lt - 1)] : u \in f[QuickVars(t, part.i + 1, r)]
    BY <2>1, Zenon DEF QuickHas
  <2>3. PICK t \in f[QuickVars(part.seq, l, part.lt - 1)] : u \in f[QuickVars(t, part.i + 1, r)]
    BY <2>2, Zenon
  <2>4. QuickCalls(n, q, l, r, part)
    BY <1>3, <2>0, QuickBranches
  <2> DEFINE y == QuickVars(part.seq, l, part.lt - 1)
             z == QuickVars(t, part.i + 1, r)
  <2> HIDE DEF y, z
  <2>5. QuickSmaller(n, x, y) /\ y \in QuickState(n)
    BY <1>1, <2>4, Zenon DEF QuickCalls, QuickSmaller, y
  <2>6. t \in f[y] /\ u \in f[z]
    BY <2>3 DEF y, z
  <2>7. t \in [1 .. n -> Int]
    BY <2>5, <2>6
  <2>8. QuickSmaller(n, x, z) /\ z \in QuickState(n)
    BY <1>1, <2>4, <2>7, Zenon DEF QuickCalls, QuickSmaller, z
  <2>9. QED
    BY <2>6, <2>8
<1>4. QED
  BY <1>2, <1>3

\* The recursion of quickSort is that of sort.
QuickSortBy(sort, n) ==
  /\ sort \in [QuickState(n) -> SUBSET [1 .. n -> Int]]
  /\ \A x \in QuickState(n) : sort[x] = QuickBody(sort, x)

(* quickSort is defined by its recursion. *)
LEMMA QuickSortIs ==
  ASSUME NEW n \in Nat, NEW s \in [1 .. n -> Int]
  PROVE  \E sort : QuickSortBy(sort, n) /\ QuickSort(s) = sort[QuickVars(s, 1, n)]
<1> DEFINE S == QuickState(n)
           V == SUBSET [1 .. n -> Int]
           m == QuickRoom(n)
           F == [f \in [S -> V] |-> [x \in S |-> QuickBody(f, x)]]
           D == [seq : Arrays(s), l : 1 .. Len(s) + 1, r : 0 .. Len(s)]
           E(f) == f = [x \in D |->
                          IF x.l >= x.r THEN {x.seq}
                          ELSE UNION {UNION {f[[seq |-> t, l |-> part.i + 1, r |-> x.r]] :
                                               t \in f[[seq |-> part.seq, l |-> x.l, r |-> part.lt - 1]]} :
                                        part \in Partition3(x.seq, x.l, x.r)}]
           sort == CHOOSE g : E(g)
<1>1. D = S /\ Len(s) = n
  BY ArrayIs DEF QuickState
<1>2. F \in [[S -> V] -> [S -> V]]
  <2>1. \A f \in [S -> V] : [x \in S |-> QuickBody(f, x)] \in [S -> V]
    <3> HIDE DEF S
    <3>1. SUFFICES ASSUME NEW f \in [S -> V]  PROVE \A x \in S : QuickBody(f, x) \in V
      BY Zenon
    <3>2. ASSUME NEW x \in S  PROVE QuickBody(f, x) \in V
      <4>1. \A y \in S : f[y] \in V
        OBVIOUS
      <4>2. QED
        BY <4>1, QuickBodyType DEF S
    <3>3. QED
      BY <3>2
  <2> HIDE DEF S, V
  <2>2. QED
    BY <2>1, Zenon
<1>3. Descends(S, V, F, m)
  <2> SUFFICES ASSUME NEW f \in [S -> V], NEW g \in [S -> V], NEW x \in S, Agree(S, m, f, g, m[x])
               PROVE  F[f][x] = F[g][x]
    BY Zenon DEF Descends
  <2>1. \A y \in S : QuickSmaller(n, x, y) => f[y] = g[y] /\ g[y] = f[y]
    BY Zenon DEF Agree, QuickSmaller
  <2>2. QuickBody(f, x) \subseteq QuickBody(g, x)
    BY <2>1, QuickWithin
  <2>3. QuickBody(g, x) \subseteq QuickBody(f, x)
    BY <2>1, QuickWithin
  <2>4. F[f][x] = QuickBody(f, x) /\ F[g][x] = QuickBody(g, x)
    <3> HIDE DEF S, V
    <3>1. QED
      BY Zenon
  <2>5. QuickBody(f, x) = QuickBody(g, x)
    BY <2>2, <2>3, Zenon
  <2> HIDE DEF F
  <2>6. QED
    BY <2>4, <2>5, Zenon
<1>4. [S -> V] # {}
  <2>1. [x \in S |-> {}] \in [S -> V]
    OBVIOUS
  <2>2. QED
    BY <2>1
<1>5. PICK f0 \in [S -> V] : \A x \in S : f0[x] = F[f0][x]
  <2>1. m \in [S -> Nat]
    BY QuickRoomIs
  <2> HIDE DEF F, S, V, m
  <2>2. HasFixedPoint(S, V, F)
    BY <1>2, <1>3, <1>4, <2>1, FixedPoint
  <2>3. QED
    BY <2>2 DEF HasFixedPoint
<1>6. \A f : E(f) <=> f = [x \in S |-> QuickBody(f, x)]
  <2> HIDE DEF D, S
  <2>1. QED
    BY <1>1, Zenon DEF QuickBody
<1>7. E(f0)
  <2>1. \A x \in S : f0[x] = QuickBody(f0, x)
    <3> HIDE DEF S, V
    <3>1. QED
      BY <1>5, Zenon
  <2>2. f0 = [x \in S |-> QuickBody(f0, x)]
    <3> HIDE DEF S
    <3>1. f0 = [x \in S |-> f0[x]]
      OBVIOUS
    <3>2. QED
      BY <2>1, <3>1, Zenon
  <2> HIDE DEF E
  <2>3. QED
    BY <1>6, <2>2
<1>8. QuickSort(s) = sort[[seq |-> s, l |-> 1, r |-> Len(s)]]
  BY Zenon DEF QuickSort
<1>9. E(sort)
  <2> HIDE DEF E
  <2>1. QED
    BY <1>7
<1> HIDE DEF sort
<1>10. sort = [x \in S |-> QuickBody(sort, x)]
  <2> HIDE DEF E
  <2>1. QED
    BY <1>6, <1>9
<1>11. QuickSort(s) = sort[QuickVars(s, 1, n)]
  BY <1>1, <1>8, Zenon DEF QuickVars
<1>12. \A x \in S : sort[x] = QuickBody(sort, x)
  <2> HIDE DEF S
  <2>1. QED
    BY <1>10, Zenon
<1>13. \A x \in S : sort[x] \in V
  <2> DEFINE B == {k \in Nat : \E x \in S : m[x] = k /\ sort[x] \notin V}
  <2>0. m \in [S -> Nat]
    BY QuickRoomIs
  <2> HIDE DEF m, V, S
  <2>1. SUFFICES ASSUME NEW x \in S, sort[x] \notin V  PROVE FALSE
    OBVIOUS
  <2>2. m[x] \in B /\ B \subseteq Nat
    BY <2>0, <2>1
  <2>3. PICK k \in B : \A i \in B : k <= i
    <3> HIDE DEF B
    <3>1. QED
      BY <2>2, LeastElement
  <2>4. PICK z \in S : m[z] = k /\ sort[z] \notin V
    BY <2>3
  <2>5. ASSUME NEW y \in S, QuickSmaller(n, z, y)  PROVE sort[y] \in V
    <3>1. m[y] < m[z] /\ m[y] \in Nat /\ m[z] \in Nat
      BY <2>0, <2>5, Zenon DEF QuickSmaller, m
    <3>2. m[y] \notin B
      BY <2>3, <2>4, <3>1
    <3>3. QED
      BY <2>5, <3>1, <3>2
  <2>6. QuickBody(sort, z) \in V
    BY <2>4, <2>5, QuickBodyType DEF S, V
  <2>7. QED
    BY <1>12, <2>4, <2>6
<1>14. sort \in [S -> V]
  <2> HIDE DEF S, V
  <2>1. QED
    BY <1>10, <1>12, <1>13
<1>15. QuickSortBy(sort, n)
  BY <1>12, <1>14 DEF QuickSortBy
<1>16. QED
  BY <1>11, <1>15

\* What the call of quickSort on q[l .. r] promises.
QuickRight(sort, n, q, l, r) ==
  /\ sort[QuickVars(q, l, r)] # {}
  /\ \A u \in sort[QuickVars(q, l, r)] :
       u \in [1 .. n -> Int] /\ Shuffled(q, u, n, l, r) /\ OrderedIn(u, l, r)

\* QuickRight of the call x.
QuickAt(sort, n, x) == QuickRight(sort, n, x.seq, x.l, x.r)

(* A call is right when the smaller ones are. *)
LEMMA QuickByParts ==
  ASSUME NEW n \in Nat, NEW sort, QuickSortBy(sort, n), NEW x \in QuickState(n),
         \A y \in QuickState(n) : QuickSmaller(n, x, y) => QuickAt(sort, n, y)
  PROVE  QuickAt(sort, n, x)
<1>1. PICK q \in [1 .. n -> Int], l \in 1 .. n + 1, r \in 0 .. n : x = QuickVars(q, l, r)
  BY QuickStateIs
<1>2. x.seq = q /\ x.l = l /\ x.r = r
  BY <1>1 DEF QuickVars
<1>3. sort[x] = QuickBody(sort, QuickVars(q, l, r))
  BY <1>1, Zenon DEF QuickSortBy
<1>4. CASE l >= r
  <2>1. sort[x] = {q}
    BY <1>3, <1>4, QuickBodyIs
  <2>2. Shuffled(q, q, n, l, r)
    BY ShuffledSame
  <2>3. OrderedIn(q, l, r)
    BY <1>4 DEF OrderedIn
  <2>4. QED
    BY <1>1, <1>2, <2>1, <2>2, <2>3, Zenon DEF QuickAt, QuickRight
<1>5. CASE l < r
  <2>0. l \in 1 .. n /\ r \in 1 .. n
    BY <1>5
  <2>1. \A u : u \in sort[x] <=> QuickHas(sort, q, l, r, u)
    BY <1>3, <1>5, QuickBodyIs
  <2>2. ASSUME NEW part \in Partition3(q, l, r), NEW t0 \in [1 .. n -> Int], NEW a \in 1 .. n,
               NEW i \in 1 .. n, NEW g, NEW p \in Int,
               part = PartVars(t0, a, i, g), Parted(q, n, l, r, p, t0, a, i)
        PROVE  /\ QuickRight(sort, n, t0, l, a - 1)
               /\ \A t \in [1 .. n -> Int] : QuickRight(sort, n, t, i + 1, r)
               /\ part.seq = t0 /\ part.lt = a /\ part.i = i
    <3>1. QuickCalls(n, q, l, r, part)
      BY <1>5, <2>0, QuickBranches
    <3>2. part.seq = t0 /\ part.lt = a /\ part.i = i
      BY <2>2 DEF PartVars
    <3> DEFINE y == QuickVars(t0, l, a - 1)
    <3>3. QuickAt(sort, n, y)
      BY <1>1, <3>1, <3>2, Zenon DEF QuickCalls, QuickSmaller
    <3>4. y.seq = t0 /\ y.l = l /\ y.r = a - 1
      BY DEF QuickVars
    <3>5. QuickRight(sort, n, t0, l, a - 1)
      <4> HIDE DEF y
      <4>1. QED
        BY <3>3, <3>4, Zenon DEF QuickAt
    <3>6. ASSUME NEW t \in [1 .. n -> Int]  PROVE QuickRight(sort, n, t, i + 1, r)
      <4> DEFINE z == QuickVars(t, i + 1, r)
      <4>1. QuickAt(sort, n, z)
        BY <1>1, <3>1, <3>2, Zenon DEF QuickCalls, QuickSmaller
      <4>2. z.seq = t /\ z.l = i + 1 /\ z.r = r
        BY DEF QuickVars
      <4> HIDE DEF z
      <4>3. QED
        BY <4>1, <4>2, Zenon DEF QuickAt
    <3>7. QED
      BY <3>2, <3>5, <3>6
  <2>3. ASSUME NEW part \in Partition3(q, l, r)
        PROVE  \E t0 \in [1 .. n -> Int], a \in 1 .. n, i \in 1 .. n, g \in 0 .. n, p \in Int :
                 part = PartVars(t0, a, i, g) /\ Parted(q, n, l, r, p, t0, a, i)
    <3>1. IsParted(q, n, l, r, part)
      BY <1>5, <2>0, Partition3Right
    <3>2. QED
      BY <3>1, Zenon DEF IsParted
  <2>4. \E u : QuickHas(sort, q, l, r, u)
    <3>1. PICK part \in Partition3(q, l, r) : TRUE
      BY <1>5, <2>0, Partition3Right
    <3>2. PICK t0 \in [1 .. n -> Int], a \in 1 .. n, i \in 1 .. n, g \in 0 .. n, p \in Int :
            part = PartVars(t0, a, i, g) /\ Parted(q, n, l, r, p, t0, a, i)
      BY <2>3
    <3>3. /\ QuickRight(sort, n, t0, l, a - 1)
          /\ \A t \in [1 .. n -> Int] : QuickRight(sort, n, t, i + 1, r)
          /\ part.seq = t0 /\ part.lt = a /\ part.i = i
      BY <2>2, <3>2
    <3>4. PICK t \in sort[QuickVars(t0, l, a - 1)] : t \in [1 .. n -> Int]
      BY <3>3, Zenon DEF QuickRight
    <3>5. PICK u \in sort[QuickVars(t, i + 1, r)] : TRUE
      BY <3>3, <3>4, Zenon DEF QuickRight
    <3>6. QED
      BY <3>3, <3>4, <3>5, Zenon DEF QuickHas
  <2>5. ASSUME NEW u \in sort[x]
        PROVE  u \in [1 .. n -> Int] /\ Shuffled(q, u, n, l, r) /\ OrderedIn(u, l, r)
    <3>1. QuickHas(sort, q, l, r, u)
      BY <2>1, <2>5
    <3>2. PICK part \in Partition3(q, l, r) :
            \E t \in sort[QuickVars(part.seq, l, part.lt - 1)] : u \in sort[QuickVars(t, part.i + 1, r)]
      BY <3>1, Zenon DEF QuickHas
    <3>3. PICK t0 \in [1 .. n -> Int], a \in 1 .. n, i \in 1 .. n, g \in 0 .. n, p \in Int :
            part = PartVars(t0, a, i, g) /\ Parted(q, n, l, r, p, t0, a, i)
      BY <2>3
    <3>4. /\ QuickRight(sort, n, t0, l, a - 1)
          /\ \A t \in [1 .. n -> Int] : QuickRight(sort, n, t, i + 1, r)
          /\ part.seq = t0 /\ part.lt = a /\ part.i = i
      BY <2>2, <3>3
    <3>5. PICK t \in sort[QuickVars(t0, l, a - 1)] : u \in sort[QuickVars(t, i + 1, r)]
      BY <3>2, <3>4, Zenon
    <3>6. t \in [1 .. n -> Int] /\ Shuffled(t0, t, n, l, a - 1) /\ OrderedIn(t, l, a - 1)
      BY <3>4, <3>5, Zenon DEF QuickRight
    <3>7. u \in [1 .. n -> Int] /\ Shuffled(t, u, n, i + 1, r) /\ OrderedIn(u, i + 1, r)
      BY <3>4, <3>5, <3>6, Zenon DEF QuickRight
    <3>8. Shuffled(q, u, n, l, r) /\ OrderedIn(u, l, r)
      BY <2>0, <3>3, <3>6, <3>7, QuickJoins
    <3>9. QED
      BY <3>7, <3>8
  <2>6. sort[x] # {}
    BY <2>1, <2>4
  <2>7. QED
    BY <1>1, <1>2, <2>5, <2>6, Zenon DEF QuickAt, QuickRight
<1>6. QED
  BY <1>4, <1>5

(* quickSort sorts, whatever pivots are drawn. *)
LEMMA QuickSorts ==
  ASSUME NEW s \in Seq(Int)
  PROVE  QuickSort(s) # {} /\ \A t \in QuickSort(s) : t \in Rearranged(s) /\ IsSorted(t, <=)
<1> DEFINE n == Len(s)
           S == QuickState(n)
           m == QuickRoom(n)
           x0 == QuickVars(s, 1, n)
<1>0. n \in Nat /\ s \in [1 .. n -> Int] /\ 1 \in 1 .. n + 1 /\ n \in 0 .. n
  OBVIOUS
<1> HIDE DEF n
<1>1. PICK sort : QuickSortBy(sort, n) /\ QuickSort(s) = sort[x0]
  BY <1>0, QuickSortIs
<1>2. x0 \in S /\ m \in [S -> Nat]
  BY <1>0, QuickVarsIn, QuickRoomIs
<1>3. QuickAt(sort, n, x0)
  <2> DEFINE B == {k \in Nat : \E x \in S : m[x] = k /\ ~ QuickAt(sort, n, x)}
  <2> HIDE DEF S, m, x0
  <2>1. SUFFICES ASSUME ~ QuickAt(sort, n, x0)  PROVE FALSE
    OBVIOUS
  <2>2. m[x0] \in B /\ B \subseteq Nat
    BY <1>2, <2>1
  <2>3. PICK k \in B : \A i \in B : k <= i
    <3> HIDE DEF B
    <3>1. QED
      BY <2>2, LeastElement
  <2>4. PICK z \in S : m[z] = k /\ ~ QuickAt(sort, n, z)
    BY <2>3
  <2>5. ASSUME NEW y \in S, QuickSmaller(n, z, y)  PROVE QuickAt(sort, n, y)
    <3>1. m[y] < m[z] /\ m[y] \in Nat /\ m[z] \in Nat
      BY <1>2, <2>5, Zenon DEF QuickSmaller, m
    <3>2. m[y] \notin B
      BY <2>3, <2>4, <3>1
    <3>3. QED
      BY <2>5, <3>1, <3>2
  <2>6. QuickAt(sort, n, z)
    BY <1>0, <1>1, <2>4, <2>5, QuickByParts DEF S
  <2>7. QED
    BY <2>4, <2>6
<1>4. x0.seq = s /\ x0.l = 1 /\ x0.r = n
  BY DEF QuickVars
<1>5. QuickRight(sort, n, s, 1, n)
  <2> HIDE DEF x0
  <2>1. QED
    BY <1>3, <1>4, Zenon DEF QuickAt
<1>6. QuickSort(s) # {}
  BY <1>1, <1>5, Zenon DEF QuickRight
<1>7. ASSUME NEW t \in QuickSort(s)  PROVE t \in Rearranged(s) /\ IsSorted(t, <=)
  <2>1. t \in [1 .. n -> Int] /\ Shuffled(s, t, n, 1, n) /\ OrderedIn(t, 1, n)
    BY <1>1, <1>5, <1>7, Zenon DEF QuickRight
  <2>2. t \in Seq(Int) /\ Len(t) = n
    BY <1>0, <2>1, ArrayIs
  <2>3. Ordered(t)
    BY <2>1, <2>2, Zenon DEF OrderedIn, Ordered
  <2>4. SortedFrom(s, t)
    BY <2>1, <2>2, <2>3, Zenon DEF SortedFrom, n
  <2>5. QED
    BY <2>4, SortedFromIs
<1>8. QED
  BY <1>6, <1>7

-----------------------------------------------------------------------------
(* Heap sort *)

\* c is a child of k in the heap.
IsChild(c, k) == c = 2 * k \/ c = 2 * k + 1

\* From b on, no element is below one of its children.
HeapFrom(t, b, size) == \A k \in b .. size, c \in 1 .. size : IsChild(c, k) => t[k] >= t[c]

\* So it is but for the element at i, and its parent is not below its children.
Sifting(t, b, size, i) ==
  /\ \A k \in b .. size, c \in 1 .. size : IsChild(c, k) /\ k # i => t[k] >= t[c]
  /\ \A k \in b .. size, c \in 1 .. size : IsChild(i, k) /\ IsChild(c, i) => t[k] >= t[c]

\* most is the greatest of i and its children below size.
MaxOf(s, i, size, most) ==
  /\ most \in 1 .. size /\ (most = i \/ (IsChild(most, i) /\ s[i] < s[most]))
  /\ \A c \in 1 .. size : IsChild(c, i) => s[c] <= s[most]

(* adjust finds the greatest of i and its children. *)
LEMMA MaxIndexIs ==
  ASSUME NEW n \in Nat, NEW s \in [1 .. n -> Int], NEW size \in 1 .. n, NEW i \in 1 .. size
  PROVE  MaxOf(s, i, size, MaxIndex(s, i, size))
<1> DEFINE l == 2 * i
           r == 2 * i + 1
           left == IF l <= size /\ s[i] < s[l] THEN l ELSE i
           most == IF r <= size /\ s[left] < s[r] THEN r ELSE left
<1>1. MaxIndex(s, i, size) = most
  BY Zenon DEF MaxIndex
<1>2. /\ i \in 1 .. n /\ s[i] \in Int /\ l \in Nat /\ r \in Nat /\ l >= 1 /\ r >= 1
      /\ (l <= size => l \in 1 .. size /\ l \in 1 .. n)
      /\ (r <= size => r \in 1 .. size /\ r \in 1 .. n)
      /\ \A c : IsChild(c, i) <=> c = l \/ c = r
  BY DEF IsChild
<1> HIDE DEF l, r
<1>3. /\ left \in 1 .. size /\ left \in 1 .. n /\ s[left] \in Int /\ s[i] <= s[left]
      /\ left = i \/ (left = l /\ s[i] < s[l])
      /\ l <= size => s[l] <= s[left]
  <2>1. CASE l <= size /\ s[i] < s[l]
    <3>1. left = l
      BY <2>1
    <3>2. s[l] \in Int
      BY <1>2, <2>1
    <3>3. QED
      BY <1>2, <2>1, <3>1, <3>2
  <2>2. CASE ~ (l <= size /\ s[i] < s[l])
    <3>1. left = i
      BY <2>2
    <3>2. l <= size => s[l] \in Int /\ s[l] <= s[i]
      <4>1. l <= size => s[l] \in Int
        BY <1>2
      <4>2. \A v, w \in Int : ~ (v < w) => w <= v
        OBVIOUS
      <4>3. QED
        BY <1>2, <2>2, <4>1, <4>2, Zenon
    <3>3. QED
      BY <1>2, <3>1, <3>2
  <2>3. QED
    BY <2>1, <2>2
<1> HIDE DEF left
<1>4. CASE r <= size /\ s[left] < s[r]
  <2>1. most = r /\ s[r] \in Int
    BY <1>2, <1>4
  <2>2. s[i] < s[r] /\ s[left] <= s[r]
    BY <1>2, <1>3, <1>4, <2>1
  <2>3. ASSUME NEW c \in 1 .. size, IsChild(c, i)  PROVE s[c] <= s[r]
    <3>1. CASE c = r
      BY <2>1, <3>1
    <3>2. CASE c = l
      <4>1. l <= size /\ s[l] \in Int
        BY <1>2, <3>2
      <4>2. s[l] <= s[left]
        BY <1>3, <4>1
      <4>3. QED
        BY <1>3, <2>1, <2>2, <3>2, <4>1, <4>2
    <3>3. QED
      BY <1>2, <2>3, <3>1, <3>2
  <2>4. MaxOf(s, i, size, r)
    BY <1>2, <1>4, <2>2, <2>3 DEF MaxOf
  <2>5. QED
    BY <1>1, <2>1, <2>4, Zenon
<1>5. CASE ~ (r <= size /\ s[left] < s[r])
  <2>1. most = left
    BY <1>5
  <2>2. r <= size => s[r] <= s[left]
    <3>1. r <= size => s[r] \in Int
      BY <1>2
    <3>2. \A v, w \in Int : ~ (v < w) => w <= v
      OBVIOUS
    <3>3. QED
      BY <1>3, <1>5, <3>1, <3>2, Zenon
  <2>3. ASSUME NEW c \in 1 .. size, IsChild(c, i)  PROVE s[c] <= s[left]
    BY <1>2, <1>3, <2>2, <2>3
  <2>4. left = i \/ (IsChild(left, i) /\ s[i] < s[left])
    BY <1>2, <1>3
  <2>5. MaxOf(s, i, size, left)
    BY <1>3, <2>3, <2>4 DEF MaxOf
  <2>6. QED
    BY <1>1, <2>1, <2>5, Zenon
<1>6. QED
  BY <1>4, <1>5

(* A node has one parent, before it. *)
LEMMA OneParent ==
  ASSUME NEW c \in Nat, NEW k \in Nat, k >= 1, IsChild(c, k)
  PROVE  k < c /\ \A h \in Nat : IsChild(c, h) => h = k
BY DEF IsChild

\* What s has become when adjust has gone down to most.
SiftTo(s, t, n, b, size, most) ==
  t \in [1 .. n -> Int] /\ Shuffled(s, t, n, 1, size) /\ Sifting(t, b, size, most)

(* A pass of adjust keeps its invariant. *)
LEMMA SiftStep ==
  ASSUME NEW n \in Nat, NEW s, NEW q \in [1 .. n -> Int], NEW size \in 1 .. n,
         NEW b \in 1 .. size, NEW i \in b .. size, NEW most \in 1 .. size,
         SiftTo(s, q, n, b, size, i), MaxOf(q, i, size, most), most # i
  PROVE  SiftTo(s, Swapped(q, i, most), n, b, size, most)
<1> DEFINE t == Swapped(q, i, most)
<1>1. /\ Shuffled(s, q, n, 1, size)
      /\ \A k \in b .. size, c \in 1 .. size : IsChild(c, k) /\ k # i => q[k] >= q[c]
      /\ \A k \in b .. size, c \in 1 .. size : IsChild(i, k) /\ IsChild(c, i) => q[k] >= q[c]
  BY Zenon DEF SiftTo, Sifting
<1>2. /\ IsChild(most, i) /\ q[i] < q[most]
      /\ \A c \in 1 .. size : IsChild(c, i) => q[c] <= q[most]
  BY DEF MaxOf
<1>3. /\ i \in 1 .. n /\ most \in 1 .. n /\ i \in 1 .. size /\ 1 \in Int /\ size \in Int
      /\ most \in b .. size /\ \A k \in 1 .. size : k \in 1 .. n /\ q[k] \in Int
      /\ \A k \in b .. size : k \in 1 .. size /\ k \in Nat /\ k >= 1
  <2>1. i < most
    BY <1>2 DEF IsChild
  <2>2. QED
    BY <2>1
<1>4. /\ t \in [1 .. n -> Int] /\ Shuffled(q, t, n, 1, size)
      /\ t[i] = q[most] /\ t[most] = q[i]
      /\ \A k \in 1 .. n : k # i /\ k # most => t[k] = q[k]
  <2>1. Exchanged(q, t, n, 1, size, i, most)
    BY <1>3, ShuffledSwap
  <2> HIDE DEF t
  <2>2. QED
    BY <2>1 DEF Exchanged
<1> HIDE DEF t
<1>5. Shuffled(s, t, n, 1, size)
  BY <1>1, <1>4, ShuffledThen
<1>0. \A u, v, w \in Int : /\ u >= v /\ v >= w => u >= w
                           /\ v <= u => u >= v
                           /\ v < u => u >= v
  OBVIOUS
<1>6. ASSUME NEW k \in b .. size, NEW c \in 1 .. size, IsChild(c, k), k # most  PROVE t[k] >= t[c]
  <2>1. q[k] \in Int /\ q[c] \in Int /\ q[i] \in Int /\ q[most] \in Int
    BY <1>3
  <2>2. CASE k = i
    <3>1. CASE c = most
      BY <1>0, <1>2, <1>4, <2>1, <2>2, <3>1, Zenon
    <3>2. CASE c # most
      <4>1. c # i
        BY <1>3, <1>6, <2>2, OneParent
      <4>2. t[c] = q[c]
        BY <1>3, <1>4, <3>2, <4>1
      <4>3. q[c] <= q[most]
        BY <1>2, <1>6, <2>2
      <4>4. QED
        BY <1>0, <1>4, <2>1, <2>2, <4>2, <4>3, Zenon
    <3>3. QED
      BY <3>1, <3>2
  <2>3. CASE k # i
    <3>1. t[k] = q[k]
      BY <1>3, <1>4, <1>6, <2>3
    <3>2. c # most
      <4>1. ASSUME c = most  PROVE k = i
        <5>1. IsChild(most, k) /\ most \in Nat /\ k \in Nat /\ k >= 1 /\ i \in Nat
          BY <1>3, <1>6, <4>1
        <5>2. QED
          BY <1>2, <5>1, OneParent
      <4>2. QED
        BY <2>3, <4>1
    <3>3. CASE c = i
      <4>1. q[k] >= q[most]
        BY <1>1, <1>2, <1>6, <3>3
      <4>2. QED
        BY <1>4, <3>1, <3>3, <4>1
    <3>4. CASE c # i
      <4>1. t[c] = q[c]
        BY <1>3, <1>4, <3>2, <3>4
      <4>2. q[k] >= q[c]
        BY <1>1, <1>6, <2>3
      <4>3. QED
        BY <3>1, <4>1, <4>2
    <3>5. QED
      BY <3>3, <3>4
  <2>4. QED
    BY <2>2, <2>3
<1>7. ASSUME NEW k \in b .. size, NEW c \in 1 .. size, IsChild(most, k), IsChild(c, most)
      PROVE  t[k] >= t[c]
  <2>1. k = i
    <3>1. most \in Nat /\ k \in Nat /\ k >= 1 /\ i \in Nat
      BY <1>3
    <3>2. QED
      BY <1>2, <1>7, <3>1, OneParent
  <2>2. i < most /\ most < c
    <3>1. most \in Nat /\ i \in Nat /\ i >= 1 /\ most >= 1 /\ c \in Nat
      BY <1>3
    <3>2. QED
      BY <1>2, <1>7, <3>1, OneParent
  <2>3. c # i /\ c # most
    BY <2>2
  <2>4. t[c] = q[c]
    BY <1>3, <1>4, <2>3
  <2>5. q[most] >= q[c]
    BY <1>1, <1>3, <1>7, <2>2
  <2>6. QED
    BY <1>4, <2>1, <2>4, <2>5
<1>8. Sifting(t, b, size, most)
  BY <1>6, <1>7, Zenon DEF Sifting
<1>9. QED
  BY <1>4, <1>5, <1>8 DEF SiftTo, t

(* Where the loop of adjust ends, the heap is whole. *)
LEMMA SiftEnd ==
  ASSUME NEW n \in Nat, NEW q \in [1 .. n -> Int], NEW size \in 1 .. n,
         NEW b \in 1 .. size, NEW i \in b .. size,
         Sifting(q, b, size, i), MaxOf(q, i, size, i)
  PROVE  HeapFrom(q, b, size)
<1> SUFFICES ASSUME NEW k \in b .. size, NEW c \in 1 .. size, IsChild(c, k)  PROVE q[k] >= q[c]
  BY Zenon DEF HeapFrom
<1>1. q[k] \in Int /\ q[c] \in Int
  OBVIOUS
<1>2. CASE k = i
  <2>1. q[c] <= q[i]
    BY <1>2 DEF MaxOf
  <2>2. QED
    BY <1>1, <1>2, <2>1
<1>3. CASE k # i
  BY <1>3 DEF Sifting
<1>4. QED
  BY <1>2, <1>3

(* The invariant of adjust holds where it starts. *)
LEMMA SiftStart ==
  ASSUME NEW n \in Nat, NEW s \in [1 .. n -> Int], NEW size \in 1 .. n, NEW b \in 1 .. size,
         HeapFrom(s, b + 1, size)
  PROVE  SiftTo(s, s, n, b, size, b)
<1>1. Shuffled(s, s, n, 1, size)
  BY ShuffledSame
<1>2. ASSUME NEW k \in b .. size, NEW c \in 1 .. size, IsChild(c, k), k # b  PROVE s[k] >= s[c]
  <2>1. k \in b + 1 .. size
    BY <1>2
  <2>2. QED
    BY <1>2, <2>1 DEF HeapFrom
<1>3. ASSUME NEW k \in b .. size  PROVE ~ IsChild(b, k)
  BY DEF IsChild
<1>4. Sifting(s, b, size, b)
  BY <1>2, <1>3 DEF Sifting
<1>5. QED
  BY <1>1, <1>4 DEF SiftTo

\* The variables of the loops.
HeapState(n, R) == [seq : [1 .. n -> Int], i : R]

\* The variables of the heap's loops as a record.
HeapVars(q, i) == [seq |-> q, i |-> i]

(* Every state of these loops has the two variables. *)
LEMMA HeapStateIs ==
  ASSUME NEW n \in Nat, NEW R, NEW x \in HeapState(n, R)
  PROVE  \E q \in [1 .. n -> Int], i \in R : x = HeapVars(q, i)
<1>1. x.seq \in [1 .. n -> Int] /\ x.i \in R /\ x = HeapVars(x.seq, x.i)
  BY DEF HeapState, HeapVars
<1>2. QED
  BY <1>1

(* Variables in their ranges are a state. *)
LEMMA HeapVarsIn ==
  ASSUME NEW n \in Nat, NEW R, NEW q \in [1 .. n -> Int], NEW i \in R
  PROVE  HeapVars(q, i) \in HeapState(n, R)
BY DEF HeapState, HeapVars

(* The fields of the record. *)
LEMMA HeapVarsAre ==
  ASSUME NEW q, NEW i
  PROVE  HeapVars(q, i).seq = q /\ HeapVars(q, i).i = i
BY DEF HeapVars

\* Where a step of adjust goes.
AdjustTo(y, q, i, size) ==
  \E most \in 1 .. size :
    /\ MaxOf(q, i, size, most)
    /\ IF most = i THEN y = HeapVars(q, i) ELSE y = HeapVars(Swapped(q, i, most), most)

(* What one pass of adjust does, in the cases of AdjustTo. *)
LEMMA AdjustStepIs ==
  ASSUME NEW n \in Nat, NEW s \in [1 .. n -> Int], NEW size \in 1 .. n,
         NEW q \in [1 .. n -> Int], NEW i \in 1 .. size
  PROVE  AdjustTo(AdjustStep(s, size)[HeapVars(q, i)], q, i, size)
<1> DEFINE x == HeapVars(q, i)
           most == MaxIndex(q, i, size)
<1>1. Arrays(s) = [1 .. n -> Int]
  BY ArrayIs
<1>2. x \in [seq : Arrays(s), i : 1 .. size] /\ x.seq = q /\ x.i = i
  <2>1. x \in HeapState(n, 1 .. size) /\ x.seq = q /\ x.i = i
    BY HeapVarsIn, HeapVarsAre
  <2>2. QED
    BY <1>1, <2>1, Zenon DEF HeapState
<1>3. MaxOf(q, i, size, most) /\ most \in 1 .. size
  BY MaxIndexIs DEF MaxOf
<1> HIDE DEF x, most
<1>4. AdjustStep(s, size)[x] = IF most = i THEN x ELSE [seq |-> Swapped(q, i, most), i |-> most]
  BY <1>2, Zenon DEF AdjustStep, most
<1>5. AdjustTo(AdjustStep(s, size)[x], q, i, size)
  <2>1. CASE most = i
    BY <1>3, <1>4, <2>1, Zenon DEF AdjustTo, x
  <2>2. CASE most # i
    BY <1>3, <1>4, <2>2, Zenon DEF AdjustTo, HeapVars
  <2>3. QED
    BY <2>1, <2>2
<1>6. QED
  BY <1>5 DEF x

\* The measure of adjust: how far i is from the end.
SiftRoom(n, size) == [x \in HeapState(n, 1 .. size) |-> size - x.i]

(* The measure at given variables. *)
LEMMA SiftRoomAt ==
  ASSUME NEW n \in Nat, NEW size \in 1 .. n, NEW q \in [1 .. n -> Int], NEW i \in 1 .. size
  PROVE  SiftRoom(n, size)[HeapVars(q, i)] = size - i
<1> DEFINE x == HeapVars(q, i)
<1>1. x \in HeapState(n, 1 .. size) /\ x.i = i
  BY HeapVarsIn, HeapVarsAre
<1> HIDE DEF x
<1>2. SiftRoom(n, size)[x] = size - i
  BY <1>1, Zenon DEF SiftRoom
<1>3. QED
  BY <1>2 DEF x

(* Every pass of adjust goes down the heap. *)
LEMMA AdjustHalts ==
  ASSUME NEW n \in Nat, NEW s \in [1 .. n -> Int], NEW size \in 1 .. n
  PROVE  /\ AdjustStep(s, size) \in [HeapState(n, 1 .. size) -> HeapState(n, 1 .. size)]
         /\ SiftRoom(n, size) \in [HeapState(n, 1 .. size) -> Nat]
         /\ Halts(HeapState(n, 1 .. size), AdjustStep(s, size), SiftRoom(n, size))
<1> DEFINE step == AdjustStep(s, size)
           S == HeapState(n, 1 .. size)
           m == SiftRoom(n, size)
<1>1. ASSUME NEW x \in S
      PROVE  step[x] \in S /\ m[x] \in Nat /\ (step[x] = x \/ m[step[x]] < m[x])
  <2>1. PICK q \in [1 .. n -> Int], i \in 1 .. size : x = HeapVars(q, i)
    BY HeapStateIs
  <2>2. AdjustTo(step[x], q, i, size)
    BY <2>1, AdjustStepIs
  <2>3. m[x] = size - i /\ size - i \in Nat
    <3>1. SiftRoom(n, size)[HeapVars(q, i)] = size - i
      BY SiftRoomAt, Zenon
    <3>2. size - i \in Nat
      OBVIOUS
    <3>3. QED
      BY <2>1, <3>1, <3>2, Zenon
  <2> HIDE DEF step, S, m
  <2>4. PICK most \in 1 .. size :
          /\ MaxOf(q, i, size, most)
          /\ IF most = i THEN step[x] = HeapVars(q, i) ELSE step[x] = HeapVars(Swapped(q, i, most), most)
    BY <2>2, Zenon DEF AdjustTo
  <2>5. CASE most = i
    BY <2>1, <2>3, <2>4, <2>5
  <2>6. CASE most # i
    <3> DEFINE t == Swapped(q, i, most)
    <3>1. t \in [1 .. n -> Int]
      BY DEF Swapped
    <3> HIDE DEF t
    <3>2. step[x] = HeapVars(t, most)
      BY <2>4, <2>6 DEF t
    <3>3. step[x] \in S /\ m[step[x]] = size - most
      <4>1. HeapVars(t, most) \in S
        BY <3>1, HeapVarsIn, Zenon DEF S
      <4>2. m[HeapVars(t, most)] = size - most
        BY <3>1, SiftRoomAt, Zenon DEF m
      <4>3. QED
        BY <3>2, <4>1, <4>2, Zenon
    <3>4. i < most
      BY <2>4, <2>6 DEF MaxOf, IsChild
    <3>5. size - most < size - i
      BY <3>4
    <3>6. QED
      BY <2>3, <3>3, <3>5
  <2>7. QED
    BY <2>5, <2>6
<1>2. step = [x \in S |-> step[x]]
  <2>1. DOMAIN step = S
    BY ArrayIs, Zenon DEF AdjustStep, HeapState
  <2>2. step = [x \in DOMAIN step |-> step[x]]
    BY DEF AdjustStep
  <2>3. QED
    BY <2>1, <2>2, Zenon
<1>3. m = [x \in S |-> m[x]]
  <2>1. DOMAIN m = S /\ m = [x \in DOMAIN m |-> m[x]]
    BY DEF SiftRoom
  <2>2. QED
    BY <2>1, Zenon
<1> HIDE DEF step, S, m
<1>4. step \in [S -> S] /\ m \in [S -> Nat]
  BY <1>1, <1>2, <1>3
<1>5. Halts(S, step, m)
  BY <1>1 DEF Halts
<1>6. QED
  BY <1>4, <1>5 DEF step, S, m

\* What adjust leaves: a heap from b on, the same elements.
Adjusted(s, t, n, b, size) ==
  t \in [1 .. n -> Int] /\ Shuffled(s, t, n, 1, size) /\ HeapFrom(t, b, size)

(* adjust makes a heap from b on if there was one from b + 1 on. *)
LEMMA AdjustRight ==
  ASSUME NEW n \in Nat, NEW s \in [1 .. n -> Int], NEW size \in 1 .. n, NEW b \in 1 .. size,
         HeapFrom(s, b + 1, size)
  PROVE  Adjusted(s, Adjust(s, b, size), n, b, size)
<1> DEFINE step == AdjustStep(s, size)
           S == HeapState(n, 1 .. size)
           m == SiftRoom(n, size)
           I == {x \in S : x.i >= b /\ SiftTo(s, x.seq, n, b, size, x.i)}
           x0 == HeapVars(s, b)
           end == While(step, x0)
<1>1. Adjust(s, b, size) = end.seq
  BY DEF Adjust, HeapVars
<1>2. step \in [S -> S] /\ Halts(S, step, m) /\ m \in [S -> Nat]
  BY AdjustHalts
<1>3. x0 \in I
  <2>1. x0 \in S /\ x0.seq = s /\ x0.i = b
    BY HeapVarsIn, HeapVarsAre
  <2>2. SiftTo(s, s, n, b, size, b) /\ b >= b
    BY SiftStart
  <2> HIDE DEF x0, S
  <2>3. x0.i >= b /\ SiftTo(s, x0.seq, n, b, size, x0.i)
    BY <2>1, <2>2, Zenon
  <2>4. QED
    BY <2>1, <2>3
<1>4. ASSUME NEW x \in I  PROVE step[x] \in I
  <2>1. x \in S /\ x.i >= b /\ SiftTo(s, x.seq, n, b, size, x.i)
    OBVIOUS
  <2>2. PICK q \in [1 .. n -> Int], i \in 1 .. size : x = HeapVars(q, i) /\ x.seq = q /\ x.i = i
    <3>1. PICK q \in [1 .. n -> Int], i \in 1 .. size : x = HeapVars(q, i)
      BY <2>1, HeapStateIs
    <3>2. QED
      BY <3>1, HeapVarsAre
  <2>3. i >= b /\ SiftTo(s, q, n, b, size, i)
    BY <2>1, <2>2, Zenon
  <2>4. AdjustTo(step[x], q, i, size)
    BY <2>2, AdjustStepIs
  <2> HIDE DEF step, I
  <2>5. PICK most \in 1 .. size :
          /\ MaxOf(q, i, size, most)
          /\ IF most = i THEN step[x] = HeapVars(q, i) ELSE step[x] = HeapVars(Swapped(q, i, most), most)
    BY <2>4, Zenon DEF AdjustTo
  <2>6. CASE most = i
    <3>1. step[x] = x
      BY <2>2, <2>5, <2>6, Zenon
    <3>2. QED
      BY <3>1
  <2>7. CASE most # i
    <3> DEFINE t == Swapped(q, i, most)
               y == HeapVars(t, most)
    <3>1. i \in b .. size
      BY <2>3
    <3>2. SiftTo(s, t, n, b, size, most)
      BY <2>3, <2>5, <2>7, <3>1, SiftStep
    <3>3. t \in [1 .. n -> Int]
      BY <3>2 DEF SiftTo
    <3> HIDE DEF t
    <3>4. y \in S /\ y.seq = t /\ y.i = most
      BY <3>3, HeapVarsIn, HeapVarsAre
    <3>5. step[x] = y
      BY <2>5, <2>7 DEF t
    <3>6. most >= b
      BY <2>3, <2>5, <2>7 DEF MaxOf, IsChild
    <3> HIDE DEF y, S
    <3>7. y.i >= b /\ SiftTo(s, y.seq, n, b, size, y.i)
      BY <3>2, <3>4, <3>6, Zenon
    <3>8. QED
      BY <3>4, <3>5, <3>7 DEF I
  <2>8. QED
    BY <2>6, <2>7
<1>5. end \in I /\ step[end] = end
  <2>1. I \in SUBSET S
    OBVIOUS
  <2> HIDE DEF step, x0, I, S, m
  <2>2. QED
    BY <1>2, <1>3, <1>4, <2>1, WhileEnds
<1> HIDE DEF end
<1>6. end \in S /\ end.i >= b /\ SiftTo(s, end.seq, n, b, size, end.i)
  BY <1>5
<1>7. PICK q \in [1 .. n -> Int], i \in 1 .. size : end = HeapVars(q, i) /\ end.seq = q /\ end.i = i
  <2>1. PICK q \in [1 .. n -> Int], i \in 1 .. size : end = HeapVars(q, i)
    BY <1>6, HeapStateIs
  <2>2. HeapVars(q, i).seq = q /\ HeapVars(q, i).i = i
    BY HeapVarsAre
  <2>3. QED
    BY <2>1, <2>2, Zenon
<1>8. i >= b /\ SiftTo(s, q, n, b, size, i)
  BY <1>6, <1>7, Zenon
<1>9. MaxOf(q, i, size, i)
  <2>1. AdjustTo(end, q, i, size)
    <3>1. AdjustTo(step[HeapVars(q, i)], q, i, size)
      BY AdjustStepIs
    <3> HIDE DEF step
    <3>2. QED
      BY <1>5, <1>7, <3>1, Zenon
  <2>2. PICK most \in 1 .. size :
          /\ MaxOf(q, i, size, most)
          /\ IF most = i THEN end = HeapVars(q, i) ELSE end = HeapVars(Swapped(q, i, most), most)
    BY <2>1, Zenon DEF AdjustTo
  <2>3. most = i
    <3>1. SUFFICES ASSUME most # i  PROVE FALSE
      OBVIOUS
    <3> DEFINE t == Swapped(q, i, most)
    <3> HIDE DEF t
    <3>2. end = HeapVars(t, most)
      BY <2>2, <3>1 DEF t
    <3>3. HeapVars(t, most).i = most
      BY DEF HeapVars
    <3>4. QED
      BY <1>7, <3>1, <3>2, <3>3, Zenon
  <2>4. QED
    BY <2>2, <2>3
<1>10. HeapFrom(q, b, size)
  <2>1. i \in b .. size
    BY <1>8
  <2>2. QED
    BY <1>8, <1>9, <2>1, SiftEnd DEF SiftTo
<1>11. Adjusted(s, q, n, b, size)
  BY <1>8, <1>10 DEF Adjusted, SiftTo
<1>12. QED
  BY <1>1, <1>7, <1>11, Zenon

(* Every node but the first has a parent before it. *)
LEMMA HasParent ==
  ASSUME NEW c \in Nat, c >= 2
  PROVE  \E k \in 1 .. c - 1 : IsChild(c, k)
<1> DEFINE h == c \div 2
<1>1. h \in Nat /\ 2 * h <= c /\ c <= 2 * h + 1
  BY Halved
<1> HIDE DEF h
<1>2. h \in 1 .. c - 1 /\ IsChild(c, h)
  BY <1>1 DEF IsChild
<1>3. QED
  BY <1>2

(* The first element of a heap is its greatest. *)
LEMMA HeapMax ==
  ASSUME NEW n \in Nat, NEW q \in [1 .. n -> Int], NEW size \in 1 .. n, HeapFrom(q, 1, size),
         NEW j \in 1 .. size
  PROVE  q[j] <= q[1]
<1> DEFINE B == {k \in Nat : k \in 1 .. size /\ ~ (q[k] <= q[1])}
<1>1. SUFFICES ASSUME ~ (q[j] <= q[1])  PROVE FALSE
  OBVIOUS
<1>2. j \in B /\ B \subseteq Nat
  BY <1>1
<1>3. PICK k \in B : \A i \in B : k <= i
  <2> HIDE DEF B
  <2>1. QED
    BY <1>2, LeastElement
<1>4. k \in 1 .. size /\ ~ (q[k] <= q[1]) /\ q[k] \in Int /\ q[1] \in Int
  BY <1>3
<1>5. k >= 2
  BY <1>4
<1>6. PICK h \in 1 .. k - 1 : IsChild(k, h)
  BY <1>4, <1>5, HasParent
<1>7. h \in 1 .. size /\ q[h] \in Int /\ h < k
  BY <1>4, <1>6
<1>8. q[h] >= q[k]
  BY <1>4, <1>6, <1>7 DEF HeapFrom
<1>9. q[h] <= q[1]
  <2>1. h \notin B
    BY <1>3, <1>7
  <2>2. QED
    BY <1>7, <2>1
<1>10. QED
  BY <1>4, <1>7, <1>8, <1>9

\* The invariant of the loop that builds the heap.
Building(s, n, q, i) == Shuffled(s, q, n, 1, n) /\ HeapFrom(q, i + 1, n)

(* The second half of the array needs no work: it has no children. *)
LEMMA BuildStart ==
  ASSUME NEW n \in Nat, NEW s
  PROVE  n \div 2 \in 0 .. n /\ Building(s, n, s, n \div 2)
<1> DEFINE h == n \div 2
<1>1. h \in Nat /\ 2 * h <= n /\ n <= 2 * h + 1
  BY Halved
<1>2. Shuffled(s, s, n, 1, n)
  BY ShuffledSame
<1> HIDE DEF h
<1>3. HeapFrom(s, h + 1, n)
  BY <1>1 DEF HeapFrom, IsChild
<1>4. h \in 0 .. n
  BY <1>1
<1>5. QED
  BY <1>2, <1>3, <1>4 DEF Building, h

(* A pass of the first loop of heapSort keeps its invariant. *)
LEMMA BuildStep ==
  ASSUME NEW n \in Nat, NEW s, NEW q \in [1 .. n -> Int], NEW i \in 1 .. n, Building(s, n, q, i)
  PROVE  Adjust(q, i, n) \in [1 .. n -> Int] /\ Building(s, n, Adjust(q, i, n), i - 1)
<1> DEFINE t == Adjust(q, i, n)
<1>1. Adjusted(q, t, n, i, n)
  <2>1. n \in 1 .. n /\ HeapFrom(q, i + 1, n)
    BY DEF Building
  <2>2. QED
    BY <2>1, AdjustRight
<1> HIDE DEF t
<1>2. Shuffled(s, t, n, 1, n)
  BY <1>1, ShuffledThen DEF Adjusted, Building
<1>3. i = (i - 1) + 1
  OBVIOUS
<1>4. t \in [1 .. n -> Int] /\ HeapFrom(t, (i - 1) + 1, n)
  BY <1>1, <1>3, Zenon DEF Adjusted
<1>5. QED
  BY <1>2, <1>4 DEF Building, t

\* The invariant of the loop that takes the greatest to the end.
Popping(s, n, q, i) ==
  /\ Shuffled(s, q, n, 1, n) /\ HeapFrom(q, 1, i) /\ OrderedIn(q, i + 1, n)
  /\ \A j \in 1 .. i, k \in i + 1 .. n : q[j] <= q[k]

(* A whole heap with nothing sorted behind it. *)
LEMMA PopStart ==
  ASSUME NEW n \in Nat, NEW s, NEW q, Building(s, n, q, 0)
  PROVE  Popping(s, n, q, n)
<1>1. OrderedIn(q, n + 1, n)
  BY DEF OrderedIn
<1>2. HeapFrom(q, 1, n)
  BY DEF Building, HeapFrom
<1>3. QED
  BY <1>1, <1>2 DEF Popping, Building

(* A pass of the second loop of heapSort keeps its invariant. *)
LEMMA PopOne ==
  ASSUME NEW n \in Nat, NEW s, NEW q \in [1 .. n -> Int], NEW i \in 2 .. n, Popping(s, n, q, i)
  PROVE  LET t == Adjust(Swapped(q, i, 1), 1, i - 1)
         IN  t \in [1 .. n -> Int] /\ Popping(s, n, t, i - 1)
<1> DEFINE u == Swapped(q, i, 1)
           h == i - 1
           t == Adjust(u, 1, h)
<1>1. /\ Shuffled(s, q, n, 1, n) /\ HeapFrom(q, 1, i) /\ OrderedIn(q, i + 1, n)
      /\ \A j \in 1 .. i, k \in i + 1 .. n : q[j] <= q[k]
  BY DEF Popping
<1>2. /\ i \in 1 .. n /\ 1 \in 1 .. n /\ h \in 1 .. n /\ h < i /\ h + 1 = i /\ n \in Int /\ 1 \in Int
      /\ 1 \in 1 .. h
      /\ \A k \in 1 .. h : k \in 1 .. n /\ k \in 1 .. i
      /\ \A k \in i + 1 .. n : k \in 1 .. n /\ k # i /\ k # 1 /\ k \notin 1 .. h
  OBVIOUS
<1>3. /\ u \in [1 .. n -> Int] /\ u[i] = q[1] /\ u[1] = q[i] /\ Shuffled(q, u, n, 1, n)
      /\ \A k \in 1 .. n : k # i /\ k # 1 => u[k] = q[k]
  <2>1. Exchanged(q, u, n, 1, n, i, 1)
    BY <1>2, ShuffledSwap
  <2> HIDE DEF u
  <2>2. QED
    BY <2>1 DEF Exchanged
<1> HIDE DEF u, h
<1>4. HeapFrom(u, 2, h)
  <2> SUFFICES ASSUME NEW k \in 2 .. h, NEW c \in 1 .. h, IsChild(c, k)  PROVE u[k] >= u[c]
    BY Zenon DEF HeapFrom
  <2>1. /\ k \in 1 .. n /\ k # i /\ k # 1 /\ c \in 1 .. n /\ c # i /\ c # 1
        /\ k \in 1 .. i /\ c \in 1 .. i
    <3>1. k < c
      BY DEF IsChild
    <3>2. QED
      BY <1>2, <3>1
  <2>2. q[k] >= q[c]
    BY <1>1, <2>1 DEF HeapFrom
  <2>3. QED
    BY <1>3, <2>1, <2>2
<1>5. Adjusted(u, t, n, 1, h)
  <2>1. 1 + 1 = 2
    OBVIOUS
  <2>2. HeapFrom(u, 1 + 1, h)
    BY <1>4, <2>1, Zenon
  <2>3. QED
    BY <1>2, <1>3, <2>2, AdjustRight
<1> HIDE DEF t
<1>6. t \in [1 .. n -> Int] /\ Shuffled(u, t, n, 1, h) /\ HeapFrom(t, 1, h)
  BY <1>5 DEF Adjusted
<1>7. Shuffled(s, t, n, 1, n)
  <2>1. Shuffled(s, u, n, 1, n)
    BY <1>1, <1>3, ShuffledThen
  <2>2. \A k \in 1 .. h : k \in 1 .. n
    BY <1>2
  <2>3. QED
    BY <1>6, <2>1, <2>2, ShuffledThen
<1>8. /\ \A k \in 1 .. n : k \notin 1 .. h => t[k] = u[k]
      /\ \A k \in 1 .. n : k \in 1 .. h => \E j \in 1 .. n : j \in 1 .. h /\ t[k] = u[j]
  <2>1. Keeps(u, t, n, 1, h)
    BY <1>6, ShuffledStays
  <2>2. QED
    BY <2>1, Zenon DEF Keeps
<1>9. t[i] = q[1]
  <2>1. i \in 1 .. n /\ i \notin 1 .. h
    BY <1>2
  <2>2. QED
    BY <1>3, <1>8, <2>1
<1>10. ASSUME NEW k \in i + 1 .. n  PROVE t[k] = q[k]
  BY <1>2, <1>3, <1>8
<1>11. ASSUME NEW k \in 1 .. h  PROVE \E j \in 1 .. i : t[k] = q[j]
  <2>1. PICK j \in 1 .. h : t[k] = u[j]
    BY <1>2, <1>8
  <2>2. CASE j = 1
    BY <1>2, <1>3, <2>1, <2>2
  <2>3. CASE j # 1
    <3>1. j \in 1 .. n /\ j # i /\ j \in 1 .. i
      BY <1>2
    <3>2. QED
      BY <1>3, <2>1, <2>3, <3>1
  <2>4. QED
    BY <2>2, <2>3
<1>12. ASSUME NEW j \in 1 .. i  PROVE q[j] <= q[1]
  BY <1>1, <1>2, HeapMax
<1>13. ASSUME NEW j \in 1 .. h, NEW k \in i .. n  PROVE t[j] <= t[k]
  <2>1. PICK o \in 1 .. i : t[j] = q[o]
    BY <1>11
  <2>2. CASE k = i
    BY <1>9, <1>12, <2>1, <2>2
  <2>3. CASE k # i
    <3>1. k \in i + 1 .. n
      BY <2>3
    <3>2. QED
      BY <1>1, <1>10, <2>1, <3>1
  <2>4. QED
    BY <2>2, <2>3
<1>14. ASSUME NEW j \in i .. n, NEW k \in i .. n, j < k  PROVE t[j] <= t[k]
  <2>1. k \in i + 1 .. n
    BY <1>14
  <2>2. CASE j = i
    <3>1. 1 \in 1 .. i
      BY <1>2
    <3>2. q[1] <= q[k]
      BY <1>1, <2>1, <3>1
    <3>3. QED
      BY <1>9, <1>10, <2>1, <2>2, <3>2
  <2>3. CASE j # i
    <3>1. j \in i + 1 .. n
      BY <2>3
    <3>2. q[j] <= q[k]
      BY <1>1, <1>14, <2>1, <3>1 DEF OrderedIn
    <3>3. QED
      BY <1>10, <2>1, <3>1, <3>2
  <2>4. QED
    BY <2>2, <2>3
<1>15. OrderedIn(t, h + 1, n)
  BY <1>2, <1>14, Zenon DEF OrderedIn
<1>16. \A j \in 1 .. h, k \in h + 1 .. n : t[j] <= t[k]
  BY <1>2, <1>13, Zenon
<1>17. Popping(s, n, t, h)
  BY <1>6, <1>7, <1>15, <1>16 DEF Popping
<1>18. QED
  BY <1>6, <1>17 DEF t, u, h

(* When no more than one element is left, all is sorted. *)
LEMMA PopEnd ==
  ASSUME NEW n \in Nat, NEW s, NEW q \in [1 .. n -> Int], NEW i \in 0 .. n, i <= 1, Popping(s, n, q, i)
  PROVE  Shuffled(s, q, n, 1, n) /\ OrderedIn(q, 1, n)
<1>1. /\ Shuffled(s, q, n, 1, n) /\ OrderedIn(q, i + 1, n)
      /\ \A j \in 1 .. i, k \in i + 1 .. n : q[j] <= q[k]
  BY DEF Popping
<1>2. ASSUME NEW j \in 1 .. n, NEW k \in 1 .. n, j < k  PROVE q[j] <= q[k]
  <2>1. k \in i + 1 .. n
    BY <1>2
  <2>2. j \in 1 .. i \/ j \in i + 1 .. n
    BY <1>2
  <2>3. QED
    BY <1>1, <1>2, <2>1, <2>2 DEF OrderedIn
<1>3. QED
  BY <1>1, <1>2 DEF OrderedIn

\* The measure of both loops of heapSort: their index.
CountOf(n) == [x \in HeapState(n, 0 .. n) |-> x.i]

\* The step stays or counts i down.
CountsDown(y, n, q, i) ==
  y = HeapVars(q, i) \/ (i >= 1 /\ \E t \in [1 .. n -> Int] : y = HeapVars(t, i - 1))

(* A loop that counts down ends. *)
LEMMA CountsHalt ==
  ASSUME NEW n \in Nat, NEW step, step = [x \in HeapState(n, 0 .. n) |-> step[x]],
         \A q \in [1 .. n -> Int], i \in 0 .. n : CountsDown(step[HeapVars(q, i)], n, q, i)
  PROVE  /\ step \in [HeapState(n, 0 .. n) -> HeapState(n, 0 .. n)]
         /\ CountOf(n) \in [HeapState(n, 0 .. n) -> Nat]
         /\ Halts(HeapState(n, 0 .. n), step, CountOf(n))
<1> DEFINE S == HeapState(n, 0 .. n)
           m == CountOf(n)
<1>1. \A x \in S : m[x] = x.i
  BY DEF CountOf
<1>2. m = [x \in S |-> m[x]]
  <2>1. DOMAIN m = S /\ m = [x \in DOMAIN m |-> m[x]]
    BY DEF CountOf
  <2>2. QED
    BY <2>1, Zenon
<1>3. ASSUME NEW x \in S
      PROVE  step[x] \in S /\ m[x] \in Nat /\ (step[x] = x \/ m[step[x]] < m[x])
  <2>1. PICK q \in [1 .. n -> Int], i \in 0 .. n : x = HeapVars(q, i)
    BY HeapStateIs
  <2>2. CountsDown(step[x], n, q, i)
    BY <2>1
  <2>3. m[x] = i /\ i \in Nat
    <3>1. x.i = i
      BY <2>1, HeapVarsAre
    <3> HIDE DEF m, S
    <3>2. m[x] = i
      BY <1>1, <3>1, Zenon
    <3>3. QED
      BY <3>2
  <2> HIDE DEF m
  <2>4. CASE step[x] = HeapVars(q, i)
    BY <2>1, <2>3, <2>4
  <2>5. CASE i >= 1 /\ \E t \in [1 .. n -> Int] : step[x] = HeapVars(t, i - 1)
    <3>1. PICK t \in [1 .. n -> Int] : step[x] = HeapVars(t, i - 1)
      BY <2>5
    <3> DEFINE h == i - 1
    <3>2. h \in 0 .. n /\ h < i
      BY <2>5
    <3> HIDE DEF h, S
    <3>3. step[x] = HeapVars(t, h)
      BY <3>1 DEF h
    <3>4. step[x] \in S
      BY <3>2, <3>3, HeapVarsIn DEF S
    <3>5. step[x].i = h
      BY <3>3, HeapVarsAre
    <3>6. m[step[x]] = h
      BY <1>1, <3>4, <3>5, Zenon
    <3>7. QED
      BY <2>3, <3>2, <3>4, <3>6
  <2>6. QED
    BY <2>2, <2>4, <2>5 DEF CountsDown
<1> HIDE DEF S, m
<1>4. step \in [S -> S] /\ m \in [S -> Nat]
  <2>1. step = [x \in S |-> step[x]]
    BY DEF S
  <2>2. QED
    BY <1>2, <1>3, <2>1
<1>5. Halts(S, step, m)
  BY <1>3 DEF Halts
<1>6. QED
  BY <1>4, <1>5 DEF S, m

\* Where a step of the two loops goes.
LEMMA HeapStepIs ==
  ASSUME NEW n \in Nat, NEW s \in [1 .. n -> Int], NEW q \in [1 .. n -> Int], NEW i \in 0 .. n
  PROVE  HeapStep(s)[HeapVars(q, i)] =
           IF i = 0 THEN HeapVars(q, i) ELSE HeapVars(Adjust(q, i, n), i - 1)
<1> DEFINE x == HeapVars(q, i)
<1>1. Arrays(s) = [1 .. n -> Int] /\ Len(s) = n
  BY ArrayIs
<1>2. x \in HeapState(n, 0 .. n) /\ x.seq = q /\ x.i = i
  BY HeapVarsIn, HeapVarsAre
<1> HIDE DEF x
<1>3. x \in [seq : Arrays(s), i : 0 .. Len(s)]
  BY <1>1, <1>2, Zenon DEF HeapState
<1>4. HeapStep(s)[x] = IF i = 0 THEN x ELSE [seq |-> Adjust(q, i, n), i |-> i - 1]
  BY <1>1, <1>2, <1>3, Zenon DEF HeapStep
<1>5. QED
  BY <1>4, Zenon DEF x, HeapVars

(* What one pass of the second loop of heapSort does. *)
LEMMA PopStepIs ==
  ASSUME NEW n \in Nat, NEW s \in [1 .. n -> Int], NEW q \in [1 .. n -> Int], NEW i \in 0 .. n
  PROVE  PopStep(s)[HeapVars(q, i)] =
           IF i <= 1 THEN HeapVars(q, i)
           ELSE HeapVars(Adjust(Swapped(q, i, 1), 1, i - 1), i - 1)
<1> DEFINE x == HeapVars(q, i)
<1>1. Arrays(s) = [1 .. n -> Int] /\ Len(s) = n
  BY ArrayIs
<1>2. x \in HeapState(n, 0 .. n) /\ x.seq = q /\ x.i = i
  BY HeapVarsIn, HeapVarsAre
<1> HIDE DEF x
<1>3. x \in [seq : Arrays(s), i : 0 .. Len(s)]
  BY <1>1, <1>2, Zenon DEF HeapState
<1>4. PopStep(s)[x] =
        IF i <= 1 THEN x ELSE [seq |-> Adjust(Swapped(q, i, 1), 1, i - 1), i |-> i - 1]
  BY <1>2, <1>3, Zenon DEF PopStep
<1>5. QED
  BY <1>4, Zenon DEF x, HeapVars

(* Both bodies are functions on the states of the loops. *)
LEMMA HeapStepType ==
  ASSUME NEW n \in Nat, NEW s \in [1 .. n -> Int]
  PROVE  /\ HeapStep(s) = [x \in HeapState(n, 0 .. n) |-> HeapStep(s)[x]]
         /\ PopStep(s) = [x \in HeapState(n, 0 .. n) |-> PopStep(s)[x]]
<1>1. [seq : Arrays(s), i : 0 .. Len(s)] = HeapState(n, 0 .. n)
  BY ArrayIs DEF HeapState
<1>2. DOMAIN HeapStep(s) = HeapState(n, 0 .. n) /\ DOMAIN PopStep(s) = HeapState(n, 0 .. n)
  BY <1>1, Zenon DEF HeapStep, PopStep
<1>3. /\ HeapStep(s) = [x \in DOMAIN HeapStep(s) |-> HeapStep(s)[x]]
      /\ PopStep(s) = [x \in DOMAIN PopStep(s) |-> PopStep(s)[x]]
  BY DEF HeapStep, PopStep
<1>4. QED
  BY <1>2, <1>3, Zenon

(* Whatever the array, adjust leaves an array. *)
LEMMA AdjustType ==
  ASSUME NEW n \in Nat, NEW s \in [1 .. n -> Int], NEW size \in 1 .. n, NEW b \in 1 .. size
  PROVE  Adjust(s, b, size) \in [1 .. n -> Int]
<1> DEFINE step == AdjustStep(s, size)
           S == HeapState(n, 1 .. size)
           m == SiftRoom(n, size)
           x0 == HeapVars(s, b)
           end == While(step, x0)
<1>1. Adjust(s, b, size) = end.seq
  BY DEF Adjust, HeapVars
<1>2. step \in [S -> S] /\ Halts(S, step, m) /\ m \in [S -> Nat]
  BY AdjustHalts
<1>3. x0 \in S
  BY HeapVarsIn
<1>4. end \in S
  <2> HIDE DEF S, step, m, x0
  <2>1. S \in SUBSET S /\ \A y \in S : step[y] \in S
    BY <1>2
  <2>2. QED
    BY <1>2, <1>3, <2>1, WhileEnds
<1> HIDE DEF end
<1>5. end.seq \in [1 .. n -> Int]
  BY <1>4 DEF HeapState
<1>6. QED
  BY <1>1, <1>5

(* Both loops count down. *)
LEMMA HeapStepsCount ==
  ASSUME NEW n \in Nat, NEW s \in [1 .. n -> Int], NEW q \in [1 .. n -> Int], NEW i \in 0 .. n
  PROVE  /\ CountsDown(HeapStep(s)[HeapVars(q, i)], n, q, i)
         /\ CountsDown(PopStep(s)[HeapVars(q, i)], n, q, i)
<1>1. CountsDown(HeapStep(s)[HeapVars(q, i)], n, q, i)
  <2>1. CASE i = 0
    BY <2>1, HeapStepIs, Zenon DEF CountsDown
  <2>2. CASE i # 0
    <3>1. i \in 1 .. n /\ i >= 1 /\ n \in 1 .. n /\ i \in 1 .. n
      BY <2>2
    <3>2. Adjust(q, i, n) \in [1 .. n -> Int]
      BY <3>1, AdjustType
    <3>3. HeapStep(s)[HeapVars(q, i)] = HeapVars(Adjust(q, i, n), i - 1)
      BY <2>2, HeapStepIs, Zenon
    <3>4. QED
      BY <3>1, <3>2, <3>3, Zenon DEF CountsDown
  <2>3. QED
    BY <2>1, <2>2
<1>2. CountsDown(PopStep(s)[HeapVars(q, i)], n, q, i)
  <2>1. CASE i <= 1
    BY <2>1, PopStepIs, Zenon DEF CountsDown
  <2>2. CASE ~ (i <= 1)
    <3> DEFINE u == Swapped(q, i, 1)
               h == i - 1
    <3>1. i >= 1 /\ h \in 1 .. n /\ 1 \in 1 .. h /\ i \in 1 .. n /\ 1 \in 1 .. n
      BY <2>2
    <3>2. u \in [1 .. n -> Int]
      BY <3>1 DEF Swapped
    <3> HIDE DEF u, h
    <3>3. Adjust(u, 1, h) \in [1 .. n -> Int]
      BY <3>1, <3>2, AdjustType
    <3>4. PopStep(s)[HeapVars(q, i)] = HeapVars(Adjust(u, 1, h), h)
      BY <2>2, PopStepIs, Zenon DEF u, h
    <3>5. QED
      BY <3>1, <3>3, <3>4, Zenon DEF CountsDown, h
  <2>3. QED
    BY <2>1, <2>2
<1>3. QED
  BY <1>1, <1>2

(* Both loops end. *)
LEMMA HeapStepsHalt ==
  ASSUME NEW n \in Nat, NEW s \in [1 .. n -> Int]
  PROVE  /\ HeapStep(s) \in [HeapState(n, 0 .. n) -> HeapState(n, 0 .. n)]
         /\ Halts(HeapState(n, 0 .. n), HeapStep(s), CountOf(n))
         /\ PopStep(s) \in [HeapState(n, 0 .. n) -> HeapState(n, 0 .. n)]
         /\ Halts(HeapState(n, 0 .. n), PopStep(s), CountOf(n))
         /\ CountOf(n) \in [HeapState(n, 0 .. n) -> Nat]
<1> DEFINE heap == HeapStep(s)
           pop == PopStep(s)
<1>1. /\ heap = [x \in HeapState(n, 0 .. n) |-> heap[x]]
      /\ pop = [x \in HeapState(n, 0 .. n) |-> pop[x]]
  BY HeapStepType
<1>2. \A q \in [1 .. n -> Int], i \in 0 .. n :
        CountsDown(heap[HeapVars(q, i)], n, q, i) /\ CountsDown(pop[HeapVars(q, i)], n, q, i)
  BY HeapStepsCount
<1> HIDE DEF heap, pop
<1>3. QED
  BY <1>1, <1>2, CountsHalt DEF heap, pop

\* The first loop leaves a heap.
HeapBuilt(s, n, end) == \E q \in [1 .. n -> Int] : end = HeapVars(q, 0) /\ Building(s, n, q, 0)

(* The first loop of heapSort makes a heap of the array. *)
LEMMA BuildsHeap ==
  ASSUME NEW n \in Nat, NEW s \in [1 .. n -> Int]
  PROVE  HeapBuilt(s, n, While(HeapStep(s), HeapVars(s, n \div 2)))
<1> DEFINE S == HeapState(n, 0 .. n)
           step == HeapStep(s)
           m == CountOf(n)
           I == {x \in S : Building(s, n, x.seq, x.i)}
           h == n \div 2
           x0 == HeapVars(s, h)
           end == While(step, x0)
<1>1. ASSUME NEW q \in [1 .. n -> Int], NEW i \in 0 .. n
      PROVE  step[HeapVars(q, i)] = IF i = 0 THEN HeapVars(q, i) ELSE HeapVars(Adjust(q, i, n), i - 1)
  BY HeapStepIs
<1>2. step \in [S -> S] /\ Halts(S, step, m) /\ m \in [S -> Nat] /\ I \in SUBSET S
  BY HeapStepsHalt
<1>3. h \in 0 .. n /\ Building(s, n, s, h)
  BY BuildStart
<1> HIDE DEF step, m, h
<1>4. ASSUME NEW q \in [1 .. n -> Int], NEW i \in 0 .. n
      PROVE  HeapVars(q, i) \in I <=> Building(s, n, q, i)
  <2> DEFINE x == HeapVars(q, i)
  <2>1. x \in S /\ x.seq = q /\ x.i = i
    BY HeapVarsIn, HeapVarsAre
  <2> HIDE DEF x, S
  <2>2. x \in I <=> Building(s, n, q, i)
    BY <2>1, Zenon
  <2>3. QED
    BY <2>2 DEF x
<1>5. \A x \in I : \E q \in [1 .. n -> Int], i \in 0 .. n : x = HeapVars(q, i)
  BY HeapStateIs
<1> HIDE DEF I, S
<1>6. x0 \in I
  BY <1>3, <1>4
<1>7. ASSUME NEW x \in I  PROVE step[x] \in I
  <2>1. PICK q \in [1 .. n -> Int], i \in 0 .. n : x = HeapVars(q, i)
    BY <1>5
  <2>2. Building(s, n, q, i)
    BY <1>4, <2>1
  <2>3. CASE i = 0
    BY <1>1, <2>1, <2>3
  <2>4. CASE i # 0
    <3>1. i \in 1 .. n /\ i - 1 \in 0 .. n
      BY <2>4
    <3>2. Adjust(q, i, n) \in [1 .. n -> Int] /\ Building(s, n, Adjust(q, i, n), i - 1)
      BY <2>2, <3>1, BuildStep
    <3>3. step[x] = HeapVars(Adjust(q, i, n), i - 1)
      BY <1>1, <2>1, <2>4
    <3> DEFINE t == Adjust(q, i, n)
               k == i - 1
    <3> HIDE DEF t, k
    <3>4. HeapVars(t, k) \in I
      BY <1>4, <3>1, <3>2 DEF t, k
    <3>5. QED
      BY <3>3, <3>4 DEF t, k
  <2>5. QED
    BY <2>3, <2>4
<1>8. end \in I /\ step[end] = end
  <2> HIDE DEF x0
  <2>1. QED
    BY <1>2, <1>6, <1>7, WhileEnds
<1> HIDE DEF end
<1>9. PICK q \in [1 .. n -> Int], i \in 0 .. n : end = HeapVars(q, i)
  BY <1>5, <1>8
<1>10. Building(s, n, q, i)
  BY <1>4, <1>8, <1>9
<1>11. i = 0
  <2>1. SUFFICES ASSUME i # 0  PROVE FALSE
    OBVIOUS
  <2> DEFINE t == Adjust(q, i, n)
             k == i - 1
  <2>2. HeapVars(q, i) = HeapVars(t, k)
    BY <1>1, <1>8, <1>9, <2>1
  <2> HIDE DEF t, k
  <2>3. HeapVars(q, i).i = i /\ HeapVars(t, k).i = k
    BY HeapVarsAre
  <2>4. i = i - 1
    BY <2>2, <2>3, Zenon DEF k
  <2>5. QED
    BY <2>4
<1>12. HeapBuilt(s, n, end)
  BY <1>9, <1>10, <1>11, Zenon DEF HeapBuilt
<1>13. QED
  BY <1>12 DEF end, x0, step, h

\* The second loop leaves the values sorted.
HeapPopped(s, n, end) ==
  \E q \in [1 .. n -> Int], i \in 0 .. n :
    end = HeapVars(q, i) /\ Shuffled(s, q, n, 1, n) /\ OrderedIn(q, 1, n)

(* The second loop of heapSort sorts a heap. *)
LEMMA PopsHeap ==
  ASSUME NEW n \in Nat, NEW s \in [1 .. n -> Int], NEW q0 \in [1 .. n -> Int], Building(s, n, q0, 0)
  PROVE  HeapPopped(s, n, While(PopStep(s), HeapVars(q0, n)))
<1> DEFINE S == HeapState(n, 0 .. n)
           step == PopStep(s)
           m == CountOf(n)
           I == {x \in S : Popping(s, n, x.seq, x.i)}
           x0 == HeapVars(q0, n)
           end == While(step, x0)
<1>1. ASSUME NEW q \in [1 .. n -> Int], NEW i \in 0 .. n
      PROVE  step[HeapVars(q, i)] =
               IF i <= 1 THEN HeapVars(q, i)
               ELSE HeapVars(Adjust(Swapped(q, i, 1), 1, i - 1), i - 1)
  BY PopStepIs
<1>2. step \in [S -> S] /\ Halts(S, step, m) /\ m \in [S -> Nat] /\ I \in SUBSET S
  BY HeapStepsHalt
<1>3. n \in 0 .. n /\ Popping(s, n, q0, n)
  BY PopStart
<1> HIDE DEF step, m
<1>4. ASSUME NEW q \in [1 .. n -> Int], NEW i \in 0 .. n
      PROVE  HeapVars(q, i) \in I <=> Popping(s, n, q, i)
  <2> DEFINE x == HeapVars(q, i)
  <2>1. x \in S /\ x.seq = q /\ x.i = i
    BY HeapVarsIn, HeapVarsAre
  <2> HIDE DEF x, S
  <2>2. x \in I <=> Popping(s, n, q, i)
    BY <2>1, Zenon
  <2>3. QED
    BY <2>2 DEF x
<1>5. \A x \in I : \E q \in [1 .. n -> Int], i \in 0 .. n : x = HeapVars(q, i)
  BY HeapStateIs
<1> HIDE DEF I, S
<1>6. x0 \in I
  BY <1>3, <1>4
<1>7. ASSUME NEW x \in I  PROVE step[x] \in I
  <2>1. PICK q \in [1 .. n -> Int], i \in 0 .. n : x = HeapVars(q, i)
    BY <1>5
  <2>2. Popping(s, n, q, i)
    BY <1>4, <2>1
  <2>3. CASE i <= 1
    BY <1>1, <2>1, <2>3
  <2>4. CASE ~ (i <= 1)
    <3> DEFINE t == Adjust(Swapped(q, i, 1), 1, i - 1)
               k == i - 1
    <3>1. i \in 2 .. n /\ k \in 0 .. n
      BY <2>4
    <3>2. t \in [1 .. n -> Int] /\ Popping(s, n, t, k)
      BY <2>2, <3>1, PopOne
    <3>3. step[x] = HeapVars(t, k)
      BY <1>1, <2>1, <2>4
    <3> HIDE DEF t, k
    <3>4. HeapVars(t, k) \in I
      BY <1>4, <3>1, <3>2
    <3>5. QED
      BY <3>3, <3>4
  <2>5. QED
    BY <2>3, <2>4
<1>8. end \in I /\ step[end] = end
  <2> HIDE DEF x0
  <2>1. QED
    BY ZenonT(40), <1>2, <1>6, <1>7, WhileEnds
<1> HIDE DEF end
<1>9. PICK q \in [1 .. n -> Int], i \in 0 .. n : end = HeapVars(q, i)
  BY <1>5, <1>8
<1>10. Popping(s, n, q, i)
  BY <1>4, <1>8, <1>9
<1>11. i <= 1
  <2>1. SUFFICES ASSUME ~ (i <= 1)  PROVE FALSE
    OBVIOUS
  <2> DEFINE t == Adjust(Swapped(q, i, 1), 1, i - 1)
             k == i - 1
  <2>2. HeapVars(q, i) = HeapVars(t, k)
    BY <1>1, <1>8, <1>9, <2>1
  <2> HIDE DEF t, k
  <2>3. HeapVars(q, i).i = i /\ HeapVars(t, k).i = k
    BY HeapVarsAre
  <2>4. i = i - 1
    BY <2>2, <2>3, Zenon DEF k
  <2>5. QED
    BY <2>4
<1>12. Shuffled(s, q, n, 1, n) /\ OrderedIn(q, 1, n)
  BY <1>10, <1>11, PopEnd
<1>13. HeapPopped(s, n, end)
  BY <1>9, <1>12, Zenon DEF HeapPopped
<1>14. QED
  BY <1>13 DEF end, x0, step

(* Heap sort sorts. *)
LEMMA HeapSorts ==
  ASSUME NEW s \in Seq(Int)
  PROVE  SortedFrom(s, HeapSort(s))
<1> DEFINE n == Len(s)
           heap == While(HeapStep(s), HeapVars(s, n \div 2))
           end == While(PopStep(s), HeapVars(heap.seq, n))
<1>0. n \in Nat /\ s \in [1 .. n -> Int]
  OBVIOUS
<1>1. HeapSort(s) = end.seq
  BY Zenon DEF HeapSort, HeapVars
<1> HIDE DEF n
<1>2. PICK q \in [1 .. n -> Int] : heap = HeapVars(q, 0) /\ Building(s, n, q, 0)
  <2>1. HeapBuilt(s, n, heap)
    BY <1>0, BuildsHeap
  <2> HIDE DEF heap
  <2>2. QED
    BY <2>1, Zenon DEF HeapBuilt
<1>3. heap.seq = q
  <2> HIDE DEF heap
  <2>1. QED
    BY <1>2, HeapVarsAre, Zenon
<1>4. HeapPopped(s, n, end)
  <2>1. HeapPopped(s, n, While(PopStep(s), HeapVars(q, n)))
    BY <1>0, <1>2, PopsHeap
  <2> HIDE DEF heap
  <2>2. QED
    BY <1>3, <2>1, Zenon
<1> HIDE DEF heap, end
<1>5. PICK t \in [1 .. n -> Int], i \in 0 .. n :
        end = HeapVars(t, i) /\ Shuffled(s, t, n, 1, n) /\ OrderedIn(t, 1, n)
  BY <1>4, Zenon DEF HeapPopped
<1>6. HeapSort(s) = t
  BY <1>1, <1>5, HeapVarsAre, Zenon
<1>7. t \in Seq(Int) /\ Len(t) = n
  BY <1>0, ArrayIs
<1>8. SortedFrom(s, t)
  BY <1>5, <1>7, Zenon DEF SortedFrom, Ordered, OrderedIn, n
<1>9. QED
  BY <1>6, <1>8

(* The three sorts sort. *)
LEMMA SortsAreRight ==
  ASSUME NEW s \in Seq(Int)
  PROVE  SortsRight(s)
<1>1. /\ MergeSort(s) \in Rearranged(s) /\ IsSorted(MergeSort(s), <=)
  BY MergeSorts, SortedFromIs
<1>2. /\ HeapSort(s) \in Rearranged(s) /\ IsSorted(HeapSort(s), <=)
  BY HeapSorts, SortedFromIs
<1>3. QuickSort(s) # {} /\ \A t \in QuickSort(s) : t \in Rearranged(s) /\ IsSorted(t, <=)
  BY QuickSorts
<1>4. QED
  BY <1>1, <1>2, <1>3, Zenon DEF SortsRight

-----------------------------------------------------------------------------
(* Subsequences *)

\* f maps 1 .. m to rising places.
Rising(f, m) == \A i, j \in 1 .. m : i < j => f[i] < f[j]

\* t has the elements of s at f[1], f[2], ...
Selects(f, s, t) ==
  /\ f \in [1 .. Len(t) -> 1 .. Len(s)] /\ Rising(f, Len(t))
  /\ \A k \in 1 .. Len(t) : t[k] = s[f[k]]

(* Increasing places among n are no more than n. *)
LEMMA RisingRoom ==
  ASSUME NEW m \in Nat, NEW n \in Nat, NEW f \in [1 .. m -> 1 .. n], Rising(f, m)
  PROVE  m <= n
<1> DEFINE B == {k \in Nat : k \in 1 .. m /\ f[k] < k}
<1>1. \A k \in 1 .. m : f[k] \in Int /\ f[k] >= 1 /\ f[k] <= n
  OBVIOUS
<1>2. B = {}
  <2>1. SUFFICES ASSUME B # {}  PROVE FALSE
    OBVIOUS
  <2>2. PICK k \in B : \A i \in B : k <= i
    <3>1. B \subseteq Nat
      OBVIOUS
    <3> HIDE DEF B
    <3>2. QED
      BY <2>1, <3>1, LeastElement
  <2>3. k \in 1 .. m /\ f[k] < k /\ k >= 2
    BY <1>1, <2>2
  <2>4. k - 1 \in 1 .. m /\ k - 1 < k
    BY <2>3
  <2>5. f[k - 1] < f[k]
    BY <2>3, <2>4 DEF Rising
  <2>6. f[k - 1] < k - 1
    BY <1>1, <2>3, <2>4, <2>5
  <2>7. k - 1 \in B
    BY <2>4, <2>6
  <2>8. QED
    BY <2>2, <2>3, <2>4, <2>7
<1>3. CASE m = 0
  BY <1>3
<1>4. CASE m # 0
  <2>1. m \in 1 .. m
    BY <1>4
  <2>2. ~ (f[m] < m)
    BY <1>2, <2>1
  <2>3. QED
    BY <1>1, <2>1, <2>2
<1>5. QED
  BY <1>3, <1>4

(* Each subsequence is selected by rising places. *)
LEMMA SubsequenceIs ==
  ASSUME NEW s \in Seq(Int), NEW t \in AllSubsequences(s)
  PROVE  t \in Seq(Int) /\ \E f : Selects(f, s, t)
<1>1. PICK f \in Selections(s) : t = [k \in DOMAIN f |-> s[f[k]]]
  BY DEF AllSubsequences
<1>2. /\ \A i, j \in 1 .. Len(f) : i < j => f[i] < f[j]
      /\ DOMAIN s = 1 .. Len(s) /\ Len(s) \in Nat /\ s \in [1 .. Len(s) -> Int]
  BY DEF Selections, IsSorted
<1>3. PICK m \in 0 .. Len(s) : f \in [1 .. m -> 1 .. Len(s)]
  BY <1>2 DEF Selections, BoundedSeq, SeqOf
<1>4. f \in Seq(Int) /\ Len(f) = m /\ DOMAIN f = 1 .. m
  <2>1. m \in Nat /\ f \in [1 .. m -> Int]
    BY <1>3
  <2>2. QED
    BY <2>1, ArrayIs
<1>5. t \in [1 .. m -> Int] /\ \A k \in 1 .. m : t[k] = s[f[k]]
  BY <1>1, <1>2, <1>3, <1>4
<1>6. t \in Seq(Int) /\ Len(t) = m
  <2>1. m \in Nat
    OBVIOUS
  <2>2. QED
    BY <1>5, <2>1, ArrayIs
<1>7. Selects(f, s, t)
  BY <1>2, <1>3, <1>4, <1>5, <1>6 DEF Selects, Rising
<1>8. QED
  BY <1>6, <1>7

(* What rising places select is a subsequence. *)
LEMMA IsSubsequence ==
  ASSUME NEW s \in Seq(Int), NEW t \in Seq(Int), NEW f, Selects(f, s, t)
  PROVE  t \in AllSubsequences(s)
<1> DEFINE m == Len(t)
<1>1. /\ m \in Nat /\ Len(s) \in Nat /\ f \in [1 .. m -> 1 .. Len(s)] /\ Rising(f, m)
      /\ \A k \in 1 .. m : t[k] = s[f[k]]
      /\ DOMAIN s = 1 .. Len(s) /\ t = [k \in 1 .. m |-> t[k]]
  BY DEF Selects
<1> HIDE DEF m
<1>2. f \in Seq(Int) /\ Len(f) = m /\ DOMAIN f = 1 .. m
  <2>1. f \in [1 .. m -> Int]
    BY <1>1
  <2>2. QED
    BY <1>1, <2>1, ArrayIs
<1>3. m \in 0 .. Len(s)
  <2>1. m <= Len(s)
    <3> DEFINE n == Len(s)
    <3>1. n \in Nat /\ f \in [1 .. m -> 1 .. n]
      BY <1>1
    <3> HIDE DEF n
    <3>2. m <= n
      BY <1>1, <3>1, RisingRoom
    <3>3. QED
      BY <3>2 DEF n
  <2>2. QED
    BY <1>1, <2>1
<1>4. f \in BoundedSeq(DOMAIN s, Len(s))
  BY <1>1, <1>3 DEF BoundedSeq, SeqOf
<1>5. IsSorted(f, <)
  BY <1>1, <1>2 DEF IsSorted, Rising
<1>6. f \in Selections(s)
  BY <1>4, <1>5 DEF Selections
<1>7. t = [k \in DOMAIN f |-> s[f[k]]]
  BY <1>1, <1>2
<1>8. QED
  BY <1>6, <1>7 DEF AllSubsequences

\* t is v put in front of u.
InFront(v, u, t) ==
  /\ t \in Seq(Int) /\ Len(t) = Len(u) + 1 /\ Len(u) \in Nat /\ t[1] = v
  /\ \A k \in 1 .. Len(u) : t[k + 1] = u[k]

(* A sequence with an element in front. *)
LEMMA FrontIs ==
  ASSUME NEW v \in Int, NEW u \in Seq(Int)
  PROVE  InFront(v, u, <<v>> \o u)
<1>1. <<v>> \in Seq(Int) /\ Len(<<v>>) = 1 /\ <<v>>[1] = v
  OBVIOUS
<1> DEFINE w == <<v>>
<1> HIDE DEF w
<1>2. /\ w \o u \in Seq(Int) /\ Len(w \o u) = Len(w) + Len(u) /\ Len(u) \in Nat
      /\ \A i \in 1 .. Len(w) : (w \o u)[i] = w[i]
      /\ \A i \in 1 .. Len(u) : (w \o u)[Len(w) + i] = u[i]
  BY <1>1, ConcatIs DEF w
<1>3. Len(w) = 1 /\ w[1] = v
  BY <1>1 DEF w
<1>4. \A i \in 1 .. Len(u) : 1 + i = i + 1
  BY <1>2
<1>5. InFront(v, u, w \o u)
  BY <1>2, <1>3, <1>4 DEF InFront
<1>6. QED
  BY <1>5 DEF w

\* What t selects from s lies beyond i.
After(s, t, i) == \E f : Selects(f, s, t) /\ \A k \in 1 .. Len(t) : f[k] > i

(* An element in front of a subsequence from behind its place. *)
LEMMA AfterFront ==
  ASSUME NEW s \in Seq(Int), NEW u \in Seq(Int), NEW t, NEW i \in 1 .. Len(s),
         After(s, u, i), InFront(s[i], u, t)
  PROVE  After(s, t, i - 1)
<1>1. PICK f : Selects(f, s, u) /\ \A k \in 1 .. Len(u) : f[k] > i
  BY DEF After
<1> DEFINE m == Len(u)
           g == [k \in 1 .. m + 1 |-> IF k = 1 THEN i ELSE f[k - 1]]
<1>2. /\ m \in Nat /\ Len(s) \in Nat /\ f \in [1 .. m -> 1 .. Len(s)] /\ Rising(f, m)
      /\ \A k \in 1 .. m : u[k] = s[f[k]] /\ f[k] > i /\ f[k] \in 1 .. Len(s)
      /\ Len(t) = m + 1 /\ t[1] = s[i] /\ \A k \in 1 .. m : t[k + 1] = u[k]
  <2>1. m \in Nat /\ Len(s) \in Nat
    BY DEF InFront
  <2>2. /\ f \in [1 .. m -> 1 .. Len(s)] /\ Rising(f, m)
        /\ \A k \in 1 .. m : u[k] = s[f[k]] /\ f[k] > i
    BY <1>1, Zenon DEF Selects
  <2>3. Len(t) = m + 1 /\ t[1] = s[i] /\ \A k \in 1 .. m : t[k + 1] = u[k]
    BY Zenon DEF InFront
  <2> HIDE DEF m
  <2>4. \A k \in 1 .. m : f[k] \in 1 .. Len(s)
    BY <2>2
  <2>5. QED
    BY <2>1, <2>2, <2>3, <2>4
<1> HIDE DEF m
<1>3. \A k \in 1 .. m + 1 : k = 1 \/ (k # 1 /\ k - 1 \in 1 .. m /\ (k - 1) + 1 = k)
  BY <1>2
<1>4. \A k \in 1 .. m + 1 : g[k] = IF k = 1 THEN i ELSE f[k - 1]
  OBVIOUS
<1>5. g \in [1 .. m + 1 -> 1 .. Len(s)]
  BY <1>2, <1>3
<1> HIDE DEF g
<1>6. ASSUME NEW k \in 1 .. m + 1  PROVE t[k] = s[g[k]] /\ g[k] > i - 1
  <2>1. CASE k = 1
    BY <1>2, <1>4, <2>1
  <2>2. CASE k # 1
    <3>1. g[k] = f[k - 1] /\ k - 1 \in 1 .. m /\ (k - 1) + 1 = k
      BY <1>3, <1>4, <2>2
    <3>2. t[k] = u[k - 1]
      <4>1. t[(k - 1) + 1] = u[k - 1]
        BY <1>2, <3>1
      <4>2. QED
        BY <3>1, <4>1, Zenon
    <3>3. u[k - 1] = s[f[k - 1]] /\ f[k - 1] > i /\ f[k - 1] \in 1 .. Len(s)
      BY <1>2, <3>1
    <3>4. g[k] > i /\ g[k] \in Int
      BY <3>1, <3>3
    <3>5. QED
      BY <3>1, <3>2, <3>3, <3>4
  <2>3. QED
    BY <2>1, <2>2
<1>7. ASSUME NEW k \in 1 .. m + 1, NEW h \in 1 .. m + 1, k < h  PROVE g[k] < g[h]
  <2>1. h # 1 /\ g[h] = f[h - 1] /\ h - 1 \in 1 .. m
    BY <1>3, <1>4, <1>7
  <2>2. CASE k = 1
    <3>1. f[h - 1] > i /\ f[h - 1] \in 1 .. Len(s)
      BY <1>2, <2>1
    <3>2. QED
      BY <1>4, <2>1, <2>2, <3>1
  <2>3. CASE k # 1
    <3>1. g[k] = f[k - 1] /\ k - 1 \in 1 .. m /\ k - 1 < h - 1
      BY <1>3, <1>4, <1>7, <2>3
    <3>2. QED
      BY <1>2, <2>1, <3>1 DEF Rising
  <2>4. QED
    BY <2>2, <2>3
<1>8. Selects(g, s, t)
  BY <1>2, <1>5, <1>6, <1>7 DEF Selects, Rising
<1>9. QED
  BY <1>2, <1>6, <1>8 DEF After

-----------------------------------------------------------------------------
(* Longest common subsequence *)

(* The maximum of two integers. *)
LEMMA MaxOfTwo ==
  ASSUME NEW v \in Int, NEW w \in Int
  PROVE  /\ Max({v, w}) = v \/ Max({v, w}) = w
         /\ Max({v, w}) >= v /\ Max({v, w}) >= w
         /\ v >= w => Max({v, w}) = v
         /\ ~ (v >= w) => Max({v, w}) = w
<1>1. {v, w} \in SUBSET Int /\ v \in {v, w} /\ w \in {v, w}
  OBVIOUS
<1>2. v >= w => \A i \in {v, w} : v >= i
  OBVIOUS
<1>3. ~ (v >= w) => \A i \in {v, w} : w >= i
  OBVIOUS
<1>4. v >= w => Max({v, w}) = v
  BY <1>1, <1>2, MaxIs
<1>5. ~ (v >= w) => Max({v, w}) = w
  BY <1>1, <1>3, MaxIs
<1>6. QED
  BY <1>4, <1>5

\* The places of dp.
Grid(a, b) == (0 .. Len(a)) \X (0 .. Len(b))

\* The entry of dp at i, j from the entries of f.
CommonAt(a, b, dp, i, j) ==
  IF i = 0 \/ j = 0 THEN 0
  ELSE IF a[i] = b[j] THEN dp[<<i - 1, j - 1>>] + 1
  ELSE Max({dp[<<i - 1, j>>], dp[<<i, j - 1>>]})

\* The measure of the entries of dp.
GridSum(a, b) == [x \in Grid(a, b) |-> x[1] + x[2]]

(* The two indices of an entry of dp. *)
LEMMA GridIs ==
  ASSUME NEW a \in Seq(Int), NEW b \in Seq(Int), NEW x \in Grid(a, b)
  PROVE  /\ x[1] \in 0 .. Len(a) /\ x[2] \in 0 .. Len(b) /\ x = <<x[1], x[2]>>
         /\ GridSum(a, b)[x] = x[1] + x[2] /\ GridSum(a, b)[x] \in Nat
BY DEF Grid, GridSum

\* y is a place that x depends on.
Nearer(a, b, x, y) == y \in Grid(a, b) /\ GridSum(a, b)[y] < GridSum(a, b)[x]

(* The entries an entry is computed from have a smaller measure. *)
LEMMA GridNearer ==
  ASSUME NEW a \in Seq(Int), NEW b \in Seq(Int), NEW i \in 1 .. Len(a), NEW j \in 1 .. Len(b)
  PROVE  /\ Nearer(a, b, <<i, j>>, <<i - 1, j - 1>>)
         /\ Nearer(a, b, <<i, j>>, <<i - 1, j>>)
         /\ Nearer(a, b, <<i, j>>, <<i, j - 1>>)
<1>1. /\ <<i, j>> \in Grid(a, b) /\ <<i - 1, j - 1>> \in Grid(a, b)
      /\ <<i - 1, j>> \in Grid(a, b) /\ <<i, j - 1>> \in Grid(a, b)
  BY DEF Grid
<1>2. /\ GridSum(a, b)[<<i, j>>] = i + j /\ GridSum(a, b)[<<i - 1, j - 1>>] = (i - 1) + (j - 1)
      /\ GridSum(a, b)[<<i - 1, j>>] = (i - 1) + j /\ GridSum(a, b)[<<i, j - 1>>] = i + (j - 1)
  BY <1>1 DEF GridSum
<1>3. QED
  BY <1>1, <1>2 DEF Nearer

(* What is computed at a place depends on the nearer places only. *)
LEMMA CommonWithin ==
  ASSUME NEW a \in Seq(Int), NEW b \in Seq(Int), NEW i \in 0 .. Len(a), NEW j \in 0 .. Len(b),
         NEW f, NEW g, \A y \in Grid(a, b) : Nearer(a, b, <<i, j>>, y) => f[y] = g[y]
  PROVE  CommonAt(a, b, f, i, j) = CommonAt(a, b, g, i, j)
<1>1. CASE i = 0 \/ j = 0
  BY <1>1, Zenon DEF CommonAt
<1>2. CASE ~ (i = 0 \/ j = 0)
  <2>1. i \in 1 .. Len(a) /\ j \in 1 .. Len(b)
    BY <1>2
  <2>2. /\ f[<<i - 1, j - 1>>] = g[<<i - 1, j - 1>>]
        /\ f[<<i - 1, j>>] = g[<<i - 1, j>>]
        /\ f[<<i, j - 1>>] = g[<<i, j - 1>>]
    BY <2>1, GridNearer, Zenon DEF Nearer
  <2>3. QED
    BY <1>2, <2>2, Zenon DEF CommonAt
<1>3. QED
  BY <1>1, <1>2

(* An entry computed from naturals is a natural. *)
LEMMA CommonType ==
  ASSUME NEW a \in Seq(Int), NEW b \in Seq(Int), NEW i \in 0 .. Len(a), NEW j \in 0 .. Len(b),
         NEW f, \A y \in Grid(a, b) : Nearer(a, b, <<i, j>>, y) => f[y] \in Nat
  PROVE  CommonAt(a, b, f, i, j) \in Nat
<1>1. CASE i = 0 \/ j = 0
  BY <1>1 DEF CommonAt
<1>2. CASE ~ (i = 0 \/ j = 0)
  <2>1. i \in 1 .. Len(a) /\ j \in 1 .. Len(b)
    BY <1>2
  <2>2. /\ f[<<i - 1, j - 1>>] \in Nat
        /\ f[<<i - 1, j>>] \in Nat
        /\ f[<<i, j - 1>>] \in Nat
    BY <2>1, GridNearer, Zenon DEF Nearer
  <2> DEFINE u == f[<<i - 1, j - 1>>]
             v == f[<<i - 1, j>>]
             w == f[<<i, j - 1>>]
  <2>3. CommonAt(a, b, f, i, j) = IF a[i] = b[j] THEN u + 1 ELSE Max({v, w})
    BY <1>2, Zenon DEF CommonAt
  <2> HIDE DEF u, v, w
  <2>4. u \in Nat /\ v \in Nat /\ w \in Nat
    BY <2>2 DEF u, v, w
  <2>5. u + 1 \in Nat /\ Max({v, w}) \in Nat
    <3>1. Max({v, w}) = v \/ Max({v, w}) = w
      <4>1. v \in Int /\ w \in Int
        BY <2>4
      <4>2. QED
        BY <4>1, MaxOfTwo
    <3>2. QED
      BY <2>4, <3>1
  <2>6. QED
    BY <2>3, <2>5, Zenon
<1>3. QED
  BY <1>1, <1>2

\* dp is filled by the loops.
CommonBy(a, b, dp) ==
  /\ dp \in [Grid(a, b) -> Nat]
  /\ \A i \in 0 .. Len(a), j \in 0 .. Len(b) : dp[<<i, j>>] = CommonAt(a, b, dp, i, j)

(* dp has the entries that its equation describes. *)
LEMMA CommonIs ==
  ASSUME NEW a \in Seq(Int), NEW b \in Seq(Int)
  PROVE  CommonBy(a, b, Common(a, b))
<1> DEFINE S == Grid(a, b)
           V == Nat
           m == GridSum(a, b)
           F == [f \in [S -> V] |-> [x \in S |-> CommonAt(a, b, f, x[1], x[2])]]
           E(f) == f = [x \in (0 .. Len(a)) \X (0 .. Len(b)) |->
                          IF x[1] = 0 \/ x[2] = 0 THEN 0
                          ELSE IF a[x[1]] = b[x[2]] THEN f[<<x[1] - 1, x[2] - 1>>] + 1
                          ELSE Max({f[<<x[1] - 1, x[2]>>], f[<<x[1], x[2] - 1>>]})]
           dp == CHOOSE g : E(g)
<1>1. m \in [S -> Nat]
  <2>1. \A x \in S : x[1] + x[2] \in Nat
    BY DEF Grid
  <2>2. QED
    BY <2>1 DEF GridSum
<1>2. F \in [[S -> V] -> [S -> V]]
  <2>1. ASSUME NEW f \in [S -> V], NEW x \in S  PROVE CommonAt(a, b, f, x[1], x[2]) \in V
    BY GridIs, CommonType
  <2>2. \A f \in [S -> V] : [x \in S |-> CommonAt(a, b, f, x[1], x[2])] \in [S -> V]
    BY <2>1
  <2> HIDE DEF S, V
  <2>3. QED
    BY <2>2, Zenon
<1>3. Descends(S, V, F, m)
  <2> SUFFICES ASSUME NEW f \in [S -> V], NEW g \in [S -> V], NEW x \in S, Agree(S, m, f, g, m[x])
               PROVE  F[f][x] = F[g][x]
    BY Zenon DEF Descends
  <2>1. x[1] \in 0 .. Len(a) /\ x[2] \in 0 .. Len(b) /\ x = <<x[1], x[2]>>
    BY GridIs
  <2>2. \A y \in S : Nearer(a, b, x, y) => f[y] = g[y]
    BY Zenon DEF Agree, Nearer
  <2>3. \A y \in S : Nearer(a, b, <<x[1], x[2]>>, y) => f[y] = g[y]
    BY <2>1, <2>2
  <2>4. CommonAt(a, b, f, x[1], x[2]) = CommonAt(a, b, g, x[1], x[2])
    BY <2>1, <2>3, CommonWithin
  <2>5. F[f][x] = CommonAt(a, b, f, x[1], x[2]) /\ F[g][x] = CommonAt(a, b, g, x[1], x[2])
    <3> HIDE DEF S, V
    <3>1. QED
      BY Zenon
  <2> HIDE DEF F
  <2>6. QED
    BY <2>4, <2>5, Zenon
<1>4. [S -> V] # {}
  <2>1. [x \in S |-> 0] \in [S -> V]
    OBVIOUS
  <2>2. QED
    BY <2>1
<1>5. PICK f0 \in [S -> V] : \A x \in S : f0[x] = F[f0][x]
  <2> HIDE DEF F, S, V, m
  <2>1. HasFixedPoint(S, V, F)
    BY <1>1, <1>2, <1>3, <1>4, FixedPoint DEF V
  <2>2. QED
    BY <2>1 DEF HasFixedPoint
<1>6. \A f : E(f) <=> f = [x \in S |-> CommonAt(a, b, f, x[1], x[2])]
  BY Zenon DEF CommonAt, Grid
<1>7. E(f0)
  <2>1. \A x \in S : f0[x] = CommonAt(a, b, f0, x[1], x[2])
    <3> HIDE DEF S, V
    <3>1. QED
      BY <1>5, Zenon
  <2>2. f0 = [x \in S |-> CommonAt(a, b, f0, x[1], x[2])]
    <3> HIDE DEF S
    <3>1. f0 = [x \in S |-> f0[x]]
      OBVIOUS
    <3>2. QED
      BY <2>1, <3>1, Zenon
  <2> HIDE DEF E
  <2>3. QED
    BY <1>6, <2>2
<1>8. Common(a, b) = dp
  BY Zenon DEF Common
<1>9. E(dp)
  <2> HIDE DEF E
  <2>1. QED
    BY <1>7
<1> HIDE DEF dp
<1>10. dp = [x \in S |-> CommonAt(a, b, dp, x[1], x[2])]
  <2> HIDE DEF E
  <2>1. QED
    BY <1>6, <1>9
<1> HIDE DEF E, F
<1>11. \A x \in S : dp[x] = CommonAt(a, b, dp, x[1], x[2])
  <2> HIDE DEF S
  <2>1. QED
    BY <1>10, Zenon
<1>12. \A x \in S : dp[x] \in V
  <2> DEFINE B == {k \in Nat : \E x \in S : m[x] = k /\ dp[x] \notin V}
  <2>1. SUFFICES ASSUME NEW x \in S, dp[x] \notin V  PROVE FALSE
    OBVIOUS
  <2> HIDE DEF m, V, S
  <2>2. m[x] \in B /\ B \subseteq Nat
    BY <1>1, <2>1
  <2>3. PICK k \in B : \A i \in B : k <= i
    <3> HIDE DEF B
    <3>1. QED
      BY <2>2, LeastElement
  <2>4. PICK z \in S : m[z] = k /\ dp[z] \notin V
    BY <2>3
  <2>5. ASSUME NEW y \in S, Nearer(a, b, z, y)  PROVE dp[y] \in V
    <3>1. m[y] < m[z] /\ m[y] \in Nat /\ m[z] \in Nat
      BY <1>1, <2>5, Zenon DEF Nearer, m
    <3>2. ~ (k <= m[y])
      BY <2>4, <3>1
    <3>3. m[y] \notin B
      <4> HIDE DEF B
      <4>1. QED
        BY <2>3, <3>2
    <3>4. QED
      BY <2>5, <3>1, <3>3
  <2>6. z[1] \in 0 .. Len(a) /\ z[2] \in 0 .. Len(b) /\ z = <<z[1], z[2]>>
    BY <2>4, GridIs DEF S
  <2>7. \A y \in Grid(a, b) : Nearer(a, b, <<z[1], z[2]>>, y) => dp[y] \in Nat
    BY <2>5, <2>6 DEF S, V
  <2>8. CommonAt(a, b, dp, z[1], z[2]) \in Nat
    BY <2>6, <2>7, CommonType
  <2>9. QED
    BY <1>11, <2>4, <2>8 DEF V
<1>13. dp \in [S -> V]
  <2> HIDE DEF S, V
  <2>1. QED
    BY <1>10, <1>11, <1>12
<1>14. ASSUME NEW i \in 0 .. Len(a), NEW j \in 0 .. Len(b)
       PROVE  dp[<<i, j>>] = CommonAt(a, b, dp, i, j)
  <2>1. <<i, j>> \in S /\ <<i, j>>[1] = i /\ <<i, j>>[2] = j
    BY DEF Grid
  <2> DEFINE x == <<i, j>>
  <2> HIDE DEF x, S
  <2>2. dp[x] = CommonAt(a, b, dp, i, j)
    BY <1>11, <2>1, Zenon DEF x
  <2>3. QED
    BY <2>2 DEF x
<1>15. QED
  BY <1>8, <1>13, <1>14 DEF CommonBy

\* Equal elements of a[1 .. i] and b[1 .. j], m of them, in order.
Matched(a, b, f, g, m, i, j) ==
  /\ f \in [1 .. m -> 1 .. i] /\ Rising(f, m)
  /\ g \in [1 .. m -> 1 .. j] /\ Rising(g, m)
  /\ \A k \in 1 .. m : a[f[k]] = b[g[k]]

\* No such m is above dp.
Bound(a, b, dp, i, j) ==
  \A m \in Nat : \A f, g : Matched(a, b, f, g, m, i, j) => m <= dp[<<i, j>>]

(* Nothing is common to an empty prefix. *)
LEMMA MatchedNone ==
  ASSUME NEW a, NEW b, NEW f, NEW g, NEW m \in Nat, NEW i \in Nat, NEW j \in Nat, i = 0 \/ j = 0,
         Matched(a, b, f, g, m, i, j)
  PROVE  m = 0
<1>1. SUFFICES ASSUME m # 0  PROVE FALSE
  OBVIOUS
<1>2. 1 \in 1 .. m
  BY <1>1
<1>3. f[1] \in 1 .. i /\ g[1] \in 1 .. j
  BY <1>2 DEF Matched
<1>4. QED
  BY <1>3

\* The pairs but the last.
LEMMA MatchedLess ==
  ASSUME NEW a, NEW b, NEW f, NEW g, NEW m \in Nat, m # 0, NEW i \in Nat, NEW j \in Nat,
         Matched(a, b, f, g, m, i, j)
  PROVE  Matched(a, b, [k \in 1 .. m - 1 |-> f[k]], [k \in 1 .. m - 1 |-> g[k]], m - 1, i - 1, j - 1)
<1> DEFINE n == m - 1
           f1 == [k \in 1 .. n |-> f[k]]
           g1 == [k \in 1 .. n |-> g[k]]
<1>1. n \in Nat /\ m \in 1 .. m /\ \A k \in 1 .. n : k \in 1 .. m /\ k < m
  OBVIOUS
<1>2. /\ f \in [1 .. m -> 1 .. i] /\ \A k, h \in 1 .. m : k < h => f[k] < f[h]
      /\ g \in [1 .. m -> 1 .. j] /\ \A k, h \in 1 .. m : k < h => g[k] < g[h]
      /\ \A k \in 1 .. m : a[f[k]] = b[g[k]]
  BY DEF Matched, Rising
<1> HIDE DEF n
<1>3. ASSUME NEW k \in 1 .. n  PROVE f[k] \in 1 .. i - 1 /\ g[k] \in 1 .. j - 1
  <2>1. f[k] \in 1 .. i /\ f[m] \in 1 .. i /\ g[k] \in 1 .. j /\ g[m] \in 1 .. j
    BY <1>1, <1>2
  <2>2. f[k] < f[m] /\ g[k] < g[m]
    BY <1>1, <1>2
  <2>3. QED
    BY <2>1, <2>2
<1>4. f1 \in [1 .. n -> 1 .. i - 1] /\ g1 \in [1 .. n -> 1 .. j - 1]
  BY <1>3
<1>5. \A k \in 1 .. n : f1[k] = f[k] /\ g1[k] = g[k]
  OBVIOUS
<1> HIDE DEF f1, g1
<1>6. Rising(f1, n) /\ Rising(g1, n) /\ \A k \in 1 .. n : a[f1[k]] = b[g1[k]]
  BY <1>1, <1>2, <1>5 DEF Rising
<1>7. Matched(a, b, f1, g1, n, i - 1, j - 1)
  BY <1>4, <1>6 DEF Matched
<1>8. QED
  BY <1>7 DEF f1, g1, n

(* Where the last elements differ, one of them is not in the last pair. *)
LEMMA MatchedShort ==
  ASSUME NEW a, NEW b, NEW f, NEW g, NEW m \in Nat, m # 0, NEW i \in Nat, NEW j \in Nat,
         Matched(a, b, f, g, m, i, j), a[i] # b[j]
  PROVE  Matched(a, b, f, g, m, i - 1, j) \/ Matched(a, b, f, g, m, i, j - 1)
<1>1. m \in 1 .. m /\ \A k \in 1 .. m : k = m \/ k < m
  OBVIOUS
<1>2. /\ f \in [1 .. m -> 1 .. i] /\ \A k, h \in 1 .. m : k < h => f[k] < f[h]
      /\ g \in [1 .. m -> 1 .. j] /\ \A k, h \in 1 .. m : k < h => g[k] < g[h]
      /\ \A k \in 1 .. m : a[f[k]] = b[g[k]]
  BY DEF Matched, Rising
<1>3. f[m] # i \/ g[m] # j
  BY <1>1, <1>2
<1>4. CASE f[m] # i
  <2>1. ASSUME NEW k \in 1 .. m  PROVE f[k] \in 1 .. i - 1
    <3>1. f[k] \in 1 .. i /\ f[m] \in 1 .. i
      BY <1>1, <1>2
    <3>2. f[k] = f[m] \/ f[k] < f[m]
      BY <1>1, <1>2, Zenon
    <3>3. QED
      BY <1>4, <3>1, <3>2
  <2>2. f \in [1 .. m -> 1 .. i - 1]
    BY <1>2, <2>1
  <2>3. QED
    BY <2>2 DEF Matched
<1>5. CASE g[m] # j
  <2>1. ASSUME NEW k \in 1 .. m  PROVE g[k] \in 1 .. j - 1
    <3>1. g[k] \in 1 .. j /\ g[m] \in 1 .. j
      BY <1>1, <1>2
    <3>2. g[k] = g[m] \/ g[k] < g[m]
      BY <1>1, <1>2, Zenon
    <3>3. QED
      BY <1>5, <3>1, <3>2
  <2>2. g \in [1 .. m -> 1 .. j - 1]
    BY <1>2, <2>1
  <2>3. QED
    BY <2>2 DEF Matched
<1>6. QED
  BY <1>3, <1>4, <1>5

\* The values of dp about i and j.
CommonNear(a, b, dp, i, j) ==
  /\ dp[<<i, j>>] \in Nat /\ dp[<<i - 1, j - 1>>] \in Nat
  /\ dp[<<i - 1, j>>] \in Nat /\ dp[<<i, j - 1>>] \in Nat
  /\ a[i] = b[j] => dp[<<i, j>>] = dp[<<i - 1, j - 1>>] + 1
  /\ a[i] # b[j] =>
       /\ dp[<<i, j>>] >= dp[<<i - 1, j>>] /\ dp[<<i, j>>] >= dp[<<i, j - 1>>]
       /\ dp[<<i - 1, j>>] >= dp[<<i, j - 1>>] => dp[<<i, j>>] = dp[<<i - 1, j>>]
       /\ ~ (dp[<<i - 1, j>>] >= dp[<<i, j - 1>>]) => dp[<<i, j>>] = dp[<<i, j - 1>>]

(* How an entry of dp relates to its three neighbours. *)
LEMMA CommonNearIs ==
  ASSUME NEW a \in Seq(Int), NEW b \in Seq(Int), NEW dp, CommonBy(a, b, dp),
         NEW i \in 1 .. Len(a), NEW j \in 1 .. Len(b)
  PROVE  CommonNear(a, b, dp, i, j)
<1> DEFINE t == dp[<<i, j>>]
           u == dp[<<i - 1, j - 1>>]
           v == dp[<<i - 1, j>>]
           w == dp[<<i, j - 1>>]
<1>1. t \in Nat /\ u \in Nat /\ v \in Nat /\ w \in Nat
  <2>1. /\ <<i, j>> \in Grid(a, b) /\ <<i - 1, j - 1>> \in Grid(a, b)
        /\ <<i - 1, j>> \in Grid(a, b) /\ <<i, j - 1>> \in Grid(a, b)
    BY DEF Grid
  <2>2. QED
    BY <2>1, Zenon DEF CommonBy
<1>2. t = IF a[i] = b[j] THEN u + 1 ELSE Max({v, w})
  <2>1. i \in 0 .. Len(a) /\ j \in 0 .. Len(b) /\ ~ (i = 0 \/ j = 0)
    OBVIOUS
  <2>2. t = CommonAt(a, b, dp, i, j)
    BY <2>1, Zenon DEF CommonBy
  <2>3. QED
    BY <2>1, <2>2, Zenon DEF CommonAt
<1> HIDE DEF t, u, v, w
<1>3. /\ v \in Int /\ w \in Int
  BY <1>1
<1>4. /\ Max({v, w}) >= v /\ Max({v, w}) >= w
      /\ v >= w => Max({v, w}) = v
      /\ ~ (v >= w) => Max({v, w}) = w
  BY <1>3, MaxOfTwo
<1>5. QED
  BY <1>1, <1>2, <1>4, Zenon DEF CommonNear, t, u, v, w

(* If no common subsequence of the shorter prefixes is longer than their *)
(* entries, none of these is.                                            *)
LEMMA BoundStep ==
  ASSUME NEW a \in Seq(Int), NEW b \in Seq(Int), NEW dp, CommonBy(a, b, dp),
         NEW i \in 1 .. Len(a), NEW j \in 1 .. Len(b),
         Bound(a, b, dp, i - 1, j - 1), Bound(a, b, dp, i - 1, j), Bound(a, b, dp, i, j - 1)
  PROVE  Bound(a, b, dp, i, j)
<1> SUFFICES ASSUME NEW m \in Nat, NEW f, NEW g, Matched(a, b, f, g, m, i, j)
             PROVE  m <= dp[<<i, j>>]
  BY Zenon DEF Bound
<1>1. CommonNear(a, b, dp, i, j)
  BY CommonNearIs
<1> DEFINE t == dp[<<i, j>>]
           u == dp[<<i - 1, j - 1>>]
           v == dp[<<i - 1, j>>]
           w == dp[<<i, j - 1>>]
<1>2. /\ t \in Nat /\ u \in Nat /\ v \in Nat /\ w \in Nat
      /\ a[i] = b[j] => t = u + 1
      /\ a[i] # b[j] => t >= v /\ t >= w
  BY <1>1, Zenon DEF CommonNear
<1>3. i \in Nat /\ j \in Nat
  OBVIOUS
<1> HIDE DEF t, u, v, w
<1>4. CASE m = 0
  BY <1>2, <1>4 DEF t
<1>5. CASE m # 0 /\ a[i] = b[j]
  <2> DEFINE n == m - 1
  <2>1. Matched(a, b, [k \in 1 .. m - 1 |-> f[k]], [k \in 1 .. m - 1 |-> g[k]], n, i - 1, j - 1)
    BY <1>3, <1>5, MatchedLess
  <2>2. n \in Nat /\ m = n + 1
    BY <1>5
  <2> HIDE DEF n
  <2>3. n <= u
    BY <2>1, <2>2, Zenon DEF Bound, u
  <2>4. m <= t
    BY <1>2, <1>5, <2>2, <2>3
  <2>5. QED
    BY <2>4 DEF t
<1>6. CASE m # 0 /\ a[i] # b[j]
  <2>1. Matched(a, b, f, g, m, i - 1, j) \/ Matched(a, b, f, g, m, i, j - 1)
    BY <1>3, <1>6, MatchedShort
  <2>2. m <= v \/ m <= w
    BY <2>1, Zenon DEF Bound, v, w
  <2>3. m <= t
    BY <1>2, <1>6, <2>2
  <2>4. QED
    BY <2>3 DEF t
<1>7. QED
  BY <1>4, <1>5, <1>6

(* No common subsequence of two prefixes is longer than the entry of dp. *)
LEMMA CommonBound ==
  ASSUME NEW a \in Seq(Int), NEW b \in Seq(Int), NEW dp, CommonBy(a, b, dp),
         NEW i0 \in 0 .. Len(a), NEW j0 \in 0 .. Len(b)
  PROVE  Bound(a, b, dp, i0, j0)
<1> DEFINE D == {k \in Nat : \E i \in 0 .. Len(a), j \in 0 .. Len(b) :
                               i + j = k /\ ~ Bound(a, b, dp, i, j)}
<1>0. Len(a) \in Nat /\ Len(b) \in Nat
  OBVIOUS
<1>1. SUFFICES ASSUME ~ Bound(a, b, dp, i0, j0)  PROVE FALSE
  OBVIOUS
<1>2. i0 + j0 \in D /\ D \subseteq Nat
  BY <1>1
<1>3. PICK k \in D : \A h \in D : k <= h
  <2> HIDE DEF D
  <2>1. QED
    BY <1>2, LeastElement
<1>4. PICK i \in 0 .. Len(a), j \in 0 .. Len(b) : i + j = k /\ ~ Bound(a, b, dp, i, j)
  BY <1>3
<1>5. ASSUME NEW i1 \in 0 .. Len(a), NEW j1 \in 0 .. Len(b), i1 + j1 < i + j
      PROVE  Bound(a, b, dp, i1, j1)
  <2>1. SUFFICES ASSUME ~ Bound(a, b, dp, i1, j1)  PROVE FALSE
    OBVIOUS
  <2>2. i1 + j1 \in D
    BY <2>1
  <2>3. ~ (k <= i1 + j1)
    BY <1>4, <1>5
  <2> HIDE DEF D
  <2>4. QED
    BY <1>3, <2>2, <2>3
<1>6. CASE i = 0 \/ j = 0
  <2> SUFFICES ASSUME NEW m \in Nat, NEW f, NEW g, Matched(a, b, f, g, m, i, j)
               PROVE  m <= dp[<<i, j>>]
    BY <1>4, Zenon DEF Bound
  <2>1. m = 0
    BY <1>6, MatchedNone
  <2>2. <<i, j>> \in Grid(a, b)
    BY DEF Grid
  <2>3. dp[<<i, j>>] \in Nat
    BY <2>2, Zenon DEF CommonBy
  <2>4. QED
    BY <2>1, <2>3
<1>7. CASE ~ (i = 0 \/ j = 0)
  <2>1. /\ i \in 1 .. Len(a) /\ j \in 1 .. Len(b)
        /\ i - 1 \in 0 .. Len(a) /\ j - 1 \in 0 .. Len(b)
        /\ (i - 1) + (j - 1) < i + j /\ (i - 1) + j < i + j /\ i + (j - 1) < i + j
    BY <1>7
  <2>2. Bound(a, b, dp, i - 1, j - 1) /\ Bound(a, b, dp, i - 1, j) /\ Bound(a, b, dp, i, j - 1)
    BY <1>5, <2>1
  <2>3. Bound(a, b, dp, i, j)
    BY <2>1, <2>2, BoundStep
  <2>4. QED
    BY <1>4, <2>3
<1>8. QED
  BY <1>6, <1>7

\* The walk back through dp.
WalkState(a, b) == [lcs : Seq(Int), i : 0 .. Len(a), j : 0 .. Len(b)]

\* The variables of the walk back as a record.
WalkVars(t, i, j) == [lcs |-> t, i |-> i, j |-> j]

\* Where a step of it goes.
WalkTo(y, a, b, dp, t, i, j) ==
  \/ (i = 0 \/ j = 0) /\ y = WalkVars(t, i, j)
  \/ i # 0 /\ j # 0 /\ a[i] = b[j] /\ y = WalkVars(<<a[i]>> \o t, i - 1, j - 1)
  \/ /\ i # 0 /\ j # 0 /\ a[i] # b[j] /\ dp[<<i - 1, j>>] >= dp[<<i, j - 1>>]
     /\ y = WalkVars(t, i - 1, j)
  \/ /\ i # 0 /\ j # 0 /\ a[i] # b[j] /\ ~ (dp[<<i - 1, j>>] >= dp[<<i, j - 1>>])
     /\ y = WalkVars(t, i, j - 1)

(* Every state of the walk has the three variables. *)
LEMMA WalkStateIs ==
  ASSUME NEW a, NEW b, NEW x \in WalkState(a, b)
  PROVE  \E t \in Seq(Int), i \in 0 .. Len(a), j \in 0 .. Len(b) : x = WalkVars(t, i, j)
<1>1. /\ x.lcs \in Seq(Int) /\ x.i \in 0 .. Len(a) /\ x.j \in 0 .. Len(b)
      /\ x = WalkVars(x.lcs, x.i, x.j)
  BY DEF WalkState, WalkVars
<1>2. QED
  BY <1>1

(* The fields of the record. *)
LEMMA WalkVarsAre ==
  ASSUME NEW t, NEW i, NEW j
  PROVE  WalkVars(t, i, j).lcs = t /\ WalkVars(t, i, j).i = i /\ WalkVars(t, i, j).j = j
BY DEF WalkVars

(* Variables in their ranges are a state. *)
LEMMA WalkVarsIn ==
  ASSUME NEW a, NEW b, NEW t \in Seq(Int), NEW i \in 0 .. Len(a), NEW j \in 0 .. Len(b)
  PROVE  WalkVars(t, i, j) \in WalkState(a, b)
BY DEF WalkVars, WalkState

(* What one pass of the walk does, in the cases of WalkTo. *)
LEMMA WalkStepIs ==
  ASSUME NEW a, NEW b, NEW dp,
         NEW t \in Seq(Int), NEW i \in 0 .. Len(a), NEW j \in 0 .. Len(b)
  PROVE  WalkTo(WalkStep(a, b, dp)[WalkVars(t, i, j)], a, b, dp, t, i, j)
<1> DEFINE x == WalkVars(t, i, j)
           y == WalkStep(a, b, dp)[x]
<1>1. x \in [lcs : Seq(Int), i : 0 .. Len(a), j : 0 .. Len(b)]
  BY DEF WalkVars
<1>2. x.lcs = t /\ x.i = i /\ x.j = j
  BY WalkVarsAre
<1>3. /\ [x EXCEPT !.i = i - 1] = WalkVars(t, i - 1, j)
      /\ [x EXCEPT !.j = j - 1] = WalkVars(t, i, j - 1)
  <2>1. \A k : [x EXCEPT !.i = k] = WalkVars(t, k, j) /\ [x EXCEPT !.j = k] = WalkVars(t, i, k)
    BY SMTT(30) DEF WalkVars
  <2>2. QED
    BY <2>1
<1> HIDE DEF x
<1>4. y = IF i = 0 \/ j = 0 THEN x
          ELSE IF a[i] = b[j] THEN [lcs |-> <<a[i]>> \o t, i |-> i - 1, j |-> j - 1]
          ELSE IF dp[<<i - 1, j>>] >= dp[<<i, j - 1>>] THEN [x EXCEPT !.i = i - 1]
          ELSE [x EXCEPT !.j = j - 1]
  BY <1>1, <1>2, Zenon DEF WalkStep
<1>5. y = IF i = 0 \/ j = 0 THEN WalkVars(t, i, j)
          ELSE IF a[i] = b[j] THEN WalkVars(<<a[i]>> \o t, i - 1, j - 1)
          ELSE IF dp[<<i - 1, j>>] >= dp[<<i, j - 1>>] THEN WalkVars(t, i - 1, j)
          ELSE WalkVars(t, i, j - 1)
  BY <1>3, <1>4, Zenon DEF WalkVars, x
<1> HIDE DEF y
<1>6. WalkTo(y, a, b, dp, t, i, j)
  BY <1>5, Zenon DEF WalkTo
<1>7. QED
  BY <1>6 DEF y, x

\* The measure of the walk: its distance from the corner of dp.
GridLeft(a, b) == [x \in WalkState(a, b) |-> x.i + x.j]

(* Every pass of the walk comes nearer to the corner. *)
LEMMA WalkHalts ==
  ASSUME NEW a \in Seq(Int), NEW b \in Seq(Int), NEW dp
  PROVE  /\ WalkStep(a, b, dp) \in [WalkState(a, b) -> WalkState(a, b)]
         /\ GridLeft(a, b) \in [WalkState(a, b) -> Nat]
         /\ Halts(WalkState(a, b), WalkStep(a, b, dp), GridLeft(a, b))
<1> DEFINE S == WalkState(a, b)
           step == WalkStep(a, b, dp)
           m == GridLeft(a, b)
<1>1. ASSUME NEW t \in Seq(Int), NEW i \in 0 .. Len(a), NEW j \in 0 .. Len(b)
      PROVE  WalkVars(t, i, j) \in S /\ m[WalkVars(t, i, j)] = i + j
  <2>1. WalkVars(t, i, j) \in S
    BY WalkVarsIn
  <2>2. WalkVars(t, i, j).i = i /\ WalkVars(t, i, j).j = j
    BY WalkVarsAre
  <2> DEFINE x == WalkVars(t, i, j)
  <2> HIDE DEF x
  <2>3. m[x] = i + j
    BY <2>1, <2>2, Zenon DEF GridLeft, x
  <2>4. QED
    BY <2>1, <2>3 DEF x
<1>2. ASSUME NEW x \in S
      PROVE  step[x] \in S /\ m[x] \in Nat /\ (step[x] = x \/ m[step[x]] < m[x])
  <2>1. PICK t \in Seq(Int), i \in 0 .. Len(a), j \in 0 .. Len(b) : x = WalkVars(t, i, j)
    BY WalkStateIs
  <2>2. WalkTo(step[x], a, b, dp, t, i, j)
    BY <2>1, WalkStepIs
  <2> HIDE DEF S, step, m
  <2>3. m[x] = i + j /\ i + j \in Nat
    <3>1. m[x] = i + j
      BY <1>1, <2>1, Zenon
    <3>2. i + j \in Nat
      OBVIOUS
    <3>3. QED
      BY <3>1, <3>2
  <2>4. ASSUME NEW u \in Seq(Int), NEW k \in 0 .. Len(a), NEW h \in 0 .. Len(b), k + h < i + j,
               step[x] = WalkVars(u, k, h)
        PROVE  step[x] \in S /\ m[step[x]] < m[x]
    <3>1. step[x] \in S /\ m[step[x]] = k + h
      <4>1. WalkVars(u, k, h) \in S /\ m[WalkVars(u, k, h)] = k + h
        BY <1>1
      <4>2. QED
        BY <2>4, <4>1, Zenon
    <3>2. QED
      BY <2>3, <2>4, <3>1, Zenon
  <2>5. i # 0 /\ j # 0 => /\ i - 1 \in 0 .. Len(a) /\ j - 1 \in 0 .. Len(b)
                          /\ i \in 1 .. Len(a)
                          /\ (i - 1) + (j - 1) < i + j /\ (i - 1) + j < i + j /\ i + (j - 1) < i + j
    OBVIOUS
  <2>6. CASE step[x] = WalkVars(t, i, j)
    BY <2>1, <2>3, <2>6
  <2>7. CASE i # 0 /\ j # 0 /\ step[x] = WalkVars(<<a[i]>> \o t, i - 1, j - 1)
    <3>1. a[i] \in Int
      BY <2>5, <2>7
    <3>2. <<a[i]>> \o t \in Seq(Int)
      BY <3>1, FrontIs DEF InFront
    <3>3. QED
      BY <2>3, <2>4, <2>5, <2>7, <3>2
  <2>8. CASE i # 0 /\ j # 0 /\ (step[x] = WalkVars(t, i - 1, j) \/ step[x] = WalkVars(t, i, j - 1))
    BY <2>3, <2>4, <2>5, <2>8
  <2>9. QED
    BY <2>2, <2>6, <2>7, <2>8, Zenon DEF WalkTo
<1>3. step = [x \in S |-> step[x]] /\ m = [x \in S |-> m[x]]
  <2>1. DOMAIN step = S /\ DOMAIN m = S
    BY Zenon DEF WalkStep, WalkState, GridLeft
  <2>2. step = [x \in DOMAIN step |-> step[x]] /\ m = [x \in DOMAIN m |-> m[x]]
    BY DEF WalkStep, GridLeft
  <2>3. QED
    BY <2>1, <2>2, Zenon
<1> HIDE DEF S, step, m
<1>4. step \in [S -> S] /\ m \in [S -> Nat]
  BY <1>2, <1>3
<1>5. Halts(S, step, m)
  BY <1>2 DEF Halts
<1>6. QED
  BY <1>4, <1>5 DEF S, step, m

\* What has been walked is common, and as long as dp promised.
WalkInv(a, b, dp, t, i, j) ==
  /\ After(a, t, i) /\ After(b, t, j)
  /\ Len(t) + dp[<<i, j>>] = dp[<<Len(a), Len(b)>>]

(* Every pass of the walk keeps its invariant. *)
LEMMA WalkKeeps ==
  ASSUME NEW a \in Seq(Int), NEW b \in Seq(Int), NEW dp, CommonBy(a, b, dp),
         NEW t \in Seq(Int), NEW i \in 1 .. Len(a), NEW j \in 1 .. Len(b),
         WalkInv(a, b, dp, t, i, j)
  PROVE  /\ a[i] = b[j] => WalkInv(a, b, dp, <<a[i]>> \o t, i - 1, j - 1)
         /\ a[i] # b[j] /\ dp[<<i - 1, j>>] >= dp[<<i, j - 1>>] => WalkInv(a, b, dp, t, i - 1, j)
         /\ a[i] # b[j] /\ ~ (dp[<<i - 1, j>>] >= dp[<<i, j - 1>>]) => WalkInv(a, b, dp, t, i, j - 1)
<1>1. CommonNear(a, b, dp, i, j)
  BY CommonNearIs
<1>2. After(a, t, i) /\ After(b, t, j) /\ Len(t) + dp[<<i, j>>] = dp[<<Len(a), Len(b)>>]
      /\ Len(t) \in Nat
  BY DEF WalkInv
<1>3. After(a, t, i - 1) /\ After(b, t, j - 1)
  <2>1. \A v \in Int : (v > i => v > i - 1) /\ (v > j => v > j - 1)
    OBVIOUS
  <2>2. ASSUME NEW u \in Seq(Int), NEW f, Selects(f, u, t), NEW k \in 1 .. Len(t)
        PROVE  f[k] \in Int
    <3>1. f \in [1 .. Len(t) -> 1 .. Len(u)]
      BY <2>2, Zenon DEF Selects
    <3>2. f[k] \in 1 .. Len(u)
      BY <3>1, Zenon
    <3>3. QED
      BY <3>2
  <2>3. QED
    BY <1>2, <2>1, <2>2, Zenon DEF After
<1>4. ASSUME a[i] = b[j]  PROVE WalkInv(a, b, dp, <<a[i]>> \o t, i - 1, j - 1)
  <2> DEFINE u == <<a[i]>> \o t
             v == a[i]
  <2>1. v \in Int /\ v = b[j]
    BY <1>4
  <2>2. InFront(v, t, u)
    BY <2>1, FrontIs
  <2> HIDE DEF u
  <2>3. After(a, u, i - 1)
    BY <1>2, <2>2, AfterFront
  <2>4. After(b, u, j - 1)
    BY <1>2, <2>1, <2>2, AfterFront
  <2>5. Len(u) = Len(t) + 1
    BY <2>2 DEF InFront
  <2>6. dp[<<i, j>>] = dp[<<i - 1, j - 1>>] + 1 /\ dp[<<i - 1, j - 1>>] \in Nat
    BY <1>1, <1>4, Zenon DEF CommonNear
  <2>7. \A k, h \in Nat : (k + 1) + h = k + (h + 1)
    OBVIOUS
  <2>8. Len(u) + dp[<<i - 1, j - 1>>] = dp[<<Len(a), Len(b)>>]
    BY <1>2, <2>5, <2>6, <2>7, Zenon
  <2>9. WalkInv(a, b, dp, u, i - 1, j - 1)
    BY <2>3, <2>4, <2>8, Zenon DEF WalkInv
  <2>10. QED
    BY <2>9 DEF u
<1>5. ASSUME a[i] # b[j], dp[<<i - 1, j>>] >= dp[<<i, j - 1>>]
      PROVE  WalkInv(a, b, dp, t, i - 1, j)
  <2>1. dp[<<i, j>>] = dp[<<i - 1, j>>]
    BY <1>1, <1>5, Zenon DEF CommonNear
  <2>2. QED
    BY <1>2, <1>3, <2>1, Zenon DEF WalkInv
<1>6. ASSUME a[i] # b[j], ~ (dp[<<i - 1, j>>] >= dp[<<i, j - 1>>])
      PROVE  WalkInv(a, b, dp, t, i, j - 1)
  <2>1. dp[<<i, j>>] = dp[<<i, j - 1>>]
    BY <1>1, <1>6, Zenon DEF CommonNear
  <2>2. QED
    BY <1>2, <1>3, <2>1, Zenon DEF WalkInv
<1>7. QED
  BY <1>4, <1>5, <1>6

\* Where the walk ends.
Walked(a, b, dp, end) ==
  \E t \in Seq(Int), i \in 0 .. Len(a), j \in 0 .. Len(b) :
    end = WalkVars(t, i, j) /\ (i = 0 \/ j = 0) /\ WalkInv(a, b, dp, t, i, j)

(* The walk ends with a common subsequence of the length in the last entry. *)
LEMMA WalkEnds ==
  ASSUME NEW a \in Seq(Int), NEW b \in Seq(Int), NEW dp, CommonBy(a, b, dp)
  PROVE  Walked(a, b, dp, While(WalkStep(a, b, dp), WalkVars(<<>>, Len(a), Len(b))))
<1> DEFINE S == WalkState(a, b)
           step == WalkStep(a, b, dp)
           m == GridLeft(a, b)
           I == {x \in S : WalkInv(a, b, dp, x.lcs, x.i, x.j)}
           x0 == WalkVars(<<>>, Len(a), Len(b))
           end == While(step, x0)
<1>0. /\ <<>> \in Seq(Int) /\ Len(<<>>) = 0 /\ Len(a) \in 0 .. Len(a) /\ Len(b) \in 0 .. Len(b)
      /\ Len(a) \in Nat /\ Len(b) \in Nat
  OBVIOUS
<1>1. step \in [S -> S] /\ Halts(S, step, m) /\ m \in [S -> Nat] /\ I \in SUBSET S
  BY WalkHalts
<1>2. ASSUME NEW t \in Seq(Int), NEW i \in 0 .. Len(a), NEW j \in 0 .. Len(b)
      PROVE  WalkVars(t, i, j) \in I <=> WalkInv(a, b, dp, t, i, j)
  <2> DEFINE x == WalkVars(t, i, j)
  <2>1. x \in S /\ x.lcs = t /\ x.i = i /\ x.j = j
    BY WalkVarsIn, WalkVarsAre
  <2> HIDE DEF x, S
  <2>2. x \in I <=> WalkInv(a, b, dp, t, i, j)
    BY <2>1, Zenon
  <2>3. QED
    BY <2>2 DEF x
<1>3. \A x \in I : \E t \in Seq(Int), i \in 0 .. Len(a), j \in 0 .. Len(b) : x = WalkVars(t, i, j)
  BY WalkStateIs
<1>4. ASSUME NEW t \in Seq(Int), NEW i \in 0 .. Len(a), NEW j \in 0 .. Len(b)
      PROVE  WalkTo(step[WalkVars(t, i, j)], a, b, dp, t, i, j)
  BY WalkStepIs
<1> HIDE DEF I, S, step, m
<1>5. x0 \in I
  <2>1. \A s \in Seq(Int) : After(s, <<>>, Len(s))
    <3> SUFFICES ASSUME NEW s \in Seq(Int)  PROVE After(s, <<>>, Len(s))
      OBVIOUS
    <3> DEFINE t == <<>>
               f == [k \in 1 .. Len(t) |-> 1]
    <3>1. Len(t) = 0 /\ \A k \in 1 .. Len(t) : FALSE
      OBVIOUS
    <3> HIDE DEF t
    <3>2. Selects(f, s, t) /\ \A k \in 1 .. Len(t) : f[k] > Len(s)
      BY <3>1 DEF Selects, Rising
    <3> HIDE DEF f
    <3>3. After(s, t, Len(s))
      BY <3>2 DEF After
    <3>4. QED
      BY <3>3 DEF t
  <2>2. dp[<<Len(a), Len(b)>>] \in Nat
    <3>1. <<Len(a), Len(b)>> \in Grid(a, b)
      BY <1>0 DEF Grid
    <3>2. QED
      BY <3>1, Zenon DEF CommonBy
  <2>3. Len(<<>>) + dp[<<Len(a), Len(b)>>] = dp[<<Len(a), Len(b)>>]
    BY <1>0, <2>2
  <2>4. WalkInv(a, b, dp, <<>>, Len(a), Len(b))
    BY <2>1, <2>3, Zenon DEF WalkInv
  <2>5. QED
    BY <1>0, <1>2, <2>4
<1>6. ASSUME NEW x \in I  PROVE step[x] \in I
  <2>1. PICK t \in Seq(Int), i \in 0 .. Len(a), j \in 0 .. Len(b) : x = WalkVars(t, i, j)
    BY <1>3
  <2>2. WalkTo(step[x], a, b, dp, t, i, j)
    BY <1>4, <2>1, Zenon
  <2>3. WalkInv(a, b, dp, t, i, j)
    BY <1>2, <2>1
  <2>4. ASSUME NEW u \in Seq(Int), NEW k \in 0 .. Len(a), NEW h \in 0 .. Len(b),
               step[x] = WalkVars(u, k, h), WalkInv(a, b, dp, u, k, h)
        PROVE  step[x] \in I
    <3>1. WalkVars(u, k, h) \in I
      BY <1>2, <2>4
    <3>2. QED
      BY <2>4, <3>1, Zenon
  <2>5. i # 0 /\ j # 0 => /\ i - 1 \in 0 .. Len(a) /\ j - 1 \in 0 .. Len(b)
                          /\ i \in 1 .. Len(a) /\ j \in 1 .. Len(b)
    OBVIOUS
  <2>6. CASE step[x] = WalkVars(t, i, j)
    BY <2>1, <2>6
  <2>7. CASE i # 0 /\ j # 0 /\ a[i] = b[j] /\ step[x] = WalkVars(<<a[i]>> \o t, i - 1, j - 1)
    <3>1. a[i] \in Int
      BY <2>5, <2>7
    <3>2. <<a[i]>> \o t \in Seq(Int)
      BY <3>1, FrontIs DEF InFront
    <3>3. WalkInv(a, b, dp, <<a[i]>> \o t, i - 1, j - 1)
      BY <2>3, <2>5, <2>7, WalkKeeps
    <3>4. QED
      BY <2>4, <2>5, <2>7, <3>2, <3>3
  <2>8. CASE /\ i # 0 /\ j # 0 /\ a[i] # b[j] /\ dp[<<i - 1, j>>] >= dp[<<i, j - 1>>]
             /\ step[x] = WalkVars(t, i - 1, j)
    <3>1. WalkInv(a, b, dp, t, i - 1, j)
      BY <2>3, <2>5, <2>8, WalkKeeps
    <3>2. QED
      BY <2>4, <2>5, <2>8, <3>1
  <2>9. CASE /\ i # 0 /\ j # 0 /\ a[i] # b[j] /\ ~ (dp[<<i - 1, j>>] >= dp[<<i, j - 1>>])
             /\ step[x] = WalkVars(t, i, j - 1)
    <3>1. WalkInv(a, b, dp, t, i, j - 1)
      BY <2>3, <2>5, <2>9, WalkKeeps
    <3>2. QED
      BY <2>4, <2>5, <2>9, <3>1
  <2>10. QED
    BY <2>2, <2>6, <2>7, <2>8, <2>9, Zenon DEF WalkTo
<1>7. end \in I /\ step[end] = end
  <2> HIDE DEF x0
  <2>1. QED
    BY <1>1, <1>5, <1>6, WhileEnds
<1> HIDE DEF end
<1>8. PICK t \in Seq(Int), i \in 0 .. Len(a), j \in 0 .. Len(b) : end = WalkVars(t, i, j)
  BY <1>3, <1>7
<1>9. WalkInv(a, b, dp, t, i, j)
  BY <1>2, <1>7, <1>8
<1>10. i = 0 \/ j = 0
  <2>1. SUFFICES ASSUME ~ (i = 0 \/ j = 0)  PROVE FALSE
    OBVIOUS
  <2>2. WalkTo(WalkVars(t, i, j), a, b, dp, t, i, j)
    BY <1>4, <1>7, <1>8, Zenon
  <2>3. ASSUME NEW u, NEW k, NEW h, WalkVars(t, i, j) = WalkVars(u, k, h)  PROVE i = k /\ j = h
    BY <2>3, Zenon DEF WalkVars
  <2>4. i = i - 1 \/ j = j - 1
    BY <2>1, <2>2, <2>3, Zenon DEF WalkTo
  <2>5. QED
    BY <2>4
<1>11. Walked(a, b, dp, end)
  BY <1>8, <1>9, <1>10, Zenon DEF Walked
<1>12. QED
  BY <1>11 DEF end, x0, step

(* The walk back finds a longest common subsequence. *)
LEMMA CommonFinds ==
  ASSUME NEW a \in Seq(Int), NEW b \in Seq(Int)
  PROVE  CommonRight(a, b)
<1> DEFINE dp == Common(a, b)
           end == While(WalkStep(a, b, dp), WalkVars(<<>>, Len(a), Len(b)))
           common == AllSubsequences(a) \intersect AllSubsequences(b)
           result == GetLongestCommonSubsequence(a, b)
<1>1. CommonBy(a, b, dp)
  BY CommonIs
<1>2. result = end.lcs
  BY Zenon DEF GetLongestCommonSubsequence, WalkVars
<1>3. LongestCommonSubsequence(a, b) = dp[<<Len(a), Len(b)>>]
  BY Zenon DEF LongestCommonSubsequence
<1> HIDE DEF dp
<1>4. Walked(a, b, dp, end)
  BY <1>1, WalkEnds
<1> HIDE DEF end, result
<1>5. PICK t \in Seq(Int), i \in 0 .. Len(a), j \in 0 .. Len(b) :
        end = WalkVars(t, i, j) /\ (i = 0 \/ j = 0) /\ WalkInv(a, b, dp, t, i, j)
  BY <1>4, Zenon DEF Walked
<1>6. result = t
  <2>1. WalkVars(t, i, j).lcs = t
    BY WalkVarsAre
  <2>2. QED
    BY <1>2, <1>5, <2>1, Zenon
<1>7. t \in common
  <2>1. \A s : After(s, t, i) \/ After(s, t, j) => \E f : Selects(f, s, t)
    BY Zenon DEF After
  <2>2. (\E f : Selects(f, a, t)) /\ \E f : Selects(f, b, t)
    BY <1>5, <2>1, Zenon DEF WalkInv
  <2>3. QED
    BY <2>2, IsSubsequence
<1>8. Len(t) = dp[<<Len(a), Len(b)>>]
  <2>1. Len(t) + dp[<<i, j>>] = dp[<<Len(a), Len(b)>>] /\ Len(t) \in Nat
    BY <1>5 DEF WalkInv
  <2>2. dp[<<i, j>>] = 0
    <3>1. dp[<<i, j>>] = CommonAt(a, b, dp, i, j)
      BY <1>1, Zenon DEF CommonBy
    <3>2. QED
      BY <1>5, <3>1, Zenon DEF CommonAt
  <2>3. \A k \in Nat : k + 0 = k
    OBVIOUS
  <2>4. QED
    BY <2>1, <2>2, <2>3, Zenon
<1>9. ASSUME NEW u \in common  PROVE Len(u) <= Len(t)
  <2>1. u \in Seq(Int) /\ (\E f : Selects(f, a, u)) /\ \E g : Selects(g, b, u)
    BY SubsequenceIs
  <2>2. PICK f : Selects(f, a, u)
    BY <2>1
  <2>3. PICK g : Selects(g, b, u)
    BY <2>1
  <2>4. Matched(a, b, f, g, Len(u), Len(a), Len(b))
    <3>1. \A k \in 1 .. Len(u) : a[f[k]] = b[g[k]]
      BY <2>2, <2>3, Zenon DEF Selects
    <3>2. QED
      BY <2>2, <2>3, <3>1, Zenon DEF Selects, Matched
  <2>5. Bound(a, b, dp, Len(a), Len(b))
    <3>1. Len(a) \in 0 .. Len(a) /\ Len(b) \in 0 .. Len(b)
      OBVIOUS
    <3>2. QED
      BY <1>1, <3>1, CommonBound
  <2>6. Len(u) \in Nat
    BY <2>1
  <2>7. Len(u) <= dp[<<Len(a), Len(b)>>]
    BY <2>4, <2>5, <2>6, Zenon DEF Bound
  <2>8. QED
    BY <1>8, <2>7, Zenon
<1>10. QED
  BY <1>3, <1>6, <1>7, <1>8, <1>9, Zenon DEF CommonRight, result

-----------------------------------------------------------------------------
(* Longest increasing subsequence *)

(* A function to the naturals has a greatest value on every nonempty part of *)
(* its domain 1 .. n.                                                        *)
LEMMA HighestAt ==
  ASSUME NEW n \in Nat, NEW T \in SUBSET (1 .. n), T # {}, NEW f, \A j \in T : f[j] \in Nat
  PROVE  \E h \in T : \A j \in T : f[j] <= f[h]
<1> DEFINE Top(k, h) == \A j \in T : j <= k => f[j] <= f[h]
           D == {k \in Nat : k <= n /\ ~ \E h \in T : Top(k, h)}
<1>1. PICK h0 \in T : TRUE
  OBVIOUS
<1>2. SUFFICES ASSUME D # {}  PROVE FALSE
  <2>1. n \notin D
    BY <1>2
  <2>2. PICK h \in T : Top(n, h)
    BY <2>1
  <2>3. \A j \in T : j <= n
    OBVIOUS
  <2>4. QED
    BY <2>2, <2>3
<1>3. PICK k \in D : \A i \in D : k <= i
  <2>1. D \subseteq Nat
    OBVIOUS
  <2> HIDE DEF D
  <2>2. QED
    BY <1>2, <2>1, LeastElement
<1>4. k \in Nat /\ k <= n /\ ~ \E h \in T : Top(k, h)
  BY <1>3
<1>5. k # 0
  <2>1. Top(0, h0)
    BY <1>1
  <2>2. QED
    BY <1>4, <2>1
<1>6. k - 1 \in Nat /\ k - 1 <= n /\ ~ (k <= k - 1)
  BY <1>4, <1>5
<1>7. PICK h \in T : Top(k - 1, h)
  <2>1. k - 1 \notin D
    <3> HIDE DEF D
    <3>1. QED
      BY <1>3, <1>6
  <2>2. QED
    BY <1>6, <2>1
<1>8. \A j \in T : j \in Nat /\ (j <= k => j <= k - 1 \/ j = k) /\ f[j] \in Nat
  BY <1>4
<1>9. CASE k \in T /\ f[k] > f[h]
  <2>1. Top(k, k)
    BY <1>7, <1>8, <1>9
  <2>2. QED
    BY <1>4, <1>9, <2>1
<1>10. CASE ~ (k \in T /\ f[k] > f[h])
  <2>1. Top(k, h)
    BY <1>7, <1>8, <1>10
  <2>2. QED
    BY <1>4, <2>1
<1>11. QED
  BY <1>9, <1>10

(* The earlier indices with a smaller element. *)
LEMMA SmallerIs ==
  ASSUME NEW s \in Seq(Int), NEW i \in 1 .. Len(s)
  PROVE  /\ Smaller(s, i) \in SUBSET (1 .. Len(s))
         /\ \A j \in Smaller(s, i) : j \in 1 .. Len(s) /\ j < i /\ s[j] < s[i]
         /\ \A j \in 1 .. Len(s) : j < i /\ s[j] < s[i] => j \in Smaller(s, i)
<1>1. Len(s) \in Nat
  OBVIOUS
<1>2. QED
  BY <1>1 DEF Smaller

\* The length of the longest run that ends at i, by the lengths before i.
RunAt(s, f, i) == 1 + Max({0} \union {f[j] : j \in Smaller(s, i)})

\* top is the length of the longest run that ends at i, from the lengths f of
\* earlier ones.
RunAtOf(s, f, i, top) ==
  /\ top \in Nat /\ top >= 1
  /\ top = 1 \/ \E j \in Smaller(s, i) : top = f[j] + 1
  /\ \A j \in Smaller(s, i) : f[j] + 1 <= top

(* The code's formula gives that length. *)
LEMMA RunAtIs ==
  ASSUME NEW s \in Seq(Int), NEW i \in 1 .. Len(s), NEW f,
         \A j \in Smaller(s, i) : f[j] \in Nat
  PROVE  RunAtOf(s, f, i, RunAt(s, f, i))
<1> DEFINE T == Smaller(s, i)
           V == {0} \union {f[j] : j \in T}
<1>1. T \in SUBSET (1 .. Len(s)) /\ Len(s) \in Nat
  BY SmallerIs
<1>2. RunAt(s, f, i) = 1 + Max(V)
  BY Zenon DEF RunAt
<1>3. V \in SUBSET Int /\ 0 \in V /\ \A j \in T : f[j] \in V
  OBVIOUS
<1>4. CASE T = {}
  <2>1. \A v \in V : 0 >= v
    BY <1>4
  <2> HIDE DEF V
  <2>2. Max(V) = 0
    BY <1>3, <2>1, MaxIs
  <2>3. RunAt(s, f, i) = 1
    BY <1>2, <2>2
  <2>4. QED
    BY <1>4, <2>3 DEF RunAtOf
<1>5. CASE T # {}
  <2> HIDE DEF T
  <2>1. \A j \in T : f[j] \in Nat
    BY DEF T
  <2>2. PICK h \in T : \A j \in T : f[j] <= f[h]
    BY <1>1, <1>5, <2>1, HighestAt
  <2>3. f[h] \in V /\ f[h] \in Nat /\ \A v \in V : f[h] >= v
    BY <2>1, <2>2
  <2> HIDE DEF V
  <2>4. Max(V) = f[h]
    BY <1>3, <2>3, MaxIs
  <2>5. RunAt(s, f, i) = f[h] + 1
    BY <1>2, <2>3, <2>4
  <2>6. \A j \in T : f[j] + 1 <= f[h] + 1
    BY <2>1, <2>2
  <2>7. f[h] + 1 \in Nat /\ f[h] + 1 >= 1
    BY <2>3
  <2>8. QED
    BY <2>2, <2>5, <2>6, <2>7, Zenon DEF RunAtOf, T
<1>6. QED
  BY <1>4, <1>5

\* run is filled by the loops.
RunsBy(s, run) ==
  /\ run \in [1 .. Len(s) -> Nat]
  /\ \A i \in 1 .. Len(s) : run[i] = RunAt(s, run, i)

(* The formula looks only at earlier indices with a smaller element. *)
LEMMA RunAtWithin ==
  ASSUME NEW s, NEW i, NEW f, NEW g, \A j \in Smaller(s, i) : f[j] = g[j]
  PROVE  RunAt(s, f, i) = RunAt(s, g, i)
<1>1. {f[j] : j \in Smaller(s, i)} = {g[j] : j \in Smaller(s, i)}
  OBVIOUS
<1>2. QED
  BY <1>1, Zenon DEF RunAt

(* dp has the lengths that its equation describes. *)
LEMMA RunsAre ==
  ASSUME NEW s \in Seq(Int)
  PROVE  RunsBy(s, Runs(s))
<1> DEFINE S == 1 .. Len(s)
           V == Nat
           m == [i \in S |-> i]
           F == [f \in [S -> V] |-> [i \in S |-> RunAt(s, f, i)]]
           E(f) == f = [i \in DOMAIN s |-> 1 + Max({0} \union {f[j] : j \in Smaller(s, i)})]
           run == CHOOSE g : E(g)
<1>0. DOMAIN s = S /\ Len(s) \in Nat
  OBVIOUS
<1>1. m \in [S -> Nat] /\ \A i \in S : m[i] = i
  BY <1>0
<1>2. \A i \in S : \A j \in Smaller(s, i) : j \in S /\ m[j] < m[i]
  BY SmallerIs
<1> HIDE DEF m
<1>3. F \in [[S -> V] -> [S -> V]]
  <2>1. ASSUME NEW f \in [S -> V], NEW i \in S  PROVE RunAt(s, f, i) \in V
    <3>1. \A j \in Smaller(s, i) : f[j] \in Nat
      BY <1>2
    <3>2. QED
      BY <3>1, RunAtIs DEF RunAtOf
  <2>2. \A f \in [S -> V] : [i \in S |-> RunAt(s, f, i)] \in [S -> V]
    BY <2>1
  <2> HIDE DEF S, V
  <2>3. QED
    BY <2>2, Zenon
<1>4. Descends(S, V, F, m)
  <2> SUFFICES ASSUME NEW f \in [S -> V], NEW g \in [S -> V], NEW i \in S, Agree(S, m, f, g, m[i])
               PROVE  F[f][i] = F[g][i]
    BY Zenon DEF Descends
  <2>1. \A j \in Smaller(s, i) : f[j] = g[j]
    BY <1>2, Zenon DEF Agree
  <2>2. RunAt(s, f, i) = RunAt(s, g, i)
    BY <2>1, RunAtWithin
  <2>3. F[f][i] = RunAt(s, f, i) /\ F[g][i] = RunAt(s, g, i)
    <3> HIDE DEF S, V
    <3>1. QED
      BY Zenon
  <2> HIDE DEF F
  <2>4. QED
    BY <2>2, <2>3, Zenon
<1>5. [S -> V] # {}
  <2>1. [x \in S |-> 0] \in [S -> V]
    OBVIOUS
  <2>2. QED
    BY <2>1
<1>6. PICK f0 \in [S -> V] : \A i \in S : f0[i] = F[f0][i]
  <2> HIDE DEF F, S, V
  <2>1. HasFixedPoint(S, V, F)
    BY <1>1, <1>3, <1>4, <1>5, FixedPoint DEF V
  <2>2. QED
    BY <2>1 DEF HasFixedPoint
<1>7. \A f : E(f) <=> f = [i \in S |-> RunAt(s, f, i)]
  <2> HIDE DEF S
  <2>1. QED
    BY <1>0, Zenon DEF RunAt
<1>8. E(f0)
  <2>1. \A i \in S : f0[i] = RunAt(s, f0, i)
    <3> HIDE DEF S, V
    <3>1. QED
      BY <1>6, Zenon
  <2>2. f0 = [i \in S |-> RunAt(s, f0, i)]
    <3> HIDE DEF S
    <3>1. f0 = [i \in S |-> f0[i]]
      OBVIOUS
    <3>2. QED
      BY <2>1, <3>1, Zenon
  <2> HIDE DEF E
  <2>3. QED
    BY <1>7, <2>2
<1>9. Runs(s) = run
  BY Zenon DEF Runs
<1>10. E(run)
  <2> HIDE DEF E
  <2>1. QED
    BY <1>8
<1> HIDE DEF run
<1>11. run = [i \in S |-> RunAt(s, run, i)]
  <2> HIDE DEF E
  <2>1. QED
    BY <1>7, <1>10
<1> HIDE DEF E, F
<1>12. \A i \in S : run[i] = RunAt(s, run, i)
  <2> HIDE DEF S
  <2>1. QED
    BY <1>11, Zenon
<1>13. \A i \in S : run[i] \in V
  <2> DEFINE B == {k \in Nat : k \in S /\ run[k] \notin V}
  <2>1. SUFFICES ASSUME B # {}  PROVE FALSE
    BY <1>0
  <2>2. PICK k \in B : \A i \in B : k <= i
    <3>1. B \subseteq Nat
      OBVIOUS
    <3> HIDE DEF B
    <3>2. QED
      BY <2>1, <3>1, LeastElement
  <2>3. k \in S /\ k \in Nat /\ run[k] \notin V
    BY <2>2
  <2>4. \A j \in Smaller(s, k) : run[j] \in Nat
    <3> SUFFICES ASSUME NEW j \in Smaller(s, k), run[j] \notin Nat  PROVE FALSE
      OBVIOUS
    <3>1. j \in S /\ j \in Nat /\ j < k
      BY <1>1, <1>2, <2>3
    <3>2. j \in B
      BY <3>1
    <3>3. QED
      BY <2>2, <2>3, <3>1, <3>2
  <2>5. RunAt(s, run, k) \in Nat
    BY <2>3, <2>4, RunAtIs DEF RunAtOf
  <2>6. QED
    BY <1>12, <2>3, <2>5
<1>14. run \in [S -> V]
  <2> HIDE DEF S, V
  <2>1. QED
    BY <1>11, <1>12, <1>13
<1>15. QED
  BY <1>9, <1>12, <1>14 DEF RunsBy

(* Each entry of dp is the length of the longest run that ends there. *)
LEMMA RunsByIs ==
  ASSUME NEW s \in Seq(Int), NEW run, RunsBy(s, run), NEW i \in 1 .. Len(s)
  PROVE  RunAtOf(s, run, i, run[i])
<1>1. \A j \in Smaller(s, i) : run[j] \in Nat
  BY SmallerIs DEF RunsBy
<1>2. run[i] = RunAt(s, run, i)
  BY DEF RunsBy
<1>3. RunAtOf(s, run, i, RunAt(s, run, i))
  BY <1>1, RunAtIs
<1>4. QED
  BY <1>2, <1>3, Zenon

\* t increases.
Increases(t) == \A k, h \in 1 .. Len(t) : k < h => t[k] < t[h]

(* An increasing subsequence is no longer than the run that ends where its   *)
(* last element is.                                                          *)
LEMMA RunBound ==
  ASSUME NEW s \in Seq(Int), NEW run, RunsBy(s, run), NEW t \in Seq(Int), Increases(t),
         NEW f, Selects(f, s, t), NEW k \in 1 .. Len(t)
  PROVE  k <= run[f[k]]
<1> DEFINE B == {h \in Nat : h \in 1 .. Len(t) /\ ~ (h <= run[f[h]])}
<1>0. /\ Len(t) \in Nat /\ Len(s) \in Nat /\ f \in [1 .. Len(t) -> 1 .. Len(s)]
      /\ Rising(f, Len(t)) /\ \A h \in 1 .. Len(t) : t[h] = s[f[h]]
  BY DEF Selects
<1>1. \A h \in 1 .. Len(t) : f[h] \in 1 .. Len(s) /\ h \in Nat
  <2> DEFINE m == Len(t)
             n == Len(s)
  <2>1. m \in Nat /\ f \in [1 .. m -> 1 .. n]
    BY <1>0
  <2> HIDE DEF m, n
  <2>2. \A h \in 1 .. m : f[h] \in 1 .. n /\ h \in Nat
    BY <2>1
  <2>3. QED
    BY <2>2 DEF m, n
<1>2. SUFFICES ASSUME B # {}  PROVE FALSE
  BY <1>1
<1>3. PICK h \in B : \A i \in B : h <= i
  <2>1. B \subseteq Nat
    OBVIOUS
  <2> HIDE DEF B
  <2>2. QED
    BY <1>2, <2>1, LeastElement
<1>4. h \in 1 .. Len(t) /\ h \in Nat /\ f[h] \in 1 .. Len(s) /\ ~ (h <= run[f[h]])
  BY <1>1, <1>3
<1>5. RunAtOf(s, run, f[h], run[f[h]])
  BY <1>4, RunsByIs
<1>6. h # 1
  BY <1>4, <1>5 DEF RunAtOf
<1>7. h - 1 \in 1 .. Len(t) /\ h - 1 < h /\ h - 1 \in Nat /\ ~ (h <= h - 1)
  BY <1>0, <1>4, <1>6
<1>8. h - 1 <= run[f[h - 1]]
  BY <1>3, <1>7
<1>9. f[h - 1] \in 1 .. Len(s) /\ f[h - 1] < f[h] /\ s[f[h - 1]] < s[f[h]]
  <2>1. t[h - 1] < t[h]
    BY <1>4, <1>7 DEF Increases
  <2>2. QED
    BY <1>0, <1>1, <1>4, <1>7, <2>1 DEF Rising
<1>10. f[h - 1] \in Smaller(s, f[h])
  BY <1>4, <1>9, SmallerIs
<1>11. run[f[h - 1]] + 1 <= run[f[h]]
  BY <1>5, <1>10 DEF RunAtOf
<1>12. run[f[h - 1]] \in Nat /\ run[f[h]] \in Nat
  BY <1>4, <1>9 DEF RunsBy
<1>13. \A v, w, u \in Nat : u - 1 <= v /\ v + 1 <= w => u <= w
  OBVIOUS
<1>14. QED
  BY <1>4, <1>8, <1>11, <1>12, <1>13, Zenon

(* The place before i in its run. *)
LEMMA PrevIs ==
  ASSUME NEW s \in Seq(Int), NEW run, RunsBy(s, run), NEW i \in 1 .. Len(s)
  PROVE  \/ Prev(s, run, i) = 0 /\ run[i] = 1
         \/ Prev(s, run, i) \in Smaller(s, i) /\ run[Prev(s, run, i)] + 1 = run[i]
<1> DEFINE P == {j \in Smaller(s, i) : run[j] = run[i] - 1}
<1>1. RunAtOf(s, run, i, run[i])
  BY RunsByIs
<1>2. CASE run[i] = 1
  BY <1>2 DEF Prev
<1>3. CASE run[i] # 1
  <2>1. PICK j \in Smaller(s, i) : run[i] = run[j] + 1
    BY <1>1, <1>3 DEF RunAtOf
  <2>2. \A h \in Smaller(s, i) : run[h] \in Nat /\ h \in Nat
    BY SmallerIs DEF RunsBy
  <2>3. j \in P
    BY <2>1, <2>2
  <2>4. P \in SUBSET Nat
    BY <2>2
  <2>5. Min(P) \in P
    <3> HIDE DEF P
    <3>1. QED
      BY <2>3, <2>4, LeastElement
  <2>6. Prev(s, run, i) = Min(P)
    BY <1>3 DEF Prev
  <2>7. \A h \in P : h \in Smaller(s, i) /\ run[h] + 1 = run[i]
    BY <1>1, <2>2 DEF RunAtOf
  <2> HIDE DEF P
  <2>8. QED
    BY <2>5, <2>6, <2>7
<1>4. QED
  BY <1>2, <1>3

\* The loop that collects the run.
RunState(s) == [seq : Seq(Int), i : 0 .. Len(s)]

\* The variables of the loop that collects the run as a record.
RunVars(t, i) == [seq |-> t, i |-> i]

(* Every state of that loop has the two variables. *)
LEMMA RunStateIs ==
  ASSUME NEW s, NEW x \in RunState(s)
  PROVE  \E t \in Seq(Int), i \in 0 .. Len(s) : x = RunVars(t, i)
<1>1. x.seq \in Seq(Int) /\ x.i \in 0 .. Len(s) /\ x = RunVars(x.seq, x.i)
  BY DEF RunState, RunVars
<1>2. QED
  BY <1>1

(* The fields of the record. *)
LEMMA RunVarsAre ==
  ASSUME NEW t, NEW i
  PROVE  RunVars(t, i).seq = t /\ RunVars(t, i).i = i
BY DEF RunVars

(* Variables in their ranges are a state. *)
LEMMA RunVarsIn ==
  ASSUME NEW s, NEW t \in Seq(Int), NEW i \in 0 .. Len(s)
  PROVE  RunVars(t, i) \in RunState(s)
BY DEF RunVars, RunState

(* What one pass of the loop does. *)
LEMMA RunStepIs ==
  ASSUME NEW s, NEW run, NEW t \in Seq(Int), NEW i \in 0 .. Len(s)
  PROVE  RunStep(s, run)[RunVars(t, i)] =
           IF i = 0 THEN RunVars(t, i) ELSE RunVars(<<s[i]>> \o t, Prev(s, run, i))
<1> DEFINE x == RunVars(t, i)
<1>1. x \in [seq : Seq(Int), i : 0 .. Len(s)]
  BY DEF RunVars
<1>2. x.seq = t /\ x.i = i
  BY RunVarsAre
<1> HIDE DEF x
<1>3. RunStep(s, run)[x] = IF i = 0 THEN x
                           ELSE [seq |-> <<s[i]>> \o t, i |-> Prev(s, run, i)]
  BY <1>1, <1>2, Zenon DEF RunStep
<1>4. QED
  BY <1>3, Zenon DEF RunVars, x

(* Either the loop has ended or it goes on before i. *)
LEMMA RunStepTo ==
  ASSUME NEW s \in Seq(Int), NEW run, RunsBy(s, run), NEW t \in Seq(Int), NEW i \in 0 .. Len(s)
  PROVE  \/ i = 0 /\ RunStep(s, run)[RunVars(t, i)] = RunVars(t, i)
         \/ /\ i \in 1 .. Len(s)
            /\ \E u \in Seq(Int), j \in 0 .. Len(s) :
                 /\ InFront(s[i], t, u) /\ j < i
                 /\ (j = 0 /\ run[i] = 1) \/ (j \in Smaller(s, i) /\ run[j] + 1 = run[i])
                 /\ RunStep(s, run)[RunVars(t, i)] = RunVars(u, j)
<1>1. CASE i = 0
  BY ZenonT(40), <1>1, RunStepIs
<1>2. CASE i # 0
  <2> DEFINE u == <<s[i]>> \o t
             j == Prev(s, run, i)
  <2>1. i \in 1 .. Len(s) /\ Len(s) \in Nat /\ s[i] \in Int
    BY <1>2
  <2>2. RunStep(s, run)[RunVars(t, i)] = RunVars(u, j)
    BY <1>2, RunStepIs
  <2>3. InFront(s[i], t, u)
    BY <2>1, FrontIs
  <2>4. (j = 0 /\ run[i] = 1) \/ (j \in Smaller(s, i) /\ run[j] + 1 = run[i])
    BY <2>1, PrevIs
  <2> HIDE DEF u, j
  <2>5. u \in Seq(Int)
    BY <2>3 DEF InFront
  <2>6. j \in 0 .. Len(s) /\ j < i
    <3>1. CASE j = 0
      BY <2>1, <3>1
    <3>2. CASE j \in Smaller(s, i)
      <4>1. j \in 1 .. Len(s) /\ j < i
        BY <2>1, <3>2, SmallerIs
      <4>2. QED
        BY <4>1
    <3>3. QED
      BY <2>4, <3>1, <3>2
  <2>7. QED
    BY <2>1, <2>2, <2>3, <2>4, <2>5, <2>6, Zenon
<1>3. QED
  BY <1>1, <1>2

(* What lies beyond i lies beyond what is before i. *)
LEMMA AfterLess ==
  ASSUME NEW s \in Seq(Int), NEW t \in Seq(Int), NEW i \in Int, NEW j \in Int, j <= i,
         After(s, t, i)
  PROVE  After(s, t, j)
<1>1. PICK f : Selects(f, s, t) /\ \A k \in 1 .. Len(t) : f[k] > i
  BY DEF After
<1>2. \A k \in 1 .. Len(t) : f[k] \in 1 .. Len(s)
  BY <1>1 DEF Selects
<1>3. \A k \in 1 .. Len(t) : f[k] > j
  BY <1>1, <1>2
<1>4. QED
  BY <1>1, <1>3 DEF After

\* The invariant of the loop: what it has is the end of a run of length top,
\* whose part up to i it has yet to collect.
RunInv(s, run, top, t, i) ==
  /\ Increases(t) /\ After(s, t, i)
  /\ i = 0 => Len(t) = top
  /\ i # 0 => Len(t) + run[i] = top /\ \A k \in 1 .. Len(t) : s[i] < t[k]

(* A pass keeps the invariant of the loop. *)
LEMMA RunKeeps ==
  ASSUME NEW s \in Seq(Int), NEW run, RunsBy(s, run), NEW top \in Nat,
         NEW t \in Seq(Int), NEW i \in 1 .. Len(s), RunInv(s, run, top, t, i),
         NEW u \in Seq(Int), NEW j \in 0 .. Len(s), InFront(s[i], t, u), j < i,
         (j = 0 /\ run[i] = 1) \/ (j \in Smaller(s, i) /\ run[j] + 1 = run[i])
  PROVE  RunInv(s, run, top, u, j)
<1> DEFINE m == Len(t)
<1>0. /\ m \in Nat /\ Len(s) \in Nat /\ i # 0 /\ Len(u) = m + 1 /\ u[1] = s[i]
      /\ \A k \in 1 .. m : u[k + 1] = t[k]
      /\ m + run[i] = top /\ \A k \in 1 .. m : s[i] < t[k]
      /\ \A k \in 1 .. Len(s) : s[k] \in Int /\ run[k] \in Nat
      /\ \A k \in 1 .. m : t[k] \in Int
  <2>1. m \in Nat /\ Len(s) \in Nat /\ i # 0 /\ \A k \in 1 .. m : t[k] \in Int
    OBVIOUS
  <2>2. Len(u) = m + 1 /\ u[1] = s[i] /\ \A k \in 1 .. m : u[k + 1] = t[k]
    BY Zenon DEF InFront
  <2>3. m + run[i] = top /\ \A k \in 1 .. m : s[i] < t[k]
    BY <2>1, Zenon DEF RunInv
  <2>4. \A k \in 1 .. Len(s) : s[k] \in Int
    OBVIOUS
  <2>5. \A k \in 1 .. Len(s) : run[k] \in Nat
    BY DEF RunsBy
  <2>6. QED
    BY <2>1, <2>2, <2>3, <2>4, <2>5
<1>1. After(s, u, j)
  <2>1. After(s, t, i)
    BY Zenon DEF RunInv
  <2>2. After(s, u, i - 1)
    BY <2>1, AfterFront
  <2>3. i - 1 \in Int /\ j \in Int /\ j <= i - 1
    OBVIOUS
  <2>4. QED
    BY <2>2, <2>3, AfterLess
<1>2. Increases(t)
  BY Zenon DEF RunInv
<1> HIDE DEF m
<1>3. \A k \in 1 .. m + 1 : k = 1 \/ (k - 1 \in 1 .. m /\ (k - 1) + 1 = k)
  BY <1>0
<1>4. ASSUME NEW k \in 2 .. m + 1  PROVE k - 1 \in 1 .. m /\ u[k] = t[k - 1]
  <2>1. k - 1 \in 1 .. m /\ (k - 1) + 1 = k
    BY <1>0
  <2>2. u[(k - 1) + 1] = t[k - 1]
    BY <1>0, <2>1
  <2>3. QED
    BY <2>1, <2>2, Zenon
<1>5. ASSUME NEW k \in 1 .. m + 1, NEW h \in 1 .. m + 1, k < h  PROVE u[k] < u[h]
  <2>1. h \in 2 .. m + 1
    BY <1>0, <1>5
  <2>2. h - 1 \in 1 .. m /\ u[h] = t[h - 1]
    BY <1>4, <2>1
  <2>3. CASE k = 1
    BY <1>0, <2>2, <2>3
  <2>4. CASE k # 1
    <3>1. k \in 2 .. m + 1
      BY <1>0, <2>4
    <3>2. k - 1 \in 1 .. m /\ u[k] = t[k - 1] /\ k - 1 < h - 1
      BY <1>4, <1>5, <3>1
    <3>3. QED
      BY <1>2, <2>2, <3>2 DEF Increases, m
  <2>5. QED
    BY <2>3, <2>4
<1>6. Increases(u)
  BY <1>0, <1>5 DEF Increases
<1>7. CASE j = 0
  <2>1. run[i] = 1
    BY <1>7, SmallerIs
  <2>2. Len(u) = top
    BY <1>0, <2>1
  <2>3. QED
    BY <1>1, <1>6, <1>7, <2>2 DEF RunInv
<1>8. CASE j # 0
  <2>1. j \in Smaller(s, i) /\ run[j] + 1 = run[i]
    BY <1>8
  <2>2. j \in 1 .. Len(s) /\ s[j] < s[i] /\ s[j] \in Int /\ s[i] \in Int
    BY <1>0, <2>1, SmallerIs
  <2>3. Len(u) + run[j] = top
    <3>1. run[j] \in Nat
      BY <1>0, <2>2
    <3>2. \A v, w \in Nat : (v + 1) + w = v + (w + 1)
      OBVIOUS
    <3>3. QED
      BY <1>0, <2>1, <3>1, <3>2, ZenonT(30)
  <2>4. ASSUME NEW k \in 1 .. m + 1  PROVE s[j] < u[k]
    <3>1. CASE k = 1
      BY <1>0, <2>2, <3>1
    <3>2. CASE k # 1
      <4>1. k \in 2 .. m + 1
        BY <1>0, <3>2
      <4>2. k - 1 \in 1 .. m /\ u[k] = t[k - 1]
        BY <1>4, <4>1
      <4>3. s[i] < t[k - 1] /\ t[k - 1] \in Int
        BY <1>0, <4>2
      <4>4. QED
        BY SMTT(30), <2>2, <4>2, <4>3
    <3>3. QED
      BY <3>1, <3>2
  <2>5. \A k \in 1 .. Len(u) : s[j] < u[k]
    BY <1>0, <2>4
  <2>6. QED
    BY <1>1, <1>6, <1>8, <2>3, <2>5, Zenon DEF RunInv
<1>9. QED
  BY <1>7, <1>8

\* Where the loop ends.
Collected(s, run, top, end) ==
  \E t \in Seq(Int) : end = RunVars(t, 0) /\ RunInv(s, run, top, t, 0)

(* The loop ends with an increasing subsequence of the length it started *)
(* with.                                                                 *)
LEMMA RunEnds ==
  ASSUME NEW s \in Seq(Int), NEW run, RunsBy(s, run), NEW top \in Nat,
         NEW i0 \in 1 .. Len(s), run[i0] = top
  PROVE  Collected(s, run, top, While(RunStep(s, run), RunVars(<<>>, i0)))
<1> DEFINE S == RunState(s)
           step == RunStep(s, run)
           m == [x \in S |-> x.i]
           I == {x \in S : RunInv(s, run, top, x.seq, x.i)}
           x0 == RunVars(<<>>, i0)
           end == While(step, x0)
<1>1. ASSUME NEW t \in Seq(Int), NEW i \in 0 .. Len(s)
      PROVE  /\ RunVars(t, i) \in S /\ m[RunVars(t, i)] = i
             /\ RunVars(t, i) \in I <=> RunInv(s, run, top, t, i)
  <2> DEFINE x == RunVars(t, i)
  <2>1. x \in S /\ x.seq = t /\ x.i = i
    BY RunVarsIn, RunVarsAre
  <2> HIDE DEF x, S
  <2>2. m[x] = i /\ (x \in I <=> RunInv(s, run, top, t, i))
    BY <2>1, Zenon
  <2>3. QED
    BY <2>1, <2>2 DEF x, S
<1>2. \A x \in S : \E t \in Seq(Int), i \in 0 .. Len(s) : x = RunVars(t, i)
  BY RunStateIs
<1>3. I \in SUBSET S
  OBVIOUS
<1>4. step = [x \in S |-> step[x]]
  BY Zenon DEF RunStep, RunState
<1>5. m = [x \in S |-> m[x]]
  OBVIOUS
<1>6. ASSUME NEW t \in Seq(Int), NEW i \in 0 .. Len(s)
      PROVE  \/ i = 0 /\ step[RunVars(t, i)] = RunVars(t, i)
             \/ /\ i \in 1 .. Len(s)
                /\ \E u \in Seq(Int), j \in 0 .. Len(s) :
                     /\ InFront(s[i], t, u) /\ j < i
                     /\ (j = 0 /\ run[i] = 1) \/ (j \in Smaller(s, i) /\ run[j] + 1 = run[i])
                     /\ step[RunVars(t, i)] = RunVars(u, j)
  BY SMTT(60), RunStepTo
<1> HIDE DEF I, S, step, m
<1>7. ASSUME NEW x \in S
      PROVE  /\ step[x] \in S /\ m[x] \in Nat /\ (step[x] = x \/ m[step[x]] < m[x])
             /\ x \in I => step[x] \in I
  <2>1. PICK t \in Seq(Int), i \in 0 .. Len(s) : x = RunVars(t, i)
    BY <1>2
  <2>2. m[x] = i /\ i \in Nat /\ (x \in I <=> RunInv(s, run, top, t, i))
    BY <1>1, <2>1
  <2>3. CASE i = 0 /\ step[RunVars(t, i)] = RunVars(t, i)
    BY <2>1, <2>2, <2>3
  <2>4. CASE /\ i \in 1 .. Len(s)
             /\ \E u \in Seq(Int), j \in 0 .. Len(s) :
                  /\ InFront(s[i], t, u) /\ j < i
                  /\ (j = 0 /\ run[i] = 1) \/ (j \in Smaller(s, i) /\ run[j] + 1 = run[i])
                  /\ step[RunVars(t, i)] = RunVars(u, j)
    <3>1. PICK u \in Seq(Int), j \in 0 .. Len(s) :
                  /\ InFront(s[i], t, u) /\ j < i
                  /\ (j = 0 /\ run[i] = 1) \/ (j \in Smaller(s, i) /\ run[j] + 1 = run[i])
                  /\ step[RunVars(t, i)] = RunVars(u, j)
      BY <2>4
    <3>2. RunInv(s, run, top, t, i) => RunInv(s, run, top, u, j)
      BY <2>4, <3>1, RunKeeps
    <3>3. step[x] \in S /\ m[step[x]] = j /\ (step[x] \in I <=> RunInv(s, run, top, u, j))
      <4>1. step[x] = RunVars(u, j)
        BY <2>1, <3>1
      <4>2. QED
        BY <1>1, <4>1
    <3>4. QED
      BY <2>2, <3>1, <3>2, <3>3
  <2>5. QED
    BY <1>6, <2>3, <2>4
<1>8. step \in [S -> S] /\ m \in [S -> Nat]
  <2>1. (\A x \in S : step[x] \in S) /\ \A x \in S : m[x] \in Nat
    BY <1>7
  <2>2. QED
    BY <1>4, <1>5, <2>1
<1>9. Halts(S, step, m) /\ \A x \in I : step[x] \in I
  BY <1>3, <1>7 DEF Halts
<1>10. x0 \in I
  <2> DEFINE t == <<>>
  <2>1. t \in Seq(Int) /\ Len(t) = 0 /\ (\A k \in 1 .. Len(t) : FALSE) /\ i0 \in 0 .. Len(s)
    OBVIOUS
  <2> HIDE DEF t
  <2>2. After(s, t, i0)
    <3> DEFINE f == [k \in 1 .. Len(t) |-> 1]
    <3>1. Selects(f, s, t) /\ \A k \in 1 .. Len(t) : f[k] > i0
      BY <2>1 DEF Selects, Rising
    <3> HIDE DEF f
    <3>2. QED
      BY <3>1 DEF After
  <2>3. i0 # 0 /\ Len(t) + run[i0] = top
    BY <2>1
  <2>4. RunInv(s, run, top, t, i0)
    BY <2>1, <2>2, <2>3 DEF RunInv, Increases
  <2>5. RunVars(t, i0) \in I
    BY <1>1, <2>1, <2>4
  <2>6. QED
    BY <2>5 DEF t, x0
<1>11. end \in I /\ step[end] = end
  <2> HIDE DEF x0
  <2>1. QED
    BY <1>3, <1>8, <1>9, <1>10, WhileEnds
<1> HIDE DEF end
<1>12. PICK t \in Seq(Int), i \in 0 .. Len(s) : end = RunVars(t, i)
  BY <1>2, <1>3, <1>11
<1>13. RunInv(s, run, top, t, i)
  BY <1>1, <1>11, <1>12
<1>14. i = 0
  <2>1. SUFFICES ASSUME i # 0  PROVE FALSE
    OBVIOUS
  <2>2. PICK u \in Seq(Int), j \in 0 .. Len(s) : j < i /\ step[end] = RunVars(u, j)
    BY <1>6, <1>12, <2>1
  <2>3. RunVars(t, i) = RunVars(u, j)
    BY <1>11, <1>12, <2>2
  <2>4. i = j
    BY <2>3, Zenon DEF RunVars
  <2>5. QED
    BY <2>2, <2>4
<1>15. Collected(s, run, top, end)
  BY <1>12, <1>13, <1>14 DEF Collected
<1>16. QED
  BY <1>15 DEF end, x0, step

(* The dynamic programme finds a longest increasing subsequence. *)
LEMMA IncreasingFinds ==
  ASSUME NEW s \in Seq(Int), s # <<>>
  PROVE  IncreasingRight(s)
<1> DEFINE run == Runs(s)
           tops == {run[i] : i \in DOMAIN s}
           most == Max(tops)
           last == {i \in DOMAIN s : run[i] = most}
           index == Min(last)
           end == While(RunStep(s, run), RunVars(<<>>, index))
           increasing == {t \in AllSubsequences(s) : IsSorted(t, <)}
           lengths == {Len(t) : t \in increasing}
<1>0. RunsBy(s, run)
  BY RunsAre
<1>1. LongIncreaseSequence(s) = <<most, end.seq>>
  BY Zenon DEF LongIncreaseSequence, RunVars
<1> HIDE DEF run
<1>2. DOMAIN s = 1 .. Len(s) /\ Len(s) \in Nat /\ Len(s) # 0
  <2>1. DOMAIN s = 1 .. Len(s) /\ Len(s) \in Nat
    OBVIOUS
  <2>2. Len(s) # 0
    BY EmptySeq
  <2>3. QED
    BY <2>1, <2>2
<1>3. \A i \in 1 .. Len(s) : run[i] \in Nat /\ run[i] >= 1
  BY <1>0, RunsByIs DEF RunAtOf
<1>4. PICK h \in 1 .. Len(s) : \A i \in 1 .. Len(s) : run[i] <= run[h]
  <2> DEFINE n == Len(s)
             T == 1 .. n
  <2>1. n \in Nat /\ T # {} /\ T \in SUBSET (1 .. n) /\ \A i \in T : run[i] \in Nat
    BY <1>2, <1>3
  <2> HIDE DEF n, T
  <2>2. \E h \in T : \A i \in T : run[i] <= run[h]
    BY <2>1, HighestAt
  <2>3. QED
    BY <2>2 DEF n, T
<1>5. most = run[h]
  <2>1. tops \in SUBSET Int /\ run[h] \in tops /\ \A v \in tops : run[h] >= v
    BY <1>2, <1>3, <1>4
  <2> HIDE DEF tops
  <2>2. QED
    BY <2>1, MaxIs
<1> HIDE DEF most
<1>6. most \in Nat /\ most >= 1 /\ \A i \in 1 .. Len(s) : run[i] <= most
  BY <1>3, <1>4, <1>5
<1>7. index \in 1 .. Len(s) /\ run[index] = most
  <2>1. last \in SUBSET Nat /\ h \in last
    BY <1>2, <1>5
  <2>2. index \in last
    <3> HIDE DEF last
    <3>1. QED
      BY <2>1, LeastElement
  <2> HIDE DEF index
  <2>3. QED
    BY <1>2, <2>2
<1> HIDE DEF index
<1>8. Collected(s, run, most, end)
  BY <1>0, <1>6, <1>7, RunEnds
<1> HIDE DEF end
<1>9. PICK t \in Seq(Int) : end = RunVars(t, 0) /\ RunInv(s, run, most, t, 0)
  BY <1>8 DEF Collected
<1>10. end.seq = t
  <2>1. RunVars(t, 0).seq = t
    BY RunVarsAre
  <2>2. QED
    BY <1>9, <2>1, Zenon
<1>11. Increases(t) /\ Len(t) = most
  BY <1>9, Zenon DEF RunInv
<1>12. t \in increasing
  <2>1. PICK f : Selects(f, s, t)
    BY <1>9, Zenon DEF RunInv, After
  <2>2. t \in AllSubsequences(s)
    BY <2>1, IsSubsequence
  <2>3. IsSorted(t, <)
    BY <1>11 DEF Increases, IsSorted
  <2>4. QED
    BY <2>2, <2>3
<1>12a. \A u \in increasing : u \in AllSubsequences(s) /\ IsSorted(u, <)
  OBVIOUS
<1> HIDE DEF increasing, tops, last
<1>13. ASSUME NEW u \in increasing  PROVE Len(u) \in Nat /\ Len(u) <= most
  <2>1. u \in Seq(Int) /\ (\E f : Selects(f, s, u)) /\ Len(u) \in Nat
    <3>1. u \in AllSubsequences(s)
      BY <1>12a
    <3>2. u \in Seq(Int) /\ \E f : Selects(f, s, u)
      BY <3>1, SubsequenceIs
    <3>3. QED
      BY <3>2
  <2>2. Increases(u)
    BY <1>12a, Zenon DEF Increases, IsSorted
  <2>3. PICK f : Selects(f, s, u)
    BY <2>1
  <2>4. CASE Len(u) = 0
    BY <1>6, <2>4
  <2>5. CASE Len(u) # 0
    <3>1. Len(u) \in 1 .. Len(u)
      BY <2>1, <2>5
    <3>2. Len(u) <= run[f[Len(u)]]
      BY <1>0, <2>1, <2>2, <2>3, <3>1, RunBound
    <3>3. f[Len(u)] \in 1 .. Len(s)
      BY <2>3, <3>1 DEF Selects
    <3>4. run[f[Len(u)]] \in Nat /\ run[f[Len(u)]] <= most
      BY <1>3, <1>6, <3>3
    <3>5. \A v, w, x \in Nat : v <= w /\ w <= x => v <= x
      OBVIOUS
    <3>6. QED
      BY <1>6, <2>1, <3>2, <3>4, <3>5, Zenon
  <2>6. QED
    BY <2>1, <2>4, <2>5
<1>14. Max(lengths) = most
  <2>1. lengths \in SUBSET Int
    BY <1>13
  <2>2. most \in lengths
    BY <1>11, <1>12
  <2>3. \A n \in lengths : most >= n
    <3>1. \A u \in increasing : most >= Len(u)
      BY <1>6, <1>13
    <3>2. QED
      BY <3>1
  <2> HIDE DEF lengths
  <2>4. QED
    BY <2>1, <2>2, <2>3, MaxIs
<1>15. <<most, end.seq>>[1] = most /\ <<most, end.seq>>[2] = t
  BY <1>10
<1>16. QED
  BY <1>1, <1>11, <1>12, <1>14, <1>15, Zenon DEF IncreasingRight, increasing

-----------------------------------------------------------------------------
(* The functions, whatever calls are made *)

(* Each function is called with arguments it is defined for. *)
LEMMA CallsAre ==
  ASSUME NEW c \in Calls
  PROVE  /\ c[1] = "sort" => c[2] \in Seq(Int)
         /\ c[1] = "increasing" => c[2] \in Seq(Int) /\ c[2] # <<>>
         /\ c[1] = "common" => c[2] \in Seq(Int) /\ c[3] \in Seq(Int)
         /\ c[1] = "find" => c[2] \in Seq(Int) /\ Ordered(c[2]) /\ c[3] \in Int
         /\ c[1] = "match" => c[2] \in Seq(Int) /\ c[3] \in Seq(Int) /\ c[3] # <<>>
BY CallsAssumption DEF IsSorted, Ordered

(* What is under way is one of the calls. *)
THEOREM OnlyCalls == FunctionsSpec => [](call \in Calls \cup {<<>>})
<1>1. call = <<>> => call \in Calls \cup {<<>>}
  OBVIOUS
<1>2. call \in Calls \cup {<<>>} /\ [Call \/ Return]_call => (call \in Calls \cup {<<>>})'
  BY DEF Call, Return
<1>3. QED
  BY <1>1, <1>2, PTL DEF FunctionsSpec

(* Merge sort, heap sort and quick sort return a sorted rearrangement of what *)
(* they are given, quick sort whatever pivots it draws.                       *)
THEOREM SortsSort == FunctionsSpec => []Sorts
<1>1. call \in Calls \cup {<<>>} => Sorts
  <2> SUFFICES ASSUME call \in Calls, call[1] = "sort"
               PROVE  SortsRight(call[2])
    BY DEF Sorts, Calling
  <2>1. call[2] \in Seq(Int)
    BY CallsAre
  <2>2. QED
    BY <2>1, SortsAreRight
<1>2. QED
  BY <1>1, OnlyCalls, PTL

(* The longest increasing subsequence of a nonempty sequence and the longest *)
(* common subsequence of any two are found, with their lengths.              *)
THEOREM SubsequencesFound == FunctionsSpec => []FindsSubsequences
<1>1. call \in Calls \cup {<<>>} => FindsSubsequences
  <2>1. ASSUME call \in Calls, call[1] = "increasing"
        PROVE  IncreasingRight(call[2])
    <3>1. call[2] \in Seq(Int) /\ call[2] # <<>>
      BY <2>1, CallsAre
    <3>2. QED
      BY <3>1, IncreasingFinds
  <2>2. ASSUME call \in Calls, call[1] = "common"
        PROVE  CommonRight(call[2], call[3])
    <3>1. call[2] \in Seq(Int) /\ call[3] \in Seq(Int)
      BY <2>2, CallsAre
    <3>2. QED
      BY <3>1, CommonFinds
  <2>3. QED
    BY <2>1, <2>2 DEF FindsSubsequences, Calling
<1>2. QED
  BY <1>1, OnlyCalls, PTL

(* In a sorted sequence binary search finds any target that is there, and the *)
(* two others the first and the last place of a greatest and a least one; the *)
(* first place of a nonempty pattern is found with either table.              *)
THEOREM SearchesFind == FunctionsSpec => []Searches
<1>1. call \in Calls \cup {<<>>} => Searches
  <2>1. ASSUME call \in Calls, call[1] = "find"
        PROVE  BinarySearchRight(call[2], call[3])
    <3>1. call[2] \in Seq(Int) /\ Ordered(call[2]) /\ call[3] \in Int
      BY <2>1, CallsAre
    <3>2. QED
      BY <3>1, BinarySearchFinds
  <2>2. ASSUME call \in Calls, call[1] = "match"
        PROVE  KmpRight(call[2], call[3])
    <3>1. call[2] \in Seq(Int) /\ call[3] \in Seq(Int) /\ call[3] # <<>>
      BY <2>2, CallsAre
    <3>2. QED
      BY <3>1, KmpFinds
  <2>3. QED
    BY <2>1, <2>2 DEF Searches, Calling
<1>2. QED
  BY <1>1, OnlyCalls, PTL
=============================================================================
