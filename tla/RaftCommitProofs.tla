-------------------------- MODULE RaftCommitProofs --------------------------
(***************************************************************************)
(* What is missing for commitment to be safe, for any set of peers: if no  *)
(* answer of AppendEntries is used after the term it belongs to, and no    *)
(* service takes snapshots, no two services receive different commands for *)
(* an index, and no leader of the newest term lacks one.  And if no        *)
(* refusal is either, nextIndex stays within the leader's log.             *)
(*                                                                         *)
(* The argument is about two things the variables do not keep: the log a   *)
(* leader of each term ended with (tl), and which entries of a leader's    *)
(* own term each peer has accepted (ak).  The invariant says that there    *)
(* are values of both, and each step says how they change.                 *)
(*                                                                         *)
(* Positions count from 1: the entry with index n is at position n + 1.    *)
(***************************************************************************)
EXTENDS RaftProofs

-----------------------------------------------------------------------------
(* Logs and their fronts *)

Pos == Nat \ {0}

\* s has an entry of term t at position x.
Has(s, x, t) == x \in 1 .. Len(s) /\ s[x].term = t

\* s and u are the same up to position x.
SameFront(s, u, x) ==
  x <= Len(s) /\ x <= Len(u) /\ \A y \in 1 .. x : s[y] = u[y]

\* Up to an entry, s is the log of the leader of the entry's term.
Descends(tl, s) == \A x \in 1 .. Len(s) : SameFront(s, tl[s[x].term], x)

TermLogs(tl) ==
  /\ tl \in [Nat -> Seq(Entry)]
  /\ \A t \in Nat :
       Descends(tl, tl[t]) /\ \A x \in 1 .. Len(tl[t]) : tl[t][x].term <= t

\* Leaders append.
Grows(tl, ul) == \A t \in Nat : SameFront(tl[t], ul[t], Len(tl[t]))

LEMMA EntriesOf ==
  ASSUME NEW s \in Seq(Entry)
  PROVE  /\ Len(s) \in Nat
         /\ \A x \in 1 .. Len(s) : s[x] \in Entry /\ s[x].term \in Nat
<1>1. Len(s) \in Nat /\ \A x \in 1 .. Len(s) : s[x] \in Entry
  BY LenProperties, ElementOfSeq
<1>2. \A e \in Entry : e.term \in Nat
  BY DEF Entry
<1> QED
  BY <1>1, <1>2

LEMMA FrontShorter ==
  ASSUME NEW s, NEW u, NEW x \in Nat, SameFront(s, u, x), NEW y \in Nat, y <= x,
         Len(s) \in Nat, Len(u) \in Nat
  PROVE  SameFront(s, u, y)
  BY DEF SameFront

LEMMA FrontSwapped ==
  ASSUME NEW s, NEW u, NEW x, SameFront(s, u, x)
  PROVE  SameFront(u, s, x)
  BY DEF SameFront

LEMMA FrontChained ==
  ASSUME NEW s, NEW u, NEW v, NEW x, SameFront(s, u, x), SameFront(u, v, x)
  PROVE  SameFront(s, v, x)
  BY DEF SameFront

\* Two logs with an entry of one term at the same position are the same up to
\* there.
LEMMA SameTermSameFront ==
  ASSUME NEW tl, NEW s, NEW u, Descends(tl, s), Descends(tl, u),
         NEW x, NEW t, Has(s, x, t), Has(u, x, t)
  PROVE  SameFront(s, u, x) /\ SameFront(s, tl[t], x)
<1>1. SameFront(s, tl[t], x) /\ SameFront(u, tl[t], x)
  BY DEF Has, Descends
<1> QED
  BY <1>1, FrontSwapped, FrontChained

LEMMA TermsOrdered ==
  ASSUME NEW tl, TermLogs(tl), NEW s \in Seq(Entry), Descends(tl, s),
         NEW x \in 1 .. Len(s), NEW y \in 1 .. Len(s), x <= y
  PROVE  s[x].term <= s[y].term
<1> DEFINE t == s[y].term
<1>1. t \in Nat /\ Len(s) \in Nat
  BY EntriesOf
<1>2. SameFront(s, tl[t], y)
  BY DEF Descends
<1>3. tl[t] \in Seq(Entry) /\ Len(tl[t]) \in Nat
  BY <1>1, EntriesOf DEF TermLogs
<1>4. s[x] = tl[t][x] /\ x \in 1 .. Len(tl[t])
  BY <1>1, <1>2, <1>3 DEF SameFront
<1>5. tl[t][x].term <= t
  BY <1>1, <1>4 DEF TermLogs
<1> QED
  BY <1>4, <1>5

LEMMA FrontDescends ==
  ASSUME NEW tl, NEW u \in Seq(Entry), Descends(tl, u), NEW s \in Seq(Entry),
         SameFront(s, u, Len(s))
  PROVE  Descends(tl, s)
<1> SUFFICES ASSUME NEW x \in 1 .. Len(s)
             PROVE  SameFront(s, tl[s[x].term], x)
  BY DEF Descends
<1>1. Len(s) \in Nat /\ Len(u) \in Nat
  BY EntriesOf
<1>2. x \in 1 .. Len(u) /\ s[x] = u[x]
  BY <1>1 DEF SameFront
<1>3. SameFront(s, u, x)
  BY <1>1, FrontShorter
<1>4. SameFront(u, tl[s[x].term], x)
  BY <1>2 DEF Descends
<1> QED
  BY <1>3, <1>4, FrontChained

LEMMA DescendsStays ==
  ASSUME NEW tl, NEW ul, TermLogs(tl), ul \in [Nat -> Seq(Entry)], Grows(tl, ul),
         NEW s \in Seq(Entry), Descends(tl, s)
  PROVE  Descends(ul, s)
<1> SUFFICES ASSUME NEW x \in 1 .. Len(s)
             PROVE  SameFront(s, ul[s[x].term], x)
  BY DEF Descends
<1> DEFINE t == s[x].term
<1>1. t \in Nat /\ x \in Nat
  BY EntriesOf
<1>2. SameFront(s, tl[t], x)
  BY DEF Descends
<1>3. SameFront(tl[t], ul[t], Len(tl[t]))
  BY <1>1 DEF Grows
<1>4. Len(tl[t]) \in Nat /\ Len(ul[t]) \in Nat
  BY <1>1, EntriesOf DEF TermLogs
<1>5. x <= Len(tl[t])
  BY <1>2 DEF SameFront
<1> HIDE DEF t
<1>6. SameFront(tl[t], ul[t], x)
  BY <1>1, <1>3, <1>4, <1>5, FrontShorter
<1> QED
  BY <1>2, <1>6, FrontChained DEF t

LEMMA HasStays ==
  ASSUME NEW s, NEW u, SameFront(s, u, Len(s)), Len(s) \in Nat, Len(u) \in Nat,
         NEW x, NEW t, Has(s, x, t)
  PROVE  Has(u, x, t)
  BY DEF Has, SameFront

-----------------------------------------------------------------------------
(* What AppendEntries does to a log *)

\* The entries e come from the log u, behind position n + 1, up to which s is
\* the same.
Follows(s, u, e, n) ==
  /\ n + 1 + Len(e) <= Len(u)
  /\ \A k \in 1 .. Len(e) : e[k] = u[n + 1 + k]
  /\ SameFront(s, u, n + 1)

SameTermAt(s, e, n, k) == n + 1 + k <= Len(s) /\ s[n + 1 + k].term = e[k].term

\* If the entries before k have the terms they have in s, they are in s.
LEMMA PresentInFront ==
  ASSUME NEW tl, NEW s \in Seq(Entry), NEW u \in Seq(Entry), Descends(tl, s),
         Descends(tl, u), NEW e \in Seq(Entry), NEW n \in Nat, Follows(s, u, e, n),
         NEW k \in 0 .. Len(e), \A p \in 1 .. k : SameTermAt(s, e, n, p)
  PROVE  SameFront(s, u, n + 1 + k)
<1>1. Len(s) \in Nat /\ Len(u) \in Nat /\ Len(e) \in Nat
  BY EntriesOf
<1>2. CASE k = 0
  <2>1. n + 1 + k = n + 1
    BY <1>2
  <2> QED
    BY <2>1 DEF Follows
<1>3. CASE k # 0
  <2>1. k \in 1 .. Len(e) /\ k \in 1 .. k
    BY <1>1, <1>3
  <2>2. n + 1 + k <= Len(s) /\ s[n + 1 + k].term = e[k].term
    BY <2>1 DEF SameTermAt
  <2>3. n + 1 + k <= Len(u) /\ e[k] = u[n + 1 + k]
    <3>1. n + 1 + Len(e) <= Len(u) /\ e[k] = u[n + 1 + k]
      BY <2>1 DEF Follows
    <3> QED
      BY <1>1, <2>1, <3>1
  <2>4. n + 1 + k \in 1 .. Len(s) /\ n + 1 + k \in 1 .. Len(u)
    BY <1>1, <2>1, <2>2, <2>3
  <2>5. Has(s, n + 1 + k, e[k].term) /\ Has(u, n + 1 + k, e[k].term)
    BY <2>2, <2>3, <2>4 DEF Has
  <2> QED
    BY <2>5, SameTermSameFront
<1> QED
  BY <1>2, <1>3

\* With the entries from the first new one on, s becomes the front of u; what s
\* had in common with u stays.
LEMMA JoinedFollows ==
  ASSUME NEW tl, NEW s \in Seq(Entry), NEW u \in Seq(Entry), Descends(tl, s),
         Descends(tl, u), NEW e \in Seq(Entry), NEW n \in Nat, Follows(s, u, e, n),
         NEW k \in 1 .. Len(e), \A p \in 1 .. k - 1 : SameTermAt(s, e, n, p),
         ~SameTermAt(s, e, n, k)
  PROVE  /\ Len(Joined(s, e, n, k)) = n + 1 + Len(e)
         /\ SameFront(Joined(s, e, n, k), u, n + 1 + Len(e))
         /\ \A x \in Nat : SameFront(s, u, x) => SameFront(Joined(s, e, n, k), u, x)
<1>1. Len(s) \in Nat /\ Len(u) \in Nat /\ Len(e) \in Nat
  BY EntriesOf
<1>2. SameFront(s, u, n + k)
  <2>1. k - 1 \in 0 .. Len(e) /\ n + 1 + (k - 1) = n + k
    BY <1>1
  <2>2. SameFront(s, u, n + 1 + (k - 1))
    BY <2>1, PresentInFront
  <2> QED
    BY <2>1, <2>2
<1>3. n + k <= Len(s) /\ n + k <= Len(u) /\ \A y \in 1 .. n + k : s[y] = u[y]
  BY <1>2 DEF SameFront
<1>4. PICK r : r = Joined(s, e, n, k)
  OBVIOUS
<1>5. /\ Len(r) = n + 1 + Len(e)
      /\ \A x \in 1 .. n + k : r[x] = s[x]
      /\ \A x \in n + k + 1 .. n + 1 + Len(e) : r[x] = e[x - n - 1]
  <2>1. n + k <= Len(s)
    BY <1>3
  <2> QED
    BY <1>4, <2>1, JoinedIs
<1>6. n + 1 + Len(e) <= Len(u) /\ \A p \in 1 .. Len(e) : e[p] = u[n + 1 + p]
  BY DEF Follows
<1>7. ASSUME NEW y \in 1 .. n + 1 + Len(e) PROVE r[y] = u[y]
  <2>1. CASE y <= n + k
    <3>1. y \in 1 .. n + k
      BY <1>1, <2>1
    <3> QED
      BY <1>3, <1>5, <3>1
  <2>2. CASE y > n + k
    <3>1. y \in n + k + 1 .. n + 1 + Len(e)
      BY <1>1, <2>2
    <3>2. y - n - 1 \in 1 .. Len(e) /\ n + 1 + (y - n - 1) = y
      BY <1>1, <2>2
    <3>3. r[y] = e[y - n - 1]
      BY <1>5, <3>1
    <3>4. e[y - n - 1] = u[n + 1 + (y - n - 1)]
      BY <1>6, <3>2
    <3> QED
      BY <3>2, <3>3, <3>4
  <2> QED
    BY <1>1, <2>1, <2>2
<1>8. SameFront(r, u, n + 1 + Len(e))
  <2>1. n + 1 + Len(e) <= Len(r)
    BY <1>1, <1>5
  <2> QED
    BY <1>6, <1>7, <2>1 DEF SameFront
<1>9. ASSUME NEW x \in Nat, SameFront(s, u, x)
      PROVE  SameFront(r, u, x)
  <2>1. x <= n + 1 + Len(e)
    <3> SUFFICES ASSUME x > n + 1 + Len(e) PROVE FALSE
      BY <1>1
    <3>1. n + 1 + k \in 1 .. x
      BY <1>1
    <3>2. n + 1 + k <= Len(s) /\ s[n + 1 + k] = u[n + 1 + k]
      <4>1. x <= Len(s) /\ s[n + 1 + k] = u[n + 1 + k]
        BY <1>9, <3>1 DEF SameFront
      <4> QED
        BY <1>1, <3>1, <4>1
    <3> QED
      BY <1>6, <3>2 DEF SameTermAt
  <2>2. Len(r) \in Nat /\ n + 1 + Len(e) \in Nat
    BY <1>1, <1>5
  <2> QED
    BY <1>1, <1>8, <2>1, <2>2, FrontShorter
<1> QED
  BY <1>4, <1>5, <1>8, <1>9

\* What a call brings is part of the log of the leader of its term.
Brings(tl, m) ==
  /\ m.prevLogIndex + 1 + Len(m.entries) <= Len(tl[m.term])
  /\ tl[m.term][m.prevLogIndex + 1].term = m.prevLogTerm
  /\ \A k \in 1 .. Len(m.entries) :
       m.entries[k] = tl[m.term][m.prevLogIndex + 1 + k]

LEMMA RequestFields ==
  ASSUME NEW m \in AppendRequest
  PROVE  /\ m.prevLogIndex \in Nat /\ m.prevLogTerm \in Nat /\ m.term \in Nat
         /\ m.entries \in Seq(Entry) /\ Len(m.entries) \in Nat
         /\ m.leaderCommit \in Nat /\ m.to \in Server
         /\ m.caller \in Server \cup {Nil} /\ m.kind = "append"
  BY LenProperties DEF AppendRequest

LEMMA PlainLog ==
  ASSUME TypeOK, NoSnapshots, NEW i \in Server
  PROVE  /\ snapshotIndex[i] = 0 /\ snapshotTerm[i] = 0 /\ log[i][1].term = 0
         /\ log[i] \in Seq(Entry) /\ Len(log[i]) \in Nat \ {0}
         /\ LastIndex(i) = Len(log[i]) - 1
         /\ \A n \in Nat : EntryAt(i, n) = log[i][n + 1]
         /\ \A n \in Nat : TermAt(i, n) = log[i][n + 1].term
<1>1. /\ snapshotIndex[i] = 0 /\ snapshotTerm[i] = 0 /\ log[i][1].term = 0
      /\ log[i] \in Seq(Entry) /\ Len(log[i]) \in Nat \ {0}
  BY LogFacts DEF NoSnapshots
<1>2. LastIndex(i) = Len(log[i]) - 1
  BY <1>1 DEF LastIndex
<1>3. ASSUME NEW n \in Nat
      PROVE  EntryAt(i, n) = log[i][n + 1] /\ TermAt(i, n) = log[i][n + 1].term
  <2>1. n - 0 + 1 = n + 1
    OBVIOUS
  <2>2. EntryAt(i, n) = log[i][n + 1]
    BY <1>1, <2>1 DEF EntryAt
  <2>3. n = 0 => log[i][n + 1].term = 0
    BY <1>1
  <2> QED
    BY <1>1, <2>2, <2>3 DEF TermAt
<1> QED
  BY <1>1, <1>2, <1>3

LEMMA MergeFollows ==
  ASSUME TypeOK, NoSnapshots, NEW tl, TermLogs(tl), NEW i \in Server,
         Descends(tl, log[i]), NEW m \in AppendRequest, Brings(tl, m),
         HasPrevious(i, m), Merge(i, m)
  PROVE  /\ \A j \in Server \ {i} : log'[j] = log[j]
         /\ SameFront(log'[i], tl[m.term], Match(m) + 1)
         /\ \A x \in Nat : SameFront(log[i], tl[m.term], x)
                             => SameFront(log'[i], tl[m.term], x)
         /\ log' = log \/ Len(log'[i]) = Match(m) + 1
<1>1. PICK s, u, e, n : s = log[i] /\ u = tl[m.term] /\ e = m.entries
                          /\ n = m.prevLogIndex
  OBVIOUS
<1>2. /\ s \in Seq(Entry) /\ u \in Seq(Entry) /\ e \in Seq(Entry) /\ n \in Nat
      /\ Descends(tl, s) /\ Descends(tl, u)
  BY <1>1, PlainLog, RequestFields DEF TermLogs
<1>3. Len(s) \in Nat /\ Len(u) \in Nat /\ Len(e) \in Nat
  BY <1>2, EntriesOf
<1>4. /\ n + 1 + Len(e) <= Len(u) /\ u[n + 1].term = m.prevLogTerm
      /\ \A k \in 1 .. Len(e) : e[k] = u[n + 1 + k]
  BY <1>1 DEF Brings
<1>5. n + 1 <= Len(s) /\ s[n + 1].term = m.prevLogTerm
  <2>1. /\ n \in snapshotIndex[i] .. LastIndex(i) /\ TermAt(i, n) = m.prevLogTerm
    BY <1>1 DEF HasPrevious
  <2>2. LastIndex(i) = Len(s) - 1 /\ TermAt(i, n) = s[n + 1].term
    BY <1>1, <1>2, PlainLog
  <2>3. snapshotIndex[i] = 0
    BY PlainLog
  <2> QED
    BY <1>2, <1>3, <2>1, <2>2, <2>3
<1>6. Follows(s, u, e, n)
  <2>1. Has(s, n + 1, m.prevLogTerm) /\ Has(u, n + 1, m.prevLogTerm)
    BY <1>2, <1>3, <1>4, <1>5 DEF Has
  <2>2. SameFront(s, u, n + 1)
    BY <1>2, <2>1, SameTermSameFront
  <2> QED
    BY <1>4, <2>2 DEF Follows
<1>7. \A k \in 1 .. Len(e) : Present(i, m, k) <=> SameTermAt(s, e, n, k)
  <2> SUFFICES ASSUME NEW k \in 1 .. Len(e)
               PROVE  Present(i, m, k) <=> SameTermAt(s, e, n, k)
    OBVIOUS
  <2>1. n + k \in Nat /\ n + k + 1 = n + 1 + k
    BY <1>2, <1>3
  <2>2. EntryAt(i, n + k) = s[n + 1 + k] /\ LastIndex(i) = Len(s) - 1
    BY <1>1, <2>1, PlainLog
  <2>3. n + k <= Len(s) - 1 <=> n + 1 + k <= Len(s)
    BY <1>2, <1>3
  <2> QED
    BY <1>1, <2>2, <2>3 DEF Present, SameTermAt
<1>8. Match(m) + 1 = n + 1 + Len(e)
  BY <1>1, <1>2, <1>3 DEF Match
<1>9. CASE /\ \A k \in DOMAIN m.entries : Present(i, m, k)
           /\ UNCHANGED log
  <2>1. \A k \in 1 .. Len(e) : SameTermAt(s, e, n, k)
    BY <1>1, <1>2, <1>7, <1>9, LenProperties
  <2>2. Len(e) \in 0 .. Len(e)
    BY <1>3
  <2>3. SameFront(s, u, n + 1 + Len(e))
    BY <1>2, <1>6, <2>1, <2>2, PresentInFront
  <2> QED
    BY <1>1, <1>8, <1>9, <2>3
<1>10. ASSUME NEW k \in DOMAIN m.entries,
              \A p \in 1 .. k - 1 : Present(i, m, p), ~Present(i, m, k),
              log' = [log EXCEPT ![i] =
                        SubSeq(@, 1, m.prevLogIndex + k - snapshotIndex[i])
                          \o SubSeq(m.entries, k, Len(m.entries))]
       PROVE  /\ \A j \in Server \ {i} : log'[j] = log[j]
              /\ SameFront(log'[i], u, n + 1 + Len(e))
              /\ \A x \in Nat : SameFront(s, u, x) => SameFront(log'[i], u, x)
              /\ Len(log'[i]) = n + 1 + Len(e)
  <2>1. k \in 1 .. Len(e)
    BY <1>1, <1>2, LenProperties
  <2>2. /\ \A p \in 1 .. k - 1 : SameTermAt(s, e, n, p)
        /\ ~SameTermAt(s, e, n, k)
    <3>1. \A p \in 1 .. k - 1 : p \in 1 .. Len(e)
      BY <1>3, <2>1
    <3> QED
      BY <1>7, <1>10, <2>1, <3>1
  <2>3. m.prevLogIndex + k - snapshotIndex[i] = n + k
    <3>1. snapshotIndex[i] = 0
      BY PlainLog
    <3> QED
      BY <1>1, <1>2, <1>3, <2>1, <3>1
  <2>4. log'[i] = Joined(s, e, n, k) /\ \A j \in Server \ {i} : log'[j] = log[j]
    BY <1>1, <1>10, <2>3 DEF Joined, TypeOK
  <2>5. /\ Len(Joined(s, e, n, k)) = n + 1 + Len(e)
        /\ SameFront(Joined(s, e, n, k), u, n + 1 + Len(e))
        /\ \A x \in Nat : SameFront(s, u, x) => SameFront(Joined(s, e, n, k), u, x)
    BY <1>2, <1>6, <2>1, <2>2, JoinedFollows
  <2> QED
    BY <2>4, <2>5
<1> QED
  BY <1>1, <1>8, <1>9, <1>10 DEF Merge

\* Peer i's log after it accepts m descends from the logs of the terms.
LEMMA MergeDescends ==
  ASSUME TypeOK, TypeOK', NoSnapshots, NEW tl, TermLogs(tl), NEW i \in Server,
         Descends(tl, log[i]), NEW m \in AppendRequest, Brings(tl, m),
         HasPrevious(i, m), Merge(i, m)
  PROVE  Descends(tl, log'[i])
<1>1. /\ SameFront(log'[i], tl[m.term], Match(m) + 1)
      /\ log' = log \/ Len(log'[i]) = Match(m) + 1
  BY MergeFollows
<1>2. log'[i] \in Seq(Entry)
  BY DEF TypeOK
<1>3. tl[m.term] \in Seq(Entry) /\ Descends(tl, tl[m.term])
  BY RequestFields DEF TermLogs
<1>4. CASE Len(log'[i]) = Match(m) + 1
  <2>1. SameFront(log'[i], tl[m.term], Len(log'[i]))
    BY <1>1, <1>4
  <2> QED
    BY <1>2, <1>3, <2>1, FrontDescends
<1> QED
  BY <1>1, <1>4

-----------------------------------------------------------------------------
(* Chosen and lost *)

Quorum == {Q \in SUBSET Server : IsMajority(Cardinality(Q))}

\* A majority has accepted the entry of term t at position x: <<j, t, x>> in ak
\* says that j has.
Chosen(ak, t, x) == \E Q \in Quorum : \A j \in Q : <<j, t, x>> \in ak

\* That can no longer be: a majority has moved on to newer terms without it.
Lost(ak, t, x) ==
  \E Q \in Quorum : \A j \in Q : t < disk[j].term /\ <<j, t, x>> \notin ak

\* The front of s behind index c is that of the log of a term up to T in which
\* an entry at or beyond c is chosen.
CommittedTo(tl, ak, s, c, T) ==
  c = 0 \/ \E t \in 0 .. T, y \in Pos :
             y >= c + 1 /\ Chosen(ak, t, y) /\ SameFront(s, tl[t], c + 1)

ChosenEntry(tl, ak, x, e) ==
  \E t \in Nat, y \in Pos :
    y >= x /\ Chosen(ak, t, y) /\ x \in 1 .. Len(tl[t]) /\ tl[t][x] = e

Votes == Server \X Nat \X Pos

\* What there is of both later on: leaders append, and a peer accepts nothing
\* of a term older than the one on its disk.
Later(tl, ak, ul, bk) ==
  /\ TermLogs(tl) /\ TermLogs(ul) /\ Grows(tl, ul)
  /\ ak \subseteq bk /\ bk \subseteq Votes
LaterHere(ak, bk) ==
  /\ \A j \in Server : disk[j].term <= disk'[j].term
  /\ \A j \in Server, t \in Nat, x \in Pos :
       <<j, t, x>> \in bk => <<j, t, x>> \in ak \/ disk[j].term <= t

LEMMA QuorumsMeet ==
  ASSUME NEW Q \in Quorum, NEW R \in Quorum
  PROVE  \E j \in Server : j \in Q /\ j \in R
<1>1. /\ Q \subseteq Server /\ R \subseteq Server
      /\ IsMajority(Cardinality(Q)) /\ IsMajority(Cardinality(R))
  BY DEF Quorum
<1>2. /\ Cardinality(Q) \in Nat /\ Cardinality(R) \in Nat
      /\ Cardinality(Server) \in Nat
  BY <1>1, RaftAssumption, FS_Subset, FS_CardinalityType
<1>3. Cardinality(Q) + Cardinality(R) > Cardinality(Server)
  BY <1>1, <1>2 DEF IsMajority
<1>4. Q \cap R # {}
  BY <1>1, <1>3, RaftAssumption, FS_MajoritiesIntersect
<1> QED
  BY <1>1, <1>4

LEMMA ChosenNotLost ==
  ASSUME NEW ak, NEW t, NEW x, Chosen(ak, t, x)
  PROVE  ~Lost(ak, t, x)
  BY QuorumsMeet DEF Chosen, Lost

LEMMA ChosenByOne ==
  ASSUME NEW ak, NEW t, NEW x, Chosen(ak, t, x)
  PROVE  \E j \in Server : <<j, t, x>> \in ak
  BY QuorumsMeet DEF Chosen

LEMMA ChosenStays ==
  ASSUME NEW ak, NEW bk, ak \subseteq bk, NEW t, NEW x, Chosen(ak, t, x)
  PROVE  Chosen(bk, t, x)
  BY DEF Chosen

LEMMA LostStays ==
  ASSUME TypeOK, TypeOK', NEW ak, NEW bk, LaterHere(ak, bk),
         NEW t \in Nat, NEW x \in Pos, Lost(ak, t, x)
  PROVE  Lost(bk, t, x)'
<1>1. PICK Q \in Quorum : \A j \in Q : t < disk[j].term /\ <<j, t, x>> \notin ak
  BY DEF Lost
<1>2. ASSUME NEW j \in Q
      PROVE  t < disk'[j].term /\ <<j, t, x>> \notin bk
  <2>1. j \in Server
    BY DEF Quorum
  <2>2. disk[j].term \in Nat /\ disk'[j].term \in Nat
    BY <2>1 DEF TypeOK, Persisted
  <2>3. t < disk[j].term /\ <<j, t, x>> \notin ak
    BY <1>1
  <2> QED
    BY <2>1, <2>2, <2>3 DEF LaterHere
<1> QED
  BY <1>2 DEF Lost

LEMMA FrontStays ==
  ASSUME NEW tl, NEW ak, NEW ul, NEW bk, Later(tl, ak, ul, bk),
         NEW s, NEW t \in Nat, NEW x \in Nat, SameFront(s, tl[t], x)
  PROVE  SameFront(s, ul[t], x)
<1>1. SameFront(tl[t], ul[t], Len(tl[t]))
  BY DEF Grows, Later
<1>2. Len(tl[t]) \in Nat /\ Len(ul[t]) \in Nat
  BY EntriesOf DEF TermLogs, Later
<1>3. x <= Len(tl[t])
  BY DEF SameFront
<1>4. SameFront(tl[t], ul[t], x)
  BY <1>1, <1>2, <1>3, FrontShorter
<1> QED
  BY <1>4, FrontChained

LEMMA CommittedToStays ==
  ASSUME NEW tl, NEW ak, NEW ul, NEW bk, Later(tl, ak, ul, bk),
         NEW s \in Seq(Entry), NEW u \in Seq(Entry), SameFront(s, u, Len(s)),
         NEW c \in Nat, NEW T \in Nat, NEW U \in Nat, T <= U,
         CommittedTo(tl, ak, s, c, T)
  PROVE  CommittedTo(ul, bk, u, c, U)
<1> SUFFICES ASSUME c # 0 PROVE CommittedTo(ul, bk, u, c, U)
  BY DEF CommittedTo
<1>1. PICK t \in 0 .. T, y \in Pos :
        y >= c + 1 /\ Chosen(ak, t, y) /\ SameFront(s, tl[t], c + 1)
  BY DEF CommittedTo
<1>2. t \in Nat /\ t \in 0 .. U /\ c + 1 \in Nat
  OBVIOUS
<1>3. SameFront(s, ul[t], c + 1)
  BY <1>1, <1>2, FrontStays
<1>4. SameFront(u, ul[t], c + 1)
  <2>1. Len(s) \in Nat /\ Len(u) \in Nat
    BY EntriesOf
  <2>2. c + 1 <= Len(s)
    BY <1>1 DEF SameFront
  <2>3. SameFront(s, u, c + 1)
    BY <1>2, <2>1, <2>2, FrontShorter
  <2> QED
    BY <1>3, <2>3, FrontSwapped, FrontChained
<1>5. Chosen(bk, t, y)
  BY <1>1, ChosenStays DEF Later
<1> QED
  BY <1>1, <1>2, <1>4, <1>5 DEF CommittedTo

LEMMA ChosenEntryStays ==
  ASSUME NEW tl, NEW ak, NEW ul, NEW bk, Later(tl, ak, ul, bk),
         NEW x \in Nat, NEW e, ChosenEntry(tl, ak, x, e)
  PROVE  ChosenEntry(ul, bk, x, e)
<1>1. PICK t \in Nat, y \in Pos :
        y >= x /\ Chosen(ak, t, y) /\ x \in 1 .. Len(tl[t]) /\ tl[t][x] = e
  BY DEF ChosenEntry
<1>2. SameFront(tl[t], ul[t], Len(tl[t]))
  BY DEF Grows, Later
<1>3. Len(tl[t]) \in Nat /\ Len(ul[t]) \in Nat
  BY EntriesOf DEF TermLogs, Later
<1>4. x \in 1 .. Len(ul[t]) /\ ul[t][x] = e
  BY <1>1, <1>2, <1>3 DEF SameFront
<1>5. Chosen(bk, t, y)
  BY <1>1, ChosenStays DEF Later
<1> QED
  BY <1>1, <1>4, <1>5 DEF ChosenEntry

-----------------------------------------------------------------------------
(* The invariant *)

\* The answer r tells that its sender holds the leader's log up to r.match.
ReplyOK(tl, ak, r) ==
  r.success =>
    /\ r.match + 1 <= Len(tl[r.term])
    /\ \A x \in 1 .. r.match + 1 :
         tl[r.term][x].term = r.term => <<r.to, r.term, x>> \in ak

RequestOK(tl, ak, m) ==
  /\ Brings(tl, m)
  /\ m.leaderCommit <= Match(m)
  /\ CommittedTo(tl, ak, tl[m.term], m.leaderCommit, m.term)

CallOK(tl, ak, c) ==
  c # Nil =>
    /\ c.kind = "append" => RequestOK(tl, ak, c)
    /\ c.kind = "appended" => ReplyOK(tl, ak, c)
    /\ c.kind \in {"send", "relock"} /\ c.then # Nil => ReplyOK(tl, ak, c.then)
    /\ c.kind = "send" => ChosenEntry(tl, ak, c.index + 1, c.entry)

CallsOK(tl, ak) == \A g \in Goroutine : CallOK(tl, ak, call[g])

TermsHeld(tl) == \A t \in Nat \ {0} : tl[t] # <<>> => Won(t)

LeaderLogs(tl) ==
  \A i \in Server : state[i] = "Leader" => tl[currentTerm[i]] = log[i]

PeerLogs(tl) ==
  \A i \in Server :
    /\ Descends(tl, log[i])
    /\ \A x \in 1 .. Len(log[i]) : log[i][x].term <= disk[i].term

\* What a peer has accepted it keeps, unless the entry is lost.
AckOK(tl, ak, j, t, x) ==
  /\ Has(tl[t], x, t)
  /\ t <= disk[j].term
  /\ disk[j].term = t => SameFront(log[j], tl[t], x)
  /\ Has(log[j], x, t) \/ Lost(ak, t, x)
AcksOK(tl, ak) ==
  \A j \in Server, t \in Nat, x \in Pos :
    <<j, t, x>> \in ak => AckOK(tl, ak, j, t, x)

\* Of the log of leader i, j has accepted what is of the leader's term, up to x.
Holds(ak, i, j, x) ==
  /\ x <= Len(log[i])
  /\ \A y \in 1 .. x :
       log[i][y].term = currentTerm[i] => <<j, currentTerm[i], y>> \in ak
MatchesOK(ak) ==
  \A i \in Server : state[i] = "Leader" =>
    /\ Holds(ak, i, i, Len(log[i]))
    /\ \A j \in Server \ {i} : Holds(ak, i, j, matchIndex[i][j] + 1)

\* The leader of t may still put an entry at x.
Own(tl, t, x) == x \in 1 .. Len(tl[t]) => tl[t][x].term = t

\* A later leader has every entry of t that is not lost.
TermsSafe(tl, ak) ==
  \A t, T \in Nat, x \in Pos :
    t < T /\ tl[T] # <<>> /\ Own(tl, t, x) => Has(tl[T], x, t) \/ Lost(ak, t, x)

RequestsOK ==
  \A c \in voteCalls :
    c.kind = "request" /\ state[c.candidate] = "Candidate"
        /\ currentTerm[c.candidate] = c.term
      => /\ c.lastLogIndex = LastIndex(c.candidate)
         /\ c.lastLogTerm = LastTerm(c.candidate)

BallotsHonest == \A b \in ballots : b[2] <= disk[b[3]].term

\* So has a candidate every entry its voters had accepted.
BallotsSafe(tl, ak) ==
  \A b \in ballots :
    state[b[3]] = "Candidate" /\ currentTerm[b[3]] = b[2] =>
      \A t \in Nat, x \in Pos :
        <<b[1], t, x>> \in ak /\ t < b[2] => Has(log[b[3]], x, t) \/ Lost(ak, t, x)

CommitsOK(tl, ak) ==
  \A i \in Server :
    /\ commitIndex[i] + 1 <= Len(log[i])
    /\ CommittedTo(tl, ak, log[i], commitIndex[i], currentTerm[i])

AppliedOK(tl, ak) ==
  \A a \in applied : ChosenEntry(tl, ak, a[1] + 1, a[2])

LogsOK(tl) == TermLogs(tl) /\ TermsHeld(tl) /\ LeaderLogs(tl) /\ PeerLogs(tl)
ChoiceOK(tl, ak) ==
  /\ ak \subseteq Votes
  /\ AcksOK(tl, ak) /\ MatchesOK(ak) /\ TermsSafe(tl, ak)
RunsOK(tl, ak) == RequestsOK /\ BallotsHonest /\ BallotsSafe(tl, ak)
UseOK(tl, ak) == CallsOK(tl, ak) /\ CommitsOK(tl, ak) /\ AppliedOK(tl, ak)
CommitInv(tl, ak) ==
  LogsOK(tl) /\ ChoiceOK(tl, ak) /\ RunsOK(tl, ak) /\ UseOK(tl, ak)

LEMMA MatchType ==
  ASSUME NEW m \in AppendRequest
  PROVE  Match(m) \in Nat
  BY RequestFields DEF Match

LEMMA CallOKStays ==
  ASSUME NEW tl, NEW ak, NEW ul, NEW bk, Later(tl, ak, ul, bk),
         NEW c \in Call \cup {Nil}, CallOK(tl, ak, c)
  PROVE  CallOK(ul, bk, c)
<1>1. ASSUME NEW t \in Nat
      PROVE  /\ tl[t] \in Seq(Entry) /\ ul[t] \in Seq(Entry)
             /\ Len(tl[t]) \in Nat /\ Len(ul[t]) \in Nat /\ Len(tl[t]) <= Len(ul[t])
             /\ \A x \in 1 .. Len(tl[t]) : tl[t][x] = ul[t][x]
             /\ SameFront(tl[t], ul[t], Len(tl[t]))
  <2>1. SameFront(tl[t], ul[t], Len(tl[t]))
    BY DEF Grows, Later
  <2>2. tl[t] \in Seq(Entry) /\ ul[t] \in Seq(Entry)
    BY DEF TermLogs, Later
  <2> QED
    BY <2>1, <2>2, EntriesOf DEF SameFront
<1>2. ASSUME NEW r \in AppendReply, ReplyOK(tl, ak, r)
      PROVE  ReplyOK(ul, bk, r)
  <2> SUFFICES ASSUME r.success PROVE ReplyOK(ul, bk, r)
    BY DEF ReplyOK
  <2>1. r.term \in Nat /\ r.match \in Nat
    BY DEF AppendReply
  <2>2. r.match + 1 <= Len(tl[r.term])
    BY <1>2 DEF ReplyOK
  <2>3. ASSUME NEW x \in 1 .. r.match + 1, ul[r.term][x].term = r.term
        PROVE  <<r.to, r.term, x>> \in bk
    <3>1. x \in 1 .. Len(tl[r.term])
      BY <1>1, <2>1, <2>2
    <3>2. tl[r.term][x].term = r.term
      BY <1>1, <2>1, <2>3, <3>1
    <3> QED
      BY <1>2, <3>2 DEF ReplyOK, Later
  <2>4. r.match + 1 <= Len(ul[r.term])
    BY <1>1, <2>1, <2>2
  <2> QED
    BY <2>3, <2>4 DEF ReplyOK
<1>3. ASSUME c # Nil, c.kind = "append" PROVE RequestOK(ul, bk, c)
  <2>1. RequestOK(tl, ak, c) /\ c \in AppendRequest
    BY <1>3, CallKinds DEF CallOK
  <2>2. /\ c.term \in Nat /\ c.prevLogIndex \in Nat /\ Len(c.entries) \in Nat
        /\ c.leaderCommit \in Nat
    BY <2>1, RequestFields
  <2>3. /\ tl[c.term] \in Seq(Entry) /\ ul[c.term] \in Seq(Entry)
        /\ Len(tl[c.term]) \in Nat /\ Len(ul[c.term]) \in Nat
        /\ Len(tl[c.term]) <= Len(ul[c.term])
        /\ \A x \in 1 .. Len(tl[c.term]) : tl[c.term][x] = ul[c.term][x]
        /\ SameFront(tl[c.term], ul[c.term], Len(tl[c.term]))
    BY <1>1, <2>2
  <2>4. Brings(tl, c) /\ c.leaderCommit <= Match(c)
    BY <2>1 DEF RequestOK
  <2>5. Brings(ul, c)
    <3>1. c.prevLogIndex + 1 + Len(c.entries) <= Len(tl[c.term])
      BY <2>4 DEF Brings
    <3>2. c.prevLogIndex + 1 \in 1 .. Len(tl[c.term])
      BY <2>2, <2>3, <3>1
    <3>3. \A k \in 1 .. Len(c.entries) : c.prevLogIndex + 1 + k \in 1 .. Len(tl[c.term])
      BY <2>2, <2>3, <3>1
    <3>4. c.prevLogIndex + 1 + Len(c.entries) <= Len(ul[c.term])
      BY <2>2, <2>3, <3>1
    <3>5. ul[c.term][c.prevLogIndex + 1].term = c.prevLogTerm
      BY <2>3, <2>4, <3>2 DEF Brings
    <3>6. ASSUME NEW k \in 1 .. Len(c.entries)
          PROVE  c.entries[k] = ul[c.term][c.prevLogIndex + 1 + k]
      BY <2>3, <2>4, <3>3 DEF Brings
    <3> QED
      BY <3>4, <3>5, <3>6 DEF Brings
  <2>6. CommittedTo(ul, bk, ul[c.term], c.leaderCommit, c.term)
    <3>1. CommittedTo(tl, ak, tl[c.term], c.leaderCommit, c.term)
      BY <2>1 DEF RequestOK
    <3> QED
      BY <2>2, <2>3, <3>1, CommittedToStays
  <2> QED
    BY <2>4, <2>5, <2>6 DEF RequestOK
<1>4. ASSUME c # Nil, c.kind = "send"
      PROVE  ChosenEntry(ul, bk, c.index + 1, c.entry)
  <2>1. c \in Sending
    BY <1>4, CallKinds
  <2>2. c.index + 1 \in Nat
    BY <2>1 DEF Sending
  <2>3. ChosenEntry(tl, ak, c.index + 1, c.entry)
    BY <1>4 DEF CallOK
  <2> QED
    BY <2>2, <2>3, ChosenEntryStays
<1>5. ASSUME c # Nil, c.kind \in {"send", "relock"}, c.then # Nil
      PROVE  ReplyOK(ul, bk, c.then)
  <2>1. c.then \in AppendReply \cup {Nil}
    BY <1>5, CallKinds DEF Sending, Relocking
  <2>2. ReplyOK(tl, ak, c.then)
    BY <1>5 DEF CallOK
  <2> QED
    BY <1>2, <1>5, <2>1, <2>2
<1>6. ASSUME c # Nil, c.kind = "appended" PROVE ReplyOK(ul, bk, c)
  <2>1. c \in AppendReply
    BY <1>6, CallKinds
  <2>2. ReplyOK(tl, ak, c)
    BY <1>6 DEF CallOK
  <2> QED
    BY <1>2, <2>1, <2>2
<1> QED
  BY <1>3, <1>4, <1>5, <1>6 DEF CallOK

-----------------------------------------------------------------------------
(* The forms of a step *)

DisksGrow == \A k \in Server : disk[k].term <= disk'[k].term

SameRun(k) ==
  state'[k] # "Follower" =>
    state'[k] = state[k] /\ currentTerm'[k] = currentTerm[k]

\* Nobody starts to run or to lead, or votes; the bookkeeping stays.
Calm ==
  /\ DisksGrow
  /\ \A k \in Server : currentTerm[k] <= currentTerm'[k] /\ SameRun(k)
  /\ \A c \in voteCalls' : c.kind = "request" => c \in voteCalls
  /\ UNCHANGED <<ballots, commitIndex, matchIndex, applied>>

LEMMA TermTypes ==
  ASSUME TypeOK, NEW i \in Server
  PROVE  currentTerm[i] \in Nat /\ disk[i].term \in Nat
  BY DEF TypeOK, Persisted

LEMMA SavedGrows ==
  ASSUME TypeOK, TypeOK', DiskBehind, NEW i \in Server,
         Persist(i) \/ UNCHANGED disk, currentTerm[i] <= currentTerm'[i]
  PROVE  DisksGrow
<1>1. /\ disk[i].term <= currentTerm[i] /\ disk[i].term \in Nat
      /\ currentTerm[i] \in Nat /\ currentTerm'[i] \in Nat
  BY DEF DiskBehind, TypeOK, Persisted
<1>2. \A k \in Server : disk[k].term \in Nat
  BY DEF TypeOK, Persisted
<1>3. CASE Persist(i)
  <2>1. disk'[i].term = currentTerm'[i] /\ \A k \in Server \ {i} : disk'[k] = disk[k]
    BY <1>3 DEF Persist, TypeOK
  <2> QED
    BY <1>1, <1>2, <2>1 DEF DisksGrow
<1>4. CASE UNCHANGED disk
  BY <1>2, <1>4 DEF DisksGrow
<1> QED
  BY <1>3, <1>4

\* Peer i may move to term t, and does not start to run.
LEMMA CalmTerm ==
  ASSUME TypeOK, TypeOK', DiskBehind, NEW i \in Server, NEW t \in Nat,
         t >= currentTerm[i],
         currentTerm' = [currentTerm EXCEPT ![i] = t],
         \/ state' = [state EXCEPT ![i] = "Follower"]
         \/ state' = [state EXCEPT ![i] =
                        IF t > currentTerm[i] THEN "Follower" ELSE @],
         Persist(i) \/ UNCHANGED disk,
         \A c \in voteCalls' : c.kind = "request" => c \in voteCalls,
         UNCHANGED <<ballots, commitIndex, matchIndex, applied>>
  PROVE  Calm
<1>1. /\ currentTerm'[i] = t
      /\ \A k \in Server \ {i} : /\ currentTerm'[k] = currentTerm[k]
                                 /\ state'[k] = state[k]
      /\ \A k \in Server : currentTerm[k] \in Nat
  BY DEF TypeOK
<1>2. state'[i] # "Follower" => state'[i] = state[i] /\ t = currentTerm[i]
  BY <1>1 DEF TypeOK
<1>3. \A k \in Server : currentTerm[k] <= currentTerm'[k] /\ SameRun(k)
  BY <1>1, <1>2 DEF SameRun
<1>4. DisksGrow
  BY <1>3, SavedGrows
<1> QED
  BY <1>3, <1>4 DEF Calm

LEMMA CalmRest ==
  ASSUME TypeOK, TypeOK', DiskBehind,
         UNCHANGED <<currentTerm, state, ballots, commitIndex, matchIndex, applied>>,
         UNCHANGED disk \/ \E i \in Server : Persist(i),
         \A c \in voteCalls' : c.kind = "request" => c \in voteCalls
  PROVE  Calm
<1>1. \A k \in Server : currentTerm[k] <= currentTerm'[k] /\ SameRun(k)
  BY DEF SameRun, TypeOK
<1>2. DisksGrow
  <2>1. CASE UNCHANGED disk
    BY <2>1 DEF DisksGrow, TypeOK, Persisted
  <2>2. CASE \E i \in Server : Persist(i)
    BY <1>1, <2>2, SavedGrows
  <2> QED
    BY <2>1, <2>2
<1> QED
  BY <1>1, <1>2 DEF Calm

\* Peer i comes back, in the term of its disk or a newer one.
Comes(i) ==
  /\ \E d : RestartFrom(i, d) /\ disk[i].term <= d.term
  /\ DisksGrow

LEMMA StepForms ==
  ASSUME TypeOK, TypeOK', DiskBehind, NoSnapshots, Compacting = {}, [Next]_vars
  PROVE  \/ Calm
         \/ \E i \in Server : StartElection(i) \/ Comes(i)
         \/ \E c \in voteCalls : RequestVoteGrant(c) \/ VoteCounted(c)
         \/ \E g \in Goroutine : AppendAccept(g) \/ AppendSucceeded(g)
                                   \/ InstallDone(g) \/ Deliver(g)
<1>1. ASSUME NEW i \in Server, PeerStep(i), ~StartElection(i)
      PROVE  Calm \/ Comes(i)
  <2>1. CASE TickerCheck(i)
    BY <2>1, CalmRest DEF TickerCheck, serverVars, leaderVars, applyVars, serviceVars
  <2>2. CASE Restart(i)
    <3>1. RestartFrom(i, disk[i]) /\ disk[i].term <= disk[i].term
      BY <2>2, TermTypes DEF Restart
    <3>2. disk' = [disk EXCEPT ![i] = disk[i]]
      BY <3>1 DEF RestartFrom
    <3>3. \A k \in Server : disk'[k] = disk[k]
      BY <3>2 DEF TypeOK
    <3>4. DisksGrow
      BY <3>3, TermTypes DEF DisksGrow
    <3> QED
      BY <3>1, <3>4 DEF Comes
  <2>3. ASSUME NEW cmd \in Command, Start(i, cmd) PROVE Calm
    BY <2>3, CalmRest
    DEF Start, serverVars, electionVars, leaderVars, applyVars, serviceVars
  <2>4. ASSUME NEW index \in 1 .. MaxIndex, Snapshot(i, index) PROVE FALSE
    BY <2>4 DEF Snapshot
  <2> QED
    BY <1>1, <2>1, <2>2, <2>3, <2>4 DEF PeerStep
<1>2. ASSUME NEW c \in voteCalls, VoteStep(c),
             ~RequestVoteGrant(c), ~VoteCounted(c)
      PROVE  Calm
  <2>1. c.to \in Server /\ c.candidate \in Server /\ c.term \in Nat
    BY VoteKinds DEF TypeOK
  <2>2. ASSUME NEW t, NEW b, AnswerVote(c, t, b)
        PROVE  \A d \in voteCalls' : d.kind = "request" => d \in voteCalls
    BY <2>2 DEF AnswerVote
  <2>3. CASE RequestVoteStale(c)
    <3>1. AnswerVote(c, currentTerm[c.to], FALSE)
      BY <2>3 DEF RequestVoteStale
    <3> QED
      BY <2>2, <2>3, <3>1, CalmRest
      DEF RequestVoteStale, serverVars, leaderVars, applyVars, serviceVars
  <2>4. CASE VoteIgnored(c)
    BY <2>4, CalmRest DEF VoteIgnored, serverVars, leaderVars, applyVars, serviceVars
  <2>5. CASE RequestVoteDeny(c)
    <3>1. /\ AnswerVote(c, c.term, FALSE) /\ NoticeTerm(c.to, c.term)
          /\ c.term >= currentTerm[c.to]
          /\ UNCHANGED <<ballots, commitIndex, matchIndex, applied, disk>>
      BY <2>5 DEF RequestVoteDeny, leaderVars, applyVars, serviceVars
    <3>2. \A d \in voteCalls' : d.kind = "request" => d \in voteCalls
      BY <2>2, <3>1
    <3> QED
      BY <2>1, <3>1, <3>2, CalmTerm DEF NoticeTerm
  <2>6. CASE VoteOutdated(c)
    <3>1. /\ voteCalls' = voteCalls \ {c} /\ StepDown(c.candidate, c.replyTerm)
          /\ c.replyTerm > currentTerm[c.candidate]
          /\ UNCHANGED <<ballots, commitIndex, matchIndex, applied>>
      BY <2>6 DEF VoteOutdated, leaderVars, applyVars, serviceVars
    <3>2. c \in VoteReply
      BY <2>6, VoteKinds DEF VoteOutdated, TypeOK
    <3>3. c.replyTerm \in Nat /\ c.replyTerm >= currentTerm[c.candidate]
      BY <2>1, <3>1, <3>2, TermTypes DEF VoteReply
    <3> QED
      BY <2>1, <3>1, <3>3, CalmTerm DEF StepDown
  <2> QED
    BY <1>2, <2>3, <2>4, <2>5, <2>6 DEF VoteStep
<1>3. ASSUME NEW g \in Goroutine, GoroutineStep(g), ~AppendAccept(g),
             ~AppendSucceeded(g), ~InstallDone(g), ~Deliver(g)
      PROVE  Calm \/ \E i \in Server : Comes(i)
  <2> DEFINE m == call[g]
  <2>1. /\ m # Nil /\ m.kind \in {"append", "install"} =>
             m.to \in Server /\ m.term \in Nat
        /\ m # Nil /\ m.kind \in {"appended", "installed"} =>
             m.caller \in Server /\ m.term \in Nat
    BY RequestType DEF AppendRequest, InstallRequest, AppendReply, InstallReply
  <2>2. CASE \E i, j \in Server : Send(g, i, j)
    BY <2>2, CalmRest
    DEF Send, SendSnapshot, SendEntries, serverVars, electionVars, leaderVars,
        applyVars, serviceVars
  <2>3. CASE AppendStale(g) \/ InstallStale(g)
    BY <2>3, CalmRest
    DEF AppendStale, InstallStale, serverVars, electionVars, leaderVars,
        applyVars, serviceVars
  <2>4. CASE AppendMismatch(g)
    <3>1. /\ m # Nil /\ m.kind = "append" /\ m.term >= currentTerm[m.to]
          /\ AdoptLeader(m.to, m.term) /\ (Persist(m.to) \/ UNCHANGED disk)
          /\ UNCHANGED <<voteCalls, ballots, commitIndex, matchIndex, applied>>
      BY <2>4 DEF AppendMismatch, electionVars, leaderVars, applyVars, serviceVars
    <3> QED
      BY <2>1, <3>1, CalmTerm DEF AdoptLeader
  <2>5. CASE InstallKnown(g)
    <3>1. /\ m # Nil /\ m.kind = "install" /\ m.term >= currentTerm[m.to]
          /\ NoticeTerm(m.to, m.term) /\ (Persist(m.to) \/ UNCHANGED disk)
          /\ UNCHANGED <<voteCalls, ballots, commitIndex, matchIndex, applied>>
      BY <2>5 DEF InstallKnown, electionVars, leaderVars, applyVars, serviceVars
    <3> QED
      BY <2>1, <3>1, CalmTerm DEF NoticeTerm
  <2>6. ~InstallSnapshot(g)
    <3> SUFFICES ASSUME InstallSnapshot(g) PROVE FALSE
      OBVIOUS
    <3>1. m # Nil /\ m.kind = "install" /\ m.lastIndex > snapshotIndex[m.to]
      BY DEF InstallSnapshot
    <3>2. m.lastIndex = 0 /\ snapshotIndex[m.to] = 0
      BY <2>1, <3>1 DEF NoSnapshots
    <3> QED
      BY <3>1, <3>2
  <2>7. CASE ReplyOutdated(g)
    <3>1. /\ m # Nil /\ m.kind \in {"appended", "installed"}
          /\ m.term > currentTerm[m.caller] /\ StepDown(m.caller, m.term)
          /\ UNCHANGED <<voteCalls, ballots, commitIndex, matchIndex, applied>>
      BY <2>7 DEF ReplyOutdated, electionVars, leaderVars, applyVars, serviceVars
    <3>2. m.term >= currentTerm[m.caller]
      BY <2>1, <3>1, TermTypes
    <3> QED
      BY <2>1, <3>1, <3>2, CalmTerm DEF StepDown
  <2>8. CASE AppendFailed(g)
    BY <2>8, CalmRest
    DEF AppendFailed, serverVars, electionVars, applyVars, serviceVars
  <2>9. CASE Resume(g) \/ DeliverSnapshot(g) \/ Lose(g)
    BY <2>9, CalmRest
    DEF Resume, DeliverSnapshot, Lose, serverVars, electionVars, leaderVars,
        applyVars, serviceVars
  <2>10. CASE CrashInHandler(g)
    <3> DEFINE d == [disk[m.to] EXCEPT !.term = m.term, !.vote = Nil]
    <3>1. /\ m # Nil /\ m.kind \in {"append", "install"} /\ RestartFrom(m.to, d)
          /\ m.term > currentTerm[m.to]
      BY <2>10 DEF CrashInHandler
    <3>2. m.to \in Server /\ m.term \in Nat
      BY <2>1, <3>1
    <3>3. d.term = m.term
      BY <3>2 DEF TypeOK, Persisted
    <3>4. disk[m.to].term <= m.term
      BY <3>1, <3>2, TermTypes DEF DiskBehind
    <3> HIDE DEF m, d
    <3>5. DisksGrow
      <4>1. disk' = [disk EXCEPT ![m.to] = d]
        BY <3>1 DEF RestartFrom
      <4>2. disk'[m.to].term = m.term
        BY <3>2, <3>3, <4>1 DEF TypeOK
      <4>3. \A k \in Server \ {m.to} : disk'[k] = disk[k]
        BY <4>1 DEF TypeOK
      <4> QED
        BY <3>4, <4>2, <4>3, TermTypes DEF DisksGrow
    <3> QED
      BY <3>1, <3>2, <3>3, <3>4, <3>5 DEF Comes
  <2> QED
    BY <1>3, <2>2, <2>3, <2>4, <2>5, <2>6, <2>7, <2>8, <2>9, <2>10
    DEF GoroutineStep, Handle, TakeAnswer, HandOver
<1>4. CASE UNCHANGED vars
  BY <1>4, CalmRest
  DEF vars, serverVars, electionVars, leaderVars, applyVars, serviceVars
<1> QED
  BY <1>1, <1>2, <1>3, <1>4 DEF Next

\* A goroutine with nothing in it that the invariant speaks of.
Harmless(c) ==
  \/ c = Nil
  \/ c.kind \in {"install", "installed", "notify"}
  \/ c.kind = "appended" /\ ~c.success

CallStays(h) ==
  \/ call'[h] = call[h]
  \/ Harmless(call'[h])
  \/ \E i \in Server : call'[h] = Orphan(call[h], i)

LEMMA OneCallStays ==
  ASSUME TypeOK, NEW g \in Goroutine, NEW x, Harmless(x),
         call' = [call EXCEPT ![g] = x]
  PROVE  \A h \in Goroutine : CallStays(h)
  BY DEF CallStays, TypeOK

LEMMA AnswerHarmless ==
  ASSUME NEW m, NEW t, NEW index, NEW term
  PROVE  Harmless(Appended(m, t, FALSE, index, term)) /\ Harmless(Installed(m))
  BY DEF Harmless, Appended, Installed

LEMMA CallForms ==
  ASSUME TypeOK, NoSnapshots, Compacting = {}, [Next]_vars
  PROVE  \/ \A h \in Goroutine : CallStays(h)
         \/ \E g \in Goroutine, i, j \in Server : SendEntries(g, i, j)
         \/ \E g \in Goroutine : AppendAccept(g) \/ AppendSucceeded(g)
                                   \/ Resume(g) \/ Deliver(g)
<1>1. ASSUME UNCHANGED call PROVE \A h \in Goroutine : CallStays(h)
  BY <1>1 DEF CallStays
<1>2. Harmless(Nil)
  BY DEF Harmless
<1>3. ASSUME NEW i \in Server, PeerStep(i) PROVE \A h \in Goroutine : CallStays(h)
  <2>1. CASE Restart(i)
    <3>1. call' = [g \in Goroutine |-> Orphan(call[g], i)]
      BY <2>1 DEF Restart
    <3> QED
      BY <3>1 DEF CallStays
  <2>2. CASE ~Restart(i)
    <3>1. UNCHANGED call
      BY <1>3, <2>2 DEF PeerStep, TickerCheck, StartElection, Start, Snapshot
    <3> QED
      BY <1>1, <3>1
  <2> QED
    BY <2>1, <2>2
<1>4. ASSUME NEW c \in voteCalls, VoteStep(c) PROVE UNCHANGED call
  BY <1>4 DEF VoteStep, RequestVoteStale, RequestVoteGrant, RequestVoteDeny,
     VoteIgnored, VoteOutdated, VoteCounted
<1>5. ASSUME NEW g \in Goroutine, GoroutineStep(g), ~AppendAccept(g),
             ~AppendSucceeded(g), ~Resume(g), ~Deliver(g),
             \A i, j \in Server : ~SendEntries(g, i, j)
      PROVE  \A h \in Goroutine : CallStays(h)
  <2> DEFINE m == call[g]
  <2>1. ASSUME NEW i \in Server, NEW j \in Server, SendSnapshot(g, i, j)
        PROVE  \A h \in Goroutine : CallStays(h)
    <3>1. PICK x : /\ x.kind = "install" /\ call' = [call EXCEPT ![g] = x]
      BY <2>1 DEF SendSnapshot
    <3>2. Harmless(x)
      BY <3>1 DEF Harmless
    <3> QED
      BY <3>1, <3>2, OneCallStays
  <2>2. CASE AppendStale(g)
    <3>1. call' = [call EXCEPT ![g] = Appended(m, currentTerm[m.to], FALSE, 0, 0)]
      BY <2>2 DEF AppendStale
    <3> QED
      BY <3>1, AnswerHarmless, OneCallStays
  <2>3. CASE AppendMismatch(g)
    <3>1. PICK index, term : call' = [call EXCEPT ![g] =
                                        Appended(m, m.term, FALSE, index, term)]
      BY <2>3 DEF AppendMismatch
    <3> QED
      BY <3>1, AnswerHarmless, OneCallStays
  <2>4. CASE InstallStale(g) \/ InstallKnown(g)
    <3>1. call' = [call EXCEPT ![g] = Installed(m)]
      BY <2>4 DEF InstallStale, InstallKnown
    <3> QED
      BY <3>1, AnswerHarmless, OneCallStays
  <2>5. CASE InstallSnapshot(g)
    <3>1. PICK x : /\ x.kind = "notify" /\ call' = [call EXCEPT ![g] = x]
      BY <2>5 DEF InstallSnapshot
    <3>2. Harmless(x)
      BY <3>1 DEF Harmless
    <3> QED
      BY <3>1, <3>2, OneCallStays
  <2>6. CASE ReplyOutdated(g) \/ AppendFailed(g) \/ InstallDone(g) \/ Lose(g)
    <3>1. call' = [call EXCEPT ![g] = Nil]
      BY <2>6 DEF ReplyOutdated, AppendFailed, InstallDone, Lose
    <3> QED
      BY <1>2, <3>1, OneCallStays
  <2>7. CASE DeliverSnapshot(g)
    <3>1. m # Nil /\ m.kind = "notify" /\ call' = [call EXCEPT ![g] = m.then]
      BY <2>7 DEF DeliverSnapshot
    <3>2. m.then \in InstallReply \cup {Nil}
      BY <3>1, ThenType
    <3>3. Harmless(m.then)
      BY <3>2 DEF Harmless, InstallReply
    <3> QED
      BY <3>1, <3>3, OneCallStays
  <2>8. CASE CrashInHandler(g)
    <3>1. call' = [h \in Goroutine |->
                     IF h = g THEN Nil ELSE Orphan(call[h], m.to)]
          /\ m # Nil /\ m.kind \in {"append", "install"}
      BY <2>8 DEF CrashInHandler
    <3>2. m.to \in Server
      BY <3>1, RequestType DEF AppendRequest, InstallRequest
    <3> HIDE DEF m
    <3> QED
      BY <1>2, <3>1, <3>2 DEF CallStays
  <2> QED
    BY <1>5, <2>1, <2>2, <2>3, <2>4, <2>5, <2>6, <2>7, <2>8
    DEF GoroutineStep, Handle, TakeAnswer, HandOver, Send
<1>6. CASE UNCHANGED vars
  BY <1>1, <1>6 DEF vars
<1> QED
  BY <1>1, <1>3, <1>4, <1>5, <1>6 DEF Next

LEMMA OrphanOK ==
  ASSUME NEW tl, NEW ak, NEW c \in Call \cup {Nil}, CallOK(tl, ak, c),
         NEW i \in Server
  PROVE  CallOK(tl, ak, Orphan(c, i))
<1>1. CASE c = Nil
  BY <1>1 DEF Orphan, CallOK
<1>2. CASE c # Nil /\ c.kind \in {"append", "install"}
  <2>1. CASE c.caller # i
    BY <1>2, <2>1 DEF Orphan
  <2>2. CASE c.caller = i
    <3>1. PICK d : d = [c EXCEPT !.caller = Nil]
      OBVIOUS
    <3>2. Orphan(c, i) = d
      BY <1>2, <2>2, <3>1 DEF Orphan
    <3>3. CASE c.kind = "append"
      <4>1. c \in AppendRequest /\ RequestOK(tl, ak, c)
        BY <1>2, <3>3, CallKinds DEF CallOK
      <4>2. /\ d.kind = "append" /\ d.term = c.term /\ d.entries = c.entries
            /\ d.prevLogIndex = c.prevLogIndex /\ d.prevLogTerm = c.prevLogTerm
            /\ d.leaderCommit = c.leaderCommit
        BY <3>1, <4>1 DEF AppendRequest
      <4>3. RequestOK(tl, ak, d)
        BY <4>1, <4>2 DEF RequestOK, Brings, Match
      <4> QED
        BY <3>2, <4>2, <4>3 DEF CallOK
    <3>4. CASE c.kind = "install"
      <4>1. c \in InstallRequest
        BY <1>2, <3>4, CallKinds
      <4>2. d.kind = "install"
        BY <3>1, <4>1 DEF InstallRequest
      <4> QED
        BY <3>2, <4>2 DEF CallOK
    <3> QED
      BY <1>2, <3>3, <3>4
  <2> QED
    BY <2>1, <2>2
<1>3. CASE c # Nil /\ c.kind \in {"appended", "installed"}
  BY <1>3 DEF Orphan, CallOK
<1>4. CASE c # Nil /\ c.kind \in {"send", "relock", "notify"}
  <2>1. CASE c.at = i
    BY <1>4, <2>1 DEF Orphan, CallOK
  <2>2. CASE c.at # i /\ ~(c.then # Nil /\ c.then.caller = i)
    BY <1>4, <2>2 DEF Orphan
  <2>3. CASE c.at # i /\ c.then # Nil /\ c.then.caller = i
    <3>1. PICK d : d = [c EXCEPT !.then = Nil]
      OBVIOUS
    <3>2. Orphan(c, i) = d
      BY <1>4, <2>3, <3>1 DEF Orphan
    <3>3. CASE c.kind = "send"
      <4>1. c \in Sending
        BY <1>4, <3>3, CallKinds
      <4>2. d.kind = "send" /\ d.then = Nil /\ d.index = c.index /\ d.entry = c.entry
        BY <3>1, <4>1 DEF Sending
      <4> QED
        BY <1>4, <3>2, <3>3, <4>2 DEF CallOK
    <3>4. CASE c.kind = "relock"
      <4>1. c \in Relocking
        BY <1>4, <3>4, CallKinds
      <4>2. d.kind = "relock" /\ d.then = Nil
        BY <3>1, <4>1 DEF Relocking
      <4> QED
        BY <3>2, <4>2 DEF CallOK
    <3>5. CASE c.kind = "notify"
      <4>1. c \in Notifying
        BY <1>4, <3>5, CallKinds
      <4>2. d.kind = "notify"
        BY <3>1, <4>1 DEF Notifying
      <4> QED
        BY <3>2, <4>2 DEF CallOK
    <3> QED
      BY <1>4, <3>3, <3>4, <3>5
  <2> QED
    BY <2>1, <2>2, <2>3
<1>5. c = Nil \/ c.kind \in {"append", "install", "appended", "installed",
                             "send", "relock", "notify"}
  BY DEF Call, AppendRequest, AppendReply, InstallRequest, InstallReply,
     Sending, Relocking, Notifying
<1> QED
  BY <1>1, <1>2, <1>3, <1>4, <1>5

-----------------------------------------------------------------------------
(* What stays *)

LEMMA TermLogType ==
  ASSUME NEW tl, TermLogs(tl), NEW t \in Nat
  PROVE  tl[t] \in Seq(Entry) /\ Len(tl[t]) \in Nat
  BY EntriesOf DEF TermLogs

LEMMA HasLater ==
  ASSUME NEW tl, NEW ak, NEW ul, NEW bk, Later(tl, ak, ul, bk),
         NEW T \in Nat, NEW x, NEW t, Has(tl[T], x, t)
  PROVE  Has(ul[T], x, t)
  BY TermLogType, HasStays DEF Later, Grows

LEMMA OwnBefore ==
  ASSUME NEW tl, NEW ak, NEW ul, NEW bk, Later(tl, ak, ul, bk),
         NEW t \in Nat, NEW x \in Pos, Own(ul, t, x)
  PROVE  Own(tl, t, x)
<1>1. SameFront(tl[t], ul[t], Len(tl[t])) /\ Len(tl[t]) \in Nat /\ Len(ul[t]) \in Nat
  BY TermLogType DEF Later, Grows
<1> QED
  BY <1>1 DEF Own, SameFront

LEMMA SafeStays ==
  ASSUME TypeOK, TypeOK', NEW tl, NEW ak, NEW ul, NEW bk, Later(tl, ak, ul, bk),
         LaterHere(ak, bk), TermsSafe(tl, ak),
         NEW t \in Nat, NEW T \in Nat, t < T, tl[T] # <<>>,
         NEW x \in Pos, Own(ul, t, x)
  PROVE  Has(ul[T], x, t) \/ Lost(bk, t, x)'
<1>1. Own(tl, t, x)
  BY OwnBefore
<1>2. Has(tl[T], x, t) \/ Lost(ak, t, x)
  BY <1>1 DEF TermsSafe
<1> QED
  BY <1>2, HasLater, LostStays

\* A log of which nothing is lost keeps what has been accepted.
LEMMA AckStays ==
  ASSUME TypeOK, TypeOK', NEW tl, NEW ak, NEW ul, NEW bk, Later(tl, ak, ul, bk),
         LaterHere(ak, bk), NEW j \in Server, NEW t \in Nat, NEW x \in Pos,
         AckOK(tl, ak, j, t, x), SameFront(log[j], log'[j], Len(log[j]))
  PROVE  AckOK(ul, bk, j, t, x)'
<1>1. Len(log[j]) \in Nat /\ Len(log'[j]) \in Nat
  BY EntriesOf DEF TypeOK
<1>2. /\ disk[j].term \in Nat /\ disk'[j].term \in Nat
      /\ disk[j].term <= disk'[j].term /\ x \in Nat
  BY TermTypes DEF LaterHere, TypeOK, Persisted, Pos
<1>3. Has(ul[t], x, t)
  BY HasLater DEF AckOK
<1>4. t <= disk'[j].term
  BY <1>2 DEF AckOK
<1>5. ASSUME disk'[j].term = t PROVE SameFront(log'[j], ul[t], x)
  <2>1. SameFront(log[j], tl[t], x)
    BY <1>2, <1>5 DEF AckOK
  <2>2. SameFront(log[j], ul[t], x)
    BY <1>2, <2>1, FrontStays
  <2>3. x <= Len(log[j])
    BY <2>1 DEF SameFront
  <2>4. SameFront(log[j], log'[j], x)
    BY <1>1, <1>2, <2>3, FrontShorter
  <2> QED
    BY <2>2, <2>4, FrontSwapped, FrontChained
<1>6. Has(log'[j], x, t) \/ Lost(bk, t, x)'
  BY <1>1, HasStays, LostStays DEF AckOK
<1> QED
  BY <1>3, <1>4, <1>5, <1>6 DEF AckOK

LEMMA FrontOfItself ==
  ASSUME NEW s, Len(s) \in Nat
  PROVE  SameFront(s, s, Len(s))
  BY DEF SameFront

LEMMA SameTerms ==
  ASSUME NEW tl, NEW ak, NEW bk, TermLogs(tl), ak \subseteq bk, bk \subseteq Votes
  PROVE  Later(tl, ak, tl, bk)
  BY TermLogType, FrontOfItself DEF Later, Grows

\* The log of a term becomes s, which starts with it.
LEMMA TermExtended ==
  ASSUME NEW tl, TermLogs(tl), NEW T \in Nat, NEW s \in Seq(Entry),
         SameFront(tl[T], s, Len(tl[T])),
         \A x \in 1 .. Len(s) :
           \/ s[x].term = T
           \/ s[x].term < T /\ SameFront(s, tl[s[x].term], x)
  PROVE  LET ul == [tl EXCEPT ![T] = s] IN TermLogs(ul) /\ Grows(tl, ul)
<1>1. PICK ul : ul = [tl EXCEPT ![T] = s]
  OBVIOUS
<1>2. /\ ul \in [Nat -> Seq(Entry)] /\ ul[T] = s
      /\ \A t \in Nat : t # T => ul[t] = tl[t]
      /\ tl \in [Nat -> Seq(Entry)]
  BY <1>1 DEF TermLogs
<1>3. Grows(tl, ul)
  <2> SUFFICES ASSUME NEW t \in Nat PROVE SameFront(tl[t], ul[t], Len(tl[t]))
    BY DEF Grows
  <2>1. SameFront(tl[t], tl[t], Len(tl[t]))
    BY TermLogType, FrontOfItself
  <2> QED
    BY <1>2, <2>1
<1>4. ASSUME NEW t \in Nat
      PROVE  Descends(ul, ul[t]) /\ \A x \in 1 .. Len(ul[t]) : ul[t][x].term <= t
  <2>1. CASE t # T
    <3>1. Descends(tl, tl[t]) /\ \A x \in 1 .. Len(tl[t]) : tl[t][x].term <= t
      BY DEF TermLogs
    <3>2. Descends(ul, tl[t])
      BY <1>2, <1>3, <3>1, DescendsStays
    <3> QED
      BY <1>2, <2>1, <3>1, <3>2
  <2>2. CASE t = T
    <3> SUFFICES ASSUME NEW x \in 1 .. Len(s)
                 PROVE  SameFront(s, ul[s[x].term], x) /\ s[x].term <= T
      BY <1>2, <2>2 DEF Descends
    <3>1. s[x].term \in Nat /\ Len(s) \in Nat /\ x \in Nat
      BY EntriesOf
    <3>2. CASE s[x].term = T
      <4>1. ul[s[x].term] = s
        BY <1>2, <3>2
      <4>2. SameFront(s, s, x)
        BY <3>1 DEF SameFront
      <4> QED
        BY <3>1, <3>2, <4>1, <4>2
    <3>3. CASE s[x].term < T /\ SameFront(s, tl[s[x].term], x)
      <4>1. s[x].term # T /\ s[x].term <= T
        BY <3>1, <3>3
      <4>2. ul[s[x].term] = tl[s[x].term]
        BY <1>2, <3>1, <4>1
      <4> QED
        BY <3>3, <4>1, <4>2
    <3> QED
      BY <3>2, <3>3
  <2> QED
    BY <2>1, <2>2
<1>5. TermLogs(ul)
  BY <1>2, <1>4 DEF TermLogs
<1> QED
  BY <1>1, <1>3, <1>5

LEMMA PeerStays ==
  ASSUME TypeOK, TypeOK', NEW tl, NEW ak, NEW ul, NEW bk, Later(tl, ak, ul, bk),
         DisksGrow, NEW i \in Server, PeerLogs(tl), log'[i] = log[i]
  PROVE  /\ Descends(ul, log'[i])
         /\ \A x \in 1 .. Len(log'[i]) : log'[i][x].term <= disk'[i].term
<1>1. log[i] \in Seq(Entry)
  BY LogFacts
<1>2. Descends(ul, log[i])
  BY <1>1, DescendsStays DEF PeerLogs, Later, TermLogs
<1>3. \A x \in 1 .. Len(log[i]) : log[i][x].term \in Nat
  BY <1>1, EntriesOf
<1>4. /\ disk[i].term \in Nat /\ disk'[i].term \in Nat
      /\ disk[i].term <= disk'[i].term
  BY TermTypes DEF DisksGrow, TypeOK, Persisted
<1> QED
  BY <1>2, <1>3, <1>4 DEF PeerLogs

\* A chosen entry is in the log of every later term that has one.
LEMMA ChosenInLater ==
  ASSUME NEW tl, NEW ak, TermLogs(tl), AcksOK(tl, ak), TermsSafe(tl, ak),
         NEW t \in Nat, NEW T \in Nat, t <= T, tl[T] # <<>>,
         NEW y \in Pos, Chosen(ak, t, y)
  PROVE  SameFront(tl[t], tl[T], y)
<1>1. PICK j \in Server : <<j, t, y>> \in ak
  BY ChosenByOne
<1>2. Has(tl[t], y, t)
  BY <1>1 DEF AcksOK, AckOK
<1>3. CASE t = T
  BY <1>2, <1>3, TermLogType DEF Has, SameFront
<1>4. CASE t < T
  <2>1. Own(tl, t, y)
    BY <1>2 DEF Has, Own
  <2>2. Has(tl[T], y, t)
    BY <1>4, <2>1, ChosenNotLost DEF TermsSafe
  <2> QED
    BY <1>2, <2>2, SameTermSameFront DEF TermLogs
<1> QED
  BY <1>3, <1>4

LEMMA NotEmpty ==
  ASSUME NEW s \in Seq(Entry), NEW x \in Nat, x + 1 <= Len(s)
  PROVE  s # <<>>
  BY LenProperties

-----------------------------------------------------------------------------
(* Elections *)

SameRequest(c, d) ==
  /\ c.kind = d.kind /\ c.candidate = d.candidate /\ c.term = d.term
  /\ c.lastLogIndex = d.lastLogIndex /\ c.lastLogTerm = d.lastLogTerm

\* Nobody votes, and who is a candidate was one, with the same log.
VotesStay ==
  /\ UNCHANGED ballots
  /\ \A c \in voteCalls' : c.kind = "request" =>
       \E d \in voteCalls : SameRequest(c, d)
  /\ \A k \in Server : state'[k] = "Candidate" =>
       state[k] = "Candidate" /\ currentTerm'[k] = currentTerm[k]
         /\ log'[k] = log[k]

BallotSafe(ak, j, T, i) ==
  \A t \in Nat, x \in Pos :
    <<j, t, x>> \in ak /\ t < T => Has(log[i], x, t) \/ Lost(ak, t, x)

LEMMA BallotTypes ==
  ASSUME TypeOK, NEW b \in ballots
  PROVE  b[1] \in Server /\ b[2] \in Nat /\ b[3] \in Server /\ b = <<b[1], b[2], b[3]>>
<1>1. b \in Server \X Nat \X Server
  BY DEF TypeOK
<1> QED
  BY <1>1

LEMMA BallotStays ==
  ASSUME TypeOK, TypeOK', BallotsOnDisk, NEW ak, NEW bk, LaterHere(ak, bk),
         NEW b \in ballots, log'[b[3]] = log[b[3]], BallotSafe(ak, b[1], b[2], b[3])
  PROVE  BallotSafe(bk, b[1], b[2], b[3])'
<1> SUFFICES ASSUME NEW t \in Nat, NEW x \in Pos, <<b[1], t, x>> \in bk, t < b[2]
             PROVE  Has(log'[b[3]], x, t) \/ Lost(bk, t, x)'
  BY DEF BallotSafe
<1>1. b[1] \in Server /\ b[2] \in Nat
  BY BallotTypes
<1>2. b[2] <= disk[b[1]].term /\ disk[b[1]].term \in Nat
  BY <1>1, TermTypes DEF BallotsOnDisk
<1>3. <<b[1], t, x>> \in ak
  BY <1>1, <1>2 DEF LaterHere
<1> QED
  BY <1>3, LostStays DEF BallotSafe

LEMMA RunsStay ==
  ASSUME TypeOK, TypeOK', NoSnapshots, NoSnapshots', BallotsOnDisk,
         NEW tl, NEW ak, NEW ul, NEW bk, LaterHere(ak, bk),
         RunsOK(tl, ak), VotesStay
  PROVE  RunsOK(ul, bk)'
<1>1. RequestsOK'
  <2> SUFFICES ASSUME NEW c \in voteCalls', c.kind = "request",
                      state'[c.candidate] = "Candidate",
                      currentTerm'[c.candidate] = c.term
               PROVE  /\ c.lastLogIndex = LastIndex(c.candidate)'
                      /\ c.lastLogTerm = LastTerm(c.candidate)'
    BY DEF RequestsOK
  <2>1. PICK d \in voteCalls : SameRequest(c, d)
    BY DEF VotesStay
  <2>2. c.candidate \in Server
    BY VoteKinds DEF TypeOK
  <2>3. /\ log'[c.candidate] = log[c.candidate]
        /\ state[c.candidate] = "Candidate" /\ currentTerm[c.candidate] = c.term
    BY <2>2 DEF VotesStay
  <2>4. d.lastLogIndex = LastIndex(c.candidate) /\ d.lastLogTerm = LastTerm(c.candidate)
    BY <2>1, <2>3 DEF SameRequest, RunsOK, RequestsOK
  <2>5. snapshotIndex[c.candidate] = 0 /\ snapshotIndex'[c.candidate] = 0
    BY <2>2 DEF NoSnapshots
  <2> QED
    BY <2>1, <2>3, <2>4, <2>5 DEF SameRequest, LastIndex, LastTerm
<1>2. BallotsHonest'
  <2> SUFFICES ASSUME NEW b \in ballots PROVE b[2] <= disk'[b[3]].term
    BY DEF BallotsHonest, VotesStay
  <2>1. b[2] \in Nat /\ b[3] \in Server
    BY BallotTypes
  <2>2. disk[b[3]].term \in Nat /\ disk'[b[3]].term \in Nat
    BY <2>1 DEF TypeOK, Persisted
  <2>3. b[2] <= disk[b[3]].term /\ disk[b[3]].term <= disk'[b[3]].term
    BY <2>1 DEF RunsOK, BallotsHonest, LaterHere
  <2> QED
    BY <2>1, <2>2, <2>3
<1>3. BallotsSafe(ul, bk)'
  <2> SUFFICES ASSUME NEW b \in ballots, state'[b[3]] = "Candidate",
                      currentTerm'[b[3]] = b[2]
               PROVE  BallotSafe(bk, b[1], b[2], b[3])'
    BY DEF BallotsSafe, BallotSafe, VotesStay
  <2>1. b[3] \in Server
    BY BallotTypes
  <2>2. /\ state[b[3]] = "Candidate" /\ currentTerm[b[3]] = b[2]
        /\ log'[b[3]] = log[b[3]]
    BY <2>1 DEF VotesStay
  <2>3. BallotSafe(ak, b[1], b[2], b[3])
    BY <2>2 DEF RunsOK, BallotsSafe, BallotSafe
  <2> QED
    BY <2>2, <2>3, BallotStays
<1> QED
  BY <1>1, <1>2, <1>3 DEF RunsOK

\* A log at least as up to date as that of j, by RequestVote's comparison, has
\* what that of j has, unless it is lost.
LEMMA UpToDateHas ==
  ASSUME TypeOK, NoSnapshots, NEW tl, NEW ak, TermLogs(tl), PeerLogs(tl),
         TermsSafe(tl, ak), NEW i \in Server, NEW j \in Server,
         \/ LastTerm(i) > LastTerm(j)
         \/ LastTerm(i) = LastTerm(j) /\ LastIndex(i) >= LastIndex(j),
         NEW t \in Nat, NEW x \in Pos, Has(log[j], x, t), Own(tl, t, x)
  PROVE  Has(log[i], x, t) \/ Lost(ak, t, x)
<1>1. PICK s, u : s = log[j] /\ u = log[i]
  OBVIOUS
<1>2. /\ s \in Seq(Entry) /\ Len(s) \in Nat \ {0} /\ LastIndex(j) = Len(s) - 1
      /\ u \in Seq(Entry) /\ Len(u) \in Nat \ {0} /\ LastIndex(i) = Len(u) - 1
  BY <1>1, PlainLog
<1>3. LastTerm(j) = s[Len(s)].term /\ LastTerm(i) = u[Len(u)].term
  BY <1>1 DEF LastTerm
<1>4. Descends(tl, s) /\ Descends(tl, u)
  BY <1>1 DEF PeerLogs
<1>5. /\ x \in 1 .. Len(s) /\ s[x].term = t
      /\ Len(s) \in 1 .. Len(s) /\ Len(u) \in 1 .. Len(u)
  BY <1>1, <1>2 DEF Has
<1>6. s[Len(s)].term \in Nat /\ u[Len(u)].term \in Nat
  BY <1>2, <1>5, EntriesOf
<1>7. t <= s[Len(s)].term
  <2>1. x <= Len(s)
    BY <1>2, <1>5
  <2> QED
    BY <1>2, <1>4, <1>5, <2>1, TermsOrdered
<1>8. CASE u[Len(u)].term = s[Len(s)].term /\ Len(u) >= Len(s)
  <2>1. SameFront(s, tl[s[Len(s)].term], Len(s)) /\ SameFront(u, tl[u[Len(u)].term], Len(u))
    BY <1>4, <1>5 DEF Descends
  <2>2. SameFront(u, tl[s[Len(s)].term], Len(s))
    <3>1. Len(tl[u[Len(u)].term]) \in Nat
      BY <1>6, TermLogType
    <3> QED
      BY <1>2, <1>8, <2>1, <3>1, FrontShorter
  <2>3. SameFront(s, u, Len(s))
    BY <2>1, <2>2, FrontSwapped, FrontChained
  <2> QED
    BY <1>1, <1>2, <2>3, HasStays
<1>9. CASE u[Len(u)].term > s[Len(s)].term
  <2>1. PICK T : T = u[Len(u)].term
    OBVIOUS
  <2>2. T \in Nat /\ t < T
    BY <1>6, <1>7, <1>9, <2>1
  <2>3. SameFront(u, tl[T], Len(u))
    BY <1>4, <1>5, <2>1 DEF Descends
  <2>4. tl[T] \in Seq(Entry) /\ Len(tl[T]) \in Nat
    BY <2>2, TermLogType
  <2>5. Len(u) <= Len(tl[T]) /\ \A y \in 1 .. Len(u) : u[y] = tl[T][y]
    BY <2>3 DEF SameFront
  <2>6. tl[T] # <<>>
    <3>1. Len(u) - 1 \in Nat /\ Len(u) - 1 + 1 <= Len(tl[T])
      BY <1>2, <2>4, <2>5
    <3> QED
      BY <2>4, <3>1, NotEmpty
  <2>7. Has(tl[T], x, t) \/ Lost(ak, t, x)
    BY <2>2, <2>6 DEF TermsSafe
  <2>8. ASSUME Has(tl[T], x, t) PROVE Has(u, x, t)
    <3>1. x \in 1 .. Len(tl[T]) /\ tl[T][x].term = t
      BY <2>8 DEF Has
    <3>2. CASE x <= Len(u)
      <4>1. x \in 1 .. Len(u)
        BY <1>2, <3>1, <3>2
      <4> QED
        BY <2>5, <3>1, <4>1 DEF Has
    <3>3. CASE x > Len(u)
      <4>1. Len(u) \in 1 .. Len(tl[T]) /\ Len(u) <= x
        BY <1>2, <2>4, <2>5, <3>1, <3>3
      <4>2. tl[T][Len(u)].term = T
        BY <1>5, <2>1, <2>5
      <4>3. tl[T][Len(u)].term <= tl[T][x].term
        BY <2>2, <2>4, <3>1, <4>1, TermsOrdered DEF TermLogs
      <4> QED
        BY <2>2, <3>1, <4>2, <4>3
    <3> QED
      BY <1>2, <3>1, <3>2, <3>3
  <2> QED
    BY <1>1, <2>7, <2>8
<1> QED
  BY <1>2, <1>3, <1>6, <1>8, <1>9

\* One more ballot, of j for candidate i in term T.
LEMMA RunsVoted ==
  ASSUME TypeOK, TypeOK', NoSnapshots, NoSnapshots', BallotsOnDisk, CallsHonest,
         NEW tl, NEW ak, RunsOK(tl, ak), DisksGrow, UNCHANGED log,
         NEW j \in Server, NEW T \in Nat, NEW i \in Server,
         ballots' = ballots \cup {<<j, T, i>>}, T <= disk'[i].term,
         state'[i] = "Candidate" /\ currentTerm'[i] = T => BallotSafe(ak, j, T, i),
         \A k \in Server : state'[k] = "Candidate" =>
           \/ state[k] = "Candidate" /\ currentTerm'[k] = currentTerm[k]
           \/ currentTerm'[k] > disk[k].term,
         \A c \in voteCalls' : c.kind = "request" =>
           \/ c \in voteCalls
           \/ /\ c.lastLogIndex = LastIndex(c.candidate)
              /\ c.lastLogTerm = LastTerm(c.candidate)
  PROVE  RunsOK(tl, ak)'
<1>1. LaterHere(ak, ak)
  BY DEF LaterHere, DisksGrow
<1>2. ASSUME NEW k \in Server
      PROVE  /\ LastIndex(k)' = LastIndex(k) /\ LastTerm(k)' = LastTerm(k)
             /\ disk[k].term \in Nat /\ disk'[k].term \in Nat
             /\ disk[k].term <= disk'[k].term /\ currentTerm'[k] \in Nat
  <2>1. snapshotIndex[k] = 0 /\ snapshotIndex'[k] = 0
    BY DEF NoSnapshots
  <2>2. disk[k].term \in Nat /\ disk'[k].term \in Nat /\ currentTerm'[k] \in Nat
    BY DEF TypeOK, Persisted
  <2> QED
    BY <2>1, <2>2 DEF LastIndex, LastTerm, DisksGrow
<1>3. RequestsOK'
  <2> SUFFICES ASSUME NEW c \in voteCalls', c.kind = "request",
                      state'[c.candidate] = "Candidate",
                      currentTerm'[c.candidate] = c.term
               PROVE  /\ c.lastLogIndex = LastIndex(c.candidate)'
                      /\ c.lastLogTerm = LastTerm(c.candidate)'
    BY DEF RequestsOK
  <2>1. c.candidate \in Server /\ c.term \in Nat
    BY VoteKinds DEF TypeOK
  <2>2. CASE c \notin voteCalls
    BY <1>2, <2>1, <2>2
  <2>3. CASE c \in voteCalls
    <3>1. c.term <= disk[c.candidate].term
      BY <2>3 DEF CallsHonest
    <3>2. state[c.candidate] = "Candidate" /\ currentTerm[c.candidate] = c.term
      BY <1>2, <2>1, <3>1
    <3> QED
      BY <1>2, <2>1, <2>3, <3>2 DEF RunsOK, RequestsOK
  <2> QED
    BY <2>2, <2>3
<1>4. BallotsHonest'
  <2> SUFFICES ASSUME NEW b \in ballots' PROVE b[2] <= disk'[b[3]].term
    BY DEF BallotsHonest
  <2>1. CASE b \in ballots
    <3>1. b[2] \in Nat /\ b[3] \in Server /\ b[2] <= disk[b[3]].term
      BY <2>1, BallotTypes DEF RunsOK, BallotsHonest
    <3> QED
      BY <1>2, <3>1
  <2>2. CASE b = <<j, T, i>>
    BY <2>2
  <2> QED
    BY <2>1, <2>2
<1>5. BallotsSafe(tl, ak)'
  <2> SUFFICES ASSUME NEW b \in ballots', state'[b[3]] = "Candidate",
                      currentTerm'[b[3]] = b[2]
               PROVE  BallotSafe(ak, b[1], b[2], b[3])'
    BY DEF BallotsSafe, BallotSafe
  <2>1. CASE b \in ballots
    <3>1. b[2] \in Nat /\ b[3] \in Server /\ b[2] <= disk[b[3]].term
      BY <2>1, BallotTypes DEF RunsOK, BallotsHonest
    <3>2. state[b[3]] = "Candidate" /\ currentTerm[b[3]] = b[2]
      BY <1>2, <3>1
    <3>3. BallotSafe(ak, b[1], b[2], b[3])
      BY <2>1, <3>2 DEF RunsOK, BallotsSafe, BallotSafe
    <3> QED
      BY <1>1, <2>1, <3>3, BallotStays
  <2>2. CASE b = <<j, T, i>>
    <3>1. BallotSafe(ak, j, T, i)
      BY <2>2
    <3>2. BallotSafe(ak, j, T, i)'
      BY <1>1, <3>1, LostStays DEF BallotSafe
    <3> QED
      BY <2>2, <3>2
  <2> QED
    BY <2>1, <2>2
<1> QED
  BY <1>3, <1>4, <1>5 DEF RunsOK

LEMMA AcceptedOwn ==
  ASSUME NEW tl, NEW ak, AcksOK(tl, ak), NEW j \in Server, NEW t \in Nat, NEW x \in Pos,
         <<j, t, x>> \in ak
  PROVE  Own(tl, t, x) /\ (Has(log[j], x, t) \/ Lost(ak, t, x))
  BY DEF AcksOK, AckOK, Has, Own

\* A candidate votes for itself first.
LEMMA StartElectionRuns ==
  ASSUME Known, Known', NoSnapshots, NoSnapshots', NEW tl, NEW ak, RunsOK(tl, ak),
         AcksOK(tl, ak), NEW i \in Server, StartElection(i)
  PROVE  RunsOK(tl, ak)' /\ DisksGrow
<1> DEFINE T == currentTerm[i] + 1
<1>1. /\ TypeOK /\ TypeOK' /\ DiskBehind /\ BallotsOnDisk /\ CallsHonest
  BY DEF Known, ElectionInv
<1>2. /\ state' = [state EXCEPT ![i] = "Candidate"]
      /\ currentTerm' = [currentTerm EXCEPT ![i] = T]
      /\ ballots' = ballots \cup {<<i, T, i>>} /\ UNCHANGED log /\ Persist(i)
  BY DEF StartElection, logVars
<1>3. /\ currentTerm[i] \in Nat /\ disk[i].term \in Nat
      /\ disk[i].term <= currentTerm[i]
  BY <1>1, TermTypes DEF DiskBehind
<1>4. currentTerm'[i] = T /\ disk'[i].term = T
  BY <1>1, <1>2 DEF Persist, TypeOK
<1>5. DisksGrow
  BY <1>1, <1>2, <1>3, <1>4, SavedGrows
<1>6. BallotSafe(ak, i, T, i)
  BY AcceptedOwn DEF BallotSafe
<1>7. \A k \in Server : state'[k] = "Candidate" =>
           \/ state[k] = "Candidate" /\ currentTerm'[k] = currentTerm[k]
           \/ currentTerm'[k] > disk[k].term
  <2>1. \A k \in Server \ {i} : state'[k] = state[k] /\ currentTerm'[k] = currentTerm[k]
    BY <1>1, <1>2 DEF TypeOK
  <2> QED
    BY <1>3, <1>4, <2>1
<1>8. \A c \in voteCalls' : c.kind = "request" =>
           \/ c \in voteCalls
           \/ /\ c.lastLogIndex = LastIndex(c.candidate)
              /\ c.lastLogTerm = LastTerm(c.candidate)
  BY DEF StartElection
<1> HIDE DEF T
<1>9. T \in Nat /\ T <= disk'[i].term
  BY <1>3, <1>4 DEF T
<1> QED
  BY <1>1, <1>2, <1>5, <1>6, <1>7, <1>8, <1>9, RunsVoted

\* A vote goes to a candidate that has what the voter has accepted.
LEMMA GrantRuns ==
  ASSUME Known, Known', NoSnapshots, NoSnapshots', NEW tl, NEW ak, RunsOK(tl, ak),
         AcksOK(tl, ak), TermLogs(tl), PeerLogs(tl), TermsSafe(tl, ak),
         NEW c \in voteCalls, RequestVoteGrant(c)
  PROVE  RunsOK(tl, ak)' /\ DisksGrow
<1>1. /\ TypeOK /\ TypeOK' /\ DiskBehind /\ BallotsOnDisk /\ CallsHonest
  BY DEF Known, ElectionInv
<1>2. PICK i, j, T : i = c.candidate /\ j = c.to /\ T = c.term
  OBVIOUS
<1>3. i \in Server /\ j \in Server /\ T \in Nat /\ i # j
  BY <1>1, <1>2, VoteKinds DEF TypeOK, CallsHonest
<1>4. /\ c.kind = "request" /\ T >= currentTerm[j] /\ UpToDate(j, c)
      /\ currentTerm' = [currentTerm EXCEPT ![j] = T]
      /\ state' = [state EXCEPT ![j] = IF T > currentTerm[j] THEN "Follower" ELSE @]
      /\ ballots' = ballots \cup {<<j, T, i>>} /\ UNCHANGED log /\ Persist(j)
      /\ AnswerVote(c, T, TRUE)
  BY <1>2 DEF RequestVoteGrant, NoticeTerm, CanGrant, logVars
<1>5. currentTerm[j] \in Nat /\ currentTerm'[j] = T
  BY <1>1, <1>3, <1>4 DEF TypeOK
<1>6. DisksGrow
  BY <1>1, <1>3, <1>4, <1>5, SavedGrows
<1>7. \A k \in Server : state'[k] = "Candidate" =>
        state[k] = "Candidate" /\ currentTerm'[k] = currentTerm[k]
  <2>1. \A k \in Server \ {j} : state'[k] = state[k] /\ currentTerm'[k] = currentTerm[k]
    BY <1>1, <1>4 DEF TypeOK
  <2>2. state'[j] = IF T > currentTerm[j] THEN "Follower" ELSE state[j]
    BY <1>1, <1>3, <1>4 DEF TypeOK
  <2>3. ASSUME state'[j] = "Candidate"
        PROVE  state[j] = "Candidate" /\ currentTerm'[j] = currentTerm[j]
    <3>1. ~(T > currentTerm[j])
      BY <2>2, <2>3
    <3>2. T = currentTerm[j]
      BY <1>3, <1>4, <1>5, <3>1
    <3> QED
      BY <1>5, <2>2, <2>3, <3>1, <3>2
  <2> QED
    BY <2>1, <2>3
<1>8. ASSUME state'[i] = "Candidate", currentTerm'[i] = T
      PROVE  BallotSafe(ak, j, T, i)
  <2>1. state[i] = "Candidate" /\ currentTerm[i] = T
    BY <1>3, <1>7, <1>8
  <2>2. c.lastLogIndex = LastIndex(i) /\ c.lastLogTerm = LastTerm(i)
    BY <1>2, <1>4, <2>1 DEF RunsOK, RequestsOK
  <2>3. \/ LastTerm(i) > LastTerm(j)
        \/ LastTerm(i) = LastTerm(j) /\ LastIndex(i) >= LastIndex(j)
    BY <1>4, <2>2 DEF UpToDate
  <2> SUFFICES ASSUME NEW t \in Nat, NEW x \in Pos, <<j, t, x>> \in ak
               PROVE  Has(log[i], x, t) \/ Lost(ak, t, x)
    BY DEF BallotSafe
  <2>4. Own(tl, t, x) /\ (Has(log[j], x, t) \/ Lost(ak, t, x))
    BY <1>3, AcceptedOwn
  <2> QED
    BY <1>1, <1>3, <2>3, <2>4, UpToDateHas
<1>9. \A d \in voteCalls' : d.kind = "request" => d \in voteCalls
  BY <1>4 DEF AnswerVote
<1>10. T <= disk'[i].term
  <2>1. T <= disk[i].term
    BY <1>1, <1>2 DEF CallsHonest
  <2>2. disk[i].term \in Nat /\ disk'[i].term \in Nat /\ disk[i].term <= disk'[i].term
    BY <1>1, <1>3, <1>6, TermTypes DEF DisksGrow, TypeOK, Persisted
  <2> QED
    BY <1>3, <2>1, <2>2
<1> QED
  BY <1>1, <1>3, <1>4, <1>6, <1>7, <1>8, <1>9, <1>10, RunsVoted

-----------------------------------------------------------------------------
(* Steps that leave the logs and the leaders *)

SameLeader(k) ==
  state'[k] = "Leader" => state[k] = "Leader" /\ currentTerm'[k] = currentTerm[k]

LEMMA TermsHeldStay ==
  ASSUME TypeOK, ElectionInv, RolesMove, NEW tl, NEW ul, TermsHeld(tl),
         \A t \in Nat \ {0} : ul[t] # <<>> => tl[t] # <<>> \/ Won(t)'
  PROVE  TermsHeld(ul)'
  BY WonStays DEF TermsHeld

LEMMA LeaderLogsStay ==
  ASSUME TypeOK, TypeOK', NEW tl, NEW ul, LeaderLogs(tl), NEW k \in Server,
         SameLeader(k), state'[k] = "Leader", log'[k] = log[k],
         ul[currentTerm[k]] = tl[currentTerm[k]]
  PROVE  ul[currentTerm'[k]] = log'[k]
  BY DEF SameLeader, LeaderLogs

LEMMA QuietLogs ==
  ASSUME Known, Known', RolesMove, DisksGrow, UNCHANGED log,
         \A k \in Server : SameLeader(k),
         NEW tl, NEW ak, LogsOK(tl), ak \subseteq Votes, AcksOK(tl, ak),
         TermsSafe(tl, ak)
  PROVE  /\ LogsOK(tl)' /\ AcksOK(tl, ak)' /\ TermsSafe(tl, ak)'
         /\ Later(tl, ak, tl, ak) /\ LaterHere(ak, ak)
<1>1. TypeOK /\ TypeOK' /\ ElectionInv /\ TermLogs(tl)
  BY DEF Known, LogsOK
<1>2. Later(tl, ak, tl, ak) /\ LaterHere(ak, ak)
  BY <1>1, SameTerms DEF LaterHere, DisksGrow
<1>3. TermsHeld(tl)'
  BY <1>1, TermsHeldStay DEF LogsOK
<1>4. LeaderLogs(tl)'
  BY <1>1, LeaderLogsStay DEF LogsOK, LeaderLogs
<1>5. PeerLogs(tl)'
  BY <1>1, <1>2, PeerStays DEF LogsOK, PeerLogs
<1>6. AcksOK(tl, ak)'
  <2> SUFFICES ASSUME NEW j \in Server, NEW t \in Nat, NEW x \in Pos, <<j, t, x>> \in ak
               PROVE  AckOK(tl, ak, j, t, x)'
    BY DEF AcksOK
  <2>1. SameFront(log[j], log'[j], Len(log[j]))
    BY <1>1, LogFacts, FrontOfItself
  <2>2. AckOK(tl, ak, j, t, x)
    BY DEF AcksOK
  <2> QED
    BY <1>1, <1>2, <2>1, <2>2, AckStays
<1>7. TermsSafe(tl, ak)'
  <2> SUFFICES ASSUME NEW t \in Nat, NEW T \in Nat, NEW x \in Pos,
                      t < T, tl[T] # <<>>, Own(tl, t, x)
               PROVE  Has(tl[T], x, t) \/ Lost(ak, t, x)'
    BY DEF TermsSafe
  <2> QED
    BY <1>1, <1>2, SafeStays
<1> QED
  BY <1>1, <1>2, <1>3, <1>4, <1>5, <1>6, <1>7 DEF LogsOK

LEMMA HoldsStays ==
  ASSUME TypeOK, NEW ak, NEW bk, ak \subseteq bk, NEW i \in Server, NEW j, NEW x,
         log'[i] = log[i], currentTerm'[i] = currentTerm[i], Holds(ak, i, j, x)
  PROVE  Holds(bk, i, j, x)'
  BY DEF Holds

\* Leader k, of which nothing changes that MatchesOK speaks of.
LeaderStays(k) ==
  /\ state[k] = "Leader" /\ currentTerm'[k] = currentTerm[k]
  /\ log'[k] = log[k] /\ matchIndex'[k] = matchIndex[k]

LeaderMatches(ak, k) ==
  /\ Holds(ak, k, k, Len(log[k]))
  /\ \A j \in Server \ {k} : Holds(ak, k, j, matchIndex[k][j] + 1)

LEMMA MatchesAre ==
  ASSUME NEW ak
  PROVE  MatchesOK(ak) <=> \A i \in Server : state[i] = "Leader" => LeaderMatches(ak, i)
  BY DEF MatchesOK, LeaderMatches

LEMMA LeaderMatchesStay ==
  ASSUME TypeOK, NEW ak, NEW bk, ak \subseteq bk, MatchesOK(ak), NEW k \in Server,
         LeaderStays(k)
  PROVE  LeaderMatches(bk, k)'
<1>1. LeaderMatches(ak, k)
  BY MatchesAre DEF LeaderStays
<1>2. Holds(bk, k, k, Len(log[k]))'
  BY <1>1, HoldsStays DEF LeaderMatches, LeaderStays
<1>3. \A j \in Server \ {k} : Holds(bk, k, j, matchIndex[k][j] + 1)'
  BY <1>1, HoldsStays DEF LeaderMatches, LeaderStays
<1> QED
  BY <1>2, <1>3 DEF LeaderMatches, LeaderStays

-----------------------------------------------------------------------------
(* The answers *)

\* An answer is used in the term of the call it answers, by the leader that made
\* the call: what replicateLog does not check.
AnswersInTerm ==
  \A g \in Goroutine : AppendSucceeded(g) =>
    LET i == call[g].caller
    IN state[i] = "Leader" /\ call[g].term = currentTerm[i]

LEMMA TableEntry ==
  ASSUME NEW f \in [Server -> [Server -> Nat]], NEW i \in Server, NEW j \in Server,
         NEW n, NEW h, h = [f EXCEPT ![i][j] = n]
  PROVE  /\ h[i][j] = n
         /\ \A k \in Server : k # j => h[i][k] = f[i][k]
         /\ \A k \in Server : k # i => h[k] = f[k]
  OBVIOUS

\* One entry of the table of leader i changes, and it is right.
LEMMA EntryMatches ==
  ASSUME TypeOK, NEW ak, MatchesOK(ak), NEW i \in Server, NEW j \in Server, NEW n \in Nat,
         UNCHANGED <<log, state, currentTerm>>,
         matchIndex' = [matchIndex EXCEPT ![i][j] = n],
         state[i] = "Leader" => Holds(ak, i, j, n + 1)
  PROVE  MatchesOK(ak)'
<1>1. /\ matchIndex'[i][j] = n
      /\ \A k \in Server : k # j => matchIndex'[i][k] = matchIndex[i][k]
      /\ \A k \in Server : k # i => matchIndex'[k] = matchIndex[k]
  BY TableEntry DEF TypeOK
<1> SUFFICES ASSUME NEW k \in Server, state'[k] = "Leader"
             PROVE  LeaderMatches(ak, k)'
  BY DEF MatchesOK, LeaderMatches
<1>2. CASE k # i
  BY <1>1, <1>2, LeaderMatchesStay DEF LeaderStays
<1>3. CASE k = i
  <2>1. LeaderMatches(ak, i)
    BY <1>3, MatchesAre
  <2>2. \A m, x : Holds(ak, i, m, x)' <=> Holds(ak, i, m, x)
    BY DEF Holds
  <2> QED
    BY <1>1, <1>3, <2>1, <2>2 DEF LeaderMatches
<1> QED
  BY <1>2, <1>3

LEMMA SucceededMatches ==
  ASSUME TypeOK, NEW tl, NEW ak, LeaderLogs(tl), MatchesOK(ak), CallsOK(tl, ak),
         NEW g \in Goroutine, AppendSucceeded(g), AnswersInTerm
  PROVE  MatchesOK(ak)'
<1>1. PICK r : r = call[g]
  OBVIOUS
<1>2. /\ r # Nil /\ r.kind = "appended" /\ r.success
      /\ matchIndex' = [matchIndex EXCEPT ![r.caller][r.to] = r.match]
      /\ UNCHANGED <<log, state, currentTerm>>
  BY <1>1 DEF AppendSucceeded, logVars, serverVars
<1>3. r \in AppendReply
  BY <1>1, <1>2, RequestType
<1>4. r.caller \in Server /\ r.to \in Server /\ r.match \in Nat
  BY <1>3 DEF AppendReply
<1>5. state[r.caller] = "Leader" /\ r.term = currentTerm[r.caller]
  BY <1>1 DEF AnswersInTerm
<1>6. ReplyOK(tl, ak, r) /\ tl[r.term] = log[r.caller]
  BY <1>1, <1>2, <1>4, <1>5 DEF CallsOK, CallOK, LeaderLogs
<1>7. Holds(ak, r.caller, r.to, r.match + 1)
  BY <1>2, <1>5, <1>6 DEF ReplyOK, Holds
<1> QED
  BY <1>2, <1>4, <1>7, EntryMatches

LEMMA InstallDoneMatches ==
  ASSUME TypeOK, NoSnapshots, RunnersPositive, NEW ak, MatchesOK(ak),
         NEW g \in Goroutine, InstallDone(g)
  PROVE  MatchesOK(ak)'
<1>1. PICK r, i : r = call[g] /\ i = r.caller
  OBVIOUS
<1>2. /\ r # Nil /\ r.kind = "installed"
      /\ matchIndex' = [matchIndex EXCEPT ![i][r.to] = snapshotIndex[i]]
      /\ UNCHANGED <<log, state, currentTerm>>
  BY <1>1 DEF InstallDone, logVars, serverVars
<1>3. r \in InstallReply
  BY <1>1, <1>2, RequestType
<1>4. i \in Server /\ r.to \in Server
  BY <1>1, <1>3 DEF InstallReply
<1>5. snapshotIndex[i] = 0
  BY <1>4, PlainLog
<1>6. ASSUME state[i] = "Leader" PROVE Holds(ak, i, r.to, 0 + 1)
  <2>1. Len(log[i]) \in Nat \ {0} /\ log[i][1].term = 0
    BY <1>4, PlainLog
  <2>2. currentTerm[i] > 0
    BY <1>4, <1>6 DEF RunnersPositive
  <2>3. \A y \in 1 .. 0 + 1 : y = 1
    OBVIOUS
  <2> QED
    BY <2>1, <2>2, <2>3 DEF Holds
<1>7. matchIndex' = [matchIndex EXCEPT ![i][r.to] = 0]
  BY <1>2, <1>5
<1> QED
  BY <1>2, <1>4, <1>6, <1>7, EntryMatches

-----------------------------------------------------------------------------
(* Commitment and delivery *)

CommitOK(tl, ak, i) ==
  /\ commitIndex[i] + 1 <= Len(log[i])
  /\ CommittedTo(tl, ak, log[i], commitIndex[i], currentTerm[i])

LEMMA CommitStays ==
  ASSUME TypeOK, TypeOK', NEW tl, NEW ak, NEW ul, NEW bk, Later(tl, ak, ul, bk),
         NEW i \in Server, CommitOK(tl, ak, i),
         \/ commitIndex'[i] = 0
         \/ /\ commitIndex'[i] = commitIndex[i] /\ currentTerm[i] <= currentTerm'[i]
            /\ SameFront(log[i], log'[i], Len(log[i]))
  PROVE  CommitOK(ul, bk, i)'
<1>1. /\ log[i] \in Seq(Entry) /\ Len(log[i]) \in Nat
      /\ log'[i] \in Seq(Entry) /\ Len(log'[i]) \in Nat \ {0}
      /\ currentTerm[i] \in Nat /\ currentTerm'[i] \in Nat /\ commitIndex[i] \in Nat
  <2>1. log[i] \in Seq(Entry) \ {<<>>} /\ log'[i] \in Seq(Entry) \ {<<>>}
    BY DEF TypeOK
  <2>2. currentTerm[i] \in Nat /\ currentTerm'[i] \in Nat /\ commitIndex[i] \in Nat
    BY DEF TypeOK
  <2> QED
    BY <2>1, <2>2, EmptySeq, LenProperties
<1>2. CASE commitIndex'[i] = 0
  BY <1>1, <1>2 DEF CommitOK, CommittedTo
<1>3. CASE /\ commitIndex'[i] = commitIndex[i] /\ currentTerm[i] <= currentTerm'[i]
           /\ SameFront(log[i], log'[i], Len(log[i]))
  <2>1. commitIndex'[i] + 1 <= Len(log'[i])
    BY <1>1, <1>3 DEF CommitOK, SameFront
  <2>2. CommittedTo(ul, bk, log'[i], commitIndex[i], currentTerm'[i])
    BY <1>1, <1>3, CommittedToStays DEF CommitOK
  <2> QED
    BY <1>3, <2>1, <2>2 DEF CommitOK
<1> QED
  BY <1>2, <1>3

\* What a leader commits, a majority has accepted.
LEMMA SucceededCommits ==
  ASSUME TypeOK, TypeOK', NoSnapshots, NEW tl, NEW ak, TermLogs(tl), ak \subseteq Votes,
         LeaderLogs(tl), MatchesOK(ak), MatchesOK(ak)', CommitsOK(tl, ak),
         NEW g \in Goroutine, AppendSucceeded(g), AnswersInTerm
  PROVE  CommitsOK(tl, ak)'
<1>1. PICK i : i = call[g].caller
  OBVIOUS
<1>2. /\ call[g] # Nil /\ call[g].kind = "appended" /\ UpdateCommitIndex(g, i)
      /\ UNCHANGED <<log, state, currentTerm>>
  BY <1>1 DEF AppendSucceeded, logVars, serverVars
<1>3. call[g] \in AppendReply
  BY <1>2, RequestType
<1>4. i \in Server /\ state[i] = "Leader"
  BY <1>1, <1>3 DEF AppendReply, AnswersInTerm
<1>5. Later(tl, ak, tl, ak)
  BY SameTerms
<1>6. ASSUME NEW k \in Server, commitIndex'[k] = commitIndex[k]
      PROVE  CommitOK(tl, ak, k)'
  <2>1. currentTerm[k] <= currentTerm'[k] /\ SameFront(log[k], log'[k], Len(log[k]))
    BY <1>2, TermTypes, LogFacts, FrontOfItself
  <2>2. CommitOK(tl, ak, k)
    BY DEF CommitsOK, CommitOK
  <2> QED
    BY <1>5, <1>6, <2>1, <2>2, CommitStays
<1>7. CASE UNCHANGED commitIndex
  BY <1>6, <1>7 DEF CommitsOK, CommitOK
<1>8. ASSUME NEW n \in commitIndex[i] + 1 .. LastIndex(i), Committable(i, n),
             commitIndex' = [commitIndex EXCEPT ![i] = n]
      PROVE  CommitsOK(tl, ak)'
  <2>1. /\ commitIndex[i] \in Nat /\ LastIndex(i) = Len(log[i]) - 1
        /\ Len(log[i]) \in Nat \ {0} /\ currentTerm[i] \in Nat
    BY <1>4, PlainLog, TermTypes DEF TypeOK
  <2>2. n \in Nat /\ n + 1 <= Len(log[i]) /\ n + 1 \in 1 .. Len(log[i]) /\ n + 1 \in Pos
    BY <2>1 DEF Pos
  <2>3. log[i][n + 1].term = currentTerm[i]
    BY <1>4, <1>8, <2>2, PlainLog DEF Committable
  <2>4. \A j \in Holders(i, n) : <<j, currentTerm[i], n + 1>> \in ak
    <3> SUFFICES ASSUME NEW j \in Holders(i, n)
                 PROVE  <<j, currentTerm[i], n + 1>> \in ak
      OBVIOUS
    <3>1. CASE j = i
      BY <1>4, <2>2, <2>3, <3>1 DEF MatchesOK, Holds
    <3>2. CASE j # i
      <4>1. j \in Server \ {i} /\ matchIndex'[i][j] >= n
        BY <3>2 DEF Holders
      <4>2. matchIndex'[i][j] \in Nat
        BY <1>4, <4>1 DEF TypeOK
      <4>3. Holds(ak, i, j, matchIndex[i][j] + 1)'
        BY <1>2, <1>4, <4>1 DEF MatchesOK
      <4>4. n + 1 \in 1 .. matchIndex'[i][j] + 1
        BY <2>2, <4>1, <4>2
      <4> QED
        BY <1>2, <2>3, <4>3, <4>4 DEF Holds
    <3> QED
      BY <3>1, <3>2
  <2>5. Holders(i, n) \in Quorum
    BY <1>4, <1>8 DEF Holders, Committable, Quorum
  <2>6. Chosen(ak, currentTerm[i], n + 1)
    BY <2>4, <2>5 DEF Chosen
  <2>7. SameFront(log[i], tl[currentTerm[i]], n + 1)
    BY <1>4, <2>1, <2>2 DEF LeaderLogs, SameFront
  <2>8. currentTerm[i] \in 0 .. currentTerm[i] /\ n + 1 >= n + 1
    BY <2>1, <2>2
  <2>9. CommittedTo(tl, ak, log[i], n, currentTerm[i])
    BY <2>2, <2>6, <2>7, <2>8 DEF CommittedTo
  <2>10. commitIndex'[i] = n /\ \A k \in Server \ {i} : commitIndex'[k] = commitIndex[k]
    BY <1>4, <1>8 DEF TypeOK
  <2>11. CommitOK(tl, ak, i)'
    BY <1>2, <2>2, <2>9, <2>10 DEF CommitOK
  <2> QED
    BY <1>6, <2>10, <2>11 DEF CommitsOK, CommitOK
<1> QED
  BY <1>2, <1>7, <1>8 DEF UpdateCommitIndex, applyVars

LEMMA CommittedIsChosen ==
  ASSUME NEW tl, NEW ak, TermLogs(tl), NEW s \in Seq(Entry), NEW c \in Nat, NEW T \in Nat,
         CommittedTo(tl, ak, s, c, T), NEW n \in 1 .. c
  PROVE  ChosenEntry(tl, ak, n + 1, s[n + 1])
<1>1. PICK t \in 0 .. T, y \in Pos :
        y >= c + 1 /\ Chosen(ak, t, y) /\ SameFront(s, tl[t], c + 1)
  BY DEF CommittedTo
<1>2. t \in Nat /\ Len(tl[t]) \in Nat
  BY TermLogType
<1>3. n + 1 \in 1 .. Len(tl[t]) /\ tl[t][n + 1] = s[n + 1]
  BY <1>1, <1>2 DEF SameFront
<1>4. y >= n + 1
  BY <1>1 DEF Pos
<1> QED
  BY <1>1, <1>2, <1>3, <1>4 DEF ChosenEntry

\* A delivery loop puts only chosen entries on applyCh.
LEMMA DeliveryOK ==
  ASSUME TypeOK, TypeOK', NoSnapshots', NEW tl, NEW ak, TermLogs(tl),
         NEW g \in Goroutine, NEW i \in Server, NEW then \in AppendReply \cup {Nil},
         ApplyLog(g, i, then), CommitOK(tl, ak, i)',
         then # Nil => ReplyOK(tl, ak, then)
  PROVE  /\ CallOK(tl, ak, call'[g])
         /\ \A h \in Goroutine \ {g} : call'[h] = call[h]
<1>1. CASE call' = [call EXCEPT ![g] = then]
  <2>1. call'[g] = then /\ \A h \in Goroutine \ {g} : call'[h] = call[h]
    BY <1>1 DEF TypeOK
  <2>2. CallOK(tl, ak, then)
    BY DEF CallOK, AppendReply
  <2> QED
    BY <2>1, <2>2
<1>2. CASE LET next == lastApplied[i] + 1
               offset == next - snapshotIndex'[i]
           IN /\ next <= commitIndex'[i] /\ offset \in 1 .. Len(log'[i]) - 1
              /\ call' = [call EXCEPT ![g] =
                   [kind |-> "send", at |-> i, index |-> next,
                    entry |-> log'[i][offset + 1], then |-> then]]
  <2>1. PICK next : next = lastApplied[i] + 1
    OBVIOUS
  <2>2. /\ lastApplied[i] \in Nat /\ commitIndex'[i] \in Nat /\ log'[i] \in Seq(Entry)
        /\ snapshotIndex'[i] = 0 /\ currentTerm'[i] \in Nat
    BY DEF TypeOK, NoSnapshots
  <2>3. next \in 1 .. commitIndex'[i] /\ next - snapshotIndex'[i] = next
    BY <1>2, <2>1, <2>2
  <2>4. PICK x : x = [kind |-> "send", at |-> i, index |-> next,
                      entry |-> log'[i][next + 1], then |-> then]
    OBVIOUS
  <2>5. call'[g] = x /\ \A h \in Goroutine \ {g} : call'[h] = call[h]
    BY <1>2, <2>1, <2>3, <2>4 DEF TypeOK
  <2>6. ChosenEntry(tl, ak, next + 1, log'[i][next + 1])
    <3>1. CommittedTo(tl, ak, log'[i], commitIndex'[i], currentTerm'[i])
      BY DEF CommitOK
    <3> QED
      BY <2>2, <2>3, <3>1, CommittedIsChosen
  <2>7. CallOK(tl, ak, x)
    BY <2>4, <2>6 DEF CallOK
  <2> QED
    BY <2>5, <2>7
<1> QED
  BY <1>1, <1>2 DEF ApplyLog

-----------------------------------------------------------------------------
(* Quiet steps: the logs stay, and nobody becomes leader *)

QuietParts ==
  /\ DisksGrow
  /\ \A k \in Server : SameLeader(k)
  /\ \/ VotesStay
     \/ \E i \in Server : StartElection(i)
     \/ \E c \in voteCalls : RequestVoteGrant(c)
  /\ \/ \A k \in Server :
          \/ commitIndex'[k] = 0
          \/ commitIndex'[k] = commitIndex[k] /\ currentTerm[k] <= currentTerm'[k]
     \/ \E g \in Goroutine : AppendSucceeded(g)
  /\ \/ \A k \in Server : state'[k] = "Leader" => LeaderStays(k)
     \/ \E g \in Goroutine : AppendSucceeded(g) \/ InstallDone(g)
  /\ UNCHANGED applied \/ \E g \in Goroutine : Deliver(g)

LEMMA CalmQuiet ==
  ASSUME Calm, UNCHANGED log
  PROVE  QuietParts
<1>1. \A k \in Server : SameLeader(k)
  BY DEF Calm, SameRun, SameLeader
<1>2. VotesStay
  BY DEF Calm, SameRun, VotesStay, SameRequest
<1>3. \A k \in Server : state'[k] = "Leader" => LeaderStays(k)
  BY DEF Calm, SameRun, LeaderStays
<1> QED
  BY <1>1, <1>2, <1>3 DEF Calm, QuietParts

\* Steps that change neither roles nor terms nor the votes.
LEMMA SameRolesQuiet ==
  ASSUME TypeOK, UNCHANGED <<log, state, currentTerm, disk, ballots>>,
         \A c \in voteCalls' : c \in voteCalls
  PROVE  DisksGrow /\ VotesStay /\ \A k \in Server : SameLeader(k)
  BY TermTypes DEF DisksGrow, VotesStay, SameRequest, SameLeader

LEMMA ComesQuiet ==
  ASSUME TypeOK, NoSnapshots', NEW i \in Server, Comes(i), UNCHANGED log
  PROVE  QuietParts
<1>1. PICK d : RestartFrom(i, d)
  BY DEF Comes
<1>2. /\ state' = [state EXCEPT ![i] = "Follower"]
      /\ currentTerm' = [currentTerm EXCEPT ![i] = d.term]
      /\ commitIndex' = [commitIndex EXCEPT ![i] = d.snapshotIndex]
      /\ disk' = [disk EXCEPT ![i] = d]
      /\ matchIndex' = [matchIndex EXCEPT ![i] = [j \in Server |-> 0]]
      /\ UNCHANGED <<applied, ballots>>
      /\ voteCalls' = {c \in voteCalls : c.candidate # i} \cup
           {[c EXCEPT !.live = FALSE] :
              c \in {r \in voteCalls : r.candidate = i /\ r.kind = "request"}}
  BY <1>1 DEF RestartFrom
<1>3. /\ state'[i] = "Follower"
      /\ \A k \in Server \ {i} :
           /\ state'[k] = state[k] /\ currentTerm'[k] = currentTerm[k]
           /\ commitIndex'[k] = commitIndex[k] /\ matchIndex'[k] = matchIndex[k]
  BY <1>2 DEF TypeOK
<1>4. commitIndex'[i] = 0
  <2>1. disk'[i] = d /\ commitIndex'[i] = d.snapshotIndex
    BY <1>2 DEF TypeOK
  <2> QED
    BY <2>1 DEF NoSnapshots
<1>5. ASSUME NEW x \in voteCalls'
      PROVE  \E c \in voteCalls : SameRequest(x, c)
  <2>1. CASE x \in voteCalls
    BY <2>1 DEF SameRequest
  <2>2. CASE x \notin voteCalls
    <3>1. PICK c \in voteCalls : x = [c EXCEPT !.live = FALSE] /\ c.kind = "request"
      BY <1>2, <2>2
    <3>2. c \in VoteRequest
      BY <3>1, VoteKinds DEF TypeOK
    <3>3. SameRequest(x, c)
      BY <3>1, <3>2 DEF VoteRequest, SameRequest
    <3> QED
      BY <3>3
  <2> QED
    BY <2>1, <2>2
<1>6. \A k \in Server : SameLeader(k)
  BY <1>3 DEF SameLeader
<1>7. VotesStay
  BY <1>2, <1>3, <1>5 DEF VotesStay
<1>8. \A k \in Server : state'[k] = "Leader" => LeaderStays(k)
  BY <1>3 DEF LeaderStays
<1>9. \A k \in Server : \/ commitIndex'[k] = 0
                        \/ /\ commitIndex'[k] = commitIndex[k]
                           /\ currentTerm[k] <= currentTerm'[k]
  BY <1>3, <1>4, TermTypes
<1> QED
  BY <1>2, <1>6, <1>7, <1>8, <1>9 DEF QuietParts, Comes

LEMMA QuietForms ==
  ASSUME Known, Known', NoSnapshots, NoSnapshots', Compacting = {}, [Next]_vars,
         UNCHANGED log, \A g \in Goroutine : ~AppendAccept(g),
         \A c \in voteCalls : VoteCounted(c) => UNCHANGED state
  PROVE  QuietParts
<1>1. TypeOK /\ TypeOK' /\ DiskBehind
  BY DEF Known, ElectionInv
<1>2. \A k \in Server : currentTerm[k] \in Nat
  BY <1>1, TermTypes
<1>3. ASSUME UNCHANGED <<state, currentTerm, disk, ballots, commitIndex, applied,
                         matchIndex>>,
             \A c \in voteCalls' : c \in voteCalls
      PROVE  QuietParts
  <2>1. DisksGrow /\ VotesStay /\ \A k \in Server : SameLeader(k)
    BY <1>1, <1>3, SameRolesQuiet
  <2>2. \A k \in Server : state'[k] = "Leader" => LeaderStays(k)
    BY <1>3 DEF LeaderStays
  <2> QED
    BY <1>2, <1>3, <2>1, <2>2 DEF QuietParts
<1>4. CASE Calm
  BY <1>4, CalmQuiet
<1>5. ASSUME NEW i \in Server, StartElection(i) PROVE QuietParts
  <2>1. /\ state' = [state EXCEPT ![i] = "Candidate"]
        /\ currentTerm' = [currentTerm EXCEPT ![i] = @ + 1] /\ Persist(i)
        /\ UNCHANGED <<commitIndex, applied, matchIndex>>
    BY <1>5 DEF StartElection, applyVars, serviceVars, leaderVars
  <2>2. /\ state'[i] = "Candidate" /\ currentTerm'[i] = currentTerm[i] + 1
        /\ \A k \in Server \ {i} : /\ state'[k] = state[k]
                                   /\ currentTerm'[k] = currentTerm[k]
    BY <1>1, <2>1 DEF TypeOK
  <2>3. \A k \in Server : currentTerm[k] <= currentTerm'[k]
    BY <1>2, <2>2
  <2>4. DisksGrow
    BY <1>1, <2>1, <2>3, SavedGrows
  <2>5. \A k \in Server : SameLeader(k) /\ (state'[k] = "Leader" => LeaderStays(k))
    BY <2>1, <2>2 DEF SameLeader, LeaderStays
  <2> QED
    BY <1>5, <2>1, <2>3, <2>4, <2>5 DEF QuietParts
<1>6. ASSUME NEW i \in Server, Comes(i) PROVE QuietParts
  BY <1>1, <1>6, ComesQuiet
<1>7. ASSUME NEW c \in voteCalls, RequestVoteGrant(c) PROVE QuietParts
  <2>1. PICK j, T : j = c.to /\ T = c.term
    OBVIOUS
  <2>2. j \in Server /\ T \in Nat
    BY <1>1, <2>1, VoteKinds DEF TypeOK
  <2>3. /\ state' = [state EXCEPT ![j] = IF T > currentTerm[j] THEN "Follower" ELSE @]
        /\ currentTerm' = [currentTerm EXCEPT ![j] = T] /\ Persist(j)
        /\ T >= currentTerm[j] /\ UNCHANGED <<commitIndex, applied, matchIndex>>
    BY <1>7, <2>1
    DEF RequestVoteGrant, NoticeTerm, applyVars, serviceVars, leaderVars
  <2>4. /\ state'[j] = (IF T > currentTerm[j] THEN "Follower" ELSE state[j])
        /\ currentTerm'[j] = T
        /\ \A k \in Server \ {j} : /\ state'[k] = state[k]
                                   /\ currentTerm'[k] = currentTerm[k]
    BY <1>1, <2>2, <2>3 DEF TypeOK
  <2>5. \A k \in Server : currentTerm[k] <= currentTerm'[k]
    BY <1>2, <2>3, <2>4
  <2>6. DisksGrow
    BY <1>1, <2>2, <2>3, <2>5, SavedGrows
  <2>7. state'[j] = "Leader" => state[j] = "Leader" /\ currentTerm'[j] = currentTerm[j]
    <3>1. T > currentTerm[j] \/ T = currentTerm[j]
      BY <1>2, <2>2, <2>3
    <3> QED
      BY <2>4, <3>1
  <2>8. \A k \in Server : SameLeader(k) /\ (state'[k] = "Leader" => LeaderStays(k))
    BY <2>3, <2>4, <2>7 DEF SameLeader, LeaderStays
  <2> QED
    BY <1>7, <2>3, <2>5, <2>6, <2>8 DEF QuietParts
<1>8. ASSUME NEW c \in voteCalls, VoteCounted(c) PROVE QuietParts
  <2>1. IsMajority(voteCount[c.candidate] + 1)
           => state' = [state EXCEPT ![c.candidate] = "Leader"]
    BY <1>8 DEF VoteCounted
  <2>2. c.candidate \in Server /\ state[c.candidate] = "Candidate"
    BY <1>1, <1>8, VoteKinds DEF VoteCounted, TypeOK
  <2>3. ~IsMajority(voteCount[c.candidate] + 1)
    BY <1>1, <1>8, <2>1, <2>2 DEF TypeOK
  <2>4. /\ UNCHANGED <<state, currentTerm, disk, ballots, commitIndex, applied,
                       matchIndex>>
        /\ voteCalls' = voteCalls \ {c}
    BY <1>8, <2>3 DEF VoteCounted, leaderVars, applyVars, serviceVars
  <2> QED
    BY <1>3, <2>4
<1>9. ASSUME NEW g \in Goroutine, AppendSucceeded(g) PROVE QuietParts
  <2>1. UNCHANGED <<state, currentTerm, disk, ballots, voteCalls, applied>>
    BY <1>9 DEF AppendSucceeded, serverVars, electionVars, serviceVars
  <2>2. DisksGrow /\ VotesStay /\ \A k \in Server : SameLeader(k)
    BY <1>1, <2>1, SameRolesQuiet
  <2> QED
    BY <1>9, <2>1, <2>2 DEF QuietParts
<1>10. ASSUME NEW g \in Goroutine, InstallDone(g) PROVE QuietParts
  <2>1. UNCHANGED <<state, currentTerm, disk, ballots, voteCalls, applied, commitIndex>>
    BY <1>10 DEF InstallDone, serverVars, electionVars, serviceVars, applyVars
  <2>2. DisksGrow /\ VotesStay /\ \A k \in Server : SameLeader(k)
    BY <1>1, <2>1, SameRolesQuiet
  <2> QED
    BY <1>2, <1>10, <2>1, <2>2 DEF QuietParts
<1>11. ASSUME NEW g \in Goroutine, Deliver(g) PROVE QuietParts
  <2>1. UNCHANGED <<state, currentTerm, disk, ballots, voteCalls, commitIndex,
                    matchIndex>>
    BY <1>11 DEF Deliver, serverVars, electionVars, leaderVars, applyVars
  <2>2. DisksGrow /\ VotesStay /\ \A k \in Server : SameLeader(k)
    BY <1>1, <2>1, SameRolesQuiet
  <2>3. \A k \in Server : state'[k] = "Leader" => LeaderStays(k)
    BY <2>1 DEF LeaderStays
  <2> QED
    BY <1>2, <1>11, <2>1, <2>2, <2>3 DEF QuietParts
<1> QED
  BY <1>1, <1>4, <1>5, <1>6, <1>7, <1>8, <1>9, <1>10, <1>11, StepForms

\* The log of i from index n on.
LEMMA EntriesAre ==
  ASSUME NEW s \in Seq(Entry), NEW p \in 1 .. Len(s)
  PROVE  /\ Len(SubSeq(s, p + 1, Len(s))) \in Nat
         /\ p + Len(SubSeq(s, p + 1, Len(s))) = Len(s)
         /\ \A k \in 1 .. Len(SubSeq(s, p + 1, Len(s))) :
              SubSeq(s, p + 1, Len(s))[k] = s[p + k]
<1>1. Len(s) \in Nat
  BY LenProperties
<1> QED
  BY <1>1, SubSeqProperties

LEMMA SendBrings ==
  ASSUME TypeOK, NoSnapshots, NEW tl, NEW ak, TermLogs(tl), LeaderLogs(tl), CommitsOK(tl, ak),
         NEW g \in Goroutine, NEW i \in Server, NEW j \in Server, SendEntries(g, i, j)
  PROVE  /\ CallOK(tl, ak, call'[g])
         /\ \A h \in Goroutine \ {g} : call'[h] = call[h]
<1>1. PICK prev, T, s : prev = nextIndex[i][j] - 1 /\ T = currentTerm[i] /\ s = log[i]
  OBVIOUS
<1>2. PICK x : x = [kind |-> "append", caller |-> i, to |-> j, term |-> T,
                    prevLogIndex |-> prev, prevLogTerm |-> TermAt(i, prev),
                    entries |-> EntriesFrom(i, prev + 1),
                    leaderCommit |-> commitIndex[i]]
  OBVIOUS
<1>3. /\ call' = [call EXCEPT ![g] = x] /\ state[i] = "Leader"
      /\ prev \in snapshotIndex[i] .. LastIndex(i)
  BY <1>1, <1>2 DEF SendEntries
<1>4. call'[g] = x /\ \A h \in Goroutine \ {g} : call'[h] = call[h]
  BY <1>3 DEF TypeOK
<1>5. /\ s \in Seq(Entry) /\ Len(s) \in Nat \ {0} /\ LastIndex(i) = Len(s) - 1
      /\ snapshotIndex[i] = 0
  BY <1>1, PlainLog
<1>6. prev \in Nat /\ prev + 1 \in 1 .. Len(s)
  BY <1>3, <1>5
<1>7. x.prevLogTerm = s[prev + 1].term
  BY <1>1, <1>2, <1>6, PlainLog
<1>8. x.entries = SubSeq(s, (prev + 1) + 1, Len(s))
  <2>1. x.entries = EntriesFrom(i, prev + 1)
    BY <1>2
  <2>2. PICK n \in Nat : n = prev + 1
    BY <1>6
  <2>3. EntriesFrom(i, n) = SubSeq(log[i], n - snapshotIndex[i] + 1, Len(log[i]))
    BY DEF EntriesFrom
  <2>4. n - snapshotIndex[i] + 1 = n + 1
    BY <1>5
  <2> QED
    BY <1>1, <2>1, <2>2, <2>3, <2>4
<1>9. /\ Len(x.entries) \in Nat /\ (prev + 1) + Len(x.entries) = Len(s)
      /\ \A k \in 1 .. Len(x.entries) : x.entries[k] = s[(prev + 1) + k]
  <2>1. PICK p \in 1 .. Len(s) : p = prev + 1
    BY <1>6
  <2>2. x.entries = SubSeq(s, p + 1, Len(s))
    BY <1>8, <2>1
  <2>3. /\ Len(SubSeq(s, p + 1, Len(s))) \in Nat
        /\ p + Len(SubSeq(s, p + 1, Len(s))) = Len(s)
        /\ \A k \in 1 .. Len(SubSeq(s, p + 1, Len(s))) :
              SubSeq(s, p + 1, Len(s))[k] = s[p + k]
    BY <1>5, EntriesAre
  <2>4. /\ Len(x.entries) \in Nat /\ p + Len(x.entries) = Len(s)
        /\ \A k \in 1 .. Len(x.entries) : x.entries[k] = s[p + k]
    BY <2>2, <2>3
  <2> QED
    BY <2>1, <2>4
<1>10. tl[T] = s /\ x.term = T /\ x.prevLogIndex = prev /\ x.leaderCommit = commitIndex[i]
  BY <1>1, <1>2, <1>3 DEF LeaderLogs
<1>11. Brings(tl, x)
  <2>1. x.prevLogIndex + 1 + Len(x.entries) <= Len(tl[x.term])
    <3>1. Len(tl[x.term]) = Len(s) /\ x.prevLogIndex = prev
      BY <1>10
    <3>2. Len(s) \in Nat /\ (prev + 1) + Len(x.entries) <= Len(s)
      BY <1>5, <1>9
    <3> QED
      BY <3>1, <3>2
  <2>2. tl[x.term][x.prevLogIndex + 1].term = x.prevLogTerm
    BY <1>7, <1>10
  <2>3. \A k \in 1 .. Len(x.entries) :
          x.entries[k] = tl[x.term][x.prevLogIndex + 1 + k]
    BY <1>9, <1>10
  <2> QED
    BY <2>1, <2>2, <2>3 DEF Brings
<1>12. commitIndex[i] <= Match(x)
  <2>1. commitIndex[i] \in Nat /\ commitIndex[i] + 1 <= Len(s)
    BY <1>1 DEF TypeOK, CommitsOK
  <2>2. Match(x) = prev + Len(x.entries)
    BY <1>10 DEF Match
  <2> QED
    <3> HIDE DEF Match
    <3>1. PICK c, e, z : c = commitIndex[i] /\ e = Len(x.entries) /\ z = Len(s)
      OBVIOUS
    <3>2. c \in Nat /\ e \in Nat /\ z \in Nat /\ (prev + 1) + e = z /\ c + 1 <= z
      BY <1>5, <1>9, <2>1, <3>1
    <3>3. c <= prev + e
      BY <1>6, <3>2
    <3> QED
      BY <2>2, <3>1, <3>3
<1>13. CommittedTo(tl, ak, tl[x.term], x.leaderCommit, x.term)
  BY <1>1, <1>10 DEF CommitsOK
<1>14. x.kind = "append"
  BY <1>2
<1>15. CallOK(tl, ak, x)
  BY <1>10, <1>11, <1>12, <1>13, <1>14 DEF CallOK, RequestOK
<1> QED
  BY <1>4, <1>15

LEMMA CallStaysOK ==
  ASSUME TypeOK, NEW tl, NEW ak, CallsOK(tl, ak), NEW h \in Goroutine, CallStays(h)
  PROVE  CallOK(tl, ak, call'[h])
<1>1. CallOK(tl, ak, call[h]) /\ call[h] \in Call \cup {Nil}
  BY DEF CallsOK, TypeOK
<1>2. ASSUME NEW c, Harmless(c) PROVE CallOK(tl, ak, c)
  BY <1>2 DEF Harmless, CallOK, ReplyOK
<1> QED
  BY <1>1, <1>2, OrphanOK DEF CallStays

LEMMA QuietCalls ==
  ASSUME TypeOK, TypeOK', NoSnapshots, NoSnapshots', Compacting = {}, [Next]_vars,
         \A g \in Goroutine : ~AppendAccept(g),
         NEW tl, NEW ak, TermLogs(tl), LeaderLogs(tl), CommitsOK(tl, ak),
         CommitsOK(tl, ak)', CallsOK(tl, ak)
  PROVE  CallsOK(tl, ak)'
<1>1. ASSUME NEW g \in Goroutine, CallOK(tl, ak, call'[g]),
             \A h \in Goroutine \ {g} : call'[h] = call[h]
      PROVE  CallsOK(tl, ak)'
  BY <1>1 DEF CallsOK
<1>2. CASE \A h \in Goroutine : CallStays(h)
  BY <1>2, CallStaysOK DEF CallsOK
<1>3. ASSUME NEW g \in Goroutine, NEW i \in Server, NEW j \in Server, SendEntries(g, i, j)
      PROVE  CallsOK(tl, ak)'
  BY <1>1, <1>3, SendBrings
<1>4. \A i \in Server : CommitOK(tl, ak, i)'
  BY DEF CommitsOK, CommitOK
<1>5. ASSUME NEW g \in Goroutine, AppendSucceeded(g) PROVE CallsOK(tl, ak)'
  <2>1. PICK i : i = call[g].caller
    OBVIOUS
  <2>2. call[g] # Nil /\ call[g].kind = "appended" /\ UpdateCommitIndex(g, i)
    BY <1>5, <2>1 DEF AppendSucceeded
  <2>3. i \in Server
    BY <2>1, <2>2, RequestType DEF AppendReply
  <2>4. CASE call' = [call EXCEPT ![g] = Nil]
    <3>1. call'[g] = Nil /\ \A h \in Goroutine \ {g} : call'[h] = call[h]
      BY <2>4 DEF TypeOK
    <3> QED
      BY <1>1, <3>1 DEF CallOK
  <2>5. CASE ApplyLog(g, i, Nil)
    <3>1. /\ CallOK(tl, ak, call'[g])
          /\ \A h \in Goroutine \ {g} : call'[h] = call[h]
      BY <1>4, <2>3, <2>5, DeliveryOK
    <3> QED
      BY <1>1, <3>1
  <2> QED
    BY <2>2, <2>4, <2>5 DEF UpdateCommitIndex
<1>6. ASSUME NEW g \in Goroutine, Resume(g) PROVE CallsOK(tl, ak)'
  <2>1. PICK d : d = call[g]
    OBVIOUS
  <2>2. d # Nil /\ d.kind = "relock" /\ ApplyLog(g, d.at, d.then)
    BY <1>6, <2>1 DEF Resume
  <2>3. d.at \in Server /\ d.then \in AppendReply \cup {Nil}
    BY <2>1, <2>2, ThenType
  <2>4. d.then # Nil => ReplyOK(tl, ak, d.then)
    BY <2>1, <2>2 DEF CallsOK, CallOK
  <2>5. /\ CallOK(tl, ak, call'[g])
        /\ \A h \in Goroutine \ {g} : call'[h] = call[h]
    BY <1>4, <2>2, <2>3, <2>4, DeliveryOK
  <2> QED
    BY <1>1, <2>5
<1>7. ASSUME NEW g \in Goroutine, Deliver(g) PROVE CallsOK(tl, ak)'
  <2>1. PICK d, x : d = call[g] /\ x = [kind |-> "relock", at |-> d.at, then |-> d.then]
    OBVIOUS
  <2>2. d # Nil /\ d.kind = "send" /\ call' = [call EXCEPT ![g] = x]
    BY <1>7, <2>1 DEF Deliver
  <2>3. call'[g] = x /\ \A h \in Goroutine \ {g} : call'[h] = call[h]
    BY <2>2 DEF TypeOK
  <2>4. d.then # Nil => ReplyOK(tl, ak, d.then)
    BY <2>1, <2>2 DEF CallsOK, CallOK
  <2>5. CallOK(tl, ak, x)
    BY <2>1, <2>4 DEF CallOK
  <2> QED
    BY <1>1, <2>3, <2>5
<1> QED
  BY <1>2, <1>3, <1>5, <1>6, <1>7, CallForms

LEMMA AppliedGrows ==
  ASSUME NEW tl, NEW ak, AppliedOK(tl, ak), CallsOK(tl, ak),
         UNCHANGED applied \/ \E g \in Goroutine : Deliver(g)
  PROVE  AppliedOK(tl, ak)'
<1>1. CASE UNCHANGED applied
  BY <1>1 DEF AppliedOK
<1>2. ASSUME NEW g \in Goroutine, Deliver(g) PROVE AppliedOK(tl, ak)'
  <2>1. PICK d : d = call[g]
    OBVIOUS
  <2>2. d # Nil /\ d.kind = "send" /\ applied' = applied \cup {<<d.index, d.entry>>}
    BY <1>2, <2>1 DEF Deliver
  <2>3. ChosenEntry(tl, ak, d.index + 1, d.entry)
    BY <2>1, <2>2 DEF CallsOK, CallOK
  <2> QED
    BY <2>2, <2>3 DEF AppliedOK
<1> QED
  BY <1>1, <1>2

\* The steps that change no log, elect nobody and accept nothing: tl and ak
\* stay.
LEMMA QuietHolds ==
  ASSUME Known, Known', NoSnapshots, NoSnapshots', RunnersPositive, RolesMove,
         Compacting = {}, [Next]_vars, AnswersInTerm, UNCHANGED log,
         \A g \in Goroutine : ~AppendAccept(g),
         \A c \in voteCalls : VoteCounted(c) => UNCHANGED state,
         NEW tl, NEW ak, CommitInv(tl, ak)
  PROVE  CommitInv(tl, ak)'
<1>1. /\ TypeOK /\ TypeOK' /\ BallotsOnDisk
      /\ TermLogs(tl) /\ LeaderLogs(tl) /\ PeerLogs(tl) /\ LogsOK(tl)
      /\ ak \subseteq Votes /\ AcksOK(tl, ak) /\ MatchesOK(ak) /\ TermsSafe(tl, ak)
      /\ RunsOK(tl, ak) /\ CallsOK(tl, ak) /\ CommitsOK(tl, ak) /\ AppliedOK(tl, ak)
  BY DEF CommitInv, LogsOK, ChoiceOK, UseOK, Known, ElectionInv
<1>2. QuietParts
  BY QuietForms
<1>3. DisksGrow /\ \A k \in Server : SameLeader(k)
  BY <1>2 DEF QuietParts
<1>4. /\ LogsOK(tl)' /\ AcksOK(tl, ak)' /\ TermsSafe(tl, ak)'
      /\ Later(tl, ak, tl, ak) /\ LaterHere(ak, ak)
  BY <1>1, <1>3, QuietLogs
<1>5. MatchesOK(ak)'
  <2>1. CASE \A k \in Server : state'[k] = "Leader" => LeaderStays(k)
    <3>1. \A k \in Server : state'[k] = "Leader" => LeaderMatches(ak, k)'
      BY <1>1, <2>1, LeaderMatchesStay
    <3> QED
      BY <3>1, MatchesAre DEF MatchesOK, LeaderMatches
  <2>2. ASSUME NEW g \in Goroutine, AppendSucceeded(g) PROVE MatchesOK(ak)'
    BY <1>1, <2>2, SucceededMatches
  <2>3. ASSUME NEW g \in Goroutine, InstallDone(g) PROVE MatchesOK(ak)'
    BY <1>1, <2>3, InstallDoneMatches
  <2> QED
    BY <1>2, <2>1, <2>2, <2>3 DEF QuietParts
<1>6. RunsOK(tl, ak)'
  <2>1. CASE VotesStay
    BY <1>1, <1>4, <2>1, RunsStay
  <2>2. ASSUME NEW i \in Server, StartElection(i) PROVE RunsOK(tl, ak)'
    BY <1>1, <2>2, StartElectionRuns
  <2>3. ASSUME NEW c \in voteCalls, RequestVoteGrant(c) PROVE RunsOK(tl, ak)'
    BY <1>1, <2>3, GrantRuns
  <2> QED
    BY <1>2, <2>1, <2>2, <2>3 DEF QuietParts
<1>7. CommitsOK(tl, ak)'
  <2>1. ASSUME \A k \in Server :
                 \/ commitIndex'[k] = 0
                 \/ /\ commitIndex'[k] = commitIndex[k]
                    /\ currentTerm[k] <= currentTerm'[k]
        PROVE  CommitsOK(tl, ak)'
    <3>1. ASSUME NEW k \in Server PROVE CommitOK(tl, ak, k)'
      <4>1. CommitOK(tl, ak, k)
        BY <1>1 DEF CommitsOK, CommitOK
      <4>2. SameFront(log[k], log'[k], Len(log[k]))
        BY <1>1, PlainLog, FrontOfItself
      <4> QED
        BY <1>1, <1>4, <2>1, <4>1, <4>2, CommitStays
    <3> QED
      BY <3>1 DEF CommitsOK, CommitOK
  <2>2. ASSUME NEW g \in Goroutine, AppendSucceeded(g) PROVE CommitsOK(tl, ak)'
    BY <1>1, <1>5, <2>2, SucceededCommits
  <2> QED
    BY <1>2, <2>1, <2>2 DEF QuietParts
<1>8. CallsOK(tl, ak)'
  BY <1>1, <1>7, QuietCalls
<1>9. AppliedOK(tl, ak)'
  <2>1. UNCHANGED applied \/ \E g \in Goroutine : Deliver(g)
    BY <1>2 DEF QuietParts
  <2> QED
    BY <1>1, <2>1, AppliedGrows
<1> QED
  BY <1>1, <1>4, <1>5, <1>6, <1>7, <1>8, <1>9
  DEF CommitInv, LogsOK, ChoiceOK, UseOK, TermLogs

-----------------------------------------------------------------------------
(* The steps that change tl or ak *)

\* What follows from the growth of both alone.
LEMMA RestStays ==
  ASSUME TypeOK, TypeOK', NoSnapshots, NoSnapshots', BallotsOnDisk,
         NEW tl, NEW ak, NEW ul, NEW bk, Later(tl, ak, ul, bk), LaterHere(ak, bk),
         CommitInv(tl, ak), VotesStay, UNCHANGED applied
  PROVE  /\ RunsOK(ul, bk)' /\ AppliedOK(ul, bk)' /\ TermLogs(ul)' /\ bk \subseteq Votes
         /\ (\A t \in Nat : ul[t] # <<>> => tl[t] # <<>>) => TermsSafe(ul, bk)'
         /\ \A g \in Goroutine : call'[g] = call[g] => CallOK(ul, bk, call'[g])
<1>1. RunsOK(ul, bk)'
  BY RunsStay DEF CommitInv
<1>2. AppliedOK(ul, bk)'
  <2>1. ASSUME NEW a \in applied PROVE ChosenEntry(ul, bk, a[1] + 1, a[2])
    <3>1. a[1] + 1 \in Nat
      BY DEF TypeOK
    <3>2. ChosenEntry(tl, ak, a[1] + 1, a[2])
      BY DEF CommitInv, UseOK, AppliedOK
    <3> QED
      BY <3>1, <3>2, ChosenEntryStays
  <2> QED
    BY <2>1 DEF AppliedOK
<1>3. ASSUME \A t \in Nat : ul[t] # <<>> => tl[t] # <<>>
      PROVE  TermsSafe(ul, bk)'
  <2>1. TermsSafe(tl, ak)
    BY DEF CommitInv, ChoiceOK
  <2>2. ASSUME NEW t \in Nat, NEW T \in Nat, NEW x \in Pos, t < T, ul[T] # <<>>,
               Own(ul, t, x)
        PROVE  Has(ul[T], x, t) \/ Lost(bk, t, x)'
    <3>1. tl[T] # <<>>
      BY <1>3, <2>2
    <3> QED
      BY <2>1, <2>2, <3>1, SafeStays
  <2> QED
    BY <2>2 DEF TermsSafe, Has, Own
<1>4. TermLogs(ul)' /\ bk \subseteq Votes
  BY DEF Later, TermLogs
<1>5. ASSUME NEW g \in Goroutine, call'[g] = call[g] PROVE CallOK(ul, bk, call'[g])
  <2>1. call[g] \in Call \cup {Nil}
    BY DEF TypeOK
  <2>2. CallOK(tl, ak, call[g])
    BY DEF CommitInv, UseOK, CallsOK
  <2> QED
    BY <1>5, <2>1, <2>2, CallOKStays
<1> QED
  BY <1>1, <1>2, <1>3, <1>4, <1>5

\* The leader of a term puts an entry at the end of its log.
LEMMA StartLog ==
  ASSUME TypeOK, NEW i \in Server, NEW cmd \in Command, Start(i, cmd), TypeOK'
  PROVE  /\ \A k \in Server \ {i} : log'[k] = log[k]
         /\ log[i] \in Seq(Entry) /\ log'[i] \in Seq(Entry)
         /\ Len(log[i]) \in Nat \ {0} /\ Len(log'[i]) = Len(log[i]) + 1
         /\ SameFront(log[i], log'[i], Len(log[i]))
         /\ log'[i][Len(log[i]) + 1].term = currentTerm[i]
         /\ state[i] = "Leader" /\ disk'[i].term = currentTerm[i] /\ Persist(i)
         /\ UNCHANGED <<currentTerm, state, matchIndex, ballots, voteCalls,
                        commitIndex, applied, call>>
<1>1. PICK e : e = [term |-> currentTerm[i], command |-> cmd]
  OBVIOUS
<1>2. /\ log' = [log EXCEPT ![i] = Append(@, e)] /\ state[i] = "Leader" /\ Persist(i)
      /\ UNCHANGED <<currentTerm, state, matchIndex, ballots, voteCalls,
                     commitIndex, applied, call>>
  BY <1>1 DEF Start, serverVars, electionVars, leaderVars, applyVars, serviceVars
<1>3. log[i] \in Seq(Entry) /\ Len(log[i]) \in Nat \ {0}
  BY LogFacts
<1>4. log'[i] \in Seq(Entry)
  BY DEF TypeOK
<1>5. log'[i] = Append(log[i], e) /\ \A k \in Server \ {i} : log'[k] = log[k]
  BY <1>2 DEF TypeOK
<1>6. e \in Entry /\ e.term = currentTerm[i]
  BY <1>1 DEF TypeOK, Entry
<1>7. /\ Len(log'[i]) = Len(log[i]) + 1
      /\ \A x \in 1 .. Len(log[i]) : log'[i][x] = log[i][x]
      /\ log'[i][Len(log[i]) + 1] = e
  BY <1>3, <1>5, <1>6, AppendProperties
<1>8. SameFront(log[i], log'[i], Len(log[i]))
  BY <1>3, <1>7 DEF SameFront
<1>9. disk'[i].term = currentTerm[i]
  <2>1. disk'[i].term = currentTerm'[i]
    BY <1>2 DEF Persist, TypeOK
  <2> QED
    BY <1>2, <2>1
<1> QED
  BY <1>2, <1>3, <1>4, <1>5, <1>6, <1>7, <1>8, <1>9

LEMMA StartHolds ==
  ASSUME Known, Known', NoSnapshots, NoSnapshots', RolesMove, NEW i \in Server,
         NEW cmd \in Command, Start(i, cmd), NEW tl, NEW ak, CommitInv(tl, ak)
  PROVE  \E ul, bk : CommitInv(ul, bk)'
<1>1. /\ TypeOK /\ TypeOK' /\ BallotsOnDisk /\ DiskBehind /\ ElectionInv
      /\ TermLogs(tl) /\ TermsHeld(tl) /\ LeaderLogs(tl) /\ PeerLogs(tl)
      /\ ak \subseteq Votes /\ AcksOK(tl, ak) /\ MatchesOK(ak) /\ TermsSafe(tl, ak)
      /\ CommitsOK(tl, ak)
  BY DEF CommitInv, LogsOK, ChoiceOK, UseOK, Known, ElectionInv
<1>2. PICK T, s, r : T = currentTerm[i] /\ s = log[i] /\ r = log'[i]
  OBVIOUS
<1>3. /\ \A k \in Server \ {i} : log'[k] = log[k]
      /\ s \in Seq(Entry) /\ r \in Seq(Entry)
      /\ Len(s) \in Nat \ {0} /\ Len(r) = Len(s) + 1
      /\ SameFront(s, r, Len(s)) /\ r[Len(s) + 1].term = T
      /\ state[i] = "Leader" /\ disk'[i].term = T /\ Persist(i)
      /\ UNCHANGED <<currentTerm, state, matchIndex, ballots, voteCalls,
                     commitIndex, applied, call>>
  BY <1>1, <1>2, StartLog
<1>4. T \in Nat /\ tl[T] = s /\ disk[i].term <= T /\ Len(r) \in Pos
  BY <1>1, <1>2, <1>3, TermTypes DEF LeaderLogs, DiskBehind, Pos
<1>5. PICK ul, bk : ul = [tl EXCEPT ![T] = r] /\ bk = ak \cup {<<i, T, Len(r)>>}
  OBVIOUS
<1>6. TermLogs(ul) /\ Grows(tl, ul)
  <2>1. ASSUME NEW x \in 1 .. Len(r)
        PROVE  \/ r[x].term = T
               \/ r[x].term < T /\ SameFront(r, tl[r[x].term], x)
    <3>1. CASE x = Len(s) + 1
      BY <1>3, <3>1
    <3>2. CASE x # Len(s) + 1
      <4>1. x \in 1 .. Len(s) /\ x \in Nat /\ Len(s) \in Nat /\ Len(r) \in Nat
        BY <1>3, <3>2
      <4>2. r[x] = s[x]
        BY <1>3, <4>1 DEF SameFront
      <4>3. s[x].term <= T /\ s[x].term \in Nat
        BY <1>1, <1>3, <1>4, <4>1, EntriesOf DEF TermLogs
      <4>4. SameFront(s, tl[s[x].term], x)
        BY <1>1, <1>2, <4>1 DEF PeerLogs, Descends
      <4>5. SameFront(r, s, x)
        BY <1>3, <4>1, FrontShorter, FrontSwapped
      <4>6. SameFront(r, tl[s[x].term], x)
        BY <4>4, <4>5, FrontChained
      <4> QED
        BY <1>4, <4>2, <4>3, <4>6
    <3> QED
      BY <3>1, <3>2
  <2>2. SameFront(tl[T], r, Len(tl[T]))
    BY <1>3, <1>4
  <2> QED
    BY <1>1, <1>3, <1>4, <1>5, <2>1, <2>2, TermExtended
<1>7. /\ ul[T] = r /\ r # <<>> /\ \A t \in Nat : t # T => ul[t] = tl[t]
      /\ s # <<>> /\ \A t \in Nat : ul[t] # <<>> => tl[t] # <<>>
  <2>1. tl \in [Nat -> Seq(Entry)]
    BY <1>1 DEF TermLogs
  <2>2. s # <<>> /\ r # <<>>
    BY <1>1, <1>2 DEF TypeOK
  <2> QED
    BY <1>4, <1>5, <2>1, <2>2
<1>8. Later(tl, ak, ul, bk) /\ <<i, T, Len(r)>> \in Votes /\ bk \subseteq Votes
  <2>1. <<i, T, Len(r)>> \in Votes
    BY <1>4 DEF Votes
  <2> QED
    BY <1>1, <1>5, <1>6, <2>1 DEF Later
<1>9. DisksGrow
  <2>1. currentTerm[i] <= currentTerm'[i]
    BY <1>2, <1>3, <1>4
  <2> QED
    BY <1>1, <1>3, <2>1, SavedGrows
<1>10. LaterHere(ak, bk)
  BY <1>4, <1>5, <1>9 DEF LaterHere, DisksGrow
<1>11. VotesStay
  BY <1>3 DEF VotesStay, SameRequest
<1>12. /\ RunsOK(ul, bk)' /\ AppliedOK(ul, bk)' /\ TermsSafe(ul, bk)'
       /\ TermLogs(ul)'
       /\ \A g \in Goroutine : call'[g] = call[g] => CallOK(ul, bk, call'[g])
  BY <1>1, <1>3, <1>7, <1>8, <1>10, <1>11, RestStays
<1>13. \A j \in Server : SameFront(log[j], log'[j], Len(log[j]))
  BY <1>1, <1>2, <1>3, PlainLog, FrontOfItself
<1>14. TermsHeld(ul)'
  BY <1>1, <1>7, TermsHeldStay
<1>15. LeaderLogs(ul)'
  <2>1. ASSUME NEW k \in Server, state'[k] = "Leader"
        PROVE  ul[currentTerm'[k]] = log'[k]
    <3>1. CASE k = i
      BY <1>2, <1>3, <1>7, <3>1
    <3>2. CASE k # i
      <4>1. state[k] = "Leader" /\ currentTerm'[k] = currentTerm[k]
        BY <1>3, <2>1
      <4>2. currentTerm[k] # T /\ currentTerm[k] \in Nat
        BY <1>1, <1>2, <1>3, <3>2, <4>1, SafeElections, TermTypes DEF ElectionSafety
      <4> QED
        BY <1>1, <1>3, <1>7, <3>2, <4>1, <4>2 DEF LeaderLogs
    <3> QED
      BY <3>1, <3>2
  <2> QED
    BY <2>1 DEF LeaderLogs
<1>16. PeerLogs(ul)'
  <2>1. ASSUME NEW k \in Server \ {i}
        PROVE  /\ Descends(ul, log'[k])
               /\ \A x \in 1 .. Len(log'[k]) : log'[k][x].term <= disk'[k].term
    BY <1>1, <1>3, <1>8, <1>9, PeerStays
  <2>2. /\ Descends(ul, log'[i])
        /\ \A x \in 1 .. Len(log'[i]) : log'[i][x].term <= disk'[i].term
    BY <1>2, <1>3, <1>4, <1>6, <1>7 DEF TermLogs
  <2> QED
    BY <2>1, <2>2 DEF PeerLogs
<1>17. AcksOK(ul, bk)'
  <2>1. ASSUME NEW j \in Server, NEW t \in Nat, NEW x \in Pos, <<j, t, x>> \in bk
        PROVE  AckOK(ul, bk, j, t, x)'
    <3>1. CASE <<j, t, x>> \in ak
      <4>1. AckOK(tl, ak, j, t, x)
        BY <1>1, <3>1 DEF AcksOK
      <4> QED
        BY <1>1, <1>8, <1>10, <1>13, <4>1, AckStays
    <3>2. CASE <<j, t, x>> \notin ak
      <4>1. j = i /\ t = T /\ x = Len(r)
        BY <1>5, <2>1, <3>2
      <4>2. Has(r, Len(r), T)
        BY <1>3 DEF Has
      <4>3. SameFront(r, r, Len(r))
        BY <1>3, FrontOfItself
      <4> QED
        BY <1>2, <1>3, <1>4, <1>7, <4>1, <4>2, <4>3 DEF AckOK
    <3> QED
      BY <3>1, <3>2
  <2> QED
    BY <2>1 DEF AcksOK
<1>18. MatchesOK(bk)'
  <2>1. ASSUME NEW k \in Server, state'[k] = "Leader" PROVE LeaderMatches(bk, k)'
    <3>1. CASE k = i
      <4>1. Holds(ak, i, i, Len(s)) /\ \A j \in Server \ {i} : Holds(ak, i, j, matchIndex[i][j] + 1)
        BY <1>1, <1>2, <1>3 DEF MatchesOK
      <4>2. ASSUME NEW y \in 1 .. Len(s) PROVE y <= Len(r) /\ r[y] = s[y]
        BY <1>3 DEF SameFront
      <4>3. Holds(bk, i, i, Len(log[i]))'
        <5>1. ASSUME NEW y \in 1 .. Len(r), r[y].term = T
              PROVE  <<i, T, y>> \in bk
          <6>1. CASE y = Len(r)
            BY <1>5, <6>1
          <6>2. CASE y # Len(r)
            <7>1. y \in 1 .. Len(s)
              BY <1>3, <6>2
            <7> QED
              BY <1>2, <1>5, <4>1, <4>2, <5>1, <7>1 DEF Holds
          <6> QED
            BY <6>1, <6>2
        <5> QED
          BY <1>2, <1>3, <1>4, <5>1 DEF Holds, Pos
      <4>4. ASSUME NEW j \in Server \ {i} PROVE Holds(bk, i, j, matchIndex[i][j] + 1)'
        <5>1. PICK n : n = matchIndex[i][j] + 1
          OBVIOUS
        <5>2. n \in Nat /\ matchIndex'[i][j] + 1 = n
          <6>1. matchIndex' = matchIndex
            BY <1>3
          <6>2. matchIndex[i][j] \in Nat
            BY <1>1 DEF TypeOK
          <6> QED
            BY <5>1, <6>1, <6>2
        <5>3. n <= Len(s) /\ \A y \in 1 .. n : s[y].term = T => <<j, T, y>> \in ak
          BY <1>2, <4>1, <5>1 DEF Holds
        <5>4. ASSUME NEW y \in 1 .. n, r[y].term = T PROVE <<j, T, y>> \in bk
          <6>1. y \in 1 .. Len(s)
            BY <1>3, <5>2, <5>3
          <6> QED
            BY <1>5, <4>2, <5>3, <5>4, <6>1
        <5>5. n <= Len(r)
          BY <1>3, <5>2, <5>3
        <5> QED
          BY <1>2, <1>3, <5>2, <5>4, <5>5 DEF Holds
      <4> QED
        BY <3>1, <4>3, <4>4 DEF LeaderMatches
    <3>2. CASE k # i
      <4>1. LeaderStays(k)
        BY <1>3, <2>1, <3>2 DEF LeaderStays
      <4> QED
        BY <1>1, <1>5, <4>1, LeaderMatchesStay
    <3> QED
      BY <3>1, <3>2
  <2> QED
    BY <2>1 DEF MatchesOK, LeaderMatches
<1>19. CallsOK(ul, bk)'
  BY <1>3, <1>12 DEF CallsOK
<1>20. CommitsOK(ul, bk)'
  <2>1. ASSUME NEW k \in Server PROVE CommitOK(ul, bk, k)'
    <3>1. CommitOK(tl, ak, k)
      BY <1>1 DEF CommitsOK, CommitOK
    <3>2. commitIndex'[k] = commitIndex[k] /\ currentTerm[k] <= currentTerm'[k]
      BY <1>1, <1>3, TermTypes
    <3> QED
      BY <1>1, <1>8, <1>13, <3>1, <3>2, CommitStays
  <2> QED
    BY <2>1 DEF CommitsOK, CommitOK
<1>21. CommitInv(ul, bk)'
  BY <1>8, <1>12, <1>14, <1>15, <1>16, <1>17, <1>18, <1>19, <1>20
  DEF CommitInv, LogsOK, ChoiceOK, UseOK
<1> QED
  BY <1>21

\* Who has just become leader has the ballots of a majority.
LEMMA WinnersVoters ==
  ASSUME TypeOK', ElectionInv', NEW i \in Server, state'[i] = "Leader",
         NEW t \in Nat, currentTerm'[i] = t
  PROVE  /\ \E Q \in Quorum : \A j \in Q : <<j, t, i>> \in ballots'
         /\ Won(t)'
<1> DEFINE Voters == {j \in Server : <<j, t, i>> \in ballots'}
<1>1. /\ <<i, t, i>> \in ballots'
      /\ voteCount'[i] <= Cardinality(Counted(i, t)')
      /\ IsMajority(voteCount'[i])
  BY DEF ElectionInv, VotesCovered, IsMajority
<1>2. Counted(i, t)' \subseteq Voters
  BY DEF Counted
<1>3. IsFiniteSet(Voters) /\ Cardinality(Voters) \in Nat /\ Cardinality(Server) \in Nat
  BY VotersFinite
<1>4. voteCount'[i] \in Nat /\ Cardinality(Counted(i, t)') \in Nat
  BY CountedFinite DEF TypeOK
<1>5. IsMajority(Cardinality(Voters))
  <2> HIDE DEF Voters
  <2>1. Cardinality(Counted(i, t)') <= Cardinality(Voters)
    BY <1>2, <1>3, FS_Subset
  <2> QED
    BY <1>1, <1>3, <1>4, <2>1 DEF IsMajority
<1>6. Voters \in Quorum /\ \A j \in Voters : <<j, t, i>> \in ballots'
  BY <1>5 DEF Quorum
<1>7. Won(t)'
  BY <1>1, <1>5 DEF Won, IsMajority
<1> QED
  BY <1>6, <1>7

LEMMA WinForm ==
  ASSUME TypeOK, TypeOK', NoSnapshots, NEW c \in voteCalls, VoteCounted(c), state' # state
  PROVE  \E i \in Server :
           /\ state[i] = "Candidate" /\ state'[i] = "Leader"
           /\ \A k \in Server \ {i} : state'[k] = state[k] /\ matchIndex'[k] = matchIndex[k]
           /\ \A j \in Server : matchIndex'[i][j] = 0
           /\ UNCHANGED <<currentTerm, ballots, log, commitIndex, applied, disk, call>>
           /\ voteCalls' \subseteq voteCalls
<1>1. PICK i : i = c.candidate
  OBVIOUS
<1>2. i \in Server
  BY <1>1, VoteKinds DEF TypeOK
<1>3. /\ state[i] = "Candidate" /\ voteCalls' = voteCalls \ {c}
      /\ state' = [state EXCEPT ![i] = "Leader"]
      /\ matchIndex' = [matchIndex EXCEPT ![i] = [j \in Server |-> snapshotIndex[i]]]
      /\ UNCHANGED <<currentTerm, ballots, log, commitIndex, applied, disk, call>>
  BY <1>1 DEF VoteCounted, logVars, applyVars, serviceVars
<1>4. snapshotIndex[i] = 0
  BY <1>2 DEF NoSnapshots
<1>5. /\ state'[i] = "Leader"
      /\ \A k \in Server \ {i} : state'[k] = state[k] /\ matchIndex'[k] = matchIndex[k]
      /\ \A j \in Server : matchIndex'[i][j] = 0
  BY <1>2, <1>3, <1>4 DEF TypeOK
<1> QED
  BY <1>2, <1>3, <1>5

\* A candidate with a majority becomes leader: its log is that of its term, of
\* which there is no entry yet.
LEMMA WinHolds ==
  ASSUME Known, Known', NoSnapshots, NoSnapshots', RunnersPositive, RolesMove,
         NEW c \in voteCalls, VoteCounted(c), state' # state, NEW tl, NEW ak,
         CommitInv(tl, ak)
  PROVE  \E ul, bk : CommitInv(ul, bk)'
<1>1. /\ TypeOK /\ TypeOK' /\ BallotsOnDisk /\ DiskBehind /\ ElectionInv /\ ElectionInv'
      /\ TermLogs(tl) /\ TermsHeld(tl) /\ LeaderLogs(tl) /\ PeerLogs(tl)
      /\ ak \subseteq Votes /\ AcksOK(tl, ak) /\ MatchesOK(ak) /\ TermsSafe(tl, ak)
      /\ CommitsOK(tl, ak) /\ BallotsSafe(tl, ak)
  BY DEF CommitInv, LogsOK, ChoiceOK, RunsOK, UseOK, Known, ElectionInv
<1>2. PICK i \in Server :
        /\ state[i] = "Candidate" /\ state'[i] = "Leader"
        /\ \A k \in Server \ {i} : state'[k] = state[k] /\ matchIndex'[k] = matchIndex[k]
        /\ \A j \in Server : matchIndex'[i][j] = 0
        /\ UNCHANGED <<currentTerm, ballots, log, commitIndex, applied, disk, call>>
        /\ voteCalls' \subseteq voteCalls
  BY <1>1, WinForm
<1>3. PICK T, s : T = currentTerm[i] /\ s = log[i]
  OBVIOUS
<1>4. /\ s \in Seq(Entry) /\ Len(s) \in Nat \ {0} /\ s # <<>> /\ T \in Nat \ {0}
      /\ disk[i].term <= T /\ disk[i].term \in Nat
  <2>1. T \in Nat /\ T > 0
    BY <1>1, <1>2, <1>3, TermTypes DEF RunnersPositive
  <2>2. s \in Seq(Entry) /\ Len(s) \in Nat \ {0} /\ s # <<>>
    BY <1>1, <1>3, PlainLog DEF TypeOK
  <2> QED
    BY <1>1, <1>3, <2>1, <2>2, TermTypes DEF DiskBehind
<1>5. ~Won(T) /\ Won(T)' /\ \E Q \in Quorum : \A j \in Q : <<j, T, i>> \in ballots
  <2>1. currentTerm'[i] = T /\ ballots' = ballots
    BY <1>2, <1>3
  <2>2. ~Won(T)
    BY <1>1, <1>2, <1>3, <2>1, NotWonBefore
  <2>3. /\ \E Q \in Quorum : \A j \in Q : <<j, T, i>> \in ballots'
        /\ Won(T)'
    BY <1>1, <1>2, <1>4, <2>1, WinnersVoters
  <2> QED
    BY <2>1, <2>2, <2>3
<1>6. tl[T] = <<>>
  BY <1>1, <1>4, <1>5 DEF TermsHeld
<1>7. ASSUME NEW x \in 1 .. Len(s)
      PROVE  s[x].term < T /\ SameFront(s, tl[s[x].term], x)
  <2>1. SameFront(s, tl[s[x].term], x) /\ s[x].term <= disk[i].term
    BY <1>1, <1>3 DEF PeerLogs, Descends
  <2>2. s[x].term \in Nat
    BY <1>4, EntriesOf
  <2>3. s[x].term # T
    <3> SUFFICES ASSUME s[x].term = T PROVE FALSE
      OBVIOUS
    <3>1. SameFront(s, <<>>, x)
      BY <1>6, <2>1
    <3>2. x <= 0
      BY <3>1, LenProperties DEF SameFront
    <3> QED
      BY <3>2
  <2> QED
    BY <1>4, <2>1, <2>2, <2>3
<1>8. PICK ul : ul = [tl EXCEPT ![T] = s]
  OBVIOUS
<1>9. TermLogs(ul) /\ Grows(tl, ul)
  <2>1. Len(tl[T]) = 0
    BY <1>6
  <2>2. SameFront(tl[T], s, Len(tl[T]))
    BY <1>4, <2>1 DEF SameFront
  <2> QED
    BY <1>1, <1>4, <1>7, <1>8, <2>2, TermExtended
<1>10. ul[T] = s /\ \A t \in Nat : t # T => ul[t] = tl[t]
  <2>1. tl \in [Nat -> Seq(Entry)]
    BY <1>1 DEF TermLogs
  <2> QED
    BY <1>4, <1>8, <2>1
<1>11. Later(tl, ak, ul, ak)
  BY <1>1, <1>9 DEF Later
<1>12. DisksGrow /\ LaterHere(ak, ak)
  BY <1>1, <1>2, TermTypes DEF DisksGrow, LaterHere
<1>13. VotesStay
  <2>1. \A k \in Server : state'[k] = "Candidate" => k # i
    BY <1>2
  <2> QED
    BY <1>2, <2>1 DEF VotesStay, SameRequest
<1>14. /\ RunsOK(ul, ak)' /\ AppliedOK(ul, ak)' /\ TermLogs(ul)'
       /\ \A g \in Goroutine : call'[g] = call[g] => CallOK(ul, ak, call'[g])
  BY <1>1, <1>2, <1>11, <1>12, <1>13, RestStays
<1>15. \A j \in Server : SameFront(log[j], log'[j], Len(log[j]))
  BY <1>1, <1>2, PlainLog, FrontOfItself
<1>16. TermsHeld(ul)'
  <2>1. \A t \in Nat \ {0} : ul[t] # <<>> => tl[t] # <<>> \/ Won(t)'
    BY <1>5, <1>10
  <2> QED
    BY <1>1, <2>1, TermsHeldStay
<1>17. LeaderLogs(ul)'
  <2>1. ASSUME NEW k \in Server, state'[k] = "Leader"
        PROVE  ul[currentTerm'[k]] = log'[k]
    <3>1. CASE k = i
      BY <1>2, <1>3, <1>10, <3>1
    <3>2. CASE k # i
      <4>1. state[k] = "Leader" /\ currentTerm'[k] = currentTerm[k]
        BY <1>2, <2>1, <3>2
      <4>2. Won(currentTerm[k]) /\ currentTerm[k] \in Nat
        BY <1>1, <4>1, LeaderHasWon, TermTypes
      <4>3. currentTerm[k] # T
        BY <1>5, <4>2
      <4> QED
        BY <1>1, <1>2, <1>10, <4>1, <4>2, <4>3 DEF LeaderLogs
    <3> QED
      BY <3>1, <3>2
  <2> QED
    BY <2>1 DEF LeaderLogs
<1>18. PeerLogs(ul)'
  <2>1. ASSUME NEW k \in Server
        PROVE  /\ Descends(ul, log'[k])
               /\ \A x \in 1 .. Len(log'[k]) : log'[k][x].term <= disk'[k].term
    <3>1. log'[k] = log[k]
      BY <1>2
    <3> QED
      BY <1>1, <1>11, <1>12, <3>1, PeerStays
  <2> QED
    BY <2>1 DEF PeerLogs
<1>19. AcksOK(ul, ak)'
  <2>1. ASSUME NEW j \in Server, NEW t \in Nat, NEW x \in Pos, <<j, t, x>> \in ak
        PROVE  AckOK(ul, ak, j, t, x)'
    <3>1. AckOK(tl, ak, j, t, x)
      BY <1>1, <2>1 DEF AcksOK
    <3> QED
      BY <1>1, <1>11, <1>12, <1>15, <3>1, AckStays
  <2> QED
    BY <2>1 DEF AcksOK
<1>20. MatchesOK(ak)'
  <2>1. ASSUME NEW k \in Server, state'[k] = "Leader" PROVE LeaderMatches(ak, k)'
    <3>1. CASE k = i
      <4>1. ASSUME NEW j \in Server, NEW x, x <= Len(s), x \in Nat PROVE Holds(ak, i, j, x)'
        <5>1. ASSUME NEW y \in 1 .. x PROVE s[y].term # T
          <6>1. y \in 1 .. Len(s)
            BY <1>4, <4>1
          <6>2. s[y].term \in Nat /\ s[y].term < T
            BY <1>4, <1>7, <6>1, EntriesOf
          <6> QED
            BY <1>4, <6>2
        <5> QED
          BY <1>2, <1>3, <4>1, <5>1 DEF Holds
      <4>2. Holds(ak, i, i, Len(log[i]))'
        BY <1>2, <1>3, <1>4, <4>1
      <4>3. ASSUME NEW j \in Server PROVE Holds(ak, i, j, matchIndex[i][j] + 1)'
        <5>1. matchIndex'[i][j] + 1 = 1
          BY <1>2
        <5>2. Holds(ak, i, j, 1)'
          BY <1>4, <4>1
        <5> QED
          BY <5>1, <5>2
      <4> QED
        BY <3>1, <4>2, <4>3 DEF LeaderMatches
    <3>2. CASE k # i
      <4>1. LeaderStays(k)
        BY <1>2, <2>1, <3>2 DEF LeaderStays
      <4> QED
        BY <1>1, <4>1, LeaderMatchesStay
    <3> QED
      BY <3>1, <3>2
  <2> QED
    BY <2>1 DEF MatchesOK, LeaderMatches
<1>21. TermsSafe(ul, ak)'
  <2>1. ASSUME NEW t \in Nat, NEW U \in Nat, NEW x \in Pos, t < U, ul[U] # <<>>,
               Own(ul, t, x)
        PROVE  Has(ul[U], x, t) \/ Lost(ak, t, x)'
    <3>1. CASE U = T
      <4>1. PICK Q \in Quorum : \A j \in Q : <<j, T, i>> \in ballots
        BY <1>5
      <4>2. ASSUME NEW j \in Q, <<j, t, x>> \in ak
            PROVE  Has(s, x, t) \/ Lost(ak, t, x)
        <5>1. PICK b \in ballots : b = <<j, T, i>>
          BY <4>1
        <5>2. b[1] = j /\ b[2] = T /\ b[3] = i
          BY <5>1
        <5> QED
          BY <1>1, <1>2, <1>3, <2>1, <3>1, <4>2, <5>2 DEF BallotsSafe
      <4>3. CASE \A j \in Q : <<j, t, x>> \notin ak
        <5>1. ASSUME NEW j \in Q PROVE t < disk[j].term
          <6>1. PICK b \in ballots : b = <<j, T, i>>
            BY <4>1
          <6>2. T <= disk[j].term
            BY <1>1, <6>1 DEF BallotsOnDisk
          <6>3. disk[j].term \in Nat
            BY <1>1, TermTypes DEF Quorum
          <6> QED
            BY <1>4, <2>1, <3>1, <6>2, <6>3
        <5> QED
          BY <1>2, <4>3, <5>1 DEF Lost
      <4>4. Lost(ak, t, x) => Lost(ak, t, x)'
        BY <1>2 DEF Lost
      <4> QED
        BY <1>10, <3>1, <4>2, <4>3, <4>4
    <3>2. CASE U # T
      <4>1. tl[U] # <<>>
        BY <1>10, <2>1, <3>2
      <4> QED
        BY <1>1, <1>11, <1>12, <2>1, <4>1, SafeStays
    <3> QED
      BY <3>1, <3>2
  <2> QED
    BY <2>1 DEF TermsSafe, Has, Own
<1>22. CallsOK(ul, ak)'
  BY <1>2, <1>14 DEF CallsOK
<1>23. CommitsOK(ul, ak)'
  <2>1. ASSUME NEW k \in Server PROVE CommitOK(ul, ak, k)'
    <3>1. CommitOK(tl, ak, k)
      BY <1>1 DEF CommitsOK, CommitOK
    <3>2. commitIndex'[k] = commitIndex[k] /\ currentTerm[k] <= currentTerm'[k]
      BY <1>1, <1>2, TermTypes
    <3> QED
      BY <1>1, <1>11, <1>15, <3>1, <3>2, CommitStays
  <2> QED
    BY <2>1 DEF CommitsOK, CommitOK
<1>24. CommitInv(ul, ak)'
  BY <1>1, <1>14, <1>16, <1>17, <1>18, <1>19, <1>20, <1>21, <1>22, <1>23
  DEF CommitInv, LogsOK, ChoiceOK, UseOK
<1> QED
  BY <1>24

\* What a peer that accepts m does.
Accepts(g, m) ==
  LET i == m.to
      reply == Appended(m, m.term, TRUE, 0, 0)
  IN
  /\ m = call[g] /\ m.term >= currentTerm[i] /\ HasPrevious(i, m) /\ Merge(i, m)
  /\ currentTerm'[i] = m.term /\ state'[i] = "Follower"
  /\ \A k \in Server \ {i} : /\ state'[k] = state[k] /\ currentTerm'[k] = currentTerm[k]
                             /\ commitIndex'[k] = commitIndex[k]
  /\ Persist(i) \/ UNCHANGED disk
  /\ log' = log \/ disk'[i].term = m.term
  /\ \/ /\ m.leaderCommit > commitIndex[i]
        /\ commitIndex'[i] = Smaller(m.leaderCommit, Match(m))
        /\ ApplyLog(g, i, reply)
     \/ commitIndex'[i] = commitIndex[i] /\ call' = [call EXCEPT ![g] = reply]
  /\ UNCHANGED <<voteCalls, ballots, matchIndex, applied>>

LEMMA AcceptForm ==
  ASSUME TypeOK, NEW g \in Goroutine, AppendAccept(g)
  PROVE  \E m \in AppendRequest : Accepts(g, m)
<1>1. PICK m : m = call[g]
  OBVIOUS
<1>2. PICK i, reply : i = m.to /\ reply = Appended(m, m.term, TRUE, 0, 0)
  OBVIOUS
<1>3. m # Nil /\ m.kind = "append"
  BY <1>1 DEF AppendAccept
<1>4. m \in AppendRequest /\ i \in Server /\ m.term \in Nat
  BY <1>1, <1>2, <1>3, RequestType, RequestFields
<1>5. m.term >= currentTerm[i] /\ HasPrevious(i, m) /\ Merge(i, m)
  BY <1>1, <1>2 DEF AppendAccept
<1>6. /\ currentTerm' = [currentTerm EXCEPT ![i] = m.term]
      /\ state' = [state EXCEPT ![i] = "Follower"]
  BY <1>1, <1>2 DEF AppendAccept, AdoptLeader
<1>7. /\ currentTerm'[i] = m.term /\ state'[i] = "Follower"
      /\ \A k \in Server \ {i} : state'[k] = state[k] /\ currentTerm'[k] = currentTerm[k]
  BY <1>4, <1>6 DEF TypeOK
<1>8. /\ IF m.term > currentTerm[i] \/ log' # log THEN Persist(i) ELSE UNCHANGED disk
      /\ UNCHANGED <<voteCalls, ballots, matchIndex, applied>>
  BY <1>1, <1>2 DEF AppendAccept, electionVars, leaderVars, serviceVars
<1>9. Persist(i) => disk'[i].term = m.term
  BY <1>4, <1>7 DEF Persist, TypeOK
<1>10. \/ /\ m.leaderCommit > commitIndex[i]
          /\ commitIndex' = [commitIndex EXCEPT ![i] = Smaller(m.leaderCommit, Match(m))]
          /\ ApplyLog(g, i, reply)
       \/ commitIndex' = commitIndex /\ call' = [call EXCEPT ![g] = reply]
  BY <1>1, <1>2 DEF AppendAccept, CommitOf, Match, applyVars
<1>11. /\ \A k \in Server \ {i} : commitIndex'[k] = commitIndex[k]
       /\ \/ /\ m.leaderCommit > commitIndex[i]
             /\ commitIndex'[i] = Smaller(m.leaderCommit, Match(m))
             /\ ApplyLog(g, i, reply)
          \/ commitIndex'[i] = commitIndex[i] /\ call' = [call EXCEPT ![g] = reply]
  BY <1>4, <1>10 DEF TypeOK
<1>12. Accepts(g, m)
  BY <1>1, <1>2, <1>5, <1>7, <1>8, <1>9, <1>11 DEF Accepts
<1> QED
  BY <1>4, <1>12

\* The log of the peer afterwards.
LEMMA AcceptLog ==
  ASSUME TypeOK, TypeOK', NoSnapshots, DiskBehind, NEW tl, TermLogs(tl), PeerLogs(tl),
         NEW g \in Goroutine, NEW m \in AppendRequest, Accepts(g, m), Brings(tl, m)
  PROVE  /\ \A k \in Server \ {m.to} : log'[k] = log[k]
         /\ SameFront(log'[m.to], tl[m.term], Match(m) + 1)
         /\ \A x \in Nat : SameFront(log[m.to], tl[m.term], x)
                             => SameFront(log'[m.to], tl[m.term], x)
         /\ Match(m) + 1 \in 1 .. Len(tl[m.term]) /\ tl[m.term] # <<>>
         /\ disk[m.to].term <= m.term /\ DisksGrow
         /\ PeerLogs(tl)'
<1>1. PICK i, T : i = m.to /\ T = m.term
  OBVIOUS
<1>2. /\ i \in Server /\ T \in Nat /\ m.prevLogIndex \in Nat /\ Len(m.entries) \in Nat
      /\ Match(m) \in Nat
  BY <1>1, RequestFields, MatchType
<1>3. /\ T >= currentTerm[i] /\ HasPrevious(i, m) /\ Merge(i, m) /\ currentTerm'[i] = T
      /\ Persist(i) \/ UNCHANGED disk
      /\ log' = log \/ disk'[i].term = T
  BY <1>1 DEF Accepts
<1>4. Descends(tl, log[i])
  BY <1>2 DEF PeerLogs
<1>5. /\ \A k \in Server \ {i} : log'[k] = log[k]
      /\ SameFront(log'[i], tl[T], Match(m) + 1)
      /\ \A x \in Nat : SameFront(log[i], tl[T], x) => SameFront(log'[i], tl[T], x)
      /\ log' = log \/ Len(log'[i]) = Match(m) + 1
  BY <1>1, <1>2, <1>3, <1>4, MergeFollows
<1>6. Descends(tl, log'[i])
  BY <1>1, <1>2, <1>3, <1>4, MergeDescends
<1>7. tl[T] \in Seq(Entry) /\ Len(tl[T]) \in Nat
  BY <1>2, TermLogType
<1>8. Match(m) + 1 \in 1 .. Len(tl[T]) /\ tl[T] # <<>>
  <2>1. Match(m) + 1 <= Len(tl[T])
    BY <1>5 DEF SameFront
  <2>2. Match(m) + 1 \in 1 .. Len(tl[T])
    BY <1>2, <1>7, <2>1
  <2> QED
    BY <1>2, <1>7, <2>1, <2>2, NotEmpty
<1>9. disk[i].term <= T /\ disk[i].term \in Nat /\ currentTerm[i] \in Nat
  <2>1. disk[i].term \in Nat /\ currentTerm[i] \in Nat /\ disk[i].term <= currentTerm[i]
    BY <1>2, TermTypes DEF DiskBehind
  <2> QED
    BY <1>2, <1>3, <2>1
<1>10. DisksGrow
  BY <1>2, <1>3, <1>9, SavedGrows
<1>11. Later(tl, {}, tl, {})
  <2>1. {} \subseteq Votes
    OBVIOUS
  <2> QED
    BY <2>1, SameTerms
<1>12. PeerLogs(tl)'
  <2>1. ASSUME NEW k \in Server, log'[k] = log[k]
        PROVE  /\ Descends(tl, log'[k])
               /\ \A x \in 1 .. Len(log'[k]) : log'[k][x].term <= disk'[k].term
    BY <1>10, <1>11, <2>1, PeerStays
  <2>2. ASSUME log' # log
        PROVE  \A x \in 1 .. Len(log'[i]) : log'[i][x].term <= disk'[i].term
    <3>1. disk'[i].term = T /\ Len(log'[i]) = Match(m) + 1
      BY <1>3, <1>5, <2>2
    <3>2. ASSUME NEW x \in 1 .. Len(log'[i]) PROVE log'[i][x].term <= T
      <4>1. x \in 1 .. Match(m) + 1
        BY <3>1, <3>2
      <4>2. log'[i][x] = tl[T][x] /\ x \in 1 .. Len(tl[T])
        BY <1>2, <1>5, <1>7, <1>8, <4>1 DEF SameFront
      <4> QED
        BY <1>2, <4>2 DEF TermLogs
    <3> QED
      BY <3>1, <3>2
  <2> QED
    BY <1>5, <1>6, <2>1, <2>2 DEF PeerLogs
<1> QED
  BY <1>1, <1>5, <1>8, <1>9, <1>10, <1>12

\* What has been accepted once the peer has accepted m.
WithAccepted(tl, ak, m) ==
  ak \cup {<<m.to, m.term, x>> :
             x \in {y \in 1 .. Match(m) + 1 : tl[m.term][y].term = m.term}}

LEMMA AcceptLater ==
  ASSUME TypeOK, NEW tl, TermLogs(tl), NEW ak, ak \subseteq Votes,
         NEW m \in AppendRequest, disk[m.to].term <= m.term, DisksGrow
  PROVE  /\ Later(tl, ak, tl, WithAccepted(tl, ak, m))
         /\ LaterHere(ak, WithAccepted(tl, ak, m))
         /\ \A j, t, x : <<j, t, x>> \in WithAccepted(tl, ak, m) <=>
              \/ <<j, t, x>> \in ak
              \/ /\ j = m.to /\ t = m.term /\ x \in 1 .. Match(m) + 1
                 /\ tl[m.term][x].term = m.term
<1> DEFINE bk == WithAccepted(tl, ak, m)
<1>1. \A j, t, x : <<j, t, x>> \in bk <=>
        \/ <<j, t, x>> \in ak
        \/ /\ j = m.to /\ t = m.term /\ x \in 1 .. Match(m) + 1
           /\ tl[m.term][x].term = m.term
  BY DEF WithAccepted
<1>2. m.to \in Server /\ m.term \in Nat /\ Match(m) \in Nat
  BY RequestFields, MatchType
<1>3. ak \subseteq bk /\ bk \subseteq Votes
  BY <1>2 DEF WithAccepted, Votes, Pos
<1> HIDE DEF bk
<1>4. Later(tl, ak, tl, bk)
  BY <1>3, SameTerms
<1>5. LaterHere(ak, bk)
  BY <1>1 DEF LaterHere, DisksGrow
<1> QED
  BY <1>1, <1>4, <1>5 DEF bk

\* Peer i keeps what it had accepted: the log of the later leader has it too.
LEMMA AcceptKeepsAck ==
  ASSUME TypeOK, TypeOK', NoSnapshots, DiskBehind, NEW tl, NEW ak, TermLogs(tl),
         PeerLogs(tl), AcksOK(tl, ak), TermsSafe(tl, ak), NEW g \in Goroutine,
         NEW m \in AppendRequest, Accepts(g, m), Brings(tl, m), NEW bk, LaterHere(ak, bk),
         NEW t \in Nat, NEW x \in Pos, <<m.to, t, x>> \in ak
  PROVE  AckOK(tl, bk, m.to, t, x)'
<1>1. PICK i, T : i = m.to /\ T = m.term
  OBVIOUS
<1>2. i \in Server /\ T \in Nat
  BY <1>1, RequestFields
<1>3. /\ \A z \in Nat : SameFront(log[i], tl[T], z) => SameFront(log'[i], tl[T], z)
      /\ disk[i].term <= T /\ DisksGrow /\ tl[T] # <<>>
  BY <1>1, AcceptLog
<1>4. /\ Has(tl[t], x, t) /\ t <= disk[i].term
      /\ disk[i].term = t => SameFront(log[i], tl[t], x)
      /\ Has(log[i], x, t) \/ Lost(ak, t, x)
  BY <1>1, <1>2 DEF AcksOK, AckOK
<1>5. disk[i].term \in Nat /\ disk'[i].term \in Nat /\ disk[i].term <= disk'[i].term
  BY <1>2, <1>3, TermTypes DEF DisksGrow, TypeOK, Persisted
<1>6. t <= disk'[i].term /\ t <= T
  BY <1>2, <1>3, <1>4, <1>5
<1>7. x \in Nat
  BY DEF Pos
<1>8. t = T => SameFront(log'[i], tl[t], x)
  <2>1. t = T => disk[i].term = t
    BY <1>2, <1>3, <1>4, <1>5
  <2> QED
    BY <1>3, <1>4, <1>7, <2>1
<1>9. disk'[i].term = t => SameFront(log'[i], tl[t], x)
  <2>1. CASE log' = log
    <3>1. disk'[i].term = t => disk[i].term = t
      BY <1>4, <1>5
    <3> QED
      BY <1>4, <2>1, <3>1
  <2>2. CASE log' # log
    <3>1. disk'[i].term = T
      BY <1>1, <2>2 DEF Accepts
    <3> QED
      BY <1>8, <3>1
  <2> QED
    BY <2>1, <2>2
<1>10. Has(log'[i], x, t) \/ Lost(bk, t, x)'
  <2>1. Lost(ak, t, x) => Lost(bk, t, x)'
    BY LostStays
  <2>2. CASE t = T
    <3>1. SameFront(log'[i], tl[t], x)
      BY <1>8, <2>2
    <3> QED
      BY <1>4, <1>7, <3>1 DEF SameFront, Has
  <2>3. CASE t < T /\ Has(log[i], x, t)
    <3>1. Own(tl, t, x)
      BY <1>4 DEF Has, Own
    <3>2. Has(tl[T], x, t) \/ Lost(ak, t, x)
      BY <1>2, <1>3, <2>3, <3>1 DEF TermsSafe
    <3>3. CASE Has(tl[T], x, t)
      <4>1. Descends(tl, log[i]) /\ Descends(tl, tl[T])
        BY <1>2 DEF PeerLogs, TermLogs
      <4>2. SameFront(log[i], tl[T], x)
        BY <2>3, <3>3, <4>1, SameTermSameFront
      <4>3. SameFront(log'[i], tl[T], x)
        BY <1>3, <1>7, <4>2
      <4> QED
        BY <1>7, <3>3, <4>3 DEF SameFront, Has
    <3> QED
      BY <2>1, <3>2, <3>3
  <2> QED
    BY <1>2, <1>4, <1>6, <2>1, <2>2, <2>3
<1> QED
  BY <1>1, <1>4, <1>6, <1>9, <1>10 DEF AckOK

\* What it accepts now it has.
LEMMA AcceptAddsAck ==
  ASSUME TypeOK, TypeOK', NoSnapshots, DiskBehind, NEW tl, TermLogs(tl), PeerLogs(tl),
         NEW g \in Goroutine, NEW m \in AppendRequest, Accepts(g, m), Brings(tl, m),
         NEW bk, NEW x \in 1 .. Match(m) + 1, tl[m.term][x].term = m.term
  PROVE  AckOK(tl, bk, m.to, m.term, x)'
<1>1. PICK i, T : i = m.to /\ T = m.term
  OBVIOUS
<1>2. i \in Server /\ T \in Nat /\ Match(m) \in Nat /\ x \in Nat
  BY <1>1, RequestFields, MatchType
<1>3. /\ SameFront(log'[i], tl[T], Match(m) + 1) /\ PeerLogs(tl)'
      /\ Match(m) + 1 \in 1 .. Len(tl[T])
  BY <1>1, AcceptLog
<1>4. log'[i] \in Seq(Entry) /\ Len(log'[i]) \in Nat /\ Len(tl[T]) \in Nat
  BY <1>2, EntriesOf, TermLogType DEF TypeOK
<1>5. SameFront(log'[i], tl[T], x)
  BY <1>2, <1>3, <1>4, FrontShorter
<1>6. Has(tl[T], x, T) /\ Has(log'[i], x, T)
  BY <1>1, <1>2, <1>3, <1>4, <1>5 DEF Has, SameFront
<1>7. T <= disk'[i].term
  BY <1>2, <1>3, <1>6 DEF Has, PeerLogs
<1> QED
  BY <1>1, <1>5, <1>6, <1>7 DEF AckOK

\* The commitment of the peer goes with the log of the term of m.
LEMMA AcceptCommits ==
  ASSUME TypeOK, TypeOK', NoSnapshots, DiskBehind, NEW tl, NEW ak, TermLogs(tl),
         PeerLogs(tl), AcksOK(tl, ak), TermsSafe(tl, ak), NEW g \in Goroutine,
         NEW m \in AppendRequest, Accepts(g, m), RequestOK(tl, ak, m),
         CommitOK(tl, ak, m.to), NEW bk, Later(tl, ak, tl, bk)
  PROVE  CommitOK(tl, bk, m.to)'
<1>1. PICK i, T : i = m.to /\ T = m.term
  OBVIOUS
<1>2. i \in Server /\ T \in Nat /\ Match(m) \in Nat /\ m.leaderCommit \in Nat
  BY <1>1, RequestFields, MatchType
<1>3. Brings(tl, m) /\ m.leaderCommit <= Match(m)
      /\ CommittedTo(tl, ak, tl[T], m.leaderCommit, T)
  BY <1>1 DEF RequestOK
<1>4. /\ SameFront(log'[i], tl[T], Match(m) + 1)
      /\ \A z \in Nat : SameFront(log[i], tl[T], z) => SameFront(log'[i], tl[T], z)
      /\ tl[T] # <<>>
  BY <1>1, <1>3, AcceptLog
<1>5. /\ log'[i] \in Seq(Entry) /\ Len(log'[i]) \in Nat /\ Len(log'[i]) >= 1
      /\ Len(tl[T]) \in Nat
  <2>1. log'[i] \in Seq(Entry) /\ log'[i] # <<>>
    BY <1>2 DEF TypeOK
  <2> QED
    BY <1>2, <2>1, EntriesOf, TermLogType, EmptySeq, LenProperties
<1>6. currentTerm'[i] = T /\ currentTerm[i] <= T /\ currentTerm[i] \in Nat
  BY <1>1, <1>2, TermTypes DEF Accepts
\* What is committed of tl[T] is committed of the log.
<1>7. ASSUME NEW c \in Nat, c # 0, SameFront(log'[i], tl[T], c + 1),
             NEW t \in 0 .. T, NEW y \in Pos, y >= c + 1, Chosen(ak, t, y),
             SameFront(tl[T], tl[t], c + 1), commitIndex'[i] = c
      PROVE  CommitOK(tl, bk, i)'
  <2>1. SameFront(log'[i], tl[t], c + 1)
    BY <1>7, FrontChained
  <2>2. Chosen(bk, t, y)
    BY <1>7, ChosenStays DEF Later
  <2>3. CommittedTo(tl, bk, log'[i], c, T)
    BY <1>7, <2>1, <2>2 DEF CommittedTo
  <2>4. c + 1 <= Len(log'[i])
    BY <2>1 DEF SameFront
  <2> QED
    BY <1>6, <1>7, <2>3, <2>4 DEF CommitOK
<1>8. commitIndex'[i] = 0 => CommitOK(tl, bk, i)'
  BY <1>5 DEF CommitOK, CommittedTo
<1>9. ASSUME commitIndex'[i] = commitIndex[i]
      PROVE  CommitOK(tl, bk, i)'
  <2>1. PICK c : c = commitIndex[i]
    OBVIOUS
  <2>2. c \in Nat /\ commitIndex'[i] = c
    BY <1>2, <1>9, <2>1 DEF TypeOK
  <2>3. CASE c # 0
    <3>1. CommittedTo(tl, ak, log[i], c, currentTerm[i])
      BY <1>1, <2>1 DEF CommitOK
    <3>2. PICK t \in 0 .. currentTerm[i], y \in Pos :
            y >= c + 1 /\ Chosen(ak, t, y) /\ SameFront(log[i], tl[t], c + 1)
      BY <2>3, <3>1 DEF CommittedTo
    <3>3. t \in Nat /\ t <= T /\ t \in 0 .. T /\ y \in Nat /\ c + 1 \in Nat
      BY <1>2, <1>6, <2>2, <3>2 DEF Pos
    <3>4. SameFront(tl[t], tl[T], y)
      BY <1>2, <1>4, <3>2, <3>3, ChosenInLater
    <3>5. Len(tl[t]) \in Nat
      BY <3>3, TermLogType
    <3>6. SameFront(tl[t], tl[T], c + 1)
      BY <1>5, <3>2, <3>3, <3>4, <3>5, FrontShorter
    <3>7. SameFront(log[i], tl[T], c + 1)
      BY <3>2, <3>6, FrontChained
    <3>8. SameFront(log'[i], tl[T], c + 1)
      BY <1>4, <3>3, <3>7
    <3>9. SameFront(tl[T], tl[t], c + 1)
      BY <3>6, FrontSwapped
    <3> QED
      BY <1>7, <2>2, <2>3, <3>2, <3>3, <3>8, <3>9
  <2> QED
    BY <1>8, <2>2, <2>3
<1>10. ASSUME commitIndex'[i] = Smaller(m.leaderCommit, Match(m))
       PROVE  CommitOK(tl, bk, i)'
  <2>1. PICK c : c = m.leaderCommit
    OBVIOUS
  <2>2. c \in Nat /\ c <= Match(m) /\ commitIndex'[i] = c
    <3>1. Smaller(m.leaderCommit, Match(m)) = m.leaderCommit
      BY <1>2, <1>3 DEF Smaller
    <3> QED
      BY <1>2, <1>3, <1>10, <2>1, <3>1
  <2>3. CASE c # 0
    <3>1. CommittedTo(tl, ak, tl[T], c, T)
      BY <1>3, <2>1
    <3>2. PICK t \in 0 .. T, y \in Pos :
            y >= c + 1 /\ Chosen(ak, t, y) /\ SameFront(tl[T], tl[t], c + 1)
      BY <2>3, <3>1 DEF CommittedTo
    <3>3. Match(m) + 1 \in Nat /\ c + 1 \in Nat /\ c + 1 <= Match(m) + 1
      BY <1>2, <2>2
    <3>4. SameFront(log'[i], tl[T], c + 1)
      BY <1>4, <1>5, <3>3, FrontShorter
    <3> QED
      BY <1>7, <2>2, <2>3, <3>2, <3>4
  <2> QED
    BY <1>8, <2>2, <2>3
<1> QED
  BY <1>1, <1>9, <1>10 DEF Accepts, CommitOK

\* The answer says what has been accepted.
LEMMA AcceptAnswer ==
  ASSUME NEW tl, NEW ak, TermLogs(tl), NEW m \in AppendRequest,
         Match(m) + 1 \in 1 .. Len(tl[m.term]), NEW bk,
         \A x \in 1 .. Match(m) + 1 :
           tl[m.term][x].term = m.term => <<m.to, m.term, x>> \in bk
  PROVE  LET r == Appended(m, m.term, TRUE, 0, 0)
         IN r \in AppendReply \cup {Nil} /\ (r # Nil => ReplyOK(tl, bk, r) /\ r.kind = "appended")
<1>1. m.caller # Nil => m.caller \in Server
  BY RequestFields
<1>2. m.to \in Server /\ m.term \in Nat /\ Match(m) \in Nat /\ Len(tl[m.term]) \in Nat
  BY RequestFields, MatchType, TermLogType
<1>3. PICK n, T : n = Match(m) /\ T = m.term
  OBVIOUS
<1>4. CASE m.caller = Nil
  BY <1>4 DEF Appended
<1>5. CASE m.caller # Nil
  <2>1. PICK r : r = [kind |-> "appended", caller |-> m.caller, to |-> m.to,
                      match |-> n, term |-> T, success |-> TRUE,
                      conflictIndex |-> 0, conflictTerm |-> 0]
    OBVIOUS
  <2>2. r = Appended(m, m.term, TRUE, 0, 0)
    BY <1>3, <1>5, <2>1 DEF Appended
  <2>3. r \in AppendReply
    BY <1>1, <1>2, <1>3, <1>5, <2>1 DEF AppendReply
  <2>4. /\ r.match = n /\ r.term = T /\ r.to = m.to /\ r.kind = "appended"
    BY <2>1
  <2>5. n + 1 <= Len(tl[T])
    BY <1>2, <1>3
  <2>6. ReplyOK(tl, bk, r)
    BY <1>3, <2>4, <2>5 DEF ReplyOK
  <2> QED
    BY <2>2, <2>3, <2>4, <2>6
<1> QED
  BY <1>4, <1>5

LEMMA AcceptCallsOK ==
  ASSUME TypeOK, TypeOK', NoSnapshots', NEW tl, NEW bk, TermLogs(tl), NEW g \in Goroutine,
         NEW m \in AppendRequest, Accepts(g, m), CommitOK(tl, bk, m.to)',
         Match(m) + 1 \in 1 .. Len(tl[m.term]),
         \A x \in 1 .. Match(m) + 1 :
           tl[m.term][x].term = m.term => <<m.to, m.term, x>> \in bk,
         \A h \in Goroutine : call'[h] = call[h] => CallOK(tl, bk, call'[h])
  PROVE  CallsOK(tl, bk)'
<1>1. PICK i, r : i = m.to /\ r = Appended(m, m.term, TRUE, 0, 0)
  OBVIOUS
<1>2. i \in Server
  BY <1>1, RequestFields
<1>3. /\ r \in AppendReply \cup {Nil}
      /\ r # Nil => ReplyOK(tl, bk, r) /\ r.kind = "appended"
  BY <1>1, AcceptAnswer
<1>4. ApplyLog(g, i, r) \/ call' = [call EXCEPT ![g] = r]
  BY <1>1 DEF Accepts
<1>5. CommitOK(tl, bk, i)'
  BY <1>1 DEF CommitOK
<1>6. CallOK(tl, bk, call'[g]) /\ \A h \in Goroutine \ {g} : call'[h] = call[h]
  <2>1. CASE ApplyLog(g, i, r)
    BY <1>2, <1>3, <1>5, <2>1, DeliveryOK
  <2>2. CASE call' = [call EXCEPT ![g] = r]
    <3>1. call'[g] = r /\ \A h \in Goroutine \ {g} : call'[h] = call[h]
      BY <2>2 DEF TypeOK
    <3>2. CallOK(tl, bk, r)
      BY <1>3 DEF CallOK
    <3> QED
      BY <3>1, <3>2
  <2> QED
    BY <1>4, <2>1, <2>2
<1> QED
  BY <1>6 DEF CallsOK

LEMMA AcceptHolds ==
  ASSUME Known, Known', NoSnapshots, NoSnapshots', RolesMove, NEW g \in Goroutine,
         AppendAccept(g), NEW tl, NEW ak, CommitInv(tl, ak)
  PROVE  \E ul, bk : CommitInv(ul, bk)'
<1>1. /\ TypeOK /\ TypeOK' /\ BallotsOnDisk /\ DiskBehind /\ ElectionInv
      /\ TermLogs(tl) /\ TermsHeld(tl) /\ LeaderLogs(tl) /\ PeerLogs(tl)
      /\ ak \subseteq Votes /\ AcksOK(tl, ak) /\ MatchesOK(ak) /\ TermsSafe(tl, ak)
      /\ CommitsOK(tl, ak) /\ CallsOK(tl, ak)
  BY DEF CommitInv, LogsOK, ChoiceOK, UseOK, Known, ElectionInv
<1>2. PICK m \in AppendRequest : Accepts(g, m)
  BY <1>1, AcceptForm
<1>3. PICK i, T : i = m.to /\ T = m.term
  OBVIOUS
<1>4. i \in Server /\ T \in Nat /\ Match(m) \in Nat
  BY <1>3, RequestFields, MatchType
<1>5. /\ currentTerm[i] <= T /\ currentTerm'[i] = T /\ state'[i] = "Follower"
      /\ \A k \in Server \ {i} : /\ state'[k] = state[k] /\ currentTerm'[k] = currentTerm[k]
                                 /\ commitIndex'[k] = commitIndex[k]
      /\ UNCHANGED <<voteCalls, ballots, matchIndex, applied>>
  BY <1>1, <1>2, <1>3, <1>4, TermTypes DEF Accepts
<1>6. RequestOK(tl, ak, m) /\ Brings(tl, m)
  <2>1. call[g] = m /\ m # Nil /\ m.kind = "append"
    BY <1>2 DEF Accepts, AppendAccept
  <2>2. CallOK(tl, ak, m)
    BY <1>1, <2>1 DEF CallsOK
  <2> QED
    BY <2>1, <2>2 DEF CallOK, RequestOK
<1>7. /\ \A k \in Server \ {i} : log'[k] = log[k]
      /\ Match(m) + 1 \in 1 .. Len(tl[T]) /\ tl[T] # <<>>
      /\ disk[i].term <= T /\ DisksGrow /\ PeerLogs(tl)'
  BY <1>1, <1>2, <1>3, <1>6, AcceptLog
<1>8. PICK bk : bk = WithAccepted(tl, ak, m)
  OBVIOUS
<1>9. /\ Later(tl, ak, tl, bk) /\ LaterHere(ak, bk)
      /\ \A j, t, x : <<j, t, x>> \in bk <=>
           \/ <<j, t, x>> \in ak
           \/ /\ j = i /\ t = T /\ x \in 1 .. Match(m) + 1 /\ tl[T][x].term = T
  <2>1. disk[m.to].term <= m.term /\ DisksGrow
    BY <1>3, <1>7
  <2>2. /\ Later(tl, ak, tl, WithAccepted(tl, ak, m))
        /\ LaterHere(ak, WithAccepted(tl, ak, m))
        /\ \A j, t, x : <<j, t, x>> \in WithAccepted(tl, ak, m) <=>
             \/ <<j, t, x>> \in ak
             \/ /\ j = m.to /\ t = m.term /\ x \in 1 .. Match(m) + 1
                /\ tl[m.term][x].term = m.term
    BY <1>1, <2>1, AcceptLater
  <2> QED
    BY <1>3, <1>8, <2>2
<1>10. VotesStay
  <2>1. \A k \in Server : state'[k] = "Candidate" => k # i
    BY <1>5
  <2> QED
    BY <1>5, <1>7, <2>1 DEF VotesStay, SameRequest
<1>11. /\ RunsOK(tl, bk)' /\ AppliedOK(tl, bk)' /\ TermLogs(tl)' /\ bk \subseteq Votes
       /\ TermsSafe(tl, bk)'
       /\ \A h \in Goroutine : call'[h] = call[h] => CallOK(tl, bk, call'[h])
  BY <1>1, <1>5, <1>9, <1>10, RestStays
<1>12. TermsHeld(tl)'
  BY <1>1, TermsHeldStay
<1>13. LeaderLogs(tl)'
  <2>1. ASSUME NEW k \in Server, state'[k] = "Leader"
        PROVE  tl[currentTerm'[k]] = log'[k]
    <3>1. k # i
      BY <1>5, <2>1
    <3> QED
      BY <1>1, <1>5, <1>7, <2>1, <3>1 DEF LeaderLogs
  <2> QED
    BY <2>1 DEF LeaderLogs
<1>14. AcksOK(tl, bk)'
  <2>1. ASSUME NEW j \in Server, NEW t \in Nat, NEW x \in Pos, <<j, t, x>> \in bk
        PROVE  AckOK(tl, bk, j, t, x)'
    <3>1. CASE <<j, t, x>> \in ak /\ j # i
      <4>1. AckOK(tl, ak, j, t, x)
        BY <1>1, <3>1 DEF AcksOK
      <4>2. SameFront(log[j], log'[j], Len(log[j]))
        BY <1>1, <1>7, <3>1, PlainLog, FrontOfItself
      <4> QED
        BY <1>1, <1>9, <4>1, <4>2, AckStays
    <3>2. CASE <<j, t, x>> \in ak /\ j = i
      <4>1. AckOK(tl, bk, m.to, t, x)'
        BY <1>1, <1>2, <1>3, <1>6, <1>9, <3>2, AcceptKeepsAck
      <4> QED
        BY <1>3, <3>2, <4>1 DEF AckOK
    <3>3. CASE <<j, t, x>> \notin ak
      <4>1. j = i /\ t = T /\ x \in 1 .. Match(m) + 1 /\ tl[T][x].term = T
        BY <1>9, <2>1, <3>3
      <4>2. AckOK(tl, bk, m.to, m.term, x)'
        BY <1>1, <1>2, <1>3, <1>6, <4>1, AcceptAddsAck
      <4> QED
        BY <1>3, <4>1, <4>2 DEF AckOK
    <3> QED
      BY <3>1, <3>2, <3>3
  <2> QED
    BY <2>1 DEF AcksOK
<1>15. MatchesOK(bk)'
  <2>1. ASSUME NEW k \in Server, state'[k] = "Leader" PROVE LeaderMatches(bk, k)'
    <3>1. k # i
      BY <1>5, <2>1
    <3>2. LeaderStays(k)
      BY <1>5, <1>7, <2>1, <3>1 DEF LeaderStays
    <3>3. ak \subseteq bk
      BY <1>9 DEF Later
    <3> QED
      BY <1>1, <3>2, <3>3, LeaderMatchesStay
  <2> QED
    BY <2>1 DEF MatchesOK, LeaderMatches
<1>16. \A k \in Server : CommitOK(tl, ak, k)
  BY <1>1 DEF CommitsOK, CommitOK
<1>17. CommitOK(tl, bk, m.to)'
  BY <1>1, <1>2, <1>3, <1>4, <1>6, <1>9, <1>16, AcceptCommits
<1>18. CommitsOK(tl, bk)'
  <2>1. ASSUME NEW k \in Server \ {i} PROVE CommitOK(tl, bk, k)'
    <3>1. SameFront(log[k], log'[k], Len(log[k]))
      BY <1>1, <1>7, PlainLog, FrontOfItself
    <3>2. currentTerm[k] <= currentTerm'[k]
      BY <1>1, <1>5, TermTypes
    <3> QED
      BY <1>1, <1>5, <1>9, <1>16, <3>1, <3>2, CommitStays
  <2> QED
    BY <1>3, <1>17, <2>1 DEF CommitsOK, CommitOK
<1>19. CallsOK(tl, bk)'
  BY <1>1, <1>2, <1>3, <1>7, <1>9, <1>11, <1>17, AcceptCallsOK
<1>20. CommitInv(tl, bk)'
  BY <1>7, <1>11, <1>12, <1>13, <1>14, <1>15, <1>18, <1>19
  DEF CommitInv, LogsOK, ChoiceOK, UseOK
<1> QED
  BY <1>20

-----------------------------------------------------------------------------
(* The invariant holds *)

CommitSafe == \E tl, ak : CommitInv(tl, ak)

LEMMA CommitInit ==
  ASSUME Init
  PROVE  CommitSafe
<1>1. PICK tl, ak : /\ tl = [t \in Nat |-> IF t = 0 THEN <<NoEntry(0)>> ELSE <<>>]
                    /\ ak = {}
  OBVIOUS
<1>2. PICK z : z = <<NoEntry(0)>>
  OBVIOUS
<1>3. NoEntry(0) \in Entry /\ NoEntry(0).term = 0
  BY DEF NoEntry, Entry
<1>4. /\ z \in Seq(Entry) /\ Len(z) = 1 /\ z[1].term = 0
      /\ <<>> \in Seq(Entry) /\ Len(<<>>) = 0
  BY <1>2, <1>3
<1>5. /\ tl[0] = z /\ \A t \in Nat \ {0} : tl[t] = <<>>
      /\ tl \in [Nat -> Seq(Entry)]
  BY <1>1, <1>2, <1>4
<1>6. Descends(tl, z) /\ \A x \in 1 .. Len(z) : z[x].term = 0
  <2>1. ASSUME NEW x \in 1 .. Len(z)
        PROVE  z[x].term = 0 /\ SameFront(z, tl[z[x].term], x)
    <3>1. x = 1
      BY <1>4, <2>1
    <3>2. z[x].term = 0 /\ tl[z[x].term] = z
      BY <1>4, <1>5, <3>1
    <3>3. SameFront(z, z, x)
      BY <1>4, <3>1 DEF SameFront
    <3> QED
      BY <3>2, <3>3
  <2> QED
    BY <2>1 DEF Descends
<1>7. TermLogs(tl)
  <2>1. ASSUME NEW t \in Nat
        PROVE  Descends(tl, tl[t]) /\ \A x \in 1 .. Len(tl[t]) : tl[t][x].term <= t
    <3>1. CASE t = 0
      BY <1>5, <1>6, <3>1
    <3>2. CASE t # 0
      <4>1. tl[t] = <<>>
        BY <1>5, <3>2
      <4> QED
        BY <1>4, <4>1 DEF Descends
    <3> QED
      BY <3>1, <3>2
  <2> QED
    BY <1>5, <2>1 DEF TermLogs
<1>8. /\ \A i \in Server : /\ state[i] = "Follower" /\ log[i] = z
                           /\ commitIndex[i] = 0 /\ disk[i].term = 0
      /\ voteCalls = {} /\ ballots = {} /\ applied = {}
      /\ \A g \in Goroutine : call[g] = Nil
  BY <1>2 DEF Init
<1>9. LogsOK(tl)
  <2>1. TermsHeld(tl)
    BY <1>5 DEF TermsHeld
  <2>2. LeaderLogs(tl)
    BY <1>8 DEF LeaderLogs
  <2>3. PeerLogs(tl)
    BY <1>6, <1>8 DEF PeerLogs
  <2> QED
    BY <1>7, <2>1, <2>2, <2>3 DEF LogsOK
<1>10. ChoiceOK(tl, ak)
  BY <1>1, <1>5, <1>8 DEF ChoiceOK, AcksOK, MatchesOK, TermsSafe
<1>11. RunsOK(tl, ak)
  BY <1>8 DEF RunsOK, RequestsOK, BallotsHonest, BallotsSafe
<1>12. UseOK(tl, ak)
  <2>1. CallsOK(tl, ak) /\ AppliedOK(tl, ak)
    BY <1>8 DEF CallsOK, CallOK, AppliedOK
  <2>2. ASSUME NEW i \in Server
        PROVE  /\ commitIndex[i] + 1 <= Len(log[i])
               /\ CommittedTo(tl, ak, log[i], commitIndex[i], currentTerm[i])
    <3>1. commitIndex[i] = 0 /\ log[i] = z
      BY <1>8
    <3>2. CommittedTo(tl, ak, log[i], commitIndex[i], currentTerm[i])
      BY <3>1 DEF CommittedTo
    <3>3. commitIndex[i] + 1 <= Len(log[i])
      <4>1. Len(log[i]) = 1
        BY <1>4, <3>1
      <4>2. commitIndex[i] + 1 = 1
        BY <3>1
      <4> QED
        BY <4>1, <4>2
    <3> QED
      BY <3>2, <3>3
  <2>3. CommitsOK(tl, ak)
    BY <2>2 DEF CommitsOK
  <2> QED
    BY <2>1, <2>3 DEF UseOK
<1> QED
  BY <1>9, <1>10, <1>11, <1>12 DEF CommitSafe, CommitInv

LEMMA CommitStep ==
  ASSUME Known, Known', LogInv, LogInv', Compacting = {}, [Next]_vars, AnswersInTerm,
         CommitSafe
  PROVE  CommitSafe'
<1>1. PICK tl, ak : CommitInv(tl, ak)
  BY DEF CommitSafe
<1>2. TypeOK /\ NoSnapshots /\ NoSnapshots' /\ RunnersPositive /\ RolesMove /\ LogOnDisk
  BY RolesStep DEF Known, LogInv
<1>3. ASSUME NEW g \in Goroutine, AppendAccept(g) PROVE CommitSafe'
  BY <1>1, <1>2, <1>3, AcceptHolds DEF CommitSafe
<1>4. ASSUME NEW i \in Server, NEW cmd \in Command, Start(i, cmd) PROVE CommitSafe'
  BY <1>1, <1>2, <1>4, StartHolds DEF CommitSafe
<1>5. ASSUME NEW c \in voteCalls, VoteCounted(c), state' # state PROVE CommitSafe'
  BY <1>1, <1>2, <1>5, WinHolds DEF CommitSafe
<1>6. ASSUME \A g \in Goroutine : ~AppendAccept(g),
             \A i \in Server, cmd \in Command : ~Start(i, cmd),
             \A c \in voteCalls : VoteCounted(c) => UNCHANGED state
      PROVE  CommitSafe'
  <2>1. UNCHANGED log
    BY <1>2, <1>6, StepKinds DEF MakesNoPiece, SendEntries, logVars
  <2>2. CommitInv(tl, ak)'
    BY <1>1, <1>2, <1>6, <2>1, QuietHolds
  <2> QED
    BY <2>2 DEF CommitSafe
<1> QED
  BY <1>3, <1>4, <1>5, <1>6

\* A step in which nothing happens uses no answer.
LEMMA StutterInTerm ==
  ASSUME TypeOK, UNCHANGED vars
  PROVE  AnswersInTerm
<1> SUFFICES ASSUME NEW g \in Goroutine, AppendSucceeded(g) PROVE FALSE
  BY DEF AnswersInTerm
<1>1. PICK i : i = call[g].caller
  OBVIOUS
<1>2. call[g] # Nil /\ call[g].kind = "appended" /\ UpdateCommitIndex(g, i)
  BY <1>1 DEF AppendSucceeded
<1>3. call'[g] = call[g]
  BY DEF vars
<1>4. CASE call' = [call EXCEPT ![g] = Nil]
  BY <1>2, <1>3, <1>4 DEF TypeOK
<1>5. CASE ApplyLog(g, i, Nil)
  <2>1. \/ \E x : x.kind = "send" /\ call' = [call EXCEPT ![g] = x]
        \/ call' = [call EXCEPT ![g] = Nil]
    BY <1>5 DEF ApplyLog
  <2>2. call'[g] = Nil \/ call'[g].kind = "send"
    BY <2>1 DEF TypeOK
  <2> QED
    BY <1>2, <1>3, <2>2
<1> QED
  BY <1>2, <1>4, <1>5 DEF UpdateCommitIndex

-----------------------------------------------------------------------------
(* What follows from it *)

LEMMA AppliedAreSafe ==
  ASSUME TypeOK, CommitSafe
  PROVE  StateMachineSafety
<1>1. PICK tl, ak : CommitInv(tl, ak)
  BY DEF CommitSafe
<1>2. TermLogs(tl) /\ AcksOK(tl, ak) /\ TermsSafe(tl, ak) /\ AppliedOK(tl, ak)
  BY <1>1 DEF CommitInv, LogsOK, ChoiceOK, UseOK
<1>3. ASSUME NEW x \in Nat, NEW t \in Nat, NEW y \in Pos, y >= x, Chosen(ak, t, y),
             x \in 1 .. Len(tl[t]), NEW u \in Nat, t <= u, x \in 1 .. Len(tl[u])
      PROVE  tl[t][x] = tl[u][x]
  <2>1. tl[u] # <<>>
    <3>1. tl[u] \in Seq(Entry) /\ Len(tl[u]) \in Nat /\ x - 1 \in Nat
      BY <1>2, <1>3, TermLogType
    <3>2. (x - 1) + 1 <= Len(tl[u])
      BY <1>3, <3>1
    <3> QED
      BY <3>1, <3>2, NotEmpty
  <2>2. SameFront(tl[t], tl[u], y)
    BY <1>2, <1>3, <2>1, ChosenInLater
  <2>3. x \in 1 .. y
    BY <1>3 DEF Pos
  <2> QED
    BY <2>2, <2>3 DEF SameFront
<1>4. ASSUME NEW a \in applied, NEW b \in applied, a[1] = b[1]
      PROVE  a[2] = b[2]
  <2>1. PICK x \in Nat : x = a[1] + 1 /\ x = b[1] + 1
    BY <1>4 DEF TypeOK
  <2>2. ChosenEntry(tl, ak, x, a[2]) /\ ChosenEntry(tl, ak, x, b[2])
    BY <1>2, <2>1 DEF AppliedOK
  <2>3. PICK t \in Nat, y \in Pos :
          y >= x /\ Chosen(ak, t, y) /\ x \in 1 .. Len(tl[t]) /\ tl[t][x] = a[2]
    BY <2>2 DEF ChosenEntry
  <2>4. PICK u \in Nat, z \in Pos :
          z >= x /\ Chosen(ak, u, z) /\ x \in 1 .. Len(tl[u]) /\ tl[u][x] = b[2]
    BY <2>2 DEF ChosenEntry
  <2>5. CASE t <= u
    BY <1>3, <2>3, <2>4, <2>5
  <2>6. CASE u <= t
    BY <1>3, <2>3, <2>4, <2>6
  <2> QED
    BY <2>5, <2>6
<1>5. ASSUME NEW a \in applied, NEW b \in applied, a[1] = b[1] PROVE a = b
  <2>1. a = <<a[1], a[2]>> /\ b = <<b[1], b[2]>>
    BY DEF TypeOK
  <2> QED
    BY <1>4, <1>5, <2>1
<1> QED
  BY <1>5 DEF StateMachineSafety

LEMMA NewestLeaderIsSafe ==
  ASSUME Known, NoSnapshots, CommitSafe
  PROVE  NewestLeaderHasApplied
<1>1. PICK tl, ak : CommitInv(tl, ak)
  BY DEF CommitSafe
<1>2. /\ TermLogs(tl) /\ LeaderLogs(tl) /\ AcksOK(tl, ak) /\ TermsSafe(tl, ak)
      /\ AppliedOK(tl, ak) /\ TypeOK /\ DiskBehind
  BY <1>1 DEF CommitInv, LogsOK, ChoiceOK, UseOK, Known, ElectionInv
<1>3. ASSUME NEW i \in Server, state[i] = "Leader",
             \A j \in Server : currentTerm[j] <= currentTerm[i],
             NEW a \in applied, ~(a[1] <= snapshotIndex[i])
      PROVE  HasEntry(i, a[1], a[2])
  <2>1. PICK n, x, T : n = a[1] /\ x = n + 1 /\ T = currentTerm[i]
    OBVIOUS
  <2>2. n \in Nat \ {0} /\ x \in Nat /\ T \in Nat
    <3>1. snapshotIndex[i] = 0 /\ a[1] \in Nat
      BY <1>2, PlainLog DEF TypeOK
    <3> QED
      BY <1>2, <1>3, <2>1, <3>1, TermTypes
  <2>3. PICK t \in Nat, y \in Pos :
          y >= x /\ Chosen(ak, t, y) /\ x \in 1 .. Len(tl[t]) /\ tl[t][x] = a[2]
    BY <1>2, <2>1 DEF AppliedOK, ChosenEntry
  <2>4. t <= T
    <3>1. PICK j \in Server : <<j, t, y>> \in ak
      BY <2>3, ChosenByOne
    <3>2. t <= disk[j].term
      BY <1>2, <3>1 DEF AcksOK, AckOK
    <3>3. disk[j].term <= currentTerm[j] /\ currentTerm[j] <= T
      BY <1>2, <1>3, <2>1 DEF DiskBehind
    <3> QED
      BY <1>2, <2>2, <3>2, <3>3, TermTypes
  <2>5. tl[T] = log[i] /\ tl[T] # <<>>
    BY <1>2, <1>3, <2>1 DEF LeaderLogs, TypeOK
  <2>6. SameFront(tl[t], tl[T], y)
    BY <1>2, <2>2, <2>3, <2>4, <2>5, ChosenInLater
  <2>7. /\ snapshotIndex[i] = 0 /\ LastIndex(i) = Len(log[i]) - 1
        /\ EntryAt(i, n) = log[i][x] /\ Len(log[i]) \in Nat
    BY <1>2, <2>1, <2>2, PlainLog
  <2>8. x \in 1 .. y /\ x <= Len(log[i])
    BY <2>2, <2>3, <2>5, <2>6, <2>7 DEF SameFront, Pos
  <2>9. log[i][x] = a[2]
    BY <2>3, <2>5, <2>6, <2>8 DEF SameFront
  <2>10. n \in snapshotIndex[i] + 1 .. LastIndex(i)
    BY <2>1, <2>2, <2>7, <2>8
  <2> QED
    BY <2>1, <2>7, <2>9, <2>10 DEF HasEntry
<1> QED
  BY <1>3 DEF NewestLeaderHasApplied

LEMMA CommittedIsSaved ==
  ASSUME TypeOK, NoSnapshots, CommitSafe
  PROVE  CommittedOnMajority
<1>1. PICK tl, ak : CommitInv(tl, ak)
  BY DEF CommitSafe
<1>2. TermLogs(tl) /\ PeerLogs(tl) /\ AcksOK(tl, ak) /\ CommitsOK(tl, ak)
  BY <1>1 DEF CommitInv, LogsOK, ChoiceOK, UseOK
<1>3. ASSUME NEW i \in Server,
             NEW n \in snapshotIndex[i] + 1 .. Smaller(commitIndex[i], LastIndex(i))
      PROVE  IsMajority(Cardinality(
               {j \in Server : n <= snapshotIndex[j] \/ HasEntry(j, n, EntryAt(i, n))}))
  <2>1. PICK c, x, T : c = commitIndex[i] /\ x = n + 1 /\ T = currentTerm[i]
    OBVIOUS
  <2>2. n \in Nat \ {0} /\ n <= c /\ c \in Nat /\ c # 0 /\ T \in Nat /\ x \in Nat
    <3>1. c \in Nat /\ T \in Nat /\ snapshotIndex[i] = 0 /\ LastIndex(i) \in Int
      <4>1. commitIndex[i] \in Nat
        BY DEF TypeOK
      <4>2. /\ snapshotIndex[i] = 0 /\ LastIndex(i) = Len(log[i]) - 1
            /\ Len(log[i]) \in Nat
        BY PlainLog
      <4> QED
        BY <2>1, <4>1, <4>2, TermTypes
    <3>2. n \in 1 .. Smaller(c, LastIndex(i))
      BY <1>3, <2>1, <3>1
    <3> QED
      BY <2>1, <3>1, <3>2 DEF Smaller
  <2>3. PICK t \in 0 .. T, y \in Pos :
          y >= c + 1 /\ Chosen(ak, t, y) /\ SameFront(log[i], tl[t], c + 1)
    BY <1>2, <2>1, <2>2 DEF CommitsOK, CommittedTo
  <2>4. t \in Nat /\ y \in Nat /\ x \in 1 .. c + 1 /\ x \in 1 .. y
    BY <2>1, <2>2, <2>3 DEF Pos
  <2>5. log[i][x] = tl[t][x] /\ EntryAt(i, n) = log[i][x]
    BY <2>1, <2>2, <2>3, <2>4, PlainLog DEF SameFront
  <2>6. PICK Q \in Quorum : \A j \in Q : <<j, t, y>> \in ak
    BY <2>3 DEF Chosen
  <2>7. ASSUME NEW j \in Q PROVE j \in Server /\ HasEntry(j, n, EntryAt(i, n))
    <3>1. j \in Server /\ Q \subseteq Server
      BY DEF Quorum
    <3>2. Has(tl[t], y, t) /\ (Has(log[j], y, t) \/ Lost(ak, t, y))
      BY <1>2, <2>3, <2>4, <2>6, <3>1 DEF AcksOK, AckOK
    <3>3. Has(log[j], y, t)
      BY <2>3, <3>2, ChosenNotLost
    <3>4. SameFront(log[j], tl[t], y)
      BY <1>2, <3>1, <3>3, <2>4, <3>2, SameTermSameFront DEF PeerLogs, TermLogs
    <3>5. log[j][x] = tl[t][x] /\ y <= Len(log[j])
      BY <2>4, <3>4 DEF SameFront
    <3>6. /\ snapshotIndex[j] = 0 /\ LastIndex(j) = Len(log[j]) - 1
          /\ EntryAt(j, n) = log[j][x] /\ Len(log[j]) \in Nat
      BY <2>1, <2>2, <3>1, PlainLog
    <3>7. n \in snapshotIndex[j] + 1 .. LastIndex(j)
      BY <2>1, <2>2, <2>4, <3>5, <3>6
    <3> QED
      BY <2>5, <3>1, <3>5, <3>6, <3>7 DEF HasEntry
  <2> DEFINE S == {j \in Server : n <= snapshotIndex[j] \/ HasEntry(j, n, EntryAt(i, n))}
  <2>8. Q \subseteq S /\ S \subseteq Server
    BY <2>7
  <2>9. IsMajority(Cardinality(Q)) /\ Q \subseteq Server
    BY DEF Quorum
  <2> HIDE DEF S
  <2>10. IsFiniteSet(S) /\ IsFiniteSet(Q)
    BY <2>8, <2>9, RaftAssumption, FS_Subset
  <2>11. Cardinality(Q) <= Cardinality(S)
    BY <2>8, <2>10, FS_Subset
  <2>12. Cardinality(Q) \in Nat /\ Cardinality(S) \in Nat /\ Cardinality(Server) \in Nat
    BY <2>10, RaftAssumption, FS_CardinalityType
  <2>13. IsMajority(Cardinality(S))
    BY <2>9, <2>11, <2>12 DEF IsMajority
  <2> QED
    BY <2>13 DEF S
<1> QED
  BY <1>3 DEF CommittedOnMajority

LEMMA MatchedIsHeld ==
  ASSUME Known, NoSnapshots, CommitSafe
  PROVE  MatchIndexSound
<1>1. PICK tl, ak : CommitInv(tl, ak)
  BY DEF CommitSafe
<1>2. /\ LeaderLogs(tl) /\ AcksOK(tl, ak) /\ MatchesOK(ak) /\ TypeOK /\ DiskBehind
  BY <1>1 DEF CommitInv, LogsOK, ChoiceOK, Known, ElectionInv
<1>3. ASSUME NEW i \in Server, NEW j \in Server,
             state[i] = "Leader", currentTerm[j] <= currentTerm[i],
             NEW m \in snapshotIndex[i] + 1 .. Smaller(matchIndex[i][j], LastIndex(i)),
             EntryAt(i, m).term = currentTerm[i],
             NEW n \in snapshotIndex[i] + 1 .. m
      PROVE  HasEntry(j, n, EntryAt(i, n))
  <2>1. PICK x, y, T : x = n + 1 /\ y = m + 1 /\ T = currentTerm[i]
    OBVIOUS
  <2>2. /\ snapshotIndex[i] = 0 /\ LastIndex(i) = Len(log[i]) - 1
        /\ Len(log[i]) \in Nat /\ matchIndex[i][j] \in Nat /\ T \in Nat
    <3>1. snapshotIndex[i] = 0 /\ LastIndex(i) = Len(log[i]) - 1 /\ Len(log[i]) \in Nat
      BY <1>2, PlainLog
    <3>2. matchIndex[i][j] \in Nat
      BY <1>2 DEF TypeOK
    <3>3. T \in Nat
      BY <1>2, <2>1, TermTypes
    <3> QED
      BY <3>1, <3>2, <3>3
  <2>3. /\ m \in Nat /\ n \in Nat /\ 1 <= n /\ n <= m
        /\ m <= matchIndex[i][j] /\ y <= Len(log[i])
    BY <1>3, <2>1, <2>2 DEF Smaller
  <2>4. /\ x \in 1 .. y /\ y \in Pos /\ y \in 1 .. matchIndex[i][j] + 1
    BY <2>1, <2>2, <2>3 DEF Pos
  <2>5. EntryAt(i, n) = log[i][x] /\ log[i][y].term = T
    BY <1>2, <1>3, <2>1, <2>3, PlainLog
  <2>6. CASE j = i
    <3>1. n \in snapshotIndex[i] + 1 .. LastIndex(i)
      BY <2>1, <2>2, <2>3
    <3> QED
      BY <2>6, <3>1 DEF HasEntry
  <2>7. CASE j # i
    <3>1. Holds(ak, i, j, matchIndex[i][j] + 1)
      BY <1>2, <1>3, <2>7 DEF MatchesOK
    <3>2. <<j, T, y>> \in ak
      BY <2>1, <2>4, <2>5, <3>1 DEF Holds
    <3>3. AckOK(tl, ak, j, T, y)
      BY <1>2, <2>2, <2>4, <3>2 DEF AcksOK
    <3>4. disk[j].term = T
      <4>1. T <= disk[j].term /\ disk[j].term <= currentTerm[j] /\ currentTerm[j] <= T
        BY <1>2, <1>3, <2>1, <3>3 DEF AckOK, DiskBehind
      <4> QED
        BY <1>2, <2>2, <4>1, TermTypes
    <3>5. SameFront(log[j], log[i], y)
      BY <1>2, <1>3, <2>1, <3>3, <3>4 DEF AckOK, LeaderLogs
    <3>6. log[j][x] = log[i][x] /\ y <= Len(log[j])
      BY <2>4, <3>5 DEF SameFront
    <3>7. /\ snapshotIndex[j] = 0 /\ LastIndex(j) = Len(log[j]) - 1
          /\ EntryAt(j, n) = log[j][x] /\ Len(log[j]) \in Nat
      BY <1>2, <2>1, <2>3, PlainLog
    <3>8. n \in snapshotIndex[j] + 1 .. LastIndex(j)
      BY <2>1, <2>3, <3>6, <3>7
    <3> QED
      BY <2>5, <3>6, <3>7, <3>8 DEF HasEntry
  <2> QED
    BY <2>6, <2>7
<1> QED
  BY <1>3 DEF MatchIndexSound

CommitsGrow == \A i \in Server : commitIndex'[i] < commitIndex[i] => Crashes(i)

LEMMA CommitsDoGrow ==
  ASSUME Known, Known', LogInv, LogInv', Compacting = {}, [Next]_vars, CommitSafe
  PROVE  CommitsGrow
<1>1. PICK tl, ak : CommitInv(tl, ak)
  BY DEF CommitSafe
<1>2. TypeOK /\ TypeOK' /\ NoSnapshots /\ NoSnapshots' /\ LogOnDisk /\ CallsOK(tl, ak)
  BY <1>1 DEF Known, LogInv, CommitInv, UseOK
<1>3. \A i \in Server : commitIndex[i] \in Nat
  BY <1>2 DEF TypeOK
<1>4. ASSUME \A i \in Server : commitIndex'[i] >= commitIndex[i] \/ Crashes(i)
      PROVE  CommitsGrow
  <2> SUFFICES ASSUME NEW i \in Server, commitIndex'[i] < commitIndex[i], ~Crashes(i)
               PROVE  FALSE
    BY DEF CommitsGrow
  <2>1. commitIndex'[i] >= commitIndex[i] /\ commitIndex'[i] \in Nat
    BY <1>2, <1>4 DEF TypeOK
  <2> QED
    BY <1>3, <2>1
<1>5. CASE UNCHANGED commitIndex
  BY <1>3, <1>4, <1>5
<1>6. ASSUME NEW i \in Server, NEW cmd \in Command, Start(i, cmd) PROVE CommitsGrow
  BY <1>5, <1>6 DEF Start, applyVars
<1>7. ASSUME NEW c \in voteCalls, VoteCounted(c) PROVE CommitsGrow
  BY <1>5, <1>7 DEF VoteCounted, applyVars
<1>8. ASSUME NEW g \in Goroutine, AppendAccept(g) PROVE CommitsGrow
  <2>1. PICK m \in AppendRequest : Accepts(g, m)
    BY <1>2, <1>8, AcceptForm
  <2>2. PICK i \in Server : i = m.to
    BY RequestFields
  <2>3. \A k \in Server \ {i} : commitIndex'[k] = commitIndex[k]
    BY <2>1, <2>2 DEF Accepts
  <2>4. m.leaderCommit <= Match(m) /\ m.leaderCommit \in Nat /\ Match(m) \in Nat
    <3>1. call[g] = m /\ m # Nil /\ m.kind = "append"
      BY <1>8, <2>1 DEF Accepts, AppendAccept
    <3>2. RequestOK(tl, ak, m)
      BY <1>2, <3>1 DEF CallsOK, CallOK
    <3> QED
      BY <3>2, RequestFields, MatchType DEF RequestOK
  <2>5. Smaller(m.leaderCommit, Match(m)) = m.leaderCommit
    BY <2>4 DEF Smaller
  <2>6. commitIndex'[i] >= commitIndex[i]
    <3>1. CASE commitIndex'[i] = commitIndex[i]
      BY <1>3, <3>1
    <3>2. CASE /\ m.leaderCommit > commitIndex[i]
               /\ commitIndex'[i] = Smaller(m.leaderCommit, Match(m))
      BY <1>3, <2>4, <2>5, <3>2
    <3> QED
      BY <2>1, <2>2, <3>1, <3>2 DEF Accepts
  <2> QED
    BY <1>3, <1>4, <2>3, <2>6
<1>9. ASSUME NEW g \in Goroutine, AppendSucceeded(g) PROVE CommitsGrow
  <2>1. PICK i : i = call[g].caller
    OBVIOUS
  <2>2. UpdateCommitIndex(g, i)
    BY <1>9, <2>1 DEF AppendSucceeded
  <2>3. \/ UNCHANGED commitIndex
        \/ \E n \in commitIndex[i] + 1 .. LastIndex(i) :
             commitIndex' = [commitIndex EXCEPT ![i] = n]
    BY <2>2 DEF UpdateCommitIndex, applyVars
  <2>4. ASSUME NEW n \in commitIndex[i] + 1 .. LastIndex(i),
               commitIndex' = [commitIndex EXCEPT ![i] = n], NEW k \in Server
        PROVE  commitIndex'[k] >= commitIndex[k]
    <3>1. commitIndex'[k] = IF k = i THEN n ELSE commitIndex[k]
      BY <1>2, <2>4 DEF TypeOK
    <3>2. CASE k = i
      BY <1>3, <2>4, <3>1, <3>2
    <3>3. CASE k # i
      BY <1>3, <3>1, <3>3
    <3> QED
      BY <3>2, <3>3
  <2> QED
    BY <1>4, <1>5, <2>3, <2>4
<1>10. ASSUME NEW i \in Server, NEW d, RestartFrom(i, d), Crashes(i) PROVE CommitsGrow
  <2>1. \A k \in Server \ {i} : commitIndex'[k] = commitIndex[k]
    BY <1>2, <1>10 DEF RestartFrom, TypeOK
  <2> QED
    BY <1>3, <1>4, <1>10, <2>1
<1>11. ASSUME NEW i \in Server, PeerStep(i) PROVE CommitsGrow
  <2>1. CASE Restart(i)
    BY <1>10, <2>1 DEF Restart, Crashes
  <2>2. CASE \E cmd \in Command : Start(i, cmd)
    BY <1>6, <2>2
  <2>3. CASE TickerCheck(i) \/ StartElection(i) \/ \E n \in 1 .. MaxIndex : Snapshot(i, n)
    BY <1>5, <2>3 DEF TickerCheck, StartElection, Snapshot, applyVars
  <2> QED
    BY <1>11, <2>1, <2>2, <2>3 DEF PeerStep
<1>12. ASSUME NEW c \in voteCalls, VoteStep(c) PROVE CommitsGrow
  <2>1. CASE VoteCounted(c)
    BY <1>7, <2>1
  <2>2. CASE ~VoteCounted(c)
    BY <1>5, <1>12, <2>2
    DEF VoteStep, RequestVoteStale, RequestVoteGrant, RequestVoteDeny, VoteIgnored,
        VoteOutdated, applyVars
  <2> QED
    BY <2>1, <2>2
<1>13. ASSUME NEW g \in Goroutine, CrashInHandler(g) PROVE CommitsGrow
  <2>1. PICK m : m = call[g]
    OBVIOUS
  <2>2. m # Nil /\ m.kind \in {"append", "install"} /\ \E d : RestartFrom(m.to, d)
    BY <1>13, <2>1 DEF CrashInHandler
  <2>3. m.to \in Server
    BY <1>2, <2>1, <2>2, RequestType DEF AppendRequest, InstallRequest
  <2>4. Crashes(m.to)
    BY <1>13, <2>1 DEF Crashes
  <2> QED
    BY <1>10, <2>2, <2>3, <2>4
<1>14. ASSUME NEW g \in Goroutine PROVE ~InstallSnapshot(g)
  <2> SUFFICES ASSUME InstallSnapshot(g) PROVE FALSE
    OBVIOUS
  <2>1. PICK m : m = call[g]
    OBVIOUS
  <2>2. m # Nil /\ m.kind = "install" /\ m.lastIndex > snapshotIndex[m.to]
    BY <2>1 DEF InstallSnapshot
  <2>3. m.to \in Server
    BY <1>2, <2>1, <2>2, RequestType DEF InstallRequest
  <2>4. m.lastIndex = 0 /\ snapshotIndex[m.to] = 0
    BY <1>2, <2>1, <2>2, <2>3 DEF NoSnapshots
  <2> QED
    BY <2>2, <2>4
<1>15. ASSUME NEW g \in Goroutine, GoroutineStep(g) PROVE CommitsGrow
  <2>1. CASE AppendAccept(g) \/ AppendSucceeded(g) \/ CrashInHandler(g)
    BY <1>8, <1>9, <1>13, <2>1
  <2>2. CASE ~AppendAccept(g) /\ ~AppendSucceeded(g) /\ ~CrashInHandler(g)
    BY <1>5, <1>14, <1>15, <2>2
    DEF GoroutineStep, Send, Handle, TakeAnswer, HandOver, SendSnapshot, SendEntries,
        AppendStale, AppendMismatch, InstallStale, InstallKnown, ReplyOutdated,
        AppendFailed, InstallDone, Deliver, Resume, DeliverSnapshot, Lose, applyVars
  <2> QED
    BY <2>1, <2>2
<1>16. CASE UNCHANGED vars
  BY <1>5, <1>16 DEF vars, applyVars
<1> QED
  BY <1>11, <1>12, <1>15, <1>16 DEF Next

-----------------------------------------------------------------------------
(* nextIndex stays in range *)

\* A refusal of AppendEntries is used like an answer that says yes: in the term
\* of the call, by the leader that made it.
RefusalsInTerm ==
  \A g \in Goroutine : AppendFailed(g) =>
    LET i == call[g].caller
    IN state[i] = "Leader" /\ call[g].term = currentTerm[i]

\* The refusal r points into the log of the leader it is for.
RefusalFits(r) ==
  r.conflictIndex # 0 /\ r.term # 0 =>
    /\ Won(r.term)
    /\ state[r.caller] = "Leader" /\ currentTerm[r.caller] = r.term
         => r.conflictIndex <= Len(log[r.caller])

CallFits(c) ==
  c # Nil =>
    /\ c.kind = "appended" /\ ~c.success => RefusalFits(c)
    /\ c.kind \in {"send", "relock"} /\ c.then # Nil => c.then.success

NextFits(i) == \A j \in Server : nextIndex[i][j] <= Len(log[i])

RangeInv ==
  /\ \A i \in Server : state[i] = "Leader" => NextFits(i)
  /\ \A g \in Goroutine : CallFits(call[g])

\* Only a vote makes a leader.
LEMMA SameLeaders ==
  ASSUME Known, Known', LogInv, NoSnapshots', Compacting = {}, [Next]_vars,
         \A c \in voteCalls : VoteCounted(c) => UNCHANGED state
  PROVE  \A k \in Server : SameLeader(k) /\ (state'[k] = "Leader" => Len(log[k]) <= Len(log'[k]))
<1>1. TypeOK /\ TypeOK' /\ NoSnapshots /\ LogOnDisk
  BY DEF Known, LogInv
<1>2. \A k \in Server : Len(log[k]) \in Nat
  BY <1>1, LogFacts
<1>3. ASSUME NEW g \in Goroutine, AppendAccept(g), NEW k \in Server, state'[k] = "Leader"
      PROVE  SameLeader(k) /\ log'[k] = log[k]
  <2>1. PICK m \in AppendRequest : Accepts(g, m)
    BY <1>1, <1>3, AcceptForm
  <2>2. m.to \in Server
    BY RequestFields
  <2>3. k # m.to
    BY <1>3, <2>1 DEF Accepts
  <2>4. state'[k] = state[k] /\ currentTerm'[k] = currentTerm[k]
    BY <2>1, <2>3 DEF Accepts
  <2>5. Merge(m.to, m)
    BY <2>1 DEF Accepts
  <2>6. log' = log \/ \E s : log' = [log EXCEPT ![m.to] = s]
    BY <2>5 DEF Merge
  <2>7. log'[k] = log[k]
    BY <1>1, <2>3, <2>6 DEF TypeOK
  <2> QED
    BY <2>4, <2>7 DEF SameLeader
<1>4. ASSUME NEW i \in Server, NEW cmd \in Command, Start(i, cmd), NEW k \in Server
      PROVE  SameLeader(k) /\ Len(log[k]) <= Len(log'[k])
  <2>1. UNCHANGED <<state, currentTerm>>
    BY <1>4 DEF Start, serverVars
  <2>2. PICK e : e = [term |-> currentTerm[i], command |-> cmd]
    OBVIOUS
  <2>3. log' = [log EXCEPT ![i] = Append(log[i], e)]
    BY <1>4, <2>2 DEF Start
  <2>4. log'[k] = IF k = i THEN Append(log[i], e) ELSE log[k]
    BY <1>1, <2>3 DEF TypeOK
  <2>5. log[i] \in Seq(Entry) /\ e \in Entry
    <3>1. currentTerm[i] \in Nat
      BY <1>1, TermTypes
    <3> QED
      BY <1>1, <2>2, <3>1, LogFacts DEF Entry
  <2>6. Len(Append(log[i], e)) = Len(log[i]) + 1
    BY <2>5
  <2>7. Len(log[k]) <= Len(log'[k])
    BY <1>2, <2>4, <2>6
  <2> QED
    BY <2>1, <2>7 DEF SameLeader
<1>5. ASSUME \A g \in Goroutine : ~AppendAccept(g),
             \A i \in Server, cmd \in Command : ~Start(i, cmd), NEW k \in Server
      PROVE  SameLeader(k) /\ log'[k] = log[k]
  <2>1. UNCHANGED log
    BY <1>1, <1>5, StepKinds DEF MakesNoPiece, SendEntries, logVars
  <2>2. QuietParts
    BY <1>1, <1>5, <2>1, QuietForms
  <2> QED
    BY <2>1, <2>2 DEF QuietParts
<1>6. ASSUME NEW k \in Server
      PROVE  SameLeader(k) /\ (state'[k] = "Leader" => Len(log[k]) <= Len(log'[k]))
  <2>1. log'[k] = log[k] => Len(log[k]) <= Len(log'[k])
    BY <1>2
  <2>2. state'[k] # "Leader" => SameLeader(k)
    BY DEF SameLeader
  <2> QED
    BY <1>3, <1>4, <1>5, <1>6, <2>1, <2>2
<1> QED
  BY <1>6

\* A peer that leads afterwards led in the same term and has kept its log, or is
\* the first to win its term.
LEMMA LeaderBefore ==
  ASSUME Known, Known', LogInv, NoSnapshots', Compacting = {}, [Next]_vars,
         NEW i \in Server, state'[i] = "Leader"
  PROVE  /\ currentTerm'[i] = currentTerm[i]
         /\ \/ state[i] = "Leader" /\ Len(log[i]) <= Len(log'[i])
            \/ state[i] = "Candidate" /\ ~Won(currentTerm[i])
<1>1. TypeOK /\ TypeOK' /\ NoSnapshots /\ ElectionInv'
  BY DEF Known, LogInv
<1>2. RolesMove
  BY <1>1, RolesStep
<1>3. /\ currentTerm'[i] = currentTerm[i]
      /\ state[i] = "Leader" \/ state[i] = "Candidate"
  BY <1>2 DEF RolesMove, RoleMoves
<1>4. CASE state[i] = "Candidate"
  BY <1>1, <1>2, <1>3, <1>4, NotWonBefore
<1>5. CASE state[i] = "Leader"
  <2>1. CASE \A c \in voteCalls : VoteCounted(c) => UNCHANGED state
    <3>1. Len(log[i]) <= Len(log'[i])
      BY <2>1, SameLeaders
    <3> QED
      BY <1>3, <1>5, <3>1
  <2>2. ASSUME NEW c \in voteCalls, VoteCounted(c) PROVE Len(log[i]) <= Len(log'[i])
    <3>1. log' = log
      BY <2>2 DEF VoteCounted, logVars
    <3>2. Len(log[i]) \in Nat
      BY <1>1, LogFacts
    <3> QED
      BY <3>1, <3>2
  <2> QED
    BY <1>3, <1>5, <2>1, <2>2
<1> QED
  BY <1>3, <1>4, <1>5

LEMMA RefusalStays ==
  ASSUME Known, Known', LogInv, NoSnapshots', Compacting = {}, [Next]_vars,
         NEW r \in AppendReply, RefusalFits(r)
  PROVE  RefusalFits(r)'
<1> SUFFICES ASSUME r.conflictIndex # 0, r.term # 0
             PROVE  /\ Won(r.term)'
                    /\ state'[r.caller] = "Leader" /\ currentTerm'[r.caller] = r.term
                         => r.conflictIndex <= Len(log'[r.caller])
  BY DEF RefusalFits
<1>1. TypeOK /\ TypeOK' /\ ElectionInv
  BY DEF Known
<1>2. PICK i, t, n : i = r.caller /\ t = r.term /\ n = r.conflictIndex
  OBVIOUS
<1>3. i \in Server /\ t \in Nat /\ n \in Nat
  BY <1>2 DEF AppendReply
<1>4. Won(t) /\ (state[i] = "Leader" /\ currentTerm[i] = t => n <= Len(log[i]))
  BY <1>2 DEF RefusalFits
<1>5. Won(t)'
  BY <1>1, <1>3, <1>4, RolesStep, WonStays
<1>6. ASSUME state'[i] = "Leader", currentTerm'[i] = t
      PROVE  n <= Len(log'[i])
  <2>1. currentTerm[i] = t /\ state[i] = "Leader" /\ Len(log[i]) <= Len(log'[i])
    BY <1>3, <1>4, <1>6, LeaderBefore
  <2>2. Len(log[i]) \in Nat
    BY <1>1, <1>3, LogFacts
  <2>3. Len(log'[i]) \in Nat
    <3>1. log'[i] \in Seq(Entry)
      BY <1>1, <1>3 DEF TypeOK
    <3> QED
      BY <3>1, LenProperties
  <2> QED
    BY <1>3, <1>4, <2>1, <2>2, <2>3
<1> QED
  BY <1>2, <1>5, <1>6

LEMMA CallFitsStays ==
  ASSUME Known, Known', LogInv, NoSnapshots', Compacting = {}, [Next]_vars,
         NEW c \in Call \cup {Nil}, CallFits(c)
  PROVE  CallFits(c)'
<1>1. ASSUME c # Nil, c.kind = "appended", ~c.success PROVE RefusalFits(c)'
  <2>1. c \in AppendReply /\ RefusalFits(c)
    BY <1>1, CallKinds DEF CallFits
  <2> QED
    BY <2>1, RefusalStays
<1> QED
  BY <1>1 DEF CallFits

LEMMA OrphanFits ==
  ASSUME NEW c \in Call \cup {Nil}, CallFits(c), NEW i \in Server
  PROVE  CallFits(Orphan(c, i))
<1>1. CASE c = Nil
  BY <1>1 DEF Orphan, CallFits
<1>2. CASE c # Nil /\ c.kind \in {"append", "install"}
  <2>1. CASE c.caller # i
    BY <1>2, <2>1 DEF Orphan
  <2>2. CASE c.caller = i
    <3>1. PICK d : d = [c EXCEPT !.caller = Nil]
      OBVIOUS
    <3>2. Orphan(c, i) = d
      BY <1>2, <2>2, <3>1 DEF Orphan
    <3>3. c \in AppendRequest \/ c \in InstallRequest
      BY <1>2, CallKinds
    <3>4. d.kind = c.kind
      BY <3>1, <3>3 DEF AppendRequest, InstallRequest
    <3> QED
      BY <1>2, <3>2, <3>4 DEF CallFits
  <2> QED
    BY <2>1, <2>2
<1>3. CASE c # Nil /\ c.kind \in {"appended", "installed"}
  <2>1. Orphan(c, i) \in {Nil, c}
    BY <1>3 DEF Orphan
  <2> QED
    BY <2>1 DEF CallFits
<1>4. CASE c # Nil /\ c.kind \in {"send", "relock", "notify"}
  <2>1. PICK d : d = [c EXCEPT !.then = Nil]
    OBVIOUS
  <2>2. Orphan(c, i) \in {Nil, c, d}
    BY <1>4, <2>1 DEF Orphan
  <2>3. c \in Sending \/ c \in Relocking \/ c \in Notifying
    BY <1>4, CallKinds
  <2>4. d.kind = c.kind /\ d.then = Nil
    BY <2>1, <2>3 DEF Sending, Relocking, Notifying
  <2>5. CallFits(d)
    BY <1>4, <2>4 DEF CallFits
  <2>6. CallFits(Nil)
    BY DEF CallFits
  <2> QED
    BY <2>2, <2>5, <2>6
<1>5. c # Nil => c.kind \in {"append", "install", "appended", "installed", "send",
                              "relock", "notify"}
  BY DEF Call, AppendRequest, AppendReply, InstallRequest, InstallReply, Sending,
         Relocking, Notifying
<1> QED
  BY <1>1, <1>2, <1>3, <1>4, <1>5

CallsFit == \A g \in Goroutine : CallFits(call[g])

CallsFitNow == \A g \in Goroutine : CallFits(call'[g])

LEMMA OneCallFits ==
  ASSUME TypeOK, CallsFit, NEW g \in Goroutine, NEW x, CallFits(x),
         call' = [call EXCEPT ![g] = x]
  PROVE  CallsFitNow
<1> SUFFICES ASSUME NEW h \in Goroutine PROVE CallFits(call'[h])
  BY DEF CallsFitNow
<1>1. call'[h] = IF h = g THEN x ELSE call[h]
  BY DEF TypeOK
<1>2. CallFits(call[h])
  BY DEF CallsFit
<1> QED
  BY <1>1, <1>2

\* Calls of the kinds that RangeInv says nothing of.
LEMMA OtherCallFits ==
  ASSUME NEW c, c = Nil \/ c.kind \in {"append", "install", "installed", "notify"}
  PROVE  CallFits(c)
  BY DEF CallFits

LEMMA DeliveryFits ==
  ASSUME TypeOK, CallsFit, NEW g \in Goroutine, NEW i,
         NEW then \in AppendReply \cup {Nil}, then # Nil => then.success,
         ApplyLog(g, i, then)
  PROVE  CallsFitNow
<1>1. \/ \E x : /\ x.kind = "send" /\ x.then = then
                /\ call' = [call EXCEPT ![g] = x]
      \/ call' = [call EXCEPT ![g] = then]
  BY DEF ApplyLog
<1>2. ASSUME NEW x, x.kind = "send", x.then = then PROVE CallFits(x)
  BY <1>2 DEF CallFits
<1>3. CallFits(then)
  BY DEF CallFits, AppendReply
<1> QED
  BY <1>1, <1>2, <1>3, OneCallFits

\* A follower refuses a call with an index inside what the call brings.
LEMMA ConflictBelow ==
  ASSUME TypeOK, NoSnapshots, NEW i \in Server, NEW m \in AppendRequest,
         NEW index, NEW term, Conflict(i, m, index, term)
  PROVE  index \in Nat /\ index <= m.prevLogIndex
<1>1. /\ snapshotIndex[i] = 0 /\ Len(log[i]) \in Nat \ {0}
      /\ LastIndex(i) = Len(log[i]) - 1
  BY PlainLog
<1>2. m.prevLogIndex \in Nat
  BY RequestFields
<1>3. \/ m.prevLogIndex > LastIndex(i) /\ index = LastIndex(i) + 1
      \/ m.prevLogIndex < 0
      \/ \E first \in 0 .. m.prevLogIndex - 0 : index = first + 0
  BY <1>1 DEF Conflict
<1> QED
  BY <1>1, <1>2, <1>3

LEMMA MismatchFits ==
  ASSUME Known, NoSnapshots, NEW tl, NEW ak, TermLogs(tl), TermsHeld(tl),
         LeaderLogs(tl), CallsOK(tl, ak), CallsFit,
         NEW g \in Goroutine, AppendMismatch(g)
  PROVE  CallsFitNow
<1>1. TypeOK
  BY DEF Known
<1>2. PICK m : m = call[g]
  OBVIOUS
<1>3. m # Nil /\ m.kind = "append"
  BY <1>2 DEF AppendMismatch
<1>4. m \in AppendRequest /\ RequestOK(tl, ak, m)
  BY <1>1, <1>2, <1>3, RequestType DEF CallsOK, CallOK
<1>5. /\ m.prevLogIndex \in Nat /\ Len(m.entries) \in Nat /\ m.term \in Nat
      /\ m.to \in Server /\ m.caller \in Server \cup {Nil}
  BY <1>4, RequestFields
<1>6. PICK index, term, x :
        /\ Conflict(m.to, m, index, term)
        /\ x = Appended(m, m.term, FALSE, index, term)
        /\ call' = [call EXCEPT ![g] = x]
  BY <1>2 DEF AppendMismatch
<1>7. index \in Nat /\ index <= m.prevLogIndex
  BY <1>1, <1>4, <1>5, <1>6, ConflictBelow
<1>8. PICK z : z = Len(tl[m.term])
  OBVIOUS
<1>9. z \in Nat /\ index <= z /\ z # 0
  <2>1. m.prevLogIndex + 1 + Len(m.entries) <= z
    BY <1>4, <1>8 DEF RequestOK, Brings
  <2>2. z \in Nat
    BY <1>5, <1>8, TermLogType
  <2> QED
    BY <1>5, <1>7, <2>1, <2>2
<1>10. tl[m.term] # <<>>
  BY <1>8, <1>9
<1>11. CASE m.caller = Nil
  <2>1. x = Nil
    BY <1>6, <1>11 DEF Appended
  <2> QED
    BY <1>1, <1>6, <2>1, OneCallFits, OtherCallFits
<1>12. CASE m.caller # Nil
  <2>1. /\ x.kind = "appended" /\ x.caller = m.caller /\ x.term = m.term
        /\ x.conflictIndex = index
    BY <1>6, <1>12 DEF Appended
  <2>2. m.term # 0 => Won(m.term)
    BY <1>5, <1>10 DEF TermsHeld
  <2>3. ASSUME state[m.caller] = "Leader", currentTerm[m.caller] = m.term
        PROVE  index <= Len(log[m.caller])
    <3>1. tl[m.term] = log[m.caller]
      BY <1>5, <1>12, <2>3 DEF LeaderLogs
    <3> QED
      BY <1>8, <1>9, <3>1
  <2>4. RefusalFits(x)
    BY <2>1, <2>2, <2>3 DEF RefusalFits
  <2>5. CallFits(x)
    BY <2>1, <2>4 DEF CallFits
  <2> QED
    BY <1>1, <1>6, <2>5, OneCallFits
<1> QED
  BY <1>11, <1>12

LEMMA CallsFitStep ==
  ASSUME Known, NoSnapshots, Compacting = {}, [Next]_vars, CommitSafe, CallsFit
  PROVE  CallsFitNow
<1>1. PICK tl, ak : CommitInv(tl, ak)
  BY DEF CommitSafe
<1>2. /\ TypeOK /\ TermLogs(tl) /\ TermsHeld(tl) /\ LeaderLogs(tl) /\ CallsOK(tl, ak)
  BY <1>1 DEF Known, CommitInv, LogsOK, UseOK
<1>3. CASE UNCHANGED call
  BY <1>3 DEF CallsFit, CallsFitNow
<1>4. ASSUME NEW i \in Server,
             \A h \in Goroutine : call'[h] = Nil \/ call'[h] = Orphan(call[h], i)
      PROVE  CallsFitNow
  <2> SUFFICES ASSUME NEW h \in Goroutine PROVE CallFits(call'[h])
    BY DEF CallsFitNow
  <2>1. CallFits(call[h]) /\ call[h] \in Call \cup {Nil}
    BY <1>2 DEF CallsFit, TypeOK
  <2> QED
    BY <1>4, <2>1, OrphanFits, OtherCallFits
<1>5. ASSUME NEW i \in Server, PeerStep(i) PROVE CallsFitNow
  <2>1. CASE Restart(i)
    BY <1>4, <2>1 DEF Restart
  <2>2. CASE ~Restart(i)
    BY <1>3, <1>5, <2>2 DEF PeerStep, TickerCheck, StartElection, Start, Snapshot
  <2> QED
    BY <2>1, <2>2
<1>6. ASSUME NEW c \in voteCalls, VoteStep(c) PROVE CallsFitNow
  BY <1>3, <1>6 DEF VoteStep, RequestVoteStale, RequestVoteGrant, RequestVoteDeny,
     VoteIgnored, VoteOutdated, VoteCounted
<1>7. ASSUME NEW g \in Goroutine, GoroutineStep(g) PROVE CallsFitNow
  <2>1. PICK m : m = call[g]
    OBVIOUS
  <2>2. ASSUME NEW x, call' = [call EXCEPT ![g] = x],
               x = Nil \/ x.kind \in {"append", "install", "installed", "notify"}
        PROVE  CallsFitNow
    BY <1>2, <2>2, OneCallFits, OtherCallFits
  <2>3. ASSUME NEW i \in Server, NEW j \in Server, Send(g, i, j) PROVE CallsFitNow
    <3>1. CASE SendSnapshot(g, i, j)
      <4>1. PICK x : x.kind = "install" /\ call' = [call EXCEPT ![g] = x]
        BY <3>1 DEF SendSnapshot
      <4> QED
        BY <2>2, <4>1
    <3>2. CASE SendEntries(g, i, j)
      <4>1. PICK x : x.kind = "append" /\ call' = [call EXCEPT ![g] = x]
        BY <3>2 DEF SendEntries
      <4> QED
        BY <2>2, <4>1
    <3> QED
      BY <2>3, <3>1, <3>2 DEF Send
  <2>4. ASSUME AppendStale(g) PROVE CallsFitNow
    <3>1. PICK x : /\ x = Appended(m, currentTerm[m.to], FALSE, 0, 0)
                   /\ call' = [call EXCEPT ![g] = x]
      BY <2>1, <2>4 DEF AppendStale
    <3>2. x # Nil => x.kind = "appended" /\ x.conflictIndex = 0
      BY <3>1 DEF Appended
    <3>3. CallFits(x)
      BY <3>2 DEF CallFits, RefusalFits
    <3> QED
      BY <1>2, <3>1, <3>3, OneCallFits
  <2>5. CASE AppendMismatch(g)
    BY <1>2, <2>5, MismatchFits
  <2>6. ASSUME AppendAccept(g) PROVE CallsFitNow
    <3>1. PICK a \in AppendRequest : Accepts(g, a)
      BY <1>2, <2>6, AcceptForm
    <3>2. PICK then : then = Appended(a, a.term, TRUE, 0, 0)
      OBVIOUS
    <3>3. then \in AppendReply \cup {Nil}
      <4>1. a.term \in Nat
        BY RequestFields
      <4> QED
        BY <3>2, <4>1, NoConflictType
    <3>4. then # Nil => then.success /\ then.kind = "appended"
      BY <3>2 DEF Appended
    <3>5. ApplyLog(g, a.to, then) \/ call' = [call EXCEPT ![g] = then]
      BY <3>1, <3>2 DEF Accepts
    <3>6. CallFits(then)
      BY <3>4 DEF CallFits
    <3> QED
      BY <1>2, <3>3, <3>4, <3>5, <3>6, OneCallFits, DeliveryFits
  <2>7. ASSUME InstallStale(g) \/ InstallKnown(g) PROVE CallsFitNow
    <3>1. PICK x : x = Installed(m) /\ call' = [call EXCEPT ![g] = x]
      BY <2>1, <2>7 DEF InstallStale, InstallKnown
    <3>2. x = Nil \/ x.kind = "installed"
      BY <3>1 DEF Installed
    <3> QED
      BY <2>2, <3>1, <3>2
  <2>8. ASSUME InstallSnapshot(g) PROVE CallsFitNow
    <3>1. \E x : x.kind = "notify" /\ call' = [call EXCEPT ![g] = x]
      BY <2>8 DEF InstallSnapshot
    <3> QED
      BY <2>2, <3>1
  <2>9. CASE ReplyOutdated(g) \/ AppendFailed(g) \/ InstallDone(g) \/ Lose(g)
    BY <2>2, <2>9 DEF ReplyOutdated, AppendFailed, InstallDone, Lose
  <2>10. ASSUME AppendSucceeded(g) PROVE CallsFitNow
    <3>1. UpdateCommitIndex(g, m.caller)
      BY <2>1, <2>10 DEF AppendSucceeded
    <3>2. call' = [call EXCEPT ![g] = Nil] \/ ApplyLog(g, m.caller, Nil)
      BY <3>1 DEF UpdateCommitIndex
    <3> QED
      BY <1>2, <2>2, <3>2, DeliveryFits
  <2>11. ASSUME Deliver(g) PROVE CallsFitNow
    <3>1. PICK x : x = [kind |-> "relock", at |-> m.at, then |-> m.then]
      OBVIOUS
    <3>2. m # Nil /\ m.kind = "send" /\ call' = [call EXCEPT ![g] = x]
      BY <2>1, <2>11, <3>1 DEF Deliver
    <3>3. m.then # Nil => m.then.success
      BY <2>1, <3>2 DEF CallsFit, CallFits
    <3>4. CallFits(x)
      BY <3>1, <3>3 DEF CallFits
    <3> QED
      BY <1>2, <3>2, <3>4, OneCallFits
  <2>12. ASSUME Resume(g) PROVE CallsFitNow
    <3>1. m # Nil /\ m.kind = "relock" /\ ApplyLog(g, m.at, m.then)
      BY <2>1, <2>12 DEF Resume
    <3>2. m.then \in AppendReply \cup {Nil} /\ (m.then # Nil => m.then.success)
      BY <1>2, <2>1, <3>1, ThenType DEF CallsFit, CallFits
    <3> QED
      BY <1>2, <3>1, <3>2, DeliveryFits
  <2>13. ASSUME DeliverSnapshot(g) PROVE CallsFitNow
    <3>1. m # Nil /\ m.kind = "notify" /\ call' = [call EXCEPT ![g] = m.then]
      BY <2>1, <2>13 DEF DeliverSnapshot
    <3>2. m.then \in InstallReply \cup {Nil}
      BY <1>2, <2>1, <3>1, ThenType
    <3>3. m.then = Nil \/ m.then.kind = "installed"
      BY <3>2 DEF InstallReply
    <3> QED
      BY <2>2, <3>1, <3>3
  <2>14. ASSUME CrashInHandler(g) PROVE CallsFitNow
    <3>1. /\ m # Nil /\ m.kind \in {"append", "install"}
          /\ \A h \in Goroutine : call'[h] = Nil \/ call'[h] = Orphan(call[h], m.to)
      BY <2>1, <2>14 DEF CrashInHandler
    <3>2. m.to \in Server
      BY <1>2, <2>1, <3>1, RequestType DEF AppendRequest, InstallRequest
    <3> QED
      BY <1>4, <3>1, <3>2
  <2> QED
    BY <1>7, <2>3, <2>4, <2>5, <2>6, <2>7, <2>8, <2>9, <2>10, <2>11, <2>12, <2>13, <2>14
    DEF GoroutineStep, Handle, TakeAnswer, HandOver
<1>8. CASE UNCHANGED vars
  BY <1>3, <1>8 DEF vars
<1> QED
  BY <1>5, <1>6, <1>7, <1>8 DEF Next

LEMMA CallsFitHold ==
  ASSUME Known, Known', LogInv, NoSnapshots', Compacting = {}, [Next]_vars, CommitSafe,
         CallsFit
  PROVE  CallsFit'
<1>1. TypeOK' /\ NoSnapshots
  BY DEF Known, LogInv
<1>2. CallsFitNow
  BY <1>1, CallsFitStep
<1>3. ASSUME NEW h \in Goroutine PROVE CallFits(call[h])'
  <2>1. PICK x : x = call'[h]
    OBVIOUS
  <2>2. x \in Call \cup {Nil} /\ CallFits(x)
    BY <1>1, <1>2, <2>1 DEF CallsFitNow, TypeOK
  <2>3. CallFits(x)'
    BY <2>2, CallFitsStays
  <2> QED
    BY <2>1, <2>3 DEF CallFits, RefusalFits
<1> QED
  BY <1>3 DEF CallsFit

-----------------------------------------------------------------------------

LeadersFit == \A i \in Server : state[i] = "Leader" => NextFits(i)

\* Steps that may change nextIndex.
LEMMA NextForms ==
  ASSUME TypeOK, [Next]_vars
  PROVE  \/ UNCHANGED nextIndex
         \/ \E i \in Server : /\ state'[i] = "Follower"
                              /\ \A k \in Server \ {i} : nextIndex'[k] = nextIndex[k]
         \/ \E c \in voteCalls : VoteCounted(c)
         \/ \E g \in Goroutine : AppendSucceeded(g) \/ AppendFailed(g) \/ InstallDone(g)
<1>1. ASSUME NEW i \in Server, NEW d, RestartFrom(i, d)
      PROVE  /\ state'[i] = "Follower"
             /\ \A k \in Server \ {i} : nextIndex'[k] = nextIndex[k]
  BY <1>1 DEF RestartFrom, TypeOK
<1>2. ASSUME NEW i \in Server, PeerStep(i), ~Restart(i) PROVE UNCHANGED nextIndex
  BY <1>2 DEF PeerStep, TickerCheck, StartElection, Start, Snapshot, leaderVars
<1>3. ASSUME NEW c \in voteCalls, VoteStep(c), ~VoteCounted(c) PROVE UNCHANGED nextIndex
  BY <1>3 DEF VoteStep, RequestVoteStale, RequestVoteGrant, RequestVoteDeny,
     VoteIgnored, VoteOutdated, leaderVars
<1>4. ASSUME NEW g \in Goroutine, CrashInHandler(g)
      PROVE  \E i \in Server : \E d : RestartFrom(i, d)
  <2>1. PICK m : m = call[g]
    OBVIOUS
  <2>2. m # Nil /\ m.kind \in {"append", "install"} /\ \E d : RestartFrom(m.to, d)
    BY <1>4, <2>1 DEF CrashInHandler
  <2>3. m.to \in Server
    BY <2>1, <2>2, RequestType DEF AppendRequest, InstallRequest
  <2> QED
    BY <2>2, <2>3
<1>5. ASSUME NEW g \in Goroutine, GoroutineStep(g), ~CrashInHandler(g),
             ~AppendSucceeded(g), ~AppendFailed(g), ~InstallDone(g)
      PROVE  UNCHANGED nextIndex
  BY <1>5 DEF GoroutineStep, Send, Handle, TakeAnswer, HandOver, SendSnapshot,
     SendEntries, AppendStale, AppendMismatch, AppendAccept, InstallStale,
     InstallKnown, InstallSnapshot, ReplyOutdated, Deliver, Resume, DeliverSnapshot,
     Lose, leaderVars
<1>6. CASE UNCHANGED vars
  BY <1>6 DEF vars, leaderVars
<1>7. ASSUME NEW i \in Server, Restart(i) PROVE RestartFrom(i, disk[i])
  BY <1>7 DEF Restart
<1> QED
  BY <1>1, <1>2, <1>3, <1>4, <1>5, <1>6, <1>7 DEF Next

\* One entry of nextIndex changes, and fits if it is a leader's.
LEMMA EntryFits ==
  ASSUME TypeOK, LeadersFit, UNCHANGED <<state, log>>, NEW a \in Server, NEW b \in Server,
         NEW n, nextIndex' = [nextIndex EXCEPT ![a][b] = n],
         state[a] = "Leader" => n <= Len(log[a])
  PROVE  LeadersFit'
<1> SUFFICES ASSUME NEW i \in Server, state'[i] = "Leader", NEW j \in Server
             PROVE  nextIndex'[i][j] <= Len(log'[i])
  BY DEF LeadersFit, NextFits
<1>1. nextIndex[i][j] <= Len(log[i])
  BY DEF LeadersFit, NextFits
<1>2. nextIndex'[i][j] = IF i = a /\ j = b THEN n ELSE nextIndex[i][j]
  BY DEF TypeOK
<1> QED
  BY <1>1, <1>2

LEMMA LeadersFitStep ==
  ASSUME Known, Known', LogInv, NoSnapshots', Compacting = {}, [Next]_vars, CommitSafe,
         AnswersInTerm, RefusalsInTerm, RangeInv
  PROVE  LeadersFit'
<1>1. TypeOK /\ TypeOK' /\ NoSnapshots /\ RunnersPositive /\ LeadersFit /\ CallsFit
  BY DEF Known, LogInv, RangeInv, LeadersFit, CallsFit
<1>2. \A i \in Server : /\ Len(log[i]) \in Nat \ {0} /\ snapshotIndex[i] = 0
                        /\ LastIndex(i) = Len(log[i]) - 1
  BY <1>1, PlainLog
<1>3. \A i, j \in Server : nextIndex[i][j] \in Nat
  BY <1>1 DEF TypeOK
<1>4. ASSUME \A k \in Server : state'[k] = "Leader" => nextIndex'[k] = nextIndex[k],
             \A c \in voteCalls : VoteCounted(c) => UNCHANGED state
      PROVE  LeadersFit'
  <2> SUFFICES ASSUME NEW i \in Server, state'[i] = "Leader", NEW j \in Server
               PROVE  nextIndex'[i][j] <= Len(log'[i])
    BY DEF LeadersFit, NextFits
  <2>1. state[i] = "Leader" /\ Len(log[i]) <= Len(log'[i])
    BY <1>4, SameLeaders DEF SameLeader
  <2>2. nextIndex[i][j] <= Len(log[i]) /\ nextIndex'[i][j] = nextIndex[i][j]
    BY <1>1, <1>4, <2>1 DEF LeadersFit, NextFits
  <2>3. Len(log'[i]) \in Nat
    <3>1. log'[i] \in Seq(Entry)
      BY <1>1 DEF TypeOK
    <3> QED
      BY <3>1, LenProperties
  <2> QED
    BY <1>2, <1>3, <2>1, <2>2, <2>3
<1>5. ASSUME NEW c \in voteCalls, VoteCounted(c) PROVE LeadersFit'
  <2> SUFFICES ASSUME NEW i \in Server, state'[i] = "Leader", NEW j \in Server
               PROVE  nextIndex'[i][j] <= Len(log'[i])
    BY DEF LeadersFit, NextFits
  <2>1. PICK k : k = c.candidate
    OBVIOUS
  <2>2. k \in Server
    BY <1>1, <1>5, <2>1, VoteKinds DEF TypeOK
  <2>3. /\ log' = log
        /\ \/ /\ state' = [state EXCEPT ![k] = "Leader"]
              /\ nextIndex' = [nextIndex EXCEPT ![k] = [q \in Server |-> LastIndex(k) + 1]]
           \/ UNCHANGED <<state, nextIndex>>
    BY <1>5, <2>1 DEF VoteCounted, leaderVars, logVars
  <2>4. \/ state[i] = "Leader" /\ nextIndex'[i][j] = nextIndex[i][j]
        \/ nextIndex'[i][j] = LastIndex(i) + 1
    <3>1. CASE i = k
      <4>1. CASE nextIndex' = [nextIndex EXCEPT ![k] = [q \in Server |-> LastIndex(k) + 1]]
        <5>1. nextIndex'[k] = [q \in Server |-> LastIndex(k) + 1]
          BY <1>1, <2>2, <4>1 DEF TypeOK
        <5> QED
          BY <3>1, <5>1
      <4> QED
        BY <2>3, <4>1
    <3>2. CASE i # k
      <4>1. state'[i] = state[i] /\ nextIndex'[i] = nextIndex[i]
        BY <1>1, <2>3, <3>2 DEF TypeOK
      <4> QED
        BY <4>1
    <3> QED
      BY <3>1, <3>2
  <2>5. state[i] = "Leader" => nextIndex[i][j] <= Len(log[i])
    BY <1>1 DEF LeadersFit, NextFits
  <2> QED
    BY <1>2, <2>3, <2>4, <2>5
<1>6. ASSUME NEW g \in Goroutine, AppendSucceeded(g) PROVE LeadersFit'
  <2>1. PICK r : r = call[g]
    OBVIOUS
  <2>2. PICK i, j, n : i = r.caller /\ j = r.to /\ n = r.match + 1
    OBVIOUS
  <2>3. /\ r # Nil /\ r.kind = "appended" /\ r.success
        /\ nextIndex' = [nextIndex EXCEPT ![i][j] = n]
        /\ UNCHANGED <<state, log>>
    BY <1>6, <2>1, <2>2 DEF AppendSucceeded, logVars, serverVars
  <2>4. i \in Server /\ j \in Server
    BY <1>1, <2>1, <2>2, <2>3, RequestType DEF AppendReply
  <2>5. state[i] = "Leader" /\ r.term = currentTerm[i]
    BY <1>6, <2>1, <2>2 DEF AnswersInTerm
  <2>6. n <= Len(log[i])
    <3>1. PICK tl, ak : CommitInv(tl, ak)
      BY DEF CommitSafe
    <3>2. LeaderLogs(tl) /\ CallsOK(tl, ak)
      BY <3>1 DEF CommitInv, LogsOK, UseOK
    <3>3. r.match + 1 <= Len(tl[r.term])
      BY <2>1, <2>3, <3>2 DEF CallsOK, CallOK, ReplyOK
    <3>4. tl[r.term] = log[i]
      BY <2>4, <2>5, <3>2 DEF LeaderLogs
    <3> QED
      BY <2>2, <3>3, <3>4
  <2> QED
    BY <1>1, <2>3, <2>4, <2>6, EntryFits
<1>7. ASSUME NEW g \in Goroutine, AppendFailed(g) PROVE LeadersFit'
  <2>1. PICK r : r = call[g]
    OBVIOUS
  <2>2. PICK i, j : i = r.caller /\ j = r.to
    OBVIOUS
  <2>3. PICK n : /\ r # Nil /\ r.kind = "appended" /\ ~r.success
                 /\ Backup(i, r, n)
                 /\ nextIndex' = [nextIndex EXCEPT ![i][j] = n]
                 /\ UNCHANGED <<state, log>>
    BY <1>7, <2>1, <2>2 DEF AppendFailed, logVars, serverVars
  <2>4. i \in Server /\ j \in Server /\ r.conflictIndex \in Nat
    BY <1>1, <2>1, <2>2, <2>3, RequestType DEF AppendReply
  <2>5. state[i] = "Leader" /\ r.term = currentTerm[i] /\ r.term # 0
    <3>1. state[i] = "Leader" /\ r.term = currentTerm[i]
      BY <1>7, <2>1, <2>2 DEF RefusalsInTerm
    <3>2. currentTerm[i] > 0
      BY <1>1, <2>4, <3>1 DEF RunnersPositive
    <3> QED
      BY <3>1, <3>2
  <2>6. r.conflictIndex <= Len(log[i])
    <3>1. RefusalFits(r)
      BY <1>1, <2>1, <2>3 DEF CallsFit, CallFits
    <3>2. r.conflictIndex # 0 => r.conflictIndex <= Len(log[i])
      BY <2>2, <2>5, <3>1 DEF RefusalFits
    <3> QED
      BY <1>2, <2>4, <3>2
  <2>7. n = r.conflictIndex \/ \E k \in DOMAIN log[i] : n = 0 + k
    BY <1>2, <2>3, <2>4 DEF Backup
  <2>8. DOMAIN log[i] = 1 .. Len(log[i])
    BY <1>1, <2>4, LogFacts
  <2>9. n <= Len(log[i])
    BY <1>2, <2>4, <2>6, <2>7, <2>8
  <2> QED
    BY <1>1, <2>3, <2>4, <2>9, EntryFits
<1>8. ASSUME NEW g \in Goroutine, InstallDone(g) PROVE LeadersFit'
  <2>1. PICK r : r = call[g]
    OBVIOUS
  <2>2. PICK i, j : i = r.caller /\ j = r.to
    OBVIOUS
  <2>3. /\ r # Nil /\ r.kind = "installed"
        /\ nextIndex' = [nextIndex EXCEPT ![i][j] = snapshotIndex[i] + 1]
        /\ UNCHANGED <<state, log>>
    BY <1>8, <2>1, <2>2 DEF InstallDone, logVars, serverVars
  <2>4. i \in Server /\ j \in Server
    BY <1>1, <2>1, <2>2, <2>3, RequestType DEF InstallReply
  <2>5. snapshotIndex[i] + 1 <= Len(log[i])
    BY <1>2, <2>4
  <2> QED
    BY <1>1, <2>3, <2>4, <2>5, EntryFits
<1>9. ASSUME \A c \in voteCalls : ~VoteCounted(c),
             \A g \in Goroutine : ~AppendSucceeded(g) /\ ~AppendFailed(g) /\ ~InstallDone(g)
      PROVE  LeadersFit'
  <2>1. \/ UNCHANGED nextIndex
        \/ \E i \in Server : /\ state'[i] = "Follower"
                             /\ \A k \in Server \ {i} : nextIndex'[k] = nextIndex[k]
    BY <1>1, <1>9, NextForms
  <2>2. \A k \in Server : state'[k] = "Leader" => nextIndex'[k] = nextIndex[k]
    BY <2>1
  <2> QED
    BY <1>4, <1>9, <2>2
<1> QED
  BY <1>5, <1>6, <1>7, <1>8, <1>9

LEMMA RefusalStutter ==
  ASSUME TypeOK, UNCHANGED vars
  PROVE  RefusalsInTerm
<1> SUFFICES ASSUME NEW g \in Goroutine, AppendFailed(g) PROVE FALSE
  BY DEF RefusalsInTerm
<1>1. call[g] # Nil /\ call' = [call EXCEPT ![g] = Nil]
  BY DEF AppendFailed
<1>2. call'[g] = call[g]
  BY DEF vars
<1> QED
  BY <1>1, <1>2 DEF TypeOK

LEMMA RangeInit ==
  ASSUME Init
  PROVE  RangeInv
  BY DEF Init, RangeInv, CallFits

LEMMA RangeStep ==
  ASSUME Known, Known', LogInv, LogInv', Compacting = {}, [Next]_vars, CommitSafe,
         AnswersInTerm, RefusalsInTerm, RangeInv
  PROVE  RangeInv'
<1>1. NoSnapshots' /\ CallsFit
  BY DEF LogInv, RangeInv, CallsFit
<1>2. CallsFit'
  BY <1>1, CallsFitHold
<1>3. LeadersFit'
  BY <1>1, LeadersFitStep
<1> QED
  BY <1>2, <1>3 DEF RangeInv, CallsFit, LeadersFit

-----------------------------------------------------------------------------
(* The theorems *)

\* Every behaviour without snapshots in which no answer is used after its term
\* satisfies the invariant.
LEMMA CommitmentHolds ==
  ASSUME Compacting = {}
  PROVE  Spec /\ [][AnswersInTerm]_vars => [](Known /\ LogInv /\ CommitSafe)
<1>1. Init => LogInv /\ CommitSafe /\ LogOnDisk
  BY LogInit, CommitInit DEF Init, LogOnDisk
<1>2. TypeOK /\ TypeOK' /\ LogOnDisk /\ [Next]_vars => LogOnDisk'
  BY LogOnDiskStep
<1>3. Known /\ Known' /\ LogInv /\ [Next]_vars => LogInv'
  BY LogStep
<1>4. TypeOK /\ [AnswersInTerm]_vars => AnswersInTerm
  BY StutterInTerm
<1>5. Known /\ Known' /\ LogInv /\ LogInv' /\ CommitSafe /\ [Next]_vars /\ AnswersInTerm
        => CommitSafe'
  BY CommitStep
<1>6. Known <=> TypeOK /\ ElectionInv /\ LogOnDisk
  BY DEF Known
<1> QED
  BY <1>1, <1>2, <1>3, <1>4, <1>5, <1>6, TypeCorrect, ElectionCorrect, PTL DEF Spec

\* If the leader looked at its term before it uses an answer of AppendEntries,
\* no two services would ever receive different commands for an index: for any
\* number of peers, and whatever crashes, is lost, or comes late or out of
\* order (replicateLog, applyLog).
THEOREM AppliedAgree ==
  ASSUME Compacting = {}
  PROVE  Spec /\ [][AnswersInTerm]_vars => []StateMachineSafety
<1>1. Known /\ LogInv /\ CommitSafe => StateMachineSafety
  BY AppliedAreSafe DEF Known
<1> QED
  BY <1>1, CommitmentHolds, PTL

\* Nor would a leader with the highest term lack a command that a service has
\* received (RequestVote's comparison of the logs).
THEOREM LeadersComplete ==
  ASSUME Compacting = {}
  PROVE  Spec /\ [][AnswersInTerm]_vars => []NewestLeaderHasApplied
<1>1. Known /\ LogInv /\ CommitSafe => NewestLeaderHasApplied
  BY NewestLeaderIsSafe DEF LogInv
<1> QED
  BY <1>1, CommitmentHolds, PTL

\* And what commitIndex covers would be on the disks of a majority.
THEOREM CommittedSaved ==
  ASSUME Compacting = {}
  PROVE  Spec /\ [][AnswersInTerm]_vars => []CommittedOnMajority
<1>1. Known /\ LogInv /\ CommitSafe => CommittedOnMajority
  BY CommittedIsSaved DEF Known, LogInv
<1> QED
  BY <1>1, CommitmentHolds, PTL

\* And the min in AppendEntries would never lower commitIndex: it goes back only
\* in a crash of the peer.
THEOREM CommitsMonotone ==
  ASSUME Compacting = {}
  PROVE  Spec /\ [][AnswersInTerm]_vars => CommitMonotone
<1>1. Known /\ Known' /\ LogInv /\ LogInv' /\ CommitSafe /\ [Next]_vars
        => [\A i \in Server : commitIndex'[i] < commitIndex[i] => Crashes(i)]_vars
  BY CommitsDoGrow DEF CommitsGrow
<1> QED
  BY <1>1, CommitmentHolds, PTL DEF Spec, CommitMonotone

\* And what the leader counts on when it moves commitIndex would be true of the
\* follower (updateCommitIndex, replicateLog).
THEOREM MatchesSound ==
  ASSUME Compacting = {}
  PROVE  Spec /\ [][AnswersInTerm]_vars => []MatchIndexSound
<1>1. Known /\ LogInv /\ CommitSafe => MatchIndexSound
  BY MatchedIsHeld DEF LogInv
<1> QED
  BY <1>1, CommitmentHolds, PTL

\* If the leader looked at its term before it uses any answer of AppendEntries, a
\* yes or a refusal, replicateLog would never index its log out of range: for
\* any number of peers, and whatever crashes, is lost, or comes late.
THEOREM NextInRange ==
  ASSUME Compacting = {}
  PROVE  Spec /\ [][AnswersInTerm]_vars /\ [][RefusalsInTerm]_vars => []NextIndexInRange
<1>1. Init => RangeInv
  BY RangeInit
<1>2. Known /\ [RefusalsInTerm]_vars => RefusalsInTerm
  BY RefusalStutter DEF Known
<1>3. Known /\ [AnswersInTerm]_vars => AnswersInTerm
  BY StutterInTerm DEF Known
<1>4. Known /\ Known' /\ LogInv /\ LogInv' /\ CommitSafe /\ RangeInv /\ [Next]_vars
        /\ AnswersInTerm /\ RefusalsInTerm => RangeInv'
  BY RangeStep
<1>5. Known /\ LogInv /\ RangeInv => NextIndexInRange
  <2> SUFFICES ASSUME Known, LogInv, RangeInv, NEW i \in Server, NEW j \in Server,
                      state[i] = "Leader"
               PROVE  nextIndex[i][j] <= LastIndex(i) + 1
    BY DEF NextIndexInRange
  <2>1. nextIndex[i][j] <= Len(log[i])
    BY DEF RangeInv, NextFits
  <2>2. LastIndex(i) = Len(log[i]) - 1 /\ Len(log[i]) \in Nat
    BY PlainLog DEF Known, LogInv
  <2> QED
    BY <2>1, <2>2
<1> QED
  BY <1>1, <1>2, <1>3, <1>4, <1>5, CommitmentHolds, PTL DEF Spec
=============================================================================
