----------------------------- MODULE RaftProofs -----------------------------
(***************************************************************************)
(* Theorems about Raft, for any set of peers and any bounds: the types,    *)
(* the safety of elections, and log matching.  ElectionInv of Raft is      *)
(* inductive, and no two leaders share a term.                             *)
(***************************************************************************)
EXTENDS Raft, FiniteSetTheorems, SequenceTheorems, TLAPS

-----------------------------------------------------------------------------
(* Types *)

\* The kind of a goroutine's record tells which record it is.
LEMMA CallKinds ==
  ASSUME NEW c \in Call \cup {Nil}, c # Nil
  PROVE  /\ c.kind = "append" => c \in AppendRequest
         /\ c.kind = "appended" => c \in AppendReply
         /\ c.kind = "install" => c \in InstallRequest
         /\ c.kind = "installed" => c \in InstallReply
         /\ c.kind = "send" => c \in Sending
         /\ c.kind = "relock" => c \in Relocking
         /\ c.kind = "notify" => c \in Notifying
BY DEF Call, AppendRequest, AppendReply, InstallRequest, InstallReply,
       Sending, Relocking, Notifying

LEMMA VoteKinds ==
  ASSUME NEW c \in VoteRequest \cup VoteReply
  PROVE  /\ c.kind = "request" => c \in VoteRequest
         /\ c.kind = "reply" => c \in VoteReply
         /\ c.candidate \in Server /\ c.to \in Server /\ c.term \in Nat
BY DEF VoteRequest, VoteReply

\* The log of a peer: it ends at LastIndex, at or above the snapshot.
LEMMA LogFacts ==
  ASSUME TypeOK, NEW i \in Server
  PROVE  /\ log[i] \in Seq(Entry)
         /\ Len(log[i]) \in Nat \ {0}
         /\ DOMAIN log[i] = 1 .. Len(log[i])
         /\ \A k \in 1 .. Len(log[i]) : log[i][k] \in Entry
         /\ snapshotIndex[i] \in Nat
         /\ LastIndex(i) \in Nat
         /\ snapshotIndex[i] <= LastIndex(i)
         /\ LastTerm(i) \in Nat
<1>1. log[i] \in Seq(Entry) /\ log[i] # <<>> /\ snapshotIndex[i] \in Nat
  BY DEF TypeOK
<1>2. Len(log[i]) \in Nat \ {0}
  BY <1>1, EmptySeq
<1>3. DOMAIN log[i] = 1 .. Len(log[i])
  BY <1>1, LenProperties
<1>4. \A k \in 1 .. Len(log[i]) : log[i][k] \in Entry
  BY <1>1, ElementOfSeq
<1>5. LastTerm(i) \in Nat
  BY <1>2, <1>4 DEF LastTerm, Entry
<1> QED
  BY <1>1, <1>2, <1>3, <1>4, <1>5 DEF LastIndex

\* Terms in the log, between the snapshot and the end.
LEMMA TermAtType ==
  ASSUME TypeOK, NEW i \in Server,
         NEW n \in snapshotIndex[i] .. LastIndex(i)
  PROVE  TermAt(i, n) \in Nat
<1>1. CASE n = snapshotIndex[i]
  BY <1>1 DEF TermAt, TypeOK
<1>2. CASE n # snapshotIndex[i]
  <2>1. n - snapshotIndex[i] + 1 \in 1 .. Len(log[i])
    BY <1>2, LogFacts DEF LastIndex
  <2>2. log[i][n - snapshotIndex[i] + 1] \in Entry
    BY <2>1, LogFacts
  <2> QED
    BY <1>2, <2>2 DEF TermAt, EntryAt, Entry
<1> QED
  BY <1>1, <1>2

\* The end of a log, from any position on.
LEMMA SuffixType ==
  ASSUME NEW S, NEW s \in Seq(S), NEW n \in Nat \ {0}
  PROVE  SubSeq(s, n, Len(s)) \in Seq(S)
<1>1. Len(s) \in Nat /\ \A k \in 1 .. Len(s) : s[k] \in S
  BY LenProperties, ElementOfSeq
<1> QED
  BY <1>1, SubSeqProperties

LEMMA PrefixType ==
  ASSUME NEW S, NEW s \in Seq(S), NEW n \in 1 .. Len(s)
  PROVE  SubSeq(s, 1, n) \in Seq(S) /\ SubSeq(s, 1, n) # <<>>
<1>1. Len(s) \in Nat /\ \A k \in 1 .. Len(s) : s[k] \in S
  BY LenProperties, ElementOfSeq
<1>2. SubSeq(s, 1, n) \in Seq(S) /\ Len(SubSeq(s, 1, n)) = n
  BY <1>1, SubSeqProperties
<1> QED
  BY <1>2, EmptySeq

LEMMA NonEmptyConcat ==
  ASSUME NEW S, NEW s \in Seq(S), NEW t \in Seq(S), s # <<>>
  PROVE  s \o t \in Seq(S) \ {<<>>}
BY ConcatProperties, ConcatSimplifications, ConcatEqualIffEmpty, EmptySeq, LenProperties

\* What Persist writes has the type of the disk.
LEMMA PersistType ==
  ASSUME TypeOK, NEW i \in Server, Persist(i),
         currentTerm' \in [Server -> Nat],
         votedFor' \in [Server -> Server \cup {Nil}],
         log' \in [Server -> Seq(Entry) \ {<<>>}],
         snapshotIndex' \in [Server -> Nat],
         snapshotTerm' \in [Server -> Nat]
  PROVE  disk' \in [Server -> Persisted]
BY DEF Persist, Persisted, TypeOK

LEMMA StepDownType ==
  ASSUME TypeOK, NEW i \in Server, NEW t \in Nat, StepDown(i, t)
  PROVE  /\ currentTerm' \in [Server -> Nat]
         /\ votedFor' \in [Server -> Server \cup {Nil}]
         /\ state' \in [Server -> {"Follower", "Candidate", "Leader"}]
         /\ isLeader' \in [Server -> BOOLEAN]
         /\ disk' \in [Server -> Persisted]
<1>1. /\ currentTerm' \in [Server -> Nat]
      /\ votedFor' \in [Server -> Server \cup {Nil}]
      /\ state' \in [Server -> {"Follower", "Candidate", "Leader"}]
      /\ isLeader' \in [Server -> BOOLEAN]
  BY DEF StepDown, TypeOK
<1>2. UNCHANGED logVars /\ Persist(i)
  BY DEF StepDown
<1> QED
  BY <1>1, <1>2, PersistType DEF TypeOK, logVars

\* The delivery loop leaves call and lastApplied well typed.
LEMMA ApplyLogType ==
  ASSUME TypeOK, NEW g \in Goroutine, NEW i \in Server,
         NEW then \in AppendReply \cup {Nil},
         log' \in [Server -> Seq(Entry) \ {<<>>}],
         snapshotIndex' \in [Server -> Nat],
         commitIndex' \in [Server -> Nat],
         ApplyLog(g, i, then)
  PROVE  /\ lastApplied' \in [Server -> Nat]
         /\ call' \in [Goroutine -> Call \cup {Nil}]
<1> DEFINE next == lastApplied[i] + 1
           offset == next - snapshotIndex'[i]
<1>1. CASE next <= commitIndex'[i] /\ offset \in 1 .. Len(log'[i]) - 1
  <2>1. log'[i] \in Seq(Entry) /\ Len(log'[i]) \in Nat
    BY LenProperties
  <2>2. log'[i][offset + 1] \in Entry
    BY <1>1, <2>1, ElementOfSeq
  <2>3. next \in Nat
    BY DEF TypeOK
  <2>4. [kind |-> "send", at |-> i, index |-> next,
         entry |-> log'[i][offset + 1], then |-> then] \in Call
    BY <2>2, <2>3 DEF Call, Sending
  <2>5. /\ lastApplied' = [lastApplied EXCEPT ![i] = next]
        /\ call' = [call EXCEPT ![g] =
             [kind |-> "send", at |-> i, index |-> next,
              entry |-> log'[i][offset + 1], then |-> then]]
    BY <1>1 DEF ApplyLog
  <2> HIDE DEF next, offset
  <2> QED
    BY <2>3, <2>4, <2>5 DEF TypeOK
<1>2. CASE ~(next <= commitIndex'[i] /\ offset \in 1 .. Len(log'[i]) - 1)
  <2>1. lastApplied' = lastApplied /\ call' = [call EXCEPT ![g] = then]
    BY <1>2 DEF ApplyLog
  <2> QED
    BY <2>1 DEF TypeOK, Call
<1> QED
  BY <1>1, <1>2

LEMMA NoticeTermType ==
  ASSUME TypeOK, NEW i \in Server, NEW t \in Nat, NoticeTerm(i, t)
  PROVE  /\ currentTerm' \in [Server -> Nat]
         /\ state' \in [Server -> {"Follower", "Candidate", "Leader"}]
         /\ isLeader' \in [Server -> BOOLEAN]
BY DEF NoticeTerm, TypeOK

LEMMA AdoptLeaderType ==
  ASSUME TypeOK, NEW i \in Server, NEW t \in Nat, AdoptLeader(i, t)
  PROVE  /\ currentTerm' \in [Server -> Nat]
         /\ votedFor' \in [Server -> Server \cup {Nil}]
         /\ state' \in [Server -> {"Follower", "Candidate", "Leader"}]
         /\ isLeader' \in [Server -> BOOLEAN]
BY DEF AdoptLeader, VoteIn, TypeOK

\* The answer to a vote request keeps voteCalls well typed.
LEMMA AnswerVoteType ==
  ASSUME TypeOK, NEW c \in voteCalls, NEW t \in Nat, NEW b \in BOOLEAN,
         AnswerVote(c, t, b)
  PROVE  voteCalls' \in SUBSET (VoteRequest \cup VoteReply)
BY VoteKinds DEF AnswerVote, TypeOK, VoteReply

-----------------------------------------------------------------------------
(* Types, action by action: elections *)

LEMMA TickerCheckType ==
  ASSUME TypeOK, NEW i \in Server, TickerCheck(i)
  PROVE  TypeOK'
BY DEF TickerCheck, TypeOK, serverVars, logVars, leaderVars, applyVars,
       serviceVars

LEMMA StartElectionType ==
  ASSUME TypeOK, NEW i \in Server, StartElection(i)
  PROVE  TypeOK'
<1>1. /\ LastIndex(i) \in Nat
      /\ LastTerm(i) \in Nat
  BY LogFacts
<1>2. currentTerm[i] + 1 \in Nat
  BY DEF TypeOK
<1>3. voteCalls' \in SUBSET (VoteRequest \cup VoteReply)
  <2> DEFINE Ask(j) ==
               [kind |-> "request", candidate |-> i, to |-> j,
                term |-> currentTerm[i] + 1, lastLogIndex |-> LastIndex(i),
                lastLogTerm |-> LastTerm(i), live |-> TRUE]
  <2>1. \A j \in Server : Ask(j) \in VoteRequest
    BY <1>1, <1>2 DEF VoteRequest
  <2>2. voteCalls' = voteCalls \cup {Ask(j) : j \in Server \ {i}}
    BY DEF StartElection
  <2> HIDE DEF Ask
  <2> QED
    BY <2>1, <2>2 DEF TypeOK
<1>4. ballots' \in SUBSET (Server \X Nat \X Server)
  BY <1>2 DEF StartElection, TypeOK
<1>5. /\ currentTerm' \in [Server -> Nat]
      /\ votedFor' \in [Server -> Server \cup {Nil}]
      /\ state' \in [Server -> {"Follower", "Candidate", "Leader"}]
      /\ voteCount' \in [Server -> Nat]
      /\ ticker' \in [Server -> {"idle", "due"}]
  BY <1>2 DEF StartElection, TypeOK
<1>6. /\ UNCHANGED logVars
      /\ Persist(i)
      /\ UNCHANGED <<isLeader, leaderVars, applyVars, serviceVars, call>>
  BY DEF StartElection
<1>7. disk' \in [Server -> Persisted]
  BY <1>5, <1>6, PersistType DEF TypeOK, logVars
<1> QED
  BY <1>3, <1>4, <1>5, <1>6, <1>7
     DEF TypeOK, logVars, leaderVars, applyVars, serviceVars

LEMMA RequestVoteStaleType ==
  ASSUME TypeOK, NEW c \in voteCalls, RequestVoteStale(c)
  PROVE  TypeOK'
<1>1. currentTerm[c.to] \in Nat
  BY VoteKinds DEF TypeOK
<1>2. voteCalls' \in SUBSET (VoteRequest \cup VoteReply)
  BY <1>1, AnswerVoteType DEF RequestVoteStale
<1> QED
  BY <1>2 DEF RequestVoteStale, TypeOK, serverVars, logVars, leaderVars,
              applyVars, serviceVars

LEMMA RequestVoteGrantType ==
  ASSUME TypeOK, NEW c \in voteCalls, RequestVoteGrant(c)
  PROVE  TypeOK'
<1>1. /\ c.to \in Server
      /\ c.candidate \in Server
      /\ c.term \in Nat
  BY VoteKinds DEF TypeOK
<1>2. voteCalls' \in SUBSET (VoteRequest \cup VoteReply)
  BY <1>1, AnswerVoteType DEF RequestVoteGrant
<1>3. /\ currentTerm' \in [Server -> Nat]
      /\ state' \in [Server -> {"Follower", "Candidate", "Leader"}]
      /\ isLeader' \in [Server -> BOOLEAN]
  BY <1>1, NoticeTermType DEF RequestVoteGrant
<1>4. /\ votedFor' \in [Server -> Server \cup {Nil}]
      /\ ballots' \in SUBSET (Server \X Nat \X Server)
  <2>1. /\ votedFor' = [votedFor EXCEPT ![c.to] = c.candidate]
        /\ ballots' = ballots \cup {<<c.to, c.term, c.candidate>>}
    BY DEF RequestVoteGrant
  <2>2. <<c.to, c.term, c.candidate>> \in Server \X Nat \X Server
    BY <1>1
  <2>3. ballots \in SUBSET (Server \X Nat \X Server)
    BY DEF TypeOK
  <2>4. ballots' \in SUBSET (Server \X Nat \X Server)
    BY <2>1, <2>2, <2>3
  <2>5. votedFor' \in [Server -> Server \cup {Nil}]
    BY <1>1, <2>1 DEF TypeOK
  <2> QED
    BY <2>4, <2>5
<1>5. /\ UNCHANGED logVars
      /\ Persist(c.to)
      /\ UNCHANGED <<voteCount, ticker, leaderVars, applyVars, serviceVars,
                     call>>
  BY DEF RequestVoteGrant
<1>6. disk' \in [Server -> Persisted]
  BY <1>1, <1>3, <1>4, <1>5, PersistType DEF TypeOK, logVars
<1> QED
  BY <1>2, <1>3, <1>4, <1>5, <1>6
     DEF TypeOK, logVars, leaderVars, applyVars, serviceVars

LEMMA RequestVoteDenyType ==
  ASSUME TypeOK, NEW c \in voteCalls, RequestVoteDeny(c)
  PROVE  TypeOK'
<1>1. /\ c.to \in Server
      /\ c.term \in Nat
  BY VoteKinds DEF TypeOK
<1>2. voteCalls' \in SUBSET (VoteRequest \cup VoteReply)
  BY <1>1, AnswerVoteType DEF RequestVoteDeny
<1>3. /\ currentTerm' \in [Server -> Nat]
      /\ state' \in [Server -> {"Follower", "Candidate", "Leader"}]
      /\ isLeader' \in [Server -> BOOLEAN]
  BY <1>1, NoticeTermType DEF RequestVoteDeny
<1>4. votedFor' \in [Server -> Server \cup {Nil}]
  BY <1>1 DEF RequestVoteDeny, VoteIn, TypeOK
<1> QED
  BY <1>2, <1>3, <1>4
     DEF RequestVoteDeny, TypeOK, logVars, leaderVars, applyVars, serviceVars

LEMMA VoteIgnoredType ==
  ASSUME TypeOK, NEW c \in voteCalls, VoteIgnored(c)
  PROVE  TypeOK'
BY DEF VoteIgnored, TypeOK, serverVars, logVars, leaderVars, applyVars,
       serviceVars

LEMMA VoteOutdatedType ==
  ASSUME TypeOK, NEW c \in voteCalls, VoteOutdated(c)
  PROVE  TypeOK'
<1>1. c \in VoteReply
  BY VoteKinds DEF VoteOutdated, TypeOK
<1>2. c.candidate \in Server /\ c.replyTerm \in Nat
  BY <1>1 DEF VoteReply
<1>3. StepDown(c.candidate, c.replyTerm)
  BY DEF VoteOutdated
<1>4. voteCalls' \in SUBSET (VoteRequest \cup VoteReply)
  BY DEF VoteOutdated, TypeOK
<1>5. UNCHANGED <<voteCount, ticker, ballots, leaderVars, applyVars,
                  serviceVars, call, logVars>>
  BY <1>3 DEF VoteOutdated, StepDown
<1> QED
  BY <1>2, <1>3, <1>4, <1>5, StepDownType
     DEF TypeOK, logVars, leaderVars, applyVars, serviceVars

LEMMA VoteCountedType ==
  ASSUME TypeOK, NEW c \in voteCalls, VoteCounted(c)
  PROVE  TypeOK'
<1> DEFINE i == c.candidate
<1>1. i \in Server
  BY VoteKinds DEF TypeOK
<1>2. /\ LastIndex(i) + 1 \in Nat
      /\ snapshotIndex[i] \in Nat
  BY <1>1, LogFacts
<1>3. /\ voteCount' = [voteCount EXCEPT ![i] = @ + 1]
      /\ voteCalls' = voteCalls \ {c}
      /\ \/ /\ state' = [state EXCEPT ![i] = "Leader"]
            /\ isLeader' = [isLeader EXCEPT ![i] = TRUE]
            /\ nextIndex' = [nextIndex EXCEPT ![i] =
                               [j \in Server |-> LastIndex(i) + 1]]
            /\ matchIndex' = [matchIndex EXCEPT ![i] =
                                [j \in Server |-> snapshotIndex[i]]]
         \/ UNCHANGED <<state, isLeader, leaderVars>>
      /\ UNCHANGED <<currentTerm, votedFor, ticker, ballots, logVars,
                     applyVars, serviceVars, disk, call>>
  BY DEF VoteCounted
<1> HIDE DEF i
<1>4. /\ nextIndex' \in [Server -> [Server -> Nat]]
      /\ matchIndex' \in [Server -> [Server -> Nat]]
      /\ state' \in [Server -> {"Follower", "Candidate", "Leader"}]
      /\ isLeader' \in [Server -> BOOLEAN]
  <2>1. /\ [j \in Server |-> LastIndex(i) + 1] \in [Server -> Nat]
        /\ [j \in Server |-> snapshotIndex[i]] \in [Server -> Nat]
    BY <1>2
  <2>2. CASE UNCHANGED <<state, isLeader, leaderVars>>
    BY <2>2 DEF TypeOK, leaderVars
  <2>3. CASE ~UNCHANGED <<state, isLeader, leaderVars>>
    <3>1. /\ state' \in [Server -> {"Follower", "Candidate", "Leader"}]
          /\ isLeader' \in [Server -> BOOLEAN]
      BY <1>1, <1>3, <2>3 DEF TypeOK
    <3>2. nextIndex' \in [Server -> [Server -> Nat]]
      BY <1>1, <1>3, <2>1, <2>3 DEF TypeOK
    <3>3. matchIndex' \in [Server -> [Server -> Nat]]
      BY <1>1, <1>3, <2>1, <2>3 DEF TypeOK
    <3> QED
      BY <3>1, <3>2, <3>3
  <2> QED
    BY <2>2, <2>3
<1>5. /\ voteCount' \in [Server -> Nat]
      /\ voteCalls' \in SUBSET (VoteRequest \cup VoteReply)
  BY <1>1, <1>3 DEF TypeOK
<1> QED
  BY <1>3, <1>4, <1>5 DEF TypeOK, logVars, applyVars, serviceVars

-----------------------------------------------------------------------------
(* Types, action by action: replication *)

LEMMA StartType ==
  ASSUME TypeOK, NEW i \in Server, NEW cmd \in Command, Start(i, cmd)
  PROVE  TypeOK'
<1> DEFINE e == [term |-> currentTerm[i], command |-> cmd]
<1>1. e \in Entry
  BY DEF TypeOK, Entry
<1>2. Append(log[i], e) \in Seq(Entry) \ {<<>>}
  BY <1>1, LogFacts, AppendProperties, EmptySeq
<1>3. /\ log' = [log EXCEPT ![i] = Append(@, e)]
      /\ UNCHANGED <<serverVars, snapshotIndex, snapshotTerm>>
      /\ Persist(i)
      /\ UNCHANGED <<electionVars, leaderVars, applyVars, serviceVars, call>>
  BY DEF Start
<1> HIDE DEF e
<1>4. log' \in [Server -> Seq(Entry) \ {<<>>}]
  BY <1>2, <1>3 DEF TypeOK
<1>5. disk' \in [Server -> Persisted]
  BY <1>3, <1>4, PersistType DEF TypeOK, serverVars
<1> QED
  BY <1>3, <1>4, <1>5 DEF TypeOK, serverVars, electionVars, leaderVars,
                          applyVars, serviceVars

\* A step that changes call only.
LEMMA OnlyCallType ==
  ASSUME TypeOK, NEW g \in Goroutine, NEW c \in Call \cup {Nil},
         call' = [call EXCEPT ![g] = c],
         UNCHANGED <<serverVars, electionVars, logVars, leaderVars, applyVars,
                     serviceVars, disk>>
  PROVE  TypeOK'
BY DEF TypeOK, serverVars, electionVars, logVars, leaderVars, applyVars,
       serviceVars

LEMMA SendSnapshotType ==
  ASSUME TypeOK, NEW g \in Goroutine, NEW i \in Server, NEW j \in Server,
         SendSnapshot(g, i, j)
  PROVE  TypeOK'
<1> DEFINE m == [kind |-> "install", caller |-> i, to |-> j,
                 term |-> currentTerm[i], lastIndex |-> snapshotIndex[i],
                 lastTerm |-> snapshotTerm[i]]
<1>1. m \in Call
  BY DEF TypeOK, Call, InstallRequest
<1>2. /\ call' = [call EXCEPT ![g] = m]
      /\ UNCHANGED <<serverVars, electionVars, logVars, leaderVars, applyVars,
                     serviceVars, disk>>
  BY DEF SendSnapshot
<1> HIDE DEF m
<1> QED
  BY <1>1, <1>2, OnlyCallType

LEMMA SendEntriesType ==
  ASSUME TypeOK, NEW g \in Goroutine, NEW i \in Server, NEW j \in Server,
         SendEntries(g, i, j)
  PROVE  TypeOK'
<1> DEFINE prev == nextIndex[i][j] - 1
           m == [kind |-> "append", caller |-> i, to |-> j,
                 term |-> currentTerm[i], prevLogIndex |-> prev,
                 prevLogTerm |-> TermAt(i, prev),
                 entries |-> EntriesFrom(i, prev + 1),
                 leaderCommit |-> commitIndex[i]]
<1>1. /\ prev \in snapshotIndex[i] .. LastIndex(i)
      /\ call' = [call EXCEPT ![g] = m]
      /\ UNCHANGED <<serverVars, electionVars, logVars, leaderVars, applyVars,
                     serviceVars, disk>>
  BY DEF SendEntries
<1>2. prev \in Nat /\ prev >= snapshotIndex[i] /\ snapshotIndex[i] \in Nat
  BY <1>1, LogFacts
<1>3. TermAt(i, prev) \in Nat
  BY <1>1, TermAtType
<1>4. (prev + 1) - snapshotIndex[i] + 1 \in Nat \ {0}
  BY <1>2
<1>5. EntriesFrom(i, prev + 1) \in Seq(Entry)
  BY <1>4, LogFacts, SuffixType DEF EntriesFrom
<1>6. commitIndex[i] \in Nat /\ currentTerm[i] \in Nat
  BY DEF TypeOK
<1> HIDE DEF prev
<1>7. m \in Call
  BY <1>2, <1>3, <1>5, <1>6 DEF Call, AppendRequest
<1> HIDE DEF m
<1> QED
  BY <1>1, <1>7, OnlyCallType

\* What a goroutine that hands over something can go on to.
LEMMA ThenType ==
  ASSUME TypeOK, NEW g \in Goroutine, call[g] # Nil
  PROVE  /\ call[g].kind = "send" =>
              /\ call[g].at \in Server
              /\ call[g].index \in Nat
              /\ call[g].entry \in Entry
              /\ call[g].then \in AppendReply \cup {Nil}
         /\ call[g].kind = "relock" =>
              call[g].at \in Server /\ call[g].then \in AppendReply \cup {Nil}
         /\ call[g].kind = "notify" =>
              /\ call[g].at \in Server
              /\ call[g].index \in Nat
              /\ call[g].then \in InstallReply \cup {Nil}
<1>1. call[g] \in Call \cup {Nil}
  BY DEF TypeOK
<1>2. /\ call[g].kind = "send" => call[g] \in Sending
      /\ call[g].kind = "relock" => call[g] \in Relocking
      /\ call[g].kind = "notify" => call[g] \in Notifying
  BY <1>1, CallKinds
<1> QED
  BY <1>2 DEF Sending, Relocking, Notifying

LEMMA DeliverType ==
  ASSUME TypeOK, NEW g \in Goroutine, Deliver(g)
  PROVE  TypeOK'
<1> DEFINE d == call[g]
           c == [kind |-> "relock", at |-> d.at, then |-> d.then]
<1>1. /\ d # Nil /\ d.kind = "send"
      /\ delivered' = [delivered EXCEPT ![d.at] = d.index]
      /\ applied' = applied \cup {<<d.index, d.entry>>}
      /\ call' = [call EXCEPT ![g] = c]
      /\ UNCHANGED <<serverVars, electionVars, logVars, leaderVars, applyVars,
                     disk>>
  BY DEF Deliver
<1>2. /\ d.at \in Server /\ d.index \in Nat /\ d.entry \in Entry
      /\ d.then \in AppendReply \cup {Nil}
  BY <1>1, ThenType
<1> HIDE DEF d
<1>3. c \in Call
  BY <1>2 DEF Call, Relocking
<1> HIDE DEF c
<1>4. delivered' \in [Server -> Nat]
  BY <1>1, <1>2 DEF TypeOK
<1>5. applied' \in SUBSET (Nat \X Entry)
  BY <1>1, <1>2 DEF TypeOK
<1>6. call' \in [Goroutine -> Call \cup {Nil}]
  BY <1>1, <1>3 DEF TypeOK
<1> QED
  BY <1>1, <1>4, <1>5, <1>6
     DEF TypeOK, serverVars, electionVars, logVars, leaderVars, applyVars

LEMMA ResumeType ==
  ASSUME TypeOK, NEW g \in Goroutine, Resume(g)
  PROVE  TypeOK'
<1> DEFINE d == call[g]
<1>1. /\ d # Nil /\ d.kind = "relock"
      /\ UNCHANGED <<logVars, commitIndex>>
      /\ ApplyLog(g, d.at, d.then)
      /\ UNCHANGED <<serverVars, electionVars, leaderVars, serviceVars, disk>>
  BY DEF Resume
<1>2. d.at \in Server /\ d.then \in AppendReply \cup {Nil}
  BY <1>1, ThenType
<1> HIDE DEF d
<1>3. /\ log' \in [Server -> Seq(Entry) \ {<<>>}]
      /\ snapshotIndex' \in [Server -> Nat]
      /\ commitIndex' \in [Server -> Nat]
  BY <1>1 DEF TypeOK, logVars
<1>4. /\ lastApplied' \in [Server -> Nat]
      /\ call' \in [Goroutine -> Call \cup {Nil}]
  BY <1>1, <1>2, <1>3, ApplyLogType
<1> QED
  BY <1>1, <1>3, <1>4
     DEF TypeOK, serverVars, electionVars, leaderVars, serviceVars, logVars

LEMMA DeliverSnapshotType ==
  ASSUME TypeOK, NEW g \in Goroutine, DeliverSnapshot(g)
  PROVE  TypeOK'
<1> DEFINE d == call[g]
<1>1. /\ d # Nil /\ d.kind = "notify"
      /\ delivered' = [delivered EXCEPT ![d.at] = d.index]
      /\ call' = [call EXCEPT ![g] = d.then]
      /\ UNCHANGED <<serverVars, electionVars, logVars, leaderVars, applyVars,
                     applied, disk>>
  BY DEF DeliverSnapshot
<1>2. /\ d.at \in Server /\ d.index \in Nat
      /\ d.then \in Call \cup {Nil}
  BY <1>1, ThenType DEF Call
<1> HIDE DEF d
<1>3. /\ delivered' \in [Server -> Nat]
      /\ call' \in [Goroutine -> Call \cup {Nil}]
  BY <1>1, <1>2 DEF TypeOK
<1> QED
  BY <1>1, <1>3
     DEF TypeOK, serverVars, electionVars, logVars, leaderVars, applyVars

-----------------------------------------------------------------------------
(* Types, action by action: the handlers *)

LEMMA RequestType ==
  ASSUME TypeOK, NEW g \in Goroutine, call[g] # Nil
  PROVE  /\ call[g].kind = "append" => call[g] \in AppendRequest
         /\ call[g].kind = "install" => call[g] \in InstallRequest
         /\ call[g].kind = "appended" => call[g] \in AppendReply
         /\ call[g].kind = "installed" => call[g] \in InstallReply
BY CallKinds DEF TypeOK

LEMMA AppendedType ==
  ASSUME NEW m \in AppendRequest, NEW t \in Nat, NEW b \in BOOLEAN,
         NEW n \in Nat, NEW u \in Int
  PROVE  Appended(m, t, b, n, u) \in AppendReply \cup {Nil}
<1>1. /\ m.caller \in Server \cup {Nil} /\ m.to \in Server
      /\ m.prevLogIndex \in Nat /\ m.entries \in Seq(Entry)
  BY DEF AppendRequest
<1>2. Match(m) \in Nat
  BY <1>1, LenProperties DEF Match
<1> QED
  BY <1>1, <1>2 DEF Appended, AppendReply

LEMMA NoConflictType ==
  ASSUME NEW m \in AppendRequest, NEW t \in Nat, NEW b \in BOOLEAN
  PROVE  Appended(m, t, b, 0, 0) \in AppendReply \cup {Nil}
<1>1. \A n \in Nat, u \in Int :
        Appended(m, t, b, n, u) \in AppendReply \cup {Nil}
  BY AppendedType
<1> QED
  BY <1>1

LEMMA InstalledType ==
  ASSUME TypeOK, NEW m \in InstallRequest
  PROVE  Installed(m) \in InstallReply \cup {Nil}
BY DEF Installed, InstallRequest, InstallReply, TypeOK

LEMMA AppendStaleType ==
  ASSUME TypeOK, NEW g \in Goroutine, AppendStale(g)
  PROVE  TypeOK'
<1> DEFINE m == call[g]
<1>1. /\ m # Nil /\ m.kind = "append"
      /\ call' = [call EXCEPT ![g] =
                    Appended(m, currentTerm[m.to], FALSE, 0, 0)]
      /\ UNCHANGED <<serverVars, electionVars, logVars, leaderVars, applyVars,
                     serviceVars, disk>>
  BY DEF AppendStale
<1>2. m \in AppendRequest
  BY <1>1, RequestType
<1>3. currentTerm[m.to] \in Nat
  BY <1>2 DEF AppendRequest, TypeOK
<1> HIDE DEF m
<1>4. Appended(m, currentTerm[m.to], FALSE, 0, 0) \in Call \cup {Nil}
  BY <1>2, <1>3, NoConflictType DEF Call
<1> QED
  BY <1>1, <1>4, OnlyCallType

LEMMA AppendMismatchType ==
  ASSUME TypeOK, NEW g \in Goroutine, AppendMismatch(g)
  PROVE  TypeOK'
<1> DEFINE m == call[g]
<1>1. /\ m # Nil /\ m.kind = "append"
      /\ AdoptLeader(m.to, m.term)
      /\ UNCHANGED logVars
      /\ IF m.term > currentTerm[m.to] THEN Persist(m.to) ELSE UNCHANGED disk
      /\ UNCHANGED <<electionVars, leaderVars, applyVars, serviceVars>>
  BY DEF AppendMismatch
<1>2. m \in AppendRequest
  BY <1>1, RequestType
<1>3. m.to \in Server /\ m.term \in Nat
  BY <1>2 DEF AppendRequest
<1>4. PICK index \in 0 .. LastIndex(m.to) + 1,
           term \in {-1} \cup {log[m.to][r].term : r \in DOMAIN log[m.to]} :
        call' = [call EXCEPT ![g] = Appended(m, m.term, FALSE, index, term)]
  BY DEF AppendMismatch
<1> HIDE DEF m
<1>5. index \in Nat /\ term \in Int
  <2>1. LastIndex(m.to) \in Nat
    BY <1>3, LogFacts
  <2>2. \A r \in DOMAIN log[m.to] : log[m.to][r].term \in Int
    <3>1. \A r \in DOMAIN log[m.to] : log[m.to][r] \in Entry
      BY <1>3, LogFacts
    <3>2. \A e \in Entry : e.term \in Int
      BY DEF Entry
    <3> QED
      BY <3>1, <3>2
  <2> QED
    BY <2>1, <2>2
<1>6. call' \in [Goroutine -> Call \cup {Nil}]
  <2>1. Appended(m, m.term, FALSE, index, term) \in AppendReply \cup {Nil}
    BY <1>2, <1>3, <1>5, AppendedType
  <2> QED
    BY <1>4, <2>1 DEF TypeOK, Call
<1>7. /\ currentTerm' \in [Server -> Nat]
      /\ votedFor' \in [Server -> Server \cup {Nil}]
      /\ state' \in [Server -> {"Follower", "Candidate", "Leader"}]
      /\ isLeader' \in [Server -> BOOLEAN]
  BY <1>1, <1>3, AdoptLeaderType
<1>8. disk' \in [Server -> Persisted]
  BY <1>1, <1>3, <1>7, PersistType DEF TypeOK, logVars
<1> QED
  BY <1>1, <1>6, <1>7, <1>8
     DEF TypeOK, electionVars, logVars, leaderVars, applyVars, serviceVars

\* The merged log, for a call whose previous entry the peer holds.
LEMMA MergeType ==
  ASSUME TypeOK, NEW i \in Server, NEW m \in AppendRequest,
         HasPrevious(i, m), Merge(i, m)
  PROVE  log' \in [Server -> Seq(Entry) \ {<<>>}]
<1>1. /\ m.entries \in Seq(Entry) /\ m.prevLogIndex \in Nat
      /\ Len(m.entries) \in Nat
      /\ DOMAIN m.entries = 1 .. Len(m.entries)
  BY LenProperties DEF AppendRequest
<1>2. CASE UNCHANGED log
  BY <1>2 DEF TypeOK
<1>3. ASSUME NEW k \in DOMAIN m.entries,
             \A p \in 1 .. k - 1 : Present(i, m, p),
             log' = [log EXCEPT ![i] =
                       SubSeq(@, 1, m.prevLogIndex + k - snapshotIndex[i])
                         \o SubSeq(m.entries, k, Len(m.entries))]
      PROVE  log' \in [Server -> Seq(Entry) \ {<<>>}]
  <2> DEFINE cut == m.prevLogIndex + k - snapshotIndex[i]
  <2>1. /\ k \in Nat \ {0} /\ LastIndex(i) \in Nat
        /\ snapshotIndex[i] \in Nat /\ Len(log[i]) \in Nat
    BY <1>1, LogFacts
  <2>2. m.prevLogIndex + (k - 1) <= LastIndex(i)
    <3>1. CASE k = 1
      BY <1>1, <2>1, <3>1 DEF HasPrevious
    <3>2. CASE k # 1
      <4>1. Present(i, m, k - 1)
        BY <1>3, <2>1, <3>2
      <4> QED
        BY <4>1 DEF Present
    <3> QED
      BY <3>1, <3>2
  <2>3. cut \in 1 .. Len(log[i])
    BY <1>1, <2>1, <2>2 DEF HasPrevious, LastIndex
  <2>4. SubSeq(log[i], 1, cut) \in Seq(Entry) /\ SubSeq(log[i], 1, cut) # <<>>
    BY <2>3, LogFacts, PrefixType
  <2>5. SubSeq(m.entries, k, Len(m.entries)) \in Seq(Entry)
    BY <1>1, <2>1, SuffixType
  <2>6. SubSeq(log[i], 1, cut) \o SubSeq(m.entries, k, Len(m.entries))
          \in Seq(Entry) \ {<<>>}
    BY <2>4, <2>5, NonEmptyConcat
  <2>7. log' = [log EXCEPT ![i] = SubSeq(log[i], 1, cut) \o
                                    SubSeq(m.entries, k, Len(m.entries))]
    BY <1>3
  <2> QED
    BY <2>6, <2>7 DEF TypeOK
<1> QED
  BY <1>2, <1>3 DEF Merge

LEMMA AppendAcceptType ==
  ASSUME TypeOK, NEW g \in Goroutine, AppendAccept(g)
  PROVE  TypeOK'
<1> DEFINE m == call[g]
           reply == Appended(m, m.term, TRUE, 0, 0)
<1>1. /\ m # Nil /\ m.kind = "append"
      /\ HasPrevious(m.to, m)
      /\ AdoptLeader(m.to, m.term)
      /\ Merge(m.to, m)
      /\ UNCHANGED <<snapshotIndex, snapshotTerm>>
      /\ IF m.term > currentTerm[m.to] \/ log' # log
         THEN Persist(m.to) ELSE UNCHANGED disk
      /\ \/ /\ commitIndex' = [commitIndex EXCEPT ![m.to] =
                 Smaller(m.leaderCommit, m.prevLogIndex + Len(m.entries))]
            /\ ApplyLog(g, m.to, reply)
         \/ /\ UNCHANGED applyVars
            /\ call' = [call EXCEPT ![g] = reply]
      /\ UNCHANGED <<electionVars, leaderVars, serviceVars>>
  BY DEF AppendAccept, CommitOf
<1>2. m \in AppendRequest
  BY <1>1, RequestType
<1>3. /\ m.to \in Server /\ m.term \in Nat
      /\ m.leaderCommit \in Nat /\ m.prevLogIndex + Len(m.entries) \in Nat
  BY <1>2, LenProperties DEF AppendRequest
<1>4. reply \in AppendReply \cup {Nil}
  BY <1>2, <1>3, NoConflictType
<1> HIDE DEF m, reply
<1>5. log' \in [Server -> Seq(Entry) \ {<<>>}]
  BY <1>1, <1>2, <1>3, MergeType
<1>6. /\ currentTerm' \in [Server -> Nat]
      /\ votedFor' \in [Server -> Server \cup {Nil}]
      /\ state' \in [Server -> {"Follower", "Candidate", "Leader"}]
      /\ isLeader' \in [Server -> BOOLEAN]
  BY <1>1, <1>3, AdoptLeaderType
<1>7. /\ snapshotIndex' \in [Server -> Nat]
      /\ snapshotTerm' \in [Server -> Nat]
  BY <1>1 DEF TypeOK
<1>8. disk' \in [Server -> Persisted]
  BY <1>1, <1>3, <1>5, <1>6, <1>7, PersistType DEF TypeOK
<1>9. /\ commitIndex' \in [Server -> Nat]
      /\ lastApplied' \in [Server -> Nat]
      /\ call' \in [Goroutine -> Call \cup {Nil}]
  <2>1. CASE ApplyLog(g, m.to, reply) /\
             commitIndex' = [commitIndex EXCEPT ![m.to] =
               Smaller(m.leaderCommit, m.prevLogIndex + Len(m.entries))]
    <3>1. Smaller(m.leaderCommit, m.prevLogIndex + Len(m.entries)) \in Nat
      BY <1>3 DEF Smaller
    <3>2. commitIndex' \in [Server -> Nat]
      BY <2>1, <3>1 DEF TypeOK
    <3> QED
      BY <1>3, <1>4, <1>5, <1>7, <2>1, <3>2, ApplyLogType
  <2>2. CASE UNCHANGED applyVars /\ call' = [call EXCEPT ![g] = reply]
    BY <1>4, <2>2 DEF TypeOK, applyVars, Call
  <2> QED
    BY <1>1, <2>1, <2>2
<1> QED
  BY <1>1, <1>5, <1>6, <1>7, <1>8, <1>9
     DEF TypeOK, electionVars, leaderVars, serviceVars

LEMMA InstallStaleType ==
  ASSUME TypeOK, NEW g \in Goroutine, InstallStale(g)
  PROVE  TypeOK'
<1> DEFINE m == call[g]
<1>1. /\ m # Nil /\ m.kind = "install"
      /\ call' = [call EXCEPT ![g] = Installed(m)]
      /\ UNCHANGED <<serverVars, electionVars, logVars, leaderVars, applyVars,
                     serviceVars, disk>>
  BY DEF InstallStale
<1>2. Installed(m) \in Call \cup {Nil}
  BY <1>1, RequestType, InstalledType DEF Call
<1> HIDE DEF m
<1> QED
  BY <1>1, <1>2, OnlyCallType

LEMMA InstallKnownType ==
  ASSUME TypeOK, NEW g \in Goroutine, InstallKnown(g)
  PROVE  TypeOK'
<1> DEFINE m == call[g]
<1>1. /\ m # Nil /\ m.kind = "install"
      /\ NoticeTerm(m.to, m.term)
      /\ votedFor' = [votedFor EXCEPT ![m.to] = VoteIn(m.to, m.term)]
      /\ UNCHANGED logVars
      /\ IF m.term > currentTerm[m.to] THEN Persist(m.to) ELSE UNCHANGED disk
      /\ call' = [call EXCEPT ![g] = Installed(m)]
      /\ UNCHANGED <<electionVars, leaderVars, applyVars, serviceVars>>
  BY DEF InstallKnown
<1>2. m \in InstallRequest /\ Installed(m) \in Call \cup {Nil}
  BY <1>1, RequestType, InstalledType DEF Call
<1>3. m.to \in Server /\ m.term \in Nat
  BY <1>2 DEF InstallRequest
<1> HIDE DEF m
<1>4. /\ currentTerm' \in [Server -> Nat]
      /\ state' \in [Server -> {"Follower", "Candidate", "Leader"}]
      /\ isLeader' \in [Server -> BOOLEAN]
  BY <1>1, <1>3, NoticeTermType
<1>5. votedFor' \in [Server -> Server \cup {Nil}]
  BY <1>1, <1>3 DEF VoteIn, TypeOK
<1>6. disk' \in [Server -> Persisted]
  BY <1>1, <1>3, <1>4, <1>5, PersistType DEF TypeOK, logVars
<1>7. call' \in [Goroutine -> Call \cup {Nil}]
  BY <1>1, <1>2 DEF TypeOK
<1> QED
  BY <1>1, <1>4, <1>5, <1>6, <1>7
     DEF TypeOK, electionVars, logVars, leaderVars, applyVars, serviceVars

\* The log behind a new stand-in.
LEMMA StandInType ==
  ASSUME TypeOK, NEW i \in Server, NEW t \in Nat, NEW n \in Nat \ {0}
  PROVE  <<NoEntry(t)>> \o SubSeq(log[i], n, Len(log[i]))
           \in Seq(Entry) \ {<<>>}
<1>1. <<NoEntry(t)>> \in Seq(Entry) /\ <<NoEntry(t)>> # <<>>
  BY DEF NoEntry, Entry
<1>2. SubSeq(log[i], n, Len(log[i])) \in Seq(Entry)
  BY LogFacts, SuffixType
<1> QED
  BY <1>1, <1>2, NonEmptyConcat

LEMMA InstallSnapshotType ==
  ASSUME TypeOK, NEW g \in Goroutine, InstallSnapshot(g)
  PROVE  TypeOK'
<1> DEFINE m == call[g]
           i == m.to
           offset == m.lastIndex - snapshotIndex[i]
           c == [kind |-> "notify", at |-> i, index |-> m.lastIndex,
                 then |-> Installed(m)]
<1>1. /\ m # Nil /\ m.kind = "install"
      /\ m.lastIndex > snapshotIndex[i]
      /\ NoticeTerm(i, m.term)
      /\ votedFor' = [votedFor EXCEPT ![i] = VoteIn(i, m.term)]
      /\ log' = [log EXCEPT ![i] = <<NoEntry(m.lastTerm)>> \o
                                     SubSeq(log[i], offset + 2, Len(log[i]))]
      /\ snapshotIndex' = [snapshotIndex EXCEPT ![i] = m.lastIndex]
      /\ snapshotTerm' = [snapshotTerm EXCEPT ![i] = m.lastTerm]
      /\ lastApplied' = [lastApplied EXCEPT ![i] = m.lastIndex]
      /\ commitIndex' = [commitIndex EXCEPT ![i] = Larger(@, m.lastIndex)]
      /\ Persist(i)
      /\ call' = [call EXCEPT ![g] = c]
      /\ UNCHANGED <<electionVars, leaderVars, serviceVars>>
  BY DEF InstallSnapshot
<1>2. /\ m \in InstallRequest
      /\ Installed(m) \in InstallReply \cup {Nil}
  BY <1>1, RequestType, InstalledType
<1>3. /\ i \in Server /\ m.term \in Nat
      /\ m.lastIndex \in Nat /\ m.lastTerm \in Nat
  BY <1>2 DEF InstallRequest
<1>4. offset + 2 \in Nat \ {0}
  <2>1. snapshotIndex[i] \in Nat
    BY <1>3, LogFacts
  <2> QED
    BY <1>1, <1>3, <2>1
<1> HIDE DEF m, i, offset
<1>5. c \in Call
  BY <1>2, <1>3 DEF Call, Notifying
<1> HIDE DEF c
<1>6. /\ currentTerm' \in [Server -> Nat]
      /\ state' \in [Server -> {"Follower", "Candidate", "Leader"}]
      /\ isLeader' \in [Server -> BOOLEAN]
  BY <1>1, <1>3, NoticeTermType
<1>7. votedFor' \in [Server -> Server \cup {Nil}]
  BY <1>1, <1>3 DEF VoteIn, TypeOK
<1>8. log' \in [Server -> Seq(Entry) \ {<<>>}]
  <2>1. <<NoEntry(m.lastTerm)>> \o SubSeq(log[i], offset + 2, Len(log[i]))
          \in Seq(Entry) \ {<<>>}
    BY <1>3, <1>4, StandInType
  <2> QED
    BY <1>1, <2>1 DEF TypeOK
<1>9. /\ snapshotIndex' \in [Server -> Nat]
      /\ snapshotTerm' \in [Server -> Nat]
      /\ lastApplied' \in [Server -> Nat]
      /\ commitIndex' \in [Server -> Nat]
  BY <1>1, <1>3 DEF TypeOK, Larger
<1>10. disk' \in [Server -> Persisted]
  BY <1>1, <1>3, <1>6, <1>7, <1>8, <1>9, PersistType
<1>11. call' \in [Goroutine -> Call \cup {Nil}]
  BY <1>1, <1>5 DEF TypeOK
<1> QED
  BY <1>1, <1>6, <1>7, <1>8, <1>9, <1>10, <1>11
     DEF TypeOK, electionVars, leaderVars, serviceVars

-----------------------------------------------------------------------------
(* Types, action by action: the answers *)

LEMMA ReplyOutdatedType ==
  ASSUME TypeOK, NEW g \in Goroutine, ReplyOutdated(g)
  PROVE  TypeOK'
<1> DEFINE r == call[g]
<1>1. /\ r # Nil /\ r.kind \in {"appended", "installed"}
      /\ StepDown(r.caller, r.term)
      /\ call' = [call EXCEPT ![g] = Nil]
      /\ UNCHANGED <<electionVars, leaderVars, applyVars, serviceVars>>
  BY DEF ReplyOutdated
<1>2. r \in AppendReply \cup InstallReply
  BY <1>1, RequestType
<1>3. r.caller \in Server /\ r.term \in Nat
  BY <1>2 DEF AppendReply, InstallReply
<1> HIDE DEF r
<1>4. UNCHANGED logVars
  BY <1>1 DEF StepDown
<1>5. call' \in [Goroutine -> Call \cup {Nil}]
  BY <1>1 DEF TypeOK
<1> QED
  BY <1>1, <1>3, <1>4, <1>5, StepDownType
     DEF TypeOK, electionVars, logVars, leaderVars, applyVars, serviceVars

\* One entry of a leader's tables.
LEMMA TableType ==
  ASSUME NEW f \in [Server -> [Server -> Nat]], NEW i \in Server,
         NEW j \in Server, NEW n \in Nat
  PROVE  [f EXCEPT ![i][j] = n] \in [Server -> [Server -> Nat]]
OBVIOUS

LEMMA AppendSucceededType ==
  ASSUME TypeOK, NEW g \in Goroutine, AppendSucceeded(g)
  PROVE  TypeOK'
<1> DEFINE r == call[g]
           i == r.caller
<1>1. /\ r # Nil /\ r.kind = "appended"
      /\ matchIndex' = [matchIndex EXCEPT ![i][r.to] = r.match]
      /\ nextIndex' = [nextIndex EXCEPT ![i][r.to] = r.match + 1]
      /\ UNCHANGED logVars
      /\ UpdateCommitIndex(g, i)
      /\ UNCHANGED <<serverVars, electionVars, serviceVars, disk>>
  BY DEF AppendSucceeded
<1>2. r \in AppendReply
  BY <1>1, RequestType
<1>3. i \in Server /\ r.to \in Server /\ r.match \in Nat
  BY <1>2 DEF AppendReply
<1> HIDE DEF r, i
<1>4. /\ matchIndex' \in [Server -> [Server -> Nat]]
      /\ nextIndex' \in [Server -> [Server -> Nat]]
  <2>1. matchIndex' \in [Server -> [Server -> Nat]]
    BY <1>1, <1>3, TableType DEF TypeOK
  <2>2. r.match + 1 \in Nat
    BY <1>3
  <2>3. nextIndex' \in [Server -> [Server -> Nat]]
    BY <1>1, <1>3, <2>2, TableType DEF TypeOK
  <2> QED
    BY <2>1, <2>3
<1>5. /\ log' \in [Server -> Seq(Entry) \ {<<>>}]
      /\ snapshotIndex' \in [Server -> Nat]
      /\ snapshotTerm' \in [Server -> Nat]
  BY <1>1 DEF TypeOK, logVars
<1>6. /\ commitIndex' \in [Server -> Nat]
      /\ lastApplied' \in [Server -> Nat]
      /\ call' \in [Goroutine -> Call \cup {Nil}]
  <2>1. CASE UNCHANGED applyVars /\ call' = [call EXCEPT ![g] = Nil]
    BY <2>1 DEF TypeOK, applyVars
  <2>2. ASSUME NEW n \in commitIndex[i] + 1 .. LastIndex(i),
               commitIndex' = [commitIndex EXCEPT ![i] = n],
               ApplyLog(g, i, Nil)
        PROVE  /\ commitIndex' \in [Server -> Nat]
               /\ lastApplied' \in [Server -> Nat]
               /\ call' \in [Goroutine -> Call \cup {Nil}]
    <3>1. n \in Nat
      BY <1>3, LogFacts DEF TypeOK
    <3>2. commitIndex' \in [Server -> Nat]
      BY <2>2, <3>1 DEF TypeOK
    <3> QED
      BY <1>3, <1>5, <2>2, <3>2, ApplyLogType
  <2> QED
    BY <1>1, <2>1, <2>2 DEF UpdateCommitIndex
<1> QED
  BY <1>1, <1>4, <1>5, <1>6 DEF TypeOK, serverVars, electionVars, serviceVars

LEMMA AppendFailedType ==
  ASSUME TypeOK, NEW g \in Goroutine, AppendFailed(g)
  PROVE  TypeOK'
<1> DEFINE r == call[g]
<1>1. /\ r # Nil /\ r.kind = "appended"
      /\ call' = [call EXCEPT ![g] = Nil]
      /\ UNCHANGED <<serverVars, electionVars, logVars, matchIndex, applyVars,
                     serviceVars, disk>>
  BY DEF AppendFailed
<1>2. r \in AppendReply
  BY <1>1, RequestType
<1>3. r.caller \in Server /\ r.to \in Server /\ r.conflictIndex \in Nat
  BY <1>2 DEF AppendReply
<1>4. PICK index \in {r.conflictIndex} \cup
                       1 .. snapshotIndex[r.caller] + Len(log[r.caller]) :
        nextIndex' = [nextIndex EXCEPT ![r.caller][r.to] = index]
  BY DEF AppendFailed
<1> HIDE DEF r
<1>5. index \in Nat
  BY <1>3, <1>4, LogFacts
<1>6. nextIndex' \in [Server -> [Server -> Nat]]
  BY <1>3, <1>4, <1>5, TableType DEF TypeOK
<1>7. call' \in [Goroutine -> Call \cup {Nil}]
  BY <1>1 DEF TypeOK
<1> QED
  BY <1>1, <1>6, <1>7
     DEF TypeOK, serverVars, electionVars, logVars, applyVars, serviceVars

LEMMA InstallDoneType ==
  ASSUME TypeOK, NEW g \in Goroutine, InstallDone(g)
  PROVE  TypeOK'
<1> DEFINE r == call[g]
           i == r.caller
<1>1. /\ r # Nil /\ r.kind = "installed"
      /\ nextIndex' = [nextIndex EXCEPT ![i][r.to] = snapshotIndex[i] + 1]
      /\ matchIndex' = [matchIndex EXCEPT ![i][r.to] = snapshotIndex[i]]
      /\ call' = [call EXCEPT ![g] = Nil]
      /\ UNCHANGED <<serverVars, electionVars, logVars, applyVars,
                     serviceVars, disk>>
  BY DEF InstallDone
<1>2. r \in InstallReply
  BY <1>1, RequestType
<1>3. i \in Server /\ r.to \in Server
  BY <1>2 DEF InstallReply
<1> HIDE DEF r, i
<1>4. snapshotIndex[i] \in Nat /\ snapshotIndex[i] + 1 \in Nat
  <2>1. snapshotIndex[i] \in Nat
    BY <1>3, LogFacts
  <2> QED
    BY <2>1
<1>5. matchIndex' \in [Server -> [Server -> Nat]]
  BY <1>1, <1>3, <1>4, TableType DEF TypeOK
<1>6. nextIndex' \in [Server -> [Server -> Nat]]
  BY <1>1, <1>3, <1>4, TableType DEF TypeOK
<1>7. call' \in [Goroutine -> Call \cup {Nil}]
  BY <1>1 DEF TypeOK
<1> QED
  BY <1>1, <1>5, <1>6, <1>7
     DEF TypeOK, serverVars, electionVars, logVars, applyVars, serviceVars

-----------------------------------------------------------------------------
(* Types, action by action: snapshots, crashes, lost calls *)

LEMMA SnapshotType ==
  ASSUME TypeOK, NEW i \in Server, NEW index, Snapshot(i, index)
  PROVE  TypeOK'
<1> DEFINE t == EntryAt(i, index).term
           n == index - snapshotIndex[i] + 2
<1>1. /\ index \in snapshotIndex[i] + 1 .. Smaller(delivered[i], LastIndex(i))
      /\ snapshotTerm' = [snapshotTerm EXCEPT ![i] = t]
      /\ log' = [log EXCEPT ![i] =
                   <<NoEntry(t)>> \o SubSeq(log[i], n, Len(log[i]))]
      /\ snapshotIndex' = [snapshotIndex EXCEPT ![i] = index]
      /\ UNCHANGED serverVars
      /\ Persist(i)
      /\ UNCHANGED <<electionVars, leaderVars, applyVars, serviceVars, call>>
  BY DEF Snapshot
<1>2. /\ index \in Nat /\ snapshotIndex[i] \in Nat /\ snapshotIndex[i] < index
      /\ index <= LastIndex(i)
  <2>1. snapshotIndex[i] \in Nat /\ LastIndex(i) \in Nat
    BY LogFacts
  <2>2. delivered[i] \in Nat
    BY DEF TypeOK
  <2> QED
    BY <1>1, <2>1, <2>2 DEF Smaller
<1>3. t \in Nat
  <2>1. TermAt(i, index) \in Nat
    BY <1>2, LogFacts, TermAtType
  <2> QED
    BY <1>2, <2>1 DEF TermAt
<1>4. n \in Nat \ {0}
  BY <1>2
<1> HIDE DEF t, n
<1>5. <<NoEntry(t)>> \o SubSeq(log[i], n, Len(log[i])) \in Seq(Entry) \ {<<>>}
  BY <1>3, <1>4, StandInType
<1>6. /\ log' \in [Server -> Seq(Entry) \ {<<>>}]
      /\ snapshotIndex' \in [Server -> Nat]
      /\ snapshotTerm' \in [Server -> Nat]
  BY <1>1, <1>2, <1>3, <1>5 DEF TypeOK
<1>7. disk' \in [Server -> Persisted]
  BY <1>1, <1>6, PersistType DEF TypeOK, serverVars
<1> QED
  BY <1>1, <1>6, <1>7 DEF TypeOK, serverVars, electionVars, leaderVars,
                          applyVars, serviceVars

LEMMA OrphanType ==
  ASSUME NEW c \in Call \cup {Nil}, NEW i \in Server
  PROVE  Orphan(c, i) \in Call \cup {Nil}
<1>1. CASE c = Nil
  BY <1>1 DEF Orphan
<1>2. CASE c # Nil
  <2>1. CASE c \in AppendRequest
    BY <1>2, <2>1 DEF Orphan, AppendRequest, Call
  <2>2. CASE c \in InstallRequest
    BY <1>2, <2>2 DEF Orphan, InstallRequest, Call
  <2>3. CASE c \in AppendReply \cup InstallReply
    BY <1>2, <2>3 DEF Orphan, AppendReply, InstallReply, Call
  <2>4. CASE c \in Sending
    BY <1>2, <2>4 DEF Orphan, Sending, Call
  <2>5. CASE c \in Relocking
    BY <1>2, <2>5 DEF Orphan, Relocking, Call
  <2>6. CASE c \in Notifying
    BY <1>2, <2>6 DEF Orphan, Notifying, Call
  <2> QED
    BY <1>2, <2>1, <2>2, <2>3, <2>4, <2>5, <2>6 DEF Call
<1> QED
  BY <1>1, <1>2

LEMMA RestartType ==
  ASSUME TypeOK, NEW i \in Server, NEW d \in Persisted, RestartFrom(i, d),
         call' \in [Goroutine -> Call \cup {Nil}]
  PROVE  TypeOK'
<1>1. /\ d.term \in Nat /\ d.vote \in Server \cup {Nil}
      /\ d.log \in Seq(Entry) \ {<<>>}
      /\ d.snapshotIndex \in Nat /\ d.snapshotTerm \in Nat
  BY DEF Persisted
<1>2. /\ disk' \in [Server -> Persisted]
      /\ currentTerm' \in [Server -> Nat]
      /\ votedFor' \in [Server -> Server \cup {Nil}]
      /\ state' \in [Server -> {"Follower", "Candidate", "Leader"}]
      /\ isLeader' \in [Server -> BOOLEAN]
      /\ voteCount' \in [Server -> Nat]
      /\ ticker' \in [Server -> {"idle", "due"}]
  BY <1>1 DEF RestartFrom, TypeOK
<1>3. /\ log' \in [Server -> Seq(Entry) \ {<<>>}]
      /\ snapshotIndex' \in [Server -> Nat]
      /\ snapshotTerm' \in [Server -> Nat]
      /\ commitIndex' \in [Server -> Nat]
      /\ lastApplied' \in [Server -> Nat]
      /\ delivered' \in [Server -> Nat]
  BY <1>1 DEF RestartFrom, TypeOK
<1>4. /\ nextIndex' \in [Server -> [Server -> Nat]]
      /\ matchIndex' \in [Server -> [Server -> Nat]]
  <2>1. [j \in Server |-> 0] \in [Server -> Nat]
    OBVIOUS
  <2>2. /\ nextIndex' = [nextIndex EXCEPT ![i] = [j \in Server |-> 0]]
        /\ matchIndex' = [matchIndex EXCEPT ![i] = [j \in Server |-> 0]]
    BY DEF RestartFrom
  <2> QED
    BY <2>1, <2>2 DEF TypeOK
<1>5. voteCalls' \in SUBSET (VoteRequest \cup VoteReply)
  <2>1. \A c \in voteCalls : c.kind = "request" =>
          [c EXCEPT !.live = FALSE] \in VoteRequest
    <3>1. \A c \in VoteRequest : [c EXCEPT !.live = FALSE] \in VoteRequest
      BY DEF VoteRequest
    <3>2. \A c \in voteCalls : c.kind = "request" => c \in VoteRequest
      BY VoteKinds DEF TypeOK
    <3> QED
      BY <3>1, <3>2
  <2>2. voteCalls' =
          {c \in voteCalls : c.candidate # i} \cup
          {[c EXCEPT !.live = FALSE] :
             c \in {r \in voteCalls : r.candidate = i /\ r.kind = "request"}}
    BY DEF RestartFrom
  <2> QED
    BY <2>1, <2>2 DEF TypeOK
<1>6. UNCHANGED <<applied, ballots>>
  BY DEF RestartFrom
<1> QED
  BY <1>2, <1>3, <1>4, <1>5, <1>6 DEF TypeOK

LEMMA RestartStepType ==
  ASSUME TypeOK, NEW i \in Server, Restart(i)
  PROVE  TypeOK'
<1>1. call' = [g \in Goroutine |-> Orphan(call[g], i)] /\ RestartFrom(i, disk[i])
  BY DEF Restart
<1>2. \A g \in Goroutine : Orphan(call[g], i) \in Call \cup {Nil}
  BY OrphanType DEF TypeOK
<1>3. call' \in [Goroutine -> Call \cup {Nil}]
  BY <1>1, <1>2
<1>4. disk[i] \in Persisted
  BY DEF TypeOK
<1> QED
  BY <1>1, <1>3, <1>4, RestartType

LEMMA CrashInHandlerType ==
  ASSUME TypeOK, NEW g \in Goroutine, CrashInHandler(g)
  PROVE  TypeOK'
<1> DEFINE m == call[g]
           d == [disk[m.to] EXCEPT !.term = m.term, !.vote = Nil]
<1>1. /\ m # Nil /\ m.kind \in {"append", "install"}
      /\ RestartFrom(m.to, d)
      /\ call' = [h \in Goroutine |->
                    IF h = g THEN Nil ELSE Orphan(call[h], m.to)]
  BY DEF CrashInHandler
<1>2. m \in AppendRequest \cup InstallRequest
  BY <1>1, RequestType
<1>3. m.to \in Server /\ m.term \in Nat
  BY <1>2 DEF AppendRequest, InstallRequest
<1> HIDE DEF m
<1>4. d \in Persisted
  <2>1. disk[m.to] \in Persisted
    BY <1>3 DEF TypeOK
  <2> QED
    BY <1>3, <2>1 DEF Persisted
<1> HIDE DEF d
<1>5. \A h \in Goroutine : Orphan(call[h], m.to) \in Call \cup {Nil}
  BY <1>3, OrphanType DEF TypeOK
<1>6. call' \in [Goroutine -> Call \cup {Nil}]
  BY <1>1, <1>5
<1> QED
  BY <1>1, <1>3, <1>4, <1>6, RestartType

LEMMA LoseType ==
  ASSUME TypeOK, NEW g \in Goroutine, Lose(g)
  PROVE  TypeOK'
BY OnlyCallType DEF Lose

LEMMA StutterType ==
  ASSUME TypeOK, UNCHANGED vars
  PROVE  TypeOK'
BY DEF vars, TypeOK, serverVars, electionVars, logVars, leaderVars, applyVars,
       serviceVars

\* The kinds of step, once and for all.
LEMMA TypeStep ==
  ASSUME TypeOK, [Next]_vars
  PROVE  TypeOK'
<1>1. ASSUME NEW i \in Server, PeerStep(i) PROVE TypeOK'
  BY <1>1, TickerCheckType, StartElectionType, RestartStepType, StartType,
     SnapshotType DEF PeerStep
<1>2. ASSUME NEW c \in voteCalls, VoteStep(c) PROVE TypeOK'
  BY <1>2, RequestVoteStaleType, RequestVoteGrantType, RequestVoteDenyType,
     VoteIgnoredType, VoteOutdatedType, VoteCountedType DEF VoteStep
<1>3. ASSUME NEW g \in Goroutine, GoroutineStep(g) PROVE TypeOK'
  <2>1. CASE \E i, j \in Server : Send(g, i, j)
    BY <2>1, SendSnapshotType, SendEntriesType DEF Send
  <2>2. CASE Handle(g)
    BY <2>2, AppendStaleType, AppendMismatchType, AppendAcceptType,
       InstallStaleType, InstallKnownType, InstallSnapshotType DEF Handle
  <2>3. CASE TakeAnswer(g)
    BY <2>3, ReplyOutdatedType, AppendSucceededType, AppendFailedType,
       InstallDoneType DEF TakeAnswer
  <2>4. CASE HandOver(g)
    BY <2>4, DeliverType, ResumeType, DeliverSnapshotType DEF HandOver
  <2>5. CASE CrashInHandler(g) \/ Lose(g)
    BY <2>5, CrashInHandlerType, LoseType
  <2> QED
    BY <1>3, <2>1, <2>2, <2>3, <2>4, <2>5 DEF GoroutineStep
<1> QED
  BY <1>1, <1>2, <1>3, StutterType DEF Next

LEMMA TypeInit ==
  ASSUME Init
  PROVE  TypeOK
<1>1. <<NoEntry(0)>> \in Seq(Entry) \ {<<>>}
  BY DEF NoEntry, Entry
<1>2. [term |-> 0, vote |-> Nil, log |-> <<NoEntry(0)>>, snapshotIndex |-> 0,
       snapshotTerm |-> 0] \in Persisted
  BY <1>1 DEF Persisted
<1> QED
  BY <1>1, <1>2 DEF Init, TypeOK

\* Every variable keeps its type, whatever the bounds: in particular no log
\* is ever empty, nor is a log on disk, and no index is negative.
THEOREM TypeCorrect == Spec => []TypeOK
<1>1. Init => TypeOK
  BY TypeInit
<1>2. TypeOK /\ [Next]_vars => TypeOK'
  BY TypeStep
<1> QED
  BY <1>1, <1>2, PTL DEF Spec

-----------------------------------------------------------------------------
(* What a step may do to the state of elections *)

\* No disk goes back to an older term, or changes the vote of its term.
DiskGrows ==
  \A k \in Server :
    /\ disk[k].term <= disk'[k].term
    /\ disk[k].term = disk'[k].term =>
         disk[k].vote = Nil \/ disk[k].vote = disk'[k].vote

\* A new vote is the one the voter's disk holds afterwards.
BallotsCast ==
  /\ ballots \subseteq ballots'
  /\ \A b \in ballots' \ ballots :
       b[2] = disk'[b[1]].term /\ b[3] = disk'[b[1]].vote

SameCall(c, d) ==
  c.candidate = d.candidate /\ c.to = d.to /\ c.term = d.term

\* Every call was there before; a granted vote is an old or an honest one.
CallsKept ==
  \A c \in voteCalls' : \E d \in voteCalls :
    /\ SameCall(c, d)
    /\ c.kind = "reply" /\ c.granted =>
         \/ c = d
         \/ c.replyTerm = c.term /\ <<c.to, c.term, c.candidate>> \in ballots'

\* Peer k is no candidate or leader afterwards, unless it stays what it is.
StaysOrFollows(k) ==
  state'[k] # "Follower" =>
    /\ state'[k] = state[k]
    /\ currentTerm'[k] = currentTerm[k]
    /\ votedFor'[k] = votedFor[k]
    /\ voteCount'[k] = voteCount[k]

-----------------------------------------------------------------------------

LEMMA BallotsPreserved ==
  ASSUME TypeOK, TypeOK', BallotsOnDisk, VoteOnce, DiskGrows, BallotsCast
  PROVE  BallotsOnDisk' /\ VoteOnce'
<1>1. /\ ballots \in SUBSET (Server \X Nat \X Server)
      /\ ballots' \in SUBSET (Server \X Nat \X Server)
      /\ \A k \in Server : disk[k].term \in Nat /\ disk'[k].term \in Nat
  BY DEF TypeOK, Persisted
<1>2. \A b \in ballots' : b[1] \in Server /\ b[2] \in Nat /\ b[3] \in Server
  BY <1>1
<1>3. BallotsOnDisk'
  <2> SUFFICES ASSUME NEW b \in ballots'
               PROVE  /\ b[2] <= disk'[b[1]].term
                      /\ b[2] = disk'[b[1]].term => disk'[b[1]].vote = b[3]
    BY DEF BallotsOnDisk
  <2>1. CASE b \in ballots
    <3>1. /\ b[2] <= disk[b[1]].term
          /\ b[2] = disk[b[1]].term => disk[b[1]].vote = b[3]
      BY <2>1 DEF BallotsOnDisk
    <3>2. b[3] # Nil
      BY <1>2, RaftAssumption
    <3> QED
      BY <1>1, <1>2, <3>1, <3>2 DEF DiskGrows
  <2>2. CASE b \notin ballots
    BY <1>1, <1>2, <2>2 DEF BallotsCast
  <2> QED
    BY <2>1, <2>2
<1>4. VoteOnce'
  <2> SUFFICES ASSUME NEW b \in ballots', NEW c \in ballots',
                      b[1] = c[1], b[2] = c[2]
               PROVE  b[3] = c[3]
    BY <1>1 DEF VoteOnce
  <2>1. CASE b \in ballots /\ c \in ballots
    BY <2>1 DEF VoteOnce
  <2>2. CASE b \notin ballots \/ c \notin ballots
    BY <1>3, <2>2 DEF BallotsCast, BallotsOnDisk
  <2> QED
    BY <2>1, <2>2
<1> QED
  BY <1>3, <1>4

\* Honest calls stay honest.
LEMMA CallsPreserved ==
  ASSUME TypeOK, TypeOK', CallsHonest, DiskGrows, BallotsCast, CallsKept
  PROVE  CallsHonest'
<1> SUFFICES ASSUME NEW c \in voteCalls'
             PROVE  /\ c.to # c.candidate
                    /\ c.term <= disk'[c.candidate].term
                    /\ c.kind = "reply" /\ c.granted =>
                         /\ c.replyTerm = c.term
                         /\ <<c.to, c.term, c.candidate>> \in ballots'
  BY DEF CallsHonest
<1>1. PICK d \in voteCalls :
        /\ SameCall(c, d)
        /\ c.kind = "reply" /\ c.granted =>
             \/ c = d
             \/ c.replyTerm = c.term /\ <<c.to, c.term, c.candidate>> \in ballots'
  BY DEF CallsKept
<1>2. /\ d.to # d.candidate
      /\ d.term <= disk[d.candidate].term
      /\ d.kind = "reply" /\ d.granted =>
           d.replyTerm = d.term /\ <<d.to, d.term, d.candidate>> \in ballots
  BY DEF CallsHonest
<1>3. /\ d.candidate \in Server /\ d.term \in Nat
      /\ disk[d.candidate].term \in Nat
      /\ disk'[d.candidate].term \in Nat
  BY VoteKinds DEF TypeOK, Persisted
<1>4. disk[d.candidate].term <= disk'[d.candidate].term
  BY <1>3 DEF DiskGrows
<1>5. c.to # c.candidate /\ c.term <= disk'[c.candidate].term
  BY <1>1, <1>2, <1>3, <1>4 DEF SameCall
<1>6. ASSUME c.kind = "reply", c.granted
      PROVE  c.replyTerm = c.term /\ <<c.to, c.term, c.candidate>> \in ballots'
  BY <1>1, <1>2, <1>6 DEF BallotsCast
<1> QED
  BY <1>5, <1>6

\* Finite sets of voters.
LEMMA CountedFinite ==
  ASSUME NEW i, NEW t
  PROVE  /\ IsFiniteSet(Counted(i, t)) /\ Cardinality(Counted(i, t)) \in Nat
         /\ IsFiniteSet(Counted(i, t)') /\ Cardinality(Counted(i, t)') \in Nat
<1>1. Counted(i, t) \subseteq Server /\ Counted(i, t)' \subseteq Server
  BY DEF Counted
<1> QED
  BY <1>1, RaftAssumption, FS_Subset, FS_CardinalityType

\* A peer that stays what it is keeps the votes it has counted.
LEMMA CoveredPreserved ==
  ASSUME TypeOK, TypeOK', VotesCovered, NEW k \in Server,
         StaysOrFollows(k), state'[k] # "Follower",
         ballots \subseteq ballots',
         \A c \in voteCalls' : c.candidate = k =>
           \E d \in voteCalls : SameCall(c, d)
  PROVE  /\ votedFor'[k] = k
         /\ <<k, currentTerm'[k], k>> \in ballots'
         /\ voteCount'[k] <= Cardinality(Counted(k, currentTerm[k])')
         /\ state'[k] = "Leader" => IsMajority(voteCount'[k])
<1> DEFINE t == currentTerm[k]
<1>1. /\ state'[k] = state[k] /\ currentTerm'[k] = t
      /\ votedFor'[k] = votedFor[k] /\ voteCount'[k] = voteCount[k]
  BY DEF StaysOrFollows
<1>2. /\ votedFor[k] = k /\ <<k, t, k>> \in ballots
      /\ voteCount[k] <= Cardinality(Counted(k, t))
      /\ state[k] = "Leader" => IsMajority(voteCount[k])
  BY <1>1 DEF VotesCovered
<1>3. Counted(k, t) \subseteq Counted(k, t)'
  <2> SUFFICES ASSUME NEW j \in Counted(k, t)
               PROVE  j \in Counted(k, t)'
    OBVIOUS
  <2>1. /\ j \in Server /\ <<j, t, k>> \in ballots
        /\ \A c \in voteCalls : ~(c.candidate = k /\ c.to = j /\ c.term = t)
    BY DEF Counted
  <2>2. \A c \in voteCalls' : ~(c.candidate = k /\ c.to = j /\ c.term = t)
    BY <2>1 DEF SameCall
  <2> QED
    BY <1>1, <2>1, <2>2 DEF Counted
<1>4. Cardinality(Counted(k, t)) <= Cardinality(Counted(k, t)')
  BY <1>3, CountedFinite, FS_Subset
<1>5. voteCount[k] \in Nat
  BY DEF TypeOK
<1>6. voteCount[k] <= Cardinality(Counted(k, t)')
  BY <1>2, <1>4, <1>5, CountedFinite
<1> QED
  BY <1>1, <1>2, <1>6

\* A step after which nobody runs that did not run before.
LEMMA QuietStep ==
  ASSUME TypeOK, TypeOK', ElectionInv, DiskBehind', DiskGrows, BallotsCast,
         CallsKept, CallsDistinct', \A k \in Server : StaysOrFollows(k)
  PROVE  ElectionInv'
<1>1. BallotsOnDisk' /\ VoteOnce'
  BY BallotsPreserved DEF ElectionInv
<1>2. CallsHonest'
  BY CallsPreserved DEF ElectionInv
<1>3. VotesCovered'
  <2> SUFFICES ASSUME NEW k \in Server, state'[k] # "Follower"
               PROVE  /\ votedFor'[k] = k
                      /\ <<k, currentTerm'[k], k>> \in ballots'
                      /\ voteCount'[k]
                           <= Cardinality(Counted(k, currentTerm[k])')
                      /\ state'[k] = "Leader" => IsMajority(voteCount'[k])
    BY DEF VotesCovered, IsMajority
  <2> QED
    BY CoveredPreserved DEF ElectionInv, BallotsCast, CallsKept
<1> QED
  BY <1>1, <1>2, <1>3 DEF ElectionInv

\* A step that elections take no part in.
LEMMA ElectionStutter ==
  ASSUME ElectionInv,
         UNCHANGED <<currentTerm, votedFor, state, voteCount, voteCalls,
                     ballots, disk>>
  PROVE  ElectionInv'
<1>1. DiskBehind' /\ BallotsOnDisk' /\ VoteOnce'
  BY DEF ElectionInv, DiskBehind, BallotsOnDisk, VoteOnce
<1>2. CallsDistinct' /\ CallsHonest'
  BY DEF ElectionInv, CallsDistinct, CallsHonest
<1>3. VotesCovered'
  <2>1. \A k \in Server :
          Counted(k, currentTerm[k])' = Counted(k, currentTerm[k])
    BY DEF Counted
  <2> QED
    BY <2>1 DEF ElectionInv, VotesCovered, IsMajority
<1> QED
  BY <1>1, <1>2, <1>3 DEF ElectionInv

\* A peer that moves to a newer term without a vote, or stays in its term
\* with its vote, and saves that or does not.
LEMMA TermMoves ==
  ASSUME TypeOK, TypeOK', DiskBehind, NEW i \in Server,
         \A k \in Server \ {i} : /\ currentTerm'[k] = currentTerm[k]
                                 /\ votedFor'[k] = votedFor[k],
         \/ currentTerm'[i] = currentTerm[i] /\ votedFor'[i] = votedFor[i]
         \/ currentTerm'[i] > currentTerm[i] /\ votedFor'[i] = Nil,
         Persist(i) \/ UNCHANGED disk
  PROVE  DiskBehind' /\ DiskGrows
<1>1. \A k \in Server :
        /\ currentTerm[k] \in Nat /\ currentTerm'[k] \in Nat
        /\ disk[k].term \in Nat /\ disk'[k].term \in Nat
  BY DEF TypeOK, Persisted
<1>2. \A k \in Server :
        /\ disk[k].term <= currentTerm[k]
        /\ votedFor[k] =
             IF disk[k].term = currentTerm[k] THEN disk[k].vote ELSE Nil
  BY DEF DiskBehind
<1>3. \A k \in Server \ {i} : disk'[k] = disk[k]
  BY DEF Persist, TypeOK
<1>4. CASE UNCHANGED disk
  BY <1>1, <1>2, <1>4 DEF DiskBehind, DiskGrows
<1>5. CASE Persist(i)
  <2>1. disk'[i].term = currentTerm'[i] /\ disk'[i].vote = votedFor'[i]
    BY <1>5 DEF Persist, TypeOK
  <2>2. DiskBehind'
    BY <1>1, <1>2, <1>3, <2>1 DEF DiskBehind
  <2>3. DiskGrows
    BY <1>1, <1>2, <1>3, <2>1 DEF DiskGrows
  <2> QED
    BY <2>2, <2>3
<1> QED
  BY <1>4, <1>5

LEMMA NobodyRuns ==
  ASSUME TypeOK, UNCHANGED <<currentTerm, votedFor, state, voteCount>>
  PROVE  \A k \in Server : StaysOrFollows(k)
BY DEF StaysOrFollows

LEMMA NoBallot ==
  ASSUME UNCHANGED ballots
  PROVE  BallotsCast
BY DEF BallotsCast

\* Calls that are only dropped.
LEMMA CallsDropped ==
  ASSUME CallsDistinct, voteCalls' \subseteq voteCalls
  PROVE  CallsKept /\ CallsDistinct'
BY DEF CallsKept, CallsDistinct, SameCall

\* The answer to a request replaces it.
LEMMA CallAnswered ==
  ASSUME TypeOK, CallsDistinct, NEW c \in voteCalls, NEW t, NEW b \in BOOLEAN,
         AnswerVote(c, t, b),
         b => t = c.term /\ <<c.to, c.term, c.candidate>> \in ballots'
  PROVE  CallsKept /\ CallsDistinct'
<1> DEFINE r == [kind |-> "reply", candidate |-> c.candidate, to |-> c.to,
                 term |-> c.term, replyTerm |-> t, granted |-> b]
<1>1. SameCall(r, c) /\ r.granted = b /\ r.replyTerm = t
  BY DEF SameCall
<1>2. voteCalls' \subseteq (voteCalls \ {c}) \cup {r}
  BY DEF AnswerVote
<1>3. <<r.to, r.term, r.candidate>> = <<c.to, c.term, c.candidate>>
      /\ r.term = c.term
  OBVIOUS
<1> HIDE DEF r
<1>4. CallsKept
  BY <1>1, <1>2, <1>3 DEF CallsKept, SameCall
<1>5. CallsDistinct'
  <2> SUFFICES ASSUME NEW x \in voteCalls', NEW y \in voteCalls',
                      SameCall(x, y)
               PROVE  x = y
    BY DEF CallsDistinct, SameCall
  <2>1. CASE x \in voteCalls \ {c} /\ y \in voteCalls \ {c}
    BY <2>1 DEF CallsDistinct, SameCall
  <2>2. CASE x = r /\ y \in voteCalls \ {c}
    BY <1>1, <2>2 DEF CallsDistinct, SameCall
  <2>3. CASE y = r /\ x \in voteCalls \ {c}
    BY <1>1, <2>3 DEF CallsDistinct, SameCall
  <2> QED
    BY <1>2, <2>1, <2>2, <2>3
<1> QED
  BY <1>4, <1>5

-----------------------------------------------------------------------------
(* Action by action: elections *)

\* A candidate's new calls differ from every older one by their term.
LEMMA StartElectionSafe ==
  ASSUME TypeOK, TypeOK', ElectionInv, NEW i \in Server, StartElection(i)
  PROVE  ElectionInv'
<1> DEFINE t == currentTerm[i] + 1
           Ask(j) == [kind |-> "request", candidate |-> i, to |-> j,
                      term |-> t, lastLogIndex |-> LastIndex(i),
                      lastLogTerm |-> LastTerm(i), live |-> TRUE]
           asked == {Ask(j) : j \in Server \ {i}}
<1>1. /\ state' = [state EXCEPT ![i] = "Candidate"]
      /\ currentTerm' = [currentTerm EXCEPT ![i] = t]
      /\ votedFor' = [votedFor EXCEPT ![i] = i]
      /\ voteCount' = [voteCount EXCEPT ![i] = 1]
      /\ ballots' = ballots \cup {<<i, t, i>>}
      /\ voteCalls' = voteCalls \cup asked
      /\ Persist(i)
  BY DEF StartElection
<1>2. \A c \in asked : /\ c.kind = "request" /\ c.candidate = i /\ c.term = t
                       /\ c.to \in Server \ {i}
                       /\ c = Ask(c.to)
  OBVIOUS
<1> HIDE DEF Ask, asked
<1>3. \A k \in Server :
        /\ currentTerm[k] \in Nat /\ disk[k].term \in Nat
        /\ disk[k].term <= currentTerm[k]
        /\ votedFor[k] =
             IF disk[k].term = currentTerm[k] THEN disk[k].vote ELSE Nil
  BY DEF TypeOK, Persisted, ElectionInv, DiskBehind
<1>4. /\ disk'[i].term = t /\ disk'[i].vote = i
      /\ \A k \in Server \ {i} : disk'[k] = disk[k]
  BY <1>1 DEF Persist, TypeOK
<1> DEFINE u == t
<1>5. t \in Nat /\ t > currentTerm[i] /\ currentTerm'[i] = t
      /\ votedFor'[i] = i /\ voteCount'[i] = 1 /\ state'[i] = "Candidate"
  BY <1>1, <1>3 DEF TypeOK
<1>6. \A k \in Server \ {i} :
        /\ currentTerm'[k] = currentTerm[k] /\ votedFor'[k] = votedFor[k]
        /\ state'[k] = state[k] /\ voteCount'[k] = voteCount[k]
  BY <1>1 DEF TypeOK
<1>7. DiskBehind'
  BY <1>3, <1>4, <1>5, <1>6 DEF DiskBehind
<1>8. DiskGrows
  BY <1>3, <1>4, <1>5 DEF DiskGrows
<1>9. BallotsCast
  BY <1>1, <1>4 DEF BallotsCast
<1>10. BallotsOnDisk' /\ VoteOnce'
  BY <1>8, <1>9, BallotsPreserved DEF ElectionInv
<1>11. \A c \in voteCalls : c.candidate = i => c.term # t
  <2>1. \A c \in voteCalls : c.candidate = i => c.term <= disk[i].term
    BY DEF ElectionInv, CallsHonest
  <2>2. \A c \in voteCalls : c.term \in Nat
    BY VoteKinds DEF TypeOK
  <2> QED
    BY <1>3, <1>5, <2>1, <2>2
<1>12. CallsDistinct'
  <2> SUFFICES ASSUME NEW x \in voteCalls', NEW y \in voteCalls',
                      SameCall(x, y)
               PROVE  x = y
    BY DEF CallsDistinct, SameCall
  <2>1. CASE x \in voteCalls /\ y \in voteCalls
    BY <2>1 DEF ElectionInv, CallsDistinct, SameCall
  <2>2. CASE x \in asked /\ y \in voteCalls
    BY <1>2, <1>11, <2>2 DEF SameCall
  <2>3. CASE x \in voteCalls /\ y \in asked
    BY <1>2, <1>11, <2>3 DEF SameCall
  <2>4. CASE x \in asked /\ y \in asked
    BY <1>2, <2>4 DEF SameCall
  <2> QED
    BY <1>1, <2>1, <2>2, <2>3, <2>4
<1>13. CallsHonest'
  <2> SUFFICES ASSUME NEW c \in voteCalls'
               PROVE  /\ c.to # c.candidate
                      /\ c.term <= disk'[c.candidate].term
                      /\ c.kind = "reply" /\ c.granted =>
                           /\ c.replyTerm = c.term
                           /\ <<c.to, c.term, c.candidate>> \in ballots'
    BY DEF CallsHonest
  <2>1. CASE c \in asked
    BY <1>2, <1>4, <1>5, <2>1
  <2>2. CASE c \in voteCalls
    <3>1. /\ c.candidate \in Server /\ c.term \in Nat
      BY <2>2, VoteKinds DEF TypeOK
    <3>2. /\ c.to # c.candidate
          /\ c.term <= disk[c.candidate].term
          /\ c.kind = "reply" /\ c.granted =>
               /\ c.replyTerm = c.term
               /\ <<c.to, c.term, c.candidate>> \in ballots
      BY <2>2 DEF ElectionInv, CallsHonest
    <3>3. c.term <= disk'[c.candidate].term
      BY <1>3, <1>4, <1>5, <3>1, <3>2
    <3> QED
      BY <1>1, <3>2, <3>3
  <2> QED
    BY <1>1, <2>1, <2>2
<1>14. VotesCovered'
  <2> SUFFICES ASSUME NEW k \in Server, state'[k] # "Follower"
               PROVE  /\ votedFor'[k] = k
                      /\ <<k, currentTerm'[k], k>> \in ballots'
                      /\ voteCount'[k]
                           <= Cardinality(Counted(k, currentTerm[k])')
                      /\ state'[k] = "Leader" => IsMajority(voteCount'[k])
    BY DEF VotesCovered, IsMajority
  <2>1. CASE k = i
    <3>1. <<i, t, i>> \in ballots'
      BY <1>1
    <3>2. i \in Counted(i, currentTerm[i])'
      BY <1>5, <1>13, <3>1 DEF Counted, CallsHonest
    <3>3. {i} \subseteq Counted(i, currentTerm[i])'
      BY <3>2
    <3>4. Cardinality({i}) <= Cardinality(Counted(i, currentTerm[i])')
      BY <3>3, CountedFinite, FS_Subset
    <3>5. 1 <= Cardinality(Counted(i, currentTerm[i])')
      BY <3>4, FS_Singleton
    <3> QED
      BY <1>5, <2>1, <3>1, <3>5
  <2>2. CASE k # i
    <3>1. StaysOrFollows(k)
      BY <1>6, <2>2 DEF StaysOrFollows
    <3>2. ballots \subseteq ballots'
      BY <1>1
    <3>3. \A c \in voteCalls' : c.candidate = k =>
            \E d \in voteCalls : SameCall(c, d)
      BY <1>1, <1>2, <2>2 DEF SameCall
    <3>4. VotesCovered
      BY DEF ElectionInv
    <3> QED
      BY <3>1, <3>2, <3>3, <3>4, CoveredPreserved
  <2> QED
    BY <2>1, <2>2
<1> QED
  BY <1>7, <1>10, <1>12, <1>13, <1>14 DEF ElectionInv

LEMMA RequestVoteStaleSafe ==
  ASSUME TypeOK, TypeOK', ElectionInv, NEW c \in voteCalls,
         RequestVoteStale(c)
  PROVE  ElectionInv'
<1>1. /\ AnswerVote(c, currentTerm[c.to], FALSE)
      /\ UNCHANGED <<serverVars, voteCount, ballots, disk>>
  BY DEF RequestVoteStale
<1>2. CallsKept /\ CallsDistinct'
  BY <1>1, CallAnswered DEF ElectionInv
<1>3. UNCHANGED <<currentTerm, votedFor, state>>
  BY <1>1 DEF serverVars
<1>4. DiskBehind' /\ DiskGrows /\ BallotsCast
  BY <1>1, <1>3, NoBallot DEF ElectionInv, DiskBehind, DiskGrows, TypeOK,
                              Persisted
<1> QED
  BY <1>1, <1>2, <1>3, <1>4, NobodyRuns, QuietStep

\* The peer c.to, when it takes notice of the call of a candidate: if it runs
\* itself in the same term, it has voted for itself.
LEMMA NoticeTermStays ==
  ASSUME TypeOK, ElectionInv, NEW i \in Server, NEW t \in Nat,
         t >= currentTerm[i], NoticeTerm(i, t), UNCHANGED voteCount,
         \A k \in Server \ {i} : votedFor'[k] = votedFor[k],
         t = currentTerm[i] /\ state[i] # "Follower" =>
           votedFor'[i] = votedFor[i]
  PROVE  \A k \in Server : StaysOrFollows(k)
<1> SUFFICES ASSUME NEW k \in Server, state'[k] # "Follower"
             PROVE  /\ state'[k] = state[k]
                    /\ currentTerm'[k] = currentTerm[k]
                    /\ votedFor'[k] = votedFor[k]
                    /\ voteCount'[k] = voteCount[k]
  BY DEF StaysOrFollows
<1>1. currentTerm[i] \in Nat
  BY DEF TypeOK
<1>2. /\ currentTerm' = [currentTerm EXCEPT ![i] = t]
      /\ state' = [state EXCEPT ![i] =
                     IF t > currentTerm[i] THEN "Follower" ELSE @]
  BY DEF NoticeTerm
<1>3. CASE k # i
  BY <1>2, <1>3 DEF TypeOK
<1>4. CASE k = i
  <2>1. t = currentTerm[i]
    BY <1>1, <1>2, <1>4 DEF TypeOK
  <2>2. state'[i] = state[i] /\ currentTerm'[i] = currentTerm[i]
    BY <1>1, <1>2, <2>1 DEF TypeOK
  <2> QED
    BY <1>4, <2>1, <2>2
<1> QED
  BY <1>3, <1>4

LEMMA RequestVoteGrantSafe ==
  ASSUME TypeOK, TypeOK', ElectionInv, NEW c \in voteCalls,
         RequestVoteGrant(c)
  PROVE  ElectionInv'
<1> DEFINE i == c.to
<1>1. /\ c.term >= currentTerm[i]
      /\ VoteIn(i, c.term) \in {Nil, c.candidate}
      /\ NoticeTerm(i, c.term)
      /\ votedFor' = [votedFor EXCEPT ![i] = c.candidate]
      /\ ballots' = ballots \cup {<<i, c.term, c.candidate>>}
      /\ AnswerVote(c, c.term, TRUE)
      /\ Persist(i)
      /\ UNCHANGED voteCount
  BY DEF RequestVoteGrant, CanGrant
<1>2. /\ i \in Server /\ c.candidate \in Server /\ c.term \in Nat
  BY VoteKinds DEF TypeOK
<1>3. i # c.candidate
  BY DEF ElectionInv, CallsHonest
<1>4. /\ \A k \in Server :
           /\ currentTerm[k] \in Nat /\ disk[k].term \in Nat
           /\ disk[k].term <= currentTerm[k]
           /\ votedFor[k] =
                IF disk[k].term = currentTerm[k] THEN disk[k].vote ELSE Nil
  BY DEF TypeOK, Persisted, ElectionInv, DiskBehind
<1>5. /\ currentTerm'[i] = c.term /\ votedFor'[i] = c.candidate
      /\ \A k \in Server \ {i} : /\ currentTerm'[k] = currentTerm[k]
                                 /\ votedFor'[k] = votedFor[k]
  BY <1>1, <1>2 DEF NoticeTerm, TypeOK
<1>6. /\ disk'[i].term = c.term /\ disk'[i].vote = c.candidate
      /\ \A k \in Server \ {i} : disk'[k] = disk[k]
  BY <1>1, <1>2, <1>5 DEF Persist, TypeOK
<1>7. DiskBehind'
  <2> SUFFICES ASSUME NEW k \in Server
               PROVE  /\ disk'[k].term <= currentTerm'[k]
                      /\ votedFor'[k] = IF disk'[k].term = currentTerm'[k]
                                        THEN disk'[k].vote ELSE Nil
    BY DEF DiskBehind
  <2>1. CASE k = i
    BY <1>2, <1>5, <1>6, <2>1
  <2>2. CASE k # i
    BY <1>4, <1>5, <1>6, <2>2
  <2> QED
    BY <2>1, <2>2
<1>8. DiskGrows
  <2>1. disk[i].term <= c.term
    BY <1>1, <1>2, <1>4
  <2>2. ASSUME disk[i].term = c.term
        PROVE  disk[i].vote \in {Nil, c.candidate}
    <3>1. currentTerm[i] = c.term
      BY <1>1, <1>2, <1>4, <2>2
    <3> QED
      BY <1>1, <1>2, <1>4, <2>2, <3>1 DEF VoteIn
  <2> QED
    BY <1>4, <1>6, <2>1, <2>2 DEF DiskGrows
<1>9. BallotsCast
  BY <1>1, <1>6 DEF BallotsCast
<1>10. CallsKept /\ CallsDistinct'
  BY <1>1, CallAnswered DEF ElectionInv
<1>11. \A k \in Server : StaysOrFollows(k)
  <2>1. ASSUME c.term = currentTerm[i], state[i] # "Follower"
        PROVE  votedFor'[i] = votedFor[i]
    <3>1. votedFor[i] = i
      BY <1>2, <2>1 DEF ElectionInv, VotesCovered
    <3>2. votedFor[i] \in {Nil, c.candidate}
      BY <1>1, <1>2, <1>4, <2>1 DEF VoteIn
    <3> QED
      BY <1>2, <1>3, <3>1, <3>2, RaftAssumption
  <2> HIDE DEF i
  <2> QED
    BY <1>1, <1>2, <1>5, <2>1, NoticeTermStays
<1> QED
  BY <1>7, <1>8, <1>9, <1>10, <1>11, QuietStep

\* Peer i takes notice of term t.
LEMMA TermNoticed ==
  ASSUME TypeOK, NEW i \in Server, NEW t \in Nat, t >= currentTerm[i],
         currentTerm' = [currentTerm EXCEPT ![i] = t],
         votedFor' = [votedFor EXCEPT ![i] = VoteIn(i, t)]
  PROVE  /\ \A k \in Server \ {i} : /\ currentTerm'[k] = currentTerm[k]
                                    /\ votedFor'[k] = votedFor[k]
         /\ \/ currentTerm'[i] = currentTerm[i] /\ votedFor'[i] = votedFor[i]
            \/ currentTerm'[i] > currentTerm[i] /\ votedFor'[i] = Nil
         /\ t = currentTerm[i] => votedFor'[i] = votedFor[i]
<1>1. currentTerm[i] \in Nat
  BY DEF TypeOK
<1>2. \A k \in Server \ {i} : /\ currentTerm'[k] = currentTerm[k]
                              /\ votedFor'[k] = votedFor[k]
  BY DEF TypeOK
<1>3. currentTerm'[i] = t /\ votedFor'[i] = VoteIn(i, t)
  BY DEF TypeOK
<1> QED
  BY <1>1, <1>2, <1>3 DEF VoteIn

LEMMA RequestVoteDenySafe ==
  ASSUME TypeOK, TypeOK', ElectionInv, NEW c \in voteCalls,
         RequestVoteDeny(c)
  PROVE  ElectionInv'
<1> DEFINE i == c.to
<1>1. /\ c.term >= currentTerm[i]
      /\ NoticeTerm(i, c.term)
      /\ votedFor' = [votedFor EXCEPT ![i] = VoteIn(i, c.term)]
      /\ AnswerVote(c, c.term, FALSE)
      /\ UNCHANGED <<voteCount, ballots, disk>>
  BY DEF RequestVoteDeny
<1>2. i \in Server /\ c.term \in Nat
  BY VoteKinds DEF TypeOK
<1>3. CallsKept /\ CallsDistinct'
  BY <1>1, CallAnswered DEF ElectionInv
<1> HIDE DEF i
<1>4. /\ \A k \in Server \ {i} : /\ currentTerm'[k] = currentTerm[k]
                                 /\ votedFor'[k] = votedFor[k]
      /\ \/ currentTerm'[i] = currentTerm[i] /\ votedFor'[i] = votedFor[i]
         \/ currentTerm'[i] > currentTerm[i] /\ votedFor'[i] = Nil
      /\ c.term = currentTerm[i] => votedFor'[i] = votedFor[i]
  BY <1>1, <1>2, TermNoticed DEF NoticeTerm
<1>5. DiskBehind' /\ DiskGrows
  BY <1>1, <1>2, <1>4, TermMoves DEF ElectionInv
<1>6. \A k \in Server : StaysOrFollows(k)
  BY <1>1, <1>2, <1>4, NoticeTermStays
<1> QED
  BY <1>1, <1>3, <1>5, <1>6, NoBallot, QuietStep

LEMMA VoteIgnoredSafe ==
  ASSUME TypeOK, TypeOK', ElectionInv, NEW c \in voteCalls, VoteIgnored(c)
  PROVE  ElectionInv'
<1>1. /\ voteCalls' \subseteq voteCalls
      /\ UNCHANGED <<currentTerm, votedFor, state, voteCount, ballots, disk>>
  BY DEF VoteIgnored, serverVars
<1>2. DiskBehind' /\ DiskGrows
  BY <1>1 DEF ElectionInv, DiskBehind, DiskGrows, TypeOK, Persisted
<1> QED
  BY <1>1, <1>2, CallsDropped, NoBallot, NobodyRuns, QuietStep
     DEF ElectionInv

\* A step in which peer i at most moves to a newer term, and nobody votes.
LEMMA TermStep ==
  ASSUME TypeOK, TypeOK', ElectionInv, NEW i \in Server,
         \A k \in Server \ {i} : /\ currentTerm'[k] = currentTerm[k]
                                 /\ votedFor'[k] = votedFor[k],
         \/ currentTerm'[i] = currentTerm[i] /\ votedFor'[i] = votedFor[i]
         \/ currentTerm'[i] > currentTerm[i] /\ votedFor'[i] = Nil,
         Persist(i) \/ UNCHANGED disk,
         UNCHANGED ballots, voteCalls' \subseteq voteCalls,
         \A k \in Server : StaysOrFollows(k)
  PROVE  ElectionInv'
<1>1. DiskBehind' /\ DiskGrows
  BY TermMoves DEF ElectionInv
<1>2. CallsKept /\ CallsDistinct'
  BY CallsDropped DEF ElectionInv
<1> QED
  BY <1>1, <1>2, NoBallot, QuietStep

LEMMA StepDownSafe ==
  ASSUME TypeOK, TypeOK', ElectionInv, NEW i \in Server, NEW t \in Nat,
         t > currentTerm[i], StepDown(i, t),
         UNCHANGED <<voteCount, ballots>>, voteCalls' \subseteq voteCalls
  PROVE  ElectionInv'
<1>1. /\ currentTerm' = [currentTerm EXCEPT ![i] = t]
      /\ votedFor' = [votedFor EXCEPT ![i] = Nil]
      /\ state' = [state EXCEPT ![i] = "Follower"]
      /\ Persist(i)
  BY DEF StepDown
<1>2. /\ \A k \in Server \ {i} : /\ currentTerm'[k] = currentTerm[k]
                                 /\ votedFor'[k] = votedFor[k]
      /\ currentTerm'[i] = t /\ votedFor'[i] = Nil
  BY <1>1 DEF TypeOK
<1>3. \A k \in Server : StaysOrFollows(k)
  BY <1>1 DEF StaysOrFollows, TypeOK
<1> QED
  BY <1>1, <1>2, <1>3, TermStep

LEMMA VoteOutdatedSafe ==
  ASSUME TypeOK, TypeOK', ElectionInv, NEW c \in voteCalls, VoteOutdated(c)
  PROVE  ElectionInv'
<1>1. /\ c.kind = "reply"
      /\ c.replyTerm > currentTerm[c.candidate]
      /\ StepDown(c.candidate, c.replyTerm)
      /\ voteCalls' \subseteq voteCalls
      /\ UNCHANGED <<voteCount, ballots>>
  BY DEF VoteOutdated
<1>2. c \in VoteReply
  BY <1>1, VoteKinds DEF TypeOK
<1>3. c.candidate \in Server /\ c.replyTerm \in Nat
  BY <1>2 DEF VoteReply
<1> QED
  BY <1>1, <1>3, StepDownSafe

\* A vote is counted once: its call is gone, so the voter joins Counted.
LEMMA VoteCountedSafe ==
  ASSUME TypeOK, TypeOK', ElectionInv, NEW c \in voteCalls, VoteCounted(c)
  PROVE  ElectionInv'
<1> DEFINE i == c.candidate
           t == currentTerm[i]
<1>1. /\ c.kind = "reply"
      /\ state[i] = "Candidate"
      /\ c.replyTerm = t
      /\ c.granted
      /\ voteCount' = [voteCount EXCEPT ![i] = @ + 1]
      /\ voteCalls' = voteCalls \ {c}
      /\ IF IsMajority(voteCount[i] + 1)
         THEN state' = [state EXCEPT ![i] = "Leader"]
         ELSE UNCHANGED state
      /\ UNCHANGED <<currentTerm, votedFor, ballots, disk>>
  BY DEF VoteCounted
<1>2. i \in Server /\ c.to \in Server /\ voteCount[i] \in Nat
  BY VoteKinds DEF TypeOK
<1>3. c.term = t /\ <<c.to, t, i>> \in ballots
  BY <1>1 DEF ElectionInv, CallsHonest
<1>4. DiskBehind' /\ BallotsOnDisk' /\ VoteOnce'
  BY <1>1 DEF ElectionInv, DiskBehind, BallotsOnDisk, VoteOnce
<1>5. CallsDistinct' /\ CallsHonest'
  BY <1>1 DEF ElectionInv, CallsDistinct, CallsHonest
<1>6. VotesCovered'
  <2> SUFFICES ASSUME NEW k \in Server, state'[k] # "Follower"
               PROVE  /\ votedFor'[k] = k
                      /\ <<k, currentTerm'[k], k>> \in ballots'
                      /\ voteCount'[k]
                           <= Cardinality(Counted(k, currentTerm[k])')
                      /\ state'[k] = "Leader" => IsMajority(voteCount'[k])
    BY DEF VotesCovered, IsMajority
  <2>1. CASE k # i
    <3>1. StaysOrFollows(k)
      BY <1>1, <1>2, <2>1 DEF StaysOrFollows, TypeOK
    <3>2. /\ \A d \in voteCalls' : \E e \in voteCalls : SameCall(d, e)
          /\ ballots \subseteq ballots'
          /\ VotesCovered
      BY <1>1 DEF SameCall, ElectionInv
    <3> QED
      BY <3>1, <3>2, CoveredPreserved
  <2>2. CASE k = i
    <3>1. /\ votedFor[i] = i /\ <<i, t, i>> \in ballots
          /\ voteCount[i] <= Cardinality(Counted(i, t))
      BY <1>1, <1>2 DEF ElectionInv, VotesCovered
    <3>2. c.to \notin Counted(i, t)
      BY <1>3 DEF Counted
    <3>3. Counted(i, t) \cup {c.to} \subseteq Counted(i, t)'
      <4>1. c.to \in Counted(i, t)'
        <5>1. \A d \in voteCalls' :
                ~(d.candidate = i /\ d.to = c.to /\ d.term = t)
          BY <1>1, <1>3 DEF ElectionInv, CallsDistinct
        <5> QED
          BY <1>1, <1>2, <1>3, <5>1 DEF Counted
      <4>2. Counted(i, t) \subseteq Counted(i, t)'
        BY <1>1 DEF Counted
      <4> QED
        BY <4>1, <4>2
    <3>4. Cardinality(Counted(i, t) \cup {c.to}) = Cardinality(Counted(i, t)) + 1
      BY <3>2, CountedFinite, FS_AddElement
    <3>5. Cardinality(Counted(i, t) \cup {c.to}) <= Cardinality(Counted(i, t)')
      BY <3>3, CountedFinite, FS_Subset
    <3>6. voteCount'[i] = voteCount[i] + 1
      BY <1>1, <1>2 DEF TypeOK
    <3>7. voteCount'[i] <= Cardinality(Counted(i, t)')
      BY <1>2, <3>1, <3>4, <3>5, <3>6, CountedFinite
    <3>8. state'[i] = "Leader" => IsMajority(voteCount'[i])
      BY <1>1, <1>2, <3>6 DEF TypeOK
    <3> QED
      BY <1>1, <2>2, <3>1, <3>7, <3>8
  <2> QED
    BY <2>1, <2>2
<1> QED
  BY <1>4, <1>5, <1>6 DEF ElectionInv

-----------------------------------------------------------------------------
(* Action by action: replication, snapshots, crashes *)

\* Saving the term along with the log may add the term to the disk.
LEMMA PersistStep ==
  ASSUME TypeOK, TypeOK', ElectionInv, NEW i \in Server, Persist(i),
         UNCHANGED <<serverVars, electionVars>>
  PROVE  ElectionInv'
<1>1. UNCHANGED <<currentTerm, votedFor, state, voteCount, ballots, voteCalls>>
  BY DEF serverVars, electionVars
<1> QED
  BY <1>1, NobodyRuns, TermStep

LEMMA OtherStep ==
  ASSUME ElectionInv, UNCHANGED <<serverVars, electionVars, disk>>
  PROVE  ElectionInv'
BY ElectionStutter DEF serverVars, electionVars

\* Peer i accepts the leader of a term, in AppendEntries.
LEMMA AdoptLeaderStep ==
  ASSUME TypeOK, TypeOK', ElectionInv, NEW i \in Server, NEW t \in Nat,
         t >= currentTerm[i], AdoptLeader(i, t),
         Persist(i) \/ UNCHANGED disk, UNCHANGED electionVars
  PROVE  ElectionInv'
<1>1. /\ currentTerm' = [currentTerm EXCEPT ![i] = t]
      /\ votedFor' = [votedFor EXCEPT ![i] = VoteIn(i, t)]
      /\ state' = [state EXCEPT ![i] = "Follower"]
      /\ UNCHANGED <<voteCount, ballots, voteCalls>>
  BY DEF AdoptLeader, electionVars
<1>2. /\ \A k \in Server \ {i} : /\ currentTerm'[k] = currentTerm[k]
                                 /\ votedFor'[k] = votedFor[k]
      /\ \/ currentTerm'[i] = currentTerm[i] /\ votedFor'[i] = votedFor[i]
         \/ currentTerm'[i] > currentTerm[i] /\ votedFor'[i] = Nil
  BY <1>1, TermNoticed
<1>3. \A k \in Server : StaysOrFollows(k)
  BY <1>1 DEF StaysOrFollows, TypeOK
<1> QED
  BY <1>1, <1>2, <1>3, TermStep

\* Peer i notices a term in InstallSnapshot, and may stay what it is.
LEMMA NoticeTermStep ==
  ASSUME TypeOK, TypeOK', ElectionInv, NEW i \in Server, NEW t \in Nat,
         t >= currentTerm[i], NoticeTerm(i, t),
         votedFor' = [votedFor EXCEPT ![i] = VoteIn(i, t)],
         Persist(i) \/ UNCHANGED disk, UNCHANGED electionVars
  PROVE  ElectionInv'
<1>1. /\ currentTerm' = [currentTerm EXCEPT ![i] = t]
      /\ UNCHANGED <<voteCount, ballots, voteCalls>>
  BY DEF NoticeTerm, electionVars
<1>2. /\ \A k \in Server \ {i} : /\ currentTerm'[k] = currentTerm[k]
                                 /\ votedFor'[k] = votedFor[k]
      /\ \/ currentTerm'[i] = currentTerm[i] /\ votedFor'[i] = votedFor[i]
         \/ currentTerm'[i] > currentTerm[i] /\ votedFor'[i] = Nil
      /\ t = currentTerm[i] => votedFor'[i] = votedFor[i]
  BY <1>1, TermNoticed
<1>3. \A k \in Server : StaysOrFollows(k)
  BY <1>1, <1>2, NoticeTermStays
<1> QED
  BY <1>1, <1>2, <1>3, TermStep

LEMMA HandleSafe ==
  ASSUME TypeOK, TypeOK', ElectionInv, NEW g \in Goroutine, Handle(g)
  PROVE  ElectionInv'
<1> DEFINE m == call[g]
<1>1. m # Nil /\ m.kind \in {"append", "install"}
  BY DEF Handle, AppendStale, AppendMismatch, AppendAccept, InstallStale,
         InstallKnown, InstallSnapshot
<1>2. m.to \in Server /\ m.term \in Nat /\ currentTerm[m.to] \in Nat
  <2>1. m \in AppendRequest \cup InstallRequest
    BY <1>1, RequestType
  <2>2. m.to \in Server /\ m.term \in Nat
    BY <2>1 DEF AppendRequest, InstallRequest
  <2> QED
    BY <2>2 DEF TypeOK
<1>3. CASE AppendStale(g) \/ InstallStale(g)
  BY <1>3, OtherStep DEF AppendStale, InstallStale
<1>4. CASE AppendMismatch(g) \/ AppendAccept(g)
  <2>1. /\ m.term >= currentTerm[m.to]
        /\ AdoptLeader(m.to, m.term)
        /\ Persist(m.to) \/ UNCHANGED disk
        /\ UNCHANGED electionVars
    BY <1>4 DEF AppendMismatch, AppendAccept
  <2> QED
    BY <1>2, <2>1, AdoptLeaderStep
<1>5. CASE InstallKnown(g) \/ InstallSnapshot(g)
  <2>1. /\ m.term >= currentTerm[m.to]
        /\ NoticeTerm(m.to, m.term)
        /\ votedFor' = [votedFor EXCEPT ![m.to] = VoteIn(m.to, m.term)]
        /\ Persist(m.to) \/ UNCHANGED disk
        /\ UNCHANGED electionVars
    BY <1>5 DEF InstallKnown, InstallSnapshot
  <2> QED
    BY <1>2, <2>1, NoticeTermStep
<1> QED
  BY <1>3, <1>4, <1>5 DEF Handle

LEMMA TakeAnswerSafe ==
  ASSUME TypeOK, TypeOK', ElectionInv, NEW g \in Goroutine, TakeAnswer(g)
  PROVE  ElectionInv'
<1>1. CASE ReplyOutdated(g)
  <2> DEFINE r == call[g]
  <2>1. /\ r # Nil /\ r.kind \in {"appended", "installed"}
        /\ r.term > currentTerm[r.caller]
        /\ StepDown(r.caller, r.term)
        /\ UNCHANGED electionVars
    BY <1>1 DEF ReplyOutdated
  <2>2. r \in AppendReply \cup InstallReply
    BY <2>1, RequestType
  <2>3. r.caller \in Server /\ r.term \in Nat
    BY <2>2 DEF AppendReply, InstallReply
  <2> HIDE DEF r
  <2>4. UNCHANGED <<voteCount, ballots>> /\ voteCalls' \subseteq voteCalls
    BY <2>1 DEF electionVars
  <2> QED
    BY <2>1, <2>3, <2>4, StepDownSafe
<1>2. CASE AppendSucceeded(g) \/ AppendFailed(g) \/ InstallDone(g)
  BY <1>2, OtherStep DEF AppendSucceeded, AppendFailed, InstallDone
<1> QED
  BY <1>1, <1>2 DEF TakeAnswer

\* The calls of i that are left after a crash of i.
LEMMA CallsOrphaned ==
  ASSUME TypeOK, CallsDistinct, NEW i \in Server, NEW d, RestartFrom(i, d)
  PROVE  CallsKept /\ CallsDistinct'
<1> DEFINE left == {[c EXCEPT !.live = FALSE] :
                      c \in {r \in voteCalls :
                               r.candidate = i /\ r.kind = "request"}}
<1>1. voteCalls' = {c \in voteCalls : c.candidate # i} \cup left
  BY DEF RestartFrom
<1>2. \A x \in left : \E c \in voteCalls :
        x = [c EXCEPT !.live = FALSE] /\ c.candidate = i /\ c.kind = "request"
  OBVIOUS
<1>3. \A c \in voteCalls : c.kind = "request" =>
        LET x == [c EXCEPT !.live = FALSE]
        IN SameCall(x, c) /\ x.kind = "request"
  <2>1. \A c \in VoteRequest :
          LET x == [c EXCEPT !.live = FALSE]
          IN SameCall(x, c) /\ x.kind = "request"
    BY DEF SameCall, VoteRequest
  <2> QED
    BY <2>1, VoteKinds DEF TypeOK
<1>4. \A x \in left : \E c \in voteCalls :
        /\ x = [c EXCEPT !.live = FALSE] /\ c.candidate = i
        /\ SameCall(x, c) /\ x.kind = "request"
  <2> SUFFICES ASSUME NEW x \in left
               PROVE  \E c \in voteCalls :
                        /\ x = [c EXCEPT !.live = FALSE] /\ c.candidate = i
                        /\ SameCall(x, c) /\ x.kind = "request"
    OBVIOUS
  <2>1. PICK c \in voteCalls : /\ x = [c EXCEPT !.live = FALSE]
                               /\ c.candidate = i /\ c.kind = "request"
    BY <1>2
  <2>2. SameCall(x, c) /\ x.kind = "request"
    BY <1>3, <2>1
  <2> QED
    BY <2>1, <2>2
<1> HIDE DEF left
<1>5. CallsKept
  BY <1>1, <1>4 DEF CallsKept, SameCall
<1>6. CallsDistinct'
  <2> SUFFICES ASSUME NEW x \in voteCalls', NEW y \in voteCalls',
                      SameCall(x, y)
               PROVE  x = y
    BY DEF CallsDistinct, SameCall
  <2>1. CASE x.candidate # i
    BY <1>1, <1>4, <2>1 DEF CallsDistinct, SameCall
  <2>2. CASE x.candidate = i
    <3>1. x \in left /\ y \in left
      BY <1>1, <2>2 DEF SameCall
    <3>2. PICK c \in voteCalls : x = [c EXCEPT !.live = FALSE] /\ SameCall(x, c)
      BY <1>4, <3>1
    <3>3. PICK d1 \in voteCalls :
            y = [d1 EXCEPT !.live = FALSE] /\ SameCall(y, d1)
      BY <1>4, <3>1
    <3>4. c = d1
      BY <3>2, <3>3 DEF CallsDistinct, SameCall
    <3> QED
      BY <3>2, <3>3, <3>4
  <2> QED
    BY <2>1, <2>2
<1> QED
  BY <1>5, <1>6

\* A peer comes back with what is on its disk, a vote of the term included.
LEMMA RestartSafe ==
  ASSUME TypeOK, TypeOK', ElectionInv, NEW i \in Server, NEW d \in Persisted,
         RestartFrom(i, d),
         d = disk[i] \/ d.term > currentTerm[i]
  PROVE  ElectionInv'
<1>1. /\ disk' = [disk EXCEPT ![i] = d]
      /\ currentTerm' = [currentTerm EXCEPT ![i] = d.term]
      /\ votedFor' = [votedFor EXCEPT ![i] = d.vote]
      /\ state' = [state EXCEPT ![i] = "Follower"]
      /\ voteCount' = [voteCount EXCEPT ![i] = 0]
      /\ UNCHANGED ballots
  BY DEF RestartFrom
<1>2. /\ disk'[i] = d /\ currentTerm'[i] = d.term /\ votedFor'[i] = d.vote
      /\ state'[i] = "Follower"
      /\ \A k \in Server \ {i} :
           /\ disk'[k] = disk[k] /\ currentTerm'[k] = currentTerm[k]
           /\ votedFor'[k] = votedFor[k] /\ state'[k] = state[k]
           /\ voteCount'[k] = voteCount[k]
  BY <1>1 DEF TypeOK
<1>3. /\ d.term \in Nat
      /\ \A k \in Server :
           /\ currentTerm[k] \in Nat /\ disk[k].term \in Nat
           /\ disk[k].term <= currentTerm[k]
           /\ votedFor[k] =
                IF disk[k].term = currentTerm[k] THEN disk[k].vote ELSE Nil
  BY DEF TypeOK, Persisted, ElectionInv, DiskBehind
<1>4. DiskBehind'
  BY <1>2, <1>3 DEF DiskBehind
<1>5. DiskGrows
  BY <1>2, <1>3 DEF DiskGrows
<1>6. \A k \in Server : StaysOrFollows(k)
  BY <1>2 DEF StaysOrFollows
<1>7. CallsKept /\ CallsDistinct'
  BY CallsOrphaned DEF ElectionInv
<1> QED
  BY <1>1, <1>4, <1>5, <1>6, <1>7, NoBallot, QuietStep

LEMMA CrashSafe ==
  ASSUME TypeOK, TypeOK', ElectionInv, NEW g \in Goroutine, CrashInHandler(g)
  PROVE  ElectionInv'
<1> DEFINE m == call[g]
           d == [disk[m.to] EXCEPT !.term = m.term, !.vote = Nil]
<1>1. /\ m # Nil /\ m.kind \in {"append", "install"}
      /\ m.term > currentTerm[m.to]
      /\ RestartFrom(m.to, d)
  BY DEF CrashInHandler
<1>2. m \in AppendRequest \cup InstallRequest
  BY <1>1, RequestType
<1>3. m.to \in Server /\ m.term \in Nat
  BY <1>2 DEF AppendRequest, InstallRequest
<1> HIDE DEF m
<1>4. d \in Persisted /\ d.term = m.term
  <2>1. disk[m.to] \in Persisted
    BY <1>3 DEF TypeOK
  <2> QED
    BY <1>3, <2>1 DEF Persisted
<1> HIDE DEF d
<1> QED
  BY <1>1, <1>3, <1>4, RestartSafe

-----------------------------------------------------------------------------
(* The theorems *)

LEMMA ElectionStep ==
  ASSUME TypeOK, TypeOK', ElectionInv, [Next]_vars
  PROVE  ElectionInv'
<1>1. ASSUME NEW i \in Server, PeerStep(i) PROVE ElectionInv'
  <2>1. CASE TickerCheck(i)
    BY <2>1, ElectionStutter DEF TickerCheck, serverVars
  <2>2. CASE StartElection(i)
    BY <2>2, StartElectionSafe
  <2>3. CASE Restart(i)
    <3>1. disk[i] \in Persisted
      BY DEF TypeOK
    <3> QED
      BY <2>3, <3>1, RestartSafe DEF Restart
  <2>4. ASSUME NEW cmd \in Command, Start(i, cmd) PROVE ElectionInv'
    BY <2>4, PersistStep DEF Start
  <2>5. ASSUME NEW index \in 1 .. MaxIndex, Snapshot(i, index)
        PROVE  ElectionInv'
    BY <2>5, PersistStep DEF Snapshot
  <2> QED
    BY <1>1, <2>1, <2>2, <2>3, <2>4, <2>5 DEF PeerStep
<1>2. ASSUME NEW c \in voteCalls, VoteStep(c) PROVE ElectionInv'
  BY <1>2, RequestVoteStaleSafe, RequestVoteGrantSafe, RequestVoteDenySafe,
     VoteIgnoredSafe, VoteOutdatedSafe, VoteCountedSafe DEF VoteStep
<1>3. ASSUME NEW g \in Goroutine, GoroutineStep(g) PROVE ElectionInv'
  <2>1. CASE \E i, j \in Server : Send(g, i, j)
    BY <2>1, OtherStep DEF Send, SendSnapshot, SendEntries
  <2>2. CASE HandOver(g)
    BY <2>2, OtherStep DEF HandOver, Deliver, Resume, DeliverSnapshot
  <2>3. CASE Lose(g)
    BY <2>3, OtherStep DEF Lose
  <2> QED
    BY <1>3, <2>1, <2>2, <2>3, HandleSafe, TakeAnswerSafe, CrashSafe
       DEF GoroutineStep
<1>4. CASE UNCHANGED vars
  BY <1>4, OtherStep DEF vars
<1> QED
  BY <1>1, <1>2, <1>3, <1>4 DEF Next

LEMMA ElectionInit ==
  ASSUME Init
  PROVE  ElectionInv
BY DEF Init, ElectionInv, DiskBehind, BallotsOnDisk, VoteOnce, CallsDistinct,
       CallsHonest, VotesCovered

\* The state of elections: the disk remembers every vote, no vote is counted
\* twice, and whoever leads has a majority of different voters behind it.
THEOREM ElectionCorrect == Spec => []ElectionInv
<1>1. Init => ElectionInv
  BY ElectionInit
<1>2. TypeOK /\ TypeOK' /\ ElectionInv /\ [Next]_vars => ElectionInv'
  BY ElectionStep
<1> QED
  BY <1>1, <1>2, TypeCorrect, PTL DEF Spec

\* Two leaders of a term have a voter in common, who votes for one only.
LEMMA SafeElections ==
  ASSUME TypeOK, ElectionInv
  PROVE  ElectionSafety
<1> SUFFICES ASSUME NEW i \in Server, NEW j \in Server,
                    state[i] = "Leader", state[j] = "Leader",
                    currentTerm[i] = currentTerm[j]
             PROVE  i = j
  BY DEF ElectionSafety
<1> DEFINE t == currentTerm[i]
<1>1. /\ voteCount[i] <= Cardinality(Counted(i, t)) /\ IsMajority(voteCount[i])
      /\ voteCount[j] <= Cardinality(Counted(j, t)) /\ IsMajority(voteCount[j])
  BY DEF ElectionInv, VotesCovered
<1>2. /\ voteCount[i] \in Nat /\ voteCount[j] \in Nat
      /\ Cardinality(Server) \in Nat
  BY RaftAssumption, FS_CardinalityType DEF TypeOK
<1>3. Cardinality(Counted(i, t)) + Cardinality(Counted(j, t))
        > Cardinality(Server)
  BY <1>1, <1>2, CountedFinite DEF IsMajority
<1>4. Counted(i, t) \subseteq Server /\ Counted(j, t) \subseteq Server
  BY DEF Counted
<1>5. Counted(i, t) \cap Counted(j, t) # {}
  BY <1>3, <1>4, RaftAssumption, FS_MajoritiesIntersect
<1>6. PICK v : <<v, t, i>> \in ballots /\ <<v, t, j>> \in ballots
  BY <1>5 DEF Counted
<1>7. <<v, t, i>> = <<v, t, j>>
  BY <1>6 DEF ElectionInv, VoteOnce
<1> QED
  BY <1>7

\* At most one leader in a term, for any number of peers, however often they
\* crash and whatever becomes of the calls.
THEOREM OneLeaderPerTerm == Spec => []ElectionSafety
BY TypeCorrect, ElectionCorrect, SafeElections, PTL

\* No peer votes twice in a term, across all its restarts.
THEOREM OneVotePerTerm == Spec => []VoteOnce
<1>1. ElectionInv => VoteOnce
  BY DEF ElectionInv
<1> QED
  BY <1>1, ElectionCorrect, PTL

-----------------------------------------------------------------------------
(* What a crash cannot undo *)

\* The log and the snapshot index on disk are those in memory.
LogOnDisk ==
  \A i \in Server : /\ disk[i].log = log[i]
                    /\ disk[i].snapshotIndex = snapshotIndex[i]

LEMMA LogSaved ==
  ASSUME TypeOK, TypeOK', LogOnDisk, NEW i \in Server, Persist(i),
         \A k \in Server \ {i} : /\ log'[k] = log[k]
                                 /\ snapshotIndex'[k] = snapshotIndex[k]
  PROVE  LogOnDisk'
<1>1. /\ disk'[i].log = log'[i] /\ disk'[i].snapshotIndex = snapshotIndex'[i]
      /\ \A k \in Server \ {i} : disk'[k] = disk[k]
  BY DEF Persist, TypeOK
<1> QED
  BY <1>1 DEF LogOnDisk

LEMMA LogUntouched ==
  ASSUME TypeOK, TypeOK', LogOnDisk, UNCHANGED <<log, snapshotIndex>>,
         UNCHANGED disk \/ \E i \in Server : Persist(i)
  PROVE  LogOnDisk'
<1>1. CASE UNCHANGED disk
  BY <1>1 DEF LogOnDisk
<1>2. CASE \E i \in Server : Persist(i)
  BY <1>2, LogSaved
<1> QED
  BY <1>1, <1>2

LEMMA LogRestored ==
  ASSUME TypeOK, TypeOK', LogOnDisk, NEW i \in Server, NEW d,
         RestartFrom(i, d)
  PROVE  LogOnDisk'
<1>1. /\ disk'[i] = d /\ log'[i] = d.log
      /\ snapshotIndex'[i] = d.snapshotIndex
      /\ \A k \in Server \ {i} :
           /\ disk'[k] = disk[k] /\ log'[k] = log[k]
           /\ snapshotIndex'[k] = snapshotIndex[k]
  BY DEF RestartFrom, TypeOK
<1> QED
  BY <1>1 DEF LogOnDisk

LEMMA LogOnDiskStep ==
  ASSUME TypeOK, TypeOK', LogOnDisk, [Next]_vars
  PROVE  LogOnDisk'
<1>1. ASSUME NEW i \in Server, PeerStep(i) PROVE LogOnDisk'
  <2>1. CASE TickerCheck(i) \/ StartElection(i)
    BY <2>1, LogUntouched DEF TickerCheck, StartElection, logVars
  <2>2. CASE Restart(i)
    BY <2>2, LogRestored DEF Restart
  <2>3. ASSUME NEW cmd \in Command, Start(i, cmd) PROVE LogOnDisk'
    <3>1. \A k \in Server \ {i} : /\ log'[k] = log[k]
                                  /\ snapshotIndex'[k] = snapshotIndex[k]
      BY <2>3 DEF Start, TypeOK
    <3> QED
      BY <2>3, <3>1, LogSaved DEF Start
  <2>4. ASSUME NEW index \in 1 .. MaxIndex, Snapshot(i, index)
        PROVE  LogOnDisk'
    <3>1. \A k \in Server \ {i} : /\ log'[k] = log[k]
                                  /\ snapshotIndex'[k] = snapshotIndex[k]
      BY <2>4 DEF Snapshot, TypeOK
    <3> QED
      BY <2>4, <3>1, LogSaved DEF Snapshot
  <2> QED
    BY <1>1, <2>1, <2>2, <2>3, <2>4 DEF PeerStep
<1>2. ASSUME NEW c \in voteCalls, VoteStep(c) PROVE LogOnDisk'
  <2>1. c.to \in Server /\ c.candidate \in Server
    BY VoteKinds DEF TypeOK
  <2>2. UNCHANGED <<log, snapshotIndex>>
    BY <1>2 DEF VoteStep, RequestVoteStale, RequestVoteGrant,
       RequestVoteDeny, VoteIgnored, VoteOutdated, VoteCounted, StepDown,
       logVars
  <2>3. UNCHANGED disk \/ Persist(c.to) \/ Persist(c.candidate)
    BY <1>2 DEF VoteStep, RequestVoteStale, RequestVoteGrant,
       RequestVoteDeny, VoteIgnored, VoteOutdated, VoteCounted, StepDown
  <2> QED
    BY <2>1, <2>2, <2>3, LogUntouched
<1>3. ASSUME NEW g \in Goroutine, GoroutineStep(g) PROVE LogOnDisk'
  <2> DEFINE m == call[g]
  <2>1. /\ m # Nil /\ m.kind \in {"append", "install"} =>
             m.to \in Server
        /\ m # Nil /\ m.kind \in {"appended", "installed"} =>
             m.caller \in Server
    BY RequestType DEF AppendRequest, InstallRequest, AppendReply,
       InstallReply
  <2>2. CASE \E i, j \in Server : Send(g, i, j)
    BY <2>2, LogUntouched DEF Send, SendSnapshot, SendEntries, logVars
  <2>3. CASE AppendStale(g) \/ InstallStale(g)
    BY <2>3, LogUntouched DEF AppendStale, InstallStale, logVars
  <2>4. CASE AppendMismatch(g) \/ InstallKnown(g)
    BY <2>1, <2>4, LogUntouched DEF AppendMismatch, InstallKnown, logVars
  <2>5. CASE AppendAccept(g)
    <3>1. /\ m # Nil /\ m.kind = "append"
          /\ Merge(m.to, m)
          /\ UNCHANGED snapshotIndex
          /\ Persist(m.to) \/ (UNCHANGED disk /\ log' = log)
      BY <2>5 DEF AppendAccept
    <3>2. \A k \in Server \ {m.to} : log'[k] = log[k]
      BY <2>1, <3>1 DEF Merge, TypeOK
    <3> QED
      BY <2>1, <3>1, <3>2, LogSaved, LogUntouched
  <2>6. CASE InstallSnapshot(g)
    <3>1. /\ m # Nil /\ m.kind = "install" /\ Persist(m.to)
          /\ \A k \in Server \ {m.to} : /\ log'[k] = log[k]
                                        /\ snapshotIndex'[k] = snapshotIndex[k]
      BY <2>6 DEF InstallSnapshot, TypeOK
    <3> QED
      BY <2>1, <3>1, LogSaved
  <2>7. CASE ReplyOutdated(g)
    BY <2>1, <2>7, LogUntouched DEF ReplyOutdated, StepDown, logVars
  <2>8. CASE AppendSucceeded(g) \/ AppendFailed(g) \/ InstallDone(g)
    BY <2>8, LogUntouched DEF AppendSucceeded, AppendFailed, InstallDone,
       logVars
  <2>9. CASE HandOver(g) \/ Lose(g)
    BY <2>9, LogUntouched DEF HandOver, Deliver, Resume, DeliverSnapshot,
       Lose, logVars
  <2>10. CASE CrashInHandler(g)
    BY <2>1, <2>10, LogRestored DEF CrashInHandler
  <2> QED
    BY <1>3, <2>2, <2>3, <2>4, <2>5, <2>6, <2>7, <2>8, <2>9, <2>10
       DEF GoroutineStep, Handle, TakeAnswer
<1>4. CASE UNCHANGED vars
  BY <1>4, LogUntouched DEF vars, logVars
<1> QED
  BY <1>1, <1>2, <1>3, <1>4 DEF Next

\* Every granted vote that a candidate may still count is on the voter's
\* disk, and a peer restarts from exactly the log it worked with.
THEOREM DurablePromises == Spec => []PromisesDurable
<1>1. Init => LogOnDisk
  BY DEF Init, LogOnDisk
<1>2. TypeOK /\ TypeOK' /\ LogOnDisk /\ [Next]_vars => LogOnDisk'
  BY LogOnDiskStep
<1>3. TypeOK /\ ElectionInv /\ LogOnDisk => PromisesDurable
  <2> SUFFICES ASSUME TypeOK, ElectionInv, LogOnDisk,
                      NEW c \in voteCalls, c.kind = "reply", c.granted
               PROVE  \/ disk[c.to].term > c.term
                      \/ /\ disk[c.to].term = c.term
                         /\ disk[c.to].vote = c.candidate
    BY DEF PromisesDurable, LogOnDisk
  <2>1. c.to \in Server /\ c.term \in Nat
    BY VoteKinds DEF TypeOK
  <2>2. disk[c.to].term \in Nat
    BY <2>1 DEF TypeOK, Persisted
  <2>3. <<c.to, c.term, c.candidate>> \in ballots
    BY DEF ElectionInv, CallsHonest
  <2>4. /\ c.term <= disk[c.to].term
        /\ c.term = disk[c.to].term => disk[c.to].vote = c.candidate
    BY <2>3 DEF ElectionInv, BallotsOnDisk
  <2> QED
    BY <2>1, <2>2, <2>4
<1> QED
  BY <1>1, <1>2, <1>3, TypeCorrect, ElectionCorrect, PTL DEF Spec

-----------------------------------------------------------------------------
(***************************************************************************)
(* Log matching while no service takes snapshots: crashes, lost, late and  *)
(* reordered calls included.                                               *)
(*                                                                         *)
(* A piece is what a peer or a call under way holds of a log, as a         *)
(* function on an interval of indexes.  That any two pieces agree up to    *)
(* every index at which they have the same term is inductive, together     *)
(* with: a leader has every entry of its term that is anywhere, and a term *)
(* of which there is an entry has been won by a peer that will not run in  *)
(* it again.                                                               *)
(***************************************************************************)

-----------------------------------------------------------------------------
(* Pieces *)

IsPiece(p) == \E a, b \in Nat : p \in [a .. b -> Entry]

Common(p, q) == DOMAIN p \cap DOMAIN q

\* The command of a piece's first entry does not count: a call brings only the
\* term of its previous entry.
SameAt(p, q, k) ==
  /\ p[k].term = q[k].term
  /\ k - 1 \in Common(p, q) => p[k] = q[k]

Agree(p, q) ==
  \A n \in Common(p, q) :
    p[n].term = q[n].term => \A k \in Common(p, q) : k <= n => SameAt(p, q, k)

LEMMA PieceInterval ==
  ASSUME NEW p, IsPiece(p)
  PROVE  /\ DOMAIN p \subseteq Nat
         /\ \A n \in DOMAIN p : p[n] \in Entry /\ p[n].term \in Nat
         /\ \A x, z \in DOMAIN p : \A y \in Nat : x <= y /\ y <= z => y \in DOMAIN p
  BY DEF IsPiece, Entry

LEMMA AgreeSymmetric ==
  ASSUME NEW p, NEW q, Agree(p, q)
  PROVE  Agree(q, p)
  BY DEF Agree, SameAt, Common

LEMMA AgreeReflexive ==
  ASSUME NEW p
  PROVE  Agree(p, p)
  BY DEF Agree, SameAt, Common

\* A part of a piece agrees with whatever the piece agrees with.
LEMMA PartAgrees ==
  ASSUME NEW p, NEW q, NEW s, Agree(p, s),
         DOMAIN q \subseteq DOMAIN p,
         \A k \in DOMAIN q : /\ q[k].term = p[k].term
                             /\ k - 1 \in DOMAIN q => q[k] = p[k]
  PROVE  Agree(q, s)
  BY DEF Agree, SameAt, Common

\* The piece p up to c followed by q from there, where both have the same term
\* at c, agrees with whatever p and q agree with.
Spliced(r, p, q, c) ==
  /\ c \in Common(p, q)
  /\ p[c].term = q[c].term
  /\ DOMAIN r = {n \in DOMAIN p : n <= c} \cup {n \in DOMAIN q : n > c}
  /\ \A n \in DOMAIN r : r[n] = IF n <= c THEN p[n] ELSE q[n]

LEMMA SpliceAgrees ==
  ASSUME NEW p, NEW q, NEW r, NEW s, NEW c,
         IsPiece(p), IsPiece(q), IsPiece(s),
         Spliced(r, p, q, c), Agree(p, s), Agree(q, s)
  PROVE  Agree(r, s)
<1> USE DEF Common
<1>1. /\ DOMAIN p \subseteq Nat /\ DOMAIN q \subseteq Nat /\ DOMAIN s \subseteq Nat
      /\ c \in Nat
  BY PieceInterval DEF Spliced
<1> SUFFICES ASSUME NEW n \in Common(r, s), r[n].term = s[n].term,
                    NEW k \in Common(r, s), k <= n
             PROVE  SameAt(r, s, k)
  BY DEF Agree
<1>2. n \in Nat /\ k \in Nat /\ n \in DOMAIN s /\ k \in DOMAIN s
  BY <1>1
<1>3. ASSUME NEW m \in DOMAIN r, m <= c
      PROVE  m \in DOMAIN p /\ r[m] = p[m]
  BY <1>1, <1>3 DEF Spliced
<1>4. ASSUME NEW m \in DOMAIN r, m > c
      PROVE  m \in DOMAIN q /\ r[m] = q[m]
  BY <1>1, <1>4 DEF Spliced
<1>5. ASSUME k <= c, NEW m \in Common(p, s), p[m].term = s[m].term, k <= m
      PROVE  SameAt(r, s, k)
  <2>1. k \in DOMAIN p /\ r[k] = p[k] /\ SameAt(p, s, k)
    BY <1>2, <1>3, <1>5 DEF Agree
  <2>2. k - 1 \in DOMAIN r => k - 1 \in DOMAIN p
    BY <1>1, <1>2, <1>3, <1>5
  <2> QED
    BY <1>2, <2>1, <2>2 DEF SameAt
<1>6. CASE n <= c
  BY <1>1, <1>2, <1>3, <1>5, <1>6
<1>7. CASE n > c
  <2>1. n \in DOMAIN q /\ q[n].term = s[n].term
    BY <1>4, <1>7
  <2>2. CASE k <= c
    <3>1. c \in DOMAIN s
      BY <1>1, <1>2, <1>7, <2>2, PieceInterval
    <3>2. q[c].term = s[c].term
      BY <1>1, <1>2, <1>7, <2>1, <3>1 DEF Agree, SameAt, Spliced
    <3> QED
      BY <1>5, <2>2, <3>1, <3>2 DEF Spliced
  <2>3. CASE k > c
    <3>1. k \in DOMAIN q /\ r[k] = q[k] /\ SameAt(q, s, k)
      BY <1>2, <1>4, <2>1, <2>3 DEF Agree
    <3>2. k - 1 \in DOMAIN q
      BY <1>1, <1>2, <2>3, <3>1, PieceInterval DEF Spliced
    <3> QED
      BY <1>2, <3>1, <3>2 DEF SameAt
  <2> QED
    BY <1>1, <1>2, <2>2, <2>3
<1> QED
  BY <1>1, <1>2, <1>6, <1>7

-----------------------------------------------------------------------------
(* The invariant *)

LogPiece(i) == [n \in 0 .. Len(log[i]) - 1 |-> log[i][n + 1]]

CallPiece(m) ==
  [n \in m.prevLogIndex .. m.prevLogIndex + Len(m.entries) |->
     IF n = m.prevLogIndex THEN NoEntry(m.prevLogTerm)
                           ELSE m.entries[n - m.prevLogIndex]]

Appends(c) == c # Nil /\ c.kind = "append"

IsInLog(p) == \E i \in Server : p = LogPiece(i)
IsInCall(p) == \E g \in Goroutine : Appends(call[g]) /\ p = CallPiece(call[g])

Around(p) == IsInLog(p) \/ IsInCall(p)

\* There is an entry of term t at index n somewhere.
Marked(n, t) == \E p : Around(p) /\ n \in DOMAIN p /\ p[n].term = t

\* Peer w has won term t, and is no candidate in it any more.
Won(t) ==
  \E w \in Server :
    /\ <<w, t, w>> \in ballots
    /\ IsMajority(Cardinality({j \in Server : <<j, t, w>> \in ballots}))
    /\ currentTerm[w] = t => state[w] # "Candidate"

\* Nobody has a snapshot beyond index 0.
NoSnapshots ==
  /\ \A i \in Server :
       /\ snapshotIndex[i] = 0 /\ snapshotTerm[i] = 0
       /\ disk[i].snapshotIndex = 0 /\ disk[i].snapshotTerm = 0
       /\ log[i][1].term = 0
  /\ \A g \in Goroutine :
       call[g] # Nil /\ call[g].kind = "install" => call[g].lastIndex = 0

PiecesAgree == \A p, q : Around(p) /\ Around(q) => Agree(p, q)

LeaderHasItsTerm ==
  \A i \in Server : state[i] = "Leader" =>
    \A n : Marked(n, currentTerm[i]) =>
      n < Len(log[i]) /\ log[i][n + 1].term = currentTerm[i]

TermsWon == \A n, t : Marked(n, t) /\ t # 0 => Won(t)

RunnersPositive == \A i \in Server : state[i] # "Follower" => currentTerm[i] > 0

LogInv ==
  /\ NoSnapshots
  /\ PiecesAgree
  /\ LeaderHasItsTerm
  /\ TermsWon
  /\ RunnersPositive

\* What is proved above.
Known == TypeOK /\ ElectionInv /\ LogOnDisk

LEMMA LogPieceIs ==
  ASSUME TypeOK, NEW i \in Server
  PROVE  /\ IsPiece(LogPiece(i))
         /\ DOMAIN LogPiece(i) = 0 .. Len(log[i]) - 1
         /\ \A n \in 0 .. Len(log[i]) - 1 : LogPiece(i)[n] = log[i][n + 1]
<1>1. /\ Len(log[i]) \in Nat \ {0}
      /\ \A k \in 1 .. Len(log[i]) : log[i][k] \in Entry
  BY LogFacts
<1>2. \A n \in 0 .. Len(log[i]) - 1 : log[i][n + 1] \in Entry
  BY <1>1
<1>3. LogPiece(i) \in [0 .. Len(log[i]) - 1 -> Entry]
  BY <1>2 DEF LogPiece
<1>4. 0 \in Nat /\ Len(log[i]) - 1 \in Nat
  BY <1>1
<1> QED
  BY <1>3, <1>4 DEF IsPiece, LogPiece

LEMMA CallPieceIs ==
  ASSUME NEW m \in AppendRequest
  PROVE  /\ IsPiece(CallPiece(m))
         /\ DOMAIN CallPiece(m) = m.prevLogIndex .. m.prevLogIndex + Len(m.entries)
         /\ \A n \in DOMAIN CallPiece(m) :
              CallPiece(m)[n] = IF n = m.prevLogIndex THEN NoEntry(m.prevLogTerm)
                                ELSE m.entries[n - m.prevLogIndex]
<1>1. /\ m.prevLogIndex \in Nat /\ Len(m.entries) \in Nat
      /\ m.prevLogTerm \in Nat
      /\ \A k \in 1 .. Len(m.entries) : m.entries[k] \in Entry
  BY LenProperties, ElementOfSeq DEF AppendRequest
<1>2. \A n \in m.prevLogIndex .. m.prevLogIndex + Len(m.entries) :
        n # m.prevLogIndex => m.entries[n - m.prevLogIndex] \in Entry
  BY <1>1
<1>3. NoEntry(m.prevLogTerm) \in Entry
  BY <1>1 DEF NoEntry, Entry
<1>4. CallPiece(m) \in [m.prevLogIndex .. m.prevLogIndex + Len(m.entries) -> Entry]
  BY <1>2, <1>3 DEF CallPiece
<1>5. m.prevLogIndex + Len(m.entries) \in Nat
  BY <1>1
<1> QED
  BY <1>1, <1>4, <1>5 DEF IsPiece, CallPiece

LEMMA AroundIsPiece ==
  ASSUME TypeOK, NEW p, Around(p)
  PROVE  IsPiece(p)
<1>1. CASE IsInLog(p)
  BY <1>1, LogPieceIs DEF IsInLog
<1>2. CASE IsInCall(p)
  <2>1. PICK g \in Goroutine : Appends(call[g]) /\ p = CallPiece(call[g])
    BY <1>2 DEF IsInCall
  <2>2. call[g] \in AppendRequest
    BY <2>1, RequestType DEF Appends
  <2> QED
    BY <2>1, <2>2, CallPieceIs
<1> QED
  BY <1>1, <1>2 DEF Around

-----------------------------------------------------------------------------
(* What a step does to the roles of the peers *)

\* A peer stays a candidate or leader, starts an election, or wins one.
RoleMoves(k) ==
  state'[k] # "Follower" =>
    \/ state'[k] = state[k] /\ currentTerm'[k] = currentTerm[k]
    \/ state'[k] = "Candidate" /\ currentTerm'[k] = currentTerm[k] + 1
    \/ /\ state[k] = "Candidate" /\ state'[k] = "Leader"
       /\ currentTerm'[k] = currentTerm[k]

RolesMove == ballots \subseteq ballots' /\ \A k \in Server : RoleMoves(k)

LEMMA RolesStay ==
  ASSUME UNCHANGED <<currentTerm, state, ballots>>
  PROVE  RolesMove
  BY DEF RolesMove, RoleMoves

\* A peer that does not run afterwards; the others stay what they are.
LEMMA RolesEnd ==
  ASSUME TypeOK, NEW i \in Server, ballots \subseteq ballots',
         state' = [state EXCEPT ![i] = "Follower"],
         \A k \in Server \ {i} : currentTerm'[k] = currentTerm[k]
  PROVE  RolesMove
  BY DEF TypeOK, RolesMove, RoleMoves

LEMMA NoticeMoves ==
  ASSUME TypeOK, NEW i \in Server, NEW t \in Nat, t >= currentTerm[i],
         NoticeTerm(i, t), ballots \subseteq ballots'
  PROVE  RolesMove
  BY DEF TypeOK, RolesMove, RoleMoves, NoticeTerm

LEMMA RestartMoves ==
  ASSUME TypeOK, NEW i \in Server, NEW d, RestartFrom(i, d)
  PROVE  RolesMove
  BY RolesEnd DEF TypeOK, RestartFrom

LEMMA StepDownMoves ==
  ASSUME TypeOK, NEW i \in Server, NEW t, StepDown(i, t), UNCHANGED ballots
  PROVE  RolesMove
  BY RolesEnd DEF TypeOK, StepDown

LEMMA AdoptLeaderMoves ==
  ASSUME TypeOK, NEW i \in Server, NEW t, AdoptLeader(i, t), UNCHANGED ballots
  PROVE  RolesMove
  BY RolesEnd DEF TypeOK, AdoptLeader

LEMMA RolesStep ==
  ASSUME TypeOK, [Next]_vars
  PROVE  RolesMove
<1>1. ASSUME NEW i \in Server, PeerStep(i) PROVE RolesMove
  <2>1. CASE TickerCheck(i)
    BY <2>1, RolesStay DEF TickerCheck, serverVars
  <2>2. CASE StartElection(i)
    BY <2>2 DEF StartElection, TypeOK, RolesMove, RoleMoves
  <2>3. CASE Restart(i)
    BY <2>3, RestartMoves DEF Restart
  <2>4. ASSUME NEW cmd \in Command, Start(i, cmd) PROVE RolesMove
    BY <2>4, RolesStay DEF Start, serverVars, electionVars
  <2>5. ASSUME NEW index \in 1 .. MaxIndex, Snapshot(i, index) PROVE RolesMove
    BY <2>5, RolesStay DEF Snapshot, serverVars, electionVars
  <2> QED
    BY <1>1, <2>1, <2>2, <2>3, <2>4, <2>5 DEF PeerStep
<1>2. ASSUME NEW c \in voteCalls, VoteStep(c) PROVE RolesMove
  <2>1. c.to \in Server /\ c.candidate \in Server /\ c.term \in Nat
    BY VoteKinds DEF TypeOK
  <2>2. CASE RequestVoteStale(c) \/ VoteIgnored(c)
    BY <2>2, RolesStay DEF RequestVoteStale, VoteIgnored, serverVars
  <2>3. CASE RequestVoteGrant(c) \/ RequestVoteDeny(c)
    BY <2>1, <2>3, NoticeMoves DEF RequestVoteGrant, RequestVoteDeny
  <2>4. CASE VoteOutdated(c)
    BY <2>1, <2>4, StepDownMoves DEF VoteOutdated
  <2>5. CASE VoteCounted(c)
    BY <2>1, <2>5 DEF VoteCounted, TypeOK, RolesMove, RoleMoves
  <2> QED
    BY <1>2, <2>2, <2>3, <2>4, <2>5 DEF VoteStep
<1>3. ASSUME NEW g \in Goroutine, GoroutineStep(g) PROVE RolesMove
  <2> DEFINE m == call[g]
  <2>1. /\ m # Nil /\ m.kind \in {"append", "install"} =>
             m.to \in Server /\ m.term \in Nat
        /\ m # Nil /\ m.kind \in {"appended", "installed"} =>
             m.caller \in Server
    BY RequestType DEF AppendRequest, InstallRequest, AppendReply, InstallReply
  <2>2. CASE \E i, j \in Server : Send(g, i, j)
    BY <2>2, RolesStay DEF Send, SendSnapshot, SendEntries, serverVars, electionVars
  <2>3. CASE AppendStale(g) \/ InstallStale(g)
    BY <2>3, RolesStay DEF AppendStale, InstallStale, serverVars, electionVars
  <2>4. CASE AppendMismatch(g) \/ AppendAccept(g)
    BY <2>1, <2>4, AdoptLeaderMoves DEF AppendMismatch, AppendAccept, electionVars
  <2>5. CASE InstallKnown(g) \/ InstallSnapshot(g)
    BY <2>1, <2>5, NoticeMoves DEF InstallKnown, InstallSnapshot, electionVars
  <2>6. CASE ReplyOutdated(g)
    BY <2>1, <2>6, StepDownMoves DEF ReplyOutdated, electionVars
  <2>7. CASE AppendSucceeded(g) \/ AppendFailed(g) \/ InstallDone(g)
    BY <2>7, RolesStay
    DEF AppendSucceeded, AppendFailed, InstallDone, serverVars, electionVars
  <2>8. CASE HandOver(g) \/ Lose(g)
    BY <2>8, RolesStay
    DEF HandOver, Deliver, Resume, DeliverSnapshot, Lose, serverVars, electionVars
  <2>9. CASE CrashInHandler(g)
    BY <2>1, <2>9, RestartMoves DEF CrashInHandler
  <2> QED
    BY <1>3, <2>2, <2>3, <2>4, <2>5, <2>6, <2>7, <2>8, <2>9
    DEF GoroutineStep, Handle, TakeAnswer
<1>4. CASE UNCHANGED vars
  BY <1>4, RolesStay DEF vars, serverVars, electionVars
<1> QED
  BY <1>1, <1>2, <1>3, <1>4 DEF Next

-----------------------------------------------------------------------------
(* Terms stay won, and leaders keep what they have *)

LEMMA VotersFinite ==
  ASSUME NEW t, NEW w
  PROVE  /\ IsFiniteSet({j \in Server : <<j, t, w>> \in ballots})
         /\ Cardinality({j \in Server : <<j, t, w>> \in ballots}) \in Nat
         /\ IsFiniteSet({j \in Server : <<j, t, w>> \in ballots'})
         /\ Cardinality({j \in Server : <<j, t, w>> \in ballots'}) \in Nat
         /\ Cardinality(Server) \in Nat
  BY RaftAssumption, FS_Subset, FS_CardinalityType

LEMMA WonStays ==
  ASSUME TypeOK, ElectionInv, RolesMove, NEW t \in Nat, Won(t)
  PROVE  Won(t)'
<1>1. PICK w \in Server :
        /\ <<w, t, w>> \in ballots
        /\ IsMajority(Cardinality({j \in Server : <<j, t, w>> \in ballots}))
        /\ currentTerm[w] = t => state[w] # "Candidate"
  BY DEF Won
<1> DEFINE Before == {j \in Server : <<j, t, w>> \in ballots}
           After == {j \in Server : <<j, t, w>> \in ballots'}
<1>2. <<w, t, w>> \in ballots' /\ Before \subseteq After
  BY <1>1 DEF RolesMove
<1>3. IsMajority(Cardinality(After))
  <2>1. /\ IsFiniteSet(After) /\ Cardinality(Before) \in Nat
        /\ Cardinality(After) \in Nat /\ Cardinality(Server) \in Nat
    BY VotersFinite
  <2>2. IsMajority(Cardinality(Before))
    BY <1>1
  <2> HIDE DEF Before, After
  <2>3. Cardinality(Before) <= Cardinality(After)
    BY <1>2, <2>1, FS_Subset
  <2> QED
    BY <2>1, <2>2, <2>3 DEF IsMajority
<1>4. t <= currentTerm[w]
  <2>1. t <= disk[w].term /\ disk[w].term <= currentTerm[w]
    BY <1>1 DEF ElectionInv, BallotsOnDisk, DiskBehind
  <2> QED
    BY <2>1 DEF TypeOK, Persisted
<1>5. currentTerm'[w] = t => state'[w] # "Candidate"
  <2> SUFFICES ASSUME currentTerm'[w] = t, state'[w] = "Candidate"
               PROVE  FALSE
    OBVIOUS
  <2>1. \/ state[w] = "Candidate" /\ currentTerm[w] = t
        \/ t = currentTerm[w] + 1
    BY DEF RolesMove, RoleMoves
  <2> QED
    BY <1>1, <1>4, <2>1 DEF TypeOK
<1> QED
  BY <1>1, <1>2, <1>3, <1>5 DEF Won, IsMajority

\* Who becomes leader in a term is the first to win it.
LEMMA NotWonBefore ==
  ASSUME TypeOK, TypeOK', ElectionInv', RolesMove, NEW i \in Server,
         state[i] = "Candidate", state'[i] = "Leader",
         currentTerm'[i] = currentTerm[i]
  PROVE  ~Won(currentTerm[i])
<1> DEFINE t == currentTerm[i]
<1> SUFFICES ASSUME Won(t) PROVE FALSE
  OBVIOUS
<1>1. PICK w \in Server :
        /\ IsMajority(Cardinality({j \in Server : <<j, t, w>> \in ballots}))
        /\ currentTerm[w] = t => state[w] # "Candidate"
  BY DEF Won
<1>2. /\ voteCount'[i] <= Cardinality(Counted(i, t)')
      /\ IsMajority(voteCount'[i])
  BY DEF ElectionInv, VotesCovered, IsMajority
<1>3. voteCount'[i] \in Nat
  BY DEF TypeOK
<1> DEFINE Voters == {j \in Server : <<j, t, w>> \in ballots}
<1>4. Cardinality(Counted(i, t)') + Cardinality(Voters) > Cardinality(Server)
  <2>1. Cardinality(Voters) \in Nat /\ Cardinality(Server) \in Nat
    BY VotersFinite
  <2>2. Cardinality(Counted(i, t)') \in Nat
    BY CountedFinite
  <2>3. IsMajority(Cardinality(Voters))
    BY <1>1
  <2> HIDE DEF Voters
  <2> QED
    BY <1>2, <1>3, <2>1, <2>2, <2>3 DEF IsMajority
<1>5. Counted(i, t)' \subseteq Server /\ Voters \subseteq Server
  BY DEF Counted
<1>6. Counted(i, t)' \cap Voters # {}
  BY <1>4, <1>5, RaftAssumption, FS_MajoritiesIntersect
<1>7. PICK v : <<v, t, i>> \in ballots' /\ <<v, t, w>> \in ballots'
  BY <1>6 DEF Counted, RolesMove
<1>8. <<v, t, i>> = <<v, t, w>>
  BY <1>7 DEF ElectionInv, VoteOnce
<1> QED
  BY <1>1, <1>8

\* No step but Start makes an entry that was nowhere before.
MarksKept == \A n, t : Marked(n, t)' => Marked(n, t)

LeadersKeepLog ==
  \A i \in Server : state[i] = "Leader" /\ state'[i] = "Leader" => log'[i] = log[i]

LEMMA MarkType ==
  ASSUME TypeOK, NEW n, NEW t, Marked(n, t)
  PROVE  n \in Nat /\ t \in Nat
  BY AroundIsPiece, PieceInterval DEF Marked

LEMMA RunnersPositiveStep ==
  ASSUME TypeOK, RunnersPositive, RolesMove
  PROVE  RunnersPositive'
<1> SUFFICES ASSUME NEW k \in Server, state'[k] # "Follower"
             PROVE  currentTerm'[k] > 0
  BY DEF RunnersPositive
<1>1. currentTerm[k] \in Nat
  BY DEF TypeOK
<1>2. \/ currentTerm'[k] = currentTerm[k] /\ state[k] # "Follower"
      \/ currentTerm'[k] = currentTerm[k] + 1
  BY DEF RolesMove, RoleMoves
<1> QED
  BY <1>1, <1>2 DEF RunnersPositive

LEMMA LeadersStep ==
  ASSUME Known, Known', LogInv, RolesMove, MarksKept, LeadersKeepLog
  PROVE  LeaderHasItsTerm' /\ TermsWon'
<1> USE DEF Known
<1>1. TermsWon'
  <2> SUFFICES ASSUME NEW n, NEW t, Marked(n, t)', t # 0
               PROVE  Won(t)'
    BY DEF TermsWon
  <2>1. Marked(n, t)
    BY DEF MarksKept
  <2> QED
    BY <2>1, MarkType, WonStays DEF LogInv, TermsWon
<1>2. LeaderHasItsTerm'
  <2> SUFFICES ASSUME NEW i \in Server, state'[i] = "Leader",
                      NEW n, NEW t, t = currentTerm'[i], Marked(n, t)'
               PROVE  n < Len(log'[i]) /\ log'[i][n + 1].term = t
    BY DEF LeaderHasItsTerm
  <2>1. Marked(n, t)
    BY DEF MarksKept
  <2>2. \/ state[i] = "Leader" /\ currentTerm'[i] = currentTerm[i]
        \/ state[i] = "Candidate" /\ currentTerm'[i] = currentTerm[i]
    BY DEF RolesMove, RoleMoves
  <2>3. CASE state[i] = "Leader"
    BY <2>1, <2>2, <2>3 DEF LeadersKeepLog, LogInv, LeaderHasItsTerm
  <2>4. CASE state[i] = "Candidate"
    <3>1. currentTerm[i] # 0
      <4>1. currentTerm[i] > 0
        BY <2>4 DEF LogInv, RunnersPositive
      <4>2. currentTerm[i] \in Nat
        BY DEF TypeOK
      <4> QED
        BY <4>1, <4>2
    <3>2. Won(currentTerm[i])
      BY <2>1, <2>2, <3>1 DEF LogInv, TermsWon
    <3> QED
      BY <2>2, <2>4, <3>2, NotWonBefore
  <2> QED
    BY <2>2, <2>3, <2>4
<1> QED
  BY <1>1, <1>2

-----------------------------------------------------------------------------
(* Steps that make no new piece *)

\* A call that brings no piece of a log, and no snapshot.
Empty(c) ==
  \/ c = Nil
  \/ /\ c.kind # "append"
     /\ c.kind = "install" => c.lastIndex = 0

\* Two calls that bring the same.
SameLoad(c, d) ==
  /\ c # Nil /\ d # Nil /\ c.kind = d.kind
  /\ c.kind = "append" => CallPiece(c) = CallPiece(d)
  /\ c.kind = "install" => c.lastIndex = d.lastIndex

SameCalls ==
  \A h \in Goroutine : Empty(call'[h]) \/ SameLoad(call[h], call'[h])

MakesNoPiece == UNCHANGED log /\ SameCalls

LEMMA OneGoroutine ==
  ASSUME TypeOK, NEW g \in Goroutine, NEW x, Empty(x),
         call' = [call EXCEPT ![g] = x]
  PROVE  SameCalls
<1> SUFFICES ASSUME NEW h \in Goroutine
             PROVE  Empty(call'[h]) \/ SameLoad(call[h], call'[h])
  BY DEF SameCalls
<1>1. CASE h = g
  BY <1>1 DEF TypeOK
<1>2. CASE h # g
  BY <1>2 DEF TypeOK, Empty, SameLoad
<1> QED
  BY <1>1, <1>2

LEMMA CallsStay ==
  ASSUME UNCHANGED call
  PROVE  SameCalls
  BY DEF SameCalls, Empty, SameLoad

LEMMA AnswerIsEmpty ==
  ASSUME NEW m, NEW t, NEW b, NEW index, NEW term
  PROVE  Empty(Appended(m, t, b, index, term))
  BY DEF Empty, Appended

LEMMA DeliveryIsEmpty ==
  ASSUME TypeOK, NEW g \in Goroutine, NEW i, NEW then, Empty(then),
         ApplyLog(g, i, then)
  PROVE  SameCalls
<1> DEFINE next == lastApplied[i] + 1
           sent == [kind |-> "send", at |-> i, index |-> next,
                    entry |-> log'[i][next - snapshotIndex'[i] + 1], then |-> then]
<1>1. call' = [call EXCEPT ![g] = sent] \/ call' = [call EXCEPT ![g] = then]
  BY DEF ApplyLog
<1>2. Empty(sent)
  BY DEF Empty
<1> HIDE DEF sent
<1> QED
  BY <1>1, <1>2, OneGoroutine

LEMMA OrphanIsSame ==
  ASSUME NEW c \in Call \cup {Nil}, NEW i
  PROVE  Empty(Orphan(c, i)) \/ SameLoad(c, Orphan(c, i))
<1>1. CASE c = Nil
  BY <1>1 DEF Empty, Orphan
<1>2. CASE c # Nil /\ c \in AppendRequest
  <2>1. Orphan(c, i) = [c EXCEPT !.caller = Nil] \/ Orphan(c, i) = c
    BY <1>2 DEF Orphan, AppendRequest
  <2>2. c.kind = "append"
    BY <1>2 DEF AppendRequest
  <2>3. CASE Orphan(c, i) # Nil
    BY <1>2, <2>1, <2>2, <2>3 DEF SameLoad, CallPiece, AppendRequest
  <2>4. CASE Orphan(c, i) = Nil
    BY <2>4 DEF Empty
  <2> QED
    BY <2>3, <2>4
<1>3. CASE c # Nil /\ c \in InstallRequest
  <2>1. Orphan(c, i) = [c EXCEPT !.caller = Nil] \/ Orphan(c, i) = c
    BY <1>3 DEF Orphan, InstallRequest
  <2>2. CASE Orphan(c, i) # Nil
    BY <1>3, <2>1, <2>2 DEF SameLoad, InstallRequest
  <2>3. CASE Orphan(c, i) = Nil
    BY <2>3 DEF Empty
  <2> QED
    BY <2>2, <2>3
<1>4. CASE c # Nil /\ c \in AppendReply \cup InstallReply
  BY <1>4 DEF Empty, Orphan, AppendReply, InstallReply
<1>5. CASE c # Nil /\ c \in Sending \cup Relocking \cup Notifying
  BY <1>5 DEF Empty, Orphan, Sending, Relocking, Notifying
<1> QED
  BY <1>1, <1>2, <1>3, <1>4, <1>5 DEF Call

LEMMA RestartMakesNoPiece ==
  ASSUME TypeOK, LogOnDisk, NEW i \in Server, NEW d, RestartFrom(i, d),
         d.log = disk[i].log,
         \A h \in Goroutine : call'[h] = Nil \/ call'[h] = Orphan(call[h], i)
  PROVE  MakesNoPiece
<1>1. log' = log
  BY DEF RestartFrom, LogOnDisk, TypeOK
<1>2. SameCalls
  <2> SUFFICES ASSUME NEW h \in Goroutine
               PROVE  Empty(call'[h]) \/ SameLoad(call[h], call'[h])
    BY DEF SameCalls
  <2>1. call[h] \in Call \cup {Nil}
    BY DEF TypeOK
  <2>2. Empty(Orphan(call[h], i)) \/ SameLoad(call[h], Orphan(call[h], i))
    BY <2>1, OrphanIsSame
  <2> QED
    BY <2>2 DEF Empty
<1> QED
  BY <1>1, <1>2 DEF MakesNoPiece

LEMMA HandOverMakesNoPiece ==
  ASSUME TypeOK, NEW g \in Goroutine, HandOver(g)
  PROVE  MakesNoPiece
<1> DEFINE d == call[g]
<1>1. /\ d # Nil
      /\ d.kind = "send" => d \in Sending
      /\ d.kind = "relock" => d \in Relocking
      /\ d.kind = "notify" => d \in Notifying
  BY CallKinds DEF TypeOK, HandOver, Deliver, Resume, DeliverSnapshot
<1>2. CASE Deliver(g)
  <2>1. Empty([kind |-> "relock", at |-> d.at, then |-> d.then])
    BY DEF Empty
  <2> QED
    BY <1>2, <2>1, OneGoroutine DEF Deliver, MakesNoPiece, logVars
<1>3. CASE Resume(g)
  <2>1. Empty(d.then)
    BY <1>1, <1>3 DEF Resume, Relocking, AppendReply, Empty
  <2> QED
    BY <1>3, <2>1, DeliveryIsEmpty DEF Resume, MakesNoPiece, logVars
<1>4. CASE DeliverSnapshot(g)
  <2>1. Empty(d.then)
    BY <1>1, <1>4 DEF DeliverSnapshot, Notifying, InstallReply, Empty
  <2> QED
    BY <1>4, <2>1, OneGoroutine DEF DeliverSnapshot, MakesNoPiece, logVars
<1> QED
  BY <1>2, <1>3, <1>4 DEF HandOver

LEMMA AnswersMakeNoPiece ==
  ASSUME TypeOK, NEW g \in Goroutine, TakeAnswer(g)
  PROVE  MakesNoPiece
<1>1. Empty(Nil)
  BY DEF Empty
<1>2. CASE ReplyOutdated(g)
  BY <1>1, <1>2, OneGoroutine DEF ReplyOutdated, StepDown, MakesNoPiece, logVars
<1>3. CASE AppendSucceeded(g)
  <2>1. UNCHANGED log /\ UpdateCommitIndex(g, call[g].caller)
    BY <1>3 DEF AppendSucceeded, logVars
  <2>2. \/ call' = [call EXCEPT ![g] = Nil]
        \/ ApplyLog(g, call[g].caller, Nil)
    BY <2>1 DEF UpdateCommitIndex
  <2> QED
    BY <1>1, <2>1, <2>2, OneGoroutine, DeliveryIsEmpty DEF MakesNoPiece
<1>4. CASE AppendFailed(g) \/ InstallDone(g)
  BY <1>1, <1>4, OneGoroutine DEF AppendFailed, InstallDone, MakesNoPiece, logVars
<1> QED
  BY <1>2, <1>3, <1>4 DEF TakeAnswer

LEMMA HandlersMakeNoPiece ==
  ASSUME TypeOK, NoSnapshots, NEW g \in Goroutine, Handle(g), ~AppendAccept(g)
  PROVE  MakesNoPiece
<1> DEFINE m == call[g]
<1>1. Empty(Installed(m))
  BY DEF Empty, Installed
<1>2. CASE AppendStale(g)
  BY <1>2, OneGoroutine, AnswerIsEmpty DEF AppendStale, MakesNoPiece, logVars
<1>3. CASE AppendMismatch(g)
  <2>1. PICK index, term : call' = [call EXCEPT ![g] = Appended(m, m.term, FALSE, index, term)]
    BY <1>3 DEF AppendMismatch
  <2>2. UNCHANGED log
    BY <1>3 DEF AppendMismatch, logVars
  <2>3. Empty(Appended(m, m.term, FALSE, index, term))
    BY AnswerIsEmpty
  <2> QED
    BY <2>1, <2>2, <2>3, OneGoroutine DEF MakesNoPiece
<1>4. CASE InstallStale(g) \/ InstallKnown(g)
  BY <1>1, <1>4, OneGoroutine DEF InstallStale, InstallKnown, MakesNoPiece, logVars
<1>5. CASE InstallSnapshot(g)
  <2>1. m # Nil /\ m.kind = "install" /\ m.lastIndex > snapshotIndex[m.to]
    BY <1>5 DEF InstallSnapshot
  <2>2. m.to \in Server
    BY <2>1, RequestType DEF InstallRequest
  <2>3. m.lastIndex = 0 /\ snapshotIndex[m.to] = 0
    BY <2>1, <2>2 DEF NoSnapshots
  <2> QED
    BY <2>1, <2>3
<1> QED
  BY <1>2, <1>3, <1>4, <1>5 DEF Handle

\* A peer that comes back has the log it had.
LEMMA CrashMakesNoPiece ==
  ASSUME TypeOK, LogOnDisk, NEW g \in Goroutine, CrashInHandler(g)
  PROVE  MakesNoPiece
<1> DEFINE m == call[g]
           d == [disk[m.to] EXCEPT !.term = m.term, !.vote = Nil]
<1>1. /\ m # Nil /\ m.kind \in {"append", "install"}
      /\ RestartFrom(m.to, d)
      /\ call' = [h \in Goroutine |->
                    IF h = g THEN Nil ELSE Orphan(call[h], m.to)]
  BY DEF CrashInHandler
<1>2. m.to \in Server
  BY <1>1, RequestType DEF AppendRequest, InstallRequest
<1>3. d.log = disk[m.to].log
  BY <1>2 DEF TypeOK, Persisted
<1>4. \A h \in Goroutine : call'[h] = Nil \/ call'[h] = Orphan(call[h], m.to)
  BY <1>1
<1>5. \E i \in Server : \E e :
        /\ RestartFrom(i, e)
        /\ e.log = disk[i].log
        /\ \A h \in Goroutine : call'[h] = Nil \/ call'[h] = Orphan(call[h], i)
  <2> HIDE DEF m, d
  <2> QED
    BY <1>1, <1>2, <1>3, <1>4
<1> QED
  BY <1>5, RestartMakesNoPiece

\* Three kinds of step make a new piece.
LEMMA StepKinds ==
  ASSUME TypeOK, LogOnDisk, NoSnapshots, Compacting = {}, [Next]_vars
  PROVE  \/ MakesNoPiece
         \/ \E i \in Server, cmd \in Command : Start(i, cmd)
         \/ \E g \in Goroutine, i, j \in Server : SendEntries(g, i, j)
         \/ \E g \in Goroutine : AppendAccept(g)
<1>1. ASSUME NEW i \in Server, PeerStep(i), \A cmd \in Command : ~Start(i, cmd)
      PROVE  MakesNoPiece
  <2>1. CASE TickerCheck(i) \/ StartElection(i)
    BY <2>1, CallsStay DEF TickerCheck, StartElection, MakesNoPiece, logVars
  <2>2. CASE Restart(i)
    BY <2>2, RestartMakesNoPiece DEF Restart
  <2>3. ASSUME NEW index \in 1 .. MaxIndex, Snapshot(i, index) PROVE FALSE
    BY <2>3 DEF Snapshot
  <2> QED
    BY <1>1, <2>1, <2>2, <2>3 DEF PeerStep
<1>2. ASSUME NEW c \in voteCalls, VoteStep(c) PROVE MakesNoPiece
  <2>1. UNCHANGED log
    BY <1>2 DEF VoteStep, RequestVoteStale, RequestVoteGrant,
       RequestVoteDeny, VoteIgnored, VoteOutdated, VoteCounted, StepDown, logVars
  <2>2. UNCHANGED call
    BY <1>2 DEF VoteStep, RequestVoteStale, RequestVoteGrant,
       RequestVoteDeny, VoteIgnored, VoteOutdated, VoteCounted
  <2> QED
    BY <2>1, <2>2, CallsStay DEF MakesNoPiece
<1>3. ASSUME NEW g \in Goroutine, GoroutineStep(g), ~AppendAccept(g),
             \A i, j \in Server : ~SendEntries(g, i, j)
      PROVE  MakesNoPiece
  <2>1. ASSUME NEW i \in Server, NEW j \in Server, SendSnapshot(g, i, j)
        PROVE  MakesNoPiece
    <3> DEFINE x == [kind |-> "install", caller |-> i, to |-> j,
                     term |-> currentTerm[i], lastIndex |-> snapshotIndex[i],
                     lastTerm |-> snapshotTerm[i]]
    <3>1. call' = [call EXCEPT ![g] = x] /\ UNCHANGED log
      BY <2>1 DEF SendSnapshot, logVars
    <3>2. Empty(x)
      BY DEF Empty, NoSnapshots
    <3> HIDE DEF x
    <3> QED
      BY <3>1, <3>2, OneGoroutine DEF MakesNoPiece
  <2>2. CASE Lose(g)
    <3>1. Empty(Nil)
      BY DEF Empty
    <3> QED
      BY <2>2, <3>1, OneGoroutine DEF Lose, MakesNoPiece, logVars
  <2> QED
    BY <1>3, <2>1, <2>2, HandlersMakeNoPiece, AnswersMakeNoPiece,
       HandOverMakesNoPiece, CrashMakesNoPiece DEF GoroutineStep, Send
<1>4. CASE UNCHANGED vars
  BY <1>4, CallsStay DEF vars, logVars, MakesNoPiece
<1> QED
  BY <1>1, <1>2, <1>3, <1>4 DEF Next

-----------------------------------------------------------------------------
(* The pieces after a step *)

LEMMA NoNewPiece ==
  ASSUME MakesNoPiece, NEW p, Around(p)'
  PROVE  Around(p)
<1>1. CASE IsInLog(p)'
  BY <1>1 DEF IsInLog, LogPiece, MakesNoPiece, Around
<1>2. CASE IsInCall(p)'
  <2>1. PICK g \in Goroutine : Appends(call'[g]) /\ p = CallPiece(call'[g])
    BY <1>2 DEF IsInCall, Appends, CallPiece
  <2> QED
    BY <2>1 DEF MakesNoPiece, SameCalls, SameLoad, Empty, Appends, IsInCall, Around
<1> QED
  BY <1>1, <1>2 DEF Around

\* A step that makes at most one new piece, which agrees with the old ones and
\* has only marks that there were.
LEMMA OnePiece ==
  ASSUME PiecesAgree, NEW q,
         \A p : Around(p)' => Around(p) \/ p = q,
         \A p : Around(p) => Agree(q, p)
  PROVE  PiecesAgree'
<1> SUFFICES ASSUME NEW p, NEW r, Around(p)', Around(r)'
             PROVE  Agree(p, r)
  BY DEF PiecesAgree
<1>1. (Around(p) \/ p = q) /\ (Around(r) \/ r = q)
  OBVIOUS
<1> QED
  BY <1>1, AgreeReflexive, AgreeSymmetric DEF PiecesAgree

LEMMA OldMarks ==
  ASSUME NEW q,
         \A p : Around(p)' => Around(p) \/ p = q,
         \A n \in DOMAIN q : Marked(n, q[n].term)
  PROVE  MarksKept
<1> SUFFICES ASSUME NEW n, NEW t, Marked(n, t)'
             PROVE  Marked(n, t)
  BY DEF MarksKept
<1>1. PICK p : Around(p)' /\ n \in DOMAIN p /\ p[n].term = t
  BY DEF Marked
<1> QED
  BY <1>1 DEF Marked

LEMMA NoPieceKeeps ==
  ASSUME LogInv, MakesNoPiece
  PROVE  PiecesAgree' /\ MarksKept /\ LeadersKeepLog
<1>1. \A p : Around(p)' => Around(p)
  BY NoNewPiece
<1>2. PiecesAgree'
  BY <1>1 DEF LogInv, PiecesAgree
<1>3. MarksKept
  BY <1>1 DEF MarksKept, Marked
<1> QED
  BY <1>2, <1>3 DEF LeadersKeepLog, MakesNoPiece

\* A call brings a part of the leader's log.
LEMMA SendKeeps ==
  ASSUME TypeOK, TypeOK', LogInv, NEW g \in Goroutine, NEW i \in Server, NEW j \in Server,
         SendEntries(g, i, j)
  PROVE  PiecesAgree' /\ MarksKept /\ LeadersKeepLog
<1> DEFINE prev == nextIndex[i][j] - 1
           m == [kind |-> "append", caller |-> i, to |-> j,
                 term |-> currentTerm[i], prevLogIndex |-> prev,
                 prevLogTerm |-> TermAt(i, prev),
                 entries |-> EntriesFrom(i, prev + 1),
                 leaderCommit |-> commitIndex[i]]
           p == LogPiece(i)
           q == CallPiece(m)
<1>1. /\ prev \in snapshotIndex[i] .. LastIndex(i)
      /\ call' = [call EXCEPT ![g] = m]
      /\ UNCHANGED log
  BY DEF SendEntries, logVars
<1>2. /\ snapshotIndex[i] = 0 /\ snapshotTerm[i] = 0 /\ log[i][1].term = 0
      /\ log[i] \in Seq(Entry) /\ Len(log[i]) \in Nat \ {0}
      /\ \A k \in 1 .. Len(log[i]) : log[i][k] \in Entry
  BY LogFacts DEF LogInv, NoSnapshots
<1>3. prev \in Nat /\ prev <= Len(log[i]) - 1
  BY <1>1, <1>2 DEF LastIndex
<1> HIDE DEF prev
<1>4. /\ m.prevLogIndex = prev
      /\ m.prevLogTerm = log[i][prev + 1].term
      /\ m.entries = SubSeq(log[i], prev + 2, Len(log[i]))
  <2>1. prev - 0 + 1 = prev + 1 /\ (prev + 1) - 0 + 1 = prev + 2
    BY <1>3
  <2>2. TermAt(i, prev) = log[i][prev + 1].term
    BY <1>2, <2>1 DEF TermAt, EntryAt
  <2>3. EntriesFrom(i, prev + 1) = SubSeq(log[i], prev + 2, Len(log[i]))
    BY <1>2, <2>1 DEF EntriesFrom
  <2> QED
    BY <2>2, <2>3
<1>5. /\ Len(m.entries) = Len(log[i]) - 1 - prev
      /\ \A k \in 1 .. Len(m.entries) : m.entries[k] = log[i][prev + 1 + k]
  <2> DEFINE a == prev + 2
             b == Len(log[i])
  <2>1. a \in Int /\ b \in Int /\ \A k \in a .. b : log[i][k] \in Entry
    BY <1>2, <1>3
  <2>2. /\ Len(SubSeq(log[i], a, b)) = IF a <= b THEN b - a + 1 ELSE 0
        /\ \A k \in 1 .. b - a + 1 : SubSeq(log[i], a, b)[k] = log[i][a + k - 1]
    BY <2>1, SubSeqProperties
  <2>3. /\ (IF a <= b THEN b - a + 1 ELSE 0) = b - 1 - prev
        /\ b - a + 1 = b - 1 - prev
        /\ \A k \in Nat : a + k - 1 = prev + 1 + k
    BY <1>2, <1>3
  <2> HIDE DEF a, b
  <2>4. b - 1 - prev \in Nat
    BY <1>2, <1>3 DEF b
  <2>5. Len(m.entries) = b - 1 - prev
    BY <1>4, <2>2, <2>3 DEF a, b
  <2>6. ASSUME NEW k \in 1 .. b - 1 - prev
        PROVE  m.entries[k] = log[i][prev + 1 + k]
    <3>1. k \in Nat /\ a + k - 1 = prev + 1 + k
      BY <2>3, <2>4
    <3>2. SubSeq(log[i], a, b)[k] = log[i][prev + 1 + k]
      BY <2>2, <2>3, <3>1
    <3>3. m.entries = SubSeq(log[i], a, b)
      BY <1>4 DEF a, b
    <3> QED
      BY <3>2, <3>3
  <2> QED
    BY <2>5, <2>6 DEF b
<1>6. m \in AppendRequest
  <2>1. commitIndex[i] \in Nat /\ currentTerm[i] \in Nat
    BY DEF TypeOK
  <2>2. TermAt(i, prev) \in Nat
    BY <1>1, TermAtType
  <2>3. EntriesFrom(i, prev + 1) \in Seq(Entry)
    BY <1>2, <1>3, SuffixType DEF EntriesFrom
  <2> QED
    BY <1>3, <2>1, <2>2, <2>3 DEF AppendRequest
<1> HIDE DEF m
<1>7. /\ DOMAIN p = 0 .. Len(log[i]) - 1
      /\ \A n \in DOMAIN p : p[n] = log[i][n + 1]
      /\ DOMAIN q = prev .. Len(log[i]) - 1
      /\ \A n \in DOMAIN q : q[n] = IF n = prev THEN NoEntry(log[i][prev + 1].term)
                                               ELSE log[i][n + 1]
  <2>1. /\ DOMAIN p = 0 .. Len(log[i]) - 1
        /\ \A n \in DOMAIN p : p[n] = log[i][n + 1]
    BY LogPieceIs
  <2>2. /\ DOMAIN q = prev .. prev + Len(m.entries)
        /\ \A n \in DOMAIN q : q[n] = IF n = prev THEN NoEntry(log[i][prev + 1].term)
                                                 ELSE m.entries[n - prev]
    BY <1>4, <1>6, CallPieceIs
  <2>3. prev + Len(m.entries) = Len(log[i]) - 1
    BY <1>2, <1>3, <1>5
  <2>4. ASSUME NEW n \in prev .. Len(log[i]) - 1, n # prev
        PROVE  m.entries[n - prev] = log[i][n + 1]
    <3>1. n - prev \in 1 .. Len(m.entries) /\ prev + 1 + (n - prev) = n + 1
      BY <1>2, <1>3, <1>5, <2>4
    <3> QED
      BY <1>5, <3>1
  <2> QED
    BY <2>1, <2>2, <2>3, <2>4
<1> HIDE DEF p, q
<1>8. /\ DOMAIN q \subseteq DOMAIN p
      /\ \A k \in DOMAIN q : /\ q[k].term = p[k].term
                             /\ k - 1 \in DOMAIN q => q[k] = p[k]
  BY <1>2, <1>3, <1>7 DEF NoEntry
<1>9. Around(p)
  BY DEF Around, IsInLog, p
<1>10. \A s : Around(s)' => Around(s) \/ s = q
  <2> SUFFICES ASSUME NEW s, Around(s)' PROVE Around(s) \/ s = q
    OBVIOUS
  <2>1. CASE IsInLog(s)'
    BY <1>1, <2>1 DEF IsInLog, LogPiece, Around
  <2>2. CASE IsInCall(s)'
    <3>1. PICK h \in Goroutine : Appends(call'[h]) /\ s = CallPiece(call'[h])
      BY <2>2 DEF IsInCall, Appends, CallPiece
    <3>2. CASE h = g
      BY <1>1, <3>1, <3>2 DEF TypeOK, q
    <3>3. CASE h # g
      <4>1. call'[h] = call[h]
        BY <1>1, <3>3 DEF TypeOK
      <4> QED
        BY <3>1, <4>1 DEF Around, IsInCall
    <3> QED
      BY <3>2, <3>3
  <2> QED
    BY <2>1, <2>2 DEF Around
<1>11. \A s : Around(s) => Agree(q, s)
  BY <1>8, <1>9, PartAgrees DEF LogInv, PiecesAgree
<1>12. \A n \in DOMAIN q : Marked(n, q[n].term)
  BY <1>8, <1>9 DEF Marked
<1>13. PiecesAgree'
  BY <1>10, <1>11, OnePiece DEF LogInv
<1>14. MarksKept
  BY <1>10, <1>12, OldMarks
<1> QED
  BY <1>1, <1>13, <1>14 DEF LeadersKeepLog

\* A front of s followed by the end of e, which starts behind position n + 1.
Joined(s, e, n, k) == SubSeq(s, 1, n + k) \o SubSeq(e, k, Len(e))

LEMMA JoinedIs ==
  ASSUME NEW s \in Seq(Entry), NEW e \in Seq(Entry), NEW n \in Nat,
         NEW k \in 1 .. Len(e), n + k <= Len(s)
  PROVE  /\ Len(Joined(s, e, n, k)) = n + 1 + Len(e)
         /\ \A x \in 1 .. n + k : Joined(s, e, n, k)[x] = s[x]
         /\ \A x \in n + k + 1 .. n + 1 + Len(e) :
              Joined(s, e, n, k)[x] = e[x - n - 1]
<1>0. PICK u : u = Joined(s, e, n, k)
  OBVIOUS
<1> DEFINE front == SubSeq(s, 1, n + k)
           back == SubSeq(e, k, Len(e))
<1>1. /\ Len(s) \in Nat /\ Len(e) \in Nat
      /\ \A x \in 1 .. Len(s) : s[x] \in Entry
      /\ \A x \in 1 .. Len(e) : e[x] \in Entry
  BY LenProperties, ElementOfSeq
<1>2. PICK E \in Nat, c \in Nat : E = Len(e) /\ c = n + k /\ 1 <= c /\ k \in 1 .. E
  BY <1>1
<1>3. /\ front \in Seq(Entry) /\ Len(front) = c
      /\ \A x \in 1 .. c : front[x] = s[x]
  <2>1. \A x \in 1 .. c : s[x] \in Entry
    BY <1>1, <1>2
  <2>2. /\ SubSeq(s, 1, c) \in Seq(Entry)
        /\ Len(SubSeq(s, 1, c)) = IF 1 <= c THEN c - 1 + 1 ELSE 0
        /\ \A x \in 1 .. c - 1 + 1 : SubSeq(s, 1, c)[x] = s[1 + x - 1]
    BY <1>2, <2>1, SubSeqProperties
  <2>3. c - 1 + 1 = c /\ \A x \in 1 .. c : 1 + x - 1 = x
    BY <1>2
  <2> QED
    BY <1>2, <2>2, <2>3
<1>4. /\ back \in Seq(Entry) /\ Len(back) = E - k + 1
      /\ \A x \in 1 .. E - k + 1 : back[x] = e[k + x - 1]
  <2>1. k \in Int /\ E \in Int /\ k <= E /\ \A x \in k .. E : e[x] \in Entry
    BY <1>1, <1>2
  <2>2. /\ SubSeq(e, k, E) \in Seq(Entry) /\ Len(SubSeq(e, k, E)) = E - k + 1
        /\ \A x \in 1 .. E - k + 1 : SubSeq(e, k, E)[x] = e[k + x - 1]
    BY <2>1, SubSeqProperties
  <2> QED
    BY <1>2, <2>2
<1> HIDE DEF front, back
<1>5. u = front \o back
  BY <1>0 DEF front, back, Joined
<1>6. /\ Len(u) = Len(front) + Len(back)
      /\ \A x \in 1 .. Len(front) + Len(back) :
           u[x] = IF x <= Len(front) THEN front[x] ELSE back[x - Len(front)]
  <2>1. front \in Seq(Entry) /\ back \in Seq(Entry)
    BY <1>3, <1>4
  <2> QED
    BY <1>5, <2>1, ConcatProperties
<1>7. /\ Len(u) = c + (E - k + 1)
      /\ \A x \in 1 .. c + (E - k + 1) :
           u[x] = IF x <= c THEN front[x] ELSE back[x - c]
  BY <1>3, <1>4, <1>6
<1>8. c + (E - k + 1) = n + 1 + E
  BY <1>2
<1>9. ASSUME NEW x \in 1 .. c PROVE u[x] = s[x]
  <2>1. x \in 1 .. c + (E - k + 1) /\ x <= c
    BY <1>2
  <2>2. u[x] = front[x]
    BY <1>7, <2>1
  <2> QED
    BY <1>3, <2>2
<1>10. ASSUME NEW x \in c + 1 .. n + 1 + E PROVE u[x] = e[x - n - 1]
  <2>1. /\ x \in 1 .. c + (E - k + 1) /\ ~(x <= c)
        /\ x - c \in 1 .. E - k + 1 /\ k + (x - c) - 1 = x - n - 1
    BY <1>2
  <2> QED
    BY <1>4, <1>7, <2>1
<1> QED
  BY <1>0, <1>2, <1>7, <1>8, <1>9, <1>10

\* The same of the pieces: p is that of s, r that of the result, q that of a call
\* with the entries e.
LEMMA ReplacedSplices ==
  ASSUME NEW s \in Seq(Entry), NEW e \in Seq(Entry), NEW n \in Nat,
         NEW k \in 1 .. Len(e), n + k <= Len(s), NEW t \in Nat,
         NEW u, u = Joined(s, e, n, k),
         NEW p, p = [x \in 0 .. Len(s) - 1 |-> s[x + 1]],
         NEW q, q = [x \in n .. n + Len(e) |->
                       IF x = n THEN NoEntry(t) ELSE e[x - n]],
         NEW r, r = [x \in 0 .. Len(u) - 1 |-> u[x + 1]],
         p[n + k - 1].term = q[n + k - 1].term
  PROVE  Spliced(r, p, q, n + k - 1)
<1>1. Len(s) \in Nat /\ Len(e) \in Nat
  BY LenProperties
<1>2. /\ Len(u) = n + 1 + Len(e)
      /\ \A x \in 1 .. n + k : u[x] = s[x]
      /\ \A x \in n + k + 1 .. n + 1 + Len(e) : u[x] = e[x - n - 1]
  BY JoinedIs
<1>3. DOMAIN r = 0 .. n + Len(e) /\ \A x \in 0 .. n + Len(e) : r[x] = u[x + 1]
  <2>1. Len(u) - 1 = n + Len(e)
    BY <1>1, <1>2
  <2> QED
    BY <2>1
<1>4. ASSUME NEW x \in 0 .. n + Len(e), x <= n + k - 1
      PROVE  x \in DOMAIN p /\ r[x] = p[x]
  <2>1. x + 1 \in 1 .. n + k /\ x \in 0 .. Len(s) - 1
    BY <1>1, <1>4
  <2> QED
    BY <1>2, <1>3, <2>1
<1>5. ASSUME NEW x \in 0 .. n + Len(e), x > n + k - 1
      PROVE  x \in DOMAIN q /\ r[x] = q[x]
  <2>1. /\ x + 1 \in n + k + 1 .. n + 1 + Len(e) /\ x + 1 - n - 1 = x - n
        /\ x \in n .. n + Len(e) /\ x # n
    BY <1>1, <1>5
  <2>2. u[x + 1] = e[x - n]
    BY <1>2, <2>1
  <2>3. q[x] = e[x - n]
    BY <2>1
  <2> QED
    BY <1>3, <2>1, <2>2, <2>3
<1>6. DOMAIN p = 0 .. Len(s) - 1 /\ DOMAIN q = n .. n + Len(e)
  OBVIOUS
<1>7. /\ n + k - 1 \in Common(p, q)
      /\ DOMAIN r = {x \in DOMAIN p : x <= n + k - 1}
                      \cup {x \in DOMAIN q : x > n + k - 1}
  BY <1>1, <1>3, <1>6 DEF Common
<1> QED
  BY <1>3, <1>4, <1>5, <1>7 DEF Spliced

\* The merged log is the log up to where it agrees with the call, and the call
\* from there; or nothing changed.
LEMMA MergeSplices ==
  ASSUME TypeOK, TypeOK', NoSnapshots, NEW i \in Server, NEW m \in AppendRequest,
         HasPrevious(i, m), Merge(i, m)
  PROVE  \/ UNCHANGED log
         \/ /\ \A j \in Server \ {i} : log'[j] = log[j]
            /\ \E c : Spliced(LogPiece(i)', LogPiece(i), CallPiece(m), c)
<1> DEFINE prev == m.prevLogIndex
           p == LogPiece(i)
           q == CallPiece(m)
           L == Len(log[i])
           E == Len(m.entries)
<1>1. /\ prev \in Nat /\ E \in Nat /\ m.prevLogTerm \in Nat
      /\ DOMAIN m.entries = 1 .. E
      /\ \A k \in 1 .. E : m.entries[k] \in Entry
  BY LenProperties, ElementOfSeq DEF AppendRequest
<1>2. /\ snapshotIndex[i] = 0 /\ snapshotTerm[i] = 0 /\ log[i][1].term = 0
      /\ log[i] \in Seq(Entry) /\ L \in Nat \ {0}
      /\ \A k \in 1 .. L : log[i][k] \in Entry
  BY LogFacts DEF NoSnapshots
<1>3. LastIndex(i) = L - 1
  BY <1>2 DEF LastIndex
<1>4. prev <= L - 1 /\ log[i][prev + 1].term = m.prevLogTerm
  <2>1. prev <= L - 1 /\ TermAt(i, prev) = m.prevLogTerm
    BY <1>1, <1>2, <1>3 DEF HasPrevious
  <2>2. prev - 0 + 1 = prev + 1
    BY <1>1
  <2>3. TermAt(i, prev) = log[i][prev + 1].term
    BY <1>2, <2>2 DEF TermAt, EntryAt
  <2> QED
    BY <2>1, <2>3
<1>5. /\ DOMAIN p = 0 .. L - 1
      /\ \A n \in 0 .. L - 1 : p[n] = log[i][n + 1]
  BY LogPieceIs
<1>6. /\ DOMAIN q = prev .. prev + E
      /\ \A n \in prev .. prev + E :
           q[n] = IF n = prev THEN NoEntry(m.prevLogTerm) ELSE m.entries[n - prev]
  BY CallPieceIs
<1>7. ASSUME NEW k \in 1 .. E, Present(i, m, k)
      PROVE  prev + k <= L - 1 /\ p[prev + k].term = q[prev + k].term
  <2>1. prev + k <= L - 1
    BY <1>3, <1>7 DEF Present
  <2>2. log[i][prev + k - 0 + 1].term = m.entries[k].term
    <3>1. snapshotIndex[i] = 0
      BY <1>2
    <3>2. EntryAt(i, m.prevLogIndex + k) = log[i][prev + k - 0 + 1]
      BY <1>1, <3>1 DEF EntryAt
    <3>3. EntryAt(i, m.prevLogIndex + k).term = m.entries[k].term
      BY <1>7 DEF Present
    <3> QED
      BY <3>2, <3>3
  <2>3. /\ prev + k - 0 + 1 = (prev + k) + 1 /\ (prev + k) - prev = k
        /\ prev + k \in 0 .. L - 1 /\ prev + k \in prev .. prev + E
        /\ prev + k # prev
    BY <1>1, <1>2, <2>1
  <2>4. p[prev + k] = log[i][(prev + k) + 1] /\ q[prev + k] = m.entries[k]
    BY <1>5, <1>6, <2>3
  <2> QED
    BY <2>1, <2>2, <2>3, <2>4
<1>8. p[prev].term = q[prev].term
  <2>1. prev \in 0 .. L - 1 /\ prev \in prev .. prev + E
    BY <1>1, <1>2, <1>4
  <2>2. p[prev] = log[i][prev + 1]
    BY <1>5, <2>1
  <2>3. q[prev] = NoEntry(m.prevLogTerm)
    BY <1>6, <2>1
  <2> HIDE DEF p, q
  <2> QED
    BY <1>4, <2>2, <2>3 DEF NoEntry
<1>9. ASSUME NEW k \in 1 .. E,
             \A x \in 1 .. k - 1 : Present(i, m, x),
             log' = [log EXCEPT ![i] = SubSeq(@, 1, prev + k - snapshotIndex[i])
                                         \o SubSeq(m.entries, k, E)]
      PROVE  /\ \A j \in Server \ {i} : log'[j] = log[j]
             /\ Spliced(LogPiece(i)', p, q, prev + k - 1)
  <2>1. prev + k - snapshotIndex[i] = prev + k
    BY <1>1, <1>2
  <2>2. /\ log'[i] = SubSeq(log[i], 1, prev + k) \o SubSeq(m.entries, k, Len(m.entries))
        /\ \A j \in Server \ {i} : log'[j] = log[j]
    BY <1>9, <2>1 DEF TypeOK
  <2>3. prev + k <= L /\ p[prev + k - 1].term = q[prev + k - 1].term
    <3>1. CASE k = 1
      <4>1. prev + k - 1 = prev /\ prev + k <= L
        BY <1>1, <1>2, <1>4, <3>1
      <4> HIDE DEF p, q
      <4> QED
        BY <1>8, <4>1
    <3>2. CASE k # 1
      <4>1. k - 1 \in 1 .. E /\ k - 1 \in 1 .. k - 1 /\ prev + (k - 1) = prev + k - 1
        BY <1>1, <3>2
      <4>2. Present(i, m, k - 1)
        BY <1>9, <4>1
      <4>3. prev + (k - 1) <= L - 1 /\ p[prev + (k - 1)].term = q[prev + (k - 1)].term
        BY <1>7, <4>1, <4>2
      <4>4. prev + k <= L
        BY <1>1, <1>2, <4>3
      <4> HIDE DEF p, q
      <4> QED
        BY <4>1, <4>3, <4>4
    <3> QED
      BY <3>1, <3>2
  <2>4. /\ m.entries \in Seq(Entry) /\ log[i] \in Seq(Entry)
        /\ prev \in Nat /\ m.prevLogTerm \in Nat /\ k \in 1 .. Len(m.entries)
    BY <1>1, <1>2 DEF AppendRequest
  <2>5. LogPiece(i)' = [x \in 0 .. Len(log'[i]) - 1 |-> log'[i][x + 1]]
    BY DEF LogPiece
  <2>6. Spliced(LogPiece(i)', LogPiece(i), CallPiece(m), prev + k - 1)
    <3>1. PICK s, e, n, u, t :
            s = log[i] /\ e = m.entries /\ n = prev /\ u = log'[i] /\ t = m.prevLogTerm
      OBVIOUS
    <3>2. PICK x, y, r : x = LogPiece(i) /\ y = CallPiece(m) /\ r = LogPiece(i)'
      OBVIOUS
    <3>3. /\ s \in Seq(Entry) /\ e \in Seq(Entry) /\ n \in Nat /\ t \in Nat
          /\ k \in 1 .. Len(e) /\ n + k <= Len(s)
          /\ u = Joined(s, e, n, k)
      BY <2>2, <2>3, <2>4, <3>1 DEF Joined
    <3>4. /\ x = [z \in 0 .. Len(s) - 1 |-> s[z + 1]]
          /\ y = [z \in n .. n + Len(e) |-> IF z = n THEN NoEntry(t) ELSE e[z - n]]
          /\ r = [z \in 0 .. Len(u) - 1 |-> u[z + 1]]
      BY <2>5, <3>1, <3>2 DEF LogPiece, CallPiece
    <3>5. x[n + k - 1].term = y[n + k - 1].term
      BY <2>3, <3>1, <3>2
    <3>6. Spliced(r, x, y, n + k - 1)
      BY <3>3, <3>4, <3>5, ReplacedSplices
    <3> QED
      BY <3>1, <3>2, <3>6
  <2> QED
    BY <2>2, <2>6
<1>10. CASE UNCHANGED log
  BY <1>10
<1>11. CASE ~UNCHANGED log
  <2>1. PICK k \in 1 .. E :
          /\ \A x \in 1 .. k - 1 : Present(i, m, x)
          /\ log' = [log EXCEPT ![i] = SubSeq(@, 1, prev + k - snapshotIndex[i])
                                         \o SubSeq(m.entries, k, E)]
    BY <1>1, <1>11 DEF Merge
  <2> HIDE DEF p, q
  <2>2. /\ \A j \in Server \ {i} : log'[j] = log[j]
        /\ Spliced(LogPiece(i)', p, q, prev + k - 1)
    BY <1>9, <2>1
  <2> QED
    BY <2>2 DEF p, q
<1> QED
  BY <1>10, <1>11

\* The follower's goroutine answers, or delivers commands before it does.
LEMMA AcceptCalls ==
  ASSUME TypeOK, NEW g \in Goroutine, AppendAccept(g)
  PROVE  SameCalls
<1> DEFINE reply == Appended(call[g], call[g].term, TRUE, 0, 0)
<1>1. call' = [call EXCEPT ![g] = reply] \/ ApplyLog(g, call[g].to, reply)
  BY DEF AppendAccept
<1>2. Empty(reply)
  BY AnswerIsEmpty
<1> HIDE DEF reply
<1> QED
  BY <1>1, <1>2, OneGoroutine, DeliveryIsEmpty

LEMMA AcceptKeeps ==
  ASSUME TypeOK, TypeOK', LogInv, NEW g \in Goroutine, AppendAccept(g)
  PROVE  PiecesAgree' /\ MarksKept /\ LeadersKeepLog
<1>a. PICK m : m = call[g]
  OBVIOUS
<1>b. PICK i : i = m.to
  OBVIOUS
<1> DEFINE p == LogPiece(i)
           q == CallPiece(m)
           r == LogPiece(i)'
<1>1. /\ m # Nil /\ m.kind = "append"
      /\ HasPrevious(i, m) /\ Merge(i, m)
      /\ state' = [state EXCEPT ![i] = "Follower"]
  BY <1>a, <1>b DEF AppendAccept, AdoptLeader
<1>2. m \in AppendRequest
  BY <1>a, <1>1, RequestType
<1>3. i \in Server
  BY <1>b, <1>2 DEF AppendRequest
<1>4. SameCalls
  BY AcceptCalls
<1>5. /\ IsPiece(p) /\ IsPiece(q)
      /\ Around(p) /\ Around(q)
  BY <1>a, <1>1, <1>2, <1>3, LogPieceIs, CallPieceIs
  DEF Around, IsInLog, IsInCall, Appends
<1>6. \/ UNCHANGED log
      \/ /\ \A j \in Server \ {i} : log'[j] = log[j]
         /\ \E c : Spliced(r, p, q, c)
  BY <1>1, <1>2, <1>3, MergeSplices DEF LogInv
<1>7. CASE UNCHANGED log
  BY <1>4, <1>7, NoPieceKeeps DEF MakesNoPiece
<1>8. ASSUME \A j \in Server \ {i} : log'[j] = log[j],
             NEW c, Spliced(r, p, q, c)
      PROVE  PiecesAgree' /\ MarksKept /\ LeadersKeepLog
  <2>1. \A s : Around(s)' => Around(s) \/ s = r
    <3> SUFFICES ASSUME NEW s, Around(s)' PROVE Around(s) \/ s = r
      OBVIOUS
    <3>1. CASE IsInLog(s)'
      <4>1. PICK j \in Server : s = LogPiece(j)'
        BY <3>1 DEF IsInLog, LogPiece
      <4>2. j # i => s = LogPiece(j)
        BY <1>8, <4>1 DEF LogPiece
      <4> QED
        BY <4>1, <4>2 DEF Around, IsInLog
    <3>2. CASE IsInCall(s)'
      <4>1. PICK h \in Goroutine : Appends(call'[h]) /\ s = CallPiece(call'[h])
        BY <3>2 DEF IsInCall, Appends, CallPiece
      <4> QED
        BY <1>4, <4>1 DEF SameCalls, SameLoad, Empty, Appends, IsInCall, Around
    <3> QED
      BY <3>1, <3>2 DEF Around
  <2> HIDE DEF p, q, r
  <2>2. \A s : Around(s) => Agree(r, s)
    <3> SUFFICES ASSUME NEW s, Around(s) PROVE Agree(r, s)
      OBVIOUS
    <3>1. IsPiece(s) /\ Agree(p, s) /\ Agree(q, s)
      BY <1>5, AroundIsPiece DEF LogInv, PiecesAgree
    <3> QED
      BY <1>5, <1>8, <3>1, SpliceAgrees
  <2>3. \A n \in DOMAIN r : Marked(n, r[n].term)
    <3> SUFFICES ASSUME NEW n \in DOMAIN r PROVE Marked(n, r[n].term)
      OBVIOUS
    <3>1. \/ n \in DOMAIN p /\ r[n] = p[n]
          \/ n \in DOMAIN q /\ r[n] = q[n]
      <4>1. /\ (n \in DOMAIN p /\ n <= c) \/ (n \in DOMAIN q /\ n > c)
            /\ r[n] = IF n <= c THEN p[n] ELSE q[n]
        BY <1>8 DEF Spliced
      <4>2. n \in Nat /\ c \in Nat
        BY <1>5, <1>8, <4>1, PieceInterval DEF Spliced, Common
      <4> QED
        BY <4>1, <4>2
    <3> QED
      BY <1>5, <3>1 DEF Marked
  <2>4. PiecesAgree'
    BY <2>1, <2>2, OnePiece DEF LogInv
  <2>5. MarksKept
    BY <2>1, <2>3, OldMarks
  <2>6. LeadersKeepLog
    BY <1>1, <1>3, <1>8 DEF LeadersKeepLog, TypeOK
  <2> QED
    BY <2>4, <2>5, <2>6
<1> QED
  BY <1>6, <1>7, <1>8

\* A leader's term is won: by its own votes.
LEMMA LeaderHasWon ==
  ASSUME TypeOK, ElectionInv, NEW i \in Server, state[i] = "Leader"
  PROVE  Won(currentTerm[i])
<1> DEFINE t == currentTerm[i]
           Voters == {j \in Server : <<j, t, i>> \in ballots}
<1>1. /\ <<i, t, i>> \in ballots
      /\ voteCount[i] <= Cardinality(Counted(i, t))
      /\ IsMajority(voteCount[i])
  BY DEF ElectionInv, VotesCovered
<1>2. Counted(i, t) \subseteq Voters
  BY DEF Counted
<1>3. IsFiniteSet(Voters) /\ Cardinality(Voters) \in Nat /\ Cardinality(Server) \in Nat
  BY VotersFinite
<1>4. voteCount[i] \in Nat /\ Cardinality(Counted(i, t)) \in Nat
  BY CountedFinite DEF TypeOK
<1>5. IsMajority(Cardinality(Voters))
  <2> HIDE DEF Voters
  <2>1. Cardinality(Counted(i, t)) <= Cardinality(Voters)
    BY <1>2, <1>3, FS_Subset
  <2> QED
    BY <1>1, <1>3, <1>4, <2>1 DEF IsMajority
<1> QED
  BY <1>1, <1>5 DEF Won

\* The leader's new entry is the first one of its term at that index.
LEMMA StartKeeps ==
  ASSUME Known, TypeOK', LogInv, NEW i \in Server, NEW cmd \in Command,
         Start(i, cmd)
  PROVE  PiecesAgree' /\ LeaderHasItsTerm' /\ TermsWon'
<1> USE DEF Known
<1> DEFINE t == currentTerm[i]
           L == Len(log[i])
           e == [term |-> t, command |-> cmd]
           p == LogPiece(i)
           r == LogPiece(i)'
<1>1. /\ state[i] = "Leader"
      /\ log' = [log EXCEPT ![i] = Append(@, e)]
      /\ UNCHANGED <<state, currentTerm, ballots, call>>
  BY DEF Start, serverVars, electionVars
<1>2. log[i] \in Seq(Entry) /\ L \in Nat \ {0}
  BY LogFacts
<1>3. e \in Entry /\ e.term = t
  BY DEF Entry, TypeOK
<1>4. /\ \A j \in Server \ {i} : log'[j] = log[j]
      /\ Len(log'[i]) = L + 1
      /\ \A n \in 1 .. L : log'[i][n] = log[i][n]
      /\ log'[i][L + 1] = e
  <2>1. log'[i] = Append(log[i], e) /\ \A j \in Server \ {i} : log'[j] = log[j]
    BY <1>1 DEF TypeOK
  <2>2. /\ Len(Append(log[i], e)) = L + 1
        /\ \A n \in 1 .. L : Append(log[i], e)[n] = log[i][n]
        /\ Append(log[i], e)[L + 1] = e
    BY <1>2, <1>3, AppendProperties
  <2> QED
    BY <2>1, <2>2
<1>5. /\ DOMAIN p = 0 .. L - 1 /\ DOMAIN r = 0 .. L
      /\ \A n \in 0 .. L - 1 : r[n] = p[n]
      /\ r[L].term = t
  <2>1. /\ DOMAIN p = 0 .. L - 1
        /\ \A n \in 0 .. L - 1 : p[n] = log[i][n + 1]
    BY LogPieceIs
  <2>2. /\ DOMAIN r = 0 .. Len(log'[i]) - 1
        /\ \A n \in 0 .. Len(log'[i]) - 1 : r[n] = log'[i][n + 1]
    BY DEF LogPiece
  <2> HIDE DEF p, r, L, e
  <2>3. Len(log'[i]) - 1 = L
    BY <1>2, <1>4
  <2>4. ASSUME NEW n \in 0 .. L - 1 PROVE r[n] = p[n]
    <3>1. n + 1 \in 1 .. L /\ n \in 0 .. L
      BY <1>2
    <3> QED
      BY <1>4, <2>1, <2>2, <2>3, <3>1
  <2>5. L \in 0 .. L
    BY <1>2
  <2>6. r[L] = e
    BY <1>4, <2>2, <2>3, <2>5
  <2> QED
    BY <1>3, <2>1, <2>2, <2>3, <2>4, <2>6
<1>6. Around(p)
  BY DEF Around, IsInLog
<1>7. \A s : Around(s)' => Around(s) \/ s = r
  <2> SUFFICES ASSUME NEW s, Around(s)' PROVE Around(s) \/ s = r
    OBVIOUS
  <2>1. CASE IsInLog(s)'
    <3>1. PICK j \in Server : s = LogPiece(j)'
      BY <2>1 DEF IsInLog, LogPiece
    <3>2. j # i => s = LogPiece(j)
      BY <1>4, <3>1 DEF LogPiece
    <3> QED
      BY <3>1, <3>2 DEF Around, IsInLog
  <2>2. CASE IsInCall(s)'
    BY <1>1, <2>2 DEF IsInCall, Appends, CallPiece, Around
  <2> QED
    BY <2>1, <2>2 DEF Around
<1> HIDE DEF p, r
<1>8. ASSUME NEW n, NEW u, Marked(n, u)'
      PROVE  Marked(n, u) \/ (n = L /\ u = t)
  <2>1. PICK s : Around(s)' /\ n \in DOMAIN s /\ s[n].term = u
    BY <1>8 DEF Marked
  <2>2. CASE Around(s)
    BY <2>1, <2>2 DEF Marked
  <2>3. CASE s = r
    <3>1. n \in 0 .. L - 1 \/ n = L
      BY <1>2, <1>5, <2>1, <2>3
    <3>2. n \in 0 .. L - 1 => n \in DOMAIN p /\ p[n].term = u
      BY <1>5, <2>1, <2>3
    <3>3. n = L => u = t
      BY <1>5, <2>1, <2>3
    <3> QED
      BY <1>6, <3>1, <3>2, <3>3 DEF Marked
  <2> QED
    BY <1>7, <2>1, <2>2, <2>3
<1>9. ~Marked(L, t)
  <2> SUFFICES ASSUME Marked(L, t) PROVE FALSE
    OBVIOUS
  <2>1. L < L
    BY <1>1 DEF LogInv, LeaderHasItsTerm
  <2> QED
    BY <1>2, <2>1
<1>10. \A s : Around(s) => Agree(r, s)
  <2> SUFFICES ASSUME NEW s, Around(s), NEW n \in Common(r, s),
                      r[n].term = s[n].term,
                      NEW k \in Common(r, s), k <= n
               PROVE  SameAt(r, s, k)
    BY DEF Agree
  <2>1. n \in 0 .. L /\ k \in 0 .. L /\ n \in DOMAIN s /\ k \in DOMAIN s
    BY <1>5 DEF Common
  <2>2. n # L
    BY <1>5, <1>9, <2>1 DEF Marked
  <2>3. n \in 0 .. L - 1 /\ k \in 0 .. L - 1
    BY <1>2, <2>1, <2>2
  <2>4. Agree(p, s)
    BY <1>6 DEF LogInv, PiecesAgree
  <2>5. n \in Common(p, s) /\ k \in Common(p, s) /\ p[n].term = s[n].term
    BY <1>5, <2>1, <2>3 DEF Common
  <2>6. SameAt(p, s, k)
    BY <2>4, <2>5 DEF Agree
  <2>7. k - 1 \in Common(r, s) => k - 1 \in Common(p, s)
    BY <1>2, <1>5, <2>3 DEF Common
  <2> QED
    BY <1>5, <2>3, <2>6, <2>7 DEF SameAt
<1>11. PiecesAgree'
  BY <1>7, <1>10, OnePiece DEF LogInv
<1>12. LeaderHasItsTerm'
  <2> SUFFICES ASSUME NEW k \in Server, state[k] = "Leader",
                      NEW n, NEW u, u = currentTerm[k], Marked(n, u)'
               PROVE  n < Len(log'[k]) /\ log'[k][n + 1].term = u
    BY <1>1 DEF LeaderHasItsTerm
  <2>1. CASE Marked(n, u)
    <3>1. n < Len(log[k]) /\ log[k][n + 1].term = u
      BY <2>1 DEF LogInv, LeaderHasItsTerm
    <3>2. n \in Nat
      BY <2>1, MarkType
    <3>3. CASE k # i
      BY <1>4, <3>1, <3>3
    <3>4. CASE k = i
      <4>1. n + 1 \in 1 .. L /\ n < L + 1
        BY <1>2, <3>1, <3>2, <3>4
      <4> QED
        BY <1>4, <3>1, <3>4, <4>1
    <3> QED
      BY <3>3, <3>4
  <2>2. CASE n = L /\ u = t
    <3>1. k = i
      BY <1>1, <2>2, SafeElections DEF ElectionSafety
    <3> QED
      BY <1>2, <1>3, <1>4, <2>2, <3>1
  <2> QED
    BY <1>8, <2>1, <2>2
<1>13. TermsWon'
  <2> SUFFICES ASSUME NEW n, NEW u, Marked(n, u)', u # 0
               PROVE  Won(u)'
    BY DEF TermsWon
  <2>1. Won(u)
    BY <1>1, <1>8, LeaderHasWon DEF LogInv, TermsWon
  <2> QED
    BY <1>1, <2>1 DEF Won
<1> QED
  BY <1>11, <1>12, <1>13

-----------------------------------------------------------------------------
(* Without compaction nobody ever has a snapshot *)

ZeroSnapshots ==
  \A i \in Server :
    /\ snapshotIndex[i] = 0 /\ snapshotTerm[i] = 0
    /\ disk[i].snapshotIndex = 0 /\ disk[i].snapshotTerm = 0

LEMMA ZeroSaved ==
  ASSUME TypeOK, ZeroSnapshots, UNCHANGED <<snapshotIndex, snapshotTerm>>,
         UNCHANGED disk \/ \E i \in Server : Persist(i)
  PROVE  ZeroSnapshots'
<1>1. CASE UNCHANGED disk
  BY <1>1 DEF ZeroSnapshots
<1>2. ASSUME NEW i \in Server, Persist(i) PROVE ZeroSnapshots'
  BY <1>2 DEF Persist, ZeroSnapshots, TypeOK
<1> QED
  BY <1>1, <1>2

LEMMA ZeroRestored ==
  ASSUME TypeOK, ZeroSnapshots, NEW i \in Server, NEW d, RestartFrom(i, d),
         d.snapshotIndex = 0, d.snapshotTerm = 0
  PROVE  ZeroSnapshots'
  BY DEF RestartFrom, ZeroSnapshots, TypeOK

LEMMA ZeroSnapshotsStep ==
  ASSUME TypeOK, NoSnapshots, Compacting = {}, [Next]_vars
  PROVE  ZeroSnapshots'
<1>0. ZeroSnapshots
  BY DEF NoSnapshots, ZeroSnapshots
<1>1. ASSUME NEW i \in Server, PeerStep(i) PROVE ZeroSnapshots'
  <2>1. CASE TickerCheck(i) \/ StartElection(i)
    BY <1>0, <2>1, ZeroSaved DEF TickerCheck, StartElection, logVars
  <2>2. CASE Restart(i)
    BY <1>0, <2>2, ZeroRestored DEF Restart, ZeroSnapshots
  <2>3. ASSUME NEW cmd \in Command, Start(i, cmd) PROVE ZeroSnapshots'
    BY <1>0, <2>3, ZeroSaved DEF Start
  <2>4. ASSUME NEW index \in 1 .. MaxIndex, Snapshot(i, index) PROVE FALSE
    BY <2>4 DEF Snapshot
  <2> QED
    BY <1>1, <2>1, <2>2, <2>3, <2>4 DEF PeerStep
<1>2. ASSUME NEW c \in voteCalls, VoteStep(c) PROVE ZeroSnapshots'
  <2>1. c.to \in Server /\ c.candidate \in Server
    BY VoteKinds DEF TypeOK
  <2>2. UNCHANGED <<snapshotIndex, snapshotTerm>>
    BY <1>2 DEF VoteStep, RequestVoteStale, RequestVoteGrant,
       RequestVoteDeny, VoteIgnored, VoteOutdated, VoteCounted, StepDown, logVars
  <2>3. UNCHANGED disk \/ Persist(c.to) \/ Persist(c.candidate)
    BY <1>2 DEF VoteStep, RequestVoteStale, RequestVoteGrant,
       RequestVoteDeny, VoteIgnored, VoteOutdated, VoteCounted, StepDown
  <2> QED
    BY <1>0, <2>1, <2>2, <2>3, ZeroSaved
<1>3. ASSUME NEW g \in Goroutine, GoroutineStep(g) PROVE ZeroSnapshots'
  <2> DEFINE m == call[g]
  <2>1. /\ m # Nil /\ m.kind \in {"append", "install"} => m.to \in Server
        /\ m # Nil /\ m.kind \in {"appended", "installed"} => m.caller \in Server
    BY RequestType DEF AppendRequest, InstallRequest, AppendReply, InstallReply
  <2>2. CASE \E i, j \in Server : Send(g, i, j)
    BY <1>0, <2>2, ZeroSaved DEF Send, SendSnapshot, SendEntries, logVars
  <2>3. CASE AppendStale(g) \/ InstallStale(g)
    BY <1>0, <2>3, ZeroSaved DEF AppendStale, InstallStale, logVars
  <2>4. CASE AppendMismatch(g) \/ InstallKnown(g)
    BY <1>0, <2>1, <2>4, ZeroSaved DEF AppendMismatch, InstallKnown, logVars
  <2>5. CASE AppendAccept(g)
    BY <1>0, <2>1, <2>5, ZeroSaved DEF AppendAccept
  <2>6. CASE InstallSnapshot(g)
    <3>1. m # Nil /\ m.kind = "install" /\ m.lastIndex > snapshotIndex[m.to]
      BY <2>6 DEF InstallSnapshot
    <3>2. m.lastIndex = 0 /\ snapshotIndex[m.to] = 0
      BY <2>1, <3>1 DEF NoSnapshots
    <3> QED
      BY <3>1, <3>2
  <2>7. CASE ReplyOutdated(g)
    BY <1>0, <2>1, <2>7, ZeroSaved DEF ReplyOutdated, StepDown, logVars
  <2>8. CASE AppendSucceeded(g) \/ AppendFailed(g) \/ InstallDone(g)
    BY <1>0, <2>8, ZeroSaved DEF AppendSucceeded, AppendFailed, InstallDone, logVars
  <2>9. CASE HandOver(g) \/ Lose(g)
    BY <1>0, <2>9, ZeroSaved
    DEF HandOver, Deliver, Resume, DeliverSnapshot, Lose, logVars
  <2>10. CASE CrashInHandler(g)
    <3> DEFINE d == [disk[m.to] EXCEPT !.term = m.term, !.vote = Nil]
    <3>1. /\ m # Nil /\ m.kind \in {"append", "install"}
          /\ RestartFrom(m.to, d)
      BY <2>10 DEF CrashInHandler
    <3>2. m.to \in Server
      BY <2>1, <3>1
    <3>3. d.snapshotIndex = 0 /\ d.snapshotTerm = 0
      BY <1>0, <3>2 DEF ZeroSnapshots, TypeOK, Persisted
    <3> HIDE DEF d
    <3> QED
      BY <1>0, <3>1, <3>2, <3>3, ZeroRestored
  <2> QED
    BY <1>3, <2>2, <2>3, <2>4, <2>5, <2>6, <2>7, <2>8, <2>9, <2>10
       DEF GoroutineStep, Handle, TakeAnswer
<1>4. CASE UNCHANGED vars
  BY <1>0, <1>4, ZeroSaved DEF vars, logVars
<1> QED
  BY <1>1, <1>2, <1>3, <1>4 DEF Next

\* The stand-in at index 0 keeps its term, and install calls bring nothing.
StandInsZero == \A i \in Server : log[i][1].term = 0

InstallsZero ==
  \A g \in Goroutine :
    call[g] # Nil /\ call[g].kind = "install" => call[g].lastIndex = 0

LEMMA SameInstalls ==
  ASSUME InstallsZero, SameCalls
  PROVE  InstallsZero'
  BY DEF InstallsZero, SameCalls, SameLoad, Empty

LEMMA NoSnapshotsStep ==
  ASSUME TypeOK, TypeOK', LogOnDisk, NoSnapshots, Compacting = {}, [Next]_vars
  PROVE  NoSnapshots'
<1>0. StandInsZero /\ InstallsZero
  BY DEF NoSnapshots, StandInsZero, InstallsZero
<1>1. ASSUME MakesNoPiece
      PROVE  StandInsZero' /\ InstallsZero'
  BY <1>0, <1>1, SameInstalls DEF MakesNoPiece, StandInsZero
<1>2. ASSUME NEW i \in Server, NEW cmd \in Command, Start(i, cmd)
      PROVE  StandInsZero' /\ InstallsZero'
  <2> DEFINE e == [term |-> currentTerm[i], command |-> cmd]
  <2>1. log' = [log EXCEPT ![i] = Append(@, e)] /\ UNCHANGED call
    BY <1>2 DEF Start
  <2>2. log[i] \in Seq(Entry) /\ 1 \in 1 .. Len(log[i]) /\ e \in Entry
    <3>1. log[i] \in Seq(Entry) /\ Len(log[i]) \in Nat \ {0}
      BY LogFacts
    <3>2. e \in Entry
      BY DEF Entry, TypeOK
    <3> QED
      BY <3>1, <3>2
  <2>3. Append(log[i], e)[1] = log[i][1]
    BY <2>2, AppendProperties
  <2> HIDE DEF e
  <2> QED
    BY <1>0, <2>1, <2>3 DEF StandInsZero, InstallsZero, TypeOK
<1>3. ASSUME NEW g \in Goroutine, NEW i \in Server, NEW j \in Server,
             SendEntries(g, i, j)
      PROVE  StandInsZero' /\ InstallsZero'
  <2>1. UNCHANGED log /\ \A h \in Goroutine \ {g} : call'[h] = call[h]
    BY <1>3 DEF SendEntries, logVars, TypeOK
  <2>2. call'[g].kind = "append"
    BY <1>3 DEF SendEntries, TypeOK
  <2> QED
    BY <1>0, <2>1, <2>2 DEF StandInsZero, InstallsZero
<1>4. ASSUME NEW g \in Goroutine, AppendAccept(g)
      PROVE  StandInsZero' /\ InstallsZero'
  <2>1. InstallsZero'
    BY <1>0, <1>4, AcceptCalls, SameInstalls
  <2>a. PICK m : m = call[g]
    OBVIOUS
  <2>b. PICK i : i = m.to
    OBVIOUS
  <2>2. m # Nil /\ m.kind = "append" /\ HasPrevious(i, m) /\ Merge(i, m)
    BY <1>4, <2>a, <2>b DEF AppendAccept
  <2>3. m \in AppendRequest /\ i \in Server
    BY <2>a, <2>b, <2>2, RequestType DEF AppendRequest
  <2>4. CASE UNCHANGED log
    BY <1>0, <2>1, <2>4 DEF StandInsZero
  <2>5. ASSUME \A j \in Server \ {i} : log'[j] = log[j],
               NEW c, Spliced(LogPiece(i)', LogPiece(i), CallPiece(m), c)
        PROVE  StandInsZero'
    <3>1. 0 \in 0 .. Len(log[i]) - 1 /\ 0 \in 0 .. Len(log'[i]) - 1
      <4>1. Len(log[i]) \in Nat \ {0}
        BY <2>3, LogFacts
      <4>2. Len(log'[i]) \in Nat \ {0}
        <5>1. log'[i] \in Seq(Entry) /\ log'[i] # <<>>
          BY <2>3 DEF TypeOK
        <5> QED
          BY <5>1, EmptySeq
      <4> QED
        BY <4>1, <4>2
    <3>2. /\ LogPiece(i)[0] = log[i][1] /\ LogPiece(i)'[0] = log'[i][1]
          /\ 0 \in DOMAIN LogPiece(i)' /\ DOMAIN LogPiece(i) = 0 .. Len(log[i]) - 1
      BY <3>1 DEF LogPiece
    <3>3. c \in Nat
      BY <2>3, <2>5, <3>2, LogPieceIs, PieceInterval DEF Spliced, Common
    <3>4. LogPiece(i)'[0] = LogPiece(i)[0]
      BY <2>5, <3>2, <3>3 DEF Spliced
    <3> QED
      BY <1>0, <2>5, <3>2, <3>4 DEF StandInsZero
  <2> QED
    BY <2>1, <2>2, <2>3, <2>4, <2>5, MergeSplices
<1>5. StandInsZero' /\ InstallsZero'
  BY <1>1, <1>2, <1>3, <1>4, StepKinds
<1> QED
  BY <1>5, ZeroSnapshotsStep
  DEF ZeroSnapshots, StandInsZero, InstallsZero, NoSnapshots

-----------------------------------------------------------------------------
(* All steps together *)

LEMMA LogStep ==
  ASSUME Known, Known', LogInv, Compacting = {}, [Next]_vars
  PROVE  LogInv'
<1> USE DEF Known
<1>1. RolesMove
  BY RolesStep
<1>2. NoSnapshots'
  BY NoSnapshotsStep DEF LogInv
<1>3. RunnersPositive'
  BY <1>1, RunnersPositiveStep DEF LogInv
<1>4. ASSUME PiecesAgree', MarksKept, LeadersKeepLog
      PROVE  LogInv'
  BY <1>1, <1>2, <1>3, <1>4, LeadersStep DEF LogInv
<1>5. CASE MakesNoPiece
  BY <1>4, <1>5, NoPieceKeeps
<1>6. ASSUME NEW i \in Server, NEW cmd \in Command, Start(i, cmd)
      PROVE  LogInv'
  BY <1>2, <1>3, <1>6, StartKeeps DEF LogInv
<1>7. ASSUME NEW g \in Goroutine, NEW i \in Server, NEW j \in Server,
             SendEntries(g, i, j)
      PROVE  LogInv'
  BY <1>4, <1>7, SendKeeps
<1>8. ASSUME NEW g \in Goroutine, AppendAccept(g)
      PROVE  LogInv'
  BY <1>4, <1>8, AcceptKeeps
<1> QED
  BY <1>5, <1>6, <1>7, <1>8, StepKinds DEF LogInv

LEMMA LogInit ==
  ASSUME Init
  PROVE  LogInv
<1> DEFINE first == <<NoEntry(0)>>
           p == [n \in 0 .. 0 |-> NoEntry(0)]
<1>1. /\ \A i \in Server : log[i] = first
      /\ \A g \in Goroutine : call[g] = Nil
      /\ \A i \in Server : state[i] = "Follower"
  BY DEF Init
<1>2. first[1].term = 0 /\ Len(first) = 1 /\ first[1] = NoEntry(0)
  BY DEF NoEntry
<1>3. NoSnapshots
  BY <1>1, <1>2 DEF Init, NoSnapshots
<1>4. ASSUME NEW s, Around(s) PROVE s = p
  <2>1. PICK i \in Server : s = LogPiece(i)
    BY <1>1, <1>4 DEF Around, IsInLog, IsInCall, Appends
  <2>2. \A n \in 0 .. 0 : first[n + 1] = NoEntry(0)
    BY <1>2
  <2> HIDE DEF first
  <2>3. LogPiece(i) = [n \in 0 .. 1 - 1 |-> first[n + 1]]
    BY <1>1, <1>2 DEF LogPiece
  <2> QED
    BY <2>1, <2>2, <2>3
<1>5. PiecesAgree
  BY <1>4, AgreeReflexive DEF PiecesAgree
<1>6. LeaderHasItsTerm /\ RunnersPositive
  BY <1>1 DEF LeaderHasItsTerm, RunnersPositive
<1>7. TermsWon
  <2> SUFFICES ASSUME NEW n, NEW t, Marked(n, t), t # 0 PROVE FALSE
    BY DEF TermsWon
  <2>1. n \in DOMAIN p /\ p[n].term = t
    BY <1>4 DEF Marked
  <2> QED
    BY <2>1 DEF NoEntry
<1> QED
  BY <1>3, <1>5, <1>6, <1>7 DEF LogInv

LEMMA MatchingLogs ==
  ASSUME TypeOK, LogInv
  PROVE  LogMatching
<1> SUFFICES ASSUME NEW i \in Server, NEW j \in Server,
                    NEW n \in snapshotIndex[i] + 1 .. LastIndex(i),
                    HasEntry(j, n, EntryAt(i, n)),
                    NEW k \in Larger(snapshotIndex[i], snapshotIndex[j]) + 1 .. n
             PROVE  EntryAt(i, k) = EntryAt(j, k)
  BY DEF LogMatching
<1> DEFINE p == LogPiece(i)
           q == LogPiece(j)
<1>1. snapshotIndex[i] = 0 /\ snapshotIndex[j] = 0
  BY DEF LogInv, NoSnapshots
<1>2. Len(log[i]) \in Nat \ {0} /\ Len(log[j]) \in Nat \ {0}
  BY LogFacts
<1>3. LastIndex(i) = Len(log[i]) - 1 /\ LastIndex(j) = Len(log[j]) - 1
  BY <1>1, <1>2 DEF LastIndex
<1>4. Larger(snapshotIndex[i], snapshotIndex[j]) = 0
  BY <1>1 DEF Larger
<1>5. /\ n \in 1 .. Len(log[i]) - 1 /\ n \in 1 .. Len(log[j]) - 1
      /\ k \in 1 .. n
  <2>1. n \in snapshotIndex[j] + 1 .. LastIndex(j)
    BY DEF HasEntry
  <2> QED
    BY <1>1, <1>3, <1>4, <2>1
<1>6. ASSUME NEW x \in Nat
      PROVE  EntryAt(i, x) = log[i][x + 1] /\ EntryAt(j, x) = log[j][x + 1]
  <2>1. x - 0 + 1 = x + 1
    OBVIOUS
  <2> QED
    BY <1>1, <2>1 DEF EntryAt
<1>7. /\ DOMAIN p = 0 .. Len(log[i]) - 1 /\ DOMAIN q = 0 .. Len(log[j]) - 1
      /\ \A x \in 0 .. Len(log[i]) - 1 : p[x] = log[i][x + 1]
      /\ \A x \in 0 .. Len(log[j]) - 1 : q[x] = log[j][x + 1]
  BY LogPieceIs
<1>8. Agree(p, q)
  BY DEF LogInv, PiecesAgree, Around, IsInLog
<1> HIDE DEF p, q
<1>9. /\ n \in Common(p, q) /\ k \in Common(p, q) /\ k - 1 \in Common(p, q)
      /\ k <= n
  BY <1>2, <1>5, <1>7 DEF Common
<1>10. ASSUME NEW x \in Common(p, q)
       PROVE  p[x] = EntryAt(i, x) /\ q[x] = EntryAt(j, x)
  <2>1. x \in 0 .. Len(log[i]) - 1 /\ x \in 0 .. Len(log[j]) - 1
    BY <1>7 DEF Common
  <2>2. x \in Nat
    BY <1>2, <2>1
  <2>3. EntryAt(i, x) = log[i][x + 1] /\ EntryAt(j, x) = log[j][x + 1]
    BY <1>6, <2>2
  <2> QED
    BY <1>7, <2>1, <2>3
<1>11. p[n].term = q[n].term
  BY <1>9, <1>10 DEF HasEntry
<1>12. p[k] = q[k]
  BY <1>8, <1>9, <1>11 DEF Agree, SameAt
<1> QED
  BY <1>9, <1>10, <1>12

\* As long as no service takes snapshots, two logs that agree on the entry at
\* an index agree on everything before it: for any number of peers, and
\* whatever crashes, is lost, or comes late or out of order.  (A follower that
\* installs a snapshot keeps the entries after it whatever their terms.)
THEOREM LogsMatch == ASSUME Compacting = {} PROVE Spec => []LogMatching
<1>1. Init => LogInv
  BY LogInit
<1>2. Init => LogOnDisk
  BY DEF Init, LogOnDisk
<1>3. TypeOK /\ TypeOK' /\ LogOnDisk /\ [Next]_vars => LogOnDisk'
  BY LogOnDiskStep
<1>4. TypeOK /\ TypeOK' /\ ElectionInv /\ ElectionInv' /\ LogOnDisk /\ LogOnDisk'
        /\ LogInv /\ [Next]_vars => LogInv'
  BY LogStep DEF Known
<1>5. TypeOK /\ LogInv => LogMatching
  BY MatchingLogs
<1> QED
  BY <1>1, <1>2, <1>3, <1>4, <1>5, TypeCorrect, ElectionCorrect, PTL DEF Spec
=============================================================================
