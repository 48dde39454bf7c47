-------------------------------- MODULE Raft --------------------------------
(***************************************************************************)
(* The Raft peer of raft.go: elections, log replication with the fast      *)
(* back-up of nextIndex, snapshots, and the delivery of committed commands *)
(* to the service over applyCh.                                            *)
(*                                                                         *)
(* A step is what one goroutine does between taking rf.mu and releasing    *)
(* it, or one exchange on applyCh, which the code does with rf.mu          *)
(* released.  A remote call is a goroutine of its caller: it can stay in   *)
(* flight for any time, be answered late and out of order, or return       *)
(* false.  Every peer may crash and come back through Make.                *)
(*                                                                         *)
(* log[i][1] is the entry the code keeps at physical index 0, the stand-in *)
(* for everything up to snapshotIndex[i]: the entry with absolute index n  *)
(* is log[i][n - snapshotIndex[i] + 1].                                    *)
(***************************************************************************)
EXTENDS Integers, Sequences, FiniteSets

CONSTANTS
  Server,      \* the peers
  Command,     \* the commands the service submits
  Nil,         \* no vote (votedFor = -1), no command, an idle goroutine
  Goroutine,   \* bound: log calls and deliveries in progress at a time
  Elections,   \* bound: the pairs <<i, t>> such that i may run in term t
  MaxIndex,    \* bound: Start adds no entry above this index
  Crashable,   \* bound: the peers that may crash
  Compacting   \* bound: the peers whose service takes snapshots

ASSUME RaftAssumption ==
  /\ IsFiniteSet(Server)
  /\ Nil \notin Server \cup Command
  /\ Elections \subseteq Server \X (Nat \ {0})
  /\ MaxIndex \in Nat
  /\ Crashable \subseteq Server
  /\ Compacting \subseteq Server

VARIABLES
  currentTerm, votedFor, state,
  isLeader,        \* the flag GetState and ticker read, beside state
  voteCount,
  ticker,          \* "due": ticker saw the timeout and will start an election
  log, snapshotIndex, snapshotTerm,
  commitIndex, lastApplied,
  nextIndex, matchIndex,
  disk,            \* what the Persister of each peer holds
  voteCalls,       \* RequestVote calls in flight
  call,            \* per goroutine: its log call or delivery in progress
  delivered,       \* the service: index of the last message it received
  applied,         \* history: <<index, entry>> of every command delivered
  ballots          \* history: <<voter, term, candidate>> of every vote

serverVars == <<currentTerm, votedFor, state, isLeader>>
electionVars == <<voteCount, ticker, voteCalls, ballots>>
logVars == <<log, snapshotIndex, snapshotTerm>>
leaderVars == <<nextIndex, matchIndex>>
applyVars == <<commitIndex, lastApplied>>
serviceVars == <<delivered, applied>>
vars == <<serverVars, electionVars, logVars, leaderVars, applyVars,
          serviceVars, disk, call>>

-----------------------------------------------------------------------------
(* Data *)

Entry == [term : Nat, command : Command \cup {Nil}]

Persisted == [term : Nat, vote : Server \cup {Nil},
              log : Seq(Entry) \ {<<>>},
              snapshotIndex : Nat, snapshotTerm : Nat]

\* A RequestVote call: the request until the peer has handled it, then its
\* reply.  live: the goroutine that waits for the answer has not crashed.
VoteRequest == [kind : {"request"}, candidate : Server, to : Server,
                term : Nat, lastLogIndex : Nat, lastLogTerm : Nat,
                live : BOOLEAN]
VoteReply == [kind : {"reply"}, candidate : Server, to : Server, term : Nat,
              replyTerm : Nat, granted : BOOLEAN]

\* AppendEntries and InstallSnapshot calls; caller = Nil once it crashed.
\* A reply keeps the caller's local variable prevLogIndex + len(entries).
AppendRequest == [kind : {"append"}, caller : Server \cup {Nil}, to : Server,
                  term : Nat, prevLogIndex : Nat, prevLogTerm : Nat,
                  entries : Seq(Entry), leaderCommit : Nat]
AppendReply == [kind : {"appended"}, caller : Server, to : Server,
                match : Nat, term : Nat, success : BOOLEAN,
                conflictIndex : Nat, conflictTerm : Int]
InstallRequest == [kind : {"install"}, caller : Server \cup {Nil},
                   to : Server, term : Nat, lastIndex : Nat, lastTerm : Nat]
InstallReply == [kind : {"installed"}, caller : Server, to : Server,
                 term : Nat]

\* Goroutines of peer "at" that are outside rf.mu on account of applyCh:
\* sending a command or a snapshot, or about to lock again in applyLog.  A
\* handler goes on to its reply, any other goroutine to Nil.
Sending == [kind : {"send"}, at : Server, index : Nat, entry : Entry,
            then : AppendReply \cup {Nil}]
Relocking == [kind : {"relock"}, at : Server, then : AppendReply \cup {Nil}]
Notifying == [kind : {"notify"}, at : Server, index : Nat,
              then : InstallReply \cup {Nil}]

Call == AppendRequest \cup AppendReply \cup InstallRequest \cup InstallReply
          \cup Sending \cup Relocking \cup Notifying

Smaller(a, b) == IF a < b THEN a ELSE b
Larger(a, b) == IF a < b THEN b ELSE a

NotHalved(n) == n > Cardinality(Server)          \* mutant of IsMajority
IsMajority(n) == n > Cardinality(Server) \div 2

LastIndex(i) == snapshotIndex[i] + Len(log[i]) - 1
LastTerm(i) == log[i][Len(log[i])].term
EntryAt(i, n) == log[i][n - snapshotIndex[i] + 1]
TermAt(i, n) == IF n = snapshotIndex[i] THEN snapshotTerm[i]
                                        ELSE EntryAt(i, n).term

NoEntry(t) == [term |-> t, command |-> Nil]

\* The log of i from index n on, as replicateLog copies it.
EntriesFrom(i, n) == SubSeq(log[i], n - snapshotIndex[i] + 1, Len(log[i]))

SkipPersist(i) == UNCHANGED disk                 \* mutant of Persist

\* persist and persistAndSaveSnapshot, at the end of a step that has
\* determined the new state of i.
Persist(i) ==
  disk' = [disk EXCEPT ![i] =
             [term |-> currentTerm'[i], vote |-> votedFor'[i],
              log |-> log'[i], snapshotIndex |-> snapshotIndex'[i],
              snapshotTerm |-> snapshotTerm'[i]]]

\* Peer i finds itself behind term t, in the answer to a call of its own.
StepDown(i, t) ==
  /\ currentTerm' = [currentTerm EXCEPT ![i] = t]
  /\ votedFor' = [votedFor EXCEPT ![i] = Nil]
  /\ state' = [state EXCEPT ![i] = "Follower"]
  /\ isLeader' = [isLeader EXCEPT ![i] = FALSE]
  /\ UNCHANGED logVars
  /\ Persist(i)

Init ==
  /\ currentTerm = [i \in Server |-> 0]
  /\ votedFor = [i \in Server |-> Nil]
  /\ state = [i \in Server |-> "Follower"]
  /\ isLeader = [i \in Server |-> FALSE]
  /\ voteCount = [i \in Server |-> 0]
  /\ ticker = [i \in Server |-> "idle"]
  /\ log = [i \in Server |-> <<NoEntry(0)>>]
  /\ snapshotIndex = [i \in Server |-> 0]
  /\ snapshotTerm = [i \in Server |-> 0]
  /\ commitIndex = [i \in Server |-> 0]
  /\ lastApplied = [i \in Server |-> 0]
  /\ nextIndex = [i \in Server |-> [j \in Server |-> 0]]
  /\ matchIndex = [i \in Server |-> [j \in Server |-> 0]]
  /\ disk = [i \in Server |->
               [term |-> 0, vote |-> Nil, log |-> <<NoEntry(0)>>,
                snapshotIndex |-> 0, snapshotTerm |-> 0]]
  /\ voteCalls = {}
  /\ call = [g \in Goroutine |-> Nil]
  /\ delivered = [i \in Server |-> 0]
  /\ applied = {}
  /\ ballots = {}

-----------------------------------------------------------------------------
(* Elections *)

\* ticker: the sleep is over, and the peer does not consider itself leader.
\* Any election timeout may have passed; rf.mu is released before the
\* election starts.
TickerCheck(i) ==
  /\ ticker[i] = "idle"
  /\ ~isLeader[i]
  /\ <<i, currentTerm[i] + 1>> \in Elections
  /\ ticker' = [ticker EXCEPT ![i] = "due"]
  /\ UNCHANGED <<serverVars, voteCount, voteCalls, ballots, logVars,
                 leaderVars, applyVars, serviceVars, disk, call>>

\* startElection: what ticker saw is not looked at again, and isLeader keeps
\* its value.
StartElection(i) ==
  /\ ticker[i] = "due"
  /\ <<i, currentTerm[i] + 1>> \in Elections
  /\ ticker' = [ticker EXCEPT ![i] = "idle"]
  /\ state' = [state EXCEPT ![i] = "Candidate"]
  /\ currentTerm' = [currentTerm EXCEPT ![i] = @ + 1]
  /\ votedFor' = [votedFor EXCEPT ![i] = i]
  /\ voteCount' = [voteCount EXCEPT ![i] = 1]
  /\ ballots' = ballots \cup {<<i, currentTerm[i] + 1, i>>}
  /\ voteCalls' = voteCalls \cup
       {[kind |-> "request", candidate |-> i, to |-> j,
         term |-> currentTerm[i] + 1, lastLogIndex |-> LastIndex(i),
         lastLogTerm |-> LastTerm(i), live |-> TRUE] :
           j \in Server \ {i}}
  /\ UNCHANGED logVars
  /\ Persist(i)
  /\ UNCHANGED <<isLeader, leaderVars, applyVars, serviceVars, call>>

\* The answer to c goes back to a goroutine that still waits for it.
AnswerVote(c, replyTerm, granted) ==
  voteCalls' = (voteCalls \ {c}) \cup
    (IF c.live
     THEN {[kind |-> "reply", candidate |-> c.candidate, to |-> c.to,
            term |-> c.term, replyTerm |-> replyTerm, granted |-> granted]}
     ELSE {})

ShorterWins(i, c) == c.lastLogTerm >= LastTerm(i)    \* mutant of UpToDate

UpToDate(i, c) ==
  \/ c.lastLogTerm > LastTerm(i)
  \/ c.lastLogTerm = LastTerm(i) /\ c.lastLogIndex >= LastIndex(i)

ZeroVoteIn(i, t) == IF t > currentTerm[i] THEN 0 ELSE votedFor[i]  \* mutant

\* votedFor once peer i has taken notice of term t >= currentTerm[i].
VoteIn(i, t) == IF t > currentTerm[i] THEN Nil ELSE votedFor[i]

RequestVoteStale(c) ==
  /\ c.kind = "request"
  /\ c.term < currentTerm[c.to]
  /\ AnswerVote(c, currentTerm[c.to], FALSE)
  /\ UNCHANGED <<serverVars, voteCount, ticker, ballots, logVars, leaderVars,
                 applyVars, serviceVars, disk, call>>

VoteAgain(c) == UpToDate(c.to, c)                \* mutant of CanGrant

CanGrant(c) ==
  VoteIn(c.to, c.term) \in {Nil, c.candidate} /\ UpToDate(c.to, c)

\* A newer term makes the peer a follower of that term.  RequestVote writes
\* it to disk only along with a vote.
NoticeTerm(i, t) ==
  /\ currentTerm' = [currentTerm EXCEPT ![i] = t]
  /\ state' = [state EXCEPT ![i] =
                 IF t > currentTerm[i] THEN "Follower" ELSE @]
  /\ isLeader' = [isLeader EXCEPT ![i] = @ /\ t <= currentTerm[i]]

RequestVoteGrant(c) ==
  /\ c.kind = "request"
  /\ c.term >= currentTerm[c.to]
  /\ CanGrant(c)
  /\ NoticeTerm(c.to, c.term)
  /\ votedFor' = [votedFor EXCEPT ![c.to] = c.candidate]
  /\ ballots' = ballots \cup {<<c.to, c.term, c.candidate>>}
  /\ AnswerVote(c, c.term, TRUE)
  /\ UNCHANGED logVars
  /\ Persist(c.to)
  /\ UNCHANGED <<voteCount, ticker, leaderVars, applyVars, serviceVars, call>>

RequestVoteDeny(c) ==
  /\ c.kind = "request"
  /\ c.term >= currentTerm[c.to]
  /\ ~CanGrant(c)
  /\ NoticeTerm(c.to, c.term)
  /\ votedFor' = [votedFor EXCEPT ![c.to] = VoteIn(c.to, c.term)]
  /\ AnswerVote(c, c.term, FALSE)
  /\ UNCHANGED <<voteCount, ticker, ballots, logVars, leaderVars, applyVars,
                 serviceVars, disk, call>>

\* The goroutine of startElection has its answer c: nothing to do, ...
VoteIgnored(c) ==
  /\ c.kind = "reply"
  /\ \/ state[c.candidate] # "Candidate"
     \/ c.replyTerm < currentTerm[c.candidate]
     \/ c.replyTerm = currentTerm[c.candidate] /\ ~c.granted
  /\ voteCalls' = voteCalls \ {c}
  /\ UNCHANGED <<serverVars, voteCount, ticker, ballots, logVars, leaderVars,
                 applyVars, serviceVars, disk, call>>

\* ... or a newer term, ...
VoteOutdated(c) ==
  /\ c.kind = "reply"
  /\ state[c.candidate] = "Candidate"
  /\ c.replyTerm > currentTerm[c.candidate]
  /\ StepDown(c.candidate, c.replyTerm)
  /\ voteCalls' = voteCalls \ {c}
  /\ UNCHANGED <<voteCount, ticker, ballots, leaderVars, applyVars,
                 serviceVars, call>>

\* ... or a vote.
VoteCounted(c) ==
  LET i == c.candidate IN
  /\ c.kind = "reply"
  /\ state[i] = "Candidate"
  /\ c.replyTerm = currentTerm[i]
  /\ c.granted
  /\ voteCount' = [voteCount EXCEPT ![i] = @ + 1]
  /\ voteCalls' = voteCalls \ {c}
  /\ IF IsMajority(voteCount[i] + 1)
     THEN /\ state' = [state EXCEPT ![i] = "Leader"]
          /\ isLeader' = [isLeader EXCEPT ![i] = TRUE]
          /\ nextIndex' = [nextIndex EXCEPT ![i] =
                             [j \in Server |-> LastIndex(i) + 1]]
          /\ matchIndex' = [matchIndex EXCEPT ![i] =
                              [j \in Server |-> snapshotIndex[i]]]
     ELSE UNCHANGED <<state, isLeader, leaderVars>>
  /\ UNCHANGED <<currentTerm, votedFor, ticker, ballots, logVars, applyVars,
                 serviceVars, disk, call>>

-----------------------------------------------------------------------------
(* Replication: the caller *)

Start(i, cmd) ==
  /\ state[i] = "Leader"
  /\ LastIndex(i) < MaxIndex
  /\ log' = [log EXCEPT ![i] =
               Append(@, [term |-> currentTerm[i], command |-> cmd])]
  /\ UNCHANGED <<serverVars, snapshotIndex, snapshotTerm>>
  /\ Persist(i)
  /\ UNCHANGED <<electionVars, leaderVars, applyVars, serviceVars, call>>

\* One goroutine of replicateLog, started by Start or by sendHeartbeats,
\* which a leader repeats: the peer is behind the snapshot, ...
SendSnapshot(g, i, j) ==
  /\ call[g] = Nil
  /\ i # j
  /\ state[i] = "Leader"
  /\ nextIndex[i][j] <= snapshotIndex[i]
  /\ call' = [call EXCEPT ![g] =
       [kind |-> "install", caller |-> i, to |-> j, term |-> currentTerm[i],
        lastIndex |-> snapshotIndex[i], lastTerm |-> snapshotTerm[i]]]
  /\ UNCHANGED <<serverVars, electionVars, logVars, leaderVars, applyVars,
                 serviceVars, disk>>

\* ... or not.  (Where it is beyond LastIndex(i) + 1, see Panics.)
SendEntries(g, i, j) ==
  LET prev == nextIndex[i][j] - 1 IN
  /\ call[g] = Nil
  /\ i # j
  /\ state[i] = "Leader"
  /\ prev \in snapshotIndex[i] .. LastIndex(i)
  /\ call' = [call EXCEPT ![g] =
       [kind |-> "append", caller |-> i, to |-> j, term |-> currentTerm[i],
        prevLogIndex |-> prev, prevLogTerm |-> TermAt(i, prev),
        entries |-> EntriesFrom(i, prev + 1),
        leaderCommit |-> commitIndex[i]]]
  /\ UNCHANGED <<serverVars, electionVars, logVars, leaderVars, applyVars,
                 serviceVars, disk>>

-----------------------------------------------------------------------------
(* Delivery over applyCh *)

\* The loop of applyLog up to its next send, run by g at i with rf.mu held,
\* on the state this step has determined; the loop over, g goes on to then.
ApplyLog(g, i, then) ==
  LET next == lastApplied[i] + 1
      offset == next - snapshotIndex'[i]
  IN IF next <= commitIndex'[i] /\ offset \in 1 .. Len(log'[i]) - 1
     THEN /\ lastApplied' = [lastApplied EXCEPT ![i] = next]
          /\ call' = [call EXCEPT ![g] =
               [kind |-> "send", at |-> i, index |-> next,
                entry |-> log'[i][offset + 1], then |-> then]]
     ELSE /\ UNCHANGED lastApplied
          /\ call' = [call EXCEPT ![g] = then]

\* The service receives a command; the sender has yet to lock rf.mu again.
Deliver(g) ==
  LET d == call[g] IN
  /\ d # Nil
  /\ d.kind = "send"
  /\ delivered' = [delivered EXCEPT ![d.at] = d.index]
  /\ applied' = applied \cup {<<d.index, d.entry>>}
  /\ call' = [call EXCEPT ![g] =
                [kind |-> "relock", at |-> d.at, then |-> d.then]]
  /\ UNCHANGED <<serverVars, electionVars, logVars, leaderVars, applyVars,
                 disk>>

Resume(g) ==
  LET d == call[g] IN
  /\ d # Nil
  /\ d.kind = "relock"
  /\ UNCHANGED <<logVars, commitIndex>>
  /\ ApplyLog(g, d.at, d.then)
  /\ UNCHANGED <<serverVars, electionVars, leaderVars, serviceVars, disk>>

\* The service receives a snapshot, and InstallSnapshot returns.
DeliverSnapshot(g) ==
  LET d == call[g] IN
  /\ d # Nil
  /\ d.kind = "notify"
  /\ delivered' = [delivered EXCEPT ![d.at] = d.index]
  /\ call' = [call EXCEPT ![g] = d.then]
  /\ UNCHANGED <<serverVars, electionVars, logVars, leaderVars, applyVars,
                 applied, disk>>

-----------------------------------------------------------------------------
(* Replication: the handlers *)


Match(m) == m.prevLogIndex + Len(m.entries)

Appended(m, replyTerm, success, conflictIndex, conflictTerm) ==
  IF m.caller = Nil THEN Nil
  ELSE [kind |-> "appended", caller |-> m.caller, to |-> m.to,
        match |-> Match(m), term |-> replyTerm,
        success |-> success, conflictIndex |-> conflictIndex,
        conflictTerm |-> conflictTerm]

\* A call from a leader of term t >= currentTerm[i].
AdoptLeader(i, t) ==
  /\ currentTerm' = [currentTerm EXCEPT ![i] = t]
  /\ votedFor' = [votedFor EXCEPT ![i] = VoteIn(i, t)]
  /\ state' = [state EXCEPT ![i] = "Follower"]
  /\ isLeader' = [isLeader EXCEPT ![i] = FALSE]

AppendStale(g) ==
  LET m == call[g] IN
  /\ m # Nil
  /\ m.kind = "append"
  /\ m.term < currentTerm[m.to]
  /\ call' = [call EXCEPT ![g] =
                Appended(m, currentTerm[m.to], FALSE, 0, 0)]
  /\ UNCHANGED <<serverVars, electionVars, logVars, leaderVars, applyVars,
                 serviceVars, disk>>

\* What the follower answers when its log does not hold the previous entry:
\* the conflict index and term.
Conflict(i, m, index, term) ==
  \/ /\ m.prevLogIndex > LastIndex(i)
     /\ index = LastIndex(i) + 1
     /\ term = -1
  \/ /\ m.prevLogIndex < snapshotIndex[i]
     /\ index = snapshotIndex[i] + 1
     /\ term = -1
  \/ /\ m.prevLogIndex \in snapshotIndex[i] .. LastIndex(i)
     /\ TermAt(i, m.prevLogIndex) # m.prevLogTerm
     /\ term = TermAt(i, m.prevLogIndex)
     /\ \E first \in 0 .. m.prevLogIndex - snapshotIndex[i] :
          /\ \A r \in first + 1 .. m.prevLogIndex - snapshotIndex[i] :
               log[i][r].term = term
          /\ first > 0 => log[i][first].term # term
          /\ index = first + snapshotIndex[i]

AppendMismatch(g) ==
  LET m == call[g] IN
  /\ m # Nil
  /\ m.kind = "append"
  /\ m.term >= currentTerm[m.to]
  /\ \E index \in 0 .. LastIndex(m.to) + 1,
        term \in {-1} \cup {log[m.to][r].term : r \in DOMAIN log[m.to]} :
       /\ Conflict(m.to, m, index, term)
       /\ call' = [call EXCEPT ![g] =
                     Appended(m, m.term, FALSE, index, term)]
  /\ AdoptLeader(m.to, m.term)
  /\ UNCHANGED logVars
  /\ IF m.term > currentTerm[m.to] THEN Persist(m.to) ELSE UNCHANGED disk
  /\ UNCHANGED <<electionVars, leaderVars, applyVars, serviceVars>>

HasPrevious(i, m) ==
  /\ m.prevLogIndex \in snapshotIndex[i] .. LastIndex(i)
  /\ TermAt(i, m.prevLogIndex) = m.prevLogTerm

PresentUnchecked(i, m, k) == m.prevLogIndex + k <= LastIndex(i)  \* mutant

\* Entry k of m is in the log of i already.
Present(i, m, k) ==
  /\ m.prevLogIndex + k <= LastIndex(i)
  /\ EntryAt(i, m.prevLogIndex + k).term = m.entries[k].term

TruncateAlways(i, m) ==                          \* mutant of Merge
  log' = [log EXCEPT ![i] =
            SubSeq(@, 1, m.prevLogIndex + 1 - snapshotIndex[i]) \o m.entries]

\* The log of i from the first entry of m that is not there is replaced.
Merge(i, m) ==
  \/ /\ \A k \in DOMAIN m.entries : Present(i, m, k)
     /\ UNCHANGED log
  \/ \E k \in DOMAIN m.entries :
       /\ \A p \in 1 .. k - 1 : Present(i, m, p)
       /\ ~Present(i, m, k)
       /\ log' = [log EXCEPT ![i] =
                    SubSeq(@, 1, m.prevLogIndex + k - snapshotIndex[i])
                      \o SubSeq(m.entries, k, Len(m.entries))]

CommitToPrevious(m) == Smaller(m.leaderCommit, m.prevLogIndex)  \* mutant

\* The commitIndex that a call brings, however much more the peer knows of.
CommitOf(m) == Smaller(m.leaderCommit, m.prevLogIndex + Len(m.entries))

AppendAccept(g) ==
  LET m == call[g]
      reply == Appended(m, m.term, TRUE, 0, 0)
  IN
  /\ m # Nil
  /\ m.kind = "append"
  /\ m.term >= currentTerm[m.to]
  /\ HasPrevious(m.to, m)
  /\ AdoptLeader(m.to, m.term)
  /\ Merge(m.to, m)
  /\ UNCHANGED <<snapshotIndex, snapshotTerm>>
  /\ IF m.term > currentTerm[m.to] \/ log' # log
     THEN Persist(m.to) ELSE UNCHANGED disk
  /\ IF m.leaderCommit > commitIndex[m.to]
     THEN /\ commitIndex' = [commitIndex EXCEPT ![m.to] = CommitOf(m)]
          /\ ApplyLog(g, m.to, reply)
     ELSE /\ UNCHANGED applyVars
          /\ call' = [call EXCEPT ![g] = reply]
  /\ UNCHANGED <<electionVars, leaderVars, serviceVars>>

\* InstallSnapshot answers with the term the peer had before the call.
Installed(m) ==
  IF m.caller = Nil THEN Nil
  ELSE [kind |-> "installed", caller |-> m.caller, to |-> m.to,
        term |-> currentTerm[m.to]]

InstallStale(g) ==
  LET m == call[g] IN
  /\ m # Nil
  /\ m.kind = "install"
  /\ m.term < currentTerm[m.to]
  /\ call' = [call EXCEPT ![g] = Installed(m)]
  /\ UNCHANGED <<serverVars, electionVars, logVars, leaderVars, applyVars,
                 serviceVars, disk>>

InstallKnown(g) ==
  LET m == call[g] IN
  /\ m # Nil
  /\ m.kind = "install"
  /\ m.term >= currentTerm[m.to]
  /\ m.lastIndex <= snapshotIndex[m.to]
  /\ NoticeTerm(m.to, m.term)
  /\ votedFor' = [votedFor EXCEPT ![m.to] = VoteIn(m.to, m.term)]
  /\ UNCHANGED logVars
  /\ IF m.term > currentTerm[m.to] THEN Persist(m.to) ELSE UNCHANGED disk
  /\ call' = [call EXCEPT ![g] = Installed(m)]
  /\ UNCHANGED <<electionVars, leaderVars, applyVars, serviceVars>>

\* The entries after the snapshot stay, whatever their terms; lastApplied
\* becomes the snapshot's index, even from above.
InstallSnapshot(g) ==
  LET m == call[g]
      i == m.to
      offset == m.lastIndex - snapshotIndex[i]
  IN
  /\ m # Nil
  /\ m.kind = "install"
  /\ m.term >= currentTerm[i]
  /\ m.lastIndex > snapshotIndex[i]
  /\ NoticeTerm(i, m.term)
  /\ votedFor' = [votedFor EXCEPT ![i] = VoteIn(i, m.term)]
  /\ log' = [log EXCEPT ![i] =
               <<NoEntry(m.lastTerm)>> \o SubSeq(@, offset + 2, Len(@))]
  /\ snapshotIndex' = [snapshotIndex EXCEPT ![i] = m.lastIndex]
  /\ snapshotTerm' = [snapshotTerm EXCEPT ![i] = m.lastTerm]
  /\ lastApplied' = [lastApplied EXCEPT ![i] = m.lastIndex]
  /\ commitIndex' = [commitIndex EXCEPT ![i] = Larger(@, m.lastIndex)]
  /\ Persist(i)
  /\ call' = [call EXCEPT ![g] =
                [kind |-> "notify", at |-> i, index |-> m.lastIndex,
                 then |-> Installed(m)]]
  /\ UNCHANGED <<electionVars, leaderVars, serviceVars>>

-----------------------------------------------------------------------------
(* Replication: the answers *)

\* Either answer, with a newer term.
ReplyOutdated(g) ==
  LET r == call[g] IN
  /\ r # Nil
  /\ r.kind \in {"appended", "installed"}
  /\ r.term > currentTerm[r.caller]
  /\ StepDown(r.caller, r.term)
  /\ call' = [call EXCEPT ![g] = Nil]
  /\ UNCHANGED <<electionVars, leaderVars, applyVars, serviceVars>>

\* The peers that i takes to hold the entry n, by matchIndex.
Holders(i, n) == {i} \cup {j \in Server \ {i} : matchIndex'[i][j] >= n}

CountSelfTwice(i, n) ==                          \* mutant of Committable
  /\ n > snapshotIndex[i]
  /\ IsMajority(Cardinality(Holders(i, n)) + 1)
  /\ EntryAt(i, n).term = currentTerm[i]

\* What updateCommitIndex accepts as a new commitIndex.
Committable(i, n) ==
  /\ n > snapshotIndex[i]
  /\ IsMajority(Cardinality(Holders(i, n)))
  /\ EntryAt(i, n).term = currentTerm[i]

UpdateCommitIndex(g, i) ==
  LET above == {n \in commitIndex[i] + 1 .. LastIndex(i) : Committable(i, n)}
  IN \/ /\ above = {}
        /\ UNCHANGED applyVars
        /\ call' = [call EXCEPT ![g] = Nil]
     \/ \E n \in above :
          /\ \A k \in above : k <= n
          /\ commitIndex' = [commitIndex EXCEPT ![i] = n]
          /\ ApplyLog(g, i, Nil)

\* Neither the state nor the term of the caller is looked at.
AppendSucceeded(g) ==
  LET r == call[g] IN
  /\ r # Nil
  /\ r.kind = "appended"
  /\ r.term <= currentTerm[r.caller]
  /\ r.success
  /\ matchIndex' = [matchIndex EXCEPT ![r.caller][r.to] = r.match]
  /\ nextIndex' = [nextIndex EXCEPT ![r.caller][r.to] = r.match + 1]
  /\ UNCHANGED logVars
  /\ UpdateCommitIndex(g, r.caller)
  /\ UNCHANGED <<serverVars, electionVars, serviceVars, disk>>

BackupPast(i, r, index) ==                       \* mutant of Backup
  LET same == {k \in DOMAIN log[i] : log[i][k].term = r.conflictTerm}
  IN IF r.conflictTerm = -1 \/ same = {}
     THEN index = r.conflictIndex
     ELSE \E k \in same : /\ \A p \in same : p <= k
                          /\ index = snapshotIndex[i] + k + 1

\* Where to continue after a conflict: behind the caller's last entry of the
\* conflicting term if there is one (the stand-in at 0 counts).
Backup(i, r, index) ==
  LET same == {k \in DOMAIN log[i] : log[i][k].term = r.conflictTerm}
  IN IF r.conflictTerm = -1 \/ same = {}
     THEN index = r.conflictIndex
     ELSE \E k \in same : /\ \A p \in same : p <= k
                          /\ index = snapshotIndex[i] + k

AppendFailed(g) ==
  LET r == call[g] IN
  /\ r # Nil
  /\ r.kind = "appended"
  /\ r.term <= currentTerm[r.caller]
  /\ ~r.success
  /\ \E index \in {r.conflictIndex}
                    \cup 1 .. snapshotIndex[r.caller] + Len(log[r.caller]) :
       /\ Backup(r.caller, r, index)
       /\ nextIndex' = [nextIndex EXCEPT ![r.caller][r.to] = index]
  /\ call' = [call EXCEPT ![g] = Nil]
  /\ UNCHANGED <<serverVars, electionVars, logVars, matchIndex, applyVars,
                 serviceVars, disk>>

\* The caller's present snapshot counts, not the one it sent.
InstallDone(g) ==
  LET r == call[g]
      i == r.caller
  IN
  /\ r # Nil
  /\ r.kind = "installed"
  /\ r.term <= currentTerm[i]
  /\ nextIndex' = [nextIndex EXCEPT ![i][r.to] = snapshotIndex[i] + 1]
  /\ matchIndex' = [matchIndex EXCEPT ![i][r.to] = snapshotIndex[i]]
  /\ call' = [call EXCEPT ![g] = Nil]
  /\ UNCHANGED <<serverVars, electionVars, logVars, applyVars, serviceVars,
                 disk>>

-----------------------------------------------------------------------------
(* Snapshots, crashes, lost calls *)

\* The service snapshots what it has received up to index.
Snapshot(i, index) ==
  /\ i \in Compacting
  /\ index \in snapshotIndex[i] + 1 .. Smaller(delivered[i], LastIndex(i))
  /\ snapshotTerm' = [snapshotTerm EXCEPT ![i] = EntryAt(i, index).term]
  /\ log' = [log EXCEPT ![i] =
               <<NoEntry(EntryAt(i, index).term)>> \o
                 SubSeq(@, index - snapshotIndex[i] + 2, Len(@))]
  /\ snapshotIndex' = [snapshotIndex EXCEPT ![i] = index]
  /\ UNCHANGED serverVars
  /\ Persist(i)
  /\ UNCHANGED <<electionVars, leaderVars, applyVars, serviceVars, call>>

\* What is left of the goroutine in c when i crashes: its requests are under
\* way, with nobody to take the answer; its own goroutines are gone.
Orphan(c, i) ==
  CASE c = Nil -> Nil
    [] c # Nil /\ c.kind \in {"append", "install"} ->
         IF c.caller = i THEN [c EXCEPT !.caller = Nil] ELSE c
    [] c # Nil /\ c.kind \in {"appended", "installed"} ->
         IF c.caller = i THEN Nil ELSE c
    [] c # Nil /\ c.kind \in {"send", "relock", "notify"} ->
         IF c.at = i THEN Nil
         ELSE IF c.then # Nil /\ c.then.caller = i
              THEN [c EXCEPT !.then = Nil] ELSE c

\* Peer i crashes with d on its disk, and Make starts it again.
RestartFrom(i, d) ==
  /\ disk' = [disk EXCEPT ![i] = d]
  /\ currentTerm' = [currentTerm EXCEPT ![i] = d.term]
  /\ votedFor' = [votedFor EXCEPT ![i] = d.vote]
  /\ state' = [state EXCEPT ![i] = "Follower"]
  /\ isLeader' = [isLeader EXCEPT ![i] = FALSE]
  /\ voteCount' = [voteCount EXCEPT ![i] = 0]
  /\ ticker' = [ticker EXCEPT ![i] = "idle"]
  /\ log' = [log EXCEPT ![i] = d.log]
  /\ snapshotIndex' = [snapshotIndex EXCEPT ![i] = d.snapshotIndex]
  /\ snapshotTerm' = [snapshotTerm EXCEPT ![i] = d.snapshotTerm]
  /\ commitIndex' = [commitIndex EXCEPT ![i] = d.snapshotIndex]
  /\ lastApplied' = [lastApplied EXCEPT ![i] = d.snapshotIndex]
  /\ nextIndex' = [nextIndex EXCEPT ![i] = [j \in Server |-> 0]]
  /\ matchIndex' = [matchIndex EXCEPT ![i] = [j \in Server |-> 0]]
  /\ delivered' = [delivered EXCEPT ![i] = d.snapshotIndex]
  /\ voteCalls' =
       {c \in voteCalls : c.candidate # i} \cup
       {[c EXCEPT !.live = FALSE] :
          c \in {r \in voteCalls : r.candidate = i /\ r.kind = "request"}}
  /\ UNCHANGED <<applied, ballots>>

\* replicateLog indexes the log of leader i out of range, for a peer whose
\* nextIndex an answer of an earlier term of i has put beyond the end.
Panics(i) ==
  /\ state[i] = "Leader"
  /\ \E j \in Server \ {i} : nextIndex[i][j] > LastIndex(i) + 1

\* A panic ends the process, like any other crash.
Restart(i) ==
  /\ i \in Crashable \/ Panics(i)
  /\ RestartFrom(i, disk[i])
  /\ call' = [g \in Goroutine |-> Orphan(call[g], i)]

\* A handler writes a newer term to disk before it goes on: the peer crashes
\* in between.
CrashInHandler(g) ==
  LET m == call[g] IN
  /\ m # Nil
  /\ m.kind \in {"append", "install"}
  /\ m.to \in Crashable
  /\ m.term > currentTerm[m.to]
  /\ RestartFrom(m.to, [disk[m.to] EXCEPT !.term = m.term, !.vote = Nil])
  /\ call' = [h \in Goroutine |->
                IF h = g THEN Nil ELSE Orphan(call[h], m.to)]

\* A log call returns false: the request or its answer is lost.  (A vote
\* that is lost is one that stays in voteCalls.)
Lose(g) ==
  /\ call[g] # Nil
  /\ call[g].kind \in {"append", "install", "appended", "installed"}
  /\ call' = [call EXCEPT ![g] = Nil]
  /\ UNCHANGED <<serverVars, electionVars, logVars, leaderVars, applyVars,
                 serviceVars, disk>>

-----------------------------------------------------------------------------

VoteStep(c) ==
  \/ RequestVoteStale(c) \/ RequestVoteGrant(c) \/ RequestVoteDeny(c)
  \/ VoteIgnored(c) \/ VoteOutdated(c) \/ VoteCounted(c)

Send(g, i, j) == SendSnapshot(g, i, j) \/ SendEntries(g, i, j)

Handle(g) ==
  \/ AppendStale(g) \/ AppendMismatch(g) \/ AppendAccept(g)
  \/ InstallStale(g) \/ InstallKnown(g) \/ InstallSnapshot(g)

TakeAnswer(g) ==
  ReplyOutdated(g) \/ AppendSucceeded(g) \/ AppendFailed(g) \/ InstallDone(g)

HandOver(g) == Deliver(g) \/ Resume(g) \/ DeliverSnapshot(g)

PeerStep(i) ==
  \/ TickerCheck(i) \/ StartElection(i) \/ Restart(i)
  \/ \E cmd \in Command : Start(i, cmd)
  \/ \E index \in 1 .. MaxIndex : Snapshot(i, index)

GoroutineStep(g) ==
  \/ \E i, j \in Server : Send(g, i, j)
  \/ Handle(g) \/ TakeAnswer(g) \/ HandOver(g)
  \/ CrashInHandler(g) \/ Lose(g)

Next ==
  \/ \E i \in Server : PeerStep(i)
  \/ \E c \in voteCalls : VoteStep(c)
  \/ \E g \in Goroutine : GoroutineStep(g)

Spec == Init /\ [][Next]_vars

\* The peers that may ever lead.
Candidates == {e[1] : e \in Elections}

\* Every goroutine that can go on does; a vote call is answered in the end; a
\* call that a leader repeats for ever gets through again and again, and so
\* does its answer; the service keeps receiving.  Nothing makes a client call
\* Start, a service compact or a peer crash.
Fairness ==
  /\ \A i \in Server : WF_vars(TickerCheck(i)) /\ WF_vars(StartElection(i))
  /\ WF_vars(\E c \in voteCalls : VoteStep(c))
  /\ \A g \in Goroutine : WF_vars(HandOver(g))
  /\ \A i \in Candidates : \A j \in Server \ {i} :
       /\ SF_vars(\E g \in Goroutine : Send(g, i, j))
       /\ SF_vars(\E g \in Goroutine :
            call[g] # Nil /\ call[g].kind \in {"append", "install"}
              /\ call[g].caller = i /\ call[g].to = j /\ Handle(g))
       /\ SF_vars(\E g \in Goroutine :
            call[g] # Nil /\ call[g].kind \in {"appended", "installed"}
              /\ call[g].caller = i /\ call[g].to = j /\ TakeAnswer(g))

FairSpec == Spec /\ Fairness

-----------------------------------------------------------------------------
(* Properties *)

\* The types.  No log is ever empty: index 0 holds the stand-in.
TypeOK ==
  /\ currentTerm \in [Server -> Nat]
  /\ votedFor \in [Server -> Server \cup {Nil}]
  /\ state \in [Server -> {"Follower", "Candidate", "Leader"}]
  /\ isLeader \in [Server -> BOOLEAN]
  /\ voteCount \in [Server -> Nat]
  /\ ticker \in [Server -> {"idle", "due"}]
  /\ log \in [Server -> Seq(Entry) \ {<<>>}]
  /\ snapshotIndex \in [Server -> Nat]
  /\ snapshotTerm \in [Server -> Nat]
  /\ commitIndex \in [Server -> Nat]
  /\ lastApplied \in [Server -> Nat]
  /\ nextIndex \in [Server -> [Server -> Nat]]
  /\ matchIndex \in [Server -> [Server -> Nat]]
  /\ disk \in [Server -> Persisted]
  /\ voteCalls \in SUBSET (VoteRequest \cup VoteReply)
  /\ call \in [Goroutine -> Call \cup {Nil}]
  /\ delivered \in [Server -> Nat]
  /\ applied \in SUBSET (Nat \X Entry)
  /\ ballots \in SUBSET (Server \X Nat \X Server)

\* Two peers that act as leaders never do so in the same term, whatever
\* crashes and however late the votes come in (startElection, RequestVote).
ElectionSafety ==
  \A i, j \in Server :
    state[i] = "Leader" /\ state[j] = "Leader"
      /\ currentTerm[i] = currentTerm[j] => i = j

\* A peer votes for one candidate in a term, over all its lives: a term that
\* RequestVote notices is not saved before the vote, so a restart goes back
\* to an older term.
VoteOnce ==
  \A b, c \in ballots : b[1] = c[1] /\ b[2] = c[2] => b = c

\* A vote that is on its way to a candidate is on the voter's disk, and the
\* log a peer works with is the one it would restart from.
PromisesDurable ==
  /\ \A c \in voteCalls :
       c.kind = "reply" /\ c.granted =>
         \/ disk[c.to].term > c.term
         \/ disk[c.to].term = c.term /\ disk[c.to].vote = c.candidate
  /\ \A i \in Server : disk[i].log = log[i]
                         /\ disk[i].snapshotIndex = snapshotIndex[i]

-----------------------------------------------------------------------------
(* Why elections are safe: the inductive invariant *)

\* The disk is behind the memory by at most a term without a vote.
DiskBehind ==
  \A i \in Server :
    /\ disk[i].term <= currentTerm[i]
    /\ votedFor[i] = IF disk[i].term = currentTerm[i] THEN disk[i].vote ELSE Nil

\* The disk remembers the latest vote.
BallotsOnDisk ==
  \A b \in ballots :
    /\ b[2] <= disk[b[1]].term
    /\ b[2] = disk[b[1]].term => disk[b[1]].vote = b[3]

\* Two calls for a vote differ in candidate, voter or term; none is from a
\* term its candidate could enter again; a granted vote has been cast.
CallsDistinct ==
  \A c, d \in voteCalls :
    c.candidate = d.candidate /\ c.to = d.to /\ c.term = d.term => c = d

CallsHonest ==
  \A c \in voteCalls :
    /\ c.to # c.candidate
    /\ c.term <= disk[c.candidate].term
    /\ c.kind = "reply" /\ c.granted =>
         c.replyTerm = c.term /\ <<c.to, c.term, c.candidate>> \in ballots

\* The voters that candidate i may have counted in term t: they have voted
\* for it, and no call from i to them is left.
Counted(i, t) ==
  {j \in Server :
     /\ <<j, t, i>> \in ballots
     /\ \A c \in voteCalls : ~(c.candidate = i /\ c.to = j /\ c.term = t)}

VotesCovered ==
  \A i \in Server : state[i] # "Follower" =>
    /\ votedFor[i] = i
    /\ <<i, currentTerm[i], i>> \in ballots
    /\ voteCount[i] <= Cardinality(Counted(i, currentTerm[i]))
    /\ state[i] = "Leader" => IsMajority(voteCount[i])

\* All of it: each part needs others to be preserved.
ElectionInv ==
  /\ DiskBehind
  /\ BallotsOnDisk
  /\ VoteOnce
  /\ CallsDistinct
  /\ CallsHonest
  /\ VotesCovered

-----------------------------------------------------------------------------
(* Replication *)

\* Peer i holds the entry e at index n.
HasEntry(i, n, e) ==
  n \in snapshotIndex[i] + 1 .. LastIndex(i) /\ EntryAt(i, n) = e

\* Two logs that agree on the term at an index agree on everything before
\* it, as far as both still hold it (the merge in AppendEntries).
LogMatching ==
  \A i, j \in Server :
    \A n \in snapshotIndex[i] + 1 .. LastIndex(i) :
      HasEntry(j, n, EntryAt(i, n)) =>
        \A k \in Larger(snapshotIndex[i], snapshotIndex[j]) + 1 .. n :
          EntryAt(i, k) = EntryAt(j, k)

\* Whatever commitIndex covers is on the disks of a majority, so that no
\* crash loses it (updateCommitIndex, AppendEntries, restarts).
CommittedOnMajority ==
  \A i \in Server :
    \A n \in snapshotIndex[i] + 1 .. Smaller(commitIndex[i], LastIndex(i)) :
      IsMajority(Cardinality(
        {j \in Server : n <= snapshotIndex[j] \/ HasEntry(j, n, EntryAt(i, n))}))

\* No two services ever receive different commands for an index.
StateMachineSafety ==
  \A a, b \in applied : a[1] = b[1] => a = b

\* A leader with the highest term has every command any service received.
NewestLeaderHasApplied ==
  \A i \in Server :
    state[i] = "Leader" /\ (\A j \in Server : currentTerm[j] <= currentTerm[i])
      => \A a \in applied : a[1] <= snapshotIndex[i] \/ HasEntry(i, a[1], a[2])

\* What a leader counts on in updateCommitIndex is true of a follower that has
\* not moved on to a newer term, however late and out of order the answers to
\* AppendEntries calls of its term come in: up to an entry of that term that
\* matchIndex covers, the follower has the leader's log.  (The answer to a call
\* of an earlier term of the leader may break it.)  Entries of older
\* terms above it the follower may have lost again, in a crash that takes it
\* back to a term it has saved.
MatchIndexSound ==
  \A i, j \in Server :
    state[i] = "Leader" /\ currentTerm[j] <= currentTerm[i] =>
      \A m \in snapshotIndex[i] + 1 .. Smaller(matchIndex[i][j], LastIndex(i)) :
        EntryAt(i, m).term = currentTerm[i] =>
          \A n \in snapshotIndex[i] + 1 .. m :
            n <= snapshotIndex[j] \/ HasEntry(j, n, EntryAt(i, n))

\* replicateLog finds the entry in front of nextIndex in the log of the leader.
\* The code does not keep it: an answer that comes in when the peer leads again,
\* with a shorter log, sets nextIndex beyond the end, and the index of log is
\* out of range (Panics).
NextIndexInRange ==
  \A i, j \in Server :
    state[i] = "Leader" => nextIndex[i][j] <= LastIndex(i) + 1


\* Peer i crashes in this step.
Crashes(i) ==
  \/ Restart(i)
  \/ \E g \in Goroutine : CrashInHandler(g) /\ call[g].to = i

\* commitIndex goes back only in a crash, which takes delivered back too: the
\* min in AppendEntries never lowers it, late and repeated calls included, since
\* every call carries the log up to its end.
CommitMonotone ==
  [][\A i \in Server : commitIndex'[i] < commitIndex[i] => Crashes(i)]_vars

\* The service receives the commands in the order of their indexes
\* (applyLog: "one by one, to keep the order").
DeliveredInOrder ==
  [][\A i \in Server : delivered'[i] >= delivered[i]]_vars

\* A snapshot never reaches further than what applyLog has passed on: else
\* applyLog finds no entry at lastApplied + 1 and stops for good.
SnapshotApplied == \A i \in Server : snapshotIndex[i] <= lastApplied[i]

\* The flag GetState reports agrees with the state Start and the handlers use.
GetStateAgrees == \A i \in Server : isLeader[i] <=> state[i] = "Leader"

\* A peer that runs for leader becomes one, when nobody else runs and every
\* vote call is answered.
LeaderElected == <>(\E i \in Server : state[i] = "Leader")

\* A leader that stays, and has an entry of its own term, brings every service
\* to the end of its log, whatever the logs were when it won: calls may be lost
\* and come late, it backs up behind conflicts, and it sends its snapshot to
\* peers that are behind.  The exception are peers whose lastApplied a late
\* snapshot has set back behind what was delivered: these may stop applying
\* for good (SnapshotApplied).
EventuallyDelivered ==
  \A i \in Candidates, j \in Server :
    [](\A k \in Server : delivered[k] <= lastApplied[k])
      /\ <>[](state[i] = "Leader" /\ LastTerm(i) = currentTerm[i])
    => []<>(delivered[j] >= LastIndex(i))
=============================================================================
