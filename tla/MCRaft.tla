------------------------------- MODULE MCRaft -------------------------------
(* Small instances of Raft for TLC. *)
EXTENDS Raft, TLC

CONSTANTS s1, s2, s3, s4, s5, a

AnyLeaderOnce == {<<s1, 1>>, <<s2, 2>>}
Rivals == {<<s1, 1>>, <<s2, 1>>, <<s2, 2>>}
OnlyFirst == {<<s1, 1>>}
OneMore == {<<s2, 3>>}

Symmetry == Permutations(Goroutine)

PromptElections ==
  /\ (\E i \in Server : ticker[i] = "due") => ticker' # ticker
  /\ (\E c \in voteCalls : c.kind = "reply")
       => \E c \in voteCalls : c.kind = "reply" /\ c \notin voteCalls'

\* A call for a vote comes in while its candidate still runs, or never; a
\* crash of the candidate takes its calls along.
VotesInTime ==
  /\ PromptElections
  /\ \A c \in voteCalls \ voteCalls' :
       state[c.candidate] = "Candidate" \/ voteCount'[c.candidate] = 0

\* The cluster comes back after terms 1 and 2.  s1 led the first and kept
\* entries to itself; s2 led the second, elected by s3, and kept its own.  All
\* have crashed since, s1 before it saved term 2.
Written(terms) == <<NoEntry(0)>> \o [n \in DOMAIN terms |-> [term |-> terms[n], command |-> a]]

Saved(t, vote, terms) ==
  [term |-> t, vote |-> vote, log |-> Written(terms), snapshotIndex |-> 0, snapshotTerm |-> 0]

\* s1 and s2 share an entry of term 1 that s3 lacks, or none.
Disks ==
  {(s1 :> Saved(1, s1, <<1, 1>>) @@ s2 :> Saved(2, s2, l) @@ s3 :> Saved(2, s2, <<>>)) :
     l \in {<<1, 2>>, <<2, 2>>}}

ComesBack ==
  /\ disk \in Disks
  /\ currentTerm = [i \in Server |-> disk[i].term]
  /\ votedFor = [i \in Server |-> disk[i].vote]
  /\ log = [i \in Server |-> disk[i].log]
  /\ state = [i \in Server |-> "Follower"]
  /\ isLeader = [i \in Server |-> FALSE]
  /\ ticker = [i \in Server |-> "idle"]
  /\ nextIndex = [i \in Server |-> [j \in Server |-> 0]]
  /\ matchIndex = nextIndex
  /\ voteCount = [i \in Server |-> 0]
  /\ snapshotIndex = voteCount /\ snapshotTerm = voteCount
  /\ commitIndex = voteCount /\ lastApplied = voteCount /\ delivered = voteCount
  /\ voteCalls = {} /\ applied = {}
  /\ call = [g \in Goroutine |-> Nil]
  /\ ballots = {<<s1, 1, s1>>, <<s3, 1, s1>>, <<s2, 2, s2>>, <<s3, 2, s2>>}

ComesBackFair == ComesBack /\ [][Next]_vars /\ Fairness

\* A directed search: s1 and s3 lead in turn, and the schedule says between
\* whom votes and log calls pass in each term.  Nothing is lost.
Turns == {<<s1, 1>>, <<s3, 2>>, <<s1, 3>>, <<s3, 4>>}
Voters == <<{s3, s4}, {s4, s5}, {s3, s4}, {s2, s5}>>
Followers == <<{s2}, {s1}, {s4}, {s2, s5}>>

\* The answer of s2 to the two entries of term 1, still on its way.
Pending == \E g \in Goroutine :
  /\ call[g] # Nil
  /\ call[g].kind = "appended"
  /\ call[g].to = s2
  /\ call[g].match = 2

\* What has happened before the election of each term.
Ready(t) ==
  /\ t \in {2, 3} => Pending
  /\ t = 3 => LastTerm(s1) = 2
  /\ t = 4 => \E e \in applied : e[1] = 2

Sent(g) == call[g] # Nil /\ call[g].kind = "append"

Directed ==
  /\ PromptElections
  /\ \A i \in Server : ticker'[i] = "due" => Ready(currentTerm[i] + 1)
  /\ \A c \in voteCalls \ voteCalls' : c.to \in Voters[c.term]
  /\ \A g \in Goroutine :
       /\ Sent(g)' => /\ call'[g].to \in Followers[call'[g].term]
                      /\ \A i \in Server : currentTerm[i] <= call'[g].term
       /\ Sent(g) => call'[g] # Nil
=============================================================================
