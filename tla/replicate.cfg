SPECIFICATION Spec
CONSTANTS
  s1 = s1
  s2 = s2
  s3 = s3
  s4 = s4
  s5 = s5
  a = a
  Server = {s1, s2, s3}
  Command = {a}
  Nil = Nil
  Goroutine = {g1}
  Elections <- AnyLeaderOnce
  MaxIndex = 2
  Crashable = {s1, s3}
  Compacting = {s2}
CHECK_DEADLOCK FALSE
SYMMETRY Symmetry
INVARIANTS LogMatching CommittedOnMajority StateMachineSafety NewestLeaderHasApplied
ACTION_CONSTRAINT VotesInTime
