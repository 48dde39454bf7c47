SPECIFICATION Spec
CONSTANTS
  s1 = s1
  s2 = s2
  s3 = s3
  s4 = s4
  s5 = s5
  a = a
  Server = {s1, s2}
  Command = {a}
  Nil = Nil
  Goroutine = {g1, g2}
  Elections <- AnyLeaderOnce
  MaxIndex = 2
  Crashable = {s2}
  Compacting = {s1, s2}
CHECK_DEADLOCK FALSE
SYMMETRY Symmetry
INVARIANTS TypeOK MatchIndexSound 
PROPERTY CommitMonotone
