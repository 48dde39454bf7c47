SPECIFICATION Spec
CONSTANTS
  s1 = s1
  s2 = s2
  s3 = s3
  s4 = s4
  s5 = s5
  a = a
  Server = {s1, s2, s3, s4, s5}
  Command = {a}
  Nil = Nil
  Goroutine = {g1,g2}
  Elections <- Turns
  MaxIndex = 2
  Crashable = {}
  Compacting = {}
CHECK_DEADLOCK FALSE
SYMMETRY Symmetry
INVARIANTS StateMachineSafety
ACTION_CONSTRAINT Directed
