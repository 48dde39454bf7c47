SPECIFICATION ComesBackFair
CONSTANTS
  s1 = s1
  s2 = s2
  s3 = s3
  s4 = s4
  s5 = s5
  a = a
  Server = {s1, s2, s3}
  Command = {a}
  Nil = Nil
  Goroutine = {g1}
  Elections <- OneMore
  MaxIndex = 3
  Crashable = {}
  Compacting = {s2, s3}
CHECK_DEADLOCK FALSE
PROPERTIES LeaderElected EventuallyDelivered
