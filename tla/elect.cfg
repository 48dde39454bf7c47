SPECIFICATION Spec
CONSTANTS
  s1 = s1
  s2 = s2
  s3 = s3
  s4 = s4
  s5 = s5
  a = a
  Server = {s1, s2, s3}
  Command = {}
  Nil = Nil
  Goroutine = {g1}
  Elections <- Rivals
  MaxIndex = 0
  Crashable = {s2, s3}
  Compacting = {}
CHECK_DEADLOCK FALSE
INVARIANTS ElectionSafety VoteOnce PromisesDurable ElectionInv

