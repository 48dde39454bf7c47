SPECIFICATION Programs
CONSTANTS
  Item = {x, y}
  Capacity = 4
  Wrap = 8
  Pointer = {p, q, r}
  Object = {o1, o2}
  None = null
  Thread = {t1, t2, t3}
  MaxWrites = 4
  Key = {0, 1, 2, 3}
  Value = {1, 2}
  Absent = 0
  Hash <- OwnHash
  Buckets = 2
  NodeKey = {0, 1}
  BucketNum = 1
  Room <- OddRoom
  NodeSize <- NodeRoom
  Limit = 8
  SizeT = 16
  MaxNodes = 2
  Ttl = {0, 1, 2}
  MaxItems = 3
  MaxFreq = 3
  Smallest = 2
  Requested = 3
  Calls <- SmallCalls
INVARIANTS NoRace SizeInRange AccountExact MinFreqIsLeast LivesWhileOwned NoLostUpdate
INVARIANTS Sorts FindsSubsequences Searches Digits Calculates
PROPERTIES Refinement ChainedIsDictionary LimitedIsDictionary ProbingIsDictionary
PROPERTIES LruIsCache LfuIsCache
