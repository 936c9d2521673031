SPECIFICATION Spec
CONSTANTS
  Job = {1}
  Key = {k1}
  NoKey = NoKey
  Ttl = 1
  MaxTime = 0
  Call = {c1}
  MaxStarts = 1
  Serial = TRUE
PROPERTIES
  FollowsSequence
