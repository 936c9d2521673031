SPECIFICATION FairPollSpec
CONSTANTS
  Job = {1, 2}
  Key = {k1, k2}
  Ttl = 1
  MaxTime = 1
INVARIANTS
  PollTypeOK
  WorkIsClaimedLast
PROPERTIES
  LoneWorkIsShown
