SPECIFICATION FairSpec
CONSTANTS
  Job = {1}
  Key = {k1}
  NoKey = NoKey
  Ttl = 1
  MaxTime = 2
  Call = {c1}
  MaxStarts = 2
  Serial = FALSE
PROPERTIES
  AbandonedUploadsExpire
  StaleProgressIsDropped
