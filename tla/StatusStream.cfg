SPECIFICATION FairStreamSpec
CONSTANTS
  Job = {1}
  Key = {k1}
  NoKey = NoKey
  Ttl = 1
  MaxTime = 0
  Call = {c1}
  MaxStarts = 2
  Serial = TRUE
  Stream = {s1}
  Reported = {100}
INVARIANTS
  StreamTypeOK
  HundredPercentMeansReady
  UploadEventsCarryToken
  ReadyEventIsServed
PROPERTIES
  StreamCatchesUp
  ShutdownCompletes
