SPECIFICATION Spec
CONSTANTS
  Job = {1, 2}
  Key = {k1}
  NoKey = NoKey
  Ttl = 1
  MaxTime = 1
  Call = {c1, c2}
  MaxStarts = 1
  Serial = FALSE
INVARIANTS
  TypeOK
  LookupFindsItsJob
  ReadyHasFile
PROPERTIES
  ReadyIsNotRetried
  DeadlineIsKept
  ImplementsJobStore
SYMMETRY CallSymmetry
