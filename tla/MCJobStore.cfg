SPECIFICATION Spec
CONSTANTS
  Job = {1, 2, 3}
  Key = {k1, k2, k3}
  Ttl = 1
  MaxTime = 1
INVARIANTS
  TypeOK
  ErrorIffFailed
  DeadlineMatchesStatus
  ReadyHasPath
  OneJobPerKey
  PositionsNumberTheQueue
PROPERTIES
  ClaimsOldest
SYMMETRY KeySymmetry
