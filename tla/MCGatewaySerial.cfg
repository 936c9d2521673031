SPECIFICATION Spec
CONSTANTS
  Job = {1, 2}
  Key = {k1}
  NoKey = NoKey
  Ttl = 1
  MaxTime = 1
  Call = {c1, c2}
  MaxStarts = 2
  Serial = TRUE
INVARIANTS
  ReadyHasTranscript
  RecoveryIsComplete
  ProgressOnlyOfActiveJob
PROPERTIES
  ReadyIsFinal
  OnlyResetBreaksSequence
  UploadNotCutShort
  ImplementsTranscriptCache
SYMMETRY CallSymmetry
