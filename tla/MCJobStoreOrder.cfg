SPECIFICATION Spec
CONSTANTS
  Job = {1, 2}
  Key = {k1, k2}
  Ttl = 1
  MaxTime = 1
PROPERTIES
  FirstInQueueIsClaimed
SYMMETRY KeySymmetry
