\* A chain of three clipboards, seconds of two steps.
CONSTANTS
  r = r
  a = a
  b = b
  Nodes = {r, a, b}
  Root = r
  Parent <- MCParent
  Modulus = 7
  Grain = 2
  Offset <- MCOffset
  Restless = {r, a}
  Jumps = {5}
  MaxDelay = 1
  MaxAccept = 2
  MaxQueue = 1
  MaxSteps = 1
SPECIFICATION FairTimeSpec
CHECK_DEADLOCK FALSE
INVARIANTS
  TimeTypeOK
  SkewBound
PROPERTIES
  Repaired
