\* One slot, two connections (the first may be the parent), under a fair scheduler.
CONSTANTS
  Conns = {c1, c2}
  MaxClips = 1
  None = None
  MaxPush = 1
SPECIFICATION FairClipSpec
CHECK_DEADLOCK FALSE
PROPERTIES
  FinalizeEnds
