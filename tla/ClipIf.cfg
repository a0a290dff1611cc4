\* Two slots, three connections (the first may be the parent), one broadcast before the goodbye.
CONSTANTS
  Conns = {c1, c2, c3}
  MaxClips = 2
  None = None
  MaxPush = 1
SPECIFICATION ClipSpec
SYMMETRY Symmetry
CHECK_DEADLOCK FALSE
INVARIANTS
  ClipTypeOK
  SlotAccounting
  OneClock
  GoodbyeSent
  FreedUnused
PROPERTIES
  SendStable
