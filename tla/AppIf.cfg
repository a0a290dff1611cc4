\* Two slots, three applications, and the end of the program.
CONSTANTS
  Conns = {c1, c2, c3}
  MaxApps = 2
  None = None
SPECIFICATION FairAppSpec
CHECK_DEADLOCK FALSE
INVARIANTS
  AppTypeOK
  LockOwner
  SlotAccounting
  NoZombie
  FreedUnused
PROPERTIES
  FinalizeEnds
