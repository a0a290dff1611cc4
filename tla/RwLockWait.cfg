\* Three threads that may also wait for updates.
CONSTANTS
  Threads = {t1, t2, t3}
  NoThread = NoThread
SPECIFICATION WaitSpec
SYMMETRY Symmetry
CHECK_DEADLOCK FALSE
INVARIANTS
  Exclusion
