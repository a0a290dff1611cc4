\* Two slaves that copy and paste, one of them also waits; the end of the program.
CONSTANTS
  Threads = {s1, s2, main}
  Main = main
  Waiters = {s1}
  NoThread = NoThread
  Sizes = {5, 7}
  Caps = {6}
  Stamps = {0, 1}
  Buffers = {b1, b2, b3}
  Null = Null
  MaxOps = 2
SPECIFICATION MemSpec
SYMMETRY Symmetry
CHECK_DEADLOCK FALSE
INVARIANTS
  MemTypeOK
  HeapOwnership
  Exclusion
PROPERTIES
  IsRegister
