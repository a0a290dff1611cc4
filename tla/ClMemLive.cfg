\* Two slaves with one call each, one of them may wait, under a fair scheduler.
CONSTANTS
  Threads = {s1, s2, main}
  Main = main
  Waiters = {s1}
  NoThread = NoThread
  Sizes = {5}
  Caps = {5}
  Stamps = {0, 1}
  Buffers = {b1, b2, b3}
  Null = Null
  MaxOps = 1
SPECIFICATION FairMemSpec
CHECK_DEADLOCK FALSE
PROPERTIES
  CallsReturn
  ShutdownEnds
