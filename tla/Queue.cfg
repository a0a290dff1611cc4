\* Two producers, one with two messages, the broadcaster and the end of the program.
CONSTANTS
  p1 = p1
  p2 = p2
  Producers = {p1, p2}
  Consumer = c
  Terminator = t
  Nodes = {n1, n2, n3}
  Messages = {m1, m2}
  Null = Null
  MaxPush <- MCMaxPush
SPECIFICATION FairQueueSpec
CHECK_DEADLOCK FALSE
INVARIANTS
  ListInv
PROPERTIES
  IsFifo
  Drained
