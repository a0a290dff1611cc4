\* Three processes in one directory: one that runs, one that intrudes, one that starts after it.
CONSTANTS
  Daemons = {d1, d2, d3}
  None = None
  Stale = Stale
  MaxKills = 2
SPECIFICATION FairDaemonSpec
CHECK_DEADLOCK FALSE
INVARIANTS
  DaemonTypeOK
  Served
  NothingLeft
PROPERTIES
  Recovers
