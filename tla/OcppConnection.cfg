SPECIFICATION FairSpec
CONSTANTS
  c1 = c1
  c2 = c2
  m1 = m1
  none = none
  Conns <- MCConns
  Messages <- MCMessages
  NoConn = none
  MaxTrials = 2
  MaxFailedPings = 3
INVARIANTS
  TypeOK
  NoLeakedLock
  CacheRemovable
PROPERTIES
  OnlyClosedLeave
  Served
  StaleEntryRemoved
  Reachable
