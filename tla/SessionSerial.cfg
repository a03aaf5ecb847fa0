SPECIFICATION FairSpec
CONSTANTS
  f1 = f1
  f2 = f2
  Flows <- OneFlow
  MaxTx = 2
  MaxTasks = 2
INVARIANTS
  TypeOK
  ConnectorShowsLive
  BilledOnce
  BilledComplete
PROPERTIES
  StopIsFinal
  ImplementsLifecycle
  OrphanClosed
