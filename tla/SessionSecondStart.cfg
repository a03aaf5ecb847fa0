SPECIFICATION Spec
CONSTANTS
  f1 = f1
  f2 = f2
  Flows <- OneFlow
  MaxTx = 2
  MaxTasks = 1
INVARIANT OneOngoing
