SPECIFICATION Spec
CONSTANTS
  f1 = f1
  f2 = f2
  Flows <- TwoFlows
  MaxTx = 1
  MaxTasks = 1
PROPERTY StopIsFinal
