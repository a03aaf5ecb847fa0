SPECIFICATION Spec
CONSTANTS
  f1 = f1
  f2 = f2
  Flows <- MCFlows
  Tariffs <- MCTariffs
  MeterStart = 1
  MaxTime = 2
  MaxPower = 2
  MaxOps = 3
SYMMETRY MCSymmetry
INVARIANTS
  TypeOK
  TotalMatchesMeter
  NoEnergyForgotten
  TimeCountedOnce
  FlatFeeOnce
  DocsNotAhead

  
CHECK_DEADLOCK FALSE
