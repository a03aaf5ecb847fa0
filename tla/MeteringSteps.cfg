SPECIFICATION Spec
CONSTANTS
  f1 = f1
  f2 = f2
  Flows = {f1}
  Tariffs <- MCStepAndStepless
  MeterStart = 1
  MaxTime = 3
  MaxPower = 2
  MaxOps = 3
INVARIANTS
  EnergyPricedOnce
CHECK_DEADLOCK FALSE
