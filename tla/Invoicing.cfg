SPECIFICATION Spec
CONSTANTS
  f1 = f1
  f2 = f2
  t1 = t1
  t2 = t2
  null = null
  Flows <- MCFlows
  Tx <- MCTx
  Lines = 2
  NoTx = null
  MaxOps = 4
SYMMETRY MCSymmetry
INVARIANTS
  TypeOK
  InvoicedOnce
  BilledIsInvoiced
  ReplicasNotAhead
PROPERTY
  ImplementsLedger
CHECK_DEADLOCK FALSE
