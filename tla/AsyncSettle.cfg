CONSTANTS
  billTransaction = billTransaction
  emaidsImport = emaidsImport
  Tasks <- MCTasks
  Unknown <- MCUnknown
  Hosts = {h1, h2}
  Parallel = 1
  Cron = TRUE
  MaxCrashes = 2
SPECIFICATION FairSpec
INVARIANTS TypeOK OneRunAtATime RunningHasRunner
PROPERTIES NoLostWakeup EventuallySettled
