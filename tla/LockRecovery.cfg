CONSTANTS
  Flows = {f1, f2}
  Validity = 2
  Timeout = 1
  MaxCrashes = 1
  AllowOverrun = TRUE
SPECIFICATION FairSpec
INVARIANT TypeOK
PROPERTIES AcquireReturns OrphanRecovered OnlyRaceOrOverrun
