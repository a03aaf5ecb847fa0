CONSTANTS
  Flows = {f1, f2, f3}
  Validity = 3
  Timeout = 1
  MaxCrashes = 0
  AllowOverrun = FALSE
SPECIFICATION Spec
INVARIANTS MutualExclusion HolderOwnsDocument
PROPERTY ImplementsExclusiveLock
