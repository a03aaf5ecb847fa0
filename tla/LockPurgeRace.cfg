CONSTANTS
  Flows = {f1, f2}
  Validity = 2
  Timeout = 0
  MaxCrashes = 1
  AllowOverrun = FALSE
SPECIFICATION Spec
PROPERTY PurgeOnlyExpired
