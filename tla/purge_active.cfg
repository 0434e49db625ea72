SPECIFICATION Spec
CONSTANTS
  r1 = r1
  Stream = "diagnostics"
  Readers <- OneReader
  MaxAttempts = 2
  MaxRecords = 1
  PageLimit = 1
  MaxCrashes = 0
PROPERTIES PurgesOnlyEnded
CHECK_DEADLOCK FALSE
