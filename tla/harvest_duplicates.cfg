SPECIFICATION Spec
CONSTANTS
  r1 = r1
  Stream = "events"
  Readers <- OneReader
  MaxAttempts = 1
  MaxRecords = 2
  PageLimit = 1
  MaxCrashes = 0
INVARIANTS RowsArePrefix

CHECK_DEADLOCK FALSE
