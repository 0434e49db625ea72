SPECIFICATION Spec
CONSTANTS
  StepCount = 2
  MaxAttempts <- MCRetried
  MaxHistory = 3
  MaxCrashes = 1
  MaxFaults = 0
PROPERTIES NoSessionAdopted
CHECK_DEADLOCK FALSE
