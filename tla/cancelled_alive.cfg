SPECIFICATION Spec
CONSTANTS
  StepCount = 2
  MaxAttempts <- MCRetried
  MaxHistory = 3
  MaxCrashes = 0
  MaxFaults = 2
INVARIANTS CancelledMeansStopped
CHECK_DEADLOCK FALSE
