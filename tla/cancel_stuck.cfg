SPECIFICATION FairSpec
CONSTANTS
  StepCount = 2
  MaxAttempts <- MCRetried
  MaxHistory = 3
  MaxCrashes = 0
  MaxFaults = 1
PROPERTIES CancellationIsSettled
CHECK_DEADLOCK FALSE
