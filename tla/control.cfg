SPECIFICATION FairSpec
CONSTANTS
  StepCount = 3
  MaxAttempts <- MCRetried
  MaxHistory = 4
  MaxCrashes = 2
  MaxFaults = 2
INVARIANTS TypeOK SuccessIsCleanedUp ConfirmedCleanupIsReal OnlyTheCurrentLeaseIsKept OrphansComeFromLostStarts RecordedExecutionIsReachable
PROPERTIES WritesAreLegal RunConcludes EndedAttemptsReturnLeases
CHECK_DEADLOCK FALSE
