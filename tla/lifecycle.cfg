SPECIFICATION Spec
CONSTANTS
  c1 = c1
  c2 = c2
  StepCount = 2
  Callers <- MCCallers
  MaxAttempts <- MCMaxAttempts
  MaxHistory = 4
  MaxGeneration = 8
INVARIANTS TypeOK OnlyLatestActive TerminalRunIsSettled VerdictMatchesHistory DependenciesHold RetryBudget
PROPERTIES NoLostUpdate KeepsContract
CHECK_DEADLOCK FALSE
