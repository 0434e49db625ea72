SPECIFICATION AllSpec
CONSTANTS
  c1 = c1
  c2 = c2
  r1 = r1
  m1 = m1
  TheLoop = TheLoop
  Nothing = Nothing
  Absent = Absent
  Cases <- SmallCases
  Nobody = Nobody
  Threads <- TwoThreads
  Kinds <- AnyKind
  AllowShared = FALSE
  Lifetime = 1
  ProbeTime = 1
  MaxClock = 3
  MaxCalls = 2
  MaxChanges = 1
INVARIANTS
  AcceptedOnAFreshProbe ReportsAreStable DraftsAreSound ResumesAreSound HandoffsAreSound
  HarvestedRowsAreSound ActiveRunsAreTracked
PROPERTIES NothingIsTakenBack
SYMMETRY Symmetry
CHECK_DEADLOCK FALSE
