SPECIFICATION MCSpec
CONSTANTS
  m1 = m1
  m2 = m2
  exact = exact
  foreign = foreign
  e1 = e1
  e2 = e2
  c1 = c1
  c2 = c2
  c3 = c3
  r1 = r1
  r2 = r2
  TheLoop = TheLoop
  None = None
  Nobody = Nobody
  Missing = Missing
  Absent = Absent
  Threads <- MCThreads
  Requests <- MCRequests
INVARIANTS TypeOK ActivatedOnce ErasedReceiptsAreCompleted ProjectionAgrees
PROPERTIES KeepsBindingContract RunsAreServed ResultsArrive ExecutionsComplete
CHECK_DEADLOCK FALSE
