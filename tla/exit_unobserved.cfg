SPECIFICATION FairSpec
CONSTANTS
  i1 = i1
  e1 = e1
  Nobody = Nobody
  Mode = "direct"
  Installations <- OneInstallation
  Llama <- OneInstallation
  Capabilities <- Exact
  Endpoints <- OneEndpoint
  Configured = e1
  Answers <- Event
  MaxLines = 3
  ChunkLimit = 2
  MaxChanges = 0
  MaxRestarts = 1
PROPERTIES ExitsAreObserved
CHECK_DEADLOCK FALSE
