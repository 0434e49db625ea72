SPECIFICATION AllSpec
CONSTANTS
  exact = exact
  more = more
  foreign = foreign
  e1 = e1
  e2 = e2
  a = a
  b = b
  c = c
  Missing = Missing
  Nobody = Nobody
  Mode = "package"
  Installations <- ThreeInstallations
  Llama <- LlamaPackages
  Capabilities <- Declared
  Endpoints <- TwoEndpoints
  Configured = Nobody
  Answers <- AnyAnswer
  MaxLines = 3
  ChunkLimit = 2
  MaxChanges = 3
  MaxRestarts = 1
  Fields <- TwoFields
  Frameworks <- Torch
  Required <- EngineSpec
  Hosts <- TwoHosts
  Observations <- FourObservations
  ObservesHost = TRUE
  MaxResumes = 1
  MaxDamages = 1
  Tensors <- TwoTensors
  MaxPayload = 2
  MaxOutages = 1
  MaxStep = 3
  SaveLimit = 2
  MaxSaves = 5
  PipeSize = 1
  Budget = 3
  Rare <- Kill
  Widths <- OneByte
  Lengths <- UpToTwo
  ChunkSize = 5
  ReadHint = 3
  MaxFaults = 2
  MaxKills = 2
INVARIANTS
  TypeOK ConnectedToTheApproved EventsAreInOrder EnvironmentsAreSound ResultsAreWhole
  CheckpointsAreSound DiagnosticsAreKept
CHECK_DEADLOCK FALSE
