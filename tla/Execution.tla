------------------------------- MODULE Execution -------------------------------
(***************************************************************************)
(* The components that carry out a training: the adapter of the engine,    *)
(* the environment, the worker's output, how the executor reads it, the    *)
(* checkpoints and the result.                                             *)
(*                                                                         *)
(* They have no state in common, so they are put side by side: `component` *)
(* says whose behaviour it is, and never changes.  EngineConnection is     *)
(* extended, and rests when it is not chosen; the others are instantiated, *)
(* and a variable that is not of the chosen one is 0.                      *)
(***************************************************************************)
EXTENDS EngineConnection

CONSTANTS
  Fields, Frameworks, Missing, Required, Hosts, Observations, ObservesHost,
  MaxResumes, MaxDamages,     \* of PlannedEnvironment
  Tensors, MaxPayload, MaxOutages, \* of AdapterResult
  MaxStep, SaveLimit, MaxSaves, \* of CheckpointDirectory
  PipeSize, Budget, Rare,     \* of WorkerOutput
  Widths, Lengths, ChunkSize, ReadHint, \* of DiagnosticsOffset
  MaxFaults,                  \* bound: what fails, of a worker or of the checkpoints
  MaxKills                    \* bound: kills of a trainer, or of the Product process

VARIABLES
  component,
  host, facts, run, cache, attempts, call, launched, resumes, damages,    \* of PlannedEnvironment
  output, poll, attempt, outages,                                         \* of AdapterResult
  exists, weights, meta, overwritten, saves, kept, save,              \* of CheckpointDirectory
  trainer, plan, printed, held, pump, pumped, queue, sink, file, marked, main, \* of WorkerOutput
  lines, written, diagnostics, logs,                                      \* of DiagnosticsOffset
  tries, kills

Environment == INSTANCE PlannedEnvironment

Result == INSTANCE AdapterResult WITH MaxCrashes <- MaxKills, crashes <- kills

Checkpoints == INSTANCE CheckpointDirectory WITH
  Limit <- SaveLimit, MaxCrashes <- MaxKills, faults <- tries, crashes <- kills

Worker == INSTANCE WorkerOutput WITH Limit <- Budget, faults <- tries

Offset == INSTANCE DiagnosticsOffset WITH output <- logs

ASSUME ExecutionAssumption ==
  /\ Environment!EnvironmentAssumption /\ Result!ResultAssumption
  /\ Checkpoints!CheckpointAssumption
  /\ Worker!OutputAssumption /\ Offset!OffsetAssumption

-----------------------------------------------------------------------------
(* What a component that is not chosen has.                                *)
NoRun ==
  /\ host = 0 /\ facts = 0 /\ run = 0 /\ cache = 0 /\ attempts = 0 /\ call = 0
  /\ launched = 0 /\ resumes = 0 /\ damages = 0
NoResult == output = 0 /\ poll = 0 /\ attempt = 0 /\ outages = 0
NoCheckpoints ==
  /\ exists = 0 /\ weights = 0 /\ meta = 0 /\ overwritten = 0
  /\ saves = 0 /\ kept = 0 /\ save = 0
NoWorker ==
  /\ trainer = 0 /\ plan = 0 /\ printed = 0 /\ held = 0 /\ pump = 0 /\ pumped = 0
  /\ queue = 0 /\ sink = 0 /\ file = 0 /\ marked = 0 /\ main = 0
NoLines == lines = 0 /\ written = 0 /\ diagnostics = 0 /\ logs = 0

OfEnvironment == <<host, facts, run, cache, attempts, call, launched, resumes, damages>>
OfResult == <<output, poll, attempt, outages>>
OfCheckpoints == <<exists, weights, meta, overwritten, saves, kept, save>>
OfWorker == <<trainer, plan, printed, held, pump, pumped, queue, sink, file, marked, main>>
OfOffset == <<lines, written, diagnostics, logs>>
OfConnection == <<binding, installed, connection, thread, session, worker, changes>>

allvars ==
  <<component, vars, OfEnvironment, OfResult, OfCheckpoints, OfWorker, OfOffset, tries, kills>>

Is(name) == component = name

Rests ==
  binding = [installation |-> CHOOSE i \in Installations : TRUE,
             endpoint |-> CHOOSE e \in Endpoints : TRUE, up |-> TRUE]

AllInit ==
  /\ Init
  /\ \/ /\ Is("connection")
        /\ NoRun /\ NoResult /\ NoCheckpoints /\ NoWorker /\ NoLines /\ tries = 0 /\ kills = 0
     \/ /\ Is("environment") /\ Environment!Init /\ Rests
        /\ NoResult /\ NoCheckpoints /\ NoWorker /\ NoLines /\ tries = 0 /\ kills = 0
     \/ /\ Is("result") /\ Result!Init /\ Rests
        /\ NoRun /\ NoCheckpoints /\ NoWorker /\ NoLines /\ tries = 0
     \/ /\ Is("checkpoints") /\ Checkpoints!Init /\ Rests
        /\ NoRun /\ NoResult /\ NoWorker /\ NoLines
     \/ /\ Is("worker") /\ Worker!Init /\ Rests
        /\ NoRun /\ NoResult /\ NoCheckpoints /\ NoLines /\ kills = 0
     \/ /\ Is("offset") /\ Offset!Init /\ Rests
        /\ NoRun /\ NoResult /\ NoCheckpoints /\ NoWorker /\ tries = 0 /\ kills = 0

AllNext ==
  /\ UNCHANGED component
  /\ \/ /\ Is("connection") /\ Next
        /\ UNCHANGED <<OfEnvironment, OfResult, OfCheckpoints, OfWorker, OfOffset, tries, kills>>
     \/ /\ Is("environment") /\ Environment!Next
        /\ UNCHANGED <<OfConnection, OfResult, OfCheckpoints, OfWorker, OfOffset, tries, kills>>
     \/ /\ Is("result") /\ Result!Next
        /\ UNCHANGED <<vars, OfEnvironment, OfCheckpoints, OfWorker, OfOffset, tries>>
     \/ /\ Is("checkpoints") /\ Checkpoints!Next
        /\ UNCHANGED <<vars, OfEnvironment, OfResult, OfWorker, OfOffset>>
     \/ /\ Is("worker") /\ Worker!Next
        /\ UNCHANGED <<vars, OfEnvironment, OfResult, OfCheckpoints, OfOffset, kills>>
     \/ /\ Is("offset") /\ Offset!Next
        /\ UNCHANGED <<vars, OfEnvironment, OfResult, OfCheckpoints, OfWorker, tries, kills>>

AllSpec == AllInit /\ [][AllNext]_allvars

-----------------------------------------------------------------------------
(* Nothing is launched in an environment that is not known to meet what is *)
(* required on the host, nor after what is stored of the run was altered   *)
(* (PlannedEnvironment over EnvironmentResolver).                          *)
EnvironmentsAreSound ==
  Is("environment") =>
    /\ Environment!TypeOK
    /\ Environment!OnlyMeetingEnvironmentsRun /\ Environment!NothingRunsOnAlteredState

(* An Attempt is saved as completed just with an adapter whose weights     *)
(* tile their file (AdapterResult).                                        *)
ResultsAreWhole ==
  Is("result") => Result!TypeOK /\ Result!VerifiedMeansTiled /\ Result!CompletedIsAnAdapter

(* Whatever was killed half way, in whatever order steps are saved, the    *)
(* latest checkpoint can be resumed from and there is always one, unless a *)
(* step was saved over (CheckpointDirectory).                              *)
CheckpointsAreSound ==
  Is("checkpoints") =>
    /\ Checkpoints!TypeOK /\ Checkpoints!LatestIsWhole
    /\ Checkpoints!ProgressIsNotLost /\ Checkpoints!LimitIsKept

(* What a trainer prints is kept in order or its loss is marked, and the   *)
(* executor reads each record of it once (WorkerOutput, DiagnosticsOffset). *)
DiagnosticsAreKept ==
  /\ Is("worker") =>
       /\ Worker!TypeOK /\ Worker!RecordsAreInOrder
       /\ Worker!NoticeIsLast /\ Worker!LossIsMarked
  /\ Is("offset") => Offset!TypeOK /\ Offset!RecordsAreNew

=============================================================================
