-------------------------------- MODULE Service --------------------------------
(***************************************************************************)
(* The components of the Product service: the readiness of the host,       *)
(* drafts and their runs, resumes, hand-offs, the streams of a run, and    *)
(* the pass of the loop with the broker.                                   *)
(*                                                                         *)
(* What connects them is in each of them as far as it matters, so they     *)
(* have no state in common and are put side by side: `component` says      *)
(* whose behaviour it is, and never changes.  HostReadiness is extended,   *)
(* and rests when it is not chosen; the others are instantiated, some of   *)
(* them for several cases, and a variable that is not of the chosen one    *)
(* is 0.  DraftStart and OutputHarvest come with what is proved of them.   *)
(***************************************************************************)
EXTENDS HostReadiness

CONSTANTS
  Cases,   \* of each case: the values of the constants of its module
  TheLoop, \* the reconcile loop
  Nothing, \* no header, checkpoint or receipt
  Absent   \* no task of the broker

VARIABLES
  component,
  drafts, runs, staged, results, environment,      \* of DraftStart alone
  attempts, disk, resumeDir,                       \* of RunResume alone
  registered, deployed, routes, endpoint,          \* of ModelPublication alone
  file, session, attempt, run, table, client,      \* of OutputHarvest alone
  linked, gate, completed, pass, loop, resumes,    \* of ReconcilePass alone
  receipts, lock, call, told, status, faults, crashes

Import == INSTANCE DraftStartProofs WITH
  Clients <- Cases.import.Clients, Workspaces <- Cases.import.Workspaces,
  Keys <- Cases.import.Keys, Commands <- Cases.import.Commands,
  Configurations <- Cases.import.Configurations, Environments <- Cases.import.Environments,
  MaxDrafts <- Cases.import.MaxDrafts, MaxCrashes <- Cases.import.MaxCrashes

Start == INSTANCE DraftStartProofs WITH
  Clients <- Cases.start.Clients, Workspaces <- Cases.start.Workspaces,
  Keys <- Cases.start.Keys, Commands <- Cases.start.Commands,
  Configurations <- Cases.start.Configurations, Environments <- Cases.start.Environments,
  MaxDrafts <- Cases.start.MaxDrafts, MaxCrashes <- Cases.start.MaxCrashes

Outcomes == INSTANCE DraftStartProofs WITH
  Clients <- Cases.results.Clients, Workspaces <- Cases.results.Workspaces,
  Keys <- Cases.results.Keys, Commands <- Cases.results.Commands,
  Configurations <- Cases.results.Configurations, Environments <- Cases.results.Environments,
  MaxDrafts <- Cases.results.MaxDrafts, MaxCrashes <- Cases.results.MaxCrashes

ResumeCases == {"resume", "keys", "names"}

Resume(n) == INSTANCE RunResume WITH
  None <- Nothing,
  Clients <- Cases[n].Clients, Keys <- Cases[n].Keys, Names <- Cases[n].Names,
  MaxAttempts <- Cases[n].MaxAttempts, MaxFaults <- Cases[n].MaxFaults,
  MaxCrashes <- Cases[n].MaxCrashes

Handoffs == INSTANCE ModelPublication WITH
  Loop <- TheLoop, None <- Nothing,
  Clients <- Cases.handoffs.Clients, Results <- Cases.handoffs.Results,
  Keys <- Cases.handoffs.Keys, Aliases <- Cases.handoffs.Aliases,
  MaxVersion <- Cases.handoffs.MaxVersion, MaxFaults <- Cases.handoffs.MaxFaults,
  MaxCrashes <- Cases.handoffs.MaxCrashes

\* The loop alone; a client beside it; and a client while the rows are purged.
Events == INSTANCE OutputHarvestProofs WITH
  Stream <- "events", Readers <- {},
  MaxAttempts <- Cases.events.MaxAttempts, MaxRecords <- Cases.events.MaxRecords,
  PageLimit <- Cases.events.PageLimit, MaxCrashes <- Cases.events.MaxCrashes

Pages == INSTANCE OutputHarvestProofs WITH
  Stream <- "events", Readers <- Cases.pages.Readers,
  MaxAttempts <- Cases.pages.MaxAttempts, MaxRecords <- Cases.pages.MaxRecords,
  PageLimit <- Cases.pages.PageLimit, MaxCrashes <- 0

Diagnostics == INSTANCE OutputHarvestProofs WITH
  Stream <- "diagnostics", Readers <- Cases.diagnostics.Readers,
  MaxAttempts <- Cases.diagnostics.MaxAttempts, MaxRecords <- Cases.diagnostics.MaxRecords,
  PageLimit <- Cases.diagnostics.PageLimit, MaxCrashes <- Cases.diagnostics.MaxCrashes

Pass == INSTANCE ReconcilePass WITH
  N <- Cases.pass.N, Rare <- Cases.pass.Rare, MaxFaults <- Cases.pass.MaxFaults,
  MaxResumes <- Cases.pass.MaxResumes, MaxCrashes <- Cases.pass.MaxCrashes

ASSUME ServiceAssumption ==
  /\ Import!DraftAssumption /\ Start!DraftAssumption /\ Outcomes!DraftAssumption
  /\ \A n \in ResumeCases : Resume(n)!ResumeAssumption
  /\ Handoffs!PublicationAssumption
  /\ Events!HarvestAssumption /\ Pages!HarvestAssumption /\ Diagnostics!HarvestAssumption
  /\ Pass!PassAssumption

-----------------------------------------------------------------------------
(* What a component that is not chosen has.                                *)
NoDrafts == drafts = 0 /\ runs = 0 /\ staged = 0 /\ results = 0 /\ environment = 0
NoAttempts == attempts = 0 /\ disk = 0 /\ resumeDir = 0
NoHandoffs == registered = 0 /\ deployed = 0 /\ routes = 0 /\ endpoint = 0
NoRows == file = 0 /\ session = 0 /\ attempt = 0 /\ run = 0 /\ table = 0 /\ client = 0
NoPass == linked = 0 /\ gate = 0 /\ completed = 0 /\ pass = 0 /\ loop = 0 /\ resumes = 0

OfDrafts == <<drafts, runs, staged, results, environment>>
OfResumes == <<attempts, disk, resumeDir>>
OfHandoffs == <<registered, deployed, routes, endpoint>>
OfRows == <<file, session, attempt, run, table, client>>
OfPass == <<linked, gate, completed, pass, loop, resumes>>
Shared == <<receipts, lock, call, told, status, faults, crashes>>

allvars == <<component, vars, OfDrafts, OfResumes, OfHandoffs, OfRows, OfPass, Shared>>

Is(name) == component = name

Rests == trainer /\ ~inventory.shared

AllInit ==
  /\ Init
  /\ \/ /\ Is("readiness")
        /\ NoDrafts /\ NoAttempts /\ NoHandoffs /\ NoRows /\ NoPass
        /\ receipts = 0 /\ lock = 0 /\ call = 0 /\ told = 0 /\ status = 0 /\ faults = 0 /\ crashes = 0
     \/ /\ Rests
        /\ \/ Is("import") /\ Import!Init
           \/ Is("start") /\ Start!Init
           \/ Is("results") /\ Outcomes!Init
        /\ NoAttempts /\ NoHandoffs /\ NoRows /\ NoPass /\ status = 0 /\ faults = 0
     \/ /\ Rests /\ \E n \in ResumeCases : Is(n) /\ Resume(n)!Init
        /\ NoDrafts /\ NoHandoffs /\ NoRows /\ NoPass /\ told = 0
     \/ /\ Rests /\ Is("handoffs") /\ Handoffs!Init
        /\ NoDrafts /\ NoAttempts /\ NoRows /\ NoPass /\ lock = 0 /\ told = 0 /\ status = 0
     \/ /\ Rests
        /\ \/ Is("events") /\ Events!Init
           \/ Is("pages") /\ Pages!Init
           \/ Is("diagnostics") /\ Diagnostics!Init
        /\ NoDrafts /\ NoAttempts /\ NoHandoffs /\ NoPass
        /\ receipts = 0 /\ lock = 0 /\ told = 0 /\ status = 0 /\ faults = 0
     \/ /\ Rests /\ Is("pass") /\ Pass!Init
        /\ NoDrafts /\ NoAttempts /\ NoHandoffs /\ NoRows
        /\ receipts = 0 /\ lock = 0 /\ call = 0

AllNext ==
  /\ UNCHANGED component
  /\ \/ /\ Is("readiness") /\ Next
        /\ UNCHANGED <<OfDrafts, OfResumes, OfHandoffs, OfRows, OfPass, Shared>>
     \/ /\ \/ Is("import") /\ Import!Next
           \/ Is("start") /\ Start!Next
           \/ Is("results") /\ Outcomes!Next
        /\ UNCHANGED <<vars, OfResumes, OfHandoffs, OfRows, OfPass, status, faults>>
     \/ /\ \E n \in ResumeCases : Is(n) /\ Resume(n)!Next
        /\ UNCHANGED <<vars, OfDrafts, OfHandoffs, OfRows, OfPass, told>>
     \/ /\ Is("handoffs") /\ Handoffs!Next
        /\ UNCHANGED <<vars, OfDrafts, OfResumes, OfRows, OfPass, lock, told, status>>
     \/ /\ \/ Is("events") /\ Events!Next
           \/ Is("pages") /\ Pages!Next
           \/ Is("diagnostics") /\ Diagnostics!Next
        /\ UNCHANGED <<vars, OfDrafts, OfResumes, OfHandoffs, OfPass,
                       receipts, lock, told, status, faults>>
     \/ /\ Is("pass") /\ Pass!Next
        /\ UNCHANGED <<vars, OfDrafts, OfResumes, OfHandoffs, OfRows, receipts, lock, call>>

AllSpec == AllInit /\ [][AllNext]_allvars

-----------------------------------------------------------------------------
(* Drafts, the runs accepted for them and their results (DraftStart).      *)
DraftsAreSound ==
  /\ Is("import") => Import!DraftsAreSound
  /\ Is("start") => Start!DraftsAreSound
  /\ Is("results") => Outcomes!DraftsAreSound

(* A resumed Attempt starts from a checkpoint of the Attempt before it,    *)
(* has the whole of it staged for as long as it runs, and is the only one  *)
(* of its Idempotency-Key as long as receipts can be saved (RunResume).    *)
ResumesAreSound ==
  \A n \in ResumeCases : Is(n) =>
    /\ Resume(n)!TypeOK
    /\ Resume(n)!RunningAttemptsKeepTheirCheckpoint /\ Resume(n)!ResumesFromItsPredecessor
    /\ Cases[n].MaxFaults = 0 /\ Cases[n].MaxCrashes = 0 => Resume(n)!OneAttemptPerKey

(* What leaves the Product was acknowledged or is known to be repeatable:  *)
(* receipts are on acknowledgements, a hand-off is of a registered result, *)
(* and a key stands for one route (ModelPublication).                      *)
HandoffsAreSound ==
  Is("handoffs") =>
    /\ Handoffs!TypeOK /\ Handoffs!ReceiptsAreAcknowledged /\ Handoffs!HandedOverIsRegistered
    /\ Handoffs!AnswersNameTheRoute /\ Handoffs!OneDefaultRoute

(* The loop alone copies each record once and in order; with a client that *)
(* reads beside it the sequences stay dense, and it misses no row          *)
(* (OutputHarvest).                                                        *)
HarvestedRowsAreSound ==
  /\ Is("events") => Events!HarvestedRowsAreSound
  /\ Is("pages") => Pages!HarvestedRowsAreSound
  /\ Is("diagnostics") => Diagnostics!HarvestedRowsAreSound

(* While the Product serves, maintenance never finds a run at work that    *)
(* the broker does not know of (ReconcilePass).                            *)
ActiveRunsAreTracked == Is("pass") => Pass!TypeOK /\ Pass!ActiveRunsAreTracked

(* No step takes back what another has written or what a client relies on: *)
(* the run and the cancellation of a draft; the last events of a stream    *)
(* that is told to be done (DraftStart, OutputHarvest).                    *)
NothingIsTakenBack ==
  [][/\ Is("start") => Start!DraftsAreNotRolledBack
     /\ Is("results") => Outcomes!DraftsAreNotRolledBack
     /\ Is("pages") => Pages!DoneMeansAllRead]_allvars

===============================================================================
