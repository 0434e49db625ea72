------------------------------ MODULE MCProgress ------------------------------
(***************************************************************************)
(* What must happen in the end, for TLC: the reconcile pass, the loop's    *)
(* registrations and harvests, the execution of a run, the worker and the  *)
(* poll of its execution, under the fairness of their threads; with them,  *)
(* what calls that overlap may never do to the package binding.            *)
(*                                                                         *)
(* The components that are checked here have no state in common, so one    *)
(* run checks them side by side: `component` says whose behaviour it is,   *)
(* and never changes; the others stay as they begin.  PackageBinding is    *)
(* extended, the others are instantiated.                                  *)
(***************************************************************************)
EXTENDS PackageBinding, Sequences, FiniteSets, TLC

CONSTANTS
  m1, m2,            \* ModelVersions of two results
  exact, foreign,    \* installations
  e1, e2,            \* endpoints
  c1, c2, c3, r1, r2, \* threads and request ids of activations
  Absent,            \* no task of the broker
  TheLoop, None, Nobody, Missing

VARIABLES
  component,
  status, linked, gate, told, completed, pass, loop, resumes,        \* of ReconcilePass
  receipts, registered, deployed, routes, endpoint, publishing,      \* of ModelPublication
  file, session, attempt, run, table, harvesting, client,                \* of OutputHarvest
  host, facts, stored, cache, attempts, executing, launched, resumed, damages, \* of PlannedEnvironment
  trainer, plan, printed, held, pump, pumped, queue, sink, kept, marked, main, \* of WorkerOutput
  binding, installed, connection, thread, reading, worker, changes,  \* of EngineConnection
  restarts, failures, kills

MCThreads == {c1, c2, c3}
MCRequests == {r1, r2}

Components ==
  {"binding", "pass", "registry", "rows", "environment", "worker", "troubled", "connection"}

Errors == {"broker", "reconcile", "harvest", "save"}

Passes == INSTANCE ReconcilePass WITH
  N <- 2, Rare <- Errors, MaxFaults <- 2, MaxResumes <- 1, MaxCrashes <- 1,
  faults <- failures, crashes <- kills

Registry == INSTANCE ModelPublication WITH
  Loop <- TheLoop,
  Clients <- {}, Results <- {m1, m2}, Keys <- {}, Aliases <- {}, MaxVersion <- 1,
  MaxFaults <- 2, MaxCrashes <- 2, call <- publishing, faults <- failures, crashes <- kills

Harvests == INSTANCE OutputHarvest WITH
  Stream <- "events", Readers <- {}, MaxAttempts <- 2, MaxRecords <- 2, PageLimit <- 1,
  MaxCrashes <- 1, call <- harvesting, crashes <- kills

OneField == {"profile"}
Python(minor) == <<3, minor, 0>>

Execution == INSTANCE PlannedEnvironment WITH
  Fields <- OneField, Frameworks <- {}, Required <- Missing,
  Hosts <- {[python |-> Python(n), architecture |-> "amd64", catalogue |-> {}] : n \in {11, 12}},
  Observations <- {[architecture |-> x, precision |-> Missing, driver |-> Missing,
                    accelerator |-> Missing] : x \in {"amd64", Missing}},
  ObservesHost <- TRUE, MaxRestarts <- 1, MaxResumes <- 1, MaxDamages <- 1,
  run <- stored, call <- executing, resumes <- resumed

Worker == INSTANCE WorkerOutput WITH
  MaxLines <- 2, PipeSize <- 1, Limit <- 1, Rare <- {"slow"},
  MaxFaults <- 1, file <- kept, faults <- failures

\* With more that may go wrong, and shorter output.
Troubled == INSTANCE WorkerOutput WITH
  MaxLines <- 1, PipeSize <- 1, Limit <- 0, Rare <- {"full", "child", "kill"},
  MaxFaults <- 1, file <- kept, faults <- failures

Connection == INSTANCE EngineConnection WITH
  Mode <- "direct", Installations <- {exact, foreign}, Llama <- {exact},
  Capabilities <- [i \in {exact, foreign} |-> "exact"], Endpoints <- {e1, e2}, Configured <- e1,
  Answers <- {"event", "nothing", "malformed"}, MaxLines <- 3, ChunkLimit <- 2,
  MaxChanges <- 2, MaxRestarts <- 1, session <- reading

ASSUME Passes!PassAssumption
ASSUME Registry!PublicationAssumption /\ Harvests!HarvestAssumption
ASSUME Execution!EnvironmentAssumption
ASSUME Worker!OutputAssumption /\ Troubled!OutputAssumption
ASSUME Connection!ConnectionAssumption

OfPasses == <<status, linked, gate, told, completed, pass, loop, resumes>>
OfRegistry == <<receipts, registered, deployed, routes, endpoint, publishing>>
OfHarvests == <<file, session, attempt, run, table, harvesting, client>>
OfExecution == <<host, facts, stored, cache, attempts, executing, launched, resumed, damages>>
OfWorker == <<trainer, plan, printed, held, pump, pumped, queue, sink, kept, marked, main>>
OfConnection == <<binding, installed, connection, thread, reading, worker, changes>>

MCVars ==
  <<component, vars, OfPasses, OfRegistry, OfHarvests, OfExecution, OfWorker, OfConnection,
    restarts, failures, kills>>

Is(name) == component = name

OfTheWorker == Is("worker") \/ Is("troubled")

MCInit ==
  /\ component \in Components
  /\ Init /\ Passes!Init /\ Registry!Init /\ Harvests!Init /\ Execution!Init /\ Connection!Init
  /\ IF Is("troubled") THEN Troubled!Init ELSE Worker!Init
  /\ ~Is("binding") => call = [c \in Threads |-> Idle(r1)]
  /\ ~Is("registry") => endpoint.serves = m1
  /\ ~Is("environment") => host.python = Python(11)
  /\ ~OfTheWorker => \A s \in Worker!Streams : plan[s] = 0
  /\ ~Is("connection") => binding = [installation |-> exact, endpoint |-> e1, up |-> TRUE]

\* A step of one component.
InBinding(A) ==
  /\ Is("binding") /\ A
  /\ UNCHANGED <<component, OfPasses, OfRegistry, OfHarvests, OfExecution, OfWorker,
                 OfConnection,
                 restarts, failures, kills>>
InPass(A) ==
  /\ Is("pass") /\ A
  /\ UNCHANGED <<component, vars, OfRegistry, OfHarvests, OfExecution, OfWorker, OfConnection,
                 restarts>>
InRegistry(A) ==
  /\ Is("registry") /\ A
  /\ UNCHANGED <<component, vars, OfPasses, OfHarvests, OfExecution, OfWorker,
                 OfConnection, restarts>>
InHarvests(A) ==
  /\ Is("rows") /\ A
  /\ UNCHANGED <<component, vars, OfPasses, OfRegistry, OfExecution, OfWorker,
                 OfConnection, restarts, failures>>
InExecution(A) ==
  /\ Is("environment") /\ A
  /\ UNCHANGED <<component, vars, OfPasses, OfRegistry, OfHarvests, OfWorker,
                 OfConnection, failures, kills>>
InWorker(A, B) ==
  /\ (Is("worker") /\ A) \/ (Is("troubled") /\ B)
  /\ UNCHANGED <<component, vars, OfPasses, OfRegistry, OfHarvests, OfExecution,
                 OfConnection, restarts, kills>>
InConnection(A) ==
  /\ Is("connection") /\ A
  /\ UNCHANGED <<component, vars, OfPasses, OfRegistry, OfHarvests, OfExecution,
                 OfWorker, failures, kills>>

MCNext ==
  \/ InBinding(Next)
  \/ InPass(Passes!Next)
  \/ InRegistry(Registry!Next)
  \/ InHarvests(Harvests!Next)
  \/ InExecution(Execution!Next)
  \/ InWorker(Worker!Next, Troubled!Next)
  \/ InConnection(Connection!Next)

MCFairness ==
  \* The loop is polled every 0.2 s; a service manager restarts the process.
  /\ WF_MCVars(InPass(Passes!Pass)) /\ WF_MCVars(InPass(Passes!Restart))
  \* It reads every result in turn, and goes on after an error.
  /\ WF_MCVars(InRegistry(Registry!Step(TheLoop)))
  /\ SF_MCVars(InRegistry(Registry!Reads(TheLoop, m1)))
  /\ SF_MCVars(InRegistry(Registry!Reads(TheLoop, m2)))
  /\ WF_MCVars(InHarvests(Harvests!LoopStep))
  \* A call ends, executions end, and the host is observed.
  /\ WF_MCVars(InExecution(Execution!StartNextAttempt))
  /\ WF_MCVars(InExecution(Execution!Raise \/ Execution!Preflight \/ Execution!Execute))
  /\ WF_MCVars(InExecution(\E i \in DOMAIN attempts : Execution!Finish(i) \/ Execution!Quarantine(i)))
  /\ WF_MCVars(InExecution(facts = Missing /\ \E x \in {"amd64", Missing} :
       Execution!Observe([architecture |-> x, precision |-> Missing, driver |-> Missing,
                          accelerator |-> Missing])))
  \* Every thread of the worker runs, and the trainer while it is not blocked.
  /\ WF_MCVars(InWorker(Worker!Trainer, Troubled!Trainer))
  /\ WF_MCVars(InWorker(Worker!Writer, Troubled!Writer))
  /\ WF_MCVars(InWorker(Worker!Main, Troubled!Main))
  /\ \A s \in Worker!Streams : WF_MCVars(InWorker(Worker!Reader(s), Troubled!Reader(s)))
  \* The poll goes on.
  /\ WF_MCVars(InConnection(Connection!Steps))

MCSpec == MCInit /\ [][MCNext]_MCVars /\ MCFairness

-----------------------------------------------------------------------------
(* A run is reconciled although the pass ends at the error of another, the *)
(* broker learns that it is cancelled, and its task goes away when it has  *)
(* ended (ReconcilePass).                                                  *)
RunsAreServed ==
  Is("pass") => /\ Passes!StartedRunsAreServed /\ Passes!EndedRunsAreReleased
                /\ Passes!CancellationsReachTheBroker

(* What a run has brought reaches those who wait for it: every result is   *)
(* registered, every event saved becomes a row (ModelPublication,          *)
(* OutputHarvest).                                                         *)
ResultsArrive ==
  /\ Is("registry") => Registry!EveryResultIsRegistered
  /\ Is("rows") => Harvests!SavedEventsAreListed

(* An accepted run is executed or comes to an end, a worker completes and  *)
(* its exit is observed, unless a poll cannot read its output              *)
(* (PlannedEnvironment, WorkerOutput, EngineConnection).                   *)
ExecutionsComplete ==
  /\ Is("environment") => Execution!AcceptedRunsAreExecuted
  /\ OfTheWorker => Worker!WorkerCompletes
  /\ Is("connection") => Connection!ReadableExitsAreObserved

=============================================================================
