# Cyrene-Yield: a TLA+ model of training runs, from draft to published model

Yield turns a training draft into a *training run*: a durable plan of steps
(preflight, tiny dry run, real training) that a control plane advances one
action at a time, executing the training steps in workers that run on leases of
the Kernel. The interesting part is not the training. It is that the truth
about one run is spread over a JSON document, receipts on disk, sessions in
memory, tables, and leases and processes that belong to somebody else, and that
calls, crashes, expiries and users come in between any two updates of these.

All paths below are relative to `training/core/src/cy_exec/training/` unless
they start with `docs/`, `contracts/` or `README.md`.

## The system

| part | code | state | operations | interacts with |
|---|---|---|---|---|
| Product lifecycle | `lifecycle/contracts.py`, `reconciler.py`, `store.py` | `runs.json`: plans, runs (`desired`, `observed`, Attempts, step statuses), a generation per run | submit, start_next_attempt, observe_attempt, resume_attempt, request_cancel, apply_terminal_action, compare_and_set | called by the training control plane and by HTTP threads |
| Training control plane | `control_plane.py` | in memory: sessions of Attempts, resume checkpoints | reconcile_once, resume, request_cancel, quarantine | lifecycle, training runtime |
| Training runtime | `runtime.py` | sessions (status, handle, events) in memory | submit, poll, cancel, restore_session | executor |
| Kernel executor | `executors/kernel_training.py` | one receipt per start on disk | start, poll, cancel, recover, the renewal thread | Kernel RPC, the worker's files |
| Worker | `executors/training_worker.py` | heartbeat, completion, log and diagnostics files | run to the end, be terminated | Kernel, executor |
| Product service | `product_service.py` | drafts, results, service lock | start, advance, cancel, resume, events, hand-offs | control plane, store, registry, reactor, exchange |
| Product store | `product_store.py` | SQLite: resources, event and diagnostics streams, receipts, terminal runs, package binding operations | append, recall/save receipt, purge, binding operations | service |
| Product process | `product_api.py` | lock file, reconcile thread | start-up recovery, reconcile every 0.2 s, shutdown | everything |
| Package runtime owner | `package_runtime_owner.py` | binding operations in SQLite | activate, reconcile | package runtime (external) |
| Engine adapter | `engines/llamafactory/adapter.py` | the resolved connection, in memory | compile, parse_event | package runtime, engine plugin (both external) |
| Environment | `environment/resolver.py`, `runtime.py`, `control_plane.py` | specification and lock in the plan, in metadata, in memory | resolve, verify, recover | host facts of the executor |
| Host readiness | `executors/kernel_training.py`, `product_api.py` | a cached probe, a published snapshot | health, start, admission | Kernel, trainer environment |
| Artifact publication | `product_results.py`, `artifacts.py` | artifacts of a session's result | publish outputs, verify and publish the adapter | artifact provider (external) |
| Publication | `product_service.py`, `model_registry.py` | action receipts | register, send to Reactor, send to Exchange | registry, Reactor, Exchange (external) |
| Activity gate | `runtime_activity.py` and its uses in the service | states of tasks | admit, transition, complete | maintenance broker (external) |
| Checkpoint manager | `checkpoint/checkpoint_manager.py` | checkpoint directories | save, validate, find latest, clean up | trainer |
| Everything else | validation, preflight, YAML, workspace projection, CLI, SDK | none, or immutable data | pure | |

What is hard here: calls that interleave around a load/decide/compare-and-set;
a tick that is several durable writes and RPCs long with crash points between
them; RPCs that take effect and whose answer is lost; leases that expire, or
are kept alive by a thread that does not know whether the run still needs them;
resumes that undo a verdict; readers and the loop doing the same three-step
append or publication at once, without a lock; files that are read while they
are written; caches that outlive what they were computed from. `PROJECT.json`
lists the hazards one by one, each at its line.

## The modules

| module | models | kind |
|---|---|---|
| `RunRecord` | the run document, what `ProductReconciler.next_action` reads off it, the documents the operations write, and what must hold of a document | operators only |
| `RunContract` | what a run promises to whoever submitted it; `ProductLifecycle` and `TrainingControl` implement it | abstract specification |
| `ProductLifecycle` | `ProductControlPlane` over the compare-and-set store with concurrent callers | state machine |
| `TrainingControl` | one run driven to its end: control plane, runtime, executor, receipts, Kernel, the process and its crashes | state machine |
| `BindingContract` | what the owner of the package binding promises | abstract specification |
| `PackageBinding` | activations and reconciliations of the package binding over its two tables | state machine |
| `DraftStart` | drafts imported, prepared, started and cancelled, and the results of their runs | state machine |
| `RunResume` | resumes from checkpoints, with receipts and staged directories | state machine |
| `OutputHarvest` | what a worker prints becomes pages that clients read; retention | state machine |
| `ReconcilePass` | one pass of the loop over all drafts, and the broker that is told which runs are active | state machine |
| `ModelPublication` | registrations and hand-offs with their receipts | state machine |
| `EnvironmentResolver` | which candidate environment is compatible, blocked or unknown | operators only |
| `PlannedEnvironment` | the environment that is planned, stored, verified and executed in | state machine over `EnvironmentResolver` |
| `HostReadiness` | the cached probe, its lock, and the snapshot that a start has checked | state machine |
| `EngineConnection` | the adapter's connection to the bound package, and the poll that parses output with it | state machine |
| `AdapterResult` | what becomes of the output of an execution that exited | state machine |
| `CheckpointDirectory` | checkpoint directories as they are written and removed file by file | state machine |
| `WorkerOutput` | the threads of the worker that copy the trainer's output to two files | state machine |
| `DiagnosticsOffset` | the byte offsets by which the executor reads these files | state machine |
| `Service`, `Execution` | the components of the Product service, and those that carry out a training, with what must hold of each | compositions, several components side by side |
| `MCProgress` | overlapping calls of the package binding, and what must happen in the end of several components | composition and instances |
| `MCService`, `MCExecution` | values of the constants of `Service` and `Execution` | instances |
| `MCProductLifecycle`, `MCTrainingControl`, `MCOutputHarvest`, `MCDiagnosticsOffset`, `MCEngineConnection` | values of the constants of one module | instances |
| `RunRecordProofs` | lemmas about the document: each operation keeps each part of `HistoryInv`, and is a move of `RunContract` | proofs |
| `ProductLifecycleProofs`, `TrainingControlProofs`, `PackageBindingProofs`, `DraftStartProofs`, `OutputHarvestProofs` | the theorems about these modules | proofs |
| `ServiceProofs` | the theorems about `Service`: readiness, pass, hand-offs and resumes, and drafts and rows from the two modules before | proofs |
| `ExecutionProofs` | the theorems about `Execution`: engine, checkpoints, worker, offsets, results and environment | proofs |

`ProductLifecycle` and `TrainingControl` both extend `RunRecord` and use the
same operators for the reconciler's decisions and for the documents that are
written. They split the question in two: `ProductLifecycle` leaves open *what*
is observed and asks what happens when any number of callers interleave;
`TrainingControl` has one writer (the service lock makes ticks, cancels and
resumes exclusive) and asks what is observed when executions, RPCs and the
process fail.

### The document (`RunRecord`)

A run is `[desired, observed, attempts, steps]`. The plan compiled by
`TrainingPlanCompiler` is a chain, so a step is its position `1..StepCount` and
depends on the one before; `MaxAttempts` is `RetryPolicy.max_attempts` per step.
An Attempt keeps its step, its status and `cleanup_confirmed`; references,
errors, metadata and timestamps are left out (whether the reference is durable is
kept by `TrainingControl` as `recorded`). `next_action` is modelled by one
predicate per kind of action: `StartsStep` (CREATE_ATTEMPT, RETRY_ATTEMPT),
`Finalizes`, `WaitsOnLatest`, `CancelsLatest`; the order of the code's `if`s
appears as the conjuncts that exclude the earlier cases. `Resumable` is
the condition of `resume_attempt` together with what its only caller requires:
the step is the real training step, and an ended Attempt of it holds a
checkpoint. `LegalUpdate(r, next)` says that `next` is a document one of the
operations writes over `r`.

### Concurrent callers (`ProductLifecycle`)

A control-plane call is `load_run`, a decision, and `compare_and_set`
(`lifecycle/reconciler.py:188-289`). The store's own lock covers only its
methods, so other calls can commit between the load and the write. In the model a
call is one action that loads and decides (`StartNextAttempt`,
`ResumeStoppedRun`, `Observe`, `Cancel`, `ApplyTerminalAction`) and leaves
`expected[c]`, `updated[c]`, and then `Commit`, `Reject` or `Abandon`. `Commit` is
`compare_and_set` with both its checks, the generation and
`_assert_history_immutable`; `Abandon` is a caller that dies, which leaves nothing
behind because `_write` replaces the file atomically.

### One run to its end (`TrainingControl`)

| variable | code |
|---|---|
| `run` | the document in `runs.json` |
| `recorded` | the Attempts whose `execution_references` are in the document |
| `receipt` | the executor's receipt: `operation` (StartWorker answered), `released`, `renewalFailed` |
| `session` | `TrainingRuntime`'s session of the Attempt; lost in a crash |
| `lease`, `worker` | the Kernel's lease and the worker's process |
| `pc` | how far the tick of the Product process has come |
| `up`, `faults`, `crashes` | the process runs; bounds |

The tick starts at `pc = "idle"` with the one action `next_action` asks for:

* `Conclude` — FINALIZE_*;
* `StartNext`, then `Preflight`, or `Submit` → `Acquire` → `StartWorker` (→ `UndoStart`)
  → `ObserveSession`: `start_next_attempt`, `_execute_step`, `TrainingRuntime.submit`,
  `KernelTrainingExecutor._start` with its receipt, and the observation;
* `Poll` → `ObserveSession`, or `Quarantine` → `RecordQuarantine` — WAIT;
* `CancelExecution` → `RecordCancel`, or `CancelOutOfReach` — REQUEST_CANCELLATION.

A step boundary is put where a crash or the Kernel can show: after every durable
write and every RPC. An RPC that fails may have taken effect. `LeaseExpires`,
`RenewalFails`, `WorkerEnds` and `WorkerStalls` happen at any time; the
renewal thread and the start exclude each other by the executor's lock.
`UserCancel` and `UserResume` run between ticks (the service lock). `Crash`
forgets the sessions and the tick; `Restart` is `recover` plus
`restore_session`. A running poll that finds nothing new rewrites the same
document and is left out as a stutter.

The Kernel is external. It is modelled as the executor relies on it: releasing or
expiring a lease takes the worker with it (`cancel` reports `stopped=True` on a
release alone), and a lease nobody renews expires. Time is abstracted: a worker
that is `hung` or `dead` is one whose heartbeat is older than 60 s; a live
renewal thread (25 s) keeps a healthy lease (TTL 120 s) from expiring.

### The package binding (`PackageBinding`)

The trainer package is bound to the Product by an operation of the Package
Runtime that must be asked for once, whatever is lost. `PackageBindingOwner`
keeps a journal of requests (`package_binding_operations`: `journal`) and a
projection (`package_binding_owner_state`: `projection`), and a later request is
refused by the one or by the other. HTTP threads run `activate` and `reconcile`
(`call`) with no lock between their steps:

* `activate`: `Begin` commits the intent; `NotSent` or `Activate`; `Persist` is the
  SDK's callback with the receipt; `CompleteActivation`; `Finish` erases the
  receipt; `Handle` is the `except` clauses, with or without the receipt of
  the pending operation;
* `reconcile`: `Load`, `Readback`, `CompleteReconciliation`,
  `FinishReconciliation`.

Each transaction of `ProductStore` is one step. Where a step commits and then
something raises, the model has the step and a failing next one. An RPC may fail
with or without its effect; `broker` is what took effect, `issued` counts the Activates.
One request names one installation, and what is installed, authorization, and
the validation of statuses are left to nondeterminism. `BindingContract` gives
each request a fate: asked, then receipted and bound, or lost for good.

### Drafts, starts and results (`DraftStart`)

`drafts` and `results` are the resources of `ProductStore`, `receipts` its two tables
of import receipts, `runs` what `TrainingControlPlane.submit` has accepted, `staged` the
inputs directory of each draft. A call is a client's request or the loop's pass,
and `call[c].saw` is the document it has read: `prepare`, `start` and `cancel` hold the
service lock from `Lock` to their end, but start is four durable steps (`Stage`,
`Submit`, `Link` and the reading that answers it), any of which may fail, and the
process may be killed between two of them and come back with another environment.
`Create` is one transaction. Reading a completed run (`GetRun`, `CreateResult`) is done by
requests without the lock beside the loop (`LoopBegins`, `Advance`).

### Resumes (`RunResume`)

`attempts` are the Attempts of the run, each with the checkpoints it published
(`artifacts`) and the one it started `from`; `disk` is the trainer's output directory,
which all of them share, and `resumeDir` the directory into which a resume stages a
checkpoint. A resume is a request under the service lock: the look for a receipt, the
staging, the append of the Attempt, its submission, the receipt; each may fail. What an
Attempt goes through otherwise is `TrainingControl`'s: here it is pending, running or over.

### From the worker's records to a client's pages (`OutputHarvest`)

`file` is what the worker wrote, `session` what the runtime has read of it, `attempt.saved` the
events that the control plane saved with the Attempt, `table` the rows of `training_events` or
`training_diagnostics` (`Stream` says which), `client` what a client holds. A poll is
`ReadOutput`, `ReadExit`, `Observe`; a harvest is `ReadStream`, `CountRows`, `AppendRows` for each
Attempt, by the loop after its tick and by every request without the lock. `Crash` loses
the sessions; those of open executions start over. `Expire` and `Purge` are retention.

### The pass and the broker (`ReconcilePass`)

`status` is what the control plane has of each run, `gate` the tasks of the maintenance
broker, and `told` and `completed` what the service remembers of it
(`_activity_states`, `_terminal_activity_ids`). `Start`, `Cancel` and `Resume` come between
passes (the service lock); the pass goes through the drafts in order, with one step for each call of
the broker, the control plane, the harvest and the receipts, and ends at the first
exception: one that the loop catches leads to the next pass, one that it does not ends
its thread. `Restart` lists the nonterminal runs to the broker.

### What leaves the Product (`ModelPublication`)

`receipts` are the rows of `action_receipts`; `registered`, `deployed`, `routes` and
`endpoint` are what the registry, Reactor and Exchange have. Reading a result is recall,
`register`, save; a hand-off reads its result first. Calls may take effect and be lost, and
any of the callers may be the loop or a request.

### The environment (`EnvironmentResolver`, `PlannedEnvironment`)

`EnvironmentResolver` is the code of the same name as operators: `Support` of a value by what
is observed, `Reasons` that block or leave open a candidate, the versions and constraints, and the
choice among the candidates. `PlannedEnvironment` has the run's plan, its stored specification
and lock (`run`), what is in memory (`cache`) and the Attempts: `Submit` resolves and plans,
`StartNextAttempt` makes an Attempt durable, `Raise`, `Preflight` and `Execute` are what the
execution of a step comes to, in which what was stored is compared with the plan and the environment is resolved
again. `Restart` may change interpreter and catalogue, `Damage` alters or removes the run's
metadata.

### Readiness (`HostReadiness`)

`probe` is the remembered result with the time until which it counts, `holder` its lock,
`inventory` what the Kernel declares, with a serial number. A call of kind "health", "start" or "admit"
is `Check`, `Acquire`, `Probe`, `Remember`, `Snapshot` and what the route or the
executor makes of them. `clock` counts the time that probes and memories last.

### The engine (`EngineConnection`)

`connection` is the adapter's endpoint with the installation it was resolved by; `thread` the
one call that the loop makes at a time: `ReadStatus` and `ReadInstallation` (or `UseConfigured`), `Invoke`, and for a
poll `ReadOutput`, `ParseEvent` for each line that was read, `ReadExit`. `ReadOutput` takes all that is new or,
where that is more than the hint of `readlines`, raises and moves nothing (`ChunkLimit`). The Package Runtime
moves the binding at any time (`Activate`, `Deactivate`, `Uninstall`); an answer is an event, nothing,
or malformed, which raises.

### Results and checkpoints (`AdapterResult`, `CheckpointDirectory`)

`AdapterResult` starts when an execution has exited, with any configuration and any weights in
its output directory. `PublishOutputs` and `PublishAdapter` are the end of `poll`,
`ProviderFails` its `except`, `Observe` the observation that saves the Attempt. `Verified` is
`_verify_weights` as it is written, on sorted ranges; `Tiled` is what it is meant to decide.
`CheckpointDirectory` writes and removes checkpoint directories in the steps that a
crash can separate: directory, weights, metadata; and each file of a removal. Steps are saved in any
order, and again over what is there (`mkdir` has `exist_ok=True`, and no step is compared with another): a training
that is resumed from an earlier checkpoint writes into the directory of the one before. `overwritten` has the
steps that were saved over readable metadata and have not got the new one.

### The worker's output and its reading (`WorkerOutput`, `DiagnosticsOffset`)

`WorkerOutput` is the worker as its threads: the trainer and the children it leaves behind print
into pipes, a reader (`Pump`) for each pipe feeds the queue, the writer (`Open`, `Write`,
`Exceed`, `Discard`) drains it, and the main thread waits, joins each for a while and
completes. `DiagnosticsOffset` has the two files byte by byte and the two offsets, of
which one is counted in characters; `ReadHint` is the hint of `readlines`, past which the log is not read on.

## The runs

| run | question | bounds |
|---|---|---|
| `lifecycle` | do two callers racing through the store keep the document right, and does the whole implement `RunContract`? | 2 callers, plan of 2 steps with budgets 1 and 2, at most 4 Attempts, calls start below generation 8 |
| `control` | do documents, receipts, leases and workers stay in step through lost calls, stalls, expiries, crashes and resumes; does the run end, or stay quarantined, and do leases come back? | plan of 3 steps, 4 Attempts, 2 crashes, 2 faults, fair |
| `service` | what requests, the loop and crashes do to drafts, resumes, hand-offs, streams, the broker and the readiness of the host | see below |
| `execution` | what carries out a training: engine, environment, result, checkpoints, output | see below |
| `progress` | do overlapping activations and reconciliations of the package binding activate once, keep the receipt until the broker is done, and implement `BindingContract`; is every run served, every result registered, every event listed, every execution ended? | see below, fair |
| `cancelled_alive` | violated: a CANCELLED run has no live worker | 2 faults |
| `adoption` | violated: a restart adopts no session | 1 crash |
| `cancel_stuck` | violated: a reachable cancellation is settled | 1 fault, fair |
| `harvest_duplicates` | violated: rows are a prefix of what the worker wrote | 1 client, 2 records |
| `purge_active` | violated: the retention takes the diagnostics only of a run that is over | 2 Attempts, 1 record |
| `offset_wide` | violated: a record is returned once | 2 lines of ten characters of three bytes |
| `exit_unobserved` | violated: an exit is observed | 3 lines where `readlines` takes 2, a restart, fair |

Two callers are enough for the store: a write is rejected or admitted against one
generation, and a third caller's write is to the second what the first's was.
Four Attempts allow a step 1 that succeeds, a failed training, its retry and a resume.
Generation 8 is past the shortest run that is finished, resumed and finished
again. In `control` two crashes and two faults meet in one start: a lost
StartWorker whose release is lost, then a crash before the observation.
In the component `binding` of `progress` two requests let one try to follow the other, and three callers are an
activation, a reconciliation that overtakes it and a third call to find what they leave.
`CHECK_DEADLOCK FALSE` is in every cfg because a run ends, and because the bounds stop
the callers and the faults.

### Components side by side

`service`, `execution` and `progress` each check several components. These have no state
in common (what connects them, the run and its Attempts, is in each of them as far
as it matters), so nothing is gained by interleaving them and nothing is lost by
checking them side by side: the variable `component` names the one whose
behaviour it is, never changes, and every other variable rests. `Service` and `Execution`
each extend one of their modules and instantiate the others; where a module has several instances,
`Cases` is the record of the values that each of them has for the module's constants. A property of a
run is a conjunction over components, each conjunct a named property of
the component's module: `Service!DraftsAreSound` is `DraftsAreSound` of the module `DraftStart` for
each of its three instances. The theorems are about `AllSpec` of the compositions, for any values of
the constants and of `Cases`; an instance of `DraftStartProofs` brings the lemmas of that module with it.
One constant is fixed in `Service` because a property needs it: the client that reads pages is checked without
kills (see `ClosingFrameIsLast` below).

| run | component | instance of | bounds |
|---|---|---|---|
| `service` | readiness | `HostReadiness` | 2 threads with any call, clock to 3, a memory and a probe of 1, 2 calls each, 1 change |
| | import, start, results | `DraftStart` | 3 drafts in two scopes, one key, four commands; 2 clients, one draft, 2 configurations, 2 environments, 1 crash; 2 clients and the loop, two drafts in two scopes |
| | resume, keys, names | `RunResume` | 3 Attempts: 2 clients, a fault, a crash; 2 clients that share a key; 2 checkpoint directories and a fault |
| | handoffs | `ModelPublication` | 2 clients and the loop, a result, a key, 2 versions of the endpoint, a fault, a crash |
| | events, pages, diagnostics | `OutputHarvest` | the loop alone with 2 Attempts, 2 records and a crash; one client beside it; one client and retention with 2 Attempts, 2 records and a crash |
| | pass | `ReconcilePass` | 2 drafts, 2 rare events of any kind, a resume, a crash |
| `execution` | connection | `EngineConnection` | 3 installations (exact, more than, and other than approved), 2 endpoints, 3 moves, 3 lines of which a poll can read 2, a restart |
| | environment | `PlannedEnvironment` | 2 hosts with five candidates, 4 observations, a restart, a resume, a damage |
| | result | `AdapterResult` | every header of 2 tensors over a payload of at most 2 bytes, every configuration, an outage, a crash; `ThreeTensors` evaluates the check for every header of 3 tensors over at most 3 bytes |
| | checkpoints | `CheckpointDirectory` | 5 saves of 3 steps, a limit of 2, 2 failures, 2 crashes |
| | worker | `WorkerOutput` | 2 streams of 3 lines, pipes of 1, a budget of 3 records, 2 faults, a kill |
| | offset | `DiagnosticsOffset` | 3 lines of up to 2 characters of one byte, chunks of 5 characters |
| `progress` | binding | `PackageBinding` | 3 callers, 2 requests; no other bound |
| | pass | `ReconcilePass` | 2 drafts, 2 errors that the loop catches, a resume, a crash |
| | registry, rows | `ModelPublication`, `OutputHarvest` | 2 results, 2 faults, 2 crashes; 2 Attempts, 2 records, a crash |
| | environment | `PlannedEnvironment` | 2 hosts, 2 observations, a restart, a resume, a damage |
| | worker, troubled | `WorkerOutput` | a slow disk, 2 lines each; a full disk, a child that holds a pipe, a kill, 1 line each and no budget |
| | connection | `EngineConnection` | a configured endpoint, 3 lines of which a poll can read 2, 2 moves, a restart |

The bounds are chosen by the case that would go wrong. Two clients, or one and
the loop, make every race here: each is about a look and a later write, and a third party can
do to the second what it did to the first. Two Attempts make a "before" and
three a "between"; two records make a slice that starts in the middle. A budget of three and
two streams of three lines make it overflow with either stream first. Two configurations, environments or
observations are what a stale one can differ in. `SYMMETRY` permutes the two threads
of `service`, which no definition tells apart; the symmetric run checks
invariants and an action property, no liveness.

### Fairness

`TrainingControl!Fairness`: the reconcile loop runs every 0.2 s
(`product_api.py:156-165`), so a tick that can act does; a dead Product is
restarted by whoever operates it; a training that is not stalled ends; the
Kernel lets a lease expire that nobody renews, and the renewal thread notices a lost lease.
Nothing is assumed of users, of stalled workers, or of RPCs.

`MCProgress!MCFairness` has the same loop. It reads every result in turn, and an error in one
does not keep it from coming again: strong fairness for each reading, because others
make it unavailable time and again. The threads of the worker are threads of one process, each of which
runs; the trainer runs while it is not blocked on a pipe, and a child is never obliged to let go of one. The
executor answers when the host has not been observed. Requests, faults, the
Package Runtime and crashes are never fair.

### What the properties say

`lifecycle`: `OnlyLatestActive` (never two Attempts in flight),
`TerminalRunIsSettled`, `VerdictMatchesHistory`, `DependenciesHold`, `RetryBudget`,
`NoLostUpdate` (every write is an operation decided on the document it replaces),
`KeepsContract` (refinement). `HistoryIsImmutable` and `CancelIsNotLost` follow from these and are
proved only.

`control`: `WritesAreLegal` (whatever crashed, every write is one the
lifecycle allows, so what is proved of legal writes applies; `KeepsContract`, the refinement of
`RunContract`, follows from it and is proved only),
`SuccessIsCleanedUp`, `ConfirmedCleanupIsReal`, `OnlyTheCurrentLeaseIsKept`,
`OrphansComeFromLostStarts`, `RecordedExecutionIsReachable`, `RunConcludes`,
`EndedAttemptsReturnLeases`.

`service`:

* `AcceptedOnAFreshProbe`, `ReportsAreStable`: starts and admissions rest on a probe of their own; a host that has not changed is reported as it is;
* `DraftsAreSound`: a repeated import gets the same draft; one run per draft, whatever is lost and repeated; it trains the configuration that the draft shows; whoever reads a result is told the same, in the draft's scope; a run is cancelled only once its draft says so;
* `ResumesAreSound`: a resumed Attempt starts from a checkpoint of the one before it, which stays staged while it runs, and is the only one of its key;
* `HandoffsAreSound`: receipts are on acknowledgements, what is handed over is registered, a key stands for one route;
* `HarvestedRowsAreSound`: the loop copies every record once and in order; with a client beside it sequences stay dense and the client misses no row;
* `ActiveRunsAreTracked`: no active run is hidden from the broker while the Product serves;
* `NothingIsTakenBack` (action property): a draft keeps its run and its cancellation, and the closing frame comes after all that was saved.

`execution`: `ConnectedToTheApproved`, `EventsAreInOrder`, `EnvironmentsAreSound` (what is launched
meets the requirements as far as is known, and is what was submitted and planned),
`ResultsAreWhole` (the check of the weights accepts exactly the tilings; a completed Attempt
has the adapter of a successful execution), `CheckpointsAreSound` (the latest is whole and there always is one, unless a step
at or above it was saved over and has not got its new metadata; the limit holds), `DiagnosticsAreKept` (records in order and each once, the notice last, every loss marked).

`progress`: of the binding, `ActivatedOnce`, `ErasedReceiptsAreCompleted`, `ProjectionAgrees`,
`KeepsBindingContract` (refinement); and `RunsAreServed`, `ResultsArrive`, `ExecutionsComplete` (an exit is observed
unless more output is unread than a poll can read: `exit_unobserved` is that case).

### What the code does differently from its documents

* `cancelled_alive`: a run reads CANCELLED while the worker of a LOST start lives.
* `adoption`: `docs/API.md:99` says sessions of an earlier process are not adopted;
  `create_app` restores every receipt, and `RecordedExecutionIsReachable` depends on it.
* `cancel_stuck`: one failed ReleaseLease leaves the session AWAITING_RETRY, and
  `TrainingRuntime.cancel` returns early for it ever after.
* `harvest_duplicates`: a request and the loop read the same count of rows and both append
  the same records; the next harvest then skips as many.
* `offset_wide`: the diagnostics offset counts characters and is sought in bytes, so records with
  multi-byte characters are returned again.
* `purge_active`: a run that ended keeps its row in `run_terminals` when it is resumed, and the purge
  (`product_store.py:802`), which is about "terminal runs past the retention window", takes the diagnostics of the run at work.
* `exit_unobserved`: once more than 256 Ki characters of output are unread, `readlines` stops within the file, `tell`
  raises `OSError` (`kernel_training.py:577`), the offset stays, and no later poll gets as far as the exit code. A
  restart of the Product starts the log over at 0, so it is enough that the log is that long.

### Met while modelling

Behaviour that the modules have, that no document rules out plainly enough, or that no run
is about; where a property holds only without it, the module or the run says so.

* An execution that exits between the read of its output and the read of its exit code keeps the rest of
  its output unread (`runtime.py:200-236`); rows stay a prefix.
* A kill while a step is saved again leaves its old, readable metadata over torn weights, and
  `find_latest_checkpoint` names it (`checkpoint_manager.py:107-116`); a kill in the
  metadata itself leaves an older one the newest, or what a failed removal has left of it. `CheckpointsAreSound` excepts steps that were saved over (`overwritten`).
* A resume without a key is recognized by its checkpoint, so a later resume from the same checkpoint is
  answered by the receipt of the earlier one (`product_service.py:803`).
* A resume whose execution raises leaves an active Attempt whose task the broker has taken back until the pass comes
  to it: `ActiveRunsAreTracked` excepts it. A cancellation that comes after the end leaves a
  CANCELING task.
* Requests register a result concurrently, without the lock: the registry is asked more than once, which it
  must take as one (`product_service.py:1072`).
* The environment is resolved again at each execution, so it need not be the planned one
  if the host has changed; what is launched still meets the requirements.
* The readiness snapshot is handed over in a field of the runtime that concurrent starts share
  (`product_api.py:662`).
* After a restart with the binding down, the lines of the adopted execution are read and dropped; an endpoint that has
  moved is not noticed until the process is restarted (`adapter.py:161`).
* The model directory is published before the adapter is verified, and stays listed for a failed Attempt.
* A writer that is slower than the ten seconds of `close` loses lines with no mark, as does a marker that
  cannot be written: `LossIsMarked` is checked without "slow", "full" and a child that holds a pipe. Over the budget, lines
  are missing in `runtime.log` too.
* A line with another separator of `splitlines` is dropped, and `read_new_output` returns half
  lines as pieces.

## What is proved

The theorems are for every value of the constants: any plan, retry budgets, callers, requests,
records and durations, and any bounds on Attempts, crashes and faults. They rest on the named
assumptions of the modules (`PlanAssumption`, `ControlAssumption`, `DraftAssumption`, ...), which say of
what kind a constant is, and on what a theorem's own hypothesis names; `ServiceAssumption` and `ExecutionAssumption` are the assumptions of
their components. Some say that a name is not another's: no client is called `"free"` (the lock that nobody has) or
`"loop"`, and `Missing`, `Absent` are no run and no state. The hypotheses are these:

| theorem | hypothesis | why |
|---|---|---|
| `ReportsStayStable` | `Lifetime + ProbeTime > 0` | TLC finds it false for 0 and 0, when what is remembered has expired at once and is remembered at the same instant; the code has 30 s and a timeout of 45 s |
| `ClosingFrameIsLast` | the stream of events, no kill | after a kill the events that are read but not saved are gone, and the saved ones may be unlisted when the stream closes |
| `LoopAppendsOnce` | the stream of events, no readers | with a reader it is false: `harvest_duplicates` |
| `ReadersKeepUp` | the stream of events | the purge takes rows of diagnostics that a client has |
| `OutputIsKept` | `Rare \subseteq {"kill"}` | a slow disk, a full one and a child that holds a pipe lose lines with no mark (see above) |
| | `Widths = {1}` | with a wider character it is false: `offset_wide` |
| one key, one Attempt (in `ResumesAreSound`) | `MaxFaults = 0`, `MaxCrashes = 0` of the case | a request whose receipt was not saved appends another Attempt when it is repeated after the first has failed |

### Documents (`ProductLifecycleProofs`, `RunRecordProofs`)

The inductive invariant of `ProductLifecycle` is

    IInv == TypeOK /\ HistoryInv(run) /\ Fence

`HistoryInv` is the conjunction of the document's invariants. They are not
inductive on the stored document alone, because what `Commit` writes was decided
earlier, on a copy: `Fence` says that a caller whose generation is still
current carries a document that is a `LegalUpdate` of the *current* one, which is
exactly what the generation buys. The argument has three layers:

1. `RunRecordProofs`: each operation of `LegalUpdate` keeps `HistoryInv`, and keeps
   the ended Attempts (one lemma per operation and conjunct); `LegalMoves` says that each is
   a move of `RunContract`.
2. `Fence` is kept: a proposal is legal when it is made; a commit moves the
   generation past every other caller's.
3. So every step that changes the document is a `LegalUpdate` (`WritesAreSerial`),
   from which the invariants, the action properties and, with `LegalMoves`, the
   refinement of `RunContract` follow (`LifecycleKeepsContract`).

`RetryBudget` needs its own counting lemma (the Attempts of a step grow by one,
and only if the policy allowed it).

### One run to its end (`TrainingControlProofs`)

Every invariant of the run `control` is proved, `WritesAreLegal`, and `ControlKeepsContract`: the control
plane with its executor implements the same `RunContract` as the store with its callers.
The document's part is taken from `RunRecordProofs`; what is left is that a write is decided on
what still holds when it is made, and that the five places in which an Attempt is known agree. `IInv` says so
in three parts:

* `SlotOK`, of one Attempt: a live worker has a held lease, a receipt that says released means that
  the Kernel has the lease, a session that says completed means a trainer that succeeded and was released.
  The conjunct `session = "failed" => no live worker` was missing in a first attempt: without it an observation of a failed
  session may end an Attempt whose worker lives, and `OrphansComeFromLostStarts` is not inductive.
* `Fresh`: nothing is known anywhere of an Attempt that has not been submitted.
* `TickOK`, of the tick: at each point between two writes, what the tick is about to record is what
  the receipt and the session say, and the Attempt it is about is still the newest and active.

### The package binding (`PackageBindingProofs`)

The four properties and the refinement of
`BindingContract` hold for any sets of callers and requests. `IInv` adds to the
properties why they hold: `OneOperation` (at most one request has a row, because the
pending ones are refused by the journal and those after a completed one by
the projection, which `ProjectionAgrees` ties to it), `ReceiptsMatchPhases`,
`OneActivation` (only the call that inserted the intent works on it, and it has sent
nothing while the phase is INTENT and the call is prepared), and
`FinishersHaveCompleted` (a call that is about to erase a receipt has had the
broker complete). There is one lemma per effect on the tables, shared by the
calls that have it; the refinement has one per kind of transaction.

### Drafts, starts and results (`DraftStartProofs`)

`DraftsStaySound` is all that the run `service` checks of this module, each conjunct a theorem of its own
(`ImportsAreIdempotent`, `DraftsHaveOneRun`, `RunsTrainTheirDraft`, `CancellationIsMarkedFirst`,
`ReadersAgree`, `ResultsStayPrivate`); `NoRollBack` is the action property `DraftsAreNotRolledBack`.

The hard part is that `prepare`, `start` and `cancel` write whole documents that they read several durable steps
before. `CallOK` says that what a call past `Lock` has read is what is stored. It is kept
because of `BystanderKeeps`, a lemma about every step of anybody else: documents are only added or changed in the ways of
`Grows`, and while a call has the lock nobody else changes a draft or what is staged (`Respects`): `Create` only
appends a draft, the loop and the readers write results.
`RunsOK` (a run's key is the draft it was made for, and no two runs have one key) makes a repeated submission
after a lost one find the run rather than make another; `ImportsOK` does the same for receipts;
`ResultsOK` says that results, composed without the lock, are one per run. `DraftAssumption` says that no client is called `"loop"` or
`"free"`, which are the names of the loop and of a lock that nobody has.

### From the worker's records to a client's pages (`OutputHarvestProofs`)

`RowsStaySound` is all that the run `service` checks of this module's states (`RowsHold`, that `IInv` says it);
`ClosingFrameIsLast` is its action property. The core is that the sequences of a table are always 1..N, each of one row (the purge takes all, and they start over): then an append adds just as many rows as it has records (`RowsAreCounted`, from which
`COUNT` and `MAX(sequence)` agree), a page is the interval above the cursor, and an empty page means that the cursor
is at the end. Three parts of `IInv` go on from there:

* `PagesOK`: a cursor is never past the table, and the client has every row up to it;
* `PrefixOK`: where only the loop harvests, an Attempt's rows are a prefix of its records, and what the
  loop has counted when it appends is still the count;
* `SavedOK`: what is saved of an Attempt is listed or `Pending`, the harvest the loop is in having yet to come to it, and
  nothing is pending once the run is over. This is why the last frame may be sent.

That the purge takes only ended runs is no theorem: with a resume it is false (`purge_active`).

`HarvestAssumption` says that no reader is called `"loop"`.

### The service (`ServiceProofs`)

Every invariant that the run `service` checks, and its action property, are theorems. Those of `Service` have
one form: the invariant of a component holds when `component` names it.

*Readiness.* `TypeOK`, `AcceptedOnAFreshProbe` and `ReportsAreStable` hold for any set of threads, any kinds of calls
and any durations. `IInv` follows a call from point to point (`Sound`): what a call for a start or an
admission has found after its probe was found after it began, because such calls
never take what is remembered; and who probes or remembers holds the lock. `ReportsStayStable` needs more, which
`Steady` says: what is remembered was found no longer ago than its lifetime and the
time of a probe (the clock stops for a probe that is due), and whatever was found after the last change is the host as it is.
A health call that began after a stable stretch of that length has therefore found the host
as it is, from memory or not (`InTime`). One lemma per action.

*The pass* (`ActiveRunsStayTracked`). `ActiveRunsAreTracked` is nearly inductive; `IInv` of `ReconcilePass` adds that a draft names a run that is
there (a request that links a run has submitted it), that what the broker was told of is a task while the process
serves, that a task is completed only when its run has ended, and that no pass goes on in a process that is
down. The broker may raise before or after it takes a call, so `PassTells` is one lemma about both.

*The hand-offs* (`HandoffsStaySound`). A call may be anywhere between the request and the receipt when another has the same key or result, so `IInv`
says of each call how far the world is with it (`CallOK`): the result is registered from the moment it was
acknowledged, and from the post on there is the route that the call will be answered with. `RoutesOK` is why keys
decide: no two routes have one key, a default key is of its result, and every receipt of a route is of a
route that is there. Registrations and routes only grow (`HandoffsGrow`), so a step disturbs nobody but its caller (`OtherCallsKeep`).

*The resumes* (`ResumesStaySound`). The lock is held over the staging, the append and the execution, and `HolderOK` says what that buys: the run is stopped
until the append, the checkpoint chosen is still one of the last Attempt, whole in its directory when the Attempt
is appended, and the key still has no receipt. `HoldersOK` adds that a run that can be resumed has no Attempt at work, which is why
the loop, and the trainer that writes the directory of checkpoints, cannot take away what is being staged. `KeysOK` is why a
key makes one Attempt without failures: each Attempt of a key has its receipt, or the call that appended it
is about to save it and has the lock. There is one lemma for each operation, and `DiskIsKept` for what writes on the disk only.

*Drafts and rows* (`DraftsStaySound`, `RowsStaySound`, `NothingTakesBack`). The inductive invariants and the lemmas are those of `DraftStartProofs` and `OutputHarvestProofs`, cited for
each instance (`Import!NextKeeps`, `Pages!StepSound`, ...); what is left is which steps of `AllNext` are a step of
which instance.

### What carries out a training (`ExecutionProofs`)

Every invariant that the run `execution` checks is a theorem, of `AllSpec` of `Execution` or, for the engine, which it extends, of `Spec`.

*The engine.* `TypeOK`, `EventsAreInOrder` and `ConnectedToTheApproved` hold for any
installations, endpoints, answers and bounds (`ConnectionAssumption`). `EventsAreInOrder` is not
inductive: an event is appended at the line that is parsed, so `IInv` says that every event is of a
line before `session.next`, and that a call that parses is at a line that was read. That holds over
exceptions because `Abort` moves past what was read, and over a restart because
the session that is restored starts with no events. `ConnectedToTheApproved` rests on one step, in which
the record of an installation is accepted, and on no other changing the connection but to
forget it.

*Checkpoints* (`LatestCheckpointIsWhole`). `IInv` has four parts: `TypeInv`; `SaveInv`, the step of the save that is under way is marked in
`overwritten` while old metadata is there, and the greatest of the listed steps is not among those to be removed; `NewestInv`, that greatest step has
weights and metadata of one save, or a step at or above it is marked; `LimitInv`, while removals are under way and nothing has
failed, what will be left is within the limit. No order of steps is assumed. A save of a new step is not listed before its
weights are there, one of an old step is marked from its beginning, and the mark goes with the new metadata or the directory.

*The worker's output* (`OutputStaysInOrder`, `OutputIsKept`). `OrderInv` holds with any faults: a line in the queue was taken from its pipe and is behind
those of its stream that are queued or written before it; the notice comes last because the sink writes nothing after it. `LossInv` has four parts, as
the threads hand over to one another: `PhasesOK`, how far the main thread is tells how far the pumps are; `EndsOK`, the end
is queued when no line can follow, and the sink ends behind all of them; `MarksOK`, whoever throws lines away has
marked it; `LinesOK`, without the mark each line taken is queued or written.

*The offsets* (`OutputIsKept`). `IInv` of `DiagnosticsOffset` says that the offset is the end of the last record that was returned.
What a reader gets is some bytes and where the last whole line of them ends; `WholeRecords` shows that the records between are those that follow.

*Results* (`ResultsStayWhole`). `VerifiedIsTiled` is about the check of the weights, for any finite set of tensors: ranges that in order
each start where the one before ends, from 0 to the size of the payload, hold each byte of it exactly once; `TiledIsVerified` is the converse. `Sorted` is
the set of orders of the tensors by their ranges, so that it can be reasoned about without a recursion; `IInv` says that what is completed has been earned by such an output.

*Environments* (`EnvironmentsStaySound`). `OnlyMeetingEnvironmentsRun` and `NothingRunsOnAlteredState` together are nearly inductive: an execution adds one launch,
of what was resolved again and compared. `IInv` adds that a lock that is held in memory is that of the plan, and that nothing is held or launched without a run.

### Only model-checked

* Every liveness property, and with them fairness: no temporal property with fairness is within the prover's reach,
  nor is ENABLED. `EndedRunsAreReleased`, `RunConcludes`, `ResultsArrive` and the others of `progress` and `control` are
  checked on their bounds only.
* The disagreements with the documents: each is a counterexample, found by TLC.
* What the reader of the log returns (`ReadOutput` of `DiagnosticsOffset`), of which nothing but types is stated (its failure is `EngineConnection`'s), and what the reader of diagnostics does with
  characters of several bytes, of which `offset_wide` shows that it goes wrong.

The modules that carry proofs have no recursion: an order is one of a set of orders, a stream of lines is told by
where each line begins.

## What is assumed of others

The Kernel frees a worker with its lease. The client of the maintenance broker withdraws an admission when the
persistence it wraps raises, and its transition is an upsert. Exchange honours its
Idempotency-Key, and the registry takes a ModelVersion more than once. The artifact provider fails with
`ArtifactError`, the engine plugin with `RuntimeError` or by an answer of another form. Only a run's
metadata is damaged, not its plan. Lines are not blank. In `TrainingControl`, `OutputHarvest` and `ReconcilePass` a poll can read
the output that is new, so `RunConcludes`, `ResultsArrive` and `RunsAreServed` are about runs whose unread output stays within the
hint of `readlines`; `EngineConnection` has the others. A record of the diagnostics fits into one chunk.

## What is not modelled, and the plan

Not modelled: which specification passes preflight and validation (pure: both
outcomes are taken), the rendering by the engine package, the in-process tiny
dry run (library use only), HTTP routing and authentication, workspace projection, listing
and paging of resources, CLI, SDK and image tooling.

What could come next, in this order:

1. `LossIsMarked` for a slow disk, with the lines that the ten seconds of `close` lose as an explicit exception.
2. An abstract specification of a stream of rows, of which the loop's harvest is an implementation and the
   requests' is not: `PrefixOK` is most of the proof.
3. `TrainingControl` composed with `RunResume`: checkpoints that a lost Attempt has written.
