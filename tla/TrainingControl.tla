--------------------------- MODULE TrainingControl ---------------------------
(***************************************************************************)
(* One training run driven to its end: TrainingControlPlane                *)
(* (control_plane.py), the sessions of TrainingRuntime (runtime.py), the   *)
(* KernelTrainingExecutor with its receipts (executors/kernel_training.py),*)
(* the Kernel that holds leases and workers, and the Product process that  *)
(* crashes and restarts around them (product_api.py).                      *)
(*                                                                         *)
(* The Product lock makes a reconcile tick exclusive, so every document of *)
(* the run is written by one thread (ProductLifecycle is about the case    *)
(* where it is not).  A tick is still several writes and RPCs with crash   *)
(* points between them: pc says how far it has come.  It always works on   *)
(* the newest Attempt, whose session, receipt, lease and worker carry its  *)
(* index in the run.                                                       *)
(*                                                                         *)
(* The Kernel is external and modelled as the executor relies on it: a     *)
(* lease that is released or expires takes its worker with it, and a lease *)
(* that is not renewed expires.                                            *)
(***************************************************************************)
EXTENDS RunRecord

CONSTANTS
  MaxHistory,   \* bound: Attempts a run may have
  MaxCrashes,   \* bound: crashes of the Product process
  MaxFaults     \* bound: RPCs that fail, heartbeats that stop, calls that raise

ASSUME ControlAssumption ==
  MaxHistory \in Nat /\ MaxCrashes \in Nat /\ MaxFaults \in Nat

VARIABLES
  run,        \* durable: the ProductRun
  recorded,   \* durable: the Attempts whose execution reference is in the run
  receipt,    \* durable: the executor's receipt of each Attempt's start
  up,         \* the Product process runs
  pc,         \* how far its tick has come
  session,    \* in memory: TrainingRuntime's session of each Attempt
  lease,      \* the Kernel's lease of each Attempt
  worker,     \* its worker
  faults, crashes

kernel == <<lease, worker>>
vars == <<run, recorded, receipt, up, pc, session, lease, worker, faults, crashes>>

Slots == 1..MaxHistory

SessionStatus == {"none", "running", "completed", "failed", "cancelled", "awaiting_retry"}

\* completion.json is there exactly when the worker is "ok" or "error".
WorkerState == {"none", "running", "hung", "ok", "error", "dead"}

Alive == {"running", "hung"}

NoReceipt == [operation |-> FALSE, released |-> FALSE, renewalFailed |-> FALSE]

Init ==
  /\ run = NewRun
  /\ recorded = {}
  /\ receipt = [i \in Slots |-> NoReceipt]
  /\ up = TRUE /\ pc = "idle"
  /\ session = [i \in Slots |-> "none"]
  /\ lease = [i \in Slots |-> "none"]
  /\ worker = [i \in Slots |-> "none"]
  /\ faults = 0 /\ crashes = 0

\* The Attempt the tick works on.
Current == Len(run.attempts)

At(point) == up /\ pc = point

Fault == faults < MaxFaults /\ faults' = faults + 1

SessionBecomes(status) == session' = [session EXCEPT ![Current] = status]

Write(status, cleanup) == run' = ObserveAttempt(run, Current, status, cleanup)

-----------------------------------------------------------------------------
(* The Kernel.  Its part of a call can happen although the call fails.     *)

\* The lease goes, and the worker's process tree with it.
Freed(i, state) ==
  /\ lease' = [lease EXCEPT ![i] = IF @ = "held" THEN state ELSE @]
  /\ worker' = [worker EXCEPT ![i] = IF @ \in Alive THEN "dead" ELSE @]

\* Mutant of ReleaseConfirmed: the receipt says released, the Kernel is not asked.
ReleaseOnPaper ==
  /\ receipt' = [receipt EXCEPT ![Current].released = TRUE]
  /\ UNCHANGED <<kernel, faults>>

\* Mutant of ReleaseConfirmed: the release is not written to the receipt.
ReleaseUnrecorded ==
  /\ IF receipt[Current].released THEN UNCHANGED kernel ELSE Freed(Current, "released")
  /\ UNCHANGED <<receipt, faults>>

\* _release: a receipt that says released makes no RPC; otherwise ReleaseLease,
\* and a receipt of its answer.
ReleaseConfirmed ==
  /\ IF receipt[Current].released THEN UNCHANGED kernel ELSE Freed(Current, "released")
  /\ receipt' = [receipt EXCEPT ![Current].released = TRUE]
  /\ UNCHANGED faults

\* The RPC fails, before or after the Kernel has done it.
ReleaseFails ==
  /\ ~receipt[Current].released
  /\ Fault
  /\ Freed(Current, "released") \/ UNCHANGED kernel
  /\ UNCHANGED receipt

\* Mutant of Renewed: a lease is renewed whether its worker started or not.
RenewedRegardless(i) == up /\ lease[i] = "held"

\* The renewal thread keeps every started, unreleased lease of a live Product.
Renewed(i) == up /\ receipt[i].operation /\ ~receipt[i].released

LeaseExpires(i) ==
  /\ lease[i] = "held"
  /\ Renewed(i) => receipt[i].renewalFailed
  /\ Freed(i, "expired")
  /\ UNCHANGED <<run, recorded, receipt, up, pc, session, faults, crashes>>

\* RenewLease fails, for sure once the lease is gone.
RenewalFails(i) ==
  /\ Renewed(i) /\ ~receipt[i].renewalFailed
  /\ pc \notin {"startWorker", "undoStart"}
  /\ IF lease[i] = "held" THEN Fault ELSE UNCHANGED faults
  /\ receipt' = [receipt EXCEPT ![i].renewalFailed = TRUE]
  /\ UNCHANGED <<run, recorded, up, pc, session, lease, worker, crashes>>

\* The trainer exits with its completion written, or dies without one.
WorkerEnds(i) ==
  /\ worker[i] \in Alive
  /\ \E state \in {"ok", "error", "dead"} : worker' = [worker EXCEPT ![i] = state]
  /\ UNCHANGED <<run, recorded, receipt, up, pc, session, lease, faults, crashes>>

\* The worker lives on with no heartbeat for a minute.
WorkerStalls(i) ==
  /\ worker[i] = "running"
  /\ Fault
  /\ worker' = [worker EXCEPT ![i] = "hung"]
  /\ UNCHANGED <<run, recorded, receipt, up, pc, session, lease, crashes>>

-----------------------------------------------------------------------------
(* The reconcile tick: one action of ProductReconciler.next_action. *)

Conclude ==
  /\ At("idle")
  /\ \E outcome \in TerminalRun : Finalizes(run, outcome) /\ run' = Finalize(run, outcome)
  /\ UNCHANGED <<recorded, receipt, up, pc, session, kernel, faults, crashes>>

StartNext ==
  /\ At("idle") /\ Current < MaxHistory
  /\ \E s \in Steps : StartsStep(run, s) /\ run' = StartAttempt(run, s)
  /\ pc' = "execute"
  /\ UNCHANGED <<recorded, receipt, up, session, kernel, faults, crashes>>

\* The preflight step runs in the Product itself.
Preflight ==
  /\ At("execute") /\ Latest(run).step = 1
  /\ \E status \in {"succeeded", "blocked"} : Write(status, FALSE)
  /\ pc' = "idle"
  /\ UNCHANGED <<recorded, receipt, up, session, kernel, faults, crashes>>

\* TrainingRuntime.submit: validation, environment or admission refuses, or the
\* submission goes on to the Kernel, or it raises and leaves nothing behind.
Submit ==
  /\ At("execute") /\ Latest(run).step > 1
  /\ \/ SessionBecomes("failed") /\ pc' = "observe" /\ UNCHANGED faults
     \/ pc' = "acquire" /\ UNCHANGED <<session, faults>>
     \/ Fault /\ pc' = "idle" /\ UNCHANGED session
  /\ UNCHANGED <<run, recorded, receipt, up, kernel, crashes>>

\* AcquireLease.  Without an answer there is no lease to release: LOST.
Acquire ==
  /\ At("acquire")
  /\ \/ /\ lease' = [lease EXCEPT ![Current] = "held"]
        /\ pc' = "startWorker"
        /\ UNCHANGED <<session, faults>>
     \/ /\ Fault
        /\ lease' = [lease EXCEPT ![Current] = "held"] \/ UNCHANGED lease
        /\ SessionBecomes("awaiting_retry")
        /\ pc' = "observe"
  /\ UNCHANGED <<run, recorded, receipt, up, worker, crashes>>

\* The installation and StartWorker, refused when the lease has expired.
StartWorker ==
  /\ At("startWorker")
  /\ \/ /\ lease[Current] = "held"
        /\ worker' = [worker EXCEPT ![Current] = "running"]
        /\ receipt' = [receipt EXCEPT ![Current].operation = TRUE]
        /\ SessionBecomes("running")
        /\ pc' = "observe"
        /\ UNCHANGED faults
     \/ /\ IF lease[Current] = "held" THEN Fault ELSE UNCHANGED faults
        /\ \/ UNCHANGED worker
           \/ lease[Current] = "held" /\ worker' = [worker EXCEPT ![Current] = "running"]
        /\ pc' = "undoStart"
        /\ UNCHANGED <<receipt, session>>
  /\ UNCHANGED <<run, recorded, up, lease, crashes>>

\* Mutant of UndoStart: FAILED even when the lease could not be given back.
UndoStartForgets ==
  /\ At("undoStart")
  /\ ReleaseConfirmed \/ ReleaseFails
  /\ SessionBecomes("failed")
  /\ pc' = "observe"
  /\ UNCHANGED <<run, recorded, up, crashes>>

\* A failed start gives its lease back: FAILED, or LOST when that fails too.
UndoStart ==
  /\ At("undoStart")
  /\ \/ ReleaseConfirmed /\ SessionBecomes("failed")
     \/ ReleaseFails /\ SessionBecomes("awaiting_retry")
  /\ pc' = "observe"
  /\ UNCHANGED <<run, recorded, up, crashes>>

\* The execution can be asked about: its reference is in the run, and the
\* runtime has the session.
InReach == Current \in recorded /\ session[Current] # "none"

\* Mutant of SessionOver: only a completion file ends a session.
SessionCompleted == worker[Current] \in {"ok", "error"}

\* A completion, a stale heartbeat or a failed renewal.
SessionOver == worker[Current] # "running" \/ receipt[Current].renewalFailed

\* KernelTrainingExecutor.poll: a session that is over ends only once its
\* lease is released.  A release that fails raises out of the tick, and the next
\* tick polls again.
Poll ==
  /\ At("idle") /\ WaitsOnLatest(run)
  /\ InReach /\ session[Current] = "running"
  /\ SessionOver
  /\ \/ /\ ReleaseConfirmed
        /\ \/ SessionBecomes("failed")
           \/ worker[Current] = "ok" /\ SessionBecomes("completed")
        /\ pc' = "observe"
     \/ ReleaseFails /\ UNCHANGED <<session, pc>>
  /\ UNCHANGED <<run, recorded, up, crashes>>

\* Mutant of AttemptStatusOf: session and Attempt statuses share their names.
AttemptStatusByName(status) == status

AttemptStatusOf(status) ==
  CASE status = "running"        -> "running"
    [] status = "completed"      -> "succeeded"
    [] status = "failed"         -> "failed"
    [] status = "cancelled"      -> "cancelled"
    [] status = "awaiting_retry" -> "lost"

\* _observe_training_session, the last write of a start and of a poll.
ObserveSession ==
  /\ At("observe")
  /\ Write(AttemptStatusOf(session[Current]), FALSE)
  /\ recorded' = recorded \cup {Current}
  /\ pc' = "idle"
  /\ UNCHANGED <<receipt, up, session, kernel, faults, crashes>>

\* An active Attempt out of reach: the cancellation, then the quarantine.
Quarantine ==
  /\ At("idle") /\ WaitsOnLatest(run) /\ ~InReach
  /\ run' = RequestCancel(run)
  /\ pc' = "quarantine"
  /\ UNCHANGED <<recorded, receipt, up, session, kernel, faults, crashes>>

RecordQuarantine ==
  /\ At("quarantine")
  /\ Write("cancelling", FALSE)
  /\ pc' = "idle"
  /\ UNCHANGED <<recorded, receipt, up, session, kernel, faults, crashes>>

\* TrainingRuntime.cancel asks the executor only about a running session; a
\* cancellation that failed leaves AWAITING_RETRY, and is not asked again.
CancelExecution ==
  /\ At("idle") /\ CancelsLatest(run)
  /\ InReach /\ session[Current] = "running"
  /\ \/ ReleaseConfirmed /\ SessionBecomes("cancelled")
     \/ ReleaseFails /\ SessionBecomes("awaiting_retry")
  /\ pc' = "recordCancel"
  /\ UNCHANGED <<run, recorded, up, crashes>>

\* Mutant of RecordCancel: the executor's answer is not looked at.
RecordCancelAtFaceValue ==
  /\ At("recordCancel")
  /\ Write("cancelled", TRUE) /\ recorded' = recorded \cup {Current}
  /\ pc' = "idle"
  /\ UNCHANGED <<receipt, up, session, kernel, faults, crashes>>

RecordCancel ==
  /\ At("recordCancel")
  /\ IF session[Current] = "cancelled"
       THEN Write("cancelled", TRUE) /\ recorded' = recorded \cup {Current}
       ELSE Write("cancelling", FALSE) /\ UNCHANGED recorded
  /\ pc' = "idle"
  /\ UNCHANGED <<receipt, up, session, kernel, faults, crashes>>

\* _record_unconfirmed_cancellation of an execution out of reach.
CancelOutOfReach ==
  /\ At("idle") /\ CancelsLatest(run) /\ ~InReach
  /\ Latest(run).status # "cancelling"
  /\ Write("cancelling", FALSE)
  /\ UNCHANGED <<recorded, receipt, up, pc, session, kernel, faults, crashes>>

Tick ==
  \/ Conclude \/ StartNext \/ Preflight \/ Submit \/ Acquire \/ StartWorker \/ UndoStart
  \/ Poll \/ ObserveSession \/ Quarantine \/ RecordQuarantine
  \/ CancelExecution \/ RecordCancel \/ CancelOutOfReach

-----------------------------------------------------------------------------
(* The user, who calls between ticks, and the process. *)

\* Mutant of UserCancel: a run that has ended is cancelled too.
UserCancelAnyTime ==
  /\ At("idle")
  /\ run' = RequestCancel(run)
  /\ UNCHANGED <<recorded, receipt, up, pc, session, kernel, faults, crashes>>

UserCancel ==
  /\ At("idle") /\ ~Terminal(run)
  /\ run' = RequestCancel(run)
  /\ UNCHANGED <<recorded, receipt, up, pc, session, kernel, faults, crashes>>

\* A resume needs a checkpoint published by the newest Attempt, which one that
\* never ran has not.
UserResume ==
  /\ At("idle") /\ Current < MaxHistory
  /\ Resumable(run)
  /\ receipt[Current].operation
  /\ run' = ResumeAttempt(run, StepCount)
  /\ pc' = "execute"
  /\ UNCHANGED <<recorded, receipt, up, session, kernel, faults, crashes>>

Crash ==
  /\ up /\ crashes < MaxCrashes
  /\ crashes' = crashes + 1
  /\ up' = FALSE /\ pc' = "idle"
  /\ session' = [i \in Slots |-> "none"]
  /\ UNCHANGED <<run, recorded, receipt, kernel, faults>>

\* Mutant of Restart: the receipts are not recovered.
RestartForgets ==
  /\ ~up
  /\ up' = TRUE
  /\ UNCHANGED <<run, recorded, receipt, pc, session, kernel, faults, crashes>>

\* Every receipt of a started worker is restored as a running session.
Restart ==
  /\ ~up
  /\ up' = TRUE
  /\ session' = [i \in Slots |-> IF receipt[i].operation THEN "running" ELSE "none"]
  /\ UNCHANGED <<run, recorded, receipt, pc, kernel, faults, crashes>>

Next ==
  \/ Tick \/ UserCancel \/ UserResume \/ Crash \/ Restart
  \/ \E i \in Slots :
       \/ LeaseExpires(i) \/ RenewalFails(i) \/ WorkerEnds(i) \/ WorkerStalls(i)

\* The Product reconciles every 0.2 s and is restarted when it dies; training
\* is finite; a Kernel lease that nobody renews runs out, and the renewal thread
\* notices.  Nothing is assumed of a worker that has stalled, nor of the user.
Fairness ==
  /\ WF_vars(Tick) /\ WF_vars(Restart)
  /\ \A i \in Slots :
       /\ WF_vars(worker[i] = "running" /\ WorkerEnds(i))
       /\ WF_vars(LeaseExpires(i) /\ ~Renewed(i))
       /\ WF_vars(RenewalFails(i) /\ lease[i] # "held")

Spec == Init /\ [][Next]_vars

FairSpec == Spec /\ Fairness

-----------------------------------------------------------------------------
(* Properties *)

TypeOK ==
  /\ run \in Runs
  /\ recorded \subseteq Slots
  /\ receipt \in [Slots -> [operation : BOOLEAN, released : BOOLEAN, renewalFailed : BOOLEAN]]
  /\ up \in BOOLEAN
  /\ pc \in {"idle", "execute", "acquire", "startWorker", "undoStart", "observe",
            "quarantine", "recordCancel"}
  /\ session \in [Slots -> SessionStatus]
  /\ lease \in [Slots -> {"none", "held", "released", "expired"}]
  /\ worker \in [Slots -> WorkerState]
  /\ faults \in Nat /\ crashes \in Nat

StatusOf(i) == run.attempts[i].status

Ended(i) == i \in DOMAIN run.attempts /\ StatusOf(i) \in TerminalAttempt

\* Every write of the control plane is one the lifecycle allows on the document
\* it replaces, whatever crashed before it: no terminal Attempt is observed
\* again, no Attempt is started beside another.
WritesAreLegal == [][LegalUpdate(run, run')]_run

Promise == INSTANCE RunContract WITH
  Ongoing <- ActiveAttempt,
  Final <- TerminalAttempt,
  Outcomes <- TerminalRun,
  outcome <- OutcomeOf(run),
  wanted <- run.desired,
  tries <- TriesOf(run)

\* To those who submitted it, the run keeps the contract of RunContract through
\* all that is lost, repeated, expired and restarted below: one Attempt at a time,
\* outcomes that stay, and no verdict while something is in flight.
KeepsContract == Promise!Contract

\* An Attempt of a step that trains is SUCCEEDED only after its trainer exited
\* with success and the Kernel has its lease back (KernelTrainingExecutor.poll),
\* crashes between the release and the observation included.
SuccessIsCleanedUp ==
  \A i \in DOMAIN run.attempts :
    StatusOf(i) = "succeeded" /\ run.attempts[i].step > 1
      => worker[i] = "ok" /\ lease[i] \in {"released", "expired"}

\* A cancellation is confirmed only when nothing of the Attempt is left.
ConfirmedCleanupIsReal ==
  \A i \in DOMAIN run.attempts :
    StatusOf(i) = "cancelled" /\ run.attempts[i].cleanup
      => worker[i] \notin Alive /\ lease[i] # "held"

\* The renewal thread keeps alive only the lease of the Attempt in flight: when
\* an Attempt has ended, or another one has begun, its lease is given back or
\* left to run out.
OnlyTheCurrentLeaseIsKept ==
  \A i \in Slots :
    receipt[i].operation /\ ~receipt[i].released => i = Current /\ ~Ended(i)

\* A worker outlives its Attempt only if the start was LOST.
OrphansComeFromLostStarts ==
  \A i \in DOMAIN run.attempts :
    Ended(i) /\ worker[i] \in Alive => StatusOf(i) = "lost" /\ ~receipt[i].operation

\* A running Attempt whose reference is in the run is never out of reach: every
\* restart restores its session from the receipt.
RecordedExecutionIsReachable ==
  up /\ LatestIn(run, {"running"}) => InReach

\* Nothing has been done yet for an Attempt.
Fresh(i) ==
  /\ i \notin recorded /\ receipt[i] = NoReceipt
  /\ session[i] = "none" /\ lease[i] = "none" /\ worker[i] = "none"

\* What the receipt, the session, the lease and the worker of an Attempt say of
\* each other.
SlotOK(i) ==
  /\ worker[i] \in Alive => lease[i] = "held"
  /\ receipt[i].operation => lease[i] # "none"
  /\ receipt[i].released => lease[i] \in {"released", "expired"}
  /\ session[i] = "running" => receipt[i].operation
  /\ session[i] = "completed" => worker[i] = "ok" /\ receipt[i].released
  /\ session[i] = "cancelled" => receipt[i].released
  /\ session[i] = "failed" =>
       worker[i] \notin Alive /\ (receipt[i].operation => receipt[i].released)
  /\ up /\ receipt[i].operation => session[i] # "none"

\* What a tick has done when it is at a point: the newest Attempt is in flight,
\* and nothing was leased, or no worker's start was recorded, or the session to
\* be observed is there.
TickOK ==
  /\ pc # "idle" => up /\ LatestIn(run, ActiveAttempt)
  /\ pc \in {"execute", "acquire"} => Fresh(Current)
  /\ pc \in {"startWorker", "undoStart"} =>
       /\ receipt[Current] = NoReceipt /\ session[Current] = "none"
       /\ lease[Current] \in {"held", "expired"}
  /\ pc = "startWorker" => worker[Current] = "none"
  /\ pc = "observe" =>
       /\ session[Current] \in {"running", "completed", "failed", "awaiting_retry"}
       /\ session[Current] = "awaiting_retry" => ~receipt[Current].operation
  /\ pc = "recordCancel" => session[Current] \in {"cancelled", "awaiting_retry"}

\* The inductive invariant.
IInv ==
  /\ TypeOK /\ HistoryInv(run) /\ Current <= MaxHistory
  /\ \A i \in Slots : SlotOK(i) /\ (i > Current => Fresh(i))
  /\ TickOK
  /\ LatestIn(run, {"running"}) => Current \in recorded /\ receipt[Current].operation
  /\ SuccessIsCleanedUp /\ ConfirmedCleanupIsReal
  /\ OnlyTheCurrentLeaseIsKept /\ OrphansComeFromLostStarts

\* The run waits for a cleanup that nobody has confirmed.
Quarantined == CancelsLatest(run) /\ LatestIn(run, {"cancelling"})

\* Whatever fails, the run comes to an end or to a quarantine and stays there.
RunConcludes == <>[](Terminal(run) \/ Quarantined)

\* What an ended Attempt leased returns to the Kernel.
EndedAttemptsReturnLeases == \A i \in Slots : Ended(i) ~> lease[i] # "held"

-----------------------------------------------------------------------------
(* What the documents say and the code does not do. *)

\* "Cancellation is intent first ... the run remains CANCELLING until reconciled
\* evidence makes it terminal" (contracts/product/v1/README.md:52-54): a run that
\* reads CANCELLED has no worker left.  Finalizing looks only at Attempts that
\* are active or CANCELLED, and the worker of a LOST start may live.
CancelledMeansStopped ==
  run.observed = "cancelled" => \A i \in Slots : worker[i] \notin Alive

\* "it does not adopt a previous process session after controller restart"
\* (docs/API.md:99-100): create_app restores every receipt as a session.
NoSessionAdopted == [][~up /\ up' => \A i \in Slots : session'[i] = "none"]_vars

\* The run remains CANCELLING "until reconciled evidence makes it terminal"
\* (contracts/product/v1/README.md:53-54): a cancellation of an execution that
\* can be asked about is settled in the end.  One failed ReleaseLease is enough
\* for the execution never to be asked again.
CancellationIsSettled == CancelsLatest(run) /\ InReach ~> ~CancelsLatest(run)

=============================================================================
