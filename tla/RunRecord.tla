------------------------------ MODULE RunRecord ------------------------------
(***************************************************************************)
(* The ProductRun document of training/core/.../lifecycle/contracts.py and *)
(* the policy ProductReconciler reads it with (lifecycle/reconciler.py):   *)
(* pure operators on one run, with no state of their own.  The modules     *)
(* with variables are ProductLifecycle, which runs these operators through *)
(* the compare-and-set store, and TrainingControl, which drives them from  *)
(* the training control plane.                                             *)
(*                                                                         *)
(* A run is [desired, observed, attempts, steps].  The PlanSteps compiled  *)
(* for a training run form a chain, each one depending on the one before   *)
(* it (control_plane.py, TrainingPlanCompiler), so a step is its position  *)
(* 1..StepCount in the plan's order.                                       *)
(***************************************************************************)
EXTENDS Integers, Sequences, FiniteSets

CONSTANTS
  StepCount,    \* length of the plan; the last step is the real training
  MaxAttempts   \* RetryPolicy.max_attempts of every step

ASSUME PlanAssumption ==
  /\ StepCount \in Nat \ {0}
  /\ MaxAttempts \in [1..StepCount -> Nat \ {0}]

-----------------------------------------------------------------------------
(* Types *)

Steps == 1..StepCount

StepStatus ==
  {"pending", "running", "succeeded", "failed", "blocked", "cancelling", "cancelled"}

DesiredState == {"active", "cancelled"}

ActiveAttempt == {"pending", "running", "cancelling"}

RetryableAttempt == {"failed", "lost"}

TerminalAttempt == {"succeeded", "failed", "lost", "blocked", "cancelled"}

AttemptStatus == ActiveAttempt \cup TerminalAttempt

TerminalRun == {"succeeded", "failed", "blocked", "cancelled"}

PlanStatus ==
  TerminalRun \cup {"pending", "running", "awaiting_retry", "cancel_requested", "cancelling"}

Attempts == [step : Steps, status : AttemptStatus, cleanup : BOOLEAN]

Runs == [desired : DesiredState, observed : PlanStatus,
         attempts : Seq(Attempts), steps : [Steps -> StepStatus]]

NewRun == [desired |-> "active", observed |-> "pending",
           attempts |-> << >>, steps |-> [s \in Steps |-> "pending"]]

-----------------------------------------------------------------------------
(* What the reconciler reads off a run *)

Terminal(r) == r.observed \in TerminalRun

Latest(r) == r.attempts[Len(r.attempts)]

LatestIn(r, S) == r.attempts # << >> /\ Latest(r).status \in S

AttemptsOf(r, s) == {i \in DOMAIN r.attempts : r.attempts[i].step = s}

\* Mutant of RetryAllowed: counts the retries instead of the Attempts.
RetryAllowedOnceMore(r) ==
  /\ LatestIn(r, RetryableAttempt)
  /\ Cardinality(AttemptsOf(r, Latest(r).step)) <= MaxAttempts[Latest(r).step]

\* RetryPolicy.allows: one more Attempt of the failed step fits in its budget.
RetryAllowed(r) ==
  /\ LatestIn(r, RetryableAttempt)
  /\ Cardinality(AttemptsOf(r, Latest(r).step)) < MaxAttempts[Latest(r).step]

AnyBlocked(r) == \E s \in Steps : r.steps[s] = "blocked"

\* Mutant of DependsOn: the plan's order alone, without its dependencies.
DependsOnNothing(s) == {}

DependsOn(s) == {s - 1} \cap Steps

Runnable(r, s) ==
  /\ r.steps[s] = "pending"
  /\ \A d \in DependsOn(s) : r.steps[d] = "succeeded"

NextRunnable(r, s) == Runnable(r, s) /\ \A t \in 1..(s - 1) : ~Runnable(r, t)

\* A CANCELLED Attempt whose executor never confirmed that it is gone.
CleanupPending(r) == LatestIn(r, {"cancelled"}) /\ ~Latest(r).cleanup

\* The run reads as asked to go on and nothing forbids it: no step is blocked.
MayProceed(r) == ~Terminal(r) /\ r.desired = "active" /\ ~AnyBlocked(r)

\* CREATE_ATTEMPT and RETRY_ATTEMPT, the two actions that start step s.
StartsStep(r, s) ==
  /\ MayProceed(r)
  /\ \/ RetryAllowed(r) /\ s = Latest(r).step
     \/ /\ ~LatestIn(r, ActiveAttempt \cup RetryableAttempt \cup {"blocked"})
        /\ NextRunnable(r, s)

\* FINALIZE_*: the terminal status the run has earned.
Finalizes(r, outcome) ==
  \/ /\ outcome = "cancelled"
     /\ ~Terminal(r) /\ r.desired = "cancelled"
     /\ ~LatestIn(r, ActiveAttempt) /\ ~CleanupPending(r)
  \/ /\ outcome = "blocked"
     /\ ~Terminal(r) /\ r.desired = "active"
     /\ AnyBlocked(r) \/ LatestIn(r, {"blocked"})
  \/ /\ outcome = "failed"
     /\ MayProceed(r)
     /\ LatestIn(r, RetryableAttempt) /\ ~RetryAllowed(r)
  \/ /\ outcome = "succeeded"
     /\ MayProceed(r)
     /\ ~LatestIn(r, ActiveAttempt \cup RetryableAttempt \cup {"blocked"})
     /\ \A s \in Steps : r.steps[s] = "succeeded"

\* WAIT on an Attempt that is still active.
WaitsOnLatest(r) == MayProceed(r) /\ LatestIn(r, ActiveAttempt)

\* REQUEST_CANCELLATION.
CancelsLatest(r) == ~Terminal(r) /\ r.desired = "cancelled" /\ LatestIn(r, ActiveAttempt)

-----------------------------------------------------------------------------
(* The run documents that the operations of ProductControlPlane write *)

NewAttempt(s) == [step |-> s, status |-> "pending", cleanup |-> FALSE]

\* Mutant of StartAttempt: the run's status is left as it was.
StartAttemptQuietly(r, s) ==
  [r EXCEPT !.attempts = Append(@, NewAttempt(s)), !.steps[s] = "running"]

StartAttempt(r, s) ==
  [r EXCEPT !.attempts = Append(@, NewAttempt(s)),
            !.steps[s] = "running",
            !.observed = "running"]

\* Mutant of ResumeAttempt: the stopped run is not reopened.
ResumeWithoutReopening(r, s) ==
  [StartAttempt(r, s) EXCEPT !.desired = "active", !.observed = r.observed]

ResumeAttempt(r, s) == [StartAttempt(r, s) EXCEPT !.desired = "active"]

\* Mutant of StepStatusFromAttempt: a step takes the Attempt's status by name.
StepStatusByName(status) == status

StepStatusFromAttempt(status) == IF status = "lost" THEN "failed" ELSE status

PlanStatusAfter(status, current) ==
  CASE status \in RetryableAttempt -> "awaiting_retry"
    [] status = "cancelling"       -> "cancelling"
    [] status = "cancelled"        -> "cancel_requested"
    [] OTHER                       -> current

ObserveAttempt(r, i, status, cleanup) ==
  [r EXCEPT !.attempts[i] = [step |-> @.step, status |-> status, cleanup |-> cleanup],
            !.steps[r.attempts[i].step] = StepStatusFromAttempt(status),
            !.observed = PlanStatusAfter(status, @)]

RequestCancel(r) == [r EXCEPT !.desired = "cancelled", !.observed = "cancel_requested"]

Finalize(r, outcome) == [r EXCEPT !.observed = outcome]

\* An Attempt takes observations until it is terminal; and a terminal run only
\* those that leave its own status alone (with_observed_status).
Observable(r, i, status) ==
  /\ i \in DOMAIN r.attempts
  /\ r.attempts[i].status \notin TerminalAttempt
  /\ Terminal(r) => PlanStatusAfter(status, r.observed) = r.observed

\* Mutant of Resumable: any run with an ended training Attempt is resumed.
ResumableAnyTime(r) ==
  \E i \in AttemptsOf(r, StepCount) : r.attempts[i].status \in TerminalAttempt

\* A stopped run is resumed at the real training step, and only by a Product
\* that holds a checkpoint of an earlier Attempt of that step.
Resumable(r) ==
  /\ r.observed \in {"failed", "cancelled", "awaiting_retry"}
  /\ \E i \in AttemptsOf(r, StepCount) : r.attempts[i].status \in TerminalAttempt

-----------------------------------------------------------------------------
(* What holds of a document, and what may be written over it *)

\* No Attempt disappears and no terminal Attempt is rewritten.
HistoryKept(before, after) ==
  \A i \in DOMAIN before.attempts :
    /\ i \in DOMAIN after.attempts
    /\ before.attempts[i].status \in TerminalAttempt
         => after.attempts[i] = before.attempts[i]

\* At most one Attempt is in flight, and it is the newest.
SingleActive(r) ==
  \A i \in DOMAIN r.attempts :
    r.attempts[i].status \in ActiveAttempt => i = Len(r.attempts)

\* Nothing in flight, and a cancelled Attempt cleaned up, before a verdict.
Settled(r) ==
  Terminal(r) =>
    /\ ~LatestIn(r, ActiveAttempt)
    /\ r.observed = "cancelled" => ~CleanupPending(r)

\* The verdict is the verdict of the newest Attempt.
VerdictEarned(r) ==
  /\ r.observed = "succeeded" =>
       /\ LatestIn(r, {"succeeded"}) /\ Latest(r).step = StepCount
       /\ \A s \in Steps : r.steps[s] = "succeeded"
  /\ r.observed \in {"failed", "awaiting_retry"} => LatestIn(r, RetryableAttempt)
  /\ r.observed = "blocked" => LatestIn(r, {"blocked"})

\* The steps before that of the newest Attempt succeeded, those after it wait.
PlanInOrder(r) ==
  /\ r.attempts = << >> => \A s \in Steps : r.steps[s] = "pending"
  /\ r.attempts # << >> =>
       /\ \A i \in DOMAIN r.attempts : r.attempts[i].step <= Latest(r).step
       /\ \A s \in Steps :
            /\ s < Latest(r).step => r.steps[s] = "succeeded"
            /\ s > Latest(r).step => r.steps[s] = "pending"
       /\ \/ r.steps[Latest(r).step] = StepStatusFromAttempt(Latest(r).status)
          \/ r.steps[Latest(r).step] = "running" /\ Latest(r).status = "pending"

\* The last step, which a Product may resume by hand, can go beyond its budget.
WithinBudget(r) ==
  \A s \in 1..(StepCount - 1) : Cardinality(AttemptsOf(r, s)) <= MaxAttempts[s]

\* All of it: what every operation of the control plane keeps.
HistoryInv(r) ==
  r \in Runs /\ SingleActive(r) /\ Settled(r) /\ VerdictEarned(r) /\ PlanInOrder(r)

\* A document the operations of the control plane may write over r.
LegalUpdate(r, next) ==
  \/ \E s \in Steps : StartsStep(r, s) /\ next = StartAttempt(r, s)
  \/ Resumable(r) /\ next = ResumeAttempt(r, StepCount)
  \/ \E i \in DOMAIN r.attempts, status \in AttemptStatus, cleanup \in BOOLEAN :
       Observable(r, i, status) /\ next = ObserveAttempt(r, i, status, cleanup)
  \/ ~Terminal(r) /\ next = RequestCancel(r)
  \/ \E outcome \in TerminalRun : Finalizes(r, outcome) /\ next = Finalize(r, outcome)

\* A run as the contract sees it.
OutcomeOf(r) == IF Terminal(r) THEN r.observed ELSE "open"
TriesOf(r) == [i \in DOMAIN r.attempts |-> r.attempts[i].status]

=============================================================================
