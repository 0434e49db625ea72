--------------------------- MODULE ProductLifecycle ---------------------------
(***************************************************************************)
(* ProductControlPlane (lifecycle/reconciler.py) over the compare-and-set  *)
(* store (lifecycle/store.py), for one run.                                *)
(*                                                                         *)
(* Every operation of the control plane is a load of the run, a decision   *)
(* on the copy it loaded, and a compare-and-set against the generation of  *)
(* that copy.  Nothing is locked in between, so any number of other calls  *)
(* can commit meanwhile.  A call here is therefore two actions: one that   *)
(* loads and decides, and Commit or Reject, which is the store's answer.   *)
(* A caller can also die between the two (Abandon): the store writes by    *)
(* atomic replacement, so nothing of its call is left behind.              *)
(*                                                                         *)
(* What the Attempts report is left open: any caller may observe any       *)
(* status of any Attempt, at any time.                                     *)
(***************************************************************************)
EXTENDS RunRecord

CONSTANTS
  Callers,        \* threads that call the control plane
  MaxHistory,     \* bound: Attempts a run may have
  MaxGeneration   \* bound: generation at which no further call is loaded

ASSUME BoundAssumption == MaxHistory \in Nat /\ MaxGeneration \in Nat

VARIABLES
  run,          \* the document in the store
  generation,   \* its Generation
  expected,     \* per caller: the generation it loaded, NoCall outside a call
  updated       \* per caller: the document its compare-and-set will write

vars == <<run, generation, expected, updated>>

NoCall == -1

Init ==
  /\ run = NewRun
  /\ generation = 0
  /\ expected = [c \in Callers |-> NoCall]
  /\ updated = [c \in Callers |-> NewRun]

-----------------------------------------------------------------------------
(* Load the run, decide, and be about to write the document next. *)

Propose(c, next) ==
  /\ expected[c] = NoCall
  /\ generation < MaxGeneration
  /\ expected' = [expected EXCEPT ![c] = generation]
  /\ updated' = [updated EXCEPT ![c] = next]
  /\ UNCHANGED <<run, generation>>

StartNextAttempt(c) ==
  /\ Len(run.attempts) < MaxHistory
  /\ \E s \in Steps : StartsStep(run, s) /\ Propose(c, StartAttempt(run, s))

ResumeStoppedRun(c) ==
  /\ Len(run.attempts) < MaxHistory
  /\ Resumable(run)
  /\ Propose(c, ResumeAttempt(run, StepCount))

\* The control plane vouches for the cleanup of cancelled Attempts only.
Observe(c) ==
  \E i \in DOMAIN run.attempts, status \in AttemptStatus, cleanup \in BOOLEAN :
    /\ Observable(run, i, status)
    /\ cleanup => status = "cancelled"
    /\ Propose(c, ObserveAttempt(run, i, status, cleanup))

Cancel(c) ==
  /\ ~Terminal(run)
  /\ Propose(c, RequestCancel(run))

ApplyTerminalAction(c) ==
  \E outcome \in TerminalRun :
    Finalizes(run, outcome) /\ Propose(c, Finalize(run, outcome))

-----------------------------------------------------------------------------
(* The store's compare-and-set. *)

\* The caller's copy goes out of scope with the call.
EndCall(c) ==
  /\ expected' = [expected EXCEPT ![c] = NoCall]
  /\ updated' = [updated EXCEPT ![c] = NewRun]

\* Mutant of Admitted: the write is checked against history, not the generation.
AdmittedOnHistory(c) == HistoryKept(run, updated[c])

Admitted(c) == expected[c] = generation /\ HistoryKept(run, updated[c])

Commit(c) ==
  /\ expected[c] # NoCall
  /\ Admitted(c)
  /\ run' = updated[c]
  /\ generation' = generation + 1
  /\ EndCall(c)

\* StaleGenerationError or the immutability errors: the call changes nothing.
Reject(c) ==
  /\ expected[c] # NoCall
  /\ ~Admitted(c)
  /\ EndCall(c)
  /\ UNCHANGED <<run, generation>>

Abandon(c) ==
  /\ expected[c] # NoCall
  /\ EndCall(c)
  /\ UNCHANGED <<run, generation>>

Next ==
  \E c \in Callers :
    \/ StartNextAttempt(c)
    \/ ResumeStoppedRun(c)
    \/ Observe(c)
    \/ Cancel(c)
    \/ ApplyTerminalAction(c)
    \/ Commit(c)
    \/ Reject(c)
    \/ Abandon(c)

Spec == Init /\ [][Next]_vars

-----------------------------------------------------------------------------
(* Properties *)

\* The documents have the shape contracts.py gives them, and a call carries
\* the generation of a document the store has really held.
TypeOK ==
  /\ run \in Runs
  /\ generation \in Nat
  /\ expected \in [Callers -> {NoCall} \cup Nat]
  /\ updated \in [Callers -> Runs]

\* However calls interleave, at most one Attempt is in flight and it is the
\* newest: two reconcilers never start the same step twice, and a resume never
\* starts beside an Attempt that has not ended.
OnlyLatestActive == SingleActive(run)

\* A terminal run leaves nothing in flight, and it is CANCELLED only after the
\* Attempt that was cancelled confirmed its cleanup.
TerminalRunIsSettled == Settled(run)

\* The verdict of a run is the verdict of its newest Attempt: SUCCEEDED only
\* with every step succeeded and the last step's Attempt the newest, FAILED and
\* AWAITING_RETRY only after an Attempt that failed or was lost, BLOCKED only
\* after one that was blocked.
VerdictMatchesHistory == VerdictEarned(run)

\* The plan advances in order and its step statuses are those of the Attempts:
\* the newest Attempt is of the furthest step reached, the steps before it have
\* all succeeded, resumed runs included, and those after it are untouched.
DependenciesHold == PlanInOrder(run)

\* Automatic retries stay within the plan's budget.  Only the real training
\* step, which a Product may resume by hand, can go beyond it.
RetryBudget == WithinBudget(run)

\* A call that still carries the current generation carries a document decided
\* on the current run.
Fence ==
  \A c \in Callers :
    /\ expected[c] <= generation
    /\ expected[c] = generation => LegalUpdate(run, updated[c])

\* The generation fence makes every call atomic: what is persisted is always
\* an operation decided on the run it replaces, never on an older copy of it.
NoLostUpdate == [][LegalUpdate(run, run')]_run

\* An Attempt that ended is never rewritten, and no Attempt is dropped.
HistoryIsImmutable == [][HistoryKept(run, run')]_run

\* A recorded wish to cancel outlives every other call: only resuming the
\* stopped run, which appends an Attempt, makes the run active again.
CancelIsNotLost ==
  [][run.desired = "cancelled" /\ run'.desired = "active"
       => /\ run.observed \in {"failed", "cancelled", "awaiting_retry"}
          /\ Len(run'.attempts) = Len(run.attempts) + 1]_run

\* The inductive invariant of the proofs.
IInv == TypeOK /\ HistoryInv(run) /\ Fence

Promise == INSTANCE RunContract WITH
  Ongoing <- ActiveAttempt,
  Final <- TerminalAttempt,
  Outcomes <- TerminalRun,
  outcome <- OutcomeOf(run),
  wanted <- run.desired,
  tries <- TriesOf(run)

\* All of this together implements the contract of RunContract: one Attempt at
\* a time, outcomes that stay, and no verdict while something is in flight.
KeepsContract == Promise!Contract

=============================================================================
