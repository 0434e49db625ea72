------------------------ MODULE ProductLifecycleProofs ------------------------
(***************************************************************************)
(* Proofs about ProductLifecycle, for every plan length, every retry       *)
(* budget, every set of callers and every bound.                           *)
(***************************************************************************)
EXTENDS ProductLifecycle, RunRecordProofs

-----------------------------------------------------------------------------
(* The inductive invariant. *)

LEMMA InvInit == Init => IInv
  <1> SUFFICES ASSUME Init PROVE IInv
    OBVIOUS
  <1>1. TypeOK
    BY NewRunInv DEF Init, TypeOK, HistoryInv
  <1>2. Fence
    BY DEF Init, Fence, NoCall
  <1>3. QED
    BY <1>1, <1>2, NewRunInv DEF Init, IInv

\* What a call decides is legal for the document it was decided on.
LEMMA CallsAreLegal ==
  ASSUME NEW c \in Callers,
         \/ StartNextAttempt(c) \/ ResumeStoppedRun(c) \/ Observe(c)
         \/ Cancel(c) \/ ApplyTerminalAction(c)
  PROVE  \E next : LegalUpdate(run, next) /\ Propose(c, next)
  BY DEF StartNextAttempt, ResumeStoppedRun, Observe, Cancel, ApplyTerminalAction, LegalUpdate

LEMMA InvPropose ==
  ASSUME IInv, NEW c \in Callers, NEW next, LegalUpdate(run, next), Propose(c, next)
  PROVE  IInv'
  <1>1. run' = run /\ generation' = generation
    BY DEF Propose
  <1>2. HistoryInv(run) /\ HistoryInv(next) /\ next \in Runs
    BY LegalKeeps DEF IInv, HistoryInv
  <1>3. TypeOK'
    BY <1>1, <1>2 DEF IInv, TypeOK, Propose
  <1>4. Fence'
    BY <1>1 DEF IInv, TypeOK, Fence, Propose
  <1>5. QED
    BY <1>1, <1>2, <1>3, <1>4 DEF IInv

LEMMA InvEndCall ==
  ASSUME IInv, NEW c \in Callers, EndCall(c)
  PROVE  /\ expected' \in [Callers -> {NoCall} \cup Nat]
         /\ updated' \in [Callers -> Runs]
         /\ \A d \in Callers : \/ expected'[d] = NoCall
                               \/ expected'[d] = expected[d] /\ updated'[d] = updated[d]
  BY NewRunInv DEF IInv, TypeOK, EndCall, HistoryInv

LEMMA InvCommit ==
  ASSUME IInv, NEW c \in Callers, Commit(c)
  PROVE  IInv' /\ LegalUpdate(run, run')
  <1>1. LegalUpdate(run, run')
    BY DEF Commit, Admitted, IInv, Fence
  <1>2. HistoryInv(run') /\ run' \in Runs
    BY <1>1, LegalKeeps DEF IInv, HistoryInv
  <1>3. generation \in Nat /\ generation' = generation + 1
    BY DEF Commit, IInv, TypeOK
  <1>4. TypeOK'
    BY <1>2, <1>3, InvEndCall DEF Commit, TypeOK
  <1>5. Fence'
    <2>1. \A d \in Callers : expected'[d] = NoCall \/ expected'[d] = expected[d]
      BY InvEndCall DEF Commit
    <2>2. \A d \in Callers : expected[d] <= generation /\ expected[d] \in {NoCall} \cup Nat
      BY DEF IInv, TypeOK, Fence
    <2>3. \A d \in Callers : expected'[d] < generation'
      BY <1>3, <2>1, <2>2 DEF NoCall
    <2>4. \A d \in Callers : expected'[d] \in Int
      BY <2>1, <2>2 DEF NoCall
    <2>5. QED
      BY <1>3, <2>3, <2>4 DEF Fence
  <1>6. QED
    BY <1>1, <1>2, <1>4, <1>5 DEF IInv

LEMMA InvGiveUp ==
  ASSUME IInv, NEW c \in Callers, Reject(c) \/ Abandon(c)
  PROVE  IInv' /\ run' = run
  <1>1. run' = run /\ generation' = generation /\ EndCall(c)
    BY DEF Reject, Abandon
  <1>2. TypeOK'
    BY <1>1, InvEndCall DEF IInv, TypeOK
  <1>3. Fence'
    BY <1>1, InvEndCall DEF IInv, TypeOK, Fence, NoCall
  <1>4. QED
    BY <1>1, <1>2, <1>3 DEF IInv

LEMMA InvNext ==
  ASSUME IInv, [Next]_vars
  PROVE  IInv' /\ (run' = run \/ LegalUpdate(run, run'))
  <1>1. ASSUME NEW c \in Callers,
               \/ StartNextAttempt(c) \/ ResumeStoppedRun(c) \/ Observe(c)
               \/ Cancel(c) \/ ApplyTerminalAction(c)
        PROVE  IInv' /\ run' = run
    <2>1. PICK next : LegalUpdate(run, next) /\ Propose(c, next)
      BY <1>1, CallsAreLegal
    <2>2. QED
      BY <2>1, InvPropose DEF Propose
  <1>2. ASSUME NEW c \in Callers, Commit(c)
        PROVE  IInv' /\ LegalUpdate(run, run')
    BY <1>2, InvCommit
  <1>3. ASSUME NEW c \in Callers, Reject(c) \/ Abandon(c)
        PROVE  IInv' /\ run' = run
    BY <1>3, InvGiveUp
  <1>4. CASE UNCHANGED vars
    BY <1>4 DEF vars, IInv, TypeOK, Fence
  <1>5. QED
    BY <1>1, <1>2, <1>3, <1>4 DEF Next

\* The invariant the theorems below rest on.
THEOREM Invariance == Spec => []IInv
  <1>1. IInv /\ [Next]_vars => IInv'
    BY InvNext
  <1>2. QED
    BY InvInit, <1>1, PTL DEF Spec

\* The documents of contracts.py keep their shape, whoever writes them.
THEOREM TypeCorrect == Spec => []TypeOK
  BY Invariance, PTL DEF IInv

\* No two Attempts are ever in flight, whatever the interleaving.
THEOREM OneAttemptAtATime == Spec => []OnlyLatestActive
  BY Invariance, PTL DEF IInv, HistoryInv, OnlyLatestActive

\* A run that is over has nothing in flight, and a cancelled one is cleaned up.
THEOREM TerminalRunsAreSettled == Spec => []TerminalRunIsSettled
  BY Invariance, PTL DEF IInv, HistoryInv, TerminalRunIsSettled

\* A run's verdict is the verdict of its newest Attempt.
THEOREM VerdictsAreEarned == Spec => []VerdictMatchesHistory
  BY Invariance, PTL DEF IInv, HistoryInv, VerdictMatchesHistory

\* Steps run in dependency order, through retries and resumes.
THEOREM PlanAdvancesInOrder == Spec => []DependenciesHold
  BY Invariance, PTL DEF IInv, HistoryInv, DependenciesHold

\* Automatic retries never exceed the plan's budget.
THEOREM RetriesStayInBudget == Spec => []RetryBudget
  <1>1. Init => RetryBudget
    <2>1. \A s : AttemptsOf(NewRun, s) = {}
      BY DEF AttemptsOf, NewRun
    <2>2. \A s \in 1..(StepCount - 1) : MaxAttempts[s] \in Nat
      BY PlanAssumption
    <2>3. QED
      BY <2>1, <2>2, FS_EmptySet DEF Init, RetryBudget, WithinBudget
  <1>2. IInv /\ IInv' /\ RetryBudget /\ [Next]_vars => RetryBudget'
    <2>1. ASSUME IInv, IInv', RetryBudget, LegalUpdate(run, run')
          PROVE  RetryBudget'
      BY <2>1, LegalKeepsBudget DEF RetryBudget, IInv, TypeOK
    <2>2. QED
      BY <2>1, InvNext DEF RetryBudget
  <1>3. QED
    BY Invariance, <1>1, <1>2, PTL DEF Spec

-----------------------------------------------------------------------------
(* What a step of the system does to the stored document. *)

\* Every document the store accepts was decided on the one it replaces.
THEOREM WritesAreSerial == Spec => NoLostUpdate
  <1>1. IInv /\ [Next]_vars => [LegalUpdate(run, run')]_run
    BY InvNext
  <1>2. QED
    BY Invariance, <1>1, PTL DEF Spec, NoLostUpdate

\* An Attempt that ended stays as it ended.
THEOREM HistoryStays == Spec => HistoryIsImmutable
  <1>1. IInv /\ [Next]_vars => [HistoryKept(run, run')]_run
    BY InvNext, LegalKeepsHistory DEF IInv, HistoryInv
  <1>2. QED
    BY Invariance, <1>1, PTL DEF Spec, HistoryIsImmutable

\* No operation but a resume takes back a cancellation.
THEOREM CancellationsAreKept == Spec => CancelIsNotLost
  <1> DEFINE Kept == run.desired = "cancelled" /\ run'.desired = "active"
                       => /\ run.observed \in {"failed", "cancelled", "awaiting_retry"}
                          /\ Len(run'.attempts) = Len(run.attempts) + 1
  <1>1. IInv /\ [Next]_vars => [Kept]_run
    BY InvNext, OnlyResumeReactivates DEF IInv, HistoryInv
  <1>2. QED
    BY Invariance, <1>1, PTL DEF Spec, CancelIsNotLost

-----------------------------------------------------------------------------
(* The refinement of RunContract. *)

\* A legal write is a step of the contract, which is ContractMove with its own names.
LEMMA ContractStep ==
  ASSUME IInv, LegalUpdate(run, run')
  PROVE  Promise!ContractNext
  <1>1. ContractMove(run, run')
    BY LegalMoves DEF IInv, HistoryInv
  <1>2. QED
    BY <1>1 DEF ContractMove, Tried, Reopened, Reported, Withdrawn, Closed, Quiet, EndedAs,
                Promise!ContractNext, Promise!Try, Promise!Reopen, Promise!Report,
                Promise!Withdraw, Promise!Close, Promise!Earned, Promise!Quiet, Promise!EndedIn

\* The lifecycle over its store implements the contract of RunContract.
THEOREM LifecycleKeepsContract == Spec => KeepsContract
  <1>1. Init => Promise!ContractInit
    <2> SUFFICES ASSUME Init PROVE Promise!ContractInit
      OBVIOUS
    <2>1. run.attempts = << >> /\ run.observed = "pending" /\ run.desired = "active"
          /\ run \in Runs
      BY NewRunInv DEF Init, NewRun, HistoryInv
    <2>2. QED
      BY <2>1, TriesType DEF Promise!ContractInit, OutcomeOf, Terminal, TerminalRun
  <1>2. IInv /\ [Next]_vars => [Promise!ContractNext]_(Promise!contractVars)
    BY InvNext, ContractStep DEF Promise!contractVars
  <1>3. QED
    BY Invariance, <1>1, <1>2, PTL DEF Spec, KeepsContract, Promise!Contract

=============================================================================
