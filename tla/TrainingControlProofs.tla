------------------------- MODULE TrainingControlProofs -------------------------
(***************************************************************************)
(* Proofs about TrainingControl, for every plan, every retry budget and    *)
(* every number of Attempts, crashes and faults: the inductive invariant   *)
(* IInv, the safety properties of the run `control`, and that every write  *)
(* of the control plane is one the lifecycle allows.                       *)
(***************************************************************************)
EXTENDS TrainingControl, RunRecordProofs

-----------------------------------------------------------------------------
(* Reading the run. *)

LEMMA CurrentAttempt ==
  ASSUME IInv
  PROVE  /\ run \in Runs /\ HistoryInv(run)
         /\ Current \in Nat /\ Current <= MaxHistory
         /\ DOMAIN run.attempts = 1..Current
         /\ \A i \in 1..Current : i \in Slots /\ run.attempts[i] \in Attempts
         /\ \A S : LatestIn(run, S) <=> Current > 0 /\ StatusOf(Current) \in S
<1>1. run \in Runs /\ run.attempts \in Seq(Attempts)
  BY DEF IInv, TypeOK, Runs
<1>2. Current \in Nat /\ DOMAIN run.attempts = 1..Current
  BY <1>1 DEF Current
<1>3. \A i \in 1..Current : i \in Slots /\ run.attempts[i] \in Attempts
  BY <1>1, <1>2, ControlAssumption DEF Current, Slots, IInv
<1>4. run.attempts # << >> <=> Current > 0
  BY <1>1, <1>2 DEF Current
<1>5. QED
  BY <1>1, <1>2, <1>3, <1>4 DEF IInv, LatestIn, Latest, StatusOf, Current

\* An Attempt in flight has not ended, and its run goes on.
LEMMA InFlight ==
  ASSUME IInv, LatestIn(run, ActiveAttempt)
  PROVE  /\ Current \in Slots /\ Current \in DOMAIN run.attempts
         /\ StatusOf(Current) \in ActiveAttempt /\ StatusOf(Current) \notin TerminalAttempt
         /\ ~Ended(Current) /\ ~Terminal(run)
<1>1. Current \in 1..Current /\ StatusOf(Current) \in ActiveAttempt
  BY CurrentAttempt
<1>2. ~Terminal(run)
  BY CurrentAttempt DEF HistoryInv, Settled
<1>3. QED
  BY <1>1, <1>2, CurrentAttempt DEF Ended, ActiveAttempt, TerminalAttempt

-----------------------------------------------------------------------------
(* Steps that leave the run alone. *)

\* The rows of every other Attempt.
Others ==
  \A i \in Slots : i # Current =>
    /\ receipt'[i] = receipt[i] /\ session'[i] = session[i]
    /\ lease'[i] = lease[i] /\ worker'[i] = worker[i]

\* A step of the tick on the Attempt in flight.
LEMMA TickStep ==
  ASSUME IInv, LatestIn(run, ActiveAttempt), UNCHANGED <<run, recorded, up, crashes>>,
         TypeOK', Others, SlotOK(Current)', TickOK',
         receipt[Current].operation => receipt'[Current].operation
  PROVE  IInv'
<1>1. /\ Current' = Current /\ Current \in Slots /\ ~Ended(Current)
      /\ Current \in Nat /\ HistoryInv(run)' /\ (Current <= MaxHistory)'
      /\ StatusOf(Current) \notin TerminalAttempt /\ DOMAIN run.attempts = 1..Current
  BY InFlight, CurrentAttempt DEF Current, HistoryInv
<1>2. \A i \in Slots : i # Current => SlotOK(i)' /\ ((i > Current)' => Fresh(i)')
  BY <1>1 DEF IInv, Others, SlotOK, Fresh
<1>3. \A i \in Slots : SlotOK(i)' /\ ((i > Current)' => Fresh(i)')
  BY <1>1, <1>2 DEF Slots
<1>4. (LatestIn(run, {"running"}) => Current \in recorded /\ receipt[Current].operation)'
  BY <1>1 DEF IInv, LatestIn, Latest
<1>5. \A i \in DOMAIN run.attempts : i \in Slots
  BY <1>1, CurrentAttempt
<1>6. SuccessIsCleanedUp'
  BY <1>1, <1>5 DEF IInv, SuccessIsCleanedUp, Others, StatusOf, TerminalAttempt
<1>7. ConfirmedCleanupIsReal'
  BY <1>1, <1>5 DEF IInv, ConfirmedCleanupIsReal, Others, StatusOf, TerminalAttempt
<1>8. OnlyTheCurrentLeaseIsKept'
  BY <1>1 DEF IInv, OnlyTheCurrentLeaseIsKept, Others, Ended, StatusOf
<1>9. OrphansComeFromLostStarts'
  BY <1>1, <1>5 DEF IInv, OrphansComeFromLostStarts, Others, Ended, StatusOf
<1>10. QED
  BY <1>1, <1>3, <1>4, <1>6, <1>7, <1>8, <1>9 DEF IInv

\* A release that is confirmed: the lease is not held and no worker lives.
LEMMA ReleasedCurrent ==
  ASSUME IInv, LatestIn(run, ActiveAttempt), ReleaseConfirmed, lease[Current] # "none"
  PROVE  /\ receipt' \in [Slots -> [operation : BOOLEAN, released : BOOLEAN, renewalFailed : BOOLEAN]]
         /\ lease' \in [Slots -> {"none", "held", "released", "expired"}]
         /\ worker' \in [Slots -> WorkerState]
         /\ \A i \in Slots : i # Current =>
              receipt'[i] = receipt[i] /\ lease'[i] = lease[i] /\ worker'[i] = worker[i]
         /\ receipt'[Current].released
         /\ receipt'[Current].operation = receipt[Current].operation
         /\ lease'[Current] \in {"released", "expired"} /\ worker'[Current] \notin Alive
         /\ worker[Current] = "ok" => worker'[Current] = "ok"
         /\ faults' = faults
<1>1. Current \in Slots /\ SlotOK(Current) /\ TypeOK
  BY InFlight DEF IInv
<1>2. CASE receipt[Current].released
  BY <1>1, <1>2 DEF ReleaseConfirmed, kernel, TypeOK, SlotOK, Alive
<1>3. CASE ~receipt[Current].released
    <2>1. /\ lease' = [lease EXCEPT ![Current] = IF @ = "held" THEN "released" ELSE @]
          /\ worker' = [worker EXCEPT ![Current] = IF @ \in Alive THEN "dead" ELSE @]
          /\ receipt' = [receipt EXCEPT ![Current].released = TRUE] /\ faults' = faults
      BY <1>3 DEF ReleaseConfirmed, Freed
    <2>2. /\ lease \in [Slots -> {"none", "held", "released", "expired"}]
          /\ worker \in [Slots -> WorkerState]
          /\ receipt \in [Slots -> [operation : BOOLEAN, released : BOOLEAN, renewalFailed : BOOLEAN]]
      BY <1>1 DEF TypeOK
    <2>3. /\ receipt' \in [Slots -> [operation : BOOLEAN, released : BOOLEAN, renewalFailed : BOOLEAN]]
          /\ receipt'[Current].released /\ receipt'[Current].operation = receipt[Current].operation
          /\ \A i \in Slots : i # Current => receipt'[i] = receipt[i]
      BY <1>1, <2>1, <2>2
    <2>4. /\ lease' \in [Slots -> {"none", "held", "released", "expired"}]
          /\ lease'[Current] \in {"released", "expired"}
          /\ \A i \in Slots : i # Current => lease'[i] = lease[i]
      BY <1>1, <2>1, <2>2
    <2>5. /\ worker' \in [Slots -> WorkerState] /\ worker'[Current] \notin Alive
          /\ worker[Current] = "ok" => worker'[Current] = "ok"
          /\ \A i \in Slots : i # Current => worker'[i] = worker[i]
      BY <1>1, <2>1, <2>2 DEF Alive, WorkerState
    <2>6. QED
      BY <2>1, <2>3, <2>4, <2>5
<1>4. QED
  BY <1>2, <1>3

\* One that fails has been carried out or not.
LEMMA UnreleasedCurrent ==
  ASSUME IInv, LatestIn(run, ActiveAttempt), ReleaseFails
  PROVE  /\ lease' \in [Slots -> {"none", "held", "released", "expired"}]
         /\ worker' \in [Slots -> WorkerState]
         /\ \A i \in Slots : i # Current => lease'[i] = lease[i] /\ worker'[i] = worker[i]
         /\ receipt' = receipt /\ ~receipt[Current].released
         /\ lease[Current] # "none" => lease'[Current] # "none"
         /\ worker'[Current] \in Alive => lease'[Current] = "held"
         /\ faults' \in Nat
<1>1. Current \in Slots /\ SlotOK(Current) /\ TypeOK
  BY InFlight DEF IInv
<1>2. CASE UNCHANGED kernel
  BY <1>1, <1>2 DEF ReleaseFails, Fault, kernel, TypeOK, SlotOK
<1>3. CASE Freed(Current, "released")
  BY <1>1, <1>3 DEF ReleaseFails, Fault, Freed, TypeOK, SlotOK, Alive, WorkerState
<1>4. QED
  BY <1>2, <1>3 DEF ReleaseFails

LEMMA SubmitKeeps ==
  ASSUME IInv, Submit
  PROVE  IInv'
<1>1. LatestIn(run, ActiveAttempt) /\ Fresh(Current) /\ Current \in Slots /\ SlotOK(Current)
  BY InFlight DEF Submit, At, IInv, TickOK
<1>2. TypeOK' /\ Others
  BY <1>1 DEF Submit, Fault, SessionBecomes, Others, IInv, TypeOK, SessionStatus, kernel
<1>3. SlotOK(Current)'
  BY <1>1 DEF Submit, SessionBecomes, Fresh, NoReceipt, SlotOK, IInv, TypeOK, kernel, Current, Alive
<1>4. TickOK'
  BY <1>1 DEF Submit, At, SessionBecomes, Fresh, NoReceipt, TickOK, IInv, TypeOK, kernel, Current
<1>5. QED
  BY <1>1, <1>2, <1>3, <1>4, TickStep DEF Submit, kernel

LEMMA AcquireKeeps ==
  ASSUME IInv, Acquire
  PROVE  IInv'
<1>1. LatestIn(run, ActiveAttempt) /\ Fresh(Current) /\ Current \in Slots /\ SlotOK(Current)
  BY InFlight DEF Acquire, At, IInv, TickOK
<1>2. TypeOK' /\ Others
  BY <1>1 DEF Acquire, Fault, SessionBecomes, Others, IInv, TypeOK, SessionStatus
<1>3. SlotOK(Current)'
  BY <1>1 DEF Acquire, SessionBecomes, Fresh, NoReceipt, SlotOK, IInv, TypeOK, Current, Alive
<1>4. TickOK'
  BY <1>1 DEF Acquire, At, SessionBecomes, Fresh, NoReceipt, TickOK, IInv, TypeOK, Current
<1>5. QED
  BY <1>1, <1>2, <1>3, <1>4, TickStep DEF Acquire

LEMMA StartWorkerKeeps ==
  ASSUME IInv, StartWorker
  PROVE  IInv'
<1>1. /\ LatestIn(run, ActiveAttempt) /\ Current \in Slots /\ SlotOK(Current)
      /\ receipt[Current] = NoReceipt /\ session[Current] = "none"
      /\ lease[Current] \in {"held", "expired"} /\ worker[Current] = "none"
  BY InFlight DEF StartWorker, At, IInv, TickOK
<1>2. TypeOK' /\ Others
    <2>1. UNCHANGED <<run, recorded, up, lease, crashes>> /\ pc' \in {"observe", "undoStart"}
      BY DEF StartWorker
    <2>2. /\ session' \in [Slots -> SessionStatus] /\ worker' \in [Slots -> WorkerState]
          /\ faults' \in Nat
        <3>1. /\ session' = session \/ session' = [session EXCEPT ![Current] = "running"]
              /\ worker' = worker \/ worker' = [worker EXCEPT ![Current] = "running"]
              /\ faults' = faults \/ faults' = faults + 1
          BY DEF StartWorker, Fault, SessionBecomes
        <3>2. /\ session \in [Slots -> SessionStatus] /\ worker \in [Slots -> WorkerState]
              /\ faults \in Nat
          BY DEF IInv, TypeOK, SessionStatus, WorkerState
        <3>3. QED
          BY <3>1, <3>2 DEF SessionStatus, WorkerState
    <2>3. receipt' \in [Slots -> [operation : BOOLEAN, released : BOOLEAN, renewalFailed : BOOLEAN]]
      <3>1. receipt' = receipt \/ receipt' = [receipt EXCEPT ![Current].operation = TRUE]
        BY DEF StartWorker
      <3>2. receipt \in [Slots -> [operation : BOOLEAN, released : BOOLEAN, renewalFailed : BOOLEAN]]
        BY DEF IInv, TypeOK
      <3>3. QED
        BY <3>1, <3>2
    <2>4. Others
      BY <1>1 DEF StartWorker, SessionBecomes, Others, IInv, TypeOK
    <2>5. QED
      BY <2>1, <2>2, <2>3, <2>4 DEF IInv, TypeOK
<1>3. SlotOK(Current)'
  BY <1>1 DEF StartWorker, SessionBecomes, NoReceipt, SlotOK, IInv, TypeOK, Current, Alive
<1>4. TickOK'
  BY <1>1 DEF StartWorker, At, SessionBecomes, NoReceipt, TickOK, IInv, TypeOK, Current
<1>5. QED
  BY <1>1, <1>2, <1>3, <1>4, TickStep DEF StartWorker, NoReceipt

LEMMA UndoStartKeeps ==
  ASSUME IInv, UndoStart
  PROVE  IInv'
<1>1. /\ LatestIn(run, ActiveAttempt) /\ Current \in Slots /\ SlotOK(Current)
      /\ receipt[Current] = NoReceipt /\ session[Current] = "none"
      /\ lease[Current] \in {"held", "expired"}
  BY InFlight DEF UndoStart, At, IInv, TickOK
<1>2. ASSUME ReleaseConfirmed, SessionBecomes("failed")
      PROVE  TypeOK' /\ Others /\ SlotOK(Current)' /\ TickOK'
    <2>1. TypeOK' /\ Others
      BY <1>1, <1>2, ReleasedCurrent DEF UndoStart, SessionBecomes, Others, IInv, TypeOK, SessionStatus
    <2>2. SlotOK(Current)'
      BY <1>1, <1>2, ReleasedCurrent
      DEF UndoStart, SessionBecomes, NoReceipt, SlotOK, IInv, TypeOK, Current
    <2>3. TickOK'
      BY <1>1, <1>2 DEF UndoStart, At, SessionBecomes, TickOK, IInv, TypeOK, Current
    <2>4. QED
      BY <2>1, <2>2, <2>3
<1>3. ASSUME ReleaseFails, SessionBecomes("awaiting_retry")
      PROVE  TypeOK' /\ Others /\ SlotOK(Current)' /\ TickOK'
    <2>1. TypeOK' /\ Others
      BY <1>1, <1>3, UnreleasedCurrent DEF UndoStart, SessionBecomes, Others, IInv, TypeOK, SessionStatus
    <2>2. SlotOK(Current)'
      BY <1>1, <1>3, UnreleasedCurrent
      DEF UndoStart, SessionBecomes, NoReceipt, SlotOK, IInv, TypeOK, Current
    <2>3. TickOK'
      BY <1>1, <1>3, UnreleasedCurrent
      DEF UndoStart, At, SessionBecomes, NoReceipt, TickOK, IInv, TypeOK, Current
    <2>4. QED
      BY <2>1, <2>2, <2>3
<1>4. QED
  BY <1>1, <1>2, <1>3, TickStep DEF UndoStart, NoReceipt

LEMMA PollKeeps ==
  ASSUME IInv, Poll
  PROVE  IInv'
<1>1. /\ LatestIn(run, ActiveAttempt) /\ Current \in Slots /\ SlotOK(Current)
      /\ session[Current] = "running" /\ receipt[Current].operation /\ up /\ pc = "idle"
      /\ lease[Current] # "none"
  BY InFlight DEF Poll, WaitsOnLatest, At, IInv, SlotOK
<1>2. ASSUME ReleaseConfirmed, pc' = "observe",
             SessionBecomes("failed") \/ (worker[Current] = "ok" /\ SessionBecomes("completed"))
      PROVE  TypeOK' /\ Others /\ SlotOK(Current)' /\ TickOK' /\ receipt'[Current].operation
    <2>1. TypeOK' /\ Others
      BY <1>1, <1>2, ReleasedCurrent DEF Poll, SessionBecomes, Others, IInv, TypeOK, SessionStatus
    <2>2. SlotOK(Current)'
        <3>1. /\ receipt'[Current].released /\ receipt'[Current].operation
              /\ lease'[Current] \in {"released", "expired"} /\ worker'[Current] \notin Alive
              /\ worker[Current] = "ok" => worker'[Current] = "ok"
          BY <1>1, <1>2, ReleasedCurrent
        <3>2. session'[Current] = "failed" \/ (worker[Current] = "ok" /\ session'[Current] = "completed")
          BY <1>1, <1>2 DEF SessionBecomes, IInv, TypeOK
        <3>3. run' = run
          BY DEF Poll
        <3>4. QED
          BY <3>1, <3>2, <3>3 DEF SlotOK, Current
    <2>3. TickOK'
      BY <1>1, <1>2 DEF Poll, SessionBecomes, TickOK, IInv, TypeOK, Current
    <2>4. QED
      BY <1>1, <1>2, <2>1, <2>2, <2>3, ReleasedCurrent
<1>3. ASSUME ReleaseFails, UNCHANGED <<session, pc>>
      PROVE  TypeOK' /\ Others /\ SlotOK(Current)' /\ TickOK' /\ receipt'[Current].operation
    <2>1. TypeOK' /\ Others
      BY <1>1, <1>3, UnreleasedCurrent DEF Poll, Others, IInv, TypeOK
    <2>2. SlotOK(Current)'
      BY <1>1, <1>3, UnreleasedCurrent DEF Poll, SlotOK, IInv, Current
    <2>3. TickOK'
      BY <1>1, <1>3 DEF TickOK
    <2>4. QED
      BY <1>1, <1>3, <2>1, <2>2, <2>3, UnreleasedCurrent
<1>4. QED
  BY <1>1, <1>2, <1>3, TickStep DEF Poll

LEMMA CancelExecutionKeeps ==
  ASSUME IInv, CancelExecution
  PROVE  IInv'
<1>1. /\ LatestIn(run, ActiveAttempt) /\ Current \in Slots /\ SlotOK(Current)
      /\ receipt[Current].operation /\ up /\ lease[Current] # "none"
  BY InFlight DEF CancelExecution, CancelsLatest, At, IInv, SlotOK
<1>2. ASSUME ReleaseConfirmed, SessionBecomes("cancelled")
      PROVE  TypeOK' /\ Others /\ SlotOK(Current)' /\ TickOK' /\ receipt'[Current].operation
    <2>1. TypeOK' /\ Others
      BY <1>1, <1>2, ReleasedCurrent
      DEF CancelExecution, SessionBecomes, Others, IInv, TypeOK, SessionStatus
    <2>2. SlotOK(Current)'
      BY <1>1, <1>2, ReleasedCurrent DEF CancelExecution, SessionBecomes, SlotOK, IInv, TypeOK, Current
    <2>3. TickOK'
      BY <1>1, <1>2 DEF CancelExecution, SessionBecomes, TickOK, IInv, TypeOK, Current
    <2>4. QED
      BY <1>1, <1>2, <2>1, <2>2, <2>3, ReleasedCurrent
<1>3. ASSUME ReleaseFails, SessionBecomes("awaiting_retry")
      PROVE  TypeOK' /\ Others /\ SlotOK(Current)' /\ TickOK' /\ receipt'[Current].operation
    <2>1. TypeOK' /\ Others
      BY <1>1, <1>3, UnreleasedCurrent
      DEF CancelExecution, SessionBecomes, Others, IInv, TypeOK, SessionStatus
    <2>2. SlotOK(Current)'
      BY <1>1, <1>3, UnreleasedCurrent
      DEF CancelExecution, SessionBecomes, SlotOK, IInv, TypeOK, Current
    <2>3. TickOK'
      BY <1>1, <1>3 DEF CancelExecution, SessionBecomes, TickOK, IInv, TypeOK, Current
    <2>4. QED
      BY <1>1, <1>3, <2>1, <2>2, <2>3, UnreleasedCurrent
<1>4. QED
  BY <1>1, <1>2, <1>3, TickStep DEF CancelExecution

-----------------------------------------------------------------------------
(* Steps of the Kernel and of the workers, beside the tick. *)

\* A lease may run out, a worker may end or stall, a renewal may fail; nothing
\* begins.
Declines(i) ==
  /\ receipt'[i].operation = receipt[i].operation /\ receipt'[i].released = receipt[i].released
  /\ receipt'[i] = receipt[i] \/ receipt[i].operation
  /\ lease'[i] = lease[i] \/ (lease[i] = "held" /\ lease'[i] = "expired")
  /\ worker'[i] = worker[i] \/ worker[i] \in Alive
  /\ worker'[i] \in Alive => worker[i] \in Alive /\ lease'[i] = "held"

LEMMA KernelStep ==
  ASSUME IInv, UNCHANGED <<run, recorded, up, pc, session>>, TypeOK', \A i \in Slots : Declines(i)
  PROVE  IInv'
<1>1. /\ Current' = Current /\ HistoryInv(run)' /\ (Current <= MaxHistory)'
      /\ DOMAIN run.attempts = 1..Current /\ \A i \in 1..Current : i \in Slots
  BY CurrentAttempt DEF Current, HistoryInv
<1>2. \A i \in Slots : SlotOK(i)' /\ ((i > Current)' => Fresh(i)')
    <2> SUFFICES ASSUME NEW i \in Slots
                 PROVE  SlotOK(i)' /\ ((i > Current)' => Fresh(i)')
      OBVIOUS
    <2>1. SlotOK(i) /\ Declines(i) /\ (i > Current => Fresh(i))
      BY DEF IInv
    <2>2. SlotOK(i)'
      BY <2>1 DEF SlotOK, Declines, Alive
    <2>3. Fresh(i) => Fresh(i)'
      BY <2>1 DEF Fresh, Declines, NoReceipt, Alive
    <2>4. QED
      BY <1>1, <2>1, <2>2, <2>3
<1>3. pc # "idle" => Current \in Slots
  BY InFlight DEF IInv, TickOK
<1>4. TickOK'
    <2>1. CASE pc = "idle"
      BY <2>1 DEF TickOK
    <2>2. CASE pc # "idle"
      <3>1. Current \in Slots /\ Declines(Current) /\ TickOK
        BY <1>3, <2>2 DEF IInv
      <3>2. Fresh(Current) => Fresh(Current)'
        BY <1>1, <3>1 DEF Fresh, Declines, NoReceipt, Alive
      <3>3. QED
        BY <1>1, <3>1, <3>2 DEF TickOK, Declines, NoReceipt, Alive, LatestIn, Latest
    <2>3. QED
      BY <2>1, <2>2
<1>5. (LatestIn(run, {"running"}) => Current \in recorded /\ receipt[Current].operation)'
    <2>1. LatestIn(run, {"running"}) => Current \in Slots
      BY CurrentAttempt
    <2>2. QED
      BY <1>1, <2>1 DEF IInv, LatestIn, Latest, Declines
<1>6. SuccessIsCleanedUp'
  BY <1>1 DEF IInv, SuccessIsCleanedUp, StatusOf, Declines, Alive
<1>7. ConfirmedCleanupIsReal'
  BY <1>1 DEF IInv, ConfirmedCleanupIsReal, StatusOf, Declines, Alive
<1>8. OnlyTheCurrentLeaseIsKept'
  BY <1>1 DEF IInv, OnlyTheCurrentLeaseIsKept, Ended, StatusOf, Declines
<1>9. OrphansComeFromLostStarts'
  BY <1>1 DEF IInv, OrphansComeFromLostStarts, Ended, StatusOf, Declines
<1>10. QED
  BY <1>1, <1>2, <1>4, <1>5, <1>6, <1>7, <1>8, <1>9 DEF IInv

LEMMA LeaseExpiresKeeps ==
  ASSUME IInv, NEW i \in Slots, LeaseExpires(i)
  PROVE  IInv'
<1>1. TypeOK'
  BY DEF LeaseExpires, Freed, IInv, TypeOK, WorkerState
<1>2. \A j \in Slots : Declines(j)
  BY DEF LeaseExpires, Freed, Declines, IInv, TypeOK, SlotOK, Alive
<1>3. QED
  BY <1>1, <1>2, KernelStep DEF LeaseExpires

LEMMA RenewalFailsKeeps ==
  ASSUME IInv, NEW i \in Slots, RenewalFails(i)
  PROVE  IInv'
<1>1. receipt' = [receipt EXCEPT ![i].renewalFailed = TRUE] /\ receipt[i].operation
  BY DEF RenewalFails, Renewed
<1>2. TypeOK'
    <2>1. /\ faults' \in Nat
          /\ UNCHANGED <<run, recorded, up, pc, session, lease, worker, crashes>>
      BY DEF RenewalFails, Fault, IInv, TypeOK
    <2>2. receipt' \in [Slots -> [operation : BOOLEAN, released : BOOLEAN, renewalFailed : BOOLEAN]]
      BY <1>1 DEF IInv, TypeOK
    <2>3. QED
      BY <2>1, <2>2 DEF IInv, TypeOK
<1>3. \A j \in Slots : Declines(j)
  BY <1>1 DEF RenewalFails, Declines, IInv, TypeOK, SlotOK
<1>4. QED
  BY <1>2, <1>3, KernelStep DEF RenewalFails

LEMMA WorkerKeeps ==
  ASSUME IInv, NEW i \in Slots, WorkerEnds(i) \/ WorkerStalls(i)
  PROVE  IInv'
<1>1. PICK state \in {"ok", "error", "dead", "hung"} :
        worker[i] \in Alive /\ worker' = [worker EXCEPT ![i] = state]
  BY DEF WorkerEnds, WorkerStalls, Alive
<1>2. /\ UNCHANGED <<run, recorded, receipt, up, pc, session, lease, crashes>>
      /\ faults' \in Nat
  BY DEF WorkerEnds, WorkerStalls, Fault, IInv, TypeOK
<1>3. TypeOK'
  BY <1>1, <1>2 DEF IInv, TypeOK, WorkerState
<1>4. \A j \in Slots : Declines(j)
  BY <1>1, <1>2 DEF Declines, IInv, TypeOK, SlotOK, Alive
<1>5. QED
  BY <1>2, <1>3, <1>4, KernelStep

LEMMA CrashKeeps ==
  ASSUME IInv, Crash
  PROVE  IInv'
<1>1. /\ Current' = Current /\ HistoryInv(run)' /\ (Current <= MaxHistory)'
      /\ UNCHANGED <<run, recorded, receipt, lease, worker, faults>>
      /\ up' = FALSE /\ pc' = "idle" /\ session' = [i \in Slots |-> "none"]
  BY CurrentAttempt DEF Crash, kernel, Current, HistoryInv
<1>2. TypeOK'
    <2>1. session' \in [Slots -> SessionStatus]
      BY <1>1 DEF SessionStatus
    <2>2. crashes' \in Nat
      BY DEF Crash, IInv, TypeOK
    <2>3. QED
      BY <1>1, <2>1, <2>2 DEF IInv, TypeOK
<1>3. \A i \in Slots : SlotOK(i)' /\ ((i > Current)' => Fresh(i)')
  BY <1>1 DEF IInv, SlotOK, Fresh
<1>4. TickOK' /\ (LatestIn(run, {"running"}) => Current \in recorded /\ receipt[Current].operation)'
  BY <1>1 DEF IInv, TickOK, LatestIn, Latest
<1>5. SuccessIsCleanedUp' /\ ConfirmedCleanupIsReal'
  BY <1>1 DEF IInv, SuccessIsCleanedUp, ConfirmedCleanupIsReal, StatusOf
<1>6. OnlyTheCurrentLeaseIsKept' /\ OrphansComeFromLostStarts'
  BY <1>1 DEF IInv, OnlyTheCurrentLeaseIsKept, OrphansComeFromLostStarts, Ended, StatusOf
<1>7. QED
  BY <1>1, <1>2, <1>3, <1>4, <1>5, <1>6 DEF IInv

LEMMA RestartKeeps ==
  ASSUME IInv, Restart
  PROVE  IInv'
<1>1. /\ Current' = Current /\ HistoryInv(run)' /\ (Current <= MaxHistory)'
      /\ UNCHANGED <<run, recorded, receipt, pc, lease, worker, faults, crashes>>
      /\ up' = TRUE /\ session' = [i \in Slots |-> IF receipt[i].operation THEN "running" ELSE "none"]
  BY CurrentAttempt DEF Restart, kernel, Current, HistoryInv
<1>2. TypeOK'
  BY <1>1 DEF IInv, TypeOK, SessionStatus
<1>3. \A i \in Slots : SlotOK(i)' /\ ((i > Current)' => Fresh(i)')
  BY <1>1 DEF IInv, SlotOK, Fresh, NoReceipt
<1>4. pc = "idle"
  BY DEF Restart, IInv, TickOK
<1>5. TickOK' /\ (LatestIn(run, {"running"}) => Current \in recorded /\ receipt[Current].operation)'
  BY <1>1, <1>4 DEF IInv, TickOK, LatestIn, Latest
<1>6. SuccessIsCleanedUp' /\ ConfirmedCleanupIsReal'
  BY <1>1 DEF IInv, SuccessIsCleanedUp, ConfirmedCleanupIsReal, StatusOf
<1>7. OnlyTheCurrentLeaseIsKept' /\ OrphansComeFromLostStarts'
  BY <1>1 DEF IInv, OnlyTheCurrentLeaseIsKept, OrphansComeFromLostStarts, Ended, StatusOf
<1>8. QED
  BY <1>1, <1>2, <1>3, <1>5, <1>6, <1>7 DEF IInv

-----------------------------------------------------------------------------
(* Steps that write the run. *)

\* What a write of the run leaves alone.
RunFrame == UNCHANGED <<receipt, up, session, lease, worker, faults, crashes>>

\* The Attempts stay: a verdict, or a request to cancel.
LEMMA VerdictStep ==
  ASSUME IInv, RunFrame, recorded' = recorded, run'.attempts = run.attempts, HistoryInv(run'),
         pc' = "idle" \/ (pc' = "quarantine" /\ up /\ LatestIn(run, ActiveAttempt))
  PROVE  IInv'
<1>1. /\ Current' = Current /\ HistoryInv(run)' /\ (Current <= MaxHistory)'
      /\ \A S : LatestIn(run, S)' <=> LatestIn(run, S)
      /\ \A i : Ended(i)' <=> Ended(i)
  BY DEF Current, IInv, HistoryInv, LatestIn, Latest, Ended, StatusOf
<1>2. TypeOK'
  BY <1>1 DEF RunFrame, IInv, TypeOK, HistoryInv
<1>3. \A i \in Slots : SlotOK(i)' /\ ((i > Current)' => Fresh(i)')
  BY <1>1 DEF RunFrame, IInv, SlotOK, Fresh
<1>4. TickOK' /\ (LatestIn(run, {"running"}) => Current \in recorded /\ receipt[Current].operation)'
  BY <1>1 DEF RunFrame, IInv, TickOK
<1>5. SuccessIsCleanedUp' /\ ConfirmedCleanupIsReal'
  BY <1>1 DEF RunFrame, IInv, SuccessIsCleanedUp, ConfirmedCleanupIsReal, StatusOf
<1>6. OnlyTheCurrentLeaseIsKept' /\ OrphansComeFromLostStarts'
  BY <1>1 DEF RunFrame, IInv, OnlyTheCurrentLeaseIsKept, OrphansComeFromLostStarts, StatusOf
<1>7. QED
  BY <1>1, <1>2, <1>3, <1>4, <1>5, <1>6 DEF IInv

\* A new Attempt after one that has ended.
LEMMA AppendStep ==
  ASSUME IInv, RunFrame, recorded' = recorded, up, pc' = "execute", Current < MaxHistory,
         NEW s \in Steps, run'.attempts = Append(run.attempts, NewAttempt(s)),
         HistoryInv(run'), ~LatestIn(run, ActiveAttempt)
  PROVE  IInv'
<1>1. /\ Current' = Current + 1 /\ Current + 1 \in Slots /\ Current \in Nat
      /\ DOMAIN run.attempts = 1..Current /\ DOMAIN run'.attempts = 1..(Current + 1)
      /\ \A i \in 1..Current : run'.attempts[i] = run.attempts[i] /\ i \in Slots
      /\ run'.attempts[Current + 1] = NewAttempt(s) /\ (Current <= MaxHistory)'
  BY CurrentAttempt, ControlAssumption DEF Current, Slots, Runs
<1>2. LatestIn(run, ActiveAttempt)' /\ ~LatestIn(run, {"running"})' /\ run'.attempts # << >>
  BY <1>1 DEF LatestIn, Latest, Current, NewAttempt, ActiveAttempt
<1>3. \A i \in Slots : i \in 1..Current => (Ended(i)' <=> Ended(i))
  BY <1>1 DEF Ended, StatusOf
<1>4. \A i \in Slots : i = Current + 1 => ~Ended(i)'
  BY <1>1 DEF Ended, StatusOf, NewAttempt, TerminalAttempt
<1>5. TypeOK'
  BY DEF RunFrame, IInv, TypeOK, HistoryInv
<1>6. \A i \in Slots : SlotOK(i)' /\ ((i > Current)' => Fresh(i)')
    <2>1. \A i \in Slots : SlotOK(i)' /\ (i > Current => Fresh(i)')
      BY DEF RunFrame, IInv, SlotOK, Fresh
    <2>2. \A i \in Slots : (i > Current)' => i > Current
      BY <1>1 DEF Slots
    <2>3. QED
      BY <2>1, <2>2
<1>7. Fresh(Current + 1)
  BY <1>1 DEF IInv
<1>8. Fresh(Current)'
  BY <1>1, <1>7 DEF Fresh, RunFrame
<1>9. TickOK'
  BY <1>2, <1>8 DEF TickOK, RunFrame
<1>10. SuccessIsCleanedUp' /\ ConfirmedCleanupIsReal'
  BY <1>1 DEF RunFrame, IInv, SuccessIsCleanedUp, ConfirmedCleanupIsReal, StatusOf, NewAttempt
<1>11. OnlyTheCurrentLeaseIsKept'
    <2>1. \A i \in Slots : ~(receipt[i].operation /\ ~receipt[i].released)
      <3>1. Current \in Slots => Ended(Current)
        BY <1>1, CurrentAttempt DEF Ended, LatestIn, AttemptStatus, Attempts, StatusOf, Slots
      <3>2. QED
        BY <3>1 DEF IInv, OnlyTheCurrentLeaseIsKept
    <2>2. QED
      BY <2>1 DEF OnlyTheCurrentLeaseIsKept, RunFrame
<1>12. OrphansComeFromLostStarts'
    <2> SUFFICES ASSUME NEW i \in 1..(Current + 1), Ended(i)', worker'[i] \in Alive
                 PROVE  (StatusOf(i) = "lost")' /\ ~receipt'[i].operation
      BY <1>1 DEF OrphansComeFromLostStarts
    <2>1. i \in 1..Current /\ i \in Slots
      BY <1>1, <1>4
    <2>2. Ended(i) /\ worker[i] \in Alive
      BY <1>3, <2>1 DEF RunFrame
    <2>3. QED
      BY <1>1, <2>1, <2>2 DEF RunFrame, IInv, OrphansComeFromLostStarts, StatusOf
<1>13. QED
  BY <1>1, <1>2, <1>5, <1>6, <1>9, <1>10, <1>11, <1>12 DEF IInv

\* What has to be true of the Attempt in flight when it is observed.
MayRecord(status, cleanup) ==
  /\ status = "running" => Current \in recorded' /\ receipt[Current].operation
  /\ status = "succeeded" /\ Latest(run).step > 1
       => worker[Current] = "ok" /\ lease[Current] \in {"released", "expired"}
  /\ status = "cancelled" /\ cleanup
       => worker[Current] \notin Alive /\ lease[Current] # "held"
  /\ status \in TerminalAttempt =>
       /\ receipt[Current].operation => receipt[Current].released
       /\ worker[Current] \in Alive => status = "lost" /\ ~receipt[Current].operation

\* The Attempt in flight is observed.
LEMMA WriteStep ==
  ASSUME IInv, RunFrame, recorded' = recorded \/ recorded' = recorded \cup {Current},
         pc' = "idle", LatestIn(run, ActiveAttempt),
         NEW status \in AttemptStatus, NEW cleanup \in BOOLEAN,
         MayRecord(status, cleanup), Write(status, cleanup)
  PROVE  IInv' /\ LegalUpdate(run, run')
<1>1. /\ Current \in Slots /\ Current \in DOMAIN run.attempts /\ Current \in Nat
      /\ run \in Runs /\ HistoryInv(run) /\ Observable(run, Current, status)
      /\ DOMAIN run.attempts = 1..Current /\ \A i \in 1..Current : i \in Slots
  BY InFlight, CurrentAttempt DEF Observable, StatusOf
<1>2. LegalUpdate(run, run') /\ HistoryInv(run')
  BY <1>1, LegalKeeps DEF LegalUpdate, Write
<1> DEFINE a == [step |-> run.attempts[Current].step, status |-> status, cleanup |-> cleanup]
<1>3. run'.attempts = [run.attempts EXCEPT ![Current] = a]
  BY <1>1 DEF Write, ObserveAttempt, Runs
<1>4. /\ Current' = Current /\ (Current <= MaxHistory)' /\ DOMAIN run'.attempts = 1..Current
      /\ run'.attempts[Current].step = Latest(run).step
      /\ run'.attempts[Current].status = status /\ run'.attempts[Current].cleanup = cleanup
      /\ \A i \in 1..Current : i # Current => run'.attempts[i] = run.attempts[i]
  BY <1>1, <1>3 DEF Current, IInv, Runs, Latest
<1>5. /\ \A S : LatestIn(run, S)' => status \in S
      /\ \A i \in 1..Current : i # Current => (Ended(i)' <=> Ended(i))
      /\ Ended(Current)' <=> status \in TerminalAttempt
  BY <1>1, <1>4 DEF LatestIn, Latest, Current, Ended, StatusOf
<1>6. TypeOK'
  BY <1>1, <1>2 DEF RunFrame, IInv, TypeOK, HistoryInv
<1>7. \A i \in Slots : SlotOK(i)' /\ ((i > Current)' => Fresh(i)')
    <2>1. \A i \in Slots : i > Current => i # Current
      BY <1>1
    <2>2. \A i \in Slots : SlotOK(i)' /\ (i > Current => Fresh(i)')
      BY <2>1 DEF RunFrame, IInv, SlotOK, Fresh
    <2>3. QED
      BY <1>4, <2>2
<1>8. TickOK'
  BY DEF TickOK
<1>9. (LatestIn(run, {"running"}) => Current \in recorded /\ receipt[Current].operation)'
    <2>1. LatestIn(run, {"running"})' => status = "running"
      BY <1>5
    <2>2. QED
      BY <1>4, <2>1 DEF MayRecord, RunFrame
<1>10. SuccessIsCleanedUp'
  BY <1>1, <1>4 DEF RunFrame, IInv, MayRecord, SuccessIsCleanedUp, StatusOf
<1>11. ConfirmedCleanupIsReal'
  BY <1>1, <1>4 DEF RunFrame, IInv, MayRecord, ConfirmedCleanupIsReal, StatusOf
<1>12. OnlyTheCurrentLeaseIsKept'
  BY <1>1, <1>4, <1>5 DEF RunFrame, IInv, MayRecord, OnlyTheCurrentLeaseIsKept
<1>13. OrphansComeFromLostStarts'
  BY <1>1, <1>4, <1>5 DEF RunFrame, IInv, MayRecord, OrphansComeFromLostStarts, StatusOf
<1>14. QED
  BY <1>2, <1>4, <1>6, <1>7, <1>8, <1>9, <1>10, <1>11, <1>12, <1>13 DEF IInv, HistoryInv

LEMMA ConcludeKeeps ==
  ASSUME IInv, Conclude
  PROVE  IInv' /\ LegalUpdate(run, run')
<1>1. PICK outcome \in TerminalRun : Finalizes(run, outcome) /\ run' = Finalize(run, outcome)
  BY DEF Conclude
<1>2. HistoryInv(run') /\ run'.attempts = run.attempts /\ LegalUpdate(run, run')
  BY <1>1, CurrentAttempt, FinalizeKeeps, FinalizeFields DEF LegalUpdate
<1>3. QED
  BY <1>2, VerdictStep DEF Conclude, At, RunFrame, kernel

LEMMA UserCancelKeeps ==
  ASSUME IInv, UserCancel
  PROVE  IInv' /\ LegalUpdate(run, run')
<1>1. HistoryInv(run') /\ run'.attempts = run.attempts /\ LegalUpdate(run, run')
  BY CurrentAttempt, CancelKeeps, CancelFields DEF UserCancel, LegalUpdate
<1>2. QED
  BY <1>1, VerdictStep DEF UserCancel, At, RunFrame, kernel

LEMMA QuarantineKeeps ==
  ASSUME IInv, Quarantine
  PROVE  IInv' /\ LegalUpdate(run, run')
<1>1. ~Terminal(run) /\ LatestIn(run, ActiveAttempt)
  BY DEF Quarantine, WaitsOnLatest, MayProceed
<1>2. HistoryInv(run') /\ run'.attempts = run.attempts /\ LegalUpdate(run, run')
  BY <1>1, CurrentAttempt, CancelKeeps, CancelFields DEF Quarantine, LegalUpdate
<1>3. QED
  BY <1>1, <1>2, VerdictStep DEF Quarantine, At, RunFrame, kernel

LEMMA StartNextKeeps ==
  ASSUME IInv, StartNext
  PROVE  IInv' /\ LegalUpdate(run, run')
<1>1. PICK s \in Steps : StartsStep(run, s) /\ run' = StartAttempt(run, s)
  BY DEF StartNext
<1>2. /\ HistoryInv(run') /\ ~LatestIn(run, ActiveAttempt) /\ LegalUpdate(run, run')
      /\ run'.attempts = Append(run.attempts, NewAttempt(s))
  BY <1>1, CurrentAttempt, StartKeeps, StartFields DEF LegalUpdate
<1>3. QED
  BY <1>2, AppendStep DEF StartNext, At, RunFrame, kernel

LEMMA UserResumeKeeps ==
  ASSUME IInv, UserResume
  PROVE  IInv' /\ LegalUpdate(run, run')
<1>1. StepCount \in Steps
  BY PlanAssumption DEF Steps
<1>2. /\ HistoryInv(run') /\ ~LatestIn(run, ActiveAttempt) /\ LegalUpdate(run, run')
      /\ run'.attempts = Append(run.attempts, NewAttempt(StepCount))
  BY <1>1, CurrentAttempt, ResumeKeeps, ResumeFields DEF UserResume, LegalUpdate
<1>3. QED
  BY <1>1, <1>2, AppendStep DEF UserResume, At, RunFrame, kernel

LEMMA PreflightKeeps ==
  ASSUME IInv, Preflight
  PROVE  IInv' /\ LegalUpdate(run, run')
<1>1. LatestIn(run, ActiveAttempt) /\ Fresh(Current)
  BY DEF Preflight, At, IInv, TickOK
<1>2. PICK status \in {"succeeded", "blocked"} : Write(status, FALSE)
  BY DEF Preflight
<1>3. MayRecord(status, FALSE) /\ status \in AttemptStatus
  BY <1>1 DEF Preflight, MayRecord, Fresh, NoReceipt, Alive, AttemptStatus, TerminalAttempt
<1>4. QED
  BY <1>1, <1>2, <1>3, WriteStep DEF Preflight, RunFrame, kernel

LEMMA ObserveSessionKeeps ==
  ASSUME IInv, ObserveSession
  PROVE  IInv' /\ LegalUpdate(run, run')
<1> DEFINE status == AttemptStatusOf(session[Current])
<1>1. /\ LatestIn(run, ActiveAttempt) /\ Current \in Slots /\ SlotOK(Current)
      /\ session[Current] \in {"running", "completed", "failed", "awaiting_retry"}
      /\ session[Current] = "awaiting_retry" => ~receipt[Current].operation
  BY InFlight DEF ObserveSession, At, IInv, TickOK
<1>2. /\ session[Current] = "running" => status = "running"
      /\ session[Current] = "completed" => status = "succeeded"
      /\ session[Current] = "failed" => status = "failed"
      /\ session[Current] = "awaiting_retry" => status = "lost"
  BY DEF AttemptStatusOf
<1>3. status \in AttemptStatus
  BY <1>1, <1>2 DEF AttemptStatus, ActiveAttempt, TerminalAttempt
<1>4. MayRecord(status, FALSE)
    <2>1. CASE session[Current] = "running"
      BY <1>1, <1>2, <2>1 DEF ObserveSession, MayRecord, SlotOK, TerminalAttempt
    <2>2. CASE session[Current] = "completed"
      <3>1. /\ worker[Current] = "ok" /\ receipt[Current].released
            /\ lease[Current] \in {"released", "expired"} /\ status = "succeeded"
        BY <1>1, <1>2, <2>2 DEF SlotOK
      <3> HIDE DEF status
      <3>2. QED
        BY <3>1 DEF MayRecord, Alive
    <2>3. CASE session[Current] = "failed"
      <3>1. /\ receipt[Current].operation => receipt[Current].released
            /\ worker[Current] \notin Alive /\ status = "failed"
        BY <1>1, <1>2, <2>3 DEF SlotOK
      <3> HIDE DEF status
      <3>2. QED
        BY <3>1 DEF MayRecord
    <2>4. CASE session[Current] = "awaiting_retry"
      <3>1. ~receipt[Current].operation /\ status = "lost"
        BY <1>1, <1>2, <2>4
      <3> HIDE DEF status
      <3>2. QED
        BY <3>1 DEF MayRecord
    <2>5. QED
      BY <1>1, <2>1, <2>2, <2>3, <2>4
<1>5. Write(status, FALSE)
  BY DEF ObserveSession
<1> HIDE DEF status
<1>6. QED
  BY <1>1, <1>3, <1>4, <1>5, WriteStep DEF ObserveSession, RunFrame, kernel

\* An unconfirmed cancellation is recorded of whatever is in flight.
LEMMA CancellingIsRecorded ==
  /\ MayRecord("cancelling", FALSE) /\ "cancelling" \in AttemptStatus
  BY DEF MayRecord, AttemptStatus, ActiveAttempt, TerminalAttempt

LEMMA RecordQuarantineKeeps ==
  ASSUME IInv, RecordQuarantine
  PROVE  IInv' /\ LegalUpdate(run, run')
<1>1. LatestIn(run, ActiveAttempt)
  BY DEF RecordQuarantine, At, IInv, TickOK
<1>2. QED
  BY <1>1, CancellingIsRecorded, WriteStep DEF RecordQuarantine, RunFrame, kernel

LEMMA CancelOutOfReachKeeps ==
  ASSUME IInv, CancelOutOfReach
  PROVE  IInv' /\ LegalUpdate(run, run')
<1>1. LatestIn(run, ActiveAttempt)
  BY DEF CancelOutOfReach, CancelsLatest
<1>2. QED
  BY <1>1, CancellingIsRecorded, WriteStep DEF CancelOutOfReach, At, RunFrame, kernel

LEMMA RecordCancelKeeps ==
  ASSUME IInv, RecordCancel
  PROVE  IInv' /\ LegalUpdate(run, run')
<1>1. LatestIn(run, ActiveAttempt) /\ Current \in Slots /\ SlotOK(Current)
  BY InFlight DEF RecordCancel, At, IInv, TickOK
<1>2. CASE session[Current] = "cancelled"
    <2>1. MayRecord("cancelled", TRUE) /\ "cancelled" \in AttemptStatus
      BY <1>1, <1>2 DEF MayRecord, SlotOK, Alive, AttemptStatus, TerminalAttempt
    <2>2. QED
      BY <1>1, <1>2, <2>1, WriteStep DEF RecordCancel, RunFrame, kernel
<1>3. CASE session[Current] # "cancelled"
  BY <1>1, <1>3, CancellingIsRecorded, WriteStep DEF RecordCancel, RunFrame, kernel
<1>4. QED
  BY <1>2, <1>3

-----------------------------------------------------------------------------
(* The theorems. *)

LEMMA InitIInv == Init => IInv
<1> SUFFICES ASSUME Init PROVE IInv
  OBVIOUS
<1>1. /\ HistoryInv(run) /\ run \in Runs /\ run.attempts = << >> /\ Current = 0
      /\ DOMAIN run.attempts = {}
  BY NewRunInv DEF Init, NewRun, HistoryInv, Current
<1>2. TypeOK
  BY <1>1 DEF Init, TypeOK, NoReceipt, SessionStatus, WorkerState
<1>3. \A i \in Slots : Fresh(i) /\ SlotOK(i)
  BY DEF Init, Fresh, SlotOK, NoReceipt, Alive
<1>4. TickOK /\ ~LatestIn(run, {"running"})
  BY <1>1 DEF Init, TickOK, LatestIn
<1>5. SuccessIsCleanedUp /\ ConfirmedCleanupIsReal /\ OrphansComeFromLostStarts
  BY <1>1 DEF SuccessIsCleanedUp, ConfirmedCleanupIsReal, OrphansComeFromLostStarts
<1>6. OnlyTheCurrentLeaseIsKept
  BY <1>3 DEF OnlyTheCurrentLeaseIsKept, Fresh, NoReceipt
<1>7. QED
  BY <1>1, <1>2, <1>3, <1>4, <1>5, <1>6, ControlAssumption DEF IInv

LEMMA NextKeeps ==
  ASSUME IInv, [Next]_vars
  PROVE  IInv' /\ (run' = run \/ LegalUpdate(run, run'))
<1>1. CASE Conclude \/ StartNext \/ Preflight \/ ObserveSession \/ Quarantine \/ RecordQuarantine
  BY <1>1, ConcludeKeeps, StartNextKeeps, PreflightKeeps, ObserveSessionKeeps, QuarantineKeeps,
     RecordQuarantineKeeps
<1>2. CASE RecordCancel \/ CancelOutOfReach \/ UserCancel \/ UserResume
  BY <1>2, RecordCancelKeeps, CancelOutOfReachKeeps, UserCancelKeeps, UserResumeKeeps
<1>3. CASE Submit \/ Acquire \/ StartWorker \/ UndoStart
  BY <1>3, SubmitKeeps, AcquireKeeps, StartWorkerKeeps, UndoStartKeeps
  DEF Submit, Acquire, StartWorker, UndoStart
<1>4. CASE Poll \/ CancelExecution \/ Crash \/ Restart
  BY <1>4, PollKeeps, CancelExecutionKeeps, CrashKeeps, RestartKeeps
  DEF Poll, CancelExecution, Crash, Restart
<1>5. ASSUME NEW i \in Slots, LeaseExpires(i) \/ RenewalFails(i) \/ WorkerEnds(i) \/ WorkerStalls(i)
      PROVE  IInv' /\ run' = run
  BY <1>5, LeaseExpiresKeeps, RenewalFailsKeeps, WorkerKeeps
  DEF LeaseExpires, RenewalFails, WorkerEnds, WorkerStalls
<1>6. CASE UNCHANGED vars
    <2>1. UNCHANGED <<run, recorded, receipt, up, pc, session, lease, worker>> /\ TypeOK'
      BY <1>6 DEF vars, IInv, TypeOK
    <2>2. \A i \in Slots : Declines(i)
      BY <2>1 DEF Declines, IInv, SlotOK
    <2>3. QED
      BY <2>1, <2>2, KernelStep
<1>7. QED
  BY <1>1, <1>2, <1>3, <1>4, <1>5, <1>6 DEF Next, Tick

\* The invariant the theorems below rest on.
THEOREM Invariance == Spec => []IInv
<1>1. IInv /\ [Next]_vars => IInv'
  BY NextKeeps
<1>2. QED
  BY InitIInv, <1>1, PTL DEF Spec

\* Documents, receipts, sessions, leases and workers keep their types.
THEOREM TypeCorrect == Spec => []TypeOK
  BY Invariance, PTL DEF IInv

\* No training is recorded as a success with its lease still held, wherever the
\* process crashed between the release and the record.
THEOREM SuccessesAreCleanedUp == Spec => []SuccessIsCleanedUp
  BY Invariance, PTL DEF IInv

\* A confirmed cancellation has left no worker and no lease.
THEOREM ConfirmedCleanupsAreReal == Spec => []ConfirmedCleanupIsReal
  BY Invariance, PTL DEF IInv

\* The renewal thread holds no lease of an Attempt that has ended.
THEOREM EndedLeasesAreLetGo == Spec => []OnlyTheCurrentLeaseIsKept
  BY Invariance, PTL DEF IInv

\* A worker that outlives its Attempt comes of a start that was LOST.
THEOREM OrphansAreLost == Spec => []OrphansComeFromLostStarts
  BY Invariance, PTL DEF IInv

\* After any restart a running Attempt of the record can be polled and cancelled.
THEOREM RunningIsReachable == Spec => []RecordedExecutionIsReachable
<1>1. IInv => RecordedExecutionIsReachable
    <2> SUFFICES ASSUME IInv, up, LatestIn(run, {"running"}) PROVE InReach
      BY DEF RecordedExecutionIsReachable
    <2>1. Current \in Slots
      BY CurrentAttempt
    <2>2. QED
      BY <2>1 DEF IInv, SlotOK, InReach
<1>2. QED
  BY <1>1, Invariance, PTL

\* Every write of the control plane is one that the lifecycle allows on the
\* document it replaces, at every interleaving with crashes.
THEOREM WritesStayLegal == Spec => WritesAreLegal
<1>1. IInv /\ [Next]_vars => [LegalUpdate(run, run')]_run
  BY NextKeeps
<1>2. QED
  BY Invariance, <1>1, PTL DEF Spec, WritesAreLegal

\* A legal write is a step of the contract, which is ContractMove with its own names.
LEMMA ContractStep ==
  ASSUME HistoryInv(run), LegalUpdate(run, run')
  PROVE  Promise!ContractNext
<1>1. ContractMove(run, run')
  BY LegalMoves DEF HistoryInv
<1>2. QED
  BY <1>1 DEF ContractMove, Tried, Reopened, Reported, Withdrawn, Closed, Quiet, EndedAs,
              Promise!ContractNext, Promise!Try, Promise!Reopen, Promise!Report,
              Promise!Withdraw, Promise!Close, Promise!Earned, Promise!Quiet, Promise!EndedIn

\* The control plane, with its receipts, leases and workers and with all that can
\* crash and be lost between them, implements the contract of RunContract.
THEOREM ControlKeepsContract == Spec => KeepsContract
<1>1. Init => Promise!ContractInit
    <2> SUFFICES ASSUME Init PROVE Promise!ContractInit
      OBVIOUS
    <2>1. run.attempts = << >> /\ run.observed = "pending" /\ run.desired = "active"
          /\ run \in Runs
      BY NewRunInv DEF Init, NewRun, HistoryInv
    <2>2. QED
      BY <2>1, TriesType DEF Promise!ContractInit, OutcomeOf, Terminal, TerminalRun
<1>2. IInv /\ [Next]_vars => [Promise!ContractNext]_(Promise!contractVars)
    <2>1. IInv /\ [Next]_vars => LegalUpdate(run, run') \/ run' = run
      BY NextKeeps
    <2>2. IInv => HistoryInv(run)
      BY DEF IInv
    <2>3. run' = run => UNCHANGED Promise!contractVars
      BY DEF Promise!contractVars
    <2>4. QED
      BY <2>1, <2>2, <2>3, ContractStep
<1>3. QED
  BY Invariance, <1>1, <1>2, PTL DEF Spec, KeepsContract, Promise!Contract

=============================================================================
