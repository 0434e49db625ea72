---------------------------- MODULE RunRecordProofs ----------------------------
(***************************************************************************)
(* What the operations on a ProductRun document keep of it, for every plan *)
(* length and every retry budget.  The proofs of the modules with          *)
(* variables rest on these lemmas: HistoryInv is the part of their         *)
(* inductive invariants that is about the document alone.                  *)
(***************************************************************************)
EXTENDS RunRecord, FiniteSetTheorems, TLAPS

-----------------------------------------------------------------------------
(* The documents the operations write. *)

LEMMA StartFields ==
  ASSUME NEW r \in Runs, NEW s \in Steps
  PROVE  LET n == StartAttempt(r, s) IN
         /\ n \in Runs
         /\ n.attempts = Append(r.attempts, NewAttempt(s))
         /\ n.steps = [r.steps EXCEPT ![s] = "running"]
         /\ n.observed = "running"
         /\ n.desired = r.desired
  <1>1. NewAttempt(s) \in Attempts
    BY DEF NewAttempt, Attempts, AttemptStatus, ActiveAttempt
  <1>2. Append(r.attempts, NewAttempt(s)) \in Seq(Attempts)
    BY <1>1 DEF Runs
  <1>3. [r.steps EXCEPT ![s] = "running"] \in [Steps -> StepStatus]
    BY DEF Runs, StepStatus
  <1>4. QED
    BY <1>2, <1>3 DEF StartAttempt, Runs, PlanStatus

LEMMA ResumeFields ==
  ASSUME NEW r \in Runs, NEW s \in Steps
  PROVE  LET n == ResumeAttempt(r, s) IN
         /\ n \in Runs
         /\ n.attempts = Append(r.attempts, NewAttempt(s))
         /\ n.steps = [r.steps EXCEPT ![s] = "running"]
         /\ n.observed = "running"
         /\ n.desired = "active"
  <1> DEFINE m == StartAttempt(r, s)
  <1>1. /\ m \in Runs
        /\ m.attempts = Append(r.attempts, NewAttempt(s))
        /\ m.steps = [r.steps EXCEPT ![s] = "running"]
        /\ m.observed = "running"
    BY StartFields
  <1>2. ResumeAttempt(r, s) = [m EXCEPT !.desired = "active"]
    BY DEF ResumeAttempt
  <1> HIDE DEF m
  <1>3. QED
    BY <1>1, <1>2 DEF Runs, DesiredState

LEMMA PlanStatusType ==
  ASSUME NEW status \in AttemptStatus, NEW current \in PlanStatus
  PROVE  /\ PlanStatusAfter(status, current) \in PlanStatus
         /\ status \in RetryableAttempt => PlanStatusAfter(status, current) = "awaiting_retry"
         /\ status = "cancelling" => PlanStatusAfter(status, current) = "cancelling"
         /\ status = "cancelled" => PlanStatusAfter(status, current) = "cancel_requested"
         /\ status \notin RetryableAttempt \cup {"cancelling", "cancelled"}
              => PlanStatusAfter(status, current) = current
  BY DEF PlanStatusAfter, PlanStatus, RetryableAttempt, TerminalRun

LEMMA ObserveFields ==
  ASSUME NEW r \in Runs, NEW i \in DOMAIN r.attempts,
         NEW status \in AttemptStatus, NEW cleanup \in BOOLEAN
  PROVE  LET n == ObserveAttempt(r, i, status, cleanup)
             a == r.attempts[i]
         IN
         /\ n \in Runs
         /\ n.attempts = [r.attempts EXCEPT ![i] =
                             [step |-> a.step, status |-> status, cleanup |-> cleanup]]
         /\ n.steps = [r.steps EXCEPT ![a.step] = StepStatusFromAttempt(status)]
         /\ n.observed = PlanStatusAfter(status, r.observed)
         /\ n.desired = r.desired
  <1> DEFINE a == r.attempts[i]
             b == [step |-> a.step, status |-> status, cleanup |-> cleanup]
  <1>1. r.attempts \in Seq(Attempts) /\ a \in Attempts
    BY DEF Runs
  <1>2. b \in Attempts
    BY <1>1 DEF Attempts
  <1>3. [r.attempts EXCEPT ![i] = b] \in Seq(Attempts)
    BY <1>1, <1>2
  <1>4. StepStatusFromAttempt(status) \in StepStatus
    BY DEF StepStatusFromAttempt, AttemptStatus, ActiveAttempt, TerminalAttempt, StepStatus
  <1>5. [r.steps EXCEPT ![a.step] = StepStatusFromAttempt(status)] \in [Steps -> StepStatus]
    BY <1>1, <1>4 DEF Runs, Attempts
  <1>6. PlanStatusAfter(status, r.observed) \in PlanStatus
    BY PlanStatusType DEF Runs
  <1>7. ObserveAttempt(r, i, status, cleanup) =
          [r EXCEPT !.attempts = [r.attempts EXCEPT ![i] = b],
                    !.steps = [r.steps EXCEPT ![a.step] = StepStatusFromAttempt(status)],
                    !.observed = PlanStatusAfter(status, r.observed)]
    BY DEF ObserveAttempt, Runs
  <1> HIDE DEF a, b
  <1>8. QED
    BY <1>3, <1>5, <1>6, <1>7 DEF Runs, a, b

\* An observation leaves the wish alone.
LEMMA ObserveKeepsDesired ==
  ASSUME NEW r \in Runs, NEW i, NEW status, NEW cleanup
  PROVE  ObserveAttempt(r, i, status, cleanup).desired = r.desired
  BY DEF ObserveAttempt, Runs

LEMMA CancelFields ==
  ASSUME NEW r \in Runs
  PROVE  LET n == RequestCancel(r) IN
         /\ n \in Runs
         /\ n.attempts = r.attempts /\ n.steps = r.steps
         /\ n.observed = "cancel_requested" /\ n.desired = "cancelled"
  BY DEF RequestCancel, Runs, DesiredState, PlanStatus

LEMMA FinalizeFields ==
  ASSUME NEW r \in Runs, NEW outcome \in TerminalRun
  PROVE  LET n == Finalize(r, outcome) IN
         /\ n \in Runs
         /\ n.attempts = r.attempts /\ n.steps = r.steps
         /\ n.observed = outcome /\ n.desired = r.desired
  BY DEF Finalize, Runs, PlanStatus

-----------------------------------------------------------------------------
(* Every operation keeps the history in order. *)

LEMMA NewRunInv == HistoryInv(NewRun)
  <1>1. NewRun \in Runs
    BY DEF NewRun, Runs, DesiredState, PlanStatus, StepStatus
  <1>2. NewRun.attempts = << >> /\ NewRun.observed = "pending"
        /\ \A s \in Steps : NewRun.steps[s] = "pending"
    BY DEF NewRun
  <1>3. DOMAIN NewRun.attempts = {}
    BY <1>2
  <1>4. SingleActive(NewRun) /\ PlanInOrder(NewRun)
    BY <1>2, <1>3 DEF SingleActive, PlanInOrder
  <1>5. Settled(NewRun) /\ VerdictEarned(NewRun)
    BY <1>2 DEF Settled, VerdictEarned, Terminal, TerminalRun
  <1>6. QED
    BY <1>1, <1>4, <1>5 DEF HistoryInv

\* An Attempt more, of a step whose predecessors have all succeeded.
LEMMA AppendKeeps ==
  ASSUME NEW r \in Runs, HistoryInv(r), ~LatestIn(r, ActiveAttempt),
         NEW s \in Steps, NEW n \in Runs,
         n.attempts = Append(r.attempts, NewAttempt(s)),
         n.steps = [r.steps EXCEPT ![s] = "running"],
         n.observed = "running",
         \A t \in Steps : t < s => r.steps[t] = "succeeded",
         \A t \in Steps : t > s => r.steps[t] = "pending",
         r.attempts # << >> => Latest(r).step <= s
  PROVE  HistoryInv(n)
  <1> DEFINE len == Len(r.attempts)
  <1>1. /\ r.attempts \in Seq(Attempts) /\ len \in Nat
        /\ NewAttempt(s) \in Attempts
        /\ NewAttempt(s).step = s /\ NewAttempt(s).status = "pending"
    BY DEF Runs, NewAttempt, Attempts, AttemptStatus, ActiveAttempt
  <1>2. /\ Len(n.attempts) = len + 1
        /\ DOMAIN n.attempts = 1..(len + 1)
        /\ n.attempts # << >>
        /\ Latest(n) = NewAttempt(s)
        /\ \A i \in 1..len : n.attempts[i] = r.attempts[i]
    BY <1>1 DEF Latest
  <1>3. \A i \in 1..len : r.attempts[i].status \notin ActiveAttempt
    BY <1>1 DEF HistoryInv, SingleActive, LatestIn, Latest
  <1>4. \A i \in 1..len : r.attempts[i].step \in Int /\ r.attempts[i].step <= s
    <2> SUFFICES ASSUME NEW i \in 1..len
                 PROVE  r.attempts[i].step \in Int /\ r.attempts[i].step <= s
      OBVIOUS
    <2>1. r.attempts # << >> /\ r.attempts[i] \in Attempts /\ r.attempts[len] \in Attempts
      BY <1>1
    <2>2. r.attempts[i].step <= Latest(r).step
      BY <1>1, <2>1 DEF HistoryInv, PlanInOrder
    <2>3. QED
      BY <2>1, <2>2 DEF Latest, Attempts, Steps
  <1>5. SingleActive(n)
    BY <1>1, <1>2, <1>3 DEF SingleActive
  <1>6. Settled(n) /\ VerdictEarned(n)
    BY DEF Settled, VerdictEarned, Terminal, TerminalRun
  <1>7. PlanInOrder(n)
    <2>1. \A i \in DOMAIN n.attempts : n.attempts[i].step <= Latest(n).step
      BY <1>1, <1>2, <1>4 DEF Steps
    <2>2. \A t \in Steps : /\ t < s => n.steps[t] = "succeeded"
                           /\ t > s => n.steps[t] = "pending"
      BY DEF Runs, Steps
    <2>3. n.steps[s] = "running"
      BY DEF Runs
    <2>4. QED
      BY <1>1, <1>2, <2>1, <2>2, <2>3 DEF PlanInOrder
  <1>8. QED
    BY <1>5, <1>6, <1>7 DEF HistoryInv

LEMMA LatestType ==
  ASSUME NEW r \in Runs, r.attempts # << >>
  PROVE  /\ Len(r.attempts) \in DOMAIN r.attempts
         /\ Latest(r) \in Attempts
         /\ Latest(r).step \in Steps /\ Latest(r).status \in AttemptStatus
  <1>1. r.attempts \in Seq(Attempts)
    BY DEF Runs
  <1>2. Len(r.attempts) \in DOMAIN r.attempts
    BY <1>1
  <1>3. r.attempts[Len(r.attempts)] \in Attempts
    BY <1>1, <1>2
  <1>4. QED
    BY <1>2, <1>3 DEF Latest, Attempts

LEMMA StartKeeps ==
  ASSUME NEW r \in Runs, HistoryInv(r), NEW s \in Steps, StartsStep(r, s)
  PROVE  HistoryInv(StartAttempt(r, s)) /\ ~LatestIn(r, ActiveAttempt)
  <1> DEFINE n == StartAttempt(r, s)
  <1>0. ~LatestIn(r, ActiveAttempt)
    BY DEF StartsStep, RetryAllowed, LatestIn, RetryableAttempt, ActiveAttempt
  <1>1. /\ n \in Runs /\ n.attempts = Append(r.attempts, NewAttempt(s))
        /\ n.steps = [r.steps EXCEPT ![s] = "running"] /\ n.observed = "running"
    BY StartFields
  <1> HIDE DEF n
  <1> DEFINE Order == /\ \A t \in Steps : t < s => r.steps[t] = "succeeded"
                      /\ \A t \in Steps : t > s => r.steps[t] = "pending"
                      /\ r.attempts # << >> => Latest(r).step <= s
  <1>2. ASSUME RetryAllowed(r), s = Latest(r).step
        PROVE  Order
    <2>1. r.attempts # << >>
      BY <1>2 DEF RetryAllowed, LatestIn
    <2>2. s <= s
      BY DEF Steps
    <2>3. Order
      BY <1>2, <2>1, <2>2 DEF HistoryInv, PlanInOrder
    <2>4. QED
      BY <2>3
  <1>3. ASSUME ~LatestIn(r, ActiveAttempt \cup RetryableAttempt \cup {"blocked"}),
               NextRunnable(r, s)
        PROVE  Order
    <2>1. r.steps[s] = "pending" /\ \A d \in Steps : d = s - 1 => r.steps[d] = "succeeded"
      BY <1>3 DEF NextRunnable, Runnable, DependsOn
    <2>2. CASE r.attempts = << >>
      <3>1. \A t \in Steps : r.steps[t] = "pending"
        BY <2>2 DEF HistoryInv, PlanInOrder
      <3>2. s - 1 \notin Steps
        BY <2>1, <3>1
      <3>3. \A t \in Steps : ~(t < s)
        BY <3>2, PlanAssumption DEF Steps
      <3>4. QED
        BY <2>2, <3>1, <3>3
    <2>3. CASE r.attempts # << >>
      <3>1. Latest(r).step \in Steps /\ Latest(r).status \in {"succeeded", "cancelled"}
        BY <1>3, <2>3, LatestType
        DEF LatestIn, AttemptStatus, TerminalAttempt, RetryableAttempt
      <3>2. r.steps[Latest(r).step] = Latest(r).status
        BY <2>3, <3>1 DEF HistoryInv, PlanInOrder, StepStatusFromAttempt
      <3>3. /\ \A t \in Steps : t < Latest(r).step => r.steps[t] = "succeeded"
            /\ \A t \in Steps : t > Latest(r).step => r.steps[t] = "pending"
        BY <2>3 DEF HistoryInv, PlanInOrder
      <3>4. s > Latest(r).step
        BY <2>1, <3>1, <3>2, <3>3 DEF Steps
      <3>5. s - 1 = Latest(r).step
        <4>1. s - 1 \in Steps /\ r.steps[s - 1] = "succeeded"
          BY <2>1, <3>1, <3>4, PlanAssumption DEF Steps
        <4>2. ~(s - 1 > Latest(r).step)
          BY <3>3, <4>1
        <4>3. QED
          BY <3>1, <3>4, <4>2 DEF Steps
      <3>6. r.steps[Latest(r).step] = "succeeded"
        BY <2>1, <3>1, <3>5
      <3>7. QED
        BY <3>1, <3>3, <3>4, <3>5, <3>6 DEF Steps
    <2>4. QED
      BY <2>2, <2>3
  <1>4. Order
    BY <1>2, <1>3 DEF StartsStep
  <1>5. HistoryInv(n)
    BY <1>0, <1>1, <1>4, AppendKeeps
  <1>6. QED
    BY <1>0, <1>5 DEF n

\* A run that is resumed has stopped: its newest Attempt, which is of the last
\* step, has ended.
LEMMA ResumeKeeps ==
  ASSUME NEW r \in Runs, HistoryInv(r), Resumable(r)
  PROVE  /\ HistoryInv(ResumeAttempt(r, StepCount))
         /\ ~LatestIn(r, ActiveAttempt) /\ r.attempts # << >>
  <1> DEFINE n == ResumeAttempt(r, StepCount)
  <1>0. StepCount \in Steps
    BY PlanAssumption DEF Steps
  <1>1. /\ n \in Runs /\ n.attempts = Append(r.attempts, NewAttempt(StepCount))
        /\ n.steps = [r.steps EXCEPT ![StepCount] = "running"] /\ n.observed = "running"
    BY <1>0, ResumeFields
  <1> HIDE DEF n
  <1>2. ~LatestIn(r, ActiveAttempt)
    <2>1. CASE r.observed = "awaiting_retry"
      BY <2>1 DEF HistoryInv, VerdictEarned, LatestIn, RetryableAttempt, ActiveAttempt
    <2>2. CASE r.observed \in {"failed", "cancelled"}
      BY <2>2 DEF HistoryInv, Settled, Terminal, TerminalRun
    <2>3. QED
      BY <2>1, <2>2 DEF Resumable
  <1>3. PICK i \in DOMAIN r.attempts : r.attempts[i].step = StepCount
    BY DEF Resumable, AttemptsOf
  <1>4. r.attempts # << >>
    BY <1>3 DEF Runs
  <1>5. Latest(r).step = StepCount
    BY <1>0, <1>3, <1>4, LatestType DEF HistoryInv, PlanInOrder, Steps
  <1>6. \A t \in Steps : t < StepCount => r.steps[t] = "succeeded"
    BY <1>4, <1>5 DEF HistoryInv, PlanInOrder
  <1>7. \A t \in Steps : ~(t > StepCount)
    BY PlanAssumption DEF Steps
  <1>8. Latest(r).step <= StepCount
    BY <1>5, PlanAssumption
  <1>9. HistoryInv(n)
    BY <1>0, <1>1, <1>2, <1>6, <1>7, <1>8, AppendKeeps
  <1>10. QED
    BY <1>2, <1>4, <1>9 DEF n

LEMMA ObserveKeeps ==
  ASSUME NEW r \in Runs, HistoryInv(r), NEW k \in DOMAIN r.attempts,
         NEW status \in AttemptStatus, NEW cleanup \in BOOLEAN, Observable(r, k, status)
  PROVE  /\ HistoryInv(ObserveAttempt(r, k, status, cleanup))
         /\ k = Len(r.attempts) /\ ~Terminal(r)
  <1> DEFINE n == ObserveAttempt(r, k, status, cleanup)
             len == Len(r.attempts)
             a == [step |-> r.attempts[k].step, status |-> status, cleanup |-> cleanup]
  <1>1. /\ n \in Runs
        /\ n.attempts = [r.attempts EXCEPT ![k] = a]
        /\ n.steps = [r.steps EXCEPT ![a.step] = StepStatusFromAttempt(status)]
        /\ n.observed = PlanStatusAfter(status, r.observed)
    BY ObserveFields
  <1> HIDE DEF n
  <1>2. /\ r.attempts \in Seq(Attempts) /\ len \in Nat /\ r.attempts # << >>
        /\ DOMAIN r.attempts = 1..len /\ r.attempts[k] \in Attempts
    BY DEF Runs
  <1>3. k = len /\ Latest(r) = r.attempts[k]
    BY <1>2 DEF HistoryInv, SingleActive, Observable, AttemptStatus, Attempts, Latest
  <1>4. ~Terminal(r)
    BY <1>2, <1>3 DEF HistoryInv, Settled, LatestIn, Observable, AttemptStatus, Attempts
  <1>5. a.step \in Steps /\ a.step = Latest(r).step /\ a.status = status
    BY <1>2, <1>3 DEF Attempts
  <1>6. /\ DOMAIN n.attempts = 1..len /\ Len(n.attempts) = len /\ n.attempts # << >>
        /\ Latest(n) = a
        /\ \A j \in 1..(len - 1) : n.attempts[j] = r.attempts[j]
    BY <1>1, <1>2, <1>3 DEF Latest
  <1>7. SingleActive(n)
    BY <1>2, <1>3, <1>6 DEF SingleActive, HistoryInv
  <1>8. n.observed \notin TerminalRun
    BY <1>1, <1>4, PlanStatusType DEF Terminal, Runs, TerminalRun, RetryableAttempt
  <1>9. Settled(n)
    BY <1>8 DEF Settled, Terminal
  <1>10. VerdictEarned(n)
    <2>1. n.observed = "awaiting_retry" => status \in RetryableAttempt
      <3>1. r.observed # "awaiting_retry"
        BY <1>2, <1>3 DEF HistoryInv, VerdictEarned, LatestIn, Observable, RetryableAttempt, TerminalAttempt
      <3>2. QED
        BY <1>1, <3>1, PlanStatusType DEF Runs
    <2>2. QED
      BY <1>5, <1>6, <1>8, <2>1 DEF VerdictEarned, TerminalRun, LatestIn
  <1>11. PlanInOrder(n)
    <2>1. \A j \in DOMAIN n.attempts : n.attempts[j].step <= Latest(n).step
      <3> SUFFICES ASSUME NEW j \in 1..len PROVE n.attempts[j].step <= a.step
        BY <1>6
      <3>1. r.attempts[j].step <= Latest(r).step
        BY <1>2 DEF HistoryInv, PlanInOrder
      <3>2. CASE j = len
        BY <1>3, <1>5, <1>6, <3>2 DEF Steps, Latest
      <3>3. CASE j # len
        BY <1>2, <1>5, <1>6, <3>1, <3>3
      <3>4. QED
        BY <3>2, <3>3
    <2>2. \A t \in Steps : /\ t < a.step => n.steps[t] = "succeeded"
                           /\ t > a.step => n.steps[t] = "pending"
      BY <1>1, <1>2, <1>5 DEF HistoryInv, PlanInOrder, Steps, Runs
    <2>3. n.steps[a.step] = StepStatusFromAttempt(status)
      BY <1>1, <1>5 DEF Runs
    <2>4. QED
      BY <1>5, <1>6, <2>1, <2>2, <2>3 DEF PlanInOrder
  <1>12. QED
    BY <1>1, <1>3, <1>4, <1>7, <1>9, <1>10, <1>11 DEF HistoryInv, n

LEMMA CancelKeeps ==
  ASSUME NEW r \in Runs, HistoryInv(r), ~Terminal(r)
  PROVE  HistoryInv(RequestCancel(r))
  <1> DEFINE n == RequestCancel(r)
  <1>1. /\ n \in Runs /\ n.attempts = r.attempts /\ n.steps = r.steps
        /\ n.observed = "cancel_requested"
    BY CancelFields
  <1> HIDE DEF n
  <1>2. SingleActive(n) /\ PlanInOrder(n)
    BY <1>1 DEF HistoryInv, SingleActive, PlanInOrder, Latest
  <1>3. Settled(n) /\ VerdictEarned(n)
    BY <1>1 DEF Settled, VerdictEarned, Terminal, TerminalRun
  <1>4. QED
    BY <1>1, <1>2, <1>3 DEF HistoryInv, n

\* What a verdict rests on: the newest Attempt has ended, with the status the
\* verdict names.
LEMMA VerdictBasis ==
  ASSUME NEW r \in Runs, HistoryInv(r), NEW outcome \in TerminalRun, Finalizes(r, outcome)
  PROVE  /\ ~Terminal(r) /\ ~LatestIn(r, ActiveAttempt)
         /\ outcome = "succeeded" => /\ LatestIn(r, {"succeeded"}) /\ Latest(r).step = StepCount
                                     /\ \A s \in Steps : r.steps[s] = "succeeded"
         /\ outcome = "failed" => LatestIn(r, RetryableAttempt)
         /\ outcome = "blocked" => LatestIn(r, {"blocked"})
         /\ outcome = "cancelled" => ~CleanupPending(r) /\ r.desired = "cancelled"
         /\ outcome # "cancelled" => r.desired = "active"
  <1>1. StepCount \in Steps
    BY PlanAssumption DEF Steps
  <1>2. CASE outcome = "cancelled"
    BY <1>2 DEF Finalizes
  <1>3. CASE outcome = "blocked"
    <2>1. LatestIn(r, {"blocked"})
      <3>1. CASE LatestIn(r, {"blocked"})
        BY <3>1
      <3>2. CASE AnyBlocked(r)
        <4>1. PICK s \in Steps : r.steps[s] = "blocked"
          BY <3>2 DEF AnyBlocked
        <4>2. r.attempts # << >>
          BY <4>1 DEF HistoryInv, PlanInOrder
        <4>3. Latest(r).step \in Steps /\ s = Latest(r).step
          BY <4>1, <4>2, LatestType DEF HistoryInv, PlanInOrder, Steps
        <4>4. StepStatusFromAttempt(Latest(r).status) = "blocked"
          BY <4>1, <4>2, <4>3 DEF HistoryInv, PlanInOrder
        <4>5. QED
          BY <4>2, <4>4 DEF LatestIn, StepStatusFromAttempt
      <3>3. QED
        BY <1>3, <3>1, <3>2 DEF Finalizes
    <2>2. QED
      BY <1>3, <2>1 DEF Finalizes, LatestIn, ActiveAttempt
  <1>4. CASE outcome = "failed"
    BY <1>4 DEF Finalizes, MayProceed, LatestIn, RetryableAttempt, ActiveAttempt
  <1>5. CASE outcome = "succeeded"
    <2>1. /\ ~Terminal(r) /\ r.desired = "active" /\ ~LatestIn(r, ActiveAttempt)
          /\ \A s \in Steps : r.steps[s] = "succeeded"
      BY <1>5 DEF Finalizes, MayProceed, LatestIn
    <2>2. r.attempts # << >>
      BY <1>1, <2>1 DEF HistoryInv, PlanInOrder
    <2>3. Latest(r).step \in Steps /\ Latest(r).status \in AttemptStatus
      BY <2>2, LatestType
    <2>4. Latest(r).step = StepCount
      BY <1>1, <2>1, <2>2, <2>3 DEF HistoryInv, PlanInOrder, Steps
    <2>5. StepStatusFromAttempt(Latest(r).status) = "succeeded"
      BY <2>1, <2>2, <2>3 DEF HistoryInv, PlanInOrder
    <2>6. Latest(r).status = "succeeded"
      BY <2>5 DEF StepStatusFromAttempt
    <2>7. QED
      BY <1>5, <2>1, <2>2, <2>4, <2>6 DEF LatestIn
  <1>6. QED
    BY <1>2, <1>3, <1>4, <1>5 DEF TerminalRun

LEMMA FinalizeKeeps ==
  ASSUME NEW r \in Runs, HistoryInv(r), NEW outcome \in TerminalRun, Finalizes(r, outcome)
  PROVE  HistoryInv(Finalize(r, outcome))
  <1> DEFINE n == Finalize(r, outcome)
  <1>1. /\ n \in Runs /\ n.attempts = r.attempts /\ n.steps = r.steps
        /\ n.observed = outcome
    BY FinalizeFields
  <1> HIDE DEF n
  <1>2. SingleActive(n) /\ PlanInOrder(n)
    BY <1>1 DEF HistoryInv, SingleActive, PlanInOrder, Latest
  <1>3. Latest(n) = Latest(r) /\ \A S : LatestIn(n, S) <=> LatestIn(r, S)
    BY <1>1 DEF Latest, LatestIn
  <1>4. Settled(n) /\ VerdictEarned(n)
    BY <1>1, <1>3, VerdictBasis DEF Settled, VerdictEarned, CleanupPending, TerminalRun
  <1>5. QED
    BY <1>1, <1>2, <1>4 DEF HistoryInv, n

LEMMA LegalKeeps ==
  ASSUME NEW r \in Runs, HistoryInv(r), NEW next, LegalUpdate(r, next)
  PROVE  HistoryInv(next)
  <1>1. ASSUME NEW s \in Steps, StartsStep(r, s), next = StartAttempt(r, s)
        PROVE  HistoryInv(next)
    BY <1>1, StartKeeps
  <1>2. CASE Resumable(r) /\ next = ResumeAttempt(r, StepCount)
    BY <1>2, ResumeKeeps
  <1>3. ASSUME NEW i \in DOMAIN r.attempts, NEW status \in AttemptStatus,
               NEW cleanup \in BOOLEAN, Observable(r, i, status),
               next = ObserveAttempt(r, i, status, cleanup)
        PROVE  HistoryInv(next)
    BY <1>3, ObserveKeeps
  <1>4. CASE ~Terminal(r) /\ next = RequestCancel(r)
    BY <1>4, CancelKeeps
  <1>5. ASSUME NEW outcome \in TerminalRun, Finalizes(r, outcome),
               next = Finalize(r, outcome)
        PROVE  HistoryInv(next)
    BY <1>5, FinalizeKeeps
  <1>6. QED
    BY <1>1, <1>2, <1>3, <1>4, <1>5 DEF LegalUpdate

-----------------------------------------------------------------------------
(* What a legal update keeps of the document it replaces. *)

LEMMA LegalKeepsHistory ==
  ASSUME NEW r \in Runs, HistoryInv(r), NEW next, LegalUpdate(r, next)
  PROVE  HistoryKept(r, next)
  <1>1. ASSUME NEW s \in Steps, next.attempts = Append(r.attempts, NewAttempt(s))
        PROVE  HistoryKept(r, next)
    <2>1. r.attempts \in Seq(Attempts) /\ NewAttempt(s) \in Attempts
      BY DEF Runs, NewAttempt, Attempts, AttemptStatus, ActiveAttempt
    <2>2. QED
      BY <1>1, <2>1 DEF HistoryKept
  <1>2. ASSUME next.attempts = r.attempts
        PROVE  HistoryKept(r, next)
    BY <1>2 DEF HistoryKept
  <1>3. ASSUME NEW i \in DOMAIN r.attempts, NEW status \in AttemptStatus,
               NEW cleanup \in BOOLEAN, Observable(r, i, status),
               next = ObserveAttempt(r, i, status, cleanup)
        PROVE  HistoryKept(r, next)
    <2> DEFINE b == [step |-> r.attempts[i].step, status |-> status, cleanup |-> cleanup]
    <2>1. ObserveAttempt(r, i, status, cleanup).attempts = [r.attempts EXCEPT ![i] = b]
      BY DEF ObserveAttempt, Runs
    <2> HIDE DEF b
    <2>2. r.attempts[i].status \notin TerminalAttempt
      BY <1>3 DEF Observable
    <2>3. QED
      BY <1>3, <2>1, <2>2 DEF HistoryKept, Runs
  <1>4. ASSUME NEW s \in Steps, next = StartAttempt(r, s)
        PROVE  next.attempts = Append(r.attempts, NewAttempt(s))
    BY <1>4, StartFields
  <1>5. StepCount \in Steps
    BY PlanAssumption DEF Steps
  <1>6. ASSUME next = ResumeAttempt(r, StepCount)
        PROVE  next.attempts = Append(r.attempts, NewAttempt(StepCount))
    BY <1>5, <1>6, ResumeFields
  <1>7. ASSUME NEW outcome \in TerminalRun, next = Finalize(r, outcome)
        PROVE  next.attempts = r.attempts
    BY <1>7, FinalizeFields
  <1>8. QED
    BY <1>1, <1>2, <1>3, <1>4, <1>5, <1>6, <1>7, CancelFields DEF LegalUpdate

LEMMA OnlyResumeReactivates ==
  ASSUME NEW r \in Runs, NEW next, LegalUpdate(r, next),
         r.desired = "cancelled", next.desired = "active"
  PROVE  /\ r.observed \in {"failed", "cancelled", "awaiting_retry"}
         /\ Len(next.attempts) = Len(r.attempts) + 1
  <1>0. StepCount \in Steps
    BY PlanAssumption DEF Steps
  <1>1. ASSUME NEW s \in Steps, next = StartAttempt(r, s)
        PROVE  FALSE
    BY <1>1, StartFields
  <1>2. ASSUME NEW i \in DOMAIN r.attempts, NEW status \in AttemptStatus,
               NEW cleanup, next = ObserveAttempt(r, i, status, cleanup)
        PROVE  FALSE
    <2>1. ObserveAttempt(r, i, status, cleanup).desired = r.desired
      BY ObserveKeepsDesired
    <2>2. QED
      BY <1>2, <2>1
  <1>3. next # RequestCancel(r) /\ \A outcome \in TerminalRun : next # Finalize(r, outcome)
    BY CancelFields, FinalizeFields
  <1>4. Resumable(r) /\ next = ResumeAttempt(r, StepCount)
    BY <1>1, <1>2, <1>3 DEF LegalUpdate
  <1>5. next.attempts = Append(r.attempts, NewAttempt(StepCount))
    BY <1>0, <1>4, ResumeFields
  <1>6. Len(next.attempts) = Len(r.attempts) + 1
    BY <1>5 DEF Runs
  <1>7. QED
    BY <1>4, <1>6 DEF Resumable

-----------------------------------------------------------------------------
(* The retry budget. *)

LEMMA AttemptsFinite ==
  ASSUME NEW r \in Runs, NEW s
  PROVE  IsFiniteSet(AttemptsOf(r, s))
  <1>1. DOMAIN r.attempts = 1..Len(r.attempts) /\ Len(r.attempts) \in Nat
    BY DEF Runs
  <1>2. IsFiniteSet(1..Len(r.attempts))
    BY <1>1, FS_Interval
  <1>3. QED
    BY <1>1, <1>2, FS_Subset DEF AttemptsOf

LEMMA AppendCounts ==
  ASSUME NEW r \in Runs, NEW n \in Runs, NEW s \in Steps, NEW t \in Steps,
         n.attempts = Append(r.attempts, NewAttempt(s))
  PROVE  /\ t # s => AttemptsOf(n, t) = AttemptsOf(r, t)
         /\ Cardinality(AttemptsOf(n, s)) = Cardinality(AttemptsOf(r, s)) + 1
  <1> DEFINE len == Len(r.attempts)
  <1>1. /\ r.attempts \in Seq(Attempts) /\ len \in Nat
        /\ NewAttempt(s) \in Attempts /\ NewAttempt(s).step = s
    BY DEF Runs, NewAttempt, Attempts, AttemptStatus, ActiveAttempt
  <1>2. /\ DOMAIN n.attempts = 1..(len + 1)
        /\ n.attempts[len + 1] = NewAttempt(s)
        /\ \A i \in 1..len : n.attempts[i] = r.attempts[i]
    BY <1>1
  <1>3. t # s => AttemptsOf(n, t) = AttemptsOf(r, t)
    BY <1>1, <1>2 DEF AttemptsOf
  <1>4. AttemptsOf(n, s) = AttemptsOf(r, s) \cup {len + 1}
    BY <1>1, <1>2 DEF AttemptsOf
  <1>5. len + 1 \notin AttemptsOf(r, s)
    BY <1>1 DEF AttemptsOf
  <1>6. Cardinality(AttemptsOf(n, s)) = Cardinality(AttemptsOf(r, s)) + 1
    BY <1>4, <1>5, AttemptsFinite, FS_AddElement
  <1>7. QED
    BY <1>3, <1>6

\* A step started for the first time has no Attempt yet; a retried one has
\* room for one more.
LEMMA StartHasBudget ==
  ASSUME NEW r \in Runs, HistoryInv(r), NEW s \in Steps, StartsStep(r, s)
  PROVE  Cardinality(AttemptsOf(r, s)) < MaxAttempts[s]
  <1>1. MaxAttempts[s] \in Nat \ {0}
    BY PlanAssumption DEF Steps
  <1>2. CASE RetryAllowed(r) /\ s = Latest(r).step
    BY <1>2 DEF RetryAllowed
  <1>3. ASSUME ~LatestIn(r, ActiveAttempt \cup RetryableAttempt \cup {"blocked"}),
               NextRunnable(r, s)
        PROVE  AttemptsOf(r, s) = {}
    <2>1. r.steps[s] = "pending"
      BY <1>3 DEF NextRunnable, Runnable
    <2>2. CASE r.attempts = << >>
      BY <2>2 DEF AttemptsOf
    <2>3. CASE r.attempts # << >>
      <3>1. Latest(r).step \in Steps /\ Latest(r).status \in {"succeeded", "cancelled"}
        BY <1>3, <2>3, LatestType
        DEF LatestIn, AttemptStatus, TerminalAttempt, RetryableAttempt
      <3>2. r.steps[Latest(r).step] = Latest(r).status
        BY <2>3, <3>1 DEF HistoryInv, PlanInOrder, StepStatusFromAttempt
      <3>3. \A t \in Steps : t < Latest(r).step => r.steps[t] = "succeeded"
        BY <2>3 DEF HistoryInv, PlanInOrder
      <3>4. s > Latest(r).step
        BY <2>1, <3>1, <3>2, <3>3 DEF Steps
      <3>5. \A i \in DOMAIN r.attempts : r.attempts[i].step <= Latest(r).step
        BY <2>3 DEF HistoryInv, PlanInOrder
      <3>6. \A i \in DOMAIN r.attempts : r.attempts[i].step # s
        BY <3>1, <3>4, <3>5 DEF Steps
      <3>7. QED
        BY <3>6 DEF AttemptsOf
    <2>4. QED
      BY <2>2, <2>3
  <1>4. CASE AttemptsOf(r, s) = {}
    BY <1>1, <1>4, FS_EmptySet
  <1>5. QED
    BY <1>2, <1>3, <1>4 DEF StartsStep

LEMMA LegalKeepsBudget ==
  ASSUME NEW r \in Runs, HistoryInv(r), WithinBudget(r),
         NEW next \in Runs, LegalUpdate(r, next)
  PROVE  WithinBudget(next)
  <1> SUFFICES ASSUME NEW t \in 1..(StepCount - 1)
               PROVE  Cardinality(AttemptsOf(next, t)) <= MaxAttempts[t]
    BY DEF WithinBudget
  <1>0. /\ StepCount \in Steps /\ t \in Steps /\ t # StepCount
        /\ MaxAttempts[t] \in Nat
        /\ Cardinality(AttemptsOf(r, t)) \in Nat
        /\ Cardinality(AttemptsOf(r, t)) <= MaxAttempts[t]
    BY PlanAssumption, AttemptsFinite, FS_CardinalityType DEF Steps, WithinBudget
  <1>1. ASSUME NEW s \in Steps, StartsStep(r, s), next = StartAttempt(r, s)
        PROVE  Cardinality(AttemptsOf(next, t)) <= MaxAttempts[t]
    <2>1. next.attempts = Append(r.attempts, NewAttempt(s))
      BY <1>1, StartFields
    <2>2. CASE t # s
      BY <1>0, <2>1, <2>2, AppendCounts
    <2>3. CASE t = s
      BY <1>0, <1>1, <2>1, <2>3, AppendCounts, StartHasBudget
    <2>4. QED
      BY <2>2, <2>3
  <1>2. ASSUME next = ResumeAttempt(r, StepCount)
        PROVE  Cardinality(AttemptsOf(next, t)) <= MaxAttempts[t]
    <2>1. next.attempts = Append(r.attempts, NewAttempt(StepCount))
      BY <1>0, <1>2, ResumeFields
    <2>2. QED
      BY <1>0, <2>1, AppendCounts
  <1>3. ASSUME NEW i \in DOMAIN r.attempts, NEW status \in AttemptStatus,
               NEW cleanup \in BOOLEAN, next = ObserveAttempt(r, i, status, cleanup)
        PROVE  Cardinality(AttemptsOf(next, t)) <= MaxAttempts[t]
    <2> DEFINE b == [step |-> r.attempts[i].step, status |-> status, cleanup |-> cleanup]
    <2>1. next.attempts = [r.attempts EXCEPT ![i] = b]
      BY <1>3 DEF ObserveAttempt, Runs
    <2>2. b.step = r.attempts[i].step
      OBVIOUS
    <2> HIDE DEF b
    <2>3. AttemptsOf(next, t) = AttemptsOf(r, t)
      BY <2>1, <2>2 DEF AttemptsOf, Runs
    <2>4. QED
      BY <1>0, <2>3
  <1>4. ASSUME next.attempts = r.attempts
        PROVE  Cardinality(AttemptsOf(next, t)) <= MaxAttempts[t]
    BY <1>0, <1>4 DEF AttemptsOf
  <1>5. ASSUME NEW outcome \in TerminalRun, next = Finalize(r, outcome)
        PROVE  next.attempts = r.attempts
    BY <1>5, FinalizeFields
  <1>6. QED
    BY <1>1, <1>2, <1>3, <1>4, <1>5, CancelFields DEF LegalUpdate

-----------------------------------------------------------------------------
(* A run as RunContract sees it. *)

LEMMA TriesType ==
  ASSUME NEW r \in Runs
  PROVE  /\ TriesOf(r) \in Seq(AttemptStatus)
         /\ Len(TriesOf(r)) = Len(r.attempts)
         /\ TriesOf(r) = << >> <=> r.attempts = << >>
         /\ r.attempts # << >> => TriesOf(r)[Len(TriesOf(r))] = Latest(r).status
  <1>1. r.attempts \in Seq(Attempts)
    BY DEF Runs
  <1>2. ASSUME NEW i \in 1..Len(r.attempts)
        PROVE  r.attempts[i].status \in AttemptStatus
    <2>1. r.attempts[i] \in Attempts
      BY <1>1
    <2>2. QED
      BY <2>1 DEF Attempts
  <1>3. TriesOf(r) = [i \in 1..Len(r.attempts) |-> r.attempts[i].status]
    BY <1>1 DEF TriesOf
  <1>4. TriesOf(r) \in Seq(AttemptStatus) /\ Len(TriesOf(r)) = Len(r.attempts)
    BY <1>1, <1>2, <1>3
  <1>5. QED
    BY <1>1, <1>3, <1>4 DEF Latest

LEMMA AppendTries ==
  ASSUME NEW r \in Runs, NEW n \in Runs, NEW s \in Steps,
         n.attempts = Append(r.attempts, NewAttempt(s))
  PROVE  TriesOf(n) = Append(TriesOf(r), "pending")
  <1>1. /\ r.attempts \in Seq(Attempts) /\ NewAttempt(s) \in Attempts
        /\ NewAttempt(s).status = "pending"
    BY DEF Runs, NewAttempt, Attempts, AttemptStatus, ActiveAttempt
  <1>2. TriesOf(n) \in Seq(AttemptStatus) /\ TriesOf(r) \in Seq(AttemptStatus)
    BY TriesType
  <1>3. /\ Len(TriesOf(n)) = Len(r.attempts) + 1
        /\ Len(TriesOf(r)) = Len(r.attempts)
    BY <1>1, TriesType
  <1>4. ASSUME NEW i \in 1..(Len(r.attempts) + 1)
        PROVE  TriesOf(n)[i] = Append(TriesOf(r), "pending")[i]
    BY <1>1, <1>2, <1>3 DEF TriesOf
  <1>5. Append(TriesOf(r), "pending") \in Seq(AttemptStatus)
        /\ Len(Append(TriesOf(r), "pending")) = Len(r.attempts) + 1
    BY <1>2, <1>3 DEF AttemptStatus, ActiveAttempt
  <1>6. QED
    BY <1>2, <1>3, <1>4, <1>5

\* The actions of RunContract, said of a document and the one that replaces it.
Quiet(r) == TriesOf(r) = << >> \/ TriesOf(r)[Len(TriesOf(r))] \in TerminalAttempt

EndedAs(r, S) == TriesOf(r) # << >> /\ TriesOf(r)[Len(TriesOf(r))] \in S

Tried(r, n) ==
  /\ OutcomeOf(r) = "open" /\ r.desired = "active" /\ Quiet(r)
  /\ TriesOf(n) = Append(TriesOf(r), "pending")
  /\ OutcomeOf(n) = OutcomeOf(r) /\ n.desired = r.desired

Reopened(r, n) ==
  /\ OutcomeOf(r) \in {"open", "failed", "cancelled"}
  /\ Quiet(r) /\ TriesOf(r) # << >>
  /\ TriesOf(n) = Append(TriesOf(r), "pending")
  /\ OutcomeOf(n) = "open" /\ n.desired = "active"

Reported(r, n) ==
  /\ OutcomeOf(r) = "open" /\ EndedAs(r, ActiveAttempt)
  /\ \E status \in ActiveAttempt \cup TerminalAttempt :
       TriesOf(n) = [TriesOf(r) EXCEPT ![Len(TriesOf(r))] = status]
  /\ OutcomeOf(n) = OutcomeOf(r) /\ n.desired = r.desired

Withdrawn(r, n) ==
  /\ OutcomeOf(r) = "open" /\ n.desired = "cancelled"
  /\ OutcomeOf(n) = OutcomeOf(r) /\ TriesOf(n) = TriesOf(r)

Closed(r, n) ==
  /\ OutcomeOf(r) = "open"
  /\ \E verdict \in TerminalRun :
       /\ \/ verdict = "succeeded" /\ EndedAs(r, {"succeeded"}) /\ r.desired = "active"
          \/ verdict = "failed" /\ EndedAs(r, {"failed", "lost"}) /\ r.desired = "active"
          \/ verdict = "blocked" /\ EndedAs(r, {"blocked"}) /\ r.desired = "active"
          \/ verdict = "cancelled" /\ Quiet(r) /\ r.desired = "cancelled"
       /\ OutcomeOf(n) = verdict
  /\ n.desired = r.desired /\ TriesOf(n) = TriesOf(r)

ContractMove(r, n) ==
  Tried(r, n) \/ Reopened(r, n) \/ Reported(r, n) \/ Withdrawn(r, n) \/ Closed(r, n)

LEMMA ContractReads ==
  ASSUME NEW r \in Runs
  PROVE  /\ Quiet(r) <=> ~LatestIn(r, ActiveAttempt)
         /\ \A S : EndedAs(r, S) <=> LatestIn(r, S)
  <1>1. \A S : EndedAs(r, S) <=> LatestIn(r, S)
    BY TriesType DEF EndedAs, LatestIn
  <1>2. r.attempts # << >> =>
          (Latest(r).status \in TerminalAttempt <=> Latest(r).status \notin ActiveAttempt)
    BY LatestType DEF AttemptStatus, ActiveAttempt, TerminalAttempt
  <1>3. Quiet(r) <=> ~LatestIn(r, ActiveAttempt)
    BY <1>2, TriesType DEF Quiet, LatestIn
  <1>4. QED
    BY <1>1, <1>3

\* Every write that the lifecycle allows is a step of the contract.
LEMMA LegalMoves ==
  ASSUME NEW r \in Runs, HistoryInv(r), NEW next, LegalUpdate(r, next)
  PROVE  ContractMove(r, next)
  <1>0. /\ next \in Runs /\ StepCount \in Steps
        /\ Quiet(r) <=> ~LatestIn(r, ActiveAttempt)
        /\ \A S : EndedAs(r, S) <=> LatestIn(r, S)
    BY ContractReads, LegalKeeps, PlanAssumption DEF HistoryInv, Steps
  <1>1. ASSUME NEW s \in Steps, StartsStep(r, s), next = StartAttempt(r, s)
        PROVE  Tried(r, next)
    <2>1. /\ next.attempts = Append(r.attempts, NewAttempt(s))
          /\ next.observed = "running" /\ next.desired = r.desired
      BY <1>0, <1>1, StartFields
    <2>2. TriesOf(next) = Append(TriesOf(r), "pending")
      BY <1>0, <2>1, AppendTries
    <2>3. ~Terminal(r) /\ r.desired = "active" /\ ~LatestIn(r, ActiveAttempt)
      BY <1>0, <1>1, StartKeeps DEF StartsStep, MayProceed
    <2>4. OutcomeOf(r) = "open" /\ OutcomeOf(next) = "open"
      BY <2>1, <2>3 DEF OutcomeOf, Terminal, TerminalRun
    <2>5. QED
      BY <1>0, <2>1, <2>2, <2>3, <2>4 DEF Tried
  <1>2. ASSUME Resumable(r), next = ResumeAttempt(r, StepCount)
        PROVE  Reopened(r, next)
    <2>1. /\ next.attempts = Append(r.attempts, NewAttempt(StepCount))
          /\ next.observed = "running" /\ next.desired = "active"
      BY <1>0, <1>2, ResumeFields
    <2>2. TriesOf(next) = Append(TriesOf(r), "pending")
      BY <1>0, <2>1, AppendTries
    <2>3. ~LatestIn(r, ActiveAttempt) /\ r.attempts # << >>
      BY <1>0, <1>2, ResumeKeeps
    <2>4. OutcomeOf(r) \in {"open", "failed", "cancelled"} /\ OutcomeOf(next) = "open"
      BY <1>2, <2>1 DEF OutcomeOf, Terminal, TerminalRun, Resumable
    <2>5. QED
      BY <1>0, <2>1, <2>2, <2>3, <2>4, TriesType DEF Reopened
  <1>3. ASSUME NEW i \in DOMAIN r.attempts, NEW status \in AttemptStatus,
               NEW cleanup \in BOOLEAN, Observable(r, i, status),
               next = ObserveAttempt(r, i, status, cleanup)
        PROVE  Reported(r, next)
    <2>1. i = Len(r.attempts) /\ ~Terminal(r)
      BY <1>0, <1>3, ObserveKeeps
    <2> DEFINE b == [step |-> r.attempts[i].step, status |-> status, cleanup |-> cleanup]
    <2>2. /\ next.attempts = [r.attempts EXCEPT ![i] = b]
          /\ next.observed = PlanStatusAfter(status, r.observed)
          /\ next.desired = r.desired
      BY <1>0, <1>3 DEF ObserveAttempt, Runs
    <2>3. b.status = status
      OBVIOUS
    <2> HIDE DEF b
    <2>4. TriesOf(next) = [TriesOf(r) EXCEPT ![Len(TriesOf(r))] = status]
      BY <1>0, <2>1, <2>2, <2>3, TriesType DEF TriesOf, Runs
    <2>5. LatestIn(r, ActiveAttempt)
      BY <1>0, <1>3, <2>1, LatestType
      DEF Observable, LatestIn, Latest, AttemptStatus, Runs
    <2>6. OutcomeOf(r) = "open" /\ OutcomeOf(next) = "open"
      BY <1>0, <1>3, <2>1, <2>2, PlanStatusType
      DEF OutcomeOf, Terminal, TerminalRun, Runs, RetryableAttempt
    <2>7. QED
      BY <1>0, <1>3, <2>2, <2>4, <2>5, <2>6 DEF Reported, AttemptStatus
  <1>4. ASSUME ~Terminal(r), next = RequestCancel(r)
        PROVE  Withdrawn(r, next)
    <2>1. /\ next.attempts = r.attempts
          /\ next.observed = "cancel_requested" /\ next.desired = "cancelled"
      BY <1>0, <1>4, CancelFields
    <2>2. QED
      BY <1>4, <2>1 DEF Withdrawn, OutcomeOf, TriesOf, Terminal, TerminalRun
  <1>5. ASSUME NEW verdict \in TerminalRun, Finalizes(r, verdict),
               next = Finalize(r, verdict)
        PROVE  Closed(r, next)
    <2>1. /\ next.attempts = r.attempts
          /\ next.observed = verdict /\ next.desired = r.desired
      BY <1>0, <1>5, FinalizeFields
    <2>2. OutcomeOf(r) = "open" /\ OutcomeOf(next) = verdict /\ TriesOf(next) = TriesOf(r)
      BY <1>0, <1>5, <2>1, VerdictBasis DEF OutcomeOf, TriesOf, Terminal
    <2>3. \/ verdict = "succeeded" /\ EndedAs(r, {"succeeded"}) /\ r.desired = "active"
          \/ verdict = "failed" /\ EndedAs(r, {"failed", "lost"}) /\ r.desired = "active"
          \/ verdict = "blocked" /\ EndedAs(r, {"blocked"}) /\ r.desired = "active"
          \/ verdict = "cancelled" /\ Quiet(r) /\ r.desired = "cancelled"
      BY <1>0, <1>5, VerdictBasis DEF TerminalRun, RetryableAttempt
    <2>4. QED
      BY <2>1, <2>2, <2>3 DEF Closed
  <1>6. QED
    BY <1>1, <1>2, <1>3, <1>4, <1>5 DEF LegalUpdate, ContractMove

=============================================================================
