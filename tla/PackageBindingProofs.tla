------------------------- MODULE PackageBindingProofs -------------------------
(***************************************************************************)
(* Proofs about PackageBinding, for every set of callers and requests: the *)
(* inductive invariant IInv, the safety properties that follow from it,    *)
(* and the refinement of BindingContract.                                  *)
(***************************************************************************)
EXTENDS PackageBinding, TLAPS

\* Every point a call can be at.
Points == {"idle"} \cup Activating \cup Reconciling

\* A call that goes to another point keeps its request, and the others stay.
LEMMA Going ==
  ASSUME IInv, NEW c \in Threads, NEW point \in Points, Goes(c, point)
  PROVE  /\ call' \in [Threads -> [at : Points, request : Requests]]
         /\ \A d \in Threads : /\ call'[d].request = call[d].request
                               /\ call'[d].at = IF d = c THEN point ELSE call[d].at
  BY DEF IInv, TypeOK, Goes, Points

\* A transaction writes the row of one request.
LEMMA Journaling ==
  ASSUME IInv, NEW r \in Requests, NEW phase \in Phases, NEW receipt \in BOOLEAN,
         Journals(r, phase, receipt)
  PROVE  /\ journal' \in [Requests -> [phase : Phases, receipt : BOOLEAN]]
         /\ \A s \in Requests : journal'[s] =
               IF s = r THEN [phase |-> phase, receipt |-> receipt] ELSE journal[s]
  BY DEF IInv, TypeOK, Journals

\* The invariant holds before the first call.
LEMMA InitIInv == Init => IInv
  BY DEF Init, IInv, TypeOK, OneOperation, ReceiptsMatchPhases, OneActivation,
         FinishersHaveCompleted, ErasedReceiptsAreCompleted, ProjectionAgrees,
         Phases, Activating, Reconciling, Idle, Phase, At

-----------------------------------------------------------------------------
(* Every step keeps the invariant: one lemma per effect on the two tables. *)

\* A call that ends, or meets an error, without touching either table.
LEMMA QuietStep ==
  ASSUME IInv, NEW c \in Threads, NEW point \in {"idle", "handling", "handlingReceipt"},
         point # "idle" => call[c].at \in Activating,
         Goes(c, point), UNCHANGED <<journal, projection, broker, issued>>
  PROVE  IInv'
<1>1. /\ call' \in [Threads -> [at : Points, request : Requests]]
      /\ \A d \in Threads : /\ call'[d].request = call[d].request
                            /\ call'[d].at = IF d = c THEN point ELSE call[d].at
  BY Going DEF Points, Activating
<1>2. TypeOK'
  BY <1>1 DEF IInv, TypeOK, Points
<1>3. /\ OneOperation' /\ ReceiptsMatchPhases' /\ ProjectionAgrees'
      /\ ErasedReceiptsAreCompleted'
  BY DEF IInv, OneOperation, ReceiptsMatchPhases, ProjectionAgrees, ErasedReceiptsAreCompleted,
         Phase
<1>4. OneActivation'
  BY <1>1 DEF IInv, OneActivation, Phase, At, Activating
<1>5. FinishersHaveCompleted'
  BY <1>1 DEF IInv, FinishersHaveCompleted, Phase, Reconciling
<1>6. QED
  BY <1>2, <1>3, <1>4, <1>5 DEF IInv

\* activate reserves its intent only when no row is left, so it is alone.
LEMMA BeginStep ==
  ASSUME IInv, NEW c \in Threads, NEW r \in Requests, Begin(c, r)
  PROVE  IInv'
  BY DEF IInv, TypeOK, OneOperation, ReceiptsMatchPhases, OneActivation,
         FinishersHaveCompleted, ErasedReceiptsAreCompleted, ProjectionAgrees,
         Phases, Activating, Reconciling, Phase, At, Begin, Reservable, Journals

\* The one Activate of a request: only the call that inserted the intent, still
\* at INTENT and with nothing sent, can issue it.
LEMMA ActivateStep ==
  ASSUME IInv, NEW c \in Threads, Activate(c)
  PROVE  IInv'
<1> DEFINE r == call[c].request
<1>1. r \in Requests /\ call[c].at = "prepared" /\ issued[r] = 0 /\ Phase(r) = "INTENT"
  BY DEF IInv, TypeOK, OneActivation, Activate, At
<1>2. PICK point \in {"answered", "handling", "handlingReceipt"} : Goes(c, point)
  BY DEF Activate
<1>3. /\ call' \in [Threads -> [at : Points, request : Requests]]
      /\ \A d \in Threads : /\ call'[d].request = call[d].request
                            /\ call'[d].at = IF d = c THEN point ELSE call[d].at
  BY <1>2, Going DEF Points, Activating
<1>4. UNCHANGED <<journal, projection>> /\ issued' = [issued EXCEPT ![r] = @ + 1]
  BY DEF Activate
<1>5. broker' = broker \/ broker' = [broker EXCEPT ![r] = "inFlight"]
  BY DEF Activate
<1>6. TypeOK'
  BY <1>1, <1>3, <1>4, <1>5 DEF IInv, TypeOK, Points
<1>7. OneOperation' /\ ReceiptsMatchPhases' /\ ProjectionAgrees'
  BY <1>4 DEF IInv, OneOperation, ReceiptsMatchPhases, ProjectionAgrees, Phase
<1>8. ErasedReceiptsAreCompleted'
  BY <1>1, <1>4, <1>5 DEF IInv, TypeOK, ErasedReceiptsAreCompleted, Phase
<1>9. OneActivation'
  <2>1. \A s \in Requests : issued'[s] = IF s = r THEN 1 ELSE issued[s]
    BY <1>1, <1>4 DEF IInv, TypeOK
  <2>2. QED
    BY <1>1, <1>2, <1>3, <1>4, <2>1 DEF IInv, OneActivation, Phase, At, Activating
<1>10. FinishersHaveCompleted'
  BY <1>1, <1>2, <1>3, <1>4, <1>5 DEF IInv, TypeOK, FinishersHaveCompleted, Phase, Reconciling
<1>11. QED
  BY <1>6, <1>7, <1>8, <1>9, <1>10 DEF IInv

\* record_package_binding_outcome, from an activation or a reconciliation: the
\* request is the only one in the journal and not completed.
LEMMA RecordStep ==
  ASSUME IInv, NEW c \in Threads, NEW phase \in {"OUTCOME_PENDING_COMPLETE", "PENDING_RECONCILE"},
         NEW point \in {"idle", "completing", "handling", "handlingReceipt", "recompleting"},
         point \in Activating => call[c].at \in Activating,
         call[c].at \in (Activating \ {"prepared"}) \cup Reconciling,
         Records(call[c].request, phase), Goes(c, point), UNCHANGED <<broker, issued>>
  PROVE  IInv'
<1> DEFINE r == call[c].request
<1>1. /\ call' \in [Threads -> [at : Points, request : Requests]]
      /\ \A d \in Threads : /\ call'[d].request = call[d].request
                            /\ call'[d].at = IF d = c THEN point ELSE call[d].at
  BY Going DEF Points, Activating, Reconciling
<1>2. r \in Requests /\ Phase(r) \notin {"none", "COMPLETED"}
  BY DEF IInv, TypeOK, Records, Recordable
<1>3. /\ journal' \in [Requests -> [phase : Phases, receipt : BOOLEAN]]
      /\ \A s \in Requests : journal'[s] =
            IF s = r THEN [phase |-> phase, receipt |-> TRUE] ELSE journal[s]
  <2>1. Journals(r, phase, TRUE) /\ phase \in Phases
    BY DEF Records, Phases
  <2>2. QED
    BY <1>2, <2>1, Journaling
<1>4. projection' = phase
  BY DEF Records
<1>5. TypeOK'
  BY <1>1, <1>3, <1>4 DEF IInv, TypeOK, Points, Phases
<1>6. OneOperation' /\ ReceiptsMatchPhases'
  BY <1>2, <1>3 DEF IInv, OneOperation, ReceiptsMatchPhases, Phase
<1>7. ProjectionAgrees' /\ ErasedReceiptsAreCompleted'
  <2>1. \A s \in Requests : s # r => Phase(s) = "none"
    BY <1>2 DEF IInv, OneOperation
  <2>2. \A s \in Requests : Phase(s)' # "COMPLETED"
    BY <1>3, <2>1 DEF Phase
  <2>3. QED
    BY <1>4, <2>2 DEF ProjectionAgrees, ErasedReceiptsAreCompleted
<1>8. OneActivation'
  <2>1. \A d \in Threads : call'[d].at = "prepared" => d # c /\ call[d].request # r
    <3>1. SUFFICES ASSUME NEW d \in Threads, call'[d].at = "prepared", call[d].request = r
                   PROVE  FALSE
      BY <1>1
    <3>2. d # c /\ call[d].at = "prepared"
      BY <1>1, <3>1
    <3>3. Phase(r) = "INTENT" /\ call[d].at \in Activating
      BY <3>1, <3>2 DEF IInv, OneActivation, At, Activating
    <3>4. call[c].at \in Reconciling
      BY <3>2, <3>3 DEF IInv, OneActivation
    <3>5. QED
      BY <3>3, <3>4 DEF IInv, FinishersHaveCompleted
  <2>2. \A d \in Threads : call'[d].at \in Activating => call[d].at \in Activating
    BY <1>1
  <2>3. \A d \in Threads : At(d, "prepared")' => d # c /\ At(d, "prepared")
    BY <1>1 DEF At
  <2>4. \A d \in Threads : call[d].request \in Requests
    BY DEF IInv, TypeOK
  <2>5. \A s \in Requests : Phase(s) # "none" => Phase(s)' # "none"
    BY <1>3 DEF Phase
  <2>6. \A s \in Requests : s # r => Phase(s)' = Phase(s)
    BY <1>3 DEF Phase
  <2>7. QED
    BY <1>1, <2>1, <2>2, <2>3, <2>4, <2>5, <2>6 DEF IInv, OneActivation, At
<1>9. FinishersHaveCompleted'
  BY <1>1, <1>2, <1>3 DEF IInv, FinishersHaveCompleted, Phase, Reconciling
<1>10. QED
  BY <1>5, <1>6, <1>7, <1>8, <1>9 DEF IInv

\* mark_package_binding_unknown, from the except clauses of activate: no call
\* that completes or reconciles works on an operation without a receipt.
LEMMA HandlingStep ==
  ASSUME IInv, NEW c \in Threads, MarksUnknown(call[c].request), Goes(c, "idle"),
         call[c].at \in {"handling", "handlingReceipt"}, UNCHANGED <<broker, issued>>
  PROVE  IInv'
<1> DEFINE r == call[c].request
<1>1. CASE UNCHANGED <<journal, projection>>
  BY <1>1, QuietStep
<1>2. CASE /\ Phase(r) \in {"INTENT", "UNKNOWN"} /\ Journals(r, "UNKNOWN", FALSE)
           /\ projection' \in {projection, "UNKNOWN"}
  <2>1. /\ call' \in [Threads -> [at : Points, request : Requests]]
        /\ \A d \in Threads : /\ call'[d].request = call[d].request
                              /\ call'[d].at = IF d = c THEN "idle" ELSE call[d].at
    BY Going DEF Points
  <2>2. r \in Requests
    BY DEF IInv, TypeOK
  <2>3. /\ journal' \in [Requests -> [phase : Phases, receipt : BOOLEAN]]
        /\ \A s \in Requests : journal'[s] =
              IF s = r THEN [phase |-> "UNKNOWN", receipt |-> FALSE] ELSE journal[s]
    BY <1>2, <2>2, Journaling DEF Phases
  <2>4. TypeOK'
    BY <1>2, <2>1, <2>3 DEF IInv, TypeOK, Points, Phases
  <2>5. OneOperation' /\ ReceiptsMatchPhases'
    BY <1>2, <2>2, <2>3 DEF IInv, OneOperation, ReceiptsMatchPhases, Phase
  <2>6. ErasedReceiptsAreCompleted'
    BY <1>2, <2>2, <2>3 DEF IInv, ErasedReceiptsAreCompleted, Phase
  <2>7. ProjectionAgrees'
    <3>1. \A s \in Requests : Phase(s) # "COMPLETED"
      <4>1. \A s \in Requests : s # r => Phase(s) = "none"
        BY <1>2, <2>2 DEF IInv, OneOperation
      <4>2. QED
        BY <1>2, <4>1
    <3>2. projection' # "ACTIVE"
      BY <1>2, <3>1 DEF IInv, ProjectionAgrees
    <3>3. \A s \in Requests : Phase(s)' # "COMPLETED"
      BY <2>3, <3>1 DEF Phase
    <3>4. QED
      BY <3>2, <3>3 DEF ProjectionAgrees
  <2>8. OneActivation'
    <3>1. call[c].at \in Activating
      BY DEF Activating
    <3>2. \A d \in Threads : call'[d].at \in Activating => FALSE
      BY <2>1, <3>1 DEF IInv, OneActivation, Activating
    <3>3. \A s \in Requests : Phase(s) # "none" => Phase(s)' # "none"
      BY <2>3 DEF Phase
    <3>4. \A d \in Threads : ~At(d, "prepared")'
      BY <3>2 DEF At, Activating
    <3>5. QED
      BY <3>2, <3>3, <3>4 DEF IInv, OneActivation
  <2>9. FinishersHaveCompleted'
    <3>1. \A d \in Threads : call[d].at \in Reconciling \cup {"completing", "finishing"}
            => call[d].request # r
      BY <1>2 DEF IInv, FinishersHaveCompleted
    <3>2. \A d \in Threads : call[d].request \in Requests
      BY DEF IInv, TypeOK
    <3>3. \A s \in Requests : s # r => Phase(s)' = Phase(s)
      BY <2>3 DEF Phase
    <3>4. QED
      BY <2>1, <3>1, <3>2, <3>3 DEF IInv, FinishersHaveCompleted, Reconciling
  <2>10. QED
    BY <2>4, <2>5, <2>6, <2>7, <2>8, <2>9 DEF IInv
<1>3. QED
  BY <1>1, <1>2 DEF MarksUnknown

\* The SDK completes the broker's operation, for either kind of call.
LEMMA CompleteStep ==
  ASSUME IInv, NEW c \in Threads, CompleteActivation(c) \/ CompleteReconciliation(c)
  PROVE  IInv'
<1> DEFINE r == call[c].request
<1>1. PICK point \in {"finishing", "refinishing", "handling", "handlingReceipt", "idle"} :
        /\ Goes(c, point)
        /\ point \in {"finishing", "handling", "handlingReceipt"} => call[c].at = "completing"
        /\ point = "refinishing" => call[c].at = "recompleting"
        /\ \/ broker' = broker /\ point \notin {"finishing", "refinishing"}
           \/ broker' = [broker EXCEPT ![r] = "completed"]
        /\ UNCHANGED <<journal, projection, issued>>
  BY DEF CompleteActivation, CompleteReconciliation, Complete, At
<1>2. /\ call' \in [Threads -> [at : Points, request : Requests]]
      /\ \A d \in Threads : /\ call'[d].request = call[d].request
                            /\ call'[d].at = IF d = c THEN point ELSE call[d].at
  BY <1>1, Going DEF Points, Activating, Reconciling
<1>3. r \in Requests
  BY DEF IInv, TypeOK
<1>4. TypeOK'
  BY <1>1, <1>2, <1>3 DEF IInv, TypeOK, Points
<1>5. /\ OneOperation' /\ ReceiptsMatchPhases' /\ ProjectionAgrees'
  BY <1>1 DEF IInv, OneOperation, ReceiptsMatchPhases, ProjectionAgrees, Phase
<1>6. \A s \in Requests : broker[s] = "completed" => broker'[s] = "completed"
  BY <1>1, <1>3 DEF IInv, TypeOK
<1>7. ErasedReceiptsAreCompleted'
  BY <1>1, <1>6 DEF IInv, ErasedReceiptsAreCompleted, Phase
<1>8. OneActivation'
  BY <1>1, <1>2 DEF IInv, OneActivation, Phase, At, Activating
<1>9. FinishersHaveCompleted'
  <2>1. point \in {"finishing", "refinishing"} => broker'[r] = "completed"
    BY <1>1, <1>3 DEF IInv, TypeOK
  <2>2. \A d \in Threads : call[d].request \in Requests
    BY DEF IInv, TypeOK
  <2>3. QED
    BY <1>1, <1>2, <1>6, <2>1, <2>2 DEF IInv, FinishersHaveCompleted, Phase, Reconciling
<1>10. QED
  BY <1>4, <1>5, <1>7, <1>8, <1>9 DEF IInv

\* mark_package_binding_completed: whoever calls it has had the broker complete.
LEMMA CompletedStep ==
  ASSUME IInv, NEW c \in Threads, MarksCompleted(call[c].request), Goes(c, "idle"),
         call[c].at \in {"finishing", "refinishing"}, UNCHANGED <<broker, issued>>
  PROVE  IInv'
<1> DEFINE r == call[c].request
<1>1. /\ call' \in [Threads -> [at : Points, request : Requests]]
      /\ \A d \in Threads : /\ call'[d].request = call[d].request
                            /\ call'[d].at = IF d = c THEN "idle" ELSE call[d].at
  BY Going DEF Points
<1>2. r \in Requests /\ broker[r] = "completed"
  BY DEF IInv, TypeOK, FinishersHaveCompleted
<1>3. Phase(r) \in {"OUTCOME_PENDING_COMPLETE", "COMPLETED"} /\ projection' = "ACTIVE"
  BY DEF MarksCompleted
<1>4. /\ journal' \in [Requests -> [phase : Phases, receipt : BOOLEAN]]
      /\ \A s \in Requests : journal'[s] =
            IF s = r THEN [phase |-> "COMPLETED", receipt |-> FALSE] ELSE journal[s]
  BY <1>2, Journaling DEF MarksCompleted, Phases
<1>5. TypeOK'
  BY <1>1, <1>3, <1>4 DEF IInv, TypeOK, Points
<1>6. OneOperation' /\ ReceiptsMatchPhases'
  BY <1>2, <1>3, <1>4 DEF IInv, OneOperation, ReceiptsMatchPhases, Phase
<1>7. ProjectionAgrees' /\ ErasedReceiptsAreCompleted'
  BY <1>2, <1>3, <1>4 DEF IInv, ProjectionAgrees, ErasedReceiptsAreCompleted, Phase
<1>8. OneActivation'
  <2>1. \A d \in Threads : call[d].at = "prepared" => call[d].request # r
    BY <1>3 DEF IInv, OneActivation, At
  <2>2. QED
    BY <1>1, <1>2, <1>3, <1>4, <2>1 DEF IInv, OneActivation, Phase, At, Activating
<1>9. FinishersHaveCompleted'
  BY <1>1, <1>2, <1>4 DEF IInv, FinishersHaveCompleted, Phase, Reconciling
<1>10. QED
  BY <1>5, <1>6, <1>7, <1>8, <1>9 DEF IInv

\* reconcile reads an operation with a receipt.
LEMMA LoadStep ==
  ASSUME IInv, NEW c \in Threads, NEW r \in Requests, Load(c, r)
  PROVE  IInv'
  BY DEF IInv, TypeOK, OneOperation, ReceiptsMatchPhases, OneActivation,
         FinishersHaveCompleted, ErasedReceiptsAreCompleted, ProjectionAgrees,
         Phases, Activating, Reconciling, Phase, At, Load

\* A crash forgets the calls and nothing else.
LEMMA CrashStep ==
  ASSUME IInv, Crash
  PROVE  IInv'
  BY DEF IInv, TypeOK, OneOperation, ReceiptsMatchPhases, OneActivation,
         FinishersHaveCompleted, ErasedReceiptsAreCompleted, ProjectionAgrees,
         Phases, Activating, Reconciling, Phase, At, Crash, Idle

\* Every step of the system keeps the invariant.
LEMMA NextKeepsIInv == IInv /\ [Next]_vars => IInv'
<1> SUFFICES ASSUME IInv, [Next]_vars PROVE IInv'
  OBVIOUS
<1>1. CASE Crash
  BY <1>1, CrashStep
<1>2. CASE \E c \in Threads, r \in Requests : Begin(c, r) \/ Load(c, r)
  BY <1>2, BeginStep, LoadStep
<1>3. ASSUME NEW c \in Threads, NotSent(c) PROVE IInv'
  BY <1>3, QuietStep DEF NotSent, At, Activating
<1>4. ASSUME NEW c \in Threads, Activate(c) PROVE IInv'
  BY <1>4, ActivateStep
<1>5. ASSUME NEW c \in Threads, Persist(c) PROVE IInv'
  <2>1. call[c].at = "answered" /\ UNCHANGED <<broker, issued>>
    BY <1>5 DEF Persist, At
  <2>2. CASE Records(call[c].request, "OUTCOME_PENDING_COMPLETE") /\ Goes(c, "completing")
    BY <2>1, <2>2, RecordStep DEF Activating
  <2>3. ASSUME NEW point \in {"handling", "handlingReceipt"}, Goes(c, point),
               Records(call[c].request, "PENDING_RECONCILE")
        PROVE  IInv'
    BY <2>1, <2>3, RecordStep DEF Activating
  <2>4. ASSUME NEW point \in {"handling", "handlingReceipt"}, Goes(c, point),
               UNCHANGED <<journal, projection>>
        PROVE  IInv'
    BY <2>1, <2>4, QuietStep DEF Activating
  <2>5. QED
    BY <1>5, <2>2, <2>3, <2>4 DEF Persist
<1>6. ASSUME NEW c \in Threads, CompleteActivation(c) \/ CompleteReconciliation(c) PROVE IInv'
  BY <1>6, CompleteStep
<1>7. ASSUME NEW c \in Threads, Finish(c) \/ FinishReconciliation(c) PROVE IInv'
  <2>1. call[c].at \in {"finishing", "refinishing"} /\ UNCHANGED <<broker, issued>>
    BY <1>7 DEF Finish, FinishReconciliation, At
  <2>2. CASE MarksCompleted(call[c].request) /\ Goes(c, "idle")
    BY <2>1, <2>2, CompletedStep
  <2>3. CASE UNCHANGED <<journal, projection>> /\ Goes(c, "idle")
    BY <2>1, <2>3, QuietStep
  <2>4. CASE call[c].at = "finishing" /\ UNCHANGED <<journal, projection>> /\ Goes(c, "handling")
    BY <2>1, <2>4, QuietStep DEF Activating
  <2>5. QED
    BY <1>7, <2>2, <2>3, <2>4 DEF Finish, FinishReconciliation, At
<1>8. ASSUME NEW c \in Threads, Handle(c) PROVE IInv'
  <2>1. /\ call[c].at \in {"handling", "handlingReceipt"} /\ Goes(c, "idle")
        /\ UNCHANGED <<broker, issued>>
    BY <1>8 DEF Handle, At
  <2>2. CASE Records(call[c].request, "PENDING_RECONCILE")
    BY <2>1, <2>2, RecordStep DEF Activating
  <2>3. CASE MarksUnknown(call[c].request)
    BY <2>1, <2>3, HandlingStep
  <2>4. CASE UNCHANGED <<journal, projection>>
    BY <2>1, <2>4, QuietStep
  <2>5. QED
    BY <1>8, <2>2, <2>3, <2>4 DEF Handle
<1>9. ASSUME NEW c \in Threads, Readback(c) PROVE IInv'
  <2>1. call[c].at = "reading" /\ UNCHANGED <<broker, issued>>
    BY <1>9 DEF Readback, At
  <2>2. CASE Records(call[c].request, "OUTCOME_PENDING_COMPLETE") /\ Goes(c, "recompleting")
    BY <2>1, <2>2, RecordStep DEF Activating, Reconciling
  <2>3. CASE UNCHANGED <<journal, projection>> /\ Goes(c, "idle")
    BY <2>1, <2>3, QuietStep
  <2>4. QED
    BY <1>9, <2>2, <2>3 DEF Readback
<1>10. CASE UNCHANGED vars
  BY <1>10 DEF vars, IInv, TypeOK, OneOperation, ReceiptsMatchPhases, OneActivation,
               FinishersHaveCompleted, ErasedReceiptsAreCompleted, ProjectionAgrees, Phase, At
<1>11. QED
  BY <1>1, <1>2, <1>3, <1>4, <1>5, <1>6, <1>7, <1>8, <1>9, <1>10 DEF Next

-----------------------------------------------------------------------------
(* The safety properties. *)

\* The invariant holds in every reachable state.
THEOREM Invariance == Spec => []IInv
<1>1. Init => IInv
  BY InitIInv
<1>2. IInv /\ [Next]_vars => IInv'
  BY NextKeepsIInv
<1>3. QED
  BY <1>1, <1>2, PTL DEF Spec

\* Both tables, the calls and the broker keep their types.
THEOREM TypeCorrect == Spec => []TypeOK
<1>1. IInv => TypeOK
  BY DEF IInv
<1>2. QED
  BY <1>1, Invariance, PTL

\* Whatever the calls, their overlaps and the crashes, one Activate at most is
\* sent for the binding (activate and reconcile of package_runtime_owner.py).
THEOREM ActivatesOnce == Spec => []ActivatedOnce
<1>1. IInv => ActivatedOnce
  BY DEF IInv, OneActivation, OneOperation, ActivatedOnce
<1>2. QED
  BY <1>1, Invariance, PTL

\* The receipt is erased after the broker's operation is completed and never
\* before (mark_package_binding_completed).
THEOREM ErasesOnlyCompleted == Spec => []ErasedReceiptsAreCompleted
<1>1. IInv => ErasedReceiptsAreCompleted
  BY DEF IInv
<1>2. QED
  BY <1>1, Invariance, PTL

\* The owner state says ACTIVE exactly when the journal has a completed operation,
\* so that begin_package_binding_operation, which reads both, is not misled.
THEOREM ProjectionIsRight == Spec => []ProjectionAgrees
<1>1. IInv => ProjectionAgrees
  BY DEF IInv
<1>2. QED
  BY <1>1, Invariance, PTL

-----------------------------------------------------------------------------
(* The refinement of BindingContract. *)

\* What the contract sees of the system.
Fate == [r \in Requests |-> FateOf(r)]

\* The contract sees the phases and nothing else.
LEMMA SameFate ==
  ASSUME \A r \in Requests : Phase(r)' = Phase(r)
  PROVE  UNCHANGED Fate
<1>1. \A r \in Requests : FateOf(r)' = FateOf(r)
  BY DEF FateOf
<1>2. QED
  BY <1>1 DEF Fate

\* A transaction moves the phase of one request.
LEMMA PhaseMoves ==
  ASSUME IInv, NEW r \in Requests, NEW phase \in Phases, NEW receipt \in BOOLEAN,
         Journals(r, phase, receipt)
  PROVE  Phase(r)' = phase /\ \A s \in Requests : s # r => Phase(s)' = Phase(s)
<1>1. \A s \in Requests : journal'[s] =
         IF s = r THEN [phase |-> phase, receipt |-> receipt] ELSE journal[s]
  BY Journaling
<1>2. QED
  BY <1>1 DEF Phase

\* A transaction moves one fate of the contract.
LEMMA MovesFate ==
  ASSUME IInv, NEW r \in Requests, NEW phase \in Phases, NEW receipt \in BOOLEAN,
         NEW from, NEW to, Journals(r, phase, receipt), FateOf(r) = from, FateOf(r)' = to
  PROVE  Promise!Moves(r, from, to)
<1>1. \A s \in Requests : s # r => Phase(s)' = Phase(s)
  BY PhaseMoves
<1>2. \A s \in Requests : s # r => FateOf(s)' = FateOf(s)
  BY <1>1 DEF FateOf
<1>3. QED
  BY <1>2 DEF Promise!Moves

\* An intent is reserved only when no request was ever asked: a pending one and a
\* completed one, through the projection, both refuse it.
LEMMA BeginFate ==
  ASSUME IInv, NEW c \in Threads, NEW r \in Requests, Begin(c, r)
  PROVE  Promise!ContractNext
<1>1. \A s \in Requests : Phase(s) = "none"
  BY DEF IInv, ProjectionAgrees, Begin, Reservable
<1>2. Journals(r, "INTENT", FALSE)
  BY DEF Begin
<1>3. Phase(r)' = "INTENT"
  BY <1>2, PhaseMoves DEF Phases
<1>4. \A s \in Requests : FateOf(s) = "none"
  BY <1>1 DEF FateOf
<1>5. FateOf(r)' = "asked"
  BY <1>3 DEF FateOf
<1>6. Promise!Ask(r)
  BY <1>2, <1>4, <1>5, MovesFate DEF Promise!Ask, Phases
<1>7. QED
  BY <1>6 DEF Promise!ContractNext

\* A first receipt is the contract's Answer; a later outcome is no step of it.
LEMMA RecordsFate ==
  ASSUME IInv, NEW r \in Requests, NEW phase \in {"OUTCOME_PENDING_COMPLETE", "PENDING_RECONCILE"},
         Records(r, phase)
  PROVE  Promise!ContractNext \/ UNCHANGED Fate
<1>1. Journals(r, phase, TRUE) /\ phase \in Phases
  BY DEF Records, Phases
<1>2. Phase(r)' = phase /\ \A s \in Requests : s # r => Phase(s)' = Phase(s)
  BY <1>1, PhaseMoves
<1>3. FateOf(r)' = "receipted"
  BY <1>2 DEF FateOf
<1>4. CASE Phase(r) = "INTENT"
  <2>1. FateOf(r) = "asked"
    BY <1>4 DEF FateOf
  <2>2. Promise!Answer(r)
    BY <1>1, <1>3, <2>1, MovesFate DEF Promise!Answer
  <2>3. QED
    BY <2>2 DEF Promise!ContractNext
<1>5. CASE Phase(r) # "INTENT"
  <2>1. FateOf(r) = "receipted"
    BY <1>5 DEF FateOf, Records, Recordable
  <2>2. \A s \in Requests : FateOf(s)' = FateOf(s)
    BY <1>2, <1>3, <2>1 DEF FateOf
  <2>3. QED
    BY <2>2 DEF Fate
<1>6. QED
  BY <1>4, <1>5

\* An operation first marked UNKNOWN is the contract's Lose.
LEMMA UnknownFate ==
  ASSUME IInv, NEW r \in Requests, MarksUnknown(r)
  PROVE  Promise!ContractNext \/ UNCHANGED Fate
<1>1. CASE UNCHANGED journal
  BY <1>1, SameFate DEF Phase
<1>2. CASE Phase(r) \in {"INTENT", "UNKNOWN"} /\ Journals(r, "UNKNOWN", FALSE)
  <2>1. Phase(r)' = "UNKNOWN" /\ \A s \in Requests : s # r => Phase(s)' = Phase(s)
    BY <1>2, PhaseMoves DEF Phases
  <2>2. FateOf(r)' = "lost"
    BY <2>1 DEF FateOf
  <2>3. CASE Phase(r) = "INTENT"
    <3>1. FateOf(r) = "asked"
      BY <2>3 DEF FateOf
    <3>2. Promise!Lose(r)
      BY <1>2, <2>2, <3>1, MovesFate DEF Promise!Lose, Phases
    <3>3. QED
      BY <3>2 DEF Promise!ContractNext
  <2>4. CASE Phase(r) = "UNKNOWN"
    BY <2>1, <2>4, SameFate
  <2>5. QED
    BY <1>2, <2>3, <2>4
<1>3. QED
  BY <1>1, <1>2 DEF MarksUnknown

\* The first completion is the contract's Bind; a second one is no step of it.
LEMMA CompletedFate ==
  ASSUME IInv, NEW r \in Requests, MarksCompleted(r)
  PROVE  Promise!ContractNext \/ UNCHANGED Fate
<1>1. Phase(r)' = "COMPLETED" /\ \A s \in Requests : s # r => Phase(s)' = Phase(s)
  BY PhaseMoves DEF MarksCompleted, Phases
<1>2. FateOf(r)' = "bound"
  BY <1>1 DEF FateOf
<1>3. CASE Phase(r) = "OUTCOME_PENDING_COMPLETE"
  <2>1. FateOf(r) = "receipted"
    BY <1>3 DEF FateOf
  <2>2. Promise!Bind(r)
    BY <1>2, <2>1, MovesFate DEF Promise!Bind, MarksCompleted, Phases
  <2>3. QED
    BY <2>2 DEF Promise!ContractNext
<1>4. CASE Phase(r) = "COMPLETED"
  BY <1>1, <1>4, SameFate
<1>5. QED
  BY <1>3, <1>4 DEF MarksCompleted

\* Every step of the system is a step of the contract or none.
LEMMA NextKeepsContract == IInv /\ [Next]_vars => [Promise!ContractNext]_Fate
<1> SUFFICES ASSUME IInv, [Next]_vars PROVE Promise!ContractNext \/ UNCHANGED Fate
  OBVIOUS
<1>1. UNCHANGED journal => UNCHANGED Fate
  BY SameFate DEF Phase
<1>2. ASSUME NEW c \in Threads, NEW r \in Requests, Begin(c, r)
      PROVE  Promise!ContractNext
  BY <1>2, BeginFate
<1>3. ASSUME NEW c \in Threads,
             Persist(c) \/ Handle(c) \/ Readback(c) \/ Finish(c) \/ FinishReconciliation(c)
      PROVE  Promise!ContractNext \/ UNCHANGED Fate
  <2>1. call[c].request \in Requests
    BY DEF IInv, TypeOK
  <2>2. \/ \E phase \in {"OUTCOME_PENDING_COMPLETE", "PENDING_RECONCILE"} :
             Records(call[c].request, phase)
        \/ MarksUnknown(call[c].request)
        \/ MarksCompleted(call[c].request)
        \/ UNCHANGED journal
    BY <1>3 DEF Persist, Handle, Readback, Finish, FinishReconciliation
  <2>3. QED
    BY <1>1, <2>1, <2>2, RecordsFate, UnknownFate, CompletedFate
<1>4. ASSUME NEW c \in Threads,
             \/ NotSent(c) \/ Activate(c) \/ CompleteActivation(c) \/ CompleteReconciliation(c)
             \/ \E r \in Requests : Load(c, r)
      PROVE  UNCHANGED journal
  BY <1>4 DEF NotSent, Activate, CompleteActivation, CompleteReconciliation, Complete, Load
<1>5. Crash \/ UNCHANGED vars => UNCHANGED journal
  BY DEF Crash, vars
<1>6. QED
  BY <1>1, <1>2, <1>3, <1>4, <1>5 DEF Next

\* The owner implements BindingContract: activations, reconciliations and crashes
\* accept one request, and take it nowhere but to a receipt and a binding, or to
\* loss for good.
THEOREM ImplementsBindingContract == Spec => KeepsBindingContract
<1>1. Init => Promise!ContractInit
  BY DEF Init, Promise!ContractInit, FateOf, Phase
<1>2. IInv /\ [Next]_vars => [Promise!ContractNext]_Fate
  BY NextKeepsContract
<1>3. QED
  BY <1>1, <1>2, Invariance, PTL DEF Spec, KeepsBindingContract, Promise!Contract, Fate

=============================================================================
