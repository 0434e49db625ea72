---------------------------- MODULE PackageBinding ----------------------------
(***************************************************************************)
(* PackageBindingOwner (package_runtime_owner.py) and the two tables of    *)
(* ProductStore it keeps: the journal of operations and the projection     *)
(* that says which state the binding is in (product_store.py).             *)
(*                                                                         *)
(* Activations and reconciliations of the one configured binding run in    *)
(* threads of their own.  A call is several transactions and RPCs with no  *)
(* lock held in between, so any two calls overlap, and the process may die *)
(* between any two steps.  The Package Runtime and its SDK are external:   *)
(* an RPC may fail with or without having taken effect, and an error may   *)
(* or may not carry the receipt of the operation that is pending.          *)
(*                                                                         *)
(* What an operation activates is left out: a request that names another   *)
(* installation, or a binding that is already active, is refused or        *)
(* answered without a change.                                              *)
(***************************************************************************)
EXTENDS Naturals

CONSTANTS
  Threads,    \* threads of the HTTP server
  Requests    \* request ids of activations

VARIABLES
  journal,      \* package_binding_operations: phase and receipt of each request
  projection,   \* phase of package_binding_owner_state
  call,         \* what each thread is doing, and for which request
  broker,       \* external: the Package Runtime's operation of each request
  issued        \* history: Activate RPCs sent for each request

vars == <<journal, projection, call, broker, issued>>

Phases == {"none", "INTENT", "OUTCOME_PENDING_COMPLETE", "PENDING_RECONCILE", "UNKNOWN",
           "COMPLETED"}

\* An activation goes prepared, answered, completing, finishing and, when
\* something raises, handling (with the pending receipt or without); a
\* reconciliation goes reading, recompleting, refinishing.
Activating == {"prepared", "answered", "completing", "finishing", "handling", "handlingReceipt"}
Reconciling == {"reading", "recompleting", "refinishing"}

Idle(r) == [at |-> "idle", request |-> r]

Init ==
  /\ journal = [r \in Requests |-> [phase |-> "none", receipt |-> FALSE]]
  /\ projection = "UNBOUND"
  /\ call \in [Threads -> {Idle(r) : r \in Requests}]
  /\ broker = [r \in Requests |-> "none"]
  /\ issued = [r \in Requests |-> 0]

Phase(r) == journal[r].phase

At(c, point) == call[c].at = point

Goes(c, point) == call' = [call EXCEPT ![c].at = point]

-----------------------------------------------------------------------------
(* The transactions of ProductStore. *)

Journals(r, phase, receipt) ==
  journal' = [journal EXCEPT ![r] = [phase |-> phase, receipt |-> receipt]]

\* Mutant of Reservable: only the journal is looked at.
ReservableByJournal(r) ==
  /\ Phase(r) = "none"
  /\ \A s \in Requests : Phase(s) \in {"none", "COMPLETED"}

\* begin_package_binding_operation: a new request, no binding, nothing pending.
Reservable(r) ==
  /\ Phase(r) = "none"
  /\ projection # "ACTIVE"
  /\ \A s \in Requests : Phase(s) \in {"none", "COMPLETED"}

\* record_package_binding_outcome, which commits, or conflicts with the phase.
Recordable(r) == Phase(r) \in {"INTENT", "OUTCOME_PENDING_COMPLETE", "PENDING_RECONCILE"}

Records(r, phase) == Recordable(r) /\ Journals(r, phase, TRUE) /\ projection' = phase

\* Mutant of MarksUnknown: what is known of the operation is not looked at.
MarksUnknownBlindly(r) == Journals(r, "UNKNOWN", FALSE) /\ projection' = "UNKNOWN"

\* mark_package_binding_unknown: the projection is a second transaction, which
\* may fail.  An operation with a receipt, or a completed one, is left alone.
MarksUnknown(r) ==
  IF Phase(r) \in {"INTENT", "UNKNOWN"} /\ ~journal[r].receipt
    THEN Journals(r, "UNKNOWN", FALSE) /\ projection' \in {projection, "UNKNOWN"}
    ELSE UNCHANGED <<journal, projection>>

\* Mutant of MarksCompleted: the projection is not brought along.
MarksCompletedInJournal(r) ==
  /\ Phase(r) \in {"OUTCOME_PENDING_COMPLETE", "COMPLETED"}
  /\ Journals(r, "COMPLETED", FALSE)
  /\ UNCHANGED projection

\* Mutant of MarksCompleted: the projection takes the journal's phase.
MarksCompletedByName(r) ==
  /\ Phase(r) \in {"OUTCOME_PENDING_COMPLETE", "COMPLETED"}
  /\ Journals(r, "COMPLETED", FALSE)
  /\ projection' = "COMPLETED"

\* mark_package_binding_completed erases the receipt.
MarksCompleted(r) ==
  /\ Phase(r) \in {"OUTCOME_PENDING_COMPLETE", "COMPLETED"}
  /\ Journals(r, "COMPLETED", FALSE)
  /\ projection' = "ACTIVE"

-----------------------------------------------------------------------------
(* activate *)

Begin(c, r) ==
  /\ At(c, "idle")
  /\ Reservable(r)
  /\ Journals(r, "INTENT", FALSE) /\ projection' = "INTENT"
  /\ call' = [call EXCEPT ![c] = [at |-> "prepared", request |-> r]]
  /\ UNCHANGED <<broker, issued>>

\* No client, no such installation, or an intent that is not there any more.
NotSent(c) ==
  /\ At(c, "prepared")
  /\ Goes(c, "handling")
  /\ UNCHANGED <<journal, projection, broker, issued>>

\* The SDK's callback verifies the intent and the Activate RPC goes out.
Activate(c) ==
  LET r == call[c].request IN
  /\ At(c, "prepared")
  /\ Phase(r) = "INTENT"
  /\ issued' = [issued EXCEPT ![r] = @ + 1]
  /\ \/ /\ broker' = [broker EXCEPT ![r] = "inFlight"]
        /\ Goes(c, "answered") \/ Goes(c, "handlingReceipt") \/ Goes(c, "handling")
     \/ UNCHANGED broker /\ Goes(c, "handling")
  /\ UNCHANGED <<journal, projection>>

\* The SDK's callback records a healthy status, or an unhealthy one and raises;
\* or the transaction fails.
Persist(c) ==
  LET r == call[c].request IN
  /\ At(c, "answered")
  /\ \/ Records(r, "OUTCOME_PENDING_COMPLETE") /\ Goes(c, "completing")
     \/ /\ Records(r, "PENDING_RECONCILE") \/ UNCHANGED <<journal, projection>>
        /\ Goes(c, "handlingReceipt") \/ Goes(c, "handling")
  /\ UNCHANGED <<broker, issued>>

\* The SDK completes the broker's operation; the RPC may fail after its effect.
Complete(c, point, next, failed) ==
  LET r == call[c].request IN
  /\ At(c, point)
  /\ \/ broker' = [broker EXCEPT ![r] = "completed"] /\ Goes(c, next)
     \/ /\ UNCHANGED broker \/ broker' = [broker EXCEPT ![r] = "completed"]
        /\ \E to \in failed : Goes(c, to)
  /\ UNCHANGED <<journal, projection, issued>>

\* Mutant of CompleteActivation: an RPC that failed is taken for one that is done.
CompleteActivationTrusting(c) == Complete(c, "completing", "finishing", {"finishing"})

CompleteActivation(c) ==
  Complete(c, "completing", "finishing", {"handling", "handlingReceipt"})

Finish(c) ==
  LET r == call[c].request IN
  /\ At(c, "finishing")
  /\ \/ MarksCompleted(r) /\ Goes(c, "idle")
     \/ UNCHANGED <<journal, projection>> /\ Goes(c, "handling")
  /\ UNCHANGED <<broker, issued>>

\* The except clauses of activate: a pending receipt is recorded if it can be,
\* and otherwise an operation without a receipt is UNKNOWN; a store that fails
\* here too leaves everything as it is.
Handle(c) ==
  LET r == call[c].request IN
  /\ \/ At(c, "handlingReceipt") /\ Records(r, "PENDING_RECONCILE")
     \/ /\ At(c, "handling") \/ At(c, "handlingReceipt")
        /\ MarksUnknown(r) \/ UNCHANGED <<journal, projection>>
  /\ Goes(c, "idle")
  /\ UNCHANGED <<broker, issued>>

-----------------------------------------------------------------------------
(* reconcile *)

\* Only an operation with a receipt is read back; Activate is never sent again.
Load(c, r) ==
  /\ At(c, "idle")
  /\ journal[r].receipt
  /\ Phase(r) \in {"OUTCOME_PENDING_COMPLETE", "PENDING_RECONCILE"}
  /\ call' = [call EXCEPT ![c] = [at |-> "reading", request |-> r]]
  /\ UNCHANGED <<journal, projection, broker, issued>>

\* The runtime's status is read back and, if healthy, recorded; anything else
\* ends the call.
Readback(c) ==
  LET r == call[c].request IN
  /\ At(c, "reading")
  /\ \/ Records(r, "OUTCOME_PENDING_COMPLETE") /\ Goes(c, "recompleting")
     \/ UNCHANGED <<journal, projection>> /\ Goes(c, "idle")
  /\ UNCHANGED <<broker, issued>>

CompleteReconciliation(c) == Complete(c, "recompleting", "refinishing", {"idle"})

\* mark_package_binding_completed refuses when an activation that failed has
\* recorded PENDING_RECONCILE meanwhile.
FinishReconciliation(c) ==
  LET r == call[c].request IN
  /\ At(c, "refinishing")
  /\ MarksCompleted(r) \/ UNCHANGED <<journal, projection>>
  /\ Goes(c, "idle")
  /\ UNCHANGED <<broker, issued>>

\* The process dies: every call is gone, what was committed stays.
Crash ==
  /\ call' = [c \in Threads |-> Idle(call[c].request)]
  /\ UNCHANGED <<journal, projection, broker, issued>>

Next ==
  \/ Crash
  \/ \E c \in Threads :
       \/ NotSent(c) \/ Activate(c) \/ Persist(c) \/ CompleteActivation(c) \/ Finish(c)
       \/ Handle(c) \/ Readback(c) \/ CompleteReconciliation(c) \/ FinishReconciliation(c)
       \/ \E r \in Requests : Begin(c, r) \/ Load(c, r)

Spec == Init /\ [][Next]_vars

-----------------------------------------------------------------------------
(* Properties *)

TypeOK ==
  /\ journal \in [Requests -> [phase : Phases, receipt : BOOLEAN]]
  /\ projection \in (Phases \ {"none", "COMPLETED"}) \cup {"UNBOUND", "ACTIVE"}
  /\ call \in [Threads -> [at : {"idle"} \cup Activating \cup Reconciling, request : Requests]]
  /\ broker \in [Requests -> {"none", "inFlight", "completed"}]
  /\ issued \in [Requests -> Nat]

\* "activate exactly once", "never reissue Activate" (package_runtime_owner.py:95,
\* 201): however activations, repeated requests, reconciliations and crashes
\* interleave, one Activate at most is ever sent for the binding.
ActivatedOnce ==
  /\ \A r \in Requests : issued[r] <= 1
  /\ \A r, s \in Requests : issued[r] > 0 /\ issued[s] > 0 => r = s

\* The receipt, the only way back to a pending operation, is erased after the
\* broker has completed the operation and never before, also when an activation
\* and a reconciliation race to complete it.
ErasedReceiptsAreCompleted ==
  \A r \in Requests : Phase(r) = "COMPLETED" => broker[r] = "completed"

\* The projection, which decides whether another activation may begin, is ACTIVE
\* exactly when the journal has a completed operation.
ProjectionAgrees == projection = "ACTIVE" <=> \E r \in Requests : Phase(r) = "COMPLETED"

-----------------------------------------------------------------------------
(* The inductive invariant: why the properties hold. *)

\* One request at most has a row in the journal.
OneOperation ==
  \A r, s \in Requests : Phase(r) # "none" /\ Phase(s) # "none" => r = s

\* A receipt is kept exactly in the phases that can be read back.
ReceiptsMatchPhases ==
  \A r \in Requests :
    journal[r].receipt <=> Phase(r) \in {"OUTCOME_PENDING_COMPLETE", "PENDING_RECONCILE"}

\* Only the call that inserted the intent works on it; it has not sent Activate
\* while it is prepared.
OneActivation ==
  /\ \A c, d \in Threads : call[c].at \in Activating /\ call[d].at \in Activating => c = d
  /\ \A c \in Threads : call[c].at \in Activating => Phase(call[c].request) # "none"
  /\ \A c \in Threads :
       At(c, "prepared") => Phase(call[c].request) = "INTENT" /\ issued[call[c].request] = 0
  /\ \A r \in Requests : issued[r] > 0 => Phase(r) # "none"
  /\ \A r \in Requests : issued[r] <= 1

\* A reconciliation and a completing activation work on an operation that has,
\* or had, a receipt; nobody finishes before the broker has completed.
FinishersHaveCompleted ==
  \A c \in Threads :
    LET r == call[c].request IN
    /\ call[c].at \in Reconciling \cup {"completing", "finishing"}
         => Phase(r) \in {"OUTCOME_PENDING_COMPLETE", "PENDING_RECONCILE", "COMPLETED"}
    /\ call[c].at \in {"finishing", "refinishing"} => broker[r] = "completed"

IInv ==
  /\ TypeOK /\ OneOperation /\ ReceiptsMatchPhases /\ OneActivation
  /\ FinishersHaveCompleted /\ ErasedReceiptsAreCompleted /\ ProjectionAgrees

-----------------------------------------------------------------------------
(* The contract *)

FateOf(r) ==
  CASE Phase(r) = "none"      -> "none"
    [] Phase(r) = "INTENT"    -> "asked"
    [] Phase(r) = "UNKNOWN"   -> "lost"
    [] Phase(r) = "COMPLETED" -> "bound"
    [] OTHER                  -> "receipted"

Promise == INSTANCE BindingContract WITH fate <- [r \in Requests |-> FateOf(r)]

\* Together the calls implement BindingContract: one request is ever accepted,
\* one without a receipt is lost for good, and one with a receipt stays
\* reconcilable until it is bound.
KeepsBindingContract == Promise!Contract

=============================================================================
