-------------------------------- MODULE RunResume --------------------------------
(***************************************************************************)
(* Resuming a stopped run from one of its checkpoints: YieldService.resume *)
(* over TrainingControlPlane, the receipts of ProductStore, the resume     *)
(* directory of the draft and the trainer's output directory.              *)
(*                                                                         *)
(* All Attempts of a run write to one output directory.  An Attempt that   *)
(* exits publishes the checkpoints that lie there; one that is lost or     *)
(* cancelled publishes nothing.  A resume stages a published checkpoint,   *)
(* appends an Attempt, submits it and saves a receipt: four steps under    *)
(* the service lock, of which any may fail and between any two of which    *)
(* the process may be killed.  (What an Attempt goes through is the matter *)
(* of TrainingControl; here it is pending, running, or has ended.)         *)
(***************************************************************************)
EXTENDS Naturals, Sequences, FiniteSets

CONSTANTS
  Clients,      \* concurrent requests
  Keys,         \* Idempotency-Key headers
  None,         \* no key, or no checkpoint
  Names,        \* checkpoint directories, as numbers in the order of their names
  MaxAttempts,  \* bound: Attempts of the run
  MaxFaults,    \* bound: stagings, submissions and receipts that fail
  MaxCrashes    \* bound: kills of the Product process

ResumeAssumption ==
  /\ Names \subseteq Nat /\ "free" \notin Clients
  /\ MaxAttempts \in Nat \ {0} /\ MaxFaults \in Nat /\ MaxCrashes \in Nat

VARIABLES
  status,    \* of the run
  attempts,  \* its Attempts
  disk,      \* which Attempt wrote each checkpoint directory, 0 when there is none
  resumeDir, \* what is staged for each checkpoint
  receipts,  \* action receipts of resumes
  lock,      \* YieldService._lock
  call,      \* what each request is doing
  faults, crashes

vars == <<status, attempts, disk, resumeDir, receipts, lock, call, faults, crashes>>

Free == "free"

\* The content of a checkpoint: its name and the Attempt that wrote it.
Checkpoints == Names \X (1..MaxAttempts)

Idle == [at |-> "idle", key |-> None, chosen |-> None]

NewAttempt(from, key) == [state |-> "pending", from |-> from, key |-> key, artifacts |-> {}]

Init ==
  /\ status = "running"
  /\ attempts = <<[NewAttempt(None, None) EXCEPT !.state = "running"]>>
  /\ disk = [n \in Names |-> 0]
  /\ resumeDir = [k \in Checkpoints |-> "absent"]
  /\ receipts = {}
  /\ lock = Free
  /\ call = [c \in Clients |-> Idle]
  /\ faults = 0 /\ crashes = 0

Newest == Len(attempts)
NewestIs(state) == attempts[Newest].state = state

Fault == faults < MaxFaults /\ faults' = faults + 1

At(c, point) == call[c].at = point
Goes(c, point) == call' = [call EXCEPT ![c].at = point]

\* Mutant of LockFree: resumes do not exclude each other, nor the loop.
NoLock == TRUE

LockFree == lock = Free

\* The call is over and the lock, which this call may hold, is given back.
Ends(c) ==
  /\ call' = [call EXCEPT ![c] = Idle]
  /\ lock' = IF lock = c THEN Free ELSE lock

-----------------------------------------------------------------------------
(* The trainer, and the reconcile loop that observes it.                   *)

Saves(name) ==
  /\ NewestIs("running")
  /\ disk' = [disk EXCEPT ![name] = Newest]
  /\ UNCHANGED <<status, attempts, resumeDir, receipts, lock, call, faults, crashes>>

\* save_total_limit of the trainer.
Rotates(name) ==
  /\ NewestIs("running") /\ disk[name] # 0
  /\ disk' = [disk EXCEPT ![name] = 0]
  /\ UNCHANGED <<status, attempts, resumeDir, receipts, lock, call, faults, crashes>>

\* publish_training_outputs: the checkpoints of the output directory, whoever
\* wrote them.
Published == {<<n, disk[n]>> : n \in {m \in Names : disk[m] # 0}}

Ended(state, artifacts) ==
  attempts' = [attempts EXCEPT ![Newest].state = state, ![Newest].artifacts = artifacts]

\* poll: an exit, of which a failure and a result that cannot be published
\* leave the run waiting for its verdict; a loss; a confirmed cancellation.
Observe ==
  /\ LockFree /\ NewestIs("running")
  /\ \/ status' = "completed" /\ Ended("completed", Published)
     \/ status' = "awaiting_retry" /\ Ended("failed", Published)
     \/ status' = "awaiting_retry" /\ Ended("failed", {})
     \/ status' = "awaiting_retry" /\ Ended("lost", {})
     \/ status' = "cancelled" /\ Ended("cancelled", {})
  /\ UNCHANGED <<disk, resumeDir, receipts, lock, call, faults, crashes>>

\* FINALIZE_FAILED: the plan allows one Attempt.
Conclude ==
  /\ LockFree /\ status = "awaiting_retry"
  /\ status' = "failed"
  /\ UNCHANGED <<attempts, disk, resumeDir, receipts, lock, call, faults, crashes>>

\* An Attempt without a recorded execution is not tried again.
Quarantine ==
  /\ LockFree /\ NewestIs("pending")
  /\ status' = "cancelling"
  /\ UNCHANGED <<attempts, disk, resumeDir, receipts, lock, call, faults, crashes>>

-----------------------------------------------------------------------------
(* The request.                                                            *)

ResumableStatus == status \in {"failed", "cancelled", "awaiting_retry"}

\* checkpoint_artifacts: those of the most recent Attempt.
Attached == attempts[Newest].artifacts

\* Without a choice the last one in the order of the names.
ByDefault == {k \in Attached : \A other \in Attached : other[1] <= k[1]}

\* The three ways to choose: by digest, by name, or not at all.
Selected(choice) ==
  CASE choice.by = "digest" -> {k \in Attached : k = choice.checkpoint}
    [] choice.by = "name"   -> {k \in Attached : k[1] = choice.checkpoint[1]}
    [] OTHER                -> ByDefault

Choices == [by : {"digest", "name"}, checkpoint : Checkpoints] \cup {[by |-> "default"]}

\* Without a header the checkpoint is the key.
KeyOf(key, k) == IF key = None THEN <<"resume", k>> ELSE <<"header", key>>

Conflicts(key, k) == \E receipt \in receipts : receipt.key = KeyOf(key, k) /\ receipt.checkpoint # k

Request(c, key, choice) ==
  /\ At(c, "idle")
  /\ call' = [call EXCEPT ![c] = [at |-> "select", key |-> key, chosen |-> choice]]
  /\ UNCHANGED <<status, attempts, disk, resumeDir, receipts, lock, faults, crashes>>

\* Under the lock: the run must be stopped, the checkpoint attached, and the
\* receipt of the key absent, of the same checkpoint, or a conflict.
Refuse(c) ==
  /\ At(c, "select") /\ LockFree
  /\ \/ ~ResumableStatus
     \/ Selected(call[c].chosen) = {}
     \/ \E k \in Selected(call[c].chosen) : Conflicts(call[c].key, k)
  /\ Ends(c)
  /\ UNCHANGED <<status, attempts, disk, resumeDir, receipts, faults, crashes>>

Recalled(key, k) == [key |-> KeyOf(key, k), checkpoint |-> k] \in receipts

Recall(c) ==
  /\ At(c, "select") /\ LockFree /\ ResumableStatus
  /\ \E k \in Selected(call[c].chosen) : Recalled(call[c].key, k)
  /\ Ends(c)
  /\ UNCHANGED <<status, attempts, disk, resumeDir, receipts, faults, crashes>>

Select(c) ==
  /\ At(c, "select") /\ LockFree /\ ResumableStatus /\ Newest < MaxAttempts
  /\ \E k \in Selected(call[c].chosen) :
       /\ ~Recalled(call[c].key, k) /\ ~Conflicts(call[c].key, k)
       /\ call' = [call EXCEPT ![c].at = "remove", ![c].chosen = k]
  /\ lock' = c
  /\ UNCHANGED <<status, attempts, disk, resumeDir, receipts, faults, crashes>>

Remove(c) ==
  /\ At(c, "remove")
  /\ resumeDir' = [resumeDir EXCEPT ![call[c].chosen] = "absent"]
  /\ Goes(c, "stage")
  /\ UNCHANGED <<status, attempts, disk, receipts, lock, faults, crashes>>

Stage(c) ==
  /\ At(c, "stage")
  /\ \/ /\ resumeDir' = [resumeDir EXCEPT ![call[c].chosen] = "complete"]
        /\ Goes(c, "append")
        /\ UNCHANGED <<lock, faults>>
     \/ /\ Fault
        /\ resumeDir' = [resumeDir EXCEPT ![call[c].chosen] = "partial"]
        /\ Ends(c)
  /\ UNCHANGED <<status, attempts, disk, receipts, crashes>>

\* resume_attempt checks the run again; then the Attempt is durable.
AppendAttempt(c) ==
  /\ At(c, "append") /\ ResumableStatus /\ Newest < MaxAttempts
  /\ attempts' = Append(attempts, NewAttempt(call[c].chosen, call[c].key))
  /\ status' = "running"
  /\ Goes(c, "execute")
  /\ UNCHANGED <<disk, resumeDir, receipts, lock, faults, crashes>>

\* _execute_step: submitted and recorded, or it raises and leaves no reference.
Execute(c) ==
  /\ At(c, "execute")
  /\ \/ /\ attempts' = [attempts EXCEPT ![Newest].state = "running"]
        /\ Goes(c, "receipt")
        /\ UNCHANGED <<lock, faults>>
     \/ Fault /\ Ends(c) /\ UNCHANGED attempts
  /\ UNCHANGED <<status, disk, resumeDir, receipts, crashes>>

\* save_receipt; when it fails the error is raised after all else is done.
SaveReceipt(c) ==
  /\ At(c, "receipt")
  /\ \/ /\ receipts' = receipts \cup {[key |-> KeyOf(call[c].key, call[c].chosen),
                                       checkpoint |-> call[c].chosen]}
        /\ UNCHANGED faults
     \/ Fault /\ UNCHANGED receipts
  /\ Ends(c)
  /\ UNCHANGED <<status, attempts, disk, resumeDir, crashes>>

\* A killed process; what it was staging may be there in part.
Crash ==
  /\ crashes < MaxCrashes
  /\ crashes' = crashes + 1
  /\ lock' = Free
  /\ call' = [c \in Clients |-> Idle]
  /\ resumeDir' \in {resumeDir} \cup
       {[resumeDir EXCEPT ![call[c].chosen] = "partial"] : c \in {b \in Clients : At(b, "stage")}}
  /\ UNCHANGED <<status, attempts, disk, receipts, faults>>

ClientNext(c) ==
  \/ \E key \in Keys \cup {None}, choice \in Choices : Request(c, key, choice)
  \/ Refuse(c) \/ Recall(c) \/ Select(c) \/ Remove(c) \/ Stage(c)
  \/ AppendAttempt(c) \/ Execute(c) \/ SaveReceipt(c)

Next ==
  \/ \E name \in Names : Saves(name) \/ Rotates(name)
  \/ Observe \/ Conclude \/ Quarantine
  \/ \E c \in Clients : ClientNext(c)
  \/ Crash

Spec == Init /\ [][Next]_vars

-----------------------------------------------------------------------------
(* Type correctness of the run, its Attempts, the directories and receipts. *)
TypeOK ==
  /\ status \in {"running", "awaiting_retry", "failed", "cancelled", "cancelling", "completed"}
  /\ \A i \in DOMAIN attempts :
       /\ attempts[i].state \in {"pending", "running", "completed", "failed", "lost", "cancelled"}
       /\ attempts[i].artifacts \subseteq Checkpoints
       /\ attempts[i].from \in Checkpoints \cup {None}
  /\ \A n \in Names : disk[n] \in 0..MaxAttempts
  /\ \A k \in Checkpoints : resumeDir[k] \in {"absent", "partial", "complete"}
  /\ \A receipt \in receipts : receipt.checkpoint \in Checkpoints
  /\ lock \in Clients \cup {Free}

(* An Attempt that is to run, or runs, from a checkpoint has the whole of  *)
(* it staged for as long as it does: no failed or killed staging is used,  *)
(* and no later request replaces the directory under the trainer.          *)
RunningAttemptsKeepTheirCheckpoint ==
  attempts[Newest].state \in {"pending", "running"} /\ attempts[Newest].from # None
    => resumeDir[attempts[Newest].from] = "complete"

(* A resumed Attempt starts from a checkpoint that the Attempt before it   *)
(* left attached, whatever was published or lies on disk by then.          *)
ResumesFromItsPredecessor ==
  \A i \in 2..Newest : attempts[i].from \in attempts[i - 1].artifacts

(* A resume that was sent with an Idempotency-Key, and had its receipt     *)
(* saved, appends one Attempt however often it is sent.                    *)
OneAttemptPerKey ==
  \A i, j \in 2..Newest :
    attempts[i].key # None /\ attempts[i].key = attempts[j].key => i = j

-----------------------------------------------------------------------------
(* The inductive invariant.                                                *)

AttemptRecords ==
  [state : {"pending", "running", "completed", "failed", "lost", "cancelled"},
   from : Checkpoints \cup {None}, key : Keys \cup {None}, artifacts : SUBSET Checkpoints]

ResumeKeys == ({"resume"} \X Checkpoints) \cup ({"header"} \X Keys)

Points == {"idle", "select", "remove", "stage", "append", "execute", "receipt"}

KindsOK ==
  /\ status \in {"running", "awaiting_retry", "failed", "cancelled", "cancelling", "completed"}
  /\ attempts \in Seq(AttemptRecords) /\ Newest \in 1..MaxAttempts
  /\ disk \in [Names -> 0..MaxAttempts]
  /\ resumeDir \in [Checkpoints -> {"absent", "partial", "complete"}]
  /\ receipts \subseteq [key : ResumeKeys, checkpoint : Checkpoints]
  /\ lock \in Clients \cup {Free}
  /\ call = [c \in Clients |-> [at |-> call[c].at, key |-> call[c].key, chosen |-> call[c].chosen]]
  /\ \A c \in Clients : call[c].at \in Points /\ call[c].key \in Keys \cup {None}
  /\ faults \in 0..MaxFaults /\ crashes \in 0..MaxCrashes

Staging(c) == call[c].at \in {"remove", "stage", "append"}
Appended(c) == call[c].at \in {"execute", "receipt"}

\* A call that has the lock goes on with a run that is stopped, and with a
\* checkpoint that is attached and a key that has no receipt.
HolderOK(c) ==
  /\ Staging(c) \/ Appended(c) => lock = c /\ call[c].chosen \in Checkpoints
  /\ Staging(c) =>
       /\ ResumableStatus /\ call[c].chosen \in Attached
       /\ \A receipt \in receipts : receipt.key # KeyOf(call[c].key, call[c].chosen)
  /\ At(c, "append") => resumeDir[call[c].chosen] = "complete"
  /\ Appended(c) => status = "running"
  /\ At(c, "execute") => attempts[Newest].state = "pending"

HoldersOK ==
  /\ ResumableStatus => attempts[Newest].state \notin {"pending", "running"}
  /\ \A c \in Clients : HolderOK(c)

\* A key has its receipt, or the call that appended the Attempt is about to save it.
KeysOK ==
  /\ OneAttemptPerKey
  /\ \A i \in 2..Newest : attempts[i].key # None =>
       \/ \E receipt \in receipts : receipt.key = <<"header", attempts[i].key>>
       \/ \E c \in Clients : Appended(c) /\ call[c].key = attempts[i].key

IInv ==
  /\ KindsOK /\ HoldersOK
  /\ RunningAttemptsKeepTheirCheckpoint /\ ResumesFromItsPredecessor
  /\ MaxFaults = 0 /\ MaxCrashes = 0 => KeysOK

=============================================================================
