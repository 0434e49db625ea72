----------------------------- MODULE ReconcilePass -----------------------------
(***************************************************************************)
(* One pass of the reconcile loop over all drafts (YieldService.advance)   *)
(* and the maintenance broker that is told which runs are active: start,   *)
(* cancel, resume, the pass, a crash and the restart.                      *)
(*                                                                         *)
(* The pass visits the drafts in the order of their ids and ends at the    *)
(* first error.  It holds the service lock from its first step to its      *)
(* last, so the requests come between passes.  The Product keeps two       *)
(* things in memory about the broker: what it told it of each run, and     *)
(* which runs it has completed.                                            *)
(*                                                                         *)
(* The broker's client is external: a task is admitted before the run is   *)
(* made durable and withdrawn when that fails, it changes its state before *)
(* the run does, and is completed after it.  How a run goes on when it is  *)
(* reconciled is the matter of TrainingControl.                            *)
(***************************************************************************)
EXTENDS Naturals

CONSTANTS
  N,          \* drafts, by the order of their ids
  Absent,     \* not a task of the broker; not told, or forgotten
  Rare,       \* what may go wrong, or come late, in the run that is checked
  MaxFaults,  \* bound: rare events
  MaxResumes, \* bound: resumes
  MaxCrashes  \* bound: kills of the Product process

States == {"QUEUED", "DISPATCHING", "RUNNING", "CANCELING"}

PassAssumption ==
  /\ N \in Nat \ {0} /\ MaxFaults \in Nat /\ MaxResumes \in Nat /\ MaxCrashes \in Nat
  /\ Rare \subseteq
       {"broker", "reconcile", "harvest", "save", "receipt", "execute", "uncaught", "late_cancel"}
  /\ Absent \notin States

VARIABLES
  status,    \* of the runs, as the control plane has it
  linked,    \* does the draft name its run?
  gate,      \* the tasks of the broker
  told,      \* YieldService._activity_states
  completed, \* YieldService._terminal_activity_ids
  pass,      \* where the pass is: the draft and what is done with it
  loop,      \* the reconcile thread: "up", "dead", or "down" with its process
  faults, resumes, crashes

vars == <<status, linked, gate, told, completed, pass, loop, faults, resumes, crashes>>

Runs == 1..N
Between == [run |-> 0, at |-> "between"]

Init ==
  /\ status = [r \in Runs |-> "none"] /\ linked = [r \in Runs |-> FALSE]
  /\ gate = [r \in Runs |-> Absent] /\ told = [r \in Runs |-> Absent]
  /\ completed = {}
  /\ pass = Between /\ loop = "up"
  /\ faults = 0 /\ resumes = 0 /\ crashes = 0

Terminal(s) == s \in {"succeeded", "failed", "cancelled"}
Active(s) == s \notin {"none", "succeeded", "failed", "cancelled"}

\* _ACTIVITY_STATE_BY_PLAN_STATUS
ActivityState(s) ==
  CASE s \in {"pending", "awaiting_retry"} -> "QUEUED"
    [] s = "running"                       -> "RUNNING"
    [] s = "cancelling"                    -> "CANCELING"
    [] OTHER                               -> Absent

\* What a run is told as while the pass reconciles it.
PassState(s) == IF s \in {"pending", "awaiting_retry"} THEN "DISPATCHING" ELSE ActivityState(s)

RareEvent(kind) == kind \in Rare /\ faults < MaxFaults /\ faults' = faults + 1

Gate(r, s) == gate' = [gate EXCEPT ![r] = s]
Tell(r, s) == told' = [told EXCEPT ![r] = s]
Becomes(r, s) == status' = [status EXCEPT ![r] = s]

Serving == loop # "down" /\ pass = Between

-----------------------------------------------------------------------------
(* The requests.                                                           *)

\* Mutant of Accepted: an error after the acceptance undoes the admission.
AcceptedOrRaised(r) ==
  /\ status[r] = "none" /\ Becomes(r, "pending")
  /\ RareEvent("save") /\ UNCHANGED <<linked, gate, told>>

\* The draft could not be saved: the run is accepted and the draft does not
\* name it, its task is kept, and the error is raised.
Accepted(r) ==
  /\ status[r] = "none" /\ Becomes(r, "pending")
  /\ RareEvent("save") /\ Gate(r, "QUEUED") /\ UNCHANGED <<linked, told>>

\* start: admitted, submitted and linked.  A start that is repeated finds the
\* run that was accepted.
Start(r) ==
  /\ Serving /\ ~linked[r]
  /\ \/ /\ Becomes(r, IF status[r] = "none" THEN "pending" ELSE status[r])
        /\ linked' = [linked EXCEPT ![r] = TRUE]
        /\ Gate(r, "QUEUED") /\ Tell(r, "QUEUED") /\ UNCHANGED faults
     \/ Accepted(r)
  /\ UNCHANGED <<completed, pass, loop, resumes, crashes>>

\* cancel: the broker is told first, also about a run that has ended; or the
\* draft or the run could not be saved after it was told.
Cancel(r) ==
  /\ Serving /\ linked[r]
  /\ Gate(r, "CANCELING")
  /\ \/ ~Terminal(status[r]) /\ Becomes(r, "cancelling") /\ Tell(r, "CANCELING") /\ UNCHANGED faults
     \/ Terminal(status[r]) /\ RareEvent("late_cancel") /\ Tell(r, "CANCELING") /\ UNCHANGED status
     \/ ~Terminal(status[r]) /\ RareEvent("save") /\ UNCHANGED <<status, told>>
  /\ UNCHANGED <<linked, completed, pass, loop, resumes, crashes>>

ResumedTask(r) == IF Terminal(status[r]) THEN "QUEUED" ELSE "DISPATCHING"

\* resume: the new Attempt runs; or its receipt could not be saved, and what
\* is in memory stays as it was; or it could not be executed, and the broker's
\* client takes back what it did.
Resume(r) ==
  /\ Serving /\ linked[r] /\ resumes < MaxResumes
  /\ status[r] \in {"failed", "cancelled", "awaiting_retry"}
  /\ Becomes(r, "running") /\ resumes' = resumes + 1
  /\ \/ /\ Gate(r, ResumedTask(r)) /\ Tell(r, "DISPATCHING")
        /\ completed' = completed \ {r} /\ UNCHANGED faults
     \/ RareEvent("receipt") /\ Gate(r, ResumedTask(r)) /\ UNCHANGED <<told, completed>>
     \/ RareEvent("execute") /\ UNCHANGED <<gate, told, completed>>
  /\ UNCHANGED <<linked, pass, loop, crashes>>

-----------------------------------------------------------------------------
(* The pass.                                                               *)

\* Mutant of Following: the drafts after an ended run are left out.
FollowingActive(r) ==
  IF r < N /\ ~Terminal(status[r]) THEN [run |-> r + 1, at |-> "visit"] ELSE Between

Following(r) == IF r < N THEN [run |-> r + 1, at |-> "visit"] ELSE Between

Begin ==
  /\ loop = "up" /\ pass = Between
  /\ pass' = [run |-> 1, at |-> "visit"]
  /\ UNCHANGED <<status, linked, gate, told, completed, loop, faults, resumes, crashes>>

In(r, point) == pass = [run |-> r, at |-> point]

\* An error ends the pass; one that the thread does not catch ends the thread.
Raises(kind) ==
  /\ RareEvent(kind) /\ pass' = Between
  /\ loop' = IF kind = "uncaught" THEN "dead" ELSE loop

Skip(r) ==
  /\ In(r, "visit") /\ ~linked[r]
  /\ pass' = Following(r)
  /\ UNCHANGED <<status, linked, gate, told, completed, loop, faults, resumes, crashes>>

\* A terminal run is completed once, and harvested each time.
CompletesEnded(r) ==
  /\ In(r, "visit") /\ linked[r] /\ Terminal(status[r])
  /\ pass' = [run |-> r, at |-> IF r \in completed THEN "harvest" ELSE "complete"]
  /\ UNCHANGED <<status, linked, gate, told, completed, loop, faults, resumes, crashes>>

\* What a run may be after it was reconciled; the harvest is for later.
Reconciled(s) ==
  CASE s = "pending"        -> {"running", "awaiting_retry", "cancelling"}
    [] s = "running"        -> {"running", "succeeded", "awaiting_retry", "cancelling"}
    [] s = "awaiting_retry" -> {"running", "failed"}
    [] OTHER                -> {"cancelling", "cancelled"}

\* reconcile_once, with the broker told before if it was told otherwise.
Reconcile(r) ==
  LET state == PassState(status[r]) IN
  /\ In(r, "visit") /\ linked[r] /\ ~Terminal(status[r])
  /\ \/ /\ \E s \in Reconciled(status[r]) : Becomes(r, s)
        /\ pass' = [run |-> r, at |-> "reconciled"]
        /\ Tell(r, state) /\ gate' = IF told[r] = state THEN gate ELSE [gate EXCEPT ![r] = state]
        /\ UNCHANGED <<loop, faults>>
     \/ /\ \/ Raises("broker") /\ UNCHANGED gate
           \/ (Raises("reconcile") \/ Raises("uncaught")) /\ (Gate(r, state) \/ UNCHANGED gate)
        /\ UNCHANGED <<status, told>>
  /\ UNCHANGED <<linked, completed, resumes, crashes>>

\* What the broker is told afterwards of a run that goes on.
TellsAgain(r) ==
  ActivityState(status[r]) \in {"RUNNING", "CANCELING"} /\ told[r] # ActivityState(status[r])

Retell(r) ==
  /\ In(r, "reconciled") /\ ~Terminal(status[r])
  /\ \/ /\ IF TellsAgain(r)
           THEN Gate(r, ActivityState(status[r])) /\ Tell(r, ActivityState(status[r]))
           ELSE UNCHANGED <<gate, told>>
        /\ pass' = [run |-> r, at |-> "harvest"] /\ UNCHANGED <<loop, faults>>
     \/ TellsAgain(r) /\ Raises("broker") /\ UNCHANGED <<gate, told>>
  /\ UNCHANGED <<status, linked, completed, resumes, crashes>>

\* complete_after_persist.
Done(r) ==
  \/ /\ Gate(r, Absent) /\ Tell(r, Absent) /\ completed' = completed \cup {r}
     /\ pass' = [run |-> r, at |-> "harvest"] /\ UNCHANGED <<loop, faults>>
  \/ Raises("broker") /\ UNCHANGED <<gate, told, completed>>

Complete(r) ==
  /\ In(r, "complete") \/ (In(r, "reconciled") /\ Terminal(status[r]))
  /\ Done(r)
  /\ UNCHANGED <<status, linked, resumes, crashes>>

\* The diagnostics and the reading of the run, with its registration.
Harvest(r) ==
  /\ In(r, "harvest")
  /\ \/ pass' = Following(r) /\ UNCHANGED <<loop, faults>>
     \/ Raises("harvest")
  /\ UNCHANGED <<status, linked, gate, told, completed, resumes, crashes>>

-----------------------------------------------------------------------------

\* A kill, or the close of the store at shutdown: memory is lost, and the
\* broker keeps its tasks.
Crash ==
  /\ loop # "down" /\ crashes < MaxCrashes
  /\ crashes' = crashes + 1
  /\ loop' = "down" /\ pass' = Between
  /\ told' = [r \in Runs |-> Absent] /\ completed' = {}
  /\ UNCHANGED <<status, linked, gate, faults, resumes>>

\* list_active_activity_tasks: the runs that are not terminal.
Declared == [r \in Runs |-> ActivityState(status[r])]

\* start_activity_source declares them, or the process does not come up.
Restart ==
  /\ loop = "down"
  /\ gate' = Declared /\ told' = Declared
  /\ loop' = "up"
  /\ UNCHANGED <<status, linked, completed, pass, faults, resumes, crashes>>

Visit(r) == Skip(r) \/ CompletesEnded(r) \/ Reconcile(r) \/ Retell(r) \/ Complete(r) \/ Harvest(r)

Pass == Begin \/ \E r \in Runs : Visit(r)

Next ==
  \/ \E r \in Runs : Start(r) \/ Cancel(r) \/ Resume(r)
  \/ Pass
  \/ Crash \/ Restart

Spec == Init /\ [][Next]_vars

\* The loop is polled every 0.2 s; a service manager restarts the process.
FairSpec == Spec /\ WF_vars(Pass) /\ WF_vars(Restart)

-----------------------------------------------------------------------------
(* Type correctness of the runs, the tasks and the pass.                   *)
TypeOK ==
  /\ status \in [Runs -> {"none", "pending", "running", "awaiting_retry", "cancelling",
                          "succeeded", "failed", "cancelled"}]
  /\ linked \in [Runs -> BOOLEAN]
  /\ gate \in [Runs -> States \cup {Absent}] /\ told \in [Runs -> States \cup {Absent}]
  /\ completed \subseteq Runs
  /\ pass.run \in 0..N /\ loop \in {"up", "dead", "down"}

(* Stated by runtime_activity.py, "never falls back to untracked work":    *)
(* while the Product serves, every run that is not terminal is a task of   *)
(* the broker, so that maintenance does not find the Product idle.  Only a *)
(* run that was resumed and could not be executed is not, until the pass   *)
(* comes to it: its Attempt is durable and its task was taken back.        *)
ActiveRunsAreTracked ==
  loop # "down" => \A r \in Runs : Active(status[r]) =>
    gate[r] # Absent \/ (resumes > 0 /\ status[r] = "running" /\ told[r] = Absent)

(* What makes it inductive: what the broker was told of is a task, a draft  *)
(* names a run that is there, a run is completed when it has ended, and no  *)
(* pass goes on in a process that is down.                                  *)
IInv ==
  /\ TypeOK /\ resumes \in Nat
  /\ \A r \in Runs : linked[r] => status[r] # "none"
  /\ loop = "down" => pass = Between
  /\ \A r \in Runs : In(r, "complete") => Terminal(status[r])
  /\ loop # "down" => \A r \in Runs : told[r] # Absent => gate[r] # Absent
  /\ ActiveRunsAreTracked

(* Stated by list_active_activity_tasks, "nonterminal TrainingRuns into    *)
(* gate-owned task states": the task of a run that has ended goes away, in *)
(* this process or with its end.                                           *)
EndedRunsAreReleased ==
  \A r \in Runs : Terminal(status[r]) /\ linked[r] ~> gate[r] = Absent \/ Active(status[r])

(* A run that a user started is reconciled in the end, although the pass   *)
(* ends at the first error of a run before it.                             *)
StartedRunsAreServed ==
  \A r \in Runs : linked[r] /\ status[r] = "pending" ~> status[r] # "pending"

(* However a run came to be in cancellation, by a user or by a            *)
(* quarantine in the pass, the broker learns of it.                        *)
CancellationsReachTheBroker ==
  \A r \in Runs : linked[r] /\ status[r] = "cancelling" ~> gate[r] = "CANCELING" \/ status[r] # "cancelling"

=============================================================================
