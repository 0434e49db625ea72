------------------------------- MODULE DraftStart -------------------------------
(***************************************************************************)
(* From an imported draft to the published result of its run: YieldService *)
(* (product_service.py) over ProductStore and the control plane's store of *)
(* ProductRuns.                                                            *)
(*                                                                         *)
(* Importing is one transaction with its receipt.  Preparing, starting and *)
(* cancelling read the draft and write it back under the service lock, and *)
(* a start writes in three places: the staged inputs, the accepted run and *)
(* the draft that names the run.  A failed save or a killed process leaves *)
(* an accepted run that no draft names, and the start is tried again, after *)
(* a new configuration perhaps, or on an upgraded host.  Results are       *)
(* composed by the reconcile loop and by every read of a completed run,    *)
(* which takes no lock.                                                    *)
(***************************************************************************)
EXTENDS Naturals, Sequences, FiniteSets

CONSTANTS
  Clients,         \* concurrent HTTP requests
  Workspaces,      \* authenticated scopes of the private routes
  Keys,            \* Idempotency-Key headers
  Commands,        \* what CreateTrainingDraft says: [dataset, name]
  Configurations,  \* what PrepareTrainingDraft says
  Environments,    \* identities of the host's environment
  MaxDrafts,       \* bound
  MaxCrashes       \* bound: kills of the Product process

DraftAssumption ==
  /\ \A command \in Commands : {"dataset", "name"} = DOMAIN command
  /\ Clients \cap {"loop", "free"} = {}
  /\ MaxDrafts \in Nat /\ MaxCrashes \in Nat

VARIABLES
  drafts,       \* resources of kind draft, by number
  receipts,     \* receipts and workspace_draft_receipts
  runs,         \* ProductRuns of the control plane, by number
  staged,       \* what lies in the inputs directory of each draft
  results,      \* resources of kind result
  environment,  \* the environment a submission resolves to
  lock,         \* YieldService._lock
  call,         \* what each request and the reconcile loop are doing
  told,         \* the drafts and results that were answered
  crashes       \* bound

vars == <<drafts, receipts, runs, staged, results, environment, lock, call, told, crashes>>

Legacy == "unscoped"
Scopes == Workspaces \cup {Legacy}
None == "none"
Free == "free"
Loop == "loop"
Callers == Clients \cup {Loop}

Idle == [at |-> "idle", op |-> "none", draft |-> 0, scope |-> Legacy,
         configuration |-> None, saw |-> None, run |-> 0, todo |-> {}]

Init ==
  /\ drafts = << >> /\ receipts = {} /\ runs = << >> /\ results = {}
  /\ staged = [d \in 1..MaxDrafts |-> None]
  /\ environment \in Environments
  /\ lock = Free
  /\ call = [c \in Callers |-> Idle]
  /\ told = [drafts |-> {}, results |-> {}]
  /\ crashes = 0

At(c, point) == call[c].at = point
Goes(c, point) == call' = [call EXCEPT ![c].at = point]

\* get_draft, get_draft_for_workspace, and the lists: the scope must be the same.
Visible(d, scope) == drafts[d].scope = scope

Started(d) == drafts[d].run # 0

-----------------------------------------------------------------------------
(* Importing a dataset. *)

\* Without a header the dataset version is the key.
KeyOf(key, command) == IF key = None THEN <<"dataset", command.dataset>> ELSE <<"header", key>>

NewDraft(scope, command) ==
  [scope |-> scope, command |-> command, configuration |-> None, run |-> 0, cancelled |-> FALSE]

Answered(scope, key, command, d) ==
  told' = [told EXCEPT !.drafts = @ \cup
             {[scope |-> scope, key |-> KeyOf(key, command), command |-> command, draft |-> d]}]

Receipt(scope, key, command) ==
  [scope |-> scope, key |-> KeyOf(key, command), command |-> command, draft |-> Len(drafts) + 1]

ReceiptsOf(scope, key) == {r \in receipts : r.scope = scope /\ r.key = key}

Agrees(receipt, scope, command) ==
  receipt.command = command /\ drafts[receipt.draft].scope = scope

\* ProductStore.create_draft: a receipt answers, or refuses, or there is none.
Create(scope, key, command) ==
  LET known == ReceiptsOf(scope, KeyOf(key, command)) IN
  /\ \/ /\ known = {} /\ Len(drafts) < MaxDrafts
        /\ drafts' = Append(drafts, NewDraft(scope, command))
        /\ receipts' = receipts \cup {Receipt(scope, key, command)}
        /\ Answered(scope, key, command, Len(drafts) + 1)
     \/ \E receipt \in known :
          /\ Agrees(receipt, scope, command)
          /\ Answered(scope, key, command, receipt.draft)
          /\ UNCHANGED <<drafts, receipts>>
  /\ UNCHANGED <<runs, staged, results, environment, lock, call, crashes>>

-----------------------------------------------------------------------------
(* The service lock.  Every call that writes a draft reads it under the    *)
(* lock and gives the lock back when it returns or raises.                 *)

\* Mutant of LockFree: the calls do not exclude each other.
NoLock == TRUE

LockFree == lock = Free

\* The call returns, or raises; the loop goes on with the drafts left to do.
Returns(c) ==
  IF c = Loop /\ call[c].todo # {}
  THEN Goes(c, "advancing") /\ UNCHANGED lock
  ELSE /\ call' = [call EXCEPT ![c] = Idle]
       /\ lock' = IF lock = c THEN Free ELSE lock

Raises(c) ==
  /\ call' = [call EXCEPT ![c] = Idle]
  /\ lock' = IF lock = c THEN Free ELSE lock

Enter(c, op, d, scope, configuration) ==
  call' = [call EXCEPT ![c] = [Idle EXCEPT !.at = "locking", !.op = op, !.draft = d,
                                           !.scope = scope, !.configuration = configuration]]

Lock(c) ==
  /\ At(c, "locking") /\ LockFree
  /\ lock' = c
  /\ call' = [call EXCEPT ![c].at = call[c].op, ![c].saw = drafts[call[c].draft]]
  /\ UNCHANGED <<drafts, receipts, runs, staged, results, environment, told, crashes>>

\* store.save writes the whole document the call has read and changed.
Saves(c, document) == drafts' = [drafts EXCEPT ![call[c].draft] = document]

-----------------------------------------------------------------------------
(* Preparing. *)

PrepareArrives(c, d, scope, configuration) ==
  /\ At(c, "idle") /\ Visible(d, scope)
  /\ Enter(c, "prepare", d, scope, configuration)
  /\ UNCHANGED <<drafts, receipts, runs, staged, results, environment, lock, told, crashes>>

Preparable(draft) == draft.run = 0

\* Refused, or one of the artifacts does not verify, or saved.
Prepare(c) ==
  /\ At(c, "prepare")
  /\ \/ UNCHANGED drafts
     \/ /\ Preparable(call[c].saw)
        /\ Saves(c, [call[c].saw EXCEPT !.configuration = call[c].configuration])
  /\ Returns(c)
  /\ UNCHANGED <<receipts, runs, staged, results, environment, told, crashes>>

-----------------------------------------------------------------------------
(* Starting. *)

\* start_run_resource: without the lock it looks whether a run has to be
\* accepted, and only then asks whether the host is ready (HostReadiness); a
\* start that is refused has changed nothing.
StartArrives(c, d, scope) ==
  /\ At(c, "idle") /\ Visible(d, scope)
  /\ Enter(c, "start", d, scope, None)
  /\ UNCHANGED <<drafts, receipts, runs, staged, results, environment, lock, told, crashes>>

StartAgain(c) ==
  /\ At(c, "start") /\ call[c].saw.run # 0
  /\ Goes(c, "reading")
  /\ UNCHANGED <<drafts, receipts, runs, staged, results, environment, lock, told, crashes>>

StartUnprepared(c) ==
  /\ At(c, "start") /\ call[c].saw.run = 0 /\ call[c].saw.configuration = None
  /\ Raises(c)
  /\ UNCHANGED <<drafts, receipts, runs, staged, results, environment, told, crashes>>

\* _stage_spec: the dataset, then the base model; either may fail.
Stage(c) ==
  /\ At(c, "start") /\ call[c].saw.run = 0 /\ call[c].saw.configuration # None
  /\ \/ staged' = [staged EXCEPT ![call[c].draft] = call[c].saw.configuration] /\ Goes(c, "submit")
                                                                                /\ UNCHANGED lock
     \/ staged' = [staged EXCEPT ![call[c].draft] = "partial"] /\ Raises(c)
  /\ UNCHANGED <<drafts, receipts, runs, results, environment, told, crashes>>

RunKey(d) == d

\* Mutant of SamePlan: the key alone finds the run.
AnyPlan(run, plan) == TRUE

SamePlan(run, plan) == run.plan = plan

\* TrainingControlPlane.submit, JsonFileControlPlaneStore.create_or_get: the
\* environment is not available, or the key belongs to a run of another plan, or
\* that run is the answer, or a new one is.
Submit(c) ==
  LET d == call[c].draft
      plan == [draft |-> d, configuration |-> call[c].saw.configuration,
               environment |-> environment]
      known == {r \in DOMAIN runs : runs[r].key = RunKey(d)}
      accepted(r) == call' = [call EXCEPT ![c].at = "link", ![c].run = r]
  IN
  /\ At(c, "submit")
  /\ \/ Raises(c) /\ UNCHANGED runs
     \/ /\ known = {}
        /\ runs' = Append(runs, [key |-> RunKey(d), plan |-> plan, status |-> "active",
                                 cancelRequested |-> FALSE])
        /\ accepted(Len(runs) + 1) /\ UNCHANGED lock
     \/ \E r \in known : SamePlan(runs[r], plan) /\ accepted(r) /\ UNCHANGED <<runs, lock>>
  /\ UNCHANGED <<drafts, receipts, staged, results, environment, told, crashes>>

\* The draft is told its run; or the save fails, and the run stays accepted.
Link(c) ==
  /\ At(c, "link")
  /\ \/ /\ Saves(c, [call[c].saw EXCEPT !.run = call[c].run])
        /\ Goes(c, "reading") /\ UNCHANGED lock
     \/ UNCHANGED drafts /\ Raises(c)
  /\ UNCHANGED <<receipts, runs, staged, results, environment, told, crashes>>

-----------------------------------------------------------------------------
(* Cancelling, on the public route only: the mark, then the request. *)

CancelArrives(c, d) ==
  /\ At(c, "idle") /\ Visible(d, Legacy) /\ Started(d)
  /\ Enter(c, "cancel", d, Legacy, None)
  /\ UNCHANGED <<drafts, receipts, runs, staged, results, environment, lock, told, crashes>>

CancelMark(c) ==
  /\ At(c, "cancel")
  /\ Saves(c, [call[c].saw EXCEPT !.cancelled = TRUE])
  /\ Goes(c, "request")
  /\ UNCHANGED <<receipts, runs, staged, results, environment, lock, told, crashes>>

\* request_cancel of the control plane; then the lock is free and the run is read.
CancelRequest(c) ==
  /\ At(c, "request")
  /\ runs' = [runs EXCEPT ![call[c].saw.run].cancelRequested = (@ \/ runs[call[c].saw.run].status = "active")]
  /\ Goes(c, "reading")
  /\ lock' = Free
  /\ UNCHANGED <<drafts, receipts, staged, results, environment, told, crashes>>

-----------------------------------------------------------------------------
(* The reconcile loop: advance takes every draft that has a run in turn.   *)

LoopBegins ==
  /\ At(Loop, "idle") /\ LockFree
  /\ \E d \in DOMAIN drafts : Started(d)
  /\ call' = [call EXCEPT ![Loop] = [Idle EXCEPT !.at = "advancing",
                                                 !.todo = {d \in DOMAIN drafts : Started(d)}]]
  /\ lock' = Loop
  /\ UNCHANGED <<drafts, receipts, runs, staged, results, environment, told, crashes>>

\* One run moves on, or ends, and is read in the scope of its draft.
Advance(d) ==
  /\ At(Loop, "advancing") /\ d \in call[Loop].todo
  /\ \E status \in {"active", "completed", "stopped"} :
       runs' = [runs EXCEPT ![drafts[d].run].status = IF @ = "active" THEN status ELSE @]
  /\ call' = [call EXCEPT ![Loop].at = "reading", ![Loop].draft = d,
                          ![Loop].scope = drafts[d].scope, ![Loop].todo = @ \ {d}]
  /\ UNCHANGED <<drafts, receipts, staged, results, environment, lock, told, crashes>>

-----------------------------------------------------------------------------
(* Reading a run, and its result once it has completed. *)

GetArrives(c, d, scope) ==
  /\ At(c, "idle") /\ Visible(d, scope) /\ Started(d)
  /\ call' = [call EXCEPT ![c] = [Idle EXCEPT !.at = "reading", !.draft = d, !.scope = scope]]
  /\ UNCHANGED <<drafts, receipts, runs, staged, results, environment, lock, told, crashes>>

ResultsOf(r) == {result \in results : result.run = r}

Told(result) == told' = [told EXCEPT !.results = @ \cup {result}]

\* get_run: a run that has not completed has no result; a stored one is answered
\* in its own scope only.
GetRun(c) ==
  LET r == drafts[call[c].draft].run IN
  /\ At(c, "reading")
  /\ \/ runs[r].status # "completed" /\ Returns(c) /\ UNCHANGED told
     \/ \E result \in ResultsOf(r) :
          /\ runs[r].status = "completed"
          /\ IF result.scope = call[c].scope THEN Told(result) /\ Returns(c)
                                             ELSE Raises(c) /\ UNCHANGED told
     \/ /\ runs[r].status = "completed" /\ ResultsOf(r) = {}
        /\ \/ Goes(c, "composing") /\ UNCHANGED lock
           \/ Raises(c)
        /\ UNCHANGED told
  /\ UNCHANGED <<drafts, receipts, runs, staged, results, environment, crashes>>

\* INSERT OR IGNORE.
Stored(result) == IF ResultsOf(result.run) = {} THEN results \cup {result} ELSE results

ResultScope(c) == call[c].scope

\* create_result: the stored result is the answer, if its scope is the caller's.
CreateResult(c) ==
  LET result == [run |-> drafts[call[c].draft].run, scope |-> ResultScope(c), by |-> c] IN
  /\ At(c, "composing")
  /\ results' = Stored(result)
  /\ \E stored \in {s \in Stored(result) : s.run = result.run} :
       IF stored.scope = ResultScope(c) THEN Told(stored) /\ Returns(c)
                                        ELSE Raises(c) /\ UNCHANGED told
  /\ UNCHANGED <<drafts, receipts, runs, staged, environment, crashes>>

-----------------------------------------------------------------------------
\* The process is killed and comes back, upgraded perhaps.
Crash ==
  /\ crashes < MaxCrashes
  /\ crashes' = crashes + 1
  /\ call' = [c \in Callers |-> Idle]
  /\ lock' = Free
  /\ environment' \in Environments
  /\ UNCHANGED <<drafts, receipts, runs, staged, results, told>>

ClientNext(c) ==
  \/ \E d \in DOMAIN drafts, scope \in Scopes :
       \/ \E configuration \in Configurations : PrepareArrives(c, d, scope, configuration)
       \/ StartArrives(c, d, scope) \/ GetArrives(c, d, scope)
  \/ \E d \in DOMAIN drafts : CancelArrives(c, d)
  \/ Lock(c) \/ Prepare(c)
  \/ StartAgain(c) \/ StartUnprepared(c) \/ Stage(c) \/ Submit(c) \/ Link(c)
  \/ CancelMark(c) \/ CancelRequest(c)

Next ==
  \/ \E scope \in Scopes, key \in Keys \cup {None}, command \in Commands :
       Create(scope, key, command)
  \/ \E c \in Clients : ClientNext(c)
  \/ LoopBegins \/ \E d \in DOMAIN drafts : Advance(d)
  \/ \E c \in Callers : GetRun(c) \/ CreateResult(c)
  \/ Crash

Spec == Init /\ [][Next]_vars

-----------------------------------------------------------------------------
(* Type correctness of the stored resources, the receipts, the runs and    *)
(* the calls.                                                              *)
Draft == [scope : Scopes, command : Commands, configuration : Configurations \cup {None},
          run : Nat, cancelled : BOOLEAN]

Plan == [draft : Nat, configuration : Configurations \cup {None}, environment : Environments]

Run == [key : Nat, plan : Plan, status : {"active", "completed", "stopped"},
        cancelRequested : BOOLEAN]

\* The points of a call at which it holds the lock.
Locked == {"prepare", "start", "submit", "link", "cancel", "request"}

StoreTypeOK ==
  /\ drafts \in Seq(Draft) /\ Len(drafts) <= MaxDrafts /\ runs \in Seq(Run)
  /\ \A d \in DOMAIN drafts : drafts[d].run \in 0..Len(runs)
  /\ \A receipt \in receipts : receipt.draft \in DOMAIN drafts
  /\ staged \in [1..MaxDrafts -> Configurations \cup {None, "partial"}]
  /\ \A result \in results : result.run \in DOMAIN runs /\ result.scope \in Scopes
  /\ environment \in Environments
  /\ DOMAIN told = {"drafts", "results"} /\ crashes \in Nat

CallTypeOK ==
  /\ lock \in Callers \cup {Free}
  /\ DOMAIN call = Callers
  /\ \A c \in Callers :
       /\ DOMAIN call[c] = DOMAIN Idle
       /\ call[c].at \in Locked \cup {"idle", "locking", "advancing", "reading", "composing"}
       /\ call[c].scope \in Scopes /\ call[c].configuration \in Configurations \cup {None}

TypeOK == StoreTypeOK /\ CallTypeOK

(* Idempotency of the import: everyone who repeats a key in a scope gets   *)
(* the same draft, which is one of that scope and of the command sent      *)
(* (ProductStore.create_draft).                                            *)
RepeatsGetTheSameDraft ==
  \A t \in told.drafts :
    /\ drafts[t.draft].scope = t.scope /\ drafts[t.draft].command = t.command
    /\ \A u \in told.drafts : (u.scope = t.scope /\ u.key = t.key) => u.draft = t.draft

(* "Yield's stable ProductDraft idempotency key ensures one run per draft" *)
(* (product_api.py:545), over retries, crashes, failed saves and upgrades. *)
OneRunPerDraft ==
  \A r, s \in DOMAIN runs : runs[r].plan.draft = runs[s].plan.draft => r = s

(* A run that a draft names, which is one the loop will execute, was       *)
(* accepted for that draft with the configuration the draft shows, and the *)
(* staged inputs are those of that configuration.                          *)
LinkedRunTrainsTheDraft ==
  \A d \in DOMAIN drafts : Started(d) =>
    /\ runs[drafts[d].run].plan.draft = d
    /\ runs[drafts[d].run].plan.configuration = drafts[d].configuration
    /\ staged[d] = drafts[d].configuration

(* Calls that write the whole draft never take back, in any step, what     *)
(* another call wrote: the run it names, or that it is to be cancelled.    *)
DraftsAreNotRolledBack ==
  \A d \in DOMAIN drafts :
    /\ Started(d) => drafts'[d].run = drafts[d].run
    /\ drafts[d].cancelled => drafts'[d].cancelled

(* A run is asked to stop only after its draft says that this was wanted.  *)
CancelledRunsAreMarked ==
  \A d \in DOMAIN drafts :
    Started(d) /\ runs[drafts[d].run].cancelRequested => drafts[d].cancelled

(* "Keep the first immutable result when reconciliation and reads race"    *)
(* (product_store.py:661): whoever reads the result of a run is answered   *)
(* the same one.                                                           *)
ResultsAgree ==
  \A a, b \in told.results : a.run = b.run => a = b

(* The result of a private draft's run is private to the same workspace,   *)
(* and the result of a public one is public (product README, Workspace     *)
(* private service routes).                                                *)
ResultsKeepTheirScope ==
  \A d \in DOMAIN drafts : \A result \in results :
    Started(d) /\ result.run = drafts[d].run => result.scope = drafts[d].scope

(* Drafts, the runs accepted for them and their results: one run for each  *)
(* draft, of the configuration it shows; a repeated import and every       *)
(* reading of a result are answered alike, in their own scope              *)
(* (YieldService, ProductStore).                                           *)
DraftsAreSound ==
  /\ TypeOK /\ RepeatsGetTheSameDraft /\ OneRunPerDraft /\ LinkedRunTrainsTheDraft
  /\ CancelledRunsAreMarked /\ ResultsAgree /\ ResultsKeepTheirScope

-----------------------------------------------------------------------------
(* The inductive invariant.                                                *)

\* Whoever was told of a draft has its receipt, and there is one for a key.
ImportsOK ==
  /\ \A receipt \in receipts :
       /\ drafts[receipt.draft].scope = receipt.scope
       /\ drafts[receipt.draft].command = receipt.command
  /\ \A r, s \in receipts : (r.scope = s.scope /\ r.key = s.key) => r = s
  /\ \A t \in told.drafts : \E receipt \in receipts :
       /\ t.scope = receipt.scope /\ t.key = receipt.key
       /\ t.command = receipt.command /\ t.draft = receipt.draft

\* A key finds one run, of the draft whose key it is; a run that was asked to
\* stop is one of a draft that says so.
RunsOK ==
  /\ \A r \in DOMAIN runs :
       /\ runs[r].key = runs[r].plan.draft /\ runs[r].plan.draft \in DOMAIN drafts
       /\ runs[r].cancelRequested => drafts[runs[r].plan.draft].cancelled
  /\ \A r, s \in DOMAIN runs : runs[r].key = runs[s].key => r = s

ResultsOK ==
  /\ \A result \in results : drafts[runs[result.run].plan.draft].scope = result.scope
  /\ \A a, b \in results : a.run = b.run => a = b
  /\ told.results \subseteq results

\* What a call that writes has read is what is stored, for as long as it has the
\* lock; what it has staged and accepted is for the draft it has read.
CallOK(c) ==
  LET k == call[c]
      d == call[c].draft
  IN
  /\ k.at \notin {"idle", "advancing"} => d \in DOMAIN drafts /\ k.scope = drafts[d].scope
  /\ k.at = "locking" => k.op \in {"prepare", "start", "cancel"} /\ (k.op = "cancel" => Started(d))
  /\ k.at \in Locked => lock = c
  /\ k.at \in Locked \ {"request"} => k.saw = drafts[d]
  /\ k.at \in {"submit", "link"} => k.saw.run = 0 /\ staged[d] = k.saw.configuration
  /\ k.at = "link" =>
       /\ k.run \in DOMAIN runs /\ runs[k.run].plan.draft = d
       /\ runs[k.run].plan.configuration = k.saw.configuration
  /\ k.at \in {"cancel", "request", "reading", "composing"} => Started(d)
  /\ k.at = "request" => k.saw.run = drafts[d].run /\ drafts[d].cancelled
  /\ \A t \in k.todo : t \in DOMAIN drafts /\ Started(t)

IInv ==
  /\ TypeOK
  /\ ImportsOK /\ RunsOK /\ ResultsOK /\ LinkedRunTrainsTheDraft
  /\ \A c \in Callers : CallOK(c)

=============================================================================
