--------------------------- MODULE PlannedEnvironment ---------------------------
(***************************************************************************)
(* The environment of one training run.  It is resolved when the run is    *)
(* submitted and becomes part of the plan; the specification and the lock  *)
(* are stored with the run, and read back and compared with the plan after *)
(* a restart.  Each execution resolves the environment again, on the host  *)
(* as it is then.                                                          *)
(*                                                                         *)
(* The host may be observed to differ, a restart may bring another         *)
(* interpreter or catalogue, and the stored state may be damaged.          *)
(***************************************************************************)
EXTENDS EnvironmentResolver

CONSTANTS
  Required,       \* the environment that the specification asks for, or Missing
  Hosts,          \* hosts on which the process may be started
  Observations,   \* facts that may be observed
  ObservesHost,   \* is there an executor that observes the host?
  MaxRestarts,    \* bound
  MaxResumes,     \* bound
  MaxDamages      \* bound

\* local_environment_candidate.
LocalCandidate(h) ==
  [id |-> 0, known_good |-> TRUE, python |-> h.python,
   has |-> [f \in Fields |-> IF f = "profile" THEN "local" ELSE Missing],
   frameworks |-> [n \in Frameworks |-> Missing],
   architectures |-> {h.architecture}, precisions |-> {},
   driver |-> Missing, accelerator |-> Missing]

Locks == {Lock(c) : c \in UNION {h.catalogue \cup {LocalCandidate(h)} : h \in Hosts}}

\* What is stored of a run.
Runs == [plan : Locks, spec : {"submitted", "altered", Missing}, lock : Locks \cup {Missing}]

\* The number of a candidate is the place of its candidate_id in their order.
EnvironmentAssumption ==
  /\ "profile" \in Fields /\ ObservesHost \in BOOLEAN
  /\ MaxRestarts \in Nat /\ MaxResumes \in Nat /\ MaxDamages \in Nat
  /\ Missing \notin Runs
  /\ \A h \in Hosts : \A c \in h.catalogue : c.id \in Nat

VARIABLES
  host,     \* interpreter, architecture and catalogue of the process
  facts,    \* what has been observed of the host, or Missing
  run,      \* the stored run: the plan's lock, the specification, the lock
  cache,    \* the specification and the lock held in memory
  attempts, \* the Attempts of the run
  call,     \* the Attempt that is being executed, or 0
  launched, \* what was launched
  restarts, resumes, damages

vars == <<host, facts, run, cache, attempts, call, launched, restarts, resumes, damages>>

NoCache == [spec |-> Missing, lock |-> Missing]

Init ==
  /\ host \in Hosts /\ facts = Missing
  /\ run = Missing /\ cache = NoCache
  /\ attempts = <<>> /\ call = 0 /\ launched = {}
  /\ restarts = 0 /\ resumes = 0 /\ damages = 0

-----------------------------------------------------------------------------
(* Resolution in the runtime.                                              *)

\* Used when the specification asks for nothing.
LocalSpec ==
  [wants |-> LocalCandidate(host).has, frameworks |-> LocalCandidate(host).frameworks,
   python |-> {[op |-> "==", parts |-> host.python]}]

Wanted == IF Required = Missing THEN LocalSpec ELSE Required
Catalogue == IF Required = Missing THEN {LocalCandidate(host)} ELSE host.catalogue

ResolvedNow == Resolve(Wanted, Catalogue, facts)

\* The reconcile loop and the start route observe the host first.
Observed == ObservesHost => facts # Missing

-----------------------------------------------------------------------------
(* What is stored and what is held.                                        *)

\* _require_spec, _require_lock: held, or stored and equal to what the plan names.
SpecVerified == cache.spec # Missing \/ run.spec = "submitted"
LockVerified == cache.lock # Missing \/ run.lock = run.plan

Verified == SpecVerified /\ LockVerified

InHand == [spec |-> IF cache.spec # Missing THEN cache.spec ELSE run.spec,
           lock |-> IF cache.lock # Missing THEN cache.lock ELSE run.lock]

Steps == <<"preflight", "tiny", "training">>

Attempts ==
  [step : {Steps[s] : s \in 1..3},
   status : {"pending", "running", "succeeded", "failed", "blocked", "cancelling"}]

Succeeded(step) == \E i \in DOMAIN attempts : attempts[i] = [step |-> step, status |-> "succeeded"]
Open == \E i \in DOMAIN attempts : attempts[i].status \in {"pending", "running", "cancelling"}
Stopped == attempts # <<>> /\ attempts[Len(attempts)].status \in {"failed", "blocked"}

NextStep == CHOOSE s \in 1..3 : ~Succeeded(Steps[s]) /\ \A t \in 1..(s - 1) : Succeeded(Steps[t])

SetStatus(i, status) == attempts' = [attempts EXCEPT ![i].status = status]

-----------------------------------------------------------------------------
(* Operations.                                                             *)

\* submit: the key names the run that has it, if its plan is the same.
Submit ==
  /\ call = 0 /\ Observed /\ ResolvedNow # Missing
  /\ \/ run = Missing /\ run' = [plan |-> ResolvedNow, spec |-> "submitted", lock |-> ResolvedNow]
     \/ run # Missing /\ run.plan = ResolvedNow /\ UNCHANGED run
  /\ cache' = [spec |-> "submitted", lock |-> ResolvedNow]
  /\ UNCHANGED <<host, facts, attempts, call, launched, restarts, resumes, damages>>

\* reconcile_once: nothing is started before both have been verified.
StartNextAttempt ==
  /\ run # Missing /\ call = 0 /\ Observed
  /\ ~Open /\ ~Stopped /\ ~Succeeded("training")
  /\ Verified
  /\ cache' = InHand
  /\ attempts' = Append(attempts, [step |-> Steps[NextStep], status |-> "pending"])
  /\ call' = Len(attempts')
  /\ UNCHANGED <<host, facts, run, launched, restarts, resumes, damages>>

\* resume: the Attempt is appended first.
Resume ==
  /\ Stopped /\ call = 0 /\ Succeeded("tiny") /\ resumes < MaxResumes
  /\ resumes' = resumes + 1
  /\ attempts' = Append(attempts, [step |-> "training", status |-> "pending"])
  /\ call' = Len(attempts')
  /\ UNCHANGED <<host, facts, run, cache, launched, restarts, damages>>

\* _execute_step raises: verification fails, an answer of a plugin is malformed,
\* or the engine refuses to compile.  The Attempt stays as it is.
Raise ==
  /\ call # 0 /\ call' = 0
  /\ UNCHANGED <<host, facts, run, cache, attempts, launched, restarts, resumes, damages>>

\* The evaluation is the plugins' and may find anything.
Preflight ==
  /\ call # 0 /\ attempts[call].step = "preflight" /\ Verified
  /\ \/ SetStatus(call, "succeeded")
     \/ SetStatus(call, "blocked")
  /\ call' = 0 /\ cache' = InHand
  /\ UNCHANGED <<host, facts, run, launched, restarts, resumes, damages>>

\* TrainingRuntime.submit: an execution that is not compatible has failed.
Execute ==
  /\ call # 0 /\ attempts[call].step # "preflight" /\ Verified
  /\ IF ResolvedNow = Missing
     THEN SetStatus(call, "failed") /\ UNCHANGED launched
     ELSE /\ SetStatus(call, "running")
          /\ launched' = launched \cup
               {[attempt |-> call, lock |-> ResolvedNow, facts |-> facts, from |-> Catalogue,
                 wanted |-> Wanted, spec |-> InHand.spec, planned |-> InHand.lock]}
  /\ call' = 0 /\ cache' = InHand
  /\ UNCHANGED <<host, facts, run, restarts, resumes, damages>>

Finish(i) ==
  /\ attempts[i].status = "running" /\ call = 0
  /\ SetStatus(i, "succeeded") \/ SetStatus(i, "failed")
  /\ UNCHANGED <<host, facts, run, cache, call, launched, restarts, resumes, damages>>

\* An Attempt without a reference is not started again.
Quarantine(i) ==
  /\ attempts[i].status = "pending" /\ call = 0
  /\ SetStatus(i, "cancelling")
  /\ UNCHANGED <<host, facts, run, cache, call, launched, restarts, resumes, damages>>

Observe(observation) ==
  /\ facts' = observation
  /\ UNCHANGED <<host, run, cache, attempts, call, launched, restarts, resumes, damages>>

Restart(h) ==
  /\ restarts < MaxRestarts /\ restarts' = restarts + 1
  /\ host' = h /\ facts' = Missing /\ cache' = NoCache /\ call' = 0
  /\ UNCHANGED <<run, attempts, launched, resumes, damages>>

\* The stored documents are lost, damaged, or replaced by others that can be read.
Damage ==
  /\ run # Missing /\ damages < MaxDamages /\ damages' = damages + 1
  /\ \/ \E s \in {"altered", Missing} : run' = [run EXCEPT !.spec = s]
     \/ run' = [run EXCEPT !.lock = Missing]
     \/ \E c \in UNION {h.catalogue : h \in Hosts} : run' = [run EXCEPT !.lock = Lock(c)]
  /\ UNCHANGED <<host, facts, cache, attempts, call, launched, restarts, resumes>>

Next ==
  \/ Submit \/ StartNextAttempt \/ Resume \/ Raise \/ Preflight \/ Execute \/ Damage
  \/ \E i \in DOMAIN attempts : Finish(i) \/ Quarantine(i)
  \/ \E o \in Observations : Observe(o)
  \/ \E h \in Hosts : Restart(h)

Spec == Init /\ [][Next]_vars

\* The reconcile loop comes round, a call ends, executions end, and the
\* executor answers when the host has not been observed.
Fairness ==
  /\ WF_vars(StartNextAttempt)
  /\ WF_vars(Raise \/ Preflight \/ Execute)
  /\ WF_vars(\E i \in DOMAIN attempts : Finish(i) \/ Quarantine(i))
  /\ WF_vars(facts = Missing /\ \E o \in Observations : Observe(o))

FairSpec == Spec /\ Fairness

-----------------------------------------------------------------------------
(* Type correctness of the run, the cache and the Attempts.                *)
TypeOK ==
  /\ host \in Hosts /\ facts \in Observations \cup {Missing}
  /\ run \in Runs \cup {Missing}
  /\ cache \in [spec : {"submitted", Missing}, lock : Locks \cup {Missing}]
  /\ attempts \in Seq(Attempts) /\ call \in 0..Len(attempts)

\* What it is to meet the requirements on a host, said of what is known.
Meets(c, wanted, observed) ==
  /\ c.known_good
  /\ \A f \in Fields : wanted.wants[f] \in {Missing, c.has[f]}
  /\ Satisfies(c.python, wanted.python)
  /\ \A n \in Frameworks : wanted.frameworks[n] # Missing =>
       c.frameworks[n] # Missing /\ Satisfies(c.frameworks[n], wanted.frameworks[n])
  /\ observed # Missing =>
       /\ c.architectures # {} => observed.architecture \in c.architectures
       /\ c.precisions # {} => observed.precision \in c.precisions
       /\ c.driver # Missing => observed.driver # Missing /\ ~VersionLess(observed.driver, c.driver)
       /\ observed.accelerator # Missing /\ c.accelerator # Missing => observed.accelerator = c.accelerator

(* Nothing is launched in an environment that is not known to meet every   *)
(* requirement on the host as it was observed last.                        *)
OnlyMeetingEnvironmentsRun ==
  \A l \in launched : \E c \in l.from : Lock(c) = l.lock /\ Meets(c, l.wanted, l.facts)

(* Whatever happened to the stored state, what is launched is what was     *)
(* submitted, for the environment of the plan.                             *)
NothingRunsOnAlteredState ==
  \A l \in launched : l.spec = "submitted" /\ l.planned = run.plan

(* With these the two are inductive: nothing is held or launched without a *)
(* run, and a lock that is held is that of the plan.                       *)
IInv ==
  /\ TypeOK
  /\ run = Missing => cache = NoCache /\ attempts = <<>> /\ launched = {}
  /\ cache.lock # Missing => cache.lock = run.plan
  /\ OnlyMeetingEnvironmentsRun /\ NothingRunsOnAlteredState

(* A run that was accepted is executed or comes to an end, unless what is  *)
(* stored of it has been damaged.                                          *)
AcceptedRunsAreExecuted ==
  run # Missing ~> Stopped \/ Succeeded("training") \/ damages > 0
                     \/ \E i \in DOMAIN attempts : attempts[i].status = "cancelling"

=============================================================================
