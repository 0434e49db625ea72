------------------------- MODULE ServiceProofs -----------------------------
(***************************************************************************)
(* Proofs about the components of the Product service, side by side: the   *)
(* readiness of the host, with its inductive invariant IInv; the pass of   *)
(* the loop with the broker; the hand-offs; the resumes; and, from the     *)
(* lemmas of DraftStartProofs and OutputHarvestProofs, the drafts and the  *)
(* rows.  Every invariant that the run `service` checks of Service is here *)
(* a theorem of AllSpec, for all constants that ServiceAssumption allows.  *)
(***************************************************************************)
EXTENDS Service, SequenceTheorems, FiniteSetTheorems, TLAPS

\* The invariant holds when the process starts.
LEMMA InitIInv == Init => IInv
  BY ReadinessAssumption DEF Init, IInv, Sound, Idle, Points, Lacks, At

-----------------------------------------------------------------------------
(* Every step keeps the invariant.                                         *)

\* What is not a call stays within its bounds, and time does not pass.
Bounded ==
  /\ clock' = clock /\ changed' \in 0..clock /\ inventory'.lacks \subseteq Lacks
  /\ DOMAIN inventory' = {"serial", "lacks", "shared"}
  /\ probe'.expires \in 0..(MaxClock + Lifetime) /\ probe'.foundAt \in 0..clock

\* A step of one call that is sound in its new state, and leaves the lock alone.
LEMMA CallStep ==
  ASSUME IInv, Bounded, NEW c \in Threads, NEW entry, calls' = [calls EXCEPT ![c] = entry],
         Sound(entry), UNCHANGED holder,
         entry.at \in {"probe", "remember"} => holder = c
  PROVE  IInv'
<1>1. /\ DOMAIN calls' = Threads /\ calls'[c] = entry
      /\ \A d \in Threads : d # c => calls'[d] = calls[d]
  BY DEF IInv
<1>2. \A d \in Threads : Sound(calls'[d])
  BY <1>1 DEF IInv
<1>3. \A d \in Threads : Sound(calls[d])'
  BY <1>2 DEF Sound, Bounded
<1>4. \A d \in Threads : calls'[d].at \in {"probe", "remember"} => holder' = d
  BY <1>1 DEF IInv, At
<1>5. QED
  BY <1>1, <1>3, <1>4 DEF IInv, Bounded, At

\* A step that touches no call.
LEMMA OtherStep ==
  ASSUME IInv, Bounded, UNCHANGED <<calls, holder>>
  PROVE  IInv'
<1>1. \A d \in Threads : Sound(calls[d])'
  BY DEF IInv, Sound, Bounded
<1>2. QED
  BY <1>1 DEF IInv, Bounded, At

\* Calls that take what is remembered are not forced to probe.
LEMMA TakesStep ==
  ASSUME IInv, Bounded, NEW c \in Threads, Takes(c), ~Forced(c), UNCHANGED holder,
         calls[c].at # "answered"
  PROVE  IInv'
<1> DEFINE entry == [calls[c] EXCEPT !.found = probe.result, !.foundAt = probe.foundAt, !.at = "found"]
<1>1. calls' = [calls EXCEPT ![c] = entry]
  BY DEF Takes, IInv
<1>2. Sound(entry) /\ entry.at = "found"
  BY DEF IInv, Sound, Forced, Idle, Points
<1>3. QED
  BY <1>1, <1>2, CallStep

\* Calls that are refused.
LEMMA RefusedStep ==
  ASSUME IInv, Bounded, NEW c \in Threads, Answers(c, "refused"), UNCHANGED holder
  PROVE  IInv'
<1> DEFINE entry == [calls[c] EXCEPT !.at = "answered", !.answer = "refused"]
<1>1. calls' = [calls EXCEPT ![c] = entry]
  BY DEF Answers, IInv
<1>2. Sound(entry) /\ entry.at = "answered"
  BY DEF IInv, Sound, Idle, Points
<1>3. QED
  BY <1>1, <1>2, CallStep

LEMMA CallIInv == ASSUME IInv, NEW c \in Threads, NEW kind \in Kinds, Call(c, kind) PROVE IInv'
<1> DEFINE entry == [Idle EXCEPT !.kind = kind, !.at = "check", !.began = clock]
<1>1. calls' = [calls EXCEPT ![c] = entry] /\ UNCHANGED holder /\ Bounded
  BY DEF Call, IInv, Bounded
<1>2. Sound(entry) /\ entry.at = "check"
  BY ReadinessAssumption DEF IInv, Sound, Idle, Points, Lacks
<1>3. QED
  BY <1>1, <1>2, CallStep

LEMMA CheckIInv == ASSUME IInv, NEW c \in Threads, Check(c) PROVE IInv'
<1>1. UNCHANGED holder /\ Bounded /\ calls[c].at = "check"
  BY DEF Check, At, IInv, Bounded
<1>2. CASE Remembered(c)
  BY <1>1, <1>2, TakesStep DEF Check, Remembered
<1>3. CASE ~Remembered(c)
  <2> DEFINE entry == [calls[c] EXCEPT !.at = "wait"]
  <2>1. calls' = [calls EXCEPT ![c] = entry]
    BY <1>3 DEF Check, Goes, IInv
  <2>2. Sound(entry) /\ entry.at = "wait"
    BY <1>1 DEF IInv, Sound, Idle, Points
  <2>3. QED
    BY <1>1, <2>1, <2>2, CallStep
<1>4. QED
  BY <1>2, <1>3

\* The lock is taken by a call that waits, when nobody holds it.
LEMMA AcquireIInv == ASSUME IInv, NEW c \in Threads, Acquire(c) PROVE IInv'
<1>1. Bounded /\ calls[c].at = "wait" /\ holder = Nobody
  BY DEF Acquire, At, IInv, Bounded
<1>2. CASE Again(c)
  <2> DEFINE entry == [calls[c] EXCEPT !.at = "probe", !.since = clock]
  <2>1. calls' = [calls EXCEPT ![c] = entry] /\ holder' = c
    BY <1>2 DEF Acquire, IInv
  <2>2. Sound(entry) /\ entry.at = "probe"
    BY <1>1 DEF IInv, Sound, Idle, Points
  <2>3. /\ DOMAIN calls' = Threads /\ calls'[c] = entry
        /\ \A d \in Threads : d # c => calls'[d] = calls[d]
    BY <2>1 DEF IInv
  <2>4. \A d \in Threads : Sound(calls'[d])
    BY <2>2, <2>3 DEF IInv
  <2>5. \A d \in Threads : Sound(calls[d])'
    BY <1>1, <2>4 DEF Sound, Bounded
  <2>6. \A d \in Threads : d # c => calls[d].at \notin {"probe", "remember"}
    BY <1>1, ReadinessAssumption DEF IInv, At
  <2>7. QED
    BY <1>1, <2>1, <2>2, <2>3, <2>5, <2>6 DEF IInv, Bounded, At
<1>3. CASE ~Again(c)
  BY <1>1, <1>3, TakesStep DEF Acquire, Again, Remembered
<1>4. QED
  BY <1>2, <1>3

\* The environment is looked at after the call began.
LEMMA ProbeIInv == ASSUME IInv, NEW c \in Threads, Probe(c) PROVE IInv'
<1> DEFINE entry == [calls[c] EXCEPT !.found = trainer, !.foundAt = clock, !.at = "remember"]
<1>1. calls' = [calls EXCEPT ![c] = entry] /\ UNCHANGED holder /\ Bounded /\ calls[c].at = "probe"
  BY DEF Probe, At, IInv, Bounded
<1>2. Sound(entry) /\ entry.at = "remember"
  BY <1>1 DEF IInv, Sound, Idle, Points
<1>3. holder = c
  BY <1>1 DEF IInv, At
<1>4. QED
  BY <1>1, <1>2, <1>3, CallStep

LEMMA RememberIInv == ASSUME IInv, NEW c \in Threads, Remember(c) PROVE IInv'
<1> DEFINE entry == [calls[c] EXCEPT !.at = "found", !.since = 0]
<1>1. calls' = [calls EXCEPT ![c] = entry] /\ holder' = Nobody /\ calls[c].at = "remember"
  BY DEF Remember, At, IInv
<1>2. Bounded
  BY ReadinessAssumption DEF Remember, IInv, Sound, Bounded
<1>3. Sound(entry) /\ entry.at = "found"
  BY <1>1 DEF IInv, Sound, Idle, Points
<1>4. /\ DOMAIN calls' = Threads /\ calls'[c] = entry
      /\ \A d \in Threads : d # c => calls'[d] = calls[d]
  BY <1>1 DEF IInv
<1>5. \A d \in Threads : Sound(calls'[d])
  BY <1>3, <1>4 DEF IInv
<1>6. \A d \in Threads : Sound(calls[d])'
  BY <1>2, <1>5 DEF Sound, Bounded
<1>7. holder = c /\ \A d \in Threads : d # c => calls[d].at \notin {"probe", "remember"}
  BY <1>1 DEF IInv, At
<1>8. QED
  BY <1>1, <1>2, <1>3, <1>4, <1>6, <1>7 DEF IInv, Bounded, At

LEMMA SnapshotIInv == ASSUME IInv, NEW c \in Threads, Snapshot(c) PROVE IInv'
<1>1. UNCHANGED holder /\ Bounded /\ calls[c].at = "found"
  BY DEF Snapshot, At, IInv, Bounded
<1>2. CASE calls[c].found \/ calls[c].kind = "health"
  <2> DEFINE entry == [calls[c] EXCEPT !.snapshot = inventory, !.at = "judge"]
  <2>1. calls' = [calls EXCEPT ![c] = entry]
    BY <1>2 DEF Snapshot, IInv
  <2>2. Sound(entry) /\ entry.at = "judge"
    BY <1>1, <1>2 DEF IInv, Sound, Idle, Points
  <2>3. QED
    BY <1>1, <2>1, <2>2, CallStep
<1>3. CASE ~(calls[c].found \/ calls[c].kind = "health")
  BY <1>1, <1>3, RefusedStep DEF Snapshot
<1>4. QED
  BY <1>2, <1>3

LEMMA UnreachableIInv == ASSUME IInv, NEW c \in Threads, Unreachable(c) PROVE IInv'
<1>1. UNCHANGED holder /\ Bounded
  BY DEF Unreachable, IInv, Bounded
<1>2. QED
  BY <1>1, RefusedStep DEF Unreachable

\* The health route says what it has found, and promises nothing.
LEMMA HealthIInv == ASSUME IInv, NEW c \in Threads, Health(c) PROVE IInv'
<1>1. UNCHANGED holder /\ Bounded
  BY DEF Health, IInv, Bounded
<1>2. PICK answer \in {"ready", "refused"} : Answers(c, answer)
  BY DEF Health
<1> DEFINE entry == [calls[c] EXCEPT !.at = "answered", !.answer = answer]
<1>3. calls' = [calls EXCEPT ![c] = entry]
  BY <1>2 DEF Answers, IInv
<1>4. Sound(entry) /\ entry.at = "answered"
  BY <1>2 DEF IInv, Sound, Idle, Points
<1>5. QED
  BY <1>1, <1>3, <1>4, CallStep

LEMMA PublishIInv == ASSUME IInv, NEW c \in Threads, Publish(c) PROVE IInv'
<1>1. /\ UNCHANGED holder /\ Bounded
      /\ calls[c].at = "judge" /\ calls[c].kind = "start"
  BY DEF Publish, At, IInv, Bounded
<1>2. CASE Blockers(calls[c].snapshot) = {}
  <2> DEFINE entry == [calls[c] EXCEPT !.at = "accept"]
  <2>1. calls' = [calls EXCEPT ![c] = entry]
    BY <1>2 DEF Publish, Goes, IInv
  <2>2. Sound(entry) /\ entry.at = "accept"
    BY <1>1 DEF IInv, Sound, Idle, Points
  <2>3. QED
    BY <1>1, <2>1, <2>2, CallStep
<1>3. CASE Blockers(calls[c].snapshot) # {}
  BY <1>1, <1>3, RefusedStep DEF Publish
<1>4. QED
  BY <1>2, <1>3

\* A start is accepted where its own probe has found the trainer.
LEMMA AcceptIInv == ASSUME IInv, NEW c \in Threads, Accept(c) PROVE IInv'
<1> DEFINE entry == [calls[c] EXCEPT !.used = published, !.at = "answered", !.answer = "accepted"]
<1>1. calls' = [calls EXCEPT ![c] = entry] /\ UNCHANGED holder /\ Bounded /\ calls[c].at = "accept"
  BY DEF Accept, At, IInv, Bounded
<1>2. Sound(entry) /\ entry.at = "answered"
  BY <1>1 DEF IInv, Sound, Idle, Points
<1>3. QED
  BY <1>1, <1>2, CallStep

LEMMA AdmitIInv == ASSUME IInv, NEW c \in Threads, Admit(c) PROVE IInv'
<1>1. /\ UNCHANGED holder /\ Bounded
      /\ calls[c].at = "judge" /\ calls[c].kind = "admit"
  BY DEF Admit, At, IInv, Bounded
<1>2. PICK answer \in {"refused", "admitted"} : Answers(c, answer)
  BY DEF Admit
<1> DEFINE entry == [calls[c] EXCEPT !.at = "answered", !.answer = answer]
<1>3. calls' = [calls EXCEPT ![c] = entry]
  BY <1>2 DEF Answers, IInv
<1>4. Sound(entry) /\ entry.at = "answered"
  BY <1>1, <1>2 DEF IInv, Sound, Idle, Points
<1>5. QED
  BY <1>1, <1>3, <1>4, CallStep

LEMMA ReturnIInv == ASSUME IInv, NEW c \in Threads, Return(c) PROVE IInv'
<1>1. calls' = [calls EXCEPT ![c] = Idle] /\ UNCHANGED holder /\ Bounded
  BY DEF Return, IInv, Bounded
<1>2. Sound(Idle) /\ Idle.at = "idle"
  BY DEF IInv, Sound, Idle, Points, Lacks
<1>3. QED
  BY <1>1, <1>2, CallStep

LEMMA ChangeIInv == ASSUME IInv, Change PROVE IInv'
<1>1. inventory'.lacks \subseteq Lacks /\ DOMAIN inventory' = {"serial", "lacks", "shared"}
  <2>1. CASE UNCHANGED inventory
    BY <2>1 DEF IInv
  <2>2. CASE \E l \in {{}, {"isolation"}} :
               inventory' = [inventory EXCEPT !.serial = @ + 1, !.lacks = l]
    BY <2>2 DEF IInv, Lacks
  <2>3. QED
    BY <2>1, <2>2 DEF Change
<1>2. Bounded /\ UNCHANGED <<calls, holder>>
  BY <1>1 DEF Change, IInv, Bounded
<1>3. QED
  BY <1>2, OtherStep

\* Time passes: what was within the bounds stays within them.
LEMMA TickIInv == ASSUME IInv, Tick PROVE IInv'
<1>1. /\ clock' = clock + 1 /\ clock' \in 0..MaxClock
      /\ UNCHANGED <<inventory, changed, probe, holder, calls>>
  BY ReadinessAssumption DEF Tick, IInv
<1>2. \A d \in Threads : Sound(calls[d])'
  BY <1>1 DEF IInv, Sound
<1>3. QED
  BY <1>1, <1>2 DEF IInv, At

\* The invariant is inductive.
LEMMA NextIInv == IInv /\ [Next]_vars => IInv'
<1> SUFFICES ASSUME IInv, [Next]_vars PROVE IInv'
  OBVIOUS
<1>1. ASSUME NEW c \in Threads, Steps(c) \/ Return(c) \/ Unreachable(c) PROVE IInv'
  BY <1>1, CheckIInv, AcquireIInv, ProbeIInv, RememberIInv, SnapshotIInv, HealthIInv, PublishIInv,
     AcceptIInv, AdmitIInv, ReturnIInv, UnreachableIInv DEF Steps
<1>2. ASSUME NEW c \in Threads, NEW kind \in Kinds, Call(c, kind) PROVE IInv'
  BY <1>2, CallIInv
<1>3. CASE Change
  BY <1>3, ChangeIInv
<1>4. CASE Tick
  BY <1>4, TickIInv
<1>5. CASE UNCHANGED vars
  <2>1. Bounded /\ UNCHANGED <<calls, holder>>
    BY <1>5 DEF vars, IInv, Bounded
  <2>2. QED
    BY <2>1, OtherStep
<1>6. QED
  BY <1>1, <1>2, <1>3, <1>4, <1>5 DEF Next

-----------------------------------------------------------------------------
(* The inductive invariant holds in every reachable state of HostReadiness *)
(* (trainer_runtime_available and its three callers).                      *)
THEOREM Inductive == Spec => []IInv
<1>1. QED
  BY InitIInv, NextIInv, PTL DEF Spec

(* The calls and what is remembered keep their types, and only the holder  *)
(* of the lock probes (trainer_runtime_available).                         *)
THEOREM TypesAreRight == Spec => []TypeOK
<1>1. IInv => TypeOK
  BY DEF IInv, TypeOK
<1>2. QED
  BY <1>1, Inductive, PTL

(* However many threads ask, a start is accepted (start_run_resource) and  *)
(* a launch admitted (_admit) only on a probe that looked at the trainer   *)
(* environment after the call had begun.                                   *)
THEOREM NothingIsAcceptedOnAnOldProbe == Spec => []AcceptedOnAFreshProbe
<1>1. IInv => AcceptedOnAFreshProbe
  BY DEF IInv, Sound, AcceptedOnAFreshProbe
<1>2. QED
  BY <1>1, Inductive, PTL

-----------------------------------------------------------------------------
(* A stable host is reported as it is.                                     *)

\* What a call does not write.
Still == UNCHANGED <<clock, trainer, inventory, changed>>

\* A step of one call whose new state is in time, and of the probe with it.
LEMMA CallInTime ==
  ASSUME IInv, Steady, Lifetime + ProbeTime > 0, Still, NEW c \in Threads, NEW entry,
         calls' = [calls EXCEPT ![c] = entry], InTime(entry),
         UNCHANGED probe \/ (/\ probe'.foundAt > changed => probe'.result = trainer
                             /\ probe'.expires <= probe'.foundAt + Lifetime + ProbeTime)
  PROVE  Steady'
<1>1. /\ calls'[c] = entry /\ \A d \in Threads : d # c => calls'[d] = calls[d]
  BY DEF IInv
<1>2. \A d \in Threads : InTime(calls'[d])
  BY <1>1 DEF Steady
<1>3. \A d \in Threads : InTime(calls[d])'
  BY <1>2 DEF InTime, Still, Blockers
<1>4. QED
  BY <1>3 DEF Steady, Still

\* A host that changes has not been stable since any call began.
LEMMA ChangeSteady ==
  ASSUME IInv, Steady, Lifetime + ProbeTime > 0, clock' = clock, changed' = clock,
         UNCHANGED <<probe, calls>>
  PROVE  Steady'
<1>1. \A d \in Threads : Sound(calls[d]) /\ InTime(calls[d])
  BY DEF IInv, Steady
<1>2. clock \in Nat /\ probe.foundAt \in 0..clock
  BY ReadinessAssumption DEF IInv
<1>3. \A d \in Threads : InTime(calls[d])'
    <2>1. SUFFICES ASSUME NEW d \in Threads PROVE InTime(calls[d])'
      OBVIOUS
    <2>2. calls[d].foundAt \in 0..clock /\ calls[d].began \in 0..clock
      BY <1>1 DEF Sound
    <2>3. ~(calls[d].foundAt > clock) /\ ~(calls[d].began > clock)
      BY <1>2, <2>2
    <2>4. QED
      BY <1>1, <2>3 DEF InTime
<1>4. QED
  BY <1>2, <1>3 DEF Steady

\* Only the holder of the lock probes, and time waits for it.
LEMMA TickSteady ==
  ASSUME IInv, Steady, Lifetime + ProbeTime > 0, Tick
  PROVE  Steady'
<1>1. clock \in Nat /\ clock' = clock + 1 /\ UNCHANGED <<trainer, inventory, changed, probe, holder, calls>>
  BY ReadinessAssumption DEF Tick, IInv
<1>2. \A d \in Threads : InTime(calls[d])'
    <2>1. SUFFICES ASSUME NEW d \in Threads PROVE InTime(calls[d])'
      OBVIOUS
    <2>2. InTime(calls[d])
      BY DEF Steady
    <2>3. ASSUME calls[d].at \in {"probe", "remember"}
          PROVE  calls[d].since \in 0..(clock + 1) /\ clock + 1 <= calls[d].since + ProbeTime
        <3>1. holder = d /\ holder # Nobody
          BY <2>3, ReadinessAssumption DEF IInv, At
        <3>2. calls[d].since \in 0..clock
          BY <2>2, <2>3 DEF InTime
        <3>3. clock < calls[d].since + ProbeTime
          BY <3>1 DEF Tick
        <3>4. QED
          BY <1>1, <3>2, <3>3, ReadinessAssumption
    <2>4. QED
      BY <1>1, <2>2, <2>3 DEF InTime, Blockers
<1>3. QED
  BY <1>1, <1>2 DEF Steady

\* What is remembered was found no longer ago than a probe and its lifetime.
LEMMA TakesSteady ==
  ASSUME IInv, Steady, Lifetime + ProbeTime > 0, Still, UNCHANGED probe, NEW c \in Threads,
         Takes(c), clock < probe.expires, calls[c].at # "answered"
  PROVE  Steady'
<1> DEFINE entry == [calls[c] EXCEPT !.found = probe.result, !.foundAt = probe.foundAt, !.at = "found"]
<1>1. calls' = [calls EXCEPT ![c] = entry]
  BY DEF Takes, IInv
<1>2. /\ DOMAIN calls[c] = DOMAIN Idle /\ calls[c].began \in 0..clock
      /\ clock \in Nat /\ probe.foundAt \in 0..clock /\ probe.expires \in Nat
  BY ReadinessAssumption DEF IInv, Sound
<1>3. /\ entry.at = "found" /\ entry.found = probe.result /\ entry.foundAt = probe.foundAt
      /\ entry.began = calls[c].began
  BY <1>2 DEF Idle
<1>4. probe.foundAt + Lifetime + ProbeTime > calls[c].began
  BY <1>2, ReadinessAssumption DEF Steady
<1>5. InTime(entry)
  BY <1>3, <1>4 DEF InTime, Steady
<1>6. QED
  BY <1>1, <1>5, CallInTime

LEMMA CallSteady ==
  ASSUME IInv, Steady, Lifetime + ProbeTime > 0, NEW c \in Threads, NEW kind \in Kinds, Call(c, kind)
  PROVE  Steady'
<1> DEFINE entry == [Idle EXCEPT !.kind = kind, !.at = "check", !.began = clock]
<1>1. calls' = [calls EXCEPT ![c] = entry] /\ Still /\ UNCHANGED probe
  BY DEF Call, IInv, Still
<1>2. entry.at = "check" /\ entry.foundAt = 0
  BY DEF Idle
<1>3. ~(0 > changed)
  BY ReadinessAssumption DEF IInv
<1>4. InTime(entry)
  BY <1>2, <1>3 DEF InTime
<1>5. QED
  BY <1>1, <1>4, CallInTime

\* A call that goes on or probes.
LEMMA ProbesSteady ==
  ASSUME IInv, Steady, Lifetime + ProbeTime > 0, NEW c \in Threads,
         Check(c) \/ Acquire(c) \/ Probe(c) \/ Remember(c)
  PROVE  Steady'
<1>1. Still
  BY DEF Check, Acquire, Probe, Remember, Still
<1>2. /\ DOMAIN calls = Threads /\ DOMAIN calls[c] = DOMAIN Idle /\ calls[c].began \in 0..clock
      /\ calls[c].foundAt \in 0..clock /\ clock \in Nat /\ changed \in 0..clock
      /\ InTime(calls[c]) /\ Lifetime \in Nat /\ ProbeTime \in Nat
  BY ReadinessAssumption DEF IInv, Sound, Steady
<1>3. CASE Check(c)
    <2>1. CASE Remembered(c)
      BY <1>1, <1>3, <2>1, TakesSteady DEF Check, Remembered, At
    <2>2. CASE ~Remembered(c)
        <3> DEFINE entry == [calls[c] EXCEPT !.at = "wait"]
        <3>1. calls' = [calls EXCEPT ![c] = entry] /\ UNCHANGED probe
          BY <1>2, <1>3, <2>2 DEF Check, Goes
        <3>2. entry.at = "wait" /\ entry.foundAt = calls[c].foundAt /\ entry.found = calls[c].found
          BY <1>2 DEF Idle
        <3>3. InTime(entry)
          BY <1>2, <3>2 DEF InTime
        <3>4. QED
          BY <1>1, <3>1, <3>3, CallInTime
    <2>3. QED
      BY <2>1, <2>2
<1>4. CASE Acquire(c)
    <2>1. CASE Again(c)
        <3> DEFINE entry == [calls[c] EXCEPT !.at = "probe", !.since = clock]
        <3>1. calls' = [calls EXCEPT ![c] = entry] /\ UNCHANGED probe
          BY <1>2, <1>4, <2>1 DEF Acquire
        <3>2. /\ entry.at = "probe" /\ entry.foundAt = calls[c].foundAt /\ entry.found = calls[c].found
              /\ entry.since = clock
          BY <1>2 DEF Idle
        <3>3. InTime(entry)
          BY <1>2, <3>2 DEF InTime
        <3>4. QED
          BY <1>1, <3>1, <3>3, CallInTime
    <2>2. CASE ~Again(c)
      BY <1>1, <1>4, <2>2, TakesSteady DEF Acquire, Again, Remembered, At
    <2>3. QED
      BY <2>1, <2>2
<1>5. CASE Probe(c)
    <2> DEFINE entry == [calls[c] EXCEPT !.found = trainer, !.foundAt = clock, !.at = "remember"]
    <2>1. calls' = [calls EXCEPT ![c] = entry] /\ UNCHANGED probe /\ calls[c].at = "probe"
      BY <1>2, <1>5 DEF Probe, At
    <2>2. /\ entry.at = "remember" /\ entry.foundAt = clock /\ entry.found = trainer
          /\ entry.since = calls[c].since /\ entry.began = calls[c].began
      BY <1>2 DEF Idle
    <2>3. calls[c].since \in 0..clock /\ clock <= calls[c].since + ProbeTime
      BY <1>2, <2>1 DEF InTime
    <2>4. clock >= calls[c].since /\ clock >= calls[c].began
      BY <1>2, <2>3
    <2>5. InTime(entry)
      BY <2>2, <2>3, <2>4 DEF InTime
    <2>6. QED
      BY <1>1, <2>1, <2>5, CallInTime
<1>6. CASE Remember(c)
    <2> DEFINE entry == [calls[c] EXCEPT !.at = "found", !.since = 0]
    <2>1. calls' = [calls EXCEPT ![c] = entry] /\ calls[c].at = "remember"
      BY <1>2, <1>6 DEF Remember, At
    <2>2. /\ entry.at = "found" /\ entry.foundAt = calls[c].foundAt /\ entry.found = calls[c].found
          /\ entry.began = calls[c].began
      BY <1>2 DEF Idle
    <2>3. /\ calls[c].since \in 0..clock /\ clock <= calls[c].since + ProbeTime
          /\ calls[c].foundAt >= calls[c].since /\ calls[c].foundAt >= calls[c].began
      BY <1>2, <2>1 DEF InTime
    <2>4. calls[c].foundAt + Lifetime + ProbeTime > calls[c].began
      BY <1>2, <2>3
    <2>5. InTime(entry)
      BY <1>2, <2>2, <2>4 DEF InTime
    <2>6. probe' = [result |-> calls[c].found, expires |-> clock + Lifetime, foundAt |-> calls[c].foundAt]
      BY <1>6 DEF Remember
    <2>7. probe'.foundAt > changed => probe'.result = trainer
      BY <1>2, <2>6 DEF InTime
    <2>8. probe'.expires <= probe'.foundAt + Lifetime + ProbeTime
      BY <1>2, <2>3, <2>6
    <2>9. QED
      BY <1>1, <2>1, <2>5, <2>7, <2>8, CallInTime
<1>7. QED
  BY <1>3, <1>4, <1>5, <1>6

\* A call that reads the inventory, answers or returns.
LEMMA AnswersSteady ==
  ASSUME IInv, Steady, Lifetime + ProbeTime > 0, NEW c \in Threads,
         Snapshot(c) \/ Health(c) \/ Publish(c) \/ Accept(c) \/ Admit(c) \/ Return(c)
  PROVE  Steady'
<1>1. Still /\ UNCHANGED probe
  BY DEF Snapshot, Health, Publish, Accept, Admit, Return, Still
<1>2. /\ DOMAIN calls = Threads /\ DOMAIN calls[c] = DOMAIN Idle /\ changed \in 0..clock /\ clock \in Nat
      /\ InTime(calls[c])
  BY ReadinessAssumption DEF IInv, Sound, Steady
<1>3. CASE Snapshot(c) /\ calls[c].kind = "health"
    <2> DEFINE entry == [calls[c] EXCEPT !.snapshot = inventory, !.at = "judge"]
    <2>1. calls' = [calls EXCEPT ![c] = entry] /\ calls[c].at = "found"
      BY <1>2, <1>3 DEF Snapshot, At
    <2>2. /\ entry.at = "judge" /\ entry.foundAt = calls[c].foundAt /\ entry.found = calls[c].found
          /\ entry.began = calls[c].began /\ entry.snapshot = inventory /\ entry.kind = "health"
      BY <1>2, <1>3 DEF Idle
    <2>3. InTime(entry)
      BY <1>2, <1>3, <2>1, <2>2 DEF InTime
    <2>4. QED
      BY <1>1, <2>1, <2>3, CallInTime
<1>4. CASE Health(c)
    <2> DEFINE answer == IF calls[c].found /\ Blockers(calls[c].snapshot) = {} THEN "ready" ELSE "refused"
               entry == [calls[c] EXCEPT !.at = "answered", !.answer = answer]
    <2>1. calls' = [calls EXCEPT ![c] = entry] /\ calls[c].at = "judge"
      BY <1>2, <1>4 DEF Health, Answers, At
    <2>2. answer = "ready" <=> calls[c].found /\ Blockers(calls[c].snapshot) = {}
      OBVIOUS
    <2> HIDE DEF answer
    <2>3. /\ entry.at = "answered" /\ entry.foundAt = calls[c].foundAt /\ entry.found = calls[c].found
          /\ entry.began = calls[c].began /\ entry.snapshot = calls[c].snapshot
          /\ entry.kind = calls[c].kind /\ entry.answer = answer
      BY <1>2 DEF Idle
    <2>4. InTime(entry)
      BY <1>2, <2>1, <2>2, <2>3 DEF InTime
    <2>5. QED
      BY <1>1, <2>1, <2>4, CallInTime
<1>5. CASE Return(c)
    <2>1. calls' = [calls EXCEPT ![c] = Idle]
      BY <1>5 DEF Return
    <2>2. ~(0 > changed) /\ Idle.at = "idle" /\ Idle.foundAt = 0
      BY <1>2 DEF Idle
    <2>3. InTime(Idle)
      BY <2>2 DEF InTime
    <2>4. QED
      BY <1>1, <2>1, <2>3, CallInTime
<1>6. ASSUME NEW entry, calls' = [calls EXCEPT ![c] = entry], entry.kind # "health",
             entry.at \notin {"probe", "remember"},
             entry.foundAt = calls[c].foundAt, entry.found = calls[c].found
      PROVE  Steady'
    <2>1. InTime(entry)
      BY <1>2, <1>6 DEF InTime
    <2>2. QED
      BY <1>1, <1>6, <2>1, CallInTime
<1>7. CASE Snapshot(c) /\ calls[c].kind # "health"
    <2>1. CASE calls[c].found
        <3> DEFINE entry == [calls[c] EXCEPT !.snapshot = inventory, !.at = "judge"]
        <3>1. calls' = [calls EXCEPT ![c] = entry]
          BY <1>2, <1>7, <2>1 DEF Snapshot
        <3>2. /\ entry.at = "judge" /\ entry.foundAt = calls[c].foundAt /\ entry.found = calls[c].found
              /\ entry.kind = calls[c].kind
          BY <1>2 DEF Idle
        <3> HIDE DEF entry
        <3>3. QED
          BY <1>6, <1>7, <3>1, <3>2
    <2>2. CASE ~calls[c].found
        <3> DEFINE entry == [calls[c] EXCEPT !.at = "answered", !.answer = "refused"]
        <3>1. calls' = [calls EXCEPT ![c] = entry]
          BY <1>2, <1>7, <2>2 DEF Snapshot, Answers
        <3>2. /\ entry.at = "answered" /\ entry.foundAt = calls[c].foundAt /\ entry.found = calls[c].found
              /\ entry.kind = calls[c].kind
          BY <1>2 DEF Idle
        <3> HIDE DEF entry
        <3>3. QED
          BY <1>6, <1>7, <3>1, <3>2
    <2>3. QED
      BY <2>1, <2>2
<1>8. CASE Publish(c)
    <2>1. CASE Blockers(calls[c].snapshot) = {}
        <3> DEFINE entry == [calls[c] EXCEPT !.at = "accept"]
        <3>1. calls' = [calls EXCEPT ![c] = entry] /\ calls[c].kind = "start"
          BY <1>2, <1>8, <2>1 DEF Publish, Goes
        <3>2. /\ entry.at = "accept" /\ entry.foundAt = calls[c].foundAt /\ entry.found = calls[c].found
              /\ entry.kind = calls[c].kind
          BY <1>2 DEF Idle
        <3> HIDE DEF entry
        <3>3. QED
          BY <1>6, <3>1, <3>2
    <2>2. CASE Blockers(calls[c].snapshot) # {}
        <3> DEFINE entry == [calls[c] EXCEPT !.at = "answered", !.answer = "refused"]
        <3>1. calls' = [calls EXCEPT ![c] = entry] /\ calls[c].kind = "start"
          BY <1>2, <1>8, <2>2 DEF Publish, Answers
        <3>2. /\ entry.at = "answered" /\ entry.foundAt = calls[c].foundAt /\ entry.found = calls[c].found
              /\ entry.kind = calls[c].kind
          BY <1>2 DEF Idle
        <3> HIDE DEF entry
        <3>3. QED
          BY <1>6, <3>1, <3>2
    <2>3. QED
      BY <2>1, <2>2
<1>9. CASE Accept(c)
    <2> DEFINE entry == [calls[c] EXCEPT !.used = published, !.at = "answered", !.answer = "accepted"]
    <2>1. calls' = [calls EXCEPT ![c] = entry] /\ calls[c].kind = "start"
      BY <1>2, <1>9 DEF Accept, At, IInv, Sound
    <2>2. /\ entry.at = "answered" /\ entry.foundAt = calls[c].foundAt /\ entry.found = calls[c].found
          /\ entry.kind = calls[c].kind
      BY <1>2 DEF Idle
    <2> HIDE DEF entry
    <2>3. QED
      BY <1>6, <2>1, <2>2
<1>10. CASE Admit(c)
    <2> DEFINE answer == IF calls[c].snapshot.shared /\ ~AllowShared THEN "refused" ELSE "admitted"
               entry == [calls[c] EXCEPT !.at = "answered", !.answer = answer]
    <2>1. calls' = [calls EXCEPT ![c] = entry] /\ calls[c].kind = "admit"
      BY <1>2, <1>10 DEF Admit, Answers
    <2> HIDE DEF answer
    <2>2. /\ entry.at = "answered" /\ entry.foundAt = calls[c].foundAt /\ entry.found = calls[c].found
          /\ entry.kind = calls[c].kind
      BY <1>2 DEF Idle
    <2> HIDE DEF entry
    <2>3. QED
      BY <1>6, <2>1, <2>2
<1>11. QED
  BY <1>3, <1>4, <1>5, <1>7, <1>8, <1>9, <1>10

\* A Kernel that does not answer counts as a change of the host.
LEMMA UnreachableSteady ==
  ASSUME IInv, Steady, Lifetime + ProbeTime > 0, NEW c \in Threads, Unreachable(c)
  PROVE  Steady'
<1> DEFINE entry == [calls[c] EXCEPT !.at = "answered", !.answer = "refused"]
<1>1. /\ calls' = [calls EXCEPT ![c] = entry] /\ clock' = clock /\ changed' = clock
      /\ probe' = probe /\ calls[c].at = "found"
  BY DEF Unreachable, Answers, At, IInv
<1>2. /\ DOMAIN calls = Threads /\ DOMAIN calls[c] = DOMAIN Idle
      /\ clock \in Nat /\ probe.foundAt \in 0..clock
      /\ \A d \in Threads : calls[d].foundAt \in 0..clock /\ calls[d].began \in 0..clock /\ InTime(calls[d])
  BY ReadinessAssumption DEF IInv, Sound, Steady
<1>3. /\ entry.at = "answered" /\ entry.foundAt = calls[c].foundAt /\ entry.found = calls[c].found
      /\ entry.began = calls[c].began /\ entry.kind = calls[c].kind
  BY <1>2 DEF Idle
<1> HIDE DEF entry
<1>4. calls'[c] = entry /\ \A d \in Threads : d # c => calls'[d] = calls[d]
  BY <1>1, <1>2
<1>5. \A d \in Threads : ~(calls[d].foundAt > clock) /\ ~(calls[d].began > clock)
  BY <1>2
<1>6. InTime(calls[c])'
  BY <1>1, <1>2, <1>3, <1>4, <1>5 DEF InTime
<1>7. \A d \in Threads : d # c => InTime(calls[d])'
  BY <1>1, <1>2, <1>4, <1>5 DEF InTime
<1>8. QED
  BY <1>1, <1>2, <1>6, <1>7 DEF Steady

LEMMA NextSteady == IInv /\ Steady /\ [Next]_vars => Steady'
<1> SUFFICES ASSUME IInv, Steady, [Next]_vars, Lifetime + ProbeTime > 0 PROVE Steady'
  BY DEF Steady
<1>1. ASSUME NEW c \in Threads, Steps(c) \/ Return(c) \/ Unreachable(c) PROVE Steady'
  BY <1>1, ProbesSteady, AnswersSteady, UnreachableSteady DEF Steps
<1>2. ASSUME NEW c \in Threads, NEW kind \in Kinds, Call(c, kind) PROVE Steady'
  BY <1>2, CallSteady
<1>3. CASE Change
  BY <1>3, ChangeSteady DEF Change
<1>4. CASE Tick
  BY <1>4, TickSteady
<1>5. CASE UNCHANGED vars
  BY <1>5 DEF vars, Steady, InTime
<1>6. QED
  BY <1>1, <1>2, <1>3, <1>4, <1>5 DEF Next

(* Where a probe or its lifetime takes time (they are 45 s and 30 s), a    *)
(* host that has been stable for both is reported as it is, whoever else   *)
(* has probed (create_app.health, trainer_runtime_available).              *)
THEOREM ReportsStayStable ==
  ASSUME Lifetime + ProbeTime > 0
  PROVE  Spec => []ReportsAreStable
<1>1. Init => Steady
  BY ReadinessAssumption DEF Init, Steady, InTime, Idle
<1>2. Spec => []Steady
  BY <1>1, Inductive, NextSteady, PTL DEF Spec
<1>3. ASSUME IInv, Steady
      PROVE  StableHostsAreReported
    <2>1. SUFFICES ASSUME NEW c \in Threads, At(c, "answered"), calls[c].kind = "health",
                          calls[c].began >= changed + Lifetime + ProbeTime
                   PROVE  calls[c].answer = "ready" <=> trainer /\ Blockers(inventory) = {}
      BY DEF StableHostsAreReported
    <2>2. /\ changed \in Nat /\ calls[c].began \in Nat /\ calls[c].foundAt \in Nat
          /\ Lifetime \in Nat /\ ProbeTime \in Nat
      BY <1>3, ReadinessAssumption DEF IInv, Sound
    <2>3. InTime(calls[c]) /\ calls[c].at = "answered"
      BY <1>3, <2>1 DEF Steady, At
    <2>4. calls[c].foundAt + Lifetime + ProbeTime > calls[c].began
      BY <2>1, <2>3 DEF InTime
    <2>5. calls[c].foundAt > changed /\ calls[c].began > changed
      BY <2>1, <2>2, <2>4
    <2>6. QED
      BY <2>1, <2>3, <2>5 DEF InTime
<1>4. IInv /\ Steady => ReportsAreStable
  BY <1>3 DEF ReportsAreStable, IInv, TypeOK
<1>5. QED
  BY <1>2, <1>4, Inductive, PTL

-----------------------------------------------------------------------------
(* The pass of the loop and the broker.                                    *)

\* What a run is, and what the broker is told of it.
ActiveStates == {"pending", "running", "awaiting_retry", "cancelling"}
EndedStates == {"succeeded", "failed", "cancelled"}

LEMMA ToldStates ==
  /\ \A s \in ActiveStates :
       /\ Pass!Active(s) /\ ~Pass!Terminal(s)
       /\ Pass!PassState(s) \in Pass!States /\ Pass!ActivityState(s) \in Pass!States
  /\ \A s \in EndedStates \cup {"none"} : ~Pass!Active(s) /\ Pass!ActivityState(s) = Absent
  /\ \A s \in EndedStates : Pass!Terminal(s)
  /\ ~Pass!Terminal("none")
<1>1. \A s \in ActiveStates : Pass!ActivityState(s) \in Pass!States
  BY DEF ActiveStates, Pass!ActivityState, Pass!States
<1>2. \A s \in ActiveStates : Pass!PassState(s) \in Pass!States
  BY <1>1 DEF Pass!PassState, Pass!States
<1>3. \A s \in EndedStates \cup {"none"} : Pass!ActivityState(s) = Absent
  BY DEF EndedStates, Pass!ActivityState
<1>4. \A s \in ActiveStates : Pass!Active(s) /\ ~Pass!Terminal(s)
  BY DEF ActiveStates, Pass!Active, Pass!Terminal
<1>5. QED
  BY <1>1, <1>2, <1>3, <1>4 DEF EndedStates, Pass!Active, Pass!Terminal

LEMMA ToldIsNotAbsent == Absent \notin Pass!States
  BY ServiceAssumption DEF Pass!PassAssumption

LEMMA PassBegins == Pass!Init => Pass!IInv
<1> SUFFICES ASSUME Pass!Init PROVE Pass!IInv
  OBVIOUS
<1>1. Pass!TypeOK /\ resumes \in Nat
  <2>1. Cases.pass.N \in Nat
    BY ServiceAssumption DEF Pass!PassAssumption
  <2>2. QED
    BY <2>1 DEF Pass!Init, Pass!TypeOK, Pass!Between
<1>2. /\ pass = Pass!Between /\ ~(\E r \in Pass!Runs : Pass!In(r, "complete"))
      /\ \A r \in Pass!Runs : told[r] = Absent /\ ~Pass!Active(status[r]) /\ ~linked[r]
  BY DEF Pass!Init, Pass!In, Pass!Between, Pass!Active
<1>3. QED
  BY <1>1, <1>2 DEF Pass!IInv, Pass!ActiveRunsAreTracked

\* A step that only moves the pass.
LEMMA PassMoves ==
  ASSUME Pass!IInv, UNCHANGED <<status, gate, told>>, completed' \subseteq Pass!Runs,
         linked' = linked, pass'.run \in 0..Cases.pass.N,
         loop' \in {"up", "dead", "down"}, resumes' = resumes,
         loop' = "down" => pass' = Pass!Between,
         loop = "down" => loop' = "down",
         \A r \in Pass!Runs : pass' = [run |-> r, at |-> "complete"] => Pass!Terminal(status[r])
  PROVE  Pass!IInv'
  BY DEF Pass!IInv, Pass!TypeOK, Pass!ActiveRunsAreTracked, Pass!In, Pass!Between

\* A step about one run, of which the broker has or had a task.
LEMMA PassTells ==
  ASSUME Pass!IInv, NEW r \in Pass!Runs, NEW s \in ActiveStates \cup EndedStates \cup {"none"},
         NEW g \in Pass!States \cup {Absent}, NEW t \in Pass!States \cup {Absent},
         status' = [status EXCEPT ![r] = s], gate' = [gate EXCEPT ![r] = g],
         told' = [told EXCEPT ![r] = t],
         t # Absent => g # Absent,
         Pass!Active(s) => g # Absent \/ (resumes' > 0 /\ s = "running" /\ t = Absent),
         completed' \subseteq Pass!Runs, linked' \in [Pass!Runs -> BOOLEAN],
         pass'.run \in 0..Cases.pass.N, loop' \in {"up", "dead"}, loop # "down",
         resumes' \in {resumes, resumes + 1},
         \A q \in Pass!Runs : linked'[q] => status'[q] # "none",
         \A q \in Pass!Runs : pass' # [run |-> q, at |-> "complete"]
  PROVE  Pass!IInv'
<1>1. Pass!TypeOK'
  BY DEF Pass!IInv, Pass!TypeOK, ActiveStates, EndedStates
<1>2. /\ resumes \in Nat /\ resumes' \in Nat
      /\ \A q \in Pass!Runs \ {r} : status'[q] = status[q] /\ gate'[q] = gate[q] /\ told'[q] = told[q]
      /\ status'[r] = s /\ gate'[r] = g /\ told'[r] = t
  BY DEF Pass!IInv, Pass!TypeOK
<1>3. \A q \in Pass!Runs : told'[q] # Absent => gate'[q] # Absent
  BY <1>2 DEF Pass!IInv
<1>4. Pass!ActiveRunsAreTracked'
  BY <1>2 DEF Pass!IInv, Pass!ActiveRunsAreTracked, Pass!Active
<1>5. QED
  BY <1>1, <1>2, <1>3, <1>4 DEF Pass!IInv, Pass!In

LEMMA PassGoesOn == Pass!IInv /\ [Pass!Next]_Pass!vars => Pass!IInv'
<1> SUFFICES ASSUME Pass!IInv, [Pass!Next]_Pass!vars PROVE Pass!IInv'
  OBVIOUS
<1>1. /\ \A r \in Pass!Runs : r \in 0..Cases.pass.N /\ (r < Cases.pass.N => r + 1 \in 0..Cases.pass.N)
      /\ Pass!Between.run \in 0..Cases.pass.N /\ resumes \in Nat
      /\ \A r : Pass!Between # [run |-> r, at |-> "complete"]
  BY ServiceAssumption DEF Pass!PassAssumption, Pass!Runs, Pass!Between, Pass!IInv
<1>2. /\ status \in [Pass!Runs -> ActiveStates \cup EndedStates \cup {"none"}]
      /\ gate \in [Pass!Runs -> Pass!States \cup {Absent}]
      /\ told \in [Pass!Runs -> Pass!States \cup {Absent}]
      /\ linked \in [Pass!Runs -> BOOLEAN] /\ completed \subseteq Pass!Runs
      /\ pass.run \in 0..Cases.pass.N /\ loop \in {"up", "dead", "down"}
  BY DEF Pass!IInv, Pass!TypeOK, ActiveStates, EndedStates
<1>3. /\ \A r \in Pass!Runs : told[r] = Absent \/ gate[r] # Absent \/ loop = "down"
      /\ \A r \in Pass!Runs : loop # "down" /\ Pass!Active(status[r]) =>
           gate[r] # Absent \/ (resumes > 0 /\ status[r] = "running" /\ told[r] = Absent)
      /\ pass # Pass!Between => loop # "down"
      /\ \A r \in Pass!Runs : linked[r] => status[r] # "none"
  BY DEF Pass!IInv, Pass!ActiveRunsAreTracked
<1>4. ASSUME NEW r \in Pass!Runs, Pass!Start(r) PROVE Pass!IInv'
  <2> DEFINE s == IF status[r] = "none" THEN "pending" ELSE status[r]
  <2>1. /\ pass' = pass /\ pass = Pass!Between /\ loop' = loop /\ loop # "down"
        /\ completed' = completed /\ resumes' = resumes
    BY <1>4 DEF Pass!Start, Pass!Serving
  <2>2. CASE /\ Pass!Becomes(r, s) /\ linked' = [linked EXCEPT ![r] = TRUE]
             /\ Pass!Gate(r, "QUEUED") /\ Pass!Tell(r, "QUEUED")
    <3>1. s \in ActiveStates \cup EndedStates \cup {"none"} /\ "QUEUED" \in Pass!States
      BY <1>2 DEF ActiveStates, Pass!States
    <3>2. linked' \in [Pass!Runs -> BOOLEAN] /\ \A q \in Pass!Runs : linked'[q] => status'[q] # "none"
      BY <1>2, <1>3, <2>2 DEF Pass!Becomes
    <3> HIDE DEF s
    <3>3. QED
      BY <1>1, <1>2, <2>1, <2>2, <3>1, <3>2, ToldIsNotAbsent, PassTells
      DEF Pass!Becomes, Pass!Gate, Pass!Tell
  <2>3. CASE Pass!Accepted(r)
    <3>1. "pending" \in ActiveStates /\ "QUEUED" \in Pass!States
      BY DEF ActiveStates, Pass!States
    <3>2. told' = [told EXCEPT ![r] = told[r]] /\ told[r] \in Pass!States \cup {Absent}
      BY <1>2, <2>3 DEF Pass!Accepted
    <3>3. linked' = linked /\ \A q \in Pass!Runs : linked'[q] => status'[q] # "none"
      BY <1>2, <1>3, <2>3 DEF Pass!Becomes, Pass!Accepted
    <3>4. status' = [status EXCEPT ![r] = "pending"] /\ gate' = [gate EXCEPT ![r] = "QUEUED"]
      BY <2>3 DEF Pass!Becomes, Pass!Gate, Pass!Accepted
    <3>5. "QUEUED" # Absent /\ completed' \subseteq Pass!Runs /\ linked' \in [Pass!Runs -> BOOLEAN]
      BY <1>2, <2>1, <3>1, <3>3, ToldIsNotAbsent
    <3>6. QED
      BY <1>1, <1>2, <2>1, <3>1, <3>2, <3>3, <3>4, <3>5, PassTells
  <2>4. QED
    BY <1>4, <2>2, <2>3 DEF Pass!Start
<1>5. ASSUME NEW r \in Pass!Runs, Pass!Cancel(r) PROVE Pass!IInv'
  <2>1. /\ pass' = pass /\ pass = Pass!Between /\ loop' = loop /\ loop # "down"
        /\ completed' = completed /\ linked' = linked /\ resumes' = resumes
        /\ gate' = [gate EXCEPT ![r] = "CANCELING"]
    BY <1>5 DEF Pass!Cancel, Pass!Serving, Pass!Gate
  <2>2. "CANCELING" \in Pass!States /\ "cancelling" \in ActiveStates
    BY DEF Pass!States, ActiveStates
  <2>3. PICK s \in {"cancelling", status[r]}, u \in {"CANCELING", told[r]} :
          status' = [status EXCEPT ![r] = s] /\ told' = [told EXCEPT ![r] = u]
    BY <1>2, <1>5 DEF Pass!Cancel, Pass!Becomes, Pass!Tell
  <2>4. s \in ActiveStates \cup EndedStates \cup {"none"} /\ u \in Pass!States \cup {Absent}
    BY <1>2, <2>2, <2>3
  <2>5. \A q \in Pass!Runs : linked'[q] => status'[q] # "none"
    BY <1>2, <1>3, <2>1, <2>3
  <2>6. QED
    BY <1>1, <1>2, <2>1, <2>2, <2>3, <2>4, <2>5, ToldIsNotAbsent, PassTells
<1>6. ASSUME NEW r \in Pass!Runs, Pass!Resume(r) PROVE Pass!IInv'
  <2>1. /\ pass' = pass /\ pass = Pass!Between /\ loop' = loop /\ loop # "down"
        /\ linked' = linked /\ resumes' = resumes + 1 /\ completed' \in {completed, completed \ {r}}
        /\ status' = [status EXCEPT ![r] = "running"]
    BY <1>6 DEF Pass!Resume, Pass!Serving, Pass!Becomes
  <2>2. Pass!ResumedTask(r) \in Pass!States /\ "DISPATCHING" \in Pass!States /\ "running" \in ActiveStates
    BY DEF Pass!ResumedTask, Pass!States, ActiveStates
  <2>3. \/ gate' = [gate EXCEPT ![r] = Pass!ResumedTask(r)] /\ told' = [told EXCEPT ![r] = "DISPATCHING"]
        \/ gate' = [gate EXCEPT ![r] = Pass!ResumedTask(r)] /\ told' = [told EXCEPT ![r] = told[r]]
        \/ gate' = [gate EXCEPT ![r] = gate[r]] /\ told' = [told EXCEPT ![r] = told[r]]
    BY <1>2, <1>6 DEF Pass!Resume, Pass!Gate, Pass!Tell
  <2>4. PICK g \in Pass!States \cup {Absent}, u \in Pass!States \cup {Absent} :
          /\ gate' = [gate EXCEPT ![r] = g] /\ told' = [told EXCEPT ![r] = u]
          /\ u # Absent => g # Absent
    BY <1>2, <1>3, <2>1, <2>2, <2>3, ToldIsNotAbsent
  <2>5. g # Absent \/ (resumes' > 0 /\ u = Absent)
    BY <1>1, <2>1, <2>4
  <2>6. completed' \subseteq Pass!Runs /\ \A q \in Pass!Runs : linked'[q] => status'[q] # "none"
    BY <1>2, <1>3, <2>1
  <2>7. QED
    BY <1>1, <1>2, <2>1, <2>2, <2>4, <2>5, <2>6, PassTells
<1>7. CASE Pass!Begin
  <2>1. 1 \in 0..Cases.pass.N
    BY ServiceAssumption DEF Pass!PassAssumption
  <2>2. QED
    BY <1>1, <1>2, <1>7, <2>1, PassMoves DEF Pass!Begin
<1>8. ASSUME NEW r \in Pass!Runs
      PROVE  /\ Pass!Following(r).run \in 0..Cases.pass.N
             /\ \A q : Pass!Following(r) # [run |-> q, at |-> "complete"]
             /\ \A point : [run |-> r, at |-> point].run \in 0..Cases.pass.N
             /\ \A point : Pass!In(r, point) => loop # "down"
  <2>1. [run |-> r + 1, at |-> "visit"].run = r + 1
    OBVIOUS
  <2>2. \A point : Pass!In(r, point) => pass # Pass!Between
    BY DEF Pass!In, Pass!Between, Pass!Runs
  <2>3. QED
    BY <1>1, <1>3, <2>1, <2>2 DEF Pass!Following
<1>9. ASSUME NEW kind, Pass!Raises(kind), loop # "down"
      PROVE  pass' = Pass!Between /\ loop' \in {"up", "dead"}
  BY <1>2, <1>9 DEF Pass!Raises
<1>10. ASSUME NEW r \in Pass!Runs, Pass!Skip(r) PROVE Pass!IInv'
  <2>1. /\ pass' = Pass!Following(r) /\ loop # "down"
        /\ UNCHANGED <<status, linked, gate, told, completed, loop, resumes>>
    BY <1>8, <1>10 DEF Pass!Skip
  <2>2. QED
    BY <1>1, <1>2, <1>8, <2>1, PassMoves
<1>11. ASSUME NEW r \in Pass!Runs, Pass!CompletesEnded(r) PROVE Pass!IInv'
  <2>1. /\ pass' = [run |-> r, at |-> IF r \in completed THEN "harvest" ELSE "complete"]
        /\ loop # "down" /\ Pass!Terminal(status[r])
        /\ UNCHANGED <<status, linked, gate, told, completed, loop, resumes>>
    BY <1>8, <1>11 DEF Pass!CompletesEnded
  <2>2. pass'.run = r /\ \A q : pass' = [run |-> q, at |-> "complete"] => q = r
    BY <2>1
  <2>3. QED
    BY <1>1, <1>2, <1>8, <2>1, <2>2, PassMoves
<1>12. ASSUME NEW r \in Pass!Runs, Pass!Reconcile(r) PROVE Pass!IInv'
  <2> DEFINE state == Pass!PassState(status[r])
  <2>1. /\ loop # "down" /\ linked[r] /\ ~Pass!Terminal(status[r])
        /\ UNCHANGED <<linked, completed, resumes>>
    BY <1>8, <1>12 DEF Pass!Reconcile
  <2>2. state \in Pass!States
    BY <1>2, <1>3, <2>1, ToldStates
  <2>3. /\ \/ gate' = [gate EXCEPT ![r] = state]
           \/ gate' = gate /\ told[r] = state
           \/ UNCHANGED <<gate, told, status>>
        /\ \/ told' = [told EXCEPT ![r] = state]
           \/ told' = told
        /\ \/ \E s \in Pass!Reconciled(status[r]) : Pass!Becomes(r, s)
           \/ status' = status
        /\ \/ pass' = [run |-> r, at |-> "reconciled"] /\ loop' = loop
           \/ pass' = Pass!Between /\ loop' \in {"up", "dead"}
    BY <1>9, <1>12, <2>1 DEF Pass!Reconcile, Pass!Tell, Pass!Gate
  <2> HIDE DEF state
  <2>4. PICK s \in ActiveStates \cup EndedStates : status' = [status EXCEPT ![r] = s]
    <3>1. Pass!Reconciled(status[r]) \subseteq ActiveStates \cup EndedStates
      BY DEF Pass!Reconciled, ActiveStates, EndedStates
    <3>2. status[r] \in ActiveStates \cup EndedStates /\ status = [status EXCEPT ![r] = status[r]]
      BY <1>2, <1>3, <2>1
    <3>3. QED
      BY <2>3, <3>1, <3>2 DEF Pass!Becomes
  <2>6. /\ pass'.run \in 0..Cases.pass.N /\ loop' \in {"up", "dead"}
        /\ \A q : pass' # [run |-> q, at |-> "complete"]
    BY <1>1, <1>2, <1>8, <2>1, <2>3
  <2>7. \A q \in Pass!Runs : linked'[q] => status'[q] # "none"
    BY <1>2, <1>3, <2>1, <2>4 DEF ActiveStates, EndedStates
  <2>8. CASE UNCHANGED <<gate, told, status>>
    BY <1>2, <2>1, <2>6, <2>8, PassMoves
  <2>9. CASE \/ gate' = [gate EXCEPT ![r] = state]
             \/ gate' = gate /\ told[r] = state
    <3>1. PICK g \in Pass!States : gate' = [gate EXCEPT ![r] = g]
      <4>1. told[r] = state => gate[r] \in Pass!States /\ gate = [gate EXCEPT ![r] = gate[r]]
        BY <1>2, <1>3, <2>1, <2>2, ToldIsNotAbsent
      <4>2. QED
        BY <2>2, <2>9, <4>1
    <3>2. PICK u \in Pass!States \cup {Absent} : told' = [told EXCEPT ![r] = u]
      BY <1>2, <2>2, <2>3
    <3>3. /\ g # Absent /\ g \in Pass!States \cup {Absent} /\ s \in ActiveStates \cup EndedStates \cup {"none"}
          /\ completed' \subseteq Pass!Runs /\ linked' \in [Pass!Runs -> BOOLEAN]
          /\ resumes' \in {resumes, resumes + 1}
      BY <1>2, <2>1, ToldIsNotAbsent
    <3>4. QED
      BY <2>1, <2>4, <2>6, <2>7, <3>1, <3>2, <3>3, PassTells
  <2>10. QED
    BY <2>3, <2>8, <2>9
<1>13. ASSUME NEW r \in Pass!Runs, Pass!Retell(r) PROVE Pass!IInv'
  <2> DEFINE state == Pass!ActivityState(status[r])
  <2>1. /\ loop # "down" /\ UNCHANGED <<status, linked, completed, resumes>>
    BY <1>8, <1>13 DEF Pass!Retell
  <2>2. /\ \/ gate' = [gate EXCEPT ![r] = state] /\ told' = [told EXCEPT ![r] = state]
              /\ state \in {"RUNNING", "CANCELING"}
           \/ UNCHANGED <<gate, told>>
        /\ \/ pass' = [run |-> r, at |-> "harvest"] /\ loop' = loop
           \/ pass' = Pass!Between /\ loop' \in {"up", "dead"}
    BY <1>9, <1>13, <2>1 DEF Pass!Retell, Pass!Tell, Pass!Gate, Pass!TellsAgain
  <2>3. /\ pass'.run \in 0..Cases.pass.N /\ loop' \in {"up", "dead"}
        /\ \A q : pass' # [run |-> q, at |-> "complete"]
    BY <1>1, <1>2, <1>8, <2>1, <2>2
  <2> HIDE DEF state
  <2>4. CASE UNCHANGED <<gate, told>>
    BY <1>2, <2>1, <2>3, <2>4, PassMoves
  <2>5. CASE /\ gate' = [gate EXCEPT ![r] = state] /\ told' = [told EXCEPT ![r] = state]
             /\ state \in {"RUNNING", "CANCELING"}
    <3>1. state \in Pass!States /\ state # Absent
      BY <2>5, ToldIsNotAbsent DEF Pass!States
    <3>2. /\ status' = [status EXCEPT ![r] = status[r]]
          /\ status[r] \in ActiveStates \cup EndedStates \cup {"none"}
          /\ \A q \in Pass!Runs : linked'[q] => status'[q] # "none"
      BY <1>2, <1>3, <2>1
    <3>3. QED
      BY <1>2, <2>1, <2>3, <2>5, <3>1, <3>2, PassTells
  <2>6. QED
    BY <2>2, <2>4, <2>5
<1>14. ASSUME NEW r \in Pass!Runs, Pass!Complete(r) PROVE Pass!IInv'
  <2>1. /\ loop # "down" /\ Pass!Terminal(status[r]) /\ UNCHANGED <<status, linked, resumes>>
    BY <1>8, <1>14 DEF Pass!Complete, Pass!IInv
  <2>2. \/ /\ gate' = [gate EXCEPT ![r] = Absent] /\ told' = [told EXCEPT ![r] = Absent]
           /\ completed' = completed \cup {r}
           /\ pass' = [run |-> r, at |-> "harvest"] /\ loop' = loop
        \/ /\ UNCHANGED <<gate, told, completed>>
           /\ pass' = Pass!Between /\ loop' \in {"up", "dead"}
    BY <1>9, <1>14, <2>1 DEF Pass!Complete, Pass!Done, Pass!Tell, Pass!Gate
  <2>3. /\ pass'.run \in 0..Cases.pass.N /\ loop' \in {"up", "dead"}
        /\ \A q : pass' # [run |-> q, at |-> "complete"]
        /\ completed' \subseteq Pass!Runs
    BY <1>1, <1>2, <1>8, <2>1, <2>2
  <2>4. CASE UNCHANGED <<gate, told>>
    BY <1>2, <2>1, <2>3, <2>4, PassMoves
  <2>5. CASE gate' = [gate EXCEPT ![r] = Absent] /\ told' = [told EXCEPT ![r] = Absent]
    <3>1. ~Pass!Active(status[r])
      BY <2>1 DEF Pass!Terminal, Pass!Active
    <3>2. /\ status' = [status EXCEPT ![r] = status[r]]
          /\ status[r] \in ActiveStates \cup EndedStates \cup {"none"}
          /\ \A q \in Pass!Runs : linked'[q] => status'[q] # "none"
      BY <1>2, <1>3, <2>1
    <3>3. QED
      BY <1>2, <2>1, <2>3, <2>5, <3>1, <3>2, PassTells
  <2>6. QED
    BY <2>2, <2>4, <2>5
<1>15. ASSUME NEW r \in Pass!Runs, Pass!Harvest(r) PROVE Pass!IInv'
  <2>1. /\ UNCHANGED <<status, linked, gate, told, completed, resumes>> /\ loop # "down"
        /\ \/ pass' = Pass!Following(r) /\ loop' = loop
           \/ pass' = Pass!Between /\ loop' \in {"up", "dead"}
    BY <1>8, <1>9, <1>15 DEF Pass!Harvest
  <2>2. /\ pass'.run \in 0..Cases.pass.N /\ loop' \in {"up", "dead"}
        /\ \A q : pass' # [run |-> q, at |-> "complete"]
    BY <1>1, <1>2, <1>8, <2>1
  <2>3. QED
    BY <1>2, <2>1, <2>2, PassMoves
<1>16. CASE Pass!Crash
  <2>1. /\ loop' = "down" /\ pass' = Pass!Between /\ told' = [r \in Pass!Runs |-> Absent]
        /\ completed' = {} /\ UNCHANGED <<status, linked, gate, resumes>>
    BY <1>16 DEF Pass!Crash
  <2>2. Pass!TypeOK'
    BY <1>1, <2>1 DEF Pass!IInv, Pass!TypeOK
  <2>3. QED
    BY <1>1, <1>3, <2>1, <2>2 DEF Pass!IInv, Pass!ActiveRunsAreTracked, Pass!In
<1>17. CASE Pass!Restart
  <2>1. /\ loop' = "up" /\ pass' = pass /\ pass = Pass!Between
        /\ gate' = [r \in Pass!Runs |-> Pass!ActivityState(status[r])] /\ told' = gate'
        /\ UNCHANGED <<status, linked, completed, resumes>>
    BY <1>17 DEF Pass!Restart, Pass!Declared, Pass!IInv
  <2>2. \A r \in Pass!Runs :
          /\ Pass!ActivityState(status[r]) \in Pass!States \cup {Absent}
          /\ Pass!Active(status[r]) => Pass!ActivityState(status[r]) # Absent
    BY <1>2, ToldStates, ToldIsNotAbsent
  <2>3. Pass!TypeOK'
    BY <2>1, <2>2 DEF Pass!IInv, Pass!TypeOK
  <2>4. QED
    BY <1>1, <1>3, <2>1, <2>2, <2>3 DEF Pass!IInv, Pass!ActiveRunsAreTracked, Pass!In
<1>18. CASE UNCHANGED Pass!vars
  BY <1>18
  DEF Pass!vars, Pass!IInv, Pass!TypeOK, Pass!ActiveRunsAreTracked, Pass!In, Pass!Between
<1>19. QED
  BY <1>4, <1>5, <1>6, <1>7, <1>10, <1>11, <1>12, <1>13, <1>14, <1>15, <1>16, <1>17, <1>18
  DEF Pass!Next, Pass!Pass, Pass!Visit

(* Side by side with the others, for any number of runs, rare events,      *)
(* resumes and kills: while the Product serves, maintenance never finds a  *)
(* run at work that the broker does not know of (YieldService.advance,     *)
(* start, cancel and resume, runtime_activity).                            *)
THEOREM ActiveRunsStayTracked == AllSpec => []ActiveRunsAreTracked
<1> DEFINE Known == Is("pass") => Pass!IInv
<1>1. AllInit => Known
  BY PassBegins DEF AllInit, Is, ResumeCases
<1>2. Known /\ [AllNext]_allvars => Known'
  <2> SUFFICES ASSUME Known, [AllNext]_allvars, Is("pass")' PROVE Pass!IInv'
    OBVIOUS
  <2>1. Is("pass") /\ Pass!IInv
    BY DEF AllNext, allvars, Is
  <2>2. [Pass!Next]_Pass!vars
    BY <2>1 DEF AllNext, allvars, Is, OfPass, Shared, Pass!vars, ResumeCases
  <2>3. QED
    BY <2>1, <2>2, PassGoesOn
<1>3. Known => ActiveRunsAreTracked
  BY DEF ActiveRunsAreTracked, Pass!IInv
<1>4. QED
  BY <1>1, <1>2, <1>3, PTL DEF AllSpec

-----------------------------------------------------------------------------
(* The hand-offs.                                                          *)

\* The receipts, the ModelVersions and the routes only grow.
HandoffsGrow ==
  receipts \subseteq receipts' /\ registered \subseteq registered' /\ routes \subseteq routes'

\* What a step of one call leaves of the others.
LEMMA OtherCallsKeep ==
  ASSUME Handoffs!IInv, NEW c \in Handoffs!Callers, NEW entry \in Handoffs!CallRecords,
         call' = [call EXCEPT ![c] = entry], HandoffsGrow, Handoffs!CallOK(c)'
  PROVE  Handoffs!CallsOK' /\ call' \in [Handoffs!Callers -> Handoffs!CallRecords]
<1>1. call \in [Handoffs!Callers -> Handoffs!CallRecords]
  BY DEF Handoffs!IInv, Handoffs!KindsOK
<1>2. ASSUME NEW d \in Handoffs!Callers, d # c
      PROVE  Handoffs!CallOK(d)'
  <2>1. call'[d] = call[d] /\ Handoffs!CallOK(d)
    BY <1>1, <1>2 DEF Handoffs!IInv, Handoffs!CallsOK
  <2>2. Handoffs!Registered(call[d].result) => Handoffs!Registered(call[d].result)'
    BY <2>1 DEF HandoffsGrow, Handoffs!Registered
  <2>3. QED
    BY <2>1, <2>2 DEF HandoffsGrow, Handoffs!CallOK, Handoffs!At, Handoffs!RouteKey,
       Handoffs!Registered
<1>3. QED
  BY <1>1, <1>2 DEF Handoffs!CallsOK

\* A step of one call that changes nothing else.
LEMMA CallAlone ==
  ASSUME Handoffs!IInv, NEW c \in Handoffs!Callers, NEW entry \in Handoffs!CallRecords,
         call' = [call EXCEPT ![c] = entry],
         UNCHANGED <<receipts, registered, deployed, routes, endpoint>>, Handoffs!CallOK(c)'
  PROVE  Handoffs!IInv'
<1>1. Handoffs!CallsOK' /\ call' \in [Handoffs!Callers -> Handoffs!CallRecords]
  BY OtherCallsKeep DEF HandoffsGrow
<1>2. QED
  BY <1>1
  DEF Handoffs!IInv, Handoffs!KindsOK, Handoffs!RoutesOK, Handoffs!ReceiptsAreAcknowledged,
      Handoffs!HandedOverIsRegistered, Handoffs!Registered

\* A call that goes on keeps what it is about.
LEMMA GoesOn ==
  ASSUME Handoffs!IInv, NEW c \in Handoffs!Callers, NEW point \in Handoffs!Points,
         Handoffs!Goes(c, point)
  PROVE  \E entry \in Handoffs!CallRecords :
           /\ entry = [call[c] EXCEPT !.at = point] /\ call' = [call EXCEPT ![c] = entry]
           /\ call'[c] = entry /\ entry.at = point
           /\ entry.result = call[c].result /\ entry.key = call[c].key
           /\ entry.payload = call[c].payload /\ entry.answer = call[c].answer
           /\ Handoffs!RouteKey(c)' = Handoffs!RouteKey(c)
<1> DEFINE entry == [call[c] EXCEPT !.at = point]
<1>1. call \in [Handoffs!Callers -> Handoffs!CallRecords]
  BY DEF Handoffs!IInv, Handoffs!KindsOK
<1>2. call[c] \in Handoffs!CallRecords
  BY <1>1
<1>3. /\ entry \in Handoffs!CallRecords /\ entry.at = point /\ entry.result = call[c].result
      /\ entry.key = call[c].key /\ entry.payload = call[c].payload
      /\ entry.answer = call[c].answer
  BY <1>2 DEF Handoffs!CallRecords
<1>4. call' = [call EXCEPT ![c] = entry] /\ call'[c] = entry
  BY <1>1 DEF Handoffs!Goes
<1> HIDE DEF entry
<1>5. Handoffs!RouteKey(c)' = Handoffs!RouteKey(c)
  BY <1>3, <1>4 DEF Handoffs!RouteKey
<1>6. QED
  BY <1>3, <1>4, <1>5 DEF entry

LEMMA IdleCall ==
  /\ Handoffs!Idle \in Handoffs!CallRecords /\ Handoffs!Idle.at = "idle"
  /\ \A c \in Handoffs!Callers : call'[c] = Handoffs!Idle => Handoffs!CallOK(c)'
<1>1. Handoffs!Idle \in Handoffs!CallRecords /\ Handoffs!Idle.at = "idle"
  BY DEF Handoffs!Idle, Handoffs!CallRecords, Handoffs!Points
<1>2. QED
  BY <1>1 DEF Handoffs!CallOK, Handoffs!At, Handoffs!Handing

\* A receipt is saved for a key that has none.
LEMMA SavedReceipts ==
  ASSUME NEW key, NEW digest, NEW answer
  PROVE  /\ receipts \subseteq Handoffs!Saved(key, digest, answer)
         /\ Handoffs!Saved(key, digest, answer) \subseteq
              receipts \cup {[key |-> key, digest |-> digest, answer |-> answer]}
         /\ \E row \in Handoffs!Saved(key, digest, answer) : row.key = key
<1> DEFINE new == [key |-> key, digest |-> digest, answer |-> answer]
<1>1. new.key = key
  OBVIOUS
<1>2. CASE \E row \in receipts : row.key = key
  BY <1>2 DEF Handoffs!Saved
<1>3. CASE ~\E row \in receipts : row.key = key
  <2>1. Handoffs!Saved(key, digest, answer) = receipts \cup {new}
    BY <1>3 DEF Handoffs!Saved
  <2> HIDE DEF new
  <2>2. QED
    BY <1>1, <2>1 DEF new
<1>4. QED
  BY <1>2, <1>3

\* Keys of registrations and of routes are apart, and stand for what they name.
LEMMA KeysAreApart ==
  /\ \A r \in Cases.handoffs.Results : Handoffs!RegistryKey(r) \notin Handoffs!RouteKeys
  /\ \A r, s : Handoffs!RegistryKey(r) = Handoffs!RegistryKey(s) => r = s
  BY DEF Handoffs!RegistryKey, Handoffs!RouteKeys

LEMMA RequestKeeps ==
  ASSUME Handoffs!IInv, NEW c \in Handoffs!Callers, NEW kind \in {"read", "reactor", "exchange"},
         NEW r \in Cases.handoffs.Results, NEW key \in Cases.handoffs.Keys \cup {Nothing},
         NEW alias \in Cases.handoffs.Aliases \cup {Nothing}, Handoffs!Request(c, kind, r, key, alias)
  PROVE  Handoffs!IInv'
<1> DEFINE entry == [Handoffs!Idle EXCEPT !.at = "recall", !.kind = kind, !.result = r,
                                          !.key = key, !.alias = alias]
<1>1. entry \in Handoffs!CallRecords /\ entry.at = "recall" /\ entry.result = r
  BY DEF Handoffs!Idle, Handoffs!CallRecords, Handoffs!Points
<1>2. /\ call' = [call EXCEPT ![c] = entry] /\ call'[c] = entry
      /\ UNCHANGED <<receipts, registered, deployed, routes, endpoint>>
  BY DEF Handoffs!Request, Handoffs!IInv, Handoffs!KindsOK
<1> HIDE DEF entry
<1>3. Handoffs!CallOK(c)'
  BY <1>1, <1>2 DEF Handoffs!CallOK, Handoffs!At, Handoffs!Handing
<1>4. QED
  BY <1>1, <1>2, <1>3, CallAlone

LEMMA RecallKeeps ==
  ASSUME Handoffs!IInv, NEW c \in Handoffs!Callers, Handoffs!RecallRegistration(c)
  PROVE  Handoffs!IInv'
<1>1. PICK point \in {"deploy", "inspect", "done", "register"} :
        /\ Handoffs!Goes(c, point)
        /\ point # "register" => Handoffs!HasReceipt(call[c].result)
  BY DEF Handoffs!RecallRegistration, Handoffs!Handoff
<1>2. /\ UNCHANGED <<receipts, registered, deployed, routes, endpoint>>
      /\ Handoffs!CallOK(c) /\ Handoffs!At(c, "recall")
  BY DEF Handoffs!RecallRegistration, Handoffs!IInv, Handoffs!CallsOK
<1>3. point \in Handoffs!Points
  BY <1>1 DEF Handoffs!Points
<1>4. PICK entry \in Handoffs!CallRecords :
        /\ call' = [call EXCEPT ![c] = entry] /\ call'[c] = entry /\ entry.at = point
        /\ entry.result = call[c].result
  BY <1>1, <1>3, GoesOn
<1>5. Handoffs!HasReceipt(call[c].result) => Handoffs!Registered(entry.result)'
  BY <1>2, <1>4 DEF Handoffs!HasReceipt, Handoffs!Recalled, Handoffs!Registered
<1>6. Handoffs!CallOK(c)'
  BY <1>1, <1>2, <1>4, <1>5 DEF Handoffs!CallOK, Handoffs!At, Handoffs!Handing, Handoffs!Registered
<1>7. QED
  BY <1>2, <1>4, <1>6, CallAlone

LEMMA RegisterKeeps ==
  ASSUME Handoffs!IInv, NEW c \in Handoffs!Callers, Handoffs!Register(c)
  PROVE  Handoffs!IInv'
<1>1. PICK point \in {"acknowledged", "failed"} :
        /\ Handoffs!Goes(c, point)
        /\ registered' = registered \cup {call[c].result} \/ registered' = registered
        /\ point = "acknowledged" => call[c].result \in registered'
  BY DEF Handoffs!Register, Handoffs!Takes, Handoffs!RefusesAnswer
<1>2. /\ UNCHANGED <<receipts, deployed, routes, endpoint>>
      /\ Handoffs!CallOK(c) /\ Handoffs!At(c, "register") /\ call[c].result \in Cases.handoffs.Results
  BY DEF Handoffs!Register, Handoffs!IInv, Handoffs!CallsOK, Handoffs!CallOK, Handoffs!At
<1>3. point \in Handoffs!Points
  BY <1>1 DEF Handoffs!Points
<1>4. PICK entry \in Handoffs!CallRecords :
        /\ call' = [call EXCEPT ![c] = entry] /\ call'[c] = entry /\ entry.at = point
        /\ entry.result = call[c].result
  BY <1>1, <1>3, GoesOn
<1>5. Handoffs!CallOK(c)'
  BY <1>1, <1>2, <1>4 DEF Handoffs!CallOK, Handoffs!At, Handoffs!Handing
<1>6. Handoffs!CallsOK' /\ call' \in [Handoffs!Callers -> Handoffs!CallRecords]
  BY <1>1, <1>2, <1>4, <1>5, OtherCallsKeep DEF HandoffsGrow
<1>7. QED
  BY <1>1, <1>2, <1>6
  DEF Handoffs!IInv, Handoffs!KindsOK, Handoffs!RoutesOK, Handoffs!ReceiptsAreAcknowledged,
      Handoffs!HandedOverIsRegistered, Handoffs!Registered

LEMMA SaveRegistrationKeeps ==
  ASSUME Handoffs!IInv, NEW c \in Handoffs!Callers, Handoffs!SaveRegistration(c)
  PROVE  Handoffs!IInv'
<1> DEFINE r == call[c].result
<1>1. PICK point \in {"deploy", "inspect", "done", "failed"} :
        /\ Handoffs!Goes(c, point)
        /\ \/ receipts' = Handoffs!Saved(Handoffs!RegistryKey(r), r, r)
           \/ receipts' = receipts /\ point = "failed"
  BY DEF Handoffs!SaveRegistration, Handoffs!Handoff
<1>2. /\ UNCHANGED <<registered, deployed, routes, endpoint>>
      /\ Handoffs!CallOK(c) /\ Handoffs!At(c, "acknowledged")
      /\ r \in Cases.handoffs.Results /\ r \in registered
  BY DEF Handoffs!SaveRegistration, Handoffs!IInv, Handoffs!CallsOK, Handoffs!CallOK, Handoffs!At
<1>3. point \in Handoffs!Points
  BY <1>1 DEF Handoffs!Points
<1>4. PICK entry \in Handoffs!CallRecords :
        /\ call' = [call EXCEPT ![c] = entry] /\ call'[c] = entry /\ entry.at = point
        /\ entry.result = r
  BY <1>1, <1>3, GoesOn
<1> DEFINE row == [key |-> Handoffs!RegistryKey(r), digest |-> r, answer |-> r]
<1>5. /\ receipts \subseteq receipts' /\ receipts' \subseteq receipts \cup {row}
      /\ point # "failed" => \E x \in receipts' : x.key = Handoffs!RegistryKey(r)
  BY <1>1, SavedReceipts
<1>6. Handoffs!CallOK(c)'
  BY <1>1, <1>2, <1>4, <1>5
  DEF Handoffs!CallOK, Handoffs!At, Handoffs!Handing, Handoffs!Registered, Handoffs!RegistryKey
<1>7. Handoffs!CallsOK' /\ call' \in [Handoffs!Callers -> Handoffs!CallRecords]
  BY <1>2, <1>4, <1>5, <1>6, OtherCallsKeep DEF HandoffsGrow
<1>8. Handoffs!KindsOK'
  BY <1>2, <1>5, <1>7 DEF Handoffs!IInv, Handoffs!KindsOK, Handoffs!RegistryKey, Handoffs!RouteKeys
<1>9. Handoffs!RoutesOK'
  BY <1>2, <1>5, KeysAreApart DEF Handoffs!IInv, Handoffs!RoutesOK, Handoffs!RouteKeys
<1>10. Handoffs!ReceiptsAreAcknowledged'
  BY <1>2, <1>5, KeysAreApart
  DEF Handoffs!IInv, Handoffs!ReceiptsAreAcknowledged, Handoffs!Registered, Handoffs!RegistryKey
<1>11. Handoffs!HandedOverIsRegistered'
  BY <1>2, <1>5 DEF Handoffs!IInv, Handoffs!HandedOverIsRegistered, Handoffs!Registered
<1>12. QED
  BY <1>7, <1>8, <1>9, <1>10, <1>11 DEF Handoffs!IInv

LEMMA SendToReactorKeeps ==
  ASSUME Handoffs!IInv, NEW c \in Handoffs!Callers, Handoffs!SendToReactor(c)
  PROVE  Handoffs!IInv'
<1>1. PICK point \in {"done", "failed"} :
        /\ Handoffs!Goes(c, point)
        /\ deployed' \in {deployed, deployed \cup {call[c].result}}
  BY DEF Handoffs!SendToReactor
<1>2. /\ UNCHANGED <<receipts, registered, routes, endpoint>>
      /\ Handoffs!CallOK(c) /\ Handoffs!At(c, "deploy")
      /\ call[c].result \in Cases.handoffs.Results /\ Handoffs!Registered(call[c].result)
  BY DEF Handoffs!SendToReactor, Handoffs!IInv, Handoffs!CallsOK, Handoffs!CallOK, Handoffs!At
<1>3. point \in Handoffs!Points
  BY <1>1 DEF Handoffs!Points
<1>4. PICK entry \in Handoffs!CallRecords :
        /\ call' = [call EXCEPT ![c] = entry] /\ call'[c] = entry /\ entry.at = point
        /\ entry.result = call[c].result
  BY <1>1, <1>3, GoesOn
<1>5. Handoffs!CallOK(c)'
  BY <1>1, <1>2, <1>4 DEF Handoffs!CallOK, Handoffs!At, Handoffs!Handing
<1>6. Handoffs!CallsOK' /\ call' \in [Handoffs!Callers -> Handoffs!CallRecords]
  BY <1>2, <1>4, <1>5, OtherCallsKeep DEF HandoffsGrow
<1>7. QED
  BY <1>1, <1>2, <1>6
  DEF Handoffs!IInv, Handoffs!KindsOK, Handoffs!RoutesOK, Handoffs!ReceiptsAreAcknowledged,
      Handoffs!HandedOverIsRegistered, Handoffs!Registered

LEMMA InspectKeeps ==
  ASSUME Handoffs!IInv, NEW c \in Handoffs!Callers, Handoffs!Inspect(c)
  PROVE  Handoffs!IInv'
<1>1. /\ UNCHANGED <<receipts, registered, deployed, routes, endpoint>>
      /\ Handoffs!CallOK(c) /\ Handoffs!At(c, "inspect")
      /\ call[c].result \in Cases.handoffs.Results /\ Handoffs!Registered(call[c].result)
      /\ call[c] \in Handoffs!CallRecords /\ call \in [Handoffs!Callers -> Handoffs!CallRecords]
  BY DEF Handoffs!Inspect, Handoffs!IInv, Handoffs!KindsOK, Handoffs!CallsOK, Handoffs!CallOK,
         Handoffs!At
<1>2. CASE Handoffs!Goes(c, "refused")
  <2>1. "refused" \in Handoffs!Points
    BY DEF Handoffs!Points
  <2>2. PICK entry \in Handoffs!CallRecords :
          /\ call' = [call EXCEPT ![c] = entry] /\ call'[c] = entry /\ entry.at = "refused"
          /\ entry.result = call[c].result
    BY <1>2, <2>1, GoesOn
  <2>3. Handoffs!CallOK(c)'
    BY <1>1, <2>2 DEF Handoffs!CallOK, Handoffs!At, Handoffs!Handing
  <2>4. QED
    BY <1>1, <2>2, <2>3, CallAlone
<1>3. CASE ~Handoffs!Goes(c, "refused")
  <2> DEFINE payload == [result |-> call[c].result, alias |-> call[c].alias,
                         version |-> endpoint.version]
             entry == [call[c] EXCEPT !.at = "recall_route", !.payload = payload]
  <2>1. call' = [call EXCEPT ![c].at = "recall_route", ![c].payload = payload]
    BY <1>3 DEF Handoffs!Inspect
  <2>2. payload \in Handoffs!Payloads /\ payload.result = call[c].result
    BY <1>1 DEF Handoffs!Payloads, Handoffs!CallRecords, Handoffs!IInv, Handoffs!KindsOK
  <2> HIDE DEF payload
  <2>3. call' = [call EXCEPT ![c] = entry] /\ call'[c] = entry
    BY <1>1, <2>1
  <2>4. /\ entry \in Handoffs!CallRecords /\ entry.at = "recall_route"
        /\ entry.result = call[c].result /\ entry.payload = payload
    BY <1>1, <2>2 DEF Handoffs!CallRecords, Handoffs!Points, Handoffs!Handing
  <2> HIDE DEF entry
  <2>5. PICK e \in Handoffs!CallRecords : e = entry
    BY <2>4
  <2>6. Handoffs!CallOK(c)'
    BY <1>1, <2>2, <2>3, <2>4 DEF Handoffs!CallOK, Handoffs!At, Handoffs!Registered
  <2>7. QED
    BY <1>1, <2>3, <2>5, <2>6, CallAlone
<1>4. QED
  BY <1>2, <1>3

LEMMA RecallRouteKeeps ==
  ASSUME Handoffs!IInv, NEW c \in Handoffs!Callers, Handoffs!RecallRoute(c)
  PROVE  Handoffs!IInv'
<1>1. /\ UNCHANGED <<receipts, registered, deployed, routes, endpoint>>
      /\ Handoffs!CallOK(c) /\ Handoffs!At(c, "recall_route")
      /\ call[c].result \in Cases.handoffs.Results /\ Handoffs!Registered(call[c].result)
      /\ call[c].payload \in Handoffs!Payloads /\ call[c].payload.result = call[c].result
      /\ call[c] \in Handoffs!CallRecords /\ call \in [Handoffs!Callers -> Handoffs!CallRecords]
  BY DEF Handoffs!RecallRoute, Handoffs!IInv, Handoffs!KindsOK, Handoffs!CallsOK, Handoffs!CallOK,
         Handoffs!At, Handoffs!Handing
<1>2. ASSUME NEW point \in {"conflict", "post"}, Handoffs!Goes(c, point)
      PROVE  Handoffs!IInv'
  <2>1. point \in Handoffs!Points
    BY <1>2 DEF Handoffs!Points, Handoffs!Handing
  <2>2. PICK entry \in Handoffs!CallRecords :
          /\ call' = [call EXCEPT ![c] = entry] /\ call'[c] = entry /\ entry.at = point
          /\ entry.result = call[c].result /\ entry.payload = call[c].payload
    BY <1>2, <2>1, GoesOn
  <2>3. Handoffs!CallOK(c)'
    BY <1>1, <1>2, <2>2 DEF Handoffs!CallOK, Handoffs!At, Handoffs!Handing, Handoffs!Registered
  <2>4. QED
    BY <1>1, <2>2, <2>3, CallAlone
<1>3. ASSUME NEW row \in Handoffs!Recalled(Handoffs!RouteKey(c), call[c].payload),
             call' = [call EXCEPT ![c].at = "sent", ![c].answer = row.answer]
      PROVE  Handoffs!IInv'
  <2>1. row \in receipts /\ row.key = Handoffs!RouteKey(c) /\ row.digest = call[c].payload
    BY <1>3 DEF Handoffs!Recalled
  <2>2. Handoffs!RouteKey(c) \in Handoffs!RouteKeys
    BY <1>1 DEF Handoffs!RouteKey, Handoffs!RouteKeys, Handoffs!CallRecords
  <2>3. row.answer \in Nat
    BY <2>1, <2>2, KeysAreApart DEF Handoffs!IInv, Handoffs!KindsOK
  <2>4. [key |-> Handoffs!RouteKey(c), payload |-> call[c].payload, id |-> row.answer] \in routes
    BY <2>1, <2>2 DEF Handoffs!IInv, Handoffs!RoutesOK
  <2> DEFINE e == [call[c] EXCEPT !.at = "sent", !.answer = row.answer]
  <2>5. call' = [call EXCEPT ![c] = e] /\ call'[c] = e
    BY <1>1, <1>3
  <2>6. /\ e \in Handoffs!CallRecords /\ e.at = "sent" /\ e.key = call[c].key
        /\ e.result = call[c].result /\ e.payload = call[c].payload /\ e.answer = row.answer
    BY <1>1, <2>3 DEF Handoffs!CallRecords, Handoffs!Points, Handoffs!Handing
  <2> HIDE DEF e
  <2>7. PICK entry \in Handoffs!CallRecords : entry = e
    BY <2>6
  <2>8. Handoffs!RouteKey(c)' = Handoffs!RouteKey(c)
    BY <2>5, <2>6 DEF Handoffs!RouteKey
  <2>9. Handoffs!CallOK(c)'
    BY <1>1, <2>4, <2>5, <2>6, <2>8
    DEF Handoffs!CallOK, Handoffs!At, Handoffs!Handing, Handoffs!Registered
  <2>10. QED
    BY <1>1, <2>5, <2>7, <2>9, CallAlone
<1>4. QED
  BY <1>2, <1>3 DEF Handoffs!RecallRoute

\* The route of a request that Exchange does not have yet.
LEMMA NewRoutes ==
  ASSUME Handoffs!IInv, NEW c \in Handoffs!Callers, Handoffs!CallOK(c), Handoffs!At(c, "post")
  PROVE  /\ Handoffs!NewRoute(c) \in [key : Handoffs!RouteKeys, payload : Handoffs!Payloads, id : Nat]
         /\ Handoffs!NewRoute(c).key = Handoffs!RouteKey(c)
         /\ Handoffs!NewRoute(c).payload = call[c].payload
         /\ Handoffs!RouteKey(c)[1] = "send-to-exchange" =>
              Handoffs!RouteKey(c)[2] = call[c].payload.result
<1>1. /\ call[c].payload \in Handoffs!Payloads /\ call[c].payload.result = call[c].result
      /\ call[c].result \in Cases.handoffs.Results
      /\ call[c] \in Handoffs!CallRecords
  BY DEF Handoffs!IInv, Handoffs!KindsOK, Handoffs!CallOK, Handoffs!At, Handoffs!Handing
<1>2. Handoffs!RouteKey(c) \in Handoffs!RouteKeys
  BY <1>1 DEF Handoffs!RouteKey, Handoffs!RouteKeys, Handoffs!CallRecords
<1>3. Handoffs!RouteKey(c)[1] = "send-to-exchange" =>
        Handoffs!RouteKey(c)[2] = call[c].payload.result
  BY <1>1 DEF Handoffs!RouteKey
<1>4. Handoffs!Cardinality(routes) \in Nat
  <2>1. IsFiniteSet(routes)
    BY DEF Handoffs!IInv, Handoffs!KindsOK, Handoffs!IsFiniteSet, IsFiniteSet
  <2>2. Handoffs!Cardinality(routes) = Cardinality(routes)
    BY DEF Handoffs!Cardinality, Cardinality, Handoffs!IsFiniteSet, IsFiniteSet
  <2>3. QED
    BY <2>1, <2>2, FS_CardinalityType
<1>5. QED
  BY <1>1, <1>2, <1>3, <1>4 DEF Handoffs!NewRoute

LEMMA PostKeeps ==
  ASSUME Handoffs!IInv, NEW c \in Handoffs!Callers, Handoffs!Post(c)
  PROVE  Handoffs!IInv'
<1> DEFINE new == Handoffs!NewRoute(c)
           key == Handoffs!RouteKey(c)
<1>1. /\ UNCHANGED <<receipts, registered, deployed, endpoint>>
      /\ Handoffs!CallOK(c) /\ Handoffs!At(c, "post")
      /\ call[c].result \in Cases.handoffs.Results /\ Handoffs!Registered(call[c].result)
      /\ call[c].payload \in Handoffs!Payloads /\ call[c].payload.result = call[c].result
      /\ call[c] \in Handoffs!CallRecords /\ call \in [Handoffs!Callers -> Handoffs!CallRecords]
      /\ routes \subseteq [key : Handoffs!RouteKeys, payload : Handoffs!Payloads, id : Nat]
  BY DEF Handoffs!Post, Handoffs!IInv, Handoffs!KindsOK, Handoffs!CallsOK, Handoffs!CallOK,
         Handoffs!At, Handoffs!Handing
<1>2. /\ new \in [key : Handoffs!RouteKeys, payload : Handoffs!Payloads, id : Nat]
      /\ new.key = key /\ new.payload = call[c].payload
      /\ key[1] = "send-to-exchange" => key[2] = call[c].payload.result
  BY <1>1, NewRoutes
<1> HIDE DEF new, key
<1>3. routes' = routes \/ (Handoffs!Known(c) = {} /\ routes' = routes \cup {new})
  <2>1. Handoffs!Known(c) \subseteq routes
    BY DEF Handoffs!Known
  <2>2. QED
    BY <2>1 DEF Handoffs!Post, new
<1>4. \A route \in routes : route.key = key => Handoffs!Known(c) # {}
  BY DEF Handoffs!Known, key
<1>5. Handoffs!RoutesOK'
  BY <1>1, <1>2, <1>3, <1>4 DEF Handoffs!IInv, Handoffs!RoutesOK
<1>6. Handoffs!HandedOverIsRegistered' /\ Handoffs!ReceiptsAreAcknowledged'
  BY <1>1, <1>2, <1>3
  DEF Handoffs!IInv, Handoffs!HandedOverIsRegistered, Handoffs!ReceiptsAreAcknowledged,
      Handoffs!Registered
<1>7. routes' \subseteq [key : Handoffs!RouteKeys, payload : Handoffs!Payloads, id : Nat]
  BY <1>1, <1>2, <1>3
<1>8. Handoffs!IsFiniteSet(routes)'
  <2>1. IsFiniteSet(routes)
    BY DEF Handoffs!IInv, Handoffs!KindsOK, Handoffs!IsFiniteSet, IsFiniteSet
  <2>2. IsFiniteSet(routes')
    BY <1>3, <2>1, FS_AddElement
  <2>3. QED
    BY <2>2 DEF Handoffs!IsFiniteSet, IsFiniteSet
<1>9. ASSUME NEW point \in {"conflict", "failed"}, Handoffs!Goes(c, point)
      PROVE  Handoffs!CallsOK' /\ call' \in [Handoffs!Callers -> Handoffs!CallRecords]
  <2>1. point \in Handoffs!Points
    BY <1>9 DEF Handoffs!Points
  <2>2. PICK entry \in Handoffs!CallRecords :
          /\ call' = [call EXCEPT ![c] = entry] /\ call'[c] = entry /\ entry.at = point
          /\ entry.result = call[c].result
    BY <1>9, <2>1, GoesOn
  <2>3. Handoffs!CallOK(c)'
    BY <1>1, <1>9, <2>2 DEF Handoffs!CallOK, Handoffs!At, Handoffs!Handing
  <2>4. QED
    BY <1>1, <1>3, <2>2, <2>3, OtherCallsKeep DEF HandoffsGrow
<1>10. ASSUME NEW route \in [key : Handoffs!RouteKeys, payload : Handoffs!Payloads, id : Nat],
              route \in routes', route.key = key, route.payload = call[c].payload,
              call' = [call EXCEPT ![c].at = "save_route", ![c].answer = route.id]
       PROVE  Handoffs!CallsOK' /\ call' \in [Handoffs!Callers -> Handoffs!CallRecords]
  <2> DEFINE e == [call[c] EXCEPT !.at = "save_route", !.answer = route.id]
  <2>1. call' = [call EXCEPT ![c] = e] /\ call'[c] = e
    BY <1>1, <1>10
  <2>2. /\ e \in Handoffs!CallRecords /\ e.at = "save_route" /\ e.key = call[c].key
        /\ e.result = call[c].result /\ e.payload = call[c].payload /\ e.answer = route.id
    BY <1>1 DEF Handoffs!CallRecords, Handoffs!Points, Handoffs!Handing
  <2> HIDE DEF e
  <2>3. PICK entry \in Handoffs!CallRecords : entry = e
    BY <2>2
  <2>4. Handoffs!RouteKey(c)' = key
    BY <2>1, <2>2 DEF Handoffs!RouteKey, key
  <2>5. route = [key |-> key, payload |-> call[c].payload, id |-> route.id]
    BY <1>10
  <2>6. Handoffs!CallOK(c)'
    BY <1>1, <1>10, <2>1, <2>2, <2>4, <2>5
    DEF Handoffs!CallOK, Handoffs!At, Handoffs!Handing, Handoffs!Registered
  <2>7. QED
    BY <1>1, <1>3, <2>1, <2>3, <2>6, OtherCallsKeep DEF HandoffsGrow
<1>11. \/ \E point \in {"conflict", "failed"} : Handoffs!Goes(c, point)
       \/ \E route \in routes' :
            /\ route.key = key /\ route.payload = call[c].payload
            /\ call' = [call EXCEPT ![c].at = "save_route", ![c].answer = route.id]
  <2>1. \A route \in IF Handoffs!Known(c) = {} THEN {new} ELSE Handoffs!Known(c) : route.key = key
    BY <1>2 DEF Handoffs!Known, key
  <2>2. QED
    BY <2>1 DEF Handoffs!Post, new
<1>12. Handoffs!CallsOK' /\ call' \in [Handoffs!Callers -> Handoffs!CallRecords]
  BY <1>7, <1>9, <1>10, <1>11
<1>13. QED
  BY <1>1, <1>5, <1>6, <1>7, <1>8, <1>12
  DEF Handoffs!IInv, Handoffs!KindsOK, Handoffs!RegistryKey, Handoffs!RouteKeys, Handoffs!Payloads,
      Handoffs!Callers, Handoffs!CallRecords

LEMMA SaveRouteKeeps ==
  ASSUME Handoffs!IInv, NEW c \in Handoffs!Callers, Handoffs!SaveRoute(c)
  PROVE  Handoffs!IInv'
<1> DEFINE key == Handoffs!RouteKey(c)
           row == [key |-> key, digest |-> call[c].payload, answer |-> call[c].answer]
<1>1. /\ UNCHANGED <<registered, deployed, routes, endpoint>>
      /\ Handoffs!CallOK(c) /\ Handoffs!At(c, "save_route")
      /\ call[c].result \in Cases.handoffs.Results /\ Handoffs!Registered(call[c].result)
      /\ call[c].payload \in Handoffs!Payloads /\ call[c].payload.result = call[c].result
      /\ call[c] \in Handoffs!CallRecords
      /\ [key |-> key, payload |-> call[c].payload, id |-> call[c].answer] \in routes
      /\ routes \subseteq [key : Handoffs!RouteKeys, payload : Handoffs!Payloads, id : Nat]
  BY DEF Handoffs!SaveRoute, Handoffs!IInv, Handoffs!KindsOK, Handoffs!CallsOK, Handoffs!CallOK,
         Handoffs!At, Handoffs!Handing
<1>2. key \in Handoffs!RouteKeys /\ call[c].answer \in Nat
  BY <1>1
<1>3. PICK point \in {"conflict", "sent", "failed"} :
        /\ Handoffs!Goes(c, point)
        /\ receipts' = Handoffs!Saved(key, call[c].payload, call[c].answer) \/ receipts' = receipts
  BY DEF Handoffs!SaveRoute
<1>4. receipts \subseteq receipts' /\ receipts' \subseteq receipts \cup {row}
  BY <1>3, SavedReceipts
<1>5. point \in Handoffs!Points
  BY <1>3 DEF Handoffs!Points, Handoffs!Handing
<1>6. PICK entry \in Handoffs!CallRecords :
        /\ call' = [call EXCEPT ![c] = entry] /\ call'[c] = entry /\ entry.at = point
        /\ entry.result = call[c].result /\ entry.payload = call[c].payload
        /\ entry.answer = call[c].answer /\ Handoffs!RouteKey(c)' = key
  BY <1>3, <1>5, GoesOn
<1>7. Handoffs!CallOK(c)'
  BY <1>1, <1>3, <1>4, <1>6 DEF Handoffs!CallOK, Handoffs!At, Handoffs!Handing, Handoffs!Registered
<1>8. Handoffs!CallsOK' /\ call' \in [Handoffs!Callers -> Handoffs!CallRecords]
  BY <1>1, <1>4, <1>6, <1>7, OtherCallsKeep DEF HandoffsGrow
<1> HIDE DEF key
<1>9. receipts' \subseteq receipts \cup [key : Handoffs!RouteKeys, digest : Handoffs!Payloads, answer : Nat]
  BY <1>1, <1>2, <1>4
<1>10. Handoffs!KindsOK'
  BY <1>1, <1>8, <1>9
  DEF Handoffs!IInv, Handoffs!KindsOK, Handoffs!RegistryKey, Handoffs!RouteKeys, Handoffs!Payloads,
      Handoffs!Callers, Handoffs!CallRecords, Handoffs!IsFiniteSet
<1>11. Handoffs!RoutesOK'
  BY <1>1, <1>4 DEF Handoffs!IInv, Handoffs!RoutesOK
<1>12. Handoffs!ReceiptsAreAcknowledged' /\ Handoffs!HandedOverIsRegistered'
  BY <1>1, <1>2, <1>4, KeysAreApart
  DEF Handoffs!IInv, Handoffs!ReceiptsAreAcknowledged, Handoffs!HandedOverIsRegistered,
      Handoffs!Registered
<1>13. QED
  BY <1>8, <1>10, <1>11, <1>12 DEF Handoffs!IInv

LEMMA AnswerKeeps ==
  ASSUME Handoffs!IInv, NEW c \in Handoffs!Callers, Handoffs!Answer(c)
  PROVE  Handoffs!IInv'
<1>1. /\ call' = [call EXCEPT ![c] = Handoffs!Idle] /\ call'[c] = Handoffs!Idle
      /\ UNCHANGED <<receipts, registered, deployed, routes, endpoint>>
  BY DEF Handoffs!Answer, Handoffs!IInv, Handoffs!KindsOK
<1>2. PICK entry \in Handoffs!CallRecords : entry = Handoffs!Idle
  BY IdleCall
<1>3. QED
  BY <1>1, <1>2, IdleCall, CallAlone

\* A step of the endpoint, or the end of all calls.
LEMMA RestKeeps ==
  ASSUME Handoffs!IInv,
         endpoint' \in [version : 1..Cases.handoffs.MaxVersion, ready : BOOLEAN,
                        serves : Cases.handoffs.Results],
         call' = call \/ call' = [c \in Handoffs!Callers |-> Handoffs!Idle],
         UNCHANGED <<receipts, registered, deployed, routes>>
  PROVE  Handoffs!IInv'
<1>1. Handoffs!CallsOK' /\ call' \in [Handoffs!Callers -> Handoffs!CallRecords]
  <2>1. CASE call' = call
    BY <2>1
    DEF Handoffs!IInv, Handoffs!KindsOK, Handoffs!CallsOK, Handoffs!CallOK, Handoffs!At,
        Handoffs!RouteKey, Handoffs!Registered
  <2>2. CASE call' = [c \in Handoffs!Callers |-> Handoffs!Idle]
    BY <2>2, IdleCall DEF Handoffs!CallsOK
  <2>3. QED
    BY <2>1, <2>2
<1>2. QED
  BY <1>1
  DEF Handoffs!IInv, Handoffs!KindsOK, Handoffs!RoutesOK, Handoffs!ReceiptsAreAcknowledged,
      Handoffs!HandedOverIsRegistered, Handoffs!Registered

LEMMA HandoffsBegin == Handoffs!Init => Handoffs!IInv
<1> SUFFICES ASSUME Handoffs!Init PROVE Handoffs!IInv
  OBVIOUS
<1>1. Cases.handoffs.MaxVersion \in Nat \ {0}
  BY ServiceAssumption DEF Handoffs!PublicationAssumption
<1>2. /\ receipts = {} /\ registered = {} /\ deployed = {} /\ routes = {}
      /\ endpoint \in [version : {1}, ready : {TRUE}, serves : Cases.handoffs.Results]
      /\ call = [c \in Handoffs!Callers |-> Handoffs!Idle]
  BY DEF Handoffs!Init
<1>3. Handoffs!IsFiniteSet(routes)
  BY <1>2, FS_EmptySet DEF Handoffs!IsFiniteSet, IsFiniteSet
<1>4. call \in [Handoffs!Callers -> Handoffs!CallRecords]
  BY <1>2, IdleCall
<1>5. Handoffs!CallsOK
  BY <1>2, IdleCall DEF Handoffs!CallsOK, Handoffs!CallOK, Handoffs!At, Handoffs!Handing
<1>6. Handoffs!KindsOK
  <2>1. endpoint \in [version : 1..Cases.handoffs.MaxVersion, ready : BOOLEAN,
                      serves : Cases.handoffs.Results]
    <3>1. 1 \in 1..Cases.handoffs.MaxVersion
      BY <1>1
    <3>2. QED
      BY <1>2, <3>1
  <2>2. /\ receipts = {} /\ registered = {} /\ deployed = {} /\ routes = {}
        /\ \A S : {} \subseteq S
    BY <1>2
  <2>3. QED
    BY <1>3, <1>4, <2>1, <2>2, Zenon DEF Handoffs!KindsOK
<1>7. QED
  BY <1>2, <1>5, <1>6
  DEF Handoffs!IInv, Handoffs!RoutesOK, Handoffs!ReceiptsAreAcknowledged,
      Handoffs!HandedOverIsRegistered, Handoffs!Registered

LEMMA HandoffsGoOn == Handoffs!IInv /\ [Handoffs!Next]_Handoffs!vars => Handoffs!IInv'
<1> SUFFICES ASSUME Handoffs!IInv, [Handoffs!Next]_Handoffs!vars PROVE Handoffs!IInv'
  OBVIOUS
<1>1. ASSUME NEW c \in Handoffs!Callers, Handoffs!Step(c) PROVE Handoffs!IInv'
  BY <1>1, RecallKeeps, RegisterKeeps, SaveRegistrationKeeps, SendToReactorKeeps, InspectKeeps,
     RecallRouteKeeps, PostKeeps, SaveRouteKeeps, AnswerKeeps
  DEF Handoffs!Step
<1>2. ASSUME NEW c \in Handoffs!Callers, NEW r \in Cases.handoffs.Results, Handoffs!Reads(c, r)
      PROVE  Handoffs!IInv'
  BY <1>2, RequestKeeps DEF Handoffs!Reads
<1>3. Cases.handoffs.Clients \subseteq Handoffs!Callers
  BY DEF Handoffs!Callers
<1>4. ASSUME NEW c \in Cases.handoffs.Clients, NEW r \in Cases.handoffs.Results,
             Handoffs!Request(c, "reactor", r, Nothing, Nothing)
      PROVE  Handoffs!IInv'
  BY <1>3, <1>4, RequestKeeps
<1>5. ASSUME NEW c \in Cases.handoffs.Clients, NEW r \in Cases.handoffs.Results,
             NEW key \in Cases.handoffs.Keys \cup {Nothing}, NEW alias \in Cases.handoffs.Aliases,
             Handoffs!Request(c, "exchange", r, key, alias)
      PROVE  Handoffs!IInv'
  BY <1>3, <1>5, RequestKeeps
<1>6. endpoint \in [version : 1..Cases.handoffs.MaxVersion, ready : BOOLEAN,
                    serves : Cases.handoffs.Results]
  BY DEF Handoffs!IInv, Handoffs!KindsOK
<1>7. CASE Handoffs!Redeploy
  <2>1. /\ endpoint.version + 1 \in 1..Cases.handoffs.MaxVersion
        /\ endpoint' \in [version : {endpoint.version + 1}, ready : BOOLEAN,
                          serves : Cases.handoffs.Results]
        /\ UNCHANGED <<receipts, registered, deployed, routes, call>>
    BY <1>6, <1>7, ServiceAssumption DEF Handoffs!Redeploy, Handoffs!PublicationAssumption
  <2>2. QED
    BY <2>1, RestKeeps
<1>8. CASE Handoffs!Crash
  BY <1>6, <1>8, RestKeeps DEF Handoffs!Crash
<1>9. CASE UNCHANGED Handoffs!vars
  BY <1>6, <1>9, RestKeeps DEF Handoffs!vars
<1>10. QED
  BY <1>1, <1>2, <1>4, <1>5, <1>7, <1>8, <1>9 DEF Handoffs!Next

\* What the invariant says to a client.
LEMMA HandoffsHold ==
  ASSUME Handoffs!IInv
  PROVE  /\ Handoffs!TypeOK /\ Handoffs!ReceiptsAreAcknowledged /\ Handoffs!HandedOverIsRegistered
         /\ Handoffs!AnswersNameTheRoute /\ Handoffs!OneDefaultRoute
<1>1. Handoffs!TypeOK
  <2>1. ASSUME NEW row \in receipts
        PROVE  \/ row.digest \in Cases.handoffs.Results /\ row.key = Handoffs!RegistryKey(row.digest)
               \/ row.answer \in Nat /\ row.key[1] \in {"header", "send-to-exchange"}
    BY DEF Handoffs!IInv, Handoffs!KindsOK, Handoffs!RouteKeys
  <2>2. \A c \in Handoffs!Callers : call[c].result \in Cases.handoffs.Results \cup {Nothing}
    BY DEF Handoffs!IInv, Handoffs!KindsOK, Handoffs!CallRecords
  <2>3. QED
    BY <2>1, <2>2 DEF Handoffs!TypeOK, Handoffs!IInv, Handoffs!KindsOK
<1>2. Handoffs!AnswersNameTheRoute
  <2>1. SUFFICES ASSUME NEW c \in Cases.handoffs.Clients, Handoffs!At(c, "sent")
                 PROVE  \E route \in routes :
                          /\ route.key = Handoffs!RouteKey(c) /\ route.id = call[c].answer
                          /\ route.payload = call[c].payload
                          /\ \A other \in routes : other.key = Handoffs!RouteKey(c) => other = route
    BY DEF Handoffs!AnswersNameTheRoute
  <2> DEFINE route == [key |-> Handoffs!RouteKey(c), payload |-> call[c].payload,
                       id |-> call[c].answer]
  <2>2. Handoffs!CallOK(c)
    BY DEF Handoffs!IInv, Handoffs!CallsOK, Handoffs!Callers
  <2>3. route \in routes
    BY <2>1, <2>2 DEF Handoffs!CallOK, Handoffs!At
  <2>4. /\ route.key = Handoffs!RouteKey(c) /\ route.id = call[c].answer
        /\ route.payload = call[c].payload
    OBVIOUS
  <2> HIDE DEF route
  <2>5. QED
    BY <2>3, <2>4 DEF Handoffs!IInv, Handoffs!RoutesOK
<1>3. Handoffs!OneDefaultRoute
  <2>1. SUFFICES ASSUME NEW x \in routes, NEW y \in routes, x.payload.result = y.payload.result,
                        x.key[1] # "header", y.key[1] # "header"
                 PROVE  x = y
    BY DEF Handoffs!OneDefaultRoute
  <2>2. x.key \in Handoffs!RouteKeys /\ y.key \in Handoffs!RouteKeys
    BY DEF Handoffs!IInv, Handoffs!KindsOK
  <2>3. /\ x.key = <<"send-to-exchange", x.payload.result>>
        /\ y.key = <<"send-to-exchange", y.payload.result>>
    BY <2>1, <2>2 DEF Handoffs!IInv, Handoffs!RoutesOK, Handoffs!RouteKeys
  <2>4. QED
    BY <2>1, <2>3 DEF Handoffs!IInv, Handoffs!RoutesOK
<1>4. QED
  BY <1>1, <1>2, <1>3 DEF Handoffs!IInv

(* Side by side with the others, for any number of callers, results, keys, *)
(* failures and kills: a receipt is on an acknowledgement, what is handed  *)
(* over was registered, and a key stands for one route, which is the one   *)
(* that its caller is told (get_result, send_to_reactor, send_to_exchange, *)
(* save_receipt).                                                          *)
THEOREM HandoffsStaySound == AllSpec => []HandoffsAreSound
<1> DEFINE Known == Is("handoffs") => Handoffs!IInv
<1>1. AllInit => Known
  BY HandoffsBegin DEF AllInit, Is, ResumeCases
<1>2. Known /\ [AllNext]_allvars => Known'
  <2> SUFFICES ASSUME Known, [AllNext]_allvars, Is("handoffs")' PROVE Handoffs!IInv'
    OBVIOUS
  <2>1. Is("handoffs") /\ Handoffs!IInv
    BY DEF AllNext, allvars, Is
  <2>2. [Handoffs!Next]_Handoffs!vars
    BY <2>1 DEF AllNext, allvars, Is, OfHandoffs, Shared, Handoffs!vars, ResumeCases
  <2>3. QED
    BY <2>1, <2>2, HandoffsGoOn
<1>3. Known => HandoffsAreSound
  BY HandoffsHold DEF HandoffsAreSound
<1>4. QED
  BY <1>1, <1>2, <1>3, PTL DEF AllSpec

-----------------------------------------------------------------------------
(* Resumes.                                                                *)

LEMMA ResumeConstants ==
  ASSUME NEW n \in ResumeCases
  PROVE  /\ "free" \notin Cases[n].Clients
         /\ Cases[n].MaxAttempts \in Nat \ {0} /\ Cases[n].MaxFaults \in Nat
         /\ Cases[n].MaxCrashes \in Nat
  BY ServiceAssumption DEF Resume!ResumeAssumption

\* The newest Attempt is one of the sequence.
LEMMA NewestAttempt ==
  ASSUME NEW n \in ResumeCases, Resume(n)!KindsOK
  PROVE  /\ Resume(n)!Newest \in 1..Cases[n].MaxAttempts /\ Resume(n)!Newest = Len(attempts)
         /\ \A i \in 1..Resume(n)!Newest : attempts[i] \in Resume(n)!AttemptRecords
         /\ attempts[Resume(n)!Newest] \in Resume(n)!AttemptRecords
<1>1. /\ attempts \in Seq(Resume(n)!AttemptRecords) /\ Resume(n)!Newest = Len(attempts)
      /\ Resume(n)!Newest \in 1..Cases[n].MaxAttempts
  BY DEF Resume!KindsOK, Resume!Newest
<1>2. \A i \in 1..Len(attempts) : attempts[i] \in Resume(n)!AttemptRecords
  BY <1>1, ElementOfSeq
<1>3. QED
  BY <1>1, <1>2, ResumeConstants

\* A step of a call.
CallIs(c, at, key, chosen) ==
  call' = [call EXCEPT ![c] = [at |-> at, key |-> key, chosen |-> chosen]]

\* A call after a step of it.
LEMMA CallBecomes ==
  ASSUME NEW n \in ResumeCases, Resume(n)!KindsOK, NEW c \in Cases[n].Clients,
         NEW at \in Resume(n)!Points, NEW key \in Cases[n].Keys \cup {Nothing}, NEW chosen,
         CallIs(c, at, key, chosen)
  PROVE  /\ call'[c].at = at /\ call'[c].key = key /\ call'[c].chosen = chosen
         /\ \A d \in Cases[n].Clients : d # c => call'[d] = call[d]
         /\ call' = [d \in Cases[n].Clients |->
                       [at |-> call'[d].at, key |-> call'[d].key, chosen |-> call'[d].chosen]]
         /\ \A d \in Cases[n].Clients :
              call'[d].at \in Resume(n)!Points /\ call'[d].key \in Cases[n].Keys \cup {Nothing}
<1>1. /\ call = [d \in Cases[n].Clients |->
                   [at |-> call[d].at, key |-> call[d].key, chosen |-> call[d].chosen]]
      /\ \A d \in Cases[n].Clients :
           call[d].at \in Resume(n)!Points /\ call[d].key \in Cases[n].Keys \cup {Nothing}
  BY DEF Resume!KindsOK
<1> DEFINE entry == [at |-> at, key |-> key, chosen |-> chosen]
<1>2. entry.at = at /\ entry.key = key /\ entry.chosen = chosen
  OBVIOUS
<1>3. /\ DOMAIN call' = Cases[n].Clients /\ call' = [d \in Cases[n].Clients |-> call'[d]]
      /\ call'[c] = entry /\ \A d \in Cases[n].Clients : d # c => call'[d] = call[d]
  BY <1>1 DEF CallIs
<1> HIDE DEF entry
<1>4. entry = [at |-> entry.at, key |-> entry.key, chosen |-> entry.chosen]
  BY DEF entry
<1>5. \A d \in Cases[n].Clients :
        call'[d] = [at |-> call'[d].at, key |-> call'[d].key, chosen |-> call'[d].chosen]
  BY <1>1, <1>3, <1>4
<1>6. QED
  BY <1>1, <1>2, <1>3, <1>5

\* The same, of a call that only goes on.
LEMMA CallMoves ==
  ASSUME NEW n \in ResumeCases, Resume(n)!KindsOK, NEW c \in Cases[n].Clients, NEW at, NEW chosen
  PROVE  /\ call' = [call EXCEPT ![c].at = at] => CallIs(c, at, call[c].key, call[c].chosen)
         /\ call' = [call EXCEPT ![c].at = at, ![c].chosen = chosen] =>
              CallIs(c, at, call[c].key, chosen)
         /\ call[c].key \in Cases[n].Keys \cup {Nothing}
<1>1. call = [d \in Cases[n].Clients |->
                [at |-> call[d].at, key |-> call[d].key, chosen |-> call[d].chosen]]
  BY DEF Resume!KindsOK
<1> DEFINE a == call[c].at
           k == call[c].key
           h == call[c].chosen
<1>2. call[c] = [at |-> a, key |-> k, chosen |-> h]
  BY <1>1
<1>3. k \in Cases[n].Keys \cup {Nothing}
  BY DEF Resume!KindsOK
<1> HIDE DEF a, k, h
<1>4. /\ [call[c] EXCEPT !.at = at] = [at |-> at, key |-> k, chosen |-> h]
      /\ [call[c] EXCEPT !.at = at, !.chosen = chosen] = [at |-> at, key |-> k, chosen |-> chosen]
  <2> DEFINE r == [at |-> a, key |-> k, chosen |-> h]
             s == [at |-> at, key |-> k, chosen |-> h]
  <2>1. [r EXCEPT !.at = at] = s
    OBVIOUS
  <2>2. [s EXCEPT !.chosen = chosen] = [at |-> at, key |-> k, chosen |-> chosen]
    OBVIOUS
  <2>3. call[c] = r
    BY <1>2
  <2> HIDE DEF r, s
  <2>4. [call[c] EXCEPT !.at = at] = s
    BY <2>1, <2>3
  <2>5. QED
    BY <2>2, <2>4 DEF s
<1>5. /\ [call EXCEPT ![c].at = at] = [call EXCEPT ![c] = [at |-> at, key |-> k, chosen |-> h]]
      /\ [call EXCEPT ![c].at = at, ![c].chosen = chosen] =
           [call EXCEPT ![c] = [at |-> at, key |-> k, chosen |-> chosen]]
  <2>1. DOMAIN call = Cases[n].Clients
    BY <1>1
  <2>2. QED
    BY <1>4, <2>1
<1>6. QED
  BY <1>3, <1>5 DEF k, h, CallIs

\* Only the call that has the lock is at work.
LEMMA OthersWait ==
  ASSUME NEW n \in ResumeCases, Resume(n)!IInv, NEW c \in Cases[n].Clients, lock # c
  PROVE  ~Resume(n)!Staging(c) /\ ~Resume(n)!Appended(c)
  BY DEF Resume!IInv, Resume!HoldersOK, Resume!HolderOK

\* The calls after a step of one of them.
LEMMA HoldersStep ==
  ASSUME NEW n \in ResumeCases, Resume(n)!IInv, NEW c \in Cases[n].Clients,
         \A d \in Cases[n].Clients : d # c => call'[d] = call[d],
         \/ lock' = lock /\ UNCHANGED <<status, attempts, resumeDir, receipts>>
         \/ lock \in {c, "free"},
         Resume(n)!ResumableStatus' =>
           (attempts[Resume(n)!Newest].state \notin {"pending", "running"})',
         Resume(n)!HolderOK(c)'
  PROVE  Resume(n)!HoldersOK'
<1>1. ASSUME NEW d \in Cases[n].Clients, d # c
      PROVE  Resume(n)!HolderOK(d)'
  <2>1. call'[d] = call[d] /\ Resume(n)!HolderOK(d)
    BY <1>1 DEF Resume!IInv, Resume!HoldersOK
  <2>2. CASE lock' = lock /\ UNCHANGED <<status, attempts, resumeDir, receipts>>
    BY <2>1, <2>2
    DEF Resume!HolderOK, Resume!Staging, Resume!Appended, Resume!At, Resume!ResumableStatus,
        Resume!Attached, Resume!Newest, Resume!KeyOf
  <2>3. CASE lock \in {c, "free"}
    <3>1. lock # d
      BY <1>1, <2>3, ResumeConstants
    <3>2. ~Resume(n)!Staging(d)' /\ ~Resume(n)!Appended(d)'
      BY <2>1, <3>1, OthersWait DEF Resume!Staging, Resume!Appended
    <3>3. QED
      BY <3>2 DEF Resume!HolderOK, Resume!Staging, Resume!Appended, Resume!At
  <2>4. QED
    BY <2>2, <2>3
<1>2. QED
  BY <1>1 DEF Resume!HoldersOK

\* A step of a call that leaves the run and its Attempts as they are.
LEMMA BesideTheRun ==
  ASSUME NEW n \in ResumeCases, Resume(n)!IInv, NEW c \in Cases[n].Clients,
         NEW at \in Resume(n)!Points, NEW key \in Cases[n].Keys \cup {Nothing}, NEW chosen,
         CallIs(c, at, key, chosen),
         UNCHANGED <<status, attempts, disk, receipts, crashes>>,
         faults' \in 0..Cases[n].MaxFaults, lock' \in Cases[n].Clients \cup {"free"},
         resumeDir' \in [Resume(n)!Checkpoints -> {"absent", "partial", "complete"}],
         resumeDir' = resumeDir \/ Resume(n)!ResumableStatus,
         (lock' = lock /\ resumeDir' = resumeDir) \/ lock \in {c, "free"},
         ~Resume(n)!Appended(c), Resume(n)!HolderOK(c)'
  PROVE  Resume(n)!IInv'
<1>1. Resume(n)!KindsOK /\ Resume(n)!HoldersOK
  BY DEF Resume!IInv
<1>2. /\ \A d \in Cases[n].Clients : d # c => call'[d] = call[d]
      /\ call' = [d \in Cases[n].Clients |->
                    [at |-> call'[d].at, key |-> call'[d].key, chosen |-> call'[d].chosen]]
      /\ \A d \in Cases[n].Clients :
           call'[d].at \in Resume(n)!Points /\ call'[d].key \in Cases[n].Keys \cup {Nothing}
  BY <1>1, CallBecomes
<1>3. Resume(n)!KindsOK'
  BY <1>1, <1>2 DEF Resume!KindsOK, Resume!Newest, Resume!Free
<1>4. Resume(n)!HoldersOK'
  <2>1. Resume(n)!ResumableStatus' =>
          (attempts[Resume(n)!Newest].state \notin {"pending", "running"})'
    BY <1>1 DEF Resume!HoldersOK, Resume!ResumableStatus, Resume!Newest
  <2>2. QED
    BY <1>2, <2>1, HoldersStep
<1>5. Resume(n)!RunningAttemptsKeepTheirCheckpoint'
  <2>1. CASE resumeDir' = resumeDir
    BY <2>1 DEF Resume!IInv, Resume!RunningAttemptsKeepTheirCheckpoint, Resume!Newest
  <2>2. CASE Resume(n)!ResumableStatus
    BY <1>1, <2>2
    DEF Resume!HoldersOK, Resume!RunningAttemptsKeepTheirCheckpoint, Resume!Newest
  <2>3. QED
    BY <2>1, <2>2
<1>6. Resume(n)!ResumesFromItsPredecessor'
  BY DEF Resume!IInv, Resume!ResumesFromItsPredecessor, Resume!Newest
<1>7. Resume(n)!KeysOK => Resume(n)!KeysOK'
  <2>1. \A d \in Cases[n].Clients :
          Resume(n)!Appended(d) => Resume(n)!Appended(d)' /\ call'[d].key = call[d].key
    BY <1>2 DEF Resume!Appended
  <2>2. Resume(n)!OneAttemptPerKey => Resume(n)!OneAttemptPerKey'
    BY DEF Resume!OneAttemptPerKey, Resume!Newest
  <2>3. ASSUME NEW i \in 2..Resume(n)!Newest', attempts'[i].key # Nothing, Resume(n)!KeysOK
        PROVE  \/ \E receipt \in receipts' : receipt.key = <<"header", attempts'[i].key>>
               \/ \E d \in Cases[n].Clients : Resume(n)!Appended(d)' /\ call'[d].key = attempts'[i].key
    BY <2>1, <2>3 DEF Resume!KeysOK, Resume!Newest
  <2>4. QED
    BY <2>2, <2>3 DEF Resume!KeysOK
<1>8. QED
  BY <1>3, <1>4, <1>5, <1>6, <1>7 DEF Resume!IInv

\* A call that is not at work asks nothing of the run.
LEMMA AtRest ==
  ASSUME NEW n \in ResumeCases, NEW c, call'[c].at \in {"idle", "select"}
  PROVE  Resume(n)!HolderOK(c)'
  BY DEF Resume!HolderOK, Resume!Staging, Resume!Appended, Resume!At

\* A call ends before the Attempt was appended.
LEMMA EndsBefore ==
  ASSUME NEW n \in ResumeCases, Resume(n)!IInv, NEW c \in Cases[n].Clients, Resume(n)!Ends(c),
         UNCHANGED <<status, attempts, disk, receipts, crashes>>,
         faults' \in 0..Cases[n].MaxFaults,
         resumeDir' \in [Resume(n)!Checkpoints -> {"absent", "partial", "complete"}],
         resumeDir' = resumeDir \/ Resume(n)!ResumableStatus, lock \in {c, "free"},
         ~Resume(n)!Appended(c)
  PROVE  Resume(n)!IInv'
<1>1. /\ CallIs(c, "idle", Nothing, Nothing)
      /\ lock' \in Cases[n].Clients \cup {"free"} /\ "idle" \in Resume(n)!Points
      /\ Resume(n)!KindsOK
  BY DEF CallIs, Resume!Ends, Resume!Idle, Resume!Free, Resume!Points, Resume!IInv, Resume!KindsOK
<1>2. call'[c].at = "idle"
  BY <1>1, CallBecomes
<1>3. Resume(n)!HolderOK(c)'
  BY <1>2, AtRest
<1>4. QED
  BY <1>1, <1>3, BesideTheRun

LEMMA RequestIsKept ==
  ASSUME NEW n \in ResumeCases, Resume(n)!IInv, NEW c \in Cases[n].Clients,
         NEW key \in Cases[n].Keys \cup {Nothing}, NEW choice, Resume(n)!Request(c, key, choice)
  PROVE  Resume(n)!IInv'
<1>1. /\ CallIs(c, "select", key, choice)
      /\ UNCHANGED <<status, attempts, disk, resumeDir, receipts, lock, faults, crashes>>
      /\ Resume(n)!KindsOK /\ "select" \in Resume(n)!Points
  BY DEF CallIs, Resume!Request, Resume!IInv, Resume!Points
<1>2. call'[c].at = "select"
  BY <1>1, CallBecomes
<1>3. Resume(n)!HolderOK(c)'
  BY <1>2, AtRest
<1>4. ~Resume(n)!Appended(c)
  BY DEF Resume!Request, Resume!At, Resume!Appended
<1>5. /\ faults' \in 0..Cases[n].MaxFaults /\ lock' \in Cases[n].Clients \cup {"free"}
      /\ resumeDir' \in [Resume(n)!Checkpoints -> {"absent", "partial", "complete"}]
  BY <1>1 DEF Resume!KindsOK, Resume!Free
<1>6. QED
  BY <1>1, <1>3, <1>4, <1>5, BesideTheRun

LEMMA RefusalIsKept ==
  ASSUME NEW n \in ResumeCases, Resume(n)!IInv, NEW c \in Cases[n].Clients,
         Resume(n)!Refuse(c) \/ Resume(n)!Recall(c)
  PROVE  Resume(n)!IInv'
<1>1. /\ Resume(n)!Ends(c) /\ lock = "free" /\ ~Resume(n)!Appended(c)
      /\ UNCHANGED <<status, attempts, disk, resumeDir, receipts, faults, crashes>>
  BY DEF Resume!Refuse, Resume!Recall, Resume!LockFree, Resume!Free, Resume!At, Resume!Appended
<1>2. /\ faults' \in 0..Cases[n].MaxFaults
      /\ resumeDir' \in [Resume(n)!Checkpoints -> {"absent", "partial", "complete"}]
  BY <1>1 DEF Resume!IInv, Resume!KindsOK
<1>3. QED
  BY <1>1, <1>2, EndsBefore

LEMMA SelectionIsKept ==
  ASSUME NEW n \in ResumeCases, Resume(n)!IInv, NEW c \in Cases[n].Clients, Resume(n)!Select(c)
  PROVE  Resume(n)!IInv'
<1>1. /\ Resume(n)!KindsOK /\ lock = "free" /\ lock' = c /\ ~Resume(n)!Appended(c)
      /\ Resume(n)!ResumableStatus
      /\ UNCHANGED <<status, attempts, disk, resumeDir, receipts, faults, crashes>>
  BY DEF Resume!Select, Resume!IInv, Resume!LockFree, Resume!Free, Resume!At, Resume!Appended
<1>2. PICK k \in Resume(n)!Selected(call[c].chosen) :
        /\ ~Resume(n)!Recalled(call[c].key, k) /\ ~Resume(n)!Conflicts(call[c].key, k)
        /\ call' = [call EXCEPT ![c].at = "remove", ![c].chosen = k]
  BY DEF Resume!Select
<1>3. PICK key \in Cases[n].Keys \cup {Nothing} : key = call[c].key
  BY <1>1, CallMoves
<1>4. CallIs(c, "remove", key, k)
  BY <1>1, <1>2, <1>3, CallMoves
<1>5. "remove" \in Resume(n)!Points
  BY DEF Resume!Points
<1>6. call'[c].at = "remove" /\ call'[c].key = key /\ call'[c].chosen = k
  <2>1. Resume(n)!KindsOK
    BY <1>1
  <2>2. QED
    BY <1>4, <1>5, <2>1, CallBecomes
<1>7. k \in Resume(n)!Attached
  BY DEF Resume!Selected, Resume!ByDefault
<1>8. k \in Resume(n)!Checkpoints
  BY <1>1, <1>7, NewestAttempt DEF Resume!Attached, Resume!AttemptRecords
<1>9. \A receipt \in receipts : receipt.key # Resume(n)!KeyOf(key, k)
  <2>1. SUFFICES ASSUME NEW receipt \in receipts, receipt.key = Resume(n)!KeyOf(key, k) PROVE FALSE
    OBVIOUS
  <2>2. receipt \in [key : Resume(n)!ResumeKeys, checkpoint : Resume(n)!Checkpoints]
    BY <1>1 DEF Resume!KindsOK
  <2>3. receipt.checkpoint = k
    BY <1>2, <1>3, <2>1 DEF Resume!Conflicts
  <2>4. receipt = [key |-> Resume(n)!KeyOf(key, k), checkpoint |-> k]
    BY <2>1, <2>2, <2>3
  <2>5. QED
    BY <1>2, <1>3, <2>4 DEF Resume!Recalled
<1>10. Resume(n)!HolderOK(c)'
  BY <1>1, <1>6, <1>7, <1>8, <1>9
  DEF Resume!HolderOK, Resume!Staging, Resume!Appended, Resume!At, Resume!ResumableStatus,
      Resume!Attached, Resume!Newest, Resume!KeyOf
<1>11. /\ faults' \in 0..Cases[n].MaxFaults /\ lock' \in Cases[n].Clients \cup {"free"}
       /\ resumeDir' \in [Resume(n)!Checkpoints -> {"absent", "partial", "complete"}]
  BY <1>1 DEF Resume!KindsOK
<1>12. QED
  BY <1>1, <1>4, <1>5, <1>10, <1>11, BesideTheRun

LEMMA RemovalIsKept ==
  ASSUME NEW n \in ResumeCases, Resume(n)!IInv, NEW c \in Cases[n].Clients, Resume(n)!Remove(c)
  PROVE  Resume(n)!IInv'
<1>1. /\ Resume(n)!KindsOK /\ Resume(n)!HolderOK(c) /\ call[c].at = "remove"
      /\ UNCHANGED <<status, attempts, disk, receipts, lock, faults, crashes>>
      /\ call' = [call EXCEPT ![c].at = "stage"]
  BY DEF Resume!Remove, Resume!At, Resume!Goes, Resume!IInv, Resume!HoldersOK
<1>2. /\ Resume(n)!Staging(c) /\ ~Resume(n)!Appended(c)
      /\ lock = c /\ call[c].chosen \in Resume(n)!Checkpoints /\ Resume(n)!ResumableStatus
      /\ call[c].chosen \in Resume(n)!Attached
      /\ \A receipt \in receipts : receipt.key # Resume(n)!KeyOf(call[c].key, call[c].chosen)
  BY <1>1 DEF Resume!HolderOK, Resume!Staging, Resume!Appended
<1>3. PICK key \in Cases[n].Keys \cup {Nothing}, k \in Resume(n)!Checkpoints :
        key = call[c].key /\ k = call[c].chosen
  BY <1>1, <1>2, CallMoves
<1>4. CallIs(c, "stage", key, k) /\ "stage" \in Resume(n)!Points
  BY <1>1, <1>3, CallMoves DEF Resume!Points
<1>5. call'[c].at = "stage" /\ call'[c].key = key /\ call'[c].chosen = k
  <2>1. Resume(n)!KindsOK
    BY <1>1
  <2>2. QED
    BY <1>4, <2>1, CallBecomes
<1>6. resumeDir' \in [Resume(n)!Checkpoints -> {"absent", "partial", "complete"}]
  BY <1>1, <1>3 DEF Resume!Remove, Resume!KindsOK
<1>7. Resume(n)!HolderOK(c)'
  BY <1>1, <1>2, <1>3, <1>5
  DEF Resume!HolderOK, Resume!Staging, Resume!Appended, Resume!At, Resume!ResumableStatus,
      Resume!Attached, Resume!Newest, Resume!KeyOf
<1>8. faults' \in 0..Cases[n].MaxFaults /\ lock' \in Cases[n].Clients \cup {"free"}
  BY <1>1 DEF Resume!KindsOK, Resume!Free
<1>9. QED
  BY <1>1, <1>2, <1>4, <1>6, <1>7, <1>8, BesideTheRun

LEMMA StagingIsKept ==
  ASSUME NEW n \in ResumeCases, Resume(n)!IInv, NEW c \in Cases[n].Clients, Resume(n)!Stage(c)
  PROVE  Resume(n)!IInv'
<1>1. /\ Resume(n)!KindsOK /\ Resume(n)!HolderOK(c) /\ call[c].at = "stage"
      /\ UNCHANGED <<status, attempts, disk, receipts, crashes>>
  BY DEF Resume!Stage, Resume!At, Resume!IInv, Resume!HoldersOK
<1>2. /\ Resume(n)!Staging(c) /\ ~Resume(n)!Appended(c)
      /\ lock = c /\ call[c].chosen \in Resume(n)!Checkpoints /\ Resume(n)!ResumableStatus
      /\ call[c].chosen \in Resume(n)!Attached
      /\ \A receipt \in receipts : receipt.key # Resume(n)!KeyOf(call[c].key, call[c].chosen)
  BY <1>1 DEF Resume!HolderOK, Resume!Staging, Resume!Appended
<1>3. PICK key \in Cases[n].Keys \cup {Nothing}, k \in Resume(n)!Checkpoints :
        key = call[c].key /\ k = call[c].chosen
  BY <1>1, <1>2, CallMoves
<1>4. CASE /\ resumeDir' = [resumeDir EXCEPT ![call[c].chosen] = "complete"]
           /\ call' = [call EXCEPT ![c].at = "append"] /\ UNCHANGED <<lock, faults>>
  <2>1. CallIs(c, "append", key, k) /\ "append" \in Resume(n)!Points
    BY <1>1, <1>3, <1>4, CallMoves DEF Resume!Points
  <2>2. Resume(n)!KindsOK
    BY <1>1
  <2>3. call'[c].at = "append" /\ call'[c].key = key /\ call'[c].chosen = k
    BY <2>1, <2>2, CallBecomes
  <2>4. /\ resumeDir' \in [Resume(n)!Checkpoints -> {"absent", "partial", "complete"}]
        /\ resumeDir'[k] = "complete"
    BY <1>3, <1>4, <2>2 DEF Resume!KindsOK
  <2>5. Resume(n)!HolderOK(c)'
    BY <1>1, <1>2, <1>3, <1>4, <2>3, <2>4
    DEF Resume!HolderOK, Resume!Staging, Resume!Appended, Resume!At, Resume!ResumableStatus,
        Resume!Attached, Resume!Newest, Resume!KeyOf
  <2>6. faults' \in 0..Cases[n].MaxFaults /\ lock' \in Cases[n].Clients \cup {"free"}
    BY <1>4, <2>2 DEF Resume!KindsOK, Resume!Free
  <2>7. QED
    BY <1>1, <1>2, <2>1, <2>4, <2>5, <2>6, BesideTheRun
<1>5. CASE /\ Resume(n)!Fault /\ Resume(n)!Ends(c)
           /\ resumeDir' = [resumeDir EXCEPT ![call[c].chosen] = "partial"]
  <2>1. resumeDir' \in [Resume(n)!Checkpoints -> {"absent", "partial", "complete"}]
    BY <1>1, <1>3, <1>5 DEF Resume!KindsOK
  <2>2. faults' \in 0..Cases[n].MaxFaults
    BY <1>1, <1>5, ResumeConstants DEF Resume!KindsOK, Resume!Fault
  <2>3. QED
    BY <1>1, <1>2, <1>5, <2>1, <2>2, EndsBefore
<1>6. QED
  BY <1>4, <1>5 DEF Resume!Stage, Resume!Goes

\* A step of the call that has the lock, of whatever of the run it changes.
LEMMA OfTheHolder ==
  ASSUME NEW n \in ResumeCases, Resume(n)!IInv, NEW c \in Cases[n].Clients, lock = c,
         NEW at \in Resume(n)!Points, NEW key \in Cases[n].Keys \cup {Nothing}, NEW chosen,
         CallIs(c, at, key, chosen), UNCHANGED <<disk, resumeDir, crashes>>,
         status' \in {status, "running"}, faults' \in 0..Cases[n].MaxFaults,
         attempts' \in Seq(Resume(n)!AttemptRecords), Resume(n)!Newest' \in 1..Cases[n].MaxAttempts,
         receipts' \subseteq [key : Resume(n)!ResumeKeys, checkpoint : Resume(n)!Checkpoints],
         lock' \in {c, "free"}, status' = "running", Resume(n)!HolderOK(c)',
         Resume(n)!RunningAttemptsKeepTheirCheckpoint', Resume(n)!ResumesFromItsPredecessor',
         Cases[n].MaxFaults = 0 /\ Cases[n].MaxCrashes = 0 => Resume(n)!KeysOK'
  PROVE  Resume(n)!IInv'
<1>1. Resume(n)!KindsOK
  BY DEF Resume!IInv
<1>2. /\ \A d \in Cases[n].Clients : d # c => call'[d] = call[d]
      /\ call' = [d \in Cases[n].Clients |->
                    [at |-> call'[d].at, key |-> call'[d].key, chosen |-> call'[d].chosen]]
      /\ \A d \in Cases[n].Clients :
           call'[d].at \in Resume(n)!Points /\ call'[d].key \in Cases[n].Keys \cup {Nothing}
  BY <1>1, CallBecomes
<1>3. Resume(n)!KindsOK'
  BY <1>1, <1>2 DEF Resume!KindsOK, Resume!Free
<1>4. ~Resume(n)!ResumableStatus'
  BY DEF Resume!ResumableStatus
<1>5. Resume(n)!HoldersOK'
  BY <1>2, <1>4, HoldersStep
<1>6. QED
  BY <1>3, <1>5 DEF Resume!IInv

\* The other calls have appended nothing while one has the lock.
LEMMA KeysOfOthers ==
  ASSUME NEW n \in ResumeCases, Resume(n)!IInv, NEW c \in Cases[n].Clients, lock = c,
         Resume(n)!KeysOK, NEW i \in 2..Resume(n)!Newest, attempts[i].key # Nothing
  PROVE  \/ \E receipt \in receipts : receipt.key = <<"header", attempts[i].key>>
         \/ Resume(n)!Appended(c) /\ call[c].key = attempts[i].key
  BY OthersWait DEF Resume!KeysOK

LEMMA AppendIsKept ==
  ASSUME NEW n \in ResumeCases, Resume(n)!IInv, NEW c \in Cases[n].Clients,
         Resume(n)!AppendAttempt(c)
  PROVE  Resume(n)!IInv'
<1> DEFINE top == Len(attempts)
<1>1. /\ Resume(n)!KindsOK /\ Resume(n)!HolderOK(c) /\ call[c].at = "append"
      /\ UNCHANGED <<disk, resumeDir, receipts, lock, faults, crashes>> /\ status' = "running"
      /\ call' = [call EXCEPT ![c].at = "execute"]
      /\ top < Cases[n].MaxAttempts /\ Resume(n)!Newest = top
  BY DEF Resume!AppendAttempt, Resume!At, Resume!Goes, Resume!IInv, Resume!HoldersOK, Resume!Newest
<1>2. /\ Resume(n)!Staging(c) /\ ~Resume(n)!Appended(c)
      /\ lock = c /\ call[c].chosen \in Resume(n)!Checkpoints
      /\ call[c].chosen \in Resume(n)!Attached /\ resumeDir[call[c].chosen] = "complete"
      /\ \A receipt \in receipts : receipt.key # Resume(n)!KeyOf(call[c].key, call[c].chosen)
  BY <1>1 DEF Resume!HolderOK, Resume!Staging, Resume!Appended, Resume!At
<1>3. PICK key \in Cases[n].Keys \cup {Nothing}, k \in Resume(n)!Checkpoints :
        key = call[c].key /\ k = call[c].chosen
  BY <1>1, <1>2, CallMoves
<1>4. CallIs(c, "execute", key, k) /\ "execute" \in Resume(n)!Points
  BY <1>1, <1>3, CallMoves DEF Resume!Points
<1>5. call'[c].at = "execute" /\ call'[c].key = key /\ call'[c].chosen = k
  <2>1. Resume(n)!KindsOK
    BY <1>1
  <2>2. QED
    BY <1>4, <2>1, CallBecomes
<1> DEFINE new == [state |-> "pending", from |-> k, key |-> key, artifacts |-> {}]
<1>6. /\ attempts' = Append(attempts, new) /\ new \in Resume(n)!AttemptRecords
      /\ new.state = "pending" /\ new.from = k /\ new.key = key
  BY <1>3 DEF Resume!AppendAttempt, Resume!NewAttempt, Resume!AttemptRecords
<1> HIDE DEF new
<1>7. attempts \in Seq(Resume(n)!AttemptRecords) /\ top \in Nat \ {0}
  <2>1. Resume(n)!KindsOK
    BY <1>1
  <2>2. attempts \in Seq(Resume(n)!AttemptRecords)
    BY <2>1 DEF Resume!KindsOK
  <2>3. top \in 1..Cases[n].MaxAttempts
    BY <2>1, NewestAttempt
  <2>4. QED
    BY <2>2, <2>3, ResumeConstants
<1>8. /\ attempts' \in Seq(Resume(n)!AttemptRecords) /\ Len(attempts') = top + 1
      /\ \A i \in 1..top : attempts'[i] = attempts[i]
      /\ attempts'[top + 1] = new
  BY <1>6, <1>7, AppendProperties
<1>9. Resume(n)!Newest' = top + 1 /\ top + 1 \in 1..Cases[n].MaxAttempts
  BY <1>1, <1>7, <1>8, ResumeConstants DEF Resume!Newest
<1> HIDE DEF top
<1>10. Resume(n)!HolderOK(c)'
  <2>1. lock' = c /\ status' = "running" /\ attempts'[Resume(n)!Newest'].state = "pending"
    BY <1>1, <1>2, <1>6, <1>8, <1>9
  <2>2. call'[c].at = "execute" /\ call'[c].chosen \in Resume(n)!Checkpoints
    BY <1>3, <1>5
  <2>3. QED
    BY <2>1, <2>2 DEF Resume!HolderOK, Resume!Staging, Resume!Appended, Resume!At
<1>11. Resume(n)!RunningAttemptsKeepTheirCheckpoint'
  BY <1>1, <1>2, <1>3, <1>6, <1>8, <1>9 DEF Resume!RunningAttemptsKeepTheirCheckpoint
<1>12. Resume(n)!ResumesFromItsPredecessor'
  <2>1. SUFFICES ASSUME NEW i \in 2..top + 1
                 PROVE  attempts'[i].from \in attempts'[i - 1].artifacts
    BY <1>9 DEF Resume!ResumesFromItsPredecessor
  <2>2. CASE i = top + 1
    <3>1. i - 1 = top /\ top \in 1..top
      BY <1>7, <2>2
    <3>2. k \in attempts[top].artifacts
      BY <1>1, <1>2, <1>3 DEF Resume!Attached
    <3>3. QED
      BY <1>6, <1>8, <2>2, <3>1, <3>2
  <2>3. CASE i # top + 1
    <3>1. i \in 2..top /\ i \in 1..top /\ i - 1 \in 1..top
      BY <1>7, <2>1, <2>3
    <3>2. attempts[i].from \in attempts[i - 1].artifacts
      BY <1>1, <3>1 DEF Resume!IInv, Resume!ResumesFromItsPredecessor
    <3>3. QED
      BY <1>8, <3>1, <3>2
  <2>4. QED
    BY <2>2, <2>3
<1>13. ASSUME Resume(n)!KeysOK PROVE Resume(n)!KeysOK'
  <2>1. \A i \in 2..top : i \in 1..top /\ attempts'[i].key = attempts[i].key
    BY <1>7, <1>8
  <2>2. \A i \in 2..top : attempts[i].key # Nothing =>
          \E receipt \in receipts : receipt.key = <<"header", attempts[i].key>>
    BY <1>1, <1>2, <1>13, KeysOfOthers
  <2>3. key # Nothing => \A receipt \in receipts : receipt.key # <<"header", key>>
    BY <1>2, <1>3 DEF Resume!KeyOf
  <2>4. \A i \in 2..top : key # Nothing => attempts[i].key # key
    BY <2>2, <2>3
  <2>5. Resume(n)!OneAttemptPerKey'
    <3>1. SUFFICES ASSUME NEW i \in 2..top + 1, NEW j \in 2..top + 1, attempts'[i].key # Nothing,
                          attempts'[i].key = attempts'[j].key
                   PROVE  i = j
      BY <1>9 DEF Resume!OneAttemptPerKey
    <3>2. CASE i \in 2..top /\ j \in 2..top
      BY <1>1, <1>13, <2>1, <3>1, <3>2 DEF Resume!KeysOK, Resume!OneAttemptPerKey
    <3>3. CASE i = top + 1 \/ j = top + 1
      BY <1>6, <1>7, <1>8, <2>1, <2>4, <3>1, <3>3
    <3>4. QED
      BY <1>7, <3>1, <3>2, <3>3
  <2>6. ASSUME NEW i \in 2..top + 1, attempts'[i].key # Nothing
        PROVE  \/ \E receipt \in receipts' : receipt.key = <<"header", attempts'[i].key>>
               \/ \E d \in Cases[n].Clients : Resume(n)!Appended(d)' /\ call'[d].key = attempts'[i].key
    <3>1. CASE i \in 2..top
      BY <1>1, <2>1, <2>2, <2>6, <3>1
    <3>2. CASE i = top + 1
      BY <1>5, <1>6, <1>8, <3>2 DEF Resume!Appended
    <3>3. QED
      BY <1>7, <2>6, <3>1, <3>2
  <2>7. QED
    BY <1>9, <2>5, <2>6 DEF Resume!KeysOK
<1>14. /\ faults' \in 0..Cases[n].MaxFaults /\ lock' \in {c, "free"} /\ lock = c
       /\ receipts' \subseteq [key : Resume(n)!ResumeKeys, checkpoint : Resume(n)!Checkpoints]
       /\ UNCHANGED <<disk, resumeDir, crashes>> /\ status' = "running"
  BY <1>1, <1>2 DEF Resume!KindsOK
<1>15. Cases[n].MaxFaults = 0 /\ Cases[n].MaxCrashes = 0 => Resume(n)!KeysOK'
  BY <1>13 DEF Resume!IInv
<1>16. Resume(n)!Newest' \in 1..Cases[n].MaxAttempts /\ attempts' \in Seq(Resume(n)!AttemptRecords)
  BY <1>8, <1>9
<1>17. QED
  BY <1>4, <1>10, <1>11, <1>12, <1>14, <1>15, <1>16, OfTheHolder

LEMMA ExecutionIsKept ==
  ASSUME NEW n \in ResumeCases, Resume(n)!IInv, NEW c \in Cases[n].Clients, Resume(n)!Execute(c)
  PROVE  Resume(n)!IInv'
<1> DEFINE top == Len(attempts)
<1>1. /\ Resume(n)!KindsOK /\ Resume(n)!HolderOK(c) /\ call[c].at = "execute"
      /\ UNCHANGED <<status, disk, resumeDir, receipts, crashes>> /\ Resume(n)!Newest = top
  BY DEF Resume!Execute, Resume!At, Resume!IInv, Resume!HoldersOK, Resume!Newest
<1>2. /\ Resume(n)!Appended(c) /\ lock = c /\ call[c].chosen \in Resume(n)!Checkpoints
      /\ status = "running" /\ attempts[top].state = "pending"
  BY <1>1 DEF Resume!HolderOK, Resume!Appended, Resume!At
<1>3. PICK key \in Cases[n].Keys \cup {Nothing}, k \in Resume(n)!Checkpoints :
        key = call[c].key /\ k = call[c].chosen
  BY <1>1, <1>2, CallMoves
<1>4. /\ attempts \in Seq(Resume(n)!AttemptRecords) /\ top \in 1..top
      /\ top \in 1..Cases[n].MaxAttempts /\ attempts[top] \in Resume(n)!AttemptRecords
  <2>1. Resume(n)!KindsOK
    BY <1>1
  <2>2. attempts \in Seq(Resume(n)!AttemptRecords)
    BY <2>1 DEF Resume!KindsOK
  <2>3. /\ top = Resume(n)!Newest /\ top \in 1..top
        /\ top \in 1..Cases[n].MaxAttempts /\ attempts[top] \in Resume(n)!AttemptRecords
    BY <2>1, NewestAttempt
  <2>4. QED
    BY <2>2, <2>3
<1>5. CASE /\ attempts' = [attempts EXCEPT ![top].state = "running"]
           /\ call' = [call EXCEPT ![c].at = "receipt"] /\ UNCHANGED <<lock, faults>>
  <2>1. CallIs(c, "receipt", key, k) /\ "receipt" \in Resume(n)!Points
    BY <1>1, <1>3, <1>5, CallMoves DEF Resume!Points
  <2>2. Resume(n)!KindsOK
    BY <1>1
  <2>3. call'[c].at = "receipt" /\ call'[c].key = key /\ call'[c].chosen = k
    BY <2>1, <2>2, CallBecomes
  <2> DEFINE new == [attempts[top] EXCEPT !.state = "running"]
  <2>4. /\ new \in Resume(n)!AttemptRecords /\ new.state = "running"
        /\ new.from = attempts[top].from /\ new.key = attempts[top].key
        /\ new.artifacts = attempts[top].artifacts
    BY <1>4 DEF Resume!AttemptRecords
  <2>5. attempts' = [attempts EXCEPT ![top] = new]
    BY <1>5
  <2> HIDE DEF new
  <2>6. /\ attempts' \in Seq(Resume(n)!AttemptRecords) /\ Len(attempts') = top
        /\ \A i \in 1..top : attempts'[i] = IF i = top THEN new ELSE attempts[i]
    BY <1>4, <2>4, <2>5, ExceptSeq
  <2>7. Resume(n)!Newest' = top
    BY <2>6 DEF Resume!Newest
  <2> HIDE DEF top
  <2>8. /\ \A i \in 1..top : /\ attempts'[i].from = attempts[i].from
                             /\ attempts'[i].key = attempts[i].key
                             /\ attempts'[i].artifacts = attempts[i].artifacts
        /\ \A i \in 2..top : i \in 1..top /\ i - 1 \in 1..top
    BY <1>4, <2>4, <2>6
  <2>9. Resume(n)!HolderOK(c)'
    BY <1>1, <1>2, <1>3, <1>5, <2>3
    DEF Resume!HolderOK, Resume!Staging, Resume!Appended, Resume!At
  <2>10. Resume(n)!RunningAttemptsKeepTheirCheckpoint'
    BY <1>1, <1>2, <1>4, <2>7, <2>8
    DEF Resume!IInv, Resume!RunningAttemptsKeepTheirCheckpoint
  <2>11. Resume(n)!ResumesFromItsPredecessor'
    BY <1>1, <2>7, <2>8 DEF Resume!IInv, Resume!ResumesFromItsPredecessor
  <2>12. ASSUME Resume(n)!KeysOK PROVE Resume(n)!KeysOK'
    <3>1. Resume(n)!OneAttemptPerKey'
      BY <1>1, <2>7, <2>8, <2>12 DEF Resume!KeysOK, Resume!OneAttemptPerKey
    <3>2. ASSUME NEW i \in 2..top, attempts'[i].key # Nothing
          PROVE  \/ \E receipt \in receipts' : receipt.key = <<"header", attempts'[i].key>>
                 \/ \E d \in Cases[n].Clients : Resume(n)!Appended(d)' /\ call'[d].key = attempts'[i].key
      <4>1. attempts'[i].key = attempts[i].key
        BY <2>8, <3>2
      <4>2. \/ \E receipt \in receipts : receipt.key = <<"header", attempts[i].key>>
            \/ Resume(n)!Appended(c) /\ call[c].key = attempts[i].key
        BY <1>1, <1>2, <2>12, <3>2, <4>1, KeysOfOthers
      <4>3. QED
        BY <1>1, <1>3, <2>3, <4>1, <4>2 DEF Resume!Appended
    <3>3. QED
      BY <2>7, <3>1, <3>2 DEF Resume!KeysOK
  <2>13. /\ faults' \in 0..Cases[n].MaxFaults /\ lock' \in {c, "free"} /\ lock = c
         /\ receipts' \subseteq [key : Resume(n)!ResumeKeys, checkpoint : Resume(n)!Checkpoints]
         /\ UNCHANGED <<disk, resumeDir, crashes>> /\ status' = "running"
    BY <1>1, <1>2, <1>5 DEF Resume!KindsOK
  <2>14. Cases[n].MaxFaults = 0 /\ Cases[n].MaxCrashes = 0 => Resume(n)!KeysOK'
    BY <2>12 DEF Resume!IInv
  <2>15. /\ Resume(n)!Newest' \in 1..Cases[n].MaxAttempts
         /\ attempts' \in Seq(Resume(n)!AttemptRecords)
    BY <1>4, <2>6, <2>7
  <2>16. QED
    BY <2>1, <2>9, <2>10, <2>11, <2>13, <2>14, <2>15, OfTheHolder
<1>6. CASE Resume(n)!Fault /\ Resume(n)!Ends(c) /\ attempts' = attempts
  <2>1. CallIs(c, "idle", Nothing, Nothing) /\ "idle" \in Resume(n)!Points
    BY <1>6 DEF CallIs, Resume!Ends, Resume!Idle, Resume!Points
  <2>2. Resume(n)!KindsOK
    BY <1>1
  <2>3. call'[c].at = "idle"
    BY <2>1, <2>2, CallBecomes
  <2>4. Resume(n)!HolderOK(c)'
    BY <2>3, AtRest
  <2>5. /\ faults' \in 0..Cases[n].MaxFaults /\ Cases[n].MaxFaults # 0
    BY <1>6, <2>2, ResumeConstants DEF Resume!Fault, Resume!KindsOK
  <2>6. /\ Resume(n)!RunningAttemptsKeepTheirCheckpoint' /\ Resume(n)!ResumesFromItsPredecessor'
    BY <1>1, <1>6
    DEF Resume!IInv, Resume!RunningAttemptsKeepTheirCheckpoint, Resume!ResumesFromItsPredecessor,
        Resume!Newest
  <2>7. /\ lock' \in {c, "free"} /\ lock = c
        /\ receipts' \subseteq [key : Resume(n)!ResumeKeys, checkpoint : Resume(n)!Checkpoints]
        /\ UNCHANGED <<disk, resumeDir, crashes>> /\ status' = "running"
    BY <1>1, <1>2, <1>6 DEF Resume!KindsOK, Resume!Ends, Resume!Free
  <2>8. /\ Resume(n)!Newest' \in 1..Cases[n].MaxAttempts
        /\ attempts' \in Seq(Resume(n)!AttemptRecords)
    BY <1>4, <1>6, <2>2 DEF Resume!Newest, Resume!KindsOK
  <2>9. QED
    BY <2>1, <2>4, <2>5, <2>6, <2>7, <2>8, OfTheHolder
<1>7. QED
  BY <1>1, <1>5, <1>6 DEF Resume!Execute, Resume!Goes

LEMMA ReceiptIsKept ==
  ASSUME NEW n \in ResumeCases, Resume(n)!IInv, NEW c \in Cases[n].Clients, Resume(n)!SaveReceipt(c)
  PROVE  Resume(n)!IInv'
<1>1. /\ Resume(n)!KindsOK /\ Resume(n)!HolderOK(c) /\ call[c].at = "receipt"
      /\ UNCHANGED <<status, attempts, disk, resumeDir, crashes>> /\ Resume(n)!Ends(c)
  BY DEF Resume!SaveReceipt, Resume!At, Resume!IInv, Resume!HoldersOK
<1>2. /\ Resume(n)!Appended(c) /\ lock = c /\ call[c].chosen \in Resume(n)!Checkpoints
      /\ status = "running"
  BY <1>1 DEF Resume!HolderOK, Resume!Appended
<1>3. PICK key \in Cases[n].Keys \cup {Nothing}, k \in Resume(n)!Checkpoints :
        key = call[c].key /\ k = call[c].chosen
  BY <1>1, <1>2, CallMoves
<1>4. CallIs(c, "idle", Nothing, Nothing) /\ "idle" \in Resume(n)!Points
  BY <1>1 DEF CallIs, Resume!Ends, Resume!Idle, Resume!Points
<1>5. call'[c].at = "idle"
  <2>1. Resume(n)!KindsOK
    BY <1>1
  <2>2. QED
    BY <1>4, <2>1, CallBecomes
<1>6. Resume(n)!HolderOK(c)'
  BY <1>5, AtRest
<1> DEFINE row == [key |-> Resume(n)!KeyOf(key, k), checkpoint |-> k]
<1>7. /\ row \in [key : Resume(n)!ResumeKeys, checkpoint : Resume(n)!Checkpoints]
      /\ row.key = Resume(n)!KeyOf(key, k)
  BY <1>3 DEF Resume!KeyOf, Resume!ResumeKeys
<1>8. \/ receipts' = receipts \cup {row} /\ faults' = faults
      \/ receipts' = receipts /\ Resume(n)!Fault
  BY <1>3 DEF Resume!SaveReceipt
<1> HIDE DEF row
<1>9. /\ faults' \in 0..Cases[n].MaxFaults /\ receipts \subseteq receipts'
      /\ receipts' \subseteq [key : Resume(n)!ResumeKeys, checkpoint : Resume(n)!Checkpoints]
      /\ Cases[n].MaxFaults = 0 => row \in receipts'
  <2>1. /\ faults \in 0..Cases[n].MaxFaults
        /\ receipts \subseteq [key : Resume(n)!ResumeKeys, checkpoint : Resume(n)!Checkpoints]
    BY <1>1 DEF Resume!KindsOK
  <2>2. QED
    BY <1>7, <1>8, <2>1, ResumeConstants DEF Resume!Fault
<1>10. ASSUME Resume(n)!KeysOK, Cases[n].MaxFaults = 0
       PROVE  Resume(n)!KeysOK'
  <2>1. Resume(n)!OneAttemptPerKey'
    BY <1>1, <1>10 DEF Resume!KeysOK, Resume!OneAttemptPerKey, Resume!Newest
  <2>2. ASSUME NEW i \in 2..Resume(n)!Newest, attempts[i].key # Nothing
        PROVE  \E receipt \in receipts' : receipt.key = <<"header", attempts[i].key>>
    <3>1. \/ \E receipt \in receipts : receipt.key = <<"header", attempts[i].key>>
          \/ key = attempts[i].key
      BY <1>2, <1>3, <1>10, <2>2, KeysOfOthers
    <3>2. key = attempts[i].key => row.key = <<"header", attempts[i].key>>
      BY <1>7, <2>2 DEF Resume!KeyOf
    <3>3. QED
      BY <1>9, <1>10, <3>1, <3>2
  <2>3. QED
    BY <1>1, <2>1, <2>2 DEF Resume!KeysOK, Resume!Newest
<1>11. /\ Resume(n)!RunningAttemptsKeepTheirCheckpoint' /\ Resume(n)!ResumesFromItsPredecessor'
  BY <1>1
  DEF Resume!IInv, Resume!RunningAttemptsKeepTheirCheckpoint, Resume!ResumesFromItsPredecessor,
      Resume!Newest
<1>12. lock' \in {c, "free"}
  BY <1>1, <1>2 DEF Resume!Ends, Resume!Free
<1>13. /\ Resume(n)!Newest' \in 1..Cases[n].MaxAttempts
       /\ attempts' \in Seq(Resume(n)!AttemptRecords)
  BY <1>1 DEF Resume!Newest, Resume!KindsOK
<1>14. Cases[n].MaxFaults = 0 /\ Cases[n].MaxCrashes = 0 => Resume(n)!KeysOK'
  BY <1>10 DEF Resume!IInv
<1>15. UNCHANGED <<disk, resumeDir, crashes>> /\ status' = "running" /\ lock = c
  BY <1>1, <1>2
<1>16. QED
  BY <1>4, <1>6, <1>9, <1>11, <1>12, <1>13, <1>14, <1>15, OfTheHolder

\* The trainer writes and rotates its checkpoints, or nothing happens.
LEMMA DiskIsKept ==
  ASSUME NEW n \in ResumeCases, Resume(n)!IInv,
         disk' \in [Cases[n].Names -> 0..Cases[n].MaxAttempts],
         UNCHANGED <<status, attempts, resumeDir, receipts, lock, call, faults, crashes>>
  PROVE  Resume(n)!IInv'
<1>1. Resume(n)!KindsOK'
  BY DEF Resume!IInv, Resume!KindsOK, Resume!Newest
<1>2. Resume(n)!HoldersOK'
  BY DEF Resume!IInv, Resume!HoldersOK, Resume!HolderOK, Resume!Staging, Resume!Appended,
         Resume!At, Resume!ResumableStatus, Resume!Attached, Resume!Newest, Resume!KeyOf
<1>3. Resume(n)!KeysOK => Resume(n)!KeysOK'
  BY DEF Resume!KeysOK, Resume!OneAttemptPerKey, Resume!Appended, Resume!Newest
<1>4. QED
  BY <1>1, <1>2, <1>3
  DEF Resume!IInv, Resume!RunningAttemptsKeepTheirCheckpoint, Resume!ResumesFromItsPredecessor,
      Resume!Newest

LEMMA TrainerIsKept ==
  ASSUME NEW n \in ResumeCases, Resume(n)!IInv, NEW name \in Cases[n].Names,
         Resume(n)!Saves(name) \/ Resume(n)!Rotates(name)
  PROVE  Resume(n)!IInv'
<1>1. /\ disk' \in {[disk EXCEPT ![name] = Resume(n)!Newest], [disk EXCEPT ![name] = 0]}
      /\ UNCHANGED <<status, attempts, resumeDir, receipts, lock, call, faults, crashes>>
  BY DEF Resume!Saves, Resume!Rotates
<1>2. /\ Resume(n)!Newest \in 0..Cases[n].MaxAttempts /\ 0 \in 0..Cases[n].MaxAttempts
      /\ disk \in [Cases[n].Names -> 0..Cases[n].MaxAttempts]
  BY ResumeConstants DEF Resume!IInv, Resume!KindsOK
<1>3. disk' \in [Cases[n].Names -> 0..Cases[n].MaxAttempts]
  BY <1>1, <1>2
<1>4. QED
  BY <1>1, <1>3, DiskIsKept

\* The loop observes the newest Attempt while no call has the lock.
LEMMA LoopStep ==
  ASSUME NEW n \in ResumeCases, Resume(n)!IInv, lock = "free",
         UNCHANGED <<disk, resumeDir, receipts, lock, call, faults, crashes>>,
         status' \in {"running", "awaiting_retry", "failed", "cancelled", "cancelling", "completed"},
         NEW top, Resume(n)!Newest = top, NEW new \in Resume(n)!AttemptRecords,
         attempts' = [attempts EXCEPT ![top] = new],
         new.from = attempts[top].from, new.key = attempts[top].key,
         new.state \in {"pending", "running"} => new.state = attempts[top].state,
         Resume(n)!ResumableStatus' => new.state \notin {"pending", "running"}
  PROVE  Resume(n)!IInv'
<1>1. /\ Resume(n)!KindsOK /\ attempts \in Seq(Resume(n)!AttemptRecords) /\ top = Len(attempts)
      /\ top \in 1..top /\ top \in 1..Cases[n].MaxAttempts /\ top \in Nat
  <2>1. Resume(n)!KindsOK
    BY DEF Resume!IInv
  <2>2. attempts \in Seq(Resume(n)!AttemptRecords)
    BY <2>1 DEF Resume!KindsOK
  <2>3. QED
    BY <2>1, <2>2, NewestAttempt, ResumeConstants
<1>2. /\ attempts' \in Seq(Resume(n)!AttemptRecords) /\ Len(attempts') = top
      /\ \A i \in 1..top : attempts'[i] = IF i = top THEN new ELSE attempts[i]
  BY <1>1, ExceptSeq
<1>3. Resume(n)!Newest' = top
  BY <1>2 DEF Resume!Newest
<1>4. /\ \A i \in 2..top : /\ i \in 1..top /\ i - 1 \in 1..top /\ i - 1 # top
                           /\ attempts'[i].from = attempts[i].from
                           /\ attempts'[i].key = attempts[i].key
                           /\ attempts'[i - 1] = attempts[i - 1]
      /\ attempts'[top] = new
  <2>1. \A i \in 2..top : i \in 1..top /\ i - 1 \in 1..top /\ i - 1 # top
    BY <1>1
  <2>2. QED
    BY <1>1, <1>2, <2>1
<1>5. Resume(n)!KindsOK'
  BY <1>1, <1>2, <1>3 DEF Resume!KindsOK
<1>6. Resume(n)!HoldersOK'
  <2>1. ASSUME NEW d \in Cases[n].Clients PROVE Resume(n)!HolderOK(d)'
    <3>1. ~Resume(n)!Staging(d) /\ ~Resume(n)!Appended(d)
      BY OthersWait, ResumeConstants
    <3>2. QED
      BY <3>1 DEF Resume!HolderOK, Resume!Staging, Resume!Appended, Resume!At
  <2>2. QED
    BY <1>3, <1>4, <2>1 DEF Resume!HoldersOK
<1>7. Resume(n)!RunningAttemptsKeepTheirCheckpoint'
  BY <1>3, <1>4 DEF Resume!IInv, Resume!RunningAttemptsKeepTheirCheckpoint
<1>8. Resume(n)!ResumesFromItsPredecessor'
  BY <1>3, <1>4 DEF Resume!IInv, Resume!ResumesFromItsPredecessor
<1>9. Resume(n)!KeysOK => Resume(n)!KeysOK'
  <2>1. Resume(n)!OneAttemptPerKey => Resume(n)!OneAttemptPerKey'
    BY <1>3, <1>4 DEF Resume!OneAttemptPerKey
  <2>2. ASSUME Resume(n)!KeysOK, NEW i \in 2..top, attempts'[i].key # Nothing
        PROVE  \E receipt \in receipts : receipt.key = <<"header", attempts'[i].key>>
    <3>1. i \in 2..Resume(n)!Newest /\ attempts'[i].key = attempts[i].key
      BY <1>4
    <3>2. \A c \in Cases[n].Clients : ~Resume(n)!Appended(c)
      BY OthersWait, ResumeConstants
    <3>3. QED
      BY <2>2, <3>1, <3>2 DEF Resume!KeysOK
  <2>3. QED
    BY <1>3, <2>1, <2>2 DEF Resume!KeysOK
<1>10. QED
  BY <1>5, <1>6, <1>7, <1>8, <1>9 DEF Resume!IInv

LEMMA ObservationIsKept ==
  ASSUME NEW n \in ResumeCases, Resume(n)!IInv,
         Resume(n)!Observe \/ Resume(n)!Conclude \/ Resume(n)!Quarantine
  PROVE  Resume(n)!IInv'
<1>1. PICK top : top = Resume(n)!Newest
  OBVIOUS
<1>2. /\ Resume(n)!KindsOK /\ top \in 1..Len(attempts) /\ attempts \in Seq(Resume(n)!AttemptRecords)
      /\ attempts[top] \in Resume(n)!AttemptRecords
      /\ lock = "free" /\ UNCHANGED <<disk, resumeDir, receipts, lock, call, faults, crashes>>
  <2>1. Resume(n)!KindsOK
    BY DEF Resume!IInv
  <2>2. attempts \in Seq(Resume(n)!AttemptRecords)
    BY <2>1 DEF Resume!KindsOK
  <2>3. lock = "free" /\ UNCHANGED <<disk, resumeDir, receipts, lock, call, faults, crashes>>
    BY DEF Resume!Observe, Resume!Conclude, Resume!Quarantine, Resume!LockFree, Resume!Free
  <2>4. QED
    BY <1>1, <2>1, <2>2, <2>3, NewestAttempt, ResumeConstants
<1>3. CASE Resume(n)!Observe
  <2>1. Resume(n)!Published \subseteq Resume(n)!Checkpoints
    <3>1. SUFFICES ASSUME NEW m \in Cases[n].Names, disk[m] # 0
                   PROVE  <<m, disk[m]>> \in Resume(n)!Checkpoints
      BY DEF Resume!Published
    <3>2. disk[m] \in 1..Cases[n].MaxAttempts
      BY <1>2, <3>1, ResumeConstants DEF Resume!KindsOK
    <3>3. QED
      BY <3>2 DEF Resume!Checkpoints
  <2>2. PICK s \in {"completed", "failed", "lost", "cancelled"},
             files \in SUBSET Resume(n)!Checkpoints :
          /\ attempts' = [attempts EXCEPT ![top].state = s, ![top].artifacts = files]
          /\ status' \in {"completed", "awaiting_retry", "cancelled"}
    BY <1>1, <1>3, <2>1 DEF Resume!Observe, Resume!Ended
  <2> DEFINE new == [attempts[top] EXCEPT !.state = s, !.artifacts = files]
  <2>3. /\ new \in Resume(n)!AttemptRecords /\ new.state = s
        /\ new.from = attempts[top].from /\ new.key = attempts[top].key
    BY <1>2 DEF Resume!AttemptRecords
  <2>4. attempts' = [attempts EXCEPT ![top] = new]
    BY <1>2, <2>2
  <2> HIDE DEF new
  <2>5. PICK e \in Resume(n)!AttemptRecords : e = new
    BY <2>3
  <2>6. QED
    BY <1>1, <1>2, <2>2, <2>3, <2>4, <2>5, LoopStep
<1>4. CASE Resume(n)!Conclude \/ Resume(n)!Quarantine
  <2>1. PICK e \in Resume(n)!AttemptRecords : e = attempts[top]
    BY <1>2
  <2>2. attempts' = [attempts EXCEPT ![top] = e]
    BY <1>2, <1>4, <2>1 DEF Resume!Conclude, Resume!Quarantine
  <2>3. /\ status' \in {"failed", "cancelling"}
        /\ Resume(n)!ResumableStatus' => e.state \notin {"pending", "running"}
    BY <1>1, <1>4, <2>1
    DEF Resume!Conclude, Resume!Quarantine, Resume!IInv, Resume!HoldersOK, Resume!ResumableStatus,
        Resume!NewestIs
  <2>4. QED
    BY <1>1, <1>2, <2>1, <2>2, <2>3, LoopStep
<1>5. QED
  BY <1>3, <1>4

LEMMA KillIsKept ==
  ASSUME NEW n \in ResumeCases, Resume(n)!IInv, Resume(n)!Crash
  PROVE  Resume(n)!IInv'
<1>1. /\ Resume(n)!KindsOK /\ lock' = "free"
      /\ call' = [c \in Cases[n].Clients |-> [at |-> "idle", key |-> Nothing, chosen |-> Nothing]]
      /\ UNCHANGED <<status, attempts, disk, receipts, faults>>
      /\ crashes' \in 0..Cases[n].MaxCrashes /\ Cases[n].MaxCrashes # 0
  <2>1. Resume(n)!KindsOK
    BY DEF Resume!IInv
  <2>2. crashes \in 0..Cases[n].MaxCrashes
    BY <2>1 DEF Resume!KindsOK
  <2>3. QED
    BY <2>1, <2>2, ResumeConstants DEF Resume!Crash, Resume!Free, Resume!Idle
<1>2. \A c \in Cases[n].Clients :
        /\ call'[c].at = "idle" /\ call'[c].key = Nothing
        /\ call'[c] = [at |-> call'[c].at, key |-> call'[c].key, chosen |-> call'[c].chosen]
  BY <1>1
<1>3. resumeDir' = resumeDir \/ Resume(n)!ResumableStatus
  BY DEF Resume!Crash, Resume!IInv, Resume!HoldersOK, Resume!HolderOK, Resume!Staging, Resume!At
<1>4. resumeDir' \in [Resume(n)!Checkpoints -> {"absent", "partial", "complete"}]
  BY <1>1 DEF Resume!Crash, Resume!KindsOK
<1>5. Resume(n)!KindsOK'
  <2>1. call' = [c \in Cases[n].Clients |->
                   [at |-> call'[c].at, key |-> call'[c].key, chosen |-> call'[c].chosen]]
    BY <1>1, <1>2
  <2>2. QED
    BY <1>1, <1>2, <1>4, <2>1 DEF Resume!KindsOK, Resume!Newest, Resume!Points, Resume!Free
<1>6. Resume(n)!HoldersOK'
  <2>1. ASSUME NEW c \in Cases[n].Clients PROVE Resume(n)!HolderOK(c)'
    <3>1. call'[c].at = "idle"
      BY <1>2
    <3>2. QED
      BY <3>1, AtRest
  <2>2. QED
    BY <1>1, <2>1 DEF Resume!HoldersOK, Resume!IInv, Resume!ResumableStatus, Resume!Newest
<1>7. Resume(n)!RunningAttemptsKeepTheirCheckpoint'
  <2>1. CASE resumeDir' = resumeDir
    BY <1>1, <2>1 DEF Resume!IInv, Resume!RunningAttemptsKeepTheirCheckpoint, Resume!Newest
  <2>2. CASE Resume(n)!ResumableStatus
    BY <1>1, <2>2
    DEF Resume!IInv, Resume!HoldersOK, Resume!RunningAttemptsKeepTheirCheckpoint, Resume!Newest
  <2>3. QED
    BY <1>3, <2>1, <2>2
<1>8. QED
  BY <1>1, <1>5, <1>6, <1>7 DEF Resume!IInv, Resume!ResumesFromItsPredecessor, Resume!Newest

LEMMA ResumesBegin == ASSUME NEW n \in ResumeCases, Resume(n)!Init PROVE Resume(n)!IInv
<1> DEFINE first == [state |-> "running", from |-> Nothing, key |-> Nothing, artifacts |-> {}]
<1>1. /\ status = "running" /\ attempts = <<first>> /\ disk = [m \in Cases[n].Names |-> 0]
      /\ resumeDir = [k \in Resume(n)!Checkpoints |-> "absent"] /\ receipts = {} /\ lock = "free"
      /\ call = [c \in Cases[n].Clients |-> [at |-> "idle", key |-> Nothing, chosen |-> Nothing]]
      /\ faults = 0 /\ crashes = 0
  <2>1. [Resume(n)!NewAttempt(Nothing, Nothing) EXCEPT !.state = "running"] = first
    BY DEF Resume!NewAttempt
  <2> HIDE DEF first
  <2>2. QED
    BY <2>1 DEF Resume!Init, Resume!Free, Resume!Idle
<1>2. first \in Resume(n)!AttemptRecords /\ first.from = Nothing /\ first.key = Nothing
  BY DEF Resume!AttemptRecords
<1> HIDE DEF first
<1>3. attempts \in Seq(Resume(n)!AttemptRecords) /\ Len(attempts) = 1 /\ attempts[1] = first
  BY <1>1, <1>2
<1>4. Resume(n)!Newest = 1
  BY <1>3 DEF Resume!Newest
<1>5. \A c \in Cases[n].Clients :
        /\ call[c].at = "idle" /\ call[c].key = Nothing
        /\ call[c] = [at |-> call[c].at, key |-> call[c].key, chosen |-> call[c].chosen]
  BY <1>1
<1>6. Resume(n)!KindsOK
  <2>1. /\ 1 \in 1..Cases[n].MaxAttempts /\ 0 \in 0..Cases[n].MaxAttempts
        /\ faults \in 0..Cases[n].MaxFaults /\ crashes \in 0..Cases[n].MaxCrashes
    BY <1>1, ResumeConstants
  <2>2. call = [c \in Cases[n].Clients |->
                  [at |-> call[c].at, key |-> call[c].key, chosen |-> call[c].chosen]]
    BY <1>1, <1>5
  <2>3. /\ disk \in [Cases[n].Names -> 0..Cases[n].MaxAttempts]
        /\ resumeDir \in [Resume(n)!Checkpoints -> {"absent", "partial", "complete"}]
    BY <1>1, <2>1
  <2>4. \A c \in Cases[n].Clients :
          call[c].at \in Resume(n)!Points /\ call[c].key \in Cases[n].Keys \cup {Nothing}
    BY <1>5 DEF Resume!Points
  <2>5. QED
    BY <1>1, <1>3, <1>4, <2>1, <2>2, <2>3, <2>4 DEF Resume!KindsOK, Resume!Free
<1>7. Resume(n)!HoldersOK
  BY <1>1, <1>5
  DEF Resume!HoldersOK, Resume!HolderOK, Resume!Staging, Resume!Appended, Resume!At,
      Resume!ResumableStatus
<1>8. \A i \in 2..Resume(n)!Newest : FALSE
  BY <1>4
<1>9. QED
  BY <1>2, <1>3, <1>4, <1>6, <1>7, <1>8
  DEF Resume!IInv, Resume!RunningAttemptsKeepTheirCheckpoint, Resume!ResumesFromItsPredecessor,
      Resume!KeysOK, Resume!OneAttemptPerKey

LEMMA ResumesGoOn ==
  ASSUME NEW n \in ResumeCases, Resume(n)!IInv, [Resume(n)!Next]_(Resume(n)!vars)
  PROVE  Resume(n)!IInv'
<1>1. ASSUME NEW c \in Cases[n].Clients, Resume(n)!ClientNext(c) PROVE Resume(n)!IInv'
  BY <1>1, RequestIsKept, RefusalIsKept, SelectionIsKept, RemovalIsKept, StagingIsKept,
     AppendIsKept, ExecutionIsKept, ReceiptIsKept
  DEF Resume!ClientNext
<1>2. CASE UNCHANGED Resume(n)!vars
  <2>1. UNCHANGED <<status, attempts, disk, resumeDir, receipts, lock, call, faults, crashes>>
    BY <1>2 DEF Resume!vars
  <2>2. disk \in [Cases[n].Names -> 0..Cases[n].MaxAttempts]
    BY DEF Resume!IInv, Resume!KindsOK
  <2>3. QED
    BY <2>1, <2>2, DiskIsKept
<1>3. QED
  BY <1>1, <1>2, TrainerIsKept, ObservationIsKept, KillIsKept DEF Resume!Next

LEMMA ResumesHold ==
  ASSUME NEW n \in ResumeCases, Resume(n)!IInv
  PROVE  /\ Resume(n)!TypeOK
         /\ Resume(n)!RunningAttemptsKeepTheirCheckpoint /\ Resume(n)!ResumesFromItsPredecessor
         /\ Cases[n].MaxFaults = 0 /\ Cases[n].MaxCrashes = 0 => Resume(n)!OneAttemptPerKey
<1>1. Resume(n)!KindsOK /\ attempts \in Seq(Resume(n)!AttemptRecords)
  BY DEF Resume!IInv, Resume!KindsOK
<1>2. DOMAIN attempts = 1..Resume(n)!Newest
  BY <1>1, NewestAttempt, LenProperties
<1>3. \A i \in DOMAIN attempts : attempts[i] \in Resume(n)!AttemptRecords
  BY <1>1, <1>2, NewestAttempt
<1>4. Resume(n)!TypeOK
  BY <1>1, <1>3 DEF Resume!KindsOK, Resume!TypeOK, Resume!AttemptRecords
<1>5. QED
  BY <1>4 DEF Resume!IInv, Resume!KeysOK

(* Side by side with the others, for any number of requests, Attempts,     *)
(* checkpoints, failures and kills: a resumed Attempt starts from a        *)
(* checkpoint of the one before it, which stays staged as a whole while    *)
(* the Attempt runs; and without failures and kills an Idempotency-Key     *)
(* appends one Attempt (YieldService.resume, TrainingControlPlane).        *)
THEOREM ResumesStaySound == AllSpec => []ResumesAreSound
<1> DEFINE Known == \A n \in ResumeCases : Is(n) => Resume(n)!IInv
<1>1. AllInit => Known
  BY ResumesBegin DEF AllInit, Is, ResumeCases
<1>2. Known /\ [AllNext]_allvars => Known'
  <2> SUFFICES ASSUME Known, [AllNext]_allvars, NEW n \in ResumeCases, Is(n)'
               PROVE  Resume(n)!IInv'
    OBVIOUS
  <2>1. Is(n) /\ Resume(n)!IInv
    BY DEF AllNext, allvars, Is
  <2>2. [Resume(n)!Next]_(Resume(n)!vars)
    BY <2>1 DEF AllNext, allvars, Is, OfResumes, Shared, Resume!vars, ResumeCases
  <2>3. QED
    BY <2>1, <2>2, ResumesGoOn
<1>3. Known => ResumesAreSound
  BY ResumesHold DEF ResumesAreSound
<1>4. QED
  BY <1>1, <1>2, <1>3, PTL DEF AllSpec

-----------------------------------------------------------------------------
(* The drafts and the rows, whose proofs are in the modules instantiated.  *)

DraftsKnown ==
  /\ Is("import") => Import!IInv
  /\ Is("start") => Start!IInv
  /\ Is("results") => Outcomes!IInv

LEMMA DraftsBegin == AllInit => DraftsKnown
  BY ServiceAssumption, Import!InitIInv, Start!InitIInv, Outcomes!InitIInv
  DEF AllInit, Is, ResumeCases, DraftsKnown

\* Which steps these are.
LEMMA DraftSteps ==
  ASSUME [AllNext]_allvars
  PROVE  /\ UNCHANGED component
         /\ Is("import") => [Import!Next]_Import!vars
         /\ Is("start") => [Start!Next]_Start!vars
         /\ Is("results") => [Outcomes!Next]_Outcomes!vars
<1>1. CASE UNCHANGED allvars
  BY <1>1 DEF allvars, OfDrafts, Shared, Import!vars, Start!vars, Outcomes!vars
<1>2. CASE AllNext
  BY <1>2 DEF AllNext, Is, ResumeCases
<1>3. QED
  BY <1>1, <1>2

LEMMA DraftsGoOn == DraftsKnown /\ [AllNext]_allvars => DraftsKnown'
<1> SUFFICES ASSUME DraftsKnown, [AllNext]_allvars PROVE DraftsKnown'
  OBVIOUS
<1>1. Is("import") => Import!IInv'
  BY DraftSteps, ServiceAssumption, Import!NextKeeps DEF DraftsKnown
<1>2. Is("start") => Start!IInv'
  BY DraftSteps, ServiceAssumption, Start!NextKeeps DEF DraftsKnown
<1>3. Is("results") => Outcomes!IInv'
  BY DraftSteps, ServiceAssumption, Outcomes!NextKeeps DEF DraftsKnown
<1>4. QED
  BY <1>1, <1>2, <1>3, DraftSteps DEF DraftsKnown, Is

(* Side by side with the others, for any scopes, keys, commands, failures  *)
(* and kills: repeats get the same draft, a draft has one run, of the      *)
(* configuration it shows, and its result is told alike to whoever reads   *)
(* it, in its own scope (YieldService, ProductStore).                      *)
THEOREM DraftsStaySound == AllSpec => []DraftsAreSound
<1>1. DraftsKnown => DraftsAreSound
  BY Import!DraftsHold, Start!DraftsHold, Outcomes!DraftsHold DEF DraftsKnown, DraftsAreSound
<1>2. QED
  BY <1>1, DraftsBegin, DraftsGoOn, PTL DEF AllSpec

RowsKnown ==
  /\ Is("events") => Events!IInv
  /\ Is("pages") => Pages!IInv
  /\ Is("diagnostics") => Diagnostics!IInv

LEMMA RowsBegin == AllInit => RowsKnown
  BY ServiceAssumption, Events!InitSound, Pages!InitSound, Diagnostics!InitSound
  DEF AllInit, Is, ResumeCases, RowsKnown

LEMMA RowSteps ==
  ASSUME [AllNext]_allvars
  PROVE  /\ UNCHANGED component
         /\ Is("events") => [Events!Next]_Events!vars
         /\ Is("pages") => [Pages!Next]_Pages!vars
         /\ Is("diagnostics") => [Diagnostics!Next]_Diagnostics!vars
<1>1. CASE UNCHANGED allvars
  BY <1>1 DEF allvars, OfRows, Shared, Events!vars, Pages!vars, Diagnostics!vars
<1>2. CASE AllNext
  BY <1>2 DEF AllNext, Is, ResumeCases
<1>3. QED
  BY <1>1, <1>2

LEMMA RowsGoOn == RowsKnown /\ [AllNext]_allvars => RowsKnown'
<1> SUFFICES ASSUME RowsKnown, [AllNext]_allvars PROVE RowsKnown'
  OBVIOUS
<1>1. Is("events") => Events!IInv'
  BY RowSteps, ServiceAssumption, Events!StepSound DEF RowsKnown
<1>2. Is("pages") => Pages!IInv'
  BY RowSteps, ServiceAssumption, Pages!StepSound DEF RowsKnown
<1>3. Is("diagnostics") => Diagnostics!IInv'
  BY RowSteps, ServiceAssumption, Diagnostics!StepSound DEF RowsKnown
<1>4. QED
  BY <1>1, <1>2, <1>3, RowSteps DEF RowsKnown, Is

(* Side by side with the others, for any Attempts, records, readers and    *)
(* length of a page: the sequences stay dense, a client that pages misses  *)
(* no event, and the loop alone appends each record once and in order      *)
(* (_harvest_events, list_events).                                         *)
THEOREM RowsStaySound == AllSpec => []HarvestedRowsAreSound
<1>1. RowsKnown => HarvestedRowsAreSound
  BY Events!RowsHold, Pages!RowsHold, Diagnostics!RowsHold DEF RowsKnown, HarvestedRowsAreSound
<1>2. QED
  BY <1>1, RowsBegin, RowsGoOn, PTL DEF AllSpec

(* No step of the service takes back the run of a draft or that it is to   *)
(* be cancelled, or closes a stream before its last event (YieldService,   *)
(* list_events).                                                           *)
THEOREM NothingTakesBack == AllSpec => NothingIsTakenBack
<1> DEFINE Keeps == /\ Is("start") => Start!DraftsAreNotRolledBack
                    /\ Is("results") => Outcomes!DraftsAreNotRolledBack
                    /\ Is("pages") => Pages!DoneMeansAllRead
<1>1. ASSUME DraftsKnown, RowsKnown, [AllNext]_allvars
      PROVE  Keeps
    <2>1. Is("start") => Start!DraftsAreNotRolledBack
      BY <1>1, DraftSteps, ServiceAssumption, Start!DraftsGrow DEF DraftsKnown
    <2>2. Is("results") => Outcomes!DraftsAreNotRolledBack
      BY <1>1, DraftSteps, ServiceAssumption, Outcomes!DraftsGrow DEF DraftsKnown
    <2>3. Is("pages") => Pages!DoneMeansAllRead
      BY <1>1, RowSteps, ServiceAssumption, Pages!ClosedWhenAllRead DEF RowsKnown
    <2>4. QED
      BY <2>1, <2>2, <2>3
<1> HIDE DEF Keeps
<1>2. AllSpec => [](DraftsKnown /\ RowsKnown)
  BY DraftsBegin, DraftsGoOn, RowsBegin, RowsGoOn, PTL DEF AllSpec
<1>3. AllSpec => [][Keeps]_allvars
  BY <1>1, <1>2, PTL DEF AllSpec
<1>4. QED
  BY <1>3 DEF Keeps, NothingIsTakenBack

===============================================================================
