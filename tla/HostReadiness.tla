------------------------------ MODULE HostReadiness ------------------------------
(***************************************************************************)
(* Whether the host can execute a training: the trainer environment, which *)
(* is probed under a lock and remembered for a while, and the snapshot of  *)
(* the Kernel's capabilities.                                              *)
(*                                                                         *)
(* The health route takes what is remembered; the start route and the      *)
(* executor's admission probe for themselves.  Requests run in threads of  *)
(* a pool, and the environment and the Kernel's inventory change at any    *)
(* time.  A probe that times out has found that the environment does not   *)
(* agree with its manifest.                                                *)
(***************************************************************************)
EXTENDS Integers, FiniteSets

CONSTANTS
  Threads,      \* threads
  Kinds,        \* what they do: "health", "start", "admit"
  Nobody,       \* no thread
  AllowShared,  \* allow_wsl_shared_device
  Lifetime,     \* how long a result is remembered
  ProbeTime,    \* how long a probe takes at most
  MaxClock,     \* bound
  MaxCalls,     \* bound
  MaxChanges    \* bound: changes of the environment and of the inventory

ASSUME ReadinessAssumption ==
  /\ Kinds \subseteq {"health", "start", "admit"} /\ Nobody \notin Threads
  /\ AllowShared \in BOOLEAN /\ Lifetime \in Nat /\ ProbeTime \in Nat
  /\ MaxClock \in Nat /\ MaxCalls \in Nat /\ MaxChanges \in Nat

VARIABLES
  clock,
  trainer,   \* does the trainer environment agree with its manifest?
  inventory, \* serial number, what is missing, is the binding shared?
  changed,   \* when trainer or inventory changed last
  probe,     \* the remembered result, until when, and when it was found
  holder,    \* who holds the probe's lock
  calls,     \* the calls
  published, \* serial number of the snapshot that the runtime has
  made, changes

vars == <<clock, trainer, inventory, changed, probe, holder, calls, published, made, changes>>

Lacks == {"adapter", "gpu", "isolation"}

Points == {"idle", "check", "wait", "probe", "remember", "found", "judge", "accept", "answered"}

Idle == [kind |-> "health", at |-> "idle", began |-> 0, since |-> 0, found |-> FALSE, foundAt |-> 0,
         snapshot |-> [serial |-> 0, lacks |-> {}, shared |-> FALSE], used |-> 0, answer |-> "none"]

Init ==
  /\ clock = 0 /\ trainer \in BOOLEAN
  /\ inventory \in [serial : {0}, lacks : {{}}, shared : BOOLEAN]
  /\ changed = 0
  /\ probe = [result |-> FALSE, expires |-> 0, foundAt |-> 0]
  /\ holder = Nobody /\ calls = [c \in Threads |-> Idle]
  /\ published = 0 /\ made = 0 /\ changes = 0

At(c, point) == calls[c].at = point
Goes(c, point) == calls' = [calls EXCEPT ![c].at = point]
Answers(c, answer) == calls' = [calls EXCEPT ![c].at = "answered", ![c].answer = answer]

Forced(c) == calls[c].kind # "health"

\* block_reasons, without the trainer: a shared binding is never isolated.
Blockers(snapshot) ==
  snapshot.lacks \cup IF snapshot.shared THEN {"isolation"} ELSE {}

-----------------------------------------------------------------------------
(* trainer_runtime_available.                                              *)

Call(c, kind) ==
  /\ At(c, "idle") /\ made < MaxCalls /\ made' = made + 1
  /\ calls' = [calls EXCEPT ![c] = [Idle EXCEPT !.kind = kind, !.at = "check", !.began = clock]]
  /\ UNCHANGED <<clock, trainer, inventory, changed, probe, holder, published, changes>>

\* Mutant of Remembered: the lifetime is not looked at.
RememberedForever(c) == ~Forced(c) /\ probe.expires > 0

Remembered(c) == ~Forced(c) /\ clock < probe.expires

Takes(c) ==
  calls' = [calls EXCEPT ![c].found = probe.result, ![c].foundAt = probe.foundAt, ![c].at = "found"]

Check(c) ==
  /\ At(c, "check")
  /\ IF Remembered(c) THEN Takes(c) ELSE Goes(c, "wait")
  /\ UNCHANGED <<clock, trainer, inventory, changed, probe, holder, published, made, changes>>

\* Mutant of Again: a forced call takes what another has found while it waited.
AgainUnlessFound(c) == ~(clock < probe.expires)

\* Looked at again under the lock.
Again(c) == ~Remembered(c)

Acquire(c) ==
  /\ At(c, "wait") /\ holder = Nobody
  /\ IF Again(c)
     THEN holder' = c /\ calls' = [calls EXCEPT ![c].at = "probe", ![c].since = clock]
     ELSE Takes(c) /\ UNCHANGED holder
  /\ UNCHANGED <<clock, trainer, inventory, changed, probe, published, made, changes>>

Probe(c) ==
  /\ At(c, "probe")
  /\ calls' = [calls EXCEPT ![c].found = trainer, ![c].foundAt = clock, ![c].at = "remember"]
  /\ UNCHANGED <<clock, trainer, inventory, changed, probe, holder, published, made, changes>>

\* The lifetime begins when the probe has ended.
Remember(c) ==
  /\ At(c, "remember") /\ holder' = Nobody
  /\ calls' = [calls EXCEPT ![c].at = "found", ![c].since = 0]
  /\ probe' = [result |-> calls[c].found, expires |-> clock + Lifetime, foundAt |-> calls[c].foundAt]
  /\ UNCHANGED <<clock, trainer, inventory, changed, published, made, changes>>

-----------------------------------------------------------------------------
(* What is answered.                                                       *)

\* capabilities; only the health route asks when the trainer is not available.
Snapshot(c) ==
  /\ At(c, "found")
  /\ IF calls[c].found \/ calls[c].kind = "health"
     THEN calls' = [calls EXCEPT ![c].snapshot = inventory, ![c].at = "judge"]
     ELSE Answers(c, "refused")
  /\ UNCHANGED <<clock, trainer, inventory, changed, probe, holder, published, made, changes>>

\* The Kernel does not answer.
Unreachable(c) ==
  /\ At(c, "found") /\ changes < MaxChanges /\ changes' = changes + 1
  /\ Answers(c, "refused") /\ changed' = clock
  /\ UNCHANGED <<clock, trainer, inventory, probe, holder, published, made>>

Health(c) ==
  /\ At(c, "judge") /\ calls[c].kind = "health"
  /\ Answers(c, IF calls[c].found /\ Blockers(calls[c].snapshot) = {} THEN "ready" ELSE "refused")
  /\ UNCHANGED <<clock, trainer, inventory, changed, probe, holder, published, made, changes>>

\* start_run_resource: the runtime is given the snapshot.
Publish(c) ==
  /\ At(c, "judge") /\ calls[c].kind = "start"
  /\ IF Blockers(calls[c].snapshot) = {}
     THEN Goes(c, "accept") /\ published' = calls[c].snapshot.serial
     ELSE Answers(c, "refused") /\ UNCHANGED published
  /\ UNCHANGED <<clock, trainer, inventory, changed, probe, holder, made, changes>>

\* service.start resolves the environment with the facts that the runtime has.
Accept(c) ==
  /\ At(c, "accept")
  /\ calls' = [calls EXCEPT ![c].used = published, ![c].at = "answered", ![c].answer = "accepted"]
  /\ UNCHANGED <<clock, trainer, inventory, changed, probe, holder, published, made, changes>>

\* _admit.
Admit(c) ==
  /\ At(c, "judge") /\ calls[c].kind = "admit"
  /\ Answers(c, IF calls[c].snapshot.shared /\ ~AllowShared THEN "refused" ELSE "admitted")
  /\ UNCHANGED <<clock, trainer, inventory, changed, probe, holder, published, made, changes>>

Return(c) ==
  /\ At(c, "answered") /\ calls' = [calls EXCEPT ![c] = Idle]
  /\ UNCHANGED <<clock, trainer, inventory, changed, probe, holder, published, made, changes>>

Change ==
  /\ changes < MaxChanges /\ changes' = changes + 1 /\ changed' = clock
  /\ \/ trainer' = ~trainer /\ UNCHANGED inventory
     \/ /\ \E l \in {{}, {"isolation"}} : inventory' = [inventory EXCEPT !.serial = @ + 1, !.lacks = l]
        /\ UNCHANGED trainer
  /\ UNCHANGED <<clock, probe, holder, calls, published, made>>

\* A probe ends in its time.
Tick ==
  /\ clock < MaxClock /\ clock' = clock + 1
  /\ holder # Nobody => clock < calls[holder].since + ProbeTime
  /\ UNCHANGED <<trainer, inventory, changed, probe, holder, calls, published, made, changes>>

Steps(c) ==
  \/ Check(c) \/ Acquire(c) \/ Probe(c) \/ Remember(c) \/ Snapshot(c)
  \/ Health(c) \/ Publish(c) \/ Accept(c) \/ Admit(c)

Next ==
  \/ \E c \in Threads : Steps(c) \/ Return(c) \/ Unreachable(c)
  \/ \E c \in Threads, kind \in Kinds : Call(c, kind)
  \/ Change \/ Tick

Spec == Init /\ [][Next]_vars

-----------------------------------------------------------------------------
(* Type correctness of the calls and of what is remembered.                *)
TypeOK ==
  /\ clock \in 0..MaxClock /\ changed \in 0..clock
  /\ inventory.lacks \subseteq Lacks
  /\ holder \in Threads \cup {Nobody}
  /\ \A c \in Threads : At(c, "probe") \/ At(c, "remember") => holder = c
  /\ probe.expires \in 0..(MaxClock + Lifetime) /\ probe.foundAt \in 0..clock

\* A call that probes for itself looked at the environment after it began, and
\* goes on only if the trainer was found.
Sound(call) ==
  /\ DOMAIN call = DOMAIN Idle /\ call.at \in Points
  /\ call.kind \in {"health", "start", "admit"}
  /\ call.began \in 0..clock /\ call.foundAt \in 0..clock
  /\ call.snapshot.lacks \subseteq Lacks
  /\ call.kind # "health" =>
       /\ call.at \in {"remember", "found", "judge", "accept"} => call.foundAt >= call.began
       /\ call.at \in {"judge", "accept"} => call.found
  /\ call.at = "accept" => call.kind = "start"
  /\ call.answer \in {"accepted", "admitted"} => call.found /\ call.foundAt >= call.began
  /\ call.at # "answered" => call.answer = "none"

\* The inductive invariant.
IInv ==
  /\ clock \in 0..MaxClock /\ changed \in 0..clock /\ inventory.lacks \subseteq Lacks
  /\ DOMAIN inventory = {"serial", "lacks", "shared"}
  /\ holder \in Threads \cup {Nobody}
  /\ probe.expires \in 0..(MaxClock + Lifetime) /\ probe.foundAt \in 0..clock
  /\ DOMAIN calls = Threads
  /\ \A c \in Threads : Sound(calls[c]) /\ (At(c, "probe") \/ At(c, "remember") => holder = c)

(* Once nothing has changed for as long as a probe takes and its result is *)
(* remembered, the health route says what is so, whoever else has probed.  *)
StableHostsAreReported ==
  \A c \in Threads :
    At(c, "answered") /\ calls[c].kind = "health" /\ calls[c].began >= changed + Lifetime + ProbeTime =>
      (calls[c].answer = "ready" <=> trainer /\ Blockers(inventory) = {})

(* The reports of a host are typed, and right once it has been stable.     *)
ReportsAreStable == TypeOK /\ StableHostsAreReported

(* A start is accepted, and a launch admitted, on a probe that looked at   *)
(* the environment after the call had begun.                               *)
AcceptedOnAFreshProbe ==
  \A c \in Threads :
    calls[c].answer \in {"accepted", "admitted"} => calls[c].found /\ calls[c].foundAt >= calls[c].began

-----------------------------------------------------------------------------
(* Why a stable host is reported: what is remembered is forgotten in time. *)

\* What a call has found and read was so when the host last changed, or the call
\* began before; a probe under way is in its time; a health report rests on a probe
\* that is not older than a probe and its lifetime.
InTime(call) ==
  /\ call.foundAt > changed => call.found = trainer
  /\ call.at \in {"probe", "remember"} => call.since \in 0..clock /\ clock <= call.since + ProbeTime
  /\ call.at = "remember" => call.foundAt >= call.since /\ call.foundAt >= call.began
  /\ call.kind = "health" =>
       /\ call.at \in {"found", "judge", "answered"} =>
            call.foundAt + Lifetime + ProbeTime > call.began
       /\ call.at \in {"judge", "answered"} /\ call.began > changed => call.snapshot = inventory
       /\ call.at = "answered" /\ call.began > changed =>
            (call.answer = "ready" <=> call.found /\ Blockers(call.snapshot) = {})

\* The inductive invariant behind StableHostsAreReported, of a host where a probe or
\* its lifetime takes time.
Steady ==
  Lifetime + ProbeTime > 0 =>
    /\ probe.foundAt > changed => probe.result = trainer
    /\ probe.expires <= probe.foundAt + Lifetime + ProbeTime
    /\ \A c \in Threads : InTime(calls[c])

=============================================================================
