----------------------------- MODULE AdapterResult -----------------------------
(***************************************************************************)
(* What becomes of the output of an execution that has exited: the outputs *)
(* of its layout and its checkpoints are published, then the adapter, once *)
(* its configuration and its weights have been verified, and the Attempt   *)
(* is saved with what was published (artifacts.py, product_results.py and  *)
(* the end of TrainingRuntime.poll).  The artifact provider may fail, and  *)
(* the process may be killed at any step and start over.                   *)
(*                                                                         *)
(* Weights are the header of the safetensors file, a range for each of its *)
(* tensors, and the size of the payload.  A member that is missing, empty  *)
(* or a link, and an unreadable header, are a configuration that is not    *)
(* LORA.                                                                   *)
(***************************************************************************)
EXTENDS Integers, FiniteSets

CONSTANTS
  Tensors,      \* names of tensors
  MaxPayload,   \* bound: bytes of the payload
  MaxOutages,   \* bound: failures of the provider
  MaxCrashes    \* bound: kills of the Product process

ResultAssumption ==
  IsFiniteSet(Tensors) /\ MaxPayload \in Nat /\ MaxOutages \in Nat /\ MaxCrashes \in Nat

VARIABLES
  output,    \* exit code, directories with content, configuration, weights
  poll,      \* where the poll is, and the artifacts of the session's result
  attempt,   \* what is saved with the Attempt
  outages, crashes

vars == <<output, poll, attempt, outages, crashes>>

Offsets == -1..(MaxPayload + 1)

Weights ==
  [ranges : UNION {[names -> [from : Offsets, to : Offsets]] : names \in SUBSET Tensors},
   payload : 0..MaxPayload]

Configurations ==
  [lora : BOOLEAN, base : {"staged", "repository", "other"}, revision : {"none", "selected", "other"}]

Good == [lora |-> TRUE, base |-> "staged", revision |-> "none"]

NoArtifacts == [model |-> "none", checkpoint |-> "none"]

-----------------------------------------------------------------------------
(* _verify_weights.                                                        *)

Inside(range, payload) == 0 <= range.from /\ range.from < range.to /\ range.to <= payload

Before(left, right) == left.from < right.from \/ (left.from = right.from /\ left.to < right.to)

\* The names in an order of their ranges: there is one, and names with the same
\* range may be either way.
Sorted(ranges) ==
  {order \in [1..Cardinality(DOMAIN ranges) -> DOMAIN ranges] :
     /\ \A n \in DOMAIN ranges : \E i \in DOMAIN order : order[i] = n
     /\ \A i, j \in DOMAIN order : i < j => ~Before(ranges[order[j]], ranges[order[i]])}

Adjacent(left, right) == left.to = right.from

Verified(weights) ==
  LET ranges == weights.ranges
      last == Cardinality(DOMAIN ranges)
  IN /\ \A n \in DOMAIN ranges : Inside(ranges[n], weights.payload)
     /\ last > 0
     /\ \E order \in Sorted(ranges) :
          /\ ranges[order[1]].from = 0 /\ ranges[order[last]].to = weights.payload
          /\ \A i \in 1..(last - 1) : Adjacent(ranges[order[i]], ranges[order[i + 1]])

\* Mutant of Publishable: the weights are taken as they are.
PublishableUnread(config, weights) == config.lora /\ config.base # "other" /\ config.revision # "other"

\* publish_adapter, before it stages a copy.
Publishable(config, weights) ==
  /\ config.lora /\ config.base \in {"staged", "repository"}
  /\ config.revision \in {"none", "selected"}
  /\ Verified(weights)

-----------------------------------------------------------------------------

Init ==
  /\ \E weights \in Weights : \E config \in {Good} \cup {k \in Configurations : Verified(weights)} :
       output \in [exit : 0..1, model : BOOLEAN, checkpoint : BOOLEAN,
                   config : {config}, weights : {weights}]
  /\ poll = [at |-> "exited", artifacts |-> NoArtifacts, status |-> "RUNNING"]
  /\ attempt = [artifacts |-> NoArtifacts, status |-> "RUNNING"]
  /\ outages = 0 /\ crashes = 0

At(point) == poll.at = point

Ends(artifacts, status) == poll' = [at |-> "ended", artifacts |-> artifacts, status |-> status]

\* output_candidates: what has content; the checkpoints of the trainer too.
Candidates ==
  [model |-> IF output.model THEN "directory" ELSE "none",
   checkpoint |-> IF output.checkpoint THEN "directory" ELSE "none"]

PublishOutputs ==
  /\ At("exited")
  /\ IF output.exit = 0 THEN poll' = [poll EXCEPT !.at = "adapter", !.artifacts = Candidates]
                        ELSE Ends(Candidates, "FAILED")
  /\ UNCHANGED <<output, attempt, outages, crashes>>

PublishAdapter ==
  /\ At("adapter")
  /\ IF Publishable(output.config, output.weights)
     THEN Ends([poll.artifacts EXCEPT !.model = "adapter"], "COMPLETED")
     ELSE Ends(poll.artifacts, "FAILED")
  /\ UNCHANGED <<output, attempt, outages, crashes>>

\* ArtifactError or OSError: nothing is tried again.
ProviderFails ==
  /\ outages < MaxOutages /\ outages' = outages + 1
  /\ At("exited") \/ At("adapter")
  /\ Ends(poll.artifacts, "FAILED")
  /\ UNCHANGED <<output, attempt, crashes>>

\* _observe_training_session saves what the session's result names.
Observe ==
  /\ At("ended") /\ attempt.status = "RUNNING"
  /\ attempt' = [artifacts |-> poll.artifacts, status |-> poll.status]
  /\ UNCHANGED <<output, poll, outages, crashes>>

\* The execution is adopted and polled again.
Crash ==
  /\ crashes < MaxCrashes /\ crashes' = crashes + 1 /\ attempt.status = "RUNNING"
  /\ poll' = [at |-> "exited", artifacts |-> NoArtifacts, status |-> "RUNNING"]
  /\ UNCHANGED <<output, attempt, outages>>

Next == PublishOutputs \/ PublishAdapter \/ ProviderFails \/ Observe \/ Crash

Spec == Init /\ [][Next]_vars

-----------------------------------------------------------------------------
(* Type correctness of the poll. *)
TypeOK ==
  /\ poll.at \in {"exited", "adapter", "ended"}
  /\ At("adapter") => output.exit = 0 /\ poll.status = "RUNNING"
  /\ \A name \in DOMAIN attempt.artifacts : attempt.artifacts[name] \in {"none", "directory", "adapter"}

\* Each byte of the payload belongs to exactly one tensor, and none is empty.
Tiled(weights) ==
  /\ weights.payload > 0
  /\ \A n \in DOMAIN weights.ranges : Inside(weights.ranges[n], weights.payload)
  /\ \A byte \in 0..(weights.payload - 1) :
       Cardinality({n \in DOMAIN weights.ranges :
                      weights.ranges[n].from <= byte /\ byte < weights.ranges[n].to}) = 1

(* The check of the sorted ranges accepts a file just when each byte of    *)
(* its payload is in exactly one tensor.                                   *)
VerifiedMeansTiled == Verified(output.weights) <=> Tiled(output.weights)

(* An Attempt is saved as completed only with the adapter, of an execution *)
(* that succeeded, trained on the selected base, with whole weights.       *)
CompletedIsAnAdapter ==
  attempt.status = "COMPLETED" =>
    /\ attempt.artifacts.model = "adapter" /\ output.exit = 0
    /\ output.config.lora /\ output.config.base # "other" /\ output.config.revision # "other"
    /\ Tiled(output.weights)

Artifacts ==
  [model : {"none", "directory", "adapter"}, checkpoint : {"none", "directory", "adapter"}]

Earned(artifacts) ==
  artifacts.model = "adapter" /\ output.exit = 0 /\ Publishable(output.config, output.weights)

\* The inductive invariant: what is completed has been earned.
IInv ==
  /\ output.weights \in Weights
  /\ poll \in [at : {"exited", "adapter", "ended"}, artifacts : Artifacts,
               status : {"RUNNING", "COMPLETED", "FAILED"}]
  /\ attempt \in [artifacts : Artifacts, status : {"RUNNING", "COMPLETED", "FAILED"}]
  /\ At("adapter") => output.exit = 0
  /\ ~At("ended") => poll.status = "RUNNING"
  /\ poll.status = "COMPLETED" => Earned(poll.artifacts)
  /\ attempt.status = "COMPLETED" => Earned(attempt.artifacts)

===============================================================================
