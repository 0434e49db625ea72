--------------------------- MODULE CheckpointDirectory ---------------------------
(***************************************************************************)
(* The checkpoint directories of an output directory, as CheckpointManager *)
(* saves, validates, finds and removes them.                               *)
(*                                                                         *)
(* A save makes the directory, has the trainer write the weights, writes   *)
(* the metadata file and removes the oldest of the directories that have   *)
(* metadata.  None of these is atomic, a removal can stop half way, and    *)
(* the process can be killed between any two.  A step may be saved again,  *)
(* over what its directory has, and steps come in any order: a training    *)
(* that resumes from an earlier checkpoint writes into the same directory. *)
(* A trainer may also write directories of its own, which get no metadata. *)
(***************************************************************************)
EXTENDS Integers, FiniteSets, FiniteSetsExt

CONSTANTS
  MaxStep,     \* bound: training steps that are saved
  Limit,       \* save_total_limit
  MaxSaves,    \* bound: saves
  MaxFaults,   \* bound: saves and removals that fail
  MaxCrashes   \* bound: kills

CheckpointAssumption ==
  /\ MaxStep \in Nat \ {0} /\ Limit \in Nat \ {0} /\ MaxSaves \in Nat
  /\ MaxFaults \in Nat /\ MaxCrashes \in Nat

VARIABLES
  exists,  \* the steps that have a directory
  weights, \* the save that wrote the weights of a step, Nothing, or Torn
  meta,    \* the save that wrote its metadata, Nothing, or Torn
  overwritten, \* history: steps saved over readable metadata, which is not renewed yet
  saves,   \* saves begun
  kept,    \* has a save come to its end?
  save,    \* where the save is, its step, and what is still to be removed
  faults, crashes

vars == <<exists, weights, meta, overwritten, saves, kept, save, faults, crashes>>

Steps == 1..MaxStep
Nothing == 0
Torn == -1

Idle == [at |-> "idle", step |-> 0, remove |-> {}]

Init ==
  /\ exists = {}
  /\ weights = [s \in Steps |-> Nothing] /\ meta = [s \in Steps |-> Nothing]
  /\ overwritten = {} /\ saves = 0 /\ kept = FALSE /\ save = Idle
  /\ faults = 0 /\ crashes = 0

At(point) == save.at = point
Goes(point) == save' = [save EXCEPT !.at = point]
Fault == faults < MaxFaults /\ faults' = faults + 1

-----------------------------------------------------------------------------
(* What is read.                                                           *)

\* _list_checkpoints: the directories whose metadata can be read.
Listed == {s \in exists : meta[s] > 0}

\* find_latest_checkpoint; 0 when there is none.
LatestCheckpoint == IF Listed = {} THEN 0 ELSE Max(Listed)

\* What a trainer can resume from: weights and metadata of one save.
Whole(s) == s \in exists /\ weights[s] > 0 /\ weights[s] = meta[s]

-----------------------------------------------------------------------------
(* save_checkpoint.                                                        *)

\* The files of a step are written, which may have some.
Begins(s) ==
  /\ At("idle") /\ saves < MaxSaves /\ saves' = saves + 1
  /\ exists' = exists \cup {s}
  /\ overwritten' = overwritten \cup ({s} \cap Listed)

\* mkdir with exist_ok; steps are not compared.
MakeDirectory(s) ==
  /\ Begins(s)
  /\ save' = [at |-> "weights", step |-> s, remove |-> {}]
  /\ UNCHANGED <<weights, meta, kept, faults, crashes>>

\* Mutant of Order: the metadata is written first.
MetadataFirst == [first |-> "meta", second |-> "weights"]

\* save_model, then the metadata.
Order == [first |-> "weights", second |-> "meta"]

Writes(file) ==
  /\ weights' = IF file = "weights" THEN [weights EXCEPT ![save.step] = saves] ELSE weights
  /\ meta' = IF file = "meta" THEN [meta EXCEPT ![save.step] = saves] ELSE meta
  /\ overwritten' = IF file = "meta" THEN overwritten \ {save.step} ELSE overwritten

Tears(file) ==
  /\ weights' = IF file = "weights" THEN [weights EXCEPT ![save.step] = Torn] ELSE weights
  /\ meta' = IF file = "meta" THEN [meta EXCEPT ![save.step] = Torn] ELSE meta
  /\ UNCHANGED overwritten

\* A failure is raised; the directory stays as it is.
Write(file, from, to) ==
  /\ At(from)
  /\ \/ Writes(file) /\ Goes(to) /\ UNCHANGED faults
     \/ Fault /\ Tears(file) /\ save' = Idle
  /\ UNCHANGED <<exists, saves, kept, crashes>>

SaveModel == Write(Order.first, "weights", "meta")
WriteMetadata == Write(Order.second, "meta", "select")

Excess == Cardinality(Listed) - Limit

\* The lowest steps, as many as there are too many.
Oldest == {S \in SUBSET Listed :
             Cardinality(S) = Excess /\ \A s \in S, t \in Listed \ S : s < t}

Select ==
  /\ At("select")
  /\ IF Excess <= 0 THEN save' = [save EXCEPT !.at = "done"]
     ELSE \E S \in Oldest : save' = [save EXCEPT !.at = "remove", !.remove = S]
  /\ UNCHANGED <<exists, weights, meta, overwritten, saves, kept, faults, crashes>>

\* rmtree: the directory is gone, or what was left of it when it failed; the
\* error is logged and the next one is removed.
Remove(s) ==
  /\ At("remove") /\ s \in save.remove
  /\ save' = [save EXCEPT !.remove = @ \ {s}]
  /\ \/ /\ exists' = exists \ {s} /\ overwritten' = overwritten \ {s} /\ UNCHANGED faults
        /\ weights' = [weights EXCEPT ![s] = Nothing] /\ meta' = [meta EXCEPT ![s] = Nothing]
     \/ /\ Fault /\ UNCHANGED <<exists, overwritten>>
        /\ \/ weights' = [weights EXCEPT ![s] = Nothing] /\ UNCHANGED meta
           \/ meta' = [meta EXCEPT ![s] = Nothing] /\ UNCHANGED weights
           \/ UNCHANGED <<weights, meta>>
  /\ UNCHANGED <<saves, kept, crashes>>

Return ==
  /\ At("done") \/ (At("remove") /\ save.remove = {})
  /\ save' = Idle /\ kept' = TRUE
  /\ UNCHANGED <<exists, weights, meta, overwritten, saves, faults, crashes>>

\* The trainer's own checkpoint directory, whole or not.
TrainerSaves(s) ==
  /\ Begins(s)
  /\ \E w \in {saves + 1, Torn} : weights' = [weights EXCEPT ![s] = w]
  /\ UNCHANGED <<meta, kept, save, faults, crashes>>

\* A kill, in the middle of a file or of a removal.
Crash ==
  /\ ~At("idle") /\ crashes < MaxCrashes
  /\ crashes' = crashes + 1
  /\ \/ UNCHANGED <<weights, meta, overwritten>>
     \/ At("weights") /\ Tears(Order.first)
     \/ At("meta") /\ Tears(Order.second)
     \/ \E s \in save.remove : At("remove") /\ UNCHANGED overwritten /\
          \/ weights' = [weights EXCEPT ![s] = Nothing] /\ UNCHANGED meta
          \/ meta' = [meta EXCEPT ![s] = Nothing] /\ UNCHANGED weights
  /\ save' = Idle
  /\ UNCHANGED <<exists, saves, kept, faults>>

Next ==
  \/ \E s \in Steps : MakeDirectory(s) \/ Remove(s) \/ TrainerSaves(s)
  \/ SaveModel \/ WriteMetadata \/ Select \/ Return
  \/ Crash

Spec == Init /\ [][Next]_vars

-----------------------------------------------------------------------------
(* Type correctness of the directories and of the save.                    *)
TypeOK ==
  /\ exists \subseteq Steps /\ overwritten \subseteq exists
  /\ \A s \in Steps : {weights[s], meta[s]} \subseteq {Torn, Nothing} \cup 1..saves
  /\ \A s \in Steps \ exists : weights[s] = Nothing /\ meta[s] = Nothing
  /\ save.step \in 0..MaxStep /\ save.remove \subseteq exists

(* The checkpoint that find_latest_checkpoint names can be resumed from,   *)
(* although saves and removals are killed at any point and steps come in   *)
(* any order: the metadata comes last and the lowest steps go first.  The  *)
(* exception is a step that was saved over and has no new metadata yet:    *)
(* its weights may be torn under the old one, or its metadata gone.        *)
LatestIsWhole ==
  LatestCheckpoint # 0 =>
    Whole(LatestCheckpoint) \/ \E s \in overwritten : s >= LatestCheckpoint

(* Once a save has ended there is a checkpoint to resume from, unless a    *)
(* step was saved over.                                                    *)
ProgressIsNotLost == kept => LatestCheckpoint # 0 \/ overwritten # {}

(* The limit holds after every save whose removals succeeded.              *)
LimitIsKept == At("done") \/ (At("remove") /\ save.remove = {} /\ faults = 0) => Cardinality(Listed) <= Limit

-----------------------------------------------------------------------------
(* The inductive invariant.                                                *)

TypeInv ==
  /\ exists \subseteq Steps /\ saves \in Nat /\ faults \in Nat /\ kept \in BOOLEAN
  /\ overwritten \subseteq exists
  /\ weights \in [Steps -> {Torn, Nothing} \cup 1..saves]
  /\ meta \in [Steps -> {Torn, Nothing} \cup 1..saves]
  /\ \A s \in Steps \ exists : weights[s] = Nothing /\ meta[s] = Nothing
  /\ save \in [at : {"idle", "weights", "meta", "select", "remove", "done"},
               step : 0..MaxStep, remove : SUBSET exists]

\* A save that is under way has its step marked while old metadata is there, and
\* never removes the greatest of the listed steps.
SaveInv ==
  /\ At("weights") \/ At("meta") =>
       /\ save.step \in exists /\ saves > 0
       /\ save.step \in Listed => save.step \in overwritten
  /\ At("meta") => weights[save.step] = saves
  /\ At("select") \/ At("done") => Listed # {}
  /\ At("remove") => \E s \in Listed : \A t \in save.remove : t < s

\* The greatest listed step is whole, or not above a marked one.
NewestInv ==
  /\ \A s \in Listed : (\A t \in Listed : t <= s) =>
       weights[s] = meta[s] \/ \E t \in overwritten : t >= s
  /\ kept => Listed # {} \/ overwritten # {}

LimitInv ==
  /\ At("done") => Cardinality(Listed) <= Limit
  /\ At("remove") /\ faults = 0 => Cardinality(Listed \ save.remove) <= Limit

IInv == TypeInv /\ SaveInv /\ NewestInv /\ LimitInv

=============================================================================
