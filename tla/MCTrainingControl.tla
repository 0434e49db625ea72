-------------------------- MODULE MCTrainingControl --------------------------
(* TrainingControl with the compiled three-step plan, or without its dry run. *)
EXTENDS TrainingControl

\* RetryPolicy(max_attempts = 1), and max_product_attempts for real training.
MCRetried == [s \in 1..StepCount |-> IF s = StepCount THEN 2 ELSE 1]

=============================================================================
