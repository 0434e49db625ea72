-------------------------- MODULE MCProductLifecycle --------------------------
(* ProductLifecycle with a two-step plan for TLC. *)
EXTENDS ProductLifecycle

CONSTANTS c1, c2

MCCallers == {c1, c2}
MCMaxAttempts == [s \in 1..StepCount |-> IF s = StepCount THEN 2 ELSE 1]

=============================================================================
