----------------------------- MODULE RunContract -----------------------------
(***************************************************************************)
(* What a ProductRun promises to those who submit it, with no store, no    *)
(* generation and no reconciler: Attempts are tried one at a time, their   *)
(* outcomes are final, a run that is over stays over unless it is          *)
(* explicitly resumed, and it is over only with nothing in flight.         *)
(***************************************************************************)
EXTENDS Integers, Sequences

CONSTANTS
  Ongoing,    \* statuses of an Attempt in flight
  Final,      \* statuses of an Attempt that has ended
  Outcomes    \* statuses of a run that is over

VARIABLES
  outcome,    \* "open", or how the run ended
  wanted,     \* "active" or "cancelled"
  tries       \* the status of every Attempt, in the order they were made

contractVars == <<outcome, wanted, tries>>

Quiet == tries = << >> \/ tries[Len(tries)] \in Final

EndedIn(S) == tries # << >> /\ tries[Len(tries)] \in S

ContractInit == outcome = "open" /\ wanted = "active" /\ tries = << >>

\* The next Attempt of an open run.
Try ==
  /\ outcome = "open" /\ wanted = "active"
  /\ Quiet
  /\ tries' = Append(tries, "pending")
  /\ UNCHANGED <<outcome, wanted>>

\* A resume: an Attempt more, of a run that stopped short of success.
Reopen ==
  /\ outcome \in {"open", "failed", "cancelled"}
  /\ Quiet /\ tries # << >>
  /\ tries' = Append(tries, "pending")
  /\ outcome' = "open" /\ wanted' = "active"

Report ==
  /\ outcome = "open"
  /\ EndedIn(Ongoing)
  /\ \E status \in Ongoing \cup Final : tries' = [tries EXCEPT ![Len(tries)] = status]
  /\ UNCHANGED <<outcome, wanted>>

Withdraw ==
  /\ outcome = "open"
  /\ wanted' = "cancelled"
  /\ UNCHANGED <<outcome, tries>>

Earned(verdict) ==
  \/ verdict = "succeeded" /\ EndedIn({"succeeded"}) /\ wanted = "active"
  \/ verdict = "failed" /\ EndedIn({"failed", "lost"}) /\ wanted = "active"
  \/ verdict = "blocked" /\ EndedIn({"blocked"}) /\ wanted = "active"
  \/ verdict = "cancelled" /\ Quiet /\ wanted = "cancelled"

Close ==
  /\ outcome = "open"
  /\ \E verdict \in Outcomes : Earned(verdict) /\ outcome' = verdict
  /\ UNCHANGED <<wanted, tries>>

ContractNext == Try \/ Reopen \/ Report \/ Withdraw \/ Close

Contract == ContractInit /\ [][ContractNext]_contractVars

=============================================================================
