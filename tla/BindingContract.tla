--------------------------- MODULE BindingContract ---------------------------
(***************************************************************************)
(* What the owner of a package binding promises, with no callers, broker   *)
(* or projection: the binding is requested once, the request either leaves *)
(* a receipt or is lost for good, and only a receipt leads to a binding.   *)
(***************************************************************************)
CONSTANT Requests

VARIABLE fate   \* of each request: "none", "asked", "receipted", "lost", "bound"

ContractInit == fate = [r \in Requests |-> "none"]

Moves(r, from, to) == fate[r] = from /\ fate' = [fate EXCEPT ![r] = to]

\* The one request that is ever accepted.
Ask(r) == (\A s \in Requests : fate[s] = "none") /\ Moves(r, "none", "asked")

Answer(r) == Moves(r, "asked", "receipted")

Lose(r) == Moves(r, "asked", "lost")

Bind(r) == Moves(r, "receipted", "bound")

ContractNext == \E r \in Requests : Ask(r) \/ Answer(r) \/ Lose(r) \/ Bind(r)

Contract == ContractInit /\ [][ContractNext]_fate

=============================================================================
