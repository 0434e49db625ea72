-------------------------- MODULE MCEngineConnection --------------------------
(* EngineConnection with a configured endpoint, for TLC. *)
EXTENDS EngineConnection

CONSTANTS i1, e1

OneInstallation == {i1}
OneEndpoint == {e1}
Exact == [i \in OneInstallation |-> "exact"]
Event == {"event"}

=============================================================================
