------------------------------ MODULE MCExecution ------------------------------
(***************************************************************************)
(* The components of Execution for TLC, on small instances.                *)
(***************************************************************************)
EXTENDS Execution, TLC

CONSTANTS
  exact, more, foreign, \* installations, by what they are
  e1, e2,               \* endpoints
  a, b, c               \* tensors

-----------------------------------------------------------------------------
(* The bounds.                                                             *)
ThreeInstallations == {exact, more, foreign}
LlamaPackages == {exact, more}
Declared == [i \in ThreeInstallations |-> IF i = more THEN "more" ELSE "exact"]
TwoEndpoints == {e1, e2}
AnyAnswer == {"event", "nothing", "malformed"}

TwoFields == {"profile", "engine"}
Torch == {"torch"}
Python311 == <<3, 11, 4>>
Python312 == <<3, 12, 0>>

Candidate(id, python, engine, torch, architectures, driver, accelerator) ==
  [id |-> id, known_good |-> TRUE, python |-> python,
   has |-> [profile |-> "local", engine |-> engine],
   frameworks |-> [n \in Torch |-> torch], architectures |-> architectures,
   precisions |-> {}, driver |-> driver, accelerator |-> accelerator]

Good == Candidate(1, Python311, "llama", <<2, 4, 0>>, {"amd64"}, <<1, 0, 0>>, "cuda")
Newer == Candidate(2, Python312, "llama", <<2, 4, 1>>, {}, Missing, Missing)
Other == Candidate(0, Python311, "other", <<2, 4, 0>>, {}, Missing, Missing)
Vague == Candidate(0, Python311, "llama", Missing, {}, Missing, Missing)
Untried == [Newer EXCEPT !.id = 0, !.known_good = FALSE]

EngineSpec ==
  [wants |-> [profile |-> "local", engine |-> "llama"],
   frameworks |-> [n \in Torch |-> {[op |-> "==", parts |-> <<2, 4>>]}],
   python |-> {[op |-> ">=", parts |-> <<3, 11>>], [op |-> "<", parts |-> <<3, 13>>],
               [op |-> "!=", parts |-> <<3, 12, 9>>]}]

TwoHosts ==
  {[python |-> Python311, architecture |-> "amd64", catalogue |-> {Good, Other, Vague}],
   [python |-> Python312, architecture |-> "amd64", catalogue |-> {Newer, Untried, Good}]}

Facts(architecture, driver, accelerator) ==
  [architecture |-> architecture, precision |-> Missing, driver |-> driver, accelerator |-> accelerator]

FourObservations ==
  {Facts("amd64", <<1, 2, 0>>, "cuda"), Facts("amd64", <<1, 2, 0>>, Missing),
   Facts(Missing, <<1, 2, 0>>, "cuda"), Facts("arm64", <<0, 9, 0>>, "rocm")}

TwoTensors == {a, b}
OneByte == {1}
UpToTwo == 0..2
Kill == {"kill"}

Tiles == INSTANCE AdapterResult WITH
  Tensors <- {a, b, c}, MaxPayload <- 3, MaxOutages <- 0, MaxCrashes <- 0, crashes <- kills

\* The two conditions on weights agree for any three tensors as well.
ASSUME ThreeTensors ==
  \A w \in Tiles!Weights : Tiles!Verified(w) <=> Tiles!Tiled(w)

=============================================================================
