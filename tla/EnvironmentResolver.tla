--------------------------- MODULE EnvironmentResolver ---------------------------
(***************************************************************************)
(* How a training environment is chosen: a specification of what is        *)
(* required, a catalogue of candidates, and the facts observed about the   *)
(* host.  Anything may be missing, so a candidate is compatible, blocked   *)
(* or unknown.                                                             *)
(*                                                                         *)
(* The six attributes that are compared for equality (runtime profile,     *)
(* engine, accelerator runtime, and the digests of dependency lock, base   *)
(* image and custom environment) follow one rule and are the members of    *)
(* Fields.  A version is a triple, a constraint a set of terms.            *)
(***************************************************************************)
EXTENDS Integers, Sequences, FiniteSets

CONSTANTS
  Fields,     \* the attributes that are compared for equality
  Frameworks, \* names of frameworks
  Missing     \* None

VersionLess(v, w) ==
  \E i \in 1..3 : v[i] < w[i] /\ \A j \in 1..(i - 1) : v[j] = w[j]

\* _version: parts that are not written are zero.
Version(parts) == [i \in 1..3 |-> IF i <= Len(parts) THEN parts[i] ELSE 0]

\* One term of a constraint.  Equality compares the parts that are written,
\* the other operators compare whole versions.
SatisfiesTerm(actual, term) ==
  LET expected == Version(term.parts) IN
  CASE term.op = "==" -> \A i \in DOMAIN term.parts : actual[i] = term.parts[i]
    [] term.op = "!=" -> actual # expected
    [] term.op = ">=" -> ~VersionLess(actual, expected)
    [] term.op = "<=" -> ~VersionLess(expected, actual)
    [] term.op = ">"  -> VersionLess(expected, actual)
    [] term.op = "<"  -> VersionLess(actual, expected)

Satisfies(actual, terms) == \A t \in terms : SatisfiesTerm(actual, t)

-----------------------------------------------------------------------------
(* The reasons against a candidate, one rule per kind of requirement.      *)

Reason(known, met) == IF ~known THEN {"unknown"} ELSE IF met THEN {} ELSE {"blocked"}

FieldReasons(spec, c) ==
  UNION {Reason(c.has[f] # Missing, c.has[f] = spec.wants[f]) :
           f \in {g \in Fields : spec.wants[g] # Missing}}

PythonReasons(spec, c) == Reason(TRUE, Satisfies(c.python, spec.python))

\* A requirement that is not missing is a set of terms.
FrameworkReasons(spec, c) ==
  UNION {Reason(c.frameworks[n] # Missing, Satisfies(c.frameworks[n], spec.frameworks[n])) :
           n \in {m \in Frameworks : spec.frameworks[m] # Missing}}

\* Mutant of SupportReasons: what the host does not say is taken to be supported.
SupportReasonsIfKnown(supported, fact) ==
  IF supported = {} \/ fact = Missing THEN {} ELSE Reason(TRUE, fact \in supported)

\* Architectures and precisions: an empty list supports everything.
SupportReasons(supported, fact) ==
  IF supported = {} THEN {} ELSE Reason(fact # Missing, fact \in supported)

DriverReasons(minimum, driver) ==
  IF minimum = Missing THEN {} ELSE Reason(driver # Missing, ~VersionLess(driver, minimum))

\* Compared only when both are known.
AcceleratorReasons(c, facts) ==
  IF Missing \in {facts.accelerator, c.accelerator} THEN {}
  ELSE Reason(TRUE, facts.accelerator = c.accelerator)

\* Without facts the hardware is not looked at.
HardwareReasons(c, facts) ==
  IF facts = Missing THEN {}
  ELSE SupportReasons(c.architectures, facts.architecture)
         \cup SupportReasons(c.precisions, facts.precision)
         \cup DriverReasons(c.driver, facts.driver)
         \cup AcceleratorReasons(c, facts)

Reasons(spec, c, facts) ==
  FieldReasons(spec, c) \cup PythonReasons(spec, c)
    \cup FrameworkReasons(spec, c) \cup HardwareReasons(c, facts)

\* _match.
Match(spec, c, facts) ==
  IF ~c.known_good THEN "unknown"
  ELSE IF "blocked" \in Reasons(spec, c, facts) THEN "blocked"
  ELSE IF "unknown" \in Reasons(spec, c, facts) THEN "unknown"
  ELSE "compatible"

-----------------------------------------------------------------------------
(* The choice.                                                             *)

Matches(spec, catalogue, facts) == {c \in catalogue : Match(spec, c, facts) = "compatible"}

\* The first by candidate_id.
Selected(matches) == CHOOSE c \in matches : \A d \in matches : c.id <= d.id

\* to_lock, identity_payload: neither the candidate nor the host it was
\* matched with is part of the identity.
Lock(c) == [python |-> c.python, has |-> c.has, frameworks |-> c.frameworks,
            accelerator |-> c.accelerator, driver |-> c.driver]

Status(spec, catalogue, facts) ==
  IF Matches(spec, catalogue, facts) # {} THEN "compatible"
  ELSE IF catalogue = {} \/ \E c \in catalogue : Match(spec, c, facts) = "unknown" THEN "unknown"
  ELSE "blocked"

\* resolve and require_lock: Missing when it raises.
Resolve(spec, catalogue, facts) ==
  IF Status(spec, catalogue, facts) = "compatible"
  THEN Lock(Selected(Matches(spec, catalogue, facts)))
  ELSE Missing

=============================================================================
