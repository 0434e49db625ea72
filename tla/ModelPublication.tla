---------------------------- MODULE ModelPublication ----------------------------
(***************************************************************************)
(* What leaves the Product about a finished run: the registration of its   *)
(* ModelVersion, the deployment draft at Reactor and the route draft at    *)
(* Exchange (YieldService, DirectPluginModelRegistry and the action        *)
(* receipts of ProductStore).                                              *)
(*                                                                         *)
(* Each is a look for a receipt, a call to another program and a receipt   *)
(* of its answer: three steps.  Registration is part of every reading of a *)
(* result, by the reconcile loop, which holds the service lock, and by     *)
(* requests, which do not; a hand-off reads its result first.              *)
(***************************************************************************)
EXTENDS Naturals, FiniteSets

CONSTANTS
  Loop,         \* the reconcile loop
  Clients,      \* concurrent requests
  Results,      \* finished runs, each with its ModelVersion
  Keys,         \* Idempotency-Key headers
  Aliases,      \* what a client may ask Exchange to route
  None,         \* no header; no receipt
  MaxVersion,   \* bound: resource versions of the Reactor endpoint
  MaxFaults,    \* bound: calls and receipts that fail
  MaxCrashes    \* bound: kills of the Product process

PublicationAssumption == MaxVersion \in Nat \ {0} /\ MaxFaults \in Nat /\ MaxCrashes \in Nat

VARIABLES
  receipts,   \* rows of action_receipts: key, digest of the request, answer
  registered, \* the ModelVersions that the registry has taken
  deployed,   \* the deployment drafts that Reactor has
  routes,     \* the route drafts that Exchange has
  endpoint,   \* the Reactor endpoint: its version, its state, what it serves
  call,       \* what each caller is doing
  faults, crashes

vars == <<receipts, registered, deployed, routes, endpoint, call, faults, crashes>>

Callers == Clients \cup {Loop}

Idle == [at |-> "idle", kind |-> "read", result |-> None, key |-> None, alias |-> None,
         payload |-> None, answer |-> None]

Init ==
  /\ receipts = {}
  /\ registered = {}
  /\ deployed = {} /\ routes = {}
  /\ endpoint \in [version : {1}, ready : {TRUE}, serves : Results]
  /\ call = [c \in Callers |-> Idle]
  /\ faults = 0 /\ crashes = 0

At(c, point) == call[c].at = point
Goes(c, point) == call' = [call EXCEPT ![c].at = point]
Fault == faults < MaxFaults /\ faults' = faults + 1

\* Mutant of Recalled: the digest of the request is not compared.
RecalledByKey(key, digest) == {row \in receipts : row.key = key}

\* recall_receipt: the receipt of a key, of this request or of another one.
Recalled(key, digest) == {row \in receipts : row.key = key /\ row.digest = digest}
Conflicts(key, digest) == \E row \in receipts : row.key = key /\ row.digest # digest

\* save_receipt: the first one to come keeps the key.
Saved(key, digest, answer) ==
  IF \E row \in receipts : row.key = key THEN receipts
  ELSE receipts \cup {[key |-> key, digest |-> digest, answer |-> answer]}

-----------------------------------------------------------------------------
(* _register_model_version, in every reading of a result.                  *)

Request(c, kind, r, key, alias) ==
  /\ At(c, "idle")
  /\ call' = [call EXCEPT ![c] = [Idle EXCEPT !.at = "recall", !.kind = kind, !.result = r,
                                                !.key = key, !.alias = alias]]
  /\ UNCHANGED <<receipts, registered, deployed, routes, endpoint, faults, crashes>>

RegistryKey(r) == <<"model-registry", r>>

\* Mutant of HasReceipt: a reader takes the registration for done.
HasReceiptAlways(r) == TRUE
HasReceipt(r) == Recalled(RegistryKey(r), r) # {}

\* What a reader goes on with.
Handoff(c) == CASE call[c].kind = "reactor"  -> "deploy"
                [] call[c].kind = "exchange" -> "inspect"
                [] OTHER                     -> "done"

RecallRegistration(c) ==
  /\ At(c, "recall")
  /\ Goes(c, IF HasReceipt(call[c].result) THEN Handoff(c) ELSE "register")
  /\ UNCHANGED <<receipts, registered, deployed, routes, endpoint, faults, crashes>>

Takes(r) == registered' = registered \cup {r}
\* An answer that is malformed or about another ModelVersion, from a registry
\* that has taken nothing.
RefusesAnswer(c) ==
  Fault /\ Goes(c, "failed") /\ UNCHANGED registered

\* register: it is taken and acknowledged; or nothing is taken; or the answer
\* is lost.
Register(c) ==
  /\ At(c, "register")
  /\ \/ Takes(call[c].result) /\ Goes(c, "acknowledged") /\ UNCHANGED faults
     \/ RefusesAnswer(c)
     \/ Fault /\ Takes(call[c].result) /\ Goes(c, "failed")
  /\ UNCHANGED <<receipts, deployed, routes, endpoint, crashes>>

SaveRegistration(c) ==
  LET r == call[c].result IN
  /\ At(c, "acknowledged")
  /\ \/ receipts' = Saved(RegistryKey(r), r, r) /\ Goes(c, Handoff(c)) /\ UNCHANGED faults
     \/ Fault /\ Goes(c, "failed") /\ UNCHANGED receipts
  /\ UNCHANGED <<registered, deployed, routes, endpoint, crashes>>

-----------------------------------------------------------------------------
(* send_to_reactor: no receipt is kept, Reactor has the key of the result. *)

SendToReactor(c) ==
  /\ At(c, "deploy")
  /\ \/ deployed' = deployed \cup {call[c].result} /\ Goes(c, "done") /\ UNCHANGED faults
     \/ Fault /\ Goes(c, "failed") /\ deployed' \in {deployed, deployed \cup {call[c].result}}
  /\ UNCHANGED <<receipts, registered, routes, endpoint, crashes>>

(* send_to_exchange.                                                       *)

\* _inspect_reactor_endpoint: ready, and serving this result's ModelVersion.
Inspect(c) ==
  /\ At(c, "inspect")
  /\ IF endpoint.ready /\ endpoint.serves = call[c].result
     THEN call' = [call EXCEPT ![c].at = "recall_route",
                     ![c].payload = [result |-> call[c].result, alias |-> call[c].alias,
                                     version |-> endpoint.version]]
     ELSE Goes(c, "refused")
  /\ UNCHANGED <<receipts, registered, deployed, routes, endpoint, faults, crashes>>

RouteKey(c) == IF call[c].key = None THEN <<"send-to-exchange", call[c].result>>
               ELSE <<"header", call[c].key>>

RecallRoute(c) ==
  /\ At(c, "recall_route")
  /\ LET rows == Recalled(RouteKey(c), call[c].payload) IN
     \/ \E row \in rows : call' = [call EXCEPT ![c].at = "sent", ![c].answer = row.answer]
     \/ rows = {} /\ Goes(c, IF Conflicts(RouteKey(c), call[c].payload) THEN "conflict" ELSE "post")
  /\ UNCHANGED <<receipts, registered, deployed, routes, endpoint, faults, crashes>>

\* Exchange: one route draft for a key, and a refusal of another payload under it.
Known(c) == {route \in routes : route.key = RouteKey(c)}
NewRoute(c) == [key |-> RouteKey(c), payload |-> call[c].payload, id |-> Cardinality(routes)]

Post(c) ==
  LET answers == IF Known(c) = {} THEN {NewRoute(c)} ELSE Known(c) IN
  /\ At(c, "post")
  /\ \/ \E route \in answers :
          /\ route.payload = call[c].payload
          /\ routes' = routes \cup {route}
          /\ call' = [call EXCEPT ![c].at = "save_route", ![c].answer = route.id]
          /\ UNCHANGED faults
     \/ /\ \E route \in answers : route.payload # call[c].payload
        /\ Goes(c, "conflict") /\ UNCHANGED <<routes, faults>>
     \/ Fault /\ Goes(c, "failed") /\ routes' \in {routes, routes \cup answers}
  /\ UNCHANGED <<receipts, registered, deployed, endpoint, crashes>>

SaveRoute(c) ==
  /\ At(c, "save_route")
  /\ \/ /\ receipts' = Saved(RouteKey(c), call[c].payload, call[c].answer)
        /\ Goes(c, IF Conflicts(RouteKey(c), call[c].payload) THEN "conflict" ELSE "sent")
        /\ UNCHANGED faults
     \/ Fault /\ Goes(c, "failed") /\ UNCHANGED receipts
  /\ UNCHANGED <<registered, deployed, routes, endpoint, crashes>>

Answer(c) ==
  /\ call[c].at \in {"done", "failed", "refused", "conflict", "sent"}
  /\ call' = [call EXCEPT ![c] = Idle]
  /\ UNCHANGED <<receipts, registered, deployed, routes, endpoint, faults, crashes>>

-----------------------------------------------------------------------------

Redeploy ==
  /\ endpoint.version < MaxVersion
  /\ endpoint' \in [version : {endpoint.version + 1}, ready : BOOLEAN, serves : Results]
  /\ UNCHANGED <<receipts, registered, deployed, routes, call, faults, crashes>>

\* A killed process; what it had registered and not saved is lost to it.
Crash ==
  /\ crashes < MaxCrashes
  /\ crashes' = crashes + 1
  /\ call' = [c \in Callers |-> Idle]
  /\ UNCHANGED <<receipts, registered, deployed, routes, endpoint, faults>>

Step(c) ==
  \/ RecallRegistration(c) \/ Register(c) \/ SaveRegistration(c)
  \/ SendToReactor(c)
  \/ Inspect(c) \/ RecallRoute(c) \/ Post(c) \/ SaveRoute(c)
  \/ Answer(c)

Reads(c, r) == Request(c, "read", r, None, None)

Next ==
  \/ \E c \in Callers : Step(c)
  \/ \E c \in Callers, r \in Results : Reads(c, r)
  \/ \E c \in Clients, r \in Results : Request(c, "reactor", r, None, None)
  \/ \E c \in Clients, r \in Results, key \in Keys \cup {None}, alias \in Aliases :
       Request(c, "exchange", r, key, alias)
  \/ Redeploy \/ Crash

Spec == Init /\ [][Next]_vars

\* The loop runs every 0.2 s and goes on after an error.
Fairness == WF_vars(Step(Loop)) /\ \A r \in Results : SF_vars(Reads(Loop, r))

FairSpec == Spec /\ Fairness

-----------------------------------------------------------------------------
(* Type correctness of the receipts, the other programs and the calls.     *)
TypeOK ==
  /\ \A row \in receipts :
       \/ row.digest \in Results /\ row.key = RegistryKey(row.digest)
       \/ row.answer \in Nat /\ row.key[1] \in {"header", "send-to-exchange"}
  /\ registered \subseteq Results /\ deployed \subseteq Results
  /\ endpoint \in [version : 1..MaxVersion, ready : BOOLEAN, serves : Results]
  /\ \A c \in Callers : call[c].result \in Results \cup {None}

Registered(r) == \E row \in receipts : row.key = RegistryKey(r)

(* A receipt of a registration is on an acknowledgement: the registry has  *)
(* the ModelVersion, whatever was lost or malformed on the way.            *)
ReceiptsAreAcknowledged == \A r \in Results : Registered(r) => r \in registered

(* What Reactor or Exchange were given of a result is registered first,    *)
(* and its receipt is durable (get_result, before either hand-off).        *)
HandedOverIsRegistered ==
  /\ \A r \in deployed : Registered(r)
  /\ \A route \in routes : Registered(route.payload.result)

(* However callers race and calls fail, a key stands for one route draft:  *)
(* who is answered is answered with the one that was made from his request.*)
AnswersNameTheRoute ==
  \A c \in Clients :
    At(c, "sent") => \E route \in routes :
      /\ route.key = RouteKey(c) /\ route.id = call[c].answer /\ route.payload = call[c].payload
      /\ \A other \in routes : other.key = RouteKey(c) => other = route

(* Without a key of its own a result has one route draft at Exchange,      *)
(* however many callers send it and whatever is lost.                      *)
OneDefaultRoute ==
  \A x, y \in routes :
    x.payload.result = y.payload.result /\ x.key[1] # "header" /\ y.key[1] # "header" => x = y

-----------------------------------------------------------------------------
(* The inductive invariant.                                                *)

Payloads == [result : Results, alias : Aliases \cup {None}, version : 1..MaxVersion]

RouteKeys == ({"header"} \X Keys) \cup ({"send-to-exchange"} \X Results)

Handing == {"recall_route", "post", "save_route", "sent"}

Points == {"idle", "recall", "register", "acknowledged", "deploy", "inspect",
           "done", "failed", "refused", "conflict"} \cup Handing

CallRecords ==
  [at : Points, kind : {"read", "reactor", "exchange"}, result : Results \cup {None},
   key : Keys \cup {None}, alias : Aliases \cup {None},
   payload : Payloads \cup {None}, answer : Nat \cup {None}]

\* The receipts, the routes and the calls, by what they are about.
KindsOK ==
  /\ receipts \subseteq
       {[key |-> RegistryKey(r), digest |-> r, answer |-> r] : r \in Results}
         \cup [key : RouteKeys, digest : Payloads, answer : Nat]
  /\ routes \subseteq [key : RouteKeys, payload : Payloads, id : Nat] /\ IsFiniteSet(routes)
  /\ registered \subseteq Results /\ deployed \subseteq Results
  /\ endpoint \in [version : 1..MaxVersion, ready : BOOLEAN, serves : Results]
  /\ call \in [Callers -> CallRecords]

\* How far a call has come: its result is registered before it is handed over,
\* and who is answered by Exchange or by a receipt has the route of his request.
CallOK(c) ==
  /\ ~At(c, "idle") => call[c].result \in Results
  /\ At(c, "acknowledged") => call[c].result \in registered
  /\ call[c].at \in {"deploy", "inspect"} \cup Handing => Registered(call[c].result)
  /\ call[c].at \in Handing =>
       call[c].payload \in Payloads /\ call[c].payload.result = call[c].result
  /\ call[c].at \in {"save_route", "sent"} =>
       [key |-> RouteKey(c), payload |-> call[c].payload, id |-> call[c].answer] \in routes

CallsOK == \A c \in Callers : CallOK(c)

\* A key has one route, a default key is of the result, and a receipt is of a route.
RoutesOK ==
  /\ \A x, y \in routes : x.key = y.key => x = y
  /\ \A x \in routes : x.key[1] = "send-to-exchange" => x.key[2] = x.payload.result
  /\ \A row \in receipts : row.key \in RouteKeys =>
       [key |-> row.key, payload |-> row.digest, id |-> row.answer] \in routes

IInv ==
  KindsOK /\ CallsOK /\ RoutesOK /\ ReceiptsAreAcknowledged /\ HandedOverIsRegistered

(* Stated by "retries later" (docs/API.md): every result is registered in  *)
(* the end, and the receipt is there, when faults stop.                    *)
EveryResultIsRegistered == \A r \in Results : <>Registered(r)

=============================================================================
