--------------------------- MODULE DraftStartProofs ---------------------------
(***************************************************************************)
(* Proofs about DraftStart, for any number of requests, drafts and kills   *)
(* and any scopes, keys, commands, configurations and environments: the    *)
(* inductive invariant IInv, and what the runs of it check.                *)
(*                                                                         *)
(* A call that holds the service lock writes whole documents that it has   *)
(* read before.  The proofs say why that is safe: what it read is what is  *)
(* stored for as long as it has the lock (CallOK), because every step of   *)
(* another call keeps it (BystanderKeeps).                                 *)
(***************************************************************************)
EXTENDS DraftStart, TLAPS

-----------------------------------------------------------------------------
(* What every step does to the documents.                                  *)

\* Documents are added and change; their scope, command, plan and key do not, and
\* the run a draft names and its mark stay.
Grows ==
  /\ drafts' \in Seq(Draft) /\ runs' \in Seq(Run)
  /\ \A d \in DOMAIN drafts :
       /\ d \in DOMAIN drafts'
       /\ drafts'[d].scope = drafts[d].scope /\ drafts'[d].command = drafts[d].command
       /\ Started(d) => drafts'[d].run = drafts[d].run
       /\ drafts[d].cancelled => drafts'[d].cancelled
  /\ \A r \in DOMAIN runs :
       r \in DOMAIN runs' /\ runs'[r].plan = runs[r].plan /\ runs'[r].key = runs[r].key

\* The lock of a call and what it protects are left to it.
Respects(c) ==
  lock = c => /\ lock' = c /\ staged' = staged
              /\ \A d \in DOMAIN drafts : drafts'[d] = drafts[d]

LEMMA BystanderKeeps ==
  ASSUME IInv, Grows, NEW c \in Callers, call'[c] = call[c], Respects(c)
  PROVE  CallOK(c)'
<1>1. CallOK(c)
  BY DEF IInv
<1>2. CASE call[c].at \in Locked
    <2>1. /\ lock' = c /\ staged' = staged /\ call[c].draft \in DOMAIN drafts
          /\ drafts'[call[c].draft] = drafts[call[c].draft]
      BY <1>1, <1>2 DEF CallOK, Respects, Locked
    <2>2. QED
      BY <1>1, <1>2, <2>1 DEF CallOK, Grows, Started
<1>3. CASE call[c].at \notin Locked
  BY <1>1, <1>3 DEF CallOK, Grows, Started, Locked
<1>4. QED
  BY <1>2, <1>3

\* A step of one call: its own new state is sound, and so is every other call's.
LEMMA CallsKeep ==
  ASSUME IInv, Grows, NEW a \in Callers, NEW k, call' = [call EXCEPT ![a] = k], CallOK(a)',
         \A c \in Callers : c # a => Respects(c)
  PROVE  \A c \in Callers : CallOK(c)'
<1>1. \A c \in Callers : c # a => call'[c] = call[c]
  BY DEF IInv, TypeOK, CallTypeOK
<1>2. QED
  BY <1>1, BystanderKeeps

\* What is kept of the calls by a step of one of them, that writes the documents
\* and the staged inputs just if it has the lock.
LEMMA CallStep ==
  ASSUME IInv, Grows, NEW a \in Callers, NEW k, call' = [call EXCEPT ![a] = k],
         DOMAIN k = DOMAIN Idle, k.scope \in Scopes,
         k.configuration \in Configurations \cup {None},
         k.at \in Locked \cup {"idle", "locking", "advancing", "reading", "composing"},
         lock' \in Callers \cup {Free}, \A c \in Callers : c # a /\ lock = c => lock' = c,
         lock = a \/ UNCHANGED <<drafts, staged>>, CallOK(a)'
  PROVE  CallTypeOK' /\ \A c \in Callers : CallOK(c)'
<1>1. \A c \in Callers : c # a => Respects(c)
  BY DEF Respects
<1>2. DOMAIN call' = Callers /\ \A c \in Callers : call'[c] = IF c = a THEN k ELSE call[c]
  BY DEF IInv, TypeOK, CallTypeOK
<1>3. CallTypeOK'
  BY <1>2 DEF IInv, TypeOK, CallTypeOK
<1>4. QED
  BY <1>1, <1>3, CallsKeep

\* A step that writes nothing but a call, and what a reader has been told.
LEMMA QuietStep ==
  ASSUME IInv, UNCHANGED <<drafts, receipts, runs, staged, results, environment, crashes>>,
         told' = told \/ \E result \in results : Told(result),
         NEW a \in Callers, NEW k, call' = [call EXCEPT ![a] = k],
         DOMAIN k = DOMAIN Idle, k.scope \in Scopes,
         k.configuration \in Configurations \cup {None},
         k.at \in Locked \cup {"idle", "locking", "advancing", "reading", "composing"},
         lock' \in Callers \cup {Free}, \A c \in Callers : c # a /\ lock = c => lock' = c,
         CallOK(a)'
  PROVE  IInv'
<1>1. Grows
  BY DEF Grows, IInv, TypeOK, StoreTypeOK
<1>2. CallTypeOK' /\ \A c \in Callers : CallOK(c)'
  BY <1>1, CallStep
<1>3. told'.drafts = told.drafts /\ told'.results \subseteq results /\ DOMAIN told' = {"drafts", "results"}
  BY DEF Told, IInv, TypeOK, StoreTypeOK, ResultsOK
<1>4. StoreTypeOK'
  BY <1>3 DEF IInv, TypeOK, StoreTypeOK
<1>5. ImportsOK' /\ RunsOK' /\ ResultsOK' /\ LinkedRunTrainsTheDraft'
  BY <1>3 DEF IInv, ImportsOK, RunsOK, ResultsOK, LinkedRunTrainsTheDraft, Started
<1>6. QED
  BY <1>2, <1>4, <1>5 DEF IInv, TypeOK, CallTypeOK

\* What becomes of a call that returns or raises.
Over(c, k) ==
  /\ call' = [call EXCEPT ![c] = k] /\ DOMAIN k = DOMAIN Idle
  /\ k.scope \in Scopes /\ k.configuration \in Configurations \cup {None}
  /\ k.at \in {"idle", "advancing"} /\ k.todo \subseteq call[c].todo

\* The lock is the caller's to give back.
Releases(c) ==
  lock' \in Callers \cup {Free} /\ \A b \in Callers : b # c /\ lock = b => lock' = b

LEMMA CallsEnd ==
  ASSUME IInv, NEW c \in Callers, Returns(c) \/ Raises(c)
  PROVE  Releases(c) /\ \E k : Over(c, k)
<1>1. Releases(c)
  BY DEF Returns, Raises, Releases, Goes, IInv, TypeOK, CallTypeOK
<1>2. CASE call' = [call EXCEPT ![c] = Idle]
    <2>1. /\ Idle.scope \in Scopes /\ Idle.configuration \in Configurations \cup {None}
          /\ Idle.at = "idle" /\ Idle.todo = {}
      BY DEF Idle, Scopes
    <2>2. Over(c, Idle)
      BY <1>2, <2>1 DEF Over
    <2>3. QED
      BY <1>1, <2>2
<1>3. CASE Goes(c, "advancing")
    <2> DEFINE k == [call[c] EXCEPT !.at = "advancing"]
    <2>1. call' = [call EXCEPT ![c] = k]
      BY <1>3 DEF Goes
    <2>2. DOMAIN k = DOMAIN Idle /\ k.scope = call[c].scope /\ k.todo = call[c].todo
          /\ k.at = "advancing" /\ k.configuration = call[c].configuration
      BY DEF IInv, TypeOK, CallTypeOK, Idle
    <2> HIDE DEF k
    <2>3. Over(c, k)
      BY <2>1, <2>2 DEF Over, IInv, TypeOK, CallTypeOK
    <2>4. QED
      BY <1>1, <2>3
<1>4. QED
  BY <1>1, <1>2, <1>3 DEF Returns, Raises

LEMMA OverIsSound ==
  ASSUME IInv, Grows, NEW c \in Callers, NEW k, Over(c, k)
  PROVE  CallOK(c)'
<1>1. call'[c] = k /\ CallOK(c)
  BY DEF Over, IInv, TypeOK, CallTypeOK
<1>2. QED
  BY <1>1 DEF Over, CallOK, Grows, Started, Locked

LEMMA UnchangedGrows ==
  ASSUME IInv, UNCHANGED <<drafts, runs>>
  PROVE  Grows
BY DEF Grows, IInv, TypeOK, StoreTypeOK

\* A call that ends and has written nothing.
LEMMA EndStep ==
  ASSUME IInv, UNCHANGED <<drafts, receipts, runs, staged, results, environment, crashes>>,
         told' = told \/ \E result \in results : Told(result),
         NEW c \in Callers, Returns(c) \/ Raises(c)
  PROVE  IInv'
<1>1. PICK k : Over(c, k)
  BY CallsEnd
<1>2. CallOK(c)' /\ Releases(c)
  BY <1>1, UnchangedGrows, OverIsSound, CallsEnd
<1>3. QED
  BY <1>1, <1>2, QuietStep DEF Over, Releases

\* A request that arrives for a draft of its scope.
LEMMA EnterStep ==
  ASSUME IInv, NEW c \in Callers, NEW op \in {"prepare", "start", "cancel"},
         NEW d \in DOMAIN drafts, NEW scope \in Scopes,
         NEW configuration \in Configurations \cup {None}, Visible(d, scope),
         op = "cancel" => Started(d), Enter(c, op, d, scope, configuration),
         UNCHANGED <<drafts, receipts, runs, staged, results, environment, lock, told, crashes>>
  PROVE  IInv'
<1> DEFINE k == [Idle EXCEPT !.at = "locking", !.op = op, !.draft = d,
                             !.scope = scope, !.configuration = configuration]
<1>1. call' = [call EXCEPT ![c] = k]
  BY DEF Enter
<1>2. /\ DOMAIN k = DOMAIN Idle /\ k.at = "locking" /\ k.op = op /\ k.draft = d
      /\ k.scope = scope /\ k.configuration = configuration /\ k.todo = {}
  BY DEF Idle
<1> HIDE DEF k
<1>3. call'[c] = k
  BY <1>1 DEF IInv, TypeOK, CallTypeOK
<1>4. CallOK(c)'
  BY <1>2, <1>3 DEF CallOK, Visible, Started, Locked
<1>5. lock \in Callers \cup {Free}
  BY DEF IInv, TypeOK, CallTypeOK
<1>6. QED
  BY <1>1, <1>2, <1>4, <1>5, QuietStep

LEMMA LockKeeps ==
  ASSUME DraftAssumption, IInv, NEW c \in Clients, Lock(c)
  PROVE  IInv'
<1> DEFINE k == [call[c] EXCEPT !.at = call[c].op, !.saw = drafts[call[c].draft]]
<1>1. c \in Callers /\ call' = [call EXCEPT ![c] = k] /\ lock = Free /\ lock' = c
  BY DEF Lock, LockFree, Callers
<1>2. /\ DOMAIN k = DOMAIN Idle /\ k.at = call[c].op /\ k.op = call[c].op
      /\ k.draft = call[c].draft /\ k.saw = drafts[call[c].draft] /\ k.todo = call[c].todo
      /\ k.scope = call[c].scope /\ k.configuration = call[c].configuration
  BY <1>1 DEF IInv, TypeOK, CallTypeOK, Idle
<1> HIDE DEF k
<1>3. call'[c] = k
  BY <1>1 DEF IInv, TypeOK, CallTypeOK
<1>4. CallOK(c)' /\ k.at \in {"prepare", "start", "cancel"}
    <2>1. call[c].at = "locking" /\ UNCHANGED <<drafts, runs, staged>>
      BY DEF Lock, At
    <2>2. CallOK(c)
      BY <1>1 DEF IInv
    <2>3. k.at \in {"prepare", "start", "cancel"}
      BY <1>2, <2>1, <2>2 DEF CallOK
    <2>4. /\ k.draft \in DOMAIN drafts /\ k.scope = drafts[k.draft].scope
          /\ k.at = "cancel" => Started(k.draft)
          /\ \A t \in k.todo : t \in DOMAIN drafts /\ Started(t)
      BY <1>2, <2>1, <2>2 DEF CallOK
    <2>5. QED
      BY <1>1, <1>2, <1>3, <2>1, <2>3, <2>4 DEF CallOK, Started, Locked
<1>5. \A b \in Callers : lock # b
  BY <1>1 DEF DraftAssumption, Callers, Free, Loop
<1>6. QED
  BY <1>1, <1>2, <1>4, <1>5, QuietStep DEF Lock, IInv, TypeOK, CallTypeOK, Locked

\* A call that only comes to its next point.
LEMMA GoesStep ==
  ASSUME IInv, NEW c \in Callers, NEW point \in {"reading", "composing"}, Goes(c, point),
         call[c].at \in Locked \cup {"reading"}, Started(call[c].draft),
         UNCHANGED <<drafts, receipts, runs, staged, results, environment, told, crashes>>,
         Releases(c)
  PROVE  IInv'
<1> DEFINE k == [call[c] EXCEPT !.at = point]
<1>1. call' = [call EXCEPT ![c] = k]
  BY DEF Goes
<1>2. /\ DOMAIN k = DOMAIN Idle /\ k.at = point /\ k.draft = call[c].draft
      /\ k.scope = call[c].scope /\ k.configuration = call[c].configuration /\ k.todo = call[c].todo
  BY DEF IInv, TypeOK, CallTypeOK, Idle
<1> HIDE DEF k
<1>3. call'[c] = k
  BY <1>1 DEF IInv, TypeOK, CallTypeOK
<1>4. CallOK(c)'
  BY <1>2, <1>3 DEF IInv, CallOK, Started, Locked
<1>5. QED
  BY <1>1, <1>2, <1>4, QuietStep DEF IInv, TypeOK, CallTypeOK, Releases

LEMMA GetArrivesKeeps ==
  ASSUME IInv, NEW c \in Callers, NEW d \in DOMAIN drafts, NEW scope \in Scopes,
         GetArrives(c, d, scope)
  PROVE  IInv'
<1> DEFINE k == [Idle EXCEPT !.at = "reading", !.draft = d, !.scope = scope]
<1>1. call' = [call EXCEPT ![c] = k] /\ Visible(d, scope) /\ Started(d)
  BY DEF GetArrives
<1>2. /\ DOMAIN k = DOMAIN Idle /\ k.at = "reading" /\ k.draft = d /\ k.scope = scope
      /\ k.configuration = None /\ k.todo = {}
  BY DEF Idle
<1> HIDE DEF k
<1>3. call'[c] = k
  BY <1>1 DEF IInv, TypeOK, CallTypeOK
<1>4. CallOK(c)'
  BY <1>1, <1>2, <1>3 DEF GetArrives, CallOK, Visible, Started, Locked
<1>5. lock' \in Callers \cup {Free} /\ lock' = lock
  BY DEF GetArrives, IInv, TypeOK, CallTypeOK
<1>6. QED
  BY <1>1, <1>2, <1>4, <1>5, QuietStep DEF GetArrives

LEMMA LoopBeginsKeeps ==
  ASSUME DraftAssumption, IInv, LoopBegins
  PROVE  IInv'
<1> DEFINE k == [Idle EXCEPT !.at = "advancing", !.todo = {d \in DOMAIN drafts : Started(d)}]
<1>1. Loop \in Callers /\ call' = [call EXCEPT ![Loop] = k] /\ lock = Free /\ lock' = Loop
  BY DEF LoopBegins, LockFree, Callers
<1>2. /\ DOMAIN k = DOMAIN Idle /\ k.at = "advancing" /\ k.scope = Legacy
      /\ k.configuration = None /\ k.todo = {d \in DOMAIN drafts : Started(d)}
  BY DEF Idle
<1> HIDE DEF k
<1>3. call'[Loop] = k
  BY <1>1 DEF IInv, TypeOK, CallTypeOK
<1>4. CallOK(Loop)'
  BY <1>2, <1>3 DEF LoopBegins, CallOK, Started, Locked
<1>5. \A b \in Callers : lock # b
  BY <1>1 DEF DraftAssumption, Callers, Free, Loop
<1>6. k.scope \in Scopes /\ k.configuration \in Configurations \cup {None}
  BY <1>2 DEF Scopes
<1>7. QED
  BY <1>1, <1>2, <1>4, <1>5, <1>6, QuietStep DEF LoopBegins

-----------------------------------------------------------------------------
(* Importing.                                                              *)

\* A new draft and its receipt are written together, and nobody had one for the key.
LEMMA CreateAppends ==
  ASSUME DraftAssumption, IInv, NEW scope \in Scopes, NEW key, NEW command \in Commands,
         ReceiptsOf(scope, KeyOf(key, command)) = {}, Len(drafts) < MaxDrafts,
         drafts' = Append(drafts, NewDraft(scope, command)),
         receipts' = receipts \cup {Receipt(scope, key, command)},
         Answered(scope, key, command, Len(drafts) + 1),
         UNCHANGED <<runs, staged, results, environment, lock, call, crashes>>
  PROVE  IInv'
<1> DEFINE new == NewDraft(scope, command)
           n == Len(drafts) + 1
<1>1. new \in Draft /\ new.scope = scope /\ new.command = command /\ new.run = 0 /\ ~new.cancelled
  BY DEF NewDraft, Draft
<1>2. drafts \in Seq(Draft) /\ runs \in Seq(Run) /\ Len(drafts) \in Nat /\ MaxDrafts \in Nat
  BY DEF IInv, TypeOK, StoreTypeOK, DraftAssumption
<1> HIDE DEF new
<1>3. /\ drafts' \in Seq(Draft) /\ Len(drafts') = n /\ drafts'[n] = new
      /\ \A d \in DOMAIN drafts : d \in DOMAIN drafts' /\ drafts'[d] = drafts[d]
      /\ \A d \in DOMAIN drafts' : d \in DOMAIN drafts \/ d = n
      /\ n \in DOMAIN drafts' /\ n \notin DOMAIN drafts
  BY <1>1, <1>2 DEF new
<1> HIDE DEF n
<1>4. Grows
  BY <1>2, <1>3 DEF Grows
<1> DEFINE own == [scope |-> scope, key |-> KeyOf(key, command), command |-> command, draft |-> n]
<1>5. /\ receipts' = receipts \cup {own} /\ DOMAIN told' = {"drafts", "results"}
      /\ told'.drafts = told.drafts \cup {own} /\ told'.results = told.results
  BY DEF Receipt, Answered, n, IInv, TypeOK, StoreTypeOK
<1>6. /\ own.scope = scope /\ own.key = KeyOf(key, command) /\ own.command = command
      /\ own.draft = n
  OBVIOUS
<1>7. \A r \in receipts : r.scope # own.scope \/ r.key # own.key
  BY <1>6 DEF ReceiptsOf
<1> HIDE DEF own
<1>8. StoreTypeOK'
    <2>1. Len(drafts') <= MaxDrafts
      BY <1>2, <1>3 DEF n
    <2>2. \A d \in DOMAIN drafts' : drafts'[d].run \in 0..Len(runs')
      BY <1>1, <1>2, <1>3 DEF IInv, TypeOK, StoreTypeOK
    <2>3. \A receipt \in receipts' : receipt.draft \in DOMAIN drafts'
      BY <1>3, <1>5, <1>6 DEF IInv, TypeOK, StoreTypeOK
    <2>4. QED
      BY <1>2, <1>3, <1>5, <2>1, <2>2, <2>3 DEF IInv, TypeOK, StoreTypeOK
<1>9. ImportsOK'
    <2>1. \A receipt \in receipts' : /\ drafts'[receipt.draft].scope = receipt.scope
                                     /\ drafts'[receipt.draft].command = receipt.command
      BY <1>1, <1>3, <1>5, <1>6 DEF IInv, TypeOK, StoreTypeOK, ImportsOK
    <2>2. \A r, s \in receipts' : (r.scope = s.scope /\ r.key = s.key) => r = s
      BY <1>5, <1>7 DEF IInv, ImportsOK
    <2>3. \A t \in told'.drafts : \E receipt \in receipts' :
             /\ t.scope = receipt.scope /\ t.key = receipt.key
             /\ t.command = receipt.command /\ t.draft = receipt.draft
      BY <1>5 DEF IInv, ImportsOK
    <2>4. QED
      BY <2>1, <2>2, <2>3 DEF ImportsOK
<1>10. RunsOK'
  BY <1>3 DEF IInv, RunsOK
<1>11. ResultsOK'
  BY <1>3, <1>5 DEF IInv, ResultsOK, RunsOK, TypeOK, StoreTypeOK
<1>12. LinkedRunTrainsTheDraft'
  BY <1>1, <1>3 DEF IInv, LinkedRunTrainsTheDraft, Started
<1>13. \A c \in Callers : CallOK(c)'
  BY <1>3, <1>4, BystanderKeeps DEF Respects
<1>14. QED
  BY <1>8, <1>9, <1>10, <1>11, <1>12, <1>13 DEF IInv, TypeOK, CallTypeOK

LEMMA CreateKeeps ==
  ASSUME DraftAssumption, IInv, NEW scope \in Scopes, NEW key, NEW command \in Commands,
         Create(scope, key, command)
  PROVE  IInv'
<1>1. CASE UNCHANGED <<drafts, receipts>> /\ \E receipt \in ReceiptsOf(scope, KeyOf(key, command)) :
             Agrees(receipt, scope, command) /\ Answered(scope, key, command, receipt.draft)
    <2>1. PICK receipt \in receipts :
            /\ receipt.scope = scope /\ receipt.key = KeyOf(key, command)
            /\ receipt.command = command /\ Answered(scope, key, command, receipt.draft)
      BY <1>1 DEF ReceiptsOf, Agrees
    <2>2. /\ DOMAIN told' = {"drafts", "results"} /\ told'.results = told.results
          /\ \A t \in told'.drafts : t \in told.drafts \/
               (/\ t.scope = receipt.scope /\ t.key = receipt.key
                /\ t.command = receipt.command /\ t.draft = receipt.draft)
      BY <2>1 DEF Answered, IInv, TypeOK, StoreTypeOK
    <2>3. UNCHANGED <<drafts, receipts, runs, staged, results, environment, lock, call, crashes>>
      BY <1>1 DEF Create
    <2>4. ImportsOK' /\ ResultsOK'
      BY <2>2, <2>3 DEF IInv, ImportsOK, ResultsOK
    <2>5. StoreTypeOK' /\ RunsOK' /\ LinkedRunTrainsTheDraft'
      BY <2>2, <2>3 DEF IInv, TypeOK, StoreTypeOK, RunsOK, LinkedRunTrainsTheDraft, Started
    <2>6. \A c \in Callers : CallOK(c)'
      BY <2>3 DEF IInv, CallOK, Started
    <2>7. QED
      BY <2>3, <2>4, <2>5, <2>6 DEF IInv, TypeOK, CallTypeOK
<1>2. QED
  BY <1>1, CreateAppends DEF Create

-----------------------------------------------------------------------------
(* Writing the draft.                                                      *)

\* The next state of a call that has its point and run changed at most.
LEMMA PointStep ==
  ASSUME IInv, NEW c \in Callers, NEW point, NEW r
  PROVE  LET k == [call[c] EXCEPT !.at = point, !.run = r] IN
         /\ DOMAIN k = DOMAIN Idle /\ k.at = point /\ k.run = r /\ k.draft = call[c].draft
         /\ k.scope = call[c].scope /\ k.configuration = call[c].configuration
         /\ k.todo = call[c].todo /\ k.saw = call[c].saw /\ k.op = call[c].op
BY DEF IInv, TypeOK, CallTypeOK, Idle

\* A document that says the same of the draft, or more, may be saved by the call that
\* has the lock.
SavesWell(c, document) ==
  LET d == call[c].draft IN
  /\ lock = c /\ d \in DOMAIN drafts /\ Saves(c, document)
  /\ document \in Draft
  /\ document.scope = drafts[d].scope /\ document.command = drafts[d].command
  /\ drafts[d].run # 0 => document.run = drafts[d].run
  /\ drafts[d].cancelled => document.cancelled
  /\ document.run # 0 =>
       /\ document.run \in DOMAIN runs /\ runs[document.run].plan.draft = d
       /\ runs[document.run].plan.configuration = document.configuration
       /\ staged[d] = document.configuration

LEMMA SaveStep ==
  ASSUME IInv, NEW c \in Callers, NEW document, SavesWell(c, document),
         UNCHANGED <<receipts, runs, staged, results, environment, told, crashes>>
  PROVE  Grows /\ StoreTypeOK' /\ ImportsOK' /\ RunsOK' /\ ResultsOK' /\ LinkedRunTrainsTheDraft'
<1> DEFINE d == call[c].draft
<1>1. drafts \in Seq(Draft) /\ runs \in Seq(Run) /\ d \in DOMAIN drafts /\ document \in Draft
  BY DEF SavesWell, IInv, TypeOK, StoreTypeOK
<1>2. /\ drafts' \in Seq(Draft) /\ Len(drafts') = Len(drafts) /\ DOMAIN drafts' = DOMAIN drafts
      /\ drafts'[d] = document /\ \A e \in DOMAIN drafts : e # d => drafts'[e] = drafts[e]
  BY <1>1 DEF SavesWell, Saves
<1>3. Grows
  BY <1>1, <1>2 DEF Grows, SavesWell, Started
<1>4. StoreTypeOK'
    <2>1. document.run \in 0..Len(runs)
      BY <1>1 DEF SavesWell
    <2>2. \A e \in DOMAIN drafts' : drafts'[e].run \in 0..Len(runs')
      BY <1>2, <2>1 DEF IInv, TypeOK, StoreTypeOK
    <2>3. QED
      BY <1>2, <2>2 DEF IInv, TypeOK, StoreTypeOK
<1>5. ImportsOK'
  BY <1>2, <1>3 DEF Grows, IInv, TypeOK, StoreTypeOK, ImportsOK
<1>6. RunsOK'
  BY <1>2, <1>3 DEF Grows, IInv, RunsOK
<1>7. ResultsOK'
  BY <1>3 DEF Grows, IInv, RunsOK, ResultsOK, TypeOK, StoreTypeOK
<1>8. LinkedRunTrainsTheDraft'
  BY <1>2 DEF SavesWell, IInv, LinkedRunTrainsTheDraft, Started
<1>9. QED
  BY <1>3, <1>4, <1>5, <1>6, <1>7, <1>8

LEMMA PrepareSaves ==
  ASSUME IInv, NEW c \in Callers, At(c, "prepare"), Preparable(call[c].saw),
         Saves(c, [call[c].saw EXCEPT !.configuration = call[c].configuration])
  PROVE  SavesWell(c, [call[c].saw EXCEPT !.configuration = call[c].configuration])
<1> DEFINE document == [call[c].saw EXCEPT !.configuration = call[c].configuration]
           d == call[c].draft
<1>1. /\ lock = c /\ d \in DOMAIN drafts /\ call[c].saw = drafts[d] /\ drafts[d] \in Draft
      /\ drafts[d].run = 0 /\ call[c].configuration \in Configurations \cup {None}
  BY DEF At, Preparable, IInv, TypeOK, StoreTypeOK, CallTypeOK, CallOK, Locked
<1>2. /\ document \in Draft /\ document.scope = drafts[d].scope /\ document.run = 0
      /\ document.command = drafts[d].command /\ document.cancelled = drafts[d].cancelled
  BY <1>1 DEF Draft
<1>3. Saves(c, document)
  OBVIOUS
<1> HIDE DEF document
<1>4. SavesWell(c, document)
  BY <1>1, <1>2, <1>3 DEF SavesWell
<1>5. QED
  BY <1>4 DEF document

LEMMA PrepareKeeps ==
  ASSUME IInv, NEW c \in Callers, Prepare(c)
  PROVE  IInv'
<1>1. CASE UNCHANGED drafts
  BY <1>1, EndStep DEF Prepare
<1>2. CASE Preparable(call[c].saw) /\ Saves(c, [call[c].saw EXCEPT !.configuration = call[c].configuration])
    <2>1. PICK document : SavesWell(c, document)
      BY <1>2, PrepareSaves DEF Prepare
    <2>2. lock = c /\ Grows /\ StoreTypeOK' /\ ImportsOK' /\ RunsOK' /\ ResultsOK'
          /\ LinkedRunTrainsTheDraft'
      BY <2>1, SaveStep DEF Prepare, SavesWell
    <2>3. PICK k : Over(c, k)
      BY CallsEnd DEF Prepare
    <2>4. CallOK(c)' /\ Releases(c)
      BY <2>2, <2>3, OverIsSound, CallsEnd DEF Prepare
    <2>5. CallTypeOK' /\ \A b \in Callers : CallOK(b)'
      BY <2>2, <2>3, <2>4, CallStep DEF Over, Releases
    <2>6. QED
      BY <2>2, <2>5 DEF IInv, TypeOK
<1>3. QED
  BY <1>1, <1>2 DEF Prepare

\* The call that saves well and goes on to a point at which the draft has a run.
LEMMA SaveAndGo ==
  ASSUME IInv, NEW c \in Callers, NEW document, SavesWell(c, document), document.run # 0,
         call[c].at \in Locked, NEW point \in {"request", "reading"}, Goes(c, point),
         point = "request" => call[c].saw.run = document.run /\ document.cancelled,
         UNCHANGED <<receipts, runs, staged, results, environment, lock, told, crashes>>
  PROVE  IInv'
<1> DEFINE k == [call[c] EXCEPT !.at = point]
<1>1. call' = [call EXCEPT ![c] = k]
  BY DEF Goes
<1>2. /\ DOMAIN k = DOMAIN Idle /\ k.at = point /\ k.draft = call[c].draft /\ k.saw = call[c].saw
      /\ k.scope = call[c].scope /\ k.configuration = call[c].configuration /\ k.todo = call[c].todo
  BY DEF IInv, TypeOK, CallTypeOK, Idle
<1> HIDE DEF k
<1>3. Grows /\ StoreTypeOK' /\ ImportsOK' /\ RunsOK' /\ ResultsOK' /\ LinkedRunTrainsTheDraft'
  BY SaveStep
<1>4. call'[c] = k /\ drafts'[call[c].draft] = document
  BY <1>1 DEF SavesWell, Saves, IInv, TypeOK, StoreTypeOK, CallTypeOK
<1>5. CallOK(c)'
    <2>1. lock' = c /\ k.draft \in DOMAIN drafts' /\ k.scope = drafts'[k.draft].scope
      BY <1>2, <1>3, <1>4 DEF SavesWell, Grows, IInv, CallOK, Locked
    <2>2. QED
      BY <1>2, <1>3, <1>4, <2>1 DEF IInv, CallOK, Grows, Started, Locked
<1>6. CallTypeOK' /\ \A b \in Callers : CallOK(b)'
    <2>1. lock = c /\ lock' = c
      BY DEF SavesWell
    <2>2. k.scope \in Scopes /\ k.configuration \in Configurations \cup {None}
      BY <1>2 DEF IInv, TypeOK, CallTypeOK
    <2>3. QED
      BY <1>1, <1>2, <1>3, <1>5, <2>1, <2>2, CallStep DEF Locked
<1>7. QED
  BY <1>3, <1>6 DEF IInv, TypeOK

LEMMA LinkSaves ==
  ASSUME IInv, NEW c \in Callers, At(c, "link"), Saves(c, [call[c].saw EXCEPT !.run = call[c].run])
  PROVE  \E document : SavesWell(c, document) /\ document.run # 0
<1> DEFINE document == [call[c].saw EXCEPT !.run = call[c].run]
           d == call[c].draft
           r == call[c].run
<1>1. /\ lock = c /\ d \in DOMAIN drafts /\ call[c].saw = drafts[d] /\ drafts[d] \in Draft
      /\ drafts[d].run = 0 /\ staged[d] = drafts[d].configuration
      /\ r \in DOMAIN runs /\ runs[r].plan.draft = d
      /\ runs[r].plan.configuration = drafts[d].configuration
  BY DEF At, IInv, TypeOK, StoreTypeOK, CallOK, Locked
<1>2. r \in Nat /\ r # 0
  BY <1>1 DEF IInv, TypeOK, StoreTypeOK
<1>3. /\ document \in Draft /\ document.scope = drafts[d].scope /\ document.run = r
      /\ document.command = drafts[d].command /\ document.cancelled = drafts[d].cancelled
      /\ document.configuration = drafts[d].configuration
  BY <1>1, <1>2 DEF Draft
<1>4. Saves(c, document)
  OBVIOUS
<1> HIDE DEF document
<1>5. SavesWell(c, document) /\ document.run # 0
  BY <1>1, <1>2, <1>3, <1>4 DEF SavesWell
<1>6. QED
  BY <1>5

LEMMA LinkKeeps ==
  ASSUME IInv, NEW c \in Callers, Link(c)
  PROVE  IInv'
<1>1. CASE UNCHANGED drafts /\ Raises(c)
  BY <1>1, EndStep DEF Link
<1>2. CASE /\ Saves(c, [call[c].saw EXCEPT !.run = call[c].run])
           /\ Goes(c, "reading") /\ UNCHANGED lock
    <2>1. PICK document : SavesWell(c, document) /\ document.run # 0
      BY <1>2, LinkSaves DEF Link
    <2>2. QED
      BY <1>2, <2>1, SaveAndGo DEF Link, At, Locked
<1>3. QED
  BY <1>1, <1>2 DEF Link

LEMMA CancelMarkSaves ==
  ASSUME IInv, NEW c \in Callers, CancelMark(c)
  PROVE  \E document : /\ SavesWell(c, document) /\ document.run # 0 /\ document.cancelled
                       /\ call[c].saw.run = document.run
<1> DEFINE document == [call[c].saw EXCEPT !.cancelled = TRUE]
           d == call[c].draft
<1>1. /\ lock = c /\ d \in DOMAIN drafts /\ call[c].saw = drafts[d] /\ drafts[d] \in Draft
      /\ drafts[d].run # 0
  BY DEF CancelMark, At, IInv, TypeOK, StoreTypeOK, CallOK, Locked, Started
<1>2. /\ document \in Draft /\ document.scope = drafts[d].scope /\ document.run = drafts[d].run
      /\ document.command = drafts[d].command /\ document.cancelled
      /\ document.configuration = drafts[d].configuration
  BY <1>1 DEF Draft
<1>3. Saves(c, document)
  BY DEF CancelMark
<1> HIDE DEF document
<1>4. /\ drafts[d].run \in DOMAIN runs /\ runs[drafts[d].run].plan.draft = d
      /\ runs[drafts[d].run].plan.configuration = drafts[d].configuration
      /\ staged[d] = drafts[d].configuration
  BY <1>1 DEF IInv, TypeOK, StoreTypeOK, LinkedRunTrainsTheDraft, Started
<1>5. SavesWell(c, document)
  BY <1>1, <1>2, <1>3, <1>4 DEF SavesWell
<1>6. QED
  BY <1>1, <1>2, <1>5

LEMMA CancelMarkKeeps ==
  ASSUME IInv, NEW c \in Callers, CancelMark(c)
  PROVE  IInv'
<1>1. PICK document : /\ SavesWell(c, document) /\ document.run # 0 /\ document.cancelled
                      /\ call[c].saw.run = document.run
  BY CancelMarkSaves
<1>2. QED
  BY <1>1, SaveAndGo DEF CancelMark, At, Locked

-----------------------------------------------------------------------------
(* Staging and submitting.                                                 *)

LEMMA StageKeeps ==
  ASSUME DraftAssumption, IInv, NEW c \in Callers, Stage(c)
  PROVE  IInv'
<1> DEFINE d == call[c].draft
<1>1. /\ lock = c /\ d \in DOMAIN drafts /\ call[c].saw = drafts[d] /\ drafts[d] \in Draft
      /\ drafts[d].run = 0 /\ d \in 1..MaxDrafts
    <2>1. /\ lock = c /\ d \in DOMAIN drafts /\ call[c].saw = drafts[d]
          /\ drafts[d].run = 0
      BY DEF Stage, At, IInv, CallOK, Locked
    <2>2. drafts \in Seq(Draft) /\ Len(drafts) <= MaxDrafts /\ MaxDrafts \in Nat
      BY DEF IInv, TypeOK, StoreTypeOK, DraftAssumption
    <2>3. QED
      BY <2>1, <2>2
<1>2. PICK put \in Configurations \cup {None, "partial"} : staged' = [staged EXCEPT ![d] = put]
  BY <1>1 DEF Stage, Draft
<1>3. /\ staged' \in [1..MaxDrafts -> Configurations \cup {None, "partial"}]
      /\ \A e \in DOMAIN drafts : Started(e) => staged'[e] = staged[e]
  BY <1>1, <1>2 DEF IInv, TypeOK, StoreTypeOK, Started
<1>4. UNCHANGED <<drafts, receipts, runs, results, environment, told, crashes>>
  BY DEF Stage
<1>5. Grows /\ StoreTypeOK' /\ ImportsOK' /\ RunsOK' /\ ResultsOK'
  BY <1>3, <1>4, UnchangedGrows DEF IInv, TypeOK, StoreTypeOK, ImportsOK, RunsOK, ResultsOK
<1>6. LinkedRunTrainsTheDraft'
  BY <1>3, <1>4 DEF IInv, LinkedRunTrainsTheDraft, Started
<1>7. CASE Raises(c)
    <2>1. PICK k : Over(c, k)
      BY <1>7, CallsEnd
    <2>2. CallOK(c)' /\ Releases(c)
      BY <1>5, <1>7, <2>1, OverIsSound, CallsEnd
    <2>3. CallTypeOK' /\ \A b \in Callers : CallOK(b)'
      BY <1>1, <1>5, <2>1, <2>2, CallStep DEF Over, Releases
    <2>4. QED
      BY <1>5, <1>6, <2>3 DEF IInv, TypeOK
<1>8. CASE /\ staged' = [staged EXCEPT ![d] = call[c].saw.configuration]
           /\ Goes(c, "submit") /\ UNCHANGED lock
    <2> DEFINE k == [call[c] EXCEPT !.at = "submit"]
    <2>1. call' = [call EXCEPT ![c] = k]
      BY <1>8 DEF Goes
    <2>2. /\ DOMAIN k = DOMAIN Idle /\ k.at = "submit" /\ k.draft = d /\ k.saw = call[c].saw
          /\ k.scope = call[c].scope /\ k.configuration = call[c].configuration
          /\ k.todo = call[c].todo
      BY DEF IInv, TypeOK, CallTypeOK, Idle
    <2> HIDE DEF k
    <2>3. call'[c] = k /\ staged'[d] = call[c].saw.configuration
      BY <1>1, <1>8, <2>1 DEF IInv, TypeOK, StoreTypeOK, CallTypeOK
    <2>4. CallOK(c)'
        <3>1. /\ call[c].at = "start" /\ CallOK(c) /\ call[c].saw.run = 0 /\ lock' = c
          BY <1>1, <1>8 DEF Stage, At, IInv
        <3>2. call[c].scope = drafts[d].scope /\ \A t \in call[c].todo : t \in DOMAIN drafts /\ Started(t)
          BY <3>1 DEF CallOK
        <3>3. drafts' = drafts /\ \A t : Started(t)' <=> Started(t)
          BY <1>4 DEF Started
        <3>4. QED
          BY <1>1, <2>2, <2>3, <3>1, <3>2, <3>3 DEF CallOK, Locked
    <2>5. k.scope \in Scopes /\ k.configuration \in Configurations \cup {None}
      BY <2>2 DEF IInv, TypeOK, CallTypeOK
    <2>6. CallTypeOK' /\ \A b \in Callers : CallOK(b)'
      BY <1>1, <1>5, <1>8, <2>1, <2>2, <2>4, <2>5, CallStep DEF Locked
    <2>7. QED
      BY <1>5, <1>6, <2>6 DEF IInv, TypeOK
<1>9. QED
  BY <1>7, <1>8 DEF Stage

\* An accepted run: a new one under the draft's key, or the one that has that key and
\* the same plan.  Either way it is of the draft and of the configuration it shows.
LEMMA SubmitAccepts ==
  ASSUME IInv, NEW c \in Callers, At(c, "submit"), Grows, NEW r \in DOMAIN runs',
         call' = [call EXCEPT ![c].at = "link", ![c].run = r],
         runs'[r].plan.draft = call[c].draft,
         runs'[r].plan.configuration = call[c].saw.configuration,
         UNCHANGED <<drafts, staged, lock>>
  PROVE  CallTypeOK' /\ \A b \in Callers : CallOK(b)'
<1> DEFINE k == [call[c] EXCEPT !.at = "link", !.run = r]
<1>1. call' = [call EXCEPT ![c] = k]
  BY DEF IInv, TypeOK, CallTypeOK
<1>2. /\ DOMAIN k = DOMAIN Idle /\ k.at = "link" /\ k.run = r /\ k.draft = call[c].draft
      /\ k.scope = call[c].scope /\ k.configuration = call[c].configuration
      /\ k.todo = call[c].todo /\ k.saw = call[c].saw
  BY PointStep
<1> HIDE DEF k
<1>3. call'[c] = k
  BY <1>1 DEF IInv, TypeOK, CallTypeOK
<1>4. CallOK(c)'
    <2>1. /\ lock = c /\ call[c].draft \in DOMAIN drafts /\ call[c].saw = drafts[call[c].draft]
          /\ call[c].scope = drafts[call[c].draft].scope
          /\ call[c].saw.run = 0 /\ staged[call[c].draft] = call[c].saw.configuration
          /\ \A t \in call[c].todo : t \in DOMAIN drafts /\ Started(t)
      BY DEF At, IInv, CallOK, Locked
    <2>2. QED
      BY <1>2, <1>3, <2>1 DEF CallOK, Started, Locked
<1>5. /\ k.scope \in Scopes /\ k.configuration \in Configurations \cup {None}
      /\ lock' \in Callers \cup {Free}
  BY <1>2 DEF IInv, TypeOK, CallTypeOK
<1>6. QED
  BY <1>1, <1>2, <1>4, <1>5, CallStep DEF Locked

\* A new run, of a key that finds none.
LEMMA AcceptsAnew ==
  ASSUME IInv, NEW plan \in Plan, plan.draft \in DOMAIN drafts,
         {r \in DOMAIN runs : runs[r].key = RunKey(plan.draft)} = {},
         runs' = Append(runs, [key |-> RunKey(plan.draft), plan |-> plan, status |-> "active",
                               cancelRequested |-> FALSE]),
         UNCHANGED <<drafts, receipts, staged, results, environment, told, crashes>>
  PROVE  /\ Grows /\ StoreTypeOK' /\ ImportsOK' /\ RunsOK' /\ ResultsOK'
         /\ LinkedRunTrainsTheDraft'
         /\ Len(runs) + 1 \in DOMAIN runs' /\ runs'[Len(runs) + 1].plan = plan
<1> DEFINE new == [key |-> RunKey(plan.draft), plan |-> plan, status |-> "active",
                   cancelRequested |-> FALSE]
           n == Len(runs) + 1
<1>1. /\ new \in Run /\ new.key = plan.draft /\ new.plan = plan /\ ~new.cancelRequested
      /\ runs' = Append(runs, new)
    <2>1. plan.draft \in Nat
      BY DEF Plan
    <2>2. QED
      BY <2>1 DEF Run, RunKey
<1> HIDE DEF new
<1>2. drafts \in Seq(Draft) /\ runs \in Seq(Run)
  BY DEF IInv, TypeOK, StoreTypeOK
<1>3. /\ runs' \in Seq(Run) /\ Len(runs') = n /\ runs'[n] = new /\ n \in Nat /\ n # 0
      /\ \A r \in DOMAIN runs : r \in DOMAIN runs' /\ runs'[r] = runs[r]
      /\ \A r \in DOMAIN runs' : r \in DOMAIN runs \/ r = n
      /\ n \in DOMAIN runs' /\ Len(runs) <= Len(runs') /\ n \notin DOMAIN runs
  BY <1>1, <1>2
<1>4. Grows
  BY <1>2, <1>3 DEF Grows
<1>5. StoreTypeOK'
    <2>1. \A d \in DOMAIN drafts' : drafts'[d].run \in 0..Len(runs')
      BY <1>2, <1>3 DEF IInv, TypeOK, StoreTypeOK
    <2>2. \A result \in results' : result.run \in DOMAIN runs' /\ result.scope \in Scopes
      BY <1>3 DEF IInv, TypeOK, StoreTypeOK
    <2>3. QED
      BY <1>3, <2>1, <2>2 DEF IInv, TypeOK, StoreTypeOK
<1>6. ImportsOK'
  BY DEF IInv, ImportsOK
<1>7. \A r \in DOMAIN runs : runs[r].key # new.key
  BY <1>1 DEF RunKey
<1> HIDE DEF n
<1>8. RunsOK'
    <2>1. \A r \in DOMAIN runs' :
            /\ runs'[r].key = runs'[r].plan.draft /\ runs'[r].plan.draft \in DOMAIN drafts'
            /\ runs'[r].cancelRequested => drafts'[runs'[r].plan.draft].cancelled
      BY <1>1, <1>3 DEF IInv, RunsOK
    <2>2. \A r, s \in DOMAIN runs' : runs'[r].key = runs'[s].key => r = s
      BY <1>3, <1>7 DEF IInv, RunsOK
    <2>3. QED
      BY <2>1, <2>2 DEF RunsOK
<1>9. ResultsOK'
  BY <1>3 DEF IInv, ResultsOK, TypeOK, StoreTypeOK
<1>10. LinkedRunTrainsTheDraft'
    <2>1. \A d \in DOMAIN drafts : Started(d) => drafts[d].run \in DOMAIN runs
      BY <1>2 DEF IInv, TypeOK, StoreTypeOK, Started
    <2>2. QED
      BY <1>3, <2>1 DEF IInv, LinkedRunTrainsTheDraft, Started
<1>11. QED
  BY <1>1, <1>3, <1>4, <1>5, <1>6, <1>8, <1>9, <1>10 DEF n

LEMMA SubmitKeeps ==
  ASSUME IInv, NEW c \in Callers, Submit(c)
  PROVE  IInv'
<1> DEFINE d == call[c].draft
           plan == [draft |-> d, configuration |-> call[c].saw.configuration,
                    environment |-> environment]
           known == {r \in DOMAIN runs : runs[r].key = RunKey(d)}
<1>1. /\ d \in DOMAIN drafts /\ call[c].saw = drafts[d] /\ drafts[d] \in Draft /\ d \in Nat
      /\ environment \in Environments /\ At(c, "submit")
  BY DEF Submit, At, IInv, TypeOK, StoreTypeOK, CallOK, Locked
<1>2. /\ plan \in Plan /\ plan.draft = d /\ plan.configuration = call[c].saw.configuration
  BY <1>1 DEF Plan, Draft
<1>3. CASE Raises(c) /\ UNCHANGED runs
  BY <1>3, EndStep DEF Submit
<1>4. CASE /\ known = {}
           /\ runs' = Append(runs, [key |-> RunKey(d), plan |-> plan, status |-> "active",
                                    cancelRequested |-> FALSE])
           /\ call' = [call EXCEPT ![c].at = "link", ![c].run = Len(runs) + 1]
           /\ UNCHANGED lock
    <2> HIDE DEF plan
    <2>1. UNCHANGED <<drafts, receipts, staged, results, environment, told, crashes>>
      BY DEF Submit
    <2>2. /\ Grows /\ StoreTypeOK' /\ ImportsOK' /\ RunsOK' /\ ResultsOK'
          /\ LinkedRunTrainsTheDraft'
          /\ Len(runs) + 1 \in DOMAIN runs' /\ runs'[Len(runs) + 1].plan = plan
      BY <1>1, <1>2, <1>4, <2>1, AcceptsAnew
    <2>3. CallTypeOK' /\ \A b \in Callers : CallOK(b)'
      BY <1>1, <1>2, <1>4, <2>1, <2>2, SubmitAccepts
    <2>4. QED
      BY <2>2, <2>3 DEF IInv, TypeOK
<1>5. ASSUME NEW r \in known, SamePlan(runs[r], plan),
             call' = [call EXCEPT ![c].at = "link", ![c].run = r], UNCHANGED <<runs, lock>>
      PROVE  IInv'
    <2>1. UNCHANGED <<drafts, receipts, runs, staged, results, environment, told, crashes>>
      BY <1>5 DEF Submit
    <2>2. runs'[r].plan = plan /\ r \in DOMAIN runs'
      BY <1>5 DEF SamePlan
    <2> HIDE DEF plan
    <2>3. Grows
      BY <2>1, UnchangedGrows
    <2>4. CallTypeOK' /\ \A b \in Callers : CallOK(b)'
      BY <1>1, <1>2, <1>5, <2>1, <2>2, <2>3, SubmitAccepts
    <2>5. QED
      BY <2>1, <2>4 DEF IInv, TypeOK, StoreTypeOK, ImportsOK, RunsOK, ResultsOK,
                        LinkedRunTrainsTheDraft, Started
<1>6. QED
  BY <1>3, <1>4, <1>5 DEF Submit

-----------------------------------------------------------------------------
(* What becomes of a run: it is asked to stop, it moves on, it is read.    *)

\* A run that keeps its key and its plan may be written whenever the draft that
\* wants it stopped says so.
LEMMA RunStep ==
  ASSUME IInv, NEW d \in DOMAIN drafts, Started(d), NEW run \in Run,
         runs' = [runs EXCEPT ![drafts[d].run] = run],
         run.plan = runs[drafts[d].run].plan, run.key = runs[drafts[d].run].key,
         run.cancelRequested => runs[drafts[d].run].cancelRequested \/ drafts[d].cancelled,
         UNCHANGED <<drafts, receipts, staged, results, environment, told, crashes>>
  PROVE  Grows /\ StoreTypeOK' /\ ImportsOK' /\ RunsOK' /\ ResultsOK' /\ LinkedRunTrainsTheDraft'
<1> DEFINE r == drafts[d].run
<1>1. drafts \in Seq(Draft) /\ runs \in Seq(Run) /\ r \in DOMAIN runs /\ runs[r].plan.draft = d
  BY DEF IInv, TypeOK, StoreTypeOK, LinkedRunTrainsTheDraft, Started
<1>2. /\ runs' \in Seq(Run) /\ Len(runs') = Len(runs) /\ DOMAIN runs' = DOMAIN runs
      /\ runs'[r] = run /\ \A s \in DOMAIN runs : s # r => runs'[s] = runs[s]
  BY <1>1
<1> HIDE DEF r
<1>3. \A s \in DOMAIN runs : runs'[s].plan = runs[s].plan /\ runs'[s].key = runs[s].key
  BY <1>2 DEF r
<1>4. Grows
  BY <1>1, <1>2, <1>3 DEF Grows
<1>5. StoreTypeOK'
  BY <1>2 DEF IInv, TypeOK, StoreTypeOK
<1>6. ImportsOK'
  BY DEF IInv, ImportsOK
<1>7. RunsOK'
  BY <1>1, <1>2, <1>3 DEF IInv, RunsOK, r
<1>8. ResultsOK'
  BY <1>3 DEF IInv, ResultsOK, TypeOK, StoreTypeOK
<1>9. LinkedRunTrainsTheDraft'
    <2>1. \A e \in DOMAIN drafts : Started(e) => drafts[e].run \in DOMAIN runs
      BY <1>1 DEF IInv, TypeOK, StoreTypeOK, Started
    <2>2. QED
      BY <1>3, <2>1 DEF IInv, LinkedRunTrainsTheDraft, Started
<1>10. QED
  BY <1>4, <1>5, <1>6, <1>7, <1>8, <1>9

LEMMA CancelRequestKeeps ==
  ASSUME IInv, NEW c \in Callers, CancelRequest(c)
  PROVE  IInv'
<1> DEFINE d == call[c].draft
           r == drafts[d].run
           run == [runs[r] EXCEPT !.cancelRequested = @ \/ runs[r].status = "active"]
           k == [call[c] EXCEPT !.at = "reading"]
<1>1. /\ lock = c /\ d \in DOMAIN drafts /\ Started(d) /\ drafts[d].cancelled
      /\ call[c].saw.run = r /\ call[c].scope = drafts[d].scope
      /\ \A t \in call[c].todo : t \in DOMAIN drafts /\ Started(t)
  BY DEF CancelRequest, At, IInv, CallOK, Locked
<1>2. runs \in Seq(Run) /\ r \in DOMAIN runs /\ runs[r] \in Run
  BY <1>1 DEF IInv, TypeOK, StoreTypeOK, Started
<1>3. runs' = [runs EXCEPT ![r] = run]
  BY <1>1, <1>2 DEF CancelRequest
<1>4. run \in Run /\ run.plan = runs[r].plan /\ run.key = runs[r].key
  BY <1>2 DEF Run
<1> HIDE DEF run
<1>5. Grows /\ StoreTypeOK' /\ ImportsOK' /\ RunsOK' /\ ResultsOK' /\ LinkedRunTrainsTheDraft'
  BY <1>1, <1>3, <1>4, RunStep DEF CancelRequest
<1>6. call' = [call EXCEPT ![c] = k] /\ lock' = Free
  BY DEF CancelRequest, Goes
<1>7. /\ DOMAIN k = DOMAIN Idle /\ k.at = "reading" /\ k.draft = d
      /\ k.scope = call[c].scope /\ k.configuration = call[c].configuration
      /\ k.todo = call[c].todo
  BY DEF IInv, TypeOK, CallTypeOK, Idle
<1> HIDE DEF k
<1>8. call'[c] = k
  BY <1>6 DEF IInv, TypeOK, CallTypeOK
<1>9. CallOK(c)'
  BY <1>1, <1>7, <1>8 DEF CancelRequest, CallOK, Started, Locked
<1>10. k.scope \in Scopes /\ k.configuration \in Configurations \cup {None}
  BY <1>7 DEF IInv, TypeOK, CallTypeOK
<1>11. CallTypeOK' /\ \A b \in Callers : CallOK(b)'
  BY <1>1, <1>5, <1>6, <1>7, <1>9, <1>10, CallStep
<1>12. QED
  BY <1>5, <1>11 DEF IInv, TypeOK

LEMMA AdvanceKeeps ==
  ASSUME IInv, NEW d \in DOMAIN drafts, Advance(d)
  PROVE  IInv'
<1> DEFINE r == drafts[d].run
           k == [call[Loop] EXCEPT !.at = "reading", !.draft = d, !.scope = drafts[d].scope,
                                   !.todo = @ \ {d}]
<1>1. Loop \in Callers /\ Started(d) /\ \A t \in call[Loop].todo : t \in DOMAIN drafts /\ Started(t)
  BY DEF Advance, At, IInv, CallOK, Callers
<1>2. drafts[d] \in Draft /\ runs \in Seq(Run) /\ r \in DOMAIN runs /\ runs[r] \in Run
  BY <1>1 DEF IInv, TypeOK, StoreTypeOK, Started
<1>3. PICK status \in {"active", "completed", "stopped"} :
        runs' = [runs EXCEPT ![r].status = IF @ = "active" THEN status ELSE @]
  BY DEF Advance
<1> DEFINE run == [runs[r] EXCEPT !.status = IF @ = "active" THEN status ELSE @]
<1>4. runs' = [runs EXCEPT ![r] = run]
  BY <1>2, <1>3
<1>5. /\ run \in Run /\ run.plan = runs[r].plan /\ run.key = runs[r].key
      /\ run.cancelRequested = runs[r].cancelRequested
  BY <1>2 DEF Run
<1> HIDE DEF run
<1>6. Grows /\ StoreTypeOK' /\ ImportsOK' /\ RunsOK' /\ ResultsOK' /\ LinkedRunTrainsTheDraft'
  BY <1>1, <1>4, <1>5, RunStep DEF Advance
<1>7. call' = [call EXCEPT ![Loop] = k]
  BY <1>1 DEF Advance, IInv, TypeOK, CallTypeOK
<1>8. /\ DOMAIN k = DOMAIN Idle /\ k.at = "reading" /\ k.draft = d /\ k.scope = drafts[d].scope
      /\ k.configuration = call[Loop].configuration /\ k.todo = call[Loop].todo \ {d}
  BY <1>1 DEF IInv, TypeOK, CallTypeOK, Idle
<1> HIDE DEF k
<1>9. call'[Loop] = k
  BY <1>1, <1>7 DEF IInv, TypeOK, CallTypeOK
<1>10. CallOK(Loop)'
  BY <1>1, <1>8, <1>9 DEF Advance, CallOK, Started, Locked
<1>11. /\ k.scope \in Scopes /\ k.configuration \in Configurations \cup {None}
       /\ lock' \in Callers \cup {Free} /\ lock' = lock
  BY <1>1, <1>2, <1>8 DEF Advance, Draft, IInv, TypeOK, CallTypeOK
<1>12. CallTypeOK' /\ \A b \in Callers : CallOK(b)'
  BY <1>1, <1>6, <1>7, <1>8, <1>10, <1>11, CallStep DEF Advance
<1>13. QED
  BY <1>6, <1>12 DEF IInv, TypeOK

LEMMA GetRunKeeps ==
  ASSUME IInv, NEW c \in Callers, GetRun(c)
  PROVE  IInv'
<1> DEFINE r == drafts[call[c].draft].run
<1>1. UNCHANGED <<drafts, receipts, runs, staged, results, environment, crashes>>
  BY DEF GetRun
<1>2. CASE told' = told /\ (Returns(c) \/ Raises(c))
  BY <1>1, <1>2, EndStep
<1>3. CASE \E result \in ResultsOf(r) : Told(result) /\ Returns(c)
  BY <1>1, <1>3, EndStep DEF ResultsOf
<1>4. CASE told' = told /\ Goes(c, "composing") /\ UNCHANGED lock
    <2>1. Started(call[c].draft) /\ call[c].at = "reading"
      BY DEF GetRun, At, IInv, CallOK
    <2>2. Releases(c)
      BY <1>4 DEF Releases, IInv, TypeOK, CallTypeOK
    <2>3. QED
      BY <1>1, <1>4, <2>1, <2>2, GoesStep
<1>5. QED
  BY <1>2, <1>3, <1>4 DEF GetRun

\* The result that is stored for a run stays; the first is stored in the scope of its
\* draft, and an answer is what is stored.
LEMMA CreateResultKeeps ==
  ASSUME IInv, NEW c \in Callers, CreateResult(c)
  PROVE  IInv'
<1> DEFINE d == call[c].draft
           r == drafts[d].run
           new == [run |-> r, scope |-> ResultScope(c), by |-> c]
<1>1. UNCHANGED <<drafts, receipts, runs, staged, environment, crashes>>
  BY DEF CreateResult
<1>2. /\ d \in DOMAIN drafts /\ call[c].scope = drafts[d].scope /\ Started(d)
      /\ call[c].scope \in Scopes
  BY DEF CreateResult, At, IInv, TypeOK, CallTypeOK, CallOK
<1>3. r \in DOMAIN runs /\ runs[r].plan.draft = d
  BY <1>2 DEF IInv, TypeOK, StoreTypeOK, LinkedRunTrainsTheDraft, Started
<1>4. new.run = r /\ new.scope = drafts[d].scope
  BY <1>2 DEF ResultScope
<1>5. results' = Stored(new)
  BY DEF CreateResult
<1>6. /\ told'.drafts = told.drafts /\ told'.results \subseteq told.results \cup results'
      /\ DOMAIN told' = {"drafts", "results"}
  BY <1>5 DEF CreateResult, Told, IInv, TypeOK, StoreTypeOK
<1> HIDE DEF new
<1>7. /\ \A result \in results' : result \in results \/ result = new
      /\ results \subseteq results'
      /\ new \in results' => (new \in results \/ \A result \in results : result.run # r)
  BY <1>4, <1>5 DEF Stored, ResultsOf
<1>8. StoreTypeOK'
  BY <1>1, <1>2, <1>3, <1>4, <1>6, <1>7 DEF IInv, TypeOK, StoreTypeOK
<1>9. ImportsOK' /\ RunsOK' /\ LinkedRunTrainsTheDraft'
  BY <1>1, <1>6 DEF IInv, ImportsOK, RunsOK, LinkedRunTrainsTheDraft, Started
<1>10. ResultsOK'
    <2>1. \A result \in results' : drafts'[runs'[result.run].plan.draft].scope = result.scope
      BY <1>1, <1>3, <1>4, <1>7 DEF IInv, ResultsOK
    <2>2. \A a, b \in results' : a.run = b.run => a = b
      BY <1>4, <1>7 DEF IInv, ResultsOK
    <2>3. QED
      BY <1>6, <1>7, <2>1, <2>2 DEF IInv, ResultsOK
<1>11. Returns(c) \/ Raises(c)
  BY DEF CreateResult
<1>12. PICK k : Over(c, k)
  BY <1>11, CallsEnd
<1>13. Grows /\ CallOK(c)' /\ Releases(c)
  BY <1>1, <1>11, <1>12, UnchangedGrows, OverIsSound, CallsEnd
<1>14. CallTypeOK' /\ \A b \in Callers : CallOK(b)'
  BY <1>1, <1>12, <1>13, CallStep DEF Over, Releases
<1>15. QED
  BY <1>8, <1>9, <1>10, <1>14 DEF IInv, TypeOK

-----------------------------------------------------------------------------
(* The inductive invariant.                                                *)

LEMMA InitIInv ==
  ASSUME DraftAssumption, Init
  PROVE  IInv
<1>1. /\ drafts = << >> /\ receipts = {} /\ runs = << >> /\ results = {} /\ lock = Free
      /\ staged = [d \in 1..MaxDrafts |-> None] /\ environment \in Environments /\ crashes = 0
      /\ told = [drafts |-> {}, results |-> {}] /\ MaxDrafts \in Nat
      /\ call = [c \in Callers |-> Idle]
  BY DEF Init, DraftAssumption
<1>2. /\ Idle.at = "idle" /\ Idle.todo = {} /\ Idle.scope \in Scopes
      /\ Idle.configuration \in Configurations \cup {None}
  BY DEF Idle, Scopes
<1>3. StoreTypeOK
  BY <1>1 DEF StoreTypeOK
<1>4. CallTypeOK
  BY <1>1, <1>2 DEF CallTypeOK
<1>5. ImportsOK /\ RunsOK /\ ResultsOK /\ LinkedRunTrainsTheDraft
  BY <1>1 DEF ImportsOK, RunsOK, ResultsOK, LinkedRunTrainsTheDraft
<1>6. \A c \in Callers : CallOK(c)
  BY <1>1, <1>2 DEF CallOK, Locked
<1>7. QED
  BY <1>3, <1>4, <1>5, <1>6 DEF IInv, TypeOK

LEMMA CrashKeeps ==
  ASSUME IInv, Crash
  PROVE  IInv'
<1>1. /\ UNCHANGED <<drafts, receipts, runs, staged, results, told>> /\ crashes' \in Nat
      /\ environment' \in Environments /\ lock' = Free /\ call' = [c \in Callers |-> Idle]
  BY DEF Crash, IInv, TypeOK, StoreTypeOK
<1>2. /\ Idle.at = "idle" /\ Idle.todo = {} /\ Idle.scope \in Scopes
      /\ Idle.configuration \in Configurations \cup {None}
  BY DEF Idle, Scopes
<1>3. StoreTypeOK'
  BY <1>1 DEF IInv, TypeOK, StoreTypeOK
<1>4. CallTypeOK'
  BY <1>1, <1>2 DEF CallTypeOK
<1>5. ImportsOK' /\ RunsOK' /\ ResultsOK' /\ LinkedRunTrainsTheDraft'
  BY <1>1 DEF IInv, ImportsOK, RunsOK, ResultsOK, LinkedRunTrainsTheDraft, Started
<1>6. \A c \in Callers : CallOK(c)'
  BY <1>1, <1>2 DEF CallOK, Locked
<1>7. QED
  BY <1>3, <1>4, <1>5, <1>6 DEF IInv, TypeOK

LEMMA ClientKeeps ==
  ASSUME DraftAssumption, IInv, NEW c \in Clients, ClientNext(c)
  PROVE  IInv'
<1>1. c \in Callers
  BY DEF Callers
<1>2. ASSUME NEW d \in DOMAIN drafts, NEW scope \in Scopes, NEW configuration \in Configurations,
             PrepareArrives(c, d, scope, configuration)
      PROVE  IInv'
  BY <1>1, <1>2, EnterStep DEF PrepareArrives
<1>3. ASSUME NEW d \in DOMAIN drafts, NEW scope \in Scopes, StartArrives(c, d, scope)
      PROVE  IInv'
  BY <1>1, <1>3, EnterStep DEF StartArrives
<1>4. ASSUME NEW d \in DOMAIN drafts, CancelArrives(c, d)
      PROVE  IInv'
  BY <1>1, <1>4, EnterStep DEF CancelArrives, Scopes
<1>5. ASSUME NEW d \in DOMAIN drafts, NEW scope \in Scopes, GetArrives(c, d, scope)
      PROVE  IInv'
  BY <1>1, <1>5, GetArrivesKeeps
<1>6. CASE Lock(c)
  BY <1>6, LockKeeps
<1>7. CASE Prepare(c)
  BY <1>1, <1>7, PrepareKeeps
<1>8. CASE StartAgain(c)
    <2>1. Started(call[c].draft) /\ call[c].at \in Locked
      BY <1>1, <1>8 DEF StartAgain, At, IInv, CallOK, Started, Locked
    <2>2. Releases(c)
      BY <1>8 DEF StartAgain, Releases, IInv, TypeOK, CallTypeOK
    <2>3. QED
      BY <1>1, <1>8, <2>1, <2>2, GoesStep DEF StartAgain
<1>9. CASE StartUnprepared(c)
  BY <1>1, <1>9, EndStep DEF StartUnprepared
<1>10. CASE Stage(c)
  BY <1>1, <1>10, StageKeeps
<1>11. CASE Submit(c)
  BY <1>1, <1>11, SubmitKeeps
<1>12. CASE Link(c)
  BY <1>1, <1>12, LinkKeeps
<1>13. CASE CancelMark(c)
  BY <1>1, <1>13, CancelMarkKeeps
<1>14. CASE CancelRequest(c)
  BY <1>1, <1>14, CancelRequestKeeps
<1>15. QED
  BY <1>2, <1>3, <1>4, <1>5, <1>6, <1>7, <1>8, <1>9, <1>10, <1>11, <1>12, <1>13, <1>14
     DEF ClientNext

LEMMA NextKeeps ==
  ASSUME DraftAssumption, IInv, [Next]_vars
  PROVE  IInv'
<1>1. CASE UNCHANGED vars
    <2>1. UNCHANGED <<drafts, receipts, runs, staged, results, environment, lock, call, told, crashes>>
      BY <1>1 DEF vars
    <2>2. StoreTypeOK' /\ CallTypeOK'
      BY <2>1 DEF IInv, TypeOK, StoreTypeOK, CallTypeOK
    <2>3. ImportsOK' /\ RunsOK' /\ ResultsOK' /\ LinkedRunTrainsTheDraft'
      BY <2>1 DEF IInv, ImportsOK, RunsOK, ResultsOK, LinkedRunTrainsTheDraft, Started
    <2>4. \A c \in Callers : CallOK(c)'
      BY <2>1 DEF IInv, CallOK, Started
    <2>5. QED
      BY <2>2, <2>3, <2>4 DEF IInv, TypeOK
<1>2. ASSUME NEW scope \in Scopes, NEW key \in Keys \cup {None}, NEW command \in Commands,
             Create(scope, key, command)
      PROVE  IInv'
  BY <1>2, CreateKeeps
<1>3. ASSUME NEW c \in Clients, ClientNext(c)
      PROVE  IInv'
  BY <1>3, ClientKeeps
<1>4. CASE LoopBegins
  BY <1>4, LoopBeginsKeeps
<1>5. ASSUME NEW d \in DOMAIN drafts, Advance(d)
      PROVE  IInv'
  BY <1>5, AdvanceKeeps
<1>6. ASSUME NEW c \in Callers, GetRun(c) \/ CreateResult(c)
      PROVE  IInv'
  BY <1>6, GetRunKeeps, CreateResultKeeps
<1>7. CASE Crash
  BY <1>7, CrashKeeps
<1>8. QED
  BY <1>1, <1>2, <1>3, <1>4, <1>5, <1>6, <1>7 DEF Next

-----------------------------------------------------------------------------
(* What holds of every behaviour.                                          *)

(* What a call that holds the service lock has read stays what is stored,  *)
(* although calls fail half way and the process is killed at any point     *)
(* (product_service.py, every "with self._lock").                          *)
THEOREM Invariance ==
  ASSUME DraftAssumption
  PROVE  Spec => []IInv
<1>1. Init => IInv
  BY InitIInv
<1>2. IInv /\ [Next]_vars => IInv'
  BY NextKeeps
<1>3. QED
  BY <1>1, <1>2, PTL DEF Spec

(* Type correctness of the resources, the runs and the calls.              *)
THEOREM TypeCorrect ==
  ASSUME DraftAssumption
  PROVE  Spec => []TypeOK
<1>1. IInv => TypeOK
  BY DEF IInv
<1>2. QED
  BY <1>1, Invariance, PTL

\* Two answers under one key are of the one receipt of that key.
LEMMA RepeatsAgree ==
  ASSUME IInv
  PROVE  RepeatsGetTheSameDraft
<1> SUFFICES ASSUME NEW t \in told.drafts
             PROVE  /\ drafts[t.draft].scope = t.scope /\ drafts[t.draft].command = t.command
                    /\ \A u \in told.drafts : (u.scope = t.scope /\ u.key = t.key) => u.draft = t.draft
  BY DEF RepeatsGetTheSameDraft
<1>1. PICK receipt \in receipts : /\ t.scope = receipt.scope /\ t.key = receipt.key
                                  /\ t.command = receipt.command /\ t.draft = receipt.draft
  BY DEF IInv, ImportsOK
<1>2. drafts[t.draft].scope = t.scope /\ drafts[t.draft].command = t.command
  BY <1>1 DEF IInv, ImportsOK
<1>3. ASSUME NEW u \in told.drafts, u.scope = t.scope, u.key = t.key
      PROVE  u.draft = t.draft
    <2>1. PICK other \in receipts : /\ u.scope = other.scope /\ u.key = other.key
                                    /\ u.draft = other.draft
      BY <1>3 DEF IInv, ImportsOK
    <2>2. \A r, s \in receipts : (r.scope = s.scope /\ r.key = s.key) => r = s
      BY DEF IInv, ImportsOK
    <2>3. other.scope = receipt.scope /\ other.key = receipt.key
      BY <1>1, <1>3, <2>1
    <2>4. other = receipt
      BY <2>2, <2>3
    <2>5. QED
      BY <1>1, <2>1, <2>4
<1>4. QED
  BY <1>2, <1>3

\* The invariant says all that the runs check.
LEMMA DraftsHold ==
  ASSUME IInv
  PROVE  DraftsAreSound
<1>1. TypeOK /\ OneRunPerDraft /\ LinkedRunTrainsTheDraft /\ ResultsAgree
  BY DEF IInv, RunsOK, OneRunPerDraft, ResultsOK, ResultsAgree
<1>2. CancelledRunsAreMarked
    <2>1. \A d \in DOMAIN drafts : Started(d) =>
             drafts[d].run \in DOMAIN runs /\ runs[drafts[d].run].plan.draft = d
      BY DEF IInv, TypeOK, StoreTypeOK, LinkedRunTrainsTheDraft, Started
    <2>2. QED
      BY <2>1 DEF IInv, RunsOK, CancelledRunsAreMarked
<1>3. ResultsKeepTheirScope
  BY DEF IInv, ResultsOK, ResultsKeepTheirScope, LinkedRunTrainsTheDraft
<1>4. QED
  BY <1>1, <1>2, <1>3, RepeatsAgree DEF DraftsAreSound

(* The import is idempotent: in a scope, a key is answered with one draft, *)
(* of that scope and of the command (ProductStore.create_draft).           *)
THEOREM ImportsAreIdempotent ==
  ASSUME DraftAssumption
  PROVE  Spec => []RepeatsGetTheSameDraft
BY RepeatsAgree, Invariance, PTL

(* There is one run for a draft, over retries, failed saves, kills and     *)
(* upgrades of the host (YieldService.start_run_resource).                 *)
THEOREM DraftsHaveOneRun ==
  ASSUME DraftAssumption
  PROVE  Spec => []OneRunPerDraft
<1>1. IInv => OneRunPerDraft
  BY DraftsHold DEF DraftsAreSound
<1>2. QED
  BY <1>1, Invariance, PTL

(* The run that a draft names was accepted for it, with the configuration  *)
(* that the draft shows and with its inputs staged                         *)
(* (YieldService.start_run_resource, _stage_spec).                         *)
THEOREM RunsTrainTheirDraft ==
  ASSUME DraftAssumption
  PROVE  Spec => []LinkedRunTrainsTheDraft
<1>1. IInv => LinkedRunTrainsTheDraft
  BY DraftsHold DEF DraftsAreSound
<1>2. QED
  BY <1>1, Invariance, PTL

(* A run is asked to stop only after its draft says that this was wanted   *)
(* (YieldService.cancel_run_resource).                                     *)
THEOREM CancellationIsMarkedFirst ==
  ASSUME DraftAssumption
  PROVE  Spec => []CancelledRunsAreMarked
<1>1. IInv => CancelledRunsAreMarked
  BY DraftsHold DEF DraftsAreSound
<1>2. QED
  BY <1>1, Invariance, PTL

(* Whoever reads the result of a run is answered the same one, although    *)
(* the loop and the readers compose it without excluding each other        *)
(* (ProductStore.create_result).                                           *)
THEOREM ReadersAgree ==
  ASSUME DraftAssumption
  PROVE  Spec => []ResultsAgree
<1>1. IInv => ResultsAgree
  BY DraftsHold DEF DraftsAreSound
<1>2. QED
  BY <1>1, Invariance, PTL

(* The result of a run has the scope of its draft, whoever composed it     *)
(* (YieldService.get_run_resource, product_store.py create_result).        *)
THEOREM ResultsStayPrivate ==
  ASSUME DraftAssumption
  PROVE  Spec => []ResultsKeepTheirScope
<1>1. IInv => ResultsKeepTheirScope
  BY DraftsHold DEF DraftsAreSound
<1>2. QED
  BY <1>1, Invariance, PTL

(* All of it together, which is what the runs check on small instances     *)
(* (YieldService, ProductStore).                                           *)
THEOREM DraftsStaySound ==
  ASSUME DraftAssumption
  PROVE  Spec => []DraftsAreSound
BY DraftsHold, Invariance, PTL

\* A step that writes a draft adds one, or saves what the call that has the lock has
\* read of it and changed.
LEMMA DraftsGrow ==
  ASSUME DraftAssumption, IInv, [Next]_vars
  PROVE  DraftsAreNotRolledBack
<1>1. CASE UNCHANGED drafts
  BY <1>1 DEF DraftsAreNotRolledBack, Started
<1>2. ASSUME NEW c \in Callers, NEW document, SavesWell(c, document)
      PROVE  DraftsAreNotRolledBack
    <2>1. drafts' = [drafts EXCEPT ![call[c].draft] = document] /\ call[c].draft \in DOMAIN drafts
      BY <1>2 DEF SavesWell, Saves
    <2>2. QED
      BY <1>2, <2>1 DEF SavesWell, DraftsAreNotRolledBack, Started
<1>3. ASSUME NEW scope \in Scopes, NEW key \in Keys \cup {None}, NEW command \in Commands,
             Create(scope, key, command)
      PROVE  DraftsAreNotRolledBack
    <2>1. CASE drafts' = Append(drafts, NewDraft(scope, command))
        <3>1. drafts \in Seq(Draft)
          BY DEF IInv, TypeOK, StoreTypeOK
        <3>2. \A d \in DOMAIN drafts : drafts'[d] = drafts[d]
          BY <2>1, <3>1
        <3>3. QED
          BY <3>2 DEF DraftsAreNotRolledBack
    <2>2. QED
      BY <1>1, <1>3, <2>1 DEF Create
<1>4. ASSUME NEW c \in Clients, ClientNext(c)
      PROVE  DraftsAreNotRolledBack
    <2>1. c \in Callers
      BY DEF Callers
    <2>2. CASE Prepare(c)
      BY <1>1, <1>2, <2>1, <2>2, PrepareSaves DEF Prepare
    <2>3. CASE Link(c)
      BY <1>1, <1>2, <2>1, <2>3, LinkSaves DEF Link
    <2>4. CASE CancelMark(c)
      BY <1>2, <2>1, <2>4, CancelMarkSaves
    <2>5. CASE StartAgain(c) \/ StartUnprepared(c) \/ Stage(c) \/ Submit(c) \/ CancelRequest(c) \/ Lock(c)
      BY <1>1, <2>5 DEF StartAgain, StartUnprepared, Stage, Submit, CancelRequest, Lock
    <2>6. ASSUME NEW d \in DOMAIN drafts
          PROVE  /\ CancelArrives(c, d) => UNCHANGED drafts
                 /\ \A scope \in Scopes : /\ StartArrives(c, d, scope) => UNCHANGED drafts
                                          /\ GetArrives(c, d, scope) => UNCHANGED drafts
                                          /\ \A configuration \in Configurations :
                                               PrepareArrives(c, d, scope, configuration) => UNCHANGED drafts
      BY DEF CancelArrives, StartArrives, GetArrives, PrepareArrives
    <2>7. QED
      BY <1>1, <1>4, <2>2, <2>3, <2>4, <2>5, <2>6 DEF ClientNext
<1>5. CASE UNCHANGED vars \/ LoopBegins \/ Crash
  BY <1>1, <1>5 DEF vars, LoopBegins, Crash
<1>6. ASSUME NEW d \in DOMAIN drafts, Advance(d)
      PROVE  DraftsAreNotRolledBack
  BY <1>1, <1>6 DEF Advance
<1>7. ASSUME NEW c \in Callers, GetRun(c) \/ CreateResult(c)
      PROVE  DraftsAreNotRolledBack
  BY <1>1, <1>7 DEF GetRun, CreateResult
<1>8. QED
  BY <1>3, <1>4, <1>5, <1>6, <1>7 DEF Next

(* Calls that write the whole draft never take back the run it names, nor  *)
(* that it is to be cancelled (product_service.py: get, change, save, all  *)
(* under the lock).                                                        *)
THEOREM NoRollBack ==
  ASSUME DraftAssumption
  PROVE  Spec => [][DraftsAreNotRolledBack]_vars
<1>1. IInv /\ [Next]_vars => DraftsAreNotRolledBack
  BY DraftsGrow
<1>2. QED
  BY <1>1, Invariance, PTL DEF Spec

=============================================================================
