---------------------------- MODULE ExecutionProofs ----------------------------
(***************************************************************************)
(* Proofs about the components of Execution, for every value of their      *)
(* constants: whom the adapter is connected to and which events it makes   *)
(* (EngineConnection), what is left of a checkpoint whatever is killed     *)
(* half way (CheckpointDirectory), what becomes of the lines of a worker   *)
(* (WorkerOutput), which environments run (PlannedEnvironment), and that   *)
(* all of them hold when the components are put side by side.              *)
(***************************************************************************)
EXTENDS Execution, SequenceTheorems, FiniteSetTheorems, WellFoundedInduction, TLAPS

Events == [line : Nat, kind : {"log", "event"}]

\* The invariant holds when the process starts.
LEMMA InitIInv == Init => IInv
  BY DEF Init, IInv, NoConnection, Idle, NoSession, At, Parsing, EventsAreInOrder

-----------------------------------------------------------------------------
(* Every step keeps the invariant: one lemma per effect on the session.    *)

\* The numbers of the session.
LEMMA TypedLines ==
  ASSUME IInv
  PROVE  /\ session.next \in Nat /\ session.read \in Nat /\ Len(session.events) \in Nat
         /\ session.events \in Seq(Events)
         /\ \A m \in 1..Len(session.events) : session.events[m].line \in Nat
<1>1. /\ session.next \in Nat /\ session.read \in Nat
      /\ session.events \in Seq(Events)
  BY DEF IInv, Events
<1>2. \A m \in 1..Len(session.events) : session.events[m] \in Events
  BY <1>1, ElementOfSeq
<1>3. Len(session.events) \in Nat
  BY <1>1, LenProperties
<1>4. QED
  BY <1>1, <1>2, <1>3 DEF Events

\* What is outside of the session, and does not disturb it.
Outside ==
  /\ connection' \in [endpoint : Endpoints \cup {Nobody}, via : Installations \cup {Nobody}]
  /\ binding' \in [installation : Installations, endpoint : Endpoints, up : BOOLEAN]
  /\ installed' \subseteq Installations
  /\ worker' \in [printed : Nat, exited : BOOLEAN]
  /\ worker'.printed >= worker.printed

\* The same session: the call may go on only if a line is left for it.
LEMMA SameSession ==
  ASSUME IInv, Outside, UNCHANGED session,
         thread'.at \in {"idle", "resolve", "installation", "invoke", "line", "exit"},
         thread'.seen \in [endpoint : Endpoints \cup {Nobody}, via : Installations \cup {Nobody}],
         DOMAIN thread' = {"at", "purpose", "seen"},
         At("line")' \/ (Parsing' /\ thread'.at \in {"resolve", "installation", "invoke"}) =>
           session.next <= session.read
  PROVE  IInv'
  BY DEF IInv, Outside, EventsAreInOrder, At, Parsing

\* A line is parsed, with an event or without.
LEMMA ParsedStep ==
  ASSUME IInv, Outside, session.next <= session.read,
         NEW events \in {session.events, With("log"), With("event")}, Parsed(events)
  PROVE  IInv'
<1>1. /\ session'.next = session.next + 1 /\ session'.events = events
      /\ session'.read = session.read /\ session'.state = session.state
      /\ DOMAIN session' = DOMAIN session
  BY DEF Parsed, IInv
<1>2. /\ thread'.at = IF session.next < session.read THEN "line" ELSE "exit"
      /\ thread'.seen = thread.seen
      /\ DOMAIN thread' = DOMAIN thread
  BY DEF Parsed, Resumes, Done, IInv
<1>3. /\ events \in Seq(Events)
      /\ \A m \in 1..Len(events) : events[m].line < session.next + 1
      /\ \A m, n \in 1..Len(events) : m < n => events[m].line < events[n].line
  <2>1. CASE events = session.events
    BY <2>1, TypedLines DEF IInv, EventsAreInOrder
  <2>2. CASE events # session.events
    <3>1. PICK kind \in {"log", "event"} : events = Append(session.events, [line |-> session.next, kind |-> kind])
      BY <2>2 DEF With
    <3>2. [line |-> session.next, kind |-> kind] \in Events
      BY TypedLines DEF Events
    <3>3. /\ events \in Seq(Events)
          /\ Len(events) = Len(session.events) + 1
          /\ \A m \in 1..Len(session.events) : events[m] = session.events[m]
          /\ events[Len(session.events) + 1].line = session.next
      <4>1. events[Len(session.events) + 1] = [line |-> session.next, kind |-> kind]
        BY <3>1, <3>2, TypedLines, AppendProperties
      <4>2. QED
        BY <3>1, <3>2, <4>1, TypedLines, AppendProperties
    <3>4. /\ Len(session.events) \in Nat
          /\ \A m \in 1..Len(events) : m \in 1..Len(session.events) \/ m = Len(session.events) + 1
      BY <3>3, TypedLines
    <3>5. \A m \in 1..Len(events) : events[m].line < session.next + 1
      <4>1. \A m \in 1..Len(session.events) : events[m].line < session.next + 1
        BY <3>3, TypedLines DEF IInv
      <4>2. events[Len(session.events) + 1].line < session.next + 1
        BY <3>3, TypedLines
      <4>3. QED
        BY <3>4, <4>1, <4>2
    <3>6. \A m, n \in 1..Len(events) : m < n => m \in 1..Len(session.events)
      BY <3>3, TypedLines
    <3>7. \A m, n \in 1..Len(events) : m < n => events[m].line < events[n].line
      <4>1. SUFFICES ASSUME NEW m \in 1..Len(events), NEW n \in 1..Len(events), m < n
                     PROVE  events[m].line < events[n].line
        OBVIOUS
      <4>2. m \in 1..Len(session.events) /\ events[m] = session.events[m]
        BY <3>3, <3>6, <4>1
      <4>3. CASE n \in 1..Len(session.events)
        BY <3>3, <4>1, <4>2, <4>3 DEF IInv, EventsAreInOrder
      <4>4. CASE n = Len(session.events) + 1
        BY <3>3, <4>2, <4>4 DEF IInv
      <4>5. QED
        BY <3>4, <4>3, <4>4
    <3>8. QED
      BY <3>3, <3>5, <3>7
  <2>3. QED
    BY <2>1, <2>2
<1>4. session' \in [state : {"none", "live", "ended", "failed"}, read : Nat, next : Nat,
                    events : Seq(Events)]
  <2>1. session' = [session EXCEPT !.next = session.next + 1, !.events = events]
    BY DEF Parsed
  <2>2. session.next + 1 \in Nat
    BY TypedLines
  <2>3. QED
    BY <2>1, <2>2, <1>3 DEF IInv
<1>5. QED
  BY <1>1, <1>2, <1>3, <1>4 DEF IInv, Events, Outside, EventsAreInOrder, At, Parsing

\* The rest of a chunk is dropped.
LEMMA AbortStep ==
  ASSUME IInv, Outside, Abort
  PROVE  IInv'
<1>1. /\ session'.next = session.read + 1 /\ session'.events = session.events
      /\ session'.read = session.read
      /\ session' \in [state : {"none", "live", "ended", "failed"}, read : Nat, next : Nat,
                       events : Seq(Events)]
  <2>1. session' = [session EXCEPT !.next = session.read + 1] /\ session.read + 1 \in Nat
    BY DEF Abort, IInv
  <2>2. QED
    BY <2>1 DEF IInv, Events
<1>2. thread'.at = "idle" /\ thread'.seen = thread.seen /\ DOMAIN thread' = DOMAIN thread
  BY DEF Abort, Done, IInv
<1>3. \A m \in 1..Len(session.events) : session.events[m].line < session.read + 1
  BY TypedLines DEF IInv
<1>4. QED
  BY <1>1, <1>2, <1>3, TypedLines DEF IInv, Outside, EventsAreInOrder, At, Parsing

\* A compilation that ends changes no more than the state of the session.
LEMMA CompiledStep ==
  ASSUME IInv, Outside, NEW state \in {"live", "failed"},
         session' = [session EXCEPT !.state = state], Done("idle")
  PROVE  IInv'
<1>1. /\ session'.next = session.next /\ session'.events = session.events
      /\ session'.read = session.read
      /\ session' \in [state : {"none", "live", "ended", "failed"}, read : Nat, next : Nat,
                       events : Seq(Events)]
  BY DEF Events, IInv
<1>2. thread'.at = "idle" /\ thread'.seen = thread.seen /\ DOMAIN thread' = DOMAIN thread
  BY DEF Done, IInv
<1>3. QED
  BY <1>1, <1>2 DEF IInv, Events, Outside, EventsAreInOrder, At, Parsing

\* Wherever a call goes wrong, a compilation fails and a line is lost or logged.
LEMMA RefusedStep ==
  ASSUME IInv, Outside, Refused
  PROVE  IInv'
  BY AbortStep, CompiledStep DEF Refused, Fail

LEMMA UnavailableStep ==
  ASSUME IInv, Outside, Unavailable, At("resolve") \/ At("invoke")
  PROVE  IInv'
<1>1. CASE Parsing
  <2>1. session.next <= session.read /\ Parsed(With("log"))
    BY <1>1 DEF Unavailable, IInv, At
  <2>2. QED
    BY <2>1, ParsedStep
<1>2. CASE ~Parsing
  BY <1>2, CompiledStep DEF Unavailable, Fail
<1>3. QED
  BY <1>1, <1>2

LEMMA AnsweredStep ==
  ASSUME IInv, Outside, NEW answer, Answered(answer), At("invoke")
  PROVE  IInv'
<1>1. CASE Parsing
  <2>1. session.next <= session.read
    BY <1>1 DEF IInv, At
  <2>2. CASE answer = "event"
    <3>1. Parsed(With("event"))
      BY <1>1, <2>2 DEF Answered
    <3>2. QED
      BY <2>1, <3>1, ParsedStep
  <2>3. CASE answer = "nothing"
    <3>1. Parsed(session.events)
      BY <1>1, <2>3 DEF Answered
    <3>2. QED
      BY <2>1, <3>1, ParsedStep
  <2>4. CASE answer \notin {"event", "nothing"}
    <3>1. Abort
      BY <1>1, <2>4 DEF Answered
    <3>2. QED
      BY <3>1, AbortStep
  <2>5. QED
    BY <2>2, <2>3, <2>4
<1>2. CASE ~Parsing
  <2>1. PICK state \in {"live", "failed"} :
          session' = [session EXCEPT !.state = state] /\ Done("idle")
    <3>1. CASE answer = "event"
      BY <1>2, <3>1 DEF Answered
    <3>2. CASE answer = "nothing"
      BY <1>2, <3>2 DEF Answered, Fail
    <3>3. CASE answer \notin {"event", "nothing"}
      BY <1>2, <3>3 DEF Answered, Fail
    <3>4. QED
      BY <3>1, <3>2, <3>3
  <2>2. QED
    BY <2>1, CompiledStep
<1>3. QED
  BY <1>1, <1>2

\* The invariant is inductive.
LEMMA NextIInv == IInv /\ [Next]_vars => IInv'
<1> SUFFICES ASSUME IInv, [Next]_vars PROVE IInv'
  OBVIOUS
<1>1. CASE Compile
  <2>1. Outside
    BY <1>1 DEF Compile, IInv, Outside
  <2>2. QED
    BY <1>1, <2>1, SameSession DEF Compile, Calls, Idle, NoConnection, At, Parsing
<1>2. CASE ReadStatus
  <2>1. Outside
    BY <1>2 DEF ReadStatus, IInv, Outside
  <2>2. CASE binding.up
    <3>1. /\ At("resolve") /\ UNCHANGED session
          /\ thread' = [thread EXCEPT !.at = "installation",
               !.seen = [endpoint |-> binding.endpoint, via |-> binding.installation]]
      BY <1>2, <2>2 DEF ReadStatus
    <3>2. /\ thread'.at = "installation" /\ thread'.purpose = thread.purpose
          /\ thread'.seen = [endpoint |-> binding.endpoint, via |-> binding.installation]
          /\ DOMAIN thread' = {"at", "purpose", "seen"}
      BY <3>1 DEF IInv
    <3>3. thread'.seen \in [endpoint : Endpoints \cup {Nobody}, via : Installations \cup {Nobody}]
      BY <3>2 DEF IInv
    <3>4. QED
      BY <2>1, <3>1, <3>2, <3>3, SameSession DEF IInv, At, Parsing
  <2>3. CASE ~binding.up
    BY <1>2, <2>1, <2>3, RefusedStep DEF ReadStatus
  <2>4. QED
    BY <2>2, <2>3
<1>3. CASE ReadInstallation
  <2>1. Outside
    BY <1>3 DEF ReadInstallation, IInv, Outside
  <2>2. CASE Approved(Record)
    BY <1>3, <2>1, <2>2, SameSession DEF ReadInstallation, IInv, At, Parsing
  <2>3. CASE ~Approved(Record)
    BY <1>3, <2>1, <2>3, RefusedStep DEF ReadInstallation
  <2>4. QED
    BY <2>2, <2>3
<1>4. CASE UseConfigured
  <2>1. Outside
    BY <1>4, ConnectionAssumption DEF UseConfigured, IInv, Outside
  <2>2. CASE Configured = Nobody
    BY <1>4, <2>1, <2>2, UnavailableStep DEF UseConfigured
  <2>3. CASE Configured # Nobody
    BY <1>4, <2>1, <2>3, SameSession DEF UseConfigured, IInv, At, Parsing
  <2>4. QED
    BY <2>2, <2>3
<1>5. CASE Invoke
  <2>1. Outside /\ At("invoke")
    BY <1>5 DEF Invoke, IInv, Outside
  <2>2. CASE Reached
    BY <1>5, <2>1, <2>2, AnsweredStep DEF Invoke
  <2>3. CASE ~Reached
    BY <1>5, <2>1, <2>3, UnavailableStep DEF Invoke
  <2>4. QED
    BY <2>2, <2>3
<1>6. CASE ReadOutput
  <2>1. PICK n \in Flushed :
          IF Overflows(n) THEN UNCHANGED <<session, thread>>
          ELSE /\ session' = [session EXCEPT !.read = n]
               /\ thread' = [Idle EXCEPT !.at = IF n = session.read THEN "exit" ELSE "line"]
    BY <1>6 DEF ReadOutput
  <2>2. n \in Nat /\ session.read <= n /\ n <= worker.printed
    BY DEF Flushed, IInv
  <2>3. UNCHANGED <<binding, installed, connection, worker>>
    BY <1>6 DEF ReadOutput
  <2>4. CASE Overflows(n)
    BY <2>1, <2>3, <2>4 DEF IInv, EventsAreInOrder, At, Parsing
  <2>5. CASE ~Overflows(n)
    <3>1. /\ session' \in [state : {"none", "live", "ended", "failed"}, read : Nat, next : Nat,
                           events : Seq(Events)]
          /\ session'.read = n /\ session'.next = session.next
          /\ session'.events = session.events
      BY <2>1, <2>2, <2>5 DEF IInv, Events
    <3>2. /\ thread'.at = (IF n = session.read THEN "exit" ELSE "line")
          /\ thread'.purpose = "compile" /\ thread'.seen = NoConnection
          /\ DOMAIN thread' = {"at", "purpose", "seen"}
      BY <2>1, <2>5 DEF Idle
    <3>3. QED
      BY <2>2, <2>3, <3>1, <3>2 DEF IInv, EventsAreInOrder, At, Parsing, NoConnection
  <2>6. QED
    BY <2>4, <2>5
<1>7. CASE ParseEvent
  <2>1. Outside
    BY <1>7 DEF ParseEvent, IInv, Outside
  <2>2. session.next <= session.read
    BY <1>7 DEF ParseEvent, IInv
  <2>3. QED
    BY <1>7, <2>1, <2>2, SameSession DEF ParseEvent, Calls, Idle, NoConnection, At, Parsing
<1>8. CASE ReadExit
  <2>1. /\ session'.next = session.next /\ session'.events = session.events
        /\ session'.read = session.read
        /\ session' \in [state : {"none", "live", "ended", "failed"}, read : Nat, next : Nat,
                         events : Seq(Events)]
    BY <1>8 DEF ReadExit, IInv, Events
  <2>2. thread'.at = "idle" /\ thread'.seen = thread.seen /\ DOMAIN thread' = DOMAIN thread
    BY <1>8 DEF ReadExit, IInv
  <2>3. QED
    BY <1>8, <2>1, <2>2 DEF ReadExit, IInv, EventsAreInOrder, At, Parsing
<1>9. CASE Prints \/ Exits
  <2>1. Outside
    <3>1. UNCHANGED <<binding, installed, connection>>
      BY <1>9 DEF Prints, Exits
    <3>2. worker' = [worker EXCEPT !.printed = @ + 1] \/ worker' = [worker EXCEPT !.exited = TRUE]
      BY <1>9 DEF Prints, Exits
    <3>3. worker' \in [printed : Nat, exited : BOOLEAN] /\ worker'.printed >= worker.printed
      <4>1. worker.printed \in Nat /\ worker \in [printed : Nat, exited : BOOLEAN]
        BY DEF IInv
      <4>2. worker.printed + 1 \in Nat /\ worker.printed + 1 >= worker.printed
        BY <4>1
      <4>3. CASE worker' = [worker EXCEPT !.printed = @ + 1]
        BY <4>1, <4>2, <4>3
      <4>4. CASE worker' = [worker EXCEPT !.exited = TRUE]
        <5>1. worker'.printed = worker.printed
          BY <4>1, <4>4
        <5>2. worker' \in [printed : Nat, exited : BOOLEAN]
          BY <4>1, <4>4, Zenon
        <5>3. QED
          BY <4>1, <5>1, <5>2
      <4>5. QED
        BY <3>2, <4>3, <4>4
    <3>4. QED
      BY <3>1, <3>3 DEF IInv, Outside
  <2>2. QED
    BY <1>9, <2>1, SameSession DEF Prints, Exits, IInv, At, Parsing
<1>10. CASE Activate \/ Deactivate \/ Uninstall
  <2>1. Outside /\ UNCHANGED <<thread, session>>
    <3>1. UNCHANGED <<thread, session, connection, worker>>
      BY <1>10 DEF Activate, Deactivate, Uninstall, Changes
    <3>2. binding' \in [installation : Installations, endpoint : Endpoints, up : BOOLEAN]
      <4>1. CASE Activate
        <5>1. PICK i \in installed, e \in Endpoints :
                binding' = [installation |-> i, endpoint |-> e, up |-> TRUE]
          BY <4>1 DEF Activate
        <5>2. QED
          BY <5>1 DEF IInv
      <4>2. CASE Deactivate
        BY <4>2 DEF Deactivate, IInv
      <4>3. CASE Uninstall
        BY <4>3 DEF Uninstall, IInv
      <4>4. QED
        BY <1>10, <4>1, <4>2, <4>3
    <3>3. installed' \subseteq Installations
      BY <1>10 DEF Activate, Deactivate, Uninstall, IInv
    <3>4. QED
      BY <3>1, <3>2, <3>3 DEF IInv, Outside
  <2>2. QED
    BY <2>1, SameSession DEF IInv, At, Parsing
<1>11. CASE Restart
  <2>1. /\ connection' = NoConnection /\ thread' = Idle
        /\ UNCHANGED <<binding, installed, worker>>
    BY <1>11 DEF Restart
  <2>2. CASE session.state = "live"
    <3>1. session' = [NoSession EXCEPT !.state = "live"]
      BY <1>11, <2>2 DEF Restart
    <3>2. /\ session' \in [state : {"none", "live", "ended", "failed"}, read : Nat, next : Nat,
                           events : Seq(Events)]
          /\ session'.read = 0 /\ session'.next = 1
          /\ session'.events = <<>> /\ Len(<<>>) = 0
      BY <3>1, EmptySeq DEF NoSession
    <3>3. 0 <= worker.printed
      BY DEF IInv
    <3>4. QED
      BY <2>1, <3>2, <3>3 DEF IInv, NoSession, NoConnection, Idle, EventsAreInOrder, At, Parsing
  <2>3. CASE session.state # "live"
    <3>1. session' = session \/ session' = [session EXCEPT !.state = "failed"]
      BY <1>11, <2>3 DEF Restart
    <3>2. /\ session'.next = session.next /\ session'.events = session.events
          /\ session'.read = session.read
          /\ session' \in [state : {"none", "live", "ended", "failed"}, read : Nat, next : Nat,
                           events : Seq(Events)]
      BY <3>1 DEF IInv, Events
    <3>3. QED
      BY <2>1, <3>2 DEF IInv, NoConnection, Idle, EventsAreInOrder, At, Parsing
  <2>4. QED
    BY <2>2, <2>3
<1>12. CASE UNCHANGED vars
    <2>1. UNCHANGED <<binding, installed, connection, thread, session, worker, changes>>
      BY <1>12 DEF vars
    <2>2. QED
      BY <2>1 DEF IInv, EventsAreInOrder, At, Parsing
<1>13. QED
  BY <1>1, <1>2, <1>3, <1>4, <1>5, <1>6, <1>7, <1>8, <1>9, <1>10, <1>11, <1>12 DEF Next, Steps

-----------------------------------------------------------------------------
(* The inductive invariant holds in every reachable state of the adapter   *)
(* and the poll of EngineConnection.                                       *)
THEOREM Inductive == Spec => []IInv
<1>1. QED
  BY InitIInv, NextIInv, PTL DEF Spec

(* The calls and the session keep their types: a line is parsed only after *)
(* it was read (TrainingRuntime.poll and parse_event).                     *)
THEOREM TypesAreRight == Spec => []TypeOK
<1>1. IInv => TypeOK
  BY DEF IInv, TypeOK, At, Parsing
<1>2. QED
  BY <1>1, Inductive, PTL

(* No line of output becomes an event twice, and the events of a session   *)
(* are in the order of the output, through failures and restarts.          *)
THEOREM EventsStayInOrder == Spec => []EventsAreInOrder
<1>1. IInv => EventsAreInOrder
  BY DEF IInv
<1>2. QED
  BY <1>1, Inductive, PTL

(* However the binding moves between the two reads of the resolution, the  *)
(* adapter keeps only an endpoint that was served by the approved package. *)
THEOREM ConnectsOnlyToTheApproved == Spec => []ConnectedToTheApproved
<1>1. Init => ConnectedToTheApproved
  BY DEF Init, NoConnection, ConnectedToTheApproved
<1>2. ConnectedToTheApproved /\ [Next]_vars => ConnectedToTheApproved'
  <2> SUFFICES ASSUME ConnectedToTheApproved, [Next]_vars PROVE ConnectedToTheApproved'
    OBVIOUS
  <2>1. CASE ReadInstallation
    BY <2>1 DEF ReadInstallation, Approved, Record, ConnectedToTheApproved
  <2>2. CASE UseConfigured
    BY <2>2 DEF UseConfigured, ConnectedToTheApproved
  <2>3. CASE Restart
    BY <2>3 DEF Restart, NoConnection, ConnectedToTheApproved
  <2>4. CASE UNCHANGED connection
    BY <2>4 DEF ConnectedToTheApproved
  <2>5. QED
    BY <2>1, <2>2, <2>3, <2>4
    DEF Next, Steps, vars, Compile, ReadStatus, Invoke, ReadOutput, ParseEvent, ReadExit,
        Prints, Exits, Activate, Deactivate, Uninstall, Changes
<1>3. QED
  BY <1>1, <1>2, PTL DEF Spec

-----------------------------------------------------------------------------
(* The checkpoints.                                                        *)

\* A set of steps that is not empty has a greatest member.
LEMMA GreatestStep ==
  ASSUME NEW S, S \subseteq Checkpoints!Steps, S # {}
  PROVE  /\ Checkpoints!Max(S) \in S
         /\ \A s \in S : s <= Checkpoints!Max(S)
<1> DEFINE T == {MaxStep - s : s \in S}
<1>1. MaxStep \in Nat
  BY ExecutionAssumption DEF Checkpoints!CheckpointAssumption
<1>2. T \subseteq Nat /\ T # {}
  <2>1. \A s \in S : s \in Nat /\ s <= MaxStep
    BY <1>1 DEF Checkpoints!Steps
  <2>2. \A s \in S : MaxStep - s \in Nat
    BY <1>1, <2>1
  <2>3. QED
    BY <2>2
<1>3. PICK t \in T : \A u \in T : ~(<<u, t>> \in OpToRel(<, Nat))
  <2> HIDE DEF T
  <2>1. QED
    BY <1>2, NatLessThanWellFounded, WFMin
<1>4. \A u \in T : t <= u
  <2> HIDE DEF T
  <2>1. t \in Nat /\ \A u \in T : u \in Nat
    BY <1>2
  <2>2. \A u \in T : ~(u < t)
    BY <1>3, <2>1 DEF OpToRel
  <2>3. QED
    BY <2>1, <2>2
<1>5. PICK m \in S : t = MaxStep - m
  OBVIOUS
<1>6. \A s \in S : m >= s
  BY <1>1, <1>4, <1>5 DEF Checkpoints!Steps
<1>7. QED
  BY <1>6 DEF Checkpoints!Max, Checkpoints!Steps

\* What the invariant says of types.
LEMMA DirectoriesAreTyped ==
  ASSUME Checkpoints!IInv
  PROVE  /\ exists \subseteq Checkpoints!Steps /\ saves \in Nat /\ tries \in Nat
         /\ \A s \in Checkpoints!Steps :
              /\ weights[s] \in {-1, 0} \cup 1..saves /\ weights[s] \in Int
              /\ meta[s] \in {-1, 0} \cup 1..saves /\ meta[s] \in Int
         /\ DOMAIN weights = Checkpoints!Steps /\ DOMAIN meta = Checkpoints!Steps
         /\ \A s \in Checkpoints!Steps : s \in Nat /\ s > 0
         /\ save.step \in 0..MaxStep /\ save.remove \subseteq exists
         /\ save = [at |-> save.at, step |-> save.step, remove |-> save.remove]
         /\ Checkpoints!Listed \subseteq exists /\ overwritten \subseteq exists
  BY ExecutionAssumption
  DEF Checkpoints!CheckpointAssumption, Checkpoints!IInv, Checkpoints!TypeInv, Checkpoints!Steps,
      Checkpoints!Listed, Checkpoints!Torn, Checkpoints!Nothing

\* The cardinality of the instance is that of the theorems.
LEMMA SameCardinality ==
  ASSUME NEW S
  PROVE  Checkpoints!Cardinality(S) = Cardinality(S)
  BY DEF Checkpoints!Cardinality, Cardinality

\* Sets of steps are finite.
LEMMA StepsAreFinite ==
  ASSUME NEW S, S \subseteq Checkpoints!Steps
  PROVE  IsFiniteSet(S) /\ Cardinality(S) \in Nat
<1>1. IsFiniteSet(Checkpoints!Steps)
  BY ExecutionAssumption, FS_Interval DEF Checkpoints!CheckpointAssumption, Checkpoints!Steps
<1>2. QED
  BY <1>1, FS_Subset, FS_CardinalityType

\* A save that is not under way claims nothing.
LEMMA IdleClaimsNothing ==
  ASSUME save = Checkpoints!Idle
  PROVE  /\ Checkpoints!SaveInv /\ Checkpoints!LimitInv
         /\ save \in [at : {"idle", "weights", "meta", "select", "remove", "done"},
                      step : 0..MaxStep, remove : SUBSET exists]
  BY ExecutionAssumption
  DEF Checkpoints!CheckpointAssumption, Checkpoints!Idle, Checkpoints!At, Checkpoints!SaveInv,
      Checkpoints!LimitInv

LEMMA CheckpointsBegin == Checkpoints!Init => Checkpoints!IInv
<1> SUFFICES ASSUME Checkpoints!Init PROVE Checkpoints!IInv
  OBVIOUS
<1>1. Checkpoints!TypeInv
  <2>1. /\ weights \in [Checkpoints!Steps -> {-1, 0} \cup 1..saves]
        /\ meta \in [Checkpoints!Steps -> {-1, 0} \cup 1..saves]
        /\ \A s \in Checkpoints!Steps : weights[s] = 0 /\ meta[s] = 0
    BY DEF Checkpoints!Init, Checkpoints!Nothing
  <2>2. save = Checkpoints!Idle
    BY DEF Checkpoints!Init
  <2>3. QED
    BY <2>1, <2>2, IdleClaimsNothing
    DEF Checkpoints!Init, Checkpoints!TypeInv, Checkpoints!Torn, Checkpoints!Nothing
<1>2. Checkpoints!SaveInv /\ Checkpoints!LimitInv
  BY IdleClaimsNothing DEF Checkpoints!Init
<1>3. Checkpoints!NewestInv
  BY DEF Checkpoints!Init, Checkpoints!NewestInv, Checkpoints!Listed
<1>4. QED
  BY <1>1, <1>2, <1>3 DEF Checkpoints!IInv

-----------------------------------------------------------------------------
(* Every step of the checkpoint manager and of the trainer keeps the       *)
(* invariant: one lemma per action.                                        *)

\* A step that is begun, which may be there: it is marked when it is listed.
LEMMA MakeDirectoryKeeps ==
  ASSUME Checkpoints!IInv, NEW s \in Checkpoints!Steps,
         Checkpoints!MakeDirectory(s) \/ Checkpoints!TrainerSaves(s)
  PROVE  Checkpoints!IInv'
<1>1. /\ saves' = saves + 1 /\ exists' = exists \cup {s} /\ Checkpoints!At("idle")
      /\ overwritten' = overwritten \cup ({s} \cap Checkpoints!Listed)
      /\ UNCHANGED <<meta, kept, tries>>
      /\ \/ save' = [at |-> "weights", step |-> s, remove |-> {}] /\ UNCHANGED weights
         \/ /\ \E w \in {saves + 1, -1} : weights' = [weights EXCEPT ![s] = w]
            /\ UNCHANGED save
  BY DEF Checkpoints!MakeDirectory, Checkpoints!TrainerSaves, Checkpoints!Begins, Checkpoints!Torn
<1>2. Checkpoints!Listed' = Checkpoints!Listed
  <2>1. s \notin exists => meta[s] = 0
    BY DEF Checkpoints!IInv, Checkpoints!TypeInv, Checkpoints!Nothing
  <2>2. QED
    BY <1>1, <2>1 DEF Checkpoints!Listed
<1>3. /\ exists' \subseteq Checkpoints!Steps /\ saves' \in Nat /\ saves' > 0
      /\ overwritten \subseteq overwritten' /\ overwritten' \subseteq exists'
      /\ {-1, 0} \cup 1..saves \subseteq {-1, 0} \cup 1..saves'
      /\ saves + 1 \in 1..saves'
  BY <1>1, DirectoriesAreTyped
<1>4. /\ weights' \in [Checkpoints!Steps -> {-1, 0} \cup 1..saves']
      /\ meta' \in [Checkpoints!Steps -> {-1, 0} \cup 1..saves']
      /\ \A t \in Checkpoints!Steps \ {s} : weights'[t] = weights[t]
  <2>1. /\ weights \in [Checkpoints!Steps -> {-1, 0} \cup 1..saves']
        /\ meta \in [Checkpoints!Steps -> {-1, 0} \cup 1..saves']
    BY <1>3 DEF Checkpoints!IInv, Checkpoints!TypeInv, Checkpoints!Torn, Checkpoints!Nothing
  <2>2. QED
    BY <1>1, <1>3, <2>1
<1>5. /\ save' \in [at : {"idle", "weights", "meta", "select", "remove", "done"},
                   step : 0..MaxStep, remove : SUBSET exists']
      /\ save'.at # "idle" => save'.at = "weights" /\ save'.step = s
  <2>1. CASE save' = save
    BY <1>1, <2>1 DEF Checkpoints!IInv, Checkpoints!TypeInv, Checkpoints!At
  <2>2. CASE save' = [at |-> "weights", step |-> s, remove |-> {}]
    BY <2>2, ExecutionAssumption DEF Checkpoints!CheckpointAssumption, Checkpoints!Steps
  <2>3. QED
    BY <1>1, <2>1, <2>2
<1>6. \A t \in Checkpoints!Steps \ exists' : weights'[t] = 0 /\ meta'[t] = 0
  BY <1>1, <1>4 DEF Checkpoints!IInv, Checkpoints!TypeInv, Checkpoints!Nothing
<1>7. Checkpoints!TypeInv'
  BY <1>1, <1>3, <1>4, <1>5, <1>6
  DEF Checkpoints!IInv, Checkpoints!TypeInv, Checkpoints!Torn, Checkpoints!Nothing
<1>8. Checkpoints!SaveInv' /\ Checkpoints!LimitInv'
  BY <1>1, <1>2, <1>3, <1>5 DEF Checkpoints!SaveInv, Checkpoints!LimitInv, Checkpoints!At
<1>9. Checkpoints!NewestInv'
  <2>1. ASSUME NEW t \in Checkpoints!Listed, \A u \in Checkpoints!Listed : u <= t
        PROVE  weights'[t] = meta[t] \/ \E u \in overwritten' : u >= t
    <3>1. CASE t = s
      BY <1>1, <2>1, <3>1
    <3>2. CASE t # s
      <4>1. weights'[t] = weights[t]
        BY <1>4, <3>2, DirectoriesAreTyped
      <4>2. weights[t] = meta[t] \/ \E u \in overwritten : u >= t
        BY <2>1 DEF Checkpoints!IInv, Checkpoints!NewestInv
      <4>3. QED
        BY <1>3, <4>1, <4>2
    <3>3. QED
      BY <3>1, <3>2
  <2>2. kept => Checkpoints!Listed # {} \/ overwritten' # {}
    BY <1>3 DEF Checkpoints!IInv, Checkpoints!NewestInv
  <2>3. QED
    BY <1>1, <1>2, <2>1, <2>2 DEF Checkpoints!NewestInv
<1>10. QED
  BY <1>7, <1>8, <1>9 DEF Checkpoints!IInv

\* Weights that are written or torn: the step is marked when it is listed.
LEMMA WeightsKeep ==
  ASSUME Checkpoints!IInv, Checkpoints!At("weights"),
         NEW w \in {-1, saves}, weights' = [weights EXCEPT ![save.step] = w],
         UNCHANGED <<exists, meta, overwritten, saves, kept>>, tries' \in Nat,
         \/ save' = Checkpoints!Idle
         \/ save' = [save EXCEPT !.at = "meta"] /\ w = saves
  PROVE  Checkpoints!IInv'
<1>1. /\ save.step \in exists /\ save.step \in Checkpoints!Steps /\ saves > 0
      /\ save.step \in Checkpoints!Listed => save.step \in overwritten
  BY DirectoriesAreTyped DEF Checkpoints!IInv, Checkpoints!SaveInv
<1>2. Checkpoints!Listed' = Checkpoints!Listed
  BY DEF Checkpoints!Listed
<1>3. w \in {-1, 0} \cup 1..saves
  BY <1>1, DirectoriesAreTyped
<1>4. /\ weights' \in [Checkpoints!Steps -> {-1, 0} \cup 1..saves']
      /\ \A t \in Checkpoints!Steps \ {save.step} : weights'[t] = weights[t]
      /\ weights'[save.step] = w
  BY <1>1, <1>3 DEF Checkpoints!IInv, Checkpoints!TypeInv, Checkpoints!Torn, Checkpoints!Nothing
<1>5. /\ save' \in [at : {"idle", "weights", "meta", "select", "remove", "done"},
                   step : 0..MaxStep, remove : SUBSET exists']
      /\ Checkpoints!SaveInv' /\ Checkpoints!LimitInv'
  <2>1. CASE save' = Checkpoints!Idle
    BY <2>1, ExecutionAssumption
    DEF Checkpoints!CheckpointAssumption, Checkpoints!Idle, Checkpoints!At, Checkpoints!SaveInv,
        Checkpoints!LimitInv
  <2>2. CASE save' = [save EXCEPT !.at = "meta"] /\ w = saves
    <3>1. /\ save' \in [at : {"idle", "weights", "meta", "select", "remove", "done"},
                       step : 0..MaxStep, remove : SUBSET exists']
          /\ save'.at = "meta" /\ save'.step = save.step
      BY <2>2 DEF Checkpoints!IInv, Checkpoints!TypeInv, Checkpoints!At
    <3>2. QED
      BY <1>1, <1>2, <1>4, <2>2, <3>1
      DEF Checkpoints!SaveInv, Checkpoints!LimitInv, Checkpoints!At
  <2>3. QED
    BY <2>1, <2>2
<1>6. \A t \in Checkpoints!Steps \ exists' : weights'[t] = 0 /\ meta'[t] = 0
  BY <1>1, <1>4 DEF Checkpoints!IInv, Checkpoints!TypeInv, Checkpoints!Nothing
<1>7. Checkpoints!TypeInv'
  BY <1>4, <1>5, <1>6 DEF Checkpoints!IInv, Checkpoints!TypeInv, Checkpoints!Torn, Checkpoints!Nothing
<1>8. Checkpoints!NewestInv'
  <2>1. ASSUME NEW t \in Checkpoints!Listed, \A u \in Checkpoints!Listed : u <= t
        PROVE  weights'[t] = meta[t] \/ \E u \in overwritten : u >= t
    <3>1. CASE t = save.step
      BY <1>1, <2>1, <3>1
    <3>2. CASE t # save.step
      <4>1. weights'[t] = weights[t]
        BY <1>4, <3>2, DirectoriesAreTyped
      <4>2. QED
        BY <2>1, <4>1 DEF Checkpoints!IInv, Checkpoints!NewestInv
    <3>3. QED
      BY <3>1, <3>2
  <2>2. QED
    BY <1>2, <2>1 DEF Checkpoints!IInv, Checkpoints!NewestInv
<1>9. QED
  BY <1>5, <1>7, <1>8 DEF Checkpoints!IInv

\* Metadata that is torn: a step that was listed is not any more, and is marked.
LEMMA TornMetadataKeeps ==
  ASSUME Checkpoints!IInv, Checkpoints!At("meta"),
         meta' = [meta EXCEPT ![save.step] = -1], save' = Checkpoints!Idle,
         UNCHANGED <<exists, weights, overwritten, saves, kept>>, tries' \in Nat
  PROVE  Checkpoints!IInv'
<1>1. /\ save.step \in exists /\ save.step \in Checkpoints!Steps
      /\ save.step \in Checkpoints!Listed => save.step \in overwritten
  BY DirectoriesAreTyped DEF Checkpoints!IInv, Checkpoints!SaveInv
<1>2. /\ meta' \in [Checkpoints!Steps -> {-1, 0} \cup 1..saves']
      /\ \A t \in Checkpoints!Steps \ {save.step} : meta'[t] = meta[t]
      /\ meta'[save.step] = -1
  BY <1>1 DEF Checkpoints!IInv, Checkpoints!TypeInv, Checkpoints!Torn, Checkpoints!Nothing
<1>3. Checkpoints!Listed' = Checkpoints!Listed \ {save.step}
  BY <1>1, <1>2, DirectoriesAreTyped DEF Checkpoints!Listed
<1>4. \A t \in Checkpoints!Steps \ exists' : weights'[t] = 0 /\ meta'[t] = 0
  BY <1>1, <1>2 DEF Checkpoints!IInv, Checkpoints!TypeInv, Checkpoints!Nothing
<1>5. /\ save' \in [at : {"idle", "weights", "meta", "select", "remove", "done"},
                   step : 0..MaxStep, remove : SUBSET exists']
      /\ Checkpoints!SaveInv' /\ Checkpoints!LimitInv'
  BY ExecutionAssumption
  DEF Checkpoints!CheckpointAssumption, Checkpoints!Idle, Checkpoints!At, Checkpoints!SaveInv,
      Checkpoints!LimitInv
<1>6. Checkpoints!TypeInv'
  BY <1>2, <1>4, <1>5 DEF Checkpoints!IInv, Checkpoints!TypeInv, Checkpoints!Torn, Checkpoints!Nothing
<1>7. Checkpoints!NewestInv'
  <2>1. ASSUME NEW t \in Checkpoints!Listed \ {save.step},
               \A u \in Checkpoints!Listed \ {save.step} : u <= t
        PROVE  weights[t] = meta'[t] \/ \E u \in overwritten : u >= t
    <3>1. CASE save.step \in Checkpoints!Listed /\ save.step >= t
      BY <1>1, <3>1
    <3>2. CASE ~(save.step \in Checkpoints!Listed /\ save.step >= t)
      <4>1. \A u \in Checkpoints!Listed : u <= t
        BY <2>1, <3>2, DirectoriesAreTyped
      <4>2. meta'[t] = meta[t]
        BY <1>2, <2>1, DirectoriesAreTyped
      <4>3. QED
        BY <2>1, <4>1, <4>2 DEF Checkpoints!IInv, Checkpoints!NewestInv
    <3>3. QED
      BY <3>1, <3>2
  <2>2. kept => Checkpoints!Listed' # {} \/ overwritten # {}
    BY <1>1, <1>3 DEF Checkpoints!IInv, Checkpoints!NewestInv
  <2>3. QED
    BY <1>3, <2>1, <2>2 DEF Checkpoints!NewestInv
<1>8. QED
  BY <1>5, <1>6, <1>7 DEF Checkpoints!IInv

\* Metadata that is written: the step is listed, whole, and not marked any more.
LEMMA MetadataKeeps ==
  ASSUME Checkpoints!IInv, Checkpoints!At("meta"),
         meta' = [meta EXCEPT ![save.step] = saves], save' = [save EXCEPT !.at = "select"],
         overwritten' = overwritten \ {save.step},
         UNCHANGED <<exists, weights, saves, kept, tries>>
  PROVE  Checkpoints!IInv'
<1>1. /\ save.step \in exists /\ save.step \in Checkpoints!Steps
      /\ saves > 0 /\ weights[save.step] = saves
  BY DirectoriesAreTyped DEF Checkpoints!IInv, Checkpoints!SaveInv
<1>2. saves \in 1..saves
  BY <1>1, DirectoriesAreTyped
<1>3. /\ meta' \in [Checkpoints!Steps -> {-1, 0} \cup 1..saves']
      /\ \A t \in Checkpoints!Steps \ {save.step} : meta'[t] = meta[t]
      /\ meta'[save.step] = saves
  BY <1>1, <1>2 DEF Checkpoints!IInv, Checkpoints!TypeInv, Checkpoints!Torn, Checkpoints!Nothing
<1>4. Checkpoints!Listed' = Checkpoints!Listed \cup {save.step}
  BY <1>1, <1>3, DirectoriesAreTyped DEF Checkpoints!Listed
<1>5. /\ save' \in [at : {"idle", "weights", "meta", "select", "remove", "done"},
                   step : 0..MaxStep, remove : SUBSET exists']
      /\ save'.at = "select"
  BY DEF Checkpoints!IInv, Checkpoints!TypeInv, Checkpoints!At
<1>6. \A t \in Checkpoints!Steps \ exists' : weights'[t] = 0 /\ meta'[t] = 0
  BY <1>1, <1>3 DEF Checkpoints!IInv, Checkpoints!TypeInv, Checkpoints!Nothing
<1>7. Checkpoints!TypeInv'
  BY <1>3, <1>5, <1>6 DEF Checkpoints!IInv, Checkpoints!TypeInv, Checkpoints!Torn, Checkpoints!Nothing
<1>8. Checkpoints!SaveInv' /\ Checkpoints!LimitInv'
  BY <1>4, <1>5 DEF Checkpoints!SaveInv, Checkpoints!LimitInv, Checkpoints!At
<1>9. Checkpoints!NewestInv'
  <2>1. ASSUME NEW t \in Checkpoints!Listed', \A u \in Checkpoints!Listed' : u <= t
        PROVE  weights'[t] = meta'[t] \/ \E u \in overwritten' : u >= t
    <3>1. CASE t = save.step
      BY <1>1, <1>3, <3>1
    <3>2. CASE t # save.step
      <4>1. /\ t \in Checkpoints!Listed /\ \A u \in Checkpoints!Listed : u <= t
            /\ save.step <= t /\ meta'[t] = meta[t]
        BY <1>3, <1>4, <2>1, <3>2, DirectoriesAreTyped
      <4>2. weights[t] = meta[t] \/ \E u \in overwritten : u >= t
        BY <4>1 DEF Checkpoints!IInv, Checkpoints!NewestInv
      <4>3. \A u \in overwritten : u >= t => u # save.step
        BY <1>1, <3>2, <4>1, DirectoriesAreTyped
      <4>4. QED
        BY <4>1, <4>2, <4>3
    <3>3. QED
      BY <3>1, <3>2
  <2>2. QED
    BY <1>4, <2>1 DEF Checkpoints!NewestInv
<1>10. QED
  BY <1>7, <1>8, <1>9 DEF Checkpoints!IInv

\* What is selected for removal are listed steps below one that stays, and as
\* many as there are too many.
LEMMA SelectKeeps ==
  ASSUME Checkpoints!IInv, Checkpoints!Select
  PROVE  Checkpoints!IInv'
<1>1. Checkpoints!At("select") /\ UNCHANGED <<exists, weights, meta, overwritten, saves, kept, tries>>
  <2>1. Checkpoints!At("select")
    BY Zenon DEF Checkpoints!Select
  <2>2. UNCHANGED <<exists, weights, meta, overwritten, saves, kept, tries>>
    BY Zenon DEF Checkpoints!Select
  <2>3. QED
    BY <2>1, <2>2
<1>2. /\ Checkpoints!Listed # {} /\ Checkpoints!Listed \subseteq exists
      /\ Checkpoints!Listed \subseteq Checkpoints!Steps
      /\ Checkpoints!Listed' = Checkpoints!Listed
  BY <1>1, DirectoriesAreTyped DEF Checkpoints!IInv, Checkpoints!SaveInv, Checkpoints!Listed
<1>3. SaveLimit \in Nat \ {0} /\ Cardinality(Checkpoints!Listed) \in Nat
  BY <1>2, StepsAreFinite, ExecutionAssumption DEF Checkpoints!CheckpointAssumption
<1>4. /\ save' \in [at : {"idle", "weights", "meta", "select", "remove", "done"},
                   step : 0..MaxStep, remove : SUBSET exists']
      /\ save'.at \in {"done", "remove"}
      /\ save'.at = "done" => Cardinality(Checkpoints!Listed) <= SaveLimit
      /\ save'.at = "remove" =>
           /\ Cardinality(Checkpoints!Listed \ save'.remove) <= SaveLimit
           /\ \E s \in Checkpoints!Listed : \A t \in save'.remove : t < s
  <2>1. CASE Checkpoints!Excess <= 0
    <3>1. save' = [save EXCEPT !.at = "done"]
      BY <2>1 DEF Checkpoints!Select
    <3>2. Cardinality(Checkpoints!Listed) <= SaveLimit
      BY <2>1, <1>3, SameCardinality DEF Checkpoints!Excess
    <3>3. QED
      BY <1>1, <3>1, <3>2 DEF Checkpoints!IInv, Checkpoints!TypeInv
  <2>2. CASE ~(Checkpoints!Excess <= 0)
    <3>0. PICK S \in Checkpoints!Oldest : save' = [save EXCEPT !.at = "remove", !.remove = S]
      BY <2>2, Zenon DEF Checkpoints!Select
    <3>1. /\ S \in SUBSET Checkpoints!Listed /\ Checkpoints!Cardinality(S) = Checkpoints!Excess
          /\ \A s \in S, t \in Checkpoints!Listed \ S : s < t
      BY <3>0 DEF Checkpoints!Oldest
    <3>2. /\ Cardinality(S) = Cardinality(Checkpoints!Listed) - SaveLimit
          /\ IsFiniteSet(Checkpoints!Listed)
      BY <1>2, <3>1, SameCardinality, StepsAreFinite DEF Checkpoints!Excess
    <3>3. S # Checkpoints!Listed
      BY <1>3, <3>2
    <3>4. PICK t \in Checkpoints!Listed : t \notin S
      BY <3>1, <3>3
    <3>5. \A s \in S : s < t
      BY <3>1, <3>4
    <3>6. Cardinality(Checkpoints!Listed \ S) <= SaveLimit
      <4>1. Cardinality(Checkpoints!Listed \ S)
              = Cardinality(Checkpoints!Listed) - Cardinality(Checkpoints!Listed \cap S)
        BY <3>2, FS_Difference
      <4>2. Checkpoints!Listed \cap S = S
        BY <3>1
      <4>3. QED
        BY <1>3, <3>2, <4>1, <4>2
    <3>7. QED
      BY <1>1, <1>2, <3>0, <3>1, <3>5, <3>6 DEF Checkpoints!IInv, Checkpoints!TypeInv
  <2>3. QED
    BY <2>1, <2>2
<1>5. Checkpoints!TypeInv'
  BY <1>1, <1>4 DEF Checkpoints!IInv, Checkpoints!TypeInv
<1>6. Checkpoints!SaveInv'
  BY <1>2, <1>4 DEF Checkpoints!SaveInv, Checkpoints!At
<1>7. Checkpoints!NewestInv'
  BY <1>1, <1>2 DEF Checkpoints!IInv, Checkpoints!NewestInv
<1>8. Checkpoints!LimitInv'
  BY <1>2, <1>4, SameCardinality DEF Checkpoints!LimitInv, Checkpoints!At
<1>9. QED
  BY <1>5, <1>6, <1>7, <1>8 DEF Checkpoints!IInv

\* What is left of a directory that is removed, or was to be: a step below a
\* listed one that stays loses its weights, its metadata, both, or its directory.
LEMMA RemovalKeeps ==
  ASSUME Checkpoints!IInv, Checkpoints!At("remove"), NEW s \in save.remove,
         exists' \in {exists, exists \ {s}}, UNCHANGED <<saves, kept>>, tries' \in Nat,
         overwritten' = overwritten \cap exists',
         weights' \in {weights, [weights EXCEPT ![s] = 0]},
         meta' \in {meta, [meta EXCEPT ![s] = 0]},
         s \in exists' \/ (weights'[s] = 0 /\ meta'[s] = 0),
         \/ save' = Checkpoints!Idle
         \/ /\ save' = [save EXCEPT !.remove = @ \ {s}]
            /\ tries' = 0 => tries = 0 /\ exists' = exists \ {s}
  PROVE  Checkpoints!IInv'
<1>1. /\ exists \subseteq Checkpoints!Steps /\ s \in exists /\ s \in Checkpoints!Steps
      /\ exists' \subseteq exists /\ exists \ {s} \subseteq exists'
  BY DirectoriesAreTyped
<1>2. PICK r \in Checkpoints!Listed : \A t \in save.remove : t < r
  BY DEF Checkpoints!IInv, Checkpoints!SaveInv
<1>3. /\ weights' \in [Checkpoints!Steps -> {-1, 0} \cup 1..saves']
      /\ meta' \in [Checkpoints!Steps -> {-1, 0} \cup 1..saves']
      /\ \A t \in Checkpoints!Steps \ {s} : weights'[t] = weights[t] /\ meta'[t] = meta[t]
      /\ meta'[s] \in {meta[s], 0}
  BY <1>1 DEF Checkpoints!IInv, Checkpoints!TypeInv, Checkpoints!Torn, Checkpoints!Nothing
<1>4. /\ Checkpoints!Listed' \subseteq Checkpoints!Listed
      /\ Checkpoints!Listed \subseteq Checkpoints!Listed' \cup {s}
  <2>1. ASSUME NEW t \in Checkpoints!Listed' PROVE t \in Checkpoints!Listed
    <3>1. t \in exists /\ meta'[t] > 0 /\ t \in Checkpoints!Steps
      BY <1>1, <2>1 DEF Checkpoints!Listed
    <3>2. meta[t] > 0
      BY <1>3, <3>1, DirectoriesAreTyped
    <3>3. QED
      BY <3>1, <3>2 DEF Checkpoints!Listed
  <2>2. ASSUME NEW t \in Checkpoints!Listed, t # s PROVE t \in Checkpoints!Listed'
    BY <1>1, <1>3, <2>2 DEF Checkpoints!Listed
  <2>3. QED
    BY <2>1, <2>2
<1>5. /\ r \in Checkpoints!Listed' /\ s < r /\ r \in Nat /\ s \in Nat
  BY <1>1, <1>2, <1>4, DirectoriesAreTyped
<1>6. \A t \in Checkpoints!Steps \ exists' : weights'[t] = 0 /\ meta'[t] = 0
  <2> SUFFICES ASSUME NEW t \in Checkpoints!Steps, t \notin exists'
               PROVE  weights'[t] = 0 /\ meta'[t] = 0
    OBVIOUS
  <2>1. CASE t = s
    BY <2>1
  <2>2. CASE t # s
    BY <1>1, <1>3, <2>2 DEF Checkpoints!IInv, Checkpoints!TypeInv, Checkpoints!Nothing
  <2>3. QED
    BY <2>1, <2>2
<1>7. Checkpoints!NewestInv'
  <2>1. ASSUME NEW t \in Checkpoints!Listed', \A u \in Checkpoints!Listed' : u <= t
        PROVE  weights'[t] = meta'[t] \/ \E u \in overwritten' : u >= t
    <3>1. /\ t \in Checkpoints!Listed /\ t \in Nat /\ t \in Checkpoints!Steps /\ s < t
      BY <1>4, <1>5, <2>1, DirectoriesAreTyped
    <3>2. \A u \in Checkpoints!Listed : u <= t
      BY <1>4, <2>1, <3>1, DirectoriesAreTyped
    <3>3. weights[t] = meta[t] \/ \E u \in overwritten : u >= t
      BY <3>1, <3>2 DEF Checkpoints!IInv, Checkpoints!NewestInv
    <3>4. \A u \in overwritten : u >= t => u \in overwritten'
      <4>1. \A u \in overwritten : u >= t => u # s
        BY <1>5, <3>1
      <4>2. QED
        BY <1>1, <4>1, DirectoriesAreTyped
    <3>5. QED
      BY <1>3, <3>1, <3>3, <3>4
  <2>2. QED
    BY <1>5, <2>1 DEF Checkpoints!NewestInv
<1>8. CASE save' = Checkpoints!Idle
  <2>1. /\ save' \in [at : {"idle", "weights", "meta", "select", "remove", "done"},
                     step : 0..MaxStep, remove : SUBSET exists']
        /\ Checkpoints!SaveInv' /\ Checkpoints!LimitInv'
    BY <1>8, ExecutionAssumption
    DEF Checkpoints!CheckpointAssumption, Checkpoints!Idle, Checkpoints!At, Checkpoints!SaveInv,
        Checkpoints!LimitInv
  <2>2. Checkpoints!TypeInv'
    BY <1>1, <1>3, <1>6, <2>1
    DEF Checkpoints!IInv, Checkpoints!TypeInv, Checkpoints!Torn, Checkpoints!Nothing
  <2>3. QED
    BY <1>7, <2>1, <2>2 DEF Checkpoints!IInv
<1>9. CASE save' # Checkpoints!Idle
  <2>0. /\ save' = [save EXCEPT !.remove = save.remove \ {s}]
        /\ tries' = 0 => tries = 0 /\ exists' = exists \ {s}
    BY <1>9
  <2>1. /\ save' \in [at : {"idle", "weights", "meta", "select", "remove", "done"},
                     step : 0..MaxStep, remove : SUBSET exists']
        /\ save'.at = "remove" /\ save'.remove = save.remove \ {s}
    <3>1. save.remove \ {s} \subseteq exists'
      BY DirectoriesAreTyped
    <3>2. QED
      BY <2>0, <3>1 DEF Checkpoints!IInv, Checkpoints!TypeInv, Checkpoints!At
  <2>2. tries' = 0 => Checkpoints!Cardinality(Checkpoints!Listed' \ save'.remove) <= SaveLimit
    <3> SUFFICES ASSUME tries' = 0
                 PROVE  Cardinality(Checkpoints!Listed' \ save'.remove) <= SaveLimit
      BY SameCardinality
    <3>1. s \notin Checkpoints!Listed'
      BY <2>0 DEF Checkpoints!Listed
    <3>2. Checkpoints!Listed' \ save'.remove \subseteq Checkpoints!Listed \ save.remove
      BY <1>4, <2>1, <3>1
    <3>3. /\ Checkpoints!Listed \ save.remove \subseteq Checkpoints!Steps
          /\ Cardinality(Checkpoints!Listed \ save.remove) <= SaveLimit
      BY <2>0, DirectoriesAreTyped, SameCardinality DEF Checkpoints!IInv, Checkpoints!LimitInv
    <3>4. IsFiniteSet(Checkpoints!Listed \ save.remove)
      BY <3>3, StepsAreFinite
    <3>5. /\ Cardinality(Checkpoints!Listed' \ save'.remove)
               <= Cardinality(Checkpoints!Listed \ save.remove)
          /\ Cardinality(Checkpoints!Listed' \ save'.remove) \in Nat
          /\ Cardinality(Checkpoints!Listed \ save.remove) \in Nat
      BY <3>2, <3>4, FS_Subset, FS_CardinalityType
    <3>6. SaveLimit \in Nat
      BY ExecutionAssumption DEF Checkpoints!CheckpointAssumption
    <3>7. QED
      BY <3>3, <3>5, <3>6
  <2>3. Checkpoints!TypeInv'
    BY <1>1, <1>3, <1>6, <2>1
    DEF Checkpoints!IInv, Checkpoints!TypeInv, Checkpoints!Torn, Checkpoints!Nothing
  <2>4. Checkpoints!SaveInv' /\ Checkpoints!LimitInv'
    BY <1>2, <1>5, <2>1, <2>2 DEF Checkpoints!SaveInv, Checkpoints!LimitInv, Checkpoints!At
  <2>5. QED
    BY <1>7, <2>3, <2>4 DEF Checkpoints!IInv
<1>10. QED
  BY <1>8, <1>9

\* A save that is over, or is killed between two writes, leaves what is there.
LEMMA EndKeeps ==
  ASSUME Checkpoints!IInv, save' = Checkpoints!Idle, kept' \in BOOLEAN,
         kept' => Checkpoints!Listed # {} \/ overwritten # {},
         UNCHANGED <<exists, weights, meta, overwritten, saves, tries>>
  PROVE  Checkpoints!IInv'
<1>1. Checkpoints!Listed' = Checkpoints!Listed
  BY DEF Checkpoints!Listed
<1>2. /\ save' \in [at : {"idle", "weights", "meta", "select", "remove", "done"},
                   step : 0..MaxStep, remove : SUBSET exists']
      /\ Checkpoints!SaveInv' /\ Checkpoints!LimitInv'
  BY ExecutionAssumption
  DEF Checkpoints!CheckpointAssumption, Checkpoints!Idle, Checkpoints!At, Checkpoints!SaveInv,
      Checkpoints!LimitInv
<1>3. Checkpoints!TypeInv' /\ Checkpoints!NewestInv'
  BY <1>1, <1>2 DEF Checkpoints!IInv, Checkpoints!TypeInv, Checkpoints!NewestInv
<1>4. QED
  BY <1>2, <1>3 DEF Checkpoints!IInv

\* A save that writes, tears or leaves its weights.
LEMMA SaveModelKeeps ==
  ASSUME Checkpoints!IInv, Checkpoints!SaveModel
  PROVE  Checkpoints!IInv'
<1>1. /\ Checkpoints!At("weights") /\ UNCHANGED <<exists, meta, overwritten, saves, kept>>
      /\ \/ /\ weights' = [weights EXCEPT ![save.step] = saves] /\ UNCHANGED tries
            /\ save' = [save EXCEPT !.at = "meta"]
         \/ /\ weights' = [weights EXCEPT ![save.step] = -1]
            /\ tries' = tries + 1 /\ save' = Checkpoints!Idle
  BY DEF Checkpoints!SaveModel, Checkpoints!Write, Checkpoints!Writes, Checkpoints!Tears,
         Checkpoints!Goes, Checkpoints!Fault, Checkpoints!Order, Checkpoints!Torn
<1>2. tries' \in Nat
  BY <1>1, DirectoriesAreTyped
<1>3. QED
  BY <1>1, <1>2, WeightsKeep

LEMMA WriteMetadataKeeps ==
  ASSUME Checkpoints!IInv, Checkpoints!WriteMetadata
  PROVE  Checkpoints!IInv'
<1>1. /\ Checkpoints!At("meta") /\ UNCHANGED <<exists, saves, kept, weights>>
      /\ \/ /\ meta' = [meta EXCEPT ![save.step] = saves] /\ UNCHANGED tries
            /\ overwritten' = overwritten \ {save.step}
            /\ save' = [save EXCEPT !.at = "select"]
         \/ /\ meta' = [meta EXCEPT ![save.step] = -1] /\ UNCHANGED overwritten
            /\ tries' = tries + 1 /\ save' = Checkpoints!Idle
  BY DEF Checkpoints!WriteMetadata, Checkpoints!Write, Checkpoints!Writes, Checkpoints!Tears,
         Checkpoints!Goes, Checkpoints!Fault, Checkpoints!Order, Checkpoints!Torn
<1>2. tries' \in Nat
  BY <1>1, DirectoriesAreTyped
<1>3. QED
  BY <1>1, <1>2, MetadataKeeps, TornMetadataKeeps

LEMMA RemoveKeeps ==
  ASSUME Checkpoints!IInv, NEW s \in Checkpoints!Steps, Checkpoints!Remove(s)
  PROVE  Checkpoints!IInv'
<1>1. /\ Checkpoints!At("remove") /\ s \in save.remove /\ UNCHANGED <<saves, kept>>
      /\ save' = [save EXCEPT !.remove = @ \ {s}]
  BY DEF Checkpoints!Remove
<1>2. /\ weights' \in {weights, [weights EXCEPT ![s] = 0]}
      /\ meta' \in {meta, [meta EXCEPT ![s] = 0]}
      /\ \/ /\ exists' = exists \ {s} /\ overwritten' = overwritten \ {s} /\ UNCHANGED tries
            /\ weights' = [weights EXCEPT ![s] = 0] /\ meta' = [meta EXCEPT ![s] = 0]
         \/ tries' = tries + 1 /\ UNCHANGED <<exists, overwritten>>
  BY DEF Checkpoints!Remove, Checkpoints!Fault, Checkpoints!Nothing
<1>3. /\ tries \in Nat /\ s \in exists /\ s \in Checkpoints!Steps /\ overwritten \subseteq exists
      /\ DOMAIN weights = Checkpoints!Steps /\ DOMAIN meta = Checkpoints!Steps
  BY <1>1, DirectoriesAreTyped
<1>4. /\ tries' \in Nat /\ exists' \in {exists, exists \ {s}}
      /\ overwritten' = overwritten \cap exists'
      /\ s \in exists' \/ (weights'[s] = 0 /\ meta'[s] = 0)
      /\ tries' = 0 => tries = 0 /\ exists' = exists \ {s}
  <2>1. CASE UNCHANGED <<exists, overwritten>> /\ tries' = tries + 1
    BY <1>3, <2>1
  <2>2. CASE /\ exists' = exists \ {s} /\ overwritten' = overwritten \ {s} /\ UNCHANGED tries
             /\ weights' = [weights EXCEPT ![s] = 0] /\ meta' = [meta EXCEPT ![s] = 0]
    BY <1>3, <2>2 DEF Checkpoints!IInv, Checkpoints!TypeInv
  <2>3. QED
    BY <1>2, <2>1, <2>2
<1>5. QED
  BY <1>1, <1>2, <1>4, RemovalKeeps

LEMMA CrashKeeps ==
  ASSUME Checkpoints!IInv, Checkpoints!Crash
  PROVE  Checkpoints!IInv'
<1>1. UNCHANGED <<exists, saves, kept, tries>> /\ save' = Checkpoints!Idle /\ tries' \in Nat
  BY DEF Checkpoints!Crash, Checkpoints!IInv, Checkpoints!TypeInv
<1>2. CASE UNCHANGED <<weights, meta, overwritten>>
  BY <1>1, <1>2, EndKeeps DEF Checkpoints!IInv, Checkpoints!TypeInv, Checkpoints!NewestInv
<1>3. CASE Checkpoints!At("weights") /\ Checkpoints!Tears(Checkpoints!Order.first)
  BY <1>1, <1>3, WeightsKeep DEF Checkpoints!Tears, Checkpoints!Order, Checkpoints!Torn
<1>4. CASE Checkpoints!At("meta") /\ Checkpoints!Tears(Checkpoints!Order.second)
  BY <1>1, <1>4, TornMetadataKeeps DEF Checkpoints!Tears, Checkpoints!Order, Checkpoints!Torn
<1>5. CASE \E s \in save.remove : Checkpoints!At("remove") /\ UNCHANGED overwritten /\
             \/ weights' = [weights EXCEPT ![s] = 0] /\ UNCHANGED meta
             \/ meta' = [meta EXCEPT ![s] = 0] /\ UNCHANGED weights
  <2>1. PICK s \in save.remove : Checkpoints!At("remove") /\ UNCHANGED overwritten /\
             \/ weights' = [weights EXCEPT ![s] = 0] /\ UNCHANGED meta
             \/ meta' = [meta EXCEPT ![s] = 0] /\ UNCHANGED weights
    BY <1>5
  <2>2. s \in exists /\ overwritten' = overwritten \cap exists'
    BY <1>1, <2>1, DirectoriesAreTyped
  <2>3. QED
    BY <1>1, <2>1, <2>2, RemovalKeeps
<1>6. QED
  BY <1>2, <1>3, <1>4, <1>5 DEF Checkpoints!Crash, Checkpoints!Nothing

\* The invariant is inductive.
LEMMA CheckpointsGoOn ==
  Checkpoints!IInv /\ [Checkpoints!Next]_Checkpoints!vars => Checkpoints!IInv'
<1> SUFFICES ASSUME Checkpoints!IInv, [Checkpoints!Next]_Checkpoints!vars
             PROVE  Checkpoints!IInv'
  OBVIOUS
<1>1. ASSUME NEW s \in Checkpoints!Steps,
             Checkpoints!MakeDirectory(s) \/ Checkpoints!Remove(s) \/ Checkpoints!TrainerSaves(s)
      PROVE  Checkpoints!IInv'
  BY <1>1, MakeDirectoryKeeps, RemoveKeeps
<1>2. CASE Checkpoints!SaveModel \/ Checkpoints!WriteMetadata
  BY <1>2, SaveModelKeeps, WriteMetadataKeeps
<1>3. CASE Checkpoints!Select
  BY <1>3, SelectKeeps
<1>4. CASE Checkpoints!Return
  <2>1. Checkpoints!Listed # {}
    BY <1>4 DEF Checkpoints!Return, Checkpoints!IInv, Checkpoints!SaveInv
  <2>2. QED
    BY <1>4, <2>1, EndKeeps DEF Checkpoints!Return
<1>5. CASE Checkpoints!Crash
  BY <1>5, CrashKeeps
<1>6. CASE UNCHANGED Checkpoints!vars
  BY <1>6
  DEF Checkpoints!vars, Checkpoints!IInv, Checkpoints!TypeInv, Checkpoints!SaveInv,
      Checkpoints!NewestInv, Checkpoints!LimitInv, Checkpoints!At, Checkpoints!Listed
<1>7. QED
  BY <1>1, <1>2, <1>3, <1>4, <1>5, <1>6 DEF Checkpoints!Next

\* What the invariant says of the newest checkpoint.
LEMMA CheckpointsHold ==
  ASSUME Checkpoints!IInv
  PROVE  /\ Checkpoints!TypeOK /\ Checkpoints!LatestIsWhole
         /\ Checkpoints!ProgressIsNotLost /\ Checkpoints!LimitIsKept
<1>1. Checkpoints!TypeOK
  BY DirectoriesAreTyped
  DEF Checkpoints!IInv, Checkpoints!TypeInv, Checkpoints!TypeOK, Checkpoints!Torn, Checkpoints!Nothing
<1>2. Checkpoints!LatestIsWhole /\ Checkpoints!ProgressIsNotLost
  <2>1. CASE Checkpoints!Listed = {}
    BY <2>1
    DEF Checkpoints!IInv, Checkpoints!NewestInv, Checkpoints!LatestIsWhole,
        Checkpoints!ProgressIsNotLost, Checkpoints!LatestCheckpoint
  <2>2. CASE Checkpoints!Listed # {}
    <3> DEFINE newest == Checkpoints!Max(Checkpoints!Listed)
    <3>1. /\ Checkpoints!LatestCheckpoint = newest /\ newest \in Checkpoints!Listed
          /\ \A s \in Checkpoints!Listed : s <= newest
      BY <2>2, GreatestStep, DirectoriesAreTyped DEF Checkpoints!LatestCheckpoint
    <3>2. /\ newest \in exists /\ newest \in Checkpoints!Steps /\ meta[newest] > 0
          /\ newest # 0
      BY <3>1, DirectoriesAreTyped DEF Checkpoints!Listed
    <3>3. weights[newest] = meta[newest] \/ \E s \in overwritten : s >= newest
      BY <3>1 DEF Checkpoints!IInv, Checkpoints!NewestInv
    <3>4. QED
      BY <3>1, <3>2, <3>3
      DEF Checkpoints!LatestIsWhole, Checkpoints!ProgressIsNotLost, Checkpoints!Whole
  <2>3. QED
    BY <2>1, <2>2
<1>3. Checkpoints!LimitIsKept
  <2>1. CASE Checkpoints!At("done")
    BY <2>1 DEF Checkpoints!LimitIsKept, Checkpoints!IInv, Checkpoints!LimitInv
  <2>2. CASE Checkpoints!At("remove") /\ save.remove = {} /\ tries = 0
    <3>1. Checkpoints!Listed \ save.remove = Checkpoints!Listed
      BY <2>2
    <3>2. QED
      BY <2>2, <3>1 DEF Checkpoints!LimitIsKept, Checkpoints!IInv, Checkpoints!LimitInv
  <2>3. QED
    BY <2>1, <2>2 DEF Checkpoints!LimitIsKept
<1>4. QED
  BY <1>1, <1>2, <1>3

(* Side by side with the others, for any number of steps, saves, failures  *)
(* and kills, and in any order of the steps: the checkpoint that is found  *)
(* is whole, there is one once a save has ended, and a save that succeeds  *)
(* leaves no more than the limit (CheckpointManager).  A step that is      *)
(* saved over its readable metadata excepts the first two until it has new *)
(* metadata, as LatestIsWhole says.                                        *)
THEOREM LatestCheckpointIsWhole == AllSpec => []CheckpointsAreSound
<1> DEFINE Sound == Is("checkpoints") => Checkpoints!IInv
<1>1. AllInit => Sound
  BY CheckpointsBegin DEF AllInit, Is
<1>2. Sound /\ [AllNext]_allvars => Sound'
  <2> SUFFICES ASSUME Sound, [AllNext]_allvars, Is("checkpoints")' PROVE Checkpoints!IInv'
    OBVIOUS
  <2>1. Is("checkpoints") /\ Checkpoints!IInv
    BY DEF AllNext, allvars, Is
  <2>2. [Checkpoints!Next]_Checkpoints!vars
    BY <2>1 DEF AllNext, allvars, Is, OfCheckpoints, Checkpoints!vars
  <2>3. QED
    BY <2>1, <2>2, CheckpointsGoOn
<1>3. Sound => CheckpointsAreSound
  BY CheckpointsHold DEF CheckpointsAreSound
<1>4. QED
  BY <1>1, <1>2, <1>3, PTL DEF AllSpec

-----------------------------------------------------------------------------
(* The output of a worker.                                                 *)

Items == {Worker!End} \cup [stream : Worker!Streams, line : Nat]
Written == [stream : Worker!Streams \cup {"combined"}, line : Nat, sequence : Nat]

\* What the invariant says of the queue and of the file.
LEMMA OutputIsTyped ==
  ASSUME Worker!OrderInv
  PROVE  /\ queue \in Seq(Items) /\ Len(queue) \in Nat
         /\ \A i \in 1..Len(queue) : queue[i] \in Items /\ queue[i].line \in Nat
         /\ file \in Seq(Written) /\ Len(file) \in Nat
         /\ \A i \in 1..Len(file) : file[i] \in Written
         /\ sink.sequence \in Nat /\ sink.counted \in Nat
<1>1. queue \in Seq(Items) /\ file \in Seq(Written)
  BY DEF Worker!OrderInv, Items, Written
<1>2. /\ \A i \in 1..Len(queue) : queue[i] \in Items
      /\ \A i \in 1..Len(file) : file[i] \in Written
  BY <1>1, ElementOfSeq
<1>3. \A item \in Items : item.line \in Nat
  BY DEF Items, Worker!End
<1>4. Len(queue) \in Nat /\ Len(file) \in Nat
  BY <1>1, LenProperties
<1>5. sink.sequence \in Nat /\ sink.counted \in Nat
  BY ExecutionAssumption DEF Worker!OrderInv, Worker!OutputAssumption
<1>6. QED
  BY <1>1, <1>2, <1>3, <1>4, <1>5

\* A line in the queue is one of a stream.
LEMMA LinesHaveStreams ==
  ASSUME NEW item \in Items
  PROVE  /\ item # Worker!End =>
              /\ item \in [stream : Worker!Streams, line : Nat] /\ item.stream \in Worker!Streams
              /\ item.stream \notin {"end", "combined"} /\ item.line \in Nat
         /\ item = Worker!End => item.stream = "end"
  BY DEF Items, Worker!End, Worker!Streams

LEMMA OutputBegins == Worker!Init => Worker!OrderInv /\ Worker!LossInv
<1> SUFFICES ASSUME Worker!Init PROVE Worker!OrderInv /\ Worker!LossInv
  OBVIOUS
<1>1. /\ Len(<<>>) = 0 /\ \A S : <<>> \in Seq(S)
  BY EmptySeq
<1>2. MaxLines \in Nat /\ Budget \in Nat /\ 0 \in 0..MaxLines /\ 0 \in 0..Budget
  BY ExecutionAssumption DEF Worker!OutputAssumption
<1>3. Worker!OrderInv
  <2>1. /\ queue = <<>> /\ file = <<>> /\ Len(queue) = 0 /\ Len(file) = 0
        /\ sink = [at |-> "opening", sequence |-> 0, counted |-> 0, noticed |-> FALSE]
        /\ \A i \in 1..0 : FALSE
    BY <1>1 DEF Worker!Init
  <2>2. /\ queue \in Seq({Worker!End} \cup [stream : Worker!Streams, line : Nat])
        /\ file \in Seq([stream : Worker!Streams \cup {"combined"}, line : Nat, sequence : Nat])
    BY <1>1, <2>1
  <2>3. sink \in [at : {"opening", "writing", "consuming", "ended"}, sequence : Nat,
                 counted : 0..Budget, noticed : BOOLEAN]
    BY <1>2, <2>1
  <2>4. /\ trainer \in {"none", "running", "exited"} /\ held \subseteq Worker!Streams
        /\ marked \in BOOLEAN
        /\ plan \in [Worker!Streams -> 0..MaxLines] /\ printed \in [Worker!Streams -> 0..MaxLines]
        /\ pumped \in [Worker!Streams -> Nat]
        /\ \A s \in Worker!Streams : pumped[s] <= printed[s]
        /\ pump \in [Worker!Streams -> {"pumping", "ended"}]
    <3>1. /\ printed = [s \in Worker!Streams |-> 0] /\ pumped = [s \in Worker!Streams |-> 0]
          /\ pump = [s \in Worker!Streams |-> "pumping"]
          /\ plan \in [Worker!Streams -> 0..MaxLines]
      BY Zenon DEF Worker!Init
    <3>2. trainer = "none" /\ held = {} /\ marked = FALSE
      BY Zenon DEF Worker!Init
    <3>3. printed \in [Worker!Streams -> 0..MaxLines] /\ pumped \in [Worker!Streams -> Nat]
      BY <1>2, <3>1
    <3>4. \A s \in Worker!Streams : pumped[s] <= printed[s]
      BY <3>1
    <3>5. pump \in [Worker!Streams -> {"pumping", "ended"}]
      BY <3>1
    <3>6. trainer \in {"none", "running", "exited"} /\ held \subseteq Worker!Streams /\ marked \in BOOLEAN
      BY <3>2
    <3>7. QED
      BY <3>1, <3>3, <3>4, <3>5, <3>6
  <2>5. Worker!RecordsAreInOrder /\ Worker!NoticeIsLast
    BY <2>1 DEF Worker!RecordsAreInOrder, Worker!NoticeIsLast
  <2>6. QED
    BY <2>1, <2>2, <2>3, <2>4, <2>5 DEF Worker!OrderInv
<1>4. Worker!LossInv
  <2>1. /\ queue = <<>> /\ file = <<>> /\ Len(queue) = 0 /\ Len(file) = 0
        /\ sink = [at |-> "opening", sequence |-> 0, counted |-> 0, noticed |-> FALSE]
        /\ trainer = "none" /\ main = "launch" /\ held = {}
        /\ \A s \in Worker!Streams : printed[s] = 0 /\ pumped[s] = 0 /\ pump[s] = "pumping"
    BY <1>1 DEF Worker!Init
  <2>2. \A n \in 1..0 : FALSE
    OBVIOUS
  <2>3. Worker!PhasesOK
    BY <2>1 DEF Worker!PhasesOK
  <2>4. Worker!EndsOK
    BY <2>1, <2>2 DEF Worker!EndsOK
  <2>5. Worker!MarksOK /\ Worker!LinesOK
    BY <2>1, <2>2 DEF Worker!MarksOK, Worker!LinesOK
  <2>6. QED
    BY <2>3, <2>4, <2>5 DEF Worker!LossInv
<1>5. QED
  BY <1>3, <1>4

\* The first item of the queue is taken.
LEMMA QueueMovesOn ==
  ASSUME Worker!OrderInv, queue # <<>>, queue' = Tail(queue)
  PROVE  /\ queue' \in Seq(Items) /\ Len(queue') = Len(queue) - 1 /\ Len(queue') \in Nat
         /\ \A i \in 1..Len(queue') :
              queue'[i] = queue[i + 1] /\ i + 1 \in 1..Len(queue) /\ queue'[i] \in Items
         /\ 1 \in 1..Len(queue) /\ Head(queue) = queue[1]
<1>1. queue \in Seq(Items)
  BY OutputIsTyped
<1>2. QED
  BY <1>1, HeadTailProperties, EmptySeq, LenProperties, ElementOfSeq, OutputIsTyped

\* One more item.
LEMMA QueueGrows ==
  ASSUME Worker!OrderInv, NEW item \in Items, queue' = Append(queue, item)
  PROVE  /\ queue' \in Seq(Items) /\ Len(queue') = Len(queue) + 1 /\ Len(queue') \in Nat
         /\ \A i \in 1..Len(queue) : queue'[i] = queue[i]
         /\ queue'[Len(queue) + 1] = item
         /\ \A i \in 1..Len(queue') : i \in 1..Len(queue) \/ i = Len(queue) + 1
  BY OutputIsTyped, AppendProperties

\* One more record.
LEMMA FileGrows ==
  ASSUME Worker!OrderInv, NEW record \in Written, file' = Append(file, record)
  PROVE  /\ file' \in Seq(Written) /\ Len(file') = Len(file) + 1 /\ Len(file') \in Nat
         /\ \A i \in 1..Len(file) : file'[i] = file[i]
         /\ file'[Len(file) + 1] = record
         /\ \A i \in 1..Len(file') : i \in 1..Len(file) \/ i = Len(file) + 1
  BY OutputIsTyped, AppendProperties

\* What is outside of the queue and the file keeps its type.
Flows ==
  /\ trainer' \in {"none", "running", "exited"} /\ held' \subseteq Worker!Streams
  /\ marked' \in BOOLEAN
  /\ plan' \in [Worker!Streams -> 0..MaxLines] /\ printed' \in [Worker!Streams -> 0..MaxLines]
  /\ pumped' \in [Worker!Streams -> Nat] /\ \A s \in Worker!Streams : pumped'[s] <= printed'[s]
  /\ pump' \in [Worker!Streams -> {"pumping", "ended"}]
  /\ sink' \in [at : {"opening", "writing", "consuming", "ended"}, sequence : Nat,
                counted : 0..Budget, noticed : BOOLEAN]

\* Every number of a record goes up with its place, as long as nothing is written.
LEMMA SameFile ==
  ASSUME Worker!OrderInv, UNCHANGED file
  PROVE  (Worker!RecordsAreInOrder /\ Worker!NoticeIsLast)'
  BY DEF Worker!OrderInv, Worker!RecordsAreInOrder, Worker!NoticeIsLast

LEMMA SameLinesKeep ==
  ASSUME Worker!OrderInv, Flows, UNCHANGED <<pumped, queue, file>>,
         sink'.sequence = sink.sequence, sink'.counted = sink.counted,
         sink'.noticed = sink.noticed
  PROVE  Worker!OrderInv'
<1>1. (Worker!RecordsAreInOrder /\ Worker!NoticeIsLast)'
  BY SameFile
<1>2. sink'.noticed => Worker!OverBudget'
  BY DEF Worker!OrderInv, Worker!OverBudget
<1>3. QED
  BY <1>1, <1>2 DEF Worker!OrderInv, Flows

\* A line is taken from the pipe of a stream.
LEMMA PumpKeeps ==
  ASSUME Worker!OrderInv, Flows, NEW s \in Worker!Streams,
         pumped' = [pumped EXCEPT ![s] = @ + 1],
         queue' = Append(queue, [stream |-> s, line |-> pumped[s] + 1]),
         UNCHANGED <<file, sink>>
  PROVE  Worker!OrderInv'
<1> DEFINE item == [stream |-> s, line |-> pumped[s] + 1]
<1>1. /\ pumped[s] \in Nat /\ pumped'[s] = pumped[s] + 1
      /\ \A u \in Worker!Streams : pumped[u] \in Nat /\ pumped[u] <= pumped'[u] /\ pumped'[u] \in Nat
  BY DEF Worker!OrderInv
<1>2. item \in Items /\ item.stream = s /\ item.line = pumped[s] + 1 /\ item # Worker!End
  BY <1>1 DEF Items, Worker!End, Worker!Streams
<1>3. /\ queue' \in Seq(Items) /\ Len(queue') = Len(queue) + 1 /\ Len(queue') \in Nat
      /\ \A i \in 1..Len(queue) : queue'[i] = queue[i]
      /\ queue'[Len(queue) + 1] = item
      /\ \A i \in 1..Len(queue') : i \in 1..Len(queue) \/ i = Len(queue) + 1
  BY <1>2, QueueGrows
<1> HIDE DEF item
<1>4. /\ Len(queue) \in Nat
      /\ \A i \in 1..Len(queue) : queue[i] \in Items /\ queue[i].line \in Nat
  BY OutputIsTyped
<1>5. \A i \in 1..Len(queue) : queue[i] # Worker!End =>
        /\ queue[i].stream \in Worker!Streams
        /\ queue[i].line > 0 /\ queue[i].line <= pumped[queue[i].stream]
  BY <1>4, LinesHaveStreams DEF Worker!OrderInv
<1>6. \A i \in 1..Len(queue') : queue'[i] # Worker!End =>
        queue'[i].line > 0 /\ queue'[i].line <= pumped'[queue'[i].stream]
  <2> SUFFICES ASSUME NEW i \in 1..Len(queue'), queue'[i] # Worker!End
               PROVE  queue'[i].line > 0 /\ queue'[i].line <= pumped'[queue'[i].stream]
    OBVIOUS
  <2>1. CASE i \in 1..Len(queue)
    BY <1>1, <1>3, <1>4, <1>5, <2>1
  <2>2. CASE i = Len(queue) + 1
    BY <1>1, <1>2, <1>3, <2>2
  <2>3. QED
    BY <1>3, <2>1, <2>2
<1>7. \A i, j \in 1..Len(queue') :
        i < j /\ queue'[i].stream = queue'[j].stream /\ queue'[i] # Worker!End =>
          queue'[i].line < queue'[j].line
  <2> SUFFICES ASSUME NEW i \in 1..Len(queue'), NEW j \in 1..Len(queue'), i < j,
                      queue'[i].stream = queue'[j].stream, queue'[i] # Worker!End
               PROVE  queue'[i].line < queue'[j].line
    OBVIOUS
  <2>1. i \in 1..Len(queue) /\ queue'[i] = queue[i]
    BY <1>3, <1>4
  <2>2. CASE j \in 1..Len(queue)
    BY <1>3, <2>1, <2>2 DEF Worker!OrderInv
  <2>3. CASE j = Len(queue) + 1
    BY <1>1, <1>2, <1>3, <1>4, <1>5, <2>1, <2>3
  <2>4. QED
    BY <1>3, <2>2, <2>3
<1>8. \A i \in 1..Len(file) :
        IF file'[i].stream = "combined"
        THEN sink'.noticed
        ELSE file'[i].line <= pumped'[file'[i].stream] /\ file'[i].sequence < sink'.sequence
  <2> SUFFICES ASSUME NEW i \in 1..Len(file), file[i].stream # "combined"
               PROVE  file[i].line <= pumped'[file[i].stream]
    BY DEF Worker!OrderInv
  <2>1. file[i].line \in Nat /\ file[i].stream \in Worker!Streams
    BY OutputIsTyped DEF Written
  <2>2. file[i].line <= pumped[file[i].stream]
    BY DEF Worker!OrderInv
  <2>3. QED
    BY <1>1, <2>1, <2>2
<1>9. \A i \in 1..Len(file), j \in 1..Len(queue') :
        file'[i].stream = queue'[j].stream => file'[i].line < queue'[j].line
  <2> SUFFICES ASSUME NEW i \in 1..Len(file), NEW j \in 1..Len(queue'),
                      file[i].stream = queue'[j].stream
               PROVE  file[i].line < queue'[j].line
    OBVIOUS
  <2>1. CASE j \in 1..Len(queue)
    BY <1>3, <2>1 DEF Worker!OrderInv
  <2>2. CASE j = Len(queue) + 1
    <3>1. file[i].stream = s /\ file[i].stream # "combined"
      BY <1>2, <1>3, <2>2 DEF Worker!Streams
    <3>2. file[i].line <= pumped[s] /\ file[i].line \in Nat
      BY <3>1, OutputIsTyped DEF Worker!OrderInv, Written
    <3>3. QED
      BY <1>1, <1>2, <1>3, <2>2, <3>2
  <2>3. QED
    BY <1>3, <2>1, <2>2
<1>10. (Worker!RecordsAreInOrder /\ Worker!NoticeIsLast)'
  BY SameFile
<1>11. sink'.noticed => Worker!OverBudget'
  BY DEF Worker!OrderInv, Worker!OverBudget
<1>12. QED
  BY <1>3, <1>6, <1>7, <1>8, <1>9, <1>10, <1>11 DEF Worker!OrderInv, Flows, Items

\* The end is queued.
LEMMA CloseKeeps ==
  ASSUME Worker!OrderInv, Flows, queue' = Append(queue, Worker!End),
         UNCHANGED <<pumped, file, sink>>
  PROVE  Worker!OrderInv'
<1>1. Worker!End \in Items
  BY DEF Items
<1>2. /\ queue' \in Seq(Items) /\ Len(queue') = Len(queue) + 1 /\ Len(queue') \in Nat
      /\ \A i \in 1..Len(queue) : queue'[i] = queue[i]
      /\ queue'[Len(queue) + 1] = Worker!End
      /\ \A i \in 1..Len(queue') : i \in 1..Len(queue) \/ i = Len(queue) + 1
  BY <1>1, QueueGrows
<1>3. /\ Len(queue) \in Nat /\ \A i \in 1..Len(queue) : queue[i] \in Items
  BY OutputIsTyped
<1>4. \A i \in 1..Len(queue') : queue'[i] # Worker!End =>
        i \in 1..Len(queue) /\ queue'[i].line > 0 /\ queue'[i].line <= pumped'[queue'[i].stream]
  BY <1>2 DEF Worker!OrderInv
<1>5. \A i, j \in 1..Len(queue') :
        i < j /\ queue'[i].stream = queue'[j].stream /\ queue'[i] # Worker!End =>
          queue'[i].line < queue'[j].line
  <2> SUFFICES ASSUME NEW i \in 1..Len(queue'), NEW j \in 1..Len(queue'), i < j,
                      queue'[i].stream = queue'[j].stream, queue'[i] # Worker!End
               PROVE  queue'[i].line < queue'[j].line
    OBVIOUS
  <2>1. i \in 1..Len(queue) /\ queue[i].stream # "end"
    BY <1>2, <1>3, LinesHaveStreams
  <2>2. j \in 1..Len(queue)
    BY <1>2, <1>3, <2>1, LinesHaveStreams, <1>1
  <2>3. QED
    BY <1>2, <2>1, <2>2 DEF Worker!OrderInv
<1>6. \A i \in 1..Len(file), j \in 1..Len(queue') :
        file'[i].stream = queue'[j].stream => file'[i].line < queue'[j].line
  <2> SUFFICES ASSUME NEW i \in 1..Len(file), NEW j \in 1..Len(queue'),
                      file[i].stream = queue'[j].stream
               PROVE  file[i].line < queue'[j].line
    OBVIOUS
  <2>1. file[i].stream # "end"
    BY OutputIsTyped DEF Written, Worker!Streams
  <2>2. j \in 1..Len(queue)
    BY <1>1, <1>2, <2>1, LinesHaveStreams
  <2>3. QED
    BY <1>2, <2>2 DEF Worker!OrderInv
<1>7. (Worker!RecordsAreInOrder /\ Worker!NoticeIsLast)'
  BY SameFile
<1>8. sink'.noticed => Worker!OverBudget'
  BY DEF Worker!OrderInv, Worker!OverBudget
<1>9. \A i \in 1..Len(file) :
        IF file'[i].stream = "combined"
        THEN sink'.noticed
        ELSE file'[i].line <= pumped'[file'[i].stream] /\ file'[i].sequence < sink'.sequence
  BY DEF Worker!OrderInv
<1>10. QED
  BY <1>2, <1>4, <1>5, <1>6, <1>7, <1>8, <1>9 DEF Worker!OrderInv, Flows, Items

\* What is left in the queue is in order, and behind the item that was taken.
LEMMA RestOfQueue ==
  ASSUME Worker!OrderInv, queue # <<>>, queue' = Tail(queue), UNCHANGED pumped
  PROVE  /\ Head(queue) = queue[1] /\ 1 \in 1..Len(queue) /\ Head(queue) \in Items
         /\ queue' \in Seq(Items)
         /\ \A i \in 1..Len(queue') : queue'[i] # Worker!End =>
              queue'[i].line > 0 /\ queue'[i].line <= pumped'[queue'[i].stream]
         /\ \A i, j \in 1..Len(queue') :
              i < j /\ queue'[i].stream = queue'[j].stream /\ queue'[i] # Worker!End =>
                queue'[i].line < queue'[j].line
         /\ \A i \in 1..Len(file), j \in 1..Len(queue') :
              file[i].stream = queue'[j].stream => file[i].line < queue'[j].line
         /\ \A j \in 1..Len(queue') :
              Head(queue).stream = queue'[j].stream /\ Head(queue) # Worker!End =>
                Head(queue).line < queue'[j].line
<1>1. /\ queue' \in Seq(Items) /\ Len(queue') = Len(queue) - 1 /\ Len(queue') \in Nat
      /\ \A i \in 1..Len(queue') :
           queue'[i] = queue[i + 1] /\ i + 1 \in 1..Len(queue) /\ queue'[i] \in Items
      /\ 1 \in 1..Len(queue) /\ Head(queue) = queue[1]
  BY QueueMovesOn
<1>2. Head(queue) \in Items
  BY <1>1, OutputIsTyped
<1>3. \A i \in 1..Len(queue') : queue'[i] # Worker!End =>
        queue'[i].line > 0 /\ queue'[i].line <= pumped'[queue'[i].stream]
  BY <1>1 DEF Worker!OrderInv
<1>4. \A i, j \in 1..Len(queue') :
        i < j /\ queue'[i].stream = queue'[j].stream /\ queue'[i] # Worker!End =>
          queue'[i].line < queue'[j].line
  <2> SUFFICES ASSUME NEW i \in 1..Len(queue'), NEW j \in 1..Len(queue'), i < j,
                      queue'[i].stream = queue'[j].stream, queue'[i] # Worker!End
               PROVE  queue'[i].line < queue'[j].line
    OBVIOUS
  <2>1. /\ i + 1 \in 1..Len(queue) /\ j + 1 \in 1..Len(queue) /\ i + 1 < j + 1
        /\ queue'[i] = queue[i + 1] /\ queue'[j] = queue[j + 1]
    BY <1>1
  <2>2. QED
    BY <2>1 DEF Worker!OrderInv
<1>5. \A i \in 1..Len(file), j \in 1..Len(queue') :
        file[i].stream = queue'[j].stream => file[i].line < queue'[j].line
  BY <1>1 DEF Worker!OrderInv
<1>6. ASSUME NEW j \in 1..Len(queue'), Head(queue).stream = queue'[j].stream,
             Head(queue) # Worker!End
      PROVE  Head(queue).line < queue'[j].line
  <2>1. /\ j + 1 \in 1..Len(queue) /\ 1 < j + 1 /\ queue'[j] = queue[j + 1]
        /\ 1 \in 1..Len(queue) /\ Head(queue) = queue[1]
    BY <1>1
  <2>2. QED
    BY <1>6, <2>1 DEF Worker!OrderInv
<1>7. QED
  BY <1>1, <1>2, <1>3, <1>4, <1>5, <1>6

\* An item is taken and nothing is written.
LEMMA TakenKeeps ==
  ASSUME Worker!OrderInv, Flows, queue # <<>>, queue' = Tail(queue), UNCHANGED <<pumped, file>>,
         sink'.sequence >= sink.sequence, sink.noticed => sink'.noticed,
         sink'.noticed => sink'.counted >= Budget
  PROVE  Worker!OrderInv'
<1>1. /\ queue' \in Seq(Items)
      /\ \A i \in 1..Len(queue') : queue'[i] # Worker!End =>
           queue'[i].line > 0 /\ queue'[i].line <= pumped'[queue'[i].stream]
      /\ \A i, j \in 1..Len(queue') :
           i < j /\ queue'[i].stream = queue'[j].stream /\ queue'[i] # Worker!End =>
             queue'[i].line < queue'[j].line
      /\ \A i \in 1..Len(file), j \in 1..Len(queue') :
           file[i].stream = queue'[j].stream => file[i].line < queue'[j].line
  BY RestOfQueue
<1>2. \A i \in 1..Len(file) :
        IF file'[i].stream = "combined"
        THEN sink'.noticed
        ELSE file'[i].line <= pumped'[file'[i].stream] /\ file'[i].sequence < sink'.sequence
  <2> SUFFICES ASSUME NEW i \in 1..Len(file)
               PROVE  IF file[i].stream = "combined"
                      THEN sink'.noticed
                      ELSE file[i].line <= pumped[file[i].stream] /\ file[i].sequence < sink'.sequence
    OBVIOUS
  <2>1. file[i].sequence \in Nat /\ sink.sequence \in Nat /\ sink'.sequence \in Nat
    BY OutputIsTyped DEF Written, Flows
  <2>2. IF file[i].stream = "combined"
        THEN sink.noticed
        ELSE file[i].line <= pumped[file[i].stream] /\ file[i].sequence < sink.sequence
    BY DEF Worker!OrderInv
  <2>3. QED
    BY <2>1, <2>2
<1>3. (Worker!RecordsAreInOrder /\ Worker!NoticeIsLast)'
  BY SameFile
<1>4. sink'.noticed => Worker!OverBudget'
  BY DEF Worker!OverBudget
<1>5. QED
  BY <1>1, <1>2, <1>3, <1>4 DEF Worker!OrderInv, Flows, Items

\* A record is behind those that are written: its number is the next one, and
\* its line is after those of its stream.
LEMMA RecordKeeps ==
  ASSUME Worker!OrderInv, Flows, queue # <<>>, queue' = Tail(queue), UNCHANGED pumped,
         NEW record \in Written, file' = Append(file, record), record.sequence = sink.sequence,
         \/ /\ record.stream = Head(queue).stream /\ record.line = Head(queue).line
            /\ Head(queue) # Worker!End
            /\ sink'.sequence = sink.sequence + 1 /\ sink'.noticed = FALSE
         \/ /\ record.stream = "combined"
            /\ sink'.sequence = sink.sequence /\ sink'.noticed = TRUE /\ sink'.counted >= Budget,
         sink.noticed = FALSE
  PROVE  Worker!OrderInv'
<1>1. /\ queue' \in Seq(Items)
      /\ \A i \in 1..Len(queue') : queue'[i] # Worker!End =>
           queue'[i].line > 0 /\ queue'[i].line <= pumped'[queue'[i].stream]
      /\ \A i, j \in 1..Len(queue') :
           i < j /\ queue'[i].stream = queue'[j].stream /\ queue'[i] # Worker!End =>
             queue'[i].line < queue'[j].line
      /\ \A i \in 1..Len(file), j \in 1..Len(queue') :
           file[i].stream = queue'[j].stream => file[i].line < queue'[j].line
  BY RestOfQueue
<1>2. /\ file' \in Seq(Written) /\ Len(file') = Len(file) + 1 /\ Len(file') \in Nat
      /\ Len(file) \in Nat
      /\ \A i \in 1..Len(file) : file'[i] = file[i]
      /\ file'[Len(file) + 1] = record
      /\ \A i \in 1..Len(file') : i \in 1..Len(file) \/ i = Len(file) + 1
  BY FileGrows, OutputIsTyped
<1>3. \A i \in 1..Len(file) :
        /\ file[i].stream # "combined" /\ file[i].stream \in Worker!Streams
        /\ file[i].line <= pumped[file[i].stream]
        /\ file[i].sequence < sink.sequence
  BY OutputIsTyped DEF Worker!OrderInv, Written
<1>4. sink.sequence \in Nat /\ \A i \in 1..Len(file) : file[i].sequence \in Nat
  BY OutputIsTyped DEF Written
<1>5. record.stream # "combined" =>
        /\ record.line <= pumped[record.stream] /\ record.sequence < sink'.sequence
        /\ \A i \in 1..Len(file) : file[i].stream = record.stream => file[i].line < record.line
        /\ \A j \in 1..Len(queue') : record.stream = queue'[j].stream => record.line < queue'[j].line
  <2> SUFFICES ASSUME record.stream # "combined"
               PROVE  /\ record.line <= pumped[record.stream] /\ record.sequence < sink'.sequence
                      /\ \A i \in 1..Len(file) : file[i].stream = record.stream => file[i].line < record.line
                      /\ \A j \in 1..Len(queue') : record.stream = queue'[j].stream => record.line < queue'[j].line
    OBVIOUS
  <2>1. /\ record.stream = Head(queue).stream /\ record.line = Head(queue).line
        /\ Head(queue) # Worker!End /\ sink'.sequence = sink.sequence + 1
    OBVIOUS
  <2>2. Head(queue) = queue[1] /\ 1 \in 1..Len(queue)
    BY RestOfQueue
  <2>3. record.line <= pumped[record.stream]
    BY <2>1, <2>2 DEF Worker!OrderInv
  <2>4. \A i \in 1..Len(file) : file[i].stream = record.stream => file[i].line < record.line
    BY <2>1, <2>2 DEF Worker!OrderInv
  <2>5. \A j \in 1..Len(queue') : record.stream = queue'[j].stream => record.line < queue'[j].line
    BY <2>1, RestOfQueue
  <2>6. record.sequence < sink'.sequence
    BY <1>4, <2>1
  <2>7. QED
    BY <2>3, <2>4, <2>5, <2>6
<1>6. \A i \in 1..Len(file') :
        IF file'[i].stream = "combined"
        THEN sink'.noticed
        ELSE file'[i].line <= pumped'[file'[i].stream] /\ file'[i].sequence < sink'.sequence
  <2> SUFFICES ASSUME NEW i \in 1..Len(file')
               PROVE  IF file'[i].stream = "combined"
                      THEN sink'.noticed
                      ELSE file'[i].line <= pumped[file'[i].stream] /\ file'[i].sequence < sink'.sequence
    OBVIOUS
  <2>1. CASE i \in 1..Len(file)
    <3>1. sink.sequence <= sink'.sequence /\ sink'.sequence \in Nat
      BY <1>4
    <3>2. QED
      BY <1>2, <1>3, <1>4, <2>1, <3>1
  <2>2. CASE i = Len(file) + 1
    <3>1. file'[i] = record
      BY <1>2, <2>2
    <3>2. CASE record.stream = "combined"
      <4>1. sink'.noticed
        <5>1. Head(queue).stream # "combined" \/ Head(queue) = Worker!End
          BY RestOfQueue, LinesHaveStreams
        <5>2. QED
          BY <3>2, <5>1
      <4>2. QED
        BY <3>1, <3>2, <4>1
    <3>3. CASE record.stream # "combined"
      BY <1>5, <3>1, <3>3
    <3>4. QED
      BY <3>2, <3>3
  <2>3. QED
    BY <1>2, <2>1, <2>2
<1>7. \A i \in 1..Len(file'), j \in 1..Len(queue') :
        file'[i].stream = queue'[j].stream => file'[i].line < queue'[j].line
  <2> SUFFICES ASSUME NEW i \in 1..Len(file'), NEW j \in 1..Len(queue'),
                      file'[i].stream = queue'[j].stream
               PROVE  file'[i].line < queue'[j].line
    OBVIOUS
  <2>1. CASE i \in 1..Len(file)
    BY <1>1, <1>2, <2>1
  <2>2. CASE i = Len(file) + 1
    <3>1. file'[i] = record
      BY <1>2, <2>2
    <3>2. queue'[j] \in Items
      BY <1>1, ElementOfSeq
    <3>3. record.stream # "combined"
      BY <3>1, <3>2, LinesHaveStreams
    <3>4. QED
      BY <1>5, <3>1, <3>3
  <2>3. QED
    BY <1>2, <2>1, <2>2
<1>8. Worker!RecordsAreInOrder'
  <2> SUFFICES ASSUME NEW i \in 1..Len(file'), NEW j \in 1..Len(file'), i < j
               PROVE  /\ file'[i].sequence < file'[j].sequence
                      /\ file'[i].stream = file'[j].stream => file'[i].line < file'[j].line
    BY <1>2, LenProperties DEF Worker!RecordsAreInOrder
  <2>1. i \in 1..Len(file) /\ file'[i] = file[i]
    BY <1>2
  <2>2. CASE j \in 1..Len(file)
    <3>1. DOMAIN file = 1..Len(file)
      BY OutputIsTyped, LenProperties
    <3>2. QED
      BY <1>2, <2>1, <2>2, <3>1 DEF Worker!OrderInv, Worker!RecordsAreInOrder
  <2>3. CASE j = Len(file) + 1
    BY <1>2, <1>3, <1>5, <2>1, <2>3
  <2>4. QED
    BY <1>2, <2>2, <2>3
<1>9. Worker!NoticeIsLast'
  <2>1. DOMAIN file' = 1..Len(file')
    BY <1>2, LenProperties
  <2>2. \A i \in 1..Len(file') : file'[i].stream = "combined" => i = Len(file')
    BY <1>2, <1>3
  <2>3. QED
    BY <2>1, <2>2 DEF Worker!NoticeIsLast
<1>10. sink'.noticed => Worker!OverBudget'
  BY DEF Worker!OverBudget
<1>11. QED
  BY <1>1, <1>2, <1>6, <1>7, <1>8, <1>9, <1>10 DEF Worker!OrderInv, Flows, Items, Written

\* Every step keeps the order: one case per action.
LEMMA OrderGoesOn == Worker!OrderInv /\ [Worker!Next]_Worker!vars => Worker!OrderInv'
<1> SUFFICES ASSUME Worker!OrderInv, [Worker!Next]_Worker!vars PROVE Worker!OrderInv'
  OBVIOUS
<1>0. /\ trainer \in {"none", "running", "exited"} /\ held \subseteq Worker!Streams
      /\ marked \in BOOLEAN
      /\ plan \in [Worker!Streams -> 0..MaxLines] /\ printed \in [Worker!Streams -> 0..MaxLines]
      /\ pumped \in [Worker!Streams -> Nat] /\ \A s \in Worker!Streams : pumped[s] <= printed[s]
      /\ pump \in [Worker!Streams -> {"pumping", "ended"}]
      /\ sink \in [at : {"opening", "writing", "consuming", "ended"}, sequence : Nat,
                   counted : 0..Budget, noticed : BOOLEAN]
  BY DEF Worker!OrderInv
<1>1. CASE Worker!Launch \/ Worker!ChildExits
  <2>1. /\ UNCHANGED <<plan, printed, pump, pumped, queue, sink, file, marked>>
        /\ trainer' \in {trainer, "running"} /\ held' \in {held, {}}
    <3>1. CASE Worker!Launch
      BY <3>1, Zenon DEF Worker!Launch
    <3>2. CASE Worker!ChildExits
      BY <3>2, Zenon DEF Worker!ChildExits
    <3>3. QED
      BY <1>1, <3>1, <3>2
  <2>2. QED
    BY <1>0, <2>1, SameLinesKeep DEF Flows
<1>2. ASSUME NEW s \in Worker!Streams, Worker!Prints(s)
      PROVE  Worker!OrderInv'
  <2>1. /\ printed' = [printed EXCEPT ![s] = @ + 1]
        /\ UNCHANGED <<trainer, plan, held, pump, pumped, queue, sink, file, marked>>
        /\ printed[s] < plan[s] \/ printed[s] < MaxLines
    BY <1>2 DEF Worker!Prints
  <2>2. printed[s] \in Nat /\ printed[s] + 1 \in 0..MaxLines
    BY <1>0, <2>1, ExecutionAssumption DEF Worker!OutputAssumption
  <2>3. printed' \in [Worker!Streams -> 0..MaxLines] /\ \A u \in Worker!Streams : pumped[u] <= printed'[u]
    BY <1>0, <2>1, <2>2
  <2>4. QED
    BY <1>0, <2>1, <2>3, SameLinesKeep DEF Flows
<1>3. CASE Worker!Exit
  <2>1. held' \subseteq Worker!Streams
    BY <1>3 DEF Worker!Exit
  <2>2. QED
    BY <1>0, <1>3, <2>1, SameLinesKeep DEF Worker!Exit, Flows
<1>4. ASSUME NEW s \in Worker!Streams, Worker!Pump(s)
      PROVE  Worker!OrderInv'
  <2>1. /\ pumped' = [pumped EXCEPT ![s] = @ + 1] /\ pumped[s] < printed[s]
        /\ queue' = Append(queue, [stream |-> s, line |-> pumped'[s]])
        /\ UNCHANGED <<trainer, plan, printed, held, pump, sink, file, marked>>
    BY <1>4 DEF Worker!Pump
  <2>2. pumped'[s] = pumped[s] + 1
    BY <1>0, <2>1
  <2>3. pumped' \in [Worker!Streams -> Nat] /\ \A u \in Worker!Streams : pumped'[u] <= printed[u]
    BY <1>0, <2>1
  <2>4. QED
    BY <1>0, <2>1, <2>2, <2>3, PumpKeeps DEF Flows
<1>5. ASSUME NEW s \in Worker!Streams, Worker!PumpEnds(s)
      PROVE  Worker!OrderInv'
  BY <1>0, <1>5, SameLinesKeep DEF Worker!PumpEnds, Flows
<1>6. CASE Worker!Open
  <2>1. /\ UNCHANGED <<trainer, plan, printed, held, pump, pumped, queue, file>>
        /\ \E at \in {"writing", "consuming"} : sink' = [sink EXCEPT !.at = at]
        /\ marked' \in {marked, TRUE}
    BY <1>6 DEF Worker!Open, Worker!Mark
  <2>2. QED
    BY <1>0, <2>1, SameLinesKeep DEF Flows
<1>7. CASE Worker!Ends \/ Worker!Discard
  <2>1. /\ UNCHANGED <<trainer, plan, printed, held, pump, pumped, file, marked>>
        /\ queue # <<>> /\ queue' = Tail(queue)
        /\ sink' = [sink EXCEPT !.at = "ended"] \/ sink' = sink
    BY <1>7 DEF Worker!Ends, Worker!Discard, Worker!Takes
  <2>2. /\ sink' \in [at : {"opening", "writing", "consuming", "ended"}, sequence : Nat,
                      counted : 0..Budget, noticed : BOOLEAN]
        /\ sink'.sequence = sink.sequence /\ sink'.noticed = sink.noticed /\ sink'.counted = sink.counted
    BY <1>0, <2>1
  <2>3. sink.noticed => sink.counted >= Budget
    BY DEF Worker!OrderInv, Worker!OverBudget
  <2>4. QED
    <3>1. sink'.sequence >= sink.sequence /\ Flows
      BY <1>0, <2>1, <2>2, OutputIsTyped DEF Flows
    <3>2. QED
      BY <2>1, <2>2, <2>3, <3>1, TakenKeeps
<1>8. CASE Worker!Write
  <2>1. /\ UNCHANGED <<trainer, plan, printed, held, pump, pumped>>
        /\ queue # <<>> /\ queue' = Tail(queue) /\ Head(queue) # Worker!End
        /\ ~(sink.counted >= Budget) /\ marked' \in {marked, TRUE}
        /\ file' \in {file, Append(file, Worker!Record)}
        /\ \/ sink' = [sink EXCEPT !.sequence = @ + 1, !.counted = @ + 1]
           \/ sink' = [sink EXCEPT !.sequence = @ + 1]
    BY <1>8 DEF Worker!Write, Worker!Takes, Worker!Mark, Worker!OverBudget
  <2>2. sink.noticed = FALSE
    BY <1>0, <2>1 DEF Worker!OrderInv, Worker!OverBudget
  <2>3. /\ sink' \in [at : {"opening", "writing", "consuming", "ended"}, sequence : Nat,
                      counted : 0..Budget, noticed : BOOLEAN]
        /\ sink'.sequence = sink.sequence + 1 /\ sink'.noticed = FALSE
    <3>1. /\ sink.sequence + 1 \in Nat /\ sink.counted + 1 \in 0..Budget
      BY <1>0, <2>1, ExecutionAssumption DEF Worker!OutputAssumption
    <3>2. QED
      BY <1>0, <2>1, <2>2, <3>1
  <2>4. CASE file' = file
    <3>1. Flows
      BY <1>0, <2>1, <2>3 DEF Flows
    <3>2. sink'.sequence >= sink.sequence
      BY <2>3, OutputIsTyped
    <3>3. QED
      BY <2>1, <2>2, <2>3, <2>4, <3>1, <3>2, TakenKeeps
  <2>5. CASE file' = Append(file, Worker!Record)
    <3>1. Head(queue) \in Items
      BY <2>1, QueueMovesOn, OutputIsTyped
    <3>2. /\ Worker!Record \in Written /\ Worker!Record.sequence = sink.sequence
          /\ Worker!Record.stream = Head(queue).stream /\ Worker!Record.line = Head(queue).line
      BY <2>1, <3>1, OutputIsTyped, LinesHaveStreams DEF Worker!Record, Written
    <3>3. Flows
      BY <1>0, <2>1, <2>3 DEF Flows
    <3>4. QED
      BY <2>1, <2>2, <2>3, <2>5, <3>2, <3>3, RecordKeeps
  <2>6. QED
    BY <2>1, <2>4, <2>5
<1>9. CASE Worker!Exceed
  <2>1. /\ UNCHANGED <<trainer, plan, printed, held, pump, pumped>>
        /\ queue # <<>> /\ queue' = Tail(queue) /\ sink.counted >= Budget
        /\ \/ UNCHANGED <<sink, file, marked>>
           \/ /\ ~sink.noticed /\ sink' = [sink EXCEPT !.noticed = TRUE]
              /\ marked' \in {marked, TRUE}
              /\ file' \in {file, Append(file, Worker!Notice)}
    BY <1>9 DEF Worker!Exceed, Worker!Takes, Worker!Mark, Worker!OverBudget
  <2>2. /\ sink' \in [at : {"opening", "writing", "consuming", "ended"}, sequence : Nat,
                      counted : 0..Budget, noticed : BOOLEAN]
        /\ sink'.sequence = sink.sequence /\ sink'.counted = sink.counted
        /\ sink.noticed => sink'.noticed
    BY <1>0, <2>1
  <2>3. Flows
    BY <1>0, <2>1, <2>2 DEF Flows
  <2>4. CASE file' = file
    BY <2>1, <2>2, <2>3, <2>4, OutputIsTyped, TakenKeeps
  <2>5. CASE file' # file
    <3>1. /\ sink.noticed = FALSE /\ sink'.noticed = TRUE /\ file' = Append(file, Worker!Notice)
      BY <1>0, <2>1, <2>5
    <3>2. /\ Worker!Notice \in Written /\ Worker!Notice.sequence = sink.sequence
          /\ Worker!Notice.stream = "combined"
      BY OutputIsTyped DEF Worker!Notice, Written
    <3>3. QED
      BY <2>1, <2>2, <2>3, <3>1, <3>2, RecordKeeps
  <2>6. QED
    BY <2>4, <2>5
<1>10. CASE Worker!Waits \/ Worker!JoinReaders \/ Worker!JoinWriter \/ Worker!Complete \/ Worker!Kill
  <2>1. UNCHANGED <<trainer, plan, printed, held, pump, pumped, queue, sink, file, marked>>
    BY <1>10, Zenon
    DEF Worker!Waits, Worker!JoinReaders, Worker!JoinWriter, Worker!Complete, Worker!Kill
  <2>2. QED
    BY <1>0, <2>1, SameLinesKeep DEF Flows
<1>11. CASE Worker!Close
  <2>1. /\ UNCHANGED <<trainer, plan, printed, held, pump, pumped, sink, file, marked>>
        /\ queue' = Append(queue, Worker!End)
    BY <1>11, Zenon DEF Worker!Close
  <2>2. QED
    BY <1>0, <2>1, CloseKeeps DEF Flows
<1>12. CASE UNCHANGED Worker!vars
  <2>1. UNCHANGED <<trainer, plan, printed, held, pump, pumped, queue, sink, file, marked>>
    BY <1>12 DEF Worker!vars
  <2>2. QED
    BY <1>0, <2>1, SameLinesKeep DEF Flows
<1>13. QED
  BY <1>1, <1>2, <1>3, <1>4, <1>5, <1>6, <1>7, <1>8, <1>9, <1>10, <1>11, <1>12
  DEF Worker!Next, Worker!Trainer, Worker!Reader, Worker!Writer, Worker!Main

\* An item is taken: what is left of the ends, and of the lines.
LEMMA RestOfLines ==
  ASSUME Worker!OrderInv, Worker!LossInv, queue # <<>>, queue' = Tail(queue)
  PROVE  /\ (\E i \in 1..Len(queue') : queue'[i] = Worker!End) =>
              \E i \in 1..Len(queue) : queue[i] = Worker!End
         /\ \A i, j \in 1..Len(queue') : i < j /\ queue'[i] = Worker!End => queue'[j] = Worker!End
         /\ (\A i \in 1..Len(queue) : queue[i] = Worker!End) =>
              \A i \in 1..Len(queue') : queue'[i] = Worker!End
         /\ Head(queue) = Worker!End =>
              /\ \A i \in 1..Len(queue') : queue'[i] = Worker!End
              /\ \E i \in 1..Len(queue) : queue[i] = Worker!End
         /\ \A s \in Worker!Streams, n \in Nat :
              (\E j \in 1..Len(queue) : queue[j].stream = s /\ queue[j].line = n) =>
                \/ \E j \in 1..Len(queue') : queue'[j].stream = s /\ queue'[j].line = n
                \/ Head(queue).stream = s /\ Head(queue).line = n
<1>1. /\ queue' \in Seq(Items) /\ Len(queue') = Len(queue) - 1 /\ Len(queue') \in Nat
      /\ \A i \in 1..Len(queue') :
           queue'[i] = queue[i + 1] /\ i + 1 \in 1..Len(queue) /\ queue'[i] \in Items
      /\ 1 \in 1..Len(queue) /\ Head(queue) = queue[1]
  BY QueueMovesOn
<1>2. \A i, j \in 1..Len(queue) : i < j /\ queue[i] = Worker!End => queue[j] = Worker!End
  BY DEF Worker!LossInv, Worker!EndsOK
<1>3. \A i, j \in 1..Len(queue') : i < j /\ queue'[i] = Worker!End => queue'[j] = Worker!End
  <2> SUFFICES ASSUME NEW i \in 1..Len(queue'), NEW j \in 1..Len(queue'), i < j,
                      queue'[i] = Worker!End
               PROVE  queue'[j] = Worker!End
    OBVIOUS
  <2>1. i + 1 \in 1..Len(queue) /\ j + 1 \in 1..Len(queue) /\ i + 1 < j + 1
    BY <1>1
  <2>2. QED
    BY <1>1, <1>2, <2>1
<1>4. \A i \in 1..Len(queue') : 1 < i + 1
  BY <1>1
<1>5. Head(queue) = Worker!End => \A i \in 1..Len(queue') : queue'[i] = Worker!End
  BY <1>1, <1>2, <1>4
<1>6. ASSUME NEW s \in Worker!Streams, NEW n \in Nat, NEW j \in 1..Len(queue),
             queue[j].stream = s, queue[j].line = n
      PROVE  \/ \E k \in 1..Len(queue') : queue'[k].stream = s /\ queue'[k].line = n
             \/ Head(queue).stream = s /\ Head(queue).line = n
  <2>1. CASE j = 1
    BY <1>1, <1>6, <2>1
  <2>2. CASE j # 1
    <3>1. j - 1 \in 1..Len(queue') /\ (j - 1) + 1 = j
      BY <1>1, <2>2
    <3>2. queue'[j - 1] = queue[j]
      BY <1>1, <3>1
    <3>3. QED
      BY <1>6, <3>1, <3>2
  <2>3. QED
    BY <2>1, <2>2
<1>7. QED
  BY <1>1, <1>3, <1>5, <1>6

\* What does not touch the threads keeps what they know.
LEMMA PhasesKeep ==
  ASSUME Worker!PhasesOK, UNCHANGED <<trainer, printed, held, pump, pumped, main>>
  PROVE  Worker!PhasesOK' /\ Worker!Closed' = Worker!Closed
<1>1. Worker!Closed' = Worker!Closed
  BY DEF Worker!Closed
<1>2. QED
  BY <1>1 DEF Worker!PhasesOK

\* What does not touch the lines keeps them, and what it was marked for.
LEMMA LinesKeep ==
  ASSUME Worker!LinesOK, UNCHANGED <<pumped, queue, file>>, marked => marked'
  PROVE  Worker!LinesOK'
  BY DEF Worker!LinesOK

\* Only the end of the output closes the queue.
LEMMA EndsKeep ==
  ASSUME Worker!EndsOK, UNCHANGED queue, sink'.at = "ended" => sink.at = "ended",
         Worker!Closed => Worker!Closed',
         main' \in {"complete", "done"} => sink'.at = "ended"
  PROVE  Worker!EndsOK'
  BY DEF Worker!EndsOK

\* An item is taken, and the line of it is kept or its loss is marked.
LEMMA TakenIsKept ==
  ASSUME Worker!OrderInv, Worker!LossInv, queue # <<>>, queue' = Tail(queue),
         UNCHANGED pumped, marked => marked',
         \/ marked'
         \/ UNCHANGED file /\ Head(queue) = Worker!End
         \/ file' = Append(file, Worker!Record) /\ Head(queue) # Worker!End
  PROVE  Worker!LinesOK'
<1> SUFFICES ASSUME ~marked', NEW u \in Worker!Streams, NEW n \in 1..pumped'[u]
             PROVE  \/ \E r \in 1..Len(file') : file'[r].stream = u /\ file'[r].line = n
                    \/ \E j \in 1..Len(queue') : queue'[j].stream = u /\ queue'[j].line = n
  BY DEF Worker!LinesOK
<1>1. n \in 1..pumped[u] /\ ~marked
  OBVIOUS
<1>2. \/ \E r \in 1..Len(file) : file[r].stream = u /\ file[r].line = n
      \/ \E j \in 1..Len(queue) : queue[j].stream = u /\ queue[j].line = n
  BY <1>1 DEF Worker!LossInv, Worker!LinesOK
<1>3. n \in Nat
  BY DEF Worker!OrderInv
<1>4. (\E j \in 1..Len(queue) : queue[j].stream = u /\ queue[j].line = n) =>
        \/ \E j \in 1..Len(queue') : queue'[j].stream = u /\ queue'[j].line = n
        \/ Head(queue).stream = u /\ Head(queue).line = n
  BY <1>3, RestOfLines
<1>5. CASE UNCHANGED file /\ Head(queue) = Worker!End
  <2>1. Head(queue).stream # u
    BY <1>5 DEF Worker!End, Worker!Streams
  <2>2. QED
    BY <1>2, <1>4, <1>5, <2>1
<1>6. CASE file' = Append(file, Worker!Record) /\ Head(queue) # Worker!End
  <2>1. Head(queue) \in Items
    BY QueueMovesOn, OutputIsTyped
  <2>2. Worker!Record.stream = Head(queue).stream /\ Worker!Record.line = Head(queue).line
    BY DEF Worker!Record
  <2>3. Worker!Record \in Written
    BY <1>6, <2>1, OutputIsTyped, LinesHaveStreams DEF Worker!Record, Written
  <2>4. /\ Len(file') = Len(file) + 1 /\ Len(file) \in Nat
        /\ \A r \in 1..Len(file) : file'[r] = file[r]
        /\ file'[Len(file) + 1] = Worker!Record
    BY <1>6, <2>3, FileGrows, OutputIsTyped
  <2>5. Len(file) + 1 \in 1..Len(file') /\ \A r \in 1..Len(file) : r \in 1..Len(file')
    BY <2>4
  <2>6. CASE \E r \in 1..Len(file) : file[r].stream = u /\ file[r].line = n
    BY <2>4, <2>5, <2>6
  <2>7. CASE Head(queue).stream = u /\ Head(queue).line = n
    BY <2>2, <2>4, <2>5, <2>7
  <2>8. QED
    BY <1>2, <1>4, <2>6, <2>7
<1>7. QED
  BY <1>5, <1>6

\* An item is taken: the ends stay behind the lines.
LEMMA EndsStay ==
  ASSUME Worker!OrderInv, Worker!LossInv, queue # <<>>, queue' = Tail(queue),
         UNCHANGED main, Worker!Closed' = Worker!Closed,
         \/ sink'.at = sink.at
         \/ sink'.at = "ended" /\ Head(queue) = Worker!End
  PROVE  Worker!EndsOK'
<1>1. \A i, j \in 1..Len(queue') : i < j /\ queue'[i] = Worker!End => queue'[j] = Worker!End
  BY RestOfLines
<1>2. sink'.at = "ended" \/ (\E i \in 1..Len(queue') : queue'[i] = Worker!End) => Worker!Closed'
  BY RestOfLines DEF Worker!LossInv, Worker!EndsOK
<1>3. sink'.at = "ended" => \A i \in 1..Len(queue') : queue'[i] = Worker!End
  BY RestOfLines DEF Worker!LossInv, Worker!EndsOK
<1>4. main' \in {"complete", "done"} => sink'.at = "ended"
  BY DEF Worker!LossInv, Worker!EndsOK
<1>5. QED
  BY <1>1, <1>2, <1>3, <1>4 DEF Worker!EndsOK

\* While the trainer runs nothing is closed: no reader has ended, and no end is queued.
LEMMA OpenWhileRunning ==
  ASSUME Worker!LossInv, trainer = "running"
  PROVE  /\ ~Worker!Closed /\ sink.at # "ended"
         /\ \A i \in 1..Len(queue) : queue[i] # Worker!End
         /\ \A u \in Worker!Streams : pump[u] # "ended"
         /\ main \notin {"launch", "join stdout", "join stderr", "close", "joining",
                         "close again", "joining again", "complete", "done"}
<1>1. ~Worker!Closed
  BY DEF Worker!Closed
<1>2. sink.at # "ended" /\ \A i \in 1..Len(queue) : queue[i] # Worker!End
  BY <1>1 DEF Worker!LossInv, Worker!EndsOK
<1>3. /\ \A u \in Worker!Streams : pump[u] # "ended"
      /\ main \notin {"launch", "join stdout", "join stderr", "close", "joining",
                      "close again", "joining again", "complete", "done"}
  BY <1>1 DEF Worker!LossInv, Worker!PhasesOK
<1>4. QED
  BY <1>1, <1>2, <1>3

\* The trainer starts, or does not.
LEMMA LaunchKeeps ==
  ASSUME Worker!OrderInv, Worker!LossInv, Worker!Launch
  PROVE  Worker!LossInv'
<1>1. /\ main = "launch" /\ UNCHANGED <<plan, printed, held, pump, pumped, queue, sink, file, marked>>
      /\ \/ trainer' = "running" /\ main' = "wait"
         \/ trainer' = trainer /\ main' = "close again"
  BY Zenon DEF Worker!Launch
<1>2. trainer = "none" /\ \A s \in Worker!Streams : printed[s] = 0
  BY <1>1 DEF Worker!LossInv, Worker!PhasesOK
<1>3. \A s \in Worker!Streams : pumped[s] = printed[s]
  BY <1>2 DEF Worker!OrderInv
<1>4. ~Worker!Closed
  BY <1>1 DEF Worker!Closed
<1>5. Worker!PhasesOK'
  <2>1. \A s \in Worker!Streams : pump'[s] # "ended"
    BY <1>1, <1>2 DEF Worker!LossInv, Worker!PhasesOK
  <2>2. main' = "close again" => Worker!Closed'
    BY <1>1, <1>2, <1>3 DEF Worker!Closed
  <2>3. QED
    BY <1>1, <1>2, <2>1, <2>2 DEF Worker!LossInv, Worker!PhasesOK
<1>6. Worker!EndsOK'
  BY <1>1, <1>4, EndsKeep DEF Worker!LossInv
<1>7. Worker!MarksOK'
  BY <1>1 DEF Worker!LossInv, Worker!MarksOK
<1>8. Worker!LinesOK'
  BY <1>1, LinesKeep DEF Worker!LossInv
<1>9. QED
  BY <1>5, <1>6, <1>7, <1>8 DEF Worker!LossInv

\* The trainer prints a line, or exits.
LEMMA TrainerKeeps ==
  ASSUME Rare \subseteq {"kill"}, Worker!OrderInv, Worker!LossInv,
         Worker!Exit \/ \E s \in Worker!Streams : Worker!Prints(s)
  PROVE  Worker!LossInv'
<1>1. trainer = "running" /\ UNCHANGED <<plan, pump, pumped, queue, sink, file, marked, main>>
  <2>1. CASE Worker!Exit
    BY <2>1, Zenon DEF Worker!Exit
  <2>2. ASSUME NEW s \in Worker!Streams, Worker!Prints(s)
        PROVE  trainer = "running" /\ UNCHANGED <<plan, pump, pumped, queue, sink, file, marked, main>>
    <3>1. s \notin held
      BY DEF Worker!LossInv, Worker!PhasesOK
    <3>2. QED
      BY <2>2, <3>1, Zenon DEF Worker!Prints
  <2>3. QED
    BY <2>1, <2>2
<1>2. /\ ~Worker!Closed /\ sink.at # "ended" /\ \A u \in Worker!Streams : pump[u] # "ended"
      /\ main \notin {"launch", "join stdout", "join stderr", "close", "joining",
                      "close again", "joining again", "complete", "done"}
  BY <1>1, OpenWhileRunning
<1>3. trainer' # "none" /\ held' = {}
  <2>1. "child" \notin Rare /\ held = {}
    BY DEF Worker!LossInv, Worker!PhasesOK
  <2>2. CASE Worker!Exit
    BY <2>1, <2>2 DEF Worker!Exit
  <2>3. ASSUME NEW s \in Worker!Streams, Worker!Prints(s)
        PROVE  trainer' # "none" /\ held' = {}
    BY <1>1, <2>1, <2>3 DEF Worker!Prints
  <2>4. QED
    BY <2>2, <2>3
<1>4. Worker!PhasesOK'
  BY <1>1, <1>2, <1>3 DEF Worker!PhasesOK
<1>5. Worker!EndsOK'
  BY <1>1, <1>2, EndsKeep DEF Worker!LossInv
<1>6. Worker!MarksOK'
  BY <1>1 DEF Worker!LossInv, Worker!MarksOK
<1>7. Worker!LinesOK'
  BY <1>1, LinesKeep DEF Worker!LossInv
<1>8. QED
  BY <1>4, <1>5, <1>6, <1>7 DEF Worker!LossInv

\* A reader takes a line.
LEMMA PumpIsKept ==
  ASSUME Worker!OrderInv, Worker!LossInv, NEW s \in Worker!Streams, Worker!Pump(s)
  PROVE  Worker!LossInv'
<1> DEFINE item == [stream |-> s, line |-> pumped[s] + 1]
<1>1. /\ pumped' = [pumped EXCEPT ![s] = @ + 1] /\ pumped[s] < printed[s] /\ pump[s] = "pumping"
      /\ queue' = Append(queue, [stream |-> s, line |-> pumped'[s]])
      /\ UNCHANGED <<trainer, plan, printed, held, pump, sink, file, marked, main>>
  BY Zenon DEF Worker!Pump
<1>2. /\ pumped'[s] = pumped[s] + 1 /\ pumped[s] \in Nat
      /\ \A u \in Worker!Streams \ {s} : pumped'[u] = pumped[u]
  BY <1>1 DEF Worker!OrderInv
<1>3. item \in Items /\ item # Worker!End /\ item.stream = s /\ item.line = pumped[s] + 1
  BY <1>2 DEF Items, Worker!End
<1>4. /\ Len(queue') = Len(queue) + 1 /\ Len(queue') \in Nat /\ Len(queue) \in Nat
      /\ \A i \in 1..Len(queue) : queue'[i] = queue[i]
      /\ queue'[Len(queue) + 1] = item
      /\ \A i \in 1..Len(queue') : i \in 1..Len(queue) \/ i = Len(queue) + 1
  BY <1>1, <1>2, <1>3, QueueGrows, OutputIsTyped
<1> HIDE DEF item
<1>5. pumped[s] # printed[s] /\ ~Worker!Closed
  <2>1. pumped[s] \in Nat /\ printed[s] \in Nat
    BY ExecutionAssumption DEF Worker!OrderInv, Worker!OutputAssumption
  <2>2. pumped[s] # printed[s]
    BY <1>1, <2>1
  <2>3. QED
    BY <2>2 DEF Worker!Closed
<1>6. sink.at # "ended" /\ \A i \in 1..Len(queue) : queue[i] # Worker!End
  BY <1>5 DEF Worker!LossInv, Worker!EndsOK
<1>7. \A i \in 1..Len(queue') : queue'[i] # Worker!End
  BY <1>3, <1>4, <1>6
<1>8. Worker!PhasesOK'
  <2>1. main \notin {"close", "joining", "close again", "joining again", "complete", "done"}
    BY <1>5 DEF Worker!LossInv, Worker!PhasesOK
  <2>2. \A u \in Worker!Streams : pump'[u] = "ended" => pumped'[u] = printed'[u] /\ trainer' = "exited"
    BY <1>1, <1>2 DEF Worker!LossInv, Worker!PhasesOK
  <2>3. QED
    BY <1>1, <2>1, <2>2 DEF Worker!LossInv, Worker!PhasesOK
<1>9. Worker!EndsOK'
  <2>1. main' \notin {"complete", "done"}
    BY <1>1, <1>6 DEF Worker!LossInv, Worker!EndsOK
  <2>2. QED
    BY <1>1, <1>6, <1>7, <2>1 DEF Worker!EndsOK
<1>10. Worker!MarksOK'
  BY <1>1 DEF Worker!LossInv, Worker!MarksOK
<1>11. ASSUME ~marked', NEW u \in Worker!Streams, NEW n \in 1..pumped'[u]
       PROVE  \/ \E r \in 1..Len(file') : file'[r].stream = u /\ file'[r].line = n
              \/ \E j \in 1..Len(queue') : queue'[j].stream = u /\ queue'[j].line = n
  <2>1. CASE n \in 1..pumped[u]
    <3>1. \/ \E r \in 1..Len(file) : file[r].stream = u /\ file[r].line = n
          \/ \E j \in 1..Len(queue) : queue[j].stream = u /\ queue[j].line = n
      BY <1>1, <1>11, <2>1 DEF Worker!LossInv, Worker!LinesOK
    <3>2. \A j \in 1..Len(queue) : j \in 1..Len(queue')
      BY <1>4
    <3>3. QED
      BY <1>1, <1>4, <3>1, <3>2
  <2>2. CASE n \notin 1..pumped[u]
    <3>1. u = s /\ n = pumped[s] + 1
      BY <1>2, <1>11, <2>2
    <3>2. Len(queue) + 1 \in 1..Len(queue')
      BY <1>4
    <3>3. QED
      BY <1>3, <1>4, <3>1, <3>2
  <2>3. QED
    BY <2>1, <2>2
<1>12. Worker!LinesOK'
  BY <1>11 DEF Worker!LinesOK
<1>13. QED
  BY <1>8, <1>9, <1>10, <1>12 DEF Worker!LossInv

\* A reader is at the end of its pipe.
LEMMA PumpEndKeeps ==
  ASSUME Worker!OrderInv, Worker!LossInv, NEW s \in Worker!Streams, Worker!PumpEnds(s)
  PROVE  Worker!LossInv'
<1>1. /\ pump' = [pump EXCEPT ![s] = "ended"] /\ pumped[s] = printed[s] /\ trainer = "exited"
      /\ UNCHANGED <<trainer, plan, printed, held, pumped, queue, sink, file, marked, main>>
  BY Zenon DEF Worker!PumpEnds
<1>2. \A u \in Worker!Streams : pump'[u] = "ended" <=> u = s \/ pump[u] = "ended"
  BY <1>1 DEF Worker!OrderInv
<1>3. Worker!Closed' = Worker!Closed
  BY <1>1 DEF Worker!Closed
<1>4. Worker!PhasesOK'
  <2>1. \A u \in Worker!Streams : pump'[u] = "ended" => pumped'[u] = printed'[u] /\ trainer' = "exited"
    BY <1>1, <1>2 DEF Worker!LossInv, Worker!PhasesOK
  <2>2. main' = "join stderr" => pump'["stdout"] = "ended"
    BY <1>1, <1>2 DEF Worker!LossInv, Worker!PhasesOK, Worker!Streams
  <2>3. QED
    BY <1>1, <1>3, <2>1, <2>2 DEF Worker!LossInv, Worker!PhasesOK
<1>5. Worker!EndsOK'
  BY <1>1, <1>3 DEF Worker!LossInv, Worker!EndsOK
<1>6. Worker!MarksOK'
  BY <1>1 DEF Worker!LossInv, Worker!MarksOK
<1>7. Worker!LinesOK'
  BY <1>1, LinesKeep DEF Worker!LossInv
<1>8. QED
  BY <1>4, <1>5, <1>6, <1>7 DEF Worker!LossInv

\* The writer opens its file, takes the end, drops a line or writes it.
LEMMA WriterKeeps ==
  ASSUME Rare \subseteq {"kill"}, Worker!OrderInv, Worker!LossInv, Worker!Writer
  PROVE  Worker!LossInv'
<1>1. UNCHANGED <<trainer, plan, printed, held, pump, pumped, main>>
  BY Zenon
  DEF Worker!Writer, Worker!Open, Worker!Ends, Worker!Discard, Worker!Write, Worker!Exceed
<1>2. Worker!PhasesOK' /\ Worker!Closed' = Worker!Closed
  BY <1>1, PhasesKeep DEF Worker!LossInv
<1>3. Worker!Mark <=> marked' = TRUE
  BY DEF Worker!Mark
<1>4. CASE Worker!Open
  <2>1. /\ UNCHANGED <<queue, file>> /\ sink.at = "opening"
        /\ \/ sink' = [sink EXCEPT !.at = "writing"] /\ UNCHANGED marked
           \/ sink' = [sink EXCEPT !.at = "consuming"] /\ marked' = TRUE
    BY <1>3, <1>4, Zenon DEF Worker!Open
  <2>2. /\ sink'.at \in {"writing", "consuming"} /\ sink'.noticed = sink.noticed
        /\ (sink'.at = "consuming" => marked') /\ (marked => marked')
    BY <2>1 DEF Worker!OrderInv
  <2>3. main' \notin {"complete", "done"}
    BY <1>1, <2>1 DEF Worker!LossInv, Worker!EndsOK
  <2>4. Worker!EndsOK'
    BY <1>2, <2>1, <2>2, <2>3, EndsKeep DEF Worker!LossInv
  <2>5. Worker!MarksOK'
    BY <2>2 DEF Worker!LossInv, Worker!MarksOK
  <2>6. Worker!LinesOK'
    BY <1>1, <2>1, <2>2, LinesKeep DEF Worker!LossInv
  <2>7. QED
    BY <1>2, <2>4, <2>5, <2>6 DEF Worker!LossInv
<1>5. CASE Worker!Ends
  <2>1. /\ UNCHANGED <<file, marked>> /\ queue # <<>> /\ queue' = Tail(queue)
        /\ Head(queue) = Worker!End /\ sink' = [sink EXCEPT !.at = "ended"]
    BY <1>5, Zenon DEF Worker!Ends, Worker!Takes
  <2>2. sink'.at = "ended" /\ sink'.noticed = sink.noticed
    BY <2>1 DEF Worker!OrderInv
  <2>3. Worker!EndsOK'
    BY <1>1, <1>2, <2>1, <2>2, EndsStay
  <2>4. Worker!MarksOK'
    BY <2>1, <2>2 DEF Worker!LossInv, Worker!MarksOK
  <2>5. Worker!LinesOK'
    BY <1>1, <2>1, TakenIsKept
  <2>6. QED
    BY <1>2, <2>3, <2>4, <2>5 DEF Worker!LossInv
<1>6. CASE Worker!Discard \/ (Worker!Exceed /\ sink.noticed)
  <2>1. /\ UNCHANGED <<sink, file, marked>> /\ queue # <<>> /\ queue' = Tail(queue)
        /\ (sink.at = "consuming" \/ sink.noticed)
    BY <1>6, Zenon DEF Worker!Discard, Worker!Exceed, Worker!Takes
  <2>2. marked
    BY <2>1 DEF Worker!LossInv, Worker!MarksOK
  <2>3. Worker!EndsOK'
    BY <1>1, <1>2, <2>1, EndsStay
  <2>4. Worker!MarksOK'
    BY <2>1, <2>2 DEF Worker!MarksOK
  <2>5. Worker!LinesOK'
    BY <1>1, <2>1, <2>2, TakenIsKept
  <2>6. QED
    BY <1>2, <2>3, <2>4, <2>5 DEF Worker!LossInv
<1>7. CASE Worker!Write \/ (Worker!Exceed /\ ~sink.noticed)
  <2>1. /\ queue # <<>> /\ queue' = Tail(queue) /\ sink.at = "writing"
        /\ \/ /\ file' = Append(file, Worker!Record) /\ UNCHANGED marked
              /\ sink' = [sink EXCEPT !.sequence = @ + 1, !.counted = @ + 1]
              /\ Head(queue) # Worker!End
           \/ /\ marked' = TRUE
              /\ \/ sink' = [sink EXCEPT !.sequence = @ + 1]
                 \/ sink' = [sink EXCEPT !.noticed = TRUE]
    <3>1. CASE Worker!Write
      BY <1>3, <3>1, Zenon DEF Worker!Write, Worker!Takes
    <3>2. CASE Worker!Exceed /\ ~sink.noticed
      BY <1>3, <3>2, Zenon DEF Worker!Exceed, Worker!Takes
    <3>3. QED
      BY <1>7, <3>1, <3>2
  <2>2. /\ sink'.at = sink.at /\ (sink'.noticed => sink.noticed \/ marked') /\ (marked => marked')
    <3>1. sink \in [at : {"opening", "writing", "consuming", "ended"}, sequence : Nat,
                    counted : 0..Budget, noticed : BOOLEAN]
      BY DEF Worker!OrderInv
    <3>2. sink'.at = sink.at
      BY <2>1, <3>1
    <3>3. marked' = TRUE \/ (marked' = marked /\ sink'.noticed = sink.noticed)
      BY <2>1, <3>1
    <3>4. CASE marked' = TRUE
      BY <3>2, <3>4
    <3>5. CASE marked' = marked /\ sink'.noticed = sink.noticed
      BY <3>2, <3>5
    <3>6. QED
      BY <3>3, <3>4, <3>5
  <2>3. Worker!EndsOK'
    BY <1>1, <1>2, <2>1, <2>2, EndsStay
  <2>4. Worker!MarksOK'
    BY <2>1, <2>2 DEF Worker!LossInv, Worker!MarksOK
  <2>5. Worker!LinesOK'
    BY <1>1, <2>1, <2>2, TakenIsKept
  <2>6. QED
    BY <1>2, <2>3, <2>4, <2>5 DEF Worker!LossInv
<1>8. QED
  BY <1>4, <1>5, <1>6, <1>7 DEF Worker!Writer

\* The main thread waits for the trainer, the readers and the writer, or is killed.
LEMMA MainKeeps ==
  ASSUME Rare \subseteq {"kill"}, Worker!OrderInv, Worker!LossInv,
         \/ Worker!Waits \/ Worker!JoinReaders \/ Worker!JoinWriter \/ Worker!Complete
         \/ Worker!Kill
  PROVE  Worker!LossInv'
<1>1. UNCHANGED <<trainer, plan, printed, held, pump, pumped, queue, sink, file, marked>>
  BY Zenon
  DEF Worker!Waits, Worker!JoinReaders, Worker!JoinWriter, Worker!Complete, Worker!Kill
<1>2. held = {} /\ "slow" \notin Rare
  BY DEF Worker!LossInv, Worker!PhasesOK
<1>3. \/ main = "wait" /\ main' = "join stdout" /\ trainer = "exited"
      \/ main = "join stdout" /\ main' = "join stderr" /\ pump["stdout"] = "ended"
      \/ main = "join stderr" /\ main' = "close" /\ pump["stderr"] = "ended"
      \/ main = "joining" /\ main' = "close again"
      \/ main = "joining again" /\ main' = "complete" /\ sink.at = "ended"
      \/ main = "complete" /\ main' = "done"
      \/ main' = "killed" /\ main \notin {"done", "killed"}
  BY <1>2
  DEF Worker!Waits, Worker!JoinReaders, Worker!JoinWriter, Worker!Complete, Worker!Kill,
      Worker!Goes, Worker!Alive
<1>4. Worker!Closed => Worker!Closed'
  BY <1>1, <1>3 DEF Worker!Closed
<1>5. main' \in {"close", "joining", "close again", "joining again", "complete", "done"} =>
        Worker!Closed'
  <2>1. CASE main = "join stderr" /\ main' = "close" /\ pump["stderr"] = "ended"
    <3>1. trainer = "exited" /\ pump["stdout"] = "ended"
      BY <2>1 DEF Worker!LossInv, Worker!PhasesOK
    <3>2. \A s \in Worker!Streams : pumped[s] = printed[s]
      BY <2>1, <3>1 DEF Worker!LossInv, Worker!PhasesOK, Worker!Streams
    <3>3. QED
      BY <1>1, <2>1, <3>1, <3>2 DEF Worker!Closed
  <2>2. CASE main \in {"joining", "joining again", "complete"}
    BY <1>4, <2>2 DEF Worker!LossInv, Worker!PhasesOK
  <2>3. QED
    BY <1>3, <2>1, <2>2
<1>6. Worker!PhasesOK'
  <2>1. trainer = "exited" \/ main' \notin {"join stdout", "join stderr"}
    BY <1>3 DEF Worker!LossInv, Worker!PhasesOK
  <2>2. main' = "join stderr" => pump["stdout"] = "ended"
    BY <1>3
  <2>3. main' # "launch"
    BY <1>3
  <2>4. QED
    BY <1>1, <1>5, <2>1, <2>2, <2>3 DEF Worker!LossInv, Worker!PhasesOK
<1>7. Worker!EndsOK'
  <2>1. main' \in {"complete", "done"} => sink'.at = "ended"
    BY <1>1, <1>3 DEF Worker!LossInv, Worker!EndsOK
  <2>2. QED
    BY <1>1, <1>4, <2>1, EndsKeep DEF Worker!LossInv
<1>8. Worker!MarksOK'
  BY <1>1 DEF Worker!LossInv, Worker!MarksOK
<1>9. Worker!LinesOK'
  BY <1>1, LinesKeep DEF Worker!LossInv
<1>10. QED
  BY <1>6, <1>7, <1>8, <1>9 DEF Worker!LossInv

\* The end is queued when the trainer has exited and the readers are done.
LEMMA CloseIsLast ==
  ASSUME Worker!OrderInv, Worker!LossInv, Worker!Close
  PROVE  Worker!LossInv'
<1>1. /\ UNCHANGED <<trainer, plan, printed, held, pump, pumped, sink, file, marked>>
      /\ queue' = Append(queue, Worker!End)
      /\ \/ main = "close" /\ main' = "joining"
         \/ main = "close again" /\ main' = "joining again"
  BY Zenon DEF Worker!Close, Worker!Goes
<1>2. Worker!Closed
  BY <1>1 DEF Worker!LossInv, Worker!PhasesOK
<1>3. Worker!Closed'
  BY <1>1, <1>2 DEF Worker!Closed
<1>4. /\ Len(queue') = Len(queue) + 1 /\ Len(queue') \in Nat /\ Len(queue) \in Nat
      /\ \A i \in 1..Len(queue) : queue'[i] = queue[i]
      /\ queue'[Len(queue) + 1] = Worker!End
      /\ \A i \in 1..Len(queue') : i \in 1..Len(queue) \/ i = Len(queue) + 1
  BY <1>1, QueueGrows, OutputIsTyped DEF Items
<1>5. Worker!PhasesOK'
  BY <1>1, <1>3 DEF Worker!LossInv, Worker!PhasesOK
<1>6. Worker!EndsOK'
  <2>1. \A i, j \in 1..Len(queue') : i < j /\ queue'[i] = Worker!End => queue'[j] = Worker!End
    <3> SUFFICES ASSUME NEW i \in 1..Len(queue'), NEW j \in 1..Len(queue'), i < j,
                        queue'[i] = Worker!End
                 PROVE  queue'[j] = Worker!End
      OBVIOUS
    <3>1. i \in 1..Len(queue)
      BY <1>4
    <3>2. QED
      BY <1>4, <3>1 DEF Worker!LossInv, Worker!EndsOK
  <2>2. (\A i \in 1..Len(queue) : queue[i] = Worker!End) =>
          \A i \in 1..Len(queue') : queue'[i] = Worker!End
    BY <1>4
  <2>3. main' \notin {"complete", "done"}
    BY <1>1
  <2>4. QED
    BY <1>1, <1>3, <2>1, <2>2, <2>3 DEF Worker!LossInv, Worker!EndsOK
<1>7. Worker!MarksOK'
  BY <1>1 DEF Worker!LossInv, Worker!MarksOK
<1>8. Worker!LinesOK'
  <2>1. \A j \in 1..Len(queue) : j \in 1..Len(queue') /\ queue'[j] = queue[j]
    BY <1>4
  <2>2. ASSUME ~marked', NEW s \in Worker!Streams, NEW n \in 1..pumped'[s]
        PROVE  \/ \E r \in 1..Len(file') : file'[r].stream = s /\ file'[r].line = n
               \/ \E j \in 1..Len(queue') : queue'[j].stream = s /\ queue'[j].line = n
    <3>1. \/ \E r \in 1..Len(file) : file[r].stream = s /\ file[r].line = n
          \/ \E j \in 1..Len(queue) : queue[j].stream = s /\ queue[j].line = n
      BY <1>1, <2>2 DEF Worker!LossInv, Worker!LinesOK
    <3>2. QED
      BY <1>1, <2>1, <3>1
  <2>3. QED
    BY <2>2 DEF Worker!LinesOK
<1>9. QED
  BY <1>5, <1>6, <1>7, <1>8 DEF Worker!LossInv

\* Every step keeps what was taken, while nothing rare happens but a kill.
LEMMA LossGoesOn ==
  ASSUME Rare \subseteq {"kill"}, Worker!OrderInv, Worker!LossInv, [Worker!Next]_Worker!vars
  PROVE  Worker!LossInv'
<1>1. CASE Worker!Launch
  BY <1>1, LaunchKeeps
<1>2. CASE Worker!Exit \/ \E s \in Worker!Streams : Worker!Prints(s)
  BY <1>2, TrainerKeeps
<1>3. CASE Worker!ChildExits
  BY <1>3 DEF Worker!ChildExits, Worker!LossInv, Worker!PhasesOK
<1>4. ASSUME NEW s \in Worker!Streams, Worker!Pump(s)
      PROVE  Worker!LossInv'
  BY <1>4, PumpIsKept
<1>5. ASSUME NEW s \in Worker!Streams, Worker!PumpEnds(s)
      PROVE  Worker!LossInv'
  BY <1>5, PumpEndKeeps
<1>6. CASE Worker!Writer
  BY <1>6, WriterKeeps
<1>7. CASE \/ Worker!Waits \/ Worker!JoinReaders \/ Worker!JoinWriter \/ Worker!Complete
           \/ Worker!Kill
  BY <1>7, MainKeeps
<1>8. CASE Worker!Close
  BY <1>8, CloseIsLast
<1>9. CASE UNCHANGED Worker!vars
  <2>1. UNCHANGED <<trainer, plan, printed, held, pump, pumped, queue, sink, file, marked, main>>
    BY <1>9 DEF Worker!vars
  <2>2. Worker!PhasesOK' /\ Worker!Closed' = Worker!Closed
    BY <2>1, PhasesKeep DEF Worker!LossInv
  <2>3. Worker!EndsOK'
    BY <2>1, <2>2 DEF Worker!LossInv, Worker!EndsOK
  <2>4. Worker!MarksOK'
    BY <2>1 DEF Worker!LossInv, Worker!MarksOK
  <2>5. Worker!LinesOK'
    BY <2>1, LinesKeep DEF Worker!LossInv
  <2>6. QED
    BY <2>2, <2>3, <2>4, <2>5 DEF Worker!LossInv
<1>10. QED
  BY <1>1, <1>2, <1>3, <1>4, <1>5, <1>6, <1>7, <1>8, <1>9, Zenon
  DEF Worker!Next, Worker!Trainer, Worker!Reader, Worker!Main

\* What the invariants say of the records and the losses.
LEMMA OutputHolds ==
  ASSUME Worker!OrderInv
  PROVE  /\ Worker!TypeOK /\ Worker!RecordsAreInOrder /\ Worker!NoticeIsLast
         /\ Worker!LossInv => Worker!LossIsMarked
<1>1. Worker!RecordsAreInOrder /\ Worker!NoticeIsLast
  BY DEF Worker!OrderInv
<1>2. MaxLines \in Nat /\ Budget \in Nat
  BY ExecutionAssumption DEF Worker!OutputAssumption
<1>3. Worker!TypeOK
  <2>1. \A s \in Worker!Streams : /\ printed[s] \in 0..MaxLines /\ pumped[s] \in 0..printed[s]
                                  /\ pump[s] \in {"pumping", "ended"}
    BY <1>2 DEF Worker!OrderInv
  <2>2. /\ sink.at \in {"opening", "writing", "consuming", "ended"}
        /\ sink.counted \in 0..Budget /\ sink.sequence \in Nat
    BY DEF Worker!OrderInv
  <2>3. trainer \in {"none", "running", "exited"} /\ held \subseteq Worker!Streams /\ marked \in BOOLEAN
    BY DEF Worker!OrderInv
  <2>4. QED
    BY <2>1, <2>2, <2>3 DEF Worker!TypeOK
<1>4. ASSUME Worker!LossInv, main = "done", ~marked, NEW s \in Worker!Streams, NEW i \in 1..printed[s]
      PROVE  Worker!Kept(file, s, i)
  <2>1. sink.at = "ended" /\ Worker!Closed
    BY <1>4 DEF Worker!LossInv, Worker!EndsOK
  <2>2. \A j \in 1..Len(queue) : queue[j] = Worker!End
    BY <1>4, <2>1 DEF Worker!LossInv, Worker!EndsOK
  <2>3. \A j \in 1..Len(queue) : queue[j].stream # s
    BY <2>2 DEF Worker!End, Worker!Streams
  <2>4. i \in 1..pumped[s]
    BY <2>1 DEF Worker!Closed
  <2>5. PICK r \in 1..Len(file) : file[r].stream = s /\ file[r].line = i
    BY <1>4, <2>3, <2>4 DEF Worker!LossInv, Worker!LinesOK
  <2>6. r \in DOMAIN file
    BY OutputIsTyped, LenProperties
  <2>7. QED
    BY <2>5, <2>6 DEF Worker!Kept
<1>5. QED
  BY <1>1, <1>3, <1>4 DEF Worker!LossIsMarked

(* Side by side with the others, whatever fails, is slow or is killed: the *)
(* records of a worker have the order of the lines of each stream, no two  *)
(* of them one number, and nothing follows the notice of the budget        *)
(* (DiagnosticsSink).                                                      *)
THEOREM OutputStaysInOrder ==
  AllSpec => [](Is("worker") =>
    Worker!TypeOK /\ Worker!RecordsAreInOrder /\ Worker!NoticeIsLast)
<1> DEFINE Ordered == Is("worker") => Worker!OrderInv
<1>1. AllInit => Ordered
  BY OutputBegins DEF AllInit, Is
<1>2. Ordered /\ [AllNext]_allvars => Ordered'
  <2> SUFFICES ASSUME Ordered, [AllNext]_allvars, Is("worker")' PROVE Worker!OrderInv'
    OBVIOUS
  <2>1. Is("worker") /\ Worker!OrderInv
    BY DEF AllNext, allvars, Is
  <2>2. [Worker!Next]_Worker!vars
    BY <2>1 DEF AllNext, allvars, Is, OfWorker, Worker!vars
  <2>3. QED
    BY <2>1, <2>2, OrderGoesOn
<1>3. Ordered =>
        (Is("worker") => Worker!TypeOK /\ Worker!RecordsAreInOrder /\ Worker!NoticeIsLast)
  BY OutputHolds
<1>4. QED
  BY <1>1, <1>2, <1>3, PTL DEF AllSpec

-----------------------------------------------------------------------------
(* The offset of the diagnostics, while a character is one byte.           *)

\* A set of numbers that is not empty and has a bound has a greatest member.
LEMMA GreatestNumber ==
  ASSUME NEW S, S \subseteq Nat, S # {}, NEW bound \in Nat, \A n \in S : n <= bound
  PROVE  \E m \in S : \A n \in S : n <= m
<1> DEFINE T == {bound - n : n \in S}
<1>1. T \subseteq Nat /\ T # {}
  <2>1. \A n \in S : bound - n \in Nat
    OBVIOUS
  <2>2. QED
    BY <2>1
<1>2. PICK t \in T : \A u \in T : ~(<<u, t>> \in OpToRel(<, Nat))
  <2> HIDE DEF T
  <2>1. QED
    BY <1>1, NatLessThanWellFounded, WFMin
<1>3. \A u \in T : t <= u
  <2> HIDE DEF T
  <2>1. t \in Nat /\ \A u \in T : u \in Nat
    BY <1>1
  <2>2. \A u \in T : ~(u < t)
    BY <1>2, <2>1 DEF OpToRel
  <2>3. QED
    BY <2>1, <2>2
<1>4. PICK m \in S : t = bound - m
  OBVIOUS
<1>5. \A n \in S : bound - m <= bound - n
  BY <1>3, <1>4
<1>6. \A n \in S : n <= m
  BY <1>5
<1>7. QED
  BY <1>6

\* The cardinality of the instance is that of the theorems.
LEMMA SameCount ==
  ASSUME NEW S
  PROVE  Offset!Cardinality(S) = Cardinality(S)
  BY DEF Offset!Cardinality, Cardinality

\* The lines lie one behind the other.
LEMMA LinesAreTogether ==
  ASSUME Offset!IInv, Widths = {1}
  PROVE  /\ Len(lines) \in Nat /\ DOMAIN lines = 1..Len(lines)
         /\ \A n \in 1..Len(lines) :
              /\ lines[n].width = 1 /\ lines[n].length \in Nat /\ lines[n].from \in Nat
              /\ Offset!EndOf(n) = Offset!EndOf(n - 1) + lines[n].length + 2
         /\ \A n \in 0..Len(lines) : Offset!EndOf(n) \in Nat
         /\ \A i, j \in 0..Len(lines) :
              i <= j => Offset!EndOf(i) <= Offset!EndOf(j)
         /\ \A i, j \in 0..Len(lines) :
              Offset!EndOf(i) <= Offset!EndOf(j) => i <= j
         /\ written \in Nat /\ written <= Offset!EndOf(Len(lines))
<1>1. /\ Len(lines) \in Nat /\ DOMAIN lines = 1..Len(lines)
      /\ \A n \in 1..Len(lines) : lines[n] \in [width : Widths, length : Lengths, from : Nat]
  BY LenProperties, ElementOfSeq DEF Offset!IInv
<1>2. \A n \in 1..Len(lines) :
        lines[n].width = 1 /\ lines[n].length \in Nat /\ lines[n].from \in Nat
  BY <1>1, ExecutionAssumption DEF Offset!OffsetAssumption
<1>3. \A n \in 1..Len(lines) : Offset!Bytes(lines[n]) = lines[n].length + 2
  BY <1>2 DEF Offset!Bytes
<1>4. \A n \in 1..Len(lines) : Offset!EndOf(n) = lines[n].from + lines[n].length + 2
  BY <1>2, <1>3 DEF Offset!EndOf
<1>5. \A n \in 1..Len(lines) : lines[n].from = Offset!EndOf(n - 1)
  BY DEF Offset!IInv
<1>6. \A n \in 0..Len(lines) : Offset!EndOf(n) \in Nat
  <2>1. Offset!EndOf(0) = 0
    BY DEF Offset!EndOf
  <2>2. QED
    BY <1>1, <1>2, <1>4, <2>1
<1>7. \A i, j \in 0..Len(lines) : i < j => Offset!EndOf(i) < Offset!EndOf(j)
  BY DEF Offset!IInv
<1>8. /\ \A i, j \in 0..Len(lines) : i <= j => Offset!EndOf(i) <= Offset!EndOf(j)
      /\ \A i, j \in 0..Len(lines) : Offset!EndOf(i) <= Offset!EndOf(j) => i <= j
  BY <1>1, <1>6, <1>7
<1>9. written \in Nat /\ written <= Offset!EndOf(Len(lines))
  BY <1>1, <1>6 DEF Offset!IInv
<1>10. QED
  BY <1>1, <1>2, <1>4, <1>5, <1>6, <1>8, <1>9

\* A byte that is on disk is one of a line, never inside of a character, and the
\* last of its line when it is a newline.
LEMMA ByteOfLine ==
  ASSUME Offset!IInv, Widths = {1}, NEW b \in 0..(written - 1)
  PROVE  /\ Offset!Byte(b) # "more"
         /\ Offset!Byte(b) = "end" => \E n \in 1..Len(lines) : b = Offset!EndOf(n) - 1
<1>1. /\ Len(lines) \in Nat /\ DOMAIN lines = 1..Len(lines)
      /\ \A n \in 0..Len(lines) : Offset!EndOf(n) \in Nat
      /\ written \in Nat /\ written <= Offset!EndOf(Len(lines))
  BY LinesAreTogether
<1>2. PICK n \in 0..Len(lines) :
        Offset!EndOf(n) <= b /\ \A m \in 0..Len(lines) : Offset!EndOf(m) <= b => m <= n
  <2> DEFINE S == {m \in 0..Len(lines) : Offset!EndOf(m) <= b}
  <2>1. S \subseteq Nat /\ \A m \in S : m <= Len(lines)
    BY <1>1
  <2>2. 0 \in S
    BY <1>1 DEF Offset!EndOf
  <2>3. \E m \in S : \A k \in S : k <= m
    <3> HIDE DEF S
    <3>1. QED
      BY <1>1, <2>1, <2>2, GreatestNumber
  <2>4. QED
    BY <2>3
<1>3. n + 1 \in 1..Len(lines) /\ Offset!EndOf((n + 1) - 1) <= b /\ b < Offset!EndOf(n + 1)
  <2>1. n # Len(lines)
    <3>1. b \in Nat /\ b < written /\ Offset!EndOf(n) \in Nat
      BY <1>1
    <3> SUFFICES ASSUME n = Len(lines) PROVE FALSE
      OBVIOUS
    <3>2. written <= Offset!EndOf(n)
      BY <1>1
    <3>3. QED
      BY <1>1, <1>2, <3>1, <3>2
  <2>2. n + 1 \in 0..Len(lines) /\ ~(n + 1 <= n) /\ (n + 1) - 1 = n
    <3>1. n \in Nat /\ n <= Len(lines) /\ Len(lines) \in Nat
      BY <1>1
    <3>2. n < Len(lines)
      BY <2>1, <3>1
    <3>3. QED
      BY <3>1, <3>2
  <2>3. ~(Offset!EndOf(n + 1) <= b)
    BY <1>2, <2>2
  <2>4. QED
    BY <1>1, <1>2, <2>2, <2>3
<1> DEFINE line == Offset!LineAt(b)
<1>4. line \in 1..Len(lines) /\ Offset!EndOf(line - 1) <= b /\ b < Offset!EndOf(line)
  BY <1>1, <1>3 DEF Offset!LineAt
<1> HIDE DEF line
<1>5. lines[line].width = 1 /\ Offset!EndOf(line - 1) \in Nat
  <2>1. line - 1 \in 0..Len(lines)
    BY <1>1, <1>4
  <2>2. QED
    BY <1>1, <1>4, <2>1, LinesAreTogether
<1> DEFINE within == b - Offset!EndOf(line - 1)
<1>6. within \in Nat /\ (within - 1) % 1 = 0
  BY <1>4, <1>5
<1>7. Offset!Byte(b) = CASE within = 0 -> "open"
                         [] b = Offset!EndOf(line) - 1 -> "end"
                         [] OTHER -> IF (within - 1) % 1 = 0 THEN "first" ELSE "more"
  BY <1>5 DEF Offset!Byte, line
<1> HIDE DEF within
<1>8. Offset!Byte(b) \in {"open", "end", "first"}
      /\ (Offset!Byte(b) = "end" => b = Offset!EndOf(line) - 1)
  BY <1>6, <1>7
<1>9. QED
  BY <1>4, <1>8

\* Characters are bytes, and are counted as such.
LEMMA CharactersAreBytes ==
  ASSUME Offset!IInv, Widths = {1}, NEW from \in Nat
  PROVE  /\ Offset!Characters(from) = from..(written - 1)
         /\ \A b \in from..(written - 1) :
              Offset!Position(from, b) = b - from + 1 /\ Offset!Advanced(from, b) = b + 1
<1>1. written \in Nat
  BY LinesAreTogether
<1>2. Offset!Characters(from) = from..(written - 1)
  <2>1. \A b \in from..(written - 1) : b \in 0..(written - 1)
    BY <1>1
  <2>2. QED
    BY <2>1, ByteOfLine DEF Offset!Characters
<1>3. ASSUME NEW b \in from..(written - 1)
      PROVE  Offset!Position(from, b) = b - from + 1 /\ Offset!Advanced(from, b) = b + 1
  <2>1. {c \in from..(written - 1) : c <= b} = from..b
    BY <1>1
  <2>2. Cardinality(from..b) = b - from + 1
    BY <1>1, FS_Interval
  <2>3. Offset!Position(from, b) = b - from + 1
    BY <1>2, <2>1, <2>2, SameCount DEF Offset!Position
  <2>4. QED
    BY <1>1, <2>3 DEF Offset!Advanced
<1>4. QED
  BY <1>2, <1>3

\* The records between the end of one line and the end of a later one.
LEMMA RecordsBetween ==
  ASSUME Offset!IInv, Widths = {1}, NEW k \in 0..Len(lines), NEW m \in 0..Len(lines), k < m
  PROVE  Offset!WholeRecords(Offset!EndOf(k), Offset!EndOf(m) - 1) = [i \in 1..(m - k) |-> k + i]
<1>1. /\ Len(lines) \in Nat /\ DOMAIN lines = 1..Len(lines)
      /\ \A n \in 0..Len(lines) : Offset!EndOf(n) \in Nat
      /\ \A i, j \in 0..Len(lines) : i <= j => Offset!EndOf(i) <= Offset!EndOf(j)
      /\ \A i, j \in 0..Len(lines) : Offset!EndOf(i) <= Offset!EndOf(j) => i <= j
  BY LinesAreTogether
<1> DEFINE whole == {n \in DOMAIN lines :
                       /\ Offset!EndOf(k) <= Offset!EndOf(n - 1)
                       /\ Offset!EndOf(n) <= (Offset!EndOf(m) - 1) + 1}
<1>2. whole = (k + 1)..m
  <2>1. ASSUME NEW n \in 1..Len(lines)
        PROVE  n \in whole <=> n \in (k + 1)..m
    <3>1. n \in 0..Len(lines) /\ n - 1 \in 0..Len(lines)
      BY <1>1
    <3>2. Offset!EndOf(k) <= Offset!EndOf(n - 1) <=> k <= n - 1
      BY <1>1, <3>1
    <3>3. Offset!EndOf(n) <= (Offset!EndOf(m) - 1) + 1 <=> n <= m
      <4>1. (Offset!EndOf(m) - 1) + 1 = Offset!EndOf(m)
        BY <1>1
      <4>2. QED
        BY <1>1, <3>1, <4>1
    <3>4. QED
      BY <1>1, <3>1, <3>2, <3>3
  <2>2. whole \subseteq 1..Len(lines) /\ (k + 1)..m \subseteq 1..Len(lines)
    BY <1>1
  <2> HIDE DEF whole
  <2>3. QED
    BY <2>1, <2>2
<1>3. Cardinality((k + 1)..m) = m - k
  BY FS_Interval
<1>4. Offset!Min((k + 1)..m) = k + 1
  <2>1. k + 1 \in (k + 1)..m /\ \A n \in (k + 1)..m : k + 1 <= n
    OBVIOUS
  <2>2. \A x \in (k + 1)..m : (\A n \in (k + 1)..m : x <= n) => x = k + 1
    BY <2>1
  <2>3. QED
    BY <2>1, <2>2 DEF Offset!Min
<1>5. Offset!WholeRecords(Offset!EndOf(k), Offset!EndOf(m) - 1) =
        [i \in 1..Offset!Cardinality(whole) |-> Offset!Min(whole) + i - 1]
  BY DEF Offset!WholeRecords
<1> HIDE DEF whole
<1>6. Offset!Cardinality(whole) = m - k /\ Offset!Min(whole) = k + 1
  BY <1>2, <1>3, <1>4, SameCount
<1>7. \A i \in 1..(m - k) : (k + 1) + i - 1 = k + i
  BY <1>1
<1>8. QED
  BY <1>5, <1>6, <1>7

\* A read returns the records up to a newline, and leaves the offset behind them.
LEMMA ReadKeeps ==
  ASSUME Offset!IInv, Widths = {1}, Offset!ReadDiagnostics
  PROVE  Offset!IInv'
<1>1. PICK k \in 0..Len(lines) :
        diagnostics.offset = Offset!EndOf(k) /\ diagnostics.records = [i \in 1..k |-> i]
  BY DEF Offset!IInv
<1> DEFINE from == diagnostics.offset
           boundary == Offset!Max(Offset!Newlines(from))
<1>2. from \in Nat /\ written \in Nat /\ Len(lines) \in Nat
      /\ \A n \in 0..Len(lines) : Offset!EndOf(n) \in Nat
  BY <1>1, LinesAreTogether
<1>3. boundary \in from..(written - 1) /\ Offset!Byte(boundary) = "end"
  <2> DEFINE S == Offset!Newlines(from)
  <2>1. S \subseteq from..(written - 1) /\ \A b \in S : Offset!Byte(b) = "end"
    BY <1>2, CharactersAreBytes DEF Offset!Newlines
  <2>2. S # {}
    BY DEF Offset!ReadDiagnostics
  <2>3. S \subseteq Nat /\ \A b \in S : b <= written
    BY <1>2, <2>1
  <2> HIDE DEF S
  <2>4. \E m \in S : \A n \in S : m >= n
    <3>1. PICK m \in S : \A n \in S : n <= m
      BY <1>2, <2>2, <2>3, GreatestNumber
    <3>2. QED
      BY <2>3, <3>1
  <2>5. Offset!Max(S) \in S
    BY <2>4 DEF Offset!Max
  <2>6. QED
    BY <2>1, <2>5 DEF S
<1>4. PICK m \in 1..Len(lines) : boundary = Offset!EndOf(m) - 1
  <2>1. boundary \in 0..(written - 1)
    BY <1>2, <1>3
  <2>2. QED
    BY <1>3, <2>1, ByteOfLine
<1>5. k < m /\ boundary + 1 = Offset!EndOf(m) /\ Offset!EndOf(m) <= written
  <2>1. m \in 0..Len(lines)
    BY <1>2
  <2>2. Offset!EndOf(k) < Offset!EndOf(m)
    BY <1>1, <1>2, <1>3, <1>4, <2>1
  <2>3. ~(m <= k)
    BY <1>1, <1>2, <2>1, <2>2, LinesAreTogether
  <2>4. k < m
    BY <1>2, <2>1, <2>3
  <2> HIDE DEF from, boundary
  <2>5. boundary \in Int /\ boundary + 1 <= written
    BY <1>2, <1>3
  <2>6. Offset!EndOf(m) \in Nat
    BY <1>2, <2>1
  <2>7. QED
    BY <1>4, <2>4, <2>5, <2>6
<1>6. /\ diagnostics' = [offset |-> Offset!Advanced(from, boundary),
                         records |-> diagnostics.records \o Offset!WholeRecords(from, boundary)]
      /\ UNCHANGED <<lines, written, logs>>
  BY DEF Offset!ReadDiagnostics
<1>7. diagnostics'.offset = Offset!EndOf(m)
  <2>1. Offset!Advanced(from, boundary) = boundary + 1
    BY <1>2, <1>3, CharactersAreBytes
  <2>2. QED
    BY <1>5, <1>6, <2>1
<1>8. diagnostics'.records = [i \in 1..m |-> i]
  <2>1. Offset!WholeRecords(from, boundary) = [i \in 1..(m - k) |-> k + i]
    <3>1. m \in 0..Len(lines)
      BY <1>2
    <3>2. from = Offset!EndOf(k) /\ boundary = Offset!EndOf(m) - 1
      BY <1>1, <1>4
    <3> HIDE DEF from, boundary
    <3>3. QED
      BY <1>5, <3>1, <3>2, RecordsBetween
  <2>2. diagnostics'.records = [i \in 1..k |-> i] \o [i \in 1..(m - k) |-> k + i]
    BY <1>1, <1>6, <2>1
  <2> DEFINE before == [i \in 1..k |-> i]
             after == [i \in 1..(m - k) |-> k + i]
  <2>3. k \in Nat /\ m \in Nat /\ m - k \in Nat
    BY <1>2, <1>5
  <2>4. before \in Seq(Nat) /\ after \in Seq(Nat) /\ Len(before) = k /\ Len(after) = m - k
    BY <2>3
  <2>5. \A i \in 1..k : before[i] = i
    OBVIOUS
  <2>6. \A i \in (k + 1)..m : after[i - k] = i
    BY <2>3
  <2> HIDE DEF before, after
  <2>7. before \o after \in Seq(Nat) /\ Len(before \o after) = m
    BY <2>3, <2>4, ConcatProperties
  <2>8. \A i \in 1..m : (before \o after)[i] = i
    <3> SUFFICES ASSUME NEW i \in 1..m PROVE (before \o after)[i] = i
      OBVIOUS
    <3>1. (before \o after)[i] = IF i <= k THEN before[i] ELSE after[i - k]
      BY <2>3, <2>4, ConcatProperties
    <3>2. QED
      BY <2>3, <2>5, <2>6, <3>1
  <2>9. before \o after = [i \in 1..m |-> (before \o after)[i]]
    BY <2>3, <2>7, LenProperties
  <2>10. [i \in 1..m |-> (before \o after)[i]] = [i \in 1..m |-> i]
    BY <2>8
  <2>11. QED
    BY <2>2, <2>9, <2>10 DEF before, after
<1> HIDE DEF from, boundary
<1>9. \A n : Offset!EndOf(n)' = Offset!EndOf(n)
  BY <1>6 DEF Offset!EndOf
<1>10. m \in 0..Len(lines)
  BY <1>2
<1>11. \E j \in 0..Len(lines') :
         diagnostics'.offset = Offset!EndOf(j)' /\ diagnostics'.records = [i \in 1..j |-> i]
  BY <1>6, <1>7, <1>8, <1>9, <1>10
<1>12. diagnostics'.offset <= written'
  BY <1>5, <1>6, <1>7
<1>13. /\ lines' \in Seq([width : Widths, length : Lengths, from : Nat])
       /\ \A n \in 1..Len(lines') : lines'[n].from = Offset!EndOf(n - 1)'
       /\ \A i, j \in 0..Len(lines') : i < j => Offset!EndOf(i)' < Offset!EndOf(j)'
       /\ written' \in 0..Offset!EndOf(Len(lines))' /\ logs'.offset \in 0..written'
  BY <1>6, <1>9 DEF Offset!IInv
<1>14. QED
  BY <1>11, <1>12, <1>13 DEF Offset!IInv

\* A line is begun behind the others.
LEMMA BeginKeeps ==
  ASSUME Offset!IInv, Widths = {1}, Offset!Begin
  PROVE  Offset!IInv'
<1>1. PICK w \in Widths, length \in Lengths :
        lines' = Append(lines, [width |-> w, length |-> length, from |-> written])
  BY DEF Offset!Begin
<1> DEFINE line == [width |-> w, length |-> length, from |-> written]
<1>2. written = Offset!EndOf(Len(lines)) /\ UNCHANGED <<written, diagnostics, logs>>
  BY DEF Offset!Begin
<1>3. /\ Len(lines) \in Nat /\ written \in Nat
      /\ \A n \in 0..Len(lines) : Offset!EndOf(n) \in Nat
      /\ \A i, j \in 0..Len(lines) : i <= j => Offset!EndOf(i) <= Offset!EndOf(j)
  BY LinesAreTogether
<1>4. length \in Nat /\ w = 1
  BY ExecutionAssumption DEF Offset!OffsetAssumption
<1>5. line \in [width : Widths, length : Lengths, from : Nat]
  BY <1>3
<1>6. PICK top \in Nat : top = Len(lines) + 1
  BY <1>3
<1>7. /\ lines' \in Seq([width : Widths, length : Lengths, from : Nat])
      /\ Len(lines') = top /\ top - 1 = Len(lines) /\ top > 0
      /\ \A n \in 1..(top - 1) : lines'[n] = lines[n]
      /\ lines'[top] = line
  <2>1. lines \in Seq([width : Widths, length : Lengths, from : Nat])
    BY DEF Offset!IInv
  <2>2. /\ lines' \in Seq([width : Widths, length : Lengths, from : Nat])
        /\ Len(lines') = Len(lines) + 1
        /\ \A n \in 1..Len(lines) : lines'[n] = lines[n]
        /\ lines'[Len(lines) + 1] = line
    BY <1>1, <1>5, <2>1, AppendProperties
  <2> HIDE DEF line
  <2>3. QED
    BY <1>3, <1>6, <2>2
<1>8. \A n \in 0..(top - 1) : Offset!EndOf(n)' = Offset!EndOf(n)
  <2>1. ASSUME NEW n \in 1..(top - 1) PROVE Offset!EndOf(n)' = Offset!EndOf(n)
    <3>1. lines'[n] = lines[n]
      BY <1>7
    <3>2. QED
      BY <3>1 DEF Offset!EndOf, Offset!Bytes
  <2>2. ASSUME NEW n \in 0..(top - 1), n = 0 PROVE Offset!EndOf(n)' = Offset!EndOf(n)
    BY <2>2 DEF Offset!EndOf
  <2>3. QED
    BY <2>1, <2>2
<1>9. Offset!EndOf(top)' = written + length + 2
  <2>1. Offset!EndOf(top)' =
          lines'[top].from + (lines'[top].width * lines'[top].length + 2)
    BY <1>7 DEF Offset!EndOf, Offset!Bytes
  <2>2. lines'[top].from = written /\ lines'[top].width = 1 /\ lines'[top].length = length
    BY <1>4, <1>7
  <2>3. QED
    BY <1>3, <1>4, <2>1, <2>2
<1>10. lines'[top].from = written
  BY <1>7
<1> HIDE DEF line
<1>11. \A n \in 1..top : lines'[n].from = Offset!EndOf(n - 1)'
  <2> SUFFICES ASSUME NEW n \in 1..top PROVE lines'[n].from = Offset!EndOf(n - 1)'
    OBVIOUS
  <2>1. Offset!EndOf(n - 1)' = Offset!EndOf(n - 1)
    <3>1. n - 1 \in 0..(top - 1)
      OBVIOUS
    <3>2. QED
      BY <1>8, <3>1
  <2>2. CASE n = top
    BY <1>2, <1>7, <1>10, <2>1, <2>2
  <2>3. CASE n # top
    <3>1. n \in 1..(top - 1)
      BY <2>3
    <3>2. lines[n].from = Offset!EndOf(n - 1)
      BY <1>7, <3>1 DEF Offset!IInv
    <3>3. QED
      BY <1>7, <2>1, <3>1, <3>2
  <2>4. QED
    BY <2>2, <2>3
<1>12. \A i, j \in 0..top : i < j => Offset!EndOf(i)' < Offset!EndOf(j)'
  <2> SUFFICES ASSUME NEW i \in 0..top, NEW j \in 0..top, i < j
               PROVE  Offset!EndOf(i)' < Offset!EndOf(j)'
    OBVIOUS
  <2>1. i \in 0..(top - 1) /\ i \in 0..Len(lines)
    BY <1>7
  <2>2. CASE j # top
    <3>1. j \in 0..(top - 1) /\ j \in 0..Len(lines)
      BY <1>7, <2>2
    <3>2. Offset!EndOf(i) < Offset!EndOf(j)
      BY <2>1, <3>1 DEF Offset!IInv
    <3>3. QED
      BY <1>8, <2>1, <3>1, <3>2
  <2>3. CASE j = top
    <3>1. Len(lines) \in 0..Len(lines) /\ i <= Len(lines)
      BY <1>3, <2>1
    <3>2. Offset!EndOf(i) \in Nat /\ Offset!EndOf(i) <= written
      BY <1>2, <1>3, <2>1, <3>1
    <3>3. Offset!EndOf(i)' = Offset!EndOf(i)
      BY <1>8, <2>1
    <3>4. QED
      BY <1>3, <1>4, <1>9, <2>3, <3>2, <3>3
  <2>4. QED
    BY <2>2, <2>3
<1>13. written' \in 0..Offset!EndOf(top)' /\ logs'.offset \in 0..written'
  <2>1. written' \in 0..Offset!EndOf(top)'
    BY <1>2, <1>3, <1>4, <1>9
  <2>2. logs'.offset \in 0..written'
    BY <1>2 DEF Offset!IInv
  <2>3. QED
    BY <2>1, <2>2
<1>14. \E k \in 0..top :
         diagnostics'.offset = Offset!EndOf(k)' /\ diagnostics'.records = [i \in 1..k |-> i]
  <2>1. PICK k \in 0..Len(lines) :
          diagnostics.offset = Offset!EndOf(k) /\ diagnostics.records = [i \in 1..k |-> i]
    BY DEF Offset!IInv
  <2>2. k \in 0..(top - 1) /\ k \in 0..top
    BY <1>7
  <2>3. QED
    BY <1>2, <1>8, <2>1, <2>2
<1>15. diagnostics'.offset <= written'
  BY <1>2 DEF Offset!IInv
<1>16. Offset!EndOf(Len(lines))' = Offset!EndOf(top)'
  BY <1>7 DEF Offset!EndOf
<1>17. QED
  BY <1>7, <1>11, <1>12, <1>13, <1>14, <1>15, <1>16 DEF Offset!IInv

\* Bytes that reach the disk, and what is read of them as output, leave the lines.
LEMMA LinesStay ==
  ASSUME Offset!IInv, Widths = {1}, UNCHANGED <<lines, diagnostics>>,
         written' \in written..Offset!EndOf(Len(lines)), logs'.offset \in 0..written'
  PROVE  Offset!IInv'
<1>1. \A n : Offset!EndOf(n)' = Offset!EndOf(n)
  BY DEF Offset!EndOf
<1>2. written \in Nat /\ Offset!EndOf(Len(lines)) \in Nat
  BY LinesAreTogether
<1>3. written' \in 0..Offset!EndOf(Len(lines))'
  BY <1>1, <1>2
<1>4. diagnostics'.offset <= written'
  <2>1. diagnostics.offset \in Nat /\ diagnostics.offset <= written
    BY LinesAreTogether DEF Offset!IInv
  <2>2. QED
    BY <1>2, <2>1
<1>5. /\ lines' \in Seq([width : Widths, length : Lengths, from : Nat])
      /\ \A n \in 1..Len(lines') : lines'[n].from = Offset!EndOf(n - 1)'
      /\ \A i, j \in 0..Len(lines') : i < j => Offset!EndOf(i)' < Offset!EndOf(j)'
      /\ \E k \in 0..Len(lines') :
           diagnostics'.offset = Offset!EndOf(k)' /\ diagnostics'.records = [i \in 1..k |-> i]
  BY <1>1 DEF Offset!IInv
<1>6. QED
  BY <1>3, <1>4, <1>5 DEF Offset!IInv

LEMMA OffsetBegins == Offset!Init => Offset!IInv
<1> SUFFICES ASSUME Offset!Init PROVE Offset!IInv
  OBVIOUS
<1>1. /\ lines = <<>> /\ written = 0 /\ logs.offset = 0
      /\ diagnostics.offset = 0 /\ diagnostics.records = <<>>
  BY DEF Offset!Init
<1>2. lines \in Seq([width : Widths, length : Lengths, from : Nat]) /\ Len(lines) = 0
  BY <1>1, EmptySeq
<1>3. Offset!EndOf(0) = 0
  BY DEF Offset!EndOf
<1>4. [i \in 1..0 |-> i] = <<>>
  OBVIOUS
<1>5. \E k \in 0..0 : diagnostics.offset = Offset!EndOf(k) /\ diagnostics.records = [i \in 1..k |-> i]
  BY <1>1, <1>3, <1>4
<1>6. QED
  BY <1>1, <1>2, <1>3, <1>5 DEF Offset!IInv

LEMMA OffsetGoesOn ==
  ASSUME Offset!IInv, Widths = {1}, [Offset!Next]_Offset!vars
  PROVE  Offset!IInv'
<1>1. CASE Offset!Begin
  BY <1>1, BeginKeeps
<1>2. CASE Offset!Flush
  <2>1. /\ written' \in (written + 1)..Offset!EndOf(Len(lines))
        /\ UNCHANGED <<lines, diagnostics, logs>>
    BY <1>2 DEF Offset!Flush
  <2>2. written \in Nat /\ Offset!EndOf(Len(lines)) \in Nat /\ logs.offset \in 0..written
    BY LinesAreTogether DEF Offset!IInv
  <2>3. written' \in written..Offset!EndOf(Len(lines)) /\ logs'.offset \in 0..written'
    BY <2>1, <2>2
  <2>4. QED
    BY <2>1, <2>3, LinesStay
<1>3. CASE Offset!ReadDiagnostics
  BY <1>3, ReadKeeps
<1>4. CASE Offset!ReadOutput
  <2>1. logs'.offset = written /\ UNCHANGED <<lines, written, diagnostics>>
    BY <1>4, Zenon DEF Offset!ReadOutput
  <2>2. written' \in written..Offset!EndOf(Len(lines)) /\ logs'.offset \in 0..written'
    BY <2>1, LinesAreTogether
  <2>3. QED
    BY <2>1, <2>2, LinesStay
<1>5. CASE UNCHANGED Offset!vars
  <2>1. UNCHANGED <<lines, written, diagnostics, logs>>
    BY <1>5 DEF Offset!vars
  <2>2. written' \in written..Offset!EndOf(Len(lines)) /\ logs'.offset \in 0..written'
    BY <2>1, LinesAreTogether DEF Offset!IInv
  <2>3. QED
    BY <2>1, <2>2, LinesStay
<1>6. QED
  BY <1>1, <1>2, <1>3, <1>4, <1>5 DEF Offset!Next

\* What the invariant says of the records that were returned.
LEMMA OffsetHolds ==
  ASSUME Offset!IInv, Widths = {1}
  PROVE  Offset!TypeOK /\ Offset!RecordsAreNew
<1>1. PICK k \in 0..Len(lines) :
        diagnostics.offset = Offset!EndOf(k) /\ diagnostics.records = [i \in 1..k |-> i]
  BY DEF Offset!IInv
<1>2. /\ Len(lines) \in Nat /\ DOMAIN lines = 1..Len(lines) /\ Offset!EndOf(k) \in Nat
      /\ written \in Nat
  BY LinesAreTogether
<1>3. DOMAIN diagnostics.records = 1..k
  BY <1>1
<1>4. \A i \in 1..k : diagnostics.records[i] = i /\ i \in DOMAIN lines
  BY <1>1, <1>2
<1>5. diagnostics.offset \in 0..written
  BY <1>1, <1>2 DEF Offset!IInv
<1>6. Offset!TypeOK
  BY <1>3, <1>4, <1>5 DEF Offset!IInv, Offset!TypeOK
<1>7. Offset!RecordsAreNew
  BY <1>1, <1>3 DEF Offset!RecordsAreNew
<1>8. QED
  BY <1>6, <1>7

(* Side by side with the others, where a character is one byte and neither *)
(* the disk is slow or full nor a trainer leaves children behind, but for  *)
(* any file that cannot be opened or written and any kill: a line that a   *)
(* worker printed is kept in order or its loss is marked, and the executor *)
(* reads each record once and in order (DiagnosticsSink,                   *)
(* read_new_diagnostics).                                                  *)
THEOREM OutputIsKept ==
  ASSUME Rare \subseteq {"kill"}, Widths = {1}
  PROVE  AllSpec => []DiagnosticsAreKept
<1> DEFINE Sound == /\ Is("worker") => Worker!OrderInv /\ Worker!LossInv
                    /\ Is("offset") => Offset!IInv
<1>1. AllInit => Sound
  BY OutputBegins, OffsetBegins DEF AllInit, Is
<1>2. Sound /\ [AllNext]_allvars => Sound'
  <2> SUFFICES ASSUME Sound, [AllNext]_allvars PROVE Sound'
    OBVIOUS
  <2>1. UNCHANGED component
    BY DEF AllNext, allvars
  <2>2. ASSUME Is("worker") PROVE Worker!OrderInv' /\ Worker!LossInv'
    <3>1. [Worker!Next]_Worker!vars
      BY <2>2 DEF AllNext, allvars, Is, OfWorker, Worker!vars
    <3>2. Worker!OrderInv /\ Worker!LossInv
      BY <2>2
    <3>3. QED
      BY <3>1, <3>2, OrderGoesOn, LossGoesOn
  <2>3. ASSUME Is("offset") PROVE Offset!IInv'
    <3>1. [Offset!Next]_Offset!vars
      BY <2>3 DEF AllNext, allvars, Is, OfOffset, Offset!vars
    <3>2. Offset!IInv
      BY <2>3
    <3>3. QED
      BY <3>1, <3>2, OffsetGoesOn
  <2>4. QED
    BY <2>1, <2>2, <2>3 DEF Is
<1>3. Sound => DiagnosticsAreKept
  BY OutputHolds, OffsetHolds DEF DiagnosticsAreKept
<1>4. QED
  BY <1>1, <1>2, <1>3, PTL DEF AllSpec

-----------------------------------------------------------------------------
(* The result of an execution.                                             *)

\* The cardinality of the instance is that of the theorems.
LEMMA SameSize ==
  ASSUME NEW S
  PROVE  Result!Cardinality(S) = Cardinality(S)
  BY DEF Result!Cardinality, Cardinality

\* What the header of a file of weights has.
LEMMA WeightsAreTyped ==
  ASSUME NEW found \in Result!Weights
  PROVE  /\ IsFiniteSet(DOMAIN found.ranges) /\ Cardinality(DOMAIN found.ranges) \in Nat
         /\ Result!Cardinality(DOMAIN found.ranges) = Cardinality(DOMAIN found.ranges)
         /\ \A n \in DOMAIN found.ranges :
              found.ranges[n].from \in Int /\ found.ranges[n].to \in Int
         /\ found.payload \in Nat
<1>1. MaxPayload \in Nat /\ IsFiniteSet(Tensors)
  BY ExecutionAssumption DEF Result!ResultAssumption, Result!IsFiniteSet, IsFiniteSet
<1>2. PICK names \in SUBSET Tensors :
        found.ranges \in [names -> [from : Result!Offsets, to : Result!Offsets]]
  BY DEF Result!Weights
<1>3. DOMAIN found.ranges = names
  BY <1>2
<1>4. \A n \in names : found.ranges[n].from \in Int /\ found.ranges[n].to \in Int
  BY <1>1, <1>2 DEF Result!Offsets
<1>5. IsFiniteSet(names) /\ Cardinality(names) \in Nat
  BY <1>1, FS_Subset, FS_CardinalityType
<1>6. found.payload \in Nat
  BY <1>1 DEF Result!Weights
<1>7. QED
  BY <1>3, <1>4, <1>5, <1>6, SameSize

\* Ranges that are sorted and adjacent from the first byte to the last one hold
\* each byte once.
LEMMA VerifiedIsTiled ==
  ASSUME NEW found \in Result!Weights, Result!Verified(found)
  PROVE  Result!Tiled(found)
<1> DEFINE ranges == found.ranges
           names == DOMAIN ranges
           last == Cardinality(names)
<1>1. /\ last \in Nat /\ Result!Cardinality(names) = last /\ found.payload \in Nat
      /\ \A n \in names : ranges[n].from \in Int /\ ranges[n].to \in Int
  BY WeightsAreTyped
<1>2. /\ \A n \in names : Result!Inside(ranges[n], found.payload)
      /\ last > 0
  BY <1>1 DEF Result!Verified
<1>3. PICK order \in Result!Sorted(ranges) :
        /\ ranges[order[1]].from = 0 /\ ranges[order[last]].to = found.payload
        /\ \A i \in 1..(last - 1) : Result!Adjacent(ranges[order[i]], ranges[order[i + 1]])
  BY <1>1 DEF Result!Verified
<1>4. /\ order \in [1..last -> names]
      /\ \A n \in names : \E i \in 1..last : order[i] = n
      /\ \A i, j \in 1..last : i < j => ~Result!Before(ranges[order[j]], ranges[order[i]])
  BY <1>1, <1>3 DEF Result!Sorted
<1> DEFINE from(i) == ranges[order[i]].from
           to(i) == ranges[order[i]].to
<1>5. \A i \in 1..last : /\ order[i] \in names /\ from(i) \in Int /\ to(i) \in Int
                         /\ 0 <= from(i) /\ from(i) < to(i) /\ to(i) <= found.payload
  BY <1>1, <1>2, <1>4 DEF Result!Inside
<1>6. \A i, j \in 1..last : i < j => from(i) <= from(j)
  BY <1>4, <1>5 DEF Result!Before
<1>7. \A i \in 1..(last - 1) : to(i) = from(i + 1)
  BY <1>3 DEF Result!Adjacent
<1>8. from(1) = 0 /\ to(last) = found.payload
  BY <1>3
<1> HIDE DEF from, to
<1>9. \A i, j \in 1..last : i < j => to(i) <= from(j)
  <2> SUFFICES ASSUME NEW i \in 1..last, NEW j \in 1..last, i < j
               PROVE  to(i) <= from(j)
    OBVIOUS
  <2>1. i \in 1..(last - 1) /\ i + 1 \in 1..last /\ (i + 1 = j \/ i + 1 < j)
    BY <1>1
  <2>2. to(i) = from(i + 1)
    BY <1>7, <2>1
  <2>3. CASE i + 1 = j
    BY <1>5, <2>2, <2>3
  <2>4. CASE i + 1 < j
    BY <1>6, <2>1, <2>2, <2>4
  <2>5. QED
    BY <2>1, <2>3, <2>4
<1>10. found.payload > 0
  BY <1>1, <1>2, <1>5, <1>8
<1>11. ASSUME NEW byte \in 0..(found.payload - 1)
       PROVE  Result!Cardinality({n \in names : ranges[n].from <= byte /\ byte < ranges[n].to}) = 1
  <2> DEFINE S == {i \in 1..last : from(i) <= byte}
  <2>1. S \subseteq Nat /\ 1 \in S /\ \A i \in S : i <= last
    BY <1>1, <1>2, <1>8
  <2>2. PICK k \in S : \A i \in S : i <= k
    <3> HIDE DEF S
    <3>1. QED
      BY <1>1, <2>1, GreatestNumber
  <2>3. k \in 1..last /\ from(k) <= byte /\ byte < to(k)
    <3>1. CASE k = last
      BY <1>1, <1>8, <2>2, <3>1
    <3>2. CASE k # last
      <4>1. k \in 1..(last - 1) /\ k + 1 \in 1..last /\ ~(k + 1 <= k)
        BY <1>1, <2>2, <3>2
      <4>2. k + 1 \notin S
        BY <2>2, <4>1
      <4>3. ~(from(k + 1) <= byte)
        BY <4>1, <4>2
      <4>4. QED
        BY <1>5, <1>7, <2>2, <4>1, <4>3
    <3>3. QED
      BY <3>1, <3>2
  <2>4. \A i \in 1..last : from(i) <= byte /\ byte < to(i) => i = k
    <3> SUFFICES ASSUME NEW i \in 1..last, from(i) <= byte, byte < to(i), i # k
                 PROVE  FALSE
      OBVIOUS
    <3>1. i <= k
      BY <2>2
    <3>2. i < k
      BY <2>3, <3>1
    <3>3. to(i) <= from(k)
      BY <1>9, <2>3, <3>2
    <3>4. QED
      BY <1>5, <2>3, <3>3
  <2>5. {n \in names : ranges[n].from <= byte /\ byte < ranges[n].to} = {order[k]}
    <3>1. order[k] \in names /\ ranges[order[k]].from <= byte /\ byte < ranges[order[k]].to
      BY <1>5, <2>3 DEF from, to
    <3>2. ASSUME NEW n \in names, ranges[n].from <= byte, byte < ranges[n].to
          PROVE  n = order[k]
      <4>1. PICK i \in 1..last : order[i] = n
        BY <1>4
      <4>2. from(i) <= byte /\ byte < to(i)
        BY <3>2, <4>1 DEF from, to
      <4>3. QED
        BY <2>4, <4>1, <4>2
    <3>3. QED
      BY <3>1, <3>2
  <2>6. QED
    BY <2>5, SameSize, FS_Singleton
<1>12. QED
  BY <1>2, <1>10, <1>11 DEF Result!Tiled

\* In a file whose bytes are in one tensor each, two tensors share no byte, and
\* each byte has a tensor.
LEMMA TilesAreApart ==
  ASSUME NEW found \in Result!Weights, Result!Tiled(found)
  PROVE  /\ \A byte \in 0..(found.payload - 1) :
              \E n \in DOMAIN found.ranges :
                found.ranges[n].from <= byte /\ byte < found.ranges[n].to
         /\ \A byte \in 0..(found.payload - 1) :
              \A m, n \in DOMAIN found.ranges :
                /\ found.ranges[m].from <= byte /\ byte < found.ranges[m].to
                /\ found.ranges[n].from <= byte /\ byte < found.ranges[n].to
                => m = n
<1> SUFFICES ASSUME NEW byte \in 0..(found.payload - 1)
             PROVE  /\ \E n \in DOMAIN found.ranges :
                         found.ranges[n].from <= byte /\ byte < found.ranges[n].to
                    /\ \A m, n \in DOMAIN found.ranges :
                         /\ found.ranges[m].from <= byte /\ byte < found.ranges[m].to
                         /\ found.ranges[n].from <= byte /\ byte < found.ranges[n].to
                         => m = n
  OBVIOUS
<1> DEFINE T == {n \in DOMAIN found.ranges :
                   found.ranges[n].from <= byte /\ byte < found.ranges[n].to}
<1>1. Cardinality(T) = 1
  BY SameSize DEF Result!Tiled
<1>2. IsFiniteSet(T)
  BY WeightsAreTyped, FS_Subset
<1>3. \E x : T = {x}
  <2> HIDE DEF T
  <2>1. QED
    BY <1>1, <1>2, FS_Singleton
<1>4. QED
  BY <1>3

\* The order of the tensors of such a file: each after those that begin before it.
LEMMA TiledIsVerified ==
  ASSUME NEW found \in Result!Weights, Result!Tiled(found)
  PROVE  Result!Verified(found)
<1> DEFINE ranges == found.ranges
           names == DOMAIN ranges
           last == Cardinality(names)
           from(n) == ranges[n].from
           to(n) == ranges[n].to
           payload == found.payload
           upto(n) == {m \in names : from(m) <= from(n)}
           rank == [n \in names |-> Cardinality(upto(n))]
<1>1. /\ IsFiniteSet(names) /\ last \in Nat /\ Result!Cardinality(names) = last
      /\ payload \in Nat /\ \A n \in names : from(n) \in Int /\ to(n) \in Int
  BY WeightsAreTyped
<1>2. /\ payload > 0
      /\ \A n \in names : 0 <= from(n) /\ from(n) < to(n) /\ to(n) <= payload
      /\ \A n \in names : Result!Inside(ranges[n], payload)
  BY DEF Result!Tiled, Result!Inside
<1>3. /\ \A byte \in 0..(payload - 1) : \E n \in names : from(n) <= byte /\ byte < to(n)
      /\ \A byte \in 0..(payload - 1) : \A m, n \in names :
           from(m) <= byte /\ byte < to(m) /\ from(n) <= byte /\ byte < to(n) => m = n
  BY TilesAreApart
<1> HIDE DEF ranges, names, last, payload, from, to
<1>4. \A m, n \in names : from(m) = from(n) => m = n
  <2> SUFFICES ASSUME NEW m \in names, NEW n \in names, from(m) = from(n) PROVE m = n
    OBVIOUS
  <2>1. from(m) \in 0..(payload - 1)
    BY <1>1, <1>2
  <2>2. from(m) <= from(m) /\ from(m) < to(m) /\ from(n) <= from(m) /\ from(m) < to(n)
    BY <1>1, <1>2
  <2>3. QED
    BY <1>3, <2>1, <2>2
<1>5. \A n \in names : /\ upto(n) \subseteq names /\ n \in upto(n) /\ IsFiniteSet(upto(n))
                       /\ rank[n] \in Nat /\ rank[n] <= last
  <2> SUFFICES ASSUME NEW n \in names
               PROVE  /\ upto(n) \subseteq names /\ n \in upto(n) /\ IsFiniteSet(upto(n))
                      /\ rank[n] \in Nat /\ rank[n] <= last
    OBVIOUS
  <2>1. upto(n) \subseteq names /\ n \in upto(n)
    BY <1>1
  <2>2. IsFiniteSet(upto(n)) /\ Cardinality(upto(n)) \in Nat /\ Cardinality(upto(n)) <= last
    <3> HIDE DEF upto
    <3>1. QED
      BY <1>1, <2>1, FS_Subset, FS_CardinalityType DEF last
  <2>3. QED
    BY <2>1, <2>2
<1>6. \A m, n \in names : from(m) <= from(n) => rank[m] <= rank[n]
  <2> SUFFICES ASSUME NEW m \in names, NEW n \in names, from(m) <= from(n)
               PROVE  rank[m] <= rank[n]
    OBVIOUS
  <2>1. upto(m) \subseteq upto(n)
    BY <1>1
  <2>2. Cardinality(upto(m)) <= Cardinality(upto(n))
    <3>1. IsFiniteSet(upto(n))
      BY <1>5
    <3> HIDE DEF upto
    <3>2. QED
      BY <2>1, <3>1, FS_Subset
  <2>3. QED
    BY <2>2
<1>7. \A m, n \in names : from(m) < from(n) => rank[m] < rank[n]
  <2> SUFFICES ASSUME NEW m \in names, NEW n \in names, from(m) < from(n)
               PROVE  rank[m] < rank[n]
    OBVIOUS
  <2>1. upto(m) \subseteq upto(n) /\ n \notin upto(m) /\ n \in upto(n)
    BY <1>1
  <2>2. Cardinality(upto(m)) <= Cardinality(upto(n)) /\ Cardinality(upto(m)) # Cardinality(upto(n))
    <3>1. IsFiniteSet(upto(n))
      BY <1>5
    <3> HIDE DEF upto
    <3>2. QED
      BY <2>1, <3>1, FS_Subset
  <2>3. rank[m] = Cardinality(upto(m)) /\ rank[n] = Cardinality(upto(n))
    OBVIOUS
  <2>4. rank[m] \in Nat /\ rank[n] \in Nat
    BY <1>5
  <2> HIDE DEF rank, upto
  <2>5. QED
    BY <2>2, <2>3, <2>4
<1>8. \A n \in names : rank[n] \in 1..last
  <2> SUFFICES ASSUME NEW n \in names PROVE rank[n] \in 1..last
    OBVIOUS
  <2>1. IsFiniteSet(upto(n)) /\ upto(n) # {} /\ rank[n] = Cardinality(upto(n))
    BY <1>5
  <2>2. Cardinality(upto(n)) # 0
    <3> HIDE DEF upto
    <3>1. QED
      BY <2>1, FS_EmptySet
  <2>3. rank[n] \in Nat /\ rank[n] <= last
    BY <1>5
  <2>4. rank[n] # 0
    BY <2>1, <2>2
  <2> HIDE DEF rank, upto
  <2>5. QED
    BY <1>1, <2>3, <2>4
<1>9. rank \in [names -> 1..last]
  BY <1>8
<1>10. \A m, n \in names : rank[m] = rank[n] => m = n
  <2> SUFFICES ASSUME NEW m \in names, NEW n \in names, m # n PROVE rank[m] # rank[n]
    OBVIOUS
  <2>1. from(m) # from(n)
    BY <1>4
  <2>2. from(m) < from(n) \/ from(n) < from(m)
    BY <1>1, <2>1
  <2>3. rank[m] < rank[n] \/ rank[n] < rank[m]
    BY <1>7, <2>2
  <2>4. rank[m] \in Nat /\ rank[n] \in Nat
    BY <1>5
  <2> HIDE DEF rank, upto
  <2>5. QED
    BY <2>3, <2>4
<1> HIDE DEF rank
<1>11. \A i \in 1..last : \E n \in names : rank[n] = i
  <2> SUFFICES ASSUME NEW i \in 1..last, \A n \in names : rank[n] # i PROVE FALSE
    OBVIOUS
  <2>1. IsFiniteSet(1..last) /\ Cardinality(1..last) = last
    BY <1>1, FS_Interval
  <2>2. IsFiniteSet((1..last) \ {i}) /\ Cardinality((1..last) \ {i}) = last - 1
    BY <2>1, FS_RemoveElement
  <2>3. rank \in [names -> (1..last) \ {i}]
    BY <1>9
  <2>4. \E m, n \in names : m # n /\ rank[m] = rank[n]
    <3>1. Cardinality((1..last) \ {i}) < Cardinality(names)
      BY <1>1, <2>2 DEF last
    <3>2. QED
      BY <1>1, <2>2, <2>3, <3>1, FS_PigeonHole
  <2>5. QED
    BY <1>10, <2>4
<1> DEFINE order == [i \in 1..last |-> CHOOSE n \in names : rank[n] = i]
<1>12. \A i \in 1..last : order[i] \in names /\ rank[order[i]] = i
  BY <1>11
<1>13. order \in [1..last -> names] /\ DOMAIN order = 1..last
  BY <1>11
<1> HIDE DEF order
<1>14. \A n \in names : \E i \in 1..last : order[i] = n
  BY <1>8, <1>10, <1>12
<1>15. \A i, j \in 1..last : i < j => from(order[i]) < from(order[j])
  <2> SUFFICES ASSUME NEW i \in 1..last, NEW j \in 1..last, i < j
               PROVE  from(order[i]) < from(order[j])
    OBVIOUS
  <2>1. order[i] \in names /\ order[j] \in names /\ rank[order[i]] = i /\ rank[order[j]] = j
    BY <1>12
  <2>2. ~(from(order[j]) <= from(order[i]))
    BY <1>6, <2>1
  <2>3. QED
    BY <1>1, <2>1, <2>2
<1>16. order \in Result!Sorted(ranges)
  <2>1. \A i, j \in 1..last : i < j => ~Result!Before(ranges[order[j]], ranges[order[i]])
    <3> SUFFICES ASSUME NEW i \in 1..last, NEW j \in 1..last, i < j
                 PROVE  ~Result!Before(ranges[order[j]], ranges[order[i]])
      OBVIOUS
    <3>1. from(order[i]) < from(order[j]) /\ from(order[i]) \in Int /\ from(order[j]) \in Int
      BY <1>1, <1>12, <1>15
    <3>2. QED
      BY <3>1 DEF Result!Before, from
  <2>2. QED
    BY <1>1, <1>13, <1>14, <2>1 DEF Result!Sorted, names
<1>17. last > 0
  <2>1. \E n \in names : TRUE
    BY <1>1, <1>2, <1>3
  <2>2. QED
    BY <1>1, <1>8, <2>1
<1>18. from(order[1]) = 0
  <2>1. 0 \in 0..(payload - 1)
    BY <1>1, <1>2
  <2>2. PICK n \in names : from(n) <= 0 /\ 0 < to(n)
    BY <1>3, <2>1
  <2>3. from(n) = 0
    BY <1>1, <1>2, <2>2
  <2>4. PICK i \in 1..last : order[i] = n
    BY <1>14
  <2>5. 1 \in 1..last /\ order[1] \in names
    BY <1>1, <1>12, <1>17
  <2>6. from(order[1]) <= 0
    BY <1>1, <1>15, <2>3, <2>4, <2>5
  <2>7. QED
    BY <1>1, <1>2, <2>5, <2>6
<1>19. to(order[last]) = payload
  <2> DEFINE byte == payload - 1
  <2>1. byte \in 0..(payload - 1)
    BY <1>1, <1>2
  <2>2. PICK n \in names : from(n) <= byte /\ byte < to(n)
    BY <1>3, <2>1
  <2>3. to(n) = payload
    BY <1>1, <1>2, <2>2
  <2>4. PICK i \in 1..last : order[i] = n
    BY <1>14
  <2>5. last \in 1..last /\ order[last] \in names
    BY <1>1, <1>12, <1>17
  <2>6. i = last
    <3> SUFFICES ASSUME i # last PROVE FALSE
      OBVIOUS
    <3>1. from(n) < from(order[last])
      BY <1>1, <1>15, <2>4, <2>5
    <3>2. from(order[last]) \in 0..(payload - 1)
      BY <1>1, <1>2, <2>5
    <3>3. from(n) <= from(order[last]) /\ from(order[last]) < to(n)
      BY <1>1, <2>3, <2>5, <3>1, <3>2
    <3>4. from(order[last]) <= from(order[last]) /\ from(order[last]) < to(order[last])
      BY <1>1, <1>2, <2>5
    <3>5. n = order[last]
      BY <1>3, <2>5, <3>2, <3>3, <3>4
    <3>6. QED
      BY <1>1, <2>5, <3>1, <3>5
  <2>7. QED
    BY <2>3, <2>4, <2>6
<1>20. ASSUME NEW i \in 1..(last - 1)
       PROVE  to(order[i]) = from(order[i + 1])
  <2>1. i \in 1..last /\ i + 1 \in 1..last /\ i < i + 1
    BY <1>1
  <2> DEFINE left == order[i]
             right == order[i + 1]
  <2>2. left \in names /\ right \in names /\ from(left) < from(right)
    BY <1>12, <1>15, <2>1
  <2>3. /\ from(left) \in Int /\ to(left) \in Int /\ from(right) \in Int /\ to(right) \in Int
        /\ 0 <= from(left) /\ from(left) < to(left) /\ to(left) <= payload
        /\ 0 <= from(right) /\ from(right) < to(right) /\ to(right) <= payload
    BY <1>1, <1>2, <2>2
  <2>4. rank[left] = i /\ rank[right] = i + 1
    BY <1>12, <2>1
  <2> HIDE DEF left, right
  <2>5. ~(to(left) > from(right))
    <3> SUFFICES ASSUME to(left) > from(right) PROVE FALSE
      OBVIOUS
    <3>1. from(right) \in 0..(payload - 1)
      BY <1>1, <2>3
    <3>2. from(left) <= from(right) /\ from(right) < to(left) /\ from(right) <= from(right)
      BY <2>2, <2>3
    <3>3. left = right
      BY <1>3, <2>2, <2>3, <3>1, <3>2
    <3>4. QED
      BY <2>2, <2>3, <3>3
  <2>6. ~(to(left) < from(right))
    <3> SUFFICES ASSUME to(left) < from(right) PROVE FALSE
      OBVIOUS
    <3>1. to(left) \in 0..(payload - 1)
      BY <1>1, <2>3
    <3>2. PICK n \in names : from(n) <= to(left) /\ to(left) < to(n)
      BY <1>3, <3>1
    <3>3. from(n) \in Int /\ to(n) \in Int /\ from(n) < from(right) /\ n # left
      BY <1>1, <2>3, <3>2
    <3>4. rank[n] < i + 1 /\ rank[n] \in 1..last
      BY <1>7, <1>8, <2>2, <2>4, <3>3
    <3>5. rank[n] # i
      BY <1>10, <2>2, <2>4, <3>3
    <3>6. rank[n] < i
      BY <1>1, <3>4, <3>5
    <3>7. ~(from(left) <= from(n))
      <4>1. ~(i <= rank[n])
        BY <3>4, <3>6
      <4>2. QED
        BY <1>6, <2>2, <2>4, <4>1
    <3>8. from(left) \in 0..(payload - 1)
      BY <1>1, <2>3
    <3>9. from(n) <= from(left) /\ from(left) < to(n) /\ from(left) <= from(left)
      BY <2>3, <3>2, <3>3, <3>7
    <3>10. n = left
      BY <1>3, <2>2, <2>3, <3>8, <3>9
    <3>11. QED
      BY <3>3, <3>10
  <2>7. to(left) = from(right)
    BY <2>3, <2>5, <2>6
  <2>8. QED
    BY <2>7 DEF left, right
<1>21. \A i \in 1..(last - 1) : Result!Adjacent(ranges[order[i]], ranges[order[i + 1]])
  BY <1>20 DEF Result!Adjacent, from, to
<1>22. ranges[order[1]].from = 0 /\ ranges[order[last]].to = payload
  BY <1>18, <1>19 DEF from, to
<1>23. QED
  BY <1>1, <1>2, <1>16, <1>17, <1>21, <1>22 DEF Result!Verified, ranges, names, payload

LEMMA ResultBegins == Result!Init => Result!IInv
<1> SUFFICES ASSUME Result!Init PROVE Result!IInv
  OBVIOUS
<1>1. /\ poll = [at |-> "exited", artifacts |-> Result!NoArtifacts, status |-> "RUNNING"]
      /\ attempt = [artifacts |-> Result!NoArtifacts, status |-> "RUNNING"]
  BY DEF Result!Init
<1>2. output.weights \in Result!Weights
  <2>1. PICK found \in Result!Weights, config \in {Result!Good} \cup Result!Configurations :
          output \in [exit : 0..1, model : BOOLEAN, checkpoint : BOOLEAN,
                      config : {config}, weights : {found}]
    BY DEF Result!Init
  <2>2. output.weights = found
    BY <2>1
  <2>3. QED
    BY <2>2
<1>3. Result!NoArtifacts \in Result!Artifacts
  BY DEF Result!NoArtifacts, Result!Artifacts
<1>4. QED
  BY <1>1, <1>2, <1>3 DEF Result!IInv, Result!At

LEMMA ResultGoesOn ==
  ASSUME Result!IInv, [Result!Next]_Result!vars
  PROVE  Result!IInv'
<1> DEFINE Statuses == {"RUNNING", "COMPLETED", "FAILED"}
<1>1. /\ poll.artifacts \in Result!Artifacts /\ poll.status \in Statuses
      /\ poll = [at |-> poll.at, artifacts |-> poll.artifacts, status |-> poll.status]
  BY DEF Result!IInv
<1>2. Result!NoArtifacts \in Result!Artifacts /\ Result!Candidates \in Result!Artifacts
  BY DEF Result!NoArtifacts, Result!Candidates, Result!Artifacts
<1>3. \A artifacts : UNCHANGED output => (Result!Earned(artifacts)' <=> Result!Earned(artifacts))
  BY DEF Result!Earned
<1>4. UNCHANGED output
  BY DEF Result!Next, Result!PublishOutputs, Result!PublishAdapter, Result!ProviderFails,
         Result!Observe, Result!Crash, Result!vars
<1>5. ASSUME UNCHANGED attempt,
             poll' \in [at : {"exited", "adapter", "ended"}, artifacts : Result!Artifacts, status : Statuses],
             poll'.at = "adapter" => output.exit = 0,
             poll'.at # "ended" => poll'.status = "RUNNING",
             poll'.status = "COMPLETED" => Result!Earned(poll'.artifacts)
      PROVE  Result!IInv'
  <2>1. /\ output' = output
        /\ attempt'.artifacts = attempt.artifacts /\ attempt'.status = attempt.status
        /\ attempt' = attempt
    BY <1>4, <1>5
  <2>2. Result!Earned(poll'.artifacts) => Result!Earned(poll.artifacts)'
    BY <2>1 DEF Result!Earned
  <2>3. Result!Earned(attempt.artifacts)' <=> Result!Earned(attempt.artifacts)
    BY <2>1 DEF Result!Earned
  <2>4. QED
    BY <1>5, <2>1, <2>2, <2>3 DEF Result!IInv, Result!At
<1>6. CASE Result!PublishOutputs
  <2>1. UNCHANGED attempt /\ Result!At("exited")
    BY <1>6 DEF Result!PublishOutputs
  <2>2. CASE output.exit = 0
    <3>1. poll' = [poll EXCEPT !.at = "adapter", !.artifacts = Result!Candidates]
      BY <1>6, <2>2 DEF Result!PublishOutputs
    <3>2. poll' = [at |-> "adapter", artifacts |-> Result!Candidates, status |-> poll.status]
      BY <1>1, <3>1
    <3>3. poll.status = "RUNNING"
      BY <2>1 DEF Result!IInv, Result!At
    <3>4. QED
      BY <1>1, <1>2, <1>5, <2>1, <2>2, <3>2, <3>3
  <2>3. CASE output.exit # 0
    <3>1. poll' = [at |-> "ended", artifacts |-> Result!Candidates, status |-> "FAILED"]
      BY <1>6, <2>3 DEF Result!PublishOutputs, Result!Ends
    <3>2. QED
      BY <1>2, <1>5, <2>1, <3>1
  <2>4. QED
    BY <2>2, <2>3
<1>7. CASE Result!PublishAdapter
  <2>1. UNCHANGED attempt /\ output.exit = 0
    BY <1>7 DEF Result!PublishAdapter, Result!IInv
  <2>2. CASE Result!Publishable(output.config, output.weights)
    <3> DEFINE artifacts == [poll.artifacts EXCEPT !.model = "adapter"]
    <3>1. poll' = [at |-> "ended", artifacts |-> artifacts, status |-> "COMPLETED"]
      BY <1>7, <2>2 DEF Result!PublishAdapter, Result!Ends
    <3>2. artifacts \in Result!Artifacts /\ artifacts.model = "adapter"
      BY <1>1 DEF Result!Artifacts
    <3>3. Result!Earned(artifacts)
      BY <2>1, <2>2, <3>2 DEF Result!Earned
    <3> HIDE DEF artifacts
    <3>4. QED
      BY <1>5, <2>1, <3>1, <3>2, <3>3
  <2>3. CASE ~Result!Publishable(output.config, output.weights)
    <3>1. poll' = [at |-> "ended", artifacts |-> poll.artifacts, status |-> "FAILED"]
      BY <1>7, <2>3 DEF Result!PublishAdapter, Result!Ends
    <3>2. QED
      BY <1>1, <1>5, <2>1, <3>1
  <2>4. QED
    BY <2>2, <2>3
<1>8. CASE Result!ProviderFails
  <2>1. /\ UNCHANGED attempt
        /\ poll' = [at |-> "ended", artifacts |-> poll.artifacts, status |-> "FAILED"]
    BY <1>8 DEF Result!ProviderFails, Result!Ends
  <2>2. QED
    BY <1>1, <1>5, <2>1
<1>9. CASE Result!Observe
  <2>1. UNCHANGED poll /\ attempt' = [artifacts |-> poll.artifacts, status |-> poll.status]
    BY <1>9 DEF Result!Observe
  <2>2. attempt' \in [artifacts : Result!Artifacts, status : Statuses]
    BY <1>1, <2>1
  <2>3. attempt'.artifacts = poll.artifacts /\ attempt'.status = poll.status
    BY <2>1
  <2>4. QED
    BY <1>3, <1>4, <2>1, <2>2, <2>3 DEF Result!IInv, Result!At, Result!Earned
<1>10. CASE Result!Crash
  <2>1. /\ UNCHANGED attempt
        /\ poll' = [at |-> "exited", artifacts |-> Result!NoArtifacts, status |-> "RUNNING"]
    BY <1>10 DEF Result!Crash
  <2>2. QED
    BY <1>2, <1>5, <2>1
<1>11. CASE UNCHANGED Result!vars
  BY <1>11 DEF Result!vars, Result!IInv, Result!At, Result!Earned
<1>12. QED
  BY <1>6, <1>7, <1>8, <1>9, <1>10, <1>11 DEF Result!Next

\* What the invariant says of what is completed.
LEMMA ResultHolds ==
  ASSUME Result!IInv
  PROVE  Result!TypeOK /\ Result!VerifiedMeansTiled /\ Result!CompletedIsAnAdapter
<1>1. output.weights \in Result!Weights
  BY DEF Result!IInv
<1>2. Result!VerifiedMeansTiled
  BY <1>1, VerifiedIsTiled, TiledIsVerified DEF Result!VerifiedMeansTiled
<1>3. Result!TypeOK
  <2>1. attempt.artifacts \in Result!Artifacts
    BY DEF Result!IInv
  <2>2. \A name \in DOMAIN attempt.artifacts :
          attempt.artifacts[name] \in {"none", "directory", "adapter"}
    BY <2>1 DEF Result!Artifacts
  <2>3. QED
    BY <2>2 DEF Result!TypeOK, Result!IInv, Result!At
<1>4. Result!CompletedIsAnAdapter
  BY <1>1, VerifiedIsTiled
  DEF Result!CompletedIsAnAdapter, Result!IInv, Result!Earned, Result!Publishable
<1>5. QED
  BY <1>2, <1>3, <1>4

(* Side by side with the others, for any tensors, outages and kills: the   *)
(* check of the sorted ranges accepts just the files in which each byte is *)
(* one tensor's, and an Attempt is saved as completed just with an adapter *)
(* of such weights (_verify_weights, publish_adapter, TrainingRuntime.poll). *)
THEOREM ResultsStayWhole == AllSpec => []ResultsAreWhole
<1> DEFINE Sound == Is("result") => Result!IInv
<1>1. AllInit => Sound
  BY ResultBegins DEF AllInit, Is
<1>2. Sound /\ [AllNext]_allvars => Sound'
  <2> SUFFICES ASSUME Sound, [AllNext]_allvars, Is("result")' PROVE Result!IInv'
    OBVIOUS
  <2>1. Is("result") /\ Result!IInv
    BY DEF AllNext, allvars, Is
  <2>2. [Result!Next]_Result!vars
    BY <2>1 DEF AllNext, allvars, Is, OfResult, Result!vars
  <2>3. QED
    BY <2>1, <2>2, ResultGoesOn
<1>3. Sound => ResultsAreWhole
  BY ResultHolds DEF ResultsAreWhole
<1>4. QED
  BY <1>1, <1>2, <1>3, PTL DEF AllSpec


-----------------------------------------------------------------------------
(* The environment of a run.                                               *)

\* A rule that gives no reason was met by what is known.
LEMMA NoReason ==
  ASSUME NEW known \in BOOLEAN, NEW met \in BOOLEAN,
         Environment!Reason(known, met) \cap {"blocked", "unknown"} = {}
  PROVE  known /\ met
  BY DEF Environment!Reason

\* A compatible candidate meets the requirements.
LEMMA CompatibleMeets ==
  ASSUME NEW spec, NEW c, NEW observed,
         Environment!Match(spec, c, observed) = "compatible"
  PROVE  Environment!Meets(c, spec, observed)
<1> DEFINE against == {"blocked", "unknown"}
<1>1. c.known_good /\ Environment!Reasons(spec, c, observed) \cap against = {}
  BY DEF Environment!Match
<1>2. /\ Environment!FieldReasons(spec, c) \cap against = {}
      /\ Environment!PythonReasons(spec, c) \cap against = {}
      /\ Environment!FrameworkReasons(spec, c) \cap against = {}
      /\ Environment!HardwareReasons(c, observed) \cap against = {}
  BY <1>1 DEF Environment!Reasons
<1>3. ASSUME NEW f \in Fields, spec.wants[f] # Missing
      PROVE  c.has[f] = spec.wants[f]
  <2> DEFINE known == c.has[f] # Missing
             met == c.has[f] = spec.wants[f]
  <2>1. Environment!Reason(known, met) \subseteq Environment!FieldReasons(spec, c)
    BY <1>3 DEF Environment!FieldReasons
  <2>2. Environment!Reason(known, met) \cap {"blocked", "unknown"} = {}
    BY <1>2, <2>1
  <2>3. QED
    BY <2>2 DEF Environment!Reason
<1>4. Environment!Satisfies(c.python, spec.python)
  BY <1>2 DEF Environment!PythonReasons, Environment!Reason
<1>5. ASSUME NEW n \in Frameworks, spec.frameworks[n] # Missing
      PROVE  /\ c.frameworks[n] # Missing
             /\ Environment!Satisfies(c.frameworks[n], spec.frameworks[n])
  <2> DEFINE known == c.frameworks[n] # Missing
             met == Environment!Satisfies(c.frameworks[n], spec.frameworks[n])
  <2>1. Environment!Reason(known, met) \subseteq Environment!FrameworkReasons(spec, c)
    BY <1>5 DEF Environment!FrameworkReasons
  <2>2. Environment!Reason(known, met) \cap {"blocked", "unknown"} = {}
    BY <1>2, <2>1
  <2>3. QED
    BY <2>2 DEF Environment!Reason
<1>6. ASSUME observed # Missing
      PROVE  /\ c.architectures # {} => observed.architecture \in c.architectures
             /\ c.precisions # {} => observed.precision \in c.precisions
             /\ c.driver # Missing =>
                  /\ observed.driver # Missing
                  /\ ~Environment!VersionLess(observed.driver, c.driver)
             /\ observed.accelerator # Missing /\ c.accelerator # Missing =>
                  observed.accelerator = c.accelerator
  <2>1. /\ Environment!SupportReasons(c.architectures, observed.architecture) \cap against = {}
        /\ Environment!SupportReasons(c.precisions, observed.precision) \cap against = {}
        /\ Environment!DriverReasons(c.driver, observed.driver) \cap against = {}
        /\ Environment!AcceleratorReasons(c, observed) \cap against = {}
    BY <1>2, <1>6 DEF Environment!HardwareReasons
  <2>2. /\ c.architectures # {} => observed.architecture \in c.architectures
        /\ c.precisions # {} => observed.precision \in c.precisions
    BY <2>1 DEF Environment!SupportReasons, Environment!Reason
  <2>3. c.driver # Missing =>
          observed.driver # Missing /\ ~Environment!VersionLess(observed.driver, c.driver)
    BY <2>1 DEF Environment!DriverReasons, Environment!Reason
  <2>4. observed.accelerator # Missing /\ c.accelerator # Missing =>
          observed.accelerator = c.accelerator
    BY <2>1 DEF Environment!AcceleratorReasons, Environment!Reason
  <2>5. QED
    BY <2>2, <2>3, <2>4
<1>7. QED
  BY <1>1, <1>3, <1>4, <1>5, <1>6 DEF Environment!Meets

\* A set of numbers that is not empty has a least member.
LEMMA LeastNumber ==
  ASSUME NEW S, S \subseteq Nat, S # {}
  PROVE  \E m \in S : \A n \in S : m <= n
<1>1. PICK m \in S : \A n \in S : ~(<<n, m>> \in OpToRel(<, Nat))
  BY NatLessThanWellFounded, WFMin
<1>2. \A n \in S : ~(n < m)
  BY <1>1 DEF OpToRel
<1>3. QED
  BY <1>2

\* One of some candidates is the first.
LEMMA FirstCandidate ==
  ASSUME NEW S, S # {}, \A c \in S : c.id \in Nat
  PROVE  \E c \in S : \A d \in S : c.id <= d.id
<1> DEFINE T == {c.id : c \in S}
<1>1. T \subseteq Nat /\ T # {}
  OBVIOUS
<1> HIDE DEF T
<1>2. \E m \in T : \A n \in T : m <= n
  BY <1>1, LeastNumber
<1>3. QED
  BY <1>2 DEF T

\* The candidate that is selected is of the catalogue, and meets the requirements.
LEMMA ResolvedMeets ==
  ASSUME host \in Hosts, Environment!ResolvedNow # Missing
  PROVE  /\ Environment!ResolvedNow \in Environment!Locks
         /\ \E c \in Environment!Catalogue :
              /\ Environment!Lock(c) = Environment!ResolvedNow
              /\ Environment!Meets(c, Environment!Wanted, facts)
<1> DEFINE matches == Environment!Matches(Environment!Wanted, Environment!Catalogue, facts)
           choice == Environment!Selected(matches)
<1>1. matches # {} /\ Environment!ResolvedNow = Environment!Lock(choice)
  BY DEF Environment!ResolvedNow, Environment!Resolve, Environment!Status
<1>2. \A c \in matches : /\ c \in Environment!Catalogue
                         /\ Environment!Match(Environment!Wanted, c, facts) = "compatible"
  BY DEF Environment!Matches
<1>3. /\ \A h \in Hosts : \A c \in h.catalogue : c.id \in Nat
      /\ \A h \in Hosts : Environment!LocalCandidate(h).id = 0
  BY ExecutionAssumption DEF Environment!EnvironmentAssumption, Environment!LocalCandidate
<1>4. Environment!Catalogue \subseteq host.catalogue \cup {Environment!LocalCandidate(host)}
  BY DEF Environment!Catalogue
<1>5. \A c \in Environment!Catalogue : c.id \in Nat
  BY <1>3, <1>4
<1> HIDE DEF matches
<1>6. choice \in matches
  <2>1. \E c \in matches : \A d \in matches : c.id <= d.id
    BY <1>1, <1>2, <1>5, FirstCandidate
  <2>2. QED
    BY <2>1 DEF Environment!Selected
<1> HIDE DEF choice
<1>7. choice \in Environment!Catalogue /\ Environment!Meets(choice, Environment!Wanted, facts)
  BY <1>2, <1>6, CompatibleMeets
<1>8. Environment!Lock(choice) \in Environment!Locks
  BY <1>4, <1>7 DEF Environment!Locks
<1>9. QED
  BY <1>1, <1>7, <1>8

LEMMA EnvironmentBegins == Environment!Init => Environment!IInv
<1> SUFFICES ASSUME Environment!Init PROVE Environment!IInv
  OBVIOUS
<1>1. /\ host \in Hosts /\ facts = Missing /\ run = Missing /\ cache = Environment!NoCache
      /\ attempts = <<>> /\ call = 0 /\ launched = {}
  BY DEF Environment!Init
<1>2. Environment!TypeOK
  BY <1>1 DEF Environment!TypeOK, Environment!NoCache
<1>3. QED
  BY <1>1, <1>2 DEF Environment!IInv, Environment!NoCache, Environment!OnlyMeetingEnvironmentsRun,
                    Environment!NothingRunsOnAlteredState

\* The run and the Attempts as the actions find them.
LEMMA RunsAreTyped ==
  ASSUME Environment!IInv
  PROVE  /\ run # Missing => /\ run \in Environment!Runs
                             /\ run.plan \in Environment!Locks
                             /\ run = [plan |-> run.plan, spec |-> run.spec, lock |-> run.lock]
         /\ cache.spec \in {"submitted", Missing} /\ cache.lock \in Environment!Locks \cup {Missing}
         /\ attempts \in Seq(Environment!Attempts) /\ Len(attempts) \in Nat
         /\ call \in 0..Len(attempts)
         /\ attempts # <<>> \/ call # 0 => run # Missing
<1>1. /\ run \in Environment!Runs \cup {Missing}
      /\ cache \in [spec : {"submitted", Missing}, lock : Environment!Locks \cup {Missing}]
      /\ attempts \in Seq(Environment!Attempts) /\ call \in 0..Len(attempts)
      /\ run = Missing => attempts = <<>>
  BY DEF Environment!IInv, Environment!TypeOK
<1>2. run # Missing => /\ run \in Environment!Runs
                       /\ run.plan \in Environment!Locks
                       /\ run = [plan |-> run.plan, spec |-> run.spec, lock |-> run.lock]
  BY <1>1 DEF Environment!Runs
<1>3. cache.spec \in {"submitted", Missing} /\ cache.lock \in Environment!Locks \cup {Missing}
  BY <1>1
<1>4. Len(attempts) \in Nat /\ (attempts = <<>> => Len(attempts) = 0)
  BY <1>1, LenProperties
<1>5. QED
  BY <1>1, <1>2, <1>3, <1>4

\* A step is one of the three while the training has not succeeded.
LEMMA NextStepIsOne ==
  ASSUME ~Environment!Succeeded("training")
  PROVE  Environment!Steps[Environment!NextStep] \in {Environment!Steps[s] : s \in 1..3}
<1> DEFINE First(s) == /\ ~Environment!Succeeded(Environment!Steps[s])
                       /\ \A t \in 1..(s - 1) : Environment!Succeeded(Environment!Steps[t])
<1>1. Environment!Steps[3] = "training"
  BY DEF Environment!Steps
<1>2. /\ 1..0 = {} /\ 1..1 = {1} /\ 1..2 = {1, 2}
      /\ 1 - 1 = 0 /\ 2 - 1 = 1 /\ 3 - 1 = 2
      /\ 1 \in 1..3 /\ 2 \in 1..3 /\ 3 \in 1..3
  OBVIOUS
<1>3. \E s \in 1..3 : First(s)
  <2>1. CASE ~Environment!Succeeded(Environment!Steps[1])
    <3>1. First(1)
      BY <1>2, <2>1
    <3>2. QED
      BY <1>2, <3>1
  <2>2. CASE /\ Environment!Succeeded(Environment!Steps[1])
             /\ ~Environment!Succeeded(Environment!Steps[2])
    <3>1. First(2)
      BY <1>2, <2>2
    <3>2. QED
      BY <1>2, <3>1
  <2>3. CASE /\ Environment!Succeeded(Environment!Steps[1])
             /\ Environment!Succeeded(Environment!Steps[2])
    <3>1. First(3)
      BY <1>1, <1>2, <2>3
    <3>2. QED
      BY <1>2, <3>1
  <2>4. QED
    BY <2>1, <2>2, <2>3
<1>4. Environment!NextStep \in 1..3
  BY <1>3 DEF Environment!NextStep
<1>5. QED
  BY <1>4

\* What is in hand once it has been verified is what was submitted, for the plan.
LEMMA InHandIsThePlan ==
  ASSUME Environment!IInv, Environment!Verified, run # Missing
  PROVE  /\ Environment!InHand = [spec |-> "submitted", lock |-> run.plan]
         /\ run.plan \in Environment!Locks
<1>1. /\ cache.spec \in {"submitted", Missing}
      /\ cache.lock # Missing => cache.lock = run.plan
      /\ run.plan \in Environment!Locks
  BY RunsAreTyped DEF Environment!IInv
<1>2. /\ cache.spec # Missing \/ run.spec = "submitted"
      /\ cache.lock # Missing \/ run.lock = run.plan
  BY DEF Environment!Verified, Environment!SpecVerified, Environment!LockVerified
<1>3. QED
  BY <1>1, <1>2 DEF Environment!InHand

\* An Attempt is appended or gets a status.
LEMMA AttemptsGrow ==
  ASSUME Environment!IInv, NEW step \in {Environment!Steps[s] : s \in 1..3},
         attempts' = Append(attempts, [step |-> step, status |-> "pending"]),
         call' = Len(attempts')
  PROVE  attempts' \in Seq(Environment!Attempts) /\ call' \in 0..Len(attempts')
<1>1. attempts \in Seq(Environment!Attempts)
  BY RunsAreTyped
<1>2. [step |-> step, status |-> "pending"] \in Environment!Attempts
  BY DEF Environment!Attempts
<1>3. attempts' \in Seq(Environment!Attempts)
  BY <1>1, <1>2, AppendProperties
<1>4. Len(attempts') \in Nat
  BY <1>3, LenProperties
<1>5. QED
  BY <1>3, <1>4

LEMMA StatusIsSet ==
  ASSUME Environment!IInv, NEW i \in DOMAIN attempts,
         NEW status \in {"pending", "running", "succeeded", "failed", "blocked", "cancelling"},
         Environment!SetStatus(i, status)
  PROVE  attempts' \in Seq(Environment!Attempts) /\ Len(attempts') = Len(attempts)
<1>1. attempts \in Seq(Environment!Attempts)
  BY RunsAreTyped
<1>2. attempts[i] \in Environment!Attempts
  BY <1>1, ElementOfSeq
<1>3. [attempts[i] EXCEPT !.status = status] \in Environment!Attempts
  BY <1>2 DEF Environment!Attempts
<1>4. attempts' = [attempts EXCEPT ![i] = [attempts[i] EXCEPT !.status = status]]
  BY DEF Environment!SetStatus
<1>5. QED
  BY <1>1, <1>3, <1>4, ExceptSeq

\* A step that launches nothing, for the same plan.
LEMMA NothingLaunched ==
  ASSUME Environment!IInv, UNCHANGED launched, launched = {} \/ run'.plan = run.plan
  PROVE  (Environment!OnlyMeetingEnvironmentsRun /\ Environment!NothingRunsOnAlteredState)'
<1>1. Environment!OnlyMeetingEnvironmentsRun /\ Environment!NothingRunsOnAlteredState
  BY DEF Environment!IInv
<1>2. launched' = launched
  OBVIOUS
<1>3. Environment!OnlyMeetingEnvironmentsRun'
  BY <1>1, <1>2 DEF Environment!OnlyMeetingEnvironmentsRun
<1>4. Environment!NothingRunsOnAlteredState'
  BY <1>1, <1>2 DEF Environment!NothingRunsOnAlteredState
<1>5. QED
  BY <1>3, <1>4

\* What is launched was verified, and was resolved for the host as it was observed.
LEMMA ExecuteKeeps ==
  ASSUME Environment!IInv, Environment!Execute
  PROVE  Environment!IInv'
<1>1. /\ call # 0 /\ call \in DOMAIN attempts /\ Environment!Verified
      /\ UNCHANGED <<host, facts, run>> /\ call' = 0 /\ cache' = Environment!InHand
  <2>1. call # 0 /\ call \in 0..Len(attempts) /\ DOMAIN attempts = 1..Len(attempts)
    BY RunsAreTyped, LenProperties DEF Environment!Execute
  <2>2. call \in DOMAIN attempts
    BY <2>1, RunsAreTyped
  <2>3. QED
    BY <2>1, <2>2 DEF Environment!Execute
<1>2. run # Missing
  BY <1>1, RunsAreTyped
<1>3. cache' = [spec |-> "submitted", lock |-> run.plan] /\ run.plan \in Environment!Locks
  BY <1>1, <1>2, InHandIsThePlan
<1>4. cache' \in [spec : {"submitted", Missing}, lock : Environment!Locks \cup {Missing}]
  BY <1>3
<1>5. attempts' \in Seq(Environment!Attempts) /\ Len(attempts') = Len(attempts)
  <2>1. PICK status \in {"failed", "running"} : Environment!SetStatus(call, status)
    BY DEF Environment!Execute
  <2>2. QED
    BY <1>1, <2>1, StatusIsSet
<1>6. Environment!TypeOK'
  <2>1. Len(attempts') \in Nat /\ call' \in 0..Len(attempts')
    BY <1>1, <1>5, LenProperties
  <2>2. QED
    BY <1>1, <1>4, <1>5, <2>1 DEF Environment!IInv, Environment!TypeOK
<1>7. (Environment!OnlyMeetingEnvironmentsRun /\ Environment!NothingRunsOnAlteredState)'
  <2>1. CASE Environment!ResolvedNow = Missing
    <3>1. UNCHANGED launched
      BY <2>1 DEF Environment!Execute
    <3>2. QED
      BY <1>1, <3>1, NothingLaunched
  <2>2. CASE Environment!ResolvedNow # Missing
    <3> DEFINE new == [attempt |-> call, lock |-> Environment!ResolvedNow, facts |-> facts,
                       from |-> Environment!Catalogue, wanted |-> Environment!Wanted,
                       spec |-> Environment!InHand.spec, planned |-> Environment!InHand.lock]
    <3>1. launched' = launched \cup {new}
      BY <2>2 DEF Environment!Execute
    <3>2. Environment!InHand.spec = "submitted" /\ Environment!InHand.lock = run.plan
      BY <1>1, <1>3
    <3>3. \E c \in Environment!Catalogue :
            /\ Environment!Lock(c) = Environment!ResolvedNow
            /\ Environment!Meets(c, Environment!Wanted, facts)
      BY <2>2, ResolvedMeets DEF Environment!IInv, Environment!TypeOK
    <3>4. /\ \E c \in new.from : /\ Environment!Lock(c) = new.lock
                                 /\ Environment!Meets(c, new.wanted, new.facts)
          /\ new.spec = "submitted" /\ new.planned = run.plan
      BY <3>2, <3>3
    <3> HIDE DEF new
    <3>5. \A l \in launched :
            /\ \E c \in l.from : /\ Environment!Lock(c) = l.lock
                                 /\ Environment!Meets(c, l.wanted, l.facts)
            /\ l.spec = "submitted" /\ l.planned = run.plan
      BY DEF Environment!IInv, Environment!OnlyMeetingEnvironmentsRun,
             Environment!NothingRunsOnAlteredState
    <3>6. run'.plan = run.plan
      BY <1>1
    <3>7. \A l \in launched' :
            /\ \E c \in l.from : /\ Environment!Lock(c) = l.lock
                                 /\ Environment!Meets(c, l.wanted, l.facts)
            /\ l.spec = "submitted" /\ l.planned = run'.plan
      BY <3>1, <3>4, <3>5, <3>6
    <3>8. QED
      BY <3>7 DEF Environment!OnlyMeetingEnvironmentsRun, Environment!NothingRunsOnAlteredState
  <2>3. QED
    BY <2>1, <2>2
<1>8. run' # Missing /\ cache'.lock = run'.plan
  BY <1>1, <1>2, <1>3
<1>9. QED
  BY <1>6, <1>7, <1>8 DEF Environment!IInv

\* A new run has the plan that is resolved; one that has it already is left alone.
LEMMA SubmitKeeps ==
  ASSUME Environment!IInv, Environment!Submit
  PROVE  Environment!IInv'
<1>1. /\ UNCHANGED <<host, facts, attempts, call, launched>>
      /\ cache' = [spec |-> "submitted", lock |-> Environment!ResolvedNow]
      /\ Environment!ResolvedNow # Missing
  BY DEF Environment!Submit
<1>2. Environment!ResolvedNow \in Environment!Locks
  BY <1>1, ResolvedMeets DEF Environment!IInv, Environment!TypeOK
<1>3. /\ run' \in Environment!Runs /\ run' # Missing /\ run'.plan = Environment!ResolvedNow
      /\ launched = {} \/ run'.plan = run.plan
  <2>1. CASE run = Missing
    <3>1. run' = [plan |-> Environment!ResolvedNow, spec |-> "submitted",
                  lock |-> Environment!ResolvedNow]
      BY <2>1 DEF Environment!Submit
    <3>2. run' \in Environment!Runs /\ run'.plan = Environment!ResolvedNow
      BY <1>2, <3>1 DEF Environment!Runs
    <3>3. Missing \notin Environment!Runs
      BY ExecutionAssumption DEF Environment!EnvironmentAssumption
    <3>4. launched = {}
      BY <2>1 DEF Environment!IInv
    <3>5. QED
      BY <3>2, <3>3, <3>4
  <2>2. CASE run # Missing
    <3>1. run.plan = Environment!ResolvedNow /\ run' = run
      BY <2>2 DEF Environment!Submit
    <3>2. QED
      BY <2>2, <3>1, RunsAreTyped
  <2>3. QED
    BY <2>1, <2>2
<1>4. cache' \in [spec : {"submitted", Missing}, lock : Environment!Locks \cup {Missing}]
  BY <1>1, <1>2
<1>5. Environment!TypeOK'
  BY <1>1, <1>3, <1>4 DEF Environment!IInv, Environment!TypeOK
<1>6. (Environment!OnlyMeetingEnvironmentsRun /\ Environment!NothingRunsOnAlteredState)'
  BY <1>1, <1>3, NothingLaunched
<1>7. cache'.lock = run'.plan
  BY <1>1, <1>3
<1>8. QED
  BY <1>3, <1>5, <1>6, <1>7 DEF Environment!IInv

\* Damage leaves the plan, which is not stored with what it damages.
LEMMA DamageKeeps ==
  ASSUME Environment!IInv, Environment!Damage
  PROVE  Environment!IInv'
<1>1. /\ UNCHANGED <<host, facts, cache, attempts, call, launched>> /\ run # Missing
      /\ \/ \E s \in {"altered", Missing} : run' = [run EXCEPT !.spec = s]
         \/ run' = [run EXCEPT !.lock = Missing]
         \/ \E c \in UNION {h.catalogue : h \in Hosts} :
              run' = [run EXCEPT !.lock = Environment!Lock(c)]
  BY DEF Environment!Damage
<1>2. /\ run \in Environment!Runs
      /\ run = [plan |-> run.plan, spec |-> run.spec, lock |-> run.lock]
  BY <1>1, RunsAreTyped
<1>3. \A c \in UNION {h.catalogue : h \in Hosts} : Environment!Lock(c) \in Environment!Locks
  BY DEF Environment!Locks
<1>4. run' \in Environment!Runs /\ run'.plan = run.plan
  <2>1. CASE \E s \in {"altered", Missing} : run' = [run EXCEPT !.spec = s]
    BY <1>2, <2>1 DEF Environment!Runs
  <2>2. ASSUME NEW lock \in Environment!Locks \cup {Missing}, run' = [run EXCEPT !.lock = lock]
        PROVE  run' \in Environment!Runs /\ run'.plan = run.plan
    BY <1>2, <2>2 DEF Environment!Runs
  <2>3. QED
    BY <1>1, <1>3, <2>1, <2>2
<1>5. run' # Missing
  BY <1>4, ExecutionAssumption DEF Environment!EnvironmentAssumption
<1>6. Environment!TypeOK'
  BY <1>1, <1>4 DEF Environment!IInv, Environment!TypeOK
<1>7. (Environment!OnlyMeetingEnvironmentsRun /\ Environment!NothingRunsOnAlteredState)'
  BY <1>1, <1>4, NothingLaunched
<1>8. cache'.lock # Missing => cache'.lock = run'.plan
  BY <1>1, <1>4 DEF Environment!IInv
<1>9. QED
  BY <1>5, <1>6, <1>7, <1>8 DEF Environment!IInv

LEMMA EnvironmentGoesOn ==
  ASSUME Environment!IInv, [Environment!Next]_Environment!vars
  PROVE  Environment!IInv'
<1>1. ASSUME UNCHANGED <<run, launched>>,
             host' \in Hosts, facts' \in Observations \cup {Missing},
             \/ UNCHANGED cache
             \/ cache' = Environment!NoCache
             \/ run # Missing /\ cache' = [spec |-> "submitted", lock |-> run.plan],
             attempts' \in Seq(Environment!Attempts), call' \in 0..Len(attempts'),
             run # Missing \/ attempts' = attempts
      PROVE  Environment!IInv'
  <2>1. run' = run /\ launched' = launched
    BY <1>1
  <2>2. /\ run \in Environment!Runs \cup {Missing}
        /\ cache \in [spec : {"submitted", Missing}, lock : Environment!Locks \cup {Missing}]
        /\ run = Missing => cache = Environment!NoCache /\ attempts = <<>> /\ launched = {}
        /\ cache.lock # Missing => cache.lock = run.plan
        /\ run # Missing => run.plan \in Environment!Locks
    BY RunsAreTyped DEF Environment!IInv, Environment!TypeOK
  <2>3. /\ cache' \in [spec : {"submitted", Missing}, lock : Environment!Locks \cup {Missing}]
        /\ cache'.lock # Missing => cache'.lock = run'.plan
        /\ run = Missing => cache' = Environment!NoCache
    <3>1. CASE UNCHANGED cache
      BY <2>1, <2>2, <3>1
    <3>2. CASE cache' = Environment!NoCache
      BY <3>2 DEF Environment!NoCache
    <3>3. CASE run # Missing /\ cache' = [spec |-> "submitted", lock |-> run.plan]
      BY <2>1, <2>2, <3>3
    <3>4. QED
      BY <1>1, <3>1, <3>2, <3>3
  <2>4. Environment!TypeOK'
    BY <1>1, <2>1, <2>2, <2>3 DEF Environment!TypeOK
  <2>5. run' = Missing => cache' = Environment!NoCache /\ attempts' = <<>> /\ launched' = {}
    BY <1>1, <2>1, <2>2, <2>3
  <2>6. (Environment!OnlyMeetingEnvironmentsRun /\ Environment!NothingRunsOnAlteredState)'
    BY <2>1, NothingLaunched
  <2>7. QED
    BY <2>3, <2>4, <2>5, <2>6 DEF Environment!IInv, Environment!NoCache
<1>2. /\ host \in Hosts /\ facts \in Observations \cup {Missing}
      /\ attempts \in Seq(Environment!Attempts) /\ Len(attempts) \in Nat /\ call \in 0..Len(attempts)
      /\ 0 \in 0..Len(attempts)
      /\ attempts # <<>> \/ call # 0 => run # Missing
  BY RunsAreTyped DEF Environment!IInv, Environment!TypeOK
<1>3. Environment!Verified /\ run # Missing =>
        Environment!InHand = [spec |-> "submitted", lock |-> run.plan]
  BY InHandIsThePlan
<1>4. CASE Environment!Submit
  BY <1>4, SubmitKeeps
<1>5. CASE Environment!StartNextAttempt
  <2>1. /\ run # Missing /\ Environment!Verified /\ cache' = Environment!InHand
        /\ UNCHANGED <<host, facts, run, launched>>
        /\ ~Environment!Succeeded("training") /\ call' = Len(attempts')
        /\ attempts' = Append(attempts, [step |-> Environment!Steps[Environment!NextStep],
                                         status |-> "pending"])
    BY <1>5, Zenon DEF Environment!StartNextAttempt
  <2>2. attempts' \in Seq(Environment!Attempts) /\ call' \in 0..Len(attempts')
    BY <2>1, NextStepIsOne, AttemptsGrow
  <2>3. host' = host /\ facts' = facts /\ cache' = [spec |-> "submitted", lock |-> run.plan]
    BY <1>3, <2>1
  <2>4. QED
    BY <1>1, <1>2, <2>1, <2>2, <2>3
<1>6. CASE Environment!Resume
  <2>1. /\ UNCHANGED <<host, facts, run, cache, launched>> /\ attempts # <<>>
        /\ attempts' = Append(attempts, [step |-> "training", status |-> "pending"])
        /\ call' = Len(attempts')
    BY <1>6 DEF Environment!Resume, Environment!Stopped
  <2>2. "training" \in {Environment!Steps[s] : s \in 1..3}
    BY DEF Environment!Steps
  <2>3. attempts' \in Seq(Environment!Attempts) /\ call' \in 0..Len(attempts')
    BY <2>1, <2>2, AttemptsGrow
  <2>4. QED
    BY <1>1, <1>2, <2>1, <2>3
<1>7. CASE Environment!Raise
  <2>1. UNCHANGED <<host, facts, run, cache, attempts, launched>> /\ call' = 0
    BY <1>7 DEF Environment!Raise
  <2>2. QED
    BY <1>1, <1>2, <2>1
<1>8. CASE Environment!Preflight
  <2>1. /\ UNCHANGED <<host, facts, run, launched>> /\ call' = 0
        /\ call # 0 /\ Environment!Verified /\ cache' = Environment!InHand
    BY <1>8, Zenon DEF Environment!Preflight
  <2>2. PICK status \in {"succeeded", "blocked"} : Environment!SetStatus(call, status)
    BY <1>8 DEF Environment!Preflight
  <2>3. call \in DOMAIN attempts
    BY <1>2, <2>1
  <2>4. attempts' \in Seq(Environment!Attempts) /\ Len(attempts') = Len(attempts)
    BY <2>2, <2>3, StatusIsSet
  <2>5. cache' = [spec |-> "submitted", lock |-> run.plan] /\ run # Missing
    BY <1>2, <1>3, <2>1
  <2>6. QED
    BY <1>1, <1>2, <2>1, <2>4, <2>5
<1>9. CASE Environment!Execute
  BY <1>9, ExecuteKeeps
<1>10. CASE Environment!Damage
  BY <1>10, DamageKeeps
<1>11. ASSUME NEW i \in DOMAIN attempts, Environment!Finish(i) \/ Environment!Quarantine(i)
       PROVE  Environment!IInv'
  <2>1. UNCHANGED <<host, facts, run, cache, call, launched>>
    BY <1>11 DEF Environment!Finish, Environment!Quarantine
  <2>2. PICK status \in {"succeeded", "failed", "cancelling"} : Environment!SetStatus(i, status)
    BY <1>11 DEF Environment!Finish, Environment!Quarantine
  <2>3. attempts' \in Seq(Environment!Attempts) /\ Len(attempts') = Len(attempts)
    BY <1>11, <2>2, StatusIsSet
  <2>4. attempts # <<>>
    BY <1>2, <1>11
  <2>5. QED
    BY <1>1, <1>2, <2>1, <2>3, <2>4
<1>12. ASSUME NEW o \in Observations, Environment!Observe(o)
       PROVE  Environment!IInv'
  <2>1. UNCHANGED <<host, run, cache, attempts, call, launched>> /\ facts' = o
    BY <1>12 DEF Environment!Observe
  <2>2. QED
    BY <1>1, <1>2, <1>12, <2>1
<1>13. ASSUME NEW h \in Hosts, Environment!Restart(h)
       PROVE  Environment!IInv'
  <2>1. /\ UNCHANGED <<run, attempts, launched>> /\ host' = h /\ facts' = Missing
        /\ cache' = Environment!NoCache /\ call' = 0
    BY <1>13 DEF Environment!Restart
  <2>2. QED
    BY <1>1, <1>2, <1>13, <2>1
<1>14. CASE UNCHANGED Environment!vars
  <2>1. UNCHANGED <<host, facts, run, cache, attempts, call, launched>>
    BY <1>14 DEF Environment!vars
  <2>2. QED
    BY <1>1, <1>2, <2>1
<1>15. QED
  BY <1>4, <1>5, <1>6, <1>7, <1>8, <1>9, <1>10, <1>11, <1>12, <1>13, <1>14 DEF Environment!Next

(* Side by side with the others, for any catalogues, hosts and requirements *)
(* and however the stored documents are damaged: what is launched runs in  *)
(* an environment of the catalogue that is known to meet every requirement *)
(* on the host as it was observed, and is what was submitted, for the plan *)
(* (EnvironmentResolver, _require_spec, _require_lock, reconcile_once).    *)
THEOREM EnvironmentsStaySound == AllSpec => []EnvironmentsAreSound
<1> DEFINE Sound == Is("environment") => Environment!IInv
<1>1. AllInit => Sound
  BY EnvironmentBegins DEF AllInit, Is
<1>2. Sound /\ [AllNext]_allvars => Sound'
  <2> SUFFICES ASSUME Sound, [AllNext]_allvars, Is("environment")' PROVE Environment!IInv'
    OBVIOUS
  <2>1. Is("environment") /\ Environment!IInv
    BY DEF AllNext, allvars, Is
  <2>2. [Environment!Next]_Environment!vars
    BY <2>1 DEF AllNext, allvars, vars, Is, OfEnvironment, Environment!vars
  <2>3. QED
    BY <2>1, <2>2, EnvironmentGoesOn
<1>3. Sound => EnvironmentsAreSound
  BY DEF EnvironmentsAreSound, Environment!IInv
<1>4. QED
  BY <1>1, <1>2, <1>3, PTL DEF AllSpec

===============================================================================
