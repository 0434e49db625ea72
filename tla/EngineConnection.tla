---------------------------- MODULE EngineConnection ----------------------------
(***************************************************************************)
(* The adapter of the training engine (engines/llamafactory/adapter.py)    *)
(* and the poll of TrainingRuntime that turns output into events with it.  *)
(*                                                                         *)
(* The adapter resolves its endpoint at the first call and keeps it until  *)
(* the process ends: it reads the status of the configured binding, then   *)
(* the record of the installation that the status names.  Meanwhile and    *)
(* later the Package Runtime, which is external, moves the binding.  The   *)
(* engine plugin behind an endpoint is external as well: it answers while  *)
(* the binding is up and its endpoint is the one that is called.           *)
(* Lines are those that are not blank, and of one length.                  *)
(*                                                                         *)
(* Calls are made by the reconcile loop under the service lock, one at a   *)
(* time: a launch is compiled, and every line of output is parsed.         *)
(***************************************************************************)
EXTENDS Naturals, Sequences, FiniteSets

CONSTANTS
  Mode,          \* "package", or "direct": the endpoint is configured
  Installations,
  Llama,         \* those of the approved package
  Capabilities,  \* what each declares: "exact", "more" (others as well), "other"
  Endpoints,
  Configured,    \* the endpoint of the direct mode, or Nobody
  Nobody,
  Answers,       \* of the plugin: "event", "nothing", "malformed"
  MaxLines,      \* bound: lines the worker prints
  ChunkLimit,    \* lines that the hint of readlines allows
  MaxChanges,    \* bound: changes of the Package Runtime
  MaxRestarts    \* bound: restarts of the Product process

ASSUME ConnectionAssumption ==
  /\ Mode \in {"package", "direct"} /\ Llama \subseteq Installations
  /\ Capabilities \in [Installations -> {"exact", "more", "other"}]
  /\ Configured \in Endpoints \cup {Nobody} /\ Nobody \notin Endpoints \cup Installations
  /\ Answers \subseteq {"event", "nothing", "malformed"}
  /\ MaxLines \in Nat /\ ChunkLimit \in Nat \ {0} /\ MaxChanges \in Nat /\ MaxRestarts \in Nat

VARIABLES
  binding,    \* external: the binding's installation and endpoint, and whether it is up
  installed,  \* external: the installations that are installed
  connection, \* the adapter's endpoint, and the installation it was resolved by
  thread,     \* the call under way
  session,    \* the execution's session: lines read, its chunk, its events
  worker,     \* lines printed, and whether it exited
  changes, restarts

vars == <<binding, installed, connection, thread, session, worker, changes, restarts>>

NoConnection == [endpoint |-> Nobody, via |-> Nobody]

Idle == [at |-> "idle", purpose |-> "compile", seen |-> NoConnection]

NoSession == [state |-> "none", read |-> 0, next |-> 1, events |-> <<>>]

Init ==
  /\ binding \in [installation : Installations, endpoint : Endpoints, up : BOOLEAN]
  /\ installed = Installations
  /\ connection = NoConnection /\ thread = Idle
  /\ session = NoSession /\ worker = [printed |-> 0, exited |-> FALSE]
  /\ changes = 0 /\ restarts = 0

At(point) == thread.at = point
Parsing == thread.purpose = "parse"

-----------------------------------------------------------------------------
(* What a call of the plugin leads to.                                     *)

\* _validate_llama_factory_installation.
Approved(i) == i \in Llama \cap installed /\ Capabilities[i] = "exact"

Calls(purpose) ==
  thread' = [Idle EXCEPT !.at = IF connection.endpoint = Nobody THEN "resolve" ELSE "invoke",
                         !.purpose = purpose]

Done(point) == thread' = [thread EXCEPT !.at = point]

\* Mutant of Resumes: one line more.
ResumesOnceMore == Done(IF session.next <= session.read THEN "line" ELSE "exit")

\* The next line of the chunk, or the exit code after the last one.
Resumes == Done(IF session.next < session.read THEN "line" ELSE "exit")

\* The events with one of the line that is parsed.
With(kind) == Append(session.events, [line |-> session.next, kind |-> kind])

Parsed(events) ==
  /\ session' = [session EXCEPT !.next = @ + 1, !.events = events]
  /\ Resumes

\* An exception ends the pass; what was read is gone.
Abort ==
  session' = [session EXCEPT !.next = session.read + 1] /\ Done("idle")

\* A launch that could not be compiled: the Attempt has no execution.
Fail == session' = [session EXCEPT !.state = "failed"] /\ Done("idle")

\* LlamaFactoryPackageRuntimeError.
Refused == IF Parsing THEN Abort ELSE Fail

\* Any other RuntimeError: the line is logged.
Unavailable == IF Parsing THEN Parsed(With("log")) ELSE Fail

-----------------------------------------------------------------------------
(* _resolved_connection.                                                   *)

ReadStatus ==
  /\ At("resolve") /\ Mode = "package"
  /\ IF binding.up
     THEN /\ thread' = [thread EXCEPT !.at = "installation",
                          !.seen = [endpoint |-> binding.endpoint, via |-> binding.installation]]
          /\ UNCHANGED session
     ELSE Refused
  /\ UNCHANGED <<binding, installed, connection, worker, changes, restarts>>

\* Mutant of Record: the record of what is bound now.
RecordOfBinding == binding.installation

Record == thread.seen.via

ReadInstallation ==
  /\ At("installation")
  /\ IF Approved(Record)
     THEN /\ connection' = thread.seen
          /\ thread' = [thread EXCEPT !.at = "invoke"] /\ UNCHANGED session
     ELSE Refused /\ UNCHANGED connection
  /\ UNCHANGED <<binding, installed, worker, changes, restarts>>

UseConfigured ==
  /\ At("resolve") /\ Mode = "direct"
  /\ IF Configured = Nobody
     THEN Unavailable /\ UNCHANGED connection
     ELSE /\ connection' = [endpoint |-> Configured, via |-> Nobody]
          /\ thread' = [thread EXCEPT !.at = "invoke"] /\ UNCHANGED session
  /\ UNCHANGED <<binding, installed, worker, changes, restarts>>

-----------------------------------------------------------------------------
(* invoke, and what compile and parse_event make of its answer.            *)

Answered(answer) ==
  CASE answer = "event" -> IF Parsing THEN Parsed(With("event"))
                           ELSE session' = [session EXCEPT !.state = "live"] /\ Done("idle")
    [] answer = "nothing" -> IF Parsing THEN Parsed(session.events) ELSE Fail
    [] OTHER -> IF Parsing THEN Abort ELSE Fail

Reached == binding.up /\ binding.endpoint = connection.endpoint

Invoke ==
  /\ At("invoke")
  /\ IF Reached THEN \E answer \in Answers : Answered(answer) ELSE Unavailable
  /\ UNCHANGED <<binding, installed, connection, worker, changes, restarts>>

-----------------------------------------------------------------------------
(* TrainingRuntime.submit and poll.                                        *)

Compile ==
  /\ At("idle") /\ session.state = "none" /\ Calls("compile")
  /\ UNCHANGED <<binding, installed, connection, session, worker, changes, restarts>>

\* What the worker has printed and flushed; all of it once it has exited.
Flushed == {n \in session.read .. worker.printed : worker.exited => n = worker.printed}

\* readlines stops within the file, and tell raises after that.
Overflows(n) == n > session.read + ChunkLimit

\* Mutant of ReadOutput: the offset is kept once the lines are parsed.
ReadOutputFromStart ==
  /\ At("idle") /\ session.state = "live"
  /\ \E n \in Flushed :
       IF Overflows(n) THEN UNCHANGED <<session, thread>>
       ELSE /\ session' = [session EXCEPT !.read = n, !.next = 1]
            /\ thread' = [Idle EXCEPT !.at = IF n = 0 THEN "exit" ELSE "line"]
  /\ UNCHANGED <<binding, installed, connection, worker, changes, restarts>>

\* read_new_output: all that is new, or an OSError, with which the pass ends and
\* the offset stays where it was.
ReadOutput ==
  /\ At("idle") /\ session.state = "live"
  /\ \E n \in Flushed :
       IF Overflows(n) THEN UNCHANGED <<session, thread>>
       ELSE /\ session' = [session EXCEPT !.read = n]
            /\ thread' = [Idle EXCEPT !.at = IF n = session.read THEN "exit" ELSE "line"]
  /\ UNCHANGED <<binding, installed, connection, worker, changes, restarts>>

ParseEvent ==
  /\ At("line") /\ Calls("parse")
  /\ UNCHANGED <<binding, installed, connection, session, worker, changes, restarts>>

\* executor.poll; a session that ended has its result collected.
ReadExit ==
  /\ At("exit") /\ thread' = [thread EXCEPT !.at = "idle"]
  /\ session' = IF worker.exited THEN [session EXCEPT !.state = "ended"] ELSE session
  /\ UNCHANGED <<binding, installed, connection, worker, changes, restarts>>

-----------------------------------------------------------------------------
(* The worker, the Package Runtime, and restarts.                          *)

Prints ==
  /\ session.state = "live" /\ ~worker.exited /\ worker.printed < MaxLines
  /\ worker' = [worker EXCEPT !.printed = @ + 1]
  /\ UNCHANGED <<binding, installed, connection, thread, session, changes, restarts>>

Exits ==
  /\ session.state = "live" /\ ~worker.exited /\ worker' = [worker EXCEPT !.exited = TRUE]
  /\ UNCHANGED <<binding, installed, connection, thread, session, changes, restarts>>

Changes ==
  /\ changes < MaxChanges /\ changes' = changes + 1
  /\ UNCHANGED <<connection, thread, session, worker, restarts>>

\* A binding comes up at an endpoint that the runtime chooses.
Activate ==
  /\ Changes /\ UNCHANGED installed
  /\ \E i \in installed, e \in Endpoints : binding' = [installation |-> i, endpoint |-> e, up |-> TRUE]

Deactivate == Changes /\ binding.up /\ binding' = [binding EXCEPT !.up = FALSE] /\ UNCHANGED installed

Uninstall ==
  /\ Changes /\ ~binding.up /\ UNCHANGED binding
  /\ \E i \in installed : installed' = installed \ {i}

\* restore_session starts a session over; without an execution there is none.
Restart ==
  /\ restarts < MaxRestarts /\ restarts' = restarts + 1
  /\ connection' = NoConnection /\ thread' = Idle
  /\ session' = CASE session.state = "live" -> [NoSession EXCEPT !.state = "live"]
                  [] session.state = "none" /\ ~At("idle") -> [session EXCEPT !.state = "failed"]
                  [] OTHER -> session
  /\ UNCHANGED <<binding, installed, worker, changes>>

Steps ==
  \/ Compile \/ ReadStatus \/ ReadInstallation \/ UseConfigured \/ Invoke
  \/ ReadOutput \/ ParseEvent \/ ReadExit

Next ==
  \/ Steps \/ Prints \/ Exits \/ Activate \/ Deactivate \/ Uninstall \/ Restart

Spec == Init /\ [][Next]_vars

FairSpec == Spec /\ WF_vars(Steps)

-----------------------------------------------------------------------------
(* Type correctness of the calls and of the session. *)
TypeOK ==
  /\ connection \in [endpoint : Endpoints \cup {Nobody}, via : Installations \cup {Nobody}]
  /\ thread.at \in {"idle", "resolve", "installation", "invoke", "line", "exit"}
  /\ session.read \in 0..worker.printed /\ session.next \in 1..(session.read + 1)
  /\ At("line") \/ (Parsing /\ (At("resolve") \/ At("invoke"))) => session.next <= session.read

(* Whatever the Package Runtime does between the two reads, the adapter    *)
(* keeps only an endpoint that an installation of the approved package,    *)
(* with exactly the approved capability, was running at.                   *)
ConnectedToTheApproved ==
  Mode = "package" /\ connection.endpoint # Nobody =>
    connection.via \in Llama /\ Capabilities[connection.via] = "exact"

(* No line becomes an event twice, and events are in the order of output.  *)
EventsAreInOrder ==
  \A m, n \in 1..Len(session.events) : m < n => session.events[m].line < session.events[n].line

\* The inductive invariant: an event is of a line before the next one, which
\* is at most one past what was read.
IInv ==
  /\ connection \in [endpoint : Endpoints \cup {Nobody}, via : Installations \cup {Nobody}]
  /\ binding \in [installation : Installations, endpoint : Endpoints, up : BOOLEAN]
  /\ installed \subseteq Installations
  /\ worker \in [printed : Nat, exited : BOOLEAN]
  /\ thread.at \in {"idle", "resolve", "installation", "invoke", "line", "exit"}
  /\ thread.seen \in [endpoint : Endpoints \cup {Nobody}, via : Installations \cup {Nobody}]
  /\ DOMAIN thread = {"at", "purpose", "seen"}
  /\ session \in [state : {"none", "live", "ended", "failed"}, read : Nat, next : Nat,
                  events : Seq([line : Nat, kind : {"log", "event"}])]
  /\ session.read <= worker.printed /\ 1 <= session.next /\ session.next <= session.read + 1
  /\ At("line") \/ (Parsing /\ thread.at \in {"resolve", "installation", "invoke"}) =>
       session.next <= session.read
  /\ \A m \in 1..Len(session.events) : session.events[m].line < session.next
  /\ EventsAreInOrder

\* There is more to read than readlines reads without a failure.
Swamped == Overflows(worker.printed)

(* An exit is observed, whatever becomes of the binding, of the plugin and *)
(* of the process, unless the output that is unread is too much for a      *)
(* poll: then no later one reads it either.                                *)
ReadableExitsAreObserved == worker.exited ~> session.state = "ended" \/ Swamped

(* Stated by docs/API.md:77, "RUNNING --> COMPLETED: Epochs Finished": a   *)
(* run whose worker has exited leaves RUNNING.  Polls read the output      *)
(* before they ask for the exit code.                                      *)
ExitsAreObserved == worker.exited ~> session.state = "ended"

=============================================================================
