------------------------------ MODULE WorkerOutput ------------------------------
(***************************************************************************)
(* What a trainer prints, on its way to the files of the worker            *)
(* (training_worker.py): two pipes, a thread for each that puts its lines  *)
(* into one queue, and the writer thread of DiagnosticsSink, which appends *)
(* to the diagnostics and to runtime.log, of which only the first is kept  *)
(* here, for they get the same lines.  The main thread waits for the       *)
(* trainer, joins the readers and the writer for a while, and records the  *)
(* completion; what the threads have not done by then stays undone.        *)
(*                                                                         *)
(* A line is its stream and its number; the budget counts records.         *)
(***************************************************************************)
EXTENDS Naturals, Sequences

CONSTANTS
  MaxLines,  \* bound: lines of each stream
  PipeSize,  \* lines that a pipe holds
  Limit,     \* records of the budget
  Rare,      \* what may happen: "slow" disk, "full" disk, "child" of the trainer, "kill"
  MaxFaults  \* bound: files that cannot be opened or written, trainers that do not start

OutputAssumption ==
  /\ MaxLines \in Nat /\ PipeSize \in Nat \ {0} /\ Limit \in Nat /\ MaxFaults \in Nat
  /\ Rare \subseteq {"slow", "full", "child", "kill"}

VARIABLES
  trainer, \* "none", "running" or "exited"
  plan,    \* lines that the trainer prints before it exits
  printed, \* lines that went into each pipe
  held,    \* the pipes that a child of the trainer keeps open
  pump,    \* the readers: "pumping" or "ended"
  pumped,  \* lines they have taken
  queue,
  sink,    \* the writer: where it is, the next sequence, what it has counted
  file,    \* diagnostics.ndjson
  marked,  \* diagnostics.degraded
  main,    \* where the main thread is
  faults

vars == <<trainer, plan, printed, held, pump, pumped, queue, sink, file, marked, main, faults>>

Streams == {"stdout", "stderr"}
End == [stream |-> "end", line |-> 0]

Init ==
  /\ trainer = "none" /\ plan \in [Streams -> 0..MaxLines] /\ held = {}
  /\ printed = [s \in Streams |-> 0] /\ pumped = [s \in Streams |-> 0]
  /\ pump = [s \in Streams |-> "pumping"] /\ queue = <<>>
  /\ sink = [at |-> "opening", sequence |-> 0, counted |-> 0, noticed |-> FALSE]
  /\ file = <<>> /\ marked = FALSE
  /\ main = "launch" /\ faults = 0

Alive == main \notin {"done", "killed"}
Fails == faults < MaxFaults /\ faults' = faults + 1
Works == UNCHANGED faults

\* _mark_degraded; on a full disk it may fail as well.
Mark == marked' \in {TRUE} \cup IF "full" \in Rare THEN {marked} ELSE {}

-----------------------------------------------------------------------------
(* The trainer, and the children it may leave behind.                      *)

Launch ==
  /\ main = "launch"
  /\ \/ Works /\ trainer' = "running" /\ main' = "wait"
     \/ Fails /\ main' = "close again" /\ UNCHANGED trainer
  /\ UNCHANGED <<plan, printed, held, pump, pumped, queue, sink, file, marked>>

\* A write waits while the pipe is full.
Prints(s) ==
  /\ Alive /\ printed[s] - pumped[s] < PipeSize
  /\ \/ trainer = "running" /\ printed[s] < plan[s]
     \/ s \in held /\ printed[s] < MaxLines
  /\ printed' = [printed EXCEPT ![s] = @ + 1]
  /\ UNCHANGED <<trainer, plan, held, pump, pumped, queue, sink, file, marked, main, faults>>

Exit ==
  /\ Alive /\ trainer = "running" /\ printed = plan
  /\ trainer' = "exited"
  /\ held' \in IF "child" \in Rare THEN SUBSET Streams ELSE {{}}
  /\ UNCHANGED <<plan, printed, pump, pumped, queue, sink, file, marked, main, faults>>

ChildExits ==
  /\ Alive /\ held # {} /\ held' = {}
  /\ UNCHANGED <<trainer, plan, printed, pump, pumped, queue, sink, file, marked, main, faults>>

-----------------------------------------------------------------------------
(* _pump, one thread for each stream.                                      *)

\* Mutant of Pump: one thread reads one pipe after the other.
PumpInTurn(s) ==
  /\ Alive /\ pump[s] = "pumping" /\ pumped[s] < printed[s]
  /\ s = "stderr" => pump["stdout"] = "ended"
  /\ pumped' = [pumped EXCEPT ![s] = @ + 1]
  /\ queue' = Append(queue, [stream |-> s, line |-> pumped'[s]])
  /\ UNCHANGED <<trainer, plan, printed, held, pump, sink, file, marked, main, faults>>

Pump(s) ==
  /\ Alive /\ pump[s] = "pumping" /\ pumped[s] < printed[s]
  /\ pumped' = [pumped EXCEPT ![s] = @ + 1]
  /\ queue' = Append(queue, [stream |-> s, line |-> pumped'[s]])
  /\ UNCHANGED <<trainer, plan, printed, held, pump, sink, file, marked, main, faults>>

PumpEnds(s) ==
  /\ Alive /\ pump[s] = "pumping" /\ pumped[s] = printed[s]
  /\ trainer = "exited" /\ s \notin held
  /\ pump' = [pump EXCEPT ![s] = "ended"]
  /\ UNCHANGED <<trainer, plan, printed, held, pumped, queue, sink, file, marked, main, faults>>

-----------------------------------------------------------------------------
(* DiagnosticsSink._drain.                                                 *)

Open ==
  /\ Alive /\ sink.at = "opening"
  /\ \/ Works /\ sink' = [sink EXCEPT !.at = "writing"] /\ UNCHANGED marked
     \/ Fails /\ sink' = [sink EXCEPT !.at = "consuming"] /\ Mark
  /\ UNCHANGED <<trainer, plan, printed, held, pump, pumped, queue, file, main>>

Takes(at) == Alive /\ sink.at = at /\ queue # <<>> /\ queue' = Tail(queue)

Ends ==
  /\ Takes("writing") \/ Takes("consuming")
  /\ Head(queue) = End /\ sink' = [sink EXCEPT !.at = "ended"]
  /\ UNCHANGED <<trainer, plan, printed, held, pump, pumped, file, marked, main, faults>>

\* _consume_without_writing.
Discard ==
  /\ Takes("consuming") /\ Head(queue) # End
  /\ UNCHANGED <<trainer, plan, printed, held, pump, pumped, sink, file, marked, main, faults>>

OverBudget == sink.counted >= Limit

Record == [stream |-> Head(queue).stream, line |-> Head(queue).line, sequence |-> sink.sequence]
Notice == [stream |-> "combined", line |-> 0, sequence |-> sink.sequence]

\* The record is numbered first; either file may fail.
Write ==
  /\ Takes("writing") /\ Head(queue) # End /\ ~OverBudget
  /\ \/ /\ Works /\ file' = Append(file, Record)
        /\ sink' = [sink EXCEPT !.sequence = @ + 1, !.counted = @ + 1] /\ UNCHANGED marked
     \/ /\ Fails /\ Mark
        /\ file' \in {file, Append(file, Record)}
        /\ sink' = [sink EXCEPT !.sequence = @ + 1]
  /\ UNCHANGED <<trainer, plan, printed, held, pump, pumped, main>>

\* Over the budget lines are taken and dropped; the first leaves a notice.
Exceed ==
  /\ Takes("writing") /\ Head(queue) # End /\ OverBudget
  /\ IF sink.noticed
     THEN UNCHANGED <<sink, marked, file, faults>>
     ELSE /\ sink' = [sink EXCEPT !.noticed = TRUE] /\ Mark
          /\ \/ Works /\ file' = Append(file, Notice)
             \/ Fails /\ UNCHANGED file
  /\ UNCHANGED <<trainer, plan, printed, held, pump, pumped, main>>

-----------------------------------------------------------------------------
(* The main thread.                                                        *)

Goes(from, to) == main = from /\ main' = to

\* Mutant of Waits: the readers are not joined.
WaitsOnly ==
  /\ trainer = "exited" /\ Goes("wait", "close")
  /\ UNCHANGED <<trainer, plan, printed, held, pump, pumped, queue, sink, file, marked, faults>>

Waits ==
  /\ trainer = "exited" /\ Goes("wait", "join stdout")
  /\ UNCHANGED <<trainer, plan, printed, held, pump, pumped, queue, sink, file, marked, faults>>

\* A reader is waited for as long as its pipe may bring something soon.
JoinReaders ==
  /\ \/ (pump["stdout"] = "ended" \/ "stdout" \in held) /\ Goes("join stdout", "join stderr")
     \/ (pump["stderr"] = "ended" \/ "stderr" \in held) /\ Goes("join stderr", "close")
  /\ UNCHANGED <<trainer, plan, printed, held, pump, pumped, queue, sink, file, marked, faults>>

\* close.
Close ==
  /\ Goes("close", "joining") \/ Goes("close again", "joining again")
  /\ queue' = Append(queue, End)
  /\ UNCHANGED <<trainer, plan, printed, held, pump, pumped, sink, file, marked, faults>>

JoinWriter ==
  /\ sink.at = "ended" \/ "slow" \in Rare
  /\ Goes("joining", "close again") \/ Goes("joining again", "complete")
  /\ UNCHANGED <<trainer, plan, printed, held, pump, pumped, queue, sink, file, marked, faults>>

\* completion.json is there, and the process ends with its threads.
Complete ==
  /\ Goes("complete", "done")
  /\ UNCHANGED <<trainer, plan, printed, held, pump, pumped, queue, sink, file, marked, faults>>

\* The lease is released, or the Kernel is gone.
Kill ==
  /\ "kill" \in Rare /\ Alive /\ main' = "killed"
  /\ UNCHANGED <<trainer, plan, printed, held, pump, pumped, queue, sink, file, marked, faults>>

Trainer == Launch \/ Exit \/ \E s \in Streams : Prints(s)
Reader(s) == Pump(s) \/ PumpEnds(s)
Writer == Open \/ Ends \/ Discard \/ Write \/ Exceed
Main == Waits \/ JoinReaders \/ Close \/ JoinWriter \/ Complete

Next == Trainer \/ ChildExits \/ (\E s \in Streams : Reader(s)) \/ Writer \/ Main \/ Kill

Spec == Init /\ [][Next]_vars

\* Every thread runs, and the trainer goes on while it is not blocked.
FairSpec ==
  /\ Spec /\ WF_vars(Trainer) /\ WF_vars(Writer) /\ WF_vars(Main)
  /\ \A s \in Streams : WF_vars(Reader(s))

-----------------------------------------------------------------------------
(* Type correctness of the pipes, the sink and the main thread.            *)
TypeOK ==
  /\ trainer \in {"none", "running", "exited"} /\ held \subseteq Streams
  /\ \A s \in Streams : /\ printed[s] \in 0..MaxLines /\ pumped[s] \in 0..printed[s]
                        /\ pump[s] \in {"pumping", "ended"}
  /\ sink.at \in {"opening", "writing", "consuming", "ended"}
  /\ sink.counted \in 0..Limit /\ sink.sequence \in Nat /\ marked \in BOOLEAN

Kept(lines, s, i) == \E r \in DOMAIN lines : lines[r].stream = s /\ lines[r].line = i

(* Both streams are in the order in which they were printed, and no two    *)
(* records have one number, whatever could not be written.                 *)
RecordsAreInOrder ==
  \A i, j \in DOMAIN file : i < j =>
    /\ file[i].sequence < file[j].sequence
    /\ file[i].stream = file[j].stream => file[i].line < file[j].line

(* The notice of the budget is the last record of the file.                *)
NoticeIsLast == \A i \in DOMAIN file : file[i].stream = "combined" => i = Len(file)

(* Stated by the docstring of diagnostics_degraded: when a worker that has *)
(* completed is not marked it has kept every line.                         *)
LossIsMarked ==
  main = "done" /\ ~marked => \A s \in Streams : \A i \in 1..printed[s] : Kept(file, s, i)

(* No trainer is blocked on a full pipe for good: the worker completes.    *)
WorkerCompletes == <>(~Alive)

\* The inductive invariant of the order: a line is behind those that are
\* written and queued before it, and nothing follows the notice.
OrderInv ==
  /\ trainer \in {"none", "running", "exited"} /\ held \subseteq Streams /\ marked \in BOOLEAN
  /\ plan \in [Streams -> 0..MaxLines] /\ printed \in [Streams -> 0..MaxLines]
  /\ pumped \in [Streams -> Nat] /\ \A s \in Streams : pumped[s] <= printed[s]
  /\ pump \in [Streams -> {"pumping", "ended"}]
  /\ sink \in [at : {"opening", "writing", "consuming", "ended"}, sequence : Nat,
               counted : 0..Limit, noticed : BOOLEAN]
  /\ queue \in Seq({End} \cup [stream : Streams, line : Nat])
  /\ file \in Seq([stream : Streams \cup {"combined"}, line : Nat, sequence : Nat])
  /\ \A i \in 1..Len(queue) : queue[i] # End =>
       queue[i].line > 0 /\ queue[i].line <= pumped[queue[i].stream]
  /\ \A i, j \in 1..Len(queue) :
       i < j /\ queue[i].stream = queue[j].stream /\ queue[i] # End => queue[i].line < queue[j].line
  /\ \A i \in 1..Len(file) :
       IF file[i].stream = "combined"
       THEN sink.noticed
       ELSE file[i].line <= pumped[file[i].stream] /\ file[i].sequence < sink.sequence
  /\ \A i \in 1..Len(file), j \in 1..Len(queue) :
       file[i].stream = queue[j].stream => file[i].line < queue[j].line
  /\ sink.noticed => OverBudget
  /\ RecordsAreInOrder /\ NoticeIsLast

\* No line can be printed or taken any more.
Closed == main # "launch" /\ trainer # "running" /\ \A s \in Streams : pumped[s] = printed[s]

\* What the threads know of each other, while no child keeps a pipe.
PhasesOK ==
  /\ held = {}
  /\ trainer = "none" => \A s \in Streams : printed[s] = 0
  /\ main = "launch" => trainer = "none"
  /\ main \in {"join stdout", "join stderr"} => trainer = "exited"
  /\ \A s \in Streams : pump[s] = "ended" => pumped[s] = printed[s] /\ trainer = "exited"
  /\ main = "join stderr" => pump["stdout"] = "ended"
  /\ main \in {"close", "joining", "close again", "joining again", "complete", "done"} => Closed

\* The end is queued when nothing comes any more, and behind every line.
EndsOK ==
  /\ sink.at = "ended" \/ (\E i \in 1..Len(queue) : queue[i] = End) => Closed
  /\ \A i, j \in 1..Len(queue) : i < j /\ queue[i] = End => queue[j] = End
  /\ sink.at = "ended" => \A i \in 1..Len(queue) : queue[i] = End
  /\ main \in {"complete", "done"} => sink.at = "ended"

MarksOK == sink.at = "consuming" \/ sink.noticed => marked

\* What was taken is kept or queued, or a loss is marked.
LinesOK ==
  ~marked => \A s \in Streams : \A i \in 1..pumped[s] :
    \/ \E r \in 1..Len(file) : file[r].stream = s /\ file[r].line = i
    \/ \E j \in 1..Len(queue) : queue[j].stream = s /\ queue[j].line = i

\* The inductive invariant of what is lost, while nothing rare happens but a kill.
LossInv == PhasesOK /\ EndsOK /\ MarksOK /\ LinesOK

=============================================================================
