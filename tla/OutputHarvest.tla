----------------------------- MODULE OutputHarvest -----------------------------
(***************************************************************************)
(* How what a worker prints becomes pages a client reads.                  *)
(*                                                                         *)
(* The worker appends records to a file of its Attempt.  TrainingRuntime   *)
(* reads the new ones into the session whenever the reconcile loop polls,  *)
(* the control plane saves the events it has seen with the Attempt, and a  *)
(* harvest copies what the table of ProductStore does not have yet.  The   *)
(* loop harvests events under the service lock; every GET harvests too,    *)
(* without it.  A harvest reads the stream, then the count of its rows,    *)
(* then appends the slice that follows: three steps.  The purge drops the  *)
(* diagnostics of a run that ended long ago, and a killed process loses    *)
(* the sessions, of which those of unfinished executions come back empty.  *)
(*                                                                         *)
(* Stream says which of the two streams of a run the model is about:       *)
(* "events" are saved with the Attempt and harvested by the loop as well,  *)
(* "diagnostics" are neither, and are the ones that are purged.            *)
(***************************************************************************)
EXTENDS Naturals, Sequences, FiniteSets

CONSTANTS
  Stream,       \* "events" or "diagnostics"
  Readers,      \* clients that page through the stream
  MaxAttempts,  \* bound: Attempts of the run
  MaxRecords,   \* bound: records a worker writes
  PageLimit,    \* rows of one page
  MaxCrashes    \* bound: kills of the Product process

HarvestAssumption ==
  /\ Stream \in {"events", "diagnostics"} /\ "loop" \notin Readers
  /\ MaxAttempts \in Nat \ {0} /\ MaxRecords \in Nat \ {0}
  /\ PageLimit \in Nat \ {0} /\ MaxCrashes \in Nat

VARIABLES
  file,      \* records the worker of each Attempt has written, and whether it exited
  session,   \* the session of each Attempt and how many records it holds
  attempt,   \* how many Attempts there are, which ended, events saved with each
  run,       \* whether the run is terminal, is in run_terminals, and since long
  table,     \* training_events or training_diagnostics of the run
  call,      \* what the loop and each client are doing
  client,    \* what each client has: its cursor, the rows, and "done"
  crashes    \* bound

vars == <<file, session, attempt, run, table, call, client, crashes>>

Attempts == 1..MaxAttempts
Loop == "loop"
Callers == {Loop} \cup Readers

Row == [attempt : Attempts, index : Nat, sequence : Nat \ {0}, record : 1..MaxRecords]

Idle == [at |-> "idle", attempt |-> 1, upto |-> 0, seen |-> 0, counted |-> 0, ended |-> FALSE]

NoSession == [state |-> "none", read |-> 0]

Init ==
  /\ file = [a \in Attempts |-> [written |-> 0, exited |-> FALSE]]
  /\ session = [a \in Attempts |-> IF a = 1 THEN [state |-> "live", read |-> 0] ELSE NoSession]
  /\ attempt = [count |-> 1, ended |-> {}, saved |-> [a \in Attempts |-> 0]]
  /\ run = [terminal |-> FALSE, recorded |-> FALSE, expired |-> FALSE]
  /\ table = {}
  /\ call = [c \in Callers |-> Idle]
  /\ client = [r \in Readers |-> [cursor |-> 0, rows |-> {}, done |-> FALSE]]
  /\ crashes = 0

At(c, point) == call[c].at = point
Goes(c, point) == call' = [call EXCEPT ![c].at = point]

Greatest(S) == CHOOSE x \in S \cup {0} : \A y \in S : y <= x

-----------------------------------------------------------------------------
(* The rows of the run, as the SQL statements of ProductStore see them. *)

RowsOf(a) == {row \in table : row.attempt = a}
Count(a) == Cardinality(RowsOf(a))
Sequences == {row.sequence : row \in table}

\* The row of the i-th new record of attempt a, of which `from` are skipped.
NewRow(a, from, i) ==
  [attempt |-> a, index |-> Count(a) + i - 1, sequence |-> Greatest(Sequences) + i,
   record |-> from + i]

\* Mutant of Appended: the caller's count is not looked at.
AppendedAgain(a, from, upto) == table \cup {NewRow(a, 0, i) : i \in 1..upto}

\* append_events, append_diagnostics: one transaction.
Appended(a, from, upto) == table \cup {NewRow(a, from, i) : i \in 1..(upto - from)}

\* list_events, list_diagnostics: the page that follows a sequence.
Page(after) ==
  {row \in table : /\ row.sequence > after
                   /\ Cardinality({r \in table : r.sequence \in (after + 1)..row.sequence})
                        <= PageLimit}

-----------------------------------------------------------------------------
(* The worker: one record, and its exit once every record is written. *)

Writes(a) ==
  /\ session[a].state = "live" /\ ~file[a].exited /\ file[a].written < MaxRecords
  /\ file' = [file EXCEPT ![a].written = @ + 1]
  /\ UNCHANGED <<session, attempt, run, table, call, client, crashes>>

Exits(a) ==
  /\ session[a].state = "live" /\ ~file[a].exited
  /\ file' = [file EXCEPT ![a].exited = TRUE]
  /\ UNCHANGED <<session, attempt, run, table, call, client, crashes>>

-----------------------------------------------------------------------------
(* The reconcile loop: poll, observe, harvest, read the run. *)

Newest == attempt.count

\* TrainingRuntime.poll first reads output, and never half a record.  (A poll that
\* finds more than it may read at once raises and does nothing: EngineConnection.)
ReadOutput ==
  /\ At(Loop, "idle") /\ session[Newest].state = "live"
  /\ \E n \in session[Newest].read .. file[Newest].written :
       session' = [session EXCEPT ![Newest].read = n]
  /\ Goes(Loop, "polled")
  /\ UNCHANGED <<file, attempt, run, table, client, crashes>>

\* Then it asks the executor for the exit code; an exit ends the session.
ReadExit ==
  /\ At(Loop, "polled")
  /\ session' = IF file[Newest].exited THEN [session EXCEPT ![Newest].state = "ended"]
                                       ELSE session
  /\ Goes(Loop, "observing")
  /\ UNCHANGED <<file, attempt, run, table, client, crashes>>

\* _result_metadata: the events of the session, if it has any.
Saves(saved, a) ==
  IF Stream = "events" /\ session[a].read > 0 THEN [saved EXCEPT ![a] = session[a].read]
                                              ELSE saved

BeginsHarvest(c) ==
  call' = [call EXCEPT ![c] = [Idle EXCEPT !.at = "harvest", !.upto = attempt.count]]

\* What a tick does after the control plane: events are harvested by the loop.
AfterTick ==
  IF Stream = "events" THEN BeginsHarvest(Loop) ELSE Goes(Loop, "harvested")

\* _observe_training_session: the observation and the events are one write.
Observe ==
  /\ At(Loop, "observing")
  /\ attempt' = [attempt EXCEPT
       !.ended = IF session[Newest].state = "ended" THEN @ \cup {Newest} ELSE @,
       !.saved = Saves(@, Newest)]
  /\ AfterTick
  /\ UNCHANGED <<file, session, run, table, client, crashes>>

\* apply_terminal_action, one tick later.
Finalize ==
  /\ At(Loop, "idle") /\ Newest \in attempt.ended /\ ~run.terminal
  /\ run' = [run EXCEPT !.terminal = TRUE]
  /\ AfterTick
  /\ UNCHANGED <<file, session, attempt, table, client, crashes>>

\* A tick that has nothing to do for the run.
EmptyTick ==
  /\ At(Loop, "idle") /\ (run.terminal \/ (session[Newest].state # "live" /\ Newest \notin attempt.ended))
  /\ AfterTick
  /\ UNCHANGED <<file, session, attempt, run, table, client, crashes>>

\* actions/resume: a new Attempt of a stopped run; its row in run_terminals
\* stays.  The service lock keeps the loop out.
Resume ==
  /\ At(Loop, "idle") /\ run.terminal /\ attempt.count < MaxAttempts
  /\ attempt' = [attempt EXCEPT !.count = @ + 1]
  /\ session' = [session EXCEPT ![attempt.count + 1] = [state |-> "live", read |-> 0]]
  /\ run' = [run EXCEPT !.terminal = FALSE]
  /\ UNCHANGED <<file, table, call, client, crashes>>

-----------------------------------------------------------------------------
(* _harvest_events and _harvest_diagnostics, attempt by attempt. *)

\* GET events, GET diagnostics and the pages of the event stream.
Ask(r) ==
  /\ At(r, "idle") /\ ~client[r].done
  /\ BeginsHarvest(r)
  /\ UNCHANGED <<file, session, attempt, run, table, client, crashes>>

HarvestEnds(c) ==
  /\ At(c, "harvest") /\ call[c].attempt > call[c].upto
  /\ Goes(c, "harvested")
  /\ UNCHANGED <<file, session, attempt, run, table, client, crashes>>

\* The longer of the session's stream and the one saved with the Attempt.
LongerStream(a) ==
  IF attempt.saved[a] > session[a].read THEN attempt.saved[a] ELSE session[a].read

ReadStream(c) ==
  /\ At(c, "harvest") /\ call[c].attempt <= call[c].upto
  /\ call' = [call EXCEPT ![c].at = "counting", ![c].seen = LongerStream(call[c].attempt)]
  /\ UNCHANGED <<file, session, attempt, run, table, client, crashes>>

\* event_count, diagnostics_count.
CountRows(c) ==
  /\ At(c, "counting")
  /\ call' = [call EXCEPT ![c].at = "appending", ![c].counted = Count(call[c].attempt)]
  /\ UNCHANGED <<file, session, attempt, run, table, client, crashes>>

AppendRows(c) ==
  /\ At(c, "appending")
  /\ table' = IF call[c].counted < call[c].seen
              THEN Appended(call[c].attempt, call[c].counted, call[c].seen) ELSE table
  /\ call' = [call EXCEPT ![c].at = "harvest", ![c].attempt = @ + 1]
  /\ UNCHANGED <<file, session, attempt, run, client, crashes>>

\* get_run: a terminal run is recorded, and keeps the time it was first seen.
ReadRun(c) ==
  /\ At(c, "harvested")
  /\ run' = [run EXCEPT !.recorded = @ \/ run.terminal]
  /\ call' = [call EXCEPT ![c] = IF c = Loop THEN Idle
                                 ELSE [@ EXCEPT !.at = "listing", !.ended = run.terminal]]
  /\ UNCHANGED <<file, session, attempt, table, client, crashes>>

\* The page, and for a stream the closing frame: terminal, and nothing to list.
List(r) ==
  /\ At(r, "listing")
  /\ LET page == Page(client[r].cursor) IN
       client' = [client EXCEPT
         ![r].cursor = IF page = {} THEN @ ELSE Greatest({row.sequence : row \in page}),
         ![r].rows = @ \cup page,
         ![r].done = call[r].ended /\ page = {}]
  /\ call' = [call EXCEPT ![r] = Idle]
  /\ UNCHANGED <<file, session, attempt, run, table, crashes>>

-----------------------------------------------------------------------------
(* Retention and restart. *)

\* Time passes: the row in run_terminals falls out of the window.
Expire ==
  /\ Stream = "diagnostics" /\ run.recorded /\ ~run.expired
  /\ run' = [run EXCEPT !.expired = TRUE]
  /\ UNCHANGED <<file, session, attempt, table, call, client, crashes>>

\* _terminal_run_ids_before.
Purgeable == run.recorded /\ run.expired

\* purge_expired_diagnostics, at start and every day.
Purge ==
  /\ Stream = "diagnostics" /\ Purgeable
  /\ table' = {}
  /\ UNCHANGED <<file, session, attempt, run, call, client, crashes>>

\* Sessions of executions whose receipt is still open are restored, and read
\* their file again from the start.  Clients reconnect with their cursor.
Crash ==
  /\ crashes < MaxCrashes
  /\ crashes' = crashes + 1
  /\ session' = [a \in Attempts |-> IF session[a].state = "live" THEN [session[a] EXCEPT !.read = 0]
                                                                 ELSE NoSession]
  /\ call' = [c \in Callers |-> Idle]
  /\ UNCHANGED <<file, attempt, run, table, client>>

LoopStep ==
  \/ ReadOutput \/ ReadExit \/ Observe \/ Finalize \/ EmptyTick
  \/ HarvestEnds(Loop) \/ ReadStream(Loop) \/ CountRows(Loop) \/ AppendRows(Loop)
  \/ ReadRun(Loop)

ReaderStep(r) ==
  \/ Ask(r) \/ HarvestEnds(r) \/ ReadStream(r) \/ CountRows(r) \/ AppendRows(r)
  \/ ReadRun(r) \/ List(r)

Next ==
  \/ LoopStep \/ \E r \in Readers : ReaderStep(r)
  \/ \E a \in Attempts : Writes(a) \/ Exits(a)
  \/ Resume \/ Expire \/ Purge \/ Crash

Spec == Init /\ [][Next]_vars /\ WF_vars(LoopStep)

-----------------------------------------------------------------------------
(* Properties. *)

TypeOK ==
  /\ file \in [Attempts -> [written : 0..MaxRecords, exited : BOOLEAN]]
  /\ session \in [Attempts -> [state : {"none", "live", "ended"}, read : 0..MaxRecords]]
  /\ attempt \in [count : Attempts, ended : SUBSET Attempts,
                  saved : [Attempts -> 0..MaxRecords]]
  /\ run \in [terminal : BOOLEAN, recorded : BOOLEAN, expired : BOOLEAN]
  /\ \A row \in table : row \in Row
  /\ call \in [Callers -> [at : {"idle", "polled", "observing", "harvest", "counting",
                                 "appending", "harvested", "listing"},
                           attempt : 1..(MaxAttempts + 1), upto : 0..MaxAttempts,
                           seen : 0..MaxRecords, counted : Nat, ended : BOOLEAN]]
  /\ client \in [Readers -> [cursor : Nat, rows : SUBSET Row, done : BOOLEAN]]
  /\ crashes \in 0..MaxCrashes

\* The sequences of a run number its rows 1, 2, 3, ... across Attempts and
\* callers, whoever harvests (append_events: one counter per run).
SequencesAreDense ==
  Sequences = 1..Cardinality(table)

\* A client that follows next_sequence gets every row up to its cursor, however
\* many callers append meanwhile: no row is committed behind a cursor.
ReadersMissNoRow ==
  \A r \in Readers : client[r].rows = {row \in table : row.sequence <= client[r].cursor}

\* The rows of an Attempt are a prefix of what its worker wrote, each record
\* once and in order: no copy and no hole, over polls, Attempts and restarts.
RowsArePrefix ==
  \A a \in Attempts : {<<row.index + 1, row.record>> : row \in RowsOf(a)} =
                        {<<n, n>> : n \in 1..Count(a)}

\* The rows of a run over polls, pages, Attempts and kills: dense, none missed by a
\* client that pages through events, and each record once if the loop alone harvests.
HarvestedRowsAreSound ==
  /\ TypeOK /\ SequencesAreDense
  /\ Stream = "events" => ReadersMissNoRow
  /\ Stream = "events" /\ Readers = {} => RowsArePrefix

\* The purge takes the rows of a run that is over, never of one that is active.
\* Stated by the docstring of purge_expired_diagnostics (product_store.py): "Drop
\* persisted diagnostics for terminal runs past the retention window."
OnlyEndedRunsArePurged == table # {} /\ table' = {} => run.terminal
PurgesOnlyEnded == [][OnlyEndedRunsArePurged]_vars

\* The closing frame of an event stream comes after as many rows of each Attempt
\* as it saved events, although the client harvested before it learned that the
\* run is over and the loop harvests after it has saved.
DoneMeansAllRead ==
  \A r \in Readers : client'[r].done /\ ~client[r].done /\ run.terminal =>
    \A a \in 1..attempt.count :
      Cardinality({row \in client'[r].rows : row.attempt = a}) >= attempt.saved[a]

\* Every event saved with an ended Attempt becomes a row, also when the process
\* is killed before it is harvested and the session that saw it is gone.
SavedEventsAreListed ==
  \A a \in Attempts : \A n \in 1..MaxRecords :
    a \in attempt.ended /\ attempt.saved[a] >= n ~> Count(a) >= n

-----------------------------------------------------------------------------
(* The inductive invariant.                                                *)

\* A number is of one row.
NumbersOK ==
  /\ IsFiniteSet(table) /\ SequencesAreDense
  /\ \A p, q \in table : p.sequence = q.sequence => p = q

\* A harvest that has looked at an Attempt is not past the last one, and only the
\* loop polls.
CallsOK ==
  \A c \in Callers :
    /\ call[c].at \in {"counting", "appending"} => call[c].attempt <= call[c].upto
    /\ call[c].at \in {"polled", "observing"} => c = Loop
    /\ call[c].at = "listing" => c # Loop

\* Events are not purged, so a cursor stays behind the last of them.
PagesOK ==
  Stream = "events" =>
    ReadersMissNoRow /\ \A r \in Readers : client[r].cursor <= Cardinality(table)

\* The loop alone has the count it has read until it appends what follows.
PrefixOK ==
  Stream = "events" /\ Readers = {} =>
    /\ \A a \in Attempts :
         /\ {row.record : row \in RowsOf(a)} = 1..Count(a)
         /\ \A row \in RowsOf(a) : row.record = row.index + 1
    /\ call[Loop].at = "appending" => call[Loop].counted = Count(call[Loop].attempt)

\* The loop still has to append what was saved with an Attempt.
Pending(a) ==
  /\ call[Loop].at \in {"harvest", "counting", "appending"}
  /\ a \in call[Loop].attempt .. call[Loop].upto
  /\ call[Loop].at # "harvest" /\ call[Loop].attempt = a => attempt.saved[a] <= call[Loop].seen
  /\ call[Loop].at = "appending" /\ call[Loop].attempt = a => call[Loop].counted <= Count(a)

\* A process that is not killed appends what it has saved before the run is over.
SavedOK ==
  Stream = "events" /\ MaxCrashes = 0 =>
    /\ \A a \in Attempts : attempt.saved[a] <= Count(a) \/ Pending(a)
    /\ \A a \in attempt.ended : a <= attempt.count /\ session[a].state # "live"
    /\ run.terminal => /\ Newest \in attempt.ended /\ ~At(Loop, "polled") /\ ~At(Loop, "observing")
                       /\ \A a \in Attempts : attempt.saved[a] <= Count(a)

IInv == TypeOK /\ NumbersOK /\ CallsOK /\ PagesOK /\ PrefixOK /\ SavedOK

=============================================================================
