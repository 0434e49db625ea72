---------------------------- MODULE DiagnosticsOffset ----------------------------
(***************************************************************************)
(* How the executor reads the files that a worker appends to               *)
(* (KernelTrainingExecutor.read_new_diagnostics and read_new_output).  The *)
(* files grow by bytes, a read is decoded, and the offset that it leaves   *)
(* is where the next read begins.                                          *)
(*                                                                         *)
(* A line is an opening character, characters that may be written in       *)
(* several bytes, and a newline.  A byte is named by its line, and is      *)
(* the first of a line ("open"), of another character ("first"), one that  *)
(* goes on with a character ("more"), or the newline ("end").  Both files  *)
(* have the same lines; a record of the diagnostics can be parsed when it  *)
(* is whole.                                                               *)
(***************************************************************************)
EXTENDS Naturals, Sequences, FiniteSets, SequencesExt

CONSTANTS
  Widths,   \* bytes of one character
  Lengths,  \* characters of a line, besides the first
  MaxLines, \* bound
  ChunkSize, \* characters of one read of the diagnostics at most
  ReadHint   \* characters of the output that the hint of readlines allows

\* A line fits into one read.
OffsetAssumption ==
  /\ Widths \subseteq Nat \ {0} /\ Lengths \subseteq Nat /\ MaxLines \in Nat /\ ReadHint \in Nat
  /\ \A n \in Lengths : n + 2 <= ChunkSize

VARIABLES
  lines,   \* the lines that are written: characters, bytes and place of each
  written, \* bytes that are on disk
  diagnostics, \* diagnosticsOffset, and the records that were returned
  output       \* logOffset, and the pieces that were returned, by their ends

vars == <<lines, written, diagnostics, output>>

Bytes(line) == line.width * line.length + 2

\* Offset of the end of the first n lines.
EndOf(n) == IF n = 0 THEN 0 ELSE lines[n].from + Bytes(lines[n])

\* Line of the byte at an offset, and which byte it is.
LineAt(b) == CHOOSE n \in DOMAIN lines : EndOf(n - 1) <= b /\ b < EndOf(n)

Byte(b) ==
  LET n == LineAt(b)
      within == b - EndOf(n - 1)
  IN CASE within = 0 -> "open"
       [] b = EndOf(n) - 1 -> "end"
       [] OTHER -> IF (within - 1) % lines[n].width = 0 THEN "first" ELSE "more"

Init ==
  /\ lines = <<>> /\ written = 0
  /\ diagnostics = [offset |-> 0, records |-> <<>>]
  /\ output = [offset |-> 0, pieces |-> <<>>]

-----------------------------------------------------------------------------
(* The worker.                                                             *)

\* _record: a line is handed to the file.
Begin ==
  /\ Len(lines) < MaxLines /\ written = EndOf(Len(lines))
  /\ \E w \in Widths, n \in Lengths :
       lines' = Append(lines, [width |-> w, length |-> n, from |-> written])
  /\ UNCHANGED <<written, diagnostics, output>>

\* Some bytes of it reach the disk.
Flush ==
  /\ written' \in (written + 1)..EndOf(Len(lines))
  /\ UNCHANGED <<lines, diagnostics, output>>

-----------------------------------------------------------------------------
(* The executor.                                                           *)

\* The bytes at which characters begin when decoding begins at an offset: bytes
\* that go on with a character that was begun before it are one each.
Characters(from) ==
  {b \in from..(written - 1) :
     Byte(b) # "more" \/ \A p \in from..b : Byte(p) = "more"}

Position(from, b) == Cardinality({c \in Characters(from) : c <= b})

\* The newlines of one chunk.
Newlines(from) == {b \in Characters(from) : Byte(b) = "end" /\ Position(from, b) <= ChunkSize}

\* The records that can be parsed between an offset and a newline: half a record
\* is none.  They lie together.  (splitlines splits at other separators too; here
\* no line has one.)
WholeRecords(from, to) ==
  LET whole == {n \in DOMAIN lines : from <= EndOf(n - 1) /\ EndOf(n) <= to + 1}
  IN [i \in 1..Cardinality(whole) |-> Min(whole) + i - 1]

\* The offset moves by the characters up to the newline.
Advanced(from, b) == from + Position(from, b)

\* read_new_diagnostics; what cannot be parsed is skipped.
ReadDiagnostics ==
  /\ Newlines(diagnostics.offset) # {}
  /\ LET from == diagnostics.offset
         boundary == Max(Newlines(from))
     IN diagnostics' = [offset |-> Advanced(from, boundary),
                        records |-> diagnostics.records \o WholeRecords(from, boundary)]
  /\ UNCHANGED <<lines, written, output>>

\* read_new_output: everything up to the end of the file, whose position is told
\* in bytes.  When there is more than the hint allows, readlines stops before
\* the end, tell raises, and neither the offset nor the caller has anything of it.
ReadOutput ==
  /\ output.offset < written /\ Position(output.offset, written - 1) <= ReadHint
  /\ LET ends == {b + 1 : b \in {c \in output.offset..(written - 1) : Byte(c) = "end"}} \cup {written}
     IN output' = [offset |-> written, pieces |-> output.pieces \o SetToSortSeq(ends, <)]
  /\ UNCHANGED <<lines, written, diagnostics>>

Next == Begin \/ Flush \/ ReadDiagnostics \/ ReadOutput

Spec == Init /\ [][Next]_vars

-----------------------------------------------------------------------------
(* Type correctness of the offsets.                                        *)
TypeOK ==
  /\ lines \in Seq([width : Widths, length : Lengths, from : Nat])
  /\ written \in 0..EndOf(Len(lines))
  /\ diagnostics.offset \in 0..written /\ output.offset \in 0..written
  /\ \A i \in DOMAIN diagnostics.records : diagnostics.records[i] \in DOMAIN lines

(* Stated by the docstring of read_new_diagnostics: it returns the new     *)
(* records, each of them once and in order, and none is dropped.           *)
RecordsAreNew ==
  diagnostics.records = [i \in DOMAIN diagnostics.records |-> i]

\* The inductive invariant, while a character is one byte: the offset is the end
\* of the last record that was returned.
IInv ==
  /\ lines \in Seq([width : Widths, length : Lengths, from : Nat])
  /\ \A n \in 1..Len(lines) : lines[n].from = EndOf(n - 1)
  /\ \A i, j \in 0..Len(lines) : i < j => EndOf(i) < EndOf(j)
  /\ written \in 0..EndOf(Len(lines)) /\ output.offset \in 0..written
  /\ diagnostics.offset <= written
  /\ \E k \in 0..Len(lines) :
       diagnostics.offset = EndOf(k) /\ diagnostics.records = [i \in 1..k |-> i]

=============================================================================
