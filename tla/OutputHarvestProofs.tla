-------------------------- MODULE OutputHarvestProofs --------------------------
(***************************************************************************)
(* Proofs about OutputHarvest, for any number of clients, Attempts,        *)
(* records and kills and any length of a page: the inductive invariant     *)
(* IInv, and what the runs of it check.                                    *)
(*                                                                         *)
(* The sequences of a run's rows are always 1..N.  That is why an append   *)
(* adds just as many rows as it has new records, why a page is the rows    *)
(* between two numbers, and why an empty page means the end of the table.  *)
(***************************************************************************)
EXTENDS OutputHarvest, FiniteSetTheorems, TLAPS

-----------------------------------------------------------------------------
(* Counting rows by their sequences.                                       *)

Total == Cardinality(table)

\* Rows with one number each, all of m+1 .. m+k, are k rows.
LEMMA RowsAreCounted ==
  ASSUME NEW T, NEW m \in Nat, NEW k \in Nat,
         {row.sequence : row \in T} = (m + 1) .. (m + k),
         \A p, q \in T : p.sequence = q.sequence => p = q
  PROVE  IsFiniteSet(T) /\ Cardinality(T) = k
<1> DEFINE numbered == [n \in 1..k |-> CHOOSE row \in T : row.sequence = m + n]
<1>1. \A n \in 1..k : numbered[n] \in T /\ numbered[n].sequence = m + n
    <2>1. SUFFICES ASSUME NEW n \in 1..k PROVE \E row \in T : row.sequence = m + n
      OBVIOUS
    <2>2. m + n \in (m + 1) .. (m + k)
      OBVIOUS
    <2>3. QED
      BY <2>2
<1>2. \A row \in T : \E n \in 1..k : numbered[n] = row
    <2>1. SUFFICES ASSUME NEW row \in T PROVE \E n \in 1..k : numbered[n] = row
      OBVIOUS
    <2>2. row.sequence \in (m + 1) .. (m + k)
      OBVIOUS
    <2>3. PICK n \in 1..k : row.sequence = m + n
        <3>1. row.sequence - m \in 1..k /\ row.sequence = m + (row.sequence - m)
          BY <2>2
        <3>2. QED
          BY <3>1
    <2>4. QED
      BY <1>1, <2>3
<1> HIDE DEF numbered
<1>3. DOMAIN numbered = 1..k /\ numbered \in [1..k -> T]
  BY <1>1 DEF numbered
<1>4. \A i, n \in 1..k : numbered[i] = numbered[n] => i = n
    <2>1. SUFFICES ASSUME NEW i \in 1..k, NEW n \in 1..k, numbered[i] = numbered[n] PROVE i = n
      OBVIOUS
    <2>2. m + i = m + n
      BY <1>1, <2>1
    <2>3. QED
      BY <2>2
<1>5. numbered \in Bijection(1..k, T)
  BY <1>2, <1>3, <1>4 DEF Bijection, Injection, Surjection, IsInjective
<1>6. ExistsBijection(1..k, T)
  BY <1>5 DEF ExistsBijection
<1>7. QED
  BY <1>6, FS_CountingElements, FS_NatBijection

\* The greatest of a run of numbers is its last.
LEMMA GreatestOfRun ==
  ASSUME NEW m \in Nat, NEW n \in Nat, m < n
  PROVE  Greatest((m + 1) .. n) = n
<1>1. n \in (m + 1) .. n /\ \A y \in (m + 1) .. n : y <= n
  OBVIOUS
<1>2. \A x \in ((m + 1) .. n) \cup {0} : (\A y \in (m + 1) .. n : y <= x) => x = n
  BY <1>1
<1>3. QED
  BY <1>1, <1>2 DEF Greatest

LEMMA GreatestOfNone == Greatest({}) = 0
  BY DEF Greatest

LEMMA GreatestSequence ==
  ASSUME NumbersOK
  PROVE  Total \in Nat /\ Greatest(Sequences) = Total
<1>1. Total \in Nat /\ Sequences = 1..Total
  BY FS_CardinalityType DEF NumbersOK, SequencesAreDense, Total
<1>2. CASE Total = 0
  BY <1>1, <1>2, GreatestOfNone
<1>3. CASE Total > 0
  BY <1>1, <1>3, GreatestOfRun
<1>4. QED
  BY <1>1, <1>2, <1>3

LEMMA SequencesInRange ==
  ASSUME NumbersOK
  PROVE  /\ \A row \in table : row.sequence \in 1..Total
         /\ \A n \in 1..Total : \E row \in table : row.sequence = n
<1>1. {row.sequence : row \in table} = 1..Total
  BY DEF NumbersOK, SequencesAreDense, Sequences, Total
<1>2. QED
  BY <1>1

LEMMA CountsAreFinite ==
  ASSUME NumbersOK, NEW a
  PROVE  IsFiniteSet(RowsOf(a)) /\ Count(a) \in Nat
<1>1. RowsOf(a) \in SUBSET table
  BY DEF RowsOf
<1>2. QED
  BY <1>1, FS_Subset, FS_CardinalityType DEF NumbersOK, Count

-----------------------------------------------------------------------------
(* What an append adds.                                                    *)

NewRows(a, from, upto) == {NewRow(a, from, i) : i \in 1..(upto - from)}

LEMMA NewRowsAreNumbered ==
  ASSUME NumbersOK, NEW a, NEW from \in Nat, NEW upto \in Nat, from < upto
  PROVE  /\ {row.sequence : row \in NewRows(a, from, upto)} = (Total + 1) .. (Total + (upto - from))
         /\ \A p, q \in NewRows(a, from, upto) : p.sequence = q.sequence => p = q
         /\ \A row \in NewRows(a, from, upto) : row.attempt = a
         /\ IsFiniteSet(NewRows(a, from, upto))
         /\ Cardinality(NewRows(a, from, upto)) = upto - from
<1> DEFINE k == upto - from
           New == NewRows(a, from, upto)
<1>1. k \in Nat /\ Total \in Nat /\ Greatest(Sequences) = Total
  BY GreatestSequence
<1>2. \A i \in 1..k : NewRow(a, from, i).sequence = Total + i /\ NewRow(a, from, i).attempt = a
  BY <1>1 DEF NewRow
<1>3. New = {NewRow(a, from, i) : i \in 1..k}
  BY DEF NewRows
<1> HIDE DEF New, k
<1>4. \A row \in New : \E i \in 1..k : row = NewRow(a, from, i)
  BY <1>3
<1>5. {row.sequence : row \in New} = (Total + 1) .. (Total + k)
    <2>1. \A row \in New : row.sequence \in (Total + 1) .. (Total + k)
      BY <1>1, <1>2, <1>4
    <2>2. ASSUME NEW n \in (Total + 1) .. (Total + k)
          PROVE  \E row \in New : row.sequence = n
        <3>1. n - Total \in 1..k /\ Total + (n - Total) = n
          BY <1>1
        <3>2. NewRow(a, from, n - Total) \in New /\ NewRow(a, from, n - Total).sequence = n
          BY <1>2, <1>3, <3>1
        <3>3. QED
          BY <3>2
    <2>3. QED
      BY <2>1, <2>2
<1>6. ASSUME NEW p \in New, NEW q \in New, p.sequence = q.sequence
      PROVE  p = q
    <2>1. PICK i \in 1..k : p = NewRow(a, from, i)
      BY <1>4
    <2>2. PICK n \in 1..k : q = NewRow(a, from, n)
      BY <1>4
    <2>3. Total + i = Total + n
      BY <1>2, <1>6, <2>1, <2>2
    <2>4. i = n
      BY <1>1, <2>3
    <2>5. QED
      BY <2>1, <2>2, <2>4
<1>7. \A row \in New : row.attempt = a
  BY <1>2, <1>4
<1>8. IsFiniteSet(New) /\ Cardinality(New) = k
  BY <1>1, <1>5, <1>6, RowsAreCounted
<1>9. QED
  BY <1>5, <1>6, <1>7, <1>8 DEF New, k

\* The numbers stay dense, the Attempt has as many more rows as there are new
\* records, and no other row changes.
LEMMA AppendAdds ==
  ASSUME NumbersOK, NEW a, NEW from \in Nat, NEW upto \in Nat, from < upto,
         table' = Appended(a, from, upto)
  PROVE  /\ NumbersOK' /\ Total' = Total + (upto - from) /\ table \subseteq table'
         /\ \A row \in table' : row \in table \/ row \in NewRows(a, from, upto)
         /\ \A row \in NewRows(a, from, upto) : row.sequence > Total
         /\ RowsOf(a)' = RowsOf(a) \cup NewRows(a, from, upto)
         /\ Count(a)' = Count(a) + (upto - from)
         /\ \A b : b # a => RowsOf(b)' = RowsOf(b) /\ Count(b)' = Count(b)
<1> DEFINE k == upto - from
           New == NewRows(a, from, upto)
<1>1. k \in Nat /\ k > 0 /\ Total \in Nat
  BY GreatestSequence
<1>2. table' = table \cup New
  BY DEF Appended, NewRows
<1>3. /\ {row.sequence : row \in New} = (Total + 1) .. (Total + k)
      /\ \A p, q \in New : p.sequence = q.sequence => p = q
      /\ \A row \in New : row.attempt = a
      /\ IsFiniteSet(New) /\ Cardinality(New) = k
  BY NewRowsAreNumbered
<1> HIDE DEF New, k
<1>4. {row.sequence : row \in table} = 1..Total
  BY DEF NumbersOK, SequencesAreDense, Sequences, Total
<1>5. \A row \in New : row.sequence \in (Total + 1) .. (Total + k)
  BY <1>3
<1>6. \A row \in table : row.sequence \in 1..Total
  BY <1>4
<1>7. {row.sequence : row \in table'} = 1..(Total + k)
    <2>1. {row.sequence : row \in table'} = (1..Total) \cup ((Total + 1) .. (Total + k))
      BY <1>2, <1>3, <1>4
    <2>2. QED
      BY <1>1, <2>1
<1>8. \A p, q \in table' : p.sequence = q.sequence => p = q
    <2>1. \A p \in table : \A q \in New : p.sequence # q.sequence
      BY <1>1, <1>5, <1>6
    <2>2. \A p, q \in table : p.sequence = q.sequence => p = q
      BY DEF NumbersOK
    <2>3. QED
      BY <1>2, <1>3, <2>1, <2>2
<1>9. IsFiniteSet(table') /\ Cardinality(table') = Total + k
    <2>1. {row.sequence : row \in table'} = (0 + 1) .. (0 + (Total + k))
      BY <1>1, <1>7
    <2>2. 0 \in Nat /\ Total + k \in Nat
      BY <1>1
    <2>3. QED
      BY <1>8, <2>1, <2>2, RowsAreCounted
<1>10. NumbersOK' /\ Total' = Total + k
  BY <1>7, <1>8, <1>9 DEF NumbersOK, SequencesAreDense, Sequences, Total
<1>11. RowsOf(a)' = RowsOf(a) \cup New
  BY <1>2, <1>3 DEF RowsOf
<1>12. Count(a)' = Count(a) + k
    <2>1. RowsOf(a) \cap New = {}
      BY <1>1, <1>5, <1>6 DEF RowsOf
    <2>2. IsFiniteSet(RowsOf(a)) /\ Count(a) \in Nat
      BY CountsAreFinite
    <2>3. Cardinality(RowsOf(a) \cup New) = Cardinality(RowsOf(a)) + Cardinality(New)
                                              - Cardinality(RowsOf(a) \cap New)
      BY <1>3, <2>2, FS_Union
    <2>4. Cardinality(RowsOf(a) \cap New) = 0
      BY <2>1, FS_EmptySet
    <2>5. Cardinality(RowsOf(a)') = Count(a) + k
      BY <1>1, <1>3, <1>11, <2>2, <2>3, <2>4 DEF Count
    <2>6. QED
      BY <2>5 DEF Count
<1>13. \A b : b # a => RowsOf(b)' = RowsOf(b)
  BY <1>2, <1>3 DEF RowsOf
<1>14. \A b : b # a => Count(b)' = Count(b)
  BY <1>13 DEF Count
<1>15. \A row \in New : row.sequence > Total
  BY <1>1, <1>5
<1>16. QED
  BY <1>2, <1>10, <1>11, <1>12, <1>13, <1>14, <1>15 DEF New, k

-----------------------------------------------------------------------------
(* What a page shows.                                                      *)

\* A page after a number is the rows numbered next, up to PageLimit of them.
LEMMA PageIsNext ==
  ASSUME NumbersOK, NEW after \in Nat
  PROVE  Page(after) = {row \in table : row.sequence > after /\ row.sequence - after <= PageLimit}
<1>1. Total \in Nat /\ \A row \in table : row.sequence \in 1..Total
  BY GreatestSequence, SequencesInRange
<1>2. ASSUME NEW row \in table, row.sequence > after
      PROVE  Cardinality({r \in table : r.sequence \in (after + 1) .. row.sequence})
               = row.sequence - after
    <2> DEFINE Between == {r \in table : r.sequence \in (after + 1) .. row.sequence}
               k == row.sequence - after
    <2>1. k \in Nat /\ row.sequence \in Nat /\ row.sequence <= Total /\ after + k = row.sequence
      BY <1>1, <1>2
    <2>2. \A n \in (after + 1) .. row.sequence : \E r \in Between : r.sequence = n
        <3>1. \A n \in (after + 1) .. row.sequence : n \in 1..Total
          BY <1>1, <2>1
        <3>2. \A n \in 1..Total : \E r \in table : r.sequence = n
          BY SequencesInRange
        <3>3. QED
          BY <3>1, <3>2
    <2>3. {r.sequence : r \in Between} = (after + 1) .. (after + k)
      BY <2>1, <2>2
    <2>4. \A p, q \in Between : p.sequence = q.sequence => p = q
      BY DEF NumbersOK
    <2> HIDE DEF Between, k
    <2>5. Cardinality(Between) = k
      BY <2>1, <2>3, <2>4, RowsAreCounted
    <2>6. QED
      BY <2>5 DEF Between, k
<1>3. QED
  BY <1>2 DEF Page

\* An empty page means that no row follows; any other moves the cursor to the last
\* row of it.
LEMMA PageReads ==
  ASSUME HarvestAssumption, NumbersOK, NEW after \in Nat
  PROVE  /\ Page(after) = {} => after >= Total
         /\ Page(after) # {} =>
              LET next == Greatest({row.sequence : row \in Page(after)}) IN
                /\ next \in Nat /\ after < next /\ next <= Total
                /\ Page(after) = {row \in table : row.sequence > after /\ row.sequence <= next}
<1>1. Total \in Nat /\ (\A row \in table : row.sequence \in 1..Total)
  BY GreatestSequence, SequencesInRange
<1>2. \A n \in 1..Total : \E row \in table : row.sequence = n
  BY SequencesInRange
<1>3. Page(after) = {row \in table : row.sequence > after /\ row.sequence - after <= PageLimit}
  BY PageIsNext
<1>4. PageLimit \in Nat /\ PageLimit > 0
  BY DEF HarvestAssumption
<1>5. CASE after >= Total
    <2>1. \A row \in table : ~(row.sequence > after)
      BY <1>1, <1>5
    <2>2. Page(after) = {}
      BY <1>3, <2>1
    <2>3. QED
      BY <1>5, <2>2
<1>6. CASE after < Total
    <2> DEFINE last == IF after + PageLimit < Total THEN after + PageLimit ELSE Total
    <2>1. last \in Nat /\ after < last /\ last <= Total /\ last <= after + PageLimit
      BY <1>1, <1>4, <1>6
    <2>2. \A n \in 1..Total : n - after <= PageLimit <=> n <= last
      BY <1>1, <1>4, <1>6
    <2> HIDE DEF last
    <2>3. Page(after) = {row \in table : row.sequence > after /\ row.sequence <= last}
      BY <1>1, <1>3, <2>2
    <2>4. \A row \in Page(after) : row.sequence \in (after + 1) .. last
      BY <1>1, <2>1, <2>3
    <2>5. \A n \in (after + 1) .. last : \E row \in Page(after) : row.sequence = n
        <3>1. \A n \in (after + 1) .. last : n \in 1..Total /\ n > after /\ n <= last
          BY <1>1, <2>1
        <3>2. QED
          BY <1>2, <2>3, <3>1
    <2>6. {row.sequence : row \in Page(after)} = (after + 1) .. last
      BY <2>4, <2>5
    <2>7. Greatest({row.sequence : row \in Page(after)}) = last
      BY <2>1, <2>6, GreatestOfRun
    <2>8. Page(after) # {}
        <3>1. last \in (after + 1) .. last
          BY <2>1
        <3>2. QED
          BY <2>5, <3>1
    <2>9. QED
      BY <2>1, <2>3, <2>7, <2>8
<1>7. QED
  BY <1>1, <1>5, <1>6

-----------------------------------------------------------------------------
(* The steps, and their types.                                             *)

\* A step of the loop alone, of a caller that harvests, of a client, of a worker,
\* or of the Product process.
LEMMA StepsAreOf ==
  ASSUME Next
  PROVE  \/ ReadOutput \/ ReadExit \/ Observe \/ Finalize \/ EmptyTick
         \/ \E c \in Callers : \/ HarvestEnds(c) \/ ReadStream(c) \/ CountRows(c)
                               \/ AppendRows(c) \/ ReadRun(c)
         \/ \E r \in Readers : Ask(r) \/ List(r)
         \/ \E a \in Attempts : Writes(a) \/ Exits(a)
         \/ Resume \/ Expire \/ Purge \/ Crash
  BY DEF Next, LoopStep, ReaderStep, Callers

Points == {"idle", "polled", "observing", "harvest", "counting", "appending", "harvested", "listing"}

CallType == [at : Points, attempt : 1..(MaxAttempts + 1), upto : 0..MaxAttempts,
             seen : 0..MaxRecords, counted : Nat, ended : BOOLEAN]

LEMMA CallsAreTyped ==
  ASSUME TypeOK
  PROVE  call \in [Callers -> CallType]
  BY DEF TypeOK, CallType, Points

SessionType == [state : {"none", "live", "ended"}, read : 0..MaxRecords]

ClientType == [cursor : Nat, rows : SUBSET Row, done : BOOLEAN]

LEMMA SessionsAreTyped ==
  ASSUME TypeOK
  PROVE  session \in [Attempts -> SessionType] /\ client \in [Readers -> ClientType]
  BY DEF TypeOK, SessionType, ClientType

\* What a client has after a page, and that nothing else gives it rows.
LEMMA ListGives ==
  ASSUME TypeOK, NEW r \in Readers, List(r)
  PROVE  /\ client'[r].cursor = IF Page(client[r].cursor) = {} THEN client[r].cursor
                                ELSE Greatest({row.sequence : row \in Page(client[r].cursor)})
         /\ client'[r].rows = client[r].rows \cup Page(client[r].cursor)
         /\ client'[r].done => Page(client[r].cursor) = {}
<1> DEFINE page == Page(client[r].cursor)
           cursor == IF page = {} THEN client[r].cursor ELSE Greatest({row.sequence : row \in page})
           done == call[r].ended /\ page = {}
<1>1. client' = [client EXCEPT ![r].cursor = cursor, ![r].rows = @ \cup page, ![r].done = done]
  BY DEF List
<1>2. client \in [Readers -> ClientType]
  BY SessionsAreTyped
<1> HIDE DEF page, cursor, done
<1>3. /\ client'[r].cursor = cursor /\ client'[r].rows = client[r].rows \cup page
      /\ client'[r].done = done
  BY <1>1, <1>2 DEF ClientType
<1>4. QED
  BY <1>3 DEF page, cursor, done

LEMMA OnlyListGives ==
  ASSUME TypeOK, Next, NEW r \in Readers
  PROVE  List(r) \/ client'[r] = client[r]
<1>1. CASE ReadOutput \/ ReadExit \/ Observe \/ Finalize \/ EmptyTick
  BY <1>1 DEF ReadOutput, ReadExit, Observe, Finalize, EmptyTick
<1>2. ASSUME NEW c \in Callers,
             HarvestEnds(c) \/ ReadStream(c) \/ CountRows(c) \/ AppendRows(c) \/ ReadRun(c)
      PROVE  client' = client
  BY <1>2 DEF HarvestEnds, ReadStream, CountRows, AppendRows, ReadRun
<1>3. ASSUME NEW b \in Readers, Ask(b) PROVE client' = client
  BY <1>3 DEF Ask
<1>4. ASSUME NEW b \in Readers, b # r, List(b) PROVE client'[r] = client[r]
  BY <1>4, SessionsAreTyped DEF List
<1>5. ASSUME NEW a \in Attempts, Writes(a) \/ Exits(a) PROVE client' = client
  BY <1>5 DEF Writes, Exits
<1>6. CASE Resume \/ Expire \/ Purge \/ Crash
  BY <1>6 DEF Resume, Expire, Purge, Crash
<1>7. QED
  BY <1>1, <1>2, <1>3, <1>4, <1>5, <1>6, StepsAreOf

LEMMA IdleIsTyped ==
  ASSUME HarvestAssumption
  PROVE  Idle \in CallType
  BY DEF HarvestAssumption, Idle, CallType, Points

\* A harvest begins at the first Attempt and ends at the last there is.
LEMMA HarvestBegins ==
  ASSUME HarvestAssumption, TypeOK, NEW c \in Callers, BeginsHarvest(c)
  PROVE  /\ call' \in [Callers -> CallType]
         /\ \A b \in Callers : b # c => call'[b] = call[b]
         /\ call'[c].at = "harvest" /\ call'[c].attempt = 1 /\ call'[c].upto = attempt.count
<1> DEFINE k == [Idle EXCEPT !.at = "harvest", !.upto = attempt.count]
<1>1. call \in [Callers -> CallType] /\ call' = [call EXCEPT ![c] = k]
  BY CallsAreTyped DEF BeginsHarvest
<1>2. attempt.count \in 0..MaxAttempts
  BY DEF TypeOK, Attempts, HarvestAssumption
<1>3. k \in CallType
  BY <1>2, IdleIsTyped DEF CallType, Points
<1>4. k.at = "harvest" /\ k.attempt = 1 /\ k.upto = attempt.count
  BY DEF Idle
<1> HIDE DEF k
<1>5. QED
  BY <1>1, <1>3, <1>4

LEMMA GoingIsTyped ==
  ASSUME TypeOK, NEW c \in Callers, NEW p \in Points, Goes(c, p)
  PROVE  call' \in [Callers -> CallType]
<1>1. call \in [Callers -> CallType]
  BY CallsAreTyped
<1>2. [call[c] EXCEPT !.at = p] \in CallType
  BY <1>1 DEF CallType
<1>3. QED
  BY <1>1, <1>2 DEF Goes

LEMMA TicksAreTyped ==
  ASSUME HarvestAssumption, TypeOK, AfterTick
  PROVE  call' \in [Callers -> CallType]
<1>1. call \in [Callers -> CallType] /\ Loop \in Callers
  BY CallsAreTyped DEF Callers
<1>2. CASE Stream = "events"
    <2>1. BeginsHarvest(Loop)
      BY <1>2 DEF AfterTick
    <2>2. QED
      BY <1>1, <2>1, HarvestBegins
<1>3. CASE Stream # "events"
  BY <1>1, <1>3, GoingIsTyped DEF AfterTick, Points
<1>4. QED
  BY <1>2, <1>3

\* A new row is a row.
LEMMA NewRowsAreTyped ==
  ASSUME HarvestAssumption, TypeOK, NumbersOK, NEW a \in Attempts, NEW from \in Nat,
         NEW upto \in 0..MaxRecords, from < upto
  PROVE  \A row \in NewRows(a, from, upto) : row \in Row
<1>1. Count(a) \in Nat /\ Greatest(Sequences) \in Nat
  BY CountsAreFinite, GreatestSequence
<1>2. SUFFICES ASSUME NEW i \in 1..(upto - from) PROVE NewRow(a, from, i) \in Row
  BY DEF NewRows
<1>3. /\ Count(a) + i - 1 \in Nat /\ Greatest(Sequences) + i \in Nat \ {0}
      /\ from + i \in 1..MaxRecords
  BY <1>1 DEF HarvestAssumption
<1>4. QED
  BY <1>3 DEF NewRow, Row

LEMMA TypeStep ==
  ASSUME HarvestAssumption, TypeOK, NumbersOK, CallsOK, Next
  PROVE  TypeOK'
<1> USE DEF Attempts
<1>0. /\ Loop \in Callers /\ call \in [Callers -> CallType]
      /\ MaxAttempts \in Nat /\ MaxRecords \in Nat /\ MaxCrashes \in Nat
      /\ attempt.count \in Attempts /\ Newest = attempt.count
  BY CallsAreTyped DEF Callers, HarvestAssumption, TypeOK, Newest
<1>a. call' \in [Callers -> CallType] /\ UNCHANGED <<file, session, attempt, run, table, client, crashes>>
        => TypeOK'
  BY DEF TypeOK, CallType, Points
<1>1. CASE ReadOutput
    <2>1. call' \in [Callers -> CallType]
      BY <1>0, <1>1, GoingIsTyped DEF ReadOutput, Points
    <2>2. PICK n \in session[Newest].read .. file[Newest].written :
            session' = [session EXCEPT ![Newest].read = n]
      BY <1>1 DEF ReadOutput
    <2>3. n \in 0..MaxRecords
      BY <1>0, <2>2 DEF TypeOK
    <2>4. session' \in [Attempts -> SessionType]
        <3>1. session \in [Attempts -> SessionType] /\ Newest \in Attempts
          BY <1>0, SessionsAreTyped
        <3>2. [session[Newest] EXCEPT !.read = n] \in SessionType
          BY <2>3, <3>1 DEF SessionType
        <3>3. QED
          BY <2>2, <3>1, <3>2
    <2>5. QED
      BY <1>1, <2>1, <2>4 DEF ReadOutput, TypeOK, CallType, Points, SessionType
<1>2. CASE ReadExit
    <2>1. call' \in [Callers -> CallType]
      BY <1>0, <1>2, GoingIsTyped DEF ReadExit, Points
    <2>2. session' \in [Attempts -> SessionType]
        <3>1. session \in [Attempts -> SessionType] /\ Newest \in Attempts
          BY <1>0, SessionsAreTyped
        <3>2. [session[Newest] EXCEPT !.state = "ended"] \in SessionType
          BY <3>1 DEF SessionType
        <3>3. QED
          BY <1>2, <3>1, <3>2 DEF ReadExit
    <2>3. QED
      BY <1>2, <2>1, <2>2 DEF ReadExit, TypeOK, CallType, Points, SessionType
<1>3. CASE Observe
    <2>1. call' \in [Callers -> CallType]
      BY <1>3, TicksAreTyped DEF Observe
    <2>2. Saves(attempt.saved, Newest) \in [Attempts -> 0..MaxRecords]
      BY <1>0 DEF Saves, TypeOK
    <2>3. attempt' \in [count : Attempts, ended : SUBSET Attempts, saved : [Attempts -> 0..MaxRecords]]
      BY <1>0, <1>3, <2>2 DEF Observe, TypeOK
    <2>4. QED
      BY <1>3, <2>1, <2>3 DEF Observe, TypeOK, CallType, Points
<1>4. CASE Finalize
    <2>1. call' \in [Callers -> CallType]
      BY <1>4, TicksAreTyped DEF Finalize
    <2>2. run' \in [terminal : BOOLEAN, recorded : BOOLEAN, expired : BOOLEAN]
      BY <1>4 DEF Finalize, TypeOK
    <2>3. QED
      BY <1>4, <2>1, <2>2 DEF Finalize, TypeOK, CallType, Points
<1>5. CASE EmptyTick
  BY <1>a, <1>5, TicksAreTyped DEF EmptyTick
<1>6. ASSUME NEW c \in Callers, HarvestEnds(c) PROVE TypeOK'
  BY <1>a, <1>6, GoingIsTyped DEF HarvestEnds, Points
<1>7. ASSUME NEW c \in Callers, ReadStream(c) PROVE TypeOK'
    <2>1. call[c].attempt \in Attempts
      BY <1>0, <1>7 DEF ReadStream, CallType
    <2>2. LongerStream(call[c].attempt) \in 0..MaxRecords
      BY <2>1 DEF LongerStream, TypeOK
    <2>3. [call[c] EXCEPT !.at = "counting", !.seen = LongerStream(call[c].attempt)] \in CallType
      BY <1>0, <2>2 DEF CallType, Points
    <2>4. call' = [call EXCEPT ![c] = [call[c] EXCEPT !.at = "counting", !.seen = LongerStream(call[c].attempt)]]
      BY <1>0, <1>7 DEF ReadStream
    <2>5. call' \in [Callers -> CallType]
      BY <1>0, <2>3, <2>4
    <2>6. QED
      BY <1>a, <1>7, <2>5 DEF ReadStream
<1>8. ASSUME NEW c \in Callers, CountRows(c) PROVE TypeOK'
    <2>1. Count(call[c].attempt) \in Nat
      BY CountsAreFinite
    <2>2. [call[c] EXCEPT !.at = "appending", !.counted = Count(call[c].attempt)] \in CallType
      BY <1>0, <2>1 DEF CallType, Points
    <2>3. call' = [call EXCEPT ![c] = [call[c] EXCEPT !.at = "appending", !.counted = Count(call[c].attempt)]]
      BY <1>0, <1>8 DEF CountRows
    <2>4. call' \in [Callers -> CallType]
      BY <1>0, <2>2, <2>3
    <2>5. QED
      BY <1>a, <1>8, <2>4 DEF CountRows
<1>9. ASSUME NEW c \in Callers, AppendRows(c) PROVE TypeOK'
    <2>1. call[c].attempt \in Attempts /\ call[c].attempt + 1 \in 1..(MaxAttempts + 1)
      BY <1>0, <1>9 DEF AppendRows, At, CallsOK, CallType
    <2>2. [call[c] EXCEPT !.at = "harvest", !.attempt = call[c].attempt + 1] \in CallType
      BY <1>0, <2>1 DEF CallType, Points
    <2>3. call' = [call EXCEPT ![c] = [call[c] EXCEPT !.at = "harvest", !.attempt = call[c].attempt + 1]]
      BY <1>0, <1>9 DEF AppendRows
    <2>4. call' \in [Callers -> CallType]
      BY <1>0, <2>2, <2>3
    <2>5. \A row \in table' : row \in Row
        <3>1. CASE call[c].counted < call[c].seen
            <4>1. table' = table \cup NewRows(call[c].attempt, call[c].counted, call[c].seen)
              BY <1>9, <3>1 DEF AppendRows, Appended, NewRows
            <4>2. call[c].counted \in Nat /\ call[c].seen \in 0..MaxRecords
              BY <1>0 DEF CallType
            <4>3. QED
              BY <2>1, <3>1, <4>1, <4>2, NewRowsAreTyped DEF TypeOK
        <3>2. CASE ~(call[c].counted < call[c].seen)
          BY <1>9, <3>2 DEF AppendRows, TypeOK
        <3>3. QED
          BY <3>1, <3>2
    <2>6. QED
      BY <1>9, <2>4, <2>5 DEF AppendRows, TypeOK, CallType, Points
<1>10. ASSUME NEW c \in Callers, ReadRun(c) PROVE TypeOK'
    <2>1. [call[c] EXCEPT !.at = "listing", !.ended = run.terminal] \in CallType
        <3>1. call[c] \in CallType /\ run.terminal \in BOOLEAN
          BY <1>0 DEF TypeOK
        <3>2. QED
          BY <3>1 DEF CallType, Points
    <2>2. call' \in [Callers -> CallType]
      BY <1>0, <1>10, <2>1, IdleIsTyped DEF ReadRun
    <2>3. run' \in [terminal : BOOLEAN, recorded : BOOLEAN, expired : BOOLEAN]
      BY <1>10 DEF ReadRun, TypeOK
    <2>4. QED
      BY <1>10, <2>2, <2>3 DEF ReadRun, TypeOK, CallType, Points
<1>11. ASSUME NEW r \in Readers, Ask(r) PROVE TypeOK'
    <2>1. r \in Callers
      BY DEF Callers
    <2>2. call' \in [Callers -> CallType]
      BY <1>11, <2>1, HarvestBegins DEF Ask
    <2>3. QED
      BY <1>a, <1>11, <2>2 DEF Ask
<1>12. ASSUME NEW r \in Readers, List(r) PROVE TypeOK'
    <2> DEFINE page == Page(client[r].cursor)
               cursor == IF page = {} THEN client[r].cursor ELSE Greatest({row.sequence : row \in page})
               done == call[r].ended /\ page = {}
    <2>1. r \in Callers /\ client[r].cursor \in Nat /\ client[r].rows \subseteq Row
      BY DEF Callers, TypeOK
    <2>2. cursor \in Nat
      BY <2>1, PageReads
    <2>3. page \subseteq Row
      BY DEF Page, TypeOK
    <2>4. done \in BOOLEAN
      BY <1>0, <2>1 DEF CallType
    <2>5. client' = [client EXCEPT ![r].cursor = cursor, ![r].rows = @ \cup page, ![r].done = done]
      BY <1>12 DEF List
    <2> HIDE DEF page, cursor, done
    <2>6. client \in [Readers -> ClientType]
      BY SessionsAreTyped
    <2>7. [client[r] EXCEPT !.cursor = cursor, !.rows = @ \cup page, !.done = done] \in ClientType
      BY <2>2, <2>3, <2>4, <2>6 DEF ClientType
    <2>8. client' \in [Readers -> ClientType]
      BY <2>5, <2>6, <2>7
    <2>9. call' \in [Callers -> CallType]
      BY <1>0, <1>12, <2>1, IdleIsTyped DEF List
    <2>10. QED
      BY <1>12, <2>8, <2>9 DEF List, TypeOK, CallType, Points, ClientType
<1>13. ASSUME NEW a \in Attempts, Writes(a) PROVE TypeOK'
    <2>1. file[a] \in [written : 0..MaxRecords, exited : BOOLEAN] /\ file[a].written + 1 \in 0..MaxRecords
        <3>1. file \in [Attempts -> [written : 0..MaxRecords, exited : BOOLEAN]]
          BY DEF TypeOK
        <3>2. file[a] \in [written : 0..MaxRecords, exited : BOOLEAN]
          BY <3>1
        <3>3. MaxRecords \in Nat /\ file[a].written < MaxRecords
          BY <1>13 DEF Writes, HarvestAssumption
        <3>4. QED
          BY <3>2, <3>3
    <2>2. [file[a] EXCEPT !.written = file[a].written + 1] \in [written : 0..MaxRecords, exited : BOOLEAN]
      BY <2>1
    <2>3. file' = [file EXCEPT ![a] = [file[a] EXCEPT !.written = file[a].written + 1]]
      BY <1>13 DEF Writes, TypeOK
    <2>4. file' \in [Attempts -> [written : 0..MaxRecords, exited : BOOLEAN]]
      BY <2>2, <2>3 DEF TypeOK
    <2>5. QED
      BY <1>13, <2>4 DEF Writes, TypeOK
<1>14. ASSUME NEW a \in Attempts, Exits(a) PROVE TypeOK'
    <2>1. [file[a] EXCEPT !.exited = TRUE] \in [written : 0..MaxRecords, exited : BOOLEAN]
        <3>1. file[a] \in [written : 0..MaxRecords, exited : BOOLEAN]
          BY DEF TypeOK
        <3>2. QED
          BY <3>1
    <2>2. file' = [file EXCEPT ![a] = [file[a] EXCEPT !.exited = TRUE]]
      BY <1>14 DEF Exits, TypeOK
    <2>3. file' \in [Attempts -> [written : 0..MaxRecords, exited : BOOLEAN]]
      BY <2>1, <2>2 DEF TypeOK
    <2>4. QED
      BY <1>14, <2>3 DEF Exits, TypeOK
<1>15. CASE Resume
    <2>1. attempt.count + 1 \in Attempts
      BY <1>0, <1>15 DEF Resume
    <2>2. attempt' \in [count : Attempts, ended : SUBSET Attempts, saved : [Attempts -> 0..MaxRecords]]
      BY <1>15, <2>1 DEF Resume, TypeOK
    <2>3. session' \in [Attempts -> [state : {"none", "live", "ended"}, read : 0..MaxRecords]]
      BY <1>0, <1>15, <2>1 DEF Resume, TypeOK
    <2>4. run' \in [terminal : BOOLEAN, recorded : BOOLEAN, expired : BOOLEAN]
      BY <1>15 DEF Resume, TypeOK
    <2>5. QED
      BY <1>15, <2>2, <2>3, <2>4 DEF Resume, TypeOK
<1>16. CASE Expire
    <2>1. run' \in [terminal : BOOLEAN, recorded : BOOLEAN, expired : BOOLEAN]
      BY <1>16 DEF Expire, TypeOK
    <2>2. QED
      BY <1>16, <2>1 DEF Expire, TypeOK
<1>17. CASE Purge
  BY <1>17 DEF Purge, TypeOK
<1>18. CASE Crash
    <2>1. session' \in [Attempts -> SessionType]
        <3>1. session \in [Attempts -> SessionType] /\ 0 \in 0..MaxRecords
          BY <1>0, SessionsAreTyped
        <3>2. NoSession \in SessionType
          BY <3>1 DEF NoSession, SessionType
        <3>3. \A a \in Attempts : [session[a] EXCEPT !.read = 0] \in SessionType
          BY <3>1 DEF SessionType
        <3>4. QED
          BY <1>18, <3>2, <3>3 DEF Crash
    <2>2. call' \in [Callers -> CallType]
      BY <1>18, IdleIsTyped DEF Crash
    <2>3. crashes' \in 0..MaxCrashes
      BY <1>0, <1>18 DEF Crash, TypeOK
    <2>4. QED
      BY <1>18, <2>1, <2>2, <2>3 DEF Crash, TypeOK, CallType, Points, SessionType
<1>19. QED
  BY <1>1, <1>2, <1>3, <1>4, <1>5, <1>6, <1>7, <1>8, <1>9, <1>10, <1>11, <1>12, <1>13, <1>14,
     <1>15, <1>16, <1>17, <1>18, StepsAreOf

-----------------------------------------------------------------------------
(* The numbers, the calls and the pages.                                   *)

\* What a step does to the table: an append of a caller, a purge, or nothing.
LEMMA TableMoves ==
  ASSUME HarvestAssumption, TypeOK, Next
  PROVE  \/ table' = table
         \/ \E c \in Callers : /\ AppendRows(c) /\ call[c].counted < call[c].seen
                               /\ call[c].counted \in Nat /\ call[c].seen \in Nat
                               /\ table' = Appended(call[c].attempt, call[c].counted, call[c].seen)
         \/ Purge
<1>1. \A c \in Callers : call[c].counted \in Nat /\ call[c].seen \in Nat
  BY CallsAreTyped DEF CallType, HarvestAssumption
<1>2. ASSUME NEW c \in Callers, AppendRows(c), table' # table
      PROVE  /\ call[c].counted < call[c].seen
             /\ table' = Appended(call[c].attempt, call[c].counted, call[c].seen)
  BY <1>2 DEF AppendRows
<1>3. (\E c \in Callers : AppendRows(c)) \/ Purge \/ table' = table
  BY StepsAreOf DEF ReadOutput, ReadExit, Observe, Finalize, EmptyTick, HarvestEnds, ReadStream,
     CountRows, ReadRun, Ask, List, Writes, Exits, Resume, Expire, Crash
<1>4. QED
  BY <1>1, <1>2, <1>3

LEMMA SameTable ==
  ASSUME table' = table
  PROVE  /\ NumbersOK <=> NumbersOK' /\ Total' = Total
         /\ \A a : RowsOf(a)' = RowsOf(a) /\ Count(a)' = Count(a)
  BY DEF NumbersOK, SequencesAreDense, Sequences, Total, RowsOf, Count

LEMMA NoRows ==
  ASSUME table' = {}
  PROVE  NumbersOK'
<1>1. IsFiniteSet(table') /\ Cardinality(table') = 0
  BY FS_EmptySet
<1>2. {row.sequence : row \in table'} = 1..0
  OBVIOUS
<1>3. QED
  BY <1>1, <1>2 DEF NumbersOK, SequencesAreDense, Sequences

LEMMA NumbersStep ==
  ASSUME HarvestAssumption, TypeOK, NumbersOK, Next
  PROVE  NumbersOK'
<1>1. CASE table' = table
  BY <1>1, SameTable
<1>2. ASSUME NEW c \in Callers, call[c].counted < call[c].seen,
             call[c].counted \in Nat, call[c].seen \in Nat,
             table' = Appended(call[c].attempt, call[c].counted, call[c].seen)
      PROVE  NumbersOK'
  BY <1>2, AppendAdds
<1>3. CASE Purge
  BY <1>3, NoRows DEF Purge
<1>4. QED
  BY <1>1, <1>2, <1>3, TableMoves

\* Events are never dropped, and a row that is added follows every row there is.
LEMMA EventsOnlyFollow ==
  ASSUME HarvestAssumption, TypeOK, NumbersOK, Next, Stream = "events"
  PROVE  /\ table \subseteq table' /\ Total' \in Nat /\ Total <= Total'
         /\ \A row \in table' : row \in table \/ row.sequence > Total
         /\ \A a : Count(a) \in Nat /\ Count(a)' \in Nat /\ Count(a) <= Count(a)'
<1>1. NumbersOK' /\ Total \in Nat /\ Total' \in Nat
  BY NumbersStep, GreatestSequence, FS_CardinalityType DEF NumbersOK, Total
<1>2. \A a : Count(a) \in Nat /\ Count(a)' \in Nat
    <2>1. SUFFICES ASSUME NEW a PROVE Count(a) \in Nat /\ Count(a)' \in Nat
      OBVIOUS
    <2>2. RowsOf(a)' \in SUBSET table' /\ IsFiniteSet(table')
      BY <1>1 DEF RowsOf, NumbersOK
    <2>3. Cardinality(RowsOf(a)') \in Nat
      BY <2>2, FS_Subset, FS_CardinalityType
    <2>4. QED
      BY <2>3, CountsAreFinite DEF Count
<1>3. CASE table' = table
  BY <1>1, <1>2, <1>3, SameTable
<1>4. ASSUME NEW c \in Callers, NEW a, a = call[c].attempt, call[c].counted < call[c].seen,
             call[c].counted \in Nat, call[c].seen \in Nat,
             table' = Appended(a, call[c].counted, call[c].seen)
      PROVE  /\ table \subseteq table' /\ Total <= Total'
             /\ \A row \in table' : row \in table \/ row.sequence > Total
             /\ \A b : Count(b) <= Count(b)'
    <2>1. /\ table \subseteq table' /\ Total' = Total + (call[c].seen - call[c].counted)
          /\ \A row \in table' : row \in table \/ row.sequence > Total
          /\ Count(a)' = Count(a) + (call[c].seen - call[c].counted)
          /\ \A b : b # a => Count(b)' = Count(b)
      BY <1>4, AppendAdds
    <2>2. \A b : Count(b) <= Count(b)'
        <3>1. Count(a) <= Count(a)'
          BY <1>2, <1>4, <2>1
        <3>2. ASSUME NEW b, b # a PROVE Count(b) <= Count(b)'
          BY <1>2, <2>1, <3>2
        <3>3. QED
          BY <3>1, <3>2
    <2>3. QED
      BY <1>1, <1>4, <2>1, <2>2
<1>5. ~Purge
  BY DEF Purge
<1>6. QED
  BY <1>1, <1>2, <1>3, <1>4, <1>5, TableMoves

LEMMA CallsStep ==
  ASSUME HarvestAssumption, TypeOK, CallsOK, Next
  PROVE  CallsOK'
<1> DEFINE Good(k, c) == /\ k.at \in {"counting", "appending"} => k.attempt <= k.upto
                         /\ k.at \in {"polled", "observing"} => c = Loop
                         /\ k.at = "listing" => c # Loop
<1>0. /\ Loop \in Callers /\ call \in [Callers -> CallType] /\ DOMAIN call = Callers
      /\ \A c \in Callers : Good(call[c], c) /\ (CallsOK' <=> \A b \in Callers : Good(call'[b], b))
  BY CallsAreTyped DEF Callers, CallsOK, Points
<1>a. ASSUME NEW c \in Callers, \A b \in Callers : b # c => call'[b] = call[b], Good(call'[c], c)
      PROVE  CallsOK'
  BY <1>0, <1>a
<1>1. CASE ReadOutput
  BY <1>0, <1>1 DEF ReadOutput, Goes, CallsOK, CallType
<1>2. CASE ReadExit
  BY <1>0, <1>2 DEF ReadExit, Goes, CallsOK, CallType
<1>3. CASE AfterTick
    <2>1. CASE Stream = "events"
        <3>1. \A b \in Callers : b # Loop => call'[b] = call[b]
          BY <1>0, <1>3, <2>1, HarvestBegins DEF AfterTick
        <3>2. call'[Loop].at = "harvest"
          BY <1>0, <1>3, <2>1, HarvestBegins DEF AfterTick
        <3>3. QED
          BY <1>0, <1>a, <3>1, <3>2
    <2>2. CASE Stream # "events"
      BY <1>0, <1>3, <2>2 DEF AfterTick, Goes, CallsOK, CallType
    <2>3. QED
      BY <2>1, <2>2
<1>4. ASSUME NEW c \in Callers, HarvestEnds(c) PROVE CallsOK'
  BY <1>0, <1>4 DEF HarvestEnds, Goes, CallsOK, CallType
<1>5. ASSUME NEW c \in Callers, ReadStream(c) PROVE CallsOK'
  BY <1>0, <1>5 DEF ReadStream, CallsOK, CallType
<1>6. ASSUME NEW c \in Callers, CountRows(c) PROVE CallsOK'
  BY <1>0, <1>6 DEF CountRows, At, CallsOK, CallType
<1>7. ASSUME NEW c \in Callers, AppendRows(c) PROVE CallsOK'
  BY <1>0, <1>7 DEF AppendRows, CallsOK, CallType
<1>8. ASSUME NEW c \in Callers, ReadRun(c) PROVE CallsOK'
    <2>1. \A b \in Callers : b # c => call'[b] = call[b]
      BY <1>0, <1>8 DEF ReadRun
    <2>2. CASE c = Loop
      BY <1>0, <1>8, <1>a, <2>1, <2>2 DEF ReadRun, Idle
    <2>3. CASE c # Loop
        <3>1. call'[c] = [call[c] EXCEPT !.at = "listing", !.ended = run.terminal]
          BY <1>0, <1>8, <2>3 DEF ReadRun
        <3>2. call'[c].at = "listing"
          BY <1>0, <3>1 DEF CallType
        <3>3. QED
          BY <1>a, <2>1, <2>3, <3>2
    <2>4. QED
      BY <2>2, <2>3
<1>9. ASSUME NEW r \in Readers, Ask(r) PROVE CallsOK'
    <2>1. r \in Callers
      BY DEF Callers
    <2>2. call'[r].at = "harvest" /\ \A b \in Callers : b # r => call'[b] = call[b]
      BY <1>9, <2>1, HarvestBegins DEF Ask
    <2>3. QED
      BY <1>a, <2>1, <2>2
<1>10. ASSUME NEW r \in Readers, List(r) PROVE CallsOK'
    <2>1. r \in Callers /\ call'[r].at = "idle" /\ \A b \in Callers : b # r => call'[b] = call[b]
      BY <1>0, <1>10 DEF List, Idle, Callers
    <2>2. QED
      BY <1>a, <2>1
<1>11. CASE Crash
  BY <1>11 DEF Crash, CallsOK, Idle
<1>12. CASE UNCHANGED call
  BY <1>12 DEF CallsOK
<1>13. QED
  BY <1>1, <1>2, <1>3, <1>4, <1>5, <1>6, <1>7, <1>8, <1>9, <1>10, <1>11, <1>12, StepsAreOf
     DEF Observe, Finalize, EmptyTick, Writes, Exits, Resume, Expire, Purge

\* A cursor and the rows up to it are what the next page goes on from.
LEMMA PagesStep ==
  ASSUME HarvestAssumption, TypeOK, NumbersOK, PagesOK, Next
  PROVE  PagesOK'
<1> SUFFICES ASSUME Stream = "events", NEW r \in Readers
    PROVE  /\ client'[r].cursor <= Total'
           /\ client'[r].rows = {row \in table' : row.sequence <= client'[r].cursor}
  BY DEF PagesOK, ReadersMissNoRow, Total
<1>1. /\ client[r].cursor \in Nat /\ client[r].cursor <= Total
      /\ client[r].rows = {row \in table : row.sequence <= client[r].cursor}
      /\ DOMAIN client = Readers
  BY DEF PagesOK, ReadersMissNoRow, Total, TypeOK
<1>2. /\ table \subseteq table' /\ Total \in Nat /\ Total' \in Nat /\ Total <= Total'
      /\ \A row \in table' : row \in table \/ row.sequence > Total
  BY EventsOnlyFollow, GreatestSequence
<1>3. \A row \in table' : row.sequence \in Nat
    <2>1. NumbersOK'
      BY NumbersStep
    <2>2. {row.sequence : row \in table'} = 1..Total'
      BY <2>1 DEF NumbersOK, SequencesAreDense, Sequences, Total
    <2>3. QED
      BY <1>2, <2>2
<1>4. CASE client'[r] = client[r]
    <2>1. {row \in table' : row.sequence <= client[r].cursor} = {row \in table : row.sequence <= client[r].cursor}
      BY <1>1, <1>2, <1>3
    <2>2. QED
      BY <1>1, <1>2, <1>4, <2>1
<1>5. CASE List(r)
    <2> DEFINE page == Page(client[r].cursor)
               next == Greatest({row.sequence : row \in page})
    <2>1. table' = table /\ Total' = Total
      BY <1>5 DEF List, Total
    <2>2. /\ client'[r].cursor = IF page = {} THEN client[r].cursor ELSE next
          /\ client'[r].rows = client[r].rows \cup page
      BY <1>1, <1>5, ListGives
    <2>3. page # {} => /\ next \in Nat /\ client[r].cursor < next /\ next <= Total
                       /\ page = {row \in table : row.sequence > client[r].cursor /\ row.sequence <= next}
      BY <1>1, PageReads
    <2> HIDE DEF page, next
    <2>4. CASE page = {}
      BY <1>1, <2>1, <2>2, <2>4
    <2>5. CASE page # {}
        <3>1. ASSUME NEW row \in table
              PROVE  row.sequence <= next <=> row.sequence <= client[r].cursor \/ row \in page
          BY <1>1, <1>3, <2>1, <2>3, <2>5
        <3>2. client[r].rows \cup page = {row \in table : row.sequence <= next}
            <4>1. page \subseteq table /\ client[r].rows \subseteq table
              BY <1>1, <2>3, <2>5
            <4>2. \A row \in table : row \in client[r].rows <=> row.sequence <= client[r].cursor
              BY <1>1
            <4>3. QED
              BY <3>1, <4>1, <4>2
        <3>3. client'[r].cursor = next /\ client'[r].rows = {row \in table : row.sequence <= next}
          BY <2>2, <2>5, <3>2
        <3>4. QED
          BY <2>1, <2>3, <2>5, <3>3
    <2>6. QED
      BY <2>4, <2>5
<1>6. List(r) \/ client'[r] = client[r]
  BY <1>1, OnlyListGives
<1>7. QED
  BY <1>4, <1>5, <1>6

-----------------------------------------------------------------------------
(* The loop as the only one that harvests.                                 *)

\* What the loop appends goes on where the rows of the Attempt end.
LEMMA AppendGoesOn ==
  ASSUME TypeOK, NumbersOK, NEW a \in Attempts, NEW seen \in Nat, Count(a) < seen,
         table' = Appended(a, Count(a), seen),
         {row.record : row \in RowsOf(a)} = 1..Count(a),
         \A row \in RowsOf(a) : row.record = row.index + 1
  PROVE  /\ {row.record : row \in RowsOf(a)'} = 1..Count(a)'
         /\ \A row \in RowsOf(a)' : row.record = row.index + 1
<1> DEFINE n == Count(a)
           New == NewRows(a, n, seen)
<1>1. n \in Nat
  BY CountsAreFinite
<1>2. RowsOf(a)' = RowsOf(a) \cup New /\ Count(a)' = n + (seen - n)
  BY <1>1, AppendAdds
<1>3. New = {NewRow(a, n, i) : i \in 1..(seen - n)}
  BY DEF NewRows
<1>4. \A i \in 1..(seen - n) : NewRow(a, n, i).record = n + i /\ NewRow(a, n, i).index = n + i - 1
  BY <1>1 DEF NewRow
<1> HIDE DEF New
<1>5. \A row \in New : row.record \in (n + 1) .. seen /\ row.record = row.index + 1
    <2>1. SUFFICES ASSUME NEW i \in 1..(seen - n)
                   PROVE  LET row == NewRow(a, n, i) IN
                            row.record \in (n + 1) .. seen /\ row.record = row.index + 1
      BY <1>3
    <2>2. n + i \in (n + 1) .. seen /\ n + i = (n + i - 1) + 1
      BY <1>1
    <2>3. QED
      BY <1>4, <2>2
<1>6. \A m \in (n + 1) .. seen : \E row \in New : row.record = m
    <2>1. SUFFICES ASSUME NEW m \in (n + 1) .. seen PROVE \E row \in New : row.record = m
      OBVIOUS
    <2>2. m - n \in 1..(seen - n) /\ n + (m - n) = m
      BY <1>1
    <2>3. NewRow(a, n, m - n) \in New /\ NewRow(a, n, m - n).record = m
      BY <1>3, <1>4, <2>2
    <2>4. QED
      BY <2>3
<1>7. {row.record : row \in New} = (n + 1) .. seen
  BY <1>5, <1>6
<1> DEFINE Old == RowsOf(a)
<1>8. {row.record : row \in Old} = 1..n
  OBVIOUS
<1> HIDE DEF Old, n
<1>9. {row.record : row \in Old \cup New} = 1..seen
    <2>1. {row.record : row \in Old \cup New} = (1..n) \cup ((n + 1) .. seen)
      BY <1>7, <1>8
    <2>2. n < seen
      BY DEF n
    <2>3. QED
      BY <1>1, <2>1, <2>2
<1>10. n + (seen - n) = seen
  BY <1>1
<1>11. QED
  BY <1>2, <1>5, <1>9, <1>10 DEF Old

LEMMA PrefixStep ==
  ASSUME HarvestAssumption, TypeOK, NumbersOK, CallsOK, PrefixOK, Next
  PROVE  PrefixOK'
<1> SUFFICES ASSUME Stream = "events", Readers = {}
    PROVE  /\ \A a \in Attempts : /\ {row.record : row \in RowsOf(a)'} = 1..Count(a)'
                                  /\ \A row \in RowsOf(a)' : row.record = row.index + 1
           /\ call'[Loop].at = "appending" =>
                \A a \in Attempts : a = call'[Loop].attempt => call'[Loop].counted = Count(a)'
    <2>1. call'[Loop].at = "appending" => call'[Loop].attempt \in Attempts
        <3>1. TypeOK' /\ CallsOK' /\ Loop \in Callers
          BY TypeStep, CallsStep DEF Callers
        <3>2. call'[Loop].attempt \in 1..(MaxAttempts + 1) /\ call'[Loop].upto \in 0..MaxAttempts
          BY <3>1 DEF TypeOK
        <3>3. call'[Loop].at = "appending" => call'[Loop].attempt <= call'[Loop].upto
          BY <3>1 DEF CallsOK
        <3>4. QED
          BY <3>2, <3>3 DEF Attempts, HarvestAssumption
    <2>2. QED
      BY <2>1 DEF PrefixOK
<1>1. /\ Callers = {Loop} /\ call \in [Callers -> CallType]
      /\ \A a \in Attempts : /\ {row.record : row \in RowsOf(a)} = 1..Count(a)
                             /\ \A row \in RowsOf(a) : row.record = row.index + 1
      /\ call[Loop].at = "appending" => call[Loop].counted = Count(call[Loop].attempt)
  BY CallsAreTyped DEF Callers, PrefixOK
<1>2. CASE AppendRows(Loop)
    <2>1. call'[Loop].at = "harvest"
      BY <1>1, <1>2 DEF AppendRows, CallType
    <2>2. /\ call[Loop].counted = Count(call[Loop].attempt) /\ call[Loop].attempt \in Attempts
          /\ call[Loop].counted \in Nat /\ call[Loop].seen \in Nat
      BY <1>1, <1>2 DEF AppendRows, At, CallsOK, CallType, HarvestAssumption, Attempts
    <2>3. PICK a \in Attempts : a = call[Loop].attempt
      BY <2>2
    <2>4. CASE call[Loop].counted < call[Loop].seen
        <3>1. table' = Appended(a, Count(a), call[Loop].seen) /\ Count(a) < call[Loop].seen /\ Count(a) \in Nat
          BY <1>2, <2>2, <2>3, <2>4 DEF AppendRows
        <3>2. /\ {row.record : row \in RowsOf(a)'} = 1..Count(a)'
              /\ \A row \in RowsOf(a)' : row.record = row.index + 1
          BY <1>1, <2>2, <3>1, AppendGoesOn
        <3>3. \A b \in Attempts : b # a => RowsOf(b)' = RowsOf(b) /\ Count(b)' = Count(b)
          BY <2>2, <3>1, AppendAdds
        <3>4. ASSUME NEW b \in Attempts
              PROVE  /\ {row.record : row \in RowsOf(b)'} = 1..Count(b)'
                     /\ \A row \in RowsOf(b)' : row.record = row.index + 1
            <4>1. CASE b = a
              BY <3>2, <4>1
            <4>2. CASE b # a
              BY <1>1, <3>3, <4>2
            <4>3. QED
              BY <4>1, <4>2
        <3>5. QED
          BY <2>1, <3>4
    <2>5. CASE ~(call[Loop].counted < call[Loop].seen)
        <3>1. table' = table
          BY <1>2, <2>5 DEF AppendRows
        <3>2. QED
          BY <1>1, <2>1, <3>1, SameTable
    <2>6. QED
      BY <2>4, <2>5
<1>3. CASE ~AppendRows(Loop)
    <2>1. table' = table
      BY <1>1, <1>3, TableMoves DEF Purge
    <2>2. \A a : RowsOf(a)' = RowsOf(a) /\ Count(a)' = Count(a)
      BY <2>1, SameTable
    <2>3. CASE CountRows(Loop)
        <3>1. call'[Loop].counted = Count(call[Loop].attempt) /\ call'[Loop].attempt = call[Loop].attempt
          BY <1>1, <2>3 DEF CountRows, CallType
        <3>2. QED
          BY <1>1, <2>2, <3>1
    <2>4. CASE ~CountRows(Loop)
        <3>1. CASE BeginsHarvest(Loop)
          BY <1>1, <2>2, <3>1, HarvestBegins
        <3>2. CASE Goes(Loop, "polled") \/ Goes(Loop, "observing") \/ Goes(Loop, "harvested")
            <4>1. call'[Loop].at # "appending"
              BY <1>1, <3>2 DEF Goes, CallType
            <4>2. QED
              BY <1>1, <2>2, <4>1
        <3>3. CASE ReadStream(Loop)
            <4>1. call'[Loop].at # "appending"
              BY <1>1, <3>3 DEF ReadStream, CallType
            <4>2. QED
              BY <1>1, <2>2, <4>1
        <3>4. CASE ReadRun(Loop) \/ Crash
            <4>1. call'[Loop].at # "appending"
              BY <1>1, <3>4 DEF ReadRun, Crash, Idle
            <4>2. QED
              BY <1>1, <2>2, <4>1
        <3>5. CASE UNCHANGED call
          BY <1>1, <2>2, <3>5
        <3>6. QED
          BY <1>1, <1>3, <2>4, <3>1, <3>2, <3>3, <3>4, <3>5, StepsAreOf
             DEF ReadOutput, ReadExit, Observe, Finalize, EmptyTick, AfterTick, HarvestEnds,
                 Writes, Exits, Resume, Expire, Purge
    <2>5. QED
      BY <2>3, <2>4
<1>4. QED
  BY <1>2, <1>3

-----------------------------------------------------------------------------
(* What is saved becomes rows before the run is over.                      *)

SavedAreListed == \A a \in Attempts : attempt.saved[a] <= Count(a) \/ Pending(a)

EndedAreOver == \A a \in attempt.ended : a <= attempt.count /\ session[a].state # "live"

OverIsListed ==
  run.terminal => /\ Newest \in attempt.ended /\ ~At(Loop, "polled") /\ ~At(Loop, "observing")
                  /\ \A a \in Attempts : attempt.saved[a] <= Count(a)

\* A loop that is not harvesting has appended all that is saved.
LEMMA NothingIsPending ==
  ASSUME SavedAreListed, call[Loop].at \notin {"harvest", "counting", "appending"}
  PROVE  \A a \in Attempts : attempt.saved[a] <= Count(a)
  BY DEF SavedAreListed, Pending

\* A step of anyone else, that saves nothing, leaves what the loop has to append.
LEMMA OthersOnlyAdd ==
  ASSUME HarvestAssumption, TypeOK, SavedAreListed, call'[Loop] = call[Loop],
         attempt'.saved = attempt.saved,
         \A a : Count(a) \in Nat /\ Count(a)' \in Nat /\ Count(a) <= Count(a)'
  PROVE  SavedAreListed'
<1>1. call \in [Callers -> CallType] /\ Loop \in Callers
  BY CallsAreTyped DEF Callers
<1>2. SUFFICES ASSUME NEW a \in Attempts
               PROVE  attempt'.saved[a] <= Count(a)' \/ Pending(a)'
  BY DEF SavedAreListed
<1>3. attempt.saved[a] \in Nat /\ call[Loop].counted \in Nat /\ Count(a) \in Nat /\ Count(a)' \in Nat
      /\ Count(a) <= Count(a)'
  BY <1>1 DEF TypeOK, CallType, HarvestAssumption
<1>4. CASE attempt.saved[a] <= Count(a)
  BY <1>3, <1>4
<1>5. CASE Pending(a)
    <2>1. call[Loop].counted <= Count(a) => call[Loop].counted <= Count(a)'
      BY <1>3
    <2>2. QED
      BY <1>5, <2>1 DEF Pending
<1>6. QED
  BY <1>2, <1>4, <1>5 DEF SavedAreListed

\* A harvest of the loop begins with every Attempt before it.
LEMMA HarvestIsOfAll ==
  ASSUME HarvestAssumption, TypeOK, BeginsHarvest(Loop),
         \A a \in Attempts : a > attempt.count => attempt'.saved[a] <= Count(a)'
  PROVE  SavedAreListed'
<1>1. call'[Loop].at = "harvest" /\ call'[Loop].attempt = 1 /\ call'[Loop].upto = attempt.count
  BY HarvestBegins DEF Callers
<1>2. \A a \in Attempts : a \in 1..attempt.count \/ a > attempt.count
  BY DEF Attempts, TypeOK, HarvestAssumption
<1>3. QED
  BY <1>1, <1>2 DEF SavedAreListed, Pending

\* One Attempt of the loop's harvest: read, counted, appended.
LEMMA LoopHarvests ==
  ASSUME HarvestAssumption, TypeOK, NumbersOK, CallsOK, SavedAreListed,
         \A a : Count(a) \in Nat /\ Count(a)' \in Nat /\ Count(a) <= Count(a)',
         HarvestEnds(Loop) \/ ReadStream(Loop) \/ CountRows(Loop) \/ AppendRows(Loop)
  PROVE  SavedAreListed'
<1>1. call \in [Callers -> CallType] /\ Loop \in Callers
  BY CallsAreTyped DEF Callers
<1>2. /\ call[Loop].attempt \in 1..(MaxAttempts + 1) /\ call[Loop].upto \in 0..MaxAttempts
      /\ call[Loop].seen \in Nat /\ call[Loop].counted \in Nat /\ MaxAttempts \in Nat
  BY <1>1 DEF CallType, HarvestAssumption
<1>3. attempt' = attempt
  BY DEF HarvestEnds, ReadStream, CountRows, AppendRows
<1>4. SUFFICES ASSUME NEW a \in Attempts
               PROVE  attempt.saved[a] <= Count(a)' \/ Pending(a)'
  BY <1>3 DEF SavedAreListed
<1>5. attempt.saved[a] \in Nat /\ Count(a) \in Nat /\ Count(a)' \in Nat /\ Count(a) <= Count(a)' /\ a \in Nat
  BY DEF TypeOK, HarvestAssumption, Attempts
<1>6. attempt.saved[a] <= Count(a) \/ Pending(a)
  BY DEF SavedAreListed
<1>7. CASE attempt.saved[a] <= Count(a)
  BY <1>5, <1>7
<1>8. CASE Pending(a)
    <2>1. a \in call[Loop].attempt .. call[Loop].upto
      BY <1>8 DEF Pending
    <2>2. CASE HarvestEnds(Loop)
      BY <1>2, <1>5, <2>1, <2>2 DEF HarvestEnds
    <2>3. CASE ReadStream(Loop)
        <3>1. /\ call'[Loop].at = "counting" /\ call'[Loop].attempt = call[Loop].attempt
              /\ call'[Loop].upto = call[Loop].upto
              /\ call'[Loop].seen = LongerStream(call[Loop].attempt)
          BY <1>1, <2>3 DEF ReadStream, CallType
        <3>2. attempt.saved[a] <= LongerStream(a)
            <4>1. session[a].read \in Nat
              BY DEF TypeOK, HarvestAssumption
            <4>2. QED
              BY <1>5, <4>1 DEF LongerStream
        <3>3. QED
          BY <1>3, <2>1, <3>1, <3>2 DEF Pending
    <2>4. CASE CountRows(Loop)
        <3>1. /\ call'[Loop].at = "appending" /\ call'[Loop].attempt = call[Loop].attempt
              /\ call'[Loop].upto = call[Loop].upto /\ call'[Loop].seen = call[Loop].seen
              /\ call'[Loop].counted = Count(call[Loop].attempt)
          BY <1>1, <2>4 DEF CountRows, CallType
        <3>2. call[Loop].attempt = a => attempt.saved[a] <= call[Loop].seen
          BY <1>8, <2>4 DEF Pending, CountRows, At
        <3>3. call[Loop].attempt = a => call'[Loop].counted <= Count(a)'
          BY <1>5, <3>1
        <3>4. QED
          BY <1>3, <2>1, <3>1, <3>2, <3>3 DEF Pending
    <2>5. CASE AppendRows(Loop)
        <3>1. /\ call'[Loop].at = "harvest" /\ call'[Loop].attempt = call[Loop].attempt + 1
              /\ call'[Loop].upto = call[Loop].upto
          BY <1>1, <2>5 DEF AppendRows, CallType
        <3>2. CASE a # call[Loop].attempt
            <4>1. a \in call'[Loop].attempt .. call'[Loop].upto
              BY <1>2, <1>5, <2>1, <3>1, <3>2
            <4>2. QED
              BY <3>1, <4>1 DEF Pending
        <3>3. CASE a = call[Loop].attempt
            <4>1. attempt.saved[a] <= call[Loop].seen /\ call[Loop].counted <= Count(a)
              BY <1>8, <2>5, <3>3 DEF Pending, AppendRows, At
            <4>2. CASE call[Loop].counted < call[Loop].seen
                <5>1. table' = Appended(a, call[Loop].counted, call[Loop].seen)
                  BY <2>5, <3>3, <4>2 DEF AppendRows
                <5>2. Count(a)' = Count(a) + (call[Loop].seen - call[Loop].counted)
                  BY <1>2, <4>2, <5>1, AppendAdds
                <5>3. QED
                  BY <1>2, <1>5, <4>1, <5>2
            <4>3. CASE ~(call[Loop].counted < call[Loop].seen)
              BY <1>2, <1>5, <4>1, <4>3
            <4>4. QED
              BY <4>2, <4>3
        <3>4. QED
          BY <3>2, <3>3
    <2>6. QED
      BY <2>2, <2>3, <2>4, <2>5
<1>9. QED
  BY <1>6, <1>7, <1>8

LEMMA SavedStep ==
  ASSUME HarvestAssumption, TypeOK, NumbersOK, CallsOK, SavedOK, Next
  PROVE  SavedOK'
<1> SUFFICES ASSUME Stream = "events", MaxCrashes = 0
    PROVE  SavedAreListed' /\ EndedAreOver' /\ OverIsListed'
  BY DEF SavedOK, SavedAreListed, EndedAreOver, OverIsListed
<1>1. /\ SavedAreListed /\ EndedAreOver /\ OverIsListed
      /\ call \in [Callers -> CallType] /\ Loop \in Callers
  BY CallsAreTyped DEF SavedOK, SavedAreListed, EndedAreOver, OverIsListed, Callers
<1>2. \A a : Count(a) \in Nat /\ Count(a)' \in Nat /\ Count(a) <= Count(a)'
  BY EventsOnlyFollow
<1>3. /\ \A a \in Attempts : attempt.saved[a] \in Nat /\ a \in Nat
      /\ attempt.count \in Attempts /\ attempt.ended \subseteq Attempts /\ MaxAttempts \in Nat
      /\ DOMAIN session = Attempts
  BY DEF TypeOK, HarvestAssumption, Attempts
<1>a. ASSUME UNCHANGED <<session, attempt, run>>, SavedAreListed',
             ~At(Loop, "polled")' /\ ~At(Loop, "observing")'
      PROVE  SavedAreListed' /\ EndedAreOver' /\ OverIsListed'
    <2>1. EndedAreOver'
      BY <1>1, <1>a DEF EndedAreOver
    <2>2. ASSUME run.terminal, NEW a \in Attempts
          PROVE  attempt.saved[a] <= Count(a)'
      BY <1>1, <1>2, <1>3, <2>2 DEF OverIsListed
    <2>3. OverIsListed'
      BY <1>1, <1>a, <2>2 DEF OverIsListed, Newest
    <2>4. QED
      BY <1>a, <2>1, <2>3
<1>b. ASSUME UNCHANGED <<session, attempt, run>>, call'[Loop] = call[Loop]
      PROVE  SavedAreListed' /\ EndedAreOver' /\ OverIsListed'
    <2>1. SavedAreListed'
      BY <1>1, <1>2, <1>b, OthersOnlyAdd
    <2>2. EndedAreOver'
      BY <1>1, <1>b DEF EndedAreOver
    <2>3. ASSUME run.terminal, NEW a \in Attempts
          PROVE  attempt.saved[a] <= Count(a)'
      BY <1>1, <1>2, <1>3, <2>3 DEF OverIsListed
    <2>4. OverIsListed'
      BY <1>1, <1>b, <2>3 DEF OverIsListed, Newest, At
    <2>5. QED
      BY <2>1, <2>2, <2>4
<1>4. CASE ReadOutput
    <2>1. call'[Loop].at = "polled" /\ ~run.terminal
      BY <1>1, <1>4 DEF ReadOutput, Goes, OverIsListed, EndedAreOver, CallType
    <2>2. SavedAreListed'
      BY <1>1, <1>2, <1>3, <1>4, NothingIsPending DEF ReadOutput, At, SavedAreListed
    <2>3. EndedAreOver'
      BY <1>1, <1>3, <1>4 DEF ReadOutput, EndedAreOver, TypeOK
    <2>4. QED
      BY <1>4, <2>1, <2>2, <2>3 DEF ReadOutput, OverIsListed
<1>5. CASE ReadExit
    <2>1. ~run.terminal
      BY <1>1, <1>5 DEF ReadExit, OverIsListed
    <2>2. SavedAreListed'
      BY <1>1, <1>2, <1>3, <1>5, NothingIsPending DEF ReadExit, At, SavedAreListed
    <2>3. EndedAreOver'
      BY <1>1, <1>3, <1>5 DEF ReadExit, EndedAreOver, TypeOK
    <2>4. QED
      BY <1>5, <2>1, <2>2, <2>3 DEF ReadExit, OverIsListed
<1>6. CASE Observe
    <2>1. ~run.terminal /\ BeginsHarvest(Loop)
      BY <1>1, <1>6 DEF Observe, OverIsListed, AfterTick
    <2>2. attempt'.saved = Saves(attempt.saved, Newest) /\ attempt'.count = attempt.count
          /\ attempt'.ended = IF session[Newest].state = "ended" THEN attempt.ended \cup {Newest}
                                                                 ELSE attempt.ended
      BY <1>6 DEF Observe, TypeOK
    <2>3. \A a \in Attempts : a > attempt.count => attempt'.saved[a] = attempt.saved[a]
      BY <1>3, <2>2 DEF Saves, Newest, TypeOK
    <2>4. \A a \in Attempts : attempt.saved[a] <= Count(a)'
      BY <1>1, <1>2, <1>3, <1>6, NothingIsPending DEF Observe, At
    <2>5. SavedAreListed'
      BY <2>1, <2>3, <2>4, HarvestIsOfAll
    <2>6. EndedAreOver'
      BY <1>1, <1>3, <1>6, <2>2 DEF Observe, EndedAreOver, Newest
    <2>7. QED
      BY <1>6, <2>1, <2>5, <2>6 DEF Observe, OverIsListed
<1>7. CASE Finalize
    <2>1. BeginsHarvest(Loop) /\ Newest \in attempt.ended /\ UNCHANGED <<session, attempt>>
      BY <1>7 DEF Finalize, AfterTick
    <2>2. \A a \in Attempts : attempt.saved[a] <= Count(a)'
      BY <1>1, <1>2, <1>3, <1>7, NothingIsPending DEF Finalize, At
    <2>3. SavedAreListed'
      BY <2>1, <2>2, HarvestIsOfAll
    <2>4. call'[Loop].at = "harvest"
      BY <1>1, <2>1, HarvestBegins
    <2>5. QED
      BY <1>1, <2>1, <2>2, <2>3, <2>4 DEF EndedAreOver, OverIsListed, Newest, At
<1>8. CASE EmptyTick
    <2>1. BeginsHarvest(Loop) /\ UNCHANGED <<session, attempt, run>>
      BY <1>8 DEF EmptyTick, AfterTick
    <2>2. \A a \in Attempts : attempt.saved[a] <= Count(a)'
      BY <1>1, <1>2, <1>3, <1>8, NothingIsPending DEF EmptyTick, At
    <2>3. SavedAreListed'
      BY <2>1, <2>2, HarvestIsOfAll
    <2>4. call'[Loop].at = "harvest"
      BY <1>1, <2>1, HarvestBegins
    <2>5. QED
      BY <1>a, <2>1, <2>3, <2>4 DEF At
<1>9. CASE HarvestEnds(Loop) \/ ReadStream(Loop) \/ CountRows(Loop) \/ AppendRows(Loop)
    <2>1. SavedAreListed'
      BY <1>1, <1>2, <1>9, LoopHarvests
    <2>2. call'[Loop].at \in {"harvested", "counting", "appending", "harvest"}
      BY <1>1, <1>9 DEF HarvestEnds, ReadStream, CountRows, AppendRows, Goes, CallType
    <2>3. UNCHANGED <<session, attempt, run>>
      BY <1>9 DEF HarvestEnds, ReadStream, CountRows, AppendRows
    <2>4. QED
      BY <1>a, <2>1, <2>2, <2>3 DEF At
<1>10. CASE ReadRun(Loop)
    <2>1. call'[Loop] = Idle /\ UNCHANGED <<session, attempt>> /\ run'.terminal = run.terminal
      BY <1>1, <1>10 DEF ReadRun, TypeOK
    <2>2. \A a \in Attempts : attempt.saved[a] <= Count(a)'
      BY <1>1, <1>2, <1>3, <1>10, NothingIsPending DEF ReadRun, At
    <2>3. SavedAreListed'
      BY <2>1, <2>2 DEF SavedAreListed
    <2>4. QED
      BY <1>1, <2>1, <2>2, <2>3 DEF EndedAreOver, OverIsListed, Newest, At, Idle
<1>11. ASSUME NEW r \in Readers, r # Loop, ReadRun(r)
       PROVE  SavedAreListed' /\ EndedAreOver' /\ OverIsListed'
    <2>1. call'[Loop] = call[Loop] /\ UNCHANGED <<session, attempt>> /\ run'.terminal = run.terminal
      BY <1>1, <1>11 DEF ReadRun, TypeOK
    <2>2. SavedAreListed'
      BY <1>1, <1>2, <2>1, OthersOnlyAdd
    <2>3. ASSUME run.terminal, NEW a \in Attempts
          PROVE  attempt.saved[a] <= Count(a)'
      BY <1>1, <1>2, <1>3, <2>3 DEF OverIsListed
    <2>4. QED
      BY <1>1, <2>1, <2>2, <2>3 DEF EndedAreOver, OverIsListed, Newest, At
<1>12. ASSUME NEW r \in Readers, r # Loop,
              \/ HarvestEnds(r) \/ ReadStream(r) \/ CountRows(r) \/ AppendRows(r) \/ Ask(r) \/ List(r)
       PROVE  SavedAreListed' /\ EndedAreOver' /\ OverIsListed'
    <2>1. call'[Loop] = call[Loop]
      BY <1>1, <1>12 DEF HarvestEnds, ReadStream, CountRows, AppendRows, Ask, BeginsHarvest, List, Goes
    <2>2. UNCHANGED <<session, attempt, run>>
      BY <1>12 DEF HarvestEnds, ReadStream, CountRows, AppendRows, Ask, List
    <2>3. QED
      BY <1>b, <2>1, <2>2
<1>13. CASE Resume
    <2>1. /\ attempt'.saved = attempt.saved /\ attempt'.ended = attempt.ended
          /\ attempt'.count = attempt.count + 1 /\ ~run'.terminal /\ call' = call
      BY <1>13 DEF Resume, TypeOK
    <2>2. SavedAreListed'
      BY <1>1, <1>2, <2>1, OthersOnlyAdd
    <2>3. \A a \in attempt.ended : a # attempt.count + 1
      BY <1>1, <1>3 DEF EndedAreOver
    <2>4. \A a \in attempt.ended : session'[a] = session[a] /\ a <= attempt.count + 1
      BY <1>1, <1>3, <1>13, <2>3 DEF Resume, EndedAreOver
    <2>5. QED
      BY <1>1, <2>1, <2>2, <2>4 DEF EndedAreOver, OverIsListed
<1>14. CASE Expire \/ Purge
  BY <1>14 DEF Expire, Purge
<1>15. CASE Crash
    <2>1. crashes \in 0..0
      BY DEF TypeOK
    <2>2. QED
      BY <1>15, <2>1 DEF Crash
<1>16. ASSUME NEW a \in Attempts, Writes(a) \/ Exits(a)
       PROVE  SavedAreListed' /\ EndedAreOver' /\ OverIsListed'
  BY <1>b, <1>16 DEF Writes, Exits
<1>17. \A r \in Readers : r # Loop
  BY DEF HarvestAssumption, Loop
<1>18. QED
  BY <1>4, <1>5, <1>6, <1>7, <1>8, <1>9, <1>10, <1>11, <1>12, <1>13, <1>14, <1>15, <1>16, <1>17
     DEF Next, LoopStep, ReaderStep

-----------------------------------------------------------------------------
(* The theorems.                                                           *)

LEMMA InitSound ==
  ASSUME HarvestAssumption, Init
  PROVE  IInv
<1>1. TypeOK
    <2>1. 1 \in Attempts /\ 0 \in 0..MaxRecords /\ 0 \in 0..MaxCrashes
      BY DEF HarvestAssumption, Attempts
    <2>2. call \in [Callers -> CallType]
      BY IdleIsTyped DEF Init
    <2>3. file \in [Attempts -> [written : 0..MaxRecords, exited : BOOLEAN]]
      BY <2>1 DEF Init
    <2>4. session \in [Attempts -> [state : {"none", "live", "ended"}, read : 0..MaxRecords]]
      BY <2>1 DEF Init, NoSession
    <2>5. attempt \in [count : Attempts, ended : SUBSET Attempts, saved : [Attempts -> 0..MaxRecords]]
      BY <2>1 DEF Init
    <2>6. /\ run \in [terminal : BOOLEAN, recorded : BOOLEAN, expired : BOOLEAN]
          /\ client \in [Readers -> [cursor : Nat, rows : SUBSET Row, done : BOOLEAN]]
          /\ crashes \in 0..MaxCrashes /\ \A row \in table : row \in Row
      BY <2>1 DEF Init
    <2>7. QED
      BY <2>2, <2>3, <2>4, <2>5, <2>6 DEF TypeOK, CallType, Points
<1>2. table = {} /\ Cardinality(table) = 0 /\ IsFiniteSet(table)
  BY FS_EmptySet DEF Init
<1>3. NumbersOK
  BY <1>2 DEF NumbersOK, SequencesAreDense, Sequences
<1>4. \A c \in Callers : call[c] = Idle
  BY DEF Init
<1>5. CallsOK
  BY <1>4 DEF CallsOK, Idle
<1>6. \A a : RowsOf(a) = {} /\ Count(a) = 0
  BY <1>2 DEF RowsOf, Count
<1>7. PagesOK
  BY <1>2 DEF Init, PagesOK, ReadersMissNoRow
<1>8. PrefixOK
  BY <1>4, <1>6 DEF PrefixOK, Idle, Callers
<1>9. SavedOK
  BY <1>6 DEF SavedOK, Init
<1>10. QED
  BY <1>1, <1>3, <1>5, <1>7, <1>8, <1>9 DEF IInv

LEMMA StepSound ==
  ASSUME HarvestAssumption, IInv, [Next]_vars
  PROVE  IInv'
<1>1. CASE Next
  BY <1>1, TypeStep, NumbersStep, CallsStep, PagesStep, PrefixStep, SavedStep DEF IInv
<1>2. CASE UNCHANGED vars
    <2>1. TypeOK' /\ CallsOK'
      BY <1>2 DEF vars, IInv, TypeOK, CallsOK
    <2>2. /\ table' = table /\ call' = call /\ client' = client /\ attempt' = attempt
          /\ session' = session /\ run' = run
      BY <1>2 DEF vars
    <2>3. NumbersOK' /\ Total' = Total /\ \A a : RowsOf(a)' = RowsOf(a) /\ Count(a)' = Count(a)
      BY <2>2, SameTable DEF IInv
    <2>4. PagesOK'
      BY <2>2 DEF IInv, PagesOK, ReadersMissNoRow
    <2>5. PrefixOK'
      BY <2>2 DEF IInv, PrefixOK, RowsOf, Count
    <2>6. SavedOK'
      BY <2>2 DEF IInv, SavedOK, Pending, Newest, At, RowsOf, Count
    <2>7. QED
      BY <2>1, <2>3, <2>4, <2>5, <2>6 DEF IInv
<1>3. QED
  BY <1>1, <1>2

\* The inductive invariant: the numbers of the rows, what the calls have read, and
\* what the loop still has to append.
THEOREM Invariance ==
  ASSUME HarvestAssumption
  PROVE  Spec => []IInv
<1>1. Init => IInv
  BY InitSound
<1>2. IInv /\ [Next]_vars => IInv'
  BY StepSound
<1>3. QED
  BY <1>1, <1>2, PTL DEF Spec

\* The invariant says all that the runs check.
LEMMA RowsHold ==
  ASSUME IInv
  PROVE  HarvestedRowsAreSound
<1>1. TypeOK /\ SequencesAreDense /\ (Stream = "events" => ReadersMissNoRow)
  BY DEF IInv, NumbersOK, PagesOK
<1>2. ASSUME Stream = "events", Readers = {}, NEW a \in Attempts
      PROVE  {<<row.index + 1, row.record>> : row \in RowsOf(a)} = {<<n, n>> : n \in 1..Count(a)}
    <2>1. /\ {row.record : row \in RowsOf(a)} = 1..Count(a)
          /\ \A row \in RowsOf(a) : row.record = row.index + 1
      BY <1>2 DEF IInv, PrefixOK
    <2>2. \A row \in RowsOf(a) : \E n \in 1..Count(a) : <<row.index + 1, row.record>> = <<n, n>>
      BY <2>1
    <2>3. \A n \in 1..Count(a) : \E row \in RowsOf(a) : <<n, n>> = <<row.index + 1, row.record>>
      BY <2>1
    <2>4. QED
      BY <2>2, <2>3
<1>3. QED
  BY <1>1, <1>2 DEF HarvestedRowsAreSound, RowsArePrefix

\* Every part keeps its type.
THEOREM TypeCorrect ==
  ASSUME HarvestAssumption
  PROVE  Spec => []TypeOK
<1>1. IInv => TypeOK
  BY DEF IInv
<1>2. QED
  BY <1>1, Invariance, PTL

\* append_events, append_diagnostics: the rows of a run are numbered 1, 2, 3, ...
\* whoever appends them, also after a purge and over kills of the process.
THEOREM NumbersStayDense ==
  ASSUME HarvestAssumption
  PROVE  Spec => []SequencesAreDense
<1>1. IInv => SequencesAreDense
  BY RowsHold DEF HarvestedRowsAreSound
<1>2. QED
  BY <1>1, Invariance, PTL

\* list_events: a client that follows next_sequence has every event up to its
\* cursor, however many callers append meanwhile.
THEOREM ReadersKeepUp ==
  ASSUME HarvestAssumption, Stream = "events"
  PROVE  Spec => []ReadersMissNoRow
<1>1. IInv => ReadersMissNoRow
  BY RowsHold DEF HarvestedRowsAreSound
<1>2. QED
  BY <1>1, Invariance, PTL

\* _harvest_events: if only the loop harvests, the rows of an Attempt are what its
\* worker wrote, each record once and in order, over polls, Attempts and kills.
THEOREM LoopAppendsOnce ==
  ASSUME HarvestAssumption, Stream = "events", Readers = {}
  PROVE  Spec => []RowsArePrefix
<1>1. IInv => RowsArePrefix
  BY RowsHold DEF HarvestedRowsAreSound
<1>2. QED
  BY <1>1, Invariance, PTL

\* All of it together, which is what the runs check on small instances
\* (_harvest_events, list_events).
THEOREM RowsStaySound ==
  ASSUME HarvestAssumption
  PROVE  Spec => []HarvestedRowsAreSound
BY RowsHold, Invariance, PTL

\* The closing frame is given when nothing follows the cursor, and the client has
\* every row up to there.
LEMMA ClosedWhenAllRead ==
  ASSUME HarvestAssumption, Stream = "events", MaxCrashes = 0, IInv, [Next]_vars
  PROVE  DoneMeansAllRead
<1>1. ASSUME Next, NEW r \in Readers, client'[r].done, ~client[r].done, run.terminal,
             NEW a \in 1..attempt.count
      PROVE  Cardinality({row \in client'[r].rows : row.attempt = a}) >= attempt.saved[a]
    <2>1. List(r)
      BY <1>1, OnlyListGives DEF IInv
    <2>2. Page(client[r].cursor) = {}
      BY <1>1, <2>1, ListGives DEF IInv
    <2>3. client'[r].rows = client[r].rows
      BY <1>1, <2>1, <2>2, ListGives DEF IInv
    <2>4. client[r].cursor \in Nat /\ client[r].cursor >= Total
      BY <1>1, <2>2, PageReads DEF IInv, TypeOK
    <2>5. Total \in Nat /\ \A row \in table : row.sequence \in 1..Total
      BY <1>1, GreatestSequence, SequencesInRange DEF IInv
    <2>6. client[r].rows = {row \in table : row.sequence <= client[r].cursor}
      BY <1>1 DEF IInv, PagesOK, ReadersMissNoRow
    <2>7. client[r].rows = table
      BY <2>4, <2>5, <2>6
    <2>8. a \in Attempts
        <3>1. attempt.count \in 1..MaxAttempts /\ MaxAttempts \in Nat
          BY <1>1 DEF IInv, TypeOK, Attempts, HarvestAssumption
        <3>2. QED
          BY <1>1, <3>1 DEF Attempts
    <2>9. attempt.saved[a] <= Count(a)
      BY <1>1, <2>8 DEF IInv, SavedOK
    <2>10. Count(a) \in Nat /\ attempt.saved[a] \in Nat
      BY <1>1, <2>8, CountsAreFinite DEF IInv, TypeOK, HarvestAssumption
    <2>11. QED
      BY <2>3, <2>7, <2>9, <2>10 DEF Count, RowsOf
<1>2. CASE UNCHANGED vars
  BY <1>2 DEF vars, DoneMeansAllRead
<1>3. QED
  BY <1>1, <1>2 DEF DoneMeansAllRead

\* The closing frame of an event stream comes after as many rows of each Attempt as
\* it saved events, if the process is not killed meanwhile.
THEOREM ClosingFrameIsLast ==
  ASSUME HarvestAssumption, Stream = "events", MaxCrashes = 0
  PROVE  Spec => [][DoneMeansAllRead]_vars
<1>1. IInv /\ [Next]_vars => DoneMeansAllRead
  BY ClosedWhenAllRead
<1>2. QED
  BY <1>1, Invariance, PTL DEF Spec

=============================================================================
