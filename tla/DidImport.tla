------------------------------ MODULE DidImport ------------------------------
(***************************************************************************)
(* Bulk import of DIDs: the parsers, the worker goroutine of an import     *)
(* job, its buffered event channel, the browsers that stream it (SSE), the *)
(* registry of jobs and its reaper, and the older form that imports a      *)
(* range in one transaction.                                               *)
(*                                                                         *)
(* An emit that finds the channel full waits a second and drops the event: *)
(* waits counts those seconds.  Other work takes no time of its own; where *)
(* SlowDb holds, the job's ten minutes may be over at any moment.          *)
(***************************************************************************)
EXTENDS Integers, Sequences, FiniteSets

CONSTANTS
    Imports,     \* job ids
    Readers,     \* SSE connections
    Forms,       \* what may be submitted: see FormType
    Ranges,      \* what the older form may be given: sets of numbers
    Numbers,     \* e164 numbers: integers
    NoNumber,    \* a token normalizeE164 rejects
    MaxRows, Buffer, Deadline,   \* 10000, 1024 and 600 in the code
    SlowDb, MayPanic

\* A row of input: country says whether one is given or found for it, notes counts
\* the cells of a CSV row that are reported and ignored.
Rows == [number : Numbers \cup {NoNumber}, country : BOOLEAN, notes : 0..1]
FormType == [mode : {"range"}, from : Int, to : Int] \cup [mode : {"bulk", "csv"}, rows : Seq(Rows)]

\* Owners of a number that are no jobs: none, and the older form.
Nobody == "nobody"
Legacy == "form"

ASSUME ImportAssumption ==
    /\ {Nobody, Legacy} \cap Imports = {}
    /\ Numbers \subseteq Nat \ {0} /\ NoNumber \notin Numbers
    /\ Forms \subseteq FormType
    /\ \A form \in Forms :
          form.mode = "range" /\ form.from > 0 => form.from..form.to \subseteq Numbers
    /\ Ranges \subseteq SUBSET Numbers
    /\ MaxRows \in Nat /\ Buffer \in Nat \ {0} /\ Deadline \in Nat \ {0}
    /\ SlowDb \in BOOLEAN /\ MayPanic \in BOOLEAN

VARIABLES
    imports,    \* per id: the Job and where its worker is
    registry,   \* ids the registry knows
    table,      \* per number: who inserted it into dids
    reader      \* per connection: what it streams and what it got last

importVars == <<imports, registry, table, reader>>

-----------------------------------------------------------------------------
(* Parsers: the one way to read what was submitted, or none *)

Entry(n, country) == [number |-> n, country |-> country]

ParseRange(from, to) ==
    IF from <= 0 \/ to < from \/ to - from + 1 > MaxRows THEN {}
    ELSE {[entries |-> [i \in 1..(to - from + 1) |-> Entry(from + i - 1, TRUE)], warnings |-> 0]}

\* Rows with a number.
Kept(rows) == {i \in DOMAIN rows : rows[i].number # NoNumber}
Notes(rows) == Cardinality({i \in Kept(rows) : rows[i].notes = 1})

\* The members of a finite set of row numbers in their order: exactly one sequence.
InOrder(kept) == {e \in [1..Cardinality(kept) -> kept] : \A i, k \in DOMAIN e : i < k => e[i] < e[k]}

ParseRows(rows, noted) ==
    IF Cardinality(Kept(rows)) > MaxRows THEN {}
    ELSE {[entries |-> [i \in DOMAIN e |-> Entry(rows[e[i]].number, rows[e[i]].country)],
           warnings |-> Cardinality(DOMAIN rows \ Kept(rows)) + noted] : e \in InOrder(Kept(rows))}

Parse(form) ==
    CASE form.mode = "range" -> ParseRange(form.from, form.to)
      [] form.mode = "bulk" -> ParseRows(form.rows, 0)
      [] form.mode = "csv" -> ParseRows(form.rows, Notes(form.rows))

-----------------------------------------------------------------------------
Status == {"none", "pending", "running", "done", "errored"}
Ended == {"done", "errored"}
Kinds == {"init", "row", "progress", "done"}
NoEvent == "none"
Places == {"none", "start", "warn", "check", "row", "count", "last", "close", "ended"}

NewImport ==
    [status |-> "none", pc |-> "none", entries |-> <<>>, warnings |-> 0, pos |-> 1,
     added |-> 0, skipped |-> 0, errors |-> 0, processed |-> 0,
     out |-> NoEvent, events |-> <<>>, closed |-> FALSE, waits |-> 0, late |-> FALSE,
     lost |-> FALSE, panicked |-> FALSE]

NoReader == [job |-> Nobody, state |-> "off", last |-> NoEvent]

\* The type invariant.
ImportTypeOK ==
    /\ \A j \in Imports :
         LET m == imports[j] IN
         /\ m.status \in Status /\ m.pc \in Places
         /\ m.warnings \in Nat /\ m.pos \in 1..(Len(m.entries) + 1)
         /\ {m.added, m.skipped, m.errors, m.processed} \subseteq Nat
         /\ m.out \in Kinds \cup {NoEvent}
         /\ m.events \in Seq(Kinds) /\ Len(m.events) <= Buffer
         /\ {m.closed, m.late, m.lost, m.panicked} \subseteq BOOLEAN
         /\ m.waits \in 0..Deadline
    /\ registry \subseteq Imports
    /\ table \in [Numbers -> Imports \cup {Nobody, Legacy}]
    /\ reader \in [Readers -> [job : Imports \cup {Nobody}, last : Kinds \cup {NoEvent},
                               state : {"off", "on", "closed", "gone"}]]

ImportInit ==
    /\ imports = [j \in Imports |-> NewImport]
    /\ registry = {}
    /\ table = [n \in Numbers |-> Nobody]
    /\ reader = [r \in Readers |-> NoReader]

-----------------------------------------------------------------------------
(* The worker.  It stops at every emit until the event is sent or dropped. *)

\* didImportStart: nothing is registered unless there is something to import.
StartImport(j, form) ==
    /\ imports[j].status = "none"
    /\ \E parsed \in Parse(form) :
         /\ parsed.entries # <<>>
         /\ imports' = [imports EXCEPT ![j].status = "pending", ![j].pc = "start",
                                       ![j].entries = parsed.entries, ![j].warnings = parsed.warnings]
    /\ registry' = registry \cup {j}
    /\ UNCHANGED <<table, reader>>

At(j, places) == imports[j].pc \in places /\ imports[j].out = NoEvent

Begin(j) ==
    /\ At(j, {"start"})
    /\ imports' = [imports EXCEPT ![j].status = "running", ![j].out = "init", ![j].pc = "warn"]
    /\ UNCHANGED <<registry, table, reader>>

\* The parser's warnings count as errors of no row.
Warn(j) ==
    LET m == imports[j] IN
    /\ At(j, {"warn"})
    /\ imports' = [imports EXCEPT ![j] =
         IF m.errors < m.warnings THEN [m EXCEPT !.errors = @ + 1, !.out = "row"]
         ELSE [m EXCEPT !.pc = "check"]]
    /\ UNCHANGED <<registry, table, reader>>

RowsLeft(j) == imports[j].pos <= Len(imports[j].entries)

\* The ticker's case of the select; when the context is over too, either is taken.
Progress(j) ==
    /\ At(j, {"check"}) /\ RowsLeft(j)
    /\ imports' = [imports EXCEPT ![j].out = "progress", ![j].pc = "row"]
    /\ UNCHANGED <<registry, table, reader>>

\* Mutant: a cancelled import returns without emitDone.
CancelledSilently(m) == [m EXCEPT !.status = "errored", !.pc = "close"]

\* Mutant: no return after the context's case of the select.
CancelledGoesOn(m) == [m EXCEPT !.status = "errored", !.pc = "row"]

Cancelled(m) == [m EXCEPT !.status = "errored", !.out = "done", !.pc = "close"]

\* The context's case.
Cancel(j) ==
    /\ At(j, {"check"}) /\ RowsLeft(j) /\ imports[j].late
    /\ imports' = [imports EXCEPT ![j] = Cancelled(@)]
    /\ UNCHANGED <<registry, table, reader>>

AtRow(j) == RowsLeft(j) /\ (At(j, {"row"}) \/ (At(j, {"check"}) /\ ~imports[j].late))

\* Mutant: a row without a country is passed over without counting it as processed.
RowIncompleteUncounted(j) ==
    /\ AtRow(j)
    /\ ~imports[j].entries[imports[j].pos].country
    /\ imports' = [imports EXCEPT ![j].errors = @ + 1, ![j].pos = @ + 1,
                                  ![j].out = "row", ![j].pc = "check"]
    /\ UNCHANGED <<registry, table, reader>>

\* No country for the row: reported without a look at the database.
RowIncomplete(j) ==
    /\ AtRow(j)
    /\ ~imports[j].entries[imports[j].pos].country
    /\ imports' = [imports EXCEPT ![j].errors = @ + 1, ![j].processed = @ + 1, ![j].pos = @ + 1,
                                  ![j].out = "row", ![j].pc = "check"]
    /\ UNCHANGED <<registry, table, reader>>

\* Mutant: the INSERT without ON CONFLICT, on a table without the unique e164.
NeverKnown(n) == FALSE

Known(n) == table[n] # Nobody

\* INSERT ... ON CONFLICT DO NOTHING, and the counter of its outcome.  The answer to an
\* INSERT that was committed may be lost with the connection or the deadline.
RowInsert(j) ==
    LET n == imports[j].entries[imports[j].pos].number IN
    /\ AtRow(j)
    /\ imports[j].entries[imports[j].pos].country
    /\ \/ /\ imports' = [imports EXCEPT ![j].errors = @ + 1, ![j].out = "row", ![j].pc = "count"]
          /\ UNCHANGED table
       \/ /\ ~imports[j].late /\ Known(n)
          /\ imports' = [imports EXCEPT ![j].skipped = @ + 1, ![j].out = "row", ![j].pc = "count"]
          /\ UNCHANGED table
       \/ /\ ~imports[j].late /\ ~Known(n)
          /\ imports' = [imports EXCEPT ![j].added = @ + 1, ![j].out = "row", ![j].pc = "count"]
          /\ table' = [table EXCEPT ![n] = j]
       \/ /\ ~imports[j].late /\ ~Known(n)
          /\ imports' = [imports EXCEPT ![j].errors = @ + 1, ![j].out = "row", ![j].pc = "count",
                                        ![j].lost = TRUE]
          /\ table' = [table EXCEPT ![n] = j]
    /\ UNCHANGED <<registry, reader>>

RowCounted(j) ==
    /\ At(j, {"count"})
    /\ imports' = [imports EXCEPT ![j].processed = @ + 1, ![j].pos = @ + 1, ![j].pc = "check"]
    /\ UNCHANGED <<registry, table, reader>>

Finish(j) ==
    /\ At(j, {"check"}) /\ ~RowsLeft(j)
    /\ imports' = [imports EXCEPT ![j].status = "done", ![j].out = "progress", ![j].pc = "last"]
    /\ UNCHANGED <<registry, table, reader>>

LastEvent(j) ==
    /\ At(j, {"last"})
    /\ imports' = [imports EXCEPT ![j].out = "done", ![j].pc = "close"]
    /\ UNCHANGED <<registry, table, reader>>

\* Mutant: the worker returns without closing the channel.
CloseForgotten(j) ==
    /\ At(j, {"close"})
    /\ imports' = [imports EXCEPT ![j].pc = "ended"]
    /\ UNCHANGED <<registry, table, reader>>

Close(j) ==
    /\ At(j, {"close"})
    /\ imports' = [imports EXCEPT ![j].closed = TRUE, ![j].pc = "ended"]
    /\ UNCHANGED <<registry, table, reader>>

\* The deferred recover.
Panic(j) ==
    /\ MayPanic
    /\ At(j, {"check", "row", "count"})
    /\ imports' = [imports EXCEPT ![j] = [Cancelled(@) EXCEPT !.panicked = TRUE]]
    /\ UNCHANGED <<registry, table, reader>>

\* emit: there is room ...
Emit(j) ==
    /\ imports[j].out # NoEvent
    /\ Len(imports[j].events) < Buffer
    /\ imports' = [imports EXCEPT ![j].events = Append(@, imports[j].out), ![j].out = NoEvent]
    /\ UNCHANGED <<registry, table, reader>>

\* Mutant: emit waits for room as long as it takes.
WaitsWhenFull == FALSE

DropsWhenFull == TRUE

\* ... or none for a second.
Drop(j) ==
    /\ imports[j].out # NoEvent
    /\ Len(imports[j].events) = Buffer
    /\ DropsWhenFull
    /\ imports' = [imports EXCEPT ![j].out = NoEvent,
                                  ![j].waits = IF @ < Deadline THEN @ + 1 ELSE @]
    /\ UNCHANGED <<registry, table, reader>>

\* The ten minutes of the worker's context are over.
Expire(j) ==
    /\ imports[j].status = "running" /\ ~imports[j].late
    /\ SlowDb \/ imports[j].waits = Deadline
    /\ imports' = [imports EXCEPT ![j].late = TRUE]
    /\ UNCHANGED <<registry, table, reader>>

WorkerStep(j) ==
    \/ Begin(j) \/ Warn(j) \/ Progress(j) \/ Cancel(j) \/ RowIncomplete(j) \/ RowInsert(j)
    \/ RowCounted(j) \/ Finish(j) \/ LastEvent(j) \/ Close(j) \/ Panic(j) \/ Emit(j) \/ Drop(j)

-----------------------------------------------------------------------------
(* Everybody else *)

\* didImportStream finds the job; several connections may share its one channel.
Connect(r, j) ==
    /\ reader[r].state = "off" /\ j \in registry
    /\ reader' = [reader EXCEPT ![r] = [job |-> j, state |-> "on", last |-> NoEvent]]
    /\ UNCHANGED <<imports, registry, table>>

\* One event off the channel: sent, or lost together with the connection.
Take(r) ==
    LET j == reader[r].job IN
    /\ reader[r].state = "on" /\ imports[j].events # <<>>
    /\ imports' = [imports EXCEPT ![j].events = Tail(@)]
    /\ \/ reader' = [reader EXCEPT ![r].last = Head(imports[j].events)]
       \/ reader' = [reader EXCEPT ![r].state = "gone"]
    /\ UNCHANGED <<registry, table>>

StreamEnds(r) ==
    LET j == reader[r].job IN
    /\ reader[r].state = "on" /\ imports[j].events = <<>> /\ imports[j].closed
    /\ reader' = [reader EXCEPT ![r].state = "closed"]
    /\ UNCHANGED <<imports, registry, table>>

\* The browser goes away.
Leave(r) ==
    /\ reader[r].state = "on"
    /\ reader' = [reader EXCEPT ![r].state = "gone"]
    /\ UNCHANGED <<imports, registry, table>>

\* Mutant: the reaper goes by the age of the job alone.
CollectableByAge(j) == TRUE

Collectable(j) == imports[j].status \in Ended

\* reapOnce, ten minutes after the job ended or later.
Reap(j) ==
    /\ j \in registry /\ Collectable(j)
    /\ registry' = registry \ {j}
    /\ UNCHANGED <<imports, table, reader>>

\* didImportSubmit: a whole range in one transaction, existing numbers left alone.
SubmitRange(range) ==
    /\ \E n \in range : ~Known(n)
    /\ table' = [n \in Numbers |-> IF n \in range /\ ~Known(n) THEN Legacy ELSE table[n]]
    /\ UNCHANGED <<imports, registry, reader>>

ReaderStep(r) == Take(r) \/ StreamEnds(r)

ImportNext ==
    \/ \E j \in Imports :
        \/ \E form \in Forms : StartImport(j, form)
        \/ WorkerStep(j)
        \/ Expire(j)
        \/ Reap(j)
    \/ \E r \in Readers : ReaderStep(r) \/ Leave(r) \/ \E j \in Imports : Connect(r, j)
    \/ \E range \in Ranges : SubmitRange(range)

\* The Go scheduler runs every goroutine that can go on.
ImportFairness ==
    /\ \A j \in Imports : WF_importVars(WorkerStep(j))
    /\ \A r \in Readers : WF_importVars(ReaderStep(r))

ImportSpec == ImportInit /\ [][ImportNext]_importVars
ImportFairSpec == ImportSpec /\ ImportFairness

-----------------------------------------------------------------------------
(* Properties *)

\* added + skipped + errors accounts for every processed row and every warning, with
\* one row under way at most, and an import that says done has processed them all.
CountersAddUp ==
    \A j \in Imports :
        LET m == imports[j]
            counted == m.added + m.skipped + m.errors
            warned == IF m.pc \in {"none", "start", "warn"} THEN m.errors ELSE m.warnings
            underway == IF m.pc = "count" THEN 1 ELSE 0
        IN ~m.panicked => /\ counted = m.processed + warned + underway
                          /\ m.status = "done" => m.processed = Len(m.entries)

\* What the jobs together report as added is what they inserted: a number that two
\* jobs, a job twice, or a job and the older form import has one owner.  A job reports
\* fewer only when an answer of the database was lost.
AddedOnce ==
    \A j \in Imports :
        LET own == Cardinality({n \in Numbers : table[n] = j}) IN
        imports[j].added <= own /\ (imports[j].lost \/ imports[j].added = own)

\* The registry forgets no job whose worker has not ended it.
KnownWhileRunning ==
    \A j \in Imports : imports[j].status \in {"pending", "running"} => j \in registry

\* A connection that was alone on its job and ended because the channel was closed
\* got the done event last, unless the channel ran full on the way.
LoneReaderSeesDone ==
    \A r \in Readers :
        LET j == reader[r].job IN
        /\ reader[r].state = "closed"
        /\ imports[j].waits = 0
        /\ \A s \in Readers \ {r} : reader[s].job # j
        => reader[r].last = "done"

\* An import that ended keeps its verdict, and its worker sends nothing more once the
\* channel is closed (a send would panic).
EndIsFinal ==
    [][\A j \in Imports :
          /\ imports[j].status \in Ended => imports'[j].status = imports[j].status
          /\ imports[j].closed => Len(imports'[j].events) <= Len(imports[j].events)]_importVars

\* Every import that was started closes its channel, readers or not ...
WorkerEnds == \A j \in Imports : imports[j].status = "pending" ~> imports[j].closed

\* ... and every stream ends.
StreamsEnd == \A r \in Readers : reader[r].state = "on" ~> reader[r].state # "on"

\* The import outlives the request: with a database that answers, no reader's absence
\* makes an import fail.
OutlivesReaders == \A j \in Imports : imports[j].status # "errored"
===============================================================================
