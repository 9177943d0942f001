---------------------------- MODULE EventLedger ----------------------------
(***************************************************************************)
(* runtime/event_store.py: the NDJSON file behind the event store.         *)
(*                                                                         *)
(* An append repairs the tail of the file, looks for an event with the     *)
(* same id or idempotency key, writes the serialized event and its newline *)
(* and syncs.  The ledger lock is held throughout, so there is one writer  *)
(* at a time; but a crash, or a write that fails half-way, leaves whatever *)
(* prefix of the line was written, and the next writer or reader finds it. *)
(***************************************************************************)
EXTENDS SequencesExt, Naturals

CONSTANTS
    Ids, Keys,      \* event ids and idempotency keys; contents do not matter
    NewlineTears    \* may a write stop between the event and its newline?

ASSUME NewlineTearsAssumption == NewlineTears \in BOOLEAN

Event == [id: Ids, key: Keys]

VARIABLES
    file,           \* the lines of the file: what each holds and how it ends
    writing,        \* the event being appended: <<>> or <<event>>
    wrote,          \* how much of its line has reached the file
    found,          \* the file as the append found it, repaired
    acknowledged    \* the events reported as "appended"

vars == <<file, writing, wrote, found, acknowledged>>

(***************************************************************************)
(* A line: the events whose text it holds, whether the last of them is     *)
(* there to its closing brace, and whether a newline ends the line.        *)
(***************************************************************************)
Line == [events: Seq(Event), whole: BOOLEAN, ended: BOOLEAN]

\* json.loads accepts exactly one whole object.
Valid(line) == line.whole /\ Len(line.events) = 1

\* Every line but the last must parse; otherwise reading raises EventStoreError.
Readable(lines) == \A i \in 1..Len(lines) - 1 : Valid(lines[i])

\* A repair that keeps the torn text and ends its line.
ClosedTail(lines) ==
    IF lines # <<>> /\ ~Valid(Last(lines))
    THEN Append(Front(lines), [Last(lines) EXCEPT !.ended = TRUE])
    ELSE lines

(***************************************************************************)
(* _repair_trailing_partial_write: a last line that does not parse is cut  *)
(* off.  A last line that parses is left as it is, newline or not.         *)
(***************************************************************************)
Repaired(lines) ==
    IF lines # <<>> /\ ~Valid(Last(lines)) THEN Front(lines) ELSE lines

\* Bytes appended to the file continue its last line if no newline ends it.
Extended(lines, text) ==
    IF lines = <<>> \/ Last(lines).ended
    THEN Append(lines, text)
    ELSE Append(Front(lines), [text EXCEPT !.events = Last(lines).events \o @])

\* What a reader is given.
EventsOf(lines) == [i \in 1..Len(Repaired(lines)) |-> lines[i].events[1]]

StoredIn(lines) == {EventsOf(lines)[i] : i \in 1..Len(EventsOf(lines))}

\* A duplicate check that forgets the idempotency key.
SameId(e, f) == e.id = f.id

\* _find_duplicate_or_conflict: a duplicate if the bodies agree, else a conflict.
Clash(e, f) == e.id = f.id \/ e.key = f.key

TypeOK ==
    /\ file \in Seq(Line)
    /\ found \in Seq(Line)
    /\ writing \in {<<>>} \cup {<<e>> : e \in Event}
    /\ wrote \in {"nothing", "part", "event", "line"}
    /\ acknowledged \subseteq Event

Init ==
    /\ file = <<>>
    /\ writing = <<>>
    /\ wrote = "nothing"
    /\ found = <<>>
    /\ acknowledged = {}

-----------------------------------------------------------------------------
\* recover_ledger, and the first thing every read does.
Recover ==
    /\ writing = <<>>
    /\ Readable(file)
    /\ file' = Repaired(file)
    /\ UNCHANGED <<writing, wrote, found, acknowledged>>

(***************************************************************************)
(* An append that finds a clash stores nothing: outcome "duplicate" when   *)
(* the contents are equal, EventIdConflictError or IdempotencyConflictError*)
(* when they differ.                                                       *)
(***************************************************************************)
RefuseAppend(e) ==
    /\ writing = <<>>
    /\ Readable(file)
    /\ \E f \in StoredIn(file) : Clash(e, f)
    /\ file' = Repaired(file)
    /\ UNCHANGED <<writing, wrote, found, acknowledged>>

\* An append that does not repair the tail first.
UnrepairedBeginAppend(e) ==
    /\ writing = <<>>
    /\ \A f \in StoredIn(file) : ~Clash(e, f)
    /\ found' = file
    /\ writing' = <<e>>
    /\ wrote' = "nothing"
    /\ UNCHANGED <<file, acknowledged>>

\* An append that does not wait for the ledger lock.
UnlockedBeginAppend(e) ==
    /\ Readable(file)
    /\ \A f \in StoredIn(file) : ~Clash(e, f)
    /\ file' = Repaired(file)
    /\ found' = Repaired(file)
    /\ writing' = Append(writing, e)
    /\ wrote' = "nothing"
    /\ UNCHANGED acknowledged

BeginAppend(e) ==
    /\ writing = <<>>
    /\ Readable(file)
    /\ \A f \in StoredIn(file) : ~Clash(e, f)
    /\ file' = Repaired(file)
    /\ found' = Repaired(file)
    /\ writing' = <<e>>
    /\ wrote' = "nothing"
    /\ UNCHANGED acknowledged

\* _write_all: the bytes go out in order, in as many writes as it takes.
WriteUpTo(amount, whole, ended) ==
    /\ writing # <<>>
    /\ file' = Extended(found, [events |-> writing, whole |-> whole, ended |-> ended])
    /\ wrote' = amount
    /\ UNCHANGED <<writing, found, acknowledged>>

WritePart  == wrote = "nothing" /\ WriteUpTo("part",  FALSE, FALSE)
WriteEvent == wrote = "part"    /\ WriteUpTo("event", TRUE,  FALSE)
WriteLine  == wrote = "event"   /\ WriteUpTo("line",  TRUE,  TRUE)

\* An append that reports success before its line is complete.
EarlyReturn ==
    /\ writing # <<>>
    /\ wrote # "nothing"
    /\ acknowledged' = acknowledged \cup {writing[1]}
    /\ writing' = <<>>
    /\ UNCHANGED <<file, wrote, found>>

\* The line is synced; append_event reports "appended" and releases the lock.
Return ==
    /\ writing # <<>>
    /\ wrote = "line"
    /\ acknowledged' = acknowledged \cup {writing[1]}
    /\ writing' = <<>>
    /\ wrote' = "nothing"
    /\ found' = <<>>
    /\ UNCHANGED file

(***************************************************************************)
(* The process dies or its write raises: nothing is undone.  NewlineTears  *)
(* says whether the newline, the last byte, can be what is missing.        *)
(***************************************************************************)
Crash ==
    /\ writing # <<>>
    /\ wrote = "event" => NewlineTears
    /\ writing' = <<>>
    /\ wrote' = "nothing"
    /\ found' = <<>>
    /\ UNCHANGED <<file, acknowledged>>

Next ==
    \/ Recover
    \/ \E e \in Event : RefuseAppend(e) \/ BeginAppend(e)
    \/ WritePart \/ WriteEvent \/ WriteLine
    \/ Return
    \/ Crash

Spec == Init /\ [][Next]_vars

-----------------------------------------------------------------------------
(***************************************************************************)
(* An event that was reported as appended stays readable.                  *)
(***************************************************************************)
AcknowledgedStored == acknowledged \subseteq StoredIn(file)

(***************************************************************************)
(* No id and no idempotency key is stored twice, whatever was cut off and  *)
(* submitted again.                                                        *)
(***************************************************************************)
StoredOnce ==
    \A i, j \in 1..Len(EventsOf(file)) : i # j =>
        /\ EventsOf(file)[i].id # EventsOf(file)[j].id
        /\ EventsOf(file)[i].key # EventsOf(file)[j].key

(***************************************************************************)
(* Damage never gets behind the tail, where no repair would remove it and  *)
(* every later command would fail.                                         *)
(***************************************************************************)
OnlyTheTailIsTorn == Readable(file)

(***************************************************************************)
(* The file implements the abstract log: what a reader is given only ever  *)
(* grows at its end (ARCHITECTURE.md section 9, "No mutation or deletion   *)
(* of accepted events"), and nothing is acknowledged before it is there.   *)
(***************************************************************************)
Log == INSTANCE AppendOnlyLog WITH Events <- Event, log <- EventsOf(file)

ImplementsLog == Log!Spec
=============================================================================
