------------------------- MODULE EventLedgerProofs -------------------------
(***************************************************************************)
(* What TLAPS proves of EventLedger: with writes that never stop right     *)
(* before a newline, the file is an append-only log, for any number of     *)
(* events and of crashes.                                                  *)
(***************************************************************************)
EXTENDS EventLedger, SequenceTheorems, TLAPS

-----------------------------------------------------------------------------
(* Lines, before and after a repair.                                       *)

\* Every line is a whole event and its newline.
Clean(lines) == \A i \in 1..Len(lines) : Valid(lines[i]) /\ lines[i].ended

LEMMA RepairedProperties ==
  ASSUME NEW lines \in Seq(Line)
  PROVE  /\ Repaired(lines) \in Seq(Line)
         /\ Len(Repaired(lines)) <= Len(lines)
         /\ \A i \in 1..Len(Repaired(lines)) : Repaired(lines)[i] = lines[i]
         /\ Readable(lines) => \A i \in 1..Len(Repaired(lines)) : Valid(lines[i])
<1>0. Len(lines) \in Nat /\ \A i \in 1..Len(lines) : lines[i] \in Line
  BY LenProperties, ElementOfSeq
<1>1. CASE lines # <<>> /\ ~Valid(Last(lines))
  <2>1. Repaired(lines) = SubSeq(lines, 1, Len(lines) - 1)
    BY <1>1 DEF Repaired, Front
  <2>2. Len(lines) > 0
    BY <1>0, <1>1, EmptySeq
  <2>3. /\ SubSeq(lines, 1, Len(lines) - 1) \in Seq(Line)
        /\ Len(SubSeq(lines, 1, Len(lines) - 1)) = Len(lines) - 1
        /\ \A i \in 1..Len(lines) - 1 : SubSeq(lines, 1, Len(lines) - 1)[i] = lines[i]
    <3> DEFINE n == Len(lines) - 1
    <3>1. n \in Nat /\ \A i \in 1..n : lines[i] \in Line
      BY <1>0, <2>2
    <3> HIDE DEF n
    <3>2. /\ SubSeq(lines, 1, n) \in Seq(Line)
          /\ Len(SubSeq(lines, 1, n)) = n
          /\ \A i \in 1..n : SubSeq(lines, 1, n)[i] = lines[i]
      BY <3>1, SubSeqProperties
    <3> QED
      BY <3>2 DEF n
  <2> QED
    BY <1>0, <2>1, <2>2, <2>3 DEF Readable
<1>2. CASE ~(lines # <<>> /\ ~Valid(Last(lines)))
  <2>1. Repaired(lines) = lines
    BY <1>2 DEF Repaired
  <2>2. Readable(lines) => \A i \in 1..Len(lines) : Valid(lines[i])
    BY <1>0, <1>2, EmptySeq DEF Readable, Last
  <2> QED
    BY <1>0, <2>1, <2>2
<1> QED
  BY <1>1, <1>2

LEMMA ValidLinesStay ==
  ASSUME NEW lines \in Seq(Line), \A i \in 1..Len(lines) : Valid(lines[i])
  PROVE  Repaired(lines) = lines /\ Readable(lines)
<1>1. Len(lines) \in Nat /\ (lines # <<>> => Len(lines) \in 1..Len(lines))
  BY LenProperties, EmptySeq
<1> QED
  BY <1>1 DEF Repaired, Last, Readable

\* A reader is given the same before and after a repair.
LEMMA RepairKeepsEvents ==
  ASSUME NEW lines \in Seq(Line), Readable(lines)
  PROVE  /\ Readable(Repaired(lines))
         /\ Repaired(Repaired(lines)) = Repaired(lines)
         /\ EventsOf(Repaired(lines)) = EventsOf(lines)
<1>1. /\ Repaired(lines) \in Seq(Line)
      /\ \A i \in 1..Len(Repaired(lines)) :
             Repaired(lines)[i] = lines[i] /\ Valid(Repaired(lines)[i])
  BY RepairedProperties
<1>2. Repaired(Repaired(lines)) = Repaired(lines) /\ Readable(Repaired(lines))
  BY <1>1, ValidLinesStay
<1> QED
  BY <1>1, <1>2 DEF EventsOf

LEMMA EventsAreASequence ==
  ASSUME NEW lines \in Seq(Line), Readable(lines)
  PROVE  /\ EventsOf(lines) \in Seq(Event)
         /\ Len(EventsOf(lines)) = Len(Repaired(lines))
         /\ \A i \in 1..Len(Repaired(lines)) : EventsOf(lines)[i] = lines[i].events[1]
<1>1. /\ Repaired(lines) \in Seq(Line)
      /\ \A i \in 1..Len(Repaired(lines)) :
             Repaired(lines)[i] = lines[i] /\ Valid(Repaired(lines)[i])
  BY RepairedProperties
<1>2. Len(Repaired(lines)) \in Nat
  BY <1>1, LenProperties
<1>3. ASSUME NEW i \in 1..Len(Repaired(lines)) PROVE lines[i].events[1] \in Event
  <2>1. Repaired(lines)[i] \in Line /\ Len(Repaired(lines)[i].events) = 1
    BY <1>1, ElementOfSeq DEF Valid
  <2>2. Repaired(lines)[i].events \in Seq(Event)
    BY <2>1 DEF Line
  <2>3. Repaired(lines)[i].events[1] \in Event
    BY <2>1, <2>2, ElementOfSeq
  <2> QED
    BY <1>1, <2>3
<1> DEFINE e(i) == lines[i].events[1]
<1>4. [i \in 1..Len(Repaired(lines)) |-> e(i)] \in Seq(Event)
  <2>1. \A i \in 1..Len(Repaired(lines)) : e(i) \in Event
    BY <1>3
  <2> HIDE DEF e
  <2> QED
    BY <1>2, <2>1, IsASeq
<1>5. EventsOf(lines) = [i \in 1..Len(Repaired(lines)) |-> e(i)]
  BY DEF EventsOf
<1>6. Len(EventsOf(lines)) = Len(Repaired(lines))
  BY <1>2, <1>4, <1>5, LenProperties
<1> QED
  BY <1>4, <1>5, <1>6

-----------------------------------------------------------------------------
(* What a write adds to lines that are clean.                              *)

LEMMA CleanIsExtended ==
  ASSUME NEW lines \in Seq(Line), Clean(lines), NEW text \in Line
  PROVE  Extended(lines, text) = Append(lines, text)
<1>1. lines # <<>> => Len(lines) \in 1..Len(lines)
  BY LenProperties, EmptySeq
<1> QED
  BY <1>1 DEF Extended, Clean, Last

LEMMA CleanIsRepaired ==
  ASSUME NEW lines \in Seq(Line), Clean(lines)
  PROVE  Repaired(lines) = lines /\ Readable(lines)
BY ValidLinesStay DEF Clean

LEMMA TornLineIsInvisible ==
  ASSUME NEW lines \in Seq(Line), Clean(lines), NEW text \in Line, ~Valid(text)
  PROVE  /\ Append(lines, text) \in Seq(Line)
         /\ Readable(Append(lines, text))
         /\ Repaired(Append(lines, text)) = lines
         /\ EventsOf(Append(lines, text)) = EventsOf(lines)
<1> DEFINE longer == Append(lines, text)
<1>1. /\ longer \in Seq(Line) /\ longer # <<>>
      /\ Len(lines) \in Nat /\ Len(longer) = Len(lines) + 1
      /\ \A i \in 1..Len(lines) : longer[i] = lines[i]
      /\ longer[Len(lines) + 1] = text
  BY AppendProperties, LenProperties
<1> HIDE DEF longer
<1>2. Repaired(longer) = SubSeq(longer, 1, Len(lines))
  BY <1>1 DEF Repaired, Last, Front
<1>3. \A i \in 1..Len(lines) : longer[i] \in Line
  BY <1>1, ElementOfSeq
<1>4. Repaired(longer) = lines
  <2>1. /\ SubSeq(longer, 1, Len(lines)) \in Seq(Line)
        /\ Len(SubSeq(longer, 1, Len(lines))) = Len(lines)
        /\ \A i \in 1..Len(lines) : SubSeq(longer, 1, Len(lines))[i] = longer[i]
    BY <1>1, <1>3, SubSeqProperties
  <2> QED
    BY <1>1, <1>2, <2>1, SeqEqual
<1>5. Readable(longer)
  BY <1>1 DEF Readable, Clean
<1>6. EventsOf(longer) = EventsOf(lines)
  BY <1>1, <1>4, CleanIsRepaired DEF EventsOf
<1> QED
  BY <1>1, <1>4, <1>5, <1>6 DEF longer

LEMMA WholeLineIsStored ==
  ASSUME NEW lines \in Seq(Line), Clean(lines), NEW text \in Line, Valid(text)
  PROVE  /\ Append(lines, text) \in Seq(Line)
         /\ Readable(Append(lines, text))
         /\ Repaired(Append(lines, text)) = Append(lines, text)
         /\ EventsOf(Append(lines, text)) = Append(EventsOf(lines), text.events[1])
<1> DEFINE longer == Append(lines, text)
<1>1. /\ longer \in Seq(Line)
      /\ Len(lines) \in Nat /\ Len(longer) = Len(lines) + 1
      /\ \A i \in 1..Len(lines) : longer[i] = lines[i]
      /\ longer[Len(lines) + 1] = text
  BY AppendProperties, LenProperties
<1> HIDE DEF longer
<1>2. \A i \in 1..Len(longer) : Valid(longer[i])
  BY <1>1 DEF Clean
<1>3. Repaired(longer) = longer /\ Readable(longer)
  BY <1>1, <1>2, ValidLinesStay
<1>4. Repaired(lines) = lines /\ Readable(lines)
  BY CleanIsRepaired
<1>5. /\ EventsOf(longer) \in Seq(Event) /\ Len(EventsOf(longer)) = Len(lines) + 1
      /\ \A i \in 1..Len(lines) + 1 : EventsOf(longer)[i] = longer[i].events[1]
  BY <1>1, <1>3, EventsAreASequence
<1>6. /\ EventsOf(lines) \in Seq(Event) /\ Len(EventsOf(lines)) = Len(lines)
      /\ \A i \in 1..Len(lines) : EventsOf(lines)[i] = lines[i].events[1]
  BY <1>4, EventsAreASequence
<1>7. text.events[1] \in Event
  BY <1>1, <1>5, ElementOfSeq
<1>8. /\ Append(EventsOf(lines), text.events[1]) \in Seq(Event)
      /\ Len(Append(EventsOf(lines), text.events[1])) = Len(lines) + 1
      /\ \A i \in 1..Len(lines) :
             Append(EventsOf(lines), text.events[1])[i] = EventsOf(lines)[i]
      /\ Append(EventsOf(lines), text.events[1])[Len(lines) + 1] = text.events[1]
  BY <1>6, <1>7, AppendProperties
<1>9. ASSUME NEW i \in 1..Len(lines) + 1
      PROVE  EventsOf(longer)[i] = Append(EventsOf(lines), text.events[1])[i]
  BY <1>1, <1>5, <1>6, <1>8
<1>10. EventsOf(longer) = Append(EventsOf(lines), text.events[1])
  BY <1>5, <1>8, <1>9, SeqEqual
<1> QED
  BY <1>1, <1>3, <1>10 DEF longer

-----------------------------------------------------------------------------
(* The invariant.  While an append is under way the file is what the       *)
(* append found, clean, and as much of its line as was written; before and *)
(* after, only a last line that does not parse may be there besides clean  *)
(* ones.                                                                   *)

\* The part of its line that an append has written.
Written == [events |-> writing, whole |-> wrote # "part", ended |-> wrote = "line"]

AppendUnderWay ==
    writing # <<>> =>
        /\ found \in Seq(Line)
        /\ Clean(found)
        /\ file = IF wrote = "nothing" THEN found ELSE Append(found, Written)
        /\ \A f \in StoredIn(found) : ~Clash(writing[1], f)

AtRest ==
    writing = <<>> => wrote = "nothing" /\ Readable(file) /\ Clean(Repaired(file))

LedgerInv == TypeOK /\ AppendUnderWay /\ AtRest

LEMMA WritingIsAnEvent ==
  ASSUME TypeOK, writing # <<>>
  PROVE  /\ writing = <<writing[1]>> /\ writing[1] \in Event
         /\ writing \in Seq(Event) /\ Len(writing) = 1
<1>1. PICK e \in Event : writing = <<e>>
  BY DEF TypeOK
<1>2. <<e>> \in Seq(Event) /\ Len(<<e>>) = 1 /\ <<e>>[1] = e
  OBVIOUS
<1> QED
  BY <1>1, <1>2

LEMMA WrittenIsALine ==
  ASSUME TypeOK, writing # <<>>, NEW whole \in BOOLEAN, NEW ended \in BOOLEAN
  PROVE  /\ [events |-> writing, whole |-> whole, ended |-> ended] \in Line
         /\ Valid([events |-> writing, whole |-> whole, ended |-> ended]) <=> whole
BY WritingIsAnEvent DEF Line, Valid

(***************************************************************************)
(* What each state of an append looks like to a reader.                    *)
(***************************************************************************)
ReaderView ==
    /\ Readable(file)
    /\ writing # <<>> =>
           EventsOf(file) = IF wrote \in {"event", "line"}
                            THEN Append(EventsOf(found), writing[1])
                            ELSE EventsOf(found)

LEMMA ReadersSee == LedgerInv => ReaderView
<1> SUFFICES ASSUME LedgerInv PROVE ReaderView
  OBVIOUS
<1> USE DEF ReaderView
<1>1. CASE writing = <<>>
  BY <1>1 DEF LedgerInv, AtRest
<1>2. CASE writing # <<>> /\ wrote = "nothing"
  BY <1>2, CleanIsRepaired DEF LedgerInv, AppendUnderWay
<1>3. CASE writing # <<>> /\ wrote = "part"
  <2>1. Written \in Line /\ ~Valid(Written)
    BY <1>3, WrittenIsALine DEF LedgerInv, Written
  <2> QED
    BY <1>3, <2>1, TornLineIsInvisible DEF LedgerInv, AppendUnderWay
<1>4. CASE writing # <<>> /\ wrote \in {"event", "line"}
  <2>1. Written \in Line /\ Valid(Written) /\ Written.events[1] = writing[1]
    BY <1>4, WrittenIsALine DEF LedgerInv, Written
  <2>2. file = Append(found, Written) /\ found \in Seq(Line) /\ Clean(found)
    BY <1>4 DEF LedgerInv, AppendUnderWay
  <2> QED
    BY <1>4, <2>1, <2>2, WholeLineIsStored
<1> QED
  BY <1>1, <1>2, <1>3, <1>4 DEF LedgerInv, TypeOK

LEMMA InvInitially == Init => LedgerInv
<1> SUFFICES ASSUME Init PROVE LedgerInv
  OBVIOUS
<1>1. <<>> \in Seq(Line) /\ Len(<<>>) = 0
  BY EmptySeq
<1>2. Repaired(<<>>) = <<>>
  BY DEF Repaired
<1> QED
  BY <1>1, <1>2 DEF Init, LedgerInv, TypeOK, AppendUnderWay, AtRest, Readable, Clean

(***************************************************************************)
(* A repair that starts or refuses an append leaves clean lines: a last    *)
(* line that parses has its newline, since no write stops between them.    *)
(***************************************************************************)
LEMMA InvIsKept ==
  ASSUME ~NewlineTears, LedgerInv, [Next]_vars
  PROVE  LedgerInv'
<1>0. TypeOK /\ AppendUnderWay /\ AtRest
  BY DEF LedgerInv
<1>1. CASE UNCHANGED vars
  BY <1>0, <1>1
     DEF vars, LedgerInv, TypeOK, AppendUnderWay, AtRest, Written
<1>2. CASE Recover \/ \E e \in Event : RefuseAppend(e)
  <2>1. /\ writing = <<>> /\ Readable(file) /\ file' = Repaired(file)
        /\ UNCHANGED <<writing, wrote, found, acknowledged>>
    BY <1>2 DEF Recover, RefuseAppend
  <2>2. Readable(file') /\ Repaired(file') = file' /\ file' \in Seq(Line)
    BY <1>0, <2>1, RepairKeepsEvents, RepairedProperties DEF TypeOK
  <2> QED
    BY <1>0, <2>1, <2>2 DEF LedgerInv, TypeOK, AppendUnderWay, AtRest
<1>3. ASSUME NEW e \in Event, BeginAppend(e) PROVE LedgerInv'
  <2>1. /\ writing = <<>> /\ Readable(file) /\ Clean(Repaired(file))
        /\ Repaired(file) \in Seq(Line) /\ EventsOf(Repaired(file)) = EventsOf(file)
    BY <1>0, <1>3, RepairKeepsEvents, RepairedProperties DEF BeginAppend, AtRest, TypeOK
  <2>2. \A f \in StoredIn(Repaired(file)) : ~Clash(e, f)
    BY <1>3, <2>1 DEF BeginAppend, StoredIn
  <2> QED
    BY <1>0, <1>3, <2>1, <2>2 DEF BeginAppend, LedgerInv, TypeOK, AppendUnderWay, AtRest
<1>4. ASSUME NEW amount \in {"part", "event", "line"},
             WriteUpTo(amount, amount # "part", amount = "line")
      PROVE  LedgerInv'
  <2> DEFINE text == [events |-> writing, whole |-> amount # "part",
                      ended |-> amount = "line"]
  <2>1. text \in Line
    BY <1>0, <1>4, WrittenIsALine DEF WriteUpTo
  <2>2. file' = Append(found, text) /\ Append(found, text) \in Seq(Line)
    BY <1>0, <1>4, <2>1, CleanIsExtended, AppendProperties DEF WriteUpTo, AppendUnderWay
  <2>3. text = Written'
    BY <1>4 DEF WriteUpTo, Written
  <2> HIDE DEF text
  <2> QED
    BY <1>0, <1>4, <2>2, <2>3 DEF WriteUpTo, LedgerInv, TypeOK, AppendUnderWay, AtRest
<1>5. CASE Return
  <2>1. /\ writing # <<>> /\ wrote = "line" /\ Written \in Line /\ Valid(Written)
        /\ Written.ended
    BY <1>0, <1>5, WrittenIsALine DEF Return, Written
  <2>2. found \in Seq(Line) /\ Clean(found) /\ file = Append(found, Written)
    BY <1>0, <2>1 DEF AppendUnderWay
  <2>3. Readable(file) /\ Repaired(file) = file
    BY <2>1, <2>2, WholeLineIsStored
  <2>4. Clean(file)
    BY <2>1, <2>2, AppendProperties, LenProperties DEF Clean
  <2>5. writing[1] \in Event
    BY <1>0, <2>1, WritingIsAnEvent
  <2>6. <<>> \in Seq(Line)
    BY EmptySeq
  <2> QED
    BY <1>0, <1>5, <2>3, <2>4, <2>5, <2>6
       DEF Return, LedgerInv, TypeOK, AppendUnderWay, AtRest
<1>6. CASE Crash
  <2>1. writing # <<>> /\ wrote \in {"nothing", "part", "line"}
    BY <1>0, <1>6 DEF Crash, TypeOK
  <2>2. found \in Seq(Line) /\ Clean(found)
    BY <1>0, <2>1 DEF AppendUnderWay
  <2>3. Readable(file) /\ Clean(Repaired(file))
    <3>1. CASE wrote = "nothing"
      BY <1>0, <2>1, <2>2, <3>1, CleanIsRepaired DEF AppendUnderWay
    <3>2. CASE wrote = "part"
      <4>1. Written \in Line /\ ~Valid(Written)
        BY <1>0, <2>1, <3>2, WrittenIsALine DEF Written
      <4> QED
        BY <1>0, <2>1, <2>2, <3>2, <4>1, TornLineIsInvisible DEF AppendUnderWay
    <3>3. CASE wrote = "line"
      <4>1. Written \in Line /\ Valid(Written) /\ Written.ended
        BY <1>0, <2>1, <3>3, WrittenIsALine DEF Written
      <4>2. file = Append(found, Written)
        BY <1>0, <2>1, <3>3 DEF AppendUnderWay
      <4>3. Readable(file) /\ Repaired(file) = file
        BY <2>2, <4>1, <4>2, WholeLineIsStored
      <4>4. Clean(file)
        BY <2>2, <4>1, <4>2, AppendProperties, LenProperties DEF Clean
      <4> QED
        BY <4>3, <4>4
    <3> QED
      BY <2>1, <3>1, <3>2, <3>3
  <2>4. <<>> \in Seq(Line)
    BY EmptySeq
  <2> QED
    BY <1>0, <1>6, <2>3, <2>4 DEF Crash, LedgerInv, TypeOK, AppendUnderWay, AtRest
<1>7. WritePart \/ WriteEvent \/ WriteLine => LedgerInv'
  BY <1>4 DEF WritePart, WriteEvent, WriteLine
<1> QED
  BY <1>1, <1>2, <1>3, <1>5, <1>6, <1>7 DEF Next

LEMMA InvHolds ==
  ASSUME ~NewlineTears
  PROVE  Spec => []LedgerInv
<1>1. LedgerInv /\ [Next]_vars => LedgerInv'
  BY InvIsKept
<1> QED
  BY <1>1, InvInitially, PTL DEF Spec

-----------------------------------------------------------------------------
(* The abstract log.                                                       *)

(***************************************************************************)
(* A step stores one event that clashes with none before it, acknowledges  *)
(* one that is stored, or leaves what a reader is given as it was.         *)
(***************************************************************************)
LEMMA StepsMapToSteps ==
  ASSUME ~NewlineTears, LedgerInv, [Next]_vars
  PROVE  [Log!Next]_<<EventsOf(file), acknowledged>>
<1> DEFINE abstract == <<EventsOf(file), acknowledged>>
<1>0. TypeOK /\ AppendUnderWay /\ AtRest /\ Readable(file) /\ file \in Seq(Line)
  BY ReadersSee DEF LedgerInv, ReaderView, TypeOK
<1>1. ReaderView /\ ReaderView'
  <2>1. LedgerInv'
    BY InvIsKept
  <2>2. LedgerInv' => ReaderView'
    BY ReadersSee, PTL
  <2> QED
    BY <2>1, <2>2, ReadersSee
<1>2. CASE UNCHANGED vars
  BY <1>2 DEF vars, EventsOf, Repaired
<1>3. ASSUME file' = Repaired(file), acknowledged' = acknowledged
      PROVE  UNCHANGED abstract
  <2>1. EventsOf(Repaired(file)) = EventsOf(file)
    BY <1>0, RepairKeepsEvents
  <2>2. EventsOf(file)' = EventsOf(file')
    BY DEF EventsOf, Repaired
  <2> QED
    BY <1>3, <2>1, <2>2
<1>4. CASE Recover \/ \E e \in Event : RefuseAppend(e) \/ BeginAppend(e)
  BY <1>3, <1>4 DEF Recover, RefuseAppend, BeginAppend
<1>5. CASE WritePart \/ WriteLine
  <2>1. /\ writing # <<>> /\ writing' = writing /\ found' = found
        /\ acknowledged' = acknowledged
        /\ wrote \in {"event", "line"} <=> wrote' \in {"event", "line"}
    BY <1>5 DEF WritePart, WriteLine, WriteUpTo
  <2>2. EventsOf(found)' = EventsOf(found)
    BY <2>1 DEF EventsOf, Repaired
  <2>3. EventsOf(file)' = EventsOf(file)
    BY <1>1, <2>1, <2>2 DEF ReaderView
  <2> QED
    BY <2>1, <2>3
<1>6. CASE WriteEvent
  <2>1. /\ writing # <<>> /\ writing' = writing /\ found' = found
        /\ acknowledged' = acknowledged
        /\ wrote = "part" /\ wrote' = "event"
    BY <1>6 DEF WriteEvent, WriteUpTo
  <2>2. EventsOf(found)' = EventsOf(found)
    BY <2>1 DEF EventsOf, Repaired
  <2>3. EventsOf(file) = EventsOf(found)
    BY <1>1, <2>1 DEF ReaderView
  <2>4. EventsOf(file)' = Append(EventsOf(file), writing[1])
    BY <1>1, <2>1, <2>2, <2>3 DEF ReaderView
  <2>5. \A f \in Log!Stored : ~Log!Clash(writing[1], f)
    BY <1>0, <2>1, <2>3 DEF AppendUnderWay, StoredIn, Log!Stored, Clash, Log!Clash
  <2>6. writing[1] \in Event
    BY <1>0, <2>1, WritingIsAnEvent
  <2> QED
    BY <2>1, <2>4, <2>5, <2>6 DEF Log!Next, Log!Store
<1>7. CASE Return
  <2>1. /\ writing # <<>> /\ wrote = "line" /\ file' = file
        /\ acknowledged' = acknowledged \cup {writing[1]}
    BY <1>7 DEF Return
  <2>2. EventsOf(file)' = EventsOf(file)
    BY <2>1 DEF EventsOf, Repaired
  <2>3. found \in Seq(Line) /\ Readable(found)
    BY <1>0, <2>1, CleanIsRepaired DEF AppendUnderWay
  <2>4. EventsOf(file) = Append(EventsOf(found), writing[1])
    BY <1>1, <2>1 DEF ReaderView
  <2>5. writing[1] \in Event
    BY <1>0, <2>1, WritingIsAnEvent
  <2>6. EventsOf(found) \in Seq(Event)
    BY <2>3, EventsAreASequence
  <2>7. /\ Len(EventsOf(file)) \in 1..Len(EventsOf(file))
        /\ EventsOf(file)[Len(EventsOf(file))] = writing[1]
    BY <2>4, <2>5, <2>6, AppendProperties, LenProperties
  <2>8. writing[1] \in Log!Stored
    BY <2>7 DEF Log!Stored
  <2> QED
    BY <2>1, <2>2, <2>5, <2>8 DEF Log!Next, Log!Acknowledge
<1>8. CASE Crash
  BY <1>8 DEF Crash, EventsOf, Repaired
<1> QED
  BY <1>2, <1>4, <1>5, <1>6, <1>7, <1>8 DEF Next

(***************************************************************************)
(* However often the process dies between two writes, the file implements  *)
(* the abstract log: what a reader is given only grows at its end, by      *)
(* events that clash with none before them, and nothing is acknowledged    *)
(* before it is there.                                                     *)
(***************************************************************************)
THEOREM FileImplementsLog ==
  ASSUME ~NewlineTears
  PROVE  Spec => ImplementsLog
<1>1. Init => Log!Init
  <2>1. Repaired(<<>>) = <<>>
    BY DEF Repaired
  <2>2. EventsOf(<<>>) = <<>>
    BY <2>1 DEF EventsOf
  <2> QED
    BY <2>2 DEF Init, Log!Init
<1>2. LedgerInv /\ [Next]_vars => [Log!Next]_<<EventsOf(file), acknowledged>>
  BY StepsMapToSteps
<1> QED
  BY <1>1, <1>2, InvHolds, PTL DEF Spec, ImplementsLog, Log!Spec

-----------------------------------------------------------------------------
(* What the invariant and the abstract log give a reader of the file.      *)

(***************************************************************************)
(* Through appends, refusals, repairs and deaths the lines stay lines, the *)
(* one append under way is of one event, and only events of the model are  *)
(* acknowledged.                                                           *)
(***************************************************************************)
THEOREM LedgerTypeCorrect ==
  ASSUME ~NewlineTears
  PROVE  Spec => []TypeOK
<1>1. LedgerInv => TypeOK
  BY DEF LedgerInv
<1> QED
  BY <1>1, InvHolds, PTL

(***************************************************************************)
(* No death in the middle of a write leaves a torn line behind the tail,   *)
(* where no repair removes it and every later read raises.                 *)
(***************************************************************************)
THEOREM DamageStaysAtTheTail ==
  ASSUME ~NewlineTears
  PROVE  Spec => []OnlyTheTailIsTorn
<1>1. LedgerInv => OnlyTheTailIsTorn
  BY ReadersSee DEF ReaderView, OnlyTheTailIsTorn
<1> QED
  BY <1>1, InvHolds, PTL

\* What a reader is given is a sequence of events, and an append puts its event last.
LEMMA StoringAddsOne ==
  ASSUME LedgerInv, NEW e \in Event, EventsOf(file)' = Append(EventsOf(file), e)
  PROVE  /\ Len(EventsOf(file)) \in Nat
         /\ Len(EventsOf(file)') = Len(EventsOf(file)) + 1
         /\ \A i \in 1..Len(EventsOf(file)) : EventsOf(file)'[i] = EventsOf(file)[i]
         /\ EventsOf(file)'[Len(EventsOf(file)) + 1] = e
<1>1. EventsOf(file) \in Seq(Event)
  BY ReadersSee, EventsAreASequence DEF ReaderView, LedgerInv, TypeOK
<1> QED
  BY <1>1, AppendProperties, LenProperties

(***************************************************************************)
(* An event that was reported as appended stays readable through every     *)
(* later repair and death.                                                 *)
(***************************************************************************)
THEOREM AcknowledgedEventsStay ==
  ASSUME ~NewlineTears
  PROVE  Spec => []AcknowledgedStored
<1>1. Init => AcknowledgedStored
  BY DEF Init, AcknowledgedStored
<1>2. LedgerInv /\ AcknowledgedStored /\ [Next]_vars => AcknowledgedStored'
  <2> SUFFICES ASSUME LedgerInv, AcknowledgedStored, [Next]_vars
               PROVE  AcknowledgedStored'
    OBVIOUS
  <2>1. CASE UNCHANGED <<EventsOf(file), acknowledged>>
    BY <2>1 DEF AcknowledgedStored, StoredIn
  <2>2. ASSUME NEW e \in Event, Log!Store(e) PROVE AcknowledgedStored'
    <3>1. StoredIn(file) \subseteq StoredIn(file)' /\ acknowledged' = acknowledged
      BY <2>2, StoringAddsOne DEF Log!Store, StoredIn
    <3> QED
      BY <3>1 DEF AcknowledgedStored
  <2>3. ASSUME NEW e \in Event, Log!Acknowledge(e) PROVE AcknowledgedStored'
    BY <2>3 DEF Log!Acknowledge, Log!Stored, AcknowledgedStored, StoredIn
  <2> QED
    BY <2>1, <2>2, <2>3, StepsMapToSteps DEF Log!Next
<1> QED
  BY <1>1, <1>2, InvHolds, PTL DEF Spec

(***************************************************************************)
(* An event that was cut off and is submitted again is not stored twice:   *)
(* no event id and no idempotency key ever occurs in two stored events.    *)
(***************************************************************************)
THEOREM EventsAreStoredOnce ==
  ASSUME ~NewlineTears
  PROVE  Spec => []StoredOnce
<1>1. Init => StoredOnce
  BY DEF Init, StoredOnce, EventsOf, Repaired
<1>2. LedgerInv /\ StoredOnce /\ [Next]_vars => StoredOnce'
  <2> SUFFICES ASSUME LedgerInv, StoredOnce, [Next]_vars PROVE StoredOnce'
    OBVIOUS
  <2>1. CASE UNCHANGED EventsOf(file)
    BY <2>1 DEF StoredOnce
  <2>2. ASSUME NEW e \in Event, Log!Store(e) PROVE StoredOnce'
    <3>1. \A i \in 1..Len(EventsOf(file)) :
              EventsOf(file)[i].id # e.id /\ EventsOf(file)[i].key # e.key
      BY <2>2 DEF Log!Store, Log!Stored, Log!Clash
    <3> QED
      BY <2>2, <3>1, StoringAddsOne DEF Log!Store, StoredOnce
  <2> QED
    BY <2>1, <2>2, StepsMapToSteps DEF Log!Next, Log!Acknowledge
<1> QED
  BY <1>1, <1>2, InvHolds, PTL DEF Spec
=============================================================================
