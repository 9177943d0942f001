-------------------------- MODULE WorkerRunProofs --------------------------
(***************************************************************************)
(* What TLAPS proves of WorkerRun, for any number of tasks, events and     *)
(* entries and of deaths of a command: the types, the numbering of the run *)
(* ledger, the honesty of its traces, the runs behind finished tasks and   *)
(* behind the events these accepted, and the output files left behind.     *)
(***************************************************************************)
EXTENDS WorkerRun, SequenceTheorems, FiniteSetTheorems, TLAPS

USE WorkerRunAssumption DEF WorkerRunAssumption

-----------------------------------------------------------------------------
(* The entries of the run ledger and their numbers.                        *)

References == {Reference(e) : e \in Events}

Stages == EarlyStages \cup CallStages \cup {"none", "precondition_check", "resolve_executable"}

StartEntry ==
    [entry: {"run_started"}, sequence: Nat, run: Nat, snapshot: {Snapshot}]

ExecutionEntry ==
    [entry: {"worker_execution"}, sequence: Nat, run: Nat, task: Tasks,
     status: {"succeeded", "failed"}, stage: Stages,
     accepted: SUBSET References, rejected: SUBSET References]

Entry == StartEntry \cup ExecutionEntry

\* Entries are numbered by their place.
Numbered(s) == \A i \in 1..Len(s) : s[i].sequence = i

\* Runs are numbered by the entries that start them, one for each.
RunsCounted(s) ==
    /\ \E k \in 0..Len(s) : {e.run : e \in StartedIn(s)} = 1..k
    /\ \A e, f \in StartedIn(s) : e.run = f.run => e = f

\* An execution follows the start of its run, and no other has the same run.
ExecutionsFollow(s) ==
    /\ \A e, f \in ExecutionsIn(s) : e.run = f.run => e = f
    /\ \A e \in ExecutionsIn(s) :
           \E b \in StartedIn(s) : b.run = e.run /\ b.sequence < e.sequence

\* A run that was started and has no execution yet.
Open(s, n) ==
    /\ \E b \in StartedIn(s) : b.run = n
    /\ \A e \in ExecutionsIn(s) : e.run # n

WellFormed(s) == s \in Seq(Entry) /\ Numbered(s) /\ RunsCounted(s) /\ ExecutionsFollow(s)

LEMMA MaxOfNumbers ==
  ASSUME NEW k \in Nat, NEW numbers, numbers = 1..k
  PROVE  1 + Max({0} \cup numbers) = k + 1
<1> DEFINE S == {0} \cup numbers
<1>1. k \in S /\ \A y \in S : y \in Nat /\ k >= y
  OBVIOUS
<1> HIDE DEF S
<1>2. \A x \in S : (\A y \in S : x >= y) => x = k
  BY <1>1
<1>3. Max(S) = k
  BY <1>1, <1>2 DEF Max
<1> QED
  BY <1>3 DEF S

LEMMA EntriesHaveNumbers ==
  ASSUME NEW s \in Seq(Entry), Numbered(s)
  PROVE  /\ Len(s) \in Nat
         /\ {e.sequence : e \in ToSet(s)} = 1..Len(s)
         /\ ToSet(s) \subseteq Entry
         /\ NextSequence(s) = Len(s) + 1
<1>1. Len(s) \in Nat /\ DOMAIN s = 1..Len(s) /\ \A i \in 1..Len(s) : s[i] \in Entry
  BY LenProperties, ElementOfSeq
<1>2. ToSet(s) = {s[i] : i \in 1..Len(s)}
  BY <1>1 DEF ToSet
<1>3. {e.sequence : e \in ToSet(s)} = 1..Len(s)
  BY <1>1, <1>2 DEF Numbered
<1>4. NextSequence(s) = Len(s) + 1
  BY <1>1, <1>3, MaxOfNumbers DEF NextSequence
<1> QED
  BY <1>1, <1>2, <1>3, <1>4

LEMMA RunsHaveNumbers ==
  ASSUME NEW s, NEW k \in Nat, {e.run : e \in StartedIn(s)} = 1..k
  PROVE  NextRun(s) = k + 1
BY MaxOfNumbers DEF NextRun

LEMMA AppendAddsAnEntry ==
  ASSUME NEW s \in Seq(Entry), NEW e \in Entry, Numbered(s), e.sequence = Len(s) + 1
  PROVE  /\ Append(s, e) \in Seq(Entry)
         /\ Len(Append(s, e)) = Len(s) + 1
         /\ Numbered(Append(s, e))
         /\ ToSet(Append(s, e)) = ToSet(s) \cup {e}
<1>1. /\ Append(s, e) \in Seq(Entry)
      /\ Len(s) \in Nat /\ Len(Append(s, e)) = Len(s) + 1
      /\ \A i \in 1..Len(s) : Append(s, e)[i] = s[i]
      /\ Append(s, e)[Len(s) + 1] = e
      /\ DOMAIN s = 1..Len(s) /\ DOMAIN Append(s, e) = 1..Len(s) + 1
  BY AppendProperties, LenProperties
<1>2. Numbered(Append(s, e))
  BY <1>1 DEF Numbered
<1>3. ToSet(Append(s, e)) = ToSet(s) \cup {e}
  BY <1>1 DEF ToSet
<1> QED
  BY <1>1, <1>2, <1>3

LEMMA StartIsWellFormed ==
  ASSUME NEW s, WellFormed(s)
  PROVE  /\ WellFormed(StartRun(s, Snapshot))
         /\ Len(s) \in Nat /\ Len(StartRun(s, Snapshot)) = Len(s) + 1
         /\ NextRun(s) \in 1..Len(s) + 1
         /\ ExecutionsIn(StartRun(s, Snapshot)) = ExecutionsIn(s)
         /\ Open(StartRun(s, Snapshot), NextRun(s))
<1> DEFINE begun == Started(NextSequence(s), NextRun(s), Snapshot)
           longer == Append(s, begun)
<1>1. s \in Seq(Entry) /\ Numbered(s) /\ RunsCounted(s) /\ ExecutionsFollow(s)
  BY DEF WellFormed
<1>2. Len(s) \in Nat /\ NextSequence(s) = Len(s) + 1 /\ ToSet(s) \subseteq Entry
      /\ \A e \in ToSet(s) : e.sequence \in 1..Len(s)
  BY <1>1, EntriesHaveNumbers
<1>3. PICK k \in 0..Len(s) : {e.run : e \in StartedIn(s)} = 1..k
  BY <1>1 DEF RunsCounted
<1>4. NextRun(s) = k + 1 /\ k \in Nat
  BY <1>2, <1>3, RunsHaveNumbers
<1>5. /\ begun \in Entry /\ begun.sequence = Len(s) + 1 /\ begun.run = k + 1
      /\ begun.entry = "run_started"
  BY <1>2, <1>4 DEF Started, Entry, StartEntry
<1>6. /\ longer \in Seq(Entry) /\ Len(longer) = Len(s) + 1 /\ Numbered(longer)
      /\ ToSet(longer) = ToSet(s) \cup {begun}
  BY <1>1, <1>5, AppendAddsAnEntry
<1>7. longer = StartRun(s, Snapshot)
  BY DEF StartRun
<1> HIDE DEF begun, longer
<1>8. StartedIn(longer) = StartedIn(s) \cup {begun} /\ ExecutionsIn(longer) = ExecutionsIn(s)
  BY <1>5, <1>6 DEF StartedIn, ExecutionsIn
<1>9. {e.run : e \in StartedIn(longer)} = 1..k + 1
  <2>1. {e.run : e \in StartedIn(longer)} = {e.run : e \in StartedIn(s)} \cup {k + 1}
    BY <1>5, <1>8
  <2>2. 1..k + 1 = 1..k \cup {k + 1}
    BY <1>4
  <2> QED
    BY <1>3, <2>1, <2>2
<1>10. \A e \in StartedIn(s) : e.run \in 1..k
  BY <1>3
<1>11. RunsCounted(longer)
  <2>1. k + 1 \in 0..Len(longer)
    BY <1>2, <1>3, <1>6
  <2>2. \A e \in StartedIn(s) : e.run # begun.run
    BY <1>4, <1>5, <1>10
  <2>3. \A e, f \in StartedIn(longer) : e.run = f.run => e = f
    BY <1>1, <1>8, <2>2 DEF RunsCounted
  <2> QED
    BY <1>9, <2>1, <2>3 DEF RunsCounted
<1>12. ExecutionsFollow(longer)
  BY <1>1, <1>8 DEF ExecutionsFollow
<1>13. \A e \in ExecutionsIn(s) : e.run # k + 1
  BY <1>1, <1>4, <1>10 DEF ExecutionsFollow
<1> QED
  BY <1>2, <1>3, <1>4, <1>5, <1>6, <1>7, <1>8, <1>11, <1>12, <1>13 DEF WellFormed, Open

LEMMA ExecutionIsWellFormed ==
  ASSUME NEW s, WellFormed(s), NEW n \in Nat, NEW task \in Tasks,
         NEW status \in {"succeeded", "failed"}, NEW stage \in Stages,
         NEW taken \in SUBSET Events, NEW refused \in SUBSET Events,
         Open(s, n), Len(s) + 1 <= MaxEntries
  PROVE  /\ WellFormed(RecordExecution(s, n, task, status, stage, taken, refused))
         /\ Len(RecordExecution(s, n, task, status, stage, taken, refused)) <= MaxEntries
         /\ ExecutionsIn(RecordExecution(s, n, task, status, stage, taken, refused))
               = ExecutionsIn(s) \cup {Execution(NextSequence(s), n, task, status, stage,
                                                 taken, refused)}
         /\ Execution(NextSequence(s), n, task, status, stage, taken, refused)
               \in ExecutionEntry
<1> DEFINE done == Execution(NextSequence(s), n, task, status, stage, taken, refused)
           longer == Append(s, done)
<1>1. s \in Seq(Entry) /\ Numbered(s) /\ RunsCounted(s) /\ ExecutionsFollow(s)
  BY DEF WellFormed
<1>2. Len(s) \in Nat /\ NextSequence(s) = Len(s) + 1 /\ ToSet(s) \subseteq Entry
      /\ \A e \in ToSet(s) : e.sequence \in 1..Len(s)
  BY <1>1, EntriesHaveNumbers
<1>3. /\ {Reference(e) : e \in taken} \subseteq References
      /\ {Reference(e) : e \in refused} \subseteq References
  BY DEF References
<1>4. /\ done \in ExecutionEntry /\ done.sequence = Len(s) + 1 /\ done.run = n
      /\ done.entry = "worker_execution"
  BY <1>2, <1>3 DEF Execution, ExecutionEntry
<1> HIDE DEF done
<1>5. /\ longer \in Seq(Entry) /\ Len(longer) = Len(s) + 1 /\ Numbered(longer)
      /\ ToSet(longer) = ToSet(s) \cup {done}
  BY <1>1, <1>4, AppendAddsAnEntry DEF Entry
<1> HIDE DEF longer
<1>6. StartedIn(longer) = StartedIn(s) /\ ExecutionsIn(longer) = ExecutionsIn(s) \cup {done}
  BY <1>4, <1>5 DEF StartedIn, ExecutionsIn
<1>7. RunsCounted(longer)
  BY <1>1, <1>2, <1>5, <1>6 DEF RunsCounted
<1>8. ExecutionsFollow(longer)
  <2>1. \A e, f \in ExecutionsIn(longer) : e.run = f.run => e = f
    BY <1>1, <1>4, <1>6 DEF ExecutionsFollow, Open
  <2>2. \A b \in StartedIn(s) : b.sequence < done.sequence
    BY <1>2, <1>4 DEF StartedIn
  <2>3. \E b \in StartedIn(s) : b.run = done.run /\ b.sequence < done.sequence
    BY <1>4, <2>2 DEF Open
  <2> QED
    BY <1>1, <1>6, <2>1, <2>3 DEF ExecutionsFollow
<1> QED
  BY <1>2, <1>4, <1>5, <1>6, <1>7, <1>8 DEF WellFormed, RecordExecution, longer, done

-----------------------------------------------------------------------------
(* The command in progress.                                                *)

\* From the run_started entry to the worker_execution entry of a run.
Working == {"slice", "invoke", "resolve", "call", "process", "project",
            "record", "record_failure"}

\* There is room for the entries a command has still to write.
RoomForEntries ==
    /\ pc = "start" => Len(entries) + 2 <= MaxEntries
    /\ pc \in Working => Len(entries) + 1 <= MaxEntries

\* The run of a command has its start in the ledger, and nothing else yet.
RunIsOpen ==
    pc \in Working =>
        /\ run.number \in 1..MaxEntries
        /\ Open(entries, run.number)

CommandInv ==
    /\ RoomForEntries
    /\ RunIsOpen
    /\ pc # "idle" => run.task \in Tasks
    /\ pc \in {"resolve", "call"} => outputs > 0
    /\ run.refused # "none" => run.rejected # {}

WorkerInv == TypeOK /\ WellFormed(entries) /\ CommandInv

LEMMA FreshIsARun == Fresh \in Run /\ Fresh.refused = "none" /\ <<>> \in Batches
<1>1. <<>> \in [1..0 -> Events] /\ 0 \in 0..BatchSize
  OBVIOUS
<1>2. <<>> \in Batches
  BY <1>1 DEF Batches, SeqOf
<1> QED
  BY <1>2 DEF Fresh, Run

LEMMA BatchIsConsumed ==
  ASSUME NEW batch \in Batches, batch # <<>>
  PROVE  Head(batch) \in Events /\ Tail(batch) \in Batches
<1>1. PICK m \in 0..BatchSize : batch \in [1..m -> Events]
  BY DEF Batches, SeqOf
<1>2. batch \in Seq(Events) /\ Len(batch) = m
  BY <1>1
<1>3. /\ Head(batch) \in Events /\ Tail(batch) \in Seq(Events)
      /\ Len(Tail(batch)) = m - 1 /\ m # 0
  BY <1>2, HeadTailProperties, EmptySeq
<1>4. m - 1 \in 0..BatchSize
  BY <1>1, <1>3
<1>5. Tail(batch) \in [1..m - 1 -> Events]
  BY <1>3, LenProperties
<1> QED
  BY <1>3, <1>4, <1>5 DEF Batches, SeqOf

\* A command that ends, by whatever way, leaves nothing to be kept but the files.
LEMMA EndIsSafe ==
  ASSUME TypeOK, run' = Fresh, pc' = "idle", UNCHANGED <<accepted, outputs, unanswered>>,
         WellFormed(entries)', Len(entries') <= MaxEntries,
         tail' \in {"ended", "unended", "torn"},
         queue' \in [Tasks -> {"pending", "running", "failed", "done"}],
         crashes' \in 0..MaxCrashes
  PROVE  WorkerInv'
BY FreshIsARun DEF TypeOK, WorkerInv, CommandInv, RoomForEntries, RunIsOpen, Working

LEMMA WorkerInvHolds == Spec => []WorkerInv
<1>1. Init => WorkerInv
  <2> SUFFICES ASSUME Init PROVE WorkerInv
    OBVIOUS
  <2>1. /\ entries = <<>> /\ <<>> \in Seq(Entry) /\ Len(<<>>) = 0
        /\ ToSet(<<>>) = {}
    BY EmptySeq, LenProperties DEF Init, ToSet
  <2>2. WellFormed(entries)
    BY <2>1 DEF WellFormed, Numbered, RunsCounted, ExecutionsFollow, StartedIn, ExecutionsIn
  <2> QED
    BY <2>1, <2>2, FreshIsARun
       DEF Init, TypeOK, WorkerInv, CommandInv, RoomForEntries, RunIsOpen, Working
<1>2. WorkerInv /\ [Next]_vars => WorkerInv'
  <2> SUFFICES ASSUME WorkerInv, [Next]_vars PROVE WorkerInv'
    OBVIOUS
  <2>0. TypeOK /\ WellFormed(entries) /\ CommandInv
    BY DEF WorkerInv
  <2>a. ASSUME UNCHANGED entries PROVE WellFormed(entries)'
    BY <2>0, <2>a
  <2>b. ASSUME UNCHANGED entries, run'.number = run.number, Open(entries, run.number)
        PROVE  Open(entries, run.number)'
    BY <2>b
  <2>1. CASE UNCHANGED vars
    BY <2>0, <2>1, <2>a, <2>b
       DEF vars, TypeOK, WorkerInv, CommandInv, RoomForEntries, RunIsOpen
  <2>2. ASSUME NEW t \in Tasks, NEW backend \in Backends, Claim(t, backend)
        PROVE  WorkerInv'
    <3>1. run' \in Run /\ run'.task = t /\ run'.refused = "none"
      BY <2>2, FreshIsARun DEF Claim, Run
    <3> QED
      BY <2>0, <2>2, <2>a, <3>1
         DEF Claim, Goto, TypeOK, WorkerInv, CommandInv, RoomForEntries, RunIsOpen, Working
  <2>3. CASE StartOfRun
    <3>1. /\ pc = "start" /\ pc' = "slice" /\ entries' = StartRun(entries, Snapshot)
          /\ run' = [run EXCEPT !.number = NextRun(entries)]
          /\ tail' \in {"ended", "torn"}
          /\ UNCHANGED <<accepted, queue, outputs, unanswered, crashes>>
      BY <2>3 DEF StartOfRun, Write, Goto
    <3>2. /\ WellFormed(entries') /\ Len(entries) \in Nat /\ Len(entries') = Len(entries) + 1
          /\ NextRun(entries) \in 1..Len(entries) + 1
          /\ ExecutionsIn(entries') = ExecutionsIn(entries)
          /\ Open(entries', NextRun(entries))
      BY <2>0, <3>1, StartIsWellFormed
    <3>3. Len(entries) + 2 <= MaxEntries
      BY <2>0, <3>1 DEF CommandInv, RoomForEntries
    <3>4. /\ run' \in Run /\ run'.number = NextRun(entries) /\ run'.task = run.task
          /\ run'.refused = run.refused /\ run'.rejected = run.rejected
      <4>1. run \in Run /\ NextRun(entries) \in 0..MaxEntries
        BY <2>0, <3>2, <3>3 DEF TypeOK
      <4> QED
        BY <3>1, <4>1 DEF Run
    <3>5. TypeOK'
      BY <2>0, <3>1, <3>2, <3>3, <3>4 DEF TypeOK
    <3>6. CommandInv'
      BY <2>0, <3>1, <3>2, <3>3, <3>4 DEF CommandInv, RoomForEntries, RunIsOpen, Working
    <3> QED
      BY <3>1, <3>2, <3>5, <3>6 DEF WorkerInv
  <2>4. CASE RefuseToStart \/ FailToRecordFailure \/ Fail \/ Settle
    <3>1. /\ run' = Fresh /\ pc' = "idle"
          /\ UNCHANGED <<accepted, entries, tail, outputs, unanswered, crashes>>
      BY <2>4 DEF RefuseToStart, FailToRecordFailure, Fail, Settle, Leave, Goto, files
    <3>2. queue' \in [Tasks -> {"pending", "running", "failed", "done"}]
      BY <2>0, <2>4 DEF RefuseToStart, FailToRecordFailure, Fail, Settle, Leave, files, TypeOK
    <3> QED
      BY <2>0, <2>a, <3>1, <3>2, EndIsSafe DEF TypeOK
  <2>5. CASE BuildSlice \/ Resolve \/ EndBatch \/ Project \/ Raise
    <3>1. /\ UNCHANGED <<accepted, entries, tail, queue, outputs, run, unanswered, crashes>>
          /\ pc # "idle"
          /\ \/ pc \in Working /\ pc' \in Working /\ (pc' = "call" => pc = "resolve")
             \/ pc' = "fail"
          /\ pc' # "resolve"
      BY <2>5 DEF BuildSlice, Resolve, EndBatch, Project, Raise, Goto, files, Working
    <3> QED
      BY <2>0, <2>a, <2>b, <3>1
         DEF TypeOK, WorkerInv, CommandInv, RoomForEntries, RunIsOpen, Working
  <2>6. CASE FindSliceIncomplete
    <3>1. /\ run' = [run EXCEPT !.stage = "precondition_check"] /\ pc = "slice"
          /\ pc' = "record_failure"
          /\ UNCHANGED <<accepted, entries, tail, queue, outputs, unanswered, crashes>>
      BY <2>6 DEF FindSliceIncomplete, Goto, files
    <3> QED
      BY <2>0, <2>a, <2>b, <3>1
         DEF TypeOK, Run, WorkerInv, CommandInv, RoomForEntries, RunIsOpen, Working
  <2>7. ASSUME NEW stage \in Stages, RaiseAt(stage), pc \in Working,
               UNCHANGED <<accepted, entries, tail, queue, crashes>>, outputs' \in Nat
        PROVE  WorkerInv'
    <3>1. /\ run' = [run EXCEPT !.stage = stage] /\ pc' = "record_failure"
          /\ unanswered' = unanswered \cup {run.number}
      BY <2>7 DEF RaiseAt, Goto
    <3>2. run' \in Run /\ run'.number = run.number /\ run'.task = run.task
          /\ run'.refused = run.refused /\ run'.rejected = run.rejected
      BY <2>0, <2>7, <3>1 DEF TypeOK, Run, Stages
    <3>3. unanswered' \subseteq 1..MaxEntries
      BY <2>0, <2>7, <3>1 DEF TypeOK, CommandInv, RunIsOpen
    <3> QED
      BY <2>0, <2>7, <2>a, <2>b, <3>1, <3>2, <3>3
         DEF TypeOK, WorkerInv, CommandInv, RoomForEntries, RunIsOpen, Working
  <2>8. CASE \/ \E stage \in EarlyStages : FailEarly(stage)
             \/ FailToResolve
             \/ \E stage \in CallStages : FailToCallCodex(stage)
    <3>1. \E reached \in Stages : RaiseAt(reached)
      BY <2>8 DEF FailEarly, FailToResolve, FailToCallCodex, Stages
    <3>2. /\ pc \in Working
          /\ UNCHANGED <<accepted, entries, tail, queue, crashes>>
          /\ outputs' \in Nat
      BY <2>0, <2>8 DEF FailEarly, FailToResolve, FailToCallCodex, Working, files, TypeOK,
                        CommandInv
    <3> QED
      BY <2>7, <3>1, <3>2
  <2>9. CASE OpenOutput
    BY <2>0, <2>9, <2>a, <2>b
       DEF OpenOutput, Goto, TypeOK, WorkerInv, CommandInv, RoomForEntries, RunIsOpen, Working
  <2>10. ASSUME NEW batch \in Batches, Answer(batch), pc \in Working,
                UNCHANGED <<accepted, entries, tail, queue, crashes>>, outputs' \in Nat,
                unanswered' \subseteq 1..MaxEntries
         PROVE  WorkerInv'
    <3>1. run' = [run EXCEPT !.batch = batch] /\ pc' = "process"
      BY <2>10 DEF Answer, Goto
    <3>2. run' \in Run /\ run'.number = run.number /\ run'.task = run.task
          /\ run'.refused = run.refused /\ run'.rejected = run.rejected
      BY <2>0, <2>10, <3>1 DEF TypeOK, Run
    <3> QED
      BY <2>0, <2>10, <2>a, <2>b, <3>1, <3>2
         DEF TypeOK, WorkerInv, CommandInv, RoomForEntries, RunIsOpen, Working
  <2>11. ASSUME NEW batch \in Batches, CallCodex(batch) \/ CallClaude(batch)
         PROVE  WorkerInv'
    <3>1. /\ Answer(batch) /\ pc \in Working
          /\ UNCHANGED <<accepted, entries, tail, queue, unanswered, crashes>>
          /\ outputs' \in Nat
      BY <2>0, <2>11 DEF CallCodex, CallClaude, files, Working, TypeOK, CommandInv
    <3> QED
      BY <2>0, <2>10, <3>1 DEF TypeOK
  <2>12. CASE FailToCallClaude
    <3>1. /\ Answer(<<>>) /\ pc \in Working
          /\ UNCHANGED <<accepted, entries, tail, queue, outputs, crashes>>
          /\ unanswered' = unanswered \cup {run.number}
      BY <2>12 DEF FailToCallClaude, files, Working
    <3>2. unanswered' \subseteq 1..MaxEntries
      BY <2>0, <3>1 DEF TypeOK, CommandInv, RunIsOpen
    <3> QED
      BY <2>0, <2>10, <3>1, <3>2, FreshIsARun DEF TypeOK
  <2>13. CASE Accept \/ RefuseDuplicate \/ RefuseOther
    <3>1. /\ pc = "process" /\ run.batch # <<>> /\ pc' = pc
          /\ UNCHANGED <<entries, tail, queue, outputs, unanswered, crashes>>
      BY <2>13 DEF Accept, RefuseDuplicate, RefuseOther, files
    <3>2. Head(run.batch) \in Events /\ Tail(run.batch) \in Batches
      BY <2>0, <3>1, BatchIsConsumed DEF TypeOK, Run
    <3>3. /\ run' \in Run /\ run'.number = run.number /\ run'.task = run.task
          /\ run'.refused # "none" => run'.rejected # {}
          /\ accepted' \subseteq Events
      <4>1. CASE Accept
        BY <2>0, <3>2, <4>1 DEF Accept, TypeOK, Run, CommandInv
      <4>2. CASE RefuseDuplicate \/ RefuseOther
        <5>1. accepted' = accepted
          BY <4>2 DEF RefuseDuplicate, RefuseOther, files
        <5>2. PICK refused \in {"duplicates", "others"} : Consume(refused)
          BY <4>2 DEF RefuseDuplicate, RefuseOther
        <5> QED
          BY <2>0, <3>2, <5>1, <5>2 DEF Consume, TypeOK, Run
      <4> QED
        BY <2>13, <4>1, <4>2
    <3> QED
      BY <2>0, <2>a, <2>b, <3>1, <3>3
         DEF TypeOK, WorkerInv, CommandInv, RoomForEntries, RunIsOpen, Working
  <2>14. ASSUME NEW status \in {"succeeded", "failed"}, NEW taken \in SUBSET Events,
                NEW refused \in SUBSET Events, NEW stage \in Stages, pc \in Working,
                entries' = RecordExecution(entries, run.number, run.task, status, stage,
                                           taken, refused)
         PROVE  WellFormed(entries)' /\ Len(entries') <= MaxEntries
    <3>1. /\ run.number \in 1..MaxEntries /\ run.task \in Tasks
          /\ Open(entries, run.number)
          /\ Len(entries) + 1 <= MaxEntries
      BY <2>0, <2>14 DEF CommandInv, RunIsOpen, RoomForEntries, Working
    <3> DEFINE longer == RecordExecution(entries, run.number, run.task, status, stage,
                                         taken, refused)
    <3>2. run.number \in Nat
      BY <3>1
    <3>3. WellFormed(longer) /\ Len(longer) <= MaxEntries
      BY <2>0, <3>1, <3>2, ExecutionIsWellFormed
    <3> HIDE DEF longer
    <3>4. entries' = longer
      BY <2>14 DEF longer
    <3> QED
      BY <3>1, <3>3, <3>4
  <2>15. CASE Record \/ RecordFailure
    <3>1. /\ pc \in Working /\ pc' \in {"settle", "fail"} /\ tail' \in {"ended", "torn"}
          /\ UNCHANGED <<accepted, queue, outputs, run, unanswered, crashes>>
      BY <2>15 DEF Record, RecordFailure, Write, Goto, Working
    <3>2. WellFormed(entries)' /\ Len(entries') <= MaxEntries
      <4>1. CASE Record
        BY <2>0, <2>14, <3>1, <4>1 DEF Record, Write, TypeOK, Run, Stages
      <4>2. CASE RecordFailure
        BY <2>0, <2>14, <3>1, <4>2 DEF RecordFailure, Write, TypeOK, Run, Stages
      <4> QED
        BY <2>15, <4>1, <4>2
    <3> QED
      BY <2>0, <3>1, <3>2
         DEF TypeOK, WorkerInv, CommandInv, RoomForEntries, RunIsOpen, Working
  <2>16. CASE Crash
    <3>1. /\ WellFormed(entries)' /\ Len(entries') <= MaxEntries
          /\ tail' \in {"ended", "unended", "torn"}
      <4>1. CASE UNCHANGED entries
        BY <2>0, <2>16, <2>a, <4>1 DEF Crash, TypeOK
      <4>2. CASE pc = "start" /\ tail' = "unended" /\ entries' = StartRun(entries, Snapshot)
        BY <2>0, <4>2, StartIsWellFormed DEF CommandInv, RoomForEntries, TypeOK
      <4>3. CASE /\ pc = "record" /\ tail' = "unended"
                 /\ entries' = RecordExecution(entries, run.number, run.task, "succeeded",
                                               "none", run.accepted, run.rejected)
        BY <2>0, <2>14, <4>3 DEF TypeOK, Run, Working, Stages
      <4> QED
        BY <2>16, <4>1, <4>2, <4>3 DEF Crash
    <3>2. crashes' \in 0..MaxCrashes
      BY <2>0, <2>16 DEF Crash, TypeOK
    <3>3. /\ run' = Fresh /\ pc' = "idle"
          /\ queue' = queue /\ UNCHANGED <<accepted, outputs, unanswered>>
      BY <2>16 DEF Crash, Goto
    <3>4. queue' \in [Tasks -> {"pending", "running", "failed", "done"}]
      BY <2>0, <3>3 DEF TypeOK
    <3> QED
      BY <2>0, <3>1, <3>2, <3>3, <3>4, EndIsSafe
  <2> QED
    BY <2>1, <2>2, <2>3, <2>4, <2>5, <2>6, <2>8, <2>9, <2>11, <2>12, <2>13, <2>15, <2>16
       DEF Next
<1> QED
  BY <1>1, <1>2, PTL DEF Spec

(***************************************************************************)
(* Whatever fails or dies in a run-task, the command in progress, the      *)
(* queue and the run ledger keep their types, and the run ledger never     *)
(* outgrows the room there was when the command was started.               *)
(***************************************************************************)
THEOREM WorkerTypeCorrect == Spec => []TypeOK
<1>1. WorkerInv => TypeOK
  BY DEF WorkerInv
<1> QED
  BY <1>1, WorkerInvHolds, PTL

(***************************************************************************)
(* However many commands died without leaving an entry, entries and runs   *)
(* are numbered without repetition, and each execution belongs to the one  *)
(* start of its run and is its only one.                                   *)
(***************************************************************************)
THEOREM RunsAreExecutedOnce == Spec => []OneExecutionPerRun
<1>1. WorkerInv => OneExecutionPerRun
  <2> SUFFICES ASSUME WorkerInv PROVE OneExecutionPerRun
    OBVIOUS
  <2>1. /\ DOMAIN entries = 1..Len(entries) /\ Len(entries) \in Nat
        /\ \A i \in 1..Len(entries) : entries[i].sequence = i
    BY LenProperties DEF WorkerInv, WellFormed, Numbered
  <2>2. \A i, j \in DOMAIN entries : i < j => entries[i].sequence < entries[j].sequence
    BY <2>1
  <2> QED
    BY <2>2 DEF WorkerInv, WellFormed, RunsCounted, ExecutionsFollow, OneExecutionPerRun
<1> QED
  BY <1>1, WorkerInvHolds, PTL

-----------------------------------------------------------------------------
(* What the executions of the ledger say of events and tasks.              *)

\* Two executions that list an event with the same id are one, and so is the event.
ListedOnce ==
    \A x, y \in ExecutionsIn(entries) : \A r \in x.accepted, q \in y.accepted :
        r.id = q.id => x = y /\ r = q

\* What an execution lists was accepted, and is not what the command accepted.
ListedBefore ==
    \A x \in ExecutionsIn(entries) : \A r \in x.accepted :
        /\ \E e \in accepted : r = Reference(e)
        /\ pc \in Working => \A e \in run.accepted : e.id # r.id

TraceInv ==
    /\ \A e, f \in accepted : e.id = f.id => e = f
    /\ run.accepted \subseteq accepted
    /\ pc = "start" => run.accepted = {}
    /\ ListedOnce
    /\ ListedBefore

\* An entry for the task of the command in progress.
Lists(x, status, taken, refused) ==
    /\ x.task = run.task
    /\ x.status = status
    /\ x.accepted = {Reference(e) : e \in taken}
    /\ x.rejected = {Reference(e) : e \in refused}

Recorded(x) == Lists(x, "succeeded", run.accepted, run.rejected)

SettledInv == pc = "settle" => \E x \in ExecutionsIn(entries) : Recorded(x)

\* Only four steps write to the run ledger, and only Record leads to the settlement.
LEMMA OtherStepsRecordNothing ==
  ASSUME Next, ~Record, ~RecordFailure, ~StartOfRun, ~Crash
  PROVE  UNCHANGED entries /\ pc' # "settle"
<1>1. CASE \/ \E t \in Tasks, backend \in Backends : Claim(t, backend)
           \/ RefuseToStart \/ BuildSlice \/ FindSliceIncomplete
           \/ \E stage \in EarlyStages : FailEarly(stage)
           \/ OpenOutput \/ Resolve \/ FailToResolve
  BY <1>1 DEF Claim, RefuseToStart, BuildSlice, FindSliceIncomplete, FailEarly, OpenOutput,
              Resolve, FailToResolve, RaiseAt, Leave, Goto, files
<1>2. CASE \/ \E stage \in CallStages : FailToCallCodex(stage)
           \/ \E batch \in Batches : CallCodex(batch) \/ CallClaude(batch)
           \/ FailToCallClaude
  BY <1>2 DEF FailToCallCodex, CallCodex, CallClaude, FailToCallClaude, RaiseAt, Answer,
              Leave, Goto, files
<1>3. CASE \/ Accept \/ RefuseDuplicate \/ RefuseOther \/ EndBatch \/ Project \/ Settle
           \/ Raise \/ FailToRecordFailure \/ Fail
  BY <1>3 DEF Accept, RefuseDuplicate, RefuseOther, EndBatch, Project, Settle, Raise,
              FailToRecordFailure, Fail, RaiseAt, Leave, Goto, files
<1> QED
  BY <1>1, <1>2, <1>3 DEF Next

(***************************************************************************)
(* How a step may change the executions: by none, by one that accepted     *)
(* nothing, or by the one that records the command in progress.            *)
(***************************************************************************)
LEMMA ExecutionsGrow ==
  ASSUME WorkerInv, [Next]_vars
  PROVE  \/ ExecutionsIn(entries') = ExecutionsIn(entries) /\ (pc' = "settle" => pc = "settle")
         \/ \E x : /\ ExecutionsIn(entries') = ExecutionsIn(entries) \cup {x}
                   /\ x.accepted = {} /\ pc' # "settle" /\ pc = "record_failure"
         \/ \E x : /\ ExecutionsIn(entries') = ExecutionsIn(entries) \cup {x}
                   /\ Recorded(x) /\ pc = "record" /\ pc' \notin Working
<1>0. TypeOK /\ WellFormed(entries) /\ CommandInv
  BY DEF WorkerInv
<1>1. ASSUME NEW status \in {"succeeded", "failed"}, NEW taken \in SUBSET Events,
             NEW refused \in SUBSET Events, NEW stage \in Stages, pc \in Working,
             entries' = RecordExecution(entries, run.number, run.task, status, stage,
                                        taken, refused)
      PROVE  \E x : /\ ExecutionsIn(entries') = ExecutionsIn(entries) \cup {x}
                    /\ Lists(x, status, taken, refused)
  <2> DEFINE x == Execution(NextSequence(entries), run.number, run.task, status, stage,
                            taken, refused)
  <2>1. /\ run.number \in Nat /\ run.task \in Tasks
        /\ Open(entries, run.number) /\ Len(entries) + 1 <= MaxEntries
    BY <1>0, <1>1 DEF CommandInv, RunIsOpen, RoomForEntries, Working
  <2>2. ExecutionsIn(entries') = ExecutionsIn(entries) \cup {x}
    BY <1>0, <1>1, <2>1, ExecutionIsWellFormed
  <2>3. Lists(x, status, taken, refused)
    BY DEF Execution, Lists
  <2> QED
    BY <2>2, <2>3
<1>2. CASE /\ pc = "record" /\ pc' \notin Working
           /\ entries' = RecordExecution(entries, run.number, run.task, "succeeded", "none",
                                         run.accepted, run.rejected)
  <2>1. /\ run.accepted \in SUBSET Events /\ run.rejected \in SUBSET Events
        /\ "none" \in Stages /\ pc \in Working
    BY <1>0, <1>2 DEF TypeOK, Run, Stages, Working
  <2>2. \E x : /\ ExecutionsIn(entries') = ExecutionsIn(entries) \cup {x}
              /\ Lists(x, "succeeded", run.accepted, run.rejected)
    BY <1>1, <1>2, <2>1
  <2> QED
    BY <1>2, <2>2 DEF Recorded
<1>3. CASE RecordFailure
  <2>1. /\ pc = "record_failure" /\ pc' = "fail"
        /\ entries' = RecordExecution(entries, run.number, run.task, "failed", run.stage, {}, {})
    BY <1>3 DEF RecordFailure, Write, Goto
  <2>2. run.stage \in Stages /\ pc \in Working /\ {} \in SUBSET Events
    BY <1>0, <2>1 DEF TypeOK, Run, Stages, Working
  <2>3. PICK x : /\ ExecutionsIn(entries') = ExecutionsIn(entries) \cup {x}
                 /\ Lists(x, "failed", {}, {})
    BY <1>1, <2>1, <2>2
  <2>4. x.accepted = {}
    BY <2>3 DEF Lists
  <2> QED
    BY <2>1, <2>3, <2>4
<1>4. CASE entries' = StartRun(entries, Snapshot) /\ pc' # "settle"
  BY <1>0, <1>4, StartIsWellFormed
<1>5. CASE UNCHANGED entries /\ (pc' = "settle" => pc = "settle")
  BY <1>5
<1> QED
  <2>1. CASE Record
    BY <1>2, <2>1 DEF Record, Write, Goto, Working
  <2>2. CASE StartOfRun
    BY <1>4, <2>2 DEF StartOfRun, Write, Goto
  <2>3. CASE Crash
    BY <1>2, <1>4, <1>5, <2>3 DEF Crash, Goto, Working
  <2>4. CASE UNCHANGED vars
    BY <1>5, <2>4 DEF vars
  <2>5. ASSUME Next, ~Record, ~RecordFailure, ~StartOfRun, ~Crash
        PROVE  UNCHANGED entries /\ pc' # "settle"
    BY <2>5, OtherStepsRecordNothing
  <2> QED
    BY <1>3, <1>5, <2>1, <2>2, <2>3, <2>4, <2>5

\* Only Accept adds to what was accepted; a run that continues keeps its own.
LEMMA AcceptanceGrows ==
  ASSUME WorkerInv, [Next]_vars, ~Accept
  PROVE  /\ accepted' = accepted
         /\ \/ run'.accepted = {}
            \/ /\ run'.accepted = run.accepted
               /\ pc' = "start" => pc = "start"
               /\ pc' \in Working => pc \in Working \cup {"start"}
         /\ pc' = "settle" => run' = run
<1> DEFINE Kept == /\ accepted' = accepted
                   /\ \/ run'.accepted = {}
                      \/ /\ run'.accepted = run.accepted
                         /\ pc' = "start" => pc = "start"
                         /\ pc' \in Working => pc \in Working \cup {"start"}
                   /\ pc' = "settle" => run' = run
<1>0. Fresh.accepted = {} /\ run \in Run
  BY DEF Fresh, WorkerInv, TypeOK
<1>1. CASE run' = Fresh /\ pc' = "idle" /\ accepted' = accepted
  BY <1>0, <1>1
<1>2. CASE run' = run /\ accepted' = accepted /\ pc \in Working \cup {"start"} /\ pc' # "start"
  BY <1>2
<1>3. CASE \E t \in Tasks, backend \in Backends : Claim(t, backend)
  <2>1. accepted' = accepted /\ pc' = "start" /\ run'.accepted = {}
    BY <1>3 DEF Claim, Goto, Fresh
  <2> QED
    BY <2>1
<1>4. CASE /\ run'.accepted = run.accepted /\ accepted' = accepted
           /\ pc \in Working \cup {"start"} /\ pc' \notin {"start", "settle"}
  BY <1>4
<1>5. CASE UNCHANGED vars
  BY <1>5 DEF vars
<1>6. CASE StartOfRun \/ FindSliceIncomplete \/ FailToResolve \/ FailToCallClaude
  <2>1. /\ accepted' = accepted /\ pc \in Working \cup {"start"}
        /\ pc' \notin {"start", "settle"}
    BY <1>6 DEF StartOfRun, FindSliceIncomplete, FailToResolve, FailToCallClaude,
                RaiseAt, Answer, Goto, files, Working
  <2>2. run'.accepted = run.accepted
    BY <1>0, <1>6 DEF StartOfRun, FindSliceIncomplete, FailToResolve, FailToCallClaude,
                      RaiseAt, Answer, Run
  <2> QED
    BY <1>4, <2>1, <2>2
<1>7. CASE \E stage \in EarlyStages \cup CallStages : FailEarly(stage) \/ FailToCallCodex(stage)
  BY <1>0, <1>4, <1>7 DEF Run, FailEarly, FailToCallCodex, RaiseAt, Goto, files, Working
<1>8. CASE \E batch \in Batches : CallCodex(batch) \/ CallClaude(batch)
  BY <1>0, <1>4, <1>8 DEF Run, CallCodex, CallClaude, Answer, Goto, files, Working
<1>9. CASE RefuseDuplicate \/ RefuseOther
  BY <1>0, <1>4, <1>9 DEF Run, RefuseDuplicate, RefuseOther, Consume, files, Working
<1>10. CASE BuildSlice \/ OpenOutput \/ Resolve \/ EndBatch \/ Project \/ Record \/ RecordFailure
            \/ Raise
  BY <1>2, <1>10
     DEF BuildSlice, OpenOutput, Resolve, EndBatch, Project, Record, RecordFailure, Raise,
         Goto, files, Working
<1>11. CASE RefuseToStart \/ FailToRecordFailure \/ Fail \/ Settle \/ Crash
  BY <1>1, <1>11
     DEF RefuseToStart, FailToRecordFailure, Fail, Settle, Crash, Leave, Goto, files
<1> QED
  BY <1>3, <1>5, <1>6, <1>7, <1>8, <1>9, <1>10, <1>11 DEF Next

LEMMA TraceInvHolds == Spec => []TraceInv
<1>1. Init => TraceInv
  BY DEF Init, TraceInv, Fresh, ListedOnce, ListedBefore, ExecutionsIn, ToSet
<1>2. WorkerInv /\ TraceInv /\ [Next]_vars => TraceInv'
  <2> SUFFICES ASSUME WorkerInv, TraceInv, [Next]_vars PROVE TraceInv'
    OBVIOUS
  <2>1. CASE Accept
    <3> DEFINE new == Head(run.batch)
    <3>1. /\ pc = "process" /\ pc' = pc /\ accepted' = accepted \cup {new}
          /\ \A e \in accepted : e.id # new.id
          /\ entries' = entries
          /\ run' = [run EXCEPT !.batch = Tail(@), !.accepted = @ \cup {new}]
      BY <2>1 DEF Accept
    <3>2. run'.accepted = run.accepted \cup {new}
      BY <3>1 DEF WorkerInv, TypeOK, Run
    <3> HIDE DEF new
    <3>3. ExecutionsIn(entries)' = ExecutionsIn(entries)
      BY <3>1
    <3>4. ListedOnce'
      BY <3>3 DEF TraceInv, ListedOnce
    <3>5. \A x \in ExecutionsIn(entries) : \A r \in x.accepted : new.id # r.id
      BY <3>1 DEF TraceInv, ListedBefore, Reference
    <3>6. ListedBefore'
      BY <3>1, <3>2, <3>3, <3>5 DEF TraceInv, ListedBefore, Working
    <3> QED
      BY <3>1, <3>2, <3>4, <3>6 DEF TraceInv
  <2>2. CASE ~Accept
    <3>1. /\ accepted' = accepted
          /\ run'.accepted \subseteq run.accepted
          /\ pc' = "start" => run'.accepted = {}
          /\ pc' \in Working =>
                 run'.accepted = {} \/ (pc \in Working /\ run'.accepted = run.accepted)
      BY <2>2, AcceptanceGrows DEF TraceInv
    <3>2. CASE ExecutionsIn(entries') = ExecutionsIn(entries)
      BY <3>1, <3>2 DEF TraceInv, ListedOnce, ListedBefore
    <3>3. CASE \E x : ExecutionsIn(entries') = ExecutionsIn(entries) \cup {x} /\ x.accepted = {}
      BY <3>1, <3>3 DEF TraceInv, ListedOnce, ListedBefore
    <3>4. CASE \E x : /\ ExecutionsIn(entries') = ExecutionsIn(entries) \cup {x}
                     /\ Recorded(x) /\ pc = "record" /\ pc' \notin Working
      <4>1. PICK x : /\ ExecutionsIn(entries') = ExecutionsIn(entries) \cup {x}
                     /\ Recorded(x) /\ pc = "record" /\ pc' \notin Working
        BY <3>4
      <4>2. \A r \in x.accepted : \E e \in run.accepted : r = Reference(e) /\ r.id = e.id
        BY <4>1 DEF Recorded, Lists, Reference
      <4>3. \A r, q \in x.accepted : r.id = q.id => r = q
        BY <4>2 DEF TraceInv
      <4>4. \A y \in ExecutionsIn(entries) : \A r \in x.accepted, q \in y.accepted : r.id # q.id
        BY <4>1, <4>2 DEF TraceInv, ListedBefore, Working
      <4>5. ListedOnce'
        BY <4>1, <4>3, <4>4 DEF TraceInv, ListedOnce
      <4>6. \A r \in x.accepted : \E e \in accepted : r = Reference(e)
        BY <4>2 DEF TraceInv
      <4>7. ListedBefore'
        BY <3>1, <4>1, <4>6 DEF TraceInv, ListedBefore
      <4> QED
        BY <3>1, <4>5, <4>7 DEF TraceInv
    <3> QED
      BY <3>2, <3>3, <3>4, ExecutionsGrow
  <2> QED
    BY <2>1, <2>2
<1> QED
  BY <1>1, <1>2, WorkerInvHolds, PTL DEF Spec

(***************************************************************************)
(* Through deaths, retries and resumed tasks the run ledger claims only    *)
(* events the event ledger has, and no event for two executions: what a    *)
(* run accepts is new to the ledger, so no earlier entry can list it.      *)
(***************************************************************************)
THEOREM TracesAreHonest == Spec => []TraceIsHonest
<1>1. TraceInv => TraceIsHonest
  <2> SUFFICES ASSUME TraceInv PROVE TraceIsHonest
    OBVIOUS
  <2>1. \A t \in AcceptedTraces(entries) :
            \E x \in ExecutionsIn(entries) : \E r \in x.accepted :
                t = Trace(x, r, "accepted") /\ t.event = r
    BY DEF AcceptedTraces, Trace
  <2>2. \A t \in AcceptedTraces(entries) : \E e \in accepted : t.event = Reference(e)
    BY <2>1 DEF TraceInv, ListedBefore
  <2>3. \A t, u \in AcceptedTraces(entries) : t.event.id = u.event.id => t = u
    BY <2>1 DEF TraceInv, ListedOnce
  <2> QED
    BY <2>2, <2>3 DEF TraceIsHonest
<1> QED
  BY <1>1, TraceInvHolds, PTL

(***************************************************************************)
(* A task is done only by a command whose execution the ledger has, and    *)
(* whose execution lists something: the trace is written before the queue, *)
(* and no death between the two leaves a task done.                        *)
(***************************************************************************)
THEOREM DoneTasksHaveARun == Spec => []DoneTasksAreTraced
<1> DEFINE Inv == SettledInv /\ DoneTasksAreTraced
<1>1. Init => Inv
  BY DEF Init, SettledInv, DoneTasksAreTraced
<1>2. WorkerInv /\ Inv /\ [Next]_vars => Inv'
  <2> SUFFICES ASSUME WorkerInv, Inv, [Next]_vars PROVE Inv'
    OBVIOUS
  <2>1. ExecutionsIn(entries) \subseteq ExecutionsIn(entries)'
    BY ExecutionsGrow
  <2>2. SettledInv'
    <3> SUFFICES ASSUME pc' = "settle" PROVE (\E x \in ExecutionsIn(entries) : Recorded(x))'
      BY DEF SettledInv
    <3>1. run' = run
      BY AcceptanceGrows DEF Accept
    <3>2. \E x \in ExecutionsIn(entries') : Recorded(x)
      BY <2>1, ExecutionsGrow DEF SettledInv, Inv
    <3> QED
      BY <3>1, <3>2 DEF Recorded, Lists
  <2>3. CASE Settle
    <3>1. /\ pc = "settle" /\ run.task \in Tasks
          /\ queue' = [queue EXCEPT ![run.task] = IF Fruitful THEN "done" ELSE "failed"]
          /\ run.refused # "none" => run.rejected # {}
      BY <2>3 DEF Settle, Leave, WorkerInv, CommandInv
    <3>2. PICK x \in ExecutionsIn(entries) : Recorded(x)
      BY <3>1 DEF SettledInv
    <3>3. Fruitful => x.accepted \cup x.rejected # {}
      BY <3>1, <3>2 DEF Fruitful, Recorded, Lists
    <3>4. ASSUME NEW t \in Tasks, queue'[t] = "done"
          PROVE  queue[t] = "done" \/ (t = run.task /\ Fruitful)
      BY <3>1, <3>4 DEF WorkerInv, TypeOK
    <3> QED
      BY <2>1, <2>2, <3>2, <3>3, <3>4 DEF DoneTasksAreTraced, Recorded, Lists
  <2>4. CASE ~Settle
    <3>1. \A t \in Tasks : queue'[t] = "done" => queue[t] = "done"
      <4>1. CASE Fail
        BY <4>1 DEF Fail, Leave, WorkerInv, TypeOK
      <4>2. CASE \E t \in Tasks, backend \in Backends : Claim(t, backend)
        BY <4>2 DEF Claim, WorkerInv, TypeOK
      <4>3. CASE UNCHANGED queue
        BY <4>3
      <4>4. [Next]_vars /\ ~Settle /\ ~Fail
            /\ ~(\E t \in Tasks, backend \in Backends : Claim(t, backend)) => UNCHANGED queue
        BY DEF Next, StartOfRun, RefuseToStart, BuildSlice, FindSliceIncomplete, FailEarly,
               OpenOutput, Resolve, FailToResolve, FailToCallCodex, CallCodex, CallClaude,
               FailToCallClaude, Accept, RefuseDuplicate, RefuseOther, EndBatch, Project,
               Record, Raise, RecordFailure, FailToRecordFailure, Crash, files, vars
      <4> QED
        BY <2>4, <4>1, <4>2, <4>3, <4>4
    <3> QED
      BY <2>1, <2>2, <3>1 DEF DoneTasksAreTraced
  <2> QED
    BY <2>3, <2>4
<1> QED
  BY <1>1, <1>2, WorkerInvHolds, PTL DEF Spec
-----------------------------------------------------------------------------
(* What is done can be traced, as long as no command dies.                 *)

\* The task of the command in progress is the one the queue calls running.
ClaimedInv == pc # "idle" => queue[run.task] = "running"

\* An execution of the ledger lists the event.
Told(e) == \E x \in ExecutionsIn(entries) : Reference(e) \in x.accepted

\* The command in progress accepted the event and has still to record it.
ToBeTold(e) == pc \in {"process", "project", "record"} /\ e \in run.accepted

\* No task has failed, and the command in progress has not.
Unfailed == pc # "fail" /\ \A t \in Tasks : queue[t] # "failed"

TellingInv ==
    crashes = 0 =>
        /\ tail = "ended"
        /\ Unfailed => \A e \in accepted : Told(e) \/ ToBeTold(e)

\* A task that failed stays so: only the task of the command changes its status.
LEMMA QueueMoves ==
  ASSUME WorkerInv, ClaimedInv, [Next]_vars
  PROVE  /\ ClaimedInv'
         /\ \A t \in Tasks : queue[t] = "failed" => queue'[t] = "failed"
         /\ Fail => \E t \in Tasks : queue'[t] = "failed"
<1>0. /\ queue \in [Tasks -> {"pending", "running", "failed", "done"}]
      /\ pc # "idle" => run.task \in Tasks
      /\ run \in Run
      /\ crashes \in Int
  BY DEF WorkerInv, TypeOK, CommandInv
<1>1. ASSUME NEW t \in Tasks, NEW backend \in Backends, Claim(t, backend)
      PROVE  /\ pc' # "idle" => queue'[run'.task] = "running"
             /\ \A u \in Tasks : queue[u] = "failed" => queue'[u] = "failed"
             /\ ~Fail
  <2>1. /\ pc = "idle" /\ queue[t] \in {"running", "pending"}
        /\ queue' = [queue EXCEPT ![t] = "running"]
        /\ run'.task = t
    BY <1>1 DEF Claim, Fresh
  <2> QED
    BY <1>0, <2>1 DEF Fail
<1>2. CASE Fail \/ Settle
  <2>1. PICK status \in {"failed", "done"} :
            /\ pc \in {"fail", "settle"} /\ pc' = "idle"
            /\ queue' = [queue EXCEPT ![run.task] = status]
            /\ Fail => status = "failed"
    BY <1>2 DEF Fail, Settle, Leave, Goto
  <2>2. run.task \in Tasks /\ queue[run.task] = "running"
    BY <1>0, <2>1 DEF ClaimedInv
  <2> QED
    BY <1>0, <2>1, <2>2 DEF ClaimedInv
<1>3. CASE UNCHANGED queue /\ (pc' = "idle" \/ (run'.task = run.task /\ pc # "idle")) /\ ~Fail
  BY <1>3 DEF ClaimedInv
<1>4. CASE UNCHANGED vars
  BY <1>0, <1>4 DEF ClaimedInv, vars, Fail, Leave, Goto
<1>5. ASSUME RefuseToStart \/ FailToRecordFailure \/ Crash
      PROVE  UNCHANGED queue /\ pc' = "idle" /\ ~Fail
  BY <1>0, <1>5 DEF RefuseToStart, FailToRecordFailure, Crash, Goto, files, Fail
<1>6. ASSUME BuildSlice \/ OpenOutput \/ Resolve \/ EndBatch \/ Project \/ Record \/ Raise
             \/ RecordFailure
      PROVE  UNCHANGED <<queue, run>> /\ pc # "idle" /\ pc' # "idle"
  BY <1>6 DEF BuildSlice, OpenOutput, Resolve, EndBatch, Project, Record, Raise,
              RecordFailure, Goto, files
<1>7. ASSUME \/ StartOfRun \/ FindSliceIncomplete \/ FailToResolve \/ FailToCallClaude
             \/ \E stage \in EarlyStages : FailEarly(stage)
             \/ \E stage \in CallStages : FailToCallCodex(stage)
             \/ \E batch \in Batches : CallCodex(batch) \/ CallClaude(batch)
      PROVE  UNCHANGED queue /\ pc # "idle" /\ pc' # "idle" /\ run'.task = run.task
  BY <1>0, <1>7 DEF StartOfRun, FindSliceIncomplete, FailToResolve, FailToCallClaude, FailEarly,
              FailToCallCodex, CallCodex, CallClaude, RaiseAt, Answer, Goto, files, Run
<1>8. ASSUME Accept \/ RefuseDuplicate \/ RefuseOther
      PROVE  UNCHANGED <<queue, pc>> /\ pc = "process" /\ run'.task = run.task
  BY <1>0, <1>8 DEF Accept, RefuseDuplicate, RefuseOther, Consume, files, Run
<1>9. pc' # "idle" => ~Fail
  BY DEF Fail, Leave, Goto
<1> QED
  BY <1>1, <1>2, <1>3, <1>4, <1>5, <1>6, <1>7, <1>8, <1>9 DEF Next, ClaimedInv

LEMMA ClaimedInvHolds == Spec => []ClaimedInv
<1>1. Init => ClaimedInv
  BY DEF Init, ClaimedInv
<1>2. WorkerInv /\ ClaimedInv /\ [Next]_vars => ClaimedInv'
  BY QueueMoves
<1> QED
  BY <1>1, <1>2, WorkerInvHolds, PTL DEF Spec

LEMMA TellingInvHolds == Spec => []TellingInv
<1>1. Init => TellingInv
  BY DEF Init, TellingInv
<1>2. WorkerInv /\ ClaimedInv /\ TellingInv /\ [Next]_vars => TellingInv'
  <2> SUFFICES ASSUME WorkerInv, ClaimedInv, TellingInv, [Next]_vars, crashes' = 0
               PROVE  /\ tail' = "ended"
                      /\ Unfailed' => \A e \in accepted' : Told(e)' \/ ToBeTold(e)'
    BY DEF TellingInv
  <2>1. crashes = 0 /\ ~Crash
    <3>1. crashes' = crashes \/ crashes' = crashes + 1
      BY DEF Next, vars, Claim, StartOfRun, RefuseToStart, BuildSlice,
             FindSliceIncomplete, FailEarly, OpenOutput, Resolve, FailToResolve,
             FailToCallCodex, CallCodex, CallClaude, FailToCallClaude, Accept,
             RefuseDuplicate, RefuseOther, EndBatch, Project, Record, Settle, Raise,
             RecordFailure, FailToRecordFailure, Fail, Crash
    <3>2. crashes \in Nat
      BY DEF WorkerInv, TypeOK
    <3> QED
      BY <3>1, <3>2 DEF Crash
  <2>2. tail = "ended" /\ (Unfailed => \A e \in accepted : Told(e) \/ ToBeTold(e))
    BY <2>1 DEF TellingInv
  <2>3. tail' = "ended"
    BY <2>1, <2>2
       DEF Next, vars, files, Write, Claim, StartOfRun, RefuseToStart, BuildSlice,
           FindSliceIncomplete, FailEarly, OpenOutput, Resolve, FailToResolve,
           FailToCallCodex, CallCodex, CallClaude, FailToCallClaude, Accept,
           RefuseDuplicate, RefuseOther, EndBatch, Project, Record, Settle, Raise,
           RecordFailure, FailToRecordFailure, Fail
  <2>4. SUFFICES ASSUME Unfailed', NEW e \in accepted'
                 PROVE  Told(e)' \/ ToBeTold(e)'
    BY <2>3
  <2>5. ExecutionsIn(entries) \subseteq ExecutionsIn(entries') /\ (Told(e) => Told(e)')
    BY ExecutionsGrow DEF Told
  <2>6. CASE Accept
    BY <2>2, <2>4, <2>5, <2>6
       DEF Accept, ToBeTold, Unfailed, WorkerInv, TypeOK, Run
  <2>7. CASE ~Accept
    <3>1. e \in accepted
      BY <2>4, <2>7, AcceptanceGrows
    <3>2. Unfailed
      <4>1. \A t \in Tasks : queue[t] # "failed"
        BY <2>4, QueueMoves DEF Unfailed
      <4>2. pc = "fail" => Fail \/ UNCHANGED vars
        BY <2>1 
           DEF Next, Claim, StartOfRun, RefuseToStart, BuildSlice, FindSliceIncomplete,
               FailEarly, OpenOutput, Resolve, FailToResolve, FailToCallCodex, CallCodex,
               CallClaude, FailToCallClaude, Accept, RefuseDuplicate, RefuseOther, EndBatch,
               Project, Record, Settle, Raise, RecordFailure, FailToRecordFailure
      <4> QED
        BY <2>4, <4>1, <4>2, QueueMoves DEF Unfailed, vars
    <3>3. Told(e) \/ ToBeTold(e)
      BY <2>2, <3>1, <3>2
    <3>4. CASE ToBeTold(e) /\ ~Told(e)
      <4>1. pc \in {"process", "project", "record"} /\ e \in run.accepted
        BY <3>4 DEF ToBeTold
      <4>2. CASE Record
        <5>1. ~(pc' \in Working \cup {"fail"}) /\ pc' = "settle" /\ pc = "record"
          BY <4>2 DEF Record, Goto, Working
        <5>2. PICK x : /\ ExecutionsIn(entries') = ExecutionsIn(entries) \cup {x}
                       /\ Recorded(x)
          BY <5>1, ExecutionsGrow
        <5> QED
          BY <4>1, <5>2 DEF Recorded, Lists, Told
      <4>3. CASE EndBatch \/ Project \/ UNCHANGED vars
        BY <4>1, <4>3 DEF EndBatch, Project, Goto, vars, ToBeTold
      <4>4. CASE RefuseDuplicate \/ RefuseOther
        BY <4>1, <4>4 DEF RefuseDuplicate, RefuseOther, Consume, ToBeTold, WorkerInv, TypeOK, Run
      <4>5. CASE Raise
        BY <2>4, <4>5 DEF Raise, Goto, Unfailed
      <4> QED
        BY <2>1, <2>7, <4>1, <4>2, <4>3, <4>4, <4>5
           DEF Next, Claim, StartOfRun, RefuseToStart, BuildSlice, FindSliceIncomplete,
               FailEarly, OpenOutput, Resolve, FailToResolve, FailToCallCodex, CallCodex,
               CallClaude, FailToCallClaude, Settle, RecordFailure, FailToRecordFailure, Fail
    <3> QED
      BY <2>5, <3>3, <3>4
  <2> QED
    BY <2>6, <2>7
<1> QED
  BY <1>1, <1>2, WorkerInvHolds, ClaimedInvHolds, PTL DEF Spec

(***************************************************************************)
(* However often workers failed and tasks were taken up again, while no    *)
(* command died each event of the ledger leads back to the run that        *)
(* accepted it once every task is done: what was accepted and not recorded *)
(* belongs to a command that ends with its task failed, for good.          *)
(***************************************************************************)
THEOREM DoneWorkHasTraces == Spec => []DoneWorkIsTraceable
<1>1. WorkerInv /\ ClaimedInv /\ TellingInv => DoneWorkIsTraceable
  <2> SUFFICES ASSUME WorkerInv, ClaimedInv, TellingInv, crashes = 0,
                      \A t \in Tasks : queue[t] = "done", NEW e \in accepted
               PROVE  \E t \in AcceptedTraces(entries) : t.event = Reference(e)
    BY DEF DoneWorkIsTraceable
  <2>1. pc = "idle"
    BY DEF WorkerInv, CommandInv, ClaimedInv
  <2>2. Told(e)
    BY <2>1 DEF TellingInv, Unfailed, ToBeTold
  <2>3. PICK x \in ExecutionsIn(entries) : Reference(e) \in x.accepted
    BY <2>2 DEF Told
  <2>4. Trace(x, Reference(e), "accepted") \in AcceptedTraces(entries)
    BY <2>3 DEF AcceptedTraces
  <2> QED
    BY <2>4 DEF Trace
<1> QED
  BY <1>1, WorkerInvHolds, ClaimedInvHolds, TellingInvHolds, PTL

-----------------------------------------------------------------------------
(* Output files, and the runs that may have left one.                      *)

\* The runs of which the ledger says that codex was found, if it was looked for.
Explained == {e.run : e \in {e \in ExecutionsIn(entries) : e.stage # "resolve_executable"}}

\* The command in progress will leave an entry that says so, if it leaves any.
ToBeExplained ==
    pc \in Working /\ ~(pc = "record_failure" /\ run.stage = "resolve_executable")

\* The failed runs that may have left an output file.
Suspects == (unanswered \ Explained) \ (IF ToBeExplained THEN {run.number} ELSE {})

\* The output file of the call in progress.
InUse == IF pc \in {"resolve", "call"} THEN 1 ELSE 0

OutputInv ==
    /\ unanswered \subseteq {b.run : b \in StartedIn(entries)}
    /\ outputs <= crashes + Cardinality(Suspects) + InUse

LEMMA NextRunIsNew ==
  ASSUME NEW s, WellFormed(s)
  PROVE  /\ NextRun(s) \notin {b.run : b \in StartedIn(s)}
         /\ {b.run : b \in StartedIn(s)}
               \subseteq {b.run : b \in StartedIn(StartRun(s, Snapshot))}
<1>1. s \in Seq(Entry) /\ Numbered(s) /\ RunsCounted(s)
  BY DEF WellFormed
<1>2. PICK k \in 0..Len(s) : {e.run : e \in StartedIn(s)} = 1..k
  BY <1>1 DEF RunsCounted
<1>3. NextRun(s) = k + 1 /\ k \in Nat
  BY <1>1, <1>2, RunsHaveNumbers, LenProperties
<1>4. ToSet(s) \subseteq ToSet(StartRun(s, Snapshot))
  <2>1. \A e : /\ Len(Append(s, e)) = Len(s) + 1 /\ Len(s) \in Nat
               /\ DOMAIN s = 1..Len(s) /\ DOMAIN Append(s, e) = 1..Len(s) + 1
               /\ \A i \in 1..Len(s) : Append(s, e)[i] = s[i]
    BY <1>1
  <2> QED
    BY <2>1 DEF ToSet, StartRun
<1>5. {b.run : b \in StartedIn(s)} \subseteq {b.run : b \in StartedIn(StartRun(s, Snapshot))}
  BY <1>4 DEF StartedIn
<1>6. NextRun(s) \notin 1..k
  BY <1>3
<1> QED
  BY <1>2, <1>5, <1>6

\* How a step may change what the ledger explains.
LEMMA ExplanationsGrow ==
  ASSUME WorkerInv, [Next]_vars
  PROVE  /\ {b.run : b \in StartedIn(entries)} \subseteq {b.run : b \in StartedIn(entries')}
         /\ \/ Explained' = Explained
            \/ /\ Explained' = Explained \cup {run.number}
               /\ ToBeExplained /\ pc' \notin Working
<1>0. TypeOK /\ WellFormed(entries) /\ CommandInv
  BY DEF WorkerInv
<1>1. ASSUME NEW status \in {"succeeded", "failed"}, NEW taken \in SUBSET Events,
             NEW refused \in SUBSET Events, NEW stage \in Stages, pc \in Working,
             entries' = RecordExecution(entries, run.number, run.task, status, stage,
                                        taken, refused)
      PROVE  /\ {b.run : b \in StartedIn(entries)} \subseteq {b.run : b \in StartedIn(entries')}
             /\ Explained' = IF stage = "resolve_executable" THEN Explained
                             ELSE Explained \cup {run.number}
  <2> DEFINE x == Execution(NextSequence(entries), run.number, run.task, status, stage,
                            taken, refused)
  <2>1. /\ run.number \in Nat /\ run.task \in Tasks
        /\ Open(entries, run.number) /\ Len(entries) + 1 <= MaxEntries
    BY <1>0, <1>1 DEF CommandInv, RunIsOpen, RoomForEntries, Working
  <2>2. ExecutionsIn(entries') = ExecutionsIn(entries) \cup {x}
    BY <1>0, <1>1, <2>1, ExecutionIsWellFormed
  <2>3. x.run = run.number /\ x.stage = stage
    BY DEF Execution
  <2>4. StartedIn(entries) \subseteq StartedIn(entries')
    <3>1. entries' = Append(entries, x) /\ entries \in Seq(Entry)
      BY <1>0, <1>1 DEF RecordExecution, WellFormed
    <3> HIDE DEF x
    <3>2. /\ Len(entries) \in Nat
          /\ DOMAIN entries = 1..Len(entries) /\ DOMAIN entries' = 1..Len(entries) + 1
          /\ \A i \in 1..Len(entries) : entries'[i] = entries[i]
      BY <3>1
    <3> QED
      BY <3>2 DEF StartedIn, ToSet
  <2> HIDE DEF x
  <2> QED
    BY <2>2, <2>3, <2>4 DEF Explained
<1>2. CASE /\ pc = "record" /\ pc' \notin Working
           /\ entries' = RecordExecution(entries, run.number, run.task, "succeeded", "none",
                                         run.accepted, run.rejected)
  <2>1. /\ run.accepted \in SUBSET Events /\ run.rejected \in SUBSET Events
        /\ "none" \in Stages /\ pc \in Working
    BY <1>0, <1>2 DEF TypeOK, Run, Stages, Working
  <2>2. ToBeExplained
    BY <1>2 DEF ToBeExplained, Working
  <2> QED
    BY <1>1, <1>2, <2>1, <2>2
<1>3. CASE RecordFailure
  <2>1. /\ pc = "record_failure" /\ pc' = "fail"
        /\ entries' = RecordExecution(entries, run.number, run.task, "failed", run.stage, {}, {})
    BY <1>3 DEF RecordFailure, Write, Goto
  <2>2. run.stage \in Stages /\ pc \in Working /\ {} \in SUBSET Events
    BY <1>0, <2>1 DEF TypeOK, Run, Stages, Working
  <2>3. /\ {b.run : b \in StartedIn(entries)} \subseteq {b.run : b \in StartedIn(entries')}
        /\ Explained' = IF run.stage = "resolve_executable" THEN Explained
                        ELSE Explained \cup {run.number}
    BY <1>1, <2>1, <2>2
  <2> QED
    BY <2>1, <2>2, <2>3 DEF ToBeExplained, Working
<1>4. CASE entries' = StartRun(entries, Snapshot)
  BY <1>0, <1>4, StartIsWellFormed, NextRunIsNew DEF Explained
<1>5. CASE UNCHANGED entries
  BY <1>5 DEF Explained
<1> QED
  <2>1. CASE Record
    BY <1>2, <2>1 DEF Record, Write, Goto, Working
  <2>2. CASE StartOfRun
    BY <1>4, <2>2 DEF StartOfRun, Write
  <2>3. CASE Crash
    BY <1>2, <1>4, <1>5, <2>3 DEF Crash, Goto, Working
  <2>4. CASE UNCHANGED vars
    BY <1>5, <2>4 DEF vars
  <2>5. ASSUME Next, ~Record, ~RecordFailure, ~StartOfRun, ~Crash
        PROVE  UNCHANGED entries
    BY <2>5, OtherStepsRecordNothing
  <2> QED
    BY <1>3, <1>5, <2>1, <2>2, <2>3, <2>4, <2>5

LEMMA NumbersAreFew ==
  ASSUME NEW numbers \in SUBSET (1..MaxEntries)
  PROVE  IsFiniteSet(numbers) /\ Cardinality(numbers) \in Nat
<1>1. MaxEntries \in Nat
  OBVIOUS
<1>2. IsFiniteSet(1..MaxEntries)
  BY <1>1, FS_Interval
<1>3. IsFiniteSet(numbers)
  BY <1>2, FS_Subset
<1> QED
  BY <1>3, FS_CardinalityType

\* A command that will leave an entry was going to, unless it has just begun.
LEMMA ExplanationStaysDue ==
  ASSUME WorkerInv, [Next]_vars, ~StartOfRun, ~FailToResolve, ToBeExplained'
  PROVE  ToBeExplained /\ run'.number = run.number
<1>0. run \in Run /\ pc' \in Working
  BY DEF WorkerInv, TypeOK, ToBeExplained
<1>1. CASE UNCHANGED <<pc, run>> \/ UNCHANGED vars
  BY <1>1 DEF ToBeExplained, vars
<1>2. CASE BuildSlice \/ OpenOutput \/ Resolve \/ EndBatch \/ Project
  BY <1>2 DEF BuildSlice, OpenOutput, Resolve, EndBatch, Project, Goto, ToBeExplained, Working
<1>3. CASE \/ FindSliceIncomplete \/ FailToCallClaude
           \/ \E stage \in EarlyStages : FailEarly(stage)
           \/ \E stage \in CallStages : FailToCallCodex(stage)
           \/ \E batch \in Batches : CallCodex(batch) \/ CallClaude(batch)
  <2>1. pc \in {"slice", "invoke", "call"}
    BY <1>3 DEF FindSliceIncomplete, FailToCallClaude, FailEarly, FailToCallCodex, CallCodex,
                CallClaude
  <2>2. run'.number = run.number
    BY <1>0, <1>3 DEF FindSliceIncomplete, FailToCallClaude, FailEarly, FailToCallCodex,
                      CallCodex, CallClaude, RaiseAt, Answer, Run
  <2> QED
    BY <2>1, <2>2 DEF ToBeExplained, Working
<1>4. CASE Accept \/ RefuseDuplicate \/ RefuseOther
  <2>1. pc = "process"
    BY <1>4 DEF Accept, RefuseDuplicate, RefuseOther
  <2>2. run'.number = run.number
    BY <1>0, <1>4 DEF Accept, RefuseDuplicate, RefuseOther, Consume, Run
  <2> QED
    BY <2>1, <2>2 DEF ToBeExplained, Working
<1>5. ASSUME \/ RefuseToStart \/ FailToRecordFailure \/ Fail \/ Settle \/ Crash
             \/ Record \/ RecordFailure \/ Raise
             \/ \E t \in Tasks, backend \in Backends : Claim(t, backend)
      PROVE  FALSE
  BY <1>0, <1>5 DEF RefuseToStart, FailToRecordFailure, Fail, Settle, Crash, Record,
                    RecordFailure, Raise, Claim, Leave, Goto, Working
<1> QED
  BY <1>1, <1>2, <1>3, <1>4, <1>5 DEF Next

\* An output file that is made or removed is the one in use, unless the command dies.
LEMMA FilesAreInUse ==
  ASSUME [Next]_vars, ~FailToResolve, outputs \in Nat, crashes \in Nat
  PROVE  outputs' + crashes + InUse <= outputs + crashes' + InUse'
<1>1. ASSUME UNCHANGED <<outputs, crashes>>,
             pc \in {"resolve", "call"} => pc' \in {"resolve", "call"}
      PROVE  outputs' + crashes + InUse <= outputs + crashes' + InUse'
  BY <1>1 DEF InUse
<1>2. CASE UNCHANGED vars
  BY <1>1, <1>2 DEF vars
<1>3. CASE OpenOutput
  BY <1>3 DEF OpenOutput, Goto, InUse
<1>4. CASE Crash
  BY <1>4 DEF Crash, Goto, InUse
<1>5. CASE \/ \E stage \in CallStages : FailToCallCodex(stage)
           \/ \E batch \in Batches : CallCodex(batch)
  BY <1>5 DEF FailToCallCodex, CallCodex, RaiseAt, Answer, Goto, InUse
<1>6. CASE Next /\ ~OpenOutput /\ ~Crash
           /\ ~(\E stage \in CallStages : FailToCallCodex(stage))
           /\ ~(\E batch \in Batches : CallCodex(batch))
  <2>1. UNCHANGED <<outputs, crashes>>
    BY <1>6 DEF Next, files, Claim, StartOfRun, RefuseToStart, BuildSlice, FindSliceIncomplete,
                FailEarly, Resolve, FailToResolve, CallClaude, FailToCallClaude, Accept,
                RefuseDuplicate, RefuseOther, EndBatch, Project, Record, Settle, Raise,
                RecordFailure, FailToRecordFailure, Fail
  <2>2. pc \in {"resolve", "call"} => pc' \in {"resolve", "call"}
    <3>1. CASE Resolve
      BY <3>1 DEF Resolve, Goto
    <3>2. pc = "resolve" \/ pc = "call" => pc' \in {"resolve", "call"}
      <4>1. ASSUME pc = "resolve", ~Resolve PROVE FALSE
        BY <1>6, <4>1 DEF Next, Claim, StartOfRun, RefuseToStart, BuildSlice,
           FindSliceIncomplete, FailEarly, FailToResolve, CallClaude, FailToCallClaude, Accept,
           RefuseDuplicate, RefuseOther, EndBatch, Project, Record, Settle, Raise,
           RecordFailure, FailToRecordFailure, Fail
      <4>2. ASSUME pc = "call" PROVE FALSE
        BY <1>6, <4>2 DEF Next, Claim, StartOfRun, RefuseToStart, BuildSlice,
           FindSliceIncomplete, FailEarly, Resolve, FailToResolve, CallClaude,
           FailToCallClaude, Accept, RefuseDuplicate, RefuseOther, EndBatch, Project, Record,
           Settle, Raise, RecordFailure, FailToRecordFailure, Fail
      <4> QED
        BY <3>1, <4>1, <4>2
    <3> QED
      BY <3>2
  <2> QED
    BY <1>1, <2>1, <2>2
<1> QED
  BY <1>2, <1>3, <1>4, <1>5, <1>6

LEMMA OutputInvHolds == Spec => []OutputInv
<1>1. Init => OutputInv
  BY FS_EmptySet DEF Init, OutputInv, Suspects, InUse
<1>2. WorkerInv /\ WorkerInv' /\ OutputInv /\ [Next]_vars => OutputInv'
  <2> SUFFICES ASSUME WorkerInv, WorkerInv', OutputInv, [Next]_vars PROVE OutputInv'
    OBVIOUS
  <2>0. /\ TypeOK /\ WellFormed(entries) /\ CommandInv
        /\ outputs \in Nat /\ crashes \in Nat /\ run \in Run
        /\ outputs <= crashes + Cardinality(Suspects) + InUse
        /\ unanswered \subseteq {b.run : b \in StartedIn(entries)}
    BY DEF WorkerInv, TypeOK, OutputInv
  <2>1. TypeOK' /\ outputs' \in Nat /\ crashes' \in Nat
    BY DEF WorkerInv, TypeOK
  <2>2. /\ IsFiniteSet(Suspects) /\ Cardinality(Suspects) \in Nat
        /\ IsFiniteSet(Suspects') /\ Cardinality(Suspects') \in Nat
    <3>1. unanswered \in SUBSET (1..MaxEntries) /\ unanswered' \in SUBSET (1..MaxEntries)
      BY <2>0, <2>1 DEF TypeOK
    <3>2. Suspects \in SUBSET (1..MaxEntries) /\ Suspects' \in SUBSET (1..MaxEntries)
      BY <3>1 DEF Suspects
    <3> QED
      BY <3>2, NumbersAreFew
  <2>3. unanswered' \subseteq {b.run : b \in StartedIn(entries')}
    <3>1. /\ unanswered' \subseteq unanswered \cup {run.number}
          /\ unanswered' # unanswered => pc \in Working
      BY DEF Next, vars, files, Claim, StartOfRun, RefuseToStart, BuildSlice,
             FindSliceIncomplete, FailEarly, OpenOutput, Resolve, FailToResolve,
             FailToCallCodex, CallCodex, CallClaude, FailToCallClaude, Accept,
             RefuseDuplicate, RefuseOther, EndBatch, Project, Record, Settle, Raise,
             RecordFailure, FailToRecordFailure, Fail, Crash, RaiseAt, Working
    <3>2. pc \in Working => run.number \in {b.run : b \in StartedIn(entries)}
      BY <2>0 DEF CommandInv, RunIsOpen, Open
    <3> QED
      BY <2>0, <3>1, <3>2, ExplanationsGrow
  <2>4. ASSUME Suspects \subseteq Suspects',
               outputs' + crashes + InUse <= outputs + crashes' + InUse'
        PROVE  OutputInv'
    <3>1. Cardinality(Suspects) <= Cardinality(Suspects')
      BY <2>2, <2>4, FS_Subset
    <3>2. InUse \in Nat /\ InUse' \in Nat
      BY DEF InUse
    <3> DEFINE before == Cardinality(Suspects)
               after == Cardinality(Suspects')
               used == InUse
               using == InUse'
    <3>3. PICK o \in Nat, c \in Nat : o = outputs' /\ c = crashes'
      BY <2>1
    <3>4. /\ outputs \in Nat /\ crashes \in Nat
          /\ before \in Nat /\ after \in Nat /\ used \in Nat /\ using \in Nat
      BY <2>0, <2>2, <3>2
    <3>5. /\ outputs <= crashes + before + used
          /\ o + crashes + used <= outputs + c + using
          /\ before <= after
      BY <2>0, <2>4, <3>1, <3>3
    <3> HIDE DEF before, after, used, using
    <3>6. o <= c + after + using
      BY <3>4, <3>5
    <3>7. outputs' <= crashes' + Cardinality(Suspects') + InUse'
      BY <3>3, <3>6 DEF after, using
    <3> QED
      BY <2>3, <3>7 DEF OutputInv
  <2>5. CASE FailToResolve
    <3>1. /\ pc = "resolve" /\ pc' = "record_failure" /\ run'.stage = "resolve_executable"
          /\ unanswered' = unanswered \cup {run.number}
          /\ UNCHANGED <<entries, outputs, crashes>>
      BY <2>0, <2>5 DEF FailToResolve, RaiseAt, Goto, files, Run
    <3>2. Explained' = Explained /\ run.number \notin Explained
      <4>1. Open(entries, run.number)
        BY <2>0, <3>1 DEF CommandInv, RunIsOpen, Working
      <4> QED
        BY <3>1, <4>1 DEF Explained, Open
    <3>3. Suspects = (unanswered \ Explained) \ {run.number}
      BY <3>1 DEF Suspects, ToBeExplained, Working
    <3>4. Suspects' = Suspects \cup {run.number}
      BY <3>1, <3>2, <3>3 DEF Suspects, ToBeExplained
    <3>5. Cardinality(Suspects') = Cardinality(Suspects) + 1
      BY <2>2, <3>3, <3>4, FS_AddElement
    <3>6. InUse = 1 /\ InUse' = 0
      BY <3>1 DEF InUse
    <3>7. outputs' <= crashes' + Cardinality(Suspects') + InUse'
      BY <2>0, <2>1, <2>2, <3>1, <3>5, <3>6
    <3> QED
      BY <2>3, <3>7 DEF OutputInv
  <2>6. CASE ~FailToResolve
    <3>1. Suspects \subseteq Suspects'
      <4>1. unanswered \subseteq unanswered'
        BY DEF Next, vars, files, Claim, StartOfRun, RefuseToStart, BuildSlice,
             FindSliceIncomplete, FailEarly, OpenOutput, Resolve, FailToResolve,
             FailToCallCodex, CallCodex, CallClaude, FailToCallClaude, Accept,
             RefuseDuplicate, RefuseOther, EndBatch, Project, Record, Settle, Raise,
             RecordFailure, FailToRecordFailure, Fail, Crash, RaiseAt
      <4>2. CASE Explained' = Explained \cup {run.number} /\ ToBeExplained /\ pc' \notin Working
        BY <4>1, <4>2 DEF Suspects, ToBeExplained
      <4>3. CASE /\ Explained' = Explained
                 /\ ToBeExplained' => ToBeExplained /\ run'.number = run.number
        BY <4>1, <4>3 DEF Suspects
      <4>4. CASE StartOfRun
        <5>1. /\ run'.number = NextRun(entries) /\ UNCHANGED unanswered /\ pc = "start"
              /\ pc' = "slice"
          BY <2>0, <4>4 DEF StartOfRun, Run, Goto
        <5>2. run'.number \notin unanswered
          BY <2>0, <5>1, NextRunIsNew
        <5>3. Explained' = Explained
          BY <5>1, ExplanationsGrow DEF Working
        <5> QED
          BY <5>1, <5>2, <5>3 DEF Suspects, ToBeExplained, Working
      <4>5. CASE ~StartOfRun
        <5>1. ToBeExplained' => ToBeExplained /\ run'.number = run.number
          BY <2>6, <4>5, ExplanationStaysDue
        <5> QED
          BY <4>2, <4>3, <5>1, ExplanationsGrow
      <4> QED
        BY <4>4, <4>5
    <3>2. outputs' + crashes + InUse <= outputs + crashes' + InUse'
      BY <2>0, <2>1, <2>6, FilesAreInUse
    <3> QED
      BY <2>4, <3>1, <3>2
  <2> QED
    BY <2>5, <2>6
<1> QED
  BY <1>1, <1>2, WorkerInvHolds, PTL DEF Spec

(***************************************************************************)
(* Between two commands there are no more output files of codex than       *)
(* commands that died and failed runs the ledger has no later stage of:    *)
(* each run accounts for the one file it may leave, whatever came of it.   *)
(***************************************************************************)
THEOREM OutputsDoNotPileUp == Spec => []OutputsAreCollected
<1>1. WorkerInv /\ OutputInv => OutputsAreCollected
  <2> SUFFICES ASSUME WorkerInv, OutputInv, pc = "idle"
               PROVE  outputs <= crashes + Cardinality(unanswered \ Explained)
    BY DEF OutputsAreCollected, Explained
  <2>1. Suspects = unanswered \ Explained /\ InUse = 0
    BY DEF Suspects, ToBeExplained, InUse, Working
  <2>2. unanswered \subseteq 1..MaxEntries /\ crashes \in 0..MaxCrashes
    BY DEF WorkerInv, TypeOK
  <2>3. Cardinality(Suspects) \in Nat
    BY <2>1, <2>2, NumbersAreFew
  <2> QED
    BY <2>1, <2>2, <2>3 DEF OutputInv
<1> QED
  BY <1>1, WorkerInvHolds, OutputInvHolds, PTL
=============================================================================
