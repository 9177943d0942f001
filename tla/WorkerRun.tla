------------------------------ MODULE WorkerRun ------------------------------
(***************************************************************************)
(* One run-task command from the claim of a task to its outcome, with the  *)
(* call of the backend and the trace it leaves in the run ledger:          *)
(* cli.command_run_task, the two adapters, processing.process_candidate_   *)
(* events and runtime/run_ledger.py.                                       *)
(*                                                                         *)
(* AuditRuntime has the planning before and after it; here a task is a     *)
(* name and its batch of candidate events is arbitrary.  The event ledger  *)
(* is written event by event, the run ledger once when the run begins and  *)
(* once when its batch is over, the queue last: a command that dies, or an *)
(* exception in between, leaves them at odds.                              *)
(***************************************************************************)
EXTENDS RunLedger

CONSTANTS
    Tasks,
    Events,         \* candidate events by content: id, type and entity
    Backends,       \* what --backend may name: "codex", "claude_sdk"
    Snapshot,       \* the snapshot all tasks are bound to
    BatchSize,      \* bound on the events of one answer
    MaxEntries,     \* bound on the run ledger
    MaxCrashes,     \* bound on how often a command dies
    NoTask

ASSUME WorkerRunAssumption ==
    /\ Backends \subseteq {"codex", "claude_sdk"}
    /\ {BatchSize, MaxEntries, MaxCrashes} \subseteq Nat
    /\ NoTask \notin Tasks

VARIABLES
    accepted,   \* the events of the event ledger
    entries,    \* the entries of the run ledger
    tail,       \* its last line: "ended", without its newline, or unreadable
    queue,      \* the status of each task
    outputs,    \* how many temporary output files of codex exist
    pc,         \* the next step of the command in progress
    run,        \* its variables
    unanswered, \* history: the runs whose backend call failed
    crashes

vars == <<accepted, entries, tail, queue, outputs, pc, run, unanswered, crashes>>
files == <<accepted, entries, tail, queue, outputs>>

Batches == SeqOf(Events, BatchSize)

Fresh == [task |-> NoTask, resumed |-> FALSE, backend |-> "none", number |-> 0,
          batch |-> <<>>, accepted |-> {}, rejected |-> {}, refused |-> "none",
          stage |-> "none"]

\* failure_stage of the errors CodexAdapter raises, by when they are raised.
EarlyStages == {"resolve_worker", "prepare_request", "build_invocation"}
CallStages == {"invoke_codex", "validate_worker_result", "parse_transport_output",
               "normalize_transport_output", "validate_worker_output",
               "parse_worker_output"}

Run ==
    [ task: Tasks \cup {NoTask}, resumed: BOOLEAN, backend: Backends \cup {"none"},
      number: 0..MaxEntries, batch: Batches,
      accepted: SUBSET Events, rejected: SUBSET Events,
      refused: {"none", "duplicates", "others"},
      stage: EarlyStages \cup CallStages
                 \cup {"none", "precondition_check", "resolve_executable"} ]

TypeOK ==
    /\ accepted \subseteq Events
    /\ Len(entries) <= MaxEntries
    /\ tail \in {"ended", "unended", "torn"}
    /\ queue \in [Tasks -> {"pending", "running", "failed", "done"}]
    /\ outputs \in Nat
    /\ pc \in {"idle", "start", "slice", "invoke", "resolve", "call", "process",
               "project", "record", "record_failure", "settle", "fail"}
    /\ run \in Run
    /\ unanswered \subseteq 1..MaxEntries
    /\ crashes \in 0..MaxCrashes

Init ==
    /\ accepted = {}
    /\ entries = <<>>
    /\ tail = "ended"
    /\ queue = [t \in Tasks |-> "pending"]
    /\ outputs = 0
    /\ pc = "idle"
    /\ run = Fresh
    /\ unanswered = {}
    /\ crashes = 0

Goto(step) == pc' = step

Leave(status) ==
    /\ queue' = [queue EXCEPT ![run.task] = status]
    /\ run' = Fresh
    /\ Goto("idle")

-----------------------------------------------------------------------------
(* The claim, the run_started entry and the slice.                         *)

Claim(t, backend) ==
    /\ pc = "idle"
    /\ Len(entries) + 2 <= MaxEntries
    /\ \/ queue[t] = "running"
       \/ queue[t] = "pending" /\ \A u \in Tasks : queue[u] # "running"
    /\ queue' = [queue EXCEPT ![t] = "running"]
    /\ run' = [Fresh EXCEPT !.task = t, !.resumed = (queue[t] = "running"),
                            !.backend = backend]
    /\ Goto("start")
    /\ UNCHANGED <<accepted, entries, tail, outputs, unanswered, crashes>>

(***************************************************************************)
(* _append_entry writes one line after whatever is there: an entry that    *)
(* follows a line without its newline makes one unreadable line of both.   *)
(***************************************************************************)
Write(updated) ==
    /\ tail # "torn"
    /\ entries' = updated
    /\ tail' = IF tail = "unended" THEN "torn" ELSE "ended"

StartOfRun ==
    /\ pc = "start"
    /\ Write(StartRun(entries, Snapshot))
    /\ run' = [run EXCEPT !.number = NextRun(entries)]
    /\ Goto("slice")
    /\ UNCHANGED <<accepted, queue, outputs, unanswered, crashes>>

\* read_entries raises, before the try statement: the task stays running.
RefuseToStart ==
    /\ pc = "start"
    /\ tail = "torn"
    /\ run' = Fresh
    /\ Goto("idle")
    /\ UNCHANGED <<files, unanswered, crashes>>

BuildSlice ==
    /\ pc = "slice"
    /\ Goto("invoke")
    /\ UNCHANGED <<files, run, unanswered, crashes>>

\* SLICE_COMPLETENESS_VIOLATION: a module_scan without the text of its target.
FindSliceIncomplete ==
    /\ pc = "slice"
    /\ run' = [run EXCEPT !.stage = "precondition_check"]
    /\ Goto("record_failure")
    /\ UNCHANGED <<files, unanswered, crashes>>

-----------------------------------------------------------------------------
(* CodexAdapter.run_with_result: every error is raised with its stage.     *)

RaiseAt(stage) ==
    /\ run' = [run EXCEPT !.stage = stage]
    /\ unanswered' = unanswered \cup {run.number}
    /\ Goto("record_failure")

FailEarly(stage) ==
    /\ pc = "invoke" /\ run.backend = "codex"
    /\ RaiseAt(stage)
    /\ UNCHANGED <<files, crashes>>

\* _build_invocation creates the output file before it looks for codex.
OpenOutput ==
    /\ pc = "invoke" /\ run.backend = "codex"
    /\ outputs' = outputs + 1
    /\ Goto("resolve")
    /\ UNCHANGED <<accepted, entries, tail, queue, run, unanswered, crashes>>

Resolve ==
    /\ pc = "resolve"
    /\ Goto("call")
    /\ UNCHANGED <<files, run, unanswered, crashes>>

\* The invocation is still None: the finally clause has no path to clean up.
FailToResolve ==
    /\ pc = "resolve"
    /\ RaiseAt("resolve_executable")
    /\ UNCHANGED <<files, crashes>>

Answer(batch) ==
    /\ run' = [run EXCEPT !.batch = batch]
    /\ Goto("process")

\* A call that forgets its output file when the answer is no use.
LitteringCallCodex(stage) ==
    /\ pc = "call"
    /\ RaiseAt(stage)
    /\ UNCHANGED <<files, crashes>>

\* The process fails or times out, or its output is no worker output.
FailToCallCodex(stage) ==
    /\ pc = "call"
    /\ RaiseAt(stage)
    /\ outputs' = outputs - 1
    /\ UNCHANGED <<accepted, entries, tail, queue, crashes>>

CallCodex(batch) ==
    /\ pc = "call"
    /\ Answer(batch)
    /\ outputs' = outputs - 1
    /\ UNCHANGED <<accepted, entries, tail, queue, unanswered, crashes>>

-----------------------------------------------------------------------------
(* ClaudeAgentSdkAdapter.run_with_result.                                  *)

CallClaude(batch) ==
    /\ pc = "invoke" /\ run.backend = "claude_sdk"
    /\ Answer(batch)
    /\ UNCHANGED <<files, unanswered, crashes>>

(***************************************************************************)
(* run_with_backend_contract reports a failure in its result: no package,  *)
(* no key, an API error, a denied policy.  _convert_to_codex_result does   *)
(* not look at success and error, and hands on an answer without events;   *)
(* an answer that is not JSON becomes one without events as well.          *)
(***************************************************************************)
FailToCallClaude ==
    /\ pc = "invoke" /\ run.backend = "claude_sdk"
    /\ unanswered' = unanswered \cup {run.number}
    /\ Answer(<<>>)
    /\ UNCHANGED <<files, crashes>>

-----------------------------------------------------------------------------
(* process_candidate_events.                                               *)

Consume(refused) ==
    run' = [run EXCEPT !.batch = Tail(@),
                       !.rejected = @ \cup {Head(run.batch)},
                       !.refused = refused]

\* An event whose id another event has already is a conflict, not a duplicate.
Accept ==
    /\ pc = "process" /\ run.batch # <<>>
    /\ \A e \in accepted : e.id # Head(run.batch).id
    /\ accepted' = accepted \cup {Head(run.batch)}
    /\ run' = [run EXCEPT !.batch = Tail(@), !.accepted = @ \cup {Head(run.batch)}]
    /\ UNCHANGED <<entries, tail, queue, outputs, pc, unanswered, crashes>>

RefuseDuplicate ==
    /\ pc = "process" /\ run.batch # <<>>
    /\ Head(run.batch) \in accepted
    /\ Consume(IF run.refused = "others" THEN "others" ELSE "duplicates")
    /\ UNCHANGED <<files, pc, unanswered, crashes>>

RefuseOther ==
    /\ pc = "process" /\ run.batch # <<>>
    /\ Consume("others")
    /\ UNCHANGED <<files, pc, unanswered, crashes>>

EndBatch ==
    /\ pc = "process" /\ run.batch = <<>>
    /\ Goto(IF run.accepted = {} THEN "record" ELSE "project")
    /\ UNCHANGED <<files, run, unanswered, crashes>>

Project ==
    /\ pc = "project"
    /\ Goto("record")
    /\ UNCHANGED <<files, run, unanswered, crashes>>

\* A record that takes all that was ever accepted for the work of this run.
GreedyRecord ==
    /\ pc = "record"
    /\ Write(RecordExecution(entries, run.number, run.task, "succeeded", "none",
                             accepted, run.rejected))
    /\ Goto("settle")
    /\ UNCHANGED <<accepted, queue, outputs, run, unanswered, crashes>>

\* _record_trace_entry: a batch that was processed is a run that succeeded.
Record ==
    /\ pc = "record"
    /\ Recordable("succeeded", "none")
    /\ Write(RecordExecution(entries, run.number, run.task, "succeeded", "none",
                             run.accepted, run.rejected))
    /\ Goto("settle")
    /\ UNCHANGED <<accepted, queue, outputs, run, unanswered, crashes>>

-----------------------------------------------------------------------------
(* The outcome.                                                            *)

(***************************************************************************)
(* An exception that is no CodexAdapterError: a slice that cannot be       *)
(* built, evidence in a file the snapshot does not have, an event the      *)
(* canonicalizer raises on, a projection or a trace that cannot be         *)
(* written, or the directory for the artifacts of refused events.  The     *)
(* task fails, whatever was accepted, and no trace is recorded any more.   *)
(***************************************************************************)
Raise ==
    /\ \/ pc \in {"slice", "process", "project"}
       \/ pc = "invoke" /\ run.backend = "claude_sdk"
       \/ pc = "record" /\ tail = "torn"
       \/ pc = "settle" /\ run.rejected # {}
    /\ Goto("fail")
    /\ UNCHANGED <<files, run, unanswered, crashes>>

RecordFailure ==
    /\ pc = "record_failure"
    /\ Recordable("failed", run.stage)
    /\ Write(RecordExecution(entries, run.number, run.task, "failed", run.stage, {}, {}))
    /\ Goto("fail")
    /\ UNCHANGED <<accepted, queue, outputs, run, unanswered, crashes>>

\* read_entries raises inside the except clause: the task stays running.
FailToRecordFailure ==
    /\ pc = "record_failure"
    /\ tail = "torn"
    /\ run' = Fresh
    /\ Goto("idle")
    /\ UNCHANGED <<files, unanswered, crashes>>

\* A failure under a name the queue does not know.
MisnamedFail ==
    /\ pc = "fail"
    /\ Leave("error")
    /\ UNCHANGED <<accepted, entries, tail, outputs, unanswered, crashes>>

\* A failure that counts what was accepted before the exception.
ForgivingFail ==
    /\ pc = "fail"
    /\ Leave(IF run.batch = <<>> THEN "failed" ELSE "done")
    /\ UNCHANGED <<accepted, entries, tail, outputs, unanswered, crashes>>

Fail ==
    /\ pc = "fail"
    /\ Leave("failed")
    /\ UNCHANGED <<accepted, entries, tail, outputs, unanswered, crashes>>

Fruitful == run.accepted # {} \/ (run.resumed /\ run.refused = "duplicates")

\* A settlement that does not wait for the trace.
UntracedSettle ==
    /\ pc \in {"record", "settle"}
    /\ Leave(IF Fruitful THEN "done" ELSE "failed")
    /\ UNCHANGED <<accepted, entries, tail, outputs, unanswered, crashes>>

Settle ==
    /\ pc = "settle"
    /\ Leave(IF Fruitful THEN "done" ELSE "failed")
    /\ UNCHANGED <<accepted, entries, tail, outputs, unanswered, crashes>>

\* The command dies, perhaps in the middle of a line of the run ledger.
Crash ==
    /\ pc # "idle"
    /\ crashes < MaxCrashes
    /\ crashes' = crashes + 1
    /\ run' = Fresh
    /\ Goto("idle")
    /\ UNCHANGED <<accepted, queue, outputs, unanswered>>
    /\ \/ UNCHANGED <<entries, tail>>
       \/ /\ pc \in {"start", "record", "record_failure"}
          /\ tail' = "torn"
          /\ UNCHANGED entries
       \/ /\ pc = "start"
          /\ tail = "ended" /\ tail' = "unended"
          /\ entries' = StartRun(entries, Snapshot)
       \/ /\ pc = "record"
          /\ tail = "ended" /\ tail' = "unended"
          /\ entries' = RecordExecution(entries, run.number, run.task, "succeeded", "none",
                                        run.accepted, run.rejected)

Next ==
    \/ \E t \in Tasks, backend \in Backends : Claim(t, backend)
    \/ StartOfRun \/ RefuseToStart
    \/ BuildSlice \/ FindSliceIncomplete
    \/ \E stage \in EarlyStages : FailEarly(stage)
    \/ OpenOutput \/ Resolve \/ FailToResolve
    \/ \E stage \in CallStages : FailToCallCodex(stage)
    \/ \E batch \in Batches : CallCodex(batch) \/ CallClaude(batch)
    \/ FailToCallClaude
    \/ Accept \/ RefuseDuplicate \/ RefuseOther \/ EndBatch
    \/ Project \/ Record \/ Settle
    \/ Raise \/ RecordFailure \/ FailToRecordFailure \/ Fail
    \/ Crash

Spec == Init /\ [][Next]_vars

-----------------------------------------------------------------------------
(***************************************************************************)
(* The run ledger never claims more than happened: every event an entry    *)
(* lists as accepted is in the event ledger, and no event is accepted by   *)
(* two entries, although a resumed task is given the same events again.    *)
(***************************************************************************)
TraceIsHonest ==
    /\ \A t \in AcceptedTraces(entries) : \E e \in accepted : t.event = Reference(e)
    /\ \A t, u \in AcceptedTraces(entries) : t.event.id = u.event.id => t = u

(***************************************************************************)
(* Every worker_execution entry belongs to one run_started entry before    *)
(* it, no run has two of them, and no two entries share a number, however  *)
(* many commands died without leaving an entry.                            *)
(***************************************************************************)
OneExecutionPerRun ==
    /\ \A i, j \in DOMAIN entries : i < j => entries[i].sequence < entries[j].sequence
    /\ \A s, u \in StartedIn(entries) : s.run = u.run => s = u
    /\ \A e, f \in ExecutionsIn(entries) : e.run = f.run => e = f
    /\ \A e \in ExecutionsIn(entries) :
           \E s \in StartedIn(entries) : s.run = e.run /\ s.sequence < e.sequence

(***************************************************************************)
(* A task that is done was worked on by a run the ledger has: one that     *)
(* accepted something, or was refused only what was in the ledger already. *)
(***************************************************************************)
DoneTasksAreTraced ==
    \A t \in Tasks : queue[t] = "done" =>
        \E e \in ExecutionsIn(entries) :
            /\ e.task = t /\ e.status = "succeeded"
            /\ e.accepted \cup e.rejected # {}

(***************************************************************************)
(* When every task is done and no command died, each event of a worker in  *)
(* the ledger can be traced to the run that accepted it                    *)
(* (resolve_event_trace).  A batch that an exception ends is the only      *)
(* other way to lose its trace.                                            *)
(***************************************************************************)
DoneWorkIsTraceable ==
    crashes = 0 /\ (\A t \in Tasks : queue[t] = "done") =>
        \A e \in accepted : \E t \in AcceptedTraces(entries) : t.event = Reference(e)

(***************************************************************************)
(* The output file of a codex call is removed whatever comes of the call,  *)
(* except by a command that died or did not find the executable.           *)
(***************************************************************************)
OutputsAreCollected ==
    pc = "idle" =>
        outputs <= crashes + Cardinality(unanswered \ {e.run : e \in
                       {e \in ExecutionsIn(entries) : e.stage # "resolve_executable"}})
=============================================================================
