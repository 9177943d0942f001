# Deterministic audit runtime: TLA+ specifications

The program (`src/`) runs code audits in which a language model proposes and a
deterministic runtime decides. A backend returns *candidate events*; validators
accept or reject each of them against the events accepted so far; accepted
events are appended to an NDJSON ledger; the *canonical state* is a projection
of that ledger; a planner derives follow-up tasks from the canonical state; a
report is compiled from it. Everything is one-shot commands (`cli.py`) on a
workspace directory, under a lock file.

These modules say what that machinery promises, model-check it on small
instances with TLC, and prove part of it for all instances with TLAPS.

## 1. Inventory

| Component (source) | State it keeps | Operations | What is hard | What makes it correct |
|---|---|---|---|---|
| **Event acceptance** (`runtime/processing.py`, `runtime/validators/*`, `rules/transition_rules.yaml`, `schema/*.json`) | none of its own: re-projects the ledger for every event | schema check, role permissions, transition matrix, cross-entity guards, contradiction sides, duplicates; append | guards look at other entities once; every event replaces a whole payload; some listed guards have no code | findings rest on verified facts *now*; outcomes unique and final; no role decides on what it proposed |
| **Event store** (`runtime/event_store.py`) | `events/*.ndjson` | repair tail, look for duplicates, write, sync; recover; read | crash or failed write at any byte | what was reported as appended stays readable, once, in order |
| **Filesystem lock** (`runtime/event_store.py` 61-245) | the lock file; a per-process counter | create, write, inspect, clear stale, re-enter, release | several processes, no atomic create-with-content, death while holding | mutual exclusion; a leftover file never blocks |
| **State projector** (`runtime/projector.py`) | `state/canonical_state.json` | rebuild from the ledger, atomic write | written after the ledger: may lag behind it | readers see everything accepted |
| **Command line** (`cli.py`) | none | `init-audit`, `snapshot-target`, `enqueue-scan`, `run-task`, `run-all-tasks`, `rebuild-state`, `compile-report`, `list-tasks` | sequences of writes to three files; exceptions inside and outside one `try`; HEAD of the audited repository moves | consistency of the files after any interruption; tasks settle |
| **Task queue, planner, router** (`runtime/tasks.py`) | `state/task_queue.json` | enqueue, claim, transition; plan scans and follow-ups; near-duplicate suppression and budgets | derived from one file, written to another; deferral must not become loss | queue and ledger agree; no proposal forgotten |
| **Run ledger** (`runtime/run_ledger.py`) | `runs/run_ledger.ndjson` | start, trace, failure entries; sequence numbers; traces of events, entities, findings, candidates | torn tail, no repair; everything is computed from all entries on every call | nothing claimed that did not happen; one execution per run; two views of a candidate agree |
| **Snapshot, slices** (`runtime/snapshot.py`, `runtime/slice_builder.py`) | slice files | capture HEAD, read files at a commit; select a task's context | repository changes underneath; what is cut when a limit is reached | a task sees the commit it is bound to, and what contradicts its target |
| **Canonicalization, redaction** (`runtime/canonicalization.py`, `secret_redaction.py`, `context_redaction.py`) | none | digests as identities; text normalisation | identity of reworded, reordered or redacted content | equal content, equal identity |
| **Report compiler** (`runtime/report_compiler.py`) | report files | findings of issues and of observations, suppression, appendix | raises on dangling references; a fact reaches the report in two ways | every reachable state compiles; every verified fact is accounted for once |
| **Backends** (`runtime/adapters/`) | temporary output files | select, negotiate capabilities, bound a policy, call, classify failures, normalise answers | arbitrary output, timeouts, failures at every stage; two adapters with different stages | nothing but candidate events comes out, the same ones either way; no policy grows unseen |
| **Repair, output contracts, roles, policies** (`runtime/repair/`, `output_normalizer.py`, `compose_issue_contract.py`, `workers/`, `policies.py`) | none | rewrite one payload; parse a worker's output; load limits | - | - |
| **Classification, diagnostics, coverage, scanners** (`rejection.py`, `outcome.py`, `diagnostics.py`, `failure_artifacts.py`, `coverage_tracker.py`, `file_prioritization.py`, `pattern_scanner.py`, `evidence.py`) | debugging files | classify rejections and outcomes, aggregate the acceptance funnel, scan sources, bind evidence | a task that yields nothing | an empty run is explained |

How they interact during `run-task`: `_run_command` takes the workspace lock and
recovers (repair the ledger's tail, rebuild the projection); the planner reads the
projection and writes the queue; a task is resumed or claimed (queue); HEAD is
compared with the task's commit; slice and backend; `process_candidate_events`
appends event after event and then rewrites the projection; the task becomes done
or failed (queue); follow-ups are planned (queue); or coverage is expanded (queue).
Three files and the run ledger, written one after the other, with a possible death
between any two.

## 2. Modules

| Module | Models | Checked by | Proved in |
|---|---|---|---|
| `AuditEvents` | acceptance of candidate events, entity lifecycles | `acceptance`, `report_compiles` | `AuditEventsProofs` |
| `AppendOnlyLog` | abstract: what the event store promises | property of `ledger_safe` | `EventLedgerProofs` |
| `EventLedger` | the NDJSON file, torn writes, repair | `ledger_safe`, `ledger_tear` | `EventLedgerProofs` |
| `WorkspaceLock` | the lock file protocol | `lock_sequential`, `lock_overlapping` | `WorkspaceLockProofs` |
| `AuditRuntime` | the command loop over ledger, projection and queue | `runtime_safety`, `runtime_progress`, `runtime_capture`, `runtime_wedge` | `AuditRuntimeProofs` |
| `ObservationLifecycle` | abstract: the life of an observation and of the work on it | property of `runtime_safety` | `AuditRuntimeProofs` |
| `RunLedger` | entries, numbering and traces of the run ledger | `worker_run`, `contracts` | `WorkerRunProofs` |
| `WorkerRun` | one `run-task` from claim to outcome: backend stages, batch, trace | `worker_run` | `WorkerRunProofs` |
| `CandidateRouting` | guardrails, limits and tasks of the candidate router | `contracts` | `RoutingProofs` |
| `BackendContract` | selection, capabilities, policy profiles, failures of both adapters | `contracts` | `ContractsProofs` |
| `Evidence` | source references, evidence classes, the pattern scan | `contracts` | `ContractsProofs` |
| `EventNormalization` | from a model's answer to candidate events, both ways | `contracts` | `ContractsProofs` |
| `Canonicalization` | the identity of events and entities | `contracts` | `ContractsProofs` |
| `SourceBinding` | the validator of references | `contracts` | `ContractsProofs` |
| `SliceSelection` | what a worker is shown of the canonical state | `contracts` | `ContractsProofs` |
| `ReportCompiler` | the report as a function of the canonical state | `contracts` | `ContractsProofs` |
| `Outcomes` | rejections, provider errors, diagnostics of the funnel | `contracts` | `ContractsProofs` |
| `Contracts` | composes the components without state of their own | `contracts` | `ContractsProofs`, `RoutingProofs` |
| `FoldFacts` | what a loop over a list keeps true: the induction the proofs about loops instantiate | | itself |
| `MCAuditEvents`, `MCAuditRuntime`, `MCWorkerRun`, `MCContracts` | values of the constants for TLC | | |

They compose by assumption. `WorkspaceLock` is why `AuditRuntime`, `EventLedger`
and `AuditEvents` may have one writer at a time - as far as it delivers that
(section 6). `EventLedger` implements `AppendOnlyLog`, which is why `AuditEvents`
and `AuditRuntime` may treat the ledger as a set that only grows. `AuditEvents` is
the whole of what acceptance decides; `AuditRuntime` keeps only the part of it that
steers tasks (an observation's status, what it says, whether an issue cites it), and
implements `ObservationLifecycle`, which has neither files nor commands.
`WorkerRun` opens the step between `Bind` and `Succeed` or `Fail` of `AuditRuntime`
and leaves out the planning around it. `Contracts` composes by instantiation: an
answer goes through `Evidence`, `EventNormalization`, `Canonicalization` and
`SourceBinding` in the order the runtime calls them.

### AuditEvents

State: the collections `StateProjector.build_state` projects (`audit`,
`observations`, `issues`, `contradictions`, `candidates`, and `plain` for the kinds
without cross-entity rules), with the payload fields some guard reads, and `ledger`,
the accepted events as (type, entity, actor). One action per kind of entity; the
transition tables are those of `transition_rules.yaml`, the event types those of the
schema's enum. A rejected event changes nothing and is a stuttering step. Any actor
may submit any well-formed event at any time, which covers every batch a backend
can produce, since a batch is processed event by event under the lock.

Abstractions: text, provenance and timestamps are left out; identity is by entity
id, so what the duplicate check refuses beyond the transition matrix is only the
second `audit.updated` with the same status and snapshot. The
`forbidden_promotion` guard is left out: it looks at `caused_by_event_id`, which
is null in every event the adapters build. Events already in internal form, which
`process_candidate_events` also accepts from Python callers, are the same events.

### EventLedger and AppendOnlyLog

State: the lines of the file - which events' text each holds, whether the last of
them is whole, whether a newline ends it - and the append in progress. `_write_all`
is three steps (part of the line, all but the newline, everything), with a crash or
a failing write possible after each. Contents of events are an id and an idempotency
key. `AppendOnlyLog` has two actions, store and acknowledge; the refinement maps its
`log` to what a reader of the file is given.

### WorkspaceLock

One step per line of `FilesystemLock` that touches the file: create, write, inspect,
clear, compare, unlink. `Overlapping` says whether a second command may start while
one is at work. A dead process's pid is never reused (planned as a variant).

### AuditRuntime

State: `accepted` (the ledger, as what it projects to), `projection`
(`canonical_state.json`), `queue` (the status of every possible task), `audit` and
`announced` (the audit root and its `audit.updated` events), `head` of the audited
repository, and `pc` and `run`, the local variables of `command_run_task`.

| Actions | Code |
|---|---|
| `Begin` | `_run_command`, `_recover_workspace_runtime` |
| `Plan`, `EndPlanning` | `TaskPlanner.enqueue_follow_up_tasks`, one queue write per task |
| `Resume`, `Claim`, `NothingToRun` | `select_task_for_execution`, `claim_next_task` |
| `Bind` | `bind_task_snapshot`, outside the `try` |
| `Propose`, `Decide`, `ProposeIssue`, `AcceptOther`, `RefuseDuplicate`, `RefuseOther` | `process_candidate_events`, one event each, from the transport form of each task type |
| `EndBatch`, `Project` | the projection after the batch |
| `Succeed`, `Fail`, `Expand` | the rest of `command_run_task` |
| `RebuildState`, `SnapshotTarget`, `CompileReport`, `EnqueueScan` | the other commands, each atomic under the lock |
| `MoveHead`, `Crash` | the environment |

Abstractions: an observation is what it first claimed and the commit (its id is a
digest of both); `says` is its current claim, since a verdict may reword it, and it
is what near-duplicate suppression compares. Evidence classes, dirty working trees,
`generate_candidates` tasks (no command enqueues them) and a queue file damaged from
outside are left out. The planner's order among plannable tasks is free, which
allows more than the code's sort order does. The other commands are atomic: one that
dies before its event is appended has done no more than `RebuildState`, one that dies
after it has done everything once the next command has recovered the projection.
Candidate events are those the transport form can express for each task type; events
a backend returns in the runtime's internal form are not in the model.

`ObservationLifecycle` says what the loop amounts to for an observation: it is
proposed, its verification is queued, runs and decides once; what is verified may be
queued for composition; an issue is composed by a running task and cites verified
observations; one task runs at a time and none goes back. It has no projection, so a
task is queued in the status the work is about *at that moment*. The refinement maps
its statuses to what the ledger projects to and its tasks to the entries of the queue
(`Verifications`, `Compositions`); scans, planning, binding, projections, refused
events, other commands, moves of HEAD and deaths are stutters.

### WorkerRun and RunLedger

State: `accepted` (the event ledger), `entries` and `tail` of the run ledger (its
last line may lack its newline or be unreadable), the queue, the temporary files of
codex, and the variables of `command_run_task`. `unanswered` is a history variable.

| Actions | Code |
|---|---|
| `Claim`, `StartOfRun`, `RefuseToStart` | the claim and the `run_started` entry, written before the `try` |
| `BuildSlice`, `FindSliceIncomplete` | the slice and the completeness check of a scan |
| `FailEarly`, `OpenOutput`, `Resolve`, `FailToResolve`, `CallCodex`, `FailToCallCodex` | the stages of `CodexAdapter.run_with_result`, with its `finally` |
| `CallClaude`, `FailToCallClaude` | `ClaudeAgentSdkAdapter.run_with_result`, which turns failures into empty answers |
| `Accept`, `RefuseDuplicate`, `RefuseOther`, `EndBatch`, `Project`, `Record` | `process_candidate_events`, event by event |
| `Raise`, `RecordFailure`, `FailToRecordFailure`, `Fail`, `Settle` | the `except` clauses and the outcome |
| `Crash` | death, possibly in the middle of a line |

`RunLedger` has the entries and everything computed from them; its functions for
candidates are exercised by `Contracts`, where events of several candidates are
accepted in every order.

### Contracts and the modules it composes

`input` is one of the inputs of `MCContracts` and never changes; `outcome` is what
was made of it. What is a function in the code is an operator; `Contracts` gives the
functions the sequences of calls the runtime makes: candidates are routed, some of
their tasks done, and routed again; an answer is read by both adapters, and given
again later in other words; a slice is built again after hypotheses and questions
were decided; candidate events are recorded one after the other. Texts are records
of what the code distinguishes in them (wording, spacing, tokens); a digest is what
it digests, so equal digests are equal content.

Simplified: rendering, severities and confidences derived from text, columns of
references, domains and file patterns of policies, secret redaction, all field
formats of the JSON schema.

## 3. Runs

| Run | Shows | Bounds and why they are enough |
|---|---|---|
| `acceptance` | issues rest on verified observations of an allowed class *now*, sides of open contradictions exist; one outcome per entity, agreement of ledger and state, separation of duties, frozen outcomes | one entity of each kind a guard looks at, and a plain one; both evidence classes; Verifier and system, who between them may emit both sides of a lifecycle. The properties relate events of one entity or of one entity and what it cites, and all of them are theorems for every number of entities |
| `report_compiles` | violated: section 6 | smallest instance with one of each kind involved |
| `ledger_safe` | acknowledged events stay, once, in order; only the last line is ever damaged; refinement of `AppendOnlyLog` | 3 ids, 3 keys: three events that do not clash, crash at every step except exactly before the newline |
| `ledger_tear` | violated when that step is allowed too: section 6 | same |
| `lock_sequential` | commands in sequence: a holder's file is on disk; leftovers of deaths at any step never block | 3 processes (two leftovers, one live), depth 2 |
| `lock_overlapping` | violated: section 6 | 2 processes |
| `runtime_safety` | one running task, planning on a fresh projection, queue and ledger consistent; refinement of `ObservationLifecycle` | 1 file, 1 claim, 2 commits (so 2 observations, 6 tasks), HEAD moves twice (away and back), one death, a report at any time |
| `runtime_progress` | tasks settle, proposals are taken up | 2 claims competing for budgets of 1, 1 commit, one death |
| `runtime_capture`, `runtime_wedge` | violated: section 6 | HEAD moves twice, or once; no death |
| `worker_run` | event ledger, run ledger and queue tell the same story | 2 tasks, 3 events of which two have the same id, both backends, batches of up to 2, one death, 6 entries (two runs of each task and one to spare), so that a task is resumed and answers overlap |
| `contracts` | twelve contracts, below | `MCContracts`: every combination of a few values per field; 3 routings (fresh, after work, after none), lives of candidates up to 12 entries, slices limited to 2 observations and 2 related hypotheses so that the limits are reached |

The contracts: `RoutingIsBounded`, `RoutingLosesNoCandidate` and
`RoutingIsRepeatable` (limits hold over repeated routings, nothing is dropped
silently, finished tasks do not come back); `ExpansionIsSeen` (an override without
reported expansion allows nothing new, to tools or to capability negotiation);
`RetriesIgnoreMessages` (whether a failed call is retryable does not hang on the words of
its message: a refused answer is final, a call without an answer is not; two exceptions
are in section 6);
`VerifiersSeeContradictions` (a slice shows what its target rests on and what
contradicts it, unless it is full); `ClaudeReadsWhatCodexReads` and
`SecondPassChangesNothing` (two adapters, one meaning); `RetriedAnswersAreDuplicates`
(the same facts in other words have the same identity); `FactsAreReportedOnce`;
`TwoViewsAgree`; `EmptyRunsAreExplained`.

Deadlock is checked where the system cannot stop (`EventLedger`, `AuditRuntime`). It
is not in `AuditEvents` (every entity may have reached its end), `WorkspaceLock`
(every process may have died), `WorkerRun` (every task may be done or failed, or the
run ledger full or torn) and `Contracts` (an input is dealt with).

The bounds named in the modules are `MaxDepth` (re-entries of the lock), `MaxMoves`
(of HEAD), `MaxCrashes`, `BatchSize` (events of one answer), `MaxEntries` (of the run
ledger) and `MaxRounds` (routings); `MaxEvidence` and `MaxRelated` are constants of
the code, 10 and 5, made small. One death is enough for the runs it appears in: a death
leaves `pc` idle and the files as they were, so a second death starts from a state of
the same kind, and the safety invariants are over those states.

**Fairness.** `WorkspaceLock`: weak fairness of each process's own steps. Nothing in
`FilesystemLock` blocks or sleeps; a process that does not die goes on. Beginning,
re-entering and dying are not fair. `AuditRuntime`: weak fairness of `RunTask` as a
whole. The operator keeps calling `run-task` (or `run-all-tasks` loops over it), and
a command goes on until it ends since the call of a backend has a timeout. No choice
within a run is fair: a backend may refuse everything for ever. Moves of HEAD,
scans, reports and deaths are not fair. `EventLedger`, `AuditEvents`, `WorkerRun`
and `Contracts` state safety only.

`RefuseOther` repeats for ever only as a stuttering step, so weak fairness makes a
batch end. `TasksSettle` and `ProposalsAreTakenUp` except the states in which a
running task's commit is not checked out; `runtime_wedge` shows why they have to.
In `runtime_progress` HEAD does not move, so the exception is not used there.

## 4. What is proved

`AuditEventsProofs`, for every set of entities, actors, snapshots and evidence
classes, from `ConstantsAssumption` and `KindsAssumption` (the kinds of entities that
roles decide about are disjoint, as the schema's id prefixes make them):

- `TypeCorrect`: `Spec => []TypeOK`.
- `FindingsRestOnVerifiedFacts`: `Spec => []IssuesRestOnVerifiedFacts`. It is
  inductive with `TypeOK` because of the lemma `VerifiedObservationsStay`: no
  event changes a verified observation, so the guard of `issue.proposed`, evaluated
  once, stays true. The mutant `ReopenedObservationTransitions` is the rule file in
  which the lemma fails.
- `OutcomesNeverChange`: `Spec => OutcomesAreFinal`, from `FinalStep`, one step per
  kind of entity.
- `ContradictionsStayGrounded`: `Spec => []OpenContradictionsGrounded`, from
  `ExistingGrows`.
- `OutcomesAreUnique`: `Spec => []OneOutcome`. `OneOutcome` speaks of the ledger
  only and is not inductive: nothing in the ledger keeps a second outcome out. The
  strengthening is `LedgerAgreesWithState`, `Spec => []OutcomesRecorded`: for each outcome in the ledger the projected
  status is the one it left behind. It is preserved because outcome statuses are
  left by no transition except accepted to closed (`OutcomeKept`,
  `NewOutcomeRecorded`), and it makes two exclusive outcomes contradict each other.
- `DutiesAreSeparate`: `Spec => []SeparationOfDuties`, from the same strengthening, which
  refuses the Verifier a second verdict, and from `AllEntitled`: what a role emits was
  permitted to it and is about an entity of the kind the event type belongs to.

`AuditRuntimeProofs`, for every set of files, claims and commits, every budget and
every number of deaths and moves of HEAD, from `RuntimeAssumption` alone:

- `RuntimeTypeCorrect`: `Spec => []TypeOK`.
- `NoClaimHidesATask` (`OneRunning`), `PlanningSeesEverything` (`PlansOnFreshState`),
  `VerdictsAreClaimed` (a verdict exists only once its task was claimed on disk) and
  `QueueIsGrounded` (`QueueFollowsLedger`). None of them but the first is inductive. The invariant is
  `RuntimeInv`: types, one running task, and two parts about the command in progress.
  `FreshProjection` says that the projection may lag behind the ledger only while no
  command is at work or between the first accepted event of a batch and the
  projection after it; `RunHoldsTask` says that the task a command works on is the
  one the queue shows as running. `QueueSteps`, `StatusSteps` and `PlannedSteps`
  say how a step may change the queue and the ledger, and the theorems about both
  files follow from these and not from the actions.
- `RuntimeImplementsLifecycle`: `Spec => ImplementsLifecycle`. `OneTaskMoves` says what a
  change of one entry of the queue is in the abstract state, and
  `EnqueuedScansAreUnseen` that scans are not part of it; then there is one lemma per
  action that the abstract specification sees. `PlanMaps` is where `FreshProjection` is
  needed (what the planner read is what the ledger says), `ClaimMaps` where the
  selection of a running task before a pending one is, and `DecideMaps`, `IssueMaps` and
  `SettlingMaps` where `RunHoldsTask` is: what a run decides and settles is what the
  queue shows as running. `RuntimeStepsMapToSteps` adds the stutters.

`EventLedgerProofs`, for every set of ids and keys and every number of appends and
deaths, from `~NewlineTears`. The assumption is needed: `ledger_tear` refutes
`AcknowledgedStored` without it.

- The lemmas about lines come first: what a repair returns and keeps
  (`RepairedProperties`, `RepairKeepsEvents`), that a torn line at the end of clean
  ones is invisible (`TornLineIsInvisible`) and a whole one is one more event
  (`WholeLineIsStored`).
- `LedgerTypeCorrect` and `DamageStaysAtTheTail` (`OnlyTheTailIsTorn`) follow from
  `LedgerInv`: while an append is under way the file is what the append found, which
  is clean, and as much of the line as was written; otherwise a repair leaves clean
  lines. "Clean" includes the newline, which is where the assumption is used.
- `FileImplementsLog`: `Spec => ImplementsLog`. `ReadersSee` says what a reader is given
  in each state of an append; by `StepsMapToSteps` only `WriteEvent` stores an event,
  only `Return` acknowledges one, and every other step, deaths and repairs included,
  is a stutter of the abstract log.
- `AcknowledgedEventsStay` and `EventsAreStoredOnce` are proved through the same
  mapping, from the actions of the abstract log and not from those of the file.

`WorkspaceLockProofs`, for every number of processes and every depth of re-entrance:

- `LockTypeCorrect`: `Spec => []TypeOK`, whether commands overlap or not. A release counts
  down, so the invariant also says that a holder's depth is at least one.
- `SequentialHoldersAreVisible`, from `~Overlapping`: `HoldersAreVisible` is not
  inductive; `SequentialInv` adds that one process at most is at work and that it
  finds its file, empty and then written, from creating to unlinking it.

`WorkerRunProofs`, for every set of tasks and events, every bound and every number of
deaths, from `WorkerRunAssumption` alone:

- `WorkerTypeCorrect` and `RunsAreExecutedOnce` (`OneExecutionPerRun`) rest on
  `WorkerInv`: the run ledger is well formed (entries numbered by their place, runs by
  their starts), and a command between its two entries has an open run and room for
  what it has still to write. `StartIsWellFormed` and `ExecutionIsWellFormed` are about
  the two operations of the run ledger, `MaxOfNumbers` about the number each takes.
- `TracesAreHonest` (`TraceIsHonest`) needs `TraceInv`: what a command accepted so far is
  listed by no execution yet. `ExecutionsGrow` and `AcceptanceGrows` say how a step may
  change the executions and what is accepted; the theorem follows from these.
- `DoneTasksHaveARun` (`DoneTasksAreTraced`), with `SettledInv`: a command about to settle
  has its execution in the ledger.
- `DoneWorkHasTraces` (`DoneWorkIsTraceable`) needs two more parts. `ClaimedInv`: the task
  of the command in progress is the one the queue shows as running. `TellingInv`: while no
  command died, each event of the ledger is listed by an execution, or will be by the
  command in progress, or was accepted by one whose task ends up failed - and a failed task
  is never done later, which is why the theorem asks for every task to be done. The mutant
  `ForgivingFail` breaks exactly this.
- `OutputsDoNotPileUp` (`OutputsAreCollected`), with `OutputInv`, which counts: the files
  lying about are at most the deaths, the runs that may have failed to find the executable
  and the one in use. A run leaves that group for good when its execution is written
  (`ExplanationsGrow`), and `NextRunIsNew` keeps a new run from inheriting an explanation.

`FoldFacts` is the induction behind every loop. The library states induction over an
operator parameter, which the provers cannot instantiate; `FoldFacts` has the operator of
the loop, `Op`, and what it is to keep true, `P`, as CONSTANTS, proves `FoldInduction`
once from the well-foundedness of the numbers (`LeastNumber`, `SetInduction`), and is
instantiated for each loop with two operators of the module that needs it. For this the
steps of the loops are operators without free variables (`RouteTask`, `AddFile`,
`RouteCandidate`, `Extend`). `P` relates what the loop began with, what it has and what it
went through.

`ContractsProofs`, for every set of inputs that meets `ContractsAssumption`: limits and
budgets are numbers (or `None`), which the dataclasses of `policies.py` and `base.py`
declare; lists are finite lists; identifiers are numbers, an order that stands for the
sorting of ids; what is raised within a call is an exception with a class, a stage and
words, and the SDK of Claude raises none of those `codex_adapter.py` defines; a trace or a
reason that was not found, `None` in the code, is none; the events of an answer are
judged only if the answer was read and has them, each refused at most once; and a payload
of an answer has the fields the transport form gives it, its references in a list, and a
text that does not become blank by being spaced differently. Each theorem rests on an invariant
that says what the outcome is of (`PolicyInv`, `CallInv`, `AnswerInv`, `ReportInv`,
`RetriedInv`, `SliceInv`, `LifecycleInv`, `FunnelInv`) and on lemmas about the component:

- `ExpansionsAreSeen` (`ExpansionIsSeen`): for any override of any profile and any calls.
- `MessagesDoNotDecide` (`RetriesIgnoreMessages`): `ClassesDecide` says that the class of an
  exception decides, by `AdapterFailuresAreJudged` for the codex adapter's own exceptions
  and those it wraps; `DefaultsAreConsistent` and `DefaultsSuffice` rule out the refusals
  before the call. A plain `CodexAdapterError` is the class it leaves out.
- `NormalizationIsIdempotent` (`SecondPassChangesNothing`) by `NormalizingAgain`, and
  `BackendsAgree` (`ClaudeReadsWhatCodexReads`): for answers of any length.
- `RetriesAreRecognized` (`RetriedAnswersAreDuplicates`): for answers of any length, given
  again later with texts spaced differently and references in another order.
  `ReversedHoldsTheSame` says that such a list has the same references as often,
  `StoredAreNumbered` (by `FoldFacts`) what is kept of it; `RewordedEntities` follows the
  reworded payload through the normalization of its event type and `NormalizedMatch`
  through canonicalization. `MeaningDependsOn` and `IssuesDependOn` say which fields
  identity and the verdict of the source-binding validator depend on; `SameIdentity` and
  `SameIssues` that these fields agree. Events a backend returned in internal form are
  handed on as they are.
- `ReportsAreComplete` (`FactsAreReportedOnce`): `FindingsHaveSources` and `UncoveredFacts`
  say from which issue or observation each finding and each suppression comes.
- `SlicesTellTheVerifier` (`VerifiersSeeContradictions`): `FirstAreFew`, `FirstOfFew` and
  `LeftOutOfFirst` are about the ids that sort first, `ExtendedGrows` and
  `EvidenceIsBounded` about the loops that collect evidence (the first uses of
  `FoldFacts`). `SliceInv` says that what is decided between two slices changes statuses
  but no facts.
- `LedgerViewsAgree` (`TwoViewsAgree`): for any candidates, in whatever order their events
  are accepted. `LifecycleInv` ties the ledger to the statuses: each status a candidate
  went through is told by an execution of its own, the status it has by the latest of
  them, and no execution tells of a status it did not reach. `TracesOfCandidate` says what
  the search for a trace then finds (`OneIsLatest`, `RanksOfTypes`), and `OutcomeIsStatus`
  and `ListedIsStatus` compare each of the two queries with the status, which is how they
  come to agree with each other.
- `EmptyRunsAreToldOf` (`EmptyRunsAreExplained`): for answers of any length, refused for any
  codes. `StageEnds` and `EarlyStages` follow a run down the funnel: a stage either lets it
  go on (`GoesOn`) or ends it with a reason and a stage (`Explains`); `AllRefusedByPolicy` and
  `RestRefusedByTransport` are the two stages that judge events, whose reasons a fold over
  the codes keeps apart (`SortedByKind`). The explanation and the aggregate follow from
  `Explains` alone.

`RoutingProofs`, for every policy, queue and list of candidates, from the same assumption:

- `RoutingStaysBounded` (`RoutingIsBounded`) and `CandidatesAreAccountedFor`
  (`RoutingLosesNoCandidate`). The router is a loop over candidates with loops over files
  and tasks in it; `CandidatesDone`, `FilesFound` and `TasksDone` are what they keep, in
  three instances of `FoldFacts`. `RoutingInv` carries them from one routing to the next: the queue is finite,
  it has the tasks of the last run, and that run accounts for the candidates.
- `RoutingAgainAddsNothing` (`RoutingIsRepeatable`), an action property about two runs of
  the loop. `RepeatInv` says that, while nothing was worked on, the queue is what the last
  run made of the queue it found; the second run starts with more verifications waiting
  and is followed in step with the first (`InStep`, `SameTask`) by a fold over both at
  once, until it stops adding (`Repeats`): the limit may separate the two, but then the
  second has nothing left that the first did not route.

Only model-checked:

- Liveness, which is out of TLAPS's reach: `TasksSettle`, `ProposalsAreTakenUp`,
  `LeftoversNeverBlock`.
- The violations of section 6, which no theorem contradicts: `AcknowledgedStored` is proved
  from `~NewlineTears`, visibility of lock holders from `~Overlapping`.

## 5. What is not modelled, and why

The repair layer, `output_normalizer.py` and the compose-issue contract rewrite one
payload and are called by tests only; `coverage_tracker.py` is not called by the
commands, `semantic_content.py` is not part of the validator suite, and
prioritisation is a heuristic order. Redaction and the regular expressions of the
scanner are text; what redaction means for the duplicate check is listed as a hazard.
Prompts and the models behind the backends are the environment: what they answer is
arbitrary. Field formats of the JSON schema only make `AuditEvents` accept less,
which its safety properties do not depend on. `init-audit` is the initial state.
The runtime builds no diagnostics itself: `Contracts` calls the builder as its tests do.
Queries of the run ledger that follow a candidate beyond its own events
(`resolve_candidate_lineage`) are left out: section 6.

## 6. What the runs found

- **A report that cannot be compiled** (`report_compiles`): an accepted issue may
  cite a question or contradiction that does not exist; the compiler raises.
- **A newline that is not written** (`ledger_tear`): the repair keeps an unterminated
  but parsable last line, the next append continues it, the repair after that removes
  both events, one of them reported as appended.
- **Two holders of the lock** (`lock_overlapping`): a lock file that is created but
  not yet written is taken for stale by a second command.
- **A task that neither runs nor fails** (`runtime_wedge`): when HEAD has moved,
  `run-task` raises after claiming and outside its `try`; the task stays running and
  is the first choice of every later run.
- **A commit that cannot be captured again** (`runtime_capture`): `snapshot-target`
  is refused when HEAD goes back to a commit captured before under the same status.

Smaller things met while modelling, which no run is about and the models keep as the
code has them:

- The guard that an observation's `candidate_ref` must exist
  (`rules/transition_rules.yaml:689`) has no code behind it.
- A failed call of Claude's provider is recorded as a run that succeeded without
  events: `_convert_to_codex_result` looks at neither `success` nor `error`.
- `classify_exception` knows a timeout by the exception names `TimeoutError` and
  `TimeoutExpired` only: a provider's timeout under another name counts as a crash,
  and that function's crashes are not retryable, while a crashed codex process is.
- `run_with_result` (`codex_adapter.py:188-200`) wraps every exception it does not know in
  a `CodexInvocationError`, which is classified as a retryable `process_crash`, also when
  a received answer is at fault: a verdict about an observation that is not in the slice
  is a `KeyError` (`codex_adapter.py:796-798`), and an executor's result that is no text
  raises the same class (162-163). `base.py:64-75` counts "invalid references" as a
  failure of the SEMANTIC level, and `process_crash` is to mean "Backend process crashed
  during execution" (`base.py:96-97`). `RetriesIgnoreMessages` asks neither for nor
  against a retry of these answers, only that it does not depend on their words.
- A plain `CodexAdapterError` is judged by its stage unless its text holds "timeout": when
  the schema file is missing (`codex_adapter.py:366-369`) the text holds its path, so a
  workspace below a directory of that name turns a `semantic_error` into a retryable
  timeout.
- `resolve_candidate_lineage` documents `complete` as "True if the full lineage to
  findings is traceable" (`run_ledger.py:539`, 564-597), which
  `tests/test_lineage_completeness.py` prints for a promoted candidate without a check.
  It is never true for one: the promoted observation is looked up by the
  `promoted_observation_id` of the stored event reference (`run_ledger.py:478`), and
  `_normalize_event_outcome` (837-865) keeps no such field. The operator is not modelled.
- A limit that is lifted altogether (`None`) is not seen by `check_policy_expansion`.
- Candidates whose tasks are done still use up the limits of a routing; a verification
  target that is no observation yields neither a task nor a report; the outcome for a
  candidate without a snapshot raises.
- The evidence of a hypothesis is cut by id after the observations of related
  hypotheses were mixed in, and ids that do not exist count against the limit: what
  the hypothesis itself rests on can be pushed out, and a contradicting hypothesis
  with a large id with it. `VerifiersSeeContradictions` allows this when the slice is
  full.
- Contradictions and candidates of an unknown type have no canonical meaning, so a
  retried one is a new entity. A flat candidate of Claude's loses its confidence.
- `inferred_line_range` and `missing_line_range` of the source-binding validator
  cannot be reached after canonicalization.
- A run whose events are all refused as `schema_invalid` keeps the termination reason
  `success`; `total_candidates` of the funnel is what entered the extract stage.
- The codes of `semantic_content.py` and their entries in `processing.py:93-99` differ
  in case.

## 7. Plan

Order of work, most important first.

1. *(done)* `AuditEvents` with its proofs; `EventLedger` refining `AppendOnlyLog`;
   `WorkspaceLock`; `AuditRuntime` with its proofs.
2. *(done)* `RunLedger` and `WorkerRun`, the batch with its partial failures;
   `CandidateRouting`, `BackendContract`, `Evidence`, `EventNormalization`,
   `Canonicalization`, `SourceBinding`, `SliceSelection`, `ReportCompiler`, `Outcomes`,
   composed by `Contracts`.
3. *(done)* `EventLedgerProofs`: the file implements the log, under the assumption that
   no write stops right before its newline. `WorkspaceLockProofs`: visibility of holders
   for commands that do not overlap. `SeparationOfDuties` in `AuditEventsProofs`.
4. *(done)* `WorkerRunProofs`: honest traces and one execution per run for every number
   of tasks and deaths, from the numbering of entries; traceability of done work and
   collection of output files.
5. *(done)* `FoldFacts`, `ContractsProofs` and `RoutingProofs`: the twelve contracts for
   every set of inputs.
6. *(done)* `ObservationLifecycle`, the abstract life of an observation, implemented by
   `AuditRuntime`.
7. The same of `AuditEvents`: a part of `ObservationLifecycle` without tasks that both
   models implement, the proof that they agree where they overlap.
8. Questions still open as hazards: coverage expansion lost to a crash, suppression
   by failed tasks, pid reuse, `init-audit` that dies half-way, redaction against
   duplicates.
