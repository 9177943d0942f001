---------------------------- MODULE AuditRuntime ----------------------------
(***************************************************************************)
(* The audit loop: cli.py run-task and run-all-tasks over the task queue   *)
(* and the follow-up planner of runtime/tasks.py.                          *)
(*                                                                         *)
(* Three files outlive a command: the ledger of accepted events, the       *)
(* projection canonical_state.json rebuilt from it, and the task queue.    *)
(* They are written one after the other, and a command may die between any *)
(* two writes; the next command recovers the projection and resumes the    *)
(* task it finds running.  The workspace lock lets one command run at a    *)
(* time.  The audited repository is not locked: its HEAD moves when its    *)
(* owner commits.  What a backend proposes is arbitrary.                   *)
(***************************************************************************)
EXTENDS Naturals, FiniteSets

CONSTANTS
    Files,              \* tracked files worth scanning
    Claims,             \* what an observation may say
    Source,             \* the file each claim is about
    Snapshots,          \* commits of the audited repository
    VerifyMaxPerAudit, VerifyMaxFollowUp,           \* the budgets of the policy
    ComposeMaxPerAudit, ComposeMaxPerSource,
    ExpansionBatch,     \* files added by one expansion of coverage
    NoSnapshot, NoTask, \* a null reference
    Reporting,          \* does the operator compile reports?
    MaxMoves,           \* bound on how often HEAD moves
    MaxCrashes          \* bound on how often a command dies

ASSUME RuntimeAssumption ==
    /\ Source \in [Claims -> Files]
    /\ Snapshots # {} /\ NoSnapshot \notin Snapshots
    /\ {VerifyMaxPerAudit, VerifyMaxFollowUp, ComposeMaxPerAudit,
        ComposeMaxPerSource, ExpansionBatch} \subseteq Nat \ {0}
    /\ Reporting \in BOOLEAN
    /\ {MaxMoves, MaxCrashes} \subseteq Nat

\* An observation's id is a digest of what was first claimed, and where.
Observations == [claim: Claims, snapshot: Snapshots]

ScanTasks == [type: {"module_scan"}, target: Files, snapshot: Snapshots]
FollowUpTasks ==
    {[type |-> type, target |-> o, snapshot |-> o.snapshot] :
        type \in {"verify_claim", "compose_issue"}, o \in Observations}
Tasks == ScanTasks \cup FollowUpTasks

Verify(o)  == [type |-> "verify_claim",  target |-> o, snapshot |-> o.snapshot]
Compose(o) == [type |-> "compose_issue", target |-> o, snapshot |-> o.snapshot]

VARIABLES
    accepted,   \* what the ledger projects to: see CanonicalState
    projection, \* canonical_state.json
    queue,      \* task_queue.json: the status of every task, "absent" if none
    head,       \* the commit checked out in the audited repository
    audit,      \* the audit root: its status and current_snapshot_ref
    announced,  \* the pairs of the two an audit.updated event was accepted for
    pc,         \* the next step of the command in progress
    run,        \* the variables of command_run_task: see Run
    moves, crashes

root == <<audit, announced>>
store == <<accepted, projection, queue, root>>
repository == <<head, moves>>
vars == <<store, repository, pc, run, crashes>>

(***************************************************************************)
(* A verdict may reword a claim: says[o] is the claim of o as it is now.   *)
(***************************************************************************)
CanonicalState ==
    [ status: [Observations -> {"absent", "proposed", "verified", "rejected"}],
      says: [Observations -> Claims],
      backed: SUBSET Observations ]   \* those some issue cites as evidence

Run ==
    [ task: Tasks \cup {NoTask},
      resumed: BOOLEAN,                            \* found running, not claimed
      accepted: BOOLEAN,                           \* some event was accepted
      refused: {"none", "duplicates", "others"},   \* those that were not
      planned: 0..VerifyMaxFollowUp,               \* verify_claim tasks this planning
      enqueued: BOOLEAN ]                          \* any task this planning

AuditRoot == [status: {"initialized", "in_progress"}, snapshot: Snapshots \cup {NoSnapshot}]

Fresh == [task |-> NoTask, resumed |-> FALSE, accepted |-> FALSE,
          refused |-> "none", planned |-> 0, enqueued |-> FALSE]

TypeOK ==
    /\ accepted \in CanonicalState
    /\ projection \in CanonicalState
    /\ queue \in [Tasks -> {"absent", "pending", "running", "failed", "done"}]
    /\ head \in Snapshots
    /\ audit \in AuditRoot
    /\ announced \subseteq {<<a.status, a.snapshot>> : a \in AuditRoot}
    /\ pc \in {"idle", "plan", "select", "bind", "process", "project", "settle",
               "follow", "expand"}
    /\ run \in Run
    /\ moves \in 0..MaxMoves
    /\ crashes \in 0..MaxCrashes

Init ==
    /\ accepted = [status |-> [o \in Observations |-> "absent"],
                   says |-> [o \in Observations |-> o.claim],
                   backed |-> {}]
    /\ projection = accepted
    /\ queue = [t \in Tasks |-> "absent"]
    /\ head \in Snapshots
    /\ audit = [status |-> "initialized", snapshot |-> NoSnapshot]
    /\ announced = {}
    /\ pc = "idle"
    /\ run = Fresh
    /\ moves = 0
    /\ crashes = 0

Having(status) == {t \in Tasks : queue[t] = status}
Queued == Tasks \ Having("absent")
Active == Having("pending") \cup Having("running")

Enqueue(ts) == queue' = [t \in Tasks |->
    IF t \in ts /\ queue[t] = "absent" THEN "pending" ELSE queue[t]]

Transition(t, status) == queue' = [queue EXCEPT ![t] = status]

-----------------------------------------------------------------------------
(* What happens outside run-task.                                          *)

\* The owner of the audited repository commits, or checks a commit out.
MoveHead(s) ==
    /\ moves < MaxMoves
    /\ s # head
    /\ head' = s
    /\ moves' = moves + 1
    /\ UNCHANGED <<store, pc, run, crashes>>

\* rebuild-state, and what a command that is refused has done by then.
RebuildState ==
    /\ pc = "idle"
    /\ projection' = accepted
    /\ UNCHANGED <<accepted, queue, root, repository, pc, run, crashes>>

\* An announcement that takes its two fields for each other.
MisplacedAnnounce(status, snapshot) ==
    /\ <<status, snapshot>> \notin announced
    /\ audit' = [status |-> snapshot, snapshot |-> status]
    /\ announced' = announced \cup {<<status, snapshot>>}

(***************************************************************************)
(* The id and the idempotency key of an audit.updated event are made from  *)
(* the status and the snapshot it announces: the duplicate check refuses a *)
(* second announcement of the same pair, and the command fails.            *)
(***************************************************************************)
Announce(status, snapshot) ==
    /\ <<status, snapshot>> \notin announced
    /\ audit' = [status |-> status, snapshot |-> snapshot]
    /\ announced' = announced \cup {<<status, snapshot>>}

SnapshotTarget ==
    /\ pc = "idle"
    /\ head # audit.snapshot
    /\ Announce(audit.status, head)
    /\ projection' = accepted
    /\ UNCHANGED <<accepted, queue, repository, pc, run, crashes>>

\* The first report advances the audit; the report itself is not modelled.
CompileReport ==
    /\ Reporting
    /\ pc = "idle"
    /\ audit.status = "initialized"
    /\ Announce("in_progress", audit.snapshot)
    /\ projection' = accepted
    /\ UNCHANGED <<accepted, queue, repository, pc, run, crashes>>

EnqueueScan(f) ==
    /\ pc = "idle"
    /\ audit.snapshot # NoSnapshot
    /\ projection' = accepted
    /\ Enqueue({[type |-> "module_scan", target |-> f, snapshot |-> audit.snapshot]})
    /\ UNCHANGED <<accepted, root, repository, pc, run, crashes>>

(***************************************************************************)
(* The process dies, or an exception leaves command_run_task outside its   *)
(* try statement: what is on disk stays.                                   *)
(***************************************************************************)
Crash ==
    /\ pc # "idle"
    /\ crashes < MaxCrashes
    /\ crashes' = crashes + 1
    /\ pc' = "idle"
    /\ run' = Fresh
    /\ UNCHANGED <<store, repository>>

-----------------------------------------------------------------------------
(* run-task: recovery, then the follow-ups of what was accepted before.    *)

\* A command that trusts the projection it finds.
UnrecoveredBegin ==
    /\ pc = "idle"
    /\ pc' = "plan"
    /\ UNCHANGED <<store, repository, run, crashes>>

\* A command that leaves the planning to the end of the run before.
UnplannedBegin ==
    /\ pc = "idle"
    /\ projection' = accepted
    /\ pc' = "select"
    /\ UNCHANGED <<accepted, queue, root, repository, run, crashes>>

\* _run_command: _recover_workspace_runtime comes before every command.
Begin ==
    /\ pc = "idle"
    /\ projection' = accepted
    /\ pc' = "plan"
    /\ UNCHANGED <<accepted, queue, root, repository, run, crashes>>

\* A planner that composes before the verdict is in.
HastyWanted ==
    {Verify(o) : o \in {o \in Observations : projection.status[o] = "proposed"}}
    \cup {Compose(o) : o \in {o \in Observations \ projection.backed :
                                  projection.status[o] \in {"proposed", "verified"}}}

\* The planner derives work from the projection.
Wanted ==
    {Verify(o) : o \in {o \in Observations : projection.status[o] = "proposed"}}
    \cup {Compose(o) : o \in {o \in Observations \ projection.backed :
                                  projection.status[o] = "verified"}}

(***************************************************************************)
(* _follow_up_semantic_key: two follow-ups are near duplicates when their  *)
(* observations say the same now, whatever they said at first.             *)
(***************************************************************************)
SameWork(t, u) ==
    /\ t.type = u.type
    /\ t.snapshot = u.snapshot
    /\ projection.says[t.target] = projection.says[u.target]

\* The file the per-source budget of compose_issue counts under.
SourceOf(t) == Source[projection.says[t.target]]

WithinBudget(t) ==
    LET active == {u \in Active \ ScanTasks : u.type = t.type}
    IN  \/ /\ t.type = "verify_claim"
           /\ run.planned < VerifyMaxFollowUp
           /\ Cardinality(active) < VerifyMaxPerAudit
        \/ /\ t.type = "compose_issue"
           /\ Cardinality(active) < ComposeMaxPerAudit
           /\ Cardinality({u \in active : SourceOf(u) = SourceOf(t)}) < ComposeMaxPerSource

(***************************************************************************)
(* A task of any status, one that failed included, suppresses the same     *)
(* work for good.                                                          *)
(***************************************************************************)
Plannable(t) ==
    /\ t \in Wanted
    /\ \A u \in Queued \ ScanTasks : ~SameWork(t, u)
    /\ WithinBudget(t)

\* The queue is written once for every task enqueued.
Plan(t) ==
    /\ pc \in {"plan", "follow"}
    /\ Plannable(t)
    /\ Enqueue({t})
    /\ run' = [run EXCEPT !.enqueued = TRUE,
                          !.planned = IF t.type = "verify_claim" THEN @ + 1 ELSE @]
    /\ UNCHANGED <<accepted, projection, root, repository, pc, crashes>>

EndPlanning ==
    /\ pc \in {"plan", "follow"}
    /\ \A t \in FollowUpTasks : ~Plannable(t)
    /\ IF pc = "plan"
       THEN pc' = "select" /\ run' = Fresh
       ELSE pc' = "expand" /\ UNCHANGED run
    /\ UNCHANGED <<store, repository, crashes>>

-----------------------------------------------------------------------------
(* run-task: selection, and binding to the snapshot of the task.           *)

Priority(t) ==
    CASE t.type = "verify_claim"  -> 0
      [] t.type = "compose_issue" -> 1
      [] OTHER                    -> 3

Select(t) == run' = [run EXCEPT !.task = t, !.resumed = (queue[t] = "running")]

\* A task left running is resumed before any other is claimed.
Resume(t) ==
    /\ pc = "select"
    /\ t \in Having("running")
    /\ Select(t)
    /\ pc' = "bind"
    /\ UNCHANGED <<store, repository, crashes>>

\* A selection that does not look for a task left running.
ForgetfulClaim(t) ==
    /\ pc = "select"
    /\ t \in Having("pending")
    /\ \A u \in Having("pending") : Priority(t) <= Priority(u)
    /\ Select(t)
    /\ Transition(t, "running")
    /\ pc' = "bind"
    /\ UNCHANGED <<accepted, projection, root, repository, crashes>>

\* A claim that is not written to the queue before the work begins.
UnwrittenClaim(t) ==
    /\ pc = "select"
    /\ Having("running") = {}
    /\ t \in Having("pending")
    /\ \A u \in Having("pending") : Priority(t) <= Priority(u)
    /\ Select(t)
    /\ pc' = "bind"
    /\ UNCHANGED <<store, repository, crashes>>

Claim(t) ==
    /\ pc = "select"
    /\ Having("running") = {}
    /\ t \in Having("pending")
    /\ \A u \in Having("pending") : Priority(t) <= Priority(u)
    /\ Select(t)
    /\ Transition(t, "running")
    /\ pc' = "bind"
    /\ UNCHANGED <<accepted, projection, root, repository, crashes>>

NothingToRun ==
    /\ pc = "select"
    /\ Active = {}
    /\ pc' = "idle"
    /\ UNCHANGED <<store, repository, run, crashes>>

(***************************************************************************)
(* bind_task_snapshot, before the try statement: when HEAD is not the      *)
(* task's snapshot the command fails and the task stays running.           *)
(***************************************************************************)
Bind ==
    /\ pc = "bind"
    /\ IF head = run.task.snapshot
       THEN pc' = "process" /\ UNCHANGED run
       ELSE pc' = "idle" /\ run' = Fresh
    /\ UNCHANGED <<store, repository, crashes>>

-----------------------------------------------------------------------------
(* run-task: the candidate events of the backend, accepted one at a time.  *)

Processing(type) == pc = "process" /\ run.task.type = type

\* The event is appended to the ledger and counted.
Accept(state) ==
    /\ accepted' = state
    /\ run' = [run EXCEPT !.accepted = TRUE]
    /\ UNCHANGED <<projection, queue, root, repository, pc, crashes>>

Propose(o) ==
    /\ Processing("module_scan")
    /\ o.snapshot = run.task.snapshot
    /\ accepted.status[o] = "absent"
    /\ Accept([accepted EXCEPT !.status[o] = "proposed"])

\* The Verifier decides on the target of its task, in words of its own.
Decide(verdict, claim) ==
    /\ Processing("verify_claim")
    /\ accepted.status[run.task.target] = "proposed"
    /\ Accept([accepted EXCEPT !.status[run.task.target] = verdict,
                               !.says[run.task.target] = claim])

\* The IssueComposer may cite more than, or other than, its target.
ProposeIssue(cited) ==
    /\ Processing("compose_issue")
    /\ cited # {}
    /\ \A o \in cited : accepted.status[o] = "verified"
    /\ Accept([accepted EXCEPT !.backed = @ \cup cited])

\* An accepted question, hypothesis or contradiction.
AcceptOther ==
    /\ pc = "process"
    /\ run.task.type \in {"module_scan", "verify_claim"}
    /\ Accept(accepted)

(***************************************************************************)
(* An event with the content of one in the ledger, of this task or of      *)
(* another: the ids are digests of the content.                            *)
(***************************************************************************)
RefuseDuplicate ==
    /\ pc = "process"
    /\ run' = [run EXCEPT !.refused = IF @ = "none" THEN "duplicates" ELSE @]
    /\ \/ \E o \in Observations :
             /\ run.task.type = "module_scan"
             /\ o.snapshot = run.task.snapshot
             /\ accepted.status[o] # "absent"
       \/ /\ run.task.type = "verify_claim"
          /\ accepted.status[run.task.target] \in {"verified", "rejected"}
       \/ /\ run.task.type = "compose_issue"
          /\ accepted.backed # {}
    /\ UNCHANGED <<store, repository, pc, crashes>>

RefuseOther ==
    /\ pc = "process"
    /\ run' = [run EXCEPT !.refused = "others"]
    /\ UNCHANGED <<store, repository, pc, crashes>>

EndBatch ==
    /\ pc = "process"
    /\ pc' = IF run.accepted THEN "project" ELSE "settle"
    /\ UNCHANGED <<store, repository, run, crashes>>

Project ==
    /\ pc = "project"
    /\ projection' = accepted
    /\ pc' = "settle"
    /\ UNCHANGED <<accepted, queue, root, repository, run, crashes>>

-----------------------------------------------------------------------------
(* run-task: the outcome of the task and what comes after it.              *)

(***************************************************************************)
(* A run with nothing accepted counts only if it resumed a task and every  *)
(* event was a duplicate: then an earlier run of it is taken to have       *)
(* produced them.                                                          *)
(***************************************************************************)
Fruitful == run.accepted \/ (run.resumed /\ run.refused = "duplicates")

Succeed ==
    /\ pc = "settle"
    /\ Fruitful
    /\ Transition(run.task, "done")
    /\ run' = [run EXCEPT !.planned = 0, !.enqueued = FALSE]
    /\ pc' = IF run.task.type # "compose_issue" /\ run.accepted THEN "follow" ELSE "expand"
    /\ UNCHANGED <<accepted, projection, root, repository, crashes>>

\* A failed task that is put back into the queue.
RequeueingFail ==
    /\ pc \in {"process", "project", "settle"}
    /\ Transition(run.task, "pending")
    /\ pc' = "idle"
    /\ run' = Fresh
    /\ UNCHANGED <<accepted, projection, root, repository, crashes>>

(***************************************************************************)
(* Every exception inside the try statement fails the task: a slice that   *)
(* cannot be built, a backend that is unavailable or times out, a          *)
(* projection or a trace that cannot be written, a fruitless run.          *)
(***************************************************************************)
Fail ==
    /\ pc \in {"process", "project", "settle"}
    /\ Transition(run.task, "failed")
    /\ pc' = "idle"
    /\ run' = Fresh
    /\ UNCHANGED <<accepted, projection, root, repository, crashes>>

\* _expand_scan_coverage: files never scanned, at whatever snapshot.
Unscanned == {f \in Files : \A t \in Queued \cap ScanTasks : t.target # f}

Expand(fs) ==
    /\ pc = "expand"
    /\ fs \subseteq Unscanned
    /\ IF run.accepted /\ ~run.enqueued
       THEN \/ Cardinality(fs) = ExpansionBatch
            \/ fs = Unscanned /\ Cardinality(fs) < ExpansionBatch
       ELSE fs = {}
    /\ Enqueue([type: {"module_scan"}, target: fs, snapshot: {run.task.snapshot}])
    /\ run' = Fresh
    /\ pc' \in {"idle", "plan"}     \* run-all-tasks goes on without recovering
    /\ UNCHANGED <<accepted, projection, root, repository, crashes>>

RunTask ==
    \/ Begin
    \/ \E t \in FollowUpTasks : Plan(t)
    \/ EndPlanning
    \/ \E t \in Tasks : Resume(t) \/ Claim(t)
    \/ NothingToRun
    \/ Bind
    \/ \E o \in Observations : Propose(o)
    \/ \E verdict \in {"verified", "rejected"}, claim \in Claims : Decide(verdict, claim)
    \/ \E cited \in SUBSET Observations : ProposeIssue(cited)
    \/ AcceptOther
    \/ RefuseDuplicate
    \/ RefuseOther
    \/ EndBatch
    \/ Project
    \/ Succeed
    \/ Fail
    \/ \E fs \in SUBSET Files : Expand(fs)

Next ==
    \/ RunTask
    \/ \E s \in Snapshots : MoveHead(s)
    \/ RebuildState
    \/ SnapshotTarget
    \/ CompileReport
    \/ \E f \in Files : EnqueueScan(f)
    \/ Crash

(***************************************************************************)
(* The operator keeps running run-task, as run-all-tasks does, and a run   *)
(* goes on until it ends: the backend call has a timeout.  Nothing makes   *)
(* commits, scans or crashes happen.                                       *)
(***************************************************************************)
Spec == Init /\ [][Next]_vars /\ WF_vars(RunTask)
-----------------------------------------------------------------------------
(***************************************************************************)
(* At most one task is running, although a command may die with its task   *)
(* running and HEAD may move away from it: the selection resumes before it *)
(* claims, so no second claim ever hides an interrupted task.              *)
(***************************************************************************)
OneRunning == \A t, u \in Having("running") : t = u

(***************************************************************************)
(* Planning, and the slice a worker is given, read canonical_state.json    *)
(* from disk: it then shows everything accepted, although a run may die    *)
(* between an append and the projection, and run-all-tasks goes from one   *)
(* run to the next without recovering.                                     *)
(***************************************************************************)
PlansOnFreshState ==
    pc \in {"plan", "follow", "select", "bind"} => projection = accepted

(***************************************************************************)
(* The queue never runs ahead of the ledger: what is queued for            *)
(* verification was proposed, what is queued for composition is verified.  *)
(* The two are separate files, and nothing else relates them.              *)
(***************************************************************************)
QueueFollowsLedger ==
    \A o \in Observations :
        /\ Verify(o) \in Queued => accepted.status[o] # "absent"
        /\ Compose(o) \in Queued => accepted.status[o] = "verified"

(***************************************************************************)
(* The ledger never runs ahead of the queue: a verdict exists only once    *)
(* its task was claimed on disk, so after a crash nothing already decided  *)
(* is listed as not yet begun.                                             *)
(***************************************************************************)
VerdictsWereClaimed ==
    \A o \in Observations :
        accepted.status[o] \in {"verified", "rejected"} =>
            queue[Verify(o)] \in {"running", "failed", "done"}

(***************************************************************************)
(* Three files written one after the other, an interrupted command at any  *)
(* point between them and a planner that reads a copy still amount to one  *)
(* orderly life of every observation: it is queued in the status the work  *)
(* is about and cited by no issue, decided by a task the queue shows as    *)
(* running, cited when verified, and its tasks never go back.              *)
(***************************************************************************)
Verifications == [o \in Observations |-> queue[Verify(o)]]
Compositions == [o \in Observations |-> queue[Compose(o)]]

Lifecycle == INSTANCE ObservationLifecycle
    WITH status <- accepted.status, backed <- accepted.backed,
         verification <- Verifications, composition <- Compositions

ImplementsLifecycle == Lifecycle!Spec

(***************************************************************************)
(* Every task that is pending is done or failed in the end, whatever       *)
(* crashes come in between, unless a task is running for a snapshot that   *)
(* is not checked out any more.                                            *)
(***************************************************************************)
Wedged == \E t \in Having("running") : t.snapshot # head

TasksSettle ==
    \A t \in Tasks : queue[t] = "pending" ~> queue[t] \in {"done", "failed"} \/ Wedged

(***************************************************************************)
(* No proposed observation is forgotten: in the end a verify_claim task    *)
(* for it, or for one that says the same, is queued, wherever the run that *)
(* accepted it died.                                                       *)
(***************************************************************************)
ProposalsAreTakenUp ==
    \A o \in Observations :
        accepted.status[o] = "proposed" ~>
            \/ \E t \in Queued \ ScanTasks : SameWork(Verify(o), t)
            \/ Wedged

(***************************************************************************)
(* docs/ARCHITECTURE.md 451: a task that "requires a snapshot ... that     *)
(* cannot be resolved ... fails".  A run-task that was not interrupted     *)
(* leaves no task running.                                                 *)
(***************************************************************************)
UninterruptedRunsSettle == pc = "idle" /\ crashes = 0 => Having("running") = {}

(***************************************************************************)
(* docs/GETTING_STARTED.md 382: when the target repository has changed,    *)
(* "Re-run `snapshot-target` to capture a fresh snapshot".  What is        *)
(* checked out can always be captured, also a commit gone back to.         *)
(***************************************************************************)
HeadCanBeCaptured ==
    pc = "idle" /\ head # audit.snapshot => <<audit.status, head>> \notin announced
=============================================================================
