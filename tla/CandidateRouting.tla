-------------------------- MODULE CandidateRouting --------------------------
(***************************************************************************)
(* CandidateRouter of runtime/tasks.py: turns accepted candidates into     *)
(* verification tasks under the limits of the audit policy.                *)
(*                                                                         *)
(* A queue is a function from tasks to their status.  The id of a task is  *)
(* a digest of its type and target, so a task is its type and target here. *)
(* Candidates come in the order of their ids.  Files are names that        *)
(* _normalize_target_value has made canonical; a candidate of another      *)
(* audit is skipped before anything is counted and is left out.            *)
(***************************************************************************)
EXTENDS Naturals, Sequences, FiniteSets, SequencesExt

CONSTANTS NoFile,       \* no evidence reference names a file
          NoSnapshot    \* no snapshot is named

CandidateTypes ==
    {"risk_candidate", "policy_candidate", "cross_file_correlation", "verification_target"}

\* CandidateRoutingPolicy, and the low_noise profile's values of its switches.
Policy(candidates, verifies, scans, perCandidate, suppress, disabled) ==
    [max_candidates |-> candidates, max_verify |-> verifies, max_scans |-> scans,
     max_per_candidate |-> perCandidate, defer_low_confidence |-> TRUE,
     suppress |-> suppress, disabled |-> disabled]

Task(type, kind, value, snapshot) ==
    [type |-> type, kind |-> kind, value |-> value, snapshot |-> snapshot]

Result(outcome, candidate) == [outcome |-> outcome, candidate |-> candidate.id]

PendingVerifications(queue) ==
    {t \in DOMAIN queue : t.type = "verify_claim" /\ queue[t] = "pending"}

\* _get_candidate_snapshot_ref
SnapshotOf(candidate, auditSnapshot) ==
    IF candidate.snapshot # NoSnapshot THEN candidate.snapshot ELSE auditSnapshot

-----------------------------------------------------------------------------
(* One candidate, given what the run has done so far: the candidates it    *)
(* counted, the verifications that are pending, the files it has seen, the *)
(* outcomes and tasks it returns, and where it is within a candidate.      *)

Starting(policy, auditSnapshot, queue) ==
    [policy |-> policy, snapshot |-> auditSnapshot, counted |-> 0,
     verifies |-> Cardinality(PendingVerifications(queue)), seen |-> {},
     results |-> {}, routed |-> <<>>, raised |-> FALSE,
     routedHere |-> 0, deferredHere |-> {}, broke |-> FALSE]

(***************************************************************************)
(* The guardrails in the order they are tried, each with the outcome it    *)
(* reports.  The run limit counts the verifications that were pending when *)
(* the run began.                                                          *)
(***************************************************************************)
Guardrails(done, candidate) == <<
    <<"deferred_audit_limit", done.counted >= done.policy.max_candidates>>,
    <<"already_processed", candidate.status # "proposed">>,
    <<"invalid_type", \/ candidate.type \notin CandidateTypes
                      \/ candidate.confidence \notin {"high", "medium", "low"}>>,
    <<"deferred_low_confidence",
      candidate.confidence = "low" /\ done.policy.defer_low_confidence>>,
    <<"suppressed_type_disabled", candidate.type \in done.policy.disabled>>,
    <<"no_evidence_refs", /\ candidate.file = NoFile
                          /\ candidate.type \in {"risk_candidate", "policy_candidate"}>>,
    <<"deferred_run_limit", done.verifies >= done.policy.max_verify>>,
    <<"no_snapshot_ref", SnapshotOf(candidate, done.snapshot) = NoSnapshot>> >>

Refusal(done, candidate) ==
    LET guards == Guardrails(done, candidate)
        stopping == {i \in DOMAIN guards : guards[i][2]}
    IN  IF stopping = {} THEN "none"
        ELSE guards[CHOOSE i \in stopping : \A j \in stopping : i <= j][1]

(***************************************************************************)
(* _route_by_candidate_type: the files a candidate would have looked at,   *)
(* less those this run has seen if near-duplicates are suppressed.  A      *)
(* hypothesis or a candidate as the target of a verification yields none.  *)
(***************************************************************************)
FilesOf(policy, candidate) ==
    CASE candidate.type \in {"risk_candidate", "policy_candidate"} -> <<candidate.file>>
      [] candidate.type = "cross_file_correlation" ->
             SubSeq(candidate.files, 1,
                    IF policy.max_scans < Len(candidate.files)
                    THEN policy.max_scans ELSE Len(candidate.files))
      [] OTHER -> <<>>

AddFile(found, f) ==
    IF f \in found.seen THEN found
    ELSE [seen |-> found.seen \cup {f}, files |-> Append(found.files, f)]

NewFiles(done, candidate) ==
    IF done.policy.suppress
    THEN FoldLeft(AddFile, [seen |-> done.seen, files |-> <<>>],
                  FilesOf(done.policy, candidate)).files
    ELSE FilesOf(done.policy, candidate)

TasksFor(done, candidate) ==
    LET snapshot == SnapshotOf(candidate, done.snapshot)
        type == IF candidate.type = "cross_file_correlation"
                THEN "module_scan" ELSE "verify_claim"
        files == NewFiles(done, candidate)
    IN  IF candidate.type # "verification_target"
        THEN [i \in DOMAIN files |-> Task(type, "path", files[i], snapshot)]
        ELSE IF candidate.target = "observation"
        THEN <<Task("verify_claim", "observation", candidate.target_id, snapshot)>>
        ELSE <<>>

(***************************************************************************)
(* The tasks of one candidate against its own budget and the run limit.    *)
(* The first task beyond the budget is reported and ends the loop.         *)
(***************************************************************************)
RouteTask(done, task) ==
    IF done.broke THEN done
    ELSE IF done.routedHere >= done.policy.max_per_candidate
    THEN [done EXCEPT !.broke = TRUE, !.deferredHere = @ \cup {"deferred_budget"}]
    ELSE IF task.type = "verify_claim" /\ done.verifies >= done.policy.max_verify
    THEN [done EXCEPT !.deferredHere = @ \cup {"deferred_run_limit"}]
    ELSE [done EXCEPT !.routed = Append(@, task), !.routedHere = @ + 1,
                      !.verifies = IF task.type = "verify_claim" THEN @ + 1 ELSE @]

RouteTasks(done, candidate) ==
    LET started == [done EXCEPT !.routedHere = 0, !.deferredHere = {}, !.broke = FALSE,
                                !.seen = @ \cup ToSet(FilesOf(done.policy, candidate))]
        routed == FoldLeft(RouteTask, started, TasksFor(done, candidate))
    IN  [routed EXCEPT !.results = @ \cup {Result(o, candidate) : o \in routed.deferredHere}]

(***************************************************************************)
(* A refusal is reported with a placeholder task, whose target needs a     *)
(* snapshot: without one for the audit, TaskTarget raises and nothing of   *)
(* the run is enqueued.  So the outcome no_snapshot_ref is never returned. *)
(***************************************************************************)
RouteCandidate(done, candidate) ==
    LET refusal == Refusal(done, candidate)
        counted == [done EXCEPT !.counted = @ + 1]
    IN  IF done.raised THEN done
        ELSE IF refusal = "none" THEN RouteTasks(counted, candidate)
        ELSE IF done.snapshot = NoSnapshot THEN [counted EXCEPT !.raised = TRUE]
        ELSE [counted EXCEPT !.results = @ \cup {Result(refusal, candidate)}]

-----------------------------------------------------------------------------
(* route_candidates_to_verification: one run over all candidates.          *)

\* A run that does not look at what earlier runs have queued.
ForgetfulRouted(policy, auditSnapshot, queue, candidates) ==
    FoldLeft(RouteCandidate,
             [Starting(policy, auditSnapshot, queue) EXCEPT !.verifies = 0], candidates)

\* A run that ends at the first candidate that was refused.
HastyRouted(policy, auditSnapshot, queue, candidates) ==
    FoldLeft(LAMBDA d, c : IF d.results # {} THEN d ELSE RouteCandidate(d, c),
             Starting(policy, auditSnapshot, queue), candidates)

Routed(policy, auditSnapshot, queue, candidates) ==
    FoldLeft(RouteCandidate, Starting(policy, auditSnapshot, queue), candidates)

\* enqueue_many that takes finished work up again.
RepeatingQueueAfter(queue, done) ==
    [t \in DOMAIN queue \cup ToSet(done.routed) |->
        IF t \in ToSet(done.routed) THEN "pending" ELSE queue[t]]

QueueAfter(queue, done) ==
    IF done.raised THEN queue
    ELSE [t \in DOMAIN queue \cup ToSet(done.routed) |->
             IF t \in DOMAIN queue THEN queue[t] ELSE "pending"]
=============================================================================
