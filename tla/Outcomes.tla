------------------------------ MODULE Outcomes ------------------------------
(***************************************************************************)
(* How the runtime accounts for a task that yields little or nothing:      *)
(* the classes of rejections (runtime/rejection.py and the table of        *)
(* runtime/processing.py), of outcomes (runtime/outcome.py), and the       *)
(* diagnostics of the acceptance funnel (runtime/diagnostics.py).          *)
(*                                                                         *)
(* The words of an error message are the groups of keywords it holds.      *)
(***************************************************************************)
EXTENDS Naturals, Sequences, FiniteSets, SequencesExt

CONSTANT NoReason    \* nothing was rejected

-----------------------------------------------------------------------------
(* Rejections.                                                             *)

Reasons == {"parse_non_json", "schema_invalid", "candidate_missing", "candidate_empty",
            "policy_rejected", "transport_rejected"}

\* REJECTION_REASON_TO_STAGE; a RejectionDetail with another stage raises.
StageOf(reason) ==
    CASE reason = "parse_non_json"     -> "parse"
      [] reason = "schema_invalid"     -> "schema"
      [] reason \in {"candidate_missing", "candidate_empty"} -> "candidate"
      [] reason = "policy_rejected"    -> "policy"
      [] reason = "transport_rejected" -> "transport"

PolicyCodes ==
    {"duplicate_submission", "event_id_conflict", "idempotency_conflict",
     "invalid_transition", "missing_worker_role", "worker_event_forbidden",
     "referenced_entity_missing", "referenced_entity_wrong_state",
     "referenced_entity_field_forbidden", "field_dependency_failed",
     "forbidden_entity_promotion", "promotion_missing_observation_id",
     "promotion_candidate_not_found", "promotion_observation_not_found",
     "promotion_observation_link_mismatch"}

TransportCodes ==
    {"inferred_line_range", "invalid_column_range", "append_failed", "append_not_persisted",
     "OBS_fake_binding", "state_projection_failed"}

(***************************************************************************)
(* _trace_rejection: the reason of the first issue's code.  A code that is *)
(* not in the table counts as schema_invalid: contradiction_reference_     *)
(* missing, snapshot_ref_mismatch and missing_event_snapshot_ref do, and   *)
(* the codes of the semantic validator, which the table spells otherwise.  *)
(***************************************************************************)
ReasonOf(code) ==
    IF code \in PolicyCodes THEN "policy_rejected"
    ELSE IF code \in TransportCodes THEN "transport_rejected" ELSE "schema_invalid"

TraceRejection(codes) == IF codes = <<>> THEN NoReason ELSE ReasonOf(Head(codes))

\* enforce_rejection_invariant raises if nothing was accepted and no reason is known.
HasReasonChain(chain) == chain.rejections # <<>> \/ chain.parse_failure
IsExplainedBy(accepted, chain) == accepted \/ HasReasonChain(chain)

\* write_failure_bundle: only for a run with a rejection, and then all of it.
FailureBundle(outcomes) ==
    [rejected |-> {o \in outcomes : o.outcome = "rejected"},
     accepted |-> Cardinality({o \in outcomes : o.outcome = "accepted"}),
     total    |-> Cardinality(outcomes)]

WritesBundle(outcomes) == FailureBundle(outcomes).rejected # {}

-----------------------------------------------------------------------------
(* Outcomes of tasks.                                                      *)

\* The order in which classify_provider_error tries the groups of keywords.
KeywordGroups == <<"rate", "service", "auth", "context", "timeout">>

ErrorOfGroup(group) ==
    CASE group = "rate"    -> "rate_limited"
      [] group = "service" -> "service_unavailable"
      [] group = "auth"    -> "authentication_error"
      [] group = "context" -> "context_overflow"
      [] group = "timeout" -> "timeout"

\* A status code decides before the message does; what nothing matches is unknown.
ProviderError(status, words) ==
    LET named == SelectSeq(KeywordGroups, LAMBDA g : g \in words)
    IN  IF status = 429 THEN "rate_limited"
        ELSE IF status \in {502, 503, 504} THEN "service_unavailable"
        ELSE IF status \in {401, 403} THEN "authentication_error"
        ELSE IF named # <<>> THEN ErrorOfGroup(Head(named)) ELSE "unknown"

IsRetryable(error) == error \in {"rate_limited", "service_unavailable", "timeout"}

StopsClaiming(error) == error \in {"rate_limited", "authentication_error"}

(***************************************************************************)
(* classify_task_outcome.  Every error counts as one of the provider, the  *)
(* unknown ones too, so runtime_failed, policy_rejected and                *)
(* rejected_contract are never the outcome of a task.                      *)
(***************************************************************************)
TaskOutcome(accepted, failed, status, words) ==
    LET error == ProviderError(status, words)
    IN  IF ~failed
        THEN [class |-> IF accepted > 0 THEN "completed_with_events"
                        ELSE "completed_no_events",
              retryable |-> FALSE, counts |-> TRUE]
        ELSE [class |-> IF error = "rate_limited" THEN "provider_throttled"
                        ELSE "provider_failed",
              retryable |-> IsRetryable(error), counts |-> FALSE]

-----------------------------------------------------------------------------
(* Diagnostics: the builder's steps, in the order a run takes them.        *)

NewDiagnostics ==
    [output |-> FALSE, parsed |-> FALSE, schema |-> FALSE, count |-> 0,
     missing |-> FALSE, empty |-> FALSE, policy_rejected |-> 0,
     accepted |-> 0, rejected |-> 0, stage |-> "none", reasons |-> <<>>,
     termination |-> "success", funnel |-> <<>>, provider |-> FALSE]

StageResult(stage, in, out, reasons) ==
    [stage |-> stage, passed |-> out > 0, in |-> in, out |-> out, reasons |-> reasons]

AsCount(b) == IF b THEN 1 ELSE 0

\* A stage that ended the run for one reason, or did not.
Ended(d, result, reason, termination) ==
    IF reason = NoReason THEN [d EXCEPT !.funnel = Append(@, result)]
    ELSE [d EXCEPT !.funnel = Append(@, [result EXCEPT !.reasons = <<reason>>]),
                   !.reasons = Append(@, reason), !.stage = StageOf(reason),
                   !.termination = termination]

WithRawOutput(d, present) == [d EXCEPT !.output = present]

WithParse(d, ok) ==
    Ended([d EXCEPT !.parsed = ok],
          StageResult("parse", AsCount(d.output), AsCount(ok), <<>>),
          IF ok THEN NoReason ELSE "parse_non_json", "parse_failure")

WithSchema(d, ok) ==
    Ended([d EXCEPT !.schema = ok],
          StageResult("schema", AsCount(d.parsed), AsCount(ok), <<>>),
          IF ok THEN NoReason ELSE "schema_invalid", "schema_failure")

\* An extraction that takes an empty list for a missing result only.
SilentWithExtraction(d, count, missing, empty) ==
    Ended([d EXCEPT !.count = count, !.missing = missing, !.empty = empty],
          StageResult("extract", AsCount(d.schema), count, <<>>),
          IF missing THEN "candidate_missing" ELSE NoReason, "extraction_failure")

WithExtraction(d, count, missing, empty) ==
    Ended([d EXCEPT !.count = count, !.missing = missing, !.empty = empty],
          StageResult("extract", AsCount(d.schema), count, <<>>),
          IF missing THEN "candidate_missing"
          ELSE IF empty THEN "candidate_empty" ELSE NoReason,
          IF missing THEN "extraction_failure" ELSE "no_candidates")

\* The two stages that judge events: a stage noted before them stays the stage.
Judged(d, stage, rejection, accepted, reasons, termination) ==
    [d EXCEPT !.funnel = Append(@, StageResult(stage, d.count, accepted, reasons)),
              !.reasons = @ \o reasons,
              !.stage = IF @ = "none" /\ reasons # <<>> THEN rejection ELSE @,
              !.termination = termination]

WithPolicy(d, accepted, rejected, reasons) ==
    Judged([d EXCEPT !.policy_rejected = rejected], "policy", "policy", accepted, reasons,
           IF accepted = 0 /\ rejected > 0 THEN "policy_rejection" ELSE d.termination)

WithTransport(d, accepted, rejected, reasons) ==
    Judged([d EXCEPT !.accepted = accepted, !.rejected = rejected],
           "outcome", "transport", accepted, reasons,
           IF accepted = 0 /\ rejected > 0 /\ Contains(reasons, "transport_rejected")
           THEN "transport_failure" ELSE d.termination)

\* with_rejection_chain
WithChain(d, rejections) ==
    [d EXCEPT !.reasons = @ \o rejections,
              !.stage = IF @ = "none" /\ rejections # <<>> THEN StageOf(Head(rejections))
                        ELSE @]

ExplanationAvailable(d) == d.accepted > 0 \/ d.reasons # <<>>

Explanations ==
    <<"accepted", "provider_issue", "no_output", "not_json", "missing", "empty",
      "schema", "policy", "rejected", "unknown">>

\* get_explanation: the first of these that applies.
Explanation(d) ==
    LET applies == << d.accepted > 0, d.provider, ~d.output, ~d.parsed, d.missing, d.empty,
                      ~d.schema, d.policy_rejected > 0, d.reasons # <<>>, TRUE >>
    IN  Explanations[Min({i \in DOMAIN applies : applies[i]})]

\* RejectionAggregation, and add_diagnostics of one task.
NewAggregation == [total |-> 0, with_rejections |-> 0, no_events |-> 0,
                   by_reason |-> [r \in Reasons |-> 0]]

AddDiagnostics(sums, d) ==
    [total |-> sums.total + 1,
     with_rejections |-> sums.with_rejections + AsCount(d.rejected > 0 \/ d.reasons # <<>>),
     no_events |-> sums.no_events + AsCount(d.accepted = 0),
     by_reason |-> [r \in Reasons |->
         sums.by_reason[r] + Cardinality({i \in DOMAIN d.reasons : d.reasons[i] = r})]]

Aggregated(all) == FoldLeft(AddDiagnostics, NewAggregation, all)
=============================================================================
