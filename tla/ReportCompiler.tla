--------------------------- MODULE ReportCompiler ---------------------------
(***************************************************************************)
(* runtime/report_compiler.py: the report as a function of the canonical   *)
(* state.                                                                  *)
(*                                                                         *)
(* The state holds functions from ids to records: observations (status,    *)
(* class), issues (status, finding_id, observations, questions,            *)
(* contradictions), questions (status), contradictions, decisions and      *)
(* candidates (status, type), and the status of the audit.  All of them    *)
(* are of this audit: what belongs to another one is skipped.  Lists are   *)
(* sorted by id in the code, so they are sets here.                        *)
(***************************************************************************)
EXTENDS Evidence

CONSTANT CompileError    \* a ReportCompileError

AllowedAuditStatuses ==
    {"initialized", "in_progress", "reported", "completed", "cancelled", "failed",
     "accepted", "scanning", "analyzed"}

CandidateOutcomes == {"proposed", "routed_to_verify", "rejected", "resolved_promoted"}

-----------------------------------------------------------------------------
(* Collection.                                                             *)

VerifiedIn(state) == {o \in DOMAIN state.observations :
                          state.observations[o].status = "verified"}

\* _build_verified_observation_entry wants a class, whatever it is.
Classed(state) == \A o \in VerifiedIn(state) : state.observations[o].class # NoText

OpenQuestions(state) == {q \in DOMAIN state.questions : state.questions[q].status = "open"}

IsAllowed(state, o) == state.observations[o].class \in AllowedFindingClasses

\* What _collect_findings asks of an issue that was not rejected.
IsSupported(state, issue) ==
    /\ issue.observations # {}
    /\ issue.observations \subseteq VerifiedIn(state)
    /\ \A o \in issue.observations : IsAllowed(state, o)
    /\ issue.questions \subseteq DOMAIN state.questions
    /\ issue.contradictions \subseteq state.contradictions

ReportedIssues(state) ==
    {i \in DOMAIN state.issues : state.issues[i].status # "rejected"}

\* An issue may name the finding it is; otherwise the finding is named after it.
IssueFinding(state, i) ==
    LET issue == state.issues[i]
    IN  [finding_id |-> IF issue.finding_id = NoText THEN <<"issue", i>> ELSE issue.finding_id,
         source |-> <<"issue", i>>, status |-> issue.status,
         observations |-> issue.observations,
         classes |-> Present([o \in issue.observations |-> state.observations[o]]),
         open_questions |-> issue.questions \cap OpenQuestions(state),
         contradictions |-> issue.contradictions]

IssueFindings(state) == {IssueFinding(state, i) : i \in ReportedIssues(state)}

-----------------------------------------------------------------------------
(* _merge_with_observation_mapped_findings: a verified observation no      *)
(* issue rests on becomes a finding of its own, or is suppressed and the   *)
(* report says why.                                                        *)

DerivedId(o) == <<"finding_obs", o>>

Uncovered(state) ==
    VerifiedIn(state) \ UNION {f.observations : f \in IssueFindings(state)}

Taken(state) == {f.finding_id : f \in IssueFindings(state)}

Suppression(state, o) ==
    IF ~IsAllowed(state, o) THEN "policy_suppressed"
    ELSE IF DerivedId(o) \in Taken(state) THEN "duplicate_of" ELSE "none"

SuppressionRecords(state) ==
    {[observation |-> o, reason |-> Suppression(state, o)] :
        o \in {o \in Uncovered(state) : Suppression(state, o) # "none"}}

\* Findings for the observations of the state, whether an issue rests on them or not.
DoubleDerivedFindings(state) ==
    {[finding_id |-> DerivedId(o), source |-> <<"derived", o>>, status |-> "open",
      observations |-> {o}, classes |-> {state.observations[o].class},
      open_questions |-> {}, contradictions |-> {}] :
        o \in {o \in VerifiedIn(state) : Suppression(state, o) = "none"}}

DerivedFindings(state) ==
    {[finding_id |-> DerivedId(o), source |-> <<"derived", o>>, status |-> "open",
      observations |-> {o}, classes |-> {state.observations[o].class},
      open_questions |-> {}, contradictions |-> {}] :
        o \in {o \in Uncovered(state) : Suppression(state, o) = "none"}}

-----------------------------------------------------------------------------
(* build_report.                                                           *)

IsPopulated(state) ==
    \/ IssueFindings(state) # {} \/ VerifiedIn(state) # {} \/ OpenQuestions(state) # {}
    \/ state.contradictions # {} \/ state.decisions # {}

\* _validate_report_audit_status: nothing is reported of an audit not yet begun.
StatusFits(state) ==
    /\ state.audit \in AllowedAuditStatuses
    /\ IsPopulated(state) => state.audit # "initialized"

Counts(report) ==
    [finding_count |-> Cardinality(report.findings),
     verified_observation_count |-> Cardinality(report.verified),
     open_question_count |-> Cardinality(report.open_questions),
     contradiction_count |-> Cardinality(report.contradictions),
     decision_count |-> Cardinality(report.decisions)]

\* The candidate appendix, beside the findings and without a say in them.
Appendix(state) ==
    [type \in {state.candidates[c].type : c \in DOMAIN state.candidates},
     outcome \in CandidateOutcomes |->
        Cardinality({c \in DOMAIN state.candidates :
            state.candidates[c].type = type /\ state.candidates[c].status = outcome})]

\* _validate_compiled_report_consistency
IsConsistent(state, report) ==
    /\ report.summary = Counts(report)
    /\ report.findings = {} =>
           \A o \in report.verified : IsAllowed(state, o) =>
               \E r \in report.suppressed : r.observation = o

Compiled(state, appendix) ==
    LET body == [findings |-> IssueFindings(state) \cup DerivedFindings(state),
                 suppressed |-> SuppressionRecords(state),
                 verified |-> VerifiedIn(state), open_questions |-> OpenQuestions(state),
                 contradictions |-> state.contradictions, decisions |-> state.decisions,
                 appendix |-> IF appendix THEN Appendix(state) ELSE <<>>]
        report == [f \in DOMAIN body \cup {"summary"} |->
                      IF f = "summary" THEN Counts(body) ELSE body[f]]
    IN  IF /\ Classed(state)
           /\ \A i \in ReportedIssues(state) : IsSupported(state, state.issues[i])
           /\ StatusFits(state)
           /\ IsConsistent(state, report)
        THEN report ELSE CompileError
=============================================================================
