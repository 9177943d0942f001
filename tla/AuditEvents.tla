---------------------------- MODULE AuditEvents ----------------------------
(***************************************************************************)
(* The acceptance of candidate events (runtime/processing.py), the gate    *)
(* between what a language model proposes and what the audit believes.     *)
(*                                                                         *)
(* A candidate event names an entity, an event type and the entity's whole *)
(* new payload.  The validator suite projects the accepted ledger, looks   *)
(* the status change up in rules/transition_rules.yaml, checks the rules   *)
(* that relate several entities, and either appends the event, after which *)
(* the projection holds the new payload, or rejects it and changes         *)
(* nothing.  The variables are the collections of                          *)
(* StateProjector.build_state, recomputed from the ledger for every event; *)
(* a rejected event is a stuttering step.  The workspace lock is held for  *)
(* a whole batch, so events are accepted one at a time and each one sees   *)
(* those before it.                                                        *)
(***************************************************************************)

CONSTANTS
    Observations, Issues, Contradictions, Candidates,
    Questions, Hypotheses, Decisions, Tasks,   \* the identities of entities
    Audit,                  \* the identity of the audit root
    Snapshots,              \* snapshot references of the target repository
    EvidenceClasses,        \* the schema's evidenceClass
    AllowedEvidenceClasses, \* those a finding may rest on
    Actors,                 \* who submits events: worker roles and "system"
    NoRef                   \* a null or absent reference

Plain == Questions \cup Hypotheses \cup Decisions \cup Tasks

Entities == {Audit} \cup Observations \cup Issues \cup Contradictions
                    \cup Candidates \cup Plain

Roles == {"Reader", "Verifier", "CandidateGenerator", "IssueComposer"}

ASSUME ConstantsAssumption ==
    /\ AllowedEvidenceClasses \subseteq EvidenceClasses
    /\ NoRef \notin Entities \cup Snapshots
    /\ "system" \in Actors
    /\ Actors \subseteq Roles \cup {"system"}

\* The schema's id prefixes keep the kinds of entities apart.
ASSUME KindsAssumption ==
    /\ Observations \cap (Hypotheses \cup Questions \cup Contradictions) = {}
    /\ Hypotheses \cap Questions = {}
    /\ Contradictions \cap Questions = {}

VARIABLES
    audit,           \* the audit root: status and current_snapshot_ref
    observations,    \* the collections of the projected state; an entity
    issues,          \*   no accepted event has created has status "absent"
    contradictions,
    candidates,
    plain,           \* questions, hypotheses, decisions and tasks: status only
    ledger           \* the accepted events: type, what it is about, actor

vars == <<audit, observations, issues, contradictions, candidates, plain, ledger>>

-----------------------------------------------------------------------------
(* rules/transition_rules.yaml: the allowed (from, to, event type) triples. *)

AuditTransitions ==
    { <<"absent",      "initialized", "audit.created">>,
      <<"initialized", "initialized", "audit.updated">>,
      <<"initialized", "in_progress", "audit.updated">>,
      <<"in_progress", "in_progress", "audit.updated">>,
      <<"in_progress", "completed",   "audit.completed">>,
      <<"initialized", "cancelled",   "audit.cancelled">>,
      <<"in_progress", "cancelled",   "audit.cancelled">> }

\* A rule file that lets a later verdict overturn a verified observation.
ReopenedObservationTransitions ==
    { <<"absent",   "proposed", "observation.proposed">>,
      <<"proposed", "verified", "observation.verified">>,
      <<"proposed", "rejected", "observation.rejected">>,
      <<"verified", "rejected", "observation.rejected">> }

ObservationTransitions ==
    { <<"absent",   "proposed", "observation.proposed">>,
      <<"proposed", "verified", "observation.verified">>,
      <<"proposed", "rejected", "observation.rejected">> }

IssueTransitions ==
    { <<"absent",   "proposed", "issue.proposed">>,
      <<"proposed", "accepted", "issue.accepted">>,
      <<"proposed", "rejected", "issue.rejected">>,
      <<"accepted", "closed",   "issue.closed">> }

ContradictionTransitions ==
    { <<"absent", "open",     "contradiction.registered">>,
      <<"open",   "resolved", "contradiction.resolved">> }

\* A rule file that lets a resolved candidate be rejected afterwards.
RevocableCandidateTransitions ==
    { <<"absent",           "proposed",          "candidate.proposed">>,
      <<"proposed",         "routed_to_verify",  "candidate.routed_to_verify">>,
      <<"proposed",         "rejected",          "candidate.rejected">>,
      <<"routed_to_verify", "rejected",          "candidate.rejected">>,
      <<"resolved_promoted", "rejected",         "candidate.rejected">>,
      <<"routed_to_verify", "resolved_promoted", "candidate.promoted_to_observation">> }

CandidateTransitions ==
    { <<"absent",           "proposed",          "candidate.proposed">>,
      <<"proposed",         "routed_to_verify",  "candidate.routed_to_verify">>,
      <<"proposed",         "rejected",          "candidate.rejected">>,
      <<"routed_to_verify", "rejected",          "candidate.rejected">>,
      <<"routed_to_verify", "resolved_promoted", "candidate.promoted_to_observation">> }

QuestionTransitions ==
    { <<"absent",   "open",     "question.opened">>,
      <<"open",     "answered", "question.answered">>,
      <<"open",     "closed",   "question.closed">>,
      <<"answered", "closed",   "question.closed">> }

HypothesisTransitions ==
    { <<"absent",          "proposed",        "hypothesis.proposed">>,
      <<"proposed",        "in_verification", "hypothesis.sent_to_verification">>,
      <<"in_verification", "supported",       "hypothesis.supported">>,
      <<"proposed",        "rejected",        "hypothesis.rejected">>,
      <<"in_verification", "rejected",        "hypothesis.rejected">> }

DecisionTransitions == { <<"absent", "recorded", "decision.recorded">> }

TaskTransitions ==
    { <<"absent",  "pending", "task.created">>,
      <<"pending", "running", "task.started">>,
      <<"pending", "failed",  "task.failed">>,
      <<"running", "done",    "task.completed">>,
      <<"running", "failed",  "task.failed">>,
      <<"failed",  "pending", "task.retried">> }

PlainTransitions(x) ==
    CASE x \in Questions  -> QuestionTransitions
      [] x \in Hypotheses -> HypothesisTransitions
      [] x \in Decisions  -> DecisionTransitions
      [] OTHER            -> TaskTransitions

StatusesOf(transitions) == {"absent"} \cup {t[2] : t \in transitions}
TypesOf(transitions) == {t[3] : t \in transitions}

\* The types of the transitions an entity in one status may take.
TypesFrom(transitions, from) == {t[3] : t \in {t \in transitions : t[1] = from}}

(***************************************************************************)
(* schema/event.schema.json: the event types of its enum.  The rules name  *)
(* two more, hypothesis.sent_to_verification and hypothesis.supported,     *)
(* which therefore never reach the transition matrix, and the enum names   *)
(* hypothesis.closed, which no transition allows.                          *)
(***************************************************************************)
SchemaEventTypes ==
    ( TypesOf(AuditTransitions) \cup TypesOf(ObservationTransitions)
      \cup TypesOf(IssueTransitions) \cup TypesOf(ContradictionTransitions)
      \cup TypesOf(CandidateTransitions) \cup TypesOf(QuestionTransitions)
      \cup TypesOf(DecisionTransitions) \cup TypesOf(TaskTransitions)
      \cup {"hypothesis.proposed", "hypothesis.closed", "hypothesis.rejected"} )

\* A rule file in which the Verifier may also propose what it verifies.
SelfCheckingRolePermissions ==
    [ Reader             |-> {"observation.proposed", "hypothesis.proposed",
                              "question.opened"},
      Verifier           |-> {"observation.proposed", "observation.verified",
                              "observation.rejected", "contradiction.registered",
                              "question.opened"},
      CandidateGenerator |-> {"candidate.proposed"},
      IssueComposer      |-> {"issue.proposed"} ]

RolePermissions ==
    [ Reader             |-> {"observation.proposed", "hypothesis.proposed",
                              "question.opened"},
      Verifier           |-> {"observation.verified", "observation.rejected",
                              "contradiction.registered", "question.opened"},
      CandidateGenerator |-> {"candidate.proposed"},
      IssueComposer      |-> {"issue.proposed"} ]

\* Users and the system itself are not restricted to a set of event types.
MayEmit(actor, type) == actor \in Roles => type \in RolePermissions[actor]

-----------------------------------------------------------------------------
(* The payloads a candidate event may carry, with the fields guards read.  *)

AuditState == [ status: StatusesOf(AuditTransitions),
                current_snapshot_ref: Snapshots \cup {NoRef} ]

Observation == [ status: StatusesOf(ObservationTransitions),
                 evidence_class: EvidenceClasses \cup {NoRef},
                 candidate_ref: Candidates \cup {NoRef} ]

Issue == [ status: StatusesOf(IssueTransitions),
           observation_ids: SUBSET Observations,
           question_ids: SUBSET Questions,
           contradiction_ids: SUBSET Contradictions ]

Contradiction == [ status: StatusesOf(ContradictionTransitions),
                   conflicting_entity_refs: SUBSET Entities ]

Candidate == [ status: StatusesOf(CandidateTransitions),
               promoted_observation_id: Observations \cup {NoRef} ]

PlainStatuses ==
    StatusesOf(QuestionTransitions) \cup StatusesOf(HypothesisTransitions)
    \cup StatusesOf(DecisionTransitions) \cup StatusesOf(TaskTransitions)

\* An audit.updated event is about the status and snapshot it announces.
AcceptedEvent ==
    [ type: SchemaEventTypes,
      about: Entities \cup (StatusesOf(AuditTransitions) \X (Snapshots \cup {NoRef})),
      actor: Actors ]

\* The entities the accepted ledger projects to something.
Existing ==
    {a \in {Audit} : audit.status # "absent"}
    \cup {o \in Observations : observations[o].status # "absent"}
    \cup {i \in Issues : issues[i].status # "absent"}
    \cup {x \in Contradictions : contradictions[x].status # "absent"}
    \cup {c \in Candidates : candidates[c].status # "absent"}
    \cup {x \in Plain : plain[x] # "absent"}

TypeOK ==
    /\ audit \in AuditState
    /\ observations \in [Observations -> Observation]
    /\ issues \in [Issues -> Issue]
    /\ contradictions \in [Contradictions -> Contradiction]
    /\ candidates \in [Candidates -> Candidate]
    /\ plain \in [Plain -> PlainStatuses]
    /\ ledger \subseteq AcceptedEvent

(***************************************************************************)
(* A workspace begins with init-audit, which accepts audit.created alone.  *)
(* Without it no other event could ever be projected.                      *)
(***************************************************************************)
Init ==
    /\ audit = [status |-> "initialized", current_snapshot_ref |-> NoRef]
    /\ observations = [o \in Observations |->
           [status |-> "absent", evidence_class |-> NoRef, candidate_ref |-> NoRef]]
    /\ issues = [i \in Issues |->
           [status |-> "absent", observation_ids |-> {}, question_ids |-> {},
            contradiction_ids |-> {}]]
    /\ contradictions = [x \in Contradictions |->
           [status |-> "absent", conflicting_entity_refs |-> {}]]
    /\ candidates = [c \in Candidates |->
           [status |-> "absent", promoted_observation_id |-> NoRef]]
    /\ plain = [x \in Plain |-> "absent"]
    /\ ledger = {[type |-> "audit.created", about |-> Audit, actor |-> "system"]}

-----------------------------------------------------------------------------
(* One action per kind of entity: the validator suite finds no issue with  *)
(* the candidate event and the event is appended.                          *)

\* The schema, the role permissions and the transition matrix let it through.
Admits(actor, type, transitions, from, to) ==
    /\ type \in SchemaEventTypes
    /\ MayEmit(actor, type)
    /\ <<from, to, type>> \in transitions

Append(actor, type, about) ==
    ledger' = ledger \cup {[type |-> type, about |-> about, actor |-> actor]}

\* An update of the audit root that takes its two fields for each other.
MisplacedUpdateAudit(actor, type, status, snapshot) ==
    /\ Admits(actor, type, AuditTransitions, audit.status, status)
    /\ audit' = [status |-> snapshot, current_snapshot_ref |-> status]
    /\ Append(actor, type, Audit)
    /\ UNCHANGED <<observations, issues, contradictions, candidates, plain>>

(***************************************************************************)
(* The audit root.  audit.updated is the only event an entity may receive  *)
(* twice.  Its id is a digest of the status and the snapshot it announces, *)
(* so the duplicate check refuses a second announcement of the same pair,  *)
(* whatever happened in between (cli.build_audit_updated_event).           *)
(***************************************************************************)
UpdateAudit(actor, type, status, snapshot) ==
    /\ Admits(actor, type, AuditTransitions, audit.status, status)
    /\ \A e \in ledger : e.type = "audit.updated" /\ type = e.type
                             => e.about # <<status, snapshot>>
    /\ audit' = [status |-> status, current_snapshot_ref |-> snapshot]
    /\ Append(actor, type, IF type = "audit.updated" THEN <<status, snapshot>> ELSE Audit)
    /\ UNCHANGED <<observations, issues, contradictions, candidates, plain>>

(***************************************************************************)
(* An observation.  The rules file also lists what a candidate_ref must    *)
(* satisfy when an observation is proposed, under two guard kinds that     *)
(* TransitionValidator has no branch for: nothing is checked.              *)
(***************************************************************************)
AcceptObservation(actor, type, o, payload) ==
    /\ Admits(actor, type, ObservationTransitions, observations[o].status, payload.status)
    /\ observations' = [observations EXCEPT ![o] = payload]
    /\ Append(actor, type, o)
    /\ UNCHANGED <<audit, issues, contradictions, candidates, plain>>

\* Evidence that was only looked up, not asked to be verified.
UnverifiedEvidence(payload) == payload.observation_ids \subseteq Existing

\* What the guards of issue.proposed and issue.accepted ask of the evidence.
Evidenced(payload) ==
    \A o \in payload.observation_ids :
        /\ observations[o].status = "verified"
        /\ observations[o].evidence_class \in AllowedEvidenceClasses

(***************************************************************************)
(* An issue.  Only issue.proposed and issue.accepted are guarded; the      *)
(* payload of issue.rejected and issue.closed replaces the evidence        *)
(* unchecked, and question_ids and contradiction_ids are never looked up.  *)
(***************************************************************************)
AcceptIssue(actor, type, i, payload) ==
    /\ Admits(actor, type, IssueTransitions, issues[i].status, payload.status)
    /\ payload.observation_ids # {}
    /\ type \in {"issue.proposed", "issue.accepted"} => Evidenced(payload)
    /\ issues' = [issues EXCEPT ![i] = payload]
    /\ Append(actor, type, i)
    /\ UNCHANGED <<audit, observations, contradictions, candidates, plain>>

\* A contradiction whose sides are not looked up.
UncheckedAcceptContradiction(actor, type, x, payload) ==
    /\ Admits(actor, type, ContradictionTransitions, contradictions[x].status, payload.status)
    /\ contradictions' = [contradictions EXCEPT ![x] = payload]
    /\ Append(actor, type, x)
    /\ UNCHANGED <<audit, observations, issues, candidates, plain>>

\* A contradiction: both sides exist when it is registered.
AcceptContradiction(actor, type, x, payload) ==
    /\ Admits(actor, type, ContradictionTransitions, contradictions[x].status, payload.status)
    /\ type = "contradiction.registered" => payload.conflicting_entity_refs \subseteq Existing
    /\ contradictions' = [contradictions EXCEPT ![x] = payload]
    /\ Append(actor, type, x)
    /\ UNCHANGED <<audit, observations, issues, candidates, plain>>

\* candidate_promotion_path_valid: the observation exists and links back.
ValidPromotion(c, payload) ==
    /\ payload.promoted_observation_id # NoRef
    /\ payload.promoted_observation_id \in Existing
    /\ observations[payload.promoted_observation_id].candidate_ref = c

AcceptCandidate(actor, type, c, payload) ==
    /\ Admits(actor, type, CandidateTransitions, candidates[c].status, payload.status)
    /\ type = "candidate.promoted_to_observation" => ValidPromotion(c, payload)
    /\ candidates' = [candidates EXCEPT ![c] = payload]
    /\ Append(actor, type, c)
    /\ UNCHANGED <<audit, observations, issues, contradictions, plain>>

\* Questions, hypotheses, decisions and canonical tasks have no other guard.
AcceptPlain(actor, type, x, status) ==
    /\ Admits(actor, type, PlainTransitions(x), plain[x], status)
    /\ plain' = [plain EXCEPT ![x] = status]
    /\ Append(actor, type, x)
    /\ UNCHANGED <<audit, observations, issues, contradictions, candidates>>

-----------------------------------------------------------------------------
(* What may be submitted: any well-formed event, in any order.  The schema *)
(* asks for an evidence class; for at least two sides of a contradiction,  *)
(* of which two are enough here.                                           *)

SubmittedObservations == {p \in Observation : p.evidence_class # NoRef}

SidesOfContradictions == {{e, f} : e, f \in Entities} \ {{e} : e \in Entities}

SubmittedContradictions ==
    [ status: StatusesOf(ContradictionTransitions),
      conflicting_entity_refs: SidesOfContradictions ]

Next ==
    \E actor \in Actors :
        \/ \E type \in TypesFrom(AuditTransitions, audit.status),
              status \in StatusesOf(AuditTransitions), snapshot \in Snapshots \cup {NoRef} :
               UpdateAudit(actor, type, status, snapshot)
        \/ \E o \in Observations :
            \E type \in TypesFrom(ObservationTransitions, observations[o].status),
               payload \in SubmittedObservations :
               AcceptObservation(actor, type, o, payload)
        \/ \E i \in Issues :
            \E type \in TypesFrom(IssueTransitions, issues[i].status), payload \in Issue :
               AcceptIssue(actor, type, i, payload)
        \/ \E x \in Contradictions :
            \E type \in TypesFrom(ContradictionTransitions, contradictions[x].status),
               payload \in SubmittedContradictions :
               AcceptContradiction(actor, type, x, payload)
        \/ \E c \in Candidates :
            \E type \in TypesFrom(CandidateTransitions, candidates[c].status),
               payload \in Candidate :
               AcceptCandidate(actor, type, c, payload)
        \/ \E x \in Plain :
            \E type \in TypesFrom(PlainTransitions(x), plain[x]), status \in PlainStatuses :
               AcceptPlain(actor, type, x, status)

Spec == Init /\ [][Next]_vars

-----------------------------------------------------------------------------
(***************************************************************************)
(* An issue that is proposed or accepted rests on at least one observation *)
(* and only on observations that are verified now and of a class a finding *)
(* may rest on.  The guard looks at the observations once, when the issue  *)
(* event is accepted; the rest depends on no later event being able to     *)
(* unverify or reclassify them (transition_rules.yaml 567-611).            *)
(***************************************************************************)
IssuesRestOnVerifiedFacts ==
    \A i \in Issues : issues[i].status \in {"proposed", "accepted"} =>
        /\ issues[i].observation_ids # {}
        /\ \A o \in issues[i].observation_ids :
               /\ observations[o].status = "verified"
               /\ observations[o].evidence_class \in AllowedEvidenceClasses

(***************************************************************************)
(* Every side of an open contradiction is an entity of the canonical       *)
(* state: ContradictionValidator looks them up once, and nothing accepted  *)
(* is ever removed.                                                        *)
(***************************************************************************)
OpenContradictionsGrounded ==
    \A x \in Contradictions : contradictions[x].status = "open" =>
        contradictions[x].conflicting_entity_refs \subseteq Existing

(***************************************************************************)
(* The append-only ledger never holds two outcomes of one entity: an       *)
(* observation both verified and rejected, an issue both accepted and      *)
(* rejected, a candidate both promoted and rejected, an audit both         *)
(* completed and cancelled.                                                *)
(***************************************************************************)
ExclusiveOutcomes ==
    { {"observation.verified", "observation.rejected"},
      {"issue.accepted", "issue.rejected"},
      {"candidate.promoted_to_observation", "candidate.rejected"},
      {"audit.completed", "audit.cancelled"} }

OneOutcome ==
    \A outcomes \in ExclusiveOutcomes, d, e \in ledger :
        d.about = e.about /\ {d.type, e.type} \subseteq outcomes => d.type = e.type

(***************************************************************************)
(* The ledger and the projected state agree on every outcome.  This is the *)
(* strengthening OneOutcome needs: the ledger does not say why a second    *)
(* outcome is refused, the status the first one left behind does.          *)
(***************************************************************************)
OutcomeRecorded(e) ==
    /\ e.type = "observation.verified" =>
           e.about \in Observations /\ observations[e.about].status = "verified"
    /\ e.type = "observation.rejected" =>
           e.about \in Observations /\ observations[e.about].status = "rejected"
    /\ e.type = "issue.accepted" =>
           e.about \in Issues /\ issues[e.about].status \in {"accepted", "closed"}
    /\ e.type = "issue.rejected" =>
           e.about \in Issues /\ issues[e.about].status = "rejected"
    /\ e.type = "candidate.promoted_to_observation" =>
           e.about \in Candidates /\ candidates[e.about].status = "resolved_promoted"
    /\ e.type = "candidate.rejected" =>
           e.about \in Candidates /\ candidates[e.about].status = "rejected"
    /\ e.type = "audit.completed" => audit.status = "completed"
    /\ e.type = "audit.cancelled" => audit.status = "cancelled"

OutcomesRecorded == \A e \in ledger : OutcomeRecorded(e)

(***************************************************************************)
(* No worker role decides twice about one entity: what the Reader proposes *)
(* it cannot verify, and what the Verifier verifies it did not propose     *)
(* (worker_role_event_permissions of transition_rules.yaml).               *)
(***************************************************************************)
SeparationOfDuties ==
    \A d, e \in ledger :
        d.about = e.about /\ d.actor = e.actor /\ d.actor \in Roles => d.type = e.type

(***************************************************************************)
(* Once an entity has reached an outcome, nothing about it changes, its    *)
(* evidence included: every event replaces the whole payload, so only the  *)
(* missing transitions protect it.                                         *)
(***************************************************************************)
OutcomesAreFinal ==
    [][ /\ \A o \in Observations : observations[o].status \in {"verified", "rejected"} =>
               observations'[o] = observations[o]
        /\ \A i \in Issues : issues[i].status \in {"rejected", "closed"} =>
               issues'[i] = issues[i]
        /\ \A x \in Contradictions : contradictions[x].status = "resolved" =>
               contradictions'[x] = contradictions[x]
        /\ \A c \in Candidates : candidates[c].status \in {"rejected", "resolved_promoted"} =>
               candidates'[c] = candidates[c]
        /\ audit.status \in {"completed", "cancelled"} => audit' = audit ]_vars

(***************************************************************************)
(* report_compiler.py 607 and 629 raise on an issue that is not rejected   *)
(* and cites a question or a contradiction the state does not hold, and no *)
(* report is written: what was accepted must not be able to do that.       *)
(***************************************************************************)
ReportCanBeCompiled ==
    \A i \in Issues : issues[i].status \notin {"absent", "rejected"} =>
        issues[i].question_ids \cup issues[i].contradiction_ids \subseteq Existing
=============================================================================
