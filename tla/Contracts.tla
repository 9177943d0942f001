------------------------------ MODULE Contracts ------------------------------
(***************************************************************************)
(* The components that keep no state of their own, composed the way the    *)
(* runtime composes them and started from any of a set of inputs: routing  *)
(* of candidates between runs of their tasks, a policy and the call made   *)
(* under it, the slice a worker is given while the audit goes on, its      *)
(* answer on its way to the validators and the same answer given again, a  *)
(* report, the life of candidates in the run ledger, and the account of a  *)
(* task that yields nothing.                                               *)
(*                                                                         *)
(* input never changes; its subject says which component it is for.        *)
(* outcome is what the component has made of it so far.                    *)
(***************************************************************************)
EXTENDS Integers, Sequences, FiniteSets, SequencesExt

CONSTANTS
    NoFile, NoSnapshot, Unlimited, Nothing, NoText, NoRange, NoLine, Raised, Absent, Refused,
    CompileError, NoTrace, NoReason, MaxEvidence, MaxRelated,
    Inputs,         \* what the components are given
    MaxRounds,      \* bound on how often candidates are routed
    MaxEntries,     \* bound on the run ledger
    Pending         \* nothing was done with the input yet

VARIABLES input, outcome

vars == <<input, outcome>>

Router == INSTANCE CandidateRouting
Backend == INSTANCE BackendContract
Transport == INSTANCE EventNormalization
Identity == INSTANCE Canonicalization
Binding == INSTANCE SourceBinding
Selection == INSTANCE SliceSelection
Compiler == INSTANCE ReportCompiler
Ledger == INSTANCE RunLedger
Account == INSTANCE Outcomes

(***************************************************************************)
(* The limits of routing are numbers, and what is routed comes in lists.   *)
(* Budgets are numbers or None.  A call raises an exception or nothing,    *)
(* and what the SDK of Claude raises is none of the exceptions the codex   *)
(* adapter defines.  Lists of identifiers are finite, and identifiers are  *)
(* numbers.  A text that is not blank is not blank when it is spaced       *)
(* differently, and references come in lists.  A trace that was not found  *)
(* is None, which is no trace.  The events of an answer are judged only if *)
(* the answer has events, and refused at most once each.                   *)
(***************************************************************************)
RoutingInput(i) ==
    /\ i.policy.max_verify \in Nat /\ i.policy.max_scans \in Nat
    /\ IsFiniteSet(DOMAIN i.queue)
    /\ i.candidates \in Seq(ToSet(i.candidates))
    /\ \A c \in ToSet(i.candidates) :
           c.type = "cross_file_correlation" => c.files \in Seq(ToSet(c.files))

PolicyInput(i) == \A b \in DOMAIN i.budget : i.budget[b] \in Int \cup {Unlimited}

CallInput(i) ==
    /\ i.raised # Nothing => i.raised \in Backend!Exceptions
    /\ Nothing \notin Backend!Exceptions
    /\ i.requested \notin {"none", "codex"} =>
           i.raised = Nothing \/ i.raised.class \notin Backend!AdapterErrors

SliceInput(i) ==
    /\ {"observations", "hypotheses", "questions"} \subseteq DOMAIN i.state
    /\ DOMAIN i.state.hypotheses \subseteq Nat
    /\ \A h \in DOMAIN i.state.hypotheses :
           LET hypothesis == i.state.hypotheses[h]
           IN  /\ {"status", "observations", "basis", "supporting", "contradicting"}
                      \subseteq DOMAIN hypothesis
               /\ hypothesis.observations \subseteq Nat /\ IsFiniteSet(hypothesis.observations)
               /\ hypothesis.basis \subseteq Nat /\ IsFiniteSet(hypothesis.basis)
               /\ hypothesis.supporting \in Seq(Nat)
               /\ hypothesis.contradicting \in Seq(Nat)

AnsweredEvent(event) ==
    LET payload == event.payload
    IN  /\ {"form", "type", "payload"} \subseteq DOMAIN event
        /\ DOMAIN Transport!Silent \subseteq DOMAIN payload
        /\ payload.text # NoText =>
               /\ "spacing" \in DOMAIN payload.text
               /\ [payload.text EXCEPT !.spacing = "other"] # NoText
        /\ payload.provenance # Absent =>
               /\ payload.provenance \in Seq(ToSet(payload.provenance))
               /\ Absent \notin Seq(ToSet(payload.provenance))

AnswerInput(i) ==
    /\ {"observations", "patterns"} \subseteq DOMAIN i.context /\ "events" \in DOMAIN i.answer
    /\ \A event \in ToSet(i.answer.events) : event.form # "internal" => AnsweredEvent(event)
    /\ \A o \in DOMAIN i.context.observations :
           {"status", "text", "refs", "class"} \subseteq DOMAIN i.context.observations[o]

LifecycleInput(i) ==
    LET outcomes == ToSet(Ledger!CandidateOutcomes)
    IN  NoTrace \notin [sequence: Nat, run: Nat, task: {"task"}, status: {"succeeded"},
                        outcome: {"accepted"},
                        event: [id: i.candidates \X outcomes, entity: i.candidates,
                                type: {Ledger!CandidateEvent(o) : o \in outcomes}]]

FunnelInput(i) ==
    LET answer == i.answer
    IN  /\ {answer.output, answer.json, answer.schema, answer.missing} \subseteq BOOLEAN
        /\ answer.codes \in Seq(ToSet(answer.codes))
        /\ answer.count \in Nat /\ Len(answer.codes) <= answer.count
        /\ answer.codes # <<>> =>
               answer.output /\ answer.json /\ answer.schema /\ ~answer.missing

ASSUME ContractsAssumption ==
    /\ Unlimited \notin Int /\ NoReason \notin Account!Reasons
    /\ MaxEvidence \in Nat /\ MaxRelated \in Nat
    /\ \A i \in Inputs :
           /\ i.subject = "routing" => RoutingInput(i)
           /\ i.subject = "policy" => PolicyInput(i)
           /\ i.subject = "call" => CallInput(i)
           /\ i.subject = "slice" => SliceInput(i)
           /\ i.subject = "answer" => AnswerInput(i)
           /\ i.subject = "lifecycle" => LifecycleInput(i)
           /\ i.subject = "funnel" => FunnelInput(i)

Init ==
    /\ input \in Inputs
    /\ outcome = Pending

\* The next thing that is done with an input of this subject.
About(subject) == input.subject = subject /\ UNCHANGED input

Begun(subject) == input.subject = subject /\ outcome # Pending

-----------------------------------------------------------------------------
(* Candidates are routed, and their tasks are worked on.                   *)

QueueNow == IF outcome = Pending THEN input.queue ELSE outcome.queue

RouteCandidates ==
    LET done == Router!Routed(input.policy, input.snapshot, QueueNow, input.candidates)
    IN  /\ About("routing")
        /\ outcome # Pending => outcome.rounds < MaxRounds
        /\ outcome' = [rounds |-> IF outcome = Pending THEN 1 ELSE outcome.rounds + 1,
                       done |-> done, worked |-> FALSE,
                       queue |-> Router!QueueAfter(QueueNow, done)]

FinishTask(t) ==
    /\ About("routing") /\ outcome # Pending
    /\ outcome.queue[t] = "pending"
    /\ outcome' = [outcome EXCEPT !.queue[t] = "done", !.worked = TRUE]

-----------------------------------------------------------------------------
(* Policies and calls.                                                     *)

ChangePolicy ==
    LET original == Backend!ProfileOf(input.role)
        modified == Backend!Overridden(original, input.allows, input.budget)
    IN  /\ About("policy") /\ outcome = Pending
        /\ outcome' = [original |-> original, modified |-> modified,
                       consistent |-> Backend!Consistent(modified),
                       expansions |-> Backend!Expansions(original, modified)]

Selected == Backend!Select(input.requested, "codex", input.enabled)

\* The result of the call, if this is what is raised within it.
Called(raised) ==
    LET envelope == Backend!DefaultOf(input.role)
    IN  IF Selected = "codex"
        THEN Backend!RunCodex(input.role, input.sandbox, envelope, raised)
        ELSE Backend!RunClaude(input.role, envelope, raised)

CallBackend ==
    /\ About("call") /\ outcome = Pending
    /\ Selected # "unavailable"
    /\ outcome' = Called(input.raised)

-----------------------------------------------------------------------------
(* A slice is built, and built again after hypotheses and questions were   *)
(* decided on.                                                             *)

SliceOf(state) == Selection!Slice(state, input.type, input.target, input.readable)

BuildSlice ==
    /\ About("slice") /\ outcome = Pending
    /\ outcome' = [state |-> input.state, slice |-> SliceOf(input.state)]

Rebuilt(state) == outcome' = [state |-> state, slice |-> SliceOf(state)]

DecideHypothesis(h, status) ==
    /\ About("slice") /\ outcome # Pending
    /\ <<outcome.state.hypotheses[h].status, status>> \in
           {<<"proposed", "in_verification">>, <<"in_verification", "supported">>,
            <<"proposed", "rejected">>, <<"in_verification", "rejected">>}
    /\ Rebuilt([outcome.state EXCEPT !.hypotheses[h].status = status])

DecideQuestion(q, status) ==
    /\ About("slice") /\ outcome # Pending
    /\ <<outcome.state.questions[q].status, status>> \in
           {<<"open", "answered">>, <<"open", "closed">>, <<"answered", "closed">>}
    /\ Rebuilt([outcome.state EXCEPT !.questions[q].status = status])

-----------------------------------------------------------------------------
(* An answer is read, and read again when the task is tried again.  Codex  *)
(* and Claude may have given the same answer.                              *)

Context ==
    [input.context EXCEPT !.patterns =
        Transport!ScanSources(input.scan.rules, input.scan.sources, input.context.snapshot,
                              input.scan.per_rule, input.scan.total)]

\* The same words set differently, the same references in another order.
Reworded(event) ==
    IF event.form = "internal" THEN event
    ELSE [event EXCEPT !.payload.text = IF @ = NoText THEN @
                                         ELSE [@ EXCEPT !.spacing = "other"],
                       !.payload.provenance = IF @ = Absent THEN @ ELSE Reverse(@)]

ReadAnswer ==
    /\ About("answer") /\ outcome = Pending
    /\ outcome' = [codex |-> Transport!CodexEvents(Context, input.answer, 1),
                   claude |-> Transport!ClaudeEvents(Context, input.answer, 2, 3),
                   again |-> Raised, codes |-> <<>>]

RetryAnswer ==
    LET answer == [input.answer EXCEPT !.events = [i \in DOMAIN @ |-> Reworded(@[i])]]
    IN  /\ About("answer") /\ outcome # Pending /\ outcome.again = Raised
        /\ outcome' = [outcome EXCEPT !.again = Transport!CodexEvents(Context, answer, 4)]

\* What the validator of references finds in the canonical event.
IssuesOf(event) ==
    IF Identity!IsFounded(event) THEN Binding!SourceIssues(Identity!Canonical(event)) ELSE {}

\* The validators see both answers, each in its run.
BindAnswers ==
    /\ About("answer") /\ outcome # Pending
    /\ Raised \notin {outcome.codex, outcome.again} /\ outcome.codes = <<>>
    /\ outcome' = [outcome EXCEPT !.codes =
           [i \in DOMAIN outcome.codex |->
               [codex |-> IssuesOf(outcome.codex[i]), again |-> IssuesOf(outcome.again[i])]]]

-----------------------------------------------------------------------------
(* The report.                                                             *)

CompileReport ==
    /\ About("report") /\ outcome = Pending
    /\ outcome' = Compiler!Compiled(input.state, input.appendix)

-----------------------------------------------------------------------------
(* The events of candidates are accepted, each by a worker run.            *)

\* The transitions of a candidate, by the status they lead to.
Follows(status) ==
    CASE status = "unknown"          -> {"proposed"}
      [] status = "proposed"         -> {"routed_to_verify", "rejected"}
      [] status = "routed_to_verify" -> {"resolved_promoted", "rejected"}
      [] OTHER                       -> {}

Entries == IF outcome = Pending THEN <<>> ELSE outcome.entries

StatusOf(candidate) == IF outcome = Pending THEN "unknown" ELSE outcome.status[candidate]

AcceptEvent(candidate, status) ==
    LET event == [id |-> <<candidate, status>>, type |-> Ledger!CandidateEvent(status),
                  entity |-> candidate]
        started == Ledger!StartRun(Entries, "snapshot")
        run == Ledger!NextRun(Entries)
        repeated == {[event EXCEPT !.entity = c, !.type = "candidate.proposed"] :
                        c \in input.repeated}
    IN  /\ About("lifecycle")
        /\ Len(Entries) + 2 <= MaxEntries
        /\ status \in Follows(StatusOf(candidate))
        /\ outcome' = [entries |-> Ledger!RecordExecution(started, run, "task", "succeeded",
                                                          "none", {event}, repeated),
                       status |-> [c \in input.candidates |->
                                      IF c = candidate THEN status ELSE StatusOf(c)]]

-----------------------------------------------------------------------------
(* What becomes of an answer, as the diagnostics tell it.                  *)

\* The reasons of rejections, by the stage of the funnel that answers for them.
SortCode(sorted, code) ==
    LET reason == Account!ReasonOf(code)
    IN  IF reason = "policy_rejected" THEN [sorted EXCEPT !.policy = Append(@, reason)]
        ELSE [sorted EXCEPT !.others = Append(@, reason)]

SortedReasons(codes) == FoldLeft(SortCode, [policy |-> <<>>, others |-> <<>>], codes)

(***************************************************************************)
(* The builder's steps up to the first stage that ends the run, as the     *)
(* tests of the diagnostics take them; an empty list is reported as such,  *)
(* and events the policy refuses do not reach the transport stage.  (The   *)
(* runtime itself builds no diagnostics yet.)                              *)
(***************************************************************************)
Diagnosed(answer) ==
    LET output == Account!WithRawOutput(Account!NewDiagnostics, answer.output)
        parsed == Account!WithParse(output, answer.output /\ answer.json)
        checked == Account!WithSchema(parsed, answer.schema)
        extracted == Account!WithExtraction(checked, answer.count, answer.missing,
                                           answer.count = 0 /\ ~answer.missing)
        policy == SortedReasons(answer.codes).policy
        others == SortedReasons(answer.codes).others
        left == answer.count - Len(policy)
        judged == Account!WithPolicy(extracted, left, Len(policy), policy)
    IN  IF ~(answer.output /\ answer.json) THEN parsed
        ELSE IF ~answer.schema THEN checked
        ELSE IF answer.missing \/ answer.count = 0 THEN extracted
        ELSE IF left = 0 THEN judged
        ELSE Account!WithTransport(judged, left - Len(others), Len(others), others)

\* The outcome of each event; those that were refused come first.
OutcomesOf(answer) ==
    {[number |-> i,
      outcome |-> IF i \in DOMAIN answer.codes THEN "rejected" ELSE "accepted"] :
         i \in 1..answer.count}

DiagnoseAnswer ==
    /\ About("funnel") /\ outcome = Pending
    /\ outcome' = [diagnostics |-> Diagnosed(input.answer),
                   first |-> Account!TraceRejection(input.answer.codes),
                   bundled |-> Account!WritesBundle(OutcomesOf(input.answer)),
                   aggregate |-> Account!Aggregated(<<Diagnosed(input.answer)>>)]

ClassifyError ==
    /\ About("error") /\ outcome = Pending
    /\ outcome' = [task |-> Account!TaskOutcome(0, TRUE, input.status, input.words),
                   stop |-> Account!StopsClaiming(
                                Account!ProviderError(input.status, input.words))]

Next ==
    \/ RouteCandidates
    \/ input.subject = "routing" /\ \E t \in DOMAIN QueueNow : FinishTask(t)
    \/ ChangePolicy \/ CallBackend
    \/ BuildSlice
    \/ /\ input.subject = "slice" /\ outcome # Pending
       /\ \/ \E h \in DOMAIN outcome.state.hypotheses :
                 \E status \in {"in_verification", "supported", "rejected"} :
                     DecideHypothesis(h, status)
          \/ \E q \in DOMAIN outcome.state.questions :
                 \E status \in {"answered", "closed"} : DecideQuestion(q, status)
    \/ ReadAnswer \/ BindAnswers \/ RetryAnswer
    \/ CompileReport
    \/ /\ input.subject = "lifecycle"
       /\ \E c \in input.candidates :
              \E status \in Follows(StatusOf(c)) : AcceptEvent(c, status)
    \/ DiagnoseAnswer \/ ClassifyError

Spec == Init /\ [][Next]_vars

-----------------------------------------------------------------------------
(* Properties.                                                             *)

\* The larger of two numbers.
Larger(m, n) == IF m >= n THEN m ELSE n

(***************************************************************************)
(* However often candidates are routed, and however much of their work is  *)
(* done in between, never more verifications wait than the policy allows,  *)
(* or than waited before (tasks.py, candidate_verify_max_per_run).         *)
(***************************************************************************)
RoutingIsBounded ==
    Begun("routing") =>
        Cardinality(Router!PendingVerifications(outcome.queue)) <=
            Larger(input.policy.max_verify,
                   Cardinality(Router!PendingVerifications(input.queue)))

(***************************************************************************)
(* A candidate that was routed without a word has its work queued: a task  *)
(* for each file it names, unless an earlier candidate that names the file *)
(* was deferred aloud, or a task for the observation it is about.  (A      *)
(* verification target that is no observation is the known exception.)     *)
(***************************************************************************)
RoutingLosesNoCandidate ==
    Begun("routing") =>
        LET reported == {r.candidate : r \in outcome.done.results}
            candidates == input.candidates
            queued(value) == \E t \in DOMAIN outcome.queue : t.value = value
            files(c) == ToSet(Router!FilesOf(input.policy, c))
        IN  outcome.done.raised \/ \A i \in DOMAIN candidates :
                \/ candidates[i].id \in reported
                \/ /\ /\ candidates[i].type = "verification_target"
                      /\ candidates[i].target = "observation"
                      => queued(candidates[i].target_id)
                   /\ \A f \in files(candidates[i]) :
                          \/ queued(f)
                          \/ \E j \in 1..(i - 1) :
                                 f \in files(candidates[j]) /\ candidates[j].id \in reported

(***************************************************************************)
(* Routing again takes no finished task up again, and adds nothing unless  *)
(* something was worked on in between: task ids are digests of their type  *)
(* and target, and enqueue_many leaves known tasks alone.                  *)
(***************************************************************************)
RoutingIsRepeatable ==
    [][ Begun("routing") /\ outcome'.rounds > outcome.rounds =>
            /\ \A t \in DOMAIN outcome.queue : outcome'.queue[t] = outcome.queue[t]
            /\ ~outcome.worked => outcome'.queue = outcome.queue ]_vars

(***************************************************************************)
(* An override of a profile that check_policy_expansion finds no fault     *)
(* with allows nothing new: each tool call that violates the profile still *)
(* does, what a role lacks it still lacks, and no limit is raised.  A      *)
(* limit that is lifted altogether is the known exception.                 *)
(***************************************************************************)
ExpansionIsSeen ==
    Begun("policy") /\ outcome.expansions = {} =>
        /\ Backend!Violations(outcome.original, input.calls)
               \subseteq Backend!Violations(outcome.modified, input.calls)
        /\ \A backend \in Backend!Backends :
               LET lacks(envelope) == Backend!Missing(input.role,
                                          Backend!Declared(backend, "read-only"),
                                          Backend!AllowedBy(envelope))
               IN  lacks(outcome.original) \subseteq lacks(outcome.modified)
        /\ \A b \in Backend!Budgets : outcome.modified.budget[b] # Unlimited =>
               outcome.modified.budget[b] <= outcome.original.budget[b]

\* Codex' adapter refused the answer, or the role.
Refuses(raised) == raised.class \in {"CodexOutputError", "UnsupportedWorkerRoleError"}

\* There was no answer: codex was not there, crashed or ran out of time.
IsLost(raised) ==
    \/ raised.class = "TimeoutError"
    \/ /\ raised.class = "CodexInvocationError"
       /\ raised.stage \in {"resolve_executable", "invoke_codex"}

(***************************************************************************)
(* Whether a failed call may be tried again does not hang on the words of  *)
(* its message, which quotes what a model or a process wrote: an answer    *)
(* the codex adapter judged and refused is not retryable though it mention *)
(* a timeout, and a call that got no answer is, however that is worded     *)
(* (codex_adapter.py, _classify_adapter_error).  There are two exceptions. *)
(* A plain CodexAdapterError, as for a schema file that is missing, is     *)
(* retryable if its text, a path, says timeout.  And an answer the adapter *)
(* stumbles over without judging it (parse_worker_output raises a          *)
(* KeyError) counts as a crash of the process, so that it is retryable.    *)
(***************************************************************************)
RetriesIgnoreMessages ==
    Begun("call") /\ input.raised # Nothing =>
        /\ ~outcome.success
        /\ Refuses(input.raised) => ~outcome.retryable
        /\ IsLost(input.raised) => outcome.retryable
        /\ input.raised.class # "CodexAdapterError" =>
               outcome.retryable = Called([input.raised EXCEPT !.words = {}]).retryable

(***************************************************************************)
(* Who verifies a hypothesis is told of every supported hypothesis that    *)
(* contradicts it, and shown every observation it rests on, unless the     *)
(* slice is full; and what is decided in the meantime takes neither away   *)
(* (slice_builder.py, MAX_RELATED_HYPOTHESES and MAX_EVIDENCE_NODES).      *)
(***************************************************************************)
VerifiersSeeContradictions ==
    Begun("slice") /\ outcome.slice # Raised /\ input.target.kind = "hypothesis" =>
        LET known == outcome.state.hypotheses
            target == known[input.target.value]
            named == DOMAIN known \cap ToSet(target.supporting \o target.contradicting)
            rests == target.observations \cap DOMAIN outcome.state.observations
            evidence == target.observations \cup target.basis
                            \cup UNION {known[h].observations : h \in named}
        IN  /\ Cardinality(outcome.slice.hypotheses) <= MaxRelated + 1
            /\ \A h \in DOMAIN known \cap ToSet(target.contradicting) :
                   known[h].status = "supported" =>
                       \/ h \in outcome.slice.contradictions
                       \/ Cardinality(outcome.slice.hypotheses) = MaxRelated + 1
            /\ Cardinality(outcome.slice.observations) <= MaxEvidence
            /\ rests \subseteq outcome.slice.observations
                  \/ Cardinality(evidence) > MaxEvidence
            /\ SliceOf(input.state).contradictions \subseteq outcome.slice.contradictions
            /\ SliceOf(input.state).observations = outcome.slice.observations

(***************************************************************************)
(* Claude's way reads every answer codex's way reads, when both can unwrap *)
(* it, into events about the same entities with the same payloads.         *)
(***************************************************************************)
ClaudeReadsWhatCodexReads ==
    Begun("answer") /\ outcome.codex # Raised /\ Transport!ClaudeReads(input.answer) =>
        /\ DOMAIN outcome.claude = DOMAIN outcome.codex
        /\ \A i \in DOMAIN outcome.codex :
               /\ outcome.claude[i].form = "internal"
               /\ outcome.claude[i].type = outcome.codex[i].type
               /\ outcome.claude[i].about = outcome.codex[i].about

(***************************************************************************)
(* Claude's events are normalized twice, at different times: the second    *)
(* pass leaves every event as the first made it, its id and time included. *)
(***************************************************************************)
SecondPassChangesNothing ==
    Begun("answer") /\ Transport!ClaudeReads(input.answer) =>
        outcome.claude = Transport!Pass(Context, input.answer.events, 2)

(***************************************************************************)
(* An answer that is given again later, spaced differently and with its    *)
(* references in another order, is recognized: each of its events has the  *)
(* id and the entity it had before, although the transport puts the time   *)
(* into both, and the same is found wrong with it.  (Contradictions and    *)
(* candidates of an unknown type have no canonical meaning.)               *)
(***************************************************************************)
RetriedAnswersAreDuplicates ==
    Begun("answer") /\ Raised \notin {outcome.codex, outcome.again} =>
        \A i \in DOMAIN outcome.codex :
            LET first == Identity!Canonical(outcome.codex[i])
                second == Identity!Canonical(outcome.again[i])
            IN  /\ outcome.codes # <<>> => outcome.codes[i].codex = outcome.codes[i].again
                /\ \/ first = Refused /\ second = Refused
                   \/ ~Identity!HasMeaning(outcome.codex[i])
                   \/ /\ first.id = second.id
                      /\ first.about.entity = second.about.entity
                      /\ Identity!Equivalent(outcome.codex[i], outcome.again[i])

(***************************************************************************)
(* A compiled report accounts for each verified observation exactly once:  *)
(* issues rest on it, or it is a finding of its own, or the report says    *)
(* why it is not.  No two findings share an id unless two issues claim it. *)
(***************************************************************************)
FactsAreReportedOnce ==
    Begun("report") /\ outcome # CompileError =>
        LET derived(o) == {f \in outcome.findings : f.source = <<"derived", o>>}
            citing(o) == {f \in outcome.findings :
                              f.source[1] = "issue" /\ o \in f.observations}
            suppressed(o) == {r \in outcome.suppressed : r.observation = o}
        IN  /\ \A o \in outcome.verified :
                   Cardinality(derived(o)) + Cardinality(suppressed(o)) =
                       IF citing(o) = {} THEN 1 ELSE 0
            /\ \A f, g \in outcome.findings : f.finding_id = g.finding_id =>
                   f = g \/ {f.source[1], g.source[1]} = {"issue"}

(***************************************************************************)
(* The two ways the run ledger tells what became of a candidate agree with *)
(* each other and with the accepted events, in whatever order the events   *)
(* of several candidates were accepted and whatever was refused: the       *)
(* search for an outcome and the list of candidates by outcome.            *)
(***************************************************************************)
TwoViewsAgree ==
    Begun("lifecycle") => \A c \in input.candidates : StatusOf(c) # "unknown" =>
        /\ Ledger!OutcomeOf(outcome.entries, c) = StatusOf(c)
        /\ Ledger!ListedOutcome(outcome.entries, c) = StatusOf(c)
        /\ \E t \in Ledger!ForensicTrace(outcome.entries, c) :
               t.outcome = "accepted" /\ t.event.id = <<c, StatusOf(c)>>

(***************************************************************************)
(* A task that yields no event is explained: the diagnostics name a stage  *)
(* and a reason, and the aggregate counts it under a reason (rejection.py, *)
(* INVARIANTS).  They say it ended well only if events were refused as     *)
(* schema_invalid, which no stage takes for the end of a run.              *)
(***************************************************************************)
EmptyRunsAreExplained ==
    Begun("funnel") /\ outcome.diagnostics.accepted = 0 =>
        LET d == outcome.diagnostics
        IN  /\ Account!ExplanationAvailable(d)
            /\ d.stage # "none"
            /\ d.termination = "success" => Contains(d.reasons, "schema_invalid")
            /\ Account!Explanation(d) # "unknown"
            /\ outcome.aggregate.with_rejections = 1
            /\ \E r \in Account!Reasons : outcome.aggregate.by_reason[r] > 0
            /\ outcome.bundled <=> input.answer.codes # <<>>
=============================================================================
