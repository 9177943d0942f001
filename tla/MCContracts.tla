----------------------------- MODULE MCContracts -----------------------------
(***************************************************************************)
(* The inputs of Contracts for TLC, by subject.  Each set is small, and    *)
(* holds the cases the code distinguishes and their combinations.          *)
(***************************************************************************)
EXTENDS Contracts

CONSTANTS Said, Shouted,    \* two wordings
          ReadsInput,       \* an identifier
          Late              \* a time of another run

-----------------------------------------------------------------------------
(* Routing.                                                                *)

Candidate(type) ==
    [status |-> "proposed", type |-> type, confidence |-> "high", file |-> "f1",
     files |-> <<>>, target |-> "none", target_id |-> "none", snapshot |-> "s1"]

Correlation == [Candidate("cross_file_correlation") EXCEPT !.files = <<"f2", "f1", "f3">>]
Target == [Candidate("verification_target") EXCEPT !.target = "observation",
                                                   !.target_id = "o1", !.file = NoFile]

\* What a guardrail stops, and what it lets pass.
MCCandidates ==
    { Candidate("risk_candidate"), Candidate("policy_candidate"), Correlation, Target,
      [Target EXCEPT !.target = "hypothesis"],
      [Candidate("risk_candidate") EXCEPT !.confidence = "low"],
      [Candidate("risk_candidate") EXCEPT !.file = NoFile],
      [Correlation EXCEPT !.status = "routed_to_verify"],
      [Candidate("risk_candidate") EXCEPT !.snapshot = NoSnapshot],
      [Candidate("policy_candidate") EXCEPT !.confidence = "certain"],
      Candidate("a type of its own") }

Numbered(candidate, n) ==
    [f \in DOMAIN candidate \cup {"id"} |-> IF f = "id" THEN n ELSE candidate[f]]

Verification(file) == Router!Task("verify_claim", "path", file, "s1")

MCQueues ==
    { [t \in {} |-> "done"],
      [t \in {Verification("f4")} |-> "pending"],
      [t \in {Verification("f1"), Verification("f4"), Verification("f5")} |->
          IF t = Verification("f1") THEN "done" ELSE "pending"] }

RoutingInputs ==
    {[subject |-> "routing", policy |-> policy, snapshot |-> snapshot, queue |-> queue,
      candidates |-> <<Numbered(c, "c1"), Numbered(d, "c2"),
                       Numbered([Candidate("risk_candidate") EXCEPT !.file = "f2"], "c3")>>] :
        policy \in {Router!Policy(3, 2, 2, 1, TRUE, {}), Router!Policy(3, 1, 2, 3, FALSE, {}),
                    Router!Policy(2, 3, 2, 2, TRUE, {"policy_candidate"})},
        snapshot \in {"s1", NoSnapshot}, queue \in MCQueues,
        c \in MCCandidates, d \in MCCandidates}

-----------------------------------------------------------------------------
(* Policies and calls.                                                     *)

PolicyInputs ==
    {[subject |-> "policy", role |-> role, allows |-> allows, budget |-> budget,
      calls |-> {"read_file", "edit_file", "shell", "web_search", "think"}] :
        role \in Backend!Roles \cup {"Unknown"}, allows \in SUBSET Backend!Tools,
        budget \in {[b \in {} |-> 0]} \cup [{"max_agent_turns"} -> {0, 1, 12, Unlimited}]
                   \cup [{"max_tokens", "max_tool_calls"} -> {0, 40000}]}

(***************************************************************************)
(* What is raised within a call of codex, at the stages that raise it: the *)
(* executable is not there, crashes, takes too long or is given something  *)
(* else than text by its executor; an answer is empty, no JSON or refused; *)
(* a worker input or the schema file is bad; and what nothing provides     *)
(* for, as a verdict about an observation that is not in the slice.        *)
(***************************************************************************)
CodexExceptions ==
    {Backend!Exception("CodexInvocationError", "invoke_codex", w) :
        w \in {{}, {"timed out"}, {"not found"}, {"timeout"}}}
    \cup {Backend!Exception("CodexInvocationError", "resolve_executable",
                            {"could not be resolved"}),
          Backend!Exception("CodexInvocationError", "validate_worker_result", {})}
    \cup {Backend!Exception("CodexOutputError", stage, w) :
        stage \in {"parse_transport_output", "normalize_transport_output",
                   "validate_worker_result", "validate_worker_output"},
        w \in {{}, {"must be valid JSON"}, {"empty"}, {"timeout"}}}
    \cup {Backend!Exception("CodexAdapterError", stage, w) :
        stage \in {"prepare_request", "build_invocation"}, w \in {{}, {"timeout"}}}
    \cup {Backend!Exception("KeyError", "parse_worker_output", w) : w \in {{}, {"timeout"}}}
    \cup {Backend!Exception("UnicodeDecodeError", "invoke_codex", {}),
          Backend!Exception("OSError", "invoke_codex", {}),
          Backend!Exception("OSError", "build_invocation", {"not found"})}

UnknownRole == Backend!Exception("UnsupportedWorkerRoleError", "resolve_worker", {})

\* Before the call of Claude's API, as the API's own error, and in any other way.
ClientExceptions ==
    {Backend!Exception(class, "client", {}) : class \in {"ImportError", "ValueError"}}
    \cup {Backend!Exception("APITimeoutError", "api", {})}
    \cup {Backend!Exception(class, "call", {}) :
        class \in {"TimeoutError", "JSONDecodeError", "AttributeError"}}

Call(role, requested, enabled, raised) ==
    [subject |-> "call", role |-> role, requested |-> requested, enabled |-> enabled,
     sandbox |-> "read-only", raised |-> raised]

CallInputs ==
    {Call(role, requested, enabled, raised) :
        role \in Backend!Roles, requested \in {"none", "codex"},
        enabled \in SUBSET Backend!Backends, raised \in CodexExceptions \cup {Nothing}}
    \cup
    {Call("Unknown", requested, {"codex"}, UnknownRole) : requested \in {"none", "codex"}}
    \cup
    {Call(role, "claude_sdk", enabled, raised) :
        role \in Backend!Roles, enabled \in SUBSET Backend!Backends,
        raised \in ClientExceptions \cup {Nothing}}

-----------------------------------------------------------------------------
(* Slices.                                                                 *)

Hypothesis(observations, supporting, contradicting) ==
    [status |-> "proposed", observations |-> observations, basis |-> {},
     supporting |-> supporting, contradicting |-> contradicting, files |-> {<<"d", "f1">>}]

\* Observation 4 and hypothesis 9 were never accepted.
MCState(status, observations, supporting, contradicting) ==
    [observations |-> [o \in 1..3 |-> [files |-> {IF o = 3 THEN <<"f2">> ELSE <<"d", "f1">>}]],
     hypotheses |->
         [h \in 1..4 |->
             CASE h = 1 -> [Hypothesis({1, 3}, <<>>, <<2>>) EXCEPT !.status = status]
               [] h = 2 -> Hypothesis(observations, supporting, contradicting)
               [] h = 3 -> [Hypothesis({3}, <<>>, <<>>) EXCEPT !.basis = {2}]
               [] h = 4 -> [Hypothesis({4}, <<1>>, <<>>) EXCEPT !.status = "in_verification"]],
     issues |-> [i \in {1} |-> [observations |-> {1, 4}]],
     questions |-> [q \in {1} |-> [status |-> "open",
                                  about |-> {Selection!Target("observation", 2)}]],
     contradictions |-> [x \in {1} |-> [about |-> {Selection!Target("observation", 1),
                                                  Selection!Target("hypothesis", 2)}]]]

MCTargets ==
    {Selection!Target("path", path) : path \in {<<"d">>, <<"d", "f1">>, <<"f3">>}}
    \cup {Selection!Target(kind, 1) : kind \in {"issue", "question", "contradiction",
                                               "audit", "candidate"}}
    \cup {Selection!Target("observation", o) : o \in {2, 4}}
    \cup {Selection!Target("hypothesis", h) : h \in {2, 3, 9}}

SliceInputs ==
    {[subject |-> "slice", state |-> MCState("in_verification", {2}, <<9>>, <<1>>),
      type |-> type, target |-> target, readable |-> {<<"d", "f1">>, <<"f2">>}] :
        type \in {"module_scan", "verify_claim"}, target \in MCTargets}
    \cup
    {[subject |-> "slice", state |-> MCState(status, observations, supporting, contradicting),
      type |-> "verify_claim", target |-> Selection!Target("hypothesis", 2), readable |-> {}] :
        status \in {"proposed", "supported"}, observations \in {{2}, {2, 3}, {1, 2, 3}, {4}},
        supporting \in {<<>>, <<3>>, <<4, 9>>},
        contradicting \in {<<>>, <<1>>, <<1, 3>>, <<3, 4>>, <<1, 3, 4>>}}

-----------------------------------------------------------------------------
(* Answers.                                                                *)

Text(wording, tokens) == [wording |-> wording, spacing |-> "single", tokens |-> tokens]

Here == Transport!Ref("f1", "s1", Transport!Lines(2, 3))
There == Transport!Ref("f2", "s1", Transport!Lines(7, 5))
Elsewhere == Transport!Ref("f2", "s2", Transport!Lines(1, 1))
Somewhere == Transport!Ref("f1", "s1", NoRange)

Item(file, end) ==
    [file |-> file, snapshot |-> NoText, start |-> [n |-> 2], end |-> end]

Statement == [Transport!Silent EXCEPT !.text = Text(Said, {ReadsInput})]

MCPayloads ==
    { Transport!Silent, Statement,
      [Statement EXCEPT !.provenance = <<Here>>],
      [Statement EXCEPT !.provenance = <<Here, There, Here>>, !.patterns = {}],
      [Statement EXCEPT !.source_refs = <<Elsewhere, Somewhere>>, !.class = "pattern_match"],
      [Statement EXCEPT !.file = "f1", !.class = "a class of its own"],
      [Statement EXCEPT !.text = Text(Shouted, {}), !.file = "f1", !.confidence = "low",
                        !.range = Transport!Lines(3, 4)],
      [Statement EXCEPT !.evidence = [Transport!NoEvidence EXCEPT !.kind = "list",
                                          !.items = <<Item("f2", [n |-> 4])>>],
                        !.override = "model_discovered"],
      [Statement EXCEPT !.evidence = [Transport!NoEvidence EXCEPT !.kind = "object",
                                          !.items = <<Item("f1", NoLine)>>]],
      [Statement EXCEPT !.evidence = [Transport!NoEvidence EXCEPT !.kind = "ids",
                                          !.observation_ids = {"o1"}],
                        !.severity = "high", !.question_ids = {"q1"}],
      [Statement EXCEPT !.conflicting = <<"o1", "o2">>, !.provenance = <<Here, There>>] }
    \cup {[Statement EXCEPT !.candidate_type = type, !.confidence = confidence,
                            !.scope = "f1 and f2", !.provenance = <<There, Here>>] :
              type \in Identity!CandidateTypes \cup {"a type of its own"},
              confidence \in {"high", Absent}}

MCTypes ==
    { "observation.proposed", "hypothesis.proposed", "question.opened",
      "observation.verified", "observation.rejected", "contradiction.registered",
      "issue.proposed", "candidate.proposed", "task.completed", NoText }

\* A hypothesis a model decides on in the runtime's own terms.
Decided(observations) ==
    [form |-> "internal", type |-> "hypothesis.supported", at |-> Late, snapshot |-> "s1",
     id |-> <<"own", 1>>,
     about |-> Transport!Entity("hypothesis", <<"own", 2>>,
                  [status |-> "supported", text |-> Text(Said, {ReadsInput}),
                   refs |-> <<Here>>, supporting_observations |-> observations])]

Answer(events) ==
    [json |-> "object", wrapper |-> "none", alone |-> TRUE, inner |-> "object",
     events |-> events]

MCEvents == {Transport!Event(form, type, payload) :
                form \in {"nested", "flat"}, type \in MCTypes, payload \in MCPayloads}

Remark == Transport!Event("nested", "question.opened", Statement)

\* Every event alone, some after another one, and every way to wrap an answer.
MCAnswers ==
    {Answer(<<event>>) : event \in MCEvents}
    \cup {Answer(<<Remark, event>>) : event \in
             {Decided({}), Decided({"o1"}), Remark,
              Transport!Event("shapeless", NoText, Statement)}}
    \cup {[Answer(<<Remark>>) EXCEPT !.json = json, !.wrapper = wrapper, !.alone = alone,
                                     !.inner = inner] :
             json \in {"object", "list", "none"}, alone \in BOOLEAN,
             wrapper \in {"none", "payload", "payload_json"},
             inner \in {"object", "text", "other", "no JSON"}}

\* The target is a file, or an observation of the slice.
MCContexts ==
    {[task |-> "t1", target |-> target, snapshot |-> "s1", questions |-> {"q2"},
      observations |-> [o \in {"o1"} |->
          [status |-> "proposed", text |-> Text(Said, {}), refs |-> <<Here>>,
           class |-> "direct_code_fact", origin |-> "model_discovered", patterns |-> {}]],
      patterns |-> {}] :
        target \in {[kind |-> "path", value |-> "f1"],
                    [kind |-> "observation", value |-> "o1"]}}

\* The first rule uses up what the second one would find in the first file.
MCScan ==
    [rules |-> <<"r1", "r2">>, per_rule |-> 1, total |-> 1,
     sources |-> {[file |-> "f1", hits |-> [r \in {"r1", "r2"} |->
                                               <<Transport!Lines(3, 3), Transport!Lines(9, 9)>>]],
                  [file |-> "f2", hits |-> [r1 |-> <<>>, r2 |-> <<Transport!Lines(4, 4)>>]]}]

AnswerInputs ==
    {[subject |-> "answer", context |-> context, scan |-> MCScan, answer |-> answer] :
        context \in MCContexts, answer \in MCAnswers}

-----------------------------------------------------------------------------
(* Reports.                                                                *)

MCIssues(findingId) ==
    [i1 |-> [status |-> "open", finding_id |-> NoText, observations |-> {"o1"},
             questions |-> {"q1"}, contradictions |-> {}],
     i2 |-> [status |-> "confirmed", finding_id |-> findingId, observations |-> {"o1"},
             questions |-> {}, contradictions |-> {"x1"}]]

ReportInputs ==
    {[subject |-> "report", appendix |-> appendix,
      state |-> [audit |-> audit,
          observations |-> [o \in {"o1", "o2"} |->
              [status |-> IF o = "o1" THEN first ELSE "verified",
               class |-> IF o = "o1" THEN "direct_code_fact" ELSE class]],
          issues |-> [i \in issues |-> MCIssues(findingId)[i]],
          questions |-> [q1 |-> [status |-> "open"]],
          contradictions |-> contradictions, decisions |-> {},
          candidates |-> [c1 |-> [type |-> "risk_candidate", status |-> "proposed"]]]] :
        appendix \in BOOLEAN, audit \in {"initialized", "reported", "archived"},
        first \in {"verified", "rejected"},
        class \in {"pattern_match", "inferred_hypothesis", NoText},
        issues \in SUBSET {"i1", "i2"},
        findingId \in {NoText, <<"finding_obs", "o2">>, <<"issue", "i1">>},
        contradictions \in {{}, {"x1"}}}

-----------------------------------------------------------------------------
(* Candidates, funnels and errors.                                         *)

LifecycleInputs ==
    {[subject |-> "lifecycle", candidates |-> {"c1", "c2"}, repeated |-> repeated] :
        repeated \in SUBSET {"c1", "c2"}}

MCCodes == {"duplicate_submission", "append_failed", "snapshot_ref_mismatch"}

FunnelInputs ==
    {[subject |-> "funnel",
      answer |-> [output |-> output, json |-> json, schema |-> schema, missing |-> missing,
                  count |-> 0, codes |-> <<>>]] :
        output \in BOOLEAN, json \in BOOLEAN, schema \in BOOLEAN, missing \in BOOLEAN}
    \cup
    {[subject |-> "funnel",
      answer |-> [output |-> TRUE, json |-> TRUE, schema |-> TRUE, missing |-> FALSE,
                  count |-> Len(codes) + accepted, codes |-> codes]] :
        codes \in UNION {[1..n -> MCCodes] : n \in 0..3}, accepted \in {0, 1}}

ErrorInputs ==
    {[subject |-> "error", status |-> status, words |-> words] :
        status \in {0, 401, 429, 503}, words \in SUBSET ToSet(Account!KeywordGroups)}

MCInputs ==
    RoutingInputs \cup PolicyInputs \cup CallInputs \cup SliceInputs \cup AnswerInputs
    \cup ReportInputs \cup LifecycleInputs \cup FunnelInputs \cup ErrorInputs
=============================================================================
