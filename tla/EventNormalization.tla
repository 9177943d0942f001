------------------------- MODULE EventNormalization -------------------------
(***************************************************************************)
(* From what a model answers to the candidate events the runtime judges:   *)
(* the transport normalization of CodexAdapter, and the two passes in      *)
(* which ClaudeAgentSdkAdapter uses it.                                    *)
(*                                                                         *)
(* A payload is a record of the fields the code looks at, text being the   *)
(* statement, prompt, summary or title its type asks for, and scope what   *)
(* only one type of candidate has.  An event is nested (type and payload), *)
(* flat (the fields at the top level, as Claude writes them), internal (it *)
(* has every key of an internal event) or shapeless.  Digests are modelled *)
(* by what they digest; what is copied unseen (a context, a rationale,     *)
(* contradiction ids) is left out.                                         *)
(***************************************************************************)
EXTENDS Evidence

CONSTANTS Raised,    \* a CodexOutputError
          Absent     \* a field the model left out

NoEvidence == [kind |-> "none", items |-> <<>>, observation_ids |-> {}]

\* A payload that says nothing.
Silent ==
    [text |-> NoText, class |-> Absent, origin |-> Absent, override |-> Absent,
     patterns |-> Absent,
     confidence |-> Absent, provenance |-> Absent, source_refs |-> Absent,
     file |-> Absent, range |-> NoRange, evidence |-> NoEvidence, conflicting |-> <<>>,
     question_ids |-> {}, severity |-> NoText, rule_ref |-> NoText,
     candidate_type |-> NoText, scope |-> Absent]

Event(form, type, payload) == [form |-> form, type |-> type, payload |-> payload]

-----------------------------------------------------------------------------
(* Source references.                                                      *)

\* _normalize_line_number takes 7 and "7"; a line is what the number is of.
LineNumber(line) == IF line # NoLine /\ line.n >= 1 THEN line.n ELSE Raised

ItemRef(item, snapshot) ==
    IF item.file = NoText \/ Raised \in {LineNumber(item.start), LineNumber(item.end)}
    THEN Raised
    ELSE Ref(item.file, IF item.snapshot = NoText THEN snapshot ELSE item.snapshot,
             Lines(LineNumber(item.start), LineNumber(item.end)))

\* _extract_transport_source_refs: the first of the four places that has any.
SourceRefs(payload, snapshot) ==
    IF payload.provenance # Absent THEN payload.provenance
    ELSE IF payload.source_refs # Absent THEN payload.source_refs
    ELSE IF payload.file # Absent
    THEN <<Ref(payload.file, snapshot,
               IF ~IsNumbered([range |-> payload.range])
               THEN Lines(1, 1) ELSE payload.range)>>
    ELSE IF payload.evidence.kind # "list" THEN <<>>
    ELSE LET refs == [i \in DOMAIN payload.evidence.items |->
                         ItemRef(payload.evidence.items[i], snapshot)]
         IN  IF Raised \in ToSet(refs) THEN Raised ELSE refs

\* _find_overlapping_pattern_ids
Overlapping(matches, refs) ==
    {m \in matches : \E r \in ToSet(refs) :
        /\ r.file = m.file
        /\ LET range == IF r.range = NoRange THEN Lines(0, 0) ELSE r.range
           IN  m.start <= range.end /\ m.end >= range.start}

\* _resolve_observation_evidence_class
ClassOf(payload, refs) ==
    IF payload.class \in EvidenceClasses THEN payload.class
    ELSE IF payload.class # Absent THEN Raised
    ELSE DerivedClass(refs)

OrElse(value, default) == IF value = Absent THEN default ELSE value

-----------------------------------------------------------------------------
(* _build_internal_entity_payload, one operator for each type: the entity  *)
(* an event is about and its payload, or Raised.                           *)

\* _build_entity_id: a digest that knows nothing of the time.
Id(prefix, input, event, index) ==
    <<prefix, input.task, event.type, event.payload, index>>

Entity(type, id, payload) == [entity_type |-> type, entity |-> id, payload |-> payload]

ProposedObservation(input, event, refs, index) ==
    LET payload == event.payload
        explicit == IF payload.patterns = Absent THEN {} ELSE payload.patterns
        patterns == explicit \cup Overlapping(input.patterns, refs)
        origin == OrElse(payload.origin,
                         IF patterns = {} THEN "model_discovered"
                         ELSE IF explicit = {} THEN "deterministic_pattern"
                         ELSE "mixed_pattern_model")
    IN  IF payload.text = NoText \/ refs = <<>> \/ ClassOf(payload, refs) = Raised
        THEN Raised
        ELSE Entity("observation", Id("obs", input, event, index),
                    [status |-> "proposed", text |-> payload.text, refs |-> refs,
                     class |-> ClassOf(payload, refs), origin |-> origin,
                     patterns |-> patterns,
                     confidence |-> OrElse(payload.confidence,
                                           IF origin = "deterministic_pattern"
                                           THEN "high" ELSE "medium")])

ProposedHypothesis(input, event, refs, index) ==
    IF event.payload.text = NoText THEN Raised
    ELSE Entity("hypothesis", Id("hyp", input, event, index),
                [status |-> "proposed", text |-> event.payload.text, refs |-> refs,
                 confidence |-> OrElse(event.payload.confidence, "medium"),
                 origin |-> OrElse(event.payload.origin, "reader_inference")])

OpenedQuestion(input, event, index) ==
    IF event.payload.text = NoText THEN Raised
    ELSE Entity("question", Id("question", input, event, index),
                [status |-> "open", text |-> event.payload.text,
                 related |-> IF input.target.kind \in {"path", "module"} THEN {}
                             ELSE {input.target}])

(***************************************************************************)
(* A verdict is the target of the task with what the verifier says anew.   *)
(* New references derive the class again unless the verifier names one;    *)
(* how the observation was found stays what it was, whatever they are,     *)
(* unless the verifier says so in a field of its own.                      *)
(***************************************************************************)
Verdict(input, event, refs) ==
    LET payload == event.payload
        target == input.observations[input.target.value]
    IN  IF input.target.value \notin DOMAIN input.observations THEN Raised
        ELSE Entity("observation", input.target.value,
               [target EXCEPT
                  !.status = IF event.type = "observation.verified"
                             THEN "verified" ELSE "rejected",
                  !.text = IF payload.text = NoText THEN @ ELSE payload.text,
                  !.refs = IF refs # <<>> THEN refs ELSE @,
                  !.class = IF payload.class \in EvidenceClasses THEN payload.class
                            ELSE IF refs # <<>> THEN DerivedClass(refs) ELSE @,
                  !.origin = OrElse(payload.override, @),
                  !.patterns = OrElse(payload.patterns, @)])

RegisteredContradiction(input, event, refs, index) ==
    IF Len(event.payload.conflicting) < 2 \/ event.payload.text = NoText THEN Raised
    ELSE Entity("contradiction", Id("contradiction", input, event, index),
                [status |-> "open", text |-> event.payload.text, refs |-> refs,
                 conflicting |-> event.payload.conflicting])

(***************************************************************************)
(* An issue rests on the observations it names, or on the target of the    *)
(* task; every question that is open in the slice is tied to it.           *)
(***************************************************************************)
ProposedIssue(input, event, index) ==
    LET payload == event.payload
        rated == payload.severity # NoText
    IN  IF payload.text = NoText THEN Raised
        ELSE Entity("issue", Id("issue", input, event, index),
               [status |-> "proposed", text |-> payload.text,
                severity |-> payload.severity,
                rule_ref |-> IF rated THEN payload.rule_ref ELSE NoText,
                observation_ids |->
                    IF payload.evidence.observation_ids = {} /\ input.target.kind = "observation"
                    THEN {input.target.value} ELSE payload.evidence.observation_ids,
                question_ids |-> payload.question_ids \cup input.questions])

ProposedCandidate(input, event, refs, index) ==
    LET payload == event.payload
    IN  IF \/ NoText \in {payload.candidate_type, payload.text}
           \/ payload.confidence \notin {"high", "medium", "low"}
        THEN Raised
        ELSE Entity("candidate", Id("candidate", input, event, index),
                    [status |-> "proposed", type |-> payload.candidate_type,
                     text |-> payload.text, confidence |-> payload.confidence,
                     scope |-> payload.scope, refs |-> refs])

EntityOf(input, event, index) ==
    LET refs == SourceRefs(event.payload, input.snapshot)
    IN  IF refs = Raised THEN Raised
        ELSE CASE event.type = "observation.proposed" ->
                      ProposedObservation(input, event, refs, index)
               [] event.type = "hypothesis.proposed" ->
                      ProposedHypothesis(input, event, refs, index)
               [] event.type = "question.opened" -> OpenedQuestion(input, event, index)
               [] event.type \in {"observation.verified", "observation.rejected"} ->
                      Verdict(input, event, refs)
               [] event.type = "contradiction.registered" ->
                      RegisteredContradiction(input, event, refs, index)
               [] event.type = "issue.proposed" -> ProposedIssue(input, event, index)
               [] event.type = "candidate.proposed" ->
                      ProposedCandidate(input, event, refs, index)
               [] OTHER -> Raised

-----------------------------------------------------------------------------
(* One event.                                                              *)

\* What the normalization does not raise a CodexOutputError for.
Normalizes(input, event, index) ==
    \/ event.form = "internal"
    \/ /\ event.type # NoText /\ event.form = "nested"
       /\ EntityOf(input, event, index) # Raised

Internal(input, event, index, time) ==
    LET about == EntityOf(input, event, index)
    IN  [form |-> "internal", type |-> event.type, at |-> time, snapshot |-> input.snapshot,
         id |-> <<input.task, about, time, index>>, about |-> about]

\* An event that was normalized before gets the time it is seen again.
RestampedNormalizedEvent(input, event, index, time) ==
    IF event.form = "internal" THEN [event EXCEPT !.at = time]
    ELSE Internal(input, event, index, time)

(***************************************************************************)
(* _normalize_transport_candidate_event.  The payload in the event's id    *)
(* holds the time, so the id and the idempotency key of an event differ    *)
(* from one run of a task to the next; the id of the entity does not.  The *)
(* defaults an internal hypothesis without a confidence gets are left out. *)
(***************************************************************************)
NormalizedEvent(input, event, index, time) ==
    IF event.form = "internal" THEN event ELSE Internal(input, event, index, time)

-----------------------------------------------------------------------------
(* Codex: one event that cannot be read ends the run.                      *)

(***************************************************************************)
(* An answer: whether it is JSON, whether its events are wrapped, alone in *)
(* their wrapper, and whether the wrapper holds an object, the text of     *)
(* one, the text of something else, or text that is no JSON.               *)
(***************************************************************************)
CodexReads(answer) ==
    /\ answer.json = "object"
    /\ answer.wrapper # "none" => answer.alone
    /\ answer.wrapper = "payload_json" => answer.inner = "text"
    /\ answer.wrapper = "payload" => answer.inner \in {"object", "text"}

CodexEvents(input, answer, time) ==
    IF /\ CodexReads(answer)
       /\ \A i \in DOMAIN answer.events : Normalizes(input, answer.events[i], i)
    THEN [i \in DOMAIN answer.events |-> NormalizedEvent(input, answer.events[i], i, time)]
    ELSE Raised

-----------------------------------------------------------------------------
(* Claude: what cannot be read is handed on as it is.                      *)

\* A wrapping that does not ask whether there is anything to wrap.
GreedyWrapped(event) ==
    IF event.form = "internal" \/ event.type = NoText THEN event
    ELSE Event("nested", event.type, [event.payload EXCEPT !.confidence = Absent])

(***************************************************************************)
(* _ensure_transport_format moves the fields of a flat event into a        *)
(* payload, all but the confidence; an evidence object becomes a list with *)
(* one item, also the object in which an issue names its observations.     *)
(***************************************************************************)
Wrapped(event) ==
    IF event.form # "flat" \/ event.type = NoText THEN event
    ELSE Event("nested", event.type,
               [event.payload EXCEPT !.confidence = Absent,
                   !.evidence = CASE @.kind = "object" -> [@ EXCEPT !.kind = "list"]
                                  [] @.kind = "ids" ->
                                         [kind |-> "list", observation_ids |-> {},
                                          items |-> <<[file |-> NoText, snapshot |-> NoText,
                                                       start |-> NoLine, end |-> NoLine]>>]
                                  [] OTHER -> @])

\* One pass of OutputNormalizer.normalize or of _convert_to_codex_result.
Pass(input, events, time) ==
    [i \in DOMAIN events |->
        IF Normalizes(input, Wrapped(events[i]), i)
        THEN NormalizedEvent(input, Wrapped(events[i]), i, time) ELSE events[i]]

\* JSON of another shape than expected is an error, text that is no JSON is not.
ClaudeReads(answer) ==
    /\ answer.json = "object"
    /\ answer.wrapper # "none" =>
           answer.inner = (IF answer.wrapper = "payload_json" THEN "text" ELSE "object")

ClaudeFails(answer) ==
    /\ answer.json = "object"
    /\ \/ answer.wrapper = "payload_json" /\ answer.inner \in {"object", "other"}
       \/ answer.wrapper = "payload" /\ answer.inner # "object"

\* The events of the result: normalized by the adapter, and once more for the runtime.
ClaudeEvents(input, answer, time, later) ==
    IF ~ClaudeReads(answer) THEN <<>>
    ELSE Pass(input, Pass(input, answer.events, time), later)
=============================================================================
