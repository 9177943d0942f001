-------------------------- MODULE Canonicalization --------------------------
(***************************************************************************)
(* runtime/canonicalization.py: the identity of what an event says.  Every *)
(* candidate event goes through it before it is validated, so it decides   *)
(* which events are the same event and which entities the same entity.     *)
(*                                                                         *)
(* Events are those of EventNormalization.  A text is a record of its      *)
(* wording, its spacing and its tokens, the identifiers and stemmed words  *)
(* that are no stop words; a digest is what it digests; lists that are     *)
(* sorted before they are compared are compared as bags.                   *)
(***************************************************************************)
EXTENDS Evidence

CONSTANT Refused    \* a CanonicalizationError

CanonicalTypes ==
    {"observation.proposed", "observation.verified", "observation.rejected",
     "hypothesis.proposed", "hypothesis.sent_to_verification", "hypothesis.supported",
     "hypothesis.rejected", "question.opened", "issue.proposed", "candidate.proposed"}

ProposingTypes ==
    {"observation.proposed", "hypothesis.proposed", "question.opened", "issue.proposed",
     "candidate.proposed"}

CandidateTypes ==
    {"risk_candidate", "policy_candidate", "cross_file_correlation", "verification_target"}

-----------------------------------------------------------------------------
(* Texts and references.                                                   *)

\* normalize_display_text
Displayed(text) == IF text = NoText THEN NoText ELSE [text EXCEPT !.spacing = "single"]

\* canonical_text_identity: the tokens, or the wording of a text that has none.
TextIdentity(text) ==
    IF text = NoText THEN {}
    ELSE IF text.tokens = {} THEN {Displayed(text)} ELSE text.tokens

\* canonical_source_ref_identities keeps what has two line numbers, repeated or not.
KeepNumbered(kept, ref) == IF IsNumbered(ref) THEN Append(kept, ref) ELSE kept

Stored(refs) == FoldLeft(KeepNumbered, <<>>, refs)

RefIdentities(refs) ==
    [r \in {r \in ToSet(refs) : IsNumbered(r)} |->
        Cardinality({i \in DOMAIN refs : refs[i] = r})]

-----------------------------------------------------------------------------
(* Meaning.                                                                *)

(***************************************************************************)
(* canonical_candidate_fingerprint.  A verification target is known by     *)
(* what it is to verify, whatever it claims; a correlation by its files,   *)
(* whatever its references.                                                *)
(***************************************************************************)
CandidateMeaning(payload) ==
    CASE payload.type \in {"risk_candidate", "policy_candidate"} ->
             <<payload.type, TextIdentity(payload.text), payload.scope,
               RefIdentities(payload.refs)>>
      [] payload.type = "cross_file_correlation" ->
             <<payload.type, TextIdentity(payload.text), payload.scope>>
      [] payload.type = "verification_target" ->
             <<payload.type, payload.scope, RefIdentities(payload.refs)>>

\* An unknown type, and an event that decides on a hypothesis, mean all they say.
HasMeaning(event) ==
    \/ event.type \in ProposingTypes \ {"candidate.proposed"}
    \/ event.type \in {"observation.verified", "observation.rejected"}
    \/ event.type = "candidate.proposed" /\ event.about.payload.type \in CandidateTypes

\* An observation is known by where it is from and when it was made.
DatedMeaning(event) == <<event.about, event.at>>

\* The semantic_payload of build_event_fingerprint.
Meaning(event) ==
    LET payload == event.about.payload
    IN  IF ~HasMeaning(event) THEN <<event.about, event.at>>
        ELSE CASE event.type = "observation.proposed" ->
                      <<TextIdentity(payload.text), payload.class,
                        RefIdentities(payload.refs)>>
               [] event.type \in {"observation.verified", "observation.rejected"} ->
                      <<event.about.entity, payload.status, TextIdentity(payload.text),
                        payload.class, RefIdentities(payload.refs)>>
               [] event.type = "hypothesis.proposed" ->
                      <<TextIdentity(payload.text), RefIdentities(payload.refs)>>
               [] event.type = "question.opened" ->
                      <<TextIdentity(payload.text), payload.related>>
               [] event.type = "issue.proposed" ->
                      <<TextIdentity(payload.text), payload.observation_ids,
                        payload.question_ids, payload.severity, payload.rule_ref>>
               [] event.type = "candidate.proposed" -> CandidateMeaning(payload)

\* _canonical_entity_id: a candidate is the same one in every snapshot.
EntityId(event) ==
    IF event.type \notin ProposingTypes \/ ~HasMeaning(event) THEN event.about.entity
    ELSE IF event.type = "candidate.proposed"
    THEN <<event.about.entity_type, Meaning(event)>>
    ELSE <<event.about.entity_type, event.snapshot, Meaning(event)>>

-----------------------------------------------------------------------------
(* canonicalize_event.                                                     *)

\* _normalize_payload_display_fields and _normalize_payload_arrays
Normalized(event) ==
    [event EXCEPT !.about.payload = [f \in DOMAIN @ |->
        CASE f = "text" -> Displayed(@[f]) [] f = "refs" -> Stored(@[f]) [] OTHER -> @[f]]]

\* _validate_supported_hypothesis_evidence
IsFounded(event) ==
    event.type = "hypothesis.supported" => event.about.payload.supporting_observations # {}

Canonical(event) ==
    LET normal == Normalized(event)
        meaning == <<event.type, event.about.entity_type, event.snapshot, Meaning(normal)>>
    IN  IF event.type \notin CanonicalTypes THEN normal
        ELSE IF ~IsFounded(event) THEN Refused
        ELSE [normal EXCEPT !.about.entity = EntityId(normal),
                            !.id = <<"semantic", meaning>>]

\* semantic_equivalent
Equivalent(e, f) ==
    /\ e.type = f.type /\ e.snapshot = f.snapshot
    /\ e.about.entity_type = f.about.entity_type
    /\ Meaning(Normalized(e)) = Meaning(Normalized(f))
=============================================================================
