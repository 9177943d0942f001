--------------------------- MODULE SliceSelection ---------------------------
(***************************************************************************)
(* What a worker is shown of the canonical state: MemorySliceBuilder of    *)
(* runtime/slice_builder.py.                                               *)
(*                                                                         *)
(* Identifiers are numbers, since the limits keep those that sort first.   *)
(* A file is the sequence of its path's segments; a path stands for all    *)
(* files it is a prefix of.  Texts, constraints and policy are passed on   *)
(* and left out, and there is one audit.                                   *)
(***************************************************************************)
EXTENDS Naturals, Sequences, FiniteSets, SequencesExt

CONSTANTS
    MaxEvidence,    \* MAX_EVIDENCE_NODES
    MaxRelated,     \* MAX_RELATED_HYPOTHESES
    Raised          \* no slice can be built

\* sorted(ids)[:n]
First(ids, n) == {i \in ids : Cardinality({j \in ids : j < i}) < n}

Target(kind, value) == [kind |-> kind, value |-> value]

IsActive(hypothesis) == hypothesis.status \in {"proposed", "in_verification"}

IsUnder(files, path) == \E f \in files : IsPrefix(path, f)

-----------------------------------------------------------------------------
(* Observations.                                                           *)

\* The references to observations among the entities something is about.
ObservationsAmong(refs) == {r.value : r \in {r \in refs : r.kind = "observation"}}

(***************************************************************************)
(* The observations that the related hypotheses of one kind add, known     *)
(* being what each hypothesis rests on.  The budget is looked at after a   *)
(* hypothesis was added, so the last one may exceed it, and one that does  *)
(* not exist is no occasion to look.                                       *)
(***************************************************************************)
Extend(done, h) ==
    IF done.full \/ h \notin DOMAIN done.known THEN done
    ELSE LET more == done.ids \cup done.known[h]
         IN  [done EXCEPT !.ids = more, !.full = Cardinality(more) > MaxEvidence]

Extended(known, ids, related) ==
    FoldLeft(Extend, [known |-> known, ids |-> ids, full |-> FALSE], related).ids

EvidenceOf(state, hypothesis) ==
    LET known == [h \in DOMAIN state.hypotheses |-> state.hypotheses[h].observations]
        direct == hypothesis.observations \cup hypothesis.basis
        supported == Extended(known, direct, hypothesis.supporting)
    IN  IF Cardinality(supported) > MaxEvidence THEN supported
        ELSE Extended(known, supported, hypothesis.contradicting)

\* The entities of the state a target of this kind must be one of.
Among(state, kind) ==
    CASE kind = "observation"   -> DOMAIN state.observations
      [] kind = "hypothesis"    -> DOMAIN state.hypotheses
      [] kind = "issue"         -> DOMAIN state.issues
      [] kind = "question"      -> DOMAIN state.questions
      [] kind = "contradiction" -> DOMAIN state.contradictions

\* _select_relevant_observations; what does not exist is skipped after the cut.
Observations(state, target) ==
    LET known(ids) == ids \cap DOMAIN state.observations
        v == target.value
    IN  CASE target.kind \in {"path", "module"} ->
                 {o \in DOMAIN state.observations : IsUnder(state.observations[o].files, v)}
          [] target.kind = "audit" -> {}
          [] target.kind = "candidate" -> Raised
          [] OTHER ->
                 IF v \notin Among(state, target.kind) THEN Raised
                 ELSE CASE target.kind = "observation" -> {v}
                        [] target.kind = "issue" -> known(state.issues[v].observations)
                        [] target.kind = "question" ->
                               known(ObservationsAmong(state.questions[v].about))
                        [] target.kind = "contradiction" ->
                               known(ObservationsAmong(state.contradictions[v].about))
                        [] target.kind = "hypothesis" ->
                               known(First(EvidenceOf(state, state.hypotheses[v]), MaxEvidence))

-----------------------------------------------------------------------------
(* Hypotheses.                                                             *)

\* Related hypotheses that were decided are no longer shown.
ActiveRelated(state, target) ==
    LET hypothesis == state.hypotheses[target]
        named == ToSet(hypothesis.supporting \o hypothesis.contradicting) \ {target}
    IN  First({h \in named \cap DOMAIN state.hypotheses : IsActive(state.hypotheses[h])},
              MaxRelated)

\* The hypotheses the target names, whatever became of them.
Related(state, target) ==
    LET hypothesis == state.hypotheses[target]
        named == ToSet(hypothesis.supporting \o hypothesis.contradicting) \ {target}
    IN  First(named \cap DOMAIN state.hypotheses, MaxRelated)

\* Those that rest on an observation it rests on, as far as there is room.
Sharing(state, target, related) ==
    First({h \in DOMAIN state.hypotheses \ (related \cup {target}) :
               /\ IsActive(state.hypotheses[h])
               /\ state.hypotheses[h].observations
                      \cap state.hypotheses[target].observations # {}},
          MaxRelated - Cardinality(related))

\* _select_relevant_hypotheses; issues and questions have none.
Hypotheses(state, target) ==
    LET related == Related(state, target.value)
        active == {h \in DOMAIN state.hypotheses : IsActive(state.hypotheses[h])}
    IN  CASE target.kind = "hypothesis" ->
                 {target.value} \cup related \cup Sharing(state, target.value, related)
          [] target.kind \in {"path", "module"} ->
                 {h \in active : IsUnder(state.hypotheses[h].files, target.value)}
          [] target.kind = "observation" ->
                 {h \in active : target.value \in state.hypotheses[h].observations}
          [] OTHER -> {}

\* _build_contradiction_candidates
ContradictionCandidates(state, target, hypotheses) ==
    IF target.kind # "hypothesis" THEN {}
    ELSE {h \in hypotheses \cap ToSet(state.hypotheses[target.value].contradicting) :
              state.hypotheses[h].status = "supported"}

-----------------------------------------------------------------------------
(* Questions, files, and the slice.                                        *)

\* _question_is_relevant
IsRelevant(state, q, target, observations) ==
    \/ target = Target("question", q)
    \/ target \in state.questions[q].about
    \/ ObservationsAmong(state.questions[q].about) \cap observations # {}

Questions(state, target, observations, status) ==
    {q \in DOMAIN state.questions :
        state.questions[q].status = status /\ IsRelevant(state, q, target, observations)}

TargetPaths(state, target, observations) ==
    UNION {state.observations[o].files : o \in observations}
    \cup (IF target.kind \in {"path", "module"} THEN {target.value} ELSE {})

\* _build_target_sources: only a scan is given texts, of what the snapshot holds.
TargetSources(type, target, paths, readable) ==
    IF type # "module_scan" \/ target.kind \notin {"path", "module"} THEN {}
    ELSE {f \in readable : \E p \in paths : IsPrefix(p, f)}

Slice(state, type, target, readable) ==
    LET observations == Observations(state, target)
        hypotheses == Hypotheses(state, target)
        paths == TargetPaths(state, target, observations)
    IN  IF observations = Raised THEN Raised
        ELSE [observations |-> observations, hypotheses |-> hypotheses, paths |-> paths,
              sources |-> TargetSources(type, target, paths, readable),
              open |-> Questions(state, target, observations, "open"),
              answered |-> Questions(state, target, observations, "answered"),
              contradictions |-> ContradictionCandidates(state, target, hypotheses)]
=============================================================================
