------------------------- MODULE AuditEventsProofs -------------------------
(***************************************************************************)
(* What TLAPS proves of AuditEvents, for any number of entities, any set   *)
(* of actors and any classification of evidence.                           *)
(***************************************************************************)
EXTENDS AuditEvents, TLAPS

USE DEF Admits, Append

(***************************************************************************)
(* Everything the gate accepts has the shape the schemas give it: the      *)
(* projected collections and the ledger keep their types.                  *)
(***************************************************************************)
THEOREM TypeCorrect == Spec => []TypeOK
<1>1. Init => TypeOK
  <2> SUFFICES ASSUME Init PROVE TypeOK
    OBVIOUS
  <2>1. audit \in AuditState
    BY DEF Init, AuditState, StatusesOf, AuditTransitions
  <2>2. observations \in [Observations -> Observation]
    BY DEF Init, Observation, StatusesOf
  <2>3. issues \in [Issues -> Issue]
    BY DEF Init, Issue, StatusesOf
  <2>4. contradictions \in [Contradictions -> Contradiction]
    BY DEF Init, Contradiction, StatusesOf
  <2>5. candidates \in [Candidates -> Candidate]
    BY DEF Init, Candidate, StatusesOf
  <2>6. plain \in [Plain -> PlainStatuses]
    BY DEF Init, PlainStatuses, StatusesOf
  <2>7. ledger \subseteq AcceptedEvent
    <3>1. "audit.created" \in SchemaEventTypes
      BY DEF SchemaEventTypes, TypesOf, AuditTransitions
    <3>2. Audit \in Entities /\ "system" \in Actors
      BY ConstantsAssumption DEF Entities
    <3> QED
      BY <3>1, <3>2 DEF Init, AcceptedEvent
  <2> QED
    BY <2>1, <2>2, <2>3, <2>4, <2>5, <2>6, <2>7 DEF TypeOK
<1>2. TypeOK /\ [Next]_vars => TypeOK'
  <2> SUFFICES ASSUME TypeOK, [Next]_vars PROVE TypeOK'
    OBVIOUS
  <2>1. ASSUME NEW actor \in Actors, NEW type,
               NEW status \in StatusesOf(AuditTransitions),
               NEW snapshot \in Snapshots \cup {NoRef},
               UpdateAudit(actor, type, status, snapshot)
        PROVE  TypeOK'
    <3>1. audit' \in AuditState
      BY <2>1 DEF UpdateAudit, AuditState
    <3>2. ledger' \subseteq AcceptedEvent
      BY <2>1 DEF UpdateAudit, AcceptedEvent, TypeOK, Entities
    <3> QED
      BY <2>1, <3>1, <3>2 DEF UpdateAudit, TypeOK
  <2>2. ASSUME NEW actor \in Actors, NEW type, NEW o \in Observations,
               NEW payload \in SubmittedObservations,
               AcceptObservation(actor, type, o, payload)
        PROVE  TypeOK'
    <3>1. observations' \in [Observations -> Observation]
      BY <2>2 DEF AcceptObservation, SubmittedObservations, TypeOK
    <3>2. ledger' \subseteq AcceptedEvent
      BY <2>2 DEF AcceptObservation, AcceptedEvent, TypeOK, Entities
    <3> QED
      BY <2>2, <3>1, <3>2 DEF AcceptObservation, TypeOK
  <2>3. ASSUME NEW actor \in Actors, NEW type, NEW i \in Issues, NEW payload \in Issue,
               AcceptIssue(actor, type, i, payload)
        PROVE  TypeOK'
    <3>1. issues' \in [Issues -> Issue]
      BY <2>3 DEF AcceptIssue, TypeOK
    <3>2. ledger' \subseteq AcceptedEvent
      BY <2>3 DEF AcceptIssue, AcceptedEvent, TypeOK, Entities
    <3> QED
      BY <2>3, <3>1, <3>2 DEF AcceptIssue, TypeOK
  <2>4. ASSUME NEW actor \in Actors, NEW type, NEW x \in Contradictions,
               NEW payload \in SubmittedContradictions,
               AcceptContradiction(actor, type, x, payload)
        PROVE  TypeOK'
    <3>1. SidesOfContradictions \subseteq SUBSET Entities
      BY DEF SidesOfContradictions
    <3>2. payload \in Contradiction
      BY <3>1 DEF SubmittedContradictions, Contradiction
    <3>3. contradictions' \in [Contradictions -> Contradiction]
      BY <2>4, <3>2 DEF AcceptContradiction, TypeOK
    <3>4. ledger' \subseteq AcceptedEvent
      BY <2>4 DEF AcceptContradiction, AcceptedEvent, TypeOK, Entities
    <3> QED
      BY <2>4, <3>3, <3>4 DEF AcceptContradiction, TypeOK
  <2>5. ASSUME NEW actor \in Actors, NEW type, NEW c \in Candidates,
               NEW payload \in Candidate,
               AcceptCandidate(actor, type, c, payload)
        PROVE  TypeOK'
    <3>1. candidates' \in [Candidates -> Candidate]
      BY <2>5 DEF AcceptCandidate, TypeOK
    <3>2. ledger' \subseteq AcceptedEvent
      BY <2>5 DEF AcceptCandidate, AcceptedEvent, TypeOK, Entities
    <3> QED
      BY <2>5, <3>1, <3>2 DEF AcceptCandidate, TypeOK
  <2>6. ASSUME NEW actor \in Actors, NEW x \in Plain, NEW type,
               NEW status \in PlainStatuses,
               AcceptPlain(actor, type, x, status)
        PROVE  TypeOK'
    <3>1. plain' \in [Plain -> PlainStatuses]
      BY <2>6 DEF AcceptPlain, TypeOK
    <3>2. ledger' \subseteq AcceptedEvent
      BY <2>6 DEF AcceptPlain, AcceptedEvent, TypeOK, Entities
    <3> QED
      BY <2>6, <3>1, <3>2 DEF AcceptPlain, TypeOK
  <2>7. CASE UNCHANGED vars
    BY <2>7 DEF vars, TypeOK
  <2> QED
    BY <2>1, <2>2, <2>3, <2>4, <2>5, <2>6, <2>7 DEF Next
<1> QED
  BY <1>1, <1>2, PTL DEF Spec

-----------------------------------------------------------------------------
(***************************************************************************)
(* An event is about one entity: a collection only changes in a step that  *)
(* accepts an event about one of its members.                              *)
(***************************************************************************)
LEMMA StepsAreAboutOneEntity ==
    ASSUME [Next]_vars
    PROVE  /\ \/ UNCHANGED audit
              \/ \E actor, type, status, snapshot : UpdateAudit(actor, type, status, snapshot)
           /\ \/ UNCHANGED observations
              \/ \E actor \in Actors, o \in Observations, payload \in SubmittedObservations :
                    \E type : AcceptObservation(actor, type, o, payload)
           /\ \/ UNCHANGED issues
              \/ \E actor \in Actors, i \in Issues, payload \in Issue :
                    \E type : AcceptIssue(actor, type, i, payload)
           /\ \/ UNCHANGED contradictions
              \/ \E actor \in Actors, x \in Contradictions, payload \in SubmittedContradictions :
                    \E type : AcceptContradiction(actor, type, x, payload)
           /\ \/ UNCHANGED candidates
              \/ \E actor \in Actors, c \in Candidates, payload \in Candidate :
                    \E type : AcceptCandidate(actor, type, c, payload)
<1>1. \A actor, type, x, y :
          /\ UpdateAudit(actor, type, x, y) =>
                 UNCHANGED <<observations, issues, contradictions, candidates>>
          /\ AcceptObservation(actor, type, x, y) =>
                 UNCHANGED <<audit, issues, contradictions, candidates>>
          /\ AcceptIssue(actor, type, x, y) =>
                 UNCHANGED <<audit, observations, contradictions, candidates>>
          /\ AcceptContradiction(actor, type, x, y) =>
                 UNCHANGED <<audit, observations, issues, candidates>>
          /\ AcceptCandidate(actor, type, x, y) =>
                 UNCHANGED <<audit, observations, issues, contradictions>>
          /\ AcceptPlain(actor, type, x, y) =>
                 UNCHANGED <<audit, observations, issues, contradictions, candidates>>
  BY DEF UpdateAudit, AcceptObservation, AcceptIssue, AcceptContradiction, AcceptCandidate,
         AcceptPlain
<1>2. CASE UNCHANGED vars
  BY <1>2 DEF vars
<1>3. CASE Next
  <2>1. PICK actor \in Actors :
            \/ \E type, status, snapshot : UpdateAudit(actor, type, status, snapshot)
            \/ \E o \in Observations, payload \in SubmittedObservations :
                   \E type : AcceptObservation(actor, type, o, payload)
            \/ \E i \in Issues, payload \in Issue :
                   \E type : AcceptIssue(actor, type, i, payload)
            \/ \E x \in Contradictions, payload \in SubmittedContradictions :
                   \E type : AcceptContradiction(actor, type, x, payload)
            \/ \E c \in Candidates, payload \in Candidate :
                   \E type : AcceptCandidate(actor, type, c, payload)
            \/ \E x \in Plain : \E type, status : AcceptPlain(actor, type, x, status)
    BY <1>3 DEF Next
  <2>2. CASE \E type, status, snapshot : UpdateAudit(actor, type, status, snapshot)
    BY <1>1, <2>2
  <2>3. CASE \E o \in Observations, payload \in SubmittedObservations :
                   \E type : AcceptObservation(actor, type, o, payload)
    BY <1>1, <2>3
  <2>4. CASE \E i \in Issues, payload \in Issue :
                   \E type : AcceptIssue(actor, type, i, payload)
    BY <1>1, <2>4
  <2>5. CASE \E x \in Contradictions, payload \in SubmittedContradictions :
                   \E type : AcceptContradiction(actor, type, x, payload)
    BY <1>1, <2>5
  <2>6. CASE \E c \in Candidates, payload \in Candidate :
                   \E type : AcceptCandidate(actor, type, c, payload)
    BY <1>1, <2>6
  <2>7. CASE \E x \in Plain : \E type, status : AcceptPlain(actor, type, x, status)
    BY <1>1, <2>7
  <2> QED
    BY <2>1, <2>2, <2>3, <2>4, <2>5, <2>6, <2>7
<1> QED
  BY <1>2, <1>3

(***************************************************************************)
(* Once an observation is verified no admitted event names it, so a step   *)
(* leaves what issues rest on as it was.                                   *)
(***************************************************************************)
LEMMA VerifiedObservationsStay ==
    ASSUME TypeOK, [Next]_vars, NEW o \in Observations, observations[o].status = "verified"
    PROVE  observations'[o] = observations[o]
<1>1. ASSUME NEW actor \in Actors, NEW type, NEW p \in Observations,
             NEW payload \in SubmittedObservations,
             AcceptObservation(actor, type, p, payload)
      PROVE  observations'[o] = observations[o]
  <2>1. p # o
    BY <1>1 DEF AcceptObservation, ObservationTransitions
  <2> QED
    BY <1>1, <2>1 DEF AcceptObservation, TypeOK
<1>2. CASE UNCHANGED observations
  BY <1>2
<1> QED
  BY <1>1, <1>2, StepsAreAboutOneEntity

(***************************************************************************)
(* A finding never rests on an unverified or inadmissible observation, at  *)
(* the moment it is accepted or at any later one.                          *)
(***************************************************************************)
THEOREM FindingsRestOnVerifiedFacts == Spec => []IssuesRestOnVerifiedFacts
<1>1. Init => IssuesRestOnVerifiedFacts
  BY DEF Init, IssuesRestOnVerifiedFacts
<1>2. TypeOK /\ IssuesRestOnVerifiedFacts /\ [Next]_vars => IssuesRestOnVerifiedFacts'
  <2> SUFFICES ASSUME TypeOK, IssuesRestOnVerifiedFacts, [Next]_vars,
                      NEW i \in Issues, issues'[i].status \in {"proposed", "accepted"}
               PROVE  /\ issues'[i].observation_ids # {}
                      /\ \A o \in issues'[i].observation_ids :
                            /\ observations'[o].status = "verified"
                            /\ observations'[o].evidence_class \in AllowedEvidenceClasses
    BY DEF IssuesRestOnVerifiedFacts
  <2>1. CASE issues'[i] = issues[i]
    <3>1. issues[i].observation_ids \subseteq Observations
      BY DEF TypeOK, Issue
    <3> QED
      BY <2>1, <3>1, VerifiedObservationsStay DEF IssuesRestOnVerifiedFacts
  <2>2. ASSUME NEW actor \in Actors, NEW type, NEW j \in Issues, NEW payload \in Issue,
               AcceptIssue(actor, type, j, payload), issues'[i] # issues[i]
        PROVE  /\ issues'[i].observation_ids # {}
               /\ \A o \in issues'[i].observation_ids :
                     /\ observations'[o].status = "verified"
                     /\ observations'[o].evidence_class \in AllowedEvidenceClasses
    <3>1. j = i /\ issues'[i] = payload
      BY <2>2 DEF AcceptIssue, TypeOK
    <3>2. type \in {"issue.proposed", "issue.accepted"}
      BY <2>2, <3>1 DEF AcceptIssue, IssueTransitions
    <3> QED
      BY <2>2, <3>1, <3>2 DEF AcceptIssue, Evidenced
  <2> QED
    BY <2>1, <2>2, StepsAreAboutOneEntity
<1> QED
  BY <1>1, <1>2, TypeCorrect, PTL DEF Spec

-----------------------------------------------------------------------------
\* An entity with an outcome is no longer named by any admitted event.
LEMMA FinalStep ==
    ASSUME TypeOK, [Next]_vars
    PROVE  /\ \A o \in Observations : observations[o].status \in {"verified", "rejected"} =>
                  observations'[o] = observations[o]
           /\ \A i \in Issues : issues[i].status \in {"rejected", "closed"} =>
                  issues'[i] = issues[i]
           /\ \A x \in Contradictions : contradictions[x].status = "resolved" =>
                  contradictions'[x] = contradictions[x]
           /\ \A c \in Candidates : candidates[c].status \in {"rejected", "resolved_promoted"} =>
                  candidates'[c] = candidates[c]
           /\ audit.status \in {"completed", "cancelled"} => audit' = audit
<1>1. ASSUME NEW actor, NEW type, NEW status, NEW snapshot,
             UpdateAudit(actor, type, status, snapshot)
      PROVE  audit.status \notin {"completed", "cancelled"}
  BY <1>1 DEF UpdateAudit, AuditTransitions
<1>2. ASSUME NEW actor, NEW type, NEW p \in Observations, NEW payload, NEW o \in Observations,
             AcceptObservation(actor, type, p, payload),
             observations[o].status \in {"verified", "rejected"}
      PROVE  observations'[o] = observations[o]
  <2>1. p # o
    BY <1>2 DEF AcceptObservation, ObservationTransitions
  <2> QED
    BY <1>2, <2>1 DEF AcceptObservation, TypeOK
<1>3. ASSUME NEW actor, NEW type, NEW j \in Issues, NEW payload, NEW i \in Issues,
             AcceptIssue(actor, type, j, payload),
             issues[i].status \in {"rejected", "closed"}
      PROVE  issues'[i] = issues[i]
  <2>1. j # i
    BY <1>3 DEF AcceptIssue, IssueTransitions
  <2> QED
    BY <1>3, <2>1 DEF AcceptIssue, TypeOK
<1>4. ASSUME NEW actor, NEW type, NEW y \in Contradictions, NEW payload,
             NEW x \in Contradictions,
             AcceptContradiction(actor, type, y, payload),
             contradictions[x].status = "resolved"
      PROVE  contradictions'[x] = contradictions[x]
  <2>1. y # x
    BY <1>4 DEF AcceptContradiction, ContradictionTransitions
  <2> QED
    BY <1>4, <2>1 DEF AcceptContradiction, TypeOK
<1>5. ASSUME NEW actor, NEW type, NEW d \in Candidates, NEW payload, NEW c \in Candidates,
             AcceptCandidate(actor, type, d, payload),
             candidates[c].status \in {"rejected", "resolved_promoted"}
      PROVE  candidates'[c] = candidates[c]
  <2>1. d # c
    BY <1>5 DEF AcceptCandidate, CandidateTransitions
  <2> QED
    BY <1>5, <2>1 DEF AcceptCandidate, TypeOK
<1>6. \A o \in Observations : observations[o].status \in {"verified", "rejected"} =>
          observations'[o] = observations[o]
  BY <1>2, StepsAreAboutOneEntity
<1>7. \A i \in Issues : issues[i].status \in {"rejected", "closed"} =>
          issues'[i] = issues[i]
  BY <1>3, StepsAreAboutOneEntity
<1>8. \A x \in Contradictions : contradictions[x].status = "resolved" =>
          contradictions'[x] = contradictions[x]
  BY <1>4, StepsAreAboutOneEntity
<1>9. \A c \in Candidates : candidates[c].status \in {"rejected", "resolved_promoted"} =>
          candidates'[c] = candidates[c]
  BY <1>5, StepsAreAboutOneEntity
<1>10. audit.status \in {"completed", "cancelled"} => audit' = audit
  BY <1>1, StepsAreAboutOneEntity
<1> QED
  BY <1>6, <1>7, <1>8, <1>9, <1>10

(***************************************************************************)
(* No accepted event ever changes an entity that has reached an outcome.   *)
(***************************************************************************)
THEOREM OutcomesNeverChange == Spec => OutcomesAreFinal
<1>1. TypeOK /\ [Next]_vars =>
        [ /\ \A o \in Observations : observations[o].status \in {"verified", "rejected"} =>
                  observations'[o] = observations[o]
          /\ \A i \in Issues : issues[i].status \in {"rejected", "closed"} =>
                  issues'[i] = issues[i]
          /\ \A x \in Contradictions : contradictions[x].status = "resolved" =>
                  contradictions'[x] = contradictions[x]
          /\ \A c \in Candidates : candidates[c].status \in {"rejected", "resolved_promoted"} =>
                  candidates'[c] = candidates[c]
          /\ audit.status \in {"completed", "cancelled"} => audit' = audit ]_vars
  BY FinalStep
<1> QED
  BY <1>1, TypeCorrect, PTL DEF Spec, OutcomesAreFinal

-----------------------------------------------------------------------------
\* Nothing that was accepted is ever removed from the canonical state.
LEMMA ExistingGrows ==
    ASSUME TypeOK, [Next]_vars
    PROVE  Existing \subseteq Existing'
<1>1. ASSUME NEW actor, NEW type, NEW status, NEW snapshot,
             UpdateAudit(actor, type, status, snapshot)
      PROVE  Existing \subseteq Existing'
  BY <1>1 DEF UpdateAudit, AuditTransitions, Existing
<1>2. ASSUME NEW actor, NEW type, NEW o \in Observations, NEW payload,
             AcceptObservation(actor, type, o, payload)
      PROVE  Existing \subseteq Existing'
  <2>1. payload.status # "absent"
    BY <1>2 DEF AcceptObservation, ObservationTransitions
  <2>2. \A p \in Observations : observations[p].status # "absent"
                                    => observations'[p].status # "absent"
    BY <1>2, <2>1 DEF AcceptObservation, TypeOK
  <2> QED
    BY <1>2, <2>2 DEF AcceptObservation, Existing
<1>3. ASSUME NEW actor, NEW type, NEW i \in Issues, NEW payload,
             AcceptIssue(actor, type, i, payload)
      PROVE  Existing \subseteq Existing'
  <2>1. payload.status # "absent"
    BY <1>3 DEF AcceptIssue, IssueTransitions
  <2>2. \A j \in Issues : issues[j].status # "absent" => issues'[j].status # "absent"
    BY <1>3, <2>1 DEF AcceptIssue, TypeOK
  <2> QED
    BY <1>3, <2>2 DEF AcceptIssue, Existing
<1>4. ASSUME NEW actor, NEW type, NEW x \in Contradictions, NEW payload,
             AcceptContradiction(actor, type, x, payload)
      PROVE  Existing \subseteq Existing'
  <2>1. payload.status # "absent"
    BY <1>4 DEF AcceptContradiction, ContradictionTransitions
  <2>2. \A y \in Contradictions : contradictions[y].status # "absent"
                                      => contradictions'[y].status # "absent"
    BY <1>4, <2>1 DEF AcceptContradiction, TypeOK
  <2> QED
    BY <1>4, <2>2 DEF AcceptContradiction, Existing
<1>5. ASSUME NEW actor, NEW type, NEW c \in Candidates, NEW payload,
             AcceptCandidate(actor, type, c, payload)
      PROVE  Existing \subseteq Existing'
  <2>1. payload.status # "absent"
    BY <1>5 DEF AcceptCandidate, CandidateTransitions
  <2>2. \A d \in Candidates : candidates[d].status # "absent"
                                  => candidates'[d].status # "absent"
    BY <1>5, <2>1 DEF AcceptCandidate, TypeOK
  <2> QED
    BY <1>5, <2>2 DEF AcceptCandidate, Existing
<1>6. ASSUME NEW actor, NEW x \in Plain, NEW type, NEW status,
             AcceptPlain(actor, type, x, status)
      PROVE  Existing \subseteq Existing'
  <2>1. status # "absent"
    <3>1. PlainTransitions(x) \in {QuestionTransitions, HypothesisTransitions,
                                   DecisionTransitions, TaskTransitions}
      BY DEF PlainTransitions
    <3>2. <<plain[x], status, type>> \in PlainTransitions(x)
      BY <1>6 DEF AcceptPlain
    <3> QED
      BY <3>1, <3>2 DEF QuestionTransitions, HypothesisTransitions,
                        DecisionTransitions, TaskTransitions
  <2>2. \A y \in Plain : plain[y] # "absent" => plain'[y] # "absent"
    BY <1>6, <2>1 DEF AcceptPlain, TypeOK
  <2> QED
    BY <1>6, <2>2 DEF AcceptPlain, Existing
<1>7. CASE UNCHANGED vars
  BY <1>7 DEF vars, Existing
<1> QED
  BY <1>1, <1>2, <1>3, <1>4, <1>5, <1>6, <1>7 DEF Next

(***************************************************************************)
(* An open contradiction is always about entities the state holds.         *)
(***************************************************************************)
THEOREM ContradictionsStayGrounded == Spec => []OpenContradictionsGrounded
<1>1. Init => OpenContradictionsGrounded
  BY DEF Init, OpenContradictionsGrounded
<1>2. TypeOK /\ OpenContradictionsGrounded /\ [Next]_vars => OpenContradictionsGrounded'
  <2> SUFFICES ASSUME TypeOK, OpenContradictionsGrounded, [Next]_vars,
                      NEW x \in Contradictions, contradictions'[x].status = "open"
               PROVE  contradictions'[x].conflicting_entity_refs \subseteq Existing'
    BY DEF OpenContradictionsGrounded
  <2>1. Existing \subseteq Existing'
    BY ExistingGrows
  <2>2. CASE contradictions'[x] = contradictions[x]
    BY <2>1, <2>2 DEF OpenContradictionsGrounded
  <2>3. ASSUME NEW actor, NEW type, NEW y \in Contradictions, NEW payload,
               AcceptContradiction(actor, type, y, payload),
               contradictions'[x] # contradictions[x]
        PROVE  contradictions'[x].conflicting_entity_refs \subseteq Existing
    <3>1. y = x /\ contradictions'[x] = payload
      BY <2>3 DEF AcceptContradiction, TypeOK
    <3>2. type = "contradiction.registered"
      BY <2>3, <3>1 DEF AcceptContradiction, ContradictionTransitions
    <3> QED
      BY <2>3, <3>1, <3>2 DEF AcceptContradiction
  <2> QED
    BY <2>1, <2>2, <2>3, StepsAreAboutOneEntity
<1> QED
  BY <1>1, <1>2, TypeCorrect, PTL DEF Spec

-----------------------------------------------------------------------------
LEMMA OutcomeKept ==
    ASSUME TypeOK, [Next]_vars, NEW e, OutcomeRecorded(e)
    PROVE  OutcomeRecorded(e)'
<1>1. ASSUME e.type = "issue.accepted"
      PROVE  issues'[e.about].status \in {"accepted", "closed"}
  <2> DEFINE i == e.about
  <2>1. i \in Issues /\ issues[i].status \in {"accepted", "closed"}
    BY <1>1 DEF OutcomeRecorded
  <2>2. ASSUME NEW actor, NEW type, NEW j \in Issues, NEW payload,
               AcceptIssue(actor, type, j, payload), j = i
        PROVE  issues'[i].status \in {"accepted", "closed"}
    <3>1. payload.status = "closed"
      BY <2>1, <2>2 DEF AcceptIssue, IssueTransitions
    <3> QED
      BY <2>1, <2>2, <3>1 DEF AcceptIssue, TypeOK
  <2>3. ASSUME NEW actor, NEW type, NEW j \in Issues, NEW payload,
               AcceptIssue(actor, type, j, payload), j # i
        PROVE  issues'[i].status \in {"accepted", "closed"}
    BY <2>1, <2>3 DEF AcceptIssue, TypeOK
  <2> HIDE DEF i
  <2>4. issues'[i].status \in {"accepted", "closed"}
    BY <2>1, <2>2, <2>3, StepsAreAboutOneEntity
  <2> QED
    BY <2>4 DEF i
<1> QED
  BY <1>1, FinalStep DEF OutcomeRecorded

LEMMA NewOutcomeRecorded ==
    ASSUME TypeOK, [Next]_vars, NEW e \in ledger', e \notin ledger
    PROVE  OutcomeRecorded(e)'
<1>1. ASSUME NEW actor, NEW type, NEW status, NEW snapshot,
             UpdateAudit(actor, type, status, snapshot)
      PROVE  OutcomeRecorded(e)'
  <2>1. e.type = type /\ audit'.status = status
    BY <1>1 DEF UpdateAudit
  <2> QED
    BY <1>1, <2>1 DEF UpdateAudit, AuditTransitions, OutcomeRecorded
<1>2. ASSUME NEW actor, NEW type, NEW o \in Observations, NEW payload,
             AcceptObservation(actor, type, o, payload)
      PROVE  OutcomeRecorded(e)'
  <2>1. e.type = type /\ e.about = o /\ observations'[o].status = payload.status
    BY <1>2 DEF AcceptObservation, TypeOK
  <2> QED
    BY <1>2, <2>1 DEF AcceptObservation, ObservationTransitions, OutcomeRecorded
<1>3. ASSUME NEW actor, NEW type, NEW i \in Issues, NEW payload,
             AcceptIssue(actor, type, i, payload)
      PROVE  OutcomeRecorded(e)'
  <2>1. e.type = type /\ e.about = i /\ issues'[i].status = payload.status
    BY <1>3 DEF AcceptIssue, TypeOK
  <2> QED
    BY <1>3, <2>1 DEF AcceptIssue, IssueTransitions, OutcomeRecorded
<1>4. ASSUME NEW actor, NEW type, NEW x \in Contradictions, NEW payload,
             AcceptContradiction(actor, type, x, payload)
      PROVE  OutcomeRecorded(e)'
  <2>1. e.type \in {"contradiction.registered", "contradiction.resolved"}
    BY <1>4 DEF AcceptContradiction, ContradictionTransitions
  <2> QED
    BY <2>1 DEF OutcomeRecorded
<1>5. ASSUME NEW actor, NEW type, NEW c \in Candidates, NEW payload,
             AcceptCandidate(actor, type, c, payload)
      PROVE  OutcomeRecorded(e)'
  <2>1. e.type = type /\ e.about = c /\ candidates'[c].status = payload.status
    BY <1>5 DEF AcceptCandidate, TypeOK
  <2> QED
    BY <1>5, <2>1 DEF AcceptCandidate, CandidateTransitions, OutcomeRecorded
<1>6. ASSUME NEW actor, NEW x \in Plain, NEW type, NEW status,
             AcceptPlain(actor, type, x, status)
      PROVE  OutcomeRecorded(e)'
  <2>1. e.type = type
    BY <1>6 DEF AcceptPlain
  <2>2. <<plain[x], status, type>> \in QuestionTransitions \cup HypothesisTransitions
                                       \cup DecisionTransitions \cup TaskTransitions
    BY <1>6 DEF AcceptPlain, PlainTransitions
  <2>3. type \notin UNION ExclusiveOutcomes
    BY <2>2 DEF QuestionTransitions, HypothesisTransitions, DecisionTransitions,
                TaskTransitions, ExclusiveOutcomes
  <2> QED
    BY <2>1, <2>3 DEF OutcomeRecorded, ExclusiveOutcomes
<1>7. CASE UNCHANGED vars
  BY <1>7 DEF vars
<1> QED
  BY <1>1, <1>2, <1>3, <1>4, <1>5, <1>6, <1>7 DEF Next

(***************************************************************************)
(* The ledger and the projected state agree on every outcome.              *)
(***************************************************************************)
THEOREM LedgerAgreesWithState == Spec => []OutcomesRecorded
<1>1. Init => OutcomesRecorded
  BY DEF Init, OutcomesRecorded, OutcomeRecorded
<1>2. TypeOK /\ OutcomesRecorded /\ [Next]_vars => OutcomesRecorded'
  BY OutcomeKept, NewOutcomeRecorded DEF OutcomesRecorded
<1> QED
  BY <1>1, <1>2, TypeCorrect, PTL DEF Spec

(***************************************************************************)
(* The append-only ledger never records two outcomes of one entity.        *)
(***************************************************************************)
THEOREM OutcomesAreUnique == Spec => []OneOutcome
<1>1. OutcomesRecorded => OneOutcome
  <2> SUFFICES ASSUME OutcomesRecorded, NEW outcomes \in ExclusiveOutcomes,
                      NEW d \in ledger, NEW e \in ledger,
                      d.about = e.about, {d.type, e.type} \subseteq outcomes
               PROVE  d.type = e.type
    BY DEF OneOutcome
  <2>1. OutcomeRecorded(d) /\ OutcomeRecorded(e)
    BY DEF OutcomesRecorded
  <2> QED
    BY <2>1 DEF OutcomeRecorded, ExclusiveOutcomes
<1> QED
  BY <1>1, LedgerAgreesWithState, PTL

-----------------------------------------------------------------------------
(* Who may have submitted what about which kind of entity.                 *)

Entitled(e) ==
    /\ MayEmit(e.actor, e.type)
    /\ e.type \in {"observation.proposed", "observation.verified", "observation.rejected"} =>
           e.about \in Observations
    /\ e.type = "hypothesis.proposed" => e.about \in Hypotheses
    /\ e.type = "question.opened" => e.about \in Questions
    /\ e.type = "contradiction.registered" => e.about \in Contradictions

AllEntitled == \A e \in ledger : Entitled(e)

LEMMA NewEventIsEntitled ==
  ASSUME [Next]_vars, NEW e \in ledger', e \notin ledger
  PROVE  Entitled(e)
<1>1. ASSUME NEW actor, NEW type, NEW status, NEW snapshot,
             UpdateAudit(actor, type, status, snapshot)
      PROVE  Entitled(e)
  BY <1>1 DEF UpdateAudit, AuditTransitions, Entitled
<1>2. ASSUME NEW actor, NEW type, NEW o \in Observations, NEW payload,
             AcceptObservation(actor, type, o, payload)
      PROVE  Entitled(e)
  BY <1>2 DEF AcceptObservation, ObservationTransitions, Entitled
<1>3. ASSUME NEW actor, NEW type, NEW i \in Issues, NEW payload,
             AcceptIssue(actor, type, i, payload)
      PROVE  Entitled(e)
  BY <1>3 DEF AcceptIssue, IssueTransitions, Entitled
<1>4. ASSUME NEW actor, NEW type, NEW x \in Contradictions, NEW payload,
             AcceptContradiction(actor, type, x, payload)
      PROVE  Entitled(e)
  BY <1>4 DEF AcceptContradiction, ContradictionTransitions, Entitled
<1>5. ASSUME NEW actor, NEW type, NEW c \in Candidates, NEW payload,
             AcceptCandidate(actor, type, c, payload)
      PROVE  Entitled(e)
  BY <1>5 DEF AcceptCandidate, CandidateTransitions, Entitled
<1>6. ASSUME NEW actor, NEW x \in Plain, NEW type, NEW status,
             AcceptPlain(actor, type, x, status)
      PROVE  Entitled(e)
  <2>1. /\ e.type = type /\ e.about = x /\ MayEmit(e.actor, e.type)
        /\ <<plain[x], status, type>> \in PlainTransitions(x)
    BY <1>6 DEF AcceptPlain
  <2>2. type = "hypothesis.proposed" => x \in Hypotheses
    BY <2>1 DEF PlainTransitions, QuestionTransitions, HypothesisTransitions,
                DecisionTransitions, TaskTransitions
  <2>3. type = "question.opened" => x \in Questions
    BY <2>1 DEF PlainTransitions, QuestionTransitions, HypothesisTransitions,
                DecisionTransitions, TaskTransitions
  <2>4. type \notin {"observation.proposed", "observation.verified",
                     "observation.rejected", "contradiction.registered"}
    BY <2>1 DEF PlainTransitions, QuestionTransitions, HypothesisTransitions,
                DecisionTransitions, TaskTransitions
  <2> QED
    BY <2>1, <2>2, <2>3, <2>4 DEF Entitled
<1>7. CASE UNCHANGED vars
  BY <1>7 DEF vars
<1> QED
  BY <1>1, <1>2, <1>3, <1>4, <1>5, <1>6, <1>7 DEF Next

(***************************************************************************)
(* No worker role decides twice about one entity.  What a role may emit is *)
(* about different kinds of entities, except for the two verdicts of the   *)
(* Verifier, and of these the state the first leaves behind refuses the    *)
(* second.                                                                 *)
(***************************************************************************)
THEOREM DutiesAreSeparate == Spec => []SeparationOfDuties
<1>1. Init => AllEntitled
  BY DEF Init, AllEntitled, Entitled, MayEmit, Roles
<1>2. AllEntitled /\ [Next]_vars => AllEntitled'
  BY NewEventIsEntitled DEF AllEntitled, Entitled
<1>3. AllEntitled /\ OutcomesRecorded => SeparationOfDuties
  <2> SUFFICES ASSUME AllEntitled, OutcomesRecorded,
                      NEW d \in ledger, NEW e \in ledger,
                      d.about = e.about, d.actor = e.actor, d.actor \in Roles
               PROVE  d.type = e.type
    BY DEF SeparationOfDuties
  <2>1. Entitled(d) /\ Entitled(e) /\ OutcomeRecorded(d) /\ OutcomeRecorded(e)
    BY DEF AllEntitled, OutcomesRecorded
  <2>2. {d.type, e.type} \subseteq RolePermissions[d.actor]
    BY <2>1 DEF Entitled, MayEmit
  <2>3. CASE d.actor = "Reader"
    BY <2>1, <2>2, <2>3, KindsAssumption DEF RolePermissions, Entitled
  <2>4. CASE d.actor = "Verifier"
    BY <2>1, <2>2, <2>4, KindsAssumption DEF RolePermissions, Entitled, OutcomeRecorded
  <2>5. CASE d.actor \in {"CandidateGenerator", "IssueComposer"}
    BY <2>2, <2>5 DEF RolePermissions
  <2> QED
    BY <2>3, <2>4, <2>5 DEF Roles
<1> QED
  BY <1>1, <1>2, <1>3, LedgerAgreesWithState, PTL DEF Spec
=============================================================================
