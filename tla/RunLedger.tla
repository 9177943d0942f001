------------------------------ MODULE RunLedger ------------------------------
(***************************************************************************)
(* runtime/run_ledger.py: the forensic ledger of runs, as the sequence of  *)
(* entries of runs/run_ledger.ndjson.                                      *)
(*                                                                         *)
(* An entry is written once and never changed.  Everything the ledger      *)
(* answers, it computes from all entries on every call: the next sequence  *)
(* number, the next run id, and the traces that lead from a finding back   *)
(* to the worker runs behind it.  A workspace has one audit, so the audit  *)
(* id of entries and queries is left out.                                  *)
(***************************************************************************)
EXTENDS Naturals, Sequences, SequencesExt

CONSTANT NoTrace    \* a trace that was not found

-----------------------------------------------------------------------------
(* Entries.                                                                *)

Started(sequence, run, snapshot) ==
    [entry |-> "run_started", sequence |-> sequence, run |-> run, snapshot |-> snapshot]

(***************************************************************************)
(* An event reference says what was decided about which event of which     *)
(* entity.  _normalize_event_outcome keeps nothing else of an outcome: the *)
(* candidate_type, promoted_observation_id and evidence_observation_ids    *)
(* that the lineage queries ask for are never in it.                       *)
(***************************************************************************)
Reference(event) == [id |-> event.id, type |-> event.type, entity |-> event.entity]

Execution(sequence, run, task, status, stage, accepted, rejected) ==
    [entry |-> "worker_execution", sequence |-> sequence, run |-> run, task |-> task,
     status |-> status, stage |-> stage,
     accepted |-> {Reference(e) : e \in accepted},
     rejected |-> {Reference(e) : e \in rejected}]

StartedIn(entries) == {e \in ToSet(entries) : e.entry = "run_started"}
ExecutionsIn(entries) == {e \in ToSet(entries) : e.entry = "worker_execution"}

\* A number that is already taken by the last entry.
RepeatingNextSequence(entries) ==
    IF entries = <<>> THEN 1 ELSE Max({e.sequence : e \in ToSet(entries)})

\* One more than the largest number any entry has.
NextSequence(entries) == 1 + Max({0} \cup {e.sequence : e \in ToSet(entries)})
NextRun(entries) == 1 + Max({0} \cup {e.run : e \in StartedIn(entries)})

(***************************************************************************)
(* start_run with a fresh run id.  record_worker_execution refuses an      *)
(* entry of a run that succeeded at some failure stage, or failed at none; *)
(* its digests are asked to be present, which an empty string is.          *)
(***************************************************************************)
StartRun(entries, snapshot) ==
    Append(entries, Started(NextSequence(entries), NextRun(entries), snapshot))

Recordable(status, stage) == (status = "succeeded") <=> (stage = "none")

RecordExecution(entries, run, task, status, stage, accepted, rejected) ==
    Append(entries,
           Execution(NextSequence(entries), run, task, status, stage, accepted, rejected))

-----------------------------------------------------------------------------
(* Traces.                                                                 *)

Trace(entry, event, outcome) ==
    [sequence |-> entry.sequence, run |-> entry.run, task |-> entry.task,
     status |-> entry.status, outcome |-> outcome, event |-> event]

AcceptedTraces(entries) ==
    UNION {{Trace(e, r, "accepted") : r \in e.accepted} : e \in ExecutionsIn(entries)}

RejectedTraces(entries) ==
    UNION {{Trace(e, r, "rejected") : r \in e.rejected} : e \in ExecutionsIn(entries)}

\* The latest of some traces; NoTrace if there is none.
LatestOf(traces) ==
    IF traces = {} THEN NoTrace
    ELSE CHOOSE t \in traces : \A u \in traces : u.sequence <= t.sequence

(***************************************************************************)
(* resolve_event_trace reads the entries backwards, and the accepted       *)
(* events of an entry before its rejected ones.                            *)
(***************************************************************************)
EventTrace(entries, id) ==
    LET of(traces) == {t \in traces : t.event.id = id}
        latest == LatestOf(of(AcceptedTraces(entries) \cup RejectedTraces(entries)))
    IN  IF latest = NoTrace THEN NoTrace
        ELSE LatestOf(LET same == {t \in of(AcceptedTraces(entries)) :
                                       t.sequence = latest.sequence}
                      IN  IF same = {} THEN {latest} ELSE same)

(***************************************************************************)
(* resolve_entity_trace: of the accepted events of an entity those of the  *)
(* type named first in preferred, or of any other type if there is none of *)
(* the preferred ones; of those the latest.                                *)
(***************************************************************************)
EntityTrace(entries, entity, preferred) ==
    LET about == {t \in AcceptedTraces(entries) : t.event.entity = entity}
        rank(t) == Min({i \in DOMAIN preferred : preferred[i] = t.event.type}
                           \cup {Len(preferred) + 1})
    IN  LatestOf({t \in about : \A u \in about : rank(t) <= rank(u)})

FindingTraceResolved(entries, issue, observations) ==
    /\ EntityTrace(entries, issue, <<"issue.proposed">>) # NoTrace
    /\ \A o \in observations :
           EntityTrace(entries, o, <<"observation.verified", "observation.proposed">>) # NoTrace

\* resolve_report_trace: the issues of a report that lead back to worker runs.
ResolvedFindings(entries, findings) ==
    {f \in findings : FindingTraceResolved(entries, f.issue, f.observations)}

-----------------------------------------------------------------------------
(* The life of a candidate, as the ledger tells it.                        *)

CandidateEvent(outcome) ==
    CASE outcome = "resolved_promoted" -> "candidate.promoted_to_observation"
      [] outcome = "rejected"          -> "candidate.rejected"
      [] outcome = "routed_to_verify"  -> "candidate.routed_to_verify"
      [] outcome = "proposed"          -> "candidate.proposed"

\* The outcomes in the order resolve_candidate_trace looks for them.
CandidateOutcomes == <<"resolved_promoted", "rejected", "routed_to_verify", "proposed">>

Reached(entries, candidate, outcome) ==
    LET trace == EntityTrace(entries, candidate, <<CandidateEvent(outcome)>>)
    IN  trace # NoTrace /\ trace.event.type = CandidateEvent(outcome)

PlacesReached(entries, candidate) ==
    {i \in DOMAIN CandidateOutcomes : Reached(entries, candidate, CandidateOutcomes[i])}

\* A search that looks at how far a candidate was routed before how it ended.
RoutedFirstOutcomeOf(entries, candidate) ==
    LET places == PlacesReached(entries, candidate)
    IN  IF places = {} THEN "unknown" ELSE CandidateOutcomes[Max(places)]

OutcomeOf(entries, candidate) ==
    LET places == PlacesReached(entries, candidate)
    IN  IF places = {} THEN "unknown" ELSE CandidateOutcomes[Min(places)]

(***************************************************************************)
(* list_candidates_by_outcome: candidates an entry proposes, with the      *)
(* outcome of the last lifecycle event read in the order of the entries.   *)
(***************************************************************************)
ListedOutcome(entries, candidate) ==
    LET typesAt(i) == {r.type : r \in {r \in entries[i].accepted : r.entity = candidate}}
        steps == {i \in DOMAIN entries :
                      entries[i].entry = "worker_execution" /\ typesAt(i) # {}}
        later == {i \in steps : typesAt(i) # {"candidate.proposed"}}
    IN  CASE ~\E i \in steps : "candidate.proposed" \in typesAt(i) -> "unlisted"
          [] later = {} -> "proposed"
          [] OTHER -> CHOOSE o \in ToSet(CandidateOutcomes) :
                          CandidateEvent(o) \in typesAt(Max(later))

\* resolve_candidate_forensic_trace: all that was tried for a candidate.
ForensicTrace(entries, candidate) ==
    {t \in AcceptedTraces(entries) \cup RejectedTraces(entries) : t.event.entity = candidate}
=============================================================================
