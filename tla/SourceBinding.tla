---------------------------- MODULE SourceBinding ----------------------------
(***************************************************************************)
(* runtime/validators/source_binding.py: what an event that cites code     *)
(* must cite, as the set of the codes of the issues found.  Events are     *)
(* those of Canonicalization.  Columns are left out: no adapter hands on   *)
(* any.                                                                    *)
(***************************************************************************)
EXTENDS Evidence

\* _extract_source_refs: nothing else is asked to cite code.
CheckedRefs(event) ==
    IF event.about.entity_type \in {"observation", "hypothesis", "contradiction", "decision"}
    THEN event.about.payload.refs ELSE <<>>

When(condition, code) == IF condition THEN {code} ELSE {}

\* _validate_source_ref
RefIssues(event, ref) ==
    IF ref.range = NoRange THEN {"missing_line_range"}
    ELSE IF ~IsNumbered(ref) THEN {"incomplete_line_range"}
    ELSE When(ref.range.start > ref.range.end, "invalid_line_range")
         \cup When(/\ NoText \notin {event.snapshot, ref.snapshot}
                    /\ ref.snapshot # event.snapshot, "snapshot_ref_mismatch")

SourceIssues(event) ==
    LET refs == CheckedRefs(event)
    IN  IF refs = <<>>
        THEN When(event.type \in {"observation.proposed", "observation.verified",
                                  "observation.rejected"}, "missing_source_refs")
        ELSE When(event.snapshot = NoText, "missing_event_snapshot_ref")
             \cup UNION {RefIssues(event, r) : r \in ToSet(refs)}
=============================================================================
