------------------------------ MODULE Evidence ------------------------------
(***************************************************************************)
(* Source references and what is derived from them (runtime/evidence.py),  *)
(* and the deterministic scan that runs before the model reads the code    *)
(* (runtime/pattern_scanner.py).                                           *)
(*                                                                         *)
(* A reference names a file, a snapshot and a range of lines.  The file    *)
(* hash a worker may add is part of what snapshot stands for.              *)
(***************************************************************************)
EXTENDS Integers, Sequences, FiniteSets, SequencesExt

CONSTANTS NoText,    \* a blank or missing string
          NoRange,   \* a line_range that is missing or not an object
          NoLine     \* a line that is missing or not a number

EvidenceClasses == {"direct_code_fact", "derived_structural_fact",
                    "inferred_hypothesis", "pattern_match", "blocked_verification"}
AllowedFindingClasses == {"direct_code_fact", "derived_structural_fact", "pattern_match"}
EvidenceOrigins == {"deterministic_pattern", "model_discovered", "mixed_pattern_model"}

Lines(start, end) == [start |-> start, end |-> end]
Ref(file, snapshot, range) == [file |-> file, snapshot |-> snapshot, range |-> range]

-----------------------------------------------------------------------------
(* Normalization of references.                                            *)

IsLine(n) == n # NoLine /\ n >= 1

HasStart(ref) == ref.range # NoRange /\ IsLine(ref.range.start)
HasEnd(ref) == ref.range # NoRange /\ IsLine(ref.range.end)

\* normalize_source_ref: an incomplete or inverted range is repaired, and said so.
NormalizedRef(ref) ==
    LET start == IF HasStart(ref) THEN ref.range.start ELSE 1
        ordered == HasEnd(ref) /\ ref.range.end >= start
    IN  [file |-> ref.file, snapshot |-> ref.snapshot,
         range |-> Lines(start, IF ordered THEN ref.range.end ELSE start),
         inferred |-> ~(HasStart(ref) /\ ordered)]

IsBound(ref) == NoText \notin {ref.file, ref.snapshot}

\* normalize_source_refs drops what names no file or no snapshot.
NormalizedRefs(refs) ==
    LET bound == SelectSeq(refs, IsBound)
    IN  [i \in DOMAIN bound |-> NormalizedRef(bound[i])]

\* Two numbers, whether or not they are lines.
IsNumbered(ref) == ref.range # NoRange /\ NoLine \notin {ref.range.start, ref.range.end}

\* _source_ref_identity asks for two numbers, not for two lines.
IsLocated(ref) == IsBound(ref) /\ IsNumbered(ref)

Locations(refs) ==
    {Ref(r.file, r.snapshot, r.range) : r \in {r \in ToSet(refs) : IsLocated(r)}}

\* derive_observation_evidence_class
DerivedClass(refs) ==
    LET places == Cardinality(Locations(refs))
    IN  CASE places = 0 -> "blocked_verification"
          [] places = 1 -> "direct_code_fact"
          [] OTHER      -> "derived_structural_fact"

\* count_evidence_classes and present_evidence_classes
CountOf(observations, class) ==
    Cardinality({o \in DOMAIN observations : observations[o].class = class})
Present(observations) ==
    {observations[o].class : o \in DOMAIN observations} \cap EvidenceClasses

-----------------------------------------------------------------------------
(* The pattern scan.                                                       *)

\* pattern_match_id is a digest of what the match is, so it is the match.
Match(rule, file, snapshot, at) ==
    [rule |-> rule, file |-> file, snapshot |-> snapshot, start |-> at.start, end |-> at.end]

UpTo(n, s) == SubSeq(s, 1, IF n < Len(s) THEN n ELSE Len(s))

(***************************************************************************)
(* scan_file: rules in their order, at most perRule matches of each and    *)
(* total of all, so an early rule can use up what a later one would find.  *)
(***************************************************************************)
ScanFile(rules, hits, file, snapshot, perRule, total) ==
    UpTo(total, FoldLeft(LAMBDA found, rule :
                             found \o [i \in DOMAIN UpTo(perRule, hits[rule]) |->
                                          Match(rule, file, snapshot, hits[rule][i])],
                         <<>>, rules))

\* scan_target_sources: every source with its own limits.
ScanSources(rules, sources, snapshot, perRule, total) ==
    UNION {ToSet(ScanFile(rules, s.hits, s.file, snapshot, perRule, total)) : s \in sources}
=============================================================================
