\* One entity of each kind a guard looks at, and a plain one.
SPECIFICATION Spec
CONSTANTS
    Observations = {o1}
    Issues = {i1}
    Contradictions = {x1}
    Candidates = {c1}
    Questions = {}
    Hypotheses = {}
    Decisions = {d1}
    Tasks = {}
    Audit = audit1
    Snapshots = {}
    EvidenceClasses <- MCEvidenceClasses
    AllowedEvidenceClasses <- MCAllowedEvidenceClasses
    Actors = {"Verifier", "system"}
    NoRef = NoRef
INVARIANTS
    TypeOK
    IssuesRestOnVerifiedFacts
    OpenContradictionsGrounded
    OneOutcome
    OutcomesRecorded
    SeparationOfDuties
PROPERTIES
    OutcomesAreFinal
CHECK_DEADLOCK FALSE
