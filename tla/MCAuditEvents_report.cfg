SPECIFICATION Spec
CONSTANTS
    Observations = {o1}
    Issues = {i1}
    Contradictions = {x1}
    Candidates = {c1}
    Questions = {q1}
    Hypotheses = {}
    Decisions = {}
    Tasks = {}
    Audit = audit1
    Snapshots = {}
    EvidenceClasses <- MCEvidenceClasses
    AllowedEvidenceClasses <- MCAllowedEvidenceClasses
    Actors = {"system"}
    NoRef = NoRef
INVARIANT ReportCanBeCompiled
CHECK_DEADLOCK FALSE
