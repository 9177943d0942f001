\* HEAD moves away from a captured commit and back to it.
SPECIFICATION Spec
CONSTANTS
    Files = {f1}
    Claims = {c1}
    Source <- MCSource
    Snapshots = {s1, s2}
    VerifyMaxPerAudit = 1
    VerifyMaxFollowUp = 1
    ComposeMaxPerAudit = 1
    ComposeMaxPerSource = 1
    ExpansionBatch = 1
    NoSnapshot = NoSnapshot
    NoTask = NoTask
    Reporting = FALSE
    MaxMoves = 2
    MaxCrashes = 0
INVARIANT
    HeadCanBeCaptured
