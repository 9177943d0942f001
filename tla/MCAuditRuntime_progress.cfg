\* HEAD stays where it is: the only wedge there is cannot arise.
SPECIFICATION Spec
CONSTANTS
    Files = {f1}
    Claims = {c1, c2}
    Source <- MCSource
    Snapshots = {s1}
    VerifyMaxPerAudit = 1
    VerifyMaxFollowUp = 1
    ComposeMaxPerAudit = 1
    ComposeMaxPerSource = 1
    ExpansionBatch = 1
    NoSnapshot = NoSnapshot
    NoTask = NoTask
    Reporting = FALSE
    MaxMoves = 0
    MaxCrashes = 1
PROPERTIES
    TasksSettle
    ProposalsAreTakenUp
