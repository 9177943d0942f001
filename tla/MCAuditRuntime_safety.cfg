\* HEAD moves twice, commands die.
SPECIFICATION Spec
CONSTANTS
    Files = {f1}
    Claims = {c1}
    Source <- MCSource
    Snapshots = {s1, s2}
    VerifyMaxPerAudit = 1
    VerifyMaxFollowUp = 1
    ComposeMaxPerAudit = 1
    ComposeMaxPerSource = 1
    ExpansionBatch = 1
    NoSnapshot = NoSnapshot
    NoTask = NoTask
    Reporting = TRUE
    MaxMoves = 2
    MaxCrashes = 1
INVARIANTS
    TypeOK
    OneRunning
    PlansOnFreshState
    QueueFollowsLedger
PROPERTY
    ImplementsLifecycle
