\* The stateless components on every combination of a few inputs of each.
SPECIFICATION Spec
CONSTANTS
    NoFile = NoFile
    NoSnapshot = NoSnapshot
    Unlimited = Unlimited
    Nothing = Nothing
    NoText = NoText
    NoRange = NoRange
    NoLine = NoLine
    Raised = Raised
    Absent = Absent
    Refused = Refused
    CompileError = CompileError
    NoTrace = NoTrace
    NoReason = NoReason
    Pending = Pending
    Said = Said
    Shouted = Shouted
    ReadsInput = ReadsInput
    Late = Late
    Inputs <- MCInputs
    MaxEvidence = 2
    MaxRelated = 2
    MaxRounds = 3
    MaxEntries = 12
INVARIANTS
    RoutingIsBounded
    RoutingLosesNoCandidate
    ExpansionIsSeen
    RetriesIgnoreMessages
    VerifiersSeeContradictions
    ClaudeReadsWhatCodexReads
    SecondPassChangesNothing
    RetriedAnswersAreDuplicates
    FactsAreReportedOnce
    TwoViewsAgree
    EmptyRunsAreExplained
PROPERTIES
    RoutingIsRepeatable
CHECK_DEADLOCK FALSE
