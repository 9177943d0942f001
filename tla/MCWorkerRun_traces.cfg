\* Both backends; one command dies, in the middle of a line or elsewhere.
SPECIFICATION Spec
CONSTANTS
    Tasks = {t1, t2}
    Events <- MCEvents
    Backends = {"codex", "claude_sdk"}
    Snapshot = s1
    BatchSize = 2
    MaxEntries = 6
    MaxCrashes = 1
    NoTask = NoTask
    NoTrace = NoTrace
INVARIANTS
    TypeOK
    TraceIsHonest
    OneExecutionPerRun
    DoneTasksAreTraced
    DoneWorkIsTraceable
    OutputsAreCollected
CHECK_DEADLOCK FALSE
