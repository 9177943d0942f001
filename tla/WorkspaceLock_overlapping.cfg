SPECIFICATION Spec
CONSTANTS
    Processes = {p1, p2}
    MaxDepth = 2
    Overlapping = TRUE
INVARIANT MutualExclusion
CHECK_DEADLOCK FALSE
