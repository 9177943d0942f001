SPECIFICATION Spec
CONSTANTS
    Processes = {p1, p2, p3}
    MaxDepth = 2
    Overlapping = FALSE
INVARIANTS
    TypeOK
    HoldersAreVisible
PROPERTIES
    LeftoversNeverBlock
CHECK_DEADLOCK FALSE
