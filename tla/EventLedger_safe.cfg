\* A write may stop anywhere except exactly before its newline.
SPECIFICATION Spec
CONSTANTS
    Ids = {id1, id2, id3}
    Keys = {k1, k2, k3}
    NewlineTears = FALSE
INVARIANTS
    TypeOK
    AcknowledgedStored
    StoredOnce
    OnlyTheTailIsTorn
PROPERTIES
    ImplementsLog
