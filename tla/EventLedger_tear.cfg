\* A write may stop anywhere, exactly before its newline included.
SPECIFICATION Spec
CONSTANTS
    Ids = {id1, id2, id3}
    Keys = {k1, k2, k3}
    NewlineTears = TRUE
INVARIANT
    AcknowledgedStored
