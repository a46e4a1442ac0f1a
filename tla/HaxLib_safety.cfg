SPECIFICATION Spec
CONSTANTS
    Types <- MCTypes
    ByteRange = 2
    BYTES = 2
    Len = 2
    IntBound = 4
INVARIANTS
    ProvedIsSafe
    ProvedIsFaithful
    ProvedIsInBounds
    ReleaseAgrees
CHECK_DEADLOCK FALSE
