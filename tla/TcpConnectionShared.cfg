\* Two users of one connection, two calls each, a window of one byte, one byte sent.
SPECIFICATION FairSpec
CONSTANTS
    Users = {u1, u2}
    Nobody = Nobody
    Writes = {2}
    Reads = {0, 1}
    MaxCalls = 2
    MaxSent = 1
    Window = 1
INVARIANTS
    WritesWhole
    BytesAccounted
    OneLateOperation
PROPERTY
    ResetEndsOperations
CHECK_DEADLOCK FALSE
