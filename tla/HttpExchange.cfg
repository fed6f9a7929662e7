SPECIFICATION FairSpec
CONSTANTS
    Requests <- MCWellFormed
    MaxHead = 4
    MaxBody = 3
    HeadChunk = 3
    BodyChunk = 2
    Surplus = 1
INVARIANTS
    TypeOK
    VerdictIndependentOfReads
    BufferBounded
PROPERTY
    PeerEndsDecode
