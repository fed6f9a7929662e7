SPECIFICATION InstanceSpec
CONSTANTS
    Requests <- MCRequests
    MaxHead = 2
    MaxBody = 1
    HeadChunk = 1
    BodyChunk = 1
    Surplus = 1
INVARIANT ServesUntilTerminated
CHECK_DEADLOCK FALSE
