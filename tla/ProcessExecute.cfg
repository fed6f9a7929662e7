\* Input below, at and above what a pipe holds, and more to each output than it holds.
SPECIFICATION FairSpec
CONSTANTS
    MaxInput = 3
    MaxOutput = 3
    Capacity = 2
INVARIANTS
    OkIsComplete
    RefusalNamesPhase
    BlocksOnlyOnFullPipes
PROPERTIES
    FittingInputReturns
    AbandonedChildEnds
CHECK_DEADLOCK FALSE
