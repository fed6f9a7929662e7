SPECIFICATION FairSpec
CONSTANTS
    Callers = {c1, c2, c3}
    Amounts <- MCAmounts
    MaxValue = 3
INVARIANTS
    NoIncrementLost
    OverflowIsFinal
PROPERTIES
    ImplementsAtomicCounter
    IncrementReturns
