\* Three producers at a queue of two, a reader, and counters that fill up.
SPECIFICATION Spec
CONSTANTS
    Producers = {p1, p2, p3}
    Readers = {r1}
    Capacity = 2
    MaxSends = 2
    MaxValue = 3
SYMMETRY ProducerSymmetry
INVARIANTS
    TypeOK
    FifoAndDestructive
    EverySendCounted
    CountsAreRecent
