\* Two concurrent callers of accept(), three peers, and a wake-up that may fail.
SPECIFICATION FairSpec
CONSTANTS
    Acceptors = {a1, a2}
    Nobody = Nobody
    MaxArrivals = 3
    Backlog = 2
INVARIANTS
    DeliveryInArrivalOrder
    AcceptedCountExact
    WakeupNeverDelivered
    NoStrandedConnection
    StoppedIsQuiescent
    AtMostOneLateAdmission
PROPERTIES
    ImplementsChannel
    StopCompletes
    SleepersReleased
    QueuedConnectionWakes
