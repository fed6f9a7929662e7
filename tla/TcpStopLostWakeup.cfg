\* One caller of accept(), and stop.
SPECIFICATION FairSpec
CONSTANTS
    Acceptors = {a1}
    Nobody = Nobody
    MaxArrivals = 0
    Backlog = 1
PROPERTY
    StopUnblocksAccept
