SPECIFICATION FairSpec
CONSTANTS
    b1 = b1
    b2 = b2
    none = none
    Bss = {b1, b2}
    Sae = {b2}
    None = none
    Slots = {0}
    ConnectTicks = 1
    MaxRetry = 2
    MaxCall = 3
    MaxRefuse = 1
    MaxDown = 1
    MaxAir = 2
INVARIANTS
    TypeOK
    AttemptIsWatched
    BssIsThePeer
    LinkAgrees
PROPERTIES
    RequestIsAnswered
CHECK_DEADLOCK FALSE
