SPECIFICATION FairSpec
CONSTANTS
    Callers = {c1, c2}
    Quiet = {c2}
    Net = Net
    None = None
    Lossy = TRUE
    MaxCmd = 3
    MaxCrash = 1
    MaxSignal = 1
INVARIANTS
    TypeOK
    OwnAnswer
    LockHeld
    ArgAlive
PROPERTIES
    CommandsEnd
