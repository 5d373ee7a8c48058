SPECIFICATION FairSpec
CONSTANTS
    MaxEvent = 3
    MaxTrouble = 2
INVARIANTS
    CrashIsWatched
    OnIsServed
PROPERTIES
    ComesBack
CHECK_DEADLOCK FALSE
