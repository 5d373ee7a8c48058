SPECIFICATION FairSpec
CONSTANTS
    w = w
    p1 = p1
    p2 = p2
    Ifaces = {w}
    NrAc = 2
    BE = 2
    Peers = {p1, p2}
    Frame <- FrameMix
    Bare = {1, 2, 3}
    High = 3
    Low = 2
    PktLimit = 1
    Credits = 2
    MaxTrouble = 2
INVARIANTS
    TypeOK
    CreditsAccounted
    NoFrameForgotten
    InOrder
    MergedAckIsCovered
    OnlyWipeStrandsQueue
PROPERTIES
    TrafficLeaves
CHECK_DEADLOCK FALSE
