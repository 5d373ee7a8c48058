SPECIFICATION FairSpec
CONSTANTS
    r1 = r1
    r2 = r2
    w1 = w1
    w2 = w2
    Requests = {r1, r2}
    WdevOf <- WdevOfEach
    Cqm = Cqm
    Timeout <- TimeoutOf
    Off = Off
    None = None
    MaxEvents = 2
    MaxScan = 2
    MaxUsed = 3
INVARIANTS
    TypeOK
    ScanReqIsAsked
    TimersAreOwn
    DownEndsScan
PROPERTIES
    ScanIsReported
CHECK_DEADLOCK FALSE
