SPECIFICATION FairTimersSpec
CONSTANTS
    cmd = cmd
    scan = scan
    cqm = cqm
    Off = Off
    Ids = {cmd, scan, cqm}
    Timeout <- TimeoutOf
    MaxAdd = 5
INVARIANTS
    LateOnlyBehindLater
PROPERTIES
    Promise
