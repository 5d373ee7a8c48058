SPECIFICATION Spec
CONSTANTS
    SnMod = 16
    FirstSn = 14
    WinSize = 4
    MaxFrame = 7
    Amsdu = {}
    Tainted = {}
    MaxTrouble = 2
INVARIANTS
    ReleaseStopsAtGap
