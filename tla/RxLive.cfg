SPECIFICATION FairSpec
CONSTANTS
    SnMod = 16
    FirstSn = 14
    WinSize = 4
    MaxFrame = 2
    Amsdu = {}
    Tainted = {}
    MaxTrouble = 2
PROPERTIES
    StoredIsDelivered
