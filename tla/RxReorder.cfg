SPECIFICATION Spec
CONSTANTS
    SnMod = 16
    FirstSn = 14
    WinSize = 4
    MaxFrame = 4
    Amsdu = {0, 3}
    Tainted = {3}
    MaxTrouble = 1
INVARIANTS
    TypeOK
    FramesAreKept
    OnceInOrder
