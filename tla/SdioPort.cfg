SPECIFICATION FairSpec
CONSTANTS
    Length = 5
    Sizes = {2}
    Lens = {2, 4}
    MaxEvent = 3
INVARIANTS
    InStep
PROPERTIES
    IsStream
    Flows
CHECK_DEADLOCK FALSE
