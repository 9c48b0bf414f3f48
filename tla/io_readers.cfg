SPECIFICATION Spec
CONSTANTS
    NrBio = 2
    NrLba = 1
    NrBlock = 2
    LogBlocks = {0, 1}
    MaxReader = 1
    MinNrFetch = 1
    MaxNrFetch = 2
    SizeMod = 64
    Nothing = Nothing
INVARIANTS ReadersLimited
CHECK_DEADLOCK FALSE
