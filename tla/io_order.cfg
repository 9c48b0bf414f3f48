SPECIFICATION Spec
CONSTANTS
    NrBio = 3
    NrLba = 2
    NrBlock = 5
    LogBlocks = {0, 2, 4}
    MaxReader = 1
    MinNrFetch = 1
    MaxNrFetch = 4
    SizeMod = 64
    Nothing = Nothing
INVARIANTS TypeOK ReadsAreCurrent PrefetchIsCurrent WindowFits PermitsKept
PROPERTIES EveryBioEnds
CHECK_DEADLOCK FALSE
