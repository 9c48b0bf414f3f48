SPECIFICATION RestartSpec
CONSTANTS
    NrSegment = 4
    BlocksPerSegment = 4
    GcReserve = 2
    SizeMod = 1000
    Lbas <- TwoLbas
    Sectors <- OneSector
    Values <- TwoValues
    v1 = v1
    v2 = v2
    Junk = Junk
    Garbage = Garbage
    NoRecord = NoRecord
VIEW View
SYMMETRY Symmetry
CHECK_DEADLOCK FALSE
INVARIANT Freshness
