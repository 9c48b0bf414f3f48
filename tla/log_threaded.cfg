SPECIFICATION Spec
CONSTANTS
    NrSegment = 3
    BlocksPerSegment = 8
    GcReserve = 2
    SizeMod = 1000
    Lbas <- TwoLbas
    Sectors <- OneSector
    Values <- TwoValues
    v1 = v1
    v2 = v2
    Junk = Junk
    Garbage = Garbage
    NoRecord = NoRecord
VIEW View
SYMMETRY Symmetry
INVARIANT Freshness
