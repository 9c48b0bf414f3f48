SPECIFICATION FairSpec
CONSTANTS
    NrSegment = 3
    BlocksPerSegment = 5
    GcReserve = 2
    SizeMod = 1000
    Lbas <- ThreeLbas
    Sectors <- OneSector
    Values <- OneValue
    v1 = v1
    v2 = v2
    Junk = Junk
    Garbage = Garbage
    NoRecord = NoRecord
PROPERTIES GcTerminates
