SPECIFICATION Spec
CONSTANTS
    NrSegment = 4
    BlocksPerSegment = 4
    GcReserve = 2
    SizeMod = 1000
    Lbas <- TwoLbas
    Sectors <- TwoSectors
    Values <- TwoValues
    v1 = v1
    v2 = v2
    Junk = Junk
    Garbage = Garbage
    NoRecord = NoRecord
VIEW View
SYMMETRY Symmetry
PROPERTIES ImplementsDevice
