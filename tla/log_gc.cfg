SPECIFICATION Spec
CONSTANTS
    NrSegment = 4
    BlocksPerSegment = 4
    GcReserve = 2
    SizeMod = 1000
    Lbas <- SevenLbas
    Sectors <- OneSector
    Values <- TwoValues
    v1 = v1
    v2 = v2
    Junk = Junk
    Garbage = Garbage
    NoRecord = NoRecord
VIEW ViewOfBlocks
SYMMETRY Symmetry
INVARIANTS TypeOK Freshness LiveBlocksAreMarked MarkedBlocksAreLive SegmentCount
           GcSparesCurrentSegment ReclaimableIsVictim FreeSegmentLeft
