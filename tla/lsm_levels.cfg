SPECIFICATION Spec
CONSTANTS
    Keys <- FourKeys
    Vals = {v1, v2}
    NoVal = NoVal
    FileCapacity = 2
    LeafLen = 1
    Level0NrFile = 2
    MaxLevelCapacity = 4
    MaxVersion = 1000
VIEW View
INVARIANTS
    TypeOK
    LookupIsLatest
    VersionsOrder
    Level1Disjoint
    RelativesCoverOverlaps
    DescriptorsInUse
    CompactionHasRoom
CHECK_DEADLOCK FALSE
