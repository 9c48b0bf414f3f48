SPECIFICATION RestartSpec
CONSTANTS
    Keys <- TwoKeys
    Vals = {v1, v2}
    NoVal = NoVal
    FileCapacity = 2
    LeafLen = 1
    Level0NrFile = 2
    MaxLevelCapacity = 4
    MaxVersion = 9
SYMMETRY ValSymmetry
INVARIANTS
    LookupIsLatest
CHECK_DEADLOCK FALSE
