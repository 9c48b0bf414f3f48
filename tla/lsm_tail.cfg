SPECIFICATION Spec
CONSTANTS
    Keys <- ThreeKeys
    Vals = {v1, v2}
    NoVal = NoVal
    FileCapacity = 2
    LeafLen = 2
    Level0NrFile = 1
    MaxLevelCapacity = 4
    MaxVersion = 9
SYMMETRY ValSymmetry
INVARIANTS
    LookupIsLatest
CHECK_DEADLOCK FALSE
