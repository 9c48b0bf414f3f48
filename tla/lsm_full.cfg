SPECIFICATION Spec
CONSTANTS
    Keys <- SixKeys
    Vals = {v1}
    NoVal = NoVal
    FileCapacity = 2
    LeafLen = 1
    Level0NrFile = 1
    MaxLevelCapacity = 6
    MaxVersion = 14
INVARIANTS
    CompactionStaysInLevels
CHECK_DEADLOCK FALSE
