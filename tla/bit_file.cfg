SPECIFICATION Spec
CONSTANTS
    Keys <- TwelveKeys
    Degree = 2
    LeafLen = 2
    FileCapacity = 12
    BufferSizes = {7, 8}
INVARIANTS
    TypeOK
    SearchFindsWholeLeaves
    IteratorDeliversAll
CHECK_DEADLOCK FALSE
