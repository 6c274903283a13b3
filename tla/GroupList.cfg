SPECIFICATION EntrySpec
CONSTANTS
    MaxList = 2
    IntMax = 15
    UshrtMax = 15
    UintMax = 31
    UlongMax = 1023
    BufMax <- MCBufMax
    GidlistSz = 4
    NgroupsMax = 8
    NgNames = {"a", "b", "c"}
    NgTriples <- MCTriples
    tolower <- MCTolower
    NgRows = 1
    NgCols = 1
    Dbs = {"group"}
    Fragments <- MCGroupLines
    MaxWrites = 5
    Bufs <- MCBufs
INVARIANT GroupListComplete
CHECK_DEADLOCK FALSE
