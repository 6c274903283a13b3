SPECIFICATION EntrySpec
CONSTANTS
    MaxList = 2
    IntMax = 15
    UshrtMax = 15
    UintMax = 31
    UlongMax = 1023
    BufMax <- MCBufMax
    GidlistSz = 2
    NgroupsMax = 3
    NgNames = {"a", "b", "c"}
    NgTriples <- MCTriples
    tolower <- MCTolower
    NgRows = 1
    NgCols = 1
    Dbs <- MCDbs
    Fragments <- MCFragments
    MaxWrites = 5
    Bufs <- MCBufs
INVARIANTS ParseExact DecodeExact EnumExact LookupsAgree
CHECK_DEADLOCK FALSE
