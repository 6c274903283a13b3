SPECIFICATION OverlapSpec
CONSTANTS
    t1 = t1
    t2 = t2
    t3 = t3
    NULL = NULL
    Procs <- MCTwo
    Ptrs <- MCTwoPtrs
    Serial = FALSE
    Nested = "never"
    MaxMaps = 3
    MaxVersion = 3
    MaxFail = 0
    SameSecond = FALSE
    Allocated = TRUE
INVARIANTS RefsAccounted
