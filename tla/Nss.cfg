SPECIFICATION Spec
CONSTANTS
    t1 = t1
    t2 = t2
    t3 = t3
    NULL = NULL
    Procs <- MCThree
    Ptrs <- MCThreePtrs
    Serial = TRUE
    Nested = "current"
    MaxMaps = 3
    MaxVersion = 3
    MaxFail = 1
    SameSecond = FALSE
    Allocated = TRUE
SYMMETRY MCSymThree
INVARIANTS NssTypeOK UsedStaysMapped RefsAccounted OneMapAtRest GetIsFresh
PROPERTIES SessionConsistent
