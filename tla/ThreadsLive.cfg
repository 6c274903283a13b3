SPECIFICATION LiveSpec
CONSTANTS
    mt = mt
    q1 = q1
    q2 = q2
    NULL = NULL
    Maint = mt
    Procs <- MCProcs
    Ptrs <- MCProcs
    Refreshers <- MCProcs
    MaxMaps = 3
    MaxVersion = 3
    MaxFail = 0
    SameSecond = FALSE
    Allocated = FALSE
PROPERTIES EventuallyFresh EventuallyReclaimed
CHECK_DEADLOCK FALSE
