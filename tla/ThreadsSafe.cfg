SPECIFICATION Spec
CONSTANTS
    mt = mt
    q1 = q1
    q2 = q2
    NULL = NULL
    Maint = mt
    Procs <- MCProcs
    Ptrs <- MCProcs
    Refreshers <- MCProcs
    MaxMaps = 4
    MaxVersion = 4
    MaxFail = 1
    SameSecond = TRUE
    Allocated = FALSE
SYMMETRY MCSymmetry
INVARIANTS TypeOK RegisteredStaysMapped RefcntExact NoLeak OneReopener IInv
    DestroyReleasesAll
PROPERTIES MovesForward
CHECK_DEADLOCK FALSE
