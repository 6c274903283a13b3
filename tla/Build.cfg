SPECIFICATION CtlFairSpec
CONSTANTS
    d1 = d1
    Names = {d1}
    Databases <- AllDbs
    NoDb = NoDb
    NoFile = NoFile
    Partial = Partial
    Makers = {p1, p2}
    Order <- MCOne
    MaxEdits = 2
    MaxTime = 2
    MaxFaults = 1
INVARIANTS
    SkipMeansCurrent
    NoLitter
PROPERTY Implements EventuallyCurrent
CHECK_DEADLOCK FALSE
