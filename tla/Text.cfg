SPECIFICATION CtlSpec
CONSTANTS
    Byte <- MCByte
    BufSz = 9
    MoveMin = 8
    PreMax = 7
    NumMax = 1
    Faults = TRUE
    DbSet <- MCDbSet
    Texts <- MCTexts
    IovNum = 18
    SsizeMax = 16
    HpList = 2
INVARIANTS FmtExact DumpWhole UniqExact
CHECK_DEADLOCK FALSE
