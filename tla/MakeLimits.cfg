\* More records than fit in an int, at a width of 5 bits.
SPECIFICATION MakeSpec
CONSTANTS
    SLOT_BITS = 0
    W = 5
    HashInit = 5
    Mix <- MCMix
    NoFile = NoFile
    PageSz = 32
    MMAP_SZ = 64
    BLOCK_SZ = 128
    HPLIST = 8
    MaxBlocks = 3
    NIL = NIL
    WILD = WILD
    Records <- MCOneKey
    ChunkSz = 32
    MaxRecs = 17
    MaxFail = 1
    RevertPrior = FALSE
    StartFailing = TRUE
INVARIANTS
    TablesHalfEmpty
CHECK_DEADLOCK FALSE
