\* Records of many lengths in several slots, a list node for every record of a
\* slot, and one system call that fails.
SPECIFICATION MakeSpec
CONSTANTS
    SLOT_BITS = 2
    W = 8
    HashInit = 5
    Mix <- MCMix
    NoFile = NoFile
    PageSz = 32
    MMAP_SZ = 64
    BLOCK_SZ = 128
    HPLIST = 1
    MaxBlocks = 5
    NIL = NIL
    WILD = WILD
    Records <- MCSizes
    ChunkSz = 32
    MaxRecs = 4
    MaxFail = 1
    RevertPrior = FALSE
    StartFailing = FALSE
INVARIANTS
    MakeTypeOK
    WritesInside
    ListsExact
    FreedOnce
CHECK_DEADLOCK FALSE
