\* The records of one slot, then those of the other, at a width of 5 bits.
SPECIFICATION MakeSpec
CONSTANTS
    SLOT_BITS = 1
    W = 5
    HashInit = 5
    Mix <- MCMix
    NoFile = NoFile
    PageSz = 32
    MMAP_SZ = 64
    BLOCK_SZ = 128
    HPLIST = 7
    MaxBlocks = 3
    NIL = NIL
    WILD = WILD
    Records <- MCTwoKeys
    ChunkSz = 32
    MaxRecs = 32
    MaxFail = 0
    RevertPrior = FALSE
    StartFailing = FALSE
INVARIANTS
    TablesHalfEmpty
CONSTRAINT MCSlotBySlot
CHECK_DEADLOCK FALSE
