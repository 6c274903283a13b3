\* Every database of up to three records, made, searched and iterated over.
SPECIFICATION Spec
CONSTANTS
    SLOT_BITS = 1
    W = 8
    HashInit = 4
    Mix <- MCMix
    NoFile = NoFile
    PageSz = 32
    MMAP_SZ = 64
    BLOCK_SZ = 128
    HPLIST = 2
    MaxBlocks = 4
    NIL = NIL
    WILD = WILD
    Records <- MCRecords
    ChunkSz = 64
    MaxRecs = 3
    MaxFail = 0
    RevertPrior = FALSE
    StartFailing = FALSE
    Queries <- MCQueries
    MaxQueries = 2
INVARIANTS
    TypeOK
    FindExact
    LoopMeansFound
    IterExact
    StrideAgrees
    FileValid
CHECK_DEADLOCK FALSE
