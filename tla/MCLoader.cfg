SPECIFICATION LoaderSpec
CONSTANTS
    v1 = v1
    v2 = v2
    Values <- MCValues
    Size = 3
    CacheBlocks = 2
    ChunkBlocks = 1
    MaxWrite = 2
    Id = {a, b}
    Kernel = {a}
    GenerationLimit = 12
    Copies <- MCCopies
INVARIANTS CacheSafe ParserExact
PROPERTIES Truthful LoaderProgress
CHECK_DEADLOCK TRUE
