SPECIFICATION FairSpec
CONSTANTS
    NULL = NULL
    header_size = 3
    footer_size = 2
    INITIAL_CHUNK = 12
    MMAP_THRESHOLD = 9
    Requests = {0, 6, 9}
    BrkBase = 1
    BrkLimit = 36
    MapAddr = {100}
INVARIANTS
    HeapTiled
    FreeListExact
    AvailableExact
    SearchEndListed
    NoAdjacentFree
    CreatesOnlyWhenNeeded
    DestructorProgress
PROPERTIES
    KeepsRegions
    SearchEnds
