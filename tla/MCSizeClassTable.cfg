SPECIFICATION FairSpec
CONSTANTS
    NUM_SIZE_CLASSES = 48
    SizeClasses <- MCSizeClasses
    Requests <- MCRequests
    MAX_BATCH_SIZE = 32
    Limits = {20000, 12000, 1000}
    CPU = {0, 1}
    CACHE_LINE_SIZE = 64
    CountBytes = 2
    PointerBytes = 8
INVARIANTS
    TypeOK
    RoundsUp
    SliceHoldsBatches
    SlicesDisjoint
PROPERTIES
    SearchEnds
