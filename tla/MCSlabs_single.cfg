SPECIFICATION FairSpec
CONSTANTS
    NULL = NULL
    Thread = {t1}
    CPU = {0, 1}
    Ptr = {p1, p2, p3}
    Capacity = 2
    SlabCount = 1
    RseqAvailable = TRUE
INVARIANTS
    OnePlace
PROPERTIES
    CallsEnd
