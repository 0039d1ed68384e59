SPECIFICATION Spec
CONSTANTS
    NULL = NULL
    Thread = {t1, t2}
    CPU = {0}
    Ptr = {p1, p2}
    Capacity = 2
    SlabCount = 1
    RseqAvailable = FALSE
INVARIANTS
    NeverAllocatedTwice
