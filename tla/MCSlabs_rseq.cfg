SPECIFICATION Spec
CONSTANTS
    NULL = NULL
    Thread = {t1, t2}
    CPU = {0, 1}
    Ptr = {p1, p2}
    Capacity = 2
    SlabCount = 2
    RseqAvailable = TRUE
SYMMETRY Symmetry
INVARIANTS
    TypeOK
PROPERTIES
    ImplementsStacks
