SPECIFICATION FairSpec
CONSTANTS
    NULL = NULL
    Thread = {t1, t2}
    CPU = {0, 1, 2}
    Masks = {{1}, {}}
    Object = {o1, o2, o3, o4}
    Capacity = 2
    batch_size = 2
    TRANSFER_CACHE_CAPACITY = 1
INVARIANTS
    TypeOK
    OnePlace
PROPERTIES
    KeepsUserPromise
    CallsReturn
