SPECIFICATION LinkedSpec
CONSTANTS
    NULL = NULL
    NumPages = 3
    MAX_PAGES = 2
    Thread = {t1, t2}
    PAGE_SIZE = 4
    NodeBytes = 1
    IndexBytes = 1
    Span <- MCSpan
    Sizes <- MCSizes
    Class = {"8192"}
    SizeClasses <- MCRow8192
INVARIANTS
    SpansHoldObjects
