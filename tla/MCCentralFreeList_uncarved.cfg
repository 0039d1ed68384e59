SPECIFICATION LinkedSpec
CONSTANTS
    NULL = NULL
    NumPages = 3
    MAX_PAGES = 2
    Thread = {t1, t2}
    PAGE_SIZE = 12
    NodeBytes = 4
    IndexBytes = 2
    Span <- MCSpan
    Sizes <- MCSizes
    Class <- MCClasses
    SizeClasses <- MCSizeClasses
INVARIANTS
    ReturnedSpansReleased
