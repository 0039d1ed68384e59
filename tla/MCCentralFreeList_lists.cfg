SPECIFICATION LinkedSpec
CONSTANTS
    NULL = NULL
    NumPages = 4
    MAX_PAGES = 1
    Thread = {t1}
    PAGE_SIZE = 4
    NodeBytes = 1
    IndexBytes = 1
    Span <- MCSpan
    Sizes <- MCSizes
    Class = {"page"}
    SizeClasses <- MCOnePage
INVARIANTS
    ListsLinked
