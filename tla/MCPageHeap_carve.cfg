SPECIFICATION Spec
CONSTANTS
    NULL = NULL
    NumPages = 5
    MAX_PAGES = 2
    Sizes = {1}
    Span <- MCSpan
INVARIANTS
    TypeOK
    PageMapExact
    FreeListsExact
    FreeSpansHaveNoSize
    NoLostPages
PROPERTIES
    HeldSpansUntouched
    MergesNeighbours
    KeepsPromise
