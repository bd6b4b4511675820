SPECIFICATION HeapSpec
CONSTANTS
    HeapSize = 72
    HDR = 12
    Base = 16
    Word = 256
    Requests <- MCRequests
    Foreign <- MCForeign
INVARIANTS Tiled GrantsHold NoAdjacentFree FailsOnlyWhenFull Recovers
PROPERTIES GrantsStable CallsReturn
