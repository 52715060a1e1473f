CONSTANTS
    HDR = 1
    PAGE = 4
    InitPages = 2
    Requests <- AllRequests
    MaxHeap = 26
SPECIFICATION FairSpec
INVARIANTS HeapTiled NoAdjacentFree BlocksIntact
PROPERTIES CallsReturn
