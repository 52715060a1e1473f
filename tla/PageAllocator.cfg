CONSTANTS
    MemMap <- Map
    LowPages = 1
    PageBytes = 16
    KernelStart = 2
    KernelPages = 1
    Wrap = 16
SPECIFICATION FairSpec
INVARIANTS FreeMemoryExact 
PROPERTIES  RequestReturns
