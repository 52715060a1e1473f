SPECIFICATION TreeSpec
CONSTANTS
    Order <- NameOrder
    Fold <- LowerCase
    Disks <- SomeDisks
    MaxLevel = 1
    Ttys <- OneTty
    Paths <- SomePaths
    MaxCalls = 2
INVARIANTS PathsLeadBack DiskListed KernelStarts
CHECK_DEADLOCK FALSE
