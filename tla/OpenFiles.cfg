CONSTANTS
    Small = Small
    Paged = Paged
    Fifo = Fifo
    Files <- BothFiles
    Pipes <- OnePipe
    DiskSize <- OnDisk
    SECTOR = 2
    PAGE = 4
    PIPE_SIZE = 2
    Reads = {0, 1, 3}
    Writes = {1, 2, 4}
    PipeWrites = {1, 3}
    Seeks <- AllSeeks
    MaxFd = 3
    MaxOpeners = 2
    MaxSize = 9
SPECIFICATION Spec
INVARIANTS CachesOwned DescriptorsLive AccessesInside
CHECK_DEADLOCK FALSE
