SPECIFICATION PagingSpec
CONSTANTS
    Callers = {main, other}
    Boot = main
    Depth = 3
    Fan = 3
    MemPages = 13
    Reservations <- Reserved
    FbPages = {20}
    FreshPages = {14, 24, 25}
    Garbage <- Present
INVARIANTS
    
    IdentityMapped

    
