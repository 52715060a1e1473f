--------------------------- MODULE PageAllocator ---------------------------
(***************************************************************************)
(* The physical page allocator of kernel/src/paging.c: a byte map with one *)
(* entry per page (pages_used), a search hint (page_index) and three byte  *)
(* counters.  Addresses are page numbers and the counters count pages.     *)
(*                                                                         *)
(* The kernel runs on one CPU.  REQUEST_PAGE is called by kernel threads   *)
(* with interrupts enabled; its page_index is kept in a register while the *)
(* loop runs, written back after every increment, and read again for the   *)
(* return value.  FREE_PAGE is called by destroy_thread, from the timer or *)
(* yield interrupt, hence as one step, between any two steps of            *)
(* REQUEST_PAGE.                                                           *)
(***************************************************************************)
EXTENDS Integers, Sequences, FiniteSets, FiniteSetsExt

CONSTANTS
    MemMap,          \* UEFI memory map: sequence of [type, start, pages]
    LowPages,        \* pages reserved from address 0 (0x100 in the code)
    PageBytes,       \* bytes of the map that fit a page (4096 in the code)
    KernelStart,     \* first page of the kernel image
    KernelPages,     \* its length in pages
    Wrap             \* the counters are unsigned: they wrap at Wrap pages

VARIABLES
    pages_used,      \* the pages whose byte in the map is not 0
    page_index,      \* index that should not be after first free page
    FREE_MEMORY, USED_MEMORY, RESERVED_MEMORY,
    inited,          \* INIT_PAGING has run
    pc, reg,         \* where REQUEST_PAGE is, and page_index in its register
    held,            \* pages that callers got and have not given back
    disturbed        \* a page at or below the hint was freed in the middle
                     \* of REQUEST_PAGE (history)

counters == <<FREE_MEMORY, USED_MEMORY, RESERVED_MEMORY>>
vars == <<pages_used, page_index, counters, inited, pc, reg, held, disturbed>>

-----------------------------------------------------------------------------
(* The memory map. *)

EfiReservedMemoryType == 0
EfiConventionalMemory == 7

Entries == DOMAIN MemMap
DescPages(d) == d.start .. (d.start + d.pages - 1)

\* Descriptors of type 0 do not count.
getMemorySize ==
    MapThenSumSet(LAMBDA i : IF MemMap[i].type # EfiReservedMemoryType
                             THEN MemMap[i].pages ELSE 0, Entries)

total_pages == getMemorySize + 1
Pages == 0 .. (total_pages - 1)

\* The first of the largest conventional descriptors.
largest_segment ==
    LET Conventional == {i \in Entries : MemMap[i].type = EfiConventionalMemory}
    IN  CHOOSE i \in Conventional :
            \A j \in Conventional : \/ MemMap[j].pages < MemMap[i].pages
                                    \/ MemMap[j].pages = MemMap[i].pages /\ i <= j

LowRange == 0 .. (LowPages - 1)
BitmapRange == LET start == MemMap[largest_segment].start
               IN  start .. (start + total_pages \div PageBytes)
FirmwareRange == UNION {DescPages(MemMap[i]) :
                           i \in {j \in Entries :
                                     MemMap[j].type # EfiConventionalMemory}}
KernelRange == KernelStart .. (KernelStart + KernelPages - 1)

\* The pages INIT_PAGING takes out of circulation.
BootRange == LowRange \cup BitmapRange \cup FirmwareRange \cup KernelRange

\* The map describes memory without holes, so that no descriptor lies
\* beyond the byte map.
MapInRange == BootRange \subseteq 0 .. (total_pages - 2)

\* Nothing else is asked of the map than that its arithmetic makes sense;
\* descriptors may lie beyond total_pages.
ASSUME MapAssumption ==
    /\ getMemorySize \in Nat
    /\ IsFiniteSet(BootRange)
    /\ BootRange \subseteq Nat

ASSUME WrapAssumption == Wrap \in Nat \ {0}

-----------------------------------------------------------------------------
\* Mutants, each the bug its name says, for the runs to catch.
RequestBumpForgotten ==
    /\ pc = "bump"
    /\ pc' = "test"
    /\ UNCHANGED <<pages_used, page_index, counters, inited, reg, held, disturbed>>

LockPageUnmarked ==
    /\ pc = "lock"
    /\ FREE_MEMORY' = FREE_MEMORY - 1
    /\ USED_MEMORY' = USED_MEMORY + 1
    /\ pc' = "return"
    /\ UNCHANGED <<pages_used, RESERVED_MEMORY, page_index, inited, reg, held, disturbed>>

LockPageUncounted ==
    /\ pc = "lock"
    /\ pages_used' = pages_used \cup {reg}
    /\ FREE_MEMORY' = FREE_MEMORY - 1
    /\ pc' = "return"
    /\ UNCHANGED <<USED_MEMORY, RESERVED_MEMORY, page_index, inited, reg, held, disturbed>>

FreePageKeepsHint(p) ==
    /\ inited /\ p \in held
    /\ held' = held \ {p}
    /\ disturbed' = (disturbed \/ (pc # "idle" /\ p <= page_index))
    /\ pages_used' = pages_used \ {p}
    /\ FREE_MEMORY' = FREE_MEMORY + 1
    /\ USED_MEMORY' = USED_MEMORY - 1
    /\ UNCHANGED <<RESERVED_MEMORY, page_index, inited, pc, reg>>

-----------------------------------------------------------------------------
(* Steps. *)

Init ==
    /\ pages_used = {} /\ page_index = 0
    /\ FREE_MEMORY = 0 /\ USED_MEMORY = 0 /\ RESERVED_MEMORY = 0
    /\ inited = FALSE /\ pc = "idle" /\ reg = 0 /\ held = {}
    /\ disturbed = FALSE

\* The pages of a range that LOCK_PAGES or RESERVE_PAGES marks and counts:
\* those not marked before.
Unmarked(range, marked) == range \ marked

\* Bytes of the map beyond total_pages were never cleared: which of them look
\* used already (garbage) is not determined.  The pages INIT_PAGING goes on to
\* request for the page tables are calls of REQUEST_PAGE like any other.
INIT_PAGING ==
    /\ ~inited
    /\ \E garbage \in SUBSET (BootRange \ Pages) :
          LET low      == Unmarked(LowRange, garbage)
              bitmap   == Unmarked(BitmapRange, garbage \cup LowRange)
              firmware == Unmarked(FirmwareRange, garbage \cup LowRange \cup BitmapRange)
              kernel   == Unmarked(KernelRange, garbage \cup LowRange \cup BitmapRange
                                                        \cup FirmwareRange)
          IN  /\ RESERVED_MEMORY' = Cardinality(low) + Cardinality(firmware)
              /\ USED_MEMORY' = Cardinality(bitmap) + Cardinality(kernel)
    /\ FREE_MEMORY' = getMemorySize - RESERVED_MEMORY' - USED_MEMORY'
    /\ pages_used' = BootRange \cap Pages
    /\ inited' = TRUE
    /\ UNCHANGED <<page_index, pc, reg, held, disturbed>>

\* REQUEST_PAGE, entry: the loop works on a copy of page_index.
RequestLoad ==
    /\ inited /\ pc = "idle"
    /\ pc' = "test" /\ reg' = page_index
    /\ UNCHANGED <<pages_used, page_index, counters, inited, held, disturbed>>

\* The loop condition and the test of the page's byte.
RequestTest ==
    /\ pc = "test" /\ reg < total_pages
    /\ pc' = IF reg \in pages_used THEN "bump" ELSE "lock"
    /\ UNCHANGED <<pages_used, page_index, counters, inited, reg, held, disturbed>>

\* ++page_index, from the register.
RequestBump ==
    /\ pc = "bump"
    /\ reg' = reg + 1 /\ page_index' = reg + 1
    /\ pc' = "test"
    /\ UNCHANGED <<pages_used, counters, inited, held, disturbed>>

\* LOCK_PAGE of the page found.
LOCK_PAGE ==
    /\ pc = "lock"
    /\ IF reg \in pages_used
       THEN UNCHANGED <<pages_used, counters>>
       ELSE /\ pages_used' = pages_used \cup {reg}
            /\ FREE_MEMORY' = FREE_MEMORY - 1
            /\ USED_MEMORY' = USED_MEMORY + 1
            /\ UNCHANGED RESERVED_MEMORY
    /\ pc' = "return"
    /\ UNCHANGED <<page_index, inited, reg, held, disturbed>>

\* The return value is computed from page_index, not from the register.
RequestReturn ==
    /\ pc = "return"
    /\ held' = held \cup {page_index}
    /\ pc' = "idle"
    /\ UNCHANGED <<pages_used, page_index, counters, inited, reg, disturbed>>

\* The scan reached the end of the map: NULL.
RequestNull ==
    /\ pc = "test" /\ reg >= total_pages
    /\ pc' = "idle"
    /\ UNCHANGED <<pages_used, page_index, counters, inited, reg, held, disturbed>>

\* destroy_thread gives a page back.
FREE_PAGE(p) ==
    /\ inited /\ p \in held
    /\ held' = held \ {p}
    /\ disturbed' = (disturbed \/ (pc # "idle" /\ p <= page_index))
    /\ IF p \in pages_used
       THEN /\ pages_used' = pages_used \ {p}
            /\ FREE_MEMORY' = FREE_MEMORY + 1
            /\ USED_MEMORY' = USED_MEMORY - 1
            /\ page_index' = IF p < page_index THEN p ELSE page_index
            /\ UNCHANGED RESERVED_MEMORY
       ELSE UNCHANGED <<pages_used, page_index, counters>>
    /\ UNCHANGED <<inited, pc, reg>>

REQUEST_PAGE == RequestLoad \/ RequestTest \/ RequestBump \/ LOCK_PAGE
                \/ RequestReturn \/ RequestNull

Next == INIT_PAGING \/ REQUEST_PAGE \/ \E p \in held : FREE_PAGE(p)

\* A thread that is inside REQUEST_PAGE is eventually scheduled again.
Fairness == WF_vars(RequestTest \/ RequestBump \/ LOCK_PAGE
                    \/ RequestReturn \/ RequestNull)

Spec == Init /\ [][Next]_vars
FairSpec == Spec /\ Fairness

get_free_memory == FREE_MEMORY % Wrap

-----------------------------------------------------------------------------
(* Properties. *)

TypeOK ==
    /\ pages_used \subseteq Pages
    /\ page_index \in 0 .. total_pages
    /\ FREE_MEMORY \in Int /\ USED_MEMORY \in Int /\ RESERVED_MEMORY \in Int
    /\ inited \in BOOLEAN
    /\ pc \in {"idle", "test", "bump", "lock", "return"}
    /\ reg \in 0 .. total_pages
    /\ held \subseteq Pages
    /\ disturbed \in BOOLEAN

\* paging.c:75, "index that should not be after first free page": every page
\* below the hint is in use, in the middle of REQUEST_PAGE too, as long as no
\* page at or below the hint was freed there.
HintNotPastFree ==
    ~disturbed => \A p \in Pages : p < page_index => p \in pages_used

\* The page REQUEST_PAGE has marked and not returned yet.
InFlight == IF pc = "return" THEN {reg} ELSE {}

\* Every page marked in the map has exactly one owner: the boot code, a
\* caller of REQUEST_PAGE, or the call in progress.  No page is leaked, and no
\* page that a caller holds can be handed out again, unless a page at or below
\* the hint was freed in the middle of REQUEST_PAGE (paging.c:81 returns
\* page_index, which FREE_PAGE has then changed).
EveryPageOwned ==
    inited /\ ~disturbed =>
        /\ pages_used = (BootRange \cap Pages) \cup held \cup InFlight
        /\ held \cap (BootRange \cup InFlight) = {}

\* What get_free_memory reports is the number of free pages less one (the
\* map has a byte more than there are pages, and the counter starts from the
\* pages), wrapped when that last byte is allocated; and the three counters
\* add up to the memory size.  With descriptors beyond the map only the sum
\* is left.
FreeMemoryExact ==
    inited =>
        /\ FREE_MEMORY + USED_MEMORY + RESERVED_MEMORY = getMemorySize
        /\ MapInRange =>
              get_free_memory = (Cardinality(Pages \ pages_used) - 1) % Wrap

\* REQUEST_PAGE returns the lowest free page, to one caller only, and NULL
\* only if no page is free, pages above the hint being freed meanwhile or not.
GrantsLowestFree ==
    [][~disturbed =>
       /\ RequestReturn => /\ page_index \notin held
                           /\ \A p \in Pages : p < page_index => p \in pages_used
       /\ RequestNull => Pages \subseteq pages_used]_vars

\* A call of REQUEST_PAGE comes back, however often threads die meanwhile.
RequestReturns == (pc # "idle") ~> (pc = "idle")
=============================================================================
