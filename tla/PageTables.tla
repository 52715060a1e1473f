----------------------------- MODULE PageTables -----------------------------
(***************************************************************************)
(* The page tables of kernel/src/paging.c: navigate_to_PL1, one step per   *)
(* level, map_mem_with_flags, and the mappings INIT_PAGING makes with them *)
(* (all of memory at its own address, then the framebuffer) before the     *)
(* threads ask for fresh pages at addresses of their choice (the heap, the *)
(* framebuffer of a terminal, the page fault handler).                     *)
(*                                                                         *)
(* A page number is split into Depth indices below Fan (4 and 512 in the   *)
(* code).  Nothing locks the tables: calls of several threads overlap at   *)
(* every step.  REQUEST_PAGE is the one of PageAllocator, in one step: the *)
(* lowest free page, or NULL, which nobody checks and which is page 0.  It *)
(* knows one page more than memory has (total_pages).                      *)
(***************************************************************************)
EXTENDS Integers, FiniteSets

CONSTANTS
    Callers, Boot,      \* the threads; the one that runs INIT_PAGING
    Depth, Fan,
    MemPages,           \* pages of memory, mapped at their own address
    Reservations,       \* the possible sets of pages in use before INIT_PAGING
                        \* requests one; page 0 is in each
    FbPages,            \* pages of the framebuffer, outside memory
    FreshPages,         \* virtual pages that are given fresh pages
    Garbage             \* what an entry of a page that was not cleared holds

VARIABLES
    mem,          \* the content of each physical page, read as a table
    used,         \* the pages that REQUEST_PAGE will not give out
    KERNEL_PL4,
    todo,         \* what INIT_PAGING has still to map: [virt, phys, flags]
    walkPc,
    req,          \* the arguments of map_mem_with_flags
    level, current_PL,   \* i and current_PL of navigate_to_PL1
    lost          \* history: what has gone wrong, "exhausted" or "raced"

walks == <<walkPc, req, level, current_PL>>
pagingVars == <<mem, used, KERNEL_PL4, todo, walks, lost>>

\* How many pages an entry stands for, k levels above the pages: Fan^k.
Span[k \in 0 .. Depth] == IF k = 0 THEN 1 ELSE Fan * Span[k - 1]

VirtPages == 0 .. (Span[Depth] - 1)
Memory == 0 .. (MemPages - 1)
Requestable == 0 .. MemPages
Idx == 0 .. (Fan - 1)
Flags == {"Present", "RW", "UserSuper", "WriteThrough", "CacheDisabled", "PAT"}
PageEntries == [adr : VirtPages, flags : SUBSET Flags]

ASSUME PageTablesAssumption ==
    /\ Boot \in Callers
    /\ Depth \in Nat \ {0, 1} /\ Fan \in Nat \ {0, 1} /\ MemPages \in Nat
    /\ Requestable \cup FbPages \cup FreshPages \subseteq VirtPages
    /\ \A r \in Reservations : 0 \in r /\ r \subseteq Memory /\ r # Memory
    /\ FbPages \cap Memory = {} /\ FreshPages \cap (FbPages \cup Memory) = {}
    /\ Garbage \in PageEntries

Zero == [adr |-> 0, flags |-> {}]
Cleared == [i \in Idx |-> Zero]
NoReq == [virt |-> 0, phys |-> 0, flags |-> {}]

\* offsets[i - 1]: the shifts and the mask of navigate_to_PL1 and of its callers.
Offset(virt, i) == (virt \div Span[Depth - i]) % Fan

PT_GET_FLAG(entry) == "Present" \in entry.flags

\* PT_SET_FLAG ors, PT_SET_ADR replaces.
SetEntry(entry, adr, flags) == [adr |-> adr, flags |-> entry.flags \cup flags]

TableFlags == {"Present", "RW", "UserSuper"}
FbFlags == {"Present", "RW", "WriteThrough", "CacheDisabled", "PAT"}

LowestFree(taken) ==
    LET free == Requestable \ taken
    IN  IF free = {} THEN 0 ELSE CHOOSE p \in free : \A q \in free : p <= q

RequestedPage == LowestFree(used)

-----------------------------------------------------------------------------
\* Everything INIT_PAGING maps: its map_pages and map_fb_pages.
BootMappings ==
    {[virt |-> p, phys |-> p, flags |-> TableFlags] : p \in Memory}
    \cup {[virt |-> p, phys |-> p, flags |-> FbFlags] : p \in FbPages}

\* INIT_PAGING has requested and cleared the top table.
PagingInit ==
    /\ \E taken \in Reservations : KERNEL_PL4 = LowestFree(taken) /\ used = taken \cup {KERNEL_PL4}
    /\ mem = [p \in VirtPages |-> IF p = KERNEL_PL4 THEN Cleared ELSE [i \in Idx |-> Garbage]]
    /\ todo = BootMappings
    /\ walkPc = [t \in Callers |-> "idle"] /\ req = [t \in Callers |-> NoReq]
    /\ level = [t \in Callers |-> 1] /\ current_PL = [t \in Callers |-> 0]
    /\ lost = {}

\* map_mem_with_flags calls navigate_to_PL1.
Navigate(t, r) ==
    /\ req' = [req EXCEPT ![t] = r] /\ level' = [level EXCEPT ![t] = 1]
    /\ current_PL' = [current_PL EXCEPT ![t] = KERNEL_PL4]
    /\ walkPc' = [walkPc EXCEPT ![t] = "walk"]

\* map_pages and map_fb_pages take the pages in order.
map_pages ==
    /\ walkPc[Boot] = "idle" /\ todo # {}
    /\ LET r == CHOOSE r \in todo : \A s \in todo : r.virt <= s.virt
       IN  Navigate(Boot, r) /\ todo' = todo \ {r}
    /\ UNCHANGED <<mem, used, KERNEL_PL4, lost>>

\* One page of request_mapped_pages or EXPAND_HEAP: map_mem of a fresh page,
\* by a thread that exists once INIT_PAGING has returned.
request_mapped_pages(t, virt) ==
    /\ walkPc[t] = "idle" /\ todo = {} /\ walkPc[Boot] = "idle"
    /\ Navigate(t, [virt |-> virt, phys |-> RequestedPage, flags |-> TableFlags])
    /\ used' = used \cup {RequestedPage}
    /\ lost' = IF RequestedPage \in Memory \ used THEN lost ELSE lost \cup {"exhausted"}
    /\ UNCHANGED <<mem, KERNEL_PL4, todo>>

CurrentEntry(t) == mem[current_PL[t]][Offset(req[t].virt, level[t])]

\* The loop goes down a level, or ends.
Down(t, table) ==
    /\ current_PL' = [current_PL EXCEPT ![t] = table]
    /\ level' = [level EXCEPT ![t] = level[t] + 1]
    /\ walkPc' = [walkPc EXCEPT ![t] = IF level[t] + 1 = Depth THEN "set" ELSE "walk"]

WalkTable(t) ==
    /\ walkPc[t] = "walk" /\ PT_GET_FLAG(CurrentEntry(t))
    /\ Down(t, CurrentEntry(t).adr)
    /\ UNCHANGED <<mem, used, KERNEL_PL4, todo, req, lost>>

WalkMissing(t) ==
    /\ walkPc[t] = "walk" /\ ~PT_GET_FLAG(CurrentEntry(t))
    /\ walkPc' = [walkPc EXCEPT ![t] = "new"]
    /\ UNCHANGED <<mem, used, KERNEL_PL4, todo, req, level, current_PL, lost>>

\* What happens to the history when table is entered: it is not a page of
\* memory that was free, or another thread has entered one since.
Failures(t, table) ==
    (IF table \in Memory \ used THEN {} ELSE {"exhausted"})
    \cup (IF PT_GET_FLAG(CurrentEntry(t)) THEN {"raced"} ELSE {})

\* Mutant: the new table is not cleared.
NewTableDirty(t) ==
    /\ walkPc[t] = "new"
    /\ mem' = [mem EXCEPT ![current_PL[t]][Offset(req[t].virt, level[t])]
                            = SetEntry(@, RequestedPage, TableFlags)]
    /\ used' = used \cup {RequestedPage}
    /\ lost' = lost \cup Failures(t, RequestedPage)
    /\ Down(t, RequestedPage)
    /\ UNCHANGED <<KERNEL_PL4, todo, req>>

\* Mutant: the page of the new table stays free.
NewTableUnlocked(t) ==
    /\ walkPc[t] = "new"
    /\ mem' = [mem EXCEPT ![RequestedPage] = Cleared,
                          ![current_PL[t]][Offset(req[t].virt, level[t])]
                            = SetEntry(@, RequestedPage, TableFlags)]
    /\ lost' = lost \cup Failures(t, RequestedPage)
    /\ Down(t, RequestedPage)
    /\ UNCHANGED <<used, KERNEL_PL4, todo, req>>

\* A table is missing: a page is requested, cleared, and entered.
NewTable(t) ==
    /\ walkPc[t] = "new"
    /\ mem' = [mem EXCEPT ![RequestedPage] = Cleared,
                          ![current_PL[t]][Offset(req[t].virt, level[t])]
                            = SetEntry(@, RequestedPage, TableFlags)]
    /\ used' = used \cup {RequestedPage}
    /\ lost' = lost \cup Failures(t, RequestedPage)
    /\ Down(t, RequestedPage)
    /\ UNCHANGED <<KERNEL_PL4, todo, req>>

\* navigate_to_PL1 has returned.
Return(t) ==
    /\ walkPc' = [walkPc EXCEPT ![t] = "idle"] /\ req' = [req EXCEPT ![t] = NoReq]
    /\ level' = [level EXCEPT ![t] = 1] /\ current_PL' = [current_PL EXCEPT ![t] = 0]

\* Mutant: the index of the level above.
MapMemWrongIndex(t) ==
    /\ walkPc[t] = "set"
    /\ mem' = [mem EXCEPT ![current_PL[t]][Offset(req[t].virt, level[t] - 1)]
                            = SetEntry(@, req[t].phys, req[t].flags)]
    /\ Return(t)
    /\ UNCHANGED <<used, KERNEL_PL4, todo, lost>>

\* map_mem_with_flags, after navigate_to_PL1.
map_mem_with_flags(t) ==
    /\ walkPc[t] = "set"
    /\ mem' = [mem EXCEPT ![current_PL[t]][Offset(req[t].virt, Depth)]
                            = SetEntry(@, req[t].phys, req[t].flags)]
    /\ Return(t)
    /\ UNCHANGED <<used, KERNEL_PL4, todo, lost>>

PagingNext ==
    \/ map_pages
    \/ \E t \in Callers :
         \/ \E v \in FreshPages : request_mapped_pages(t, v)
         \/ WalkTable(t) \/ WalkMissing(t) \/ NewTable(t) \/ map_mem_with_flags(t)

PagingSpec == PagingInit /\ [][PagingNext]_pagingVars

-----------------------------------------------------------------------------
\* The table of each level that the processor goes through for virt, {} when
\* an entry on the way is not present.
PathIn(memory, top, virt) ==
    LET table[i \in 1 .. Depth] ==
            IF i = 1 THEN {top}
            ELSE {memory[p][Offset(virt, i - 1)].adr :
                    p \in {q \in table[i - 1] : PT_GET_FLAG(memory[q][Offset(virt, i - 1)])}}
    IN  table

Path(virt) == PathIn(mem, KERNEL_PL4, virt)

\* What the processor translates virt to.
TranslationIn(memory, top, virt) ==
    LET leaf == {memory[p][Offset(virt, Depth)] : p \in PathIn(memory, top, virt)[Depth]}
    IN  IF leaf = {} THEN Zero ELSE CHOOSE e \in leaf : TRUE

Translation(virt) == TranslationIn(mem, KERNEL_PL4, virt)

Tables == UNION {UNION {Path(v)[i] : i \in 1 .. Depth} : v \in VirtPages}

\* The entries that lead to another table.
Links == {x \in Tables \X Idx :
            \E v \in VirtPages, l \in 1 .. (Depth - 1) :
                x[1] \in Path(v)[l] /\ Offset(v, l) = x[2] /\ PT_GET_FLAG(mem[x[1]][x[2]])}

(***************************************************************************)
(* Type invariant.                                                         *)
(***************************************************************************)
PagingTypeOK ==
    /\ mem \in [VirtPages -> [Idx -> PageEntries]]
    /\ used \subseteq Requestable
    /\ KERNEL_PL4 \in Memory
    /\ todo \subseteq BootMappings
    /\ walkPc \in [Callers -> {"idle", "walk", "new", "set"}]
    /\ req \in [Callers -> [virt : VirtPages, phys : VirtPages, flags : SUBSET Flags]]
    /\ level \in [Callers -> 1 .. Depth]
    /\ current_PL \in [Callers -> VirtPages]
    /\ lost \subseteq {"exhausted", "raced"}

(***************************************************************************)
(* navigate_to_PL1 and map_mem_with_flags keep a dictionary: whatever the  *)
(* threads' walks do to each other and whatever tables they create on the  *)
(* way, a call changes the translation of its own page and of no other.    *)
(* The dictionary is broken when a page cannot be had for a table, or when *)
(* two threads find the same table missing.                                *)
(***************************************************************************)
Space == INSTANCE AddressSpace WITH
            PhysPages <- VirtPages,
            space <- IF lost # {} THEN [v \in VirtPages |-> Zero]
                     ELSE [v \in VirtPages |-> Translation(v)],
            broken <- lost # {}

ImplementsAddressSpace == Space!Spec

(***************************************************************************)
(* The tables are a tree of pages that REQUEST_PAGE will not give out      *)
(* again: no page is linked twice, and none is the page behind an address  *)
(* given to the heap or to a terminal, nor are two of those the same page. *)
(***************************************************************************)
TablesSound ==
    lost = {} =>
        /\ Tables \subseteq used \cap Memory
        /\ \A x, y \in Links : mem[x[1]][x[2]].adr = mem[y[1]][y[2]].adr => x = y
        /\ \A x \in Links : mem[x[1]][x[2]].adr # KERNEL_PL4
        /\ \A v, w \in FreshPages :
             PT_GET_FLAG(Translation(v)) =>
                /\ Translation(v).adr \notin Tables
                /\ Translation(v).adr = Translation(w).adr => v = w

(***************************************************************************)
(* Once INIT_PAGING has returned every page of memory is at its own        *)
(* address, which is how the kernel reaches its tables, and the            *)
(* framebuffer is not cached.                                              *)
(***************************************************************************)
IdentityMapped ==
    (lost = {} /\ todo = {} /\ walkPc[Boot] = "idle") =>
        /\ \A p \in Memory : Translation(p) = [adr |-> p, flags |-> TableFlags]
        /\ \A p \in FbPages : Translation(p) = [adr |-> p, flags |-> FbFlags]
=============================================================================
