-------------------------------- MODULE Heap --------------------------------
(***************************************************************************)
(* The kernel heap, kernel/src/memory.c: a doubly linked list of segment   *)
(* headers that tile the heap, first fit, split on allocation, join with   *)
(* the free neighbours on release.  One step per loop iteration.           *)
(*                                                                         *)
(* Addresses are relative to heap_start.  hdr maps the address of every    *)
(* header to its fields; what is in the memory between headers is left     *)
(* out.  The heap has no lock, and the model has one caller: kernel code   *)
(* calls it with interrupts on, but the only interrupt that allocates is   *)
(* the first one of the scheduler.                                         *)
(***************************************************************************)
EXTENDS Integers, FiniteSets

CONSTANTS
    HDR,        \* sizeof(HEAP_SEG_HEADER)
    PAGE,       \* 0x1000
    InitPages,  \* pages INIT_HEAP is called with
    Requests,   \* the sizes callers ask for
    MaxHeap     \* bound: no call that might push heap_end beyond it

ASSUME HeapAssumption ==
    /\ HDR \in Nat \ {0} /\ PAGE \in Nat \ {0} /\ InitPages \in Nat \ {0}
    /\ HDR < PAGE * InitPages
    /\ Requests \subseteq Nat
    /\ MaxHeap \in Nat

VARIABLES
    hdr, last_hdr, heap_end,
    blocks,    \* what callers hold: header address |-> size they asked for
    pc, cur,   \* where the call in progress is, and its variable cur
    size,      \* argument of kmalloc
    old        \* the block krealloc frees once kmalloc has returned

heap == <<hdr, last_hdr, heap_end>>
vars == <<heap, blocks, pc, cur, size, old>>

NULL == -1
heap_start == 0
Header(prev, next, len, isFree) ==
    [previous_hdr |-> prev, next_hdr |-> next, len |-> len, free |-> isFree]

-----------------------------------------------------------------------------
(* Helpers, and before each its mutants. *)

SplitKeepsLen(seg, length) ==
    LET n_hdr == seg + HDR + length
        nn == hdr[seg].next_hdr
    IN  /\ hdr' = [a \in DOMAIN hdr \cup {n_hdr} |->
                     IF a = n_hdr THEN Header(seg, nn, hdr[seg].len - length - HDR, TRUE)
                     ELSE IF a = seg THEN [hdr[seg] EXCEPT !.next_hdr = n_hdr, !.free = FALSE]
                     ELSE IF a = nn THEN [hdr[nn] EXCEPT !.previous_hdr = n_hdr]
                     ELSE hdr[a]]
        /\ last_hdr' = IF seg = last_hdr THEN n_hdr ELSE last_hdr

\* SPLIT_HEAP_SEGMENT, with kmalloc's cur->free=false.
SPLIT_HEAP_SEGMENT(seg, length) ==
    LET n_hdr == seg + HDR + length
        nn == hdr[seg].next_hdr
    IN  /\ hdr' = [a \in DOMAIN hdr \cup {n_hdr} |->
                     IF a = n_hdr THEN Header(seg, nn, hdr[seg].len - length - HDR, TRUE)
                     ELSE IF a = seg THEN Header(hdr[seg].previous_hdr, n_hdr, length, FALSE)
                     ELSE IF a = nn THEN [hdr[nn] EXCEPT !.previous_hdr = n_hdr]
                     ELSE hdr[a]]
        /\ last_hdr' = IF seg = last_hdr THEN n_hdr ELSE last_hdr

JoinKeepsBackLink(seg) ==
    LET n_hdr == hdr[seg].next_hdr
        nn == hdr[n_hdr].next_hdr
    IN  /\ hdr' = [a \in DOMAIN hdr \ {n_hdr} |->
                     IF a = seg THEN [hdr[seg] EXCEPT !.next_hdr = nn,
                                                      !.len = @ + hdr[n_hdr].len + HDR]
                     ELSE hdr[a]]
        /\ last_hdr' = IF nn = NULL THEN seg ELSE last_hdr

\* The absorbed header becomes part of the segment's memory.
JOIN_HEAP_NEXT_SEGMENT(seg) ==
    LET n_hdr == hdr[seg].next_hdr
        nn == hdr[n_hdr].next_hdr
    IN  /\ hdr' = [a \in DOMAIN hdr \ {n_hdr} |->
                     IF a = seg THEN [hdr[seg] EXCEPT !.next_hdr = nn,
                                                      !.len = @ + hdr[n_hdr].len + HDR]
                     ELSE IF a = nn THEN [hdr[nn] EXCEPT !.previous_hdr = seg]
                     ELSE hdr[a]]
        /\ last_hdr' = IF nn = NULL THEN seg ELSE last_hdr

\* kmalloc's test: a split must leave a header and at least one byte.
Fits(seg) == hdr[seg].free /\ hdr[seg].len > size + HDR

NextIsFree(seg) == hdr[seg].next_hdr # NULL /\ hdr[hdr[seg].next_hdr].free
PreviousNeverFree(seg) == FALSE
PreviousIsFree(seg) == hdr[seg].previous_hdr # NULL /\ hdr[hdr[seg].previous_hdr].free

Goto(from, to) == pc = from /\ pc' = to

-----------------------------------------------------------------------------
\* INIT_HEAP: one free segment.
INIT_HEAP ==
    /\ hdr = [a \in {heap_start} |-> Header(NULL, NULL, PAGE * InitPages - HDR, TRUE)]
    /\ last_hdr = heap_start /\ heap_end = PAGE * InitPages

Init == /\ INIT_HEAP
        /\ blocks = [a \in {} |-> 0]
        /\ pc = "idle" /\ cur = heap_start /\ size = 0 /\ old = NULL

\* The bound: a segment fits, or the heap may grow as far as n makes it.
Affordable(n) == \/ \E a \in DOMAIN hdr : hdr[a].free /\ hdr[a].len > n + HDR
                 \/ heap_end + n + HDR + 2 * PAGE <= MaxHeap

\* kmalloc, and the kmalloc that krealloc of block a begins with (a = NULL for
\* a plain call).  Size 0 returns NULL at once.
kmalloc(a, n) ==
    /\ n > 0 /\ Affordable(n)
    /\ Goto("idle", "walk")
    /\ cur' = heap_start /\ size' = n /\ old' = a
    /\ UNCHANGED <<heap, blocks>>

WalkFit ==
    /\ Fits(cur)
    /\ Goto("walk", IF old = NULL THEN "idle" ELSE "release")
    /\ SPLIT_HEAP_SEGMENT(cur, size)
    /\ blocks' = [a \in DOMAIN blocks \cup {cur} |-> IF a = cur THEN size ELSE blocks[a]]
    /\ UNCHANGED <<heap_end, cur, size, old>>

WalkNext ==
    /\ ~Fits(cur) /\ hdr[cur].next_hdr # NULL
    /\ Goto("walk", "walk")
    /\ cur' = hdr[cur].next_hdr
    /\ UNCHANGED <<heap, blocks, size, old>>

WalkEnd ==
    /\ ~Fits(cur) /\ hdr[cur].next_hdr = NULL
    /\ Goto("walk", "expand")
    /\ UNCHANGED <<heap, blocks, cur, size, old>>

\* Mutant: a request of exactly one page grows the heap by none.
ExpandShort ==
    /\ Goto("expand", "walk")
    /\ hdr' = IF hdr[last_hdr].free
              THEN [hdr EXCEPT ![last_hdr].len = @ + PAGE * ((size - 1) \div PAGE)]
              ELSE hdr
    /\ heap_end' = heap_end + PAGE * ((size - 1) \div PAGE)
    /\ cur' = heap_start
    /\ UNCHANGED <<last_hdr, blocks, size, old>>

\* EXPAND_HEAP by whole pages, rounding down, and kmalloc starts over.  If
\* the last segment is in use the code prints "err" and maps the memory.
EXPAND_HEAP ==
    /\ Goto("expand", "walk")
    /\ hdr' = IF hdr[last_hdr].free
              THEN [hdr EXCEPT ![last_hdr].len = @ + PAGE * (size \div PAGE)]
              ELSE hdr
    /\ heap_end' = heap_end + PAGE * (size \div PAGE)
    /\ cur' = heap_start
    /\ UNCHANGED <<last_hdr, blocks, size, old>>

\* free(a): the block is marked, then joined with what follows and precedes.
Release(from, a) ==
    /\ Goto(from, "joinNext")
    /\ hdr' = [hdr EXCEPT ![a].free = TRUE]
    /\ blocks' = [b \in DOMAIN blocks \ {a} |-> blocks[b]]
    /\ cur' = a /\ old' = NULL
    /\ UNCHANGED <<last_hdr, heap_end, size>>

free(a) == Release("idle", a)

\* krealloc to size 0 allocates nothing and frees the block.
krealloc(a, n) == IF n = 0 THEN free(a) ELSE kmalloc(a, n)

\* The second half of krealloc, after the copy.
ReallocFree == Release("release", old)

JoinNext ==
    /\ NextIsFree(cur)
    /\ Goto("joinNext", "joinNext")
    /\ JOIN_HEAP_NEXT_SEGMENT(cur)
    /\ UNCHANGED <<heap_end, blocks, cur, size, old>>

JoinNextDone ==
    /\ ~NextIsFree(cur)
    /\ Goto("joinNext", "joinPrev")
    /\ UNCHANGED <<heap, blocks, cur, size, old>>

JoinPrev ==
    /\ PreviousIsFree(cur)
    /\ Goto("joinPrev", "joinPrev")
    /\ cur' = hdr[cur].previous_hdr
    /\ JOIN_HEAP_NEXT_SEGMENT(hdr[cur].previous_hdr)
    /\ UNCHANGED <<heap_end, blocks, size, old>>

JoinPrevDone ==
    /\ ~PreviousIsFree(cur)
    /\ Goto("joinPrev", "idle")
    /\ UNCHANGED <<heap, blocks, cur, size, old>>

Call == \/ \E n \in Requests : kmalloc(NULL, n)
        \/ \E a \in DOMAIN blocks : free(a)
        \/ \E a \in DOMAIN blocks, n \in Requests : krealloc(a, n)

Step == WalkFit \/ WalkNext \/ WalkEnd \/ EXPAND_HEAP \/ ReallocFree
        \/ JoinNext \/ JoinNextDone \/ JoinPrev \/ JoinPrevDone

Next == Call \/ Step

Spec == Init /\ [][Next]_vars

\* A call in progress keeps executing.
FairSpec == Spec /\ WF_vars(Step)

-----------------------------------------------------------------------------
(* Properties. *)

HeaderType == [previous_hdr : Nat \cup {NULL}, next_hdr : Nat \cup {NULL},
               len : Nat, free : BOOLEAN]

TypeOK ==
    /\ hdr \in [DOMAIN hdr -> HeaderType] /\ DOMAIN hdr \subseteq Nat
    /\ last_hdr \in DOMAIN hdr /\ heap_end \in Nat
    /\ DOMAIN blocks \subseteq DOMAIN hdr
    /\ pc \in {"idle", "walk", "expand", "release", "joinNext", "joinPrev"}
    /\ cur \in Nat /\ size \in Nat
    /\ old \in DOMAIN blocks \cup {NULL}

\* The end of a segment.
End(a) == a + HDR + hdr[a].len

\* The segments tile the heap from heap_start to heap_end, in the order of the
\* list, and the two links of the list agree; last_hdr is its last element.
\* Split, join and expand each change a part of this.
HeapTiled ==
    /\ heap_start \in DOMAIN hdr
    /\ \A a \in DOMAIN hdr :
          /\ IF hdr[a].next_hdr = NULL
             THEN a = last_hdr /\ End(a) = heap_end
             ELSE /\ hdr[a].next_hdr = End(a)
                  /\ End(a) \in DOMAIN hdr
                  /\ hdr[End(a)].previous_hdr = a
          /\ IF hdr[a].previous_hdr = NULL
             THEN a = heap_start
             ELSE /\ hdr[a].previous_hdr \in DOMAIN hdr
                  /\ End(hdr[a].previous_hdr) = a
    /\ \A a, b \in DOMAIN hdr : a < b => End(a) <= b

\* Outside free no two neighbours are both free: the heap does not fragment
\* into free pieces that first fit cannot use.
NoAdjacentFree ==
    pc \notin {"joinNext", "joinPrev"} =>
        \A a \in DOMAIN hdr : hdr[a].free => ~NextIsFree(a)

\* What callers hold is exactly the segments in use, each as long as asked
\* for: no block is lost, resized or handed out twice.
BlocksIntact ==
    /\ DOMAIN blocks = {a \in DOMAIN hdr : ~hdr[a].free}
    /\ \A a \in DOMAIN blocks : hdr[a].len = blocks[a]

\* The last segment is always free, so that EXPAND_HEAP can grow it and never
\* prints "err" (memory.c:44) with memory mapped that no segment owns.
LastSegmentFree == hdr[last_hdr].free

\* free returns, and so do kmalloc and krealloc if the request is at least a
\* page or some segment fits it.  (A smaller request that nothing fits makes
\* EXPAND_HEAP add no page and kmalloc start over for ever.)
Served == pc \in {"walk", "expand"} => size >= PAGE \/ \E a \in DOMAIN hdr : Fits(a)
CallsReturn == (pc # "idle" /\ Served) ~> (pc = "idle")
=============================================================================
