---------------------------- MODULE PagingProofs ----------------------------
(***************************************************************************)
(* Proofs about the two halves of kernel/src/paging.c, for every memory    *)
(* map, depth and fan.                                                     *)
(*                                                                         *)
(* PageAllocator: the types and the counters hold whatever interrupts      *)
(* REQUEST_PAGE; the search hint and the ownership of pages as long as no  *)
(* page at or below the hint is freed in the middle of it.                 *)
(*                                                                         *)
(* PageTables: the tables are a tree of pages in use, in which two walks   *)
(* meet exactly as long as the indices of their pages agree; so what one   *)
(* walk writes no other one sees.  This holds until a page cannot be had   *)
(* or two threads create the same table.                                   *)
(***************************************************************************)
EXTENDS PageAllocator, PageTables, FiniteSetTheorems, WellFoundedInduction, TLAPS

\* The page map has at least the byte that stands for no memory.
LEMMA TotalPages == total_pages \in Nat \ {0} /\ getMemorySize = total_pages - 1
BY MapAssumption DEF total_pages

-----------------------------------------------------------------------------
(* Types. *)

\* What REQUEST_PAGE knows of its register: inside the loop body it is a page,
\* and an interrupt can only have lowered page_index below it.
RegInv ==
    /\ pc \in {"bump", "lock", "return"} => reg < total_pages
    /\ pc # "idle" => page_index <= reg

TypeInv == TypeOK /\ RegInv

LEMMA TypeInit == Init => TypeInv
<1> SUFFICES ASSUME Init PROVE TypeInv
  OBVIOUS
<1>1. page_index \in 0 .. total_pages /\ reg \in 0 .. total_pages
  BY TotalPages DEF Init
<1>2. FREE_MEMORY \in Int /\ USED_MEMORY \in Int /\ RESERVED_MEMORY \in Int
  BY DEF Init
<1>3. inited \in BOOLEAN /\ pages_used \subseteq Pages /\ held \subseteq Pages
  BY DEF Init
<1> QED
  BY <1>1, <1>2, <1>3 DEF Init, TypeInv, TypeOK, RegInv

LEMMA TypeStep == TypeInv /\ [Next]_vars => TypeInv'
<1> SUFFICES ASSUME TypeInv, [Next]_vars PROVE TypeInv'
  OBVIOUS
<1> USE TotalPages DEF TypeInv, TypeOK, RegInv, Pages, counters
<1>1. CASE INIT_PAGING
  <2>1. PICK garbage \in SUBSET (BootRange \ (0 .. (total_pages - 1))) :
          /\ RESERVED_MEMORY' = Cardinality(LowRange \ garbage)
                + Cardinality(FirmwareRange \ (garbage \cup LowRange \cup BitmapRange))
          /\ USED_MEMORY' = Cardinality(BitmapRange \ (garbage \cup LowRange))
                + Cardinality(KernelRange
                     \ (garbage \cup LowRange \cup BitmapRange \cup FirmwareRange))
    BY <1>1 DEF INIT_PAGING, Unmarked
  <2>2. \A S : S \subseteq BootRange => Cardinality(S) \in Nat
    BY FS_Subset, FS_CardinalityType, MapAssumption
  <2>3. /\ LowRange \ garbage \subseteq BootRange
        /\ FirmwareRange \ (garbage \cup LowRange \cup BitmapRange) \subseteq BootRange
        /\ BitmapRange \ (garbage \cup LowRange) \subseteq BootRange
        /\ KernelRange \ (garbage \cup LowRange \cup BitmapRange \cup FirmwareRange)
              \subseteq BootRange
    BY DEF BootRange
  <2>4. RESERVED_MEMORY' \in Int /\ USED_MEMORY' \in Int
    BY <2>1, <2>2, <2>3
  <2>5. FREE_MEMORY' = getMemorySize - RESERVED_MEMORY' - USED_MEMORY'
    BY <1>1 DEF INIT_PAGING, Unmarked
  <2>6. FREE_MEMORY' \in Int
    BY <2>4, <2>5
  <2> QED
    BY <1>1, <2>4, <2>6 DEF INIT_PAGING, Unmarked
<1>2. CASE RequestLoad
  BY <1>2 DEF RequestLoad
<1>3. CASE RequestTest
  BY <1>3 DEF RequestTest
<1>4. CASE RequestBump
  BY <1>4 DEF RequestBump
<1>5. CASE LOCK_PAGE
  <2>1. reg \in Pages
    BY <1>5 DEF LOCK_PAGE
  <2>2. pages_used' \subseteq Pages
    BY <1>5, <2>1 DEF LOCK_PAGE
  <2>3. FREE_MEMORY' \in Int /\ USED_MEMORY' \in Int /\ RESERVED_MEMORY' \in Int
    BY <1>5 DEF LOCK_PAGE
  <2>4. pc' = "return" /\ pc = "lock" /\ UNCHANGED <<page_index, inited, reg, held, disturbed>>
    BY <1>5 DEF LOCK_PAGE
  <2> QED
    BY <2>2, <2>3, <2>4
<1>6. CASE RequestReturn
  BY <1>6 DEF RequestReturn
<1>7. CASE RequestNull
  BY <1>7 DEF RequestNull
<1>8. ASSUME NEW p \in held, FREE_PAGE(p) PROVE TypeInv'
  <2>1. p \in Int /\ 0 <= p /\ p < total_pages
    OBVIOUS
  <2>2. page_index' \in 0 .. total_pages /\ page_index' <= page_index
    BY <1>8, <2>1 DEF FREE_PAGE
  <2>3. pages_used' \subseteq pages_used /\ held' \subseteq held
    BY <1>8 DEF FREE_PAGE
  <2>4. FREE_MEMORY' \in Int /\ USED_MEMORY' \in Int /\ RESERVED_MEMORY' \in Int
    BY <1>8 DEF FREE_PAGE
  <2>5. UNCHANGED <<inited, pc, reg>>
    BY <1>8 DEF FREE_PAGE
  <2>6. disturbed' \in BOOLEAN
    BY <1>8, Zenon DEF FREE_PAGE
  <2> QED
    BY <2>2, <2>3, <2>4, <2>5, <2>6
<1>9. CASE UNCHANGED vars
  BY <1>9 DEF vars
<1> QED
  BY <1>1, <1>2, <1>3, <1>4, <1>5, <1>6, <1>7, <1>8, <1>9 DEF Next, REQUEST_PAGE

\* The allocator's variables keep their types, interrupted or not: no step
\* marks a byte beyond the map and no caller is given a page number beyond it.
THEOREM TypeCorrect == Spec => []TypeOK
<1>1. TypeInv => TypeOK
  BY DEF TypeInv
<1> QED
  BY <1>1, TypeInit, TypeStep, PTL DEF Spec

-----------------------------------------------------------------------------
(* Counters. *)

\* In terms of the marked pages, without the wrapping of the reader.
CountInv ==
    inited =>
        /\ FREE_MEMORY + USED_MEMORY + RESERVED_MEMORY = getMemorySize
        /\ MapInRange => FREE_MEMORY = getMemorySize - Cardinality(pages_used)

LEMMA PagesFinite == IsFiniteSet(Pages) /\ Cardinality(Pages) = total_pages
BY FS_Interval, TotalPages DEF Pages

LEMMA CountStep == TypeInv /\ CountInv /\ [Next]_vars => CountInv'
<1> SUFFICES ASSUME TypeInv, CountInv, [Next]_vars PROVE CountInv'
  OBVIOUS
<1> USE TotalPages DEF TypeInv, TypeOK, CountInv, counters
<1>0. IsFiniteSet(pages_used) /\ Cardinality(pages_used) \in Nat
  BY PagesFinite, FS_Subset, FS_CardinalityType
<1>1. CASE INIT_PAGING
  <2>1. TypeInv'
    BY <1>1, TypeStep
  <2>2. FREE_MEMORY' + USED_MEMORY' + RESERVED_MEMORY' = getMemorySize
    BY <1>1, <2>1 DEF INIT_PAGING, Unmarked
  <2>3. ASSUME MapInRange
        PROVE  FREE_MEMORY' = getMemorySize - Cardinality(pages_used')
    <3> DEFINE Firmware == FirmwareRange \ (LowRange \cup BitmapRange)
               Bitmap == BitmapRange \ LowRange
               Kernel == KernelRange \ (LowRange \cup BitmapRange \cup FirmwareRange)
    <3>1. BootRange \ Pages = {} /\ BootRange \cap Pages = BootRange
      <4>1. 0 .. (total_pages - 2) \subseteq Pages
        BY DEF Pages
      <4> QED
        BY <2>3, <4>1 DEF MapInRange
    <3>2. /\ RESERVED_MEMORY' = Cardinality(LowRange) + Cardinality(Firmware)
          /\ USED_MEMORY' = Cardinality(Bitmap) + Cardinality(Kernel)
      <4>1. PICK garbage \in SUBSET (BootRange \ Pages) :
              /\ RESERVED_MEMORY' = Cardinality(LowRange \ garbage)
                    + Cardinality(FirmwareRange \ (garbage \cup LowRange \cup BitmapRange))
              /\ USED_MEMORY' = Cardinality(BitmapRange \ (garbage \cup LowRange))
                    + Cardinality(KernelRange
                         \ (garbage \cup LowRange \cup BitmapRange \cup FirmwareRange))
        BY <1>1 DEF INIT_PAGING, Unmarked
      <4>2. garbage = {}
        BY <3>1
      <4>3. /\ LowRange \ garbage = LowRange
            /\ FirmwareRange \ (garbage \cup LowRange \cup BitmapRange) = Firmware
            /\ BitmapRange \ (garbage \cup LowRange) = Bitmap
            /\ KernelRange \ (garbage \cup LowRange \cup BitmapRange \cup FirmwareRange)
                  = Kernel
        BY <4>2
      <4> QED
        BY <4>1, <4>3
    <3>3. /\ IsFiniteSet(LowRange) /\ IsFiniteSet(Bitmap)
          /\ IsFiniteSet(Firmware) /\ IsFiniteSet(Kernel)
      <4>1. \A S : S \subseteq BootRange => IsFiniteSet(S)
        BY FS_Subset, MapAssumption
      <4> QED
        BY <4>1 DEF BootRange
    <3>4. \A S, T : IsFiniteSet(S) /\ IsFiniteSet(T) /\ S \cap T = {} =>
                      /\ IsFiniteSet(S \cup T)
                      /\ Cardinality(S \cup T) = Cardinality(S) + Cardinality(T)
      <4> SUFFICES ASSUME NEW S, NEW T, IsFiniteSet(S), IsFiniteSet(T), S \cap T = {}
                   PROVE  /\ IsFiniteSet(S \cup T)
                          /\ Cardinality(S \cup T) = Cardinality(S) + Cardinality(T)
        OBVIOUS
      <4>1. Cardinality(S) \in Nat /\ Cardinality(T) \in Nat /\ Cardinality(S \cap T) = 0
        BY FS_CardinalityType, FS_EmptySet
      <4>2. /\ IsFiniteSet(S \cup T)
            /\ Cardinality(S \cup T)
                  = Cardinality(S) + Cardinality(T) - Cardinality(S \cap T)
        BY FS_Union
      <4> QED
        BY <4>1, <4>2
    <3>5. /\ IsFiniteSet(LowRange \cup Bitmap)
          /\ Cardinality(LowRange \cup Bitmap) = Cardinality(LowRange) + Cardinality(Bitmap)
      <4>1. LowRange \cap Bitmap = {}
        OBVIOUS
      <4> HIDE DEF Bitmap
      <4> QED
        BY <3>3, <3>4, <4>1
    <3>6. /\ IsFiniteSet((LowRange \cup Bitmap) \cup Firmware)
          /\ Cardinality((LowRange \cup Bitmap) \cup Firmware)
                = Cardinality(LowRange) + Cardinality(Bitmap) + Cardinality(Firmware)
      <4>1. (LowRange \cup Bitmap) \cap Firmware = {}
        OBVIOUS
      <4> HIDE DEF Bitmap, Firmware
      <4> QED
        BY <3>3, <3>4, <3>5, <4>1
    <3>7. Cardinality(((LowRange \cup Bitmap) \cup Firmware) \cup Kernel)
             = Cardinality(LowRange) + Cardinality(Bitmap) + Cardinality(Firmware)
                 + Cardinality(Kernel)
      <4>1. ((LowRange \cup Bitmap) \cup Firmware) \cap Kernel = {}
        OBVIOUS
      <4> HIDE DEF Bitmap, Firmware, Kernel
      <4> QED
        BY <3>3, <3>4, <3>6, <4>1
    <3>8. ((LowRange \cup Bitmap) \cup Firmware) \cup Kernel = BootRange
      BY DEF BootRange
    <3>9. /\ Cardinality(LowRange) \in Nat /\ Cardinality(Bitmap) \in Nat
          /\ Cardinality(Firmware) \in Nat /\ Cardinality(Kernel) \in Nat
      <4> HIDE DEF Bitmap, Firmware, Kernel
      <4> QED
        BY <3>3, FS_CardinalityType
    <3>10. /\ FREE_MEMORY' = getMemorySize - RESERVED_MEMORY' - USED_MEMORY'
           /\ pages_used' = BootRange
      BY <1>1, <3>1 DEF INIT_PAGING, Unmarked
    <3> HIDE DEF Bitmap, Firmware, Kernel
    <3>11. Cardinality(pages_used')
             = Cardinality(LowRange) + Cardinality(Bitmap) + Cardinality(Firmware)
                 + Cardinality(Kernel)
      BY <3>7, <3>8, <3>10
    <3> QED
      BY <3>2, <3>9, <3>10, <3>11
  <2> QED
    BY <2>2, <2>3
<1>2. CASE RequestLoad \/ RequestTest \/ RequestBump \/ RequestReturn \/ RequestNull
  BY <1>2 DEF RequestLoad, RequestTest, RequestBump, RequestReturn, RequestNull
<1>3. CASE LOCK_PAGE
  BY <1>0, <1>3, FS_AddElement DEF LOCK_PAGE
<1>4. ASSUME NEW p \in held, FREE_PAGE(p) PROVE CountInv'
  <2>1. CASE p \in pages_used
    <3>1. Cardinality(pages_used \ {p}) = Cardinality(pages_used) - 1
      BY <1>0, <2>1, FS_RemoveElement
    <3>2. /\ pages_used' = pages_used \ {p} /\ inited' = inited
          /\ FREE_MEMORY' = FREE_MEMORY + 1 /\ USED_MEMORY' = USED_MEMORY - 1
          /\ RESERVED_MEMORY' = RESERVED_MEMORY
      BY <1>4, <2>1 DEF FREE_PAGE
    <3> QED
      BY <1>0, <3>1, <3>2
  <2>2. CASE p \notin pages_used
    BY <1>4, <2>2 DEF FREE_PAGE
  <2> QED
    BY <2>1, <2>2
<1>5. CASE UNCHANGED vars
  BY <1>5 DEF vars
<1> QED
  BY <1>1, <1>2, <1>3, <1>4, <1>5 DEF Next, REQUEST_PAGE

\* Whatever interrupts REQUEST_PAGE, the three counters add up to the memory
\* size and, for a memory map without holes, get_free_memory is one less than
\* the number of free bytes of the map, wrapped.
THEOREM CountersExact == Spec => []FreeMemoryExact
<1>1. Init => CountInv
  BY DEF Init, CountInv
<1>2. TypeInv /\ CountInv => FreeMemoryExact
  <2> SUFFICES ASSUME TypeInv, CountInv, inited
               PROVE  /\ FREE_MEMORY + USED_MEMORY + RESERVED_MEMORY = getMemorySize
                      /\ MapInRange => get_free_memory
                                         = (Cardinality(Pages \ pages_used) - 1) % Wrap
    BY DEF FreeMemoryExact
  <2>1. Cardinality(Pages \ pages_used) = Cardinality(Pages) - Cardinality(pages_used)
    <3>1. Pages \cap pages_used = pages_used
      BY DEF TypeInv, TypeOK
    <3> QED
      BY <3>1, PagesFinite, FS_Difference
  <2>2. Cardinality(pages_used) \in Nat
    BY PagesFinite, FS_Subset, FS_CardinalityType DEF TypeInv, TypeOK
  <2>3. MapInRange => FREE_MEMORY = Cardinality(Pages \ pages_used) - 1
    BY <2>1, <2>2, PagesFinite, TotalPages DEF CountInv
  <2> QED
    BY <2>3 DEF CountInv, get_free_memory
<1> QED
  BY <1>1, <1>2, TypeInit, TypeStep, CountStep, PTL DEF Spec

-----------------------------------------------------------------------------
(* The hint and the owners, until a page at or below the hint is freed in the
   middle of REQUEST_PAGE. *)

\* Until then the register and page_index agree, and
\* what the test saw is still true when the loop acts on it.
Undisturbed ==
    ~disturbed =>
    /\ pc # "idle" => inited /\ page_index = reg
    /\ pc = "bump" => reg \in pages_used
    /\ pc = "lock" => reg \notin pages_used
    /\ pc = "return" => reg \notin BootRange
    /\ ~inited => pages_used = {} /\ held = {} /\ page_index = 0

OwnInv == TypeInv /\ Undisturbed /\ HintNotPastFree /\ EveryPageOwned

LEMMA OwnInit == Init => OwnInv
BY TypeInit, TotalPages
   DEF Init, OwnInv, Undisturbed, HintNotPastFree, EveryPageOwned, Pages

LEMMA OwnStep == OwnInv /\ [Next]_vars => OwnInv'
<1> SUFFICES ASSUME OwnInv, [Next]_vars PROVE OwnInv'
  OBVIOUS
<1>0. TypeInv'
  BY TypeStep DEF OwnInv
<1> USE <1>0, TotalPages
    DEF OwnInv, TypeInv, TypeOK, RegInv, Pages, counters,
        Undisturbed, HintNotPastFree, EveryPageOwned, InFlight
<1>1. CASE INIT_PAGING
  BY <1>1 DEF INIT_PAGING, Unmarked
<1>2. CASE RequestLoad
  BY <1>2 DEF RequestLoad
<1>3. CASE RequestTest
  BY <1>3 DEF RequestTest
<1>4. CASE RequestBump
  BY <1>4 DEF RequestBump
<1>5. CASE LOCK_PAGE
  BY <1>5 DEF LOCK_PAGE
<1>6. CASE RequestReturn
  BY <1>6 DEF RequestReturn
<1>7. CASE RequestNull
  BY <1>7 DEF RequestNull
<1>8. ASSUME NEW p \in held, FREE_PAGE(p) PROVE OwnInv'
  <2>1. CASE disturbed'
    BY <2>1
  <2>2. CASE ~disturbed'
    <3>1. /\ ~disturbed /\ (pc = "idle" \/ ~(p <= page_index))
          /\ inited /\ UNCHANGED <<inited, pc, reg>> /\ held' = held \ {p}
      BY <1>8, <2>2 DEF FREE_PAGE
    <3>2. p \in pages_used /\ p \notin BootRange /\ (pc = "return" => p # reg)
      BY <3>1
    <3>3. /\ pages_used' = pages_used \ {p}
          /\ page_index' = IF p < page_index THEN p ELSE page_index
      BY <1>8, <3>2 DEF FREE_PAGE
    <3>4. Undisturbed'
      BY <2>2, <3>1, <3>2, <3>3
    <3>5. HintNotPastFree'
      BY <2>2, <3>1, <3>2, <3>3
    <3>6. EveryPageOwned'
      BY <2>2, <3>1, <3>2, <3>3
    <3> QED
      BY <3>4, <3>5, <3>6
  <2> QED
    BY <2>1, <2>2
<1>9. CASE UNCHANGED vars
  BY <1>9 DEF vars
<1> QED
  BY <1>1, <1>2, <1>3, <1>4, <1>5, <1>6, <1>7, <1>8, <1>9 DEF Next, REQUEST_PAGE

\* As long as no page at or below the hint is freed in the middle of
\* REQUEST_PAGE, page_index is never past a free page.
THEOREM HintCorrect == Spec => []HintNotPastFree
<1>1. OwnInv => HintNotPastFree
  BY DEF OwnInv
<1>2. OwnInv /\ [Next]_vars => OwnInv'
  BY OwnStep
<1> QED
  BY <1>1, <1>2, OwnInit, PTL DEF Spec

\* Under the same condition no page is leaked and none has two owners.
THEOREM OwnershipCorrect == Spec => []EveryPageOwned
<1>1. OwnInv => EveryPageOwned
  BY DEF OwnInv
<1>2. OwnInv /\ [Next]_vars => OwnInv'
  BY OwnStep
<1> QED
  BY <1>1, <1>2, OwnInit, PTL DEF Spec

\* Under the same condition REQUEST_PAGE hands out the lowest free page, to
\* one caller, and returns NULL only when no page is free.
THEOREM FirstFitCorrect == Spec => GrantsLowestFree
<1> DEFINE Grant == ~disturbed =>
        /\ RequestReturn => /\ page_index \notin held
                            /\ \A p \in Pages : p < page_index => p \in pages_used
        /\ RequestNull => Pages \subseteq pages_used
<1>1. OwnInv /\ [Next]_vars => [Grant]_vars
  <2> SUFFICES ASSUME OwnInv, ~disturbed PROVE Grant
    OBVIOUS
  <2>1. RequestReturn => /\ page_index \notin held
                         /\ \A p \in Pages : p < page_index => p \in pages_used
    BY DEF OwnInv, Undisturbed, HintNotPastFree, EveryPageOwned, InFlight, RequestReturn
  <2>2. RequestNull => Pages \subseteq pages_used
    BY TotalPages DEF OwnInv, TypeInv, TypeOK, Undisturbed, HintNotPastFree, RequestNull, Pages
  <2> QED
    BY <2>1, <2>2
<1>2. OwnInv /\ [Next]_vars => OwnInv'
  BY OwnStep
<1> QED
  BY <1>1, <1>2, OwnInit, PTL DEF Spec, GrantsLowestFree

-----------------------------------------------------------------------------
(* PageTables: least elements. *)

LEMMA LeastNatural ==
    ASSUME NEW S \in SUBSET Nat, S # {}
    PROVE  \E i \in S : \A k \in S : i <= k
<1>1. PICK i \in S : \A k \in S : <<k, i>> \notin OpToRel(<, Nat)
  BY NatLessThanWellFounded, WFMin, Zenon
<1>2. ASSUME NEW k \in S PROVE i <= k
  <2>1. <<k, i>> \notin {ss \in Nat \X Nat : ss[1] < ss[2]}
    BY <1>1 DEF OpToRel
  <2> QED
    BY <2>1
<1> QED
  BY <1>2

\* A property of the numbers from 1 to n, from each to the next.
LEMMA LeastLevel ==
    ASSUME NEW n \in Nat, NEW S \in SUBSET (1 .. n), 1 \notin S, S # {}
    PROVE  \E i \in S : i \in 2 .. n /\ i - 1 \in 1 .. (n - 1) /\ i - 1 \notin S
<1>1. S \in SUBSET Nat
  OBVIOUS
<1>2. PICK i \in S : \A k \in S : i <= k
  BY <1>1, LeastNatural
<1>3. i \in 2 .. n
  OBVIOUS
<1>4. i - 1 \notin S
  BY <1>2, <1>3
<1> QED
  BY <1>3, <1>4

-----------------------------------------------------------------------------
(* The digits of a page number. *)

\* Span is the function its definition says.
SpanTo(g, n) ==
    /\ g \in [0 .. n -> Nat \ {0}]
    /\ \A k \in 0 .. n : g[k] = IF k = 0 THEN 1 ELSE Fan * g[k - 1]

LEMMA SpansExist == ASSUME NEW n \in Nat PROVE \E g : SpanTo(g, n)
<1> DEFINE S == {k \in Nat : ~\E g : SpanTo(g, k)}
<1> SUFFICES ASSUME S # {} PROVE FALSE
  OBVIOUS
<1>1. PICK i \in S : \A k \in S : i <= k
  BY LeastNatural
<1>2. CASE i = 0
  <2> DEFINE g == [k \in 0 .. 0 |-> 1]
  <2>1. SpanTo(g, 0)
    BY DEF SpanTo
  <2> QED
    BY <1>2, <2>1
<1>3. CASE i # 0
  <2>1. i - 1 \in Nat /\ i - 1 \notin S
    BY <1>1, <1>3
  <2>2. PICK h : SpanTo(h, i - 1)
    BY <2>1
  <2> DEFINE g == [k \in 0 .. i |-> IF k = i THEN Fan * h[i - 1] ELSE h[k]]
  <2>3. h[i - 1] \in Nat \ {0} /\ Fan * h[i - 1] \in Nat \ {0}
    <3>1. h[i - 1] \in Nat \ {0}
      BY <2>1, <2>2 DEF SpanTo
    <3>2. \A x \in Nat \ {0}, y \in Nat \ {0} : x * y \in Nat \ {0}
      OBVIOUS
    <3> QED
      BY <3>1, <3>2, PageTablesAssumption
  <2>4. g \in [0 .. i -> Nat \ {0}]
    BY <2>2, <2>3 DEF SpanTo
  <2>5. ASSUME NEW k \in 0 .. i PROVE g[k] = IF k = 0 THEN 1 ELSE Fan * g[k - 1]
    <3>1. CASE k = i
      BY <1>3, <3>1
    <3>2. CASE k # i
      <4>1. k \in 0 .. (i - 1) /\ g[k] = h[k]
        BY <3>2
      <4>2. k # 0 => g[k - 1] = h[k - 1]
        BY <4>1
      <4> QED
        BY <2>2, <4>1, <4>2 DEF SpanTo
    <3> QED
      BY <3>1, <3>2
  <2>6. SpanTo(g, i)
    BY <2>4, <2>5 DEF SpanTo
  <2> QED
    BY <2>6
<1> QED
  BY <1>2, <1>3

LEMMA SpanIs == SpanTo(Span, Depth)
<1>1. Depth \in Nat
  BY PageTablesAssumption
<1>2. PICK g : SpanTo(g, Depth)
  BY <1>1, SpansExist
<1>3. g = [k \in 0 .. Depth |-> IF k = 0 THEN 1 ELSE Fan * g[k - 1]]
  <2>1. g = [k \in 0 .. Depth |-> g[k]]
    BY <1>2 DEF SpanTo
  <2> QED
    BY <1>2, <2>1 DEF SpanTo
<1>4. Span = [k \in 0 .. Depth |-> IF k = 0 THEN 1 ELSE Fan * Span[k - 1]]
  BY <1>3 DEF Span
<1> DEFINE P(k) == Span[k] \in Nat \ {0}
<1>5. \A k \in 0 .. Depth : Span[k] \in Nat \ {0}
  <2> DEFINE S == {k \in 0 .. Depth : Span[k] \notin Nat \ {0}}
  <2> SUFFICES ASSUME S # {} PROVE FALSE
    OBVIOUS
  <2>1. S \in SUBSET Nat
    OBVIOUS
  <2>2. PICK i \in S : \A k \in S : i <= k
    BY <2>1, LeastNatural
  <2>3. i # 0
    BY <1>4
  <2>4. i - 1 \in 0 .. Depth /\ i - 1 \notin S
    BY <1>1, <2>2, <2>3
  <2>5. Span[i - 1] \in Nat \ {0} /\ Span[i] = Fan * Span[i - 1]
    BY <1>4, <2>3, <2>4
  <2>6. \A x \in Nat \ {0}, y \in Nat \ {0} : x * y \in Nat \ {0}
    OBVIOUS
  <2> QED
    BY <2>5, <2>6, PageTablesAssumption
<1> QED
  BY <1>4, <1>5 DEF SpanTo

\* Division has one result.
LEMMA OneQuotient ==
    ASSUME NEW d \in Nat \ {0}, NEW n \in Int, NEW q \in Int, NEW r \in Int,
           n = d * q + r, 0 <= r, r < d
    PROVE  n \div d = q
<1>1. PICK p \in Int, s \in Int : p = n \div d /\ n = d * p + s /\ 0 <= s /\ s < d
  <2>1. n \div d \in Int /\ n % d \in Int /\ n = d * (n \div d) + (n % d) /\ 0 <= n % d /\ n % d < d
    OBVIOUS
  <2> QED
    BY <2>1
<1>2. d * (p - q) = r - s
  BY <1>1
<1>3. \A x \in Int : x >= 1 => d * x >= d
  OBVIOUS
<1>4. \A x \in Int : x <= -1 => d * x <= -d
  OBVIOUS
<1>5. p - q \in Int
  OBVIOUS
<1>6. ~(p - q >= 1)
  BY <1>1, <1>2, <1>3, <1>5
<1>7. ~(p - q <= -1)
  BY <1>1, <1>2, <1>4, <1>5
<1> QED
  BY <1>1, <1>6, <1>7

\* Going down a level appends a digit.
LEMMA NextDigit ==
    ASSUME NEW v \in Int, NEW s \in Nat \ {0}, NEW f \in Nat \ {0}
    PROVE  v \div s = f * (v \div (f * s)) + ((v \div s) % f)
<1>1. PICK a \in Int, x \in Int : a = v \div s /\ v = s * a + x /\ 0 <= x /\ x < s
  <2>1. v \div s \in Int /\ v % s \in Int /\ v = s * (v \div s) + (v % s) /\ 0 <= v % s /\ v % s < s
    OBVIOUS
  <2> QED
    BY <2>1
<1>2. PICK q \in Int, r \in Int : r = a % f /\ a = f * q + r /\ 0 <= r /\ r < f
  <2>1. a \div f \in Int /\ a % f \in Int /\ a = f * (a \div f) + (a % f) /\ 0 <= a % f /\ a % f < f
    OBVIOUS
  <2> QED
    BY <2>1
<1>3. PICK d \in Nat \ {0} : d = f * s
  <2>1. \A y \in Nat \ {0}, z \in Nat \ {0} : y * z \in Nat \ {0}
    OBVIOUS
  <2> QED
    BY <2>1
<1>4. PICK y \in Int : y = s * r + x
  OBVIOUS
<1>5. s * a = s * (f * q) + s * r
  BY <1>2
<1>6. s * (f * q) = d * q
  BY <1>3
<1>7. v = d * q + y
  BY <1>1, <1>4, <1>5, <1>6
<1>8. 0 <= y /\ y < d
  <2>1. s * r >= 0
    BY <1>2
  <2>2. r + 1 <= f
    BY <1>2
  <2>3. s * (r + 1) <= s * f
    BY <1>2, <2>2
  <2>4. s * (r + 1) = s * r + s /\ s * f = d
    BY <1>2, <1>3
  <2>5. s * r \in Int
    BY <1>2
  <2> QED
    BY <1>1, <1>3, <1>4, <2>1, <2>3, <2>4, <2>5
<1>9. v \div d = q
  BY <1>3, <1>4, <1>7, <1>8, OneQuotient
<1>a. v \div (f * s) = q
  BY <1>3, <1>9
<1>b. a = f * q + (a % f)
  BY <1>2
<1> QED
  BY <1>1, <1>a, <1>b, Zenon

LEMMA OffsetInside ==
    ASSUME NEW v \in VirtPages, NEW i \in 1 .. Depth PROVE Offset(v, i) \in Idx
<1>1. Depth - i \in 0 .. Depth
  BY PageTablesAssumption
<1>2. PICK s \in Nat \ {0} : s = Span[Depth - i]
  BY <1>1, SpanIs DEF SpanTo
<1>3. PICK a \in Int : a = v \div s
  BY DEF VirtPages
<1>4. a % Fan \in Idx
  BY PageTablesAssumption DEF Idx
<1> QED
  BY <1>2, <1>3, <1>4 DEF Offset

Levels == 1 .. Depth

\* Two pages whose walks are the same down to a level.
Alike(v, w, i) == \A k \in 1 .. (i - 1) : Offset(v, k) = Offset(w, k)

\* The digits make the page.
LEMMA OffsetsTell ==
    ASSUME NEW v \in VirtPages, NEW w \in VirtPages, Alike(v, w, Depth + 1)
    PROVE  v = w
<1> DEFINE Upper(x, i) == x \div Span[Depth - i]
           S == {i \in 0 .. Depth : Upper(v, i) # Upper(w, i)}
<1>1. Depth \in Nat
  BY PageTablesAssumption
<1>2. Span[0] = 1 /\ Span[Depth] \in Nat \ {0}
  BY <1>1, SpanIs DEF SpanTo
<1>3. v \in Int /\ w \in Int /\ 0 <= v /\ 0 <= w /\ v < Span[Depth] /\ w < Span[Depth]
  BY <1>2 DEF VirtPages
<1>4. v # w => Depth \in S
  <2>1. Depth - Depth = 0 /\ Depth \in 0 .. Depth
    BY <1>1
  <2>2. v \div 1 = v /\ w \div 1 = w
    BY <1>3
  <2> QED
    BY <1>2, <2>1, <2>2
<1>5. 0 \notin S
  <2>1. v \div Span[Depth] = 0 /\ w \div Span[Depth] = 0
    <3>1. PICK d \in Nat \ {0} : d = Span[Depth]
      BY <1>2
    <3>2. v = d * 0 + v /\ w = d * 0 + w /\ v < d /\ w < d
      BY <1>3, <3>1
    <3>3. v \div d = 0 /\ w \div d = 0
      BY <1>3, <3>2, OneQuotient
    <3> QED
      BY <3>1, <3>3
  <2>2. Depth - 0 = Depth
    BY <1>1
  <2> QED
    BY <2>1, <2>2
<1>6. ASSUME S # {} PROVE FALSE
  <2> HIDE DEF Upper
  <2>1. S \in SUBSET Nat
    OBVIOUS
  <2>2. PICK i \in S : \A k \in S : i <= k
    BY <1>6, <2>1, LeastNatural
  <2>3. i \in 1 .. Depth
    BY <1>5
  <2>4. i - 1 \in 0 .. Depth /\ i - 1 \notin S
    BY <1>1, <2>2, <2>3
  <2>5. PICK s \in Nat \ {0} : s = Span[Depth - i] /\ Fan * s = Span[Depth - (i - 1)]
    <3>1. Depth - i \in 0 .. Depth /\ Depth - (i - 1) \in 0 .. Depth /\ Depth - (i - 1) # 0
          /\ (Depth - (i - 1)) - 1 = Depth - i
      BY <1>1, <2>3
    <3> QED
      BY <3>1, SpanIs DEF SpanTo
  <2>6. Offset(v, i) = Offset(w, i)
    <3>1. i \in 1 .. ((Depth + 1) - 1)
      BY <1>1, <2>3
    <3> QED
      BY <3>1 DEF Alike
  <2>7. v \div (Fan * s) = w \div (Fan * s)
    BY <2>4, <2>5 DEF Upper
  <2>8. (v \div s) % Fan = (w \div s) % Fan
    BY <2>5, <2>6 DEF Offset
  <2>9. v \div s = w \div s
    <3>1. /\ v \div s = Fan * (v \div (Fan * s)) + ((v \div s) % Fan)
          /\ w \div s = Fan * (w \div (Fan * s)) + ((w \div s) % Fan)
      BY <1>3, NextDigit, PageTablesAssumption
    <3> QED
      BY <2>7, <2>8, <3>1, Zenon
  <2> QED
    BY <2>2, <2>5, <2>9 DEF Upper
<1> QED
  BY <1>4, <1>6

-----------------------------------------------------------------------------
(* The walk through the tables. *)

\* The tables that those of one level lead to.
Entered(m, v, S, i) ==
    {m[p][Offset(v, i)].adr : p \in {q \in S : PT_GET_FLAG(m[q][Offset(v, i)])}}

PathTo(g, n, m, top, v) ==
    g = [i \in 1 .. n |-> IF i = 1 THEN {top} ELSE Entered(m, v, g[i - 1], i - 1)]

LEMMA PathsExist ==
    ASSUME NEW n \in Nat, NEW m, NEW top, NEW v PROVE \E g : PathTo(g, n, m, top, v)
<1> DEFINE S == {k \in Nat : ~\E g : PathTo(g, k, m, top, v)}
<1> SUFFICES ASSUME S # {} PROVE FALSE
  OBVIOUS
<1>1. PICK n0 \in S : \A k \in S : n0 <= k
  BY LeastNatural
<1>2. CASE n0 = 0
  <2> DEFINE g == [i \in 1 .. 0 |-> {}]
  <2>1. g = [i \in 1 .. 0 |-> IF i = 1 THEN {top} ELSE Entered(m, v, g[i - 1], i - 1)]
    OBVIOUS
  <2> QED
    BY <1>2, <2>1 DEF PathTo
<1>3. CASE n0 # 0
  <2>1. n0 - 1 \in Nat /\ n0 - 1 \notin S
    BY <1>1, <1>3
  <2>2. PICK h : PathTo(h, n0 - 1, m, top, v)
    BY <2>1
  <2> DEFINE next == IF n0 = 1 THEN {top} ELSE Entered(m, v, h[n0 - 1], n0 - 1)
             g == [i \in 1 .. n0 |-> IF i = n0 THEN next ELSE h[i]]
  <2>3. ASSUME NEW i \in 1 .. n0
        PROVE  g[i] = IF i = 1 THEN {top} ELSE Entered(m, v, g[i - 1], i - 1)
    <3>1. i # 1 => i - 1 \in 1 .. n0 /\ i - 1 # n0
      BY <1>3
    <3>2. i # 1 => g[i - 1] = h[i - 1]
      BY <3>1
    <3>3. i # n0 => i \in 1 .. (n0 - 1)
      BY <1>3
    <3>4. i # n0 => h[i] = IF i = 1 THEN {top} ELSE Entered(m, v, h[i - 1], i - 1)
      BY <2>2, <3>3 DEF PathTo
    <3> QED
      BY <3>2, <3>4
  <2> DEFINE G == [i \in 1 .. n0 |-> IF i = 1 THEN {top} ELSE Entered(m, v, g[i - 1], i - 1)]
  <2>4. g = G
    <3>1. \A i \in 1 .. n0 : g[i] = G[i]
      BY <2>3
    <3>2. g = [i \in 1 .. n0 |-> g[i]] /\ G = [i \in 1 .. n0 |-> G[i]]
      OBVIOUS
    <3> QED
      BY <3>1, <3>2
  <2>5. PathTo(g, n0, m, top, v)
    BY <2>4 DEF PathTo
  <2> QED
    BY <2>5
<1> QED
  BY <1>2, <1>3

LEMMA PathIs == ASSUME NEW m, NEW top, NEW v PROVE PathTo(PathIn(m, top, v), Depth, m, top, v)
<1>1. PICK g : PathTo(g, Depth, m, top, v)
  BY PathsExist, PageTablesAssumption
<1> DEFINE F == CHOOSE f : PathTo(f, Depth, m, top, v)
<1>2. PathTo(F, Depth, m, top, v)
  BY <1>1
<1>3. PathIn(m, top, v) = F
  BY DEF PathIn, PathTo, Entered
<1> QED
  BY <1>2, <1>3

LEMMA PathFirst == ASSUME NEW m, NEW top, NEW v PROVE PathIn(m, top, v)[1] = {top}
<1>1. 1 \in 1 .. Depth
  BY PageTablesAssumption
<1>2. PathIn(m, top, v) =
        [k \in 1 .. Depth |-> IF k = 1 THEN {top}
                              ELSE Entered(m, v, PathIn(m, top, v)[k - 1], k - 1)]
  BY PathIs DEF PathTo
<1> QED
  BY <1>1, <1>2

LEMMA PathNext ==
    ASSUME NEW m, NEW top, NEW v, NEW i \in 2 .. Depth
    PROVE  PathIn(m, top, v)[i] = Entered(m, v, PathIn(m, top, v)[i - 1], i - 1)
<1>1. i \in 1 .. Depth /\ i # 1
  BY PageTablesAssumption
<1>2. PathIn(m, top, v) =
        [k \in 1 .. Depth |-> IF k = 1 THEN {top}
                              ELSE Entered(m, v, PathIn(m, top, v)[k - 1], k - 1)]
  BY PathIs DEF PathTo
<1> QED
  BY <1>1, <1>2

\* One level on.
LEMMA PathDown ==
    ASSUME NEW m, NEW top, NEW v, NEW i \in 1 .. (Depth - 1)
    PROVE  /\ i \in Levels /\ i + 1 \in Levels
           /\ \A q : q \in PathIn(m, top, v)[i + 1] <=>
                \E p \in PathIn(m, top, v)[i] :
                    PT_GET_FLAG(m[p][Offset(v, i)]) /\ q = m[p][Offset(v, i)].adr
<1>1. i + 1 \in 2 .. Depth /\ (i + 1) - 1 = i /\ i \in Levels /\ i + 1 \in Levels
  BY PageTablesAssumption DEF Levels
<1>2. PathIn(m, top, v)[i + 1] = Entered(m, v, PathIn(m, top, v)[i], i)
  BY <1>1, PathNext
<1> QED
  BY <1>1, <1>2 DEF Entered

\* There is one table on each level at most.
LEMMA PathSingle ==
    ASSUME NEW m, NEW top, NEW v, NEW i \in Levels,
           NEW p \in PathIn(m, top, v)[i], NEW q \in PathIn(m, top, v)[i]
    PROVE  p = q
<1> DEFINE S == {k \in Levels : \E x, y \in PathIn(m, top, v)[k] : x # y}
<1> SUFFICES ASSUME S # {} PROVE FALSE
  OBVIOUS
<1>1. Depth \in Nat /\ S \in SUBSET (1 .. Depth)
  BY PageTablesAssumption DEF Levels
<1>2. 1 \notin S
  BY PathFirst
<1>3. PICK k \in S : k \in 2 .. Depth /\ k - 1 \in 1 .. (Depth - 1) /\ k - 1 \notin S
  BY <1>1, <1>2, LeastLevel
<1>4. PICK x \in PathIn(m, top, v)[k], y \in PathIn(m, top, v)[k] : x # y
  OBVIOUS
<1>5. PICK l \in 1 .. (Depth - 1) : l = k - 1 /\ k = l + 1
  BY <1>3
<1>6. \A a, b \in PathIn(m, top, v)[l] : a = b
  BY <1>3, <1>5, PathDown
<1>7. PICK a \in PathIn(m, top, v)[l], b \in PathIn(m, top, v)[l] :
        x = m[a][Offset(v, l)].adr /\ y = m[b][Offset(v, l)].adr
  BY <1>4, <1>5, PathDown
<1> QED
  BY <1>4, <1>6, <1>7

\* Pages that are alike down to a level have the same table there.
LEMMA PathAlike ==
    ASSUME NEW m, NEW top, NEW v, NEW w, NEW i \in Levels, Alike(v, w, i)
    PROVE  PathIn(m, top, v)[i] = PathIn(m, top, w)[i]
<1> DEFINE S == {k \in Levels : k <= i /\ PathIn(m, top, v)[k] # PathIn(m, top, w)[k]}
<1> SUFFICES ASSUME S # {} PROVE FALSE
  BY DEF Levels
<1>1. Depth \in Nat /\ S \in SUBSET (1 .. Depth)
  BY PageTablesAssumption DEF Levels
<1>2. PathIn(m, top, v)[1] = {top} /\ PathIn(m, top, w)[1] = {top}
  BY PathFirst
<1>a. 1 \notin S
  BY <1>2
<1>3. PICK k \in S : k \in 2 .. Depth /\ k - 1 \in 1 .. (Depth - 1) /\ k - 1 \notin S
  BY <1>1, <1>a, LeastLevel
<1>4. k - 1 \in Levels /\ k - 1 <= i /\ k - 1 \in 1 .. (i - 1)
  BY <1>3, PageTablesAssumption DEF Levels
<1>5. Offset(v, k - 1) = Offset(w, k - 1)
  BY <1>4 DEF Alike
<1>6. PathIn(m, top, v)[k - 1] = PathIn(m, top, w)[k - 1]
  BY <1>3, <1>4
<1>7. /\ PathIn(m, top, v)[k] = Entered(m, v, PathIn(m, top, v)[k - 1], k - 1)
      /\ PathIn(m, top, w)[k] = Entered(m, w, PathIn(m, top, w)[k - 1], k - 1)
  BY <1>3, PathNext
<1> QED
  BY <1>5, <1>6, <1>7 DEF Entered

\* The last table has the translation.
LEMMA TranslationIs ==
    ASSUME NEW m, NEW top, NEW v
    PROVE  /\ \A p \in PathIn(m, top, v)[Depth] : TranslationIn(m, top, v) = m[p][Offset(v, Depth)]
           /\ PathIn(m, top, v)[Depth] = {} => TranslationIn(m, top, v) = Zero
<1> DEFINE leaf == {m[p][Offset(v, Depth)] : p \in PathIn(m, top, v)[Depth]}
<1>1. TranslationIn(m, top, v) = IF leaf = {} THEN Zero ELSE CHOOSE e \in leaf : TRUE
  BY DEF TranslationIn
<1>2. ASSUME NEW p \in PathIn(m, top, v)[Depth]
      PROVE  TranslationIn(m, top, v) = m[p][Offset(v, Depth)]
  <2>1. Depth \in Levels
    BY PageTablesAssumption DEF Levels
  <2>2. \A q \in PathIn(m, top, v)[Depth] : q = p
    BY <2>1, PathSingle
  <2>3. leaf = {m[p][Offset(v, Depth)]}
    BY <2>2
  <2> QED
    BY <1>1, <2>3
<1>3. PathIn(m, top, v)[Depth] = {} => leaf = {}
  OBVIOUS
<1> QED
  BY <1>1, <1>2, <1>3

-----------------------------------------------------------------------------
(* What a new entry changes. *)

\* The table c is the one of level l on the way to v, and on no other way.
OnlyHere(m, top, v, l, c) ==
    /\ c \in PathIn(m, top, v)[l]
    /\ \A w \in VirtPages, i \in Levels :
         c \in PathIn(m, top, w)[i] => i = l /\ Alike(v, w, l)

\* The walks go through pages, and not through those of N.
Outside(m, top, N) ==
    \A w \in VirtPages, i \in Levels : PathIn(m, top, w)[i] \subseteq VirtPages \ N

\* m2 is m but for the pages of N and entry o of c.
SameElse(m, m2, N, c, o) ==
    \A p \in VirtPages \ N, x \in Idx : p # c \/ x # o => m2[p][x] = m[p][x]

LEMMA AlikeFurther ==
    ASSUME NEW v, NEW w, NEW l \in Levels, Alike(v, w, l), Offset(v, l) = Offset(w, l)
    PROVE  Alike(v, w, l + 1)
<1>1. \A k \in 1 .. ((l + 1) - 1) : k \in 1 .. (l - 1) \/ k = l
  BY PageTablesAssumption DEF Levels
<1> QED
  BY <1>1 DEF Alike

LEMMA AlikeLess ==
    ASSUME NEW v, NEW w, NEW l \in Levels, Alike(v, w, l + 1)
    PROVE  Alike(v, w, l) /\ Offset(v, l) = Offset(w, l)
<1>1. \A k \in 1 .. (l - 1) : k \in 1 .. ((l + 1) - 1)
  BY PageTablesAssumption DEF Levels
<1>2. l \in 1 .. ((l + 1) - 1)
  BY PageTablesAssumption DEF Levels
<1> QED
  BY <1>1, <1>2 DEF Alike

\* A page whose walk ends at a missing entry has no table below it.
LEMMA MissingBelow ==
    ASSUME NEW m, NEW top, NEW v, NEW w, NEW l \in 1 .. (Depth - 1), NEW c,
           OnlyHere(m, top, v, l, c), ~PT_GET_FLAG(m[c][Offset(v, l)]), Alike(v, w, l + 1)
    PROVE  PathIn(m, top, w)[l] = {c} /\ PathIn(m, top, w)[l + 1] = {}
<1>1. l \in Levels /\ l + 1 \in Levels
  BY PathDown
<1>2. Alike(v, w, l) /\ Offset(w, l) = Offset(v, l)
  BY <1>1, AlikeLess
<1>3. PathIn(m, top, w)[l] = PathIn(m, top, v)[l]
  BY <1>1, <1>2, PathAlike
<1>4. PathIn(m, top, w)[l] = {c}
  BY <1>1, <1>3, PathSingle DEF OnlyHere
<1>5. \A q : q \notin PathIn(m, top, w)[l + 1]
  BY <1>2, <1>4, PathDown
<1> QED
  BY <1>4, <1>5

\* In m2 the table c links the cleared page n, where m has no entry.
LinkTo(m, m2, top, v, l, c, n) ==
    /\ OnlyHere(m, top, v, l, c) /\ ~PT_GET_FLAG(m[c][Offset(v, l)])
    /\ Outside(m, top, {n}) /\ SameElse(m, m2, {n}, c, Offset(v, l))
    /\ m2[n] = Cleared /\ PT_GET_FLAG(m2[c][Offset(v, l)]) /\ m2[c][Offset(v, l)].adr = n

GrownBy(m, m2, top, v, l, n) ==
    \A w \in VirtPages, i \in Levels :
        PathIn(m2, top, w)[i] =
            IF i = l + 1 /\ Alike(v, w, l + 1) THEN {n} ELSE PathIn(m, top, w)[i]

\* NewTable links the cleared page n: the walks that ended at the entry now go
\* on to n and end there.
LEMMA LinkPaths ==
    ASSUME NEW m, NEW m2, NEW top, NEW v \in VirtPages, NEW l \in 1 .. (Depth - 1), NEW c, NEW n,
           LinkTo(m, m2, top, v, l, c, n)
    PROVE  GrownBy(m, m2, top, v, l, n)
<1> SUFFICES ASSUME NEW w \in VirtPages, NEW i \in Levels
             PROVE  PathIn(m2, top, w)[i] =
                      IF i = l + 1 /\ Alike(v, w, l + 1) THEN {n} ELSE PathIn(m, top, w)[i]
  BY DEF GrownBy
<1> DEFINE Target(k) == IF k = l + 1 /\ Alike(v, w, l + 1) THEN {n} ELSE PathIn(m, top, w)[k]
           S == {k \in Levels : PathIn(m2, top, w)[k] # Target(k)}
<1> SUFFICES ASSUME S # {} PROVE FALSE
  OBVIOUS
<1>0. l \in Levels /\ l + 1 \in Levels
  BY PathDown
<1>1. Depth \in Nat /\ S \in SUBSET (1 .. Depth)
  BY PageTablesAssumption DEF Levels
<1>2. PathIn(m2, top, w)[1] = {top} /\ PathIn(m, top, w)[1] = {top}
  BY PathFirst
<1>a. /\ OnlyHere(m, top, v, l, c) /\ ~PT_GET_FLAG(m[c][Offset(v, l)])
      /\ Outside(m, top, {n}) /\ SameElse(m, m2, {n}, c, Offset(v, l))
      /\ m2[n] = Cleared /\ PT_GET_FLAG(m2[c][Offset(v, l)]) /\ m2[c][Offset(v, l)].adr = n
  BY DEF LinkTo
<1>b. 1 # l + 1
  OBVIOUS
<1>3. 1 \notin S
  BY <1>2, <1>b
<1> HIDE DEF S
<1>4. PICK k \in S : k \in 2 .. Depth /\ k - 1 \in 1 .. (Depth - 1) /\ k - 1 \notin S
  BY <1>1, <1>3, LeastLevel
<1>5. PICK j \in 1 .. (Depth - 1) : j = k - 1 /\ k = j + 1 /\ j \in Levels
  <2>1. PICK j \in 1 .. (Depth - 1) : j = k - 1 /\ k = j + 1
    BY <1>1, <1>4
  <2> QED
    BY <1>1, <2>1 DEF Levels
<1>6. PathIn(m2, top, w)[k] # Target(k) /\ PathIn(m2, top, w)[j] = Target(j)
  BY <1>4, <1>5 DEF S
<1>7. /\ PathIn(m, top, w)[k] = Entered(m, w, PathIn(m, top, w)[j], j)
      /\ PathIn(m2, top, w)[k] = Entered(m2, w, PathIn(m2, top, w)[j], j)
  BY <1>4, <1>5, PathNext
<1>8. Offset(w, j) \in Idx
  BY <1>5, OffsetInside DEF Levels
<1>9. CASE j = l + 1 /\ Alike(v, w, l + 1)
  <2>1. PathIn(m, top, w)[j] = {}
    BY <1>a, <1>9, MissingBelow
  <2>2. PathIn(m2, top, w)[j] = {n}
    BY <1>6, <1>9
  <2>3. ~PT_GET_FLAG(m2[n][Offset(w, j)])
    BY <1>a, <1>8 DEF Cleared, Zero, PT_GET_FLAG
  <2>4. PathIn(m, top, w)[k] = {} /\ PathIn(m2, top, w)[k] = {}
    BY <1>7, <2>1, <2>2, <2>3 DEF Entered
  <2>5. k # l + 1
    BY <1>5, <1>9
  <2> QED
    BY <1>6, <2>4, <2>5
<1>10. CASE ~(j = l + 1 /\ Alike(v, w, l + 1)) /\ k = l + 1 /\ Alike(v, w, l + 1)
  <2>1. j = l /\ j # l + 1
    BY <1>5, <1>10
  <2>2. PathIn(m2, top, w)[j] = {c}
    BY <1>a, <1>6, <1>10, <2>1, MissingBelow
  <2>3. Offset(w, j) = Offset(v, l)
    BY <1>0, <1>10, <2>1, AlikeLess
  <2>4. PathIn(m2, top, w)[k] = {n}
    BY <1>a, <1>7, <2>2, <2>3 DEF Entered
  <2> QED
    BY <1>6, <1>10, <2>4
<1>11. CASE ~(j = l + 1 /\ Alike(v, w, l + 1)) /\ ~(k = l + 1 /\ Alike(v, w, l + 1))
  <2>1. PathIn(m2, top, w)[j] = PathIn(m, top, w)[j]
    BY <1>6, <1>11
  <2>2. ASSUME NEW p \in PathIn(m, top, w)[j] PROVE m2[p][Offset(w, j)] = m[p][Offset(w, j)]
    <3>1. p \in VirtPages \ {n}
      BY <1>a, <1>5 DEF Outside
    <3>2. ASSUME p = c, Offset(w, j) = Offset(v, l) PROVE FALSE
      <4>1. j = l /\ Alike(v, w, l)
        BY <1>a, <1>5, <3>2 DEF OnlyHere
      <4>2. Alike(v, w, l + 1)
        BY <1>0, <3>2, <4>1, AlikeFurther
      <4> QED
        BY <1>5, <1>11, <4>1, <4>2
    <3> QED
      BY <1>a, <1>8, <3>1, <3>2 DEF SameElse
  <2>3. PathIn(m2, top, w)[k] = PathIn(m, top, w)[k]
    BY <1>7, <2>1, <2>2 DEF Entered
  <2> QED
    BY <1>6, <1>11, <2>3
<1> QED
  BY <1>9, <1>10, <1>11

\* NewTable changes no translation.
LEMMA LinkTranslations ==
    ASSUME NEW m, NEW m2, NEW top, NEW v \in VirtPages, NEW l \in 1 .. (Depth - 1), NEW c, NEW n,
           LinkTo(m, m2, top, v, l, c, n),
           NEW w \in VirtPages
    PROVE  TranslationIn(m2, top, w) = TranslationIn(m, top, w)
<1>a. /\ OnlyHere(m, top, v, l, c) /\ ~PT_GET_FLAG(m[c][Offset(v, l)])
      /\ Outside(m, top, {n}) /\ SameElse(m, m2, {n}, c, Offset(v, l))
      /\ m2[n] = Cleared /\ PT_GET_FLAG(m2[c][Offset(v, l)]) /\ m2[c][Offset(v, l)].adr = n
  BY DEF LinkTo
<1>1. Depth \in Levels /\ Offset(w, Depth) \in Idx
  BY OffsetInside, PageTablesAssumption DEF Levels
<1>2. PathIn(m2, top, w)[Depth] =
        IF Depth = l + 1 /\ Alike(v, w, l + 1) THEN {n} ELSE PathIn(m, top, w)[Depth]
  <2>1. GrownBy(m, m2, top, v, l, n)
    BY LinkPaths
  <2> QED
    BY <1>1, <2>1 DEF GrownBy
<1>3. CASE Depth = l + 1 /\ Alike(v, w, l + 1)
  <2>1. PathIn(m2, top, w)[Depth] = {n} /\ PathIn(m, top, w)[Depth] = {}
    BY <1>a, <1>2, <1>3, MissingBelow
  <2>2. TranslationIn(m2, top, w) = m2[n][Offset(w, Depth)]
    BY <2>1, TranslationIs
  <2>3. TranslationIn(m2, top, w) = Zero
    BY <1>a, <1>1, <2>2 DEF Cleared
  <2> QED
    BY <2>1, <2>3, TranslationIs
<1>4. CASE ~(Depth = l + 1 /\ Alike(v, w, l + 1))
  <2>1. PathIn(m2, top, w)[Depth] = PathIn(m, top, w)[Depth]
    BY <1>2, <1>4
  <2>2. CASE PathIn(m, top, w)[Depth] = {}
    BY <2>1, <2>2, TranslationIs
  <2>3. ASSUME NEW p \in PathIn(m, top, w)[Depth]
        PROVE  TranslationIn(m2, top, w) = TranslationIn(m, top, w)
    <3>1. p \in VirtPages \ {n}
      BY <1>a, <1>1 DEF Outside
    <3>2. p # c
      <4>1. p = c => Depth = l
        BY <1>a, <1>1 DEF OnlyHere
      <4> QED
        BY <4>1, PageTablesAssumption
    <3>3. m2[p][Offset(w, Depth)] = m[p][Offset(w, Depth)]
      BY <1>a, <1>1, <3>1, <3>2 DEF SameElse
    <3> QED
      BY <2>1, <3>3, TranslationIs
  <2> QED
    BY <2>2, <2>3
<1> QED
  BY <1>3, <1>4

\* map_mem_with_flags changes no walk.
LEMMA SetPaths ==
    ASSUME NEW m, NEW m2, NEW top, NEW v \in VirtPages, NEW c,
           OnlyHere(m, top, v, Depth, c), Outside(m, top, {}),
           SameElse(m, m2, {}, c, Offset(v, Depth)),
           NEW w \in VirtPages, NEW i \in Levels
    PROVE  PathIn(m2, top, w)[i] = PathIn(m, top, w)[i]
<1> DEFINE S == {k \in Levels : PathIn(m2, top, w)[k] # PathIn(m, top, w)[k]}
<1> SUFFICES ASSUME S # {} PROVE FALSE
  OBVIOUS
<1>1. Depth \in Nat /\ S \in SUBSET (1 .. Depth)
  BY PageTablesAssumption DEF Levels
<1>2. PathIn(m2, top, w)[1] = {top} /\ PathIn(m, top, w)[1] = {top}
  BY PathFirst
<1>3. 1 \notin S
  BY <1>2
<1> HIDE DEF S
<1>4. PICK k \in S : k \in 2 .. Depth /\ k - 1 \in 1 .. (Depth - 1) /\ k - 1 \notin S
  BY <1>1, <1>3, LeastLevel
<1>5. PICK j \in 1 .. (Depth - 1) : j = k - 1 /\ k = j + 1 /\ j \in Levels
  BY <1>4, PathDown
<1>6. PathIn(m2, top, w)[k] # PathIn(m, top, w)[k] /\ PathIn(m2, top, w)[j] = PathIn(m, top, w)[j]
  BY <1>4, <1>5 DEF S
<1>7. /\ PathIn(m, top, w)[k] = Entered(m, w, PathIn(m, top, w)[j], j)
      /\ PathIn(m2, top, w)[k] = Entered(m2, w, PathIn(m2, top, w)[j], j)
  BY <1>4, <1>5, PathNext
<1>8. Offset(w, j) \in Idx /\ j # Depth
  BY <1>5, OffsetInside, PageTablesAssumption DEF Levels
<1>9. ASSUME NEW p \in PathIn(m, top, w)[j] PROVE m2[p][Offset(w, j)] = m[p][Offset(w, j)]
  BY <1>5, <1>8 DEF Outside, OnlyHere, SameElse
<1> QED
  BY <1>6, <1>7, <1>9 DEF Entered

\* map_mem_with_flags changes the translation of one page.
LEMMA SetTranslations ==
    ASSUME NEW m, NEW m2, NEW top, NEW v \in VirtPages, NEW c,
           OnlyHere(m, top, v, Depth, c), Outside(m, top, {}),
           SameElse(m, m2, {}, c, Offset(v, Depth)),
           NEW w \in VirtPages
    PROVE  /\ v = w => TranslationIn(m2, top, w) = m2[c][Offset(v, Depth)]
           /\ v # w => TranslationIn(m2, top, w) = TranslationIn(m, top, w)
<1>1. Depth \in Levels /\ Offset(w, Depth) \in Idx
  BY OffsetInside, PageTablesAssumption DEF Levels
<1>2. PathIn(m2, top, w)[Depth] = PathIn(m, top, w)[Depth]
  BY <1>1, SetPaths
<1>3. ASSUME v = w PROVE TranslationIn(m2, top, w) = m2[c][Offset(v, Depth)]
  BY <1>2, <1>3, TranslationIs DEF OnlyHere
<1>4. ASSUME v # w PROVE TranslationIn(m2, top, w) = TranslationIn(m, top, w)
  <2>1. CASE PathIn(m, top, w)[Depth] = {}
    BY <1>2, <2>1, TranslationIs
  <2>2. ASSUME NEW p \in PathIn(m, top, w)[Depth]
        PROVE  TranslationIn(m2, top, w) = TranslationIn(m, top, w)
    <3>1. p \in VirtPages
      BY <1>1 DEF Outside
    <3>2. ASSUME p = c, Offset(w, Depth) = Offset(v, Depth) PROVE FALSE
      <4>1. Alike(v, w, Depth)
        BY <1>1, <3>2 DEF OnlyHere
      <4>2. Alike(v, w, Depth + 1)
        BY <1>1, <3>2, <4>1, AlikeFurther
      <4> QED
        BY <1>4, <4>2, OffsetsTell
    <3>3. m2[p][Offset(w, Depth)] = m[p][Offset(w, Depth)]
      BY <1>1, <3>1, <3>2 DEF SameElse
    <3> QED
      BY <1>2, <3>3, TranslationIs
  <2> QED
    BY <2>1, <2>2
<1> QED
  BY <1>3, <1>4

-----------------------------------------------------------------------------
(* The inductive invariant. *)

Active(t) == walkPc[t] # "idle"
Fresh(t) == Active(t) /\ req[t].virt \in FreshPages

\* The loop of navigate_to_PL1 ends at the last level.
LevelInv ==
    \A t \in Callers : /\ walkPc[t] \in {"walk", "new"} => level[t] < Depth
                       /\ walkPc[t] = "set" => level[t] = Depth

\* The tables are pages in use, and a page is the table of one place.
TreeInv ==
    /\ \A v \in VirtPages, i \in Levels : Path(v)[i] \subseteq used \cap Memory
    /\ \A v, w \in VirtPages, i, j \in Levels :
         \A p \in Path(v)[i] : p \in Path(w)[j] => i = j /\ Alike(v, w, i)

\* A walk in progress is on the path of its page.
WalkInv == \A t \in Callers : Active(t) => current_PL[t] \in Path(req[t].virt)[level[t]]

\* What is not mapped is zero.
LeafInv == \A v \in VirtPages : Translation(v) = Zero \/ PT_GET_FLAG(Translation(v))

\* The fresh pages, those on their way into the tables included, are pages in
\* use, no tables, and different.
Given(p) == p \in (used \cap Memory) \ {0} /\ p \notin Tables
Mapped(v) == PT_GET_FLAG(Translation(v))

FreshInv ==
    /\ 0 \in used
    /\ \A v \in FreshPages : Mapped(v) => Given(Translation(v).adr)
    /\ \A v, w \in FreshPages :
         Mapped(v) /\ Mapped(w) /\ Translation(v).adr = Translation(w).adr => v = w
    /\ \A t \in Callers : Fresh(t) =>
         /\ Given(req[t].phys)
         /\ \A v \in FreshPages : Mapped(v) => Translation(v).adr # req[t].phys
         /\ \A u \in Callers : Fresh(u) /\ req[u].phys = req[t].phys => u = t

\* What INIT_PAGING maps is mapped or still to come.
Made(b) == b \notin todo /\ ~(Active(Boot) /\ req[Boot] = b)

OrderInv ==
    /\ \A t \in Callers : Active(t) =>
         \/ req[t].virt \in FreshPages /\ req[t].flags = TableFlags
         \/ t = Boot /\ req[t] \in BootMappings \ todo
    /\ \A b \in BootMappings :
         Translation(b.virt) = IF Made(b) THEN [adr |-> b.phys, flags |-> b.flags] ELSE Zero

DictionaryInv == TreeInv /\ WalkInv /\ LeafInv /\ FreshInv /\ OrderInv

PagingInv == PagingTypeOK /\ LevelInv /\ (lost = {} => DictionaryInv)

-----------------------------------------------------------------------------
(* Types. *)

Request == [virt : VirtPages, phys : VirtPages, flags : SUBSET Flags]

LEMMA FlagsAre == TableFlags \subseteq Flags /\ FbFlags \subseteq Flags
BY DEF TableFlags, FbFlags, Flags

LEMMA FlagsPresent == "Present" \in TableFlags /\ "Present" \in FbFlags
BY DEF TableFlags, FbFlags

LEMMA MemoryInside ==
    Memory \subseteq VirtPages /\ Memory \subseteq Requestable /\ Requestable \subseteq Nat
<1>1. Memory \subseteq Requestable
  BY PageTablesAssumption DEF Memory, Requestable
<1> QED
  BY <1>1, PageTablesAssumption DEF Requestable

LEMMA ZeroPage == 0 \in VirtPages /\ 0 \in Requestable
BY PageTablesAssumption DEF Requestable

LEMMA ZeroEntry == Zero \in PageEntries /\ Cleared \in [Idx -> PageEntries]
<1>1. Zero \in PageEntries
  BY ZeroPage DEF Zero, PageEntries
<1> QED
  BY <1>1 DEF Cleared

LEMMA BootRequests == BootMappings \subseteq Request
BY MemoryInside, FlagsAre, PageTablesAssumption DEF BootMappings, Request

\* REQUEST_PAGE takes the lowest page that is not taken.
LEMMA LowestFreeIs ==
    ASSUME NEW taken
    PROVE  /\ LowestFree(taken) \in Requestable
           /\ (Requestable \ taken) # {} =>
                /\ LowestFree(taken) \notin taken
                /\ \A q \in Requestable \ taken : LowestFree(taken) <= q
<1> DEFINE free == Requestable \ taken
<1>1. CASE free = {}
  BY <1>1, ZeroPage DEF LowestFree
<1>2. CASE free # {}
  <2>1. free \in SUBSET Nat
    BY MemoryInside
  <2>2. \E p \in free : \A q \in free : p <= q
    BY <1>2, <2>1, LeastNatural
  <2>3. LowestFree(taken) = CHOOSE p \in free : \A q \in free : p <= q
    BY <1>2 DEF LowestFree
  <2>4. LowestFree(taken) \in free /\ \A q \in free : LowestFree(taken) <= q
    BY <2>2, <2>3
  <2> QED
    BY <2>4
<1> QED
  BY <1>1, <1>2

LEMMA RequestedIs == RequestedPage \in Requestable /\ RequestedPage \in VirtPages
BY LowestFreeIs, PageTablesAssumption DEF RequestedPage

\* map_pages finds the first mapping left.
First == CHOOSE r \in todo : \A s \in todo : r.virt <= s.virt

LEMMA FirstIs == ASSUME todo \subseteq BootMappings, todo # {} PROVE First \in todo
<1> DEFINE S == {s.virt : s \in todo}
<1>1. \A s \in todo : s.virt \in Nat
  <2>1. VirtPages \subseteq Nat
    BY DEF VirtPages
  <2> QED
    BY <2>1, BootRequests DEF Request
<1>2. S \in SUBSET Nat /\ S # {}
  BY <1>1
<1>3. PICK i \in S : \A k \in S : i <= k
  BY <1>2, LeastNatural
<1>4. PICK r \in todo : r.virt = i
  OBVIOUS
<1>5. \A s \in todo : r.virt <= s.virt
  BY <1>3, <1>4
<1> QED
  BY <1>4, <1>5 DEF First

\* Two mappings of INIT_PAGING are of two pages, none of them fresh.
LEMMA MappingsApart ==
    /\ \A b, d \in BootMappings : b.virt = d.virt => b = d
    /\ \A b \in BootMappings : b.virt \notin FreshPages
BY PageTablesAssumption DEF BootMappings

WalkTypes == PagingTypeOK /\ LevelInv

LEMMA SetEntryType ==
    ASSUME NEW e \in PageEntries, NEW p \in VirtPages, NEW f \in SUBSET Flags
    PROVE  SetEntry(e, p, f) \in PageEntries
BY DEF SetEntry, PageEntries

\* The store of an entry.
LEMMA OneWrite ==
    ASSUME NEW m \in [VirtPages -> [Idx -> PageEntries]], NEW c \in VirtPages, NEW o \in Idx,
           NEW p \in VirtPages, NEW f \in SUBSET Flags, NEW m2,
           m2 = [m EXCEPT ![c][o] = SetEntry(@, p, f)]
    PROVE  /\ m2 \in [VirtPages -> [Idx -> PageEntries]]
           /\ m2[c][o] = SetEntry(m[c][o], p, f)
           /\ SameElse(m, m2, {}, c, o)
<1>1. SetEntry(m[c][o], p, f) \in PageEntries
  BY SetEntryType
<1>2. m2[c] = [m[c] EXCEPT ![o] = SetEntry(@, p, f)] /\ m[c] \in [Idx -> PageEntries]
  OBVIOUS
<1>3. m2[c] \in [Idx -> PageEntries] /\ m2[c][o] = SetEntry(m[c][o], p, f)
      /\ \A x \in Idx : x # o => m2[c][x] = m[c][x]
  BY <1>1, <1>2
<1>4. \A q \in VirtPages : q # c => m2[q] = m[q]
  OBVIOUS
<1>5. m2 \in [VirtPages -> [Idx -> PageEntries]]
  <2>1. \A q \in VirtPages : m2[q] \in [Idx -> PageEntries]
    BY <1>3, <1>4
  <2>2. m2 = [q \in VirtPages |-> m2[q]]
    OBVIOUS
  <2> QED
    BY <2>1, <2>2
<1> QED
  BY <1>3, <1>4, <1>5 DEF SameElse

\* m2 is m with page n cleared and entry o of table c leading to n, and what then holds.
Linking(m, m2, c, o, n, f) ==
    /\ m \in [VirtPages -> [Idx -> PageEntries]] /\ c \in VirtPages /\ o \in Idx
    /\ n \in VirtPages /\ f \in SUBSET Flags
    /\ m2 = [m EXCEPT ![n] = Cleared, ![c][o] = SetEntry(@, n, f)]
Linked(m, m2, c, o, n, f) ==
    m2[n] = Cleared /\ m2[c][o] = SetEntry(m[c][o], n, f) /\ SameElse(m, m2, {n}, c, o)

\* The store of an entry that leads to a cleared page.
LEMMA TwoWrites ==
    ASSUME NEW m, NEW c, NEW o, NEW n, NEW f, NEW m2, Linking(m, m2, c, o, n, f)
    PROVE  /\ m2 \in [VirtPages -> [Idx -> PageEntries]]
           /\ n # c => Linked(m, m2, c, o, n, f)
<1>0. /\ m \in [VirtPages -> [Idx -> PageEntries]] /\ c \in VirtPages /\ o \in Idx
      /\ n \in VirtPages /\ f \in SUBSET Flags
      /\ m2 = [m EXCEPT ![n] = Cleared, ![c][o] = SetEntry(@, n, f)]
  BY DEF Linking
<1>1. Cleared \in [Idx -> PageEntries] /\ Cleared[o] \in PageEntries
  BY <1>0, ZeroEntry
<1>2. SetEntry(Cleared[o], n, f) \in PageEntries /\ SetEntry(m[c][o], n, f) \in PageEntries
  BY <1>0, <1>1, SetEntryType
<1>3. \A q \in VirtPages : q # n /\ q # c => m2[q] = m[q]
  BY <1>0
<1>4. ASSUME n = c PROVE m2[c] \in [Idx -> PageEntries]
  BY <1>0, <1>1, <1>2, <1>4
<1>5. ASSUME n # c
      PROVE  m2[n] = Cleared /\ m2[c] = [m[c] EXCEPT ![o] = SetEntry(@, n, f)]
  BY <1>0, <1>5
<1>6. ASSUME n # c
      PROVE  /\ m2[c] \in [Idx -> PageEntries]
             /\ m2[c][o] = SetEntry(m[c][o], n, f)
             /\ \A x \in Idx : x # o => m2[c][x] = m[c][x]
  BY <1>0, <1>2, <1>5, <1>6
<1>7. m2 \in [VirtPages -> [Idx -> PageEntries]]
  <2>1. \A q \in VirtPages : m2[q] \in [Idx -> PageEntries]
    BY <1>0, <1>1, <1>3, <1>4, <1>5, <1>6
  <2>2. m2 = [q \in VirtPages |-> m2[q]]
    BY <1>0
  <2> QED
    BY <2>1, <2>2
<1> QED
  BY <1>0, <1>3, <1>5, <1>6, <1>7 DEF Linked, SameElse

LEMMA WalkTypesInit == PagingInit => WalkTypes
<1> SUFFICES ASSUME PagingInit PROVE WalkTypes
  OBVIOUS
<1>1. PICK taken \in Reservations : KERNEL_PL4 = LowestFree(taken) /\ used = taken \cup {KERNEL_PL4}
  BY DEF PagingInit
<1>2. taken \subseteq Memory /\ taken # Memory
  BY PageTablesAssumption
<1>3. KERNEL_PL4 \in Requestable /\ KERNEL_PL4 \in Memory
  <2>1. PICK p \in Memory : p \notin taken
    BY <1>2
  <2>2. KERNEL_PL4 \in Requestable /\ KERNEL_PL4 <= p
    BY <1>1, <2>1, LowestFreeIs, MemoryInside
  <2> QED
    BY <2>1, <2>2, PageTablesAssumption DEF Memory, Requestable
<1>4. mem \in [VirtPages -> [Idx -> PageEntries]]
  BY ZeroEntry, PageTablesAssumption DEF PagingInit
<1>5. used \subseteq Requestable
  BY <1>1, <1>2, <1>3, MemoryInside
<1>6. NoReq \in Request
  BY ZeroPage DEF NoReq, Request
<1>7. 1 \in 1 .. Depth /\ 0 \in VirtPages
  BY ZeroPage, PageTablesAssumption
<1> QED
  BY <1>3, <1>4, <1>5, <1>6, <1>7 DEF PagingInit, WalkTypes, PagingTypeOK, LevelInv, Request

LEMMA WalkTypesStep == WalkTypes /\ [PagingNext]_pagingVars => WalkTypes'
<1> SUFFICES ASSUME WalkTypes, [PagingNext]_pagingVars PROVE WalkTypes'
  OBVIOUS
<1>0. /\ mem \in [VirtPages -> [Idx -> PageEntries]]
      /\ used \subseteq Requestable /\ KERNEL_PL4 \in Memory /\ KERNEL_PL4 \in VirtPages
      /\ todo \subseteq BootMappings
      /\ walkPc \in [Callers -> {"idle", "walk", "new", "set"}]
      /\ req \in [Callers -> Request]
      /\ level \in [Callers -> 1 .. Depth]
      /\ current_PL \in [Callers -> VirtPages]
      /\ lost \subseteq {"exhausted", "raced"}
      /\ LevelInv
  BY MemoryInside DEF WalkTypes, PagingTypeOK, Request
<1>a. 1 \in 1 .. Depth /\ 1 < Depth /\ Depth \in Nat
  BY PageTablesAssumption
<1>b. NoReq \in Request /\ 0 \in VirtPages
  BY ZeroPage DEF NoReq, Request
<1>c. ASSUME NEW t \in Callers, NEW r \in Request, Navigate(t, r)
      PROVE  /\ req' \in [Callers -> Request] /\ level' \in [Callers -> 1 .. Depth]
             /\ current_PL' \in [Callers -> VirtPages]
             /\ walkPc' \in [Callers -> {"idle", "walk", "new", "set"}] /\ LevelInv'
  BY <1>0, <1>a, <1>c DEF Navigate, LevelInv
<1>d. ASSUME NEW t \in Callers, NEW table \in VirtPages, walkPc[t] \in {"walk", "new"}, Down(t, table)
      PROVE  /\ level' \in [Callers -> 1 .. Depth] /\ current_PL' \in [Callers -> VirtPages]
             /\ walkPc' \in [Callers -> {"idle", "walk", "new", "set"}] /\ LevelInv'
  <2>1. level[t] < Depth /\ level[t] + 1 \in 1 .. Depth
    BY <1>0, <1>a, <1>d DEF LevelInv
  <2>2. level' = [level EXCEPT ![t] = level[t] + 1]
        /\ current_PL' = [current_PL EXCEPT ![t] = table]
        /\ walkPc' = [walkPc EXCEPT ![t] = IF level[t] + 1 = Depth THEN "set" ELSE "walk"]
    BY <1>d DEF Down
  <2>3. LevelInv'
    BY <1>0, <1>a, <2>1, <2>2 DEF LevelInv
  <2> QED
    BY <1>0, <2>1, <2>2, <2>3
<1>e. ASSUME NEW t \in Callers, Return(t)
      PROVE  /\ req' \in [Callers -> Request] /\ level' \in [Callers -> 1 .. Depth]
             /\ current_PL' \in [Callers -> VirtPages]
             /\ walkPc' \in [Callers -> {"idle", "walk", "new", "set"}] /\ LevelInv'
  BY <1>0, <1>a, <1>b, <1>e DEF Return, LevelInv
<1>f. ASSUME NEW t \in Callers
      PROVE  /\ current_PL[t] \in VirtPages /\ req[t].virt \in VirtPages /\ req[t].phys \in VirtPages
             /\ req[t].flags \in SUBSET Flags
             /\ Offset(req[t].virt, level[t]) \in Idx /\ CurrentEntry(t) \in PageEntries
             /\ Offset(req[t].virt, Depth) \in Idx
  <2>1. current_PL[t] \in VirtPages /\ req[t] \in Request /\ level[t] \in 1 .. Depth
    BY <1>0
  <2>2. req[t].virt \in VirtPages /\ req[t].phys \in VirtPages /\ req[t].flags \in SUBSET Flags
    BY <2>1 DEF Request
  <2>3. Offset(req[t].virt, level[t]) \in Idx /\ Offset(req[t].virt, Depth) \in Idx
    BY <1>a, <2>1, <2>2, OffsetInside
  <2> QED
    BY <1>0, <2>1, <2>2, <2>3 DEF CurrentEntry
<1>1. CASE map_pages
  <2>1. Navigate(Boot, First) /\ todo' = todo \ {First} /\ todo # {} /\ UNCHANGED <<mem, used, KERNEL_PL4, lost>>
    BY <1>1 DEF map_pages, First
  <2>2. First \in Request
    BY <1>0, <2>1, FirstIs, BootRequests
  <2>3. Boot \in Callers
    BY PageTablesAssumption
  <2>4. /\ req' \in [Callers -> Request] /\ level' \in [Callers -> 1 .. Depth]
        /\ current_PL' \in [Callers -> VirtPages]
        /\ walkPc' \in [Callers -> {"idle", "walk", "new", "set"}] /\ LevelInv'
    BY <1>c, <2>1, <2>2, <2>3
  <2>5. todo' \subseteq BootMappings
    BY <1>0, <2>1
  <2> QED
    BY <1>0, <2>1, <2>4, <2>5 DEF WalkTypes, PagingTypeOK, Request
<1>2. ASSUME NEW t \in Callers, NEW v \in FreshPages, request_mapped_pages(t, v) PROVE WalkTypes'
  <2> DEFINE r == [virt |-> v, phys |-> RequestedPage, flags |-> TableFlags]
  <2>1. Navigate(t, r) /\ used' = used \cup {RequestedPage} /\ UNCHANGED <<mem, KERNEL_PL4, todo>>
        /\ lost' \subseteq lost \cup {"exhausted"}
    BY <1>2 DEF request_mapped_pages
  <2>2. r \in Request
    BY RequestedIs, FlagsAre, PageTablesAssumption DEF Request
  <2> HIDE DEF r
  <2>4. /\ req' \in [Callers -> Request] /\ level' \in [Callers -> 1 .. Depth]
        /\ current_PL' \in [Callers -> VirtPages]
        /\ walkPc' \in [Callers -> {"idle", "walk", "new", "set"}] /\ LevelInv'
    BY <1>c, <2>1, <2>2
  <2>5. used' \subseteq Requestable
    BY <1>0, <2>1, RequestedIs
  <2> QED
    BY <1>0, <2>1, <2>4, <2>5 DEF WalkTypes, PagingTypeOK, Request
<1>3. ASSUME NEW t \in Callers, WalkTable(t) PROVE WalkTypes'
  <2>1. /\ walkPc[t] \in {"walk", "new"} /\ Down(t, CurrentEntry(t).adr)
        /\ UNCHANGED <<mem, used, KERNEL_PL4, todo, req, lost>>
    BY <1>3 DEF WalkTable
  <2>2. CurrentEntry(t).adr \in VirtPages
    BY <1>f DEF PageEntries
  <2>3. /\ level' \in [Callers -> 1 .. Depth] /\ current_PL' \in [Callers -> VirtPages]
        /\ walkPc' \in [Callers -> {"idle", "walk", "new", "set"}] /\ LevelInv'
    BY <1>d, <2>1, <2>2
  <2> QED
    BY <1>0, <2>1, <2>3 DEF WalkTypes, PagingTypeOK, Request
<1>4. ASSUME NEW t \in Callers, WalkMissing(t) PROVE WalkTypes'
  <2>1. /\ walkPc[t] = "walk" /\ walkPc' = [walkPc EXCEPT ![t] = "new"]
        /\ UNCHANGED <<mem, used, KERNEL_PL4, todo, req, level, current_PL, lost>>
    BY <1>4 DEF WalkMissing
  <2>2. LevelInv' /\ walkPc' \in [Callers -> {"idle", "walk", "new", "set"}]
    BY <1>0, <2>1 DEF LevelInv
  <2> QED
    BY <1>0, <2>1, <2>2 DEF WalkTypes, PagingTypeOK, Request
<1>5. ASSUME NEW t \in Callers, NewTable(t) PROVE WalkTypes'
  <2>1. /\ walkPc[t] \in {"walk", "new"} /\ Down(t, RequestedPage)
        /\ used' = used \cup {RequestedPage} /\ UNCHANGED <<KERNEL_PL4, todo, req>>
        /\ lost' = lost \cup Failures(t, RequestedPage)
        /\ mem' = [mem EXCEPT ![RequestedPage] = Cleared,
                              ![current_PL[t]][Offset(req[t].virt, level[t])]
                                 = SetEntry(@, RequestedPage, TableFlags)]
    BY <1>5 DEF NewTable
  <2>2. /\ level' \in [Callers -> 1 .. Depth] /\ current_PL' \in [Callers -> VirtPages]
        /\ walkPc' \in [Callers -> {"idle", "walk", "new", "set"}] /\ LevelInv'
    BY <1>d, <2>1, RequestedIs
  <2>3. mem' \in [VirtPages -> [Idx -> PageEntries]]
    <3> DEFINE c == current_PL[t]
               o == Offset(req[t].virt, level[t])
               n == RequestedPage
    <3>1. c \in VirtPages /\ o \in Idx /\ n \in VirtPages /\ TableFlags \in SUBSET Flags
      BY <1>f, RequestedIs, FlagsAre
    <3>2. mem' = [mem EXCEPT ![n] = Cleared, ![c][o] = SetEntry(@, n, TableFlags)]
      BY <2>1
    <3> HIDE DEF c, o, n
    <3>3. Linking(mem, mem', c, o, n, TableFlags)
      BY <1>0, <3>1, <3>2 DEF Linking
    <3> QED
      BY <3>3, TwoWrites, Zenon
  <2>4. used' \subseteq Requestable
    BY <1>0, <2>1, RequestedIs
  <2>5. lost' \subseteq {"exhausted", "raced"}
    BY <1>0, <2>1 DEF Failures
  <2> QED
    BY <1>0, <2>1, <2>2, <2>3, <2>4, <2>5 DEF WalkTypes, PagingTypeOK, Request
<1>6. ASSUME NEW t \in Callers, map_mem_with_flags(t) PROVE WalkTypes'
  <2>1. /\ Return(t) /\ UNCHANGED <<used, KERNEL_PL4, todo, lost>>
        /\ mem' = [mem EXCEPT ![current_PL[t]][Offset(req[t].virt, Depth)]
                                 = SetEntry(@, req[t].phys, req[t].flags)]
    BY <1>6 DEF map_mem_with_flags
  <2>2. mem' \in [VirtPages -> [Idx -> PageEntries]]
    BY <1>0, <1>f, <2>1, OneWrite
  <2>3. /\ req' \in [Callers -> Request] /\ level' \in [Callers -> 1 .. Depth]
        /\ current_PL' \in [Callers -> VirtPages]
        /\ walkPc' \in [Callers -> {"idle", "walk", "new", "set"}] /\ LevelInv'
    BY <1>e, <2>1
  <2> QED
    BY <1>0, <2>1, <2>2, <2>3 DEF WalkTypes, PagingTypeOK, Request
<1>7. CASE UNCHANGED pagingVars
  BY <1>7 DEF WalkTypes, PagingTypeOK, LevelInv, pagingVars, walks
<1> QED
  BY <1>1, <1>2, <1>3, <1>4, <1>5, <1>6, <1>7 DEF PagingNext

\* The types of the tables, the requests and the walks, for every depth and fan.
THEOREM PagingTyped == PagingSpec => []PagingTypeOK
<1>1. WalkTypes => PagingTypeOK
  BY DEF WalkTypes
<1> QED
  BY <1>1, WalkTypesInit, WalkTypesStep, PTL DEF PagingSpec

-----------------------------------------------------------------------------
(* The dictionary. *)

LEMMA TablesAre ==
    /\ \A p : p \in Tables <=> \E v \in VirtPages, i \in Levels : p \in Path(v)[i]
    /\ DictionaryInv => Tables \subseteq used \cap Memory
<1>1. \A p : p \in Tables <=> \E v \in VirtPages, i \in Levels : p \in Path(v)[i]
  BY DEF Tables, Levels
<1>2. ASSUME DictionaryInv, NEW p \in Tables PROVE p \in used \cap Memory
  <2>1. PICK v \in VirtPages, i \in Levels : p \in Path(v)[i]
    BY <1>1
  <2>2. Path(v)[i] \subseteq used \cap Memory
    BY <1>2 DEF DictionaryInv, TreeInv
  <2> QED
    BY <2>1, <2>2
<1> QED
  BY <1>1, <1>2

\* A step that writes no page.
LEMMA NothingWritten ==
    ASSUME mem' = mem, KERNEL_PL4' = KERNEL_PL4
    PROVE  /\ Tables' = Tables
           /\ \A v : Path(v)' = Path(v) /\ Translation(v)' = Translation(v)
BY DEF Tables, Path, Translation

LEMMA LevelsAre == 1 \in Levels /\ Depth \in Levels /\ 1 # Depth
BY PageTablesAssumption DEF Levels

\* The top table is empty, and INIT_PAGING has everything to map.
LEMMA DictionaryInit ==
    PagingInit => DictionaryInv /\ \A v \in VirtPages : Translation(v) = Zero
<1> SUFFICES ASSUME PagingInit PROVE DictionaryInv /\ \A v \in VirtPages : Translation(v) = Zero
  OBVIOUS
<1> DEFINE K == KERNEL_PL4
<1>1. PICK taken \in Reservations : K = LowestFree(taken) /\ used = taken \cup {K}
  BY DEF PagingInit
<1>2. K \in Memory /\ K \in VirtPages /\ 0 \in used
  <2>1. WalkTypes
    BY WalkTypesInit
  <2> QED
    BY <1>1, <2>1, MemoryInside, PageTablesAssumption DEF WalkTypes, PagingTypeOK
<1>3. mem[K] = Cleared
  BY <1>2 DEF PagingInit
<1>4. ASSUME NEW v \in VirtPages, NEW i \in Levels
      PROVE  Path(v)[i] = IF i = 1 THEN {K} ELSE {}
  <2>1. PathIn(mem, K, v)[1] = {K}
    BY PathFirst
  <2> DEFINE S == {k \in Levels : k # 1 /\ PathIn(mem, K, v)[k] # {}}
  <2>2. ASSUME S # {} PROVE FALSE
    <3>1. Depth \in Nat /\ S \in SUBSET (1 .. Depth) /\ 1 \notin S
      BY PageTablesAssumption DEF Levels
    <3>2. PICK k \in S : k \in 2 .. Depth /\ k - 1 \in 1 .. (Depth - 1) /\ k - 1 \notin S
      BY <2>2, <3>1, LeastLevel
    <3>3. PICK j \in 1 .. (Depth - 1) : j = k - 1 /\ k = j + 1
      BY <3>2
    <3>4. PICK p \in PathIn(mem, K, v)[j] : PT_GET_FLAG(mem[p][Offset(v, j)])
      BY <3>2, <3>3, PathDown
    <3>5. j = 1
      BY <3>2, <3>3, <3>4, PathDown
    <3>6. p = K
      BY <2>1, <3>4, <3>5
    <3>7. Offset(v, j) \in Idx
      BY <3>5, LevelsAre, OffsetInside DEF Levels
    <3> QED
      BY <1>3, <3>4, <3>6, <3>7 DEF Cleared, Zero, PT_GET_FLAG
  <2> QED
    BY <2>1, <2>2 DEF Path
<1>5. \A v \in VirtPages : Translation(v) = Zero
  BY <1>4, LevelsAre, TranslationIs DEF Path, Translation
<1>6. TreeInv
  <2>1. K \in used \cap Memory
    BY <1>1, <1>2
  <2>2. \A v, w \in VirtPages : Alike(v, w, 1)
    BY DEF Alike
  <2> QED
    BY <1>4, <2>1, <2>2 DEF TreeInv
<1>7. \A t \in Callers : ~Active(t)
  BY DEF PagingInit, Active
<1>8. ~PT_GET_FLAG(Zero)
  BY DEF Zero, PT_GET_FLAG
<1>9. FreshInv
  BY <1>2, <1>5, <1>7, <1>8, PageTablesAssumption DEF FreshInv, Fresh, Mapped
<1>10. OrderInv
  <2>1. \A b \in BootMappings : b.virt \in VirtPages /\ ~Made(b)
    BY BootRequests DEF Request, PagingInit, Made
  <2> QED
    BY <1>5, <1>7, <2>1 DEF OrderInv
<1> QED
  BY <1>5, <1>6, <1>7, <1>9, <1>10 DEF DictionaryInv, WalkInv, LeafInv

\* What a step keeps that changes no translation and no request.
LEMMA TranslationsKept ==
    ASSUME DictionaryInv, used \subseteq used', todo' = todo, req' = req,
           \A t \in Callers : Active(t)' <=> Active(t),
           \A v \in VirtPages : Translation(v)' = Translation(v),
           \A p : Given(p) => Given(p)'
    PROVE  LeafInv' /\ FreshInv' /\ OrderInv'
<1>1. LeafInv'
  BY DEF DictionaryInv, LeafInv
<1>2. \A v \in FreshPages : v \in VirtPages /\ (Mapped(v)' <=> Mapped(v))
  BY PageTablesAssumption DEF Mapped
<1>3. \A t \in Callers : Fresh(t)' <=> Fresh(t)
  BY DEF Fresh
<1>4. FreshInv'
  BY <1>2, <1>3 DEF DictionaryInv, FreshInv
<1>5. OrderInv'
  <2>1. Boot \in Callers
    BY PageTablesAssumption
  <2>2. \A b \in BootMappings : b.virt \in VirtPages /\ (Made(b)' <=> Made(b))
    BY <2>1, BootRequests DEF Request, Made
  <2> QED
    BY <2>2 DEF DictionaryInv, OrderInv
<1> QED
  BY <1>1, <1>4, <1>5

LEMMA WalkTableKeeps ==
    ASSUME WalkTypes, DictionaryInv, NEW t \in Callers, WalkTable(t) PROVE DictionaryInv'
<1>1. /\ walkPc[t] = "walk" /\ PT_GET_FLAG(CurrentEntry(t))
      /\ current_PL' = [current_PL EXCEPT ![t] = CurrentEntry(t).adr]
      /\ level' = [level EXCEPT ![t] = level[t] + 1]
      /\ walkPc' = [walkPc EXCEPT ![t] = IF level[t] + 1 = Depth THEN "set" ELSE "walk"]
      /\ UNCHANGED <<mem, used, KERNEL_PL4, todo, req>>
  BY DEF WalkTable, Down
<1>2. /\ walkPc \in [Callers -> {"idle", "walk", "new", "set"}]
      /\ level \in [Callers -> 1 .. Depth] /\ current_PL \in [Callers -> VirtPages]
  BY DEF WalkTypes, PagingTypeOK
<1>3. /\ Tables' = Tables
      /\ \A v : Path(v)' = Path(v) /\ Translation(v)' = Translation(v)
  BY <1>1, NothingWritten
<1>4. \A u \in Callers : Active(u)' <=> Active(u)
  BY <1>1, <1>2 DEF Active
<1>5. \A p : Given(p) => Given(p)'
  BY <1>1, <1>3 DEF Given
<1>6. LeafInv' /\ FreshInv' /\ OrderInv'
  BY <1>1, <1>3, <1>4, <1>5, TranslationsKept
<1>7. TreeInv'
  BY <1>1, <1>3 DEF DictionaryInv, TreeInv
<1>8. WalkInv'
  <2> DEFINE v == req[t].virt
  <2>1. level[t] \in 1 .. (Depth - 1)
    BY <1>1, <1>2, PageTablesAssumption DEF WalkTypes, LevelInv
  <2>2. current_PL[t] \in Path(v)[level[t]]
    BY <1>1 DEF DictionaryInv, WalkInv, Active
  <2>3. CurrentEntry(t).adr \in Path(v)[level[t] + 1]
    BY <1>1, <2>1, <2>2, PathDown DEF Path, CurrentEntry
  <2> QED
    BY <1>1, <1>2, <1>3, <1>4, <2>3 DEF DictionaryInv, WalkInv
<1> QED
  BY <1>6, <1>7, <1>8 DEF DictionaryInv

LEMMA WalkMissingKeeps ==
    ASSUME WalkTypes, DictionaryInv, NEW t \in Callers, WalkMissing(t) PROVE DictionaryInv'
<1>1. /\ walkPc[t] = "walk" /\ walkPc' = [walkPc EXCEPT ![t] = "new"]
      /\ UNCHANGED <<mem, used, KERNEL_PL4, todo, req, level, current_PL>>
  BY DEF WalkMissing
<1>2. walkPc \in [Callers -> {"idle", "walk", "new", "set"}]
  BY DEF WalkTypes, PagingTypeOK
<1>3. /\ Tables' = Tables
      /\ \A v : Path(v)' = Path(v) /\ Translation(v)' = Translation(v)
  BY <1>1, NothingWritten
<1>4. \A u \in Callers : Active(u)' <=> Active(u)
  BY <1>1, <1>2 DEF Active
<1>5. \A p : Given(p) => Given(p)'
  BY <1>1, <1>3 DEF Given
<1>6. LeafInv' /\ FreshInv' /\ OrderInv'
  BY <1>1, <1>3, <1>4, <1>5, TranslationsKept
<1>7. TreeInv' /\ WalkInv'
  BY <1>1, <1>3, <1>4 DEF DictionaryInv, TreeInv, WalkInv
<1> QED
  BY <1>6, <1>7 DEF DictionaryInv

\* A call begins: its walk is at the top table, and nothing is written.
LEMMA NavigateKeeps ==
    ASSUME WalkTypes, DictionaryInv, NEW t \in Callers, NEW r, Navigate(t, r),
           mem' = mem, KERNEL_PL4' = KERNEL_PL4, used \subseteq used'
    PROVE  /\ TreeInv' /\ WalkInv' /\ LeafInv'
           /\ \A u \in Callers : Active(u)' <=> (u = t \/ Active(u))
           /\ req'[t] = r /\ \A u \in Callers : u # t => req'[u] = req[u]
<1>1. /\ walkPc' = [walkPc EXCEPT ![t] = "walk"] /\ req' = [req EXCEPT ![t] = r]
      /\ level' = [level EXCEPT ![t] = 1]
      /\ current_PL' = [current_PL EXCEPT ![t] = KERNEL_PL4]
  BY DEF Navigate
<1>2. /\ walkPc \in [Callers -> {"idle", "walk", "new", "set"}] /\ req \in [Callers -> Request]
      /\ level \in [Callers -> 1 .. Depth] /\ current_PL \in [Callers -> VirtPages]
  BY DEF WalkTypes, PagingTypeOK, Request
<1>3. /\ Tables' = Tables
      /\ \A v : Path(v)' = Path(v) /\ Translation(v)' = Translation(v)
  BY NothingWritten
<1>4. \A u \in Callers : Active(u)' <=> (u = t \/ Active(u))
  BY <1>1, <1>2 DEF Active
<1>5. req'[t] = r /\ \A u \in Callers : u # t => req'[u] = req[u]
  BY <1>1, <1>2
<1>6. TreeInv' /\ LeafInv'
  BY <1>3 DEF DictionaryInv, TreeInv, LeafInv
<1>7. WalkInv'
  <2>1. KERNEL_PL4 \in PathIn(mem, KERNEL_PL4, r.virt)[1]
    BY PathFirst
  <2>2. current_PL'[t] = KERNEL_PL4 /\ level'[t] = 1
        /\ \A u \in Callers : u # t => current_PL'[u] = current_PL[u] /\ level'[u] = level[u]
    BY <1>1, <1>2
  <2>3. ASSUME NEW u \in Callers, Active(u)'
        PROVE  current_PL'[u] \in PathIn(mem, KERNEL_PL4, req'[u].virt)[level'[u]]
    <3>1. CASE u = t
      BY <1>5, <2>1, <2>2, <3>1
    <3>2. CASE u # t
      <4>1. current_PL[u] \in PathIn(mem, KERNEL_PL4, req[u].virt)[level[u]]
        BY <1>4, <2>3, <3>2 DEF DictionaryInv, WalkInv, Path
      <4> QED
        BY <1>5, <2>2, <3>2, <4>1
    <3> QED
      BY <3>1, <3>2
  <2> QED
    BY <2>3 DEF WalkInv, Path
<1> QED
  BY <1>4, <1>5, <1>6, <1>7

LEMMA MapPagesKeeps == ASSUME WalkTypes, DictionaryInv, map_pages PROVE DictionaryInv'
<1>1. /\ walkPc[Boot] = "idle" /\ todo # {} /\ Navigate(Boot, First) /\ todo' = todo \ {First}
      /\ UNCHANGED <<mem, used, KERNEL_PL4>>
  BY DEF map_pages, First
<1>2. Boot \in Callers /\ ~Active(Boot) /\ todo \subseteq BootMappings
  BY <1>1, PageTablesAssumption DEF Active, WalkTypes, PagingTypeOK
<1>3. First \in todo /\ First \in BootMappings /\ First.virt \notin FreshPages
  BY <1>1, <1>2, FirstIs, MappingsApart
<1>4. /\ TreeInv' /\ WalkInv' /\ LeafInv'
      /\ \A u \in Callers : Active(u)' <=> (u = Boot \/ Active(u))
      /\ req'[Boot] = First /\ \A u \in Callers : u # Boot => req'[u] = req[u]
  BY <1>1, <1>2, NavigateKeeps
<1>5. /\ Tables' = Tables
      /\ \A v : Path(v)' = Path(v) /\ Translation(v)' = Translation(v)
  BY <1>1, NothingWritten
<1>6. FreshInv'
  <2>1. \A u \in Callers : (Fresh(u)' <=> Fresh(u)) /\ (Fresh(u) => req'[u] = req[u])
    BY <1>2, <1>3, <1>4 DEF Fresh
  <2>2. \A p : Given(p)' <=> Given(p)
    BY <1>1, <1>5 DEF Given
  <2>3. \A v \in FreshPages : Mapped(v)' <=> Mapped(v)
    BY <1>5 DEF Mapped
  <2> QED
    BY <1>1, <1>5, <2>1, <2>2, <2>3 DEF DictionaryInv, FreshInv
<1>7. OrderInv'
  <2>1. \A b \in BootMappings : Made(b)' <=> Made(b)
    BY <1>1, <1>2, <1>3, <1>4 DEF Made
  <2>2. BootMappings' = BootMappings /\ FreshPages' = FreshPages
    BY DEF BootMappings, Memory
  <2> QED
    BY <1>1, <1>2, <1>3, <1>4, <1>5, <2>1, <2>2 DEF DictionaryInv, OrderInv
<1> QED
  BY <1>4, <1>6, <1>7 DEF DictionaryInv

\* A fresh page is a page of memory that nobody uses, not even as a table.
LEMMA RequestKeeps ==
    ASSUME WalkTypes, DictionaryInv, NEW t \in Callers, NEW w \in FreshPages,
           request_mapped_pages(t, w), lost' = {}
    PROVE  DictionaryInv'
<1> DEFINE n == RequestedPage
           r == [virt |-> w, phys |-> n, flags |-> TableFlags]
<1>1. /\ walkPc[t] = "idle" /\ todo = {} /\ walkPc[Boot] = "idle" /\ Navigate(t, r)
      /\ used' = used \cup {n} /\ n \in Memory \ used
      /\ UNCHANGED <<mem, KERNEL_PL4, todo>>
  BY DEF request_mapped_pages
<1>2. Boot \in Callers /\ ~Active(Boot) /\ ~Active(t)
  BY <1>1, PageTablesAssumption DEF Active
<1>3. r.virt = w /\ r.phys = n /\ r.flags = TableFlags
  OBVIOUS
<1> HIDE DEF n, r
<1>4. /\ TreeInv' /\ WalkInv' /\ LeafInv'
      /\ \A u \in Callers : Active(u)' <=> (u = t \/ Active(u))
      /\ req'[t] = r /\ \A u \in Callers : u # t => req'[u] = req[u]
  BY <1>1, NavigateKeeps
<1>5. /\ Tables' = Tables
      /\ \A v : Path(v)' = Path(v) /\ Translation(v)' = Translation(v)
  BY <1>1, NothingWritten
<1>6. \A p : Given(p) => Given(p)' /\ p # n
  BY <1>1, <1>5 DEF Given
<1>7. FreshInv'
  <2>1. 0 \in used /\ n # 0 /\ n \notin Tables
    BY <1>1, TablesAre DEF DictionaryInv, FreshInv
  <2>2. n \in (used' \cap Memory) \ {0} /\ n \notin Tables'
    BY <1>1, <1>5, <2>1
  <2>3. Fresh(t)' /\ \A u \in Callers : u # t => (Fresh(u)' <=> Fresh(u))
    BY <1>3, <1>4 DEF Fresh
  <2>4. \A v \in FreshPages : Mapped(v)' <=> Mapped(v)
    BY <1>5 DEF Mapped
  <2>5. \A v \in FreshPages : Mapped(v) => Given(Translation(v).adr)
    BY DEF DictionaryInv, FreshInv
  <2>6. \A u \in Callers : Fresh(u) => Given(req[u].phys)
    BY DEF DictionaryInv, FreshInv
  <2>7. ASSUME NEW u \in Callers, Fresh(u)'
        PROVE  /\ req'[u].phys \in (used' \cap Memory) \ {0} /\ req'[u].phys \notin Tables'
               /\ \A v \in FreshPages : Mapped(v)' => Translation(v)'.adr # req'[u].phys
               /\ \A x \in Callers : Fresh(x)' /\ req'[x].phys = req'[u].phys => x = u
    <3>1. CASE u = t
      <4>1. req'[u].phys = n
        BY <1>3, <1>4, <3>1
      <4>2. \A v \in FreshPages : Mapped(v)' => Translation(v)'.adr # n
        BY <1>5, <1>6, <2>4, <2>5
      <4>3. \A x \in Callers : Fresh(x)' /\ x # t => req'[x].phys # n
        BY <1>4, <1>6, <2>3, <2>6
      <4> QED
        BY <2>2, <3>1, <4>1, <4>2, <4>3
    <3>2. CASE u # t
      <4>1. Fresh(u) /\ req'[u] = req[u] /\ Given(req[u].phys) /\ req[u].phys # n
        BY <1>4, <1>6, <2>3, <2>6, <2>7, <3>2
      <4>2. /\ \A v \in FreshPages : Mapped(v) => Translation(v).adr # req[u].phys
            /\ \A x \in Callers : Fresh(x) /\ req[x].phys = req[u].phys => x = u
        BY <4>1 DEF DictionaryInv, FreshInv
      <4>3. req'[u].phys \in (used' \cap Memory) \ {0} /\ req'[u].phys \notin Tables'
        BY <1>1, <1>5, <4>1 DEF Given
      <4>4. \A x \in Callers : Fresh(x)' /\ req'[x].phys = req'[u].phys => x = u
        BY <1>3, <1>4, <2>3, <4>1, <4>2
      <4> QED
        BY <1>5, <2>4, <4>1, <4>2, <4>3, <4>4
    <3> QED
      BY <3>1, <3>2
  <2>8. \A v, x \in FreshPages :
          Mapped(v)' /\ Mapped(x)' /\ Translation(v)'.adr = Translation(x)'.adr => v = x
    BY <1>5, <2>4 DEF DictionaryInv, FreshInv
  <2>9. \A v \in FreshPages : Mapped(v)' => /\ Translation(v)'.adr \in (used' \cap Memory) \ {0}
                                            /\ Translation(v)'.adr \notin Tables'
    BY <1>1, <1>5, <2>4, <2>5 DEF Given
  <2>10. 0 \in used'
    BY <1>1, <2>1
  <2> QED
    BY <2>7, <2>8, <2>9, <2>10 DEF FreshInv, Given
<1>8. OrderInv'
  <2>1. \A b \in BootMappings : b # r
    BY <1>3, MappingsApart
  <2>2. \A b \in BootMappings : Made(b)' <=> Made(b)
    BY <1>1, <1>2, <1>4, <2>1 DEF Made
  <2> QED
    BY <1>1, <1>2, <1>3, <1>4, <1>5, <2>2 DEF DictionaryInv, OrderInv
<1> QED
  BY <1>4, <1>7, <1>8 DEF DictionaryInv

\* The table a walk is in is on no other way, and no walk is in a free page.
LEMMA WalkPlace ==
    ASSUME WalkTypes, DictionaryInv, NEW t \in Callers, Active(t),
           NEW v \in VirtPages, v = req[t].virt, NEW l \in Levels, l = level[t],
           NEW c, c = current_PL[t]
    PROVE  /\ OnlyHere(mem, KERNEL_PL4, v, l, c) /\ c \in used \cap VirtPages
           /\ \A N : N \cap used = {} => Outside(mem, KERNEL_PL4, N)
<1>1. c \in Path(v)[l]
  BY DEF DictionaryInv, WalkInv
<1>2. \A w \in VirtPages, i \in Levels : c \in Path(w)[i] => i = l /\ Alike(v, w, l)
  BY <1>1 DEF DictionaryInv, TreeInv
<1>3. \A w \in VirtPages, i \in Levels : Path(w)[i] \subseteq used \cap VirtPages
  BY MemoryInside DEF DictionaryInv, TreeInv
<1>4. OnlyHere(mem, KERNEL_PL4, v, l, c)
  BY <1>1, <1>2 DEF OnlyHere, Path
<1>5. ASSUME NEW N, N \cap used = {} PROVE Outside(mem, KERNEL_PL4, N)
  BY <1>3, <1>5 DEF Outside, Path
<1> QED
  BY <1>1, <1>3, <1>4, <1>5

\* A missing table is a free page, cleared and linked in: the walks that ended
\* at the entry go on to it and end there.
LEMMA NewTableKeeps ==
    ASSUME WalkTypes, DictionaryInv, NEW t \in Callers, NewTable(t), lost' = {}
    PROVE  /\ DictionaryInv'
           /\ \A w \in VirtPages : Translation(w)' = Translation(w)
<1> DEFINE K == KERNEL_PL4
<1>a. /\ mem \in [VirtPages -> [Idx -> PageEntries]]
      /\ walkPc \in [Callers -> {"idle", "walk", "new", "set"}] /\ req \in [Callers -> Request]
      /\ level \in [Callers -> 1 .. Depth] /\ current_PL \in [Callers -> VirtPages]
  BY DEF WalkTypes, PagingTypeOK, Request
<1>b. walkPc[t] = "new" /\ Active(t) /\ level[t] \in 1 .. (Depth - 1) /\ level[t] \in Levels
  BY <1>a, PageTablesAssumption DEF NewTable, Active, WalkTypes, LevelInv, Levels
<1>c. req[t].virt \in VirtPages
  BY <1>a DEF Request
<1>1. PICK v \in VirtPages, l \in 1 .. (Depth - 1), c \in VirtPages, n \in VirtPages :
        v = req[t].virt /\ l = level[t] /\ c = current_PL[t] /\ n = RequestedPage
  BY <1>a, <1>b, <1>c, RequestedIs
<1>2. l \in Levels /\ l + 1 \in Levels /\ l # l + 1 /\ Offset(v, l) \in Idx
  <2>1. l \in Levels /\ l + 1 \in Levels
    BY PathDown
  <2> QED
    BY <2>1, OffsetInside DEF Levels
<1>3. /\ mem' = [mem EXCEPT ![n] = Cleared, ![c][Offset(v, l)] = SetEntry(@, n, TableFlags)]
      /\ used' = used \cup {n} /\ UNCHANGED <<KERNEL_PL4, todo, req>>
      /\ current_PL' = [current_PL EXCEPT ![t] = n]
      /\ level' = [level EXCEPT ![t] = l + 1]
      /\ walkPc' = [walkPc EXCEPT ![t] = IF l + 1 = Depth THEN "set" ELSE "walk"]
  BY <1>1 DEF NewTable, Down
<1>4. n \in Memory \ used /\ ~PT_GET_FLAG(mem[c][Offset(v, l)])
  <2>1. Failures(t, RequestedPage) = {}
    BY DEF NewTable
  <2> QED
    BY <1>1, <2>1 DEF Failures, CurrentEntry
<1>5. n \notin Tables /\ n # c /\ OnlyHere(mem, K, v, l, c) /\ Outside(mem, K, {n})
  <2>1. OnlyHere(mem, K, v, l, c) /\ c \in used /\ Outside(mem, K, {n})
    BY <1>1, <1>2, <1>4, <1>b, WalkPlace
  <2> QED
    BY <1>4, <2>1, TablesAre
<1>6. /\ mem'[n] = Cleared /\ mem'[c][Offset(v, l)] = SetEntry(mem[c][Offset(v, l)], n, TableFlags)
      /\ SameElse(mem, mem', {n}, c, Offset(v, l))
  <2>1. PICK o \in Idx : o = Offset(v, l)
    BY <1>2
  <2>2. mem' = [mem EXCEPT ![n] = Cleared, ![c][o] = SetEntry(@, n, TableFlags)] /\ n # c
    BY <1>3, <1>5, <2>1
  <2>3. mem'[n] = Cleared /\ mem'[c][o] = SetEntry(mem[c][o], n, TableFlags)
        /\ SameElse(mem, mem', {n}, c, o)
    <3>1. TableFlags \in SUBSET Flags
      BY FlagsAre
    <3>2. Linking(mem, mem', c, o, n, TableFlags)
      BY <1>a, <2>2, <3>1 DEF Linking
    <3>3. Linked(mem, mem', c, o, n, TableFlags)
      BY <1>5, <3>2, TwoWrites, Zenon
    <3> QED
      BY <3>3, Zenon DEF Linked
  <2> QED
    BY <2>1, <2>3
<1>7. LinkTo(mem, mem', K, v, l, c, n)
  <2>1. PT_GET_FLAG(mem'[c][Offset(v, l)]) /\ mem'[c][Offset(v, l)].adr = n
    BY <1>6, FlagsPresent DEF SetEntry, PT_GET_FLAG
  <2> QED
    BY <1>4, <1>5, <1>6, <2>1 DEF LinkTo
<1>8. \A w \in VirtPages, i \in Levels :
        Path(w)'[i] = IF i = l + 1 /\ Alike(v, w, l + 1) THEN {n} ELSE Path(w)[i]
  <2>1. GrownBy(mem, mem', K, v, l, n)
    BY <1>7, LinkPaths
  <2> QED
    BY <1>3, <2>1 DEF GrownBy, Path
<1>9. \A w \in VirtPages : Translation(w)' = Translation(w)
  BY <1>3, <1>7, LinkTranslations DEF Translation
<1>10. \A p : p \in Tables' => p \in Tables \/ p = n
  <2>1. \A p : p \in Tables' <=> \E w \in VirtPages, i \in Levels : p \in Path(w)'[i]
    BY DEF Tables, Levels
  <2> QED
    BY <1>8, <2>1, TablesAre
<1>11. \A p : Given(p) => Given(p)'
  BY <1>3, <1>4, <1>10 DEF Given
<1>12. \A u \in Callers : Active(u)' <=> Active(u)
  BY <1>3, <1>a, <1>b DEF Active
<1>13. LeafInv' /\ FreshInv' /\ OrderInv'
  BY <1>3, <1>9, <1>11, <1>12, TranslationsKept
<1>14. TreeInv'
  <2>1. \A w \in VirtPages, i \in Levels : Path(w)[i] \subseteq used \cap Memory
    BY DEF DictionaryInv, TreeInv
  <2>2. ASSUME NEW w \in VirtPages, NEW i \in Levels, NEW p \in Path(w)'[i], p # n
        PROVE  p \in Path(w)[i]
    BY <1>8, <2>2
  <2>3. ASSUME NEW w \in VirtPages, NEW i \in Levels, n \in Path(w)'[i]
        PROVE  i = l + 1 /\ Alike(v, w, l + 1)
    BY <1>4, <1>8, <2>1, <2>3
  <2>4. ASSUME NEW w \in VirtPages, NEW x \in VirtPages, NEW i \in Levels, NEW j \in Levels,
               NEW p \in Path(w)'[i], p \in Path(x)'[j]
        PROVE  i = j /\ Alike(w, x, i)
    <3>1. CASE p = n
      <4>1. i = l + 1 /\ j = l + 1 /\ Alike(v, w, l + 1) /\ Alike(v, x, l + 1)
        BY <2>3, <2>4, <3>1
      <4> QED
        BY <4>1 DEF Alike
    <3>2. CASE p # n
      <4>1. p \in Path(w)[i] /\ p \in Path(x)[j]
        BY <2>2, <2>4, <3>2
      <4> QED
        BY <4>1 DEF DictionaryInv, TreeInv
    <3> QED
      BY <3>1, <3>2
  <2>5. \A w \in VirtPages, i \in Levels : Path(w)'[i] \subseteq used' \cap Memory
    BY <1>3, <1>4, <1>8, <2>1
  <2> QED
    BY <2>4, <2>5 DEF TreeInv
<1>15. WalkInv'
  <2>1. ASSUME NEW u \in Callers, Active(u)'
        PROVE  current_PL'[u] \in PathIn(mem', KERNEL_PL4', req'[u].virt)[level'[u]]
    <3>1. CASE u = t
      <4>1. Path(v)'[l + 1] = {n}
        BY <1>2, <1>8 DEF Alike
      <4> QED
        BY <1>1, <1>3, <1>a, <3>1, <4>1 DEF Path
    <3>2. CASE u # t
      <4>1. req[u].virt \in VirtPages /\ level[u] \in Levels
        BY <1>a DEF Request, Levels
      <4>2. PICK x \in VirtPages, k \in Levels : x = req[u].virt /\ k = level[u]
        BY <4>1
      <4>3. current_PL[u] \in Path(x)[k]
        BY <1>12, <2>1, <4>2 DEF DictionaryInv, WalkInv
      <4>4. ~(k = l + 1 /\ Alike(v, x, l + 1))
        <5> SUFFICES ASSUME k = l + 1, Alike(v, x, l + 1) PROVE FALSE
          OBVIOUS
        <5>1. PathIn(mem, K, x)[l + 1] = {}
          BY <1>4, <1>5, MissingBelow
        <5> QED
          BY <4>3, <5>1 DEF Path
      <4>5. current_PL[u] \in Path(x)'[k]
        BY <1>8, <4>3, <4>4
      <4> QED
        BY <1>3, <1>a, <3>2, <4>2, <4>5 DEF Path
    <3> QED
      BY <3>1, <3>2
  <2> QED
    BY <2>1 DEF WalkInv, Path
<1> QED
  BY <1>9, <1>13, <1>14, <1>15 DEF DictionaryInv

\* The store of map_mem_with_flags is into the entry of its page alone.
LEMMA MapMemKeeps ==
    ASSUME WalkTypes, DictionaryInv, NEW t \in Callers, map_mem_with_flags(t)
    PROVE  /\ DictionaryInv'
           /\ \A w \in VirtPages :
                Translation(w)' = IF w = req[t].virt
                                  THEN SetEntry(Translation(w), req[t].phys, req[t].flags)
                                  ELSE Translation(w)
<1> DEFINE K == KERNEL_PL4
<1>a. /\ mem \in [VirtPages -> [Idx -> PageEntries]]
      /\ walkPc \in [Callers -> {"idle", "walk", "new", "set"}] /\ req \in [Callers -> Request]
      /\ level \in [Callers -> 1 .. Depth] /\ current_PL \in [Callers -> VirtPages]
  BY DEF WalkTypes, PagingTypeOK, Request
<1>b. walkPc[t] = "set" /\ Active(t) /\ level[t] = Depth /\ Depth \in Levels
  BY LevelsAre DEF map_mem_with_flags, Active, WalkTypes, LevelInv
<1>c. req[t].virt \in VirtPages /\ req[t].phys \in VirtPages /\ req[t].flags \in SUBSET Flags
  BY <1>a DEF Request
<1>1. PICK v \in VirtPages, p \in VirtPages, f \in SUBSET Flags, c \in VirtPages, o \in Idx :
        /\ v = req[t].virt /\ p = req[t].phys /\ f = req[t].flags
        /\ c = current_PL[t] /\ o = Offset(v, Depth)
  BY <1>a, <1>b, <1>c, OffsetInside DEF Levels
<1>2. /\ mem' = [mem EXCEPT ![c][o] = SetEntry(@, p, f)]
      /\ UNCHANGED <<used, KERNEL_PL4, todo>>
      /\ walkPc' = [walkPc EXCEPT ![t] = "idle"] /\ req' = [req EXCEPT ![t] = NoReq]
      /\ level' = [level EXCEPT ![t] = 1] /\ current_PL' = [current_PL EXCEPT ![t] = 0]
  BY <1>1 DEF map_mem_with_flags, Return
<1>3. /\ \A u \in Callers : Active(u)' <=> u # t /\ Active(u)
      /\ \A u \in Callers : u # t => req'[u] = req[u] /\ level'[u] = level[u]
                                     /\ current_PL'[u] = current_PL[u]
  BY <1>2, <1>a DEF Active
<1>4. OnlyHere(mem, K, v, Depth, c) /\ Outside(mem, K, {})
  BY <1>1, <1>b, WalkPlace
<1>5. mem'[c][o] = SetEntry(mem[c][o], p, f) /\ SameElse(mem, mem', {}, c, o)
  <2>1. mem' = [mem EXCEPT ![c][o] = SetEntry(@, p, f)]
    BY <1>2
  <2>2. mem \in [VirtPages -> [Idx -> PageEntries]]
    BY <1>a
  <2> QED
    BY <2>1, <2>2, OneWrite
<1>6. \A w \in VirtPages, i \in Levels : Path(w)'[i] = Path(w)[i]
  BY <1>1, <1>2, <1>4, <1>5, SetPaths DEF Path
<1>7. \A q : q \in Tables' <=> q \in Tables
  BY <1>6 DEF Tables, Levels
<1>8. /\ Translation(v)' = SetEntry(Translation(v), p, f)
      /\ \A w \in VirtPages : w # v => Translation(w)' = Translation(w)
  <2>1. Translation(v) = mem[c][o]
    BY <1>1, <1>4, TranslationIs DEF OnlyHere, Translation
  <2>2. SameElse(mem, mem', {}, c, Offset(v, Depth)) /\ mem'[c][Offset(v, Depth)] = mem'[c][o]
    BY <1>1, <1>5
  <2>3. \A w \in VirtPages :
          /\ v = w => TranslationIn(mem', K, w) = mem'[c][o]
          /\ v # w => TranslationIn(mem', K, w) = TranslationIn(mem, K, w)
    BY <1>4, <2>2, SetTranslations
  <2> QED
    BY <1>2, <1>5, <2>1, <2>3 DEF Translation
<1>9. \/ v \in FreshPages /\ f = TableFlags /\ Fresh(t)
      \/ v \notin FreshPages /\ t = Boot /\ req[t] \in BootMappings \ todo /\ ~Fresh(t)
  BY <1>1, <1>b, MappingsApart DEF DictionaryInv, OrderInv, Fresh
<1>10. "Present" \in f /\ PT_GET_FLAG(Translation(v)') /\ Translation(v)'.adr = p
  <2>1. f = TableFlags \/ f = FbFlags
    BY <1>1, <1>9 DEF BootMappings
  <2> QED
    BY <1>8, <2>1, FlagsPresent DEF SetEntry, PT_GET_FLAG
<1>11. TreeInv'
  BY <1>2, <1>6 DEF DictionaryInv, TreeInv
<1>12. WalkInv'
  <2>1. ASSUME NEW u \in Callers, Active(u)'
        PROVE  current_PL'[u] \in PathIn(mem', KERNEL_PL4', req'[u].virt)[level'[u]]
    <3>1. u # t /\ Active(u) /\ req[u].virt \in VirtPages /\ level[u] \in Levels
      BY <1>3, <1>a, <2>1 DEF Request, Levels
    <3>2. PICK x \in VirtPages, k \in Levels : x = req[u].virt /\ k = level[u]
      BY <3>1
    <3>3. current_PL[u] \in Path(x)[k]
      BY <3>1, <3>2 DEF DictionaryInv, WalkInv
    <3>4. current_PL[u] \in Path(x)'[k]
      BY <1>6, <3>3
    <3> QED
      BY <1>3, <3>1, <3>2, <3>4 DEF Path
  <2> QED
    BY <2>1 DEF WalkInv, Path
<1>13. LeafInv'
  BY <1>8, <1>10 DEF DictionaryInv, LeafInv
<1>14. FreshInv'
  <2> DEFINE G == (used \cap Memory) \ {0}
  <2>1. /\ 0 \in used
        /\ \A x \in FreshPages : Mapped(x) => Given(Translation(x).adr)
        /\ \A x, y \in FreshPages :
             Mapped(x) /\ Mapped(y) /\ Translation(x).adr = Translation(y).adr => x = y
        /\ \A u \in Callers : Fresh(u) =>
             /\ Given(req[u].phys)
             /\ \A x \in FreshPages : Mapped(x) => Translation(x).adr # req[u].phys
             /\ \A s \in Callers : Fresh(s) /\ req[s].phys = req[u].phys => s = u
    BY DEF DictionaryInv, FreshInv
  <2>2. FreshPages \subseteq VirtPages
    BY PageTablesAssumption
  <2>3. \A q : Given(q) => q \in G /\ q \notin Tables'
    BY <1>7 DEF Given
  <2> HIDE DEF G
  <2>4. \A x \in FreshPages : /\ x # v => Mapped(x)' = Mapped(x)
                              /\ x = v => Mapped(x)'
    BY <1>8, <1>10, <2>2 DEF Mapped
  <2>5. \A u \in Callers : Fresh(u)' <=> u # t /\ Fresh(u)
    BY <1>3 DEF Fresh
  <2>6. v \in FreshPages => /\ Given(p)
                            /\ \A x \in FreshPages : Mapped(x) => Translation(x).adr # p
                            /\ \A u \in Callers : u # t /\ Fresh(u) => req[u].phys # p
    BY <1>1, <1>9, <2>1
  <2>7. ASSUME NEW x \in FreshPages, Mapped(x)'
        PROVE  Translation(x)'.adr \in G /\ Translation(x)'.adr \notin Tables'
    <3>1. CASE x = v
      BY <1>10, <2>3, <2>6, <3>1
    <3>2. CASE x # v
      BY <1>8, <2>1, <2>2, <2>3, <2>4, <2>7, <3>2
    <3> QED
      BY <3>1, <3>2
  <2>8. ASSUME NEW x \in FreshPages, NEW y \in FreshPages, Mapped(x)', Mapped(y)',
               Translation(x)'.adr = Translation(y)'.adr
        PROVE  x = y
    BY <1>8, <1>10, <2>1, <2>2, <2>4, <2>6, <2>8
  <2>9. ASSUME NEW u \in Callers, Fresh(u)'
        PROVE  /\ req'[u].phys \in G /\ req'[u].phys \notin Tables'
               /\ \A x \in FreshPages : Mapped(x)' => Translation(x)'.adr # req'[u].phys
               /\ \A s \in Callers : Fresh(s)' /\ req'[s].phys = req'[u].phys => s = u
    <3>1. u # t /\ Fresh(u) /\ req'[u] = req[u]
      BY <1>3, <2>5, <2>9
    <3>2. req'[u].phys \in G /\ req'[u].phys \notin Tables'
      BY <2>1, <2>3, <3>1
    <3>3. ASSUME NEW x \in FreshPages, Mapped(x)' PROVE Translation(x)'.adr # req'[u].phys
      <4>1. CASE x = v
        BY <1>10, <2>6, <3>1, <4>1
      <4>2. CASE x # v
        BY <1>8, <2>1, <2>2, <2>4, <3>1, <3>3, <4>2
      <4> QED
        BY <4>1, <4>2
    <3>4. \A s \in Callers : Fresh(s)' /\ req'[s].phys = req'[u].phys => s = u
      BY <1>3, <2>1, <2>5, <3>1
    <3> QED
      BY <3>2, <3>3, <3>4
  <2>10. 0 \in used' /\ G = (used' \cap Memory) \ {0}
    BY <1>2, <2>1 DEF G
  <2> QED
    BY <2>7, <2>8, <2>9, <2>10 DEF FreshInv, Given
<1>15. OrderInv'
  <2>1. ASSUME NEW u \in Callers, Active(u)'
        PROVE  \/ req'[u].virt \in FreshPages /\ req'[u].flags = TableFlags
               \/ u = Boot /\ req'[u] \in BootMappings \ todo'
    <3>1. u # t /\ Active(u) /\ req'[u] = req[u] /\ todo' = todo
      BY <1>2, <1>3, <2>1
    <3> QED
      BY <3>1 DEF DictionaryInv, OrderInv
  <2>2. ASSUME NEW b \in BootMappings
        PROVE  Translation(b.virt)' =
                 IF Made(b)' THEN [adr |-> b.phys, flags |-> b.flags] ELSE Zero
    <3>1. b.virt \in VirtPages /\ b.virt \notin FreshPages /\ Boot \in Callers
      BY BootRequests, MappingsApart, PageTablesAssumption DEF Request
    <3>2. Translation(b.virt) = IF Made(b) THEN [adr |-> b.phys, flags |-> b.flags] ELSE Zero
      BY DEF DictionaryInv, OrderInv
    <3>3. CASE req[t] = b
      <4>1. v = b.virt /\ p = b.phys /\ f = b.flags /\ t = Boot /\ b \notin todo
        BY <1>1, <1>9, <3>1, <3>3
      <4>2. ~Made(b) /\ Made(b)'
        BY <1>2, <1>3, <1>b, <3>1, <3>3, <4>1 DEF Made
      <4>3. Translation(v)' = SetEntry(Zero, p, f)
        BY <1>8, <3>2, <4>1, <4>2
      <4>4. SetEntry(Zero, p, f) = [adr |-> p, flags |-> f]
        BY DEF SetEntry, Zero
      <4>5. Translation(v)' = Translation(b.virt)'
        BY <4>1
      <4> QED
        BY <4>1, <4>2, <4>3, <4>4, <4>5
    <3>4. CASE req[t] # b
      <4>1. b.virt # v
        BY <1>1, <1>9, <3>1, <3>4, MappingsApart
      <4>2. PICK x \in VirtPages : x = b.virt
        BY <3>1
      <4>3. Translation(b.virt)' = Translation(b.virt)
        <5>1. Translation(x)' = Translation(x)
          BY <1>8, <4>1, <4>2
        <5> QED
          BY <4>2, <5>1
      <4>4. Made(b)' <=> Made(b)
        BY <1>2, <1>3, <3>1, <3>4 DEF Made
      <4> QED
        BY <3>2, <4>3, <4>4
    <3> QED
      BY <3>3, <3>4
  <2> QED
    BY <2>1, <2>2 DEF OrderInv
<1> QED
  BY <1>1, <1>8, <1>11, <1>12, <1>13, <1>14, <1>15 DEF DictionaryInv

-----------------------------------------------------------------------------
(* The steps together. *)

\* What has gone wrong stays so.
LEMMA LostGrows == [PagingNext]_pagingVars => lost \subseteq lost'
BY DEF PagingNext, map_pages, request_mapped_pages, WalkTable, WalkMissing, NewTable,
       map_mem_with_flags, pagingVars

\* A step changes no translation, or that of one page by one call.
Kept == \A w \in VirtPages : Translation(w)' = Translation(w)
Stored(v, p, f) ==
    \A w \in VirtPages :
        Translation(w)' = IF w = v THEN SetEntry(Translation(w), p, f) ELSE Translation(w)

LEMMA DictionaryStep ==
    ASSUME WalkTypes, DictionaryInv, [PagingNext]_pagingVars, lost' = {}
    PROVE  /\ DictionaryInv'
           /\ Kept \/ \E v \in VirtPages, p \in VirtPages, f \in SUBSET Flags : Stored(v, p, f)
<1>1. CASE map_pages
  <2>1. Kept
    BY <1>1, NothingWritten DEF map_pages, Kept
  <2> QED
    BY <1>1, <2>1, MapPagesKeeps
<1>2. ASSUME NEW t \in Callers, NEW w \in FreshPages, request_mapped_pages(t, w)
      PROVE  DictionaryInv' /\ Kept
  <2>1. Kept
    BY <1>2, NothingWritten DEF request_mapped_pages, Kept
  <2> QED
    BY <1>2, <2>1, RequestKeeps
<1>3. ASSUME NEW t \in Callers, WalkTable(t) PROVE DictionaryInv' /\ Kept
  <2>1. Kept
    BY <1>3, NothingWritten DEF WalkTable, Kept
  <2> QED
    BY <1>3, <2>1, WalkTableKeeps
<1>4. ASSUME NEW t \in Callers, WalkMissing(t) PROVE DictionaryInv' /\ Kept
  <2>1. Kept
    BY <1>4, NothingWritten DEF WalkMissing, Kept
  <2> QED
    BY <1>4, <2>1, WalkMissingKeeps
<1>5. ASSUME NEW t \in Callers, NewTable(t) PROVE DictionaryInv' /\ Kept
  BY <1>5, NewTableKeeps DEF Kept
<1>6. ASSUME NEW t \in Callers, map_mem_with_flags(t)
      PROVE  /\ DictionaryInv'
             /\ \E v \in VirtPages, p \in VirtPages, f \in SUBSET Flags : Stored(v, p, f)
  <2>1. req[t].virt \in VirtPages /\ req[t].phys \in VirtPages /\ req[t].flags \in SUBSET Flags
    BY DEF WalkTypes, PagingTypeOK
  <2>2. DictionaryInv' /\ Stored(req[t].virt, req[t].phys, req[t].flags)
    BY <1>6, MapMemKeeps DEF Stored
  <2> QED
    BY <2>1, <2>2
<1>7. CASE UNCHANGED pagingVars
  <2>1. /\ UNCHANGED <<mem, used, KERNEL_PL4, todo, walkPc, req, level, current_PL>>
        /\ \A t \in Callers : Active(t)' <=> Active(t)
    BY <1>7 DEF pagingVars, walks, Active
  <2>2. /\ Tables' = Tables
        /\ \A v : Path(v)' = Path(v) /\ Translation(v)' = Translation(v)
    BY <2>1, NothingWritten
  <2>3. Kept /\ \A p : Given(p) => Given(p)'
    BY <2>1, <2>2 DEF Kept, Given
  <2>4. LeafInv' /\ FreshInv' /\ OrderInv'
    BY <2>1, <2>2, <2>3, TranslationsKept
  <2>5. TreeInv' /\ WalkInv'
    BY <2>1, <2>2 DEF DictionaryInv, TreeInv, WalkInv
  <2> QED
    BY <2>3, <2>4, <2>5 DEF DictionaryInv
<1> QED
  BY <1>1, <1>2, <1>3, <1>4, <1>5, <1>6, <1>7 DEF PagingNext

LEMMA PagingInvariant == PagingSpec => []PagingInv
<1>1. PagingInit => PagingInv
  BY WalkTypesInit, DictionaryInit DEF PagingInv, WalkTypes
<1>2. PagingInv /\ [PagingNext]_pagingVars => PagingInv'
  <2> SUFFICES ASSUME PagingInv, [PagingNext]_pagingVars PROVE PagingInv'
    OBVIOUS
  <2>1. WalkTypes /\ WalkTypes'
    BY WalkTypesStep DEF PagingInv, WalkTypes
  <2>2. ASSUME lost' = {} PROVE DictionaryInv'
    <3>1. DictionaryInv
      BY <2>2, LostGrows DEF PagingInv
    <3> QED
      BY <2>1, <2>2, <3>1, DictionaryStep
  <2> QED
    BY <2>1, <2>2 DEF PagingInv, WalkTypes
<1> QED
  BY <1>1, <1>2, PTL DEF PagingSpec

\* Until a page cannot be had or two threads race for a table: a table has one
\* entry leading to it, and no fresh page is a table or given twice.
THEOREM SoundTables == PagingSpec => []TablesSound
<1>1. PagingInv => TablesSound
  <2> SUFFICES ASSUME WalkTypes, DictionaryInv
               PROVE  /\ Tables \subseteq used \cap Memory
                      /\ \A x, y \in Links : mem[x[1]][x[2]].adr = mem[y[1]][y[2]].adr => x = y
                      /\ \A x \in Links : mem[x[1]][x[2]].adr # KERNEL_PL4
                      /\ \A v, w \in FreshPages :
                           PT_GET_FLAG(Translation(v)) =>
                              /\ Translation(v).adr \notin Tables
                              /\ Translation(v).adr = Translation(w).adr => v = w
    BY DEF PagingInv, WalkTypes, TablesSound
  <2>1. ASSUME NEW x \in Links
        PROVE  \E v \in VirtPages, l \in 1 .. (Depth - 1) :
                  /\ x[1] \in Path(v)[l] /\ x[2] = Offset(v, l) /\ x = <<x[1], x[2]>>
                  /\ l \in Levels /\ l + 1 \in Levels
                  /\ mem[x[1]][x[2]].adr \in Path(v)[l + 1]
    <3>1. PICK v \in VirtPages, l \in 1 .. (Depth - 1) :
            x[1] \in Path(v)[l] /\ Offset(v, l) = x[2] /\ PT_GET_FLAG(mem[x[1]][x[2]])
      BY DEF Links
    <3>2. x = <<x[1], x[2]>>
      BY DEF Links
    <3>3. l \in Levels /\ l + 1 \in Levels /\ mem[x[1]][x[2]].adr \in Path(v)[l + 1]
      BY <3>1, PathDown DEF Path
    <3> QED
      BY <3>1, <3>2, <3>3
  <2>2. ASSUME NEW x \in Links, NEW y \in Links, mem[x[1]][x[2]].adr = mem[y[1]][y[2]].adr
        PROVE  x = y
    <3>1. PICK v \in VirtPages, l \in 1 .. (Depth - 1) :
            /\ x[1] \in Path(v)[l] /\ x[2] = Offset(v, l) /\ x = <<x[1], x[2]>>
            /\ l \in Levels /\ l + 1 \in Levels
            /\ mem[x[1]][x[2]].adr \in Path(v)[l + 1]
      BY <2>1
    <3>2. PICK w \in VirtPages, k \in 1 .. (Depth - 1) :
            /\ y[1] \in Path(w)[k] /\ y[2] = Offset(w, k) /\ y = <<y[1], y[2]>>
            /\ k \in Levels /\ k + 1 \in Levels
            /\ mem[y[1]][y[2]].adr \in Path(w)[k + 1]
      BY <2>1
    <3>3. l + 1 = k + 1 /\ Alike(v, w, l + 1)
      BY <2>2, <3>1, <3>2 DEF DictionaryInv, TreeInv
    <3>4. l = k /\ Alike(v, w, l) /\ Offset(v, l) = Offset(w, l)
      BY <3>1, <3>2, <3>3, AlikeLess
    <3>5. y[1] \in Path(v)[l]
      BY <3>1, <3>2, <3>4, PathAlike DEF Path
    <3>6. x[1] = y[1]
      BY <3>1, <3>5, PathSingle DEF Path
    <3> QED
      BY <3>1, <3>2, <3>4, <3>6
  <2>3. ASSUME NEW x \in Links PROVE mem[x[1]][x[2]].adr # KERNEL_PL4
    <3>1. PICK v \in VirtPages, l \in 1 .. (Depth - 1) :
            l + 1 \in Levels /\ mem[x[1]][x[2]].adr \in Path(v)[l + 1]
      BY <2>1
    <3>2. KERNEL_PL4 \in Path(v)[1]
      BY PathFirst DEF Path
    <3>3. KERNEL_PL4 \in Path(v)[l + 1] => 1 = l + 1
      BY <3>1, <3>2, LevelsAre DEF DictionaryInv, TreeInv
    <3> QED
      BY <3>1, <3>3
  <2>4. ASSUME NEW v \in FreshPages, NEW w \in FreshPages, PT_GET_FLAG(Translation(v))
        PROVE  /\ Translation(v).adr \notin Tables
               /\ Translation(v).adr = Translation(w).adr => v = w
    <3>1. Given(Translation(v).adr)
      BY <2>4 DEF DictionaryInv, FreshInv, Mapped
    <3>2. ASSUME Translation(v).adr = Translation(w).adr PROVE v = w
      <4>1. Translation(w) # Zero
        BY <3>1, <3>2 DEF Given, Zero
      <4>2. Mapped(v) /\ Mapped(w)
        BY <2>4, <4>1, PageTablesAssumption DEF DictionaryInv, LeafInv, Mapped
      <4> QED
        BY <3>2, <4>2 DEF DictionaryInv, FreshInv
    <3> QED
      BY <3>1, <3>2 DEF Given
  <2> QED
    BY <2>2, <2>3, <2>4, TablesAre
<1> QED
  BY <1>1, PagingInvariant, PTL

\* Once INIT_PAGING has returned the kernel reaches every page of memory at its
\* own address, and the framebuffer is not cached, whatever is mapped since.
THEOREM IdentityKept == PagingSpec => []IdentityMapped
<1>1. PagingInv => IdentityMapped
  <2> SUFFICES ASSUME DictionaryInv, todo = {}, walkPc[Boot] = "idle"
               PROVE  /\ \A p \in Memory : Translation(p) = [adr |-> p, flags |-> TableFlags]
                      /\ \A p \in FbPages : Translation(p) = [adr |-> p, flags |-> FbFlags]
    BY DEF PagingInv, IdentityMapped
  <2>1. \A b \in BootMappings : Translation(b.virt) = [adr |-> b.phys, flags |-> b.flags]
    BY DEF DictionaryInv, OrderInv, Made, Active
  <2>2. ASSUME NEW p \in Memory PROVE Translation(p) = [adr |-> p, flags |-> TableFlags]
    <3> DEFINE b == [virt |-> p, phys |-> p, flags |-> TableFlags]
    <3>1. b \in BootMappings
      BY DEF BootMappings
    <3>2. Translation(b.virt) = [adr |-> b.phys, flags |-> b.flags]
      BY <2>1, <3>1
    <3> QED
      BY <3>2
  <2>3. ASSUME NEW p \in FbPages PROVE Translation(p) = [adr |-> p, flags |-> FbFlags]
    <3> DEFINE b == [virt |-> p, phys |-> p, flags |-> FbFlags]
    <3>1. b \in BootMappings
      BY DEF BootMappings
    <3>2. Translation(b.virt) = [adr |-> b.phys, flags |-> b.flags]
      BY <2>1, <3>1
    <3> QED
      BY <3>2
  <2> QED
    BY <2>2, <2>3
<1> QED
  BY <1>1, PagingInvariant, PTL

\* Whatever the walks of several threads do to each other, a call changes the
\* translation of its own page and of no other.
THEOREM AddressSpaceImplemented == PagingSpec => ImplementsAddressSpace
<1> DEFINE Image == IF lost # {} THEN [v \in VirtPages |-> Zero]
                    ELSE [v \in VirtPages |-> Translation(v)]
<1>1. PagingInit => Space!Init
  <2> SUFFICES ASSUME PagingInit PROVE Space!Init
    OBVIOUS
  <2>1. lost = {}
    BY DEF PagingInit
  <2>2. \A v \in VirtPages : Translation(v) = Zero
    BY DictionaryInit
  <2> QED
    BY <2>1, <2>2 DEF Space!Init, Space!Empty, Space!Unmapped, Zero
<1>2. PagingInv /\ [PagingNext]_pagingVars => [Space!Next]_(Space!vars)
  <2> SUFFICES ASSUME PagingInv, [PagingNext]_pagingVars PROVE [Space!Next]_(Space!vars)
    OBVIOUS
  <2>1. CASE lost # {}
    <3>1. lost' # {}
      BY <2>1, LostGrows
    <3>2. Image' = Image /\ (lost' # {}) = (lost # {})
      BY <2>1, <3>1
    <3> QED
      BY <3>2 DEF Space!vars
  <2>2. CASE lost = {} /\ lost' # {}
    <3>1. Image' = [v \in VirtPages |-> Zero] /\ (lost' # {}) = TRUE
      BY <2>2
    <3>2. Space!Break
      BY <3>1 DEF Space!Break, Space!Empty, Space!Unmapped, Zero
    <3> QED
      BY <3>2 DEF Space!Next
  <2>3. CASE lost = {} /\ lost' = {}
    <3>1. Kept \/ \E v \in VirtPages, p \in VirtPages, f \in SUBSET Flags : Stored(v, p, f)
      BY <2>3, DictionaryStep DEF PagingInv, WalkTypes
    <3>2. CASE Kept
      <4>1. Image' = Image /\ (lost' # {}) = (lost # {})
        BY <2>3, <3>2 DEF Kept
      <4> QED
        BY <4>1 DEF Space!vars
    <3>3. ASSUME NEW v \in VirtPages, NEW p \in VirtPages, NEW f \in SUBSET Flags, Stored(v, p, f)
          PROVE  Space!Next
      <4>1. Image = [w \in VirtPages |-> Translation(w)]
        BY <2>3
      <4>2. Image' = [w \in VirtPages |-> IF w = v THEN SetEntry(Translation(w), p, f) ELSE Translation(w)]
        BY <2>3, <3>3 DEF Stored
      <4>3. Image' = [Image EXCEPT ![v] = [adr |-> p, flags |-> Image[v].flags \cup f]]
        BY <4>1, <4>2 DEF SetEntry
      <4>4. Space!Map(v, p, f)
        BY <2>3, <4>3 DEF Space!Map
      <4> QED
        BY <4>4 DEF Space!Next
    <3> QED
      BY <3>1, <3>2, <3>3
  <2> QED
    BY <2>1, <2>2, <2>3
<1> QED
  BY <1>1, <1>2, PagingInvariant, PTL DEF PagingSpec, ImplementsAddressSpace, Space!Spec
=============================================================================
