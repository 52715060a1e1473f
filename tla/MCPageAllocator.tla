-------------------------- MODULE MCPageAllocator --------------------------
(***************************************************************************)
(* A memory map for PageAllocator.  Pages 0..6 exist; page 2, where the    *)
(* kernel is, belongs to a type 0 descriptor, which is not counted: byte 6 *)
(* of the map is the one that stands for no counted memory.  Pages 1, 4, 5 *)
(* and 6 are handed out.                                                   *)
(***************************************************************************)
EXTENDS PageAllocator

Desc(t, s, n) == [type |-> t, start |-> s, pages |-> n]

Map == <<Desc(7, 0, 2), Desc(0, 2, 1), Desc(7, 3, 4)>>
=============================================================================
