---------------------------- MODULE AddressSpace ----------------------------
(***************************************************************************)
(* What the mapping functions of kernel/src/paging.c promise: a dictionary *)
(* from virtual to physical pages in which a call changes one page and no  *)
(* other.  Flags only ever accumulate.  The promise ends when a page for a *)
(* table cannot be had, or two calls create the same table.                *)
(***************************************************************************)
CONSTANTS VirtPages, PhysPages, Flags

VARIABLES space,   \* what each virtual page is mapped to
          broken   \* the promise has ended

vars == <<space, broken>>

Unmapped == [adr |-> 0, flags |-> {}]
Empty == [v \in VirtPages |-> Unmapped]

Init == space = Empty /\ broken = FALSE

Map(v, p, f) ==
    /\ ~broken
    /\ space' = [space EXCEPT ![v] = [adr |-> p, flags |-> space[v].flags \cup f]]
    /\ UNCHANGED broken

Break == broken' = TRUE /\ space' = Empty

Next == Break \/ \E v \in VirtPages, p \in PhysPages, f \in SUBSET Flags : Map(v, p, f)

Spec == Init /\ [][Next]_vars
=============================================================================
