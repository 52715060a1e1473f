---------------------------- MODULE MCScheduler ----------------------------
(***************************************************************************)
(* Three thread pages and the main thread on a pool of four: as many       *)
(* threads as the pool holds, and more thread ids than pages, so that      *)
(* pages are reused.                                                       *)
(***************************************************************************)
EXTENDS Scheduler

CONSTANTS p1, p2, p3

ThreePages == {p1, p2, p3}
=============================================================================
