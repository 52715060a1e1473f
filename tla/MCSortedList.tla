---------------------------- MODULE MCSortedList ----------------------------
(***************************************************************************)
(* Five elements, two of them with the same key as two directories of one  *)
(* name have, and keys below, between and above.  Five insertions grow the *)
(* array three times.                                                      *)
(***************************************************************************)
EXTENDS SortedList, TLC

CONSTANTS E1, E2, E3, E4, E5

FiveElements == {E1, E2, E3, E4, E5}
FiveKeys == (E1 :> 1) @@ (E2 :> 3) @@ (E3 :> 3) @@ (E4 :> 5) @@ (E5 :> 7)
AllKeys == 0..8
=============================================================================
