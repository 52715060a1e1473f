------------------------------- MODULE MCHeap -------------------------------
(***************************************************************************)
(* A header is one unit and a page four.  Requests of a page and more      *)
(* make the heap grow; smaller ones do not.                                *)
(***************************************************************************)
EXTENDS Heap

AllRequests == {0, 1, 4, 6}
=============================================================================
