---------------------------- MODULE MCOpenFiles -----------------------------
(***************************************************************************)
(* A sector is two bytes and a page four.  One file ends inside a sector,  *)
(* one is a page long, and there is a pipe.                                *)
(***************************************************************************)
EXTENDS OpenFiles, TLC

CONSTANTS Small, Paged, Fifo

BothFiles == {Small, Paged}
OnePipe == {Fifo}
OnDisk == (Small :> 1) @@ (Paged :> 4)
AllSeeks == {<<SEEK_SET, 0>>, <<SEEK_CUR, -1>>, <<SEEK_CUR, 1>>, <<SEEK_END, 1>>}
=============================================================================
