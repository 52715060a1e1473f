---------------------------- MODULE MCPageTables ----------------------------
(***************************************************************************)
(* Three levels of three entries: 27 virtual pages.  Memory takes several  *)
(* leaf tables, one of them shared with fresh addresses; the framebuffer   *)
(* and the fresh addresses need tables of their own.  Memory is small      *)
(* enough to run out during the fresh mappings, in a table or in a page.   *)
(***************************************************************************)
EXTENDS PageTables

Reserved == {{0}, {0, 1, 5}, {0, 1, 2, 3, 4, 5}}
Present == [adr |-> 3, flags |-> {"Present"}]
=============================================================================
