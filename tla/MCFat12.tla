------------------------------ MODULE MCFat12 -------------------------------
(***************************************************************************)
(* A disk of six clusters, with a file of two sectors and one of one, and  *)
(* a directory with room for two more entries.  The table has two entries  *)
(* more than the disk has clusters and takes two sectors.                  *)
(***************************************************************************)
EXTENDS Fat12

CONSTANTS FileA, FileB, FileC

ThreeNames == {FileA, FileB, FileC}
TwoFiles == << [name |-> FileA, length |-> 2, first |-> 2, number |-> -1],
               [name |-> FileB, length |-> 1, first |-> 4, number |-> -2] >>
=============================================================================
