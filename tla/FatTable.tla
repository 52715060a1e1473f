------------------------------ MODULE FatTable ------------------------------
(***************************************************************************)
(* The packed file allocation table of kernel/src/fat.c: two entries of    *)
(* twelve bits in three bytes, read and written through an unaligned       *)
(* 16-bit access that always covers half of a neighbour.  The operators    *)
(* take the table, as the functions take a pointer to it; what they do is  *)
(* proved in Fat12Proofs, and Fat12 is built on them.                      *)
(***************************************************************************)
EXTENDS Integers

CONSTANT TableLast    \* the last entry of the table

ASSUME FatTableAssumption == TableLast \in Nat

Bytes == 0..255
Entries == 0..4095
TableEntries == 0..TableLast

\* The bytes an access to any entry touches, and the tables.
Offsets == 0..(((TableLast * 3) \div 2) + 1)
Tables == [Offsets -> Bytes]

fat_offset(cluster) == (cluster * 3) \div 2

\* *(uint16_t*)&fat_table[offset], little endian.
Word(fat_table, offset) == fat_table[offset] + 256 * fat_table[offset + 1]

get_fat_next_cluster(fat_table, cluster) ==
    LET word == Word(fat_table, fat_offset(cluster))
    IN  IF cluster % 2 = 1 THEN word \div 16 ELSE word % 4096

\* Mutant: the neighbour's four bits are not masked in.
PackedAlone(word, cluster, next_cluster) ==
    IF cluster % 2 = 1 THEN (next_cluster * 16) % 65536
    ELSE next_cluster % 4096

\* The word with the entry replaced; | of disjoint bits is a sum.
Packed(word, cluster, next_cluster) ==
    IF cluster % 2 = 1 THEN (word % 16) + ((next_cluster * 16) % 65536)
    ELSE (word \div 4096) * 4096 + (next_cluster % 4096)

\* The table after the call.
set_fat_next_cluster(fat_table, start_cluster, next_cluster) ==
    LET offset == fat_offset(start_cluster)
        word == Packed(Word(fat_table, offset), start_cluster, next_cluster)
    IN  [fat_table EXCEPT ![offset] = word % 256, ![offset + 1] = word \div 256]
=============================================================================
