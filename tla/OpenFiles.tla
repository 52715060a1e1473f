----------------------------- MODULE OpenFiles ------------------------------
(***************************************************************************)
(* Open files: the system calls of kernel/src/filesystem.c, the descriptor *)
(* table of file_table.c and the nodes of vfs.c with their reference       *)
(* counts and caches.  A file is loaded whole when it is first opened; all *)
(* of its descriptors share the cache, which is dropped at the last close. *)
(* The cache of a pipe is a circular buffer.                               *)
(*                                                                         *)
(* The calls run one at a time: user programs make them through an         *)
(* interrupt gate.  The descriptor table is a sorted list (SortedList); it *)
(* is a function here.  Bytes are counted, not represented.                *)
(*                                                                         *)
(* An access outside the memory of a cache, or to a cache that was freed,  *)
(* may change anything: it is recorded in fault and nothing follows it.    *)
(***************************************************************************)
EXTENDS Integers, FiniteSets

CONSTANTS
    Files, Pipes,
    DiskSize,      \* bytes of each file in its directory entry; an empty file has
                   \* no cluster, and opening it would load the root directory
    SECTOR, PAGE,  \* 512 and 4096
    PIPE_SIZE,     \* the size vfs_open gives the buffer of a pipe
    Reads, Writes, PipeWrites,  \* counts the calls are made with
    Seeks,         \* lseek arguments, as <<offset, whence>>
    MaxFd,         \* bound: number of calls of open
    MaxOpeners,    \* bound: descriptors open on one node at a time
    MaxSize        \* bound: size of a file, offset of a descriptor

Nodes == Files \cup Pipes

ASSUME OpenFilesAssumption ==
    /\ Files \cap Pipes = {}
    /\ DiskSize \in [Files -> Nat \ {0}]
    /\ SECTOR \in Nat \ {0} /\ PAGE \in Nat \ {0} /\ PIPE_SIZE \in Nat \ {0}
    /\ Reads \subseteq Nat /\ Writes \subseteq Nat /\ PipeWrites \subseteq Nat
    /\ MaxFd \in Nat /\ MaxOpeners \in Nat /\ MaxSize \in Nat

VARIABLES
    node,     \* the fields of every node that the calls change, and two of history:
              \* its cache was freed twice; it was opened while it was open
    table,    \* the open descriptors: fd |-> [base, seek_offset]
    next_id,
    fault

vars == <<node, table, next_id, fault>>

SEEK_SET == 0
SEEK_CUR == 1
SEEK_END == 2

Lesser(a, b) == IF a < b THEN a ELSE b
RoundUp(x, unit) == unit * ((x + unit - 1) \div unit)
ROUND_4K(x) == RoundUp(x, PAGE)

Openers(n) == {fd \in DOMAIN table : table[fd].base = n}

-----------------------------------------------------------------------------
(* The calls of vfs.c, each after its mutants. *)

\* load_fat_cluster_chain allocates whole sectors for the file as it is on
\* disk, cb_init the fixed size of a pipe.
CacheSize(n) == IF n \in Pipes THEN PIPE_SIZE ELSE RoundUp(DiskSize[n], SECTOR)

vfs_open(n) ==
    LET v == node[n]
    IN  IF v.refs = 0
        THEN [v EXCEPT !.refs = @ + 1, !.live = TRUE, !.cap = CacheSize(n), !.fill = 0]
        ELSE [v EXCEPT !.refs = @ + 1]

\* Mutant: the count is decremented at zero too and wraps (at 8 here).
CloseUnguarded(v) ==
    [v EXCEPT !.refs = (@ + 7) % 8,
              !.live = @ /\ v.refs # 1,
              !.freedTwice = @ \/ (v.refs = 1 /\ ~v.live)]

vfs_close(v) ==
    IF v.refs = 0 THEN v
    ELSE [v EXCEPT !.refs = @ - 1,
                   !.live = @ /\ v.refs # 1,
                   !.freedTwice = @ \/ (v.refs = 1 /\ ~v.live)]

\* What vfs_file_read transfers.  Behind the end of the file the difference is
\* negative, a huge size_t.
Unclamped(v, offset, count) == count

Readable(v, offset, count) == IF offset + count > v.size THEN v.size - offset ELSE count

ReadFault(v, offset, transferred) ==
    IF transferred # 0 /\ ~v.live THEN "stale"
    ELSE IF transferred < 0 \/ (transferred > 0 /\ offset + transferred > v.cap)
    THEN "overread" ELSE "none"

\* vfs_file_write gives the cache one more page than the file has, if the data
\* reaches into it.
Recached(v, end) ==
    IF end > ROUND_4K(v.size) THEN ROUND_4K(v.size) + PAGE ELSE v.cap

WriteFault(v, end) ==
    IF ~v.live THEN "stale" ELSE IF end > Recached(v, end) THEN "overrun" ELSE "none"

-----------------------------------------------------------------------------
Init ==
    /\ node = [n \in Nodes |->
                 [refs |-> 0, live |-> FALSE, cap |-> 0, fill |-> 0,
                  freedTwice |-> FALSE, shared |-> FALSE,
                  size |-> IF n \in Files THEN DiskSize[n] ELSE 0]]
    /\ table = [fd \in {} |-> 0]
    /\ next_id = 0 /\ fault = "none"

create_file_table_entry(n) ==
    /\ table' = [fd \in DOMAIN table \cup {next_id} |->
                   IF fd = next_id THEN [base |-> n, seek_offset |-> 0] ELSE table[fd]]
    /\ next_id' = next_id + 1

open(n) ==
    /\ fault = "none" /\ next_id < MaxFd /\ Cardinality(Openers(n)) < MaxOpeners
    /\ node' = [node EXCEPT ![n] = [vfs_open(n) EXCEPT !.shared = Openers(n) # {}]]
    /\ create_file_table_entry(n)
    /\ UNCHANGED fault

\* It drops a reference, as its caller did before: v is the node close leaves.
remove_file_table_entry(fd, v) ==
    /\ node' = [node EXCEPT ![table[fd].base] = vfs_close(v)]
    /\ table' = [g \in DOMAIN table \ {fd} |-> table[g]]

close(fd) ==
    /\ fault = "none"
    /\ remove_file_table_entry(fd, vfs_close(node[table[fd].base]))
    /\ UNCHANGED <<next_id, fault>>

\* file_read moves the offset by what was read, and to the end of the file if
\* that is nothing.
Moved(fd, transferred) ==
    IF transferred = 0 THEN node[table[fd].base].size
    ELSE table[fd].seek_offset + transferred

ReadFile(fd, count) ==
    LET n == table[fd].base
        offset == table[fd].seek_offset
        transferred == Readable(node[n], offset, count)
    IN  /\ n \in Files /\ fault = "none"
        /\ fault' = ReadFault(node[n], offset, transferred)
        /\ table' = IF fault' = "none"
                    THEN [table EXCEPT ![fd].seek_offset = Moved(fd, transferred)]
                    ELSE table
        /\ UNCHANGED <<node, next_id>>

ReadPipe(fd, count) ==
    LET n == table[fd].base
        transferred == Lesser(count, node[n].fill)
    IN  /\ n \in Pipes /\ fault = "none"
        /\ \/ /\ ~node[n].live
              /\ fault' = "stale"
              /\ UNCHANGED <<node, table>>
           \/ /\ node[n].live /\ Moved(fd, transferred) <= MaxSize
              /\ node' = [node EXCEPT ![n].fill = @ - transferred]
              /\ table' = [table EXCEPT ![fd].seek_offset = Moved(fd, transferred)]
              /\ UNCHANGED fault
        /\ UNCHANGED next_id

\* file_write moves the offset by what was written.
file_write(fd, transferred) ==
    table' = [table EXCEPT ![fd].seek_offset = @ + transferred]

WriteFile(fd, count) ==
    LET n == table[fd].base
        end == table[fd].seek_offset + count
    IN  /\ n \in Files /\ fault = "none" /\ end <= MaxSize
        /\ fault' = WriteFault(node[n], end)
        /\ IF fault' = "none"
           THEN /\ node' = [node EXCEPT ![n].cap = Recached(node[n], end),
                                        ![n].size = IF end > @ THEN end ELSE @]
                /\ file_write(fd, count)
           ELSE UNCHANGED <<node, table>>
        /\ UNCHANGED next_id

WritePipe(fd, count) ==
    LET n == table[fd].base
        transferred == Lesser(count, node[n].cap - node[n].fill)
    IN  /\ n \in Pipes /\ fault = "none"
        /\ \/ /\ ~node[n].live
              /\ fault' = "stale"
              /\ UNCHANGED <<node, table>>
           \/ /\ node[n].live /\ table[fd].seek_offset + transferred <= MaxSize
              /\ node' = [node EXCEPT ![n].fill = @ + transferred]
              /\ file_write(fd, transferred)
              /\ UNCHANGED fault
        /\ UNCHANGED next_id

\* file_seek: the argument called offset selects the base, as its callers have
\* it, and a position before the start is refused.
Intended(fd, offset, whence) ==
    whence + CASE offset = SEEK_SET -> 0
               [] offset = SEEK_CUR -> table[fd].seek_offset
               [] offset = SEEK_END -> node[table[fd].base].size

lseek(fd, offset, whence) ==
    /\ fault = "none" /\ Intended(fd, offset, whence) \in 0..MaxSize
    /\ table' = [table EXCEPT ![fd].seek_offset = Intended(fd, offset, whence)]
    /\ UNCHANGED <<node, next_id, fault>>

Next ==
    \/ \E n \in Nodes : open(n)
    \/ \E fd \in DOMAIN table :
          \/ close(fd)
          \/ \E count \in Reads : ReadFile(fd, count) \/ ReadPipe(fd, count)
          \/ \E count \in Writes : WriteFile(fd, count)
          \/ \E count \in PipeWrites : WritePipe(fd, count)
          \/ \E s \in Seeks : lseek(fd, s[1], s[2])

Spec == Init /\ [][Next]_vars

-----------------------------------------------------------------------------
(* Properties. *)

\* The counts and offsets the calls keep are natural numbers: a seek never puts
\* a descriptor before the start of its file.
TypeOK ==
    /\ node \in [Nodes -> [refs : Nat, live : BOOLEAN, cap : Nat, fill : Nat,
                           freedTwice : BOOLEAN, shared : BOOLEAN, size : Nat]]
    /\ DOMAIN table \subseteq 0..(next_id - 1)
    /\ \A fd \in DOMAIN table : table[fd] \in [base : Nodes, seek_offset : Nat]
    /\ next_id \in 0..MaxFd
    /\ fault \in {"none", "stale", "overread", "overrun"}

\* A node has a cache exactly while it is referenced, is never referenced more
\* often than it has descriptors, and is never freed twice, although every
\* close drops two references: no cache leaks past the last descriptor.
CachesOwned ==
    \A n \in Nodes :
        /\ node[n].live <=> node[n].refs > 0
        /\ node[n].refs <= Cardinality(Openers(n))
        /\ ~node[n].freedTwice

\* Every open descriptor has a cache to read from and write to, unless its file
\* had two descriptors at a time: closing the one frees the cache of the other,
\* because close drops two references.
DescriptorsLive ==
    \A fd \in DOMAIN table : node[table[fd].base].live \/ node[table[fd].base].shared

(***************************************************************************)
(* Where a transfer leaves the cache.  A read does so only from an offset  *)
(* behind the end of the file, or in a file that a write made longer than  *)
(* what the next open loaded.  A write does so only while the cache is the *)
(* one that open loaded, which ends with a sector where vfs_file_write     *)
(* supposes a page, or if it ends more than a page behind the end of the   *)
(* file: once a write has enlarged the cache it stays large enough.        *)
(***************************************************************************)
AccessesInside ==
    /\ fault = "overread" =>
         \E fd \in DOMAIN table :
            LET v == node[table[fd].base]
            IN  /\ table[fd].base \in Files
                /\ table[fd].seek_offset > v.size \/ v.size > v.cap
    /\ fault = "overrun" =>
         \E fd \in DOMAIN table :
            LET v == node[table[fd].base]
            IN  /\ table[fd].base \in Files
                /\ \/ v.cap = CacheSize(table[fd].base)
                   \/ \E count \in Writes : table[fd].seek_offset + count > ROUND_4K(v.size) + PAGE
=============================================================================
