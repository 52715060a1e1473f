------------------------------- MODULE Fat12 --------------------------------
(***************************************************************************)
(* write_file of kernel/src/fat.c, for a file in a directory of one        *)
(* cluster below the root: one step per write to the disk, and a crash     *)
(* between any two of them.  The packed table in memory (FAT_TABLE_0) is   *)
(* changed at once and reaches the disk, twice, sector by sector, at the   *)
(* end: a crash can cut an entry in two.  The table has more entries than  *)
(* the disk has clusters; the first of the surplus ones is handed out when *)
(* the disk is full, and what is written to such a cluster is lost.        *)
(*                                                                         *)
(* Names are short enough to be read back as they were stored.  A sector's *)
(* content is the number of the write_file call it comes from and its      *)
(* place in the file.                                                      *)
(***************************************************************************)
EXTENDS FatTable, Sequences, FiniteSets

CONSTANTS
    Last,         \* the last cluster of the disk, at most TableLast
    SectorBytes,  \* bytes of the table in a sector (512)
    Slots,        \* directory entries in a cluster (512/32)
    Names,
    Lengths,      \* of files, in sectors
    Existing,     \* the files the disk image was built with, as a sequence of
                  \* [name, length, first, number], each in adjacent clusters
    Dot, DotDot,  \* the names of the first two entries
    Empty,        \* a blank entry, an absent record
    MaxWrites,    \* bound: calls of write_file
    MaxCrashes    \* bound: crashes

\* The values from 4080 on are marks: the table has nine sectors, since the
\* duplicate follows the first one at that distance.
ASSUME Fat12Assumption ==
    /\ TableLast < 4080 /\ Last \in Nat /\ Last <= TableLast
    /\ SectorBytes \in Nat \ {0} /\ Slots \in Nat /\ Slots > 2
    /\ Lengths \subseteq Nat \ {0}
    /\ {Dot, DotDot, Empty} \cap Names = {} /\ Dot # DotDot
    /\ Empty \notin [name : Names \cup {Dot, DotDot}, first_cluster : Nat, size : Nat]
    /\ MaxWrites \in Nat /\ MaxCrashes \in Nat
    /\ Existing \in Seq([name : Names, length : Nat \ {0}, first : Nat, number : Int])
    /\ Len(Existing) + 2 <= Slots
    /\ \A i \in 1..Len(Existing) :
          /\ Existing[i].first >= 2 /\ Existing[i].first + Existing[i].length - 1 <= Last
          /\ \A j \in 1..Len(Existing) \ {i} :
                \/ Existing[i].first + Existing[i].length <= Existing[j].first
                \/ Existing[j].first + Existing[j].length <= Existing[i].first

VARIABLES
    FAT_TABLE_0,
    fat0, fat1, dir, data,   \* the disk: both tables, the directory, the clusters
    pc,
    file,      \* the call in progress: name, length, first cluster, its number
    cur_dir,   \* its copy of the directory
    cluster, sectors_written,
    sector,    \* of the table, while it is written
    calls, crashes,
    stored,    \* history: every file that fitted and whose write_file returned
    recent,    \* history: the last call that returned, until the next
    overrun,   \* history: the call wrote to a cluster the disk does not have
    torn       \* history: a crash left the first table half written

disk == <<fat0, fat1, dir, data>>
local == <<file, cur_dir, cluster, sectors_written, sector>>
history == <<calls, crashes, stored, recent, overrun, torn>>
vars == <<FAT_TABLE_0, disk, pc, local, history>>

FREE == 0
EOC == 4095
Clusters == 2..Last

Entry(name, first, length) == [name |-> name, first_cluster |-> first, size |-> length]

-----------------------------------------------------------------------------
(* Helpers, and before some their mutants. *)

\* What the entries of a table say.
Get(fat, c) == get_fat_next_cluster(fat, c)

\* The search starts at entry 0 and looks at the whole table; the cluster it
\* finds is marked at once.
Free == {c \in TableEntries : Get(FAT_TABLE_0, c) = FREE}
get_first_free_cluster == CHOOSE c \in Free : \A d \in Free : c <= d

\* The first n clusters of a chain, as load_fat_cluster_chain follows it.
Chain(fat, first, n) ==
    LET hop[k \in 1..n] == IF k = 1 THEN first
                           ELSE IF hop[k - 1] \in TableEntries
                                THEN Get(fat, hop[k - 1]) ELSE FREE
    IN  hop

\* create_entry_in_directory: the entry of that name; else, at the first blank
\* entry or at the end, the entry the loop has seen last.
Seen(d) == {i \in 1..Slots : \A j \in 1..i : d[j] # Empty}
create_entry_in_directory(d, name) ==
    LET named == {i \in Seen(d) : d[i].name = name}
    IN  IF named # {} THEN CHOOSE i \in named : \A j \in named : i <= j
        ELSE CHOOSE i \in Seen(d) : \A j \in Seen(d) : j <= i

Goto(from, to) == pc = from /\ pc' = to

-----------------------------------------------------------------------------
\* The place of an existing file's cluster in the file, from 1 on.
Place(f, c) == c - f.first + 1
Owner(c) == {i \in 1..Len(Existing) : Place(Existing[i], c) \in 1..Existing[i].length}

\* The table that mkfs and the existing files give: entries 0 and 1 hold the
\* media mark, and three bytes hold two entries.
ImageEntry(c) ==
    IF c = 0 THEN 4080
    ELSE IF c = 1 THEN EOC
    ELSE IF Owner(c) = {} THEN FREE
    ELSE LET f == Existing[CHOOSE i \in Owner(c) : TRUE]
         IN  IF Place(f, c) = f.length THEN EOC ELSE c + 1

ImageTable ==
    [i \in Offsets |->
        LET even == ImageEntry(2 * (i \div 3))
            odd  == ImageEntry(2 * (i \div 3) + 1)
        IN  <<even % 256, even \div 256 + 16 * (odd % 16), odd \div 16>>[(i % 3) + 1]]

\* INIT_FILESYSTEM has read the table of a disk with the existing files.
Init ==
    /\ FAT_TABLE_0 = ImageTable
    /\ fat0 = FAT_TABLE_0 /\ fat1 = FAT_TABLE_0
    /\ dir = [i \in 1..Slots |->
                IF i = 1 THEN Entry(Dot, 0, 0)
                ELSE IF i = 2 THEN Entry(DotDot, 0, 0)
                ELSE IF i - 2 > Len(Existing) THEN Empty
                ELSE LET f == Existing[i - 2] IN Entry(f.name, f.first, f.length)]
    /\ data = [c \in Clusters |->
                 IF Owner(c) = {} THEN Empty
                 ELSE LET f == Existing[CHOOSE i \in Owner(c) : TRUE]
                      IN  <<f.number, Place(f, c)>>]
    /\ pc = "idle" /\ file = Empty /\ cur_dir = dir /\ cluster = 0 /\ sectors_written = 0
    /\ sector = 0
    /\ calls = 0 /\ crashes = 0 /\ recent = Empty /\ overrun = FALSE /\ torn = FALSE
    /\ stored = {Existing[i] : i \in 1..Len(Existing)}

\* The bound on calls.  With no entry left in the whole table the search for a
\* free cluster would run off its end.
Room(length) == calls < MaxWrites /\ length <= Cardinality(Free)

\* write_file up to the first access to the disk: the directory is loaded, the
\* entry made in the copy, the first cluster found and taken.
write_file(name, length) ==
    /\ Goto("idle", "chain")
    /\ Room(length)
    /\ LET c == get_first_free_cluster
       IN  /\ cur_dir' = [dir EXCEPT ![create_entry_in_directory(dir, name)]
                                      = Entry(name, c, length)]
           /\ cluster' = c
           /\ file' = [name |-> name, length |-> length, first |-> c, number |-> calls]
           /\ FAT_TABLE_0' = set_fat_next_cluster(FAT_TABLE_0, c, EOC)
    /\ sectors_written' = 0 /\ sector' = 0
    /\ calls' = calls + 1 /\ recent' = Empty /\ overrun' = FALSE
    /\ UNCHANGED <<disk, crashes, stored, torn>>

\* One cluster of data.  The drive refuses a sector it does not have, and
\* atapio_write_sectors does not look.
WriteCluster ==
    /\ IF cluster \in Clusters
       THEN /\ data' = [data EXCEPT ![cluster] = <<file.number, sectors_written + 1>>]
            /\ UNCHANGED overrun
       ELSE overrun' = TRUE /\ UNCHANGED data
    /\ sectors_written' = sectors_written + 1

\* The found cluster is marked as the end and the current one linked to it.
Linked(fat, c, next) == set_fat_next_cluster(set_fat_next_cluster(fat, next, EOC), c, next)

\* Mutant: the end of the chain is not marked.
ChainLinkUnmarked ==
    /\ Goto("chain", "chain")
    /\ sectors_written + 1 < file.length
    /\ LET next == get_first_free_cluster
       IN  /\ FAT_TABLE_0' = set_fat_next_cluster(FAT_TABLE_0, cluster, next)
           /\ cluster' = next
    /\ WriteCluster
    /\ UNCHANGED <<fat0, fat1, dir, file, cur_dir, sector, calls, crashes, stored, recent, torn>>

\* write_fat_cluster_chain, one turn of the loop: the next cluster is found and
\* linked, the current one written.
ChainLink ==
    /\ Goto("chain", "chain")
    /\ sectors_written + 1 < file.length
    /\ LET next == get_first_free_cluster
       IN  /\ FAT_TABLE_0' = Linked(FAT_TABLE_0, cluster, next)
           /\ cluster' = next
    /\ WriteCluster
    /\ UNCHANGED <<fat0, fat1, dir, file, cur_dir, sector, calls, crashes, stored, recent, torn>>

\* Its last cluster, which is the first one of a file of one sector.
ChainEnd ==
    /\ Goto("chain", "dir")
    /\ sectors_written + 1 = file.length
    /\ FAT_TABLE_0' = IF file.length = 1 THEN set_fat_next_cluster(FAT_TABLE_0, cluster, EOC)
                      ELSE FAT_TABLE_0
    /\ WriteCluster
    /\ UNCHANGED <<fat0, fat1, dir, file, cur_dir, cluster, sector,
                   calls, crashes, stored, recent, torn>>

\* The copy of the directory replaces the one on disk.
WriteDir ==
    /\ Goto("dir", "fat0")
    /\ dir' = cur_dir
    /\ UNCHANGED <<FAT_TABLE_0, fat0, fat1, data, local, history>>

\* The table's sectors, and a copy of the table with one of them replaced.
LastSector == (((TableLast * 3) \div 2) + 1) \div SectorBytes
WithSector(copy) ==
    [i \in Offsets |-> IF i \div SectorBytes = sector THEN FAT_TABLE_0[i] ELSE copy[i]]
NextSector == sector' = IF sector = LastSector THEN 0 ELSE sector + 1

\* Mutant: only the duplicate is written.
WriteFat0Skipped ==
    /\ Goto("fat0", "fat1")
    /\ UNCHANGED <<FAT_TABLE_0, disk, local, history>>

\* A sector of the first copy.
WriteFat0 ==
    /\ Goto("fat0", IF sector = LastSector THEN "fat1" ELSE "fat0")
    /\ fat0' = WithSector(fat0)
    /\ NextSector
    /\ UNCHANGED <<FAT_TABLE_0, fat1, dir, data, file, cur_dir, cluster, sectors_written,
                   history>>

\* A sector of the duplicate; with the last one write_file returns.
WriteFat1 ==
    /\ Goto("fat1", IF sector = LastSector THEN "idle" ELSE "fat1")
    /\ fat1' = WithSector(fat1)
    /\ NextSector
    /\ IF sector = LastSector
       THEN /\ recent' = file
            /\ stored' = IF overrun THEN stored ELSE stored \cup {file}
       ELSE UNCHANGED <<recent, stored>>
    /\ UNCHANGED <<FAT_TABLE_0, fat0, dir, data, file, cur_dir, cluster, sectors_written,
                   calls, crashes, overrun, torn>>

\* Power is lost; INIT_FILESYSTEM reads the first table again.
Crash ==
    /\ crashes < MaxCrashes
    /\ pc' = "idle" /\ FAT_TABLE_0' = fat0
    /\ crashes' = crashes + 1 /\ recent' = Empty
    /\ torn' = (torn \/ (pc = "fat0" /\ sector # 0))
    /\ file' = Empty /\ cur_dir' = dir /\ cluster' = 0 /\ sectors_written' = 0 /\ sector' = 0
    /\ UNCHANGED <<disk, calls, stored, overrun>>

Next == \/ \E name \in Names, length \in Lengths : write_file(name, length)
        \/ ChainLink \/ ChainEnd \/ WriteDir \/ WriteFat0 \/ WriteFat1 \/ Crash

Spec == Init /\ [][Next]_vars

-----------------------------------------------------------------------------
(* Properties. *)

\* The table bytes are bytes, every cluster taken is an entry of the table, and
\* the loop that writes a file never takes a cluster more than it has sectors.
TypeOK ==
    /\ FAT_TABLE_0 \in Tables /\ fat0 \in Tables /\ fat1 \in Tables
    /\ DOMAIN dir = 1..Slots /\ DOMAIN cur_dir = 1..Slots
    /\ pc \in {"idle", "chain", "dir", "fat0", "fat1"}
    /\ cluster \in TableEntries /\ sector \in 0..LastSector
    /\ pc = "chain" => sectors_written \in 0..(file.length - 1)

\* The table is a set of chains: a linked cluster is not free, and no two
\* clusters link to the same one.  It holds in the middle of a call, and in what
\* a crash leaves on the disk unless it tore the table itself.
ChainsSound ==
    ~torn =>
        \A fat \in {FAT_TABLE_0} \cup (IF pc = "fat0" THEN {} ELSE {fat0}) :
            \A c \in 2..TableLast :
                Get(fat, c) \in TableEntries \ {FREE} =>
                    /\ Get(fat, Get(fat, c)) # FREE
                    /\ \A d \in TableEntries : Get(fat, d) = Get(fat, c) => d = c

\* The file f can be read from the disk: its chain has its length and holds
\* its sectors in order.
OnDisk(f) ==
    LET chain == Chain(fat0, f.first, f.length)
    IN  /\ \A k \in 1..f.length : chain[k] \in Clusters /\ data[chain[k]] = <<f.number, k>>
        /\ Get(fat0, chain[f.length]) = EOC

\* Once write_file has returned, for a file that fitted on the disk, no later
\* call and no crash at any point of one touches the chain or the data, not
\* even one that leaves the table half written, with an entry cut in two.
StoredDataKept == \A f \in stored : OnDisk(f)

\* When write_file returns, the directory on disk leads to the file and both
\* tables on disk are up to date.
ReturnedIsDurable ==
    recent # Empty =>
        /\ \E i \in Seen(dir) : dir[i] = Entry(recent.name, recent.first, recent.length)
        /\ fat0 = FAT_TABLE_0 /\ fat1 = FAT_TABLE_0

\* The clusters a directory entry leads to.
EntryChain(i) == Chain(FAT_TABLE_0, dir[i].first_cluster, dir[i].size)
Claims(i) == {EntryChain(i)[k] : k \in 1..dir[i].size}

\* Between calls, as long as no crash has left an entry whose first cluster the
\* table on disk has as free, load_fat_cluster_chain stops after as many
\* clusters as the entry's size says, and no two entries share a cluster, on a
\* full disk too.
EntriesReadable ==
    pc = "idle" /\ crashes = 0 =>
        \A i \in Seen(dir) :
            /\ dir[i].size > 0 =>
                  /\ Claims(i) \subseteq TableEntries \ {FREE}
                  /\ Get(FAT_TABLE_0, EntryChain(i)[dir[i].size]) = EOC
            /\ \A j \in Seen(dir) : i # j => Claims(i) \cap Claims(j) = {}

\* fat.c:318, "create new entry in our copy of the directory": a file that was
\* written stays in the directory when others are, until it is itself written
\* again.
EarlierFilesListed ==
    pc = "idle" =>
        \A f \in stored :
            (\A g \in stored : g.name = f.name => g.number <= f.number) =>
                \E i \in Seen(dir) : dir[i] = Entry(f.name, f.first, f.length)
=============================================================================
