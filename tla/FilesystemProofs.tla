-------------------------- MODULE FilesystemProofs --------------------------
(***************************************************************************)
(* Proofs about the two models of the file system's calls.                 *)
(*                                                                         *)
(* OpenFiles, for every set of files and pipes, every sector and page size *)
(* and every bound: the reference counts own the caches although a close   *)
(* drops two of them, a descriptor of a file that is not shared has its    *)
(* cache, and transfers leave a cache only where AccessesInside says.      *)
(*                                                                         *)
(* VfsTree, for every disk, every set of names and every bound: a parent   *)
(* is older than its children and the children of a directory are sorted,  *)
(* so that the path of a node leads back to it; and what has been taken    *)
(* over from the disk covers it, above the directories still to be visited.*)
(***************************************************************************)
EXTENDS OpenFiles, VfsTree, FiniteSetTheorems, SequenceTheorems, WellFoundedInduction, TLAPS

-----------------------------------------------------------------------------
(* Rounding to pages. *)

\* RoundUp returns the least multiple of the unit that is not below its argument.
LEMMA RoundUpBounds ==
    ASSUME NEW x \in Nat, NEW unit \in Nat \ {0}
    PROVE  /\ RoundUp(x, unit) \in Nat
           /\ x <= RoundUp(x, unit)
           /\ (x + unit - 1) \div unit \in Nat
           /\ \A k \in Nat : x <= unit * k => RoundUp(x, unit) <= unit * k
<1> DEFINE q == (x + unit - 1) \div unit
<1>1. q \in Int /\ unit * q <= x + unit - 1 /\ x + unit - 1 < unit * q + unit
  OBVIOUS
<1>2. q >= 0
  <2> SUFFICES ASSUME q <= -1 PROVE FALSE
    BY <1>1
  <2>1. unit * q <= -unit
    BY <1>1
  <2> QED
    BY <1>1, <2>1
<1>3. unit * q \in Nat
  BY <1>1, <1>2
<1>4. ASSUME NEW k \in Nat, x <= unit * k PROVE unit * q <= unit * k
  <2> SUFFICES ASSUME q >= k + 1 PROVE FALSE
    <3>1. q <= k => unit * q <= unit * k
      BY <1>1, <1>2
    <3> QED
      BY <1>1, <3>1
  <2>1. unit * q >= unit * (k + 1)
    BY <1>1, <1>2
  <2>2. unit * (k + 1) = unit * k + unit
    OBVIOUS
  <2>3. unit * k \in Nat
    OBVIOUS
  <2> HIDE DEF q
  <2> QED
    BY <1>1, <1>3, <1>4, <2>1, <2>2, <2>3
<1> QED
  BY <1>1, <1>2, <1>3, <1>4 DEF RoundUp

-----------------------------------------------------------------------------
(* The inductive invariant. *)

\* A file that was not opened while it was open has one descriptor at most.
SoleDescriptor ==
    \A n \in Nodes : ~node[n].shared => \A f, g \in Openers(n) : f = g

\* What a pipe holds fits its buffer.
PipeRoom ==
    \A n \in Pipes : node[n].fill <= node[n].cap

\* The cache of a file is the one that open loaded, or reaches to the end of the
\* page in which the file ends.
CacheHolds ==
    \A n \in Files :
        node[n].live => node[n].cap = CacheSize(n) \/ ROUND_4K(node[n].size) <= node[n].cap

TypeInv == TypeOK /\ PipeRoom

OpenNodeRecord == [refs : Nat, live : BOOLEAN, cap : Nat, fill : Nat,
               freedTwice : BOOLEAN, shared : BOOLEAN, size : Nat]

FileInv ==
    TypeInv /\ CachesOwned /\ SoleDescriptor /\ DescriptorsLive /\ CacheHolds /\ AccessesInside

-----------------------------------------------------------------------------
(* The descriptors of a node. *)

\* The descriptors of a node are finitely many, as their ids are below next_id.
LEMMA OpenersFinite ==
    ASSUME TypeOK, NEW n \in Nodes
    PROVE  IsFiniteSet(Openers(n)) /\ Cardinality(Openers(n)) \in Nat
<1>1. Openers(n) \subseteq 0 .. (next_id - 1)
  BY DEF Openers, TypeOK
<1>2. IsFiniteSet(0 .. (next_id - 1))
  BY FS_Interval DEF TypeOK
<1> QED
  BY <1>1, <1>2, FS_Subset, FS_CardinalityType

\* open adds the descriptor next_id to its node.
LEMMA OpenAdds ==
    ASSUME TypeOK, NEW n \in Nodes, create_file_table_entry(n)
    PROVE  /\ Openers(n)' = Openers(n) \cup {next_id}
           /\ next_id \notin Openers(n)
           /\ \A m \in Nodes \ {n} : Openers(m)' = Openers(m)
           /\ Cardinality(Openers(n)') = Cardinality(Openers(n)) + 1
<1>1. next_id \notin DOMAIN table
  BY DEF TypeOK
<1>2. /\ DOMAIN table' = DOMAIN table \cup {next_id}
      /\ table'[next_id].base = n
      /\ \A fd \in DOMAIN table : table'[fd] = table[fd]
  BY <1>1 DEF create_file_table_entry
<1>3. Openers(n)' = Openers(n) \cup {next_id}
  BY <1>1, <1>2 DEF Openers
<1>4. \A m \in Nodes \ {n} : Openers(m)' = Openers(m)
  BY <1>1, <1>2 DEF Openers
<1>5. next_id \notin Openers(n)
  BY <1>1 DEF Openers
<1> QED
  BY <1>3, <1>4, <1>5, OpenersFinite, FS_AddElement

\* close removes its descriptor from its node.
LEMMA CloseRemoves ==
    ASSUME TypeOK, NEW fd \in DOMAIN table, NEW v, remove_file_table_entry(fd, v),
           NEW n, n = table[fd].base
    PROVE  /\ n \in Nodes
           /\ Openers(n)' = Openers(n) \ {fd}
           /\ fd \in Openers(n)
           /\ \A m \in Nodes \ {n} : Openers(m)' = Openers(m)
           /\ Cardinality(Openers(n)') = Cardinality(Openers(n)) - 1
<1>1. n \in Nodes
  BY DEF TypeOK
<1>2. DOMAIN table' = DOMAIN table \ {fd} /\ \A g \in DOMAIN table' : table'[g] = table[g]
  BY DEF remove_file_table_entry
<1>3. Openers(n)' = Openers(n) \ {fd}
  BY <1>2 DEF Openers
<1>4. \A m \in Nodes \ {n} : Openers(m)' = Openers(m)
  BY <1>2 DEF Openers
<1>5. fd \in Openers(n)
  BY DEF Openers
<1>6. Cardinality(Openers(n) \ {fd}) = Cardinality(Openers(n)) - 1
  BY <1>1, <1>5, OpenersFinite, FS_RemoveElement
<1> QED
  BY <1>1, <1>3, <1>4, <1>5, <1>6

\* Moving the offset of a descriptor changes no set of descriptors.
LEMMA SeekKeeps ==
    ASSUME TypeOK, NEW fd \in DOMAIN table, NEW x,
           table' = [table EXCEPT ![fd].seek_offset = x]
    PROVE  /\ DOMAIN table' = DOMAIN table
           /\ \A g \in DOMAIN table : table'[g].base = table[g].base
           /\ table'[fd] = [base |-> table[fd].base, seek_offset |-> x]
           /\ \A g \in DOMAIN table \ {fd} : table'[g] = table[g]
           /\ \A m \in Nodes : Openers(m)' = Openers(m)
<1>1. table[fd] \in [base : Nodes, seek_offset : Nat]
  BY DEF TypeOK
<1>2. DOMAIN table' = DOMAIN table
  OBVIOUS
<1>3. table'[fd] = [base |-> table[fd].base, seek_offset |-> x]
  BY <1>1
<1>4. \A g \in DOMAIN table \ {fd} : table'[g] = table[g]
  OBVIOUS
<1>5. \A g \in DOMAIN table : table'[g].base = table[g].base
  BY <1>3, <1>4
<1> QED
  BY <1>2, <1>3, <1>4, <1>5 DEF Openers

-----------------------------------------------------------------------------
(* What the calls of vfs.c make of a node. *)

\* Setting the mark of a shared cache leaves the rest of a node.
LEMMA SharedSet ==
    ASSUME NEW v \in OpenNodeRecord, NEW b \in BOOLEAN
    PROVE  LET w == [v EXCEPT !.shared = b]
           IN  /\ w \in OpenNodeRecord /\ w.shared = b
               /\ w.refs = v.refs /\ w.live = v.live /\ w.cap = v.cap /\ w.fill = v.fill
               /\ w.freedTwice = v.freedTwice /\ w.size = v.size
BY DEF OpenNodeRecord

\* What vfs_open makes of a node.
LEMMA OpenedNode ==
    ASSUME TypeOK, NEW n \in Nodes
    PROVE  LET v == node[n]
               w == [vfs_open(n) EXCEPT !.shared = Openers(n) # {}]
           IN  /\ w \in OpenNodeRecord
               /\ w.refs = v.refs + 1
               /\ w.shared = (Openers(n) # {})
               /\ w.freedTwice = v.freedTwice /\ w.size = v.size
               /\ v.refs = 0 => w.live /\ w.cap = CacheSize(n) /\ w.fill = 0
               /\ v.refs # 0 => w.live = v.live /\ w.cap = v.cap /\ w.fill = v.fill
<1> DEFINE v == node[n]
           u == vfs_open(n)
<1>1. v \in OpenNodeRecord
  BY DEF TypeOK, OpenNodeRecord
<1>2. CacheSize(n) \in Nat
  BY OpenFilesAssumption, RoundUpBounds DEF CacheSize, Nodes
<1>3. v.refs + 1 \in Nat
  BY <1>1 DEF OpenNodeRecord
<1>4. /\ u \in OpenNodeRecord
      /\ u.refs = v.refs + 1 /\ u.freedTwice = v.freedTwice /\ u.size = v.size
      /\ v.refs = 0 => u.live /\ u.cap = CacheSize(n) /\ u.fill = 0
      /\ v.refs # 0 => u.live = v.live /\ u.cap = v.cap /\ u.fill = v.fill
  BY <1>1, <1>2, <1>3 DEF vfs_open, OpenNodeRecord
<1>5. (Openers(n) # {}) \in BOOLEAN
  OBVIOUS
<1> HIDE DEF u
<1>6. LET w == [u EXCEPT !.shared = Openers(n) # {}]
      IN  /\ w \in OpenNodeRecord /\ w.shared = (Openers(n) # {})
          /\ w.refs = u.refs /\ w.live = u.live /\ w.cap = u.cap /\ w.fill = u.fill
          /\ w.freedTwice = u.freedTwice /\ w.size = u.size
  BY <1>4, <1>5, SharedSet, Zenon
<1> QED
  BY <1>4, <1>6, Zenon DEF u

\* A close frees the cache with the last reference.
LEMMA ClosedNode ==
    ASSUME NEW v \in OpenNodeRecord
    PROVE  LET w == vfs_close(v)
           IN  /\ w \in OpenNodeRecord
               /\ w.refs = IF v.refs = 0 THEN 0 ELSE v.refs - 1
               /\ w.shared = v.shared /\ w.size = v.size /\ w.cap = v.cap /\ w.fill = v.fill
               /\ (v.live <=> v.refs > 0) => (w.live <=> w.refs > 0) /\ w.freedTwice = v.freedTwice
               /\ w.live => v.live
<1>1. CASE v.refs = 0
  BY <1>1 DEF vfs_close, OpenNodeRecord
<1>2. CASE v.refs # 0
  <2>1. v.refs - 1 \in Nat
    BY <1>2 DEF OpenNodeRecord
  <2>2. vfs_close(v) = [refs |-> v.refs - 1, live |-> v.live /\ v.refs # 1, cap |-> v.cap,
                        fill |-> v.fill, freedTwice |-> v.freedTwice \/ (v.refs = 1 /\ ~v.live),
                        shared |-> v.shared, size |-> v.size]
    BY <1>2 DEF vfs_close, OpenNodeRecord
  <2>3. /\ vfs_close(v).refs = v.refs - 1
        /\ vfs_close(v).live = (v.live /\ v.refs # 1)
        /\ vfs_close(v).freedTwice = (v.freedTwice \/ (v.refs = 1 /\ ~v.live))
    BY <2>2
  <2>4. v.refs > 0 /\ (v.refs - 1 > 0 <=> v.refs # 1)
    BY <1>2 DEF OpenNodeRecord
  <2>5. v.live \in BOOLEAN /\ v.freedTwice \in BOOLEAN
    BY DEF OpenNodeRecord
  <2>6. vfs_close(v) \in OpenNodeRecord
    BY <2>1, <2>2, <2>5 DEF OpenNodeRecord
  <2>7. /\ vfs_close(v).shared = v.shared /\ vfs_close(v).size = v.size
        /\ vfs_close(v).cap = v.cap /\ vfs_close(v).fill = v.fill
    BY <2>2
  <2>8. (v.live <=> v.refs > 0) =>
          /\ vfs_close(v).live <=> vfs_close(v).refs > 0
          /\ vfs_close(v).freedTwice = v.freedTwice
    BY <2>3, <2>4, <2>5
  <2> QED
    BY <1>2, <2>3, <2>6, <2>7, <2>8
<1> QED
  BY <1>1, <1>2

-----------------------------------------------------------------------------
(* Types. *)

\* The types hold at the start.
LEMMA TypeInit == Init => TypeInv
BY OpenFilesAssumption DEF Init, TypeInv, TypeOK, PipeRoom, Nodes

\* A call that leaves descriptors where they are keeps the types if it keeps
\* those of the node and of the offset that it changes.
LEMMA TypeOfNode ==
    ASSUME TypeInv, NEW n \in Nodes, NEW w \in OpenNodeRecord, n \in Pipes => w.fill <= w.cap,
           node' = [node EXCEPT ![n] = w]
    PROVE  node' \in [Nodes -> OpenNodeRecord] /\ PipeRoom'
<1>1. node \in [Nodes -> OpenNodeRecord]
  BY DEF TypeInv, TypeOK, OpenNodeRecord
<1>2. node' \in [Nodes -> OpenNodeRecord]
  BY <1>1
<1>3. ASSUME NEW m \in Pipes PROVE node'[m].fill <= node'[m].cap
  <2>1. m \in Nodes
    BY DEF Nodes
  <2>2. CASE m = n
    BY <1>1, <2>1, <2>2
  <2>3. CASE m # n
    BY <1>1, <2>1, <2>3 DEF TypeInv, PipeRoom
  <2> QED
    BY <2>2, <2>3
<1> QED
  BY <1>2, <1>3 DEF PipeRoom

\* A seek keeps the types of the descriptors.
LEMMA TypeOfTable ==
    ASSUME TypeInv, NEW fd \in DOMAIN table, NEW x \in Nat,
           table' = [table EXCEPT ![fd].seek_offset = x], next_id' = next_id
    PROVE  /\ DOMAIN table' \subseteq 0 .. (next_id' - 1)
           /\ \A g \in DOMAIN table' : table'[g] \in [base : Nodes, seek_offset : Nat]
<1>1. table[fd].base \in Nodes
  BY DEF TypeInv, TypeOK
<1> QED
  BY <1>1, SeekKeeps DEF TypeInv, TypeOK

\* And every call keeps them.
LEMMA TypeStep == TypeInv /\ [Next]_vars => TypeInv'
<1> SUFFICES ASSUME TypeInv, [Next]_vars PROVE TypeInv'
  OBVIOUS
<1>0. TypeOK /\ PipeRoom /\ next_id \in Nat /\ node \in [Nodes -> OpenNodeRecord]
  BY OpenFilesAssumption DEF TypeInv, TypeOK, OpenNodeRecord
<1>a. ASSUME NEW fd \in DOMAIN table
      PROVE  /\ table[fd].base \in Nodes /\ table[fd].seek_offset \in Nat
             /\ node[table[fd].base] \in OpenNodeRecord
  BY <1>0 DEF TypeOK
<1>b. node' \in [Nodes -> OpenNodeRecord] /\ PipeRoom'
        /\ DOMAIN table' \subseteq 0 .. (next_id' - 1)
        /\ (\A g \in DOMAIN table' : table'[g] \in [base : Nodes, seek_offset : Nat])
        /\ next_id' \in 0 .. MaxFd /\ fault' \in {"none", "stale", "overread", "overrun"}
        => TypeInv'
  BY DEF TypeInv, TypeOK, OpenNodeRecord
<1>c. UNCHANGED node => node' \in [Nodes -> OpenNodeRecord] /\ PipeRoom'
  BY <1>0 DEF PipeRoom
<1>d. UNCHANGED <<table, next_id>> =>
        /\ DOMAIN table' \subseteq 0 .. (next_id' - 1)
        /\ \A g \in DOMAIN table' : table'[g] \in [base : Nodes, seek_offset : Nat]
        /\ next_id' \in 0 .. MaxFd
  BY <1>0 DEF TypeOK
<1>e. fault \in {"none", "stale", "overread", "overrun"} /\ next_id \in 0 .. MaxFd
  BY <1>0 DEF TypeOK
<1>1. ASSUME NEW n \in Nodes, open(n) PROVE TypeInv'
  <2> DEFINE w == [vfs_open(n) EXCEPT !.shared = Openers(n) # {}]
  <2>1. w \in OpenNodeRecord /\ (n \in Pipes => w.fill <= w.cap)
    <3>1. CASE node[n].refs = 0
      <4>1. w \in OpenNodeRecord /\ w.fill = 0
        BY <1>0, <3>1, OpenedNode
      <4> HIDE DEF w
      <4> QED
        BY <4>1 DEF OpenNodeRecord
    <3>2. CASE node[n].refs # 0
      <4>1. w \in OpenNodeRecord /\ w.fill = node[n].fill /\ w.cap = node[n].cap
        BY <1>0, <3>2, OpenedNode
      <4> HIDE DEF w
      <4> QED
        BY <1>0, <4>1 DEF PipeRoom
    <3> QED
      BY <3>1, <3>2
  <2>2. node' = [node EXCEPT ![n] = w] /\ create_file_table_entry(n) /\ UNCHANGED fault
          /\ next_id < MaxFd
    BY <1>1 DEF open
  <2> HIDE DEF w
  <2>3. node' \in [Nodes -> OpenNodeRecord] /\ PipeRoom'
    BY <2>1, <2>2, TypeOfNode
  <2>4. next_id' = next_id + 1 /\ next_id' \in 0 .. MaxFd
    BY <1>0, <2>2, OpenFilesAssumption DEF create_file_table_entry
  <2>5. /\ DOMAIN table' \subseteq 0 .. (next_id' - 1)
        /\ \A g \in DOMAIN table' : table'[g] \in [base : Nodes, seek_offset : Nat]
    BY <1>0, <2>2, <2>4 DEF create_file_table_entry, TypeOK
  <2> QED
    BY <1>b, <1>e, <2>2, <2>3, <2>4, <2>5
<1>2. ASSUME NEW fd \in DOMAIN table, close(fd) PROVE TypeInv'
  <2> DEFINE n == table[fd].base
             v == vfs_close(node[n])
             w == vfs_close(v)
  <2>1. v \in OpenNodeRecord /\ v.fill = node[n].fill /\ v.cap = node[n].cap
    BY <1>a, ClosedNode
  <2>2. w \in OpenNodeRecord /\ w.fill = v.fill /\ w.cap = v.cap
    <3> HIDE DEF v
    <3> QED
      BY <2>1, ClosedNode
  <2>3. /\ node' = [node EXCEPT ![n] = w] /\ UNCHANGED <<next_id, fault>>
        /\ table' = [g \in DOMAIN table \ {fd} |-> table[g]]
    BY <1>2 DEF close, remove_file_table_entry
  <2>4. n \in Nodes /\ (n \in Pipes => w.fill <= w.cap)
    BY <1>0, <1>a, <2>1, <2>2 DEF PipeRoom
  <2>5. /\ DOMAIN table' \subseteq 0 .. (next_id' - 1)
        /\ \A g \in DOMAIN table' : table'[g] \in [base : Nodes, seek_offset : Nat]
    BY <1>0, <2>3 DEF TypeOK
  <2> HIDE DEF w, n
  <2>6. node' \in [Nodes -> OpenNodeRecord] /\ PipeRoom'
    BY <2>2, <2>3, <2>4, TypeOfNode
  <2> QED
    BY <1>b, <1>e, <2>3, <2>5, <2>6
<1>3. ASSUME NEW fd \in DOMAIN table, NEW count \in Reads, ReadFile(fd, count) PROVE TypeInv'
  <2> DEFINE n == table[fd].base
             offset == table[fd].seek_offset
             transferred == Readable(node[n], offset, count)
             x == Moved(fd, transferred)
  <2>1. /\ fault' = ReadFault(node[n], offset, transferred)
        /\ table' = IF fault' = "none" THEN [table EXCEPT ![fd].seek_offset = x] ELSE table
        /\ UNCHANGED <<node, next_id>>
    BY <1>3 DEF ReadFile
  <2>2. fault' \in {"none", "stale", "overread", "overrun"}
    BY <2>1 DEF ReadFault
  <2>3. node[n].size \in Nat /\ offset \in Nat /\ count \in Nat
    BY <1>a, OpenFilesAssumption DEF OpenNodeRecord
  <2>4. CASE fault' = "none"
    <3>1. transferred \in Int /\ ~(transferred < 0)
      BY <2>1, <2>3, <2>4 DEF ReadFault, Readable
    <3>2. x \in Nat
      <4> HIDE DEF transferred
      <4> QED
        BY <2>3, <3>1 DEF Moved
    <3>3. table' = [table EXCEPT ![fd].seek_offset = x]
      BY <2>1, <2>4
    <3> HIDE DEF x
    <3> QED
      BY <1>b, <1>c, <1>e, <2>1, <2>2, <3>2, <3>3, TypeOfTable
  <2>5. CASE fault' # "none"
    BY <1>b, <1>c, <1>d, <2>1, <2>2, <2>5
  <2> QED
    BY <2>4, <2>5
<1>4. ASSUME NEW fd \in DOMAIN table, NEW count \in Reads, ReadPipe(fd, count) PROVE TypeInv'
  <2> DEFINE n == table[fd].base
             transferred == Lesser(count, node[n].fill)
             x == Moved(fd, transferred)
             w == [node[n] EXCEPT !.fill = @ - transferred]
  <2>1. n \in Nodes /\ n \in Pipes /\ UNCHANGED next_id
    BY <1>4, <1>a DEF ReadPipe
  <2>2. CASE fault' = "stale" /\ UNCHANGED <<node, table>>
    BY <1>b, <1>c, <1>d, <2>1, <2>2
  <2>3. CASE /\ node' = [node EXCEPT ![n].fill = @ - transferred]
             /\ table' = [table EXCEPT ![fd].seek_offset = x]
             /\ UNCHANGED fault
    <3>1. node[n].fill \in Nat /\ node[n].size \in Nat /\ table[fd].seek_offset \in Nat /\ count \in Nat
      BY <1>a, OpenFilesAssumption DEF OpenNodeRecord
    <3>2. transferred \in Nat /\ transferred <= node[n].fill
      BY <3>1 DEF Lesser
    <3>3. x \in Nat
      <4> HIDE DEF transferred
      <4> QED
        BY <3>1, <3>2 DEF Moved
    <3>4. node[n] \in OpenNodeRecord /\ node[n].fill <= node[n].cap
      BY <1>0, <1>a, <2>1 DEF PipeRoom
    <3>5. w \in OpenNodeRecord /\ w.fill <= w.cap
      <4> HIDE DEF transferred
      <4> QED
        BY <3>1, <3>2, <3>4 DEF OpenNodeRecord
    <3>6. node' = [node EXCEPT ![n] = w]
      BY <2>3
    <3> HIDE DEF w, x, n
    <3>7. node' \in [Nodes -> OpenNodeRecord] /\ PipeRoom'
      BY <2>1, <3>5, <3>6, TypeOfNode
    <3> QED
      BY <1>b, <1>e, <2>1, <2>3, <3>3, <3>7, TypeOfTable
  <2> QED
    BY <1>4, <2>2, <2>3 DEF ReadPipe
<1>5. ASSUME NEW fd \in DOMAIN table, NEW count \in Writes, WriteFile(fd, count) PROVE TypeInv'
  <2> DEFINE n == table[fd].base
             end == table[fd].seek_offset + count
             c == Recached(node[n], end)
             z == IF end > node[n].size THEN end ELSE node[n].size
             w == [node[n] EXCEPT !.cap = c, !.size = z]
  <2>1. n \in Files /\ n \in Nodes /\ n \notin Pipes /\ UNCHANGED next_id
          /\ fault' = WriteFault(node[n], end)
    BY <1>5, <1>a, OpenFilesAssumption DEF WriteFile
  <2>2. fault' \in {"none", "stale", "overread", "overrun"}
    BY <2>1 DEF WriteFault
  <2>3. CASE fault' = "none"
    <3>1. node[n] \in OpenNodeRecord /\ table[fd].seek_offset \in Nat /\ count \in Nat
      BY <1>a, OpenFilesAssumption
    <3>2. end \in Nat /\ node[n].size \in Nat /\ node[n].cap \in Nat
      BY <3>1 DEF OpenNodeRecord
    <3>3. c \in Nat /\ z \in Nat
      <4> HIDE DEF end
      <4>1. ROUND_4K(node[n].size) \in Nat /\ PAGE \in Nat
        BY <3>2, RoundUpBounds, OpenFilesAssumption DEF ROUND_4K
      <4> QED
        BY <3>2, <4>1 DEF Recached
    <3>4. node' = [node EXCEPT ![n] = w]
      BY <1>5, <2>3 DEF WriteFile
    <3>5. table' = [table EXCEPT ![fd].seek_offset = table[fd].seek_offset + count]
      BY <1>5, <2>3 DEF WriteFile, file_write
    <3>6. w \in OpenNodeRecord
      <4> HIDE DEF c, z
      <4> QED
        BY <3>1, <3>3 DEF OpenNodeRecord
    <3> HIDE DEF w, n
    <3>7. node' \in [Nodes -> OpenNodeRecord] /\ PipeRoom'
      BY <2>1, <3>4, <3>6, TypeOfNode
    <3> QED
      BY <1>b, <1>e, <2>1, <2>2, <3>2, <3>5, <3>7, TypeOfTable
  <2>4. CASE fault' # "none"
    <3>1. UNCHANGED <<node, table>>
      BY <1>5, <2>4 DEF WriteFile
    <3> QED
      BY <1>b, <1>c, <1>d, <2>1, <2>2, <3>1
  <2> QED
    BY <2>3, <2>4
<1>6. ASSUME NEW fd \in DOMAIN table, NEW count \in PipeWrites, WritePipe(fd, count) PROVE TypeInv'
  <2> DEFINE n == table[fd].base
             transferred == Lesser(count, node[n].cap - node[n].fill)
             w == [node[n] EXCEPT !.fill = @ + transferred]
  <2>1. n \in Nodes /\ n \in Pipes /\ UNCHANGED next_id
    BY <1>6, <1>a DEF WritePipe
  <2>2. CASE fault' = "stale" /\ UNCHANGED <<node, table>>
    BY <1>b, <1>c, <1>d, <2>1, <2>2
  <2>3. CASE /\ node' = [node EXCEPT ![n].fill = @ + transferred]
             /\ file_write(fd, transferred)
             /\ UNCHANGED fault
    <3>1. /\ node[n] \in OpenNodeRecord /\ node[n].fill <= node[n].cap
          /\ node[n].fill \in Nat /\ node[n].cap \in Nat
          /\ table[fd].seek_offset \in Nat /\ count \in Nat
      BY <1>0, <1>a, <2>1, OpenFilesAssumption DEF OpenNodeRecord, PipeRoom
    <3>2. transferred \in Nat /\ node[n].fill + transferred <= node[n].cap
      BY <3>1 DEF Lesser
    <3>3. w \in OpenNodeRecord /\ w.fill <= w.cap
      <4> HIDE DEF transferred
      <4> QED
        BY <3>1, <3>2 DEF OpenNodeRecord
    <3>4. node' = [node EXCEPT ![n] = w]
      BY <2>3
    <3>5. /\ table' = [table EXCEPT ![fd].seek_offset = table[fd].seek_offset + transferred]
          /\ table[fd].seek_offset + transferred \in Nat
      BY <2>3, <3>1, <3>2 DEF file_write
    <3> HIDE DEF w, n, transferred
    <3>6. node' \in [Nodes -> OpenNodeRecord] /\ PipeRoom'
      BY <2>1, <3>3, <3>4, TypeOfNode
    <3> QED
      BY <1>b, <1>e, <2>1, <2>3, <3>5, <3>6, TypeOfTable
  <2> QED
    BY <1>6, <2>2, <2>3 DEF WritePipe
<1>7. ASSUME NEW fd \in DOMAIN table, NEW s \in Seeks, lseek(fd, s[1], s[2]) PROVE TypeInv'
  <2> DEFINE x == Intended(fd, s[1], s[2])
  <2>1. x \in Nat /\ table' = [table EXCEPT ![fd].seek_offset = x] /\ UNCHANGED <<node, next_id, fault>>
    BY <1>7, OpenFilesAssumption DEF lseek
  <2> HIDE DEF x
  <2> QED
    BY <1>b, <1>c, <1>e, <2>1, TypeOfTable
<1>8. CASE UNCHANGED vars
  BY <1>b, <1>c, <1>d, <1>e, <1>8 DEF vars
<1> QED
  BY <1>1, <1>2, <1>3, <1>4, <1>5, <1>6, <1>7, <1>8 DEF Next

\* The nodes have the fields that the calls expect of them, every offset is a
\* natural number and every pipe holds what its buffer has room for.
THEOREM TypeCorrect == Spec => []TypeOK
<1>1. Spec => []TypeInv
  BY TypeInit, TypeStep, PTL DEF Spec
<1>2. TypeInv => TypeOK
  BY DEF TypeInv
<1> QED
  BY <1>1, <1>2, PTL

-----------------------------------------------------------------------------
(* References. *)

\* Reading, writing and seeking count no reference and move no descriptor.
Counted(n) == <<node[n].refs, node[n].live, node[n].freedTwice, node[n].shared>>

Transfer ==
    \E fd \in DOMAIN table :
        \/ \E count \in Reads : ReadFile(fd, count) \/ ReadPipe(fd, count)
        \/ \E count \in Writes : WriteFile(fd, count)
        \/ \E count \in PipeWrites : WritePipe(fd, count)
        \/ \E s \in Seeks : lseek(fd, s[1], s[2])

\* Reading, writing and seeking keep who has which node open.
LEMMA TransferKeeps ==
    ASSUME TypeOK, Transfer
    PROVE  /\ \A n \in Nodes : Counted(n)' = Counted(n) /\ Openers(n)' = Openers(n)
           /\ DOMAIN table' = DOMAIN table
           /\ \A g \in DOMAIN table : table'[g].base = table[g].base
<1> PICK fd \in DOMAIN table :
        \/ \E count \in Reads : ReadFile(fd, count) \/ ReadPipe(fd, count)
        \/ \E count \in Writes : WriteFile(fd, count)
        \/ \E count \in PipeWrites : WritePipe(fd, count)
        \/ \E s \in Seeks : lseek(fd, s[1], s[2])
  BY DEF Transfer
<1> DEFINE n == table[fd].base
<1>1. n \in Nodes /\ node \in [Nodes -> OpenNodeRecord]
  BY DEF TypeOK, OpenNodeRecord
<1>2. \/ UNCHANGED node
      \/ \E x : node' = [node EXCEPT ![n].fill = x]
      \/ \E c, z : node' = [node EXCEPT ![n].cap = c, ![n].size = z]
  <2>1. ASSUME NEW count \in Writes, WriteFile(fd, count)
        PROVE  \/ UNCHANGED node
               \/ \E c, z : node' = [node EXCEPT ![n].cap = c, ![n].size = z]
    BY <2>1 DEF WriteFile
  <2>2. ASSUME NEW count \in Reads, ReadPipe(fd, count)
        PROVE  UNCHANGED node \/ \E x : node' = [node EXCEPT ![n].fill = x]
    BY <2>2 DEF ReadPipe
  <2>3. ASSUME NEW count \in PipeWrites, WritePipe(fd, count)
        PROVE  UNCHANGED node \/ \E x : node' = [node EXCEPT ![n].fill = x]
    BY <2>3 DEF WritePipe
  <2> QED
    BY <2>1, <2>2, <2>3 DEF ReadFile, lseek
<1>3. \A m \in Nodes : Counted(m)' = Counted(m)
  <2>1. CASE UNCHANGED node
    BY <2>1 DEF Counted
  <2>2. ASSUME NEW x, node' = [node EXCEPT ![n].fill = x]
        PROVE  \A m \in Nodes : Counted(m)' = Counted(m)
    <3>1. /\ node'[n] = [node[n] EXCEPT !.fill = x]
          /\ \A m \in Nodes \ {n} : node'[m] = node[m]
      BY <1>1, <2>2
    <3>2. /\ node'[n].refs = node[n].refs /\ node'[n].live = node[n].live
          /\ node'[n].freedTwice = node[n].freedTwice /\ node'[n].shared = node[n].shared
      BY <1>1, <3>1 DEF OpenNodeRecord
    <3> HIDE DEF n
    <3> QED
      BY <3>1, <3>2 DEF Counted
  <2>3. ASSUME NEW c, NEW z, node' = [node EXCEPT ![n].cap = c, ![n].size = z]
        PROVE  \A m \in Nodes : Counted(m)' = Counted(m)
    <3>1. /\ node'[n] = [node[n] EXCEPT !.cap = c, !.size = z]
          /\ \A m \in Nodes \ {n} : node'[m] = node[m]
      BY <1>1, <2>3
    <3>2. /\ node'[n].refs = node[n].refs /\ node'[n].live = node[n].live
          /\ node'[n].freedTwice = node[n].freedTwice /\ node'[n].shared = node[n].shared
      BY <1>1, <3>1 DEF OpenNodeRecord
    <3> HIDE DEF n
    <3> QED
      BY <3>1, <3>2 DEF Counted
  <2> QED
    BY <1>2, <2>1, <2>2, <2>3
<1>4. UNCHANGED table \/ \E x : table' = [table EXCEPT ![fd].seek_offset = x]
  <2>1. ASSUME NEW count \in Writes, WriteFile(fd, count)
        PROVE  UNCHANGED table \/ \E x : table' = [table EXCEPT ![fd].seek_offset = x]
    BY <2>1 DEF WriteFile, file_write
  <2>2. ASSUME NEW count \in Reads, ReadPipe(fd, count) \/ ReadFile(fd, count)
        PROVE  UNCHANGED table \/ \E x : table' = [table EXCEPT ![fd].seek_offset = x]
    BY <2>2 DEF ReadPipe, ReadFile
  <2>3. ASSUME NEW count \in PipeWrites, WritePipe(fd, count)
        PROVE  UNCHANGED table \/ \E x : table' = [table EXCEPT ![fd].seek_offset = x]
    BY <2>3 DEF WritePipe, file_write
  <2> QED
    BY <2>1, <2>2, <2>3 DEF lseek
<1>5. CASE UNCHANGED table
  BY <1>3, <1>5 DEF Openers
<1>6. ASSUME NEW x, table' = [table EXCEPT ![fd].seek_offset = x]
      PROVE  /\ \A m \in Nodes : Openers(m)' = Openers(m)
             /\ DOMAIN table' = DOMAIN table
             /\ \A g \in DOMAIN table : table'[g].base = table[g].base
  BY <1>6, SeekKeeps
<1> QED
  BY <1>3, <1>4, <1>5, <1>6

\* The calls, with those that only move data taken together.
LEMMA NextSteps ==
    ASSUME [Next]_vars
    PROVE  \/ \E n \in Nodes : open(n)
           \/ \E fd \in DOMAIN table : close(fd)
           \/ Transfer
           \/ UNCHANGED vars
BY DEF Next, Transfer

RefInv == TypeInv /\ CachesOwned /\ SoleDescriptor /\ DescriptorsLive

\* Nothing is counted or held at the start.
LEMMA RefInit == Init => RefInv
<1> SUFFICES ASSUME Init PROVE RefInv
  OBVIOUS
<1>1. \A n \in Nodes : Openers(n) = {}
  BY DEF Init, Openers
<1>2. TypeInv
  BY TypeInit
<1>3. CachesOwned
  <2>1. \A n \in Nodes : node[n].refs = 0 /\ node[n].live = FALSE /\ node[n].freedTwice = FALSE
    BY DEF Init
  <2>2. \A n \in Nodes : Cardinality(Openers(n)) = 0
    BY <1>1, FS_EmptySet
  <2> QED
    BY <2>1, <2>2 DEF CachesOwned
<1> QED
  BY <1>1, <1>2, <1>3 DEF Init, RefInv, SoleDescriptor, DescriptorsLive

\* Every call keeps the counts of references and what they hold.
LEMMA RefStep == RefInv /\ [Next]_vars => RefInv'
<1> SUFFICES ASSUME RefInv, [Next]_vars PROVE RefInv'
  OBVIOUS
<1>0. TypeOK /\ CachesOwned /\ SoleDescriptor /\ DescriptorsLive /\ node \in [Nodes -> OpenNodeRecord]
  BY DEF RefInv, TypeInv, TypeOK, OpenNodeRecord
<1>t. TypeInv'
  BY TypeStep DEF RefInv
<1>c. \A m \in Nodes : Cardinality(Openers(m)) \in Nat /\ node[m].refs \in Nat
  BY <1>0, OpenersFinite DEF OpenNodeRecord
<1>1. ASSUME NEW n \in Nodes, open(n) PROVE RefInv'
  <2> DEFINE w == [vfs_open(n) EXCEPT !.shared = Openers(n) # {}]
  <2>1. /\ w.refs = node[n].refs + 1
        /\ w.shared = (Openers(n) # {})
        /\ w.freedTwice = node[n].freedTwice
        /\ node[n].refs = 0 => w.live
        /\ node[n].refs # 0 => w.live = node[n].live
    BY <1>0, OpenedNode
  <2>2. node' = [node EXCEPT ![n] = w] /\ create_file_table_entry(n)
    BY <1>1 DEF open
  <2> HIDE DEF w
  <2>3. node'[n] = w /\ \A m \in Nodes \ {n} : node'[m] = node[m]
    BY <1>0, <2>2
  <2>4. /\ Openers(n)' = Openers(n) \cup {next_id}
        /\ \A m \in Nodes \ {n} : Openers(m)' = Openers(m)
        /\ Cardinality(Openers(n)') = Cardinality(Openers(n)) + 1
    BY <1>0, <2>2, OpenAdds
  <2>5. w.live
    BY <1>0, <1>c, <2>1 DEF CachesOwned
  <2>6. CachesOwned'
    <3>1. /\ w.live <=> w.refs > 0
          /\ w.refs <= Cardinality(Openers(n)')
          /\ ~w.freedTwice
      BY <1>0, <1>c, <2>1, <2>4, <2>5 DEF CachesOwned
    <3> QED
      BY <1>0, <2>3, <2>4, <3>1 DEF CachesOwned
  <2>7. SoleDescriptor'
    <3>1. ~w.shared => Openers(n)' = {next_id}
      BY <2>1, <2>4
    <3> QED
      BY <1>0, <2>3, <2>4, <3>1 DEF SoleDescriptor
  <2>8. DescriptorsLive'
    <3>1. ASSUME NEW g \in DOMAIN table'
          PROVE  node'[table'[g].base].live \/ node'[table'[g].base].shared
      <4>1. CASE table'[g].base = n
        BY <2>3, <2>5, <4>1
      <4>2. CASE table'[g].base # n
        <5>1. g \in DOMAIN table /\ table'[g] = table[g]
          BY <2>2, <4>2 DEF create_file_table_entry
        <5>2. table[g].base \in Nodes
          BY <1>0, <5>1 DEF TypeOK
        <5> QED
          BY <1>0, <2>3, <4>2, <5>1, <5>2 DEF DescriptorsLive
      <4> QED
        BY <4>1, <4>2
    <3> QED
      BY <3>1 DEF DescriptorsLive
  <2> QED
    BY <1>t, <2>6, <2>7, <2>8 DEF RefInv
<1>2. ASSUME NEW fd \in DOMAIN table, close(fd) PROVE RefInv'
  <2> PICK n : n = table[fd].base
    OBVIOUS
  <2> DEFINE v == vfs_close(node[n])
             w == vfs_close(v)
  <2>1. node' = [node EXCEPT ![n] = w] /\ remove_file_table_entry(fd, v)
    BY <1>2 DEF close, remove_file_table_entry
  <2>2. /\ n \in Nodes
        /\ Openers(n)' = Openers(n) \ {fd}
        /\ fd \in Openers(n)
        /\ \A m \in Nodes \ {n} : Openers(m)' = Openers(m)
        /\ Cardinality(Openers(n)') = Cardinality(Openers(n)) - 1
    <3> HIDE DEF v
    <3> QED
      BY <1>0, <2>1, CloseRemoves
  <2>3. node[n] \in OpenNodeRecord /\ (node[n].live <=> node[n].refs > 0) /\ ~node[n].freedTwice
    BY <1>0, <2>2 DEF CachesOwned
  <2>4. /\ v \in OpenNodeRecord /\ (v.live <=> v.refs > 0) /\ ~v.freedTwice /\ v.shared = node[n].shared
        /\ v.refs = IF node[n].refs = 0 THEN 0 ELSE node[n].refs - 1
    BY <2>3, ClosedNode
  <2>5. /\ (w.live <=> w.refs > 0) /\ ~w.freedTwice /\ w.shared = v.shared
        /\ w.refs = IF v.refs = 0 THEN 0 ELSE v.refs - 1
    <3> HIDE DEF v
    <3> QED
      BY <2>4, ClosedNode
  <2> HIDE DEF v, w
  <2>6. node'[n] = w /\ \A m \in Nodes \ {n} : node'[m] = node[m]
    BY <1>0, <2>1, <2>2
  <2>7. CachesOwned'
    <3>1. Cardinality(Openers(n)) >= 1
      BY <1>0, <2>2, OpenersFinite, FS_EmptySet
    <3>2. w.refs <= Cardinality(Openers(n)')
      BY <1>0, <1>c, <2>2, <2>4, <2>5, <3>1 DEF CachesOwned
    <3> QED
      BY <1>0, <2>2, <2>5, <2>6, <3>2 DEF CachesOwned
  <2>8. SoleDescriptor'
    <3>1. w.shared = node[n].shared
      BY <2>4, <2>5
    <3> QED
      BY <1>0, <2>2, <2>6, <3>1 DEF SoleDescriptor
  <2>9. DescriptorsLive'
    <3>1. ASSUME NEW g \in DOMAIN table'
          PROVE  node'[table'[g].base].live \/ node'[table'[g].base].shared
      <4>1. g \in DOMAIN table /\ g # fd /\ table'[g] = table[g] /\ table[g].base \in Nodes
        BY <1>0, <2>1 DEF remove_file_table_entry, TypeOK
      <4>2. CASE table[g].base = n
        <5>1. g \in Openers(n)
          BY <4>1, <4>2 DEF Openers
        <5>2. node[n].shared
          BY <1>0, <2>2, <4>1, <5>1 DEF SoleDescriptor
        <5> QED
          BY <2>4, <2>5, <2>6, <4>1, <4>2, <5>2
      <4>3. CASE table[g].base # n
        BY <1>0, <2>6, <4>1, <4>3 DEF DescriptorsLive
      <4> QED
        BY <4>2, <4>3
    <3> QED
      BY <3>1 DEF DescriptorsLive
  <2> QED
    BY <1>t, <2>7, <2>8, <2>9 DEF RefInv
<1>3. CASE Transfer
  <2>1. /\ \A m \in Nodes : /\ node'[m].refs = node[m].refs /\ node'[m].live = node[m].live
                            /\ node'[m].freedTwice = node[m].freedTwice
                            /\ node'[m].shared = node[m].shared
        /\ \A m \in Nodes : Openers(m)' = Openers(m)
        /\ DOMAIN table' = DOMAIN table
        /\ \A g \in DOMAIN table : table'[g].base = table[g].base
    BY <1>0, <1>3, TransferKeeps DEF Counted
  <2>2. CachesOwned'
    BY <1>0, <2>1 DEF CachesOwned
  <2>3. SoleDescriptor'
    BY <1>0, <2>1 DEF SoleDescriptor
  <2>4. DescriptorsLive'
    <3>1. \A g \in DOMAIN table : table[g].base \in Nodes
      BY <1>0 DEF TypeOK
    <3> QED
      BY <1>0, <2>1, <3>1 DEF DescriptorsLive
  <2> QED
    BY <1>t, <2>2, <2>3, <2>4 DEF RefInv
<1>4. CASE UNCHANGED vars
  <2>1. UNCHANGED <<node, table>>
    BY <1>4 DEF vars
  <2>2. \A m \in Nodes : Openers(m)' = Openers(m)
    BY <2>1 DEF Openers
  <2> QED
    BY <1>0, <1>t, <2>1, <2>2 DEF RefInv, CachesOwned, SoleDescriptor, DescriptorsLive
<1> QED
  BY <1>1, <1>2, <1>3, <1>4, NextSteps

\* Every cache is owned by a reference, no node has more references than
\* descriptors, and none is freed twice, although close of filesystem.c and
\* remove_file_table_entry both drop a reference: vfs_close stops at zero.
THEOREM OwnedCaches == Spec => []CachesOwned
<1>1. Spec => []RefInv
  BY RefInit, RefStep, PTL DEF Spec
<1>2. RefInv => CachesOwned
  BY DEF RefInv
<1> QED
  BY <1>1, <1>2, PTL

\* A descriptor of a file that has not been open twice at a time has a cache until
\* it is closed: the two references a close drops are missed by nobody else.
THEOREM LiveDescriptors == Spec => []DescriptorsLive
<1>1. Spec => []RefInv
  BY RefInit, RefStep, PTL DEF Spec
<1>2. RefInv => DescriptorsLive
  BY DEF RefInv
<1> QED
  BY <1>1, <1>2, PTL

-----------------------------------------------------------------------------
(* Transfers. *)

\* vfs_file_write that stays inside the cache leaves one that reaches to the end
\* of the last page, if it has enlarged it or if it already did.
LEMMA WriteHolds ==
    ASSUME NEW v \in OpenNodeRecord, NEW end \in Nat, end <= Recached(v, end),
           NEW z, z = IF end > v.size THEN end ELSE v.size
    PROVE  /\ Recached(v, end) = v.cap \/ ROUND_4K(z) <= Recached(v, end)
           /\ ROUND_4K(v.size) <= v.cap => ROUND_4K(z) <= Recached(v, end)
<1> DEFINE q == (v.size + PAGE - 1) \div PAGE
           k == q + 1
<1>1. v.size \in Nat /\ v.cap \in Nat /\ PAGE \in Nat \ {0} /\ z \in Nat
  BY OpenFilesAssumption DEF OpenNodeRecord
<1>2. q \in Nat /\ ROUND_4K(v.size) = PAGE * q /\ ROUND_4K(v.size) \in Nat /\ v.size <= PAGE * q
  BY <1>1, RoundUpBounds DEF ROUND_4K, RoundUp
<1>3. \A m \in Nat : z <= PAGE * m => ROUND_4K(z) <= PAGE * m
  BY <1>1, RoundUpBounds DEF ROUND_4K
<1> HIDE DEF q
<1>4. k \in Nat /\ PAGE * k = PAGE * q + PAGE
  BY <1>1, <1>2
<1> HIDE DEF k
<1>5. CASE end > ROUND_4K(v.size)
  <2>1. Recached(v, end) = PAGE * k
    BY <1>2, <1>4, <1>5 DEF Recached
  <2>2. z <= PAGE * k
    BY <1>1, <1>2, <1>5, <2>1
  <2> QED
    BY <1>3, <1>4, <2>1, <2>2
<1>6. CASE ~(end > ROUND_4K(v.size))
  <2>1. Recached(v, end) = v.cap
    BY <1>6 DEF Recached
  <2>2. z <= PAGE * q
    BY <1>1, <1>2, <1>6
  <2>3. ROUND_4K(z) <= ROUND_4K(v.size)
    BY <1>2, <1>3, <2>2
  <2>4. ROUND_4K(z) \in Nat
    BY <1>1, RoundUpBounds DEF ROUND_4K
  <2> QED
    BY <1>1, <1>2, <2>1, <2>3, <2>4
<1> QED
  BY <1>5, <1>6

\* The whole invariant holds at the start.
LEMMA FileInit == Init => FileInv
<1> SUFFICES ASSUME Init PROVE FileInv
  OBVIOUS
<1>1. RefInv
  BY RefInit
<1>2. CacheHolds
  BY DEF Init, CacheHolds, Nodes
<1>3. AccessesInside
  BY DEF Init, AccessesInside
<1> QED
  BY <1>1, <1>2, <1>3 DEF FileInv, RefInv

\* A step that changes one node keeps CacheHolds if the node keeps it.
LEMMA HoldsOfNode ==
    ASSUME TypeOK, CacheHolds, NEW n \in Nodes, NEW w, node' = [node EXCEPT ![n] = w],
           n \in Files /\ w.live => w.cap = CacheSize(n) \/ ROUND_4K(w.size) <= w.cap
    PROVE  CacheHolds'
<1>1. node'[n] = w /\ \A m \in Nodes \ {n} : node'[m] = node[m]
  BY DEF TypeOK
<1>2. \A m \in Files : m \in Nodes /\ CacheSize(m)' = CacheSize(m)
  BY DEF Nodes
<1> QED
  BY <1>1, <1>2 DEF CacheHolds

\* Every call keeps the size of a file's cache.
LEMMA HoldsStep == FileInv /\ [Next]_vars => CacheHolds'
<1> SUFFICES ASSUME FileInv, [Next]_vars PROVE CacheHolds'
  OBVIOUS
<1>0. TypeOK /\ CachesOwned /\ CacheHolds /\ node \in [Nodes -> OpenNodeRecord]
  BY DEF FileInv, TypeInv, TypeOK, OpenNodeRecord
<1>a. ASSUME NEW fd \in DOMAIN table
      PROVE  /\ table[fd].base \in Nodes /\ table[fd].seek_offset \in Nat
             /\ node[table[fd].base] \in OpenNodeRecord
  BY <1>0 DEF TypeOK
<1>b. UNCHANGED node => CacheHolds'
  BY <1>0 DEF CacheHolds, CacheSize, ROUND_4K, RoundUp
<1>1. ASSUME NEW n \in Nodes, open(n) PROVE CacheHolds'
  <2> DEFINE w == [vfs_open(n) EXCEPT !.shared = Openers(n) # {}]
  <2>1. /\ w.size = node[n].size
        /\ node[n].refs = 0 => w.cap = CacheSize(n)
        /\ node[n].refs # 0 => w.live = node[n].live /\ w.cap = node[n].cap
    BY <1>0, OpenedNode
  <2>2. node' = [node EXCEPT ![n] = w]
    BY <1>1 DEF open
  <2> HIDE DEF w
  <2>3. n \in Files /\ w.live => w.cap = CacheSize(n) \/ ROUND_4K(w.size) <= w.cap
    BY <1>0, <2>1 DEF CacheHolds
  <2> QED
    BY <1>0, <2>2, <2>3, HoldsOfNode
<1>2. ASSUME NEW fd \in DOMAIN table, close(fd) PROVE CacheHolds'
  <2> PICK n : n = table[fd].base
    OBVIOUS
  <2> DEFINE v == vfs_close(node[n])
             w == vfs_close(v)
  <2>1. node' = [node EXCEPT ![n] = w] /\ n \in Nodes
    BY <1>2, <1>a DEF close, remove_file_table_entry
  <2>2. v \in OpenNodeRecord /\ v.size = node[n].size /\ v.cap = node[n].cap /\ (v.live => node[n].live)
    BY <1>a, ClosedNode
  <2>3. w.size = v.size /\ w.cap = v.cap /\ (w.live => v.live)
    <3> HIDE DEF v
    <3> QED
      BY <2>2, ClosedNode
  <2> HIDE DEF v, w
  <2>4. n \in Files /\ w.live => w.cap = CacheSize(n) \/ ROUND_4K(w.size) <= w.cap
    BY <1>0, <2>2, <2>3 DEF CacheHolds
  <2> QED
    BY <1>0, <2>1, <2>4, HoldsOfNode
<1>3. ASSUME NEW fd \in DOMAIN table, NEW count \in Writes, WriteFile(fd, count) PROVE CacheHolds'
  <2> PICK n : n = table[fd].base
    OBVIOUS
  <2> DEFINE end == table[fd].seek_offset + count
             c == Recached(node[n], end)
             z == IF end > node[n].size THEN end ELSE node[n].size
             w == [node[n] EXCEPT !.cap = c, !.size = z]
  <2>1. CASE fault' = "none"
    <3>1. node' = [node EXCEPT ![n] = w] /\ WriteFault(node[n], end) = "none" /\ n \in Nodes
      BY <1>3, <1>a, <2>1 DEF WriteFile
    <3>2. node[n] \in OpenNodeRecord /\ end \in Nat /\ node[n].live
      BY <1>a, <3>1, OpenFilesAssumption DEF WriteFault
    <3>3. PAGE \in Nat /\ ROUND_4K(node[n].size) \in Nat /\ node[n].cap \in Nat
      BY <3>2, RoundUpBounds, OpenFilesAssumption DEF ROUND_4K, OpenNodeRecord
    <3>4. c \in Nat
      BY <3>3 DEF Recached
    <3>5. end <= c
      <4> HIDE DEF end
      <4>1. ~(end > Recached(node[n], end))
        BY <3>1 DEF WriteFault
      <4> QED
        BY <3>2, <3>4, <4>1
    <3>6. w.cap = c /\ w.size = z /\ w.live = node[n].live
      <4> HIDE DEF c, z
      <4> QED
        BY <3>2 DEF OpenNodeRecord
    <3>7. /\ c = node[n].cap \/ ROUND_4K(z) <= c
          /\ ROUND_4K(node[n].size) <= node[n].cap => ROUND_4K(z) <= c
      <4> HIDE DEF end
      <4> QED
        BY <3>2, <3>5, WriteHolds
    <3> HIDE DEF c, z, w, end
    <3>8. n \in Files /\ w.live => w.cap = CacheSize(n) \/ ROUND_4K(w.size) <= w.cap
      BY <1>0, <3>2, <3>6, <3>7 DEF CacheHolds
    <3> QED
      BY <1>0, <3>1, <3>8, HoldsOfNode
  <2>2. CASE fault' # "none"
    BY <1>3, <1>b, <2>2 DEF WriteFile
  <2> QED
    BY <2>1, <2>2
<1>4. ASSUME NEW n \in Pipes, NEW x, node' = [node EXCEPT ![n].fill = x] PROVE CacheHolds'
  <2>1. node' = [node EXCEPT ![n] = [node[n] EXCEPT !.fill = x]] /\ n \notin Files /\ n \in Nodes
    BY <1>4, OpenFilesAssumption DEF Nodes
  <2> QED
    BY <1>0, <2>1, HoldsOfNode
<1>5. ASSUME NEW fd \in DOMAIN table, NEW count \in Reads, ReadPipe(fd, count) PROVE CacheHolds'
  BY <1>4, <1>5, <1>b DEF ReadPipe
<1>6. ASSUME NEW fd \in DOMAIN table, NEW count \in PipeWrites, WritePipe(fd, count) PROVE CacheHolds'
  BY <1>4, <1>6, <1>b DEF WritePipe
<1>7. ASSUME NEW fd \in DOMAIN table, NEW count \in Reads, ReadFile(fd, count) PROVE CacheHolds'
  BY <1>7, <1>b DEF ReadFile
<1>8. ASSUME NEW fd \in DOMAIN table, NEW s \in Seeks, lseek(fd, s[1], s[2]) PROVE CacheHolds'
  BY <1>8, <1>b DEF lseek
<1> QED
  BY <1>1, <1>2, <1>3, <1>5, <1>6, <1>7, <1>8, <1>b DEF Next, vars

\* The step that makes an access outside its cache changes nothing else, and no
\* step follows it: what the invariant says of it is what ReadFault and
\* WriteFault found.
LEMMA InsideStep == FileInv /\ [Next]_vars => AccessesInside'
<1> SUFFICES ASSUME FileInv, [Next]_vars PROVE AccessesInside'
  OBVIOUS
<1>0. TypeOK /\ CacheHolds /\ AccessesInside /\ node \in [Nodes -> OpenNodeRecord]
  BY DEF FileInv, TypeInv, TypeOK, OpenNodeRecord
<1>a. ASSUME NEW fd \in DOMAIN table
      PROVE  /\ table[fd].base \in Nodes /\ table[fd].seek_offset \in Nat
             /\ node[table[fd].base] \in OpenNodeRecord
  BY <1>0 DEF TypeOK
<1>b. fault' \notin {"overread", "overrun"} => AccessesInside'
  BY DEF AccessesInside
<1>c. UNCHANGED vars => AccessesInside'
  BY <1>0 DEF vars, AccessesInside, CacheSize, ROUND_4K, RoundUp
<1>1. ASSUME NEW fd \in DOMAIN table, NEW count \in Reads, ReadFile(fd, count) PROVE AccessesInside'
  <2> DEFINE v == node[table[fd].base]
             offset == table[fd].seek_offset
             transferred == Readable(v, offset, count)
  <2>1. fault' = ReadFault(v, offset, transferred) /\ UNCHANGED node /\ table[fd].base \in Files
    BY <1>1 DEF ReadFile
  <2>2. CASE fault' = "overread"
    <3>1. v.size \in Nat /\ v.cap \in Nat /\ offset \in Nat /\ count \in Nat
      BY <1>a, OpenFilesAssumption DEF OpenNodeRecord
    <3>2. transferred < 0 \/ (transferred > 0 /\ offset + transferred > v.cap)
      BY <2>1, <2>2 DEF ReadFault
    <3>3. offset > v.size \/ v.size > v.cap
      BY <3>1, <3>2 DEF Readable
    <3>4. UNCHANGED <<node, table>>
      BY <1>1, <2>2 DEF ReadFile
    <3> QED
      BY <2>1, <2>2, <3>3, <3>4 DEF AccessesInside
  <2>3. CASE fault' # "overread"
    BY <1>b, <2>1, <2>3 DEF ReadFault
  <2> QED
    BY <2>2, <2>3
<1>2. ASSUME NEW fd \in DOMAIN table, NEW count \in Writes, WriteFile(fd, count) PROVE AccessesInside'
  <2> DEFINE n == table[fd].base
             v == node[n]
             end == table[fd].seek_offset + count
  <2>1. fault' = WriteFault(v, end) /\ n \in Files
    BY <1>2 DEF WriteFile
  <2>2. CASE fault' = "overrun"
    <3>1. v.live /\ end > Recached(v, end)
      BY <2>1, <2>2 DEF WriteFault
    <3>2. UNCHANGED <<node, table>>
      BY <1>2, <2>2 DEF WriteFile
    <3>3. v.size \in Nat /\ v.cap \in Nat /\ end \in Nat
      BY <1>a, OpenFilesAssumption DEF OpenNodeRecord
    <3>4. ROUND_4K(v.size) \in Nat
      BY <3>3, RoundUpBounds, OpenFilesAssumption DEF ROUND_4K
    <3>5. v.cap = CacheSize(n) \/ end > ROUND_4K(v.size) + PAGE
      <4> HIDE DEF end
      <4>1. v.cap = CacheSize(n) \/ ROUND_4K(v.size) <= v.cap
        BY <1>0, <2>1, <3>1 DEF CacheHolds
      <4> QED
        BY <3>1, <3>3, <3>4, <4>1 DEF Recached
    <3> QED
      BY <2>1, <2>2, <3>2, <3>5 DEF AccessesInside, CacheSize, ROUND_4K, RoundUp
  <2>3. CASE fault' # "overrun"
    BY <1>b, <2>1, <2>3 DEF WriteFault
  <2> QED
    BY <2>2, <2>3
<1>3. ASSUME NEW n \in Nodes, open(n) PROVE AccessesInside'
  BY <1>3, <1>b DEF open
<1>4. ASSUME NEW fd \in DOMAIN table, close(fd) PROVE AccessesInside'
  BY <1>4, <1>b DEF close
<1>5. ASSUME NEW fd \in DOMAIN table, NEW count \in Reads, ReadPipe(fd, count) PROVE AccessesInside'
  BY <1>5, <1>b DEF ReadPipe
<1>6. ASSUME NEW fd \in DOMAIN table, NEW count \in PipeWrites, WritePipe(fd, count) PROVE AccessesInside'
  BY <1>6, <1>b DEF WritePipe
<1>7. ASSUME NEW fd \in DOMAIN table, NEW s \in Seeks, lseek(fd, s[1], s[2]) PROVE AccessesInside'
  BY <1>7, <1>b DEF lseek
<1> QED
  BY <1>1, <1>2, <1>3, <1>4, <1>5, <1>6, <1>7, <1>c DEF Next

\* Where a transfer may leave the cache: a read only behind the end of the file or
\* in a file that has outgrown what open loaded, a write only in the cache that
\* open loaded or more than a page behind the file.  Once vfs_file_write has
\* enlarged a cache to whole pages, its own test is right for good.
THEOREM InsideAccesses == Spec => []AccessesInside
<1>1. FileInv /\ [Next]_vars => FileInv'
  <2>1. FileInv => RefInv
    BY DEF FileInv, RefInv
  <2>2. RefInv' /\ CacheHolds' /\ AccessesInside' => FileInv'
    BY DEF FileInv, RefInv
  <2> QED
    BY <2>1, <2>2, RefStep, HoldsStep, InsideStep
<1>2. FileInv => AccessesInside
  BY DEF FileInv
<1> QED
  BY <1>1, <1>2, FileInit, PTL DEF Spec

\* A set of numbers that is not empty has a least one.
LEMMA LeastNatural ==
    ASSUME NEW S \in SUBSET Nat, S # {}
    PROVE  \E i \in S : \A k \in S : i <= k
<1>1. PICK i \in S : \A k \in S : <<k, i>> \notin OpToRel(<, Nat)
  BY NatLessThanWellFounded, WFMin, Zenon
<1>2. ASSUME NEW k \in S PROVE i <= k
  <2>1. <<k, i>> \notin {ss \in Nat \X Nat : ss[1] < ss[2]}
    BY <1>1 DEF OpToRel
  <2> QED
    BY <2>1
<1> QED
  BY <1>2

\* What holds of 0 and passes from each number to the next holds up to n.
LEMMA UpTo ==
    ASSUME NEW n \in Nat, NEW S, 0 \in S, \A i \in 1 .. n : i - 1 \in S => i \in S
    PROVE  \A i \in 0 .. n : i \in S
<1> DEFINE Out == {i \in 0 .. n : i \notin S}
<1> SUFFICES ASSUME Out # {} PROVE FALSE
  OBVIOUS
<1>1. Out \in SUBSET Nat
  OBVIOUS
<1>2. PICK i \in Out : \A k \in Out : i <= k
  BY <1>1, LeastNatural
<1>3. i \in 0 .. n /\ i \notin S /\ i # 0
  OBVIOUS
<1>4. i \in 1 .. n /\ i - 1 \in 0 .. n /\ i - 1 \notin Out
  BY <1>2, <1>3
<1> QED
  BY <1>3, <1>4

\* A function may be defined from each value to the next.
IteratedTo(f, k, S, a, g) ==
    f \in [0 .. k -> S] /\ f[0] = a /\ \A i \in 1 .. k : f[i] = g[<<i, f[i - 1]>>]

\* A function given by its first value and its steps is what its definition says.
LEMMA Iterated ==
    ASSUME NEW n \in Nat, NEW S, NEW a \in S, NEW g \in [(1 .. n) \X S -> S]
    PROVE  \E f : IteratedTo(f, n, S, a, g)
<1> DEFINE Done == {k \in 0 .. n : \E f : IteratedTo(f, k, S, a, g)}
<1>1. 0 \in Done
  <2> DEFINE h == [i \in 0 .. 0 |-> a]
  <2>1. h \in [0 .. 0 -> S] /\ h[0] = a /\ \A i \in 1 .. 0 : FALSE
    OBVIOUS
  <2>2. IteratedTo(h, 0, S, a, g)
    BY <2>1 DEF IteratedTo
  <2> QED
    BY <2>2
<1>2. ASSUME NEW k \in 1 .. n, k - 1 \in Done PROVE k \in Done
  <2>1. PICK f : IteratedTo(f, k - 1, S, a, g)
    BY <1>2
  <2> DEFINE h == [i \in 0 .. k |-> IF i = k THEN g[<<k, f[k - 1]>>] ELSE f[i]]
  <2>2. /\ f \in [0 .. (k - 1) -> S] /\ k - 1 \in 0 .. (k - 1) /\ f[k - 1] \in S /\ f[0] = a
        /\ \A i \in 1 .. (k - 1) : f[i] = g[<<i, f[i - 1]>>]
    BY <2>1 DEF IteratedTo
  <2>3. g[<<k, f[k - 1]>>] \in S
    BY <2>2
  <2>4. h \in [0 .. k -> S]
    BY <2>2, <2>3
  <2>5. h[0] = a
    BY <2>2
  <2>6. h[k] = g[<<k, f[k - 1]>>] /\ \A i \in 0 .. (k - 1) : h[i] = f[i]
    OBVIOUS
  <2> HIDE DEF h
  <2>7. ASSUME NEW i \in 1 .. k PROVE h[i] = g[<<i, h[i - 1]>>]
    <3>1. i - 1 \in 0 .. (k - 1) /\ h[i - 1] = f[i - 1]
      BY <2>6
    <3>2. CASE i = k
      BY <2>6, <3>1, <3>2
    <3>3. CASE i # k
      <4>1. i \in 1 .. (k - 1) /\ h[i] = f[i]
        BY <2>6, <3>3
      <4> QED
        BY <2>2, <3>1, <4>1
    <3> QED
      BY <3>2, <3>3
  <2>8. IteratedTo(h, k, S, a, g)
    BY <2>4, <2>5, <2>7 DEF IteratedTo
  <2> QED
    BY <2>8
<1> HIDE DEF Done
<1>3. n \in Done
  BY <1>1, <1>2, UpTo
<1> QED
  BY <1>3 DEF Done

\* t is s with e in place k.
WithAt(t, s, k, e) ==
    /\ Len(t) = Len(s) + 1
    /\ \A i \in 1 .. (Len(s) + 1) :
         t[i] = IF i < k THEN s[i] ELSE IF i = k THEN e ELSE s[i - 1]

\* What InsertAt makes.
LEMMA InsertAtIs ==
    ASSUME NEW S, NEW s \in Seq(S), NEW e \in S, NEW k \in 1 .. (Len(s) + 1)
    PROVE  InsertAt(s, k, e) \in Seq(S) /\ WithAt(InsertAt(s, k, e), s, k, e)
<1> DEFINE a == SubSeq(s, 1, k - 1)
           b == SubSeq(s, k, Len(s))
           L == Len(s)
<1>0. L \in Nat /\ k \in 1 .. (L + 1) /\ \A i \in 1 .. L : s[i] \in S
  OBVIOUS
<1>1. a \in Seq(S) /\ Len(a) = k - 1 /\ \A i \in 1 .. (k - 1) : a[i] = s[i]
  <2>1. \A i \in 1 .. (k - 1) : s[i] \in S
    BY <1>0
  <2>2. /\ a \in Seq(S) /\ Len(a) = IF 1 <= k - 1 THEN (k - 1) - 1 + 1 ELSE 0
        /\ \A i \in 1 .. ((k - 1) - 1 + 1) : a[i] = s[1 + i - 1]
    BY <1>0, <2>1, SubSeqProperties
  <2> QED
    BY <1>0, <2>2
<1>2. b \in Seq(S) /\ Len(b) = L - k + 1 /\ \A i \in 1 .. (L - k + 1) : b[i] = s[k + i - 1]
  <2>1. \A i \in k .. L : s[i] \in S
    BY <1>0
  <2>2. /\ b \in Seq(S) /\ Len(b) = IF k <= L THEN L - k + 1 ELSE 0
        /\ \A i \in 1 .. (L - k + 1) : b[i] = s[k + i - 1]
    BY <1>0, <2>1, SubSeqProperties
  <2> QED
    BY <1>0, <2>2
<1> DEFINE m == a \o <<e>>
<1> HIDE DEF a, b, L
<1>3. m \in Seq(S) /\ Len(m) = k /\ \A i \in 1 .. k : m[i] = IF i < k THEN s[i] ELSE e
  <2>1. <<e>> \in Seq(S) /\ Len(<<e>>) = 1 /\ <<e>>[1] = e
    OBVIOUS
  <2>2. /\ m \in Seq(S) /\ Len(m) = (k - 1) + 1
        /\ \A i \in 1 .. ((k - 1) + 1) : m[i] = IF i <= k - 1 THEN a[i] ELSE <<e>>[i - (k - 1)]
    BY <1>1, <2>1, ConcatProperties
  <2> QED
    BY <1>0, <1>1, <2>1, <2>2
<1> HIDE DEF m
<1>4. /\ m \o b \in Seq(S) /\ Len(m \o b) = k + (L - k + 1)
      /\ \A i \in 1 .. (k + (L - k + 1)) : (m \o b)[i] = IF i <= k THEN m[i] ELSE b[i - k]
  <2>1. /\ m \o b \in Seq(S) /\ Len(m \o b) = Len(m) + Len(b)
        /\ \A i \in 1 .. (Len(m) + Len(b)) :
             (m \o b)[i] = IF i <= Len(m) THEN m[i] ELSE b[i - Len(m)]
    BY <1>2, <1>3, ConcatProperties
  <2>2. Len(m) = k /\ Len(b) = L - k + 1
    BY <1>2, <1>3
  <2> QED
    BY <2>1, <2>2
<1>5. InsertAt(s, k, e) = m \o b
  BY DEF InsertAt, m, a, b, L
<1>6. k + (L - k + 1) = L + 1
  BY <1>0
<1>7. ASSUME NEW i \in 1 .. (L + 1)
      PROVE  (m \o b)[i] = IF i < k THEN s[i] ELSE IF i = k THEN e ELSE s[i - 1]
  <2>0. i \in 1 .. (k + (L - k + 1))
    BY <1>6
  <2>1. CASE i <= k
    <3>1. (m \o b)[i] = m[i]
      BY <1>4, <2>0, <2>1
    <3>2. m[i] = IF i < k THEN s[i] ELSE e
      BY <1>0, <1>3, <2>1
    <3> QED
      BY <1>0, <2>1, <3>1, <3>2
  <2>2. CASE i > k
    <3>1. i - k \in 1 .. (L - k + 1) /\ k + (i - k) - 1 = i - 1
      BY <1>0, <2>2
    <3>2. (m \o b)[i] = b[i - k]
      BY <1>0, <1>4, <2>0, <2>2
    <3>3. b[i - k] = s[i - 1]
      BY <1>2, <3>1
    <3> QED
      BY <1>0, <2>2, <3>2, <3>3
  <2>3. i <= k \/ i > k
    BY <1>0
  <2> QED
    BY <2>1, <2>2, <2>3, Zenon
<1> QED
  BY <1>4, <1>5, <1>6, <1>7 DEF L, WithAt

-----------------------------------------------------------------------------
(* sorted_list_search. *)

\* A name has a place in the order.
LEMMA RankIs == ASSUME NEW x \in Names PROVE Rank(x) \in Nat
<1>1. \E i \in 1 .. Len(Order) : Order[i] = x
  BY DEF Names
<1>2. Rank(x) \in 1 .. Len(Order)
  BY <1>1 DEF Rank
<1>3. Len(Order) \in Nat
  <2>1. Order \in Seq(Names)
    BY VfsAssumption
  <2> QED
    BY <2>1
<1> QED
  BY <1>2, <1>3

\* Among the keys r, in their order, x is between the bounds, or at them.
Bracket(r, x, n, lo, hi) ==
    /\ lo \in 0 .. n /\ hi \in 0 .. n /\ lo <= hi
    /\ \/ /\ \A i \in 1 .. lo : r[i] < x
          /\ \A i \in (hi + 1) .. n : r[i] > x
       \/ lo = hi /\ lo < n /\ r[lo + 1] = x

Ordered(r, n) == r \in [1 .. n -> Nat] /\ \A i, j \in 1 .. n : i < j => r[i] <= r[j]

\* A probe below the name raises the lower bound.
LEMMA BracketBelow ==
    ASSUME NEW n \in Nat, NEW x \in Nat, NEW r, Ordered(r, n), NEW lo, NEW hi, Bracket(r, x, n, lo, hi),
           lo # hi, NEW c \in lo .. (hi - 1), r[c + 1] < x
    PROVE  Bracket(r, x, n, c + 1, hi)
<1>1. /\ lo \in 0 .. n /\ hi \in 0 .. n /\ lo < hi /\ c + 1 \in 1 .. n /\ c + 1 <= hi
      /\ \A i \in (hi + 1) .. n : r[i] > x
  BY DEF Bracket
<1>2. ASSUME NEW i \in 1 .. (c + 1) PROVE r[i] < x
  <2>1. i \in 1 .. n /\ (i = c + 1 \/ i < c + 1)
    BY <1>1
  <2>2. r[i] \in Nat /\ r[c + 1] \in Nat /\ r[i] <= r[c + 1]
    BY <1>1, <2>1 DEF Ordered
  <2> QED
    BY <2>2
<1> QED
  BY <1>1, <1>2 DEF Bracket

\* A probe above the name lowers the upper one.
LEMMA BracketAbove ==
    ASSUME NEW n \in Nat, NEW x \in Nat, NEW r, Ordered(r, n), NEW lo, NEW hi, Bracket(r, x, n, lo, hi),
           lo # hi, NEW c \in lo .. (hi - 1), r[c + 1] > x
    PROVE  Bracket(r, x, n, lo, c)
<1>1. /\ lo \in 0 .. n /\ hi \in 0 .. n /\ lo < hi /\ c + 1 \in 1 .. n /\ c \in 0 .. n /\ lo <= c
      /\ \A i \in 1 .. lo : r[i] < x
  BY DEF Bracket
<1>2. ASSUME NEW i \in (c + 1) .. n PROVE r[i] > x
  <2>1. i \in 1 .. n /\ (i = c + 1 \/ c + 1 < i)
    BY <1>1
  <2>2. r[i] \in Nat /\ r[c + 1] \in Nat /\ r[c + 1] <= r[i]
    BY <1>1, <2>1 DEF Ordered
  <2> QED
    BY <2>2
<1> QED
  BY <1>1, <1>2 DEF Bracket

\* s is a place for x among the keys, in front of one that is equal if there is any.
PlaceFor(r, x, n, s) ==
    /\ s \in 0 .. n
    /\ \A i \in 1 .. s : r[i] <= x
    /\ \A i \in (s + 1) .. n : r[i] >= x
    /\ (\E i \in 1 .. n : r[i] = x) => s < n /\ r[s + 1] = x

\* Where the bounds meet x can be inserted, in front of any that is equal.
LEMMA BracketMet ==
    ASSUME NEW n \in Nat, NEW x \in Nat, NEW r, Ordered(r, n), NEW s, Bracket(r, x, n, s, s)
    PROVE  PlaceFor(r, x, n, s)
<1> USE DEF PlaceFor
<1>1. s \in 0 .. n
  BY DEF Bracket
<1>2. CASE (\A i \in 1 .. s : r[i] < x) /\ (\A i \in (s + 1) .. n : r[i] > x)
  <2>1. ASSUME NEW i \in 1 .. n PROVE r[i] # x
    <3>1. i \in 1 .. s \/ i \in (s + 1) .. n
      BY <1>1
    <3>2. r[i] \in Nat
      BY DEF Ordered
    <3> QED
      BY <1>2, <3>1, <3>2
  <2>2. \A i \in 1 .. s : i \in 1 .. n /\ r[i] \in Nat
    BY <1>1 DEF Ordered
  <2>3. \A i \in (s + 1) .. n : i \in 1 .. n /\ r[i] \in Nat
    BY <1>1 DEF Ordered
  <2> QED
    BY <1>1, <1>2, <2>1, <2>2, <2>3
<1>3. CASE s < n /\ r[s + 1] = x
  <2>1. ASSUME NEW i \in 1 .. s PROVE r[i] <= x
    BY <1>1, <1>3 DEF Ordered
  <2>2. ASSUME NEW i \in (s + 1) .. n PROVE r[i] >= x
    <3>1. s + 1 \in 1 .. n /\ i \in 1 .. n /\ (i = s + 1 \/ s + 1 < i)
      BY <1>1, <1>3
    <3>2. r[i] \in Nat /\ r[s + 1] \in Nat /\ r[s + 1] <= r[i]
      BY <3>1 DEF Ordered
    <3> QED
      BY <1>3, <3>2
  <2> QED
    BY <1>1, <1>3, <2>1, <2>2
<1> QED
  BY <1>2, <1>3 DEF Bracket

\* The names of children, as keys.
Keys(ns, children) == [i \in 1 .. Len(children) |-> Rank(ns[children[i]].name)]

\* Where the search ends nothing before is greater and nothing behind is less.
LEMMA SearchIs ==
    ASSUME NEW ns, NEW ch \in Seq(Nat), NEW name \in Names,
           \A i \in 1 .. Len(ch) : ns[ch[i]].name \in Names,
           Ordered(Keys(ns, ch), Len(ch))
    PROVE  Bracket(Keys(ns, ch), Rank(name), Len(ch),
                   SearchIndex(ns, ch, name), SearchIndex(ns, ch, name))
<1> DEFINE n == Len(ch)
           r == Keys(ns, ch)
           x == Rank(name)
           S == (0 .. n) \X (0 .. n)
           N(b) == Narrow(ns, ch, name, b)
<1>1. n \in Nat /\ x \in Nat /\ Ordered(r, n)
  BY RankIs
<1>2. ASSUME NEW lo \in 0 .. n, NEW hi \in 0 .. n
      PROVE  /\ N(<<lo, hi>>) \in S
             /\ lo = hi => N(<<lo, hi>>) = <<lo, hi>>
             /\ Bracket(r, x, n, lo, hi) =>
                  /\ Bracket(r, x, n, N(<<lo, hi>>)[1], N(<<lo, hi>>)[2])
                  /\ lo # hi => N(<<lo, hi>>)[2] - N(<<lo, hi>>)[1] < hi - lo
  <2> DEFINE c == (lo + hi) \div 2
  <2>1. CASE lo = hi
    <3>1. N(<<lo, hi>>) = <<lo, hi>>
      BY <2>1 DEF Narrow
    <3> QED
      BY <2>1, <3>1
  <2>2. CASE lo # hi
    <3>1. c \in Nat /\ c + 1 \in 1 .. n /\ (lo < hi => lo <= c /\ c < hi)
      BY <1>1, <2>2
    <3> HIDE DEF c
    <3>2. r[c + 1] = Rank(ns[ch[c + 1]].name) /\ r[c + 1] \in Nat
      BY <1>1, <3>1 DEF Keys, Ordered
    <3>3. N(<<lo, hi>>) = IF r[c + 1] = x THEN <<c, c>>
                          ELSE IF r[c + 1] < x THEN <<c + 1, hi>> ELSE <<lo, c>>
      BY <2>2, <3>2 DEF Narrow, c
    <3>4. N(<<lo, hi>>) \in S
      BY <1>1, <3>1, <3>3
    <3>5. ASSUME Bracket(r, x, n, lo, hi)
          PROVE  /\ Bracket(r, x, n, N(<<lo, hi>>)[1], N(<<lo, hi>>)[2])
                 /\ N(<<lo, hi>>)[2] - N(<<lo, hi>>)[1] < hi - lo
      <4>1. lo < hi /\ c \in lo .. (hi - 1)
        BY <2>2, <3>1, <3>5 DEF Bracket
      <4>2. CASE r[c + 1] = x
        <5>1. Bracket(r, x, n, c, c)
          BY <1>1, <3>1, <4>2 DEF Bracket
        <5>2. N(<<lo, hi>>)[1] = c /\ N(<<lo, hi>>)[2] = c
          BY <3>3, <4>2
        <5> QED
          BY <3>1, <4>1, <5>1, <5>2
      <4>3. CASE r[c + 1] < x
        <5>1. Bracket(r, x, n, c + 1, hi)
          BY <1>1, <2>2, <3>5, <4>1, <4>3, BracketBelow
        <5>2. N(<<lo, hi>>)[1] = c + 1 /\ N(<<lo, hi>>)[2] = hi
          BY <1>1, <3>2, <3>3, <4>3
        <5> QED
          BY <3>1, <4>1, <5>1, <5>2
      <4>4. CASE r[c + 1] > x
        <5>1. Bracket(r, x, n, lo, c)
          BY <1>1, <2>2, <3>5, <4>1, <4>4, BracketAbove
        <5>2. N(<<lo, hi>>)[1] = lo /\ N(<<lo, hi>>)[2] = c
          BY <1>1, <3>2, <3>3, <4>4
        <5> QED
          BY <3>1, <4>1, <5>1, <5>2
      <4> QED
        BY <1>1, <3>2, <4>2, <4>3, <4>4
    <3> QED
      BY <2>2, <3>4, <3>5
  <2> QED
    BY <2>1, <2>2
<1> DEFINE g == [y \in (1 .. n) \X S |-> N(y[2])]
           SearchTo(f) == f = [k \in 0 .. n |-> IF k = 0 THEN <<0, n>> ELSE N(f[k - 1])]
           F == CHOOSE f : SearchTo(f)
<1>3. \A b \in S : N(b) \in S
  <2> SUFFICES ASSUME NEW b \in S PROVE N(b) \in S
    OBVIOUS
  <2>1. b = <<b[1], b[2]>> /\ b[1] \in 0 .. n /\ b[2] \in 0 .. n
    OBVIOUS
  <2> QED
    BY <1>2, <2>1
<1>s. \A b \in S : b = <<b[1], b[2]>> /\ b[1] \in 0 .. n /\ b[2] \in 0 .. n
  OBVIOUS
<1> HIDE DEF N, r, x
<1>4. \E f : SearchTo(f)
  <2>1. g \in [(1 .. n) \X S -> S]
    BY <1>3
  <2>2. <<0, n>> \in S
    BY <1>1
  <2>3. PICK f : IteratedTo(f, n, S, <<0, n>>, g)
    BY <1>1, <2>1, <2>2, Iterated
  <2>4. \A k \in 1 .. n : f[k] = N(f[k - 1])
    <3> SUFFICES ASSUME NEW k \in 1 .. n PROVE f[k] = N(f[k - 1])
      OBVIOUS
    <3>1. k - 1 \in 0 .. n
      BY <1>1
    <3>2. f[k - 1] \in S /\ f[k] = g[<<k, f[k - 1]>>]
      BY <2>3, <3>1 DEF IteratedTo
    <3> QED
      BY <3>2
  <2>5. f = [k \in 0 .. n |-> f[k]] /\ f[0] = <<0, n>>
    BY <2>3 DEF IteratedTo
  <2>6. \A k \in 0 .. n : f[k] = IF k = 0 THEN <<0, n>> ELSE N(f[k - 1])
    BY <2>4, <2>5
  <2> HIDE DEF g
  <2>7. SearchTo(f)
    BY <2>5, <2>6
  <2> QED
    BY <2>7
<1>5. SearchTo(F)
  BY <1>4
<1>6. SearchIndex(ns, ch, name) = F[n][1]
  BY DEF SearchIndex, N
<1> HIDE DEF F
<1>7. F[0] = <<0, n>> /\ \A k \in 1 .. n : F[k] = N(F[k - 1])
  <2>1. \A k \in 0 .. n : F[k] = IF k = 0 THEN <<0, n>> ELSE N(F[k - 1])
    BY <1>5
  <2> QED
    BY <1>1, <2>1
<1> HIDE DEF SearchTo
<1> DEFINE T == {k \in 0 .. n : \E lo, hi \in 0 .. n :
                    F[k] = <<lo, hi>> /\ Bracket(r, x, n, lo, hi) /\ (lo = hi \/ hi - lo <= n - k)}
<1>8. 0 \in T
  <2>1. Bracket(r, x, n, 0, n)
    BY <1>1 DEF Bracket
  <2> QED
    BY <1>1, <1>7, <2>1
<1>9. ASSUME NEW k \in 1 .. n, k - 1 \in T PROVE k \in T
  <2>1. PICK lo \in 0 .. n, hi \in 0 .. n :
          F[k - 1] = <<lo, hi>> /\ Bracket(r, x, n, lo, hi) /\ (lo = hi \/ hi - lo <= n - (k - 1))
    BY <1>9
  <2>2. PICK b \in S : b = N(<<lo, hi>>)
    BY <1>3
  <2>3. F[k] = b /\ b = <<b[1], b[2]>> /\ b[1] \in 0 .. n /\ b[2] \in 0 .. n
    <3>1. F[k] = b
      BY <1>7, <2>1, <2>2
    <3> QED
      BY <1>s, <3>1
  <2>4. Bracket(r, x, n, b[1], b[2]) /\ (lo # hi => b[2] - b[1] < hi - lo)
        /\ (lo = hi => b = <<lo, hi>>)
    BY <1>2, <2>1, <2>2 DEF N, r, x
  <2>5. b[1] = b[2] \/ b[2] - b[1] <= n - k
    <3>1. CASE lo = hi
      BY <2>4, <3>1
    <3>2. CASE lo # hi
      <4>1. hi - lo <= n - (k - 1) /\ b[2] - b[1] < hi - lo
        BY <2>1, <2>4, <3>2
      <4>2. PICK p \in Nat, q \in Nat : p = b[1] /\ q = b[2]
        BY <2>3
      <4>3. q - p <= n - k
        BY <1>1, <4>1, <4>2
      <4> QED
        BY <4>2, <4>3
    <3> QED
      BY <3>1, <3>2
  <2> QED
    BY <2>3, <2>4, <2>5
<1> HIDE DEF T
<1>10. n \in T
  <2>1. \A k \in 1 .. n : k - 1 \in T => k \in T
    BY <1>9
  <2> HIDE DEF n
  <2>2. \A k \in 0 .. n : k \in T
    BY <1>1, <1>8, <2>1, UpTo
  <2> QED
    BY <1>1, <2>2
<1>11. PICK lo \in 0 .. n, hi \in 0 .. n :
         F[n] = <<lo, hi>> /\ Bracket(r, x, n, lo, hi) /\ (lo = hi \/ hi - lo <= n - n)
  BY <1>10 DEF T
<1>12. lo = hi
  BY <1>1, <1>11 DEF Bracket
<1> QED
  BY <1>6, <1>11, <1>12 DEF r, x

-----------------------------------------------------------------------------
(* Trees. *)

NodeRecord == [name : Names \cup {"/"}, kind : {"dir", "file", "pipe"},
               parent : Nat, children : Seq(Nat)]

\* A parent is older than its children.
Rooted(ns) ==
    /\ ns \in Seq(NodeRecord) /\ Len(ns) >= 1
    /\ ns[Root].kind = "dir" /\ ns[Root].parent = Root
    /\ \A n \in 2 .. Len(ns) : ns[n].name \in Names /\ ns[n].parent \in 1 .. (n - 1)

\* A node is among the children of its parent, once, and of no other.
Child(ns, d, i, n) == i \in 1 .. Len(ns[d].children) /\ ns[d].children[i] = n

Placed(ns) ==
    /\ \A d \in 1 .. Len(ns), i \in Nat : \A n : Child(ns, d, i, n) =>
         n \in 2 .. Len(ns) /\ ns[n].parent = d /\ ns[d].kind = "dir"
    /\ \A n \in 2 .. Len(ns) : \E i \in Nat : Child(ns, ns[n].parent, i, n)
    /\ \A d \in 1 .. Len(ns), i, j \in Nat : \A n : Child(ns, d, i, n) /\ Child(ns, d, j, n) => i = j

Sorted(ns) ==
    \A d \in 1 .. Len(ns) : Ordered(Keys(ns, ns[d].children), Len(ns[d].children))

Tree(ns) == Rooted(ns) /\ Placed(ns) /\ Sorted(ns)

\* The fields of a node.
LEMMA NodeIs ==
    ASSUME NEW ns, Rooted(ns), NEW n \in 1 .. Len(ns)
    PROVE  /\ ns[n] \in NodeRecord /\ ns[n].kind \in {"dir", "file", "pipe"}
           /\ ns[n].children \in Seq(Nat) /\ Len(ns[n].children) \in Nat
           /\ ns[n].parent \in 1 .. Len(ns) /\ Len(ns) \in Nat
<1>1. ns \in Seq(NodeRecord) /\ Len(ns) \in Nat
  BY DEF Rooted
<1>2. ns[n] \in NodeRecord
  BY <1>1
<1>3. ns[n].kind \in {"dir", "file", "pipe"} /\ ns[n].children \in Seq(Nat)
  BY <1>2 DEF NodeRecord
<1>4. ns[n].parent \in 1 .. Len(ns)
  <2>1. CASE n = 1
    BY <1>1, <2>1 DEF Rooted, Root
  <2>2. CASE n # 1
    <3>1. n \in 2 .. Len(ns)
      BY <1>1, <2>2
    <3>2. ns[n].parent \in 1 .. (n - 1)
      BY <3>1 DEF Rooted
    <3> QED
      BY <1>1, <3>1, <3>2
  <2> QED
    BY <2>1, <2>2
<1>5. Len(ns[n].children) \in Nat
  BY <1>3
<1> QED
  BY <1>1, <1>2, <1>3, <1>4, <1>5

\* The children that a lookup of name may return.
Found(ns, dir, name) ==
    {i \in 1 .. Len(ns[dir].children) : Fold[ns[ns[dir].children[i]].name] = Fold[name]}

\* What a lookup returns.
LEMMA EntryIs ==
    ASSUME NEW ns, Tree(ns), NEW dir \in 1 .. Len(ns), NEW name,
           NEW e, e = vfs_get_single_entry_from_dir(ns, dir, name)
    PROVE  /\ e \in 0 .. Len(ns)
           /\ ns[dir].kind # "dir" => e = NULL
           /\ ns[dir].kind = "dir" /\ name = "." => e = dir
           /\ ns[dir].kind = "dir" /\ name = ".." => e = ns[dir].parent
           /\ ns[dir].kind = "dir" /\ name \notin {".", ".."} =>
                /\ Found(ns, dir, name) = {} => e = NULL
                /\ Found(ns, dir, name) # {} =>
                     \E i \in Found(ns, dir, name) :
                        /\ \A j \in Found(ns, dir, name) : i <= j
                        /\ e = ns[dir].children[i] /\ Child(ns, dir, i, e)
                        /\ e \in 2 .. Len(ns) /\ ns[e].parent = dir
<1> DEFINE found == {i \in DOMAIN ns[dir].children :
                       Fold[ns[ns[dir].children[i]].name] = Fold[name]}
           c == ns[dir].children
<1>0. Rooted(ns) /\ Placed(ns)
  BY DEF Tree
<1>1. c \in Seq(Nat) /\ Len(c) \in Nat /\ ns[dir].parent \in 1 .. Len(ns) /\ Len(ns) \in Nat
  BY <1>0, NodeIs
<1>2. found = Found(ns, dir, name)
  BY <1>1 DEF Found
<1>3. e = IF ns[dir].kind # "dir" THEN NULL
          ELSE IF name = "." THEN dir
          ELSE IF name = ".." THEN ns[dir].parent
          ELSE IF found = {} THEN NULL
          ELSE c[CHOOSE i \in found : \A j \in found : i <= j]
  BY DEF vfs_get_single_entry_from_dir
<1>4. ASSUME found # {}
      PROVE  \E i \in found : /\ \A j \in found : i <= j
                              /\ i = CHOOSE k \in found : \A j \in found : k <= j
  <2>1. found \in SUBSET Nat
    BY <1>1
  <2>2. \E i \in found : \A j \in found : i <= j
    BY <1>4, <2>1, LeastNatural
  <2> QED
    BY <2>2
<1>5. ASSUME NEW i \in found
      PROVE  Child(ns, dir, i, c[i]) /\ c[i] \in 2 .. Len(ns) /\ ns[c[i]].parent = dir
  <2>1. i \in 1 .. Len(c) /\ i \in Nat
    BY <1>1
  <2>2. Child(ns, dir, i, c[i])
    BY <2>1 DEF Child
  <2> QED
    BY <1>0, <2>1, <2>2 DEF Placed
<1> HIDE DEF found, c
<1>6. ASSUME found # {}, ns[dir].kind = "dir", name \notin {".", ".."}
      PROVE  \E i \in found : /\ \A j \in found : i <= j
                              /\ e = c[i] /\ Child(ns, dir, i, e)
                              /\ e \in 2 .. Len(ns) /\ ns[e].parent = dir
  <2>1. PICK i \in found : /\ \A j \in found : i <= j
                           /\ i = CHOOSE k \in found : \A j \in found : k <= j
    BY <1>4, <1>6
  <2>2. e = c[i]
    BY <1>3, <1>6, <2>1
  <2> QED
    BY <1>5, <2>1, <2>2
<1>7. e \in 0 .. Len(ns)
  <2>1. dir \in 0 .. Len(ns) /\ NULL \in 0 .. Len(ns)
    BY <1>1 DEF NULL
  <2>2. \A x \in 2 .. Len(ns) : x \in 0 .. Len(ns)
    BY <1>1
  <2> QED
    BY <1>1, <1>3, <1>6, <2>1, <2>2
<1> QED
  BY <1>2, <1>3, <1>6, <1>7 DEF c

-----------------------------------------------------------------------------
(* Paths down the tree. *)

Step(ns, at, name) == IF at = NULL THEN NULL ELSE vfs_get_single_entry_from_dir(ns, at, name)

WalkTo(f, ns, cur, path) ==
    f = [i \in 0 .. Len(path) |-> IF i = 0 THEN cur ELSE Step(ns, f[i - 1], path[i])]

\* One step of a walk stays in the tree.
LEMMA StepIs ==
    ASSUME NEW ns, Tree(ns), NEW at \in 0 .. Len(ns), NEW name
    PROVE  Step(ns, at, name) \in 0 .. Len(ns)
<1>1. Len(ns) \in Nat
  BY DEF Tree, Rooted
<1>2. CASE at = NULL
  BY <1>1, <1>2 DEF Step, NULL
<1>3. CASE at # NULL
  <2>1. at \in 1 .. Len(ns)
    BY <1>1, <1>3 DEF NULL
  <2>2. PICK e : e = vfs_get_single_entry_from_dir(ns, at, name)
    OBVIOUS
  <2>3. e \in 0 .. Len(ns)
    BY <2>1, <2>2, EntryIs
  <2> QED
    BY <1>3, <2>2, <2>3 DEF Step
<1> QED
  BY <1>2, <1>3

\* f holds the nodes that vfs_navigate_to comes through.
Walked(f, ns, cur, path) ==
    /\ f \in [0 .. Len(path) -> 0 .. Len(ns)]
    /\ f[0] = cur /\ \A i \in 1 .. Len(path) : f[i] = Step(ns, f[i - 1], path[i])
    /\ vfs_navigate_to(ns, cur, path) = f[Len(path)]

\* vfs_navigate_to is such a walk.
LEMMA WalkIs ==
    ASSUME NEW ns, Tree(ns), NEW cur \in 0 .. Len(ns), NEW path, Len(path) \in Nat
    PROVE  \E f : Walked(f, ns, cur, path)
<1> DEFINE n == Len(path)
           S == 0 .. Len(ns)
           g == [y \in (1 .. n) \X S |-> Step(ns, y[2], path[y[1]])]
           F == CHOOSE f : WalkTo(f, ns, cur, path)
<1>0. n \in Nat
  OBVIOUS
<1>1. g \in [(1 .. n) \X S -> S]
  <2>1. \A y \in (1 .. n) \X S : Step(ns, y[2], path[y[1]]) \in S
    BY StepIs
  <2> QED
    BY <2>1
<1>g. \A i \in 1 .. n, x \in S : g[<<i, x>>] = Step(ns, x, path[i])
  OBVIOUS
<1>c. cur \in S
  OBVIOUS
<1> HIDE DEF g, S, n
<1>2. PICK h : IteratedTo(h, n, S, cur, g)
  BY <1>0, <1>1, <1>c, Iterated
<1>3. h \in [0 .. n -> S] /\ h[0] = cur /\ \A i \in 1 .. n : h[i] = Step(ns, h[i - 1], path[i])
  <2>1. h \in [0 .. n -> S] /\ h[0] = cur /\ \A i \in 1 .. n : h[i] = g[<<i, h[i - 1]>>]
    BY <1>2 DEF IteratedTo
  <2>2. \A i \in 1 .. n : i - 1 \in 0 .. n /\ h[i - 1] \in S
    <3>1. \A i \in 1 .. n : i - 1 \in 0 .. n
      BY <1>0
    <3> QED
      BY <2>1, <3>1
  <2> QED
    BY <1>g, <2>1, <2>2
<1>4. WalkTo(h, ns, cur, path)
  <2>1. h = [i \in 0 .. n |-> h[i]]
    BY <1>3
  <2>2. \A i \in 0 .. n : h[i] = IF i = 0 THEN cur ELSE Step(ns, h[i - 1], path[i])
    BY <1>0, <1>3
  <2> QED
    BY <2>1, <2>2 DEF WalkTo, n
<1>5. WalkTo(F, ns, cur, path)
  BY <1>4
<1>6. vfs_navigate_to(ns, cur, path) = F[n]
  BY DEF vfs_navigate_to, WalkTo, Step, n
<1> HIDE DEF F
<1>7. F[0] = cur /\ \A i \in 1 .. n : F[i] = Step(ns, F[i - 1], path[i])
  <2>1. \A i \in 0 .. n : F[i] = IF i = 0 THEN cur ELSE Step(ns, F[i - 1], path[i])
    BY <1>5 DEF WalkTo, n
  <2> QED
    BY <1>0, <2>1
<1>8. F \in [0 .. n -> S]
  <2> DEFINE T == {i \in 0 .. n : F[i] \in S}
  <2>1. 0 \in T
    BY <1>0, <1>7, <1>c
  <2>2. \A i \in 1 .. n : i - 1 \in T => i \in T
    BY <1>0, <1>7, StepIs DEF S
  <2> HIDE DEF T
  <2>3. \A i \in 0 .. n : i \in T
    BY <1>0, <2>1, <2>2, UpTo
  <2>4. F = [i \in 0 .. n |-> F[i]]
    BY <1>5 DEF WalkTo, n
  <2> QED
    BY <2>3, <2>4 DEF T
<1> QED
  BY <1>6, <1>7, <1>8 DEF n, S, Walked

\* The walk of a longer path goes on from the end of a shorter one.
LEMMA WalkOn ==
    ASSUME NEW ns, Tree(ns), NEW cur \in 0 .. Len(ns), NEW p, NEW q,
           Len(p) \in Nat, Len(q) = Len(p) + 1, \A i \in 1 .. Len(p) : q[i] = p[i]
    PROVE  vfs_navigate_to(ns, cur, q) = Step(ns, vfs_navigate_to(ns, cur, p), q[Len(q)])
<1>0. Len(q) \in Nat
  OBVIOUS
<1>a. PICK f : Walked(f, ns, cur, p)
  BY WalkIs
<1>b. PICK h : Walked(h, ns, cur, q)
  BY <1>0, WalkIs
<1>1. /\ f \in [0 .. Len(p) -> 0 .. Len(ns)]
      /\ f[0] = cur /\ \A i \in 1 .. Len(p) : f[i] = Step(ns, f[i - 1], p[i])
      /\ vfs_navigate_to(ns, cur, p) = f[Len(p)]
  BY <1>a DEF Walked
<1>2. /\ h \in [0 .. Len(q) -> 0 .. Len(ns)]
      /\ h[0] = cur /\ \A i \in 1 .. Len(q) : h[i] = Step(ns, h[i - 1], q[i])
      /\ vfs_navigate_to(ns, cur, q) = h[Len(q)]
  BY <1>b DEF Walked
<1> DEFINE S == {i \in 0 .. Len(p) : h[i] = f[i]}
<1>3. 0 \in S
  BY <1>1, <1>2
<1>4. \A i \in 1 .. Len(p) : i - 1 \in S => i \in S
  <2> SUFFICES ASSUME NEW i \in 1 .. Len(p), i - 1 \in S PROVE h[i] = f[i]
    OBVIOUS
  <2>1. i \in 1 .. Len(q) /\ q[i] = p[i] /\ h[i - 1] = f[i - 1]
    OBVIOUS
  <2>2. h[i] = Step(ns, h[i - 1], q[i]) /\ f[i] = Step(ns, f[i - 1], p[i])
    BY <1>1, <1>2, <2>1
  <2> QED
    BY <2>1, <2>2
<1> HIDE DEF S
<1>5. Len(p) \in S
  <2>1. \A i \in 0 .. Len(p) : i \in S
    BY <1>3, <1>4, UpTo
  <2> QED
    BY <2>1
<1>6. h[Len(p)] = f[Len(p)] /\ Len(q) \in 1 .. Len(q) /\ Len(q) - 1 = Len(p)
  BY <1>5 DEF S
<1> QED
  BY <1>1, <1>2, <1>6

-----------------------------------------------------------------------------
(* From a node up to the root. *)

UpTable(f, ns, n) == f = [k \in 0 .. Len(ns) |-> IF k = 0 THEN n ELSE ns[f[k - 1]].parent]

\* The parents of a node, one after the other, are nodes.
LEMMA AncestorsAre ==
    ASSUME NEW ns, Rooted(ns), NEW n \in 1 .. Len(ns)
    PROVE  /\ Ancestors(ns, n) \in [0 .. Len(ns) -> 1 .. Len(ns)]
           /\ Ancestors(ns, n)[0] = n
           /\ \A k \in 1 .. Len(ns) : Ancestors(ns, n)[k] = ns[Ancestors(ns, n)[k - 1]].parent
<1> DEFINE L == Len(ns)
           S == 1 .. L
           g == [y \in (1 .. L) \X S |-> ns[y[2]].parent]
           F == CHOOSE f : UpTable(f, ns, n)
<1>0. L \in Nat /\ n \in S
  BY DEF Rooted
<1>1. g \in [(1 .. L) \X S -> S]
  <2>1. \A y \in (1 .. L) \X S : ns[y[2]].parent \in S
    BY NodeIs
  <2> QED
    BY <2>1
<1>2. \A i \in 1 .. L, x \in S : g[<<i, x>>] = ns[x].parent /\ ns[x].parent \in S
  <2>1. \A x \in S : ns[x].parent \in S
    BY NodeIs
  <2> QED
    BY <2>1
<1> HIDE DEF g, S, L
<1>3. PICK h : IteratedTo(h, L, S, n, g)
  BY <1>0, <1>1, Iterated
<1>4. h \in [0 .. L -> S] /\ h[0] = n /\ \A i \in 1 .. L : h[i] = ns[h[i - 1]].parent
  <2>1. h \in [0 .. L -> S] /\ h[0] = n /\ \A i \in 1 .. L : h[i] = g[<<i, h[i - 1]>>]
    BY <1>3 DEF IteratedTo
  <2>2. \A i \in 1 .. L : i - 1 \in 0 .. L /\ h[i - 1] \in S
    <3>1. \A i \in 1 .. L : i - 1 \in 0 .. L
      BY <1>0
    <3> QED
      BY <2>1, <3>1
  <2> QED
    BY <1>2, <2>1, <2>2
<1>5. UpTable(h, ns, n)
  <2>1. h = [i \in 0 .. L |-> h[i]]
    BY <1>4
  <2>2. \A i \in 0 .. L : h[i] = IF i = 0 THEN n ELSE ns[h[i - 1]].parent
    BY <1>0, <1>4
  <2> QED
    BY <2>1, <2>2 DEF UpTable, L
<1>6. UpTable(F, ns, n)
  BY <1>5
<1>7. Ancestors(ns, n) = F
  BY DEF Ancestors, UpTable
<1> HIDE DEF F
<1>8. F[0] = n /\ \A i \in 1 .. L : F[i] = ns[F[i - 1]].parent
  <2>1. \A i \in 0 .. L : F[i] = IF i = 0 THEN n ELSE ns[F[i - 1]].parent
    BY <1>6 DEF UpTable, L
  <2> QED
    BY <1>0, <2>1
<1>9. F \in [0 .. L -> S]
  <2> DEFINE T == {i \in 0 .. L : F[i] \in S}
  <2>1. 0 \in T
    BY <1>0, <1>8
  <2>2. \A i \in 1 .. L : i - 1 \in T => i \in T
    <3> SUFFICES ASSUME NEW i \in 1 .. L, F[i - 1] \in S PROVE F[i] \in S
      BY <1>0
    <3>1. F[i] = ns[F[i - 1]].parent
      BY <1>8
    <3>2. \A x \in S : ns[x].parent \in S
      BY NodeIs DEF S, L
    <3> QED
      BY <3>1, <3>2
  <2> HIDE DEF T
  <2>3. \A i \in 0 .. L : i \in T
    BY <1>0, <2>1, <2>2, UpTo
  <2>4. F = [i \in 0 .. L |-> F[i]]
    BY <1>6 DEF UpTable, L
  <2> QED
    BY <2>3, <2>4 DEF T
<1> QED
  BY <1>7, <1>8, <1>9 DEF L, S

\* The ancestors of a node are the node and those of its parent.
LEMMA AncestorsGoOn ==
    ASSUME NEW ns, Rooted(ns), NEW n \in 1 .. Len(ns)
    PROVE  \A k \in 1 .. Len(ns) : Ancestors(ns, n)[k] = Ancestors(ns, ns[n].parent)[k - 1]
<1> DEFINE L == Len(ns)
           p == ns[n].parent
           A == Ancestors(ns, n)
           B == Ancestors(ns, p)
           T == {k \in 0 .. L : k = 0 \/ A[k] = B[k - 1]}
<1>0. L \in Nat /\ p \in 1 .. L
  BY NodeIs
<1>1. A[0] = n /\ \A k \in 1 .. L : A[k] = ns[A[k - 1]].parent
  BY AncestorsAre
<1>2. B[0] = p /\ \A k \in 1 .. L : B[k] = ns[B[k - 1]].parent
  BY <1>0, AncestorsAre
<1> HIDE DEF A, B, p, L
<1>3. 0 \in T
  BY <1>0
<1>4. \A k \in 1 .. L : k - 1 \in T => k \in T
  <2> SUFFICES ASSUME NEW k \in 1 .. L, k - 1 \in T PROVE A[k] = B[k - 1]
    OBVIOUS
  <2>1. CASE k = 1
    <3>1. A[1] = ns[A[0]].parent
      BY <1>1, <2>1
    <3> QED
      BY <1>1, <1>2, <2>1, <3>1 DEF p
  <2>2. CASE k # 1
    <3>1. k - 1 \in 1 .. L /\ k - 1 # 0 /\ A[k - 1] = B[k - 2] /\ (k - 1) - 1 = k - 2
      BY <2>2
    <3>2. A[k] = ns[A[k - 1]].parent /\ B[k - 1] = ns[B[k - 2]].parent
      BY <1>1, <1>2, <3>1
    <3> QED
      BY <3>1, <3>2
  <2> QED
    BY <2>1, <2>2
<1> HIDE DEF T
<1>5. \A k \in 0 .. L : k \in T
  BY <1>0, <1>3, <1>4, UpTo
<1> QED
  BY <1>0, <1>5 DEF T, A, B, p, L

\* What makes k the depth of a node.
AtDepth(ns, n, k) ==
    Ancestors(ns, n)[k] = Root /\ \A j \in 0 .. (k - 1) : Ancestors(ns, n)[j] # Root

\* A node has one depth.
LEMMA AtOneDepth ==
    ASSUME NEW ns, NEW n, NEW k \in 0 .. Len(ns), Len(ns) \in Nat, AtDepth(ns, n, k)
    PROVE  Depth(ns, n) = k
<1>1. \A i, j \in 0 .. Len(ns) : i < j => i \in 0 .. (j - 1)
  OBVIOUS
<1>2. \A i, j \in 0 .. Len(ns) : AtDepth(ns, n, i) /\ AtDepth(ns, n, j) => ~(i < j)
  BY <1>1 DEF AtDepth
<1>3. Depth(ns, n) = CHOOSE i \in 0 .. Len(ns) : AtDepth(ns, n, i)
  BY DEF Depth, AtDepth
<1>4. Depth(ns, n) \in 0 .. Len(ns) /\ AtDepth(ns, n, Depth(ns, n))
  BY <1>3
<1> QED
  BY <1>2, <1>4

\* A node is one deeper than its parent.
LEMMA DeeperByOne ==
    ASSUME NEW ns, Rooted(ns), NEW n \in 2 .. Len(ns), NEW k \in 0 .. (Len(ns) - 1),
           AtDepth(ns, ns[n].parent, k)
    PROVE  AtDepth(ns, n, k + 1)
<1> DEFINE p == ns[n].parent
           A == Ancestors(ns, n)
           B == Ancestors(ns, p)
<1>0. Len(ns) \in Nat /\ n \in 1 .. Len(ns) /\ n # Root
  BY DEF Rooted, Root
<1>1. \A j \in 1 .. Len(ns) : A[j] = B[j - 1]
  BY <1>0, AncestorsGoOn
<1>2. A[0] = n
  BY <1>0, AncestorsAre
<1>3. B[k] = Root /\ \A j \in 0 .. (k - 1) : B[j] # Root
  BY DEF AtDepth
<1> HIDE DEF A, B, p
<1>4. A[k + 1] = Root
  <2>1. k + 1 \in 1 .. Len(ns) /\ (k + 1) - 1 = k
    BY <1>0
  <2> QED
    BY <1>1, <1>3, <2>1
<1>5. \A j \in 0 .. ((k + 1) - 1) : A[j] # Root
  <2> SUFFICES ASSUME NEW j \in 0 .. ((k + 1) - 1), j # 0 PROVE A[j] # Root
    BY <1>0, <1>2
  <2>1. j \in 1 .. Len(ns) /\ j - 1 \in 0 .. (k - 1)
    BY <1>0
  <2> QED
    BY <1>1, <1>3, <2>1
<1> QED
  BY <1>4, <1>5 DEF AtDepth, A

\* The depth of a node.
LEMMA DepthIs ==
    ASSUME NEW ns, Rooted(ns)
    PROVE  /\ Depth(ns, Root) = 0
           /\ \A n \in 1 .. Len(ns) : Depth(ns, n) \in 0 .. (n - 1) /\ AtDepth(ns, n, Depth(ns, n))
           /\ \A n \in 2 .. Len(ns) : Depth(ns, n) = Depth(ns, ns[n].parent) + 1
<1> DEFINE L == Len(ns)
           T == {n \in 1 .. L : \E k \in 0 .. (n - 1) : AtDepth(ns, n, k)}
<1>0. L \in Nat /\ L >= 1 /\ 0 \in 0 .. L /\ Root \in 1 .. L
  BY DEF Rooted, Root
<1>1. AtDepth(ns, Root, 0)
  <2>1. Ancestors(ns, Root)[0] = Root
    BY <1>0, AncestorsAre
  <2> QED
    BY <2>1 DEF AtDepth
<1>2. \A n \in 2 .. L : /\ n - 1 \in 1 .. L /\ ns[n].parent \in 1 .. (n - 1) /\ n \in 1 .. L
                        /\ ns[n].parent \in 1 .. L
  <2>1. \A n \in 2 .. L : ns[n].parent \in 1 .. (n - 1)
    BY DEF Rooted
  <2> QED
    BY <1>0, <2>1
<1> HIDE DEF L
<1>3. \A n \in 1 .. L : n \in T
  <2> SUFFICES ASSUME NEW m \in 1 .. L, m \notin T PROVE FALSE
    OBVIOUS
  <2> DEFINE Out == {n \in 1 .. L : n \notin T}
  <2>1. Out \in SUBSET Nat /\ Out # {}
    OBVIOUS
  <2>2. PICK n \in Out : \A k \in Out : n <= k
    BY <2>1, LeastNatural
  <2>3. CASE n = 1
    <3>1. 1 \in T
      BY <1>0, <1>1 DEF Root
    <3> QED
      BY <2>3, <3>1
  <2>4. CASE n # 1
    <3>1. n \in 2 .. L
      BY <2>4
    <3>2. ns[n].parent \in 1 .. (n - 1) /\ ns[n].parent \in 1 .. L
      BY <1>2, <3>1
    <3>3. ns[n].parent \in T
      BY <2>2, <3>2
    <3>4. PICK k \in 0 .. (ns[n].parent - 1) : AtDepth(ns, ns[n].parent, k)
      BY <3>3
    <3>5. k \in 0 .. (L - 1) /\ k + 1 \in 0 .. (n - 1)
      BY <1>0, <3>1, <3>2
    <3>6. AtDepth(ns, n, k + 1)
      BY <3>1, <3>4, <3>5, DeeperByOne DEF L
    <3>7. n \in T
      BY <3>5, <3>6
    <3> QED
      BY <3>7
  <2> QED
    BY <2>3, <2>4
<1>4. \A n \in 1 .. L : Depth(ns, n) \in 0 .. (n - 1) /\ AtDepth(ns, n, Depth(ns, n))
  <2> SUFFICES ASSUME NEW n \in 1 .. L
               PROVE  Depth(ns, n) \in 0 .. (n - 1) /\ AtDepth(ns, n, Depth(ns, n))
    OBVIOUS
  <2>1. PICK k \in 0 .. (n - 1) : AtDepth(ns, n, k)
    BY <1>3
  <2>2. k \in 0 .. L
    BY <1>0
  <2>3. Depth(ns, n) = k
    BY <1>0, <2>1, <2>2, AtOneDepth DEF L
  <2> QED
    BY <2>1, <2>3
<1>5. Depth(ns, Root) = 0
  BY <1>0, <1>1, AtOneDepth DEF L
<1>6. ASSUME NEW n \in 2 .. L PROVE Depth(ns, n) = Depth(ns, ns[n].parent) + 1
  <2> DEFINE p == ns[n].parent
             k == Depth(ns, p)
  <2>1. p \in 1 .. (n - 1) /\ p \in 1 .. L
    BY <1>2
  <2>2. k \in 0 .. (p - 1) /\ AtDepth(ns, p, k)
    BY <1>4, <2>1
  <2> HIDE DEF k
  <2>3. k \in 0 .. (L - 1) /\ k + 1 \in 0 .. L
    BY <1>0, <2>1, <2>2
  <2>4. AtDepth(ns, n, k + 1)
    BY <2>2, <2>3, DeeperByOne DEF L
  <2>5. Depth(ns, n) = k + 1
    BY <1>0, <2>3, <2>4, AtOneDepth DEF L
  <2> QED
    BY <2>5 DEF k
<1> QED
  BY <1>4, <1>5, <1>6 DEF L

\* The path of a node is that of its parent, and its name.
LEMMA PathIs ==
    ASSUME NEW ns, Rooted(ns)
    PROVE  /\ vfs_get_full_filepath(ns, Root) = <<>>
           /\ \A n \in 1 .. Len(ns) : /\ vfs_get_full_filepath(ns, n) \in Seq(Names)
                                      /\ Len(vfs_get_full_filepath(ns, n)) = Depth(ns, n)
           /\ \A n \in 2 .. Len(ns) :
                vfs_get_full_filepath(ns, n)
                    = Append(vfs_get_full_filepath(ns, ns[n].parent), ns[n].name)
<1> DEFINE L == Len(ns)
           P(n) == vfs_get_full_filepath(ns, n)
           D(n) == Depth(ns, n)
           A(n) == Ancestors(ns, n)
<1>0. L \in Nat /\ L >= 1
  BY DEF Rooted
<1>1. \A n \in 1 .. L : D(n) \in 0 .. (n - 1) /\ AtDepth(ns, n, D(n))
  BY DepthIs
<1>2. \A n \in 1 .. L : /\ A(n) \in [0 .. L -> 1 .. L] /\ A(n)[0] = n
                        /\ \A k \in 1 .. L : A(n)[k] = A(ns[n].parent)[k - 1]
  BY AncestorsAre, AncestorsGoOn
<1>3. \A n : P(n) = [i \in 1 .. D(n) |-> ns[A(n)[D(n) - i]].name]
  BY DEF vfs_get_full_filepath
<1>4. ASSUME NEW n \in 1 .. L PROVE P(n) \in Seq(Names) /\ Len(P(n)) = D(n)
  <2>1. PICK d \in 0 .. (n - 1) : d = D(n)
    BY <1>1
  <2>2. \A i \in 1 .. d : ns[A(n)[d - i]].name \in Names
    <3> SUFFICES ASSUME NEW i \in 1 .. d PROVE ns[A(n)[d - i]].name \in Names
      OBVIOUS
    <3>1. d - i \in 0 .. (d - 1) /\ d - i \in 0 .. L
      BY <1>0
    <3>2. A(n)[d - i] \in 1 .. L /\ A(n)[d - i] # Root
      BY <1>1, <1>2, <2>1, <3>1 DEF AtDepth
    <3>3. A(n)[d - i] \in 2 .. L
      BY <1>0, <3>2 DEF Root
    <3> QED
      BY <3>3 DEF Rooted
  <2> HIDE DEF A, D, P
  <2>3. P(n) = [i \in 1 .. d |-> ns[A(n)[d - i]].name] /\ d \in Nat
    BY <1>3, <2>1
  <2>4. P(n) \in [1 .. d -> Names]
    BY <2>2, <2>3
  <2>5. P(n) \in Seq(Names) /\ Len(P(n)) = d
    BY <2>3, <2>4
  <2> QED
    BY <2>1, <2>5
<1>5. P(Root) = <<>>
  <2>1. D(Root) = 0 /\ Root \in 1 .. L
    BY <1>0, DepthIs DEF Root
  <2>2. P(Root) \in Seq(Names) /\ Len(P(Root)) = 0
    BY <1>4, <2>1
  <2> QED
    BY <2>2
<1>6. ASSUME NEW n \in 2 .. L PROVE P(n) = Append(P(ns[n].parent), ns[n].name)
  <2>1. PICK p : p = ns[n].parent
    OBVIOUS
  <2>2. p \in 1 .. L /\ n \in 1 .. L /\ p \in 1 .. (n - 1) /\ ns[n].name \in Names
    BY <1>0, <2>1 DEF Rooted
  <2>3. PICK d \in 0 .. (p - 1) : d = D(p)
    BY <1>1, <2>2
  <2>4. D(n) = d + 1
    BY <2>1, <2>3, DepthIs
  <2>5. P(p) = [i \in 1 .. d |-> ns[A(p)[d - i]].name]
    BY <1>3, <2>3
  <2>6. P(n) = [i \in 1 .. (d + 1) |-> ns[A(n)[d + 1 - i]].name]
    BY <1>3, <2>4
  <2>7. \A k \in 1 .. L : A(n)[k] = A(p)[k - 1]
    BY <1>2, <2>1, <2>2
  <2>8. A(n)[0] = n
    BY <1>2, <2>2
  <2>9. P(p) \in Seq(Names) /\ Len(P(p)) = d /\ P(n) \in Seq(Names) /\ Len(P(n)) = d + 1
    BY <1>4, <2>2, <2>3, <2>4
  <2> HIDE DEF A, P
  <2>10. ASSUME NEW i \in 1 .. d PROVE P(n)[i] = P(p)[i]
    <3>1. d + 1 - i \in 1 .. L /\ (d + 1 - i) - 1 = d - i /\ i \in 1 .. (d + 1)
      BY <1>0, <2>2
    <3>2. A(n)[d + 1 - i] = A(p)[d - i]
      BY <2>7, <3>1
    <3> QED
      BY <2>5, <2>6, <3>1, <3>2
  <2>11. P(n)[d + 1] = ns[n].name
    <3>1. d + 1 - (d + 1) = 0 /\ d + 1 \in 1 .. (d + 1)
      OBVIOUS
    <3> QED
      BY <2>6, <2>8, <3>1
  <2>12. /\ Append(P(p), ns[n].name) \in Seq(Names) /\ Len(Append(P(p), ns[n].name)) = d + 1
         /\ \A i \in 1 .. d : Append(P(p), ns[n].name)[i] = P(p)[i]
         /\ Append(P(p), ns[n].name)[d + 1] = ns[n].name
    <3>1. P(p) \in Seq(Names) /\ ns[n].name \in Names /\ Len(P(p)) = d
      BY <2>2, <2>9
    <3> QED
      BY <3>1, AppendProperties
  <2>13. \A i \in 1 .. (d + 1) : P(n)[i] = Append(P(p), ns[n].name)[i]
    <3>1. \A i \in 1 .. (d + 1) : i \in 1 .. d \/ i = d + 1
      OBVIOUS
    <3> QED
      BY <2>10, <2>11, <2>12, <3>1
  <2>14. P(n) = Append(P(p), ns[n].name)
    <3> DEFINE a == Append(P(p), ns[n].name)
    <3> HIDE DEF a
    <3>1. P(n) \in Seq(Names) /\ a \in Seq(Names) /\ Len(P(n)) = Len(a)
          /\ \A i \in 1 .. Len(P(n)) : P(n)[i] = a[i]
      BY <2>9, <2>12, <2>13 DEF a
    <3>2. P(n) = a
      BY <3>1, SeqEqual
    <3> QED
      BY <3>2 DEF a
  <2> QED
    BY <2>1, <2>14
<1> QED
  BY <1>4, <1>5, <1>6

\* The nodes above a node are the node and those above its parent.
LEMMA AboveIs ==
    ASSUME NEW ns, Rooted(ns), NEW n \in 2 .. Len(ns)
    PROVE  Above(ns, n) = Above(ns, ns[n].parent) \cup {n}
<1>1. PICK p : p = ns[n].parent
  OBVIOUS
<1>2. Len(ns) \in Nat /\ p \in 1 .. Len(ns) /\ n \in 1 .. Len(ns) /\ p < n /\ p \in Nat
  BY <1>1 DEF Rooted
<1>3. PICK d \in 0 .. (p - 1) : d = Depth(ns, p)
  BY <1>2, DepthIs
<1>4. Depth(ns, n) = d + 1
  BY <1>1, <1>3, DepthIs
<1>5. \A k \in 1 .. Len(ns) : Ancestors(ns, n)[k] = Ancestors(ns, p)[k - 1]
  BY <1>1, <1>2, AncestorsGoOn
<1>6. Ancestors(ns, n)[0] = n
  BY <1>2, AncestorsAre
<1>7. Above(ns, n) = {Ancestors(ns, n)[k] : k \in 0 .. d}
  <2>1. (d + 1) - 1 = d
    OBVIOUS
  <2> QED
    BY <1>4, <2>1 DEF Above
<1>8. Above(ns, p) = {Ancestors(ns, p)[k] : k \in 0 .. (d - 1)}
  BY <1>3 DEF Above
<1>9. ASSUME NEW x \in Above(ns, n) PROVE x \in Above(ns, p) \cup {n}
  <2>1. PICK k \in 0 .. d : x = Ancestors(ns, n)[k]
    BY <1>7
  <2>2. CASE k = 0
    BY <1>6, <2>1, <2>2
  <2>3. CASE k # 0
    <3>1. k \in 1 .. Len(ns) /\ k - 1 \in 0 .. (d - 1)
      BY <1>2, <2>3
    <3>2. x = Ancestors(ns, p)[k - 1]
      BY <1>5, <2>1, <3>1
    <3> QED
      BY <1>8, <3>1, <3>2
  <2> QED
    BY <2>2, <2>3
<1>10. ASSUME NEW x \in Above(ns, p) PROVE x \in Above(ns, n)
  <2>1. PICK k \in 0 .. (d - 1) : x = Ancestors(ns, p)[k]
    BY <1>8
  <2>2. k + 1 \in 1 .. Len(ns) /\ k + 1 \in 0 .. d /\ (k + 1) - 1 = k
    BY <1>2
  <2>3. x = Ancestors(ns, n)[k + 1]
    BY <1>5, <2>1, <2>2
  <2> QED
    BY <1>7, <2>2, <2>3
<1>11. n \in Above(ns, n)
  BY <1>6, <1>7
<1> QED
  BY <1>1, <1>9, <1>10, <1>11

-----------------------------------------------------------------------------
(* From the root back to a node. *)

\* A path is its front and its last name.
LEMMA FrontIs ==
    ASSUME NEW S, NEW q \in Seq(S), q # <<>>
    PROVE  /\ Front(q) \in Seq(S) /\ Len(Front(q)) = Len(q) - 1 /\ Len(q) \in Nat /\ Len(q) >= 1
           /\ \A i \in 1 .. (Len(q) - 1) : Front(q)[i] = q[i]
           /\ Last(q) = q[Len(q)] /\ Last(q) \in S
           /\ q = Append(Front(q), Last(q))
<1> DEFINE L == Len(q)
           f == Front(q)
<1>1. L \in Nat /\ L >= 1 /\ \A i \in 1 .. L : q[i] \in S
  OBVIOUS
<1>2. f = SubSeq(q, 1, L - 1) /\ Last(q) = q[L]
  BY DEF Front, Last
<1>3. f \in Seq(S) /\ Len(f) = L - 1 /\ \A i \in 1 .. (L - 1) : f[i] = q[i]
  <2>1. \A i \in 1 .. (L - 1) : q[i] \in S
    BY <1>1
  <2>2. /\ SubSeq(q, 1, L - 1) \in Seq(S)
        /\ Len(SubSeq(q, 1, L - 1)) = IF 1 <= L - 1 THEN (L - 1) - 1 + 1 ELSE 0
        /\ \A i \in 1 .. ((L - 1) - 1 + 1) : SubSeq(q, 1, L - 1)[i] = q[1 + i - 1]
    BY <1>1, <2>1, SubSeqProperties
  <2> HIDE DEF f, L
  <2>3. (L - 1) - 1 + 1 = L - 1 /\ (1 <= L - 1 \/ L - 1 = 0) /\ \A i \in 1 .. (L - 1) : 1 + i - 1 = i
    BY <1>1
  <2> QED
    BY <1>1, <1>2, <2>2, <2>3
<1>4. Last(q) \in S
  BY <1>1, <1>2
<1>5. q = Append(f, Last(q))
  <2> DEFINE a == Append(f, Last(q))
  <2> HIDE DEF f
  <2>1. a \in Seq(S) /\ Len(a) = (L - 1) + 1 /\ (\A i \in 1 .. (L - 1) : a[i] = f[i])
        /\ a[(L - 1) + 1] = Last(q)
    BY <1>3, <1>4, AppendProperties
  <2> HIDE DEF a
  <2>2. \A i \in 1 .. L : q[i] = a[i]
    <3>1. \A i \in 1 .. L : i \in 1 .. (L - 1) \/ i = L
      BY <1>1
    <3>2. (L - 1) + 1 = L
      BY <1>1
    <3> QED
      BY <1>2, <1>3, <2>1, <3>1, <3>2
  <2>3. Len(a) = L
    BY <1>1, <2>1
  <2>4. q = a
    BY <2>1, <2>2, <2>3, SeqEqual
  <2> QED
    BY <2>4 DEF a, f
<1> QED
  BY <1>1, <1>2, <1>3, <1>4, <1>5

\* A node that lookup cannot take for another in its directory.
Alone(ns, m) ==
    \A i \in 1 .. Len(ns[ns[m].parent].children) :
        LET s == ns[ns[m].parent].children[i]
        IN  Fold[ns[s].name] = Fold[ns[m].name] => s = m

\* A path that differs by the case of its names and has no "." or "..".
Alike(q, p) ==
    /\ Len(q) = Len(p)
    /\ \A i \in 1 .. Len(p) : Fold[q[i]] = Fold[p[i]] /\ q[i] \notin {".", ".."}

\* A name leads from the parent to its node if no other has it.
LEMMA StepDown ==
    ASSUME NEW ns, Tree(ns), NEW n \in 2 .. Len(ns), Alone(ns, n),
           NEW name, Fold[name] = Fold[ns[n].name], name \notin {".", ".."}
    PROVE  Step(ns, ns[n].parent, name) = n
<1>1. PICK p : p = ns[n].parent
  OBVIOUS
<1>2. Rooted(ns) /\ Placed(ns) /\ Len(ns) \in Nat
  BY DEF Tree, Rooted
<1>3. p \in 1 .. Len(ns) /\ p # NULL
  BY <1>1, <1>2 DEF Rooted, NULL
<1>4. PICK i \in Nat : Child(ns, p, i, n)
  BY <1>1, <1>2 DEF Placed
<1>5. ns[p].kind = "dir"
  BY <1>2, <1>3, <1>4 DEF Placed
<1>6. i \in Found(ns, p, name)
  BY <1>4 DEF Child, Found
<1>7. PICK e : e = vfs_get_single_entry_from_dir(ns, p, name)
  OBVIOUS
<1>8. Found(ns, p, name) # {}
  BY <1>6
<1>9. PICK j \in Found(ns, p, name) : e = ns[p].children[j]
  BY <1>3, <1>5, <1>7, <1>8, EntryIs
<1>10. j \in 1 .. Len(ns[p].children) /\ Fold[ns[e].name] = Fold[name]
  BY <1>9 DEF Found
<1>11. e = n
  BY <1>1, <1>9, <1>10 DEF Alone
<1> QED
  BY <1>1, <1>3, <1>7, <1>11 DEF Step

\* The empty path leads nowhere.
LEMMA RootOfWalk ==
    ASSUME NEW ns, Tree(ns), NEW cur \in 0 .. Len(ns), NEW q, Len(q) = 0
    PROVE  vfs_navigate_to(ns, cur, q) = cur
<1>1. PICK f : Walked(f, ns, cur, q)
  BY WalkIs
<1> QED
  BY <1>1 DEF Walked

\* A path like that of a node leads there when nothing on the way is mistaken.
Led(ns, n) ==
    \A q \in Seq(Names) :
        Alike(q, vfs_get_full_filepath(ns, n)) => vfs_navigate_to(ns, Root, q) = n

\* By the least node that is not led to: its parent is.
LEMMA LedTo ==
    ASSUME NEW ns, Tree(ns), NEW n \in 1 .. Len(ns), \A m \in Above(ns, n) : Alone(ns, m)
    PROVE  Led(ns, n)
<1> DEFINE L == Len(ns)
           T == {x \in 1 .. L : (\A m \in Above(ns, x) : Alone(ns, m)) => Led(ns, x)}
           Out == {x \in 1 .. L : x \notin T}
<1>0. L \in Nat /\ L >= 1 /\ Rooted(ns) /\ Root \in 0 .. L
  BY DEF Tree, Rooted, Root
<1> SUFFICES ASSUME n \notin T PROVE FALSE
  OBVIOUS
<1>1. Out \in SUBSET Nat /\ Out # {}
  OBVIOUS
<1>2. PICK x \in Out : \A k \in Out : x <= k
  BY <1>1, LeastNatural
<1>3. x \in 1 .. L /\ x \notin T
  OBVIOUS
<1>4. (\A m \in Above(ns, x) : Alone(ns, m)) /\ ~Led(ns, x)
  BY <1>3
<1>5. PICK q \in Seq(Names) : /\ Alike(q, vfs_get_full_filepath(ns, x))
                              /\ vfs_navigate_to(ns, Root, q) # x
  BY <1>4 DEF Led
<1>6. CASE x = 1
  <2>1. vfs_get_full_filepath(ns, x) = <<>>
    BY <1>0, <1>6, PathIs DEF Root
  <2>2. Len(q) = 0
    BY <1>5, <2>1 DEF Alike
  <2>3. vfs_navigate_to(ns, Root, q) = Root
    BY <1>0, <2>2, RootOfWalk
  <2> QED
    BY <1>5, <1>6, <2>3 DEF Root
<1>7. CASE x # 1
  <2>1. PICK p : p = ns[x].parent
    OBVIOUS
  <2>2. x \in 2 .. L
    BY <1>0, <1>3, <1>7
  <2>3. p \in 1 .. L /\ p < x /\ p \in Nat /\ ns[x].name \in Names
    BY <1>0, <2>1, <2>2 DEF Rooted
  <2>4. p \in T
    <3>1. ~(x <= p)
      BY <1>2, <2>3
    <3> QED
      BY <1>2, <2>3, <3>1
  <2> HIDE DEF Out
  <2>5. Above(ns, x) = Above(ns, p) \cup {x}
    BY <1>0, <2>1, <2>2, AboveIs
  <2>6. Led(ns, p) /\ Alone(ns, x)
    BY <1>4, <2>4, <2>5
  <2> HIDE DEF T
  <2>7. PICK P : P = vfs_get_full_filepath(ns, p)
    OBVIOUS
  <2>8. P \in Seq(Names) /\ vfs_get_full_filepath(ns, x) = Append(P, ns[x].name)
    <3>1. vfs_get_full_filepath(ns, p) \in Seq(Names)
      BY <1>0, <2>3, PathIs
    <3>2. vfs_get_full_filepath(ns, x) = Append(vfs_get_full_filepath(ns, ns[x].parent), ns[x].name)
      BY <1>0, <2>2, PathIs
    <3> QED
      BY <2>1, <2>7, <3>1, <3>2
  <2>9. PICK a : a = Append(P, ns[x].name)
    OBVIOUS
  <2>10. /\ Len(a) = Len(P) + 1 /\ (\A i \in 1 .. Len(P) : a[i] = P[i])
         /\ a[Len(P) + 1] = ns[x].name /\ Len(P) \in Nat
    BY <2>3, <2>8, <2>9, AppendProperties
  <2>11. Alike(q, a)
    BY <1>5, <2>8, <2>9
  <2>12. q # <<>> /\ Len(q) = Len(P) + 1
    <3>1. Len(q) = Len(P) + 1 /\ Len(P) + 1 # 0
      BY <2>10, <2>11 DEF Alike
    <3> QED
      BY <3>1
  <2>13. PICK r : r = Front(q)
    OBVIOUS
  <2>14. r \in Seq(Names) /\ Len(r) = Len(P) /\ \A i \in 1 .. Len(P) : r[i] = q[i]
    <3>1. /\ Front(q) \in Seq(Names) /\ Len(Front(q)) = Len(q) - 1
          /\ \A i \in 1 .. (Len(q) - 1) : Front(q)[i] = q[i]
      BY <2>12, FrontIs
    <3> QED
      BY <2>10, <2>12, <2>13, <3>1
  <2>15. Alike(r, P)
    <3>1. \A i \in 1 .. Len(P) : i \in 1 .. Len(a)
      BY <2>10
    <3> QED
      BY <2>10, <2>11, <2>14, <3>1 DEF Alike
  <2>16. vfs_navigate_to(ns, Root, r) = p
    BY <2>6, <2>7, <2>14, <2>15 DEF Led
  <2>17. vfs_navigate_to(ns, Root, q) = Step(ns, vfs_navigate_to(ns, Root, r), q[Len(q)])
    <3>1. Len(r) \in Nat /\ Len(q) = Len(r) + 1 /\ \A i \in 1 .. Len(r) : q[i] = r[i]
      BY <2>10, <2>12, <2>14
    <3> QED
      BY <1>0, <3>1, WalkOn
  <2>18. Fold[q[Len(q)]] = Fold[ns[x].name] /\ q[Len(q)] \notin {".", ".."}
    <3>1. Len(q) \in 1 .. Len(a) /\ a[Len(q)] = ns[x].name
      BY <2>10, <2>12
    <3> QED
      BY <2>11, <3>1 DEF Alike
  <2>19. Step(ns, p, q[Len(q)]) = x
    BY <2>1, <2>2, <2>6, <2>18, StepDown
  <2> QED
    BY <1>5, <2>16, <2>17, <2>19
<1> QED
  BY <1>6, <1>7

\* No name on the way of an unmistakable node is "." or "..".
LEMMA NamesAbove ==
    ASSUME NEW ns, Rooted(ns), NEW n \in 1 .. Len(ns),
           \A m \in Above(ns, n) : ns[m].name \notin {".", ".."}
    PROVE  Alike(vfs_get_full_filepath(ns, n), vfs_get_full_filepath(ns, n))
<1>1. Len(ns) \in Nat
  BY DEF Rooted
<1>2. PICK d \in 0 .. (n - 1) : d = Depth(ns, n)
  BY DepthIs
<1>3. vfs_get_full_filepath(ns, n) = [i \in 1 .. d |-> ns[Ancestors(ns, n)[d - i]].name]
  BY <1>2 DEF vfs_get_full_filepath
<1>4. Len(vfs_get_full_filepath(ns, n)) = d
  BY <1>2, PathIs
<1>5. \A i \in 1 .. d : ns[Ancestors(ns, n)[d - i]].name \notin {".", ".."}
  <2>1. \A i \in 1 .. d : d - i \in 0 .. (d - 1)
    OBVIOUS
  <2>2. \A i \in 1 .. d : Ancestors(ns, n)[d - i] \in Above(ns, n)
    BY <1>2, <2>1 DEF Above
  <2> QED
    BY <2>2
<1> QED
  BY <1>3, <1>4, <1>5 DEF Alike

\* Every tree has the property.
LEMMA TreeLeadsBack == ASSUME Tree(nodes) PROVE PathsLeadBack
<1> DEFINE L == Len(nodes)
<1>0. L \in Nat /\ L >= 1 /\ Rooted(nodes) /\ Placed(nodes) /\ Sorted(nodes) /\ DOMAIN nodes = 1 .. L
  <2>1. nodes \in Seq(NodeRecord)
    BY DEF Tree, Rooted
  <2> QED
    BY <2>1 DEF Tree, Rooted
<1>c. \A d \in 1 .. L : /\ DOMAIN nodes[d].children = 1 .. Len(nodes[d].children)
                        /\ Len(nodes[d].children) \in Nat
  <2> SUFFICES ASSUME NEW d \in 1 .. L
               PROVE  /\ DOMAIN nodes[d].children = 1 .. Len(nodes[d].children)
                      /\ Len(nodes[d].children) \in Nat
    OBVIOUS
  <2>1. nodes[d].children \in Seq(Nat)
    BY <1>0, NodeIs
  <2> QED
    BY <2>1
<1>1. ASSUME NEW n \in 1 .. L, Unmistakable(nodes, n)
      PROVE  vfs_navigate_to(nodes, Root, vfs_get_full_filepath(nodes, n)) = n
  <2>1. \A m \in Above(nodes, n) : m \in 1 .. L
    <3>1. Depth(nodes, n) \in 0 .. (n - 1)
      BY <1>0, DepthIs
    <3>2. \A k \in 0 .. (Depth(nodes, n) - 1) : k \in 0 .. L
      BY <1>0, <3>1
    <3>3. Ancestors(nodes, n) \in [0 .. L -> 1 .. L]
      BY <1>0, AncestorsAre
    <3>4. \A k \in 0 .. (Depth(nodes, n) - 1) : Ancestors(nodes, n)[k] \in 1 .. L
      BY <3>2, <3>3
    <3> QED
      BY <3>4 DEF Above
  <2>2. ASSUME NEW m \in Above(nodes, n)
        PROVE  Alone(nodes, m) /\ nodes[m].name \notin {".", ".."}
    <3>1. nodes[m].parent \in 1 .. L
      BY <1>0, <2>1, NodeIs
    <3>2. DOMAIN nodes[nodes[m].parent].children = 1 .. Len(nodes[nodes[m].parent].children)
      BY <1>c, <3>1
    <3> QED
      BY <1>1, <3>2 DEF Unmistakable, Alone
  <2>3. Led(nodes, n)
    BY <2>2, LedTo
  <2>4. Alike(vfs_get_full_filepath(nodes, n), vfs_get_full_filepath(nodes, n))
    BY <1>0, <2>2, NamesAbove
  <2>5. vfs_get_full_filepath(nodes, n) \in Seq(Names)
    BY <1>0, PathIs
  <2> QED
    BY <2>3, <2>4, <2>5 DEF Led
<1>2. ASSUME NEW n \in 1 .. L, NEW i \in DOMAIN nodes[n].children, NEW j \in DOMAIN nodes[n].children,
             i < j
      PROVE  Rank(nodes[nodes[n].children[i]].name) <= Rank(nodes[nodes[n].children[j]].name)
  <2>1. i \in 1 .. Len(nodes[n].children) /\ j \in 1 .. Len(nodes[n].children)
    BY <1>c
  <2>2. Keys(nodes, nodes[n].children)[i] <= Keys(nodes, nodes[n].children)[j]
    BY <1>0, <1>2, <2>1 DEF Sorted, Ordered
  <2> QED
    BY <2>1, <2>2 DEF Keys
<1>3. ASSUME NEW n \in 1 .. L, n # Root
      PROVE  \E i \in DOMAIN nodes[nodes[n].parent].children :
                \A d \in 1 .. L : \A j \in DOMAIN nodes[d].children :
                    nodes[d].children[j] = n <=> d = nodes[n].parent /\ j = i
  <2>1. n \in 2 .. L /\ nodes[n].parent \in 1 .. L
    <3>1. nodes[n].parent \in 1 .. L
      BY <1>0, NodeIs
    <3> QED
      BY <1>0, <1>3, <3>1 DEF Root
  <2>2. PICK i \in Nat : Child(nodes, nodes[n].parent, i, n)
    BY <1>0, <2>1 DEF Placed
  <2>3. i \in DOMAIN nodes[nodes[n].parent].children
        /\ nodes[nodes[n].parent].children[i] = n
    BY <1>c, <2>1, <2>2 DEF Child
  <2>4. ASSUME NEW d \in 1 .. L, NEW j \in DOMAIN nodes[d].children, nodes[d].children[j] = n
        PROVE  d = nodes[n].parent /\ j = i
    <3>1. Child(nodes, d, j, n) /\ j \in Nat
      BY <1>c, <2>4 DEF Child
    <3>2. d = nodes[n].parent
      BY <1>0, <3>1 DEF Placed
    <3> QED
      BY <1>0, <2>2, <3>1, <3>2 DEF Placed
  <2> QED
    BY <2>3, <2>4
<1>4. ASSUME NEW n \in DOMAIN nodes
      PROVE  /\ Unmistakable(nodes, n) =>
                  vfs_navigate_to(nodes, Root, vfs_get_full_filepath(nodes, n)) = n
             /\ \A i, j \in DOMAIN nodes[n].children :
                  i < j => Rank(nodes[nodes[n].children[i]].name)
                             <= Rank(nodes[nodes[n].children[j]].name)
             /\ n # Root =>
                  \E i \in DOMAIN nodes[nodes[n].parent].children :
                     \A d \in DOMAIN nodes : \A j \in DOMAIN nodes[d].children :
                         nodes[d].children[j] = n <=> d = nodes[n].parent /\ j = i
  <2>1. n \in 1 .. L /\ DOMAIN nodes = 1 .. L
    BY <1>0
  <2> HIDE DEF L
  <2>2. /\ Unmistakable(nodes, n) =>
             vfs_navigate_to(nodes, Root, vfs_get_full_filepath(nodes, n)) = n
    BY <1>1, <2>1
  <2>3. \A i, j \in DOMAIN nodes[n].children :
           i < j => Rank(nodes[nodes[n].children[i]].name)
                      <= Rank(nodes[nodes[n].children[j]].name)
    BY <1>2, <2>1
  <2>4. n # Root =>
          \E i \in DOMAIN nodes[nodes[n].parent].children :
             \A d \in DOMAIN nodes : \A j \in DOMAIN nodes[d].children :
                 nodes[d].children[j] = n <=> d = nodes[n].parent /\ j = i
    BY <1>3, <2>1
  <2> QED
    BY <2>2, <2>3, <2>4
<1> QED
  BY <1>4, Zenon DEF PathsLeadBack

-----------------------------------------------------------------------------
(* A node more. *)

\* c has become e, with m in front of the children from s + 1 on: among the
\* keys r of c, that is a place for x, before one that is equal if there is any.
Inserts(c, e, m, s, r, x) ==
    /\ s \in 0 .. Len(c) /\ e \in Seq(Nat) /\ Len(e) = Len(c) + 1
    /\ \A i \in 1 .. (Len(c) + 1) :
         e[i] = IF i < s + 1 THEN c[i] ELSE IF i = s + 1 THEN m ELSE c[i - 1]
    /\ \A i \in 1 .. s : r[i] <= x
    /\ \A i \in (s + 1) .. Len(c) : r[i] >= x
    /\ (\E i \in 1 .. Len(c) : r[i] = x) => s < Len(c) /\ r[s + 1] = x

SameNode(a, b) == a.name = b.name /\ a.kind = b.kind /\ a.parent = b.parent

\* t is ns with a node more in dir.
Added(ns, t, dir, name, kind) ==
    /\ t \in Seq(NodeRecord) /\ Len(t) = Len(ns) + 1
    /\ \A n \in 1 .. Len(ns) :
         SameNode(t[n], ns[n]) /\ (n # dir => t[n].children = ns[n].children)
    /\ t[Len(ns) + 1] = [name |-> name, kind |-> kind, parent |-> dir, children |-> <<>>]
    /\ \E s \in Nat : Inserts(ns[dir].children, t[dir].children, Len(ns) + 1, s,
                              Keys(ns, ns[dir].children), Rank(name))

\* The children of a directory.
LEMMA ChildrenAre ==
    ASSUME NEW ns, Tree(ns), NEW d \in 1 .. Len(ns)
    PROVE  /\ ns[d].children \in Seq(Nat) /\ Len(ns[d].children) \in Nat
           /\ Ordered(Keys(ns, ns[d].children), Len(ns[d].children))
           /\ \A i \in 1 .. Len(ns[d].children) :
                /\ i \in Nat /\ ns[d].children[i] \in 2 .. Len(ns) /\ ns[d].children[i] \in 1 .. Len(ns)
                /\ ns[ns[d].children[i]].name \in Names
                /\ ns[ns[d].children[i]].parent = d
                /\ Child(ns, d, i, ns[d].children[i])
<1>1. Rooted(ns) /\ Placed(ns) /\ Sorted(ns) /\ Len(ns) \in Nat
  BY DEF Tree, Rooted
<1>2. ns[d].children \in Seq(Nat) /\ Len(ns[d].children) \in Nat
  BY <1>1, NodeIs
<1>3. Ordered(Keys(ns, ns[d].children), Len(ns[d].children))
  BY <1>1 DEF Sorted
<1>4. ASSUME NEW i \in 1 .. Len(ns[d].children)
      PROVE  /\ i \in Nat /\ ns[d].children[i] \in 2 .. Len(ns) /\ ns[d].children[i] \in 1 .. Len(ns)
             /\ ns[ns[d].children[i]].name \in Names
             /\ ns[ns[d].children[i]].parent = d
             /\ Child(ns, d, i, ns[d].children[i])
  <2>1. i \in Nat
    BY <1>2
  <2>2. Child(ns, d, i, ns[d].children[i])
    BY DEF Child
  <2>3. ns[d].children[i] \in 2 .. Len(ns) /\ ns[ns[d].children[i]].parent = d
    BY <1>1, <2>1, <2>2 DEF Placed
  <2>4. ns[ns[d].children[i]].name \in Names
    BY <1>1, <2>3 DEF Rooted
  <2>5. ns[d].children[i] \in 1 .. Len(ns)
    BY <1>1, <2>3
  <2> QED
    BY <2>1, <2>2, <2>3, <2>4, <2>5
<1> QED
  BY <1>2, <1>3, <1>4

\* e is the i-th child of d, and what that says.
ChildAt(ns, d, i, e) ==
    Tree(ns) /\ d \in 1 .. Len(ns) /\ i \in 1 .. Len(ns[d].children) /\ e = ns[d].children[i]
ChildOf(ns, d, e) ==
    e \in 2 .. Len(ns) /\ e \in 1 .. Len(ns) /\ ns[e].parent = d /\ ns[e].name \in Names

\* One child, as one fact.
LEMMA ChildIs ==
    ASSUME NEW ns, NEW d, NEW i, NEW e, ChildAt(ns, d, i, e)
    PROVE  ChildOf(ns, d, e)
BY ChildrenAre DEF ChildAt, ChildOf

\* What AddNode makes.
LEMMA AddNodeIs ==
    ASSUME NEW ns, Tree(ns), NEW dir \in 1 .. Len(ns), NEW name \in Names,
           NEW kind \in {"dir", "file", "pipe"}
    PROVE  Added(ns, AddNode(ns, dir, name, kind), dir, name, kind)
<1> DEFINE L == Len(ns)
           c == ns[dir].children
           s == SearchIndex(ns, c, name)
           m == [name |-> name, kind |-> kind, parent |-> dir, children |-> <<>>]
           e == InsertAt(c, s + 1, L + 1)
           ms == [ns EXCEPT ![dir].children = e]
           t == Append(ms, m)
<1>0. L \in Nat /\ ns \in Seq(NodeRecord)
  BY DEF Tree, Rooted
<1>1. c \in Seq(Nat) /\ Len(c) \in Nat /\ Ordered(Keys(ns, c), Len(c))
      /\ \A i \in 1 .. Len(c) : ns[c[i]].name \in Names
  BY ChildrenAre
<1>2. Bracket(Keys(ns, c), Rank(name), Len(c), s, s)
  BY <1>1, SearchIs
<1>3. Rank(name) \in Nat
  BY RankIs
<1>4. PICK k : k = s
  OBVIOUS
<1> HIDE DEF s
<1>5. /\ k \in 0 .. Len(c)
      /\ \A i \in 1 .. k : Keys(ns, c)[i] <= Rank(name)
      /\ \A i \in (k + 1) .. Len(c) : Keys(ns, c)[i] >= Rank(name)
      /\ (\E i \in 1 .. Len(c) : Keys(ns, c)[i] = Rank(name))
           => k < Len(c) /\ Keys(ns, c)[k + 1] = Rank(name)
  <2>1. Bracket(Keys(ns, c), Rank(name), Len(c), k, k)
    BY <1>2, <1>4
  <2> HIDE DEF c
  <2>2. PlaceFor(Keys(ns, c), Rank(name), Len(c), k)
    BY <1>1, <1>3, <2>1, BracketMet
  <2> QED
    BY <2>2 DEF PlaceFor
<1>6. /\ e \in Seq(Nat) /\ Len(e) = Len(c) + 1
      /\ \A i \in 1 .. (Len(c) + 1) :
            e[i] = IF i < k + 1 THEN c[i] ELSE IF i = k + 1 THEN L + 1 ELSE c[i - 1]
  <2>1. k + 1 \in 1 .. (Len(c) + 1)
    <3>1. \A n \in Nat : k \in 0 .. n => k + 1 \in 1 .. (n + 1)
      OBVIOUS
    <3> QED
      BY <1>1, <1>5, <3>1
  <2>2. L + 1 \in Nat
    BY <1>0
  <2>3. e = InsertAt(c, k + 1, L + 1)
    BY <1>4
  <2>4. PICK k1 \in 1 .. (Len(c) + 1) : k1 = k + 1
    BY <2>1
  <2>5. PICK m1 \in Nat : m1 = L + 1
    BY <2>2
  <2>6. PICK b \in Seq(Nat) : b = c
    BY <1>1
  <2>7. PICK e1 : e1 = e
    OBVIOUS
  <2>8. e1 = InsertAt(b, k1, m1) /\ k1 \in 1 .. (Len(b) + 1)
    BY <2>3, <2>4, <2>5, <2>6, <2>7
  <2> HIDE DEF e, c, L
  <2>9. e1 \in Seq(Nat) /\ WithAt(e1, b, k1, m1)
    BY <2>8, InsertAtIs
  <2> QED
    BY <2>4, <2>5, <2>6, <2>7, <2>9 DEF WithAt
<1>7. Inserts(c, e, L + 1, k, Keys(ns, c), Rank(name)) /\ k \in Nat
  <2> HIDE DEF e, c, L
  <2>1. k \in Nat
    BY <1>1, <1>5
  <2> QED
    BY <1>1, <1>5, <1>6, <2>1 DEF Inserts
<1>8. AddNode(ns, dir, name, kind) = t
  BY DEF AddNode, s
<1> HIDE DEF e
<1>9. m \in NodeRecord
  BY DEF NodeRecord
<1>10. /\ ms \in Seq(NodeRecord) /\ Len(ms) = L
       /\ \A n \in 1 .. L : ms[n] = IF n = dir THEN [ns[n] EXCEPT !.children = e] ELSE ns[n]
  <2>1. \A n \in 1 .. L : ms[n] = IF n = dir THEN [ns[n] EXCEPT !.children = e] ELSE ns[n]
    BY <1>0
  <2>2. [ns[dir] EXCEPT !.children = e] \in NodeRecord
    <3>1. ns[dir] \in NodeRecord
      BY <1>0
    <3> QED
      BY <1>6, <3>1 DEF NodeRecord
  <2> QED
    BY <1>0, <2>1, <2>2
<1> HIDE DEF m, ms
<1>11. /\ t \in Seq(NodeRecord) /\ Len(t) = L + 1
       /\ (\A n \in 1 .. L : t[n] = ms[n]) /\ t[L + 1] = m
  BY <1>9, <1>10, AppendProperties
<1> HIDE DEF t
<1>12. \A n \in 1 .. L : /\ SameNode(t[n], ns[n])
                         /\ n # dir => t[n].children = ns[n].children
                         /\ n = dir => t[n].children = e
  <2> SUFFICES ASSUME NEW n \in 1 .. L
               PROVE  /\ SameNode(t[n], ns[n])
                      /\ n # dir => t[n].children = ns[n].children
                      /\ n = dir => t[n].children = e
    OBVIOUS
  <2>1. ns[n] \in NodeRecord
    BY <1>0
  <2>2. t[n] = IF n = dir THEN [ns[n] EXCEPT !.children = e] ELSE ns[n]
    BY <1>10, <1>11
  <2> QED
    BY <2>1, <2>2 DEF NodeRecord, SameNode
<1>13. Added(ns, t, dir, name, kind)
  <2>1. Inserts(ns[dir].children, t[dir].children, Len(ns) + 1, k,
                Keys(ns, ns[dir].children), Rank(name))
    BY <1>7, <1>12
  <2> QED
    BY <1>7, <1>11, <1>12, <2>1 DEF Added, m
<1> QED
  BY <1>8, <1>13

\* It is a tree again.
LEMMA AddedTree ==
    ASSUME NEW ns, Tree(ns), NEW t, NEW dir \in 1 .. Len(ns), ns[dir].kind = "dir",
           NEW name \in Names, NEW kind, Added(ns, t, dir, name, kind)
    PROVE  Tree(t)
<1> DEFINE L == Len(ns)
           c == ns[dir].children
<1>0. L \in Nat /\ L >= 1 /\ Rooted(ns) /\ Placed(ns) /\ Sorted(ns)
  BY DEF Tree, Rooted
<1>1. /\ t \in Seq(NodeRecord) /\ Len(t) = L + 1
      /\ \A n \in 1 .. L : SameNode(t[n], ns[n]) /\ (n # dir => t[n].children = ns[n].children)
      /\ t[L + 1].name = name /\ t[L + 1].parent = dir /\ t[L + 1].children = <<>>
  BY DEF Added
<1>2. PICK s \in Nat : Inserts(c, t[dir].children, L + 1, s, Keys(ns, c), Rank(name))
  BY DEF Added
<1>3. PICK e : e = t[dir].children
  OBVIOUS
<1>4. /\ s \in 0 .. Len(c) /\ e \in Seq(Nat) /\ Len(e) = Len(c) + 1
      /\ \A i \in 1 .. (Len(c) + 1) :
           e[i] = IF i < s + 1 THEN c[i] ELSE IF i = s + 1 THEN L + 1 ELSE c[i - 1]
      /\ \A i \in 1 .. s : Keys(ns, c)[i] <= Rank(name)
      /\ \A i \in (s + 1) .. Len(c) : Keys(ns, c)[i] >= Rank(name)
  BY <1>2, <1>3 DEF Inserts
<1>5. c \in Seq(Nat) /\ Len(c) \in Nat /\ Ordered(Keys(ns, c), Len(c))
      /\ \A i \in 1 .. Len(c) : c[i] \in 2 .. L /\ c[i] \in 1 .. L /\ Child(ns, dir, i, c[i])
  BY ChildrenAre
<1>6. Rooted(t)
  <2>1. t[Root].kind = "dir" /\ t[Root].parent = Root
    BY <1>0, <1>1 DEF Rooted, Root, SameNode
  <2>2. ASSUME NEW n \in 2 .. Len(t) PROVE t[n].name \in Names /\ t[n].parent \in 1 .. (n - 1)
    <3>1. CASE n = L + 1
      BY <1>0, <1>1, <3>1
    <3>2. CASE n # L + 1
      <4>1. n \in 2 .. L /\ n \in 1 .. L
        BY <1>0, <1>1, <3>2
      <4>2. ns[n].name \in Names /\ ns[n].parent \in 1 .. (n - 1)
        BY <1>0, <4>1 DEF Rooted
      <4> QED
        BY <1>1, <4>1, <4>2 DEF SameNode
    <3> QED
      BY <3>1, <3>2
  <2> QED
    BY <1>0, <1>1, <2>1, <2>2 DEF Rooted
<1>7. \* Where a child is.
      \A d \in 1 .. (L + 1), i \in Nat : \A n :
        Child(t, d, i, n) <=>
            \/ d # dir /\ d # L + 1 /\ Child(ns, d, i, n)
            \/ d = dir /\ i < s + 1 /\ Child(ns, dir, i, n)
            \/ d = dir /\ i = s + 1 /\ n = L + 1
            \/ d = dir /\ i > s + 1 /\ i - 1 \in Nat /\ Child(ns, dir, i - 1, n)
  <2> SUFFICES ASSUME NEW d \in 1 .. (L + 1), NEW i \in Nat, NEW n
               PROVE  Child(t, d, i, n) <=>
                        \/ d # dir /\ d # L + 1 /\ Child(ns, d, i, n)
                        \/ d = dir /\ i < s + 1 /\ Child(ns, dir, i, n)
                        \/ d = dir /\ i = s + 1 /\ n = L + 1
                        \/ d = dir /\ i > s + 1 /\ i - 1 \in Nat /\ Child(ns, dir, i - 1, n)
    OBVIOUS
  <2>1. CASE d = L + 1
    <3>1. d # dir /\ Len(t[d].children) = 0 /\ ~(i \in 1 .. 0)
      BY <1>0, <1>1, <2>1
    <3> QED
      BY <2>1, <3>1 DEF Child
  <2>2. CASE d # L + 1 /\ d # dir
    <3>1. t[d].children = ns[d].children
      BY <1>0, <1>1, <2>2
    <3> QED
      BY <2>2, <3>1 DEF Child
  <2>3. CASE d # L + 1 /\ d = dir
    <3>1. Child(t, d, i, n) <=> i \in 1 .. (Len(c) + 1) /\ e[i] = n
      BY <1>3, <1>4, <2>3 DEF Child
    <3>2. \A j : Child(ns, dir, j, n) <=> j \in 1 .. Len(c) /\ c[j] = n
      BY DEF Child
    <3> HIDE DEF c, L
    <3>3. CASE i < s + 1
      <4>1. i \in 1 .. (Len(c) + 1) <=> i \in 1 .. Len(c)
        BY <1>4, <1>5, <3>3
      <4>2. i \in 1 .. (Len(c) + 1) => e[i] = c[i]
        BY <1>4, <3>3
      <4>3. ~(i = s + 1) /\ ~(i > s + 1)
        BY <3>3
      <4> QED
        BY <2>3, <3>1, <3>2, <3>3, <4>1, <4>2, <4>3
    <3>4. CASE i = s + 1
      <4>1. i \in 1 .. (Len(c) + 1) /\ ~(i < s + 1) /\ ~(i > s + 1)
        BY <1>4, <1>5, <3>4
      <4>2. e[i] = L + 1
        BY <1>4, <3>4, <4>1
      <4> QED
        BY <2>3, <3>1, <3>4, <4>1, <4>2
    <3>5. CASE i > s + 1
      <4>1. /\ i - 1 \in Nat /\ (i \in 1 .. (Len(c) + 1) <=> i - 1 \in 1 .. Len(c))
            /\ ~(i = s + 1) /\ ~(i < s + 1)
        BY <1>4, <1>5, <3>5
      <4>2. i \in 1 .. (Len(c) + 1) => e[i] = c[i - 1]
        BY <1>4, <4>1
      <4> QED
        BY <2>3, <3>1, <3>2, <3>5, <4>1, <4>2
    <3>6. i < s + 1 \/ i = s + 1 \/ i > s + 1
      OBVIOUS
    <3> QED
      BY <3>3, <3>4, <3>5, <3>6, Zenon
  <2> QED
    BY <2>1, <2>2, <2>3
<1>8. \A d \in 1 .. L, i \in Nat : \A n : Child(ns, d, i, n) =>
            n \in 2 .. L /\ n \in 1 .. L /\ n # L + 1 /\ ns[n].parent = d /\ ns[d].kind = "dir"
  <2>1. \A d \in 1 .. L, i \in Nat : \A n : Child(ns, d, i, n) =>
            n \in 2 .. L /\ ns[n].parent = d /\ ns[d].kind = "dir"
    BY <1>0 DEF Placed
  <2>2. \A n \in 2 .. L : n \in 1 .. L /\ n # L + 1
    BY <1>0
  <2> QED
    BY <2>1, <2>2
<1>p. \A d \in 1 .. L, i, j \in Nat : \A n : Child(ns, d, i, n) /\ Child(ns, d, j, n) => i = j
  BY <1>0 DEF Placed
<1>q. \A n \in 2 .. L : \E i \in Nat : Child(ns, ns[n].parent, i, n)
  BY <1>0 DEF Placed
<1>9. \A d \in 1 .. Len(t), i \in Nat : \A n : Child(t, d, i, n) =>
        n \in 2 .. Len(t) /\ t[n].parent = d /\ t[d].kind = "dir"
  <2> SUFFICES ASSUME NEW d \in 1 .. (L + 1), NEW i \in Nat, NEW n, Child(t, d, i, n)
               PROVE  n \in 2 .. (L + 1) /\ t[n].parent = d /\ t[d].kind = "dir"
    BY <1>1
  <2>1. dir \in 1 .. L /\ t[dir].kind = "dir"
    BY <1>1 DEF SameNode
  <2>2. (d \in 1 .. L /\ \E j \in Nat : Child(ns, d, j, n)) \/ (d = dir /\ n = L + 1)
    <3>1. d # L + 1 => d \in 1 .. L
      BY <1>0
    <3> QED
      BY <1>7, <2>1, <3>1
  <2>3. CASE d = dir /\ n = L + 1
    BY <1>0, <1>1, <2>1, <2>3
  <2>4. CASE d \in 1 .. L /\ \E j \in Nat : Child(ns, d, j, n)
    <3>1. n \in 2 .. L /\ n \in 1 .. L /\ ns[n].parent = d /\ ns[d].kind = "dir"
      BY <1>8, <2>4
    <3>2. n \in 2 .. (L + 1)
      BY <1>0, <3>1
    <3> QED
      BY <1>1, <2>4, <3>1, <3>2 DEF SameNode
  <2> QED
    BY <2>2, <2>3, <2>4
<1>10. \A n \in 2 .. Len(t) : \E i \in Nat : Child(t, t[n].parent, i, n)
  <2> SUFFICES ASSUME NEW n \in 2 .. (L + 1) PROVE \E i \in Nat : Child(t, t[n].parent, i, n)
    BY <1>1
  <2>1. CASE n = L + 1
    <3>1. t[n].parent = dir /\ dir \in 1 .. (L + 1) /\ s + 1 \in Nat
      BY <1>0, <1>1, <2>1
    <3>2. Child(t, dir, s + 1, n)
      BY <1>7, <2>1, <3>1
    <3> QED
      BY <3>1, <3>2
  <2>2. CASE n # L + 1
    <3>1. n \in 2 .. L /\ n \in 1 .. L
      BY <1>0, <2>2
    <3>2. PICK d : d = ns[n].parent
      OBVIOUS
    <3>3. t[n].parent = d /\ d \in 1 .. L /\ d \in 1 .. (L + 1) /\ d # L + 1
      <4>1. d \in 1 .. L
        BY <1>0, <3>1, <3>2, NodeIs
      <4>2. t[n].parent = d
        BY <1>1, <3>1, <3>2 DEF SameNode
      <4> QED
        BY <1>0, <4>1, <4>2
    <3>4. PICK i \in Nat : Child(ns, d, i, n)
      BY <1>q, <3>1, <3>2
    <3>5. CASE d # dir
      BY <1>7, <3>3, <3>4, <3>5
    <3>6. CASE d = dir /\ i < s + 1
      BY <1>7, <3>3, <3>4, <3>6
    <3>7. CASE d = dir /\ ~(i < s + 1)
      <4>1. i + 1 \in Nat /\ i + 1 > s + 1 /\ (i + 1) - 1 = i
        BY <3>7
      <4>2. Child(t, d, i + 1, n)
        BY <1>7, <3>3, <3>4, <3>7, <4>1
      <4> QED
        BY <3>3, <4>1, <4>2
    <3> QED
      BY <3>5, <3>6, <3>7
  <2> QED
    BY <2>1, <2>2
<1>11. \A d \in 1 .. Len(t), i, j \in Nat : \A n : Child(t, d, i, n) /\ Child(t, d, j, n) => i = j
  <2> SUFFICES ASSUME NEW d \in 1 .. (L + 1), NEW i \in Nat, NEW j \in Nat, NEW n,
                      Child(t, d, i, n), Child(t, d, j, n)
               PROVE  i = j
    BY <1>1
  <2>1. dir \in 1 .. L
    OBVIOUS
  <2>2. CASE d # dir
    <3>1. Child(ns, d, i, n) /\ Child(ns, d, j, n) /\ d \in 1 .. L
      BY <1>0, <1>7, <2>2
    <3> QED
      BY <1>p, <3>1
  <2>3. CASE d = dir /\ n = L + 1
    <3>1. \A k \in Nat : ~Child(ns, dir, k, n)
      BY <1>8, <2>1, <2>3
    <3>2. i = s + 1 /\ j = s + 1
      BY <1>7, <2>3, <3>1
    <3> QED
      BY <3>2
  <2>4. CASE d = dir /\ n # L + 1
    <3>0. dir \in 1 .. (L + 1) /\ Child(t, dir, i, n) /\ Child(t, dir, j, n)
      BY <1>0, <2>4
    <3> HIDE DEF L, c
    <3>1. \/ i < s + 1 /\ Child(ns, dir, i, n)
          \/ i > s + 1 /\ i - 1 \in Nat /\ Child(ns, dir, i - 1, n)
      BY <1>7, <2>4, <3>0
    <3>2. \/ j < s + 1 /\ Child(ns, dir, j, n)
          \/ j > s + 1 /\ j - 1 \in Nat /\ Child(ns, dir, j - 1, n)
      BY <1>7, <2>4, <3>0
    <3>3. PICK k \in Nat : Child(ns, dir, k, n) /\ ((k = i /\ i < s + 1) \/ (k = i - 1 /\ i > s + 1))
      BY <3>1
    <3>4. PICK l \in Nat : Child(ns, dir, l, n) /\ ((l = j /\ j < s + 1) \/ (l = j - 1 /\ j > s + 1))
      BY <3>2
    <3>5. k = l
      BY <1>p, <2>1, <3>3, <3>4
    <3> QED
      BY <3>3, <3>4, <3>5
  <2> QED
    BY <2>2, <2>3, <2>4
<1>12. Placed(t)
  BY <1>9, <1>10, <1>11 DEF Placed
<1>13. ASSUME NEW d \in 1 .. Len(t)
       PROVE  Ordered(Keys(t, t[d].children), Len(t[d].children))
  <2>1. CASE d = L + 1
    <3>1. Len(t[d].children) = 0
      BY <1>1, <2>1
    <3> QED
      BY <3>1 DEF Ordered, Keys
  <2>2. CASE d # L + 1 /\ d # dir
    <3>1. d \in 1 .. L /\ t[d].children = ns[d].children
      BY <1>0, <1>1, <2>2
    <3>2. PICK b : b = ns[d].children
      OBVIOUS
    <3>3. Ordered(Keys(ns, b), Len(b)) /\ \A i \in 1 .. Len(b) : b[i] \in 1 .. L
      BY <3>1, <3>2, ChildrenAre
    <3>4. Keys(t, b) = Keys(ns, b)
      <4>1. \A i \in 1 .. Len(b) : t[b[i]].name = ns[b[i]].name
        BY <1>1, <3>3 DEF SameNode
      <4> QED
        BY <4>1 DEF Keys
    <3> QED
      BY <3>1, <3>2, <3>3, <3>4
  <2>3. CASE d = dir
    <3>1. PICK r : r = Keys(ns, c)
      OBVIOUS
    <3>2. PICK x \in Nat : x = Rank(name)
      BY RankIs
    <3>3. PICK k : k = Keys(t, e)
      OBVIOUS
    <3>4. PICK n \in Nat : n = Len(c)
      BY <1>5
    <3>5. /\ s \in 0 .. n /\ Len(e) = n + 1
          /\ (\A i \in 1 .. s : r[i] <= x) /\ (\A i \in (s + 1) .. n : r[i] >= x)
      BY <1>4, <3>1, <3>2, <3>4
    <3>6. r \in [1 .. n -> Nat] /\ \A i, j \in 1 .. n : i < j => r[i] <= r[j]
      BY <1>5, <3>1, <3>4 DEF Ordered
    <3>7. \A i \in 1 .. (n + 1) : k[i] = Rank(t[e[i]].name)
      BY <3>3, <3>5 DEF Keys
    <3>8. \A i \in 1 .. n : r[i] = Rank(t[c[i]].name)
      <4>1. \A i \in 1 .. n : t[c[i]].name = ns[c[i]].name
        BY <1>1, <1>5, <3>4 DEF SameNode
      <4> QED
        BY <3>1, <3>4, <4>1 DEF Keys
    <3>9. \A i \in 1 .. (n + 1) : k[i] = IF i < s + 1 THEN r[i] ELSE IF i = s + 1 THEN x ELSE r[i - 1]
      <4> SUFFICES ASSUME NEW i \in 1 .. (n + 1)
                   PROVE  k[i] = IF i < s + 1 THEN r[i] ELSE IF i = s + 1 THEN x ELSE r[i - 1]
        OBVIOUS
      <4>1. e[i] = IF i < s + 1 THEN c[i] ELSE IF i = s + 1 THEN L + 1 ELSE c[i - 1]
        BY <1>4, <3>4
      <4> HIDE DEF c, L
      <4>2. CASE i < s + 1
        <5>1. i \in 1 .. n /\ e[i] = c[i]
          BY <3>5, <4>1, <4>2
        <5> QED
          BY <3>7, <3>8, <4>2, <5>1
      <4>3. CASE i = s + 1
        <5>1. e[i] = L + 1 /\ ~(i < s + 1)
          BY <4>1, <4>3
        <5> QED
          BY <1>1, <3>2, <3>7, <4>3, <5>1
      <4>4. CASE i > s + 1
        <5>1. i - 1 \in 1 .. n /\ e[i] = c[i - 1] /\ ~(i < s + 1) /\ i # s + 1
          BY <3>5, <4>1, <4>4
        <5> QED
          BY <3>7, <3>8, <5>1
      <4>5. i < s + 1 \/ i = s + 1 \/ i > s + 1
        OBVIOUS
      <4> QED
        BY <4>2, <4>3, <4>4, <4>5, Zenon
    <3>10. \A i \in 1 .. (n + 1) : k[i] \in Nat
      <4>1. \A i \in 1 .. (n + 1) : (i < s + 1 => i \in 1 .. n) /\ (i > s + 1 => i - 1 \in 1 .. n)
        BY <3>5
      <4>2. \A i \in 1 .. n : r[i] \in Nat
        BY <3>6
      <4>3. ASSUME NEW i \in 1 .. (n + 1) PROVE k[i] \in Nat
        <5>1. /\ k[i] = IF i < s + 1 THEN r[i] ELSE IF i = s + 1 THEN x ELSE r[i - 1]
              /\ i < s + 1 \/ i = s + 1 \/ i > s + 1
          BY <3>5, <3>9
        <5>2. CASE i < s + 1
          BY <4>1, <4>2, <5>1, <5>2
        <5>3. CASE i = s + 1
          BY <5>1, <5>3
        <5>4. CASE i > s + 1
          <6>1. k[i] = r[i - 1]
            BY <3>5, <5>1, <5>4
          <6> QED
            BY <4>1, <4>2, <5>4, <6>1
        <5> QED
          BY <5>1, <5>2, <5>3, <5>4, Zenon
      <4> QED
        BY <4>3, Zenon
    <3>11. ASSUME NEW i \in 1 .. (n + 1), NEW j \in 1 .. (n + 1), i < j PROVE k[i] <= k[j]
      <4>1. CASE j < s + 1
        <5>1. i \in 1 .. n /\ j \in 1 .. n /\ k[i] = r[i] /\ k[j] = r[j]
          BY <3>5, <3>9, <3>11, <4>1
        <5> QED
          BY <3>6, <3>11, <5>1
      <4>2. CASE j = s + 1
        <5>1. i \in 1 .. s /\ k[i] = r[i] /\ k[j] = x
          BY <3>5, <3>9, <3>11, <4>2
        <5> QED
          BY <3>5, <5>1
      <4>3. CASE j > s + 1 /\ i < s + 1
        <5>1. i \in 1 .. n /\ j - 1 \in 1 .. n /\ k[i] = r[i] /\ k[j] = r[j - 1]
          BY <3>5, <3>9, <3>11, <4>3
        <5>2. i \in 1 .. s /\ j - 1 \in (s + 1) .. n
          BY <3>5, <4>3
        <5>3. r[i] <= x /\ r[j - 1] >= x /\ r[i] \in Nat /\ r[j - 1] \in Nat
          BY <3>5, <3>6, <5>1, <5>2
        <5> QED
          BY <5>1, <5>3
      <4>4. CASE i = s + 1
        <5>1. j - 1 \in (s + 1) .. n /\ k[i] = x /\ k[j] = r[j - 1]
          BY <3>5, <3>9, <3>11, <4>4
        <5>2. j - 1 \in 1 .. n
          BY <3>5, <5>1
        <5>3. r[j - 1] \in Nat /\ r[j - 1] >= x
          BY <3>5, <3>6, <5>1, <5>2
        <5> QED
          BY <5>1, <5>3
      <4>5. CASE i > s + 1
        <5>1. i - 1 \in 1 .. n /\ j - 1 \in 1 .. n /\ i - 1 < j - 1 /\ k[i] = r[i - 1] /\ k[j] = r[j - 1]
          BY <3>5, <3>9, <3>11, <4>5
        <5> QED
          BY <3>6, <5>1
      <4>6. j < s + 1 \/ j = s + 1 \/ (j > s + 1 /\ i < s + 1) \/ i = s + 1 \/ i > s + 1
        OBVIOUS
      <4> QED
        BY <4>1, <4>2, <4>3, <4>4, <4>5, <4>6, Zenon
    <3>12. k = [i \in 1 .. (n + 1) |-> k[i]]
      BY <3>3, <3>5 DEF Keys
    <3>13. Ordered(k, n + 1)
      <4>1. k \in [1 .. (n + 1) -> Nat]
        BY <3>10, <3>12
      <4> QED
        BY <3>11, <4>1 DEF Ordered
    <3> QED
      BY <1>3, <2>3, <3>3, <3>5, <3>13
  <2> QED
    BY <2>1, <2>2, <2>3
<1> QED
  BY <1>6, <1>12, <1>13 DEF Tree, Sorted

-----------------------------------------------------------------------------
(* A directory of the disk. *)

\* SetToSeq lists a finite set, every element once.
LEMMA ListingIs ==
    ASSUME NEW S, IsFiniteSet(S)
    PROVE  /\ SetToSeq(S) \in Seq(S) /\ Len(SetToSeq(S)) \in Nat
           /\ \A i \in 1 .. Len(SetToSeq(S)) : SetToSeq(S)[i] \in S
           /\ \A i, j \in 1 .. Len(SetToSeq(S)) : SetToSeq(S)[i] = SetToSeq(S)[j] => i = j
           /\ \A x \in S : \E i \in 1 .. Len(SetToSeq(S)) : SetToSeq(S)[i] = x
<1>1. PICK n : n = Cardinality(S)
  OBVIOUS
<1>2. n \in Nat /\ ExistsBijection(1 .. n, S)
  BY <1>1, FS_CardinalityType
<1>3. PICK g : g \in [1 .. n -> S] /\ IsInjective(g)
  BY <1>2 DEF ExistsBijection, Bijection, Injection, IsInjective
<1>4. PICK f : f = SetToSeq(S)
  OBVIOUS
<1>5. f \in [1 .. n -> S] /\ IsInjective(f)
  BY <1>1, <1>3, <1>4 DEF SetToSeq
<1>6. f \in Injection(1 .. n, S)
  BY <1>5 DEF Injection
<1>7. Cardinality(1 .. n) = n
  <2>1. 1 \in Int /\ n \in Int
    BY <1>2
  <2>2. Cardinality(1 .. n) = IF 1 > n THEN 0 ELSE n - 1 + 1
    BY <2>1, FS_Interval
  <2> QED
    BY <1>2, <2>2
<1>8. f \in Surjection(1 .. n, S)
  BY <1>1, <1>6, <1>7, FS_Injection
<1>9. f \in Seq(S) /\ Len(f) = n
  BY <1>2, <1>5
<1>10. \A i \in 1 .. n : f[i] \in S
  BY <1>5
<1>11. \A i, j \in 1 .. n : f[i] = f[j] => i = j
  <2>1. DOMAIN f = 1 .. n
    BY <1>5
  <2> QED
    BY <1>5, <2>1 DEF IsInjective
<1>12. \A x \in S : \E i \in 1 .. n : f[i] = x
  BY <1>8 DEF Surjection
<1> QED
  BY <1>2, <1>4, <1>9, <1>10, <1>11, <1>12

\* What the first k of the entries have made of ns in dir.
Grown(ns, t, dir, entries, kind, k) ==
    /\ Tree(t) /\ Len(t) = Len(ns) + k
    /\ \A n \in 1 .. Len(ns) :
         SameNode(t[n], ns[n]) /\ (n # dir => t[n].children = ns[n].children)
    /\ \A i \in 1 .. k :
         t[Len(ns) + i] = [name |-> Last(entries[i]), kind |-> kind[entries[i]],
                           parent |-> dir, children |-> <<>>]

\* One more entry.
LEMMA GrownByOne ==
    ASSUME NEW ns, Tree(ns), NEW dir \in 1 .. Len(ns), ns[dir].kind = "dir", NEW entries, NEW kind,
           NEW k \in Nat, k # 0, NEW t, Grown(ns, t, dir, entries, kind, k - 1),
           Last(entries[k]) \in Names, kind[entries[k]] \in {"dir", "file", "pipe"}
    PROVE  Grown(ns, AddNode(t, dir, Last(entries[k]), kind[entries[k]]), dir, entries, kind, k)
<1> DEFINE L == Len(ns)
<1>0. L \in Nat /\ Tree(t) /\ Len(t) = L + (k - 1) /\ dir \in 1 .. L
  BY DEF Tree, Rooted, Grown
<1>1. dir \in 1 .. Len(t) /\ t[dir].kind = "dir"
  <2>1. t[dir].kind = "dir"
    BY DEF Grown, SameNode
  <2> QED
    BY <1>0, <2>1
<1>2. PICK name \in Names : name = Last(entries[k])
  OBVIOUS
<1>3. PICK kd \in {"dir", "file", "pipe"} : kd = kind[entries[k]]
  OBVIOUS
<1>4. PICK u : u = AddNode(t, dir, name, kd)
  OBVIOUS
<1>5. Added(t, u, dir, name, kd)
  BY <1>0, <1>1, <1>4, AddNodeIs
<1>6. Tree(u)
  BY <1>0, <1>1, <1>5, AddedTree
<1>7. Len(t) + 1 = L + k
  BY <1>0
<1>8. /\ Len(u) = L + k
      /\ \A n \in 1 .. Len(t) : SameNode(u[n], t[n]) /\ (n # dir => u[n].children = t[n].children)
      /\ u[L + k] = [name |-> name, kind |-> kd, parent |-> dir, children |-> <<>>]
  BY <1>5, <1>7 DEF Added
<1>9. \A n \in 1 .. L : SameNode(u[n], ns[n]) /\ (n # dir => u[n].children = ns[n].children)
  <2> SUFFICES ASSUME NEW n \in 1 .. L
               PROVE  SameNode(u[n], ns[n]) /\ (n # dir => u[n].children = ns[n].children)
    OBVIOUS
  <2>1. n \in 1 .. Len(t)
    BY <1>0
  <2>2. SameNode(t[n], ns[n]) /\ (n # dir => t[n].children = ns[n].children)
    BY DEF Grown
  <2>3. SameNode(u[n], t[n]) /\ (n # dir => u[n].children = t[n].children)
    BY <1>8, <2>1
  <2> QED
    BY <2>2, <2>3 DEF SameNode
<1>10. \A i \in 1 .. k :
         u[L + i] = [name |-> Last(entries[i]), kind |-> kind[entries[i]],
                     parent |-> dir, children |-> <<>>]
  <2> SUFFICES ASSUME NEW i \in 1 .. k
               PROVE  u[L + i] = [name |-> Last(entries[i]), kind |-> kind[entries[i]],
                                  parent |-> dir, children |-> <<>>]
    OBVIOUS
  <2>1. CASE i = k
    BY <1>2, <1>3, <1>8, <2>1
  <2>2. CASE i # k
    <3>1. i \in 1 .. (k - 1) /\ L + i \in 1 .. Len(t) /\ L + i # dir
      BY <1>0, <2>2
    <3>2. t[L + i] = [name |-> Last(entries[i]), kind |-> kind[entries[i]],
                      parent |-> dir, children |-> <<>>]
      BY <3>1 DEF Grown
    <3>3. SameNode(u[L + i], t[L + i]) /\ u[L + i].children = t[L + i].children
      BY <1>8, <3>1
    <3>4. PICK r : r = u[L + i]
      OBVIOUS
    <3>5. r \in NodeRecord
      <4>1. u \in Seq(NodeRecord) /\ L + i \in 1 .. Len(u)
        BY <1>0, <1>6, <1>8 DEF Tree, Rooted
      <4> QED
        BY <3>4, <4>1
    <3>6. r = [name |-> r.name, kind |-> r.kind, parent |-> r.parent, children |-> r.children]
      BY <3>5 DEF NodeRecord
    <3> QED
      BY <3>2, <3>3, <3>4, <3>6 DEF SameNode
  <2> QED
    BY <2>1, <2>2
<1>11. Grown(ns, u, dir, entries, kind, k)
  BY <1>6, <1>8, <1>9, <1>10 DEF Grown
<1> QED
  BY <1>2, <1>3, <1>4, <1>11

InsertTable(f, ns, dir, entries, kind) ==
    f = [i \in 0 .. Len(entries) |->
            IF i = 0 THEN ns ELSE AddNode(f[i - 1], dir, Last(entries[i]), kind[entries[i]])]

\* What fat_populate_vfs_directory makes of a tree.
LEMMA InsertedIs ==
    ASSUME NEW ns, Tree(ns), NEW dir \in 1 .. Len(ns), ns[dir].kind = "dir",
           NEW entries, Len(entries) \in Nat, NEW kind,
           \A i \in 1 .. Len(entries) :
              Last(entries[i]) \in Names /\ kind[entries[i]] \in {"dir", "file", "pipe"}
    PROVE  Grown(ns, Inserted(ns, dir, entries, kind), dir, entries, kind, Len(entries))
<1>1. PICK E \in Nat : E = Len(entries)
  OBVIOUS
<1> DEFINE S == {t \in Seq(NodeRecord) : Tree(t) /\ dir \in 1 .. Len(t) /\ t[dir].kind = "dir"}
           A(i, t) == AddNode(t, dir, Last(entries[i]), kind[entries[i]])
           g == [y \in (1 .. E) \X S |-> A(y[1], y[2])]
           F == CHOOSE f : InsertTable(f, ns, dir, entries, kind)
<1>2. ns \in S
  BY DEF Tree, Rooted
<1>3. ASSUME NEW i \in 1 .. E, NEW t \in S PROVE A(i, t) \in S
  <2>1. PICK name \in Names : name = Last(entries[i])
    BY <1>1
  <2>2. PICK kd \in {"dir", "file", "pipe"} : kd = kind[entries[i]]
    BY <1>1
  <2>3. PICK u : u = AddNode(t, dir, name, kd)
    OBVIOUS
  <2>4. Tree(t) /\ dir \in 1 .. Len(t) /\ t[dir].kind = "dir" /\ Len(t) \in Nat
    BY DEF Tree, Rooted
  <2>5. Added(t, u, dir, name, kd)
    BY <2>3, <2>4, AddNodeIs
  <2>6. Tree(u)
    BY <2>4, <2>5, AddedTree
  <2>7. u \in Seq(NodeRecord) /\ dir \in 1 .. Len(u) /\ u[dir].kind = "dir"
    BY <2>4, <2>5 DEF Added, SameNode
  <2> QED
    BY <2>1, <2>2, <2>3, <2>6, <2>7
<1> HIDE DEF S, A
<1>4. g \in [(1 .. E) \X S -> S]
  <2>1. \A y \in (1 .. E) \X S : A(y[1], y[2]) \in S
    BY <1>3
  <2> QED
    BY <2>1
<1>5. \A i \in 1 .. E, t \in S : g[<<i, t>>] = A(i, t)
  OBVIOUS
<1> HIDE DEF g
<1>6. PICK h : IteratedTo(h, E, S, ns, g)
  BY <1>2, <1>4, Iterated
<1>7. h \in [0 .. E -> S] /\ h[0] = ns /\ \A i \in 1 .. E : h[i] = A(i, h[i - 1])
  <2>1. h \in [0 .. E -> S] /\ h[0] = ns /\ \A i \in 1 .. E : h[i] = g[<<i, h[i - 1]>>]
    BY <1>6 DEF IteratedTo
  <2>2. \A i \in 1 .. E : i - 1 \in 0 .. E /\ h[i - 1] \in S
    <3>1. \A i \in 1 .. E : i - 1 \in 0 .. E
      OBVIOUS
    <3> QED
      BY <2>1, <3>1
  <2> QED
    BY <1>5, <2>1, <2>2
<1>8. InsertTable(h, ns, dir, entries, kind)
  <2>1. h = [i \in 0 .. E |-> h[i]]
    BY <1>7
  <2>2. \A i \in 0 .. E : h[i] = IF i = 0 THEN ns ELSE A(i, h[i - 1])
    <3>1. \A i \in 0 .. E : i = 0 \/ i \in 1 .. E
      OBVIOUS
    <3> QED
      BY <1>7, <3>1
  <2>3. h = [i \in 0 .. E |-> IF i = 0 THEN ns ELSE A(i, h[i - 1])]
    BY <2>1, <2>2
  <2> QED
    BY <1>1, <2>3 DEF InsertTable, A
<1>9. InsertTable(F, ns, dir, entries, kind)
  BY <1>8
<1>10. Inserted(ns, dir, entries, kind) = F[E]
  BY <1>1 DEF Inserted, InsertTable
<1> HIDE DEF F
<1>11. F[0] = ns /\ \A i \in 1 .. E : F[i] = A(i, F[i - 1])
  <2>1. \A i \in 0 .. E : F[i] = IF i = 0 THEN ns ELSE A(i, F[i - 1])
    BY <1>1, <1>9 DEF InsertTable, A
  <2>2. 0 \in 0 .. E /\ \A i \in 1 .. E : i \in 0 .. E /\ i # 0
    OBVIOUS
  <2> QED
    BY <2>1, <2>2
<1> DEFINE T == {i \in 0 .. E : Grown(ns, F[i], dir, entries, kind, i)}
<1>12. 0 \in T
  <2>1. Len(ns) \in Nat
    BY DEF Tree, Rooted
  <2>2. Grown(ns, ns, dir, entries, kind, 0)
    BY <2>1 DEF Grown, SameNode
  <2> QED
    BY <1>11, <2>2
<1>13. ASSUME NEW i \in 1 .. E, i - 1 \in T PROVE i \in T
  <2>1. PICK t : t = F[i - 1]
    OBVIOUS
  <2>2. Grown(ns, t, dir, entries, kind, i - 1) /\ i \in Nat /\ i # 0
    BY <1>13, <2>1
  <2>3. Last(entries[i]) \in Names /\ kind[entries[i]] \in {"dir", "file", "pipe"}
    BY <1>1
  <2>4. Grown(ns, AddNode(t, dir, Last(entries[i]), kind[entries[i]]), dir, entries, kind, i)
    BY <2>2, <2>3, GrownByOne
  <2>5. F[i] = AddNode(t, dir, Last(entries[i]), kind[entries[i]])
    BY <1>11, <2>1 DEF A
  <2> QED
    BY <2>4, <2>5
<1> HIDE DEF T
<1>14. E \in T
  <2>1. \A i \in 1 .. E : i - 1 \in T => i \in T
    BY <1>13
  <2>2. \A i \in 0 .. E : i \in T
    BY <1>12, <2>1, UpTo
  <2> QED
    BY <2>2
<1> QED
  BY <1>1, <1>10, <1>14 DEF T

-----------------------------------------------------------------------------
(* The calls. *)

\* vfs_navigate_to returns a node or NULL.
LEMMA NavigateIs ==
    ASSUME NEW ns, Tree(ns), NEW cur \in 0 .. Len(ns), NEW path, Len(path) \in Nat
    PROVE  vfs_navigate_to(ns, cur, path) \in 0 .. Len(ns)
<1>1. PICK f : Walked(f, ns, cur, path)
  BY WalkIs
<1>2. Len(path) \in 0 .. Len(path)
  OBVIOUS
<1> QED
  BY <1>1, <1>2 DEF Walked

TreeState(t) ==
    /\ t \in [nodes : Seq(NodeRecord), cwd : Nat, opened : Seq(Nat),
              followed : {"none", "NULL", "children"}]
    /\ Tree(t.nodes) /\ t.cwd \in 1 .. Len(t.nodes)
    /\ \A i \in 1 .. Len(t.opened) : t.opened[i] \in 1 .. Len(t.nodes)

\* The nodes of t are still there in u.
Keeps(t, u) ==
    /\ Len(t.nodes) <= Len(u.nodes)
    /\ \A n \in 1 .. Len(t.nodes) : SameNode(u.nodes[n], t.nodes[n])

\* Keeping nodes is transitive.
LEMMA KeepsOn ==
    ASSUME NEW t, NEW u, NEW v, Len(t.nodes) \in Nat, Len(u.nodes) \in Nat, Len(v.nodes) \in Nat,
           Keeps(t, u), Keeps(u, v)
    PROVE  Keeps(t, v)
<1>1. \A n \in 1 .. Len(t.nodes) : n \in 1 .. Len(u.nodes)
  BY DEF Keeps
<1>2. Len(t.nodes) <= Len(v.nodes)
  BY DEF Keeps
<1> QED
  BY <1>1, <1>2 DEF Keeps, SameNode

\* What a call may take for granted.
LEMMA StateIs ==
    ASSUME NEW t, TreeState(t)
    PROVE  /\ t.nodes \in Seq(NodeRecord) /\ Tree(t.nodes) /\ Len(t.nodes) \in Nat /\ Len(t.nodes) >= 1
           /\ t.cwd \in 1 .. Len(t.nodes) /\ t.cwd \in 0 .. Len(t.nodes)
           /\ t.opened \in Seq(Nat) /\ t.followed \in {"none", "NULL", "children"}
           /\ Root \in 1 .. Len(t.nodes) /\ Keeps(t, t)
<1>1. t.nodes \in Seq(NodeRecord) /\ Tree(t.nodes) /\ Len(t.nodes) \in Nat /\ Len(t.nodes) >= 1
  BY DEF TreeState, Tree, Rooted
<1>2. t.cwd \in 1 .. Len(t.nodes) /\ t.cwd \in 0 .. Len(t.nodes)
  BY <1>1 DEF TreeState
<1>3. t.opened \in Seq(Nat) /\ t.followed \in {"none", "NULL", "children"}
  BY DEF TreeState
<1>4. Root \in 1 .. Len(t.nodes)
  BY <1>1 DEF Root
<1>5. Keeps(t, t)
  BY <1>1 DEF Keeps, SameNode
<1> QED
  BY <1>1, <1>2, <1>3, <1>4, <1>5

\* Where vfs_create_folder and vfs_create_pipe put a node, and how.
LEMMA CreateIs ==
    ASSUME NEW t, TreeState(t), NEW start \in 1 .. Len(t.nodes), NEW path \in Seq(Names), path # <<>>,
           NEW kind \in {"dir", "pipe"},
           NEW dir, dir = vfs_navigate_to(t.nodes, start, Front(path)),
           NEW u, u = Create(t, start, path, kind)
    PROVE  /\ TreeState(u) /\ Keeps(t, u) /\ dir \in 0 .. Len(t.nodes)
           /\ u.cwd = t.cwd /\ u.opened = t.opened
           /\ t.followed = "none" /\ dir # NULL /\ t.nodes[dir].kind = "dir" =>
                Added(t.nodes, u.nodes, dir, Last(path), kind) /\ u.followed = "none"
<1>0. /\ t.nodes \in Seq(NodeRecord) /\ Tree(t.nodes) /\ Len(t.nodes) \in Nat
      /\ t \in [nodes : Seq(NodeRecord), cwd : Nat, opened : Seq(Nat),
                followed : {"none", "NULL", "children"}]
      /\ Keeps(t, t)
  <2>1. t \in [nodes : Seq(NodeRecord), cwd : Nat, opened : Seq(Nat),
                followed : {"none", "NULL", "children"}]
    BY DEF TreeState
  <2> QED
    BY <2>1, StateIs
<1>1. Last(path) \in Names /\ Len(Front(path)) \in Nat
  <2>1. Last(path) \in Names /\ Front(path) \in Seq(Names)
    BY FrontIs
  <2> QED
    BY <2>1
<1>2. dir \in 0 .. Len(t.nodes)
  <2>1. start \in 0 .. Len(t.nodes)
    BY <1>0
  <2> QED
    BY <1>0, <1>1, <2>1, NavigateIs
<1>3. u = IF t.followed # "none" \/ dir = NULL THEN t
          ELSE IF t.nodes[dir].kind # "dir" THEN [t EXCEPT !.followed = "children"]
          ELSE [t EXCEPT !.nodes = AddNode(t.nodes, dir, Last(path), kind)]
  BY DEF Create
<1>4. CASE t.followed # "none" \/ dir = NULL
  BY <1>0, <1>2, <1>3, <1>4
<1>5. CASE ~(t.followed # "none" \/ dir = NULL) /\ t.nodes[dir].kind # "dir"
  <2>1. u = [t EXCEPT !.followed = "children"]
    BY <1>3, <1>5
  <2>2. /\ u.nodes = t.nodes /\ u.cwd = t.cwd /\ u.opened = t.opened
        /\ u \in [nodes : Seq(NodeRecord), cwd : Nat, opened : Seq(Nat),
                  followed : {"none", "NULL", "children"}]
    BY <1>0, <2>1
  <2>3. TreeState(u) /\ Keeps(t, u)
    BY <1>0, <2>2 DEF TreeState, Keeps
  <2> QED
    BY <1>2, <1>5, <2>2, <2>3
<1>6. CASE ~(t.followed # "none" \/ dir = NULL) /\ t.nodes[dir].kind = "dir"
  <2>1. PICK ns : ns = AddNode(t.nodes, dir, Last(path), kind)
    OBVIOUS
  <2>2. dir \in 1 .. Len(t.nodes)
    BY <1>0, <1>2, <1>6 DEF NULL
  <2>3. Added(t.nodes, ns, dir, Last(path), kind)
    BY <1>0, <1>1, <2>1, <2>2, AddNodeIs
  <2>4. Tree(ns)
    BY <1>0, <1>1, <1>6, <2>2, <2>3, AddedTree
  <2>5. ns \in Seq(NodeRecord) /\ Len(ns) = Len(t.nodes) + 1
        /\ \A n \in 1 .. Len(t.nodes) : SameNode(ns[n], t.nodes[n])
    BY <2>3 DEF Added
  <2>6. u = [t EXCEPT !.nodes = ns]
    BY <1>3, <1>6, <2>1
  <2>7. /\ u.nodes = ns /\ u.cwd = t.cwd /\ u.opened = t.opened /\ u.followed = t.followed
        /\ u \in [nodes : Seq(NodeRecord), cwd : Nat, opened : Seq(Nat),
                  followed : {"none", "NULL", "children"}]
    BY <1>0, <2>5, <2>6
  <2>8. \A n \in 1 .. Len(t.nodes) : n \in 1 .. Len(ns)
    BY <1>0, <2>5
  <2>9. TreeState(u) /\ Keeps(t, u)
    BY <1>0, <2>4, <2>5, <2>7, <2>8 DEF TreeState, Keeps
  <2> QED
    BY <1>2, <1>6, <2>3, <2>7, <2>9
<1> QED
  BY <1>4, <1>5, <1>6

\* What chdir does.
LEMMA ChangeDirIs ==
    ASSUME NEW t, TreeState(t), NEW path, Len(path) \in Nat,
           NEW to, to = vfs_navigate_to(t.nodes, t.cwd, path),
           NEW u, u = ChangeDir(t, path)
    PROVE  /\ TreeState(u) /\ Keeps(t, u)
           /\ u.nodes = t.nodes /\ u.opened = t.opened /\ u.followed = t.followed
           /\ t.followed = "none" /\ to # NULL => u.cwd = to
<1>1. /\ Tree(t.nodes) /\ Len(t.nodes) \in Nat /\ t.cwd \in 0 .. Len(t.nodes) /\ Keeps(t, t)
      /\ t \in [nodes : Seq(NodeRecord), cwd : Nat, opened : Seq(Nat),
                followed : {"none", "NULL", "children"}]
  <2>1. t \in [nodes : Seq(NodeRecord), cwd : Nat, opened : Seq(Nat),
                followed : {"none", "NULL", "children"}]
    BY DEF TreeState
  <2> QED
    BY <2>1, StateIs
<1>2. to \in 0 .. Len(t.nodes)
  BY <1>1, NavigateIs
<1>3. u = IF to = NULL \/ t.followed # "none" THEN t ELSE [t EXCEPT !.cwd = to]
  BY DEF ChangeDir
<1>4. CASE to = NULL \/ t.followed # "none"
  BY <1>1, <1>3, <1>4
<1>5. CASE ~(to = NULL \/ t.followed # "none")
  <2>1. to \in 1 .. Len(t.nodes) /\ to \in Nat
    BY <1>1, <1>2, <1>5 DEF NULL
  <2>2. /\ u.nodes = t.nodes /\ u.cwd = to /\ u.opened = t.opened /\ u.followed = t.followed
        /\ u \in [nodes : Seq(NodeRecord), cwd : Nat, opened : Seq(Nat),
                  followed : {"none", "NULL", "children"}]
    BY <1>1, <1>3, <1>5, <2>1
  <2>3. TreeState(u) /\ Keeps(t, u)
    BY <1>1, <2>1, <2>2 DEF TreeState, Keeps
  <2> QED
    BY <2>2, <2>3
<1> QED
  BY <1>4, <1>5

\* What open does.
LEMMA OpenIs ==
    ASSUME NEW t, TreeState(t), NEW path, Len(path) \in Nat,
           NEW file, file = vfs_navigate_to(t.nodes, t.cwd, path),
           NEW u, u = Open(t, path)
    PROVE  /\ TreeState(u) /\ Keeps(t, u)
           /\ u.nodes = t.nodes /\ u.cwd = t.cwd
           /\ t.followed = "none" /\ file # NULL =>
                u.opened = Append(t.opened, file) /\ u.followed = "none"
<1>1. /\ Tree(t.nodes) /\ Len(t.nodes) \in Nat /\ t.cwd \in 0 .. Len(t.nodes) /\ Keeps(t, t)
      /\ t.opened \in Seq(Nat)
      /\ t \in [nodes : Seq(NodeRecord), cwd : Nat, opened : Seq(Nat),
                followed : {"none", "NULL", "children"}]
  <2>1. t \in [nodes : Seq(NodeRecord), cwd : Nat, opened : Seq(Nat),
                followed : {"none", "NULL", "children"}]
    BY DEF TreeState
  <2> QED
    BY <2>1, StateIs
<1>2. file \in 0 .. Len(t.nodes)
  BY <1>1, NavigateIs
<1>3. u = IF t.followed # "none" THEN t
          ELSE IF file = NULL THEN [t EXCEPT !.followed = "NULL"]
          ELSE [t EXCEPT !.opened = Append(t.opened, file)]
  BY DEF Open
<1>4. CASE t.followed # "none"
  BY <1>1, <1>3, <1>4
<1>5. CASE t.followed = "none" /\ file = NULL
  <2>1. /\ u.nodes = t.nodes /\ u.cwd = t.cwd /\ u.opened = t.opened
        /\ u \in [nodes : Seq(NodeRecord), cwd : Nat, opened : Seq(Nat),
                  followed : {"none", "NULL", "children"}]
    BY <1>1, <1>3, <1>5
  <2>2. TreeState(u) /\ Keeps(t, u)
    BY <1>1, <2>1 DEF TreeState, Keeps
  <2> QED
    BY <1>5, <2>1, <2>2
<1>6. CASE t.followed = "none" /\ file # NULL
  <2>1. file \in 1 .. Len(t.nodes) /\ file \in Nat
    BY <1>1, <1>2, <1>6 DEF NULL
  <2>2. PICK o : o = Append(t.opened, file)
    OBVIOUS
  <2>3. /\ o \in Seq(Nat) /\ Len(o) = Len(t.opened) + 1
        /\ (\A i \in 1 .. Len(t.opened) : o[i] = t.opened[i]) /\ o[Len(t.opened) + 1] = file
    BY <1>1, <2>1, <2>2, AppendProperties
  <2>4. /\ u.nodes = t.nodes /\ u.cwd = t.cwd /\ u.opened = o /\ u.followed = t.followed
        /\ u \in [nodes : Seq(NodeRecord), cwd : Nat, opened : Seq(Nat),
                  followed : {"none", "NULL", "children"}]
    BY <1>1, <1>3, <1>6, <2>2, <2>3
  <2>5. \A i \in 1 .. Len(o) : o[i] \in 1 .. Len(t.nodes)
    <3>1. \A i \in 1 .. Len(o) : i \in 1 .. Len(t.opened) \/ i = Len(t.opened) + 1
      BY <2>3
    <3>2. \A i \in 1 .. Len(t.opened) : t.opened[i] \in 1 .. Len(t.nodes)
      BY DEF TreeState
    <3> QED
      BY <2>1, <2>3, <3>1, <3>2
  <2>6. TreeState(u) /\ Keeps(t, u)
    <3>1. Tree(u.nodes) /\ u.cwd \in 1 .. Len(u.nodes)
      BY <2>4 DEF TreeState
    <3>2. \A i \in 1 .. Len(u.opened) : u.opened[i] \in 1 .. Len(u.nodes)
      BY <2>4, <2>5
    <3> QED
      BY <1>1, <2>4, <3>1, <3>2 DEF TreeState, Keeps
  <2> QED
    BY <1>6, <2>2, <2>4, <2>6
<1> QED
  BY <1>4, <1>5, <1>6

\* The kernel's own names are names.
LEMMA KernelNames ==
    /\ "." \in Names /\ ".." \in Names /\ "proc" \in Names /\ "0" \in Names
    /\ "dev" \in Names /\ "tty_in" \in Names /\ "tty_out" \in Names
    /\ Len(Ttys) \in Nat /\ Len(Ttys) >= 1
    /\ \A i \in 1 .. Len(Ttys) : Ttys[i] \in Names /\ Ttys[i] \notin {".", ".."}
<1>1. PICK S : S = Names \ {"", ".", ".."}
  OBVIOUS
<1>2. Ttys \in Seq(S) /\ Ttys # <<>>
  BY <1>1, VfsAssumption, Zenon
<1>3. \A x \in S : x \in Names /\ x \notin {".", ".."}
  BY <1>1, Zenon
<1>4. Len(Ttys) \in Nat /\ Len(Ttys) >= 1 /\ \A i \in 1 .. Len(Ttys) : Ttys[i] \in S
  BY <1>2
<1>5. {"", ".", "..", "proc", "0", "dev", "tty_in", "tty_out"} \subseteq Names
  BY VfsAssumption, Zenon
<1>6. /\ "." \in Names /\ ".." \in Names /\ "proc" \in Names /\ "0" \in Names
      /\ "dev" \in Names /\ "tty_in" \in Names /\ "tty_out" \in Names
  BY <1>5, Zenon
<1>7. \A i \in 1 .. Len(Ttys) : Ttys[i] \in Names /\ Ttys[i] \notin {".", ".."}
  BY <1>3, <1>4, Zenon
<1> QED
  BY <1>4, <1>6, <1>7, Zenon

\* A call from t of what leads to u.
Leads(t, u) == TreeState(u) /\ Keeps(t, u)

\* Calls one after the other.
LEMMA LeadsOn ==
    ASSUME NEW t, NEW u, NEW v, TreeState(t), Leads(t, u), Leads(u, v)
    PROVE  Leads(t, v)
<1>1. TreeState(u) /\ TreeState(v) /\ Keeps(t, u) /\ Keeps(u, v)
  BY DEF Leads
<1>2. Len(t.nodes) \in Nat /\ Len(u.nodes) \in Nat /\ Len(v.nodes) \in Nat
  BY <1>1, StateIs
<1> QED
  BY <1>1, <1>2, KeepsOn DEF Leads

\* mkdir and mkfifo keep the tree.
LEMMA CreateLeads ==
    ASSUME NEW t, TreeState(t), NEW start \in 1 .. Len(t.nodes), NEW path \in Seq(Names), path # <<>>,
           NEW kind \in {"dir", "pipe"}, NEW u, u = Create(t, start, path, kind)
    PROVE  Leads(t, u) /\ u.cwd = t.cwd
<1>1. PICK dir : dir = vfs_navigate_to(t.nodes, start, Front(path))
  OBVIOUS
<1> QED
  BY <1>1, CreateIs DEF Leads

\* chdir keeps the tree.
LEMMA ChangeDirLeads ==
    ASSUME NEW t, TreeState(t), NEW path, Len(path) \in Nat, NEW u, u = ChangeDir(t, path)
    PROVE  Leads(t, u)
<1>1. PICK to : to = vfs_navigate_to(t.nodes, t.cwd, path)
  OBVIOUS
<1> QED
  BY <1>1, ChangeDirIs DEF Leads

\* One call of the start that makes a directory or a pipe.
Makes(t, start, path, kind, u) ==
    /\ TreeState(t) /\ start \in 1 .. Len(t.nodes) /\ path \in Seq(Names) /\ path # <<>>
    /\ kind \in {"dir", "pipe"} /\ u = Create(t, start, path, kind)

\* The same, with the call as one fact.
LEMMA MakesLeads ==
    ASSUME NEW t, NEW start, NEW path, NEW kind, NEW u, Makes(t, start, path, kind, u)
    PROVE  Leads(t, u)
BY CreateLeads DEF Makes

\* open keeps the tree.
LEMMA OpenLeads ==
    ASSUME NEW t, TreeState(t), NEW path, Len(path) \in Nat, NEW u, u = Open(t, path)
    PROVE  Leads(t, u)
<1>1. PICK file : file = vfs_navigate_to(t.nodes, t.cwd, path)
  OBVIOUS
<1> QED
  BY <1>1, OpenIs DEF Leads

\* The five calls of init_tty keep the tree.
LEMMA InitTtyLeads ==
    ASSUME NEW t, TreeState(t), NEW tty \in Names, NEW u, u = init_tty(t, tty)
    PROVE  Leads(t, u)
<1>1. /\ <<"dev", tty>> \in Seq(Names) /\ <<"dev", tty>> # <<>> /\ Len(<<"dev", tty>>) \in Nat
      /\ <<"tty_in">> \in Seq(Names) /\ <<"tty_in">> # <<>>
      /\ <<"tty_out">> \in Seq(Names) /\ <<"tty_out">> # <<>>
      /\ Len(<<"..", "..">>) \in Nat
  BY KernelNames
<1>2. PICK made : made = Create(t, t.cwd, <<"dev", tty>>, "dir")
  OBVIOUS
<1>3. Leads(t, made) /\ TreeState(made)
  <2>1. t.cwd \in 1 .. Len(t.nodes)
    BY StateIs
  <2>2. Makes(t, t.cwd, <<"dev", tty>>, "dir", made)
    BY <1>1, <1>2, <2>1 DEF Makes
  <2>3. Leads(t, made)
    BY <2>2, MakesLeads, Zenon
  <2> QED
    BY <2>3 DEF Leads
<1>4. PICK inside : inside = ChangeDir(made, <<"dev", tty>>)
  OBVIOUS
<1>5. Leads(made, inside) /\ TreeState(inside)
  BY <1>1, <1>3, <1>4, ChangeDirLeads DEF Leads
<1>6. PICK in : in = Create(inside, inside.cwd, <<"tty_in">>, "pipe")
  OBVIOUS
<1>7. Leads(inside, in) /\ TreeState(in)
  <2>1. inside.cwd \in 1 .. Len(inside.nodes)
    BY <1>5, StateIs
  <2>2. Makes(inside, inside.cwd, <<"tty_in">>, "pipe", in)
    BY <1>1, <1>5, <1>6, <2>1 DEF Makes
  <2>3. Leads(inside, in)
    BY <2>2, MakesLeads, Zenon
  <2> QED
    BY <2>3 DEF Leads
<1>8. PICK out : out = Create(in, in.cwd, <<"tty_out">>, "pipe")
  OBVIOUS
<1>9. Leads(in, out) /\ TreeState(out)
  <2>1. in.cwd \in 1 .. Len(in.nodes)
    BY <1>7, StateIs
  <2>2. Makes(in, in.cwd, <<"tty_out">>, "pipe", out)
    BY <1>1, <1>7, <1>8, <2>1 DEF Makes
  <2>3. Leads(in, out)
    BY <2>2, MakesLeads, Zenon
  <2> QED
    BY <2>3 DEF Leads
<1>10. u = ChangeDir(out, <<"..", "..">>)
  BY <1>2, <1>4, <1>6, <1>8 DEF init_tty
<1>11. Leads(out, u)
  BY <1>1, <1>9, <1>10, ChangeDirLeads
<1>12. Leads(t, inside)
  BY <1>3, <1>5, LeadsOn
<1>13. Leads(t, in)
  BY <1>7, <1>12, LeadsOn
<1>14. Leads(t, out)
  BY <1>9, <1>13, LeadsOn
<1> QED
  BY <1>11, <1>14, LeadsOn

\* The steps of the kernel's start, one by one.
LEMMA ScriptIs ==
    ASSUME NEW t, NEW n \in 1 .. Steps
    PROVE  /\ n = 1 => ScriptStep(t, n) = Create(t, Root, <<"proc">>, "dir")
           /\ n = 2 => ScriptStep(t, n) = Create(t, t.cwd, <<"proc", "0">>, "dir")
           /\ n = 3 => ScriptStep(t, n) = Create(t, t.cwd, <<"proc", "0", "0">>, "pipe")
           /\ n = 4 => ScriptStep(t, n) = Open(t, <<"proc", "0", "0">>)
           /\ n = 5 => ScriptStep(t, n) = Create(t, t.cwd, <<"dev">>, "dir")
           /\ n >= 6 /\ n < Steps => ScriptStep(t, n) = init_tty(t, Ttys[n - 5]) /\ n - 5 \in 1 .. Len(Ttys)
           /\ n = Steps => ScriptStep(t, n) = Open(t, <<"dev", Ttys[1], "tty_out">>)
           /\ n \in 1 .. 5 \/ (n >= 6 /\ n < Steps) \/ n = Steps
           /\ Steps \in Nat /\ Steps >= 7
<1>1. Len(Ttys) \in Nat /\ Len(Ttys) >= 1
  BY KernelNames
<1>2. Steps \in Nat /\ Steps >= 7 /\ Steps = 6 + Len(Ttys)
  BY <1>1 DEF Steps
<1>3. n \in 6 .. (Steps - 1) <=> n >= 6 /\ n < Steps
  BY <1>2
<1>4. ScriptStep(t, n) =
        CASE n = 1 -> Create(t, Root, <<"proc">>, "dir")
          [] n = 2 -> Create(t, t.cwd, <<"proc", "0">>, "dir")
          [] n = 3 -> Create(t, t.cwd, <<"proc", "0", "0">>, "pipe")
          [] n = 4 -> Open(t, <<"proc", "0", "0">>)
          [] n = 5 -> Create(t, t.cwd, <<"dev">>, "dir")
          [] n \in 6 .. (Steps - 1) -> init_tty(t, Ttys[n - 5])
          [] n = Steps -> Open(t, <<"dev", Ttys[1], "tty_out">>)
  BY DEF ScriptStep
<1> HIDE DEF Steps
<1>5. n \in 1 .. 5 \/ (n >= 6 /\ n < Steps) \/ n = Steps
  BY <1>2
<1>6. n >= 6 /\ n < Steps => n - 5 \in 1 .. Len(Ttys)
  BY <1>1, <1>2
<1>7. n >= 6 /\ n < Steps => ScriptStep(t, n) = init_tty(t, Ttys[n - 5])
  BY <1>2, <1>3, <1>4
<1>8. n = Steps => ScriptStep(t, n) = Open(t, <<"dev", Ttys[1], "tty_out">>)
  BY <1>2, <1>3, <1>4
<1>9. /\ n = 1 => ScriptStep(t, n) = Create(t, Root, <<"proc">>, "dir")
      /\ n = 2 => ScriptStep(t, n) = Create(t, t.cwd, <<"proc", "0">>, "dir")
      /\ n = 3 => ScriptStep(t, n) = Create(t, t.cwd, <<"proc", "0", "0">>, "pipe")
      /\ n = 4 => ScriptStep(t, n) = Open(t, <<"proc", "0", "0">>)
      /\ n = 5 => ScriptStep(t, n) = Create(t, t.cwd, <<"dev">>, "dir")
  BY <1>2, <1>3, <1>4
<1> QED
  BY <1>2, <1>5, <1>6, <1>7, <1>8, <1>9

\* Every step of the kernel's start keeps the tree.
LEMMA ScriptLeads ==
    ASSUME NEW t, TreeState(t), NEW n \in 1 .. Steps, NEW u, u = ScriptStep(t, n)
    PROVE  Leads(t, u)
<1>1. /\ t.cwd \in 1 .. Len(t.nodes) /\ Root \in 1 .. Len(t.nodes)
  BY StateIs
<1>2. /\ <<"proc">> \in Seq(Names) /\ <<"proc">> # <<>>
      /\ <<"proc", "0">> \in Seq(Names) /\ <<"proc", "0">> # <<>>
      /\ <<"proc", "0", "0">> \in Seq(Names) /\ <<"proc", "0", "0">> # <<>>
      /\ Len(<<"proc", "0", "0">>) \in Nat
      /\ <<"dev">> \in Seq(Names) /\ <<"dev">> # <<>>
      /\ Len(<<"dev", Ttys[1], "tty_out">>) \in Nat
  BY KernelNames
<1>3. CASE n = 1
  BY <1>1, <1>2, <1>3, ScriptIs, CreateLeads
<1>4. CASE n = 2
  BY <1>1, <1>2, <1>4, ScriptIs, CreateLeads
<1>5. CASE n = 3
  BY <1>1, <1>2, <1>5, ScriptIs, CreateLeads
<1>6. CASE n = 4
  BY <1>1, <1>2, <1>6, ScriptIs, OpenLeads
<1>7. CASE n = 5
  BY <1>1, <1>2, <1>7, ScriptIs, CreateLeads
<1>8. CASE n >= 6 /\ n < Steps
  <2>1. u = init_tty(t, Ttys[n - 5]) /\ n - 5 \in 1 .. Len(Ttys)
    BY <1>8, ScriptIs
  <2>2. PICK tty \in Names : tty = Ttys[n - 5]
    BY <2>1, KernelNames
  <2> QED
    BY <2>1, <2>2, InitTtyLeads
<1>9. CASE n = Steps
  BY <1>1, <1>2, <1>9, ScriptIs, OpenLeads
<1>10. n = 1 \/ n = 2 \/ n = 3 \/ n = 4 \/ n = 5 \/ (n >= 6 /\ n < Steps) \/ n = Steps
  <2>1. n \in 1 .. 5 \/ (n >= 6 /\ n < Steps) \/ n = Steps
    BY ScriptIs
  <2>2. n \in 1 .. 5 => n = 1 \/ n = 2 \/ n = 3 \/ n = 4 \/ n = 5
    OBVIOUS
  <2> QED
    BY <2>1, <2>2
<1> QED
  BY <1>3, <1>4, <1>5, <1>6, <1>7, <1>8, <1>9, <1>10

-----------------------------------------------------------------------------
(* Population from the disk. *)

\* t has the nodes of ns, with other children perhaps.
Extends(ns, t) ==
    /\ Len(ns) <= Len(t)
    /\ \A n \in 1 .. Len(ns) : SameNode(t[n], ns[n])

\* Their paths do not change.
LEMMA PathsKept ==
    ASSUME NEW ns, NEW t, Rooted(ns), Rooted(t), Extends(ns, t)
    PROVE  \A n \in 1 .. Len(ns) :
              /\ vfs_get_full_filepath(t, n) = vfs_get_full_filepath(ns, n)
              /\ Depth(t, n) = Depth(ns, n)
<1> DEFINE L == Len(ns)
           T == {n \in 1 .. L : vfs_get_full_filepath(t, n) = vfs_get_full_filepath(ns, n)}
           Out == {n \in 1 .. L : n \notin T}
<1>0. L \in Nat /\ Len(t) \in Nat /\ L <= Len(t) /\ L >= 1
  BY DEF Rooted, Extends
<1>1. \A n \in 1 .. L : n \in T
  <2> SUFFICES ASSUME NEW m \in 1 .. L, m \notin T PROVE FALSE
    OBVIOUS
  <2>1. Out \in SUBSET Nat /\ Out # {}
    OBVIOUS
  <2>2. PICK n \in Out : \A k \in Out : n <= k
    BY <2>1, LeastNatural
  <2>3. n \in 1 .. L /\ vfs_get_full_filepath(t, n) # vfs_get_full_filepath(ns, n)
    OBVIOUS
  <2>4. CASE n = 1
    BY <2>3, <2>4, PathIs DEF Root
  <2>5. CASE n # 1
    <3>1. n \in 2 .. Len(ns) /\ n \in 2 .. Len(t)
      BY <1>0, <2>3, <2>5
    <3>2. PICK p : p = ns[n].parent
      OBVIOUS
    <3>3. p \in 1 .. L /\ p < n /\ p \in Nat
      BY <1>0, <3>1, <3>2 DEF Rooted
    <3>4. t[n].parent = p /\ t[n].name = ns[n].name
      BY <2>3, <3>2 DEF Extends, SameNode
    <3>5. p \in T
      <4>1. ~(n <= p)
        BY <2>3, <3>3
      <4> QED
        BY <2>2, <3>3, <4>1
    <3>6. vfs_get_full_filepath(ns, n) = Append(vfs_get_full_filepath(ns, p), ns[n].name)
      BY <3>1, <3>2, PathIs
    <3>7. vfs_get_full_filepath(t, n) = Append(vfs_get_full_filepath(t, p), ns[n].name)
      BY <3>1, <3>4, PathIs
    <3> QED
      BY <2>3, <3>5, <3>6, <3>7
  <2> QED
    BY <2>4, <2>5
<1>2. ASSUME NEW n \in 1 .. L PROVE Depth(t, n) = Depth(ns, n)
  <2>1. n \in 1 .. Len(t)
    BY <1>0
  <2>2. Len(vfs_get_full_filepath(t, n)) = Depth(t, n)
    BY <2>1, PathIs
  <2>3. Len(vfs_get_full_filepath(ns, n)) = Depth(ns, n)
    BY PathIs
  <2> QED
    BY <1>1, <2>2, <2>3
<1> QED
  BY <1>1, <1>2

\* The front and the last of an extended path.
LEMMA AppendedIs ==
    ASSUME NEW a \in Seq(Names), NEW x \in Names
    PROVE  /\ Append(a, x) \in Seq(Names) /\ Append(a, x) # <<>> /\ Len(Append(a, x)) = Len(a) + 1
           /\ Front(Append(a, x)) = a /\ Last(Append(a, x)) = x
<1>1. PICK q : q = Append(a, x)
  OBVIOUS
<1>2. q \in Seq(Names) /\ q # <<>> /\ Len(q) = Len(a) + 1
  BY <1>1, AppendProperties
<1>3. PICK f : f = Front(q)
  OBVIOUS
<1>4. PICK y : y = Last(q)
  OBVIOUS
<1>5. f \in Seq(Names) /\ y \in Names /\ q = Append(f, y)
  BY <1>2, <1>3, <1>4, FrontIs
<1>6. a = f /\ x = y
  <2>1. Append(a, x) = Append(f, y)
    BY <1>1, <1>5
  <2> QED
    BY <1>5, <2>1, AppendInjective
<1> QED
  BY <1>1, <1>2, <1>3, <1>4, <1>6

\* What SubSeq(p, 1, k) is.
LEMMA PrefixIs ==
    ASSUME NEW p \in Seq(Names), NEW k \in 1 .. Len(p)
    PROVE  /\ SubSeq(p, 1, k) \in Seq(Names) /\ Len(SubSeq(p, 1, k)) = k /\ SubSeq(p, 1, k) # <<>>
           /\ \A i \in 1 .. k : SubSeq(p, 1, k)[i] = p[i]
<1>1. \A i \in 1 .. k : p[i] \in Names
  OBVIOUS
<1>2. /\ SubSeq(p, 1, k) \in Seq(Names)
      /\ Len(SubSeq(p, 1, k)) = IF 1 <= k THEN k - 1 + 1 ELSE 0
      /\ \A i \in 1 .. (k - 1 + 1) : SubSeq(p, 1, k)[i] = p[1 + i - 1]
  BY <1>1, SubSeqProperties
<1>3. k - 1 + 1 = k /\ 1 <= k /\ \A i \in 1 .. k : 1 + i - 1 = i
  OBVIOUS
<1>4. SubSeq(p, 1, k) \in Seq(Names) /\ Len(SubSeq(p, 1, k)) = k
      /\ \A i \in 1 .. k : SubSeq(p, 1, k)[i] = p[i]
  BY <1>2, <1>3
<1>5. SubSeq(p, 1, k) # <<>>
  <2>1. Len(<<>>) = 0 /\ k # 0
    OBVIOUS
  <2> QED
    BY <1>4, <2>1
<1> QED
  BY <1>4, <1>5

\* A sequence that agrees with the front of p is its front.
LEMMA FrontEquals ==
    ASSUME NEW p \in Seq(Names), p # <<>>, NEW a \in Seq(Names), Len(p) = Len(a) + 1,
           \A i \in 1 .. Len(a) : p[i] = a[i]
    PROVE  Front(p) = a
<1>1. PICK f : f = Front(p)
  OBVIOUS
<1>2. f \in Seq(Names) /\ Len(f) = Len(p) - 1 /\ \A i \in 1 .. (Len(p) - 1) : f[i] = p[i]
  BY <1>1, FrontIs
<1>3. Len(a) \in Nat /\ Len(p) - 1 = Len(a)
  OBVIOUS
<1>4. Len(f) = Len(a) /\ \A i \in 1 .. Len(f) : f[i] = a[i]
  BY <1>2, <1>3
<1>5. f = a
  BY <1>2, <1>4, SeqEqual
<1> QED
  BY <1>1, <1>5

\* What DiskAssumption says of one entry.
LEMMA EntryOnDisk ==
    ASSUME NEW d, DiskAssumption(d), NEW p \in DOMAIN d
    PROVE  /\ p \in Seq(Names) /\ p # <<>> /\ d[p] \in {"dir", "file"} /\ Last(p) \in Names
           /\ Len(p) > 1 => /\ Front(p) \in DOMAIN d /\ d[Front(p)] = "dir"
                            /\ Last(Front(p)) \notin {".", ".."}
<1>1. /\ p \in Seq(Names) /\ p # <<>> /\ d[p] \in {"dir", "file"}
      /\ Len(p) > 1 => /\ Front(p) \in DOMAIN d /\ d[Front(p)] = "dir"
                       /\ Last(Front(p)) \notin {".", ".."}
  BY Zenon DEF DiskAssumption
<1>2. Last(p) \in Names
  BY <1>1, FrontIs
<1> QED
  BY <1>1, <1>2, Zenon

\* Every directory on the way to an entry is an entry.
LEMMA PrefixOnDisk ==
    ASSUME NEW d, DiskAssumption(d), NEW p \in DOMAIN d, NEW m \in 1 .. (Len(p) - 1)
    PROVE  /\ SubSeq(p, 1, m) \in DOMAIN d /\ d[SubSeq(p, 1, m)] = "dir"
           /\ Last(SubSeq(p, 1, m)) \notin {".", ".."}
<1> DEFINE n == Len(p)
           Dir(k) == /\ SubSeq(p, 1, k) \in DOMAIN d /\ d[SubSeq(p, 1, k)] = "dir"
                     /\ Last(SubSeq(p, 1, k)) \notin {".", ".."}
           T == {j \in 0 .. (n - 1) : SubSeq(p, 1, n - j) \in DOMAIN d /\ (j # 0 => Dir(n - j))}
<1>1. p \in Seq(Names) /\ n \in Nat /\ n >= 1
  <2>1. p \in Seq(Names) /\ p # <<>>
    BY EntryOnDisk
  <2> QED
    BY <2>1
<1>2. SubSeq(p, 1, n) = p
  <2>1. n \in 1 .. n
    BY <1>1
  <2>2. PICK q : q = SubSeq(p, 1, n)
    OBVIOUS
  <2>3. q \in Seq(Names) /\ Len(q) = n /\ \A i \in 1 .. n : q[i] = p[i]
    BY <1>1, <2>1, <2>2, PrefixIs
  <2>4. q = p
    BY <1>1, <2>3, SeqEqual
  <2> QED
    BY <2>2, <2>4
<1> HIDE DEF n, Dir
<1>3. 0 \in T
  <2>1. n - 0 = n /\ 0 \in 0 .. (n - 1)
    BY <1>1
  <2>2. SubSeq(p, 1, n - 0) \in DOMAIN d
    BY <1>2, <2>1
  <2> QED
    BY <2>1, <2>2
<1>4. ASSUME NEW j \in 1 .. (n - 1), j - 1 \in T PROVE j \in T
  <2>1. PICK k : k = n - j
    OBVIOUS
  <2>2. k \in 1 .. n /\ k + 1 \in 1 .. n /\ n - (j - 1) = k + 1 /\ k + 1 > 1 /\ j \in 0 .. (n - 1)
    BY <1>1, <2>1
  <2>3. PICK r : r = SubSeq(p, 1, k + 1)
    OBVIOUS
  <2>4. r \in DOMAIN d
    BY <1>4, <2>2, <2>3
  <2>5. r \in Seq(Names) /\ Len(r) = k + 1 /\ r # <<>> /\ \A i \in 1 .. (k + 1) : r[i] = p[i]
    BY <1>1, <2>2, <2>3, PrefixIs DEF n
  <2>6. PICK q : q = SubSeq(p, 1, k)
    OBVIOUS
  <2>7. q \in Seq(Names) /\ Len(q) = k /\ \A i \in 1 .. k : q[i] = p[i]
    BY <1>1, <2>2, <2>6, PrefixIs DEF n
  <2>8. \A i \in 1 .. Len(q) : r[i] = q[i]
    <3>1. \A i \in 1 .. k : i \in 1 .. (k + 1)
      BY <2>2
    <3> QED
      BY <2>5, <2>7, <3>1
  <2>9. Front(r) = q
    <3>1. Len(r) = Len(q) + 1
      BY <2>5, <2>7
    <3> QED
      BY <2>5, <2>7, <2>8, <3>1, FrontEquals
  <2>10. q \in DOMAIN d /\ d[q] = "dir" /\ Last(q) \notin {".", ".."}
    <3>1. Len(r) > 1
      BY <2>2, <2>5
    <3> QED
      BY <2>4, <2>9, <3>1, EntryOnDisk
  <2>11. Dir(k)
    BY <2>6, <2>10 DEF Dir
  <2> QED
    BY <2>1, <2>2, <2>6, <2>10, <2>11
<1> HIDE DEF T
<1>5. \A j \in 0 .. (n - 1) : j \in T
  <2>1. n - 1 \in Nat
    BY <1>1
  <2>2. \A j \in 1 .. (n - 1) : j - 1 \in T => j \in T
    BY <1>4
  <2> QED
    BY <1>3, <2>1, <2>2, UpTo
<1>6. n - m \in 0 .. (n - 1) /\ n - m # 0 /\ n - (n - m) = m
  BY <1>1 DEF n
<1>7. Dir(m)
  BY <1>5, <1>6 DEF T
<1> QED
  BY <1>7 DEF Dir

\* DiskEntries of the disk d.
OnDisk(d, path) ==
    {p \in DOMAIN d : Len(p) = Len(path) + 1 /\ Front(p) = path /\ Last(p) \notin {".", ".."}}

\* A directory that vfs_recursive_populate still has to visit.
Waiting(ns, w) ==
    /\ w \in [node : 1 .. Len(ns), path : Seq(Names), level : Nat]
    /\ ns[w.node].kind = "dir" /\ ns[w.node].children = <<>>
    /\ vfs_get_full_filepath(ns, w.node) = w.path
    /\ w.level + Len(w.path) = MaxLevel

\* The nodes up to k are entries of the disk, each with its kind.
FromDisk(ns, d, k) ==
    \A n \in 2 .. k : /\ vfs_get_full_filepath(ns, n) \in DOMAIN d
                      /\ ns[n].kind = d[vfs_get_full_filepath(ns, n)]
                      /\ ns[n].name \notin {".", ".."}

\* No two of them are the same entry.
Distinct(ns, k) ==
    \A m, n \in 1 .. k : vfs_get_full_filepath(ns, m) = vfs_get_full_filepath(ns, n) => m = n

\* Above the deepest level an entry of the disk has a node, or is below a
\* directory that is still to be visited.
Visible(d, p) == p \in DOMAIN d /\ Len(p) <= MaxLevel + 1 /\ Last(p) \notin {".", ".."}

Below(w, p) == Len(w.path) < Len(p) /\ \A i \in 1 .. Len(w.path) : p[i] = w.path[i]

Covered(ns, W, d) ==
    \A p : Visible(d, p) =>
        \/ \E n \in 1 .. Len(ns) : vfs_get_full_filepath(ns, n) = p
        \/ \E w \in W : Below(w, p)

Populating(ns, W, d) ==
    /\ Tree(ns) /\ FromDisk(ns, d, Len(ns)) /\ Distinct(ns, Len(ns)) /\ Covered(ns, W, d)
    /\ \A w \in W : Waiting(ns, w)

\* What a listing of a directory holds.
Lists(entries, d, path) ==
    /\ Len(entries) \in Nat
    /\ \A i \in 1 .. Len(entries) :
         /\ entries[i] \in DOMAIN d /\ entries[i] = Append(path, Last(entries[i]))
         /\ Last(entries[i]) \in Names /\ Last(entries[i]) \notin {".", ".."}
         /\ d[entries[i]] \in {"dir", "file", "pipe"}
         /\ Len(entries[i]) = Len(path) + 1 /\ entries[i] \in Seq(Names)
    /\ \A i, j \in 1 .. Len(entries) : entries[i] = entries[j] => i = j
    /\ \A p \in OnDisk(d, path) : \E i \in 1 .. Len(entries) : entries[i] = p

\* DiskEntries lists a directory of the disk, each entry once.
LEMMA DiskListing ==
    ASSUME NEW d, DiskAssumption(d), NEW path
    PROVE  Lists(SetToSeq(OnDisk(d, path)), d, path)
<1>1. PICK S : S = OnDisk(d, path)
  OBVIOUS
<1>2. IsFiniteSet(S)
  <2>1. IsFiniteSet(DOMAIN d)
    BY Zenon DEF DiskAssumption
  <2>2. S \in SUBSET DOMAIN d
    BY <1>1 DEF OnDisk
  <2> QED
    BY <2>1, <2>2, FS_Subset
<1>3. PICK e : e = SetToSeq(S)
  OBVIOUS
<1>4. /\ Len(e) \in Nat
      /\ \A i \in 1 .. Len(e) : e[i] \in S
      /\ \A i, j \in 1 .. Len(e) : e[i] = e[j] => i = j
      /\ \A x \in S : \E i \in 1 .. Len(e) : e[i] = x
  BY <1>2, <1>3, ListingIs
<1>5. ASSUME NEW p \in S
      PROVE  /\ p \in DOMAIN d /\ p = Append(path, Last(p))
             /\ Last(p) \in Names /\ Last(p) \notin {".", ".."}
             /\ d[p] \in {"dir", "file", "pipe"}
             /\ Len(p) = Len(path) + 1 /\ p \in Seq(Names)
  <2>1. /\ p \in DOMAIN d /\ Len(p) = Len(path) + 1 /\ Front(p) = path /\ Last(p) \notin {".", ".."}
    BY <1>1 DEF OnDisk
  <2>2. p \in Seq(Names) /\ p # <<>> /\ d[p] \in {"dir", "file"} /\ Last(p) \in Names
    BY <2>1, EntryOnDisk
  <2>3. p = Append(Front(p), Last(p))
    BY <2>2, FrontIs
  <2> QED
    BY <2>1, <2>2, <2>3
<1>6. Lists(e, d, path)
  BY <1>1, <1>4, <1>5 DEF Lists
<1> QED
  BY <1>1, <1>3, <1>6

\* The paths of the nodes that a visit makes.
LEMMA GrownPaths ==
    ASSUME NEW ns, Tree(ns), NEW dir \in 1 .. Len(ns), NEW entries, NEW d, NEW t,
           Lists(entries, d, vfs_get_full_filepath(ns, dir)),
           Grown(ns, t, dir, entries, d, Len(entries))
    PROVE  /\ Tree(t) /\ Len(t) = Len(ns) + Len(entries) /\ Extends(ns, t)
           /\ \A n \in 1 .. Len(ns) : vfs_get_full_filepath(t, n) = vfs_get_full_filepath(ns, n)
           /\ \A i \in 1 .. Len(entries) :
                vfs_get_full_filepath(t, Len(ns) + i) = entries[i]
<1>1. /\ Tree(t) /\ Len(t) = Len(ns) + Len(entries) /\ Len(ns) \in Nat /\ Len(ns) >= 1
      /\ Len(entries) \in Nat /\ Rooted(ns) /\ Rooted(t)
  BY DEF Grown, Lists, Tree, Rooted
<1>2. Extends(ns, t)
  BY <1>1 DEF Grown, Extends
<1>3. \A n \in 1 .. Len(ns) : vfs_get_full_filepath(t, n) = vfs_get_full_filepath(ns, n)
  BY <1>1, <1>2, PathsKept
<1>4. ASSUME NEW i \in 1 .. Len(entries)
      PROVE  vfs_get_full_filepath(t, Len(ns) + i) = entries[i]
  <2>1. PICK n : n = Len(ns) + i
    OBVIOUS
  <2>2. n \in 2 .. Len(t)
    BY <1>1, <2>1
  <2>3. t[n].name = Last(entries[i]) /\ t[n].parent = dir
    <3>1. t[Len(ns) + i] = [name |-> Last(entries[i]), kind |-> d[entries[i]],
                            parent |-> dir, children |-> <<>>]
      BY DEF Grown
    <3> QED
      BY <2>1, <3>1
  <2>4. vfs_get_full_filepath(t, n) = Append(vfs_get_full_filepath(t, dir), Last(entries[i]))
    BY <1>1, <2>2, <2>3, PathIs
  <2>5. entries[i] = Append(vfs_get_full_filepath(ns, dir), Last(entries[i]))
    BY DEF Lists
  <2> QED
    BY <1>3, <2>1, <2>4, <2>5
<1> QED
  BY <1>1, <1>2, <1>3, <1>4

\* What is to be visited after the visit of w.
NextWaiting(W, w, ns, entries, d) ==
    (W \ {w}) \cup
        (IF DescendsAt(w.level)
         THEN {[node |-> Len(ns) + i, path |-> entries[i], level |-> w.level - 1] :
                   i \in {i \in 1 .. Len(entries) : d[entries[i]] = "dir"}}
         ELSE {})

\* A visit adds no entry twice: the directory had no children.
LEMMA VisitDistinct ==
    ASSUME NEW ns, NEW W, NEW d, Populating(ns, W, d), NEW w \in W,
           NEW entries, Lists(entries, d, w.path), NEW t, Grown(ns, t, w.node, entries, d, Len(entries))
    PROVE  Distinct(t, Len(t))
<1>1. Tree(ns) /\ Distinct(ns, Len(ns)) /\ Waiting(ns, w) /\ Len(ns) \in Nat /\ Len(ns) >= 1
      /\ Rooted(ns) /\ Placed(ns)
  BY DEF Populating, Tree, Rooted
<1>2. PICK dir \in 1 .. Len(ns) : dir = w.node
  BY <1>1 DEF Waiting
<1>3. vfs_get_full_filepath(ns, dir) = w.path /\ ns[dir].children = <<>>
  BY <1>1, <1>2 DEF Waiting
<1>4. PICK E \in Nat : E = Len(entries)
  BY DEF Lists
<1>5. /\ Tree(t) /\ Len(t) = Len(ns) + E
      /\ \A n \in 1 .. Len(ns) : vfs_get_full_filepath(t, n) = vfs_get_full_filepath(ns, n)
      /\ \A i \in 1 .. E : vfs_get_full_filepath(t, Len(ns) + i) = entries[i]
  BY <1>1, <1>2, <1>3, <1>4, GrownPaths
<1>6. \A n \in 1 .. Len(t) : n \in 1 .. Len(ns) \/ \E i \in 1 .. E : n = Len(ns) + i
  <2>1. \A n \in 1 .. Len(t) : n \in 1 .. Len(ns) \/ (n - Len(ns) \in 1 .. E /\ n = Len(ns) + (n - Len(ns)))
    BY <1>1, <1>5
  <2> QED
    BY <2>1
<1>7. ASSUME NEW n \in 1 .. Len(ns), NEW i \in 1 .. E
      PROVE  vfs_get_full_filepath(ns, n) # entries[i]
  <2> SUFFICES ASSUME vfs_get_full_filepath(ns, n) = entries[i] PROVE FALSE
    OBVIOUS
  <2>1. PICK y \in Names : y = Last(entries[i])
    BY <1>4 DEF Lists
  <2>2. entries[i] = Append(w.path, y) /\ w.path \in Seq(Names)
    <3>1. entries[i] = Append(w.path, y)
      BY <1>4, <2>1 DEF Lists
    <3>2. w.path \in Seq(Names)
      BY <1>1 DEF Waiting
    <3> QED
      BY <3>1, <3>2
  <2>3. n # 1
    <3>1. entries[i] # <<>>
      BY <2>2, AppendedIs
    <3>2. vfs_get_full_filepath(ns, Root) = <<>>
      BY <1>1, PathIs
    <3> QED
      BY <3>1, <3>2 DEF Root
  <2>4. n \in 2 .. Len(ns)
    BY <1>1, <2>3
  <2>5. PICK p \in 1 .. Len(ns) : p = ns[n].parent
    BY <1>1, NodeIs
  <2>6. PICK f \in Seq(Names) : f = vfs_get_full_filepath(ns, p)
    BY <1>1, PathIs
  <2>7. PICK x \in Names : x = ns[n].name
    BY <1>1, <2>4 DEF Rooted
  <2>8. vfs_get_full_filepath(ns, n) = Append(f, x)
    BY <1>1, <2>4, <2>5, <2>6, <2>7, PathIs
  <2>9. PICK g \in Seq(Names) : g = w.path
    BY <2>2
  <2>10. Append(f, x) = Append(g, y)
    BY <2>2, <2>8, <2>9
  <2>11. f = g
    BY <2>10, AppendInjective
  <2>12. p = dir
    <3>1. vfs_get_full_filepath(ns, p) = vfs_get_full_filepath(ns, dir)
      BY <1>3, <2>6, <2>9, <2>11
    <3> QED
      BY <1>1, <3>1 DEF Distinct
  <2>13. PICK k \in Nat : Child(ns, dir, k, n)
    <3>1. \E k \in Nat : Child(ns, ns[n].parent, k, n)
      BY <1>1, <2>4 DEF Placed
    <3> QED
      BY <2>5, <2>12, <3>1
  <2>14. k \in 1 .. 0
    BY <1>3, <2>13 DEF Child
  <2> QED
    BY <2>14
<1>8. ASSUME NEW m \in 1 .. Len(t), NEW n \in 1 .. Len(t),
             vfs_get_full_filepath(t, m) = vfs_get_full_filepath(t, n)
      PROVE  m = n
  <2>1. CASE m \in 1 .. Len(ns) /\ n \in 1 .. Len(ns)
    BY <1>1, <1>5, <1>8, <2>1 DEF Distinct
  <2>2. ASSUME m \in 1 .. Len(ns), NEW i \in 1 .. E, n = Len(ns) + i PROVE FALSE
    BY <1>5, <1>7, <1>8, <2>2
  <2>3. ASSUME n \in 1 .. Len(ns), NEW i \in 1 .. E, m = Len(ns) + i PROVE FALSE
    BY <1>5, <1>7, <1>8, <2>3
  <2>4. ASSUME NEW i \in 1 .. E, NEW j \in 1 .. E, m = Len(ns) + i, n = Len(ns) + j PROVE m = n
    <3>1. entries[i] = entries[j]
      BY <1>5, <1>8, <2>4
    <3>2. i = j
      BY <1>4, <3>1 DEF Lists
    <3> QED
      BY <2>4, <3>2
  <2> QED
    BY <1>6, <2>1, <2>2, <2>3, <2>4
<1> QED
  BY <1>8 DEF Distinct

\* What a visit adds is on the disk.
LEMMA VisitFromDisk ==
    ASSUME NEW ns, NEW W, NEW d, Populating(ns, W, d), NEW w \in W,
           NEW entries, Lists(entries, d, w.path), NEW t, Grown(ns, t, w.node, entries, d, Len(entries))
    PROVE  FromDisk(t, d, Len(t))
<1>1. Tree(ns) /\ FromDisk(ns, d, Len(ns)) /\ Waiting(ns, w) /\ Len(ns) \in Nat /\ Len(ns) >= 1
  BY DEF Populating, Tree, Rooted
<1>2. PICK dir \in 1 .. Len(ns) : dir = w.node /\ vfs_get_full_filepath(ns, dir) = w.path
  BY <1>1 DEF Waiting
<1>3. PICK E \in Nat : E = Len(entries)
  BY DEF Lists
<1>4. /\ Len(t) = Len(ns) + E
      /\ \A n \in 1 .. Len(ns) : vfs_get_full_filepath(t, n) = vfs_get_full_filepath(ns, n)
      /\ \A i \in 1 .. E : vfs_get_full_filepath(t, Len(ns) + i) = entries[i]
  BY <1>1, <1>2, <1>3, GrownPaths
<1>5. ASSUME NEW n \in 2 .. Len(t)
      PROVE  /\ vfs_get_full_filepath(t, n) \in DOMAIN d
             /\ t[n].kind = d[vfs_get_full_filepath(t, n)]
             /\ t[n].name \notin {".", ".."}
  <2>1. CASE n \in 1 .. Len(ns)
    <3>1. n \in 2 .. Len(ns) /\ SameNode(t[n], ns[n])
      BY <1>1, <2>1 DEF Grown
    <3> QED
      BY <1>1, <1>4, <2>1, <3>1 DEF FromDisk, SameNode
  <2>2. CASE n \notin 1 .. Len(ns)
    <3>1. PICK i \in 1 .. E : n = Len(ns) + i
      <4>1. n - Len(ns) \in 1 .. E /\ n = Len(ns) + (n - Len(ns))
        BY <1>1, <1>4, <2>2
      <4> QED
        BY <4>1
    <3>2. t[n].kind = d[entries[i]] /\ t[n].name = Last(entries[i])
      <4>1. t[Len(ns) + i] = [name |-> Last(entries[i]), kind |-> d[entries[i]],
                              parent |-> w.node, children |-> <<>>]
        BY <1>3 DEF Grown
      <4> QED
        BY <3>1, <4>1
    <3>3. entries[i] \in DOMAIN d /\ Last(entries[i]) \notin {".", ".."}
      BY <1>3 DEF Lists
    <3>4. vfs_get_full_filepath(t, n) = entries[i]
      BY <1>4, <3>1
    <3> QED
      BY <3>2, <3>3, <3>4
  <2> QED
    BY <2>1, <2>2
<1> QED
  BY <1>5 DEF FromDisk

\* The directories that wait after a visit.
LEMMA VisitWaiting ==
    ASSUME NEW ns, NEW W, NEW d, Populating(ns, W, d), NEW w \in W,
           NEW entries, Lists(entries, d, w.path), NEW t, Grown(ns, t, w.node, entries, d, Len(entries)),
           NEW u \in NextWaiting(W, w, ns, entries, d)
    PROVE  Waiting(t, u)
<1>1. /\ Tree(ns) /\ Waiting(ns, w) /\ Len(ns) \in Nat /\ Len(ns) >= 1 /\ MaxLevel \in Nat
      /\ \A v \in W : Waiting(ns, v)
  <2>1. MaxLevel \in Nat
    BY VfsAssumption, Zenon
  <2> QED
    BY <2>1 DEF Populating, Tree, Rooted
<1>2. PICK dir \in 1 .. Len(ns) : dir = w.node /\ vfs_get_full_filepath(ns, dir) = w.path
  BY <1>1 DEF Waiting
<1>3. PICK E \in Nat : E = Len(entries)
  BY DEF Lists
<1>4. /\ Len(t) = Len(ns) + E
      /\ \A n \in 1 .. Len(ns) : vfs_get_full_filepath(t, n) = vfs_get_full_filepath(ns, n)
      /\ \A i \in 1 .. E : vfs_get_full_filepath(t, Len(ns) + i) = entries[i]
  BY <1>1, <1>2, <1>3, GrownPaths
<1>5. /\ w \in [node : 1 .. Len(ns), path : Seq(Names), level : Nat]
      /\ w.level + Len(w.path) = MaxLevel
  BY <1>1 DEF Waiting
<1>6. CASE u \in W \ {w}
  <2>1. /\ u \in [node : 1 .. Len(ns), path : Seq(Names), level : Nat]
        /\ ns[u.node].kind = "dir" /\ ns[u.node].children = <<>>
        /\ vfs_get_full_filepath(ns, u.node) = u.path
        /\ u.level + Len(u.path) = MaxLevel
    BY <1>1, <1>6 DEF Waiting
  <2>2. PICK n \in 1 .. Len(ns) : n = u.node
    BY <2>1
  <2>3. n # dir
    <3> SUFFICES ASSUME n = dir PROVE FALSE
      OBVIOUS
    <3>1. u.path = w.path /\ u.node = w.node
      BY <1>2, <2>1, <2>2
    <3>2. u.level = w.level
      <4>1. PICK l \in Nat : l = Len(w.path)
        BY <1>5
      <4>2. u.level + l = MaxLevel /\ w.level + l = MaxLevel /\ u.level \in Nat /\ w.level \in Nat
        BY <1>5, <2>1, <3>1, <4>1
      <4> QED
        BY <4>2
    <3>3. u = [node |-> u.node, path |-> u.path, level |-> u.level]
      BY <2>1
    <3>4. w = [node |-> w.node, path |-> w.path, level |-> w.level]
      BY <1>5
    <3>5. u = w
      BY <3>1, <3>2, <3>3, <3>4
    <3> QED
      BY <1>6, <3>5
  <2>4. t[n].kind = "dir" /\ t[n].children = <<>>
    <3>1. SameNode(t[n], ns[n]) /\ t[n].children = ns[n].children
      BY <1>2, <2>3 DEF Grown
    <3> QED
      BY <2>1, <2>2, <3>1 DEF SameNode
  <2>5. vfs_get_full_filepath(t, n) = u.path
    BY <1>4, <2>1, <2>2
  <2>6. u \in [node : 1 .. Len(t), path : Seq(Names), level : Nat]
    <3>1. u.node \in 1 .. Len(t)
      BY <1>1, <1>4, <2>2
    <3> QED
      BY <2>1, <3>1
  <2> QED
    BY <2>1, <2>2, <2>4, <2>5, <2>6 DEF Waiting
<1>7. CASE u \notin W \ {w}
  <2>1. w.level # 0
    BY <1>7 DEF NextWaiting, DescendsAt
  <2>2. PICK i \in 1 .. E : /\ d[entries[i]] = "dir"
                            /\ u = [node |-> Len(ns) + i, path |-> entries[i], level |-> w.level - 1]
    BY <1>3, <1>7 DEF NextWaiting
  <2>3. entries[i] \in Seq(Names) /\ Len(entries[i]) = Len(w.path) + 1
    BY <1>3 DEF Lists
  <2>4. w.level - 1 \in Nat /\ Len(ns) + i \in 1 .. Len(t)
    BY <1>1, <1>4, <1>5, <2>1
  <2>5. u \in [node : 1 .. Len(t), path : Seq(Names), level : Nat]
    BY <2>2, <2>3, <2>4
  <2>6. t[Len(ns) + i].kind = "dir" /\ t[Len(ns) + i].children = <<>>
    <3>1. t[Len(ns) + i] = [name |-> Last(entries[i]), kind |-> d[entries[i]],
                            parent |-> w.node, children |-> <<>>]
      BY <1>3 DEF Grown
    <3> QED
      BY <2>2, <3>1
  <2>7. vfs_get_full_filepath(t, Len(ns) + i) = entries[i]
    BY <1>4
  <2>8. (w.level - 1) + Len(entries[i]) = MaxLevel
    <3>1. PICK l \in Nat : l = Len(w.path)
      BY <1>5
    <3>2. w.level \in Nat /\ w.level + l = MaxLevel /\ Len(entries[i]) = l + 1
      BY <1>5, <2>3, <3>1
    <3> QED
      BY <1>1, <3>2, SMTT(30)
  <2>9. u.node = Len(ns) + i /\ u.path = entries[i] /\ u.level = w.level - 1
    BY <2>2
  <2> QED
    BY <2>5, <2>6, <2>7, <2>8, <2>9 DEF Waiting
<1> QED
  BY <1>6, <1>7

\* What was below the visited directory is there now or below one of its own.
LEMMA VisitCovered ==
    ASSUME NEW ns, NEW W, NEW d, DiskAssumption(d), Populating(ns, W, d), NEW w \in W,
           NEW entries, Lists(entries, d, w.path), NEW t, Grown(ns, t, w.node, entries, d, Len(entries)),
           NEW p, Visible(d, p)
    PROVE  \/ \E n \in 1 .. Len(t) : vfs_get_full_filepath(t, n) = p
           \/ \E u \in NextWaiting(W, w, ns, entries, d) : Below(u, p)
<1>1. /\ Tree(ns) /\ Covered(ns, W, d) /\ Waiting(ns, w) /\ Len(ns) \in Nat /\ MaxLevel \in Nat
  <2>1. MaxLevel \in Nat
    BY VfsAssumption, Zenon
  <2> QED
    BY <2>1 DEF Populating, Tree, Rooted
<1>2. PICK dir \in 1 .. Len(ns) : dir = w.node /\ vfs_get_full_filepath(ns, dir) = w.path
  BY <1>1 DEF Waiting
<1>3. PICK E \in Nat : E = Len(entries)
  BY DEF Lists
<1>4. /\ Len(t) = Len(ns) + E
      /\ \A n \in 1 .. Len(ns) : vfs_get_full_filepath(t, n) = vfs_get_full_filepath(ns, n)
      /\ \A i \in 1 .. E : vfs_get_full_filepath(t, Len(ns) + i) = entries[i]
  BY <1>1, <1>2, <1>3, GrownPaths
<1>5. PICK a \in Seq(Names) : a = w.path /\ Len(a) \in Nat
  BY <1>1 DEF Waiting
<1>6. w.level \in Nat /\ w.level + Len(a) = MaxLevel
  BY <1>1, <1>5 DEF Waiting
<1>7. p \in DOMAIN d /\ p \in Seq(Names) /\ p # <<>> /\ Len(p) \in Nat /\ Len(p) <= MaxLevel + 1
      /\ Last(p) \notin {".", ".."}
  <2>1. p \in DOMAIN d /\ Len(p) <= MaxLevel + 1 /\ Last(p) \notin {".", ".."}
    BY DEF Visible
  <2>2. p \in Seq(Names) /\ p # <<>>
    BY <2>1, EntryOnDisk
  <2> QED
    BY <2>1, <2>2
<1>8. CASE \E n \in 1 .. Len(ns) : vfs_get_full_filepath(ns, n) = p
  <2>1. PICK n \in 1 .. Len(ns) : vfs_get_full_filepath(ns, n) = p
    BY <1>8
  <2>2. n \in 1 .. Len(t) /\ vfs_get_full_filepath(t, n) = p
    BY <1>1, <1>4, <2>1
  <2> QED
    BY <2>2
<1>9. CASE \E u \in W \ {w} : Below(u, p)
  BY <1>9 DEF NextWaiting
<1>10. CASE Below(w, p)
  <2>1. Len(a) < Len(p) /\ \A i \in 1 .. Len(a) : p[i] = a[i]
    BY <1>5, <1>10 DEF Below
  <2>2. CASE Len(p) = Len(a) + 1
    <3>1. Front(p) = a
      BY <1>7, <2>1, <2>2, FrontEquals
    <3>2. p \in OnDisk(d, w.path)
      BY <1>5, <1>7, <2>2, <3>1 DEF OnDisk
    <3>3. PICK i \in 1 .. E : entries[i] = p
      BY <1>3, <3>2 DEF Lists
    <3>4. Len(ns) + i \in 1 .. Len(t)
      BY <1>1, <1>4
    <3> QED
      BY <1>4, <3>3, <3>4
  <2>3. CASE Len(p) # Len(a) + 1
    <3>1. PICK m \in 1 .. (Len(p) - 1) : m = Len(a) + 1
      BY <1>5, <1>7, <2>1, <2>3
    <3>2. PICK q : q = SubSeq(p, 1, m)
      OBVIOUS
    <3>3. q \in DOMAIN d /\ d[q] = "dir" /\ Last(q) \notin {".", ".."}
      BY <1>7, <3>2, PrefixOnDisk
    <3>4. m \in 1 .. Len(p)
      BY <1>7
    <3>5. q \in Seq(Names) /\ Len(q) = m /\ q # <<>> /\ \A i \in 1 .. m : q[i] = p[i]
      BY <1>7, <3>2, <3>4, PrefixIs
    <3>6. \A i \in 1 .. Len(a) : q[i] = a[i]
      <4>1. \A i \in 1 .. Len(a) : i \in 1 .. m
        BY <1>5, <3>1
      <4> QED
        BY <2>1, <3>5, <4>1
    <3>7. Front(q) = a
      BY <3>1, <3>5, <3>6, FrontEquals
    <3>8. q \in OnDisk(d, w.path)
      BY <1>5, <3>1, <3>3, <3>5, <3>7 DEF OnDisk
    <3>9. PICK i \in 1 .. E : entries[i] = q
      BY <1>3, <3>8 DEF Lists
    <3>10. w.level # 0
      <4>1. Len(a) + 1 <= Len(p) - 1
        BY <3>1
      <4> QED
        BY <1>1, <1>5, <1>6, <1>7, <4>1
    <3>11. PICK u : u = [node |-> Len(ns) + i, path |-> entries[i], level |-> w.level - 1]
      OBVIOUS
    <3>12. u \in NextWaiting(W, w, ns, entries, d)
      <4>1. i \in {j \in 1 .. Len(entries) : d[entries[j]] = "dir"}
        BY <1>3, <3>3, <3>9
      <4> QED
        BY <3>10, <3>11, <4>1 DEF NextWaiting, DescendsAt
    <3>13. Below(u, p)
      <4>1. u.path = q
        BY <3>9, <3>11
      <4>2. m < Len(p)
        BY <1>7
      <4>3. \A j \in 1 .. m : p[j] = q[j]
        BY <3>5
      <4> QED
        BY <3>5, <4>1, <4>2, <4>3 DEF Below
    <3> QED
      BY <3>12, <3>13
  <2> QED
    BY <2>2, <2>3
<1>11. \/ \E n \in 1 .. Len(ns) : vfs_get_full_filepath(ns, n) = p
       \/ \E u \in W : Below(u, p)
  BY <1>1 DEF Covered
<1> QED
  BY <1>8, <1>9, <1>10, <1>11

\* A visit of vfs_recursive_populate.
LEMMA Visit ==
    ASSUME NEW ns, NEW W, NEW d, DiskAssumption(d), Populating(ns, W, d), NEW w \in W,
           NEW entries, Lists(entries, d, w.path), NEW t, t = Inserted(ns, w.node, entries, d)
    PROVE  Populating(t, NextWaiting(W, w, ns, entries, d), d) /\ Extends(ns, t)
<1>1. Tree(ns) /\ Waiting(ns, w)
  BY DEF Populating
<1>2. PICK dir \in 1 .. Len(ns) : dir = w.node /\ ns[dir].kind = "dir"
  BY <1>1 DEF Waiting
<1>3. /\ Len(entries) \in Nat
      /\ \A i \in 1 .. Len(entries) :
            Last(entries[i]) \in Names /\ d[entries[i]] \in {"dir", "file", "pipe"}
  BY DEF Lists
<1>4. Grown(ns, t, w.node, entries, d, Len(entries))
  BY <1>1, <1>2, <1>3, InsertedIs
<1>5. Tree(t)
  BY <1>4 DEF Grown
<1>6. Distinct(t, Len(t)) /\ FromDisk(t, d, Len(t))
  BY <1>4, VisitDistinct, VisitFromDisk
<1>7. \A u \in NextWaiting(W, w, ns, entries, d) : Waiting(t, u)
  BY <1>4, VisitWaiting
<1>8. Covered(t, NextWaiting(W, w, ns, entries, d), d)
  BY <1>4, VisitCovered DEF Covered
<1>9. Extends(ns, t)
  <2>1. vfs_get_full_filepath(ns, dir) = w.path
    BY <1>1, <1>2 DEF Waiting
  <2> QED
    BY <1>1, <1>2, <1>4, <2>1, GrownPaths
<1> QED
  BY <1>5, <1>6, <1>7, <1>8, <1>9 DEF Populating

-----------------------------------------------------------------------------
(* What the population shows. *)

\* Folding a path folds its last name.
LEMMA FoldAppended ==
    ASSUME NEW a \in Seq(Names), NEW x \in Names, NEW y \in Names, Fold[x] = Fold[y]
    PROVE  FoldPath(Append(a, x)) = FoldPath(Append(a, y))
<1>1. PICK p : p = Append(a, x)
  OBVIOUS
<1>2. PICK q : q = Append(a, y)
  OBVIOUS
<1>3. /\ p \in Seq(Names) /\ Len(p) = Len(a) + 1
      /\ (\A i \in 1 .. Len(a) : p[i] = a[i]) /\ p[Len(a) + 1] = x
  BY <1>1, AppendProperties
<1>4. /\ q \in Seq(Names) /\ Len(q) = Len(a) + 1
      /\ (\A i \in 1 .. Len(a) : q[i] = a[i]) /\ q[Len(a) + 1] = y
  BY <1>2, AppendProperties
<1>5. Len(a) \in Nat /\ \A i \in 1 .. (Len(a) + 1) : i \in 1 .. Len(a) \/ i = Len(a) + 1
  OBVIOUS
<1>6. DOMAIN p = 1 .. (Len(a) + 1) /\ DOMAIN q = 1 .. (Len(a) + 1)
  BY <1>3, <1>4
<1>7. \A i \in 1 .. (Len(a) + 1) : Fold[p[i]] = Fold[q[i]]
  BY <1>3, <1>4, <1>5
<1>8. FoldPath(p) = FoldPath(q)
  BY <1>6, <1>7 DEF FoldPath
<1> QED
  BY <1>1, <1>2, <1>8

\* Entries of one directory differ by more than their case.
LEMMA FoldApart ==
    ASSUME NEW ns, Rooted(ns), NEW d, DiskAssumption(d), NEW k \in 1 .. Len(ns),
           FromDisk(ns, d, k), Distinct(ns, k), NEW m \in 2 .. k, NEW s \in 2 .. k,
           ns[s].parent = ns[m].parent, Fold[ns[s].name] = Fold[ns[m].name]
    PROVE  s = m
<1>1. Len(ns) \in Nat /\ m \in 2 .. Len(ns) /\ s \in 2 .. Len(ns) /\ m \in 1 .. k /\ s \in 1 .. k
  BY DEF Rooted
<1>2. PICK x \in Names : x = ns[s].name
  BY <1>1 DEF Rooted
<1>3. PICK y \in Names : y = ns[m].name
  BY <1>1 DEF Rooted
<1>4. PICK p \in 1 .. Len(ns) : p = ns[m].parent
  BY <1>1, NodeIs
<1>5. PICK a \in Seq(Names) : a = vfs_get_full_filepath(ns, p)
  BY PathIs
<1>6. vfs_get_full_filepath(ns, s) = Append(a, x) /\ vfs_get_full_filepath(ns, m) = Append(a, y)
  BY <1>1, <1>2, <1>3, <1>4, <1>5, PathIs
<1>7. FoldPath(vfs_get_full_filepath(ns, s)) = FoldPath(vfs_get_full_filepath(ns, m))
  <2>1. FoldPath(Append(a, x)) = FoldPath(Append(a, y))
    BY <1>2, <1>3, FoldAppended
  <2> QED
    BY <1>6, <2>1
<1>8. vfs_get_full_filepath(ns, s) \in DOMAIN d /\ vfs_get_full_filepath(ns, m) \in DOMAIN d
  BY DEF FromDisk
<1>9. \A p1, q1 \in DOMAIN d : FoldPath(p1) = FoldPath(q1) => p1 = q1
  BY Zenon DEF DiskAssumption
<1>10. vfs_get_full_filepath(ns, s) = vfs_get_full_filepath(ns, m)
  BY <1>7, <1>8, <1>9
<1> QED
  BY <1>1, <1>10 DEF Distinct

\* A path that folds to that of an entry is like it.
LEMMA FoldedAlike ==
    ASSUME NEW d, DiskAssumption(d), NEW p \in DOMAIN d, Last(p) \notin {".", ".."},
           NEW q \in Seq(Names), FoldPath(p) = FoldPath(q)
    PROVE  Alike(q, p)
<1>1. p \in Seq(Names) /\ p # <<>> /\ Len(p) \in Nat
  <2>1. p \in Seq(Names) /\ p # <<>>
    BY EntryOnDisk
  <2> QED
    BY <2>1
<1>2. \A i \in 1 .. Len(p) : p[i] \notin {".", ".."}
  <2> SUFFICES ASSUME NEW i \in 1 .. Len(p) PROVE p[i] \notin {".", ".."}
    OBVIOUS
  <2>1. CASE i = Len(p)
    BY <1>1, <2>1, FrontIs
  <2>2. CASE i # Len(p)
    <3>1. i \in 1 .. (Len(p) - 1)
      BY <1>1, <2>2
    <3>2. PICK r : r = SubSeq(p, 1, i)
      OBVIOUS
    <3>3. Last(r) \notin {".", ".."}
      BY <3>1, <3>2, PrefixOnDisk
    <3>4. r \in Seq(Names) /\ Len(r) = i /\ r # <<>> /\ r[i] = p[i]
      <4>1. /\ r \in Seq(Names) /\ Len(r) = i /\ r # <<>> /\ \A j \in 1 .. i : r[j] = p[j]
        BY <1>1, <3>2, PrefixIs
      <4> QED
        BY <4>1
    <3>5. Last(r) = r[Len(r)]
      BY <3>4, FrontIs
    <3> QED
      BY <3>3, <3>4, <3>5
  <2> QED
    BY <2>1, <2>2
<1>3. DOMAIN p = 1 .. Len(p) /\ DOMAIN q = 1 .. Len(q) /\ Len(q) \in Nat
  BY <1>1
<1>4. DOMAIN FoldPath(p) = DOMAIN p /\ DOMAIN FoldPath(q) = DOMAIN q
  BY DEF FoldPath
<1>5. Len(q) = Len(p)
  <2>1. 1 .. Len(p) = 1 .. Len(q)
    BY <1>3, <1>4
  <2>2. \A a, b \in Nat : 1 .. a = 1 .. b => a = b
    <3> SUFFICES ASSUME NEW a \in Nat, NEW b \in Nat, 1 .. a = 1 .. b PROVE a = b
      OBVIOUS
    <3>1. (a # 0 => a \in 1 .. a) /\ (b # 0 => b \in 1 .. b)
      OBVIOUS
    <3>2. (a # 0 => a \in 1 .. b) /\ (b # 0 => b \in 1 .. a)
      BY <3>1
    <3> QED
      BY <3>2
  <2> QED
    BY <1>1, <1>3, <2>1, <2>2, Zenon
<1>6. \A i \in 1 .. Len(p) : Fold[q[i]] = Fold[p[i]]
  <2>1. \A i \in DOMAIN p : FoldPath(p)[i] = Fold[p[i]]
    BY DEF FoldPath
  <2>2. \A i \in DOMAIN q : FoldPath(q)[i] = Fold[q[i]]
    BY DEF FoldPath
  <2> QED
    BY <1>3, <1>5, <2>1, <2>2
<1>7. \A x \in Names, y \in {".", ".."} : Fold[x] = Fold[y] => x = y
  BY VfsAssumption, Zenon
<1>8. ASSUME NEW i \in 1 .. Len(p) PROVE q[i] \notin {".", ".."}
  <2>1. p[i] \in Names /\ Fold[p[i]] = Fold[q[i]]
    BY <1>1, <1>6
  <2>2. q[i] \in {".", ".."} => p[i] = q[i]
    BY <1>7, <2>1, Zenon
  <2> QED
    BY <1>2, <2>2
<1> QED
  BY <1>5, <1>6, <1>8 DEF Alike

\* No entry of the disk is taken for another of its directory.
LEMMA EntriesAlone ==
    ASSUME NEW ns, Tree(ns), NEW d, DiskAssumption(d), FromDisk(ns, d, Len(ns)), Distinct(ns, Len(ns)),
           NEW x \in 2 .. Len(ns)
    PROVE  Alone(ns, x)
<1>1. Len(ns) \in Nat /\ Rooted(ns)
  BY DEF Tree, Rooted
<1>2. PICK y \in 1 .. Len(ns) : y = ns[x].parent
  <2>1. x \in 1 .. Len(ns)
    BY <1>1
  <2> QED
    BY <1>1, <2>1, NodeIs
<1>3. ASSUME NEW i \in 1 .. Len(ns[y].children), Fold[ns[ns[y].children[i]].name] = Fold[ns[x].name]
      PROVE  ns[y].children[i] = x
  <2>1. PICK s : s = ns[y].children[i]
    OBVIOUS
  <2>2. s \in 2 .. Len(ns) /\ ns[s].parent = y
    BY <2>1, ChildrenAre
  <2>3. PICK k \in 1 .. Len(ns) : k = Len(ns)
    BY <1>1, <1>2
  <2>4. FromDisk(ns, d, k) /\ Distinct(ns, k) /\ x \in 2 .. k /\ s \in 2 .. k
    BY <2>2, <2>3
  <2>5. ns[s].parent = ns[x].parent /\ Fold[ns[s].name] = Fold[ns[x].name]
    BY <1>2, <1>3, <2>1, <2>2
  <2>6. s = x
    BY <1>1, <2>4, <2>5, FoldApart
  <2> QED
    BY <2>1, <2>6
<1> QED
  BY <1>2, <1>3 DEF Alone

\* The root is not above a node.
LEMMA BelowRoot ==
    ASSUME NEW ns, Rooted(ns), NEW m \in 1 .. Len(ns), NEW x \in Above(ns, m)
    PROVE  x \in 2 .. Len(ns)
<1>0. Len(ns) \in Nat
  BY DEF Rooted
<1>1. PICK D \in 0 .. (m - 1) : D = Depth(ns, m) /\ AtDepth(ns, m, D)
  BY DepthIs
<1>2. PICK k \in 0 .. (D - 1) : x = Ancestors(ns, m)[k]
  BY <1>1 DEF Above
<1>3. k \in 0 .. Len(ns)
  BY <1>0
<1>4. PICK f \in [0 .. Len(ns) -> 1 .. Len(ns)] : f = Ancestors(ns, m)
  BY AncestorsAre
<1>5. x \in 1 .. Len(ns)
  BY <1>2, <1>3, <1>4
<1>6. x # Root
  BY <1>1, <1>2 DEF AtDepth
<1> QED
  BY <1>0, <1>5, <1>6 DEF Root

\* With no directory left to visit the disk is listed.
LEMMA ListedWhenDone ==
    ASSUME disk \in Disks, Populating(nodes, todo, disk), todo = {}
    PROVE  DiskListed
<1> SUFFICES ASSUME NEW p \in DOMAIN disk,
                    NEW q \in DOMAIN disk \cup {FoldPath(r) : r \in DOMAIN disk},
                    Len(p) <= MaxLevel + 1, FoldPath(p) = FoldPath(q), Last(p) \notin {".", ".."},
                    NEW n, n = vfs_navigate_to(nodes, Root, q)
             PROVE  n # NULL /\ nodes[n].name = Last(p) /\ nodes[n].kind = disk[p]
  BY Zenon DEF DiskListed
<1>1. DiskAssumption(disk)
  BY VfsAssumption, Zenon
<1>2. /\ Tree(nodes) /\ Rooted(nodes) /\ Placed(nodes) /\ Len(nodes) \in Nat /\ Len(nodes) >= 1
      /\ FromDisk(nodes, disk, Len(nodes)) /\ Distinct(nodes, Len(nodes)) /\ Covered(nodes, todo, disk)
  BY DEF Populating, Tree, Rooted
<1>3. Visible(disk, p)
  BY DEF Visible
<1>4. PICK m \in 1 .. Len(nodes) : vfs_get_full_filepath(nodes, m) = p
  BY <1>2, <1>3 DEF Covered
<1>5. q \in Seq(Names)
  <2>1. CASE q \in DOMAIN disk
    BY <1>1, <2>1, EntryOnDisk
  <2>2. CASE q \notin DOMAIN disk
    <3>1. PICK r \in DOMAIN disk : q = FoldPath(r)
      BY <2>2
    <3>2. r \in Seq(Names)
      BY <1>1, EntryOnDisk
    <3>3. Fold \in [Names -> Names]
      BY VfsAssumption, Zenon
    <3>4. DOMAIN r = 1 .. Len(r) /\ Len(r) \in Nat /\ \A i \in 1 .. Len(r) : r[i] \in Names
      BY <3>2
    <3>5. \A i \in 1 .. Len(r) : Fold[r[i]] \in Names
      BY <3>3, <3>4
    <3>6. q = [i \in 1 .. Len(r) |-> Fold[r[i]]]
      BY <3>1, <3>4 DEF FoldPath
    <3>7. q \in [1 .. Len(r) -> Names]
      BY <3>5, <3>6
    <3> QED
      BY <3>4, <3>7
  <2> QED
    BY <2>1, <2>2
<1>6. Alike(q, p)
  BY <1>1, <1>5, FoldedAlike
<1>7. \A x \in 2 .. Len(nodes) : Alone(nodes, x)
  BY <1>1, <1>2, EntriesAlone
<1>8. m # 1
  <2>1. p # <<>>
    BY <1>1, EntryOnDisk
  <2>2. vfs_get_full_filepath(nodes, Root) = <<>>
    BY <1>2, PathIs
  <2> QED
    BY <1>4, <2>1, <2>2 DEF Root
<1>9. m \in 2 .. Len(nodes)
  BY <1>2, <1>8
<1>10. \A x \in Above(nodes, m) : Alone(nodes, x)
  BY <1>2, <1>7, BelowRoot
<1>11. Led(nodes, m)
  BY <1>2, <1>10, LedTo
<1>12. n = m
  BY <1>4, <1>5, <1>6, <1>11 DEF Led
<1>13. nodes[m].kind = disk[p]
  BY <1>2, <1>4, <1>9 DEF FromDisk
<1>14. nodes[m].name = Last(p)
  <2>1. PICK y \in 1 .. Len(nodes) : y = nodes[m].parent
    BY <1>2, NodeIs
  <2>2. PICK a \in Seq(Names) : a = vfs_get_full_filepath(nodes, y)
    BY <1>2, PathIs
  <2>3. PICK x \in Names : x = nodes[m].name
    BY <1>2, <1>9 DEF Rooted
  <2>4. p = Append(a, x)
    BY <1>2, <1>4, <1>9, <2>1, <2>2, <2>3, PathIs
  <2>5. Last(p) = x
    BY <2>4, AppendedIs
  <2> QED
    BY <2>3, <2>5
<1>15. m # NULL
  BY DEF NULL
<1> QED
  BY <1>12, <1>13, <1>14, <1>15

-----------------------------------------------------------------------------
(* The states of the tree. *)

TreeInv ==
    /\ disk \in Disks /\ script \in 0 .. (Steps + MaxCalls)
    /\ TreeState(Now)
    /\ script = 0 => Populating(nodes, todo, disk)
    /\ script # 0 => todo = {}

\* The root alone, with all of the disk still below it.
LEMMA TreeStart == ASSUME TreeInit PROVE TreeInv
<1>1. PICK ns : ns = nodes
  OBVIOUS
<1>2. PICK r : r = [name |-> "/", kind |-> "dir", parent |-> Root, children |-> <<>>]
  OBVIOUS
<1>3. /\ ns = <<r>> /\ disk \in Disks /\ cwd = Root /\ opened = <<>> /\ followed = "none" /\ script = 0
      /\ todo = {[node |-> Root, path |-> <<>>, level |-> MaxLevel]}
  BY <1>1, <1>2 DEF TreeInit
<1>4. r \in NodeRecord /\ r.kind = "dir" /\ r.parent = Root /\ r.children = <<>>
  BY <1>2 DEF NodeRecord, Root
<1>5. ns \in Seq(NodeRecord) /\ Len(ns) = 1 /\ ns[1] = r /\ \A n \in 2 .. Len(ns) : FALSE
  BY <1>3, <1>4
<1>6. Rooted(ns)
  BY <1>4, <1>5 DEF Rooted, Root
<1>7. \A d \in 1 .. Len(ns) : \A i, n : ~Child(ns, d, i, n)
  <2>1. \A d \in 1 .. Len(ns) : d = 1
    BY <1>5
  <2>2. Len(ns[1].children) = 0 /\ \A i : i \notin 1 .. 0
    BY <1>4, <1>5
  <2> QED
    BY <2>1, <2>2 DEF Child
<1>8. Placed(ns)
  BY <1>5, <1>7 DEF Placed
<1>9. Sorted(ns)
  <2> SUFFICES ASSUME NEW d \in 1 .. Len(ns)
               PROVE  Ordered(Keys(ns, ns[d].children), Len(ns[d].children))
    BY DEF Sorted
  <2>1. d = 1
    BY <1>5
  <2>2. PICK c : c = ns[d].children
    OBVIOUS
  <2>3. Len(c) = 0
    BY <1>4, <1>5, <2>1, <2>2
  <2>4. Ordered(Keys(ns, c), Len(c))
    BY <2>3 DEF Ordered, Keys
  <2> QED
    BY <2>2, <2>4
<1>10. Tree(ns)
  BY <1>6, <1>8, <1>9 DEF Tree
<1>11. FromDisk(ns, disk, Len(ns))
  BY <1>5 DEF FromDisk
<1>12. Distinct(ns, Len(ns))
  <2>1. \A m, n \in 1 .. Len(ns) : m = n
    BY <1>5
  <2> QED
    BY <2>1 DEF Distinct
<1>13. vfs_get_full_filepath(ns, Root) = <<>>
  BY <1>6, PathIs
<1>14. PICK w : w = [node |-> Root, path |-> <<>>, level |-> MaxLevel]
  OBVIOUS
<1>15. MaxLevel \in Nat
  BY VfsAssumption, Zenon
<1>16. Waiting(ns, w)
  <2>1. <<>> \in Seq(Names) /\ Root \in 1 .. Len(ns)
    BY <1>5 DEF Root
  <2>2. w \in [node : 1 .. Len(ns), path : Seq(Names), level : Nat]
        /\ w.node = Root /\ w.path = <<>> /\ w.level = MaxLevel
    BY <1>14, <1>15, <2>1
  <2>3. ns[Root].kind = "dir" /\ ns[Root].children = <<>>
    BY <1>4, <1>5 DEF Root
  <2>4. w.level + Len(w.path) = MaxLevel
    <3>1. Len(w.path) = 0
      BY <2>2
    <3> QED
      BY <1>15, <2>2, <3>1
  <2> QED
    BY <1>13, <2>2, <2>3, <2>4 DEF Waiting
<1>17. Covered(ns, todo, disk)
  <2> SUFFICES ASSUME NEW p, Visible(disk, p) PROVE \E v \in todo : Below(v, p)
    BY DEF Covered
  <2>1. p \in DOMAIN disk
    BY DEF Visible
  <2>2. DiskAssumption(disk)
    BY <1>3, VfsAssumption, Zenon
  <2>3. p \in Seq(Names) /\ p # <<>>
    BY <2>1, <2>2, EntryOnDisk
  <2>4. Len(p) > 0
    BY <2>3
  <2>5. w.path = <<>> /\ Len(<<>>) = 0
    BY <1>14
  <2>6. Below(w, p)
    BY <2>4, <2>5 DEF Below
  <2> QED
    BY <1>3, <1>14, <2>6
<1>18. Populating(nodes, todo, disk)
  BY <1>1, <1>3, <1>10, <1>11, <1>12, <1>14, <1>16, <1>17 DEF Populating
<1>19. TreeState(Now)
  <2>1. PICK t : t = [nodes |-> ns, cwd |-> cwd, opened |-> opened, followed |-> followed]
    OBVIOUS
  <2>2. t.nodes = ns /\ t.cwd = Root /\ t.opened = <<>> /\ t.followed = "none"
    BY <1>3, <2>1
  <2>3. t \in [nodes : Seq(NodeRecord), cwd : Nat, opened : Seq(Nat),
               followed : {"none", "NULL", "children"}]
    BY <1>3, <1>5, <2>1 DEF Root
  <2>4. TreeState(t)
    <3>1. Tree(t.nodes)
      BY <1>10, <2>2
    <3>3. t.cwd \in 1 .. Len(t.nodes)
      <4>1. t.cwd = 1 /\ Len(t.nodes) = 1
        BY <1>5, <2>2 DEF Root
      <4> QED
        BY <4>1
    <3>2. \A i \in 1 .. Len(t.opened) : FALSE
      <4>1. Len(t.opened) = 0
        BY <2>2
      <4> QED
        BY <4>1
    <3> QED
      BY <2>3, <3>1, <3>2, <3>3 DEF TreeState
  <2> QED
    BY <1>1, <2>1, <2>4 DEF Now
<1>20. 0 \in 0 .. (Steps + MaxCalls)
  <2>1. MaxCalls \in Nat
    BY VfsAssumption, Zenon
  <2>2. Len(Ttys) \in Nat
    BY KernelNames
  <2> QED
    BY <2>1, <2>2 DEF Steps
<1> QED
  BY <1>3, <1>18, <1>19, <1>20 DEF TreeInv

\* A visit keeps the invariant.
LEMMA PopulateKeeps == ASSUME TreeInv, vfs_recursive_populate PROVE TreeInv'
<1>1. PICK w \in todo :
        /\ nodes' = Inserted(nodes, w.node, DiskEntries(w.path), disk)
        /\ todo' = NextWaiting(todo, w, nodes, DiskEntries(w.path), disk)
  BY DEF vfs_recursive_populate, NextWaiting
<1>2. disk' = disk /\ cwd' = cwd /\ script' = script /\ opened' = opened /\ followed' = followed
  BY DEF vfs_recursive_populate
<1>3. disk \in Disks /\ script \in 0 .. (Steps + MaxCalls) /\ script = 0 /\ Populating(nodes, todo, disk)
      /\ TreeState(Now)
  BY <1>1 DEF TreeInv
<1>4. DiskAssumption(disk)
  BY <1>3, VfsAssumption, Zenon
<1>5. PICK entries : entries = DiskEntries(w.path)
  OBVIOUS
<1>6. Lists(entries, disk, w.path)
  <2>1. entries = SetToSeq(OnDisk(disk, w.path))
    BY <1>5 DEF DiskEntries, OnDisk
  <2> QED
    BY <1>4, <2>1, DiskListing
<1>7. PICK t : t = Inserted(nodes, w.node, entries, disk)
  OBVIOUS
<1>8. Populating(t, NextWaiting(todo, w, nodes, entries, disk), disk) /\ Extends(nodes, t)
  BY <1>3, <1>4, <1>6, <1>7, Visit
<1>9. Populating(nodes', todo', disk')
  BY <1>1, <1>2, <1>5, <1>7, <1>8
<1>10. PICK u : u = [nodes |-> t, cwd |-> cwd, opened |-> opened, followed |-> followed]
  OBVIOUS
<1>11. TreeState(u)
  <2>1. PICK v : v = Now
    OBVIOUS
  <2>2. /\ v.nodes = nodes /\ v.cwd = cwd /\ v.opened = opened /\ v.followed = followed
        /\ v \in [nodes : Seq(NodeRecord), cwd : Nat, opened : Seq(Nat),
                  followed : {"none", "NULL", "children"}]
        /\ v.cwd \in 1 .. Len(v.nodes)
        /\ \A i \in 1 .. Len(v.opened) : v.opened[i] \in 1 .. Len(v.nodes)
    BY <1>3, <2>1 DEF TreeState, Now
  <2>3. Tree(t) /\ t \in Seq(NodeRecord) /\ Len(t) \in Nat /\ Len(nodes) <= Len(t) /\ Len(nodes) \in Nat
    BY <1>3, <1>8 DEF Populating, Tree, Rooted, Extends
  <2>4. \A x \in 1 .. Len(nodes) : x \in 1 .. Len(t)
    BY <2>3
  <2>5. u.nodes = t /\ u.cwd = cwd /\ u.opened = opened /\ u.followed = followed
    BY <1>10
  <2>6. u \in [nodes : Seq(NodeRecord), cwd : Nat, opened : Seq(Nat),
               followed : {"none", "NULL", "children"}]
    BY <1>10, <2>2, <2>3
  <2> QED
    BY <2>2, <2>3, <2>4, <2>5, <2>6 DEF TreeState
<1>12. TreeState(Now')
  BY <1>1, <1>2, <1>5, <1>7, <1>10, <1>11 DEF Now
<1>13. TreeState(Now)'
  BY <1>12 DEF TreeState, Tree, Rooted, Placed, Sorted, Now, Child
<1> QED
  BY <1>2, <1>3, <1>9, <1>13 DEF TreeInv

\* A call that leads from the tree of a state to t, and takes the state with it.
LEMMA CallKeeps ==
    ASSUME TreeInv, NEW t, TreeState(t), Becomes(t), disk' = disk, todo' = todo, todo = {},
           script' \in 0 .. (Steps + MaxCalls), script' # 0
    PROVE  TreeInv'
<1>1. PICK u : u = Now
  OBVIOUS
<1>2. nodes' = t.nodes /\ cwd' = t.cwd /\ opened' = t.opened /\ followed' = t.followed
  BY DEF Becomes
<1>3. t \in [nodes : Seq(NodeRecord), cwd : Nat, opened : Seq(Nat),
             followed : {"none", "NULL", "children"}]
  BY DEF TreeState
<1>4. t = [nodes |-> t.nodes, cwd |-> t.cwd, opened |-> t.opened, followed |-> t.followed]
  BY <1>3
<1>5. Now' = t
  BY <1>2, <1>4 DEF Now
<1>6. TreeState(Now')
  BY <1>5
<1>7. TreeState(Now)'
  BY <1>6 DEF TreeState, Tree, Rooted, Placed, Sorted, Now, Child
<1>8. disk' \in Disks
  BY DEF TreeInv
<1> QED
  BY <1>7, <1>8 DEF TreeInv

\* What the invariant says of a state in which a call may come.
LEMMA StartedIs ==
    ASSUME TreeInv
    PROVE  /\ TreeState(Now) /\ script \in Nat /\ Steps \in Nat /\ Steps >= 7 /\ MaxCalls \in Nat
           /\ script # 0 => todo = {}
           /\ cwd \in 1 .. Len(Now.nodes)
           /\ Now.cwd = cwd
<1>1. Len(Ttys) \in Nat /\ Len(Ttys) >= 1
  BY KernelNames
<1>2. Steps \in Nat /\ Steps >= 7
  BY <1>1 DEF Steps
<1>3. MaxCalls \in Nat
  BY VfsAssumption, Zenon
<1>4. script \in Nat /\ TreeState(Now) /\ (script # 0 => todo = {})
  BY <1>2, <1>3 DEF TreeInv
<1>5. PICK t : t = Now
  OBVIOUS
<1>6. t.cwd = cwd
  BY <1>5 DEF Now
<1>7. t.cwd \in 1 .. Len(t.nodes)
  BY <1>4, <1>5, StateIs
<1> QED
  BY <1>2, <1>3, <1>4, <1>5, <1>6, <1>7

\* What the calls are called with.
LEMMA PathsAre == ASSUME NEW path \in Paths PROVE path \in Seq(Names) /\ path # <<>> /\ Len(path) \in Nat
<1>1. path \in Seq(Names) /\ path # <<>>
  BY VfsAssumption, Zenon
<1> QED
  BY <1>1

\* Every step keeps the invariant.
LEMMA TreeStep == ASSUME TreeInv, [TreeNext]_treeVars PROVE TreeInv'
<1>1. CASE vfs_recursive_populate
  BY <1>1, PopulateKeeps
<1>2. PICK t : t = Now
  OBVIOUS
<1>3. /\ TreeState(t) /\ script \in Nat /\ Steps \in Nat /\ Steps >= 7 /\ MaxCalls \in Nat
      /\ (script # 0 => todo = {}) /\ cwd \in 1 .. Len(t.nodes) /\ t.cwd = cwd
  BY <1>2, StartedIs
<1> HIDE DEF Steps
<1>4. CASE KernelStart
  <2>1. /\ todo = {} /\ script < Steps /\ Becomes(ScriptStep(t, script + 1))
        /\ script' = script + 1 /\ disk' = disk /\ todo' = todo
    BY <1>2, <1>4 DEF KernelStart
  <2>2. PICK n \in 1 .. Steps : n = script + 1
    BY <1>3, <2>1
  <2>3. PICK u : u = ScriptStep(t, n)
    OBVIOUS
  <2>4. TreeState(u)
    BY <1>3, <2>3, ScriptLeads DEF Leads
  <2>5. Becomes(u)
    BY <2>1, <2>2, <2>3
  <2>6. script' \in 0 .. (Steps + MaxCalls) /\ script' # 0
    BY <1>3, <2>1
  <2> QED
    BY <2>1, <2>4, <2>5, <2>6, CallKeeps
<1>5. ASSUME NEW path \in Paths, NEW kind \in {"dir", "pipe"}, Started, script < Steps + MaxCalls,
             Becomes(Create(t, cwd, path, kind)), script' = script + 1, disk' = disk, todo' = todo
      PROVE  TreeInv'
  <2>1. PICK u : u = Create(t, cwd, path, kind)
    OBVIOUS
  <2>2. PICK c \in 1 .. Len(t.nodes) : c = cwd
    BY <1>3
  <2>3. TreeState(u)
    BY <1>3, <2>1, <2>2, PathsAre, CreateLeads DEF Leads
  <2>4. script' \in 0 .. (Steps + MaxCalls) /\ script' # 0 /\ todo = {}
    BY <1>3, <1>5 DEF Started
  <2> QED
    BY <1>5, <2>1, <2>3, <2>4, CallKeeps
<1>6. CASE \E path \in Paths : mkdir(path)
  BY <1>2, <1>5, <1>6 DEF mkdir
<1>7. CASE \E path \in Paths : mkfifo(path)
  BY <1>2, <1>5, <1>7 DEF mkfifo
<1>8. CASE \E path \in Paths : chdir(path)
  <2>1. PICK path \in Paths : chdir(path)
    BY <1>8
  <2>2. /\ Started /\ Becomes(ChangeDir(t, path))
        /\ script' = script /\ disk' = disk /\ todo' = todo
    BY <1>2, <2>1 DEF chdir
  <2>3. PICK u : u = ChangeDir(t, path)
    OBVIOUS
  <2>4. TreeState(u)
    BY <1>3, <2>3, PathsAre, ChangeDirLeads DEF Leads
  <2>5. script' \in 0 .. (Steps + MaxCalls) /\ script' # 0 /\ todo = {}
    BY <1>3, <2>2 DEF Started, TreeInv
  <2> QED
    BY <2>2, <2>3, <2>4, <2>5, CallKeeps
<1>9. CASE UNCHANGED treeVars
  <2>1. /\ nodes' = nodes /\ cwd' = cwd /\ opened' = opened /\ followed' = followed
        /\ disk' = disk /\ todo' = todo /\ script' = script
    BY <1>9 DEF treeVars
  <2>2. Now' = Now
    BY <2>1 DEF Now
  <2>3. TreeState(Now')
    BY <2>2 DEF TreeInv
  <2>4. TreeState(Now)'
    BY <2>3 DEF TreeState, Tree, Rooted, Placed, Sorted, Now, Child
  <2>5. script = 0 => Populating(nodes', todo', disk')
    BY <2>1 DEF TreeInv
  <2> QED
    BY <2>1, <2>4, <2>5 DEF TreeInv
<1> QED
  BY <1>1, <1>4, <1>6, <1>7, <1>8, <1>9 DEF TreeNext

\* So it always holds.
LEMMA TreeAlways == TreeSpec => []TreeInv
<1>1. TreeInit => TreeInv
  BY TreeStart
<1>2. TreeInv /\ [TreeNext]_treeVars => TreeInv'
  BY TreeStep
<1> QED
  BY <1>1, <1>2, PTL DEF TreeSpec

\* What getcwd prints leads back, for every disk and whatever mkdir, mkfifo and
\* chdir are called with: every step keeps the tree, and in a tree it does.
THEOREM PathsLeadHome == TreeSpec => []PathsLeadBack
<1>1. TreeInv => PathsLeadBack
  <2> SUFFICES ASSUME TreeInv PROVE PathsLeadBack
    OBVIOUS
  <2>1. PICK t : t = Now
    OBVIOUS
  <2>2. t.nodes = nodes
    BY <2>1 DEF Now
  <2>3. Tree(t.nodes)
    BY <2>1, StateIs DEF TreeInv
  <2> QED
    BY <2>2, <2>3, TreeLeadsBack
<1> QED
  BY <1>1, TreeAlways, PTL

\* vfs_recursive_populate shows the disk as it is, in whatever order it visits
\* the directories: what is below none of those that wait has its node.
THEOREM WholeDiskListed == TreeSpec => []DiskListed
<1>1. TreeInv => DiskListed
  <2> SUFFICES ASSUME TreeInv, todo = {}, script = 0 PROVE DiskListed
    BY DEF DiskListed
  <2> QED
    BY ListedWhenDone DEF TreeInv
<1> QED
  BY <1>1, TreeAlways, PTL

\* A sequence whose elements all lie in T is a sequence over T.
LEMMA RangedSeq ==
    ASSUME NEW S, NEW T, NEW s \in Seq(S), \A i \in 1 .. Len(s) : s[i] \in T
    PROVE  s \in Seq(T)
  OBVIOUS

\* The nodes of a tree refer to nodes of it.
LEMMA NodesTyped ==
    ASSUME NEW ns, Tree(ns)
    PROVE  ns \in Seq([name : Names \cup {"/"}, kind : {"dir", "file", "pipe"},
                       parent : DOMAIN ns, children : Seq(DOMAIN ns)])
<1>1. ns \in Seq(NodeRecord) /\ Len(ns) \in Nat /\ DOMAIN ns = 1 .. Len(ns) /\ Rooted(ns)
  BY DEF Tree, Rooted
<1>2. PICK R : R = [name : Names \cup {"/"}, kind : {"dir", "file", "pipe"},
                    parent : 1 .. Len(ns), children : Seq(1 .. Len(ns))]
  OBVIOUS
<1>3. ASSUME NEW n \in 1 .. Len(ns) PROVE ns[n] \in R
  <2>1. PICK r : r = ns[n]
    OBVIOUS
  <2>2. r \in NodeRecord /\ r.parent \in 1 .. Len(ns) /\ r.children \in Seq(Nat)
    BY <1>1, <2>1, NodeIs
  <2>3. PICK c : c = r.children
    OBVIOUS
  <2>4. \A i \in 1 .. Len(c) : c[i] \in 1 .. Len(ns)
    <3> SUFFICES ASSUME NEW i \in 1 .. Len(c) PROVE c[i] \in 1 .. Len(ns)
      OBVIOUS
    <3>1. i \in Nat /\ Child(ns, n, i, c[i])
      BY <2>1, <2>2, <2>3 DEF Child
    <3>2. c[i] \in 2 .. Len(ns)
      BY <3>1 DEF Tree, Placed
    <3> QED
      BY <1>1, <3>2
  <2>5. c \in Seq(1 .. Len(ns))
    <3>1. c \in Seq(Nat)
      BY <2>2, <2>3
    <3> QED
      BY <2>4, <3>1, RangedSeq
  <2> QED
    BY <1>2, <2>1, <2>2, <2>3, <2>5 DEF NodeRecord
<1>4. ns \in Seq(R)
  BY <1>1, <1>3
<1> QED
  BY <1>1, <1>2, <1>4

\* The nodes, the working directory and what the kernel has opened keep their types.
THEOREM TreeTyped == TreeSpec => []TreeTypeOK
<1>1. TreeInv => TreeTypeOK
  <2> SUFFICES ASSUME TreeInv PROVE TreeTypeOK
    OBVIOUS
  <2>1. PICK t : t = Now
    OBVIOUS
  <2>2. t.nodes = nodes /\ t.cwd = cwd /\ t.opened = opened /\ t.followed = followed
    BY <2>1 DEF Now
  <2>3. TreeState(t)
    BY <2>1 DEF TreeInv
  <2>4. Tree(nodes) /\ cwd \in 1 .. Len(nodes) /\ Len(nodes) \in Nat /\ nodes \in Seq(NodeRecord)
        /\ opened \in Seq(Nat) /\ followed \in {"none", "NULL", "children"}
    BY <2>2, <2>3, StateIs
  <2>5. DOMAIN nodes = 1 .. Len(nodes)
    BY <2>4
  <2>6. \A i \in 1 .. Len(opened) : opened[i] \in 1 .. Len(nodes)
    BY <2>2, <2>3 DEF TreeState
  <2>7. opened \in Seq(1 .. Len(nodes))
    BY <2>4, <2>6
  <2>8. ASSUME NEW d \in todo PROVE d.node \in DOMAIN nodes /\ d.level \in 0 .. MaxLevel
    <3>1. script = 0
      BY <2>8 DEF TreeInv
    <3>2. Waiting(nodes, d)
      BY <2>8, <3>1 DEF TreeInv, Populating
    <3>3. MaxLevel \in Nat
      BY VfsAssumption, Zenon
    <3>4. d.node \in 1 .. Len(nodes) /\ d.level \in Nat /\ d.path \in Seq(Names)
          /\ d.level + Len(d.path) = MaxLevel
      BY <3>2 DEF Waiting
    <3>5. Len(d.path) \in Nat
      BY <3>4
    <3> QED
      BY <2>5, <3>3, <3>4, <3>5
  <2>9. disk \in Disks /\ script \in 0 .. (Steps + MaxCalls)
    BY DEF TreeInv
  <2> QED
    BY <2>4, <2>5, <2>7, <2>8, <2>9, NodesTyped DEF TreeTypeOK
<1> QED
  BY <1>1, TreeAlways, PTL

-----------------------------------------------------------------------------
(* The first of the children that a name may stand for. *)

\* i is the place of the first child of d whose name folds to y.
FirstIn(ns, d, y, i) ==
    /\ i \in 1 .. Len(ns[d].children) /\ Fold[ns[ns[d].children[i]].name] = y
    /\ \A j \in 1 .. Len(ns[d].children) : j < i => Fold[ns[ns[d].children[j]].name] # y

\* It is what a lookup returns.
LEMMA FirstFound ==
    ASSUME NEW ns, Tree(ns), NEW d \in 1 .. Len(ns), ns[d].kind = "dir",
           NEW name, name \notin {".", ".."}, NEW i, FirstIn(ns, d, Fold[name], i)
    PROVE  /\ Step(ns, d, name) = ns[d].children[i]
           /\ Step(ns, d, name) \in 2 .. Len(ns) /\ Step(ns, d, name) # NULL
<1>1. PICK e : e = vfs_get_single_entry_from_dir(ns, d, name)
  OBVIOUS
<1>2. i \in Found(ns, d, name)
  BY DEF FirstIn, Found
<1>3. PICK k \in Found(ns, d, name) :
         /\ \A j \in Found(ns, d, name) : k <= j
         /\ e = ns[d].children[k] /\ e \in 2 .. Len(ns)
  BY <1>1, <1>2, EntryIs
<1>4. Len(ns[d].children) \in Nat /\ Len(ns) \in Nat
  BY ChildrenAre DEF Tree, Rooted
<1>5. k \in 1 .. Len(ns[d].children) /\ Fold[ns[ns[d].children[k]].name] = Fold[name]
  BY <1>3 DEF Found
<1>6. ~(k < i)
  BY <1>5 DEF FirstIn
<1>7. k = i
  <2>1. i \in 1 .. Len(ns[d].children)
    BY DEF FirstIn
  <2>2. k \in Int /\ i \in Int
    BY <1>4, <1>5, <2>1
  <2>3. k <= i
    BY <1>2, <1>3
  <2> QED
    BY <1>6, <2>2, <2>3
<1>8. d # NULL
  BY DEF NULL
<1> QED
  BY <1>1, <1>3, <1>4, <1>7, <1>8 DEF Step, NULL

\* The i-th child of d is the first with name, as lookup compares names.
FirstAt(ns, d, name, i) ==
    /\ Tree(ns) /\ d \in 1 .. Len(ns) /\ ns[d].kind = "dir" /\ name \notin {".", ".."}
    /\ FirstIn(ns, d, Fold[name], i)

\* The same, with the place as one fact.
LEMMA FirstIsFound ==
    ASSUME NEW ns, NEW d, NEW name, NEW i, FirstAt(ns, d, name, i)
    PROVE  Step(ns, d, name) = ns[d].children[i]
BY FirstFound DEF FirstAt

\* And a lookup that returns a node returns that one.
LEMMA FoundFirst ==
    ASSUME NEW ns, Tree(ns), NEW d \in 1 .. Len(ns), ns[d].kind = "dir",
           NEW name, name \notin {".", ".."}, Step(ns, d, name) # NULL
    PROVE  \E i : FirstIn(ns, d, Fold[name], i) /\ Step(ns, d, name) = ns[d].children[i]
<1>1. PICK e : e = vfs_get_single_entry_from_dir(ns, d, name)
  OBVIOUS
<1>2. Step(ns, d, name) = e
  BY <1>1 DEF Step, NULL
<1>3. Found(ns, d, name) # {}
  BY <1>1, <1>2, EntryIs
<1>4. PICK k \in Found(ns, d, name) :
         /\ \A j \in Found(ns, d, name) : k <= j
         /\ e = ns[d].children[k]
  BY <1>1, <1>3, EntryIs
<1>5. Len(ns[d].children) \in Nat
  BY ChildrenAre
<1>6. k \in 1 .. Len(ns[d].children) /\ Fold[ns[ns[d].children[k]].name] = Fold[name]
  BY <1>4 DEF Found
<1>7. ASSUME NEW j \in 1 .. Len(ns[d].children), j < k
      PROVE  Fold[ns[ns[d].children[j]].name] # Fold[name]
  <2>1. j \notin Found(ns, d, name)
    BY <1>4, <1>5, <1>6, <1>7
  <2> QED
    BY <2>1 DEF Found
<1>8. FirstIn(ns, d, Fold[name], k)
  BY <1>6, <1>7 DEF FirstIn
<1> QED
  BY <1>2, <1>4, <1>8

\* A node that is not a directory has no entries, and neither has NULL.
LEMMA NoEntry ==
    ASSUME NEW ns, Tree(ns), NEW d \in 0 .. Len(ns), NEW name, Step(ns, d, name) # NULL
    PROVE  d \in 1 .. Len(ns) /\ ns[d].kind = "dir"
<1>1. d # NULL
  BY DEF Step
<1>2. d \in 1 .. Len(ns)
  BY <1>1 DEF NULL, Tree, Rooted
<1>3. PICK e : e = vfs_get_single_entry_from_dir(ns, d, name)
  OBVIOUS
<1>4. e # NULL
  BY <1>1, <1>3 DEF Step
<1> QED
  BY <1>2, <1>3, <1>4, EntryIs

\* Where a step leads: to a child whose name folds to the name.
LEMMA StepDownTo ==
    ASSUME NEW ns, Tree(ns), NEW d \in 0 .. Len(ns), NEW name, name \notin {".", ".."},
           NEW e, e = Step(ns, d, name), e # NULL
    PROVE  /\ d \in 1 .. Len(ns) /\ ns[d].kind = "dir"
           /\ e \in 2 .. Len(ns) /\ e \in 1 .. Len(ns) /\ ns[e].parent = d /\ e # d
           /\ ns[e].name \in Names /\ Fold[ns[e].name] = Fold[name]
           /\ vfs_get_full_filepath(ns, e) = Append(vfs_get_full_filepath(ns, d), ns[e].name)
<1>1. d \in 1 .. Len(ns) /\ ns[d].kind = "dir" /\ Rooted(ns) /\ Len(ns) \in Nat
  BY NoEntry DEF Tree, Rooted
<1>2. PICK i : FirstIn(ns, d, Fold[name], i) /\ e = ns[d].children[i]
  BY <1>1, FoundFirst
<1>3. i \in 1 .. Len(ns[d].children) /\ Fold[ns[e].name] = Fold[name]
  BY <1>2 DEF FirstIn
<1>4. e \in 2 .. Len(ns) /\ e \in 1 .. Len(ns) /\ ns[e].parent = d /\ ns[e].name \in Names
  <2>1. ChildAt(ns, d, i, e)
    BY <1>1, <1>2, <1>3 DEF ChildAt
  <2> QED
    BY <2>1, ChildIs DEF ChildOf
<1>5. ns[e].parent \in 1 .. (e - 1)
  BY <1>1, <1>4 DEF Rooted
<1>6. e # d
  BY <1>1, <1>4, <1>5
<1>7. vfs_get_full_filepath(ns, e) = Append(vfs_get_full_filepath(ns, d), ns[e].name)
  BY <1>1, <1>4, PathIs
<1> QED
  BY <1>1, <1>3, <1>4, <1>6, <1>7

\* A step down from d to the node e, and what that says.
StepsTo(ns, d, name, e) ==
    /\ Tree(ns) /\ d \in 0 .. Len(ns) /\ name \notin {".", ".."}
    /\ e = Step(ns, d, name) /\ e # NULL
StepsInto(ns, d, name, e) ==
    /\ e \in 2 .. Len(ns) /\ e \in 1 .. Len(ns) /\ ns[e].parent = d /\ e # d
    /\ Fold[ns[e].name] = Fold[name]

\* The same, with the step as one fact.
LEMMA StepBelow ==
    ASSUME NEW ns, NEW d, NEW name, NEW e, StepsTo(ns, d, name, e)
    PROVE  StepsInto(ns, d, name, e)
BY StepDownTo DEF StepsTo, StepsInto

\* The children of d before and after Added: those from s + 1 on have moved up
\* by one, those before are not greater than x, and behind is an equal one if
\* there is any.
Place(ns, t, d, x, s) ==
    /\ s \in 0 .. Len(ns[d].children) /\ Len(t[d].children) = Len(ns[d].children) + 1
    /\ t[d].children[s + 1] = Len(ns) + 1 /\ t[Len(ns) + 1].name = x
    /\ \A i \in 1 .. Len(ns[d].children) :
         LET j == IF i <= s THEN i ELSE i + 1
         IN  t[d].children[j] = ns[d].children[i]
             /\ t[t[d].children[j]].name = ns[ns[d].children[i]].name
    /\ \A i \in 1 .. s : Rank(ns[ns[d].children[i]].name) <= Rank(x)
    /\ (\E i \in 1 .. Len(ns[d].children) : Rank(ns[ns[d].children[i]].name) = Rank(x)) =>
         s < Len(ns[d].children) /\ Rank(ns[ns[d].children[s + 1]].name) = Rank(x)

\* Adding a node puts it at such a place.
LEMMA AddedPlace ==
    ASSUME NEW ns, Tree(ns), NEW d \in 1 .. Len(ns), NEW x, NEW kind, NEW t, Added(ns, t, d, x, kind)
    PROVE  \E s \in Nat : Place(ns, t, d, x, s)
<1>1. PICK c \in Seq(Nat) : c = ns[d].children /\ Len(c) \in Nat
  BY ChildrenAre
<1>2. PICK e : e = t[d].children
  OBVIOUS
<1>3. PICK s \in Nat : Inserts(c, e, Len(ns) + 1, s, Keys(ns, c), Rank(x))
  BY <1>1, <1>2 DEF Added
<1>4. Len(ns) \in Nat
  BY DEF Tree, Rooted
<1>5. /\ s \in 0 .. Len(c) /\ Len(e) = Len(c) + 1
      /\ \A i \in 1 .. (Len(c) + 1) :
           e[i] = IF i < s + 1 THEN c[i] ELSE IF i = s + 1 THEN Len(ns) + 1 ELSE c[i - 1]
  BY <1>3 DEF Inserts
<1>6. e[s + 1] = Len(ns) + 1
  BY <1>1, <1>5
<1>7. t[Len(ns) + 1].name = x
  <2>1. t[Len(ns) + 1] = [name |-> x, kind |-> kind, parent |-> d, children |-> <<>>]
    BY DEF Added
  <2> QED
    BY <2>1
<1>8. ASSUME NEW i \in 1 .. Len(c), NEW j, j = IF i <= s THEN i ELSE i + 1
      PROVE  e[j] = c[i] /\ t[e[j]].name = ns[c[i]].name
  <2>1. e[j] = c[i]
    <3>1. CASE i <= s
      <4>1. j = i /\ i \in 1 .. (Len(c) + 1) /\ i < s + 1
        BY <1>1, <1>8, <3>1
      <4> QED
        BY <1>5, <4>1
    <3>2. CASE ~(i <= s)
      <4>1. j = i + 1 /\ j \in 1 .. (Len(c) + 1) /\ ~(j < s + 1) /\ j # s + 1 /\ j - 1 = i
        BY <1>1, <1>5, <1>8, <3>2
      <4> QED
        BY <1>5, <4>1
    <3> QED
      BY <3>1, <3>2
  <2>2. c[i] \in 1 .. Len(ns)
    BY <1>1, ChildrenAre
  <2>3. SameNode(t[c[i]], ns[c[i]])
    BY <2>2 DEF Added
  <2> QED
    BY <2>1, <2>3 DEF SameNode
<1>9. \A i \in 1 .. Len(c) : Keys(ns, c)[i] = Rank(ns[c[i]].name)
  BY <1>1 DEF Keys
<1>10. \A i \in 1 .. s : Rank(ns[c[i]].name) <= Rank(x)
  <2>1. \A i \in 1 .. s : Keys(ns, c)[i] <= Rank(x) /\ i \in 1 .. Len(c)
    BY <1>1, <1>3, <1>5 DEF Inserts
  <2> QED
    BY <1>9, <2>1
<1>11. ASSUME \E i \in 1 .. Len(c) : Rank(ns[c[i]].name) = Rank(x)
       PROVE  s < Len(c) /\ Rank(ns[c[s + 1]].name) = Rank(x)
  <2>1. \E i \in 1 .. Len(c) : Keys(ns, c)[i] = Rank(x)
    BY <1>9, <1>11
  <2>2. s < Len(c) /\ Keys(ns, c)[s + 1] = Rank(x)
    BY <1>3, <2>1 DEF Inserts
  <2>3. s + 1 \in 1 .. Len(c)
    BY <1>1, <2>2
  <2> QED
    BY <1>9, <2>2, <2>3
<1>12. Place(ns, t, d, x, s)
  BY <1>1, <1>2, <1>5, <1>6, <1>7, <1>8, <1>10, <1>11 DEF Place
<1> QED
  BY <1>12

\* A name that folds to something else is looked up as before.
LEMMA OthersFirst ==
    ASSUME NEW ns, Tree(ns), NEW d \in 1 .. Len(ns), NEW x, NEW t, NEW s \in Nat, Place(ns, t, d, x, s),
           NEW y, y # Fold[x]
    PROVE  \A i : FirstIn(ns, d, y, i) =>
              \E j : FirstIn(t, d, y, j) /\ t[d].children[j] = ns[d].children[i]
<1>1. PICK c \in Seq(Nat) : c = ns[d].children /\ Len(c) \in Nat
  BY ChildrenAre
<1>2. PICK e : e = t[d].children
  OBVIOUS
<1>3. /\ s \in 0 .. Len(c) /\ Len(e) = Len(c) + 1 /\ Fold[t[e[s + 1]].name] = Fold[x]
      /\ \A i \in 1 .. Len(c) :
            LET j == IF i <= s THEN i ELSE i + 1
            IN  e[j] = c[i] /\ t[e[j]].name = ns[c[i]].name
  BY <1>1, <1>2 DEF Place
<1>4. \A j \in 1 .. Len(e) : j = s + 1 \/ \E i \in 1 .. Len(c) : j = IF i <= s THEN i ELSE i + 1
  <2> SUFFICES ASSUME NEW j \in 1 .. Len(e), j # s + 1
               PROVE  \E i \in 1 .. Len(c) : j = IF i <= s THEN i ELSE i + 1
    OBVIOUS
  <2>1. CASE j <= s
    BY <1>1, <1>3, <2>1
  <2>2. CASE ~(j <= s)
    <3>1. j - 1 \in 1 .. Len(c) /\ ~(j - 1 <= s) /\ j = (j - 1) + 1
      BY <1>1, <1>3, <2>2
    <3> QED
      BY <3>1
  <2> QED
    BY <2>1, <2>2
<1>5. \A i \in 1 .. Len(c) :
         LET j == IF i <= s THEN i ELSE i + 1
         IN  j \in 1 .. Len(e)
  BY <1>1, <1>3
<1>6. ASSUME NEW i, FirstIn(ns, d, y, i)
      PROVE  \E j : FirstIn(t, d, y, j) /\ e[j] = c[i]
  <2>1. /\ i \in 1 .. Len(c) /\ Fold[ns[c[i]].name] = y
        /\ \A k \in 1 .. Len(c) : k < i => Fold[ns[c[k]].name] # y
    BY <1>1, <1>6 DEF FirstIn
  <2>2. PICK j : j = IF i <= s THEN i ELSE i + 1
    OBVIOUS
  <2>3. j \in 1 .. Len(e) /\ e[j] = c[i] /\ Fold[t[e[j]].name] = y
    BY <1>3, <1>5, <2>1, <2>2
  <2>4. ASSUME NEW k \in 1 .. Len(e), k < j PROVE Fold[t[e[k]].name] # y
    <3>1. CASE k = s + 1
      BY <1>3, <3>1
    <3>2. CASE k # s + 1
      <4>1. PICK l \in 1 .. Len(c) : k = IF l <= s THEN l ELSE l + 1
        BY <1>4, <3>2
      <4>2. l < i
        <5>1. l \in Nat /\ i \in Nat
          BY <1>1, <2>1, <4>1
        <5>2. k < j
          BY <2>4
        <5> QED
          BY <2>2, <4>1, <5>1, <5>2
      <4>3. t[e[k]].name = ns[c[l]].name
        BY <1>3, <4>1
      <4> QED
        BY <2>1, <4>2, <4>3
    <3> QED
      BY <3>1, <3>2
  <2> QED
    BY <1>2, <2>3, <2>4 DEF FirstIn
<1> QED
  BY <1>1, <1>2, <1>6

\* The name itself leads to the new node, or to the one that was first already
\* and is not greater.
LEMMA NewFirst ==
    ASSUME NEW ns, Tree(ns), NEW d \in 1 .. Len(ns), NEW x, NEW t, NEW s \in Nat, Place(ns, t, d, x, s)
    PROVE  \E j : /\ FirstIn(t, d, Fold[x], j)
                  /\ \/ t[d].children[j] = Len(ns) + 1
                     \/ /\ j \in 1 .. s /\ t[d].children[j] = ns[d].children[j]
                        /\ FirstIn(ns, d, Fold[x], j)
<1>1. PICK c \in Seq(Nat) : c = ns[d].children /\ Len(c) \in Nat
  BY ChildrenAre
<1>2. PICK e : e = t[d].children
  OBVIOUS
<1>3. /\ s \in 0 .. Len(c) /\ Len(e) = Len(c) + 1 /\ e[s + 1] = Len(ns) + 1
      /\ Fold[t[e[s + 1]].name] = Fold[x]
  BY <1>1, <1>2 DEF Place
<1>4. ASSUME NEW i \in 1 .. s
      PROVE  e[i] = c[i] /\ t[e[i]].name = ns[c[i]].name /\ i \in 1 .. Len(c)
  <2>1. i \in 1 .. Len(c) /\ i <= s
    BY <1>1, <1>3
  <2>2. LET j == IF i <= s THEN i ELSE i + 1
        IN  e[j] = c[i] /\ t[e[j]].name = ns[c[i]].name
    BY <1>1, <1>2, <2>1 DEF Place
  <2> QED
    BY <2>1, <2>2
<1> DEFINE S == {j \in 1 .. (s + 1) : Fold[t[e[j]].name] = Fold[x]}
<1>5. S \in SUBSET Nat /\ S # {}
  <2>1. s + 1 \in 1 .. (s + 1) /\ \A j \in 1 .. (s + 1) : j \in Nat
    OBVIOUS
  <2>2. s + 1 \in S
    BY <1>3, <2>1
  <2> QED
    BY <2>1, <2>2
<1>6. PICK j \in S : \A k \in S : j <= k
  BY <1>5, LeastNatural
<1>7. j \in 1 .. (s + 1) /\ j \in 1 .. Len(e) /\ Fold[t[e[j]].name] = Fold[x]
  BY <1>1, <1>3, <1>6
<1>8. ASSUME NEW k \in 1 .. Len(e), k < j PROVE Fold[t[e[k]].name] # Fold[x]
  <2>1. k \notin S
    BY <1>3, <1>6, <1>7, <1>8
  <2>2. k \in 1 .. (s + 1)
    BY <1>3, <1>7, <1>8
  <2> QED
    BY <2>1, <2>2
<1> HIDE DEF S
<1>9. FirstIn(t, d, Fold[x], j)
  BY <1>2, <1>7, <1>8 DEF FirstIn
<1>10. CASE j = s + 1
  BY <1>2, <1>3, <1>9, <1>10
<1>11. CASE j # s + 1
  <2>1. j \in 1 .. s
    BY <1>7, <1>11
  <2>2. ASSUME NEW k \in 1 .. Len(c), k < j PROVE Fold[ns[c[k]].name] # Fold[x]
    <3>1. k \in 1 .. s /\ k \in 1 .. Len(e)
      BY <1>1, <1>3, <2>1, <2>2
    <3> QED
      BY <1>4, <1>8, <2>2, <3>1
  <2>3. FirstIn(ns, d, Fold[x], j)
    BY <1>1, <1>4, <1>7, <2>1, <2>2 DEF FirstIn
  <2> QED
    BY <1>1, <1>2, <1>4, <1>9, <2>1, <2>3
<1> QED
  BY <1>10, <1>11

\* A step that does not look for the name of the new node in its directory
\* leads where it led.
LEMMA StepKept ==
    ASSUME NEW ns, Tree(ns), NEW d \in 1 .. Len(ns), ns[d].kind = "dir", NEW x \in Names, NEW kind,
           NEW t, Added(ns, t, d, x, kind),
           NEW c \in 0 .. Len(ns), NEW name, name \notin {".", ".."}, Step(ns, c, name) # NULL,
           c # d \/ Fold[name] # Fold[x]
    PROVE  Step(t, c, name) = Step(ns, c, name)
<1>1. Tree(t) /\ Len(ns) \in Nat /\ Len(t) = Len(ns) + 1
  <2>1. Tree(t)
    BY AddedTree
  <2>2. Len(ns) \in Nat
    BY DEF Tree, Rooted
  <2>3. Len(t) = Len(ns) + 1
    BY DEF Added
  <2> QED
    BY <2>1, <2>2, <2>3
<1>2. c \in 1 .. Len(ns) /\ c \in 1 .. Len(t) /\ ns[c].kind = "dir"
  <2>1. c \in 1 .. Len(ns) /\ ns[c].kind = "dir"
    BY NoEntry
  <2> QED
    BY <1>1, <2>1
<1>3. SameNode(t[c], ns[c]) /\ (c # d => t[c].children = ns[c].children)
  BY <1>2 DEF Added
<1>4. t[c].kind = "dir"
  BY <1>2, <1>3 DEF SameNode
<1>5. PICK i : FirstIn(ns, c, Fold[name], i) /\ Step(ns, c, name) = ns[c].children[i]
  BY <1>2, FoundFirst
<1>6. CASE c # d
  <2>1. PICK r \in Seq(Nat) : r = ns[c].children /\ r = t[c].children /\ Len(r) \in Nat
    BY <1>2, <1>3, <1>6, ChildrenAre
  <2>2. \A j \in 1 .. Len(r) : t[r[j]].name = ns[r[j]].name
    <3> SUFFICES ASSUME NEW j \in 1 .. Len(r) PROVE t[r[j]].name = ns[r[j]].name
      OBVIOUS
    <3>1. r[j] \in 1 .. Len(ns)
      BY <1>2, <2>1, ChildrenAre
    <3> QED
      BY <3>1 DEF Added, SameNode
  <2>3. FirstIn(t, c, Fold[name], i)
    BY <1>5, <2>1, <2>2 DEF FirstIn
  <2> QED
    BY <1>1, <1>2, <1>4, <1>5, <2>1, <2>3, FirstFound
<1>7. CASE c = d
  <2>1. PICK s \in Nat : Place(ns, t, d, x, s)
    BY AddedPlace
  <2>2. Fold[name] # Fold[x]
    BY <1>7
  <2>3. PICK j : FirstIn(t, d, Fold[name], j) /\ t[d].children[j] = ns[d].children[i]
    BY <1>5, <1>7, <2>1, <2>2, OthersFirst
  <2> QED
    BY <1>1, <1>2, <1>4, <1>5, <1>7, <2>3, FirstFound
<1> QED
  BY <1>6, <1>7

\* Two names of one rank are one name.
LEMMA RankApart == ASSUME NEW x \in Names, NEW y \in Names, Rank(x) = Rank(y) PROVE x = y
<1>1. \A z \in Names : \E i \in 1 .. Len(Order) : Order[i] = z
  BY DEF Names
<1>2. Order[Rank(x)] = x /\ Order[Rank(y)] = y
  BY <1>1 DEF Rank
<1> QED
  BY <1>2

\* What the kernel makes at a depth.
KindAt(k) == IF k = 3 THEN "pipe" ELSE "dir"

\* An entry of the disk of another kind would be found in place of q.
Blocked(dk, q) ==
    \E p \in DOMAIN dk : /\ FoldPath(p) = FoldPath(q) /\ Rank(Last(p)) < Rank(Last(q))
                         /\ dk[p] # KindAt(Len(q))

\* The nodes up to base are the disk's; whoever looks for one of the others
\* finds one of its kind.
Served(ns, base, dk) ==
    /\ Tree(ns) /\ base \in 1 .. Len(ns) /\ FromDisk(ns, dk, base) /\ Distinct(ns, base)
    /\ \A n \in (base + 1) .. Len(ns) :
         /\ ns[n].name \notin {".", ".."}
         /\ Step(ns, ns[n].parent, ns[n].name) # NULL
         /\ ns[Step(ns, ns[n].parent, ns[n].name)].kind = KindAt(Len(vfs_get_full_filepath(ns, n)))

\* d is a directory where q may be.
Under(ns, d, q) ==
    /\ d \in 1 .. Len(ns) /\ ns[d].kind = "dir"
    /\ Len(q) = Len(vfs_get_full_filepath(ns, d)) + 1
    /\ \A i \in 1 .. Len(vfs_get_full_filepath(ns, d)) : Fold[vfs_get_full_filepath(ns, d)[i]] = Fold[q[i]]

\* The path of a child of d that may be taken for q.
LEMMA ChildPath ==
    ASSUME NEW ns, Rooted(ns), NEW q \in Seq(Names), q # <<>>, NEW d, Under(ns, d, q),
           NEW m \in 2 .. Len(ns), ns[m].parent = d
    PROVE  /\ Len(vfs_get_full_filepath(ns, m)) = Len(q)
           /\ Last(vfs_get_full_filepath(ns, m)) = ns[m].name
           /\ Fold[ns[m].name] = Fold[Last(q)] => FoldPath(vfs_get_full_filepath(ns, m)) = FoldPath(q)
<1>1. PICK f \in Seq(Names) : f = vfs_get_full_filepath(ns, d)
  BY PathIs DEF Under
<1>2. PICK x \in Names : x = ns[m].name
  BY DEF Rooted
<1>3. PICK g : g = vfs_get_full_filepath(ns, m)
  OBVIOUS
<1>4. g = Append(f, x)
  BY <1>1, <1>2, <1>3, PathIs
<1>5. /\ Len(f) \in Nat /\ Len(g) = Len(f) + 1 /\ g \in Seq(Names)
      /\ (\A i \in 1 .. Len(f) : g[i] = f[i]) /\ g[Len(f) + 1] = x
  BY <1>4, AppendProperties
<1>6. Len(q) = Len(f) + 1 /\ \A i \in 1 .. Len(f) : Fold[f[i]] = Fold[q[i]]
  BY <1>1 DEF Under
<1>7. Last(g) = x
  BY <1>4, AppendedIs
<1>8. Last(q) = q[Len(f) + 1]
  BY <1>6 DEF Last
<1>9. ASSUME Fold[x] = Fold[Last(q)] PROVE FoldPath(g) = FoldPath(q)
  <2>1. DOMAIN g = 1 .. (Len(f) + 1) /\ DOMAIN q = 1 .. (Len(f) + 1)
    BY <1>5, <1>6
  <2>2. \A i \in 1 .. (Len(f) + 1) : Fold[g[i]] = Fold[q[i]]
    <3> SUFFICES ASSUME NEW i \in 1 .. (Len(f) + 1) PROVE Fold[g[i]] = Fold[q[i]]
      OBVIOUS
    <3>1. CASE i = Len(f) + 1
      BY <1>5, <1>8, <1>9, <3>1
    <3>2. CASE i # Len(f) + 1
      <4>1. i \in 1 .. Len(f)
        BY <1>5, <3>2
      <4> QED
        BY <1>5, <1>6, <4>1
    <3> QED
      BY <3>1, <3>2
  <2> QED
    BY <2>1, <2>2 DEF FoldPath
<1> QED
  BY <1>2, <1>3, <1>5, <1>6, <1>7, <1>9

\* Of the disk's entries none stands in the way: with a node of its kind added
\* for q, whatever has a name like that leads to a node of that kind.
LEMMA FirstServes ==
    ASSUME NEW ns, NEW base, NEW dk, Served(ns, base, dk), DiskAssumption(dk),
           NEW q \in Seq(Names), q # <<>>, NEW x, x = Last(q), x \notin {".", ".."}, ~Blocked(dk, q),
           NEW d, Under(ns, d, q), NEW s \in Nat, NEW t, Place(ns, t, d, x, s),
           NEW j \in 1 .. s, FirstIn(ns, d, Fold[x], j),
           NEW m, m = ns[d].children[j]
    PROVE  ns[m].kind = KindAt(Len(q))
<1> SUFFICES ASSUME ns[m].kind # KindAt(Len(q)) PROVE FALSE
  OBVIOUS
<1>1. /\ Tree(ns) /\ Rooted(ns) /\ Placed(ns) /\ base \in 1 .. Len(ns) /\ Len(ns) \in Nat
      /\ FromDisk(ns, dk, base) /\ Distinct(ns, base)
  BY DEF Served, Tree, Rooted
<1>2. d \in 1 .. Len(ns) /\ ns[d].kind = "dir"
  BY DEF Under
<1>3. PICK c \in Seq(Nat) : c = ns[d].children /\ Len(c) \in Nat
  BY <1>1, <1>2, ChildrenAre
<1>4. ASSUME NEW i \in 1 .. Len(c), Fold[ns[c[i]].name] = Fold[x] PROVE c[i] \in 2 .. base
  <2>1. PICK n : n = c[i]
    OBVIOUS
  <2>2. n \in 2 .. Len(ns) /\ ns[n].parent = d
    <3>1. ChildAt(ns, d, i, n)
      BY <1>1, <1>2, <1>3, <2>1 DEF ChildAt
    <3> QED
      BY <3>1, ChildIs DEF ChildOf
  <2>3. ASSUME n \notin 2 .. base PROVE FALSE
    <3>1. n \in (base + 1) .. Len(ns)
      BY <1>1, <2>2, <2>3
    <3>2. /\ ns[n].name \notin {".", ".."}
          /\ ns[Step(ns, d, ns[n].name)].kind = KindAt(Len(vfs_get_full_filepath(ns, n)))
      BY <2>2, <3>1 DEF Served
    <3>3. FirstIn(ns, d, Fold[ns[n].name], j)
      BY <1>4, <2>1
    <3>4. Step(ns, d, ns[n].name) = m
      <4>1. FirstAt(ns, d, ns[n].name, j)
        BY <1>1, <1>2, <3>2, <3>3 DEF FirstAt
      <4> QED
        BY <4>1, FirstIsFound
    <3>5. Len(vfs_get_full_filepath(ns, n)) = Len(q)
      BY <1>1, <2>2, ChildPath
    <3> QED
      BY <3>2, <3>4, <3>5
  <2> QED
    BY <2>1, <2>3
<1>5. j \in 1 .. Len(c) /\ m = c[j] /\ Fold[ns[m].name] = Fold[x]
  BY <1>3 DEF FirstIn
<1>6. m \in 2 .. base
  BY <1>4, <1>5
<1>7. m \in 2 .. Len(ns) /\ ns[m].parent = d /\ ns[m].name \in Names
  <2>1. ChildAt(ns, d, j, m)
    BY <1>1, <1>2, <1>3, <1>5 DEF ChildAt
  <2> QED
    BY <2>1, ChildIs DEF ChildOf
<1>8. PICK p : p = vfs_get_full_filepath(ns, m)
  OBVIOUS
<1>9. p \in DOMAIN dk /\ dk[p] = ns[m].kind
  BY <1>1, <1>6, <1>8 DEF FromDisk
<1>10. FoldPath(p) = FoldPath(q) /\ Last(p) = ns[m].name
  BY <1>1, <1>5, <1>7, <1>8, ChildPath
<1>11. ~(Rank(ns[m].name) < Rank(x))
  BY <1>9, <1>10 DEF Blocked
<1>12. x \in Names
  BY FrontIs
<1>13. Rank(ns[m].name) = Rank(x)
  <2>1. Rank(ns[m].name) <= Rank(x)
    BY <1>3, <1>5 DEF Place
  <2>2. Rank(ns[m].name) \in Nat /\ Rank(x) \in Nat
    BY <1>7, <1>12, RankIs
  <2> QED
    BY <1>11, <2>1, <2>2
<1>14. s < Len(c) /\ Rank(ns[c[s + 1]].name) = Rank(x)
  BY <1>3, <1>5, <1>13 DEF Place
<1>15. PICK k \in 1 .. Len(c) : k = s + 1
  BY <1>3, <1>14
<1>16. ns[c[k]].name \in Names /\ ns[c[k]].parent = d
  BY <1>1, <1>2, <1>3, <1>15, ChildrenAre
<1>17. ns[c[k]].name = x
  BY <1>12, <1>14, <1>15, <1>16, RankApart
<1>18. c[k] \in 2 .. base
  BY <1>4, <1>17
<1>19. c[k] = m
  <2>1. PICK z : z = c[k]
    OBVIOUS
  <2>2. z \in 2 .. base /\ ns[z].parent = ns[m].parent
    BY <1>7, <1>16, <1>18, <2>1
  <2>3. Fold[ns[z].name] = Fold[ns[m].name]
    BY <1>5, <1>17, <2>1
  <2>4. z = m
    BY <1>1, <1>6, <2>2, <2>3, FoldApart
  <2> QED
    BY <2>1, <2>4
<1>20. Child(ns, d, k, m) /\ Child(ns, d, j, m) /\ k \in Nat /\ j \in Nat
  BY <1>3, <1>5, <1>15, <1>19 DEF Child
<1>21. k = j
  BY <1>1, <1>2, <1>20 DEF Placed
<1> QED
  BY <1>15, <1>21

\* The kernel's own node for q is added under d.
LEMMA Settled ==
    ASSUME NEW ns, NEW base, NEW dk, Served(ns, base, dk), DiskAssumption(dk),
           NEW q \in Seq(Names), q # <<>>, NEW x, x = Last(q), x \notin {".", ".."}, ~Blocked(dk, q),
           NEW d, Under(ns, d, q), NEW t, Added(ns, t, d, x, KindAt(Len(q)))
    PROVE  /\ Served(t, base, dk)
           /\ Step(t, d, x) # NULL /\ t[Step(t, d, x)].kind = KindAt(Len(q))
           /\ \A name : name \notin {".", ".."} /\ Fold[name] = Fold[x] => Step(t, d, name) = Step(t, d, x)
<1>1. /\ Tree(ns) /\ Rooted(ns) /\ Placed(ns) /\ base \in 1 .. Len(ns) /\ Len(ns) \in Nat
      /\ FromDisk(ns, dk, base) /\ Distinct(ns, base)
  BY DEF Served, Tree, Rooted
<1>2. d \in 1 .. Len(ns) /\ ns[d].kind = "dir"
  BY DEF Under
<1>3. x \in Names
  BY FrontIs
<1>4. PICK kind : kind = KindAt(Len(q))
  OBVIOUS
<1>5. /\ Len(t) = Len(ns) + 1 /\ (\A n \in 1 .. Len(ns) : SameNode(t[n], ns[n]))
      /\ t[Len(ns) + 1] = [name |-> x, kind |-> kind, parent |-> d, children |-> <<>>]
  BY <1>4 DEF Added
<1>6. Tree(t) /\ Rooted(t)
  <2>1. Tree(t)
    BY <1>1, <1>2, <1>3, AddedTree
  <2> QED
    BY <2>1 DEF Tree
<1>7. Extends(ns, t)
  BY <1>1, <1>5 DEF Extends
<1>8. \A n \in 1 .. Len(ns) : vfs_get_full_filepath(t, n) = vfs_get_full_filepath(ns, n)
  BY <1>1, <1>6, <1>7, PathsKept
<1>9. \A n \in 1 .. base : n \in 1 .. Len(ns)
  BY <1>1
<1>10. base \in 1 .. Len(t)
  BY <1>1, <1>5
<1>11. FromDisk(t, dk, base)
  <2> SUFFICES ASSUME NEW n \in 2 .. base
               PROVE  /\ vfs_get_full_filepath(t, n) \in DOMAIN dk
                      /\ t[n].kind = dk[vfs_get_full_filepath(t, n)]
                      /\ t[n].name \notin {".", ".."}
    BY DEF FromDisk
  <2>1. n \in 1 .. Len(ns)
    BY <1>1
  <2> QED
    BY <1>1, <1>5, <1>8, <2>1 DEF FromDisk, SameNode
<1>12. Distinct(t, base)
  BY <1>1, <1>8, <1>9 DEF Distinct
<1>13. t[d].kind = "dir" /\ d \in 1 .. Len(t)
  BY <1>1, <1>2, <1>5 DEF SameNode
<1>14. PICK s \in Nat : Place(ns, t, d, x, s)
  BY <1>1, <1>2, AddedPlace
<1>15. PICK j : /\ FirstIn(t, d, Fold[x], j)
                /\ \/ t[d].children[j] = Len(ns) + 1
                   \/ /\ j \in 1 .. s /\ t[d].children[j] = ns[d].children[j]
                      /\ FirstIn(ns, d, Fold[x], j)
  BY <1>1, <1>2, <1>14, NewFirst
<1>16. PICK e : e = t[d].children[j]
  OBVIOUS
<1>17. Step(t, d, x) = e /\ e # NULL
  BY <1>6, <1>13, <1>15, <1>16, FirstFound
<1>18. ASSUME NEW name, name \notin {".", ".."}, Fold[name] = Fold[x] PROVE Step(t, d, name) = e
  <2>1. FirstIn(t, d, Fold[name], j)
    BY <1>15, <1>18
  <2> QED
    BY <1>6, <1>13, <1>16, <1>18, <2>1, FirstFound
<1>19. t[e].kind = kind
  <2>1. CASE e = Len(ns) + 1
    BY <1>5, <2>1
  <2>2. CASE e # Len(ns) + 1
    <3>1. j \in 1 .. s /\ e = ns[d].children[j] /\ FirstIn(ns, d, Fold[x], j)
      BY <1>15, <1>16, <2>2
    <3>2. ns[e].kind = kind
      BY <1>4, <1>14, <3>1, FirstServes
    <3>3. j \in 1 .. Len(ns[d].children)
      BY <3>1 DEF FirstIn
    <3>4. e \in 1 .. Len(ns)
      BY <1>1, <1>2, <3>1, <3>3, ChildrenAre
    <3> QED
      BY <1>5, <3>2, <3>4 DEF SameNode
  <2> QED
    BY <2>1, <2>2
<1>20. ASSUME NEW n \in 2 .. Len(t), t[n].parent = d PROVE Len(vfs_get_full_filepath(t, n)) = Len(q)
  <2>1. Under(t, d, q)
    BY <1>2, <1>8, <1>13 DEF Under
  <2> QED
    BY <1>6, <1>20, <2>1, ChildPath
<1>21. ASSUME NEW n \in (base + 1) .. Len(t)
       PROVE  /\ t[n].name \notin {".", ".."}
              /\ Step(t, t[n].parent, t[n].name) # NULL
              /\ t[Step(t, t[n].parent, t[n].name)].kind = KindAt(Len(vfs_get_full_filepath(t, n)))
  <2>0. n \in 2 .. Len(t)
    BY <1>1, <1>5
  <2>1. CASE t[n].parent = d /\ Fold[t[n].name] = Fold[x] /\ t[n].name \notin {".", ".."}
    BY <1>4, <1>17, <1>18, <1>19, <1>20, <2>0, <2>1
  <2>2. CASE n = Len(ns) + 1
    <3>1. t[n].parent = d /\ t[n].name = x
      BY <1>5, <2>2
    <3> QED
      BY <2>1, <3>1
  <2>3. CASE n # Len(ns) + 1 /\ ~(t[n].parent = d /\ Fold[t[n].name] = Fold[x])
    <3>1. n \in (base + 1) .. Len(ns) /\ n \in 1 .. Len(ns)
      <4>1. PICK l \in Nat : l = Len(ns)
        BY <1>1
      <4>2. base \in 1 .. l /\ n \in (base + 1) .. (l + 1) /\ n # l + 1
        BY <1>1, <1>5, <2>3, <4>1
      <4>3. n \in (base + 1) .. l /\ n \in 1 .. l
        BY <4>2
      <4> QED
        BY <4>1, <4>3
    <3>2. PICK c \in 1 .. Len(ns) : c = ns[n].parent
      BY <1>1, <3>1, NodeIs
    <3>3. PICK y : y = ns[n].name
      OBVIOUS
    <3>4. t[n].parent = c /\ t[n].name = y
      BY <1>5, <3>1, <3>2, <3>3 DEF SameNode
    <3>5. PICK f : f = Step(ns, c, y)
      OBVIOUS
    <3>6. y \notin {".", ".."} /\ f # NULL /\ ns[f].kind = KindAt(Len(vfs_get_full_filepath(ns, n)))
      BY <3>1, <3>2, <3>3, <3>5 DEF Served
    <3>7. c \in 0 .. Len(ns)
      BY <1>1
    <3>8. f \in 1 .. Len(ns)
      <4>1. f \in 0 .. Len(ns)
        BY <1>1, <3>5, <3>7, StepIs
      <4> QED
        BY <1>1, <3>6, <4>1 DEF NULL
    <3>9. c # d \/ Fold[y] # Fold[x]
      BY <2>3, <3>4
    <3>10. Step(t, c, y) = f
      BY <1>1, <1>2, <1>3, <3>5, <3>6, <3>7, <3>9, StepKept
    <3>11. t[f].kind = ns[f].kind
      BY <1>5, <3>8 DEF SameNode
    <3> QED
      BY <1>8, <3>1, <3>4, <3>6, <3>10, <3>11
  <2>4. CASE n # Len(ns) + 1 /\ t[n].parent = d /\ Fold[t[n].name] = Fold[x]
    <3>1. n \in (base + 1) .. Len(ns) /\ n \in 1 .. Len(ns)
      BY <1>1, <1>5, <2>4
    <3>2. t[n].name \notin {".", ".."}
      BY <1>5, <3>1 DEF Served, SameNode
    <3> QED
      BY <2>1, <2>4, <3>2
  <2> QED
    BY <2>2, <2>3, <2>4
<1>22. Served(t, base, dk)
  BY <1>6, <1>10, <1>11, <1>12, <1>21 DEF Served
<1> QED
  BY <1>4, <1>17, <1>18, <1>19, <1>22

-----------------------------------------------------------------------------
(* The kernel's own paths. *)

\* The front and the last of a short path.
LEMMA ShortPaths ==
    ASSUME NEW a \in Names, NEW b \in Names, NEW c \in Names
    PROVE  /\ <<a>> \in Seq(Names) /\ <<a>> # <<>> /\ Len(<<a>>) = 1
           /\ Front(<<a>>) = <<>> /\ Last(<<a>>) = a
           /\ <<a, b>> \in Seq(Names) /\ <<a, b>> # <<>> /\ Len(<<a, b>>) = 2
           /\ Front(<<a, b>>) = <<a>> /\ Last(<<a, b>>) = b
           /\ <<a, b, c>> \in Seq(Names) /\ <<a, b, c>> # <<>> /\ Len(<<a, b, c>>) = 3
           /\ Front(<<a, b, c>>) = <<a, b>> /\ Last(<<a, b, c>>) = c
<1>1. /\ <<>> \in Seq(Names) /\ <<a>> \in Seq(Names) /\ <<a, b>> \in Seq(Names) /\ <<a, b, c>> \in Seq(Names)
      /\ Len(<<a>>) = 1 /\ Len(<<a, b>>) = 2 /\ Len(<<a, b, c>>) = 3
      /\ <<a>> # <<>> /\ <<a, b>> # <<>> /\ <<a, b, c>> # <<>>
  OBVIOUS
<1>2. <<a>> = Append(<<>>, a) /\ <<a, b>> = Append(<<a>>, b) /\ <<a, b, c>> = Append(<<a, b>>, c)
  OBVIOUS
<1>3. Front(<<a>>) = <<>> /\ Last(<<a>>) = a
  BY <1>1, <1>2, AppendedIs
<1>4. Front(<<a, b>>) = <<a>> /\ Last(<<a, b>>) = b
  BY <1>1, <1>2, AppendedIs
<1>5. Front(<<a, b, c>>) = <<a, b>> /\ Last(<<a, b, c>>) = c
  BY <1>1, <1>2, AppendedIs
<1> QED
  BY <1>1, <1>3, <1>4, <1>5

\* A walk of no steps, and of a few.
LEMMA WalkNone ==
    ASSUME NEW ns, Tree(ns), NEW cur \in 0 .. Len(ns)
    PROVE  vfs_navigate_to(ns, cur, <<>>) = cur
<1>1. Len(<<>>) = 0
  OBVIOUS
<1> QED
  BY <1>1, RootOfWalk

\* A walk of one step.
LEMMA WalkOne ==
    ASSUME NEW ns, Tree(ns), NEW cur \in 0 .. Len(ns), NEW a
    PROVE  vfs_navigate_to(ns, cur, <<a>>) = Step(ns, cur, a)
<1>1. Len(<<>>) = 0 /\ Len(<<a>>) = 1 /\ \A k \in 1 .. 0 : FALSE
  OBVIOUS
<1>2. PICK p : p = <<>>
  OBVIOUS
<1>3. PICK q : q = <<a>>
  OBVIOUS
<1>4. Len(p) \in Nat /\ Len(q) = Len(p) + 1 /\ (\A i \in 1 .. Len(p) : q[i] = p[i]) /\ q[Len(q)] = a
  BY <1>1, <1>2, <1>3
<1>5. vfs_navigate_to(ns, cur, q) = Step(ns, vfs_navigate_to(ns, cur, p), q[Len(q)])
  BY <1>4, WalkOn
<1>6. vfs_navigate_to(ns, cur, p) = cur
  BY <1>2, WalkNone
<1> QED
  BY <1>3, <1>4, <1>5, <1>6

\* A walk of two steps.
LEMMA WalkTwo ==
    ASSUME NEW ns, Tree(ns), NEW cur \in 0 .. Len(ns), NEW a, NEW b
    PROVE  vfs_navigate_to(ns, cur, <<a, b>>) = Step(ns, Step(ns, cur, a), b)
<1>1. Len(<<a>>) = 1 /\ Len(<<a, b>>) = 2
  OBVIOUS
<1>2. PICK p : p = <<a>>
  OBVIOUS
<1>3. PICK q : q = <<a, b>>
  OBVIOUS
<1>4. Len(p) \in Nat /\ Len(q) = Len(p) + 1 /\ (\A i \in 1 .. Len(p) : q[i] = p[i]) /\ q[Len(q)] = b
  BY <1>1, <1>2, <1>3
<1>5. vfs_navigate_to(ns, cur, q) = Step(ns, vfs_navigate_to(ns, cur, p), q[Len(q)])
  BY <1>4, WalkOn
<1>6. vfs_navigate_to(ns, cur, p) = Step(ns, cur, a)
  BY <1>2, WalkOne
<1> QED
  BY <1>3, <1>4, <1>5, <1>6

\* A walk of three steps.
LEMMA WalkThree ==
    ASSUME NEW ns, Tree(ns), NEW cur \in 0 .. Len(ns), NEW a, NEW b, NEW c
    PROVE  vfs_navigate_to(ns, cur, <<a, b, c>>) = Step(ns, Step(ns, Step(ns, cur, a), b), c)
<1>1. Len(<<a, b>>) = 2 /\ Len(<<a, b, c>>) = 3
  OBVIOUS
<1>2. PICK p : p = <<a, b>>
  OBVIOUS
<1>3. PICK q : q = <<a, b, c>>
  OBVIOUS
<1>4. Len(p) \in Nat /\ Len(q) = Len(p) + 1 /\ (\A i \in 1 .. Len(p) : q[i] = p[i]) /\ q[Len(q)] = c
  BY <1>1, <1>2, <1>3
<1>5. vfs_navigate_to(ns, cur, q) = Step(ns, vfs_navigate_to(ns, cur, p), q[Len(q)])
  BY <1>4, WalkOn
<1>6. vfs_navigate_to(ns, cur, p) = Step(ns, Step(ns, cur, a), b)
  BY <1>2, WalkTwo
<1> QED
  BY <1>3, <1>4, <1>5, <1>6

\* The root is a place for a path of one name.
LEMMA UnderRoot ==
    ASSUME NEW ns, Tree(ns), NEW q, Len(q) = 1
    PROVE  Under(ns, Root, q)
<1>1. Rooted(ns) /\ Root \in 1 .. Len(ns) /\ ns[Root].kind = "dir"
  BY DEF Tree, Rooted, Root
<1>2. vfs_get_full_filepath(ns, Root) = <<>> /\ Len(<<>>) = 0
  BY <1>1, PathIs
<1>3. \A i \in 1 .. 0 : FALSE
  OBVIOUS
<1> QED
  BY <1>1, <1>2, <1>3 DEF Under

\* And a directory that a path leads to, for a path with a name more.
LEMMA UnderNext ==
    ASSUME NEW ns, Tree(ns), NEW q \in Seq(Names), q # <<>>, NEW d, Under(ns, d, q),
           Last(q) \notin {".", ".."}, NEW e, e = Step(ns, d, Last(q)), e # NULL, ns[e].kind = "dir",
           NEW r, Len(r) = Len(q) + 1, \A i \in 1 .. Len(q) : r[i] = q[i]
    PROVE  Under(ns, e, r)
<1>1. Rooted(ns) /\ Len(ns) \in Nat /\ d \in 0 .. Len(ns)
  BY DEF Tree, Rooted, Under
<1>2. e \in 2 .. Len(ns) /\ e \in 1 .. Len(ns) /\ ns[e].parent = d /\ Fold[ns[e].name] = Fold[Last(q)]
  BY <1>1, StepDownTo
<1>3. PICK f : f = vfs_get_full_filepath(ns, e)
  OBVIOUS
<1>4. Len(f) = Len(q) /\ FoldPath(f) = FoldPath(q)
  BY <1>1, <1>2, <1>3, ChildPath
<1>5. f \in Seq(Names) /\ DOMAIN f = 1 .. Len(f) /\ DOMAIN q = 1 .. Len(q)
  BY <1>1, <1>2, <1>3, PathIs
<1>6. ASSUME NEW i \in 1 .. Len(f) PROVE Fold[f[i]] = Fold[r[i]]
  <2>1. i \in DOMAIN f /\ i \in DOMAIN q
    BY <1>4, <1>5
  <2>2. FoldPath(f)[i] = Fold[f[i]] /\ FoldPath(q)[i] = Fold[q[i]]
    BY <2>1 DEF FoldPath
  <2> QED
    BY <1>4, <1>5, <2>1, <2>2
<1> QED
  BY <1>2, <1>3, <1>4, <1>6 DEF Under

\* None of the kernel's paths is blocked.
Clear(dk) ==
    /\ ~Blocked(dk, <<"proc">>) /\ ~Blocked(dk, <<"proc", "0">>) /\ ~Blocked(dk, <<"proc", "0", "0">>)
    /\ ~Blocked(dk, <<"dev">>)
    /\ \A i \in 1 .. Len(Ttys) : /\ ~Blocked(dk, <<"dev", Ttys[i]>>)
                                 /\ ~Blocked(dk, <<"dev", Ttys[i], "tty_in">>)
                                 /\ ~Blocked(dk, <<"dev", Ttys[i], "tty_out">>)

\* Nothing on an unobstructed disk blocks one of the kernel's paths.
LEMMA NotBlocked ==
    ASSUME disk \in Disks, ~Obstructed, NEW q \in KernelPipes \cup KernelDirs,
           q \in KernelPipes \/ Len(q) # 3
    PROVE  ~Blocked(disk, q)
<1> SUFFICES ASSUME NEW p \in DOMAIN disk, FoldPath(p) = FoldPath(q), Rank(Last(p)) < Rank(Last(q)),
                    disk[p] # KindAt(Len(q))
             PROVE  FALSE
  BY DEF Blocked
<1>1. DiskAssumption(disk)
  BY VfsAssumption, Zenon
<1>2. disk[p] \in {"dir", "file"}
  BY <1>1, EntryOnDisk
<1>3. ~(q \in KernelPipes \/ disk[p] = "file")
  BY Zenon DEF Obstructed
<1> QED
  BY <1>2, <1>3 DEF KindAt

\* So none of them is blocked.
LEMMA ClearDisk == ASSUME disk \in Disks, ~Obstructed PROVE Clear(disk)
<1>1. /\ "proc" \in Names /\ "0" \in Names /\ "dev" \in Names /\ "tty_in" \in Names /\ "tty_out" \in Names
      /\ Len(Ttys) \in Nat /\ Len(Ttys) >= 1 /\ \A i \in 1 .. Len(Ttys) : Ttys[i] \in Names
  BY KernelNames
<1>2. ASSUME NEW a \in Names, NEW b \in Names, NEW c \in Names, <<a, b, c>> \in KernelPipes
      PROVE  <<a>> \in KernelDirs /\ <<a, b>> \in KernelDirs
  <2>1. PICK p : p = <<a, b, c>>
    OBVIOUS
  <2>a. p \in Seq(Names) /\ Len(p) = 3 /\ p[1] = a /\ p[2] = b
    BY <2>1
  <2>b. PICK r : r = SubSeq(p, 1, 1)
    OBVIOUS
  <2>c. PICK s : s = SubSeq(p, 1, 2)
    OBVIOUS
  <2>d. r \in Seq(Names) /\ Len(r) = 1 /\ r[1] = a
    BY <2>a, <2>b, SubSeqProperties
  <2>e. s \in Seq(Names) /\ Len(s) = 2 /\ s[1] = a /\ s[2] = b
    BY <2>a, <2>c, SubSeqProperties
  <2>f. r = <<a>> /\ s = <<a, b>>
    BY <2>d, <2>e
  <2>2. SubSeq(p, 1, 1) = <<a>> /\ SubSeq(p, 1, 2) = <<a, b>>
    BY <2>b, <2>c, <2>f
  <2>3. SubSeq(p, 1, 1) \in KernelDirs /\ SubSeq(p, 1, 2) \in KernelDirs
    BY <1>2, <2>1 DEF KernelDirs
  <2> QED
    BY <2>2, <2>3
<1>3. <<"proc", "0", "0">> \in KernelPipes
  BY DEF KernelPipes
<1>4. ASSUME NEW i \in 1 .. Len(Ttys)
      PROVE  <<"dev", Ttys[i], "tty_in">> \in KernelPipes /\ <<"dev", Ttys[i], "tty_out">> \in KernelPipes
  BY DEF KernelPipes
<1>5. <<"proc">> \in KernelDirs /\ <<"proc", "0">> \in KernelDirs
  BY <1>1, <1>2, <1>3
<1>6. ASSUME NEW i \in 1 .. Len(Ttys) PROVE <<"dev">> \in KernelDirs /\ <<"dev", Ttys[i]>> \in KernelDirs
  BY <1>1, <1>2, <1>4
<1>7. Len(<<"proc">>) # 3 /\ Len(<<"dev">>) # 3 /\ Len(<<"proc", "0">>) # 3
      /\ \A i \in 1 .. Len(Ttys) : Len(<<"dev", Ttys[i]>>) # 3
  OBVIOUS
<1>8. ~Blocked(disk, <<"proc">>) /\ ~Blocked(disk, <<"proc", "0">>) /\ ~Blocked(disk, <<"proc", "0", "0">>)
  BY <1>3, <1>5, <1>7, NotBlocked
<1>9. ASSUME NEW i \in 1 .. Len(Ttys)
      PROVE  /\ ~Blocked(disk, <<"dev">>) /\ ~Blocked(disk, <<"dev", Ttys[i]>>)
             /\ ~Blocked(disk, <<"dev", Ttys[i], "tty_in">>)
             /\ ~Blocked(disk, <<"dev", Ttys[i], "tty_out">>)
  BY <1>4, <1>6, <1>7, NotBlocked
<1>10. 1 \in 1 .. Len(Ttys)
  BY <1>1
<1> QED
  BY <1>8, <1>9, <1>10 DEF Clear

-----------------------------------------------------------------------------
(* The kernel's start. *)

\* A tree on which the next step of the start works.
Ready(t, base, dk) ==
    TreeState(t) /\ t.followed = "none" /\ Served(t.nodes, base, dk) /\ DiskAssumption(dk)

After(t, u, base, dk) ==
    Ready(u, base, dk) /\ Keeps(t, u) /\ u.cwd = t.cwd /\ u.opened = t.opened

\* Outside d every step that led to a node leads there still.
SameElsewhere(ns, t, d) ==
    \A c \in 0 .. Len(ns) : \A name : name \notin {".", ".."} /\ c # d /\ Step(ns, c, name) # NULL =>
        Step(t, c, name) = Step(ns, c, name)

\* The steps in d once a node for x is there.
StepsIn(ns, t, d, x, kind) ==
    /\ Step(t, d, x) # NULL /\ t[Step(t, d, x)].kind = kind
    /\ \A name : name \notin {".", ".."} /\ Fold[name] = Fold[x] => Step(t, d, name) = Step(t, d, x)
    /\ \A name : name \notin {".", ".."} /\ Fold[name] # Fold[x] /\ Step(ns, d, name) # NULL =>
          Step(t, d, name) = Step(ns, d, name)

\* mkdir or mkfifo of the kernel, wherever it starts.
LEMMA KernelMakes ==
    ASSUME NEW t, NEW base, NEW dk, Ready(t, base, dk),
           NEW q \in Seq(Names), q # <<>>, NEW x, x = Last(q), x \notin {".", ".."}, ~Blocked(dk, q),
           NEW d, Under(t.nodes, d, q),
           NEW start \in 1 .. Len(t.nodes), NEW path \in Seq(Names), path # <<>>, Last(path) = x,
           vfs_navigate_to(t.nodes, start, Front(path)) = d,
           NEW kind, kind = KindAt(Len(q)), NEW u, u = Create(t, start, path, kind)
    PROVE  /\ After(t, u, base, dk) /\ SameElsewhere(t.nodes, u.nodes, d)
           /\ StepsIn(t.nodes, u.nodes, d, x, kind)
<1>1. TreeState(t) /\ t.followed = "none" /\ Served(t.nodes, base, dk) /\ DiskAssumption(dk)
  BY DEF Ready
<1>2. d \in 1 .. Len(t.nodes) /\ t.nodes[d].kind = "dir"
  BY DEF Under
<1>3. d # NULL
  BY <1>2 DEF NULL
<1>4. kind \in {"dir", "pipe"} /\ x \in Names
  BY FrontIs DEF KindAt
<1>5. /\ TreeState(u) /\ Keeps(t, u) /\ u.cwd = t.cwd /\ u.opened = t.opened
      /\ Added(t.nodes, u.nodes, d, x, kind) /\ u.followed = "none"
  BY <1>1, <1>2, <1>3, <1>4, CreateIs
<1>6. /\ Served(u.nodes, base, dk)
      /\ Step(u.nodes, d, x) # NULL /\ u.nodes[Step(u.nodes, d, x)].kind = kind
      /\ \A name : name \notin {".", ".."} /\ Fold[name] = Fold[x] =>
            Step(u.nodes, d, name) = Step(u.nodes, d, x)
  BY <1>1, <1>5, Settled
<1>7. Tree(t.nodes) /\ d \in 0 .. Len(t.nodes)
  <2>1. Len(t.nodes) \in Nat /\ Tree(t.nodes)
    BY <1>1, StateIs
  <2> QED
    BY <1>2, <2>1
<1>8. SameElsewhere(t.nodes, u.nodes, d)
  BY <1>2, <1>4, <1>5, <1>7, StepKept DEF SameElsewhere
<1>9. \A name : name \notin {".", ".."} /\ Fold[name] # Fold[x] /\ Step(t.nodes, d, name) # NULL =>
          Step(u.nodes, d, name) = Step(t.nodes, d, name)
  BY <1>2, <1>4, <1>5, <1>7, StepKept
<1> QED
  BY <1>1, <1>5, <1>6, <1>8, <1>9 DEF After, Ready, StepsIn

\* A directory of the root.
LEMMA MakeFirst ==
    ASSUME NEW t, NEW base, NEW dk, Ready(t, base, dk),
           NEW a \in Names, a \notin {".", ".."}, ~Blocked(dk, <<a>>),
           NEW start, start = Root, NEW u, u = Create(t, start, <<a>>, "dir")
    PROVE  After(t, u, base, dk) /\ StepsIn(t.nodes, u.nodes, Root, a, "dir")
<1>1. TreeState(t) /\ Tree(t.nodes) /\ Len(t.nodes) \in Nat /\ start \in 1 .. Len(t.nodes) /\ start \in 0 .. Len(t.nodes)
  <2>1. TreeState(t)
    BY DEF Ready
  <2>2. Tree(t.nodes) /\ Len(t.nodes) \in Nat /\ start \in 1 .. Len(t.nodes)
    BY <2>1, StateIs
  <2> QED
    BY <2>1, <2>2
<1>2. PICK q : q = <<a>>
  OBVIOUS
<1>3. q \in Seq(Names) /\ q # <<>> /\ Len(q) = 1 /\ Front(q) = <<>> /\ Last(q) = a
  BY <1>2, ShortPaths
<1>4. Under(t.nodes, Root, q)
  BY <1>1, <1>3, UnderRoot
<1>5. vfs_navigate_to(t.nodes, start, Front(q)) = Root
  <2>1. vfs_navigate_to(t.nodes, start, <<>>) = start
    BY <1>1, WalkNone
  <2> QED
    BY <1>3, <2>1
<1>6. KindAt(Len(q)) = "dir"
  BY <1>3 DEF KindAt
<1> QED
  BY <1>1, <1>2, <1>3, <1>4, <1>5, <1>6, KernelMakes

\* A directory in the directory v that a stands for.
LEMMA MakeSecond ==
    ASSUME NEW t, NEW base, NEW dk, Ready(t, base, dk),
           NEW a \in Names, a \notin {".", ".."}, NEW b \in Names, b \notin {".", ".."},
           NEW v, v = Step(t.nodes, Root, a), v # NULL, t.nodes[v].kind = "dir",
           ~Blocked(dk, <<a, b>>),
           NEW start, start = Root, NEW u, u = Create(t, start, <<a, b>>, "dir")
    PROVE  /\ After(t, u, base, dk) /\ SameElsewhere(t.nodes, u.nodes, v)
           /\ StepsIn(t.nodes, u.nodes, v, b, "dir")
<1>1. TreeState(t) /\ Tree(t.nodes) /\ Len(t.nodes) \in Nat /\ start \in 1 .. Len(t.nodes) /\ start \in 0 .. Len(t.nodes)
  <2>1. TreeState(t)
    BY DEF Ready
  <2>2. Tree(t.nodes) /\ Len(t.nodes) \in Nat /\ start \in 1 .. Len(t.nodes)
    BY <2>1, StateIs
  <2> QED
    BY <2>1, <2>2
<1>2. PICK q : q = <<a, b>>
  OBVIOUS
<1>p. PICK p : p = <<a>>
  OBVIOUS
<1>3. /\ q \in Seq(Names) /\ q # <<>> /\ Len(q) = 2 /\ Front(q) = p /\ Last(q) = b
      /\ p \in Seq(Names) /\ p # <<>> /\ Len(p) = 1 /\ Last(p) = a
  BY <1>2, <1>p, ShortPaths
<1>4. Under(t.nodes, Root, p)
  BY <1>1, <1>3, UnderRoot
<1>5. \A i \in 1 .. Len(p) : q[i] = p[i]
  <2>1. \A i \in 1 .. 1 : i = 1
    OBVIOUS
  <2>2. q[1] = a /\ p[1] = a
    BY <1>2, <1>p
  <2> QED
    BY <1>3, <2>1, <2>2
<1>6. Under(t.nodes, v, q)
  <2>1. Last(p) \notin {".", ".."} /\ v = Step(t.nodes, Root, Last(p)) /\ Len(q) = Len(p) + 1
    BY <1>3
  <2> QED
    BY <1>1, <1>3, <1>4, <1>5, <2>1, UnderNext
<1>7. vfs_navigate_to(t.nodes, start, Front(q)) = v
  <2>1. vfs_navigate_to(t.nodes, start, <<a>>) = Step(t.nodes, start, a)
    BY <1>1, WalkOne
  <2> QED
    BY <1>3, <1>p, <2>1
<1>8. KindAt(Len(q)) = "dir"
  BY <1>3 DEF KindAt
<1> QED
  BY <1>1, <1>2, <1>3, <1>6, <1>7, <1>8, KernelMakes

\* A pipe in the directory w that a and b stand for, made from anywhere.
LEMMA MakeThird ==
    ASSUME NEW t, NEW base, NEW dk, Ready(t, base, dk),
           NEW a \in Names, a \notin {".", ".."}, NEW b \in Names, b \notin {".", ".."},
           NEW c \in Names, c \notin {".", ".."},
           NEW v, v = Step(t.nodes, Root, a), v # NULL, t.nodes[v].kind = "dir",
           NEW w, w = Step(t.nodes, v, b), w # NULL, t.nodes[w].kind = "dir",
           ~Blocked(dk, <<a, b, c>>),
           NEW start \in 1 .. Len(t.nodes), NEW path \in Seq(Names), path # <<>>, Last(path) = c,
           vfs_navigate_to(t.nodes, start, Front(path)) = w,
           NEW u, u = Create(t, start, path, "pipe")
    PROVE  /\ After(t, u, base, dk) /\ SameElsewhere(t.nodes, u.nodes, w)
           /\ StepsIn(t.nodes, u.nodes, w, c, "pipe")
<1>1. TreeState(t) /\ Tree(t.nodes) /\ Len(t.nodes) \in Nat
  <2>1. TreeState(t)
    BY DEF Ready
  <2> QED
    BY <2>1, StateIs
<1>2. PICK q : q = <<a, b, c>>
  OBVIOUS
<1>r. PICK r : r = <<a, b>>
  OBVIOUS
<1>p. PICK p : p = <<a>>
  OBVIOUS
<1>3. /\ q \in Seq(Names) /\ q # <<>> /\ Len(q) = 3 /\ Last(q) = c
      /\ r \in Seq(Names) /\ r # <<>> /\ Len(r) = 2 /\ Last(r) = b
      /\ p \in Seq(Names) /\ p # <<>> /\ Len(p) = 1 /\ Last(p) = a
  BY <1>2, <1>r, <1>p, ShortPaths
<1>4. Under(t.nodes, Root, p)
  BY <1>1, <1>3, UnderRoot
<1>5. (\A i \in 1 .. Len(p) : r[i] = p[i]) /\ (\A i \in 1 .. Len(r) : q[i] = r[i])
  <2>1. (\A i \in 1 .. 1 : i = 1) /\ (\A i \in 1 .. 2 : i = 1 \/ i = 2)
    OBVIOUS
  <2>2. q[1] = a /\ r[1] = a /\ p[1] = a /\ q[2] = b /\ r[2] = b
    BY <1>2, <1>r, <1>p
  <2> QED
    BY <1>3, <2>1, <2>2
<1>6. Under(t.nodes, v, r)
  <2>1. Last(p) \notin {".", ".."} /\ v = Step(t.nodes, Root, Last(p)) /\ Len(r) = Len(p) + 1
    BY <1>3
  <2> QED
    BY <1>1, <1>3, <1>4, <1>5, <2>1, UnderNext
<1>7. Under(t.nodes, w, q)
  <2>1. Last(r) \notin {".", ".."} /\ w = Step(t.nodes, v, Last(r)) /\ Len(q) = Len(r) + 1
    BY <1>3
  <2> QED
    BY <1>1, <1>3, <1>5, <1>6, <2>1, UnderNext
<1>8. KindAt(Len(q)) = "pipe"
  BY <1>3 DEF KindAt
<1> QED
  BY <1>1, <1>2, <1>3, <1>7, <1>8, KernelMakes

\* What a and b, and c, stand for.
Dir1(ns, a) == Step(ns, Root, a) # NULL /\ ns[Step(ns, Root, a)].kind = "dir"
Dir2(ns, a, b) ==
    Step(ns, Step(ns, Root, a), b) # NULL /\ ns[Step(ns, Step(ns, Root, a), b)].kind = "dir"
Pipe3(ns, a, b, c) ==
    /\ Step(ns, Step(ns, Step(ns, Root, a), b), c) # NULL
    /\ ns[Step(ns, Step(ns, Step(ns, Root, a), b), c)].kind = "pipe"

\* The nodes on a way of three steps differ and are nodes.
LEMMA OnTheWay ==
    ASSUME NEW ns, Tree(ns), NEW a, a \notin {".", ".."}, NEW b, b \notin {".", ".."},
           NEW v, v = Step(ns, Root, a), v # NULL, NEW w, w = Step(ns, v, b), w # NULL
    PROVE  /\ Root \in 0 .. Len(ns) /\ v \in 0 .. Len(ns) /\ w \in 0 .. Len(ns)
           /\ v \in 1 .. Len(ns) /\ w \in 1 .. Len(ns)
           /\ v # Root /\ w # Root /\ v # w /\ ns[v].parent = Root /\ ns[w].parent = v
           /\ Fold[ns[w].name] = Fold[b]
<1>1. Root \in 0 .. Len(ns) /\ Len(ns) \in Nat
  BY DEF Tree, Rooted, Root
<1>2. v \in 2 .. Len(ns) /\ v \in 1 .. Len(ns) /\ ns[v].parent = Root
  <2>1. StepsTo(ns, Root, a, v)
    BY <1>1 DEF StepsTo
  <2> QED
    BY <2>1, StepBelow DEF StepsInto
<1>3. v \in 0 .. Len(ns) /\ v # Root
  BY <1>1, <1>2 DEF Root
<1>4. w \in 2 .. Len(ns) /\ w \in 1 .. Len(ns) /\ ns[w].parent = v /\ w # v /\ Fold[ns[w].name] = Fold[b]
  <2>1. StepsTo(ns, v, b, w)
    BY <1>3 DEF StepsTo
  <2> QED
    BY <2>1, StepBelow DEF StepsInto
<1>5. w \in 0 .. Len(ns) /\ w # Root
  BY <1>1, <1>4 DEF Root
<1> QED
  BY <1>1, <1>2, <1>3, <1>4, <1>5

-----------------------------------------------------------------------------
(* The steps of the start, one by one. *)

\* A call keeps the kinds, and what a way of one or two steps leads to when it
\* puts its node elsewhere.
LEMMA KindKept ==
    ASSUME NEW t, NEW u, Keeps(t, u), NEW n \in 1 .. Len(t.nodes)
    PROVE  u.nodes[n].kind = t.nodes[n].kind /\ u.nodes[n].parent = t.nodes[n].parent
           /\ u.nodes[n].name = t.nodes[n].name
BY DEF Keeps, SameNode

Stays(t, u, c, name, e) ==
    Step(t.nodes, c, name) = e /\ Step(u.nodes, c, name) = e /\ u.nodes[e].kind = t.nodes[e].kind

\* Outside the directory of the new node a way is kept.
LEMMA WayKept ==
    ASSUME NEW t, NEW u, Keeps(t, u), Tree(t.nodes), NEW d, SameElsewhere(t.nodes, u.nodes, d),
           NEW c \in 0 .. Len(t.nodes), c # d, NEW name, name \notin {".", ".."},
           NEW e, e = Step(t.nodes, c, name), e # NULL
    PROVE  Stays(t, u, c, name, e)
<1>1. Step(u.nodes, c, name) = e
  BY DEF SameElsewhere
<1>2. e \in 1 .. Len(t.nodes)
  BY StepDownTo
<1>3. u.nodes[e].kind = t.nodes[e].kind
  BY <1>2, KindKept
<1> QED
  BY <1>1, <1>3 DEF Stays

\* What a state on which the next step works is.
LEMMA ReadyIs ==
    ASSUME NEW t, NEW base, NEW dk, Ready(t, base, dk)
    PROVE  TreeState(t) /\ t.followed = "none" /\ Tree(t.nodes) /\ Len(t.nodes) \in Nat
           /\ Root \in 1 .. Len(t.nodes) /\ Root \in 0 .. Len(t.nodes)
           /\ t.opened \in Seq(Nat)
<1>1. TreeState(t) /\ t.followed = "none"
  BY DEF Ready
<1>2. Tree(t.nodes) /\ Len(t.nodes) \in Nat /\ Root \in 1 .. Len(t.nodes) /\ t.opened \in Seq(Nat)
  BY <1>1, StateIs
<1> QED
  BY <1>1, <1>2

\* What such a call leaves.
LEMMA AfterIs ==
    ASSUME NEW t, NEW u, NEW base, NEW dk, After(t, u, base, dk)
    PROVE  Ready(u, base, dk) /\ Keeps(t, u) /\ u.cwd = t.cwd /\ u.opened = t.opened
BY DEF After

\* mkdir of the kernel in the root.
LEMMA FirstMade ==
    ASSUME NEW t, NEW base, NEW dk, Ready(t, base, dk),
           NEW a \in Names, a \notin {".", ".."}, ~Blocked(dk, <<a>>),
           NEW start, start = Root, NEW u, u = Create(t, start, <<a>>, "dir")
    PROVE  After(t, u, base, dk) /\ Dir1(u.nodes, a)
<1>1. After(t, u, base, dk) /\ StepsIn(t.nodes, u.nodes, Root, a, "dir")
  BY MakeFirst
<1> QED
  BY <1>1 DEF StepsIn, Dir1

\* And in a directory of the root.
LEMMA SecondMade ==
    ASSUME NEW t, NEW base, NEW dk, Ready(t, base, dk),
           NEW a \in Names, a \notin {".", ".."}, NEW b \in Names, b \notin {".", ".."},
           Dir1(t.nodes, a), ~Blocked(dk, <<a, b>>),
           NEW start, start = Root, NEW u, u = Create(t, start, <<a, b>>, "dir")
    PROVE  After(t, u, base, dk) /\ Dir1(u.nodes, a) /\ Dir2(u.nodes, a, b)
<1>1. PICK v : v = Step(t.nodes, Root, a)
  OBVIOUS
<1>2. v # NULL /\ t.nodes[v].kind = "dir"
  BY <1>1 DEF Dir1
<1>3. /\ After(t, u, base, dk) /\ SameElsewhere(t.nodes, u.nodes, v)
      /\ StepsIn(t.nodes, u.nodes, v, b, "dir")
  BY <1>1, <1>2, MakeSecond
<1>4. Tree(t.nodes) /\ Root \in 0 .. Len(t.nodes) /\ Keeps(t, u)
  BY <1>3, ReadyIs, AfterIs
<1>5. v # Root
  BY <1>1, <1>2, <1>4, StepDownTo
<1>6. Step(u.nodes, Root, a) = v /\ u.nodes[v].kind = "dir"
  <2>1. Stays(t, u, Root, a, v)
    BY <1>1, <1>2, <1>3, <1>4, <1>5, WayKept
  <2> QED
    BY <1>2, <2>1 DEF Stays
<1>7. Dir1(u.nodes, a)
  BY <1>2, <1>6 DEF Dir1
<1>8. Dir2(u.nodes, a, b)
  BY <1>3, <1>6 DEF Dir2, StepsIn
<1> QED
  BY <1>3, <1>7, <1>8

\* mkfifo in a directory of one.
LEMMA ThirdMade ==
    ASSUME NEW t, NEW base, NEW dk, Ready(t, base, dk),
           NEW a \in Names, a \notin {".", ".."}, NEW b \in Names, b \notin {".", ".."},
           NEW c \in Names, c \notin {".", ".."},
           Dir1(t.nodes, a), Dir2(t.nodes, a, b), ~Blocked(dk, <<a, b, c>>),
           NEW w, w = Step(t.nodes, Step(t.nodes, Root, a), b),
           NEW start \in 1 .. Len(t.nodes), NEW path \in Seq(Names), path # <<>>, Last(path) = c,
           vfs_navigate_to(t.nodes, start, Front(path)) = w,
           NEW u, u = Create(t, start, path, "pipe")
    PROVE  /\ After(t, u, base, dk) /\ SameElsewhere(t.nodes, u.nodes, w)
           /\ Step(u.nodes, Root, a) = Step(t.nodes, Root, a)
           /\ Step(u.nodes, Step(u.nodes, Root, a), b) = w
           /\ Dir1(u.nodes, a) /\ Dir2(u.nodes, a, b) /\ Pipe3(u.nodes, a, b, c)
<1>1. PICK v : v = Step(t.nodes, Root, a)
  OBVIOUS
<1>2. v # NULL /\ t.nodes[v].kind = "dir"
  BY <1>1 DEF Dir1
<1>3. w = Step(t.nodes, v, b) /\ w # NULL /\ t.nodes[w].kind = "dir"
  BY <1>1 DEF Dir2
<1>4. /\ After(t, u, base, dk) /\ SameElsewhere(t.nodes, u.nodes, w)
      /\ StepsIn(t.nodes, u.nodes, w, c, "pipe")
  BY <1>1, <1>2, <1>3, MakeThird
<1>5. Tree(t.nodes) /\ Root \in 0 .. Len(t.nodes) /\ Keeps(t, u)
  BY <1>4, ReadyIs, AfterIs
<1>6. v \in 0 .. Len(t.nodes) /\ w # Root /\ v # w
  BY <1>1, <1>2, <1>3, <1>5, OnTheWay
<1>7. Step(u.nodes, Root, a) = v /\ u.nodes[v].kind = "dir"
  <2>1. Stays(t, u, Root, a, v)
    BY <1>1, <1>2, <1>4, <1>5, <1>6, WayKept
  <2> QED
    BY <1>2, <2>1 DEF Stays
<1>8. Step(u.nodes, v, b) = w /\ u.nodes[w].kind = "dir"
  <2>1. Stays(t, u, v, b, w)
    BY <1>3, <1>4, <1>5, <1>6, WayKept
  <2> QED
    BY <1>3, <2>1 DEF Stays
<1>9. Step(u.nodes, w, c) # NULL /\ u.nodes[Step(u.nodes, w, c)].kind = "pipe"
  BY <1>4 DEF StepsIn
<1>10. Dir1(u.nodes, a) /\ Dir2(u.nodes, a, b) /\ Pipe3(u.nodes, a, b, c)
  BY <1>2, <1>3, <1>7, <1>8, <1>9 DEF Dir1, Dir2, Pipe3
<1> QED
  BY <1>1, <1>4, <1>7, <1>8, <1>10

\* open of a path that leads to a node.
Opens(t, u, e) ==
    /\ TreeState(u) /\ Keeps(t, u) /\ u.nodes = t.nodes /\ u.cwd = t.cwd
    /\ u.opened = Append(t.opened, e) /\ u.followed = "none"

\* vfs_open finds the node.
LEMMA OpenFinds ==
    ASSUME NEW t, TreeState(t), t.followed = "none", NEW path, Len(path) \in Nat,
           NEW e, e = vfs_navigate_to(t.nodes, t.cwd, path), e # NULL, NEW u, u = Open(t, path)
    PROVE  Opens(t, u, e)
BY OpenIs DEF Opens

\* open of such a pipe by its path from the root.
LEMMA PipeOpened ==
    ASSUME NEW t, NEW base, NEW dk, Ready(t, base, dk), t.cwd = Root, NEW a, NEW b, NEW c,
           Pipe3(t.nodes, a, b, c), NEW u, u = Open(t, <<a, b, c>>)
    PROVE  /\ TreeState(u) /\ u.nodes = t.nodes /\ u.cwd = t.cwd /\ u.followed = "none" /\ Keeps(t, u)
           /\ \E e : u.opened = Append(t.opened, e) /\ t.nodes[e].kind = "pipe"
<1>1. TreeState(t) /\ t.followed = "none" /\ Tree(t.nodes) /\ Root \in 0 .. Len(t.nodes)
  BY ReadyIs
<1>2. PICK path : path = <<a, b, c>>
  OBVIOUS
<1>3. PICK e : e = vfs_navigate_to(t.nodes, t.cwd, path)
  OBVIOUS
<1>4. vfs_navigate_to(t.nodes, Root, <<a, b, c>>) = Step(t.nodes, Step(t.nodes, Step(t.nodes, Root, a), b), c)
  BY <1>1, WalkThree
<1>5. e # NULL /\ t.nodes[e].kind = "pipe"
  BY <1>2, <1>3, <1>4 DEF Pipe3
<1>6. Len(path) \in Nat
  BY <1>2
<1>7. u = Open(t, path)
  BY <1>2
<1>8. Opens(t, u, e)
  BY <1>1, <1>3, <1>5, <1>6, <1>7, OpenFinds
<1> QED
  BY <1>5, <1>8 DEF Opens

\* chdir to a path that leads to a node.
Enters(t, u, to) ==
    /\ TreeState(u) /\ Keeps(t, u) /\ u.nodes = t.nodes /\ u.opened = t.opened
    /\ u.followed = t.followed /\ u.cwd = to

\* chdir enters the directory.
LEMMA ChangeDirEnters ==
    ASSUME NEW t, TreeState(t), t.followed = "none", NEW path, Len(path) \in Nat,
           NEW to, to = vfs_navigate_to(t.nodes, t.cwd, path), to # NULL, NEW u, u = ChangeDir(t, path)
    PROVE  Enters(t, u, to)
BY ChangeDirIs DEF Enters

\* And the next step works from there.
LEMMA EntersReady ==
    ASSUME NEW t, NEW base, NEW dk, Ready(t, base, dk), NEW to, NEW u, Enters(t, u, to)
    PROVE  Ready(u, base, dk)
BY DEF Ready, Enters

\* Up from a directory.
LEMMA StepUp ==
    ASSUME NEW ns, NEW d \in 1 .. Len(ns), ns[d].kind = "dir"
    PROVE  Step(ns, d, "..") = ns[d].parent
<1>1. d # NULL
  BY DEF NULL
<1> QED
  BY <1>1 DEF Step, vfs_get_single_entry_from_dir

\* The nodes of ns are still there in ms.
Grows(ns, ms) ==
    /\ Tree(ns) /\ Tree(ms) /\ Len(ns) \in Nat /\ Len(ms) \in Nat /\ Len(ns) <= Len(ms)
    /\ \A n \in 1 .. Len(ns) : SameNode(ms[n], ns[n])

\* name leads from c to the node e.
Gives(ns, c, name, e) == Step(ns, c, name) = e /\ e # NULL

\* Such a node is a child.
LEMMA GivesDown ==
    ASSUME NEW ns, Tree(ns), NEW d \in 0 .. Len(ns), NEW name, name \notin {".", ".."},
           NEW e, Gives(ns, d, name, e)
    PROVE  /\ e \in 0 .. Len(ns) /\ e \in 1 .. Len(ns) /\ ns[e].parent = d /\ e # d
           /\ Fold[ns[e].name] = Fold[name] /\ ns[d].kind = "dir"
<1>1. e = Step(ns, d, name) /\ e # NULL
  BY DEF Gives
<1>2. /\ e \in 1 .. Len(ns) /\ ns[e].parent = d /\ e # d
      /\ Fold[ns[e].name] = Fold[name] /\ ns[d].kind = "dir"
  BY <1>1, StepDownTo
<1> QED
  BY <1>2

\* What it leads to there it leads to here, too.
Lasts(ns, ms, c, name, e) == Gives(ms, c, name, e) /\ ms[e].kind = ns[e].kind

\* A node made elsewhere does not disturb it.
LEMMA StepLasts ==
    ASSUME NEW ns, NEW ms, Grows(ns, ms), NEW d, SameElsewhere(ns, ms, d),
           NEW c \in 0 .. Len(ns), c # d, NEW name, name \notin {".", ".."},
           NEW e, Gives(ns, c, name, e)
    PROVE  Lasts(ns, ms, c, name, e)
<1>1. e \in 1 .. Len(ns)
  BY GivesDown DEF Grows
<1>2. ms[e].kind = ns[e].kind
  BY <1>1 DEF Grows, SameNode
<1>3. Gives(ms, c, name, e)
  BY DEF SameElsewhere, Gives
<1> QED
  BY <1>2, <1>3 DEF Lasts

\* And when two pipes are made elsewhere.
LEMMA LastsTwice ==
    ASSUME NEW ns, NEW ms, NEW ls, Grows(ns, ms), Grows(ms, ls), NEW w,
           SameElsewhere(ns, ms, w), SameElsewhere(ms, ls, w),
           NEW c \in 0 .. Len(ns), c # w, NEW name, name \notin {".", ".."},
           NEW e, Gives(ns, c, name, e)
    PROVE  Lasts(ns, ls, c, name, e)
<1>1. Lasts(ns, ms, c, name, e)
  BY StepLasts
<1>2. c \in 0 .. Len(ms)
  BY DEF Grows
<1>3. Gives(ms, c, name, e)
  BY <1>1 DEF Lasts
<1>4. Lasts(ms, ls, c, name, e)
  BY <1>2, <1>3, StepLasts
<1> QED
  BY <1>1, <1>4 DEF Lasts

\* The pipe of another terminal is still found when this one has its own.
LEMMA PipeStays ==
    ASSUME NEW ns, NEW ms, NEW us, NEW vs, Grows(ns, ms), Grows(ms, us), Grows(us, vs),
           NEW a, a \notin {".", ".."}, NEW b, b \notin {".", ".."}, NEW c, c \notin {".", ".."},
           NEW d, Gives(ns, Root, a, d), Gives(ms, Root, a, d), Gives(vs, Root, a, d),
           SameElsewhere(ns, ms, d), StepsIn(ns, ms, d, b, "dir"),
           NEW w, Gives(ms, d, b, w), Gives(vs, d, b, w),
           SameElsewhere(ms, us, w), SameElsewhere(us, vs, w), Pipe3(vs, a, b, c),
           NEW y, y \notin {".", ".."}, Pipe3(ns, a, y, c)
    PROVE  Pipe3(vs, a, y, c)
<1>0. Tree(ns) /\ Tree(ms)
  BY DEF Grows
<1>1. d \in 0 .. Len(ns) /\ d \in 0 .. Len(ms) /\ d # w /\ Fold[ms[w].name] = Fold[b]
  <2>1. Root \in 0 .. Len(ns) /\ Root \in 0 .. Len(ms)
    BY DEF Grows, Tree, Rooted, Root
  <2>2. d \in 0 .. Len(ns) /\ d \in 0 .. Len(ms)
    BY <1>0, <2>1, GivesDown
  <2> QED
    BY <1>0, <2>2, GivesDown
<1>2. CASE Fold[y] = Fold[b]
  <2>1. Gives(ms, d, y, w)
    BY <1>2 DEF StepsIn, Gives
  <2>2. Lasts(ms, vs, d, y, w)
    BY <1>1, <2>1, LastsTwice
  <2>3. Gives(vs, d, y, w)
    BY <2>2 DEF Lasts
  <2> QED
    BY <2>3 DEF Pipe3, Gives
<1>3. CASE Fold[y] # Fold[b]
  <2>1. PICK z : z = Step(ns, d, y)
    OBVIOUS
  <2>2. PICK e : e = Step(ns, z, c)
    OBVIOUS
  <2>3. e # NULL /\ ns[e].kind = "pipe"
    BY <2>1, <2>2 DEF Pipe3, Gives
  <2>4. z # NULL
    BY <2>2, <2>3 DEF Step
  <2>5. Gives(ns, d, y, z) /\ Gives(ns, z, c, e)
    BY <2>1, <2>2, <2>3, <2>4 DEF Gives
  <2>6. z \in 0 .. Len(ns) /\ z # d
    <3>1. Gives(ns, d, y, z) /\ d \in 0 .. Len(ns) /\ Tree(ns)
      BY <1>0, <1>1, <2>5
    <3>2. z \in 0 .. Len(ns)
      BY <3>1, GivesDown
    <3>3. z # d
      <4>1. PICK k \in 0 .. Len(ns) : k = d
        BY <3>1
      <4>2. PICK x : x = z
        OBVIOUS
      <4>3. Gives(ns, k, y, x)
        BY <3>1, <4>1, <4>2
      <4>4. x # k
        BY <3>1, <4>3, GivesDown
      <4> QED
        BY <4>1, <4>2, <4>4
    <3> QED
      BY <3>2, <3>3
  <2>7. Gives(ms, d, y, z)
    BY <1>3, <2>5 DEF StepsIn, Gives
  <2>8. z \in 0 .. Len(ms) /\ Fold[ms[z].name] = Fold[y]
    BY <1>0, <1>1, <2>7, GivesDown
  <2>9. z # w
    BY <1>1, <1>3, <2>8
  <2>10. Lasts(ms, vs, d, y, z)
    BY <1>1, <2>7, LastsTwice
  <2>11. Lasts(ns, ms, z, c, e)
    BY <2>5, <2>6, StepLasts
  <2>12. Gives(ms, z, c, e) /\ ms[e].kind = "pipe"
    BY <2>3, <2>11 DEF Lasts
  <2>13. Lasts(ms, vs, z, c, e)
    BY <2>8, <2>9, <2>12, LastsTwice
  <2>14. Gives(vs, d, y, z) /\ Gives(vs, z, c, e) /\ vs[e].kind = "pipe"
    BY <2>10, <2>12, <2>13 DEF Lasts
  <2> QED
    BY <2>14 DEF Pipe3, Gives
<1> QED
  BY <1>2, <1>3

\* A call that keeps the nodes lets the tree grow.
LEMMA KeepsGrows ==
    ASSUME NEW t, NEW u, TreeState(t), TreeState(u), Keeps(t, u)
    PROVE  Grows(t.nodes, u.nodes)
<1>1. Tree(t.nodes) /\ Tree(u.nodes) /\ Len(t.nodes) \in Nat /\ Len(u.nodes) \in Nat
  BY StateIs
<1> QED
  BY <1>1 DEF Grows, Keeps

\* In the directory of a terminal.
InTty(t, base, dk, a, b, w) ==
    /\ Ready(t, base, dk) /\ Dir1(t.nodes, a) /\ Dir2(t.nodes, a, b)
    /\ Step(t.nodes, Step(t.nodes, Root, a), b) = w /\ t.cwd = w

\* What mkfifo there does.
PipeIn(t, u, base, dk, a, b, w, c) ==
    /\ InTty(u, base, dk, a, b, w) /\ Keeps(t, u) /\ SameElsewhere(t.nodes, u.nodes, w)
    /\ u.opened = t.opened /\ Step(u.nodes, Root, a) = Step(t.nodes, Root, a)
    /\ Pipe3(u.nodes, a, b, c)

\* mkfifo in the directory of a terminal makes its pipe there.
LEMMA PipeInTty ==
    ASSUME NEW t, NEW base, NEW dk, NEW w,
           NEW a \in Names, a \notin {".", ".."}, NEW b \in Names, b \notin {".", ".."},
           NEW c \in Names, c \notin {".", ".."}, InTty(t, base, dk, a, b, w),
           ~Blocked(dk, <<a, b, c>>), NEW u, u = Create(t, t.cwd, <<c>>, "pipe")
    PROVE  PipeIn(t, u, base, dk, a, b, w, c)
<1>1. /\ Ready(t, base, dk) /\ Dir1(t.nodes, a) /\ Dir2(t.nodes, a, b) /\ t.cwd = w
      /\ w = Step(t.nodes, Step(t.nodes, Root, a), b)
  BY DEF InTty
<1>2. PICK start : start = t.cwd
  OBVIOUS
<1>3. TreeState(t) /\ Tree(t.nodes) /\ start \in 1 .. Len(t.nodes) /\ start \in 0 .. Len(t.nodes)
  <2>1. TreeState(t)
    BY <1>1, ReadyIs
  <2> QED
    BY <1>2, <2>1, StateIs
<1>4. PICK path : path = <<c>>
  OBVIOUS
<1>5. path \in Seq(Names) /\ path # <<>> /\ Last(path) = c /\ Front(path) = <<>>
  BY <1>4, ShortPaths
<1>6. vfs_navigate_to(t.nodes, start, Front(path)) = w
  <2>1. vfs_navigate_to(t.nodes, start, <<>>) = start
    BY <1>3, WalkNone
  <2> QED
    BY <1>1, <1>2, <1>5, <2>1
<1>7. u = Create(t, start, path, "pipe")
  BY <1>2, <1>4
<1>8. /\ After(t, u, base, dk) /\ SameElsewhere(t.nodes, u.nodes, w)
      /\ Step(u.nodes, Root, a) = Step(t.nodes, Root, a)
      /\ Step(u.nodes, Step(u.nodes, Root, a), b) = w
      /\ Dir1(u.nodes, a) /\ Dir2(u.nodes, a, b) /\ Pipe3(u.nodes, a, b, c)
  BY <1>1, <1>3, <1>5, <1>6, <1>7, ThirdMade
<1>9. Ready(u, base, dk) /\ Keeps(t, u) /\ u.cwd = t.cwd /\ u.opened = t.opened
  BY <1>8, AfterIs
<1> QED
  BY <1>1, <1>8, <1>9 DEF PipeIn, InTty

\* Two levels up is the root.
LEMMA OutOfTty ==
    ASSUME NEW t, NEW base, NEW dk, NEW w,
           NEW a, a \notin {".", ".."}, NEW b, b \notin {".", ".."}, InTty(t, base, dk, a, b, w),
           NEW u, u = ChangeDir(t, <<"..", "..">>)
    PROVE  Enters(t, u, Root) /\ Ready(u, base, dk)
<1>1. PICK ns : ns = t.nodes
  OBVIOUS
<1>2. PICK v : v = Step(ns, Root, a)
  OBVIOUS
<1>3. /\ Ready(t, base, dk) /\ t.cwd = w /\ v # NULL /\ ns[v].kind = "dir"
      /\ Step(ns, v, b) = w /\ w # NULL /\ ns[w].kind = "dir"
  BY <1>1, <1>2 DEF InTty, Dir1, Dir2
<1>4. TreeState(t) /\ t.followed = "none" /\ Tree(ns) /\ Root \in 0 .. Len(ns)
  BY <1>1, <1>3, ReadyIs
<1>5. Gives(ns, Root, a, v) /\ Gives(ns, v, b, w)
  BY <1>2, <1>3 DEF Gives
<1>6. v \in 0 .. Len(ns) /\ v \in 1 .. Len(ns) /\ ns[v].parent = Root
  BY <1>4, <1>5, GivesDown
<1>7. w \in 0 .. Len(ns) /\ w \in 1 .. Len(ns) /\ ns[w].parent = v
  BY <1>4, <1>5, <1>6, GivesDown
<1>8. Step(ns, w, "..") = v
  BY <1>3, <1>7, StepUp
<1>9. Step(ns, v, "..") = Root
  BY <1>3, <1>6, StepUp
<1>10. PICK path : path = <<"..", "..">>
  OBVIOUS
<1>11. PICK to : to = vfs_navigate_to(t.nodes, t.cwd, path)
  OBVIOUS
<1>12. to = Root
  <2>1. vfs_navigate_to(ns, w, <<"..", "..">>) = Step(ns, Step(ns, w, ".."), "..")
    BY <1>4, <1>7, WalkTwo
  <2> QED
    BY <1>1, <1>3, <1>8, <1>9, <1>10, <1>11, <2>1
<1>13. to # NULL
  BY <1>12 DEF Root, NULL
<1>14. Len(path) \in Nat /\ u = ChangeDir(t, path)
  BY <1>10
<1>15. Enters(t, u, to)
  BY <1>4, <1>11, <1>13, <1>14, ChangeDirEnters
<1>16. Ready(u, base, dk)
  BY <1>3, <1>15, EntersReady
<1> QED
  BY <1>12, <1>15, <1>16

\* Into the directory of a terminal that was just made.
LEMMA IntoTty ==
    ASSUME NEW t, NEW base, NEW dk, Ready(t, base, dk), t.cwd = Root,
           NEW a \in Names, a \notin {".", ".."}, NEW b \in Names, b \notin {".", ".."},
           Dir1(t.nodes, a), Dir2(t.nodes, a, b),
           NEW u, u = ChangeDir(t, <<a, b>>)
    PROVE  \E w : InTty(u, base, dk, a, b, w) /\ Enters(t, u, w)
<1>1. TreeState(t) /\ t.followed = "none" /\ Tree(t.nodes) /\ Root \in 0 .. Len(t.nodes)
  BY ReadyIs
<1>2. PICK path : path = <<a, b>>
  OBVIOUS
<1>3. PICK w : w = vfs_navigate_to(t.nodes, t.cwd, path)
  OBVIOUS
<1>4. Step(t.nodes, Step(t.nodes, Root, a), b) = w
  <2>1. vfs_navigate_to(t.nodes, Root, <<a, b>>) = Step(t.nodes, Step(t.nodes, Root, a), b)
    BY <1>1, WalkTwo
  <2> QED
    BY <1>2, <1>3, <2>1
<1>5. w # NULL
  BY <1>4 DEF Dir2
<1>6. Len(path) \in Nat /\ u = ChangeDir(t, path)
  BY <1>2
<1>7. Enters(t, u, w)
  BY <1>1, <1>3, <1>5, <1>6, ChangeDirEnters
<1>8. Ready(u, base, dk)
  BY <1>7, EntersReady
<1>9. u.nodes = t.nodes /\ u.cwd = w
  BY <1>7 DEF Enters
<1>10. InTty(u, base, dk, a, b, w)
  BY <1>4, <1>8, <1>9 DEF InTty
<1> QED
  BY <1>7, <1>10

\* What a name leads to in the root is not the root.
LEMMA NotTheRoot ==
    ASSUME NEW ns, Tree(ns), NEW a, a \notin {".", ".."}, NEW d, Gives(ns, Root, a, d)
    PROVE  Root # d
<1>1. Root \in 0 .. Len(ns)
  BY DEF Tree, Rooted, Root
<1>2. Step(ns, Root, a) = d /\ d # NULL
  BY DEF Gives
<1>3. d \in 2 .. Len(ns)
  BY <1>1, <1>2, StepDownTo
<1> QED
  BY <1>3 DEF Root

\* init_tty: its own pipe, the others' pipes, and the root again.
TtyMade(t, u, base, dk, a, b, c) ==
    /\ After(t, u, base, dk) /\ Dir1(u.nodes, a) /\ Pipe3(u.nodes, a, b, c)
    /\ \A y : y \notin {".", ".."} /\ Pipe3(t.nodes, a, y, c) => Pipe3(u.nodes, a, y, c)

\* init_tty works for a terminal that nothing blocks.
LEMMA TtyWorks ==
    ASSUME NEW t, NEW base, NEW dk, Ready(t, base, dk), t.cwd = Root,
           NEW a, a = "dev", NEW b \in Names, b \notin {".", ".."}, NEW c, c = "tty_out",
           Dir1(t.nodes, a), ~Blocked(dk, <<a, b>>),
           ~Blocked(dk, <<a, b, "tty_in">>), ~Blocked(dk, <<a, b, c>>),
           NEW u, u = init_tty(t, b)
    PROVE  TtyMade(t, u, base, dk, a, b, c)
<1>1. PICK x : x = "tty_in"
  OBVIOUS
<1>2. /\ a \in Names /\ a \notin {".", ".."} /\ c \in Names /\ c \notin {".", ".."}
      /\ x \in Names /\ x \notin {".", ".."}
  BY <1>1, KernelNames
<1>3. PICK made : made = Create(t, t.cwd, <<a, b>>, "dir")
  OBVIOUS
<1>4. PICK inside : inside = ChangeDir(made, <<a, b>>)
  OBVIOUS
<1>5. PICK in : in = Create(inside, inside.cwd, <<x>>, "pipe")
  OBVIOUS
<1>6. PICK out : out = Create(in, in.cwd, <<c>>, "pipe")
  OBVIOUS
<1>7. u = ChangeDir(out, <<"..", "..">>)
  BY <1>1, <1>3, <1>4, <1>5, <1>6 DEF init_tty
<1>8. PICK start : start = t.cwd
  OBVIOUS
<1>9. start = Root /\ made = Create(t, start, <<a, b>>, "dir")
  BY <1>3, <1>8
<1>10. PICK ns : ns = t.nodes
  OBVIOUS
<1>11. PICK d : d = Step(ns, Root, a)
  OBVIOUS
<1>12. d # NULL /\ ns[d].kind = "dir"
  BY <1>10, <1>11 DEF Dir1
<1>13. /\ After(t, made, base, dk) /\ SameElsewhere(t.nodes, made.nodes, d)
       /\ StepsIn(t.nodes, made.nodes, d, b, "dir")
  BY <1>2, <1>9, <1>10, <1>11, <1>12, MakeSecond
<1>14. Dir1(made.nodes, a) /\ Dir2(made.nodes, a, b)
  BY <1>2, <1>9, SecondMade
<1>15. Ready(made, base, dk) /\ Keeps(t, made) /\ made.cwd = Root /\ made.opened = t.opened
  BY <1>13, AfterIs
<1>16. PICK w : InTty(inside, base, dk, a, b, w) /\ Enters(made, inside, w)
  BY <1>2, <1>4, <1>14, <1>15, IntoTty
<1>17. ~Blocked(dk, <<a, b, x>>)
  BY <1>1
<1>18. PipeIn(inside, in, base, dk, a, b, w, x)
  BY <1>2, <1>5, <1>16, <1>17, PipeInTty
<1>19. InTty(in, base, dk, a, b, w)
  BY <1>18 DEF PipeIn
<1>20. PipeIn(in, out, base, dk, a, b, w, c)
  BY <1>2, <1>6, <1>19, PipeInTty
<1>21. InTty(out, base, dk, a, b, w)
  BY <1>20 DEF PipeIn
<1>22. Enters(out, u, Root) /\ Ready(u, base, dk)
  BY <1>2, <1>7, <1>21, OutOfTty
<1>23. /\ TreeState(t) /\ TreeState(made) /\ TreeState(inside) /\ TreeState(in) /\ TreeState(out)
       /\ TreeState(u)
  <2>1. Ready(inside, base, dk) /\ Ready(in, base, dk) /\ Ready(out, base, dk)
    BY <1>16, <1>19, <1>21 DEF InTty
  <2> QED
    BY <1>15, <1>22, <2>1, ReadyIs
<1>24. /\ Keeps(t, made) /\ Keeps(made, inside) /\ Keeps(inside, in) /\ Keeps(in, out) /\ Keeps(out, u)
  BY <1>15, <1>16, <1>18, <1>20, <1>22 DEF Enters, PipeIn
<1>25. Leads(t, inside)
  BY <1>23, <1>24, LeadsOn DEF Leads
<1>26. Leads(t, in)
  BY <1>23, <1>24, <1>25, LeadsOn DEF Leads
<1>27. Leads(t, out)
  BY <1>23, <1>24, <1>26, LeadsOn DEF Leads
<1>28. Leads(t, u)
  BY <1>23, <1>24, <1>27, LeadsOn DEF Leads
<1>29. u.opened = t.opened /\ u.cwd = t.cwd
  <2>1. u.opened = out.opened /\ u.cwd = Root
    BY <1>22 DEF Enters
  <2>2. out.opened = in.opened /\ in.opened = inside.opened
    BY <1>18, <1>20 DEF PipeIn
  <2>3. inside.opened = made.opened
    BY <1>16 DEF Enters
  <2> QED
    BY <1>15, <2>1, <2>2, <2>3
<1>30. After(t, u, base, dk)
  BY <1>22, <1>28, <1>29 DEF After, Leads
<1>31. PICK ms : ms = inside.nodes
  OBVIOUS
<1>32. PICK us : us = in.nodes
  OBVIOUS
<1>33. PICK vs : vs = out.nodes
  OBVIOUS
<1>34. ms = made.nodes /\ vs = u.nodes
  BY <1>16, <1>22, <1>31, <1>33 DEF Enters
<1>35. Dir1(vs, a) /\ Pipe3(vs, a, b, c)
  BY <1>20, <1>33 DEF PipeIn, InTty
<1>36. Grows(ns, ms) /\ Grows(ms, us) /\ Grows(us, vs)
  <2>1. Keeps(t, inside)
    BY <1>25 DEF Leads
  <2>2. Grows(t.nodes, inside.nodes)
    BY <1>23, <2>1, KeepsGrows
  <2>3. Grows(inside.nodes, in.nodes)
    BY <1>23, <1>24, KeepsGrows
  <2>4. Grows(in.nodes, out.nodes)
    BY <1>23, <1>24, KeepsGrows
  <2> QED
    BY <1>10, <1>31, <1>32, <1>33, <2>2, <2>3, <2>4
<1>37. SameElsewhere(ns, ms, d) /\ StepsIn(ns, ms, d, b, "dir")
  BY <1>10, <1>13, <1>34
<1>38. SameElsewhere(ms, us, w) /\ SameElsewhere(us, vs, w)
  BY <1>18, <1>20, <1>31, <1>32, <1>33 DEF PipeIn
<1>39. Gives(ns, Root, a, d) /\ Gives(ms, Root, a, d) /\ Gives(vs, Root, a, d)
  <2>1. Gives(ns, Root, a, d)
    BY <1>11, <1>12 DEF Gives
  <2>2. Root \in 0 .. Len(ns) /\ Tree(ns)
    BY <1>36 DEF Grows, Tree, Rooted, Root
  <2>3. Root # d
    BY <1>2, <2>1, <2>2, NotTheRoot
  <2>4. Lasts(ns, ms, Root, a, d)
    BY <1>2, <1>36, <1>37, <2>1, <2>2, <2>3, StepLasts
  <2>5. Gives(ms, Root, a, d)
    BY <2>4 DEF Lasts
  <2>6. Step(us, Root, a) = Step(ms, Root, a)
    BY <1>18, <1>31, <1>32 DEF PipeIn
  <2>7. Step(vs, Root, a) = Step(us, Root, a)
    BY <1>20, <1>32, <1>33 DEF PipeIn
  <2>8. Gives(vs, Root, a, d)
    BY <2>5, <2>6, <2>7 DEF Gives
  <2> QED
    BY <2>1, <2>5, <2>8
<1>40. Gives(ms, d, b, w) /\ Gives(vs, d, b, w)
  <2>1. Step(ms, Step(ms, Root, a), b) = w /\ Dir2(ms, a, b)
    BY <1>16, <1>31 DEF InTty
  <2>2. Step(vs, Step(vs, Root, a), b) = w
    BY <1>21, <1>33 DEF InTty
  <2>3. w # NULL
    BY <2>1 DEF Dir2
  <2>4. Step(ms, Root, a) = d /\ Step(vs, Root, a) = d
    BY <1>39 DEF Gives
  <2>5. Step(ms, d, b) = w
    BY <2>1, <2>4
  <2>6. Step(vs, d, b) = w
    BY <2>2, <2>4
  <2> QED
    BY <2>3, <2>5, <2>6 DEF Gives
<1>41. ASSUME NEW y, y \notin {".", ".."}, Pipe3(ns, a, y, c) PROVE Pipe3(vs, a, y, c)
  BY <1>2, <1>35, <1>36, <1>37, <1>38, <1>39, <1>40, <1>41, PipeStays
<1> QED
  BY <1>10, <1>30, <1>34, <1>35, <1>41 DEF TtyMade

-----------------------------------------------------------------------------
(* How far the start has come. *)

PipesOpen(t) == \A i \in 1 .. Len(t.opened) : t.nodes[t.opened[i]].kind = "pipe"

\* After k steps, with more to come.
StageOf(t, k, base, dk) ==
    /\ Ready(t, base, dk) /\ t.cwd = Root /\ PipesOpen(t)
    /\ Len(t.opened) = (IF k >= 4 THEN 1 ELSE 0)
    /\ k \in 1 .. 3 => Dir1(t.nodes, "proc")
    /\ k \in 2 .. 3 => Dir2(t.nodes, "proc", "0")
    /\ k = 3 => Pipe3(t.nodes, "proc", "0", "0")
    /\ k >= 5 => Dir1(t.nodes, "dev")
    /\ k >= 6 => Pipe3(t.nodes, "dev", Ttys[1], "tty_out")

\* What is open stays a pipe.
LEMMA PipesStay ==
    ASSUME NEW t, NEW base, NEW dk, Ready(t, base, dk), PipesOpen(t), NEW u, After(t, u, base, dk)
    PROVE  PipesOpen(u) /\ u.opened = t.opened /\ Ready(u, base, dk) /\ u.cwd = t.cwd
<1>1. TreeState(t)
  BY ReadyIs
<1>2. Keeps(t, u) /\ u.opened = t.opened /\ Ready(u, base, dk) /\ u.cwd = t.cwd
  BY AfterIs
<1>3. ASSUME NEW i \in 1 .. Len(t.opened) PROVE u.nodes[t.opened[i]].kind = "pipe"
  <2>1. PICK n : n = t.opened[i]
    OBVIOUS
  <2>2. n \in 1 .. Len(t.nodes) /\ t.nodes[n].kind = "pipe"
    BY <1>1, <2>1 DEF TreeState, PipesOpen
  <2>3. u.nodes[n].kind = t.nodes[n].kind
    BY <1>2, <2>2, KindKept
  <2> QED
    BY <2>1, <2>2, <2>3
<1> QED
  BY <1>2, <1>3 DEF PipesOpen

\* And what open finds is one more.
MayOpen(t, base, dk, a, b, c) ==
    Ready(t, base, dk) /\ t.cwd = Root /\ PipesOpen(t) /\ Pipe3(t.nodes, a, b, c)

OneMore(t, u, base, dk) ==
    /\ PipesOpen(u) /\ Len(u.opened) = Len(t.opened) + 1 /\ Ready(u, base, dk)
    /\ u.cwd = Root /\ u.nodes = t.nodes /\ u.followed = "none"

\* It opens one pipe more.
LEMMA PipesMore ==
    ASSUME NEW t, NEW base, NEW dk, NEW a, NEW b, NEW c, MayOpen(t, base, dk, a, b, c),
           NEW u, u = Open(t, <<a, b, c>>)
    PROVE  OneMore(t, u, base, dk)
<1>0. Ready(t, base, dk) /\ t.cwd = Root /\ PipesOpen(t) /\ Pipe3(t.nodes, a, b, c)
  BY DEF MayOpen
<1>1. /\ TreeState(u) /\ u.nodes = t.nodes /\ u.cwd = t.cwd /\ u.followed = "none" /\ Keeps(t, u)
      /\ \E e : u.opened = Append(t.opened, e) /\ t.nodes[e].kind = "pipe"
  BY <1>0, PipeOpened
<1>2. PICK e : u.opened = Append(t.opened, e) /\ t.nodes[e].kind = "pipe"
  BY <1>1
<1>3. PICK o \in Seq(Nat) : o = t.opened
  BY <1>0, ReadyIs
<1>4. PICK r : r = u.opened
  OBVIOUS
<1>5. r = Append(o, e)
  BY <1>2, <1>3, <1>4
<1>6. /\ Len(r) = Len(o) + 1 /\ Len(o) \in Nat /\ r[Len(o) + 1] = e
      /\ \A i \in 1 .. Len(o) : r[i] = o[i]
  BY <1>5, AppendProperties
<1>7. ASSUME NEW i \in 1 .. Len(r) PROVE u.nodes[r[i]].kind = "pipe"
  <2>1. CASE i = Len(o) + 1
    BY <1>1, <1>2, <1>6, <2>1
  <2>2. CASE i \in 1 .. Len(o)
    <3>1. t.nodes[o[i]].kind = "pipe"
      BY <1>0, <1>3, <2>2 DEF PipesOpen
    <3> QED
      BY <1>1, <1>6, <2>2, <3>1
  <2> QED
    BY <1>6, <2>1, <2>2
<1>8. PipesOpen(u)
  BY <1>4, <1>7 DEF PipesOpen
<1>9. Ready(u, base, dk)
  BY <1>0, <1>1 DEF Ready
<1> QED
  BY <1>0, <1>1, <1>3, <1>4, <1>6, <1>8, <1>9 DEF OneMore

\* The names on the kernel's own ways.
LEMMA OwnNames ==
    ASSUME NEW x \in {"proc", "0", "dev", "tty_in", "tty_out"}
    PROVE  x \in Names /\ x \notin {".", ".."}
BY KernelNames

\* The first three steps and the fifth make a node in the root or below.
LEMMA StageMake ==
    ASSUME NEW t, NEW n \in {1, 2, 3, 5}, NEW base, NEW dk, Clear(dk), StageOf(t, n - 1, base, dk),
           NEW u, u = ScriptStep(t, n), n \in 1 .. Steps
    PROVE  StageOf(u, n, base, dk)
<1>1. Ready(t, base, dk) /\ t.cwd = Root /\ PipesOpen(t)
  BY DEF StageOf
<1>2. PICK p : p = "proc"
  OBVIOUS
<1>3. PICK z : z = "0"
  OBVIOUS
<1>4. PICK v : v = "dev"
  OBVIOUS
<1>5. /\ p \in Names /\ p \notin {".", ".."} /\ z \in Names /\ z \notin {".", ".."}
      /\ v \in Names /\ v \notin {".", ".."}
  BY <1>2, <1>3, <1>4, OwnNames
<1>6. ~Blocked(dk, <<p>>) /\ ~Blocked(dk, <<p, z>>) /\ ~Blocked(dk, <<p, z, z>>) /\ ~Blocked(dk, <<v>>)
  BY <1>2, <1>3, <1>4 DEF Clear
<1>7. PICK start : start = t.cwd
  OBVIOUS
<1>8. start = Root
  BY <1>1, <1>7
<1>9. After(t, u, base, dk) =>
        /\ Ready(u, base, dk) /\ u.cwd = Root /\ PipesOpen(u) /\ u.opened = t.opened
  BY <1>1, PipesStay
<1>10. CASE n = 1
  <2>1. u = Create(t, start, <<p>>, "dir")
    BY <1>2, <1>8, <1>10, ScriptIs
  <2>2. After(t, u, base, dk) /\ Dir1(u.nodes, p)
    BY <1>1, <1>5, <1>6, <1>8, <2>1, FirstMade
  <2>3. Len(t.opened) = 0
    BY <1>10 DEF StageOf
  <2> QED
    BY <1>2, <1>9, <1>10, <2>2, <2>3 DEF StageOf
<1>11. CASE n = 2
  <2>1. u = Create(t, start, <<p, z>>, "dir")
    BY <1>2, <1>3, <1>7, <1>11, ScriptIs
  <2>2. Dir1(t.nodes, p) /\ Len(t.opened) = 0
    BY <1>2, <1>11 DEF StageOf
  <2>3. After(t, u, base, dk) /\ Dir1(u.nodes, p) /\ Dir2(u.nodes, p, z)
    BY <1>1, <1>5, <1>6, <1>8, <2>1, <2>2, SecondMade
  <2> QED
    BY <1>2, <1>3, <1>9, <1>11, <2>2, <2>3 DEF StageOf
<1>12. CASE n = 3
  <2>1. PICK path : path = <<p, z, z>>
    OBVIOUS
  <2>2. u = Create(t, start, path, "pipe")
    BY <1>2, <1>3, <1>7, <1>12, <2>1, ScriptIs
  <2>3. Dir1(t.nodes, p) /\ Dir2(t.nodes, p, z) /\ Len(t.opened) = 0
    BY <1>2, <1>3, <1>12 DEF StageOf
  <2>4. path \in Seq(Names) /\ path # <<>> /\ Last(path) = z /\ Front(path) = <<p, z>>
    <3>1. PICK x \in Names : x = p
      BY <1>5
    <3>2. PICK y \in Names : y = z
      BY <1>5
    <3>3. /\ <<x, y, y>> \in Seq(Names) /\ <<x, y, y>> # <<>> /\ Last(<<x, y, y>>) = y
          /\ Front(<<x, y, y>>) = <<x, y>>
      BY ShortPaths
    <3> QED
      BY <2>1, <3>1, <3>2, <3>3
  <2>5. PICK w : w = Step(t.nodes, Step(t.nodes, Root, p), z)
    OBVIOUS
  <2>6. Tree(t.nodes) /\ start \in 1 .. Len(t.nodes) /\ start \in 0 .. Len(t.nodes)
    BY <1>1, <1>8, ReadyIs
  <2>7. vfs_navigate_to(t.nodes, start, Front(path)) = w
    <3>1. vfs_navigate_to(t.nodes, start, <<p, z>>) = Step(t.nodes, Step(t.nodes, start, p), z)
      BY <2>6, WalkTwo
    <3> QED
      BY <1>8, <2>4, <2>5, <3>1
  <2>8. /\ After(t, u, base, dk) /\ Dir1(u.nodes, p) /\ Dir2(u.nodes, p, z) /\ Pipe3(u.nodes, p, z, z)
    BY <1>1, <1>5, <1>6, <2>2, <2>3, <2>4, <2>5, <2>6, <2>7, ThirdMade
  <2> QED
    BY <1>2, <1>3, <1>9, <1>12, <2>3, <2>8 DEF StageOf
<1>13. CASE n = 5
  <2>1. u = Create(t, start, <<v>>, "dir")
    BY <1>4, <1>7, <1>13, ScriptIs
  <2>2. After(t, u, base, dk) /\ Dir1(u.nodes, v)
    BY <1>1, <1>5, <1>6, <1>8, <2>1, FirstMade
  <2>3. Len(t.opened) = 1
    BY <1>13 DEF StageOf
  <2> QED
    BY <1>4, <1>9, <1>13, <2>2, <2>3 DEF StageOf
<1> QED
  BY <1>10, <1>11, <1>12, <1>13

\* open of the pipe of the kernel's own process.
LEMMA StageOpen ==
    ASSUME NEW t, NEW n, n = 4, NEW base, NEW dk, StageOf(t, n - 1, base, dk),
           NEW u, u = ScriptStep(t, n), n \in 1 .. Steps
    PROVE  StageOf(u, n, base, dk)
<1>1. Ready(t, base, dk) /\ t.cwd = Root /\ PipesOpen(t) /\ Pipe3(t.nodes, "proc", "0", "0") /\ Len(t.opened) = 0
  BY DEF StageOf
<1>2. u = Open(t, <<"proc", "0", "0">>)
  BY ScriptIs
<1>3. PICK a : a = "proc"
  OBVIOUS
<1>4. PICK b : b = "0"
  OBVIOUS
<1>5. PICK r : r = Open(t, <<a, b, b>>)
  OBVIOUS
<1>6. MayOpen(t, base, dk, a, b, b)
  BY <1>1, <1>3, <1>4 DEF MayOpen
<1>7. OneMore(t, r, base, dk)
  BY <1>5, <1>6, PipesMore
<1>8. r = u
  BY <1>2, <1>3, <1>4, <1>5
<1> QED
  BY <1>1, <1>7, <1>8 DEF StageOf, OneMore

\* init_tty for the next terminal.
LEMMA StageTty ==
    ASSUME NEW t, NEW n \in Nat, n >= 6, n < Steps, NEW base, NEW dk, Clear(dk),
           StageOf(t, n - 1, base, dk),
           NEW u, u = ScriptStep(t, n), n \in 1 .. Steps
    PROVE  StageOf(u, n, base, dk)
<1>1. /\ Ready(t, base, dk) /\ t.cwd = Root /\ PipesOpen(t) /\ Dir1(t.nodes, "dev") /\ Len(t.opened) = 1
      /\ n > 6 => Pipe3(t.nodes, "dev", Ttys[1], "tty_out")
  BY DEF StageOf
<1>2. n - 5 \in 1 .. Len(Ttys) /\ u = init_tty(t, Ttys[n - 5])
  BY ScriptIs
<1>3. PICK b : b = Ttys[n - 5]
  OBVIOUS
<1>4. PICK y : y = Ttys[1]
  OBVIOUS
<1>5. b \in Names /\ b \notin {".", ".."} /\ y \notin {".", ".."}
  BY <1>2, <1>3, <1>4, KernelNames
<1>6. PICK v : v = "dev"
  OBVIOUS
<1>7. PICK c : c = "tty_out"
  OBVIOUS
<1>8. ~Blocked(dk, <<v, b>>) /\ ~Blocked(dk, <<v, b, "tty_in">>) /\ ~Blocked(dk, <<v, b, c>>)
  BY <1>2, <1>3, <1>6, <1>7 DEF Clear
<1>9. u = init_tty(t, b) /\ Dir1(t.nodes, v)
  BY <1>1, <1>2, <1>3, <1>6
<1>10. TtyMade(t, u, base, dk, v, b, c)
  BY <1>1, <1>5, <1>6, <1>7, <1>8, <1>9, TtyWorks
<1>11. /\ After(t, u, base, dk) /\ Dir1(u.nodes, v) /\ Pipe3(u.nodes, v, b, c)
       /\ Pipe3(t.nodes, v, y, c) => Pipe3(u.nodes, v, y, c)
  BY <1>5, <1>10 DEF TtyMade
<1>12. Ready(u, base, dk) /\ u.cwd = Root /\ PipesOpen(u) /\ u.opened = t.opened
  BY <1>1, <1>11, PipesStay
<1>13. Pipe3(u.nodes, v, y, c)
  <2>1. CASE n = 6
    <3>1. b = y
      BY <1>3, <1>4, <2>1
    <3> QED
      BY <1>11, <3>1
  <2>2. CASE n > 6
    BY <1>1, <1>4, <1>6, <1>7, <1>11, <2>2
  <2> QED
    BY <2>1, <2>2
<1>14. Pipe3(u.nodes, "dev", Ttys[1], "tty_out") /\ Dir1(u.nodes, "dev")
  BY <1>4, <1>6, <1>7, <1>11, <1>13
<1> QED
  BY <1>1, <1>12, <1>14 DEF StageOf

\* All but the last step.
LEMMA StageOn ==
    ASSUME NEW t, NEW n \in 1 .. Steps, n < Steps, NEW base, NEW dk, Clear(dk),
           StageOf(t, n - 1, base, dk), NEW u, u = ScriptStep(t, n)
    PROVE  StageOf(u, n, base, dk)
<1>1. n \in Nat /\ (n \in 1 .. 5 \/ (n >= 6 /\ n < Steps))
  BY ScriptIs
<1>2. CASE n \in {1, 2, 3, 5}
  BY <1>2, StageMake
<1>3. CASE n = 4
  BY <1>3, StageOpen
<1>4. CASE n >= 6
  BY <1>1, <1>4, StageTty
<1> QED
  BY <1>1, <1>2, <1>3, <1>4

\* The start is over.
StartOver(t) == t.followed = "none" /\ PipesOpen(t) /\ Len(t.opened) = 2

\* The last step ends the start.
LEMMA StageLast ==
    ASSUME NEW t, NEW n \in 1 .. Steps, n = Steps, NEW base, NEW dk,
           StageOf(t, n - 1, base, dk), NEW u, u = ScriptStep(t, n)
    PROVE  StartOver(u)
<1>1. n \in Nat /\ n >= 7
  BY ScriptIs
<1>2. /\ Ready(t, base, dk) /\ t.cwd = Root /\ PipesOpen(t) /\ Len(t.opened) = 1
      /\ Pipe3(t.nodes, "dev", Ttys[1], "tty_out")
  BY <1>1 DEF StageOf
<1>3. u = Open(t, <<"dev", Ttys[1], "tty_out">>)
  BY ScriptIs
<1>4. PICK a : a = "dev"
  OBVIOUS
<1>5. PICK b : b = Ttys[1]
  OBVIOUS
<1>6. PICK c : c = "tty_out"
  OBVIOUS
<1>7. PICK r : r = Open(t, <<a, b, c>>)
  OBVIOUS
<1>8. MayOpen(t, base, dk, a, b, c)
  BY <1>2, <1>4, <1>5, <1>6 DEF MayOpen
<1>9. OneMore(t, r, base, dk)
  BY <1>7, <1>8, PipesMore
<1>10. r = u
  BY <1>3, <1>4, <1>5, <1>6, <1>7
<1> QED
  BY <1>2, <1>9, <1>10 DEF StartOver, OneMore

\* The disk is in the tree, and nothing has been called yet.
LEMMA StageZero ==
    ASSUME NEW t, TreeState(t), t.cwd = Root, t.opened = <<>>, t.followed = "none",
           NEW dk, DiskAssumption(dk), Populating(t.nodes, {}, dk)
    PROVE  \E base \in Nat : StageOf(t, 0, base, dk)
<1>1. PICK ns : ns = t.nodes
  OBVIOUS
<1>2. Tree(ns) /\ FromDisk(ns, dk, Len(ns)) /\ Distinct(ns, Len(ns)) /\ Len(ns) \in Nat /\ Len(ns) >= 1
  BY <1>1, StateIs DEF Populating
<1>3. PICK base \in Nat : base = Len(ns)
  BY <1>2
<1>4. Served(ns, base, dk)
  BY <1>2, <1>3 DEF Served
<1>5. Ready(t, base, dk)
  BY <1>1, <1>4 DEF Ready
<1>6. Len(t.opened) = 0 /\ PipesOpen(t)
  BY DEF PipesOpen
<1> QED
  BY <1>5, <1>6 DEF StageOf

\* The states of the start.
Staged(t, k, dk) == \E base \in Nat : StageOf(t, k, base, dk)

StartsInv ==
    /\ TreeInv
    /\ ~Obstructed =>
         /\ script = 0 => cwd = Root /\ opened = <<>> /\ followed = "none"
         /\ script \in 1 .. (Steps - 1) => Staged(Now, script, disk)
         /\ script = Steps => StartOver(Now)

\* A step of the start.
LEMMA StartKeeps ==
    ASSUME StartsInv, KernelStart, ~Obstructed
    PROVE  /\ script' \in 1 .. Steps /\ Steps \in Nat /\ Steps >= 7
           /\ script' < Steps => Staged(Now', script', disk)
           /\ script' = Steps => StartOver(Now')
<1>1. PICK t : t = Now
  OBVIOUS
<1>2. /\ TreeState(t) /\ script \in Nat /\ Steps \in Nat /\ Steps >= 7
  BY <1>1, StartedIs DEF StartsInv
<1> HIDE DEF Steps
<1>3. todo = {} /\ script < Steps /\ Becomes(ScriptStep(t, script + 1)) /\ script' = script + 1
  BY <1>1 DEF KernelStart
<1>4. PICK n \in 1 .. Steps : n = script + 1
  BY <1>2, <1>3
<1>5. PICK k \in Nat : k = script
  BY <1>2
<1>6. PICK u : u = ScriptStep(t, n)
  OBVIOUS
<1>7. TreeState(u)
  BY <1>2, <1>6, ScriptLeads DEF Leads
<1>8. Becomes(u)
  BY <1>3, <1>4, <1>6
<1>9. Now' = u
  <2>1. nodes' = u.nodes /\ cwd' = u.cwd /\ opened' = u.opened /\ followed' = u.followed
    BY <1>8 DEF Becomes
  <2>2. u \in [nodes : Seq(NodeRecord), cwd : Nat, opened : Seq(Nat),
               followed : {"none", "NULL", "children"}]
    BY <1>7 DEF TreeState
  <2>3. u = [nodes |-> u.nodes, cwd |-> u.cwd, opened |-> u.opened, followed |-> u.followed]
    BY <2>2
  <2> QED
    BY <2>1, <2>3 DEF Now
<1>10. PICK dk : dk = disk
  OBVIOUS
<1>11. disk \in Disks
  BY DEF StartsInv, TreeInv
<1>12. DiskAssumption(dk)
  BY <1>10, <1>11, VfsAssumption, Zenon
<1>13. Clear(dk)
  BY <1>10, <1>11, ClearDisk
<1>14. Staged(t, k, dk)
  <2>1. CASE k = 0
    <3>1. cwd = Root /\ opened = <<>> /\ followed = "none" /\ Populating(nodes, {}, disk)
      BY <1>3, <1>5, <2>1 DEF StartsInv, TreeInv
    <3>2. t.nodes = nodes /\ t.cwd = cwd /\ t.opened = opened /\ t.followed = followed
      BY <1>1 DEF Now
    <3>3. t.cwd = Root /\ t.opened = <<>> /\ t.followed = "none" /\ Populating(t.nodes, {}, dk)
      BY <1>10, <3>1, <3>2
    <3> QED
      BY <1>2, <1>12, <2>1, <3>3, StageZero DEF Staged
  <2>2. CASE k # 0
    <3>1. script \in 1 .. (Steps - 1)
      BY <1>2, <1>3, <1>5, <2>2
    <3>2. Staged(Now, script, disk)
      BY <3>1 DEF StartsInv
    <3> QED
      BY <1>1, <1>5, <1>10, <3>2
  <2> QED
    BY <2>1, <2>2
<1>15. PICK base \in Nat : StageOf(t, k, base, dk)
  BY <1>14 DEF Staged
<1>16. k = n - 1
  BY <1>4, <1>5
<1>17. StageOf(t, n - 1, base, dk)
  BY <1>15, <1>16
<1>18. n < Steps => Staged(u, n, dk)
  BY <1>6, <1>13, <1>17, StageOn DEF Staged
<1>19. n = Steps => StartOver(u)
  BY <1>6, <1>17, StageLast
<1>20. script' = n
  BY <1>3, <1>4
<1> QED
  BY <1>2, <1>9, <1>10, <1>18, <1>19, <1>20

\* Every step keeps the invariant.
LEMMA StartsStep == ASSUME StartsInv, [TreeNext]_treeVars PROVE StartsInv'
<1>1. TreeInv /\ TreeInv'
  BY TreeStep DEF StartsInv
<1>2. /\ TreeState(Now) /\ script \in Nat /\ Steps \in Nat /\ Steps >= 7 /\ (script # 0 => todo = {})
  BY <1>1, StartedIs
<1> HIDE DEF Steps
<1>3. disk' = disk
  BY DEF TreeNext, vfs_recursive_populate, KernelStart, mkdir, mkfifo, chdir, treeVars
<1>4. Obstructed' <=> Obstructed
  BY <1>3 DEF Obstructed
<1>5. ASSUME ~Obstructed
      PROVE  /\ script' = 0 => cwd' = Root /\ opened' = <<>> /\ followed' = "none"
             /\ script' \in 1 .. (Steps - 1) => Staged(Now', script', disk')
             /\ script' = Steps => StartOver(Now')
  <2>1. /\ script = 0 => cwd = Root /\ opened = <<>> /\ followed = "none"
        /\ script \in 1 .. (Steps - 1) => Staged(Now, script, disk)
        /\ script = Steps => StartOver(Now)
    BY <1>5 DEF StartsInv
  <2>2. CASE vfs_recursive_populate
    <3>1. /\ \E d \in todo : TRUE
          /\ cwd' = cwd /\ script' = script /\ opened' = opened /\ followed' = followed
      BY <2>2 DEF vfs_recursive_populate
    <3>2. script = 0
      BY <1>2, <3>1
    <3> QED
      BY <1>2, <2>1, <3>1, <3>2
  <2>3. CASE KernelStart
    <3>1. /\ script' \in 1 .. Steps
          /\ script' < Steps => Staged(Now', script', disk)
          /\ script' = Steps => StartOver(Now')
      BY <1>5, <2>3, StartKeeps
    <3> QED
      BY <1>2, <1>3, <3>1
  <2>4. CASE \E path \in Paths : mkdir(path) \/ mkfifo(path)
    <3>1. script' = script + 1 /\ script >= Steps
      BY <2>4 DEF mkdir, mkfifo, Started
    <3> QED
      BY <1>2, <3>1
  <2>5. CASE \E path \in Paths : chdir(path)
    <3>1. PICK t : t = Now
      OBVIOUS
    <3>2. PICK path \in Paths : chdir(path)
      BY <2>5
    <3>3. script >= Steps /\ script' = script /\ Becomes(ChangeDir(t, path))
      BY <3>1, <3>2 DEF chdir, Started
    <3>4. PICK u : u = ChangeDir(t, path)
      OBVIOUS
    <3>5. u.nodes = t.nodes /\ u.opened = t.opened /\ u.followed = t.followed
      BY <1>2, <3>1, <3>4, PathsAre, ChangeDirIs
    <3>6. nodes' = u.nodes /\ opened' = u.opened /\ followed' = u.followed
      BY <3>3, <3>4 DEF Becomes
    <3>7. t.nodes = nodes /\ t.opened = opened /\ t.followed = followed
      BY <3>1 DEF Now
    <3>8. nodes' = nodes /\ opened' = opened /\ followed' = followed
      BY <3>5, <3>6, <3>7
    <3>9. StartOver(Now) => StartOver(Now')
      BY <3>8 DEF StartOver, PipesOpen, Now
    <3> QED
      BY <1>2, <2>1, <3>3, <3>9
  <2>6. CASE UNCHANGED treeVars
    <3>1. /\ Now' = Now /\ disk' = disk /\ script' = script
          /\ cwd' = cwd /\ opened' = opened /\ followed' = followed
      BY <2>6 DEF treeVars, Now
    <3> QED
      BY <2>1, <3>1
  <2> QED
    BY <2>2, <2>3, <2>4, <2>5, <2>6 DEF TreeNext
<1>6. (script \in 1 .. (Steps - 1) => Staged(Now, script, disk))' <=>
      (script' \in 1 .. (Steps - 1) => Staged(Now', script', disk'))
  OBVIOUS
<1>7. (script = Steps => StartOver(Now))' <=> (script' = Steps => StartOver(Now'))
  OBVIOUS
<1> QED
  BY <1>1, <1>4, <1>5, <1>6, <1>7 DEF StartsInv

\* Unless the disk has something of the wrong kind in the way, the start follows
\* no bad pointer, opens the two pipes it made and is back in the root.
THEOREM KernelStartsRight == TreeSpec => []KernelStarts
<1>1. TreeInit => StartsInv
  <2> SUFFICES ASSUME TreeInit PROVE StartsInv
    OBVIOUS
  <2>1. TreeInv /\ script = 0 /\ cwd = Root /\ opened = <<>> /\ followed = "none"
    BY TreeStart DEF TreeInit
  <2>2. Steps \in Nat /\ Steps >= 7
    BY <2>1, StartedIs
  <2> HIDE DEF Steps
  <2> QED
    BY <2>1, <2>2 DEF StartsInv
<1>2. StartsInv /\ [TreeNext]_treeVars => StartsInv'
  BY StartsStep
<1>3. StartsInv => KernelStarts
  <2> SUFFICES ASSUME StartsInv, ~Obstructed, script <= Steps
               PROVE  /\ followed = "none"
                      /\ \A i \in DOMAIN opened : nodes[opened[i]].kind = "pipe"
                      /\ Len(opened) = (IF script >= 4 THEN 1 ELSE 0) + (IF script = Steps THEN 1 ELSE 0)
                      /\ script < Steps => cwd = Root
    BY DEF KernelStarts
  <2>1. PICK t : t = Now
    OBVIOUS
  <2>2. t.nodes = nodes /\ t.cwd = cwd /\ t.opened = opened /\ t.followed = followed
    BY <2>1 DEF Now
  <2>3. TreeState(t) /\ script \in Nat /\ Steps \in Nat /\ Steps >= 7
    BY <2>1, StartedIs DEF StartsInv
  <2> HIDE DEF Steps
  <2>4. opened \in Seq(Nat) /\ DOMAIN opened = 1 .. Len(opened)
    BY <2>2, <2>3, StateIs
  <2>5. CASE script = 0
    <3>1. cwd = Root /\ opened = <<>> /\ followed = "none"
      BY <2>5 DEF StartsInv
    <3>2. Len(opened) = 0
      BY <3>1
    <3> QED
      BY <2>3, <2>4, <2>5, <3>1, <3>2
  <2>6. CASE script \in 1 .. (Steps - 1)
    <3>1. PICK k \in Nat : k = script
      BY <2>3
    <3>2. PICK dk : dk = disk
      OBVIOUS
    <3>3. Staged(t, k, dk)
      BY <2>1, <2>6, <3>1, <3>2 DEF StartsInv
    <3>4. PICK base \in Nat : StageOf(t, k, base, dk)
      BY <3>3 DEF Staged
    <3>5. /\ t.cwd = Root /\ PipesOpen(t) /\ Len(t.opened) = (IF k >= 4 THEN 1 ELSE 0)
          /\ t.followed = "none"
      BY <3>4 DEF StageOf, Ready
    <3>6. \A i \in DOMAIN opened : nodes[opened[i]].kind = "pipe"
      BY <2>2, <2>4, <3>5 DEF PipesOpen
    <3> QED
      BY <2>2, <2>3, <2>6, <3>1, <3>5, <3>6
  <2>7. CASE script = Steps
    <3>1. t.followed = "none" /\ PipesOpen(t) /\ Len(t.opened) = 2
      BY <2>1, <2>7 DEF StartsInv, StartOver
    <3>2. \A i \in DOMAIN opened : nodes[opened[i]].kind = "pipe"
      BY <2>2, <2>4, <3>1 DEF PipesOpen
    <3> QED
      BY <2>2, <2>3, <2>7, <3>1, <3>2
  <2> QED
    BY <2>3, <2>5, <2>6, <2>7
<1> QED
  BY <1>1, <1>2, <1>3, PTL DEF TreeSpec

=============================================================================
