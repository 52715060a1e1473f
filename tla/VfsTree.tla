------------------------------ MODULE VfsTree -------------------------------
(***************************************************************************)
(* The directory tree of kernel/src/vfs.c and the calls of filesystem.c    *)
(* that change it or walk it: the tree is built from the disk, the kernel  *)
(* adds its own directories and pipes and opens two of them by path, and   *)
(* then anyone calls mkdir, mkfifo and chdir.                              *)
(*                                                                         *)
(* A path is a sequence of names: the code skips leading and repeated      *)
(* slashes, so an absolute path starts at the working directory like any   *)
(* other, and only the last name can be empty (a trailing slash).  Only a  *)
(* directory has children: elsewhere the pointer is whatever kmalloc left. *)
(***************************************************************************)
EXTENDS Integers, Sequences, FiniteSets, SequencesExt

CONSTANTS
    Order,      \* every name, in the order of strcmp
    Fold,       \* what strcasecmp compares: equal for names that it equates
    Disks,      \* possible disks: the kind of each path, "dir" or "file"
    MaxLevel,   \* levels that vfs_recursive_populate descends below the root
    Ttys,       \* the name of the directory of each terminal, in order
    Paths,      \* what mkdir, mkfifo and chdir are called with
    MaxCalls    \* bound on the calls of mkdir and mkfifo

VARIABLES
    disk,
    nodes,      \* the vfs_nodes, root first: [name, kind, parent, children]
    cwd,        \* current_process->working_dir
    todo,       \* directories to populate: [node, path, level]
    script,     \* steps of the kernel's start taken, and then calls of mkdir and mkfifo
    opened,     \* what its calls of open have found
    followed    \* where a pointer that is NULL or was never set has been followed

treeVars == <<disk, nodes, cwd, todo, script, opened, followed>>

Names == {Order[i] : i \in 1 .. Len(Order)}
Rank(name) == CHOOSE i \in 1 .. Len(Order) : Order[i] = name

FoldPath(path) == [i \in DOMAIN path |-> Fold[path[i]]]

\* Of a disk: the directory of an entry is an entry, two entries of a directory
\* differ by more than their case, and only "." and ".." are not names.
DiskAssumption(d) ==
    /\ IsFiniteSet(DOMAIN d)
    /\ \A p \in DOMAIN d :
         /\ p \in Seq(Names) /\ p # <<>> /\ d[p] \in {"dir", "file"} /\ Last(p) # ""
         /\ Len(p) > 1 => /\ Front(p) \in DOMAIN d /\ d[Front(p)] = "dir"
                          /\ Last(Front(p)) \notin {".", ".."}
    /\ \A p, q \in DOMAIN d : FoldPath(p) = FoldPath(q) => p = q

ASSUME VfsAssumption ==
    /\ {"", ".", "..", "proc", "0", "dev", "tty_in", "tty_out"} \subseteq Names
    /\ Order \in Seq(Names)
    /\ Fold \in [Names -> Names]
    /\ \A x \in Names, y \in {".", ".."} : Fold[x] = Fold[y] => x = y
    /\ \A d \in Disks : DiskAssumption(d)
    /\ MaxLevel \in Nat /\ MaxCalls \in Nat
    /\ Ttys \in Seq(Names \ {"", ".", ".."}) /\ Ttys # <<>>
    /\ \A p \in Paths : p \in Seq(Names) /\ p # <<>>

Root == 1
NULL == 0
IsDirectory(n) == nodes[n].kind = "dir"

-----------------------------------------------------------------------------
vfs_get_single_entry_from_dir(ns, dir, name) ==
    LET found == {i \in DOMAIN ns[dir].children :
                    Fold[ns[ns[dir].children[i]].name] = Fold[name]}
    IN  IF ns[dir].kind # "dir" THEN NULL
        ELSE IF name = "." THEN dir
        ELSE IF name = ".." THEN ns[dir].parent
        ELSE IF found = {} THEN NULL
        ELSE ns[dir].children[CHOOSE i \in found : \A j \in found : i <= j]

\* The walk over the names of path; skip_final drops the last one.
vfs_navigate_to(ns, cur, path) ==
    LET at[i \in 0 .. Len(path)] ==
            IF i = 0 THEN cur
            ELSE IF at[i - 1] = NULL THEN NULL
            ELSE vfs_get_single_entry_from_dir(ns, at[i - 1], path[i])
    IN  at[Len(path)]

\* One turn of the loop of sorted_list_search: bounds are min and max, which
\* meet where it returns.  Counted from 0.
Narrow(ns, children, name, bounds) ==
    LET min == bounds[1]
        max == bounds[2]
        c_idx == (min + max) \div 2
        x == Rank(ns[children[c_idx + 1]].name)
    IN  IF min = max THEN bounds
        ELSE IF x = Rank(name) THEN <<c_idx, c_idx>>
        ELSE IF x < Rank(name) THEN <<c_idx + 1, max>>
        ELSE <<min, c_idx>>

\* Where it ends among children: the index of some equal name, or of the first
\* greater one.
SearchIndex(ns, children, name) ==
    LET search[k \in 0 .. Len(children)] ==
            IF k = 0 THEN <<0, Len(children)>> ELSE Narrow(ns, children, name, search[k - 1])
    IN  search[Len(children)][1]

\* Mutant: a new node comes last.
AddNodeLast(ns, dir, name, kind) ==
    Append([ns EXCEPT ![dir].children = Append(@, Len(ns) + 1)],
           [name |-> name, kind |-> kind, parent |-> dir, children |-> <<>>])

\* vfs_insert_file, and the end of vfs_create_pipe and vfs_create_folder:
\* nobody looks whether the name is taken.
AddNode(ns, dir, name, kind) ==
    Append([ns EXCEPT ![dir].children =
                InsertAt(@, SearchIndex(ns, @, name) + 1, Len(ns) + 1)],
           [name |-> name, kind |-> kind, parent |-> dir, children |-> <<>>])

\* The node, its parent, and so on up.
Ancestors(ns, n) ==
    LET above[k \in 0 .. Len(ns)] == IF k = 0 THEN n ELSE ns[above[k - 1]].parent
    IN  above

Depth(ns, n) ==
    CHOOSE k \in 0 .. Len(ns) :
        Ancestors(ns, n)[k] = Root /\ \A j \in 0 .. (k - 1) : Ancestors(ns, n)[j] # Root

\* vfs_get_full_filepath into a large enough buffer: the names from the root.
vfs_get_full_filepath(ns, n) ==
    [i \in 1 .. Depth(ns, n) |-> ns[Ancestors(ns, n)[Depth(ns, n) - i]].name]

-----------------------------------------------------------------------------
\* vfs_create_root, and what kernel.c sets up around it.
TreeInit ==
    /\ disk \in Disks
    /\ nodes = <<[name |-> "/", kind |-> "dir", parent |-> Root, children |-> <<>>]>>
    /\ cwd = Root
    /\ todo = {[node |-> Root, path |-> <<>>, level |-> MaxLevel]}
    /\ script = 0 /\ opened = <<>> /\ followed = "none"

\* The entries of a directory of the disk that fat_populate_vfs_directory
\* does not skip, in the order they are found.
DiskEntries(path) ==
    SetToSeq({p \in DOMAIN disk : Len(p) = Len(path) + 1 /\ Front(p) = path
                                  /\ Last(p) \notin {".", ".."}})

\* fat_populate_vfs_directory inserts them one by one.
Inserted(ns, dir, entries, kind) ==
    LET tree[i \in 0 .. Len(entries)] ==
            IF i = 0 THEN ns ELSE AddNode(tree[i - 1], dir, Last(entries[i]), kind[entries[i]])
    IN  tree[Len(entries)]

\* Mutant: one level too few.
PopulateOneLevelLess(level) == level > 1

DescendsAt(level) == level # 0

\* One call of vfs_recursive_populate up to its loop.
vfs_recursive_populate ==
    \E d \in todo :
        LET entries == DiskEntries(d.path)
            subdirs == {i \in 1 .. Len(entries) : disk[entries[i]] = "dir"}
        IN  /\ nodes' = Inserted(nodes, d.node, entries, disk)
            /\ todo' = (todo \ {d}) \cup
                 (IF DescendsAt(d.level)
                  THEN {[node |-> Len(nodes) + i, path |-> entries[i], level |-> d.level - 1] :
                            i \in subdirs}
                  ELSE {})
    /\ UNCHANGED <<disk, cwd, script, opened, followed>>

-----------------------------------------------------------------------------
\* vfs_create_folder and vfs_create_pipe on a tree and a place to start.
\* With a parent that is no directory they follow a pointer that was never
\* set; with none they return -1.
Create(t, start, path, kind) ==
    LET dir == vfs_navigate_to(t.nodes, start, Front(path))
    IN  IF t.followed # "none" \/ dir = NULL THEN t
        ELSE IF t.nodes[dir].kind # "dir" THEN [t EXCEPT !.followed = "children"]
        ELSE [t EXCEPT !.nodes = AddNode(@, dir, Last(path), kind)]

\* chdir does not ask for a directory.
ChangeDir(t, path) ==
    LET to == vfs_navigate_to(t.nodes, t.cwd, path)
    IN  IF to = NULL \/ t.followed # "none" THEN t ELSE [t EXCEPT !.cwd = to]

\* vfs_open counts references through what vfs_navigate_to returned.
Open(t, path) ==
    LET file == vfs_navigate_to(t.nodes, t.cwd, path)
    IN  IF t.followed # "none" THEN t
        ELSE IF file = NULL THEN [t EXCEPT !.followed = "NULL"]
        ELSE [t EXCEPT !.opened = Append(@, file)]

\* Mutant: one level up instead of two.
InitTtyStaysBelow(t, tty) ==
    LET made == Create(t, t.cwd, <<"dev", tty>>, "dir")
        inside == ChangeDir(made, <<"dev", tty>>)
        in == Create(inside, inside.cwd, <<"tty_in">>, "pipe")
        out == Create(in, in.cwd, <<"tty_out">>, "pipe")
    IN  ChangeDir(out, <<"..">>)

\* init_tty, with interrupts off.
init_tty(t, tty) ==
    LET made == Create(t, t.cwd, <<"dev", tty>>, "dir")
        inside == ChangeDir(made, <<"dev", tty>>)
        in == Create(inside, inside.cwd, <<"tty_in">>, "pipe")
        out == Create(in, in.cwd, <<"tty_out">>, "pipe")
    IN  ChangeDir(out, <<"..", "..">>)

\* What kernel.c does to the tree, step by step.
Steps == 6 + Len(Ttys)

ScriptStep(t, n) ==
    CASE n = 1 -> Create(t, Root, <<"proc">>, "dir")
      [] n = 2 -> Create(t, t.cwd, <<"proc", "0">>, "dir")
      [] n = 3 -> Create(t, t.cwd, <<"proc", "0", "0">>, "pipe")
      [] n = 4 -> Open(t, <<"proc", "0", "0">>)
      [] n = 5 -> Create(t, t.cwd, <<"dev">>, "dir")
      [] n \in 6 .. (Steps - 1) -> init_tty(t, Ttys[n - 5])
      [] n = Steps -> Open(t, <<"dev", Ttys[1], "tty_out">>)

Becomes(t) ==
    nodes' = t.nodes /\ cwd' = t.cwd /\ opened' = t.opened /\ followed' = t.followed

Now == [nodes |-> nodes, cwd |-> cwd, opened |-> opened, followed |-> followed]

KernelStart ==
    /\ todo = {} /\ followed = "none" /\ script < Steps
    /\ Becomes(ScriptStep(Now, script + 1))
    /\ script' = script + 1
    /\ UNCHANGED <<disk, todo>>

\* The calls of filesystem.c, once the kernel has started.
Started == script >= Steps /\ followed = "none"

mkdir(path) ==
    /\ Started /\ script < Steps + MaxCalls
    /\ Becomes(Create(Now, cwd, path, "dir"))
    /\ script' = script + 1
    /\ UNCHANGED <<disk, todo>>

mkfifo(path) ==
    /\ Started /\ script < Steps + MaxCalls
    /\ Becomes(Create(Now, cwd, path, "pipe"))
    /\ script' = script + 1
    /\ UNCHANGED <<disk, todo>>

chdir(path) ==
    /\ Started
    /\ Becomes(ChangeDir(Now, path))
    /\ UNCHANGED <<disk, todo, script>>

TreeNext ==
    \/ vfs_recursive_populate
    \/ KernelStart
    \/ \E path \in Paths : mkdir(path) \/ mkfifo(path) \/ chdir(path)

TreeSpec == TreeInit /\ [][TreeNext]_treeVars

-----------------------------------------------------------------------------
\* The nodes between the root and n, n included.
Above(ns, n) == {Ancestors(ns, n)[k] : k \in 0 .. (Depth(ns, n) - 1)}

\* Nothing on the way to n has a name that lookup takes for another's.
Unmistakable(ns, n) ==
    \A m \in Above(ns, n) :
        /\ ns[m].name \notin {"", ".", ".."}
        /\ \A i \in DOMAIN ns[ns[m].parent].children :
             LET s == ns[ns[m].parent].children[i]
             IN  Fold[ns[s].name] = Fold[ns[m].name] => s = m

\* Type invariant.
TreeTypeOK ==
    /\ disk \in Disks
    /\ nodes \in Seq([name : Names \cup {"/"}, kind : {"dir", "file", "pipe"},
                      parent : DOMAIN nodes, children : Seq(DOMAIN nodes)])
    /\ cwd \in DOMAIN nodes
    /\ \A d \in todo : d.node \in DOMAIN nodes /\ d.level \in 0 .. MaxLevel
    /\ script \in 0 .. (Steps + MaxCalls) /\ opened \in Seq(DOMAIN nodes)
    /\ followed \in {"none", "NULL", "children"}

(***************************************************************************)
(* What getcwd prints leads back: the path of every node, followed from    *)
(* the root, ends at that node, whatever mkdir, mkfifo and chdir did in    *)
(* between, unless a name on the way is one that lookup cannot tell.  The  *)
(* children of every directory are kept in the order of their names, each  *)
(* with the directory as its parent.                                       *)
(***************************************************************************)
PathsLeadBack ==
    \A n \in DOMAIN nodes :
        /\ Unmistakable(nodes, n) =>
             vfs_navigate_to(nodes, Root, vfs_get_full_filepath(nodes, n)) = n
        /\ \A i, j \in DOMAIN nodes[n].children :
             i < j => Rank(nodes[nodes[n].children[i]].name)
                        <= Rank(nodes[nodes[n].children[j]].name)
        /\ n # Root =>
             \E i \in DOMAIN nodes[nodes[n].parent].children :
                \A d \in DOMAIN nodes : \A j \in DOMAIN nodes[d].children :
                    nodes[d].children[j] = n <=> d = nodes[n].parent /\ j = i

(***************************************************************************)
(* vfs_recursive_populate shows the disk as it is: when it has finished,   *)
(* every entry down to the deepest level it visits is found by its path,   *)
(* in any mixture of cases, with its kind.                                 *)
(***************************************************************************)
DiskListed ==
    (todo = {} /\ script = 0) =>
        \A p \in DOMAIN disk, q \in DOMAIN disk \cup {FoldPath(p) : p \in DOMAIN disk} :
            (/\ Len(p) <= MaxLevel + 1 /\ FoldPath(p) = FoldPath(q)
             /\ Last(p) \notin {".", ".."}) =>
                LET n == vfs_navigate_to(nodes, Root, q)
                IN  n # NULL /\ nodes[n].name = Last(p) /\ nodes[n].kind = disk[p]

\* What the kernel's start creates.
KernelPipes == {<<"proc", "0", "0">>} \cup
               UNION {{<<"dev", Ttys[i], "tty_in">>, <<"dev", Ttys[i], "tty_out">>} : i \in 1 .. Len(Ttys)}
KernelDirs == {SubSeq(p, 1, k) : p \in KernelPipes, k \in {1, 2}}

\* The disk has a file in place of such a directory, or anything in place of
\* such a pipe, and its name comes first.
Obstructed ==
    \E p \in DOMAIN disk, q \in KernelPipes \cup KernelDirs :
        /\ FoldPath(p) = FoldPath(q) /\ Rank(Last(p)) < Rank(Last(q))
        /\ q \in KernelPipes \/ disk[p] = "file"

(***************************************************************************)
(* The kernel's own directories and pipes come after the disk's and may    *)
(* have the same names.  Unless the disk has something of the wrong kind   *)
(* under a name that sorts first, the start never follows a bad pointer,   *)
(* each open finds the pipe that was created for it, and the working       *)
(* directory is the root again, from which the next absolute path starts.  *)
(***************************************************************************)
KernelStarts ==
    (~Obstructed /\ script <= Steps) =>
        /\ followed = "none"
        /\ \A i \in DOMAIN opened : nodes[opened[i]].kind = "pipe"
        /\ Len(opened) = (IF script >= 4 THEN 1 ELSE 0) + (IF script = Steps THEN 1 ELSE 0)
        /\ script < Steps => cwd = Root
=============================================================================
