----------------------------- MODULE SortedList -----------------------------
(***************************************************************************)
(* kernel/src/sorted_list.c: a growable array of pointers kept in the      *)
(* order of their keys.  The descriptor table keeps its entries in one,    *)
(* by descriptor, and every directory its children, by name.  One step per *)
(* iteration of the binary search.                                         *)
(*                                                                         *)
(* Nothing checks an index against the capacity: the array is read and     *)
(* written one place behind the last element, and it is the growth rule    *)
(* that must leave room there.                                             *)
(***************************************************************************)
EXTENDS Integers

CONSTANTS
    Elements,   \* what the pointers point to
    KeyOf,      \* the key of each element
    Keys,       \* what sorted_list_get is called with
    NoElement   \* a slot that holds no pointer: NULL, or never written

ASSUME SortedListAssumption ==
    /\ NoElement \notin Elements
    /\ Keys \subseteq Int
    /\ KeyOf \in [Elements -> Keys]

VARIABLES
    data, size, capacity,   \* *l
    pc, op, arg, key,       \* the call in progress, its element and its key
    min, max, c_idx,        \* locals of sorted_list_search
    got,                    \* what the last sorted_list_get returned
    members                 \* history: inserted and not removed

list == <<data, size, capacity>>
vars == <<list, pc, op, arg, key, min, max, c_idx, got, members>>

VECTOR_BASE_CAPACITY == 1

\* element_cmp and search_cmp: the sign of a difference of keys.
Cmp(i) == KeyOf[data[i]] - key

-----------------------------------------------------------------------------
(* Mutants, each the bug its name says, for the runs to catch. *)

GrowLate(n) == capacity = n

HighSkipsOne ==
    /\ pc = "search" /\ min # max
    /\ Cmp(c_idx) > 0
    /\ max' = IF c_idx > min THEN c_idx - 1 ELSE c_idx
    /\ c_idx' = (min + max') \div 2
    /\ UNCHANGED <<list, pc, op, arg, key, min, got, members>>

LowKeepsMiddle ==
    /\ pc = "search" /\ min # max
    /\ Cmp(c_idx) < 0
    /\ min' = c_idx
    /\ c_idx' = (min' + max) \div 2
    /\ UNCHANGED <<list, pc, op, arg, key, max, got, members>>

InsertOverwrites ==
    /\ pc = "at" /\ op = "insert"
    /\ data' = [data EXCEPT ![c_idx] = arg]
    /\ size' = size + 1
    /\ members' = members \cup {arg}
    /\ pc' = "idle"
    /\ UNCHANGED <<capacity, op, arg, key, min, max, c_idx, got>>

-----------------------------------------------------------------------------
\* create_sorted_list
Init ==
    /\ capacity = VECTOR_BASE_CAPACITY /\ size = 0
    /\ data = [i \in 0..(capacity - 1) |-> NoElement]
    /\ pc = "idle" /\ op = "none" /\ arg = NoElement /\ key \in Keys
    /\ min = 0 /\ max = 0 /\ c_idx = 0
    /\ got = NoElement /\ members = {}

\* Nothing was ever inserted: the first insertion grows the list.
NeverGrown == capacity = VECTOR_BASE_CAPACITY

\* Entry of sorted_list_search.
Search(k) ==
    /\ key' = k /\ min' = 0 /\ max' = size /\ c_idx' = size \div 2
    /\ pc' = "search"

\* The array has one free place left when it holds n elements.
MustGrow(n) == capacity = n + 1

\* resize_sorted_list to twice the capacity.
Grown == [i \in 0..(2 * capacity - 1) |-> IF i < capacity THEN data[i] ELSE NoElement]

sorted_list_insert(e) ==
    /\ pc = "idle" /\ e \notin members
    /\ op' = "insert" /\ arg' = e
    /\ capacity' = IF MustGrow(size) THEN 2 * capacity ELSE capacity
    /\ LET room == IF MustGrow(size) THEN Grown ELSE data
       IN  \/ /\ size = 0
              /\ data' = [room EXCEPT ![0] = e]
              /\ size' = 1 /\ members' = members \cup {e}
              /\ UNCHANGED <<pc, key, min, max, c_idx>>
           \/ /\ size # 0
              /\ data' = room
              /\ Search(KeyOf[e])
              /\ UNCHANGED <<size, members>>
    /\ UNCHANGED got

\* Only descriptors are removed, and no two have the same key.
sorted_list_remove(e) ==
    /\ pc = "idle" /\ e \in members
    /\ \A f \in members : KeyOf[f] = KeyOf[e] => f = e
    /\ op' = "remove" /\ arg' = e
    /\ Search(KeyOf[e])
    /\ UNCHANGED <<list, got, members>>

sorted_list_get(k) ==
    /\ pc = "idle"
    /\ op' = "get" /\ arg' = NoElement
    /\ Search(k)
    /\ UNCHANGED <<list, got, members>>

Hit ==
    /\ pc = "search" /\ min # max
    /\ Cmp(c_idx) = 0
    /\ pc' = "at"
    /\ UNCHANGED <<list, op, arg, key, min, max, c_idx, got, members>>

Low ==
    /\ pc = "search" /\ min # max
    /\ Cmp(c_idx) < 0
    /\ min' = c_idx + 1
    /\ c_idx' = (min' + max) \div 2
    /\ UNCHANGED <<list, pc, op, arg, key, max, got, members>>

High ==
    /\ pc = "search" /\ min # max
    /\ Cmp(c_idx) > 0
    /\ max' = c_idx
    /\ c_idx' = (min + max') \div 2
    /\ UNCHANGED <<list, pc, op, arg, key, min, got, members>>

Miss ==
    /\ pc = "search" /\ min = max
    /\ c_idx' = min
    /\ pc' = "at"
    /\ UNCHANGED <<list, op, arg, key, min, max, got, members>>

\* memmove one place up, and the element goes into the gap.
InsertAt ==
    /\ pc = "at" /\ op = "insert"
    /\ data' = [i \in DOMAIN data |->
                  IF i = c_idx THEN arg
                  ELSE IF c_idx < i /\ i <= size THEN data[i - 1]
                  ELSE data[i]]
    /\ size' = size + 1
    /\ members' = members \cup {arg}
    /\ pc' = "idle"
    /\ UNCHANGED <<capacity, op, arg, key, min, max, c_idx, got>>

\* memmove one place down, which reads the place behind the last element.
RemoveAt ==
    /\ pc = "at" /\ op = "remove"
    /\ data' = [i \in DOMAIN data |->
                  IF i = size - 1 THEN NoElement
                  ELSE IF c_idx <= i /\ i < size THEN data[i + 1]
                  ELSE data[i]]
    /\ size' = size - 1
    /\ members' = members \ {arg}
    /\ pc' = "idle"
    /\ UNCHANGED <<capacity, op, arg, key, min, max, c_idx, got>>

\* The element found is compared once more.  The place behind the last element
\* is NULL: krealloc clears what it adds, and removal clears what it gives up.
\* NULL is what comes of it then, whatever the comparison reads there.  Only the
\* one place of a list that never grew was not written, and may hold anything.
GetAt ==
    /\ pc = "at" /\ op = "get"
    /\ got' \in IF NeverGrown THEN Elements \cup {NoElement}
                ELSE IF data[c_idx] # NoElement /\ Cmp(c_idx) = 0 THEN {data[c_idx]}
                ELSE {NoElement}
    /\ pc' = "idle"
    /\ UNCHANGED <<list, op, arg, key, min, max, c_idx, members>>

Call == \/ \E e \in Elements : sorted_list_insert(e) \/ sorted_list_remove(e)
        \/ \E k \in Keys : sorted_list_get(k)

Step == Hit \/ Low \/ High \/ Miss \/ InsertAt \/ RemoveAt \/ GetAt

Next == Call \/ Step

Spec == Init /\ [][Next]_vars

\* A call in progress keeps executing.
FairSpec == Spec /\ WF_vars(Step)

-----------------------------------------------------------------------------
(* Properties. *)

\* The locals of the search stay natural numbers (the code's are unsigned and
\* would wrap) and the array is as long as its capacity.
TypeOK ==
    /\ capacity \in Nat \ {0} /\ size \in Nat
    /\ data \in [0..(capacity - 1) -> Elements \cup {NoElement}]
    /\ pc \in {"idle", "search", "at"}
    /\ op \in {"none", "insert", "remove", "get"}
    /\ arg \in Elements \cup {NoElement} /\ key \in Keys
    /\ min \in Nat /\ max \in Nat /\ c_idx \in Nat
    /\ got \in Elements \cup {NoElement} /\ members \subseteq Elements

\* There is always a free place behind the last element: the two memmoves and
\* the comparison in sorted_list_get stay inside the allocation.  During an
\* insertion the growth has already happened and there are two.
SpareSlot == /\ size < capacity
             /\ pc # "idle" /\ op = "insert" => size + 1 < capacity

Used == 0..(size - 1)

\* The array is in the order of the keys, which the binary search relies on
\* and every insertion and removal could break.
Sorted == \A i, j \in Used : i < j => KeyOf[data[i]] <= KeyOf[data[j]]

\* The array holds what was inserted and not removed, each element once.
MembersExact ==
    /\ \A i \in Used : data[i] \in members
    /\ \A e \in members : \E i \in Used : data[i] = e
    /\ \A i, j \in Used : data[i] = data[j] => i = j

\* On a list that anything was ever inserted into, sorted_list_get finds an
\* element with the key if there is one, and returns no element if there is none.
GetExact ==
    pc = "idle" /\ op = "get" /\ ~NeverGrown =>
        IF \E e \in members : KeyOf[e] = key
        THEN got \in members /\ KeyOf[got] = key
        ELSE got = NoElement

\* Every call returns: the search interval shrinks.
CallsReturn == (pc # "idle") ~> (pc = "idle")
=============================================================================
