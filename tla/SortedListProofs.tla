-------------------------- MODULE SortedListProofs --------------------------
(***************************************************************************)
(* The sorted list for any set of elements, any keys and any length.  The  *)
(* strengthening is the loop invariant of the binary search (SearchInv),   *)
(* what it leaves behind when it ends (FoundInv), and what the call in     *)
(* progress knows of its argument (CallInv).                               *)
(***************************************************************************)
EXTENDS SortedList, TLAPS

K(i) == KeyOf[data[i]]

\* Everything below min is smaller than the key, everything from max larger.
SearchInv ==
    pc = "search" =>
        /\ min <= max /\ max <= size
        /\ min # max => min <= c_idx /\ c_idx < max
        /\ \A i \in Used : i < min => K(i) < key
        /\ \A i \in Used : max <= i => K(i) > key

\* c_idx is where the key belongs, and where it is if it is anywhere.
FoundInv ==
    pc = "at" =>
        /\ c_idx <= size
        /\ \A i \in Used : i < c_idx => K(i) <= key
        /\ \A i \in Used : c_idx <= i => K(i) >= key
        /\ \/ c_idx < size /\ K(c_idx) = key
           \/ \A i \in Used : K(i) # key

CallInv ==
    pc # "idle" =>
        /\ op # "none"
        /\ op = "insert" => arg \in Elements \ members /\ key = KeyOf[arg]
        /\ op = "remove" => /\ arg \in members /\ key = KeyOf[arg]
                            /\ \A f \in members : KeyOf[f] = key => f = arg

\* The places behind the last element hold no pointer.
FreeBlank == \A i \in 0..(capacity - 1) : size <= i => data[i] = NoElement

IInv == TypeOK /\ SpareSlot /\ MembersExact /\ Sorted /\ FreeBlank
        /\ SearchInv /\ FoundInv /\ CallInv /\ GetExact

-----------------------------------------------------------------------------
\* The elements in use have integer keys.
LEMMA KeysInt ==
    ASSUME TypeOK, SpareSlot, MembersExact
    PROVE  /\ \A i \in Used : data[i] \in Elements /\ K(i) \in Int
           /\ key \in Int /\ \A e \in Elements : KeyOf[e] \in Int
           /\ Used \subseteq 0..(capacity - 1)
<1> USE SortedListAssumption
<1>1. key \in Int /\ \A e \in Elements : KeyOf[e] \in Int
  BY DEF TypeOK
<1>2. Used \subseteq 0..(capacity - 1)
  BY DEF TypeOK, SpareSlot, Used
<1>3. \A i \in Used : data[i] \in Elements
  BY DEF MembersExact, TypeOK
<1> QED
  BY <1>1, <1>2, <1>3 DEF K

LEMMA HalfBetween == ASSUME NEW a \in Nat, NEW b \in Nat, a < b
                     PROVE  (a + b) \div 2 \in Nat /\ a <= (a + b) \div 2 /\ (a + b) \div 2 < b
OBVIOUS

LEMMA ZeroIn == \A n \in Nat : 0 < n => 0 \in 0..(n - 1)
OBVIOUS

LEMMA InvInit == Init => IInv
<1> SUFFICES ASSUME Init PROVE IInv
  OBVIOUS
<1> USE SortedListAssumption DEF Init, VECTOR_BASE_CAPACITY
<1>1. TypeOK
  BY DEF TypeOK
<1>2. SpareSlot /\ SearchInv /\ FoundInv /\ CallInv /\ GetExact
  BY DEF SpareSlot, SearchInv, FoundInv, CallInv, GetExact
<1>3. Used = {}
  BY DEF Used
<1>4. MembersExact /\ Sorted
  BY <1>3 DEF MembersExact, Sorted
<1>5. FreeBlank
  BY DEF FreeBlank
<1> QED
  BY <1>1, <1>2, <1>4, <1>5 DEF IInv

\* What entering the search establishes.  The insertion may have grown the
\* array, but what is in use is still in place.
LEMMA SearchStarts ==
    ASSUME TypeOK, NEW k \in Keys, Search(k), size' = size
    PROVE  /\ SearchInv' /\ FoundInv'
           /\ min' \in Nat /\ max' \in Nat /\ c_idx' \in Nat /\ key' \in Keys
<1>1. size \in Nat /\ (size # 0 => 0 <= size \div 2 /\ size \div 2 < size)
      /\ size \div 2 \in Nat
  BY DEF TypeOK
<1>2. FoundInv'
  BY DEF FoundInv, Search
<1>3. SearchInv'
  BY <1>1 DEF SearchInv, Search, Used, K
<1> QED
  BY <1>1, <1>2, <1>3 DEF Search

\* A step that leaves the elements in use and the members alone keeps the
\* list's own invariants.
LEMMA ListKept ==
    ASSUME size' = size, members' = members, \A i \in Used : data'[i] = data[i],
           MembersExact, Sorted
    PROVE  MembersExact' /\ Sorted'
<1>1. Used' = Used
  BY DEF Used
<1>2. MembersExact'
  BY <1>1 DEF MembersExact
<1>3. Sorted'
  BY <1>1 DEF Sorted
<1> QED
  BY <1>2, <1>3

-----------------------------------------------------------------------------
(* The calls. *)

LEMMA InsertStep == ASSUME IInv, NEW e \in Elements, sorted_list_insert(e)
                    PROVE  IInv'
<1> USE SortedListAssumption
<1> TypeOK /\ SpareSlot /\ MembersExact /\ Sorted /\ FreeBlank
  BY DEF IInv
<1> DEFINE room == IF MustGrow(size) THEN Grown ELSE data
<1>1. /\ capacity' \in Nat \ {0} /\ size + 1 < capacity' /\ capacity <= capacity'
      /\ room \in [0..(capacity' - 1) -> Elements \cup {NoElement}]
      /\ \A i \in 0..(capacity - 1) : room[i] = data[i]
      /\ \A i \in 0..(capacity' - 1) : size <= i => room[i] = NoElement
  <2>1. CASE MustGrow(size)
    <3>1. /\ capacity' = 2 * capacity /\ capacity = size + 1
          /\ capacity \in Nat \ {0} /\ size \in Nat
      BY <2>1 DEF sorted_list_insert, TypeOK, MustGrow
    <3>2. CASE size = 0
      \* The first insertion grows the array to two places.
      BY <2>1, <3>1, <3>2 DEF Grown, TypeOK, FreeBlank
    <3>3. CASE size # 0
      BY <2>1, <3>1, <3>3 DEF Grown, TypeOK, FreeBlank
    <3> QED
      BY <3>2, <3>3
  <2>2. CASE ~MustGrow(size)
    BY <2>2 DEF sorted_list_insert, TypeOK, MustGrow, SpareSlot, FreeBlank
  <2> QED
    BY <2>1, <2>2
<1> HIDE DEF room
<1>2. KeyOf[e] \in Keys /\ size \in Nat /\ Used \subseteq 0..(capacity - 1)
  BY DEF TypeOK, Used, SpareSlot
<1>3. CASE size = 0
  <2>1. /\ data' = [room EXCEPT ![0] = e] /\ size' = 1 /\ members' = members \cup {e}
        /\ pc = "idle" /\ pc' = "idle" /\ op' = "insert" /\ arg' = e
        /\ UNCHANGED <<key, min, max, c_idx, got>>
    BY <1>3 DEF sorted_list_insert, room
  <2>2. data'[0] = e /\ data' \in [0..(capacity' - 1) -> Elements \cup {NoElement}]
    <3>1. 0 \in 0..(capacity' - 1)
      <4>1. capacity' \in Nat /\ 0 < capacity'
        BY <1>1
      <4> QED
        BY <4>1, ZeroIn
    <3>2. room \in [0..(capacity' - 1) -> Elements \cup {NoElement}]
      BY <1>1
    <3> DEFINE D == 0..(capacity' - 1)
    <3> HIDE DEF D
    <3> QED
      BY <2>1, <3>1, <3>2 DEF D
  <2>3. TypeOK'
    BY <1>1, <2>1, <2>2 DEF TypeOK
  <2>4. Used' = {0} /\ members = {}
    BY <1>3, <2>1 DEF Used, MembersExact
  <2>5. MembersExact' /\ Sorted'
    BY <2>1, <2>2, <2>4 DEF MembersExact, Sorted
  <2>6. SpareSlot'
    BY <1>1, <1>3, <2>1 DEF SpareSlot
  <2>7. SearchInv' /\ FoundInv' /\ CallInv' /\ GetExact'
    BY <2>1 DEF SearchInv, FoundInv, CallInv, GetExact
  <2>8. FreeBlank'
    <3> SUFFICES ASSUME NEW i \in 0..(capacity' - 1), 1 <= i PROVE data'[i] = NoElement
      BY <2>1 DEF FreeBlank
    <3>1. i # 0 /\ size <= i
      BY <1>3
    <3>2. room[i] = NoElement
      BY <1>1, <3>1
    <3>3. room \in [0..(capacity' - 1) -> Elements \cup {NoElement}]
      BY <1>1
    <3> QED
      BY <2>1, <3>1, <3>2, <3>3
  <2> QED
    BY <2>3, <2>5, <2>6, <2>7, <2>8 DEF IInv
<1>4. CASE size # 0
  <2>1. /\ data' = room /\ size' = size /\ members' = members
        /\ Search(KeyOf[e]) /\ pc' = "search" /\ key' = KeyOf[e]
        /\ op' = "insert" /\ arg' = e /\ got' = got /\ e \notin members
    BY <1>4 DEF sorted_list_insert, Search, room
  <2>2. SearchInv' /\ FoundInv' /\ min' \in Nat /\ max' \in Nat /\ c_idx' \in Nat
    BY <1>2, <2>1, SearchStarts
  <2>3. TypeOK'
    BY <1>1, <1>2, <2>1, <2>2 DEF TypeOK
  <2>4. MembersExact' /\ Sorted'
    BY <1>1, <1>2, <2>1, ListKept
  <2>5. SpareSlot' /\ CallInv' /\ GetExact'
    BY <1>1, <1>2, <2>1 DEF SpareSlot, CallInv, GetExact
  <2>6. FreeBlank'
    BY <1>1, <2>1 DEF FreeBlank
  <2> QED
    BY <2>2, <2>3, <2>4, <2>5, <2>6 DEF IInv
<1> QED
  BY <1>3, <1>4

LEMMA RemoveStep == ASSUME IInv, NEW e \in Elements, sorted_list_remove(e)
                    PROVE  IInv'
<1> USE SortedListAssumption
<1>1. TypeOK /\ SpareSlot /\ MembersExact /\ Sorted
  BY DEF IInv
<1>2. /\ Search(KeyOf[e]) /\ KeyOf[e] \in Keys /\ pc' = "search" /\ key' = KeyOf[e]
      /\ op' = "remove" /\ arg' = e /\ e \in members
      /\ \A f \in members : KeyOf[f] = KeyOf[e] => f = e
      /\ UNCHANGED <<data, size, capacity, got, members>>
  BY DEF sorted_list_remove, Search, list
<1>3. SearchInv' /\ FoundInv' /\ min' \in Nat /\ max' \in Nat /\ c_idx' \in Nat
  BY <1>1, <1>2, SearchStarts
<1>4. TypeOK'
  BY <1>1, <1>2, <1>3 DEF TypeOK
<1>5. MembersExact' /\ Sorted'
  BY <1>1, <1>2, ListKept
<1>6. SpareSlot' /\ CallInv' /\ GetExact'
  BY <1>1, <1>2 DEF SpareSlot, CallInv, GetExact
<1>7. FreeBlank'
  BY <1>2 DEF IInv, FreeBlank
<1> QED
  BY <1>3, <1>4, <1>5, <1>6, <1>7 DEF IInv

LEMMA GetStep == ASSUME IInv, NEW k \in Keys, sorted_list_get(k)
                 PROVE  IInv'
<1>1. TypeOK /\ SpareSlot /\ MembersExact /\ Sorted
  BY DEF IInv
<1>2. /\ Search(k) /\ pc' = "search" /\ op' = "get" /\ arg' = NoElement
      /\ UNCHANGED <<data, size, capacity, got, members>>
  BY DEF sorted_list_get, Search, list
<1>3. /\ SearchInv' /\ FoundInv' /\ min' \in Nat /\ max' \in Nat /\ c_idx' \in Nat
      /\ key' \in Keys
  BY <1>1, <1>2, SearchStarts
<1>4. TypeOK'
  BY <1>1, <1>2, <1>3 DEF TypeOK
<1>5. MembersExact' /\ Sorted'
  BY <1>1, <1>2, ListKept
<1>6. SpareSlot' /\ CallInv' /\ GetExact'
  BY <1>1, <1>2 DEF SpareSlot, CallInv, GetExact
<1>7. FreeBlank'
  BY <1>2 DEF IInv, FreeBlank
<1> QED
  BY <1>3, <1>4, <1>5, <1>6, <1>7 DEF IInv

-----------------------------------------------------------------------------
(* The search. *)

\* What a step of the search leaves alone.
SearchKeeps == UNCHANGED <<data, size, capacity, op, arg, key, got, members>>

LEMMA SearchFrame ==
    ASSUME IInv, pc = "search", pc' \in {"search", "at"}, SearchKeeps,
           min' \in Nat, max' \in Nat, c_idx' \in Nat
    PROVE  /\ TypeOK' /\ SpareSlot' /\ MembersExact' /\ Sorted' /\ FreeBlank'
           /\ CallInv' /\ GetExact'
<1> USE DEF IInv, SearchKeeps
<1>1. TypeOK'
  BY DEF TypeOK
<1>2. MembersExact' /\ Sorted'
  BY ListKept
<1>3. SpareSlot' /\ CallInv' /\ GetExact' /\ FreeBlank'
  BY DEF SpareSlot, CallInv, GetExact, FreeBlank
<1> QED
  BY <1>1, <1>2, <1>3

\* The middle element is one in use, with an integer key.
LEMMA Middle ==
    ASSUME IInv, pc = "search"
    PROVE  /\ min \in Nat /\ max \in Nat /\ c_idx \in Nat /\ size \in Nat
           /\ min <= max /\ max <= size /\ key \in Int
           /\ min # max => min <= c_idx /\ c_idx < max /\ c_idx \in Used
           /\ \A i \in Used : K(i) \in Int
<1>1. /\ min \in Nat /\ max \in Nat /\ c_idx \in Nat /\ size \in Nat
  BY DEF IInv, TypeOK
<1>2. min <= max /\ max <= size /\ (min # max => min <= c_idx /\ c_idx < max)
  BY DEF IInv, SearchInv
<1>3. key \in Int /\ \A i \in Used : K(i) \in Int
  BY KeysInt DEF IInv
<1>4. min # max => c_idx \in Used
  BY <1>1, <1>2 DEF Used
<1> QED
  BY <1>1, <1>2, <1>3, <1>4

\* The elements in use are in order, also read through K.
LEMMA Ordered == ASSUME Sorted, NEW i \in Used, NEW j \in Used, i < j
                 PROVE  K(i) <= K(j)
BY DEF Sorted, K

LEMMA HitStep == ASSUME IInv, Hit PROVE IInv'
<1>1. /\ SearchKeeps /\ pc = "search" /\ pc' = "at" /\ min # max
      /\ UNCHANGED <<min, max, c_idx>> /\ KeyOf[data[c_idx]] - key = 0
  BY DEF Hit, SearchKeeps, list, Cmp
<1>2. /\ c_idx \in Used /\ c_idx < size /\ c_idx \in Nat /\ min \in Nat /\ max \in Nat
      /\ size \in Nat /\ key \in Int /\ \A i \in Used : K(i) \in Int
  BY <1>1, Middle
<1>3. K(c_idx) = key
  <2>1. K(c_idx) \in Int /\ K(c_idx) - key = 0
    BY <1>1, <1>2 DEF K
  <2> QED
    BY <1>2, <2>1
<1>4. FoundInv'
  <2>1. \A i \in Used : (i < c_idx => K(i) <= key) /\ (c_idx <= i => K(i) >= key)
    <3> SUFFICES ASSUME NEW i \in Used
                 PROVE  (i < c_idx => K(i) <= key) /\ (c_idx <= i => K(i) >= key)
      OBVIOUS
    <3>1. i \in Int /\ K(i) \in Int
      BY <1>2 DEF Used
    <3>2. i < c_idx => K(i) <= K(c_idx)
      BY <1>2, Ordered DEF IInv
    <3>3. c_idx < i => K(c_idx) <= K(i)
      BY <1>2, Ordered DEF IInv
    <3> QED
      BY <1>2, <1>3, <3>1, <3>2, <3>3
  <2>2. data' = data /\ c_idx' = c_idx /\ key' = key /\ size' = size /\ Used' = Used
    BY <1>1 DEF SearchKeeps, Used
  <2>3. c_idx' <= size' /\ c_idx' < size'
    BY <1>2, <2>2
  <2>4. KeyOf[data'[c_idx']] = key'
    BY <1>3, <2>2 DEF K
  <2>5. \A i \in Used' : i < c_idx' => KeyOf[data'[i]] <= key'
    BY <2>1, <2>2 DEF K
  <2>6. \A i \in Used' : c_idx' <= i => KeyOf[data'[i]] >= key'
    BY <2>1, <2>2 DEF K
  <2> QED
    BY <2>3, <2>4, <2>5, <2>6 DEF FoundInv, K
<1>5. SearchInv'
  BY <1>1 DEF SearchInv
<1> QED
  BY <1>1, <1>2, <1>4, <1>5, SearchFrame DEF IInv

LEMMA LowStep == ASSUME IInv, Low PROVE IInv'
<1>1. /\ SearchKeeps /\ pc = "search" /\ pc' = "search" /\ min # max /\ max' = max
      /\ min' = c_idx + 1 /\ c_idx' = (min' + max) \div 2 /\ KeyOf[data[c_idx]] - key < 0
  BY DEF Low, SearchKeeps, list, Cmp
<1>2. /\ c_idx \in Used /\ c_idx \in Nat /\ min \in Nat /\ max \in Nat /\ c_idx < max
      /\ max <= size /\ size \in Nat /\ key \in Int /\ \A i \in Used : K(i) \in Int
  BY <1>1, Middle
<1>3. K(c_idx) < key
  <2>1. K(c_idx) \in Int /\ K(c_idx) - key < 0
    BY <1>1, <1>2 DEF K
  <2> QED
    BY <1>2, <2>1
<1>4. /\ min' \in Nat /\ max' \in Nat /\ c_idx' \in Nat /\ min' <= max'
      /\ min' # max' => min' <= c_idx' /\ c_idx' < max'
  <2>1. min' \in Nat /\ min' <= max
    BY <1>1, <1>2
  <2>2. CASE min' = max
    BY <1>1, <1>2, <2>1, <2>2
  <2>3. CASE min' < max
    BY <1>1, <1>2, <2>1, <2>3, HalfBetween
  <2> QED
    BY <1>1, <1>2, <2>1, <2>2, <2>3
<1>5. \A i \in Used : i < min' => K(i) < key
  <2> SUFFICES ASSUME NEW i \in Used, i < min' PROVE K(i) < key
    OBVIOUS
  <2>1. i \in Int /\ K(i) \in Int /\ i <= c_idx /\ K(c_idx) \in Int
    BY <1>1, <1>2 DEF Used
  <2>2. i < c_idx => K(i) <= K(c_idx)
    BY <1>2, Ordered DEF IInv
  <2> QED
    BY <1>2, <1>3, <2>1, <2>2
<1>6. SearchInv'
  <2>1. \A i \in Used : max <= i => K(i) > key
    BY <1>1 DEF IInv, SearchInv
  <2>2. key' = key /\ size' = size /\ Used' = Used /\ \A i : K(i)' = K(i)
    BY <1>1 DEF SearchKeeps, Used, K
  <2> QED
    BY <1>1, <1>2, <1>4, <1>5, <2>1, <2>2 DEF SearchInv, K
<1>7. FoundInv'
  BY <1>1 DEF FoundInv
<1> QED
  BY <1>1, <1>4, <1>6, <1>7, SearchFrame DEF IInv

LEMMA HighStep == ASSUME IInv, High PROVE IInv'
<1>1. /\ SearchKeeps /\ pc = "search" /\ pc' = "search" /\ min # max /\ min' = min
      /\ max' = c_idx /\ c_idx' = (min + max') \div 2 /\ KeyOf[data[c_idx]] - key > 0
  BY DEF High, SearchKeeps, list, Cmp
<1>2. /\ c_idx \in Used /\ c_idx \in Nat /\ min \in Nat /\ max \in Nat /\ min <= c_idx
      /\ c_idx < size /\ size \in Nat /\ key \in Int /\ \A i \in Used : K(i) \in Int
  BY <1>1, Middle
<1>3. K(c_idx) > key
  <2>1. K(c_idx) \in Int /\ K(c_idx) - key > 0
    BY <1>1, <1>2 DEF K
  <2> QED
    BY <1>2, <2>1
<1>4. /\ min' \in Nat /\ max' \in Nat /\ c_idx' \in Nat /\ min' <= max'
      /\ min' # max' => min' <= c_idx' /\ c_idx' < max'
  <2>1. CASE min = c_idx
    BY <1>1, <1>2, <2>1
  <2>2. CASE min < c_idx
    BY <1>1, <1>2, <2>2, HalfBetween
  <2> QED
    BY <1>2, <2>1, <2>2
<1>5. \A i \in Used : max' <= i => K(i) > key
  <2> SUFFICES ASSUME NEW i \in Used, max' <= i PROVE K(i) > key
    OBVIOUS
  <2>1. i \in Int /\ K(i) \in Int /\ c_idx <= i /\ K(c_idx) \in Int
    BY <1>1, <1>2 DEF Used
  <2>2. c_idx < i => K(c_idx) <= K(i)
    BY <1>2, Ordered DEF IInv
  <2> QED
    BY <1>2, <1>3, <2>1, <2>2
<1>6. SearchInv'
  <2>1. \A i \in Used : i < min => K(i) < key
    BY <1>1 DEF IInv, SearchInv
  <2>2. key' = key /\ size' = size /\ Used' = Used /\ \A i : K(i)' = K(i)
    BY <1>1 DEF SearchKeeps, Used, K
  <2> QED
    BY <1>1, <1>2, <1>4, <1>5, <2>1, <2>2 DEF SearchInv, K
<1>7. FoundInv'
  BY <1>1 DEF FoundInv
<1> QED
  BY <1>1, <1>4, <1>6, <1>7, SearchFrame DEF IInv

LEMMA MissStep == ASSUME IInv, Miss PROVE IInv'
<1>1. /\ SearchKeeps /\ pc = "search" /\ pc' = "at" /\ min = max
      /\ UNCHANGED <<min, max>> /\ c_idx' = min
  BY DEF Miss, SearchKeeps, list
<1>2. /\ min \in Nat /\ min <= size /\ size \in Nat /\ key \in Int
      /\ \A i \in Used : K(i) \in Int
  BY <1>1, Middle
<1>3. \A i \in Used : (i < min => K(i) < key) /\ (min <= i => K(i) > key)
  BY <1>1 DEF IInv, SearchInv
<1>4. \A i \in Used : K(i) # key
  <2> SUFFICES ASSUME NEW i \in Used PROVE K(i) # key
    OBVIOUS
  <2>1. i \in Int /\ K(i) \in Int
    BY <1>2 DEF Used
  <2> QED
    BY <1>2, <1>3, <2>1
<1>5. FoundInv'
  <2>1. key' = key /\ size' = size /\ Used' = Used /\ \A i : K(i)' = K(i)
    BY <1>1 DEF SearchKeeps, Used, K
  <2>2. \A i \in Used : (i < min => K(i) <= key) /\ (min <= i => K(i) >= key)
    BY <1>2, <1>3
  <2> QED
    BY <1>1, <1>2, <1>4, <2>1, <2>2 DEF FoundInv, K
<1>6. SearchInv'
  BY <1>1 DEF SearchInv
<1> QED
  BY <1>1, <1>2, <1>5, <1>6, SearchFrame DEF IInv

-----------------------------------------------------------------------------
(* The end of each call. *)

\* The types of everything the last step of a call uses.
LEMMA Found ==
    ASSUME IInv, pc = "at"
    PROVE  /\ c_idx \in Nat /\ size \in Nat /\ capacity \in Nat \ {0} /\ c_idx <= size
           /\ size < capacity /\ key \in Int
           /\ \A i \in Used : i \in Nat /\ i < size /\ data[i] \in members /\ K(i) \in Int
           /\ data \in [0..(capacity - 1) -> Elements \cup {NoElement}]
<1>1. /\ c_idx \in Nat /\ size \in Nat /\ capacity \in Nat \ {0}
      /\ data \in [0..(capacity - 1) -> Elements \cup {NoElement}]
  BY DEF IInv, TypeOK
<1>2. c_idx <= size /\ size < capacity
  BY DEF IInv, FoundInv, SpareSlot
<1>3. key \in Int /\ \A i \in Used : K(i) \in Int
  BY KeysInt DEF IInv
<1>4. \A i \in Used : i \in Nat /\ i < size
  BY <1>1 DEF Used
<1>5. \A i \in Used : data[i] \in members
  BY DEF IInv, MembersExact
<1> QED
  BY <1>1, <1>2, <1>3, <1>4, <1>5

LEMMA InsertAtStep == ASSUME IInv, InsertAt PROVE IInv'
<1>1. /\ pc = "at" /\ op = "insert" /\ pc' = "idle" /\ size' = size + 1
      /\ members' = members \cup {arg}
      /\ UNCHANGED <<capacity, op, arg, key, min, max, c_idx, got>>
  BY DEF InsertAt
<1>2. /\ c_idx \in Nat /\ size \in Nat /\ capacity \in Nat \ {0} /\ c_idx <= size
      /\ key \in Int
      /\ \A i \in Used : i \in Nat /\ i < size /\ data[i] \in members /\ K(i) \in Int
      /\ data \in [0..(capacity - 1) -> Elements \cup {NoElement}]
  BY <1>1, Found
<1>3. arg \in Elements /\ arg \notin members /\ key = KeyOf[arg] /\ size + 1 < capacity
  BY <1>1 DEF IInv, CallInv, SpareSlot
<1>4. \A i \in 0..(capacity - 1) :
         data'[i] = IF i = c_idx THEN arg
                    ELSE IF c_idx < i /\ i <= size THEN data[i - 1] ELSE data[i]
  BY <1>2 DEF InsertAt
<1>5. data' \in [0..(capacity - 1) -> Elements \cup {NoElement}]
  <2>1. data' = [i \in 0..(capacity - 1) |->
                    IF i = c_idx THEN arg
                    ELSE IF c_idx < i /\ i <= size THEN data[i - 1] ELSE data[i]]
    BY <1>2 DEF InsertAt
  <2>2. ASSUME NEW i \in 0..(capacity - 1)
        PROVE  (IF i = c_idx THEN arg
                ELSE IF c_idx < i /\ i <= size THEN data[i - 1] ELSE data[i])
               \in Elements \cup {NoElement}
    <3>1. c_idx < i => i - 1 \in 0..(capacity - 1)
      BY <1>2
    <3> QED
      BY <1>2, <1>3, <3>1
  <2> QED
    BY <2>1, <2>2
\* Where the elements in use are now.
<1>6. /\ \A i \in Used' : i \in Nat /\ i <= size
      /\ \A i \in Used' : i < c_idx => i \in Used /\ data'[i] = data[i]
      /\ c_idx \in Used' /\ data'[c_idx] = arg
      /\ \A i \in Used' : c_idx < i => i - 1 \in Used /\ data'[i] = data[i - 1]
  <2>1. \A i : i \in Used' <=> i \in 0..size
    BY <1>1, <1>2 DEF Used
  <2>2. \A i \in 0..size : i \in 0..(capacity - 1)
    BY <1>2, <1>3
  <2>3. c_idx \in 0..size
    BY <1>2
  <2>4. \A i \in 0..size : (i < c_idx => i \in Used) /\ (c_idx < i => i - 1 \in Used)
    BY <1>2 DEF Used
  <2>5. \A i \in 0..size : i < c_idx => data'[i] = data[i]
    BY <1>2, <1>4, <2>2
  <2>6. \A i \in 0..size : c_idx < i => data'[i] = data[i - 1]
    BY <1>2, <1>4, <2>2
  <2>7. data'[c_idx] = arg
    BY <1>4, <2>2, <2>3
  <2> QED
    BY <2>1, <2>3, <2>4, <2>5, <2>6, <2>7
<1>7. Sorted'
  <2> SUFFICES ASSUME NEW i \in Used', NEW j \in Used', i < j
               PROVE  KeyOf[data'[i]] <= KeyOf[data'[j]]
    BY DEF Sorted
  <2>1. i \in Nat /\ j \in Nat
    BY <1>6
  <2>2. \A n \in Used : (n < c_idx => K(n) <= key) /\ (c_idx <= n => K(n) >= key)
    BY <1>1 DEF IInv, FoundInv
  <2>3. CASE j < c_idx
    <3>1. i \in Used /\ j \in Used /\ data'[i] = data[i] /\ data'[j] = data[j]
      BY <1>2, <1>6, <2>1, <2>3
    <3> QED
      BY <3>1 DEF IInv, Sorted
  <2>4. CASE j = c_idx
    <3>1. i \in Used /\ data'[i] = data[i] /\ data'[j] = arg
      BY <1>2, <1>6, <2>1, <2>4
    <3> QED
      BY <1>3, <2>2, <2>4, <3>1 DEF K
  <2>5. CASE c_idx < j /\ i < c_idx
    <3>1. /\ i \in Used /\ data'[i] = data[i]
          /\ j - 1 \in Used /\ data'[j] = data[j - 1] /\ c_idx <= j - 1
      BY <1>2, <1>6, <2>1, <2>5
    <3>2. K(i) <= key /\ key <= K(j - 1) /\ K(i) \in Int /\ K(j - 1) \in Int
      BY <1>2, <2>2, <2>5, <3>1
    <3>3. K(i) <= K(j - 1)
      BY <1>2, <3>2
    <3> QED
      BY <3>1, <3>3 DEF K
  <2>6. CASE c_idx < j /\ i = c_idx
    <3>1. data'[i] = arg /\ j - 1 \in Used /\ data'[j] = data[j - 1] /\ c_idx <= j - 1
      BY <1>2, <1>6, <2>1, <2>6
    <3>2. key <= K(j - 1)
      BY <1>2, <2>2, <3>1
    <3> QED
      BY <1>3, <3>1, <3>2 DEF K
  <2>7. CASE c_idx < j /\ c_idx < i
    <3>1. /\ i - 1 \in Used /\ data'[i] = data[i - 1]
          /\ j - 1 \in Used /\ data'[j] = data[j - 1] /\ i - 1 < j - 1
      BY <1>2, <1>6, <2>1, <2>7
    <3> QED
      BY <3>1 DEF IInv, Sorted
  <2> QED
    BY <1>2, <2>1, <2>3, <2>4, <2>5, <2>6, <2>7
<1>8. MembersExact'
  <2>1. /\ \A i \in Used : data[i] \in members
        /\ \A e \in members : \E i \in Used : data[i] = e
        /\ \A i, j \in Used : data[i] = data[j] => i = j
    BY DEF IInv, MembersExact
  <2>2. \A i \in Used' : data'[i] \in members'
    BY <1>1, <1>2, <1>6, <2>1
  <2>3. ASSUME NEW e \in members' PROVE \E i \in Used' : data'[i] = e
    <3>1. CASE e = arg
      BY <1>6, <3>1
    <3>2. CASE e \in members
      <4>1. PICK i \in Used : data[i] = e
        BY <2>1, <3>2
      <4>2. i \in Nat /\ i < size /\ i \in Used' /\ i + 1 \in Used'
        BY <1>1, <1>2 DEF Used
      <4>3. CASE i < c_idx
        BY <1>6, <4>1, <4>2, <4>3
      <4>4. CASE c_idx <= i
        <5>1. c_idx < i + 1 /\ (i + 1) - 1 = i
          BY <1>2, <4>2, <4>4
        <5>2. data'[i + 1] = data[i]
          BY <1>6, <4>2, <5>1
        <5> QED
          BY <4>1, <4>2, <5>2
      <4> QED
        BY <1>2, <4>2, <4>3, <4>4
    <3> QED
      BY <1>1, <3>1, <3>2
  <2>4. ASSUME NEW i \in Used', NEW j \in Used', data'[i] = data'[j]
        PROVE  i = j
    <3>1. i \in Nat /\ j \in Nat
      BY <1>6
    <3>2. CASE i = c_idx
      BY <1>2, <1>3, <1>6, <2>1, <2>4, <3>1, <3>2
    <3>3. CASE j = c_idx
      BY <1>2, <1>3, <1>6, <2>1, <2>4, <3>1, <3>3
    <3>4. CASE i < c_idx /\ j < c_idx
      BY <1>6, <2>1, <2>4, <3>4
    <3>5. CASE i < c_idx /\ c_idx < j
      <4>1. i = j - 1
        BY <1>6, <2>1, <2>4, <3>5
      <4> QED
        BY <1>2, <3>1, <3>5, <4>1
    <3>6. CASE c_idx < i /\ j < c_idx
      <4>1. j = i - 1
        BY <1>6, <2>1, <2>4, <3>6
      <4> QED
        BY <1>2, <3>1, <3>6, <4>1
    <3>7. CASE c_idx < i /\ c_idx < j
      <4>1. i - 1 = j - 1
        BY <1>6, <2>1, <2>4, <3>7
      <4> QED
        BY <3>1, <4>1
    <3> QED
      BY <1>2, <3>1, <3>2, <3>3, <3>4, <3>5, <3>6, <3>7
  <2> QED
    BY <2>2, <2>3, <2>4 DEF MembersExact
<1>9. TypeOK'
  BY <1>1, <1>2, <1>3, <1>5 DEF IInv, TypeOK
<1>10. SpareSlot' /\ SearchInv' /\ FoundInv' /\ CallInv' /\ GetExact'
  BY <1>1, <1>2, <1>3 DEF SpareSlot, SearchInv, FoundInv, CallInv, GetExact
<1>11. FreeBlank'
  BY <1>1, <1>2, <1>4 DEF IInv, FreeBlank
<1> QED
  BY <1>7, <1>8, <1>9, <1>10, <1>11 DEF IInv

LEMMA RemoveAtStep == ASSUME IInv, RemoveAt PROVE IInv'
<1>1. /\ pc = "at" /\ op = "remove" /\ pc' = "idle" /\ size' = size - 1
      /\ members' = members \ {arg}
      /\ UNCHANGED <<capacity, op, arg, key, min, max, c_idx, got>>
  BY DEF RemoveAt
<1>2. /\ c_idx \in Nat /\ size \in Nat /\ capacity \in Nat \ {0} /\ size < capacity
      /\ \A i \in Used : i \in Nat /\ i < size
      /\ data \in [0..(capacity - 1) -> Elements \cup {NoElement}]
  BY <1>1, Found
<1>3. /\ \A i \in Used : data[i] \in members
      /\ \A e \in members : \E i \in Used : data[i] = e
      /\ \A i, j \in Used : data[i] = data[j] => i = j
  BY DEF IInv, MembersExact
\* The search has found the very element that is to go.
<1>4. c_idx \in Used /\ data[c_idx] = arg
  <2>1. /\ arg \in members /\ key = KeyOf[arg]
        /\ \A f \in members : KeyOf[f] = key => f = arg
    BY <1>1 DEF IInv, CallInv
  <2>2. PICK n \in Used : data[n] = arg
    BY <1>3, <2>1
  <2>3. c_idx < size /\ K(c_idx) = key
    BY <1>1, <2>1, <2>2 DEF IInv, FoundInv, K
  <2>4. c_idx \in Used
    BY <1>2, <2>3 DEF Used
  <2> QED
    BY <1>3, <2>1, <2>3, <2>4 DEF K
<1>5. \A i \in 0..(capacity - 1) :
         data'[i] = IF i = size - 1 THEN NoElement
                    ELSE IF c_idx <= i /\ i < size THEN data[i + 1] ELSE data[i]
  BY <1>2 DEF RemoveAt
<1>6. data' \in [0..(capacity - 1) -> Elements \cup {NoElement}]
  <2>1. data' = [i \in 0..(capacity - 1) |->
                    IF i = size - 1 THEN NoElement
                    ELSE IF c_idx <= i /\ i < size THEN data[i + 1] ELSE data[i]]
    BY <1>2 DEF RemoveAt
  <2>2. ASSUME NEW i \in 0..(capacity - 1)
        PROVE  (IF i = size - 1 THEN NoElement
                ELSE IF c_idx <= i /\ i < size THEN data[i + 1] ELSE data[i])
               \in Elements \cup {NoElement}
    <3>1. i < size => i + 1 \in 0..(capacity - 1)
      BY <1>2
    <3> QED
      BY <1>2, <3>1
  <2> QED
    BY <2>1, <2>2
\* Where the elements in use were before.
<1>7. /\ \A i \in Used' : i \in Nat /\ i \in Used
      /\ \A i \in Used' : i < c_idx => data'[i] = data[i]
      /\ \A i \in Used' : c_idx <= i => i + 1 \in Used /\ data'[i] = data[i + 1]
  <2>1. \A i : i \in Used' <=> i \in 0..(size - 2)
    BY <1>1, <1>2 DEF Used
  <2>2. \A i \in 0..(size - 2) : i \in 0..(capacity - 1) /\ i # size - 1 /\ i < size
    BY <1>2
  <2>3. \A i \in 0..(size - 2) : i \in Used /\ i + 1 \in Used
    BY <1>2 DEF Used
  <2>4. \A i \in 0..(size - 2) : i < c_idx => data'[i] = data[i]
    BY <1>2, <1>5, <2>2
  <2>5. \A i \in 0..(size - 2) : c_idx <= i => data'[i] = data[i + 1]
    BY <1>2, <1>5, <2>2
  <2> QED
    BY <2>1, <2>3, <2>4, <2>5
<1>8. Sorted'
  <2> SUFFICES ASSUME NEW i \in Used', NEW j \in Used', i < j
               PROVE  KeyOf[data'[i]] <= KeyOf[data'[j]]
    BY DEF Sorted
  <2>1. i \in Nat /\ j \in Nat
    BY <1>7
  <2>2. \A a, b \in Used : a < b => KeyOf[data[a]] <= KeyOf[data[b]]
    BY DEF IInv, Sorted
  <2>3. CASE j < c_idx
    <3>1. i < c_idx
      BY <1>2, <2>1, <2>3
    <3> QED
      BY <1>7, <2>2, <2>3, <3>1
  <2>4. CASE c_idx <= j /\ i < c_idx
    <3>1. i \in Used /\ j + 1 \in Used /\ data'[i] = data[i] /\ data'[j] = data[j + 1]
      BY <1>7, <2>4
    <3>2. i < j + 1
      BY <2>1
    <3> QED
      BY <2>2, <3>1, <3>2
  <2>5. CASE c_idx <= j /\ c_idx <= i
    <3>1. /\ i + 1 \in Used /\ j + 1 \in Used
          /\ data'[i] = data[i + 1] /\ data'[j] = data[j + 1]
      BY <1>7, <2>5
    <3>2. i + 1 < j + 1
      BY <2>1
    <3> QED
      BY <2>2, <3>1, <3>2
  <2> QED
    BY <1>2, <2>1, <2>3, <2>4, <2>5
<1>9. MembersExact'
  <2>1. ASSUME NEW i \in Used' PROVE data'[i] \in members'
    <3>1. i \in Nat /\ i \in Used
      BY <1>7
    <3>2. CASE i < c_idx
      <4>1. data'[i] = data[i] /\ i # c_idx
        BY <1>2, <1>7, <3>1, <3>2
      <4> QED
        BY <1>1, <1>3, <1>4, <3>1, <4>1
    <3>3. CASE c_idx <= i
      <4>1. data'[i] = data[i + 1] /\ i + 1 \in Used
        BY <1>7, <3>3
      <4>2. i + 1 # c_idx
        BY <1>2, <3>1, <3>3
      <4> QED
        BY <1>1, <1>3, <1>4, <4>1, <4>2
    <3> QED
      BY <1>2, <3>1, <3>2, <3>3
  <2>2. ASSUME NEW e \in members' PROVE \E i \in Used' : data'[i] = e
    <3>1. PICK n \in Used : data[n] = e
      BY <1>1, <1>3
    <3>2. n # c_idx /\ n \in Nat /\ n < size
      BY <1>1, <1>2, <1>4, <3>1
    <3>3. CASE n < c_idx
      <4>1. n \in Used'
        BY <1>1, <1>2, <1>4, <3>2, <3>3 DEF Used
      <4> QED
        BY <1>7, <3>1, <3>3, <4>1
    <3>4. CASE c_idx < n
      <4>1. n - 1 \in Used' /\ c_idx <= n - 1 /\ (n - 1) + 1 = n
        BY <1>1, <1>2, <3>2, <3>4 DEF Used
      <4>2. data'[n - 1] = data[n]
        BY <1>7, <4>1
      <4> QED
        BY <3>1, <4>1, <4>2
    <3> QED
      BY <1>2, <3>2, <3>3, <3>4
  <2>3. ASSUME NEW i \in Used', NEW j \in Used', data'[i] = data'[j]
        PROVE  i = j
    <3>1. i \in Nat /\ j \in Nat /\ i \in Used /\ j \in Used
      BY <1>7
    <3>2. CASE i < c_idx /\ j < c_idx
      BY <1>3, <1>7, <2>3, <3>1, <3>2
    <3>3. CASE i < c_idx /\ c_idx <= j
      <4>1. i = j + 1
        BY <1>3, <1>7, <2>3, <3>1, <3>3
      <4> QED
        BY <1>2, <3>1, <3>3, <4>1
    <3>4. CASE c_idx <= i /\ j < c_idx
      <4>1. j = i + 1
        BY <1>3, <1>7, <2>3, <3>1, <3>4
      <4> QED
        BY <1>2, <3>1, <3>4, <4>1
    <3>5. CASE c_idx <= i /\ c_idx <= j
      <4>1. i + 1 = j + 1
        BY <1>3, <1>7, <2>3, <3>1, <3>5
      <4> QED
        BY <3>1, <4>1
    <3> QED
      BY <1>2, <3>1, <3>2, <3>3, <3>4, <3>5
  <2> QED
    BY <2>1, <2>2, <2>3 DEF MembersExact
<1>10. TypeOK'
  <2>1. size' \in Nat
    BY <1>1, <1>2, <1>4 DEF Used
  <2> QED
    BY <1>1, <1>6, <2>1 DEF IInv, TypeOK
<1>11. SpareSlot' /\ SearchInv' /\ FoundInv' /\ CallInv' /\ GetExact'
  BY <1>1, <1>2 DEF SpareSlot, SearchInv, FoundInv, CallInv, GetExact
<1>12. FreeBlank'
  BY <1>1, <1>2, <1>4, <1>5 DEF IInv, FreeBlank
<1> QED
  BY <1>8, <1>9, <1>10, <1>11, <1>12 DEF IInv

LEMMA GetAtStep == ASSUME IInv, GetAt PROVE IInv'
<1> USE SortedListAssumption
<1>1. /\ pc = "at" /\ op = "get" /\ pc' = "idle"
      /\ \/ NeverGrown /\ got' \in Elements \cup {NoElement}
         \/ got' = IF data[c_idx] # NoElement /\ KeyOf[data[c_idx]] - key = 0
                   THEN data[c_idx] ELSE NoElement
      /\ UNCHANGED <<data, size, capacity, op, arg, key, min, max, c_idx, members>>
  BY DEF GetAt, list, Cmp
<1>2. /\ c_idx \in Nat /\ size \in Nat /\ size < capacity /\ key \in Int /\ c_idx <= size
      /\ capacity \in Nat
      /\ \A i \in Used : data[i] \in members /\ K(i) \in Int
      /\ data \in [0..(capacity - 1) -> Elements \cup {NoElement}]
  BY <1>1, Found
<1>3. got' \in Elements \cup {NoElement}
  <2>1. c_idx \in 0..(capacity - 1)
    BY <1>2
  <2> QED
    BY <1>1, <1>2, <2>1
<1>4. GetExact'
  <2>1. /\ \A e \in members : \E i \in Used : data[i] = e
        /\ members \subseteq Elements
    BY DEF IInv, MembersExact, TypeOK
  <2> SUFFICES ASSUME ~NeverGrown PROVE GetExact'
    BY <1>1 DEF GetExact, NeverGrown
  <2>2. CASE c_idx < size /\ K(c_idx) = key
    <3>1. c_idx \in Used
      BY <1>2, <2>2 DEF Used
    <3>2. data[c_idx] \in members /\ data[c_idx] # NoElement /\ KeyOf[data[c_idx]] = key
      BY <1>2, <2>1, <2>2, <3>1 DEF K
    <3>3. got' = data[c_idx]
      BY <1>1, <1>2, <3>2
    <3> QED
      BY <1>1, <3>2, <3>3 DEF GetExact
  <2>3. CASE \A i \in Used : K(i) # key
    <3>1. ~\E e \in members : KeyOf[e] = key
      BY <2>1, <2>3 DEF K
    \* Whatever is behind the elements in use, it is not a member.
    <3>2. got' = NoElement
      <4>1. CASE c_idx \in Used
        <5>1. K(c_idx) # key /\ K(c_idx) \in Int
          BY <1>2, <2>3, <4>1
        <5>2. KeyOf[data[c_idx]] - key # 0
          BY <1>2, <5>1 DEF K
        <5> QED
          BY <1>1, <5>2
      <4>2. CASE c_idx \notin Used
        <5>1. c_idx = size
          BY <1>2, <4>2 DEF Used
        <5>2. data[size] = NoElement
          BY <1>2 DEF IInv, FreeBlank
        <5> QED
          BY <1>1, <5>1, <5>2
      <4> QED
        BY <4>1, <4>2
    <3> QED
      BY <1>1, <3>1, <3>2 DEF GetExact
  <2> QED
    BY <1>1, <2>2, <2>3 DEF IInv, FoundInv
<1>5. TypeOK'
  BY <1>1, <1>3 DEF IInv, TypeOK
<1>6. MembersExact' /\ Sorted'
  BY <1>1, ListKept DEF IInv
<1>7. SpareSlot' /\ SearchInv' /\ FoundInv' /\ CallInv' /\ FreeBlank'
  BY <1>1, <1>2 DEF IInv, SpareSlot, SearchInv, FoundInv, CallInv, FreeBlank
<1> QED
  BY <1>4, <1>5, <1>6, <1>7 DEF IInv

-----------------------------------------------------------------------------
LEMMA InvNext == IInv /\ [Next]_vars => IInv'
<1> SUFFICES ASSUME IInv, [Next]_vars PROVE IInv'
  OBVIOUS
<1>1. CASE Call
  BY <1>1, InsertStep, RemoveStep, GetStep DEF Call
<1>2. CASE Step
  BY <1>2, HitStep, LowStep, HighStep, MissStep, InsertAtStep, RemoveAtStep, GetAtStep
     DEF Step
<1>3. CASE UNCHANGED vars
  <2>1. UNCHANGED <<data, size, capacity, pc, op, arg, key, min, max, c_idx, got, members>>
    BY <1>3 DEF vars, list
  <2> QED
    BY <2>1 DEF IInv, TypeOK, SpareSlot, MembersExact, Sorted, FreeBlank, SearchInv,
                FoundInv, CallInv, GetExact, NeverGrown, Used, K
<1> QED
  BY <1>1, <1>2, <1>3 DEF Next

\* Everything above, in every reachable state.
THEOREM Invariance == Spec => []IInv
<1> QED
  BY InvInit, InvNext, PTL DEF Spec

\* The fields of the list have their types.
THEOREM TypeCorrect == Spec => []TypeOK
<1>1. IInv => TypeOK
  BY DEF IInv
<1> QED
  BY Invariance, <1>1, PTL

\* sorted_list_insert and sorted_list_remove keep the order, whatever is
\* inserted and removed.
THEOREM StaysSorted == Spec => []Sorted
<1>1. IInv => Sorted
  BY DEF IInv
<1> QED
  BY Invariance, <1>1, PTL

\* No access of sorted_list.c leaves the array.
THEOREM StaysInside == Spec => []SpareSlot
<1>1. IInv => SpareSlot
  BY DEF IInv
<1> QED
  BY Invariance, <1>1, PTL

\* No pointer is lost or duplicated by the memmoves.
THEOREM NothingLost == Spec => []MembersExact
<1>1. IInv => MembersExact
  BY DEF IInv
<1> QED
  BY Invariance, <1>1, PTL

\* The binary search finds what is there and nothing else.
THEOREM SearchCorrect == Spec => []GetExact
<1>1. IInv => GetExact
  BY DEF IInv
<1> QED
  BY Invariance, <1>1, PTL
=============================================================================
