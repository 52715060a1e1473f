---------------------------- MODULE Fat12Proofs -----------------------------
(***************************************************************************)
(* Proofs about FatTable and Fat12.                                        *)
(*                                                                         *)
(* The packed table, for any number of clusters and any twelve-bit values: *)
(* an entry shares one byte with its neighbour, and an update keeps the    *)
(* neighbour's four bits of it.  The arithmetic is in the lemmas about     *)
(* bytes and words; what follows only uses EntriesIndependent.             *)
(*                                                                         *)
(* write_file, for any disk, any files and any crashes: the table stays a  *)
(* set of chains, what was stored stays stored, and what has returned is   *)
(* on the disk.                                                            *)
(***************************************************************************)
EXTENDS Fat12, FiniteSetTheorems, WellFoundedInduction, TLAPS

Words == {x \in Nat : x < 65536}

\* A word and its two bytes.
Join(a, b) == a + 256 * b
Lower(x) == x % 256
Upper(x) == x \div 256

\* The two halves of a byte.
LowNibble(a) == a % 16
HighNibble(a) == a \div 16

\* The even and the odd entry of a word, and the words that hold a new one.
EvenOf(x) == x % 4096
OddOf(x) == x \div 16
WithEven(x, v) == (x \div 4096) * 4096 + (v % 4096)
WithOdd(x, v) == (x % 16) + ((v * 16) % 65536)

-----------------------------------------------------------------------------
\* The words, as a range of integers.
LEMMA InWords ==
    ASSUME NEW x \in Int, x >= 0, x <= 65535
    PROVE  x \in Words
BY DEF Words

\* A word is made of two bytes.
LEMMA SplitWord ==
    ASSUME NEW x \in Words
    PROVE  /\ Lower(x) \in Bytes
           /\ Upper(x) \in Bytes
           /\ Join(Lower(x), Upper(x)) = x
BY DEF Bytes, Words, Join, Lower, Upper

\* A nibble is less than 16.
LEMMA NibbleSmall ==
    ASSUME NEW b \in Bytes
    PROVE  LowNibble(b) \in 0..15
BY DEF LowNibble, Bytes

\* The even entry of a word depends on its lower byte and a nibble.
LEMMA EvenNibble ==
    ASSUME NEW a \in Bytes, NEW b \in Bytes
    PROVE  EvenOf(Join(a, b)) = a + 256 * LowNibble(b)
BY DEF Bytes, EvenOf, Join, LowNibble

\* The odd entry of a word depends on its upper byte and a nibble.
LEMMA OddNibble ==
    ASSUME NEW a \in Bytes, NEW b \in Bytes
    PROVE  OddOf(Join(a, b)) = HighNibble(a) + 16 * b
BY DEF Bytes, OddOf, Join, HighNibble

\* Storing an even entry keeps the upper four bits.
LEMMA StoreEven ==
    ASSUME NEW a \in Bytes, NEW b \in Bytes, NEW v \in Entries
    PROVE  /\ WithEven(Join(a, b), v) \in Words
           /\ EvenOf(WithEven(Join(a, b), v)) = v
           /\ HighNibble(Upper(WithEven(Join(a, b), v))) = HighNibble(b)
<1>1. Join(a, b) \div 4096 = HighNibble(b) /\ HighNibble(b) \in 0..15
  BY DEF Bytes, Join, HighNibble
<1>2. WithEven(Join(a, b), v) = HighNibble(b) * 4096 + v
  BY <1>1 DEF WithEven, Entries
<1>3. ASSUME NEW n \in 0..15 PROVE n * 4096 + v \in Words
  <2>1. n * 4096 + v >= 0 /\ n * 4096 + v <= 65535 /\ n * 4096 + v \in Int
    BY DEF Entries
  <2> QED
    BY <2>1, InWords
<1>4. ASSUME NEW n \in 0..15 PROVE EvenOf(n * 4096 + v) = v
  BY DEF EvenOf, Entries
<1>5. ASSUME NEW n \in 0..15 PROVE HighNibble(Upper(n * 4096 + v)) = n
  BY DEF HighNibble, Upper, Entries
<1> QED
  BY <1>1, <1>2, <1>3, <1>4, <1>5

\* Storing an odd entry keeps the lower four bits.
LEMMA StoreOdd ==
    ASSUME NEW a \in Bytes, NEW b \in Bytes, NEW v \in Entries
    PROVE  /\ WithOdd(Join(a, b), v) \in Words
           /\ OddOf(WithOdd(Join(a, b), v)) = v
           /\ LowNibble(Lower(WithOdd(Join(a, b), v))) = LowNibble(a)
<1>1. Join(a, b) % 16 = LowNibble(a) /\ LowNibble(a) \in 0..15
  BY DEF Bytes, Join, LowNibble
<1>2. (v * 16) % 65536 = v * 16
  BY DEF Entries
<1>3. WithOdd(Join(a, b), v) = LowNibble(a) + v * 16
  BY <1>1, <1>2 DEF WithOdd
<1>4. ASSUME NEW n \in 0..15 PROVE n + v * 16 \in Words
  <2>1. n + v * 16 >= 0 /\ n + v * 16 <= 65535 /\ n + v * 16 \in Int
    BY DEF Entries
  <2> QED
    BY <2>1, InWords
<1>5. ASSUME NEW n \in 0..15 PROVE OddOf(n + v * 16) = v
  BY DEF OddOf, Entries
<1>6. ASSUME NEW n \in 0..15 PROVE LowNibble(Lower(n + v * 16)) = n
  BY DEF LowNibble, Lower, Entries
<1> QED
  BY <1>1, <1>3, <1>4, <1>5, <1>6

-----------------------------------------------------------------------------
\* Where the pair of clusters 2k and 2k + 1 is: in the bytes 3k, 3k+1, 3k+2.
LEMMA Layout ==
    ASSUME NEW c \in Nat
    PROVE  \E k \in Nat : \/ c = 2 * k /\ c % 2 = 0 /\ fat_offset(c) = 3 * k
                          \/ c = 2 * k + 1 /\ c % 2 = 1 /\ fat_offset(c) = 3 * k + 1
<1>1. c \div 2 \in Nat /\ (c = 2 * (c \div 2) \/ c = 2 * (c \div 2) + 1)
  OBVIOUS
<1>2. CASE c = 2 * (c \div 2)
  BY <1>1, <1>2 DEF fat_offset
<1>3. CASE c = 2 * (c \div 2) + 1
  BY <1>1, <1>3 DEF fat_offset
<1> QED
  BY <1>1, <1>2, <1>3

\* Every access is inside the table.
LEMMA AccessInside ==
    ASSUME NEW c \in TableEntries
    PROVE  fat_offset(c) \in Offsets /\ fat_offset(c) + 1 \in Offsets
<1>1. TableLast \in Nat /\ c \in Nat /\ c <= TableLast
  BY FatTableAssumption DEF TableEntries
<1>2. (c * 3) \div 2 \in Nat /\ (TableLast * 3) \div 2 \in Nat
                             /\ (c * 3) \div 2 <= (TableLast * 3) \div 2
  BY <1>1
<1> QED
  BY <1>2 DEF fat_offset, Offsets

\* Two different clusters either share no byte or are the pair 2k, 2k + 1.
LEMMA Sharing ==
    ASSUME NEW c \in Nat, NEW d \in Nat, c # d
    PROVE  LET o == fat_offset(c)
               p == fat_offset(d)
           IN  /\ o \in Nat /\ p \in Nat
               /\ \/ p > o + 1
                  \/ o > p + 1
                  \/ c % 2 = 0 /\ d % 2 = 1 /\ p = o + 1
                  \/ c % 2 = 1 /\ d % 2 = 0 /\ o = p + 1
<1>1. PICK j \in Nat : \/ c = 2 * j /\ c % 2 = 0 /\ fat_offset(c) = 3 * j
                       \/ c = 2 * j + 1 /\ c % 2 = 1 /\ fat_offset(c) = 3 * j + 1
  BY Layout
<1>2. PICK k \in Nat : \/ d = 2 * k /\ d % 2 = 0 /\ fat_offset(d) = 3 * k
                       \/ d = 2 * k + 1 /\ d % 2 = 1 /\ fat_offset(d) = 3 * k + 1
  BY Layout
<1> QED
  BY <1>1, <1>2

\* A cluster is even or odd.
LEMMA Parity ==
    ASSUME NEW c \in TableEntries
    PROVE  c \in Nat /\ (c % 2 = 0 \/ c % 2 = 1)
BY FatTableAssumption DEF TableEntries

-----------------------------------------------------------------------------
\* What the updated bytes are: an update of cluster c, as the lemmas name it.
LEMMA SetBytes ==
    ASSUME NEW t \in Tables, NEW c \in TableEntries, NEW v \in Entries
    PROVE  \E x \in Words :
              /\ set_fat_next_cluster(t, c, v)
                    = [t EXCEPT ![fat_offset(c)] = Lower(x), ![fat_offset(c) + 1] = Upper(x)]
              /\ c % 2 = 0 => x = WithEven(Join(t[fat_offset(c)], t[fat_offset(c) + 1]), v)
              /\ c % 2 = 1 => x = WithOdd(Join(t[fat_offset(c)], t[fat_offset(c) + 1]), v)
<1> DEFINE o == fat_offset(c)
           w == Join(t[o], t[o + 1])
           x == Packed(w, c, v)
<1>1. o \in Offsets /\ o + 1 \in Offsets
  BY AccessInside
<1>2. t[o] \in Bytes /\ t[o + 1] \in Bytes
  BY <1>1 DEF Tables
<1>3. c % 2 = 0 => x = WithEven(w, v)
  BY DEF Packed, WithEven
<1>4. c % 2 = 1 => x = WithOdd(w, v)
  BY DEF Packed, WithOdd
<1>5. x \in Words
  <2> HIDE DEF x
  <2> QED
    BY <1>2, <1>3, <1>4, StoreEven, StoreOdd, Parity
<1>6. set_fat_next_cluster(t, c, v) = [t EXCEPT ![o] = Lower(x), ![o + 1] = Upper(x)]
  BY DEF set_fat_next_cluster, Word, Join, Lower, Upper
<1> HIDE DEF x
<1> QED
  BY <1>3, <1>4, <1>5, <1>6

\* Get, as the lemmas name it.
LEMMA GetBytes ==
    ASSUME NEW t, NEW c
    PROVE  /\ c % 2 = 1 => get_fat_next_cluster(t, c) =
                OddOf(Join(t[fat_offset(c)], t[fat_offset(c) + 1]))
           /\ c % 2 = 0 => get_fat_next_cluster(t, c) =
                EvenOf(Join(t[fat_offset(c)], t[fat_offset(c) + 1]))
BY DEF get_fat_next_cluster, Word, Join, OddOf, EvenOf

-----------------------------------------------------------------------------
\* set_fat_next_cluster stores bytes inside the table.
THEOREM TablesClosed ==
    ASSUME NEW t \in Tables, NEW c \in TableEntries, NEW v \in Entries
    PROVE  set_fat_next_cluster(t, c, v) \in Tables
<1>2. PICK x \in Words : set_fat_next_cluster(t, c, v)
        = [t EXCEPT ![fat_offset(c)] = Lower(x), ![fat_offset(c) + 1] = Upper(x)]
  BY SetBytes
<1>3. Lower(x) \in Bytes /\ Upper(x) \in Bytes
  BY SplitWord
<1> QED
  BY <1>2, <1>3 DEF Tables

\* get_fat_next_cluster returns what set_fat_next_cluster has stored for the
\* same cluster, and for every other cluster what it returned before, although
\* the update rewrites half of a neighbouring entry.
THEOREM EntriesIndependent ==
    ASSUME NEW t \in Tables, NEW c \in TableEntries, NEW v \in Entries,
           NEW d \in TableEntries
    PROVE  get_fat_next_cluster(set_fat_next_cluster(t, c, v), d)
             = IF d = c THEN v ELSE get_fat_next_cluster(t, d)
<1> DEFINE o == fat_offset(c)
           u == set_fat_next_cluster(t, c, v)
           a == t[o]
           b == t[o + 1]
<1>1. PICK x \in Words :
          /\ u = [t EXCEPT ![o] = Lower(x), ![o + 1] = Upper(x)]
          /\ c % 2 = 0 => x = WithEven(Join(a, b), v)
          /\ c % 2 = 1 => x = WithOdd(Join(a, b), v)
  BY SetBytes
<1> HIDE DEF u
<1>2. /\ o \in Offsets /\ o + 1 \in Offsets
      /\ a \in Bytes /\ b \in Bytes /\ v \in Entries
  BY AccessInside DEF Tables
<1>3. o \in Nat /\ o # o + 1
  BY <1>2, FatTableAssumption DEF Offsets
<1>4. u[o] = Lower(x) /\ u[o + 1] = Upper(x)
  BY <1>1, <1>2, <1>3 DEF Tables
<1>5. Join(u[o], u[o + 1]) = x
  BY <1>4, SplitWord
<1>6. get_fat_next_cluster(u, d) = IF d = c THEN v ELSE get_fat_next_cluster(t, d)
  <2> DEFINE p == fat_offset(d)
  <2>1. p \in Offsets /\ p + 1 \in Offsets
    BY AccessInside
  <2>2. t[p] \in Bytes /\ t[p + 1] \in Bytes
    BY <2>1 DEF Tables
  <2>3. /\ d % 2 = 1 => get_fat_next_cluster(t, d) = OddOf(Join(t[p], t[p + 1]))
        /\ d % 2 = 0 => get_fat_next_cluster(t, d) = EvenOf(Join(t[p], t[p + 1]))
    BY GetBytes
  <2>4. /\ d % 2 = 1 => get_fat_next_cluster(u, d) = OddOf(Join(u[p], u[p + 1]))
        /\ d % 2 = 0 => get_fat_next_cluster(u, d) = EvenOf(Join(u[p], u[p + 1]))
    BY GetBytes
  <2>5. CASE d = c
    BY <1>1, <1>2, <1>5, <2>4, <2>5, Parity, StoreEven, StoreOdd
  <2>6. CASE d # c
    <3>2. p \in Nat /\ (\/ p > o + 1
                        \/ o > p + 1
                        \/ c % 2 = 0 /\ d % 2 = 1 /\ p = o + 1
                        \/ c % 2 = 1 /\ d % 2 = 0 /\ o = p + 1)
      BY <2>6, Parity, Sharing
    <3>3. CASE p > o + 1 \/ o > p + 1
      <4>1. p # o /\ p # o + 1 /\ p + 1 # o /\ p + 1 # o + 1
        BY <1>3, <3>2, <3>3
      <4>2. u[p] = t[p] /\ u[p + 1] = t[p + 1]
        BY <1>1, <2>1, <4>1 DEF Tables
      <4> QED
        BY <2>3, <2>4, <2>6, <4>2, Parity
    <3>4. CASE c % 2 = 0 /\ d % 2 = 1 /\ p = o + 1
      <4>1. p + 1 # o /\ p + 1 # o + 1
        BY <1>3, <3>4
      <4>2. u[p] = Upper(x) /\ u[p + 1] = t[p + 1]
        BY <1>1, <1>4, <2>1, <3>4, <4>1 DEF Tables
      <4>3. HighNibble(Upper(x)) = HighNibble(t[p]) /\ Upper(x) \in Bytes
        <5>1. Upper(x) \in Bytes
          BY SplitWord
        <5>2. x = WithEven(Join(a, b), v)
          BY <1>1, <3>4
        <5>3. HighNibble(Upper(WithEven(Join(a, b), v))) = HighNibble(b)
          BY <1>2, StoreEven
        <5> QED
          BY <3>4, <5>1, <5>2, <5>3
      <4>4. OddOf(Join(u[p], u[p + 1]))
              = OddOf(Join(t[p], t[p + 1]))
        <5>1. OddOf(Join(Upper(x), t[p + 1]))
                = HighNibble(Upper(x)) + 16 * t[p + 1]
          BY <2>2, <4>3, OddNibble
        <5>2. OddOf(Join(t[p], t[p + 1]))
                = HighNibble(t[p]) + 16 * t[p + 1]
          BY <2>2, OddNibble
        <5> QED
          BY <4>2, <4>3, <5>1, <5>2
      <4> QED
        BY <2>3, <2>4, <2>6, <3>4, <4>4
    <3>5. CASE c % 2 = 1 /\ d % 2 = 0 /\ o = p + 1
      <4>1. p # o /\ p # o + 1
        BY <1>3, <3>2, <3>5
      <4>2. u[p] = t[p] /\ u[p + 1] = Lower(x)
        BY <1>1, <1>4, <2>1, <3>5, <4>1 DEF Tables
      <4>3. LowNibble(Lower(x)) = LowNibble(t[p + 1]) /\ Lower(x) \in Bytes
        <5>1. Lower(x) \in Bytes
          BY SplitWord
        <5>2. x = WithOdd(Join(a, b), v)
          BY <1>1, <3>5
        <5>3. LowNibble(Lower(WithOdd(Join(a, b), v))) = LowNibble(a)
          BY <1>2, StoreOdd
        <5> QED
          BY <3>5, <5>1, <5>2, <5>3
      <4>4. EvenOf(Join(u[p], u[p + 1]))
              = EvenOf(Join(t[p], t[p + 1]))
        <5>1. EvenOf(Join(t[p], Lower(x)))
                = t[p] + 256 * LowNibble(Lower(x))
          BY <2>2, <4>3, EvenNibble
        <5>2. EvenOf(Join(t[p], t[p + 1]))
                = t[p] + 256 * LowNibble(t[p + 1])
          BY <2>2, EvenNibble
        <5> QED
          BY <4>2, <4>3, <5>1, <5>2
      <4> QED
        BY <2>3, <2>4, <2>6, <3>5, <4>4
    <3> QED
      BY <3>2, <3>3, <3>4, <3>5
  <2> QED
    BY <2>5, <2>6
<1> QED
  BY <1>6 DEF u

-----------------------------------------------------------------------------
(* The table, seen through Get. *)

Marks == {x \in Nat : x > TableLast}

\* What the marks and the places of the table are.
LEMMA Values ==
    /\ EOC \in Entries /\ EOC \in Marks /\ 4080 \in Entries /\ 4080 \in Marks
    /\ TableEntries \subseteq Entries /\ TableEntries \subseteq Nat
    /\ TableEntries \cap Marks = {}
    /\ FREE \in TableEntries /\ FREE = 0 /\ FREE # EOC
<1>1. TableLast \in Nat /\ TableLast < 4080
  BY FatTableAssumption, Fat12Assumption
<1>2. EOC \in Entries /\ 4080 \in Entries /\ FREE # EOC /\ FREE = 0
  BY SMT DEF EOC, Entries, FREE
<1>3. EOC \in Marks /\ 4080 \in Marks
  BY <1>1, SMT DEF EOC, Marks
<1>4. TableEntries \subseteq Entries /\ TableEntries \subseteq Nat /\ FREE \in TableEntries
  BY <1>1, SMT DEF TableEntries, Entries, FREE
<1>5. TableEntries \cap Marks = {}
  BY <1>1 DEF TableEntries, Marks
<1> QED
  BY <1>2, <1>3, <1>4, <1>5

\* One entry is changed.
LEMMA SetFacts ==
    ASSUME NEW t \in Tables, NEW c \in TableEntries, NEW v \in Entries
    PROVE  /\ set_fat_next_cluster(t, c, v) \in Tables
           /\ \A d \in TableEntries :
                 Get(set_fat_next_cluster(t, c, v), d) = IF d = c THEN v ELSE Get(t, d)
BY TablesClosed, EntriesIndependent DEF Get

\* A found cluster is marked and linked.
LEMMA LinkedFacts ==
    ASSUME NEW t \in Tables, NEW c \in TableEntries, NEW n \in TableEntries
    PROVE  /\ Linked(t, c, n) \in Tables
           /\ \A d \in TableEntries :
                 Get(Linked(t, c, n), d) = IF d = c THEN n ELSE IF d = n THEN EOC ELSE Get(t, d)
<1> DEFINE u == set_fat_next_cluster(t, n, EOC)
<1>1. u \in Tables /\ \A d \in TableEntries : Get(u, d) = IF d = n THEN EOC ELSE Get(t, d)
  BY Values, SetFacts
<1>2. n \in Entries
  BY Values
<1> HIDE DEF u
<1>3. /\ set_fat_next_cluster(u, c, n) \in Tables
      /\ \A d \in TableEntries :
            Get(set_fat_next_cluster(u, c, n), d) = IF d = c THEN n ELSE Get(u, d)
  BY <1>1, <1>2, SetFacts
<1>4. Linked(t, c, n) = set_fat_next_cluster(u, c, n)
  BY DEF Linked, u
<1> QED
  BY <1>1, <1>3, <1>4

\* An entry that two tables agree on is not cut in two: a table that has each
\* of its bytes from one or the other agrees with both.
LEMMA NotCut ==
    ASSUME NEW t \in Tables, NEW u \in Tables, NEW v \in Tables, NEW c \in TableEntries,
           \A i \in Offsets : v[i] = t[i] \/ v[i] = u[i], Get(t, c) = Get(u, c)
    PROVE  Get(v, c) = Get(t, c)
<1> DEFINE o == fat_offset(c)
<1>1. o \in Offsets /\ o + 1 \in Offsets
  BY AccessInside
<1>2. PICK a \in Bytes, b \in Bytes, x \in Bytes, y \in Bytes, p \in Bytes, q \in Bytes :
          /\ a = t[o] /\ b = t[o + 1] /\ x = u[o] /\ y = u[o + 1]
          /\ p = v[o] /\ q = v[o + 1]
  BY <1>1 DEF Tables
<1>3. (p = a \/ p = x) /\ (q = b \/ q = y)
  BY <1>1, <1>2
<1>4. CASE c % 2 = 0
  <2>1. /\ Get(t, c) = EvenOf(Join(a, b)) /\ Get(u, c) = EvenOf(Join(x, y))
        /\ Get(v, c) = EvenOf(Join(p, q))
    BY <1>2, <1>4, GetBytes DEF Get
  <2>2. PICK l \in 0..15, m \in 0..15, n \in 0..15 :
            l = LowNibble(b) /\ m = LowNibble(y) /\ n = LowNibble(q)
    <3>1. LowNibble(b) \in 0..15 /\ LowNibble(y) \in 0..15 /\ LowNibble(q) \in 0..15
      BY NibbleSmall
    <3> QED
      BY <3>1, Zenon
  <2>a. /\ EvenOf(Join(a, b)) = a + 256 * LowNibble(b)
        /\ EvenOf(Join(x, y)) = x + 256 * LowNibble(y)
        /\ EvenOf(Join(p, q)) = p + 256 * LowNibble(q)
    BY EvenNibble
  <2>3. Get(t, c) = a + 256 * l
    BY <2>1, <2>2, <2>a
  <2>4. Get(u, c) = x + 256 * m
    BY <2>1, <2>2, <2>a
  <2>5. Get(v, c) = p + 256 * n
    BY <2>1, <2>2, <2>a
  <2>6. a + 256 * l = x + 256 * m
    BY <2>3, <2>4
  <2>7. a = x /\ l = m
    BY <2>6, SMT DEF Bytes
  <2>8. p = a /\ n = l
    BY <1>3, <2>2, <2>7
  <2> QED
    BY <2>3, <2>5, <2>8
<1>5. CASE c % 2 = 1
  <2>1. /\ Get(t, c) = OddOf(Join(a, b)) /\ Get(u, c) = OddOf(Join(x, y))
        /\ Get(v, c) = OddOf(Join(p, q))
    BY <1>2, <1>5, GetBytes DEF Get
  <2>2. /\ Get(t, c) = HighNibble(a) + 16 * b /\ Get(u, c) = HighNibble(x) + 16 * y
        /\ Get(v, c) = HighNibble(p) + 16 * q
    BY <2>1, OddNibble
  <2>3. HighNibble(a) \in 0..15 /\ HighNibble(x) \in 0..15 /\ b \in Int /\ y \in Int
    BY DEF HighNibble, Bytes
  <2>4. HighNibble(a) + 16 * b = HighNibble(x) + 16 * y
    BY <2>2
  <2>5. HighNibble(a) = HighNibble(x) /\ b = y
    BY <2>3, <2>4
  <2> QED
    BY <1>3, <2>2, <2>5
<1> QED
  BY <1>4, <1>5, Parity

\* A nonempty set of naturals has a least element.
LEMMA LeastNatural ==
    ASSUME NEW S \in SUBSET Nat, S # {}
    PROVE  \E i \in S : \A k \in S : i <= k
<1>1. PICK i \in S : \A k \in S : <<k, i>> \notin OpToRel(<, Nat)
  BY NatLessThanWellFounded, WFMin, Zenon
<1>2. ASSUME NEW k \in S PROVE i <= k
  <2>1. <<k, i>> \notin {ss \in Nat \X Nat : ss[1] < ss[2]}
    BY <1>1 DEF OpToRel
  <2> QED
    BY <2>1
<1> QED
  BY <1>2

\* The sectors of the table.
LEMMA SectorOf ==
    ASSUME NEW i \in Offsets
    PROVE  i \div SectorBytes \in Nat /\ LastSector \in Nat /\ i \div SectorBytes <= LastSector
<1> DEFINE m == ((TableLast * 3) \div 2) + 1
<1>1. m \in Nat /\ i \in Nat /\ i <= m /\ SectorBytes \in Nat \ {0}
  BY FatTableAssumption, Fat12Assumption DEF Offsets
<1> HIDE DEF m
<1>2. i \div SectorBytes \in Nat /\ m \div SectorBytes \in Nat
                                 /\ i \div SectorBytes <= m \div SectorBytes
  BY <1>1
<1> QED
  BY <1>2 DEF LastSector, m

-----------------------------------------------------------------------------
(* The invariant of write_file. *)

Files == [name : Names, length : Nat \ {0}, first : Nat, number : Int]
DirEntries == [name : Names \cup {Dot, DotDot}, first_cluster : Nat, size : Nat]
Contents == {Empty} \cup (Int \X Int)

\* The types, with what the code relies on to find a free cluster: there are as
\* many as the file still needs, and entry 0 is never one of them.  The cluster
\* that is being written is the end of its chain.
FatTypes ==
    /\ FAT_TABLE_0 \in Tables /\ fat0 \in Tables /\ fat1 \in Tables
    /\ dir \in [1..Slots -> DirEntries \cup {Empty}]
    /\ cur_dir \in [1..Slots -> DirEntries \cup {Empty}]
    /\ data \in [Clusters -> Contents]
    /\ pc \in {"idle", "chain", "dir", "fat0", "fat1"}
    /\ cluster \in TableEntries
    /\ sector \in Nat /\ sector <= LastSector
    /\ pc \in {"chain", "dir"} => sector = 0
    /\ pc # "idle" => file \in Files
    /\ sectors_written \in Nat /\ calls \in Nat
    /\ overrun \in BOOLEAN /\ torn \in BOOLEAN
    /\ stored \subseteq Files

\* Entry 0 is not free, in memory and on the disk.
MediaKept == Get(FAT_TABLE_0, 0) # FREE /\ Get(fat0, 0) = Get(FAT_TABLE_0, 0)

\* The file needs no more clusters than are free, and the current one is the
\* end of a chain.
ChainOpen ==
    pc = "chain" =>
        /\ sectors_written < file.length
        /\ file.length - (sectors_written + 1) <= Cardinality(Free)
        /\ cluster # FREE /\ Get(FAT_TABLE_0, cluster) = EOC

\* A table is a set of chains.
Chains(fat) ==
    \A c \in TableEntries :
        Get(fat, c) \in TableEntries \ {FREE} =>
            /\ Get(fat, Get(fat, c)) # FREE
            /\ \A d \in TableEntries : Get(fat, d) = Get(fat, c) => d = c

ChainsInv == ~torn => /\ Chains(FAT_TABLE_0)
                      /\ (pc # "fat0" \/ sector = 0) => Chains(fat0)

\* The copies are up to date as far as they have been written.
Synced(copy) == \A i \in Offsets : i \div SectorBytes < sector => copy[i] = FAT_TABLE_0[i]
SyncInv ==
    /\ pc = "fat0" => Synced(fat0)
    /\ pc = "fat1" => fat0 = FAT_TABLE_0 /\ Synced(fat1)
    /\ recent # Empty => pc = "idle" /\ fat0 = FAT_TABLE_0 /\ fat1 = FAT_TABLE_0

\* The file is in a directory.
ListedIn(d, f) == \E i \in Seen(d) : d[i] = Entry(f.name, f.first, f.length)
ListedInv ==
    /\ dir[1] # Empty /\ cur_dir[1] # Empty
    /\ pc # "idle" => ListedIn(cur_dir, file)
    /\ pc \in {"fat0", "fat1"} => dir = cur_dir
    /\ recent # Empty => ListedIn(dir, recent)

\* A chain of n clusters that starts at first.
ChainOf(fat, g, first, n) ==
    /\ g \in [1..n -> TableEntries \ {FREE}]
    /\ g[1] = first
    /\ \A k \in 1..n : Get(fat, g[k]) = IF k = n THEN EOC ELSE g[k + 1]

\* The data of the first n clusters is in place.
Holds(g, n, number) ==
    \A k \in 1..n : g[k] \in Clusters /\ data[g[k]] = <<number, k>>

\* The call in progress: its clusters so far are chained and, unless it ran off
\* the disk, hold its data; the last one is still to be written.
Taken == IF pc = "chain" THEN sectors_written + 1 ELSE file.length
ProgressInv ==
    pc # "idle" =>
        \E g \in [1..Taken -> TableEntries \ {FREE}] :
            /\ ChainOf(FAT_TABLE_0, g, file.first, Taken)
            /\ pc = "chain" => /\ g[Taken] = cluster
                               /\ \A k \in 1..(Taken - 1) : g[k] # cluster
                               /\ ~overrun => Holds(g, Taken - 1, file.number)
            /\ pc # "chain" => (~overrun => Holds(g, Taken, file.number))

\* A stored file: the table in memory and the one on disk agree on its chain,
\* its data is in place, and the call in progress is not about to overwrite it.
Kept(f) ==
    \E g \in [1..f.length -> TableEntries \ {FREE}] :
        /\ ChainOf(FAT_TABLE_0, g, f.first, f.length)
        /\ ChainOf(fat0, g, f.first, f.length)
        /\ Holds(g, f.length, f.number)
        /\ pc = "chain" => \A k \in 1..f.length : g[k] # cluster
StoredInv == \A f \in stored : Kept(f)

\* As long as there was no crash, every entry of the directory leads to a chain
\* of its own, which the call in progress does not touch; it replaces one entry.
Own(fat, e) == {Chain(fat, e.first_cluster, e.size)[k] : k \in 1..e.size}
Readable(fat, e) ==
    e.size > 0 => ChainOf(fat, Chain(fat, e.first_cluster, e.size), e.first_cluster, e.size)
MyClusters == {Chain(FAT_TABLE_0, file.first, Taken)[k] : k \in 1..Taken}
EntriesInv ==
    /\ crashes \in Nat
    /\ crashes = 0 =>
          /\ \A i \in Seen(dir) : Readable(FAT_TABLE_0, dir[i])
          /\ \A i \in Seen(dir), j \in Seen(dir) :
                i # j => Own(FAT_TABLE_0, dir[i]) \cap Own(FAT_TABLE_0, dir[j]) = {}
          /\ pc \in {"chain", "dir"} =>
                /\ \E i \in Seen(dir) :
                      cur_dir = [dir EXCEPT ![i] = Entry(file.name, file.first, file.length)]
                /\ \A i \in Seen(dir) : Own(FAT_TABLE_0, dir[i]) \cap MyClusters = {}

DiskInv == /\ FatTypes /\ MediaKept /\ ChainOpen /\ ChainsInv /\ SyncInv
           /\ ListedInv /\ ProgressInv /\ StoredInv /\ EntriesInv

-----------------------------------------------------------------------------
(* The helpers of the code. *)

\* The search for a free cluster finds one.
LEMMA FoundFree ==
    ASSUME Free # {}
    PROVE  /\ get_first_free_cluster \in TableEntries
           /\ Get(FAT_TABLE_0, get_first_free_cluster) = FREE
<1>1. Free \in SUBSET Nat
  <2>1. TableEntries \subseteq Nat
    BY Values
  <2> QED
    BY <2>1 DEF Free
<1>2. PICK i \in Free : \A k \in Free : i <= k
  BY <1>1, LeastNatural
<1>3. get_first_free_cluster \in Free
  BY <1>2 DEF get_first_free_cluster
<1> QED
  BY <1>3 DEF Free

\* The free clusters can be counted; there is one when the count is not 0.
LEMMA FreeCounted ==
    /\ IsFiniteSet(Free) /\ Cardinality(Free) \in Nat
    /\ Cardinality(Free) >= 1 => Free # {}
<1>1. IsFiniteSet(TableEntries)
  BY FatTableAssumption, FS_Interval DEF TableEntries
<1>2. IsFiniteSet(Free)
  <2>1. Free \subseteq TableEntries
    BY DEF Free
  <2> QED
    BY <1>1, <2>1, FS_Subset
<1> QED
  BY <1>2, FS_CardinalityType, FS_EmptySet

\* A cluster that is found is one free cluster less.
LEMMA FreeTaken ==
    ASSUME Free # {}, Free' = Free \ {get_first_free_cluster}
    PROVE  Cardinality(Free') = Cardinality(Free) - 1
<1>1. get_first_free_cluster \in Free
  BY FoundFree DEF Free
<1> QED
  BY <1>1, FreeCounted, FS_RemoveElement

\* The entry that create_entry_in_directory returns is before the first blank.
LEMMA CreatedSeen ==
    ASSUME NEW d, d[1] # Empty, NEW name
    PROVE  create_entry_in_directory(d, name) \in Seen(d)
<1>1. Slots \in Nat /\ Slots > 2
  BY Fat12Assumption
<1>2. 1 \in Seen(d)
  BY <1>1 DEF Seen
<1> DEFINE named == {i \in Seen(d) : d[i].name = name}
<1>3. named \in SUBSET Nat /\ named \subseteq Seen(d)
  BY DEF Seen
<1>4. CASE named # {}
  <2>1. PICK i \in named : \A k \in named : i <= k
    BY <1>3, <1>4, LeastNatural
  <2>2. (CHOOSE k \in named : \A j \in named : k <= j) \in named
    BY <2>1
  <2> QED
    BY <1>3, <1>4, <2>2 DEF create_entry_in_directory
<1>5. CASE named = {}
  <2> DEFINE gaps == {Slots - i : i \in Seen(d)}
  <2>1. gaps \in SUBSET Nat /\ gaps # {}
    BY <1>1, <1>2 DEF Seen
  <2>2. PICK m \in gaps : \A k \in gaps : m <= k
    BY <2>1, LeastNatural
  <2>3. PICK i \in Seen(d) : m = Slots - i
    BY <2>2
  <2>4. ASSUME NEW j \in Seen(d) PROVE j <= i
    <3>1. Slots - j \in gaps /\ i \in 1..Slots /\ j \in 1..Slots
      BY DEF Seen
    <3>2. m <= Slots - j
      BY <2>2, <3>1
    <3> QED
      BY <1>1, <2>3, <3>1, <3>2
  <2>5. (CHOOSE k \in Seen(d) : \A j \in Seen(d) : j <= k) \in Seen(d)
    BY <2>4
  <2> QED
    BY <1>5, <2>5 DEF create_entry_in_directory
<1> QED
  BY <1>4, <1>5

\* An entry that is not blank in the place of another changes nothing for the
\* ones the loop sees.
LEMMA SeenKept ==
    ASSUME NEW d, DOMAIN d = 1..Slots, NEW i \in Seen(d), NEW e, e # Empty
    PROVE  Seen([d EXCEPT ![i] = e]) = Seen(d)
<1> DEFINE u == [d EXCEPT ![i] = e]
<1>1. i \in 1..Slots /\ d[i] # Empty /\ Slots \in Nat
  BY Fat12Assumption DEF Seen
<1>2. ASSUME NEW k \in 1..Slots PROVE (u[k] # Empty) <=> (d[k] # Empty)
  BY <1>1
<1> HIDE DEF u
<1>3. ASSUME NEW k \in 1..Slots PROVE \A j \in 1..k : j \in 1..Slots
  BY <1>1
<1>4. ASSUME NEW k \in 1..Slots
      PROVE  (\A j \in 1..k : u[j] # Empty) <=> (\A j \in 1..k : d[j] # Empty)
  BY <1>2, <1>3, Zenon
<1> QED
  BY <1>4 DEF Seen, u

\* Entries are not blank.
LEMMA EntryFacts ==
    ASSUME NEW f \in Files
    PROVE  /\ Entry(f.name, f.first, f.length) \in DirEntries
           /\ Entry(f.name, f.first, f.length) # Empty
BY Fat12Assumption DEF Files, DirEntries, Entry

-----------------------------------------------------------------------------
(* Chains. *)

\* The clusters of a chain are not free.
LEMMA ChainNotFree ==
    ASSUME NEW t, NEW g, NEW first, NEW n \in Nat, ChainOf(t, g, first, n), NEW k \in 1..n
    PROVE  g[k] \in TableEntries /\ g[k] # FREE /\ Get(t, g[k]) # FREE
<1>1. g \in [1..n -> TableEntries \ {FREE}]
  BY DEF ChainOf
<1>2. CASE k = n
  BY <1>1, <1>2, Values DEF ChainOf
<1>3. CASE k # n
  <2>1. k + 1 \in 1..n
    BY <1>3
  <2> QED
    BY <1>1, <1>3, <2>1 DEF ChainOf
<1> QED
  BY <1>2, <1>3

\* A table that agrees on a chain's clusters has the chain.
LEMMA ChainKept ==
    ASSUME NEW t, NEW u, NEW g, NEW first, NEW n, ChainOf(t, g, first, n),
           \A k \in 1..n : Get(u, g[k]) = Get(t, g[k])
    PROVE  ChainOf(u, g, first, n)
BY DEF ChainOf

\* Chain follows the table: what load_fat_cluster_chain loads is the chain, and
\* there is no other.
LEMMA ChainUnique ==
    ASSUME NEW t, NEW g, NEW first, NEW n \in Nat \ {0}, ChainOf(t, g, first, n)
    PROVE  Chain(t, first, n) = g
<1> DEFINE Body(f) == [k \in 1..n |-> IF k = 1 THEN first
                                     ELSE IF f[k - 1] \in TableEntries
                                          THEN Get(t, f[k - 1]) ELSE FREE]
           h == CHOOSE f : f = Body(f)
<1>1. Chain(t, first, n) = h
  BY DEF Chain
<1>2. g \in [1..n -> TableEntries \ {FREE}] /\ g[1] = first
  BY DEF ChainOf
<1>3. ASSUME NEW k \in 1..n, k # 1 PROVE g[k - 1] \in TableEntries /\ Get(t, g[k - 1]) = g[k]
  <2>1. k - 1 \in 1..n /\ k - 1 # n /\ (k - 1) + 1 = k
    BY <1>3
  <2> QED
    BY <1>2, <2>1 DEF ChainOf
<1>4. g = Body(g)
  <2>1. \A k \in 1..n : Body(g)[k] = g[k]
    BY <1>2, <1>3
  <2> QED
    BY <1>2, <2>1
<1>5. h = Body(h)
  <2> HIDE DEF Body
  <2> QED
    BY <1>4
<1> HIDE DEF h
<1>6. h = [k \in 1..n |-> h[k]] /\ \A k \in 1..n : h[k] = Body(h)[k]
  BY <1>5
<1>7. \A k \in 1..n : h[k] = g[k]
  <2> DEFINE S == {k \in 1..n : h[k] # g[k]}
  <2>1. SUFFICES ASSUME S # {} PROVE FALSE
    OBVIOUS
  <2>2. S \in SUBSET Nat
    OBVIOUS
  <2>3. PICK k \in S : \A j \in S : k <= j
    BY <2>1, <2>2, LeastNatural
  <2>4. k \in 1..n /\ h[k] # g[k]
    BY <2>3
  <2>5. CASE k = 1
    BY <1>2, <1>6, <2>4, <2>5
  <2>6. CASE k # 1
    <3>1. k - 1 \in 1..n /\ k - 1 < k
      BY <2>4, <2>6
    <3>2. h[k - 1] = g[k - 1]
      BY <2>3, <3>1
    <3>3. h[k] = Get(t, g[k - 1])
      BY <1>3, <1>6, <2>4, <2>6, <3>2
    <3> QED
      BY <1>3, <2>4, <2>6, <3>3
  <2> QED
    BY <2>5, <2>6
<1>8. g = [k \in 1..n |-> g[k]]
  BY <1>2
<1> QED
  BY <1>1, <1>6, <1>7, <1>8

-----------------------------------------------------------------------------
(* What the actions do. *)

\* write_file takes a free cluster, and puts the file in the directory's copy.
LEMMA WriteFileFacts ==
    ASSUME FatTypes, MediaKept, ListedInv, NEW name \in Names, NEW length \in Lengths,
           write_file(name, length)
    PROVE  /\ cluster' \in TableEntries \ {FREE} /\ Get(FAT_TABLE_0, cluster') = FREE
           /\ file' \in Files /\ file'.first = cluster' /\ file'.length = length
           /\ FAT_TABLE_0' \in Tables
           /\ \A d \in TableEntries :
                 Get(FAT_TABLE_0', d) = IF d = cluster' THEN EOC ELSE Get(FAT_TABLE_0, d)
           /\ \E i \in Seen(dir) : cur_dir'
                    = [dir EXCEPT ![i] = Entry(file'.name, file'.first, file'.length)]
           /\ Free # {} /\ cluster' = get_first_free_cluster /\ length <= Cardinality(Free)
<1>1. length \in Nat \ {0} /\ length <= Cardinality(Free) /\ calls \in Nat
  BY Fat12Assumption DEF write_file, Room, FatTypes
<1>2. Free # {}
  BY <1>1, FreeCounted
<1>3. cluster' = get_first_free_cluster
  BY DEF write_file
<1>4. cluster' \in TableEntries /\ Get(FAT_TABLE_0, cluster') = FREE
  BY <1>2, <1>3, FoundFree
<1>5. cluster' # FREE
  BY <1>4, Values DEF MediaKept
<1>6. /\ file' = [name |-> name, length |-> length, first |-> cluster', number |-> calls]
      /\ FAT_TABLE_0' = set_fat_next_cluster(FAT_TABLE_0, cluster', EOC)
      /\ cur_dir' = [dir EXCEPT ![create_entry_in_directory(dir, name)]
                                 = Entry(name, cluster', length)]
  BY DEF write_file
<1>7. cluster' \in Nat
  <2>1. TableEntries \subseteq Nat
    BY Values
  <2> QED
    BY <1>4, <2>1
<1>8. file' \in Files /\ file'.name = name /\ file'.first = cluster' /\ file'.length = length
  BY <1>1, <1>6, <1>7 DEF Files
<1>9. EOC \in Entries /\ FAT_TABLE_0 \in Tables
  BY Values DEF FatTypes
<1>10. /\ FAT_TABLE_0' \in Tables
       /\ \A d \in TableEntries :
             Get(FAT_TABLE_0', d) = IF d = cluster' THEN EOC ELSE Get(FAT_TABLE_0, d)
  BY <1>4, <1>6, <1>9, SetFacts
<1>11. create_entry_in_directory(dir, name) \in Seen(dir)
  BY CreatedSeen DEF ListedInv
<1>12. \E i \in Seen(dir) : cur_dir'
          = [dir EXCEPT ![i] = Entry(file'.name, file'.first, file'.length)]
  BY <1>6, <1>8, <1>11
<1> QED
  BY <1>1, <1>2, <1>3, <1>4, <1>5, <1>8, <1>10, <1>12

\* A turn of the loop takes a free cluster and links the current one to it.
LEMMA ChainLinkFacts ==
    ASSUME FatTypes, MediaKept, ChainOpen, ChainLink
    PROVE  /\ cluster' \in TableEntries \ {FREE} /\ Get(FAT_TABLE_0, cluster') = FREE
           /\ cluster' # cluster
           /\ FAT_TABLE_0' \in Tables
           /\ \A d \in TableEntries :
                 Get(FAT_TABLE_0', d) = IF d = cluster THEN cluster'
                                        ELSE IF d = cluster' THEN EOC ELSE Get(FAT_TABLE_0, d)
           /\ Free # {} /\ cluster' = get_first_free_cluster
<1>1. /\ pc = "chain" /\ sectors_written + 1 < file.length /\ cluster' = get_first_free_cluster
      /\ FAT_TABLE_0' = Linked(FAT_TABLE_0, cluster, cluster')
  BY DEF ChainLink, Goto
<1>2. sectors_written \in Nat /\ file.length \in Nat
  BY <1>1 DEF FatTypes, Files
<1>3. /\ file.length - (sectors_written + 1) <= Cardinality(Free)
      /\ cluster # FREE /\ Get(FAT_TABLE_0, cluster) = EOC
  BY <1>1 DEF ChainOpen
<1>4. Free # {}
  BY <1>1, <1>2, <1>3, FreeCounted
<1>5. cluster' \in TableEntries /\ Get(FAT_TABLE_0, cluster') = FREE
  BY <1>1, <1>4, FoundFree
<1>6. cluster' # FREE /\ cluster' # cluster
  BY <1>3, <1>5, Values DEF MediaKept
<1>7. FAT_TABLE_0 \in Tables /\ cluster \in TableEntries
  BY DEF FatTypes
<1>8. /\ FAT_TABLE_0' \in Tables
      /\ \A d \in TableEntries :
            Get(FAT_TABLE_0', d) = IF d = cluster THEN cluster'
                                   ELSE IF d = cluster' THEN EOC ELSE Get(FAT_TABLE_0, d)
  BY <1>1, <1>5, <1>7, LinkedFacts
<1> QED
  BY <1>1, <1>4, <1>5, <1>6, <1>8

\* The last turn marks the end again.
LEMMA ChainEndFacts ==
    ASSUME FatTypes, ChainOpen, ChainEnd
    PROVE  /\ FAT_TABLE_0' \in Tables
           /\ \A d \in TableEntries : Get(FAT_TABLE_0', d) = Get(FAT_TABLE_0, d)
<1>1. /\ Get(FAT_TABLE_0, cluster) = EOC
      /\ FAT_TABLE_0' = IF file.length = 1 THEN set_fat_next_cluster(FAT_TABLE_0, cluster, EOC)
                        ELSE FAT_TABLE_0
  BY DEF ChainEnd, Goto, ChainOpen
<1>2. FAT_TABLE_0 \in Tables /\ cluster \in TableEntries /\ EOC \in Entries
  BY Values DEF FatTypes
<1>3. CASE file.length = 1
  BY <1>1, <1>2, <1>3, SetFacts
<1>4. CASE file.length # 1
  BY <1>1, <1>2, <1>4
<1> QED
  BY <1>3, <1>4

\* A write of data changes the current cluster only.
LEMMA DataFacts ==
    ASSUME FatTypes, pc = "chain", WriteCluster
    PROVE  /\ data' \in [Clusters -> Contents] /\ overrun' \in BOOLEAN
           /\ sectors_written' = sectors_written + 1 /\ sectors_written' \in Nat
           /\ \A c \in Clusters : c # cluster => data'[c] = data[c]
           /\ ~overrun' => /\ ~overrun /\ cluster \in Clusters
                           /\ data'[cluster] = <<file.number, sectors_written + 1>>
<1>1. /\ data \in [Clusters -> Contents] /\ overrun \in BOOLEAN /\ sectors_written \in Nat
      /\ file.number \in Int
  BY DEF FatTypes, Files
<1>2. <<file.number, sectors_written + 1>> \in Contents
  BY <1>1 DEF Contents
<1>3. sectors_written' = sectors_written + 1 /\ sectors_written' \in Nat
  BY <1>1 DEF WriteCluster
<1> HIDE DEF Contents
<1>4. CASE cluster \in Clusters
  <2>1. /\ data' = [data EXCEPT ![cluster] = <<file.number, sectors_written + 1>>]
        /\ overrun' = overrun
    BY <1>4 DEF WriteCluster
  <2> QED
    BY <1>1, <1>2, <1>3, <1>4, <2>1
<1>5. CASE cluster \notin Clusters
  <2>1. data' = data /\ overrun' = TRUE
    BY <1>5 DEF WriteCluster
  <2> QED
    BY <1>1, <1>3, <2>1
<1> QED
  BY <1>4, <1>5

\* A sector of the table that is written is not cut where the copies agree, and
\* with the last sector the copy is the table.
LEMMA SectorFacts ==
    ASSUME FatTypes, NEW t \in Tables
    PROVE  /\ WithSector(t) \in Tables
           /\ \A c \in TableEntries :
                 Get(t, c) = Get(FAT_TABLE_0, c) => Get(WithSector(t), c) = Get(t, c)
           /\ Synced(t) => \A i \in Offsets :
                 i \div SectorBytes <= sector => WithSector(t)[i] = FAT_TABLE_0[i]
           /\ Synced(t) /\ sector = LastSector => WithSector(t) = FAT_TABLE_0
<1> DEFINE u == WithSector(t)
<1>1. FAT_TABLE_0 \in Tables /\ sector \in Nat
  BY DEF FatTypes
<1>2. u = [i \in Offsets |-> IF i \div SectorBytes = sector THEN FAT_TABLE_0[i] ELSE t[i]]
  BY DEF WithSector
<1> HIDE DEF u
<1>3. u \in Tables /\ \A i \in Offsets : u[i] = t[i] \/ u[i] = FAT_TABLE_0[i]
  BY <1>1, <1>2 DEF Tables
<1>4. ASSUME NEW c \in TableEntries, Get(t, c) = Get(FAT_TABLE_0, c)
      PROVE  Get(u, c) = Get(t, c)
  BY <1>1, <1>3, <1>4, NotCut
<1>5. ASSUME Synced(t), NEW i \in Offsets, i \div SectorBytes <= sector
      PROVE  u[i] = FAT_TABLE_0[i]
  <2>1. i \div SectorBytes \in Nat
    BY SectorOf
  <2>2. i \div SectorBytes = sector \/ i \div SectorBytes < sector
    BY <1>1, <1>5, <2>1
  <2>3. i \div SectorBytes < sector => t[i] = FAT_TABLE_0[i]
    BY <1>5 DEF Synced
  <2> QED
    BY <1>2, <2>2, <2>3
<1>6. ASSUME Synced(t), sector = LastSector
      PROVE  u = FAT_TABLE_0
  <2>1. \A i \in Offsets : u[i] = FAT_TABLE_0[i]
    BY <1>5, <1>6, SectorOf
  <2> QED
    BY <1>1, <1>3, <2>1 DEF Tables
<1> QED
  BY <1>3, <1>4, <1>5, <1>6 DEF u

-----------------------------------------------------------------------------
(* The parts of the invariant are kept. *)

\* The cases of a step.
LEMMA Steps ==
    ASSUME [Next]_vars
    PROVE  \/ \E name \in Names, length \in Lengths : write_file(name, length)
           \/ ChainLink \/ ChainEnd \/ WriteDir \/ WriteFat0 \/ WriteFat1 \/ Crash
           \/ UNCHANGED vars
BY DEF Next

\* The types are kept.
LEMMA TypesStep ==
    ASSUME FatTypes, MediaKept, ChainOpen, ListedInv, [Next]_vars
    PROVE  FatTypes'
<1> USE DEF Goto
<1>1. ASSUME NEW name \in Names, NEW length \in Lengths, write_file(name, length)
      PROVE  FatTypes'
  <2>1. file' \in Files /\ cluster' \in TableEntries /\ FAT_TABLE_0' \in Tables
    BY <1>1, WriteFileFacts
  <2>2. PICK i \in Seen(dir) : cur_dir'
            = [dir EXCEPT ![i] = Entry(file'.name, file'.first, file'.length)]
    BY <1>1, WriteFileFacts
  <2>3. Entry(file'.name, file'.first, file'.length) \in DirEntries
    BY <2>1, EntryFacts
  <2>4. cur_dir' \in [1..Slots -> DirEntries \cup {Empty}]
    BY <2>2, <2>3 DEF FatTypes
  <2>5. 0 \in Nat /\ 0 <= LastSector
    BY SectorOf, FatTableAssumption DEF Offsets
  <2>6. pc' = "chain" /\ sector' = 0 /\ sectors_written' = 0 /\ calls' = calls + 1
        /\ overrun' = FALSE
    BY <1>1 DEF write_file
  <2>7. /\ fat0' = fat0 /\ fat1' = fat1 /\ dir' = dir /\ data' = data
        /\ stored' = stored /\ torn' = torn
    BY <1>1 DEF write_file, disk
  <2>8. calls' \in Nat
    BY <2>6 DEF FatTypes
  <2>9. overrun' \in BOOLEAN /\ torn' \in BOOLEAN
    BY <2>6, <2>7, Zenon DEF FatTypes
  <2> QED
    BY <2>1, <2>4, <2>5, <2>6, <2>7, <2>8, <2>9 DEF FatTypes
<1>2. CASE ChainLink
  <2>1. cluster' \in TableEntries /\ FAT_TABLE_0' \in Tables
    BY <1>2, ChainLinkFacts
  <2>2. pc = "chain" /\ WriteCluster
    BY <1>2 DEF ChainLink
  <2>3. data' \in [Clusters -> Contents] /\ overrun' \in BOOLEAN /\ sectors_written' \in Nat
    BY <2>2, DataFacts
  <2>4. /\ fat0' = fat0 /\ fat1' = fat1 /\ dir' = dir /\ cur_dir' = cur_dir /\ file' = file
        /\ stored' = stored /\ torn' = torn /\ pc' = pc /\ sector' = sector /\ calls' = calls
    BY <1>2 DEF ChainLink
  <2> QED
    BY <2>1, <2>2, <2>3, <2>4 DEF FatTypes
<1>3. CASE ChainEnd
  <2>1. FAT_TABLE_0' \in Tables
    BY <1>3, ChainEndFacts
  <2>2. pc = "chain" /\ WriteCluster /\ pc' = "dir"
    BY <1>3 DEF ChainEnd
  <2>3. data' \in [Clusters -> Contents] /\ overrun' \in BOOLEAN /\ sectors_written' \in Nat
    BY <2>2, DataFacts
  <2>4. /\ fat0' = fat0 /\ fat1' = fat1 /\ dir' = dir /\ cur_dir' = cur_dir /\ file' = file
        /\ stored' = stored /\ torn' = torn /\ sector' = sector /\ calls' = calls
        /\ cluster' = cluster
    BY <1>3 DEF ChainEnd
  <2> QED
    BY <2>1, <2>2, <2>3, <2>4 DEF FatTypes
<1>4. CASE WriteDir
  BY <1>4 DEF WriteDir, FatTypes, local, history
<1>5. ASSUME NextSector, FatTypes PROVE sector' \in Nat /\ sector' <= LastSector
  <2>1. LastSector \in Nat
    BY SectorOf, FatTableAssumption DEF Offsets
  <2> QED
    BY <1>5, <2>1 DEF NextSector, FatTypes
<1>6. CASE WriteFat0
  <2>1. fat0' \in Tables
    BY <1>6, SectorFacts DEF WriteFat0, FatTypes
  <2>2. pc = "fat0" /\ pc' \in {"fat0", "fat1"} /\ NextSector
    BY <1>6 DEF WriteFat0
  <2>3. /\ FAT_TABLE_0' = FAT_TABLE_0 /\ fat1' = fat1 /\ dir' = dir /\ data' = data
        /\ cur_dir' = cur_dir /\ file' = file /\ cluster' = cluster
        /\ sectors_written' = sectors_written /\ calls' = calls /\ stored' = stored
        /\ overrun' = overrun /\ torn' = torn
    BY <1>6 DEF WriteFat0, history
  <2> QED
    BY <1>5, <2>1, <2>2, <2>3 DEF FatTypes
<1>7. CASE WriteFat1
  <2>1. fat1' \in Tables
    BY <1>7, SectorFacts DEF WriteFat1, FatTypes
  <2>2. pc = "fat1" /\ pc' \in {"fat1", "idle"} /\ NextSector
    BY <1>7 DEF WriteFat1
  <2>3. /\ FAT_TABLE_0' = FAT_TABLE_0 /\ fat0' = fat0 /\ dir' = dir /\ data' = data
        /\ cur_dir' = cur_dir /\ file' = file /\ cluster' = cluster
        /\ sectors_written' = sectors_written /\ calls' = calls
        /\ overrun' = overrun /\ torn' = torn
    BY <1>7 DEF WriteFat1
  <2>4. file \in Files
    BY <2>2 DEF FatTypes
  <2>5. stored' = stored \/ stored' = stored \cup {file}
    BY <1>7 DEF WriteFat1
  <2>6. stored' \subseteq Files
    BY <2>4, <2>5 DEF FatTypes
  <2> QED
    BY <1>5, <2>1, <2>2, <2>3, <2>6 DEF FatTypes
<1>8. CASE Crash
  <2>1. LastSector \in Nat
    BY SectorOf, FatTableAssumption DEF Offsets
  <2>2. 0 \in TableEntries
    BY Values
  <2> QED
    BY <1>8, <2>1, <2>2 DEF Crash, FatTypes, disk
<1>9. CASE UNCHANGED vars
  BY <1>9 DEF vars, disk, local, history, FatTypes
<1> QED
  BY <1>1, <1>2, <1>3, <1>4, <1>6, <1>7, <1>8, <1>9, Steps

\* Entry 0 is kept.
LEMMA MediaStep ==
    ASSUME FatTypes, MediaKept, ChainOpen, ListedInv, [Next]_vars
    PROVE  MediaKept'
<1> USE DEF Goto
<1>0. 0 \in TableEntries /\ FREE = 0
  BY Values
<1>1. ASSUME NEW name \in Names, NEW length \in Lengths, write_file(name, length)
      PROVE  MediaKept'
  BY <1>0, <1>1, WriteFileFacts DEF MediaKept, write_file, disk
<1>2. CASE ChainLink
  <2>1. cluster # FREE
    BY <1>2 DEF ChainLink, ChainOpen
  <2> QED
    BY <1>0, <1>2, <2>1, ChainLinkFacts DEF MediaKept, ChainLink
<1>3. CASE ChainEnd
  BY <1>0, <1>3, ChainEndFacts DEF MediaKept, ChainEnd
<1>4. CASE WriteDir
  BY <1>4 DEF WriteDir, MediaKept
<1>5. CASE WriteFat0
  <2>1. fat0' = WithSector(fat0) /\ FAT_TABLE_0' = FAT_TABLE_0 /\ fat0 \in Tables
    BY <1>5 DEF WriteFat0, FatTypes
  <2> QED
    BY <1>0, <2>1, SectorFacts DEF MediaKept
<1>6. CASE WriteFat1
  BY <1>6 DEF WriteFat1, MediaKept
<1>7. CASE Crash
  BY <1>7 DEF Crash, MediaKept, disk
<1>8. CASE UNCHANGED vars
  BY <1>8 DEF vars, disk, MediaKept
<1> QED
  BY <1>1, <1>2, <1>3, <1>4, <1>5, <1>6, <1>7, <1>8, Steps

\* There stay as many free clusters as the file needs.
LEMMA OpenStep ==
    ASSUME FatTypes, MediaKept, ChainOpen, ListedInv, [Next]_vars
    PROVE  ChainOpen'
<1> USE DEF Goto
<1>1. ASSUME NEW name \in Names, NEW length \in Lengths, write_file(name, length)
      PROVE  ChainOpen'
  <2>1. /\ cluster' \in TableEntries \ {FREE}
        /\ \A d \in TableEntries :
              Get(FAT_TABLE_0', d) = IF d = cluster' THEN EOC ELSE Get(FAT_TABLE_0, d)
        /\ file'.length = length /\ Free # {} /\ cluster' = get_first_free_cluster
        /\ length <= Cardinality(Free) /\ length \in Nat \ {0}
    BY <1>1, WriteFileFacts, Fat12Assumption
  <2>2. Free' = Free \ {get_first_free_cluster}
    <3>1. EOC # FREE
      BY Values
    <3>2. \A d : d \in Free' <=> d \in Free /\ d # cluster'
      BY <2>1, <3>1 DEF Free
    <3> QED
      BY <2>1, <3>2
  <2>3. Cardinality(Free') = Cardinality(Free) - 1 /\ Cardinality(Free) \in Nat
    BY <2>1, <2>2, FreeTaken, FreeCounted
  <2>4. sectors_written' = 0
    BY <1>1 DEF write_file
  <2> QED
    BY <2>1, <2>3, <2>4 DEF ChainOpen
<1>2. CASE ChainLink
  <2>1. /\ cluster' \in TableEntries \ {FREE} /\ cluster' # cluster
        /\ \A d \in TableEntries :
              Get(FAT_TABLE_0', d) = IF d = cluster THEN cluster'
                                     ELSE IF d = cluster' THEN EOC ELSE Get(FAT_TABLE_0, d)
        /\ Free # {} /\ cluster' = get_first_free_cluster
    BY <1>2, ChainLinkFacts
  <2>2. pc = "chain" /\ sectors_written + 1 < file.length /\ WriteCluster /\ file' = file
    BY <1>2 DEF ChainLink
  <2>3. /\ file.length - (sectors_written + 1) <= Cardinality(Free)
        /\ Get(FAT_TABLE_0, cluster) = EOC /\ file.length \in Nat /\ sectors_written \in Nat
    BY <2>2 DEF ChainOpen, FatTypes, Files
  <2>4. Free' = Free \ {get_first_free_cluster}
    <3>1. EOC # FREE
      BY Values
    <3>2. \A d : d \in Free' <=> d \in Free /\ d # cluster'
      BY <2>1, <2>3, <3>1 DEF Free
    <3> QED
      BY <2>1, <3>2
  <2>5. Cardinality(Free') = Cardinality(Free) - 1 /\ Cardinality(Free) \in Nat
    BY <2>1, <2>4, FreeTaken, FreeCounted
  <2>6. sectors_written' = sectors_written + 1
    BY <2>2 DEF WriteCluster
  <2> QED
    BY <2>1, <2>2, <2>3, <2>5, <2>6 DEF ChainOpen
<1>3. CASE \/ ChainEnd \/ WriteDir \/ WriteFat0 \/ WriteFat1 \/ Crash
  <2>1. pc' # "chain"
    BY <1>3 DEF ChainEnd, WriteDir, WriteFat0, WriteFat1, Crash
  <2> QED
    BY <2>1 DEF ChainOpen
<1>4. CASE UNCHANGED vars
  BY <1>4 DEF vars, disk, local, ChainOpen, Free
<1> QED
  BY <1>1, <1>2, <1>3, <1>4, Steps

-----------------------------------------------------------------------------
\* A table with the same entries is as much a set of chains.
LEMMA ChainsSame ==
    ASSUME NEW t, NEW u, Chains(t), \A d \in TableEntries : Get(u, d) = Get(t, d)
    PROVE  Chains(u)
BY DEF Chains

\* A free cluster becomes a chain of its own.
LEMMA ChainsTaken ==
    ASSUME NEW t, NEW u, NEW c \in TableEntries, Chains(t), Get(t, c) = FREE,
           \A d \in TableEntries : Get(u, d) = IF d = c THEN EOC ELSE Get(t, d)
    PROVE  Chains(u)
<1>1. EOC \notin TableEntries
  BY Values
<1>2. SUFFICES ASSUME NEW e \in TableEntries, Get(u, e) \in TableEntries \ {FREE}
               PROVE  /\ Get(u, Get(u, e)) # FREE
                      /\ \A d \in TableEntries : Get(u, d) = Get(u, e) => d = e
  BY DEF Chains
<1>3. e # c /\ Get(u, e) = Get(t, e)
  BY <1>1, <1>2
<1>4. /\ Get(t, Get(t, e)) # FREE
      /\ \A d \in TableEntries : Get(t, d) = Get(t, e) => d = e
  BY <1>2, <1>3 DEF Chains
<1> QED
  BY <1>1, <1>2, <1>3, <1>4

\* A free cluster becomes the new end of a chain.
LEMMA ChainsLinked ==
    ASSUME NEW t, NEW u, NEW c \in TableEntries, NEW n \in TableEntries \ {FREE},
           Chains(t), Get(t, n) = FREE, Get(t, c) = EOC,
           \A d \in TableEntries :
              Get(u, d) = IF d = c THEN n ELSE IF d = n THEN EOC ELSE Get(t, d)
    PROVE  Chains(u)
<1>1. EOC \notin TableEntries /\ EOC # FREE
  BY Values
<1>2. SUFFICES ASSUME NEW e \in TableEntries, Get(u, e) \in TableEntries \ {FREE}
               PROVE  /\ Get(u, Get(u, e)) # FREE
                      /\ \A d \in TableEntries : Get(u, d) = Get(u, e) => d = e
  BY DEF Chains
<1>3. ASSUME NEW d \in TableEntries, Get(t, d) = n PROVE FALSE
  BY <1>3 DEF Chains
<1>4. CASE e = c
  BY <1>1, <1>3, <1>4
<1>5. CASE e # c
  <2>1. e # n /\ Get(u, e) = Get(t, e)
    BY <1>1, <1>2, <1>5
  <2>2. /\ Get(t, Get(t, e)) # FREE
        /\ \A d \in TableEntries : Get(t, d) = Get(t, e) => d = e
    BY <1>2, <2>1 DEF Chains
  <2>3. Get(u, Get(u, e)) # FREE
    BY <1>1, <1>2, <2>1, <2>2
  <2>4. ASSUME NEW d \in TableEntries, Get(u, d) = Get(u, e) PROVE d = e
    <3>1. d # n
      BY <1>1, <1>2, <2>4
    <3>2. d # c
      BY <1>3, <2>1, <2>4
    <3> QED
      BY <2>1, <2>2, <2>4, <3>1, <3>2
  <2> QED
    BY <2>3, <2>4
<1> QED
  BY <1>4, <1>5

\* The tables stay sets of chains.
LEMMA ChainsStep ==
    ASSUME FatTypes, MediaKept, ChainOpen, ListedInv, SyncInv, ChainsInv, [Next]_vars
    PROVE  ChainsInv'
<1> USE DEF Goto
<1>0. SUFFICES ASSUME ~torn' PROVE /\ Chains(FAT_TABLE_0')
                                   /\ (pc' # "fat0" \/ sector' = 0) => Chains(fat0')
  BY DEF ChainsInv, Chains
<1>1. ASSUME NEW name \in Names, NEW length \in Lengths, write_file(name, length)
      PROVE  Chains(FAT_TABLE_0') /\ Chains(fat0')
  <2>1. pc = "idle" /\ torn' = torn /\ fat0' = fat0
    BY <1>1 DEF write_file, disk
  <2>2. Chains(FAT_TABLE_0) /\ Chains(fat0)
    BY <1>0, <2>1 DEF ChainsInv
  <2>3. Chains(FAT_TABLE_0')
    BY <1>1, <2>2, WriteFileFacts, ChainsTaken
  <2> QED
    BY <2>1, <2>2, <2>3
<1>2. CASE ChainLink
  <2>1. pc = "chain" /\ torn' = torn /\ fat0' = fat0
    BY <1>2 DEF ChainLink
  <2>2. Chains(FAT_TABLE_0) /\ Chains(fat0)
    BY <1>0, <2>1 DEF ChainsInv
  <2>3. cluster \in TableEntries /\ Get(FAT_TABLE_0, cluster) = EOC
    BY <2>1 DEF FatTypes, ChainOpen
  <2>4. Chains(FAT_TABLE_0')
    BY <1>2, <2>2, <2>3, ChainLinkFacts, ChainsLinked
  <2> QED
    BY <2>1, <2>2, <2>4
<1>3. CASE ChainEnd
  <2>1. pc = "chain" /\ torn' = torn /\ fat0' = fat0
    BY <1>3 DEF ChainEnd
  <2>2. Chains(FAT_TABLE_0) /\ Chains(fat0)
    BY <1>0, <2>1 DEF ChainsInv
  <2>3. Chains(FAT_TABLE_0')
    BY <1>3, <2>2, ChainEndFacts, ChainsSame
  <2> QED
    BY <2>1, <2>2, <2>3
<1>4. CASE WriteDir
  <2>1. pc = "dir" /\ torn' = torn /\ fat0' = fat0 /\ FAT_TABLE_0' = FAT_TABLE_0
    BY <1>4 DEF WriteDir, history
  <2> QED
    BY <1>0, <2>1 DEF ChainsInv
<1>5. CASE WriteFat0
  <2>1. /\ pc = "fat0" /\ torn' = torn /\ FAT_TABLE_0' = FAT_TABLE_0
        /\ fat0' = WithSector(fat0) /\ fat0 \in Tables
    BY <1>5 DEF WriteFat0, history, FatTypes
  <2>2. Chains(FAT_TABLE_0')
    BY <1>0, <2>1 DEF ChainsInv
  <2>3. CASE sector = LastSector
    <3>1. Synced(fat0)
      BY <2>1 DEF SyncInv
    <3>2. fat0' = FAT_TABLE_0
      BY <2>1, <2>3, <3>1, SectorFacts
    <3> QED
      BY <2>1, <2>2, <3>2
  <2>4. CASE sector # LastSector
    <3>1. pc' = "fat0" /\ sector' = sector + 1 /\ sector \in Nat
      BY <1>5, <2>4 DEF WriteFat0, NextSector, FatTypes
    <3>2. sector' # 0
      BY <3>1
    <3> QED
      BY <2>2, <3>1, <3>2
  <2> QED
    BY <2>3, <2>4
<1>6. CASE WriteFat1
  <2>1. pc = "fat1" /\ torn' = torn /\ fat0' = fat0 /\ FAT_TABLE_0' = FAT_TABLE_0
    BY <1>6 DEF WriteFat1
  <2> QED
    BY <1>0, <2>1 DEF ChainsInv
<1>7. CASE Crash
  <2>1. FAT_TABLE_0' = fat0 /\ fat0' = fat0 /\ ~torn /\ ~(pc = "fat0" /\ sector # 0)
    BY <1>0, <1>7 DEF Crash, disk
  <2>2. Chains(fat0)
    BY <2>1 DEF ChainsInv
  <2> QED
    BY <2>1, <2>2
<1>8. CASE UNCHANGED vars
  <2>1. pc' = pc /\ torn' = torn /\ fat0' = fat0 /\ FAT_TABLE_0' = FAT_TABLE_0 /\ sector' = sector
    BY <1>8 DEF vars, disk, local, history
  <2> QED
    BY <1>0, <2>1 DEF ChainsInv
<1> QED
  BY <1>1, <1>2, <1>3, <1>4, <1>5, <1>6, <1>7, <1>8, Steps

\* The copies are kept up to date.
LEMMA SyncStep ==
    ASSUME FatTypes, SyncInv, [Next]_vars
    PROVE  SyncInv'
<1> USE DEF Goto
<1>1. CASE \/ \E name \in Names, length \in Lengths : write_file(name, length)
           \/ ChainLink \/ ChainEnd
  <2>1. pc' \in {"chain", "dir"} /\ (recent' = Empty \/ (recent' = recent /\ pc = "chain"))
    BY <1>1 DEF write_file, ChainLink, ChainEnd
  <2> QED
    BY <2>1 DEF SyncInv
<1>2. CASE WriteDir
  <2>1. pc = "dir" /\ sector = 0 /\ sector' = sector /\ pc' = "fat0" /\ recent' = recent
    BY <1>2 DEF WriteDir, FatTypes, local, history
  <2>2. recent' = Empty
    BY <2>1 DEF SyncInv
  <2>3. \A i \in Offsets : ~(i \div SectorBytes < 0)
    BY SectorOf
  <2>4. Synced(fat0)'
    BY <2>1, <2>3 DEF Synced
  <2> QED
    BY <2>1, <2>2, <2>4 DEF SyncInv
<1>3. ASSUME NEW t \in Tables, Synced(t), FAT_TABLE_0' = FAT_TABLE_0, sector # LastSector,
             NextSector
      PROVE  \A i \in Offsets : i \div SectorBytes < sector' => WithSector(t)[i] = FAT_TABLE_0'[i]
  <2>1. sector' = sector + 1 /\ sector \in Nat
    BY <1>3 DEF NextSector, FatTypes
  <2>2. ASSUME NEW i \in Offsets, i \div SectorBytes < sector' PROVE i \div SectorBytes <= sector
    <3>1. i \div SectorBytes \in Nat
      BY SectorOf
    <3> QED
      BY <2>1, <2>2, <3>1
  <2> QED
    BY <1>3, <2>2, SectorFacts
<1>4. CASE WriteFat0
  <2>1. /\ pc = "fat0" /\ FAT_TABLE_0' = FAT_TABLE_0 /\ recent' = recent
        /\ fat0' = WithSector(fat0) /\ fat0 \in Tables /\ NextSector
    BY <1>4 DEF WriteFat0, history, FatTypes
  <2>2. Synced(fat0) /\ recent = Empty
    BY <2>1 DEF SyncInv
  <2>3. CASE sector = LastSector
    <3>1. fat0' = FAT_TABLE_0
      BY <2>1, <2>2, <2>3, SectorFacts
    <3>2. pc' = "fat1" /\ sector' = 0
      BY <1>4, <2>3 DEF WriteFat0, NextSector
    <3>3. \A i \in Offsets : ~(i \div SectorBytes < 0)
      BY SectorOf
    <3>4. Synced(fat1)'
      BY <3>2, <3>3 DEF Synced
    <3> QED
      BY <2>1, <2>2, <3>1, <3>2, <3>4 DEF SyncInv
  <2>4. CASE sector # LastSector
    <3>1. pc' = "fat0"
      BY <1>4, <2>4 DEF WriteFat0
    <3>2. Synced(fat0)'
      BY <1>3, <2>1, <2>2, <2>4 DEF Synced
    <3> QED
      BY <2>1, <2>2, <3>1, <3>2 DEF SyncInv
  <2> QED
    BY <2>3, <2>4
<1>5. CASE WriteFat1
  <2>1. /\ pc = "fat1" /\ FAT_TABLE_0' = FAT_TABLE_0 /\ fat0' = fat0
        /\ fat1' = WithSector(fat1) /\ fat1 \in Tables /\ NextSector
    BY <1>5 DEF WriteFat1, FatTypes
  <2>2. Synced(fat1) /\ fat0 = FAT_TABLE_0 /\ recent = Empty
    BY <2>1 DEF SyncInv
  <2>3. CASE sector = LastSector
    <3>1. fat1' = FAT_TABLE_0
      BY <2>1, <2>2, <2>3, SectorFacts
    <3>2. pc' = "idle"
      BY <1>5, <2>3 DEF WriteFat1
    <3> QED
      BY <2>1, <2>2, <3>1, <3>2 DEF SyncInv
  <2>4. CASE sector # LastSector
    <3>1. pc' = "fat1" /\ recent' = recent
      BY <1>5, <2>4 DEF WriteFat1
    <3>2. Synced(fat1)'
      BY <1>3, <2>1, <2>2, <2>4 DEF Synced
    <3> QED
      BY <2>1, <2>2, <3>1, <3>2 DEF SyncInv
  <2> QED
    BY <2>3, <2>4
<1>6. CASE Crash
  BY <1>6 DEF Crash, SyncInv
<1>7. CASE UNCHANGED vars
  BY <1>7 DEF vars, disk, local, history, SyncInv, Synced
<1> QED
  BY <1>1, <1>2, <1>4, <1>5, <1>6, <1>7, Steps

\* The file stays in the directory.
LEMMA ListedStep ==
    ASSUME FatTypes, MediaKept, ListedInv, SyncInv, [Next]_vars
    PROVE  ListedInv'
<1> USE DEF Goto
<1>0. Slots \in Nat /\ Slots > 2
  BY Fat12Assumption
<1>1. ASSUME NEW name \in Names, NEW length \in Lengths, write_file(name, length)
      PROVE  ListedInv'
  <2>1. PICK i \in Seen(dir) : cur_dir'
            = [dir EXCEPT ![i] = Entry(file'.name, file'.first, file'.length)]
    BY <1>1, WriteFileFacts
  <2>2. Entry(file'.name, file'.first, file'.length) # Empty
    BY <1>1, WriteFileFacts, EntryFacts
  <2>3. DOMAIN dir = 1..Slots /\ i \in 1..Slots
    BY DEF FatTypes, Seen
  <2>4. Seen(cur_dir') = Seen(dir)
    BY <2>1, <2>2, <2>3, SeenKept
  <2>5. cur_dir'[i] = Entry(file'.name, file'.first, file'.length)
    BY <2>1, <2>3
  <2>6. 1 \in Seen(cur_dir')
    BY <1>0, <2>4 DEF ListedInv, Seen
  <2>7. cur_dir'[1] # Empty
    BY <1>0, <2>6 DEF Seen
  <2>8. dir' = dir /\ pc' = "chain" /\ recent' = Empty
    BY <1>1 DEF write_file, disk
  <2> QED
    BY <2>1, <2>4, <2>5, <2>7, <2>8 DEF ListedInv, ListedIn
<1>2. CASE ChainLink \/ ChainEnd
  <2>1. /\ pc = "chain" /\ pc' \in {"chain", "dir"} /\ dir' = dir /\ cur_dir' = cur_dir
        /\ file' = file /\ recent' = recent
    BY <1>2 DEF ChainLink, ChainEnd
  <2> QED
    BY <2>1 DEF ListedInv, ListedIn
<1>3. CASE WriteDir
  <2>1. /\ pc = "dir" /\ pc' = "fat0" /\ dir' = cur_dir /\ cur_dir' = cur_dir
        /\ file' = file /\ recent' = recent
    BY <1>3 DEF WriteDir, local, history
  <2>2. recent = Empty
    BY <2>1 DEF SyncInv
  <2> QED
    BY <2>1, <2>2 DEF ListedInv, ListedIn
<1>4. CASE WriteFat0
  <2>1. /\ pc = "fat0" /\ dir' = dir /\ cur_dir' = cur_dir
        /\ file' = file /\ recent' = recent
    BY <1>4 DEF WriteFat0, history
  <2> QED
    BY <2>1 DEF ListedInv, ListedIn
<1>5. CASE WriteFat1
  <2>1. /\ pc = "fat1" /\ dir' = dir /\ cur_dir' = cur_dir
        /\ file' = file /\ recent' \in {recent, file}
    BY <1>5 DEF WriteFat1
  <2> QED
    BY <2>1 DEF ListedInv, ListedIn
<1>6. CASE Crash
  <2>1. pc' = "idle" /\ dir' = dir /\ cur_dir' = dir /\ recent' = Empty
    BY <1>6 DEF Crash, disk
  <2> QED
    BY <2>1 DEF ListedInv
<1>7. CASE UNCHANGED vars
  <2>1. /\ pc' = pc /\ dir' = dir /\ cur_dir' = cur_dir
        /\ file' = file /\ recent' = recent
    BY <1>7 DEF vars, disk, local, history
  <2> QED
    BY <2>1 DEF ListedInv, ListedIn
<1> QED
  BY <1>1, <1>2, <1>3, <1>4, <1>5, <1>6, <1>7, Steps

-----------------------------------------------------------------------------
\* Data that is in place stays, unless it is in the cluster that is written.
LEMMA HoldsKept ==
    ASSUME NEW g, NEW n, NEW number, Holds(g, n, number),
           \A c \in Clusters : c # cluster => data'[c] = data[c],
           \A k \in 1..n : g[k] # cluster
    PROVE  \A k \in 1..n : g[k] \in Clusters /\ data'[g[k]] = <<number, k>>
BY DEF Holds

\* In t the cluster n is free; in u, c is linked to it and it is the end.
LinkedTo(t, u, c, n) ==
    /\ c \in TableEntries /\ n \in TableEntries \ {FREE} /\ n # c /\ Get(t, n) = FREE
    /\ \A d \in TableEntries :
          Get(u, d) = IF d = c THEN n ELSE IF d = n THEN EOC ELSE Get(t, d)

\* The last of the first w clusters of g, and only that one, is c.
EndsAt(g, w, c) == g[w] = c /\ \A k \in 1..(w - 1) : g[k] # c

\* A chain of which the last cluster is linked to a free one.
LEMMA ChainLonger ==
    ASSUME NEW t, NEW u, NEW g, NEW first, NEW w \in Nat \ {0}, ChainOf(t, g, first, w),
           NEW c, NEW n, LinkedTo(t, u, c, n), EndsAt(g, w, c)
    PROVE  \E h : /\ ChainOf(u, h, first, w + 1)
                  /\ h[w + 1] = n /\ \A k \in 1..w : h[k] = g[k] /\ h[k] # n
<1> DEFINE h == [k \in 1..(w + 1) |-> IF k <= w THEN g[k] ELSE n]
<1> USE DEF LinkedTo, EndsAt
<1>1. g \in [1..w -> TableEntries \ {FREE}] /\ g[1] = first
  BY DEF ChainOf
<1>2. h \in [1..(w + 1) -> TableEntries \ {FREE}]
  <2>1. \A k \in 1..(w + 1) : k <= w => k \in 1..w
    OBVIOUS
  <2> QED
    BY <1>1, <2>1
<1>3. h[w + 1] = n
  OBVIOUS
<1>4. ASSUME NEW k \in 1..w PROVE h[k] = g[k] /\ h[k] # n
  <2>1. k \in 1..(w + 1) /\ k <= w
    OBVIOUS
  <2>2. h[k] = g[k]
    BY <2>1
  <2>3. Get(t, g[k]) # FREE
    BY ChainNotFree
  <2> QED
    BY <2>2, <2>3
<1>5. h[1] = first
  <2>1. 1 \in 1..w
    OBVIOUS
  <2> QED
    BY <1>1, <1>4, <2>1
<1> HIDE DEF h
<1>6. ASSUME NEW k \in 1..(w + 1)
      PROVE  Get(u, h[k]) = IF k = w + 1 THEN EOC ELSE h[k + 1]
  <2>1. CASE k = w + 1
    BY <1>3, <2>1
  <2>2. CASE k = w
    <3>1. w \in 1..w /\ k # w + 1
      BY <2>2
    <3>2. h[k] = c
      BY <1>4, <2>2, <3>1
    <3> QED
      BY <1>3, <2>2, <3>1, <3>2
  <2>3. CASE k # w /\ k # w + 1
    <3>1. k \in 1..w /\ k \in 1..(w - 1) /\ k + 1 \in 1..w
      BY <2>3
    <3>2. h[k] = g[k] /\ h[k] # n /\ h[k + 1] = g[k + 1]
      BY <1>4, <3>1
    <3>3. Get(u, g[k]) = Get(t, g[k])
      BY <1>1, <3>1, <3>2
    <3>4. Get(t, g[k]) = g[k + 1]
      BY <2>3, <3>1 DEF ChainOf
    <3> QED
      BY <2>3, <3>2, <3>3, <3>4
  <2> QED
    BY <2>1, <2>2, <2>3
<1>7. ChainOf(u, h, first, w + 1)
  BY <1>2, <1>5, <1>6 DEF ChainOf
<1> QED
  BY <1>3, <1>4, <1>7

\* The call in progress keeps its clusters chained and written.
LEMMA ProgressStep ==
    ASSUME FatTypes, MediaKept, ChainOpen, ListedInv, ProgressInv, [Next]_vars
    PROVE  ProgressInv'
<1> USE DEF Goto
<1>1. ASSUME NEW name \in Names, NEW length \in Lengths, write_file(name, length)
      PROVE  ProgressInv'
  <2>1. pc' = "chain" /\ Taken' = 1
    BY <1>1 DEF write_file, Taken
  <2>2. PICK c \in TableEntries \ {FREE} :
            c = cluster' /\ c = file'.first /\ Get(FAT_TABLE_0', c) = EOC
    BY <1>1, WriteFileFacts
  <2> DEFINE g == [k \in 1..1 |-> c]
  <2>3. g \in [1..1 -> TableEntries \ {FREE}] /\ g[1] = c /\ 1..(1 - 1) = {}
    OBVIOUS
  <2>4. ChainOf(FAT_TABLE_0', g, c, 1)
    BY <2>2, <2>3 DEF ChainOf
  <2> HIDE DEF g
  <2>5. Holds(g, 1 - 1, file.number)'
    BY <2>3 DEF Holds
  <2> QED
    BY <2>1, <2>2, <2>3, <2>4, <2>5 DEF ProgressInv
<1>2. CASE ChainLink
  <2>1. /\ pc = "chain" /\ pc' = "chain" /\ WriteCluster /\ file' = file
        /\ sectors_written \in Nat /\ cluster \in TableEntries
    BY <1>2 DEF ChainLink, FatTypes
  <2>2. sectors_written' = sectors_written + 1
    BY <2>1 DEF WriteCluster
  <2>3. PICK w \in Nat \ {0} : w = Taken /\ w = sectors_written + 1 /\ Taken' = w + 1
    BY <2>1, <2>2 DEF Taken
  <2>4. PICK g \in [1..w -> TableEntries \ {FREE}] :
            /\ ChainOf(FAT_TABLE_0, g, file.first, w)
            /\ g[w] = cluster
            /\ \A k \in 1..(w - 1) : g[k] # cluster
            /\ ~overrun => Holds(g, w - 1, file.number)
    BY <2>1, <2>3 DEF ProgressInv
  <2>5. PICK n \in TableEntries \ {FREE} :
            /\ n = cluster' /\ n # cluster /\ Get(FAT_TABLE_0, n) = FREE
            /\ \A d \in TableEntries :
                  Get(FAT_TABLE_0', d) = IF d = cluster THEN n
                                         ELSE IF d = n THEN EOC ELSE Get(FAT_TABLE_0, d)
    BY <1>2, ChainLinkFacts
  <2>11. PICK h :
          /\ ChainOf(FAT_TABLE_0', h, file.first, w + 1)
          /\ h[w + 1] = n /\ \A k \in 1..w : h[k] = g[k] /\ h[k] # n
    <3>1. LinkedTo(FAT_TABLE_0, FAT_TABLE_0', cluster, n)
      BY <2>1, <2>5 DEF LinkedTo
    <3>2. EndsAt(g, w, cluster)
      BY <2>4 DEF EndsAt
    <3> QED
      BY <2>4, <3>1, <3>2, ChainLonger
  <2>6. ASSUME ~overrun', NEW k \in 1..w PROVE h[k] \in Clusters /\ data'[h[k]] = <<file.number, k>>
    <3>1. /\ ~overrun /\ cluster \in Clusters
          /\ data'[cluster] = <<file.number, w>>
          /\ \A c \in Clusters : c # cluster => data'[c] = data[c]
      BY <2>1, <2>3, <2>6, DataFacts
    <3>2. CASE k = w
      BY <2>4, <2>11, <3>1, <3>2
    <3>3. CASE k # w
      <4>1. k \in 1..(w - 1)
        BY <3>3
      <4>2. \A j \in 1..(w - 1) : g[j] \in Clusters /\ data'[g[j]] = <<file.number, j>>
        <5>1. Holds(g, w - 1, file.number) /\ \A j \in 1..(w - 1) : g[j] # cluster
          BY <2>4, <3>1
        <5> QED
          BY <3>1, <5>1 DEF Holds
      <4> QED
        BY <2>11, <4>1, <4>2
    <3> QED
      BY <3>2, <3>3
  <2>7. (w + 1) - 1 = w
    OBVIOUS
  <2>8. ~overrun' => Holds(h, w, file.number)'
    BY <2>1, <2>6 DEF Holds
  <2>9. h \in [1..(w + 1) -> TableEntries \ {FREE}]
    BY <2>11 DEF ChainOf
  <2> QED
    BY <2>1, <2>3, <2>5, <2>7, <2>8, <2>9, <2>11 DEF ProgressInv
<1>3. CASE ChainEnd
  <2>1. /\ pc = "chain" /\ pc' = "dir" /\ WriteCluster /\ file' = file
        /\ sectors_written + 1 = file.length /\ sectors_written \in Nat
    BY <1>3 DEF ChainEnd, FatTypes
  <2>2. PICK w \in Nat \ {0} : w = Taken /\ w = sectors_written + 1 /\ Taken' = w
    BY <2>1 DEF Taken
  <2>3. PICK g \in [1..w -> TableEntries \ {FREE}] :
            /\ ChainOf(FAT_TABLE_0, g, file.first, w)
            /\ g[w] = cluster
            /\ \A k \in 1..(w - 1) : g[k] # cluster
            /\ ~overrun => Holds(g, w - 1, file.number)
    BY <2>1, <2>2 DEF ProgressInv
  <2>4. ChainOf(FAT_TABLE_0', g, file.first, w)
    BY <1>3, <2>3, ChainEndFacts, ChainKept
  <2>5. ASSUME ~overrun', NEW k \in 1..w PROVE g[k] \in Clusters /\ data'[g[k]] = <<file.number, k>>
    <3>1. /\ ~overrun /\ cluster \in Clusters
          /\ data'[cluster] = <<file.number, w>>
          /\ \A c \in Clusters : c # cluster => data'[c] = data[c]
      BY <2>1, <2>2, <2>5, DataFacts
    <3>2. CASE k = w
      BY <2>3, <3>1, <3>2
    <3>3. CASE k # w
      <4>1. k \in 1..(w - 1)
        BY <3>3
      <4>2. \A j \in 1..(w - 1) : g[j] \in Clusters /\ data'[g[j]] = <<file.number, j>>
        BY <2>3, <3>1, HoldsKept
      <4> QED
        BY <4>1, <4>2
    <3> QED
      BY <3>2, <3>3
  <2>6. ~overrun' => Holds(g, w, file.number)'
    BY <2>1, <2>5 DEF Holds
  <2> QED
    BY <2>1, <2>2, <2>3, <2>4, <2>6 DEF ProgressInv
<1>4. CASE WriteDir \/ WriteFat0 \/ WriteFat1
  <2>1. /\ pc \notin {"idle", "chain"} /\ pc' # "chain" /\ file' = file
        /\ FAT_TABLE_0' = FAT_TABLE_0 /\ data' = data /\ overrun' = overrun
    BY <1>4 DEF WriteDir, WriteFat0, WriteFat1, local, history
  <2>2. PICK w : w = file.length /\ Taken = w /\ Taken' = w
    BY <2>1 DEF Taken
  <2>3. PICK g \in [1..w -> TableEntries \ {FREE}] :
            /\ ChainOf(FAT_TABLE_0, g, file.first, w)
            /\ ~overrun => Holds(g, w, file.number)
    BY <2>1, <2>2 DEF ProgressInv
  <2>4. ~overrun' => Holds(g, w, file.number)'
    BY <2>1, <2>3 DEF Holds
  <2> QED
    BY <2>1, <2>2, <2>3, <2>4 DEF ProgressInv
<1>5. CASE Crash
  BY <1>5 DEF Crash, ProgressInv
<1>6. CASE UNCHANGED vars
  BY <1>6 DEF vars, disk, local, history, ProgressInv, Taken, Holds
<1> QED
  BY <1>1, <1>2, <1>3, <1>4, <1>5, <1>6, Steps

\* What is stored stays stored.
LEMMA StoredStep ==
    ASSUME FatTypes, MediaKept, ChainOpen, ListedInv, SyncInv, ProgressInv, StoredInv, [Next]_vars
    PROVE  StoredInv'
<1> USE DEF Goto
<1>0. ASSUME NEW f \in stored
      PROVE  \E g \in [1..f.length -> TableEntries \ {FREE}] :
                /\ ChainOf(FAT_TABLE_0, g, f.first, f.length)
                /\ ChainOf(fat0, g, f.first, f.length)
                /\ Holds(g, f.length, f.number)
                /\ pc = "chain" => \A k \in 1..f.length : g[k] # cluster
                /\ \A k \in 1..f.length : g[k] \in TableEntries /\ Get(FAT_TABLE_0, g[k]) # FREE
  <2>1. PICK g \in [1..f.length -> TableEntries \ {FREE}] :
                /\ ChainOf(FAT_TABLE_0, g, f.first, f.length)
                /\ ChainOf(fat0, g, f.first, f.length)
                /\ Holds(g, f.length, f.number)
                /\ pc = "chain" => \A k \in 1..f.length : g[k] # cluster
    BY DEF StoredInv, Kept
  <2>2. f.length \in Nat
    BY DEF FatTypes, Files
  <2>3. \A k \in 1..f.length : g[k] \in TableEntries /\ Get(FAT_TABLE_0, g[k]) # FREE
    BY <2>1, <2>2, ChainNotFree
  <2> QED
    BY <2>1, <2>3
<1>1. ASSUME NEW name \in Names, NEW length \in Lengths, write_file(name, length)
      PROVE  StoredInv'
  <2>1. stored' = stored /\ fat0' = fat0 /\ data' = data
    BY <1>1 DEF write_file, disk
  <2>2. ASSUME NEW f \in stored PROVE Kept(f)'
    <3>1. PICK g \in [1..f.length -> TableEntries \ {FREE}] :
                /\ ChainOf(FAT_TABLE_0, g, f.first, f.length)
                /\ ChainOf(fat0, g, f.first, f.length)
                /\ Holds(g, f.length, f.number)
                /\ \A k \in 1..f.length : g[k] \in TableEntries /\ Get(FAT_TABLE_0, g[k]) # FREE
      BY <1>0
    <3>2. \A k \in 1..f.length :
              g[k] # cluster' /\ Get(FAT_TABLE_0', g[k]) = Get(FAT_TABLE_0, g[k])
      BY <1>1, <3>1, WriteFileFacts
    <3>3. ChainOf(FAT_TABLE_0', g, f.first, f.length)
      BY <3>1, <3>2, ChainKept
    <3>4. Holds(g, f.length, f.number)'
      BY <2>1, <3>1 DEF Holds
    <3> QED
      BY <2>1, <3>1, <3>2, <3>3, <3>4 DEF Kept
  <2> QED
    BY <2>1, <2>2 DEF StoredInv
<1>2. CASE ChainLink
  <2>1. pc = "chain" /\ stored' = stored /\ fat0' = fat0 /\ WriteCluster
    BY <1>2 DEF ChainLink
  <2>2. ASSUME NEW f \in stored PROVE Kept(f)'
    <3>1. PICK g \in [1..f.length -> TableEntries \ {FREE}] :
                /\ ChainOf(FAT_TABLE_0, g, f.first, f.length)
                /\ ChainOf(fat0, g, f.first, f.length)
                /\ Holds(g, f.length, f.number)
                /\ \A k \in 1..f.length : g[k] # cluster
                /\ \A k \in 1..f.length : g[k] \in TableEntries /\ Get(FAT_TABLE_0, g[k]) # FREE
      BY <1>0, <2>1
    <3>2. \A k \in 1..f.length :
              g[k] # cluster' /\ Get(FAT_TABLE_0', g[k]) = Get(FAT_TABLE_0, g[k])
      BY <1>2, <3>1, ChainLinkFacts
    <3>3. ChainOf(FAT_TABLE_0', g, f.first, f.length)
      BY <3>1, <3>2, ChainKept
    <3>4. Holds(g, f.length, f.number)'
      BY <2>1, <3>1, DataFacts DEF Holds
    <3> QED
      BY <2>1, <3>1, <3>2, <3>3, <3>4 DEF Kept
  <2> QED
    BY <2>1, <2>2 DEF StoredInv
<1>3. CASE ChainEnd
  <2>1. pc = "chain" /\ pc' = "dir" /\ stored' = stored /\ fat0' = fat0 /\ WriteCluster
    BY <1>3 DEF ChainEnd
  <2>2. ASSUME NEW f \in stored PROVE Kept(f)'
    <3>1. PICK g \in [1..f.length -> TableEntries \ {FREE}] :
                /\ ChainOf(FAT_TABLE_0, g, f.first, f.length)
                /\ ChainOf(fat0, g, f.first, f.length)
                /\ Holds(g, f.length, f.number)
                /\ \A k \in 1..f.length : g[k] # cluster
      BY <1>0, <2>1
    <3>2. ChainOf(FAT_TABLE_0', g, f.first, f.length)
      BY <1>3, <3>1, ChainEndFacts, ChainKept
    <3>3. Holds(g, f.length, f.number)'
      BY <2>1, <3>1, DataFacts DEF Holds
    <3> QED
      BY <2>1, <3>1, <3>2, <3>3 DEF Kept
  <2> QED
    BY <2>1, <2>2 DEF StoredInv
<1>4. CASE WriteDir
  <2>1. /\ pc' # "chain" /\ stored' = stored /\ FAT_TABLE_0' = FAT_TABLE_0 /\ fat0' = fat0
        /\ data' = data
    BY <1>4 DEF WriteDir, history
  <2> QED
    BY <2>1 DEF StoredInv, Kept, Holds
<1>5. CASE WriteFat0
  <2>1. /\ pc' # "chain" /\ stored' = stored /\ FAT_TABLE_0' = FAT_TABLE_0
        /\ fat0' = WithSector(fat0) /\ data' = data /\ fat0 \in Tables
    BY <1>5 DEF WriteFat0, history, FatTypes
  <2>2. ASSUME NEW f \in stored PROVE Kept(f)'
    <3>1. PICK g \in [1..f.length -> TableEntries \ {FREE}] :
                /\ ChainOf(FAT_TABLE_0, g, f.first, f.length)
                /\ ChainOf(fat0, g, f.first, f.length)
                /\ Holds(g, f.length, f.number)
      BY <1>0
    <3>2. \A k \in 1..f.length : Get(fat0, g[k]) = Get(FAT_TABLE_0, g[k])
      BY <3>1 DEF ChainOf
    <3>3. \A k \in 1..f.length : Get(fat0', g[k]) = Get(fat0, g[k])
      BY <2>1, <3>2, SectorFacts
    <3>4. ChainOf(fat0', g, f.first, f.length)
      BY <3>1, <3>3, ChainKept
    <3>5. Holds(g, f.length, f.number)'
      BY <2>1, <3>1 DEF Holds
    <3> QED
      BY <2>1, <3>1, <3>4, <3>5 DEF Kept
  <2> QED
    BY <2>1, <2>2 DEF StoredInv
<1>6. CASE WriteFat1
  <2>1. /\ pc = "fat1" /\ pc' # "chain" /\ FAT_TABLE_0' = FAT_TABLE_0 /\ fat0' = fat0
        /\ data' = data
        /\ stored' = stored \/ (~overrun /\ stored' = stored \cup {file})
    BY <1>6 DEF WriteFat1
  <2>2. ASSUME NEW f \in stored PROVE Kept(f)'
    BY <2>1 DEF StoredInv, Kept, Holds
  <2>3. ASSUME ~overrun PROVE Kept(file)'
    <3>1. file' = file /\ Taken = file.length /\ fat0 = FAT_TABLE_0
      BY <1>6, <2>1 DEF WriteFat1, Taken, SyncInv
    <3>2. PICK g \in [1..file.length -> TableEntries \ {FREE}] :
              /\ ChainOf(FAT_TABLE_0, g, file.first, file.length)
              /\ Holds(g, file.length, file.number)
      BY <2>1, <2>3, <3>1 DEF ProgressInv
    <3>3. Holds(g, file.length, file.number)'
      BY <2>1, <3>1, <3>2 DEF Holds
    <3> QED
      BY <2>1, <3>1, <3>2, <3>3 DEF Kept
  <2>4. file' = file
    BY <1>6 DEF WriteFat1
  <2> QED
    BY <2>1, <2>2, <2>3, <2>4 DEF StoredInv
<1>7. CASE Crash
  <2>1. /\ pc' # "chain" /\ stored' = stored /\ FAT_TABLE_0' = fat0 /\ fat0' = fat0
        /\ data' = data
    BY <1>7 DEF Crash, disk
  <2> QED
    BY <2>1 DEF StoredInv, Kept, Holds
<1>8. CASE UNCHANGED vars
  BY <1>8 DEF vars, disk, local, history, StoredInv, Kept, Holds
<1> QED
  BY <1>1, <1>2, <1>3, <1>4, <1>5, <1>6, <1>7, <1>8, Steps

-----------------------------------------------------------------------------
(* The disk image. *)

\* The file an index of Existing stands for, and its clusters.
LEMMA ExistingFacts ==
    ASSUME NEW i \in 1..Len(Existing)
    PROVE  /\ Existing[i] \in Files
           /\ Existing[i].first \in Nat /\ Existing[i].length \in Nat
           /\ Existing[i].first >= 2 /\ Existing[i].length >= 1
           /\ Existing[i].first + Existing[i].length - 1 <= Last
<1>1. Existing[i] \in Files
  <2>1. Existing \in Seq(Files)
    BY Fat12Assumption DEF Files
  <2> QED
    BY <2>1
<1>2. Existing[i].first \in Nat /\ Existing[i].length \in Nat \ {0}
  BY <1>1 DEF Files
<1>3. Existing[i].first >= 2 /\ Existing[i].first + Existing[i].length - 1 <= Last
  BY Fat12Assumption
<1> QED
  BY <1>1, <1>2, <1>3

\* A cluster has at most one owner.
LEMMA OneOwner ==
    ASSUME NEW c \in Nat, NEW i \in Owner(c), NEW j \in Owner(c)
    PROVE  i = j
<1>1. /\ i \in 1..Len(Existing) /\ c - Existing[i].first + 1 \in 1..Existing[i].length
      /\ j \in 1..Len(Existing) /\ c - Existing[j].first + 1 \in 1..Existing[j].length
  BY DEF Owner, Place
<1>2. PICK a \in Nat, b \in Nat, x \in Nat, y \in Nat :
          a = Existing[i].first /\ b = Existing[i].length
          /\ x = Existing[j].first /\ y = Existing[j].length
  BY <1>1, ExistingFacts
<1>3. i # j => a + b <= x \/ x + y <= a
  <2>1. \A m \in 1..Len(Existing) : \A n \in 1..Len(Existing) \ {m} :
            \/ Existing[m].first + Existing[m].length <= Existing[n].first
            \/ Existing[n].first + Existing[n].length <= Existing[m].first
    BY Fat12Assumption
  <2> QED
    BY <1>1, <1>2, <2>1
<1>4. c - a + 1 \in 1..b /\ c - x + 1 \in 1..y
  BY <1>1, <1>2
<1>5. ~(a + b <= x \/ x + y <= a)
  BY <1>4
<1> QED
  BY <1>3, <1>5

\* The k-th cluster of an existing file.
LEMMA ImageOwned ==
    ASSUME NEW i \in 1..Len(Existing), NEW k \in 1..Existing[i].length, NEW c,
           c = Existing[i].first + k - 1
    PROVE  /\ c \in Nat /\ c >= 2 /\ c <= Last /\ Owner(c) # {}
           /\ (CHOOSE j \in Owner(c) : TRUE) = i /\ Place(Existing[i], c) = k
           /\ ImageEntry(c) = IF k = Existing[i].length THEN EOC ELSE c + 1
<1>1. PICK a \in Nat, b \in Nat : /\ a = Existing[i].first /\ b = Existing[i].length
                                  /\ a >= 2 /\ b >= 1 /\ a + b - 1 <= Last
  BY ExistingFacts
<1>2. Last \in Nat
  BY Fat12Assumption
<1>3. c \in Nat /\ c >= 2 /\ c <= Last /\ c - a + 1 = k
  <2>1. k \in Int /\ k >= 1 /\ k <= b /\ a >= 2 /\ a + b - 1 <= Last
    BY <1>1
  <2>2. a + k - 1 \in Nat /\ a + k - 1 >= 2 /\ a + k - 1 <= Last /\ (a + k - 1) - a + 1 = k
    BY <1>2, <2>1
  <2>3. c = a + k - 1
    BY <1>1
  <2> QED
    BY <2>2, <2>3
<1>4. Place(Existing[i], c) = k
  BY <1>1, <1>3 DEF Place
<1>5. i \in Owner(c)
  BY <1>4 DEF Owner
<1>6. (CHOOSE j \in Owner(c) : TRUE) \in Owner(c)
  BY <1>5
<1>7. (CHOOSE j \in Owner(c) : TRUE) = i
  BY <1>3, <1>5, <1>6, OneOwner
<1>8. c # 0 /\ c # 1 /\ Owner(c) # {}
  BY <1>3, <1>5
<1>9. ImageEntry(c) = IF k = Existing[i].length THEN EOC ELSE c + 1
  <2> DEFINE own == CHOOSE j \in Owner(c) : TRUE
  <2>1. ImageEntry(c) = IF Place(Existing[own], c) = Existing[own].length THEN EOC ELSE c + 1
    BY <1>8 DEF ImageEntry
  <2> QED
    BY <1>4, <1>7, <2>1
<1> QED
  BY <1>3, <1>4, <1>7, <1>8, <1>9

\* A cluster above 1 is free or belongs to a file.
LEMMA ImageCases ==
    ASSUME NEW c \in Nat
    PROVE  \/ c = 0 /\ ImageEntry(c) = 4080
           \/ c = 1 /\ ImageEntry(c) = EOC
           \/ c >= 2 /\ Owner(c) = {} /\ ImageEntry(c) = FREE
           \/ \E i \in 1..Len(Existing) :
                 \E k \in 1..Existing[i].length : c = Existing[i].first + k - 1
<1>1. CASE c = 0
  BY <1>1 DEF ImageEntry
<1>2. CASE c = 1
  BY <1>2 DEF ImageEntry
<1>3. CASE c # 0 /\ c # 1 /\ Owner(c) = {}
  BY <1>3 DEF ImageEntry
<1>4. CASE Owner(c) # {}
  <2>1. PICK i \in Owner(c) : TRUE
    BY <1>4
  <2>2. i \in 1..Len(Existing) /\ Place(Existing[i], c) \in 1..Existing[i].length
    BY <2>1 DEF Owner
  <2>3. PICK a \in Nat : a = Existing[i].first
    BY <2>2, ExistingFacts
  <2>4. c = Existing[i].first + Place(Existing[i], c) - 1
    BY <2>3 DEF Place
  <2> QED
    BY <2>2, <2>4
<1> QED
  BY <1>1, <1>2, <1>3, <1>4

\* Every entry is a twelve-bit value.
LEMMA ImageEntries ==
    ASSUME NEW c \in Nat
    PROVE  ImageEntry(c) \in Entries
<1>1. CASE \E i \in 1..Len(Existing) :
              \E k \in 1..Existing[i].length : c = Existing[i].first + k - 1
  <2>1. PICK i \in 1..Len(Existing) :
            \E k \in 1..Existing[i].length : c = Existing[i].first + k - 1
    BY <1>1
  <2>2. c \in Nat /\ c <= Last /\ (ImageEntry(c) = EOC \/ ImageEntry(c) = c + 1)
    BY <2>1, ImageOwned
  <2>3. Last < 4080 /\ Last \in Nat
    BY FatTableAssumption, Fat12Assumption
  <2>4. c + 1 \in Entries
    BY <2>2, <2>3, SMT DEF Entries
  <2> QED
    BY <2>2, <2>4, Values
<1>2. 4080 \in Entries /\ EOC \in Entries /\ FREE \in Entries
  BY Values
<1> QED
  BY <1>1, <1>2, ImageCases

\* The parts of a twelve-bit value.
LEMMA EntryHalves ==
    ASSUME NEW e \in Entries
    PROVE  /\ e % 256 \in Bytes /\ e \div 256 \in 0..15
           /\ e % 16 \in 0..15 /\ e \div 16 \in Bytes
<1>1. e \in Int /\ 0 <= e /\ e <= 4095
  BY SMT DEF Entries
<1>2. e % 256 \in Bytes
  BY <1>1, SMT DEF Bytes
<1>3. e \div 256 \in Int /\ 0 <= e \div 256 /\ e \div 256 <= 15
  BY <1>1, SMT
<1>4. e % 16 \in 0..15
  BY <1>1, SMT
<1>5. e \div 16 \in Int /\ 0 <= e \div 16 /\ e \div 16 <= 255
  BY <1>1, SMT
<1> QED
  BY <1>2, <1>3, <1>4, <1>5, SMT DEF Bytes

\* The bytes of the image are the entries, packed.
LEMMA ImagePacked ==
    /\ ImageTable \in Tables
    /\ \A c \in TableEntries : Get(ImageTable, c) = ImageEntry(c)
<1> DEFINE even(i) == ImageEntry(2 * (i \div 3))
           odd(i) == ImageEntry(2 * (i \div 3) + 1)
           first(e) == e % 256
           middle(e, o) == e \div 256 + 16 * (o % 16)
           last(o) == o \div 16
<1>1. ASSUME NEW i \in Offsets PROVE i \in Nat /\ even(i) \in Entries /\ odd(i) \in Entries
  <2>1. i \in Nat
    BY DEF Offsets
  <2>2. 2 * (i \div 3) \in Nat /\ 2 * (i \div 3) + 1 \in Nat
    BY <2>1
  <2> QED
    BY <2>1, <2>2, ImageEntries
<1>2. ASSUME NEW e \in Entries, NEW o \in Entries
      PROVE  first(e) \in Bytes /\ middle(e, o) \in Bytes /\ last(o) \in Bytes
  <2>1. e % 256 \in Bytes /\ o \div 16 \in Bytes
    BY EntryHalves
  <2>2. e \div 256 \in 0..15 /\ o % 16 \in 0..15
    BY EntryHalves
  <2>3. ASSUME NEW m \in 0..15, NEW n \in 0..15 PROVE m + 16 * n \in Bytes
    BY SMT DEF Bytes
  <2> QED
    BY <2>1, <2>2, <2>3
<1>3. ASSUME NEW e \in Entries, NEW o \in Entries
      PROVE  /\ first(e) + 256 * LowNibble(middle(e, o)) = e
             /\ HighNibble(middle(e, o)) + 16 * last(o) = o
  <2>1. LowNibble(middle(e, o)) = e \div 256
    BY SMT DEF Entries, LowNibble
  <2>2. HighNibble(middle(e, o)) = o % 16
    BY SMT DEF Entries, HighNibble
  <2>3. (e % 256) + 256 * (e \div 256) = e /\ (o % 16) + 16 * (o \div 16) = o
    BY SMT DEF Entries
  <2> QED
    BY <2>1, <2>2, <2>3
<1>4. ImageTable = [i \in Offsets |-> <<first(even(i)), middle(even(i), odd(i)),
                                        last(odd(i))>>[(i % 3) + 1]]
  BY DEF ImageTable
<1> HIDE DEF first, middle, last
<1>5. ASSUME NEW i \in Offsets
      PROVE  /\ i % 3 = 0 => ImageTable[i] = first(even(i))
             /\ i % 3 = 1 => ImageTable[i] = middle(even(i), odd(i))
             /\ i % 3 = 2 => ImageTable[i] = last(odd(i))
  BY <1>4
<1> HIDE DEF even, odd
<1>6. ASSUME NEW i \in Offsets PROVE ImageTable[i] \in Bytes
  <2>1. i % 3 = 0 \/ i % 3 = 1 \/ i % 3 = 2
    BY <1>1
  <2> QED
    BY <1>1, <1>2, <1>5, <2>1
<1>7. ImageTable \in Tables
  <2>1. ImageTable = [i \in Offsets |-> ImageTable[i]]
    BY <1>4
  <2> QED
    BY <1>6, <2>1 DEF Tables
<1>8. ASSUME NEW c \in TableEntries PROVE Get(ImageTable, c) = ImageEntry(c)
  <2> DEFINE o == fat_offset(c)
  <2>1. o \in Offsets /\ o + 1 \in Offsets
    BY AccessInside
  <2>2. ImageTable[o] \in Bytes /\ ImageTable[o + 1] \in Bytes
    BY <1>6, <2>1
  <2>3. PICK k \in Nat : \/ c = 2 * k /\ c % 2 = 0 /\ o = 3 * k
                         \/ c = 2 * k + 1 /\ c % 2 = 1 /\ o = 3 * k + 1
    BY Layout, Parity
  <2> HIDE DEF o
  <2>4. CASE c = 2 * k /\ c % 2 = 0 /\ o = 3 * k
    <3>1. o % 3 = 0 /\ (o + 1) % 3 = 1 /\ 2 * (o \div 3) = c /\ 2 * ((o + 1) \div 3) = c
          /\ 2 * ((o + 1) \div 3) + 1 = c + 1
      BY <2>4
    <3>2. even(o) = ImageEntry(c) /\ even(o + 1) = ImageEntry(c)
      BY <3>1 DEF even
    <3>3. ImageTable[o] = first(ImageEntry(c))
          /\ ImageTable[o + 1] = middle(ImageEntry(c), odd(o + 1))
      BY <1>5, <2>1, <3>1, <3>2
    <3>4. Get(ImageTable, c) = EvenOf(Join(ImageTable[o], ImageTable[o + 1]))
      BY <2>4, GetBytes DEF Get, o
    <3>5. Get(ImageTable, c) = ImageTable[o] + 256 * LowNibble(ImageTable[o + 1])
      BY <2>2, <3>4, EvenNibble
    <3>6. ImageEntry(c) \in Entries /\ odd(o + 1) \in Entries
      BY <1>1, <2>1, <3>2
    <3> QED
      BY <1>3, <3>3, <3>5, <3>6
  <2>5. CASE c = 2 * k + 1 /\ c % 2 = 1 /\ o = 3 * k + 1
    <3>1. o % 3 = 1 /\ (o + 1) % 3 = 2 /\ 2 * (o \div 3) + 1 = c /\ 2 * ((o + 1) \div 3) + 1 = c
      BY <2>5
    <3>2. odd(o) = ImageEntry(c) /\ odd(o + 1) = ImageEntry(c)
      BY <3>1 DEF odd
    <3>3. ImageTable[o] = middle(even(o), ImageEntry(c))
          /\ ImageTable[o + 1] = last(ImageEntry(c))
      BY <1>5, <2>1, <3>1, <3>2
    <3>4. Get(ImageTable, c) = OddOf(Join(ImageTable[o], ImageTable[o + 1]))
      BY <2>5, GetBytes DEF Get, o
    <3>5. Get(ImageTable, c) = HighNibble(ImageTable[o]) + 16 * ImageTable[o + 1]
      BY <2>2, <3>4, OddNibble
    <3>6. ImageEntry(c) \in Entries /\ even(o) \in Entries
      BY <1>1, <2>1, <3>2
    <3> QED
      BY <1>3, <3>3, <3>5, <3>6
  <2> QED
    BY <2>3, <2>4, <2>5
<1> QED
  BY <1>7, <1>8

\* A link of the image leads to the next cluster, which is not free.
LEMMA ImageLink ==
    ASSUME NEW c \in TableEntries, ImageEntry(c) \in TableEntries \ {FREE}
    PROVE  ImageEntry(c) = c + 1 /\ ImageEntry(c + 1) # FREE
<1>1. c \in Nat /\ EOC \notin TableEntries /\ 4080 \notin TableEntries /\ EOC # FREE /\ FREE = 0
  BY Values
<1>2. PICK i \in 1..Len(Existing) :
          \E k \in 1..Existing[i].length : c = Existing[i].first + k - 1
  <2>1. ImageEntry(c) # 4080 /\ ImageEntry(c) # EOC /\ ImageEntry(c) # FREE
    BY <1>1
  <2>2. \/ ImageEntry(c) = 4080 \/ ImageEntry(c) = EOC \/ ImageEntry(c) = FREE
        \/ \E j \in 1..Len(Existing) :
              \E k \in 1..Existing[j].length : c = Existing[j].first + k - 1
    BY <1>1, ImageCases
  <2> QED
    BY <2>1, <2>2
<1>3. PICK k \in 1..Existing[i].length : c = Existing[i].first + k - 1
  BY <1>2
<1>4. ImageEntry(c) = IF k = Existing[i].length THEN EOC ELSE c + 1
  BY <1>3, ImageOwned
<1>5. k # Existing[i].length /\ ImageEntry(c) = c + 1
  BY <1>1, <1>4
<1>6. PICK a \in Nat, b \in Nat : a = Existing[i].first /\ b = Existing[i].length
  BY ExistingFacts
<1>7. k + 1 \in 1..Existing[i].length /\ c + 1 = Existing[i].first + (k + 1) - 1
  BY <1>3, <1>5, <1>6
<1>8. ImageEntry(c + 1) = EOC \/ ImageEntry(c + 1) = (c + 1) + 1
  BY <1>7, ImageOwned
<1> QED
  BY <1>1, <1>5, <1>8

\* Each existing file has its chain.
LEMMA ImageChain ==
    ASSUME NEW i \in 1..Len(Existing)
    PROVE  \E g : /\ ChainOf(ImageTable, g, Existing[i].first, Existing[i].length)
                  /\ \A k \in 1..Existing[i].length : g[k] = Existing[i].first + k - 1
<1>1. PICK a \in Nat, b \in Nat : a = Existing[i].first /\ b = Existing[i].length /\ b >= 1
  BY ExistingFacts
<1>2. PICK g : g = [k \in 1..b |-> a + k - 1]
  OBVIOUS
<1>3. \A k \in 1..b : g[k] = a + k - 1
  BY <1>2
<1>4. ASSUME NEW k \in 1..b
      PROVE  /\ g[k] \in TableEntries \ {FREE}
             /\ Get(ImageTable, g[k]) = IF k = b THEN EOC ELSE g[k + 1]
  <2>1. g[k] = Existing[i].first + k - 1 /\ k \in 1..Existing[i].length
    BY <1>1, <1>3
  <2>2. /\ g[k] \in Nat /\ g[k] >= 2 /\ g[k] <= Last
        /\ ImageEntry(g[k]) = IF k = b THEN EOC ELSE g[k] + 1
    BY <1>1, <2>1, ImageOwned
  <2>3. g[k] \in TableEntries /\ g[k] # FREE
    <3>1. Last \in Nat /\ TableLast \in Nat /\ Last <= TableLast
      BY FatTableAssumption, Fat12Assumption
    <3>2. PICK e : e = g[k]
      OBVIOUS
    <3>3. e \in Nat /\ e >= 2 /\ e <= Last
      BY <2>2, <3>2
    <3>4. e \in TableEntries /\ e # FREE
      BY <3>1, <3>3 DEF TableEntries, FREE
    <3> QED
      BY <3>2, <3>4
  <2>4. Get(ImageTable, g[k]) = ImageEntry(g[k])
    BY <2>3, ImagePacked
  <2>5. k # b => g[k + 1] = g[k] + 1
    <3>1. k # b => k + 1 \in 1..b
      BY <1>1
    <3> QED
      BY <1>1, <1>3, <3>1
  <2> QED
    BY <2>2, <2>3, <2>4, <2>5
<1>5. g \in [1..b -> TableEntries \ {FREE}]
  <2>1. g = [k \in 1..b |-> g[k]]
    BY <1>2
  <2> QED
    BY <1>4, <2>1
<1>6. g[1] = a
  BY <1>1, <1>3
<1>7. ChainOf(ImageTable, g, a, b)
  BY <1>4, <1>5, <1>6 DEF ChainOf
<1> QED
  BY <1>1, <1>3, <1>7

-----------------------------------------------------------------------------
(* Entries of the directory. *)

\* The clusters of an entry are taken.
LEMMA OwnTaken ==
    ASSUME NEW t, NEW e, e.size \in Nat, Readable(t, e), NEW x \in Own(t, e)
    PROVE  x \in TableEntries /\ x # FREE /\ Get(t, x) # FREE
<1>1. PICK g, n, first : /\ g = Chain(t, e.first_cluster, e.size) /\ n = e.size
                         /\ first = e.first_cluster
  OBVIOUS
<1>2. PICK k \in 1..n : x = g[k]
  BY <1>1 DEF Own
<1>3. n > 0 /\ n \in Nat
  BY <1>1, <1>2
<1>4. ChainOf(t, g, first, n)
  BY <1>1, <1>3 DEF Readable
<1> QED
  BY <1>2, <1>3, <1>4, ChainNotFree

\* A table that agrees on the clusters of an entry has them in the same chain.
LEMMA OwnKept ==
    ASSUME NEW t, NEW u, NEW e, e.size \in Nat, Readable(t, e),
           \A x \in Own(t, e) : Get(u, x) = Get(t, x)
    PROVE  Readable(u, e) /\ Own(u, e) = Own(t, e)
<1>1. CASE e.size = 0
  BY <1>1 DEF Readable, Own
<1>2. CASE e.size # 0
  <2>2. PICK h, m, start : /\ h = Chain(t, e.first_cluster, e.size) /\ m = e.size
                           /\ start = e.first_cluster
    OBVIOUS
  <2>3. m \in Nat \ {0} /\ ChainOf(t, h, start, m)
    BY <1>2, <2>2 DEF Readable
  <2>4. \A k \in 1..m : Get(u, h[k]) = Get(t, h[k])
    BY <2>2 DEF Own
  <2>5. ChainOf(u, h, start, m)
    BY <2>3, <2>4, ChainKept
  <2>6. Chain(u, start, m) = h
    BY <2>3, <2>5, ChainUnique
  <2> QED
    BY <2>2, <2>5, <2>6 DEF Readable, Own
<1> QED
  BY <1>1, <1>2

\* The entries the loop sees have a size.
LEMMA SeenSized ==
    ASSUME FatTypes, NEW i \in Seen(dir)
    PROVE  i \in 1..Slots /\ dir[i] \in DirEntries /\ dir[i].size \in Nat
<1>1. i \in 1..Slots /\ dir[i] # Empty
  BY Fat12Assumption DEF Seen
<1>2. dir[i] \in DirEntries
  BY <1>1 DEF FatTypes
<1> QED
  BY <1>1, <1>2 DEF DirEntries

\* A step that leaves the directory and the clusters of its entries alone.
LEMMA EntriesAlone ==
    ASSUME FatTypes, dir' = dir, \A i \in Seen(dir) : Readable(FAT_TABLE_0, dir[i]),
           \A i \in Seen(dir), j \in Seen(dir) :
              i # j => Own(FAT_TABLE_0, dir[i]) \cap Own(FAT_TABLE_0, dir[j]) = {},
           \A i \in Seen(dir) : \A x \in Own(FAT_TABLE_0, dir[i]) :
              Get(FAT_TABLE_0', x) = Get(FAT_TABLE_0, x)
    PROVE  /\ \A i \in Seen(dir) : /\ Readable(FAT_TABLE_0', dir'[i])
                                   /\ Own(FAT_TABLE_0', dir'[i]) = Own(FAT_TABLE_0, dir[i])
           /\ \A i \in Seen(dir'), j \in Seen(dir') :
                 i # j => Own(FAT_TABLE_0', dir'[i]) \cap Own(FAT_TABLE_0', dir'[j]) = {}
<1>1. ASSUME NEW i \in Seen(dir)
      PROVE  /\ Readable(FAT_TABLE_0', dir'[i])
             /\ Own(FAT_TABLE_0', dir'[i]) = Own(FAT_TABLE_0, dir[i])
  <2>1. PICK t, u, e : t = FAT_TABLE_0 /\ u = FAT_TABLE_0' /\ e = dir[i]
    OBVIOUS
  <2>2. e.size \in Nat /\ Readable(t, e) /\ \A x \in Own(t, e) : Get(u, x) = Get(t, x)
    BY <2>1, SeenSized
  <2>3. Readable(u, e) /\ Own(u, e) = Own(t, e)
    BY <2>2, OwnKept
  <2> QED
    BY <2>1, <2>3
<1> QED
  BY <1>1

\* The entries stay readable and apart.
LEMMA EntriesStep ==
    ASSUME FatTypes, MediaKept, ChainOpen, ListedInv, ProgressInv, EntriesInv, [Next]_vars
    PROVE  EntriesInv'
<1> USE DEF Goto
<1>0. ASSUME crashes = 0, NEW i \in Seen(dir), NEW x \in Own(FAT_TABLE_0, dir[i])
      PROVE  x \in TableEntries /\ x # FREE /\ Get(FAT_TABLE_0, x) # FREE
  <2>1. PICK t, e : t = FAT_TABLE_0 /\ e = dir[i]
    OBVIOUS
  <2>2. e.size \in Nat /\ Readable(t, e) /\ x \in Own(t, e)
    BY <1>0, <2>1, SeenSized DEF EntriesInv
  <2> QED
    BY <2>1, <2>2, OwnTaken
<1>1. ASSUME NEW name \in Names, NEW length \in Lengths, write_file(name, length)
      PROVE  EntriesInv'
  <2>1. pc' = "chain" /\ Taken' = 1 /\ dir' = dir /\ crashes' = crashes
    BY <1>1 DEF write_file, Taken, disk
  <2>2. SUFFICES ASSUME crashes = 0
                 PROVE  EntriesInv'
    BY <2>1 DEF EntriesInv
  <2>3. PICK c \in TableEntries \ {FREE} :
            /\ c = cluster' /\ c = file'.first /\ Get(FAT_TABLE_0, c) = FREE
            /\ \A d \in TableEntries :
                  Get(FAT_TABLE_0', d) = IF d = c THEN EOC ELSE Get(FAT_TABLE_0, d)
    BY <1>1, WriteFileFacts
  <2>4. \A i \in Seen(dir) : \A x \in Own(FAT_TABLE_0, dir[i]) :
            x # c /\ Get(FAT_TABLE_0', x) = Get(FAT_TABLE_0, x)
    BY <1>0, <2>2, <2>3
  <2>5. /\ \A i \in Seen(dir) : /\ Readable(FAT_TABLE_0', dir'[i])
                                /\ Own(FAT_TABLE_0', dir'[i]) = Own(FAT_TABLE_0, dir[i])
        /\ \A i \in Seen(dir'), j \in Seen(dir') :
              i # j => Own(FAT_TABLE_0', dir'[i]) \cap Own(FAT_TABLE_0', dir'[j]) = {}
    BY <2>1, <2>2, <2>4, EntriesAlone DEF EntriesInv
  <2>6. PICK g : g = [k \in 1..1 |-> c]
    OBVIOUS
  <2>7. g \in [1..1 -> TableEntries \ {FREE}] /\ g[1] = c
    BY <2>6
  <2>8. ChainOf(FAT_TABLE_0', g, c, 1)
    BY <2>3, <2>7 DEF ChainOf
  <2>9. Chain(FAT_TABLE_0', c, 1) = g
    BY <2>8, ChainUnique
  <2>10. MyClusters' = {c}
    <3>1. MyClusters' = {g[k] : k \in 1..1}
      BY <2>1, <2>3, <2>9 DEF MyClusters
    <3> QED
      BY <2>7, <3>1
  <2>11. \A i \in Seen(dir') : Own(FAT_TABLE_0', dir'[i]) \cap MyClusters' = {}
    BY <2>1, <2>4, <2>5, <2>10
  <2>12. \E i \in Seen(dir') :
            cur_dir' = [dir' EXCEPT ![i] = Entry(file'.name, file'.first, file'.length)]
    BY <1>1, <2>1, WriteFileFacts
  <2> QED
    BY <2>1, <2>2, <2>5, <2>11, <2>12 DEF EntriesInv
<1>2. CASE ChainLink
  <2>1. /\ pc = "chain" /\ pc' = "chain" /\ dir' = dir /\ crashes' = crashes
        /\ file' = file /\ cur_dir' = cur_dir /\ WriteCluster
        /\ sectors_written \in Nat /\ cluster \in TableEntries
    BY <1>2 DEF ChainLink, FatTypes
  <2>2. SUFFICES ASSUME crashes = 0
                 PROVE  EntriesInv'
    BY <2>1 DEF EntriesInv
  <2>3. PICK w \in Nat \ {0} : w = Taken /\ w = sectors_written + 1 /\ Taken' = w + 1
    BY <2>1 DEF Taken, WriteCluster
  <2>4. PICK g : ChainOf(FAT_TABLE_0, g, file.first, w) /\ EndsAt(g, w, cluster)
    BY <2>1, <2>3 DEF ProgressInv, EndsAt
  <2>5. PICK n : n = cluster'
    OBVIOUS
  <2>6. LinkedTo(FAT_TABLE_0, FAT_TABLE_0', cluster, n)
    BY <1>2, <2>1, <2>5, ChainLinkFacts DEF LinkedTo
  <2>7. PICK h : /\ ChainOf(FAT_TABLE_0', h, file.first, w + 1)
                 /\ h[w + 1] = n /\ \A k \in 1..w : h[k] = g[k] /\ h[k] # n
    BY <2>4, <2>6, ChainLonger
  <2>8. Chain(FAT_TABLE_0, file.first, w) = g /\ Chain(FAT_TABLE_0', file.first, w + 1) = h
    BY <2>4, <2>7, ChainUnique
  <2>9. MyClusters = {g[k] : k \in 1..w} /\ MyClusters' = {h[k] : k \in 1..(w + 1)}
    BY <2>1, <2>3, <2>8 DEF MyClusters
  <2>10. MyClusters' = MyClusters \cup {n} /\ cluster \in MyClusters
    <3>1. \A k \in 1..(w + 1) : k \in 1..w \/ k = w + 1
      OBVIOUS
    <3>2. \A k \in 1..w : k \in 1..(w + 1)
      OBVIOUS
    <3>3. w \in 1..w /\ w + 1 \in 1..(w + 1)
      OBVIOUS
    <3>4. cluster \in MyClusters
      BY <2>4, <2>9, <3>3 DEF EndsAt
    <3>5. \A x : x \in MyClusters' => x \in MyClusters \/ x = n
      BY <2>7, <2>9, <3>1
    <3>6. \A x : x \in MyClusters => x \in MyClusters'
      BY <2>7, <2>9, <3>2
    <3>7. n \in MyClusters'
      BY <2>7, <2>9, <3>3
    <3> QED
      BY <3>4, <3>5, <3>6, <3>7
  <2>11. \A i \in Seen(dir) : Own(FAT_TABLE_0, dir[i]) \cap MyClusters = {}
    BY <2>1, <2>2 DEF EntriesInv
  <2>12. \A i \in Seen(dir) : \A x \in Own(FAT_TABLE_0, dir[i]) :
            x # n /\ x # cluster /\ Get(FAT_TABLE_0', x) = Get(FAT_TABLE_0, x)
    <3>1. SUFFICES ASSUME NEW i \in Seen(dir), NEW x \in Own(FAT_TABLE_0, dir[i])
                   PROVE  x # n /\ x # cluster /\ Get(FAT_TABLE_0', x) = Get(FAT_TABLE_0, x)
      OBVIOUS
    <3>2. x \in TableEntries /\ Get(FAT_TABLE_0, x) # FREE
      BY <1>0, <2>2
    <3>3. x # cluster
      BY <2>10, <2>11
    <3> QED
      BY <2>6, <3>2, <3>3 DEF LinkedTo
  <2>13. /\ \A i \in Seen(dir) : /\ Readable(FAT_TABLE_0', dir'[i])
                                 /\ Own(FAT_TABLE_0', dir'[i]) = Own(FAT_TABLE_0, dir[i])
         /\ \A i \in Seen(dir'), j \in Seen(dir') :
               i # j => Own(FAT_TABLE_0', dir'[i]) \cap Own(FAT_TABLE_0', dir'[j]) = {}
    BY <2>1, <2>2, <2>12, EntriesAlone DEF EntriesInv
  <2>14. \A i \in Seen(dir') : Own(FAT_TABLE_0', dir'[i]) \cap MyClusters' = {}
    BY <2>1, <2>10, <2>11, <2>12, <2>13
  <2> QED
    BY <2>1, <2>2, <2>13, <2>14 DEF EntriesInv
<1>3. CASE ChainEnd
  <2>1. /\ pc = "chain" /\ pc' = "dir" /\ dir' = dir /\ crashes' = crashes
        /\ file' = file /\ cur_dir' = cur_dir
        /\ sectors_written + 1 = file.length /\ sectors_written \in Nat
    BY <1>3 DEF ChainEnd, FatTypes
  <2>2. SUFFICES ASSUME crashes = 0
                 PROVE  EntriesInv'
    BY <2>1 DEF EntriesInv
  <2>3. PICK w \in Nat \ {0} : w = Taken /\ Taken' = w
    BY <2>1 DEF Taken
  <2>4. PICK g : ChainOf(FAT_TABLE_0, g, file.first, w)
    BY <2>1, <2>3 DEF ProgressInv
  <2>5. ChainOf(FAT_TABLE_0', g, file.first, w)
    <3>1. \A k \in 1..w : Get(FAT_TABLE_0', g[k]) = Get(FAT_TABLE_0, g[k])
      BY <1>3, <2>4, ChainEndFacts, ChainNotFree
    <3> QED
      BY <2>4, <3>1, ChainKept
  <2>6. Chain(FAT_TABLE_0, file.first, w) = g /\ Chain(FAT_TABLE_0', file.first, w) = g
    BY <2>4, <2>5, ChainUnique
  <2>7. MyClusters' = MyClusters
    BY <2>1, <2>3, <2>6 DEF MyClusters
  <2>8. \A i \in Seen(dir) : \A x \in Own(FAT_TABLE_0, dir[i]) :
            Get(FAT_TABLE_0', x) = Get(FAT_TABLE_0, x)
    BY <1>0, <1>3, <2>2, ChainEndFacts
  <2>9. /\ \A i \in Seen(dir) : /\ Readable(FAT_TABLE_0', dir'[i])
                                /\ Own(FAT_TABLE_0', dir'[i]) = Own(FAT_TABLE_0, dir[i])
        /\ \A i \in Seen(dir'), j \in Seen(dir') :
              i # j => Own(FAT_TABLE_0', dir'[i]) \cap Own(FAT_TABLE_0', dir'[j]) = {}
    BY <2>1, <2>2, <2>8, EntriesAlone DEF EntriesInv
  <2> QED
    BY <2>1, <2>2, <2>7, <2>9 DEF EntriesInv
<1>4. CASE WriteDir
  <2>1. /\ pc = "dir" /\ pc' = "fat0" /\ dir' = cur_dir /\ crashes' = crashes
        /\ FAT_TABLE_0' = FAT_TABLE_0
    BY <1>4 DEF WriteDir, history
  <2>2. SUFFICES ASSUME crashes = 0
                 PROVE  EntriesInv'
    BY <2>1 DEF EntriesInv
  <2>3. PICK m \in Seen(dir) :
            cur_dir = [dir EXCEPT ![m] = Entry(file.name, file.first, file.length)]
    BY <2>1, <2>2 DEF EntriesInv
  <2>4. file \in Files /\ file.length \in Nat \ {0} /\ Taken = file.length
    BY <2>1 DEF FatTypes, Files, Taken
  <2>5. PICK e : /\ e = Entry(file.name, file.first, file.length) /\ e # Empty
                 /\ e.first_cluster = file.first /\ e.size = file.length
    <3>1. Entry(file.name, file.first, file.length) # Empty
      BY <2>4, EntryFacts
    <3>2. /\ Entry(file.name, file.first, file.length).first_cluster = file.first
          /\ Entry(file.name, file.first, file.length).size = file.length
      BY DEF Entry
    <3> QED
      BY <3>1, <3>2
  <2>6. PICK g : ChainOf(FAT_TABLE_0, g, file.first, file.length)
    BY <2>1, <2>4 DEF ProgressInv
  <2>7. Chain(FAT_TABLE_0, file.first, file.length) = g
    BY <2>4, <2>6, ChainUnique
  <2>8. Readable(FAT_TABLE_0, e) /\ Own(FAT_TABLE_0, e) = MyClusters
    BY <2>4, <2>5, <2>6, <2>7 DEF Readable, Own, MyClusters
  <2>9. DOMAIN dir = 1..Slots /\ Seen(dir) \subseteq 1..Slots
    BY DEF FatTypes, Seen
  <2>10. Seen(dir') = Seen(dir)
    BY <2>1, <2>3, <2>5, <2>9, SeenKept
  <2>11. \A i \in Seen(dir) : dir'[i] = IF i = m THEN e ELSE dir[i]
    BY <2>1, <2>3, <2>5, <2>9
  <2>12. /\ \A i \in Seen(dir) : Readable(FAT_TABLE_0, dir[i])
         /\ \A i \in Seen(dir), j \in Seen(dir) :
               i # j => Own(FAT_TABLE_0, dir[i]) \cap Own(FAT_TABLE_0, dir[j]) = {}
         /\ \A i \in Seen(dir) : Own(FAT_TABLE_0, dir[i]) \cap MyClusters = {}
    BY <2>1, <2>2 DEF EntriesInv
  <2>13. \A i \in Seen(dir') : Readable(FAT_TABLE_0', dir'[i])
    BY <2>1, <2>8, <2>10, <2>11, <2>12
  <2>14. ASSUME NEW i \in Seen(dir'), NEW j \in Seen(dir'), i # j
         PROVE  Own(FAT_TABLE_0', dir'[i]) \cap Own(FAT_TABLE_0', dir'[j]) = {}
    <3>1. CASE i = m
      BY <2>1, <2>8, <2>10, <2>11, <2>12, <2>14, <3>1
    <3>2. CASE j = m
      BY <2>1, <2>8, <2>10, <2>11, <2>12, <2>14, <3>2
    <3>3. CASE i # m /\ j # m
      BY <2>1, <2>10, <2>11, <2>12, <2>14, <3>3
    <3> QED
      BY <3>1, <3>2, <3>3
  <2> QED
    BY <2>1, <2>2, <2>13, <2>14 DEF EntriesInv
<1>5. CASE WriteFat0 \/ WriteFat1
  <2>1. /\ pc' \notin {"chain", "dir"} /\ dir' = dir /\ crashes' = crashes
        /\ FAT_TABLE_0' = FAT_TABLE_0
    BY <1>5 DEF WriteFat0, WriteFat1, history
  <2> QED
    BY <2>1 DEF EntriesInv
<1>6. CASE Crash
  <2>1. crashes' = crashes + 1
    BY <1>6 DEF Crash
  <2> QED
    BY <2>1 DEF EntriesInv
<1>7. CASE UNCHANGED vars
  <2>1. /\ pc' = pc /\ dir' = dir /\ crashes' = crashes /\ FAT_TABLE_0' = FAT_TABLE_0
        /\ cur_dir' = cur_dir /\ file' = file /\ sectors_written' = sectors_written
    BY <1>7 DEF vars, disk, local, history
  <2>2. MyClusters' = MyClusters
    BY <2>1 DEF MyClusters, Taken
  <2> QED
    BY <2>1, <2>2 DEF EntriesInv
<1> QED
  BY <1>1, <1>2, <1>3, <1>4, <1>5, <1>6, <1>7, Steps

-----------------------------------------------------------------------------
\* The initial state: the disk image.
LEMMA DiskInit ==
    ASSUME Init
    PROVE  DiskInv
<1>1. /\ FAT_TABLE_0 = ImageTable /\ fat0 = ImageTable /\ fat1 = ImageTable
      /\ ImageTable \in Tables
      /\ \A c \in TableEntries : Get(ImageTable, c) = ImageEntry(c)
  BY ImagePacked DEF Init
<1>2. /\ pc = "idle" /\ cur_dir = dir /\ cluster = 0 /\ sectors_written = 0 /\ sector = 0
      /\ calls = 0 /\ crashes = 0 /\ recent = Empty /\ overrun = FALSE /\ torn = FALSE
  BY DEF Init
<1>3. stored = {Existing[i] : i \in 1..Len(Existing)}
  BY DEF Init
<1>4. /\ 0 \in TableEntries /\ FREE = 0 /\ FREE # EOC /\ EOC \notin TableEntries
      /\ TableEntries \subseteq Nat
  BY Values
<1>5. Slots \in Nat /\ Slots > 2 /\ Len(Existing) \in Nat /\ Len(Existing) + 2 <= Slots
  <2>1. Existing \in Seq(Files)
    BY Fat12Assumption DEF Files
  <2> QED
    BY <2>1, Fat12Assumption
<1>6. /\ dir = [i \in 1..Slots |-> dir[i]]
      /\ dir[1] = Entry(Dot, 0, 0) /\ dir[2] = Entry(DotDot, 0, 0)
      /\ \A i \in 1..Slots : i > 2 /\ i - 2 > Len(Existing) => dir[i] = Empty
      /\ \A i \in 1..Slots : i > 2 /\ ~(i - 2 > Len(Existing)) =>
            dir[i] = Entry(Existing[i - 2].name, Existing[i - 2].first, Existing[i - 2].length)
  <2> DEFINE E(i) == IF i = 1 THEN Entry(Dot, 0, 0)
                     ELSE IF i = 2 THEN Entry(DotDot, 0, 0)
                     ELSE IF i - 2 > Len(Existing) THEN Empty
                     ELSE Entry(Existing[i - 2].name, Existing[i - 2].first,
                                Existing[i - 2].length)
  <2>1. dir = [i \in 1..Slots |-> E(i)]
    BY DEF Init
  <2>2. \A i \in 1..Slots : dir[i] = E(i)
    BY <2>1
  <2>3. 1 \in 1..Slots /\ 2 \in 1..Slots /\ \A i \in 1..Slots : i > 2 => i # 1 /\ i # 2
    BY <1>5
  <2>4. dir = [i \in 1..Slots |-> dir[i]]
    BY <2>1
  <2>5. dir[1] = Entry(Dot, 0, 0) /\ dir[2] = Entry(DotDot, 0, 0)
    BY <2>2, <2>3
  <2> QED
    BY <2>2, <2>3, <2>4, <2>5
<1>7. ASSUME NEW i \in 1..Slots
      PROVE  \/ dir[i] = Empty
             \/ dir[i] \in DirEntries /\ dir[i].size = 0
             \/ /\ dir[i] \in DirEntries /\ i - 2 \in 1..Len(Existing)
                /\ dir[i].first_cluster = Existing[i - 2].first
                /\ dir[i].size = Existing[i - 2].length
  <2>1. i = 1 \/ i = 2 \/ i > 2
    BY <1>5
  <2>2. CASE i = 1
    BY <1>6, <2>2 DEF Entry, DirEntries
  <2>3. CASE i = 2
    BY <1>6, <2>3 DEF Entry, DirEntries
  <2>4. CASE i > 2 /\ i - 2 > Len(Existing)
    BY <1>6, <2>4
  <2>5. CASE i > 2 /\ ~(i - 2 > Len(Existing))
    <3>1. i - 2 \in 1..Len(Existing)
      BY <1>5, <2>5
    <3>2. PICK f \in Files : f = Existing[i - 2]
      BY <3>1, ExistingFacts
    <3>3. dir[i] = Entry(f.name, f.first, f.length)
      BY <1>6, <2>5, <3>2
    <3>4. Entry(f.name, f.first, f.length) \in DirEntries
      BY EntryFacts
    <3>5. /\ Entry(f.name, f.first, f.length).first_cluster = f.first
          /\ Entry(f.name, f.first, f.length).size = f.length
      BY DEF Entry
    <3> QED
      BY <3>1, <3>2, <3>3, <3>4, <3>5
  <2> QED
    BY <2>1, <2>2, <2>3, <2>4, <2>5
<1>8. dir \in [1..Slots -> DirEntries \cup {Empty}]
  <2>1. \A i \in 1..Slots : dir[i] \in DirEntries \cup {Empty}
    BY <1>7
  <2> QED
    BY <1>6, <2>1
<1>9. \A c \in Clusters : c \in Nat
  BY Fat12Assumption DEF Clusters
<1>10. /\ data = [c \in Clusters |-> data[c]]
       /\ \A c \in Clusters : Owner(c) = {} => data[c] = Empty
       /\ \A c \in Clusters : Owner(c) # {} =>
             data[c] = <<Existing[CHOOSE i \in Owner(c) : TRUE].number,
                         Place(Existing[CHOOSE i \in Owner(c) : TRUE], c)>>
  <2> DEFINE own(c) == Existing[CHOOSE i \in Owner(c) : TRUE]
  <2>1. data = [c \in Clusters |->
                  IF Owner(c) = {} THEN Empty ELSE <<own(c).number, Place(own(c), c)>>]
    BY DEF Init
  <2> HIDE DEF own
  <2>2. /\ data = [c \in Clusters |-> data[c]]
        /\ \A c \in Clusters : Owner(c) = {} => data[c] = Empty
        /\ \A c \in Clusters : Owner(c) # {} => data[c] = <<own(c).number, Place(own(c), c)>>
    BY <2>1
  <2> QED
    BY <2>2 DEF own
<1>11. ASSUME NEW i \in 1..Len(Existing), NEW k \in 1..Existing[i].length, NEW c,
              c = Existing[i].first + k - 1
       PROVE  c \in Clusters /\ data[c] = <<Existing[i].number, k>>
  <2>1. /\ c \in Nat /\ c >= 2 /\ c <= Last /\ Owner(c) # {}
        /\ (CHOOSE j \in Owner(c) : TRUE) = i /\ Place(Existing[i], c) = k
    <3>1. c \in Nat /\ c >= 2 /\ c <= Last /\ Place(Existing[i], c) = k
      BY <1>11, ImageOwned, SMT
    <3>2. Owner(c) # {}
      BY <1>11, ImageOwned
    <3>3. (CHOOSE j \in Owner(c) : TRUE) = i
      <4>1. i \in Owner(c)
        BY <3>1 DEF Owner
      <4>2. (CHOOSE j \in Owner(c) : TRUE) \in Owner(c)
        BY <4>1
      <4> QED
        BY <3>1, <4>1, <4>2, OneOwner
    <3> QED
      BY <3>1, <3>2, <3>3
  <2>2. c \in Clusters
    BY <2>1, Fat12Assumption DEF Clusters
  <2> QED
    BY <1>10, <2>1, <2>2
<1>12. data \in [Clusters -> Contents]
  <2>1. ASSUME NEW c \in Clusters PROVE data[c] \in Contents
    <3>1. c \in Nat /\ c # 0 /\ c # 1
      BY <1>9, Fat12Assumption DEF Clusters
    <3>2. CASE Owner(c) = {}
      BY <1>10, <3>2 DEF Contents
    <3>3. CASE Owner(c) # {}
      <4>1. PICK i \in Owner(c) : TRUE
        BY <3>3
      <4>2. i \in 1..Len(Existing) /\ Place(Existing[i], c) \in 1..Existing[i].length
        BY <4>1 DEF Owner
      <4>3. PICK a \in Nat, b \in Nat : a = Existing[i].first /\ b = Existing[i].length
        BY <4>2, ExistingFacts
      <4>4. c = Existing[i].first + Place(Existing[i], c) - 1
        BY <3>1, <4>3 DEF Place
      <4>5. data[c] = <<Existing[i].number, Place(Existing[i], c)>>
        BY <1>11, <4>2, <4>4
      <4>6. Existing[i].number \in Int /\ Place(Existing[i], c) \in Int
        BY <4>2, ExistingFacts DEF Files
      <4> QED
        BY <4>5, <4>6 DEF Contents
    <3> QED
      BY <3>2, <3>3
  <2> QED
    BY <1>10, <2>1
<1>13. stored \subseteq Files
  BY <1>3, ExistingFacts
<1>14. FatTypes
  <2>1. LastSector \in Nat
    BY SectorOf, FatTableAssumption DEF Offsets
  <2> QED
    <3>1. overrun \in BOOLEAN /\ torn \in BOOLEAN
      BY <1>2, Zenon
    <3>2. sector \in Nat /\ sector <= LastSector /\ sectors_written \in Nat /\ calls \in Nat
      BY <1>2, <2>1
    <3>3. FAT_TABLE_0 \in Tables /\ fat0 \in Tables /\ fat1 \in Tables
      BY <1>1
    <3> QED
      BY <1>2, <1>4, <1>8, <1>12, <1>13, <3>1, <3>2, <3>3 DEF FatTypes
<1>15. MediaKept
  <2>1. ImageEntry(0) # FREE
    BY <1>4 DEF ImageEntry
  <2> QED
    BY <1>1, <1>4, <2>1 DEF MediaKept
<1>16. Chains(ImageTable)
  <2>1. SUFFICES ASSUME NEW c \in TableEntries, ImageEntry(c) \in TableEntries \ {FREE}
                 PROVE  /\ Get(ImageTable, ImageEntry(c)) # FREE
                        /\ \A d \in TableEntries : ImageEntry(d) = ImageEntry(c) => d = c
    BY <1>1 DEF Chains
  <2>2. ImageEntry(c) = c + 1 /\ ImageEntry(c + 1) # FREE
    BY <2>1, ImageLink
  <2>3. ASSUME NEW d \in TableEntries, ImageEntry(d) = ImageEntry(c) PROVE d = c
    <3>1. ImageEntry(d) = d + 1
      BY <2>1, <2>3, ImageLink
    <3>2. c \in Nat /\ d \in Nat
      BY <1>4
    <3> QED
      BY <2>2, <2>3, <3>1, <3>2
  <2> QED
    BY <1>1, <2>1, <2>2, <2>3
<1>17. ChainsInv
  BY <1>1, <1>16 DEF ChainsInv
<1>18. ListedInv
  <2>1. Entry(Dot, 0, 0) # Empty
    BY Fat12Assumption DEF Entry
  <2> QED
    BY <1>2, <1>6, <2>1 DEF ListedInv
<1>19. StoredInv
  <2>1. SUFFICES ASSUME NEW i \in 1..Len(Existing) PROVE Kept(Existing[i])
    BY <1>3 DEF StoredInv
  <2>2. PICK g : /\ ChainOf(ImageTable, g, Existing[i].first, Existing[i].length)
                 /\ \A k \in 1..Existing[i].length : g[k] = Existing[i].first + k - 1
    BY ImageChain
  <2>3. Holds(g, Existing[i].length, Existing[i].number)
    BY <1>11, <2>2 DEF Holds
  <2>4. g \in [1..Existing[i].length -> TableEntries \ {FREE}]
    BY <2>2 DEF ChainOf
  <2> QED
    BY <1>1, <1>2, <2>2, <2>3, <2>4 DEF Kept
<1>20. ASSUME NEW i \in 1..Len(Existing), NEW e, e.first_cluster = Existing[i].first,
              e.size = Existing[i].length
       PROVE  /\ Readable(ImageTable, e)
              /\ \A x \in Own(ImageTable, e) : x \in Nat /\ i \in Owner(x)
  <2>1. PICK g : /\ ChainOf(ImageTable, g, Existing[i].first, Existing[i].length)
                 /\ \A k \in 1..Existing[i].length : g[k] = Existing[i].first + k - 1
    BY ImageChain
  <2>2. Existing[i].length \in Nat \ {0}
    BY ExistingFacts
  <2>3. Chain(ImageTable, Existing[i].first, Existing[i].length) = g
    BY <2>1, <2>2, ChainUnique
  <2>4. Readable(ImageTable, e)
    BY <1>20, <2>1, <2>3 DEF Readable
  <2>5. ASSUME NEW x \in Own(ImageTable, e) PROVE x \in Nat /\ i \in Owner(x)
    <3>1. PICK k \in 1..Existing[i].length : x = g[k]
      BY <1>20, <2>3 DEF Own
    <3>2. x = Existing[i].first + k - 1
      BY <2>1, <3>1
    <3>3. x \in Nat /\ Place(Existing[i], x) = k
      BY <3>2, ImageOwned
    <3> QED
      BY <3>3 DEF Owner
  <2> QED
    BY <2>4, <2>5
<1>21. ASSUME NEW i \in Seen(dir)
       PROVE  /\ Readable(ImageTable, dir[i])
              /\ \A x \in Own(ImageTable, dir[i]) : x \in Nat /\ i - 2 \in Owner(x)
  <2>1. i \in 1..Slots /\ dir[i] # Empty
    BY <1>5 DEF Seen
  <2>2. CASE dir[i].size = 0
    BY <2>2 DEF Readable, Own
  <2>3. CASE /\ i - 2 \in 1..Len(Existing)
             /\ dir[i].first_cluster = Existing[i - 2].first
             /\ dir[i].size = Existing[i - 2].length
    BY <1>20, <2>3
  <2> QED
    BY <1>7, <2>1, <2>2, <2>3
<1>22. EntriesInv
  <2>1. ASSUME NEW i \in Seen(dir), NEW j \in Seen(dir), i # j,
               NEW x \in Own(ImageTable, dir[i]), x \in Own(ImageTable, dir[j])
        PROVE  FALSE
    <3>1. i - 2 = j - 2
      BY <1>21, <2>1, OneOwner
    <3>2. i \in Int /\ j \in Int
      BY DEF Seen
    <3> QED
      BY <2>1, <3>1, <3>2
  <2> QED
    BY <1>1, <1>2, <1>21, <2>1 DEF EntriesInv
<1> QED
  BY <1>2, <1>14, <1>15, <1>17, <1>18, <1>19, <1>22
     DEF DiskInv, ChainOpen, SyncInv, ProgressInv

\* The invariant is inductive.
LEMMA DiskStep ==
    ASSUME DiskInv, [Next]_vars
    PROVE  DiskInv'
BY TypesStep, MediaStep, OpenStep, ChainsStep, SyncStep, ListedStep, ProgressStep, StoredStep,
   EntriesStep DEF DiskInv

\* The invariant holds.
THEOREM DiskInvariant == Spec => []DiskInv
<1>1. Init => DiskInv
  BY DiskInit
<1>2. DiskInv /\ [Next]_vars => DiskInv'
  BY DiskStep
<1> QED
  BY <1>1, <1>2, PTL DEF Spec

-----------------------------------------------------------------------------
(* What the runs check, for every disk, file and number of crashes. *)

\* Type correctness: the tables stay tables of bytes, write_file never takes a
\* cluster the table does not have, and never more than the file has sectors.
THEOREM DiskTyped == Spec => []TypeOK
<1>1. DiskInv => TypeOK
  <2>1. SUFFICES ASSUME DiskInv PROVE TypeOK
    OBVIOUS
  <2>2. DOMAIN dir = 1..Slots /\ DOMAIN cur_dir = 1..Slots
    BY <2>1 DEF DiskInv, FatTypes
  <2>3. sector \in 0..LastSector
    BY <2>1, SectorOf, FatTableAssumption DEF DiskInv, FatTypes, Offsets
  <2>4. ASSUME pc = "chain" PROVE sectors_written \in 0..(file.length - 1)
    BY <2>1, <2>4 DEF DiskInv, FatTypes, ChainOpen, Files
  <2> QED
    BY <2>1, <2>2, <2>3, <2>4 DEF DiskInv, FatTypes, TypeOK
<1> QED
  BY <1>1, DiskInvariant, PTL

\* The table in memory and, unless a crash tore it, the one on the disk are sets
\* of chains: a linked cluster is not free and has one predecessor, at every
\* point of write_file.
THEOREM SoundChains == Spec => []ChainsSound
<1>1. DiskInv => ChainsSound
  <2>1. SUFFICES ASSUME DiskInv, ~torn PROVE ChainsSound
    BY DEF ChainsSound
  <2>2. Chains(FAT_TABLE_0) /\ (pc # "fat0" => Chains(fat0))
    BY <2>1 DEF DiskInv, ChainsInv
  <2>3. 2..TableLast \subseteq TableEntries
    BY FatTableAssumption DEF TableEntries
  <2> QED
    BY <2>2, <2>3 DEF ChainsSound, Chains
<1> QED
  BY <1>1, DiskInvariant, PTL

\* A file that was stored can be read from the disk for ever after: no later
\* write_file and no crash, one that cuts an entry of the table in two included,
\* touches its chain or its data.
THEOREM DataKept == Spec => []StoredDataKept
<1>1. DiskInv => StoredDataKept
  <2>1. SUFFICES ASSUME DiskInv, NEW f \in stored PROVE OnDisk(f)
    BY DEF StoredDataKept
  <2>2. PICK g : ChainOf(fat0, g, f.first, f.length) /\ Holds(g, f.length, f.number)
    BY <2>1 DEF DiskInv, StoredInv, Kept
  <2>3. f.length \in Nat \ {0}
    BY <2>1 DEF DiskInv, FatTypes, Files
  <2>4. Chain(fat0, f.first, f.length) = g
    BY <2>2, <2>3, ChainUnique
  <2>5. f.length \in 1..f.length
    BY <2>3
  <2>6. Get(fat0, g[f.length]) = EOC
    BY <2>2, <2>5 DEF ChainOf
  <2> QED
    BY <2>2, <2>4, <2>6 DEF OnDisk, Holds
<1> QED
  BY <1>1, DiskInvariant, PTL

\* When write_file returns, the directory on the disk leads to the file and both
\* tables on the disk are the one in memory.
THEOREM DurableReturn == Spec => []ReturnedIsDurable
<1>1. DiskInv => ReturnedIsDurable
  BY DEF DiskInv, SyncInv, ListedInv, ListedIn, ReturnedIsDurable
<1> QED
  BY <1>1, DiskInvariant, PTL

\* Between calls, as long as there was no crash, every entry of the directory
\* leads to a chain of the length it gives, and no two share a cluster.
THEOREM ReadableEntries == Spec => []EntriesReadable
<1>1. DiskInv => EntriesReadable
  <2>1. SUFFICES ASSUME DiskInv, crashes = 0, NEW i \in Seen(dir)
                 PROVE  /\ dir[i].size > 0 =>
                              /\ Claims(i) \subseteq TableEntries \ {FREE}
                              /\ Get(FAT_TABLE_0, EntryChain(i)[dir[i].size]) = EOC
                        /\ \A j \in Seen(dir) : i # j => Claims(i) \cap Claims(j) = {}
    BY DEF EntriesReadable
  <2>2. \A j : Claims(j) = Own(FAT_TABLE_0, dir[j])
    BY DEF Claims, Own, EntryChain
  <2>3. \A j \in Seen(dir) : i # j => Claims(i) \cap Claims(j) = {}
    BY <2>1, <2>2 DEF DiskInv, EntriesInv
  <2>4. FatTypes /\ Readable(FAT_TABLE_0, dir[i])
    BY <2>1 DEF DiskInv, EntriesInv
  <2>5. PICK t, e : t = FAT_TABLE_0 /\ e = dir[i] /\ e.size \in Nat /\ Readable(t, e)
    BY <2>4, SeenSized
  <2>6. \A x \in Own(t, e) : x \in TableEntries /\ x # FREE
    BY <2>5, OwnTaken
  <2>7. Claims(i) \subseteq TableEntries \ {FREE}
    BY <2>2, <2>5, <2>6
  <2>8. ASSUME e.size > 0 PROVE Get(t, Chain(t, e.first_cluster, e.size)[e.size]) = EOC
    <3>1. e.size \in 1..e.size
      BY <2>5, <2>8
    <3> QED
      BY <2>5, <2>8, <3>1 DEF Readable, ChainOf
  <2> QED
    BY <2>3, <2>5, <2>7, <2>8 DEF EntryChain
<1> QED
  BY <1>1, DiskInvariant, PTL
=============================================================================
