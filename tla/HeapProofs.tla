----------------------------- MODULE HeapProofs -----------------------------
(***************************************************************************)
(* The invariants of Heap for every header, page and request size and a    *)
(* heap of any length.  HeapTiled is not inductive: nothing in it says     *)
(* that last_hdr ends the list, nor that segments stay below heap_end.     *)
(***************************************************************************)
EXTENDS Heap, TLAPS

\* last_hdr is the end of the list, and no segment reaches past heap_end.
ListEnds == /\ hdr[last_hdr].next_hdr = NULL
            /\ \A a \in DOMAIN hdr : End(a) <= heap_end

\* The calls in progress: cur is a segment, a free one while joining, and
\* krealloc has a block to release.
CallInv ==
    /\ pc \in {"walk", "joinNext", "joinPrev"} => cur \in DOMAIN hdr
    /\ pc \in {"joinNext", "joinPrev"} => hdr[cur].free
    /\ pc = "release" => old # NULL

\* NoAdjacentFree in the middle of free: the only free neighbours are the
\* pairs that the two loops have not joined yet.
PairsLeft ==
    \A a \in DOMAIN hdr :
        hdr[a].free /\ NextIsFree(a) =>
            \/ pc = "joinNext" /\ (a = cur \/ hdr[a].next_hdr = cur)
            \/ pc = "joinPrev" /\ hdr[a].next_hdr = cur

Tiled == TypeOK /\ HeapTiled /\ ListEnds

IInv == Tiled /\ CallInv /\ PairsLeft /\ BlocksIntact /\ LastSegmentFree

-----------------------------------------------------------------------------
\* What HeapTiled and ListEnds say of the fields of one header.
LEMMA Links ==
    ASSUME Tiled, NEW a \in DOMAIN hdr
    PROVE  /\ a \in Nat /\ hdr[a].len \in Nat /\ hdr[a].free \in BOOLEAN
           /\ hdr[a].next_hdr \in Nat \cup {NULL}
           /\ hdr[a].previous_hdr \in Nat \cup {NULL}
           /\ End(a) = a + HDR + hdr[a].len
           /\ End(a) \in Nat /\ End(a) <= heap_end
           /\ hdr[a].next_hdr = NULL <=> a = last_hdr
           /\ hdr[a].next_hdr = NULL => End(a) = heap_end
           /\ hdr[a].next_hdr # NULL =>
                 /\ hdr[a].next_hdr = End(a) /\ hdr[a].next_hdr \in DOMAIN hdr
                 /\ hdr[hdr[a].next_hdr].previous_hdr = a
           /\ hdr[a].previous_hdr = NULL => a = heap_start
           /\ hdr[a].previous_hdr # NULL =>
                 /\ hdr[a].previous_hdr \in DOMAIN hdr
                 /\ End(hdr[a].previous_hdr) = a
                 /\ hdr[hdr[a].previous_hdr].next_hdr = a
<1>1. /\ a \in Nat /\ hdr[a] \in HeaderType /\ HDR \in Nat \ {0} /\ heap_end \in Nat
      /\ last_hdr \in DOMAIN hdr
  BY HeapAssumption DEF Tiled, TypeOK
<1>2. /\ hdr[a].len \in Nat /\ hdr[a].free \in BOOLEAN
      /\ hdr[a].next_hdr \in Nat \cup {NULL}
      /\ hdr[a].previous_hdr \in Nat \cup {NULL}
  BY <1>1 DEF HeaderType
<1>3. End(a) = a + HDR + hdr[a].len /\ End(a) \in Nat /\ End(a) <= heap_end
  BY <1>1, <1>2 DEF End, Tiled, ListEnds
<1>4. hdr[last_hdr].next_hdr = NULL
  BY DEF Tiled, ListEnds
<1>5. IF hdr[a].next_hdr = NULL
      THEN a = last_hdr /\ End(a) = heap_end
      ELSE /\ hdr[a].next_hdr = End(a)
           /\ End(a) \in DOMAIN hdr
           /\ hdr[End(a)].previous_hdr = a
  BY DEF Tiled, HeapTiled
<1>6. ASSUME hdr[a].previous_hdr # NULL
      PROVE  /\ hdr[a].previous_hdr \in DOMAIN hdr
             /\ End(hdr[a].previous_hdr) = a
             /\ hdr[hdr[a].previous_hdr].next_hdr = a
  <2> DEFINE p == hdr[a].previous_hdr
  <2>1. p \in DOMAIN hdr /\ End(p) = a
    BY <1>6 DEF Tiled, HeapTiled
  <2>2. IF hdr[p].next_hdr = NULL THEN End(p) = heap_end ELSE hdr[p].next_hdr = End(p)
    BY <2>1 DEF Tiled, HeapTiled
  <2>3. a < heap_end
    BY <1>1, <1>2, <1>3
  <2>. QED BY <2>1, <2>2, <2>3, <1>1
<1>7. hdr[a].previous_hdr = NULL => a = heap_start
  BY DEF Tiled, HeapTiled
<1>. QED BY <1>1, <1>2, <1>3, <1>4, <1>5, <1>6, <1>7

\* The order of two segments.
LEMMA Apart ==
    ASSUME Tiled, NEW a \in DOMAIN hdr, NEW b \in DOMAIN hdr, a < b
    PROVE  End(a) <= b
BY DEF Tiled, HeapTiled

\* The part of TypeOK about the list.
ListType ==
    /\ hdr \in [DOMAIN hdr -> HeaderType] /\ DOMAIN hdr \subseteq Nat
    /\ last_hdr \in DOMAIN hdr /\ heap_end \in Nat

\* The end of segment a in a list h.
Fin(h, a) == a + HDR + h[a].len

-----------------------------------------------------------------------------
(* The operations on the list keep it a tiling. *)

\* SPLIT_HEAP_SEGMENT cuts a segment that kmalloc's test accepted in two.
LEMMA SplitTiles ==
    ASSUME Tiled, NEW seg \in DOMAIN hdr, NEW length \in Nat,
           hdr[seg].len > length + HDR,
           SPLIT_HEAP_SEGMENT(seg, length), heap_end' = heap_end,
           NEW n, n = seg + HDR + length
    PROVE  /\ ListType' /\ HeapTiled' /\ ListEnds'
           /\ DOMAIN hdr' = DOMAIN hdr \cup {n} /\ n \notin DOMAIN hdr
           /\ \A a \in DOMAIN hdr : a # seg => /\ hdr'[a].len = hdr[a].len
                                               /\ hdr'[a].free = hdr[a].free
                                               /\ hdr'[a].next_hdr = hdr[a].next_hdr
           /\ hdr'[seg].len = length /\ ~hdr'[seg].free /\ hdr'[seg].next_hdr = n
           /\ hdr'[n].free /\ hdr'[n].next_hdr = hdr[seg].next_hdr
           /\ last_hdr' = IF seg = last_hdr THEN n ELSE last_hdr
<1>0. /\ HDR \in Nat \ {0} /\ heap_end \in Nat /\ last_hdr \in DOMAIN hdr
      /\ hdr \in [DOMAIN hdr -> HeaderType] /\ DOMAIN hdr \subseteq Nat
  BY HeapAssumption DEF Tiled, TypeOK
<1>p. PICK nn : nn = hdr[seg].next_hdr
  OBVIOUS
<1>1. /\ hdr' = [a \in DOMAIN hdr \cup {n} |->
                     IF a = n THEN Header(seg, nn, hdr[seg].len - length - HDR, TRUE)
                     ELSE IF a = seg THEN Header(hdr[seg].previous_hdr, n, length, FALSE)
                     ELSE IF a = nn THEN [hdr[nn] EXCEPT !.previous_hdr = n]
                     ELSE hdr[a]]
      /\ last_hdr' = IF seg = last_hdr THEN n ELSE last_hdr
  BY <1>p DEF SPLIT_HEAP_SEGMENT
<1>2. /\ seg \in Nat /\ n \in Nat /\ seg < n /\ n < Fin(hdr, seg)
      /\ hdr[seg].len - length - HDR \in Nat
  BY <1>0, Links DEF Fin
<1>e. \A a \in DOMAIN hdr : End(a) = Fin(hdr, a) /\ Fin(hdr, a) \in Nat
  <2>1. \A a \in DOMAIN hdr : End(a) \in Nat
    BY Links
  <2>. QED BY <2>1 DEF End, Fin
<1>a. \A a, b \in DOMAIN hdr : a < b => Fin(hdr, a) <= b
  BY <1>e, Apart
<1>3. n \notin DOMAIN hdr
  BY <1>0, <1>2, <1>e, <1>a
<1>s. /\ nn = NULL <=> seg = last_hdr
      /\ nn = NULL => Fin(hdr, seg) = heap_end
      /\ nn # NULL => /\ nn \in DOMAIN hdr /\ nn = Fin(hdr, seg)
                      /\ hdr[nn].previous_hdr = seg
  BY <1>p, <1>e, Links
<1>4. nn # NULL => nn \in DOMAIN hdr /\ nn # seg /\ nn # n
  BY <1>0, <1>2, <1>3, <1>s
<1>5. NULL \notin DOMAIN hdr /\ NULL # n
  BY <1>0, <1>2 DEF NULL
<1>6. ASSUME NEW a \in DOMAIN hdr
      PROVE  /\ a # seg => /\ hdr'[a].len = hdr[a].len
                           /\ hdr'[a].free = hdr[a].free
                           /\ hdr'[a].next_hdr = hdr[a].next_hdr
             /\ a # nn => hdr'[a].previous_hdr = hdr[a].previous_hdr
             /\ a = nn => hdr'[a].previous_hdr = n
  <2>1. a # n /\ hdr[a] \in HeaderType
    BY <1>0, <1>3
  <2>2. CASE a = seg
    BY <2>1, <2>2, <1>1, <1>4, <1>5, <1>p DEF Header
  <2>3. CASE a = nn /\ a # seg
    BY <2>1, <2>3, <1>1 DEF HeaderType
  <2>4. CASE a # nn /\ a # seg
    BY <2>1, <2>4, <1>1
  <2>. QED BY <2>2, <2>3, <2>4
<1>7. /\ hdr'[seg].len = length /\ ~hdr'[seg].free /\ hdr'[seg].next_hdr = n
      /\ hdr'[n].len = hdr[seg].len - length - HDR /\ hdr'[n].free
      /\ hdr'[n].next_hdr = nn /\ hdr'[n].previous_hdr = seg
      /\ DOMAIN hdr' = DOMAIN hdr \cup {n}
  BY <1>1, <1>2 DEF Header
<1>8. \A a \in DOMAIN hdr' : hdr'[a] \in HeaderType
  <2> SUFFICES ASSUME NEW a \in DOMAIN hdr' PROVE hdr'[a] \in HeaderType
    OBVIOUS
  <2>1. CASE a = n
    BY <2>1, <1>1, <1>2, <1>p, Links DEF Header, HeaderType
  <2>2. CASE a = seg
    BY <2>2, <1>1, <1>2, <1>p, Links DEF Header, HeaderType
  <2>3. CASE a = nn /\ a # n /\ a # seg
    BY <2>3, <1>0, <1>1, <1>2 DEF HeaderType
  <2>4. CASE a \notin {n, seg, nn}
    BY <2>4, <1>0, <1>1
  <2>. QED BY <2>1, <2>2, <2>3, <2>4
<1>9. ListType'
  BY <1>0, <1>1, <1>2, <1>8 DEF ListType
<1>10. /\ Fin(hdr', seg) = n /\ Fin(hdr', n) = Fin(hdr, seg)
       /\ \A a \in DOMAIN hdr : a # seg => Fin(hdr', a) = Fin(hdr, a)
  <2>1. hdr[seg].len \in Nat
    BY Links
  <2>2. Fin(hdr', seg) = n
    BY <1>7 DEF Fin
  <2>3. Fin(hdr', n) = Fin(hdr, seg)
    BY <1>0, <1>2, <1>7, <2>1 DEF Fin
  <2>4. \A a \in DOMAIN hdr : a # seg => Fin(hdr', a) = Fin(hdr, a)
    BY <1>6 DEF Fin
  <2>. QED BY <2>2, <2>3, <2>4
<1>11. ListEnds'
  <2>1. hdr'[last_hdr'].next_hdr = NULL
    BY <1>0, <1>1, <1>s, <1>6, <1>7 DEF Tiled, ListEnds
  <2>2. \A a \in DOMAIN hdr' : Fin(hdr', a) <= heap_end'
    BY <1>0, <1>2, <1>7, <1>10, <1>e DEF Tiled, ListEnds
  <2>. QED BY <2>1, <2>2 DEF ListEnds, Fin, End
<1>12. HeapTiled'
  <2>1. heap_start \in DOMAIN hdr'
    BY <1>7 DEF Tiled, HeapTiled
  <2>2. ASSUME NEW a \in DOMAIN hdr'
        PROVE  IF hdr'[a].next_hdr = NULL
               THEN a = last_hdr' /\ Fin(hdr', a) = heap_end'
               ELSE /\ hdr'[a].next_hdr = Fin(hdr', a)
                    /\ Fin(hdr', a) \in DOMAIN hdr'
                    /\ hdr'[Fin(hdr', a)].previous_hdr = a
    <3>1. CASE a = seg
      BY <3>1, <1>5, <1>7, <1>10
    <3>2. CASE a = n
      <4>1. hdr'[a].next_hdr = nn /\ Fin(hdr', a) = Fin(hdr, seg)
        BY <3>2, <1>7, <1>10
      <4>2. CASE nn = NULL
        BY <3>2, <4>1, <4>2, <1>1, <1>s
      <4>3. CASE nn # NULL
        BY <3>2, <4>1, <4>3, <1>s, <1>6, <1>7
      <4>. QED BY <4>2, <4>3
    <3>3. CASE a \in DOMAIN hdr \ {seg}
      <4>1. /\ hdr[a].next_hdr = NULL => a = last_hdr /\ Fin(hdr, a) = heap_end
            /\ hdr[a].next_hdr # NULL =>
                 /\ hdr[a].next_hdr = Fin(hdr, a) /\ Fin(hdr, a) \in DOMAIN hdr
                 /\ hdr[Fin(hdr, a)].previous_hdr = a
        BY <3>3, <1>e, Links
      <4>2. hdr'[a].next_hdr = hdr[a].next_hdr /\ Fin(hdr', a) = Fin(hdr, a)
        BY <3>3, <1>6, <1>10
      <4>3. ASSUME hdr[a].next_hdr # NULL
            PROVE  hdr'[Fin(hdr, a)].previous_hdr = hdr[Fin(hdr, a)].previous_hdr
        BY <3>3, <4>1, <4>3, <1>s, <1>5, <1>6
      <4>. QED BY <3>3, <4>1, <4>2, <4>3, <1>1, <1>7
    <3>. QED BY <3>1, <3>2, <3>3, <1>7
  <2>3. ASSUME NEW a \in DOMAIN hdr'
        PROVE  IF hdr'[a].previous_hdr = NULL
               THEN a = heap_start
               ELSE /\ hdr'[a].previous_hdr \in DOMAIN hdr'
                    /\ Fin(hdr', hdr'[a].previous_hdr) = a
    <3>1. CASE a = n
      BY <3>1, <1>7, <1>10, <1>0, <1>5
    <3>2. CASE a \in DOMAIN hdr /\ a = nn
      BY <3>2, <1>4, <1>5, <1>p, <1>6, <1>7, <1>10, <1>e, Links
    <3>3. CASE a \in DOMAIN hdr /\ a # nn
      <4>1. /\ hdr[a].previous_hdr = NULL => a = heap_start
            /\ hdr[a].previous_hdr # NULL =>
                 /\ hdr[a].previous_hdr \in DOMAIN hdr
                 /\ Fin(hdr, hdr[a].previous_hdr) = a
                 /\ hdr[hdr[a].previous_hdr].next_hdr = a
        BY <3>3, <1>e, Links
      <4>2. hdr'[a].previous_hdr = hdr[a].previous_hdr
        BY <3>3, <1>6
      <4>. QED BY <3>3, <4>1, <4>2, <1>p, <1>7, <1>10
    <3>. QED BY <3>1, <3>2, <3>3, <1>7
  <2>4. ASSUME NEW a \in DOMAIN hdr', NEW b \in DOMAIN hdr', a < b
        PROVE  Fin(hdr', a) <= b
    <3>1. CASE a = n
      BY <3>1, <2>4, <1>0, <1>2, <1>7, <1>10, <1>e, <1>a
    <3>2. CASE a = seg
      BY <3>2, <2>4, <1>0, <1>2, <1>7, <1>10, <1>e, <1>a
    <3>3. CASE a \in DOMAIN hdr \ {seg} /\ b = n
      <4>1. a < seg
        <5>1. seg < a => Fin(hdr, seg) <= a
          BY <3>3, <1>0, <1>e, <1>a
        <5>. QED BY <3>3, <2>4, <5>1, <1>0, <1>2, <1>e
      <4>. QED BY <3>3, <4>1, <1>0, <1>2, <1>10, <1>e, <1>a
    <3>4. CASE a \in DOMAIN hdr \ {seg} /\ b \in DOMAIN hdr
      BY <3>4, <2>4, <1>0, <1>10, <1>e, <1>a
    <3>. QED BY <3>1, <3>2, <3>3, <3>4, <1>7
  <2>. QED BY <2>1, <2>2, <2>3, <2>4 DEF HeapTiled, heap_start, Fin, End
<1>. QED BY <1>1, <1>p, <1>3, <1>6, <1>7, <1>9, <1>11, <1>12

\* JOIN_HEAP_NEXT_SEGMENT makes one segment of two neighbours.
LEMMA JoinTiles ==
    ASSUME Tiled, NEW seg \in DOMAIN hdr, NEW n, n = hdr[seg].next_hdr, n # NULL,
           JOIN_HEAP_NEXT_SEGMENT(seg), heap_end' = heap_end
    PROVE  /\ ListType' /\ HeapTiled' /\ ListEnds'
           /\ n \in DOMAIN hdr /\ n # seg /\ DOMAIN hdr' = DOMAIN hdr \ {n}
           /\ \A a \in DOMAIN hdr' : /\ a # seg => /\ hdr'[a].len = hdr[a].len
                                                   /\ hdr'[a].next_hdr = hdr[a].next_hdr
                                     /\ hdr'[a].free = hdr[a].free
           /\ hdr'[seg].next_hdr = hdr[n].next_hdr
           /\ last_hdr' = seg \/ last_hdr' = last_hdr
<1>0. /\ HDR \in Nat \ {0} /\ heap_end \in Nat /\ last_hdr \in DOMAIN hdr
      /\ hdr \in [DOMAIN hdr -> HeaderType] /\ DOMAIN hdr \subseteq Nat
  BY HeapAssumption DEF Tiled, TypeOK
<1>e. \A a \in DOMAIN hdr : End(a) = Fin(hdr, a) /\ Fin(hdr, a) \in Nat
  <2>1. \A a \in DOMAIN hdr : End(a) \in Nat
    BY Links
  <2>. QED BY <2>1 DEF End, Fin
<1>a. \A a, b \in DOMAIN hdr : a < b => Fin(hdr, a) <= b
  BY <1>e, Apart
<1>2. /\ n \in DOMAIN hdr /\ n = Fin(hdr, seg) /\ hdr[n].previous_hdr = seg
      /\ seg # last_hdr
  BY <1>e, Links
<1>3. seg < n /\ seg < Fin(hdr, seg) /\ n < Fin(hdr, n)
  <2>1. hdr[seg].len \in Nat /\ hdr[n].len \in Nat
    BY <1>2, Links
  <2>. QED BY <2>1, <1>0, <1>2 DEF Fin
<1>p. PICK nn : nn = hdr[n].next_hdr
  OBVIOUS
<1>1. /\ hdr' = [a \in DOMAIN hdr \ {n} |->
                     IF a = seg THEN [hdr[seg] EXCEPT !.next_hdr = nn,
                                                      !.len = @ + hdr[n].len + HDR]
                     ELSE IF a = nn THEN [hdr[nn] EXCEPT !.previous_hdr = seg]
                     ELSE hdr[a]]
      /\ last_hdr' = IF nn = NULL THEN seg ELSE last_hdr
  BY <1>p DEF JOIN_HEAP_NEXT_SEGMENT
<1>s. /\ nn = NULL <=> n = last_hdr
      /\ nn = NULL => Fin(hdr, n) = heap_end
      /\ nn # NULL => /\ nn \in DOMAIN hdr /\ nn = Fin(hdr, n)
                      /\ hdr[nn].previous_hdr = n
  BY <1>p, <1>2, <1>e, Links
<1>4. nn # NULL => nn # seg /\ nn # n
  BY <1>0, <1>2, <1>3, <1>s, <1>e
<1>5. NULL \notin DOMAIN hdr
  BY <1>0 DEF NULL
<1>6. ASSUME NEW a \in DOMAIN hdr \ {n}
      PROVE  /\ a # seg => /\ hdr'[a].len = hdr[a].len
                           /\ hdr'[a].next_hdr = hdr[a].next_hdr
             /\ hdr'[a].free = hdr[a].free
             /\ a # nn => hdr'[a].previous_hdr = hdr[a].previous_hdr
             /\ a = nn => hdr'[a].previous_hdr = seg
             /\ hdr'[a] \in HeaderType
  <2>1. hdr[a] \in HeaderType /\ hdr[n] \in HeaderType
    BY <1>0, <1>2
  <2>2. CASE a = seg
    <3>1. a # nn
      BY <2>2, <1>4, <1>5
    <3>2. nn \in Nat \cup {NULL}
      BY <2>1, <1>p DEF HeaderType
    <3>3. hdr'[a] = [hdr[seg] EXCEPT !.next_hdr = nn, !.len = @ + hdr[n].len + HDR]
      BY <2>2, <1>1
    <3>4. hdr[seg].len + hdr[n].len + HDR \in Nat
      BY <2>1, <2>2, <1>0 DEF HeaderType
    <3>. QED BY <2>1, <2>2, <3>1, <3>2, <3>3, <3>4 DEF HeaderType
  <2>3. CASE a = nn /\ a # seg
    BY <2>1, <2>3, <1>0, <1>1 DEF HeaderType
  <2>4. CASE a # nn /\ a # seg
    BY <2>1, <2>4, <1>1
  <2>. QED BY <2>2, <2>3, <2>4
<1>7. /\ DOMAIN hdr' = DOMAIN hdr \ {n} /\ seg \in DOMAIN hdr'
      /\ hdr'[seg].next_hdr = nn /\ hdr'[seg].len = hdr[seg].len + hdr[n].len + HDR
  <2>1. hdr[seg] \in HeaderType /\ seg # n
    BY <1>0, <1>3
  <2>. QED BY <2>1, <1>1 DEF HeaderType
<1>8. last_hdr' \in DOMAIN hdr'
  BY <1>0, <1>1, <1>s, <1>7
<1>9. ListType'
  BY <1>0, <1>1, <1>6, <1>7, <1>8 DEF ListType
<1>10. /\ Fin(hdr', seg) = Fin(hdr, n)
       /\ \A a \in DOMAIN hdr' \ {seg} : Fin(hdr', a) = Fin(hdr, a)
  <2>1. hdr[seg].len \in Nat /\ hdr[n].len \in Nat
    BY <1>2, Links
  <2>. QED BY <2>1, <1>0, <1>2, <1>6, <1>7 DEF Fin
<1>11. ListEnds'
  <2>1. hdr'[last_hdr'].next_hdr = NULL
    BY <1>0, <1>1, <1>2, <1>s, <1>6, <1>7 DEF Tiled, ListEnds
  <2>2. \A a \in DOMAIN hdr' : Fin(hdr', a) <= heap_end'
    BY <1>0, <1>2, <1>7, <1>10, <1>e DEF Tiled, ListEnds
  <2>. QED BY <2>1, <2>2 DEF ListEnds, Fin, End
<1>12. HeapTiled'
  <2>1. heap_start \in DOMAIN hdr'
    BY <1>0, <1>3, <1>7 DEF Tiled, HeapTiled, heap_start
  <2>2. ASSUME NEW a \in DOMAIN hdr'
        PROVE  IF hdr'[a].next_hdr = NULL
               THEN a = last_hdr' /\ Fin(hdr', a) = heap_end'
               ELSE /\ hdr'[a].next_hdr = Fin(hdr', a)
                    /\ Fin(hdr', a) \in DOMAIN hdr'
                    /\ hdr'[Fin(hdr', a)].previous_hdr = a
    <3>1. CASE a = seg
      <4>1. CASE nn = NULL
        BY <3>1, <4>1, <1>1, <1>s, <1>7, <1>10
      <4>2. CASE nn # NULL
        BY <3>1, <4>2, <1>4, <1>s, <1>6, <1>7, <1>10
      <4>. QED BY <4>1, <4>2
    <3>2. CASE a # seg
      <4>1. /\ hdr[a].next_hdr = NULL => a = last_hdr /\ Fin(hdr, a) = heap_end
            /\ hdr[a].next_hdr # NULL =>
                 /\ hdr[a].next_hdr = Fin(hdr, a) /\ Fin(hdr, a) \in DOMAIN hdr
                 /\ hdr[Fin(hdr, a)].previous_hdr = a
        BY <1>7, <1>e, Links
      <4>2. hdr'[a].next_hdr = hdr[a].next_hdr /\ Fin(hdr', a) = Fin(hdr, a)
        BY <3>2, <1>6, <1>7, <1>10
      <4>3. ASSUME hdr[a].next_hdr # NULL
            PROVE  /\ Fin(hdr, a) \in DOMAIN hdr'
                   /\ hdr'[Fin(hdr, a)].previous_hdr = a
        <5>1. Fin(hdr, a) # n
          BY <3>2, <4>1, <4>3, <1>2
        <5>2. Fin(hdr, a) # nn
          BY <4>1, <4>3, <1>5, <1>s, <1>7
        <5>. QED BY <4>1, <4>3, <5>1, <5>2, <1>6, <1>7
      <4>. QED BY <4>1, <4>2, <4>3, <1>1, <1>s, <1>7
    <3>. QED BY <3>1, <3>2
  <2>3. ASSUME NEW a \in DOMAIN hdr'
        PROVE  IF hdr'[a].previous_hdr = NULL
               THEN a = heap_start
               ELSE /\ hdr'[a].previous_hdr \in DOMAIN hdr'
                    /\ Fin(hdr', hdr'[a].previous_hdr) = a
    <3>1. CASE a = nn
      BY <3>1, <1>5, <1>s, <1>6, <1>7, <1>10
    <3>2. CASE a # nn
      <4>1. /\ hdr[a].previous_hdr = NULL => a = heap_start
            /\ hdr[a].previous_hdr # NULL =>
                 /\ hdr[a].previous_hdr \in DOMAIN hdr
                 /\ Fin(hdr, hdr[a].previous_hdr) = a
                 /\ hdr[hdr[a].previous_hdr].next_hdr = a
        BY <1>7, <1>e, Links
      <4>2. hdr'[a].previous_hdr = hdr[a].previous_hdr
        BY <3>2, <1>6, <1>7
      <4>3. hdr[a].previous_hdr # n /\ hdr[a].previous_hdr # seg
        BY <3>2, <4>1, <1>p, <1>2, <1>5, <1>7
      <4>. QED BY <4>1, <4>2, <4>3, <1>7, <1>10
    <3>. QED BY <3>1, <3>2
  <2>4. ASSUME NEW a \in DOMAIN hdr', NEW b \in DOMAIN hdr', a < b
        PROVE  Fin(hdr', a) <= b
    <3>1. CASE a = seg
      BY <3>1, <2>4, <1>0, <1>2, <1>7, <1>10, <1>e, <1>a
    <3>2. CASE a # seg
      BY <3>2, <2>4, <1>0, <1>7, <1>10, <1>e, <1>a
    <3>. QED BY <3>1, <3>2
  <2>. QED BY <2>1, <2>2, <2>3, <2>4 DEF HeapTiled, heap_start, Fin, End
<1>. QED BY <1>1, <1>p, <1>2, <1>3, <1>0, <1>6, <1>7, <1>9, <1>11, <1>12

\* A step that changes no link.
SameLinks ==
    /\ hdr' \in [DOMAIN hdr -> HeaderType]
    /\ \A a \in DOMAIN hdr : /\ hdr'[a].next_hdr = hdr[a].next_hdr
                             /\ hdr'[a].previous_hdr = hdr[a].previous_hdr

\* EXPAND_HEAP lengthens the last segment, which is free, and the heap alike.
LEMMA ExpandTiles ==
    ASSUME Tiled, NEW k \in Nat,
           SameLinks, hdr'[last_hdr].len = hdr[last_hdr].len + k,
           \A a \in DOMAIN hdr \ {last_hdr} : hdr'[a].len = hdr[a].len,
           heap_end' = heap_end + k, last_hdr' = last_hdr
    PROVE  ListType' /\ HeapTiled' /\ ListEnds'
<1>0. /\ HDR \in Nat \ {0} /\ heap_end \in Nat /\ last_hdr \in DOMAIN hdr
      /\ hdr \in [DOMAIN hdr -> HeaderType] /\ DOMAIN hdr \subseteq Nat
  BY HeapAssumption DEF Tiled, TypeOK
<1>e. \A a \in DOMAIN hdr : End(a) = Fin(hdr, a) /\ Fin(hdr, a) \in Nat /\ a < Fin(hdr, a)
  <2>1. \A a \in DOMAIN hdr : End(a) \in Nat /\ hdr[a].len \in Nat
    BY Links
  <2>. QED BY <2>1, <1>0 DEF End, Fin
<1>a. \A a, b \in DOMAIN hdr : a < b => Fin(hdr, a) <= b
  BY <1>e, Apart
<1>1. /\ DOMAIN hdr' = DOMAIN hdr
      /\ \A a \in DOMAIN hdr : /\ hdr'[a].next_hdr = hdr[a].next_hdr
                               /\ hdr'[a].previous_hdr = hdr[a].previous_hdr
  BY DEF SameLinks
<1>2. ListType'
  BY <1>0, <1>1 DEF ListType, SameLinks
<1>3. /\ hdr[last_hdr].next_hdr = NULL /\ Fin(hdr, last_hdr) = heap_end
      /\ Fin(hdr', last_hdr) = heap_end'
      /\ \A a \in DOMAIN hdr \ {last_hdr} : Fin(hdr', a) = Fin(hdr, a)
  <2>1. hdr[last_hdr].next_hdr = NULL /\ End(last_hdr) = heap_end
    BY <1>0, Links
  <2>2. hdr[last_hdr].len \in Nat
    BY <1>0, Links
  <2>. QED BY <2>1, <2>2, <1>0, <1>1, <1>e DEF Fin
<1>4. \A a \in DOMAIN hdr : a <= last_hdr /\ Fin(hdr, a) <= heap_end
  <2>1. \A a \in DOMAIN hdr : Fin(hdr, a) <= heap_end
    BY <1>e DEF Tiled, ListEnds
  <2>. QED BY <2>1, <1>0, <1>3, <1>e, <1>a
<1>5. ListEnds'
  <2>1. \A a \in DOMAIN hdr' : Fin(hdr', a) <= heap_end'
    BY <1>0, <1>1, <1>3, <1>4, <1>e
  <2>. QED BY <2>1, <1>0, <1>1, <1>3 DEF ListEnds, Fin, End
<1>6. HeapTiled'
  <2>1. heap_start \in DOMAIN hdr'
    BY <1>1 DEF Tiled, HeapTiled
  <2>2. ASSUME NEW a \in DOMAIN hdr'
        PROVE  IF hdr'[a].next_hdr = NULL
               THEN a = last_hdr' /\ Fin(hdr', a) = heap_end'
               ELSE /\ hdr'[a].next_hdr = Fin(hdr', a)
                    /\ Fin(hdr', a) \in DOMAIN hdr'
                    /\ hdr'[Fin(hdr', a)].previous_hdr = a
    <3>1. /\ hdr[a].next_hdr = NULL => a = last_hdr
          /\ hdr[a].next_hdr # NULL =>
               /\ hdr[a].next_hdr = Fin(hdr, a) /\ Fin(hdr, a) \in DOMAIN hdr
               /\ hdr[Fin(hdr, a)].previous_hdr = a
      BY <1>1, <1>e, Links
    <3>. QED BY <3>1, <1>1, <1>3
  <2>3. ASSUME NEW a \in DOMAIN hdr'
        PROVE  IF hdr'[a].previous_hdr = NULL
               THEN a = heap_start
               ELSE /\ hdr'[a].previous_hdr \in DOMAIN hdr'
                    /\ Fin(hdr', hdr'[a].previous_hdr) = a
    <3>1. /\ hdr[a].previous_hdr = NULL => a = heap_start
          /\ hdr[a].previous_hdr # NULL =>
               /\ hdr[a].previous_hdr \in DOMAIN hdr
               /\ Fin(hdr, hdr[a].previous_hdr) = a
      BY <1>1, <1>e, Links
    <3>2. hdr[a].previous_hdr # last_hdr \/ hdr[a].previous_hdr = NULL
      BY <3>1, <1>0, <1>1, <1>3, <1>4, <1>e
    <3>. QED BY <3>1, <3>2, <1>1, <1>3
  <2>4. ASSUME NEW a \in DOMAIN hdr', NEW b \in DOMAIN hdr', a < b
        PROVE  Fin(hdr', a) <= b
    BY <2>4, <1>0, <1>1, <1>3, <1>4, <1>a
  <2>. QED BY <2>1, <2>2, <2>3, <2>4 DEF HeapTiled, heap_start, Fin, End
<1>. QED BY <1>1, <1>2, <1>5, <1>6

\* A step that changes neither links nor lengths does not move the list.
LEMMA MarkTiles ==
    ASSUME Tiled, SameLinks, \A a \in DOMAIN hdr : hdr'[a].len = hdr[a].len,
           heap_end' = heap_end, last_hdr' = last_hdr
    PROVE  ListType' /\ HeapTiled' /\ ListEnds'
<1>1. heap_end' = heap_end + 0 /\ last_hdr \in DOMAIN hdr /\ hdr[last_hdr].len \in Nat
  <2>1. last_hdr \in DOMAIN hdr /\ heap_end \in Nat
    BY DEF Tiled, TypeOK
  <2>. QED BY <2>1, Links
<1>2. hdr'[last_hdr].len = hdr[last_hdr].len + 0
  BY <1>1
<1>. QED BY <1>1, <1>2, ExpandTiles

-----------------------------------------------------------------------------
(* The inductive invariant. *)

\* The heap that INIT_HEAP makes satisfies the inductive invariant.
LEMMA InitIInv == Init => IInv
<1> SUFFICES ASSUME Init PROVE IInv
  OBVIOUS
<1>0. /\ HDR \in Nat \ {0} /\ PAGE * InitPages \in Nat /\ PAGE * InitPages - HDR \in Nat
  BY HeapAssumption
<1>1. /\ hdr = [a \in {0} |-> Header(NULL, NULL, PAGE * InitPages - HDR, TRUE)]
      /\ last_hdr = 0 /\ heap_end = PAGE * InitPages /\ cur = 0 /\ size = 0
      /\ blocks = [a \in {} |-> 0] /\ pc = "idle" /\ old = NULL
  BY DEF Init, INIT_HEAP, heap_start
<1>2. /\ DOMAIN hdr = {0} /\ hdr[0].next_hdr = NULL /\ hdr[0].previous_hdr = NULL
      /\ hdr[0].len = PAGE * InitPages - HDR /\ hdr[0].free = TRUE
  BY <1>1 DEF Header
<1>3. /\ last_hdr = 0 /\ heap_end = PAGE * InitPages /\ cur = 0 /\ size = 0
      /\ DOMAIN blocks = {} /\ pc = "idle" /\ old = NULL
  BY <1>1
<1>4. TypeOK
  <2>1. hdr \in [DOMAIN hdr -> HeaderType]
    BY <1>0, <1>1 DEF Header, HeaderType
  <2>. QED BY <2>1, <1>0, <1>2, <1>3 DEF TypeOK
<1>5. End(0) = heap_end
  BY <1>0, <1>2, <1>3 DEF End
<1>6. HeapTiled
  BY <1>2, <1>3, <1>5 DEF HeapTiled, heap_start
<1>7. ListEnds
  BY <1>0, <1>2, <1>3, <1>5 DEF ListEnds
<1>8. CallInv /\ LastSegmentFree
  BY <1>2, <1>3 DEF CallInv, LastSegmentFree
<1>9. PairsLeft /\ BlocksIntact
  BY <1>2, <1>3 DEF PairsLeft, NextIsFree, BlocksIntact
<1>. QED BY <1>4, <1>6, <1>7, <1>8, <1>9 DEF IInv, Tiled

\* A step that leaves the list alone only has to keep TypeOK and CallInv, and
\* PairsLeft, which looks at pc and cur.
LEMMA QuietStep ==
    ASSUME IInv, UNCHANGED <<heap, blocks>>, TypeOK', CallInv', PairsLeft'
    PROVE  IInv'
<1>1. HeapTiled' /\ ListEnds' /\ LastSegmentFree'
  BY DEF IInv, Tiled, HeapTiled, ListEnds, LastSegmentFree, End, heap
<1>2. BlocksIntact'
  BY DEF IInv, BlocksIntact, heap
<1>. QED BY <1>1, <1>2 DEF IInv, Tiled

\* Entering kmalloc.
LEMMA KmallocStep ==
    ASSUME IInv, NEW a \in DOMAIN blocks \cup {NULL}, NEW n \in Requests, kmalloc(a, n)
    PROVE  IInv'
<1>1. /\ pc = "idle" /\ pc' = "walk" /\ cur' = heap_start /\ size' = n /\ old' = a
      /\ UNCHANGED <<heap, blocks>> /\ n \in Nat
  BY HeapAssumption DEF kmalloc, Goto
<1>2. TypeOK' /\ CallInv'
  BY <1>1 DEF IInv, Tiled, TypeOK, HeapTiled, CallInv, heap, heap_start
<1>3. PairsLeft'
  BY <1>1 DEF IInv, PairsLeft, NextIsFree, heap
<1>. QED BY <1>1, <1>2, <1>3, QuietStep

\* kmalloc goes on to the next segment, which exists.
LEMMA WalkNextStep ==
    ASSUME IInv, WalkNext
    PROVE  IInv'
<1>1. /\ pc = "walk" /\ pc' = "walk" /\ cur' = hdr[cur].next_hdr
      /\ hdr[cur].next_hdr # NULL /\ UNCHANGED <<heap, blocks, size, old>>
  BY DEF WalkNext, Goto
<1>2. cur' \in DOMAIN hdr
  BY <1>1, Links DEF IInv, CallInv
<1>3. TypeOK' /\ CallInv'
  BY <1>1, <1>2 DEF IInv, Tiled, TypeOK, CallInv, heap
<1>4. PairsLeft'
  BY <1>1 DEF IInv, PairsLeft, NextIsFree, heap
<1>. QED BY <1>1, <1>3, <1>4, QuietStep

\* kmalloc has seen the last segment.
LEMMA WalkEndStep ==
    ASSUME IInv, WalkEnd
    PROVE  IInv'
<1>1. /\ pc = "walk" /\ pc' = "expand" /\ UNCHANGED <<heap, blocks, cur, size, old>>
  BY DEF WalkEnd, Goto
<1>2. TypeOK' /\ CallInv'
  BY <1>1 DEF IInv, Tiled, TypeOK, CallInv, heap
<1>3. PairsLeft'
  BY <1>1 DEF IInv, PairsLeft, NextIsFree, heap
<1>. QED BY <1>1, <1>2, <1>3, QuietStep

\* The first loop of free ends: what is left is the pair before cur.
LEMMA JoinNextDoneStep ==
    ASSUME IInv, JoinNextDone
    PROVE  IInv'
<1>1. /\ pc = "joinNext" /\ pc' = "joinPrev" /\ ~NextIsFree(cur)
      /\ UNCHANGED <<heap, blocks, cur, size, old>>
  BY DEF JoinNextDone, Goto
<1>2. TypeOK' /\ CallInv'
  BY <1>1 DEF IInv, Tiled, TypeOK, CallInv, heap
<1>3. PairsLeft'
  BY <1>1 DEF IInv, PairsLeft, NextIsFree, heap
<1>. QED BY <1>1, <1>2, <1>3, QuietStep

\* The second loop of free ends, and no pair is left.
LEMMA JoinPrevDoneStep ==
    ASSUME IInv, JoinPrevDone
    PROVE  IInv'
<1>1. /\ pc = "joinPrev" /\ pc' = "idle" /\ ~PreviousIsFree(cur)
      /\ UNCHANGED <<heap, blocks, cur, size, old>>
  BY DEF JoinPrevDone, Goto
<1>2. TypeOK' /\ CallInv'
  BY <1>1 DEF IInv, Tiled, TypeOK, CallInv, heap
<1>3. ASSUME NEW a \in DOMAIN hdr, hdr[a].free, NextIsFree(a) PROVE FALSE
  <2>1. hdr[a].next_hdr = cur /\ hdr[a].next_hdr # NULL
    BY <1>1, <1>3 DEF IInv, PairsLeft, NextIsFree
  <2>2. hdr[cur].previous_hdr = a /\ a # NULL
    BY <2>1, Links DEF IInv, NULL
  <2>. QED BY <1>1, <1>3, <2>2 DEF PreviousIsFree
<1>4. PairsLeft'
  BY <1>1, <1>3 DEF PairsLeft, NextIsFree, heap
<1>. QED BY <1>1, <1>2, <1>4, QuietStep

\* EXPAND_HEAP preserves the inductive invariant.
LEMMA ExpandStep ==
    ASSUME IInv, EXPAND_HEAP
    PROVE  IInv'
<1> DEFINE k == PAGE * (size \div PAGE)
<1>0. /\ Tiled /\ last_hdr \in DOMAIN hdr /\ hdr[last_hdr].free /\ k \in Nat
      /\ hdr \in [DOMAIN hdr -> HeaderType]
  <2>1. size \div PAGE \in Nat
    BY HeapAssumption DEF IInv, Tiled, TypeOK
  <2>. QED BY <2>1, HeapAssumption DEF IInv, Tiled, TypeOK, LastSegmentFree
<1>1. /\ pc = "expand" /\ pc' = "walk" /\ hdr' = [hdr EXCEPT ![last_hdr].len = @ + k]
      /\ heap_end' = heap_end + k /\ last_hdr' = last_hdr /\ cur' = heap_start
      /\ UNCHANGED <<blocks, size, old>>
  BY <1>0 DEF EXPAND_HEAP, Goto
<1> HIDE DEF k
<1>2. /\ SameLinks /\ DOMAIN hdr' = DOMAIN hdr
      /\ hdr'[last_hdr].len = hdr[last_hdr].len + k
      /\ \A a \in DOMAIN hdr \ {last_hdr} : hdr'[a].len = hdr[a].len
      /\ \A a \in DOMAIN hdr : hdr'[a].free = hdr[a].free
  BY <1>0, <1>1 DEF SameLinks, HeaderType
<1>3. /\ pc' = "walk" /\ pc = "expand" /\ heap_end' = heap_end + k /\ last_hdr' = last_hdr
      /\ cur' = heap_start /\ UNCHANGED <<blocks, size, old>>
  BY <1>1
<1>4. ListType' /\ HeapTiled' /\ ListEnds'
  BY <1>0, <1>2, <1>3, ExpandTiles
<1>5. TypeOK'
  BY <1>2, <1>3, <1>4 DEF IInv, Tiled, TypeOK, ListType, heap_start
<1>6. CallInv' /\ LastSegmentFree'
  BY <1>0, <1>2, <1>3, <1>4 DEF CallInv, LastSegmentFree, HeapTiled
<1>7. BlocksIntact'
  BY <1>0, <1>2, <1>3 DEF IInv, BlocksIntact
<1>8. PairsLeft'
  <2>1. \A a \in DOMAIN hdr : hdr[a].next_hdr # NULL => hdr[a].next_hdr \in DOMAIN hdr
    BY <1>0, Links
  <2>. QED BY <2>1, <1>2, <1>3 DEF IInv, PairsLeft, NextIsFree, SameLinks
<1>. QED BY <1>4, <1>5, <1>6, <1>7, <1>8 DEF IInv, Tiled

\* free, and the free at the end of krealloc, up to its two loops.
LEMMA ReleaseStep ==
    ASSUME IInv, NEW from \in {"idle", "release"}, NEW s \in DOMAIN blocks, Release(from, s)
    PROVE  IInv'
<1>0. /\ Tiled /\ s \in DOMAIN hdr /\ hdr \in [DOMAIN hdr -> HeaderType]
      /\ last_hdr \in DOMAIN hdr /\ hdr[last_hdr].free
  BY DEF IInv, Tiled, TypeOK, LastSegmentFree
<1>1. /\ pc = from /\ pc' = "joinNext" /\ hdr' = [hdr EXCEPT ![s].free = TRUE]
      /\ blocks' = [b \in DOMAIN blocks \ {s} |-> blocks[b]]
      /\ cur' = s /\ old' = NULL /\ UNCHANGED <<last_hdr, heap_end, size>>
  BY DEF Release, Goto
<1>2. /\ SameLinks /\ DOMAIN hdr' = DOMAIN hdr
      /\ \A a \in DOMAIN hdr : hdr'[a].len = hdr[a].len
      /\ \A a \in DOMAIN hdr \ {s} : hdr'[a].free = hdr[a].free
      /\ hdr'[s].free
  BY <1>0, <1>1 DEF SameLinks, HeaderType
<1>3. /\ pc = from /\ pc' = "joinNext" /\ cur' = s /\ old' = NULL
      /\ UNCHANGED <<last_hdr, heap_end, size>>
      /\ DOMAIN blocks' = DOMAIN blocks \ {s}
      /\ \A b \in DOMAIN blocks' : blocks'[b] = blocks[b]
  BY <1>1
<1>4. ListType' /\ HeapTiled' /\ ListEnds'
  BY <1>0, <1>2, <1>3, MarkTiles
<1>5. TypeOK'
  BY <1>0, <1>2, <1>3, <1>4 DEF IInv, Tiled, TypeOK, ListType
<1>6. CallInv' /\ LastSegmentFree'
  BY <1>0, <1>2, <1>3 DEF CallInv, LastSegmentFree
<1>7. BlocksIntact'
  BY <1>0, <1>2, <1>3 DEF IInv, BlocksIntact
<1>8. PairsLeft'
  <2>1. \A a \in DOMAIN hdr : hdr[a].next_hdr # NULL => hdr[a].next_hdr \in DOMAIN hdr
    BY <1>0, Links
  <2>. QED BY <2>1, <1>2, <1>3 DEF IInv, PairsLeft, NextIsFree, SameLinks
<1>. QED BY <1>4, <1>5, <1>6, <1>7, <1>8 DEF IInv, Tiled

\* kmalloc found its segment and split it.
LEMMA WalkFitStep ==
    ASSUME IInv, WalkFit
    PROVE  IInv'
<1> DEFINE n == cur + HDR + size
<1>0. /\ Tiled /\ cur \in DOMAIN hdr /\ hdr[cur].free /\ size \in Nat
      /\ hdr[cur].len > size + HDR /\ last_hdr \in DOMAIN hdr
  BY DEF IInv, Tiled, TypeOK, CallInv, WalkFit, Fits, Goto
<1>1. /\ pc = "walk" /\ pc' \in {"idle", "release"}
      /\ pc' = "release" => old # NULL
      /\ DOMAIN blocks' = DOMAIN blocks \cup {cur}
      /\ blocks'[cur] = size
      /\ \A a \in DOMAIN blocks \ {cur} : blocks'[a] = blocks[a]
      /\ UNCHANGED <<heap_end, cur, size, old>>
  BY DEF WalkFit, Goto
<1>2. SPLIT_HEAP_SEGMENT(cur, size)
  BY DEF WalkFit
<1>3. /\ ListType' /\ HeapTiled' /\ ListEnds'
      /\ DOMAIN hdr' = DOMAIN hdr \cup {n} /\ n \notin DOMAIN hdr
      /\ \A a \in DOMAIN hdr : a # cur => /\ hdr'[a].len = hdr[a].len
                                          /\ hdr'[a].free = hdr[a].free
                                          /\ hdr'[a].next_hdr = hdr[a].next_hdr
      /\ hdr'[cur].len = size /\ ~hdr'[cur].free /\ hdr'[cur].next_hdr = n
      /\ hdr'[n].free /\ hdr'[n].next_hdr = hdr[cur].next_hdr
      /\ last_hdr' = IF cur = last_hdr THEN n ELSE last_hdr
  BY <1>0, <1>1, <1>2, SplitTiles
<1> HIDE DEF n
<1>4. TypeOK'
  BY <1>0, <1>1, <1>3 DEF IInv, Tiled, TypeOK, ListType
<1>5. CallInv' /\ LastSegmentFree'
  BY <1>0, <1>1, <1>3 DEF IInv, CallInv, LastSegmentFree
<1>6. BlocksIntact'
  BY <1>0, <1>1, <1>3 DEF IInv, BlocksIntact
<1>7. ASSUME NEW a \in DOMAIN hdr', hdr'[a].free, NextIsFree(a)' PROVE FALSE
  <2>1. NextIsFree(a)' = (hdr'[a].next_hdr # NULL /\ hdr'[hdr'[a].next_hdr].free)
    BY DEF NextIsFree
  <2>2. \A b \in DOMAIN hdr : hdr[b].next_hdr # NULL =>
            hdr[b].next_hdr \in DOMAIN hdr /\ (hdr[b].free => ~hdr[hdr[b].next_hdr].free)
    <3>1. \A b \in DOMAIN hdr : hdr[b].free => ~NextIsFree(b)
      BY <1>1 DEF IInv, PairsLeft
    <3>2. \A b \in DOMAIN hdr : hdr[b].next_hdr # NULL => hdr[b].next_hdr \in DOMAIN hdr
      BY <1>0, Links
    <3>. QED BY <3>1, <3>2 DEF NextIsFree
  <2>3. CASE a = n
    <3>1. /\ hdr'[n].next_hdr = hdr[cur].next_hdr
          /\ hdr[cur].next_hdr # NULL /\ hdr'[hdr[cur].next_hdr].free
      BY <2>1, <2>3, <1>3, <1>7
    <3>2. hdr[cur].next_hdr \in DOMAIN hdr /\ ~hdr[hdr[cur].next_hdr].free
      BY <2>2, <3>1, <1>0
    <3>3. hdr[cur].next_hdr # cur
      BY <3>2, <1>0
    <3>4. hdr'[hdr[cur].next_hdr].free = hdr[hdr[cur].next_hdr].free
      BY <3>2, <3>3, <1>3
    <3>. QED BY <3>1, <3>2, <3>4
  <2>4. CASE a \in DOMAIN hdr
    <3>1. a # cur /\ hdr'[a].next_hdr = hdr[a].next_hdr /\ hdr[a].free
      BY <2>4, <1>3, <1>7
    <3>2. PICK m \in DOMAIN hdr : m = hdr[a].next_hdr /\ hdr'[m].free /\ ~hdr[m].free
      BY <2>1, <2>2, <2>4, <3>1, <1>7
    <3>3. m # cur
      BY <3>2, <1>0
    <3>. QED BY <3>2, <3>3, <1>3
  <2>. QED BY <2>3, <2>4, <1>3
<1>8. PairsLeft'
  BY <1>7 DEF PairsLeft
<1>. QED BY <1>3, <1>4, <1>5, <1>6, <1>8 DEF IInv, Tiled

\* Joining two free segments keeps everything but the place in the loops.
LEMMA JoinKeeps ==
    ASSUME IInv, NEW seg \in DOMAIN hdr, hdr[seg].free, NextIsFree(seg),
           JOIN_HEAP_NEXT_SEGMENT(seg),
           UNCHANGED <<heap_end, blocks, size, old>>,
           pc' \in {"joinNext", "joinPrev"}, cur' = seg
    PROVE  /\ Tiled' /\ CallInv' /\ BlocksIntact' /\ LastSegmentFree'
           /\ seg \in DOMAIN hdr'
           /\ DOMAIN hdr' = DOMAIN hdr \ {hdr[seg].next_hdr}
           /\ \A a \in DOMAIN hdr' : /\ a # seg => hdr'[a].next_hdr = hdr[a].next_hdr
                                     /\ hdr'[a].free = hdr[a].free
           /\ hdr'[seg].next_hdr = hdr[hdr[seg].next_hdr].next_hdr
<1>p. PICK n : n = hdr[seg].next_hdr
  OBVIOUS
<1>0. n # NULL /\ hdr[n].free /\ Tiled
  BY <1>p DEF NextIsFree, IInv
<1>1. /\ ListType' /\ HeapTiled' /\ ListEnds'
      /\ n \in DOMAIN hdr /\ n # seg /\ DOMAIN hdr' = DOMAIN hdr \ {n}
      /\ \A a \in DOMAIN hdr' : /\ a # seg => /\ hdr'[a].len = hdr[a].len
                                              /\ hdr'[a].next_hdr = hdr[a].next_hdr
                                /\ hdr'[a].free = hdr[a].free
      /\ hdr'[seg].next_hdr = hdr[n].next_hdr
      /\ last_hdr' = seg \/ last_hdr' = last_hdr
  BY <1>0, <1>p, JoinTiles
<1>2. BlocksIntact' /\ DOMAIN blocks \subseteq DOMAIN hdr'
  BY <1>0, <1>1 DEF IInv, BlocksIntact
<1>3. TypeOK'
  BY <1>0, <1>1, <1>2 DEF Tiled, TypeOK, ListType
<1>4. CallInv'
  BY <1>1 DEF CallInv
<1>5. LastSegmentFree'
  BY <1>1 DEF IInv, LastSegmentFree, ListType
<1>. QED BY <1>p, <1>1, <1>2, <1>3, <1>4, <1>5 DEF Tiled

\* One iteration of the first loop of free.
LEMMA JoinNextStep ==
    ASSUME IInv, JoinNext
    PROVE  IInv'
<1>1. /\ NextIsFree(cur) /\ pc = "joinNext" /\ pc' = "joinNext"
      /\ JOIN_HEAP_NEXT_SEGMENT(cur) /\ UNCHANGED <<heap_end, blocks, cur, size, old>>
      /\ cur \in DOMAIN hdr /\ hdr[cur].free /\ Tiled
  BY DEF JoinNext, Goto, IInv, CallInv
<1>2. /\ Tiled' /\ CallInv' /\ BlocksIntact' /\ LastSegmentFree'
      /\ DOMAIN hdr' = DOMAIN hdr \ {hdr[cur].next_hdr}
      /\ \A a \in DOMAIN hdr' : /\ a # cur => hdr'[a].next_hdr = hdr[a].next_hdr
                                /\ hdr'[a].free = hdr[a].free
  BY <1>1, JoinKeeps
<1>3. PairsLeft'
  <2> SUFFICES ASSUME NEW a \in DOMAIN hdr', hdr'[a].free, a # cur,
                      hdr'[a].next_hdr # NULL, hdr'[hdr'[a].next_hdr].free
               PROVE  hdr'[a].next_hdr = cur
    BY <1>1 DEF PairsLeft, NextIsFree
  <2>1. hdr'[a].next_hdr \in DOMAIN hdr'
    BY <1>2 DEF Tiled, HeapTiled
  <2>2. hdr'[a].next_hdr = hdr[a].next_hdr /\ hdr[a].free /\ a \in DOMAIN hdr
    BY <1>2
  <2>3. NextIsFree(a)
    BY <2>1, <2>2, <1>2 DEF NextIsFree
  <2>. QED BY <2>2, <2>3, <1>1 DEF IInv, PairsLeft
<1>. QED BY <1>2, <1>3 DEF IInv

\* One iteration of the second loop of free.
LEMMA JoinPrevStep ==
    ASSUME IInv, JoinPrev
    PROVE  IInv'
<1>p. PICK p : p = hdr[cur].previous_hdr
  OBVIOUS
<1>1. /\ PreviousIsFree(cur) /\ pc = "joinPrev" /\ pc' = "joinPrev" /\ cur' = p
      /\ JOIN_HEAP_NEXT_SEGMENT(p) /\ UNCHANGED <<heap_end, blocks, size, old>>
      /\ cur \in DOMAIN hdr /\ hdr[cur].free /\ Tiled
  BY <1>p DEF JoinPrev, Goto, IInv, CallInv
<1>2. p \in DOMAIN hdr /\ hdr[p].free /\ hdr[p].next_hdr = cur /\ cur # NULL
  <2>1. p # NULL /\ hdr[p].free
    BY <1>1, <1>p DEF PreviousIsFree
  <2>2. cur # NULL
    BY <1>1 DEF Tiled, TypeOK, NULL
  <2>. QED BY <2>1, <2>2, <1>1, <1>p, Links
<1>3. /\ Tiled' /\ CallInv' /\ BlocksIntact' /\ LastSegmentFree'
      /\ DOMAIN hdr' = DOMAIN hdr \ {cur}
      /\ \A a \in DOMAIN hdr' : /\ a # p => hdr'[a].next_hdr = hdr[a].next_hdr
                                /\ hdr'[a].free = hdr[a].free
      /\ hdr'[p].next_hdr = hdr[cur].next_hdr
  <2>1. NextIsFree(p)
    BY <1>1, <1>2 DEF NextIsFree
  <2>. QED BY <2>1, <1>1, <1>2, JoinKeeps
<1>4. PairsLeft'
  <2> SUFFICES ASSUME NEW a \in DOMAIN hdr', hdr'[a].free,
                      hdr'[a].next_hdr # NULL, hdr'[hdr'[a].next_hdr].free
               PROVE  hdr'[a].next_hdr = p
    BY <1>1 DEF PairsLeft, NextIsFree
  <2>1. hdr'[a].next_hdr \in DOMAIN hdr' /\ hdr[hdr'[a].next_hdr].free
    BY <1>3 DEF Tiled, HeapTiled
  <2>2. CASE a # p
    <3>1. hdr'[a].next_hdr = hdr[a].next_hdr /\ hdr[a].free /\ a \in DOMAIN hdr
      BY <2>2, <1>3
    <3>2. hdr[a].next_hdr = cur
      BY <3>1, <2>1, <1>1 DEF IInv, PairsLeft, NextIsFree
    <3>. QED BY <3>1, <3>2, <2>1, <1>3
  <2>3. CASE a = p
    <3>1. hdr[cur].next_hdr # NULL /\ NextIsFree(cur)
      BY <2>1, <2>3, <1>3 DEF NextIsFree
    <3>2. hdr[cur].next_hdr = cur
      BY <3>1, <1>1 DEF IInv, PairsLeft
    <3>. QED BY <3>2, <2>1, <2>3, <1>3
  <2>. QED BY <2>2, <2>3
<1>. QED BY <1>3, <1>4 DEF IInv

\* Every step preserves the inductive invariant.
LEMMA NextIInv == IInv /\ [Next]_vars => IInv'
<1> SUFFICES ASSUME IInv, [Next]_vars PROVE IInv'
  OBVIOUS
<1>1. ASSUME NEW n \in Requests, kmalloc(NULL, n) PROVE IInv'
  BY <1>1, KmallocStep
<1>2. ASSUME NEW a \in DOMAIN blocks, free(a) PROVE IInv'
  BY <1>2, ReleaseStep DEF free
<1>3. ASSUME NEW a \in DOMAIN blocks, NEW n \in Requests, krealloc(a, n) PROVE IInv'
  BY <1>3, KmallocStep, ReleaseStep DEF krealloc, free
<1>4. ASSUME ReallocFree PROVE IInv'
  <2>1. old \in DOMAIN blocks
    BY <1>4 DEF IInv, Tiled, TypeOK, CallInv, ReallocFree, Release, Goto
  <2>. QED BY <1>4, <2>1, ReleaseStep DEF ReallocFree
<1>5. CASE UNCHANGED vars
  BY <1>5, QuietStep DEF vars, heap, IInv, Tiled, TypeOK, CallInv, PairsLeft, NextIsFree
<1>. QED BY <1>1, <1>2, <1>3, <1>4, <1>5, WalkFitStep, WalkNextStep, WalkEndStep,
            ExpandStep, JoinNextStep, JoinNextDoneStep, JoinPrevStep, JoinPrevDoneStep
         DEF Next, Call, Step

\* The inductive invariant holds in every reachable state.
LEMMA Invariance == Spec => []IInv
BY InitIInv, NextIInv, PTL DEF Spec

-----------------------------------------------------------------------------
\* Type correctness of the heap: every link is NULL or an address, and the
\* block krealloc is about to free is one a caller holds.
THEOREM TypeCorrect == Spec => []TypeOK
<1>1. IInv => TypeOK
  BY DEF IInv, Tiled
<1>. QED BY <1>1, Invariance, PTL

\* Whatever is allocated and freed, the segment list tiles the heap.
THEOREM ListCorrect == Spec => []HeapTiled
<1>1. IInv => HeapTiled
  BY DEF IInv, Tiled
<1>. QED BY <1>1, Invariance, PTL

\* Callers' blocks are the segments in use, with the lengths asked for; as
\* segments do not overlap (ListCorrect), neither do blocks.
THEOREM BlocksCorrect == Spec => []BlocksIntact
<1>1. IInv => BlocksIntact
  BY DEF IInv
<1>. QED BY <1>1, Invariance, PTL

\* EXPAND_HEAP always finds a free last segment: "err" is never printed.
THEOREM ExpandNeverErrs == Spec => []LastSegmentFree
<1>1. IInv => LastSegmentFree
  BY DEF IInv
<1>. QED BY <1>1, Invariance, PTL

\* When free has returned no two free segments are neighbours.
THEOREM FullyJoined == Spec => []NoAdjacentFree
<1>1. IInv => NoAdjacentFree
  BY DEF IInv, PairsLeft, NoAdjacentFree
<1>. QED BY <1>1, Invariance, PTL
=============================================================================
