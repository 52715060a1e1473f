------------------------ MODULE CircularBufferProofs ------------------------
(***************************************************************************)
(* Proofs about CircularBuffer, for any number of callers and any size.    *)
(***************************************************************************)
EXTENDS CircularBuffer, SequenceTheorems, TLAPS

\* What the arguments of a call look like.
LEMMA CallFacts ==
    ASSUME NEW c \in Calls \cup {NoCall}
    PROVE  /\ c.count \in 0..MaxCount
           /\ c.op = "push" => \A j \in 1..c.count : c.items[j] \in Items
<1> USE CircularBufferAssumption
<1>1. CASE c = NoCall
  BY <1>1 DEF NoCall
<1>2. ASSUME NEW s \in ItemSeqs, c = [op |-> "push", items |-> s, count |-> Len(s)]
      PROVE  /\ c.count \in 0..MaxCount
             /\ \A j \in 1..c.count : c.items[j] \in Items
  <2>1. PICK k \in 0..MaxCount : s \in [1..k -> Items]
    BY <1>2 DEF ItemSeqs
  <2>2. Len(s) = k
    BY <2>1
  <2> QED
    BY <1>2, <2>1, <2>2
<1>3. ASSUME NEW k \in 0..MaxCount, c = [op |-> "pop", items |-> <<>>, count |-> k]
      PROVE  c.count \in 0..MaxCount /\ c.op # "push"
  BY <1>3
<1> QED
  BY <1>1, <1>2, <1>3 DEF Calls

\* Arithmetic modulo the ring's size and the word size.
LEMMA ModRange == ASSUME NEW x \in Int, NEW m \in Nat \ {0}
                  PROVE  x % m \in 0..(m - 1)
OBVIOUS

LEMMA NextSlot == \A x \in Slots : (x + 1) % MaxSize \in Slots
BY CircularBufferAssumption, ModRange DEF Slots

LEMMA FunctionIsSeq ==
    ASSUME NEW S, NEW n \in Nat, NEW f \in [1 .. n -> S]
    PROVE  f \in Seq(S) /\ Len(f) = n
OBVIOUS

\* A sequence is a concatenation, or a part of another, if its items are.
LEMMA ConcatIs ==
    ASSUME NEW S, NEW c \in Seq(S), NEW q \in Seq(S), NEW r \in Seq(S),
           Len(c) = Len(q) + Len(r), \A i \in 1 .. Len(q) : c[i] = q[i],
           \A j \in 1 .. Len(r) : c[Len(q) + j] = r[j]
    PROVE  c = q \o r
<1>0. PICK n \in Nat, d \in Nat : n = Len(q) /\ d = Len(r)
  OBVIOUS
<1>a. \A j \in 1 .. d : c[n + j] = r[j]
  BY <1>0
<1>1. /\ q \o r \in Seq(S) /\ Len(q \o r) = n + d
      /\ \A i \in 1 .. (n + d) : (q \o r)[i] = IF i <= n THEN q[i] ELSE r[i - n]
  BY <1>0, ConcatProperties
<1>2. ASSUME NEW i \in 1 .. (n + d) PROVE c[i] = (q \o r)[i]
  <2>1. CASE i <= n
    BY <1>0, <1>1, <2>1
  <2>2. CASE i > n
    <3>1. i - n \in 1 .. d /\ n + (i - n) = i /\ ~(i <= n)
      BY <2>2
    <3>2. c[n + (i - n)] = r[i - n]
      BY <1>a, <3>1
    <3> QED
      BY <1>1, <3>1, <3>2
  <2>3. i <= n \/ i > n
    OBVIOUS
  <2> QED
    BY <2>1, <2>2, <2>3, Zenon
<1> QED
  BY <1>0, <1>1, <1>2, SeqEqual

LEMMA SubSeqIs ==
    ASSUME NEW S, NEW c \in Seq(S), NEW q \in Seq(S), NEW a \in Nat, NEW b \in Nat,
           a <= b, b <= Len(q), Len(c) = b - a, \A j \in 1 .. (b - a) : c[j] = q[a + j]
    PROVE  c = SubSeq(q, a + 1, b)
<1>1. \A i \in (a + 1) .. b : q[i] \in S
  BY ElementOfSeq
<1>2. /\ SubSeq(q, a + 1, b) \in Seq(S)
      /\ Len(SubSeq(q, a + 1, b)) = b - a
      /\ \A i \in 1 .. (b - a) : SubSeq(q, a + 1, b)[i] = q[a + i]
  <2>1. a + 1 \in Int /\ b \in Int
    OBVIOUS
  <2>2. /\ SubSeq(q, a + 1, b) \in Seq(S)
        /\ Len(SubSeq(q, a + 1, b)) = IF a + 1 <= b THEN b - (a + 1) + 1 ELSE 0
        /\ \A i \in 1 .. (b - (a + 1) + 1) : SubSeq(q, a + 1, b)[i] = q[(a + 1) + i - 1]
    BY <1>1, <2>1, SubSeqProperties
  <2>3. b - (a + 1) + 1 = b - a /\ \A i \in 1 .. (b - a) : (a + 1) + i - 1 = a + i
    OBVIOUS
  <2> QED
    BY <2>2, <2>3
<1> QED
  BY <1>2, SeqEqual

-----------------------------------------------------------------------------
(* Types. *)

\* done counts up to count, and is below it inside the loop body.
LoopInv ==
    \A t \in Callers :
        /\ done[t] <= call[t].count
        /\ pc[t] \in {"copy", "count"} => done[t] < call[t].count
        /\ pc[t] \in {"idle", "load", "cas", "miss", "begin"} => done[t] = 0

TypeInv == TypeOK /\ LoopInv

LEMMA TypeInit == Init => TypeInv
<1> SUFFICES ASSUME Init PROVE TypeInv
  OBVIOUS
<1> USE CircularBufferAssumption DEF Init, cb_init
<1>1. size \in Sizes /\ head \in Slots /\ tail \in Slots /\ 0 \in 0..MaxCount
  BY DEF Sizes, Slots
<1>2. locked \in BOOLEAN /\ expected_false \in BOOLEAN /\ exp \in [Callers -> BOOLEAN]
  OBVIOUS
<1>3. /\ data \in [Slots -> Items \cup {NoItem}]
      /\ call \in [Callers -> Calls \cup {NoCall}]
      /\ idx \in [Callers -> Slots]
      /\ done \in [Callers -> 0..MaxCount]
  BY <1>1
<1>4. LoopInv
  BY DEF LoopInv, NoCall
<1> QED
  BY <1>1, <1>2, <1>3, <1>4 DEF TypeInv, TypeOK

LEMMA TypeStep == TypeInv /\ [Next]_vars => TypeInv'
<1> SUFFICES ASSUME TypeInv, [Next]_vars PROVE TypeInv'
  OBVIOUS
<1> USE CircularBufferAssumption DEF TypeInv, TypeOK, LoopInv, Goto, cb
<1>1. ASSUME NEW t \in Callers, Invoke(t) PROVE TypeInv'
  <2>1. PICK c \in Calls : call' = [call EXCEPT ![t] = c]
    BY <1>1 DEF Invoke
  <2>2. c.count \in 0..MaxCount
    BY CallFacts
  <2>3. TypeOK'
    <3>1. contended' \in BOOLEAN
      BY <1>1, Zenon DEF Invoke
    <3>2. /\ pc' = [pc EXCEPT ![t] = "load"]
          /\ UNCHANGED <<cb, expected_false, exp, idx, done>>
      BY <1>1 DEF Invoke
    <3> QED
      BY <2>1, <3>1, <3>2
  <2>4. LoopInv'
    BY <1>1, <2>1, <2>2 DEF Invoke
  <2> QED
    BY <2>3, <2>4
<1>2. ASSUME NEW t \in Callers, LoadExpected(t) PROVE TypeInv'
  BY <1>2 DEF LoadExpected
<1>3. ASSUME NEW t \in Callers, CasHit(t) PROVE TypeInv'
  BY <1>3 DEF CasHit
<1>4. ASSUME NEW t \in Callers, CasMiss(t) PROVE TypeInv'
  BY <1>4 DEF CasMiss
<1>5. ASSUME NEW t \in Callers, StoreExpected(t) PROVE TypeInv'
  BY <1>5 DEF StoreExpected
<1>6. ASSUME NEW t \in Callers, Begin(t) PROVE TypeInv'
  BY <1>6 DEF Begin
<1>7. ASSUME NEW t \in Callers, Check(t) PROVE TypeInv'
  <2>1. call[t].count \in 0..MaxCount
    BY CallFacts
  <2> QED
    BY <1>7, <2>1 DEF Check
<1>8. ASSUME NEW t \in Callers, CopyIn(t) PROVE TypeInv'
  <2>1. /\ call[t].count \in 0..MaxCount
        /\ \A j \in 1..call[t].count : call[t].items[j] \in Items
    BY <1>8, CallFacts DEF CopyIn
  <2>2. call[t].items[done[t] + 1] \in Items
    <3>1. done[t] \in Nat /\ done[t] < call[t].count
      BY <1>8 DEF CopyIn
    <3>2. done[t] + 1 \in 1..call[t].count
      BY <2>1, <3>1
    <3> QED
      BY <2>1, <3>2
  <2>3. (idx[t] + 1) % MaxSize \in Slots
    BY NextSlot
  <2>4. data' \in [Slots -> Items \cup {NoItem}] /\ idx' \in [Callers -> Slots]
    BY <1>8, <2>2, <2>3 DEF CopyIn
  <2>5. pc[t] = "copy" /\ pc' = [pc EXCEPT ![t] = "count"]
    BY <1>8 DEF CopyIn
  <2>6. UNCHANGED <<size, head, tail, locked, expected_false, call, exp, done, contended>>
    BY <1>8 DEF CopyIn
  <2> QED
    BY <2>4, <2>5, <2>6
<1>9. ASSUME NEW t \in Callers, CopyOut(t) PROVE TypeInv'
  <2>1. (idx[t] + 1) % MaxSize \in Slots
    BY NextSlot
  <2>2. idx' \in [Callers -> Slots]
    BY <1>9, <2>1 DEF CopyOut
  <2>3. pc[t] = "copy" /\ pc' = [pc EXCEPT ![t] = "count"]
    BY <1>9 DEF CopyOut
  <2>4. UNCHANGED <<data, size, head, tail, locked, expected_false, call, exp, done, contended>>
    BY <1>9 DEF CopyOut
  <2> QED
    BY <2>2, <2>3, <2>4
<1>10. ASSUME NEW t \in Callers, Count(t) PROVE TypeInv'
  <2>1. call[t].count \in 0..MaxCount
    BY CallFacts
  <2>2. size' \in Sizes
    <3>1. size \in Int
      BY DEF Sizes
    <3> QED
      BY <1>10, <3>1, ModRange DEF Count, Sizes
  <2>3. done' = [done EXCEPT ![t] = done[t] + 1] /\ done[t] + 1 \in 0..MaxCount
    BY <1>10, <2>1 DEF Count
  <2>4. pc[t] = "count" /\ pc' = [pc EXCEPT ![t] = "check"]
    BY <1>10 DEF Count
  <2>5. UNCHANGED <<data, head, tail, locked, expected_false, call, exp, idx, contended>>
    BY <1>10 DEF Count
  <2>6. TypeOK'
    BY <2>2, <2>3, <2>4, <2>5
  <2>7. LoopInv'
    BY <2>1, <2>3, <2>4, <2>5
  <2> QED
    BY <2>6, <2>7
<1>11. ASSUME NEW t \in Callers, StoreIndex(t) PROVE TypeInv'
  BY <1>11 DEF StoreIndex
<1>12. ASSUME NEW t \in Callers, Unlock(t) PROVE TypeInv'
  <2>1. /\ call' = [call EXCEPT ![t] = NoCall] /\ done' = [done EXCEPT ![t] = 0]
        /\ pc' = [pc EXCEPT ![t] = "idle"] /\ locked' = FALSE
        /\ idx' = [idx EXCEPT ![t] = 0]
        /\ UNCHANGED <<data, size, head, tail, expected_false, exp, contended>>
    BY <1>12 DEF Unlock
  <2>2. /\ call' \in [Callers -> Calls \cup {NoCall}] /\ locked' \in BOOLEAN
        /\ done' \in [Callers -> 0..MaxCount] /\ idx' \in [Callers -> Slots]
    <3> HIDE DEF LoopInv
    <3>1. call' \in [Callers -> Calls \cup {NoCall}]
      BY <2>1
    <3>2. done' \in [Callers -> 0..MaxCount]
      <4>1. 0 \in 0..MaxCount
        OBVIOUS
      <4> QED
        BY <2>1, <4>1
    <3>3. locked' \in BOOLEAN
      BY <2>1, Zenon
    <3>4. idx' \in [Callers -> Slots]
      <4>1. 0 \in Slots
        BY DEF Slots
      <4> QED
        BY <2>1, <4>1
    <3> QED
      BY <3>1, <3>2, <3>3, <3>4
  <2>3. TypeOK'
    BY <2>1, <2>2
  <2>4. LoopInv'
    BY <2>1 DEF NoCall
  <2> QED
    BY <2>3, <2>4
<1>13. CASE UNCHANGED vars
  BY <1>13 DEF vars
<1> QED
  BY <1>1, <1>2, <1>3, <1>4, <1>5, <1>6, <1>7, <1>8, <1>9, <1>10, <1>11, <1>12, <1>13
     DEF Next, Step

\* However cb_push and cb_pop interrupt each other, and although the lock does
\* not keep them apart, no index leaves the buffer's memory.
THEOREM TypeCorrect == Spec => []TypeOK
<1>1. TypeInv => TypeOK
  BY DEF TypeInv
<1> QED
  BY <1>1, TypeInit, TypeStep, PTL DEF Spec

-----------------------------------------------------------------------------
(* Interrupts off. *)

\* At most one caller is anywhere inside; then the lock word is taken exactly
\* in the critical section and the exchange always finds what it expects.
AloneInv ==
    /\ \A t, u \in Callers : pc[t] # "idle" /\ pc[u] # "idle" => t = u
    /\ expected_false = FALSE
    /\ \A t \in Callers :
          /\ pc[t] = "cas" => exp[t] = FALSE
          /\ pc[t] # "miss"
    /\ locked => \E t \in Callers : InCritical(t)

LEMMA AloneStep ==
    ASSUME Masked = Callers
    PROVE  TypeInv /\ AloneInv /\ [Next]_vars => AloneInv'
<1> SUFFICES ASSUME TypeInv, AloneInv, [Next]_vars PROVE AloneInv'
  OBVIOUS
<1> USE DEF TypeInv, TypeOK, AloneInv, InCritical, Goto, CanRun, cb
<1>1. ASSUME NEW t \in Callers, Invoke(t) PROVE AloneInv'
  BY <1>1 DEF Invoke
<1>2. ASSUME NEW t \in Callers, LoadExpected(t) PROVE AloneInv'
  BY <1>2 DEF LoadExpected
<1>3. ASSUME NEW t \in Callers, CasHit(t) PROVE AloneInv'
  BY <1>3 DEF CasHit
<1>4. ASSUME NEW t \in Callers, CasMiss(t) PROVE AloneInv'
  <2>1. locked
    BY <1>4 DEF CasMiss
  <2>2. PICK u \in Callers : InCritical(u)
    BY <2>1
  <2> QED
    BY <1>4, <2>2 DEF CasMiss
<1>5. ASSUME NEW t \in Callers, StoreExpected(t) PROVE AloneInv'
  BY <1>5 DEF StoreExpected
<1>6. ASSUME NEW t \in Callers, Begin(t) PROVE AloneInv'
  BY <1>6 DEF Begin
<1>7. ASSUME NEW t \in Callers, Check(t) PROVE AloneInv'
  BY <1>7 DEF Check
<1>8. ASSUME NEW t \in Callers, CopyIn(t) PROVE AloneInv'
  BY <1>8 DEF CopyIn
<1>9. ASSUME NEW t \in Callers, CopyOut(t) PROVE AloneInv'
  BY <1>9 DEF CopyOut
<1>10. ASSUME NEW t \in Callers, Count(t) PROVE AloneInv'
  BY <1>10 DEF Count
<1>11. ASSUME NEW t \in Callers, StoreIndex(t) PROVE AloneInv'
  BY <1>11 DEF StoreIndex
<1>12. ASSUME NEW t \in Callers, Unlock(t) PROVE AloneInv'
  BY <1>12 DEF Unlock
<1>13. CASE UNCHANGED vars
  BY <1>13 DEF vars
<1> QED
  BY <1>1, <1>2, <1>3, <1>4, <1>5, <1>6, <1>7, <1>8, <1>9, <1>10, <1>11, <1>12, <1>13
     DEF Next, Step

\* When every caller runs with interrupts off, the mutual exclusion that the
\* lock fails to give holds anyway.
THEOREM MaskedExclusion == Masked = Callers => (Spec => []MutualExclusion)
<1> SUFFICES ASSUME Masked = Callers PROVE Spec => []MutualExclusion
  OBVIOUS
<1>1. Init => AloneInv
  BY DEF Init, cb_init, AloneInv
<1>2. AloneInv => MutualExclusion
  BY DEF AloneInv, MutualExclusion, InCritical
<1>3. TypeInv /\ AloneInv /\ [Next]_vars => AloneInv'
  BY AloneStep
<1> QED
  BY <1>1, <1>2, <1>3, TypeInit, TypeStep, PTL DEF Spec

-----------------------------------------------------------------------------
(* The ring's bookkeeping, as long as no call interrupts another. *)

\* One wrap is all that happens.
SlotAt(x) == IF x < MaxSize THEN x ELSE x - MaxSize

LEMMA ModSmall == ASSUME NEW m \in Nat \ {0}, NEW x \in 0 .. (m + m - 1)
                  PROVE  x % m = IF x < m THEN x ELSE x - m
OBVIOUS

LEMMA SlotMod == \A x \in 0 .. (MaxSize + MaxSize - 1) : x % MaxSize = SlotAt(x)
BY CircularBufferAssumption, ModSmall DEF SlotAt

InLoop(t) == pc[t] \in {"check", "copy", "count", "store"}

\* Between the copy and the count the local index is one ahead.
Ahead(t) == IF pc[t] = "count" THEN 1 ELSE 0

\* What the open call has counted in size and not yet published.
PushHalfDone(t) ==
    /\ done[t] <= size
    /\ tail = SlotAt(head + (size - done[t]))
    /\ idx[t] = SlotAt(head + size + Ahead(t))
    /\ pc[t] \in {"copy", "count"} => size < MaxSize

PopHalfDone(t) ==
    /\ done[t] + size <= MaxSize
    /\ tail = SlotAt(head + size + done[t])
    /\ idx[t] = SlotAt(head + done[t] + Ahead(t))
    /\ pc[t] \in {"copy", "count"} => size > 0

HalfDone(t) == IF call[t].op = "push" THEN PushHalfDone(t) ELSE PopHalfDone(t)

RingInv ==
    /\ \A t, u \in Callers : pc[t] # "idle" /\ pc[u] # "idle" => t = u
    /\ size \in 0 .. MaxSize
    /\ \A t \in Callers : InLoop(t) => HalfDone(t)
    /\ (\A t \in Callers : ~InLoop(t)) => tail = SlotAt(head + size)

UncontendedInv == ~contended => RingInv

LEMMA RingStep == TypeInv /\ UncontendedInv /\ [Next]_vars => UncontendedInv'
<1> SUFFICES ASSUME TypeInv, UncontendedInv, [Next]_vars, ~contended' PROVE RingInv'
  BY DEF UncontendedInv
<1>0. ~contended
  BY DEF Next, Step, Invoke, LoadExpected, CasHit, CasMiss, StoreExpected, Begin, Check,
         CopyIn, CopyOut, Count, StoreIndex, Unlock, vars
<1>a. RingInv /\ TypeInv'
  BY <1>0, TypeStep DEF UncontendedInv
<1>b. /\ MaxSize \in Nat \ {0} /\ Wrap \in Nat /\ MaxSize < Wrap /\ MaxCount \in Nat
      /\ head \in 0 .. (MaxSize - 1) /\ tail \in 0 .. (MaxSize - 1)
      /\ \A t \in Callers : done[t] \in 0..MaxCount /\ idx[t] \in 0 .. (MaxSize - 1)
  BY CircularBufferAssumption DEF TypeInv, TypeOK, Slots
<1>c. \A t \in Callers : InLoop(t) => HalfDone(t)
  BY <1>a DEF RingInv
<1>d. ASSUME NEW t \in Callers, pc[t] # "idle", \A u \in Callers \ {t} : pc'[u] = pc[u],
             size' \in 0 .. MaxSize, InLoop(t)' => HalfDone(t)',
             ~InLoop(t)' => tail' = SlotAt(head' + size')
      PROVE  RingInv'
  BY <1>a, <1>d DEF RingInv, InLoop
<1>e. ASSUME NEW t \in Callers, pc[t] # "idle", ~InLoop(t)
      PROVE  tail = SlotAt(head + size)
  BY <1>a, <1>e DEF RingInv, InLoop
<1>f. /\ size \in 0 .. MaxSize
      /\ pc \in [Callers -> {"idle", "load", "cas", "miss", "begin", "check",
                             "copy", "count", "store", "unlock"}]
  BY <1>a DEF RingInv, TypeInv, TypeOK
<1>1. ASSUME NEW t \in Callers, Invoke(t) PROVE RingInv'
  <2>1. /\ \A u \in Callers : pc[u] = "idle"
        /\ pc' = [pc EXCEPT ![t] = "load"] /\ UNCHANGED <<size, head, tail>>
    BY <1>1 DEF Invoke, Goto, cb
  <2> QED
    BY <1>a, <1>f, <2>1 DEF RingInv, InLoop
<1>2. ASSUME NEW t \in Callers, LoadExpected(t) \/ CasHit(t) \/ CasMiss(t) \/ StoreExpected(t)
      PROVE  RingInv'
  <2>1. /\ pc[t] # "idle" /\ ~InLoop(t) /\ ~InLoop(t)'
        /\ \A u \in Callers \ {t} : pc'[u] = pc[u]
        /\ UNCHANGED <<size, head, tail>>
    BY <1>2, <1>f DEF LoadExpected, CasHit, CasMiss, StoreExpected, Goto, InLoop, cb
  <2> QED
    BY <1>d, <1>e, <1>f, <2>1
<1>3. ASSUME NEW t \in Callers, Begin(t) PROVE RingInv'
  <2>1. /\ pc[t] = "begin" /\ pc' = [pc EXCEPT ![t] = "check"]
        /\ idx'[t] = IF call[t].op = "push" THEN tail ELSE head
        /\ UNCHANGED <<size, head, tail, call, done>>
    BY <1>3 DEF Begin, Goto, cb, TypeInv, TypeOK
  <2>2. done[t] = 0 /\ pc'[t] = "check"
    BY <1>f, <2>1 DEF TypeInv, LoopInv
  <2>3. tail = SlotAt(head + size)
    BY <1>e, <2>1 DEF InLoop
  <2>4. HalfDone(t)'
    BY <1>b, <1>f, <2>1, <2>2, <2>3 DEF HalfDone, PushHalfDone, PopHalfDone, SlotAt, Ahead
  <2> QED
    BY <1>d, <1>f, <2>1, <2>2, <2>4 DEF InLoop
<1>4. ASSUME NEW t \in Callers, Check(t) PROVE RingInv'
  <2>1. /\ pc[t] = "check" /\ UNCHANGED <<size, head, tail, call, done, idx>>
        /\ \A u \in Callers \ {t} : pc'[u] = pc[u]
        /\ \/ pc'[t] = "store"
           \/ pc'[t] = "copy" /\ ~Exhausted(t)
    BY <1>4, <1>f DEF Check, Goto, cb
  <2>2. HalfDone(t)
    BY <1>c, <2>1 DEF InLoop
  <2>3. HalfDone(t)'
    BY <1>b, <1>f, <2>1, <2>2
       DEF Exhausted, HalfDone, PushHalfDone, PopHalfDone, SlotAt, Ahead
  <2> QED
    BY <1>d, <1>f, <2>1, <2>3 DEF InLoop
<1>5. ASSUME NEW t \in Callers, CopyIn(t) \/ CopyOut(t) PROVE RingInv'
  <2>1. /\ pc[t] = "copy" /\ pc' = [pc EXCEPT ![t] = "count"]
        /\ idx' = [idx EXCEPT ![t] = (idx[t] + 1) % MaxSize]
        /\ UNCHANGED <<size, head, tail, call, done>>
    BY <1>5 DEF CopyIn, CopyOut, Goto, cb
  <2>2. HalfDone(t) /\ pc'[t] = "count"
    BY <1>c, <1>f, <2>1 DEF InLoop
  <2>3. idx'[t] = SlotAt(idx[t] + 1)
    BY <1>b, <2>1, SlotMod DEF TypeInv, TypeOK
  <2>4. HalfDone(t)'
    <3>1. CASE call[t].op = "push"
      BY <1>b, <1>f, <2>1, <2>2, <2>3, <3>1 DEF HalfDone, PushHalfDone, SlotAt, Ahead
    <3>2. CASE call[t].op # "push"
      BY <1>b, <1>f, <2>1, <2>2, <2>3, <3>2 DEF HalfDone, PopHalfDone, SlotAt, Ahead
    <3> QED
      BY <3>1, <3>2
  <2> QED
    BY <1>d, <1>f, <2>1, <2>2, <2>4 DEF InLoop
<1>6. ASSUME NEW t \in Callers, Count(t) PROVE RingInv'
  <2>1. \A x \in 0 .. MaxSize : x % Wrap = x
    <3> TAKE x \in 0 .. MaxSize
    <3>1. Wrap \in Nat \ {0} /\ x \in 0 .. (Wrap + Wrap - 1) /\ x < Wrap
      BY <1>b
    <3> QED
      BY <3>1, ModSmall
  <2>2. /\ pc[t] = "count" /\ pc' = [pc EXCEPT ![t] = "check"]
        /\ size' = (IF call[t].op = "push" THEN size + 1 ELSE size - 1) % Wrap
        /\ done' = [done EXCEPT ![t] = done[t] + 1]
        /\ UNCHANGED <<head, tail, call, idx>>
    BY <1>6 DEF Count, Goto
  <2>3. HalfDone(t) /\ pc'[t] = "check" /\ done'[t] = done[t] + 1
    BY <1>c, <1>f, <2>2 DEF InLoop, TypeInv, TypeOK
  <2>4. size' \in 0 .. MaxSize /\ HalfDone(t)'
    <3>1. CASE call[t].op = "push"
      <4>1. size' = size + 1 /\ size + 1 \in 0 .. MaxSize
        <5>1. size < MaxSize
          BY <2>2, <2>3, <3>1 DEF HalfDone, PushHalfDone
        <5> QED
          BY <1>b, <1>f, <2>1, <2>2, <3>1, <5>1
      <4> QED
        BY <1>b, <1>f, <2>2, <2>3, <3>1, <4>1 DEF HalfDone, PushHalfDone, SlotAt, Ahead
    <3>2. CASE call[t].op # "push"
      <4>1. size' = size - 1 /\ size - 1 \in 0 .. MaxSize
        <5>1. size > 0
          BY <2>2, <2>3, <3>2 DEF HalfDone, PopHalfDone
        <5> QED
          BY <1>b, <1>f, <2>1, <2>2, <3>2, <5>1
      <4> QED
        BY <1>b, <1>f, <2>2, <2>3, <3>2, <4>1 DEF HalfDone, PopHalfDone, SlotAt, Ahead
    <3> QED
      BY <3>1, <3>2
  <2> QED
    BY <1>d, <1>f, <2>2, <2>3, <2>4 DEF InLoop
<1>7. ASSUME NEW t \in Callers, StoreIndex(t) PROVE RingInv'
  <2>1. /\ pc[t] = "store" /\ pc' = [pc EXCEPT ![t] = "unlock"] /\ size' = size
        /\ IF call[t].op = "push" THEN tail' = idx[t] /\ head' = head
                                  ELSE head' = idx[t] /\ tail' = tail
    BY <1>7 DEF StoreIndex, Goto
  <2>2. HalfDone(t) /\ pc'[t] = "unlock"
    BY <1>c, <1>f, <2>1 DEF InLoop
  <2>3. tail' = SlotAt(head' + size')
    BY <1>b, <1>f, <2>1, <2>2 DEF HalfDone, PushHalfDone, PopHalfDone, SlotAt, Ahead
  <2> QED
    BY <1>d, <1>f, <2>1, <2>2, <2>3 DEF InLoop
<1>8. ASSUME NEW t \in Callers, Unlock(t) PROVE RingInv'
  <2>1. /\ pc[t] = "unlock" /\ pc' = [pc EXCEPT ![t] = "idle"]
        /\ UNCHANGED <<size, head, tail>>
    BY <1>8 DEF Unlock, Goto
  <2> QED
    BY <1>d, <1>e, <1>f, <2>1 DEF InLoop
<1>9. CASE UNCHANGED vars
  BY <1>9, <1>a DEF vars, cb, RingInv, HalfDone, PushHalfDone, PopHalfDone, InLoop, Ahead
<1> QED
  BY <1>1, <1>2, <1>3, <1>4, <1>5, <1>6, <1>7, <1>8, <1>9 DEF Next, Step

\* As long as no call interrupts another, size, head and tail describe the same
\* stretch of the ring, in the middle of a call too, for every ring size.
THEOREM RingCorrect == Spec => []RingConsistent
<1>1. Init => UncontendedInv
  BY CircularBufferAssumption
     DEF Init, cb_init, UncontendedInv, RingInv, InLoop, SlotAt
<1>2. TypeInv /\ UncontendedInv => RingConsistent
  <2> SUFFICES ASSUME TypeInv, RingInv, ~contended
               PROVE  /\ Committed \in 0..MaxSize
                      /\ (head + Committed) % MaxSize = tail
                      /\ size <= MaxSize
    BY DEF UncontendedInv, RingConsistent
  <2>0. /\ MaxSize \in Nat \ {0} /\ head \in 0 .. (MaxSize - 1) /\ size \in 0..MaxSize
        /\ \A t \in Callers : done[t] \in Nat
    BY CircularBufferAssumption DEF TypeInv, TypeOK, Slots, RingInv
  <2> DEFINE Busy == {t \in Callers : Unpublished(t) > 0}
  <2>1. CASE Busy = {}
    <3>1. Committed = size
      BY <2>1 DEF Committed
    <3>2. tail = SlotAt(head + size)
      BY <2>0, <2>1 DEF RingInv, InLoop, Unpublished, HalfDone, PushHalfDone, PopHalfDone
    <3> QED
      BY <2>0, <3>1, <3>2, SlotMod
  <2>2. CASE Busy # {}
    <3>1. PICK t \in Callers : t \in Busy /\ InLoop(t) /\ HalfDone(t)
      BY <2>0, <2>2 DEF RingInv, InLoop, Unpublished
    <3>2. Busy = {t}
      BY <3>1 DEF RingInv, Unpublished, InLoop
    <3>3. Committed = IF call[t].op = "push" THEN size - done[t] ELSE size + done[t]
      <4>1. (CHOOSE u \in Busy : TRUE) = t
        BY <3>2
      <4> QED
        BY <2>2, <4>1 DEF Committed
    <3>4. Committed \in 0..MaxSize /\ tail = SlotAt(head + Committed)
      BY <2>0, <3>1, <3>3 DEF HalfDone, PushHalfDone, PopHalfDone
    <3> QED
      BY <2>0, <3>4, SlotMod
  <2> QED
    BY <2>1, <2>2
<1> QED
  BY <1>1, <1>2, TypeInit, TypeStep, RingStep, PTL DEF Spec

-----------------------------------------------------------------------------
(* The items, as long as no call interrupts another. *)

\* A caller that is not inside has no call open, and has copied nothing out
\* before it is in the loop.
CallInv ==
    /\ got \in [Callers -> Seq(Items \cup {NoItem})]
    /\ \A t \in Callers :
          /\ pc[t] = "idle" => call[t] = NoCall
          /\ pc[t] # "idle" => call[t] \in Calls
          /\ pc[t] \in {"idle", "load", "cas", "miss", "begin"} => got[t] = <<>>

\* The items the open call has copied: into the ring behind the committed ones,
\* or out of its head.
Copied(t) == done[t] + Ahead(t)

PushCopied(t) ==
    \A j \in 1 .. Copied(t) :
        data[SlotAt(head + (size - done[t]) + (j - 1))] = call[t].items[j]

PopCopied(t) ==
    /\ Len(got[t]) = Copied(t)
    /\ \A j \in 1 .. Copied(t) : got[t][j] = data[SlotAt(head + (j - 1))]

\* The loop ends when everything is transferred or nothing more can be.
LoopOver(t) == pc[t] = "store" => done[t] = call[t].count \/ Exhausted(t)

CopiedInv ==
    \A t \in Callers : InLoop(t) => /\ LoopOver(t)
                                    /\ call[t].op = "push" => PushCopied(t)
                                    /\ call[t].op # "push" => PopCopied(t)

ItemsInv == CallInv /\ (~contended => CopiedInv)

LEMMA CallStep == TypeInv /\ CallInv /\ [Next]_vars => CallInv'
<1> SUFFICES ASSUME TypeInv, CallInv, [Next]_vars PROVE CallInv'
  OBVIOUS
<1>a. /\ pc \in [Callers -> {"idle", "load", "cas", "miss", "begin", "check",
                             "copy", "count", "store", "unlock"}]
      /\ call \in [Callers -> Calls \cup {NoCall}]
  BY DEF TypeInv, TypeOK
<1>b. got \in [Callers -> Seq(Items \cup {NoItem})]
  BY DEF CallInv
<1>1. ASSUME NEW t \in Callers, Invoke(t) PROVE CallInv'
  <2>1. PICK c \in Requests[t] : call' = [call EXCEPT ![t] = c]
    BY <1>1 DEF Invoke
  <2>2. c \in Calls
    BY CircularBufferAssumption
  <2>3. /\ pc[t] = "idle" /\ pc' = [pc EXCEPT ![t] = "load"] /\ got' = got
    BY <1>1 DEF Invoke, Goto
  <2> QED
    BY <1>a, <1>b, <2>1, <2>2, <2>3 DEF CallInv
<1>2. ASSUME NEW t \in Callers, LoadExpected(t) \/ CasHit(t) \/ CasMiss(t) \/ StoreExpected(t)
      PROVE  CallInv'
  <2>1. /\ pc[t] \in {"load", "cas", "miss"}
        /\ \E l \in {"cas", "begin", "miss", "load"} : pc' = [pc EXCEPT ![t] = l]
        /\ UNCHANGED <<call, got>>
    BY <1>2 DEF LoadExpected, CasHit, CasMiss, StoreExpected, Goto
  <2> QED
    BY <1>a, <1>b, <2>1 DEF CallInv
<1>3. ASSUME NEW t \in Callers, Begin(t) \/ Check(t) \/ CopyIn(t) \/ Count(t) \/ StoreIndex(t)
      PROVE  CallInv'
  <2>1. /\ pc[t] # "idle" /\ UNCHANGED <<call, got>>
        /\ \E l \in {"check", "store", "copy", "count", "unlock"} : pc' = [pc EXCEPT ![t] = l]
    BY <1>3 DEF Begin, Check, CopyIn, Count, StoreIndex, Goto
  <2> QED
    BY <1>a, <1>b, <2>1 DEF CallInv
<1>4. ASSUME NEW t \in Callers, CopyOut(t) PROVE CallInv'
  <2>1. /\ pc[t] = "copy" /\ pc' = [pc EXCEPT ![t] = "count"] /\ call' = call
        /\ got' = [got EXCEPT ![t] = Append(got[t], data[idx[t]])]
    BY <1>4 DEF CopyOut, Goto
  <2>2. data[idx[t]] \in Items \cup {NoItem}
    BY DEF TypeInv, TypeOK
  <2>3. Append(got[t], data[idx[t]]) \in Seq(Items \cup {NoItem})
    BY <1>b, <2>2
  <2>4. got' \in [Callers -> Seq(Items \cup {NoItem})]
    BY <1>b, <2>1, <2>3
  <2>5. \A u \in Callers \ {t} : got'[u] = got[u] /\ pc'[u] = pc[u]
    BY <1>a, <1>b, <2>1
  <2>6. pc'[t] = "count"
    BY <1>a, <2>1
  <2> QED
    BY <2>1, <2>4, <2>5, <2>6 DEF CallInv
<1>5. ASSUME NEW t \in Callers, Unlock(t) PROVE CallInv'
  <2>1. /\ pc' = [pc EXCEPT ![t] = "idle"] /\ call' = [call EXCEPT ![t] = NoCall]
        /\ got' = [got EXCEPT ![t] = <<>>]
    BY <1>5 DEF Unlock, Goto
  <2>2. <<>> \in Seq(Items \cup {NoItem})
    OBVIOUS
  <2> QED
    BY <1>a, <1>b, <2>1, <2>2 DEF CallInv
<1>6. CASE UNCHANGED vars
  BY <1>6 DEF vars, CallInv
<1> QED
  BY <1>1, <1>2, <1>3, <1>4, <1>5, <1>6 DEF Next, Step

\* Different places of a stretch of at most MaxSize items are different slots.
LEMMA SlotFacts ==
    ASSUME NEW h \in Slots, NEW a \in Slots
    PROVE  /\ SlotAt(h + a) \in Slots
           /\ \A b \in Slots : SlotAt(h + a) = SlotAt(h + b) => a = b
           /\ \A b \in Slots : a + b < MaxSize
                                  => SlotAt(SlotAt(h + a) + b) = SlotAt(h + a + b)
BY CircularBufferAssumption DEF Slots, SlotAt

\* Only one caller is inside, so that a step only has to be right for it.
LEMMA OneInside ==
    ASSUME RingInv', NEW t \in Callers, pc'[t] # "idle",
           InLoop(t)' => /\ LoopOver(t)'
                         /\ call'[t].op = "push" => PushCopied(t)'
                         /\ call'[t].op # "push" => PopCopied(t)'
    PROVE  CopiedInv'
<1>1. \A u \in Callers : u # t => ~InLoop(u)'
  BY DEF RingInv, InLoop
<1> QED
  BY <1>1 DEF CopiedInv

\* An item is copied into the slot behind those that are there.
LEMMA CopyInKeeps ==
    ASSUME TypeInv, RingInv, CopiedInv, NEW t \in Callers, CopyIn(t)
    PROVE  PushCopied(t)'
<1>1. /\ pc[t] = "copy" /\ pc' = [pc EXCEPT ![t] = "count"] /\ call[t].op = "push"
      /\ data' = [data EXCEPT ![idx[t]] = call[t].items[done[t] + 1]]
      /\ UNCHANGED <<size, head, done, call>>
  BY DEF CopyIn, Goto
<1>2. PushCopied(t) /\ PushHalfDone(t) /\ pc'[t] = "count"
  BY <1>1 DEF CopiedInv, RingInv, InLoop, HalfDone, TypeInv, TypeOK
<1>3. Ahead(t) = 0 /\ Ahead(t)' = 1 /\ size < MaxSize /\ done[t] <= size
  BY <1>1, <1>2 DEF Ahead, PushHalfDone
<1> DEFINE d == done[t]
           i == call[t].items
<1>4. /\ MaxSize \in Nat \ {0} /\ head \in Slots /\ size \in Nat /\ d \in Nat
      /\ data \in [Slots -> Items \cup {NoItem}] /\ idx[t] \in Slots
  BY CircularBufferAssumption DEF TypeInv, TypeOK, RingInv
<1>b. head \in Int
  BY <1>4 DEF Slots
<1>5. idx[t] = SlotAt(head + size) /\ Copied(t) = d /\ Copied(t)' = d + 1
  <2>1. head + size + 0 = head + size
    BY <1>4, <1>b
  <2> QED
    BY <1>1, <1>3, <1>2, <1>4, <2>1 DEF PushHalfDone, Copied
<1>6. ASSUME NEW j \in 1 .. (d + 1)
      PROVE  data'[SlotAt(head + (size - d) + (j - 1))] = i[j]
  <2>0. j \in Int /\ d \in Int /\ size \in Int /\ 1 <= j /\ j <= d + 1
    BY <1>4
  <2>1. PICK a \in Int : a = (size - d) + (j - 1) /\ head + (size - d) + (j - 1) = head + a
    <3> HIDE DEF d
    <3> QED
      BY <1>b, <2>0
  <2>2. a \in Slots /\ size \in Slots /\ (a = size <=> j = d + 1)
    <3>1. MaxSize \in Int /\ 0 <= size /\ size < MaxSize /\ d <= size
      BY <1>3, <1>4
    <3> HIDE DEF d
    <3>2. /\ 0 <= a /\ a <= MaxSize - 1 /\ 0 <= size /\ size <= MaxSize - 1
          /\ (a = size <=> j = d + 1)
      BY <2>0, <2>1, <3>1
    <3> QED
      BY <2>0, <3>1, <3>2 DEF Slots
  <2>3. SlotAt(head + a) \in Slots /\ (SlotAt(head + a) = idx[t] => a = size)
    BY <1>4, <1>5, <2>2, SlotFacts
  <2>4. CASE j = d + 1
    BY <1>1, <1>4, <1>5, <2>1, <2>2, <2>3, <2>4
  <2>5. CASE j # d + 1
    <3>1. data'[SlotAt(head + a)] = data[SlotAt(head + a)]
      BY <1>1, <1>4, <2>2, <2>3, <2>5
    <3>2. j \in 1 .. Copied(t)
      BY <1>4, <1>5, <2>5
    <3> QED
      BY <1>2, <2>1, <3>1, <3>2 DEF PushCopied
  <2> QED
    BY <2>4, <2>5
<1> QED
  BY <1>1, <1>5, <1>6 DEF PushCopied

\* An item is copied from the first slot not yet copied.
LEMMA CopyOutKeeps ==
    ASSUME TypeInv, CallInv, RingInv, CopiedInv, NEW t \in Callers, CopyOut(t)
    PROVE  PopCopied(t)'
<1>1. /\ pc[t] = "copy" /\ pc' = [pc EXCEPT ![t] = "count"] /\ call[t].op # "push"
      /\ got' = [got EXCEPT ![t] = Append(got[t], data[idx[t]])]
      /\ UNCHANGED <<data, size, head, done, call>>
  BY DEF CopyOut, Goto, cb
<1>2. PopCopied(t) /\ PopHalfDone(t) /\ pc'[t] = "count"
  BY <1>1 DEF CopiedInv, RingInv, InLoop, HalfDone, TypeInv, TypeOK
<1>3. Ahead(t) = 0 /\ Ahead(t)' = 1
  BY <1>1, <1>2 DEF Ahead
<1> DEFINE d == done[t]
           g == got[t]
<1>4. d \in Nat /\ head \in Int
  BY DEF TypeInv, TypeOK, Slots
<1>5. idx[t] = SlotAt(head + d) /\ Copied(t) = d /\ Copied(t)' = d + 1
  BY <1>1, <1>3, <1>2, <1>4 DEF PopHalfDone, Copied
<1>6. /\ got'[t] = Append(g, data[idx[t]]) /\ g \in Seq(Items \cup {NoItem}) /\ Len(g) = d
      /\ data[idx[t]] \in Items \cup {NoItem}
  BY <1>1, <1>2, <1>5 DEF CallInv, PopCopied, TypeInv, TypeOK
<1>7. Len(got'[t]) = d + 1 /\ got'[t][d + 1] = data[idx[t]]
      /\ \A j \in 1 .. d : got'[t][j] = g[j]
  BY <1>6
<1>8. ASSUME NEW j \in 1 .. (d + 1) PROVE got'[t][j] = data[SlotAt(head + (j - 1))]
  <2>1. CASE j = d + 1
    <3>1. j - 1 = d
      BY <1>4, <2>1
    <3> QED
      BY <1>5, <1>7, <2>1, <3>1
  <2>2. CASE j # d + 1
    <3>1. j \in 1 .. d
      BY <1>4, <2>2
    <3> QED
      BY <1>2, <1>5, <1>7, <3>1 DEF PopCopied
  <2> QED
    BY <2>1, <2>2
<1> QED
  BY <1>1, <1>5, <1>7, <1>8 DEF PopCopied

\* Counting an item makes it one of the d items that are counted.
LEMMA CountKeeps ==
    ASSUME TypeInv, RingInv, CopiedInv, NEW t \in Callers, Count(t)
    PROVE  /\ call[t].op = "push" => PushCopied(t)'
           /\ call[t].op # "push" => PopCopied(t)'
<1>1. /\ pc[t] = "count" /\ pc' = [pc EXCEPT ![t] = "check"]
      /\ size' = (IF call[t].op = "push" THEN size + 1 ELSE size - 1) % Wrap
      /\ done' = [done EXCEPT ![t] = done[t] + 1]
      /\ UNCHANGED <<data, head, call, got>>
  BY DEF Count, Goto
<1>2. /\ call[t].op = "push" => PushCopied(t) /\ PushHalfDone(t)
      /\ call[t].op # "push" => PopCopied(t)
      /\ pc'[t] = "check" /\ done'[t] = done[t] + 1 /\ done[t] \in Nat
  BY <1>1 DEF CopiedInv, RingInv, InLoop, HalfDone, TypeInv, TypeOK
<1>3. Copied(t)' = Copied(t)
  BY <1>1, <1>2 DEF Copied, Ahead
<1>4. CASE call[t].op = "push"
  <2>1. size' = size + 1 /\ size \in Nat
    <3>1. size + 1 \in Nat /\ size + 1 < Wrap /\ Wrap \in Nat \ {0} /\ size \in Nat
      BY <1>1, <1>2, <1>4, CircularBufferAssumption DEF PushHalfDone, RingInv
    <3>2. (size + 1) % Wrap = size + 1
      <4>1. size + 1 \in 0 .. (Wrap + Wrap - 1)
        BY <3>1
      <4> QED
        BY <3>1, <4>1, ModSmall
    <3> QED
      BY <1>1, <1>4, <3>1, <3>2
  <2>2. size' - done'[t] = size - done[t]
    BY <1>2, <2>1
  <2> QED
    BY <1>1, <1>2, <1>3, <1>4, <2>2 DEF PushCopied
<1>5. CASE call[t].op # "push"
  BY <1>1, <1>2, <1>3, <1>5 DEF PopCopied
<1> QED
  BY <1>4, <1>5

LEMMA CopiedStep ==
    ASSUME TypeInv, RingInv, CallInv, CopiedInv, RingInv', [Next]_vars
    PROVE  CopiedInv'
<1>a. pc \in [Callers -> {"idle", "load", "cas", "miss", "begin", "check",
                          "copy", "count", "store", "unlock"}]
  BY DEF TypeInv, TypeOK
<1>1. ASSUME NEW t \in Callers,
             Invoke(t) \/ LoadExpected(t) \/ CasHit(t) \/ CasMiss(t) \/ StoreExpected(t)
             \/ StoreIndex(t)
      PROVE  CopiedInv'
  <2>1. \E l \in {"load", "cas", "miss", "begin", "unlock"} : pc' = [pc EXCEPT ![t] = l]
    BY <1>1 DEF Invoke, LoadExpected, CasHit, CasMiss, StoreExpected, StoreIndex, Goto
  <2>2. pc'[t] # "idle" /\ ~InLoop(t)'
    BY <1>a, <2>1 DEF InLoop
  <2> QED
    BY <2>2, OneInside
<1>2. ASSUME NEW t \in Callers, Begin(t) PROVE CopiedInv'
  <2>1. /\ pc[t] = "begin" /\ pc'[t] = "check" /\ UNCHANGED <<got, done>>
    BY <1>2, <1>a DEF Begin, Goto
  <2>2. done[t] = 0 /\ got[t] = <<>>
    BY <2>1 DEF TypeInv, LoopInv, CallInv
  <2>3. Copied(t)' = 0 /\ Len(got'[t]) = 0
    BY <2>1, <2>2 DEF Copied, Ahead
  <2>4. PushCopied(t)' /\ PopCopied(t)' /\ LoopOver(t)'
    BY <2>1, <2>3 DEF PushCopied, PopCopied, LoopOver
  <2> QED
    BY <2>1, <2>4, OneInside
<1>3. ASSUME NEW t \in Callers, Check(t) PROVE CopiedInv'
  <2>1. /\ pc[t] = "check" /\ UNCHANGED <<data, size, head, got, done, call>>
        /\ pc'[t] = IF done[t] = call[t].count \/ Exhausted(t) THEN "store" ELSE "copy"
    BY <1>3, <1>a DEF Check, Goto, cb
  <2>2. /\ call[t].op = "push" => PushCopied(t)
        /\ call[t].op # "push" => PopCopied(t)
    BY <2>1 DEF CopiedInv, InLoop
  <2>3. Copied(t)' = Copied(t)
    BY <2>1 DEF Copied, Ahead
  <2>4. /\ call'[t].op = "push" => PushCopied(t)'
        /\ call'[t].op # "push" => PopCopied(t)'
    BY <2>1, <2>2, <2>3 DEF PushCopied, PopCopied
  <2>5. LoopOver(t)'
    BY <2>1 DEF LoopOver, Exhausted
  <2> QED
    BY <2>1, <2>4, <2>5, OneInside
<1>4. ASSUME NEW t \in Callers, CopyIn(t) PROVE CopiedInv'
  <2>1. pc'[t] = "count" /\ call[t].op = "push" /\ call' = call
    BY <1>4, <1>a DEF CopyIn, Goto
  <2> QED
    BY <1>4, <2>1, CopyInKeeps, OneInside DEF LoopOver
<1>5. ASSUME NEW t \in Callers, CopyOut(t) PROVE CopiedInv'
  <2>1. pc'[t] = "count" /\ call[t].op # "push" /\ call' = call
    BY <1>5, <1>a DEF CopyOut, Goto
  <2> QED
    BY <1>5, <2>1, CopyOutKeeps, OneInside DEF LoopOver
<1>6. ASSUME NEW t \in Callers, Count(t) PROVE CopiedInv'
  <2>1. pc'[t] = "check" /\ call' = call
    BY <1>6, <1>a DEF Count, Goto
  <2> QED
    BY <1>6, <2>1, CountKeeps, OneInside DEF LoopOver
<1>7. ASSUME NEW t \in Callers, Unlock(t) PROVE CopiedInv'
  <2>1. pc[t] = "unlock" /\ pc' = [pc EXCEPT ![t] = "idle"]
    BY <1>7 DEF Unlock, Goto
  <2>2. \A u \in Callers : ~InLoop(u)'
    BY <1>a, <2>1 DEF RingInv, InLoop
  <2> QED
    BY <2>2 DEF CopiedInv
<1>8. CASE UNCHANGED vars
  BY <1>8 DEF vars, cb, CopiedInv, InLoop, LoopOver, Exhausted, PushCopied, PopCopied,
              Copied, Ahead
<1> QED
  BY <1>1, <1>2, <1>3, <1>4, <1>5, <1>6, <1>7, <1>8 DEF Next, Step

-----------------------------------------------------------------------------
(* The buffer implements the bounded queue. *)

\* The committed items, with the wrap written out.
CommittedIs ==
    /\ Committed \in 0 .. MaxSize
    /\ (\A t \in Callers : ~InLoop(t)) => Committed = size
    /\ \A t \in Callers :
          InLoop(t) => Committed = IF call[t].op = "push" THEN size - done[t]
                                                          ELSE size + done[t]
    /\ Contents = [i \in 1 .. Committed |-> data[SlotAt(head + (i - 1))]]

LEMMA CommittedFacts == TypeInv /\ RingInv => CommittedIs
<1> SUFFICES ASSUME TypeInv, RingInv PROVE CommittedIs
  OBVIOUS
<1>0. /\ MaxSize \in Nat \ {0} /\ head \in 0 .. (MaxSize - 1) /\ size \in 0..MaxSize
      /\ \A t \in Callers : done[t] \in Nat
  BY CircularBufferAssumption DEF TypeInv, TypeOK, Slots, RingInv
<1> DEFINE Busy == {t \in Callers : Unpublished(t) > 0}
<1>1. Busy = {} => Committed = size
  BY DEF Committed
<1>2. ASSUME NEW t \in Callers, InLoop(t)
      PROVE  /\ Committed = IF call[t].op = "push" THEN size - done[t] ELSE size + done[t]
             /\ Committed \in 0 .. MaxSize
  <2>1. HalfDone(t) /\ \A u \in Callers \ {t} : Unpublished(u) = 0
    BY <1>2 DEF RingInv, InLoop, Unpublished
  <2>2. Unpublished(t) = done[t]
    BY <1>2 DEF InLoop, Unpublished
  <2>3. CASE done[t] = 0
    <3>1. Busy = {}
      BY <2>1, <2>2, <2>3
    <3> QED
      BY <1>0, <1>1, <2>3, <3>1
  <2>4. CASE done[t] > 0
    <3>1. Busy = {t}
      BY <2>1, <2>2, <2>4
    <3>2. (CHOOSE u \in Busy : TRUE) = t
      BY <3>1
    <3>3. Committed = IF call[t].op = "push" THEN size - done[t] ELSE size + done[t]
      BY <3>1, <3>2 DEF Committed
    <3> QED
      BY <1>0, <2>1, <3>3 DEF HalfDone, PushHalfDone, PopHalfDone
  <2> QED
    BY <1>0, <2>3, <2>4
<1>3. (\A t \in Callers : ~InLoop(t)) => Committed = size
  BY <1>1 DEF InLoop, Unpublished
<1>4. Committed \in 0 .. MaxSize
  BY <1>0, <1>2, <1>3
<1>5. ASSUME NEW i \in 1 .. Committed
      PROVE  (head + i - 1) % MaxSize = SlotAt(head + (i - 1))
  <2>1. PICK n \in Int : n = Committed
    BY <1>4
  <2>2. head + i - 1 = head + (i - 1) /\ head + i - 1 \in 0 .. (MaxSize + MaxSize - 1)
    BY <1>0, <1>4, <2>1
  <2> QED
    BY <2>2, SlotMod
<1>6. Contents = [i \in 1 .. Committed |-> data[SlotAt(head + (i - 1))]]
  BY <1>5 DEF Contents
<1> QED
  BY <1>2, <1>3, <1>4, <1>6 DEF CommittedIs

\* Nobody has taken effect and not returned.
NonePending == [u \in Callers |-> [taken |-> FALSE, items |-> <<>>]]

LEMMA NoneTaken ==
    (contended \/ \A u \in Callers : pc[u] # "unlock") => AbstractRes = NonePending
BY DEF AbstractRes, NonePending

\* What holds before and after a step that no call overlaps.
Sound == TypeInv /\ RingInv /\ CallInv /\ CopiedInv /\ ~contended

\* A call begins while none is open.
LEMMA InvokeSimulates ==
    ASSUME Sound, Sound', NEW t \in Callers, Invoke(t)
    PROVE  Fifo!Invoke(t)
<1>1. PICK c \in Calls : call' = [call EXCEPT ![t] = c]
  BY CircularBufferAssumption DEF Invoke
<1>2. /\ \A u \in Callers : pc[u] = "idle"
      /\ pc' = [pc EXCEPT ![t] = "load"] /\ UNCHANGED <<data, size, head>>
  BY DEF Invoke, Goto, cb, Sound
<1>3. \A u \in Callers : pc'[u] \in {"idle", "load"}
  BY <1>2 DEF Sound, TypeInv, TypeOK
<1>4. AbstractReq = call /\ AbstractReq' = call' /\ \A u \in Callers : call[u] = NoCall
  BY <1>2 DEF AbstractReq, Sound, CallInv
<1>5. Fifo!Open = {}
  BY <1>4 DEF Fifo!Open, Fifo!NoCall, NoCall
<1>6. c \in Fifo!Calls
  BY DEF Calls, ItemSeqs, Fifo!Calls, Fifo!ItemSeqs, Fifo!Push, Fifo!Pop
<1>7. AbstractQueue' = AbstractQueue
  <2>1. Unpublished(t)' = 0 /\ \A u \in Callers : Unpublished(u) = 0 /\ Unpublished(u)' = 0
    BY <1>2, <1>3 DEF Unpublished
  <2>2. Committed = size /\ Committed' = size'
    BY <2>1 DEF Committed
  <2> QED
    BY <1>2, <2>2 DEF AbstractQueue, Contents, Sound
<1>8. AbstractRes' = AbstractRes
  <2>1. AbstractRes = NonePending
    BY <1>2, NoneTaken
  <2>2. AbstractRes' = NonePending
    <3>1. \A u \in Callers : pc'[u] # "unlock"
      BY <1>3
    <3> QED
      BY <3>1 DEF AbstractRes, NonePending
  <2> QED
    BY <2>1, <2>2
<1>9. contended' = contended
  BY DEF Sound, TypeInv, TypeOK
<1> QED
  BY <1>1, <1>4, <1>5, <1>6, <1>7, <1>8, <1>9 DEF Fifo!Invoke, Sound

\* The queue is the same while its head, its length and its slots are.
LEMMA SameQueue ==
    ASSUME CommittedIs, CommittedIs', contended' = contended,
           Committed' = Committed, head' = head,
           \A a \in Nat : a < Committed => data'[SlotAt(head + a)] = data[SlotAt(head + a)]
    PROVE  AbstractQueue' = AbstractQueue
<1>1. Committed \in Int
  BY DEF CommittedIs
<1>2. ASSUME NEW i \in 1 .. Committed
      PROVE  data'[SlotAt(head + (i - 1))] = data[SlotAt(head + (i - 1))]
  <2>1. i - 1 \in Nat /\ i - 1 < Committed
    BY <1>1
  <2> QED
    BY <2>1
<1>3. /\ Contents = [i \in 1 .. Committed |-> data[SlotAt(head + (i - 1))]]
      /\ Contents' = [i \in 1 .. Committed |-> data'[SlotAt(head + (i - 1))]]
  BY DEF CommittedIs
<1>4. Contents' = Contents
  BY <1>2, <1>3
<1> QED
  BY <1>4 DEF AbstractQueue

\* Taking the lock, and every turn of the loop up to the publication of the
\* index, leave the abstract queue alone.
LEMMA LoopStutters ==
    ASSUME Sound, Sound', CommittedIs, CommittedIs', NEW t \in Callers,
           \/ LoadExpected(t) \/ CasHit(t) \/ CasMiss(t) \/ StoreExpected(t) \/ Begin(t)
           \/ Check(t) \/ CopyIn(t) \/ CopyOut(t) \/ Count(t)
    PROVE  UNCHANGED Fifo!vars
<1>0. /\ MaxSize \in Nat \ {0} /\ head \in Slots /\ size \in 0..MaxSize /\ done[t] \in Nat
      /\ data \in [Slots -> Items \cup {NoItem}] /\ done \in [Callers -> 0 .. MaxCount]
      /\ pc \in [Callers -> {"idle", "load", "cas", "miss", "begin", "check",
                             "copy", "count", "store", "unlock"}]
  BY CircularBufferAssumption DEF Sound, TypeInv, TypeOK, RingInv
<1>1. /\ pc[t] \in {"load", "cas", "miss", "begin", "check", "copy", "count"}
      /\ \E l \in {"cas", "begin", "miss", "load", "check", "store", "copy", "count"} :
            pc' = [pc EXCEPT ![t] = l]
      /\ head' = head /\ call' = call /\ contended' = contended
  BY DEF LoadExpected, CasHit, CasMiss, StoreExpected, Begin, Check, CopyIn, CopyOut,
         Count, Goto, cb
<1>2. \A u \in Callers : pc[u] # "unlock" /\ pc'[u] # "unlock" /\ (u # t => pc'[u] = "idle")
  BY <1>0, <1>1 DEF Sound, RingInv
<1>3. AbstractRes' = AbstractRes
  <2>1. AbstractRes = NonePending
    BY <1>2, NoneTaken
  <2>2. AbstractRes' = NonePending
    BY <1>2 DEF AbstractRes, NonePending
  <2> QED
    BY <2>1, <2>2
<1>4. AbstractReq' = AbstractReq
  BY <1>1 DEF AbstractReq
<1>5. AbstractQueue' = AbstractQueue
  <2>1. CASE LoadExpected(t) \/ CasHit(t) \/ CasMiss(t) \/ StoreExpected(t)
    <3>1. data' = data /\ size' = size /\ ~InLoop(t) /\ ~InLoop(t)'
      BY <1>0, <2>1 DEF LoadExpected, CasHit, CasMiss, StoreExpected, Goto, cb, InLoop
    <3>2. \A u \in Callers : ~InLoop(u) /\ ~InLoop(u)'
      BY <1>1, <1>2, <3>1 DEF Sound, RingInv, InLoop
    <3> QED
      BY <1>1, <3>1, <3>2, SameQueue DEF CommittedIs
  <2>2. CASE Begin(t)
    <3>1. pc[t] = "begin" /\ pc'[t] = "check" /\ UNCHANGED <<data, size, done>>
      BY <1>0, <2>2 DEF Begin, Goto, cb
    <3>2. done[t] = 0 /\ \A u \in Callers : ~InLoop(u)
      BY <3>1 DEF Sound, TypeInv, LoopInv, RingInv, InLoop
    <3>3. Committed = size /\ Committed' = size
      BY <1>0, <3>1, <3>2 DEF CommittedIs, InLoop
    <3> QED
      BY <1>1, <3>1, <3>3, SameQueue
  <2>3. CASE Check(t) \/ CopyOut(t)
    <3>1. /\ UNCHANGED <<data, size, done>> /\ InLoop(t) /\ InLoop(t)'
      BY <1>0, <2>3 DEF Check, CopyOut, Goto, cb, InLoop
    <3>2. Committed' = Committed
      BY <1>1, <3>1 DEF CommittedIs
    <3> QED
      BY <1>1, <3>1, <3>2, SameQueue
  <2>4. CASE CopyIn(t)
    <3>1. /\ UNCHANGED <<size, done>> /\ InLoop(t) /\ InLoop(t)' /\ pc[t] = "copy"
          /\ data' = [data EXCEPT ![idx[t]] = call[t].items[done[t] + 1]]
          /\ call[t].op = "push"
      BY <1>0, <2>4 DEF CopyIn, Goto, cb, InLoop
    <3>2. Committed' = Committed /\ Committed = size - done[t]
      BY <1>1, <3>1 DEF CommittedIs
    <3>3. /\ idx[t] = SlotAt(head + size + Ahead(t)) /\ Ahead(t) = 0 /\ size < MaxSize
      BY <3>1 DEF Sound, RingInv, HalfDone, PushHalfDone, Ahead
    <3>4. head + size + 0 = head + size /\ size \in Slots
      BY <1>0, <3>3 DEF Slots
    <3>5. ASSUME NEW a \in Nat, a < Committed
          PROVE  data'[SlotAt(head + a)] = data[SlotAt(head + a)]
      <4>1. a \in Slots /\ a # size
        BY <1>0, <3>2, <3>3, <3>5 DEF Slots
      <4>2. SlotAt(head + a) \in Slots /\ SlotAt(head + a) # idx[t]
        BY <1>0, <3>3, <3>4, <4>1, SlotFacts
      <4> QED
        BY <1>0, <3>1, <4>2
    <3> QED
      BY <1>1, <3>2, <3>5, SameQueue
  <2>5. CASE Count(t)
    <3>1. /\ data' = data /\ pc[t] = "count" /\ pc'[t] = "check"
          /\ size' = (IF call[t].op = "push" THEN size + 1 ELSE size - 1) % Wrap
          /\ done'[t] = done[t] + 1
      BY <1>0, <2>5 DEF Count, Goto
    <3>2. size' = IF call[t].op = "push" THEN size + 1 ELSE size - 1
      <4>1. HalfDone(t)
        BY <3>1 DEF Sound, RingInv, InLoop
      <4>2. PICK n \in Int : n = IF call[t].op = "push" THEN size + 1 ELSE size - 1
        BY <1>0
      <4>3. n \in 0 .. MaxSize
        BY <1>0, <3>1, <4>1, <4>2 DEF HalfDone, PushHalfDone, PopHalfDone
      <4>4. Wrap \in Nat \ {0} /\ n \in 0 .. (Wrap + Wrap - 1) /\ n < Wrap
        BY <1>0, <4>3, CircularBufferAssumption
      <4> QED
        BY <3>1, <4>2, <4>4, ModSmall
    <3>3. Committed' = Committed
      <4>1. InLoop(t) /\ InLoop(t)'
        BY <3>1 DEF InLoop
      <4>2. Committed = IF call[t].op = "push" THEN size - done[t] ELSE size + done[t]
        BY <1>1, <4>1 DEF CommittedIs
      <4>3. Committed' = IF call'[t].op = "push" THEN size' - done'[t] ELSE size' + done'[t]
        BY <1>1, <4>1 DEF CommittedIs
      <4>4. call' = call /\ size \in Int /\ done[t] \in Int
        BY <1>0, <1>1
      <4> QED
        BY <3>1, <3>2, <4>2, <4>3, <4>4
    <3> QED
      BY <1>1, <3>1, <3>3, SameQueue
  <2> QED
    BY <2>1, <2>2, <2>3, <2>4, <2>5
<1> QED
  BY <1>1, <1>3, <1>4, <1>5 DEF Fifo!vars

\* The call returns.
LEMMA UnlockSimulates ==
    ASSUME Sound, Sound', CommittedIs, CommittedIs', NEW t \in Callers, Unlock(t)
    PROVE  Fifo!Return(t)
<1>0. pc \in [Callers -> {"idle", "load", "cas", "miss", "begin", "check",
                             "copy", "count", "store", "unlock"}]
  BY DEF Sound, TypeInv, TypeOK
<1>1. /\ pc[t] = "unlock" /\ pc' = [pc EXCEPT ![t] = "idle"]
      /\ call' = [call EXCEPT ![t] = NoCall] /\ UNCHANGED <<data, size, head, contended>>
  BY DEF Unlock, Goto
<1>2. \A u \in Callers : pc'[u] = "idle" /\ (u # t => pc[u] = "idle")
  BY <1>0, <1>1 DEF Sound, RingInv
<1>3. AbstractQueue' = AbstractQueue
  <2>1. Committed = size /\ Committed' = size
    BY <1>1, <1>2 DEF CommittedIs, InLoop
  <2> QED
    BY <1>1, <2>1, SameQueue
<1>4. AbstractReq = call /\ AbstractReq' = call'
  BY DEF AbstractReq, Sound
<1>5. call[t] # NoCall
  <2>1. call[t] \in Calls
    BY <1>1 DEF Sound, CallInv
  <2> QED
    BY <2>1 DEF Calls, NoCall
<1>6. AbstractRes[t].taken = TRUE
  BY <1>1 DEF AbstractRes, Sound
<1>7. AbstractRes' = [AbstractRes EXCEPT ![t] = Fifo!Pending]
  BY <1>1, <1>2 DEF AbstractRes, Fifo!Pending
<1> QED
  BY <1>1, <1>3, <1>4, <1>5, <1>6, <1>7 DEF Fifo!Return, Fifo!Pending, Fifo!NoCall, NoCall

\* Publishing the new tail appends what has been copied in: as many of the
\* call's items as there was room for.
LEMMA PushSimulates ==
    ASSUME Sound, Sound', CommittedIs, CommittedIs', NEW t \in Callers, StoreIndex(t),
           call[t].op = "push"
    PROVE  Fifo!DoPush(t)
<1> DEFINE d == done[t]
           V == Items \cup {NoItem}
<1>0. /\ MaxSize \in Nat \ {0} /\ head \in Slots /\ size \in 0..MaxSize /\ d \in Nat
      /\ data \in [Slots -> V] /\ contended' = contended
      /\ pc \in [Callers -> {"idle", "load", "cas", "miss", "begin", "check",
                             "copy", "count", "store", "unlock"}]
  BY CircularBufferAssumption DEF Sound, TypeInv, TypeOK, RingInv
<1>1. /\ pc[t] = "store" /\ pc' = [pc EXCEPT ![t] = "unlock"]
      /\ UNCHANGED <<data, size, head, call, done>>
  BY DEF StoreIndex, Goto
<1>2. /\ \A u \in Callers : pc[u] # "unlock" /\ (u # t => pc'[u] = "idle")
      /\ pc'[t] = "unlock"
  BY <1>0, <1>1 DEF Sound, RingInv
<1>3. PICK m \in 0 .. MaxCount : /\ call[t].items \in [1 .. m -> Items]
                                 /\ call[t].count = m /\ Len(call[t].items) = m
  <2>1. call[t] \in Calls
    BY <1>1 DEF Sound, CallInv
  <2>2. PICK s \in ItemSeqs : call[t] = [op |-> "push", items |-> s, count |-> Len(s)]
    BY <2>1 DEF Calls
  <2>3. PICK m \in 0 .. MaxCount : s \in [1 .. m -> Items]
    BY <2>2 DEF ItemSeqs
  <2>4. Len(s) = m
    BY <2>3
  <2> QED
    BY <2>2, <2>3, <2>4
<1> DEFINE it == call[t].items
<1>4. PICK n \in Nat : n = size - d /\ n + d = size
  BY <1>0, <1>1 DEF Sound, RingInv, InLoop, HalfDone, PushHalfDone
<1>5. Committed = n /\ Committed' = size
  BY <1>1, <1>2, <1>4 DEF CommittedIs, InLoop
<1>6. /\ Contents = [i \in 1 .. n |-> data[SlotAt(head + (i - 1))]]
      /\ Contents' = [i \in 1 .. size |-> data[SlotAt(head + (i - 1))]]
  BY <1>1, <1>5 DEF CommittedIs
<1>7. \A i \in 1 .. size : data[SlotAt(head + (i - 1))] \in V
  <2> TAKE i \in 1 .. size
  <2>1. i - 1 \in Slots
    BY <1>0 DEF Slots
  <2>2. SlotAt(head + (i - 1)) \in Slots
    BY <1>0, <2>1, SlotFacts
  <2> QED
    BY <1>0, <2>2
<1>8. /\ Contents \in Seq(V) /\ Len(Contents) = n
      /\ Contents' \in Seq(V) /\ Len(Contents') = n + d
  <2>1. \A i \in 1 .. n : data[SlotAt(head + (i - 1))] \in V
    BY <1>0, <1>4, <1>7
  <2>2. Contents \in [1 .. n -> V] /\ Contents' \in [1 .. size -> V]
    BY <1>6, <1>7, <2>1
  <2>3. size \in Nat
    BY <1>0
  <2> HIDE DEF V
  <2> QED
    BY <1>4, <2>2, <2>3, FunctionIsSeq
<1>9. d <= m /\ (d = m \/ size = MaxSize)
  <2>1. LoopOver(t) /\ d <= m
    BY <1>1, <1>3 DEF Sound, CopiedInv, InLoop, TypeInv, LoopInv
  <2> QED
    BY <1>1, <1>3, <2>1 DEF LoopOver, Exhausted
<1>10. Fifo!Smaller(m, MaxSize - n) = d
  BY <1>0, <1>4, <1>9 DEF Fifo!Smaller
<1>11. /\ SubSeq(it, 1, d) \in Seq(V) /\ Len(SubSeq(it, 1, d)) = d
       /\ \A j \in 1 .. d : SubSeq(it, 1, d)[j] = it[j]
  <2>1. \A j \in 1 .. d : it[j] \in V
    BY <1>0, <1>3, <1>9
  <2>2. /\ SubSeq(it, 1, d) \in Seq(V)
        /\ Len(SubSeq(it, 1, d)) = IF 1 <= d THEN d - 1 + 1 ELSE 0
        /\ \A j \in 1 .. (d - 1 + 1) : SubSeq(it, 1, d)[j] = it[1 + j - 1]
    BY <1>0, <2>1, SubSeqProperties
  <2>3. d - 1 + 1 = d /\ \A j \in 1 .. d : 1 + j - 1 = j
    BY <1>0
  <2> QED
    BY <1>0, <2>2, <2>3
<1>12. Contents' = Contents \o SubSeq(it, 1, d)
  <2>1. ASSUME NEW i \in 1 .. n PROVE Contents'[i] = Contents[i]
    BY <1>0, <1>4, <1>6
  <2>2. ASSUME NEW j \in 1 .. d PROVE Contents'[n + j] = SubSeq(it, 1, d)[j]
    <3>1. PushCopied(t) /\ Copied(t) = d
      BY <1>0, <1>1 DEF Sound, CopiedInv, InLoop, Copied, Ahead
    <3>2. data[SlotAt(head + (size - d) + (j - 1))] = it[j]
      BY <3>1 DEF PushCopied
    <3>3. head + (size - d) + (j - 1) = head + ((n + j) - 1) /\ n + j \in 1 .. size
      <4>1. head \in Int /\ size \in Int /\ d \in Nat /\ n \in Nat /\ j \in Int /\ j >= 1 /\ j <= d
        BY <1>0, <1>4 DEF Slots
      <4> HIDE DEF d
      <4> QED
        BY <1>4, <4>1
    <3> QED
      BY <1>6, <1>11, <3>2, <3>3
  <2>3. PICK c, q, r : c = Contents' /\ q = Contents /\ r = SubSeq(it, 1, d)
    OBVIOUS
  <2>4. /\ c \in Seq(V) /\ q \in Seq(V) /\ r \in Seq(V)
        /\ Len(c) = n + d /\ Len(q) = n /\ Len(r) = d
    BY <1>8, <1>11, <2>3
  <2>5. /\ \A i \in 1 .. n : c[i] = q[i]
        /\ \A j \in 1 .. d : c[n + j] = r[j]
    BY <2>1, <2>2, <2>3
  <2> HIDE DEF d, V
  <2>6. c = q \o r
    BY <2>4, <2>5, ConcatIs
  <2> QED
    BY <2>3, <2>6
<1>13. /\ AbstractQueue = Contents /\ AbstractQueue' = Contents'
       /\ AbstractReq = call /\ AbstractReq' = call
  BY <1>1 DEF AbstractQueue, AbstractReq, Sound
<1>14. AbstractRes = NonePending
  BY <1>2, NoneTaken
<1>15. AbstractRes' = [AbstractRes EXCEPT ![t] = Fifo!Taken(SubSeq(it, 1, d))]
  <2>1. AbstractRes' = [u \in Callers |-> IF u = t THEN [taken |-> TRUE, items |-> SubSeq(it, 1, d)]
                                           ELSE [taken |-> FALSE, items |-> <<>>]]
    BY <1>1, <1>2 DEF AbstractRes, Sound
  <2> QED
    BY <1>14, <2>1 DEF NonePending, Fifo!Taken
<1>16. AbstractRes[t] = Fifo!Pending
  BY <1>14 DEF NonePending, Fifo!Pending
<1> QED
  BY <1>0, <1>3, <1>8, <1>10, <1>12, <1>13, <1>15, <1>16 DEF Fifo!DoPush

\* Publishing the new head removes what has been copied out: as many items as
\* were asked for and were there.
LEMMA PopSimulates ==
    ASSUME Sound, Sound', CommittedIs, CommittedIs', NEW t \in Callers, StoreIndex(t),
           call[t].op # "push"
    PROVE  Fifo!DoPop(t)
<1> DEFINE d == done[t]
           V == Items \cup {NoItem}
<1>0. /\ MaxSize \in Nat \ {0} /\ head \in Slots /\ size \in 0..MaxSize /\ d \in Nat
      /\ data \in [Slots -> V] /\ contended' = contended
      /\ pc \in [Callers -> {"idle", "load", "cas", "miss", "begin", "check",
                             "copy", "count", "store", "unlock"}]
  BY CircularBufferAssumption DEF Sound, TypeInv, TypeOK, RingInv
<1>1. /\ pc[t] = "store" /\ pc' = [pc EXCEPT ![t] = "unlock"] /\ head' = idx[t]
      /\ UNCHANGED <<data, size, call, done, got>>
  BY DEF StoreIndex, Goto
<1>2. /\ \A u \in Callers : pc[u] # "unlock" /\ (u # t => pc'[u] = "idle")
      /\ pc'[t] = "unlock"
  BY <1>0, <1>1 DEF Sound, RingInv
<1>3. PICK m \in 0 .. MaxCount : call[t].count = m /\ call[t].op = "pop"
  <2>1. call[t] \in Calls
    BY <1>1 DEF Sound, CallInv
  <2>2. PICK m \in 0 .. MaxCount : call[t] = [op |-> "pop", items |-> <<>>, count |-> m]
    BY <2>1 DEF Calls
  <2> QED
    BY <2>2
<1>4. /\ PopHalfDone(t) /\ PopCopied(t) /\ LoopOver(t) /\ d <= m /\ Ahead(t) = 0
  BY <1>1, <1>3 DEF Sound, RingInv, CopiedInv, InLoop, HalfDone, TypeInv, LoopInv, Ahead
<1>5. PICK n \in Nat : n = size + d /\ n <= MaxSize
  BY <1>0, <1>4 DEF PopHalfDone
<1>6. Committed = n /\ Committed' = size /\ Copied(t) = d
  BY <1>0, <1>1, <1>2, <1>4, <1>5 DEF CommittedIs, InLoop, Copied
<1>7. /\ Contents = [i \in 1 .. n |-> data[SlotAt(head + (i - 1))]]
      /\ Contents' = [i \in 1 .. size |-> data[SlotAt(idx[t] + (i - 1))]]
  BY <1>1, <1>6 DEF CommittedIs
<1>8. \A i \in 1 .. n : data[SlotAt(head + (i - 1))] \in V
  <2> TAKE i \in 1 .. n
  <2>1. i - 1 \in Slots
    BY <1>0, <1>5 DEF Slots
  <2>2. SlotAt(head + (i - 1)) \in Slots
    BY <1>0, <2>1, SlotFacts
  <2> QED
    BY <1>0, <2>2
<1>9. ASSUME NEW i \in 1 .. size
      PROVE  /\ d + i \in 1 .. n
             /\ SlotAt(idx[t] + (i - 1)) = SlotAt(head + ((d + i) - 1))
  <2>0. head \in Int /\ head + d + 0 = head + d
    BY <1>0 DEF Slots
  <2>1. idx[t] = SlotAt(head + d)
    BY <1>4, <2>0 DEF PopHalfDone
  <2>2. d \in Slots /\ i - 1 \in Slots /\ d + (i - 1) < MaxSize /\ d + i \in 1 .. n
    BY <1>0, <1>5 DEF Slots
  <2>3. SlotAt(SlotAt(head + d) + (i - 1)) = SlotAt(head + d + (i - 1))
    BY <1>0, <2>2, SlotFacts
  <2>4. head + d + (i - 1) = head + ((d + i) - 1)
    BY <1>0, <2>0
  <2> QED
    BY <2>1, <2>2, <2>3, <2>4
<1>10. /\ Contents \in Seq(V) /\ Len(Contents) = n
       /\ Contents' \in Seq(V) /\ Len(Contents') = size
  <2>1. Contents \in [1 .. n -> V]
    BY <1>7, <1>8
  <2>2. Contents' \in [1 .. size -> V]
    BY <1>7, <1>8, <1>9
  <2>3. size \in Nat
    BY <1>0
  <2> HIDE DEF V
  <2> QED
    BY <1>5, <2>1, <2>2, <2>3, FunctionIsSeq
<1>11. Fifo!Smaller(m, n) = d
  <2>1. d = m \/ size = 0
    BY <1>1, <1>3, <1>4 DEF LoopOver, Exhausted
  <2> QED
    BY <1>0, <1>4, <1>5, <2>1 DEF Fifo!Smaller
<1>12. Contents' = SubSeq(Contents, d + 1, n)
  <2>1. PICK c, q : c = Contents' /\ q = Contents
    OBVIOUS
  <2>2. /\ c \in Seq(V) /\ q \in Seq(V) /\ Len(q) = n /\ Len(c) = n - d
        /\ d \in Nat /\ d <= n
    BY <1>0, <1>5, <1>10, <2>1
  <2>3. ASSUME NEW j \in 1 .. (n - d) PROVE c[j] = q[d + j]
    <3>1. j \in 1 .. size
      BY <1>0, <1>5
    <3> QED
      BY <1>7, <1>9, <2>1, <3>1
  <2> HIDE DEF d, V
  <2>4. c = SubSeq(q, d + 1, n)
    BY <2>2, <2>3, SubSeqIs
  <2> QED
    BY <2>1, <2>4
<1>13. got[t] = SubSeq(Contents, 1, d)
  <2>1. PICK q : q = Contents
    OBVIOUS
  <2>2. /\ got[t] \in Seq(V) /\ Len(got[t]) = d - 0 /\ q \in Seq(V) /\ Len(q) = n
        /\ d \in Nat /\ d <= n /\ 0 \in Nat /\ 0 <= d
    BY <1>0, <1>4, <1>5, <1>6, <1>10, <2>1 DEF Sound, CallInv, PopCopied
  <2>3. ASSUME NEW j \in 1 .. (d - 0) PROVE got[t][j] = q[0 + j]
    <3>1. j \in 1 .. d /\ 0 + j = j /\ j \in 1 .. n
      BY <1>0, <1>5
    <3> QED
      BY <1>4, <1>6, <1>7, <2>1, <3>1 DEF PopCopied
  <2> HIDE DEF d, V
  <2>4. got[t] = SubSeq(q, 0 + 1, d)
    BY <2>2, <2>3, SubSeqIs
  <2> QED
    BY <2>1, <2>4
<1>14. /\ AbstractQueue = Contents /\ AbstractQueue' = Contents'
       /\ AbstractReq = call /\ AbstractReq' = call
  BY <1>1 DEF AbstractQueue, AbstractReq, Sound
<1>15. AbstractRes = NonePending
  BY <1>2, NoneTaken
<1>16. AbstractRes' = [AbstractRes EXCEPT ![t] = Fifo!Taken(got[t])]
  <2>1. AbstractRes' = [u \in Callers |-> IF u = t THEN [taken |-> TRUE, items |-> got[t]]
                                           ELSE [taken |-> FALSE, items |-> <<>>]]
    BY <1>1, <1>2 DEF AbstractRes, Sound
  <2> QED
    BY <1>15, <2>1 DEF NonePending, Fifo!Taken
<1>17. AbstractRes[t] = Fifo!Pending
  BY <1>15 DEF NonePending, Fifo!Pending
<1> QED
  BY <1>0, <1>3, <1>10, <1>11, <1>12, <1>13, <1>14, <1>16, <1>17 DEF Fifo!DoPop

\* A call that overlaps an open one breaks the queue.
LEMMA OverlapSimulates ==
    ASSUME TypeInv, CallInv, ~contended, contended', NEW t \in Callers, Invoke(t)
    PROVE  Fifo!Overlap
<1>1. PICK u \in Callers : pc[u] # "idle"
  BY DEF Invoke
<1>2. call[u] # NoCall
  <2>1. call[u] \in Calls
    BY <1>1 DEF CallInv
  <2> QED
    BY <2>1 DEF Calls, NoCall
<1>3. Fifo!Open # {}
  BY <1>2 DEF Fifo!Open, AbstractReq, Fifo!NoCall, NoCall
<1>4. AbstractQueue' = <<>> /\ AbstractReq' = [v \in Callers |-> NoCall]
  BY DEF AbstractQueue, AbstractReq
<1>5. AbstractRes' = NonePending
  BY DEF AbstractRes, NonePending
<1>6. contended' = TRUE
  <2>1. contended' \in BOOLEAN
    BY Zenon DEF Invoke
  <2> QED
    BY <2>1
<1> QED
  BY <1>3, <1>4, <1>5, <1>6
     DEF Fifo!Overlap, NonePending, Fifo!Pending, Fifo!NoCall, NoCall

\* Every step is a step of the queue or leaves it alone.
LEMMA Simulates ==
    ASSUME TypeInv, TypeInv', UncontendedInv, UncontendedInv', ItemsInv, ItemsInv',
           RingInv => CommittedIs, (RingInv => CommittedIs)', [Next]_vars
    PROVE  [Fifo!Next]_(Fifo!vars)
<1>a. ASSUME NEW t \in Callers, Step(t) \/ UNCHANGED vars PROVE contended' = contended
  BY <1>a DEF Step, LoadExpected, CasHit, CasMiss, StoreExpected, Begin, Check,
              CopyIn, CopyOut, Count, StoreIndex, Unlock, vars
<1>b. contended \in BOOLEAN /\ contended' \in BOOLEAN
  BY DEF TypeInv, TypeOK
<1>c. CASE UNCHANGED vars
  BY <1>c DEF vars, cb, Fifo!vars, AbstractQueue, AbstractReq, AbstractRes, Contents,
              Committed, Unpublished
<1>1. CASE contended
  <2>1. contended'
    BY <1>1, <1>a, <1>c DEF Next, Invoke, vars
  <2>2. contended' = contended /\ AbstractQueue' = AbstractQueue /\ AbstractReq' = AbstractReq
    BY <1>1, <1>b, <2>1 DEF AbstractQueue, AbstractReq
  <2>3. AbstractRes = NonePending /\ AbstractRes' = NonePending
    BY <1>1, <2>1 DEF AbstractRes, NonePending
  <2> QED
    BY <2>2, <2>3 DEF Fifo!vars
<1>2. ASSUME ~contended, NEW t \in Callers, Invoke(t), contended' PROVE Fifo!Next
  <2>1. Fifo!Overlap
    BY <1>2, OverlapSimulates DEF ItemsInv
  <2> QED
    BY <2>1 DEF Fifo!Next
<1>3. CASE ~contended /\ ~contended'
  <2>0. Sound /\ Sound' /\ CommittedIs /\ CommittedIs'
    BY <1>3 DEF Sound, UncontendedInv, ItemsInv
  <2>1. ASSUME NEW t \in Callers, Invoke(t) PROVE Fifo!Next
    BY <2>0, <2>1, InvokeSimulates DEF Fifo!Next
  <2>2. ASSUME NEW t \in Callers,
               \/ LoadExpected(t) \/ CasHit(t) \/ CasMiss(t) \/ StoreExpected(t) \/ Begin(t)
               \/ Check(t) \/ CopyIn(t) \/ CopyOut(t) \/ Count(t)
        PROVE  UNCHANGED Fifo!vars
    BY <2>0, <2>2, LoopStutters
  <2>3. ASSUME NEW t \in Callers, StoreIndex(t) PROVE Fifo!Next
    <3>1. Fifo!DoPush(t) \/ Fifo!DoPop(t)
      BY <2>0, <2>3, PushSimulates, PopSimulates
    <3> QED
      BY <3>1 DEF Fifo!Next, Fifo!Step
  <2>4. ASSUME NEW t \in Callers, Unlock(t) PROVE Fifo!Next
    <3>1. Fifo!Return(t)
      BY <2>0, <2>4, UnlockSimulates
    <3> QED
      BY <3>1 DEF Fifo!Next, Fifo!Step
  <2> QED
    BY <1>c, <2>1, <2>2, <2>3, <2>4 DEF Next, Step
<1> QED
  BY <1>1, <1>2, <1>3, <1>a, <1>b, <1>c DEF Next

\* cb_push and cb_pop implement the bounded queue, for every number of callers,
\* ring size and count: as long as no call interrupts another, each push appends
\* the longest prefix of its items that fits, each pop takes the oldest items,
\* and each takes effect at one instant, where it publishes its index.
THEOREM QueueImplemented == Spec => Fifo!Safety
<1>1. Init => UncontendedInv
  BY CircularBufferAssumption
     DEF Init, cb_init, UncontendedInv, RingInv, InLoop, SlotAt
<1>2. Init => ItemsInv
  <2> SUFFICES ASSUME Init PROVE ItemsInv
    OBVIOUS
  <2>1. <<>> \in Seq(Items \cup {NoItem})
    OBVIOUS
  <2>2. got \in [Callers -> Seq(Items \cup {NoItem})]
    BY <2>1 DEF Init
  <2> QED
    BY <2>2 DEF Init, ItemsInv, CallInv, CopiedInv, InLoop
<1>3. Init => Fifo!Init
  <2> SUFFICES ASSUME Init PROVE Fifo!Init
    OBVIOUS
  <2>1. Committed = 0
    BY DEF Init, cb_init, Committed, Unpublished
  <2>2. Contents = <<>>
    BY <2>1 DEF Contents
  <2> QED
    BY <2>2 DEF Init, AbstractQueue, AbstractReq, AbstractRes, Fifo!Init, Fifo!NoCall,
                NoCall, Fifo!Pending
<1>4. TypeInv /\ UncontendedInv /\ UncontendedInv' /\ ItemsInv /\ [Next]_vars => ItemsInv'
  <2> SUFFICES ASSUME TypeInv, UncontendedInv, UncontendedInv', ItemsInv, [Next]_vars
               PROVE  ItemsInv'
    OBVIOUS
  <2>1. CallInv'
    BY CallStep DEF ItemsInv
  <2>2. ~contended' => ~contended
    BY DEF Next, Step, Invoke, LoadExpected, CasHit, CasMiss, StoreExpected, Begin, Check,
           CopyIn, CopyOut, Count, StoreIndex, Unlock, vars
  <2>3. ~contended' => CopiedInv'
    BY <2>2, CopiedStep DEF ItemsInv, UncontendedInv
  <2> QED
    BY <2>1, <2>3 DEF ItemsInv
<1>5. TypeInv => (RingInv => CommittedIs)
  BY CommittedFacts
<1>6. /\ TypeInv /\ TypeInv' /\ UncontendedInv /\ UncontendedInv' /\ ItemsInv /\ ItemsInv'
      /\ (RingInv => CommittedIs) /\ (RingInv => CommittedIs)' /\ [Next]_vars
      => [Fifo!Next]_(Fifo!vars)
  BY Simulates
<1> QED
  BY <1>1, <1>2, <1>3, <1>4, <1>5, <1>6, TypeInit, TypeStep, RingStep, PTL
     DEF Spec, Fifo!Safety
=============================================================================
