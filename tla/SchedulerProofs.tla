-------------------------- MODULE SchedulerProofs --------------------------
(***************************************************************************)
(* Proofs about Scheduler: for any number of threads that the pool can     *)
(* hold, no thread is lost or queued twice and every switch resumes the    *)
(* right computation.                                                      *)
(***************************************************************************)
EXTENDS Scheduler, FiniteSetTheorems, TLAPS

-----------------------------------------------------------------------------
(* Queues without repetition. *)

Elems(q) == {q[j] : j \in 1..Len(q)}
NoRepeat(q) == \A j, k \in 1..Len(q) : q[j] = q[k] => j = k

\* Appending an element that is not in the queue.
LEMMA AppendFacts ==
    ASSUME NEW q \in Seq(Threads), NEW t \in Threads, NoRepeat(q), t \notin Elems(q)
    PROVE  /\ Append(q, t) \in Seq(Threads) /\ Append(q, t) # <<>>
           /\ Elems(Append(q, t)) = Elems(q) \cup {t}
           /\ NoRepeat(Append(q, t))
<1>1. /\ Append(q, t) \in Seq(Threads) /\ Len(Append(q, t)) = Len(q) + 1
      /\ \A j \in 1..Len(q) : Append(q, t)[j] = q[j]
      /\ Append(q, t)[Len(q) + 1] = t
      /\ Len(q) \in Nat
  OBVIOUS
<1>2. \A j \in 1..(Len(q) + 1) : j \in 1..Len(q) \/ j = Len(q) + 1
  BY <1>1
<1>3. Elems(Append(q, t)) = Elems(q) \cup {t}
  <2>1. Elems(Append(q, t)) \subseteq Elems(q) \cup {t}
    BY <1>1, <1>2 DEF Elems
  <2>2. t \in Elems(Append(q, t))
    BY <1>1 DEF Elems
  <2>3. ASSUME NEW j \in 1..Len(q) PROVE q[j] \in Elems(Append(q, t))
    BY <1>1 DEF Elems
  <2> QED
    BY <2>1, <2>2, <2>3 DEF Elems
<1>4. NoRepeat(Append(q, t))
  <2> SUFFICES ASSUME NEW j \in 1..(Len(q) + 1), NEW k \in 1..(Len(q) + 1),
                      Append(q, t)[j] = Append(q, t)[k]
               PROVE  j = k
    BY <1>1 DEF NoRepeat
  <2>1. CASE j \in 1..Len(q) /\ k \in 1..Len(q)
    BY <1>1, <2>1 DEF NoRepeat
  <2>2. CASE j \in 1..Len(q) /\ k = Len(q) + 1
    BY <1>1, <2>2 DEF Elems
  <2>3. CASE k \in 1..Len(q) /\ j = Len(q) + 1
    BY <1>1, <2>3 DEF Elems
  <2> QED
    BY <1>2, <2>1, <2>2, <2>3
<1>5. Append(q, t) # <<>>
  BY <1>1
<1> QED
  BY <1>1, <1>3, <1>4, <1>5

\* Taking the oldest element.
LEMMA TailFacts ==
    ASSUME NEW q \in Seq(Threads), NoRepeat(q), q # <<>>
    PROVE  /\ Tail(q) \in Seq(Threads)
           /\ Head(q) \in Elems(q)
           /\ Elems(Tail(q)) = Elems(q) \ {Head(q)}
           /\ NoRepeat(Tail(q))
<1>1. /\ Tail(q) \in Seq(Threads) /\ Len(q) \in Nat \ {0}
      /\ Len(Tail(q)) = Len(q) - 1
      /\ \A j \in 1..(Len(q) - 1) : Tail(q)[j] = q[j + 1]
      /\ Head(q) = q[1]
  OBVIOUS
<1>2. Head(q) \in Elems(q)
  BY <1>1 DEF Elems
<1>3. Elems(Tail(q)) = Elems(q) \ {Head(q)}
  <2>1. ASSUME NEW j \in 1..(Len(q) - 1)
        PROVE  Tail(q)[j] \in Elems(q) /\ Tail(q)[j] # Head(q)
    <3>1. j + 1 \in 1..Len(q) /\ j + 1 # 1 /\ 1 \in 1..Len(q)
      BY <1>1
    <3> QED
      BY <1>1, <3>1 DEF Elems, NoRepeat
  <2>2. ASSUME NEW j \in 1..Len(q), q[j] # Head(q)
        PROVE  q[j] \in Elems(Tail(q))
    <3>1. j - 1 \in 1..(Len(q) - 1) /\ (j - 1) + 1 = j
      BY <1>1, <2>2
    <3> QED
      BY <1>1, <3>1 DEF Elems
  <2>3. Elems(Tail(q)) \subseteq Elems(q) \ {Head(q)}
    BY <1>1, <2>1 DEF Elems
  <2>4. Elems(q) \ {Head(q)} \subseteq Elems(Tail(q))
    BY <2>2 DEF Elems
  <2> QED
    BY <2>3, <2>4
<1>4. NoRepeat(Tail(q))
  <2> SUFFICES ASSUME NEW j \in 1..(Len(q) - 1), NEW k \in 1..(Len(q) - 1),
                      Tail(q)[j] = Tail(q)[k]
               PROVE  j = k
    BY <1>1 DEF NoRepeat
  <2>1. j + 1 \in 1..Len(q) /\ k + 1 \in 1..Len(q) /\ q[j + 1] = q[k + 1]
    BY <1>1
  <2> QED
    BY <2>1 DEF NoRepeat
<1> QED
  BY <1>1, <1>2, <1>3, <1>4

\* A pool that lacks a thread has room for it.
LEMMA RoomInPool ==
    ASSUME NEW q \in Seq(Threads), NoRepeat(q), NEW t \in Threads, t \notin Elems(q)
    PROVE  PoolPush(q, t) = Append(q, t)
<1>1. IsFiniteSet(Threads) /\ Cardinality(Threads) <= PoolCap
  <2>1. /\ IsFiniteSet(Pages \cup {Boot})
        /\ Cardinality(Pages \cup {Boot}) = Cardinality(Pages) + 1
    BY SchedulerAssumption, FS_AddElement
  <2> QED
    BY <2>1, SchedulerAssumption DEF Threads
<1>2. /\ IsFiniteSet(Threads \ {t})
      /\ Cardinality(Threads \ {t}) = Cardinality(Threads) - 1
      /\ Cardinality(Threads) \in Nat
  BY <1>1, FS_RemoveElement, FS_CardinalityType
<1>3. q \in Injection(1..Len(q), Threads \ {t})
  <2>1. q \in [1..Len(q) -> Threads]
    OBVIOUS
  <2>2. \A j \in 1..Len(q) : q[j] \in Threads \ {t}
    BY <2>1 DEF Elems
  <2>3. q \in [1..Len(q) -> Threads \ {t}]
    BY <2>1, <2>2
  <2> QED
    BY <2>3 DEF Injection, IsInjective, NoRepeat
<1>4. Cardinality(1..Len(q)) <= Cardinality(Threads \ {t})
  BY <1>2, <1>3, FS_Injection
<1>5. Cardinality(1..Len(q)) = Len(q) /\ Len(q) \in Nat
  BY FS_Interval
<1>6. Len(q) # PoolCap
  BY <1>1, <1>2, <1>4, <1>5, SchedulerAssumption
<1> QED
  BY <1>6 DEF PoolPush

-----------------------------------------------------------------------------
(* The inductive invariant. *)

Live == InPool \cup Running \cup Unpublished

\* Thread ids are handed out once; the main thread keeps id 0 and never dies;
\* a computation that does not exist yet was never interrupted.
Bookkeeping ==
    /\ ~scheduler_inited => /\ first /\ next_tid = 1 /\ pool = <<>>
                            /\ free = Pages /\ spawn = "none"
    /\ \A t \in Live : tid[t] < next_tid
    /\ \A t \in Live \cap Pages : tid[t] >= 1
    /\ ~first => tid[Boot] = BootTid /\ ~dead[Boot]
    /\ \A n \in Tids : n >= next_tid => latest[n] = 0

IInv == TypeOK /\ Bookkeeping /\ OneHome /\ ContextIntegrity /\ DestroyedAfterFirstYield

LEMMA InvInit == Init => IInv
<1> SUFFICES ASSUME Init PROVE IInv
  OBVIOUS
<1> USE SchedulerAssumption DEF Init
<1>1. 0 \in Tids /\ <<0, 0>> \in Frames
  BY DEF Tids, Frames
<1>2. pool \in Seq(Threads) /\ Len(pool) = 0
  OBVIOUS
<1>3. /\ tid \in [Threads -> Tids] /\ rsp \in [Threads -> Frames]
      /\ latest \in [Tids -> {0, 1}] /\ cpu \in Tids
      /\ next_tid \in 1 .. (MaxTid + 1)
  BY <1>1 DEF BootTid
<1>4. /\ dead \in [Threads -> BOOLEAN] /\ user \in [Threads -> BOOLEAN]
      /\ rdi \in [Threads -> BOOLEAN]
      /\ scheduler_inited \in BOOLEAN /\ first \in BOOLEAN
  OBVIOUS
<1>5. InPool = {} /\ Running = {} /\ Unpublished = {}
  BY <1>2 DEF InPool, Running, Unpublished
<1>6. TypeOK
  BY <1>2, <1>3, <1>4 DEF TypeOK
<1>7. OneHome
  BY <1>2, <1>5 DEF OneHome
<1>8. Bookkeeping /\ ContextIntegrity /\ DestroyedAfterFirstYield
  BY <1>5 DEF Bookkeeping, Live, ContextIntegrity, DestroyedAfterFirstYield
<1> QED
  BY <1>6, <1>7, <1>8 DEF IInv

\* A new thread's page was free, hence no thread's.
LEMMA FreshPage ==
    ASSUME IInv, NEW p \in free
    PROVE  /\ p \in Pages /\ p \in Threads /\ p \notin InPool
           /\ p \notin Running /\ p \notin Unpublished /\ p # Boot
BY SchedulerAssumption DEF IInv, TypeOK, OneHome, Threads

\* What new_thread does to the structures.
LEMMA NewThreadFacts ==
    ASSUME IInv, NEW p \in free, NEW isUser \in BOOLEAN, new_thread(p, isUser)
    PROVE  /\ next_tid \in Tids /\ next_tid' \in 1 .. (MaxTid + 1)
           /\ next_tid' = next_tid + 1
           /\ tid' \in [Threads -> Tids] /\ rsp' \in [Threads -> Frames]
           /\ dead' \in [Threads -> BOOLEAN] /\ user' \in [Threads -> BOOLEAN]
           /\ rdi' \in [Threads -> BOOLEAN]
           /\ tid'[p] = next_tid /\ rsp'[p] = <<next_tid, 0>> /\ ~dead'[p]
           /\ \A t \in Threads \ {p} : /\ tid'[t] = tid[t] /\ rsp'[t] = rsp[t]
                                       /\ dead'[t] = dead[t]
           /\ free' = free \ {p}
<1> USE SchedulerAssumption DEF new_thread
<1>1. p \in Threads
  BY FreshPage
<1>2. next_tid \in Tids /\ next_tid' \in 1 .. (MaxTid + 1) /\ next_tid' = next_tid + 1
  BY DEF IInv, TypeOK, Tids
<1>3. <<next_tid, 0>> \in Frames
  BY <1>2 DEF Frames
<1>4. /\ tid' \in [Threads -> Tids] /\ rsp' \in [Threads -> Frames]
      /\ tid'[p] = next_tid /\ rsp'[p] = <<next_tid, 0>>
  BY <1>1, <1>2, <1>3 DEF IInv, TypeOK
<1>5. /\ dead' \in [Threads -> BOOLEAN] /\ user' \in [Threads -> BOOLEAN]
      /\ rdi' \in [Threads -> BOOLEAN]
  BY <1>1 DEF IInv, TypeOK
<1>6. /\ ~dead'[p] /\ free' = free \ {p}
      /\ \A t \in Threads \ {p} : /\ tid'[t] = tid[t] /\ rsp'[t] = rsp[t]
                                  /\ dead'[t] = dead[t]
  BY <1>1 DEF IInv, TypeOK
<1> QED
  BY <1>2, <1>4, <1>5, <1>6

LEMMA StartStep == IInv /\ start_scheduler => IInv'
<1> SUFFICES ASSUME IInv, start_scheduler PROVE IInv'
  OBVIOUS
<1> USE SchedulerAssumption
<1>1. PICK p \in Pages : new_thread(p, FALSE) /\ pool' = PoolPush(<<>>, p)
  BY DEF start_scheduler
<1>2. /\ scheduler_inited' = TRUE /\ ~scheduler_inited
      /\ UNCHANGED <<first, current_thread, cpu, spawn, spawned, latest>>
  BY DEF start_scheduler
<1>3. first /\ next_tid = 1 /\ pool = <<>> /\ free = Pages /\ spawn = "none"
  BY <1>2 DEF IInv, Bookkeeping
<1>4. p \in free /\ p \in Threads
  BY <1>1, <1>3 DEF Threads
<1>5. /\ next_tid' = 2 /\ next_tid' \in 1 .. (MaxTid + 1)
      /\ tid' \in [Threads -> Tids] /\ rsp' \in [Threads -> Frames]
      /\ dead' \in [Threads -> BOOLEAN] /\ user' \in [Threads -> BOOLEAN]
      /\ rdi' \in [Threads -> BOOLEAN]
      /\ tid'[p] = 1 /\ rsp'[p] = <<1, 0>> /\ ~dead'[p]
      /\ free' = free \ {p} /\ 1 \in Tids
  <2>1. /\ next_tid \in Tids /\ next_tid' \in 1 .. (MaxTid + 1)
        /\ next_tid' = next_tid + 1
        /\ tid' \in [Threads -> Tids] /\ rsp' \in [Threads -> Frames]
        /\ dead' \in [Threads -> BOOLEAN] /\ user' \in [Threads -> BOOLEAN]
        /\ rdi' \in [Threads -> BOOLEAN]
        /\ tid'[p] = next_tid /\ rsp'[p] = <<next_tid, 0>> /\ ~dead'[p]
        /\ free' = free \ {p}
    BY <1>1, <1>4, NewThreadFacts, Zenon
  <2> QED
    BY <1>3, <2>1
<1>6. pool' = <<p>>
  <2>1. PoolCap # 0
    BY FS_CardinalityType
  <2> QED
    BY <1>1, <2>1 DEF PoolPush
<1>7. /\ pool' \in Seq(Threads) /\ Len(pool') = 1 /\ pool'[1] = p
      /\ InPool' = {p} /\ Running' = {} /\ Unpublished' = {}
  <2>1. pool' \in Seq(Threads) /\ Len(pool') = 1 /\ pool'[1] = p
    BY <1>4, <1>6
  <2>2. InPool' = {pool'[j] : j \in 1..1}
    BY <2>1 DEF InPool
  <2>3. InPool' = {p}
    BY <2>1, <2>2
  <2> QED
    BY <1>2, <1>3, <2>1, <2>3 DEF Running, Unpublished
<1>8. TypeOK'
  BY <1>2, <1>3, <1>4, <1>5, <1>7 DEF IInv, TypeOK
<1>9. OneHome'
  BY <1>2, <1>3, <1>5, <1>7 DEF OneHome
<1>10. Bookkeeping'
  <2>1. Live' = {p}
    BY <1>7 DEF Live
  <2>2. \A n \in Tids : n >= next_tid' => latest'[n] = 0
    BY <1>2, <1>3, <1>5 DEF IInv, Bookkeeping, Tids
  <2> QED
    BY <1>2, <1>3, <1>5, <2>1, <2>2 DEF Bookkeeping
<1>11. ContextIntegrity'
  <2>1. latest'[1] = 0
    BY <1>2, <1>3, <1>5 DEF IInv, Bookkeeping
  <2>2. cpu' = BootTid
    BY <1>2, <1>3 DEF IInv, ContextIntegrity
  <2> QED
    BY <1>2, <1>3, <1>5, <1>7, <2>1, <2>2 DEF ContextIntegrity
<1>12. DestroyedAfterFirstYield'
  BY <1>5, <1>7 DEF DestroyedAfterFirstYield
<1> QED
  BY <1>8, <1>9, <1>10, <1>11, <1>12 DEF IInv

LEMMA FirstSwitchStep == IInv /\ FirstSwitch => IInv'
<1> SUFFICES ASSUME IInv, FirstSwitch PROVE IInv'
  OBVIOUS
<1> USE SchedulerAssumption
<1>1. /\ first /\ first' = FALSE /\ current_thread' = Boot /\ scheduler_inited
      /\ tid' = [tid EXCEPT ![Boot] = BootTid] /\ dead' = [dead EXCEPT ![Boot] = FALSE]
      /\ UNCHANGED <<scheduler_inited, next_tid, pool, free, user, rsp, rdi,
                     cpu, spawn, spawned, latest>>
  BY DEF FirstSwitch, Interruptible
<1>2. /\ tid' \in [Threads -> Tids] /\ tid'[Boot] = 0
      /\ \A t \in Pages : tid'[t] = tid[t]
  BY <1>1 DEF IInv, TypeOK, Threads, Tids, BootTid
<1>3. /\ dead' \in [Threads -> BOOLEAN] /\ ~dead'[Boot]
      /\ \A t \in Pages : dead'[t] = dead[t]
  BY <1>1 DEF IInv, TypeOK, Threads
<1>4. /\ InPool' = InPool /\ Running = {} /\ Running' = {Boot}
      /\ Unpublished' = Unpublished
  BY <1>1 DEF InPool, Running, Unpublished
<1>5. InPool \subseteq Pages /\ Unpublished \subseteq Pages
  BY <1>1, <1>4 DEF IInv, OneHome
<1>6. TypeOK'
  BY <1>1, <1>2, <1>3 DEF IInv, TypeOK, Threads
<1>7. OneHome'
  BY <1>1, <1>4, <1>5 DEF IInv, OneHome
<1>8. Bookkeeping'
  <2>1. next_tid \in Int /\ next_tid >= 1
    BY DEF IInv, TypeOK
  <2> QED
    BY <1>1, <1>2, <1>3, <1>4, <1>5, <2>1 DEF IInv, Bookkeeping, Live, BootTid
<1>9. ContextIntegrity'
  <2>1. \A t \in InPool \cup Unpublished : tid[t] >= 1
    BY <1>5 DEF IInv, Bookkeeping, Live
  <2> QED
    BY <1>1, <1>2, <1>4, <1>5, <2>1 DEF IInv, ContextIntegrity, BootTid
<1>10. DestroyedAfterFirstYield'
  BY <1>1, <1>3, <1>4, <1>5 DEF IInv, DestroyedAfterFirstYield
<1> QED
  BY <1>6, <1>7, <1>8, <1>9, <1>10 DEF IInv

LEMMA ExitStep == IInv /\ thread_exit => IInv'
<1> SUFFICES ASSUME IInv, thread_exit PROVE IInv'
  OBVIOUS
<1> USE SchedulerAssumption
<1>1. /\ ~first /\ cpu # BootTid
      /\ dead' = [dead EXCEPT ![current_thread] = TRUE]
      /\ UNCHANGED <<scheduler_inited, first, current_thread, next_tid, pool, free,
                     tid, user, rsp, rdi, cpu, spawn, spawned, latest>>
  BY DEF thread_exit
<1>2. InPool' = InPool /\ Running' = Running /\ Unpublished' = Unpublished
  BY <1>1 DEF InPool, Running, Unpublished
<1>3. current_thread \in Threads /\ current_thread # Boot
  BY <1>1 DEF IInv, TypeOK, ContextIntegrity, Bookkeeping
<1>4. /\ dead' \in [Threads -> BOOLEAN]
      /\ \A t \in Threads \ {current_thread} : dead'[t] = dead[t]
  BY <1>1, <1>3 DEF IInv, TypeOK
<1>5. TypeOK'
  BY <1>1, <1>4 DEF IInv, TypeOK
<1>6. OneHome'
  BY <1>1, <1>2 DEF IInv, OneHome
<1>7. Bookkeeping'
  BY <1>1, <1>2, <1>3, <1>4 DEF IInv, Bookkeeping, Live, Threads
<1>8. ContextIntegrity'
  BY <1>1, <1>2 DEF IInv, ContextIntegrity
<1>9. DestroyedAfterFirstYield'
  <2>1. current_thread \notin InPool \cup Unpublished
    BY <1>1 DEF IInv, OneHome, Running
  <2>2. InPool \cup Unpublished \subseteq Threads
    BY DEF IInv, OneHome, Threads
  <2> QED
    BY <1>2, <1>4, <2>1, <2>2 DEF IInv, DestroyedAfterFirstYield
<1> QED
  BY <1>5, <1>6, <1>7, <1>8, <1>9 DEF IInv

\* The switch itself, from a thread that goes on living and from a dead one.
LEMMA SwitchStep == IInv /\ get_next_thread => IInv'
<1> SUFFICES ASSUME IInv, get_next_thread PROVE IInv'
  OBVIOUS
<1> USE SchedulerAssumption
<1> DEFINE c == current_thread
           pushed == IF dead[c] THEN pool ELSE PoolPush(pool, c)
<1>1. /\ ~first /\ scheduler_inited
      /\ latest' = [latest EXCEPT ![cpu] = 1 - latest[cpu]]
      /\ rsp' = [rsp EXCEPT ![c] = <<cpu, 1 - latest[cpu]>>]
      /\ IF pushed = <<>> THEN UNCHANGED current_thread /\ pool' = pushed
         ELSE current_thread' = Head(pushed) /\ pool' = Tail(pushed)
      /\ free' = IF dead[c] THEN free \cup {c} ELSE free
      /\ cpu' = rsp'[current_thread'][1]
      /\ UNCHANGED <<scheduler_inited, first, next_tid, tid, dead, user, rdi,
                     spawn, spawned>>
  BY DEF get_next_thread, SwitchWith, Interruptible
<1>2. /\ c \in Threads /\ Running = {c} /\ cpu = tid[c] /\ cpu \in Tids
      /\ c \notin InPool /\ c \notin Unpublished
      /\ latest[cpu] \in {0, 1}
  BY <1>1 DEF IInv, TypeOK, OneHome, ContextIntegrity, Running
<1>3. /\ pool \in Seq(Threads) /\ NoRepeat(pool) /\ Elems(pool) = InPool
  BY DEF IInv, TypeOK, OneHome, NoRepeat, Elems, InPool
<1>4. /\ pushed \in Seq(Threads) /\ NoRepeat(pushed) /\ pushed # <<>>
      /\ Elems(pushed) = IF dead[c] THEN InPool ELSE InPool \cup {c}
  <2>1. CASE ~dead[c]
    <3>1. pushed = Append(pool, c)
      BY <1>2, <1>3, <2>1, RoomInPool
    <3>2. /\ Append(pool, c) \in Seq(Threads) /\ Append(pool, c) # <<>>
          /\ Elems(Append(pool, c)) = Elems(pool) \cup {c}
          /\ NoRepeat(Append(pool, c))
      BY <1>2, <1>3, AppendFacts
    <3> QED
      BY <1>3, <2>1, <3>1, <3>2
  <2>2. CASE dead[c]
    <3>1. c # Boot
      BY <1>1, <2>2 DEF IInv, Bookkeeping
    <3>2. Boot \in InPool
      <4>1. Boot \in InPool \cup Running \cup Unpublished
        BY <1>1 DEF IInv, OneHome
      <4>2. Unpublished \subseteq Pages
        BY DEF IInv, TypeOK, Unpublished
      <4> QED
        BY <1>2, <3>1, <4>1, <4>2
    <3>3. pool # <<>>
      BY <3>2 DEF InPool
    <3> QED
      BY <1>3, <2>2, <3>3
  <2> QED
    BY <2>1, <2>2
<1> DEFINE h == Head(pushed)
<1>5. /\ Tail(pushed) \in Seq(Threads) /\ NoRepeat(Tail(pushed))
      /\ h \in Elems(pushed) /\ Elems(Tail(pushed)) = Elems(pushed) \ {h}
  <2> HIDE DEF pushed
  <2> QED
    BY <1>4, TailFacts
<1>6. pool' = Tail(pushed) /\ current_thread' = h
  BY <1>1, <1>4
<1>7. /\ pool' \in Seq(Threads) /\ NoRepeat(pool')
      /\ InPool' = (IF dead[c] THEN InPool ELSE InPool \cup {c}) \ {h}
      /\ h \in IF dead[c] THEN InPool ELSE InPool \cup {c}
      /\ Running' = {h} /\ Unpublished' = Unpublished
  <2>1. InPool' = Elems(pool')
    BY DEF InPool, Elems
  <2>2. Running' = {h} /\ Unpublished' = Unpublished
    BY <1>1, <1>6 DEF Running, Unpublished
  <2> HIDE DEF pushed, h
  <2> QED
    BY <1>4, <1>5, <1>6, <2>1, <2>2
<1> HIDE DEF pushed, h
<1>8. h \in Threads
  BY <1>2, <1>7 DEF IInv, OneHome, Threads
<1>9. /\ rsp' \in [Threads -> Frames] /\ rsp'[c] = <<cpu, 1 - latest[cpu]>>
      /\ \A t \in Threads \ {c} : rsp'[t] = rsp[t]
  <2>1. <<cpu, 1 - latest[cpu]>> \in Frames
    BY <1>2 DEF Frames
  <2> QED
    BY <1>1, <1>2, <2>1 DEF IInv, TypeOK
<1>10. /\ latest' \in [Tids -> {0, 1}] /\ latest'[cpu] = 1 - latest[cpu]
       /\ \A n \in Tids \ {cpu} : latest'[n] = latest[n]
  <2>1. 1 - latest[cpu] \in {0, 1}
    BY <1>2
  <2> QED
    BY <1>1, <1>2, <2>1 DEF IInv, TypeOK
<1>11. InPool' \cup Unpublished' \cup Running' \subseteq Live
  BY <1>2, <1>7 DEF Live
<1>12. Live \subseteq Threads
  BY DEF Live, IInv, OneHome, Threads
<1>13. ASSUME NEW t \in Live, t # c \/ ~dead[c]
       PROVE  rsp'[t] = <<tid[t], latest'[tid[t]]>>
  <2>1. CASE t = c
    BY <1>2, <1>9, <1>10, <2>1
  <2>2. CASE t # c
    <3>1. t \in InPool \cup Unpublished
      BY <1>2, <2>2 DEF Live
    <3>2. tid[t] # cpu /\ tid[t] \in Tids /\ t \in Threads
      BY <1>2, <1>12, <2>2, <3>1 DEF IInv, ContextIntegrity, TypeOK
    <3>3. rsp[t] = <<tid[t], latest[tid[t]]>>
      BY <3>1 DEF IInv, ContextIntegrity
    <3> QED
      BY <1>9, <1>10, <2>2, <3>2, <3>3
  <2> QED
    BY <2>1, <2>2
<1>14. \A t \in InPool' \cup Unpublished' \cup Running' :
          rsp'[t] = <<tid[t], latest'[tid[t]]>>
  <2> SUFFICES ASSUME NEW t \in InPool' \cup Unpublished' \cup Running'
               PROVE  rsp'[t] = <<tid[t], latest'[tid[t]]>>
    OBVIOUS
  <2>1. t \in Live
    BY <1>11
  <2>2. t # c \/ ~dead[c]
    BY <1>2, <1>7
  <2> QED
    BY <1>2, <1>13, <2>1, <2>2
<1>15. cpu' = tid[h]
  <2>1. rsp'[h] = <<tid[h], latest'[tid[h]]>>
    BY <1>7, <1>14
  <2> QED
    BY <1>1, <1>6, <2>1
<1>16. TypeOK'
  <2>1. free' \subseteq Pages
    <3>1. CASE dead[c]
      BY <1>1, <1>2, <3>1 DEF IInv, TypeOK, Bookkeeping, Threads
    <3>2. CASE ~dead[c]
      BY <1>1, <3>2 DEF IInv, TypeOK
    <3> QED
      BY <3>1, <3>2
  <2>2. cpu' \in Tids
    BY <1>8, <1>15 DEF IInv, TypeOK
  <2> QED
    BY <1>1, <1>6, <1>7, <1>8, <1>9, <1>10, <2>1, <2>2 DEF IInv, TypeOK
<1>17. OneHome'
  <2>1. \A j, k \in 1..Len(pool') : pool'[j] = pool'[k] => j = k
    BY <1>7 DEF NoRepeat
  <2>2. /\ InPool' \cap Running' = {} /\ InPool' \cap Unpublished' = {}
        /\ Running' \cap Unpublished' = {}
    BY <1>2, <1>7 DEF IInv, OneHome
  <2>3. InPool' \cup Running' \cup Unpublished' = (Pages \ free') \cup {Boot}
    <3>0. InPool \cup {c} \cup Unpublished = (Pages \ free) \cup {Boot}
      BY <1>1, <1>2 DEF IInv, OneHome
    <3>1. CASE ~dead[c]
      BY <1>1, <1>7, <3>0, <3>1
    <3>2. CASE dead[c]
      <4>1. c # Boot /\ free' = free \cup {c}
        BY <1>1, <3>2 DEF IInv, Bookkeeping
      <4>2. InPool' \cup Running' \cup Unpublished' = InPool \cup Unpublished
        BY <1>7, <3>2
      <4> QED
        BY <1>2, <3>0, <4>1, <4>2
    <3> QED
      BY <3>1, <3>2
  <2>4. ~first'
    BY <1>1
  <2> QED
    BY <2>1, <2>2, <2>3, <2>4 DEF OneHome
<1>18. Bookkeeping'
  <2>1. Live' \subseteq Live
    BY <1>11 DEF Live
  <2>2. cpu < next_tid
    BY <1>2 DEF IInv, Bookkeeping, Live
  <2>3. \A n \in Tids : n >= next_tid => latest'[n] = 0
    BY <1>2, <1>10, <2>2 DEF IInv, Bookkeeping, Tids, TypeOK
  <2> QED
    BY <1>1, <2>1, <2>3 DEF IInv, Bookkeeping
<1>19. ContextIntegrity'
  <2>1. \A t, u \in InPool' \cup Running' \cup Unpublished' : tid'[t] = tid'[u] => t = u
    BY <1>1, <1>11 DEF IInv, ContextIntegrity, Live
  <2>2. \A t \in InPool' \cup Unpublished' : rsp'[t] = <<tid'[t], latest'[tid'[t]]>>
    BY <1>1, <1>14
  <2>3. cpu' = IF first' THEN BootTid ELSE tid'[current_thread']
    BY <1>1, <1>6, <1>15
  <2> QED
    BY <2>1, <2>2, <2>3 DEF ContextIntegrity
<1>20. DestroyedAfterFirstYield'
  BY <1>1, <1>7 DEF IInv, DestroyedAfterFirstYield
<1> QED
  BY <1>16, <1>17, <1>18, <1>19, <1>20 DEF IInv

LEMMA SpawnThreadStep == IInv /\ NewProcessThread => IInv'
<1> SUFFICES ASSUME IInv, NewProcessThread PROVE IInv'
  OBVIOUS
<1> USE SchedulerAssumption
<1>1. PICK p \in free, isUser \in BOOLEAN : new_thread(p, isUser) /\ spawned' = p
  BY DEF NewProcessThread
<1>2. /\ scheduler_inited /\ spawn = "none" /\ spawn' = "push"
      /\ UNCHANGED <<scheduler_inited, first, current_thread, pool, cpu, latest>>
  BY DEF NewProcessThread
<1>3. /\ p \in Pages /\ p \in Threads /\ p \notin InPool
      /\ p \notin Running /\ p \notin Unpublished /\ p # Boot
  BY FreshPage
<1>4. /\ next_tid \in Tids /\ next_tid' \in 1 .. (MaxTid + 1)
      /\ next_tid' = next_tid + 1
      /\ tid' \in [Threads -> Tids] /\ rsp' \in [Threads -> Frames]
      /\ dead' \in [Threads -> BOOLEAN] /\ user' \in [Threads -> BOOLEAN]
      /\ rdi' \in [Threads -> BOOLEAN]
      /\ tid'[p] = next_tid /\ rsp'[p] = <<next_tid, 0>> /\ ~dead'[p]
      /\ \A t \in Threads \ {p} : /\ tid'[t] = tid[t] /\ rsp'[t] = rsp[t]
                                  /\ dead'[t] = dead[t]
      /\ free' = free \ {p}
  BY <1>1, NewThreadFacts
<1>5. /\ InPool' = InPool /\ Running' = Running
      /\ Unpublished = {} /\ Unpublished' = {p}
  BY <1>1, <1>2 DEF InPool, Running, Unpublished
<1>6. Live' = Live \cup {p} /\ Live = InPool \cup Running /\ Live \subseteq Threads \ {p}
  <2>1. InPool \cup Running \subseteq Threads
    BY DEF IInv, OneHome, Threads
  <2> QED
    BY <1>3, <1>5, <2>1 DEF Live
<1>7. TypeOK'
  BY <1>1, <1>2, <1>3, <1>4 DEF IInv, TypeOK
<1>8. OneHome'
  <2>1. InPool' \cup Running' \cup Unpublished'
          = (Pages \ free') \cup (IF first' THEN {} ELSE {Boot})
    BY <1>2, <1>3, <1>4, <1>5 DEF IInv, OneHome
  <2> QED
    BY <1>2, <1>3, <1>5, <2>1 DEF IInv, OneHome
<1>9. Bookkeeping'
  <2>1. next_tid \in Int /\ next_tid >= 1 /\ \A t \in Threads : tid[t] \in Int
    BY DEF IInv, TypeOK, Tids
  <2>2. \A t \in Live' : tid'[t] < next_tid'
    BY <1>4, <1>6, <2>1 DEF IInv, Bookkeeping
  <2>3. \A t \in Live' \cap Pages : tid'[t] >= 1
    BY <1>4, <1>6, <2>1 DEF IInv, Bookkeeping
  <2>4. ~first' => tid'[Boot] = BootTid /\ ~dead'[Boot]
    BY <1>2, <1>3, <1>4 DEF IInv, Bookkeeping, Threads
  <2>5. \A n \in Tids : n >= next_tid' => latest'[n] = 0
    BY <1>2, <1>4, <2>1 DEF IInv, Bookkeeping, Tids
  <2> QED
    BY <1>2, <2>2, <2>3, <2>4, <2>5 DEF Bookkeeping
<1>10. ContextIntegrity'
  <2>1. rsp'[p] = <<tid'[p], latest'[tid'[p]]>>
    BY <1>2, <1>4 DEF IInv, Bookkeeping, Tids
  <2>2. \A t \in Live : tid'[t] # next_tid
    BY <1>4, <1>6 DEF IInv, Bookkeeping, TypeOK, Tids
  <2>3. \A t, u \in InPool' \cup Running' \cup Unpublished' : tid'[t] = tid'[u] => t = u
    BY <1>4, <1>5, <1>6, <2>2 DEF IInv, ContextIntegrity, Live
  <2>4. \A t \in InPool' \cup Unpublished' : rsp'[t] = <<tid'[t], latest'[tid'[t]]>>
    BY <1>2, <1>4, <1>5, <1>6, <2>1 DEF IInv, ContextIntegrity
  <2>5. cpu' = IF first' THEN BootTid ELSE tid'[current_thread']
    <3>1. ~first => current_thread \in Threads \ {p}
      BY <1>6 DEF Running
    <3> QED
      BY <1>2, <1>4, <3>1 DEF IInv, ContextIntegrity
  <2> QED
    BY <2>3, <2>4, <2>5 DEF ContextIntegrity
<1>11. DestroyedAfterFirstYield'
  BY <1>4, <1>5, <1>6 DEF IInv, DestroyedAfterFirstYield
<1> QED
  BY <1>7, <1>8, <1>9, <1>10, <1>11 DEF IInv

LEMMA SpawnPushStep == IInv /\ NewProcessPush => IInv'
<1> SUFFICES ASSUME IInv, NewProcessPush PROVE IInv'
  OBVIOUS
<1> USE SchedulerAssumption
<1>1. /\ spawn = "push" /\ pool' = PoolPush(pool, spawned)
      /\ \/ spawn' = "arg" /\ spawned' = spawned
         \/ spawn' = "none" /\ spawned' = NoThread
      /\ UNCHANGED <<scheduler_inited, first, current_thread, next_tid, free,
                     tid, dead, user, rsp, rdi, cpu, latest>>
  BY DEF NewProcessPush, fields
<1>2. /\ spawned \in Pages /\ spawned \in Threads /\ Unpublished = {spawned}
      /\ spawned \notin InPool /\ spawned \notin Running
  BY <1>1 DEF IInv, TypeOK, OneHome, Unpublished, Threads
<1>3. /\ pool \in Seq(Threads) /\ NoRepeat(pool) /\ Elems(pool) = InPool
  BY DEF IInv, TypeOK, OneHome, NoRepeat, Elems, InPool
<1>4. /\ pool' \in Seq(Threads) /\ NoRepeat(pool') /\ Elems(pool') = InPool \cup {spawned}
  <2>1. pool' = Append(pool, spawned)
    BY <1>1, <1>2, <1>3, RoomInPool
  <2> QED
    BY <1>2, <1>3, <2>1, AppendFacts
<1>5. /\ InPool' = InPool \cup {spawned} /\ Running' = Running /\ Unpublished' = {}
      /\ Live' = Live
  <2>1. InPool' = Elems(pool')
    BY DEF InPool, Elems
  <2>2. Running' = Running /\ Unpublished' = {}
    BY <1>1 DEF Running, Unpublished
  <2> QED
    BY <1>2, <1>4, <2>1, <2>2 DEF Live
<1>6. TypeOK'
  BY <1>1, <1>2, <1>4 DEF IInv, TypeOK
<1>7. OneHome'
  BY <1>1, <1>2, <1>4, <1>5 DEF IInv, OneHome, NoRepeat
<1>8. Bookkeeping'
  <2>1. scheduler_inited
    BY <1>1 DEF IInv, Bookkeeping
  <2> QED
    BY <1>1, <1>5, <2>1 DEF IInv, Bookkeeping
<1>9. ContextIntegrity'
  BY <1>1, <1>2, <1>5 DEF IInv, ContextIntegrity
<1>10. DestroyedAfterFirstYield'
  BY <1>1, <1>2, <1>5 DEF IInv, DestroyedAfterFirstYield
<1> QED
  BY <1>6, <1>7, <1>8, <1>9, <1>10 DEF IInv

LEMMA SpawnArgStep == IInv /\ NewProcessArg => IInv'
<1> SUFFICES ASSUME IInv, NewProcessArg PROVE IInv'
  OBVIOUS
<1> USE SchedulerAssumption
<1>1. /\ spawn = "arg" /\ rdi' = [rdi EXCEPT ![spawned] = TRUE]
      /\ spawn' = "none" /\ spawned' = NoThread
      /\ UNCHANGED <<scheduler_inited, first, current_thread, next_tid, pool, free,
                     tid, dead, user, rsp, cpu, latest>>
  BY DEF NewProcessArg
<1>2. /\ InPool' = InPool /\ Running' = Running /\ Unpublished' = Unpublished
      /\ Live' = Live
  BY <1>1 DEF InPool, Running, Unpublished, Live
<1>3. rdi' \in [Threads -> BOOLEAN]
  BY <1>1 DEF IInv, TypeOK
<1>4. TypeOK'
  BY <1>1, <1>3 DEF IInv, TypeOK
<1>5. OneHome' /\ Bookkeeping' /\ ContextIntegrity' /\ DestroyedAfterFirstYield'
  BY <1>1, <1>2
     DEF IInv, OneHome, Bookkeeping, ContextIntegrity, DestroyedAfterFirstYield
<1> QED
  BY <1>4, <1>5 DEF IInv

LEMMA InvStep == IInv /\ [Next]_vars => IInv'
<1>1. IInv /\ UNCHANGED vars => IInv'
  BY DEF vars, fields, IInv, TypeOK, Bookkeeping, OneHome, ContextIntegrity,
         DestroyedAfterFirstYield, Live, InPool, Running, Unpublished
<1> QED
  BY <1>1, StartStep, FirstSwitchStep, SwitchStep, ExitStep, SpawnThreadStep,
     SpawnPushStep, SpawnArgStep DEF Next, new_process

\* The scheduler's variables keep their types.
THEOREM TypeCorrect == Spec => []TypeOK
<1>1. IInv => TypeOK
  BY DEF IInv
<1> QED
  BY <1>1, InvInit, InvStep, PTL DEF Spec

\* No thread is ever lost, queued twice, or queued while its page is free, as
\* long as there are at most PoolCap threads.
THEOREM NoThreadLost == Spec => []OneHome
<1>1. IInv => OneHome
  BY DEF IInv
<1> QED
  BY <1>1, InvInit, InvStep, PTL DEF Spec

\* Every switch resumes the computation of the thread it switches to, where
\* that was interrupted last.
THEOREM SwitchesResume == Spec => []ContextIntegrity
<1>1. IInv => ContextIntegrity
  BY DEF IInv
<1> QED
  BY <1>1, InvInit, InvStep, PTL DEF Spec

\* A thread that returned is destroyed at the next switch: it never waits in
\* the pool.
THEOREM DeadNeverQueued == Spec => []DestroyedAfterFirstYield
<1>1. IInv => DestroyedAfterFirstYield
  BY DEF IInv
<1> QED
  BY <1>1, InvInit, InvStep, PTL DEF Spec

-----------------------------------------------------------------------------
(* The argument of a user thread. *)

\* Only the thread that new_process is still at work on is a user thread
\* without its argument; the main thread is never one.
ArgumentPending ==
    /\ ~user[Boot]
    /\ \A t \in Pages \ free : user[t] /\ ~rdi[t] => spawn # "none" /\ spawned = t

LEMMA PendingInit == Init => ArgumentPending
BY SchedulerAssumption DEF Init, ArgumentPending, Threads

\* A step that makes no thread and stores no argument.
LEMMA PendingKept ==
    ASSUME ArgumentPending, free \subseteq free',
           UNCHANGED <<user, rdi, spawn, spawned>>
    PROVE  ArgumentPending'
BY DEF ArgumentPending

\* A thread is made by a main thread that has finished with the last one, from
\* a page that was free.
LEMMA PendingNewThread ==
    ASSUME IInv, ArgumentPending, spawn = "none", NEW p \in free,
           NEW isUser \in BOOLEAN, new_thread(p, isUser),
           isUser => spawn' # "none" /\ spawned' = p
    PROVE  ArgumentPending'
<1> USE SchedulerAssumption
<1>1. p \in Pages /\ p \in Threads /\ p # Boot
  BY FreshPage
<1>2. /\ user' = [user EXCEPT ![p] = isUser] /\ rdi' = [rdi EXCEPT ![p] = FALSE]
      /\ free' = free \ {p}
  BY DEF new_thread
<1>3. user'[p] = isUser /\ \A t \in Threads \ {p} : user'[t] = user[t] /\ rdi'[t] = rdi[t]
  BY <1>1, <1>2 DEF IInv, TypeOK
<1>4. ~user'[Boot]
  BY <1>1, <1>3 DEF ArgumentPending, Threads
<1>5. ASSUME NEW t \in Pages \ free', user'[t], ~rdi'[t]
      PROVE  spawn' # "none" /\ spawned' = t
  <2>1. CASE t = p
    BY <1>3, <1>5, <2>1
  <2>2. CASE t # p
    <3>1. t \in Pages \ free /\ t \in Threads \ {p}
      BY <1>2, <2>2 DEF Threads
    <3> QED
      BY <1>3, <1>5, <3>1 DEF ArgumentPending
  <2> QED
    BY <2>1, <2>2
<1> QED
  BY <1>4, <1>5 DEF ArgumentPending

LEMMA PendingStep == IInv /\ ArgumentPending /\ [Next]_vars => ArgumentPending'
<1> SUFFICES ASSUME IInv, ArgumentPending, [Next]_vars PROVE ArgumentPending'
  OBVIOUS
<1> USE SchedulerAssumption
<1>1. CASE start_scheduler
  <2>1. PICK p \in Pages : new_thread(p, FALSE)
    BY <1>1 DEF start_scheduler
  <2>2. p \in free /\ spawn = "none"
    BY <1>1, <2>1 DEF new_thread, start_scheduler, IInv, Bookkeeping
  <2> QED
    BY <2>1, <2>2, PendingNewThread
<1>2. CASE FirstSwitch
  BY <1>2, PendingKept DEF FirstSwitch
<1>3. CASE get_next_thread
  BY <1>3, PendingKept DEF get_next_thread, SwitchWith
<1>4. CASE thread_exit
  BY <1>4, PendingKept DEF thread_exit
<1>5. CASE NewProcessThread
  <2>1. PICK p \in free, isUser \in BOOLEAN : new_thread(p, isUser) /\ spawned' = p
    BY <1>5 DEF NewProcessThread
  <2>2. spawn = "none" /\ spawn' = "push"
    BY <1>5 DEF NewProcessThread
  <2> QED
    BY <2>1, <2>2, PendingNewThread
<1>6. CASE NewProcessPush
  <2>1. /\ UNCHANGED <<free, user, rdi>>
        /\ IF user[spawned] THEN spawn' = "arg" /\ spawned' = spawned
           ELSE spawn' = "none" /\ spawned' = NoThread
    BY <1>6 DEF NewProcessPush, fields
  <2> QED
    BY <2>1 DEF ArgumentPending
<1>7. CASE NewProcessArg
  <2>1. /\ UNCHANGED <<free, user>> /\ rdi' = [rdi EXCEPT ![spawned] = TRUE]
    BY <1>7 DEF NewProcessArg
  <2>2. \A t \in Threads : ~rdi'[t] => ~rdi[t] /\ t # spawned
    BY <2>1 DEF IInv, TypeOK
  <2> QED
    BY <2>1, <2>2 DEF ArgumentPending, Threads
<1>8. CASE UNCHANGED vars
  BY <1>8 DEF vars, fields, ArgumentPending
<1> QED
  BY <1>1, <1>2, <1>3, <1>4, <1>5, <1>6, <1>7, <1>8 DEF Next, new_process

\* A user thread that the scheduler runs without its argument is the one that
\* new_process has pushed and not yet written the argument of: a thread that
\* is not published cannot run, and no later step takes the argument away.
THEOREM ArgumentWindow == Spec => []ArgumentMissedOnlyInWindow
<1>1. IInv /\ ArgumentPending => ArgumentMissedOnlyInWindow
  <2> SUFFICES ASSUME IInv, ArgumentPending, ~first, user[current_thread],
                      ~rdi[current_thread]
               PROVE  spawn = "arg" /\ spawned = current_thread
    BY DEF ArgumentMissedOnlyInWindow
  <2>1. current_thread \in Pages \ free
    BY DEF IInv, OneHome, Running, ArgumentPending
  <2>2. spawn # "none" /\ spawned = current_thread
    BY <2>1 DEF ArgumentPending
  <2>3. spawn # "push"
    BY <2>2 DEF IInv, OneHome, Running, Unpublished
  <2> QED
    BY <2>2, <2>3 DEF IInv, TypeOK
<1> QED
  BY <1>1, InvInit, InvStep, PendingInit, PendingStep, PTL DEF Spec
=============================================================================
