--------------------------- MODULE CircularBuffer ---------------------------
(***************************************************************************)
(* kernel/src/circular_buffer.c, one step per access to shared memory.     *)
(*                                                                         *)
(* There is one CPU.  A caller in Masked runs with interrupts off (the     *)
(* scheduler inside the timer and yield interrupts, system calls through   *)
(* the int 0x80 interrupt gate, everything before start_scheduler): once   *)
(* inside it finishes before anyone else runs.  Any other caller (the      *)
(* kernel's main thread) can be interrupted between two steps.             *)
(*                                                                         *)
(* The lock word is taken with a compare-exchange whose expected value is  *)
(* the global expected_false.  A failed exchange writes the value it found *)
(* back into it.                                                           *)
(***************************************************************************)
EXTENDS Integers, Sequences, FiniteSets

CONSTANTS
    Callers,   \* whoever may be inside cb_push or cb_pop
    Masked,    \* those that run with interrupts off
    MaxSize,   \* cb->max_size
    Items,     \* elements
    NoItem,    \* content of the buffer's memory before it is written
    MaxCount,  \* bound on the count argument
    Requests,  \* the calls that each caller makes
    Wrap       \* size_t wraps here

VARIABLES
    data, size, head, tail, locked,  \* *cb
    expected_false,
    pc,     \* where each caller is
    call,   \* its arguments: [op, items, count], as BoundedFifo has them
    exp,    \* its register copy of expected_false (FALSE when not in use)
    idx,    \* its local copy of tail or head (0 when not in use)
    done,   \* items_pushed, items_popped
    got,    \* what cb_pop has copied out
    contended \* a call was made while another was open (history)

cb == <<data, size, head, tail, locked>>
vars == <<cb, expected_false, pc, call, exp, idx, done, got, contended>>

Slots == 0 .. (MaxSize - 1)
Sizes == 0 .. (Wrap - 1)
NoCall == [op |-> "none", items |-> <<>>, count |-> 0]
ItemSeqs == UNION {[1..k -> Items] : k \in 0..MaxCount}
Calls == {[op |-> "push", items |-> s, count |-> Len(s)] : s \in ItemSeqs}
         \cup {[op |-> "pop", items |-> <<>>, count |-> k] : k \in 0..MaxCount}

ASSUME CircularBufferAssumption ==
    /\ Masked \subseteq Callers
    /\ MaxSize \in Nat \ {0} /\ MaxCount \in Nat
    /\ Requests \in [Callers -> SUBSET Calls]
    /\ Wrap \in Nat /\ MaxSize < Wrap
    /\ NoItem \notin Items

\* Nobody else is inside with interrupts off.
CanRun(t) == \A u \in Masked \ {t} : pc[u] = "idle"

\* Caller t is at one label, may run, and goes on to another.
Goto(t, from, to) == /\ pc[t] = from /\ CanRun(t)
                     /\ pc' = [pc EXCEPT ![t] = to]

-----------------------------------------------------------------------------
(* Mutants, each the bug its name says, for the runs to catch. *)

\* The usual form of the lock: a failed exchange leaves no trace.
StoreExpectedLocal(t) ==
    /\ Goto(t, "miss", "load")
    /\ UNCHANGED <<cb, expected_false, call, exp, idx, done, got, contended>>

BeginAtHead(t) ==
    /\ Goto(t, "begin", "check")
    /\ idx' = [idx EXCEPT ![t] = head]
    /\ UNCHANGED <<cb, expected_false, call, exp, done, got, contended>>

StoreIndexAsTail(t) ==
    /\ Goto(t, "store", "unlock")
    /\ tail' = idx[t]
    /\ UNCHANGED <<data, size, head, locked, expected_false, call, exp, idx, done, got, contended>>

-----------------------------------------------------------------------------
\* cb_init leaves the buffer empty and unlocked.
cb_init ==
    /\ data = [s \in Slots |-> NoItem]
    /\ size = 0 /\ head = 0 /\ tail = 0 /\ locked = FALSE

Init ==
    /\ cb_init
    /\ expected_false = FALSE
    /\ pc = [t \in Callers |-> "idle"]
    /\ call = [t \in Callers |-> NoCall]
    /\ exp = [t \in Callers |-> FALSE]
    /\ idx = [t \in Callers |-> 0]
    /\ done = [t \in Callers |-> 0]
    /\ got = [t \in Callers |-> <<>>]
    /\ contended = FALSE

\* Someone calls cb_push or cb_pop.
Invoke(t) ==
    /\ Goto(t, "idle", "load")
    /\ \E c \in Requests[t] : call' = [call EXCEPT ![t] = c]
    /\ contended' = (contended \/ \E u \in Callers \ {t} : pc[u] # "idle")
    /\ UNCHANGED <<cb, expected_false, exp, idx, done, got>>

\* The expected value of the exchange is read from memory.
LoadExpected(t) ==
    /\ Goto(t, "load", "cas")
    /\ exp' = [exp EXCEPT ![t] = expected_false]
    /\ UNCHANGED <<cb, expected_false, call, idx, done, got, contended>>

\* The exchange: it succeeds if the lock word has the expected value.
CasHit(t) ==
    /\ locked = exp[t]
    /\ Goto(t, "cas", "begin")
    /\ locked' = TRUE
    /\ exp' = [exp EXCEPT ![t] = FALSE]
    /\ UNCHANGED <<data, size, head, tail, expected_false, call, idx, done, got, contended>>

CasMiss(t) ==
    /\ locked # exp[t]
    /\ Goto(t, "cas", "miss")
    /\ exp' = [exp EXCEPT ![t] = locked]
    /\ UNCHANGED <<cb, expected_false, call, idx, done, got, contended>>

\* A failed exchange stores what it found in expected_false, and tries again.
StoreExpected(t) ==
    /\ Goto(t, "miss", "load")
    /\ expected_false' = exp[t]
    /\ exp' = [exp EXCEPT ![t] = FALSE]
    /\ UNCHANGED <<cb, call, idx, done, got, contended>>

\* The local copy of tail (cb_push) or head (cb_pop).
Begin(t) ==
    /\ Goto(t, "begin", "check")
    /\ idx' = [idx EXCEPT ![t] = IF call[t].op = "push" THEN tail ELSE head]
    /\ UNCHANGED <<cb, expected_false, call, exp, done, got, contended>>

\* The buffer is full for a push, empty for a pop.
Exhausted(t) == size = IF call[t].op = "push" THEN MaxSize ELSE 0

\* The loop condition and the break.
Check(t) ==
    /\ Goto(t, "check", IF done[t] = call[t].count \/ Exhausted(t)
                        THEN "store" ELSE "copy")
    /\ UNCHANGED <<cb, expected_false, call, exp, idx, done, got, contended>>

\* memcpy of one element, and the local index moves on.
CopyIn(t) ==
    /\ call[t].op = "push"
    /\ Goto(t, "copy", "count")
    /\ data' = [data EXCEPT ![idx[t]] = call[t].items[done[t] + 1]]
    /\ idx' = [idx EXCEPT ![t] = (idx[t] + 1) % MaxSize]
    /\ UNCHANGED <<size, head, tail, locked, expected_false, call, exp, done, got, contended>>

CopyOut(t) ==
    /\ call[t].op = "pop"
    /\ Goto(t, "copy", "count")
    /\ got' = [got EXCEPT ![t] = Append(got[t], data[idx[t]])]
    /\ idx' = [idx EXCEPT ![t] = (idx[t] + 1) % MaxSize]
    /\ UNCHANGED <<cb, expected_false, call, exp, done, contended>>

\* cb->size++ or cb->size--
Count(t) ==
    /\ Goto(t, "count", "check")
    /\ size' = (IF call[t].op = "push" THEN size + 1 ELSE size - 1) % Wrap
    /\ done' = [done EXCEPT ![t] = @ + 1]
    /\ UNCHANGED <<data, head, tail, locked, expected_false, call, exp, idx, got, contended>>

\* The new tail or head is published.
StoreIndex(t) ==
    /\ Goto(t, "store", "unlock")
    /\ IF call[t].op = "push"
       THEN tail' = idx[t] /\ UNCHANGED head
       ELSE head' = idx[t] /\ UNCHANGED tail
    /\ UNCHANGED <<data, size, locked, expected_false, call, exp, idx, done, got, contended>>

\* The lock word is cleared and the call returns.
Unlock(t) ==
    /\ Goto(t, "unlock", "idle")
    /\ locked' = FALSE
    /\ call' = [call EXCEPT ![t] = NoCall]
    /\ done' = [done EXCEPT ![t] = 0]
    /\ got' = [got EXCEPT ![t] = <<>>]
    /\ idx' = [idx EXCEPT ![t] = 0]
    /\ UNCHANGED <<data, size, head, tail, expected_false, exp, contended>>

Step(t) == LoadExpected(t) \/ CasHit(t) \/ CasMiss(t) \/ StoreExpected(t)
           \/ Begin(t) \/ Check(t) \/ CopyIn(t) \/ CopyOut(t) \/ Count(t)
           \/ StoreIndex(t) \/ Unlock(t)

Next == \E t \in Callers : Invoke(t) \/ Step(t)

\* An interrupted caller runs again whenever the interrupt has returned: the
\* timer keeps ticking and the round-robin scheduler resumes every thread.
Fairness == \A t \in Callers : SF_vars(Step(t))

Spec == Init /\ [][Next]_vars
FairSpec == Spec /\ Fairness

-----------------------------------------------------------------------------
(* Properties. *)

\* Every index stays inside the buffer's memory, interrupted or not.
TypeOK ==
    /\ data \in [Slots -> Items \cup {NoItem}]
    /\ size \in Sizes /\ head \in Slots /\ tail \in Slots
    /\ locked \in BOOLEAN /\ expected_false \in BOOLEAN
    /\ pc \in [Callers -> {"idle", "load", "cas", "miss", "begin", "check",
                           "copy", "count", "store", "unlock"}]
    /\ call \in [Callers -> Calls \cup {NoCall}]
    /\ exp \in [Callers -> BOOLEAN]
    /\ idx \in [Callers -> Slots]
    /\ done \in [Callers -> 0..MaxCount]
    /\ contended \in BOOLEAN

InCritical(t) == pc[t] \in {"begin", "check", "copy", "count", "store", "unlock"}

\* circular_buffer.c:24 and :42, "Wait for lock": nobody is between taking
\* and clearing the lock word while someone else is.
MutualExclusion ==
    \A t, u \in Callers : InCritical(t) /\ InCritical(u) => t = u

\* The number of items the open call of t has counted in size and not
\* published in head or tail.
Unpublished(t) == IF pc[t] \in {"check", "copy", "count", "store"} THEN done[t] ELSE 0

\* The committed number of items.
Committed ==
    LET Busy == {t \in Callers : Unpublished(t) > 0}
    IN  IF Busy = {} THEN size
        ELSE LET t == CHOOSE t \in Busy : TRUE
             IN  IF call[t].op = "push" THEN size - done[t] ELSE size + done[t]

\* size, head and tail describe the same stretch of the ring, also while a
\* call is half done: the bookkeeping that cb_push and cb_pop each update one
\* half of.
RingConsistent ==
    ~contended =>
        /\ Committed \in 0..MaxSize
        /\ (head + Committed) % MaxSize = tail
        /\ size <= MaxSize

\* The queue the buffer stands for: the committed items from head on.
Contents == [i \in 1..Committed |-> data[(head + i - 1) % MaxSize]]

\* The state of the abstract queue.  A call takes effect where it publishes
\* its index; once calls have overlapped the queue is broken and stays so.
AbstractQueue == IF contended THEN <<>> ELSE Contents
AbstractReq == IF contended THEN [t \in Callers |-> NoCall] ELSE call
AbstractRes ==
    [t \in Callers |->
        IF contended \/ pc[t] # "unlock" THEN [taken |-> FALSE, items |-> <<>>]
        ELSE [taken |-> TRUE,
              items |-> IF call[t].op = "push" THEN SubSeq(call[t].items, 1, done[t])
                                               ELSE got[t]]]

Fifo == INSTANCE BoundedFifo WITH
    Capacity <- MaxSize, queue <- AbstractQueue, req <- AbstractReq,
    res <- AbstractRes, broken <- contended

\* As long as no call interrupts another, cb_push and cb_pop implement the
\* bounded queue: no item is lost, duplicated or reordered, the count returned
\* is right, and every call returns.
ImplementsFifo == Fifo!Spec

\* Every call returns, also when it finds the lock taken by a caller that
\* cannot run until it has returned.
CallsReturn == \A t \in Callers : (pc[t] # "idle") ~> (pc[t] = "idle")
=============================================================================
