----------------------------- MODULE Scheduler -----------------------------
(***************************************************************************)
(* Threads and the round-robin scheduler: scheduler.c, thread.c, the       *)
(* timer and yield entries of interrupt_handlers_asm.asm, and the part of  *)
(* process.c that makes a thread.                                          *)
(*                                                                         *)
(* A thread is the page its structure and its stack live in; the kernel's  *)
(* main thread has a structure on the heap, made by the first interrupt.   *)
(* The thread pool is the queue that circular_buffer.c implements, used    *)
(* atomically.  What a thread computes is left out: cpu says whose         *)
(* computation the processor executes, by thread id.  A saved stack        *)
(* pointer is the id of the computation it leads back to and the parity of *)
(* the number of times that computation had been interrupted, which tells  *)
(* the last frame from an older one.                                       *)
(*                                                                         *)
(* new_process makes user threads, which never give the processor back.    *)
(* The main thread makes kernel threads as well, the way start_scheduler   *)
(* does (new_thread, cb_push): the only ones that can return into          *)
(* thread_exit.                                                            *)
(***************************************************************************)
EXTENDS Integers, Sequences, FiniteSets

CONSTANTS
    Pages,       \* the pages REQUEST_PAGE can give to threads
    Boot,        \* the main thread's structure
    NoThread,    \* current_thread before the first interrupt
    PoolCap,     \* max_size of thread_pool (256 in the code)
    MaxTid       \* bound on next_tid

ASSUME SchedulerAssumption ==
    /\ Pages # {} /\ IsFiniteSet(Pages)
    /\ Boot \notin Pages /\ NoThread \notin Pages \cup {Boot}
    /\ PoolCap \in Nat /\ Cardinality(Pages) + 1 <= PoolCap
    /\ MaxTid \in Nat \ {0}

Threads == Pages \cup {Boot}
Tids == 0 .. MaxTid
BootTid == 0
VsyncTid == 1

VARIABLES
    scheduler_inited, first, current_thread, next_tid,
    pool,    \* thread_pool, oldest first
    free,    \* the pages in Pages that the page allocator has free
    tid,     \* fields of the structures
    dead,    \* state has THREAD_DEAD set
    user,    \* the frame has user-mode selectors, and flags without IF
    rsp,
    rdi,     \* the argument has been put into the frame
    cpu,
    spawn,   \* where the main thread is in new_process
    spawned, \* its variable t
    latest   \* parity of the interruptions of each computation so far

fields == <<tid, dead, user, rsp, rdi>>
vars == <<scheduler_inited, first, current_thread, next_tid, pool, free,
          fields, cpu, spawn, spawned, latest>>

Frames == Tids \X {0, 1}

-----------------------------------------------------------------------------
(* Helpers, and before each its mutants. *)

PoolPushFront(q, t) == IF Len(q) = PoolCap THEN q ELSE <<t>> \o q
PoolPushShort(q, t) == IF Len(q) + 1 = PoolCap THEN q ELSE Append(q, t)

\* cb_push and cb_pop of one element; nobody looks at the result.
PoolPush(q, t) == IF Len(q) = PoolCap THEN q ELSE Append(q, t)

\* Interrupts are off before start_scheduler ends and in user threads, which
\* cannot yield either.
Interruptible == /\ scheduler_inited
                 /\ ~first => ~user[current_thread]

\* A switch away from the running thread: whether it is queued and whether
\* its page is freed, and which frame is saved.
SwitchWith(requeue, release, frame) ==
    /\ Interruptible /\ ~first
    /\ latest' = [latest EXCEPT ![cpu] = 1 - @]
    /\ rsp' = [rsp EXCEPT ![current_thread] = frame]
    /\ LET pushed == IF requeue THEN PoolPush(pool, current_thread) ELSE pool
       IN  IF pushed = <<>>
           THEN UNCHANGED current_thread /\ pool' = pushed
           ELSE current_thread' = Head(pushed) /\ pool' = Tail(pushed)
    /\ free' = IF release THEN free \cup {current_thread} ELSE free
    /\ cpu' = rsp'[current_thread'][1]
    /\ UNCHANGED <<scheduler_inited, first, next_tid, tid, dead, user, rdi,
                   spawn, spawned>>

\* Mutants of the actions below, each the bug its name says.
SwitchRequeuesDead ==
    SwitchWith(TRUE, dead[current_thread], <<cpu, 1 - latest[cpu]>>)
SwitchLeaksDead ==
    SwitchWith(~dead[current_thread], FALSE, <<cpu, 1 - latest[cpu]>>)
SwitchWithoutSave ==
    SwitchWith(~dead[current_thread], dead[current_thread], rsp[current_thread])

NewProcessArgLost ==
    /\ cpu = BootTid /\ spawn = "arg"
    /\ spawn' = "none" /\ spawned' = NoThread
    /\ UNCHANGED <<scheduler_inited, first, current_thread, next_tid, pool, free,
                   fields, cpu, latest>>

-----------------------------------------------------------------------------
Init ==
    /\ scheduler_inited = FALSE /\ first = TRUE
    /\ current_thread = NoThread /\ next_tid = 1
    /\ pool = <<>> /\ free = Pages
    /\ tid = [t \in Threads |-> 0]
    /\ dead = [t \in Threads |-> FALSE]
    /\ user = [t \in Threads |-> FALSE]
    /\ rsp = [t \in Threads |-> <<0, 0>>]
    /\ latest = [n \in Tids |-> 0]
    /\ rdi = [t \in Threads |-> FALSE]
    /\ cpu = BootTid
    /\ spawn = "none" /\ spawned = NoThread

-----------------------------------------------------------------------------
(* thread.c *)

\* new_thread puts a structure and a first frame into a fresh page.
new_thread(p, isUser) ==
    /\ p \in free /\ next_tid <= MaxTid
    /\ free' = free \ {p}
    /\ tid' = [tid EXCEPT ![p] = next_tid]
    /\ dead' = [dead EXCEPT ![p] = FALSE]
    /\ user' = [user EXCEPT ![p] = isUser]
    /\ rsp' = [rsp EXCEPT ![p] = <<next_tid, 0>>]
    /\ rdi' = [rdi EXCEPT ![p] = FALSE]
    /\ next_tid' = next_tid + 1

\* A kernel thread's function returns into thread_exit, which yields for ever.
\* The main thread and the vsync thread do not return, and a user thread that
\* does cannot reach the scheduler: its int 3 faults.
thread_exit ==
    /\ ~first /\ cpu \notin {BootTid, VsyncTid}
    /\ ~user[current_thread] /\ ~dead[current_thread]
    /\ dead' = [dead EXCEPT ![current_thread] = TRUE]
    /\ UNCHANGED <<scheduler_inited, first, current_thread, next_tid, pool, free,
                   tid, user, rsp, rdi, cpu, spawn, spawned, latest>>

-----------------------------------------------------------------------------
(* scheduler.c *)

\* The main thread, with interrupts off, makes the pool and the vsync thread.
start_scheduler ==
    /\ ~scheduler_inited
    /\ \E p \in Pages : /\ new_thread(p, FALSE)
                        /\ pool' = PoolPush(<<>>, p)
    /\ scheduler_inited' = TRUE
    /\ UNCHANGED <<first, current_thread, cpu, spawn, spawned, latest>>

\* The first interrupt makes the structure of the running main thread.
FirstSwitch ==
    /\ Interruptible /\ first
    /\ first' = FALSE
    /\ current_thread' = Boot
    /\ tid' = [tid EXCEPT ![Boot] = BootTid]
    /\ dead' = [dead EXCEPT ![Boot] = FALSE]
    /\ UNCHANGED <<scheduler_inited, next_tid, pool, free, user, rsp, rdi,
                   cpu, spawn, spawned, latest>>

\* get_next_thread, in the timer interrupt and in yield.  The running thread
\* goes to the end of the pool, or its page is freed if it is dead, and the
\* head of the pool is resumed from its saved stack pointer.
get_next_thread ==
    SwitchWith(~dead[current_thread], dead[current_thread], <<cpu, 1 - latest[cpu]>>)

-----------------------------------------------------------------------------
(* process.c: the main thread, with interrupts on. *)

NewProcessThread ==
    /\ scheduler_inited /\ cpu = BootTid /\ spawn = "none"
    /\ \E p \in free, isUser \in BOOLEAN : new_thread(p, isUser) /\ spawned' = p
    /\ spawn' = "push"
    /\ UNCHANGED <<scheduler_inited, first, current_thread, pool, cpu, latest>>

NewProcessPush ==
    /\ cpu = BootTid /\ spawn = "push"
    /\ pool' = PoolPush(pool, spawned)
    /\ IF user[spawned]
       THEN spawn' = "arg" /\ UNCHANGED spawned
       ELSE spawn' = "none" /\ spawned' = NoThread
    /\ UNCHANGED <<scheduler_inited, first, current_thread, next_tid, free,
                   fields, cpu, latest>>

\* The argument is written into the frame after the thread was published.
NewProcessArg ==
    /\ cpu = BootTid /\ spawn = "arg"
    /\ rdi' = [rdi EXCEPT ![spawned] = TRUE]
    /\ spawn' = "none" /\ spawned' = NoThread
    /\ UNCHANGED <<scheduler_inited, first, current_thread, next_tid, pool, free,
                   tid, dead, user, rsp, cpu, latest>>

new_process == NewProcessThread \/ NewProcessPush \/ NewProcessArg

Next == start_scheduler \/ FirstSwitch \/ get_next_thread \/ thread_exit
        \/ new_process

\* The timer never stops ticking; the main thread gets to start_scheduler.
Fairness == /\ WF_vars(start_scheduler)
            /\ WF_vars(FirstSwitch \/ get_next_thread)

Spec == Init /\ [][Next]_vars
FairSpec == Spec /\ Fairness

-----------------------------------------------------------------------------
(* Properties. *)

TypeOK ==
    /\ scheduler_inited \in BOOLEAN /\ first \in BOOLEAN
    /\ current_thread \in IF first THEN {NoThread} ELSE Threads
    /\ next_tid \in 1 .. (MaxTid + 1)
    /\ pool \in Seq(Threads)
    /\ free \subseteq Pages
    /\ tid \in [Threads -> Tids] /\ rsp \in [Threads -> Frames]
    /\ latest \in [Tids -> {0, 1}]
    /\ dead \in [Threads -> BOOLEAN] /\ user \in [Threads -> BOOLEAN]
    /\ rdi \in [Threads -> BOOLEAN]
    /\ cpu \in Tids
    /\ spawn \in {"none", "push", "arg"}
    /\ spawned \in IF spawn = "none" THEN {NoThread} ELSE Pages

InPool == {pool[j] : j \in 1..Len(pool)}
Unpublished == IF spawn = "push" THEN {spawned} ELSE {}
Running == IF first THEN {} ELSE {current_thread}

\* Every thread is in exactly one place: running, in the pool once, or about
\* to be put there.  None is lost, queued twice, or queued while its page is
\* free and about to become another thread.
OneHome ==
    /\ \A j, k \in 1..Len(pool) : pool[j] = pool[k] => j = k
    /\ InPool \cap Running = {} /\ InPool \cap Unpublished = {}
    /\ Running \cap Unpublished = {}
    /\ InPool \cup Running \cup Unpublished
          = (Pages \ free) \cup (IF first THEN {} ELSE {Boot})

\* A switch resumes the computation the thread structure belongs to, where
\* it was interrupted: the saved stack pointer of a waiting thread is its own
\* last one, although pages are freed and become other threads, the running
\* computation is that of current_thread, and no id is given twice.
ContextIntegrity ==
    /\ \A t \in InPool \cup Unpublished : rsp[t] = <<tid[t], latest[tid[t]]>>
    /\ cpu = IF first THEN BootTid ELSE tid[current_thread]
    /\ \A t, u \in InPool \cup Running \cup Unpublished : tid[t] = tid[u] => t = u

\* thread.c:17, "should be destroyed after 1st yield": a dead thread only runs
\* up to its next switch, so that it never waits in the pool.
DestroyedAfterFirstYield ==
    \A t \in InPool \cup Unpublished : ~dead[t]

\* A user thread that runs without its argument was dispatched between the
\* push and the store at the end of new_process; nowhere else is it lost.
ArgumentMissedOnlyInWindow ==
    ~first => (user[current_thread] /\ ~rdi[current_thread]
                 => spawn = "arg" /\ spawned = current_thread)

\* Round robin starves nobody: a waiting thread gets the processor, unless a
\* user thread gets it first, which cannot be interrupted and keeps it.
WaitingThreadRuns ==
    \A t \in Threads : (t \in InPool) ~> \/ Running = {t}
                                         \/ \E u \in Running : user[u]

\* The page of a thread that has returned goes back to the page allocator.
DeadThreadFreed ==
    \A t \in Pages : (t \notin free /\ dead[t]) ~> (t \in free)
=============================================================================
