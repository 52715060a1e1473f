---------------------------- MODULE BoundedFifo ----------------------------
(***************************************************************************)
(* What circular_buffer.c promises its callers (the thread pool, the pipes *)
(* of the VFS): a queue of at most Capacity items.  A push appends the     *)
(* longest prefix of its items that fits, a pop takes the oldest items, at *)
(* most as many as asked for, and each takes effect at one instant between *)
(* its call and its return.  The promise is for calls that do not overlap: *)
(* the first one that does breaks the queue for good.                      *)
(***************************************************************************)
EXTENDS Integers, Sequences

CONSTANTS Callers, Capacity, Items, MaxCount

VARIABLES queue, \* the items, oldest first
          req,   \* the call each caller has open
          res,   \* whether the open call has taken effect, and on which items
          broken \* calls have overlapped: nothing is promised any more

vars == <<queue, req, res, broken>>

\* A request of either kind; a pop names only a number.
Push(items) == [op |-> "push", items |-> items, count |-> Len(items)]
Pop(count) == [op |-> "pop", items |-> <<>>, count |-> count]
NoCall == [op |-> "none", items |-> <<>>, count |-> 0]

\* res of a call that has not taken effect, and of one that has.
Pending == [taken |-> FALSE, items |-> <<>>]
Taken(items) == [taken |-> TRUE, items |-> items]

ItemSeqs == UNION {[1..k -> Items] : k \in 0..MaxCount}
Calls == {Push(s) : s \in ItemSeqs} \cup {Pop(k) : k \in 0..MaxCount}

Smaller(a, b) == IF a < b THEN a ELSE b

Init == /\ queue = <<>>
        /\ req = [t \in Callers |-> NoCall]
        /\ res = [t \in Callers |-> Pending]
        /\ broken = FALSE

Open == {t \in Callers : req[t] # NoCall}

Invoke(t) == /\ ~broken /\ Open = {}
             /\ \E c \in Calls : req' = [req EXCEPT ![t] = c]
             /\ UNCHANGED <<queue, res, broken>>

DoPush(t) == LET k == Smaller(req[t].count, Capacity - Len(queue))
             IN  /\ req[t].op = "push" /\ res[t] = Pending
                 /\ queue' = queue \o SubSeq(req[t].items, 1, k)
                 /\ res' = [res EXCEPT ![t] = Taken(SubSeq(req[t].items, 1, k))]
                 /\ UNCHANGED <<req, broken>>

DoPop(t) == LET k == Smaller(req[t].count, Len(queue))
            IN  /\ req[t].op = "pop" /\ res[t] = Pending
                /\ queue' = SubSeq(queue, k + 1, Len(queue))
                /\ res' = [res EXCEPT ![t] = Taken(SubSeq(queue, 1, k))]
                /\ UNCHANGED <<req, broken>>

Return(t) == /\ req[t] # NoCall /\ res[t] # Pending
             /\ req' = [req EXCEPT ![t] = NoCall]
             /\ res' = [res EXCEPT ![t] = Pending]
             /\ UNCHANGED <<queue, broken>>

\* A call while another one is open.
Overlap == /\ Open # {}
           /\ broken' = TRUE /\ queue' = <<>>
           /\ req' = [t \in Callers |-> NoCall]
           /\ res' = [t \in Callers |-> Pending]

Step(t) == DoPush(t) \/ DoPop(t) \/ Return(t)

Next == Overlap \/ \E t \in Callers : Invoke(t) \/ Step(t)

Safety == Init /\ [][Next]_vars

Spec == Safety /\ \A t \in Callers : WF_vars(Step(t))
=============================================================================
