------------------------- MODULE MCCircularBuffer --------------------------
(***************************************************************************)
(* Two callers: the kernel's main thread, which moves one or two items at  *)
(* a time (a pipe), and the scheduler inside an interrupt, which moves one *)
(* (a thread).  On a ring of two wrap-around, a full and an empty buffer   *)
(* and partial transfers all happen.                                       *)
(***************************************************************************)
EXTENDS CircularBuffer

CONSTANTS MainThread, InInterrupt, ItemA, ItemB

BothCallers == {MainThread, InInterrupt}
InterruptOnly == {InInterrupt}
TwoItems == {ItemA, ItemB}

Push(items) == [op |-> "push", items |-> items, count |-> Len(items)]
Pop(count) == [op |-> "pop", items |-> <<>>, count |-> count]

RequestsOf == [t \in BothCallers |->
    IF t = MainThread THEN {Push(<<ItemA>>), Push(<<ItemA, ItemB>>), Pop(1), Pop(2)}
                      ELSE {Push(<<ItemB>>), Pop(1)}]
=============================================================================
