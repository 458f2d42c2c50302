---------------------------- MODULE BoundedFifo ----------------------------
(* What a user of Exynos_OSAL_Queue is promised: a first-in first-out queue  *)
(* of non-null pointers holding at most Capacity of them.  An operation is   *)
(* one step because the code brackets it with qMutex.  ret is the value the  *)
(* last call returned, so that refusals and the order of delivery are part   *)
(* of the promise.                                                           *)
EXTENDS Naturals, Integers, Sequences

CONSTANTS Data,       \* the pointers that are queued
          NULL,       \* the null pointer, returned when there is nothing
          Capacity    \* how many pointers fit

VARIABLES fifo,       \* the queued pointers, oldest first
          ret         \* what the last call returned

fifoVars == <<fifo, ret>>

Init == fifo = <<>> /\ ret = 0

Queue(d) ==
    \/ /\ Len(fifo) < Capacity
       /\ fifo' = Append(fifo, d)
       /\ ret' = 0
    \/ /\ Len(fifo) = Capacity
       /\ ret' = -1
       /\ UNCHANGED fifo

Dequeue ==
    \/ /\ fifo # <<>>
       /\ ret' = Head(fifo)
       /\ fifo' = Tail(fifo)
    \/ /\ fifo = <<>>
       /\ ret' = NULL
       /\ UNCHANGED fifo

GetElemNum == ret' = Len(fifo) /\ UNCHANGED fifo

ResetQueue == fifo' = <<>> /\ ret' = 0

Next == \/ \E d \in Data : Queue(d)
        \/ Dequeue
        \/ GetElemNum
        \/ ResetQueue

Spec == Init /\ [][Next]_fifoVars
=============================================================================
