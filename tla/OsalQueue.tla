----------------------------- MODULE OsalQueue -----------------------------
(* The queue of osal/Exynos_OSAL_Queue.c: a circular list of nodes allocated *)
(* once, a read pointer first, a write pointer last and a count.  Component  *)
(* messages, port buffers and codec buffers all travel through it.  Nodes    *)
(* are numbered in the order QueueCreate links them.                         *)
EXTENDS Integers, Sequences

CONSTANTS Data,        \* the non-null pointers that are queued
          NULL,        \* the null pointer
          MaxNumElem   \* the argument of QueueCreate; MAX_QUEUE_ELEMENTS is 40

ASSUME OsalQueueAssumption ==
    /\ MaxNumElem \in Nat
    /\ MaxNumElem >= 2
    /\ NULL \notin Data
    /\ Data \cap Int = {}
    /\ NULL \notin Int

VARIABLES data,     \* node -> the pointer stored in it, or NULL
          first,    \* the node Dequeue reads
          last,     \* the node Queue writes
          numElem,  \* the count kept beside the pointers
          ret       \* the value the last call returned

ringVars == <<data, first, last, numElem, ret>>

\* QueueCreate links the first node and MaxNumElem - 2 more into a circle.
NumNodes == MaxNumElem - 1
Nodes == 0 .. NumNodes - 1
qNext(n) == IF n = NumNodes - 1 THEN 0 ELSE n + 1

RingInit ==
    /\ data = [n \in Nodes |-> NULL]
    /\ first = 0
    /\ last = 0
    /\ numElem = 0
    /\ ret = 0

Queue(d) ==
    IF data[last] # NULL \/ numElem >= MaxNumElem
    THEN /\ ret' = -1
         /\ UNCHANGED <<data, first, last, numElem>>
    ELSE /\ data' = [data EXCEPT ![last] = d]
         /\ last' = qNext(last)
         /\ numElem' = numElem + 1
         /\ ret' = 0
         /\ UNCHANGED first

\* Variant with a defect: the node read keeps its pointer.
DequeueKeepingData ==
    IF data[first] = NULL \/ numElem <= 0
    THEN /\ ret' = NULL
         /\ UNCHANGED <<data, first, last, numElem>>
    ELSE /\ ret' = data[first]
         /\ first' = qNext(first)
         /\ numElem' = numElem - 1
         /\ UNCHANGED <<data, last>>

Dequeue ==
    IF data[first] = NULL \/ numElem <= 0
    THEN /\ ret' = NULL
         /\ UNCHANGED <<data, first, last, numElem>>
    ELSE /\ ret' = data[first]
         /\ data' = [data EXCEPT ![first] = NULL]
         /\ first' = qNext(first)
         /\ numElem' = numElem - 1
         /\ UNCHANGED last

GetElemNum ==
    /\ ret' = numElem
    /\ UNCHANGED <<data, first, last, numElem>>

\* Variant with a defect: the write pointer is left where it was.
ResetQueueKeepingLast ==
    /\ data' = [n \in Nodes |-> NULL]
    /\ numElem' = 0
    /\ ret' = 0
    /\ UNCHANGED <<first, last>>

ResetQueue ==
    /\ data' = [n \in Nodes |-> NULL]
    /\ last' = first
    /\ numElem' = 0
    /\ ret' = 0
    /\ UNCHANGED first

RingNext ==
    \/ \E d \in Data : Queue(d)
    \/ Dequeue
    \/ GetElemNum
    \/ ResetQueue

RingSpec == RingInit /\ [][RingNext]_ringVars

-----------------------------------------------------------------------------
RingTypeOK ==
    /\ data \in [Nodes -> Data \cup {NULL}]
    /\ first \in Nodes
    /\ last \in Nodes
    /\ numElem \in 0 .. NumNodes
    /\ ret \in Data \cup {NULL} \cup {-1} \cup 0 .. NumNodes

\* The node k links after first.
At(k) == IF first + k < NumNodes THEN first + k ELSE first + k - NumNodes

\* How many links lead from first to node n.
Offset(n) == IF n >= first THEN n - first ELSE n - first + NumNodes

\* The three redundant records of how full the circle is agree: the nodes
\* that hold a pointer are the numElem ones from first on, and last is the
\* node after them.  Queue tests one of the records and Dequeue another
\* (Exynos_OSAL_Queue.c:116 and :137), so a drift between them loses a
\* pointer or hands out an old one.
Contiguous ==
    /\ \A n \in Nodes : data[n] # NULL <=> Offset(n) < numElem
    /\ last = At(IF numElem = NumNodes THEN 0 ELSE numElem)

\* The pointers in the order Dequeue will return them.
Contents == [k \in 1 .. numElem |-> data[At(k - 1)]]

Fifo == INSTANCE BoundedFifo WITH fifo <- Contents, Capacity <- NumNodes

\* The circle behaves as a bounded first-in first-out queue: nothing is lost,
\* duplicated or reordered, Queue refuses exactly when MaxNumElem - 1
\* pointers are held, Dequeue returns NULL exactly when there are none.
IsFifo == Fifo!Spec
=============================================================================
