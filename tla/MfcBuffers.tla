----------------------------- MODULE MfcBuffers -----------------------------
(* The buffers of one queue of the video driver as the library in front of   *)
(* it (libExynosVideoApi) keeps them: an array of slots that says which      *)
(* buffer is bound to which index of the driver and whether it is queued     *)
(* there.  Three callers: the thread that enqueues and the thread that       *)
(* dequeues, each under the mutex of its own turn, and a flush that takes    *)
(* the first mutex, stops the stream, and takes the second.                  *)
(*                                                                           *)
(* The decoder's and the encoder's queues differ in small ways: see Sides.   *)
EXTENDS Integers

CONSTANTS
    Buffers,   \* the buffers the caller has
    NumSlots,  \* the buffers asked of the driver
    Prompt,    \* the driver ends with a buffer after the call that queued it
    Kinds,     \* the queues, each with what fails: see KindsOf
    None

\* The decoder's two queues, the encoder's, and the encoder's input when the
\* client passes handles of buffers.
Sides == {"DecIn", "DecOut", "Enc", "EncMeta"}
\* A setup that is refused, one of which something later fails, a stream that
\* does not start, a buffer that is not queued.
KindsOf == [side : Sides, faults : SUBSET {"refused", "later", "run", "queue"}]

VARIABLES
    kind,     \* which queue this is, and what fails (kept)
    slots,    \* pInbuf or pOutbuf: index -> what the library knows of it
    array,    \* the memory of slots: "none", "live", "freed" and still pointed to
    ready,    \* the caller's setup is done
    on,       \* bStreamonInbuf, bStreamonOutbuf
    driver,   \* index -> the buffer and its state in the driver
    stream,   \* the driver streams
    idle,     \* buffers the caller has and may enqueue
    enqueue, dequeue, flush,  \* where the three callers are
    wrong     \* what has gone wrong: see Harms

Slots == 1 .. NumSlots
Bound == kind.side # "EncMeta"
Fails(f) == f \in kind.faults

vars == <<kind, slots, array, ready, on, driver, stream, idle, enqueue, dequeue, flush, wrong>>
libraryVars == <<slots, array, ready, on>>
callers == <<enqueue, dequeue, flush>>

Unqueued == [buf |-> None, queued |-> FALSE, private |-> None]
Nothing == [buf |-> None, at |-> "user"]
Rest == [pc |-> "rest", index |-> 0, buf |-> None]

\* A buffer the library cannot find or the driver does not take, one returned
\* under another's name, memory freed twice.
Harms == {"refusal", "mistaken", "double free"}

TypeOK ==
    /\ kind \in Kinds
    /\ slots \in [Slots -> [buf : Buffers \cup {None}, queued : BOOLEAN,
                            private : Buffers \cup {None}]]
    /\ array \in {"none", "live", "freed"}
    /\ ready \in BOOLEAN /\ on \in BOOLEAN /\ stream \in BOOLEAN
    /\ driver \in [Slots -> [buf : Buffers \cup {None}, at : {"user", "held", "done"}]]
    /\ idle \subseteq Buffers
    /\ enqueue.pc \in {"rest", "marked", "queued", "private"}
    /\ dequeue.pc \in {"rest", "waits", "has", "returned"}
    /\ flush \in {"rest", "streams", "stopped", "cleared"}
    /\ wrong \subseteq Harms

Init ==
    /\ kind \in Kinds
    /\ slots = [i \in Slots |-> Unqueued]
    /\ array = "none" /\ ready = FALSE /\ on = FALSE /\ stream = FALSE
    /\ driver = [i \in Slots |-> Nothing]
    /\ idle = Buffers
    /\ enqueue = Rest /\ dequeue = Rest /\ flush = "rest"
    /\ wrong = {}

Least(S) == CHOOSE i \in S : \A j \in S : i <= j

Harm(h) == wrong' = wrong \cup {h}

-----------------------------------------------------------------------------
(* The setup in the caller's turn, repeated until it succeeds: REQBUFS, the  *)
(* array, a slot for each buffer.  (H264CodecSrcSetup stops the stream at    *)
(* its end, so the buffer that carried the header is not queued any more.)   *)

\* Setup_Inbuf, Setup_Outbuf refused: they free the array they find, without
\* forgetting it.
SetupRefused ==
    /\ Fails("refused")
    /\ ~ ready
    /\ array' = IF array = "none" THEN "none" ELSE "freed"
    /\ IF array = "freed" THEN Harm("double free") ELSE UNCHANGED wrong
    /\ UNCHANGED <<kind, slots, ready, on, driver, stream, idle, callers>>

\* Setup succeeds, what follows it in the caller's setup does not.
SetupLater ==
    /\ Fails("later")
    /\ ~ ready
    /\ array' = "live"
    /\ UNCHANGED <<kind, slots, ready, on, driver, stream, idle, callers, wrong>>

\* Register_Inbuf, Register_Outbuf: a buffer takes the first slot that has none.
Registered ==
    CHOOSE f \in [Slots -> Buffers \cup {None}] :
        /\ \A b \in Buffers : \E i \in Slots : \A j \in Slots : f[j] = b <=> j = i
        /\ \A i, j \in Slots : i < j /\ f[j] # None => f[i] # None

Setup ==
    /\ ~ ready
    /\ array' = "live"
    /\ ready' = TRUE
    /\ slots' = [i \in Slots |-> IF Bound THEN [Unqueued EXCEPT !.buf = Registered[i]]
                                         ELSE Unqueued]
    /\ UNCHANGED <<kind, on, driver, stream, idle, callers, wrong>>

\* Finalize, when the callers' threads have ended.
Finalize ==
    /\ enqueue.pc = "rest" /\ dequeue.pc = "rest" /\ flush = "rest"
    /\ IF array = "freed" THEN Harm("double free") ELSE UNCHANGED wrong
    /\ slots' = [i \in Slots |-> Unqueued]
    /\ array' = "none" /\ ready' = FALSE /\ on' = FALSE /\ stream' = FALSE
    /\ driver' = [i \in Slots |-> Nothing]
    /\ idle' = Buffers
    /\ UNCHANGED <<kind, callers>>

-----------------------------------------------------------------------------
(* Enqueue and Run, in one turn of the thread that enqueues.                 *)

\* The slot of the buffer, unless it is queued; any slot that is not.
FindBound(b) == {i \in Slots : ~ slots[i].queued /\ slots[i].buf = b}
FindEmpty == {i \in Slots : ~ slots[i].queued}
Find(b) == IF Bound THEN FindBound(b) ELSE FindEmpty

\* Under the library's mutex: the slot is chosen and marked.
EnqueueMarks(b) ==
    /\ enqueue.pc = "rest"
    /\ flush = "rest"
    /\ ready
    /\ b \in idle
    /\ Find(b) # {}
    /\ enqueue' = [pc |-> "marked", index |-> Least(Find(b)), buf |-> b]
    /\ slots' = [slots EXCEPT ![Least(Find(b))].queued = TRUE, ![Least(Find(b))].buf = b]
    /\ UNCHANGED <<kind, array, ready, on, driver, stream, idle, dequeue, flush, wrong>>

EnqueueFindsNone(b) ==
    /\ enqueue.pc = "rest"
    /\ flush = "rest"
    /\ ready
    /\ b \in idle
    /\ Find(b) = {}
    /\ Harm("refusal")
    /\ UNCHANGED <<kind, libraryVars, driver, stream, idle, callers>>

\* VIDIOC_QBUF.
EnqueueQueues ==
    /\ enqueue.pc = "marked"
    /\ driver[enqueue.index].at = "user"
    /\ driver' = [driver EXCEPT ![enqueue.index] = [buf |-> enqueue.buf, at |-> "held"]]
    /\ idle' = idle \ {enqueue.buf}
    /\ enqueue' = [enqueue EXCEPT !.pc = "queued"]
    /\ UNCHANGED <<kind, libraryVars, stream, dequeue, flush, wrong>>

\* The driver has the index already, or the call fails.
EnqueueFails ==
    /\ enqueue.pc = "marked"
    /\ \/ driver[enqueue.index].at # "user" /\ Harm("refusal")
       \/ Fails("queue") /\ UNCHANGED wrong
    /\ slots' = [slots EXCEPT ![enqueue.index].queued = FALSE]
    /\ enqueue' = Rest
    /\ UNCHANGED <<kind, array, ready, on, driver, stream, idle, dequeue, flush>>

EnqueuePrivate ==
    /\ enqueue.pc = "queued"
    /\ slots' = [slots EXCEPT ![enqueue.index].private = enqueue.buf]
    /\ enqueue' = [enqueue EXCEPT !.pc = "private"]
    /\ UNCHANGED <<kind, array, ready, on, driver, stream, idle, dequeue, flush, wrong>>

\* Run_Inbuf, Run_Outbuf; the callers go on when it fails.
Run ==
    /\ enqueue.pc = "private"
    /\ enqueue' = Rest
    /\ \/ on' = TRUE /\ stream' = IF on THEN stream ELSE TRUE
       \/ Fails("run") /\ ~ on /\ UNCHANGED <<on, stream>>
    /\ UNCHANGED <<kind, slots, array, ready, driver, idle, dequeue, flush, wrong>>

-----------------------------------------------------------------------------
(* The driver.                                                               *)

MFC ==
    /\ stream
    /\ \E i \in Slots :
          /\ driver[i].at = "held"
          /\ Prompt => ~ (enqueue.pc = "queued" /\ enqueue.index = i)
          /\ driver' = [driver EXCEPT ![i].at = "done"]
    /\ UNCHANGED <<kind, libraryVars, stream, idle, callers, wrong>>

-----------------------------------------------------------------------------
(* Dequeue, in one turn of the thread that dequeues.                         *)

\* The flush waits for the second mutex from "cleared" on.
DequeueWaits ==
    /\ dequeue.pc = "rest"
    /\ ready
    /\ on
    /\ dequeue' = [dequeue EXCEPT !.pc = "waits"]
    /\ UNCHANGED <<kind, libraryVars, driver, stream, idle, enqueue, flush, wrong>>

\* VIDIOC_DQBUF returns a buffer, here any that is done.
DequeueHas ==
    /\ dequeue.pc = "waits"
    /\ \E i \in Slots :
          /\ driver[i].at = "done"
          /\ driver' = [driver EXCEPT ![i].at = "user"]
          /\ dequeue' = [pc |-> "has", index |-> i, buf |-> driver[i].buf]
    /\ UNCHANGED <<kind, libraryVars, stream, idle, enqueue, flush, wrong>>

\* It fails when the stream is off.
DequeueFails ==
    /\ dequeue.pc = "waits"
    /\ ~ stream
    /\ dequeue' = Rest
    /\ UNCHANGED <<kind, libraryVars, driver, stream, idle, enqueue, flush, wrong>>

Unmarks(i) == slots' = [slots EXCEPT ![i].queued = FALSE]

\* The call returns the slot i; 0 is a copy made before, nothing but its buffer.
Gives(i) == dequeue' = [dequeue EXCEPT !.pc = "returned", !.index = i]

\* The decoder returns nothing when the stream was stopped meanwhile; its
\* input queue clears the mark before that, its output queue does not.
DecInDequeues ==
    /\ kind.side = "DecIn" /\ dequeue.pc = "has"
    /\ Unmarks(dequeue.index)
    /\ IF on THEN Gives(dequeue.index) ELSE dequeue' = Rest
    /\ UNCHANGED <<kind, array, ready, on, driver, stream, idle, enqueue, flush, wrong>>

DecOutDequeues ==
    /\ kind.side = "DecOut" /\ dequeue.pc = "has"
    /\ IF on
       THEN Unmarks(dequeue.index) /\ Gives(dequeue.index)
       ELSE dequeue' = Rest /\ UNCHANGED slots
    /\ UNCHANGED <<kind, array, ready, on, driver, stream, idle, enqueue, flush, wrong>>

EncDequeues ==
    /\ kind.side = "Enc" /\ dequeue.pc = "has"
    /\ Unmarks(dequeue.index) /\ Gives(dequeue.index)
    /\ UNCHANGED <<kind, array, ready, on, driver, stream, idle, enqueue, flush, wrong>>

\* Variant with a defect: the slot itself is returned, as by the other queues.
ExtensionDequeueInPlace ==
    /\ kind.side = "EncMeta" /\ dequeue.pc = "has"
    /\ Unmarks(dequeue.index) /\ Gives(dequeue.index)
    /\ UNCHANGED <<kind, array, ready, on, driver, stream, idle, enqueue, flush, wrong>>

\* The slot is copied first: once unmarked it may take another buffer.
ExtensionDequeue ==
    /\ kind.side = "EncMeta" /\ dequeue.pc = "has"
    /\ IF slots[dequeue.index].private = dequeue.buf
       THEN UNCHANGED wrong ELSE Harm("mistaken")
    /\ Unmarks(dequeue.index) /\ Gives(0)
    /\ UNCHANGED <<kind, array, ready, on, driver, stream, idle, enqueue, flush>>

\* The caller reads whose buffer it is and has the buffer.
CallerReads ==
    /\ dequeue.pc = "returned"
    /\ idle' = idle \cup {dequeue.buf}
    /\ IF dequeue.index # 0 /\ slots[dequeue.index].private # dequeue.buf
       THEN Harm("mistaken") ELSE UNCHANGED wrong
    /\ dequeue' = Rest
    /\ UNCHANGED <<kind, libraryVars, driver, stream, enqueue, flush>>

-----------------------------------------------------------------------------
(* A flush: Stop, and the buffers go back to the caller.                     *)

\* The first mutex is taken, streamoff wakes who waits.
FlushStreamsOff ==
    /\ flush = "rest"
    /\ enqueue.pc = "rest"
    /\ ready
    /\ flush' = "streams"
    /\ IF on
       THEN /\ stream' = FALSE
            /\ driver' = [i \in Slots |-> Nothing]
       ELSE UNCHANGED <<stream, driver>>
    /\ UNCHANGED <<kind, libraryVars, idle, enqueue, dequeue, wrong>>

FlushStops ==
    /\ flush = "streams"
    /\ on' = FALSE
    /\ flush' = "stopped"
    /\ UNCHANGED <<kind, slots, array, ready, driver, stream, idle, enqueue, dequeue, wrong>>

\* Every mark is cleared.
Unmarked == [i \in Slots |-> [slots[i] EXCEPT !.queued = FALSE]]

FlushClears ==
    /\ flush = "stopped"
    /\ slots' = Unmarked
    /\ flush' = "cleared"
    /\ UNCHANGED <<kind, array, ready, on, driver, stream, idle, enqueue, dequeue, wrong>>

\* With the second mutex: the caller's queues are made anew with every buffer
\* (EnQueueAllBuffer), the marks cleared once more (Clear_Queued).
FlushEnqueuesAll ==
    /\ flush = "cleared"
    /\ dequeue.pc = "rest"
    /\ slots' = Unmarked
    /\ idle' = Buffers
    /\ flush' = "rest"
    /\ UNCHANGED <<kind, array, ready, on, driver, stream, enqueue, dequeue, wrong>>

-----------------------------------------------------------------------------
Enqueues ==
    \/ \E b \in Buffers : EnqueueMarks(b) \/ EnqueueFindsNone(b)
    \/ EnqueueQueues \/ EnqueueFails \/ EnqueuePrivate \/ Run
Dequeues ==
    \/ DequeueWaits \/ DequeueHas \/ DequeueFails
    \/ DecInDequeues \/ DecOutDequeues \/ EncDequeues \/ ExtensionDequeue \/ CallerReads
Flushes == FlushStreamsOff \/ FlushStops \/ FlushClears \/ FlushEnqueuesAll

Next ==
    \/ SetupRefused \/ SetupLater \/ Setup \/ Finalize
    \/ Enqueues \/ Dequeues \/ MFC \/ Flushes

\* A call, once begun, goes on; the client need not begin one.
EnqueueGoes == EnqueueQueues \/ EnqueueFails \/ EnqueuePrivate \/ Run
DequeueGoes ==
    \/ DequeueFails \/ CallerReads
    \/ DecInDequeues \/ DecOutDequeues \/ EncDequeues \/ ExtensionDequeue
FlushGoes == FlushStops \/ FlushClears \/ FlushEnqueuesAll

-----------------------------------------------------------------------------
\* What the driver has is marked, so that Find does not offer its index again,
\* and nobody else has it; what the caller has is not in the driver.
HeldIsMarked ==
    \A i \in Slots :
        driver[i].at # "user" => slots[i].queued /\ driver[i].buf \notin idle

\* No buffer of the caller is refused, none comes back under another's name,
\* and the array is freed once.
NoHarm == wrong = {}

Kept == TypeOK /\ HeldIsMarked /\ NoHarm

\* A flush ends: the stream it stops wakes the thread that dequeues.
FlushEnds == flush # "rest" ~> flush = "rest"
=============================================================================
