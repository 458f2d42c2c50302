------------------------------ MODULE VencPorts ------------------------------
(***************************************************************************)
(* Both ports of the video encoder while it runs: the client's buffers,    *)
(* the four buffer threads, the MFC, and the command thread that flushes   *)
(* ports, goes to Idle and back, and ends the threads.                     *)
(*                                                                         *)
(* It is the encoder's usual set-up.  The input port copies: SrcInput      *)
(* converts the client's picture into one of the Codecs, the encoder's own *)
(* buffers, and gives the client's buffer back at once; the Codecs then    *)
(* travel between codecBufferQ, the thread's processData (hold), the MFC   *)
(* and SrcOutput.  The output port shares: the client's buffers Outs go    *)
(* into the MFC and come back filled.  A picture is its number, which is   *)
(* also its time stamp; EOS marks one of them.                             *)
(*                                                                         *)
(* Every thread works under its port's buffer mutex: from its first check  *)
(* to the end of its turn, so a thread that is not at "top" holds its      *)
(* mutex.  A turn is one step up to the place where it may block.          *)
(***************************************************************************)
EXTENDS Integers, Sequences, FiniteSets, SequencesExt

CONSTANTS
    Outs,         \* the client's output buffers
    Codecs,       \* pMFCEncInputBuffer
    NumFrames,    \* pictures the client sends
    Room,         \* input buffers of the client
    EarlyFlush,   \* whether commands come before the first picture is encoded
    Separate,     \* whether one port may be flushed without the other
    Patient,      \* whether the client waits for the end of its commands
    None

ASSUME EncoderSizes ==
    /\ IsFiniteSet(Outs) /\ IsFiniteSet(Codecs) /\ None \notin Outs \cup Codecs
    /\ NumFrames \in Nat /\ Room \in Nat
    /\ {EarlyFlush, Separate, Patient} \subseteq BOOLEAN

VARIABLES
    single,       \* the client's stream is one picture, which may carry EOS (kept)
    mode,         \* currentState with transientState
    ctl,          \* the command thread: what it does, at which port, what next
    flushing,     \* bIsPortFlushed of each port
    sem, queue,   \* bufferSemID and bufferQ of each port
    codecSem, codecQ,   \* codecSemID and codecBufferQ of the input port
    hold,         \* processData of the input port: a codec buffer, a picture
    inBuf,        \* inputDataBuffer of the input port: a picture or 0
    direct,       \* the output buffer the set-up took for the header
    dstHeld,      \* dstInputData of the DstInput thread
    outBuf,       \* outputDataBuffer of the output port
    mfcIn, mfcOut,      \* the MFC's queues
    configured,   \* bConfiguredMFCSrc and bConfiguredMFCDst
    started,      \* bSourceStart and bDestinationStart (set together)
    event,        \* hSourceStartEvent and hDestinationStartEvent
    stamp,        \* checkTimeStamp
    inOMX,        \* bBufferInOMX of each output buffer
    fate,         \* of each picture: unsent, in, out, flushed, refused
    eos,          \* the picture that carries EOS, or 0
    pc

portVars == <<queue, sem>>
codecVars == <<codecSem, codecQ, hold>>
setUp == <<configured, started>>
told == <<inOMX, fate, eos>>
vars == <<single, mode, ctl, flushing, portVars, codecVars, inBuf, direct, dstHeld, outBuf,
          mfcIn, mfcOut, setUp, event, stamp, told, pc>>

Ports == {"in", "out"}
Threads == {"srcIn", "srcOut", "dstIn", "dstOut"}
Pictures == 1..NumFrames
Free == [buf |-> None, frame |-> 0]
Dry == [on |-> FALSE, work |-> <<>>, done |-> <<>>]
Drained(h) == [on |-> FALSE, work |-> <<>>, done |-> <<>>, headed |-> h]
\* An output buffer with what the MFC wrote into it.
Coded(w, n) == [out |-> w.out, header |-> w.header, frame |-> n]

TypeOK ==
    /\ single \in BOOLEAN
    /\ mode \in {"executing", "toIdle", "idle", "ended"}
    /\ ctl \in [at : {"ready", "lock", "stopped", "join"}, port : Ports,
                rest : {"end", "out", "toIdle", "toIdleOut"}, join : 0..4]
    /\ flushing \in [Ports -> BOOLEAN]
    /\ sem \in [Ports -> Nat]
    /\ sem.in <= Room + 1 /\ sem.out <= Cardinality(Outs) + 1
    /\ queue.in \in Seq(Pictures) /\ queue.out \in Seq(Outs)
    /\ codecSem \in 0..(Cardinality(Codecs) + 1) /\ codecQ \in Seq(Codecs)
    /\ hold \in [buf : Codecs \cup {None}, frame : 0..NumFrames]
    /\ inBuf \in 0..NumFrames
    /\ {direct, dstHeld, outBuf} \subseteq Outs \cup {None}
    /\ configured \in [Ports -> BOOLEAN] /\ started \in BOOLEAN
    /\ event \in [Ports -> BOOLEAN]
    /\ stamp \in [set : BOOLEAN, check : BOOLEAN, start : 0..NumFrames]
    /\ inOMX \in [Outs -> BOOLEAN] /\ eos \in 0..NumFrames
    /\ fate \in [Pictures -> {"unsent", "in", "out", "flushed", "refused"}]
    /\ pc \in [Threads -> {"top", "wantBuf", "wantFrame", "feed", "eosWait", "headerWait",
                           "header", "start", "dequeue", "wantOut", "give"}]

\* VideoEncodeComponentInit, H264Enc_Init and BufferProcess_Create, up to
\* Executing: all the codec buffers are in their queue, the MFC is open.
Init ==
    /\ single \in BOOLEAN /\ mode = "executing"
    /\ ctl = [at |-> "ready", port |-> "in", rest |-> "end", join |-> 0]
    /\ flushing = [p \in Ports |-> FALSE]
    /\ sem = [p \in Ports |-> 0] /\ queue = [in |-> <<>>, out |-> <<>>]
    /\ codecSem = Cardinality(Codecs) /\ codecQ = SetToSeq(Codecs)
    /\ hold = Free /\ inBuf = 0 /\ direct = None /\ dstHeld = None /\ outBuf = None
    /\ mfcIn = Dry /\ mfcOut = Drained(FALSE)
    /\ configured = [p \in Ports |-> FALSE] /\ started = FALSE
    /\ event = [p \in Ports |-> FALSE]
    /\ stamp = [set |-> FALSE, check |-> FALSE, start |-> 0]
    /\ inOMX = [o \in Outs |-> FALSE] /\ fate = [n \in Pictures |-> "unsent"] /\ eos = 0
    /\ pc = [t \in Threads |-> "top"]

Goes(t, l) == pc' = [pc EXCEPT ![t] = l]
\* Exynos_Check_BufferProcess_State.
Running == mode = "executing"
\* The command thread holds the port's first mutex between its two locks.
Open(p) == Running /\ ~flushing[p] /\ ~(ctl.at = "stopped" /\ ctl.port = p)
Busy == ctl.at # "ready"

-----------------------------------------------------------------------------
(* The client.                                                             *)

\* EmptyThisBuffer: the message is queued, the semaphore posted.
EmptyThisBuffer(n, last) ==
    /\ Running /\ (Patient => ~Busy)
    /\ fate[n] = "unsent" /\ (n > 1 => fate[n - 1] # "unsent")
    /\ \A m \in Pictures : m = eos => fate[m] # "in"
    /\ Len(queue.in) + (IF inBuf = 0 THEN 0 ELSE 1) < Room
    /\ single => n = 1
    /\ last => single \/ configured.in
    /\ fate' = [fate EXCEPT ![n] = "in"]
    /\ eos' = IF last THEN n ELSE eos
    /\ queue' = [queue EXCEPT !.in = Append(@, n)]
    /\ sem' = [sem EXCEPT !.in = @ + 1]
    /\ UNCHANGED <<single, mode, ctl, flushing, codecVars, inBuf, direct, dstHeld, outBuf,
                   mfcIn, mfcOut, setUp, event, stamp, inOMX, pc>>

\* The client's buffers are interchangeable: it fills this one next.
Spare == CHOOSE o \in Outs : ~inOMX[o]

\* FillThisBuffer.
FillThisBuffer(o) ==
    /\ Running /\ (Patient => ~Busy)
    /\ ~inOMX[o] /\ o = Spare
    /\ inOMX' = [inOMX EXCEPT ![o] = TRUE]
    /\ queue' = [queue EXCEPT !.out = Append(@, o)]
    /\ sem' = [sem EXCEPT !.out = @ + 1]
    /\ UNCHANGED <<single, mode, ctl, flushing, codecVars, inBuf, direct, dstHeld, outBuf,
                   mfcIn, mfcOut, setUp, event, stamp, fate, eos, pc>>

-----------------------------------------------------------------------------
(* SrcInput: takes a codec buffer, then a picture, and feeds the MFC.      *)

\* Exynos_Preprocessor_InputData with Exynos_CSC_InputData: the picture is
\* converted, its buffer goes back, and the first one after a flush becomes
\* the one the output waits for.
Preprocessor_InputData ==
    /\ hold' = [hold EXCEPT !.frame = inBuf]
    /\ inBuf' = 0
    /\ stamp' = IF stamp.set THEN [set |-> FALSE, check |-> TRUE, start |-> inBuf] ELSE stamp

SrcInputBufferProcess ==
    /\ pc.srcIn = "top" /\ Open("in")
    /\ \/ hold.buf = None /\ Goes("srcIn", "wantBuf") /\ UNCHANGED <<hold, inBuf, stamp>>
       \/ hold.buf # None /\ inBuf = 0 /\ Goes("srcIn", "wantFrame")
          /\ UNCHANGED <<hold, inBuf, stamp>>
       \/ hold.buf # None /\ inBuf # 0 /\ Preprocessor_InputData /\ Goes("srcIn", "feed")
    /\ UNCHANGED <<single, mode, ctl, flushing, portVars, codecSem, codecQ, direct, dstHeld, outBuf,
                   mfcIn, mfcOut, setUp, event, told>>

\* Exynos_CodecBufferDeQueue.
CodecBufferDeQueue ==
    /\ pc.srcIn = "wantBuf" /\ codecSem > 0
    /\ codecSem' = codecSem - 1
    /\ IF codecQ = <<>> THEN UNCHANGED <<codecQ, hold>>
       ELSE /\ codecQ' = Tail(codecQ)
            /\ hold' = [buf |-> Head(codecQ), frame |-> 0]
    /\ Goes("srcIn", "top")
    /\ UNCHANGED <<single, mode, ctl, flushing, portVars, inBuf, direct, dstHeld, outBuf,
                   mfcIn, mfcOut, setUp, event, stamp, told>>

\* Exynos_InputBufferGetQueue.
InputBufferGetQueue ==
    /\ pc.srcIn = "wantFrame" /\ sem.in > 0
    /\ sem' = [sem EXCEPT !.in = @ - 1]
    /\ IF queue.in = <<>> THEN UNCHANGED <<queue, inBuf>>
       ELSE inBuf' = Head(queue.in) /\ queue' = [queue EXCEPT !.in = Tail(@)]
    /\ Goes("srcIn", "top")
    /\ UNCHANGED <<single, mode, ctl, flushing, codecVars, direct, dstHeld, outBuf,
                   mfcIn, mfcOut, setUp, event, stamp, told>>

\* Variant with a defect: the threads that wait for the start are not woken.
EnqueuedSilently ==
    /\ mfcIn' = [mfcIn EXCEPT !.on = TRUE, !.work = Append(@, hold)]
    /\ started' = TRUE
    /\ hold' = Free
    /\ Goes("srcIn", "top")
    /\ UNCHANGED event

\* The end of H264Enc_SrcIn: the codec buffer goes to the MFC with its picture,
\* the stream runs, and the threads that wait for the start are woken.
\* Exynos_ResetCodecData then empties processData.
Enqueued ==
    /\ mfcIn' = [mfcIn EXCEPT !.on = TRUE, !.work = Append(@, hold)]
    /\ event' = IF started THEN event ELSE [p \in Ports |-> TRUE]
    /\ started' = TRUE
    /\ hold' = Free
    /\ Goes("srcIn", "top")

Forgets == hold' = Free /\ Goes("srcIn", "top")
EosAlone == hold.frame = eos /\ ~configured.in

\* Nothing is fed: the port is flushed (processData stays for the flush), or
\* the state has changed (processData is reset all the same).
SrcInputRefused ==
    /\ pc.srcIn = "feed" /\ (flushing.in \/ ~Running)
    /\ IF flushing.in THEN Goes("srcIn", "top") /\ UNCHANGED hold ELSE Forgets
    /\ UNCHANGED <<single, mode, ctl, flushing, portVars, codecSem, codecQ, inBuf, direct, dstHeld,
                   outBuf, mfcIn, mfcOut, setUp, event, stamp, told>>

\* H264CodecSrcSetup of data that only ends the stream: it wants an output
\* buffer to say so, and configures nothing.
SrcSetupEos ==
    /\ pc.srcIn = "feed" /\ Running /\ ~flushing.in /\ EosAlone
    /\ IF flushing.out
       THEN Forgets /\ fate' = [fate EXCEPT ![hold.frame] = "refused"]
       ELSE Goes("srcIn", "eosWait") /\ UNCHANGED <<hold, fate>>
    /\ UNCHANGED <<single, mode, ctl, flushing, portVars, codecSem, codecQ, inBuf, direct, dstHeld,
                   outBuf, mfcIn, mfcOut, setUp, event, stamp, inOMX, eos>>

\* Exynos_OutputBufferGetQueue_Direct, and the buffer returned with EOS.
SrcSetupEosAnswered ==
    /\ pc.srcIn = "eosWait" /\ sem.out > 0
    /\ sem' = [sem EXCEPT !.out = @ - 1]
    /\ IF queue.out = <<>>
       THEN fate' = [fate EXCEPT ![hold.frame] = "refused"] /\ UNCHANGED <<queue, inOMX>>
       ELSE /\ inOMX' = [inOMX EXCEPT ![Head(queue.out)] = FALSE]
            /\ queue' = [queue EXCEPT !.out = Tail(@)]
            /\ fate' = [fate EXCEPT ![hold.frame] = "out"]
    /\ Forgets
    /\ UNCHANGED <<single, mode, ctl, flushing, codecSem, codecQ, inBuf, direct, dstHeld, outBuf,
                   mfcIn, mfcOut, setUp, event, stamp, eos>>

\* H264Enc_SrcIn with H264CodecSrcSetup when that was not done yet.
SrcIn ==
    /\ pc.srcIn = "feed" /\ Running /\ ~flushing.in /\ ~EosAlone
    /\ configured.out
    /\ Enqueued
    /\ configured' = [configured EXCEPT !.in = TRUE]
    /\ UNCHANGED <<single, mode, ctl, flushing, portVars, codecSem, codecQ, inBuf, direct, dstHeld,
                   outBuf, mfcOut, stamp, told>>

\* H264CodecDstSetup up to its wait: all the client's buffers are registered
\* and queued, with no header attached, for the MFC to write its header data.
DstSetup ==
    /\ pc.srcIn = "feed" /\ Running /\ ~flushing.in /\ ~EosAlone
    /\ ~configured.out
    /\ configured' = [configured EXCEPT !.in = TRUE]
    /\ mfcOut' = [mfcOut EXCEPT !.on = TRUE, !.done = <<>>,
                  !.work = [i \in 1..Cardinality(Outs) |->
                               [out |-> SetToSeq(Outs)[i], header |-> FALSE]]]
    /\ IF flushing.out THEN Enqueued
       ELSE Goes("srcIn", "headerWait") /\ UNCHANGED <<hold, mfcIn, event, started>>
    /\ UNCHANGED <<single, mode, ctl, flushing, portVars, codecSem, codecQ, inBuf, direct, dstHeld,
                   outBuf, stamp, told>>

\* Exynos_OutputBufferGetQueue_Direct in H264CodecDstSetup; without a buffer the
\* error is dropped and the picture enqueued.
DstSetupTakes ==
    /\ pc.srcIn = "headerWait" /\ sem.out > 0
    /\ sem' = [sem EXCEPT !.out = @ - 1]
    /\ IF queue.out = <<>>
       THEN Enqueued /\ UNCHANGED <<queue, direct>>
       ELSE /\ direct' = Head(queue.out)
            /\ queue' = [queue EXCEPT !.out = Tail(@)]
            /\ Goes("srcIn", "header")
            /\ UNCHANGED <<hold, mfcIn, event, started>>
    /\ UNCHANGED <<single, mode, ctl, flushing, codecSem, codecQ, inBuf, dstHeld, outBuf, mfcOut,
                   configured, stamp, told>>

\* The header data is copied into the buffer, the buffer returned, the output
\* stopped; without header data the error is dropped.
DstSetupEnds ==
    /\ pc.srcIn = "header" /\ (mfcOut.on => mfcOut.done # <<>>)
    /\ Enqueued
    /\ direct' = None
    /\ IF mfcOut.on
       THEN /\ inOMX' = [inOMX EXCEPT ![direct] = FALSE]
            /\ mfcOut' = Drained(mfcOut.headed)
            /\ configured' = [configured EXCEPT !.out = TRUE]
       ELSE UNCHANGED <<inOMX, mfcOut, configured>>
    /\ UNCHANGED <<single, mode, ctl, flushing, portVars, codecSem, codecQ, inBuf, dstHeld, outBuf,
                   stamp, fate, eos>>

-----------------------------------------------------------------------------
(* SrcOutput gives the codec buffers back to their queue.                  *)

SrcOutputBufferProcess ==
    /\ pc.srcOut = "top" /\ Running /\ ~flushing.in
    /\ Goes("srcOut", IF started THEN "dequeue" ELSE "start")
    /\ UNCHANGED <<single, mode, ctl, flushing, portVars, codecVars, inBuf, direct, dstHeld, outBuf,
                   mfcIn, mfcOut, setUp, event, stamp, told>>

\* H264Enc_srcOutputBufferProcess waits for the start, and resets the event.
SrcOutputStarts ==
    /\ pc.srcOut = "start" /\ event.in
    /\ event' = [event EXCEPT !.in = FALSE]
    /\ Goes("srcOut", "dequeue")
    /\ UNCHANGED <<single, mode, ctl, flushing, portVars, codecVars, inBuf, direct, dstHeld, outBuf,
                   mfcIn, mfcOut, setUp, stamp, told>>

\* H264Enc_SrcOut and Exynos_CodecBufferEnQueue.
SrcOut ==
    /\ pc.srcOut = "dequeue" /\ (mfcIn.on => mfcIn.done # <<>>)
    /\ IF mfcIn.on
       THEN /\ codecQ' = Append(codecQ, Head(mfcIn.done))
            /\ codecSem' = codecSem + 1
            /\ mfcIn' = [mfcIn EXCEPT !.done = Tail(@)]
       ELSE UNCHANGED <<codecQ, codecSem, mfcIn>>
    /\ Goes("srcOut", "top")
    /\ UNCHANGED <<single, mode, ctl, flushing, portVars, hold, inBuf, direct, dstHeld, outBuf,
                   mfcOut, setUp, event, stamp, told>>

-----------------------------------------------------------------------------
(* DstInput hands the client's output buffers to the MFC.                  *)

DstInputBufferProcess ==
    /\ pc.dstIn = "top" /\ Open("out")
    /\ Goes("dstIn", "wantOut")
    /\ UNCHANGED <<single, mode, ctl, flushing, portVars, codecVars, inBuf, direct, dstHeld, outBuf,
                   mfcIn, mfcOut, setUp, event, stamp, told>>

\* Exynos_OutputBufferGetQueue; a port being flushed keeps nothing.
OutputBufferGetQueue ==
    /\ pc.dstIn = "wantOut" /\ sem.out > 0
    /\ sem' = [sem EXCEPT !.out = @ - 1]
    /\ IF queue.out = <<>>
       THEN Goes("dstIn", "top") /\ UNCHANGED <<queue, dstHeld>>
       ELSE /\ queue' = [queue EXCEPT !.out = Tail(@)]
            /\ IF flushing.out
               THEN Goes("dstIn", "top") /\ UNCHANGED dstHeld
               ELSE dstHeld' = Head(queue.out) /\ Goes("dstIn", "give")
    /\ UNCHANGED <<single, mode, ctl, flushing, codecVars, inBuf, direct, outBuf,
                   mfcIn, mfcOut, setUp, event, stamp, told>>

\* H264Enc_dstInputBufferProcess: outside Executing the buffer is forgotten;
\* before the start the thread waits; then H264Enc_DstIn if the MFC is set up.
DstInputProcess ==
    /\ pc.dstIn = "give"
    /\ \/ Running /\ ~started /\ ~flushing.out /\ Goes("dstIn", "start")
          /\ UNCHANGED <<dstHeld, mfcOut>>
       \/ (Running => started \/ flushing.out) /\ Goes("dstIn", "top") /\ dstHeld' = None
          /\ mfcOut' = IF Running /\ configured.out
                       THEN [mfcOut EXCEPT !.on = TRUE,
                                !.work = Append(@, [out |-> dstHeld, header |-> TRUE])]
                       ELSE mfcOut
    /\ UNCHANGED <<single, mode, ctl, flushing, portVars, codecVars, inBuf, direct, outBuf,
                   mfcIn, setUp, event, stamp, told>>

DstInputStarts ==
    /\ pc.dstIn = "start" /\ event.out
    /\ event' = [event EXCEPT !.out = FALSE]
    /\ dstHeld' = None
    /\ mfcOut' = IF configured.out
                 THEN [mfcOut EXCEPT !.on = TRUE,
                          !.work = Append(@, [out |-> dstHeld, header |-> TRUE])]
                 ELSE mfcOut
    /\ Goes("dstIn", "top")
    /\ UNCHANGED <<single, mode, ctl, flushing, portVars, codecVars, inBuf, direct, outBuf,
                   mfcIn, setUp, stamp, told>>

-----------------------------------------------------------------------------
(* DstOutput returns the encoded pictures.                                 *)

DstOutputBufferProcess ==
    /\ pc.dstOut = "top" /\ Running /\ ~flushing.out /\ started
    /\ Goes("dstOut", "dequeue")
    /\ UNCHANGED <<single, mode, ctl, flushing, portVars, codecVars, inBuf, direct, dstHeld, outBuf,
                   mfcIn, mfcOut, setUp, event, stamp, told>>

\* "garbage frame drop after flush", and "input buffer has not come".
Garbage(n) == IF stamp.check THEN stamp.start # n ELSE stamp.set

\* H264Enc_DstOut and Exynos_Postprocess_OutputData.  Whatever was dequeued,
\* nothing included, takes the place of what outputDataBuffer held.
DstOut ==
    /\ pc.dstOut = "dequeue" /\ (mfcOut.on => mfcOut.done # <<>>)
    /\ IF mfcOut.on
       THEN LET got == Head(mfcOut.done)
                header == IF got.header THEN got.out ELSE None
            IN /\ mfcOut' = [mfcOut EXCEPT !.done = Tail(@)]
               /\ IF Garbage(got.frame)
                  THEN outBuf' = header /\ UNCHANGED <<inOMX, fate, stamp>>
                  ELSE /\ outBuf' = None
                       /\ inOMX' = [o \in Outs |-> inOMX[o] /\ o # header]
                       /\ fate' = [n \in Pictures |->
                             IF n = got.frame /\ header # None THEN "out" ELSE fate[n]]
                       /\ stamp' = IF stamp.check
                                   THEN [set |-> FALSE, check |-> FALSE, start |-> 0] ELSE stamp
       ELSE outBuf' = None /\ UNCHANGED <<mfcOut, inOMX, fate, stamp>>
    /\ Goes("dstOut", "top")
    /\ UNCHANGED <<single, mode, ctl, flushing, portVars, codecVars, inBuf, direct, dstHeld,
                   mfcIn, setUp, event, eos>>

-----------------------------------------------------------------------------
(* The MFC.                                                                *)

\* Its header data comes first, once.
EncodeHeader ==
    /\ mfcOut.on /\ ~mfcOut.headed /\ mfcOut.work # <<>>
    /\ mfcOut' = [mfcOut EXCEPT !.headed = TRUE, !.work = Tail(@),
                  !.done = Append(@, Coded(Head(mfcOut.work), 0))]
    /\ UNCHANGED <<single, mode, ctl, flushing, portVars, codecVars, inBuf, direct, dstHeld, outBuf,
                   mfcIn, setUp, event, stamp, told, pc>>

Encode ==
    /\ mfcIn.on /\ mfcOut.on /\ mfcOut.headed /\ mfcIn.work # <<>> /\ mfcOut.work # <<>>
    /\ mfcOut' = [mfcOut EXCEPT !.work = Tail(@),
                  !.done = Append(@, Coded(Head(mfcOut.work), Head(mfcIn.work).frame))]
    /\ mfcIn' = [mfcIn EXCEPT !.work = Tail(@), !.done = Append(@, Head(mfcIn.work).buf)]
    /\ UNCHANGED <<single, mode, ctl, flushing, portVars, codecVars, inBuf, direct, dstHeld, outBuf,
                   setUp, event, stamp, told, pc>>

-----------------------------------------------------------------------------
(* The command thread.                                                     *)

\* The beginning of Exynos_OMX_BufferFlush: the flag, and everything that may
\* hold the thread of the port is released.
FlushWakes(p, rest) ==
    /\ flushing' = [flushing EXCEPT ![p] = TRUE]
    /\ sem' = [sem EXCEPT ![p] = @ + 1]
    /\ codecSem' = IF p = "in" THEN codecSem + 1 ELSE codecSem
    /\ event' = IF started THEN event ELSE [event EXCEPT ![p] = TRUE]
    /\ ctl' = [ctl EXCEPT !.at = "lock", !.port = p, !.rest = rest]

\* The flush command, or the first half of the way to Idle.
FlushBegins ==
    /\ ctl.at = "ready" /\ Running /\ (EarlyFlush \/ started)
    /\ \/ FlushWakes("in", "out") /\ UNCHANGED mode
       \/ Separate /\ (\E p \in Ports : FlushWakes(p, "end")) /\ UNCHANGED mode
       \/ FlushWakes("in", "toIdleOut") /\ mode' = "toIdle"
    /\ UNCHANGED <<single, queue, codecQ, hold, inBuf, direct, dstHeld, outBuf, mfcIn, mfcOut,
                   setUp, stamp, told, pc>>

\* The first mutex, and H264CodecStop.
FlushStops ==
    /\ ctl.at = "lock"
    /\ pc[IF ctl.port = "in" THEN "srcIn" ELSE "dstIn"] = "top"
    /\ ctl' = [ctl EXCEPT !.at = "stopped"]
    /\ IF ctl.port = "in" THEN mfcIn' = Dry /\ UNCHANGED mfcOut
       ELSE mfcOut' = Drained(mfcOut.headed) /\ UNCHANGED mfcIn
    /\ UNCHANGED <<single, mode, flushing, portVars, codecVars, inBuf, direct, dstHeld, outBuf,
                   setUp, event, stamp, told, pc>>

\* Variant with a defect: codec buffers the MFC had are not taken back.
FlushedInQueueOnly ==
    /\ queue' = [queue EXCEPT !.in = <<>>]
    /\ inBuf' = 0
    /\ hold' = Free
    /\ fate' = [n \in Pictures |-> IF fate[n] = "in" THEN "flushed" ELSE fate[n]]
    /\ stamp' = [stamp EXCEPT !.set = TRUE, !.check = FALSE]
    /\ codecSem' = Len(codecQ)
    /\ UNCHANGED <<codecQ, outBuf, inOMX>>

\* Exynos_OMX_FlushPort and H264CodecEnQueueAllBuffer of the input port, then
\* what BufferFlush resets.
FlushedIn ==
    /\ queue' = [queue EXCEPT !.in = <<>>]
    /\ inBuf' = 0
    /\ hold' = Free
    /\ fate' = [n \in Pictures |-> IF fate[n] = "in" THEN "flushed" ELSE fate[n]]
    /\ stamp' = [stamp EXCEPT !.set = TRUE, !.check = FALSE]
    /\ IF started THEN codecQ' = SetToSeq(Codecs) /\ codecSem' = Cardinality(Codecs)
       ELSE UNCHANGED <<codecQ, codecSem>>
    /\ UNCHANGED <<outBuf, inOMX>>

\* The same of the output port: whatever the component still has goes back.
FlushedOut ==
    /\ queue' = [queue EXCEPT !.out = <<>>]
    /\ outBuf' = None
    /\ inOMX' = [o \in Outs |-> FALSE]
    /\ UNCHANGED <<inBuf, hold, fate, stamp, codecQ, codecSem>>

\* The second mutex, the flush itself, and the next port or the end.
FlushEndsPort ==
    /\ ctl.at = "stopped"
    /\ pc[IF ctl.port = "in" THEN "srcOut" ELSE "dstOut"] = "top"
    /\ IF ctl.port = "in" THEN FlushedIn ELSE FlushedOut
    /\ IF ctl.port = "in" /\ ctl.rest \in {"out", "toIdleOut"}
       THEN /\ ctl' = [ctl EXCEPT !.at = "lock", !.port = "out",
                                  !.rest = IF ctl.rest = "out" THEN "end" ELSE "toIdle"]
            /\ flushing' = [p \in Ports |-> p = "out"]
            /\ sem' = [p \in Ports |-> IF p = "in" THEN 0 ELSE sem.out + 1]
            /\ event' = IF started THEN event ELSE [event EXCEPT !.out = TRUE]
            /\ UNCHANGED mode
       ELSE /\ ctl' = [ctl EXCEPT !.at = "ready"]
            /\ flushing' = [flushing EXCEPT ![ctl.port] = FALSE]
            /\ sem' = [sem EXCEPT ![ctl.port] = 0]
            /\ mode' = IF ctl.rest = "toIdle" THEN "idle" ELSE mode
            /\ UNCHANGED event
    /\ UNCHANGED <<single, direct, dstHeld, mfcIn, mfcOut, setUp, eos, pc>>

\* From Idle the client goes back to Executing.
Resumes ==
    /\ mode = "idle" /\ ctl.at = "ready"
    /\ mode' = "executing"
    /\ UNCHANGED <<single, ctl, flushing, portVars, codecVars, inBuf, direct, dstHeld, outBuf,
                   mfcIn, mfcOut, setUp, event, stamp, told, pc>>

Joined == <<"srcIn", "dstIn", "srcOut", "dstOut">>

\* Exynos_OMX_BufferProcess_Terminate: each thread is released and joined, the
\* streams stopped before their output threads.
BufferProcess_Terminate ==
    /\ mode = "idle" /\ ctl.at \in {"ready", "join"} /\ ctl.join < 4
    /\ pc[Joined[ctl.join + 1]] = "top"
    /\ ctl' = [ctl EXCEPT !.at = IF ctl.join = 3 THEN "ready" ELSE "join", !.join = @ + 1]
    /\ mode' = IF ctl.join = 3 THEN "ended" ELSE mode
    /\ mfcIn' = IF ctl.join = 1 THEN Dry ELSE mfcIn
    /\ mfcOut' = IF ctl.join = 2 THEN Drained(mfcOut.headed) ELSE mfcOut
    /\ UNCHANGED <<single, flushing, portVars, codecVars, inBuf, direct, dstHeld, outBuf,
                   setUp, event, stamp, told, pc>>

-----------------------------------------------------------------------------
SrcInput ==
    \/ SrcInputBufferProcess \/ CodecBufferDeQueue \/ InputBufferGetQueue
    \/ SrcInputRefused \/ SrcSetupEos \/ SrcSetupEosAnswered
    \/ SrcIn \/ DstSetup \/ DstSetupTakes \/ DstSetupEnds
SrcOutput == SrcOutputBufferProcess \/ SrcOutputStarts \/ SrcOut
DstInput ==
    \/ DstInputBufferProcess \/ OutputBufferGetQueue
    \/ DstInputProcess \/ DstInputStarts
DstOutput == DstOutputBufferProcess \/ DstOut
MFC == EncodeHeader \/ Encode

\* What the command thread has begun it goes on with.
GoesOn ==
    \/ FlushStops \/ FlushEndsPort
    \/ ctl.at = "join" /\ BufferProcess_Terminate

Command == FlushBegins \/ FlushStops \/ FlushEndsPort \/ Resumes \/ BufferProcess_Terminate

Next ==
    \/ \E n \in Pictures, last \in BOOLEAN : EmptyThisBuffer(n, last)
    \/ \E o \in Outs : FillThisBuffer(o)
    \/ SrcInput \/ SrcOutput \/ DstInput \/ DstOutput \/ MFC
    \/ Command

Spec == Init /\ [][Next]_vars

\* The client supplies output buffers for as long as it holds one.
Supplied == \E o \in Outs : FillThisBuffer(o)

\* Every thread runs when it can, the MFC encodes, a command goes on once it
\* has begun, and the client supplies output buffers.
Fairness ==
    /\ WF_vars(SrcInput) /\ WF_vars(SrcOutput) /\ WF_vars(DstInput) /\ WF_vars(DstOutput)
    /\ WF_vars(MFC)
    /\ WF_vars(GoesOn)
    /\ WF_vars(Supplied)

FairSpec == Spec /\ Fairness

-----------------------------------------------------------------------------
\* What the MFC has of a queue's entries.
InWork(s, f) == {s[i][f] : i \in DOMAIN s}

\* While the encoder runs and its input is not being flushed, every codec
\* buffer is in exactly one place, so that none is ever missing for a picture.
CodecBuffersKept ==
    Running /\ ~flushing.in =>
        /\ \A c \in Codecs :
              c \in ToSet(codecQ) \cup {hold.buf} \cup InWork(mfcIn.work, "buf") \cup ToSet(mfcIn.done)
        /\ Len(codecQ) + Len(mfcIn.work) + Len(mfcIn.done) + (IF hold.buf = None THEN 0 ELSE 1)
             = Cardinality(Codecs)

\* The counters agree with their queues whenever no flush is releasing threads.
PermitsMatch ==
    /\ \A p \in Ports : ~flushing[p] => sem[p] = Len(queue[p])
    /\ ~flushing.in => codecSem = Len(codecQ)

\* A buffer the component still keeps in a queue, a thread or the MFC (with its
\* header attached) has not been given back to the client.
KeptIsNotReturned ==
    \A o \in Outs : ~inOMX[o] =>
        /\ o \notin ToSet(queue.out) \cup {dstHeld, direct, outBuf}
        /\ \A s \in {mfcOut.work, mfcOut.done} : \A i \in DOMAIN s : s[i].header => s[i].out # o

\* With no command under way every buffer the component owes the client is
\* somewhere it can still come back from.
OutputBuffersFound ==
    Running /\ ~Busy => \A o \in Outs : inOMX[o] =>
        \/ o \in ToSet(queue.out) \cup {dstHeld, direct}
        \/ \E s \in {mfcOut.work, mfcOut.done} : \E i \in DOMAIN s : s[i].header /\ s[i].out = o

\* Every codec buffer and every buffer of the client is where the next picture
\* or a flush finds it, in one place, and none that was returned is used; a
\* stream that ends with its first picture may keep the codec buffer to itself.
EncoderBuffersKept ==
    /\ TypeOK
    /\ ~single => CodecBuffersKept
    /\ PermitsMatch
    /\ KeptIsNotReturned
    /\ OutputBuffersFound

\* A flush, the way to Idle and the end of the threads come to their end.
CommandsEnd == Busy ~> ~Busy

\* A picture the client sent comes out encoded, or a flush takes it.
PicturesComeOut == \A n \in Pictures : fate[n] = "in" ~> fate[n] # "in"

\* A flush, the way to Idle and the end of the threads come to their end, and
\* every picture comes out encoded, or a flush takes it.
EncoderMovesOn == CommandsEnd /\ PicturesComeOut
=============================================================================
