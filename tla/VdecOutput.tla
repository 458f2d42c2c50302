----------------------------- MODULE VdecOutput -----------------------------
(* The output port of a video decoder with BUFFER_COPY: the MFC decodes into *)
(* buffers of its own, codec buffers, which the DstInput thread takes from   *)
(* codecBufferQ to the MFC; the DstOutput thread copies what is decoded into *)
(* a buffer of the client and puts the codec buffer back in codecBufferQ.    *)
(* The SrcInput thread of the other port makes the codec buffers and starts  *)
(* the two threads when it decodes the first data.                           *)
EXTENDS VdecPort, SequencesExt

CONSTANTS
    CodecBuffers,   \* the codec buffers CodecDstSetup registers with the MFC
    NoCodec,        \* no codec buffer
    SetupInFlush,   \* may the port be flushed, by itself or because the
                    \* first data is refused, between setup and start?
    EarlyWakes      \* bound: posts of codecSem by flushes before the start

ASSUME VdecOutputAssumption ==
    /\ IsFiniteSet(CodecBuffers) /\ NoCodec \notin CodecBuffers
    /\ SetupInFlush \in BOOLEAN /\ EarlyWakes \in Nat

VARIABLES
    dstInput,           \* where the DstInput thread is
    dstInputData,       \* the codec buffer it holds
    dstOutput,          \* where the DstOutput thread is
    outputDataBuffer,   \* way.port2WayDataBuffer.outputDataBuffer.bufferHeader
    processData,        \* processData.pPrivate: the codec buffer just decoded
    codecBufferQ, codecSem,
    mfcOutput,          \* the codec buffers the MFC has
    bStreamonOutbuf,    \* the MFC's output stream is on
    bConfiguredMFCDst,
    bDestinationStart, hDestinationStartEvent

inputThreadVars == <<dstInput, dstInputData>>
outputThreadVars == <<dstOutput, outputDataBuffer, processData>>
codecVars == <<codecBufferQ, codecSem>>
mfcVars == <<mfcOutput, bStreamonOutbuf, bConfiguredMFCDst>>
startVars == <<bDestinationStart, hDestinationStartEvent>>
outputVars == <<inputThreadVars, outputThreadVars, codecVars, mfcVars,
                startVars>>
vars == <<portVars, outputVars>>

(* Every variable has its type; the semaphores count no more than the        *)
(* buffers there are and what flushes and the end of the threads add to them.*)
TypeOK ==
    /\ PortTypeOK
    /\ outputDataBuffer \in Buffers \cup {NoBuffer}
    /\ {dstInputData, processData} \subseteq CodecBuffers \cup {NoCodec}
    /\ codecBufferQ \in Seq(CodecBuffers)
    /\ codecSem \in 0 .. Cardinality(CodecBuffers) + EarlyWakes + 1
    /\ mfcOutput \subseteq CodecBuffers
    /\ {bStreamonOutbuf, bConfiguredMFCDst, bDestinationStart,
        hDestinationStartEvent} \subseteq BOOLEAN

Init ==
    /\ PortInit
    /\ dstInput = "outer" /\ dstInputData = NoCodec
    /\ dstOutput = "outer" /\ outputDataBuffer = NoBuffer
    /\ processData = NoCodec
    /\ codecBufferQ = <<>> /\ codecSem = 0
    /\ mfcOutput = {} /\ bStreamonOutbuf = FALSE
    /\ bConfiguredMFCDst = FALSE
    /\ bDestinationStart = FALSE /\ hDestinationStartEvent = FALSE
-----------------------------------------------------------------------------
(* SrcIn of the other port.  With the first data CodecDstSetup registers the *)
(* codec buffers, gives them all to the MFC and starts its output ...        *)
DstSetup ==
    /\ ~bConfiguredMFCDst /\ bConfiguredMFCDst' = TRUE
    /\ Check_BufferProcess_State /\ ~bExitBufferProcessThread
    /\ SetupInFlush \/ command = "none"
    /\ mfcOutput' = CodecBuffers /\ bStreamonOutbuf' = TRUE
    /\ UNCHANGED <<portVars, inputThreadVars, outputThreadVars, codecVars,
                   startVars>>

SettingUp == bConfiguredMFCDst /\ ~bDestinationStart

(* ... and when the data is with the MFC, in the same call of SrcIn unless   *)
(* the data is refused, DstOutput may start.                                 *)
DestinationStart ==
    /\ SettingUp /\ handler \notin {"joinInput", "joinOutput", "ended"}
    /\ bDestinationStart' = TRUE /\ hDestinationStartEvent' = TRUE
    /\ UNCHANGED <<portVars, inputThreadVars, outputThreadVars, codecVars,
                   mfcVars>>

(* A flush before the start leaves codecSem one more than the queue holds;   *)
(* the bound is on how many of these the client makes.                       *)
WithinEarlyWakes == bDestinationStart \/ codecSem < EarlyWakes

(* A flush of both ports begins with the input port, whose mutex SrcIn holds.*)
InputFlushed == SetupInFlush \/ ~SettingUp
-----------------------------------------------------------------------------
(* DstInputBufferProcess.  It does not wait for the end of a pause.          *)
DstInputGoes(from, to) ==
    /\ dstInput = from /\ dstInput' = to
    /\ UNCHANGED <<portVars, dstInputData, outputThreadVars, codecVars,
                   mfcVars, startVars>>

DstInputOuter ==
    IF bExitBufferProcessThread THEN DstInputGoes("outer", "exited")
    ELSE Check_BufferProcess_State /\ DstInputGoes("outer", "checks")

DstInputInner ==
    DstInputGoes("inner",
        IF Check_BufferProcess_State /\ ~bExitBufferProcessThread
        THEN "checks" ELSE "outer")

DstInputChecks ==
    DstInputGoes("checks",
        IF bIsPortFlushed \/ portState # "Idle" THEN "outer" ELSE "lock")

DstInputLock ==
    /\ dstInput = "lock" /\ Lock(1, "DstInput") /\ dstInput' = "semaphore"
    /\ UNCHANGED <<stateVars, bIsPortFlushed, queueVars, flowVars, pauseEvent,
                   bExitBufferProcessThread, dstInputData, outputThreadVars,
                   codecVars, mfcVars, startVars>>

(* CodecBufferDeQueue: the semaphore, whatever the state, then the queue.    *)
DstInputWait ==
    /\ dstInput = "semaphore" /\ dstInput' = "dequeue"
    /\ codecSem > 0 /\ codecSem' = codecSem - 1
    /\ UNCHANGED <<portVars, dstInputData, outputThreadVars, codecBufferQ,
                   mfcVars, startVars>>

(* A step that leaves the loop's body and gives the mutex back.              *)
DstInputUnlocks(to) ==
    /\ Unlock(1) /\ dstInput' = to
    /\ UNCHANGED <<stateVars, bIsPortFlushed, queueVars, flowVars, pauseEvent,
                   bExitBufferProcessThread, outputThreadVars, startVars>>

DstInputDequeue ==
    /\ dstInput = "dequeue" /\ codecBufferQ # <<>>
    /\ codecBufferQ' = Tail(codecBufferQ)
    /\ dstInputData' = Head(codecBufferQ) /\ dstInput' = "codecBuffer"
    /\ UNCHANGED <<portVars, outputThreadVars, codecSem, mfcVars, startVars>>

DstInputGetsNothing ==
    /\ dstInput = "dequeue" /\ codecBufferQ = <<>>
    /\ DstInputUnlocks("outer")
    /\ UNCHANGED <<dstInputData, codecVars, mfcVars>>

DstInputUnflushed == ~bIsPortFlushed /\ DstInputGoes("codecBuffer", "process")

(* The codec buffer is dropped if a flush has begun, which makes the queue   *)
(* anew; or if the state is not for processing any more.                     *)
DstInputDrops ==
    /\ \/ dstInput = "codecBuffer" /\ bIsPortFlushed /\ DstInputUnlocks("outer")
       \/ dstInput = "process" /\ ~Check_BufferProcess_State
          /\ DstInputUnlocks("inner")
    /\ dstInputData' = NoCodec
    /\ UNCHANGED <<codecVars, mfcVars>>

(* DstIn: to the MFC, whose stream is started; it has none of them twice.    *)
DstIn ==
    /\ dstInput = "process" /\ Check_BufferProcess_State
    /\ IF bConfiguredMFCDst
       THEN /\ mfcOutput' = mfcOutput \cup {dstInputData}
            /\ bStreamonOutbuf' = (bStreamonOutbuf \/ dstInputData \notin mfcOutput)
       ELSE UNCHANGED <<mfcOutput, bStreamonOutbuf>>
    /\ dstInputData' = NoCodec
    /\ DstInputUnlocks("inner")
    /\ UNCHANGED <<codecVars, bConfiguredMFCDst>>

DstInputThread ==
    \/ DstInputOuter \/ DstInputInner \/ DstInputChecks \/ DstInputLock
    \/ DstInputWait \/ DstInputDequeue \/ DstInputGetsNothing
    \/ DstInputUnflushed \/ DstInputDrops \/ DstIn
-----------------------------------------------------------------------------
(* DstOutputBufferProcess.                                                   *)
DstOutputGoes(from, to) ==
    /\ dstOutput = from /\ dstOutput' = to
    /\ UNCHANGED <<portVars, inputThreadVars, outputDataBuffer, processData,
                   codecVars, mfcVars, startVars>>

DstOutputOuter ==
    DstOutputGoes("outer", IF bExitBufferProcessThread THEN "exited"
                           ELSE IF ProcessPaused THEN "paused" ELSE "inner")

DstOutputPaused == pauseEvent /\ DstOutputGoes("paused", "resume")

DstOutputResume ==
    /\ dstOutput = "resume" /\ dstOutput' = "inner"
    /\ pauseEvent' = FALSE
    /\ UNCHANGED <<stateVars, bIsPortFlushed, queueVars, flowVars,
                   bufferMutex, bExitBufferProcessThread, inputThreadVars,
                   outputDataBuffer, processData, codecVars, mfcVars,
                   startVars>>

DstOutputInner ==
    DstOutputGoes("inner",
        IF Check_BufferProcess_State /\ ~bExitBufferProcessThread
        THEN "checks" ELSE "outer")

DstOutputChecks ==
    DstOutputGoes("checks", IF bIsPortFlushed THEN "outer" ELSE "lock")

(* Without a buffer of the client it asks for one, unless a flush has begun. *)
DstOutputLock ==
    /\ dstOutput = "lock" /\ Lock(2, "DstOutput")
    /\ dstOutput' = IF outputDataBuffer # NoBuffer THEN "process"
                    ELSE IF bIsPortFlushed THEN "post" ELSE "noBuffer"
    /\ UNCHANGED <<stateVars, bIsPortFlushed, queueVars, flowVars, pauseEvent,
                   bExitBufferProcessThread, inputThreadVars,
                   outputDataBuffer, processData, codecVars, mfcVars,
                   startVars>>

DstOutputUnlocks(to) ==
    /\ Unlock(2) /\ dstOutput' = to
    /\ UNCHANGED <<stateVars, bIsPortFlushed, flowVars, pauseEvent,
                   bExitBufferProcessThread, inputThreadVars, mfcVars,
                   startVars>>

(* OutputBufferGetQueue: its checks, the semaphore, the queue.               *)
DstOutputGetQueue == MayGetQueue /\ DstOutputGoes("noBuffer", "semaphore")

DstOutputGetsNothing ==
    /\ \/ dstOutput = "noBuffer" /\ ~MayGetQueue
       \/ dstOutput = "dequeue" /\ bufferQ = <<>>
    /\ DstOutputUnlocks("outer")
    /\ UNCHANGED <<queueVars, outputDataBuffer, processData, codecVars>>

DstOutputWait ==
    /\ dstOutput = "semaphore" /\ dstOutput' = "dequeue"
    /\ bufferSem > 0 /\ bufferSem' = bufferSem - 1
    /\ UNCHANGED <<stateVars, bIsPortFlushed, bBufferInOMX, bufferQ, atClient,
                   flowVars, bufferMutex, pauseEvent,
                   bExitBufferProcessThread, inputThreadVars,
                   outputDataBuffer, processData, codecVars, mfcVars,
                   startVars>>

DstOutputDequeue ==
    /\ dstOutput = "dequeue" /\ bufferQ # <<>> /\ dstOutput' = "process"
    /\ bufferQ' = Tail(bufferQ) /\ outputDataBuffer' = Head(bufferQ)
    /\ UNCHANGED <<stateVars, bIsPortFlushed, bBufferInOMX, bufferSem,
                   atClient, flowVars, bufferMutex, pauseEvent,
                   bExitBufferProcessThread, inputThreadVars, processData,
                   codecVars, mfcVars, startVars>>

(* dstOutputBufferProcess of the codec looks at the state and awaits the     *)
(* start, unless a flush has begun.                                          *)
DstOutputProcess ==
    DstOutputGoes("process",
        IF ~Check_BufferProcess_State THEN "post"
        ELSE IF ~bDestinationStart /\ ~bIsPortFlushed THEN "awaitStart"
        ELSE "decoded")

DstOutputStarted ==
    hDestinationStartEvent /\ DstOutputGoes("awaitStart", "started")

DstOutputResetEvent ==
    /\ dstOutput = "started" /\ dstOutput' = "decoded"
    /\ hDestinationStartEvent' = FALSE
    /\ UNCHANGED <<portVars, inputThreadVars, outputDataBuffer, processData,
                   codecVars, mfcVars, bDestinationStart>>

(* DstOut: VIDIOC_DQBUF blocks while the stream is on and no frame decoded,  *)
DstOutputFrame ==
    /\ dstOutput = "decoded" /\ dstOutput' = "post"
    /\ bDestinationStart /\ bStreamonOutbuf
    /\ \E c \in mfcOutput :
          mfcOutput' = mfcOutput \ {c} /\ processData' = c
    /\ UNCHANGED <<portVars, inputThreadVars, outputDataBuffer, codecVars,
                   bStreamonOutbuf, bConfiguredMFCDst, startVars>>

(* and with the stream off there is none.                                    *)
DstOutputNoFrame ==
    ~(bDestinationStart /\ bStreamonOutbuf) /\ DstOutputGoes("decoded", "post")

(* Postprocess_OutputData keeps the client's buffer for the next frame or    *)
(* returns it, with a frame or with nothing if a flush has begun; the codec  *)
(* buffer goes back to codecBufferQ.                                         *)
DstOutputPost ==
    /\ dstOutput = "post"
    /\ \/ /\ outputDataBuffer # NoBuffer
          /\ processData # NoCodec \/ bIsPortFlushed
          /\ BufferReturn({outputDataBuffer}) /\ outputDataBuffer' = NoBuffer
       \/ UNCHANGED <<bBufferInOMX, atClient, outputDataBuffer>>
    /\ IF processData = NoCodec THEN UNCHANGED codecVars
       ELSE /\ codecBufferQ' = Append(codecBufferQ, processData)
            /\ codecSem' = codecSem + 1
    /\ processData' = NoCodec
    /\ DstOutputUnlocks("inner")
    /\ UNCHANGED <<bufferQ, bufferSem>>

(* What DstOutput does by itself; when there is a frame is up to the MFC.    *)
DstOutputThread ==
    \/ DstOutputOuter \/ DstOutputPaused \/ DstOutputResume \/ DstOutputInner
    \/ DstOutputChecks \/ DstOutputLock \/ DstOutputGetQueue
    \/ DstOutputGetsNothing \/ DstOutputWait \/ DstOutputDequeue
    \/ DstOutputProcess \/ DstOutputStarted \/ DstOutputResetEvent
    \/ DstOutputNoFrame \/ DstOutputPost
-----------------------------------------------------------------------------
\* Variant with a defect: only the queue of the client's buffers is posted.
FlushWakeOutputOnly ==
    /\ handler = "marked" /\ handler' = "woken"
    /\ pauseEvent' = TRUE /\ bufferSem' = bufferSem + 1
    /\ hDestinationStartEvent' = (hDestinationStartEvent \/ ~bDestinationStart)
    /\ UNCHANGED <<stateVars, bIsPortFlushed, bBufferInOMX, bufferQ, atClient,
                   call, command, bufferMutex, bExitBufferProcessThread,
                   inputThreadVars, outputThreadVars, codecVars, mfcVars,
                   bDestinationStart>>

(* BufferFlush: both threads are woken, wherever they wait ...               *)
FlushWake ==
    /\ handler = "marked" /\ handler' = "woken"
    /\ pauseEvent' = TRUE
    /\ codecSem' = codecSem + 1 /\ bufferSem' = bufferSem + 1
    /\ hDestinationStartEvent' = (hDestinationStartEvent \/ ~bDestinationStart)
    /\ UNCHANGED <<stateVars, bIsPortFlushed, bBufferInOMX, bufferQ, atClient,
                   call, command, bufferMutex, bExitBufferProcessThread,
                   inputThreadVars, outputThreadVars, codecBufferQ, mfcVars,
                   bDestinationStart>>

FlushLock1 == FlushLock(1, "woken", "locked1") /\ UNCHANGED outputVars

FlushStop ==
    /\ handler = "locked1" /\ handler' = "stopped"
    /\ bStreamonOutbuf' = FALSE /\ mfcOutput' = {}
    /\ UNCHANGED <<stateVars, bIsPortFlushed, queueVars, call, command,
                   bufferMutex, pauseEvent, bExitBufferProcessThread,
                   inputThreadVars, outputThreadVars, codecVars,
                   bConfiguredMFCDst, startVars>>

FlushLock2 == FlushLock(2, "stopped", "locked2") /\ UNCHANGED outputVars

(* ... FlushPort returns what is queued and what the data buffer holds, but  *)
(* not, as with a shared port, whatever is marked ...                        *)
FlushQueue ==
    /\ handler = "locked2" /\ handler' = "emptied"
    /\ BufferReturn(Queued)
    /\ bufferQ' = <<>> /\ bufferSem' = DrainedSem
    /\ UNCHANGED <<stateVars, bIsPortFlushed, call, command, bufferMutex,
                   pauseEvent, bExitBufferProcessThread, outputVars>>

FlushReturn ==
    /\ handler = "emptied" /\ handler' = "returned"
    /\ BufferReturn({outputDataBuffer} \ {NoBuffer})
    /\ outputDataBuffer' = NoBuffer
    /\ UNCHANGED <<stateVars, bIsPortFlushed, bufferQ, bufferSem, call,
                   command, bufferMutex, pauseEvent, bExitBufferProcessThread,
                   inputThreadVars, dstOutput, processData, codecVars,
                   mfcVars, startVars>>

\* Variant with a defect: codecBufferQ is not reset first.
EnqueueAllBufferOnTop ==
    IF bDestinationStart
    THEN codecBufferQ' = codecBufferQ \o SetToSeq(CodecBuffers)
         /\ codecSem' = codecSem + Cardinality(CodecBuffers)
    ELSE UNCHANGED codecVars

(* ... and once DstOutput has been started CodecEnQueueAllBuffer makes       *)
(* codecBufferQ anew with all the codec buffers.                             *)
EnqueueAllBuffer ==
    IF bDestinationStart
    THEN codecBufferQ' = SetToSeq(CodecBuffers)
         /\ codecSem' = Cardinality(CodecBuffers)
    ELSE UNCHANGED codecVars

FlushEnqueueAll ==
    /\ FlushDone /\ EnqueueAllBuffer
    /\ UNCHANGED <<inputThreadVars, outputThreadVars, mfcVars, startVars>>

(* BufferProcess_Terminate: the SrcInput thread is joined, and so its call   *)
(* of SrcIn over, then DstInput is woken and joined, then DstOutput.         *)
PostIfNone(sem) == IF sem = 0 THEN 1 ELSE sem

TerminateDstInput ==
    /\ handler = "exiting" /\ handler' = "joinInput" /\ InputFlushed
    /\ bufferSem' = PostIfNone(bufferSem) /\ codecSem' = PostIfNone(codecSem)
    /\ pauseEvent' = TRUE
    /\ UNCHANGED <<stateVars, bIsPortFlushed, bBufferInOMX, bufferQ, atClient,
                   call, command, bufferMutex, bExitBufferProcessThread,
                   inputThreadVars, outputThreadVars, codecBufferQ, mfcVars,
                   startVars>>

(* bufferProcessRun is called with the input port: hDestinationStartEvent is *)
(* not set.                                                                  *)
TerminateDstOutput ==
    /\ handler = "joinInput" /\ dstInput = "exited"
    /\ handler' = "joinOutput"
    /\ bStreamonOutbuf' = FALSE /\ mfcOutput' = {}
    /\ pauseEvent' = TRUE
    /\ UNCHANGED <<stateVars, bIsPortFlushed, queueVars, call, command,
                   bufferMutex, bExitBufferProcessThread, inputThreadVars,
                   outputThreadVars, codecVars, bConfiguredMFCDst, startVars>>

TerminateDone ==
    /\ handler = "joinOutput" /\ dstOutput = "exited"
    /\ handler' = "ended"
    /\ UNCHANGED <<stateVars, bIsPortFlushed, queueVars, call, command,
                   bufferMutex, pauseEvent, bExitBufferProcessThread,
                   outputVars>>

(* From Loaded the client goes to Idle again: the codec is opened, events,   *)
(* semaphores and mutexes are created anew, and so are the threads.          *)
BufferProcess_Create ==
    /\ handler = "ended" /\ command = "Loaded" /\ bBufferInOMX = {}
    /\ handler' = "idle" /\ command' = "none"
    /\ transientState' = "LoadedToIdle" /\ portState' = "Idle"
    /\ bufferSem' = 0 /\ pauseEvent' = FALSE
    /\ bufferMutex' = <<"free", "free">> /\ bExitBufferProcessThread' = FALSE
    /\ dstInput' = "outer" /\ dstOutput' = "outer"
    /\ codecBufferQ' = <<>> /\ codecSem' = 0
    /\ bConfiguredMFCDst' = FALSE /\ bDestinationStart' = FALSE
    /\ hDestinationStartEvent' = FALSE
    /\ UNCHANGED <<currentState, bIsPortFlushed, bBufferInOMX, bufferQ,
                   atClient, call, dstInputData, outputDataBuffer,
                   processData, mfcOutput, bStreamonOutbuf>>

Handler ==
    \/ (ToExecuting \/ ToPause) /\ UNCHANGED outputVars
    \/ InputFlushed /\ FlushMark /\ UNCHANGED outputVars
    \/ FlushWake \/ FlushLock1 \/ FlushStop \/ FlushLock2 \/ FlushQueue
    \/ FlushReturn
    \/ (FlushDrainSem \/ FlushResetQueue) /\ UNCHANGED outputVars
    \/ FlushEnqueueAll
    \/ TerminateBegin /\ UNCHANGED outputVars
    \/ TerminateDstInput \/ TerminateDstOutput \/ TerminateDone
    \/ BufferProcess_Create

FillThisBuffer ==
    (\E b \in Buffers : CallCheck(b)) \/ CallQueue \/ CallPost

Next ==
    \/ FillThisBuffer /\ UNCHANGED outputVars
    \/ SendCommand /\ UNCHANGED outputVars
       /\ (command' \in {"Flush", "Idle"} => WithinEarlyWakes)
    \/ Handler \/ DstInputThread \/ DstOutputThread \/ DstOutputFrame
    \/ DstSetup \/ DestinationStart

Spec == Init /\ [][Next]_vars

(* Every thread runs when it can, the SrcInput thread of the other port ends *)
(* the call of SrcIn and the client its call.  Data for the decoder, frames  *)
(* of the MFC, and commands may not come.                                    *)
Fairness ==
    /\ WF_vars(DstInputThread) /\ WF_vars(DstOutputThread)
    /\ WF_vars(Handler) /\ WF_vars(DestinationStart)
    /\ WF_vars((CallQueue \/ CallPost) /\ UNCHANGED outputVars)

FairSpec == Spec /\ Fairness
-----------------------------------------------------------------------------
(* The places of the component a buffer of the client can be in.             *)
Inside == Queued \cup ({outputDataBuffer} \ {NoBuffer})

(* A buffer is with the client or it is in the component, and there in one   *)
(* place: the copy of a frame never goes to a buffer the client has back.    *)
OnePlace ==
    /\ Len(bufferQ) = Cardinality(Queued)
    /\ outputDataBuffer \notin Queued
    /\ atClient \cap Inside = {}

(* Every buffer marked as being in the component is in it, at any time: the  *)
(* flush of a port that copies returns nothing it does not find.             *)
NothingLost == bBufferInOMX \subseteq Inside

CodecQueued == {codecBufferQ[i] : i \in DOMAIN codecBufferQ}

(* Where no codec buffer is any more: DstInput, past its checks when the port *)
(* is flushed on the way to Idle, drops the codec buffer it takes after it.  *)
CodecLost ==
    CodecBuffers \ (CodecQueued \cup mfcOutput \cup {dstInputData, processData})

(* Once the MFC is set up a codec buffer is with the MFC, with one of the    *)
(* threads or in codecBufferQ, all but one at most, and the semaphore        *)
(* announces the queue: without a pause the decoder never runs out of them.  *)
CodecBuffersKept ==
    bConfiguredMFCDst /\ command = "none" /\ ~bExitBufferProcessThread =>
        /\ Cardinality(CodecLost) <= 1
        /\ Len(codecBufferQ) <= codecSem + (IF dstInput = "dequeue" THEN 1 ELSE 0)

(* No codec buffer is queued for the MFC that the MFC has, or twice: no      *)
(* decoded frame is handed out again.                                        *)
CodecOnePlace ==
    /\ Len(codecBufferQ) = Cardinality(CodecQueued)
    /\ CodecQueued \cap mfcOutput = {}
    /\ {dstInputData, processData} \cap (CodecQueued \cup mfcOutput) = {}

(* A flush, by command or on the way to Idle, comes to its end, wherever the *)
(* two threads hold a mutex or wait when it begins.                          *)
FlushEnds == command \in {"Flush", "Idle"} ~> command = "none"

(* The threads end, wherever they are, when the component is closed down.    *)
TerminateEnds == bExitBufferProcessThread ~> handler = "ended"
=============================================================================
