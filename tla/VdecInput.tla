----------------------------- MODULE VdecInput -----------------------------
(* The input port of a video decoder, as the H.264, MPEG-4 and VP8 decoders  *)
(* set it up: BUFFER_SHARE, the client's buffers themselves are queued to    *)
(* the MFC.  The SrcInput thread takes a buffer from bufferQ, by way of      *)
(* inputDataBuffer and processData, to the MFC; the SrcOutput thread returns *)
(* to the client what the MFC has consumed.                                  *)
EXTENDS VdecPort, Functions

CONSTANT Faults     \* "header": the MFC refuses the header of the stream;
                    \* "data": it refuses a buffer, or there is no start code

ASSUME VdecInputAssumption == Faults \subseteq {"header", "data"}

VARIABLES
    srcInput,           \* where the SrcInput thread is
    decodeYet,          \* its ret is OMX_ErrorInputDataDecodeYet
    inputDataBuffer,    \* way.port2WayDataBuffer.inputDataBuffer.bufferHeader
    processData,        \* processData.bufferHeader
    srcOutput,          \* where the SrcOutput thread is
    mfcInput,           \* the buffers the MFC has
    bStreamonInbuf,     \* the MFC's input stream is on
    bConfiguredMFCSrc,  \* the header of the stream has been parsed
    bSourceStart, hSourceStartEvent,
    exceptionFlag       \* output port: NEED_PORT_DISABLE

dataVars == <<decodeYet, inputDataBuffer, processData>>
mfcVars == <<mfcInput, bStreamonInbuf, bConfiguredMFCSrc>>
startVars == <<bSourceStart, hSourceStartEvent>>
inputVars == <<srcInput, dataVars, srcOutput, mfcVars, startVars,
               exceptionFlag>>
vars == <<portVars, inputVars>>

(* Every variable has its type; the semaphore counts no more than the        *)
(* buffers there are and what a flush and the end of the threads add to it.  *)
TypeOK ==
    /\ PortTypeOK
    /\ inputDataBuffer \in Buffers \cup {NoBuffer}
    /\ processData \in Buffers \cup {NoBuffer}
    /\ mfcInput \in Seq(Buffers) /\ Len(mfcInput) <= Cardinality(Buffers)
    /\ {decodeYet, bStreamonInbuf, bConfiguredMFCSrc, bSourceStart,
        hSourceStartEvent, exceptionFlag} \subseteq BOOLEAN

Init ==
    /\ PortInit
    /\ srcInput = "outer" /\ srcOutput = "loop" /\ decodeYet = FALSE
    /\ inputDataBuffer = NoBuffer /\ processData = NoBuffer
    /\ mfcInput = <<>> /\ bStreamonInbuf = FALSE
    /\ bConfiguredMFCSrc = FALSE /\ bSourceStart = FALSE
    /\ hSourceStartEvent = FALSE /\ exceptionFlag = FALSE
-----------------------------------------------------------------------------
(* SrcInputBufferProcess.  A step of the thread that touches nothing shared. *)
SrcInputGoes(from, to) ==
    /\ srcInput = from /\ srcInput' = to
    /\ UNCHANGED <<portVars, dataVars, srcOutput, mfcVars, startVars,
                   exceptionFlag>>

SrcInputOuter ==
    SrcInputGoes("outer", IF bExitBufferProcessThread THEN "exited"
                          ELSE IF ProcessPaused THEN "paused" ELSE "inner")

(* Wait_ProcessPause waits and resets the event, in two steps.               *)
SrcInputPaused == pauseEvent /\ SrcInputGoes("paused", "resume")

SrcInputResume ==
    /\ srcInput = "resume" /\ srcInput' = "inner"
    /\ pauseEvent' = FALSE
    /\ UNCHANGED <<stateVars, bIsPortFlushed, queueVars, flowVars,
                   bufferMutex, bExitBufferProcessThread, dataVars,
                   srcOutput, mfcVars, startVars, exceptionFlag>>

SrcInputInner ==
    SrcInputGoes("inner",
        IF Check_BufferProcess_State /\ ~bExitBufferProcessThread
        THEN "checks" ELSE "outer")

SrcInputChecks ==
    SrcInputGoes("checks",
        IF bIsPortFlushed \/ (exceptionFlag /\ decodeYet) \/ portState # "Idle"
        THEN "outer" ELSE "lock")

SrcInputLock ==
    /\ srcInput = "lock" /\ Lock(1, "SrcInput")
    /\ srcInput' = IF decodeYet THEN "process"
                   ELSE IF inputDataBuffer # NoBuffer THEN "data" ELSE "noData"
    /\ UNCHANGED <<stateVars, bIsPortFlushed, queueVars, flowVars, pauseEvent,
                   bExitBufferProcessThread, dataVars, srcOutput, mfcVars,
                   startVars, exceptionFlag>>

(* Preprocessor_InputData: the data buffer's header goes to processData.     *)
SrcInputPreprocess ==
    /\ srcInput = "data" /\ srcInput' = "prepared"
    /\ processData' = inputDataBuffer /\ inputDataBuffer' = NoBuffer
    /\ UNCHANGED <<portVars, decodeYet, srcOutput, mfcVars, startVars,
                   exceptionFlag>>

(* A step that leaves the loop's body and gives the mutex back.              *)
SrcInputUnlocks(to) ==
    /\ Unlock(1) /\ srcInput' = to
    /\ UNCHANGED <<stateVars, bIsPortFlushed, flowVars, pauseEvent, srcOutput>>

SrcInputFlushed ==
    /\ srcInput \in {"noData", "prepared"} /\ bIsPortFlushed
    /\ SrcInputUnlocks("outer")
    /\ UNCHANGED <<queueVars, bExitBufferProcessThread, dataVars, mfcVars,
                   startVars, exceptionFlag>>

SrcInputPrepared == ~bIsPortFlushed /\ SrcInputGoes("prepared", "process")

(* InputBufferGetQueue: its checks, the semaphore, the queue.                *)
SrcInputGetQueue ==
    MayGetQueue /\ ~bIsPortFlushed /\ SrcInputGoes("noData", "semaphore")

SrcInputGetsNothing ==
    /\ srcInput = "noData" /\ ~MayGetQueue
    /\ SrcInputUnlocks("outer")
    /\ UNCHANGED <<queueVars, bExitBufferProcessThread, dataVars, mfcVars,
                   startVars, exceptionFlag>>

SrcInputWait ==
    /\ srcInput = "semaphore" /\ srcInput' = "dequeue"
    /\ bufferSem > 0 /\ bufferSem' = bufferSem - 1
    /\ UNCHANGED <<stateVars, bIsPortFlushed, bBufferInOMX, bufferQ, atClient,
                   flowVars, bufferMutex, pauseEvent,
                   bExitBufferProcessThread, dataVars, srcOutput, mfcVars,
                   startVars, exceptionFlag>>

SrcInputDequeue ==
    /\ srcInput = "dequeue" /\ SrcInputUnlocks("outer")
    /\ IF bufferQ = <<>>
       THEN UNCHANGED <<bufferQ, inputDataBuffer>>
       ELSE bufferQ' = Tail(bufferQ) /\ inputDataBuffer' = Head(bufferQ)
    /\ UNCHANGED <<bBufferInOMX, bufferSem, atClient, decodeYet, processData,
                   bExitBufferProcessThread, mfcVars, startVars,
                   exceptionFlag>>
-----------------------------------------------------------------------------
(* srcInputBufferProcess of the codec with ResetCodecData after it.  It      *)
(* looks at the state again: if it is not for processing any more, nothing   *)
(* is done, and the header in processData is reset all the same.             *)
SrcInputHeld ==
    /\ srcInput = "process" /\ ~Check_BufferProcess_State
    /\ decodeYet' = FALSE /\ processData' = NoBuffer
    /\ SrcInputUnlocks("inner")
    /\ UNCHANGED <<queueVars, bExitBufferProcessThread, inputDataBuffer,
                   mfcVars, startVars, exceptionFlag>>

(* CodecSrcSetup parses the header and stops the stream again; the buffer    *)
(* stays in processData to be decoded.  The output port may not fit.         *)
SrcSetup ==
    /\ srcInput = "process" /\ Check_BufferProcess_State
    /\ ~bConfiguredMFCSrc
    /\ bConfiguredMFCSrc' = TRUE /\ decodeYet' = TRUE
    /\ exceptionFlag' \in {exceptionFlag, TRUE}
    /\ SrcInputUnlocks("inner")
    /\ UNCHANGED <<queueVars, bExitBufferProcessThread, inputDataBuffer,
                   processData, mfcInput, bStreamonInbuf, startVars>>

(* The MFC refuses the header: OMX_ErrorCodecInit ends all threads.          *)
SrcSetupFails ==
    /\ "header" \in Faults
    /\ srcInput = "process" /\ Check_BufferProcess_State
    /\ ~bConfiguredMFCSrc
    /\ decodeYet' = FALSE /\ processData' = NoBuffer
    /\ bExitBufferProcessThread' = TRUE
    /\ SrcInputUnlocks("inner")
    /\ UNCHANGED <<queueVars, inputDataBuffer, mfcVars, startVars,
                   exceptionFlag>>

(* SrcIn: the buffer goes to the MFC, its stream is started, and so is the   *)
(* SrcOutput thread the first time.  After a flush in between the two        *)
(* attempts processData is empty: nothing is queued.                         *)
SrcIn ==
    /\ srcInput = "process" /\ Check_BufferProcess_State
    /\ bConfiguredMFCSrc
    /\ decodeYet' = FALSE /\ processData' = NoBuffer
    /\ IF processData = NoBuffer
       THEN UNCHANGED <<mfcInput, bStreamonInbuf, startVars>>
       ELSE /\ mfcInput' = Append(mfcInput, processData)
            /\ bStreamonInbuf' = TRUE
            /\ bSourceStart' = TRUE
            /\ hSourceStartEvent' = (hSourceStartEvent \/ ~bSourceStart)
    /\ SrcInputUnlocks("inner")
    /\ UNCHANGED <<queueVars, bExitBufferProcessThread, inputDataBuffer,
                   bConfiguredMFCSrc, exceptionFlag>>

(* SrcIn with data the MFC does not get: processData is reset all the same.  *)
SrcInDrops ==
    /\ "data" \in Faults
    /\ srcInput = "process" /\ Check_BufferProcess_State
    /\ bConfiguredMFCSrc
    /\ decodeYet' = FALSE /\ processData' = NoBuffer
    /\ SrcInputUnlocks("inner")
    /\ UNCHANGED <<queueVars, bExitBufferProcessThread, inputDataBuffer,
                   mfcVars, startVars, exceptionFlag>>

(* The client disables and enables the output port, as it was told to.       *)
OutputPortEnabled ==
    /\ exceptionFlag /\ exceptionFlag' = FALSE
    /\ UNCHANGED <<portVars, srcInput, dataVars, srcOutput, mfcVars,
                   startVars>>

SrcInputThread ==
    \/ SrcInputOuter \/ SrcInputPaused \/ SrcInputResume \/ SrcInputInner
    \/ SrcInputChecks \/ SrcInputLock \/ SrcInputPreprocess \/ SrcInputFlushed
    \/ SrcInputPrepared \/ SrcInputGetQueue \/ SrcInputGetsNothing
    \/ SrcInputWait \/ SrcInputDequeue \/ SrcInputHeld \/ SrcSetup
    \/ SrcSetupFails \/ SrcIn \/ SrcInDrops
-----------------------------------------------------------------------------
(* SrcOutputBufferProcess: with a shared port it does not look at the state. *)
SrcOutputGoes(from, to) ==
    /\ srcOutput = from /\ srcOutput' = to
    /\ UNCHANGED <<portVars, srcInput, dataVars, mfcVars, startVars,
                   exceptionFlag>>

SrcOutputLoop ==
    IF bExitBufferProcessThread THEN SrcOutputGoes("loop", "exited")
    ELSE ~bIsPortFlushed /\ SrcOutputGoes("loop", "lock")

SrcOutputLock ==
    /\ srcOutput = "lock" /\ Lock(2, "SrcOutput")
    /\ srcOutput' = IF ~bSourceStart /\ ~bIsPortFlushed THEN "awaitStart"
                    ELSE "dequeue"
    /\ UNCHANGED <<stateVars, bIsPortFlushed, queueVars, flowVars, pauseEvent,
                   bExitBufferProcessThread, srcInput, dataVars, mfcVars,
                   startVars, exceptionFlag>>

SrcOutputStarted == hSourceStartEvent /\ SrcOutputGoes("awaitStart", "started")

SrcOutputResetEvent ==
    /\ srcOutput = "started" /\ srcOutput' = "dequeue"
    /\ hSourceStartEvent' = FALSE
    /\ UNCHANGED <<portVars, srcInput, dataVars, mfcVars, bSourceStart,
                   exceptionFlag>>

(* SrcOut: VIDIOC_DQBUF blocks while the stream is on and nothing is         *)
(* consumed; with the stream off there is no buffer.                         *)
SrcOutputReturn ==
    /\ srcOutput = "dequeue" /\ srcOutput' = "loop"
    /\ IF bStreamonInbuf
       THEN /\ mfcInput # <<>>
            /\ mfcInput' = Tail(mfcInput)
            /\ BufferReturn({Head(mfcInput)})
       ELSE UNCHANGED <<mfcInput, bBufferInOMX, atClient>>
    /\ Unlock(2)
    /\ UNCHANGED <<stateVars, bIsPortFlushed, bufferQ, bufferSem, flowVars,
                   pauseEvent, bExitBufferProcessThread, srcInput, dataVars,
                   bStreamonInbuf, bConfiguredMFCSrc, startVars,
                   exceptionFlag>>

SrcOutputThread ==
    \/ SrcOutputLoop \/ SrcOutputLock \/ SrcOutputStarted
    \/ SrcOutputResetEvent \/ SrcOutputReturn
-----------------------------------------------------------------------------
\* Variant with a defect: the semaphore is not posted.
FlushWakePausedOnly ==
    /\ handler = "marked" /\ handler' = "woken"
    /\ pauseEvent' = TRUE
    /\ hSourceStartEvent' = (hSourceStartEvent \/ ~bSourceStart)
    /\ UNCHANGED <<stateVars, bIsPortFlushed, queueVars, call, command,
                   bufferMutex, bExitBufferProcessThread, srcInput, dataVars,
                   srcOutput, mfcVars, bSourceStart, exceptionFlag>>

(* BufferFlush: both threads are woken, wherever they wait ...               *)
FlushWake ==
    /\ handler = "marked" /\ handler' = "woken"
    /\ pauseEvent' = TRUE /\ bufferSem' = bufferSem + 1
    /\ hSourceStartEvent' = (hSourceStartEvent \/ ~bSourceStart)
    /\ UNCHANGED <<stateVars, bIsPortFlushed, bBufferInOMX, bufferQ, atClient,
                   call, command, bufferMutex, bExitBufferProcessThread,
                   srcInput, dataVars, srcOutput, mfcVars, bSourceStart,
                   exceptionFlag>>

FlushLock1 == FlushLock(1, "woken", "locked1") /\ UNCHANGED inputVars

(* ... the stream is stopped, which wakes a blocked VIDIOC_DQBUF, before the *)
(* mutex SrcOutput holds meanwhile is asked for ...                          *)
FlushStop ==
    /\ handler = "locked1" /\ handler' = "stopped"
    /\ bStreamonInbuf' = FALSE /\ mfcInput' = <<>>
    /\ UNCHANGED <<stateVars, bIsPortFlushed, queueVars, call, command,
                   bufferMutex, pauseEvent, bExitBufferProcessThread,
                   srcInput, dataVars, srcOutput, bConfiguredMFCSrc,
                   startVars, exceptionFlag>>

FlushLock2 == FlushLock(2, "stopped", "locked2") /\ UNCHANGED inputVars

(* ... FlushPort returns what is queued ...                                  *)
FlushQueue ==
    /\ handler = "locked2" /\ handler' = "emptied"
    /\ BufferReturn(Queued)
    /\ bufferQ' = <<>> /\ bufferSem' = DrainedSem
    /\ UNCHANGED <<stateVars, bIsPortFlushed, call, command, bufferMutex,
                   pauseEvent, bExitBufferProcessThread, inputVars>>

\* Variant with a defect: only what the data buffers hold is returned.
FlushReturnHeld ==
    /\ handler = "emptied" /\ handler' = "returned"
    /\ BufferReturn({inputDataBuffer, processData} \ {NoBuffer})
    /\ inputDataBuffer' = NoBuffer /\ processData' = NoBuffer
    /\ UNCHANGED <<stateVars, bIsPortFlushed, bufferQ, bufferSem, call,
                   command, bufferMutex, pauseEvent, bExitBufferProcessThread,
                   srcInput, decodeYet, srcOutput, mfcVars, startVars,
                   exceptionFlag>>

\* Variant with a defect: the data buffers are not reset.
FlushReturnUnreset ==
    /\ handler = "emptied" /\ handler' = "returned"
    /\ BufferReturn(bBufferInOMX)
    /\ UNCHANGED <<stateVars, bIsPortFlushed, bufferQ, bufferSem, call,
                   command, bufferMutex, pauseEvent, bExitBufferProcessThread,
                   inputVars>>

(* ... what the data buffers hold, and what is marked to be in the component.*)
FlushReturn ==
    /\ handler = "emptied" /\ handler' = "returned"
    /\ BufferReturn(bBufferInOMX)
    /\ inputDataBuffer' = NoBuffer /\ processData' = NoBuffer
    /\ UNCHANGED <<stateVars, bIsPortFlushed, bufferQ, bufferSem, call,
                   command, bufferMutex, pauseEvent, bExitBufferProcessThread,
                   srcInput, decodeYet, srcOutput, mfcVars, startVars,
                   exceptionFlag>>

(* BufferProcess_Terminate: SrcInput is woken and joined, then SrcOutput.    *)
TerminateSrcInput ==
    /\ handler = "exiting" /\ handler' = "joinInput"
    /\ bufferSem' = IF bufferSem = 0 THEN 1 ELSE bufferSem
    /\ pauseEvent' = TRUE
    /\ UNCHANGED <<stateVars, bIsPortFlushed, bBufferInOMX, bufferQ, atClient,
                   call, command, bufferMutex, bExitBufferProcessThread,
                   inputVars>>

TerminateSrcOutput ==
    /\ handler = "joinInput" /\ srcInput = "exited"
    /\ handler' = "joinOutput"
    /\ bStreamonInbuf' = FALSE /\ mfcInput' = <<>>
    /\ hSourceStartEvent' = (hSourceStartEvent \/ ~bSourceStart)
    /\ pauseEvent' = TRUE
    /\ UNCHANGED <<stateVars, bIsPortFlushed, queueVars, call, command,
                   bufferMutex, bExitBufferProcessThread, srcInput, dataVars,
                   srcOutput, bConfiguredMFCSrc, bSourceStart, exceptionFlag>>

TerminateDone ==
    /\ handler = "joinOutput" /\ srcOutput = "exited"
    /\ handler' = "ended"
    /\ UNCHANGED <<stateVars, bIsPortFlushed, queueVars, call, command,
                   bufferMutex, pauseEvent, bExitBufferProcessThread,
                   inputVars>>

(* From Loaded the client goes to Idle again: the codec is opened, events,   *)
(* semaphore and mutexes are created anew, and so are the threads.           *)
BufferProcess_Create ==
    /\ handler = "ended" /\ command = "Loaded" /\ bBufferInOMX = {}
    /\ handler' = "idle" /\ command' = "none"
    /\ transientState' = "LoadedToIdle" /\ portState' = "Idle"
    /\ bufferSem' = 0 /\ pauseEvent' = FALSE
    /\ bufferMutex' = <<"free", "free">> /\ bExitBufferProcessThread' = FALSE
    /\ srcInput' = "outer" /\ srcOutput' = "loop" /\ decodeYet' = FALSE
    /\ bConfiguredMFCSrc' = FALSE /\ bSourceStart' = FALSE
    /\ hSourceStartEvent' = FALSE
    /\ UNCHANGED <<currentState, bIsPortFlushed, bBufferInOMX, bufferQ,
                   atClient, call, inputDataBuffer, processData, mfcInput,
                   bStreamonInbuf, exceptionFlag>>

Handler ==
    \/ (ToExecuting \/ ToPause \/ FlushMark) /\ UNCHANGED inputVars
    \/ FlushWake \/ FlushLock1 \/ FlushStop \/ FlushLock2 \/ FlushQueue
    \/ FlushReturn
    \/ (FlushDrainSem \/ FlushResetQueue) /\ UNCHANGED inputVars
    \/ /\ FlushDone
       /\ processData' = NoBuffer
       /\ UNCHANGED <<srcInput, decodeYet, inputDataBuffer, srcOutput,
                      mfcVars, startVars, exceptionFlag>>
    \/ TerminateBegin /\ UNCHANGED inputVars
    \/ TerminateSrcInput \/ TerminateSrcOutput \/ TerminateDone
    \/ BufferProcess_Create

EmptyThisBuffer ==
    (\E b \in Buffers : CallCheck(b)) \/ CallQueue \/ CallPost

Next ==
    \/ (EmptyThisBuffer \/ SendCommand) /\ UNCHANGED inputVars
    \/ Handler \/ SrcInputThread \/ SrcOutputThread \/ OutputPortEnabled

Spec == Init /\ [][Next]_vars

(* Every thread runs when it can; the client ends the call it has begun, and *)
(* does with the output port what OMX_EventPortSettingsChanged asks for.     *)
(* What it sends, and when, is up to it.                                     *)
Fairness ==
    /\ WF_vars(SrcInputThread) /\ WF_vars(SrcOutputThread)
    /\ WF_vars(Handler) /\ WF_vars(OutputPortEnabled)
    /\ WF_vars((CallQueue \/ CallPost) /\ UNCHANGED inputVars)

FairSpec == Spec /\ Fairness
-----------------------------------------------------------------------------
(* The places of the component a buffer can be in.                           *)
Inside ==
    Queued \cup Range(mfcInput)
    \cup ({inputDataBuffer, processData} \ {NoBuffer})

(* A buffer that is with the client is nowhere in the component: neither the *)
(* queue, nor the data buffers, nor the MFC go on using what EmptyBufferDone *)
(* returned.  While FlushPort empties the queue it may still have its entry. *)
ReturnedIsGone ==
    handler \notin {"returned", "drained"} => atClient \cap Inside = {}

(* A buffer is in one place of the component only: the SrcInput thread, the  *)
(* MFC and a flush never hold it twice, so EmptyBufferDone comes once.       *)
OnePlace ==
    /\ IsInjective(bufferQ)
    /\ IsInjective(mfcInput)
    /\ Queued \cap Range(mfcInput) = {}
    /\ inputDataBuffer \notin Queued \cup Range(mfcInput)
    /\ processData \notin Queued \cup Range(mfcInput)
    /\ inputDataBuffer = NoBuffer \/ inputDataBuffer # processData

(* Every buffer marked as being in the component is in it: the next buffer,  *)
(* the MFC or a flush can still find it and return it.  While a flush is     *)
(* under way, which returns whatever is marked, and once the threads are     *)
(* told to exit there may be others.                                         *)
NothingLost ==
    command = "none" /\ ~bExitBufferProcessThread => bBufferInOMX \subseteq Inside

(* Every element of bufferQ is announced by the semaphore, or about to be,   *)
(* or the thread has been told of it: none stays behind unnoticed.           *)
Announced ==
    Len(bufferQ) <= bufferSem + (IF call.at = "queued" THEN 1 ELSE 0)
                              + (IF srcInput = "dequeue" THEN 1 ELSE 0)

(* After a flush, and on the way to Idle, the client has its buffers back.   *)
IdleHasNothing ==
    currentState = "Idle" /\ command = "none" => bBufferInOMX = {} /\ Inside = {}

(* In Executing with no command under way the threads process: neither does  *)
(* Check_BufferProcess_State forbid it nor Wait_ProcessPause hold them.      *)
ExecutingRuns ==
    currentState = "Executing" /\ command = "none"
        => Check_BufferProcess_State /\ ~ProcessPaused

(* The MFC takes every header and all data, the client passes buffers in     *)
(* Executing with no command outstanding and never pauses.                   *)
Undisturbed == Faults = {} /\ ~Overlaps /\ "Pause" \notin Targets

(* A buffer that the client has passed is in one place of the component, and *)
(* one that was returned is nowhere in it.  If nothing disturbs the flow,    *)
(* the MFC or a flush finds each, all are announced to the thread, in Idle   *)
(* the client has them all, and in Executing nothing holds the threads.      *)
InputBuffersKept ==
    /\ TypeOK
    /\ ReturnedIsGone
    /\ OnePlace
    /\ Undisturbed => NothingLost /\ IdleHasNothing /\ Announced /\ ExecutingRuns

(* A flush, by command or on the way to Idle, comes to its end, wherever the *)
(* two threads hold a mutex or wait when it begins.                          *)
FlushEnds == command \in {"Flush", "Idle"} ~> command = "none"

(* The threads end, wherever they are, when the component is closed down.    *)
TerminateEnds == bExitBufferProcessThread /\ handler = "exiting" ~> handler = "ended"

(* A buffer the client passes comes back, as long as the component goes on   *)
(* executing and the MFC takes its data.                                     *)
BufferReturns ==
    \A b \in Buffers :
        b \in bBufferInOMX ~>
            \/ b \notin bBufferInOMX
            \/ currentState # "Executing" \/ bExitBufferProcessThread
=============================================================================
