------------------------------ MODULE VdecShare ------------------------------
(* The output port of a video decoder with BUFFER_SHARE, the set-up Android  *)
(* uses: the MFC decodes straight into the buffers of the client.  DstInput  *)
(* takes them from bufferQ to the MFC, DstOutput gives back those that hold  *)
(* a picture.  When the header of the stream has been parsed the component   *)
(* asks for a change of the port's settings: the client disables the port,   *)
(* frees its buffers, and enables it with new ones, and only then does the   *)
(* SrcInput thread of the other port register them with the MFC.             *)
EXTENDS VdecPort

CONSTANTS
    Seeks,          \* may the client flush the input port by itself?
    FlushAfterDrop  \* may a flush begin when a dropped picture's buffer has
                    \* been queued again and DstOutput has not gone on?

VARIABLES
    dstInput,           \* where the DstInput thread is
    dstInputData,       \* the buffer it holds
    dstOutput,          \* where the DstOutput thread is
    outputDataBuffer,   \* way.port2WayDataBuffer.outputDataBuffer.bufferHeader
    dataValid,          \* ... and its dataValid
    processData,        \* processData.bufferHeader: the buffer just decoded
    mfcOutput,          \* the buffers the MFC has
    bStreamonOutbuf,    \* the MFC's output stream is on
    bConfiguredMFCSrc, bConfiguredMFCDst,
    bDestinationStart, hDestinationStartEvent,
    exceptionFlag,      \* NEED_PORT_DISABLE
    port,               \* bEnabled, bPopulated, bIsPortDisabled and whether
                        \* the client has buffers for the port
    stamp,              \* checkTimeStamp: "none", "set" or "check" is needed
    seeked,             \* the input port was flushed after this one
    kept                \* the pictures Postprocess kept since the last flush

threadVars == <<dstInput, dstInputData, dstOutput, outputDataBuffer, dataValid,
                processData>>
mfcVars == <<mfcOutput, bStreamonOutbuf>>
setupVars == <<bConfiguredMFCSrc, bConfiguredMFCDst, bDestinationStart,
               hDestinationStartEvent, exceptionFlag>>
history == <<seeked, kept>>
shareVars == <<threadVars, mfcVars, setupVars, port, stamp, history>>
vars == <<portVars, shareVars>>

TypeOK ==
    /\ PortTypeOK
    /\ {dstInputData, outputDataBuffer, processData} \subseteq Buffers \cup {NoBuffer}
    /\ mfcOutput \cup kept \subseteq Buffers
    /\ stamp \in {"none", "set", "check"}
    /\ port \in [{"enabled", "populated", "disabling", "assigned"} -> BOOLEAN]

Init ==
    /\ PortInit
    /\ dstInput = "outer" /\ dstInputData = NoBuffer
    /\ dstOutput = "outer" /\ outputDataBuffer = NoBuffer /\ dataValid = FALSE
    /\ processData = NoBuffer
    /\ mfcOutput = {} /\ bStreamonOutbuf = FALSE
    /\ bConfiguredMFCSrc = FALSE /\ bConfiguredMFCDst = FALSE
    /\ bDestinationStart = FALSE /\ hDestinationStartEvent = FALSE
    /\ exceptionFlag = FALSE
    /\ port = [enabled |-> TRUE, populated |-> TRUE, disabling |-> FALSE,
               assigned |-> TRUE]
    /\ stamp = "none" /\ seeked = FALSE /\ kept = {}
-----------------------------------------------------------------------------
(* The SrcInput thread of the other port.  The first data has the header of  *)
(* the stream: the port needs other buffers ...                              *)
SrcInputRuns == /\ currentState = "Executing"
                /\ transientState \notin {"ExecutingToIdle", "IdleToExecuting"}
                /\ ~bExitBufferProcessThread

SrcSetup ==
    /\ SrcInputRuns /\ command = "none" /\ ~bConfiguredMFCSrc
    /\ bConfiguredMFCSrc' = TRUE /\ exceptionFlag' = TRUE
    /\ UNCHANGED <<portVars, threadVars, mfcVars, bConfiguredMFCDst,
                   bDestinationStart, hDestinationStartEvent, port, stamp,
                   history>>

(* ... the same data is tried again once the port has been enabled anew: the *)
(* buffers are registered, queued without their headers, and the stream is   *)
(* started and stopped, which takes them all from the MFC ...                *)
DstSetup ==
    /\ SrcInputRuns /\ bConfiguredMFCSrc /\ ~exceptionFlag /\ ~bConfiguredMFCDst
    /\ bConfiguredMFCDst' = TRUE
    /\ mfcOutput' = {} /\ bStreamonOutbuf' = FALSE
    /\ UNCHANGED <<portVars, threadVars, bConfiguredMFCSrc, bDestinationStart,
                   hDestinationStartEvent, exceptionFlag, port, stamp, history>>

(* ... and with the data in the MFC DstInput and DstOutput may start.        *)
SettingUp == bConfiguredMFCDst /\ ~bDestinationStart

DestinationStart ==
    /\ SettingUp /\ handler \notin {"joinInput", "joinOutput", "ended"}
    /\ bDestinationStart' = TRUE /\ hDestinationStartEvent' = TRUE
    /\ UNCHANGED <<portVars, threadVars, mfcVars, bConfiguredMFCSrc,
                   bConfiguredMFCDst, exceptionFlag, port, stamp, history>>

(* A flush of the input port, when the client seeks, and the data after it.  *)
Seek ==
    /\ Seeks /\ ClientMaySend /\ currentState = "Executing"
    /\ bDestinationStart /\ ~seeked
    /\ stamp' = "set" /\ seeked' = TRUE
    /\ UNCHANGED <<portVars, threadVars, mfcVars, setupVars, port, kept>>

FirstData ==
    /\ stamp = "set" /\ SrcInputRuns /\ stamp' = "check"
    /\ UNCHANGED <<portVars, threadVars, mfcVars, setupVars, port, history>>
-----------------------------------------------------------------------------
(* DstInputBufferProcess.                                                    *)
DstInputGoes(from, to) ==
    /\ dstInput = from /\ dstInput' = to
    /\ UNCHANGED <<portVars, dstInputData, dstOutput, outputDataBuffer,
                   dataValid, processData, mfcVars, setupVars, port, stamp,
                   history>>

DstInputOuter ==
    IF bExitBufferProcessThread THEN DstInputGoes("outer", "exited")
    ELSE Check_BufferProcess_State /\ DstInputGoes("outer", "checks")

DstInputInner ==
    DstInputGoes("inner",
        IF Check_BufferProcess_State /\ ~bExitBufferProcessThread
        THEN "checks" ELSE "outer")

DstInputChecks ==
    DstInputGoes("checks",
        IF bIsPortFlushed \/ ~port.populated \/ portState # "Idle"
        THEN "outer" ELSE "lock")

DstInputLock ==
    /\ dstInput = "lock" /\ Lock(1, "DstInput")
    /\ dstInput' = IF bIsPortFlushed THEN "taken" ELSE "getQueue"
    /\ UNCHANGED <<stateVars, bIsPortFlushed, queueVars, flowVars, pauseEvent,
                   bExitBufferProcessThread, dstInputData, dstOutput,
                   outputDataBuffer, dataValid, processData, mfcVars,
                   setupVars, port, stamp, history>>

(* A step that leaves the loop's body and gives the mutex back.              *)
DstInputUnlocks(to) ==
    /\ Unlock(1) /\ dstInput' = to /\ dstInputData' = NoBuffer
    /\ UNCHANGED <<stateVars, bIsPortFlushed, flowVars, pauseEvent,
                   bExitBufferProcessThread, dstOutput, outputDataBuffer,
                   dataValid, processData, setupVars, port, stamp, history>>

(* OutputBufferGetQueue: its checks, the semaphore, the queue.               *)
DstInputGetQueue == MayGetQueue /\ DstInputGoes("getQueue", "semaphore")

DstInputGetsNothing ==
    /\ \/ dstInput = "getQueue" /\ ~MayGetQueue
       \/ dstInput = "dequeue" /\ bufferQ = <<>>
    /\ DstInputUnlocks("outer")
    /\ UNCHANGED <<queueVars, mfcVars>>

DstInputWait ==
    /\ dstInput = "semaphore" /\ dstInput' = "dequeue"
    /\ bufferSem > 0 /\ bufferSem' = bufferSem - 1
    /\ UNCHANGED <<stateVars, bIsPortFlushed, bBufferInOMX, bufferQ, atClient,
                   flowVars, bufferMutex, pauseEvent,
                   bExitBufferProcessThread, dstInputData, dstOutput,
                   outputDataBuffer, dataValid, processData, mfcVars,
                   setupVars, port, stamp, history>>

DstInputDequeue ==
    /\ dstInput = "dequeue" /\ bufferQ # <<>> /\ dstInput' = "taken"
    /\ bufferQ' = Tail(bufferQ) /\ dstInputData' = Head(bufferQ)
    /\ UNCHANGED <<stateVars, bIsPortFlushed, bBufferInOMX, bufferSem,
                   atClient, flowVars, bufferMutex, pauseEvent,
                   bExitBufferProcessThread, dstOutput, outputDataBuffer,
                   dataValid, processData, mfcVars, setupVars, port, stamp,
                   history>>

DstInputUnflushed == ~bIsPortFlushed /\ DstInputGoes("taken", "process")

(* dstInputBufferProcess of the codec: in a state for it, DstInput awaits    *)
(* the start unless a flush has begun.                                       *)
DstInputMayProcess ==
    port.enabled /\ port.populated /\ Check_BufferProcess_State

DstInputProcess ==
    /\ DstInputMayProcess
    /\ DstInputGoes("process",
           IF ~bDestinationStart /\ ~bIsPortFlushed THEN "awaitStart"
           ELSE "enqueue")

DstInputStarted ==
    hDestinationStartEvent /\ DstInputGoes("awaitStart", "started")

DstInputResetEvent ==
    /\ dstInput = "started" /\ dstInput' = "enqueue"
    /\ hDestinationStartEvent' = FALSE
    /\ UNCHANGED <<portVars, dstInputData, dstOutput, outputDataBuffer,
                   dataValid, processData, mfcVars, bConfiguredMFCSrc,
                   bConfiguredMFCDst, bDestinationStart, exceptionFlag, port,
                   stamp, history>>

(* A buffer that is dropped is known by its mark alone, until a flush.       *)
DstInputDrops ==
    /\ \/ dstInput = "taken" /\ bIsPortFlushed /\ DstInputUnlocks("outer")
       \/ dstInput = "process" /\ ~DstInputMayProcess /\ DstInputUnlocks("inner")
       \/ dstInput = "enqueue" /\ ~bConfiguredMFCDst /\ DstInputUnlocks("inner")
    /\ UNCHANGED <<queueVars, mfcVars>>

(* DstIn: with its header to the MFC, whose stream is started.               *)
DstIn ==
    /\ dstInput = "enqueue" /\ bConfiguredMFCDst
    /\ mfcOutput' = mfcOutput \cup ({dstInputData} \ {NoBuffer})
    /\ bStreamonOutbuf' = TRUE
    /\ DstInputUnlocks("inner")
    /\ UNCHANGED queueVars

DstInputThread ==
    \/ DstInputOuter \/ DstInputInner \/ DstInputChecks \/ DstInputLock
    \/ DstInputGetQueue \/ DstInputGetsNothing \/ DstInputWait
    \/ DstInputDequeue \/ DstInputUnflushed \/ DstInputProcess
    \/ DstInputStarted \/ DstInputResetEvent \/ DstInputDrops \/ DstIn
-----------------------------------------------------------------------------
(* DstOutputBufferProcess.                                                   *)
DstOutputGoes(from, to) ==
    /\ dstOutput = from /\ dstOutput' = to
    /\ UNCHANGED <<portVars, dstInput, dstInputData, outputDataBuffer,
                   dataValid, processData, mfcVars, setupVars, port, stamp,
                   history>>

DstOutputOuter ==
    DstOutputGoes("outer", IF bExitBufferProcessThread THEN "exited"
                           ELSE IF ProcessPaused THEN "paused" ELSE "inner")

DstOutputPaused == pauseEvent /\ DstOutputGoes("paused", "resume")

DstOutputResume ==
    /\ dstOutput = "resume" /\ dstOutput' = "inner"
    /\ pauseEvent' = FALSE
    /\ UNCHANGED <<stateVars, bIsPortFlushed, queueVars, flowVars,
                   bufferMutex, bExitBufferProcessThread, dstInput,
                   dstInputData, outputDataBuffer, dataValid, processData,
                   mfcVars, setupVars, port, stamp, history>>

DstOutputInner ==
    DstOutputGoes("inner",
        IF Check_BufferProcess_State /\ ~bExitBufferProcessThread
        THEN "checks" ELSE "outer")

DstOutputChecks ==
    DstOutputGoes("checks", IF bIsPortFlushed THEN "outer" ELSE "lock")

DstOutputLock ==
    /\ dstOutput = "lock" /\ Lock(2, "DstOutput") /\ dstOutput' = "decoded"
    /\ UNCHANGED <<stateVars, bIsPortFlushed, queueVars, flowVars, pauseEvent,
                   bExitBufferProcessThread, dstInput, dstInputData,
                   outputDataBuffer, dataValid, processData, mfcVars,
                   setupVars, port, stamp, history>>

(* DstOut: VIDIOC_DQBUF blocks while the stream is on and no frame decoded,  *)
DstOutputFrame ==
    /\ dstOutput = "decoded" /\ dstOutput' = "post"
    /\ bDestinationStart /\ bStreamonOutbuf
    /\ \E b \in mfcOutput : mfcOutput' = mfcOutput \ {b} /\ processData' = b
    /\ UNCHANGED <<portVars, dstInput, dstInputData, outputDataBuffer,
                   dataValid, bStreamonOutbuf, setupVars, port, stamp, history>>

DstOutputUnlocks ==
    /\ Unlock(2) /\ dstOutput' = "inner" /\ processData' = NoBuffer
    /\ UNCHANGED <<stateVars, bIsPortFlushed, flowVars, pauseEvent,
                   bExitBufferProcessThread, dstInput, dstInputData, mfcVars,
                   setupVars, port, seeked>>

(* and without the stream, or in no state for it, there is none: the header  *)
(* of the data buffer is lost, its dataValid stays.                          *)
DstOutputNoFrame ==
    /\ dstOutput = "decoded"
    /\ \/ ~(bDestinationStart /\ bStreamonOutbuf)
       \/ ~(port.enabled /\ port.populated /\ Check_BufferProcess_State)
    /\ outputDataBuffer' = NoBuffer
    /\ DstOutputUnlocks
    /\ UNCHANGED <<queueVars, dataValid, stamp, kept>>

(* Postprocess_OutputData with a picture.  It is kept, and the next one      *)
(* takes its place, after a seek until there is data, and where a change of  *)
(* resolution gives it the length zero, unless the port is flushed; one that *)
(* is not the first of the data after a seek is dropped, and its buffer      *)
(* queued for DstInput ...                                                   *)
DstOutputKeeps ==
    /\ dstOutput = "post"
    /\ \/ stamp = "set" /\ UNCHANGED stamp
       \/ stamp # "set" /\ ~bIsPortFlushed /\ stamp' = "none"
    /\ outputDataBuffer' = processData /\ dataValid' = TRUE
    /\ kept' = kept \cup ({processData} \ {NoBuffer})
    /\ DstOutputUnlocks
    /\ UNCHANGED queueVars

DstOutputDrops ==
    /\ dstOutput = "post" /\ stamp = "check" /\ PortMutexFree
    /\ outputDataBuffer' = processData /\ dataValid' = TRUE
    /\ IF bIsPortFlushed \/ ~port.enabled \/ port.disabling
       THEN UNCHANGED <<bufferQ, bufferSem>>
       ELSE /\ bufferQ' = Append(bufferQ, processData)
            /\ bufferSem' = bufferSem + 1
    /\ DstOutputUnlocks
    /\ UNCHANGED <<bBufferInOMX, atClient, stamp, kept>>

(* ... and any other, with its length, in a flush or the last of the stream  *)
(* whatever data is awaited, is returned.                                    *)
DstOutputReturns ==
    /\ dstOutput = "post"
    /\ stamp \in {"none", "check"}
    /\ stamp' \in {stamp, "none"}
    /\ BufferReturn({processData})
    /\ outputDataBuffer' = NoBuffer /\ dataValid' = FALSE
    /\ DstOutputUnlocks
    /\ UNCHANGED <<bufferQ, bufferSem, kept>>

(* What DstOutput does by itself; when there is a frame is up to the MFC.    *)
DstOutputThread ==
    \/ DstOutputOuter \/ DstOutputPaused \/ DstOutputResume \/ DstOutputInner
    \/ DstOutputChecks \/ DstOutputLock \/ DstOutputNoFrame
    \/ DstOutputKeeps \/ DstOutputDrops \/ DstOutputReturns
-----------------------------------------------------------------------------
(* The client's commands for the port: disabling it when its settings have   *)
(* changed, and enabling it again before anything else.                      *)
SendPortDisable ==
    /\ ClientMaySend /\ exceptionFlag /\ port.enabled
    /\ command' = "PortDisable" /\ portState' = "Loaded"
    /\ port' = [port EXCEPT !.disabling = TRUE]
    /\ UNCHANGED <<currentState, transientState, bIsPortFlushed, queueVars,
                   call, handler, bufferMutex, pauseEvent,
                   bExitBufferProcessThread, threadVars, mfcVars, setupVars,
                   stamp, history>>

SendPortEnable ==
    /\ ClientMaySend /\ ~port.enabled
    /\ command' = "PortEnable" /\ portState' = "Idle"
    /\ UNCHANGED <<currentState, transientState, bIsPortFlushed, queueVars,
                   call, handler, bufferMutex, pauseEvent,
                   bExitBufferProcessThread, shareVars>>

(* A dropped picture's buffer that is in the queue is still what DstOutput's *)
(* data buffer says, until DstOutput asks for the next picture.              *)
Undropped ==
    \/ FlushAfterDrop \/ ~dataValid \/ outputDataBuffer \notin Queued
    \/ dstOutput \in {"decoded", "post"}

(* FreeBuffer for each buffer, when the client has them all, and UseBuffer.  *)
FreeBuffers ==
    /\ command = "PortDisable" /\ handler = "disabling"
    /\ port.assigned /\ atClient = Buffers
    /\ port' = [port EXCEPT !.assigned = FALSE]
    /\ UNCHANGED <<portVars, threadVars, mfcVars, setupVars, stamp, history>>

UseBuffers ==
    /\ command = "PortEnable" /\ ~port.assigned
    /\ port' = [port EXCEPT !.assigned = TRUE, !.populated = TRUE]
    /\ UNCHANGED <<portVars, threadVars, mfcVars, setupVars, stamp, history>>
-----------------------------------------------------------------------------
\* Variant with a defect: DstInput is not woken where it awaits the start.
FlushWakeUnstarted ==
    /\ handler = "marked" /\ handler' = "woken"
    /\ pauseEvent' = TRUE /\ bufferSem' = bufferSem + 1
    /\ UNCHANGED <<stateVars, bIsPortFlushed, bBufferInOMX, bufferQ, atClient,
                   call, command, bufferMutex, bExitBufferProcessThread,
                   shareVars>>

(* BufferFlush: both threads are woken, wherever they wait ...               *)
FlushWake ==
    /\ handler = "marked" /\ handler' = "woken"
    /\ pauseEvent' = TRUE /\ bufferSem' = bufferSem + 1
    /\ hDestinationStartEvent' = (hDestinationStartEvent \/ ~bDestinationStart)
    /\ UNCHANGED <<stateVars, bIsPortFlushed, bBufferInOMX, bufferQ, atClient,
                   call, command, bufferMutex, bExitBufferProcessThread,
                   threadVars, mfcVars, bConfiguredMFCSrc, bConfiguredMFCDst,
                   bDestinationStart, exceptionFlag, port, stamp, history>>

FlushLock1 == FlushLock(1, "woken", "locked1") /\ UNCHANGED shareVars

(* ... the MFC gives up all its buffers, which ends DstOutput's wait ...     *)
FlushStop ==
    /\ handler = "locked1" /\ handler' = "stopped"
    /\ bStreamonOutbuf' = FALSE /\ mfcOutput' = {}
    /\ UNCHANGED <<stateVars, bIsPortFlushed, queueVars, call, command,
                   bufferMutex, pauseEvent, bExitBufferProcessThread,
                   threadVars, setupVars, port, stamp, history>>

FlushLock2 == FlushLock(2, "stopped", "locked2") /\ UNCHANGED shareVars

(* ... FlushPort returns what is queued, what the data buffer holds ...      *)
FlushQueue ==
    /\ handler = "locked2" /\ handler' = "emptied"
    /\ BufferReturn(Queued)
    /\ bufferQ' = <<>> /\ bufferSem' = DrainedSem
    /\ UNCHANGED <<stateVars, bIsPortFlushed, call, command, bufferMutex,
                   pauseEvent, bExitBufferProcessThread, shareVars>>

Held == IF dataValid THEN {outputDataBuffer} \ {NoBuffer} ELSE {}

FlushHeld ==
    /\ handler = "emptied" /\ handler' = "held"
    /\ BufferReturn(Held)
    /\ outputDataBuffer' = IF dataValid THEN NoBuffer ELSE outputDataBuffer
    /\ dataValid' = FALSE
    /\ UNCHANGED <<stateVars, bIsPortFlushed, bufferQ, bufferSem, call,
                   command, bufferMutex, pauseEvent, bExitBufferProcessThread,
                   dstInput, dstInputData, dstOutput, processData, mfcVars,
                   setupVars, port, stamp, history>>

\* Variant with a defect: what the MFC had is left with it.
FlushMarkedNever ==
    /\ handler = "held" /\ handler' = "returned"
    /\ UNCHANGED <<stateVars, bIsPortFlushed, queueVars, call, command,
                   bufferMutex, pauseEvent, bExitBufferProcessThread, shareVars>>

(* ... and then whatever is marked, which is how those that the MFC had, and *)
(* those that were dropped, are found.                                       *)
FlushMarked ==
    /\ handler = "held" /\ handler' = "returned"
    /\ BufferReturn(bBufferInOMX)
    /\ UNCHANGED <<stateVars, bIsPortFlushed, bufferQ, bufferSem, call,
                   command, bufferMutex, pauseEvent, bExitBufferProcessThread,
                   shareVars>>

(* With the mark of the flush taken back, a port that is to be disabled is   *)
(* so when the client has freed its buffers.                                 *)
FlushEnd ==
    /\ FlushDone
    /\ seeked' = FALSE /\ kept' = {}
    /\ UNCHANGED <<threadVars, mfcVars, setupVars, port, stamp>>

PortGoes(to) ==
    /\ handler' = to
    /\ command' = IF to = "idle" THEN "none" ELSE command
    /\ UNCHANGED <<stateVars, bIsPortFlushed, queueVars, call, bufferMutex,
                   pauseEvent, bExitBufferProcessThread, threadVars, mfcVars,
                   bConfiguredMFCSrc, bConfiguredMFCDst, bDestinationStart,
                   hDestinationStartEvent, stamp, history>>

DisableUnpopulate ==
    /\ handler = "flushed" /\ PortGoes("disabling")
    /\ port' = [port EXCEPT !.populated = FALSE]
    /\ UNCHANGED exceptionFlag

DisableDone ==
    /\ handler = "disabling" /\ ~port.assigned /\ PortGoes("idle")
    /\ port' = [port EXCEPT !.enabled = FALSE, !.disabling = FALSE]
    /\ UNCHANGED exceptionFlag

EnableDone ==
    /\ handler = "idle" /\ command = "PortEnable" /\ port.assigned
    /\ PortGoes("idle")
    /\ port' = [port EXCEPT !.enabled = TRUE, !.populated = TRUE]
    /\ exceptionFlag' = FALSE
-----------------------------------------------------------------------------
(* BufferProcess_Terminate, as with a port that copies.                      *)
TerminateDstInput ==
    /\ handler = "exiting" /\ handler' = "joinInput"
    /\ bufferSem' = (IF bufferSem = 0 THEN 1 ELSE bufferSem)
    /\ pauseEvent' = TRUE
    /\ UNCHANGED <<stateVars, bIsPortFlushed, bBufferInOMX, bufferQ, atClient,
                   call, command, bufferMutex, bExitBufferProcessThread,
                   shareVars>>

TerminateDstOutput ==
    /\ handler = "joinInput" /\ dstInput = "exited" /\ handler' = "joinOutput"
    /\ bStreamonOutbuf' = FALSE /\ mfcOutput' = {}
    /\ pauseEvent' = TRUE
    /\ UNCHANGED <<stateVars, bIsPortFlushed, queueVars, call, command,
                   bufferMutex, bExitBufferProcessThread, threadVars,
                   setupVars, port, stamp, history>>

TerminateDone ==
    /\ handler = "joinOutput" /\ dstOutput = "exited" /\ handler' = "ended"
    /\ UNCHANGED <<stateVars, bIsPortFlushed, queueVars, call, command,
                   bufferMutex, pauseEvent, bExitBufferProcessThread,
                   shareVars>>

Handler ==
    \/ (ToExecuting \/ ToPause) /\ UNCHANGED shareVars
    \/ Undropped /\ (command = "Idle" => ~SettingUp) /\ FlushMark
       /\ UNCHANGED shareVars
    \/ FlushWake \/ FlushLock1 \/ FlushStop \/ FlushLock2 \/ FlushQueue
    \/ FlushHeld \/ FlushMarked
    \/ (FlushDrainSem \/ FlushResetQueue) /\ UNCHANGED shareVars
    \/ FlushEnd \/ DisableUnpopulate \/ DisableDone \/ EnableDone
    \/ ~SettingUp /\ TerminateBegin /\ UNCHANGED shareVars
    \/ TerminateDstInput \/ TerminateDstOutput \/ TerminateDone

FillThisBuffer ==
    \/ port.enabled /\ ~port.disabling /\ \E b \in Buffers : CallCheck(b)
    \/ CallQueue \/ CallPost

Next ==
    \/ FillThisBuffer /\ UNCHANGED shareVars
    \/ port.enabled /\ Undropped /\ SendCommand /\ UNCHANGED shareVars
    \/ SendPortDisable \/ SendPortEnable \/ FreeBuffers \/ UseBuffers
    \/ Handler \/ DstInputThread \/ DstOutputThread \/ DstOutputFrame
    \/ SrcSetup \/ DstSetup \/ DestinationStart \/ Seek \/ FirstData

Fairness ==
    /\ WF_vars(DstInputThread) /\ WF_vars(DstOutputThread)
    /\ WF_vars(Handler) /\ WF_vars(DestinationStart) /\ WF_vars(DstSetup)
    /\ WF_vars(FreeBuffers) /\ WF_vars(UseBuffers)
    /\ WF_vars(SendPortDisable) /\ WF_vars(SendPortEnable)
    /\ WF_vars((CallQueue \/ CallPost) /\ UNCHANGED shareVars)

Spec == Init /\ [][Next]_vars /\ Fairness
-----------------------------------------------------------------------------
(* A buffer the client has is not decoded into, and is not one a thread is   *)
(* going to pass to the MFC or to return again.                              *)
Passed == mfcOutput \cup ({dstInputData, processData} \ {NoBuffer})

NotWrittenAtClient ==
    /\ atClient \cap Passed = {}
    /\ handler \notin {"returned", "drained"} => atClient \cap Queued = {}

(* Where a buffer marked as the component's can be.                          *)
Places == Passed \cup Queued \cup Held

(* No buffer is in two places, so that a flush returns it once.              *)
ReturnedOnce ==
    /\ \A b \in mfcOutput : b \notin Queued /\ b # dstInputData /\ b # processData
    /\ handler = "emptied" => Held \cap atClient = {}

(* The buffers the component has and no thread would find.  Pictures that    *)
(* were kept are among them, one after the other; beside them there is one   *)
(* at most, that DstInput dropped on the way of a change of settings.  The   *)
(* next flush returns them all.                                              *)
Lost == bBufferInOMX \ Places

FewLost == command = "none" => Cardinality(Lost \ kept) <= 1

(* What the client has freed, or is about to, the component does not keep.   *)
NothingKept ==
    handler = "disabling" \/ ~port.assigned \/ ~port.enabled =>
        /\ Queued = {} /\ mfcOutput = {} /\ Held = {}
        /\ bBufferInOMX = {} /\ processData = NoBuffer /\ dstInputData = NoBuffer

(* Each command comes to its end, and so do the threads ...                  *)
CommandsEnd ==
    /\ handler # "idle" ~> handler \in {"idle", "ended"}
    /\ command \in {"PortDisable", "PortEnable"} ~> command = "none"

(* ... and, unless the client does something else, the change of settings.   *)
Reconfigured ==
    exceptionFlag ~> \/ bConfiguredMFCDst \/ currentState # "Executing"
                     \/ command \notin {"none", "PortDisable", "PortEnable"}
=============================================================================
