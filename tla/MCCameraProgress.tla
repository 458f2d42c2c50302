-------------------------- MODULE MCCameraProgress --------------------------
(* What the threads of the camera (API 2) bring to an end: a thread that is  *)
(* told to terminate, requests, autofocus and flash, turns that wait for     *)
(* buffers.  A behaviour is of one instance of one of the modules, the       *)
(* others keep their initial state.                                          *)
EXTENDS SignalDrivenThread, Integers

VARIABLES
    instance,
    kind, submitted, dequeued, freed, signalConsumer, notifying,     \* CameraRequests
    m_isRequestQueueNull, entries, m_numOfEntries, m_entryInsertionIndex,
    m_entryProcessingIndex, m_lastCompletedFrameCnt, signals, requestTurn,
    requestPc, sensor, shot, m_nightCaptureCnt, m_nightCaptureFrameCnt, done,
    frame, handedOver,
    af, flash, ae, late, focusPc, bubble, lens, wanted, asked, picture,  \* CameraFocus
    status, held, index, fresh, gone, window, scaler, turn           \* CameraBuffers

requestVars ==
    <<kind, submitted, dequeued, freed, signalConsumer, notifying, m_isRequestQueueNull,
      entries, m_numOfEntries, m_entryInsertionIndex, m_entryProcessingIndex,
      m_lastCompletedFrameCnt, signals, requestTurn, requestPc, sensor, shot,
      m_nightCaptureCnt, m_nightCaptureFrameCnt, done, frame, handedOver>>
focusVars == <<af, flash, ae, late, focusPc, bubble, lens, wanted, asked, picture>>
bufferVars == <<status, held, index, fresh, gone, window, scaler, turn>>
all == <<instance, threadVars, requestVars, focusVars, bufferVars>>

-----------------------------------------------------------------------------
Requests ==
    INSTANCE CameraRequests
      WITH NumRequests <- 3, NumEntries <- 2, SensorDepth <- 2, StreamBuffers <- 2,
           Kinds <- {"preview"}, FirstKinds <- {"preview"}, MayDrop <- FALSE,
           StillAlone <- FALSE, KeepsUp <- TRUE, QueuesInDequeue <- FALSE,
           pc <- requestPc, turn <- requestTurn

\* No flash; the flash for every picture.
Focus ==
    INSTANCE CameraFocus
      WITH AfModes <- {"AUTO", "VIDEO"}, FlashModes <- {"on"},
           FrameKinds <- {"preview", "still", "reprocess"},
           Hasty <- FALSE, Races <- FALSE, LateCapture <- FALSE,
           FlashWait <- 1, StableWait <- 1, RetryAfter <- 1, pc <- focusPc
Flashing ==
    INSTANCE CameraFocus
      WITH AfModes <- {"AUTO"}, FlashModes <- {"always"}, FrameKinds <- {"preview", "still"},
           Hasty <- FALSE, Races <- FALSE, LateCapture <- FALSE,
           FlashWait <- 1, StableWait <- 1, RetryAfter <- 1, pc <- focusPc

Counts == [node |-> 4, JPEG |-> 3]
Mins == [node |-> 1, JPEG |-> 1]
Turns == INSTANCE CameraBuffers
           WITH Subs <- <<"JPEG">>, Count <- Counts, Hw <- 3, Least <- Mins, Keeps <- 1,
                Fails <- FALSE, OneByOne <- TRUE, node <- scaler

MCInit ==
    /\ instance \in {"thread", "requests", "focus", "flashing", "turns"}
    /\ ThreadInit
    /\ Requests!Init
    /\ IF instance = "flashing" THEN Flashing!Init ELSE Focus!Init
    /\ instance \notin {"focus", "flashing"} =>
           wanted = "AUTO" /\ ~ af.hwFailed /\ af.service = "INACTIVE"
    /\ Turns!Init

\* The part of a step that is of no other instance.
Alone(name, step, rest) == instance = name /\ step /\ UNCHANGED <<instance, rest>>

InThread(A) == Alone("thread", A, <<requestVars, focusVars, bufferVars>>)
InRequests(A) == Alone("requests", A, <<threadVars, focusVars, bufferVars>>)
InFocus(A) == Alone("focus", A, <<threadVars, requestVars, bufferVars>>)
InFlashing(A) == Alone("flashing", A, <<threadVars, requestVars, bufferVars>>)
InTurns(A) == Alone("turns", A, <<threadVars, requestVars, focusVars>>)

MCNext ==
    \/ InThread(ThreadNext) \/ InRequests(Requests!Next)
    \/ InFocus(Focus!Next) \/ InFlashing(Flashing!Next)
    \/ InTurns(Turns!Next)

-----------------------------------------------------------------------------
(* The fairness of each module's own specification.                          *)

RequestsFairness ==
    /\ WF_all(InRequests(Requests!notifyRequestQueueNotEmpty))
    /\ WF_all(InRequests(Requests!mainThread))
    /\ WF_all(InRequests(Requests!sensorThread))
    /\ \A s \in {"scp", "scc"} : WF_all(InRequests(Requests!streamThread(s)))

FocusFairness ==
    /\ WF_all(InFocus(Focus!Request) \/ InFlashing(Flashing!Request))
    /\ WF_all(InFocus(Focus!SensorIsp) \/ InFlashing(Flashing!SensorIsp))
    /\ WF_all(InFocus(Focus!MeteringNotification) \/ InFlashing(Flashing!MeteringNotification))
    /\ SF_all(InFocus(Focus!SensorShot) \/ InFlashing(Flashing!SensorShot))
    /\ SF_all(InFocus(Focus!LensScans) \/ InFlashing(Flashing!LensScans))
    /\ SF_all(InFocus(Focus!LensEnds) \/ InFlashing(Flashing!LensEnds))
    /\ SF_all(InFlashing(Flashing!FlashAnswers))
    /\ SF_all(InFlashing(Flashing!FlashGoesOff))

TurnsFairness ==
    /\ WF_all(InTurns(Turns!Thread))
    /\ \A s \in {"node", "JPEG"} : WF_all(InTurns(Turns!GiveBack(s)))

MCSpec ==
    /\ MCInit /\ [][MCNext]_all
    /\ WF_all(InThread(threadLoop))
    /\ RequestsFairness /\ FocusFairness /\ TurnsFairness

-----------------------------------------------------------------------------
\* A thread that is told to terminate ends, and so does every turn of a stream
\* thread that waits for buffers; every request the service queued comes back;
\* an autofocus it asked for is answered with a locked state, precapture metering
\* is told to have converged, and a still that is held for the flash is taken.
ServiceIsAnswered ==
    /\ TerminateEnds
    /\ Turns!TurnEnds
    /\ Requests!AllFreed
    /\ instance = "focus" /\ asked ~> ~ asked
    /\ ae.precapture ~> ~ ae.precapture
    /\ picture = "held" ~> picture = "taken"
=============================================================================
