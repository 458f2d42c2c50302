--------------------------- MODULE CameraRequests ---------------------------
(* The way of a request through libcamera2/ExynosCameraHWInterface2.cpp: the *)
(* ring of RequestManager, the main thread that takes requests from the      *)
(* service and gives them back, the sensor thread that turns sensor frames   *)
(* into ISP shots, and the two stream threads that hand the output over.     *)
(* The threads wake each other through Signals.  Every call that holds       *)
(* m_requestMutex is one step.  A frame's data is its frame count.  Bayer    *)
(* buffers are not told apart: what is queued to the sensor is the frame     *)
(* count in its shot, NoFrame for a dummy or a shot that was used before.    *)
EXTENDS Integers, Sequences, Signals

CONSTANTS
    NumRequests,    \* bound: how many requests the service queues
    NumEntries,     \* NUM_MAX_REQUEST_MGR_ENTRY (5 in the code)
    SensorDepth,    \* NUM_MIN_SENSOR_QBUF (3 in the code)
    StreamBuffers,  \* buffers of a stream that wait in its driver
    Kinds,          \* the kinds of requests the service queues
    MayDrop,        \* the ISP may drop an output it has a buffer for
    FirstKinds,     \* the kinds of the first request
    StillAlone,     \* a picture is queued only when nothing is under way
    KeepsUp,        \* a stream thread is at most one frame behind the ISP
    QueuesInDequeue \* the service may queue while NULL is being returned

NoFrame == -1
Streams == {"scp", "scc"}
Threads == {"main", "sensor"} \cup Streams
Requests == 0 .. NumRequests - 1

\* MASK_OUTPUT_SCP and MASK_OUTPUT_SCC of the request's output streams.
Outputs(kind) ==
    CASE kind = "preview" -> {"scp"}
      [] kind = "jpeg" -> {"scc"}
      [] kind \in {"still", "night"} -> {"scp", "scc"}

ASSUME RequestsAssumption ==
    /\ {NumRequests, NumEntries, SensorDepth, StreamBuffers}
           \subseteq Nat \ {0}
    /\ Kinds \subseteq {"preview", "jpeg", "still", "night"}
    /\ FirstKinds \subseteq Kinds
    /\ {MayDrop, StillAlone, KeepsUp, QueuesInDequeue} \subseteq BOOLEAN

VARIABLES
    kind,           \* request -> its kind
    submitted,      \* requests the service has queued
    dequeued,       \* of these, the ones the main thread has taken
    freed,          \* how many went back through free_request
    signalConsumer, \* the service will notify when it queues a request
    notifying,      \* it is about to call notifyRequestQueueNotEmpty
    m_isRequestQueueNull,
    entries,        \* RequestManager: 0 .. NumEntries - 1 -> an entry
    m_numOfEntries,
    m_entryInsertionIndex,
    m_entryProcessingIndex,
    m_lastCompletedFrameCnt,
    signals,        \* thread -> its signal words
    turn,           \* thread -> m_processingSignal
    pc,             \* thread -> where its function is
    sensor,         \* the shots queued to the sensor, oldest first
    shot,           \* the sensor thread's shot: frame, outputs, dropped
    m_nightCaptureCnt,
    m_nightCaptureFrameCnt,
    done,           \* stream -> frames its driver has ready, oldest first
    frame,          \* stream -> the frame its thread works on
    handedOver      \* the outputs that came, as <<request, stream>>

service == <<kind, submitted, signalConsumer, notifying>>
manager == <<entries, m_numOfEntries, m_entryInsertionIndex,
             m_entryProcessingIndex, m_lastCompletedFrameCnt>>
sensorVars == <<sensor, shot, m_nightCaptureCnt, m_nightCaptureFrameCnt>>
streamVars == <<done, frame, handedOver>>
vars == <<service, dequeued, freed, m_isRequestQueueNull, manager, signals,
          turn, pc, sensorVars, streamVars>>

Statuses == {"EMPTY", "REGISTERED", "REQUESTED", "CAPTURED", "METADONE",
             "COMPLETED"}
Indices == 0 .. NumEntries - 1
EmptyEntry == [status |-> "EMPTY", frame |-> NoFrame, outputs |-> 0]
NoShot == [frame |-> NoFrame, outputs |-> {}, dropped |-> {}]

\* notifyRequestQueueNotEmpty has started the ISP and queued dummy shots.
Init ==
    /\ kind \in [Requests -> Kinds] /\ kind[0] \in FirstKinds
    /\ submitted = 0 /\ dequeued = 0 /\ freed = 0
    /\ signalConsumer = TRUE /\ notifying = FALSE
    /\ m_isRequestQueueNull = TRUE
    /\ entries = [i \in Indices |-> EmptyEntry]
    /\ m_numOfEntries = 0
    /\ m_entryInsertionIndex = -1
    /\ m_entryProcessingIndex = -1
    /\ m_lastCompletedFrameCnt = -1
    /\ signals = [t \in Threads |-> NoSignals]
    /\ turn = [t \in Threads |-> {}]
    /\ pc = [t \in Threads |-> "wait"]
    /\ sensor = [i \in 1 .. SensorDepth |-> NoFrame]
    /\ shot = NoShot
    /\ m_nightCaptureCnt = 0
    /\ m_nightCaptureFrameCnt = 0
    /\ done = [s \in Streams |-> <<>>]
    /\ frame = [s \in Streams |-> NoFrame]
    /\ handedOver = {}

-----------------------------------------------------------------------------
(* RequestManager.                                                           *)

GetNextIndex(i) == IF i + 1 >= NumEntries THEN 0 ELSE i + 1

\* The entries FindEntryIndexByFrameCnt looks for: at most one has the frame.
EntriesOf(f) == {i \in Indices : entries[i].frame = f}

\* Variant with a defect: the metadata alone completes a request.
CompletesEarly(e) == e.status \in {"METADONE", "COMPLETED"}

Completes(e) == e.status \in {"METADONE", "COMPLETED"} /\ e.outputs <= 0

\* CheckCompleted of entry i on the entries es.
CheckCompleted(es, i) ==
    IF Completes(es[i]) THEN [es EXCEPT ![i].status = "COMPLETED"] ELSE es

\* CheckCompleted tells the main thread, when the request is the next to go.
WakesMain(es, i, last) == Completes(es[i]) /\ last + 1 = es[i].frame

Tell(sigs, t, s) == [sigs EXCEPT ![t] = SetSignal(@, s)]

TellMainIf(sigs, wakes) ==
    IF wakes THEN Tell(sigs, "main", "STREAM_OUTPUT_DONE") ELSE sigs

\* Variant with a defect: one entry too many.
IsRequestQueueOverfull == m_numOfEntries > NumEntries

IsRequestQueueFull == m_numOfEntries >= NumEntries

\* RegisterRequest: an insertion index that is in use loses the request.
RegisterRequest(f) ==
    LET i == GetNextIndex(m_entryInsertionIndex) IN
    IF entries[i].status # "EMPTY"
    THEN UNCHANGED manager
    ELSE /\ entries' = [entries EXCEPT ![i] =
                            [status |-> "REGISTERED", frame |-> f,
                             outputs |-> IF kind[f] \in {"preview", "jpeg"}
                                         THEN 1 ELSE 2]]
         /\ m_numOfEntries' = m_numOfEntries + 1
         /\ m_entryInsertionIndex' = i
         /\ UNCHANGED <<m_entryProcessingIndex, m_lastCompletedFrameCnt>>

\* DeregisterRequest of the completed entry i: the next may be complete too.
DeregisterRequest(i) ==
    LET emptied == [entries EXCEPT ![i] = EmptyEntry]
        next == GetNextIndex(i)
    IN  /\ m_lastCompletedFrameCnt' = entries[i].frame
        /\ m_numOfEntries' = m_numOfEntries - 1
        /\ entries' = CheckCompleted(emptied, next)
        /\ signals' = TellMainIf(signals,
                          WakesMain(emptied, next, entries[i].frame))
        /\ UNCHANGED <<m_entryInsertionIndex, m_entryProcessingIndex>>

\* The next entry to go to the sensor, or none: MarkProcessingRequest gives
\* -1 when there is no entry, none since the last or none registered.
Markable ==
    LET i == GetNextIndex(m_entryProcessingIndex) IN
    {j \in {i} :
        /\ m_numOfEntries # 0
        /\ ~ (/\ m_entryProcessingIndex = m_entryInsertionIndex
              /\ m_entryProcessingIndex # -1
              /\ entries[m_entryProcessingIndex].status
                     \in {"REQUESTED", "CAPTURED"})
        /\ entries[j].status = "REGISTERED"}

\* NotifyStreamOutput counts one output of frame f.
Notified(f) ==
    [i \in Indices |-> IF entries[i].frame = f
                       THEN [entries[i] EXCEPT !.outputs = @ - 1]
                       ELSE entries[i]]

NotifyStreamOutput(f) ==
    IF EntriesOf(f) = {}
    THEN UNCHANGED <<entries, signals>>
    ELSE LET i == CHOOSE j \in EntriesOf(f) : TRUE
             es == Notified(f)
         IN  /\ entries' = CheckCompleted(es, i)
             /\ signals' = TellMainIf(signals,
                               WakesMain(es, i, m_lastCompletedFrameCnt))

managerOthers == <<m_numOfEntries, m_entryInsertionIndex,
                   m_entryProcessingIndex, m_lastCompletedFrameCnt>>

-----------------------------------------------------------------------------
(* The service (outside this repository).                                    *)

\* It queues a request and notifies the camera if the last one the camera
\* asked for was not there.
Submit ==
    /\ submitted < NumRequests
    /\ ~notifying
    /\ QueuesInDequeue \/ pc["main"] # "null"
    /\ StillAlone /\ {kind[r] : r \in freed .. submitted} # {"preview"}
           => freed = submitted
    /\ submitted' = submitted + 1
    /\ notifying' = signalConsumer
    /\ signalConsumer' = FALSE
    /\ UNCHANGED <<kind, dequeued, freed, m_isRequestQueueNull, manager,
                   signals, turn, pc, sensorVars, streamVars>>

\* Variant with a defect: the flag is left as it is.
notifyKeepingNull ==
    /\ notifying
    /\ notifying' = FALSE
    /\ signals' = Tell(signals, "main", "REQ_Q_NOT_EMPTY")
    /\ UNCHANGED <<kind, submitted, signalConsumer, dequeued, freed,
                   m_isRequestQueueNull, manager, turn, pc, sensorVars,
                   streamVars>>

notifyRequestQueueNotEmpty ==
    /\ notifying
    /\ notifying' = FALSE
    /\ m_isRequestQueueNull' = FALSE
    /\ signals' = Tell(signals, "main", "REQ_Q_NOT_EMPTY")
    /\ UNCHANGED <<kind, submitted, signalConsumer, dequeued, freed, manager,
                   turn, pc, sensorVars, streamVars>>

-----------------------------------------------------------------------------
(* The turns of the threads (SignalDrivenThread::threadLoop).                *)

Goes(t, from, to) == pc[t] = from /\ pc' = [pc EXCEPT ![t] = to]

TakeTurn(t, first(_)) ==
    /\ signals[t].received # {}
    /\ turn' = [turn EXCEPT ![t] = TurnOf(signals[t])]
    /\ signals' = [signals EXCEPT ![t] = AfterTurn(@)]
    /\ Goes(t, "wait", first(TurnOf(signals[t])))
    /\ UNCHANGED <<service, dequeued, freed, m_isRequestQueueNull, manager,
                   sensorVars, streamVars>>

-----------------------------------------------------------------------------
(* m_mainThreadFunc.                                                         *)

mainOthers == <<service, sensorVars, streamVars, turn>>

MainTurn ==
    TakeTurn("main", LAMBDA t : IF "REQ_Q_NOT_EMPTY" \in t
                                THEN "request" ELSE "done")

\* After the requests, the finished ones of the same turn.
Then == IF "STREAM_OUTPUT_DONE" \in turn["main"] THEN "done" ELSE "wait"

MainFull ==
    /\ IsRequestQueueFull
    /\ Goes("main", "request", Then)
    /\ UNCHANGED <<mainOthers, dequeued, freed, m_isRequestQueueNull,
                   manager, signals>>

\* dequeue_request returns NULL.  It is remembered one step later.
MainDequeueNull ==
    /\ ~IsRequestQueueFull
    /\ dequeued = submitted
    /\ Goes("main", "request", "null")
    /\ signalConsumer' = TRUE
    /\ UNCHANGED <<kind, submitted, notifying, sensorVars, streamVars, turn,
                   dequeued, freed, m_isRequestQueueNull, manager, signals>>

MainNull ==
    /\ Goes("main", "null", Then)
    /\ m_isRequestQueueNull' = TRUE
    /\ UNCHANGED <<mainOthers, dequeued, freed, manager, signals>>

MainRegister ==
    /\ ~IsRequestQueueFull
    /\ dequeued < submitted
    /\ Goes("main", "request", "registered")
    /\ dequeued' = dequeued + 1
    /\ RegisterRequest(dequeued)
    /\ UNCHANGED <<mainOthers, freed, m_isRequestQueueNull, signals>>

MainRegistered ==
    /\ Goes("main", "registered", Then)
    /\ LET again == IF IsRequestQueueFull THEN signals
                    ELSE Tell(signals, "main", "REQ_Q_NOT_EMPTY")
       IN  signals' = Tell(again, "sensor", "START_REQ_PROCESSING")
    /\ UNCHANGED <<mainOthers, dequeued, freed, m_isRequestQueueNull,
                   manager>>

\* PrepareFrame, DeregisterRequest, free_request and the frame queue.  The
\* index of a request that is not there would be -1 and the entry read before
\* the first one; DoneIsTrue says that this never happens.
MainDone ==
    /\ Goes("main", "done", "freed")
    /\ \E i \in EntriesOf(m_lastCompletedFrameCnt + 1) :
           IF entries[i].status = "COMPLETED"
           THEN freed' = freed + 1 /\ DeregisterRequest(i)
           ELSE UNCHANGED <<freed, manager, signals>>
    /\ UNCHANGED <<mainOthers, dequeued, m_isRequestQueueNull>>

\* getInProgressCount counts the JPEG that is being made.
MainFreed ==
    /\ Goes("main", "freed", "wait")
    /\ LET again == IF m_isRequestQueueNull THEN signals
                    ELSE Tell(signals, "main", "REQ_Q_NOT_EMPTY")
       IN  signals' = IF m_numOfEntries > 0 \/ pc["scc"] = "jpeg"
                      THEN Tell(again, "sensor", "START_REQ_PROCESSING")
                      ELSE again
    /\ UNCHANGED <<mainOthers, dequeued, freed, m_isRequestQueueNull,
                   manager>>

mainThread ==
    \/ MainTurn \/ MainFull \/ MainDequeueNull \/ MainNull
    \/ MainRegister \/ MainRegistered \/ MainDone \/ MainFreed

-----------------------------------------------------------------------------
(* m_sensorThreadFunc.                                                       *)

sensorOthers == <<service, dequeued, freed, m_isRequestQueueNull, turn>>

SensorTurn == TakeTurn("sensor", LAMBDA t : "start")

\* The request a frame from the sensor is for.  During a night capture every
\* frame is for the captured request; otherwise FindFrameCnt finds the one
\* that was sent with the frame.
Matched(f) ==
    IF m_nightCaptureCnt # 0 THEN m_nightCaptureFrameCnt
    ELSE IF \E i \in EntriesOf(f) : entries[i].status = "REQUESTED"
         THEN f ELSE NoFrame

\* FindFrameCnt marks the entry it finds.
Captured(f) ==
    [i \in Indices |->
        IF /\ m_nightCaptureCnt = 0 /\ f # NoFrame
           /\ entries[i].frame = f /\ entries[i].status = "REQUESTED"
        THEN [entries[i] EXCEPT !.status = "CAPTURED"]
        ELSE entries[i]]

\* UpdateIspParameters asks for the outputs of the request; a night capture
\* takes the picture with the last of five frames.
AskedOutputs(f) ==
    LET wanted == IF EntriesOf(f) = {} THEN {} ELSE Outputs(kind[f])
    IN  IF m_nightCaptureCnt = 1 THEN wanted \cup {"scc"}
        ELSE IF m_nightCaptureCnt > 1 \/ kind[f] = "night"
        THEN wanted \ {"scc"} ELSE wanted

\* A frame comes from the sensor; its shot goes to the ISP.
SensorMatch ==
    LET f == Matched(Head(sensor)) IN
    /\ f # NoFrame
    /\ Goes("sensor", "start", "isp")
    /\ sensor' = Tail(sensor)
    /\ entries' = Captured(Head(sensor))
    /\ shot' = [frame |-> f, outputs |-> AskedOutputs(f), dropped |-> {}]
    /\ CASE m_nightCaptureCnt = 0 /\ kind[f] = "night" ->
              m_nightCaptureCnt' = 4 /\ m_nightCaptureFrameCnt' = f
         [] m_nightCaptureCnt = 1 ->
              m_nightCaptureCnt' = 0 /\ m_nightCaptureFrameCnt' = 0
         [] m_nightCaptureCnt > 1 ->
              /\ m_nightCaptureCnt' = m_nightCaptureCnt - 1
              /\ UNCHANGED m_nightCaptureFrameCnt
         [] OTHER -> UNCHANGED <<m_nightCaptureCnt, m_nightCaptureFrameCnt>>
    /\ UNCHANGED <<sensorOthers, managerOthers, signals, streamVars>>

\* A frame that is for no request: the ISP gets a shot without output.
SensorBubble ==
    /\ Matched(Head(sensor)) = NoFrame
    /\ Goes("sensor", "start", "mark")
    /\ sensor' = Tail(sensor)
    /\ shot' = NoShot
    /\ UNCHANGED <<sensorOthers, manager, signals, streamVars,
                   m_nightCaptureCnt, m_nightCaptureFrameCnt>>

\* The ISP (a driver) gives the shot back.  An output for which its stream
\* has no buffer is dropped, and the flag of the shot cleared.
SensorIsp ==
    /\ Goes("sensor", "isp", "meta")
    /\ \A s \in shot.outputs :
           KeepsUp => "DATA_COMING" \notin signals[s].pending
    /\ \E dropped \in SUBSET shot.outputs :
           /\ \A s \in shot.outputs :
                  Len(done[s]) >= StreamBuffers => s \in dropped
           /\ \A s \in dropped : MayDrop \/ Len(done[s]) >= StreamBuffers
           /\ shot' = [frame |-> shot.frame, outputs |-> shot.outputs \ dropped,
                       dropped |-> dropped]
           /\ done' = [s \in Streams |->
                          IF s \in shot.outputs \ dropped
                          THEN Append(done[s], shot.frame) ELSE done[s]]
    /\ UNCHANGED <<sensorOthers, manager, signals, frame, handedOver, sensor,
                   m_nightCaptureCnt, m_nightCaptureFrameCnt>>

\* ApplyDynamicMetadata, except in the middle of a night capture.
SensorMeta ==
    /\ Goes("sensor", "meta", "scc")
    /\ LET here == {i \in EntriesOf(shot.frame) :
                        entries[i].status = "CAPTURED"}
       IN  IF m_nightCaptureCnt # 0 \/ here = {}
           THEN UNCHANGED <<entries, signals>>
           ELSE \E i \in here :
                    LET es == [entries EXCEPT ![i].status = "METADONE"] IN
                    /\ entries' = CheckCompleted(es, i)
                    /\ signals' = TellMainIf(signals,
                                   WakesMain(es, i, m_lastCompletedFrameCnt))
    /\ UNCHANGED <<sensorOthers, managerOthers, sensorVars, streamVars>>

\* Variant with a defect: a stream's thread that has frames is told no more.
OutputCameFirst(s) == s \in shot.outputs /\ Len(done[s]) = 1

\* The output of stream s came with this shot.
OutputCame(s) == s \in shot.outputs

\* What became of the output of stream s in this shot: NotifyStreamOutput if
\* it was dropped, a signal to the stream's thread if it came.
SensorOutput(s, from, to) ==
    /\ Goes("sensor", from, to)
    /\ IF s \in shot.dropped
       THEN NotifyStreamOutput(shot.frame)
       ELSE /\ signals' = IF OutputCame(s)
                          THEN Tell(signals, s, "DATA_COMING") ELSE signals
            /\ UNCHANGED entries
    /\ handedOver' = IF s \in shot.dropped /\ EntriesOf(shot.frame) # {}
                     THEN handedOver \cup {<<shot.frame, s>>}
                     ELSE handedOver
    /\ UNCHANGED <<sensorOthers, managerOthers, sensorVars, done, frame>>

\* popSensorQ and MarkProcessingRequest; the buffer goes to the sensor.  The
\* thread goes on by itself unless it has a request behind and one ahead.
SensorMark ==
    /\ Goes("sensor", "mark", "wait")
    /\ IF Markable = {}
       THEN /\ sensor' = Append(sensor, NoFrame)
            /\ UNCHANGED <<entries, m_entryProcessingIndex>>
       ELSE \E i \in Markable :
                /\ entries' = [entries EXCEPT ![i].status = "REQUESTED"]
                /\ m_entryProcessingIndex' = i
                /\ sensor' = Append(sensor, entries[i].frame)
    /\ signals' = IF shot.frame = NoFrame \/ Markable = {}
                  THEN Tell(signals, "sensor", "START_REQ_PROCESSING")
                  ELSE signals
    /\ shot' = NoShot
    /\ UNCHANGED <<sensorOthers, m_numOfEntries, m_entryInsertionIndex,
                   m_lastCompletedFrameCnt, m_nightCaptureCnt,
                   m_nightCaptureFrameCnt, streamVars>>

sensorThread ==
    \/ SensorTurn \/ SensorMatch \/ SensorBubble \/ SensorIsp \/ SensorMeta
    \/ SensorOutput("scc", "scc", "scp") \/ SensorOutput("scp", "scp", "mark")
    \/ SensorMark

-----------------------------------------------------------------------------
(* m_streamFunc_direct (scp) and m_streamFunc_indirect (scc).                *)

streamOthers == <<service, dequeued, freed, m_isRequestQueueNull, turn,
                  sensorVars>>

StreamTurn(s) == TakeTurn(s, LAMBDA t : "dequeue")

\* The oldest frame of the driver, and whether its request still has an
\* entry that says where it goes (GetOutputStreamByFrameCnt).
StreamDequeue(s) ==
    /\ done[s] # <<>>
    /\ Goes(s, "dequeue",
            IF EntriesOf(Head(done[s])) # {} THEN "output" ELSE "stray")
    /\ frame' = [frame EXCEPT ![s] = Head(done[s])]
    /\ done' = [done EXCEPT ![s] = Tail(@)]
    /\ UNCHANGED <<streamOthers, manager, signals, handedOver>>

\* A frame whose request is gone goes back unused.
StreamStray(s) ==
    /\ Goes(s, "stray", "wait")
    /\ UNCHANGED <<streamOthers, manager, signals, streamVars>>

\* The preview goes to the service; frames of a night capture are shown but
\* not counted.
PreviewOutput ==
    /\ Goes("scp", "output", "wait")
    /\ IF m_nightCaptureFrameCnt = 0
       THEN NotifyStreamOutput(frame["scp"])
       ELSE UNCHANGED <<entries, signals>>
    /\ handedOver' = handedOver \cup {<<frame["scp"], "scp">>}
    /\ UNCHANGED <<streamOthers, managerOthers, done, frame>>

\* The picture is counted before m_jpegCreator makes the JPEG.
PictureOutput ==
    /\ Goes("scc", "output", "jpeg")
    /\ NotifyStreamOutput(frame["scc"])
    /\ handedOver' = handedOver \cup {<<frame["scc"], "scc">>}
    /\ UNCHANGED <<streamOthers, managerOthers, done, frame>>

JpegDone ==
    /\ Goes("scc", "jpeg", "wait")
    /\ UNCHANGED <<streamOthers, manager, signals, streamVars>>

streamThread(s) ==
    \/ StreamTurn(s) \/ StreamDequeue(s) \/ StreamStray(s)
    \/ s = "scp" /\ PreviewOutput
    \/ s = "scc" /\ (PictureOutput \/ JpegDone)

-----------------------------------------------------------------------------
Next ==
    \/ Submit \/ notifyRequestQueueNotEmpty
    \/ mainThread \/ sensorThread
    \/ \E s \in Streams : streamThread(s)

Spec == Init /\ [][Next]_vars

\* Threads get processor time, drivers deliver, the service's notification
\* ends; nothing makes the service queue requests.
FairSpec ==
    /\ Spec
    /\ WF_vars(notifyRequestQueueNotEmpty)
    /\ WF_vars(mainThread)
    /\ WF_vars(sensorThread)
    /\ \A s \in Streams : WF_vars(streamThread(s))

-----------------------------------------------------------------------------
(* Properties.                                                               *)

\* Every variable has its type; no output of a request is counted twice.
TypeOK ==
    /\ kind \in [Requests -> Kinds]
    /\ {submitted, dequeued, freed} \subseteq 0 .. NumRequests
    /\ {signalConsumer, notifying, m_isRequestQueueNull} \subseteq BOOLEAN
    /\ entries \in [Indices -> [status : Statuses,
                                frame : Requests \cup {NoFrame},
                                outputs : 0 .. 2]]
    /\ m_numOfEntries \in 0 .. NumEntries
    /\ {m_entryInsertionIndex, m_entryProcessingIndex}
           \subseteq Indices \cup {-1}
    /\ m_lastCompletedFrameCnt \in Requests \cup {NoFrame}
    /\ Len(sensor) \in {SensorDepth - 1, SensorDepth}

\* The entries in use are numbered without a gap from the request that is to
\* be freed next, in the order of the ring, and as many as were counted: else
\* a registration would fall on an entry in use and lose its request.
RingInOrder ==
    LET used == {i \in Indices : entries[i].status # "EMPTY"} IN
    /\ {entries[i].frame : i \in used}
           = m_lastCompletedFrameCnt + 1 .. dequeued - 1
    /\ pc["main"] # "registered" =>
           m_numOfEntries = dequeued - 1 - m_lastCompletedFrameCnt
    /\ \A i \in used :
           entries[i].frame # dequeued - 1 =>
               entries[GetNextIndex(i)].frame = entries[i].frame + 1

\* The main thread is told of a finished request once for each, and the
\* request is there when it comes to free it: it reads entries[-1] otherwise.
DoneIsTrue ==
    LET next == m_lastCompletedFrameCnt + 1 IN
    /\ pc["main"] = "done" =>
           \E i \in EntriesOf(next) : entries[i].status = "COMPLETED"
    /\ "STREAM_OUTPUT_DONE" \notin signals["main"].pending

\* Every DATA_COMING a stream thread remembers has its frame in the driver,
\* so the thread never waits in the driver for a frame that does not come.
SignalsHaveFrames ==
    \A s \in Streams :
        LET remembered == (IF "DATA_COMING" \in signals[s].received
                           THEN 1 ELSE 0)
                          + (IF "DATA_COMING" \in signals[s].pending
                             THEN 1 ELSE 0)
                          + (IF pc[s] = "dequeue" THEN 1 ELSE 0)
        IN  remembered <= Len(done[s])

\* A request that was sent to the sensor is in the sensor, or was matched: no
\* frame of the sensor goes by the request it was made for.
SentIsUnderWay ==
    \A i \in Indices :
        entries[i].status = "REQUESTED" =>
            \E k \in DOMAIN sensor : sensor[k] = entries[i].frame

\* m_isRequestQueueNull says that the service's queue is empty: when nothing
\* is about to make the main thread ask again, no request waits there.
NullMeansEmpty ==
    (/\ m_isRequestQueueNull
     /\ ~notifying
     /\ pc["main"] = "wait"
     /\ signals["main"].received = {})
        => dequeued = submitted \/ m_numOfEntries = NumEntries

\* A stream's frame finds the entry of its request; NotifyStreamOutput calls
\* anything else an error, and the output is lost.
FrameHasEntry == \A s \in Streams : pc[s] # "stray"

\* However far a stream thread falls behind, the frames it was not told of
\* never fill the ring: there is always room for a request whose frame makes
\* it go on.
RingNeverStuck ==
    ~ /\ m_numOfEntries = NumEntries
      /\ \A i \in Indices : entries[i].status \in {"METADONE", "COMPLETED"}
      /\ \A t \in {"main"} \cup Streams :
             pc[t] = "wait" /\ signals[t].received = {}
      /\ shot = NoShot

\* Requests are freed once, in order and after their outputs.
Pipeline ==
    INSTANCE RequestPipeline WITH wanted <- [r \in Requests |->
                                                 Outputs(kind[r])]

KeepsPromise == Pipeline!Spec

\* Every request the service queued comes back.
AllFreed == \A r \in Requests : submitted > r ~> freed > r
=============================================================================
