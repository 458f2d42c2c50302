---------------------------- MODULE CameraStreams ----------------------------
(* The streams of libcamera2/ExynosCameraHWInterface2.cpp and the threads    *)
(* that serve them: the service allocates, registers and releases streams    *)
(* one call at a time; a call that needs a thread to stop sets its signals   *)
(* and polls.  Thread 0 (preview) is made and ended with its stream, thread  *)
(* 1 (capture) is kept and only deactivated, the sensor thread is started    *)
(* again with every first request.                                           *)
EXTENDS Integers, FiniteSets, Signals

CONSTANTS
    SubStreams,   \* those the service uses of RECORD, PRVCB and JPEG
    Settled,      \* no order to stop is left with a thread when a call begins
                  \* or a stopped thread is used again
    FirstFrames   \* and releases a stream only after its first frame

VARIABLES
    th,     \* thread -> life, signals, those of its turn, m_isTerminated
    st,     \* the two stream threads' fields
    subs,   \* the sub-streams whose m_subStreams entry has a type
    zsl,    \* the service holds the ZSL stream
    node,   \* the video nodes that stream, and what the HAL notes of them
    call    \* the service's call and where it is

vars == <<th, st, subs, zsl, node, call>>

Streams == {"preview", "capture"}
Threads == Streams \cup {"sensor"}
Parent(sub) == IF sub = "JPEG" THEN "capture" ELSE "preview"

NewThread == [life |-> "wait", q |-> NoSignals, turn |-> {},
              terminated |-> FALSE]
NoStream == [exists |-> FALSE, active |-> FALSE, releasing |-> FALSE,
             init |-> FALSE, direct |-> TRUE, count |-> 0, attached |-> {}]
Idle == [op |-> "idle", at |-> "idle"]

\* The constructor starts the sensor thread; the stream threads do not exist.
Init ==
    /\ th = [t \in Threads |->
                IF t = "sensor" THEN NewThread
                                ELSE [NewThread EXCEPT !.life = "gone"]]
    /\ st = [s \in Streams |-> NoStream]
    /\ subs = {} /\ zsl = FALSE
    /\ node = [on |-> {}, capture |-> FALSE, sensor |-> FALSE,
               isp |-> FALSE, suspended |-> FALSE, csc |-> TRUE]
    /\ call = Idle

Alive(t) == th[t].life # "gone"
Sends(ths, t, s) == [ths EXCEPT ![t].q = SetSignal(@, s)]

\* No order to stop is left with the thread; it may be at a frame.
AtRest(t) ==
    \/ th[t].life = "gone"
    \/ /\ th[t].life \in {"wait", "subs"}
       /\ {"RELEASE", "TERMINATE"}
              \cap (th[t].q.received \cup th[t].q.pending) = {}

Calls == call = Idle /\ (Settled => \A t \in Threads : AtRest(t))

-----------------------------------------------------------------------------
(* The service allocates streams and registers their buffers.                *)

\* m_streamThreadInitialize, setParameter and the fields set after it.
Started(s, direct) ==
    [s EXCEPT !.exists = TRUE, !.active = TRUE, !.init = ~ direct,
              !.direct = direct, !.count = 1, !.attached = {}]

\* attachSubStream for each.
Attached(s, which) ==
    [s EXCEPT !.attached = @ \cup which, !.count = @ + Cardinality(which)]

\* detachSubStream.
Detached(s, sub) ==
    IF sub \in s.attached
    THEN [s EXCEPT !.attached = @ \ {sub}, !.count = @ - 1] ELSE s

\* StartSCCThread: a thread that exists keeps its sub-streams and its count.
StartSCC(ths, sts, n) ==
    LET old == sts["capture"]
    IN  [th |-> IF old.exists THEN ths ELSE [ths EXCEPT !["capture"] = NewThread],
         st |-> [sts EXCEPT !["capture"] =
                   IF old.exists
                   THEN [old EXCEPT !.direct = FALSE, !.active = TRUE,
                                    !.init = TRUE]
                   ELSE Started(old, FALSE)],
         node |-> [n EXCEPT !.on = @ \cup {"capture"}, !.capture = TRUE]]

\* allocateStream of a preview stream: allocCase 0 or 2.
AllocatePreview ==
    /\ Calls /\ ~ (st["preview"].exists /\ st["preview"].active)
    /\ th' = [th EXCEPT !["preview"] = NewThread]
    /\ st' = [st EXCEPT !["preview"] =
                 Attached(Started(NoStream, TRUE),
                          subs \cap {"RECORD", "PRVCB"})]
    /\ UNCHANGED <<subs, zsl, node, call>>

\* allocateStream of a recording or callback stream, which need a preview.
AllocateSub(sub) ==
    /\ Calls /\ sub \notin subs /\ st["preview"].exists
    /\ subs' = subs \cup {sub}
    /\ st' = [st EXCEPT !["preview"] = Attached(@, {sub})]
    /\ UNCHANGED <<th, zsl, node, call>>

\* allocateStream of a JPEG stream.
AllocateJpeg ==
    /\ Calls /\ "JPEG" \in SubStreams \ subs
    /\ LET scc == StartSCC(th, st, node)
           now == IF st["capture"].exists /\ st["capture"].active
                  THEN [th |-> th, st |-> st, node |-> node] ELSE scc
       IN  /\ th' = now.th /\ node' = now.node
           /\ st' = [now.st EXCEPT !["capture"] = Attached(@, {"JPEG"})]
    /\ subs' = subs \cup {"JPEG"}
    /\ UNCHANGED <<zsl, call>>

\* allocateStream of the ZSL stream: it takes over the capture thread.
AllocateZsl ==
    /\ Calls /\ ~ zsl /\ ~ st["capture"].exists
    /\ th' = [th EXCEPT !["capture"] = NewThread]
    /\ st' = [st EXCEPT !["capture"] = Started(@, TRUE)]
    /\ zsl' = TRUE
    /\ UNCHANGED <<subs, node, call>>

ConvertToZsl ==
    /\ Calls /\ ~ zsl /\ st["capture"].exists
    /\ st' = [st EXCEPT !["capture"] =
                 [Detached(@, "JPEG") EXCEPT !.releasing = TRUE]]
    /\ call' = [op |-> "zsl", at |-> "releaseCapture"]
    /\ UNCHANGED <<th, subs, zsl, node>>

ConvertedToZsl ==
    /\ call = [op |-> "zsl", at |-> "captureReleased"]
    /\ Settled => AtRest("capture")
    /\ st' = [st EXCEPT !["capture"] =
                 Attached(Started(@, TRUE), subs \cap {"JPEG"})]
    /\ zsl' = TRUE /\ call' = Idle
    /\ UNCHANGED <<th, subs, node>>

\* registerStreamBuffers of the streams that have a node of their own.
Register(s) ==
    /\ Calls /\ st[s].exists /\ st[s].direct /\ (s = "capture" => zsl)
    /\ LET n == IF s = "preview" THEN "scp" ELSE "capture"
       IN  /\ n \notin node.on
           /\ node' = [node EXCEPT !.on = @ \cup {n},
                         !.capture = @ \/ n = "capture"]
    /\ UNCHANGED <<th, st, subs, zsl, call>>

\* notifyRequestQueueNotEmpty, with what it starts.
Notify ==
    /\ Calls /\ st["preview"].exists
    /\ LET on == IF node.isp \/ node.sensor THEN node
                 ELSE [node EXCEPT !.on = @ \cup {"sensor"}, !.sensor = TRUE]
           now == IF st["capture"].exists /\ st["capture"].active
                  THEN [th |-> th, st |-> st,
                        node |-> [on EXCEPT !.on = @ \cup {"capture"},
                                    !.capture = TRUE, !.suspended = FALSE]]
                  ELSE StartSCC(th, st, on)
       IN  /\ st' = now.st
           /\ node' = [now.node EXCEPT !.isp = TRUE]
           /\ th' = IF node.isp \/ Alive("sensor") THEN now.th
                    ELSE [now.th EXCEPT !["sensor"].life = "wait"]
    /\ UNCHANGED <<subs, zsl, call>>

-----------------------------------------------------------------------------
(* The service releases streams.                                             *)

MayRelease(s) == FirstFrames => st[s].init

\* releaseStream of a sub-stream returns at once while its thread has others.
ReleaseSub(sub) ==
    /\ Calls /\ sub \in subs
    /\ subs' = subs \ {sub}
    /\ st' = [st EXCEPT ![Parent(sub)] = Detached(@, sub)]
    /\ UNCHANGED <<th, zsl, node, call>>

\* releaseStream of the preview: the sensor thread goes first.
ReleasePreview ==
    /\ Calls /\ st["preview"].exists /\ st["capture"].exists
    /\ MayRelease("preview")
    /\ st' = [st EXCEPT !["preview"].count = @ - 1]
    /\ th' = Sends(th, "sensor", "RELEASE")
    /\ call' = [op |-> "preview", at |-> "sensor"]
    /\ UNCHANGED <<subs, zsl, node>>

\* releaseStream of the ZSL stream, after the JPEG stream.
ReleaseZsl ==
    /\ Calls /\ zsl /\ "JPEG" \notin subs
    /\ MayRelease("capture")
    /\ st' = [st EXCEPT !["capture"].count = @ - 1]
    /\ zsl' = FALSE
    /\ call' = [op |-> "zslOff", at |-> "capture"]
    /\ UNCHANGED <<th, subs, node>>

\* while (!m_sensorThread->IsTerminated()).
SensorEnded ==
    /\ call.at = "sensor" /\ th["sensor"].terminated
    /\ call' = [call EXCEPT !.at = "capture"]
    /\ UNCHANGED <<th, st, subs, zsl, node>>

\* A capture thread without a stream is deactivated.
DecideCapture ==
    /\ call.at = "capture"
    /\ IF st["capture"].count = 0 /\ st["capture"].active
       THEN /\ st' = [st EXCEPT !["capture"].releasing = TRUE]
            /\ call' = [call EXCEPT !.at = "releaseCapture"]
       ELSE /\ call' = [call EXCEPT !.at = "previewThread"]
            /\ UNCHANGED st
    /\ UNCHANGED <<th, subs, zsl, node>>

\* release and usleep, again and again ...
PollCapture ==
    /\ call.at = "releaseCapture"
    /\ th' = Sends(th, "capture", "RELEASE")
    /\ call' = [call EXCEPT !.at = "captureSlept"]
    /\ UNCHANGED <<st, subs, zsl, node>>

\* ... until m_releasing is clear.
CheckCapture ==
    /\ call.at = "captureSlept"
    /\ call' = [call EXCEPT !.at = IF st["capture"].releasing
                                   THEN "releaseCapture" ELSE "captureReleased"]
    /\ UNCHANGED <<th, st, subs, zsl, node>>

CaptureReleased ==
    /\ call.at = "captureReleased" /\ call.op # "zsl"
    /\ node' = [node EXCEPT !.capture = FALSE]
    /\ call' = [call EXCEPT !.at = "previewThread"]
    /\ UNCHANGED <<th, st, subs, zsl>>

DecidePreview ==
    /\ call.at = "previewThread"
    /\ IF \/ call.op = "preview"
          \/ st["preview"].exists /\ st["preview"].count = 0
             /\ st["preview"].active
       THEN /\ st' = [st EXCEPT !["preview"].releasing = TRUE]
            /\ call' = [call EXCEPT !.at = "releasePreview"]
       ELSE call' = Idle /\ UNCHANGED st
    /\ UNCHANGED <<th, subs, zsl, node>>

PollPreview ==
    /\ call.at = "releasePreview"
    /\ th' = Sends(th, "preview", "RELEASE")
    /\ call' = [call EXCEPT !.at = "previewSlept"]
    /\ UNCHANGED <<st, subs, zsl, node>>

CheckPreview ==
    /\ call.at = "previewSlept"
    /\ IF st["preview"].releasing
       THEN call' = [call EXCEPT !.at = "releasePreview"] /\ UNCHANGED th
       ELSE /\ call' = [call EXCEPT !.at = "previewEnds"]
            /\ th' = Sends(th, "preview", "TERMINATE")
    /\ UNCHANGED <<st, subs, zsl, node>>

\* Variant with a defect: m_isIspStarted stays set.
PreviewEndedStarted ==
    /\ call.at = "previewEnds" /\ th["preview"].terminated
    /\ st' = [st EXCEPT !["preview"] = NoStream]
    /\ node' = [node EXCEPT !.suspended = @ \/ node.capture]
    /\ call' = Idle
    /\ UNCHANGED <<th, subs, zsl>>

PreviewEnded ==
    /\ call.at = "previewEnds" /\ th["preview"].terminated
    /\ st' = [st EXCEPT !["preview"] = NoStream]
    /\ node' = [node EXCEPT !.isp = FALSE, !.suspended = @ \/ node.capture]
    /\ call' = Idle
    /\ UNCHANGED <<th, subs, zsl>>

\* release of the camera, up to the first wait.
Close ==
    /\ Calls /\ st["capture"].exists /\ st["preview"].exists
    /\ th' = [t \in Threads |->
                LET q == SetSignal(th[t].q, "RELEASE")
                IN  [th[t] EXCEPT !.q = IF t = "sensor" THEN q
                                        ELSE SetSignal(q, "TERMINATE")]]
    /\ node' = [node EXCEPT !.csc = FALSE]
    /\ call' = [op |-> "close", at |-> "ends"]
    /\ UNCHANGED <<st, subs, zsl>>

\* The waits for the threads, and the end of their objects.
Closed ==
    /\ call.at = "ends" /\ \A t \in Threads : th[t].terminated
    /\ call' = [op |-> "close", at |-> "closed"]
    /\ UNCHANGED <<th, st, subs, zsl, node>>

-----------------------------------------------------------------------------
(* The threads.                                                              *)

\* A frame of a node that streams, and a request for the sensor thread.
Frame(s) ==
    /\ Alive(s) /\ st[s].exists /\ "sensor" \in node.on
    /\ Alive("sensor") /\ ~ th["sensor"].terminated
    /\ (IF s = "preview" THEN "scp" ELSE "capture") \in node.on
    /\ "DATA" \notin th[s].q.received
    /\ th' = Sends(th, s, "DATA")
    /\ UNCHANGED <<st, subs, zsl, node, call>>

Work ==
    /\ node.isp /\ "START" \notin th["sensor"].q.received
    /\ th' = Sends(th, "sensor", "START")
    /\ UNCHANGED <<st, subs, zsl, node, call>>

\* threadLoop: a turn that holds TERMINATE does nothing else.
Take(t) ==
    /\ th[t].life = "wait" /\ th[t].q.received # {}
    /\ LET turn == TurnOf(th[t].q)
           ends == "TERMINATE" \in turn
       IN  th' = [th EXCEPT ![t] =
                     [life |-> IF ends THEN "gone" ELSE "turn",
                      q |-> AfterTurn(@.q), turn |-> turn,
                      terminated |-> ends]]
    /\ UNCHANGED <<st, subs, zsl, node, call>>

\* m_sensorThreadFunc.
SensorTurn ==
    /\ th["sensor"].life = "turn"
    /\ LET done == [th EXCEPT !["sensor"].life = "wait"]
       IN  IF "RELEASE" \in th["sensor"].turn
           THEN /\ node' = [node EXCEPT !.on = @ \ {"sensor"},
                                        !.sensor = FALSE]
                /\ th' = Sends(done, "sensor", "TERMINATE")
           ELSE th' = done /\ UNCHANGED node
    /\ UNCHANGED <<st, subs, zsl, call>>

\* Whether the release branch of m_streamFunc_direct or m_streamFunc_indirect
\* takes the node off.
TakesOff(s) ==
    /\ st[s].init
    /\ s = "capture" => node.capture

\* Variant with a defect: m_releasing stays set.
StreamReleasesStill(s) ==
    /\ th[s].life = "turn" /\ "RELEASE" \in th[s].turn
    /\ node' = IF ~ TakesOff(s) THEN node
               ELSE [node EXCEPT !.on = @ \ {IF s = "preview" THEN "scp"
                                             ELSE "capture"}]
    /\ st' = [st EXCEPT ![s].init = FALSE]
    /\ th' = [th EXCEPT ![s].life = "released"]
    /\ UNCHANGED <<subs, zsl, call>>

StreamReleases(s) ==
    /\ th[s].life = "turn" /\ "RELEASE" \in th[s].turn
    /\ node' = IF ~ TakesOff(s) THEN node
               ELSE [node EXCEPT !.on = @ \ {IF s = "preview" THEN "scp"
                                             ELSE "capture"},
                      !.capture = @ /\ (s = "preview" \/ st[s].direct)]
    /\ st' = [st EXCEPT ![s].init = FALSE, ![s].releasing = FALSE]
    /\ th' = [th EXCEPT ![s].life = "released"]
    /\ UNCHANGED <<subs, zsl, call>>

\* m_activated is cleared after m_releasing.
StreamReleased(s) ==
    /\ th[s].life = "released"
    /\ st' = [st EXCEPT ![s].active = FALSE]
    /\ th' = [th EXCEPT ![s].life = "wait"]
    /\ UNCHANGED <<subs, zsl, node, call>>

\* SIGNAL_STREAM_DATA_COMING: m_streamBufferInit, then the sub-streams.
StreamData(s) ==
    /\ th[s].life = "turn" /\ th[s].turn = {"DATA"}
    /\ st' = [st EXCEPT ![s].init = TRUE]
    /\ th' = [th EXCEPT ![s].life = "subs"]
    /\ UNCHANGED <<subs, zsl, node, call>>

StreamHandled(s) ==
    /\ th[s].life = "subs"
    /\ th' = [th EXCEPT ![s].life = "wait"]
    /\ UNCHANGED <<st, subs, zsl, node, call>>

-----------------------------------------------------------------------------

ServiceCalls ==
    \/ AllocatePreview \/ AllocateJpeg \/ AllocateZsl \/ ConvertToZsl
    \/ \E sub \in SubStreams \ {"JPEG"} : AllocateSub(sub)
    \/ \E s \in Streams : Register(s)
    \/ \E sub \in SubStreams : ReleaseSub(sub)
    \/ Notify \/ ReleasePreview \/ ReleaseZsl \/ Close

CallSteps ==
    \/ ConvertedToZsl \/ SensorEnded \/ DecideCapture \/ PollCapture
    \/ CheckCapture \/ CaptureReleased \/ DecidePreview \/ PollPreview
    \/ CheckPreview \/ PreviewEnded \/ Closed

StreamSteps(s) ==
    StreamReleases(s) \/ StreamReleased(s) \/ StreamData(s) \/ StreamHandled(s)

Next ==
    \/ ServiceCalls \/ CallSteps \/ SensorTurn \/ Work
    \/ \E t \in Threads : Take(t)
    \/ \E s \in Streams : StreamSteps(s) \/ Frame(s)

Spec == Init /\ [][Next]_vars

\* The threads run, and so does a call once it has begun.
FairSpec ==
    /\ Spec
    /\ WF_vars(CallSteps) /\ WF_vars(SensorTurn)
    /\ \A t \in Threads : WF_vars(Take(t))
    /\ \A s \in Streams : WF_vars(StreamSteps(s))

-----------------------------------------------------------------------------
(* Properties.                                                               *)

TypeOK ==
    /\ \A t \in Threads :
          /\ th[t].life \in {"wait", "turn", "released", "subs", "gone"}
          /\ th[t].turn \subseteq {"RELEASE", "TERMINATE", "DATA", "START"}
    /\ subs \subseteq SubStreams
    /\ \A s \in Streams : st[s].count \in 0 .. 3
    /\ node.on \subseteq {"scp", "capture", "sensor"}

\* A thread serves the sub-streams the service has allocated, no others,
\* also after its stream was released and allocated anew (allocateStream).
ServesAllocated ==
    call = Idle => \A s \in Streams : st[s].exists =>
        st[s].attached = {sub \in subs : Parent(sub) = s}

\* When the preview has been released the sensor does not stream
\* (releaseStream, "END Waiting for (indirect) sensor thread termination").
SensorIsOff ==
    call = Idle /\ ~ node.isp => "sensor" \notin node.on

\* ... and neither does the node of the preview.
PreviewIsOff ==
    call = Idle /\ ~ st["preview"].exists => "scp" \notin node.on

\* While requests are served the sensor thread lives and has not been told to
\* end (notifyRequestQueueNotEmpty, Start).
SensorServes ==
    call = Idle /\ node.isp =>
        /\ Alive("sensor")
        /\ th["sensor"].q.received \cap {"RELEASE", "TERMINATE"} = {}
        /\ "sensor" \in node.on

\* A stream the service holds is served by a thread that is active.
HeldIsActive ==
    call = Idle =>
        /\ st["preview"].exists => Alive("preview") /\ st["preview"].active
        /\ zsl => st["capture"].active

\* Between two calls of the service, its streams, their threads and the nodes
\* agree: threads serve what is allocated, what the service holds is active,
\* the sensor serves while requests are served, and what is off is off.
StreamsAgree ==
    /\ TypeOK
    /\ ServesAllocated
    /\ SensorServes /\ HeldIsActive
    /\ SensorIsOff /\ PreviewIsOff

\* A call of the service that waits for threads returns.
CallsReturn == (call # Idle) ~> (call.at \in {"idle", "closed"})

\* "stream thread 1 suspended. restarting" (line 1519): when requests are
\* served again, pictures are no longer suppressed.
NotSuspended == call = Idle /\ node.isp => ~ node.suspended

\* A stream thread that converts a picture finds the converter (release,
\* which waits for "stream thread termination").
ConverterKept ==
    \A s \in Streams : th[s].life = "subs" => node.csc
=============================================================================
