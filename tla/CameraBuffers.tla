----------------------------- MODULE CameraBuffers -----------------------------
(* The buffers of a stream that has a video node (preview or ZSL) and of the *)
(* sub-streams it feeds, in libcamera2/ExynosCameraHWInterface2.cpp.  The    *)
(* service's window owns them: HAL dequeues, queues in the node, fills and   *)
(* enqueues.  Every call that may block or fail is a step of the stream      *)
(* thread's turn; the window's consumer runs beside it.                      *)
EXTENDS Integers, FiniteSets, SequencesExt

CONSTANTS
    Subs,     \* sequence of the attached sub-streams, in their slots' order
    Count,    \* stream -> buffers registered (numSvcBuffers)
    Hw,       \* buffers of the video node (numHwBuffers, NUM_SCP_BUFFERS)
    Least,      \* stream -> minUndequedBuffer
    Keeps,    \* buffers a consumer may keep for itself
    Fails,    \* calls of a window may fail
    OneByOne  \* a sub-stream is registered after the one before was initialised

VARIABLES
    status,   \* stream -> svcBufStatus
    held,     \* stream -> numSvcBufsInHal
    index,    \* stream -> bufIndex or svcBufIndex
    fresh,    \* registered and not initialised: ~m_isBufferInit, needBufferInit
    gone,     \* streams whose window has been abandoned
    window,   \* stream -> buffer -> "free", "hal" or "queued": the window's truth
    node,     \* the buffers queued in the video node, oldest first
    turn      \* the stream thread: where, for which stream, what is left

vars == <<status, held, index, fresh, gone, window, node, turn>>

Streams == {"node"} \cup Range(Subs)
Buffers(s) == 0 .. Count[s] - 1
Registered(s) == status[s] # <<>>
Of(s, w) == {b \in Buffers(s) : window[s][b] = w}
Recorded(s, w) == {b \in DOMAIN status[s] : status[s][b] = w}

Rest == [at |-> "rest", s |-> "node", left |-> 0, todo |-> <<>>]

\* registerStreamBuffers of the stream with the node, before its first frame.
RegisteredNode ==
    [b \in Buffers("node") |-> IF b < Hw THEN "REQUIRES" ELSE "SERVICE"]

Init ==
    /\ status = [s \in Streams |-> IF s = "node" THEN RegisteredNode ELSE <<>>]
    /\ held = [s \in Streams |-> 0] /\ index = [s \in Streams |-> 0]
    /\ fresh = {"node"} /\ gone = {}
    /\ window = [s \in Streams |-> [b \in Buffers(s) |-> "free"]]
    /\ node = [i \in 1 .. Hw |-> i - 1]
    /\ turn = Rest

\* registerStreamBuffers of a sub-stream: nothing is dequeued yet.
RegisterSub(s) ==
    /\ ~ Registered(s)
    /\ OneByOne => fresh \cap Range(Subs) = {}
    /\ status' = [status EXCEPT ![s] = [b \in Buffers(s) |-> "SERVICE"]]
    /\ fresh' = fresh \cup {s}
    /\ UNCHANGED <<held, index, gone, window, node, turn>>

-----------------------------------------------------------------------------
(* The window.  Its consumer takes what was queued and gives it back; the    *)
(* producer may have all buffers until it has queued one, later all but      *)
(* those the consumer keeps.                                                 *)

Allowed(s) == IF Of(s, "queued") = {} THEN Count[s] ELSE Count[s] - Keeps

\* The consumer keeps up to Keeps of them.
GiveBack(s) ==
    /\ Cardinality(Of(s, "queued")) > Keeps
    /\ \E b \in Of(s, "queued") : window' = [window EXCEPT ![s][b] = "free"]
    /\ UNCHANGED <<status, held, index, fresh, gone, node, turn>>

Abandon(s) ==
    /\ Fails /\ s \notin gone
    /\ gone' = gone \cup {s}
    /\ UNCHANGED <<status, held, index, fresh, window, node, turn>>

\* dequeue_buffer: it waits for a free buffer, and fails when the window is
\* gone or the producer has its share.
Refuses(s) == s \in gone \/ Cardinality(Of(s, "hal")) >= Allowed(s)
Dequeues(s, b) ==
    /\ ~ Refuses(s) /\ window[s][b] = "free"
    /\ window' = [window EXCEPT ![s][b] = "hal"]

\* enqueue_buffer and cancel_buffer of a buffer the producer does not have fail.
Accepts(s, b) == s \notin gone /\ window[s][b] = "hal"

-----------------------------------------------------------------------------
(* A turn of the stream thread: SIGNAL_STREAM_DATA_COMING.                   *)

At(a) == turn.at = a

\* The frame's request names the sub-streams it is for.
DataComing(wants) ==
    /\ At("rest")
    /\ turn' = [Rest EXCEPT !.at = IF "node" \in fresh THEN "initNode"
                                                       ELSE "initSubs",
                            !.left = Count["node"],
                            !.todo = SelectSeq(Subs, LAMBDA s : s \in wants)]
    /\ UNCHANGED <<status, held, index, fresh, gone, window, node>>

\* m_streamBufferInit: every buffer of the stream is dequeued.
InitNode ==
    /\ At("initNode") /\ turn.left > 0
    /\ \E b \in Buffers("node") :
         /\ Dequeues("node", b)
         /\ status' = [status EXCEPT !["node"][b] =
                         IF @ = "REQUIRES" THEN "DRIVER"
                         ELSE IF @ = "SERVICE" THEN "HAL" ELSE @]
    /\ held' = [held EXCEPT !["node"] = @ + 1]
    /\ index' = [index EXCEPT !["node"] = 0]
    /\ turn' = [turn EXCEPT !.left = @ - 1]
    /\ UNCHANGED <<fresh, gone, node>>

InitNodeEnds ==
    /\ At("initNode")
    /\ \/ /\ turn.left = 0
          /\ fresh' = fresh \ {"node"}
          /\ turn' = [turn EXCEPT !.at = "initSubs"]
       \/ /\ turn.left > 0 /\ Refuses("node")
          /\ turn' = [turn EXCEPT !.at = "dqbuf"]
          /\ UNCHANGED fresh
    /\ UNCHANGED <<status, held, index, gone, window, node>>

\* The first attached sub-stream that needs it is initialised, and only this
\* one: the loop over its buffers counts with the variable of the loop over
\* the sub-streams.
NeedsInit == SelectSeq(Subs, LAMBDA s : s \in fresh)

\* Variant with a defect: nothing is dequeued before the first use.
InitSubsNever ==
    /\ At("initSubs")
    /\ turn' = [turn EXCEPT !.at = "dqbuf"]
    /\ fresh' = {}
    /\ UNCHANGED <<status, held, index, gone, window, node>>

InitSubs ==
    /\ At("initSubs")
    /\ turn' = IF NeedsInit = <<>> THEN [turn EXCEPT !.at = "dqbuf"]
               ELSE [turn EXCEPT !.at = "initSub", !.s = Head(NeedsInit),
                                 !.left = Count[Head(NeedsInit)]]
    /\ UNCHANGED <<status, held, index, fresh, gone, window, node>>

InitSub ==
    /\ At("initSub") /\ turn.left > 0
    /\ LET s == turn.s
       IN  /\ \E b \in Buffers(s) :
                /\ Dequeues(s, b)
                /\ status' = [status EXCEPT ![s][b] = "HAL"]
           /\ held' = [held EXCEPT ![s] = @ + 1]
           /\ index' = [index EXCEPT ![s] = 0]
    /\ turn' = [turn EXCEPT !.left = @ - 1]
    /\ UNCHANGED <<fresh, gone, node>>

InitSubEnds ==
    /\ At("initSub")
    /\ \/ turn.left = 0 /\ fresh' = fresh \ {turn.s}
       \/ turn.left > 0 /\ Refuses(turn.s) /\ UNCHANGED fresh
    /\ turn' = [turn EXCEPT !.at = "dqbuf"]
    /\ UNCHANGED <<status, held, index, gone, window, node>>

\* cam_int_dqbuf waits for a buffer of the node.
DqBuf ==
    /\ At("dqbuf") /\ node # <<>>
    /\ index' = [index EXCEPT !["node"] = Head(node)]
    /\ status' = [status EXCEPT !["node"][Head(node)] = "HAL"]
    /\ node' = Tail(node)
    /\ turn' = [turn EXCEPT !.at = "subs"]
    /\ UNCHANGED <<held, fresh, gone, window>>

\* m_runSubStreamFunc for each sub-stream the request names.
RunSubs ==
    /\ At("subs")
    /\ turn' = IF turn.todo = <<>> THEN [turn EXCEPT !.at = "output", !.s = "node"]
               ELSE [turn EXCEPT !.at = "search", !.s = Head(turn.todo),
                                 !.todo = Tail(@)]
    /\ UNCHANGED <<status, held, index, fresh, gone, window, node>>

\* The creators' loop ends only at a buffer that is ON_HAL.
After(s, i) == (i + 1) % Count[s]
Search(s) ==
    /\ At("search") /\ turn.s = s
    /\ IF status[s][index[s]] = "HAL"
       THEN /\ turn' = [turn EXCEPT !.at = "enqueue"]
            /\ UNCHANGED index
       ELSE /\ index' = [index EXCEPT ![s] = After(s, @)]
            /\ UNCHANGED turn
    /\ UNCHANGED <<status, held, fresh, gone, window, node>>

\* What a call leaves of the buffer it was for.
Sent(s, b, to) ==
    /\ window' = IF Accepts(s, b) THEN [window EXCEPT ![s][b] = to] ELSE window
    /\ status' = [status EXCEPT ![s][b] = IF Accepts(s, b) THEN "SERVICE"
                                                           ELSE "HAL"]
    /\ held' = [held EXCEPT ![s] = IF Accepts(s, b) THEN @ - 1 ELSE @]

Enqueue(s) ==
    /\ At("enqueue") /\ turn.s = s
    /\ Sent(s, index[s], "queued")
    /\ turn' = [turn EXCEPT !.at = "refill"]
    /\ UNCHANGED <<index, fresh, gone, node>>

WantsMore(s) ==
    IF s = "node" THEN held[s] - (Count[s] - Hw) < Least[s] ELSE held[s] <= Least[s]

\* The creators take back what the window gives.
Refill(s) ==
    /\ At("refill") /\ turn.s = s /\ s # "node" /\ WantsMore(s)
    /\ \E b \in Buffers(s) :
         /\ Dequeues(s, b)
         /\ index' = [index EXCEPT ![s] = b]
         /\ status' = [status EXCEPT ![s][b] = IF @ = "SERVICE" THEN "HAL" ELSE @]
    /\ held' = [held EXCEPT ![s] = @ + 1]
    /\ UNCHANGED <<fresh, gone, node, turn>>

\* The stream's own buffers go back into the node, those it has room for.
RefillNode ==
    /\ At("refill") /\ turn.s = "node" /\ WantsMore("node")
    /\ \E b \in Buffers("node") :
         /\ Dequeues("node", b)
         /\ index' = [index EXCEPT !["node"] = b]
         /\ IF b < Hw
            THEN /\ node' = Append(node, b)
                 /\ status' = [status EXCEPT !["node"][b] = "DRIVER"]
            ELSE UNCHANGED <<node, status>>
    /\ held' = [held EXCEPT !["node"] = @ + 1]
    /\ UNCHANGED <<fresh, gone, turn>>

RefillEnds(s) ==
    /\ At("refill") /\ turn.s = s
    /\ ~ WantsMore(s) \/ Refuses(s)
    /\ turn' = IF s = "node" THEN Rest ELSE [turn EXCEPT !.at = "subs"]
    /\ UNCHANGED <<status, held, index, fresh, gone, window, node>>

RecordCreator == LET s == "RECORD" IN
    Search(s) \/ Enqueue(s) \/ Refill(s) \/ RefillEnds(s)
PrvcbCreator == LET s == "PRVCB" IN
    Search(s) \/ Enqueue(s) \/ Refill(s) \/ RefillEnds(s)
JpegCreator == LET s == "JPEG" IN
    Search(s) \/ Enqueue(s) \/ Refill(s) \/ RefillEnds(s)

\* enqueue_buffer, or cancel_buffer when the request is not for this stream or
\* its frame is skipped.
Output ==
    /\ At("output")
    /\ \E to \in {"queued", "free"} : Sent("node", index["node"], to)
    /\ turn' = [turn EXCEPT !.at = "refill"]
    /\ UNCHANGED <<index, fresh, gone, node>>

Creators ==
    \/ "RECORD" \in Streams /\ RecordCreator
    \/ "PRVCB" \in Streams /\ PrvcbCreator
    \/ "JPEG" \in Streams /\ JpegCreator

Thread ==
    \/ InitNode \/ InitNodeEnds \/ InitSubs \/ InitSub \/ InitSubEnds \/ DqBuf
    \/ RunSubs \/ Creators \/ Output \/ RefillNode \/ RefillEnds("node")

Next ==
    \/ \E wants \in SUBSET {s \in Range(Subs) : Registered(s)} : DataComing(wants)
    \/ Thread
    \/ \E s \in Range(Subs) : RegisterSub(s)
    \/ \E s \in Streams : GiveBack(s) \/ Abandon(s)

Fairness == WF_vars(Thread) /\ \A s \in Streams : WF_vars(GiveBack(s))

Spec == Init /\ [][Next]_vars /\ Fairness

-----------------------------------------------------------------------------
Stat == {"REQUIRES", "DRIVER", "HAL", "SERVICE"}
TypeOK ==
    /\ \A s \in Streams :
         /\ Registered(s) => status[s] \in [Buffers(s) -> Stat]
         /\ held[s] \in 0 .. Count[s] /\ index[s] \in Buffers(s)
         /\ window[s] \in [Buffers(s) -> {"free", "hal", "queued"}]
    /\ fresh \subseteq Streams /\ gone \subseteq Streams
    /\ IsInjective(node) /\ Range(node) \subseteq 0 .. Hw - 1

\* What the HAL counts is what the window has given it, whatever calls failed.
Counted == \A s \in Streams : held[s] = Cardinality(Of(s, "hal"))

\* A buffer the node may write is not with the service: it was dequeued, and
\* it is recorded so, once the stream is initialised.
NodeOwns ==
    "node" \notin fresh => \A b \in Range(node) :
        window["node"][b] = "hal" /\ status["node"][b] = "DRIVER"

\* A frame finds a buffer in the node while the window is there.
NodeFed == At("dqbuf") /\ "node" \notin gone => node # <<>>

\* A creator that looks for a free buffer has one: its loop has no other end.
Findable == At("search") => Recorded(turn.s, "HAL") # {}

\* Every turn comes to its end.
TurnEnds == ~ At("rest") ~> At("rest")
=============================================================================
