---------------------------- MODULE AdecProcess ----------------------------
(* The audio decoder while its one buffer thread exists: BufferProcess of     *)
(* Exynos_OMX_Adec.c, which takes a buffer of each port, the MP3 decoding on  *)
(* the SRP between them, the client's calls, and the message handler's flush, *)
(* state changes and end of the thread.                                       *)
(*                                                                            *)
(* A locked stretch of the thread without a wait is one step, and so is what  *)
(* the handler does to the flags after a flush.  A frame is a buffer of the   *)
(* client: data, an empty buffer with EOS, or the last data with EOS.  Of     *)
(* timestamps only the equality with the start of a seek matters.  The client *)
(* sends one command at a time, nothing after EOS or a frame that was lost    *)
(* until a flush, and after an error only Invalid; Idle to Pause and Pause to *)
(* Idle are left out.                                                         *)
EXTENDS Integers, Sequences, FiniteSets

CONSTANTS
    Buffers,        \* port -> the buffer headers of the port
    NoBuffer,       \* bufferHeader = NULL
    Transitions,    \* the pairs of states the client asks for
    Flushes,        \* the sets of ports the client flushes with one command
    Overlaps,       \* may a buffer call overlap a command?
    Prompt,         \* does the handler wait at once for what it has counted?
    EarlySeeks,     \* may a command flush EOS before the SRP knows the stream?
    Room,           \* frames that fit into the input port's processData
    HardwareFails   \* may SRP_Get_Dec_Info fail?

Ports == {"in", "out"}

VARIABLES
    currentState, transientState, portState,
    bIsPortFlushed,     \* port -> a flush command names it
    bufferQ,            \* port -> the pointers in the ring
    numElem,            \* port -> the ring's count
    bufferSem,          \* port -> bufferSemID
    dataBuffer,         \* port -> the valid data buffer's header
    bufferMutex,        \* port -> who holds it beyond a step
    atClient,           \* port -> the buffers the client has
    frame,              \* input buffer -> what the client put into it
    call,               \* the client's buffer call under way
    command, handler,   \* the command, and where the handler is in it
    flushing,           \* the ports the handler still has to flush
    pauseEvent, bExitBufferProcessThread,
    pc,                 \* where the buffer thread is
    inputData, outputData,
    flags,              \* the component's flags about EOS, input and seeks
    srp,                \* the driver: what it has to decode, has it got EOS
    eosSent,            \* the client has sent EOS
    eos,                \* what became of it: taken, delivered
    failed,             \* a frame was lost since the last seek, or an error reported
    wrong               \* something stale came out

state == <<currentState, transientState, portState>>
queues == <<bufferQ, numElem, bufferSem>>
client == <<frame, eosSent>>
control == <<command, handler, flushing, bExitBufferProcessThread>>
codec == <<inputData, outputData, flags, srp>>
history == <<eos, failed, wrong>>
vars == <<state, bIsPortFlushed, queues, dataBuffer, bufferMutex, atClient,
          client, call, control, pauseEvent, pc, codec, history>>

NoCall == [at |-> "none", port |-> "in", buffer |-> NoBuffer]
NoData == [len |-> 0, eos |-> FALSE, ts |-> "none", old |-> FALSE]

FirstFlags == [reInputData |-> FALSE, getAllDelayBuffer |-> FALSE,
               bSaveFlagEOS |-> FALSE, bSRPSendEOS |-> FALSE,
               bConfiguredSRP |-> FALSE, needSetStart |-> FALSE,
               needCheckStart |-> FALSE]

NewSRP == [pending |-> {}, eos |-> FALSE]

Frames == {"data", "eos", "last"}
Size(f) == IF f = "eos" THEN 0 ELSE 1

(* BufferProcess_Create, on the way from Loaded to Idle.                      *)
Init ==
    /\ currentState = "Idle" /\ transientState = "LoadedToIdle"
    /\ portState = "Idle"
    /\ bIsPortFlushed = [p \in Ports |-> FALSE]
    /\ bufferQ = [p \in Ports |-> <<>>]
    /\ numElem = [p \in Ports |-> 0] /\ bufferSem = [p \in Ports |-> 0]
    /\ dataBuffer = [p \in Ports |-> NoBuffer]
    /\ bufferMutex = [p \in Ports |-> "free"]
    /\ atClient = [p \in Ports |-> Buffers[p]]
    /\ frame = [b \in Buffers["in"] |-> "none"]
    /\ call = NoCall /\ command = "none" /\ handler = "idle" /\ flushing = <<>>
    /\ pauseEvent = FALSE /\ bExitBufferProcessThread = FALSE
    /\ pc = "outer" /\ inputData = NoData /\ outputData = NoData
    /\ flags = FirstFlags /\ srp = NewSRP
    /\ eosSent = FALSE /\ eos = "none" /\ failed = "no" /\ wrong = FALSE
-----------------------------------------------------------------------------
Check_BufferProcess_State ==
    /\ currentState = "Executing" /\ portState = "Idle"
    /\ transientState \notin {"ExecutingToIdle", "IdleToExecuting"}

\* Buffers go back to the client, those of the input port emptied.
Returned(p, some) ==
    /\ atClient' = [atClient EXCEPT ![p] = @ \cup some]
    /\ frame' = [b \in DOMAIN frame |-> IF p = "in" /\ b \in some THEN "none" ELSE frame[b]]

AnyFlushed == \E p \in Ports : bIsPortFlushed[p]

\* The buffer returns wait in Pause unless a port is being flushed.
ReturnPauses == currentState = "Pause" /\ ~AnyFlushed

(* EmptyThisBuffer and FillThisBuffer: the checks, the queue, the semaphore.  *)
CallCheck(p, b) ==
    /\ call = NoCall /\ b \in atClient[p]
    /\ Overlaps \/ command = "none"
    /\ failed = "no"
    /\ currentState \in {"Executing", "Pause"} /\ ~bIsPortFlushed[p]
    /\ call' = [at |-> "checked", port |-> p, buffer |-> b]
    /\ IF p = "in"
       THEN /\ ~eosSent
            /\ \E f \in Frames : /\ frame' = [frame EXCEPT ![b] = f]
                                 /\ eosSent' = (f # "data")
       ELSE UNCHANGED client
    /\ UNCHANGED <<state, bIsPortFlushed, queues, dataBuffer, bufferMutex,
                   atClient, control, pauseEvent, pc, codec, history>>

CallQueue ==
    /\ call.at = "checked"
    /\ call' = [call EXCEPT !.at = "queued"]
    /\ bufferQ' = [bufferQ EXCEPT ![call.port] = Append(@, call.buffer)]
    /\ numElem' = [numElem EXCEPT ![call.port] = @ + 1]
    /\ atClient' = [atClient EXCEPT ![call.port] = @ \ {call.buffer}]
    /\ UNCHANGED <<state, bIsPortFlushed, bufferSem, dataBuffer, bufferMutex,
                   client, control, pauseEvent, pc, codec, history>>

CallPost ==
    /\ call.at = "queued"
    /\ call' = NoCall
    /\ bufferSem' = [bufferSem EXCEPT ![call.port] = @ + 1]
    /\ UNCHANGED <<state, bIsPortFlushed, bufferQ, numElem, dataBuffer,
                   bufferMutex, atClient, client, control, pauseEvent, pc,
                   codec, history>>

(* SendCommand in the client's thread.                                        *)
ClientMaySend ==
    /\ command = "none" /\ handler = "idle"
    /\ Overlaps \/ call = NoCall

MayFlush ==
    /\ failed # "error"
    /\ EarlySeeks \/ (eosSent => flags.bConfiguredSRP)

SendFlush(ports) ==
    /\ ClientMaySend /\ MayFlush /\ currentState \in {"Executing", "Pause"}
    /\ command' = "Flush"
    /\ bIsPortFlushed' = [p \in Ports |-> bIsPortFlushed[p] \/ p \in ports]
    /\ flushing' = (IF "in" \in ports THEN <<"in">> ELSE <<>>)
                 \o (IF "out" \in ports THEN <<"out">> ELSE <<>>)
    /\ UNCHANGED <<state, queues, dataBuffer, bufferMutex, atClient, client,
                   call, handler, bExitBufferProcessThread, pauseEvent, pc,
                   codec, history>>

SendStateSet(s) ==
    /\ ClientMaySend /\ <<currentState, s>> \in Transitions
    /\ s = "Idle" => MayFlush
    /\ failed = "error" => s = "Invalid"
    /\ command' = s
    /\ transientState' =
         CASE <<currentState, s>> = <<"Idle", "Loaded">> -> "IdleToLoaded"
           [] <<currentState, s>> = <<"Executing", "Idle">> -> "ExecutingToIdle"
           [] <<currentState, s>> = <<"Idle", "Executing">> -> "IdleToExecuting"
           [] OTHER -> transientState
    /\ portState' = IF s \in {"Loaded", "Invalid"} THEN s ELSE portState
    /\ flushing' = IF s = "Idle" THEN <<"in", "out">> ELSE flushing
    /\ UNCHANGED <<currentState, bIsPortFlushed, queues, dataBuffer, bufferMutex,
                   atClient, client, call, handler, bExitBufferProcessThread,
                   pauseEvent, pc, codec, history>>
-----------------------------------------------------------------------------
(* BufferProcess.  A step of the thread that touches nothing shared.          *)
ThreadGoes(from, to) ==
    /\ pc = from /\ pc' = to
    /\ UNCHANGED <<state, bIsPortFlushed, queues, dataBuffer, bufferMutex,
                   atClient, client, call, control, pauseEvent, codec, history>>

\* What every other step of the thread leaves alone.
ThreadKeeps == UNCHANGED <<state, bIsPortFlushed, eosSent, call, control>>

Paused ==
    /\ \/ currentState \in {"Pause", "Idle"}
       \/ transientState \in {"LoadedToIdle", "ExecutingToIdle"}
    /\ transientState # "IdleToLoaded" /\ ~AnyFlushed

Outer == ThreadGoes("outer", IF bExitBufferProcessThread THEN "done"
                             ELSE IF Paused THEN "waiting" ELSE "inner")

Waiting == pauseEvent /\ ThreadGoes("waiting", "waited")

Waited ==
    /\ pc = "waited" /\ pc' = "inner" /\ pauseEvent' = FALSE
    /\ ThreadKeeps /\ UNCHANGED frame
    /\ UNCHANGED <<queues, dataBuffer, bufferMutex, atClient, codec, history>>

Inner ==
    ThreadGoes("inner",
        IF Check_BufferProcess_State /\ ~bExitBufferProcessThread
        THEN "checkOut" ELSE "outer")

CheckOut ==
    /\ bufferMutex["out"] = "free"
    /\ ThreadGoes("checkOut",
           IF dataBuffer["out"] = NoBuffer /\ ~bIsPortFlushed["out"]
           THEN "outGet" ELSE "input")

(* OutputBufferGetQueue and InputBufferGetQueue.                              *)
GetAt == [in |-> "inGet", out |-> "outGet"]
WaitAt == [in |-> "inWait", out |-> "outWait"]
TakeAt == [in |-> "inTake", out |-> "outTake"]

GetQueue(p) ==
    ThreadGoes(GetAt[p],
        IF currentState = "Executing" THEN WaitAt[p] ELSE "outer")

GetWait(p) ==
    /\ pc = WaitAt[p] /\ pc' = TakeAt[p]
    /\ Prompt => ~(handler = "wait" /\ Head(flushing) = p)
    /\ bufferSem[p] > 0 /\ bufferSem' = [bufferSem EXCEPT ![p] = @ - 1]
    /\ ThreadKeeps /\ UNCHANGED frame
    /\ UNCHANGED <<bufferQ, numElem, dataBuffer, bufferMutex, atClient,
                   pauseEvent, codec, history>>

\* With an output buffer the thread goes on, after an input buffer it leaves
\* the inner loop.
Taken(p) == IF p = "out" /\ portState = "Idle" THEN "input" ELSE "outer"

Take(p) ==
    /\ pc = TakeAt[p] /\ bufferMutex[p] = "free"
    /\ IF dataBuffer[p] # NoBuffer
       THEN pc' = Taken(p) /\ UNCHANGED <<bufferQ, numElem, dataBuffer>>
       ELSE IF bufferQ[p] = <<>> \/ numElem[p] = 0
       THEN pc' = "outer" /\ UNCHANGED <<bufferQ, numElem, dataBuffer>>
       ELSE /\ dataBuffer' = [dataBuffer EXCEPT ![p] = Head(bufferQ[p])]
            /\ bufferQ' = [bufferQ EXCEPT ![p] = Tail(@)]
            /\ numElem' = [numElem EXCEPT ![p] = @ - 1]
            /\ pc' = Taken(p)
    /\ ThreadKeeps /\ UNCHANGED frame
    /\ UNCHANGED <<bufferSem, bufferMutex, atClient, pauseEvent, codec, history>>
-----------------------------------------------------------------------------
(* Preprocessor_InputData.  Without a valid data buffer there is nothing to   *)
(* copy: the thread asks for one, or goes on when the port is being flushed.  *)
NoInput == IF bIsPortFlushed["in"] THEN "process" ELSE "inGet"

InputKept == flags.reInputData /\ ThreadGoes("input", "process")

InputMissing ==
    /\ ~flags.reInputData
    /\ bufferMutex["in"] = "free" /\ dataBuffer["in"] = NoBuffer
    /\ ThreadGoes("input", NoInput)

\* The first frame after a seek: SRP_Flush empties the SRP, and the output is to
\* begin with the timestamp that processData has now.
Started(d) ==
    IF flags.needSetStart
    THEN /\ srp' = NewSRP
         /\ flags' = [flags EXCEPT !.needSetStart = FALSE,
                                   !.needCheckStart = TRUE,
                                   !.bSaveFlagEOS = FALSE]
         /\ inputData' = [d EXCEPT !.ts = "start"]
    ELSE /\ flags' = [flags EXCEPT !.bSaveFlagEOS = FALSE]
         /\ inputData' = d
         /\ UNCHANGED srp

\* The frame is appended to processData, and its buffer goes back.
InputFits ==
    LET b == dataBuffer["in"]
        f == frame[b]
        ends == flags.bSaveFlagEOS \/ f # "data"
        d == [inputData EXCEPT !.len = @ + Size(f), !.eos = ends,
                               !.ts = IF inputData.len = 0 THEN "none" ELSE @]
    IN  /\ pc = "input" /\ ~flags.reInputData
        /\ bufferMutex["in"] = "free" /\ b # NoBuffer
        /\ inputData.len + Size(f) <= Room
        /\ Returned("in", {b})
        /\ eos' = IF ends THEN "taken" ELSE eos
        /\ IF ReturnPauses
           THEN /\ pc' = "inPaused"
                /\ bufferMutex' = [bufferMutex EXCEPT !["in"] = "thread"]
                /\ inputData' = d
                /\ flags' = [flags EXCEPT !.bSaveFlagEOS = FALSE]
                /\ UNCHANGED <<dataBuffer, srp>>
           ELSE /\ pc' = "process"
                /\ dataBuffer' = [dataBuffer EXCEPT !["in"] = NoBuffer]
                /\ Started(d)
                /\ UNCHANGED bufferMutex
        /\ ThreadKeeps
        /\ UNCHANGED <<queues, pauseEvent, outputData, failed, wrong>>

\* It does not fit: processData is emptied, and the buffer stays unless its
\* port is being flushed.
InputOverflows ==
    LET b == dataBuffer["in"]
    IN  /\ pc = "input" /\ ~flags.reInputData
        /\ bufferMutex["in"] = "free" /\ b # NoBuffer
        /\ inputData.len + Size(frame[b]) > Room
        /\ inputData' = NoData
        /\ flags' = [flags EXCEPT !.bSaveFlagEOS = @ \/ frame[b] # "data"]
        /\ IF bIsPortFlushed["in"]
           THEN /\ dataBuffer' = [dataBuffer EXCEPT !["in"] = NoBuffer]
                /\ Returned("in", {b})
           ELSE UNCHANGED <<dataBuffer, atClient, frame>>
        /\ pc' = NoInput
        /\ ThreadKeeps
        /\ failed' = IF failed = "no" THEN "lost" ELSE failed
        /\ UNCHANGED <<queues, bufferMutex, pauseEvent, outputData, srp, eos, wrong>>

\* InputBufferReturn in Pause: the header is back, the data buffer not reset.
InPaused == pauseEvent /\ ThreadGoes("inPaused", "inResume")

InResume ==
    /\ pc = "inResume" /\ pc' = "process"
    /\ pauseEvent' = FALSE
    /\ dataBuffer' = [dataBuffer EXCEPT !["in"] = NoBuffer]
    /\ bufferMutex' = [bufferMutex EXCEPT !["in"] = "free"]
    /\ Started(inputData)
    /\ ThreadKeeps /\ UNCHANGED frame
    /\ UNCHANGED <<queues, atClient, outputData, history>>
-----------------------------------------------------------------------------
(* The MP3 decoder's bufferProcess, with both ports' mutexes held.  First the *)
(* frame and EOS are sent, unless EOS was before.  The SRP may have no room   *)
(* for the frame while it has others.                                         *)
Sends == ~flags.getAllDelayBuffer

Overflows ==
    IF Sends /\ inputData.len > 0 /\ srp.pending # {} THEN BOOLEAN ELSE {FALSE}

Sent(overflow) ==
    IF ~Sends \/ overflow THEN srp
    ELSE [pending |-> srp.pending \cup (IF inputData.len > 0 THEN {"new"} ELSE {}),
          eos |-> srp.eos \/ inputData.eos]

EOSSent(overflow) == flags.bSRPSendEOS \/ (Sends /\ ~overflow /\ inputData.eos)

\* The output so far: the input's timestamp and flags without EOS.
Stamped == [outputData EXCEPT !.ts = inputData.ts, !.eos = FALSE]

\* OMX_ErrorNone consumes processData, though not its flags; with
\* OMX_ErrorInputDataDecodeYet it stays to be processed again.
Decoded(ret, out, newFlags) ==
    /\ pc' = IF ret = "DecodeYet" THEN "decodeYet" ELSE "decoded"
    /\ inputData' = IF ret = "None" THEN [inputData EXCEPT !.len = 0] ELSE inputData
    /\ outputData' = out /\ flags' = newFlags
    /\ ThreadKeeps /\ UNCHANGED frame
    /\ UNCHANGED <<queues, dataBuffer, bufferMutex, atClient, pauseEvent, eos, wrong>>

Processes ==
    /\ pc = "process" /\ \A p \in Ports : bufferMutex[p] = "free"

\* The state has changed since the loop looked at it: nothing is decoded.
HeldBack ==
    /\ Processes /\ ~Check_BufferProcess_State
    /\ Decoded(IF inputData.eos THEN "DecodeYet" ELSE "Kept", outputData, flags)
    /\ UNCHANGED <<srp, failed>>

Decodes == Processes /\ Check_BufferProcess_State

OnlyEOS == inputData.len = 0 /\ inputData.eos

\* The stream is not known yet, and there is nothing but EOS.
DecodesOnlyEOS ==
    /\ Decodes /\ ~flags.bConfiguredSRP /\ OnlyEOS
    /\ srp' = Sent(FALSE)
    /\ Decoded("None", [Stamped EXCEPT !.eos = TRUE],
               [flags EXCEPT !.bSRPSendEOS = FALSE])
    /\ UNCHANGED failed

\* SRP_Get_Dec_Info says whether the stream is known, which takes a frame.
DecodesHeader(known) ==
    /\ Decodes /\ ~flags.bConfiguredSRP /\ ~OnlyEOS
    /\ \E overflow \in Overflows :
          LET ends == EOSSent(overflow)
          IN  /\ srp' = Sent(overflow)
              /\ known => srp'.pending # {}
              /\ Decoded(IF ends \/ overflow THEN "DecodeYet" ELSE "None",
                         IF ends THEN [Stamped EXCEPT !.len = 0] ELSE Stamped,
                         [flags EXCEPT !.bSRPSendEOS = ends,
                                       !.getAllDelayBuffer = ends,
                                       !.bConfiguredSRP = known])
    /\ UNCHANGED failed

\* It fails: an error is reported, and processData keeps the frame.
DecodesFails ==
    /\ HardwareFails /\ Decodes /\ ~flags.bConfiguredSRP /\ ~OnlyEOS
    /\ \E overflow \in Overflows :
          /\ srp' = Sent(overflow)
          /\ Decoded("Hardware", Stamped,
                     [flags EXCEPT !.bSRPSendEOS = EOSSent(overflow)])
    /\ failed' = "error"

\* SRP_Get_PCM has something of what is pending, or nothing.  EOS comes out
\* once the SRP has decoded everything and stopped.
DecodesPCM(pcm) ==
    LET out == [Stamped EXCEPT !.len = IF pcm = "none" THEN 0 ELSE 1,
                               !.old = pcm = "old"]
    IN  /\ Decodes /\ flags.bConfiguredSRP
        /\ \E overflow \in Overflows :
              LET later == IF overflow THEN "DecodeYet" ELSE "None"
                  ends == EOSSent(overflow)
                  sent == Sent(overflow)
              IN  /\ pcm \in sent.pending \cup {"none"}
                  /\ srp' = [sent EXCEPT !.pending = @ \ {pcm}]
                  /\ IF ~ends THEN Decoded(later, out, flags)
                     ELSE IF ~inputData.eos
                     THEN Decoded(later, out, [flags EXCEPT !.bSRPSendEOS = FALSE])
                     ELSE IF srp'.eos /\ srp'.pending = {}
                     THEN Decoded("None", [out EXCEPT !.eos = TRUE],
                                  [flags EXCEPT !.bSRPSendEOS = FALSE,
                                                !.getAllDelayBuffer = FALSE])
                     ELSE Decoded("DecodeYet", out,
                                  [flags EXCEPT !.bSRPSendEOS = TRUE,
                                                !.getAllDelayBuffer = TRUE])
        /\ UNCHANGED failed

InputKeeps ==
    /\ pc \in {"decodeYet", "decoded"} /\ pc' = "post"
    /\ flags' = [flags EXCEPT !.reInputData = (pc = "decodeYet")]
    /\ ThreadKeeps /\ UNCHANGED frame
    /\ UNCHANGED <<queues, dataBuffer, bufferMutex, atClient, pauseEvent,
                   inputData, outputData, srp, history>>
-----------------------------------------------------------------------------
(* Postprocess_OutputData.  After a seek the output is dropped until the      *)
(* timestamp of the first frame appears.                                      *)
Posts == pc = "post" /\ bufferMutex["out"] = "free"

PostsNowhere ==
    /\ bufferMutex["out"] = "free" /\ dataBuffer["out"] = NoBuffer
    /\ ThreadGoes("post", "inner")

Dropped == IF flags.needCheckStart THEN outputData.ts # "start"
           ELSE flags.needSetStart

PostsDropped ==
    /\ Posts /\ dataBuffer["out"] # NoBuffer /\ Dropped
    /\ pc' = "inner" /\ outputData' = NoData
    /\ ThreadKeeps /\ UNCHANGED frame
    /\ UNCHANGED <<queues, dataBuffer, bufferMutex, atClient, pauseEvent,
                   inputData, flags, srp, history>>

\* OutputBufferReturn, if there is data or EOS or the port is being flushed.
Leaves == outputData.len > 0 \/ outputData.eos \/ bIsPortFlushed["out"]

PostsOutput ==
    LET b == dataBuffer["out"]
        unfounded == outputData.eos /\ eos # "taken"
        stale == outputData.old \/ unfounded
    IN  /\ Posts /\ b # NoBuffer /\ ~Dropped
        /\ flags' = IF flags.needCheckStart
                    THEN [flags EXCEPT !.needSetStart = FALSE, !.needCheckStart = FALSE]
                    ELSE flags
        /\ outputData' = NoData
        /\ IF Leaves
           THEN /\ atClient' = [atClient EXCEPT !["out"] = @ \cup {b}]
                /\ eos' = IF outputData.eos THEN "delivered" ELSE eos
                /\ wrong' = (wrong \/ (stale /\ command = "none"))
                /\ pc' = IF ReturnPauses THEN "outPaused" ELSE "inner"
                /\ IF ReturnPauses
                   THEN /\ bufferMutex' = [bufferMutex EXCEPT !["out"] = "thread"]
                        /\ UNCHANGED dataBuffer
                   ELSE /\ dataBuffer' = [dataBuffer EXCEPT !["out"] = NoBuffer]
                        /\ UNCHANGED bufferMutex
           ELSE /\ pc' = "inner"
                /\ UNCHANGED <<atClient, eos, wrong, dataBuffer, bufferMutex>>
        /\ ThreadKeeps /\ UNCHANGED frame
        /\ UNCHANGED <<queues, pauseEvent, inputData, srp, failed>>

OutPaused == pauseEvent /\ ThreadGoes("outPaused", "outResume")

OutResume ==
    /\ pc = "outResume" /\ pc' = "inner"
    /\ pauseEvent' = FALSE
    /\ dataBuffer' = [dataBuffer EXCEPT !["out"] = NoBuffer]
    /\ bufferMutex' = [bufferMutex EXCEPT !["out"] = "free"]
    /\ ThreadKeeps /\ UNCHANGED frame
    /\ UNCHANGED <<queues, atClient, codec, history>>
-----------------------------------------------------------------------------
(* The message handler: BufferFlush of one port after another.                *)
HandlerGoes(from, to) == handler = from /\ handler' = to

HandlerKeeps ==
    UNCHANGED <<eosSent, call, bExitBufferProcessThread, pc>>

FlushWakes ==
    /\ HandlerGoes("idle", "lock") /\ flushing # <<>>
    /\ pauseEvent' = TRUE
    /\ HandlerKeeps /\ UNCHANGED frame
    /\ UNCHANGED <<state, bIsPortFlushed, queues, dataBuffer, bufferMutex,
                   atClient, command, flushing, codec, history>>

FlushLocks ==
    LET p == Head(flushing)
    IN  /\ HandlerGoes("lock", "count") /\ bufferMutex[p] = "free"
        /\ bufferMutex' = [bufferMutex EXCEPT ![p] = "handler"]
        /\ HandlerKeeps /\ UNCHANGED frame
        /\ UNCHANGED <<state, bIsPortFlushed, queues, dataBuffer, atClient,
                       command, flushing, pauseEvent, codec, history>>

\* FlushPort counts on the semaphore, and posts it if need be, before it waits.
FlushCounts ==
    LET p == Head(flushing)
    IN  /\ handler = "count"
        /\ IF numElem[p] > 0
           THEN /\ handler' = "wait"
                /\ bufferSem' = IF bufferSem[p] = 0
                                THEN [bufferSem EXCEPT ![p] = 1] ELSE bufferSem
           ELSE handler' = "held" /\ UNCHANGED bufferSem
        /\ HandlerKeeps /\ UNCHANGED frame
        /\ UNCHANGED <<state, bIsPortFlushed, bufferQ, numElem, dataBuffer,
                       bufferMutex, atClient, command, flushing, pauseEvent,
                       codec, history>>

FlushReturns ==
    LET p == Head(flushing)
    IN  /\ HandlerGoes("wait", "count")
        /\ bufferSem[p] > 0 /\ bufferSem' = [bufferSem EXCEPT ![p] = @ - 1]
        /\ IF bufferQ[p] = <<>>
           THEN UNCHANGED <<bufferQ, numElem, atClient, frame>>
           ELSE /\ bufferQ' = [bufferQ EXCEPT ![p] = Tail(@)]
                /\ numElem' = [numElem EXCEPT ![p] = @ - 1]
                /\ Returned(p, {Head(bufferQ[p])})
        /\ HandlerKeeps
        /\ UNCHANGED <<state, bIsPortFlushed, dataBuffer, bufferMutex, command,
                       flushing, pauseEvent, codec, history>>

\* As TakenBuffer, but the flush looks for a buffer in the queue only.
TakenBufferForgotten(p) == {}

\* The buffer the thread has taken, if any.
TakenBuffer(p) == {dataBuffer[p]} \ {NoBuffer}

\* The held buffer, the semaphore, the ring's count and processData.
FlushHeld ==
    LET p == Head(flushing)
    IN  /\ HandlerGoes("held", "unlock")
        /\ Returned(p, TakenBuffer(p))
        /\ dataBuffer' = [dataBuffer EXCEPT ![p] = NoBuffer]
        /\ bufferSem' = [bufferSem EXCEPT ![p] = 0]
        /\ numElem' = [numElem EXCEPT ![p] = 0]
        /\ bufferMutex' = [bufferMutex EXCEPT ![p] = "free"]
        /\ inputData' = IF p = "in" THEN NoData ELSE inputData
        /\ outputData' = IF p = "out" THEN NoData ELSE outputData
        /\ HandlerKeeps
        /\ UNCHANGED <<state, bIsPortFlushed, bufferQ, command, flushing,
                       pauseEvent, flags, srp, history>>

\* The flag and the event.  What the codec has of the input is now of the past.
FlushTells ==
    LET p == Head(flushing)
    IN  /\ HandlerGoes("unlock", "told")
        /\ bIsPortFlushed' = [bIsPortFlushed EXCEPT ![p] = FALSE]
        /\ command' = IF command = "Flush" /\ Len(flushing) = 1
                      THEN "none" ELSE command
        /\ IF p = "in"
           THEN /\ srp' = [srp EXCEPT !.pending = {"old" : c \in @}]
                /\ outputData' = [outputData EXCEPT !.ts = "none",
                                                    !.old = outputData.len > 0]
                /\ eos' = "none" /\ eosSent' = FALSE
                /\ failed' = IF failed = "lost" THEN "no" ELSE failed
           ELSE UNCHANGED <<srp, outputData, eos, eosSent, failed>>
        /\ UNCHANGED <<state, queues, dataBuffer, bufferMutex, atClient, frame,
                       call, bExitBufferProcessThread, pc, flushing, pauseEvent,
                       inputData, flags, wrong>>

\* As Restarted, but the output goes on draining what was before the flush.
RestartedDraining == [flags EXCEPT !.needSetStart = TRUE, !.needCheckStart = FALSE,
                                   !.bSaveFlagEOS = FALSE]

\* After a flush of the input its flags are for a new start.
Restarted == [flags EXCEPT !.needSetStart = TRUE, !.needCheckStart = FALSE,
                           !.getAllDelayBuffer = FALSE, !.bSaveFlagEOS = FALSE,
                           !.reInputData = FALSE]

\* After the event.
FlushEnds ==
    /\ HandlerGoes("told", "idle")
    /\ flushing' = Tail(flushing)
    /\ flags' = IF Head(flushing) = "in" THEN Restarted ELSE flags
    /\ HandlerKeeps /\ UNCHANGED frame
    /\ UNCHANGED <<state, bIsPortFlushed, queues, dataBuffer, bufferMutex,
                   atClient, command, pauseEvent, inputData, outputData, srp,
                   history>>

(* ComponentStateSet reaches its state.                                       *)
ReachesState(s, transient, wakes) ==
    /\ command = s /\ handler = "idle" /\ flushing = <<>>
    /\ currentState' = s /\ transientState' = transient
    /\ command' = "none" /\ pauseEvent' = (pauseEvent \/ wakes)
    /\ HandlerKeeps /\ UNCHANGED frame
    /\ UNCHANGED <<portState, bIsPortFlushed, queues, dataBuffer, bufferMutex,
                   atClient, handler, flushing, codec, history>>

ToIdle == ReachesState("Idle", transientState, FALSE)
ToPause == ReachesState("Pause", transientState, FALSE)
ToExecuting ==
    ReachesState("Executing",
        IF currentState = "Idle" THEN "Max" ELSE transientState, TRUE)

(* BufferProcess_Terminate: it wakes the thread wherever it waits, and joins. *)
Terminates ==
    /\ command \in {"Loaded", "Invalid"} /\ HandlerGoes("idle", "exit")
    /\ currentState' = IF command = "Invalid" THEN "Invalid" ELSE currentState
    /\ bExitBufferProcessThread' = TRUE
    /\ UNCHANGED <<transientState, portState, bIsPortFlushed, queues, dataBuffer,
                   bufferMutex, atClient, client, call, command, flushing,
                   pauseEvent, pc, codec, history>>

TerminateWakes ==
    /\ HandlerGoes("exit", "join")
    /\ bufferSem' = [p \in Ports |-> IF bufferSem[p] = 0 THEN 1 ELSE bufferSem[p]]
    /\ pauseEvent' = TRUE
    /\ HandlerKeeps /\ UNCHANGED frame
    /\ UNCHANGED <<state, bIsPortFlushed, bufferQ, numElem, dataBuffer,
                   bufferMutex, atClient, command, flushing, codec, history>>

Joined ==
    /\ HandlerGoes("join", "idle") /\ pc = "done"
    /\ currentState' = command /\ command' = "none"
    /\ HandlerKeeps /\ UNCHANGED frame
    /\ UNCHANGED <<transientState, portState, bIsPortFlushed, queues, dataBuffer,
                   bufferMutex, atClient, flushing, pauseEvent, codec, history>>
-----------------------------------------------------------------------------
Client ==
    \/ \E p \in Ports : \E b \in Buffers[p] : CallCheck(p, b)
    \/ \E ports \in Flushes : SendFlush(ports)
    \/ \E change \in Transitions : SendStateSet(change[2])

Calls == CallQueue \/ CallPost

Thread ==
    \/ Outer \/ Waiting \/ Waited \/ Inner \/ CheckOut
    \/ \E p \in Ports : GetQueue(p) \/ GetWait(p) \/ Take(p)
    \/ InputKept \/ InputMissing \/ InputFits \/ InputOverflows
    \/ InPaused \/ InResume
    \/ HeldBack \/ DecodesOnlyEOS \/ DecodesFails
    \/ \E known \in BOOLEAN : DecodesHeader(known)
    \/ \E pcm \in {"old", "new", "none"} : DecodesPCM(pcm)
    \/ InputKeeps
    \/ PostsNowhere \/ PostsDropped \/ PostsOutput \/ OutPaused \/ OutResume

\* The SRP gets on with what it has.
SRP == DecodesHeader(TRUE) \/ \E pcm \in {"old", "new"} : DecodesPCM(pcm)

Handler ==
    \/ FlushWakes \/ FlushLocks \/ FlushCounts \/ FlushReturns \/ FlushHeld
    \/ FlushTells \/ FlushEnds
    \/ ToIdle \/ ToPause \/ ToExecuting
    \/ Terminates \/ TerminateWakes \/ Joined

Next == Client \/ Calls \/ Thread \/ Handler

\* A client that plays passes the output buffers again that it gets.
Supplies == \E b \in Buffers["out"] : CallCheck("out", b)

Spec ==
    /\ Init /\ [][Next]_vars
    /\ WF_vars(Calls) /\ WF_vars(Thread) /\ WF_vars(Handler)
    /\ SF_vars(SRP) /\ WF_vars(Supplies)
-----------------------------------------------------------------------------
(* Every variable has its type.                                               *)
TypeOK ==
    /\ currentState \in {"Loaded", "Idle", "Executing", "Pause", "Invalid"}
    /\ bIsPortFlushed \in [Ports -> BOOLEAN]
    /\ bufferSem \in [Ports -> Nat] /\ numElem \in [Ports -> Nat]
    /\ \A p \in Ports : /\ bufferQ[p] \in Seq(Buffers[p])
                        /\ dataBuffer[p] \in Buffers[p] \cup {NoBuffer}
    /\ bufferMutex \in [Ports -> {"free", "thread", "handler"}]
    /\ inputData.len \in 0 .. Room /\ outputData.len \in 0 .. 1
    /\ eos \in {"none", "taken", "delivered"}

\* The data buffer names a header that is back at the client while its return
\* waits in Pause.
Returning(p) == pc \in IF p = "in" THEN {"inPaused", "inResume"}
                               ELSE {"outPaused", "outResume"}
Held(p) == IF Returning(p) THEN {} ELSE {dataBuffer[p]} \ {NoBuffer}
Queued(p) == {bufferQ[p][i] : i \in DOMAIN bufferQ[p]}

\* Each buffer is with the client, in the queue or held, and in one place; in
\* Idle the client has all of them, and the ring's count is that of the ring.
BuffersKept ==
    \A p \in Ports :
        /\ \A b \in Buffers[p] :
              Cardinality({place \in {<<"client", atClient[p]>>, <<"queue", Queued(p)>>,
                                      <<"held", Held(p)>>} : b \in place[2]}) = 1
        /\ numElem[p] = Len(bufferQ[p])
        /\ Len(bufferQ[p]) = Cardinality(Queued(p))
        /\ currentState = "Idle" => atClient[p] = Buffers[p]

\* Outside of a command nothing of before the last seek comes out, no EOS that
\* was not taken since, and EOS is what it is taken for.
SeeksAreClean == ~wrong

\* Every command comes to its end, whatever the thread was waiting for.
Working == command # "none"
CommandsEnd == Working ~> ~Working

\* When the client lets it play, EOS that it has sent comes out at last.
Plays == currentState = "Executing" /\ command = "none"
EOSComesOut == <>[](Plays /\ failed = "no") => []<>(eosSent => eos = "delivered")
=============================================================================
