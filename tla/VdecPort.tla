------------------------------ MODULE VdecPort ------------------------------
(* What the two ports of a video decoder have in common while its buffer     *)
(* threads exist: the client's EmptyThisBuffer or FillThisBuffer, the        *)
(* commands that start, pause, flush and end the processing, and the message *)
(* handler's part of them.  VdecInput and VdecOutput add the threads of      *)
(* their port, and the steps of BufferFlush and BufferProcess_Terminate that *)
(* differ.                                                                   *)
(*                                                                           *)
(* The client has at most one command and one buffer call under way.  When   *)
(* Overlaps is FALSE it does as the OpenMAX header says and passes buffers   *)
(* only in Executing, and then with no command outstanding.                  *)
EXTENDS Integers, Sequences, FiniteSets

CONSTANTS
    Buffers,    \* the buffer headers of the port
    NoBuffer,   \* OMXBufferHeader = NULL
    Targets,    \* the states the client asks for
    Overlaps    \* may the client pass buffers while a command is under way?

ASSUME VdecPortAssumption ==
    /\ NoBuffer \notin Buffers
    /\ IsFiniteSet(Buffers)
    /\ Targets \subseteq {"Idle", "Executing", "Pause", "Loaded", "Invalid"}
    /\ Overlaps \in BOOLEAN

VARIABLES
    currentState, transientState, portState,
    bIsPortFlushed,     \* a flush of the port is under way
    bBufferInOMX,       \* the buffers marked as passed to the component
    bufferQ,            \* the buffers queued for the port's thread
    bufferSem,          \* bufferSemID: announces the elements of bufferQ
    atClient,           \* the buffers the client may pass
    call,               \* the client's buffer call: where it is, and of what
    command,            \* the command sent and not concluded, or "none"
    handler,            \* where the message handler is in that command
    bufferMutex,        \* holders of way.port2WayDataBuffer's two mutexes
    pauseEvent,         \* the event Wait_ProcessPause waits for
    bExitBufferProcessThread

stateVars == <<currentState, transientState, portState>>
queueVars == <<bBufferInOMX, bufferQ, bufferSem, atClient>>
flowVars == <<call, command, handler>>
portVars == <<stateVars, bIsPortFlushed, queueVars, flowVars, bufferMutex,
              pauseEvent, bExitBufferProcessThread>>

NoCall == [at |-> "none", buffer |-> NoBuffer]

PortTypeOK ==
    /\ currentState \in {"Idle", "Executing", "Pause", "Invalid"}
    /\ transientState \in {"Max", "LoadedToIdle", "IdleToExecuting",
                           "ExecutingToIdle", "IdleToLoaded"}
    /\ portState \in {"Idle", "Loaded", "Invalid"}
    /\ bIsPortFlushed \in BOOLEAN /\ pauseEvent \in BOOLEAN
    /\ bExitBufferProcessThread \in BOOLEAN
    /\ bBufferInOMX \subseteq Buffers /\ atClient \subseteq Buffers
    /\ bufferQ \in Seq(Buffers) /\ Len(bufferQ) <= Cardinality(Buffers)
    /\ bufferSem \in 0 .. Cardinality(Buffers) + 2
    /\ call.buffer \in Buffers \cup {NoBuffer}

(* The threads have just been created, on the way from Loaded to Idle.       *)
PortInit ==
    /\ currentState = "Idle" /\ transientState = "LoadedToIdle"
    /\ portState = "Idle" /\ bIsPortFlushed = FALSE
    /\ bBufferInOMX = {} /\ bufferQ = <<>> /\ bufferSem = 0
    /\ atClient = Buffers /\ call = NoCall
    /\ command = "none" /\ handler = "idle"
    /\ bufferMutex = <<"free", "free">>
    /\ pauseEvent = FALSE /\ bExitBufferProcessThread = FALSE
-----------------------------------------------------------------------------
Check_BufferProcess_State ==
    /\ currentState = "Executing" /\ portState = "Idle"
    /\ transientState \notin {"ExecutingToIdle", "IdleToExecuting"}

(* The condition under which Wait_ProcessPause waits.                        *)
ProcessPaused ==
    /\ \/ currentState \in {"Pause", "Idle"}
       \/ transientState \in {"LoadedToIdle", "ExecutingToIdle"}
    /\ transientState # "IdleToLoaded"
    /\ ~bIsPortFlushed

(* What GetQueue checks before it waits for the semaphore.                   *)
MayGetQueue ==
    /\ currentState = "Executing"
    /\ transientState # "ExecutingToIdle"
    /\ ~bIsPortFlushed

Lock(i, thread) ==
    /\ bufferMutex[i] = "free"
    /\ bufferMutex' = [bufferMutex EXCEPT ![i] = thread]

Unlock(i) == bufferMutex' = [bufferMutex EXCEPT ![i] = "free"]

(* hPortMutex is held by the client's call alone for more than one step.     *)
PortMutexFree == call.at # "queued"

(* Exynos_OMX_InputBufferReturn, Exynos_OMX_OutputBufferReturn of a set.     *)
BufferReturn(buffers) ==
    /\ buffers # {} => PortMutexFree
    /\ bBufferInOMX' = bBufferInOMX \ buffers
    /\ atClient' = atClient \cup buffers
-----------------------------------------------------------------------------
(* EmptyThisBuffer and FillThisBuffer: the checks, without any lock ...      *)
CallCheck(b) ==
    /\ call = NoCall /\ b \in atClient
    /\ Overlaps \/ (command = "none" /\ currentState = "Executing")
    /\ currentState \in {"Idle", "Executing", "Pause"}
    /\ ~bIsPortFlushed
    /\ call' = [at |-> "checked", buffer |-> b]
    /\ UNCHANGED <<stateVars, bIsPortFlushed, queueVars, command, handler,
                   bufferMutex, pauseEvent, bExitBufferProcessThread>>

(* ... the mark and the queue, under hPortMutex ...                          *)
CallQueue ==
    /\ call.at = "checked"
    /\ call' = [call EXCEPT !.at = "queued"]
    /\ bBufferInOMX' = bBufferInOMX \cup {call.buffer}
    /\ bufferQ' = Append(bufferQ, call.buffer)
    /\ atClient' = atClient \ {call.buffer}
    /\ UNCHANGED <<stateVars, bIsPortFlushed, bufferSem, command, handler,
                   bufferMutex, pauseEvent, bExitBufferProcessThread>>

(* ... and the semaphore, before hPortMutex is given back.                   *)
CallPost ==
    /\ call.at = "queued"
    /\ call' = NoCall
    /\ bufferSem' = bufferSem + 1
    /\ UNCHANGED <<stateVars, bIsPortFlushed, bBufferInOMX, bufferQ, atClient,
                   command, handler, bufferMutex, pauseEvent,
                   bExitBufferProcessThread>>

(* Exynos_OMX_SendCommand in the client's thread.                            *)
ClientMaySend == command = "none" /\ handler = "idle"
                 /\ (Overlaps \/ call = NoCall)
                 /\ currentState # "Invalid"

SendFlush ==
    /\ ClientMaySend /\ currentState \in {"Executing", "Pause"}
    /\ command' = "Flush" /\ bIsPortFlushed' = TRUE
    /\ UNCHANGED <<stateVars, queueVars, call, handler, bufferMutex,
                   pauseEvent, bExitBufferProcessThread>>

(* The transitions ComponentStateSet accepts while the threads exist.        *)
Transitions ==
    {<<"Idle", "Executing">>, <<"Idle", "Pause">>, <<"Executing", "Pause">>,
     <<"Pause", "Executing">>, <<"Executing", "Idle">>, <<"Pause", "Idle">>,
     <<"Idle", "Loaded">>}
    \cup ({"Idle", "Executing", "Pause"} \X {"Invalid"})

SendStateSet(s) ==
    /\ ClientMaySend /\ <<currentState, s>> \in Transitions
    /\ command' = s
    /\ transientState' =
         CASE <<currentState, s>> = <<"Idle", "Loaded">> -> "IdleToLoaded"
           [] <<currentState, s>> = <<"Executing", "Idle">> -> "ExecutingToIdle"
           [] <<currentState, s>> = <<"Idle", "Executing">> -> "IdleToExecuting"
           [] OTHER -> transientState
    /\ portState' = IF s \in {"Loaded", "Invalid"} THEN s ELSE portState
    /\ UNCHANGED <<currentState, bIsPortFlushed, queueVars, call, handler,
                   bufferMutex, pauseEvent, bExitBufferProcessThread>>

SendCommand == SendFlush \/ \E s \in Targets : SendStateSet(s)
-----------------------------------------------------------------------------
(* The message handler takes the command: what needs no thread is done.      *)
ToExecuting ==
    /\ handler = "idle" /\ command = "Executing"
    /\ transientState' = IF currentState = "Idle" THEN "Max" ELSE transientState
    /\ currentState' = "Executing" /\ pauseEvent' = TRUE
    /\ command' = "none"
    /\ UNCHANGED <<portState, bIsPortFlushed, queueVars, call, handler,
                   bufferMutex, bExitBufferProcessThread>>

ToPause ==
    /\ handler = "idle" /\ command = "Pause"
    /\ currentState' = "Pause" /\ command' = "none"
    /\ UNCHANGED <<transientState, portState, bIsPortFlushed, queueVars, call,
                   handler, bufferMutex, pauseEvent, bExitBufferProcessThread>>

(* Exynos_OMX_BufferFlush marks the port; the rest of it is the port's.      *)
FlushMark ==
    /\ handler = "idle"
    /\ command \in {"Flush", "Idle", "PortDisable"}
    /\ bIsPortFlushed' = TRUE /\ handler' = "marked"
    /\ UNCHANGED <<stateVars, queueVars, call, command, bufferMutex,
                   pauseEvent, bExitBufferProcessThread>>

FlushLock(i, from, to) ==
    /\ handler = from /\ Lock(i, "handler") /\ handler' = to
    /\ UNCHANGED <<stateVars, bIsPortFlushed, queueVars, call, command,
                   pauseEvent, bExitBufferProcessThread>>

(* FlushPort's first loop: with each element the semaphore loses at most one.*)
DrainedSem == IF bufferSem > Len(bufferQ) THEN bufferSem - Len(bufferQ) ELSE 0

Queued == {bufferQ[i] : i \in DOMAIN bufferQ}

(* The second loop of FlushPort takes what is left of the semaphore ...      *)
FlushDrainSem ==
    /\ handler = "returned" /\ handler' = "drained"
    /\ bufferSem' = 0
    /\ UNCHANGED <<stateVars, bIsPortFlushed, bBufferInOMX, bufferQ, atClient,
                   call, command, bufferMutex, pauseEvent,
                   bExitBufferProcessThread>>

(* ... and the queue is reset.                                               *)
FlushResetQueue ==
    /\ handler = "drained" /\ handler' = "reset"
    /\ bufferQ' = <<>>
    /\ UNCHANGED <<stateVars, bIsPortFlushed, bBufferInOMX, bufferSem,
                   atClient, call, command, bufferMutex, pauseEvent,
                   bExitBufferProcessThread>>

(* The mark is taken back, both mutexes are given back, and the transition   *)
(* to Idle is made; the disabling of a port goes on.                         *)
FlushDone ==
    /\ handler = "reset"
    /\ handler' = IF command = "PortDisable" THEN "flushed" ELSE "idle"
    /\ bIsPortFlushed' = FALSE
    /\ bufferMutex' = <<"free", "free">>
    /\ currentState' = IF command = "Idle" THEN "Idle" ELSE currentState
    /\ command' = IF command = "PortDisable" THEN command ELSE "none"
    /\ UNCHANGED <<transientState, portState, queueVars, call, pauseEvent,
                   bExitBufferProcessThread>>

(* BufferProcess_Terminate, on the way to Loaded or Invalid.                 *)
TerminateBegin ==
    /\ handler = "idle" /\ command \in {"Loaded", "Invalid"}
    /\ currentState' = IF command = "Invalid" THEN "Invalid" ELSE currentState
    /\ bExitBufferProcessThread' = TRUE /\ handler' = "exiting"
    /\ UNCHANGED <<transientState, portState, bIsPortFlushed, queueVars, call,
                   command, bufferMutex, pauseEvent>>

=============================================================================
