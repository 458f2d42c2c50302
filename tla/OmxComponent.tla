---------------------------- MODULE OmxComponent ----------------------------
(* The command path of one OpenMAX component: Exynos_OMX_SendCommand in the  *)
(* client's thread, the message queue, the message handler thread with       *)
(* Exynos_OMX_ComponentStateSet and the port enable and disable processes,   *)
(* buffer assignment (UseBuffer, AllocateBuffer, FreeBuffer), and the        *)
(* destruction of the component.  The traffic of the buffers is in VdecInput *)
(* and VdecOutput; here a flush is one step.                                 *)
(*                                                                           *)
(* The client is one thread that follows the OpenMAX protocol: it assigns    *)
(* and frees buffers only for the transition under way, and has at most      *)
(* MaxPending commands outstanding.                                          *)
EXTENDS Integers, Sequences, FiniteSets

CONSTANTS
    NumPorts,            \* ALL_PORT_NUM; 2 for every video component
    nBufferCountActual,  \* port -> how many buffers it must be given
    Targets,             \* the states the client asks for
    Commands,            \* the other commands the client sends
    Failures,            \* what may fail on the way to Idle
    MaxPending,          \* bound: commands outstanding at once
    MaxPosts,            \* bound: posts a port's semaphore can hold
    QueueCapacity        \* how many messages messageQ holds (39 in the code)

Ports == 0 .. NumPorts - 1
ALL_PORT_INDEX == -1

States == {"Invalid", "Loaded", "Idle", "Executing", "Pause",
           "WaitForResources"}
TransientStates == {"Invalid", "LoadedToIdle", "IdleToExecuting",
                    "ExecutingToIdle", "IdleToLoaded", "Max"}
PortStates == {"Max", "Loaded", "Idle", "Invalid"}
FailurePoints == {"Get_Resource", "codec_componentInit",
                  "BufferProcessCreate"}

ASSUME OmxComponentAssumption ==
    /\ NumPorts \in Nat \ {0}
    /\ nBufferCountActual \in [Ports -> Nat \ {0}]
    /\ Targets \subseteq States
    /\ Commands \subseteq {"Flush", "PortDisable", "PortEnable"}
    /\ Failures \subseteq FailurePoints
    /\ MaxPending \in Nat \ {0}
    /\ MaxPosts \in Nat \ {0}
    /\ QueueCapacity \in Nat \ {0}

VARIABLES
    currentState,       \* the state GetState reports
    transientState,     \* the transition SendCommand announced last
    portState,          \* port -> what the buffer calls may do
    bIsPortDisabled,    \* port -> a disable command is under way
    bIsPortFlushed,     \* port -> a flush command is under way
    bEnabled,           \* port -> portDefinition.bEnabled
    bPopulated,         \* port -> portDefinition.bPopulated
    assignedBufferNum,  \* port -> buffers the client has given
    loadedResource,     \* port -> semaphore: the port became populated
    unloadedResource,   \* port -> semaphore: the port lost its last buffer
    held,               \* the resource manager lists the component
    codecOpen,          \* codec_componentInit succeeded, not terminated yet
    initialised,        \* buffer threads, their mutexes and events exist
    sending,            \* the command between its checks and its queueing
    messageQ,           \* commands queued and not taken
    handling,           \* the command the message handler works on
    hpc,                \* where the message handler is
    todo,               \* the ports it still has to visit
    event,              \* the last event given to the client
    abendState,         \* the destructor gave up a Loaded-to-Idle transition
    abendStateEvent,    \* the handler's acknowledgement of it
    fpc                 \* where OMX_FreeHandle is

flagVars   == <<transientState, portState, bIsPortDisabled, bIsPortFlushed>>
portVars   == <<bEnabled, bPopulated>>
bufferVars == <<assignedBufferNum, loadedResource, unloadedResource>>
ownedVars  == <<held, codecOpen, initialised>>
queueVars  == <<sending, messageQ>>
threadVars == <<handling, hpc, todo, event>>
freeVars   == <<abendState, abendStateEvent, fpc>>
vars == <<currentState, flagVars, portVars, bufferVars, ownedVars, queueVars,
          threadVars, freeVars>>

NoMessage == [cmd |-> "None", param |-> 0]
Message(cmd, param) == [cmd |-> cmd, param |-> param]
PortParams == Ports \cup {ALL_PORT_INDEX}
Messages ==
    {Message("StateSet", s) : s \in States}
        \cup {Message(c, p) : c \in Commands, p \in PortParams}
        \cup {Message("DeInit", 0)}

Complete(cmd, param) == <<"CmdComplete", cmd, param>>
Error(code) == <<"Error", code, 0>>
NoEvent == <<"None", "None", 0>>

\* The ports a command is for, in the order the code visits them.
AllPorts == [i \in 1 .. NumPorts |-> i - 1]
PortsOf(param) == IF param = ALL_PORT_INDEX THEN AllPorts ELSE <<param>>
InSeq(s) == {s[i] : i \in 1 .. Len(s)}

\* Accepted commands that have not been concluded, oldest first.
Pending == (IF handling # NoMessage THEN <<handling>> ELSE <<>>)
               \o messageQ
               \o (IF sending # NoMessage THEN <<sending>> ELSE <<>>)
Quiet == Pending = <<>>

Init ==
    /\ currentState = "Loaded"
    /\ transientState = "Invalid"
    /\ portState = [p \in Ports |-> "Max"]
    /\ bIsPortDisabled = [p \in Ports |-> FALSE]
    /\ bIsPortFlushed = [p \in Ports |-> FALSE]
    /\ bEnabled = [p \in Ports |-> TRUE]
    /\ bPopulated = [p \in Ports |-> FALSE]
    /\ assignedBufferNum = [p \in Ports |-> 0]
    /\ loadedResource = [p \in Ports |-> 0]
    /\ unloadedResource = [p \in Ports |-> 0]
    /\ held = FALSE /\ codecOpen = FALSE /\ initialised = FALSE
    /\ sending = NoMessage
    /\ messageQ = <<>>
    /\ handling = NoMessage
    /\ hpc = "wait"
    /\ todo = <<>>
    /\ event = NoEvent
    /\ abendState = FALSE
    /\ abendStateEvent = FALSE
    /\ fpc = "none"

-----------------------------------------------------------------------------
(* The client: Exynos_OMX_SendCommand.                                       *)

\* The client sends a command when it has room for one more and has not begun
\* to destroy the component.
ClientMaySend ==
    /\ fpc = "none"
    /\ sending = NoMessage
    /\ Len(Pending) < MaxPending

HoldsNoBuffers == \A p \in Ports : assignedBufferNum[p] = 0

\* Exynos_StateSet: announces the transition in the client's thread, from the
\* state the component has now.
SendStateSet(dest) ==
    /\ ClientMaySend
    /\ currentState # "Invalid"
    /\ currentState = "Loaded" /\ Quiet => HoldsNoBuffers
    /\ \/ /\ dest = "Idle" /\ currentState = "Loaded"
          /\ transientState' = "LoadedToIdle"
          /\ portState' = [p \in Ports |-> "Idle"]
       \/ /\ dest = "Loaded" /\ currentState = "Idle"
          /\ transientState' = "IdleToLoaded"
          /\ portState' = [p \in Ports |-> "Loaded"]
       \/ /\ dest = "Idle" /\ currentState = "Executing"
          /\ transientState' = "ExecutingToIdle"
          /\ UNCHANGED portState
       \/ /\ dest = "Executing" /\ currentState = "Idle"
          /\ transientState' = "IdleToExecuting"
          /\ UNCHANGED portState
       \/ /\ dest = "Invalid"
          /\ portState' = [p \in Ports |-> "Invalid"]
          /\ UNCHANGED transientState
       \/ /\ dest # "Invalid"
          /\ <<currentState, dest>> \notin
                 {<<"Loaded", "Idle">>, <<"Idle", "Loaded">>,
                  <<"Executing", "Idle">>, <<"Idle", "Executing">>}
          /\ UNCHANGED <<transientState, portState>>
    /\ sending' = Message("StateSet", dest)
    /\ UNCHANGED <<currentState, bIsPortDisabled, bIsPortFlushed, portVars,
                   bufferVars, ownedVars, messageQ, threadVars, freeVars>>

\* Exynos_SetPortFlush: refused unless the component is active.
SendFlush(param) ==
    /\ ClientMaySend
    /\ currentState \in {"Executing", "Pause"}
    /\ bIsPortFlushed' = [p \in Ports |->
           IF p \in InSeq(PortsOf(param)) THEN TRUE ELSE bIsPortFlushed[p]]
    /\ sending' = Message("Flush", param)
    /\ UNCHANGED <<currentState, transientState, portState, bIsPortDisabled,
                   portVars, bufferVars, ownedVars, messageQ, threadVars,
                   freeVars>>

\* The ports the loops of SetPortEnable and SetPortDisable reach before they
\* meet one of those in refused.
VisitedBefore(refused) == {p \in Ports : (0 .. p) \cap refused = {}}

EnabledPorts == {p \in Ports : bEnabled[p]}

\* Exynos_SetPortDisable.  For all ports it stops at the first port that is
\* already disabled, after it has changed the ones before; for one port there
\* is no such check.
SendPortDisable(param) ==
    LET visited == IF param = ALL_PORT_INDEX THEN VisitedBefore(Ports \ EnabledPorts)
                   ELSE {param}
        accepted == param # ALL_PORT_INDEX \/ visited = Ports
    IN  /\ ClientMaySend
        /\ currentState # "Invalid"
        /\ portState' = [p \in Ports |->
               IF p \in visited THEN "Loaded" ELSE portState[p]]
        /\ bIsPortDisabled' = [p \in Ports |->
               IF p \in visited THEN TRUE ELSE bIsPortDisabled[p]]
        /\ sending' = IF accepted THEN Message("PortDisable", param)
                      ELSE NoMessage
        /\ UNCHANGED <<currentState, transientState, bIsPortFlushed, portVars,
                       bufferVars, ownedVars, messageQ, threadVars, freeVars>>

\* Exynos_SetPortEnable: stops at the first port that is already enabled.
SendPortEnable(param) ==
    LET visited == IF param = ALL_PORT_INDEX THEN VisitedBefore(EnabledPorts)
                   ELSE {param} \ EnabledPorts
        accepted == IF param = ALL_PORT_INDEX THEN visited = Ports
                    ELSE visited # {}
    IN  /\ ClientMaySend
        /\ currentState # "Invalid"
        /\ portState' = [p \in Ports |->
               IF p \in visited THEN "Idle" ELSE portState[p]]
        /\ sending' = IF accepted THEN Message("PortEnable", param)
                      ELSE NoMessage
        /\ UNCHANGED <<currentState, transientState, bIsPortDisabled,
                       bIsPortFlushed, portVars, bufferVars, ownedVars,
                       messageQ, threadVars, freeVars>>

\* Exynos_OMX_CommandQueue: the command is queued, or dropped when the queue
\* is full; the flags set above stay as they are.  The semaphore counts the
\* queued messages, so posting it is part of the step.
CommandQueue ==
    /\ sending # NoMessage
    /\ messageQ' = IF Len(messageQ) < QueueCapacity
                   THEN Append(messageQ, sending) ELSE messageQ
    /\ sending' = NoMessage
    /\ UNCHANGED <<currentState, flagVars, portVars, bufferVars, ownedVars,
                   threadVars, freeVars>>

\* The commands whose port traffic the client is serving.
Asked(cmd, params) ==
    \E i \in 1 .. Len(Pending) :
        Pending[i].cmd = cmd /\ Pending[i].param \in params

\* The client gives port p buffers: on the way to Idle, or to enable it.
MayAssign(p) ==
    /\ fpc = "none" /\ sending = NoMessage
    /\ loadedResource[p] < MaxPosts
    /\ \/ currentState = "Loaded" /\ bEnabled[p] /\ Asked("StateSet", {"Idle"})
       \/ currentState # "Loaded" /\ Asked("PortEnable", {p, ALL_PORT_INDEX})

\* The client takes buffers back: on the way to Loaded, to disable the port,
\* or because the component reported that it could not reach Idle.
MayRelease(p) ==
    /\ fpc = "none" /\ sending = NoMessage
    /\ assignedBufferNum[p] > 0
    /\ unloadedResource[p] < MaxPosts
    /\ \/ currentState = "Idle" /\ bEnabled[p] /\ Asked("StateSet", {"Loaded"})
       \/ Asked("PortDisable", {p, ALL_PORT_INDEX})
       \/ Quiet /\ currentState \in {"Loaded", "Invalid"}

\* One more buffer, while a header is free; the last one populates the port
\* and wakes the handler.
Assign(p) ==
    LET full == assignedBufferNum[p] + 1 = nBufferCountActual[p]
    IN  /\ assignedBufferNum[p] < nBufferCountActual[p]
        /\ assignedBufferNum' = [assignedBufferNum EXCEPT ![p] = @ + 1]
        /\ bPopulated' = [bPopulated EXCEPT ![p] = @ \/ full]
        /\ loadedResource' =
               [loadedResource EXCEPT ![p] = IF full THEN @ + 1 ELSE @]
        /\ UNCHANGED <<currentState, flagVars, bEnabled, unloadedResource,
                       ownedVars, queueVars, threadVars, freeVars>>

UseBuffer(p) == MayAssign(p) /\ portState[p] = "Idle" /\ Assign(p)

\* AllocateBuffer does not test portState: the test is commented out.
AllocateBuffer(p) == MayAssign(p) /\ Assign(p)

\* Variant with a defect: every buffer freed posts the semaphore.
FreeBufferPostingAlways(p) ==
    LET none == assignedBufferNum[p] = 1
    IN  /\ MayRelease(p)
        /\ assignedBufferNum' = [assignedBufferNum EXCEPT ![p] = @ - 1]
        /\ unloadedResource' = [unloadedResource EXCEPT ![p] = @ + 1]
        /\ bPopulated' = [bPopulated EXCEPT ![p] = @ /\ ~none]
        /\ event' = IF portState[p] \in {"Loaded", "Invalid"} THEN event
                    ELSE Error("PortUnpopulated")
        /\ UNCHANGED <<currentState, flagVars, bEnabled, loadedResource,
                       ownedVars, queueVars, handling, hpc, todo, freeVars>>

\* A buffer freed while the port is not being unloaded is reported, and freed
\* all the same.
FreeBuffer(p) ==
    LET none == assignedBufferNum[p] = 1
    IN  /\ MayRelease(p)
        /\ assignedBufferNum' = [assignedBufferNum EXCEPT ![p] = @ - 1]
        /\ unloadedResource' =
               [unloadedResource EXCEPT ![p] = IF none THEN @ + 1 ELSE @]
        /\ bPopulated' = [bPopulated EXCEPT ![p] = @ /\ ~none]
        /\ event' = IF portState[p] \in {"Loaded", "Invalid"} THEN event
                    ELSE Error("PortUnpopulated")
        /\ UNCHANGED <<currentState, flagVars, bEnabled, loadedResource,
                       ownedVars, queueVars, handling, hpc, todo, freeVars>>

-----------------------------------------------------------------------------
(* The message handler thread.                                               *)

\* The command is concluded: the client gets event e.
Conclude(e) ==
    /\ event' = e
    /\ hpc' = "wait"
    /\ handling' = NoMessage
    /\ todo' = <<>>

TakeMessage ==
    /\ hpc = "wait"
    /\ messageQ # <<>>
    /\ handling' = Head(messageQ)
    /\ messageQ' = Tail(messageQ)
    /\ hpc' = Head(messageQ).cmd
    /\ todo' = IF Head(messageQ).cmd \in Commands
               THEN PortsOf(Head(messageQ).param) ELSE <<>>
    /\ UNCHANGED <<currentState, flagVars, portVars, bufferVars, ownedVars,
                   sending, event, freeVars>>

\* The handler starts on a transition from one of the states in from to dest.
Starts(from, dest) ==
    /\ hpc = "StateSet"
    /\ handling.param = dest
    /\ currentState \in from

\* Transitions ComponentStateSet refuses.
Refused == [Loaded |-> {"Executing", "Pause"},
            Idle |-> {"WaitForResources"},
            Executing |-> {"Loaded", "WaitForResources"},
            Pause |-> {"Loaded", "WaitForResources"},
            WaitForResources |-> {"Executing", "Pause"}]

RefuseTransition ==
    /\ hpc = "StateSet"
    /\ \/ /\ handling.param = currentState
          /\ Conclude(Error("SameState"))
       \/ /\ handling.param # currentState
          /\ currentState = "Invalid"
          /\ Conclude(Error("InvalidState"))
       \/ /\ currentState # "Invalid"
          /\ handling.param \in Refused[currentState]
          /\ Conclude(Error("IncorrectStateTransition"))
    /\ UNCHANGED <<currentState, flagVars, portVars, bufferVars, ownedVars,
                   queueVars, freeVars>>

\* Variant with a defect: the grant is not recorded.
LoadedToIdleUnrecorded ==
    /\ Starts({"Loaded"}, "Idle")
    /\ hpc' = "waitLoaded"
    /\ todo' = AllPorts
    /\ UNCHANGED <<currentState, flagVars, portVars, bufferVars, ownedVars,
                   queueVars, handling, event, freeVars>>

\* Loaded to Idle: the resource manager is asked first ...
LoadedToIdle ==
    /\ Starts({"Loaded"}, "Idle")
    /\ \/ /\ held' = TRUE
          /\ hpc' = "waitLoaded"
          /\ todo' = AllPorts
          /\ UNCHANGED <<handling, event>>
       \/ /\ "Get_Resource" \in Failures
          /\ Conclude(Error("InsufficientResources"))
          /\ UNCHANGED held
    /\ UNCHANGED <<currentState, flagVars, portVars, bufferVars, codecOpen,
                   initialised, queueVars, freeVars>>

\* Variant with a defect: the handler does not look whether the component is
\* being destroyed.
AwaitLoadedHeedless ==
    /\ hpc = "waitLoaded"
    /\ todo # <<>>
    /\ LET p == Head(todo)
       IN  \/ /\ ~bEnabled[p]
              /\ UNCHANGED <<bPopulated, loadedResource>>
           \/ /\ bEnabled[p] /\ loadedResource[p] > 0
              /\ loadedResource' = [loadedResource EXCEPT ![p] = @ - 1]
              /\ bPopulated' = [bPopulated EXCEPT ![p] = TRUE]
    /\ todo' = Tail(todo)
    /\ UNCHANGED <<currentState, flagVars, bEnabled, assignedBufferNum,
                   unloadedResource, ownedVars, queueVars, handling, hpc,
                   event, freeVars>>

\* ... then every enabled port must become populated; on being woken the
\* handler looks whether the component is being destroyed ...
AwaitLoaded ==
    /\ hpc = "waitLoaded"
    /\ todo # <<>>
    /\ LET p == Head(todo)
       IN  \/ /\ ~bEnabled[p]
              /\ todo' = Tail(todo)
              /\ UNCHANGED <<handling, hpc, event, bPopulated,
                             loadedResource, held, abendStateEvent>>
           \/ /\ bEnabled[p] /\ loadedResource[p] > 0 /\ ~abendState
              /\ loadedResource' = [loadedResource EXCEPT ![p] = @ - 1]
              /\ bPopulated' = [bPopulated EXCEPT ![p] = TRUE]
              /\ todo' = Tail(todo)
              /\ UNCHANGED <<handling, hpc, event, held, abendStateEvent>>
           \/ /\ bEnabled[p] /\ loadedResource[p] > 0 /\ abendState
              /\ loadedResource' = [loadedResource EXCEPT ![p] = @ - 1]
              /\ abendStateEvent' = TRUE
              /\ held' = FALSE
              /\ Conclude(Complete("StateSet", "Idle"))
              /\ UNCHANGED bPopulated
    /\ UNCHANGED <<currentState, flagVars, bEnabled, assignedBufferNum,
                   unloadedResource, codecOpen, initialised, queueVars,
                   abendState, fpc>>

\* ... then the codec is opened and the buffer threads are created.  A failure
\* ends the command with an error and undoes nothing but the objects made
\* beside the threads.
ReachIdle ==
    /\ hpc = "waitLoaded"
    /\ todo = <<>>
    /\ \/ /\ codecOpen' = TRUE
          /\ initialised' = TRUE
          /\ currentState' = "Idle"
          /\ Conclude(Complete("StateSet", "Idle"))
       \/ /\ "codec_componentInit" \in Failures
          /\ Conclude(Error("codec_componentInit"))
          /\ UNCHANGED <<codecOpen, initialised, currentState>>
       \/ /\ "BufferProcessCreate" \in Failures
          /\ codecOpen' = TRUE
          /\ Conclude(Error("InsufficientResources"))
          /\ UNCHANGED <<initialised, currentState>>
    /\ UNCHANGED <<flagVars, portVars, bufferVars, held, queueVars, freeVars>>

\* Idle to Loaded: the resource is given back first ...
IdleToLoaded ==
    /\ Starts({"Idle"}, "Loaded")
    /\ held' = FALSE
    /\ hpc' = "close"
    /\ UNCHANGED <<currentState, flagVars, portVars, bufferVars, codecOpen,
                   initialised, queueVars, handling, todo, event, freeVars>>

\* ... then the buffer threads and the codec that use it are closed ...
CloseDown ==
    /\ hpc = "close"
    /\ initialised' = FALSE
    /\ codecOpen' = FALSE
    /\ hpc' = "waitUnloaded"
    /\ todo' = AllPorts
    /\ UNCHANGED <<currentState, flagVars, portVars, bufferVars, held,
                   queueVars, handling, event, freeVars>>

\* ... then every enabled port must lose its last buffer.
AwaitUnloaded ==
    /\ hpc = "waitUnloaded"
    /\ \/ /\ todo # <<>>
          /\ LET p == Head(todo)
             IN  \/ /\ ~bEnabled[p]
                    /\ UNCHANGED <<unloadedResource, bPopulated>>
                 \/ /\ bEnabled[p] /\ unloadedResource[p] > 0
                    /\ unloadedResource' = [unloadedResource EXCEPT ![p] = @ - 1]
                    /\ bPopulated' = [bPopulated EXCEPT ![p] = FALSE]
          /\ todo' = Tail(todo)
          /\ UNCHANGED <<currentState, handling, hpc, event>>
       \/ /\ todo = <<>>
          /\ currentState' = "Loaded"
          /\ Conclude(Complete("StateSet", "Loaded"))
          /\ UNCHANGED <<unloadedResource, bPopulated>>
    /\ UNCHANGED <<flagVars, bEnabled, assignedBufferNum, loadedResource,
                   ownedVars, queueVars, freeVars>>

\* To Idle from an active state: both ports are flushed without an event.
ActiveToIdle ==
    /\ Starts({"Executing", "Pause"}, "Idle")
    /\ bIsPortFlushed' = [p \in Ports |-> FALSE]
    /\ currentState' = "Idle"
    /\ Conclude(Complete("StateSet", "Idle"))
    /\ UNCHANGED <<transientState, portState, bIsPortDisabled, portVars,
                   bufferVars, ownedVars, queueVars, freeVars>>

\* Variant with a defect: the transition is never marked as over.
ToExecutingUnmarked ==
    /\ Starts({"Idle", "Pause"}, "Executing")
    /\ currentState' = "Executing"
    /\ Conclude(Complete("StateSet", "Executing"))
    /\ UNCHANGED <<flagVars, portVars, bufferVars, ownedVars, queueVars,
                   freeVars>>

\* Variant with a defect: the states it may start from are not tested.
ToExecutingFromAnywhere ==
    /\ Starts(States \ {"Invalid", "Executing"}, "Executing")
    /\ transientState' = "Max"
    /\ currentState' = "Executing"
    /\ Conclude(Complete("StateSet", "Executing"))
    /\ UNCHANGED <<portState, bIsPortDisabled, bIsPortFlushed, portVars,
                   bufferVars, ownedVars, queueVars, freeVars>>

\* To Executing: only the transition from Idle resets transientState.
ToExecuting ==
    /\ Starts({"Idle", "Pause"}, "Executing")
    /\ transientState' = IF currentState = "Idle" THEN "Max"
                         ELSE transientState
    /\ currentState' = "Executing"
    /\ Conclude(Complete("StateSet", "Executing"))
    /\ UNCHANGED <<portState, bIsPortDisabled, bIsPortFlushed, portVars,
                   bufferVars, ownedVars, queueVars, freeVars>>

ToPause ==
    /\ Starts({"Idle", "Executing"}, "Pause")
    /\ currentState' = "Pause"
    /\ Conclude(Complete("StateSet", "Pause"))
    /\ UNCHANGED <<flagVars, portVars, bufferVars, ownedVars, queueVars,
                   freeVars>>

\* Into and out of the resource manager's waiting list.  The way to Idle does
\* none of the work that the way from Loaded does.
Waiting ==
    /\ \/ Starts({"Loaded"}, "WaitForResources")
       \/ Starts({"WaitForResources"}, "Loaded")
       \/ Starts({"WaitForResources"}, "Idle")
    /\ currentState' = handling.param
    /\ Conclude(Complete("StateSet", handling.param))
    /\ UNCHANGED <<flagVars, portVars, bufferVars, ownedVars, queueVars,
                   freeVars>>

\* To Invalid: the resource is given back, but only from Idle, Executing and
\* Pause, and the state is changed, which ends the buffer threads ...
ToInvalid ==
    /\ Starts(States \ {"Invalid"}, "Invalid")
    /\ held' = (held /\ currentState \in {"Loaded", "WaitForResources"})
    /\ currentState' = "Invalid"
    /\ hpc' = "closeInvalid"
    /\ UNCHANGED <<flagVars, portVars, bufferVars, codecOpen, initialised,
                   queueVars, handling, todo, event, freeVars>>

\* ... then everything is closed, and the command ends with an error.
CloseInvalid ==
    /\ hpc = "closeInvalid"
    /\ codecOpen' = FALSE
    /\ initialised' = FALSE
    /\ Conclude(Error("InvalidState"))
    /\ UNCHANGED <<currentState, flagVars, portVars, bufferVars, held,
                   queueVars, freeVars>>

\* BufferFlushProcess: one port after another, an event for each.
Flush ==
    /\ hpc = "Flush"
    /\ bIsPortFlushed' = [bIsPortFlushed EXCEPT ![Head(todo)] = FALSE]
    /\ \/ /\ Len(todo) > 1
          /\ todo' = Tail(todo)
          /\ event' = Complete("Flush", Head(todo))
          /\ UNCHANGED <<handling, hpc>>
       \/ /\ Len(todo) = 1
          /\ Conclude(Complete("Flush", Head(todo)))
    /\ UNCHANGED <<currentState, transientState, portState, bIsPortDisabled,
                   portVars, bufferVars, ownedVars, queueVars, freeVars>>

\* One port of the command is done.
PortDone ==
    \/ /\ Len(todo) > 1
       /\ todo' = Tail(todo)
       /\ event' = Complete(handling.cmd, Head(todo))
       /\ UNCHANGED <<handling, hpc>>
    \/ /\ Len(todo) = 1
       /\ Conclude(Complete(handling.cmd, Head(todo)))

\* EnablePort, of the port at the head of todo.  A component that has its
\* resources waits until the port is populated.
EnablePort ==
    /\ hpc = "PortEnable"
    /\ LET p == Head(todo)
           waits == currentState \notin {"Loaded", "WaitForResources"}
       IN  /\ waits => loadedResource[p] > 0
           /\ loadedResource' = [loadedResource EXCEPT ![p] =
                  IF waits THEN @ - 1 ELSE @]
           /\ bPopulated' = [bPopulated EXCEPT ![p] = @ \/ waits]
           /\ bEnabled' = [bEnabled EXCEPT ![p] = TRUE]
    /\ PortDone
    /\ UNCHANGED <<currentState, flagVars, assignedBufferNum,
                   unloadedResource, ownedVars, queueVars, freeVars>>

\* PortDisableProcess first flushes every port of the command ...
FlushToDisable ==
    /\ hpc = "PortDisable"
    /\ bIsPortFlushed' = [p \in Ports |->
           IF p \in InSeq(todo) THEN FALSE ELSE bIsPortFlushed[p]]
    /\ hpc' = "disable"
    /\ UNCHANGED <<currentState, transientState, portState, bIsPortDisabled,
                   portVars, bufferVars, ownedVars, queueVars, handling,
                   todo, event, freeVars>>

\* ... then runs DisablePort on each, which marks the port unpopulated ...
DisablePort ==
    /\ hpc = "disable"
    /\ LET p == Head(todo)
       IN  IF bEnabled[p] /\ currentState # "Loaded"
           THEN /\ bPopulated' = [bPopulated EXCEPT ![p] = FALSE]
                /\ hpc' = "disableWait"
                /\ UNCHANGED <<bEnabled, bIsPortDisabled, handling, todo,
                               event>>
           ELSE /\ bEnabled' = [bEnabled EXCEPT ![p] = FALSE]
                /\ bIsPortDisabled' = [bIsPortDisabled EXCEPT ![p] = FALSE]
                /\ PortDone
                /\ UNCHANGED bPopulated
    /\ UNCHANGED <<currentState, transientState, portState, bIsPortFlushed,
                   bufferVars, ownedVars, queueVars, freeVars>>

\* ... and waits for its last buffer to be freed.
DisableWait ==
    /\ hpc = "disableWait"
    /\ LET p == Head(todo)
       IN  /\ unloadedResource[p] > 0
           /\ unloadedResource' = [unloadedResource EXCEPT ![p] = @ - 1]
           /\ bEnabled' = [bEnabled EXCEPT ![p] = FALSE]
           /\ bIsPortDisabled' = [bIsPortDisabled EXCEPT ![p] = FALSE]
           /\ IF Len(todo) > 1
              THEN /\ todo' = Tail(todo)
                   /\ event' = Complete("PortDisable", p)
                   /\ hpc' = "disable"
                   /\ UNCHANGED handling
              ELSE Conclude(Complete("PortDisable", p))
    /\ UNCHANGED <<currentState, transientState, portState, bIsPortFlushed,
                   bPopulated, assignedBufferNum, loadedResource, ownedVars,
                   queueVars, freeVars>>

-----------------------------------------------------------------------------
(* OMX_FreeHandle: ComponentDeInit of the video decoder, Port_Destructor and *)
(* BaseComponent_Destructor, in the client's thread.                         *)

\* The client frees the handle in the Loaded or Invalid state with nothing
\* outstanding and no buffer left, or gives up a transition to Idle that
\* waits for buffers it has not assigned.
ClientMayFree ==
    /\ fpc = "none"
    /\ sending = NoMessage
    /\ \/ Quiet /\ currentState \in {"Loaded", "Invalid"} /\ HoldsNoBuffers
       \/ /\ Pending = <<Message("StateSet", "Idle")>>
          /\ currentState = "Loaded"
          /\ \E p \in Ports :
                 bEnabled[p] /\ assignedBufferNum[p] < nBufferCountActual[p]

\* Port_Destructor concludes from transientState that the handler waits for
\* buffers, wakes it and waits for its answer.
FreeHandle ==
    /\ ClientMayFree
    /\ \/ /\ transientState = "LoadedToIdle"
          /\ abendState' = TRUE
          /\ loadedResource' = [p \in Ports |-> loadedResource[p] + 1]
          /\ fpc' = "waitAbend"
       \/ /\ transientState # "LoadedToIdle"
          /\ fpc' = "destroy"
          /\ UNCHANGED <<abendState, loadedResource>>
    /\ UNCHANGED <<currentState, flagVars, portVars, assignedBufferNum,
                   unloadedResource, ownedVars, queueVars, threadVars,
                   abendStateEvent>>

AbendAcknowledged ==
    /\ fpc = "waitAbend"
    /\ abendStateEvent
    /\ abendStateEvent' = FALSE
    /\ fpc' = "destroy"
    /\ UNCHANGED <<currentState, flagVars, portVars, bufferVars, ownedVars,
                   queueVars, threadVars, abendState>>

\* The ports are gone; the handler is sent its last message and joined.
BaseComponent_Destructor ==
    /\ fpc = "destroy"
    /\ messageQ' = Append(messageQ, Message("DeInit", 0))
    /\ fpc' = "join"
    /\ UNCHANGED <<currentState, flagVars, portVars, bufferVars, ownedVars,
                   sending, threadVars, abendState, abendStateEvent>>

DeInit ==
    /\ hpc = "DeInit"
    /\ hpc' = "exit"
    /\ handling' = NoMessage
    /\ UNCHANGED <<currentState, flagVars, portVars, bufferVars, ownedVars,
                   queueVars, todo, event, freeVars>>

FreeHandleReturns ==
    /\ fpc = "join"
    /\ hpc = "exit"
    /\ fpc' = "freed"
    /\ UNCHANGED <<currentState, flagVars, portVars, bufferVars, ownedVars,
                   queueVars, threadVars, abendState, abendStateEvent>>

-----------------------------------------------------------------------------
SendCommand ==
    \/ \E s \in Targets : SendStateSet(s)
    \/ \E p \in PortParams :
           \/ "Flush" \in Commands /\ SendFlush(p)
           \/ "PortDisable" \in Commands /\ SendPortDisable(p)
           \/ "PortEnable" \in Commands /\ SendPortEnable(p)

Handler ==
    \/ TakeMessage
    \/ RefuseTransition
    \/ LoadedToIdle \/ AwaitLoaded \/ ReachIdle
    \/ IdleToLoaded \/ CloseDown \/ AwaitUnloaded
    \/ ActiveToIdle \/ ToExecuting \/ ToPause \/ Waiting
    \/ ToInvalid \/ CloseInvalid
    \/ Flush
    \/ EnablePort
    \/ FlushToDisable \/ DisablePort \/ DisableWait
    \/ DeInit

Freeing == \/ FreeHandle \/ AbendAcknowledged
           \/ BaseComponent_Destructor \/ FreeHandleReturns

Next ==
    \/ SendCommand
    \/ CommandQueue
    \/ \E p \in Ports : UseBuffer(p) \/ AllocateBuffer(p) \/ FreeBuffer(p)
    \/ Handler
    \/ Freeing

Spec == Init /\ [][Next]_vars

\* The handler is a thread that runs whenever it is not blocked; a call the
\* client has begun goes on; the client supplies and takes back the buffers
\* the command it sent needs.  It need not ever send a command.
Fairness ==
    /\ WF_vars(Handler)
    /\ WF_vars(CommandQueue)
    /\ \A p \in Ports : WF_vars(AllocateBuffer(p)) /\ WF_vars(FreeBuffer(p))
    /\ WF_vars(AbendAcknowledged)
    /\ WF_vars(BaseComponent_Destructor)
    /\ WF_vars(FreeHandleReturns)

FairSpec == Spec /\ Fairness

-----------------------------------------------------------------------------
TypeOK ==
    /\ currentState \in States
    /\ transientState \in TransientStates
    /\ portState \in [Ports -> PortStates]
    /\ bIsPortDisabled \in [Ports -> BOOLEAN]
    /\ bIsPortFlushed \in [Ports -> BOOLEAN]
    /\ bEnabled \in [Ports -> BOOLEAN]
    /\ bPopulated \in [Ports -> BOOLEAN]
    /\ assignedBufferNum \in [Ports -> Nat]
    /\ \A p \in Ports : assignedBufferNum[p] <= nBufferCountActual[p]
    /\ loadedResource \in [Ports -> Nat]
    /\ unloadedResource \in [Ports -> Nat]
    /\ held \in BOOLEAN /\ codecOpen \in BOOLEAN /\ initialised \in BOOLEAN
    /\ sending \in Messages \cup {NoMessage}
    /\ messageQ \in Seq(Messages)
    /\ handling \in Messages \cup {NoMessage}
    /\ hpc \in {"wait", "StateSet", "waitLoaded", "close", "closeInvalid",
                "waitUnloaded", "Flush", "PortEnable", "PortDisable",
                "disable", "disableWait", "DeInit", "exit"}
    /\ todo \in Seq(Ports)
    /\ abendState \in BOOLEAN /\ abendStateEvent \in BOOLEAN
    /\ fpc \in {"none", "waitAbend", "destroy", "join", "freed"}

Active == {"Idle", "Executing", "Pause"}

\* When no command is outstanding, a component that has left Loaded has all
\* the buffers of every enabled port and none of a disabled one, and
\* bPopulated says so.  The handler and the client each write bPopulated.
PopulatedWhenActive ==
    Quiet /\ currentState \in Active =>
        \A p \in Ports :
            /\ bEnabled[p] => assignedBufferNum[p] = nBufferCountActual[p]
            /\ ~bEnabled[p] => assignedBufferNum[p] = 0
            /\ bPopulated[p] <=> bEnabled[p]

\* The posts of the buffer calls and the waits of the handler match: when no
\* command is outstanding, no semaphore holds a post that a later transition
\* would take for its own.
NoStalePost ==
    Quiet /\ fpc = "none" =>
        \A p \in Ports : loadedResource[p] = 0 /\ unloadedResource[p] = 0

\* A component at rest in Loaded has given everything back
\* (OMX_Core.h:77-80 for a transition to Idle that failed).
LoadedHoldsNothing ==
    Quiet /\ currentState = "Loaded" => ~held /\ ~codecOpen /\ ~initialised

\* A component at rest in Idle, Executing or Pause has its hardware resource,
\* its codec and its buffer threads (OMX_Core.h:102-104).
ActiveIsInitialised ==
    Quiet /\ currentState \in Active => held /\ codecOpen /\ initialised

\* At rest the resource, the codec and the threads go with the state.
HeldMatchesState == LoadedHoldsNothing /\ ActiveIsInitialised

\* Check_BufferProcess_State: whether the buffer threads work.
BufferProcessRuns ==
    /\ currentState = "Executing"
    /\ transientState # "IdleToExecuting"
    /\ transientState # "ExecutingToIdle"

\* A component at rest in Executing processes data (OMX_Core.h:105-106).
ExecutingProcesses ==
    Quiet /\ currentState = "Executing" => BufferProcessRuns

\* Whenever no command is outstanding the pieces that the client's thread and
\* the handler change apart agree: the buffers and bPopulated of each port,
\* the posts of the buffer calls, and in Executing the buffer threads run.
RestIsConsistent ==
    /\ TypeOK
    /\ PopulatedWhenActive
    /\ NoStalePost
    /\ ExecutingProcesses

ErrorCodes == {"SameState", "InvalidState", "IncorrectStateTransition",
               "InsufficientResources", "codec_componentInit",
               "PortUnpopulated"}

Promise == INSTANCE OmxCommands
    WITH state <- currentState, queue <- messageQ, current <- handling,
         abandoned <- abendState, PortCommands <- Commands,
         Errors <- {Error(code) : code \in ErrorCodes}

\* The component keeps the promise of OmxCommands, whatever the order in
\* which the client's thread, the message handler and the destructor run and
\* whatever fails: the events tell the truth about the state, and the state
\* moves only along the OpenMAX state graph.
KeepsPromise == Promise!Spec

Unfinished == ~Quiet \/ fpc \notin {"none", "freed"}

\* Every command that is accepted is concluded, and OMX_FreeHandle returns
\* (OMX_Core.h, OMX_SendCommand and OMX_FreeHandle).
CommandConcludes == Unfinished ~> ~Unfinished
=============================================================================
