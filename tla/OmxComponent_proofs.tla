------------------------- MODULE OmxComponent_proofs -------------------------
(* The component keeps the types of its state and the promise of OmxCommands *)
(* for every number of ports and buffers, every client within its bounds and *)
(* every choice of what fails; and it is consistent at rest when its client  *)
(* sends one command at a time and nothing fails.  The queue that it takes   *)
(* its commands and buffers from is a bounded first-in first-out queue, and  *)
(* the audio decoder's thread, client and handler keep every buffer.         *)
EXTENDS OsalQueue, MCComponentAndAudio, Functions, FiniteSetTheorems, SequenceTheorems, TLAPS

-----------------------------------------------------------------------------
(* Facts about the constants.                                                *)

\* What a command holds, read from its cmd.
LEMMA MessagesFacts ==
    ASSUME NEW m \in Messages
    PROVE  /\ m.cmd \in {"StateSet", "DeInit", "Flush", "PortDisable",
                         "PortEnable"}
           /\ m.cmd = "StateSet" => m.param \in States
           /\ m.cmd \in {"Flush", "PortDisable", "PortEnable"} =>
                  m.cmd \in Commands /\ m.param \in PortParams
           /\ m # NoMessage
  BY OmxComponentAssumption DEF Messages, Message, NoMessage

\* The list of ports of a port command is a non-empty sequence of ports.
LEMMA PortsOfFacts ==
    /\ AllPorts \in Seq(Ports)
    /\ \A param \in PortParams : PortsOf(param) \in Seq(Ports) /\ PortsOf(param) # <<>>
<1>1. AllPorts \in Seq(Ports) /\ Len(AllPorts) = NumPorts
  BY OmxComponentAssumption DEF AllPorts, Ports
<1>2. AllPorts # <<>>
  BY <1>1, OmxComponentAssumption
<1> QED BY <1>1, <1>2 DEF PortsOf, PortParams

-----------------------------------------------------------------------------
(* The inductive invariant.                                                  *)

StateSetPlaces == {"StateSet", "waitLoaded", "close", "waitUnloaded",
                   "closeInvalid"}
DisablePlaces == {"PortDisable", "disable", "disableWait"}
PortPlaces == {"Flush", "PortEnable"} \cup DisablePlaces

\* Where the message handler is tells which command it works on, and in the
\* middle of a transition which state the component is still in.
HandlerInv ==
    /\ hpc = "wait" => handling = NoMessage
    /\ hpc \in StateSetPlaces => handling.cmd = "StateSet"
    /\ hpc = "waitLoaded" => handling.param = "Idle" /\ currentState = "Loaded"
    /\ hpc \in {"close", "waitUnloaded"} =>
           handling.param = "Loaded" /\ currentState = "Idle"
    /\ hpc = "closeInvalid" => currentState = "Invalid"
    /\ hpc = "Flush" => handling.cmd = "Flush"
    /\ hpc = "PortEnable" => handling.cmd = "PortEnable"
    /\ hpc \in DisablePlaces => handling.cmd = "PortDisable"
    /\ hpc \in PortPlaces => todo # <<>> /\ handling.cmd \in Commands
    /\ hpc = "DeInit" => handling.cmd = "DeInit"

IInv == TypeOK /\ HandlerInv

\* The constructed component satisfies the invariant.
LEMMA InitIInv == Init => IInv
<1> SUFFICES ASSUME Init PROVE IInv
  OBVIOUS
<1>1. /\ portState \in [Ports -> PortStates]
      /\ bIsPortDisabled \in [Ports -> BOOLEAN]
      /\ bIsPortFlushed \in [Ports -> BOOLEAN]
      /\ bEnabled \in [Ports -> BOOLEAN]
      /\ bPopulated \in [Ports -> BOOLEAN]
  BY DEF Init, PortStates
<1>2. /\ assignedBufferNum \in [Ports -> Nat]
      /\ \A p \in Ports : assignedBufferNum[p] <= nBufferCountActual[p]
      /\ loadedResource \in [Ports -> Nat]
      /\ unloadedResource \in [Ports -> Nat]
  BY OmxComponentAssumption DEF Init
<1>3. /\ currentState \in States /\ transientState \in TransientStates
      /\ held \in BOOLEAN /\ codecOpen \in BOOLEAN /\ initialised \in BOOLEAN
      /\ sending = NoMessage /\ messageQ = <<>> /\ handling = NoMessage
      /\ hpc = "wait" /\ todo = <<>>
      /\ abendState \in BOOLEAN /\ abendStateEvent \in BOOLEAN /\ fpc = "none"
  BY DEF Init, States, TransientStates
<1>4. TypeOK
  BY <1>1, <1>2, <1>3 DEF TypeOK
<1>5. HandlerInv
  BY <1>3 DEF HandlerInv, StateSetPlaces, DisablePlaces, PortPlaces
<1> QED BY <1>4, <1>5 DEF IInv

-----------------------------------------------------------------------------
(* The steps of the client.                                                  *)

\* OMX_SendCommand up to its queueing, by command.
LEMMA SendCommandIInv ==
    ASSUME IInv, SendCommand
    PROVE  IInv'
<1> USE OmxComponentAssumption DEF IInv
<1>1. ASSUME NEW s \in Targets, SendStateSet(s)
      PROVE  IInv'
  <2>1. HandlerInv'
    BY <1>1 DEF SendStateSet, HandlerInv, threadVars
  <2>2. sending' \in Messages
    BY <1>1 DEF SendStateSet, Messages
  <2>3. transientState' \in TransientStates /\ portState' \in [Ports -> PortStates]
    BY <1>1 DEF SendStateSet, TypeOK, TransientStates, PortStates
  <2>4. TypeOK'
    BY <1>1, <2>2, <2>3
    DEF SendStateSet, TypeOK, portVars, bufferVars, ownedVars, threadVars,
        freeVars
  <2> QED BY <2>1, <2>4
<1>2. ASSUME NEW p \in PortParams, "Flush" \in Commands, SendFlush(p)
      PROVE  IInv'
  <2>1. HandlerInv'
    BY <1>2 DEF SendFlush, HandlerInv, threadVars
  <2>2. sending' \in Messages
    BY <1>2 DEF SendFlush, Messages
  <2>3. bIsPortFlushed' \in [Ports -> BOOLEAN]
    BY <1>2 DEF SendFlush, TypeOK
  <2>4. UNCHANGED <<currentState, transientState, portState, bIsPortDisabled,
                    portVars, bufferVars, ownedVars, messageQ, threadVars,
                    freeVars>>
    BY <1>2 DEF SendFlush
  <2>5. TypeOK'
    BY <2>2, <2>3, <2>4
    DEF TypeOK, portVars, bufferVars, ownedVars, threadVars, freeVars
  <2> QED BY <2>1, <2>5
<1>3. ASSUME NEW p \in PortParams, "PortDisable" \in Commands,
             SendPortDisable(p)
      PROVE  IInv'
  <2>1. HandlerInv'
    BY <1>3 DEF SendPortDisable, HandlerInv, threadVars
  <2>2. sending' \in Messages \cup {NoMessage}
    BY <1>3 DEF SendPortDisable, Messages
  <2>3. portState' \in [Ports -> PortStates]
        /\ bIsPortDisabled' \in [Ports -> BOOLEAN]
    BY <1>3 DEF SendPortDisable, TypeOK, PortStates
  <2>4. UNCHANGED <<currentState, transientState, bIsPortFlushed, portVars,
                    bufferVars, ownedVars, messageQ, threadVars, freeVars>>
    BY <1>3 DEF SendPortDisable
  <2>5. TypeOK'
    BY <2>2, <2>3, <2>4
    DEF TypeOK, portVars, bufferVars, ownedVars, threadVars, freeVars
  <2> QED BY <2>1, <2>5
<1>4. ASSUME NEW p \in PortParams, "PortEnable" \in Commands,
             SendPortEnable(p)
      PROVE  IInv'
  <2>1. HandlerInv'
    BY <1>4 DEF SendPortEnable, HandlerInv, threadVars
  <2>2. sending' \in Messages \cup {NoMessage}
    BY <1>4 DEF SendPortEnable, Messages
  <2>3. portState' \in [Ports -> PortStates]
    BY <1>4 DEF SendPortEnable, TypeOK, PortStates
  <2>4. UNCHANGED <<currentState, transientState, bIsPortDisabled,
                    bIsPortFlushed, portVars, bufferVars, ownedVars, messageQ,
                    threadVars, freeVars>>
    BY <1>4 DEF SendPortEnable
  <2>5. TypeOK'
    BY <2>2, <2>3, <2>4
    DEF TypeOK, portVars, bufferVars, ownedVars, threadVars, freeVars
  <2> QED BY <2>1, <2>5
<1> QED BY <1>1, <1>2, <1>3, <1>4 DEF SendCommand

\* Queueing the command, or dropping it.
LEMMA CommandQueueIInv ==
    ASSUME IInv, CommandQueue
    PROVE  IInv'
<1>1. sending \in Messages
  BY DEF IInv, TypeOK, CommandQueue
<1>2. messageQ' \in Seq(Messages) /\ sending' = NoMessage
  BY <1>1 DEF IInv, TypeOK, CommandQueue
<1>3. UNCHANGED <<currentState, flagVars, portVars, bufferVars, ownedVars,
                  threadVars, freeVars>>
  BY DEF CommandQueue
<1>4. TypeOK'
  BY <1>2, <1>3
  DEF IInv, TypeOK, flagVars, portVars, bufferVars, ownedVars, threadVars,
      freeVars
<1>5. HandlerInv'
  BY <1>3 DEF IInv, HandlerInv, threadVars
<1> QED BY <1>4, <1>5 DEF IInv

\* UseBuffer and AllocateBuffer.
LEMMA AssignIInv ==
    ASSUME NEW p \in Ports, IInv, Assign(p)
    PROVE  IInv'
<1>1. /\ assignedBufferNum' \in [Ports -> Nat]
      /\ \A q \in Ports : assignedBufferNum'[q] <= nBufferCountActual[q]
  <2>1. /\ assignedBufferNum' =
               [assignedBufferNum EXCEPT ![p] = assignedBufferNum[p] + 1]
        /\ assignedBufferNum[p] < nBufferCountActual[p]
    BY DEF Assign
  <2>2. /\ assignedBufferNum \in [Ports -> Nat]
        /\ nBufferCountActual \in [Ports -> Nat]
        /\ \A q \in Ports : assignedBufferNum[q] <= nBufferCountActual[q]
    BY OmxComponentAssumption DEF IInv, TypeOK
  <2> QED BY <2>1, <2>2
<1>2. bPopulated' \in [Ports -> BOOLEAN] /\ loadedResource' \in [Ports -> Nat]
  <2>1. bPopulated \in [Ports -> BOOLEAN] /\ loadedResource \in [Ports -> Nat]
    BY DEF IInv, TypeOK
  <2>2. PICK full \in BOOLEAN :
            /\ bPopulated' = [bPopulated EXCEPT ![p] = bPopulated[p] \/ full]
            /\ loadedResource' = [loadedResource EXCEPT ![p] =
                                     IF full THEN loadedResource[p] + 1
                                     ELSE loadedResource[p]]
    BY Zenon DEF Assign
  <2>3. bPopulated' \in [Ports -> BOOLEAN]
    BY <2>1, <2>2, Zenon
  <2>4. loadedResource' \in [Ports -> Nat]
    BY <2>1, <2>2
  <2> QED BY <2>3, <2>4
<1>3. UNCHANGED <<currentState, flagVars, bEnabled, unloadedResource,
                  ownedVars, queueVars, threadVars, freeVars>>
  BY DEF Assign
<1>4. TypeOK'
  <2>1. /\ currentState' \in States /\ transientState' \in TransientStates
        /\ portState' \in [Ports -> PortStates]
        /\ bIsPortDisabled' \in [Ports -> BOOLEAN] /\ bIsPortFlushed' \in [Ports -> BOOLEAN]
        /\ bEnabled' \in [Ports -> BOOLEAN] /\ unloadedResource' \in [Ports -> Nat]
    BY <1>3 DEF IInv, TypeOK, flagVars
  <2>2. /\ held' = held /\ codecOpen' = codecOpen /\ initialised' = initialised
        /\ UNCHANGED <<sending, messageQ, handling, hpc, todo, abendState, abendStateEvent, fpc>>
    BY <1>3 DEF ownedVars, queueVars, threadVars, freeVars
  <2>3. TypeOK
    BY DEF IInv
  <2>4. /\ held' \in BOOLEAN /\ codecOpen' \in BOOLEAN /\ initialised' \in BOOLEAN
        /\ sending' \in Messages \cup {NoMessage} /\ messageQ' \in Seq(Messages)
        /\ handling' \in Messages \cup {NoMessage} /\ todo' \in Seq(Ports)
        /\ abendState' \in BOOLEAN /\ abendStateEvent' \in BOOLEAN
    BY <2>2, <2>3 DEF TypeOK
  <2>5. /\ hpc' \in {"wait", "StateSet", "waitLoaded", "close", "closeInvalid",
                     "waitUnloaded", "Flush", "PortEnable", "PortDisable",
                     "disable", "disableWait", "DeInit", "exit"}
        /\ fpc' \in {"none", "waitAbend", "destroy", "join", "freed"}
    BY <2>2, <2>3 DEF TypeOK
  <2> QED
    BY <1>1, <1>2, <2>1, <2>4, <2>5, Zenon DEF TypeOK
<1>5. HandlerInv'
  BY <1>3 DEF IInv, HandlerInv, threadVars
<1> QED BY <1>4, <1>5 DEF IInv

\* FreeBuffer only ever frees a buffer that was counted.
LEMMA FreeBufferIInv ==
    ASSUME NEW p \in Ports, IInv, FreeBuffer(p)
    PROVE  IInv'
<1>1. /\ assignedBufferNum' \in [Ports -> Nat]
      /\ \A q \in Ports : assignedBufferNum'[q] <= nBufferCountActual[q]
  <2>1. /\ assignedBufferNum' =
               [assignedBufferNum EXCEPT ![p] = assignedBufferNum[p] - 1]
        /\ assignedBufferNum[p] > 0
    BY DEF FreeBuffer, MayRelease
  <2>2. /\ assignedBufferNum \in [Ports -> Nat]
        /\ nBufferCountActual \in [Ports -> Nat]
        /\ \A q \in Ports : assignedBufferNum[q] <= nBufferCountActual[q]
    BY OmxComponentAssumption DEF IInv, TypeOK
  <2> QED BY <2>1, <2>2
<1>2. bPopulated' \in [Ports -> BOOLEAN] /\ unloadedResource' \in [Ports -> Nat]
  <2>1. bPopulated \in [Ports -> BOOLEAN] /\ unloadedResource \in [Ports -> Nat]
    BY DEF IInv, TypeOK
  <2>2. PICK none \in BOOLEAN :
            /\ bPopulated' = [bPopulated EXCEPT ![p] = bPopulated[p] /\ ~none]
            /\ unloadedResource' = [unloadedResource EXCEPT ![p] =
                                       IF none THEN unloadedResource[p] + 1
                                       ELSE unloadedResource[p]]
    BY Zenon DEF FreeBuffer
  <2>3. bPopulated' \in [Ports -> BOOLEAN]
    BY <2>1, <2>2, Zenon
  <2>4. unloadedResource' \in [Ports -> Nat]
    BY <2>1, <2>2
  <2> QED BY <2>3, <2>4
<1>3. UNCHANGED <<currentState, flagVars, bEnabled, loadedResource, ownedVars,
                  queueVars, handling, hpc, todo, freeVars>>
  BY DEF FreeBuffer
<1>4. TypeOK'
  BY <1>1, <1>2, <1>3
  DEF IInv, TypeOK, flagVars, ownedVars, queueVars, freeVars
<1>5. HandlerInv'
  BY <1>3 DEF IInv, HandlerInv
<1> QED BY <1>4, <1>5 DEF IInv

\* OMX_FreeHandle.
LEMMA FreeingIInv ==
    ASSUME IInv, Freeing
    PROVE  IInv'
<1>1. UNCHANGED <<currentState, flagVars, portVars, assignedBufferNum,
                  unloadedResource, ownedVars, sending, threadVars>>
  BY DEF Freeing, FreeHandle, AbendAcknowledged, BaseComponent_Destructor,
         FreeHandleReturns, bufferVars, queueVars
<1>2. messageQ' \in Seq(Messages)
  <2>1. \/ messageQ' = Append(messageQ, Message("DeInit", 0))
        \/ UNCHANGED messageQ
    BY DEF Freeing, FreeHandle, AbendAcknowledged, BaseComponent_Destructor,
           FreeHandleReturns, queueVars
  <2>2. Message("DeInit", 0) \in Messages
    BY DEF Messages
  <2>3. messageQ \in Seq(Messages)
    BY DEF IInv, TypeOK
  <2> QED BY <2>1, <2>2, <2>3
<1>3. loadedResource' \in [Ports -> Nat]
  <2>1. \/ loadedResource' = [p \in Ports |-> loadedResource[p] + 1]
        \/ UNCHANGED loadedResource
    BY DEF Freeing, FreeHandle, AbendAcknowledged, BaseComponent_Destructor,
           FreeHandleReturns, bufferVars
  <2> QED BY <2>1 DEF IInv, TypeOK
<1>4. /\ abendState' \in BOOLEAN /\ abendStateEvent' \in BOOLEAN
      /\ fpc' \in {"none", "waitAbend", "destroy", "join", "freed"}
  BY DEF Freeing, FreeHandle, AbendAcknowledged, BaseComponent_Destructor,
         FreeHandleReturns, IInv, TypeOK
<1>5. TypeOK'
  BY <1>1, <1>2, <1>3, <1>4
  DEF IInv, TypeOK, flagVars, portVars, ownedVars, threadVars
<1>6. HandlerInv'
  BY <1>1 DEF IInv, HandlerInv, threadVars
<1> QED BY <1>5, <1>6 DEF IInv
-----------------------------------------------------------------------------
(* The steps of the message handler.                                         *)

\* What the command being handled is, from where the handler is.
LEMMA HandlingFacts ==
    ASSUME IInv, hpc \notin {"wait", "exit"}
    PROVE  /\ handling \in Messages /\ handling # NoMessage
           /\ hpc \in StateSetPlaces => handling.param \in States
           /\ hpc \in PortPlaces => /\ Head(todo) \in Ports
                                    /\ Tail(todo) \in Seq(Ports)
                                    /\ Len(todo) > 1 => Tail(todo) # <<>>
                                    /\ Len(todo) # 1 => Len(todo) > 1
<1>1. handling.cmd # "None"
  BY DEF IInv, TypeOK, HandlerInv, StateSetPlaces, DisablePlaces, PortPlaces
<1>2. handling \in Messages /\ handling # NoMessage
  BY <1>1 DEF IInv, TypeOK, NoMessage
<1>3. hpc \in StateSetPlaces => handling.param \in States
  BY <1>2, MessagesFacts DEF IInv, HandlerInv
<1>4. ASSUME hpc \in PortPlaces
      PROVE  /\ Head(todo) \in Ports /\ Tail(todo) \in Seq(Ports)
             /\ Len(todo) > 1 => Tail(todo) # <<>>
             /\ Len(todo) # 1 => Len(todo) > 1
  <2>1. todo \in Seq(Ports) /\ todo # <<>>
    BY <1>4 DEF IInv, TypeOK, HandlerInv
  <2>2. Len(todo) \in Nat /\ Len(todo) # 0
    BY <2>1
  <2>3. Head(todo) \in Ports /\ Tail(todo) \in Seq(Ports)
    BY <2>1
  <2>4. Len(Tail(todo)) = Len(todo) - 1 /\ Len(<<>>) = 0
    BY <2>1, EmptySeq, HeadTailProperties
  <2>5. Len(todo) # 1 => Len(todo) > 1
    <3>1. PICK n \in Nat : n = Len(todo) /\ n # 0
      BY <2>2, Zenon
    <3>2. n # 1 => n > 1
      BY ONLY n \in Nat, <3>1
    <3> QED
      BY <3>1, <3>2, Zenon
  <2>6. Len(todo) > 1 => Tail(todo) # <<>>
    <3>1. Tail(todo) = <<>> => Len(Tail(todo)) = 0
      BY <2>4, Zenon
    <3> QED BY <2>2, <2>4, <3>1
  <2> QED BY <2>3, <2>5, <2>6
<1> QED BY <1>2, <1>3, <1>4

\* Concluding a command brings the handler back to wait.
LEMMA ConcludeHandlerInv ==
    ASSUME NEW e, Conclude(e)
    PROVE  /\ HandlerInv' /\ hpc' = "wait"
           /\ todo' = <<>> /\ todo' \in Seq(Ports)
           /\ handling' = NoMessage
  BY DEF Conclude, HandlerInv, StateSetPlaces, DisablePlaces, PortPlaces

\* A wait that took a post of a port's semaphore.
LEMMA TakePost ==
    ASSUME NEW f \in [Ports -> Nat], NEW p \in Ports, f[p] > 0
    PROVE  [f EXCEPT ![p] = f[p] - 1] \in [Ports -> Nat]
  OBVIOUS

\* What PortDone does to the handler.
LEMMA PortDoneFacts ==
    ASSUME IInv, hpc \in PortPlaces, PortDone
    PROVE  /\ HandlerInv' \/ currentState' # currentState
           /\ hpc' \in {hpc, "wait"} /\ todo' \in Seq(Ports)
           /\ handling' \in Messages \cup {NoMessage}
<1>1. hpc \notin {"wait", "exit"}
  BY DEF PortPlaces, DisablePlaces
<1>2. CASE Len(todo) > 1 /\ UNCHANGED <<handling, hpc>> /\ todo' = Tail(todo)
  BY <1>1, <1>2, HandlingFacts
  DEF IInv, TypeOK, HandlerInv, StateSetPlaces, DisablePlaces, PortPlaces
<1>3. CASE \E e : Conclude(e)
  BY <1>3, ConcludeHandlerInv
<1> QED BY <1>2, <1>3 DEF PortDone

\* Every step of the message handler preserves the invariant.
LEMMA HandlerIInv ==
    ASSUME IInv, Handler
    PROVE  IInv'
<1> USE DEF IInv
<1>1. CASE TakeMessage
  <2> DEFINE m == Head(messageQ)
  <2>1. /\ handling' = m /\ hpc' = m.cmd
        /\ messageQ' = Tail(messageQ)
        /\ todo' = IF m.cmd \in Commands THEN PortsOf(m.param) ELSE <<>>
        /\ UNCHANGED <<currentState, flagVars, portVars, bufferVars, ownedVars,
                       sending, event, freeVars>>
    BY <1>1 DEF TakeMessage
  <2>2. m \in Messages /\ messageQ' \in Seq(Messages)
    BY <1>1 DEF TakeMessage, TypeOK
  <2> HIDE DEF m
  <2>3. m.cmd \in Commands =>
            PortsOf(m.param) \in Seq(Ports) /\ PortsOf(m.param) # <<>>
    BY <2>2, MessagesFacts, PortsOfFacts, OmxComponentAssumption
  <2>4. HandlerInv'
    BY <2>1, <2>2, <2>3, MessagesFacts
    DEF HandlerInv, StateSetPlaces, DisablePlaces, PortPlaces
  <2>5. todo' \in Seq(Ports)
    BY <2>1, <2>3
  <2>6. TypeOK'
    BY <2>1, <2>2, <2>5, MessagesFacts
    DEF TypeOK, flagVars, portVars, bufferVars, ownedVars, freeVars
  <2> QED BY <2>4, <2>6
<1>2. CASE RefuseTransition
  <2>1. HandlerInv'
    BY <1>2, HandlingFacts, ConcludeHandlerInv
    DEF RefuseTransition, HandlerInv, Starts, StateSetPlaces, DisablePlaces, PortPlaces
  <2>2. TypeOK'
    BY <1>2, HandlingFacts, ConcludeHandlerInv, PortsOfFacts
    DEF RefuseTransition, TypeOK, Starts, Conclude, flagVars, portVars, bufferVars, ownedVars,
        queueVars, threadVars, freeVars, StateSetPlaces, DisablePlaces, PortPlaces
  <2> QED BY <2>1, <2>2
<1>3. CASE LoadedToIdle
  <2>1. HandlerInv'
    BY <1>3, HandlingFacts, ConcludeHandlerInv
    DEF LoadedToIdle, HandlerInv, Starts, StateSetPlaces, DisablePlaces, PortPlaces
  <2>2. TypeOK'
    BY <1>3, HandlingFacts, ConcludeHandlerInv, PortsOfFacts
    DEF LoadedToIdle, TypeOK, Starts, Conclude, flagVars, portVars, bufferVars, ownedVars,
        queueVars, threadVars, freeVars, StateSetPlaces, DisablePlaces, PortPlaces
  <2> QED BY <2>1, <2>2
<1>4. CASE AwaitLoaded
  <2>1. HandlerInv'
    BY <1>4, HandlingFacts, ConcludeHandlerInv
    DEF AwaitLoaded, HandlerInv, Starts, StateSetPlaces, DisablePlaces,
        PortPlaces
  <2>2. /\ hpc' \in {"wait", "waitLoaded"} /\ todo' \in Seq(Ports)
        /\ handling' \in Messages \cup {NoMessage}
    <3>1. CASE todo # <<>> /\ todo' = Tail(todo) /\ UNCHANGED <<handling, hpc>>
      BY <1>4, <3>1 DEF AwaitLoaded, TypeOK
    <3>2. CASE \E e : Conclude(e)
      BY <3>2, ConcludeHandlerInv
    <3> QED BY <1>4, <3>1, <3>2 DEF AwaitLoaded
  <2>3. held' \in BOOLEAN /\ abendStateEvent' \in BOOLEAN
    BY <1>4 DEF AwaitLoaded, TypeOK
  <2>4. bPopulated' \in [Ports -> BOOLEAN]
    BY <1>4 DEF AwaitLoaded, TypeOK
  <2>5. loadedResource' \in [Ports -> Nat]
    <3>1. loadedResource \in [Ports -> Nat]
      BY DEF TypeOK
    <3>2. CASE UNCHANGED loadedResource
      BY <3>1, <3>2
    <3>3. CASE /\ todo # <<>> /\ loadedResource[Head(todo)] > 0
               /\ loadedResource' = [loadedResource EXCEPT ![Head(todo)] =
                                         loadedResource[Head(todo)] - 1]
      <4>1. Head(todo) \in Ports
        BY <3>3 DEF TypeOK
      <4> QED BY <3>1, <3>3, <4>1, TakePost
    <3> QED BY <1>4, <3>2, <3>3 DEF AwaitLoaded
  <2>6. UNCHANGED <<currentState, flagVars, bEnabled, assignedBufferNum,
                    unloadedResource, codecOpen, initialised, queueVars,
                    abendState, fpc>>
    BY <1>4 DEF AwaitLoaded
  <2>7. TypeOK'
    BY <2>2, <2>3, <2>4, <2>5, <2>6 DEF TypeOK, flagVars, queueVars
  <2> QED BY <2>1, <2>7
<1>5. CASE ReachIdle
  <2>1. HandlerInv'
    BY <1>5, ConcludeHandlerInv DEF ReachIdle
  <2>2. /\ currentState' \in States
        /\ codecOpen' \in BOOLEAN /\ initialised' \in BOOLEAN
    BY <1>5 DEF ReachIdle, TypeOK, States
  <2>3. hpc' = "wait" /\ todo' \in Seq(Ports) /\ handling' = NoMessage
    BY <1>5, ConcludeHandlerInv DEF ReachIdle
  <2>4. UNCHANGED <<flagVars, portVars, bufferVars, held, queueVars, freeVars>>
    BY <1>5 DEF ReachIdle
  <2>5. TypeOK'
    BY <2>2, <2>3, <2>4
    DEF TypeOK, flagVars, portVars, bufferVars, queueVars, freeVars
  <2> QED BY <2>1, <2>5
<1>6. CASE IdleToLoaded
  <2>1. HandlerInv'
    BY <1>6, HandlingFacts, ConcludeHandlerInv
    DEF IdleToLoaded, HandlerInv, Starts, StateSetPlaces, DisablePlaces, PortPlaces
  <2>2. TypeOK'
    BY <1>6, HandlingFacts, ConcludeHandlerInv, PortsOfFacts
    DEF IdleToLoaded, TypeOK, Starts, Conclude, flagVars, portVars, bufferVars, ownedVars,
        queueVars, threadVars, freeVars, StateSetPlaces, DisablePlaces, PortPlaces
  <2> QED BY <2>1, <2>2
<1>7. CASE CloseDown
  <2>1. HandlerInv'
    BY <1>7, HandlingFacts, ConcludeHandlerInv
    DEF CloseDown, HandlerInv, Starts, StateSetPlaces, DisablePlaces, PortPlaces
  <2>2. TypeOK'
    BY <1>7, HandlingFacts, ConcludeHandlerInv, PortsOfFacts
    DEF CloseDown, TypeOK, Starts, Conclude, flagVars, portVars, bufferVars, ownedVars,
        queueVars, threadVars, freeVars, StateSetPlaces, DisablePlaces, PortPlaces
  <2> QED BY <2>1, <2>2
<1>8. CASE AwaitUnloaded
  <2>1. HandlerInv'
    BY <1>8, ConcludeHandlerInv
    DEF AwaitUnloaded, HandlerInv, StateSetPlaces, DisablePlaces, PortPlaces
  <2>2. /\ hpc' \in {"wait", "waitUnloaded"} /\ todo' \in Seq(Ports)
        /\ handling' \in Messages \cup {NoMessage}
        /\ currentState' \in States
    <3>1. CASE /\ todo # <<>> /\ todo' = Tail(todo)
               /\ UNCHANGED <<currentState, handling, hpc>>
      BY <1>8, <3>1 DEF AwaitUnloaded, TypeOK
    <3>2. CASE currentState' = "Loaded" /\ \E e : Conclude(e)
      BY <3>2, ConcludeHandlerInv DEF States
    <3> QED BY <1>8, <3>1, <3>2 DEF AwaitUnloaded
  <2>3. bPopulated' \in [Ports -> BOOLEAN]
    BY <1>8 DEF AwaitUnloaded, TypeOK
  <2>4. unloadedResource' \in [Ports -> Nat]
    <3>1. unloadedResource \in [Ports -> Nat]
      BY DEF TypeOK
    <3>2. CASE UNCHANGED unloadedResource
      BY <3>1, <3>2
    <3>3. CASE /\ todo # <<>> /\ unloadedResource[Head(todo)] > 0
               /\ unloadedResource' = [unloadedResource EXCEPT ![Head(todo)] =
                                         unloadedResource[Head(todo)] - 1]
      <4>1. Head(todo) \in Ports
        BY <3>3 DEF TypeOK
      <4> QED BY <3>1, <3>3, <4>1, TakePost
    <3> QED BY <1>8, <3>2, <3>3 DEF AwaitUnloaded
  <2>5. UNCHANGED <<flagVars, bEnabled, assignedBufferNum, loadedResource,
                    ownedVars, queueVars, freeVars>>
    BY <1>8 DEF AwaitUnloaded
  <2>6. TypeOK'
    BY <2>2, <2>3, <2>4, <2>5
    DEF TypeOK, flagVars, ownedVars, queueVars, freeVars
  <2> QED BY <2>1, <2>6
<1>9. CASE ActiveToIdle
  <2>1. HandlerInv'
    BY <1>9, HandlingFacts, ConcludeHandlerInv
    DEF ActiveToIdle, HandlerInv, Starts, StateSetPlaces, DisablePlaces, PortPlaces
  <2>2. TypeOK'
    BY <1>9, HandlingFacts, ConcludeHandlerInv, PortsOfFacts
    DEF ActiveToIdle, TypeOK, Starts, Conclude, flagVars, portVars, bufferVars, ownedVars,
        queueVars, threadVars, freeVars, StateSetPlaces, DisablePlaces, PortPlaces
  <2> QED BY <2>1, <2>2
<1>10. CASE ToExecuting
  <2>1. HandlerInv'
    BY <1>10, ConcludeHandlerInv DEF ToExecuting
  <2>2. /\ currentState' \in States /\ transientState' \in TransientStates
        /\ hpc' = "wait" /\ todo' \in Seq(Ports) /\ handling' = NoMessage
    BY <1>10, ConcludeHandlerInv
    DEF ToExecuting, TypeOK, States, TransientStates
  <2>3. UNCHANGED <<portState, bIsPortDisabled, bIsPortFlushed, portVars,
                    bufferVars, ownedVars, queueVars, freeVars>>
    BY <1>10 DEF ToExecuting
  <2>4. TypeOK'
    BY <2>2, <2>3
    DEF TypeOK, portVars, bufferVars, ownedVars, queueVars, freeVars
  <2> QED BY <2>1, <2>4
<1>11. CASE ToPause
  <2>1. HandlerInv'
    BY <1>11, HandlingFacts, ConcludeHandlerInv
    DEF ToPause, HandlerInv, Starts, StateSetPlaces, DisablePlaces, PortPlaces
  <2>2. TypeOK'
    BY <1>11, HandlingFacts, ConcludeHandlerInv, PortsOfFacts
    DEF ToPause, TypeOK, Starts, Conclude, flagVars, portVars, bufferVars, ownedVars,
        queueVars, threadVars, freeVars, StateSetPlaces, DisablePlaces, PortPlaces
  <2> QED BY <2>1, <2>2
<1>12. CASE Waiting
  <2>1. HandlerInv'
    BY <1>12, HandlingFacts, ConcludeHandlerInv
    DEF Waiting, HandlerInv, Starts, StateSetPlaces, DisablePlaces, PortPlaces
  <2>2. TypeOK'
    BY <1>12, HandlingFacts, ConcludeHandlerInv, PortsOfFacts
    DEF Waiting, TypeOK, Starts, Conclude, flagVars, portVars, bufferVars, ownedVars,
        queueVars, threadVars, freeVars, StateSetPlaces, DisablePlaces, PortPlaces
  <2> QED BY <2>1, <2>2
<1>13. CASE ToInvalid
  <2>1. HandlerInv'
    BY <1>13, HandlingFacts, ConcludeHandlerInv
    DEF ToInvalid, HandlerInv, Starts, StateSetPlaces, DisablePlaces, PortPlaces
  <2>2. TypeOK'
    BY <1>13, HandlingFacts, ConcludeHandlerInv, PortsOfFacts
    DEF ToInvalid, TypeOK, Starts, Conclude, flagVars, portVars, bufferVars, ownedVars,
        queueVars, threadVars, freeVars, StateSetPlaces, DisablePlaces, PortPlaces
  <2> QED BY <2>1, <2>2
<1>14. CASE CloseInvalid
  <2>1. HandlerInv'
    BY <1>14, HandlingFacts, ConcludeHandlerInv
    DEF CloseInvalid, HandlerInv, Starts, StateSetPlaces, DisablePlaces, PortPlaces
  <2>2. TypeOK'
    BY <1>14, HandlingFacts, ConcludeHandlerInv, PortsOfFacts
    DEF CloseInvalid, TypeOK, Starts, Conclude, flagVars, portVars, bufferVars, ownedVars,
        queueVars, threadVars, freeVars, StateSetPlaces, DisablePlaces, PortPlaces
  <2> QED BY <2>1, <2>2
<1>15. CASE Flush
  <2>1. HandlerInv'
    BY <1>15, HandlingFacts, ConcludeHandlerInv
    DEF Flush, HandlerInv, Starts, StateSetPlaces, DisablePlaces, PortPlaces
  <2>2. TypeOK'
    BY <1>15, HandlingFacts, ConcludeHandlerInv, PortsOfFacts, ZenonT(40)
    DEF Flush, TypeOK, Starts, Conclude, flagVars, portVars, bufferVars, ownedVars,
        queueVars, threadVars, freeVars, StateSetPlaces, DisablePlaces, PortPlaces
  <2> QED BY <2>1, <2>2
<1>16. CASE EnablePort
  <2>1. PortDone /\ hpc = "PortEnable"
    BY <1>16 DEF EnablePort
  <2>2. UNCHANGED <<currentState, flagVars, assignedBufferNum,
                    unloadedResource, ownedVars, queueVars, freeVars>>
    BY <1>16 DEF EnablePort
  <2>3. HandlerInv'
    BY <2>1, <2>2, PortDoneFacts DEF PortPlaces
  <2>4. /\ hpc' \in {"PortEnable", "wait"} /\ todo' \in Seq(Ports)
        /\ handling' \in Messages \cup {NoMessage}
    BY <2>1, PortDoneFacts DEF PortPlaces
  <2> DEFINE p == Head(todo)
             waits == currentState \notin {"Loaded", "WaitForResources"}
  <2>5. /\ waits => loadedResource[p] > 0
        /\ loadedResource' = [loadedResource EXCEPT ![p] =
                                 IF waits THEN loadedResource[p] - 1
                                 ELSE loadedResource[p]]
        /\ bPopulated' = [bPopulated EXCEPT ![p] = bPopulated[p] \/ waits]
        /\ bEnabled' = [bEnabled EXCEPT ![p] = TRUE]
    BY <1>16, Zenon DEF EnablePort
  <2> HIDE DEF waits
  <2>6. loadedResource' \in [Ports -> Nat]
    <3>1. p \in Ports /\ loadedResource \in [Ports -> Nat]
      BY <2>1, HandlingFacts DEF PortPlaces, TypeOK
    <3>2. CASE waits
      BY <2>5, <3>1, <3>2, TakePost
    <3>3. CASE ~waits
      BY <2>5, <3>1, <3>3
    <3> QED BY <3>2, <3>3
  <2>7. bPopulated' \in [Ports -> BOOLEAN]
    <3>1. bPopulated \in [Ports -> BOOLEAN]
      BY DEF TypeOK
    <3> QED BY <2>5, <3>1, Zenon
  <2>8. bEnabled' \in [Ports -> BOOLEAN]
    BY <2>5 DEF TypeOK
  <2>9. TypeOK'
    BY <2>2, <2>4, <2>6, <2>7, <2>8
    DEF TypeOK, flagVars, ownedVars, queueVars, freeVars
  <2> QED BY <2>3, <2>9
<1>17. CASE FlushToDisable
  <2>1. HandlerInv'
    BY <1>17, HandlingFacts, ConcludeHandlerInv
    DEF FlushToDisable, HandlerInv, Starts, StateSetPlaces, DisablePlaces, PortPlaces
  <2>2. TypeOK'
    BY <1>17, HandlingFacts, ConcludeHandlerInv, PortsOfFacts
    DEF FlushToDisable, TypeOK, Starts, Conclude, flagVars, portVars, bufferVars, ownedVars,
        queueVars, threadVars, freeVars, StateSetPlaces, DisablePlaces, PortPlaces
  <2> QED BY <2>1, <2>2
<1>18. CASE DisablePort
  <2>1. UNCHANGED <<currentState, transientState, portState, bIsPortFlushed,
                    bufferVars, ownedVars, queueVars, freeVars>>
    BY <1>18 DEF DisablePort
  <2>2. /\ bEnabled' \in [Ports -> BOOLEAN]
        /\ bIsPortDisabled' \in [Ports -> BOOLEAN]
        /\ bPopulated' \in [Ports -> BOOLEAN]
    BY <1>18 DEF DisablePort, TypeOK
  <2>3. \/ PortDone
        \/ hpc' = "disableWait" /\ UNCHANGED <<handling, todo>>
    BY <1>18 DEF DisablePort
  <2>4. hpc = "disable"
    BY <1>18 DEF DisablePort
  <2>5. HandlerInv'
    <3>1. CASE PortDone
      BY <2>1, <2>4, <3>1, PortDoneFacts DEF PortPlaces, DisablePlaces
    <3>2. CASE hpc' = "disableWait" /\ UNCHANGED <<handling, todo>>
      BY <2>1, <2>4, <3>2
      DEF HandlerInv, StateSetPlaces, DisablePlaces, PortPlaces
    <3> QED BY <2>3, <3>1, <3>2
  <2>6. /\ hpc' \in {"disable", "disableWait", "wait"} /\ todo' \in Seq(Ports)
        /\ handling' \in Messages \cup {NoMessage}
    BY <2>3, <2>4, PortDoneFacts DEF PortPlaces, DisablePlaces, TypeOK
  <2>7. TypeOK'
    BY <2>1, <2>2, <2>6
    DEF TypeOK, bufferVars, ownedVars, queueVars, freeVars
  <2> QED BY <2>5, <2>7
<1>19. CASE DisableWait
  <2>1. HandlerInv'
    BY <1>19, HandlingFacts, ConcludeHandlerInv
    DEF DisableWait, HandlerInv, StateSetPlaces, DisablePlaces, PortPlaces
  <2>2. /\ bEnabled' \in [Ports -> BOOLEAN]
        /\ bIsPortDisabled' \in [Ports -> BOOLEAN]
    BY <1>19 DEF DisableWait, TypeOK
  <2>3. unloadedResource' \in [Ports -> Nat]
    <3>1. /\ unloadedResource[Head(todo)] > 0
          /\ unloadedResource' = [unloadedResource EXCEPT ![Head(todo)] =
                                     unloadedResource[Head(todo)] - 1]
      BY <1>19 DEF DisableWait
    <3>2. Head(todo) \in Ports /\ unloadedResource \in [Ports -> Nat]
      BY <1>19, HandlingFacts DEF DisableWait, DisablePlaces, PortPlaces, TypeOK
    <3> QED BY <3>1, <3>2, TakePost
  <2>4. /\ hpc' \in {"disable", "wait"} /\ todo' \in Seq(Ports)
        /\ handling' \in Messages \cup {NoMessage}
    BY <1>19, HandlingFacts, ConcludeHandlerInv
    DEF DisableWait, TypeOK, DisablePlaces, PortPlaces
  <2>5. UNCHANGED <<currentState, transientState, portState, bIsPortFlushed,
                    bPopulated, assignedBufferNum, loadedResource, ownedVars,
                    queueVars, freeVars>>
    BY <1>19 DEF DisableWait
  <2>6. TypeOK'
    BY <2>2, <2>3, <2>4, <2>5 DEF TypeOK, ownedVars, queueVars, freeVars
  <2> QED BY <2>1, <2>6
<1>20. CASE DeInit
  <2>1. HandlerInv'
    BY <1>20, HandlingFacts, ConcludeHandlerInv
    DEF DeInit, HandlerInv, Starts, StateSetPlaces, DisablePlaces, PortPlaces
  <2>2. TypeOK'
    BY <1>20, HandlingFacts, ConcludeHandlerInv, PortsOfFacts
    DEF DeInit, TypeOK, Starts, Conclude, flagVars, portVars, bufferVars, ownedVars,
        queueVars, threadVars, freeVars, StateSetPlaces, DisablePlaces, PortPlaces
  <2> QED BY <2>1, <2>2
<1> QED
  BY <1>1, <1>2, <1>3, <1>4, <1>5, <1>6, <1>7, <1>8, <1>9, <1>10, <1>11, <1>12, <1>13, <1>14, <1>15, <1>16, <1>17, <1>18, <1>19, <1>20 DEF Handler

\* So does every step of the component.
LEMMA NextIInv == IInv /\ [Next]_vars => IInv'
<1> SUFFICES ASSUME IInv, [Next]_vars
             PROVE  IInv'
  OBVIOUS
<1>1. CASE SendCommand
  BY <1>1, SendCommandIInv
<1>2. CASE CommandQueue
  BY <1>2, CommandQueueIInv
<1>3. ASSUME NEW p \in Ports, UseBuffer(p) \/ AllocateBuffer(p) \/ FreeBuffer(p)
      PROVE  IInv'
  BY <1>3, AssignIInv, FreeBufferIInv DEF UseBuffer, AllocateBuffer
<1>4. CASE Handler
  BY <1>4, HandlerIInv
<1>5. CASE Freeing
  BY <1>5, FreeingIInv
<1>6. CASE UNCHANGED vars
  BY <1>6
  DEF vars, flagVars, portVars, bufferVars, ownedVars, queueVars, threadVars,
      freeVars, IInv, TypeOK, HandlerInv
<1> QED BY <1>1, <1>2, <1>3, <1>4, <1>5, <1>6 DEF Next

\* Every variable keeps its type: in particular no port is ever given more
\* buffers than it has headers, and the handler never leaves its places.
THEOREM TypeCorrect == Spec => []TypeOK
<1>1. IInv => TypeOK
  BY DEF IInv
<1> QED BY InitIInv, NextIInv, <1>1, PTL DEF Spec

-----------------------------------------------------------------------------
(* Refinement: every step of the component is a step of OmxCommands.         *)

\* The constructed component is an initial state of OmxCommands.
LEMMA InitPromise == Init => Promise!Init
  BY DEF Init, Promise!Init

\* The variables of OmxCommands, in terms of the component's.
promiseVars == <<currentState, messageQ, handling, event, abendState>>

\* The client's calls accept a command, warn, abandon, or show nothing.
LEMMA ClientPromise ==
    ASSUME IInv,
           \/ SendCommand \/ CommandQueue \/ Freeing
           \/ \E p \in Ports : UseBuffer(p) \/ AllocateBuffer(p) \/ FreeBuffer(p)
    PROVE  Promise!Next \/ UNCHANGED promiseVars
<1>1. CASE SendCommand
  BY <1>1
  DEF SendCommand, SendStateSet, SendFlush, SendPortDisable, SendPortEnable,
      threadVars, freeVars, promiseVars
<1>2. CASE CommandQueue
  <2>1. sending \in Messages
    BY <1>2 DEF CommandQueue, IInv, TypeOK
  <2>2. Promise!Accept \/ UNCHANGED promiseVars
    BY <1>2, <2>1
    DEF CommandQueue, Promise!Accept, threadVars, freeVars, promiseVars
  <2> QED BY <2>2 DEF Promise!Next
<1>3. CASE FreeHandle
  <2>1. Promise!Abandon \/ UNCHANGED promiseVars
    BY <1>3
    DEF FreeHandle, Promise!Abandon, queueVars, threadVars, promiseVars
  <2> QED BY <2>1 DEF Promise!Next
<1>4. CASE BaseComponent_Destructor
  <2>1. Message("DeInit", 0) \in Messages
    BY DEF Messages
  <2>2. Promise!Accept
    BY <1>4, <2>1
    DEF BaseComponent_Destructor, Promise!Accept, threadVars
  <2> QED BY <2>2 DEF Promise!Next
<1>5. CASE AbendAcknowledged \/ FreeHandleReturns
  BY <1>5
  DEF AbendAcknowledged, FreeHandleReturns, queueVars, threadVars, promiseVars
<1>6. ASSUME NEW p \in Ports, Assign(p)
      PROVE  UNCHANGED promiseVars
  BY <1>6 DEF Assign, queueVars, threadVars, freeVars, promiseVars
<1>7. ASSUME NEW p \in Ports, FreeBuffer(p)
      PROVE  Promise!Next \/ UNCHANGED promiseVars
  <2>1. Promise!Warn \/ UNCHANGED promiseVars
    BY <1>7
    DEF FreeBuffer, Promise!Warn, ErrorCodes, queueVars, freeVars, promiseVars
  <2> QED BY <2>1 DEF Promise!Next
<1> QED
  BY <1>1, <1>2, <1>3, <1>4, <1>5, <1>6, <1>7
  DEF Freeing, UseBuffer, AllocateBuffer

\* A transition that ends in the state it was for.
LEMMA ReachStatePromise ==
    ASSUME IInv, hpc \in StateSetPlaces,
           <<currentState, handling.param>> \in Promise!Edges,
           currentState' = handling.param,
           Conclude(Complete("StateSet", handling.param)),
           UNCHANGED <<messageQ, abendState>>
    PROVE  Promise!Next
<1>1. handling.cmd = "StateSet" /\ handling # NoMessage
  BY HandlingFacts DEF IInv, HandlerInv, StateSetPlaces
<1>2. Promise!ReachState
  BY <1>1
  DEF Promise!ReachState, Promise!Over, Promise!Complete, Complete, Conclude
<1> QED BY <1>2 DEF Promise!Next

\* A command that ends with an error.
LEMMA FailPromise ==
    ASSUME IInv, hpc \notin {"wait", "exit"},
           NEW code \in ErrorCodes, Conclude(Error(code)),
           UNCHANGED <<currentState, messageQ, abendState>>
    PROVE  Promise!Next
<1>1. Promise!Fail
  BY HandlingFacts DEF Promise!Fail, Promise!Over, Conclude
<1> QED BY <1>1 DEF Promise!Next

\* One port of a port command, the last one or not.
LEMMA PortDonePromise ==
    ASSUME IInv, hpc \in PortPlaces,
           event' = Complete(handling.cmd, Head(todo)),
           UNCHANGED handling \/ handling' = NoMessage,
           UNCHANGED <<currentState, messageQ, abendState>>
    PROVE  Promise!Next
<1>1. hpc \notin {"wait", "exit"}
  BY DEF PortPlaces, DisablePlaces
<1>2. handling.cmd \in Commands /\ Head(todo) \in Ports /\ handling # NoMessage
  BY <1>1, HandlingFacts DEF IInv, HandlerInv
<1>3. Promise!PortDone
  BY <1>2 DEF Promise!PortDone, Promise!Over, Promise!Complete, Complete
<1> QED BY <1>3 DEF Promise!Next

\* Each step of the handler is one step of OmxCommands or shows nothing.
LEMMA HandlerPromise ==
    ASSUME IInv, Handler
    PROVE  Promise!Next \/ UNCHANGED promiseVars
<1> USE DEF flagVars, portVars, bufferVars, ownedVars, queueVars, threadVars,
            freeVars
<1>1. CASE TakeMessage
  <2>1. Promise!Take
    BY <1>1 DEF TakeMessage, Promise!Take, IInv, HandlerInv
  <2> QED BY <2>1 DEF Promise!Next
<1>2. CASE RefuseTransition
  <2>1. \E code \in ErrorCodes : Conclude(Error(code))
    BY <1>2 DEF RefuseTransition, ErrorCodes
  <2> QED BY <1>2, <2>1, FailPromise DEF RefuseTransition
<1>3. CASE LoadedToIdle
  <2>1. CASE Conclude(Error("InsufficientResources"))
    BY <1>3, <2>1, FailPromise DEF LoadedToIdle, Starts, ErrorCodes
  <2> QED BY <1>3, <2>1 DEF LoadedToIdle, promiseVars
<1>4. CASE AwaitLoaded
  <2>1. CASE abendState /\ Conclude(Complete("StateSet", "Idle"))
    <3>1. /\ handling.cmd = "StateSet" /\ handling.param = "Idle"
          /\ handling # NoMessage /\ currentState = "Loaded"
      BY <1>4, HandlingFacts
      DEF AwaitLoaded, IInv, HandlerInv, StateSetPlaces
    <3>2. Promise!AbandonedIdle
      BY <1>4, <2>1, <3>1
      DEF AwaitLoaded, Promise!AbandonedIdle, Promise!Over, Promise!Complete,
          Complete, Conclude
    <3> QED BY <3>2 DEF Promise!Next
  <2> QED BY <1>4, <2>1 DEF AwaitLoaded, promiseVars
<1>5. CASE ReachIdle
  <2>1. handling.param = "Idle" /\ currentState = "Loaded"
    BY <1>5 DEF ReachIdle, IInv, HandlerInv
  <2>2. CASE currentState' = "Idle" /\ Conclude(Complete("StateSet", "Idle"))
    BY <1>5, <2>1, <2>2, ReachStatePromise
    DEF ReachIdle, Promise!Edges, StateSetPlaces
  <2>3. CASE /\ UNCHANGED currentState
             /\ \E code \in ErrorCodes : Conclude(Error(code))
    BY <1>5, <2>3, FailPromise DEF ReachIdle
  <2> QED BY <1>5, <2>2, <2>3 DEF ReachIdle, ErrorCodes
<1>6. CASE IdleToLoaded \/ CloseDown \/ FlushToDisable
  BY <1>6 DEF IdleToLoaded, CloseDown, FlushToDisable, promiseVars
<1>7. CASE AwaitUnloaded
  <2>1. handling.param = "Loaded" /\ currentState = "Idle"
    BY <1>7 DEF AwaitUnloaded, IInv, HandlerInv
  <2>2. CASE currentState' = "Loaded" /\ Conclude(Complete("StateSet", "Loaded"))
    BY <1>7, <2>1, <2>2, ReachStatePromise
    DEF AwaitUnloaded, Promise!Edges, StateSetPlaces
  <2> QED BY <1>7, <2>2 DEF AwaitUnloaded, promiseVars
<1>8. CASE ActiveToIdle
  BY <1>8, ReachStatePromise
  DEF ActiveToIdle, Starts, Promise!Edges, StateSetPlaces
<1>9. CASE ToExecuting
  BY <1>9, ReachStatePromise
  DEF ToExecuting, Starts, Promise!Edges, StateSetPlaces
<1>10. CASE ToPause
  BY <1>10, ReachStatePromise
  DEF ToPause, Starts, Promise!Edges, StateSetPlaces
<1>11. CASE Waiting
  BY <1>11, ReachStatePromise
  DEF Waiting, Starts, Promise!Edges, StateSetPlaces
<1>12. CASE ToInvalid
  <2>1. handling.cmd = "StateSet" /\ handling.param = "Invalid"
    BY <1>12 DEF ToInvalid, Starts, IInv, HandlerInv, StateSetPlaces
  <2>2. Promise!BecomeInvalid
    BY <1>12, <2>1 DEF ToInvalid, Promise!BecomeInvalid
  <2> QED BY <2>2 DEF Promise!Next
<1>13. CASE CloseInvalid
  BY <1>13, FailPromise DEF CloseInvalid, ErrorCodes
<1>14. CASE Flush
  <2>1. hpc = "Flush" /\ handling.cmd = "Flush"
    BY <1>14 DEF Flush, IInv, HandlerInv
  <2>2. /\ event' = Complete(handling.cmd, Head(todo))
        /\ UNCHANGED handling \/ handling' = NoMessage
    BY <1>14, <2>1 DEF Flush, Conclude
  <2> QED BY <1>14, <2>1, <2>2, PortDonePromise DEF Flush, PortPlaces
<1>15. ASSUME hpc \in PortPlaces, PortDone,
              UNCHANGED <<currentState, messageQ, abendState>>
       PROVE  Promise!Next
  BY <1>15, PortDonePromise DEF PortDone, Conclude
<1>16. CASE EnablePort
  BY <1>16, <1>15 DEF EnablePort, PortPlaces
<1>17. CASE DisablePort
  <2>1. CASE PortDone
    BY <1>17, <2>1, <1>15 DEF DisablePort, PortPlaces, DisablePlaces
  <2> QED BY <1>17, <2>1 DEF DisablePort, promiseVars
<1>18. CASE DisableWait
  <2>1. hpc = "disableWait" /\ handling.cmd = "PortDisable"
    BY <1>18 DEF DisableWait, IInv, HandlerInv, DisablePlaces
  <2>2. /\ event' = Complete(handling.cmd, Head(todo))
        /\ UNCHANGED handling \/ handling' = NoMessage
    BY <1>18, <2>1 DEF DisableWait, Conclude
  <2> QED
    BY <1>18, <2>1, <2>2, PortDonePromise
    DEF DisableWait, PortPlaces, DisablePlaces
<1>19. CASE DeInit
  <2>1. Promise!Exit
    BY <1>19, HandlingFacts
    DEF DeInit, Promise!Exit, Promise!Over, IInv, HandlerInv
  <2> QED BY <2>1 DEF Promise!Next
<1> QED
  BY <1>1, <1>2, <1>3, <1>4, <1>5, <1>6, <1>7, <1>8, <1>9, <1>10, <1>11,
     <1>12, <1>13, <1>14, <1>16, <1>17, <1>18, <1>19
  DEF Handler

\* The component implements the promise of OmxCommands, for every number of
\* ports and buffers and whatever fails: commands are taken in order and
\* concluded one at a time, and the state moves only along the OpenMAX state
\* graph, in the step that reports it.
THEOREM ImplementsPromise == Spec => KeepsPromise
<1>1. IInv /\ [Next]_vars => [Promise!Next]_(Promise!vars)
  <2> SUFFICES ASSUME IInv, [Next]_vars
               PROVE  Promise!Next \/ UNCHANGED promiseVars
    BY DEF promiseVars, Promise!vars
  <2>1. CASE UNCHANGED vars
    BY <2>1 DEF vars, queueVars, threadVars, freeVars, promiseVars
  <2> QED BY <2>1, ClientPromise, HandlerPromise DEF Next
<1> QED
  BY InitIInv, NextIInv, InitPromise, <1>1, PTL
  DEF Spec, KeepsPromise, Promise!Spec

-----------------------------------------------------------------------------
(* What the component holds in Loaded and in the active states.              *)

\* When no command is outstanding, the handler is not in the middle of one.
LEMMA QuietHandler ==
    ASSUME IInv, Quiet
    PROVE  hpc \in {"wait", "exit"}
<1>1. handling = NoMessage
  <2>1. SUFFICES ASSUME handling # NoMessage PROVE FALSE
    OBVIOUS
  <2>2. handling \in Messages /\ messageQ \in Seq(Messages)
    BY <2>1 DEF IInv, TypeOK
  <2>3. PICK s \in Seq(Messages) : Pending = <<handling>> \o messageQ \o s
    <3>1. CASE sending # NoMessage
      <4>1. sending \in Messages
        BY <3>1 DEF IInv, TypeOK
      <4>2. <<sending>> \in Seq(Messages)
        BY <4>1
      <4> QED BY <2>1, <3>1, <4>2 DEF Pending
    <3>2. CASE sending = NoMessage
      <4>1. Pending = <<handling>> \o messageQ \o <<>>
        BY <2>1, <3>2 DEF Pending
      <4>2. <<>> \in Seq(Messages)
        BY EmptySeq
      <4> QED BY <4>1, <4>2
    <3> QED BY <3>1, <3>2
  <2>4. Len(Pending) = 1 + Len(messageQ) + Len(s) /\ Len(<<>>) = 0
    BY <2>2, <2>3, EmptySeq
  <2>5. Len(Pending) = 0
    BY <2>4, Zenon DEF Quiet
  <2> QED BY <2>2, <2>3, <2>4, <2>5
<1> QED BY <1>1, HandlingFacts

\* A component that is not on its way to Idle holds nothing in Loaded and in
\* WaitForResources, and on its way to Loaded has given back what it will not
\* touch again.
LoadedInv ==
    /\ currentState \in {"Loaded", "WaitForResources"} =>
           /\ ~codecOpen /\ ~initialised
           /\ hpc # "waitLoaded" => ~held
    /\ hpc \in {"close", "waitUnloaded"} => ~held
    /\ hpc = "waitUnloaded" => ~codecOpen /\ ~initialised

\* What is taken on the way to Idle is given back on the way to Loaded, and
\* nothing else takes anything.
LEMMA LoadedInvStep ==
    ASSUME Failures = {}, IInv, LoadedInv, [Next]_vars
    PROVE  LoadedInv'
<1> USE DEF LoadedInv, ownedVars, threadVars, IInv, HandlerInv, TypeOK
<1>1. CASE \/ SendCommand \/ CommandQueue \/ Freeing \/ UNCHANGED vars
           \/ \E p \in Ports : UseBuffer(p) \/ AllocateBuffer(p) \/ FreeBuffer(p)
  <2>1. UNCHANGED <<currentState, hpc, ownedVars>>
    BY <1>1
    DEF SendCommand, SendStateSet, SendFlush, SendPortDisable, SendPortEnable,
        CommandQueue, Freeing, FreeHandle, AbendAcknowledged,
        BaseComponent_Destructor, FreeHandleReturns, UseBuffer,
        AllocateBuffer, Assign, FreeBuffer, vars
  <2> QED BY <2>1
<1>2. CASE TakeMessage
  <2>1. hpc' \notin {"waitLoaded", "close", "waitUnloaded"}
    <3>1. Head(messageQ) \in Messages
      BY <1>2 DEF TakeMessage
    <3> QED BY <1>2, <3>1, MessagesFacts DEF TakeMessage
  <2> QED BY <1>2, <2>1 DEF TakeMessage
<1>3. CASE LoadedToIdle
  BY <1>3 DEF LoadedToIdle, Starts, Conclude
<1>4. CASE AwaitLoaded
  BY <1>4 DEF AwaitLoaded, Conclude
<1>5. CASE ReachIdle
  BY <1>5 DEF ReachIdle, Conclude
<1>6. CASE IdleToLoaded \/ CloseDown
  BY <1>6 DEF IdleToLoaded, CloseDown, Starts
<1>7. CASE AwaitUnloaded
  BY <1>7 DEF AwaitUnloaded, Conclude
<1>8. CASE ActiveToIdle \/ ToExecuting \/ ToPause \/ Waiting
  BY <1>8 DEF ActiveToIdle, ToExecuting, ToPause, Waiting, Starts, Conclude
<1>9. CASE ToInvalid \/ CloseInvalid
  BY <1>9 DEF ToInvalid, CloseInvalid, Conclude, Starts
<1>10. CASE \/ RefuseTransition \/ Flush \/ EnablePort
            \/ FlushToDisable \/ DisablePort \/ DisableWait \/ DeInit
  <2>1. UNCHANGED <<currentState, ownedVars>>
    BY <1>10
    DEF RefuseTransition, Flush, EnablePort, FlushToDisable, DisablePort,
        DisableWait, DeInit
  <2>2. /\ hpc' \notin {"waitLoaded", "close", "waitUnloaded"}
        /\ hpc # "waitLoaded"
    BY <1>10
    DEF RefuseTransition, Flush, EnablePort, FlushToDisable, DisablePort,
        DisableWait, DeInit, PortDone, Conclude
  <2> QED BY <2>1, <2>2
<1> QED
  BY <1>1, <1>2, <1>3, <1>4, <1>5, <1>6, <1>7, <1>8, <1>9, <1>10
  DEF Next, Handler

\* Where nothing fails on the way to Idle, a component at rest in Loaded holds
\* neither the hardware resource nor the codec nor its buffer threads.
THEOREM HoldsNothingInLoaded ==
    ASSUME Failures = {}
    PROVE  Spec => []LoadedHoldsNothing
<1>1. Init => LoadedInv
  BY DEF Init, LoadedInv
<1>2. IInv /\ LoadedInv => LoadedHoldsNothing
  BY QuietHandler DEF LoadedInv, LoadedHoldsNothing
<1>3. IInv /\ LoadedInv /\ [Next]_vars => LoadedInv'
  BY LoadedInvStep
<1> QED BY InitIInv, NextIInv, <1>1, <1>2, <1>3, PTL DEF Spec

\* The commands queued and being handled ask only for the client's targets.
AsksForTargets(m) == m.cmd = "StateSet" => m.param \in Targets

\* A component that has got as far as Idle has the hardware resource, the
\* codec and the buffer threads until it is on its way to Loaded.
ActiveInv ==
    /\ currentState # "WaitForResources"
    /\ AsksForTargets(sending) /\ AsksForTargets(handling)
    /\ \A i \in 1 .. Len(messageQ) : AsksForTargets(messageQ[i])
    /\ hpc = "waitLoaded" => held
    /\ currentState \in Active =>
           /\ hpc \notin {"close", "waitUnloaded"} => held
           /\ hpc # "waitUnloaded" => codecOpen /\ initialised

\* The messages of a step ask only for the client's targets when those of
\* the state before it do.
LEMMA TargetsStep ==
    ASSUME IInv, ActiveInv, [Next]_vars
    PROVE  /\ AsksForTargets(sending') /\ AsksForTargets(handling')
           /\ \A i \in 1 .. Len(messageQ') : AsksForTargets(messageQ'[i])
<1> USE DEF ActiveInv
<1>1. messageQ \in Seq(Messages) /\ AsksForTargets(NoMessage)
  BY DEF IInv, TypeOK, AsksForTargets, NoMessage
<1>2. CASE SendCommand
  <2>1. UNCHANGED <<messageQ, handling>>
    BY <1>2
    DEF SendCommand, SendStateSet, SendFlush, SendPortDisable, SendPortEnable,
        threadVars
  <2>2. \/ \E s \in Targets : sending' = Message("StateSet", s)
        \/ sending' = NoMessage
        \/ \E c \in {"Flush", "PortDisable", "PortEnable"}, p \in PortParams :
               sending' = Message(c, p)
    BY <1>2
    DEF SendCommand, SendStateSet, SendFlush, SendPortDisable, SendPortEnable
  <2>3. AsksForTargets(sending')
    BY <2>2 DEF AsksForTargets, Message, NoMessage
  <2> QED BY <2>1, <2>3
<1>3. CASE CommandQueue
  <2>1. messageQ' = Append(messageQ, sending) \/ UNCHANGED messageQ
    BY <1>3 DEF CommandQueue
  <2>2. sending' = NoMessage /\ UNCHANGED handling
    BY <1>3 DEF CommandQueue, threadVars
  <2> QED BY <1>1, <2>1, <2>2
<1>4. CASE BaseComponent_Destructor
  <2>1. messageQ' = Append(messageQ, Message("DeInit", 0))
    BY <1>4 DEF BaseComponent_Destructor
  <2>2. UNCHANGED <<sending, handling>>
    BY <1>4 DEF BaseComponent_Destructor, threadVars
  <2>3. AsksForTargets(Message("DeInit", 0))
    BY DEF AsksForTargets, Message
  <2> QED BY <1>1, <2>1, <2>2, <2>3
<1>5. CASE TakeMessage
  <2>1. /\ messageQ # <<>> /\ messageQ' = Tail(messageQ)
        /\ handling' = Head(messageQ) /\ UNCHANGED sending
    BY <1>5 DEF TakeMessage
  <2> QED BY <1>1, <2>1
<1>6. CASE Handler /\ ~TakeMessage
  <2>1. UNCHANGED queueVars /\ handling' \in {handling, NoMessage}
    BY <1>6
    DEF Handler, RefuseTransition, LoadedToIdle, AwaitLoaded, ReachIdle,
        IdleToLoaded, CloseDown, AwaitUnloaded, ActiveToIdle, ToExecuting,
        ToPause, Waiting, ToInvalid, CloseInvalid, Flush, EnablePort,
        FlushToDisable, DisablePort, DisableWait, DeInit, PortDone, Conclude
  <2> QED BY <1>1, <2>1 DEF queueVars
<1>7. CASE \/ FreeHandle \/ AbendAcknowledged \/ FreeHandleReturns
           \/ UNCHANGED vars
           \/ \E p \in Ports : UseBuffer(p) \/ AllocateBuffer(p) \/ FreeBuffer(p)
  <2>1. UNCHANGED queueVars /\ UNCHANGED handling
    BY <1>7
    DEF FreeHandle, AbendAcknowledged, FreeHandleReturns, UseBuffer,
        AllocateBuffer, Assign, FreeBuffer, threadVars, vars
  <2> QED BY <2>1 DEF queueVars
<1> QED
  BY <1>2, <1>3, <1>4, <1>5, <1>6, <1>7 DEF Next, Freeing

\* Only AwaitLoaded and ReachIdle lead into the active states, and only the
\* way to Loaded or Invalid gives anything back.
LEMMA ActiveInvStep ==
    ASSUME "WaitForResources" \notin Targets, IInv, ActiveInv, [Next]_vars
    PROVE  ActiveInv'
<1> DEFINE Ready ==
        /\ currentState # "WaitForResources"
        /\ hpc = "waitLoaded" => held
        /\ currentState \in Active =>
               /\ hpc \notin {"close", "waitUnloaded"} => held
               /\ hpc # "waitUnloaded" => codecOpen /\ initialised
<1> USE DEF ActiveInv, ownedVars, threadVars, IInv, HandlerInv, TypeOK, Active
<1>1. CASE \/ SendCommand \/ CommandQueue \/ Freeing \/ UNCHANGED vars
           \/ \E p \in Ports : UseBuffer(p) \/ AllocateBuffer(p) \/ FreeBuffer(p)
  <2>1. UNCHANGED <<currentState, hpc, ownedVars>>
    BY <1>1
    DEF SendCommand, SendStateSet, SendFlush, SendPortDisable, SendPortEnable,
        CommandQueue, Freeing, FreeHandle, AbendAcknowledged,
        BaseComponent_Destructor, FreeHandleReturns, UseBuffer,
        AllocateBuffer, Assign, FreeBuffer, vars
  <2>2. Ready'
    BY <2>1
  <2> QED BY <2>2, TargetsStep
<1>2. CASE TakeMessage
  <2>1. hpc' \notin {"waitLoaded", "close", "waitUnloaded"}
    <3>1. Head(messageQ) \in Messages
      BY <1>2 DEF TakeMessage
    <3> QED BY <1>2, <3>1, MessagesFacts DEF TakeMessage
  <2>2. UNCHANGED <<currentState, ownedVars>> /\ hpc = "wait"
    BY <1>2 DEF TakeMessage
  <2>3. Ready'
    BY <2>1, <2>2
  <2> QED BY <2>3, TargetsStep
<1>3. CASE LoadedToIdle
  <2>1. Ready'
    BY <1>3 DEF LoadedToIdle, Starts, Conclude
  <2> QED BY <2>1, TargetsStep
<1>4. CASE AwaitLoaded
  <2>1. /\ currentState = "Loaded" /\ UNCHANGED currentState
        /\ \/ hpc' = "wait"
           \/ hpc' = "waitLoaded" /\ UNCHANGED held
    BY <1>4 DEF AwaitLoaded, Conclude
  <2> QED BY <1>4, <2>1, TargetsStep DEF AwaitLoaded
<1>5. CASE ReachIdle
  <2>1. Ready'
    BY <1>5 DEF ReachIdle, Conclude
  <2> QED BY <2>1, TargetsStep
<1>6. CASE IdleToLoaded \/ CloseDown \/ AwaitUnloaded
  <2>1. Ready'
    BY <1>6 DEF IdleToLoaded, CloseDown, AwaitUnloaded, Starts, Conclude
  <2> QED BY <2>1, TargetsStep
<1>7. CASE ActiveToIdle \/ ToExecuting \/ ToPause
  <2>1. Ready'
    BY <1>7 DEF ActiveToIdle, ToExecuting, ToPause, Starts, Conclude
  <2> QED BY <2>1, TargetsStep
<1>8. CASE Waiting
  <2>1. handling.cmd = "StateSet"
    BY <1>8 DEF Waiting, Starts, StateSetPlaces
  <2>2. handling.param = "WaitForResources"
    BY <1>8 DEF Waiting, Starts
  <2> QED BY <2>1, <2>2 DEF AsksForTargets
<1>9. CASE ToInvalid \/ CloseInvalid
  <2>1. Ready'
    BY <1>9 DEF ToInvalid, CloseInvalid, Conclude, Starts
  <2> QED BY <2>1, TargetsStep
<1>10. CASE \/ RefuseTransition \/ Flush \/ EnablePort
            \/ FlushToDisable \/ DisablePort \/ DisableWait \/ DeInit
  <2>1. UNCHANGED <<currentState, ownedVars>>
    BY <1>10
    DEF RefuseTransition, Flush, EnablePort, FlushToDisable, DisablePort,
        DisableWait, DeInit
  <2>2. /\ hpc' \notin {"waitLoaded", "close", "waitUnloaded"}
        /\ hpc \notin {"waitLoaded", "close", "waitUnloaded"}
    BY <1>10
    DEF RefuseTransition, Flush, EnablePort, FlushToDisable, DisablePort,
        DisableWait, DeInit, PortDone, Conclude
  <2>3. Ready'
    BY <2>1, <2>2
  <2> QED BY <2>3, TargetsStep
<1> QED
  BY <1>1, <1>2, <1>3, <1>4, <1>5, <1>6, <1>7, <1>8, <1>9, <1>10
  DEF Next, Handler

\* A client that never sends a component to WaitForResources finds it with
\* its resource, its codec and its buffer threads whenever it is at rest in
\* Idle, Executing or Pause, whatever has failed before.
THEOREM InitialisedWhenActive ==
    ASSUME "WaitForResources" \notin Targets
    PROVE  Spec => []ActiveIsInitialised
<1>1. Init => ActiveInv
  BY DEF Init, ActiveInv, AsksForTargets, NoMessage, Active
<1>2. IInv /\ ActiveInv => ActiveIsInitialised
  BY QuietHandler DEF ActiveInv, ActiveIsInitialised
<1>3. IInv /\ ActiveInv /\ [Next]_vars => ActiveInv'
  BY ActiveInvStep
<1> QED BY InitIInv, NextIInv, <1>1, <1>2, <1>3, PTL DEF Spec

-----------------------------------------------------------------------------
\* A component at rest has its resource, its codec and its threads in the
\* active states and has none of them in Loaded: for a client that does not
\* wait for resources, where nothing fails on the way to Idle.
THEOREM HeldWhenActiveOnly ==
    ASSUME Failures = {}, "WaitForResources" \notin Targets
    PROVE  Spec => []HeldMatchesState
  BY HoldsNothingInLoaded, InitialisedWhenActive, PTL DEF HeldMatchesState

-----------------------------------------------------------------------------
(* A client with one command outstanding.                                    *)

\* The command that is outstanding, wherever it is.
Current == IF handling # NoMessage THEN handling
           ELSE IF messageQ # <<>> THEN messageQ[1] ELSE sending

OneAtATime ==
    /\ handling # NoMessage => messageQ = <<>>
    /\ handling # NoMessage \/ messageQ # <<>> => sending = NoMessage
    /\ Len(messageQ) <= 1

SetsState(s) == Current.cmd = "StateSet" /\ Current.param = s

\* The ports that the command still has to visit, each once; the ones that it
\* has visited are as it wants them.
VisitPlaces == PortPlaces \cup {"waitLoaded", "waitUnloaded"}
ToVisit ==
    IF hpc \in VisitPlaces THEN InSeq(todo)
    ELSE IF Current.cmd \in Commands THEN InSeq(PortsOf(Current.param)) ELSE Ports
Once(s) == \A i, j \in 1 .. Len(s) : s[i] = s[j] => i = j
Visited ==
    /\ Once(todo)
    /\ Current.cmd = "PortEnable" =>
           \A p \in Ports \ ToVisit : p \in InSeq(PortsOf(Current.param)) => bEnabled[p]
    /\ Current.cmd = "PortDisable" =>
           \A p \in Ports \ ToVisit : p \in InSeq(PortsOf(Current.param)) => ~bEnabled[p]
    /\ hpc = "disableWait" => bEnabled[Head(todo)] /\ currentState # "Loaded"

\* The client gives port p its buffers for the command, or takes them back.
Fills(p) ==
    /\ p \in ToVisit
    /\ \/ SetsState("Idle") /\ currentState = "Loaded" /\ bEnabled[p]
       \/ Current.cmd = "PortEnable" /\ currentState # "Loaded"
Empties(p) ==
    /\ p \in ToVisit /\ bEnabled[p]
    /\ \/ SetsState("Loaded") /\ currentState = "Idle"
       \/ Current.cmd = "PortDisable" /\ currentState # "Loaded"

\* Whether the ports that are not to be visited any more have buffers.
Up == hpc = "waitLoaded" \/ (hpc # "waitUnloaded" /\ currentState # "Loaded")

Filling(p) ==
    /\ unloadedResource[p] = 0
    /\ IF assignedBufferNum[p] = nBufferCountActual[p]
       THEN loadedResource[p] = 1 ELSE loadedResource[p] = 0
    /\ bPopulated[p] <=> assignedBufferNum[p] = nBufferCountActual[p]
Emptying(p) ==
    /\ loadedResource[p] = 0
    /\ IF assignedBufferNum[p] = 0
       THEN unloadedResource[p] = 1 ELSE unloadedResource[p] = 0
    /\ hpc = "disableWait" /\ p = Head(todo) => ~bPopulated[p]
Settled(p, full) ==
    /\ loadedResource[p] = 0 /\ unloadedResource[p] = 0
    /\ assignedBufferNum[p] = IF full THEN nBufferCountActual[p] ELSE 0
    /\ bPopulated[p] <=> full

PortAgrees(p) ==
    /\ Fills(p) => Filling(p)
    /\ Empties(p) => Emptying(p)
    /\ ~Fills(p) /\ ~Empties(p) => Settled(p, Up /\ bEnabled[p])

\* What SendCommand announced is what the handler does.
Announced ==
    /\ SetsState("Idle") /\ currentState = "Loaded" => transientState = "LoadedToIdle"
    /\ currentState = "Executing" /\ ~SetsState("Idle") => transientState = "Max"

\* A component that is being destroyed does not come to Idle.
Destroyed ==
    /\ currentState = "Loaded"
    /\ Current.cmd \in {"None", "StateSet", "DeInit"}
    /\ Current.cmd = "StateSet" =>
           /\ fpc = "waitAbend" /\ abendState /\ Current.param = "Idle"
           /\ \E p \in ToVisit : p \in Ports /\ bEnabled[p]
    /\ fpc = "destroy" => Current = NoMessage

RestInv ==
    /\ OneAtATime /\ Visited /\ Announced
    /\ currentState \in {"Loaded", "Idle", "Executing"}
    /\ Current.cmd = "StateSet" => Current.param \in {"Loaded", "Idle", "Executing"}
    /\ abendStateEvent => abendState /\ Current = NoMessage /\ fpc = "waitAbend"
    /\ fpc = "none" => /\ ~abendState /\ Current.cmd # "DeInit"
                       /\ \A p \in Ports : PortAgrees(p)
    /\ fpc # "none" => Destroyed

\* The hypotheses: one command at a time, nothing fails on the way to Idle,
\* and the client moves between Loaded, Idle and Executing.
OneCommandClient ==
    MaxPending = 1 /\ Failures = {} /\ Targets \subseteq {"Loaded", "Idle", "Executing"}

LEMMA SpreadPorts ==
    /\ Once(AllPorts) /\ InSeq(AllPorts) = Ports
    /\ \A param \in PortParams : Once(PortsOf(param)) /\ InSeq(PortsOf(param)) \subseteq Ports
    /\ \A p \in Ports : InSeq(PortsOf(p)) = {p}
    /\ InSeq(PortsOf(ALL_PORT_INDEX)) = Ports
<1>1. Len(AllPorts) = NumPorts /\ \A i \in 1 .. NumPorts : AllPorts[i] = i - 1
  BY OmxComponentAssumption DEF AllPorts
<1>2. Once(AllPorts)
  BY <1>1, OmxComponentAssumption DEF Once
<1>3. InSeq(AllPorts) = Ports
  <2>1. InSeq(AllPorts) = {i - 1 : i \in 1 .. NumPorts}
    BY <1>1 DEF InSeq
  <2>2. \A p \in Ports : p + 1 \in 1 .. NumPorts /\ p = (p + 1) - 1
    BY OmxComponentAssumption DEF Ports
  <2>3. \A i \in 1 .. NumPorts : i - 1 \in Ports
    BY OmxComponentAssumption DEF Ports
  <2> QED BY <2>1, <2>2, <2>3
<1>4. \A p \in Ports : PortsOf(p) = <<p>>
  BY OmxComponentAssumption DEF PortsOf, ALL_PORT_INDEX, Ports
<1>5. \A p : Once(<<p>>) /\ InSeq(<<p>>) = {p}
  BY DEF Once, InSeq
<1>6. PortsOf(ALL_PORT_INDEX) = AllPorts
  BY DEF PortsOf
<1> QED BY <1>2, <1>3, <1>4, <1>5, <1>6 DEF PortParams

\* A port that has been visited is not visited again.
LEMMA VisitNext ==
    ASSUME NEW s \in Seq(Ports), s # <<>>, Once(s)
    PROVE  /\ Head(s) \in InSeq(s) /\ Head(s) \in Ports
           /\ Tail(s) \in Seq(Ports) /\ Once(Tail(s))
           /\ InSeq(Tail(s)) = InSeq(s) \ {Head(s)}
           /\ Len(s) = 1 => InSeq(s) = {Head(s)}
<1>1. Len(s) \in Nat /\ Len(s) # 0 /\ Head(s) = s[1]
  BY EmptySeq
<1>2. /\ Tail(s) \in Seq(Ports) /\ Len(Tail(s)) = Len(s) - 1
      /\ \A i \in 1 .. Len(s) - 1 : Tail(s)[i] = s[i + 1]
  BY HeadTailProperties
<1>3. Once(Tail(s))
  BY <1>1, <1>2 DEF Once
<1>4. InSeq(Tail(s)) = InSeq(s) \ {Head(s)}
  <2>1. ASSUME NEW x \in InSeq(Tail(s))
        PROVE  x \in InSeq(s) \ {Head(s)}
    <3>1. PICK i \in 1 .. Len(s) - 1 : x = s[i + 1]
      BY <1>2, <2>1 DEF InSeq
    <3> QED BY <1>1, <3>1 DEF InSeq, Once
  <2>2. ASSUME NEW x \in InSeq(s) \ {Head(s)}
        PROVE  x \in InSeq(Tail(s))
    <3>1. PICK i \in 1 .. Len(s) : x = s[i]
      BY <2>2 DEF InSeq
    <3>2. i # 1
      BY <1>1, <2>2, <3>1
    <3>3. i - 1 \in 1 .. Len(Tail(s)) /\ x = Tail(s)[i - 1]
      BY <1>1, <1>2, <3>1, <3>2
    <3> QED BY <3>3 DEF InSeq
  <2> QED BY <2>1, <2>2
<1>5. Len(s) = 1 => InSeq(s) = {Head(s)}
  BY <1>1 DEF InSeq
<1>6. Head(s) \in InSeq(s) /\ Head(s) \in Ports
  BY <1>1 DEF InSeq
<1> QED BY <1>2, <1>3, <1>4, <1>5, <1>6

\* What is outstanding is the current command and nothing else.
LEMMA CurrentFacts ==
    ASSUME IInv, OneAtATime
    PROVE  /\ Current \in Messages \cup {NoMessage}
           /\ Quiet <=> Current = NoMessage
           /\ Current # NoMessage => Pending = <<Current>>
           /\ Current.cmd = "None" <=> Current = NoMessage
           /\ Len(Pending) < 1 => Quiet
           /\ Current = NoMessage =>
                  handling = NoMessage /\ messageQ = <<>> /\ sending = NoMessage
<1>1. /\ handling \in Messages \cup {NoMessage} /\ sending \in Messages \cup {NoMessage}
      /\ messageQ \in Seq(Messages)
  BY DEF IInv, TypeOK
<1>2. \A m \in Messages : m # NoMessage /\ m.cmd # "None"
  BY MessagesFacts
<1>3. CASE handling # NoMessage
  <2>1. Pending = <<handling>> \o <<>> \o <<>> /\ Current = handling /\ Current \in Messages
    BY <1>1, <1>3 DEF Pending, OneAtATime, Current
  <2>2. Pending = <<Current>>
    BY <2>1
  <2>3. Len(Pending) = 1 /\ Pending # <<>>
    BY <2>2
  <2> QED BY <1>2, <2>1, <2>2, <2>3 DEF Quiet
<1>4. CASE handling = NoMessage /\ messageQ # <<>>
  <2>1. messageQ = <<messageQ[1]>> /\ messageQ[1] \in Messages
    <3>1. PICK n \in Nat : Len(messageQ) = n /\ n # 0 /\ n <= 1
      <4>1. Len(messageQ) \in Nat \ {0}
        BY <1>1, <1>4, EmptySeq
      <4> QED BY <4>1 DEF OneAtATime
    <3>2. Len(messageQ) = 1
      <4>1. n = 1
        BY <3>1
      <4> QED BY <3>1, <4>1
    <3>3. messageQ[1] \in Messages
      <4>1. 1 \in 1 .. Len(messageQ)
        BY <3>2
      <4> QED BY <1>1, <4>1, ElementOfSeq, Zenon
    <3>4. <<messageQ[1]>> \in Seq(Messages) /\ Len(<<messageQ[1]>>) = 1
          /\ <<messageQ[1]>>[1] = messageQ[1]
      BY <3>3
    <3> QED BY <1>1, <3>2, <3>3, <3>4, SeqEqual
  <2>2. Pending = <<>> \o messageQ \o <<>> /\ Current = messageQ[1]
    BY <1>4 DEF Pending, OneAtATime, Current
  <2>3. Pending = <<Current>>
    BY <1>1, <2>1, <2>2
  <2>4. Len(Pending) = 1 /\ Pending # <<>>
    BY <2>3
  <2> QED BY <1>2, <2>1, <2>2, <2>3, <2>4 DEF Quiet
<1>5. CASE handling = NoMessage /\ messageQ = <<>> /\ sending # NoMessage
  <2>1. Pending = <<>> \o <<>> \o <<sending>> /\ Current = sending /\ sending \in Messages
    BY <1>1, <1>5 DEF Pending, Current
  <2>2. Pending = <<Current>>
    BY <2>1
  <2>3. Len(Pending) = 1 /\ Pending # <<>>
    BY <2>2
  <2> QED BY <1>2, <2>1, <2>2, <2>3 DEF Quiet
<1>6. CASE handling = NoMessage /\ messageQ = <<>> /\ sending = NoMessage
  <2>1. Pending = <<>> \o <<>> \o <<>> /\ Current = NoMessage
    BY <1>6 DEF Pending, Current
  <2>2. Pending = <<>>
    BY <2>1
  <2> QED BY <1>6, <2>1, <2>2 DEF Quiet, NoMessage
<1> QED BY <1>3, <1>4, <1>5, <1>6

LEMMA AskedFacts ==
    ASSUME IInv, OneAtATime, NEW c, NEW S, Asked(c, S)
    PROVE  Current # NoMessage /\ Current.cmd = c /\ Current.param \in S
<1>1. Current # NoMessage
  <2>1. SUFFICES ASSUME Current = NoMessage PROVE FALSE
    OBVIOUS
  <2>2. Pending = <<>>
    BY <2>1, CurrentFacts DEF Quiet
  <2>3. Len(Pending) = 0
    BY <2>2
  <2> QED BY <2>3 DEF Asked
<1>2. Pending = <<Current>>
  BY <1>1, CurrentFacts
<1> QED BY <1>1, <1>2 DEF Asked

\* Where the handler is with the current command.
LEMMA CurrentPlace ==
    ASSUME IInv, OneAtATime
    PROVE  /\ hpc \notin {"wait", "exit"} => Current = handling /\ Current # NoMessage
           /\ hpc \in StateSetPlaces => Current.cmd = "StateSet"
           /\ hpc = "waitLoaded" => Current.param = "Idle" /\ currentState = "Loaded"
           /\ hpc \in {"close", "waitUnloaded"} =>
                  Current.param = "Loaded" /\ currentState = "Idle"
           /\ hpc = "Flush" => Current.cmd = "Flush"
           /\ hpc = "PortEnable" => Current.cmd = "PortEnable"
           /\ hpc \in DisablePlaces => Current.cmd = "PortDisable"
           /\ hpc = "DeInit" => Current.cmd = "DeInit"
           /\ hpc \in PortPlaces => Current.cmd \in Commands /\ todo # <<>>
<1>1. hpc \notin {"wait", "exit"} => Current = handling /\ handling # NoMessage
  BY HandlingFacts DEF Current
<1> QED BY <1>1 DEF IInv, HandlerInv, StateSetPlaces, DisablePlaces, PortPlaces

-----------------------------------------------------------------------------
(* The steps that leave the ports alone.                                     *)

restVars == <<currentState, transientState, bEnabled, bPopulated, assignedBufferNum,
              loadedResource, unloadedResource, hpc, todo, abendState,
              abendStateEvent, fpc>>

\* The same command elsewhere on its way to the handler.
LEMMA SameRest ==
    ASSUME RestInv, OneAtATime', Current' = Current, UNCHANGED restVars
    PROVE  RestInv'
<1>1. ToVisit' = ToVisit
  BY DEF ToVisit, restVars
<1>2. Visited' /\ Announced'
  BY <1>1 DEF Visited, Announced, SetsState, RestInv, restVars
<1>3. ASSUME NEW p \in Ports
      PROVE  PortAgrees(p)' <=> PortAgrees(p)
  <2>1. (Fills(p)' <=> Fills(p)) /\ (Empties(p)' <=> Empties(p)) /\ (Up' <=> Up)
    BY <1>1 DEF Fills, Empties, Up, SetsState, restVars
  <2>2. /\ (Filling(p)' <=> Filling(p)) /\ (Emptying(p)' <=> Emptying(p))
        /\ (Settled(p, Up /\ bEnabled[p])' <=> Settled(p, Up /\ bEnabled[p]))
    BY <2>1 DEF Filling, Emptying, Settled, restVars
  <2> QED BY <2>1, <2>2 DEF PortAgrees
<1>4. Destroyed' <=> Destroyed
  BY <1>1 DEF Destroyed, restVars
<1> QED BY <1>2, <1>3, <1>4 DEF RestInv, restVars

LEMMA CommandQueueRest ==
    ASSUME IInv, RestInv, CommandQueue
    PROVE  RestInv'
<1>1. messageQ = <<>> /\ handling = NoMessage /\ sending # NoMessage /\ sending \in Messages
  BY DEF RestInv, OneAtATime, CommandQueue, IInv, TypeOK
<1>2. messageQ' = <<sending>> /\ sending' = NoMessage /\ UNCHANGED handling
  BY <1>1, OmxComponentAssumption DEF CommandQueue, threadVars
<1>3. messageQ' # <<>> /\ messageQ'[1] = sending /\ Len(messageQ') = 1
  BY <1>2
<1>4. Current' = Current /\ OneAtATime'
  BY <1>1, <1>2, <1>3 DEF Current, OneAtATime
<1>5. UNCHANGED restVars
  BY DEF CommandQueue, restVars, flagVars, portVars, bufferVars, threadVars, freeVars
<1> QED BY <1>4, <1>5, SameRest

\* A command is accepted when none is outstanding.
LEMMA AcceptedRest ==
    ASSUME IInv, RestInv, ClientMaySend, NEW m \in Messages,
           sending' = m, m.cmd # "DeInit", UNCHANGED <<messageQ, handling>>,
           Len(Pending) < 1,
           UNCHANGED <<currentState, bEnabled, bPopulated, assignedBufferNum, hpc, todo,
                       loadedResource, unloadedResource, abendState, abendStateEvent, fpc>>,
           m.cmd = "StateSet" => m.param \in {"Loaded", "Idle", "Executing"},
           m.cmd = "PortEnable" => \A p \in InSeq(PortsOf(m.param)) : ~bEnabled[p],
           /\ m.cmd = "StateSet" /\ m.param = "Idle" /\ currentState = "Loaded" =>
                  transientState' = "LoadedToIdle"
           /\ (m.cmd # "StateSet" \/ m.param # "Idle") /\ currentState = "Executing" =>
                  UNCHANGED transientState
    PROVE  RestInv'
<1>1. Quiet /\ Current = NoMessage /\ OneAtATime
  BY CurrentFacts DEF RestInv
<1>2. handling = NoMessage /\ messageQ = <<>> /\ hpc \in {"wait", "exit"}
  BY <1>1, CurrentFacts, QuietHandler
<1>3. Current' = m /\ OneAtATime' /\ m # NoMessage
  BY <1>2, MessagesFacts DEF Current, OneAtATime
<1>4. hpc \notin VisitPlaces /\ hpc # "disableWait"
  BY <1>2 DEF VisitPlaces, PortPlaces, DisablePlaces
<1>5. /\ ToVisit = Ports
      /\ ToVisit' = IF m.cmd \in Commands THEN InSeq(PortsOf(m.param)) ELSE Ports
  BY <1>1, <1>3, <1>4, OmxComponentAssumption DEF ToVisit, NoMessage
<1>6. Announced'
  BY <1>1, <1>3 DEF Announced, SetsState, RestInv, NoMessage
<1>7. Visited'
  <2>1. Once(todo')
    BY DEF RestInv, Visited
  <2>2. m.cmd \in {"PortEnable", "PortDisable"} => m.cmd \in Commands
    BY MessagesFacts
  <2> QED BY <1>3, <1>4, <1>5, <2>1, <2>2 DEF Visited
<1>8. fpc = "none" /\ ~abendState /\ ~abendStateEvent
  BY DEF ClientMaySend, RestInv
<1>9. ASSUME NEW p \in Ports
      PROVE  PortAgrees(p)'
  <2>1. ~Fills(p) /\ ~Empties(p) /\ (Up' <=> Up)
    BY <1>1 DEF Fills, Empties, SetsState, NoMessage, Up
  <2>2. Settled(p, Up /\ bEnabled[p])
    BY <1>8, <2>1 DEF RestInv, PortAgrees
  <2>3. Up <=> currentState # "Loaded"
    BY <1>2 DEF Up
  <2>4. nBufferCountActual[p] # 0
    BY OmxComponentAssumption
  <2>5. Fills(p)' => assignedBufferNum[p] = 0 /\ ~bPopulated[p]
    <3>1. CASE m.cmd = "StateSet"
      BY <1>3, <2>2, <2>3, <3>1 DEF Fills, SetsState, Settled
    <3>2. CASE m.cmd = "PortEnable"
      <4>1. m.cmd \in Commands
        BY <3>2, MessagesFacts
      <4> QED BY <1>3, <1>5, <2>2, <3>2, <4>1 DEF Fills, SetsState, Settled
    <3> QED BY <1>3, <3>1, <3>2 DEF Fills, SetsState
  <2>6. Fills(p)' => Filling(p)'
    BY <2>2, <2>4, <2>5 DEF Settled, Filling
  <2>7. Empties(p)' => assignedBufferNum[p] = nBufferCountActual[p]
    BY <1>3, <2>2, <2>3 DEF Empties, SetsState, Settled
  <2>8. Empties(p)' => Emptying(p)'
    BY <1>4, <2>2, <2>4, <2>7 DEF Settled, Emptying
  <2>9. Settled(p, Up /\ bEnabled[p])'
    BY <2>1, <2>2 DEF Settled
  <2> QED BY <2>6, <2>8, <2>9 DEF PortAgrees
<1> QED BY <1>3, <1>6, <1>7, <1>8, <1>9 DEF RestInv

LEMMA SendCommandRest ==
    ASSUME OneCommandClient, IInv, RestInv, SendCommand
    PROVE  RestInv'
<1> USE DEF portVars, bufferVars, threadVars, freeVars, OneCommandClient
<1>1. ClientMaySend /\ Len(Pending) < 1
  BY DEF SendCommand, SendStateSet, SendFlush, SendPortDisable, SendPortEnable, ClientMaySend
<1>2. /\ UNCHANGED <<messageQ, handling>>
      /\ UNCHANGED <<currentState, bEnabled, bPopulated, assignedBufferNum, hpc, todo,
                     loadedResource, unloadedResource, abendState, abendStateEvent, fpc>>
  BY DEF SendCommand, SendStateSet, SendFlush, SendPortDisable, SendPortEnable
<1>3. ASSUME NEW s \in Targets, SendStateSet(s)
      PROVE  RestInv'
  <2>1. Message("StateSet", s) \in Messages /\ sending' = Message("StateSet", s)
    BY <1>3, OmxComponentAssumption DEF Messages, SendStateSet
  <2>2. /\ s = "Idle" /\ currentState = "Loaded" => transientState' = "LoadedToIdle"
        /\ s # "Idle" /\ currentState = "Executing" => UNCHANGED transientState
    BY <1>3 DEF SendStateSet
  <2> QED BY <1>1, <1>2, <2>1, <2>2, AcceptedRest DEF Message
<1>4. ASSUME UNCHANGED <<transientState, sending>>
      PROVE  RestInv'
  <2>1. Current' = Current /\ OneAtATime'
    BY <1>2, <1>4 DEF Current, OneAtATime, RestInv
  <2> QED BY <1>2, <1>4, <2>1, SameRest DEF restVars
<1>5. ASSUME NEW p \in PortParams, "Flush" \in Commands, SendFlush(p)
      PROVE  RestInv'
  <2>1. /\ Message("Flush", p) \in Messages /\ sending' = Message("Flush", p)
        /\ UNCHANGED transientState
    BY <1>5 DEF Messages, SendFlush
  <2> QED BY <1>1, <1>2, <2>1, AcceptedRest DEF Message
<1>6. ASSUME NEW p \in PortParams, "PortDisable" \in Commands, SendPortDisable(p)
      PROVE  RestInv'
  <2>1. UNCHANGED transientState /\ sending = NoMessage
        /\ sending' \in {Message("PortDisable", p), NoMessage}
    BY <1>6 DEF SendPortDisable, ClientMaySend
  <2>2. CASE sending' = Message("PortDisable", p)
    <3>1. Message("PortDisable", p) \in Messages
      BY <1>6 DEF Messages
    <3> QED BY <1>1, <1>2, <2>1, <2>2, <3>1, AcceptedRest DEF Message
  <2> QED BY <1>4, <2>1, <2>2
<1>7. ASSUME NEW p \in PortParams, "PortEnable" \in Commands, SendPortEnable(p)
      PROVE  RestInv'
  <2>1. UNCHANGED transientState /\ sending = NoMessage
        /\ sending' \in {Message("PortEnable", p), NoMessage}
    BY <1>7 DEF SendPortEnable, ClientMaySend
  <2>2. CASE sending' = Message("PortEnable", p)
    <3>1. Message("PortEnable", p) \in Messages
      BY <1>7 DEF Messages
    <3>2. \A q \in InSeq(PortsOf(p)) : ~bEnabled[q]
      <4>1. CASE p = ALL_PORT_INDEX
        <5>1. VisitedBefore(EnabledPorts) = Ports
          BY <1>7, <2>2, <4>1 DEF SendPortEnable, Message, NoMessage
        <5>2. \A q \in Ports : q \in 0 .. q
          BY OmxComponentAssumption DEF Ports
        <5> QED BY <4>1, <5>1, <5>2, SpreadPorts DEF VisitedBefore, EnabledPorts
      <4>2. CASE p # ALL_PORT_INDEX
        <5>1. p \in Ports /\ InSeq(PortsOf(p)) = {p}
          BY <4>2, SpreadPorts DEF PortParams
        <5>2. {p} \ EnabledPorts # {}
          BY <1>7, <2>2, <4>2 DEF SendPortEnable, Message, NoMessage
        <5> QED BY <5>1, <5>2 DEF EnabledPorts
      <4> QED BY <4>1, <4>2
    <3> QED BY <1>1, <1>2, <2>1, <2>2, <3>1, <3>2, AcceptedRest DEF Message
  <2> QED BY <1>4, <2>1, <2>2
<1> QED BY <1>3, <1>5, <1>6, <1>7 DEF SendCommand

\* The handler takes the command: what it has to visit stays the same.
LEMMA TakeMessageRest ==
    ASSUME IInv, RestInv, TakeMessage
    PROVE  RestInv'
<1>1. /\ handling = NoMessage /\ messageQ # <<>> /\ messageQ \in Seq(Messages)
      /\ sending = NoMessage /\ Len(messageQ) <= 1
  BY DEF TakeMessage, IInv, TypeOK, HandlerInv, RestInv, OneAtATime
<1>2. Head(messageQ) = messageQ[1] /\ Head(messageQ) \in Messages
  BY <1>1
<1>3. messageQ' = <<>>
  <2>1. Len(Tail(messageQ)) = Len(messageQ) - 1 /\ Tail(messageQ) \in Seq(Messages)
        /\ Len(messageQ) \in Nat
    BY <1>1, HeadTailProperties
  <2>2. Len(Tail(messageQ)) \notin Nat \ {0}
    BY <1>1, <2>1
  <2> QED BY <2>1, <2>2, EmptySeq DEF TakeMessage
<1>4. Current = Head(messageQ) /\ Current' = Current /\ OneAtATime'
  BY <1>1, <1>2, <1>3, MessagesFacts, EmptySeq DEF TakeMessage, Current, OneAtATime, queueVars
<1>5. UNCHANGED <<currentState, transientState, bEnabled, bPopulated, assignedBufferNum,
                  loadedResource, unloadedResource, abendState, abendStateEvent, fpc>>
  BY DEF TakeMessage, flagVars, portVars, bufferVars, freeVars
<1>6. hpc = "wait" /\ hpc' = Current.cmd /\ Current # NoMessage
      /\ todo' = IF Current.cmd \in Commands THEN PortsOf(Current.param) ELSE <<>>
  BY <1>2, <1>4, MessagesFacts DEF TakeMessage
<1>7. /\ Current.cmd \in {"StateSet", "DeInit", "Flush", "PortDisable", "PortEnable"}
      /\ Current.cmd \in {"Flush", "PortDisable", "PortEnable"} =>
             Current.cmd \in Commands /\ Current.param \in PortParams
  BY <1>2, <1>4, MessagesFacts
<1>8. Current.cmd \in Commands => Current.cmd \in {"Flush", "PortDisable", "PortEnable"}
  BY OmxComponentAssumption
<1>9. ToVisit' = ToVisit /\ Once(todo')
  <2>1. hpc \notin VisitPlaces
    BY <1>6 DEF VisitPlaces, PortPlaces, DisablePlaces
  <2>2. hpc' \in VisitPlaces <=> Current.cmd \in Commands
    BY <1>6, <1>7, <1>8 DEF VisitPlaces, PortPlaces, DisablePlaces
  <2>3. Once(todo')
    BY <1>6, <1>7, <1>8, SpreadPorts DEF Once
  <2> QED BY <1>4, <1>6, <2>1, <2>2, <2>3 DEF ToVisit
<1>10. hpc' \notin {"disableWait", "waitLoaded", "waitUnloaded"} /\ hpc # "disableWait"
  BY <1>6, <1>7
<1>11. Visited' /\ Announced'
  BY <1>4, <1>5, <1>9, <1>10 DEF Visited, Announced, SetsState, RestInv
<1>12. ASSUME NEW p \in Ports
       PROVE  PortAgrees(p)' <=> PortAgrees(p)
  <2>1. (Fills(p)' <=> Fills(p)) /\ (Empties(p)' <=> Empties(p)) /\ (Up' <=> Up)
    BY <1>4, <1>5, <1>6, <1>9, <1>10 DEF Fills, Empties, Up, SetsState
  <2>2. /\ (Filling(p)' <=> Filling(p)) /\ (Emptying(p)' <=> Emptying(p))
        /\ (Settled(p, Up /\ bEnabled[p])' <=> Settled(p, Up /\ bEnabled[p]))
    BY <1>5, <1>10, <2>1 DEF Filling, Emptying, Settled
  <2> QED BY <2>1, <2>2 DEF PortAgrees
<1>13. Destroyed' <=> Destroyed
  BY <1>4, <1>5, <1>9 DEF Destroyed
<1> QED BY <1>4, <1>5, <1>11, <1>12, <1>13 DEF RestInv

\* The client begins to destroy the component, at rest or on its way to Idle.
LEMMA FreeHandleRest ==
    ASSUME IInv, RestInv, FreeHandle
    PROVE  RestInv'
<1>1. UNCHANGED <<currentState, transientState, bEnabled, hpc, todo, handling, messageQ,
                  sending, abendStateEvent>> /\ fpc = "none" /\ fpc' # "none"
  BY DEF FreeHandle, ClientMayFree, flagVars, portVars, threadVars, queueVars
<1>2. Current' = Current /\ ToVisit' = ToVisit /\ OneAtATime'
  BY <1>1 DEF Current, ToVisit, RestInv, OneAtATime
<1>3. Visited' /\ Announced'
  BY <1>1, <1>2 DEF Visited, Announced, SetsState, RestInv
<1>4. currentState \in {"Loaded", "Idle", "Executing"} /\ ~abendStateEvent
  BY <1>1 DEF RestInv
<1>5. Destroyed'
  <2>1. CASE Quiet /\ currentState \in {"Loaded", "Invalid"}
    <3>1. Current = NoMessage
      BY <2>1, CurrentFacts DEF RestInv
    <3> QED BY <1>1, <1>2, <1>4, <2>1, <3>1 DEF Destroyed, NoMessage
  <2>2. CASE /\ Pending = <<Message("StateSet", "Idle")>>
             /\ currentState = "Loaded"
             /\ \E p \in Ports : bEnabled[p] /\ assignedBufferNum[p] < nBufferCountActual[p]
    <3>1. Current = Message("StateSet", "Idle")
      <4>1. Len(Pending) = 1 /\ Pending[1] = Message("StateSet", "Idle")
        BY <2>2
      <4>2. Current # NoMessage
        <5>1. Current = NoMessage => Pending = <<>>
          BY CurrentFacts DEF RestInv, Quiet
        <5>2. Len(<<>>) = 0
          BY EmptySeq
        <5> QED BY <4>1, <5>1, <5>2
      <4>3. Pending = <<Current>>
        BY <4>2, CurrentFacts DEF RestInv
      <4> QED BY <4>1, <4>3
    <3>2. SetsState("Idle")
      BY <3>1 DEF SetsState, Message
    <3>3. fpc' = "waitAbend" /\ abendState'
      BY <2>2, <3>2 DEF FreeHandle, RestInv, Announced
    <3>4. PICK p \in Ports : bEnabled[p] /\ assignedBufferNum[p] < nBufferCountActual[p]
      BY <2>2
    <3>5. p \in ToVisit
      <4>1. SUFFICES ASSUME p \notin ToVisit PROVE FALSE
        OBVIOUS
      <4>2. ~Fills(p) /\ ~Empties(p)
        BY <4>1 DEF Fills, Empties
      <4>3. hpc \in VisitPlaces
        BY <3>2, <4>1, OmxComponentAssumption DEF ToVisit, SetsState
      <4>4. hpc = "waitLoaded"
        BY <3>2, <4>3, CurrentPlace DEF RestInv, VisitPlaces, PortPlaces, DisablePlaces,
              SetsState, StateSetPlaces
      <4>5. Settled(p, Up /\ bEnabled[p])
        BY <1>1, <4>2 DEF RestInv, PortAgrees
      <4>6. assignedBufferNum[p] = nBufferCountActual[p] /\ nBufferCountActual[p] \in Nat
        BY <3>4, <4>4, <4>5, OmxComponentAssumption DEF Settled, Up
      <4> QED BY <3>4, <4>6
    <3>6. Current'.cmd = "StateSet" /\ Current'.param = "Idle" /\ fpc' # "destroy"
      BY <1>2, <3>2, <3>3 DEF SetsState
    <3> QED BY <1>1, <1>2, <2>2, <3>3, <3>4, <3>5, <3>6 DEF Destroyed
  <2> QED BY <2>1, <2>2 DEF FreeHandle, ClientMayFree
<1> QED BY <1>1, <1>2, <1>3, <1>4, <1>5 DEF RestInv

\* Then the destructor goes on when nothing is outstanding.
LEMMA DestroyRest ==
    ASSUME IInv, RestInv, AbendAcknowledged \/ BaseComponent_Destructor \/ FreeHandleReturns
    PROVE  RestInv'
<1> USE DEF flagVars, portVars, bufferVars, threadVars, queueVars
<1>1. UNCHANGED <<currentState, transientState, bEnabled, hpc, todo, handling, sending>>
      /\ fpc # "none" /\ fpc' # "none" /\ Destroyed /\ UNCHANGED abendState
  BY DEF AbendAcknowledged, BaseComponent_Destructor, FreeHandleReturns, RestInv
<1>2. ASSUME UNCHANGED messageQ, abendStateEvent' => abendStateEvent /\ UNCHANGED fpc,
             fpc' = "destroy" => Current = NoMessage,
             Current.cmd = "StateSet" => UNCHANGED fpc
      PROVE  RestInv'
  <2>1. Current' = Current /\ ToVisit' = ToVisit /\ OneAtATime'
    BY <1>1, <1>2 DEF Current, ToVisit, RestInv, OneAtATime
  <2>2. Visited' /\ Announced' /\ Destroyed'
    BY <1>1, <1>2, <2>1 DEF Visited, Announced, SetsState, RestInv, Destroyed
  <2> QED BY <1>1, <1>2, <2>1, <2>2 DEF RestInv
<1>3. CASE AbendAcknowledged
  <2>1. Current = NoMessage
    BY <1>3 DEF AbendAcknowledged, RestInv
  <2> QED BY <1>2, <1>3, <2>1 DEF AbendAcknowledged, NoMessage
<1>4. CASE FreeHandleReturns
  <2>1. Current.cmd # "StateSet"
    BY <1>1, <1>4 DEF FreeHandleReturns, Destroyed
  <2>2. ~abendStateEvent
    BY <1>4 DEF FreeHandleReturns, RestInv
  <2> QED BY <1>2, <1>4, <2>1, <2>2 DEF FreeHandleReturns
<1>5. CASE BaseComponent_Destructor
  <2>1. Current = NoMessage /\ fpc' = "join"
    BY <1>1, <1>5 DEF BaseComponent_Destructor, Destroyed
  <2>2. handling = NoMessage /\ messageQ = <<>> /\ sending = NoMessage
    BY <2>1, CurrentFacts DEF RestInv
  <2>3. messageQ' = <<Message("DeInit", 0)>>
    BY <1>5, <2>2 DEF BaseComponent_Destructor
  <2>4. messageQ' # <<>> /\ messageQ'[1] = Message("DeInit", 0) /\ Len(messageQ') = 1
    BY <2>3
  <2>5. Current' = Message("DeInit", 0) /\ OneAtATime'
    BY <1>1, <2>2, <2>4 DEF Current, OneAtATime
  <2>6. hpc \in {"wait", "exit"} /\ ~abendStateEvent'
    <3>1. Quiet
      BY <2>1, CurrentFacts DEF RestInv
    <3>2. ~abendStateEvent'
      BY <1>5 DEF BaseComponent_Destructor, RestInv
    <3> QED BY <3>1, <3>2, QuietHandler
  <2>7. Visited' /\ Announced' /\ Destroyed'
    BY <1>1, <2>1, <2>5, <2>6 DEF Visited, Announced, SetsState, RestInv, Destroyed, Message
  <2> QED BY <1>1, <2>1, <2>5, <2>6, <2>7 DEF RestInv, Message
<1> QED BY <1>3, <1>4, <1>5

-----------------------------------------------------------------------------
(* The buffers.                                                              *)

\* A step that changes one port's buffers.
LEMMA OnePort ==
    ASSUME RestInv, NEW p \in Ports, fpc = "none", PortAgrees(p)',
           \A q \in Ports \ {p} :
               /\ assignedBufferNum'[q] = assignedBufferNum[q]
               /\ bPopulated'[q] <=> bPopulated[q]
               /\ loadedResource'[q] = loadedResource[q]
               /\ unloadedResource'[q] = unloadedResource[q],
           UNCHANGED <<currentState, transientState, bEnabled, hpc, todo, handling, messageQ,
                       sending, abendState, abendStateEvent, fpc>>
    PROVE  RestInv'
<1>1. Current' = Current /\ ToVisit' = ToVisit /\ OneAtATime'
  BY DEF Current, ToVisit, RestInv, OneAtATime
<1>2. Visited' /\ Announced'
  BY <1>1 DEF Visited, Announced, SetsState, RestInv
<1>3. ASSUME NEW q \in Ports \ {p}
      PROVE  PortAgrees(q)'
  <2>1. (Fills(q)' <=> Fills(q)) /\ (Empties(q)' <=> Empties(q)) /\ (Up' <=> Up)
    BY <1>1 DEF Fills, Empties, Up, SetsState
  <2>2. /\ (Filling(q)' <=> Filling(q)) /\ (Emptying(q)' <=> Emptying(q))
        /\ (Settled(q, Up /\ bEnabled[q])' <=> Settled(q, Up /\ bEnabled[q]))
    BY <2>1 DEF Filling, Emptying, Settled
  <2> QED BY <2>1, <2>2 DEF PortAgrees, RestInv
<1> QED BY <1>1, <1>2, <1>3 DEF RestInv

LEMMA AssignRest ==
    ASSUME IInv, RestInv, NEW p \in Ports, MayAssign(p), Assign(p)
    PROVE  RestInv'
<1>1. /\ assignedBufferNum \in [Ports -> Nat] /\ loadedResource \in [Ports -> Nat]
      /\ bPopulated \in [Ports -> BOOLEAN]
      /\ nBufferCountActual[p] \in Nat \ {0} /\ assignedBufferNum[p] < nBufferCountActual[p]
  BY OmxComponentAssumption DEF IInv, TypeOK, Assign
<1>2. UNCHANGED <<currentState, transientState, bEnabled, hpc, todo, handling, messageQ,
                  sending, abendState, abendStateEvent, fpc, unloadedResource>>
  BY DEF Assign, flagVars, queueVars, threadVars, freeVars
<1>3. fpc = "none" /\ PortAgrees(p)
  BY DEF MayAssign, RestInv
<1>4. Fills(p)
  <2>1. \/ currentState = "Loaded" /\ bEnabled[p] /\ SetsState("Idle")
        \/ /\ currentState # "Loaded" /\ Current.cmd = "PortEnable"
           /\ Current.param \in {p, ALL_PORT_INDEX}
    BY AskedFacts DEF MayAssign, RestInv, SetsState
  <2>2. p \in ToVisit
    <3>1. SUFFICES ASSUME p \notin ToVisit PROVE FALSE
      OBVIOUS
    <3>2. Settled(p, Up /\ bEnabled[p])
      BY <1>3, <3>1 DEF PortAgrees, Fills, Empties
    <3>3. ~(Up /\ bEnabled[p])
      BY <1>1, <3>2 DEF Settled
    <3>4. CASE currentState = "Loaded" /\ bEnabled[p] /\ SetsState("Idle")
      <4>1. hpc \in VisitPlaces
        BY <3>1, <3>4, OmxComponentAssumption DEF ToVisit, SetsState
      <4>2. hpc = "waitLoaded"
        BY <3>4, <4>1, CurrentPlace DEF RestInv, VisitPlaces, PortPlaces, DisablePlaces,
              SetsState, StateSetPlaces
      <4> QED BY <3>3, <3>4, <4>2 DEF Up
    <3>5. CASE /\ currentState # "Loaded" /\ Current.cmd = "PortEnable"
               /\ Current.param \in {p, ALL_PORT_INDEX}
      <4>1. p \in InSeq(PortsOf(Current.param))
        BY <3>5, SpreadPorts
      <4>2. bEnabled[p]
        BY <3>1, <3>5, <4>1 DEF RestInv, Visited
      <4>3. hpc # "waitUnloaded"
        BY <3>5, CurrentPlace DEF RestInv, StateSetPlaces
      <4> QED BY <3>3, <3>5, <4>2, <4>3 DEF Up
    <3> QED BY <2>1, <3>4, <3>5
  <2> QED BY <2>1, <2>2 DEF Fills
<1>5. loadedResource[p] = 0 /\ unloadedResource[p] = 0 /\ ~bPopulated[p]
  BY <1>1, <1>3, <1>4 DEF PortAgrees, Filling
<1>6. PICK full \in BOOLEAN :
          /\ full <=> assignedBufferNum[p] + 1 = nBufferCountActual[p]
          /\ bPopulated' = [bPopulated EXCEPT ![p] = bPopulated[p] \/ full]
          /\ loadedResource' = [loadedResource EXCEPT ![p] = IF full THEN loadedResource[p] + 1
                                                             ELSE loadedResource[p]]
  BY Zenon DEF Assign
<1>7. assignedBufferNum' = [assignedBufferNum EXCEPT ![p] = assignedBufferNum[p] + 1]
  BY DEF Assign
<1>8. /\ bPopulated'[p] <=> full
      /\ \A q \in Ports \ {p} : bPopulated'[q] <=> bPopulated[q]
  BY <1>1, <1>5, <1>6, Zenon
<1>9. /\ loadedResource'[p] = IF full THEN 1 ELSE 0
      /\ assignedBufferNum'[p] = assignedBufferNum[p] + 1
      /\ \A q \in Ports \ {p} : /\ loadedResource'[q] = loadedResource[q]
                                /\ assignedBufferNum'[q] = assignedBufferNum[q]
  BY <1>1, <1>5, <1>6, <1>7
<1>10. Fills(p)' /\ ~Empties(p)'
  <2>1. Current' = Current /\ ToVisit' = ToVisit
    BY <1>2 DEF Current, ToVisit
  <2> QED BY <1>2, <1>4, <2>1 DEF Fills, Empties, SetsState
<1>11. Filling(p)'
  BY <1>2, <1>5, <1>6, <1>8, <1>9 DEF Filling
<1>12. PortAgrees(p)'
  BY <1>10, <1>11 DEF PortAgrees
<1> QED BY <1>2, <1>3, <1>8, <1>9, <1>12, OnePort

LEMMA FreeBufferRest ==
    ASSUME IInv, RestInv, NEW p \in Ports, FreeBuffer(p)
    PROVE  RestInv'
<1>1. /\ assignedBufferNum \in [Ports -> Nat] /\ unloadedResource \in [Ports -> Nat]
      /\ bPopulated \in [Ports -> BOOLEAN] /\ assignedBufferNum[p] # 0
  BY DEF IInv, TypeOK, FreeBuffer, MayRelease
<1>2. UNCHANGED <<currentState, transientState, bEnabled, hpc, todo, handling, messageQ,
                  sending, abendState, abendStateEvent, fpc, loadedResource>>
  BY DEF FreeBuffer, flagVars, queueVars, threadVars, freeVars
<1>3. fpc = "none" /\ PortAgrees(p)
  BY DEF FreeBuffer, MayRelease, RestInv
<1>4. Empties(p) /\ ~Fills(p)
  <2>1. \/ currentState = "Idle" /\ bEnabled[p] /\ SetsState("Loaded")
        \/ Current.cmd = "PortDisable" /\ Current.param \in {p, ALL_PORT_INDEX}
        \/ Current = NoMessage /\ currentState = "Loaded"
    BY AskedFacts, CurrentFacts DEF FreeBuffer, MayRelease, RestInv, SetsState
  <2>2. ~Fills(p)
    BY <2>1 DEF Fills, SetsState, NoMessage
  <2>3. SUFFICES ASSUME ~Empties(p) PROVE FALSE
    BY <2>2
  <2>4. Settled(p, Up /\ bEnabled[p])
    BY <1>3, <2>2, <2>3 DEF PortAgrees
  <2>5. Up /\ bEnabled[p]
    BY <1>1, <2>4 DEF Settled
  <2>6. CASE currentState = "Idle" /\ SetsState("Loaded")
    <3>1. p \notin ToVisit
      BY <2>3, <2>5, <2>6 DEF Empties
    <3>2. hpc \in VisitPlaces
      BY <2>6, <3>1, OmxComponentAssumption DEF ToVisit, SetsState
    <3>3. hpc = "waitUnloaded"
      BY <2>6, <3>2, CurrentPlace DEF RestInv, VisitPlaces, PortPlaces, DisablePlaces,
            SetsState, StateSetPlaces
    <3> QED BY <2>5, <3>3 DEF Up
  <2>7. CASE Current.cmd = "PortDisable" /\ Current.param \in {p, ALL_PORT_INDEX}
    <3>1. p \in InSeq(PortsOf(Current.param))
      BY <2>7, SpreadPorts
    <3>2. p \in ToVisit
      BY <2>5, <2>7, <3>1 DEF RestInv, Visited
    <3>3. hpc # "waitLoaded"
      BY <2>7, CurrentPlace DEF RestInv, StateSetPlaces
    <3> QED BY <2>3, <2>5, <2>7, <3>2, <3>3 DEF Up, Empties
  <2>8. CASE Current = NoMessage /\ currentState = "Loaded"
    <3>1. hpc # "waitLoaded"
      BY <2>8, CurrentPlace DEF RestInv
    <3> QED BY <2>5, <2>8, <3>1 DEF Up
  <2> QED BY <2>1, <2>6, <2>7, <2>8
<1>5. loadedResource[p] = 0 /\ unloadedResource[p] = 0
      /\ (hpc = "disableWait" /\ p = Head(todo) => ~bPopulated[p])
  BY <1>1, <1>3, <1>4 DEF PortAgrees, Emptying
<1>6. PICK none \in BOOLEAN :
          /\ none <=> assignedBufferNum[p] = 1
          /\ bPopulated' = [bPopulated EXCEPT ![p] = bPopulated[p] /\ ~none]
          /\ unloadedResource' = [unloadedResource EXCEPT ![p] =
                                     IF none THEN unloadedResource[p] + 1
                                     ELSE unloadedResource[p]]
  BY Zenon DEF FreeBuffer
<1>7. assignedBufferNum' = [assignedBufferNum EXCEPT ![p] = assignedBufferNum[p] - 1]
  BY DEF FreeBuffer
<1>8. /\ bPopulated'[p] => bPopulated[p]
      /\ \A q \in Ports \ {p} : bPopulated'[q] <=> bPopulated[q]
  BY <1>1, <1>6, Zenon
<1>9. /\ unloadedResource'[p] = IF none THEN 1 ELSE 0
      /\ assignedBufferNum'[p] = assignedBufferNum[p] - 1
      /\ \A q \in Ports \ {p} : /\ unloadedResource'[q] = unloadedResource[q]
                                /\ assignedBufferNum'[q] = assignedBufferNum[q]
  BY <1>1, <1>5, <1>6, <1>7
<1>10. ~Fills(p)' /\ Empties(p)'
  <2>1. Current' = Current /\ ToVisit' = ToVisit
    BY <1>2 DEF Current, ToVisit
  <2> QED BY <1>2, <1>4, <2>1 DEF Fills, Empties, SetsState
<1>11. assignedBufferNum'[p] = 0 <=> none
  BY <1>1, <1>6, <1>9
<1>12. Emptying(p)'
  BY <1>2, <1>5, <1>8, <1>9, <1>11 DEF Emptying
<1>13. PortAgrees(p)'
  BY <1>10, <1>12 DEF PortAgrees
<1> QED BY <1>2, <1>3, <1>8, <1>9, <1>13, OnePort

-----------------------------------------------------------------------------
(* The message handler.                                                      *)

\* The command is concluded with every port settled.
LEMMA ConcludeRest ==
    ASSUME IInv, RestInv, hpc \notin {"wait", "exit"}, fpc = "none",
           NEW e, Conclude(e), UNCHANGED <<messageQ, sending, abendState, abendStateEvent, fpc>>,
           currentState' \in {"Loaded", "Idle", "Executing"},
           currentState' = "Executing" => transientState' = "Max",
           \A p \in Ports : Settled(p, currentState # "Loaded" /\ bEnabled[p])'
    PROVE  RestInv'
<1>1. handling # NoMessage /\ messageQ = <<>> /\ sending = NoMessage
  BY HandlingFacts DEF RestInv, OneAtATime
<1>2. /\ handling' = NoMessage /\ messageQ' = <<>> /\ sending' = NoMessage
      /\ hpc' = "wait" /\ todo' = <<>>
  BY <1>1 DEF Conclude
<1>3. Current' = NoMessage /\ OneAtATime'
  BY <1>2, EmptySeq DEF Current, OneAtATime
<1>4. Visited' /\ Announced'
  <2>1. Once(<<>>)
    BY EmptySeq DEF Once
  <2> QED BY <1>2, <1>3, <2>1 DEF Visited, Announced, SetsState, NoMessage
<1>5. \A p \in Ports : PortAgrees(p)'
  BY <1>2, <1>3 DEF PortAgrees, Fills, Empties, SetsState, NoMessage, Up
<1> QED BY <1>3, <1>4, <1>5 DEF RestInv, NoMessage

\* When the component is being destroyed the handler only takes what is left,
\* and waits for buffers until it is told.
LEMMA OnlyWhenAlive ==
    ASSUME IInv, RestInv, hpc \notin {"wait", "exit", "DeInit"},
           hpc = "StateSet" => handling.param # "Idle" \/ currentState # "Loaded",
           hpc = "waitLoaded" => todo = <<>>
    PROVE  fpc = "none"
<1>1. SUFFICES ASSUME fpc # "none" PROVE FALSE
  OBVIOUS
<1>2. Destroyed /\ Current = handling /\ Current # NoMessage
  BY <1>1, CurrentPlace DEF RestInv
<1>3. hpc \notin PortPlaces
  BY <1>2, CurrentPlace DEF RestInv, Destroyed, PortPlaces, DisablePlaces
<1>4. hpc \in StateSetPlaces
  BY <1>3 DEF IInv, TypeOK, PortPlaces, DisablePlaces, StateSetPlaces
<1>5. Current.cmd = "StateSet" /\ Current.param = "Idle" /\ currentState = "Loaded"
  BY <1>2, <1>4, CurrentPlace DEF RestInv, Destroyed
<1>6. hpc = "waitLoaded"
  BY <1>2, <1>4, <1>5, CurrentPlace DEF IInv, HandlerInv, RestInv, StateSetPlaces
<1>7. ToVisit = {}
  BY <1>6, EmptySeq DEF ToVisit, VisitPlaces, InSeq
<1> QED BY <1>2, <1>5, <1>7 DEF Destroyed

\* Transitions that concern no buffers.
LEMMA StateSetRest ==
    ASSUME OneCommandClient, IInv, RestInv,
           RefuseTransition \/ ActiveToIdle \/ ToExecuting \/ ToPause \/ Waiting
               \/ ToInvalid \/ CloseInvalid
    PROVE  RestInv'
<1> USE DEF flagVars, portVars, bufferVars, queueVars, freeVars
<1>1. hpc = "StateSet"
  BY DEF RefuseTransition, ActiveToIdle, ToExecuting, ToPause, Waiting, ToInvalid,
         CloseInvalid, Starts, RestInv, IInv, HandlerInv
<1>2. /\ Current = handling /\ Current.cmd = "StateSet"
      /\ handling.param \in {"Loaded", "Idle", "Executing"}
      /\ currentState \in {"Loaded", "Idle", "Executing"}
  BY <1>1, CurrentPlace DEF RestInv, StateSetPlaces
<1>3. RefuseTransition \/ ActiveToIdle \/ ToExecuting
  BY <1>1, <1>2 DEF ToPause, Waiting, ToInvalid, CloseInvalid, Starts
<1>4. /\ handling.param = "Idle" => currentState # "Loaded"
      /\ handling.param = "Loaded" => currentState # "Idle"
  BY <1>2, <1>3 DEF RefuseTransition, ActiveToIdle, ToExecuting, Starts, Refused
<1>5. fpc = "none"
  BY <1>1, <1>4, OnlyWhenAlive
<1>6. ASSUME NEW p \in Ports
      PROVE  Settled(p, currentState # "Loaded" /\ bEnabled[p])
  <2>1. ~Fills(p) /\ ~Empties(p)
    BY <1>2, <1>4 DEF Fills, Empties, SetsState
  <2> QED BY <1>1, <1>5, <2>1 DEF RestInv, PortAgrees, Up
<1>7. \E e : Conclude(e)
  BY <1>3 DEF RefuseTransition, ActiveToIdle, ToExecuting
<1>8. UNCHANGED <<messageQ, sending, abendState, abendStateEvent, fpc, bEnabled, bPopulated,
                  assignedBufferNum, loadedResource, unloadedResource>>
  BY <1>3 DEF RefuseTransition, ActiveToIdle, ToExecuting
<1>9. /\ currentState' \in {"Loaded", "Idle", "Executing"}
      /\ currentState' # "Loaded" <=> currentState # "Loaded"
  BY <1>2, <1>3 DEF RefuseTransition, ActiveToIdle, ToExecuting, Starts
<1>10. currentState' = "Executing" => transientState' = "Max"
  <2>1. CASE RefuseTransition
    <3>1. currentState = "Executing" => handling.param # "Idle"
      BY <1>2, <2>1 DEF RefuseTransition, Refused
    <3> QED BY <1>2, <2>1, <3>1 DEF RefuseTransition, RestInv, Announced, SetsState
  <2>2. CASE ActiveToIdle
    BY <2>2 DEF ActiveToIdle
  <2>3. CASE ToExecuting
    BY <1>2, <2>3 DEF ToExecuting, Starts
  <2> QED BY <1>3, <2>1, <2>2, <2>3
<1>11. \A p \in Ports : Settled(p, currentState # "Loaded" /\ bEnabled[p])'
  BY <1>6, <1>8, <1>9 DEF Settled
<1> QED BY <1>1, <1>5, <1>7, <1>8, <1>9, <1>10, <1>11, ConcludeRest

\* The handler goes on with its command.
LEMMA AdvanceRest ==
    ASSUME RestInv, UNCHANGED <<currentState, transientState, handling, messageQ, sending,
                                abendState, abendStateEvent, fpc>>,
           Visited', fpc = "none" => \A p \in Ports : PortAgrees(p)',
           fpc # "none" => Destroyed'
    PROVE  RestInv' /\ Current' = Current
<1>1. Current' = Current /\ OneAtATime'
  BY DEF Current, RestInv, OneAtATime
<1>2. Announced'
  BY <1>1 DEF Announced, SetsState, RestInv
<1> QED BY <1>1, <1>2 DEF RestInv

LEMMA StartIdleRest ==
    ASSUME OneCommandClient, IInv, RestInv, LoadedToIdle
    PROVE  RestInv'
<1>1. /\ hpc = "StateSet" /\ handling.param = "Idle" /\ currentState = "Loaded"
      /\ hpc' = "waitLoaded" /\ todo' = AllPorts
      /\ UNCHANGED <<currentState, transientState, handling, messageQ, sending, abendState,
                     abendStateEvent, fpc, bEnabled, bPopulated, assignedBufferNum,
                     loadedResource, unloadedResource>>
  BY DEF LoadedToIdle, Starts, OneCommandClient, flagVars, portVars, bufferVars, queueVars,
         freeVars
<1>2. Current = handling /\ SetsState("Idle") /\ Current' = Current
  <2>1. Current = handling /\ Current.cmd = "StateSet"
    BY <1>1, CurrentPlace DEF RestInv, StateSetPlaces
  <2>2. Current' = Current
    BY <1>1 DEF Current
  <2> QED BY <1>1, <2>1, <2>2 DEF SetsState
<1>3. ToVisit = Ports /\ ToVisit' = Ports
  BY <1>1, <1>2, SpreadPorts, OmxComponentAssumption
  DEF ToVisit, VisitPlaces, PortPlaces, DisablePlaces, SetsState
<1>4. Visited'
  BY <1>1, <1>2, SpreadPorts DEF Visited, SetsState
<1>5. ASSUME fpc = "none", NEW p \in Ports
      PROVE  PortAgrees(p)'
  <2>1. /\ Fills(p) <=> bEnabled[p]
        /\ Fills(p)' <=> bEnabled[p]
        /\ ~Empties(p) /\ ~Empties(p)' /\ ~Up
    BY <1>1, <1>2, <1>3 DEF Fills, Empties, SetsState, Up
  <2>2. PortAgrees(p)
    BY <1>5 DEF RestInv
  <2>3. (Fills(p) => Filling(p)') /\ (~Fills(p) => Settled(p, Up /\ bEnabled[p])')
    BY <1>1, <2>1, <2>2 DEF PortAgrees, Filling, Settled
  <2> QED BY <2>1, <2>3 DEF PortAgrees
<1>6. fpc # "none" => Destroyed'
  BY <1>1, <1>2, <1>3 DEF RestInv, Destroyed
<1> QED BY <1>1, <1>4, <1>5, <1>6, AdvanceRest

\* A port that is not enabled, or got its buffers, or the word that none come.
LEMMA AwaitLoadedRest ==
    ASSUME IInv, RestInv, AwaitLoaded
    PROVE  RestInv'
<1> DEFINE p == Head(todo)
<1>1. /\ hpc = "waitLoaded" /\ todo # <<>> /\ todo \in Seq(Ports) /\ Once(todo)
      /\ loadedResource \in [Ports -> Nat] /\ bPopulated \in [Ports -> BOOLEAN]
  BY DEF AwaitLoaded, IInv, TypeOK, RestInv, Visited
<1>2. /\ Current = handling /\ SetsState("Idle") /\ currentState = "Loaded"
      /\ handling # NoMessage /\ messageQ = <<>> /\ sending = NoMessage
  BY <1>1, CurrentPlace DEF RestInv, StateSetPlaces, SetsState, OneAtATime
<1>3. /\ p \in Ports /\ p \in InSeq(todo) /\ Once(Tail(todo))
      /\ InSeq(Tail(todo)) = InSeq(todo) \ {p} /\ ToVisit = InSeq(todo)
  BY <1>1, VisitNext DEF ToVisit, VisitPlaces
<1>4. UNCHANGED <<currentState, transientState, bEnabled, assignedBufferNum,
                  unloadedResource, messageQ, sending, abendState, fpc>>
  BY DEF AwaitLoaded, flagVars, queueVars
<1>5. ASSUME todo' = Tail(todo), UNCHANGED <<handling, hpc, abendStateEvent>>,
             bEnabled[p] => /\ loadedResource[p] > 0 /\ ~abendState
                            /\ loadedResource' = [loadedResource EXCEPT ![p] = @ - 1]
                            /\ bPopulated' = [bPopulated EXCEPT ![p] = TRUE],
             ~bEnabled[p] => UNCHANGED <<bPopulated, loadedResource>>
      PROVE  RestInv'
  <2>1. Current' = Current /\ ToVisit' = InSeq(todo) \ {p}
    BY <1>1, <1>3, <1>5 DEF Current, ToVisit, VisitPlaces, AwaitLoaded, queueVars
  <2>2. Visited'
    BY <1>1, <1>2, <1>3, <1>5, <2>1 DEF Visited, SetsState
  <2>3. ASSUME fpc = "none", NEW q \in Ports
        PROVE  PortAgrees(q)'
    <3>1. /\ Fills(q) <=> q \in InSeq(todo) /\ bEnabled[q]
          /\ Fills(q)' <=> q \in InSeq(todo) /\ q # p /\ bEnabled[q]
          /\ ~Empties(q) /\ ~Empties(q)' /\ Up /\ Up'
      BY <1>1, <1>2, <1>3, <1>4, <1>5, <2>1 DEF Fills, Empties, SetsState, Up
    <3>2. PortAgrees(q)
      BY <2>3 DEF RestInv
    <3>3. CASE q # p \/ ~bEnabled[q]
      <4>1. /\ loadedResource'[q] = loadedResource[q]
            /\ bPopulated'[q] = bPopulated[q]
        BY <1>1, <1>3, <1>5, <3>3
      <4>2. (Fills(q) <=> Fills(q)') /\ bEnabled'[q] = bEnabled[q]
        BY <1>4, <3>1, <3>3
      <4>3. (Fills(q) => Filling(q)') /\ (~Fills(q) => Settled(q, Up /\ bEnabled[q])')
        BY <1>4, <3>1, <3>2, <4>1, <4>2 DEF PortAgrees, Filling, Settled
      <4> QED BY <3>1, <4>2, <4>3 DEF PortAgrees
    <3>4. CASE q = p /\ bEnabled[q]
      <4>1. Filling(q) /\ loadedResource[q] > 0
        BY <1>3, <1>5, <3>1, <3>2, <3>4 DEF PortAgrees
      <4>2. /\ assignedBufferNum[q] = nBufferCountActual[q] /\ loadedResource[q] = 1
            /\ unloadedResource[q] = 0
        BY <4>1 DEF Filling
      <4>3. loadedResource'[q] = 0 /\ bPopulated'[q] = TRUE
        BY <1>1, <1>5, <3>4, <4>2
      <4>4. Settled(q, Up /\ bEnabled[q])'
        BY <1>4, <3>1, <3>4, <4>2, <4>3 DEF Settled
      <4> QED BY <3>1, <3>4, <4>4 DEF PortAgrees
    <3> QED BY <3>3, <3>4
  <2>4. ASSUME fpc # "none"
        PROVE  Destroyed'
    <3>1. PICK r \in ToVisit : r \in Ports /\ bEnabled[r]
      BY <1>2, <2>4 DEF RestInv, Destroyed, SetsState
    <3>2. abendState /\ fpc = "waitAbend"
      BY <1>2, <2>4 DEF RestInv, Destroyed, SetsState
    <3>3. r # p
      BY <1>5, <3>1, <3>2
    <3>4. r \in ToVisit'
      BY <1>3, <2>1, <3>1, <3>3
    <3>5. \E t \in ToVisit' : t \in Ports /\ bEnabled'[t]
      BY <1>4, <3>1, <3>4
    <3> QED BY <1>2, <1>4, <2>1, <2>4, <3>2, <3>5 DEF RestInv, Destroyed, SetsState
  <2> QED BY <1>4, <1>5, <2>2, <2>3, <2>4, AdvanceRest
<1>6. ASSUME abendState, abendStateEvent', Conclude(Complete("StateSet", "Idle"))
      PROVE  RestInv'
  <2>1. Current' = NoMessage /\ OneAtATime'
    BY <1>2, <1>4, <1>6, EmptySeq DEF Conclude, Current, OneAtATime
  <2>2. fpc = "waitAbend"
    BY <1>2, <1>6 DEF RestInv, Destroyed, SetsState
  <2>3. hpc' = "wait" /\ todo' = <<>> /\ Once(<<>>)
    BY <1>6, EmptySeq DEF Conclude, Once
  <2>4. Visited' /\ Announced' /\ Destroyed'
    BY <1>2, <1>4, <2>1, <2>2, <2>3 DEF Visited, Announced, SetsState, Destroyed, NoMessage
  <2> QED BY <1>2, <1>4, <1>6, <2>1, <2>2, <2>4 DEF RestInv, NoMessage
<1>7. \/ /\ todo' = Tail(todo) /\ UNCHANGED <<handling, hpc, abendStateEvent>>
         /\ bEnabled[p] => /\ loadedResource[p] > 0 /\ ~abendState
                           /\ loadedResource' = [loadedResource EXCEPT ![p] = @ - 1]
                           /\ bPopulated' = [bPopulated EXCEPT ![p] = TRUE]
         /\ ~bEnabled[p] => UNCHANGED <<bPopulated, loadedResource>>
      \/ abendState /\ abendStateEvent' /\ Conclude(Complete("StateSet", "Idle"))
  BY DEF AwaitLoaded
<1> QED BY <1>5, <1>6, <1>7

\* All ports are populated.
LEMMA ReachIdleRest ==
    ASSUME OneCommandClient, IInv, RestInv, ReachIdle
    PROVE  RestInv'
<1>1. /\ hpc = "waitLoaded" /\ todo = <<>> /\ currentState' = "Idle"
      /\ Conclude(Complete("StateSet", "Idle"))
      /\ UNCHANGED <<bEnabled, bPopulated, assignedBufferNum, loadedResource,
                     unloadedResource, messageQ, sending, abendState, abendStateEvent, fpc>>
  BY DEF ReachIdle, OneCommandClient, flagVars, portVars, bufferVars, queueVars, freeVars
<1>2. fpc = "none" /\ ToVisit = {}
  BY <1>1, OnlyWhenAlive, EmptySeq DEF ToVisit, VisitPlaces, InSeq
<1>3. ASSUME NEW p \in Ports
      PROVE  Settled(p, currentState # "Loaded" /\ bEnabled[p])'
  <2>1. Settled(p, Up /\ bEnabled[p]) /\ Up
    BY <1>1, <1>2 DEF RestInv, PortAgrees, Fills, Empties, Up
  <2> QED BY <1>1, <2>1 DEF Settled
<1> QED BY <1>1, <1>2, <1>3, ConcludeRest

\* On the way to Loaded: the resource is given back, everything is closed ...
LEMMA StartLoadedRest ==
    ASSUME IInv, RestInv, IdleToLoaded \/ CloseDown
    PROVE  RestInv'
<1>1. /\ hpc \in {"StateSet", "close"} /\ hpc' \in {"close", "waitUnloaded"}
      /\ currentState = "Idle" /\ handling.param = "Loaded"
      /\ hpc' = "waitUnloaded" => todo' = AllPorts
      /\ hpc' = "close" => todo' = todo
      /\ UNCHANGED <<currentState, transientState, handling, messageQ, sending, abendState,
                     abendStateEvent, fpc, bEnabled, bPopulated, assignedBufferNum,
                     loadedResource, unloadedResource>>
  BY DEF IdleToLoaded, CloseDown, Starts, flagVars, portVars, bufferVars, queueVars, freeVars,
         IInv, HandlerInv
<1>2. Current = handling /\ SetsState("Loaded") /\ Current' = Current
  <2>1. Current = handling /\ Current.cmd = "StateSet"
    BY <1>1, CurrentPlace DEF RestInv, StateSetPlaces
  <2>2. Current' = Current
    BY <1>1 DEF Current
  <2> QED BY <1>1, <2>1, <2>2 DEF SetsState
<1>3. ToVisit = Ports /\ ToVisit' = Ports
  BY <1>1, <1>2, SpreadPorts, OmxComponentAssumption
  DEF ToVisit, VisitPlaces, PortPlaces, DisablePlaces, SetsState
<1>4. Visited'
  BY <1>1, <1>2, SpreadPorts DEF Visited, SetsState, RestInv
<1>5. fpc = "none"
  BY <1>1 DEF RestInv, Destroyed
<1>6. ASSUME NEW p \in Ports
      PROVE  PortAgrees(p)'
  <2>1. /\ Empties(p) <=> bEnabled[p]
        /\ Empties(p)' <=> bEnabled[p]
        /\ ~Fills(p) /\ ~Fills(p)' /\ hpc # "disableWait" /\ hpc' # "disableWait"
    BY <1>1, <1>2, <1>3 DEF Fills, Empties, SetsState
  <2>2. PortAgrees(p)
    BY <1>5 DEF RestInv
  <2>3. (Empties(p) => Emptying(p)') /\ (~Empties(p) => Settled(p, Up /\ bEnabled[p])')
    BY <1>1, <2>1, <2>2 DEF PortAgrees, Emptying, Settled
  <2> QED BY <2>1, <2>3 DEF PortAgrees
<1> QED BY <1>1, <1>4, <1>5, <1>6, AdvanceRest

\* ... and each enabled port loses its last buffer.
LEMMA AwaitUnloadedRest ==
    ASSUME IInv, RestInv, AwaitUnloaded
    PROVE  RestInv'
<1> DEFINE p == Head(todo)
<1>1. /\ hpc = "waitUnloaded" /\ todo \in Seq(Ports) /\ Once(todo)
      /\ unloadedResource \in [Ports -> Nat] /\ bPopulated \in [Ports -> BOOLEAN]
      /\ assignedBufferNum \in [Ports -> Nat]
  BY DEF AwaitUnloaded, IInv, TypeOK, RestInv, Visited
<1>2. /\ Current = handling /\ SetsState("Loaded") /\ currentState = "Idle"
      /\ ToVisit = InSeq(todo)
  BY <1>1, CurrentPlace DEF RestInv, StateSetPlaces, SetsState, ToVisit, VisitPlaces
<1>3. UNCHANGED <<transientState, bEnabled, assignedBufferNum, loadedResource, messageQ,
                  sending, abendState, abendStateEvent, fpc>>
  BY DEF AwaitUnloaded, flagVars, queueVars, freeVars
<1>4. fpc = "none"
  BY <1>2 DEF RestInv, Destroyed
<1>5. \A q \in Ports : /\ Empties(q) <=> q \in InSeq(todo) /\ bEnabled[q]
                       /\ ~Fills(q) /\ ~Up /\ PortAgrees(q)
  BY <1>1, <1>2, <1>4 DEF Fills, Empties, SetsState, Up, RestInv
<1>6. ASSUME todo # <<>>, todo' = Tail(todo), UNCHANGED <<currentState, handling, hpc>>,
             bEnabled[p] =>
                 /\ unloadedResource[p] > 0
                 /\ unloadedResource' = [unloadedResource EXCEPT ![p] = @ - 1]
                 /\ bPopulated' = [bPopulated EXCEPT ![p] = FALSE],
             ~bEnabled[p] => UNCHANGED <<bPopulated, unloadedResource>>
      PROVE  RestInv'
  <2>1. /\ p \in Ports /\ p \in InSeq(todo) /\ Once(Tail(todo))
        /\ InSeq(Tail(todo)) = InSeq(todo) \ {p}
    BY <1>1, <1>6, VisitNext
  <2>2. Current' = Current /\ ToVisit' = InSeq(todo) \ {p}
    BY <1>1, <1>3, <1>6, <2>1 DEF Current, ToVisit, VisitPlaces
  <2>3. Visited'
    BY <1>1, <1>2, <1>6, <2>1, <2>2 DEF Visited, SetsState
  <2>4. ASSUME NEW q \in Ports
        PROVE  PortAgrees(q)'
    <3>1. /\ Empties(q)' <=> q \in InSeq(todo) /\ q # p /\ bEnabled[q]
          /\ ~Fills(q)' /\ ~Up' /\ hpc' # "disableWait" /\ hpc # "disableWait"
      BY <1>1, <1>2, <1>3, <1>6, <2>2 DEF Fills, Empties, SetsState, Up
    <3>2. CASE q # p \/ ~bEnabled[q]
      <4>1. /\ unloadedResource'[q] = unloadedResource[q]
            /\ bPopulated'[q] = bPopulated[q]
        BY <1>1, <1>6, <2>1, <3>2
      <4>2. (Empties(q) <=> Empties(q)') /\ bEnabled'[q] = bEnabled[q]
        BY <1>3, <1>5, <3>1, <3>2
      <4>3. /\ Empties(q) => Emptying(q)'
            /\ ~Empties(q) => Settled(q, Up /\ bEnabled[q])'
        BY <1>3, <1>5, <3>1, <4>1, <4>2 DEF PortAgrees, Emptying, Settled
      <4> QED BY <3>1, <4>2, <4>3 DEF PortAgrees
    <3>3. CASE q = p /\ bEnabled[q]
      <4>1. Emptying(q) /\ unloadedResource[q] > 0
        BY <1>5, <1>6, <2>1, <3>3 DEF PortAgrees
      <4>2. assignedBufferNum[q] = 0 /\ unloadedResource[q] = 1 /\ loadedResource[q] = 0
        BY <4>1 DEF Emptying
      <4>3. unloadedResource'[q] = 0 /\ bPopulated'[q] = FALSE
        BY <1>1, <1>6, <3>3, <4>2
      <4>4. Settled(q, Up /\ bEnabled[q])'
        BY <1>3, <3>1, <4>2, <4>3 DEF Settled
      <4> QED BY <3>1, <3>3, <4>4 DEF PortAgrees
    <3> QED BY <3>2, <3>3
  <2> QED BY <1>3, <1>4, <1>6, <2>3, <2>4, AdvanceRest
<1>7. ASSUME todo = <<>>, currentState' = "Loaded", UNCHANGED <<unloadedResource, bPopulated>>,
             Conclude(Complete("StateSet", "Loaded"))
      PROVE  RestInv'
  <2>1. InSeq(todo) = {}
    BY <1>7, EmptySeq DEF InSeq
  <2>2. ASSUME NEW q \in Ports
        PROVE  Settled(q, currentState # "Loaded" /\ bEnabled[q])'
    <3>1. Settled(q, Up /\ bEnabled[q]) /\ ~Up
      BY <1>5, <2>1 DEF PortAgrees
    <3> QED BY <1>3, <1>7, <3>1 DEF Settled
  <2> QED BY <1>1, <1>3, <1>4, <1>7, <2>2, ConcludeRest
<1>8. \/ /\ todo # <<>> /\ todo' = Tail(todo) /\ UNCHANGED <<currentState, handling, hpc>>
         /\ bEnabled[p] =>
                /\ unloadedResource[p] > 0
                /\ unloadedResource' = [unloadedResource EXCEPT ![p] = @ - 1]
                /\ bPopulated' = [bPopulated EXCEPT ![p] = FALSE]
         /\ ~bEnabled[p] => UNCHANGED <<bPopulated, unloadedResource>>
      \/ /\ todo = <<>> /\ currentState' = "Loaded" /\ UNCHANGED <<unloadedResource, bPopulated>>
         /\ Conclude(Complete("StateSet", "Loaded"))
  BY DEF AwaitUnloaded
<1> QED BY <1>6, <1>7, <1>8

\* The handler is done with the port it is at.
LEMMA PortDoneRest ==
    ASSUME IInv, RestInv, NEW p, p = Head(todo),
           hpc \in {"Flush", "PortEnable", "disable", "disableWait"},
           UNCHANGED <<currentState, transientState, messageQ, sending, abendState,
                       abendStateEvent, fpc, assignedBufferNum>>,
           \A q \in Ports \ {p} :
               /\ bEnabled'[q] <=> bEnabled[q]
               /\ bPopulated'[q] <=> bPopulated[q]
               /\ loadedResource'[q] = loadedResource[q]
               /\ unloadedResource'[q] = unloadedResource[q],
           Settled(p, currentState # "Loaded" /\ bEnabled[p])',
           hpc = "PortEnable" => bEnabled'[p],
           hpc \in DisablePlaces => ~bEnabled'[p],
           \/ /\ Len(todo) > 1 /\ todo' = Tail(todo) /\ UNCHANGED handling
              /\ IF hpc \in DisablePlaces THEN hpc' = "disable" ELSE hpc' = hpc
           \/ Len(todo) = 1 /\ \E e : Conclude(e)
    PROVE  RestInv'
<1>1. hpc \in PortPlaces /\ hpc \in VisitPlaces
  BY DEF PortPlaces, DisablePlaces, VisitPlaces
<1>2. todo \in Seq(Ports) /\ todo # <<>> /\ Once(todo)
  BY <1>1 DEF IInv, TypeOK, HandlerInv, RestInv, Visited
<1>3. /\ p \in Ports /\ p \in InSeq(todo) /\ Once(Tail(todo))
      /\ InSeq(Tail(todo)) = InSeq(todo) \ {p} /\ (Len(todo) = 1 => InSeq(todo) = {p})
  BY <1>2, VisitNext
<1>4. Current = handling /\ Current.cmd \in Commands /\ ToVisit = InSeq(todo)
  BY <1>1, CurrentPlace DEF RestInv, ToVisit, PortPlaces, DisablePlaces
<1>5. /\ hpc = "Flush" => Current.cmd = "Flush"
      /\ hpc = "PortEnable" => Current.cmd = "PortEnable"
      /\ hpc \in DisablePlaces => Current.cmd = "PortDisable"
      /\ Current.cmd # "StateSet"
  BY <1>4, CurrentPlace, OmxComponentAssumption DEF RestInv
<1>6. fpc = "none" /\ \A q \in Ports : PortAgrees(q)
  BY <1>1, OnlyWhenAlive DEF RestInv, PortPlaces, DisablePlaces
<1>7. Up <=> currentState # "Loaded"
  BY DEF Up
<1>8. CASE /\ Len(todo) > 1 /\ todo' = Tail(todo) /\ UNCHANGED handling
           /\ IF hpc \in DisablePlaces THEN hpc' = "disable" ELSE hpc' = hpc
  <2>1. hpc' \in PortPlaces /\ hpc' \in VisitPlaces /\ hpc' # "disableWait" /\ (Up' <=> Up)
    BY <1>1, <1>8 DEF PortPlaces, DisablePlaces, VisitPlaces, Up
  <2>2. Current' = Current /\ ToVisit' = ToVisit \ {p}
    BY <1>3, <1>4, <1>8, <2>1 DEF Current, ToVisit
  <2>3. Visited'
    <3>1. Once(todo')
      BY <1>3, <1>8
    <3>2. ASSUME Current.cmd = "PortEnable", NEW q \in Ports \ ToVisit',
                 q \in InSeq(PortsOf(Current.param))
          PROVE  bEnabled'[q]
      <4>1. CASE q = p
        <5>1. hpc = "PortEnable"
          BY <1>5, <3>2 DEF DisablePlaces
        <5> QED BY <4>1, <5>1
      <4>2. CASE q # p
        BY <2>2, <3>2, <4>2 DEF RestInv, Visited
      <4> QED BY <4>1, <4>2
    <3>3. ASSUME Current.cmd = "PortDisable", NEW q \in Ports \ ToVisit',
                 q \in InSeq(PortsOf(Current.param))
          PROVE  ~bEnabled'[q]
      <4>1. CASE q = p
        <5>1. hpc \in DisablePlaces
          BY <1>5, <3>3 DEF DisablePlaces
        <5> QED BY <4>1, <5>1
      <4>2. CASE q # p
        BY <2>2, <3>3, <4>2 DEF RestInv, Visited
      <4> QED BY <4>1, <4>2
    <3> QED BY <2>1, <2>2, <3>1, <3>2, <3>3 DEF Visited
  <2>4. ASSUME NEW q \in Ports
        PROVE  PortAgrees(q)'
    <3>1. CASE q = p
      <4>1. ~Fills(q)' /\ ~Empties(q)'
        BY <2>2, <3>1 DEF Fills, Empties
      <4>2. Settled(q, Up /\ bEnabled[q])'
        BY <1>7, <2>1, <3>1
      <4> QED BY <4>1, <4>2 DEF PortAgrees
    <3>2. CASE q # p
      <4>1. (Fills(q)' <=> Fills(q)) /\ (Empties(q)' <=> Empties(q))
        BY <2>2, <3>2 DEF Fills, Empties, SetsState
      <4>2. /\ Filling(q) => Filling(q)'
            /\ Emptying(q) => Emptying(q)'
            /\ Settled(q, Up /\ bEnabled[q]) => Settled(q, Up /\ bEnabled[q])'
        BY <2>1, <3>2 DEF Filling, Emptying, Settled
      <4> QED BY <1>6, <4>1, <4>2 DEF PortAgrees
    <3> QED BY <3>1, <3>2
  <2> QED BY <1>6, <1>8, <2>3, <2>4, AdvanceRest
<1>9. CASE Len(todo) = 1 /\ \E e : Conclude(e)
  <2>1. ASSUME NEW q \in Ports
        PROVE  Settled(q, currentState # "Loaded" /\ bEnabled[q])'
    <3>1. CASE q # p
      <4>1. ~Fills(q) /\ ~Empties(q)
        BY <1>3, <1>4, <1>9, <3>1 DEF Fills, Empties
      <4>2. Settled(q, Up /\ bEnabled[q])
        BY <1>6, <4>1 DEF PortAgrees
      <4> QED BY <1>7, <3>1, <4>2 DEF Settled
    <3> QED BY <3>1
  <2>2. currentState' = "Executing" => transientState' = "Max"
    BY <1>5 DEF RestInv, Announced, SetsState
  <2>3. currentState' \in {"Loaded", "Idle", "Executing"}
    BY DEF RestInv
  <2> QED BY <1>6, <1>9, <2>1, <2>2, <2>3, ConcludeRest
<1> QED BY <1>8, <1>9

LEMMA FlushRest ==
    ASSUME IInv, RestInv, Flush
    PROVE  RestInv'
<1>1. PICK p \in Ports : p = Head(todo)
  BY HandlingFacts DEF Flush, PortPlaces
<1>2. hpc = "Flush" /\ hpc \notin DisablePlaces
  BY DEF Flush, DisablePlaces
<1>3. Current.cmd = "Flush" /\ fpc = "none"
  BY <1>2, CurrentPlace, OnlyWhenAlive DEF RestInv
<1>4. Settled(p, currentState # "Loaded" /\ bEnabled[p])
  <2>1. ~Fills(p) /\ ~Empties(p)
    BY <1>3 DEF Fills, Empties, SetsState
  <2> QED BY <1>2, <1>3, <2>1 DEF RestInv, PortAgrees, Up
<1>5. UNCHANGED <<currentState, transientState, messageQ, sending, abendState, abendStateEvent,
                  fpc, assignedBufferNum, bEnabled, bPopulated, loadedResource,
                  unloadedResource>>
  BY DEF Flush, portVars, bufferVars, queueVars, freeVars
<1>6. \/ /\ Len(todo) > 1 /\ todo' = Tail(todo) /\ UNCHANGED handling /\ hpc' = hpc
      \/ Len(todo) = 1 /\ \E e : Conclude(e)
  BY DEF Flush
<1>7. Settled(p, currentState # "Loaded" /\ bEnabled[p])'
  BY <1>4, <1>5 DEF Settled
<1> QED BY <1>1, <1>2, <1>5, <1>6, <1>7, PortDoneRest

\* A port to be enabled has its buffers, unless the component is in Loaded.
LEMMA EnablePortRest ==
    ASSUME IInv, RestInv, EnablePort
    PROVE  RestInv'
<1>1. PICK p \in Ports : p = Head(todo)
  BY HandlingFacts DEF EnablePort, PortPlaces
<1>2. hpc = "PortEnable" /\ hpc \notin DisablePlaces
  BY DEF EnablePort, DisablePlaces
<1>3. Current.cmd = "PortEnable" /\ fpc = "none"
  BY <1>2, CurrentPlace, OnlyWhenAlive DEF RestInv
<1>4. /\ loadedResource \in [Ports -> Nat] /\ bPopulated \in [Ports -> BOOLEAN]
      /\ bEnabled \in [Ports -> BOOLEAN] /\ p \in ToVisit /\ PortAgrees(p)
  <2>1. todo \in Seq(Ports) /\ todo # <<>> /\ Once(todo)
    BY <1>2 DEF IInv, TypeOK, HandlerInv, RestInv, Visited, PortPlaces
  <2>2. p \in InSeq(todo)
    BY <1>1, <2>1, VisitNext
  <2> QED BY <1>2, <1>3, <2>2 DEF IInv, TypeOK, ToVisit, VisitPlaces, PortPlaces, RestInv
<1>5. PICK waits \in BOOLEAN :
          /\ waits <=> currentState \notin {"Loaded", "WaitForResources"}
          /\ waits => loadedResource[p] > 0
          /\ loadedResource' = [loadedResource EXCEPT ![p] = IF waits THEN loadedResource[p] - 1
                                                             ELSE loadedResource[p]]
          /\ bPopulated' = [bPopulated EXCEPT ![p] = bPopulated[p] \/ waits]
          /\ bEnabled' = [bEnabled EXCEPT ![p] = TRUE]
  BY <1>1, Zenon DEF EnablePort
<1>6. UNCHANGED <<currentState, transientState, messageQ, sending, abendState, abendStateEvent,
                  fpc, assignedBufferNum, unloadedResource>>
  BY DEF EnablePort, flagVars, queueVars, freeVars
<1>7. waits <=> currentState # "Loaded"
  BY <1>5 DEF RestInv
<1>8. /\ bPopulated'[p] <=> (bPopulated[p] \/ waits)
      /\ bEnabled'[p]
      /\ \A q \in Ports \ {p} : /\ bPopulated'[q] <=> bPopulated[q]
                                /\ bEnabled'[q] <=> bEnabled[q]
  BY <1>4, <1>5, Zenon
<1>9. /\ loadedResource'[p] = IF waits THEN loadedResource[p] - 1 ELSE loadedResource[p]
      /\ \A q \in Ports \ {p} : loadedResource'[q] = loadedResource[q]
  BY <1>4, <1>5
<1>10. Settled(p, currentState # "Loaded" /\ bEnabled[p])'
  <2>1. CASE waits
    <3>1. Filling(p) /\ loadedResource[p] > 0
      BY <1>3, <1>4, <1>5, <1>7, <2>1 DEF PortAgrees, Fills
    <3>2. /\ loadedResource[p] = 1 /\ assignedBufferNum[p] = nBufferCountActual[p]
          /\ unloadedResource[p] = 0
      BY <3>1 DEF Filling
    <3>3. loadedResource'[p] = 0
      BY <1>9, <2>1, <3>2
    <3> QED BY <1>6, <1>7, <1>8, <2>1, <3>2, <3>3 DEF Settled
  <2>2. CASE ~waits
    <3>1. ~Fills(p) /\ ~Empties(p) /\ ~Up
      BY <1>2, <1>3, <1>7, <2>2 DEF Fills, Empties, SetsState, Up
    <3>2. Settled(p, Up /\ bEnabled[p])
      BY <1>4, <3>1 DEF PortAgrees
    <3> QED BY <1>6, <1>7, <1>8, <1>9, <2>2, <3>1, <3>2 DEF Settled
  <2> QED BY <2>1, <2>2
<1>11. \/ /\ Len(todo) > 1 /\ todo' = Tail(todo) /\ UNCHANGED handling /\ hpc' = hpc
       \/ Len(todo) = 1 /\ \E e : Conclude(e)
  BY DEF EnablePort, PortDone
<1> QED BY <1>1, <1>2, <1>6, <1>8, <1>9, <1>10, <1>11, PortDoneRest

\* To disable a port its flush comes first ...
LEMMA FlushToDisableRest ==
    ASSUME IInv, RestInv, FlushToDisable
    PROVE  RestInv'
<1>1. /\ hpc = "PortDisable" /\ hpc' = "disable"
      /\ UNCHANGED <<currentState, transientState, handling, messageQ, sending, abendState,
                     abendStateEvent, fpc, bEnabled, bPopulated, assignedBufferNum,
                     loadedResource, unloadedResource, todo>>
  BY DEF FlushToDisable, portVars, bufferVars, queueVars, freeVars
<1>2. fpc = "none"
  BY <1>1, OnlyWhenAlive
<1>3. Current' = Current /\ ToVisit' = ToVisit
  BY <1>1 DEF Current, ToVisit, VisitPlaces, PortPlaces, DisablePlaces
<1>4. Visited'
  BY <1>1, <1>3 DEF RestInv, Visited
<1>5. ASSUME NEW p \in Ports
      PROVE  PortAgrees(p)'
  <2>1. /\ (Fills(p)' <=> Fills(p)) /\ (Empties(p)' <=> Empties(p)) /\ (Up' <=> Up)
        /\ hpc' # "disableWait" /\ hpc # "disableWait"
    BY <1>1, <1>3 DEF Fills, Empties, SetsState, Up
  <2>2. /\ Filling(p) => Filling(p)'
        /\ Emptying(p) => Emptying(p)'
        /\ Settled(p, Up /\ bEnabled[p]) => Settled(p, Up /\ bEnabled[p])'
    BY <1>1, <2>1 DEF Filling, Emptying, Settled
  <2> QED BY <1>2, <2>1, <2>2 DEF RestInv, PortAgrees
<1> QED BY <1>1, <1>2, <1>4, <1>5, AdvanceRest

\* ... then it is marked unpopulated ...
LEMMA DisablePortRest ==
    ASSUME IInv, RestInv, DisablePort
    PROVE  RestInv'
<1>1. PICK p \in Ports : p = Head(todo)
  BY HandlingFacts DEF DisablePort, PortPlaces, DisablePlaces
<1>2. /\ hpc = "disable" /\ hpc \in DisablePlaces /\ hpc # "disableWait"
      /\ bPopulated \in [Ports -> BOOLEAN] /\ bEnabled \in [Ports -> BOOLEAN]
  BY DEF DisablePort, DisablePlaces, IInv, TypeOK
<1>3. Current.cmd = "PortDisable" /\ fpc = "none" /\ PortAgrees(p)
  BY <1>2, CurrentPlace, OnlyWhenAlive DEF RestInv
<1>4. UNCHANGED <<currentState, transientState, messageQ, sending, abendState, abendStateEvent,
                  fpc, assignedBufferNum, loadedResource, unloadedResource>>
  BY DEF DisablePort, bufferVars, queueVars, freeVars
<1>5. CASE bEnabled[p] /\ currentState # "Loaded"
  <2>1. /\ bPopulated' = [bPopulated EXCEPT ![p] = FALSE] /\ hpc' = "disableWait"
        /\ UNCHANGED <<bEnabled, handling, todo>>
    BY <1>1, <1>5 DEF DisablePort
  <2>2. Current' = Current /\ ToVisit' = ToVisit
    BY <1>2, <2>1, <1>4 DEF Current, ToVisit, VisitPlaces, PortPlaces, DisablePlaces
  <2>3. Visited'
    BY <1>1, <1>4, <1>5, <2>1, <2>2 DEF RestInv, Visited
  <2>4. ASSUME NEW q \in Ports
        PROVE  PortAgrees(q)'
    <3>1. (Fills(q)' <=> Fills(q)) /\ (Empties(q)' <=> Empties(q)) /\ (Up' <=> Up)
      BY <1>2, <1>4, <2>1, <2>2 DEF Fills, Empties, SetsState, Up
    <3>2. ~Fills(q) /\ PortAgrees(q)
      BY <1>3 DEF Fills, SetsState, RestInv
    <3>3. CASE q = p
      <4>1. Empties(q)
        <5>1. todo \in Seq(Ports) /\ todo # <<>> /\ Once(todo)
          BY <1>2 DEF IInv, TypeOK, HandlerInv, RestInv, Visited, PortPlaces, DisablePlaces
        <5>2. p \in InSeq(todo)
          BY <1>1, <5>1, VisitNext
        <5> QED BY <1>2, <1>3, <1>5, <3>3, <5>2
            DEF Empties, ToVisit, VisitPlaces, PortPlaces, DisablePlaces
      <4>2. bPopulated'[q] = FALSE
        BY <1>2, <2>1, <3>3
      <4>3. Emptying(q)'
        BY <1>4, <3>2, <4>1, <4>2 DEF PortAgrees, Emptying
      <4> QED BY <3>1, <3>2, <4>1, <4>3 DEF PortAgrees
    <3>4. CASE q # p
      <4>1. bPopulated'[q] = bPopulated[q] /\ q # Head(todo')
        BY <1>1, <1>2, <2>1, <3>4
      <4>2. /\ Emptying(q) => Emptying(q)'
            /\ Settled(q, Up /\ bEnabled[q]) => Settled(q, Up /\ bEnabled[q])'
        BY <1>4, <2>1, <3>1, <4>1 DEF Emptying, Settled
      <4> QED BY <3>1, <3>2, <4>2 DEF PortAgrees
    <3> QED BY <3>3, <3>4
  <2> QED BY <1>3, <1>4, <2>1, <2>3, <2>4, AdvanceRest
<1>6. CASE ~(bEnabled[p] /\ currentState # "Loaded")
  <2>1. bEnabled' = [bEnabled EXCEPT ![p] = FALSE] /\ PortDone /\ UNCHANGED bPopulated
    BY <1>1, <1>6 DEF DisablePort
  <2>2. /\ ~bEnabled'[p]
        /\ \A q \in Ports \ {p} : bEnabled'[q] <=> bEnabled[q]
    BY <1>2, <2>1
  <2>3. Settled(p, Up /\ bEnabled[p])
    BY <1>3, <1>6 DEF PortAgrees, Fills, Empties, SetsState
  <2>4. ~(Up /\ bEnabled[p])
    BY <1>2, <1>6 DEF Up
  <2>5. Settled(p, currentState # "Loaded" /\ bEnabled[p])'
    BY <1>4, <2>1, <2>2, <2>3, <2>4 DEF Settled
  <2>6. \/ /\ Len(todo) > 1 /\ todo' = Tail(todo) /\ UNCHANGED handling /\ hpc' = "disable"
        \/ Len(todo) = 1 /\ \E e : Conclude(e)
    BY <1>2, <2>1 DEF PortDone
  <2> QED BY <1>1, <1>2, <1>4, <2>1, <2>2, <2>5, <2>6, PortDoneRest
<1> QED BY <1>5, <1>6

\* ... and its last buffer is waited for.
LEMMA DisableWaitRest ==
    ASSUME IInv, RestInv, DisableWait
    PROVE  RestInv'
<1>1. PICK p \in Ports : p = Head(todo)
  BY HandlingFacts DEF DisableWait, PortPlaces, DisablePlaces
<1>2. /\ hpc = "disableWait" /\ hpc \in DisablePlaces
      /\ bEnabled \in [Ports -> BOOLEAN] /\ unloadedResource \in [Ports -> Nat]
  BY DEF DisableWait, DisablePlaces, IInv, TypeOK
<1>3. Current.cmd = "PortDisable" /\ fpc = "none" /\ PortAgrees(p)
  BY <1>2, CurrentPlace, OnlyWhenAlive DEF RestInv
<1>4. Empties(p)
  <2>1. todo \in Seq(Ports) /\ todo # <<>> /\ Once(todo)
    BY <1>2 DEF IInv, TypeOK, HandlerInv, RestInv, Visited, PortPlaces
  <2>2. p \in InSeq(todo) /\ bEnabled[p] /\ currentState # "Loaded"
    BY <1>1, <1>2, <2>1, VisitNext DEF RestInv, Visited
  <2> QED BY <1>2, <1>3, <2>2 DEF Empties, ToVisit, VisitPlaces, PortPlaces
<1>5. /\ unloadedResource[p] > 0
      /\ unloadedResource' = [unloadedResource EXCEPT ![p] = unloadedResource[p] - 1]
      /\ bEnabled' = [bEnabled EXCEPT ![p] = FALSE]
      /\ UNCHANGED <<currentState, transientState, messageQ, sending, abendState,
                     abendStateEvent, fpc, assignedBufferNum, loadedResource, bPopulated>>
  BY <1>1 DEF DisableWait, queueVars, freeVars
<1>6. /\ assignedBufferNum[p] = 0 /\ unloadedResource[p] = 1 /\ loadedResource[p] = 0
      /\ ~bPopulated[p]
  BY <1>1, <1>2, <1>3, <1>4, <1>5 DEF PortAgrees, Emptying
<1>7. /\ ~bEnabled'[p] /\ unloadedResource'[p] = 0
      /\ \A q \in Ports \ {p} : /\ bEnabled'[q] <=> bEnabled[q]
                                /\ unloadedResource'[q] = unloadedResource[q]
  BY <1>2, <1>5, <1>6
<1>8. Settled(p, currentState # "Loaded" /\ bEnabled[p])'
  BY <1>5, <1>6, <1>7 DEF Settled
<1>9. \/ /\ Len(todo) > 1 /\ todo' = Tail(todo) /\ UNCHANGED handling /\ hpc' = "disable"
      \/ Len(todo) = 1 /\ \E e : Conclude(e)
  <2>1. Len(todo) # 1 => Len(todo) > 1
    BY <1>2, HandlingFacts DEF PortPlaces
  <2> QED BY <1>1, <2>1 DEF DisableWait
<1> QED BY <1>1, <1>2, <1>5, <1>7, <1>8, <1>9, PortDoneRest

LEMMA DeInitRest ==
    ASSUME IInv, RestInv, DeInit
    PROVE  RestInv'
<1>1. hpc = "DeInit" /\ hpc' = "exit" /\ handling' = NoMessage
      /\ UNCHANGED <<currentState, transientState, bEnabled, messageQ, sending, todo, abendState,
                     abendStateEvent, fpc>>
  BY DEF DeInit, flagVars, portVars, queueVars, freeVars
<1>2. Current.cmd = "DeInit" /\ Current # NoMessage /\ handling # NoMessage
  BY <1>1, CurrentPlace, HandlingFacts DEF RestInv
<1>3. fpc # "none" /\ Destroyed /\ ~abendStateEvent
  BY <1>2 DEF RestInv
<1>4. Current' = NoMessage /\ OneAtATime'
  BY <1>1, <1>2 DEF Current, OneAtATime, RestInv
<1>5. Visited' /\ Announced' /\ Destroyed'
  BY <1>1, <1>3, <1>4 DEF Visited, Announced, SetsState, RestInv, Destroyed, NoMessage
<1> QED BY <1>1, <1>3, <1>4, <1>5 DEF RestInv, NoMessage

-----------------------------------------------------------------------------
LEMMA RestInit == Init => RestInv
<1> SUFFICES ASSUME Init PROVE RestInv
  OBVIOUS
<1>1. Current = NoMessage /\ OneAtATime
  BY EmptySeq DEF Init, Current, OneAtATime
<1>2. Visited /\ Announced
  <2>1. Once(<<>>)
    BY EmptySeq DEF Once
  <2> QED BY <1>1, <2>1 DEF Init, Visited, Announced, SetsState, NoMessage
<1>3. \A p \in Ports : PortAgrees(p)
  BY <1>1 DEF Init, PortAgrees, Fills, Empties, SetsState, NoMessage, Settled, Up
<1> QED BY <1>1, <1>2, <1>3 DEF RestInv, Init, NoMessage

LEMMA RestStep ==
    ASSUME OneCommandClient, IInv, RestInv, [Next]_vars
    PROVE  RestInv'
<1>1. CASE SendCommand \/ CommandQueue
  BY <1>1, SendCommandRest, CommandQueueRest
<1>2. CASE \E p \in Ports : UseBuffer(p) \/ AllocateBuffer(p) \/ FreeBuffer(p)
  BY <1>2, AssignRest, FreeBufferRest DEF UseBuffer, AllocateBuffer
<1>3. CASE Handler
  BY <1>3, TakeMessageRest, StateSetRest, StartIdleRest, AwaitLoadedRest, ReachIdleRest,
     StartLoadedRest, AwaitUnloadedRest, FlushRest, EnablePortRest, FlushToDisableRest,
     DisablePortRest, DisableWaitRest, DeInitRest
  DEF Handler
<1>4. CASE Freeing
  BY <1>4, FreeHandleRest, DestroyRest DEF Freeing
<1>5. CASE UNCHANGED vars
  <2>1. Current' = Current /\ OneAtATime' /\ UNCHANGED restVars
    BY <1>5 DEF vars, flagVars, portVars, bufferVars, queueVars, threadVars, freeVars,
                Current, OneAtATime, RestInv, restVars
  <2> QED BY <2>1, SameRest
<1> QED BY <1>1, <1>2, <1>3, <1>4, <1>5 DEF Next

\* For a client with one command outstanding that moves between Loaded, Idle
\* and Executing, where nothing fails on the way to Idle: at rest each port's
\* buffers, bPopulated and bEnabled agree, no semaphore holds a post for a
\* later transition to take, and in Executing the buffer threads work - for
\* any number of ports and buffers.
THEOREM RestsConsistent ==
    ASSUME MaxPending = 1, Failures = {}, Targets \subseteq {"Loaded", "Idle", "Executing"}
    PROVE  Spec => []RestIsConsistent
<1> USE DEF OneCommandClient
<1>1. IInv /\ RestInv => RestIsConsistent
  <2> SUFFICES ASSUME IInv, RestInv PROVE RestIsConsistent
    OBVIOUS
  <2>1. ASSUME Quiet, NEW p \in Ports, fpc = "none"
        PROVE  Settled(p, currentState # "Loaded" /\ bEnabled[p])
    <3>1. Current = NoMessage /\ hpc \in {"wait", "exit"}
      BY <2>1, CurrentFacts, QuietHandler DEF RestInv
    <3> QED BY <2>1, <3>1 DEF RestInv, PortAgrees, Fills, Empties, SetsState, NoMessage, Up
  <2>2. currentState \in Active => fpc = "none" /\ currentState # "Loaded"
    BY DEF RestInv, Destroyed, Active
  <2>3. PopulatedWhenActive
    BY <2>1, <2>2 DEF PopulatedWhenActive, Settled
  <2>4. NoStalePost
    BY <2>1 DEF NoStalePost, Settled
  <2>5. ExecutingProcesses
    <3>1. Quiet => ~SetsState("Idle")
      BY CurrentFacts DEF SetsState, NoMessage, RestInv
    <3> QED BY <3>1 DEF ExecutingProcesses, BufferProcessRuns, RestInv, Announced
  <2> QED BY <2>3, <2>4, <2>5 DEF RestIsConsistent, IInv
<1>2. IInv /\ RestInv /\ [Next]_vars => RestInv'
  BY RestStep
<1> QED BY InitIInv, NextIInv, RestInit, <1>1, <1>2, PTL DEF Spec
-----------------------------------------------------------------------------
(* The ring of Exynos_OSAL_Queue.c, which carries commands and buffers, is   *)
(* consistent and implements the bounded first-in first-out queue, for every *)
(* capacity and every set of pointers.                                       *)

\* The inductive invariant: the types, and the agreement of the pointers, the
\* count and the occupied nodes.
RingInv == RingTypeOK /\ Contiguous

\* The circle has at least one node, and qNext stays on it.
LEMMA NodesFacts ==
    /\ NumNodes \in Nat
    /\ NumNodes >= 1
    /\ 0 \in Nodes
    /\ \A n \in Nodes : n \in Nat /\ n < NumNodes /\ qNext(n) \in Nodes
  BY OsalQueueAssumption DEF NumNodes, Nodes, qNext

\* QueueCreate establishes the invariant.
LEMMA InitRingInv == RingInit => RingInv
  BY NodesFacts, OsalQueueAssumption
  DEF RingInit, RingInv, RingTypeOK, Contiguous, Nodes, At, Offset

\* Queue writes at last, which the invariant says is free exactly when fewer
\* than NumNodes pointers are held.
LEMMA QueueRingInv ==
    ASSUME NEW d \in Data, RingInv, Queue(d)
    PROVE  RingInv'
<1> USE NodesFacts, OsalQueueAssumption
<1>1. CASE data[last] # NULL \/ numElem >= MaxNumElem
  BY <1>1 DEF Queue, RingInv, RingTypeOK, Contiguous, Offset, At
<1>2. CASE ~(data[last] # NULL \/ numElem >= MaxNumElem)
  <2>1. /\ data' = [data EXCEPT ![last] = d]
        /\ last' = qNext(last)
        /\ numElem' = numElem + 1
        /\ ret' = 0
        /\ first' = first
    BY <1>2 DEF Queue
  <2>2. numElem < NumNodes /\ last = At(numElem)
    BY <1>2 DEF RingInv, RingTypeOK, Contiguous, At, Offset, Nodes
  <2>3. RingTypeOK'
    BY <2>1, <2>2 DEF RingInv, RingTypeOK
  <2>4. (\A n \in Nodes : data[n] # NULL <=> Offset(n) < numElem)'
    <3> SUFFICES ASSUME NEW n \in Nodes
                 PROVE  data'[n] # NULL <=> Offset(n)' < numElem'
      BY DEF Offset, Nodes
    <3>1. CASE n = last
      BY <2>1, <2>2, <3>1 DEF RingInv, RingTypeOK, Contiguous, At, Offset, Nodes
    <3>2. CASE n # last
      <4>1. data'[n] = data[n] /\ Offset(n)' = Offset(n)
        BY <2>1, <3>2 DEF RingInv, RingTypeOK, Offset
      <4>2. data[n] # NULL <=> Offset(n) < numElem
        BY DEF RingInv, Contiguous
      <4>3. Offset(n) \in Nat /\ numElem \in Nat /\ Offset(n) # numElem
        BY <2>2, <3>2 DEF RingInv, RingTypeOK, At, Offset, Nodes
      <4> HIDE DEF Offset
      <4> QED BY <2>1, <4>1, <4>2, <4>3
    <3> QED BY <3>1, <3>2
  <2>5. (last = At(IF numElem = NumNodes THEN 0 ELSE numElem))'
    <3>1. CASE numElem + 1 = NumNodes
      BY <2>1, <2>2, <3>1 DEF RingInv, RingTypeOK, At, Nodes, qNext
    <3>2. CASE numElem + 1 # NumNodes
      <4>1. numElem + 1 < NumNodes /\ numElem' = numElem + 1
        BY <2>1, <2>2, <3>2 DEF RingInv, RingTypeOK
      <4>2. last' = qNext(At(numElem)) /\ At(numElem)' = At(numElem + 1)
        BY <2>1, <2>2, <4>1 DEF At
      <4>3. qNext(At(numElem)) = At(numElem + 1)
        BY <4>1 DEF RingInv, RingTypeOK, At, Nodes, qNext
      <4> QED BY <3>2, <4>1, <4>2, <4>3
    <3> QED BY <3>1, <3>2
  <2> QED BY <2>3, <2>4, <2>5 DEF RingInv, Contiguous
<1> QED BY <1>1, <1>2

\* Dequeue empties the node at first, which is occupied unless numElem is 0.
LEMMA DequeueRingInv ==
    ASSUME RingInv, Dequeue
    PROVE  RingInv'
<1> USE NodesFacts, OsalQueueAssumption
<1>1. CASE data[first] = NULL \/ numElem <= 0
  BY <1>1 DEF Dequeue, RingInv, RingTypeOK, Contiguous, Offset, At
<1>2. CASE ~(data[first] = NULL \/ numElem <= 0)
  <2>1. /\ ret' = data[first]
        /\ data' = [data EXCEPT ![first] = NULL]
        /\ first' = qNext(first)
        /\ numElem' = numElem - 1
        /\ last' = last
    BY <1>2 DEF Dequeue
  <2>2. RingTypeOK'
    BY <1>2, <2>1 DEF RingInv, RingTypeOK
  <2>3. (\A n \in Nodes : data[n] # NULL <=> Offset(n) < numElem)'
    <3> SUFFICES ASSUME NEW n \in Nodes
                 PROVE  data'[n] # NULL <=> Offset(n)' < numElem'
      BY DEF Offset, Nodes
    <3>1. CASE n = first
      BY <1>2, <2>1, <3>1
      DEF RingInv, RingTypeOK, Contiguous, Offset, Nodes, qNext
    <3>2. CASE n # first
      BY <1>2, <2>1, <3>2
      DEF RingInv, RingTypeOK, Contiguous, Offset, Nodes, qNext
    <3> QED BY <3>1, <3>2
  <2>4. (last = At(IF numElem = NumNodes THEN 0 ELSE numElem))'
    BY <1>2, <2>1 DEF RingInv, RingTypeOK, Contiguous, At, Nodes, qNext
  <2> QED BY <2>2, <2>3, <2>4 DEF RingInv, Contiguous
<1> QED BY <1>1, <1>2

\* ResetQueue empties every node and brings last back to first.
LEMMA ResetRingInv ==
    ASSUME RingInv, ResetQueue
    PROVE  RingInv'
  BY NodesFacts, OsalQueueAssumption
  DEF ResetQueue, RingInv, RingTypeOK, Contiguous, Offset, At, Nodes

\* Every call of the queue preserves the invariant.
LEMMA NextRingInv == RingInv /\ [RingNext]_ringVars => RingInv'
<1> SUFFICES ASSUME RingInv, [RingNext]_ringVars
             PROVE  RingInv'
  OBVIOUS
<1>1. ASSUME NEW d \in Data, Queue(d) PROVE RingInv'
  BY <1>1, QueueRingInv
<1>2. CASE Dequeue
  BY <1>2, DequeueRingInv
<1>3. CASE GetElemNum
  BY <1>3 DEF GetElemNum, RingInv, RingTypeOK, Contiguous, Offset, At
<1>4. CASE ResetQueue
  BY <1>4, ResetRingInv
<1>5. CASE UNCHANGED ringVars
  BY <1>5 DEF ringVars, RingInv, RingTypeOK, Contiguous, Offset, At
<1> QED BY <1>1, <1>2, <1>3, <1>4, <1>5 DEF RingNext

\* The read pointer, the write pointer, the count and the occupied nodes of
\* the ring agree in every reachable state, whatever MaxNumElem is.
THEOREM RingConsistent == RingSpec => [](RingTypeOK /\ Contiguous)
<1>1. RingInit => RingInv
  BY InitRingInv
<1>2. RingInv /\ [RingNext]_ringVars => RingInv'
  BY NextRingInv
<1> QED BY <1>1, <1>2, PTL DEF RingSpec, RingInv

-----------------------------------------------------------------------------
\* What the ring shows a user is a sequence of numElem pointers.
LEMMA ContentsType ==
    ASSUME RingInv
    PROVE  /\ Contents \in Seq(Data)
           /\ Len(Contents) = numElem
           /\ \A k \in 1 .. numElem : Contents[k] = data[At(k - 1)]
<1> USE NodesFacts, OsalQueueAssumption
<1>1. numElem \in Nat /\ DOMAIN Contents = 1 .. numElem
  BY DEF RingInv, RingTypeOK, Contents
<1>2. ASSUME NEW k \in 1 .. numElem PROVE Contents[k] \in Data
  <2>1. At(k - 1) \in Nodes /\ Offset(At(k - 1)) = k - 1
    BY <1>2 DEF RingInv, RingTypeOK, At, Offset, Nodes
  <2>2. data[At(k - 1)] \in Data
    BY <2>1, <1>2 DEF RingInv, RingTypeOK, Contiguous
  <2> QED BY <2>2 DEF Contents
<1>3. Contents \in [1 .. numElem -> Data]
  BY <1>1, <1>2 DEF Contents
<1> QED BY <1>1, <1>3 DEF Contents

\* The node j links after f is f plus j, wrapped at most once.
LEMMA Wrap ==
    ASSUME NEW f \in Nodes, NEW j \in Nat, j < NumNodes, NEW n,
           n = IF f + j < NumNodes THEN f + j ELSE f + j - NumNodes
    PROVE  /\ n \in Nodes
           /\ (IF n >= f THEN n - f ELSE n - f + NumNodes) = j
  BY NodesFacts DEF Nodes

\* The same of the next state.
LEMMA ContentsTypeNext ==
    ASSUME RingInv'
    PROVE  (/\ Contents \in Seq(Data)
            /\ Len(Contents) = numElem)'
<1> USE NodesFacts, OsalQueueAssumption
<1>1. numElem' \in Nat
  BY DEF RingInv, RingTypeOK
<1>2. ASSUME NEW k \in 1 .. numElem' PROVE data'[At(k - 1)'] \in Data
  <2>0. /\ first' \in Nodes /\ k - 1 \in Nat /\ k - 1 < NumNodes
        /\ k - 1 < numElem'
    BY <1>1, <1>2 DEF RingInv, RingTypeOK
  <2>1. PICK n : n = IF first' + (k - 1) < NumNodes THEN first' + (k - 1)
                     ELSE first' + (k - 1) - NumNodes
    OBVIOUS
  <2>2. At(k - 1)' = n
    BY <2>1 DEF At
  <2>3. /\ n \in Nodes
        /\ (IF n >= first' THEN n - first' ELSE n - first' + NumNodes) = k - 1
    BY <2>0, <2>1, Wrap
  <2>4. data'[n] # NULL <=> (IF n >= first' THEN n - first'
                             ELSE n - first' + NumNodes) < numElem'
    BY <2>3 DEF RingInv, Contiguous, Offset
  <2>5. data'[n] # NULL
    BY <2>0, <2>3, <2>4
  <2> QED BY <2>2, <2>3, <2>5 DEF RingInv, RingTypeOK
<1>3. Contents' \in [1 .. numElem' -> Data]
  BY <1>1, <1>2 DEF Contents
<1> QED BY <1>1, <1>3 DEF Contents

\* Storing d in the free node at last appends it to the sequence.
LEMMA QueueAppends ==
    ASSUME RingInv, RingInv', NEW d \in Data, Queue(d)
    PROVE  Fifo!Queue(d)
<1> USE NodesFacts, OsalQueueAssumption
<1>0. numElem \in Nat /\ first \in Nodes /\ numElem <= NumNodes
  BY DEF RingInv, RingTypeOK
<1>1. CASE data[last] # NULL \/ numElem >= MaxNumElem
  <2>1. ret' = -1 /\ UNCHANGED <<data, first, last, numElem>>
    BY <1>1 DEF Queue
  <2>2. Contents' = Contents
    BY <2>1 DEF Contents, At
  <2>3. numElem = NumNodes
    BY <1>1, <1>0 DEF RingInv, RingTypeOK, Contiguous, At, Offset, Nodes, NumNodes
  <2> QED BY <2>1, <2>2, <2>3, ContentsType DEF Fifo!Queue
<1>2. CASE ~(data[last] # NULL \/ numElem >= MaxNumElem)
  <2>1. /\ data' = [data EXCEPT ![last] = d]
        /\ numElem' = numElem + 1
        /\ ret' = 0
        /\ first' = first
    BY <1>2 DEF Queue
  <2>2. numElem < NumNodes /\ last = At(numElem)
    BY <1>2 DEF RingInv, RingTypeOK, Contiguous, At, Offset, Nodes
  <2>3. ASSUME NEW k \in 1 .. numElem + 1
        PROVE  At(k - 1)' = At(k - 1) /\ At(k - 1) \in Nodes
               /\ (k <= numElem => At(k - 1) # last)
    BY <2>1, <2>2, <2>3, <1>0 DEF At, Nodes
  <2>4. ASSUME NEW k \in 1 .. numElem + 1
        PROVE  Contents'[k] = Append(Contents, d)[k]
    <3>1. Contents'[k] = data'[At(k - 1)]
      BY <2>1, <2>3, <1>0 DEF Contents
    <3>2. CASE k <= numElem
      <4>1. data'[At(k - 1)] = data[At(k - 1)]
        BY <2>1, <2>3, <3>2 DEF RingInv, RingTypeOK
      <4>2. k \in 1 .. Len(Contents) /\ Contents[k] = data[At(k - 1)]
        BY <3>2, ContentsType, <1>0
      <4> QED BY <3>1, <4>1, <4>2, ContentsType
    <3>3. CASE k = numElem + 1
      <4>1. At(k - 1) = last /\ last \in Nodes
        BY <2>2, <3>3, <1>0 DEF RingInv, RingTypeOK
      <4>2. data'[last] = d
        BY <2>1, <4>1 DEF RingInv, RingTypeOK
      <4>3. Append(Contents, d)[k] = d
        BY <3>3, <1>0, ContentsType
      <4> QED BY <3>1, <4>1, <4>2, <4>3
    <3>4. k <= numElem \/ k = numElem + 1
      BY <1>0, <2>4
    <3> QED BY <3>2, <3>3, <3>4
  <2>5. Contents' = Append(Contents, d)
    <3>1. /\ Contents' \in Seq(Data) /\ Len(Contents') = numElem + 1
          /\ Append(Contents, d) \in Seq(Data)
          /\ Len(Append(Contents, d)) = numElem + 1
      <4>1. (Contents \in Seq(Data) /\ Len(Contents) = numElem)'
        BY <2>1, ContentsType, ContentsTypeNext
      <4> QED BY <4>1, <2>1, ContentsType
    <3> QED BY <3>1, <2>4, <1>0, SeqEqual
  <2> QED BY <2>1, <2>2, <2>5, ContentsType, <1>0 DEF Fifo!Queue
<1> QED BY <1>1, <1>2

\* Taking the pointer at first removes the oldest element of the sequence.
LEMMA DequeueTakesHead ==
    ASSUME RingInv, RingInv', Dequeue
    PROVE  Fifo!Dequeue
<1> USE NodesFacts, OsalQueueAssumption
<1>0. numElem \in Nat /\ first \in Nodes /\ numElem <= NumNodes
  BY DEF RingInv, RingTypeOK
<1>1. CASE data[first] = NULL \/ numElem <= 0
  <2>1. ret' = NULL /\ UNCHANGED <<data, first, last, numElem>>
    BY <1>1 DEF Dequeue
  <2>2. Contents' = Contents
    BY <2>1 DEF Contents, At
  <2>3. numElem = 0
    BY <1>1, <1>0 DEF RingInv, RingTypeOK, Contiguous, Offset, Nodes
  <2>4. Contents = <<>>
    BY <2>3, ContentsType
  <2> QED BY <2>1, <2>2, <2>4 DEF Fifo!Dequeue
<1>2. CASE ~(data[first] = NULL \/ numElem <= 0)
  <2>1. /\ ret' = data[first]
        /\ data' = [data EXCEPT ![first] = NULL]
        /\ first' = qNext(first)
        /\ numElem' = numElem - 1
    BY <1>2 DEF Dequeue
  <2>2. numElem >= 1
    BY <1>2, <1>0
  <2>3. At(0) = first
    BY <1>0 DEF At, Nodes
  <2>4. Contents # <<>> /\ Head(Contents) = data[first]
    <3>1. Contents[1] = data[At(1 - 1)]
      BY <2>2, <1>0, ContentsType
    <3> QED BY <3>1, <2>2, <2>3, ContentsType
  <2>5. ASSUME NEW k \in 1 .. numElem - 1
        PROVE  Contents'[k] = Tail(Contents)[k]
    <3>1. At(k - 1)' = At(k) /\ At(k) # first /\ At(k) \in Nodes
      BY <2>1, <1>0, <2>2 DEF At, Nodes, qNext
    <3>2. Contents'[k] = data'[At(k - 1)']
      BY <2>1, <1>0 DEF Contents
    <3>3. data'[At(k)] = data[At(k)]
      BY <2>1, <3>1 DEF RingInv, RingTypeOK
    <3>4. Contents[k + 1] = data[At(k + 1 - 1)] /\ k + 1 - 1 = k
      BY <1>0, ContentsType
    <3>5. Tail(Contents)[k] = Contents[k + 1]
      BY <1>0, <2>4, ContentsType
    <3> QED BY <3>1, <3>2, <3>3, <3>4, <3>5
  <2>6. Contents' = Tail(Contents)
    <3>1. /\ Contents' \in Seq(Data) /\ Len(Contents') = numElem - 1
          /\ Tail(Contents) \in Seq(Data)
          /\ Len(Tail(Contents)) = numElem - 1
      <4>1. (Contents \in Seq(Data) /\ Len(Contents) = numElem)'
        BY <2>1, ContentsTypeNext
      <4> QED BY <4>1, <2>1, <2>2, <2>4, <1>0, ContentsType
    <3> QED BY <3>1, <2>5, <1>0, SeqEqual
  <2> QED BY <2>1, <2>4, <2>6 DEF Fifo!Dequeue
<1> QED BY <1>1, <1>2

\* After ResetQueue the abstract queue is empty.
LEMMA ResetEmpties ==
    ASSUME RingInv, RingInv', ResetQueue
    PROVE  Fifo!ResetQueue
<1>1. ret' = 0 /\ numElem' = 0
  BY DEF ResetQueue
<1>2. Contents' \in Seq(Data) /\ Len(Contents') = 0
  BY <1>1, ContentsTypeNext
<1> QED BY <1>1, <1>2 DEF Fifo!ResetQueue

\* Every step of the ring is the step of the same name of the abstract queue:
\* no pointer is lost, duplicated or overtaken, and Queue refuses exactly
\* when MaxNumElem - 1 pointers are held.
THEOREM RingImplementsFifo == RingSpec => IsFifo
<1>1. RingInit => Fifo!Init
  <2> SUFFICES ASSUME RingInit PROVE Fifo!Init
    OBVIOUS
  <2>1. Contents = <<>> /\ ret = 0
    <3>1. RingInv /\ numElem = 0
      BY InitRingInv DEF RingInit
    <3> QED BY <3>1, ContentsType DEF RingInit
  <2> QED BY <2>1 DEF Fifo!Init
<1>2. ASSUME RingInv, RingInv', [RingNext]_ringVars
      PROVE  [Fifo!Next]_(Fifo!fifoVars)
  <2>1. ASSUME NEW d \in Data, Queue(d) PROVE Fifo!Next
    BY <1>2, <2>1, QueueAppends DEF Fifo!Next
  <2>2. CASE Dequeue
    BY <1>2, <2>2, DequeueTakesHead DEF Fifo!Next
  <2>3. CASE GetElemNum
    <3>1. Contents' = Contents
      BY <2>3 DEF GetElemNum, Contents, At
    <3> QED BY <1>2, <2>3, <3>1, ContentsType
            DEF GetElemNum, Fifo!GetElemNum, Fifo!Next
  <2>4. CASE ResetQueue
    BY <1>2, <2>4, ResetEmpties DEF Fifo!Next
  <2>5. CASE UNCHANGED ringVars
    <3>1. Contents' = Contents /\ ret' = ret
      BY <2>5 DEF ringVars, Contents, At
    <3> QED BY <3>1 DEF Fifo!fifoVars
  <2> QED BY <1>2, <2>1, <2>2, <2>3, <2>4, <2>5 DEF RingNext
<1>3. RingSpec => []RingInv
  BY InitRingInv, NextRingInv, PTL DEF RingSpec
<1> QED BY <1>1, <1>2, <1>3, PTL DEF RingSpec, IsFifo, Fifo!Spec
-----------------------------------------------------------------------------
(* The audio decoder.                                                        *)

AudioPorts == {"in", "out"}
AudioData(n) == [len : 0 .. n, eos : BOOLEAN, ts : {"none", "start"}, old : BOOLEAN]

\* What is kept of each port.
OfPorts(f) == f = [p \in AudioPorts |-> f[p]]

AudioTypes ==
    /\ audioState \in AudioStates /\ audioPortFlushed \in [AudioPorts -> BOOLEAN]
    /\ bufferSem \in [AudioPorts -> Nat]
    /\ bufferMutex \in [AudioPorts -> {"free", "thread", "handler"}]
    /\ inputData \in AudioData(Room) /\ outputData \in AudioData(1)
    /\ eos \in {"none", "taken", "delivered"}
    /\ frame \in [Buffers["in"] -> {"none", "data", "eos", "last"}]
    /\ flushing \in Seq(AudioPorts)
    /\ call.at \in {"none", "checked", "queued"} /\ call.port \in AudioPorts
    /\ call = [at |-> call.at, port |-> call.port, buffer |-> call.buffer]
    /\ OfPorts(atClient) /\ OfPorts(bufferQ) /\ OfPorts(audioNumElem) /\ OfPorts(dataBuffer)

\* A port's buffers are with the client, in the queue or with the thread.
PortKept(p) ==
    /\ bufferQ[p] \in Seq(Buffers[p]) /\ dataBuffer[p] \in Buffers[p] \cup {NoBuffer}
    /\ IsInjective(bufferQ[p]) /\ audioNumElem[p] = Len(bufferQ[p])
    /\ atClient[p] \cap Range(bufferQ[p]) = {}
    /\ Audio!Held(p) \cap (atClient[p] \cup Range(bufferQ[p])) = {}
    /\ atClient[p] \cup Range(bufferQ[p]) \cup Audio!Held(p) = Buffers[p]

AudioPlaces == \A p \in AudioPorts : PortKept(p)

\* Who holds a port's mutex beyond a step.
AudioMutexes ==
    \A p \in AudioPorts :
        /\ bufferMutex[p] = "thread" <=> Audio!Returning(p)
        /\ bufferMutex[p] = "handler" <=>
               handler \in {"count", "wait", "held"} /\ p = Head(flushing)
        /\ Audio!Returning(p) => dataBuffer[p] # NoBuffer

\* What the handler has flushed of a port on the way to Idle, or all in Idle.
Emptied(p) ==
    \/ audioState = "Idle"
    \/ command = "Idle" /\ p \notin Range(flushing)
    \/ command = "Idle" /\ handler \in {"unlock", "told"} /\ p = Head(flushing)

\* The handler flushes for Flush and Idle only, what it has flushed is with the
\* client and stays there, and no call is under way meanwhile.
AudioCommands ==
    /\ handler \in {"idle", "lock", "count", "wait", "held", "unlock", "told", "exit", "join"}
    /\ handler \notin {"idle", "exit", "join"} => flushing # <<>>
    /\ command \notin {"Flush", "Idle"} =>
           \/ flushing = <<>> /\ handler \in {"idle", "exit", "join"}
           \/ command = "none" /\ handler = "told" /\ Len(flushing) = 1
    /\ handler \in {"exit", "join"} => command \in {"Loaded", "Invalid"}
    /\ call.at # "none" => command = "none" /\ audioState \in {"Executing", "Pause"}
    /\ call.at = "checked" => call.buffer \in atClient[call.port]
    /\ handler = "held" => bufferQ[Head(flushing)] = <<>>
    /\ \A p \in AudioPorts : Emptied(p) => atClient[p] = Buffers[p]

AudioInv == AudioTypes /\ AudioPlaces /\ AudioMutexes /\ AudioCommands

\* A queue stays without repetition when something it has not is put in ...
LEMMA AppendIsInjective ==
    ASSUME NEW S, NEW s \in Seq(S), NEW e \in S, IsInjective(s), e \notin Range(s)
    PROVE  /\ Append(s, e) \in Seq(S) /\ IsInjective(Append(s, e))
           /\ Range(Append(s, e)) = Range(s) \cup {e}
           /\ Len(Append(s, e)) = Len(s) + 1
  BY AppendProperties DEF IsInjective, Range

\* ... and when its first element is taken out, which is not in it any more.
LEMMA TailIsInjective ==
    ASSUME NEW S, NEW s \in Seq(S), s # <<>>, IsInjective(s)
    PROVE  /\ Tail(s) \in Seq(S) /\ IsInjective(Tail(s))
           /\ Head(s) \in S /\ Head(s) \in Range(s)
           /\ Range(Tail(s)) = Range(s) \ {Head(s)}
           /\ Len(Tail(s)) = Len(s) - 1 /\ Len(s) \in Nat \ {0}
  <1>1. /\ Head(s) \in S /\ Tail(s) \in Seq(S) /\ Len(s) \in Nat \ {0}
        /\ Len(Tail(s)) = Len(s) - 1
        /\ \A i \in 1 .. Len(Tail(s)) : Tail(s)[i] = s[i + 1]
        /\ Head(s) = s[1] /\ DOMAIN s = 1 .. Len(s)
        /\ DOMAIN Tail(s) = 1 .. Len(s) - 1
    BY HeadTailProperties
  <1> DEFINE t == Tail(s)
             h == Head(s)
  <1>2. IsInjective(t)
    BY <1>1 DEF IsInjective
  <1>3. Range(t) = Range(s) \ {h}
    <2>1. ASSUME NEW i \in 1 .. Len(s), s[i] # h
          PROVE  s[i] = t[i - 1] /\ i - 1 \in DOMAIN t
      BY <1>1, <2>1
    <2>2. ASSUME NEW i \in DOMAIN t
          PROVE  t[i] = s[i + 1] /\ i + 1 \in DOMAIN s /\ s[i + 1] # h
      BY <1>1, <2>2 DEF IsInjective
    <2>3. ASSUME NEW x \in Range(s), x # h PROVE x \in Range(t)
      <3>1. PICK i \in 1 .. Len(s) : x = s[i]
        BY <1>1 DEF Range
      <3> QED
        BY <2>1, <2>3, <3>1 DEF Range
    <2>4. ASSUME NEW x \in Range(t) PROVE x \in Range(s) /\ x # h
      BY <2>2, <2>4 DEF Range
    <2> QED
      BY <2>3, <2>4
  <1>4. h \in Range(s)
    <2>1. 1 \in DOMAIN s /\ s[1] = h
      BY <1>1
    <2> QED
      BY ONLY <2>1 DEF Range
  <1> QED
    BY <1>1, <1>2, <1>3, <1>4

\* A queue without repetition is as long as it has elements.
LEMMA AsLongAsItsRange ==
    ASSUME NEW S, NEW s \in Seq(S), IsInjective(s)
    PROVE  Len(s) = Cardinality(Range(s))
  <1> DEFINE n == Len(s)
  <1>1. n \in Nat /\ DOMAIN s = 1 .. n
    BY LenProperties
  <1>2. s \in Injection(1 .. n, Range(s)) /\ s \in Surjection(1 .. n, Range(s))
    BY <1>1 DEF IsInjective, Injection, Surjection, Range
  <1>3. s \in Bijection(1 .. n, Range(s))
    BY <1>2 DEF Bijection
  <1>4. IsFiniteSet(1 .. n) /\ Cardinality(1 .. n) = n
    <2>1. /\ IsFiniteSet(1 .. n)
          /\ Cardinality(1 .. n) = IF 1 > n THEN 0 ELSE n - 1 + 1
      BY <1>1, FS_Interval
    <2> QED
      BY <1>1, <2>1
  <1>5. IsFiniteSet(Range(s)) /\ Cardinality(Range(s)) = Cardinality(1 .. n)
    BY <1>2, <1>4, FS_Surjection, <1>3, FS_Bijection
  <1> QED
    BY <1>4, <1>5

\* A port of which nothing changes keeps its buffers.
LEMMA PortStays ==
    ASSUME NEW p, PortKept(p), Audio!Returning(p)' <=> Audio!Returning(p),
           bufferQ'[p] = bufferQ[p], audioNumElem'[p] = audioNumElem[p],
           dataBuffer'[p] = dataBuffer[p], atClient'[p] = atClient[p]
    PROVE  PortKept(p)'
  <1>1. Audio!Held(p)' = Audio!Held(p)
    BY DEF Audio!Held
  <1> QED
    BY <1>1 DEF PortKept

\* A buffer is queued ...
LEMMA PortQueues ==
    ASSUME NEW p, PortKept(p), NEW b \in atClient[p],
           Audio!Returning(p)' <=> Audio!Returning(p), dataBuffer'[p] = dataBuffer[p],
           bufferQ'[p] = Append(bufferQ[p], b), audioNumElem'[p] = audioNumElem[p] + 1,
           atClient'[p] = atClient[p] \ {b}
    PROVE  PortKept(p)'
  <1>1. Audio!Held(p)' = Audio!Held(p)
    BY DEF Audio!Held
  <1>2. b \in Buffers[p] /\ b \notin Range(bufferQ[p])
    BY DEF PortKept
  <1>3. /\ bufferQ'[p] \in Seq(Buffers[p]) /\ IsInjective(bufferQ'[p])
        /\ Range(bufferQ'[p]) = Range(bufferQ[p]) \cup {b}
        /\ Len(bufferQ'[p]) = Len(bufferQ[p]) + 1
    <2>1. bufferQ[p] \in Seq(Buffers[p]) /\ IsInjective(bufferQ[p])
      BY DEF PortKept
    <2>2. PICK s \in Seq(Buffers[p]) : s = bufferQ[p]
      BY <2>1
    <2>a. s \in Seq(Buffers[p]) /\ IsInjective(s) /\ b \in Buffers[p] /\ b \notin Range(s)
      BY <1>2, <2>1, <2>2
    <2>3. /\ Append(s, b) \in Seq(Buffers[p]) /\ IsInjective(Append(s, b))
          /\ Range(Append(s, b)) = Range(s) \cup {b}
          /\ Len(Append(s, b)) = Len(s) + 1
      BY ONLY <2>a, AppendIsInjective
    <2> QED
      BY <2>2, <2>3
  <1> HIDE DEF Audio!Held, Audio!Returning
  <1>4. /\ bufferQ'[p] \in Seq(Buffers[p]) /\ IsInjective(bufferQ'[p])
        /\ audioNumElem'[p] = Len(bufferQ'[p])
    BY <1>3 DEF PortKept
  <1>5. dataBuffer'[p] \in Buffers[p] \cup {NoBuffer}
    BY DEF PortKept
  <1>6. /\ atClient'[p] \cap Range(bufferQ'[p]) = {}
        /\ Audio!Held(p)' \cap (atClient'[p] \cup Range(bufferQ'[p])) = {}
        /\ atClient'[p] \cup Range(bufferQ'[p]) \cup Audio!Held(p)' = Buffers[p]
    BY <1>1, <1>2, <1>3 DEF PortKept
  <1> QED
    BY <1>4, <1>5, <1>6 DEF PortKept

\* ... the first one is taken, by the thread or for the client ...
LEMMA PortTakes ==
    ASSUME NEW p, PortKept(p), bufferQ[p] # <<>>, NoBuffer \notin Buffers[p],
           bufferQ'[p] = Tail(bufferQ[p]), audioNumElem'[p] = audioNumElem[p] - 1,
           \/ /\ dataBuffer[p] = NoBuffer /\ dataBuffer'[p] = Head(bufferQ[p])
              /\ atClient'[p] = atClient[p] /\ ~ Audio!Returning(p)'
           \/ /\ dataBuffer'[p] = dataBuffer[p]
              /\ Audio!Returning(p)' <=> Audio!Returning(p)
              /\ atClient'[p] = atClient[p] \cup {Head(bufferQ[p])}
    PROVE  PortKept(p)'
  <1> DEFINE h == Head(bufferQ[p])
  <1>1. /\ bufferQ'[p] \in Seq(Buffers[p]) /\ IsInjective(bufferQ'[p])
        /\ h \in Buffers[p] /\ h \in Range(bufferQ[p])
        /\ Range(bufferQ'[p]) = Range(bufferQ[p]) \ {h}
        /\ Len(bufferQ'[p]) = Len(bufferQ[p]) - 1
    <2>1. bufferQ[p] \in Seq(Buffers[p]) /\ IsInjective(bufferQ[p])
      BY DEF PortKept
    <2>2. PICK s \in Seq(Buffers[p]) : s = bufferQ[p]
      BY <2>1
    <2>3. /\ Tail(s) \in Seq(Buffers[p]) /\ IsInjective(Tail(s))
          /\ Head(s) \in Buffers[p] /\ Head(s) \in Range(s)
          /\ Range(Tail(s)) = Range(s) \ {Head(s)}
          /\ Len(Tail(s)) = Len(s) - 1
      BY <2>1, <2>2, TailIsInjective
    <2> QED
      BY <2>2, <2>3
  <1>2. /\ dataBuffer'[p] \in Buffers[p] \cup {NoBuffer}
        /\ audioNumElem'[p] = Len(bufferQ'[p])
    BY <1>1 DEF PortKept
  <1>3. \/ Audio!Held(p) = {} /\ Audio!Held(p)' = {h} /\ atClient'[p] = atClient[p]
        \/ Audio!Held(p)' = Audio!Held(p) /\ atClient'[p] = atClient[p] \cup {h}
    BY <1>1 DEF Audio!Held
  <1>4. /\ atClient'[p] \cap Range(bufferQ'[p]) = {}
        /\ Audio!Held(p)' \cap (atClient'[p] \cup Range(bufferQ'[p])) = {}
        /\ atClient'[p] \cup Range(bufferQ'[p]) \cup Audio!Held(p)' = Buffers[p]
    BY <1>1, <1>3 DEF PortKept
  <1> QED
    BY <1>1, <1>2, <1>4 DEF PortKept

\* ... and the one the thread holds goes back.
LEMMA PortReturns ==
    ASSUME NEW p, PortKept(p), NoBuffer \notin Buffers[p],
           bufferQ'[p] = bufferQ[p], audioNumElem'[p] = audioNumElem[p],
           atClient'[p] = atClient[p] \cup Audio!Held(p),
           \/ dataBuffer'[p] = NoBuffer
           \/ dataBuffer'[p] = dataBuffer[p] /\ Audio!Returning(p)'
    PROVE  PortKept(p)'
  <1>1. Audio!Held(p)' = {}
    BY DEF Audio!Held
  <1>2. dataBuffer'[p] \in Buffers[p] \cup {NoBuffer}
    BY DEF PortKept
  <1> HIDE DEF Audio!Held
  <1> QED
    BY <1>1, <1>2 DEF PortKept

\* The audio decoder counts as this module does.
LEMMA CountsAlike ==
    ASSUME NEW S
    PROVE  Audio!Cardinality(S) = Cardinality(S)
  BY Zenon DEF Audio!Cardinality, Cardinality

\* The places of the buffers are those the property names.
LEMMA PlacesAreOne ==
    ASSUME AudioInv
    PROVE  AudioBuffersKept
  <1>1. ASSUME NEW p \in AudioPorts
        PROVE  /\ \A b \in Buffers[p] :
                     Cardinality({place \in {<<"client", atClient[p]>>,
                                             <<"queue", Audio!Queued(p)>>,
                                             <<"held", Audio!Held(p)>>} : b \in place[2]}) = 1
               /\ audioNumElem[p] = Len(bufferQ[p])
               /\ Len(bufferQ[p]) = Cardinality(Audio!Queued(p))
               /\ audioState = "Idle" => atClient[p] = Buffers[p]
    <2>1. PortKept(p)
      BY DEF AudioInv, AudioPlaces
    <2>2. Audio!Queued(p) = Range(bufferQ[p])
      BY DEF Audio!Queued, Range
    <2>3. Len(bufferQ[p]) = Cardinality(Audio!Queued(p))
      BY <2>1, <2>2, AsLongAsItsRange DEF PortKept
    <2>4. ASSUME NEW b \in Buffers[p]
          PROVE  Cardinality({place \in {<<"client", atClient[p]>>,
                                         <<"queue", Audio!Queued(p)>>,
                                         <<"held", Audio!Held(p)>>} : b \in place[2]}) = 1
      <3> DEFINE c == <<"client", atClient[p]>>
                 q == <<"queue", Audio!Queued(p)>>
                 h == <<"held", Audio!Held(p)>>
                 S == {place \in {c, q, h} : b \in place[2]}
      <3>1. \/ b \in c[2] /\ b \notin q[2] /\ b \notin h[2]
            \/ b \notin c[2] /\ b \in q[2] /\ b \notin h[2]
            \/ b \notin c[2] /\ b \notin q[2] /\ b \in h[2]
        <4> HIDE DEF Audio!Held, Audio!Queued
        <4> QED
          BY <2>1, <2>2 DEF PortKept
      <3> HIDE DEF c, q, h
      <3>2. \E x : S = {x}
        BY <3>1
      <3>3. PICK x : S = {x}
        BY <3>2
      <3>4. Cardinality({x}) = 1
        BY FS_Singleton
      <3> QED
        BY <3>3, <3>4 DEF S, c, q, h
    <2> QED
      BY <2>1, <2>3, <2>4 DEF PortKept, AudioInv, AudioCommands, Emptied
  <1>2. Audio!BuffersKept
    BY <1>1, CountsAlike, Zenon DEF Audio!BuffersKept, Audio!Ports, AudioPorts
  <1>3. Audio!TypeOK
    <2>1. audioNumElem \in [AudioPorts -> Nat]
      <3>1. \A p \in AudioPorts : audioNumElem[p] \in Nat
        BY LenProperties DEF AudioInv, AudioPlaces, PortKept
      <3> QED
        BY <3>1 DEF AudioInv, AudioTypes, OfPorts
    <2>2. \A p \in AudioPorts : /\ bufferQ[p] \in Seq(Buffers[p])
                                /\ dataBuffer[p] \in Buffers[p] \cup {NoBuffer}
      BY DEF AudioInv, AudioPlaces, PortKept
    <2>3. inputData.len \in 0 .. Room /\ outputData.len \in 0 .. 1
      BY DEF AudioInv, AudioTypes, AudioData
    <2> QED
      BY <2>1, <2>2, <2>3
         DEF Audio!TypeOK, AudioInv, AudioTypes, Audio!Ports, AudioPorts, AudioStates
  <1> QED
    BY <1>2, <1>3 DEF AudioBuffersKept

\* What a step writes of one port, and leaves of the other.
LEMMA OfPortsExcept ==
    ASSUME NEW f, OfPorts(f), NEW p \in AudioPorts, NEW e
    PROVE  /\ OfPorts([f EXCEPT ![p] = e]) /\ [f EXCEPT ![p] = e][p] = e
           /\ \A q \in AudioPorts \ {p} : [f EXCEPT ![p] = e][q] = f[q]
  BY DEF OfPorts

\* The ports that a command flushes, in turn.
LEMMA PortLists ==
    /\ <<"in", "out">> \in Seq(AudioPorts) /\ Range(<<"in", "out">>) = AudioPorts
    /\ \A ports : (IF "in" \in ports THEN <<"in">> ELSE <<>>)
                      \o (IF "out" \in ports THEN <<"out">> ELSE <<>>) \in Seq(AudioPorts)
  <1>1. <<>> \in Seq(AudioPorts) /\ <<"in">> \in Seq(AudioPorts) /\ <<"out">> \in Seq(AudioPorts)
    BY DEF AudioPorts
  <1>2. <<"in", "out">> \in Seq(AudioPorts) /\ Range(<<"in", "out">>) = AudioPorts
    BY DEF AudioPorts, Range
  <1>3. ASSUME NEW a \in Seq(AudioPorts), NEW b \in Seq(AudioPorts)
        PROVE  a \o b \in Seq(AudioPorts)
    BY <1>3, ConcatProperties
  <1> QED
    BY <1>1, <1>2, <1>3

\* What the client's calls and commands leave.
LEMMA ClientTypes ==
    ASSUME AudioTypes, Audio!Client \/ Audio!Calls
    PROVE  AudioTypes'
  <1> USE DEF AudioTypes, Audio!state, Audio!queues, Audio!client, Audio!control,
              Audio!codec, Audio!history, Audio!Ports
  <1>1. ASSUME NEW p \in AudioPorts, NEW b \in Buffers[p], Audio!CallCheck(p, b)
        PROVE  AudioTypes'
    <2>1. frame' \in [Buffers["in"] -> {"none", "data", "eos", "last"}]
      BY <1>1 DEF Audio!CallCheck, Audio!Frames
    <2>2. /\ call'.at = "checked" /\ call'.port = p
          /\ call' = [at |-> call'.at, port |-> call'.port, buffer |-> call'.buffer]
      BY <1>1 DEF Audio!CallCheck
    <2> QED
      BY <1>1, <2>1, <2>2 DEF Audio!CallCheck
  <1>2. CASE Audio!CallQueue
    <2>1. OfPorts(atClient)' /\ OfPorts(bufferQ)' /\ OfPorts(audioNumElem)'
      <3>1. /\ call.port \in AudioPorts /\ OfPorts(atClient) /\ OfPorts(bufferQ)
            /\ OfPorts(audioNumElem)
        OBVIOUS
      <3> HIDE DEF OfPorts, AudioTypes
      <3>2. /\ OfPorts([atClient EXCEPT ![call.port] = @ \ {call.buffer}])
            /\ OfPorts([bufferQ EXCEPT ![call.port] = Append(@, call.buffer)])
            /\ OfPorts([audioNumElem EXCEPT ![call.port] = @ + 1])
        BY ONLY <3>1, OfPortsExcept
      <3> QED
        BY <1>2, <3>2, Zenon DEF Audio!CallQueue, OfPorts
    <2>2. /\ call'.at = "queued" /\ call'.port = call.port
          /\ call' = [at |-> call'.at, port |-> call'.port, buffer |-> call'.buffer]
      BY <1>2 DEF Audio!CallQueue
    <2> QED
      BY <1>2, <2>1, <2>2 DEF Audio!CallQueue
  <1>3. CASE Audio!CallPost
    <2>1. bufferSem' \in [AudioPorts -> Nat]
      BY <1>3 DEF Audio!CallPost
    <2>2. call'.at = "none" /\ call'.port = "in"
          /\ call' = [at |-> call'.at, port |-> call'.port, buffer |-> call'.buffer]
      BY <1>3 DEF Audio!CallPost, Audio!NoCall
    <2> QED
      BY <1>3, <2>1, <2>2 DEF Audio!CallPost, AudioPorts
  <1>4. ASSUME NEW ports \in Flushes, Audio!SendFlush(ports)
        PROVE  AudioTypes'
    <2>1. flushing' \in Seq(AudioPorts)
      BY <1>4, PortLists DEF Audio!SendFlush
    <2>2. audioPortFlushed' \in [AudioPorts -> BOOLEAN]
      BY <1>4 DEF Audio!SendFlush, AudioPorts
    <2> QED
      BY <1>4, <2>1, <2>2 DEF Audio!SendFlush
  <1>5. ASSUME NEW s, Audio!SendStateSet(s)
        PROVE  AudioTypes'
    <2>1. flushing' \in Seq(AudioPorts)
      BY <1>5, PortLists DEF Audio!SendStateSet
    <2> QED
      BY <1>5, <2>1 DEF Audio!SendStateSet
  <1> QED
    BY <1>1, <1>2, <1>3, <1>4, <1>5 DEF Audio!Client, Audio!Calls, AudioPorts

\* A step of the thread that only goes on.
ThreadRests == \E from, to : Audio!ThreadGoes(from, to)

\* What the thread leaves.
LEMMA ThreadTypes ==
    ASSUME AudioTypes, AudioPlaces, Audio!Thread
    PROVE  AudioTypes'
  <1> USE DEF AudioTypes, Audio!state, Audio!queues, Audio!client, Audio!control,
              Audio!codec, Audio!history, Audio!Ports, Audio!ThreadKeeps
  <1>1. ASSUME NEW from, NEW to, Audio!ThreadGoes(from, to)
        PROVE  AudioTypes'
    BY <1>1 DEF Audio!ThreadGoes
  <1>2. CASE Audio!Waited
    BY <1>2 DEF Audio!Waited
  <1>3. ASSUME NEW p \in AudioPorts, Audio!GetWait(p)
        PROVE  AudioTypes'
    <2>1. bufferSem' \in [AudioPorts -> Nat]
      BY <1>3 DEF Audio!GetWait
    <2> QED
      BY <1>3, <2>1 DEF Audio!GetWait
  <1>4. ASSUME NEW p \in AudioPorts, Audio!Take(p)
        PROVE  AudioTypes'
    <2>1. OfPorts(dataBuffer)' /\ OfPorts(bufferQ)' /\ OfPorts(audioNumElem)'
      <3>1. CASE UNCHANGED <<bufferQ, audioNumElem, dataBuffer>>
        BY <3>1 DEF OfPorts
      <3>2. CASE ~ UNCHANGED <<bufferQ, audioNumElem, dataBuffer>>
        <4>1. /\ dataBuffer' = [dataBuffer EXCEPT ![p] = Head(bufferQ[p])]
              /\ bufferQ' = [bufferQ EXCEPT ![p] = Tail(@)]
              /\ audioNumElem' = [audioNumElem EXCEPT ![p] = @ - 1]
          BY <1>4, <3>2 DEF Audio!Take
        <4> QED
          BY <4>1, OfPortsExcept
      <3> QED
        BY <3>1, <3>2
    <2> QED
      BY <1>4, <2>1 DEF Audio!Take
  <1>5. ASSUME NEW d \in AudioData(Room), Audio!Started(d)
        PROVE  inputData' \in AudioData(Room)
    BY <1>5 DEF Audio!Started, AudioData
  <1>6. ASSUME NEW S, Audio!Returned("in", S)
        PROVE  /\ OfPorts(atClient)'
               /\ frame' \in [Buffers["in"] -> {"none", "data", "eos", "last"}]
    <2>1. OfPorts(atClient)'
      BY <1>6, OfPortsExcept DEF Audio!Returned, AudioPorts
    <2> QED
      BY <1>6, <2>1 DEF Audio!Returned
  <1>7. CASE Audio!InputFits
    <2> DEFINE b == dataBuffer["in"]
               f == frame[b]
               ends == flags.bSaveFlagEOS \/ f # "data"
               d == [inputData EXCEPT !.len = @ + Audio!Size(f), !.eos = ends,
                                      !.ts = IF inputData.len = 0 THEN "none" ELSE @]
    <2>1. inputData.len + Audio!Size(f) \in 0 .. Room
      BY <1>7, AudioAssumption DEF Audio!InputFits, Audio!Size, AudioData
    <2>2. d \in AudioData(Room)
      BY <2>1 DEF AudioData
    <2> HIDE DEF d, ends
    <2>3. inputData' \in AudioData(Room)
      BY <1>5, <1>7, <2>2 DEF Audio!InputFits, d, ends
    <2>4. OfPorts(dataBuffer)' /\ bufferMutex' \in [AudioPorts -> {"free", "thread", "handler"}]
      BY <1>7, OfPortsExcept DEF Audio!InputFits, AudioPorts
    <2> QED
      BY <1>6, <1>7, <2>3, <2>4 DEF Audio!InputFits
  <1>8. CASE Audio!InputOverflows
    <2>1. inputData' \in AudioData(Room)
      BY <1>8, AudioAssumption DEF Audio!InputOverflows, Audio!NoData, AudioData
    <2>2. OfPorts(dataBuffer)'
      <3>1. dataBuffer' = dataBuffer \/ dataBuffer' = [dataBuffer EXCEPT !["in"] = NoBuffer]
        BY <1>8, Zenon DEF Audio!InputOverflows
      <3>2. OfPorts(dataBuffer) /\ "in" \in AudioPorts
        BY DEF AudioPorts
      <3> HIDE DEF AudioTypes, OfPorts
      <3>3. OfPorts([dataBuffer EXCEPT !["in"] = NoBuffer])
        BY ONLY <3>2, OfPortsExcept
      <3> QED
        BY <3>1, <3>2, <3>3, Zenon DEF OfPorts
    <2> QED
      BY <1>6, <1>8, <2>1, <2>2 DEF Audio!InputOverflows
  <1>9. CASE Audio!InResume
    <2>1. OfPorts(dataBuffer)' /\ bufferMutex' \in [AudioPorts -> {"free", "thread", "handler"}]
      BY <1>9, OfPortsExcept DEF Audio!InResume, AudioPorts
    <2> QED
      BY <1>5, <1>9, <2>1 DEF Audio!InResume
  <1>10. ASSUME NEW result, NEW out \in AudioData(1), NEW new, Audio!Decoded(result, out, new)
         PROVE  AudioTypes'
    <2>1. inputData' \in AudioData(Room)
      <3>1. inputData' = inputData \/ inputData' = [inputData EXCEPT !.len = 0]
        BY <1>10 DEF Audio!Decoded
      <3>2. [inputData EXCEPT !.len = 0] \in AudioData(Room)
        <4>1. 0 \in 0 .. Room
          BY AudioAssumption
        <4> HIDE DEF AudioTypes
        <4>2. inputData \in AudioData(Room)
          BY DEF AudioTypes
        <4> QED
          BY ONLY <4>1, <4>2 DEF AudioData
      <3> QED
        BY <3>1, <3>2
    <2> QED
      BY <1>10, <2>1 DEF Audio!Decoded
  <1>11. /\ Audio!Stamped \in AudioData(1)
         /\ [Audio!Stamped EXCEPT !.eos = TRUE] \in AudioData(1)
         /\ [Audio!Stamped EXCEPT !.len = 0] \in AudioData(1)
         /\ \A pcm : [Audio!Stamped EXCEPT !.len = IF pcm = "none" THEN 0 ELSE 1,
                                           !.old = pcm = "old"] \in AudioData(1)
    <2>1. Audio!Stamped \in AudioData(1)
      BY DEF Audio!Stamped, AudioData
    <2> HIDE DEF Audio!Stamped
    <2>2. ASSUME NEW pcm
          PROVE  [Audio!Stamped EXCEPT !.len = IF pcm = "none" THEN 0 ELSE 1,
                                       !.old = pcm = "old"] \in AudioData(1)
      <3>1. PICK s \in AudioData(1) : s = Audio!Stamped
        BY <2>1
      <3>2. PICK n \in 0 .. 1 : n = IF pcm = "none" THEN 0 ELSE 1
        OBVIOUS
      <3>3. PICK o \in BOOLEAN : o = (pcm = "old")
        OBVIOUS
      <3>4. [s EXCEPT !.len = n, !.old = o] \in AudioData(1)
        BY DEF AudioData
      <3> QED
        BY <3>1, <3>2, <3>3, <3>4
    <2> QED
      BY <2>1, <2>2 DEF AudioData
  <1>12. CASE Audio!HeldBack \/ Audio!DecodesOnlyEOS \/ Audio!DecodesFails
    BY <1>10, <1>11, <1>12 DEF Audio!HeldBack, Audio!DecodesOnlyEOS, Audio!DecodesFails
  <1>13. ASSUME NEW known, Audio!DecodesHeader(known)
         PROVE  AudioTypes'
    BY <1>10, <1>11, <1>13 DEF Audio!DecodesHeader
  <1>14. ASSUME NEW pcm, Audio!DecodesPCM(pcm)
         PROVE  AudioTypes'
    <2> DEFINE out == [Audio!Stamped EXCEPT !.len = IF pcm = "none" THEN 0 ELSE 1,
                                            !.old = pcm = "old"]
    <2>1. out \in AudioData(1)
      BY <1>11
    <2>2. [out EXCEPT !.eos = TRUE] \in AudioData(1)
      BY <2>1 DEF AudioData
    <2> QED
      BY <1>10, <1>14, <2>1, <2>2 DEF Audio!DecodesPCM
  <1>15. CASE Audio!InputKeeps
    BY <1>15 DEF Audio!InputKeeps
  <1>16. Audio!NoData \in AudioData(1)
    BY DEF Audio!NoData, AudioData
  <1>17. CASE Audio!PostsDropped
    BY <1>16, <1>17 DEF Audio!PostsDropped
  <1>18. CASE Audio!PostsOutput
    <2>1. /\ OfPorts(dataBuffer)' /\ OfPorts(atClient)'
          /\ bufferMutex' \in [AudioPorts -> {"free", "thread", "handler"}]
      <3>1. CASE UNCHANGED <<atClient, dataBuffer, bufferMutex>>
        BY <3>1 DEF OfPorts
      <3>2. CASE ~ UNCHANGED <<atClient, dataBuffer, bufferMutex>>
        <4>1. /\ atClient' = [atClient EXCEPT !["out"] = @ \cup {dataBuffer["out"]}]
              /\ \/ /\ bufferMutex' = [bufferMutex EXCEPT !["out"] = "thread"]
                    /\ UNCHANGED dataBuffer
                 \/ /\ dataBuffer' = [dataBuffer EXCEPT !["out"] = NoBuffer]
                    /\ UNCHANGED bufferMutex
          BY <1>18, <3>2 DEF Audio!PostsOutput
        <4>2. "out" \in AudioPorts
          BY DEF AudioPorts
        <4>3. OfPorts(atClient)'
          BY <4>1, <4>2, OfPortsExcept
        <4>4. OfPorts(dataBuffer)'
          BY <4>1, <4>2, OfPortsExcept DEF OfPorts
        <4> QED
          BY <4>1, <4>2, <4>3, <4>4
      <3> QED
        BY <3>1, <3>2
    <2> QED
      BY <1>16, <1>18, <2>1 DEF Audio!PostsOutput
  <1>19. CASE Audio!OutResume
    <2>1. OfPorts(dataBuffer)' /\ bufferMutex' \in [AudioPorts -> {"free", "thread", "handler"}]
      BY <1>19, OfPortsExcept DEF Audio!OutResume, AudioPorts
    <2> QED
      BY <1>19, <2>1 DEF Audio!OutResume
  <1> HIDE DEF AudioTypes
  <1> QED
    BY <1>1, <1>2, <1>3, <1>4, <1>7, <1>8, <1>9, <1>12, <1>13, <1>14, <1>15, <1>17, <1>18,
       <1>19
       DEF Audio!Thread, Audio!Outer, Audio!Waiting, Audio!Inner, Audio!CheckOut, AudioPorts,
           Audio!GetQueue, Audio!InputKept, Audio!InputMissing, Audio!InPaused,
           Audio!PostsNowhere, Audio!OutPaused

\* What the message handler leaves.
LEMMA HandlerTypes ==
    ASSUME AudioTypes, AudioPlaces, AudioCommands, Audio!Handler
    PROVE  AudioTypes'
  <1> USE DEF AudioTypes, Audio!state, Audio!queues, Audio!client, Audio!control,
              Audio!codec, Audio!history, Audio!Ports, Audio!HandlerKeeps, Audio!HandlerGoes
  <1>1. ASSUME flushing # <<>>
        PROVE  Head(flushing) \in AudioPorts /\ Tail(flushing) \in Seq(AudioPorts)
    BY <1>1, HeadTailProperties
  <1>2. handler \notin {"idle", "exit", "join"} => flushing # <<>>
    BY DEF AudioCommands
  <1>3. CASE Audio!FlushWakes
    BY <1>3 DEF Audio!FlushWakes
  <1>4. CASE Audio!FlushLocks
    <2>1. bufferMutex' \in [AudioPorts -> {"free", "thread", "handler"}]
      BY <1>1, <1>2, <1>4 DEF Audio!FlushLocks
    <2> QED
      BY <1>4, <2>1 DEF Audio!FlushLocks
  <1>5. CASE Audio!FlushCounts
    <2>1. bufferSem' \in [AudioPorts -> Nat]
      BY <1>1, <1>2, <1>5 DEF Audio!FlushCounts
    <2> QED
      BY <1>5, <2>1 DEF Audio!FlushCounts
  <1>6. ASSUME NEW p \in AudioPorts, NEW S, Audio!Returned(p, S)
        PROVE  /\ OfPorts(atClient)'
               /\ frame' \in [Buffers["in"] -> {"none", "data", "eos", "last"}]
    <2>1. OfPorts(atClient)'
      BY <1>6, OfPortsExcept DEF Audio!Returned
    <2> QED
      BY <1>6, <2>1 DEF Audio!Returned
  <1>7. CASE Audio!FlushReturns
    <2> DEFINE p == Head(flushing)
    <2>1. p \in AudioPorts
      BY <1>1, <1>2, <1>7 DEF Audio!FlushReturns
    <2>2. bufferSem' \in [AudioPorts -> Nat]
      BY <2>1, <1>7 DEF Audio!FlushReturns
    <2>3. CASE bufferQ[p] = <<>>
      BY <1>7, <2>2, <2>3 DEF Audio!FlushReturns
    <2>4. CASE bufferQ[p] # <<>>
      <3>1. /\ bufferQ' = [bufferQ EXCEPT ![p] = Tail(@)]
            /\ audioNumElem' = [audioNumElem EXCEPT ![p] = @ - 1]
            /\ Audio!Returned(p, {Head(bufferQ[p])})
        BY <1>7, <2>4 DEF Audio!FlushReturns
      <3>2. OfPorts(bufferQ)' /\ OfPorts(audioNumElem)'
        BY <2>1, <3>1, OfPortsExcept
      <3> QED
        BY <1>6, <1>7, <2>1, <2>2, <3>1, <3>2 DEF Audio!FlushReturns
    <2> QED
      BY <2>3, <2>4
  <1>8. Audio!NoData \in AudioData(1) /\ Audio!NoData \in AudioData(Room)
    BY AudioAssumption DEF Audio!NoData, AudioData
  <1>9. CASE Audio!FlushHeld
    <2> DEFINE p == Head(flushing)
    <2>1. p \in AudioPorts
      BY <1>1, <1>2, <1>9 DEF Audio!FlushHeld
    <2>2. /\ bufferSem' \in [AudioPorts -> Nat]
          /\ bufferMutex' \in [AudioPorts -> {"free", "thread", "handler"}]
      BY <2>1, <1>9 DEF Audio!FlushHeld
    <2>3. OfPorts(dataBuffer)' /\ OfPorts(audioNumElem)'
      <3>1. /\ dataBuffer' = [dataBuffer EXCEPT ![p] = NoBuffer]
            /\ audioNumElem' = [audioNumElem EXCEPT ![p] = 0]
        BY <1>9 DEF Audio!FlushHeld
      <3> QED
        BY <2>1, <3>1, OfPortsExcept
    <2> QED
      BY <1>6, <1>8, <1>9, <2>1, <2>2, <2>3 DEF Audio!FlushHeld
  <1>10. CASE Audio!FlushTells
    <2> DEFINE p == Head(flushing)
    <2>1. p \in AudioPorts
      BY <1>1, <1>2, <1>10 DEF Audio!FlushTells
    <2>2. audioPortFlushed' \in [AudioPorts -> BOOLEAN]
      BY <2>1, <1>10 DEF Audio!FlushTells
    <2>3. [outputData EXCEPT !.ts = "none", !.old = outputData.len > 0] \in AudioData(1)
      <3>1. PICK d \in AudioData(1) : d = outputData
        OBVIOUS
      <3>2. PICK o \in BOOLEAN : o = (outputData.len > 0)
        <4>1. outputData.len > 0 \/ ~ outputData.len > 0
          OBVIOUS
        <4>2. (outputData.len > 0) \in BOOLEAN
          BY DEF AudioData
        <4> QED
          BY <4>2
      <3>3. [d EXCEPT !.ts = "none", !.old = o] \in AudioData(1)
        BY DEF AudioData
      <3> QED
        BY <3>1, <3>2, <3>3
    <2>4. outputData' \in AudioData(1)
      BY <1>10, <2>3 DEF Audio!FlushTells
    <2> QED
      BY <1>10, <2>2, <2>4 DEF Audio!FlushTells
  <1>11. CASE Audio!FlushEnds
    BY <1>1, <1>2, <1>11 DEF Audio!FlushEnds
  <1>12. ASSUME NEW s \in AudioStates, NEW transient, NEW wakes,
                Audio!ReachesState(s, transient, wakes)
         PROVE  AudioTypes'
    BY <1>12 DEF Audio!ReachesState
  <1>13. CASE Audio!Terminates
    BY <1>13 DEF Audio!Terminates, AudioStates
  <1>14. CASE Audio!TerminateWakes
    <2>1. bufferSem' \in [AudioPorts -> Nat]
      BY <1>14 DEF Audio!TerminateWakes, AudioPorts
    <2> QED
      BY <1>14, <2>1 DEF Audio!TerminateWakes
  <1>15. CASE Audio!Joined
    <2>1. command \in AudioStates
      BY <1>15 DEF AudioCommands, Audio!Joined, AudioStates
    <2> QED
      BY <1>15, <2>1 DEF Audio!Joined
  <1>16. "Idle" \in AudioStates /\ "Pause" \in AudioStates /\ "Executing" \in AudioStates
    BY DEF AudioStates
  <1> HIDE DEF AudioTypes
  <1> QED
    BY <1>3, <1>4, <1>5, <1>7, <1>9, <1>10, <1>11, <1>12, <1>13, <1>14, <1>15, <1>16
       DEF Audio!Handler, Audio!ToIdle, Audio!ToPause, Audio!ToExecuting

\* A step that moves no buffer, holds no mutex and is no command.
LEMMA AudioRests ==
    ASSUME AudioInv,
           UNCHANGED <<audioState, bufferQ, audioNumElem, dataBuffer, bufferMutex, atClient,
                       call, command, handler, flushing>>,
           \A p \in AudioPorts : Audio!Returning(p)' <=> Audio!Returning(p)
    PROVE  AudioPlaces' /\ AudioMutexes' /\ AudioCommands'
  <1>1. AudioPlaces'
    BY PortStays DEF AudioInv, AudioPlaces
  <1>2. AudioMutexes'
    BY DEF AudioInv, AudioMutexes
  <1>3. AudioCommands'
    BY DEF AudioInv, AudioCommands, Emptied
  <1> QED
    BY <1>1, <1>2, <1>3

\* Buffers that go to the client leave what it has been told is there.
LEMMA ThreadCommands ==
    ASSUME AudioInv, AudioPlaces', UNCHANGED <<audioState, command, handler, flushing, call>>,
           \A p \in AudioPorts : atClient[p] \subseteq atClient'[p],
           \A p \in AudioPorts : bufferQ[p] = <<>> => bufferQ'[p] = <<>>
    PROVE  AudioCommands'
  <1>1. \A p \in AudioPorts : Emptied(p)' => atClient'[p] = Buffers[p]
    <2> SUFFICES ASSUME NEW p \in AudioPorts, Emptied(p)'
                 PROVE  atClient'[p] = Buffers[p]
      OBVIOUS
    <2>1. Emptied(p)
      BY DEF Emptied
    <2>2. atClient[p] = Buffers[p]
      BY <2>1 DEF AudioInv, AudioCommands
    <2>3. atClient'[p] \subseteq Buffers[p]
      BY DEF AudioPlaces, PortKept
    <2> QED
      BY <2>2, <2>3
  <1>2. handler = "held" => Head(flushing) \in AudioPorts
    BY HeadTailProperties DEF AudioInv, AudioTypes, AudioCommands
  <1>3. handler = "held" => bufferQ'[Head(flushing)] = <<>>
    BY <1>2 DEF AudioInv, AudioCommands
  <1>4. call.at = "checked" => call.buffer \in atClient'[call.port]
    BY DEF AudioInv, AudioCommands, AudioTypes
  <1> QED
    BY <1>1, <1>3, <1>4 DEF AudioInv, AudioCommands

\* A step that is about one port.
LEMMA OnePortMoves ==
    ASSUME AudioInv, NEW p \in AudioPorts, PortKept(p)',
           \A q \in AudioPorts \ {p} :
              /\ bufferQ'[q] = bufferQ[q] /\ audioNumElem'[q] = audioNumElem[q]
              /\ dataBuffer'[q] = dataBuffer[q] /\ atClient'[q] = atClient[q]
              /\ Audio!Returning(q)' <=> Audio!Returning(q)
    PROVE  AudioPlaces'
  <1>1. ASSUME NEW q \in AudioPorts \ {p}
        PROVE  PortKept(q)'
    BY <1>1, PortStays DEF AudioInv, AudioPlaces
  <1> QED
    BY <1>1 DEF AudioPlaces

\* The thread's steps move a buffer from one place to the next.
LEMMA ThreadPlaces ==
    ASSUME AudioInv, Audio!Thread
    PROVE  AudioPlaces' /\ AudioMutexes' /\ AudioCommands'
  <1> USE DEF Audio!state, Audio!queues, Audio!client, Audio!control, Audio!codec,
              Audio!history, Audio!Ports, Audio!ThreadKeeps
  <1>1. ASSUME NEW from, NEW to, Audio!ThreadGoes(from, to),
               \A p \in AudioPorts :
                  \/ from \notin {"inPaused", "inResume", "outPaused", "outResume"}
                     /\ to \notin {"inPaused", "inResume", "outPaused", "outResume"}
                  \/ from = "inPaused" /\ to = "inResume"
                  \/ from = "outPaused" /\ to = "outResume"
        PROVE  AudioPlaces' /\ AudioMutexes' /\ AudioCommands'
    BY <1>1, AudioRests DEF Audio!ThreadGoes, Audio!Returning, AudioPorts
  <1>2. CASE Audio!Outer \/ Audio!Waiting \/ Audio!Inner \/ Audio!CheckOut \/ Audio!InPaused
             \/ Audio!InputKept \/ Audio!InputMissing \/ Audio!PostsNowhere \/ Audio!OutPaused
    BY <1>1, <1>2
       DEF Audio!Outer, Audio!Waiting, Audio!Inner, Audio!CheckOut, Audio!InputKept,
           Audio!InputMissing, Audio!NoInput, Audio!PostsNowhere, Audio!OutPaused,
           Audio!InPaused
  <1>3. ASSUME NEW p \in AudioPorts, Audio!GetQueue(p)
        PROVE  AudioPlaces' /\ AudioMutexes' /\ AudioCommands'
    BY <1>1, <1>3 DEF Audio!GetQueue, Audio!GetAt, Audio!WaitAt, AudioPorts
  <1>4. ASSUME pc \notin {"inPaused", "inResume", "outPaused", "outResume"},
               pc' \notin {"inPaused", "inResume", "outPaused", "outResume"},
               UNCHANGED <<audioState, bufferQ, audioNumElem, dataBuffer, bufferMutex,
                           atClient, call, command, handler, flushing>>
        PROVE  AudioPlaces' /\ AudioMutexes' /\ AudioCommands'
    BY <1>4, AudioRests DEF Audio!Returning, AudioPorts
  <1>5. CASE Audio!Waited \/ Audio!InputKeeps \/ Audio!PostsDropped
    BY <1>4, <1>5 DEF Audio!Waited, Audio!InputKeeps, Audio!PostsDropped, Audio!Posts
  <1>6. ASSUME NEW p \in AudioPorts, Audio!GetWait(p)
        PROVE  AudioPlaces' /\ AudioMutexes' /\ AudioCommands'
    BY <1>4, <1>6 DEF Audio!GetWait, Audio!WaitAt, Audio!TakeAt, AudioPorts
  <1>7. ASSUME NEW result, NEW out, NEW new, Audio!Decoded(result, out, new), pc = "process"
        PROVE  AudioPlaces' /\ AudioMutexes' /\ AudioCommands'
    BY <1>4, <1>7 DEF Audio!Decoded
  <1>8. CASE Audio!HeldBack \/ Audio!DecodesOnlyEOS \/ Audio!DecodesFails
    BY <1>7, <1>8 DEF Audio!HeldBack, Audio!DecodesOnlyEOS, Audio!DecodesFails,
                      Audio!Decodes, Audio!Processes
  <1>9. ASSUME NEW known, Audio!DecodesHeader(known)
        PROVE  AudioPlaces' /\ AudioMutexes' /\ AudioCommands'
    BY <1>7, <1>9 DEF Audio!DecodesHeader, Audio!Decodes, Audio!Processes
  <1>10. ASSUME NEW pcm, Audio!DecodesPCM(pcm)
         PROVE  AudioPlaces' /\ AudioMutexes' /\ AudioCommands'
    BY <1>7, <1>10 DEF Audio!DecodesPCM, Audio!Decodes, Audio!Processes
  <1> USE DEF AudioPorts
  <1>11. /\ OfPorts(bufferQ) /\ OfPorts(audioNumElem) /\ OfPorts(dataBuffer) /\ OfPorts(atClient)
         /\ bufferMutex \in [AudioPorts -> {"free", "thread", "handler"}]
         /\ \A p \in AudioPorts : NoBuffer \notin Buffers[p] /\ PortKept(p)
    BY AudioAssumption DEF AudioInv, AudioTypes, AudioPlaces
  <1>12. /\ \A p \in AudioPorts : bufferMutex[p] = "thread" <=> Audio!Returning(p)
         /\ \A p \in AudioPorts : Audio!Returning(p) => dataBuffer[p] # NoBuffer
    BY DEF AudioInv, AudioMutexes
  <1>13. ASSUME NEW p \in AudioPorts, Audio!Take(p)
         PROVE  AudioPlaces' /\ AudioMutexes' /\ AudioCommands'
    <2>1. /\ pc \notin {"inPaused", "inResume", "outPaused", "outResume"}
          /\ pc' \notin {"inPaused", "inResume", "outPaused", "outResume"}
          /\ UNCHANGED <<audioState, bufferMutex, atClient, call, command, handler, flushing>>
      BY <1>13 DEF Audio!Take, Audio!TakeAt, Audio!Taken
    <2>2. CASE UNCHANGED <<bufferQ, audioNumElem, dataBuffer>>
      BY <1>4, <2>1, <2>2
    <2>3. CASE ~ UNCHANGED <<bufferQ, audioNumElem, dataBuffer>>
      <3>1. /\ dataBuffer[p] = NoBuffer /\ bufferQ[p] # <<>>
            /\ dataBuffer' = [dataBuffer EXCEPT ![p] = Head(bufferQ[p])]
            /\ bufferQ' = [bufferQ EXCEPT ![p] = Tail(@)]
            /\ audioNumElem' = [audioNumElem EXCEPT ![p] = @ - 1]
        BY <1>13, <2>3 DEF Audio!Take
      <3>2. /\ bufferQ'[p] = Tail(bufferQ[p]) /\ audioNumElem'[p] = audioNumElem[p] - 1
            /\ dataBuffer'[p] = Head(bufferQ[p])
            /\ \A q \in AudioPorts \ {p} :
                  /\ bufferQ'[q] = bufferQ[q] /\ audioNumElem'[q] = audioNumElem[q]
                  /\ dataBuffer'[q] = dataBuffer[q]
        BY <1>11, <3>1 DEF OfPorts
      <3>3. \A q \in AudioPorts : ~ Audio!Returning(q) /\ ~ Audio!Returning(q)'
        BY <2>1 DEF Audio!Returning
      <3>4. PortKept(p)'
        BY <1>11, <2>1, <3>1, <3>2, <3>3, PortTakes
      <3>5. AudioPlaces'
        BY <2>1, <3>2, <3>3, <3>4, OnePortMoves
      <3>6. AudioMutexes'
        BY <2>1, <3>3 DEF AudioInv, AudioMutexes
      <3>7. \A q \in AudioPorts : bufferQ[q] = <<>> => bufferQ'[q] = <<>>
        BY <3>1, <3>2
      <3>8. AudioCommands'
        BY <2>1, <3>5, <3>7, ThreadCommands
      <3> QED
        BY <3>5, <3>6, <3>8
    <2> QED
      BY <2>2, <2>3
  <1>14. ASSUME NEW p \in AudioPorts, UNCHANGED <<bufferQ, audioNumElem>>,
                UNCHANGED <<audioState, command, handler, flushing, call>>,
                ~ Audio!Returning(p), bufferMutex[p] = "free", dataBuffer[p] # NoBuffer,
                atClient'[p] = atClient[p] \cup {dataBuffer[p]},
                \/ /\ bufferMutex'[p] = "free" /\ dataBuffer'[p] = NoBuffer
                   /\ ~ Audio!Returning(p)'
                \/ /\ bufferMutex'[p] = "thread" /\ dataBuffer'[p] = dataBuffer[p]
                   /\ Audio!Returning(p)',
                \A q \in AudioPorts \ {p} :
                   /\ dataBuffer'[q] = dataBuffer[q] /\ atClient'[q] = atClient[q]
                   /\ bufferMutex'[q] = bufferMutex[q]
                   /\ Audio!Returning(q)' <=> Audio!Returning(q)
         PROVE  AudioPlaces' /\ AudioMutexes' /\ AudioCommands'
    <2>1. Audio!Held(p) = {dataBuffer[p]}
      BY <1>14 DEF Audio!Held
    <2>2. PortKept(p)'
      <3>1. PortKept(p) /\ NoBuffer \notin Buffers[p]
        BY <1>11
      <3>2. \/ dataBuffer'[p] = NoBuffer
            \/ dataBuffer'[p] = dataBuffer[p] /\ Audio!Returning(p)'
        BY <1>14
      <3>3. bufferQ'[p] = bufferQ[p] /\ audioNumElem'[p] = audioNumElem[p]
        BY <1>14
      <3>4. atClient'[p] = atClient[p] \cup Audio!Held(p)
        BY <1>14, <2>1
      <3> HIDE DEF Audio!Held, Audio!Returning
      <3> QED
        BY <3>1, <3>2, <3>3, <3>4, PortReturns
    <2>3. AudioPlaces'
      BY <1>14, <2>2, OnePortMoves
    <2>4. AudioMutexes'
      BY <1>14 DEF AudioInv, AudioMutexes
    <2>5. \A q \in AudioPorts : atClient[q] \subseteq atClient'[q]
      BY <1>14
    <2>6. AudioCommands'
      BY <1>14, <2>3, <2>5, ThreadCommands
    <2> QED
      BY <2>3, <2>4, <2>6
  <1>15. ASSUME NEW S, Audio!Returned("in", S)
         PROVE  /\ atClient'["in"] = atClient["in"] \cup S
                /\ atClient'["out"] = atClient["out"]
    BY <1>11, <1>15 DEF Audio!Returned, OfPorts
  <1>16. CASE Audio!InputFits
    <2>1. /\ pc = "input" /\ bufferMutex["in"] = "free" /\ dataBuffer["in"] # NoBuffer
          /\ Audio!Returned("in", {dataBuffer["in"]})
          /\ UNCHANGED <<bufferQ, audioNumElem, audioState, command, handler, flushing, call>>
          /\ \/ /\ pc' = "inPaused" /\ bufferMutex' = [bufferMutex EXCEPT !["in"] = "thread"]
                /\ UNCHANGED dataBuffer
             \/ /\ pc' = "process" /\ dataBuffer' = [dataBuffer EXCEPT !["in"] = NoBuffer]
                /\ UNCHANGED bufferMutex
      BY <1>16 DEF Audio!InputFits
    <2>2. /\ ~ Audio!Returning("in") /\ ~ Audio!Returning("out") /\ ~ Audio!Returning("out")'
          /\ pc' = "inPaused" <=> Audio!Returning("in")'
      BY <2>1 DEF Audio!Returning
    <2>3. /\ dataBuffer'["out"] = dataBuffer["out"] /\ bufferMutex'["out"] = bufferMutex["out"]
          /\ \/ /\ bufferMutex'["in"] = "free" /\ dataBuffer'["in"] = NoBuffer
                /\ ~ Audio!Returning("in")'
             \/ /\ bufferMutex'["in"] = "thread" /\ dataBuffer'["in"] = dataBuffer["in"]
                /\ Audio!Returning("in")'
      BY <1>11, <2>1, <2>2 DEF OfPorts
    <2> QED
      BY <1>14, <1>15, <2>1, <2>2, <2>3
  <1>17. CASE Audio!InputOverflows
    <2>1. /\ pc = "input" /\ bufferMutex["in"] = "free" /\ dataBuffer["in"] # NoBuffer
          /\ pc' \in {"process", "inGet"}
          /\ UNCHANGED <<bufferQ, audioNumElem, audioState, command, handler, flushing, call,
                         bufferMutex>>
          /\ \/ /\ Audio!Returned("in", {dataBuffer["in"]})
                /\ dataBuffer' = [dataBuffer EXCEPT !["in"] = NoBuffer]
             \/ UNCHANGED <<dataBuffer, atClient>>
      BY <1>17 DEF Audio!InputOverflows, Audio!NoInput
    <2>2. \A q \in AudioPorts : ~ Audio!Returning(q) /\ ~ Audio!Returning(q)'
      BY <2>1 DEF Audio!Returning
    <2>3. CASE UNCHANGED <<dataBuffer, atClient>>
      BY <1>4, <2>1, <2>3
    <2>4. CASE /\ Audio!Returned("in", {dataBuffer["in"]})
               /\ dataBuffer' = [dataBuffer EXCEPT !["in"] = NoBuffer]
      <3>1. dataBuffer'["in"] = NoBuffer /\ dataBuffer'["out"] = dataBuffer["out"]
        BY <1>11, <2>4 DEF OfPorts
      <3> QED
        BY <1>14, <1>15, <2>1, <2>2, <2>4, <3>1
    <2> QED
      BY <2>1, <2>3, <2>4
  <1>18. CASE Audio!PostsOutput
    <2>1. /\ pc = "post" /\ bufferMutex["out"] = "free" /\ dataBuffer["out"] # NoBuffer
          /\ UNCHANGED <<bufferQ, audioNumElem, audioState, command, handler, flushing, call>>
          /\ \/ /\ pc' = "outPaused"
                /\ bufferMutex' = [bufferMutex EXCEPT !["out"] = "thread"]
                /\ UNCHANGED dataBuffer
                /\ atClient' = [atClient EXCEPT !["out"] = @ \cup {dataBuffer["out"]}]
             \/ /\ pc' = "inner" /\ dataBuffer' = [dataBuffer EXCEPT !["out"] = NoBuffer]
                /\ UNCHANGED bufferMutex
                /\ atClient' = [atClient EXCEPT !["out"] = @ \cup {dataBuffer["out"]}]
             \/ pc' = "inner" /\ UNCHANGED <<atClient, dataBuffer, bufferMutex>>
      BY <1>18 DEF Audio!PostsOutput, Audio!Posts
    <2>2. /\ ~ Audio!Returning("in") /\ ~ Audio!Returning("out") /\ ~ Audio!Returning("in")'
          /\ pc' = "outPaused" <=> Audio!Returning("out")'
      BY <2>1 DEF Audio!Returning
    <2>3. CASE UNCHANGED <<atClient, dataBuffer, bufferMutex>> /\ pc' = "inner"
      BY <1>4, <2>1, <2>3
    <2>4. CASE ~ (UNCHANGED <<atClient, dataBuffer, bufferMutex>> /\ pc' = "inner")
      <3>1. atClient' = [atClient EXCEPT !["out"] = @ \cup {dataBuffer["out"]}]
        BY <2>1, <2>4
      <3>2. /\ atClient'["out"] = atClient["out"] \cup {dataBuffer["out"]}
            /\ atClient'["in"] = atClient["in"]
        BY <1>11, <3>1 DEF OfPorts
      <3>3. /\ dataBuffer'["in"] = dataBuffer["in"] /\ bufferMutex'["in"] = bufferMutex["in"]
            /\ \/ /\ bufferMutex'["out"] = "free" /\ dataBuffer'["out"] = NoBuffer
                  /\ ~ Audio!Returning("out")'
               \/ /\ bufferMutex'["out"] = "thread" /\ dataBuffer'["out"] = dataBuffer["out"]
                  /\ Audio!Returning("out")'
        BY <1>11, <2>1, <2>2, <2>4 DEF OfPorts
      <3> QED
        BY <1>14, <2>1, <2>2, <3>2, <3>3
    <2> QED
      BY <2>3, <2>4
  <1>19. ASSUME NEW p \in AudioPorts, UNCHANGED <<bufferQ, audioNumElem, atClient>>,
                UNCHANGED <<audioState, command, handler, flushing, call>>,
                Audio!Returning(p), \A q \in AudioPorts : ~ Audio!Returning(q)',
                bufferMutex' = [bufferMutex EXCEPT ![p] = "free"],
                dataBuffer' = [dataBuffer EXCEPT ![p] = NoBuffer]
         PROVE  AudioPlaces' /\ AudioMutexes' /\ AudioCommands'
    <2>1. /\ dataBuffer'[p] = NoBuffer /\ bufferMutex'[p] = "free"
          /\ \A q \in AudioPorts \ {p} : /\ dataBuffer'[q] = dataBuffer[q]
                                        /\ bufferMutex'[q] = bufferMutex[q]
      BY <1>11, <1>19 DEF OfPorts
    <2>2. \A q \in AudioPorts \ {p} : ~ Audio!Returning(q)
      BY <1>19 DEF Audio!Returning
    <2>3. PortKept(p)'
      <3>1. Audio!Held(p) = {}
        BY <1>19 DEF Audio!Held
      <3> QED
        BY <1>11, <1>19, <2>1, <3>1, PortReturns
    <2>4. AudioPlaces'
      BY <1>19, <2>1, <2>2, <2>3, OnePortMoves
    <2>5. AudioMutexes'
      BY <1>12, <1>19, <2>1, <2>2 DEF AudioInv, AudioMutexes
    <2>6. AudioCommands'
      BY <1>19, <2>4, ThreadCommands
    <2> QED
      BY <2>4, <2>5, <2>6
  <1>20. CASE Audio!InResume \/ Audio!OutResume
    <2>1. CASE Audio!InResume
      <3>1. Audio!Returning("in") /\ \A q \in AudioPorts : ~ Audio!Returning(q)'
        BY <2>1 DEF Audio!InResume, Audio!Returning
      <3> QED
        BY <1>19, <2>1, <3>1 DEF Audio!InResume
    <2>2. CASE Audio!OutResume
      <3>1. Audio!Returning("out") /\ \A q \in AudioPorts : ~ Audio!Returning(q)'
        BY <2>2 DEF Audio!OutResume, Audio!Returning
      <3> QED
        BY <1>19, <2>2, <3>1 DEF Audio!OutResume
    <2> QED
      BY <1>20, <2>1, <2>2
  <1> QED
    BY <1>2, <1>3, <1>5, <1>6, <1>8, <1>9, <1>10, <1>13, <1>16, <1>17, <1>18, <1>20
       DEF Audio!Thread

\* The client calls and sends commands while none is under way.
LEMMA ClientPlaces ==
    ASSUME AudioInv, Audio!Client \/ Audio!Calls
    PROVE  AudioPlaces' /\ AudioMutexes' /\ AudioCommands'
  <1> USE DEF Audio!state, Audio!queues, Audio!client, Audio!control, Audio!codec,
              Audio!history, Audio!Ports
  <1>1. ASSUME UNCHANGED <<bufferQ, audioNumElem, dataBuffer, atClient, pc>>
        PROVE  AudioPlaces'
    BY <1>1, PortStays DEF AudioInv, AudioPlaces, Audio!Returning
  <1>2. ASSUME UNCHANGED <<bufferMutex, dataBuffer, handler, pc>>, handler = "idle"
        PROVE  AudioMutexes'
    BY <1>2 DEF AudioInv, AudioMutexes, Audio!Returning
  <1>3. ASSUME UNCHANGED <<bufferMutex, dataBuffer, handler, flushing, pc>>
        PROVE  AudioMutexes'
    BY <1>3 DEF AudioInv, AudioMutexes, Audio!Returning
  <1>4. ASSUME NEW p \in AudioPorts, NEW b \in Buffers[p], Audio!CallCheck(p, b)
        PROVE  AudioPlaces' /\ AudioMutexes' /\ AudioCommands'
    <2>1. /\ call'.at = "checked" /\ call'.port = p /\ call'.buffer = b /\ b \in atClient[p]
          /\ command = "none" /\ audioState \in {"Executing", "Pause"}
          /\ UNCHANGED <<bufferQ, audioNumElem, dataBuffer, atClient, bufferMutex, handler,
                         flushing, pc, command, audioState>>
      BY <1>4 DEF Audio!CallCheck
    <2>2. AudioCommands'
      BY <2>1 DEF AudioInv, AudioCommands, Emptied
    <2> QED
      BY <1>1, <1>3, <2>1, <2>2
  <1>5. CASE Audio!CallQueue
    <2> PICK p \in AudioPorts : p = call.port
      BY DEF AudioInv, AudioTypes
    <2> PICK b : b = call.buffer
      OBVIOUS
    <2>1. /\ call.at = "checked" /\ call'.at = "queued"
          /\ bufferQ' = [bufferQ EXCEPT ![p] = Append(@, b)]
          /\ audioNumElem' = [audioNumElem EXCEPT ![p] = @ + 1]
          /\ atClient' = [atClient EXCEPT ![p] = @ \ {b}]
          /\ UNCHANGED <<dataBuffer, bufferMutex, handler, flushing, pc, command, audioState>>
      BY <1>5 DEF AudioInv, AudioTypes, Audio!CallQueue
    <2>2. /\ command = "none" /\ audioState \in {"Executing", "Pause"} /\ b \in atClient[p]
          /\ handler \in {"idle", "exit", "join", "told"}
      BY <2>1 DEF AudioInv, AudioCommands
    <2>3. OfPorts(bufferQ) /\ OfPorts(audioNumElem) /\ OfPorts(atClient)
      BY DEF AudioInv, AudioTypes
    <2>4. /\ bufferQ'[p] = Append(bufferQ[p], b) /\ audioNumElem'[p] = audioNumElem[p] + 1
          /\ atClient'[p] = atClient[p] \ {b}
          /\ \A q \in AudioPorts \ {p} :
                /\ bufferQ'[q] = bufferQ[q] /\ audioNumElem'[q] = audioNumElem[q]
                /\ atClient'[q] = atClient[q]
      BY <2>1, <2>3 DEF OfPorts
    <2>5. \A q \in AudioPorts : Audio!Returning(q)' <=> Audio!Returning(q)
      BY <2>1 DEF Audio!Returning
    <2>6. PortKept(p)'
      <3>1. PortKept(p)
        BY <2>1 DEF AudioInv, AudioPlaces
      <3> HIDE DEF Audio!Returning
      <3> QED
        BY <2>1, <2>2, <2>4, <2>5, <3>1, PortQueues
    <2>7. AudioPlaces'
      BY <2>1, <2>4, <2>5, <2>6, OnePortMoves
    <2>8. AudioCommands'
      BY <2>1, <2>2 DEF AudioInv, AudioCommands, Emptied
    <2> QED
      BY <1>3, <2>1, <2>7, <2>8
  <1>6. CASE Audio!CallPost
    <2>1. /\ call'.at = "none"
          /\ UNCHANGED <<bufferQ, audioNumElem, dataBuffer, atClient, bufferMutex, handler,
                         flushing, pc, command, audioState>>
      BY <1>6 DEF Audio!CallPost, Audio!NoCall
    <2>2. AudioCommands'
      BY <2>1 DEF AudioInv, AudioCommands, Emptied
    <2> QED
      BY <1>1, <1>3, <2>1, <2>2
  <1>7. ASSUME NEW ports, Audio!SendFlush(ports)
        PROVE  AudioPlaces' /\ AudioMutexes' /\ AudioCommands'
    <2>1. /\ command' = "Flush" /\ command = "none" /\ call = Audio!NoCall /\ handler = "idle"
          /\ audioState \in {"Executing", "Pause"}
          /\ UNCHANGED <<bufferQ, audioNumElem, dataBuffer, atClient, bufferMutex, handler,
                         call, pc, audioState>>
      BY <1>7 DEF Audio!SendFlush, Audio!ClientMaySend
    <2>2. AudioCommands'
      BY <2>1 DEF AudioInv, AudioCommands, Emptied, Audio!NoCall
    <2> QED
      BY <1>1, <1>2, <2>1, <2>2
  <1>8. ASSUME NEW s, Audio!SendStateSet(s)
        PROVE  AudioPlaces' /\ AudioMutexes' /\ AudioCommands'
    <2>1. /\ command' = s /\ command = "none" /\ call = Audio!NoCall /\ handler = "idle"
          /\ flushing' = IF s = "Idle" THEN <<"in", "out">> ELSE flushing
          /\ UNCHANGED <<bufferQ, audioNumElem, dataBuffer, atClient, bufferMutex, handler,
                         call, pc, audioState>>
          /\ s # "Flush"
      BY <1>8, AudioAssumption DEF Audio!SendStateSet, Audio!ClientMaySend, AudioStates
    <2>2. flushing = <<>>
      BY <2>1 DEF AudioInv, AudioCommands
    <2>3. AudioCommands'
      <3>1. \A p \in AudioPorts : Emptied(p)' => audioState = "Idle"
        BY <2>1, PortLists DEF Emptied
      <3>2. \A p \in AudioPorts : Emptied(p)' => atClient'[p] = Buffers[p]
        BY <2>1, <3>1 DEF AudioInv, AudioCommands, Emptied
      <3> QED
        BY <2>1, <2>2, <3>2 DEF AudioInv, AudioCommands, Audio!NoCall
    <2> QED
      BY <1>1, <1>2, <2>1, <2>3
  <1> QED
    BY <1>4, <1>5, <1>6, <1>7, <1>8 DEF Audio!Client, Audio!Calls, AudioPorts

\* What the client has back it keeps while the handler works.
LEMMA EmptiedStays ==
    ASSUME AudioInv, AudioPlaces', NEW p \in AudioPorts, Emptied(p),
           atClient[p] \subseteq atClient'[p]
    PROVE  atClient'[p] = Buffers[p]
  <1>1. atClient[p] = Buffers[p]
    BY DEF AudioInv, AudioCommands
  <1>2. PortKept(p)'
    BY DEF AudioPlaces
  <1>3. atClient'[p] \subseteq Buffers[p]
    BY <1>2 DEF PortKept
  <1> QED
    BY <1>1, <1>3

\* The message handler flushes one port after another, and changes the state.
LEMMA HandlerPlaces ==
    ASSUME AudioInv, Audio!Handler
    PROVE  AudioPlaces' /\ AudioMutexes' /\ AudioCommands'
  <1> USE DEF Audio!state, Audio!queues, Audio!client, Audio!control, Audio!codec,
              Audio!history, Audio!Ports, Audio!HandlerKeeps, Audio!HandlerGoes
  <1>1. ASSUME UNCHANGED <<bufferQ, audioNumElem, dataBuffer, atClient, pc>>
        PROVE  AudioPlaces'
    BY <1>1, PortStays DEF AudioInv, AudioPlaces, Audio!Returning
  <1>2. ASSUME UNCHANGED <<bufferMutex, dataBuffer, pc>>,
               handler \notin {"count", "wait", "held"},
               handler' \notin {"count", "wait", "held"}
        PROVE  AudioMutexes'
    BY <1>2 DEF AudioInv, AudioMutexes, Audio!Returning
  <1>3. ASSUME UNCHANGED <<bufferMutex, dataBuffer, flushing, pc>>,
               handler \in {"count", "wait", "held"},
               handler' \in {"count", "wait", "held"}
        PROVE  AudioMutexes'
    BY <1>3 DEF AudioInv, AudioMutexes, Audio!Returning
  <1>4. ASSUME handler \in {"lock", "count", "wait", "held", "unlock"}
        PROVE  /\ flushing # <<>> /\ command \in {"Flush", "Idle"} /\ call.at = "none"
               /\ Head(flushing) \in AudioPorts
    <2>1. flushing # <<>> /\ command \in {"Flush", "Idle"} /\ call.at = "none"
      BY <1>4 DEF AudioInv, AudioTypes, AudioCommands
    <2> QED
      BY <2>1, HeadTailProperties DEF AudioInv, AudioTypes
  <1>5. CASE Audio!FlushWakes
    <2>1. /\ handler = "idle" /\ handler' = "lock" /\ flushing # <<>>
          /\ UNCHANGED <<bufferQ, audioNumElem, dataBuffer, atClient, pc, bufferMutex, call,
                         command, flushing, audioState>>
      BY <1>5 DEF Audio!FlushWakes
    <2>2. AudioCommands'
      BY <2>1 DEF AudioInv, AudioCommands, Emptied
    <2> QED
      BY <1>1, <1>2, <2>1, <2>2
  <1>6. CASE Audio!FlushLocks
    <2> PICK p \in AudioPorts : p = Head(flushing)
      BY <1>4, <1>6 DEF Audio!FlushLocks
    <2>1. /\ handler = "lock" /\ handler' = "count" /\ bufferMutex[p] = "free"
          /\ bufferMutex' = [bufferMutex EXCEPT ![p] = "handler"]
          /\ UNCHANGED <<bufferQ, audioNumElem, dataBuffer, atClient, pc, call,
                         command, flushing, audioState>>
      BY <1>6 DEF Audio!FlushLocks
    <2>2. AudioCommands'
      BY <2>1, <1>4 DEF AudioInv, AudioCommands, Emptied
    <2>3. AudioMutexes'
      <3>1. /\ bufferMutex'[p] = "handler"
            /\ \A q \in AudioPorts \ {p} : bufferMutex'[q] = bufferMutex[q]
        BY <2>1 DEF AudioInv, AudioTypes
      <3>2. \A q \in AudioPorts : Audio!Returning(q)' <=> Audio!Returning(q)
        BY <2>1 DEF Audio!Returning
      <3> HIDE DEF Audio!Returning
      <3> QED
        BY <2>1, <3>1, <3>2 DEF AudioInv, AudioMutexes
    <2> QED
      BY <1>1, <2>1, <2>2, <2>3
  <1>7. CASE Audio!FlushCounts
    <2> PICK p \in AudioPorts : p = Head(flushing)
      BY <1>4, <1>7 DEF Audio!FlushCounts
    <2>1. /\ handler = "count"
          /\ handler' = IF audioNumElem[p] > 0 THEN "wait" ELSE "held"
          /\ UNCHANGED <<bufferQ, audioNumElem, dataBuffer, atClient, pc, bufferMutex, call,
                         command, flushing, audioState>>
      BY <1>7 DEF Audio!FlushCounts
    <2>2. handler' = "held" => bufferQ[p] = <<>>
      <3>1. PortKept(p)
        BY DEF AudioInv, AudioPlaces
      <3>2. bufferQ[p] \in Seq(Buffers[p]) /\ audioNumElem[p] = Len(bufferQ[p])
        BY <3>1 DEF PortKept
      <3>3. audioNumElem[p] \in Nat /\ (audioNumElem[p] = 0 => bufferQ[p] = <<>>)
        BY <3>2, LenProperties, EmptySeq
      <3> QED
        BY <2>1, <3>3
    <2>3. AudioCommands'
      BY <2>1, <2>2, <1>4 DEF AudioInv, AudioCommands, Emptied
    <2> QED
      BY <1>1, <1>3, <2>1, <2>3
  <1>8. CASE Audio!FlushReturns
    <2> PICK p \in AudioPorts : p = Head(flushing)
      BY <1>4, <1>8 DEF Audio!FlushReturns
    <2>1. /\ handler = "wait" /\ handler' = "count"
          /\ UNCHANGED <<dataBuffer, pc, bufferMutex, call, command, flushing, audioState>>
      BY <1>8 DEF Audio!FlushReturns
    <2>2. \/ UNCHANGED <<bufferQ, audioNumElem, atClient>>
          \/ /\ bufferQ[p] # <<>>
             /\ bufferQ' = [bufferQ EXCEPT ![p] = Tail(@)]
             /\ audioNumElem' = [audioNumElem EXCEPT ![p] = @ - 1]
             /\ atClient' = [atClient EXCEPT ![p] = @ \cup {Head(bufferQ[p])}]
      BY <1>8 DEF Audio!FlushReturns, Audio!Returned
    <2>3. AudioPlaces'
      <3>1. CASE UNCHANGED <<bufferQ, audioNumElem, atClient>>
        BY <1>1, <2>1, <3>1
      <3>2. CASE /\ bufferQ[p] # <<>>
                 /\ bufferQ' = [bufferQ EXCEPT ![p] = Tail(@)]
                 /\ audioNumElem' = [audioNumElem EXCEPT ![p] = @ - 1]
                 /\ atClient' = [atClient EXCEPT ![p] = @ \cup {Head(bufferQ[p])}]
        <4>1. /\ bufferQ'[p] = Tail(bufferQ[p]) /\ audioNumElem'[p] = audioNumElem[p] - 1
              /\ atClient'[p] = atClient[p] \cup {Head(bufferQ[p])}
              /\ \A q \in AudioPorts \ {p} :
                    /\ bufferQ'[q] = bufferQ[q] /\ audioNumElem'[q] = audioNumElem[q]
                    /\ atClient'[q] = atClient[q]
          BY <3>2 DEF AudioInv, AudioTypes, OfPorts
        <4>2. \A q \in AudioPorts : Audio!Returning(q)' <=> Audio!Returning(q)
          BY <2>1 DEF Audio!Returning
        <4>3. PortKept(p) /\ NoBuffer \notin Buffers[p]
          BY AudioAssumption DEF AudioInv, AudioPlaces, AudioPorts
        <4> HIDE DEF Audio!Returning
        <4>4. PortKept(p)'
          BY <2>1, <3>2, <4>1, <4>2, <4>3, PortTakes
        <4> QED
          BY <2>1, <4>1, <4>2, <4>4, OnePortMoves
      <3> QED
        BY <2>2, <3>1, <3>2
    <2>4. \A q \in AudioPorts : atClient[q] \subseteq atClient'[q]
      <3>1. CASE UNCHANGED atClient
        BY <3>1
      <3>2. CASE atClient' = [atClient EXCEPT ![p] = @ \cup {Head(bufferQ[p])}]
        <4>1. /\ atClient'[p] = atClient[p] \cup {Head(bufferQ[p])}
              /\ \A q \in AudioPorts \ {p} : atClient'[q] = atClient[q]
          BY <3>2 DEF AudioInv, AudioTypes, OfPorts
        <4> QED
          BY <4>1
      <3> QED
        BY <2>2, <3>1, <3>2
    <2>5. \A q \in AudioPorts : Emptied(q)' => atClient'[q] = Buffers[q]
      <3>1. \A q \in AudioPorts : Emptied(q)' => Emptied(q)
        BY <2>1 DEF Emptied
      <3> QED
        BY <2>3, <2>4, <3>1, EmptiedStays
    <2>6. AudioCommands'
      BY <2>1, <2>5, <1>4 DEF AudioInv, AudioCommands
    <2> QED
      BY <1>3, <2>1, <2>3, <2>6
  <1>9. CASE Audio!FlushHeld
    <2> PICK p \in AudioPorts : p = Head(flushing)
      BY <1>4, <1>9 DEF Audio!FlushHeld
    <2>1. /\ handler = "held" /\ handler' = "unlock"
          /\ atClient' = [atClient EXCEPT ![p] = @ \cup Audio!TakenBuffer(p)]
          /\ dataBuffer' = [dataBuffer EXCEPT ![p] = NoBuffer]
          /\ audioNumElem' = [audioNumElem EXCEPT ![p] = 0]
          /\ bufferMutex' = [bufferMutex EXCEPT ![p] = "free"]
          /\ UNCHANGED <<bufferQ, pc, call, command, flushing, audioState>>
      BY <1>9 DEF Audio!FlushHeld, Audio!Returned
    <2>2. /\ atClient'[p] = atClient[p] \cup Audio!TakenBuffer(p)
          /\ dataBuffer'[p] = NoBuffer /\ audioNumElem'[p] = 0 /\ bufferMutex'[p] = "free"
          /\ \A q \in AudioPorts \ {p} :
                /\ atClient'[q] = atClient[q] /\ dataBuffer'[q] = dataBuffer[q]
                /\ audioNumElem'[q] = audioNumElem[q] /\ bufferMutex'[q] = bufferMutex[q]
      BY <2>1 DEF AudioInv, AudioTypes, OfPorts
    <2>3. \A q \in AudioPorts : Audio!Returning(q)' <=> Audio!Returning(q)
      BY <2>1 DEF Audio!Returning
    <2>4. ~ Audio!Returning(p) /\ bufferQ[p] = <<>>
      BY <2>1 DEF AudioInv, AudioMutexes, AudioCommands
    <2>5. Audio!TakenBuffer(p) = Audio!Held(p)
      BY <2>4 DEF Audio!TakenBuffer, Audio!Held
    <2>6. PortKept(p) /\ NoBuffer \notin Buffers[p]
      BY AudioAssumption DEF AudioInv, AudioPlaces, AudioPorts
    <2>7. audioNumElem[p] = 0 /\ Range(bufferQ[p]) = {}
      BY <2>4, <2>6 DEF PortKept, Range
    <2> HIDE DEF Audio!Returning, Audio!Held, Audio!TakenBuffer
    <2>8. PortKept(p)'
      BY <2>1, <2>2, <2>5, <2>6, <2>7, PortReturns
    <2>9. AudioPlaces'
      BY <2>1, <2>2, <2>3, <2>8, OnePortMoves
    <2>10. AudioMutexes'
      BY <2>1, <2>2, <2>3, <2>4 DEF AudioInv, AudioMutexes
    <2>11. atClient'[p] = Buffers[p]
      BY <2>2, <2>5, <2>6, <2>7 DEF PortKept
    <2>12. \A q \in AudioPorts : Emptied(q)' => atClient'[q] = Buffers[q]
      <3>1. \A q \in AudioPorts \ {p} : Emptied(q)' => Emptied(q)
        BY <2>1 DEF Emptied
      <3> QED
        BY <2>2, <2>11, <3>1 DEF AudioInv, AudioCommands
    <2>13. AudioCommands'
      BY <2>1, <2>12, <1>4 DEF AudioInv, AudioCommands
    <2> QED
      BY <2>9, <2>10, <2>13
  <1>10. CASE Audio!FlushTells
    <2>1. /\ handler = "unlock" /\ handler' = "told"
          /\ UNCHANGED <<bufferQ, audioNumElem, dataBuffer, atClient, pc, bufferMutex, call,
                         flushing, audioState>>
          /\ command' = IF command = "Flush" /\ Len(flushing) = 1 THEN "none" ELSE command
      BY <1>10 DEF Audio!FlushTells
    <2>2. AudioCommands'
      BY <2>1, <1>4 DEF AudioInv, AudioCommands, Emptied
    <2> QED
      BY <1>1, <1>2, <2>1, <2>2
  <1>11. CASE Audio!FlushEnds
    <2>1. /\ handler = "told" /\ handler' = "idle" /\ flushing' = Tail(flushing)
          /\ UNCHANGED <<bufferQ, audioNumElem, dataBuffer, atClient, pc, bufferMutex, call,
                         command, audioState>>
      BY <1>11 DEF Audio!FlushEnds
    <2>2. flushing \in Seq(AudioPorts) /\ flushing # <<>>
      BY <2>1 DEF AudioInv, AudioTypes, AudioCommands
    <2>3. /\ \A p \in AudioPorts :
                p \notin Range(flushing') => p \notin Range(flushing) \/ p = Head(flushing)
          /\ Len(flushing) = 1 => flushing' = <<>>
      <3>1. /\ Len(flushing') = Len(flushing) - 1 /\ flushing' \in Seq(AudioPorts)
            /\ \A i \in 1 .. Len(flushing') : flushing'[i] = flushing[i + 1]
            /\ Head(flushing) = flushing[1] /\ Len(flushing) \in Nat \ {0}
        BY <2>1, <2>2, HeadTailProperties
      <3>2. ASSUME NEW p \in AudioPorts, p \in Range(flushing), p # Head(flushing)
            PROVE  p \in Range(flushing')
        <4>1. PICK i \in 1 .. Len(flushing) : p = flushing[i]
          BY <2>2, <3>2, LenProperties DEF Range
        <4>2. i - 1 \in 1 .. Len(flushing') /\ flushing'[i - 1] = p
          BY <3>1, <3>2, <4>1
        <4>3. 1 .. Len(flushing') = DOMAIN flushing'
          BY <3>1, LenProperties
        <4> QED
          BY <4>2, <4>3 DEF Range
      <3> QED
        BY <3>1, <3>2, EmptySeq
    <2>4. AudioCommands'
      BY <2>1, <2>3 DEF AudioInv, AudioCommands, Emptied
    <2> QED
      BY <1>1, <1>2, <2>1, <2>4
  <1>12. ASSUME NEW s \in {"Idle", "Pause", "Executing"}, NEW transient, NEW wakes,
                Audio!ReachesState(s, transient, wakes)
         PROVE  AudioPlaces' /\ AudioMutexes' /\ AudioCommands'
    <2>1. /\ handler = "idle" /\ flushing = <<>> /\ command = s /\ command' = "none"
          /\ audioState' = s
          /\ UNCHANGED <<bufferQ, audioNumElem, dataBuffer, atClient, pc, bufferMutex, call,
                         handler, flushing>>
      BY <1>12 DEF Audio!ReachesState
    <2>2. \A p \in AudioPorts : Emptied(p)' => Emptied(p)
      BY <2>1 DEF Emptied, Range
    <2>3. AudioCommands'
      BY <2>1, <2>2 DEF AudioInv, AudioTypes, AudioCommands
    <2> QED
      BY <1>1, <1>2, <2>1, <2>3
  <1>13. CASE Audio!Terminates
    <2>1. /\ handler = "idle" /\ handler' = "exit" /\ command \in {"Loaded", "Invalid"}
          /\ audioState' \in {"Invalid", audioState}
          /\ UNCHANGED <<bufferQ, audioNumElem, dataBuffer, atClient, pc, bufferMutex, call,
                         command, flushing>>
      BY <1>13 DEF Audio!Terminates
    <2>2. AudioCommands'
      BY <2>1 DEF AudioInv, AudioTypes, AudioCommands, Emptied
    <2> QED
      BY <1>1, <1>2, <2>1, <2>2
  <1>14. CASE Audio!TerminateWakes
    <2>1. /\ handler = "exit" /\ handler' = "join"
          /\ UNCHANGED <<bufferQ, audioNumElem, dataBuffer, atClient, pc, bufferMutex, call,
                         command, flushing, audioState>>
      BY <1>14 DEF Audio!TerminateWakes
    <2>2. AudioCommands'
      BY <2>1 DEF AudioInv, AudioCommands, Emptied
    <2> QED
      BY <1>1, <1>2, <2>1, <2>2
  <1>15. CASE Audio!Joined
    <2>1. /\ handler = "join" /\ handler' = "idle" /\ audioState' = command
          /\ command' = "none"
          /\ UNCHANGED <<bufferQ, audioNumElem, dataBuffer, atClient, pc, bufferMutex, call,
                         flushing>>
      BY <1>15 DEF Audio!Joined
    <2>2. AudioCommands'
      BY <2>1 DEF AudioInv, AudioTypes, AudioCommands, Emptied
    <2> QED
      BY <1>1, <1>2, <2>1, <2>2
  <1> QED
    BY <1>5, <1>6, <1>7, <1>8, <1>9, <1>10, <1>11, <1>12, <1>13, <1>14, <1>15
       DEF Audio!Handler, Audio!ToIdle, Audio!ToPause, Audio!ToExecuting

\* Everything is with the client when the thread is created.
LEMMA AudioStarts ==
    ASSUME Audio!Init
    PROVE  AudioInv
  <1> USE DEF Audio!Init, Audio!Ports, AudioPorts
  <1>1. AudioTypes
    <2>1. Audio!NoData \in AudioData(1) /\ Audio!NoData \in AudioData(Room)
      BY AudioAssumption DEF Audio!NoData, AudioData
    <2>2. OfPorts(atClient) /\ OfPorts(bufferQ) /\ OfPorts(audioNumElem) /\ OfPorts(dataBuffer)
      BY DEF OfPorts
    <2>3. /\ call.at = "none" /\ call.port = "in"
          /\ call = [at |-> call.at, port |-> call.port, buffer |-> call.buffer]
      BY DEF Audio!NoCall
    <2> QED
      BY <2>1, <2>2, <2>3 DEF AudioTypes, AudioStates
  <1>2. \A p \in AudioPorts : Audio!Held(p) = {} /\ ~ Audio!Returning(p)
    BY DEF Audio!Held, Audio!Returning
  <1>3. AudioPlaces
    <2> SUFFICES ASSUME NEW p \in AudioPorts
                 PROVE  PortKept(p)
      BY DEF AudioPlaces
    <2>1. /\ bufferQ[p] = <<>> /\ audioNumElem[p] = 0 /\ dataBuffer[p] = NoBuffer
          /\ atClient[p] = Buffers[p] /\ Audio!Held(p) = {}
      BY <1>2
    <2>2. /\ IsInjective(bufferQ[p]) /\ Range(bufferQ[p]) = {}
          /\ bufferQ[p] \in Seq(Buffers[p]) /\ Len(bufferQ[p]) = 0
      BY <2>1 DEF IsInjective, Range
    <2> HIDE DEF Audio!Init, Audio!Held
    <2> QED
      BY <2>1, <2>2 DEF PortKept
  <1>4. AudioMutexes
    BY <1>2 DEF AudioMutexes
  <1>5. AudioCommands
    BY DEF AudioCommands, Audio!NoCall, Emptied
  <1> QED
    BY <1>1, <1>3, <1>4, <1>5 DEF AudioInv

\* Every step keeps the audio decoder's buffers.
LEMMA AudioStep ==
    ASSUME AudioInv, [Audio!Next]_audioVars
    PROVE  AudioInv'
  <1>1. CASE Audio!Client \/ Audio!Calls
    BY <1>1, ClientTypes, ClientPlaces DEF AudioInv
  <1>2. CASE Audio!Thread
    BY <1>2, ThreadTypes, ThreadPlaces DEF AudioInv
  <1>3. CASE Audio!Handler
    BY <1>3, HandlerTypes, HandlerPlaces DEF AudioInv
  <1>4. CASE UNCHANGED audioVars
    <2> USE <1>4 DEF audioVars
    <2>1. AudioTypes'
      BY DEF AudioInv, AudioTypes, OfPorts
    <2>2. AudioPlaces'
      BY PortStays DEF AudioInv, AudioPlaces, Audio!Returning
    <2>3. AudioMutexes'
      BY DEF AudioInv, AudioMutexes, Audio!Returning
    <2>4. AudioCommands'
      BY DEF AudioInv, AudioCommands, Emptied
    <2> QED
      BY <2>1, <2>2, <2>3, <2>4 DEF AudioInv
  <1> QED
    BY <1>1, <1>2, <1>3, <1>4 DEF Audio!Next

\* BufferProcess, the client and the message handler of the audio decoder
\* together lose no buffer and double none, whatever the client's commands and
\* however many buffers a port has: each is with the client, in its port's
\* queue or with the thread, the ring's count is that of the ring, and in Idle
\* the client has every one.
THEOREM AudioKeepsBuffers == MCSpec => []AudioBuffersKept
  <1>1. MCInit => AudioInv
    BY AudioStarts DEF MCInit
  <1>2. AudioInv /\ [MCNext]_all => AudioInv'
    <2>1. [MCNext]_all => [Audio!Next]_audioVars
      BY DEF MCNext, Of, all
    <2> QED
      BY <2>1, AudioStep
  <1>3. AudioInv => AudioBuffersKept
    BY PlacesAreOne
  <1> QED
    BY <1>1, <1>2, <1>3, PTL DEF MCSpec
=============================================================================
