-------------------------- MODULE ResourceManager --------------------------
(* The resource manager of common/Exynos_OMX_Resourcemanager.c and the       *)
(* components that compete in it for the hardware codec, each with the state *)
(* changes of its own message handler (common/Exynos_OMX_Basecomponent.c).   *)
(* The manager keeps the same two lists for decoders and for encoders; this  *)
(* is one pair of them.  Every call of the manager holds its mutex and is    *)
(* one step.  How long a transition waits for its buffers is left open: the  *)
(* steps of a handler interleave freely.  OmxComponent has the ports.        *)
EXTENDS Integers, SequencesExt

CONSTANTS
    Components,     \* the components of one codec type
    MaxResource,    \* MAX_RESOURCE_VIDEO_DEC (3) or MAX_RESOURCE_VIDEO_ENC (1)
    Priorities,     \* values of nGroupPriority; the larger gives way
    CodecMayFail,   \* exynos_codec_componentInit may fail
    Targets,        \* the states the clients ask for
    MaxPending,     \* bound: commands in the queue when a client adds one
    MaxWaiting,     \* bound: elements of the waiting list
    QueueCapacity   \* how many messages a messageQ holds (39 in the code)

States == {"Invalid", "Loaded", "Idle", "Executing", "Pause",
           "WaitForResources"}

ASSUME ResourceManagerAssumption ==
    /\ MaxResource \in Nat \ {0}
    /\ Priorities \subseteq Nat /\ Priorities # {}
    /\ CodecMayFail \in BOOLEAN
    /\ Targets \subseteq States
    /\ MaxWaiting \in Nat
    /\ QueueCapacity \in Nat \ {0}
    /\ MaxPending \in 1 .. QueueCapacity

VARIABLES
    currentState,    \* component -> its state
    nGroupPriority,  \* component -> the priority the client gave it last
    messageQ,        \* component -> states commanded, oldest first
    hpc,             \* component -> where its message handler is
    codecOpen,       \* component -> it has a hardware instance open
    componentList,   \* gpVideo...RMComponentList
    waitingList      \* gpVideo...RMWaitingList

vars == <<currentState, nGroupPriority, messageQ, hpc, codecOpen,
          componentList, waitingList>>

Elements == [comp : Components, groupPriority : Priorities]

Init ==
    /\ currentState = [c \in Components |-> "Loaded"]
    /\ nGroupPriority \in [Components -> Priorities]
    /\ messageQ = [c \in Components |-> <<>>]
    /\ hpc = [c \in Components |-> "wait"]
    /\ codecOpen = [c \in Components |-> FALSE]
    /\ componentList = <<>>
    /\ waitingList = <<>>

-----------------------------------------------------------------------------
(* The lists.                                                                *)

IsIn(list, c) == \E i \in DOMAIN list : list[i].comp = c

\* A list element keeps the priority its component had when it was added.
addElementList(list, c) ==
    Append(list, [comp |-> c, groupPriority |-> nGroupPriority[c]])

\* Variant with a defect: the element stays, which nobody looks at.
removeNothing(list, c) == list

removeElementList(list, c) ==
    RemoveFirstMatch(list, LAMBDA e : e.comp = c)

\* Variant with a defect: any element of lower priority will do.
searchAnyLowPriority(list, priority) ==
    LET candidate[i \in 0 .. Len(list)] ==
            IF i = 0 THEN 0
            ELSE IF list[i].groupPriority > priority THEN i
            ELSE candidate[i - 1]
    IN  candidate[Len(list)]

\* Whether the element at i gives way rather than the best so far, 0 if none:
\* one pass over the list for a component of the given priority.
better(list, priority, best, i) ==
    IF /\ list[i].groupPriority > priority
       /\ best # 0 => list[best].groupPriority < list[i].groupPriority
    THEN i ELSE best

\* The position of the element that gives way, 0 if there is none.
searchLowPriority(list, priority) ==
    LET candidate[i \in 0 .. Len(list)] ==
            IF i = 0 THEN 0 ELSE better(list, priority, candidate[i - 1], i)
    IN  candidate[Len(list)]

\* OMX_SendCommand succeeds.
Accepts(c) == currentState[c] # "Invalid" /\ Len(messageQ[c]) < QueueCapacity

-----------------------------------------------------------------------------
(* The clients.                                                              *)

SendCommand(c, dest) ==
    /\ currentState[c] # "Invalid"
    /\ Len(messageQ[c]) < MaxPending
    /\ messageQ' = [messageQ EXCEPT ![c] = Append(@, dest)]
    /\ UNCHANGED <<currentState, nGroupPriority, hpc, codecOpen,
                   componentList, waitingList>>

\* SetParameter of the priority is refused outside these two states.
SetPriority(c) ==
    /\ currentState[c] \in {"Loaded", "WaitForResources"}
    /\ \E p \in Priorities \ {nGroupPriority[c]} :
           nGroupPriority' = [nGroupPriority EXCEPT ![c] = p]
    /\ UNCHANGED <<currentState, messageQ, hpc, codecOpen, componentList,
                   waitingList>>

-----------------------------------------------------------------------------
(* The message handler of component c.                                       *)

\* It takes a command for dest in one of the states in from ...
Takes(c, from, dest) ==
    /\ hpc[c] = "wait"
    /\ messageQ[c] # <<>>
    /\ Head(messageQ[c]) = dest
    /\ currentState[c] \in from

\* ... and the command leaves the queue.
Taken(c) == [messageQ EXCEPT ![c] = Tail(@)]

At(c, place) == hpc' = [hpc EXCEPT ![c] = place]
Becomes(c, state) == currentState' = [currentState EXCEPT ![c] = state]

\* Loaded to Idle begins with Exynos_OMX_Get_Resource: there is room, or a
\* component of lower priority gives way, or the command fails.  The one that
\* gives way is told only if it is Idle; in any other state it loses its list
\* element and nothing else.
Get_Resource(c) ==
    LET room == Len(componentList) < MaxResource
        low == searchLowPriority(componentList, nGroupPriority[c])
        victim == componentList[low].comp
        told == ~room /\ low # 0 /\ currentState[victim] = "Idle"
    IN  /\ Takes(c, {"Loaded"}, "Idle")
        /\ \/ /\ room
              /\ componentList' = addElementList(componentList, c)
           \/ /\ ~room /\ low # 0
              /\ told => Accepts(victim)
              /\ componentList' =
                     addElementList(removeElementList(componentList, victim), c)
        /\ messageQ' = IF told
                       THEN [Taken(c) EXCEPT ![victim] = Append(@, "Loaded")]
                       ELSE Taken(c)
        /\ At(c, "open")
        /\ UNCHANGED <<currentState, nGroupPriority, codecOpen, waitingList>>

NoResource(c) ==
    LET low == searchLowPriority(componentList, nGroupPriority[c])
        victim == componentList[low].comp
    IN  /\ Takes(c, {"Loaded"}, "Idle")
        /\ Len(componentList) >= MaxResource
        /\ low # 0 => currentState[victim] = "Idle" /\ ~Accepts(victim)
        /\ messageQ' = Taken(c)
        /\ UNCHANGED <<currentState, nGroupPriority, hpc, codecOpen,
                       componentList, waitingList>>

\* The buffers have come and the codec is opened; if that fails the component
\* stays in Loaded, and in the list.
OpenCodec(c) ==
    /\ hpc[c] = "open"
    /\ At(c, "wait")
    /\ \/ /\ codecOpen' = [codecOpen EXCEPT ![c] = TRUE]
          /\ Becomes(c, "Idle")
       \/ CodecMayFail /\ UNCHANGED <<codecOpen, currentState>>
    /\ UNCHANGED <<nGroupPriority, messageQ, componentList, waitingList>>

\* Variant with a defect: the first element of the list is removed, whoever
\* releases.
Release_ResourceOfFirst(c) ==
    \E dest \in {"Loaded", "Invalid"} :
        /\ \/ Takes(c, {"Idle"}, dest)
           \/ Takes(c, {"Executing", "Pause"}, dest) /\ dest = "Invalid"
        /\ componentList' = IF componentList = <<>> THEN <<>>
                            ELSE Tail(componentList)
        /\ messageQ' = Taken(c)
        /\ IF dest = "Invalid" THEN Becomes(c, "Invalid")
           ELSE UNCHANGED currentState
        /\ At(c, "close")
        /\ UNCHANGED <<nGroupPriority, codecOpen, waitingList>>

\* Exynos_OMX_Release_Resource is the first thing done on the way to Loaded
\* or Invalid.  A component without an element in the list releases nothing;
\* one that has an element passes the resource on by commanding the first
\* component that waits to go to Idle.
Release_Resource(c) ==
    LET wakes == IsIn(componentList, c) /\ waitingList # <<>>
        waiter == Head(waitingList).comp
    IN  \E dest \in {"Loaded", "Invalid"} :
            /\ \/ Takes(c, {"Idle"}, dest)
               \/ Takes(c, {"Executing", "Pause"}, dest) /\ dest = "Invalid"
            /\ componentList' = removeElementList(componentList, c)
            /\ waitingList' = IF wakes THEN Tail(waitingList) ELSE waitingList
            /\ messageQ' = IF wakes /\ Accepts(waiter)
                           THEN [Taken(c) EXCEPT ![waiter] = Append(@, "Idle")]
                           ELSE Taken(c)
            /\ IF dest = "Invalid" THEN Becomes(c, "Invalid")
               ELSE UNCHANGED currentState
            /\ At(c, "close")
            /\ UNCHANGED <<nGroupPriority, codecOpen>>

\* Then the codec is closed.
CloseCodec(c) ==
    /\ hpc[c] = "close"
    /\ codecOpen' = [codecOpen EXCEPT ![c] = FALSE]
    /\ Becomes(c, IF currentState[c] = "Invalid" THEN "Invalid" ELSE "Loaded")
    /\ At(c, "wait")
    /\ UNCHANGED <<nGroupPriority, messageQ, componentList, waitingList>>

\* From Loaded or WaitForResources to Invalid nothing is released.
Invalidate(c) ==
    /\ Takes(c, {"Loaded", "WaitForResources"}, "Invalid")
    /\ waitingList' = IF currentState[c] = "WaitForResources"
                      THEN removeElementList(waitingList, c) ELSE waitingList
    /\ Becomes(c, "Invalid")
    /\ messageQ' = Taken(c)
    /\ At(c, "close")
    /\ UNCHANGED <<nGroupPriority, codecOpen, componentList>>

In_WaitForResource(c) ==
    /\ Takes(c, {"Loaded"}, "WaitForResources")
    /\ Len(waitingList) < MaxWaiting
    /\ waitingList' = addElementList(waitingList, c)
    /\ Becomes(c, "WaitForResources")
    /\ messageQ' = Taken(c)
    /\ UNCHANGED <<nGroupPriority, hpc, codecOpen, componentList>>

Out_WaitForResource(c) ==
    /\ Takes(c, {"WaitForResources"}, "Loaded")
    /\ waitingList' = removeElementList(waitingList, c)
    /\ Becomes(c, "Loaded")
    /\ messageQ' = Taken(c)
    /\ UNCHANGED <<nGroupPriority, hpc, codecOpen, componentList>>

\* The other state changes touch neither list: among them the one from
\* WaitForResources to Idle.
Moves == {<<"WaitForResources", "Idle">>,
          <<"Idle", "Executing">>, <<"Pause", "Executing">>,
          <<"Idle", "Pause">>, <<"Executing", "Pause">>,
          <<"Executing", "Idle">>, <<"Pause", "Idle">>}

Move(c) ==
    \E edge \in Moves :
        /\ Takes(c, {edge[1]}, edge[2])
        /\ Becomes(c, edge[2])
        /\ messageQ' = Taken(c)
        /\ UNCHANGED <<nGroupPriority, hpc, codecOpen, componentList,
                       waitingList>>

Refusals ==
    {<<s, s>> : s \in States} \cup {<<"Invalid", s>> : s \in States}
        \cup ({"Executing", "Pause"} \X {"Loaded", "WaitForResources"})
        \cup ({"Loaded", "WaitForResources"} \X {"Executing", "Pause"})
        \cup {<<"Idle", "WaitForResources">>}

Refuse(c) ==
    /\ \E edge \in Refusals : Takes(c, {edge[1]}, edge[2])
    /\ messageQ' = Taken(c)
    /\ UNCHANGED <<currentState, nGroupPriority, hpc, codecOpen,
                   componentList, waitingList>>

Handler(c) ==
    \/ Get_Resource(c) \/ NoResource(c) \/ OpenCodec(c)
    \/ Release_Resource(c) \/ CloseCodec(c) \/ Invalidate(c)
    \/ In_WaitForResource(c) \/ Out_WaitForResource(c)
    \/ Move(c) \/ Refuse(c)

Next ==
    \E c \in Components :
        \/ \E dest \in Targets : SendCommand(c, dest)
        \/ SetPriority(c)
        \/ Handler(c)

Spec == Init /\ [][Next]_vars

\* Every handler is a thread that runs whenever it is not blocked.
FairSpec == Spec /\ \A c \in Components : WF_vars(Handler(c))

-----------------------------------------------------------------------------
TypeOK ==
    /\ currentState \in [Components -> States]
    /\ nGroupPriority \in [Components -> Priorities]
    /\ messageQ \in [Components -> Seq(States)]
    /\ \A c \in Components : Len(messageQ[c]) <= QueueCapacity
    /\ hpc \in [Components -> {"wait", "open", "close"}]
    /\ codecOpen \in [Components -> BOOLEAN]
    /\ componentList \in Seq(Elements)
    /\ waitingList \in Seq(Elements)

\* Never more elements than the hardware has instances, whatever is preempted,
\* fails or is released twice.  Get_Resource counts, then removes by handle
\* and ignores whether the removal succeeded (Resourcemanager.c:299-300).
ListBounded == Len(componentList) <= MaxResource

\* Who holds the resource and who has a codec open agree for every component
\* whose handler is at rest, and nobody is listed twice: the one is changed
\* under the manager's mutex by any handler, the other by the component's own
\* handler, some steps later.
Accounted ==
    /\ \A c \in Components :
           hpc[c] = "wait" => (IsIn(componentList, c) <=> codecOpen[c])
    /\ \A i, j \in DOMAIN componentList :
           componentList[i].comp = componentList[j].comp => i = j

\* No codec fails to open, and no component has a lower priority than another.
Undisputed == ~CodecMayFail /\ \A p, q \in Priorities : p = q

\* The list stays within the hardware's instances; where nobody is preempted
\* and no codec fails to open, it agrees with who has a codec open.
AccountedFor == TypeOK /\ ListBounded /\ (Undisputed => Accounted)

\* A component loses its list element to another only if it was listed with a
\* lower priority than the other has, and nobody was listed with a lower one.
Lost(c) == IsIn(componentList, c) /\ ~IsIn(componentList', c)
PreemptsLowest ==
    [][\A c, d \in Components :
           Lost(c) /\ ~IsIn(componentList, d) /\ IsIn(componentList', d) =>
               \E i \in DOMAIN componentList :
                   /\ componentList[i].comp = c
                   /\ componentList[i].groupPriority > nGroupPriority[d]
                   /\ \A j \in DOMAIN componentList :
                          componentList[j].groupPriority
                              <= componentList[i].groupPriority]_vars
=============================================================================
