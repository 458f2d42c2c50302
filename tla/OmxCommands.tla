---------------------------- MODULE OmxCommands ----------------------------
(* What the command interface of an OpenMAX component promises: commands are *)
(* taken in the order they were queued and concluded one at a time; a state  *)
(* change moves along one edge of the OpenMAX state graph and is reported by *)
(* a completion event for the state reached, in the step that reaches it, or *)
(* by an error that leaves the state as it was; nothing leaves Invalid.      *)
EXTENDS Sequences

CONSTANTS Messages,      \* the commands: records with a cmd and a param
          NoMessage,     \* no command
          Ports,
          PortCommands,  \* commands concluded by one event for each port
          Errors,        \* the error events
          NoEvent        \* no event yet

VARIABLES state,     \* the OpenMAX state
          queue,     \* commands queued
          current,   \* the command being handled, or NoMessage
          event,     \* the last event given to the client
          abandoned  \* the component is destroyed on its way to Idle

vars == <<state, queue, current, event, abandoned>>

\* The state graph, without the edges to Invalid.
Edges ==
    {<<"Loaded", "Idle">>, <<"Idle", "Loaded">>,
     <<"Idle", "Executing">>, <<"Executing", "Idle">>,
     <<"Idle", "Pause">>, <<"Pause", "Idle">>,
     <<"Executing", "Pause">>, <<"Pause", "Executing">>,
     <<"Loaded", "WaitForResources">>, <<"WaitForResources", "Loaded">>,
     <<"WaitForResources", "Idle">>}

Complete(cmd, param) == <<"CmdComplete", cmd, param>>

Init ==
    /\ state = "Loaded"
    /\ queue = <<>>
    /\ current = NoMessage
    /\ event = NoEvent
    /\ abandoned = FALSE

Accept ==
    /\ \E m \in Messages : queue' = Append(queue, m)
    /\ UNCHANGED <<state, current, event, abandoned>>

Take ==
    /\ current = NoMessage
    /\ queue # <<>>
    /\ current' = Head(queue)
    /\ queue' = Tail(queue)
    /\ UNCHANGED <<state, event, abandoned>>

\* The command is over.
Over == current # NoMessage /\ current' = NoMessage

ReachState ==
    /\ current.cmd = "StateSet"
    /\ <<state, current.param>> \in Edges
    /\ state' = current.param
    /\ event' = Complete("StateSet", current.param)
    /\ Over
    /\ UNCHANGED <<queue, abandoned>>

\* A command to become Invalid takes effect before it ends with an error.
BecomeInvalid ==
    /\ current.cmd = "StateSet"
    /\ current.param = "Invalid"
    /\ state' = "Invalid"
    /\ UNCHANGED <<queue, current, event, abandoned>>

Fail ==
    /\ event' \in Errors
    /\ Over
    /\ UNCHANGED <<state, queue, abandoned>>

\* One port of a port command is done, or the last one.
PortDone ==
    /\ current.cmd \in PortCommands
    /\ \E p \in Ports : event' = Complete(current.cmd, p)
    /\ current' = current \/ Over
    /\ UNCHANGED <<state, queue, abandoned>>

\* An error that concludes no command.
Warn ==
    /\ event' \in Errors
    /\ UNCHANGED <<state, queue, current, abandoned>>

\* The client destroys the component; the transition to Idle it interrupts is
\* reported complete although the component stays in Loaded.
Abandon ==
    /\ abandoned' = TRUE
    /\ UNCHANGED <<state, queue, current, event>>

AbandonedIdle ==
    /\ abandoned
    /\ state = "Loaded"
    /\ current.cmd = "StateSet" /\ current.param = "Idle"
    /\ event' = Complete("StateSet", "Idle")
    /\ Over
    /\ UNCHANGED <<state, queue, abandoned>>

\* The message handler takes its last message and exits.
Exit ==
    /\ current.cmd = "DeInit"
    /\ Over
    /\ UNCHANGED <<state, queue, event, abandoned>>

Next == \/ Accept \/ Take
        \/ ReachState \/ BecomeInvalid \/ Fail \/ PortDone \/ Warn
        \/ Abandon \/ AbandonedIdle \/ Exit

Spec == Init /\ [][Next]_vars
=============================================================================
