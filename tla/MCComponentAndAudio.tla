------------------------ MODULE MCComponentAndAudio ------------------------
(* One component with an input port of one buffer and an output port of two  *)
(* whose client sends one command at a time; and the audio decoder's buffer  *)
(* thread with one buffer a port.  A behaviour is of one of the two, the     *)
(* other keeps its initial state.                                            *)
EXTENDS OmxComponent

CONSTANTS
    Buffers, NoBuffer, Transitions, Flushes,    \* of the audio decoder
    Prompt, EarlySeeks, Room, HardwareFails

VARIABLES
    instance,
    audioState, audioTransientState, audioPortState, audioPortFlushed,
    bufferQ, audioNumElem, bufferSem, dataBuffer, bufferMutex, atClient, frame,
    call, command, handler, flushing, pauseEvent, bExitBufferProcessThread,
    pc, inputData, outputData, flags, srp, eosSent, eos, failed, wrong

MCBuffers == [p \in Ports |-> p + 1]

audioVars ==
    <<audioState, audioTransientState, audioPortState, audioPortFlushed,
      bufferQ, audioNumElem, bufferSem, dataBuffer, bufferMutex, atClient, frame,
      call, command, handler, flushing, pauseEvent, bExitBufferProcessThread,
      pc, inputData, outputData, flags, srp, eosSent, eos, failed, wrong>>
all == <<instance, vars, audioVars>>

\* The client passes no buffer of the audio decoder while a command is under way.
Audio ==
    INSTANCE AdecProcess
    WITH currentState <- audioState, transientState <- audioTransientState,
         portState <- audioPortState, bIsPortFlushed <- audioPortFlushed,
         numElem <- audioNumElem, Overlaps <- FALSE

AudioStates == {"Loaded", "Idle", "Executing", "Pause", "Invalid"}

ASSUME AudioAssumption ==
    /\ \A p \in {"in", "out"} : NoBuffer \notin Buffers[p]
    /\ Transitions \subseteq AudioStates \X AudioStates
    /\ Flushes \subseteq (SUBSET {"in", "out"}) \ {{}}
    /\ Room \in Nat

OneEach == [in |-> {"i1"}, out |-> {"o1"}]
FromIdle ==
    {<<"Idle", "Executing">>, <<"Executing", "Idle">>, <<"Executing", "Pause">>,
     <<"Pause", "Executing">>, <<"Idle", "Loaded">>, <<"Executing", "Invalid">>}
BothPorts == {{"in", "out"}}

MCInit == instance \in {"component", "audio"} /\ Init /\ Audio!Init

(* The step of the instance that the behaviour is of.                        *)
Of(component, audio) ==
    /\ UNCHANGED instance
    /\ \/ instance = "component" /\ component /\ UNCHANGED audioVars
       \/ instance = "audio" /\ audio /\ UNCHANGED vars

MCNext == Of(Next, Audio!Next)

\* Less fairness than the two modules ask for: of the client and the handlers
\* one goes on, no matter which, and so do the threads of the audio decoder.
MCFairness ==
    /\ WF_all(Of(\/ Handler \/ CommandQueue \/ AbendAcknowledged
                 \/ BaseComponent_Destructor \/ FreeHandleReturns,
                 Audio!Handler \/ Audio!Calls \/ Audio!Supplies))
    /\ WF_all(Of(\E p \in Ports : AllocateBuffer(p), Audio!Thread))
    /\ WF_all(Of(\E p \in Ports : FreeBuffer(p), FALSE))
    /\ SF_all(Of(FALSE, Audio!SRP))

MCSpec == MCInit /\ [][MCNext]_all /\ MCFairness

-----------------------------------------------------------------------------
\* Every command that either of the two accepts is concluded, and
\* OMX_FreeHandle returns.
Working == Unfinished \/ Audio!Working
CallsConclude == Working ~> ~Working

\* Each buffer of the audio decoder is in one place, and the client has all of
\* them in Idle.
AudioBuffersKept == Audio!TypeOK /\ Audio!BuffersKept

\* What the audio decoder gives out is of after the last seek, and EOS comes out
\* of one that plays.
AudioDelivers == []Audio!SeeksAreClean /\ Audio!EOSComesOut
=============================================================================
