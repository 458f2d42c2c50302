---------------------------- MODULE MCVdecInput ----------------------------
(* The input port with a few buffers.  A behaviour is of one of two          *)
(* instances: "disturbed", where the MFC refuses headers or data, commands   *)
(* overlap and the client pauses, with one buffer; and "plain", with two     *)
(* buffers and nothing of these, where the component may become invalid.     *)
EXTENDS VdecInput

AllTargets == {"Idle", "Executing", "Loaded", "Invalid", "Pause"}
SomeBuffer == CHOOSE b \in Buffers : TRUE

VARIABLE instance

Disturbed == INSTANCE VdecInput
               WITH Buffers <- {SomeBuffer}, Targets <- AllTargets \ {"Invalid"}
Plain == INSTANCE VdecInput
           WITH Targets <- AllTargets \ {"Pause"}, Overlaps <- FALSE, Faults <- {}

MCInit ==
    \/ instance = "disturbed" /\ Disturbed!Init
    \/ instance = "plain" /\ Plain!Init

(* The step of the instance that the behaviour is of.                        *)
Of(disturbed, plain) ==
    /\ UNCHANGED instance
    /\ \/ instance = "disturbed" /\ disturbed
       \/ instance = "plain" /\ plain

MCNext == Of(Disturbed!Next, Plain!Next)

MCFairness ==
    /\ WF_vars(Of(Disturbed!SrcInputThread, Plain!SrcInputThread))
    /\ WF_vars(Of(Disturbed!SrcOutputThread, Plain!SrcOutputThread))
    /\ WF_vars(Of(Disturbed!Handler, Plain!Handler))
    /\ WF_vars(Of(Disturbed!OutputPortEnabled, Plain!OutputPortEnabled))
    /\ WF_vars(Of((Disturbed!CallQueue \/ Disturbed!CallPost) /\ UNCHANGED inputVars,
                  (Plain!CallQueue \/ Plain!CallPost) /\ UNCHANGED inputVars))

MCSpec == MCInit /\ [][MCNext]_<<vars, instance>> /\ MCFairness

-----------------------------------------------------------------------------
\* The buffers are kept track of where nothing disturbs the flow.
PlainBuffersKept == instance = "plain" => Plain!InputBuffersKept

\* A flush ends, the threads end, and while an undisturbed component executes
\* a buffer that the client passes comes back (they are all alike: it is
\* asked of one of them).
InputMovesOn ==
    /\ FlushEnds
    /\ TerminateEnds
    /\ instance = "plain" /\ SomeBuffer \in bBufferInOMX ~>
              \/ SomeBuffer \notin bBufferInOMX
              \/ currentState # "Executing" \/ bExitBufferProcessThread
=============================================================================
