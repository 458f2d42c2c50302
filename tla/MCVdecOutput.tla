---------------------------- MODULE MCVdecOutput ----------------------------
(* The output port with a few buffers and codec buffers, and the buffers of  *)
(* the driver's queues as the MFC library keeps them.  A behaviour is of one *)
(* instance of one of the modules, the other keeps its initial state.        *)
EXTENDS VdecOutput

CONSTANTS
    NumSlots,   \* buffers the library asks of the driver
    Kinds       \* the library's queues, each with what fails

VARIABLES
    instance,
    kind, slots, array, ready, on, driver, stream, idle, enqueue, dequeue, flush, wrong  \* MfcBuffers

libraryVars ==
    <<kind, slots, array, ready, on, driver, stream, idle, enqueue, dequeue, flush, wrong>>
all == <<instance, vars, libraryVars>>

WithoutInvalid == {"Idle", "Executing", "Loaded"}
WithInvalid == {"Executing", "Invalid"}

-----------------------------------------------------------------------------
(* The library with the component's codec buffers.                           *)
Library == INSTANCE MfcBuffers WITH Buffers <- CodecBuffers, Prompt <- TRUE, None <- NoCodec

\* There is a slot for each buffer.  A stream that does not start is not
\* noticed, and a setup that is refused after one that succeeded frees the
\* memory twice: neither is here.
ASSUME LibraryAssumption ==
    /\ NumSlots \in Nat /\ Cardinality(CodecBuffers) <= NumSlots
    /\ Kinds \subseteq Library!KindsOf
    /\ \A k \in Kinds : "run" \notin k.faults /\ ~ ({"refused", "later"} \subseteq k.faults)

\* Each kind of queue, with the faults that its calls survive.
Survived == [side : {"DecIn", "DecOut", "Enc", "EncMeta"},
             faults : {{"refused", "queue"}, {"later", "queue"}}]

MCInit ==
    /\ instance \in {"port", "library"}
    /\ Init /\ Library!Init
    /\ instance = "port" => kind = CHOOSE k \in Kinds : TRUE

Alone(name, step, rest) == instance = name /\ step /\ UNCHANGED <<instance, rest>>

InPort(A) == Alone("port", A, libraryVars)
InLibrary(A) == Alone("library", A, vars)

MCNext == InPort(Next) \/ InLibrary(Library!Next)

\* The fairness of each module's own specification.
MCFairness ==
    /\ WF_all(InPort(DstInputThread)) /\ WF_all(InPort(DstOutputThread))
    /\ WF_all(InPort(Handler)) /\ WF_all(InPort(DestinationStart))
    /\ WF_all(InPort((CallQueue \/ CallPost) /\ UNCHANGED outputVars))
    /\ WF_all(InLibrary(Library!EnqueueGoes))
    /\ WF_all(InLibrary(Library!DequeueGoes))
    /\ WF_all(InLibrary(Library!FlushGoes))

MCSpec == MCInit /\ [][MCNext]_all /\ MCFairness

-----------------------------------------------------------------------------
\* Each buffer of the client is in one place, with the client or where a flush
\* finds it; no codec buffer is with the MFC and queued, or missing.
OutputBuffersKept ==
    /\ TypeOK
    /\ OnePlace
    /\ NothingLost
    /\ CodecBuffersKept
    /\ CodecOnePlace

\* What the library says is queued is what the driver has, no buffer is
\* refused or taken for another, and the library's memory is freed once.
LibraryAgrees == Library!Kept

\* Flushes come to their end, in the port and in the library, and so do the
\* threads.
OutputCommandsEnd == FlushEnds /\ TerminateEnds /\ Library!FlushEnds
=============================================================================
