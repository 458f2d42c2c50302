-------------------------- MODULE MCCameraRequests --------------------------
(* What the threads of the camera (API 2) may never do: a few requests       *)
(* through a ring and a sensor queue that are shorter than the code's, focus *)
(* and flash, buffers.  A behaviour is of one instance of one of the         *)
(* modules, the others keep their initial state.  One frame of waiting       *)
(* stands for the five and ten of the code.                                  *)
EXTENDS CameraRequests

VARIABLES
    instance,
    af, flash, ae, late, focusPc, bubble, lens, wanted, asked, picture,  \* CameraFocus
    status, held, index, fresh, gone, window, node, bufferTurn           \* CameraBuffers

focusVars == <<af, flash, ae, late, focusPc, bubble, lens, wanted, asked, picture>>
bufferVars == <<status, held, index, fresh, gone, window, node, bufferTurn>>
all == <<instance, vars, focusVars, bufferVars>>

-----------------------------------------------------------------------------
(* Requests: "ordinary", previews and stills, is this module's own instance; *)
(* "night", a night picture; "lag", stream threads that fall behind.         *)

OrdinaryKinds == {"preview", "still"}

Night == INSTANCE CameraRequests
           WITH NumRequests <- 2, StreamBuffers <- 2, KeepsUp <- TRUE, StillAlone <- TRUE,
                MayDrop <- FALSE, Kinds <- {"preview", "jpeg", "night"}, FirstKinds <- {"preview"}
Lag == INSTANCE CameraRequests
         WITH NumRequests <- 7, NumEntries <- 4, StreamBuffers <- 4, KeepsUp <- FALSE,
              MayDrop <- FALSE, Kinds <- {"preview"}, FirstKinds <- {"preview"}

RequestInit ==
    \/ instance = "night" /\ Night!Init
    \/ instance = "lag" /\ Lag!Init
    \/ /\ instance \notin {"night", "lag"} /\ Init
       /\ instance # "ordinary" => \A r \in Requests : kind[r] = "preview"

RequestNext ==
    /\ \/ instance = "ordinary" /\ Next
       \/ instance = "night" /\ Night!Next
       \/ instance = "lag" /\ Lag!Next
    /\ UNCHANGED <<instance, focusVars, bufferVars>>

-----------------------------------------------------------------------------
(* Focus.                                                                    *)

AllModes == {"AUTO", "VIDEO", "PICTURE"}
AnyFrame == {"preview", "still", "reprocess"}

\* The service waits for its last call, and uses the flash.
CalmService ==
    INSTANCE CameraFocus
      WITH AfModes <- AllModes, FlashModes <- {"on", "auto", "always"}, FrameKinds <- AnyFrame,
           Hasty <- FALSE, Races <- FALSE, LateCapture <- FALSE,
           FlashWait <- 1, StableWait <- 1, RetryAfter <- 1, pc <- focusPc

\* It does not wait.
HastyService ==
    INSTANCE CameraFocus
      WITH AfModes <- AllModes, FlashModes <- {"on"}, FrameKinds <- AnyFrame,
           Hasty <- TRUE, Races <- FALSE, LateCapture <- FALSE,
           FlashWait <- 1, StableWait <- 1, RetryAfter <- 1, pc <- focusPc

\* And m_afState is written late.
LateWriter ==
    INSTANCE CameraFocus
      WITH AfModes <- {"AUTO", "VIDEO"}, FlashModes <- {"on"}, FrameKinds <- AnyFrame,
           Hasty <- TRUE, Races <- TRUE, LateCapture <- FALSE,
           FlashWait <- 1, StableWait <- 1, RetryAfter <- 1, pc <- focusPc

FocusInstances == {"calm", "hasty", "racing"}

FocusInit ==
    /\ IF instance = "racing" THEN LateWriter!Init ELSE CalmService!Init
    /\ instance \notin FocusInstances =>
           wanted = "AUTO" /\ ~ af.hwFailed /\ af.service = "INACTIVE"

FocusNext ==
    /\ \/ instance = "calm" /\ CalmService!Next
       \/ instance = "hasty" /\ HastyService!Next
       \/ instance = "racing" /\ LateWriter!Next
    /\ UNCHANGED <<instance, vars, bufferVars>>

-----------------------------------------------------------------------------
(* Buffers: a node of three and one more that the window has, sub-streams of *)
(* three.                                                                    *)

Counts == [node |-> 4, RECORD |-> 3, PRVCB |-> 3, JPEG |-> 3]
Mins == [node |-> 1, RECORD |-> 0, PRVCB |-> 0, JPEG |-> 1]
Fed == INSTANCE CameraBuffers
         WITH Subs <- <<"PRVCB", "RECORD">>, Count <- Counts, Hw <- 3, Least <- Mins, Keeps <- 1,
              Fails <- FALSE, OneByOne <- TRUE, turn <- bufferTurn

\* The calls of the windows fail.
Failing == INSTANCE CameraBuffers
             WITH Subs <- <<"RECORD">>, Count <- Counts, Hw <- 3, Least <- Mins, Keeps <- 1,
                  Fails <- TRUE, OneByOne <- TRUE, turn <- bufferTurn

BufferNext ==
    /\ \/ instance = "fed" /\ Fed!Next
       \/ instance = "failing" /\ Failing!Next
    /\ UNCHANGED <<instance, vars, focusVars>>

-----------------------------------------------------------------------------
MCInit ==
    /\ instance \in {"ordinary", "night", "lag", "fed", "failing"} \cup FocusInstances
    /\ RequestInit /\ FocusInit
    /\ IF instance = "failing" THEN Failing!Init ELSE Fed!Init

MCNext == RequestNext \/ FocusNext \/ BufferNext

MCSpec == MCInit /\ [][MCNext]_all

-----------------------------------------------------------------------------
(* The properties of the modules, each in the instances it is about.         *)

\* The entries in use follow each other in the ring, numbered without a gap;
\* what one camera thread tells another is so: a request STREAM_OUTPUT_DONE
\* names is finished, DATA_COMING has its frame, an empty queue is known to be
\* empty; and a request sent to the sensor is there until it is matched.
RequestsAgree ==
    instance = "ordinary" =>
        /\ TypeOK /\ RingInOrder
        /\ DoneIsTrue /\ SignalsHaveFrames /\ NullMeansEmpty /\ SentIsUnderWay

\* A request sent to the sensor is there until it is matched also when a
\* night picture takes more shots than it has frames, and the ring is never
\* stuck however far a stream thread falls behind.
LateRequestsAgree ==
    /\ instance = "night" => Night!SentIsUnderWay
    /\ instance = "lag" => Lag!RingNeverStuck

\* Requests are freed once, in order and after their outputs.
OrdinaryKeepsPromise ==
    /\ instance = "ordinary" => Pipeline!Init
    /\ [][instance = "ordinary" => [Pipeline!Next]_(Pipeline!vars)]_all

\* Focus is told to be found only when the lens reported it last, a lock ends
\* only by the service's call or a change of mode, and a mode that waited is
\* set when the one before it has been sent.
FocusIsHonest ==
    /\ [][instance = "hasty" => HastyService!FoundWhenTold /\ HastyService!LockStays]_all
    /\ LateWriter!PendingModeSet

\* The camera agrees with the service, the lens and the windows.  The state
\* the service was told last, the lens and the camera's own focus state agree,
\* and an autofocus that waits for the sensor thread will begin.  A frame finds
\* a buffer in the node while the window is there, a creator that looks for a
\* free buffer has one; whatever calls of the window fail, the HAL's counts are
\* what it holds and the node owns what it writes.
CameraAgrees ==
    /\ instance = "calm" => /\ CalmService!ServiceAgrees
                            /\ CalmService!LockReachesLens
                            /\ CalmService!CommandHasTrigger
    /\ instance = "fed" => Fed!NodeFed /\ Fed!Findable
    /\ instance = "failing" => Failing!Counted /\ Failing!NodeOwns
=============================================================================
