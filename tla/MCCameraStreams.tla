--------------------------- MODULE MCCameraStreams ---------------------------
(* The streams with the sub-streams and the service that CameraStreams.cfg   *)
(* names.                                                                    *)
CONSTANTS SubStreams, Settled, FirstFrames

ASSUME StreamsAssumption ==
    /\ SubStreams \subseteq {"RECORD", "PRVCB", "JPEG"}
    /\ {Settled, FirstFrames} \subseteq BOOLEAN

VARIABLES th, st, subs, zsl, videoNode, call

Service == INSTANCE CameraStreams WITH node <- videoNode

StreamsSpec == Service!FairSpec

-----------------------------------------------------------------------------
\* Between two calls of the service, its streams, their threads and the nodes
\* agree.
StreamsAgree == Service!StreamsAgree

\* A call of the service that waits for threads returns.
CallsReturn == Service!CallsReturn
=============================================================================
