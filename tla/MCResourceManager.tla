-------------------------- MODULE MCResourceManager --------------------------
(* Components that compete for fewer hardware instances than there are.  A   *)
(* behaviour is of one of two instances: clients of three priorities, whose  *)
(* codecs may fail to open (the module's own constants), or clients of one   *)
(* priority that also wait for resources.                                    *)
EXTENDS ResourceManager

VARIABLE instance

Waiting == INSTANCE ResourceManager
             WITH Priorities <- {1}, CodecMayFail <- FALSE, MaxWaiting <- 2,
                  Targets <- {"Loaded", "Idle", "Executing", "WaitForResources", "Invalid"}

MCInit ==
    \/ instance = "preempting" /\ Init
    \/ instance = "waiting" /\ Waiting!Init

MCNext ==
    /\ UNCHANGED instance
    /\ \/ instance = "preempting" /\ Next
       \/ instance = "waiting" /\ Waiting!Next

MCSpec == MCInit /\ [][MCNext]_<<vars, instance>>

\* The same of the components that wait for resources, whose priorities are
\* one.
WaitersAccountedFor == instance = "waiting" => Waiting!AccountedFor

Interchangeable == Permutations(Components)
=============================================================================
