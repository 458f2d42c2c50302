--------------------------- MODULE MCOmxComponent ---------------------------
(* One component with one port of one buffer, with everything that may come  *)
(* in the way of its commands; and the ring queue that commands and buffers  *)
(* are passed through, with a handful of nodes.  A behaviour is of one of    *)
(* the two, the other keeps its initial state.                               *)
EXTENDS OsalQueue, OmxComponent

VARIABLE instance

OneBuffer == [p \in Ports |-> 1]

all == <<instance, ringVars, vars>>

MCInit == instance \in {"queue", "component"} /\ RingInit /\ Init

InQueue(A) == instance = "queue" /\ A /\ UNCHANGED <<instance, vars>>
InComponent(A) == instance = "component" /\ A /\ UNCHANGED <<instance, ringVars>>

MCNext == InQueue(RingNext) \/ InComponent(Next)

MCSpec == MCInit /\ [][MCNext]_all
=============================================================================
