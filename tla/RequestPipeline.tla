-------------------------- MODULE RequestPipeline --------------------------
(* What the camera promises to the service that queues requests: each is     *)
(* freed once, in the order they were queued, and only when every output it  *)
(* asked for has been handed over or was reported as dropped.                *)
EXTENDS Integers

CONSTANTS NumRequests, Streams

Requests == 0 .. NumRequests - 1

VARIABLES
    wanted,         \* request -> the streams it asks output of
    submitted,      \* how many requests the service has queued
    handedOver,     \* the outputs that came, as <<request, stream>>
    freed           \* how many requests came back

vars == <<wanted, submitted, handedOver, freed>>

Init ==
    /\ wanted \in [Requests -> SUBSET Streams]
    /\ submitted = 0
    /\ handedOver = {}
    /\ freed = 0

Submit ==
    /\ submitted < NumRequests
    /\ submitted' = submitted + 1
    /\ UNCHANGED <<wanted, handedOver, freed>>

HandOver(r, s) ==
    /\ r \in freed .. submitted - 1
    /\ s \in wanted[r]
    /\ handedOver' = handedOver \cup {<<r, s>>}
    /\ UNCHANGED <<wanted, submitted, freed>>

Free ==
    /\ freed < submitted
    /\ \A s \in wanted[freed] : <<freed, s>> \in handedOver
    /\ freed' = freed + 1
    /\ UNCHANGED <<wanted, submitted, handedOver>>

Next ==
    \/ Submit
    \/ Free
    \/ \E r \in Requests, s \in Streams : HandOver(r, s)

Spec == Init /\ [][Next]_vars
=============================================================================
