---------------------------- MODULE MCVdecShare ----------------------------
(* The shared output port with two buffers; see VdecShare.cfg.               *)
EXTENDS VdecShare

WithoutInvalid == {"Idle", "Executing", "Loaded"}

-----------------------------------------------------------------------------
\* A buffer the client has is not written into, none is returned twice or
\* kept after the client freed it, and beside the pictures that are kept after
\* a seek or at a change of resolution at most one buffer is ever where only a
\* flush finds it.
SharedBuffersKept ==
    /\ TypeOK
    /\ NotWrittenAtClient
    /\ ReturnedOnce
    /\ FewLost
    /\ NothingKept

\* Flushes, the port's disabling and enabling and the threads end, and a
\* change of settings leads to new buffers for the MFC.
SharedPortMovesOn == CommandsEnd /\ Reconfigured
=============================================================================
