---------------------------- MODULE SignalMemory ----------------------------
(* What a thread driven by signals promises to those who set them: each      *)
(* signal is remembered up to twice, a turn handles every remembered signal  *)
(* once, and a thread that was told to terminate takes no more turns.        *)
EXTENDS Integers

CONSTANTS Signals, TERMINATE

VARIABLES
    remembered,     \* signal -> how often it is still to be handled
    gone            \* the thread has ended

vars == <<remembered, gone>>

Init == remembered = [s \in Signals |-> 0] /\ gone = FALSE

Set(s) ==
    /\ remembered' = [remembered EXCEPT ![s] = IF @ < 2 THEN @ + 1 ELSE 2]
    /\ UNCHANGED gone

Turn ==
    /\ ~gone
    /\ \E s \in Signals : remembered[s] > 0
    /\ remembered' = [s \in Signals |->
                         IF remembered[s] > 0 THEN remembered[s] - 1 ELSE 0]
    /\ UNCHANGED gone

End == gone' = TRUE /\ UNCHANGED remembered

\* The thread object is started again.
Restart == gone' = FALSE /\ UNCHANGED remembered

Next == Turn \/ End \/ Restart \/ \E s \in Signals : Set(s)

Spec == Init /\ [][Next]_vars
=============================================================================
