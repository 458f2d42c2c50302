------------------------------ MODULE Signals ------------------------------
(* The signal words of one SignalDrivenThread (libcamera2/SignalDrivenThread *)
(* .cpp) as sets of signals, and the two operations on them.                 *)

\* m_receivedSignal and m_pendingSignal of a thread that was just made.
NoSignals == [received |-> {}, pending |-> {}]

\* SetSignal(s): a second one while the first waits is kept as pending, a
\* third one leaves no trace.
SetSignal(q, s) ==
    IF s \in q.received THEN [q EXCEPT !.pending = @ \cup {s}]
                        ELSE [q EXCEPT !.received = @ \cup {s}]

\* What the next turn of the thread handles.
TurnOf(q) == q.received

\* Variant with a defect: the pending signals are forgotten with the turn.
AfterTurnCleared(q) == NoSignals

\* Variant with a defect: the pending signals stay where they are.
AfterTurnPending(q) == [q EXCEPT !.received = {}]

\* What waits once a turn has taken the received signals.
AfterTurn(q) == [received |-> q.pending, pending |-> {}]
=============================================================================
