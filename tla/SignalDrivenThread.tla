------------------------- MODULE SignalDrivenThread -------------------------
(* One SignalDrivenThread of libcamera2/SignalDrivenThread.cpp: the threads  *)
(* of the camera call SetSignal on it at any time, its own threadLoop takes  *)
(* what has been set and hands it to threadFunctionInternal, which may set   *)
(* signals of its own thread too.  Every caller sets one signal at a time.   *)
EXTENDS Integers, Signals

CONSTANTS
    Signals,        \* the signals that are used with this thread
    TERMINATE,      \* SIGNAL_THREAD_TERMINATE
    PAUSE           \* SIGNAL_THREAD_PAUSE

ASSUME SignalAssumption == {TERMINATE, PAUSE} \subseteq Signals

VARIABLES
    m_signals,          \* m_receivedSignal and m_pendingSignal
    m_processingSignal, \* the signals of the turn
    m_isTerminated,
    place               \* "new", "wait", "took", "ending", "run" or "gone"

threadVars == <<m_signals, m_processingSignal, m_isTerminated, place>>

ThreadInit ==
    /\ m_signals = NoSignals
    /\ m_processingSignal = {}
    /\ m_isTerminated = FALSE
    /\ place = "new"

\* Start: the Android thread's run refuses a thread that is running.
Start ==
    /\ place \in {"new", "gone"}
    /\ place' = "wait"
    /\ UNCHANGED <<m_signals, m_processingSignal, m_isTerminated>>

Set(s) ==
    /\ m_signals' = SetSignal(m_signals, s)
    /\ UNCHANGED <<m_processingSignal, m_isTerminated, place>>

Take ==
    /\ place = "wait"
    /\ m_signals.received # {}
    /\ m_processingSignal' = TurnOf(m_signals)
    /\ m_signals' = AfterTurn(m_signals)
    /\ place' = "took"
    /\ UNCHANGED m_isTerminated

SeesTerminate ==
    /\ place = "took"
    /\ TERMINATE \in m_processingSignal
    /\ place' = "ending"
    /\ UNCHANGED <<m_signals, m_processingSignal, m_isTerminated>>

Terminate ==
    /\ place = "ending"
    /\ m_isTerminated' = TRUE
    /\ place' = "gone"
    /\ UNCHANGED <<m_signals, m_processingSignal>>

\* The other signals of a turn that has PAUSE or TERMINATE are not handled.
Pauses ==
    /\ place = "took"
    /\ TERMINATE \notin m_processingSignal
    /\ PAUSE \in m_processingSignal
    /\ place' = "wait"
    /\ UNCHANGED <<m_signals, m_processingSignal, m_isTerminated>>

\* A thread that was started again clears the mark of its earlier end only in
\* its first turn.
Handles ==
    /\ place = "took"
    /\ {TERMINATE, PAUSE} \cap m_processingSignal = {}
    /\ m_isTerminated' = FALSE
    /\ place' = "run"
    /\ UNCHANGED <<m_signals, m_processingSignal>>

FunctionReturns ==
    /\ place = "run"
    /\ place' = "wait"
    /\ UNCHANGED <<m_signals, m_processingSignal, m_isTerminated>>

threadLoop ==
    Take \/ SeesTerminate \/ Terminate \/ Pauses \/ Handles \/ FunctionReturns

ThreadNext == Start \/ threadLoop \/ \E s \in Signals : Set(s)

ThreadSpec == ThreadInit /\ [][ThreadNext]_threadVars

\* The thread gets processor time and its function returns.
ThreadFairSpec == ThreadSpec /\ WF_threadVars(threadLoop)

-----------------------------------------------------------------------------
(* Properties.                                                               *)

Subsets == SUBSET Signals

\* Every variable has its type.
ThreadTypeOK ==
    /\ m_signals \in [received : Subsets, pending : Subsets]
    /\ m_processingSignal \in Subsets
    /\ m_isTerminated \in BOOLEAN
    /\ place \in {"new", "wait", "took", "ending", "run", "gone"}

\* A signal is pending only behind one of its kind that has been received: a
\* thread never sleeps on a pending signal (threadLoop waits for
\* m_receivedSignal alone).
PendingBehindReceived == m_signals.pending \subseteq m_signals.received

\* The two words remember a signal as a counter up to two would, and each
\* turn takes exactly one of each.
rememberedSignals ==
    [s \in Signals |-> (IF s \in m_signals.received THEN 1 ELSE 0)
                       + (IF s \in m_signals.pending THEN 1 ELSE 0)]

Memory == INSTANCE SignalMemory
              WITH remembered <- rememberedSignals, gone <- (place = "gone")

KeepsMemory == Memory!Spec

\* A thread that was asked to terminate and runs ends, whatever else is set,
\* though a turn that is under way may come first: release() waits for this
\* in a loop without a timeout.
TerminateEnds ==
    (TERMINATE \in m_signals.received /\ place # "new") ~> (place = "gone")

\* IsTerminated answers yes only after threadLoop has left its last turn or
\* when the thread was started anew since: release() drops the thread then.
TerminatedOutside == m_isTerminated => place # "run"

\* A thread never sleeps on a signal, and whoever polls IsTerminated does not
\* drop it while its function runs.
ThreadsHearSignals == PendingBehindReceived /\ TerminatedOutside
=============================================================================
