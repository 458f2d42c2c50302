------------------------------- MODULE McClient -------------------------------
(* MobiCore's client library in one process: the device and its connection   *)
(* to the daemon, the sessions with their bulk buffers, and devMutex, which  *)
(* every call holds from its first to its last step.  Only a wait for a      *)
(* notification lasts; the other calls are one action each, whose outcome is *)
(* the daemon's choice.  The daemon may die; McSessions has what it does.    *)
EXTENDS Integers, Sequences, FiniteSets, SequencesExt

CONSTANTS
    Threads,   \* threads of the process
    Ids,       \* session identifiers
    Buffers,   \* buffers of the process, an address each
    Inbox,     \* notifications that wait in a connection
    Forever,   \* waits have no time limit: MC_INFINITE_TIMEOUT
    NqFails,   \* the second connection of mcOpenSession may fail
    Dies,      \* the daemon may die
    Refuses    \* "close", "map", "unmap": what the daemon may refuse

VARIABLES
    device,    \* the device's connection: none, live or dead
    session,   \* sessions of the client: id -> its bulk buffers
    daemon,    \* sessions of the daemon: id -> what the secure world has mapped
    holder,    \* the thread that waits with devMutex, and for which session
    notifying, \* threads that have called mcNotify
    inbox      \* session -> notifications in its connection: exit or not

vars == <<device, session, daemon, holder, notifying, inbox>>

None == "none"
Nobody == [thread |-> None, of |-> 0]
Nothing == [s \in {} |-> {}]
Opened == DOMAIN session
Held == DOMAIN daemon
Free == holder = Nobody
Without(f, s) == [x \in DOMAIN f \ {s} |-> f[x]]
With(f, s, v) == [x \in DOMAIN f \cup {s} |-> IF x = s THEN v ELSE f[x]]

Init ==
    /\ device = None /\ session = Nothing /\ daemon = Nothing
    /\ holder = Nobody /\ notifying = {} /\ inbox = [s \in Ids |-> <<>>]

\* removeDevice: the sessions that are left go with it.
RemoveDevice == device' = None /\ session' = Nothing

Die ==
    /\ Dies /\ device = "live"
    /\ device' = "dead" /\ daemon' = Nothing
    /\ UNCHANGED <<session, holder, notifying, inbox>>

-----------------------------------------------------------------------------
OpenDevice ==
    /\ Free /\ device = None
    /\ device' = "live"
    /\ UNCHANGED <<session, daemon, holder, notifying, inbox>>

\* A pending session refuses it, and the failing write or read of a dead
\* connection ends it before the device is removed.
CloseDevice ==
    /\ Free /\ device = "live" /\ Opened = {}
    /\ device' = None /\ daemon' = Nothing
    /\ UNCHANGED <<session, holder, notifying, inbox>>

\* The client has the session once its notification connection stands.
OpenSession(s) ==
    /\ Free /\ device = "live" /\ s \notin Held
    /\ daemon' = With(daemon, s, {})
    /\ \/ session' = With(session, s, {})
       \/ NqFails /\ UNCHANGED session
    /\ inbox' = [inbox EXCEPT ![s] = <<>>]
    /\ UNCHANGED <<device, holder, notifying>>

CloseSession(s) ==
    /\ Free /\ s \in Opened
    /\ \/ /\ device = "live"
          /\ daemon' = Without(daemon, s) /\ session' = Without(session, s)
          /\ UNCHANGED device
       \/ /\ device = "live" /\ "close" \in Refuses
          /\ UNCHANGED <<device, session, daemon>>
       \/ device = "dead" /\ RemoveDevice /\ UNCHANGED daemon
    /\ UNCHANGED <<holder, notifying, inbox>>

-----------------------------------------------------------------------------
\* A buffer is registered once in a session.  The daemon's refusal takes it
\* out again; a dead connection leaves it registered.
Map(s, b) ==
    /\ Free /\ s \in Opened /\ b \notin session[s]
    /\ \/ /\ device = "live"
          /\ session' = [session EXCEPT ![s] = @ \cup {b}]
          /\ daemon' = [daemon EXCEPT ![s] = @ \cup {b}]
       \/ /\ device = "live" /\ "map" \in Refuses
          /\ UNCHANGED <<session, daemon>>
       \/ /\ device = "dead"
          /\ session' = [session EXCEPT ![s] = @ \cup {b}]
          /\ UNCHANGED daemon
    /\ UNCHANGED <<device, holder, notifying, inbox>>

\* Variant with a defect: the buffer is unregistered before the daemon is asked.
UnmapFirst(s, b) ==
    /\ Free /\ s \in Opened /\ b \in session[s] /\ device = "live"
    /\ session' = [session EXCEPT ![s] = @ \ {b}]
    /\ \/ daemon' = [daemon EXCEPT ![s] = @ \ {b}]
       \/ "unmap" \in Refuses /\ UNCHANGED daemon
    /\ UNCHANGED <<device, holder, notifying, inbox>>

Unmap(s, b) ==
    /\ Free /\ s \in Opened /\ b \in session[s]
    /\ \/ /\ device = "live"
          /\ session' = [session EXCEPT ![s] = @ \ {b}]
          /\ daemon' = [daemon EXCEPT ![s] = @ \ {b}]
          /\ UNCHANGED device
       \/ /\ device = "live" /\ "unmap" \in Refuses
          /\ UNCHANGED <<device, session, daemon>>
       \/ device = "dead" /\ RemoveDevice /\ UNCHANGED daemon
    /\ UNCHANGED <<holder, notifying, inbox>>

-----------------------------------------------------------------------------
(* Notifications.  A trustlet answers each one, some by ending themselves.   *)

CallNotify(t) ==
    /\ t \notin notifying \cup {holder.thread} /\ Opened # {}
    /\ notifying' = notifying \cup {t}
    /\ UNCHANGED <<device, session, daemon, holder, inbox>>

Answered(s) ==
    IF Len(inbox[s]) = Inbox THEN {inbox}
    ELSE {[inbox EXCEPT ![s] = Append(@, exit)] : exit \in BOOLEAN}

Notify(t) ==
    /\ Free /\ t \in notifying
    /\ notifying' = notifying \ {t}
    /\ \/ \E s \in Opened : /\ device = "live" /\ inbox' \in Answered(s)
                            /\ UNCHANGED <<device, session>>
       \/ Opened # {} /\ device = "dead" /\ RemoveDevice /\ UNCHANGED inbox
       \/ Opened = {} /\ UNCHANGED <<device, session, inbox>>
    /\ UNCHANGED <<daemon, holder>>

CallWait(t, s) ==
    /\ Free /\ t \notin notifying /\ s \in Opened
    /\ holder' = [thread |-> t, of |-> s]
    /\ UNCHANGED <<device, session, daemon, notifying, inbox>>

\* All that have arrived are read, up to the first exit code.
Received ==
    LET s == holder.of
        exits == {i \in 1 .. Len(inbox[s]) : inbox[s][i]}
        read == IF exits = {} THEN Len(inbox[s])
                ELSE CHOOSE i \in exits : \A j \in exits : i <= j
    IN  /\ ~ Free /\ inbox[s] # <<>>
        /\ inbox' = [inbox EXCEPT ![s] = SubSeq(@, read + 1, Len(@))]
        /\ holder' = Nobody
        /\ UNCHANGED <<device, session, daemon, notifying>>

WaitExpires ==
    /\ ~ Free /\ inbox[holder.of] = <<>> /\ device = "live" /\ ~ Forever
    /\ holder' = Nobody
    /\ UNCHANGED <<device, session, daemon, notifying, inbox>>

\* Nothing is left and the other end is closed.
WaitEnds ==
    /\ ~ Free /\ inbox[holder.of] = <<>> /\ device = "dead"
    /\ RemoveDevice
    /\ holder' = Nobody
    /\ UNCHANGED <<daemon, notifying, inbox>>

Waits == Received \/ WaitExpires \/ WaitEnds

Next ==
    \/ Die \/ OpenDevice \/ CloseDevice \/ Waits
    \/ \E s \in Ids : OpenSession(s) \/ CloseSession(s)
    \/ \E s \in Ids, b \in Buffers : Map(s, b) \/ Unmap(s, b)
    \/ \E t \in Threads : CallNotify(t) \/ Notify(t)
    \/ \E t \in Threads, s \in Ids : CallWait(t, s)

\* The mutex is not given to others for ever; a wait that may end does; the
\* client closes what it does not need.
Fairness ==
    /\ \A t \in Threads : SF_vars(Notify(t))
    /\ WF_vars(Waits)
    /\ SF_vars(CloseDevice)
    /\ \A s \in Ids : SF_vars(CloseSession(s))

Spec == Init /\ [][Next]_vars /\ Fairness

-----------------------------------------------------------------------------
\* While the daemon lives it holds the sessions that the client has, and no
\* other that nobody could close.
Agree == device = "live" => Opened = Held

\* The secure world has no buffer mapped that the client has unregistered.
MappedIsKept ==
    device = "live" => \A s \in Opened \cap Held : daemon[s] \subseteq session[s]

\* "If the session parameter is correct, notify will always succeed": a thread
\* that calls mcNotify comes back.
NotifyEnds == \A t \in Threads : t \in notifying ~> t \notin notifying

\* "MC_DRV_ERR_SESSION_PENDING when a session is still open": a close that is
\* not refused leaves no session open.
PendingRefused == [][device = "live" /\ device' = None => Held = {}]_vars

\* "The device may be opened again after it has been closed": a device whose
\* daemon died does not stay.
DeviceComesBack == device = "dead" ~> device # "dead"
=============================================================================
