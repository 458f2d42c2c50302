------------------------------ MODULE McSessions ------------------------------
(* The MobiCore daemon's sessions: connections with the device, the list of  *)
(* trustlet sessions, the shared buffers they keep locked, and the way of a  *)
(* trustlet's notification through the interrupt thread to its client.  The  *)
(* commands exclude each other by handleConnection's mutex; the interrupt    *)
(* thread runs between their steps.  McExchange has the exchange of a        *)
(* command with the secure world, here a choice of its outcomes.             *)
EXTENDS Integers, Sequences, FiniteSets

CONSTANTS
    Clients,      \* connections, reused as the allocator reuses addresses
    Ids,          \* session identifiers of the secure world
    Handles,      \* shared buffers, TCI buffers among them
    NumSessions,  \* NUM_SESSIONS: a restart closes the ones from 2 below it
    PerClient,    \* sessions of a client at a time
    MaxSent,      \* notifications of a session
    Torn          \* the interrupt thread is interrupted between the look at
                  \* the session and what it does with the notification

VARIABLES
    device,   \* connections with connectionData
    list,     \* trustletSessions
    session,  \* id -> its TrustletSession: owner, connected, queue, buffers
    unknown,  \* notifications, the device's queue
    locked,   \* handles locked in the kernel module
    command,  \* the command under way: where, its client, handle, session
    irq,      \* the interrupt thread: where, the notification's session
    fault,    \* mcFault
    world,    \* sessions open in the secure world
    queue,    \* notifications on their way to the interrupt thread
    sent,     \* session -> notifications it sent since it was opened
    got       \* session -> notifications written to its client

vars == <<device, list, session, unknown, locked, command, irq, fault, world,
          queue, sent, got>>
worldVars == <<world, queue, sent>>

None == "none"
NoCommand == [at |-> None, client |-> None, handle |-> None, of |-> 0]
NewSession(c, h, waiting) ==
    [owner |-> c, connected |-> FALSE, queue |-> waiting, tci |-> h,
     buffers |-> {h}]
Closed == [owner |-> None, connected |-> FALSE, queue |-> <<>>, tci |-> None,
           buffers |-> {}]

Init ==
    /\ device = {} /\ list = <<>> /\ session = [s \in Ids |-> Closed]
    /\ unknown = <<>> /\ locked = {} /\ command = NoCommand
    /\ irq = [at |-> "idle", of |-> 0] /\ fault = FALSE
    /\ world = {} /\ queue = <<>>
    /\ sent = [s \in Ids |-> 0] /\ got = [s \in Ids |-> <<>>]

Known == {list[i] : i \in 1 .. Len(list)}
OwnedBy(c) == {s \in Known : session[s].owner = c}
Quiet == Torn \/ irq.at = "idle"
Free == Quiet /\ command = NoCommand /\ ~ fault
Command(c) == Free /\ c \in device

\* The kernel module never gives a handle out twice.
Fresh(h) == h \notin locked /\ \A s \in Known : h \notin session[s].buffers

-----------------------------------------------------------------------------
(* The secure world.                                                         *)

SendNotification(s) ==
    /\ Quiet /\ s \in world /\ sent[s] < MaxSent
    /\ sent' = [sent EXCEPT ![s] = @ + 1]
    /\ queue' = Append(queue, s)
    /\ UNCHANGED <<device, list, session, unknown, locked, command, irq, fault,
                   world, got>>

\* What it does with an open command: it opens a session, refuses, or never
\* answers, which the daemon takes for a fault.
WorldOpens(s) ==
    /\ Quiet /\ command.at = "sent" /\ s \in Ids \ world
    /\ world' = world \cup {s}
    /\ sent' = [sent EXCEPT ![s] = 0] /\ got' = [got EXCEPT ![s] = <<>>]
    /\ command' = [command EXCEPT !.at = "answered", !.of = s]
    /\ UNCHANGED <<device, list, session, unknown, locked, irq, fault, queue>>

-----------------------------------------------------------------------------
(* Open and close.                                                           *)

OpenDevice(c) ==
    /\ Free /\ c \notin device
    /\ device' = device \cup {c}
    /\ UNCHANGED <<list, session, unknown, locked, command, irq, fault, got,
                   worldVars>>

OpenSession(c, h) ==
    /\ Command(c) /\ Fresh(h)
    /\ Cardinality(OwnedBy(c)) < PerClient
    /\ locked' = locked \cup {h}
    /\ unknown' = <<>>
    /\ command' = [NoCommand EXCEPT !.at = "sent", !.client = c, !.handle = h]
    /\ UNCHANGED <<device, list, session, irq, fault, got, worldVars>>

OpenRefused ==
    /\ Quiet /\ command.at = "sent"
    /\ locked' = locked \ {command.handle}
    /\ fault' \in BOOLEAN
    /\ command' = NoCommand
    /\ UNCHANGED <<device, list, session, unknown, irq, got, worldVars>>

Opened ==
    /\ Quiet /\ command.at = "answered"
    /\ list' = Append(list, command.of)
    /\ session' = [session EXCEPT ![command.of] =
                     NewSession(command.client, command.handle, unknown)]
    /\ unknown' = <<>>
    /\ command' = NoCommand
    /\ UNCHANGED <<device, locked, irq, fault, got, worldVars>>

\* The list when the sessions of S have been erased from it.
Without(S) ==
    LET kept[i \in 0 .. Len(list)] ==
            IF i = 0 THEN <<>>
            ELSE IF list[i] \in S THEN kept[i - 1] ELSE Append(kept[i - 1], list[i])
    IN  kept[Len(list)]

\* closeSession for a set of sessions: removeTrustletSession unlocks what the
\* session still has in its list.
RemoveSessions(S) ==
    /\ world' = world \ S
    /\ list' = Without(S)
    /\ session' = [s \in Ids |-> IF s \in S THEN Closed ELSE session[s]]
    /\ locked' = locked \ UNION {session[s].buffers : s \in S}

CloseSession(c, s) ==
    /\ Command(c) /\ s \in OwnedBy(c)
    /\ RemoveSessions({s})
    /\ UNCHANGED <<device, unknown, command, irq, fault, queue, sent, got>>

\* MobiCoreDevice::close walks the list backwards.  A reverse iterator refers
\* to the element before its base: erasing that element moves the reference
\* on, and the increment moves it on again.
Reached(c) ==
    LET own(i) == session[list[i]].owner = c
        walk[i \in -1 .. Len(list)] ==
            IF i <= 0 THEN {}
            ELSE IF own(i) THEN {list[i]} \cup walk[i - 2] ELSE walk[i - 1]
    IN  walk[Len(list)]

\* CLOSE_DEVICE, or dropConnection when the client died.  After a fault no
\* session can be closed.
Close(c) ==
    /\ Quiet /\ command = NoCommand /\ c \in device
    /\ device' = device \ {c}
    /\ IF fault THEN UNCHANGED <<list, session, locked, world>>
                ELSE RemoveSessions(Reached(c))
    /\ UNCHANGED <<unknown, command, irq, fault, queue, sent, got>>

-----------------------------------------------------------------------------
(* Bulk buffers.                                                             *)

\* The session keeps the buffer and its lock even when the world refuses it.
MapBulk(c, s, h) ==
    /\ Command(c) /\ s \in OwnedBy(c) /\ Fresh(h)
    /\ locked' = locked \cup {h}
    /\ session' = [session EXCEPT ![s].buffers = @ \cup {h}]
    /\ UNCHANGED <<device, list, unknown, command, irq, fault, got, worldVars>>

UnmapBulk(c, s, h) ==
    /\ Command(c) /\ s \in OwnedBy(c) /\ h \in session[s].buffers \cap locked
    /\ h # session[s].tci
    /\ locked' = locked \ {h}
    /\ UNCHANGED <<device, list, session, unknown, command, irq, fault, got,
                   worldVars>>

-----------------------------------------------------------------------------
(* The notification connection.                                              *)

NqConnect(s) ==
    /\ Free /\ s \in Known /\ ~ session[s].connected
    /\ session' = [session EXCEPT ![s].connected = TRUE]
    /\ command' = [NoCommand EXCEPT !.at = "drain", !.of = s]
    /\ UNCHANGED <<device, list, unknown, locked, irq, fault, got, worldVars>>

ProcessQueuedNotifications ==
    /\ Quiet /\ command.at = "drain"
    /\ got' = [got EXCEPT ![command.of] = @ \o session[command.of].queue]
    /\ session' = [session EXCEPT ![command.of].queue = <<>>]
    /\ command' = NoCommand
    /\ UNCHANGED <<device, list, unknown, locked, irq, fault, worldVars>>

-----------------------------------------------------------------------------
(* The interrupt thread: handleIrq, getSessionConnection.                    *)

IrqTake ==
    /\ irq.at = "idle" /\ queue # <<>>
    /\ queue' = Tail(queue)
    /\ LET s == Head(queue)
       IN  irq' = [of |-> s,
                   at |-> IF s \notin Known THEN "unknown"
                          ELSE IF session[s].connected THEN "write" ELSE "keep"]
    /\ UNCHANGED <<device, list, session, unknown, locked, command, fault,
                   world, sent, got>>

IrqUnknown ==
    /\ irq.at = "unknown"
    /\ unknown' = Append(unknown, irq.of)
    /\ irq' = [irq EXCEPT !.at = "idle"]
    /\ UNCHANGED <<device, list, session, locked, command, fault, got, worldVars>>

\* The session keeps it, and "no connection" makes the device keep it too.
IrqKeep ==
    /\ irq.at = "keep"
    /\ session' = IF irq.of \in Known
                  THEN [session EXCEPT ![irq.of].queue = Append(@, irq.of)]
                  ELSE session
    /\ irq' = [irq EXCEPT !.at = "unknown"]
    /\ UNCHANGED <<device, list, unknown, locked, command, fault, got, worldVars>>

IrqWrite ==
    /\ irq.at = "write"
    /\ got' = IF irq.of \in Known THEN [got EXCEPT ![irq.of] = Append(@, irq.of)]
              ELSE got
    /\ irq' = [irq EXCEPT !.at = "idle"]
    /\ UNCHANGED <<device, list, session, unknown, locked, command, fault,
                   worldVars>>

-----------------------------------------------------------------------------
Pending == 2 .. NumSessions - 1
PendingShort == 2 .. NumSessions - 2

\* Variant with a defect: the last pending session is left.
RestartShort ==
    /\ Quiet
    /\ device' = {} /\ list' = <<>> /\ session' = [s \in Ids |-> Closed]
    /\ unknown' = <<>> /\ locked' = {} /\ command' = NoCommand
    /\ irq' = [at |-> "idle", of |-> 0] /\ fault' = FALSE
    /\ world' = world \ PendingShort
    /\ UNCHANGED <<queue, sent, got>>

\* The daemon is started again while the secure world keeps running: it
\* closes the pending sessions, and the kernel has given up the locks.
Restart ==
    /\ Quiet
    /\ device' = {} /\ list' = <<>> /\ session' = [s \in Ids |-> Closed]
    /\ unknown' = <<>> /\ locked' = {} /\ command' = NoCommand
    /\ irq' = [at |-> "idle", of |-> 0] /\ fault' = FALSE
    /\ world' = world \ Pending
    /\ UNCHANGED <<queue, sent, got>>

Next ==
    \/ \E s \in Ids : SendNotification(s) \/ WorldOpens(s) \/ NqConnect(s)
    \/ \E c \in Clients :
          \/ OpenDevice(c) \/ Close(c)
          \/ \E h \in Handles : OpenSession(c, h)
          \/ \E s \in Ids : CloseSession(c, s)
          \/ \E s \in Ids, h \in Handles : MapBulk(c, s, h) \/ UnmapBulk(c, s, h)
    \/ OpenRefused \/ Opened \/ ProcessQueuedNotifications
    \/ IrqTake \/ IrqUnknown \/ IrqKeep \/ IrqWrite
    \/ Restart

Spec == Init /\ [][Next]_vars

-----------------------------------------------------------------------------
\* While the secure world answers, it and the daemon agree on what is open,
\* after a restart of the daemon too.
KnownSessions ==
    ~ fault /\ command.at \notin {"sent", "answered"} => Known = world

\* "Removes all sessions to a connection": a session's connection is open.
NoOrphans == ~ fault => \A s \in Known : session[s].owner \in device

\* A lock in the kernel module belongs to a session that will give it up or
\* to the command under way.
LockedIsHeld ==
    locked \subseteq {command.handle} \cup UNION {session[s].buffers : s \in Known}

\* What a session keeps in its list of buffers to unlock is still locked.
BuffersLocked == \A s \in Known : session[s].buffers \subseteq locked

\* A connected client gets each notification of its trustlet, also one that
\* the trustlet sent before the session was set up.
Times(s) == Cardinality({i \in 1 .. Len(got[s]) : got[s][i] = s})
Settled == irq.at = "idle" /\ queue = <<>> /\ command = NoCommand /\ ~ fault
Delivered ==
    Settled => \A s \in Known : session[s].connected => Times(s) >= sent[s]
=============================================================================
