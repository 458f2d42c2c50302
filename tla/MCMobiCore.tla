----------------------------- MODULE MCMobiCore -----------------------------
(* MobiCore: commands between the daemon and the secure world, the daemon's  *)
(* sessions, the client library.  A behaviour is of one instance of one of   *)
(* the modules, the others keep their initial state.                         *)
EXTENDS McExchange, Sequences

CONSTANTS
    Connections, TrustletIds, Handles, NumSessions, PerClient, MaxSent, Torn,  \* McSessions
    ClientThreads, ClientIds, Buffers, Inbox, Forever, NqFails, Dies, Refuses  \* McClient

VARIABLES
    instance,
    device, list, session, unknown, locked, command, sessionIrq, sessionFault,  \* McSessions
    secureWorld, notifications, sent, got,
    connection, opened, daemon, holder, notifying, inbox                 \* McClient

sessionVars == <<device, list, session, unknown, locked, command, sessionIrq,
                 sessionFault, secureWorld, notifications, sent, got>>
clientVars == <<connection, opened, daemon, holder, notifying, inbox>>
all == <<instance, vars, sessionVars, clientVars>>

-----------------------------------------------------------------------------
\* The exchange with what may fail, which is this module's own instance, and
\* without.
Faultless == INSTANCE McExchange WITH Faults <- {}, Extra <- Extra + 1

\* The daemon's sessions: with trustlets that are silent, and with one that
\* sends notifications.
Sessions ==
    INSTANCE McSessions
      WITH Clients <- Connections, Ids <- TrustletIds,
           irq <- sessionIrq, fault <- sessionFault, world <- secureWorld,
           queue <- notifications

Silent == \A s \in TrustletIds : sent'[s] = 0
OneTrustlet == secureWorld' \subseteq {2} /\ locked' \subseteq {"h1", "h2"}

Client ==
    INSTANCE McClient
      WITH Threads <- ClientThreads, Ids <- ClientIds,
           device <- connection, session <- opened

MCInit ==
    /\ instance \in {"faulty", "faultless", "buffering", "notified", "client"}
    /\ Init
    /\ Sessions!Init
    /\ Client!Init

Alone(name, step, rest) == instance = name /\ step /\ UNCHANGED <<instance, rest>>

InFaulty(A) == Alone("faulty", A, <<sessionVars, clientVars>>)
InFaultless(A) == Alone("faultless", A, <<sessionVars, clientVars>>)
InClient(A) == Alone("client", A, <<vars, sessionVars>>)

MCNext ==
    \/ InFaulty(Next)
    \/ InFaultless(Faultless!Next)
    \/ Alone("buffering", Sessions!Next /\ Silent, <<vars, clientVars>>)
    \/ Alone("notified", Sessions!Next /\ OneTrustlet, <<vars, clientVars>>)
    \/ InClient(Client!Next)

\* The fairness of each module's own specification.
MCFairness ==
    /\ \A c \in Callers :
           /\ WF_all(InFaulty(Steps(c)) \/ InFaultless(Faultless!Steps(c)))
           /\ WF_all(InFaulty(Expire(c)))
    /\ WF_all(InFaulty(IrqWait \/ IrqDrain)
              \/ InFaultless(Faultless!IrqWait \/ Faultless!IrqDrain))
    /\ WF_all(InFaulty(SchedIdle \/ SchedSlice \/ SchedWake)
              \/ InFaultless(Faultless!SchedIdle \/ Faultless!SchedSlice
                             \/ Faultless!SchedWake))
    /\ \A t \in ClientThreads : SF_all(InClient(Client!Notify(t)))
    /\ WF_all(InClient(Client!Waits))
    /\ SF_all(InClient(Client!CloseDevice))
    /\ \A s \in ClientIds : SF_all(InClient(Client!CloseSession(s)))

MCSpec == MCInit /\ [][MCNext]_all /\ MCFairness

\* Far above what one command adds to schedSync's count; after a fault nobody
\* empties the queues.  A session that is closed and opened again may send
\* again: what is on its way, kept or delivered is cut.
SyncBound == 6
QueueBound == 2
SentBound == 2
Cut ==
    /\ sync <= SyncBound
    /\ queue.out <= QueueBound /\ queue.in + sem.count <= QueueBound
    /\ Len(notifications) <= SentBound /\ Len(unknown) <= SentBound
    /\ \A s \in DOMAIN got : Len(session[s].queue) <= SentBound /\ Len(got[s]) <= SentBound

-----------------------------------------------------------------------------
\* While the secure world answers, it and the daemon agree on what is open,
\* after a restart of the daemon too; a session's connection is open, and a
\* lock in the kernel module has a session or a command that gives it up.  A
\* connected client gets each notification of its trustlet, also one that the
\* trustlet sent before the session was set up.
SessionsAgree ==
    /\ Sessions!KnownSessions
    /\ Sessions!NoOrphans
    /\ Sessions!LockedIsHeld
    /\ Sessions!Delivered

\* While the daemon lives it holds the sessions that the client has, and no
\* other that nobody could close; the secure world has no buffer mapped that
\* the client has unregistered.
ClientAgrees == Client!Agree /\ Client!MappedIsKept

\* A command ends, with its answer or without, and mcNotify comes back.
CallsEnd == CommandsEnd /\ Client!NotifyEnds
=============================================================================
