--------------------------- MODULE MobiCore_proofs ---------------------------
(* Proofs about MobiCore: a command's caller reads the answer to its own     *)
(* command, for any number of callers and retries and whatever fails; the    *)
(* client library and the daemon agree on the sessions that are open; and    *)
(* the daemon's sessions are those the secure world has open, none of them   *)
(* loses its owner, its buffers' locks or a notification.                    *)
EXTENDS MCMobiCore, FiniteSetTheorems, SequenceTheorems, WellFoundedInduction, TLAPS

(* A command and its answer are one thing on its way, in the outgoing queue, *)
(* in the secure world, in the incoming queue or in the semaphore's count,   *)
(* as long as nothing has failed; after a failure no caller comes as far as  *)
(* the answer.                                                               *)

Command(c) == msg = [kind |-> "command", of |-> c]
Answer(c) == msg = [kind |-> "answer", of |-> c]

Places == {"idle", "notify", "wait", "asleep", "health", "check"}
Gone == irq = "gone" \/ sched.at = "gone"

ExchangeType ==
    /\ msg \in [kind : {"none", "command", "answer"}, of : Callers \cup {None}]
    /\ queue \in [out : Nat, in : Nat]
    /\ world \in [idle : BOOLEAN, at : Callers \cup {None}, halted : BOOLEAN]
    /\ ssiq \in BOOLEAN
    /\ sem \in [count : Nat, asleep : SUBSET Callers, woken : SUBSET Callers]
    /\ sync \in Nat
    /\ irq \in {"wait", "drain", "gone"}
    /\ sched \in [at : {"decide", "sync", "gone"}, slice : 0 .. Slices]
    /\ caller \in [Callers -> [at : Places, left : 1 .. Tries]]
    /\ fault \in BOOLEAN

\* Only one command is under way.
OneAtATime == \A c, d \in Busy : c = d

\* After a fault nobody takes an answer.
FaultStops ==
    fault => \A c \in Callers : caller[c].at \in {"idle", "notify", "wait"}

Sleepers ==
    /\ \A c \in sem.asleep \cup sem.woken : caller[c].at = "asleep"
    /\ sem.asleep \cap sem.woken = {}
    /\ sem.woken # {} => sem.count > 0

Empty == queue = [out |-> 0, in |-> 0] /\ world.at = None /\ sem.count = 0

\* Nothing is left that could overwrite the answer which is about to be read.
AnswerStays ==
    \A c \in Callers :
        caller[c].at = "check" => Answer(c) /\ world.at = None /\ queue.out = 0

UnderWay(c) ==
    \/ /\ queue = [out |-> 1, in |-> 0] /\ world.at = None /\ sem.count = 0
       /\ Command(c)
    \/ queue = [out |-> 0, in |-> 0] /\ world.at = c /\ sem.count = 0
    \/ /\ queue = [out |-> 0, in |-> 1] /\ world.at = None /\ sem.count = 0
       /\ Answer(c)
    \/ /\ queue = [out |-> 0, in |-> 0] /\ world.at = None /\ sem.count = 1
       /\ Answer(c)

OneThing(c) ==
    /\ caller[c].at = "notify" => Empty /\ Command(c)
    /\ caller[c].at \in {"wait", "asleep"} => UnderWay(c)
    /\ caller[c].at = "health" => Empty /\ Answer(c)
    /\ caller[c].at = "check" => Empty

OneThingOnItsWay ==
    ~ fault /\ ~ Gone => (Busy = {} => Empty) /\ (\A c \in Callers : OneThing(c))

ExchangeInv ==
    /\ ExchangeType /\ OneAtATime /\ FaultStops /\ Sleepers
    /\ AnswerStays /\ OneThingOnItsWay

\* What CSemaphore::signal leaves: one more to take, and a sleeper woken.
LEMMA SignalledShape ==
    ASSUME ExchangeType, NEW s \in Signalled
    PROVE  /\ s \in [count : Nat, asleep : SUBSET Callers, woken : SUBSET Callers]
           /\ s.count = sem.count + 1
           /\ s.asleep \cup s.woken = sem.asleep \cup sem.woken
           /\ s.asleep \cap s.woken \subseteq sem.asleep \cap sem.woken
  <1>1. CASE sem.asleep = {}
    BY <1>1 DEF ExchangeType, Signalled
  <1>2. CASE sem.asleep # {}
    <2>1. PICK c \in sem.asleep :
            s = [count |-> sem.count + 1, asleep |-> sem.asleep \ {c},
                 woken |-> sem.woken \cup {c}]
      BY <1>2 DEF ExchangeType, Signalled
    <2> QED
      BY <2>1 DEF ExchangeType
  <1> QED
    BY <1>1, <1>2

LEMMA ExchangeInit ==
    ASSUME Tries \in Nat \ {0}, Slices \in Nat, Init
    PROVE  ExchangeInv
  <1>1. caller \in [Callers -> [at : Places, left : 1 .. Tries]]
        /\ \A c \in Callers : caller[c].at = "idle"
    BY DEF Init, Idle, Places
  <1>2. ExchangeType
    <2>1. msg \in [kind : {"none", "command", "answer"}, of : Callers \cup {None}]
      BY DEF Init, Nobody
    <2>2. sched \in [at : {"decide", "sync", "gone"}, slice : 0 .. Slices]
      BY DEF Init
    <2> QED
      BY <1>1, <2>1, <2>2 DEF Init, ExchangeType
  <1>3. Busy = {}
    BY <1>1 DEF Busy
  <1> QED
    BY <1>1, <1>2, <1>3 DEF Init, ExchangeInv, OneAtATime, FaultStops, Sleepers,
       AnswerStays, OneThingOnItsWay, OneThing, Empty, Busy

\* Every step of the exchange keeps the invariant: the actions of the callers
\* are those of the one whose command is under way.
LEMMA ExchangeStep ==
    ASSUME Exclusive, Tries \in Nat \ {0}, Slices \in Nat, ExchangeInv, [Next]_vars
    PROVE  ExchangeInv'
  <1> USE DEF ExchangeInv, ExchangeType, OneAtATime, FaultStops, Sleepers, AnswerStays,
              OneThingOnItsWay, OneThing, UnderWay, Empty, Gone, Busy, Command, Answer,
              Places
  <1>1. ASSUME NEW c \in Callers, Write(c) PROVE ExchangeInv'
    BY <1>1 DEF Write, Goes, Idle, Late
  <1>2. ASSUME NEW c \in Callers, Notify(c) PROVE ExchangeInv'
    <2>1. ExchangeType'
      <3>1. queue' \in [out : Nat, in : Nat]
        BY <1>2 DEF Notify
      <3>2. caller' \in [Callers -> [at : Places, left : 1 .. Tries]]
        BY <1>2 DEF Notify, Goes
      <3>3. world' \in [idle : BOOLEAN, at : Callers \cup {None}, halted : BOOLEAN]
        BY <1>2 DEF Notify
      <3> QED
        BY <1>2, <3>1, <3>2, <3>3 DEF Notify
    <2>2. OneAtATime'
      BY <1>2 DEF Notify, Goes
    <2>3. FaultStops'
      BY <1>2 DEF Notify, Goes
    <2>4. Sleepers'
      BY <1>2 DEF Notify, Goes
    <2>5. AnswerStays'
      BY <1>2 DEF Notify, Goes
    <2>6. OneThingOnItsWay'
      BY <1>2 DEF Notify, Goes
    <2> QED
      BY <2>1, <2>2, <2>3, <2>4, <2>5, <2>6
  <1>3. ASSUME NEW c \in Callers, Wait(c) PROVE ExchangeInv'
    BY <1>3, SMTT(40) DEF Wait, Goes, Idle, Late
  <1>4. ASSUME NEW c \in Callers, Woken(c) PROVE ExchangeInv'
    <2>1. ExchangeType'
      BY <1>4 DEF Woken, Goes
    <2>2. OneAtATime'
      BY <1>4 DEF Woken, Goes
    <2>3. FaultStops'
      BY <1>4 DEF Woken, Goes
    <2>4. Sleepers'
      <3>1. sem.woken = {c}
        BY <1>4 DEF Woken
      <3>2. sem'.woken = {} /\ sem'.asleep = sem.asleep /\ c \notin sem.asleep
        BY <1>4, <3>1 DEF Woken
      <3> QED
        BY <1>4, <3>2 DEF Woken, Goes
    <2>5. AnswerStays'
      BY <1>4 DEF Woken, Goes
    <2>6. OneThingOnItsWay'
      BY <1>4 DEF Woken, Goes
    <2> QED
      BY <2>1, <2>2, <2>3, <2>4, <2>5, <2>6
  <1>5. ASSUME NEW c \in Callers, Health(c) PROVE ExchangeInv'
    BY <1>5 DEF Health, Goes, Idle, Late
  <1>6. ASSUME NEW c \in Callers, Check(c) PROVE ExchangeInv'
    BY <1>6 DEF Check, Goes, Idle, Late
  <1>7. ASSUME NEW c \in Callers, Expire(c) PROVE ExchangeInv'
    <2>1. ExchangeType'
      BY <1>7 DEF Expire, Idle, Late
    <2>2. OneAtATime'
      BY <1>7 DEF Expire, Idle, Late
    <2>3. FaultStops'
      BY <1>7 DEF Expire, Idle, Late
    <2>4. Sleepers'
      <3>1. sem.asleep = {c} /\ sem.woken = {}
        BY <1>7 DEF Expire
      <3> QED
        BY <1>7, <3>1 DEF Expire
    <2>5. AnswerStays'
      BY <1>7 DEF Expire, Idle, Late
    <2>6. OneThingOnItsWay'
      <3>1. CASE fault'
        BY <3>1
      <3>2. CASE ~ fault'
        <4>1. /\ ~ fault /\ ~ world.halted /\ caller[c].left # 1
              /\ \A d \in Callers : d # c => caller'[d] = caller[d]
              /\ caller'[c].at = "wait"
          BY <1>7, <3>2 DEF Expire
        <4>2. /\ UNCHANGED <<msg, queue, world, irq, sched>>
              /\ sem'.count = sem.count
          BY <1>7 DEF Expire
        <4>3. ~ Gone => UnderWay(c)'
          BY <1>7, <4>1, <4>2 DEF Expire
        <4>4. \A d \in Callers : d # c => caller[d].at = "idle"
          BY <1>7 DEF Expire
        <4> QED
          BY <4>1, <4>2, <4>3, <4>4
      <3> QED
        BY <3>1, <3>2
    <2> QED
      BY <2>1, <2>2, <2>3, <2>4, <2>5, <2>6
  <1>8. CASE IrqWait
    <2>1. ExchangeType'
      BY <1>8 DEF IrqWait
    <2>2. OneAtATime'
      BY <1>8 DEF IrqWait
    <2>3. FaultStops'
      BY <1>8 DEF IrqWait
    <2>4. Sleepers'
      BY <1>8 DEF IrqWait
    <2>5. AnswerStays'
      BY <1>8 DEF IrqWait
    <2>6. OneThingOnItsWay'
      BY <1>8 DEF IrqWait
    <2> QED
      BY <2>1, <2>2, <2>3, <2>4, <2>5, <2>6
  <1>9. CASE IrqDrain
    BY <1>9, SignalledShape DEF IrqDrain, Slice
  <1>10. CASE IrqFails
    BY <1>10, SignalledShape DEF IrqFails, Slice
  <1>11. CASE SchedIdle
    BY <1>11, SignalledShape DEF SchedIdle, Slice
  <1>12. CASE SchedSlice
    <2>1. ExchangeType'
      <3>1. sched' \in [at : {"decide", "sync", "gone"}, slice : 0 .. Slices]
        BY <1>12 DEF SchedSlice
      <3>2. sync' \in Nat
        BY <1>12 DEF SchedSlice
      <3>3. Slice /\ UNCHANGED <<sem, irq, caller, fault>>
        BY <1>12 DEF SchedSlice
      <3>4. CASE world.halted
        <4>1. world' = [world EXCEPT !.idle = FALSE] /\ UNCHANGED <<queue, msg, ssiq>>
          BY <3>3, <3>4 DEF Slice
        <4> QED
          BY <3>1, <3>2, <3>3, <4>1
      <3>5. CASE ~ world.halted /\ world.at = None /\ queue.out > 0
        <4>1. /\ world' = [idle |-> FALSE, at |-> msg.of, halted |-> FALSE]
              /\ queue' = [queue EXCEPT !.out = @ - 1]
              /\ UNCHANGED <<msg, ssiq>>
          BY <3>3, <3>5 DEF Slice
        <4>2. queue' \in [out : Nat, in : Nat]
          BY <3>5, <4>1
        <4>3. msg.of \in Callers \cup {None}
          OBVIOUS
        <4>4. world' \in [idle : BOOLEAN, at : Callers \cup {None}, halted : BOOLEAN]
          BY <4>1, <4>3
        <4> QED
          BY <3>1, <3>2, <3>3, <4>1, <4>2, <4>4
      <3>6. CASE ~ world.halted /\ world.at # None
        <4>1. /\ msg' = [kind |-> "answer", of |-> world.at]
              /\ world' = [idle |-> FALSE, at |-> None, halted |-> FALSE]
              /\ queue' = [queue EXCEPT !.in = @ + 1]
              /\ ssiq' = TRUE
          BY <3>3, <3>6 DEF Slice
        <4> QED
          BY <3>1, <3>2, <3>3, <3>6, <4>1
      <3>7. CASE ~ world.halted /\ world.at = None /\ ~ (queue.out > 0)
        <4>1. world' = [world EXCEPT !.idle = TRUE] /\ UNCHANGED <<queue, msg, ssiq>>
          BY <3>3, <3>7 DEF Slice
        <4> QED
          BY <3>1, <3>2, <3>3, <4>1
      <3> QED
        BY <3>4, <3>5, <3>6, <3>7
    <2>2. OneAtATime'
      BY <1>12 DEF SchedSlice, Slice
    <2>3. FaultStops'
      BY <1>12 DEF SchedSlice, Slice
    <2>4. Sleepers'
      BY <1>12 DEF SchedSlice, Slice
    <2>5. AnswerStays'
      BY <1>12 DEF SchedSlice, Slice
    <2>6. OneThingOnItsWay'
      BY <1>12 DEF SchedSlice, Slice
    <2> QED
      BY <2>1, <2>2, <2>3, <2>4, <2>5, <2>6
  <1>13. CASE SchedWake
    BY <1>13, SignalledShape DEF SchedWake, Slice
  <1>14. CASE SchedFails
    BY <1>14, SignalledShape DEF SchedFails, Slice
  <1>15. CASE OtherSsiq
    BY <1>15, SignalledShape DEF OtherSsiq, Slice
  <1>16. CASE Halt
    <2>1. ExchangeType'
      BY <1>16 DEF Halt
    <2>2. OneAtATime'
      BY <1>16 DEF Halt
    <2>3. FaultStops'
      BY <1>16 DEF Halt
    <2>4. Sleepers'
      BY <1>16 DEF Halt
    <2>5. AnswerStays'
      BY <1>16 DEF Halt
    <2>6. OneThingOnItsWay'
      BY <1>16 DEF Halt
    <2> QED
      BY <2>1, <2>2, <2>3, <2>4, <2>5, <2>6
  <1>17. CASE UNCHANGED vars
    BY <1>17 DEF vars
  <1> QED
    BY <1>1, <1>2, <1>3, <1>4, <1>5, <1>6, <1>7, <1>8, <1>9, <1>10, <1>11, <1>12, <1>13, <1>14, <1>15, <1>16, <1>17 DEF Next, Steps, Threads

\* The caller that goes on after its wait finds the answer to its own command,
\* and none is left for the next: for every set of callers that exclude each
\* other, every number of retries and slices, whatever fails.
THEOREM AnswersAreOwn ==
    ASSUME Exclusive, Tries \in Nat \ {0}, Slices \in Nat
    PROVE  Spec => []OwnAnswer
  <1>1. Init => ExchangeInv
    BY ExchangeInit
  <1>2. ExchangeInv /\ [Next]_vars => ExchangeInv'
    BY ExchangeStep
  <1>3. ExchangeInv => OwnAnswer
    BY DEF ExchangeInv, AnswerStays, OneThingOnItsWay, Answer, Gone, Empty, OwnAnswer
  <1> QED
    BY <1>1, <1>2, <1>3, PTL DEF Spec

-----------------------------------------------------------------------------
(* The client library.  Where its device is not live, the daemon has none of *)
(* its sessions; where it has no device, it has no session either.           *)

ClientInv ==
    /\ connection \in {Client!None, "live", "dead"}
    /\ connection # "live" => Client!Held = {}
    /\ connection = Client!None => Client!Opened = {}
    /\ Client!Agree /\ Client!MappedIsKept

LEMMA ClientInit == Client!Init => ClientInv
  BY DEF Client!Init, ClientInv, Client!Held, Client!Opened, Client!Nothing, Client!Agree,
         Client!MappedIsKept, Client!None

LEMMA ClientStep ==
    ASSUME ~ NqFails, ClientInv, [Client!Next]_(Client!vars)
    PROVE  ClientInv'
  <1> USE DEF ClientInv, Client!Agree, Client!MappedIsKept, Client!Held, Client!Opened,
              Client!None
  <1>1. CASE Client!Die
    BY <1>1 DEF Client!Die, Client!Nothing
  <1>2. CASE Client!OpenDevice
    BY <1>2 DEF Client!OpenDevice, Client!Nothing
  <1>3. CASE Client!CloseDevice
    BY <1>3 DEF Client!CloseDevice, Client!Nothing
  <1>4. CASE Client!Received
    BY <1>4 DEF Client!Received, Client!Nothing
  <1>5. CASE Client!WaitExpires
    BY <1>5 DEF Client!WaitExpires, Client!Nothing
  <1>6. CASE Client!WaitEnds
    BY <1>6 DEF Client!WaitEnds, Client!RemoveDevice, Client!Nothing, Client!Nothing
  <1>7. ASSUME NEW s \in ClientIds, Client!OpenSession(s)
         PROVE  ClientInv'
    BY <1>7 DEF Client!OpenSession, Client!With
  <1>8. ASSUME NEW s \in ClientIds, Client!CloseSession(s)
         PROVE  ClientInv'
    BY <1>8 DEF Client!CloseSession, Client!Without, Client!RemoveDevice, Client!Nothing, Client!Opened
  <1>9. ASSUME NEW s \in ClientIds, NEW b \in Buffers, Client!Map(s, b)
         PROVE  ClientInv'
    BY <1>9 DEF Client!Map
  <1>10. ASSUME NEW s \in ClientIds, NEW b \in Buffers, Client!Unmap(s, b)
         PROVE  ClientInv'
    BY <1>10 DEF Client!Unmap, Client!RemoveDevice, Client!Nothing
  <1>11. ASSUME NEW t \in ClientThreads, Client!CallNotify(t)
         PROVE  ClientInv'
    BY <1>11 DEF Client!CallNotify
  <1>12. ASSUME NEW t \in ClientThreads, Client!Notify(t)
         PROVE  ClientInv'
    BY <1>12 DEF Client!Notify, Client!RemoveDevice, Client!Nothing
  <1>13. ASSUME NEW t \in ClientThreads, NEW s \in ClientIds, Client!CallWait(t, s)
         PROVE  ClientInv'
    BY <1>13 DEF Client!CallWait
  <1>14. CASE UNCHANGED Client!vars
    BY <1>14 DEF Client!vars
  <1> QED
    BY <1>1, <1>2, <1>3, <1>4, <1>5, <1>6, <1>7, <1>8, <1>9, <1>10, <1>11, <1>12, <1>13, <1>14 DEF Client!Next, Client!Waits

\* While the daemon lives it holds the sessions that the client has, and what
\* it has mapped in them the client has registered: for every set of threads,
\* sessions and buffers, whatever the daemon refuses and whenever it dies, if
\* mcOpenSession's second connection stands.
THEOREM ClientAndDaemonAgree ==
    ASSUME ~ NqFails
    PROVE  Client!Spec => []ClientAgrees
  <1>1. Client!Init => ClientInv
    BY ClientInit
  <1>2. ClientInv /\ [Client!Next]_(Client!vars) => ClientInv'
    BY ClientStep
  <1>3. ClientInv => ClientAgrees
    BY DEF ClientInv, ClientAgrees
  <1> QED
    BY <1>1, <1>2, <1>3, PTL DEF Client!Spec

\* mcCloseDevice does not close the device while a session is open in the
\* daemon.
THEOREM PendingSessionRefusesClose ==
    ASSUME ~ NqFails
    PROVE  Client!Spec => Client!PendingRefused
  <1>1. Client!Init => ClientInv
    BY ClientInit
  <1>2. ClientInv /\ [Client!Next]_(Client!vars) => ClientInv'
    BY ClientStep
  <1>3. ClientInv /\ [Client!Next]_(Client!vars)
            => [connection = "live" /\ connection' = Client!None => Client!Held = {}]_(Client!vars)
    BY DEF ClientInv, Client!Next, Client!vars, Client!Waits, Client!Die, Client!OpenDevice, Client!CloseDevice,
           Client!Received, Client!WaitExpires, Client!WaitEnds, Client!OpenSession,
           Client!CloseSession, Client!Map, Client!Unmap, Client!CallNotify,
           Client!Notify, Client!CallWait, Client!RemoveDevice, Client!Agree, Client!Held,
           Client!Opened, Client!None
  <1> QED
    BY <1>1, <1>2, <1>3, PTL DEF Client!Spec, Client!PendingRefused

-----------------------------------------------------------------------------
(* The daemon's sessions.  Each is in the list once and has an owner of its  *)
(* own; what a trustlet sent is delivered, or it is on its way: in the queue *)
(* to the interrupt thread, in its hands, kept in the session, or kept in    *)
(* the device for the session that is being opened.                          *)

SessionRecord ==
    [owner : Connections \cup {Sessions!None}, connected : BOOLEAN,
     queue : Seq(TrustletIds), tci : Handles \cup {Sessions!None},
     buffers : SUBSET (Handles \cup {Sessions!None})]

SessionTypes ==
    /\ device \subseteq Connections /\ locked \subseteq Handles
    /\ list \in Seq(TrustletIds)
    /\ session \in [TrustletIds -> SessionRecord]
    /\ unknown \in Seq(TrustletIds) /\ notifications \in Seq(TrustletIds)
    /\ command \in [at : {Sessions!None, "sent", "answered", "drain"},
                    client : Connections \cup {Sessions!None},
                    handle : Handles \cup {Sessions!None}, of : TrustletIds \cup {0}]
    /\ sessionIrq \in [at : {"idle", "unknown", "keep", "write"}, of : TrustletIds \cup {0}]
    /\ sessionFault \in BOOLEAN /\ secureWorld \subseteq TrustletIds
    /\ sent \in [TrustletIds -> Nat] /\ got \in [TrustletIds -> Seq(TrustletIds)]

\* The session that the secure world has opened and the daemon does not know.
Answered == IF command.at = "answered" THEN {command.of} ELSE {}

CommandGoes ==
    /\ command.at = Sessions!None => command = Sessions!NoCommand
    /\ command.at \in {"sent", "answered"} =>
          command.client \in device /\ Sessions!OwnedBy(command.client) = {}
    /\ Answered \cap Sessions!Known = {} /\ Answered \subseteq TrustletIds
    /\ command.at = "drain" => command.of \in Sessions!Known /\ session[command.of].connected
    /\ sessionFault => command.at = Sessions!None

OwnersApart ==
    /\ \A i, j \in 1 .. Len(list) : list[i] = list[j] => i = j
    /\ \A s, t \in Sessions!Known : session[s].owner = session[t].owner => s = t
    /\ ~ sessionFault => /\ secureWorld = Sessions!Known \cup Answered
                         /\ \A s \in Sessions!Known : session[s].owner \in device

Interrupt ==
    /\ sessionIrq.at # "idle" => sessionIrq.of \in TrustletIds
    /\ sessionIrq.at \in {"keep", "write"} =>
          /\ sessionIrq.of \in Sessions!Known
          /\ session[sessionIrq.of].connected = (sessionIrq.at = "write")

\* Where a notification of s counts: the interrupt thread keeps it for a known
\* session before it takes it for an unknown one too.
InHand(s) ==
    IF /\ sessionIrq.of = s /\ sessionIrq.at # "idle"
       /\ sessionIrq.at = "unknown" => s \notin Sessions!Known
    THEN 1 ELSE 0
Of(s, seq) == Cardinality({i \in 1 .. Len(seq) : seq[i] = s})
Kept(s) == Of(s, IF s \in Sessions!Known THEN session[s].queue ELSE unknown)
OnTheWay ==
    /\ \A s \in Sessions!Known \cup Answered :
          sent[s] <= Of(s, got[s]) + Of(s, notifications) + Kept(s) + InHand(s)
    /\ \A s \in Sessions!Known :
          session[s].connected => \/ session[s].queue = <<>>
                                  \/ command.at = "drain" /\ command.of = s

\* LockedIsHeld, with the handle only of a command that is opening a session.
Opening == IF command.at \in {"sent", "answered"} THEN {command.handle} ELSE {}
Locks ==
    locked \subseteq Opening \cup UNION {session[s].buffers : s \in Sessions!Known}

SessionsInv ==
    SessionTypes /\ CommandGoes /\ OwnersApart /\ Interrupt /\ OnTheWay /\ Locks

-----------------------------------------------------------------------------
(* Counting in a sequence.                                                   *)

LEMMA PlacesAreFinite ==
    ASSUME NEW s, NEW n \in Nat, NEW seq
    PROVE  IsFiniteSet({i \in 1 .. n : seq[i] = s})
  <1>1. 1 \in Int /\ n \in Int
    OBVIOUS
  <1>2. IsFiniteSet(1 .. n)
    BY <1>1, FS_Interval
  <1> QED
    BY <1>2, FS_Subset

LEMMA OfIsNat ==
    ASSUME NEW S, NEW s, NEW seq \in Seq(S)
    PROVE  Of(s, seq) \in Nat
  <1>1. Len(seq) \in Nat
    BY LenProperties
  <1> QED
    BY <1>1, PlacesAreFinite, FS_CardinalityType DEF Of

LEMMA OfEmpty == ASSUME NEW s PROVE Of(s, <<>>) = 0
  <1>1. {i \in 1 .. Len(<<>>) : <<>>[i] = s} = {}
    OBVIOUS
  <1> QED
    BY <1>1, FS_EmptySet DEF Of

LEMMA OfAppend ==
    ASSUME NEW S, NEW s, NEW e \in S, NEW seq \in Seq(S)
    PROVE  Of(s, Append(seq, e)) = Of(s, seq) + IF e = s THEN 1 ELSE 0
  <1> DEFINE n == Len(seq)
             old == {i \in 1 .. n : seq[i] = s}
             new == {i \in 1 .. Len(Append(seq, e)) : Append(seq, e)[i] = s}
  <1>1. n \in Nat /\ IsFiniteSet(old) /\ Cardinality(old) \in Nat
    <2>1. n \in Nat
      BY LenProperties
    <2> QED
      BY <2>1, PlacesAreFinite, FS_CardinalityType
  <1>2. /\ Len(Append(seq, e)) = n + 1 /\ Append(seq, e)[n + 1] = e
        /\ \A i \in 1 .. n : Append(seq, e)[i] = seq[i]
    BY AppendProperties
  <1>3. new = old \cup (IF e = s THEN {n + 1} ELSE {}) /\ n + 1 \notin old
    <2> HIDE DEF n
    <2>1. \A i : i \in 1 .. n + 1 <=> i \in 1 .. n \/ i = n + 1
      BY <1>1
    <2> QED
      BY <1>1, <1>2, <2>1
  <1>4. Cardinality(new) = Cardinality(old) + IF e = s THEN 1 ELSE 0
    <2> HIDE DEF old, new
    <2>1. CASE e = s
      BY <1>1, <1>3, <2>1, FS_AddElement
    <2>2. CASE e # s
      BY <1>1, <1>3, <2>2
    <2> QED
      BY <2>1, <2>2
  <1> QED
    BY <1>4 DEF Of

\* Moving a set of numbers does not change how many there are.
LEMMA ShiftKeepsSize ==
    ASSUME NEW T \in SUBSET Int, IsFiniteSet(T), NEW k \in Int
    PROVE  Cardinality({i + k : i \in T}) = Cardinality(T) /\ IsFiniteSet({i + k : i \in T})
  <1> DEFINE U == {i + k : i \in T}
             f == [i \in T |-> i + k]
  <1>1. f \in Bijection(T, U)
    <2>1. f \in [T -> U]
      OBVIOUS
    <2>2. \A a, b \in T : f[a] = f[b] => a = b
      OBVIOUS
    <2>3. \A u \in U : \E a \in T : f[a] = u
      OBVIOUS
    <2> HIDE DEF f, U
    <2> QED
      BY <2>1, <2>2, <2>3 DEF Bijection, Injection, Surjection, IsInjective
  <1>2. ExistsBijection(T, U)
    BY <1>1 DEF ExistsBijection
  <1> HIDE DEF U
  <1>3. IsFiniteSet(U) /\ Cardinality(U) = Cardinality(T)
    BY <1>2, FS_Bijection
  <1> QED
    BY <1>3 DEF U

LEMMA OfConcat ==
    ASSUME NEW S, NEW s, NEW a \in Seq(S), NEW b \in Seq(S)
    PROVE  Of(s, a \o b) = Of(s, a) + Of(s, b)
  <1> DEFINE n == Len(a)
             ina == {i \in 1 .. Len(a) : a[i] = s}
             inb == {i \in 1 .. Len(b) : b[i] = s}
             moved == {i + n : i \in inb}
             new == {i \in 1 .. Len(a \o b) : (a \o b)[i] = s}
  <1>1. n \in Nat /\ Len(b) \in Nat
    BY LenProperties
  <1>2. IsFiniteSet(ina) /\ IsFiniteSet(inb)
    BY <1>1, PlacesAreFinite
  <1>3. /\ Len(a \o b) = n + Len(b)
        /\ \A i \in 1 .. n + Len(b) : (a \o b)[i] = IF i <= n THEN a[i] ELSE b[i - n]
    BY ConcatProperties
  <1>4. inb \in SUBSET Int /\ n \in Int
    BY <1>1
  <1>5. IsFiniteSet(moved) /\ Cardinality(moved) = Cardinality(inb)
    <2> HIDE DEF inb, n
    <2> QED
      BY <1>2, <1>4, ShiftKeepsSize
  <1>6. new = ina \cup moved
    <2>1. ASSUME NEW i \in new PROVE i \in ina \cup moved
      <3>1. i \in 1 .. n + Len(b) /\ (IF i <= n THEN a[i] ELSE b[i - n]) = s
        BY <1>3
      <3>2. CASE i <= n
        BY <1>1, <3>1, <3>2
      <3>3. CASE ~ (i <= n)
        <4>1. i - n \in inb /\ i = (i - n) + n
          BY <1>1, <3>1, <3>3
        <4> QED
          BY <4>1
      <3> QED
        BY <3>2, <3>3
    <2>2. ASSUME NEW i \in ina PROVE i \in new
      <3>1. i \in 1 .. n + Len(b) /\ i <= n
        BY <1>1
      <3> QED
        BY <1>3, <3>1
    <2>3. ASSUME NEW j \in inb PROVE j + n \in new
      <3>1. j + n \in 1 .. n + Len(b) /\ ~ (j + n <= n) /\ (j + n) - n = j
        BY <1>1
      <3>2. (a \o b)[j + n] = b[j]
        BY <1>3, <3>1
      <3> QED
        BY <1>3, <3>1, <3>2
    <2> HIDE DEF new, ina, inb
    <2> QED
      BY <2>1, <2>2, <2>3
  <1>7. ina \cap moved = {}
    <2>1. ASSUME NEW j \in inb PROVE j + n \notin ina
      BY <1>1
    <2> HIDE DEF ina, inb
    <2> QED
      BY <2>1
  <1>8. Cardinality(new) = Cardinality(ina) + Cardinality(inb)
    <2> HIDE DEF ina, inb, moved, new
    <2>1. Cardinality(ina) \in Nat /\ Cardinality(inb) \in Nat
      BY <1>2, FS_CardinalityType
    <2>2. Cardinality(ina \cup moved) = Cardinality(ina) + Cardinality(moved) - 0
      BY <1>2, <1>5, <1>7, FS_Union, FS_EmptySet
    <2> QED
      BY <1>5, <1>6, <2>1, <2>2
  <1> QED
    BY <1>8 DEF Of

LEMMA OfTail ==
    ASSUME NEW S, NEW s, NEW seq \in Seq(S), seq # <<>>
    PROVE  Of(s, seq) = Of(s, Tail(seq)) + IF Head(seq) = s THEN 1 ELSE 0
  <1>1. seq = <<Head(seq)>> \o Tail(seq) /\ Head(seq) \in S /\ Tail(seq) \in Seq(S)
    BY HeadTailProperties, SMT
  <1>2. <<Head(seq)>> \in Seq(S)
    BY <1>1
  <1>3. ASSUME NEW e \in S PROVE Of(s, <<e>>) = IF e = s THEN 1 ELSE 0
    <2>1. PICK nil \in Seq(S) : nil = <<>> /\ Append(nil, e) = <<e>>
      <3>1. <<>> \in Seq(S) /\ Append(<<>>, e) = <<e>>
        OBVIOUS
      <3> QED
        BY <3>1, Zenon
    <2>2. Of(s, Append(nil, e)) = Of(s, nil) + IF e = s THEN 1 ELSE 0
      BY OfAppend
    <2>3. Of(s, nil) = 0
      BY <2>1, OfEmpty
    <2> QED
      BY <2>1, <2>2, <2>3
  <1>4. Of(s, <<Head(seq)>> \o Tail(seq)) = Of(s, <<Head(seq)>>) + Of(s, Tail(seq))
    BY <1>1, <1>2, OfConcat, Zenon
  <1>5. Of(s, Tail(seq)) \in Nat /\ Of(s, seq) = Of(s, <<Head(seq)>> \o Tail(seq))
    BY <1>1, OfIsNat, Zenon
  <1> QED
    BY <1>1, <1>3, <1>4, <1>5

-----------------------------------------------------------------------------
(* Erasing from the list.  The least-number principle stands for induction:  *)
(* a set of numbers that violate a claim has no least element.               *)

LEMMA LeastNumber ==
    ASSUME NEW T \in SUBSET Nat, T # {}
    PROVE  \E n \in T : \A m \in T : n <= m
  <1> DEFINE R == OpToRel(<, Nat)
  <1>1. IsWellFoundedOn(R, Nat)
    BY Zenon, NatLessThanWellFounded DEF R
  <1>2. R = {ss \in Nat \X Nat : ss[1] < ss[2]}
    BY SMT DEF OpToRel, R
  <1> HIDE DEF R
  <1>3. PICK n \in T : \A m \in T : <<m, n>> \notin R
    BY <1>1, WFMin, Zenon
  <1>4. \A m \in T : ~ (m < n)
    BY <1>2, <1>3
  <1> QED
    BY <1>3, <1>4

\* What is kept of the list up to a position.
KeptAt(f, S, i) ==
    IF i = 0 THEN <<>> ELSE IF list[i] \in S THEN f[i - 1] ELSE Append(f[i - 1], list[i])
IsKept(f, S, n) == f = [i \in 0 .. n |-> KeptAt(f, S, i)]

LEMMA KeptExists ==
    ASSUME NEW S, NEW n \in Nat
    PROVE  \E f : IsKept(f, S, n)
  <1> DEFINE Missing == {m \in Nat : ~ \E f : IsKept(f, S, m)}
  <1>1. SUFFICES ASSUME Missing # {} PROVE FALSE
    OBVIOUS
  <1>2. PICK m \in Missing : \A k \in Missing : m <= k
    BY <1>1, LeastNumber
  <1>3. CASE m = 0
    <2> DEFINE f == [i \in 0 .. 0 |-> <<>>]
    <2>1. f = [i \in 0 .. 0 |-> KeptAt(f, S, i)]
      BY DEF KeptAt
    <2> QED
      BY <1>2, <1>3, <2>1 DEF IsKept
  <1>4. CASE m # 0
    <2>1. m - 1 \in Nat /\ m - 1 \notin Missing
      BY <1>2, <1>4
    <2>2. PICK f : IsKept(f, S, m - 1)
      BY <2>1
    <2> DEFINE g == [i \in 0 .. m |-> IF i = m THEN KeptAt(f, S, m) ELSE f[i]]
    <2>3. ASSUME NEW i \in 0 .. m PROVE g[i] = KeptAt(g, S, i)
      <3>1. i # 0 => i - 1 \in 0 .. m - 1 /\ i - 1 \in 0 .. m /\ i - 1 # m
        BY <1>4
      <3>2. KeptAt(g, S, i) = KeptAt(f, S, i)
        BY <3>1 DEF KeptAt
      <3>3. i # m => i \in 0 .. m - 1
        BY <1>4
      <3>4. i # m => f[i] = KeptAt(f, S, i)
        BY <2>2, <3>3, Zenon DEF IsKept
      <3> QED
        BY <3>2, <3>4
    <2>4. g = [i \in 0 .. m |-> KeptAt(g, S, i)]
      BY <2>3, Zenon
    <2> QED
      BY <1>2, <2>4 DEF IsKept
  <1> QED
    BY <1>3, <1>4

NoneTwice(seq) == \A i, j \in 1 .. Len(seq) : seq[i] = seq[j] => i = j
In(seq) == {seq[i] : i \in 1 .. Len(seq)}

\* One element more at the end of a list that does not have it.
LEMMA AppendOnce ==
    ASSUME NEW T, NEW seq \in Seq(T), NoneTwice(seq), NEW e \in T, e \notin In(seq)
    PROVE  /\ Append(seq, e) \in Seq(T) /\ NoneTwice(Append(seq, e))
           /\ In(Append(seq, e)) = In(seq) \cup {e}
  <1> DEFINE n == Len(seq)
             new == Append(seq, e)
  <1>1. n \in Nat
    BY LenProperties
  <1>2. /\ new \in Seq(T) /\ Len(new) = n + 1 /\ new[n + 1] = e
        /\ \A i \in 1 .. n : new[i] = seq[i]
    BY AppendProperties
  <1> HIDE DEF new
  <1>3. \A i : i \in 1 .. n + 1 <=> i \in 1 .. n \/ i = n + 1
    <2> HIDE DEF n
    <2> QED
      BY <1>1
  <1>4. NoneTwice(new)
    BY <1>2, <1>3 DEF NoneTwice, In
  <1>5. In(new) = In(seq) \cup {e}
    BY <1>2, <1>3 DEF In
  <1> QED
    BY <1>2, <1>4, <1>5 DEF new

LEMMA WithoutErases ==
    ASSUME NEW S, list \in Seq(TrustletIds), NoneTwice(list)
    PROVE  /\ Sessions!Without(S) \in Seq(TrustletIds)
           /\ NoneTwice(Sessions!Without(S))
           /\ In(Sessions!Without(S)) = In(list) \ S
  <1> DEFINE kept == CHOOSE f : IsKept(f, S, Len(list))
             First(i) == {list[j] : j \in 1 .. i} \ S
             Good(i) == /\ kept[i] \in Seq(TrustletIds) /\ NoneTwice(kept[i])
                        /\ In(kept[i]) = First(i)
  <1>1. Len(list) \in Nat /\ \A i \in 1 .. Len(list) : list[i] \in TrustletIds
    BY LenProperties, ElementOfSeq
  <1>2. Sessions!Without(S) = kept[Len(list)]
    BY Zenon DEF Sessions!Without, IsKept, KeptAt
  <1>3. IsKept(kept, S, Len(list))
    BY <1>1, KeptExists, Zenon
  <1> HIDE DEF kept, Good
  <1>4. \A i \in 0 .. Len(list) : kept[i] = KeptAt(kept, S, i)
    BY <1>3, Zenon DEF IsKept
  <1> DEFINE Wrong == {i \in 0 .. Len(list) : ~ Good(i)}
  <1>5. Wrong = {}
    <2>1. SUFFICES ASSUME Wrong # {} PROVE FALSE
      OBVIOUS
    <2>2. Wrong \in SUBSET Nat
      BY <1>1
    <2>3. PICK m \in Wrong : \A k \in Wrong : m <= k
      BY <2>1, <2>2, LeastNumber
    <2>4. CASE m = 0
      <3>1. kept[m] = <<>>
        BY <1>1, <1>4, <2>4 DEF KeptAt
      <3>2. <<>> \in Seq(TrustletIds) /\ NoneTwice(<<>>) /\ In(<<>>) = {}
        BY DEF NoneTwice, In
      <3>3. First(m) = {}
        BY <2>4
      <3>4. Good(m)
        BY <3>1, <3>2, <3>3 DEF Good
      <3> QED
        BY <2>3, <3>4
    <2>5. CASE m # 0
      <3>1. /\ m \in 1 .. Len(list) /\ m - 1 \in 0 .. Len(list) /\ m - 1 \notin Wrong
            /\ m \in 0 .. Len(list)
        BY <1>1, <2>3, <2>5
      <3>2. Good(m - 1)
        BY <3>1
      <3>3. kept[m] = IF list[m] \in S THEN kept[m - 1] ELSE Append(kept[m - 1], list[m])
        BY <1>4, <3>1, <2>5 DEF KeptAt
      <3>4. First(m) = IF list[m] \in S THEN First(m - 1) ELSE First(m - 1) \cup {list[m]}
        <4>1. \A j : j \in 1 .. m <=> j \in 1 .. m - 1 \/ j = m
          BY <3>1
        <4> QED
          BY <4>1
      <3>5. list[m] \notin First(m - 1)
        <4>1. \A j \in 1 .. m - 1 : j \in 1 .. Len(list) /\ j # m
          BY <1>1, <3>1
        <4> QED
          BY <3>1, <4>1 DEF NoneTwice
      <3> HIDE DEF First
      <3>6. Good(m)
        <4>1. CASE list[m] \in S
          BY <3>2, <3>3, <3>4, <4>1 DEF Good
        <4>2. CASE list[m] \notin S
          BY <1>1, <3>1, <3>2, <3>3, <3>4, <3>5, <4>2, AppendOnce DEF Good
        <4> QED
          BY <4>1, <4>2
      <3> QED
        BY <2>3, <3>6
    <2> QED
      BY <2>4, <2>5
  <1>6. Good(Len(list))
    BY <1>1, <1>5
  <1> QED
    BY <1>2, <1>6 DEF In, Good

-----------------------------------------------------------------------------
(* MobiCoreDevice::close: of the one session that a connection owns at most, *)
(* the walk finds it.                                                        *)

WalkAt(f, c, i) ==
    IF i <= 0 THEN {}
    ELSE IF session[list[i]].owner = c THEN {list[i]} \cup f[i - 2] ELSE f[i - 1]
IsWalk(f, c) == f = [i \in -1 .. Len(list) |-> WalkAt(f, c, i)]

LEMMA ReachedIsOwned ==
    ASSUME NEW c, list \in Seq(TrustletIds), NoneTwice(list),
           \A s, t \in Sessions!Known : session[s].owner = session[t].owner => s = t
    PROVE  Sessions!Reached(c) = Sessions!OwnedBy(c)
  <1> DEFINE n == Len(list)
             Own(i) == i \in 1 .. n /\ session[list[i]].owner = c
             upTo(i) == {list[j] : j \in {k \in 1 .. i : Own(k)}}
             walk == CHOOSE f : IsWalk(f, c)
             found == [i \in -1 .. n |-> upTo(i)]
  <1>1. n \in Nat
    BY LenProperties
  <1>2. \A i, j : Own(i) /\ Own(j) => i = j
    BY DEF Sessions!Known, NoneTwice
  <1>3. Sessions!Reached(c) = walk[n]
    BY Zenon DEF Sessions!Reached, IsWalk, WalkAt
  \* What the walk has found down from a position is what is owned below it.
  <1>4. ASSUME NEW i \in 1 .. n, Own(i)
        PROVE  upTo(i) = {list[i]} /\ upTo(i - 2) = {}
    <2>1. i \in 1 .. i /\ i \notin 1 .. i - 2
      OBVIOUS
    <2> HIDE DEF Own
    <2>2. {k \in 1 .. i : Own(k)} = {i} /\ {k \in 1 .. i - 2 : Own(k)} = {}
      BY <1>2, <1>4, <2>1
    <2> QED
      BY <2>2
  <1>5. ASSUME NEW i \in 1 .. n, ~ Own(i)
        PROVE  upTo(i) = upTo(i - 1)
    <2>1. \A k : k \in 1 .. i <=> k \in 1 .. i - 1 \/ k = i
      OBVIOUS
    <2> QED
      BY <1>5, <2>1
  <1>6. ASSUME NEW i \in -1 .. n, i <= 0 PROVE upTo(i) = {}
    <2>1. 1 .. i = {}
      BY <1>6
    <2> QED
      BY <2>1
  <1>7. upTo(n) = Sessions!OwnedBy(c)
    BY DEF Sessions!OwnedBy, Sessions!Known
  <1> HIDE DEF upTo
  <1>8. IsWalk(found, c)
    <2>1. ASSUME NEW i \in -1 .. n PROVE found[i] = WalkAt(found, c, i)
      <3>1. CASE i <= 0
        BY <1>6, <3>1 DEF WalkAt
      <3>2. CASE i > 0
        <4>1. i \in 1 .. n /\ i - 1 \in -1 .. n /\ i - 2 \in -1 .. n
          BY <1>1, <3>2
        <4>2. found[i] = upTo(i) /\ found[i - 1] = upTo(i - 1) /\ found[i - 2] = upTo(i - 2)
          BY <4>1
        <4>3. Own(i) <=> session[list[i]].owner = c
          BY <4>1
        <4> HIDE DEF found, Own
        <4>4. CASE Own(i)
          BY <1>4, <3>2, <4>1, <4>2, <4>3, <4>4 DEF WalkAt
        <4>5. CASE ~ Own(i)
          BY <1>5, <3>2, <4>1, <4>2, <4>3, <4>5 DEF WalkAt
        <4> QED
          BY <4>4, <4>5
      <3> QED
        BY <1>1, <3>1, <3>2
    <2> QED
      BY <2>1, Zenon DEF IsWalk
  <1>9. IsWalk(walk, c)
    BY <1>8, Zenon
  <1> HIDE DEF walk
  <1>10. \A i \in -1 .. n : walk[i] = WalkAt(walk, c, i)
    BY <1>9, Zenon DEF IsWalk
  <1> DEFINE Wrong == {i \in 0 .. n : walk[i] # upTo(i)}
  <1>11. Wrong = {}
    <2>1. SUFFICES ASSUME Wrong # {} PROVE FALSE
      OBVIOUS
    <2>2. Wrong \in SUBSET Nat
      BY <1>1
    <2>3. PICK m \in Wrong : \A k \in Wrong : m <= k
      BY <2>1, <2>2, LeastNumber
    <2>4. CASE m = 0
      <3>1. 0 \in -1 .. n
        BY <1>1
      <3>2. upTo(0) = {}
        BY <1>6, <3>1
      <3>3. walk[0] = WalkAt(walk, c, 0)
        BY <1>10, <3>1
      <3>4. walk[0] = {}
        BY <3>3 DEF WalkAt
      <3> QED
        BY <2>3, <2>4, <3>2, <3>4
    <2>5. CASE m # 0
      <3>1. /\ m \in 1 .. n /\ m \in -1 .. n /\ m - 1 \in 0 .. n /\ m - 1 \in -1 .. n
            /\ m - 1 \notin Wrong /\ m - 2 \in -1 .. n
            /\ ((m - 2 \in 0 .. n /\ m - 2 \notin Wrong) \/ m - 2 <= 0)
        BY <1>1, <2>3, <2>5
      <3>2. walk[m - 1] = upTo(m - 1)
        BY <3>1
      <3>3. walk[m - 2] = upTo(m - 2)
        <4>1. CASE m - 2 <= 0
          BY <1>6, <1>10, <3>1, <4>1 DEF WalkAt
        <4>2. CASE ~ (m - 2 <= 0)
          BY <3>1, <4>2
        <4> QED
          BY <4>1, <4>2
      <3>4. walk[m] = WalkAt(walk, c, m)
        BY <1>10, <3>1
      <3>5. Own(m) <=> session[list[m]].owner = c
        BY <3>1
      <3> HIDE DEF Own
      <3>6. walk[m] = upTo(m)
        <4>1. CASE Own(m)
          BY <1>4, <3>1, <3>3, <3>4, <3>5, <4>1 DEF WalkAt
        <4>2. CASE ~ Own(m)
          BY <1>5, <3>1, <3>2, <3>4, <3>5, <4>2 DEF WalkAt
        <4> QED
          BY <4>1, <4>2
      <3> QED
        BY <2>3, <3>6
    <2> QED
      BY <2>4, <2>5
  <1> QED
    BY <1>1, <1>3, <1>7, <1>11

-----------------------------------------------------------------------------
(* The steps.                                                                *)

Peaceful == PerClient = 1 /\ ~ Torn /\ TrustletIds \subseteq 2 .. NumSessions - 1

LEMMA CountsAreNat ==
    ASSUME SessionTypes, NEW s \in TrustletIds
    PROVE  /\ Of(s, got[s]) \in Nat /\ Of(s, notifications) \in Nat
           /\ Of(s, session[s].queue) \in Nat /\ Of(s, unknown) \in Nat
           /\ Kept(s) \in Nat /\ InHand(s) \in {0, 1} /\ sent[s] \in Nat
  <1>1. /\ got[s] \in Seq(TrustletIds) /\ notifications \in Seq(TrustletIds)
        /\ session[s].queue \in Seq(TrustletIds) /\ unknown \in Seq(TrustletIds)
        /\ sent[s] \in Nat
    BY DEF SessionTypes, SessionRecord
  <1>2. /\ Of(s, got[s]) \in Nat /\ Of(s, notifications) \in Nat
        /\ Of(s, session[s].queue) \in Nat /\ Of(s, unknown) \in Nat
    BY <1>1, OfIsNat
  <1> QED
    BY <1>1, <1>2 DEF Kept, InHand

LEMMA KnownAreIds ==
    ASSUME SessionTypes
    PROVE  Sessions!Known \subseteq TrustletIds /\ Sessions!Known = In(list)
  <1>1. \A i \in 1 .. Len(list) : list[i] \in TrustletIds
    BY ElementOfSeq DEF SessionTypes
  <1> QED
    BY <1>1 DEF Sessions!Known, In

\* Steps of the daemon that open no session leave what is on its way alone.
LEMMA NotificationsStay ==
    ASSUME SessionTypes, OnTheWay, UNCHANGED <<sent, notifications, sessionIrq, got>>,
           sessionIrq.at = "idle", Sessions!Known' \subseteq Sessions!Known,
           \A s \in Sessions!Known' : /\ session'[s].queue = session[s].queue
                                      /\ session'[s].connected = session[s].connected,
           Answered' = {}, command.at # "drain"
    PROVE  OnTheWay'
  <1>1. ASSUME NEW s \in Sessions!Known'
        PROVE  /\ sent'[s] <= Of(s, got'[s]) + Of(s, notifications') + Kept(s)' + InHand(s)'
               /\ session'[s].connected => session'[s].queue = <<>>
    <2>1. s \in Sessions!Known /\ s \in TrustletIds
      BY <1>1, KnownAreIds
    <2>2. Kept(s)' = Kept(s) /\ InHand(s) = 0 /\ InHand(s)' = 0
      <3>1. session'[s].queue = session[s].queue
        BY <1>1
      <3>2. Kept(s) = Of(s, session[s].queue) /\ Kept(s)' = Of(s, session'[s].queue)
        BY <1>1, <2>1, Zenon DEF Kept
      <3> QED
        BY <3>1, <3>2 DEF InHand
    <2>3. sent[s] <= Of(s, got[s]) + Of(s, notifications) + Kept(s) + InHand(s)
      BY <2>1 DEF OnTheWay
    <2>4. session[s].connected => session[s].queue = <<>>
      BY <2>1 DEF OnTheWay
    <2> QED
      BY <1>1, <2>2, <2>3, <2>4
  <1> QED
    BY <1>1 DEF OnTheWay

\* What closes sessions of the list.
LEMMA RemovalKeeps ==
    ASSUME NEW S, SessionTypes, OwnersApart, Locks, command = Sessions!NoCommand,
           ~ sessionFault,
           Sessions!RemoveSessions(S), S \subseteq Sessions!Known, UNCHANGED <<command, sessionFault>>
    PROVE  /\ list' \in Seq(TrustletIds) /\ NoneTwice(list')
           /\ Sessions!Known' = Sessions!Known \ S
           /\ \A s \in Sessions!Known' : session'[s] = session[s]
           /\ session' \in [TrustletIds -> SessionRecord]
           /\ locked' \subseteq Handles /\ Locks'
           /\ secureWorld' = Sessions!Known'
  <1>1. list \in Seq(TrustletIds) /\ NoneTwice(list)
    BY DEF SessionTypes, OwnersApart, NoneTwice
  <1>2. list' = Sessions!Without(S)
    BY DEF Sessions!RemoveSessions
  <1>3. /\ list' \in Seq(TrustletIds) /\ NoneTwice(list')
        /\ In(list') = In(list) \ S
    BY <1>1, <1>2, WithoutErases
  <1>4. Sessions!Known' = Sessions!Known \ S
    BY <1>3 DEF Sessions!Known, In
  <1>5. Sessions!Known \subseteq TrustletIds
    BY KnownAreIds
  <1>6. session' = [s \in TrustletIds |-> IF s \in S THEN Sessions!Closed ELSE session[s]]
    BY DEF Sessions!RemoveSessions
  <1>7. \A s \in Sessions!Known' : session'[s] = session[s]
    BY <1>4, <1>5, <1>6
  <1>8. Sessions!Closed \in SessionRecord
    BY DEF Sessions!Closed, SessionRecord
  <1>9. locked' = locked \ UNION {session[s].buffers : s \in S}
    BY DEF Sessions!RemoveSessions
  <1>10. locked \subseteq Opening \cup UNION {session[s].buffers : s \in Sessions!Known}
    BY DEF Locks
  <1>11. UNION {session'[s].buffers : s \in Sessions!Known'}
            = UNION {session[s].buffers : s \in Sessions!Known'}
    BY <1>7
  <1>12. locked' \subseteq Opening' \cup UNION {session'[s].buffers : s \in Sessions!Known'}
    <2>1. ASSUME NEW h \in locked'
          PROVE  h \in Opening \cup UNION {session[s].buffers : s \in Sessions!Known'}
      BY <1>4, <1>9, <1>10, <2>1
    <2>2. Opening' = Opening
      BY DEF Opening
    <2> QED
      BY <1>11, <2>1, <2>2
  <1>13. session' \in [TrustletIds -> SessionRecord]
    <2>1. \A s \in TrustletIds : session[s] \in SessionRecord
      BY DEF SessionTypes
    <2> QED
      BY <1>6, <1>8, <2>1, Zenon
  <1>14. secureWorld = Sessions!Known
    BY DEF OwnersApart, Answered, Sessions!NoCommand, Sessions!None
  <1> QED
    BY <1>3, <1>4, <1>7, <1>9, <1>12, <1>13, <1>14 DEF Sessions!RemoveSessions,
       Locks, SessionTypes

LEMMA SessionsInit == ASSUME Peaceful, Sessions!Init PROVE SessionsInv
  <1>1. Sessions!Known = {} /\ list \in Seq(TrustletIds)
    BY DEF Sessions!Init, Sessions!Known
  <1>2. Sessions!Closed \in SessionRecord
    BY DEF Sessions!Closed, SessionRecord
  <1>3. SessionTypes
    <2>1. session \in [TrustletIds -> SessionRecord]
      BY <1>2, Zenon DEF Sessions!Init
    <2>2. command \in [at : {Sessions!None, "sent", "answered", "drain"},
                       client : Connections \cup {Sessions!None},
                       handle : Handles \cup {Sessions!None}, of : TrustletIds \cup {0}]
      BY DEF Sessions!Init, Sessions!NoCommand
    <2> QED
      BY <1>1, <2>1, <2>2 DEF Sessions!Init, SessionTypes
  <1>4. command.at = Sessions!None /\ Answered = {} /\ Sessions!None = "none"
    BY DEF Sessions!Init, Sessions!NoCommand, Answered, Sessions!None
  <1>5. CommandGoes /\ Interrupt
    BY <1>1, <1>4 DEF Sessions!Init, CommandGoes, Interrupt
  <1>6. OwnersApart
    BY <1>1, <1>4 DEF Sessions!Init, OwnersApart
  <1>7. OnTheWay
    BY <1>1, <1>4 DEF OnTheWay
  <1>8. Locks
    BY DEF Locks, Sessions!Init
  <1> QED
    BY <1>3, <1>5, <1>6, <1>7, <1>8 DEF SessionsInv

\* CLOSE_SESSION, CLOSE_DEVICE and a client that died.
LEMMA ClosingKeeps ==
    ASSUME Peaceful, SessionsInv,
           NEW c, Sessions!Close(c) \/ \E s \in TrustletIds : Sessions!CloseSession(c, s)
    PROVE  SessionsInv'
  <1>1. /\ command = Sessions!NoCommand /\ command.at = Sessions!None /\ Answered = {}
        /\ sessionIrq.at = "idle" /\ Sessions!None = "none"
    <2>1. Sessions!Quiet /\ command = Sessions!NoCommand
      BY Zenon DEF Sessions!Close, Sessions!CloseSession, Sessions!Command, Sessions!Free
    <2>2. sessionIrq.at = "idle"
      BY <2>1, Zenon DEF Peaceful, Sessions!Quiet
    <2> QED
      BY <2>1, <2>2 DEF Sessions!NoCommand, Answered, Sessions!None
  <1>2. /\ UNCHANGED <<unknown, command, sessionIrq, sessionFault, notifications, sent, got>>
        /\ Answered' = {}
    BY <1>1 DEF Sessions!Close, Sessions!CloseSession, Answered
  <1>3. ASSUME NEW S, Sessions!RemoveSessions(S), S \subseteq Sessions!Known, ~ sessionFault,
               device' \subseteq device,
               \A s \in Sessions!Known \ S : session[s].owner \in device'
        PROVE  SessionsInv'
    <2>1. /\ list' \in Seq(TrustletIds) /\ NoneTwice(list')
          /\ Sessions!Known' = Sessions!Known \ S
          /\ \A s \in Sessions!Known' : session'[s] = session[s]
          /\ session' \in [TrustletIds -> SessionRecord]
          /\ locked' \subseteq Handles /\ Locks'
          /\ secureWorld' = Sessions!Known'
      BY <1>1, <1>2, <1>3, RemovalKeeps DEF SessionsInv
    <2>2. SessionTypes'
      BY <1>2, <1>3, <2>1, KnownAreIds DEF SessionsInv, SessionTypes
    <2>3. CommandGoes' /\ Interrupt'
      BY <1>1, <1>2, <2>1 DEF CommandGoes, Interrupt
    <2>4. OwnersApart'
      BY <1>2, <1>3, <2>1 DEF SessionsInv, OwnersApart, NoneTwice
    <2>5. OnTheWay'
      BY <1>1, <1>2, <2>1, NotificationsStay DEF SessionsInv
    <2> QED
      BY <2>1, <2>2, <2>3, <2>4, <2>5 DEF SessionsInv
  <1>4. CASE \E s \in TrustletIds : Sessions!CloseSession(c, s)
    <2>1. PICK s \in TrustletIds : Sessions!CloseSession(c, s)
      BY <1>4
    <2>2. /\ Sessions!RemoveSessions({s}) /\ s \in Sessions!Known /\ ~ sessionFault
          /\ device' = device
      BY <2>1 DEF Sessions!CloseSession, Sessions!OwnedBy, Sessions!Command, Sessions!Free
    <2> QED
      BY <1>3, <2>2 DEF SessionsInv, OwnersApart
  <1>5. CASE Sessions!Close(c) /\ ~ sessionFault
    <2>1. Sessions!RemoveSessions(Sessions!Reached(c)) /\ device' = device \ {c}
      BY <1>5 DEF Sessions!Close
    <2>2. Sessions!Reached(c) = Sessions!OwnedBy(c)
      BY ReachedIsOwned DEF SessionsInv, SessionTypes, OwnersApart, NoneTwice
    <2> QED
      BY <1>3, <1>5, <2>1, <2>2 DEF SessionsInv, OwnersApart, Sessions!OwnedBy
  <1>6. CASE Sessions!Close(c) /\ sessionFault
    <2>1. UNCHANGED <<list, session, locked, secureWorld>> /\ device' = device \ {c}
      BY <1>6 DEF Sessions!Close
    <2>2. Sessions!Known' = Sessions!Known
      BY <2>1 DEF Sessions!Known
    <2>3. SessionTypes'
      BY <1>2, <2>1 DEF SessionsInv, SessionTypes
    <2>4. CommandGoes' /\ Interrupt'
      BY <1>1, <1>2, <2>2 DEF CommandGoes, Interrupt
    <2>5. OwnersApart'
      BY <1>2, <1>6, <2>1, <2>2 DEF SessionsInv, OwnersApart
    <2>6. OnTheWay'
      BY <1>1, <1>2, <2>1, <2>2, NotificationsStay DEF SessionsInv
    <2>7. Locks'
      BY <1>2, <2>1, <2>2 DEF SessionsInv, Locks, Opening
    <2> QED
      BY <2>3, <2>4, <2>5, <2>6, <2>7 DEF SessionsInv
  <1> QED
    BY <1>4, <1>5, <1>6

\* Commands wait for the interrupt thread.
LEMMA WhenFree ==
    ASSUME Peaceful, Sessions!Free
    PROVE  /\ command = Sessions!NoCommand /\ command.at = "none" /\ Answered = {}
           /\ sessionIrq.at = "idle" /\ ~ sessionFault
  <1>1. command = Sessions!NoCommand /\ ~ sessionFault /\ sessionIrq.at = "idle"
    BY Zenon DEF Peaceful, Sessions!Free, Sessions!Quiet
  <1> QED
    BY <1>1 DEF Sessions!NoCommand, Sessions!None, Answered

\* A list and owners that stay.
LEMMA SameSessions ==
    ASSUME SessionTypes, UNCHANGED list
    PROVE  Sessions!Known' = Sessions!Known /\ Sessions!Known \subseteq TrustletIds
  BY KnownAreIds DEF Sessions!Known

LEMMA SameCardinality == \A S : Sessions!Cardinality(S) = Cardinality(S)
  BY Zenon DEF Sessions!Cardinality, Cardinality

LEMMA OpenDeviceKeeps ==
    ASSUME Peaceful, SessionsInv, NEW c \in Connections, Sessions!OpenDevice(c)
    PROVE  SessionsInv'
  <1>1. /\ command.at = "none" /\ sessionIrq.at = "idle" /\ ~ sessionFault
        /\ command = Sessions!NoCommand /\ Answered = {}
    BY WhenFree DEF Sessions!OpenDevice
  <1>2. /\ UNCHANGED <<list, session, unknown, locked, command, sessionIrq, sessionFault,
                       got, secureWorld, notifications, sent>>
        /\ device' = device \cup {c}
    BY DEF Sessions!OpenDevice, Sessions!worldVars
  <1>3. Sessions!Known' = Sessions!Known /\ Answered' = {}
    BY <1>1, <1>2, SameSessions DEF SessionsInv, Answered
  <1>4. SessionTypes'
    BY <1>2 DEF SessionsInv, SessionTypes
  <1>5. CommandGoes' /\ Interrupt'
    BY <1>1, <1>2, <1>3 DEF CommandGoes, Interrupt, Sessions!None
  <1>6. OwnersApart'
    BY <1>1, <1>2, <1>3 DEF SessionsInv, OwnersApart
  <1>7. OnTheWay'
    BY <1>1, <1>2, <1>3, NotificationsStay DEF SessionsInv
  <1>8. Locks'
    BY <1>2, <1>3 DEF SessionsInv, Locks, Opening
  <1> QED
    BY <1>4, <1>5, <1>6, <1>7, <1>8 DEF SessionsInv

\* Of a client that owns no session: PerClient.
LEMMA OwnsNone ==
    ASSUME Peaceful, SessionTypes, NEW c, Cardinality(Sessions!OwnedBy(c)) < PerClient
    PROVE  Sessions!OwnedBy(c) = {}
  <1> DEFINE at == [i \in 1 .. Len(list) |-> list[i]]
  <1>1. Len(list) \in Nat
    BY LenProperties DEF SessionTypes
  <1>2. at \in Surjection(1 .. Len(list), Sessions!Known)
    BY DEF Surjection, Sessions!Known
  <1>3. IsFiniteSet(1 .. Len(list))
    <2>1. 1 \in Int /\ Len(list) \in Int
      BY <1>1
    <2> QED
      BY <2>1, FS_Interval
  <1> HIDE DEF at
  <1>4. IsFiniteSet(Sessions!Known)
    BY <1>2, <1>3, FS_Surjection
  <1>5. IsFiniteSet(Sessions!OwnedBy(c))
    BY <1>4, FS_Subset DEF Sessions!OwnedBy
  <1>6. Cardinality(Sessions!OwnedBy(c)) \in Nat
    BY <1>5, FS_CardinalityType
  <1> QED
    BY <1>5, <1>6, FS_EmptySet DEF Peaceful

LEMMA OpenSessionKeeps ==
    ASSUME Peaceful, SessionsInv, NEW c \in Connections, NEW h \in Handles,
           Sessions!OpenSession(c, h)
    PROVE  SessionsInv'
  <1>1. /\ command.at = "none" /\ sessionIrq.at = "idle" /\ ~ sessionFault
        /\ command = Sessions!NoCommand /\ Answered = {}
    BY WhenFree DEF Sessions!OpenSession, Sessions!Command
  <1>2. /\ UNCHANGED <<device, list, session, sessionIrq, sessionFault, got, secureWorld,
                       notifications, sent>>
        /\ locked' = locked \cup {h} /\ unknown' = <<>> /\ c \in device
        /\ command' = [Sessions!NoCommand EXCEPT !.at = "sent", !.client = c, !.handle = h]
    BY DEF Sessions!OpenSession, Sessions!worldVars, Sessions!Command
  <1>3. /\ command'.at = "sent" /\ command'.client = c /\ command'.handle = h
        /\ command' \in [at : {Sessions!None, "sent", "answered", "drain"},
                         client : Connections \cup {Sessions!None},
                         handle : Handles \cup {Sessions!None}, of : TrustletIds \cup {0}]
        /\ Answered' = {}
    BY <1>2 DEF Sessions!NoCommand, Sessions!None, Answered
  <1>4. Sessions!Known' = Sessions!Known
    BY <1>2, SameSessions DEF SessionsInv
  <1>5. Sessions!OwnedBy(c) = {}
    <2>1. Cardinality(Sessions!OwnedBy(c)) < PerClient
      BY SameCardinality, Zenon DEF Sessions!OpenSession
    <2> QED
      BY <2>1, OwnsNone DEF SessionsInv
  <1>6. Sessions!OwnedBy(c)' = {}
    BY <1>2, <1>4, <1>5 DEF Sessions!OwnedBy
  <1>7. SessionTypes'
    BY <1>2, <1>3 DEF SessionsInv, SessionTypes
  <1>8. CommandGoes' /\ Interrupt'
    BY <1>1, <1>2, <1>3, <1>4, <1>6 DEF CommandGoes, Interrupt, Sessions!None, Sessions!OwnedBy
  <1>9. OwnersApart'
    BY <1>1, <1>2, <1>3, <1>4 DEF SessionsInv, OwnersApart
  <1>10. OnTheWay'
    BY <1>1, <1>2, <1>3, <1>4, NotificationsStay DEF SessionsInv
  <1>11. Locks'
    BY <1>1, <1>2, <1>3, <1>4 DEF SessionsInv, Locks, Opening
  <1> QED
    BY <1>7, <1>8, <1>9, <1>10, <1>11 DEF SessionsInv

LEMMA OpenRefusedKeeps ==
    ASSUME Peaceful, SessionsInv, Sessions!OpenRefused
    PROVE  SessionsInv'
  <1>1. sessionIrq.at = "idle" /\ command.at = "sent" /\ Answered = {} /\ ~ sessionFault
    BY Zenon DEF Peaceful, Sessions!OpenRefused, Sessions!Quiet, Answered, SessionsInv,
       CommandGoes, Sessions!None
  <1>2. /\ UNCHANGED <<device, list, session, unknown, sessionIrq, got, secureWorld,
                       notifications, sent>>
        /\ locked' = locked \ {command.handle} /\ sessionFault' \in BOOLEAN
        /\ command' = Sessions!NoCommand
    BY DEF Sessions!OpenRefused, Sessions!worldVars
  <1>3. /\ command'.at = "none" /\ Answered' = {}
        /\ command' \in [at : {Sessions!None, "sent", "answered", "drain"},
                         client : Connections \cup {Sessions!None},
                         handle : Handles \cup {Sessions!None}, of : TrustletIds \cup {0}]
    BY <1>2 DEF Sessions!NoCommand, Sessions!None, Answered
  <1>4. Sessions!Known' = Sessions!Known
    BY <1>2, SameSessions DEF SessionsInv
  <1>5. SessionTypes'
    BY <1>2, <1>3 DEF SessionsInv, SessionTypes
  <1>6. CommandGoes' /\ Interrupt'
    BY <1>1, <1>2, <1>3, <1>4 DEF CommandGoes, Interrupt, Sessions!None
  <1>7. OwnersApart'
    BY <1>1, <1>2, <1>3, <1>4 DEF SessionsInv, OwnersApart
  <1>8. OnTheWay'
    BY <1>1, <1>2, <1>3, <1>4, NotificationsStay DEF SessionsInv
  <1>9. Locks'
    BY <1>1, <1>2, <1>3, <1>4 DEF SessionsInv, Locks, Opening
  <1> QED
    BY <1>5, <1>6, <1>7, <1>8, <1>9 DEF SessionsInv

\* MapBulk and UnmapBulk: the session's buffers change, or the locks.
LEMMA BulkKeeps ==
    ASSUME Peaceful, SessionsInv, NEW c \in Connections, NEW s \in TrustletIds,
           NEW h \in Handles, Sessions!MapBulk(c, s, h) \/ Sessions!UnmapBulk(c, s, h)
    PROVE  SessionsInv'
  <1>1. /\ command.at = "none" /\ sessionIrq.at = "idle" /\ ~ sessionFault
        /\ command = Sessions!NoCommand /\ Answered = {}
    BY WhenFree DEF Sessions!MapBulk, Sessions!UnmapBulk, Sessions!Command
  <1>2. UNCHANGED <<device, list, unknown, command, sessionIrq, sessionFault, got,
                    secureWorld, notifications, sent>>
    BY DEF Sessions!MapBulk, Sessions!UnmapBulk, Sessions!worldVars
  <1>3. Sessions!Known' = Sessions!Known /\ Sessions!Known \subseteq TrustletIds
        /\ Answered' = {} /\ Opening' = Opening
    BY <1>1, <1>2, SameSessions DEF SessionsInv, Answered, Opening
  <1>4. /\ locked' \subseteq Handles /\ session' \in [TrustletIds -> SessionRecord]
        /\ \A t \in TrustletIds : /\ session'[t].owner = session[t].owner
                                  /\ session'[t].queue = session[t].queue
                                  /\ session'[t].connected = session[t].connected
                                  /\ session[t].buffers \subseteq session'[t].buffers
    <2>1. CASE Sessions!MapBulk(c, s, h)
      <3>1. /\ session' = [session EXCEPT ![s].buffers = @ \cup {h}]
            /\ locked' = locked \cup {h}
        BY <2>1 DEF Sessions!MapBulk
      <3>2. session \in [TrustletIds -> SessionRecord] /\ locked \subseteq Handles
        BY DEF SessionsInv, SessionTypes
      <3> QED
        BY <3>1, <3>2 DEF SessionRecord
    <2>2. CASE Sessions!UnmapBulk(c, s, h)
      BY <2>2 DEF Sessions!UnmapBulk, SessionsInv, SessionTypes
    <2> QED
      BY <2>1, <2>2
  <1>5. locked' \subseteq Opening' \cup UNION {session'[t].buffers : t \in Sessions!Known'}
    <2>1. ASSUME NEW b \in locked
          PROVE  b \in Opening \/ \E t \in Sessions!Known : b \in session[t].buffers
      BY DEF SessionsInv, Locks
    <2>2. \A b \in locked : b \in Opening' \/ \E t \in Sessions!Known' : b \in session'[t].buffers
      BY <1>3, <1>4, <2>1
    <2>3. CASE Sessions!MapBulk(c, s, h)
      <3>1. /\ session' = [session EXCEPT ![s].buffers = @ \cup {h}]
            /\ locked' = locked \cup {h} /\ s \in Sessions!Known'
        BY <1>3, <2>3 DEF Sessions!MapBulk, Sessions!OwnedBy
      <3>2. h \in session'[s].buffers
        BY <3>1 DEF SessionsInv, SessionTypes
      <3> QED
        BY <2>2, <3>1, <3>2
    <2>4. CASE Sessions!UnmapBulk(c, s, h)
      <3>1. locked' \subseteq locked
        BY <2>4 DEF Sessions!UnmapBulk
      <3> QED
        BY <2>2, <3>1
    <2> QED
      BY <2>3, <2>4
  <1>6. SessionTypes'
    BY <1>2, <1>4 DEF SessionsInv, SessionTypes
  <1>7. CommandGoes' /\ Interrupt'
    BY <1>1, <1>2, <1>3, <1>4 DEF CommandGoes, Interrupt, Sessions!None, SessionsInv
  <1>8. OwnersApart'
    BY <1>1, <1>2, <1>3, <1>4 DEF SessionsInv, OwnersApart
  <1>9. OnTheWay'
    BY <1>1, <1>2, <1>3, <1>4, NotificationsStay DEF SessionsInv
  <1> QED
    BY <1>5, <1>6, <1>7, <1>8, <1>9 DEF SessionsInv, Locks

\* The session is new to the list, and so is its owner.
LEMMA OpenedKeeps ==
    ASSUME Peaceful, SessionsInv, Sessions!Opened
    PROVE  SessionsInv'
  <1> DEFINE s == command.of
             new == Sessions!NewSession(command.client, command.handle, unknown)
  <1>1. /\ sessionIrq.at = "idle" /\ command.at = "answered" /\ Answered = {s}
        /\ ~ sessionFault
    BY Zenon DEF Peaceful, Sessions!Opened, Sessions!Quiet, Answered, SessionsInv,
       CommandGoes, Sessions!None
  <1>2. /\ s \in TrustletIds /\ s \notin Sessions!Known /\ command.client \in device
        /\ Sessions!OwnedBy(command.client) = {}
    BY <1>1 DEF SessionsInv, CommandGoes
  <1>3. /\ UNCHANGED <<device, locked, sessionIrq, sessionFault, got, secureWorld,
                       notifications, sent>>
        /\ list' = Append(list, s) /\ session' = [session EXCEPT ![s] = new]
        /\ unknown' = <<>> /\ command' = Sessions!NoCommand
    BY DEF Sessions!Opened, Sessions!worldVars
  <1>4. list \in Seq(TrustletIds) /\ NoneTwice(list) /\ s \notin In(list)
    BY <1>2, KnownAreIds DEF SessionsInv, SessionTypes, OwnersApart, NoneTwice
  <1>5. /\ list' \in Seq(TrustletIds) /\ NoneTwice(list') /\ In(list') = In(list) \cup {s}
    BY <1>2, <1>3, <1>4, AppendOnce
  <1>6. Sessions!Known' = Sessions!Known \cup {s} /\ Sessions!Known \subseteq TrustletIds
    BY <1>5, KnownAreIds DEF SessionsInv, Sessions!Known, In
  <1>7. /\ command'.at = "none" /\ Answered' = {} /\ Opening' = {} /\ Opening = {command.handle}
        /\ command' \in [at : {Sessions!None, "sent", "answered", "drain"},
                         client : Connections \cup {Sessions!None},
                         handle : Handles \cup {Sessions!None}, of : TrustletIds \cup {0}]
    BY <1>1, <1>3 DEF Sessions!NoCommand, Sessions!None, Answered, Opening
  <1>8. /\ new \in SessionRecord /\ new.owner = command.client /\ new.buffers = {command.handle}
        /\ new.queue = unknown /\ new.connected = FALSE
    BY DEF Sessions!NewSession, SessionRecord, SessionsInv, SessionTypes
  <1> HIDE DEF new, s
  <1>9. session'[s] = new /\ \A t \in TrustletIds \ {s} : session'[t] = session[t]
    <2>1. session \in [TrustletIds -> SessionRecord]
      BY DEF SessionsInv, SessionTypes
    <2>2. s \in TrustletIds /\ session' = [session EXCEPT ![s] = new]
      BY <1>2, <1>3
    <2> QED
      BY ONLY <2>1, <2>2
  <1>10. SessionTypes'
    <2>1. session' \in [TrustletIds -> SessionRecord]
      BY <1>3, <1>8 DEF SessionsInv, SessionTypes
    <2>2. SessionTypes /\ <<>> \in Seq(TrustletIds)
      BY DEF SessionsInv
    <2> QED
      BY ONLY <1>3, <1>5, <1>7, <2>1, <2>2 DEF SessionTypes
  <1>11. CommandGoes' /\ Interrupt'
    BY <1>1, <1>3, <1>6, <1>7 DEF CommandGoes, Interrupt, Sessions!None, SessionsInv
  <1>12. OwnersApart'
    <2>1. \A t \in Sessions!Known : t # s /\ session'[t] = session[t]
                                    /\ session[t].owner # command.client
      BY <1>2, <1>6, <1>9 DEF Sessions!OwnedBy
    <2>2. \A t, u \in Sessions!Known' : session'[t].owner = session'[u].owner => t = u
      BY <1>6, <1>8, <1>9, <2>1 DEF SessionsInv, OwnersApart
    <2>3. secureWorld' = Sessions!Known'
      BY <1>1, <1>3, <1>6 DEF SessionsInv, OwnersApart
    <2>4. \A t \in Sessions!Known' : session'[t].owner \in device'
      BY <1>1, <1>2, <1>3, <1>6, <1>8, <1>9, <2>1 DEF SessionsInv, OwnersApart
    <2> QED
      BY <1>5, <1>7, <2>2, <2>3, <2>4 DEF OwnersApart, NoneTwice
  <1>13. OnTheWay'
    <2>1. ASSUME NEW t \in Sessions!Known'
          PROVE  /\ sent'[t] <= Of(t, got'[t]) + Of(t, notifications') + Kept(t)' + InHand(t)'
                 /\ session'[t].connected => session'[t].queue = <<>>
      <3>1. InHand(t) = 0 /\ InHand(t)' = 0
        BY <1>1, <1>3 DEF InHand
      <3>2. Kept(t)' = Of(t, session'[t].queue)
        BY <2>1, Zenon DEF Kept
      <3>3. Kept(t) = Of(t, IF t \in Sessions!Known THEN session[t].queue ELSE unknown)
        BY DEF Kept
      <3>4. sent[t] <= Of(t, got[t]) + Of(t, notifications) + Kept(t) + InHand(t)
        BY <1>1, <1>6, <2>1 DEF SessionsInv, OnTheWay
      <3>5. CASE t = s
        <4>1. Kept(t)' = Kept(t)
          BY <1>2, <1>8, <1>9, <3>2, <3>3, <3>5, Zenon
        <4> QED
          BY <1>3, <1>8, <1>9, <3>1, <3>4, <3>5, <4>1
      <3>6. CASE t # s
        <4>1. t \in Sessions!Known /\ session'[t] = session[t]
          BY <1>6, <1>9, <2>1, <3>6
        <4>2. Kept(t)' = Kept(t)
          BY <3>2, <3>3, <4>1, Zenon
        <4>3. session[t].connected => session[t].queue = <<>>
          BY <1>1, <4>1 DEF SessionsInv, OnTheWay
        <4> QED
          BY <1>3, <3>1, <3>4, <4>1, <4>2, <4>3
      <3> QED
        BY <3>5, <3>6
    <2> QED
      BY <1>7, <2>1 DEF OnTheWay
  <1>14. Locks'
    <2>1. ASSUME NEW h \in locked
          PROVE  h = command.handle \/ \E t \in Sessions!Known : h \in session[t].buffers
      BY <1>7 DEF SessionsInv, Locks
    <2>2. \A t \in Sessions!Known : t \in Sessions!Known' /\ session'[t] = session[t]
      BY <1>2, <1>6, <1>9
    <2>3. command.handle \in session'[s].buffers /\ s \in Sessions!Known'
      BY <1>6, <1>8, <1>9
    <2>4. \A h \in locked : \E t \in Sessions!Known' : h \in session'[t].buffers
      BY <2>1, <2>2, <2>3
    <2> QED
      BY <1>3, <2>4 DEF Locks
  <1> QED
    BY <1>10, <1>11, <1>12, <1>13, <1>14 DEF SessionsInv

LEMMA NothingYet == \E nil \in Seq(TrustletIds) : nil = <<>>
  <1>1. <<>> \in Seq(TrustletIds)
    OBVIOUS
  <1> QED
    BY <1>1, Zenon

LEMMA NqConnectKeeps ==
    ASSUME Peaceful, SessionsInv, NEW s \in TrustletIds, Sessions!NqConnect(s)
    PROVE  SessionsInv'
  <1>1. /\ command.at = "none" /\ sessionIrq.at = "idle" /\ ~ sessionFault
        /\ command = Sessions!NoCommand /\ Answered = {}
    BY WhenFree DEF Sessions!NqConnect
  <1>2. /\ UNCHANGED <<device, list, unknown, locked, sessionIrq, sessionFault, got,
                       secureWorld, notifications, sent>>
        /\ session' = [session EXCEPT ![s].connected = TRUE] /\ s \in Sessions!Known
        /\ command' = [Sessions!NoCommand EXCEPT !.at = "drain", !.of = s]
    BY DEF Sessions!NqConnect, Sessions!worldVars
  <1>3. /\ command'.at = "drain" /\ command'.of = s /\ Answered' = {} /\ Opening' = Opening
        /\ command' \in [at : {Sessions!None, "sent", "answered", "drain"},
                         client : Connections \cup {Sessions!None},
                         handle : Handles \cup {Sessions!None}, of : TrustletIds \cup {0}]
    BY <1>1, <1>2 DEF Sessions!NoCommand, Sessions!None, Answered, Opening
  <1>4. Sessions!Known' = Sessions!Known /\ Sessions!Known \subseteq TrustletIds
    BY <1>2, SameSessions DEF SessionsInv
  <1>5. /\ session' \in [TrustletIds -> SessionRecord] /\ session'[s].connected
        /\ \A t \in TrustletIds : /\ session'[t].owner = session[t].owner
                                  /\ session'[t].queue = session[t].queue
                                  /\ session'[t].buffers = session[t].buffers
                                  /\ t # s => session'[t].connected = session[t].connected
    <2>1. session \in [TrustletIds -> SessionRecord]
      BY DEF SessionsInv, SessionTypes
    <2> QED
      BY <1>2, <2>1 DEF SessionRecord
  <1>6. SessionTypes'
    BY <1>2, <1>3, <1>5 DEF SessionsInv, SessionTypes
  <1>7. CommandGoes' /\ Interrupt'
    BY <1>1, <1>2, <1>3, <1>4, <1>5 DEF CommandGoes, Interrupt, Sessions!None
  <1>8. OwnersApart'
    BY <1>1, <1>2, <1>3, <1>4, <1>5 DEF SessionsInv, OwnersApart
  <1>9. OnTheWay'
    <2>1. ASSUME NEW t \in Sessions!Known'
          PROVE  /\ sent'[t] <= Of(t, got'[t]) + Of(t, notifications') + Kept(t)' + InHand(t)'
                 /\ session'[t].connected => \/ session'[t].queue = <<>>
                                             \/ command'.at = "drain" /\ command'.of = t
      <3>1. InHand(t) = 0 /\ InHand(t)' = 0 /\ t \in Sessions!Known /\ t \in TrustletIds
        BY <1>1, <1>2, <1>4, <2>1 DEF InHand
      <3>2. Kept(t)' = Of(t, session'[t].queue) /\ Kept(t) = Of(t, session[t].queue)
        BY <2>1, <3>1, Zenon DEF Kept
      <3>3. sent[t] <= Of(t, got[t]) + Of(t, notifications) + Kept(t) + InHand(t)
        BY <3>1 DEF SessionsInv, OnTheWay
      <3>4. session[t].connected => session[t].queue = <<>>
        BY <1>1, <3>1 DEF SessionsInv, OnTheWay
      <3> QED
        BY <1>2, <1>3, <1>5, <3>1, <3>2, <3>3, <3>4
    <2> QED
      BY <1>3, <2>1 DEF OnTheWay
  <1>10. Locks'
    <2>1. UNION {session'[t].buffers : t \in Sessions!Known'}
             = UNION {session[t].buffers : t \in Sessions!Known}
      BY <1>4, <1>5
    <2> QED
      BY <1>2, <1>3, <2>1 DEF SessionsInv, Locks
  <1> QED
    BY <1>6, <1>7, <1>8, <1>9, <1>10 DEF SessionsInv

\* What the session kept goes to its client.
LEMMA DrainKeeps ==
    ASSUME Peaceful, SessionsInv, Sessions!ProcessQueuedNotifications
    PROVE  SessionsInv'
  <1> DEFINE s == command.of
  <1>1. /\ sessionIrq.at = "idle" /\ command.at = "drain" /\ Answered = {} /\ ~ sessionFault
        /\ s \in Sessions!Known /\ Opening = {}
    BY Zenon DEF Peaceful, Sessions!ProcessQueuedNotifications, Sessions!Quiet, Answered,
       SessionsInv, CommandGoes, Sessions!None, Opening
  <1>2. /\ UNCHANGED <<device, list, unknown, locked, sessionIrq, sessionFault,
                       secureWorld, notifications, sent>>
        /\ got' = [got EXCEPT ![s] = @ \o session[s].queue]
        /\ session' = [session EXCEPT ![s].queue = <<>>]
        /\ command' = Sessions!NoCommand
    BY DEF Sessions!ProcessQueuedNotifications, Sessions!worldVars
  <1>3. /\ command'.at = "none" /\ Answered' = {} /\ Opening' = {}
        /\ command' \in [at : {Sessions!None, "sent", "answered", "drain"},
                         client : Connections \cup {Sessions!None},
                         handle : Handles \cup {Sessions!None}, of : TrustletIds \cup {0}]
    BY <1>2 DEF Sessions!NoCommand, Sessions!None, Answered, Opening
  <1>4. /\ Sessions!Known' = Sessions!Known /\ Sessions!Known \subseteq TrustletIds
        /\ s \in TrustletIds
    BY <1>1, <1>2, SameSessions DEF SessionsInv
  <1>5. /\ session \in [TrustletIds -> SessionRecord]
        /\ got \in [TrustletIds -> Seq(TrustletIds)] /\ session[s].queue \in Seq(TrustletIds)
        /\ got[s] \in Seq(TrustletIds)
    BY <1>4 DEF SessionsInv, SessionTypes, SessionRecord
  <1> HIDE DEF s
  <1>6. /\ session' \in [TrustletIds -> SessionRecord] /\ session'[s].queue = <<>>
        /\ \A t \in TrustletIds : /\ session'[t].owner = session[t].owner
                                  /\ session'[t].connected = session[t].connected
                                  /\ session'[t].buffers = session[t].buffers
                                  /\ t # s => session'[t].queue = session[t].queue
    <2>1. PICK nil \in Seq(TrustletIds) : nil = <<>>
      BY NothingYet
    <2>2. session' = [session EXCEPT ![s].queue = nil]
      BY <1>2, <2>1, Zenon
    <2>3. /\ session' \in [TrustletIds -> SessionRecord] /\ session'[s].queue = nil
          /\ \A t \in TrustletIds : /\ session'[t].owner = session[t].owner
                                    /\ session'[t].connected = session[t].connected
                                    /\ session'[t].buffers = session[t].buffers
                                    /\ t # s => session'[t].queue = session[t].queue
      BY <1>4, <1>5, <2>2 DEF SessionRecord
    <2> QED
      BY <2>1, <2>3, Zenon
  <1>7. /\ got' \in [TrustletIds -> Seq(TrustletIds)]
        /\ got'[s] = got[s] \o session[s].queue
        /\ \A t \in TrustletIds : t # s => got'[t] = got[t]
    <2>1. got[s] \o session[s].queue \in Seq(TrustletIds)
      BY <1>5, ConcatProperties
    <2> QED
      BY <1>2, <1>4, <1>5, <2>1
  <1>8. SessionTypes'
    BY <1>2, <1>3, <1>6, <1>7 DEF SessionsInv, SessionTypes
  <1>9. CommandGoes' /\ Interrupt'
    BY <1>1, <1>2, <1>3, <1>4 DEF CommandGoes, Interrupt, Sessions!None
  <1>10. OwnersApart'
    BY <1>1, <1>2, <1>3, <1>4, <1>6 DEF SessionsInv, OwnersApart
  <1>11. OnTheWay'
    <2>1. ASSUME NEW t \in Sessions!Known'
          PROVE  /\ sent'[t] <= Of(t, got'[t]) + Of(t, notifications') + Kept(t)' + InHand(t)'
                 /\ session'[t].connected => session'[t].queue = <<>>
      <3>1. InHand(t) = 0 /\ InHand(t)' = 0 /\ t \in Sessions!Known /\ t \in TrustletIds
        BY <1>1, <1>2, <1>4, <2>1 DEF InHand
      <3>2. Kept(t)' = Of(t, session'[t].queue) /\ Kept(t) = Of(t, session[t].queue)
        BY <2>1, <3>1, Zenon DEF Kept
      <3>3. sent[t] <= Of(t, got[t]) + Of(t, notifications) + Kept(t) + InHand(t)
        BY <3>1 DEF SessionsInv, OnTheWay
      <3>4. CASE t = s
        <4>1. Of(t, got'[t]) = Of(t, got[t]) + Kept(t)
          <5>1. Of(t, got[s] \o session[s].queue) = Of(t, got[s]) + Of(t, session[s].queue)
            BY <1>5, OfConcat
          <5> QED
            BY <1>7, <3>2, <3>4, <5>1
        <4>2. Kept(t)' = 0
          BY <1>6, <3>2, <3>4, OfEmpty
        <4>3. session'[t].queue = <<>>
          BY <1>6, <3>4
        <4>4. Of(t, got[t]) \in Nat /\ Kept(t) \in Nat /\ Of(t, notifications) \in Nat
          BY <3>1, CountsAreNat DEF SessionsInv
        <4> QED
          BY <1>2, <3>1, <3>3, <4>1, <4>2, <4>3, <4>4
      <3>5. CASE t # s
        <4>1. session[t].connected => session[t].queue = <<>>
          BY <3>1, <3>5 DEF SessionsInv, OnTheWay, s
        <4> QED
          BY <1>2, <1>6, <1>7, <3>1, <3>2, <3>3, <3>5, <4>1
      <3> QED
        BY <3>4, <3>5
    <2> QED
      BY <1>3, <2>1 DEF OnTheWay
  <1>12. Locks'
    <2>1. UNION {session'[t].buffers : t \in Sessions!Known'}
             = UNION {session[t].buffers : t \in Sessions!Known}
      BY <1>4, <1>6
    <2> QED
      BY <1>1, <1>2, <1>3, <2>1 DEF SessionsInv, Locks
  <1> QED
    BY <1>8, <1>9, <1>10, <1>11, <1>12 DEF SessionsInv

-----------------------------------------------------------------------------
(* The secure world.                                                         *)

LEMMA SendNotificationKeeps ==
    ASSUME Peaceful, SessionsInv, NEW s \in TrustletIds, Sessions!SendNotification(s)
    PROVE  SessionsInv'
  <1>1. /\ UNCHANGED <<device, list, session, unknown, locked, command, sessionIrq,
                       sessionFault, secureWorld, got>>
        /\ sent' = [sent EXCEPT ![s] = @ + 1] /\ notifications' = Append(notifications, s)
    BY DEF Sessions!SendNotification
  <1>2. sessionIrq.at = "idle"
    BY Zenon DEF Peaceful, Sessions!SendNotification, Sessions!Quiet
  <1>3. /\ Sessions!Known' = Sessions!Known /\ Sessions!Known \subseteq TrustletIds
        /\ Answered' = Answered /\ Opening' = Opening
    BY <1>1, SameSessions DEF SessionsInv, Answered, Opening
  <1>4. SessionTypes'
    <2>1. notifications' \in Seq(TrustletIds)
      BY <1>1, AppendProperties DEF SessionsInv, SessionTypes
    <2> QED
      BY <1>1, <2>1 DEF SessionsInv, SessionTypes
  <1>5. CommandGoes' /\ Interrupt' /\ OwnersApart'
    BY <1>1, <1>2, <1>3 DEF SessionsInv, CommandGoes, Interrupt, OwnersApart, Sessions!OwnedBy
  <1>6. OnTheWay'
    <2>1. ASSUME NEW t \in Sessions!Known \cup Answered
          PROVE  sent'[t] <= Of(t, got'[t]) + Of(t, notifications') + Kept(t)' + InHand(t)'
      <3>1. t \in TrustletIds
        BY <1>3, <2>1 DEF SessionsInv, CommandGoes
      <3>2. Kept(t)' = Kept(t) /\ InHand(t)' = InHand(t)
        BY <1>1, <1>3, Zenon DEF Kept, InHand
      <3>3. sent[t] <= Of(t, got[t]) + Of(t, notifications) + Kept(t) + InHand(t)
        BY <2>1 DEF SessionsInv, OnTheWay
      <3>4. Of(t, notifications') = Of(t, notifications) + IF s = t THEN 1 ELSE 0
        BY <1>1, OfAppend DEF SessionsInv, SessionTypes
      <3>5. sent'[t] = sent[t] + IF s = t THEN 1 ELSE 0
        BY <1>1, <3>1 DEF SessionsInv, SessionTypes
      <3>6. /\ Of(t, got[t]) \in Nat /\ Of(t, notifications) \in Nat /\ Kept(t) \in Nat
            /\ InHand(t) \in {0, 1} /\ sent[t] \in Nat
        BY <3>1, CountsAreNat DEF SessionsInv
      <3> QED
        BY <1>1, <3>2, <3>3, <3>4, <3>5, <3>6
    <2> QED
      BY <1>1, <1>3, <2>1 DEF SessionsInv, OnTheWay
  <1>7. Locks'
    BY <1>1, <1>3 DEF SessionsInv, Locks
  <1> QED
    BY <1>4, <1>5, <1>6, <1>7 DEF SessionsInv

LEMMA WorldOpensKeeps ==
    ASSUME Peaceful, SessionsInv, NEW s \in TrustletIds, Sessions!WorldOpens(s)
    PROVE  SessionsInv'
  <1>1. /\ UNCHANGED <<device, list, session, unknown, locked, sessionIrq, sessionFault,
                       notifications>>
        /\ secureWorld' = secureWorld \cup {s} /\ s \notin secureWorld
        /\ sent' = [sent EXCEPT ![s] = 0] /\ got' = [got EXCEPT ![s] = <<>>]
        /\ command' = [command EXCEPT !.at = "answered", !.of = s]
    BY DEF Sessions!WorldOpens
  <1>2. sessionIrq.at = "idle" /\ command.at = "sent" /\ Answered = {} /\ ~ sessionFault
    BY Zenon DEF Peaceful, Sessions!WorldOpens, Sessions!Quiet, Answered, SessionsInv,
       CommandGoes, Sessions!None
  <1>3. /\ command'.at = "answered" /\ command'.of = s /\ command'.client = command.client
        /\ Answered' = {s} /\ Opening' = Opening
        /\ command' \in [at : {Sessions!None, "sent", "answered", "drain"},
                         client : Connections \cup {Sessions!None},
                         handle : Handles \cup {Sessions!None}, of : TrustletIds \cup {0}]
    BY <1>1, <1>2 DEF SessionsInv, SessionTypes, Answered, Opening
  <1>4. /\ Sessions!Known' = Sessions!Known /\ Sessions!Known \subseteq TrustletIds
        /\ secureWorld = Sessions!Known
    BY <1>1, <1>2, SameSessions DEF SessionsInv, OwnersApart
  <1>5. PICK nil \in Seq(TrustletIds) : nil = <<>>
    BY NothingYet
  <1>6. /\ got' \in [TrustletIds -> Seq(TrustletIds)] /\ got'[s] = nil
        /\ \A t \in TrustletIds : t # s => got'[t] = got[t]
    <2>1. got' = [got EXCEPT ![s] = nil]
      BY <1>1, <1>5, Zenon
    <2> QED
      BY <2>1 DEF SessionsInv, SessionTypes
  <1>7. /\ sent' \in [TrustletIds -> Nat] /\ sent'[s] = 0
        /\ \A t \in TrustletIds : t # s => sent'[t] = sent[t]
    BY <1>1 DEF SessionsInv, SessionTypes
  <1>8. SessionTypes'
    BY <1>1, <1>3, <1>6, <1>7 DEF SessionsInv, SessionTypes
  <1>9. CommandGoes'
    BY <1>1, <1>2, <1>3, <1>4 DEF SessionsInv, CommandGoes, Sessions!OwnedBy, Sessions!None
  <1>10. Interrupt' /\ OwnersApart'
    BY <1>1, <1>2, <1>3, <1>4 DEF SessionsInv, Interrupt, OwnersApart
  <1>11. OnTheWay'
    <2>1. ASSUME NEW t \in Sessions!Known' \cup Answered'
          PROVE  sent'[t] <= Of(t, got'[t]) + Of(t, notifications') + Kept(t)' + InHand(t)'
      <3>1. t \in TrustletIds
        BY <1>3, <1>4, <2>1
      <3>2. CASE t = s
        <4>1. SessionTypes' /\ t \in TrustletIds
          BY <1>8, <3>1
        <4>2. /\ Of(t, got'[t]) \in Nat /\ Of(t, notifications') \in Nat
              /\ Of(t, session'[t].queue) \in Nat /\ Of(t, unknown') \in Nat
          <5>1. /\ got'[t] \in Seq(TrustletIds) /\ notifications' \in Seq(TrustletIds)
                /\ session'[t].queue \in Seq(TrustletIds) /\ unknown' \in Seq(TrustletIds)
            BY <4>1 DEF SessionTypes, SessionRecord
          <5> QED
            BY <5>1, OfIsNat
        <4>3. Kept(t)' \in Nat /\ InHand(t)' \in {0, 1}
          BY <4>2 DEF Kept, InHand
        <4> QED
          BY <1>7, <3>2, <4>2, <4>3
      <3>3. CASE t # s
        <4>1. t \in Sessions!Known
          BY <1>3, <1>4, <2>1, <3>3
        <4>2. Kept(t)' = Kept(t) /\ InHand(t)' = InHand(t)
          BY <1>1, <1>4, Zenon DEF Kept, InHand
        <4>3. sent[t] <= Of(t, got[t]) + Of(t, notifications) + Kept(t) + InHand(t)
          BY <4>1 DEF SessionsInv, OnTheWay
        <4> QED
          BY <1>1, <1>6, <1>7, <3>1, <3>3, <4>2, <4>3
      <3> QED
        BY <3>2, <3>3
    <2>2. \A t \in Sessions!Known' : session'[t].connected => session'[t].queue = <<>>
      BY <1>1, <1>2, <1>4 DEF SessionsInv, OnTheWay
    <2> QED
      BY <2>1, <2>2 DEF OnTheWay
  <1>12. Locks'
    BY <1>1, <1>3, <1>4 DEF SessionsInv, Locks
  <1> QED
    BY <1>8, <1>9, <1>10, <1>11, <1>12 DEF SessionsInv

LEMMA RestartKeeps ==
    ASSUME Peaceful, SessionsInv, Sessions!Restart
    PROVE  SessionsInv'
  <1>1. /\ device' = {} /\ list' = <<>>
        /\ session' = [s \in TrustletIds |-> Sessions!Closed]
        /\ unknown' = <<>> /\ locked' = {} /\ command' = Sessions!NoCommand
        /\ sessionIrq' = [at |-> "idle", of |-> 0] /\ sessionFault' = FALSE
        /\ secureWorld' = secureWorld \ Sessions!Pending
        /\ UNCHANGED <<notifications, sent, got>>
    BY DEF Sessions!Restart
  <1>2. secureWorld' = {}
    BY <1>1 DEF Peaceful, Sessions!Pending, SessionsInv, SessionTypes
  <1>3. /\ command'.at = "none" /\ Answered' = {}
        /\ command' \in [at : {Sessions!None, "sent", "answered", "drain"},
                         client : Connections \cup {Sessions!None},
                         handle : Handles \cup {Sessions!None}, of : TrustletIds \cup {0}]
    BY <1>1 DEF Sessions!NoCommand, Sessions!None, Answered
  <1>4. Sessions!Known' = {} /\ list' \in Seq(TrustletIds) /\ unknown' \in Seq(TrustletIds)
    BY <1>1 DEF Sessions!Known
  <1>5. Sessions!Closed \in SessionRecord
    BY DEF Sessions!Closed, SessionRecord
  <1>6. SessionTypes'
    <2>1. session' \in [TrustletIds -> SessionRecord]
      BY <1>1, <1>5, Zenon
    <2> QED
      BY <1>1, <1>2, <1>3, <1>4, <2>1 DEF SessionsInv, SessionTypes
  <1>7. CommandGoes' /\ Interrupt'
    BY <1>1, <1>3, <1>4 DEF CommandGoes, Interrupt, Sessions!None
  <1>8. OwnersApart'
    BY <1>1, <1>2, <1>3, <1>4 DEF OwnersApart
  <1>9. OnTheWay' /\ Locks'
    BY <1>1, <1>3, <1>4 DEF OnTheWay, Locks
  <1> QED
    BY <1>6, <1>7, <1>8, <1>9 DEF SessionsInv

-----------------------------------------------------------------------------
(* The interrupt thread.                                                     *)

\* What its steps leave alone.
LEMMA IrqFrame ==
    ASSUME SessionsInv, UNCHANGED <<device, list, locked, command, sessionFault, secureWorld>>,
           session' \in [TrustletIds -> SessionRecord],
           \A t \in TrustletIds : /\ session'[t].owner = session[t].owner
                                  /\ session'[t].buffers = session[t].buffers
                                  /\ session'[t].connected = session[t].connected
    PROVE  /\ CommandGoes' /\ OwnersApart' /\ Locks' /\ Sessions!Known' = Sessions!Known
           /\ Sessions!Known \subseteq TrustletIds /\ Answered' = Answered
           /\ Answered \subseteq TrustletIds /\ Answered \cap Sessions!Known = {}
  <1>1. /\ Sessions!Known' = Sessions!Known /\ Sessions!Known \subseteq TrustletIds
        /\ Answered' = Answered /\ Opening' = Opening
    BY SameSessions DEF SessionsInv, Answered, Opening
  <1>2. Answered \subseteq TrustletIds /\ Answered \cap Sessions!Known = {}
    BY DEF SessionsInv, CommandGoes
  <1>3. \A c : Sessions!OwnedBy(c)' = Sessions!OwnedBy(c)
    BY <1>1 DEF Sessions!OwnedBy
  <1>4. CommandGoes'
    BY <1>1, <1>3 DEF SessionsInv, CommandGoes
  <1>5. OwnersApart'
    BY <1>1 DEF SessionsInv, OwnersApart
  <1>6. UNION {session'[t].buffers : t \in Sessions!Known'}
           = UNION {session[t].buffers : t \in Sessions!Known}
    BY <1>1
  <1>7. Locks'
    BY <1>1, <1>6 DEF SessionsInv, Locks
  <1> QED
    BY <1>1, <1>2, <1>4, <1>5, <1>7

LEMMA IrqTakeKeeps ==
    ASSUME Peaceful, SessionsInv, Sessions!IrqTake
    PROVE  SessionsInv'
  <1> DEFINE s == Head(notifications)
  <1>1. /\ sessionIrq.at = "idle" /\ notifications # <<>>
        /\ notifications' = Tail(notifications)
        /\ sessionIrq' = [of |-> s,
                          at |-> IF s \notin Sessions!Known THEN "unknown"
                                 ELSE IF session[s].connected THEN "write" ELSE "keep"]
        /\ UNCHANGED <<device, list, session, unknown, locked, command, sessionFault,
                       secureWorld, sent, got>>
    BY DEF Sessions!IrqTake
  <1>2. s \in TrustletIds /\ notifications' \in Seq(TrustletIds)
    BY <1>1, HeadTailProperties DEF SessionsInv, SessionTypes
  <1>3. session \in [TrustletIds -> SessionRecord]
    BY DEF SessionsInv, SessionTypes
  <1>4. /\ CommandGoes' /\ OwnersApart' /\ Locks' /\ Sessions!Known' = Sessions!Known
        /\ Sessions!Known \subseteq TrustletIds /\ Answered' = Answered
        /\ Answered \subseteq TrustletIds
    BY <1>1, <1>3, IrqFrame
  <1>5. \A t : Of(t, notifications) = Of(t, notifications') + IF s = t THEN 1 ELSE 0
    BY <1>1, OfTail DEF SessionsInv, SessionTypes
  <1> HIDE DEF s
  <1>6. sessionIrq'.of = s /\ sessionIrq'.at \in {"unknown", "write", "keep"}
        /\ (sessionIrq'.at = "unknown" <=> s \notin Sessions!Known)
        /\ (sessionIrq'.at = "write" => session[s].connected)
        /\ (sessionIrq'.at = "keep" => ~ session[s].connected)
    BY <1>1
  <1>7. SessionTypes'
    BY <1>1, <1>2, <1>6 DEF SessionsInv, SessionTypes
  <1>8. Interrupt'
    <2>1. s \in Sessions!Known => session[s].connected \in BOOLEAN
      BY <1>2, <1>3 DEF SessionRecord
    <2> QED
      BY <1>1, <1>2, <1>4, <1>6, <2>1 DEF Interrupt
  <1>9. OnTheWay'
    <2>1. ASSUME NEW t \in Sessions!Known \cup Answered
          PROVE  sent'[t] <= Of(t, got'[t]) + Of(t, notifications') + Kept(t)' + InHand(t)'
      <3>1. InHand(t) = 0 /\ InHand(t)' = IF s = t THEN 1 ELSE 0
        BY <1>1, <1>4, <1>6 DEF InHand
      <3>2. Kept(t)' = Kept(t)
        BY <1>1, <1>4, Zenon DEF Kept
      <3>3. sent[t] <= Of(t, got[t]) + Of(t, notifications) + Kept(t) + InHand(t)
        BY <2>1 DEF SessionsInv, OnTheWay
      <3>4. Of(t, notifications) = Of(t, notifications') + IF s = t THEN 1 ELSE 0
        BY <1>5
      <3>5. t \in TrustletIds
        BY <1>4, <2>1
      <3>6. /\ Of(t, got[t]) \in Nat /\ Kept(t) \in Nat /\ sent[t] \in Nat
        BY <3>5, CountsAreNat DEF SessionsInv
      <3>7. Of(t, notifications') \in Nat
        BY <1>2, OfIsNat
      <3> QED
        BY <1>1, <3>1, <3>2, <3>3, <3>4, <3>6, <3>7
    <2> QED
      BY <1>1, <1>4, <2>1 DEF SessionsInv, OnTheWay
  <1> QED
    BY <1>4, <1>7, <1>8, <1>9 DEF SessionsInv

LEMMA IrqUnknownKeeps ==
    ASSUME Peaceful, SessionsInv, Sessions!IrqUnknown
    PROVE  SessionsInv'
  <1> DEFINE s == sessionIrq.of
  <1>1. /\ sessionIrq.at = "unknown" /\ unknown' = Append(unknown, s)
        /\ sessionIrq' = [sessionIrq EXCEPT !.at = "idle"]
        /\ UNCHANGED <<device, list, session, locked, command, sessionFault, got,
                       secureWorld, notifications, sent>>
    BY DEF Sessions!IrqUnknown, Sessions!worldVars
  <1>2. s \in TrustletIds /\ sessionIrq'.at = "idle"
    BY <1>1 DEF SessionsInv, SessionTypes, Interrupt
  <1>3. unknown' \in Seq(TrustletIds) /\ session \in [TrustletIds -> SessionRecord]
    BY <1>1, <1>2, AppendProperties DEF SessionsInv, SessionTypes
  <1>4. /\ CommandGoes' /\ OwnersApart' /\ Locks' /\ Sessions!Known' = Sessions!Known
        /\ Sessions!Known \subseteq TrustletIds /\ Answered' = Answered
        /\ Answered \subseteq TrustletIds
    BY <1>1, <1>3, IrqFrame
  <1>5. SessionTypes'
    BY <1>1, <1>3 DEF SessionsInv, SessionTypes
  <1>6. \A t : Of(t, unknown') = Of(t, unknown) + IF s = t THEN 1 ELSE 0
    BY <1>1, <1>2, OfAppend DEF SessionsInv, SessionTypes
  <1>7. OnTheWay'
    <2>1. ASSUME NEW t \in Sessions!Known \cup Answered
          PROVE  sent'[t] <= Of(t, got'[t]) + Of(t, notifications') + Kept(t)' + InHand(t)'
      <3>1. /\ InHand(t) = (IF s = t /\ t \notin Sessions!Known THEN 1 ELSE 0)
            /\ InHand(t)' = 0
        BY <1>1, <1>2 DEF InHand
      <3>2. Kept(t)' = Kept(t) + IF s = t /\ t \notin Sessions!Known THEN 1 ELSE 0
        <4>1. t \in TrustletIds
          BY <1>4, <2>1
        <4>2. Kept(t) \in Nat
          BY <4>1, CountsAreNat DEF SessionsInv
        <4>3. CASE t \in Sessions!Known
          <5>1. Kept(t)' = Kept(t)
            BY <1>1, <1>4, <4>3, Zenon DEF Kept
          <5> QED
            BY <4>2, <4>3, <5>1
        <4>4. CASE t \notin Sessions!Known
          <5>1. Kept(t)' = Of(t, unknown') /\ Kept(t) = Of(t, unknown)
            BY <1>4, <4>4, Zenon DEF Kept
          <5> QED
            BY <1>6, <4>4, <5>1
        <4> QED
          BY <4>3, <4>4
      <3>3. sent[t] <= Of(t, got[t]) + Of(t, notifications) + Kept(t) + InHand(t)
        BY <2>1 DEF SessionsInv, OnTheWay
      <3>4. t \in TrustletIds
        BY <1>4, <2>1
      <3>5. /\ Of(t, got[t]) \in Nat /\ Kept(t) \in Nat /\ sent[t] \in Nat
            /\ Of(t, notifications) \in Nat
        BY <3>4, CountsAreNat DEF SessionsInv
      <3> QED
        BY <1>1, <3>1, <3>2, <3>3, <3>5
    <2> QED
      BY <1>1, <1>4, <2>1 DEF SessionsInv, OnTheWay
  <1>8. Interrupt'
    BY <1>2 DEF Interrupt
  <1> QED
    BY <1>4, <1>5, <1>7, <1>8 DEF SessionsInv

LEMMA IrqKeepKeeps ==
    ASSUME Peaceful, SessionsInv, Sessions!IrqKeep
    PROVE  SessionsInv'
  <1> DEFINE s == sessionIrq.of
             more == Append(session[s].queue, s)
  <1>1. sessionIrq.at = "keep" /\ s \in Sessions!Known /\ session[s].connected = FALSE
    BY DEF Sessions!IrqKeep, SessionsInv, Interrupt
  <1>2. /\ session' = [session EXCEPT ![s].queue = more]
        /\ sessionIrq' = [sessionIrq EXCEPT !.at = "unknown"]
        /\ UNCHANGED <<device, list, unknown, locked, command, sessionFault, got,
                       secureWorld, notifications, sent>>
    BY <1>1 DEF Sessions!IrqKeep, Sessions!worldVars
  <1>3. s \in TrustletIds /\ sessionIrq'.at = "unknown" /\ sessionIrq'.of = s
    BY <1>1, <1>2 DEF SessionsInv, SessionTypes, Interrupt
  <1>4. /\ session \in [TrustletIds -> SessionRecord]
        /\ session[s].queue \in Seq(TrustletIds) /\ more \in Seq(TrustletIds)
    <2>1. session[s].queue \in Seq(TrustletIds)
      BY <1>3 DEF SessionsInv, SessionTypes, SessionRecord
    <2> QED
      BY <1>3, <2>1, AppendProperties DEF SessionsInv, SessionTypes
  <1>5. \A t : Of(t, more) = Of(t, session[s].queue) + IF s = t THEN 1 ELSE 0
    BY <1>3, <1>4, OfAppend
  <1> HIDE DEF more, s
  <1>6. /\ session' \in [TrustletIds -> SessionRecord] /\ session'[s].queue = more
        /\ \A t \in TrustletIds : /\ session'[t].owner = session[t].owner
                                  /\ session'[t].connected = session[t].connected
                                  /\ session'[t].buffers = session[t].buffers
                                  /\ t # s => session'[t].queue = session[t].queue
    <2>1. session[s] \in SessionRecord
      BY <1>3, <1>4
    <2>2. [session[s] EXCEPT !.queue = more] \in SessionRecord
      BY <1>4, <2>1 DEF SessionRecord
    <2>3. /\ session' = [session EXCEPT ![s] = [session[s] EXCEPT !.queue = more]]
          /\ DOMAIN session = TrustletIds /\ s \in TrustletIds
      BY <1>2, <1>3, <1>4
    <2>4. session' \in [TrustletIds -> SessionRecord]
      BY <1>4, <2>2, <2>3
    <2>5. session'[s] = [session[s] EXCEPT !.queue = more]
      BY <2>3
    <2>6. /\ session'[s].queue = more
          /\ session'[s].owner = session[s].owner
          /\ session'[s].connected = session[s].connected
          /\ session'[s].buffers = session[s].buffers
      BY <2>1, <2>5 DEF SessionRecord
    <2>7. \A t \in TrustletIds : t # s => session'[t] = session[t]
      BY <2>3
    <2> QED
      BY <2>4, <2>6, <2>7
  <1>7. /\ CommandGoes' /\ OwnersApart' /\ Locks' /\ Sessions!Known' = Sessions!Known
        /\ Sessions!Known \subseteq TrustletIds /\ Answered' = Answered
        /\ Answered \subseteq TrustletIds
    BY <1>2, <1>6, IrqFrame
  <1>8. SessionTypes'
    BY <1>2, <1>3, <1>6 DEF SessionsInv, SessionTypes
  <1>9. Interrupt'
    BY <1>3 DEF Interrupt
  <1>10. OnTheWay'
    <2>1. ASSUME NEW t \in Sessions!Known \cup Answered
          PROVE  sent'[t] <= Of(t, got'[t]) + Of(t, notifications') + Kept(t)' + InHand(t)'
      <3>1. t \in TrustletIds
        BY <1>7, <2>1
      <3>2. sent[t] <= Of(t, got[t]) + Of(t, notifications) + Kept(t) + InHand(t)
        BY <2>1 DEF SessionsInv, OnTheWay
      <3>3. /\ Of(t, got[t]) \in Nat /\ Kept(t) \in Nat /\ sent[t] \in Nat
            /\ Of(t, notifications) \in Nat
        BY <3>1, CountsAreNat DEF SessionsInv
      <3>4. CASE t = s
        <4>1. InHand(t) = 1 /\ InHand(t)' = 0
          BY <1>1, <1>3, <1>7, <3>4 DEF InHand, s
        <4>2. Kept(t) = Of(t, session[s].queue) /\ Kept(t)' = Of(t, more)
          BY <1>1, <1>6, <1>7, <3>4, Zenon DEF Kept
        <4> QED
          BY <1>2, <1>5, <3>2, <3>3, <3>4, <4>1, <4>2
      <3>5. CASE t # s
        <4>1. InHand(t) = 0 /\ InHand(t)' = 0
          BY <1>3, <3>5 DEF InHand, s
        <4>2. session'[t].queue = session[t].queue
          BY <1>6, <3>1, <3>5
        <4>3. Kept(t)' = Kept(t)
          BY <1>2, <1>7, <4>2, Zenon DEF Kept
        <4> QED
          BY <1>2, <3>2, <4>1, <4>3
      <3> QED
        BY <3>4, <3>5
    <2>2. ASSUME NEW t \in Sessions!Known, session'[t].connected
          PROVE  session'[t].queue = <<>> \/ (command'.at = "drain" /\ command'.of = t)
      <3>1. t \in TrustletIds /\ session[t].connected
        BY <1>6, <1>7, <2>2
      <3>2. t # s
        BY <1>1, <3>1
      <3> QED
        BY <1>2, <1>6, <2>2, <3>1, <3>2 DEF SessionsInv, OnTheWay
    <2> QED
      BY <1>7, <2>1, <2>2 DEF OnTheWay
  <1> QED
    BY <1>7, <1>8, <1>9, <1>10 DEF SessionsInv

LEMMA IrqWriteKeeps ==
    ASSUME Peaceful, SessionsInv, Sessions!IrqWrite
    PROVE  SessionsInv'
  <1> DEFINE s == sessionIrq.of
             more == Append(got[s], s)
  <1>1. sessionIrq.at = "write" /\ s \in Sessions!Known
    BY DEF Sessions!IrqWrite, SessionsInv, Interrupt
  <1>2. /\ got' = [got EXCEPT ![s] = more]
        /\ sessionIrq' = [sessionIrq EXCEPT !.at = "idle"]
        /\ UNCHANGED <<device, list, session, unknown, locked, command, sessionFault,
                       secureWorld, notifications, sent>>
    BY <1>1 DEF Sessions!IrqWrite, Sessions!worldVars
  <1>3. s \in TrustletIds /\ sessionIrq'.at = "idle"
    BY <1>1, <1>2 DEF SessionsInv, SessionTypes, Interrupt
  <1>4. /\ session \in [TrustletIds -> SessionRecord] /\ got \in [TrustletIds -> Seq(TrustletIds)]
        /\ got[s] \in Seq(TrustletIds) /\ more \in Seq(TrustletIds)
    <2>1. got[s] \in Seq(TrustletIds)
      BY <1>3 DEF SessionsInv, SessionTypes
    <2> QED
      BY <1>3, <2>1, AppendProperties DEF SessionsInv, SessionTypes
  <1>5. \A t : Of(t, more) = Of(t, got[s]) + IF s = t THEN 1 ELSE 0
    BY <1>3, <1>4, OfAppend
  <1> HIDE DEF more, s
  <1>6. /\ got' \in [TrustletIds -> Seq(TrustletIds)] /\ got'[s] = more
        /\ \A t \in TrustletIds : t # s => got'[t] = got[t]
    BY <1>2, <1>3, <1>4
  <1>7. /\ CommandGoes' /\ OwnersApart' /\ Locks' /\ Sessions!Known' = Sessions!Known
        /\ Sessions!Known \subseteq TrustletIds /\ Answered' = Answered
        /\ Answered \subseteq TrustletIds
    BY <1>2, <1>4, IrqFrame
  <1>8. SessionTypes'
    BY <1>2, <1>3, <1>6 DEF SessionsInv, SessionTypes
  <1>9. Interrupt'
    BY <1>3 DEF Interrupt
  <1>10. OnTheWay'
    <2>1. ASSUME NEW t \in Sessions!Known \cup Answered
          PROVE  sent'[t] <= Of(t, got'[t]) + Of(t, notifications') + Kept(t)' + InHand(t)'
      <3>1. t \in TrustletIds
        BY <1>7, <2>1
      <3>2. sent[t] <= Of(t, got[t]) + Of(t, notifications) + Kept(t) + InHand(t)
        BY <2>1 DEF SessionsInv, OnTheWay
      <3>3. /\ Of(t, got[t]) \in Nat /\ Kept(t) \in Nat /\ sent[t] \in Nat
            /\ Of(t, notifications) \in Nat
        BY <3>1, CountsAreNat DEF SessionsInv
      <3>4. Kept(t)' = Kept(t)
        BY <1>2, <1>7, Zenon DEF Kept
      <3>5. InHand(t) = (IF t = s THEN 1 ELSE 0) /\ InHand(t)' = 0
        BY <1>1, <1>3 DEF InHand, s
      <3>6. CASE t = s
        BY <1>2, <1>5, <1>6, <3>2, <3>3, <3>4, <3>5, <3>6
      <3>7. CASE t # s
        BY <1>2, <1>6, <3>1, <3>2, <3>4, <3>5, <3>7
      <3> QED
        BY <3>6, <3>7
    <2> QED
      BY <1>2, <1>7, <2>1 DEF SessionsInv, OnTheWay
  <1> QED
    BY <1>7, <1>8, <1>9, <1>10 DEF SessionsInv

LEMMA SessionsStay ==
    ASSUME SessionsInv, UNCHANGED Sessions!vars
    PROVE  SessionsInv'
  <1>1. UNCHANGED <<device, list, session, unknown, locked, command, sessionIrq, sessionFault,
                    secureWorld, notifications, sent, got>>
    BY DEF Sessions!vars
  <1>2. session \in [TrustletIds -> SessionRecord] /\ SessionTypes' /\ Interrupt'
    BY <1>1, SameSessions DEF SessionsInv, SessionTypes, Interrupt
  <1>3. /\ CommandGoes' /\ OwnersApart' /\ Locks' /\ Sessions!Known' = Sessions!Known
        /\ Answered' = Answered
    BY <1>1, <1>2, IrqFrame
  <1>4. \A t : Kept(t)' = Kept(t) /\ InHand(t)' = InHand(t)
    BY <1>1, <1>3, Zenon DEF Kept, InHand
  <1>5. OnTheWay'
    BY <1>1, <1>3, <1>4 DEF SessionsInv, OnTheWay
  <1> QED
    BY <1>2, <1>3, <1>5 DEF SessionsInv

LEMMA SessionsStep ==
    ASSUME Peaceful, SessionsInv, [Sessions!Next]_(Sessions!vars)
    PROVE  SessionsInv'
  <1>1. ASSUME NEW s \in TrustletIds,
               Sessions!SendNotification(s) \/ Sessions!WorldOpens(s) \/ Sessions!NqConnect(s)
        PROVE  SessionsInv'
    BY <1>1, SendNotificationKeeps, WorldOpensKeeps, NqConnectKeeps
  <1>2. ASSUME NEW c \in Connections,
               \/ Sessions!OpenDevice(c) \/ Sessions!Close(c)
               \/ \E h \in Handles : Sessions!OpenSession(c, h)
               \/ \E s \in TrustletIds : Sessions!CloseSession(c, s)
               \/ \E s \in TrustletIds, h \in Handles :
                     Sessions!MapBulk(c, s, h) \/ Sessions!UnmapBulk(c, s, h)
        PROVE  SessionsInv'
    BY <1>2, OpenDeviceKeeps, ClosingKeeps, OpenSessionKeeps, BulkKeeps, Zenon
  <1>3. ASSUME \/ Sessions!OpenRefused \/ Sessions!Opened
               \/ Sessions!ProcessQueuedNotifications \/ Sessions!Restart
        PROVE  SessionsInv'
    BY <1>3, OpenRefusedKeeps, OpenedKeeps, DrainKeeps, RestartKeeps
  <1>4. ASSUME \/ Sessions!IrqTake \/ Sessions!IrqUnknown \/ Sessions!IrqKeep
               \/ Sessions!IrqWrite
        PROVE  SessionsInv'
    BY <1>4, IrqTakeKeeps, IrqUnknownKeeps, IrqKeepKeeps, IrqWriteKeeps
  <1> QED
    BY <1>1, <1>2, <1>3, <1>4, SessionsStay, Zenon DEF Sessions!Next

\* When nothing is on its way, all that was sent has been delivered.
LEMMA SessionsInvGives ==
    ASSUME SessionsInv
    PROVE  SessionsAgree
  <1>1. Sessions!KnownSessions
    BY DEF SessionsInv, OwnersApart, Answered, Sessions!KnownSessions
  <1>2. Sessions!NoOrphans
    BY DEF SessionsInv, OwnersApart, Sessions!NoOrphans
  <1>3. Sessions!LockedIsHeld
    BY DEF SessionsInv, Locks, Opening, Sessions!LockedIsHeld
  <1>4. Sessions!Delivered
    <2>1. SUFFICES ASSUME Sessions!Settled, NEW s \in Sessions!Known, session[s].connected
                   PROVE  Sessions!Times(s) >= sent[s]
      BY DEF Sessions!Delivered
    <2>2. /\ sessionIrq.at = "idle" /\ notifications = <<>> /\ command.at = "none"
          /\ s \in TrustletIds
      BY <2>1, KnownAreIds DEF Sessions!Settled, Sessions!NoCommand, Sessions!None, SessionsInv
    <2>3. session[s].queue = <<>>
      BY <2>1, <2>2 DEF SessionsInv, OnTheWay
    <2>4. sent[s] <= Of(s, got[s]) + Of(s, notifications) + Kept(s) + InHand(s)
      BY DEF SessionsInv, OnTheWay
    <2>5. Of(s, notifications) = 0 /\ Kept(s) = 0 /\ InHand(s) = 0
      <3>1. Kept(s) = Of(s, session[s].queue)
        BY Zenon DEF Kept
      <3> QED
        BY <2>2, <2>3, <3>1, OfEmpty DEF InHand
    <2>6. Sessions!Times(s) = Of(s, got[s])
      BY SameCardinality, Zenon DEF Sessions!Times, Of
    <2>7. Of(s, got[s]) \in Nat /\ sent[s] \in Nat
      BY <2>2, CountsAreNat DEF SessionsInv
    <2> QED
      BY <2>4, <2>5, <2>6, <2>7
  <1> QED
    BY <1>1, <1>2, <1>3, <1>4 DEF SessionsAgree

\* The daemon's sessions are those of the secure world, of open connections and
\* with locks that somebody gives up, and a connected client gets what its
\* trustlet sent: for any number of clients, sessions and buffers, through
\* faults and restarts, for one session per client whose identifiers a restart
\* closes, if the interrupt thread is not interrupted.
THEOREM SessionsAreKnown ==
    ASSUME PerClient = 1, ~ Torn, TrustletIds \subseteq 2 .. NumSessions - 1
    PROVE  Sessions!Spec => []SessionsAgree
  <1>1. Sessions!Init => SessionsInv
    BY SessionsInit DEF Peaceful
  <1>2. SessionsInv /\ [Sessions!Next]_(Sessions!vars) => SessionsInv'
    BY SessionsStep DEF Peaceful
  <1>3. SessionsInv => SessionsAgree
    BY SessionsInvGives
  <1> QED
    BY <1>1, <1>2, <1>3, PTL DEF Sessions!Spec
=============================================================================
