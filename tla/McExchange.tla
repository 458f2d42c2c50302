------------------------------ MODULE McExchange ------------------------------
(* An MCP command of the MobiCore daemon: a server thread writes the one     *)
(* message buffer, notifies the secure world and waits for the answer; the   *)
(* secure world runs only in the slices that N-SIQs and the scheduler thread *)
(* give it, and answers through the notification queue and the S-SIQ that    *)
(* the interrupt thread waits for.                                           *)
EXTENDS Integers, FiniteSets

CONSTANTS
    Callers,    \* threads that send commands
    Exclusive,  \* every one of them holds handleConnection's mutex
    Tries,      \* expired waits before the daemon gives up, 5 in the code
    Slices,     \* yields between two N-SIQs of the scheduler, SCHEDULING_FREQ
    Extra,      \* schedSync's count up to which other sessions' S-SIQs come
    Faults      \* of "slow", "halt", "irq", "sched": what may go wrong

VARIABLES
    msg,     \* mcpMessage: whose command or answer it holds
    queue,   \* notifications of the MCP session: to and from the secure world
    world,   \* the secure world: idle flag, the command it is at, halted
    ssiq,    \* an S-SIQ is pending
    sem,     \* mcpSessionNotification: count, threads that sleep, one woken
    sync,    \* schedSync's count
    irq,     \* the interrupt thread: where
    sched,   \* the scheduler thread: where, its timeslice
    caller,  \* thread -> where, waits left
    fault    \* mcFault

vars == <<msg, queue, world, ssiq, sem, sync, irq, sched, caller, fault>>

None == "none"
Nobody == [kind |-> "none", of |-> None]
Idle == [at |-> "idle", left |-> Tries]
Busy == {c \in Callers : caller[c].at # "idle"}

Init ==
    /\ msg = Nobody
    /\ queue = [out |-> 0, in |-> 0]
    /\ world = [idle |-> TRUE, at |-> None, halted |-> FALSE]
    /\ ssiq = FALSE
    /\ sem = [count |-> 0, asleep |-> {}, woken |-> {}]
    /\ sync = 0
    /\ irq = "wait" /\ sched = [at |-> "decide", slice |-> Slices]
    /\ caller = [c \in Callers |-> Idle]
    /\ fault = FALSE

-----------------------------------------------------------------------------
(* The secure world in the slice that ends with (q, m, w, s): it takes the   *)
(* command that the buffer holds, answers it there, or has nothing to do.    *)

Slice ==
    LET halted == [world EXCEPT !.idle = FALSE]
    IN  IF world.halted
        THEN UNCHANGED <<queue, msg, ssiq>> /\ world' = halted
        ELSE \/ /\ world.at = None /\ queue.out > 0
                /\ world' = [idle |-> FALSE, at |-> msg.of, halted |-> FALSE]
                /\ queue' = [queue EXCEPT !.out = @ - 1]
                /\ UNCHANGED <<msg, ssiq>>
             \/ /\ world.at # None
                /\ msg' = [kind |-> "answer", of |-> world.at]
                /\ world' = [idle |-> FALSE, at |-> None, halted |-> FALSE]
                /\ queue' = [queue EXCEPT !.in = @ + 1]
                /\ ssiq' = TRUE
             \/ /\ world.at = None /\ queue.out = 0
                /\ world' = [world EXCEPT !.idle = TRUE]
                /\ UNCHANGED <<queue, msg, ssiq>>

Halt ==
    /\ "halt" \in Faults /\ ~ world.halted
    /\ world' = [world EXCEPT !.halted = TRUE]
    /\ UNCHANGED <<msg, queue, ssiq, sem, sync, irq, sched, caller, fault>>

\* An S-SIQ for another session.
OtherSsiq ==
    /\ ~ ssiq /\ sync < Extra
    /\ ssiq' = TRUE
    /\ UNCHANGED <<msg, queue, world, sem, sync, irq, sched, caller, fault>>

-----------------------------------------------------------------------------
(* CSemaphore: signal, and the wait with a time limit, which does not look   *)
(* at the count again when it is woken.                                      *)

Signalled ==
    IF sem.asleep = {} THEN {[sem EXCEPT !.count = @ + 1]}
    ELSE {[count |-> sem.count + 1, asleep |-> sem.asleep \ {c},
           woken |-> sem.woken \cup {c}] : c \in sem.asleep}

Goes(c, to) == caller' = [caller EXCEPT ![c].at = to]

-----------------------------------------------------------------------------
(* A command.                                                                *)

\* handleConnection under its mutex, which no longer takes commands after a
\* fault, or dropConnection, which takes no mutex and closes the sessions
\* whatever happened.
Write(c) ==
    /\ caller[c].at = "idle"
    /\ Exclusive => Busy = {}
    /\ msg' = [kind |-> "command", of |-> c]
    /\ Goes(c, "notify")
    /\ UNCHANGED <<queue, world, ssiq, sem, sync, irq, sched, fault>>

\* Variant with a defect: the scheduler is not woken.
NotifySilently(c) ==
    /\ caller[c].at = "notify"
    /\ queue' = [queue EXCEPT !.out = @ + 1]
    /\ world' = [world EXCEPT !.idle = FALSE]
    /\ Goes(c, "wait")
    /\ UNCHANGED <<msg, ssiq, sem, sync, irq, sched, fault>>

\* TrustZoneDevice::notify: putNotification and nsiq, which runs the world.
Notify(c) ==
    /\ caller[c].at = "notify"
    /\ queue' = [queue EXCEPT !.out = @ + 1]
    /\ world' = [world EXCEPT !.idle = FALSE]
    /\ sync' = sync + 1
    /\ Goes(c, "wait")
    /\ UNCHANGED <<msg, ssiq, sem, irq, sched, fault>>

\* Variant with a defect: a fault is not looked at.
WaitBlindly(c) ==
    /\ caller[c].at = "wait"
    /\ \/ /\ sem.count # 0
          /\ sem' = [sem EXCEPT !.count = @ - 1]
          /\ Goes(c, "health")
       \/ /\ sem.count = 0
          /\ sem' = [sem EXCEPT !.asleep = @ \cup {c}]
          /\ Goes(c, "asleep")
    /\ UNCHANGED <<msg, queue, world, ssiq, sync, irq, sched, fault>>

\* waitMcpNotification, up to the wait.
Wait(c) ==
    /\ caller[c].at = "wait"
    /\ \/ /\ fault
          /\ caller' = [caller EXCEPT ![c] = Idle]
          /\ UNCHANGED sem
       \/ /\ ~ fault /\ sem.count # 0
          /\ sem' = [sem EXCEPT !.count = @ - 1]
          /\ Goes(c, "health")
       \/ /\ ~ fault /\ sem.count = 0
          /\ sem' = [sem EXCEPT !.asleep = @ \cup {c}]
          /\ Goes(c, "asleep")
    /\ UNCHANGED <<msg, queue, world, ssiq, sync, irq, sched, fault>>

Woken(c) ==
    /\ caller[c].at = "asleep" /\ c \in sem.woken
    /\ sem' = [count |-> sem.count - 1, asleep |-> sem.asleep, woken |-> sem.woken \ {c}]
    /\ Goes(c, "health")
    /\ UNCHANGED <<msg, queue, world, ssiq, sync, irq, sched, fault>>

\* Ten seconds pass without an answer.
Late == "slow" \in Faults \/ world.halted \/ "gone" \in {irq, sched.at}
Expire(c) ==
    /\ caller[c].at = "asleep" /\ c \in sem.asleep /\ Late
    /\ sem' = [sem EXCEPT !.asleep = @ \ {c}]
    /\ fault' = (fault \/ world.halted \/ caller[c].left = 1)
    /\ caller' = [caller EXCEPT ![c] =
                    IF world.halted \/ @.left = 1 THEN Idle
                    ELSE [at |-> "wait", left |-> @.left - 1]]
    /\ UNCHANGED <<msg, queue, world, ssiq, sync, irq, sched>>

\* "Check healthiness state of the device": an ended thread is joined.
Health(c) ==
    /\ caller[c].at = "health"
    /\ IF irq = "gone" \/ sched.at = "gone"
       THEN caller' = [caller EXCEPT ![c] = Idle] ELSE Goes(c, "check")
    /\ UNCHANGED <<msg, queue, world, ssiq, sem, sync, irq, sched, fault>>

\* The response identifier is compared and the answer read.
Check(c) ==
    /\ caller[c].at = "check"
    /\ caller' = [caller EXCEPT ![c] = Idle]
    /\ UNCHANGED <<msg, queue, world, ssiq, sem, sync, irq, sched, fault>>

-----------------------------------------------------------------------------
(* The interrupt thread: handleIrq.                                          *)

IrqWait ==
    /\ irq = "wait" /\ ssiq
    /\ ssiq' = FALSE /\ irq' = "drain"
    /\ UNCHANGED <<msg, queue, world, sem, sync, sched, caller, fault>>

IrqDrain ==
    /\ irq = "drain"
    /\ \/ /\ queue.in > 0
          /\ queue' = [queue EXCEPT !.in = @ - 1]
          /\ sem' \in Signalled
          /\ UNCHANGED <<irq, sync>>
       \/ /\ queue.in = 0
          /\ irq' = "wait" /\ sync' = sync + 1
          /\ UNCHANGED <<queue, sem>>
    /\ UNCHANGED <<msg, world, ssiq, sched, caller, fault>>

IrqFails ==
    /\ "irq" \in Faults /\ irq = "wait"
    /\ irq' = "gone" /\ sem' \in Signalled
    /\ UNCHANGED <<msg, queue, world, ssiq, sync, sched, caller, fault>>

-----------------------------------------------------------------------------
(* The scheduler thread: schedule.                                           *)

SchedIdle ==
    /\ sched.at = "decide" /\ world.idle
    /\ sched' = [sched EXCEPT !.at = "sync"]
    /\ UNCHANGED <<msg, queue, world, ssiq, sem, sync, irq, caller, fault>>

\* The last slice is an N-SIQ, which signals schedSync.
SchedSlice ==
    /\ sched.at = "decide" /\ ~ world.idle
    /\ Slice
    /\ sched' = [sched EXCEPT !.slice = IF @ = 0 THEN Slices ELSE @ - 1]
    /\ sync' = IF sched.slice = 0 THEN sync + 1 ELSE sync
    /\ UNCHANGED <<sem, irq, caller, fault>>

SchedWake ==
    /\ sched.at = "sync" /\ sync > 0
    /\ sync' = sync - 1
    /\ sched' = [sched EXCEPT !.at = "decide"]
    /\ UNCHANGED <<msg, queue, world, ssiq, sem, irq, caller, fault>>

SchedFails ==
    /\ "sched" \in Faults /\ sched.at = "decide" /\ ~ world.idle
    /\ sched' = [sched EXCEPT !.at = "gone"]
    /\ UNCHANGED <<msg, queue, world, ssiq, sem, sync, irq, caller, fault>>

-----------------------------------------------------------------------------
Steps(c) ==
    Notify(c) \/ Wait(c) \/ Woken(c) \/ Health(c) \/ Check(c)
Threads == IrqWait \/ IrqDrain \/ SchedIdle \/ SchedSlice \/ SchedWake

Next ==
    \/ \E c \in Callers : Write(c) \/ Steps(c) \/ Expire(c)
    \/ Threads \/ OtherSsiq \/ Halt \/ IrqFails \/ SchedFails

\* The threads run, and a sleep that is late expires.
Fairness ==
    /\ \A c \in Callers : WF_vars(Steps(c)) /\ WF_vars(Expire(c))
    /\ WF_vars(IrqWait \/ IrqDrain)
    /\ WF_vars(SchedIdle \/ SchedSlice \/ SchedWake)

Spec == Init /\ [][Next]_vars /\ Fairness

-----------------------------------------------------------------------------
\* The caller that goes on after its wait finds the answer to its own command
\* in the message buffer, whatever failed before; and while no command is under
\* way no answer is left that the next one would take for its own.
OwnAnswer ==
    /\ \A c \in Callers :
           caller[c].at = "check" => msg = [kind |-> "answer", of |-> c]
    /\ Busy = {} /\ ~ fault =>
           irq = "gone" \/ sched.at = "gone" \/ (sem.count = 0 /\ queue.in = 0)

\* A command ends, with its answer or without.
CommandsEnd == \A c \in Callers : caller[c].at = "notify" ~> caller[c].at = "idle"
=============================================================================
