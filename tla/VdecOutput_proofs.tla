-------------------------- MODULE VdecOutput_proofs --------------------------
(* Proofs about VdecOutput: for any number of the client's buffers and of    *)
(* codec buffers, a buffer is in one place at every interleaving of the      *)
(* client, the handler's flush and the two threads; and where the output is  *)
(* not flushed between its setup and its start, no codec buffer is with the  *)
(* MFC and queued, and the threads run out of none.  At the end, the queues  *)
(* of the MFC library: what it says of a buffer is what the driver has.      *)
EXTENDS MCVdecOutput, FiniteSetTheorems, SequenceTheorems, WellFoundedInduction, TLAPS

(* Sequences without repetition: the two queues.                             *)

\* A queue without repetition is no longer than the set of what it may hold.
LEMMA NoLongerThanTheSet ==
    ASSUME NEW S, IsFiniteSet(S), NEW s \in Seq(S), IsInjective(s)
    PROVE  Len(s) <= Cardinality(S) /\ Len(s) \in Nat
  <1>1. s \in Injection(1 .. Len(s), S)
    BY DEF IsInjective, Injection
  <1>2. Cardinality(1 .. Len(s)) <= Cardinality(S)
    BY <1>1, FS_Injection
  <1>3. Len(s) \in Nat
    BY LenProperties
  <1>4. Cardinality(1 .. Len(s)) = Len(s)
    <2>1. 1 \in Int /\ Len(s) \in Int
      BY <1>3
    <2>2. Cardinality(1 .. Len(s)) = IF 1 > Len(s) THEN 0 ELSE Len(s) - 1 + 1
      BY <2>1, FS_Interval
    <2> QED
      BY <1>3, <2>2
  <1> QED
    BY <1>2, <1>3, <1>4

\* A queue stays without repetition when something it has not is put in ...
LEMMA AppendIsInjective ==
    ASSUME NEW S, NEW s \in Seq(S), NEW e \in S, IsInjective(s), e \notin Range(s)
    PROVE  /\ Append(s, e) \in Seq(S) /\ IsInjective(Append(s, e))
           /\ Range(Append(s, e)) = Range(s) \cup {e}
           /\ Len(Append(s, e)) = Len(s) + 1
  BY AppendProperties DEF IsInjective, Range

\* ... and when its first element is taken out, which is not in it any more.
LEMMA TailIsInjective ==
    ASSUME NEW S, NEW s \in Seq(S), s # <<>>, IsInjective(s)
    PROVE  /\ Tail(s) \in Seq(S) /\ IsInjective(Tail(s))
           /\ Head(s) \in S /\ Head(s) \in Range(s)
           /\ Range(Tail(s)) = Range(s) \ {Head(s)}
           /\ Len(Tail(s)) = Len(s) - 1 /\ Len(s) \in Nat \ {0}
  <1>1. /\ Head(s) \in S /\ Tail(s) \in Seq(S) /\ Len(s) \in Nat \ {0}
        /\ Len(Tail(s)) = Len(s) - 1
        /\ \A i \in 1 .. Len(Tail(s)) : Tail(s)[i] = s[i + 1]
        /\ Head(s) = s[1] /\ DOMAIN s = 1 .. Len(s)
        /\ DOMAIN Tail(s) = 1 .. Len(s) - 1
    BY HeadTailProperties
  <1> DEFINE t == Tail(s)
             h == Head(s)
  <1>2. IsInjective(t)
    BY <1>1 DEF IsInjective
  <1>3. Range(t) = Range(s) \ {h}
    <2>1. ASSUME NEW i \in 1 .. Len(s), s[i] # h
          PROVE  s[i] = t[i - 1] /\ i - 1 \in DOMAIN t
      BY <1>1, <2>1
    <2>2. ASSUME NEW i \in DOMAIN t
          PROVE  t[i] = s[i + 1] /\ i + 1 \in DOMAIN s /\ s[i + 1] # h
      BY <1>1, <2>2 DEF IsInjective
    <2>3. ASSUME NEW x \in Range(s), x # h PROVE x \in Range(t)
      <3>1. PICK i \in 1 .. Len(s) : x = s[i]
        BY <1>1 DEF Range
      <3> QED
        BY <2>1, <2>3, <3>1 DEF Range
    <2>4. ASSUME NEW x \in Range(t) PROVE x \in Range(s) /\ x # h
      BY <2>2, <2>4 DEF Range
    <2> QED
      BY <2>3, <2>4
  <1>4. h \in Range(s)
    <2>1. 1 \in DOMAIN s /\ s[1] = h
      BY <1>1
    <2> QED
      BY ONLY <2>1 DEF Range
  <1> QED
    BY <1>1, <1>2, <1>3, <1>4

\* An empty queue has no repetition.
LEMMA EmptyIsInjective ==
    ASSUME NEW S
    PROVE  <<>> \in Seq(S) /\ IsInjective(<<>>) /\ Range(<<>>) = {} /\ Len(<<>>) = 0
  BY DEF IsInjective, Range

\* The sequence of a finite set has each of its elements once.
LEMMA SetToSeqOf ==
    ASSUME NEW S, IsFiniteSet(S)
    PROVE  /\ SetToSeq(S) \in Seq(S) /\ IsInjective(SetToSeq(S))
           /\ Len(SetToSeq(S)) = Cardinality(S) /\ Cardinality(S) \in Nat
           /\ {SetToSeq(S)[i] : i \in DOMAIN SetToSeq(S)} = S
  <1> DEFINE n == Cardinality(S)
             q == SetToSeq(S)
  <1>1. n \in Nat /\ ExistsBijection(1 .. n, S)
    BY FS_CardinalityType
  <1>2. PICK f \in Bijection(1 .. n, S) : TRUE
    BY <1>1 DEF ExistsBijection
  <1>3. f \in [1 .. n -> S] /\ IsInjective(f)
    BY <1>2 DEF Bijection, Injection
  <1>4. q \in [1 .. n -> S] /\ IsInjective(q)
    BY <1>3 DEF SetToSeq
  <1>5. q \in Seq(S) /\ Len(q) = n
    BY <1>1, <1>4
  <1>6. q \in Surjection(1 .. n, S)
    <2>1. q \in Injection(1 .. n, S)
      BY <1>4 DEF Injection
    <2>2. 1 \in Int /\ n \in Int
      BY <1>1
    <2>3. Cardinality(1 .. n) = IF 1 > n THEN 0 ELSE n - 1 + 1
      BY <2>2, FS_Interval
    <2>4. Cardinality(1 .. n) = Cardinality(S)
      BY <1>1, <2>3
    <2> QED
      BY <2>1, <2>4, FS_Injection
  <1>7. {q[i] : i \in DOMAIN q} = S
    BY <1>4, <1>6 DEF Surjection
  <1> QED
    BY <1>1, <1>4, <1>5, <1>7
-----------------------------------------------------------------------------

(* The client's buffers, whatever the client does and when the output is set *)
(* up: who has which mutex, what a flush has emptied, and how many buffers   *)
(* the semaphore may announce more than the queue holds.                     *)

InputBody == {"semaphore", "dequeue", "codecBuffer", "process"}
DstInputPlaces == InputBody \cup {"outer", "inner", "checks", "lock", "exited"}

OutputBody == {"noBuffer", "semaphore", "dequeue", "process", "awaitStart", "started",
               "decoded", "post"}
DstOutputPlaces ==
    OutputBody \cup {"outer", "paused", "resume", "inner", "checks", "lock", "exited"}

Emptied == {"emptied", "returned", "drained", "reset"}
Locked2 == Emptied \cup {"locked2"}
Stopped == Locked2 \cup {"stopped"}
Locked1 == Stopped \cup {"locked1"}
Flushing == Locked1 \cup {"marked", "woken"}
Exiting == {"exiting", "joinInput", "joinOutput", "ended"}
HandlerPlaces == Flushing \cup Exiting \cup {"idle"}

Types ==
    /\ currentState \in {"Idle", "Executing", "Pause", "Invalid"}
    /\ transientState \in {"Max", "LoadedToIdle", "IdleToExecuting",
                           "ExecutingToIdle", "IdleToLoaded"}
    /\ portState \in {"Idle", "Loaded", "Invalid"}
    /\ bBufferInOMX \subseteq Buffers /\ atClient \subseteq Buffers
    /\ outputDataBuffer \in Buffers \cup {NoBuffer}
    /\ bufferQ \in Seq(Buffers) /\ bufferSem \in Nat
    /\ call \in [at : {"none", "checked", "queued"}, buffer : Buffers \cup {NoBuffer}]
    /\ command \in {"none", "Flush"} \cup Targets

Flags ==
    /\ bIsPortFlushed \in BOOLEAN /\ pauseEvent \in BOOLEAN
    /\ bExitBufferProcessThread \in BOOLEAN
    /\ bStreamonOutbuf \in BOOLEAN /\ bConfiguredMFCDst \in BOOLEAN
    /\ bDestinationStart \in BOOLEAN /\ hDestinationStartEvent \in BOOLEAN

Mutexes ==
    /\ bufferMutex \in [1 .. 2 -> {"free", "DstInput", "DstOutput", "handler"}]
    /\ dstInput \in DstInputPlaces /\ dstOutput \in DstOutputPlaces
    /\ handler \in HandlerPlaces
    /\ dstInput \in InputBody => bufferMutex[1] = "DstInput"
    /\ dstOutput \in OutputBody => bufferMutex[2] = "DstOutput"
    /\ handler \in Locked1 => bufferMutex[1] = "handler"
    /\ handler \in Locked2 => bufferMutex[2] = "handler"

\* A command is one at a time, and the port is marked while it is flushed.
CommandUnderWay ==
    /\ handler \in Flushing => command \in {"Flush", "Idle"} /\ bIsPortFlushed
    /\ handler \in Exiting => command \in {"Loaded", "Invalid"}
    /\ bExitBufferProcessThread <=> handler \in Exiting
    /\ bIsPortFlushed => command = "Flush" \/ handler \in Flushing
    /\ handler \in {"joinOutput", "ended"} => dstInput = "exited"
    /\ handler = "ended" => dstOutput = "exited"

ClientKept ==
    /\ call.at = "checked" => call.buffer \in atClient
    /\ bBufferInOMX \cap atClient = {}
    /\ atClient \cap Inside = {}
    /\ IsInjective(bufferQ) /\ outputDataBuffer \notin Queued
    /\ dstOutput \in {"noBuffer", "semaphore", "dequeue"} => outputDataBuffer = NoBuffer

One(p) == IF p THEN 1 ELSE 0

\* What a flush and the end of the threads add to the semaphore.
Extra == IF handler \in {"woken", "locked1", "stopped", "locked2", "emptied", "returned",
                         "joinInput", "joinOutput", "ended"} THEN 2 ELSE 1

SemaphoreBounded ==
    /\ bufferSem + One(call.at = "queued") + One(dstOutput = "dequeue")
          <= Len(bufferQ) + Extra
    /\ handler = "drained" =>
          bufferSem + One(call.at = "queued") + One(call.at = "checked") <= 1

Kept == Types /\ Mutexes /\ CommandUnderWay /\ ClientKept /\ SemaphoreBounded


-----------------------------------------------------------------------------
(* The codec buffers, where the output is not flushed between its setup and  *)
(* its start: until the start the MFC has them all, and then each is in one  *)
(* place.                                                                    *)

CodecTypes ==
    /\ {dstInputData, processData} \subseteq CodecBuffers \cup {NoCodec}
    /\ codecBufferQ \in Seq(CodecBuffers) /\ codecSem \in Nat
    /\ mfcOutput \subseteq CodecBuffers
    /\ dstInput \in {"codecBuffer", "process"} <=> dstInputData # NoCodec
    /\ processData # NoCodec => dstOutput = "post"

CodecStages ==
    /\ ~ bDestinationStart =>
          codecBufferQ = <<>> /\ dstInputData = NoCodec /\ processData = NoCodec
    /\ ~ bConfiguredMFCDst => ~ bDestinationStart /\ mfcOutput = {}
    /\ SettingUp => mfcOutput = CodecBuffers /\ handler \in {"idle", "exiting"}
    /\ handler \in Stopped \cup {"joinOutput", "ended"} => mfcOutput = {}

CodecApart ==
    /\ IsInjective(codecBufferQ)
    /\ CodecQueued \cap mfcOutput = {}
    /\ {dstInputData, processData} \cap (CodecQueued \cup mfcOutput) = {}
    /\ dstInputData # NoCodec => dstInputData # processData

Woken == {"woken"} \cup Locked1

\* Every codec buffer in the queue is announced.  Before the start there are
\* none, and a flush is announced all the same; so the semaphore may be ahead
\* by as many, and by one while a flush or the end is under way.
CodecAnnounced ==
    /\ Len(codecBufferQ) <= codecSem + One(dstInput = "dequeue")
    /\ codecSem + One(dstInput = "dequeue") <= Len(codecBufferQ) + EarlyWakes
          + One(handler \in Woken \cup {"joinInput", "joinOutput", "ended"})
    /\ ~ bDestinationStart /\ command \in {"Flush", "Idle"} =>
          codecSem + One(handler \notin Woken) <= EarlyWakes

CodecKept == CodecTypes /\ CodecStages /\ CodecApart /\ CodecAnnounced


-----------------------------------------------------------------------------
(* Without a pause no more than one codec buffer is ever missing: it was     *)
(* dropped on the way to Idle, by a thread that does not take another before *)
(* the component executes again.                                             *)

CommandInOrder ==
    /\ command \notin {"Loaded", "Invalid"} =>
          currentState \in {"Idle", "Executing"} /\ portState = "Idle"
    /\ command \in {"none", "Flush"} /\ currentState = "Executing" => transientState = "Max"
    /\ command \in {"Executing", "Loaded"} => currentState = "Idle"

InTurn == InputBody \cup {"checks", "lock"}

FewLost ==
    bDestinationStart /\ command \in {"none", "Executing"} =>
        /\ \A c, d \in CodecLost : c = d
        /\ currentState = "Idle" /\ dstInput \in InTurn => CodecLost = {}


-----------------------------------------------------------------------------
(* A client that does not pass buffers while a command is under way: none    *)
(* comes while the port is flushed, so the flush finds them all.             *)

FlushFindsAll ==
    /\ call.at # "none" => command = "none"
    /\ handler \in Emptied => bufferQ = <<>>
    /\ NothingLost


-----------------------------------------------------------------------------
(* The steps, one by one.                                                    *)

\* All buffers are with the client at first.
LEMMA KeptInit ==
    ASSUME Init
    PROVE  Kept
  BY VdecPortAssumption, EmptyIsInjective
     DEF Init, PortInit, Kept, Types, Mutexes, CommandUnderWay, ClientKept, SemaphoreBounded,
         Inside, Queued, One, Extra, InputBody, DstInputPlaces, OutputBody, DstOutputPlaces,
         HandlerPlaces, Flushing, Locked1, Locked2, Stopped, Emptied, Exiting, NoCall

\* No step takes a buffer to two places, or makes the semaphore announce more.
LEMMA KeptStep ==
    ASSUME Kept, [Next]_vars
    PROVE  Kept'
  <1> USE VdecPortAssumption
      DEF Kept, Types, Mutexes, CommandUnderWay, ClientKept, SemaphoreBounded, Inside, One,
          Extra, InputBody, DstInputPlaces, OutputBody, DstOutputPlaces, HandlerPlaces,
          Flushing, Locked1, Locked2, Stopped, Emptied, Exiting,
          stateVars, queueVars, flowVars, portVars, inputThreadVars, outputThreadVars,
          codecVars, mfcVars, startVars, outputVars, NoCall
  <1>0. /\ Queued = Range(bufferQ) /\ Queued' = Range(bufferQ')
        /\ Range(bufferQ) \subseteq Buffers /\ Len(bufferQ) \in Nat
        /\ <<>> \in Seq(Buffers) /\ IsInjective(<<>>) /\ Range(<<>>) = {} /\ Len(<<>>) = 0
    BY EmptyIsInjective, LenProperties DEF Queued, Range
  <1>1. CASE UNCHANGED vars
    BY <1>0, <1>1 DEF vars
  <1>2. CASE (\E b \in Buffers : CallCheck(b)) /\ UNCHANGED outputVars
    BY <1>0, <1>2 DEF CallCheck
  <1>3. CASE CallQueue /\ UNCHANGED outputVars
    <2> USE <1>0, <1>3 DEF CallQueue
    <2>1. /\ call.buffer \in Buffers /\ call.buffer \notin Range(bufferQ)
          /\ call'.buffer = call.buffer /\ call'.at = "queued"
      OBVIOUS
    <2>2. /\ bufferQ' \in Seq(Buffers) /\ IsInjective(bufferQ')
          /\ Range(bufferQ') = Range(bufferQ) \cup {call.buffer}
          /\ Len(bufferQ') = Len(bufferQ) + 1
      BY <2>1, AppendIsInjective
    <2>3. Types'
      BY <2>1, <2>2
    <2>4. Mutexes'
      BY <2>1, <2>2
    <2>5. CommandUnderWay'
      BY <2>1, <2>2
    <2>6. ClientKept'
      BY <2>1, <2>2
    <2>7. SemaphoreBounded'
      BY <2>1, <2>2
    <2> QED
      BY <2>3, <2>4, <2>5, <2>6, <2>7
  <1>4. CASE CallPost /\ UNCHANGED outputVars
    BY <1>0, <1>4 DEF CallPost
  <1>5. CASE SendFlush /\ UNCHANGED outputVars
           /\ (command' \in {"Flush", "Idle"} => WithinEarlyWakes)
    BY <1>0, <1>5 DEF SendFlush, ClientMaySend
  <1>6. CASE (\E s \in Targets : SendStateSet(s)) /\ UNCHANGED outputVars
           /\ (command' \in {"Flush", "Idle"} => WithinEarlyWakes)
    BY <1>0, <1>6 DEF SendStateSet, ClientMaySend, Transitions
  <1>7. CASE ToExecuting /\ UNCHANGED outputVars
    BY <1>0, <1>7 DEF ToExecuting
  <1>8. CASE ToPause /\ UNCHANGED outputVars
    BY <1>0, <1>8 DEF ToPause
  <1>9. CASE InputFlushed /\ FlushMark /\ UNCHANGED outputVars
    BY <1>0, <1>9 DEF FlushMark
  <1>10. CASE FlushWake
    BY <1>0, <1>10 DEF FlushWake
  <1>11. CASE FlushLock1
    BY <1>0, <1>11 DEF FlushLock1, FlushLock, Lock
  <1>12. CASE FlushStop
    BY <1>0, <1>12 DEF FlushStop
  <1>13. CASE FlushLock2
    BY <1>0, <1>13 DEF FlushLock2, FlushLock, Lock
  <1>14. CASE FlushQueue
    <2> USE <1>0, <1>14 DEF FlushQueue, BufferReturn, PortMutexFree, DrainedSem
    <2>1. Types'
      OBVIOUS
    <2>2. Mutexes'
      OBVIOUS
    <2>3. CommandUnderWay'
      OBVIOUS
    <2>4. ClientKept'
      OBVIOUS
    <2>5. SemaphoreBounded'
      <3> DEFINE c == One(call.at = "queued")
                 d == One(dstOutput = "dequeue")
                 n == Len(bufferQ)
      <3>1. c \in {0, 1} /\ d \in {0, 1} /\ n \in Nat /\ bufferSem \in Nat
        OBVIOUS
      <3>2. bufferSem + c + d <= n + 2
        OBVIOUS
      <3>3. bufferSem' = IF bufferSem > n THEN bufferSem - n ELSE 0
        OBVIOUS
      <3>4. c' = c /\ d' = d /\ n' = 0 /\ Extra' = 2 /\ handler' # "drained"
        OBVIOUS
      <3> HIDE DEF c, d, n
      <3>5. bufferSem' + c' + d' <= n' + Extra'
        BY <3>1, <3>2, <3>3, <3>4
      <3> QED
        BY <3>4, <3>5 DEF c, d, n
    <2> QED
      BY <2>1, <2>2, <2>3, <2>4, <2>5
  <1>15. CASE FlushReturn
    <2> USE <1>0, <1>15 DEF FlushReturn, BufferReturn, PortMutexFree
    <2>1. Types'
      OBVIOUS
    <2>2. Mutexes'
      OBVIOUS
    <2>3. CommandUnderWay'
      OBVIOUS
    <2>4. ClientKept'
      OBVIOUS
    <2>5. SemaphoreBounded'
      OBVIOUS
    <2> QED
      BY <2>1, <2>2, <2>3, <2>4, <2>5
  <1>16. CASE FlushDrainSem /\ UNCHANGED outputVars
    BY <1>0, <1>16 DEF FlushDrainSem
  <1>17. CASE FlushResetQueue /\ UNCHANGED outputVars
    BY <1>0, <1>17 DEF FlushResetQueue
  <1>18. CASE FlushEnqueueAll
    <2> USE <1>0, <1>18 DEF FlushEnqueueAll, FlushDone, EnqueueAllBuffer
    <2>1. Types'
      OBVIOUS
    <2>2. Mutexes'
      OBVIOUS
    <2>3. CommandUnderWay'
      OBVIOUS
    <2>4. ClientKept'
      OBVIOUS
    <2>5. SemaphoreBounded'
      OBVIOUS
    <2> QED
      BY <2>1, <2>2, <2>3, <2>4, <2>5
  <1>19. CASE TerminateBegin /\ UNCHANGED outputVars
    BY <1>0, <1>19 DEF TerminateBegin
  <1>20. CASE TerminateDstInput
    BY <1>0, <1>20 DEF TerminateDstInput, PostIfNone
  <1>21. CASE TerminateDstOutput
    BY <1>0, <1>21 DEF TerminateDstOutput
  <1>22. CASE TerminateDone
    BY <1>0, <1>22 DEF TerminateDone
  <1>23. CASE BufferProcess_Create
    BY <1>0, <1>23 DEF BufferProcess_Create
  <1>24. CASE DstInputOuter
    BY <1>0, <1>24 DEF DstInputOuter, DstInputGoes
  <1>25. CASE DstInputInner
    BY <1>0, <1>25 DEF DstInputInner, DstInputGoes
  <1>26. CASE DstInputChecks
    BY <1>0, <1>26 DEF DstInputChecks, DstInputGoes
  <1>27. CASE DstInputUnflushed
    BY <1>0, <1>27 DEF DstInputUnflushed, DstInputGoes
  <1>28. CASE DstInputLock
    BY <1>0, <1>28 DEF DstInputLock, Lock
  <1>29. CASE DstInputWait
    BY <1>0, <1>29 DEF DstInputWait
  <1>30. CASE DstInputDequeue
    BY <1>0, <1>30 DEF DstInputDequeue
  <1>31. CASE DstInputGetsNothing
    BY <1>0, <1>31 DEF DstInputGetsNothing, DstInputUnlocks, Unlock
  <1>32. CASE DstInputDrops
    BY <1>0, <1>32 DEF DstInputDrops, DstInputUnlocks, Unlock
  <1>33. CASE DstIn
    BY <1>0, <1>33 DEF DstIn, DstInputUnlocks, Unlock
  <1>34. CASE DstOutputOuter
    BY <1>0, <1>34 DEF DstOutputOuter, DstOutputGoes
  <1>35. CASE DstOutputPaused
    BY <1>0, <1>35 DEF DstOutputPaused, DstOutputGoes
  <1>36. CASE DstOutputInner
    BY <1>0, <1>36 DEF DstOutputInner, DstOutputGoes
  <1>37. CASE DstOutputChecks
    BY <1>0, <1>37 DEF DstOutputChecks, DstOutputGoes
  <1>38. CASE DstOutputGetQueue
    BY <1>0, <1>38 DEF DstOutputGetQueue, DstOutputGoes
  <1>39. CASE DstOutputProcess
    BY <1>0, <1>39 DEF DstOutputProcess, DstOutputGoes
  <1>40. CASE DstOutputStarted
    BY <1>0, <1>40 DEF DstOutputStarted, DstOutputGoes
  <1>41. CASE DstOutputNoFrame
    BY <1>0, <1>41 DEF DstOutputNoFrame, DstOutputGoes
  <1>42. CASE DstOutputResume
    BY <1>0, <1>42 DEF DstOutputResume
  <1>43. CASE DstOutputLock
    BY <1>0, <1>43 DEF DstOutputLock, Lock
  <1>44. CASE DstOutputGetsNothing
    BY <1>0, <1>44 DEF DstOutputGetsNothing, DstOutputUnlocks, Unlock
  <1>45. CASE DstOutputWait
    BY <1>0, <1>45 DEF DstOutputWait
  <1>46. CASE DstOutputDequeue
    <2> USE <1>0, <1>46 DEF DstOutputDequeue
    <2>1. bufferQ' = Tail(bufferQ) /\ outputDataBuffer' = Head(bufferQ)
      OBVIOUS
    <2>2. /\ bufferQ' \in Seq(Buffers) /\ IsInjective(bufferQ')
          /\ outputDataBuffer' \in Range(bufferQ)
          /\ Range(bufferQ') = Range(bufferQ) \ {outputDataBuffer'}
          /\ Len(bufferQ') = Len(bufferQ) - 1
      BY <2>1, TailIsInjective
    <2>3. Types'
      BY <2>1, <2>2
    <2>4. Mutexes'
      BY <2>1, <2>2
    <2>5. CommandUnderWay'
      BY <2>1, <2>2
    <2>6. ClientKept'
      BY <2>1, <2>2
    <2>7. SemaphoreBounded'
      BY <2>1, <2>2
    <2> QED
      BY <2>3, <2>4, <2>5, <2>6, <2>7
  <1>47. CASE DstOutputResetEvent
    BY <1>0, <1>47 DEF DstOutputResetEvent
  <1>48. CASE DstOutputPost
    <2> USE <1>0, <1>48 DEF DstOutputPost, DstOutputUnlocks, Unlock, BufferReturn, PortMutexFree
    <2>1. Types'
      OBVIOUS
    <2>2. Mutexes'
      OBVIOUS
    <2>3. CommandUnderWay'
      OBVIOUS
    <2>4. ClientKept'
      OBVIOUS
    <2>5. SemaphoreBounded'
      OBVIOUS
    <2> QED
      BY <2>1, <2>2, <2>3, <2>4, <2>5
  <1>49. CASE DstOutputFrame
    BY <1>0, <1>49 DEF DstOutputFrame
  <1>50. CASE DstSetup
    BY <1>0, <1>50 DEF DstSetup
  <1>51. CASE DestinationStart
    BY <1>0, <1>51 DEF DestinationStart
  <1> QED
    BY <1>1, <1>2, <1>3, <1>4, <1>5, <1>6, <1>7, <1>8, <1>9, <1>10, <1>11, <1>12, <1>13,
       <1>14, <1>15, <1>16, <1>17, <1>18, <1>19, <1>20, <1>21, <1>22, <1>23, <1>24,
       <1>25, <1>26, <1>27, <1>28, <1>29, <1>30, <1>31, <1>32, <1>33, <1>34, <1>35,
       <1>36, <1>37, <1>38, <1>39, <1>40, <1>41, <1>42, <1>43, <1>44, <1>45, <1>46,
       <1>47, <1>48, <1>49, <1>50, <1>51,
       ZenonT(40) DEF Next, FillThisBuffer, SendCommand, Handler, DstInputThread,
       DstOutputThread

\* The flags are Boolean, whatever else holds.
LEMMA FlagsInit ==
    ASSUME Init
    PROVE  Flags
  BY DEF Init, PortInit, Flags

LEMMA FlagsStep ==
    ASSUME Flags, [Next]_vars
    PROVE  Flags'
  <1> USE DEF Flags, vars, stateVars, queueVars, flowVars, portVars, inputThreadVars,
          outputThreadVars, codecVars, mfcVars, startVars, outputVars
  <1>1. CASE FillThisBuffer /\ UNCHANGED outputVars
    BY <1>1, Zenon DEF FillThisBuffer, CallCheck, CallQueue, CallPost
  <1>2. CASE SendCommand /\ UNCHANGED outputVars
    BY <1>2, Zenon DEF SendCommand, SendFlush, SendStateSet
  <1>3. CASE Handler
    BY <1>3, ZenonT(60) DEF Handler,
       ToExecuting, ToPause, FlushMark, FlushWake, FlushLock1, FlushLock, Lock,
       FlushStop, FlushLock2, FlushQueue, BufferReturn, PortMutexFree, DrainedSem,
       FlushReturn, FlushDrainSem, FlushResetQueue, FlushEnqueueAll, FlushDone,
       EnqueueAllBuffer, TerminateBegin, TerminateDstInput, PostIfNone,
       TerminateDstOutput, TerminateDone, BufferProcess_Create
  <1>4. CASE DstInputThread
    BY <1>4, ZenonT(60) DEF DstInputThread,
       DstInputOuter, DstInputGoes, DstInputInner, DstInputChecks, DstInputUnflushed,
       DstInputLock, Lock, DstInputWait, DstInputDequeue, DstInputGetsNothing,
       DstInputUnlocks, Unlock, DstInputDrops, DstIn
  <1>5. CASE DstOutputThread
    BY <1>5, ZenonT(60) DEF DstOutputThread,
       DstOutputOuter, DstOutputGoes, DstOutputPaused, DstOutputInner, DstOutputChecks,
       DstOutputGetQueue, DstOutputProcess, DstOutputStarted, DstOutputNoFrame,
       DstOutputResume, DstOutputLock, Lock, DstOutputGetsNothing, DstOutputUnlocks,
       Unlock, DstOutputWait, DstOutputDequeue, DstOutputResetEvent, DstOutputPost,
       BufferReturn, PortMutexFree, DstOutputFrame
  <1>6. CASE DstOutputFrame \/ DstSetup \/ DestinationStart \/ UNCHANGED vars
    BY <1>6, Zenon DEF DstOutputFrame, DstSetup, DestinationStart
  <1> QED
    BY <1>1, <1>2, <1>3, <1>4, <1>5, <1>6, Zenon DEF Next

\* Where no flush comes between the setup and the start, no step takes a codec
\* buffer to two places, or leaves one in the queue unannounced.
LEMMA CodecStep ==
    ASSUME ~ SetupInFlush, Kept, CodecKept, [Next]_vars
    PROVE  CodecKept'
  <1> USE VdecPortAssumption, VdecOutputAssumption
      DEF Kept, Types, Mutexes, CommandUnderWay, One, InputBody, DstInputPlaces, OutputBody,
          DstOutputPlaces, HandlerPlaces, Flushing, Locked1, Locked2, Stopped, Emptied, Woken,
          Exiting, CodecKept, CodecTypes, CodecStages, CodecApart, CodecAnnounced, SettingUp,
          InputFlushed, Check_BufferProcess_State, WithinEarlyWakes,
          stateVars, queueVars, flowVars, portVars, inputThreadVars, outputThreadVars,
          codecVars, mfcVars, startVars, outputVars, NoCall
  <1>0. /\ CodecQueued = Range(codecBufferQ) /\ CodecQueued' = Range(codecBufferQ')
        /\ Range(codecBufferQ) \subseteq CodecBuffers /\ Len(codecBufferQ) \in Nat
        /\ <<>> \in Seq(CodecBuffers) /\ IsInjective(<<>>) /\ Range(<<>>) = {}
        /\ Len(<<>>) = 0
    BY EmptyIsInjective, LenProperties DEF CodecQueued, Range
  <1>1. CASE UNCHANGED vars
    BY <1>0, <1>1 DEF vars
  <1>2. CASE (\E b \in Buffers : CallCheck(b)) /\ UNCHANGED outputVars
    BY <1>0, <1>2 DEF CallCheck
  <1>3. CASE CallQueue /\ UNCHANGED outputVars
    BY <1>0, <1>3 DEF CallQueue
  <1>4. CASE CallPost /\ UNCHANGED outputVars
    BY <1>0, <1>4 DEF CallPost
  <1>5. CASE SendFlush /\ UNCHANGED outputVars
           /\ (command' \in {"Flush", "Idle"} => WithinEarlyWakes)
    BY <1>0, <1>5 DEF SendFlush, ClientMaySend
  <1>6. CASE (\E s \in Targets : SendStateSet(s)) /\ UNCHANGED outputVars
           /\ (command' \in {"Flush", "Idle"} => WithinEarlyWakes)
    BY <1>0, <1>6 DEF SendStateSet, ClientMaySend, Transitions
  <1>7. CASE ToExecuting /\ UNCHANGED outputVars
    BY <1>0, <1>7 DEF ToExecuting
  <1>8. CASE ToPause /\ UNCHANGED outputVars
    BY <1>0, <1>8 DEF ToPause
  <1>9. CASE InputFlushed /\ FlushMark /\ UNCHANGED outputVars
    BY <1>0, <1>9 DEF FlushMark
  <1>10. CASE FlushWake
    BY <1>0, <1>10 DEF FlushWake
  <1>11. CASE FlushLock1
    BY <1>0, <1>11 DEF FlushLock1, FlushLock, Lock
  <1>12. CASE FlushStop
    BY <1>0, <1>12 DEF FlushStop
  <1>13. CASE FlushLock2
    BY <1>0, <1>13 DEF FlushLock2, FlushLock, Lock
  <1>14. CASE FlushQueue
    BY <1>0, <1>14 DEF FlushQueue, BufferReturn, PortMutexFree, DrainedSem
  <1>15. CASE FlushReturn
    BY <1>0, <1>15 DEF FlushReturn, BufferReturn, PortMutexFree
  <1>16. CASE FlushDrainSem /\ UNCHANGED outputVars
    BY <1>0, <1>16 DEF FlushDrainSem
  <1>17. CASE FlushResetQueue /\ UNCHANGED outputVars
    BY <1>0, <1>17 DEF FlushResetQueue
  <1>18. CASE FlushEnqueueAll
    <2> USE <1>0, <1>18 DEF FlushEnqueueAll, FlushDone, EnqueueAllBuffer
    <2>1. dstInput \notin InputBody /\ dstOutput \notin OutputBody /\ mfcOutput = {}
      OBVIOUS
    <2>2. dstInputData = NoCodec /\ processData = NoCodec
      BY <2>1
    <2>3. CASE ~ bDestinationStart
      BY <2>1, <2>2, <2>3
    <2>4. CASE bDestinationStart
      <3>1. /\ codecBufferQ' \in Seq(CodecBuffers) /\ IsInjective(codecBufferQ')
            /\ Len(codecBufferQ') = Cardinality(CodecBuffers)
            /\ codecSem' = Cardinality(CodecBuffers) /\ codecSem' \in Nat
            /\ CodecQueued' = CodecBuffers
        BY <2>4, SetToSeqOf DEF CodecQueued
      <3>2. CodecTypes'
        BY <2>1, <2>2, <2>4, <3>1
      <3>3. CodecStages'
        BY <2>1, <2>2, <2>4, <3>1
      <3>4. CodecApart'
        BY <2>1, <2>2, <2>4, <3>1
      <3>5. CodecAnnounced'
        BY <2>1, <2>2, <2>4, <3>1
      <3> QED
        BY <3>2, <3>3, <3>4, <3>5
    <2> QED
      BY <2>3, <2>4
  <1>19. CASE TerminateBegin /\ UNCHANGED outputVars
    BY <1>0, <1>19 DEF TerminateBegin
  <1>20. CASE TerminateDstInput
    BY <1>0, <1>20 DEF TerminateDstInput, PostIfNone
  <1>21. CASE TerminateDstOutput
    BY <1>0, <1>21 DEF TerminateDstOutput
  <1>22. CASE TerminateDone
    BY <1>0, <1>22 DEF TerminateDone
  <1>23. CASE BufferProcess_Create
    BY <1>0, <1>23 DEF BufferProcess_Create
  <1>24. CASE DstInputOuter
    BY <1>0, <1>24 DEF DstInputOuter, DstInputGoes
  <1>25. CASE DstInputInner
    BY <1>0, <1>25 DEF DstInputInner, DstInputGoes
  <1>26. CASE DstInputChecks
    BY <1>0, <1>26 DEF DstInputChecks, DstInputGoes
  <1>27. CASE DstInputUnflushed
    BY <1>0, <1>27 DEF DstInputUnflushed, DstInputGoes
  <1>28. CASE DstInputLock
    BY <1>0, <1>28 DEF DstInputLock, Lock
  <1>29. CASE DstInputWait
    BY <1>0, <1>29 DEF DstInputWait
  <1>30. CASE DstInputDequeue
    <2> USE <1>0, <1>30 DEF DstInputDequeue
    <2>1. codecBufferQ' = Tail(codecBufferQ) /\ dstInputData' = Head(codecBufferQ)
      OBVIOUS
    <2>2. /\ codecBufferQ' \in Seq(CodecBuffers) /\ IsInjective(codecBufferQ')
          /\ dstInputData' \in Range(codecBufferQ)
          /\ Range(codecBufferQ') = Range(codecBufferQ) \ {dstInputData'}
          /\ Len(codecBufferQ') = Len(codecBufferQ) - 1
      BY <2>1, TailIsInjective
    <2>3. CodecTypes'
      BY <2>2
    <2>4. CodecStages'
      BY <2>2
    <2>5. CodecApart'
      BY <2>2
    <2>6. CodecAnnounced'
      BY <2>2
    <2> QED
      BY <2>3, <2>4, <2>5, <2>6
  <1>31. CASE DstInputGetsNothing
    BY <1>0, <1>31 DEF DstInputGetsNothing, DstInputUnlocks, Unlock
  <1>32. CASE DstInputDrops
    BY <1>0, <1>32 DEF DstInputDrops, DstInputUnlocks, Unlock
  <1>33. CASE DstIn
    BY <1>0, <1>33 DEF DstIn, DstInputUnlocks, Unlock
  <1>34. CASE DstOutputOuter
    BY <1>0, <1>34 DEF DstOutputOuter, DstOutputGoes
  <1>35. CASE DstOutputPaused
    BY <1>0, <1>35 DEF DstOutputPaused, DstOutputGoes
  <1>36. CASE DstOutputInner
    BY <1>0, <1>36 DEF DstOutputInner, DstOutputGoes
  <1>37. CASE DstOutputChecks
    BY <1>0, <1>37 DEF DstOutputChecks, DstOutputGoes
  <1>38. CASE DstOutputGetQueue
    BY <1>0, <1>38 DEF DstOutputGetQueue, DstOutputGoes
  <1>39. CASE DstOutputProcess
    BY <1>0, <1>39 DEF DstOutputProcess, DstOutputGoes
  <1>40. CASE DstOutputStarted
    BY <1>0, <1>40 DEF DstOutputStarted, DstOutputGoes
  <1>41. CASE DstOutputNoFrame
    BY <1>0, <1>41 DEF DstOutputNoFrame, DstOutputGoes
  <1>42. CASE DstOutputResume
    BY <1>0, <1>42 DEF DstOutputResume
  <1>43. CASE DstOutputLock
    BY <1>0, <1>43 DEF DstOutputLock, Lock
  <1>44. CASE DstOutputGetsNothing
    BY <1>0, <1>44 DEF DstOutputGetsNothing, DstOutputUnlocks, Unlock
  <1>45. CASE DstOutputWait
    BY <1>0, <1>45 DEF DstOutputWait
  <1>46. CASE DstOutputDequeue
    BY <1>0, <1>46 DEF DstOutputDequeue
  <1>47. CASE DstOutputResetEvent
    BY <1>0, <1>47 DEF DstOutputResetEvent
  <1>48. CASE DstOutputPost
    <2> USE <1>0, <1>48 DEF DstOutputPost, DstOutputUnlocks, Unlock, BufferReturn, PortMutexFree
    <2>1. CASE processData = NoCodec
      BY <2>1
    <2>2. CASE processData # NoCodec
      <3>1. /\ codecBufferQ' = Append(codecBufferQ, processData)
            /\ processData \in CodecBuffers \ Range(codecBufferQ)
        BY <2>2
      <3>2. /\ codecBufferQ' \in Seq(CodecBuffers) /\ IsInjective(codecBufferQ')
            /\ Range(codecBufferQ') = Range(codecBufferQ) \cup {processData}
            /\ Len(codecBufferQ') = Len(codecBufferQ) + 1
        BY <3>1, AppendIsInjective
      <3>3. CodecTypes'
        BY <2>2, <3>1, <3>2
      <3>4. CodecStages'
        BY <2>2, <3>1, <3>2
      <3>5. CodecApart'
        BY <2>2, <3>1, <3>2
      <3>6. CodecAnnounced'
        BY <2>2, <3>1, <3>2
      <3> QED
        BY <3>3, <3>4, <3>5, <3>6
    <2> QED
      BY <2>1, <2>2
  <1>49. CASE DstOutputFrame
    BY <1>0, <1>49 DEF DstOutputFrame
  <1>50. CASE DstSetup
    BY <1>0, <1>50 DEF DstSetup
  <1>51. CASE DestinationStart
    BY <1>0, <1>51 DEF DestinationStart
  <1> QED
    BY <1>1, <1>2, <1>3, <1>4, <1>5, <1>6, <1>7, <1>8, <1>9, <1>10, <1>11, <1>12, <1>13,
       <1>14, <1>15, <1>16, <1>17, <1>18, <1>19, <1>20, <1>21, <1>22, <1>23, <1>24,
       <1>25, <1>26, <1>27, <1>28, <1>29, <1>30, <1>31, <1>32, <1>33, <1>34, <1>35,
       <1>36, <1>37, <1>38, <1>39, <1>40, <1>41, <1>42, <1>43, <1>44, <1>45, <1>46,
       <1>47, <1>48, <1>49, <1>50, <1>51,
       ZenonT(40) DEF Next, FillThisBuffer, SendCommand, Handler, DstInputThread,
       DstOutputThread

\* Without a pause DstInput drops one codec buffer at most before the next flush
\* makes the queue anew.
LEMMA LostStep ==
    ASSUME "Pause" \notin Targets, ~ SetupInFlush,
           Kept, CodecKept, CommandInOrder, FewLost, [Next]_vars
    PROVE  CommandInOrder' /\ FewLost'
  <1> USE VdecPortAssumption, VdecOutputAssumption
      DEF Kept, Types, Mutexes, CommandUnderWay, One, InputBody, DstInputPlaces, OutputBody,
          DstOutputPlaces, HandlerPlaces, Flushing, Locked1, Locked2, Stopped, Emptied, Woken,
          Exiting, CodecKept, CodecTypes, CodecStages, CodecApart, CodecAnnounced, SettingUp,
          CommandInOrder, FewLost, CodecLost, InTurn,
          InputFlushed, Check_BufferProcess_State, WithinEarlyWakes,
          stateVars, queueVars, flowVars, portVars, inputThreadVars, outputThreadVars,
          codecVars, mfcVars, startVars, outputVars, NoCall
  <1>0. /\ CodecQueued = Range(codecBufferQ) /\ CodecQueued' = Range(codecBufferQ')
        /\ Range(codecBufferQ) \subseteq CodecBuffers /\ Len(codecBufferQ) \in Nat
        /\ <<>> \in Seq(CodecBuffers) /\ IsInjective(<<>>) /\ Range(<<>>) = {}
        /\ Len(<<>>) = 0
    BY EmptyIsInjective, LenProperties DEF CodecQueued, Range
  <1>1. CASE UNCHANGED vars
    BY <1>0, <1>1 DEF vars
  <1>2. CASE (\E b \in Buffers : CallCheck(b)) /\ UNCHANGED outputVars
    BY <1>0, <1>2 DEF CallCheck
  <1>3. CASE CallQueue /\ UNCHANGED outputVars
    BY <1>0, <1>3 DEF CallQueue
  <1>4. CASE CallPost /\ UNCHANGED outputVars
    BY <1>0, <1>4 DEF CallPost
  <1>5. CASE SendFlush /\ UNCHANGED outputVars
           /\ (command' \in {"Flush", "Idle"} => WithinEarlyWakes)
    BY <1>0, <1>5 DEF SendFlush, ClientMaySend
  <1>6. CASE (\E s \in Targets : SendStateSet(s)) /\ UNCHANGED outputVars
           /\ (command' \in {"Flush", "Idle"} => WithinEarlyWakes)
    BY <1>0, <1>6 DEF SendStateSet, ClientMaySend, Transitions
  <1>7. CASE ToExecuting /\ UNCHANGED outputVars
    BY <1>0, <1>7 DEF ToExecuting
  <1>8. CASE ToPause /\ UNCHANGED outputVars
    BY <1>0, <1>8 DEF ToPause
  <1>9. CASE InputFlushed /\ FlushMark /\ UNCHANGED outputVars
    BY <1>0, <1>9 DEF FlushMark
  <1>10. CASE FlushWake
    BY <1>0, <1>10 DEF FlushWake
  <1>11. CASE FlushLock1
    BY <1>0, <1>11 DEF FlushLock1, FlushLock, Lock
  <1>12. CASE FlushStop
    BY <1>0, <1>12 DEF FlushStop
  <1>13. CASE FlushLock2
    BY <1>0, <1>13 DEF FlushLock2, FlushLock, Lock
  <1>14. CASE FlushQueue
    BY <1>0, <1>14 DEF FlushQueue, BufferReturn, PortMutexFree, DrainedSem
  <1>15. CASE FlushReturn
    BY <1>0, <1>15 DEF FlushReturn, BufferReturn, PortMutexFree
  <1>16. CASE FlushDrainSem /\ UNCHANGED outputVars
    BY <1>0, <1>16 DEF FlushDrainSem
  <1>17. CASE FlushResetQueue /\ UNCHANGED outputVars
    BY <1>0, <1>17 DEF FlushResetQueue
  <1>18. CASE FlushEnqueueAll
    <2> USE <1>0, <1>18 DEF FlushEnqueueAll, FlushDone, EnqueueAllBuffer
    <2>1. bDestinationStart => CodecQueued' = CodecBuffers
      BY SetToSeqOf DEF CodecQueued
    <2>2. CommandInOrder'
      BY <2>1
    <2>3. CASE bDestinationStart
      <3>1. CodecLost' = {}
        BY <2>1, <2>3
      <3> QED
        BY <2>2, <3>1
    <2>4. CASE ~ bDestinationStart
      BY <2>2, <2>4
    <2> QED
      BY <2>3, <2>4
  <1>19. CASE TerminateBegin /\ UNCHANGED outputVars
    BY <1>0, <1>19 DEF TerminateBegin
  <1>20. CASE TerminateDstInput
    BY <1>0, <1>20 DEF TerminateDstInput, PostIfNone
  <1>21. CASE TerminateDstOutput
    BY <1>0, <1>21 DEF TerminateDstOutput
  <1>22. CASE TerminateDone
    BY <1>0, <1>22 DEF TerminateDone
  <1>23. CASE BufferProcess_Create
    BY <1>0, <1>23 DEF BufferProcess_Create
  <1>24. CASE DstInputOuter
    BY <1>0, <1>24 DEF DstInputOuter, DstInputGoes
  <1>25. CASE DstInputInner
    BY <1>0, <1>25 DEF DstInputInner, DstInputGoes
  <1>26. CASE DstInputChecks
    BY <1>0, <1>26 DEF DstInputChecks, DstInputGoes
  <1>27. CASE DstInputUnflushed
    BY <1>0, <1>27 DEF DstInputUnflushed, DstInputGoes
  <1>28. CASE DstInputLock
    BY <1>0, <1>28 DEF DstInputLock, Lock
  <1>29. CASE DstInputWait
    BY <1>0, <1>29 DEF DstInputWait
  <1>30. CASE DstInputDequeue
    <2> USE <1>0, <1>30 DEF DstInputDequeue
    <2>1. codecBufferQ' = Tail(codecBufferQ) /\ dstInputData' = Head(codecBufferQ)
      OBVIOUS
    <2>2. /\ codecBufferQ' \in Seq(CodecBuffers) /\ IsInjective(codecBufferQ')
          /\ dstInputData' \in Range(codecBufferQ)
          /\ Range(codecBufferQ') = Range(codecBufferQ) \ {dstInputData'}
          /\ Len(codecBufferQ') = Len(codecBufferQ) - 1
      BY <2>1, TailIsInjective
    <2>3. CommandInOrder'
      BY <2>2
    <2>4. FewLost'
      BY <2>2
    <2> QED
      BY <2>3, <2>4
  <1>31. CASE DstInputGetsNothing
    BY <1>0, <1>31 DEF DstInputGetsNothing, DstInputUnlocks, Unlock
  <1>32. CASE DstInputDrops
    BY <1>0, <1>32 DEF DstInputDrops, DstInputUnlocks, Unlock
  <1>33. CASE DstIn
    BY <1>0, <1>33 DEF DstIn, DstInputUnlocks, Unlock
  <1>34. CASE DstOutputOuter
    BY <1>0, <1>34 DEF DstOutputOuter, DstOutputGoes
  <1>35. CASE DstOutputPaused
    BY <1>0, <1>35 DEF DstOutputPaused, DstOutputGoes
  <1>36. CASE DstOutputInner
    BY <1>0, <1>36 DEF DstOutputInner, DstOutputGoes
  <1>37. CASE DstOutputChecks
    BY <1>0, <1>37 DEF DstOutputChecks, DstOutputGoes
  <1>38. CASE DstOutputGetQueue
    BY <1>0, <1>38 DEF DstOutputGetQueue, DstOutputGoes
  <1>39. CASE DstOutputProcess
    BY <1>0, <1>39 DEF DstOutputProcess, DstOutputGoes
  <1>40. CASE DstOutputStarted
    BY <1>0, <1>40 DEF DstOutputStarted, DstOutputGoes
  <1>41. CASE DstOutputNoFrame
    BY <1>0, <1>41 DEF DstOutputNoFrame, DstOutputGoes
  <1>42. CASE DstOutputResume
    BY <1>0, <1>42 DEF DstOutputResume
  <1>43. CASE DstOutputLock
    BY <1>0, <1>43 DEF DstOutputLock, Lock
  <1>44. CASE DstOutputGetsNothing
    BY <1>0, <1>44 DEF DstOutputGetsNothing, DstOutputUnlocks, Unlock
  <1>45. CASE DstOutputWait
    BY <1>0, <1>45 DEF DstOutputWait
  <1>46. CASE DstOutputDequeue
    BY <1>0, <1>46 DEF DstOutputDequeue
  <1>47. CASE DstOutputResetEvent
    BY <1>0, <1>47 DEF DstOutputResetEvent
  <1>48. CASE DstOutputPost
    <2> USE <1>0, <1>48 DEF DstOutputPost, DstOutputUnlocks, Unlock, BufferReturn, PortMutexFree
    <2>1. CASE processData = NoCodec
      BY <2>1
    <2>2. CASE processData # NoCodec
      <3>1. /\ codecBufferQ' = Append(codecBufferQ, processData)
            /\ processData \in CodecBuffers \ Range(codecBufferQ)
        BY <2>2
      <3>2. /\ codecBufferQ' \in Seq(CodecBuffers) /\ IsInjective(codecBufferQ')
            /\ Range(codecBufferQ') = Range(codecBufferQ) \cup {processData}
            /\ Len(codecBufferQ') = Len(codecBufferQ) + 1
        BY <3>1, AppendIsInjective
      <3>3. CommandInOrder'
        BY <2>2, <3>1, <3>2
      <3>4. FewLost'
        BY <2>2, <3>1, <3>2
      <3> QED
        BY <3>3, <3>4
    <2> QED
      BY <2>1, <2>2
  <1>49. CASE DstOutputFrame
    BY <1>0, <1>49 DEF DstOutputFrame
  <1>50. CASE DstSetup
    BY <1>0, <1>50 DEF DstSetup
  <1>51. CASE DestinationStart
    BY <1>0, <1>51 DEF DestinationStart
  <1> QED
    BY <1>1, <1>2, <1>3, <1>4, <1>5, <1>6, <1>7, <1>8, <1>9, <1>10, <1>11, <1>12, <1>13,
       <1>14, <1>15, <1>16, <1>17, <1>18, <1>19, <1>20, <1>21, <1>22, <1>23, <1>24,
       <1>25, <1>26, <1>27, <1>28, <1>29, <1>30, <1>31, <1>32, <1>33, <1>34, <1>35,
       <1>36, <1>37, <1>38, <1>39, <1>40, <1>41, <1>42, <1>43, <1>44, <1>45, <1>46,
       <1>47, <1>48, <1>49, <1>50, <1>51,
       ZenonT(40) DEF Next, FillThisBuffer, SendCommand, Handler, DstInputThread,
       DstOutputThread

\* With a client that passes no buffer while a command is under way, no buffer
\* that is marked is missed by a flush.
LEMMA ExactStep ==
    ASSUME ~ Overlaps, Kept, FlushFindsAll, [Next]_vars
    PROVE  FlushFindsAll'
  <1> USE VdecPortAssumption
      DEF Kept, Types, Mutexes, CommandUnderWay, ClientKept, FlushFindsAll, NothingLost, Inside,
          OutputBody, Emptied, Locked2, Stopped, Locked1, Flushing, Exiting,
          stateVars, queueVars, flowVars, portVars, inputThreadVars, outputThreadVars,
          codecVars, mfcVars, startVars, outputVars, NoCall
  <1>0. /\ Queued = Range(bufferQ) /\ Queued' = Range(bufferQ')
        /\ Range(bufferQ) \subseteq Buffers /\ Len(bufferQ) \in Nat
        /\ <<>> \in Seq(Buffers) /\ IsInjective(<<>>) /\ Range(<<>>) = {} /\ Len(<<>>) = 0
    BY EmptyIsInjective, LenProperties DEF Queued, Range
  <1>1. CASE UNCHANGED vars
    BY <1>0, <1>1 DEF vars
  <1>2. CASE (\E b \in Buffers : CallCheck(b)) /\ UNCHANGED outputVars
    BY <1>0, <1>2 DEF CallCheck
  <1>3. CASE CallQueue /\ UNCHANGED outputVars
    <2> USE <1>0, <1>3 DEF CallQueue
    <2>1. /\ call.buffer \in Buffers /\ call.buffer \notin Range(bufferQ)
          /\ call'.buffer = call.buffer /\ call'.at = "queued"
      OBVIOUS
    <2>2. /\ bufferQ' \in Seq(Buffers) /\ IsInjective(bufferQ')
          /\ Range(bufferQ') = Range(bufferQ) \cup {call.buffer}
          /\ Len(bufferQ') = Len(bufferQ) + 1
      BY <2>1, AppendIsInjective
    <2> QED
      BY <2>1, <2>2
  <1>4. CASE CallPost /\ UNCHANGED outputVars
    BY <1>0, <1>4 DEF CallPost
  <1>5. CASE SendFlush /\ UNCHANGED outputVars
           /\ (command' \in {"Flush", "Idle"} => WithinEarlyWakes)
    BY <1>0, <1>5 DEF SendFlush, ClientMaySend
  <1>6. CASE (\E s \in Targets : SendStateSet(s)) /\ UNCHANGED outputVars
           /\ (command' \in {"Flush", "Idle"} => WithinEarlyWakes)
    BY <1>0, <1>6 DEF SendStateSet, ClientMaySend, Transitions
  <1>7. CASE ToExecuting /\ UNCHANGED outputVars
    BY <1>0, <1>7 DEF ToExecuting
  <1>8. CASE ToPause /\ UNCHANGED outputVars
    BY <1>0, <1>8 DEF ToPause
  <1>9. CASE InputFlushed /\ FlushMark /\ UNCHANGED outputVars
    BY <1>0, <1>9 DEF FlushMark
  <1>10. CASE FlushWake
    BY <1>0, <1>10 DEF FlushWake
  <1>11. CASE FlushLock1
    BY <1>0, <1>11 DEF FlushLock1, FlushLock, Lock
  <1>12. CASE FlushStop
    BY <1>0, <1>12 DEF FlushStop
  <1>13. CASE FlushLock2
    BY <1>0, <1>13 DEF FlushLock2, FlushLock, Lock
  <1>14. CASE FlushQueue
    BY <1>0, <1>14 DEF FlushQueue, BufferReturn, PortMutexFree, DrainedSem
  <1>15. CASE FlushReturn
    BY <1>0, <1>15 DEF FlushReturn, BufferReturn, PortMutexFree
  <1>16. CASE FlushDrainSem /\ UNCHANGED outputVars
    BY <1>0, <1>16 DEF FlushDrainSem
  <1>17. CASE FlushResetQueue /\ UNCHANGED outputVars
    BY <1>0, <1>17 DEF FlushResetQueue
  <1>18. CASE FlushEnqueueAll
    BY <1>0, <1>18 DEF FlushEnqueueAll, FlushDone, EnqueueAllBuffer
  <1>19. CASE TerminateBegin /\ UNCHANGED outputVars
    BY <1>0, <1>19 DEF TerminateBegin
  <1>20. CASE TerminateDstInput
    BY <1>0, <1>20 DEF TerminateDstInput, PostIfNone
  <1>21. CASE TerminateDstOutput
    BY <1>0, <1>21 DEF TerminateDstOutput
  <1>22. CASE TerminateDone
    BY <1>0, <1>22 DEF TerminateDone
  <1>23. CASE BufferProcess_Create
    BY <1>0, <1>23 DEF BufferProcess_Create
  <1>24. CASE DstInputOuter
    BY <1>0, <1>24 DEF DstInputOuter, DstInputGoes
  <1>25. CASE DstInputInner
    BY <1>0, <1>25 DEF DstInputInner, DstInputGoes
  <1>26. CASE DstInputChecks
    BY <1>0, <1>26 DEF DstInputChecks, DstInputGoes
  <1>27. CASE DstInputUnflushed
    BY <1>0, <1>27 DEF DstInputUnflushed, DstInputGoes
  <1>28. CASE DstInputLock
    BY <1>0, <1>28 DEF DstInputLock, Lock
  <1>29. CASE DstInputWait
    BY <1>0, <1>29 DEF DstInputWait
  <1>30. CASE DstInputDequeue
    BY <1>0, <1>30 DEF DstInputDequeue
  <1>31. CASE DstInputGetsNothing
    BY <1>0, <1>31 DEF DstInputGetsNothing, DstInputUnlocks, Unlock
  <1>32. CASE DstInputDrops
    BY <1>0, <1>32 DEF DstInputDrops, DstInputUnlocks, Unlock
  <1>33. CASE DstIn
    BY <1>0, <1>33 DEF DstIn, DstInputUnlocks, Unlock
  <1>34. CASE DstOutputOuter
    BY <1>0, <1>34 DEF DstOutputOuter, DstOutputGoes
  <1>35. CASE DstOutputPaused
    BY <1>0, <1>35 DEF DstOutputPaused, DstOutputGoes
  <1>36. CASE DstOutputInner
    BY <1>0, <1>36 DEF DstOutputInner, DstOutputGoes
  <1>37. CASE DstOutputChecks
    BY <1>0, <1>37 DEF DstOutputChecks, DstOutputGoes
  <1>38. CASE DstOutputGetQueue
    BY <1>0, <1>38 DEF DstOutputGetQueue, DstOutputGoes
  <1>39. CASE DstOutputProcess
    BY <1>0, <1>39 DEF DstOutputProcess, DstOutputGoes
  <1>40. CASE DstOutputStarted
    BY <1>0, <1>40 DEF DstOutputStarted, DstOutputGoes
  <1>41. CASE DstOutputNoFrame
    BY <1>0, <1>41 DEF DstOutputNoFrame, DstOutputGoes
  <1>42. CASE DstOutputResume
    BY <1>0, <1>42 DEF DstOutputResume
  <1>43. CASE DstOutputLock
    BY <1>0, <1>43 DEF DstOutputLock, Lock
  <1>44. CASE DstOutputGetsNothing
    BY <1>0, <1>44 DEF DstOutputGetsNothing, DstOutputUnlocks, Unlock
  <1>45. CASE DstOutputWait
    BY <1>0, <1>45 DEF DstOutputWait
  <1>46. CASE DstOutputDequeue
    <2> USE <1>0, <1>46 DEF DstOutputDequeue
    <2>1. bufferQ' = Tail(bufferQ) /\ outputDataBuffer' = Head(bufferQ)
      OBVIOUS
    <2>2. /\ bufferQ' \in Seq(Buffers) /\ IsInjective(bufferQ')
          /\ outputDataBuffer' \in Range(bufferQ)
          /\ Range(bufferQ') = Range(bufferQ) \ {outputDataBuffer'}
          /\ Len(bufferQ') = Len(bufferQ) - 1
      BY <2>1, TailIsInjective
    <2> QED
      BY <2>1, <2>2
  <1>47. CASE DstOutputResetEvent
    BY <1>0, <1>47 DEF DstOutputResetEvent
  <1>48. CASE DstOutputPost
    BY <1>0, <1>48 DEF DstOutputPost, DstOutputUnlocks, Unlock, BufferReturn, PortMutexFree
  <1>49. CASE DstOutputFrame
    BY <1>0, <1>49 DEF DstOutputFrame
  <1>50. CASE DstSetup
    BY <1>0, <1>50 DEF DstSetup
  <1>51. CASE DestinationStart
    BY <1>0, <1>51 DEF DestinationStart
  <1> QED
    BY <1>1, <1>2, <1>3, <1>4, <1>5, <1>6, <1>7, <1>8, <1>9, <1>10, <1>11, <1>12, <1>13,
       <1>14, <1>15, <1>16, <1>17, <1>18, <1>19, <1>20, <1>21, <1>22, <1>23, <1>24,
       <1>25, <1>26, <1>27, <1>28, <1>29, <1>30, <1>31, <1>32, <1>33, <1>34, <1>35,
       <1>36, <1>37, <1>38, <1>39, <1>40, <1>41, <1>42, <1>43, <1>44, <1>45, <1>46,
       <1>47, <1>48, <1>49, <1>50, <1>51,
       ZenonT(40) DEF Next, FillThisBuffer, SendCommand, Handler, DstInputThread,
       DstOutputThread

\* Nothing is queued and the MFC has nothing before its setup.
LEMMA CodecInit ==
    ASSUME Init
    PROVE  CodecKept /\ CommandInOrder /\ FewLost /\ FlushFindsAll
  BY VdecOutputAssumption, VdecPortAssumption, EmptyIsInjective
     DEF Init, PortInit, CodecKept, CodecTypes, CodecStages, CodecApart, CodecAnnounced,
         CodecQueued, SettingUp, One, CommandInOrder, FewLost, FlushFindsAll, NothingLost,
         Inside, Queued, Emptied, Stopped, Locked2, Woken, Locked1, NoCall

-----------------------------------------------------------------------------
(* What the invariants say of the properties.                                *)

\* A queue without repetition is as long as it has elements.
LEMMA AsLongAsItsRange ==
    ASSUME NEW S, IsFiniteSet(S), NEW s \in Seq(S), IsInjective(s)
    PROVE  Len(s) = Cardinality({s[i] : i \in DOMAIN s})
  <1> DEFINE n == Len(s)
             R == {s[i] : i \in DOMAIN s}
  <1>1. n \in Nat /\ DOMAIN s = 1 .. n /\ R \subseteq S
    BY LenProperties
  <1>2. IsFiniteSet(R)
    BY <1>1, FS_Subset
  <1>3. s \in Injection(1 .. n, R) /\ s \in Surjection(1 .. n, R)
    BY <1>1 DEF IsInjective, Injection, Surjection
  <1>4. s \in Bijection(1 .. n, R)
    BY <1>3 DEF Bijection
  <1>5. ExistsBijection(1 .. n, R)
    BY <1>4 DEF ExistsBijection
  <1> QED
    BY <1>1, <1>2, <1>5, FS_CountingElements

\* The queue and the buffer of the DstOutput thread are the places there are.
LEMMA KeptMeansOnePlace ==
    ASSUME Kept
    PROVE  OnePlace
  BY VdecPortAssumption, AsLongAsItsRange DEF Kept, ClientKept, Types, OnePlace, Queued

\* The codec buffers are in one place each.
LEMMA CodecKeptMeansOnePlace ==
    ASSUME CodecKept
    PROVE  CodecOnePlace
  BY VdecOutputAssumption, AsLongAsItsRange
     DEF CodecKept, CodecApart, CodecTypes, CodecOnePlace, CodecQueued

\* Two codec buffers that are missing are one.
LEMMA CodecKeptMeansKept ==
    ASSUME CodecKept, Mutexes, FewLost
    PROVE  CodecBuffersKept
  <1> SUFFICES ASSUME bConfiguredMFCDst, command = "none"
               PROVE  /\ Cardinality(CodecLost) <= 1
                      /\ Len(codecBufferQ) <= codecSem + (IF dstInput = "dequeue" THEN 1 ELSE 0)
    BY DEF CodecBuffersKept
  <1>1. \A c, d \in CodecLost : c = d
    <2>1. CASE bDestinationStart
      BY <2>1 DEF FewLost
    <2>2. CASE ~ bDestinationStart
      BY <2>2 DEF CodecKept, CodecStages, SettingUp, CodecLost
    <2> QED
      BY <2>1, <2>2
  <1>2. Cardinality(CodecLost) <= 1
    <2>1. CASE CodecLost = {}
      BY <2>1, FS_EmptySet
    <2>2. CASE CodecLost # {}
      <3>1. PICK c \in CodecLost : CodecLost = {c}
        BY <1>1, <2>2
      <3>2. Cardinality({c}) = 1
        BY FS_Singleton
      <3> QED
        BY <3>1, <3>2
    <2> QED
      BY <2>1, <2>2
  <1> QED
    BY <1>2 DEF CodecKept, CodecAnnounced, One

\* The semaphores are bounded because the queues have no repetition.
LEMMA KeptMeansTypeOK ==
    ASSUME Kept, Flags, CodecKept
    PROVE  TypeOK
  <1> USE VdecPortAssumption, VdecOutputAssumption
  <1>1. Len(bufferQ) <= Cardinality(Buffers) /\ Len(bufferQ) \in Nat
    BY NoLongerThanTheSet DEF Kept, ClientKept, Types
  <1>2. Len(codecBufferQ) <= Cardinality(CodecBuffers) /\ Len(codecBufferQ) \in Nat
    BY NoLongerThanTheSet DEF CodecKept, CodecApart, CodecTypes
  <1>3. Cardinality(Buffers) \in Nat /\ Cardinality(CodecBuffers) \in Nat
    BY FS_CardinalityType
  <1>4. bufferSem \in 0 .. Cardinality(Buffers) + 2
    BY <1>1, <1>3 DEF Kept, Types, SemaphoreBounded, Extra, One
  <1>5. codecSem \in 0 .. Cardinality(CodecBuffers) + EarlyWakes + 1
    BY <1>2, <1>3 DEF CodecKept, CodecTypes, CodecAnnounced, One
  <1>6. PortTypeOK
    BY <1>1, <1>4 DEF PortTypeOK, Kept, Types, Flags
  <1>7. {bStreamonOutbuf, bConfiguredMFCDst, bDestinationStart, hDestinationStartEvent}
           \subseteq BOOLEAN
    BY DEF Flags
  <1> QED
    BY <1>5, <1>6, <1>7 DEF TypeOK, Kept, Types, CodecKept, CodecTypes

-----------------------------------------------------------------------------
\* Whatever the client does, and when the output is set up: a buffer the client
\* has is not in the component, and one in the component is there once.  The
\* copy of a frame never goes to a buffer the client has back.
THEOREM ClientBuffersInOnePlace == Spec => []OnePlace
  <1>1. Init => Kept
    BY KeptInit
  <1>2. Kept /\ [Next]_vars => Kept'
    BY KeptStep
  <1>3. Kept => OnePlace
    BY KeptMeansOnePlace
  <1> QED
    BY <1>1, <1>2, <1>3, PTL DEF Spec

\* Where the output is not flushed between its setup and its start no codec
\* buffer is queued for the MFC that the MFC has, or twice, and the semaphores
\* stay within their bounds, whatever else the client does.
THEOREM CodecBuffersInOnePlace ==
    ASSUME ~ SetupInFlush
    PROVE  Spec => [](TypeOK /\ CodecOnePlace)
  <1> DEFINE I == Flags /\ Kept /\ CodecKept
  <1>1. Init => I
    BY FlagsInit, KeptInit, CodecInit
  <1>2. I /\ [Next]_vars => I'
    BY FlagsStep, KeptStep, CodecStep
  <1>3. I => TypeOK /\ CodecOnePlace
    BY KeptMeansTypeOK, CodecKeptMeansOnePlace
  <1> QED
    BY <1>1, <1>2, <1>3, PTL DEF Spec

\* For any number of buffers and codec buffers, with a client that does as the
\* OpenMAX header says and does not pause: each buffer is in one place, a flush
\* finds all that are marked, and no more than one codec buffer is missing.
THEOREM OutputPortKeepsBuffers ==
    ASSUME ~ Overlaps, "Pause" \notin Targets, ~ SetupInFlush
    PROVE  MCSpec => []OutputBuffersKept
  <1> DEFINE I == /\ Flags /\ Kept /\ CodecKept
                  /\ CommandInOrder /\ FewLost /\ FlushFindsAll
  <1>1. MCInit => I
    BY FlagsInit, KeptInit, CodecInit DEF MCInit
  <1>2. I /\ [MCNext]_all => I'
    <2>1. [MCNext]_all => [Next]_vars
      BY DEF MCNext, all, InPort, InLibrary, Alone
    <2>2. I /\ [Next]_vars => I'
      BY FlagsStep, KeptStep, CodecStep, LostStep, ExactStep
    <2> QED
      BY <2>1, <2>2
  <1>3. I => OutputBuffersKept
    BY KeptMeansTypeOK, KeptMeansOnePlace, CodecKeptMeansOnePlace, CodecKeptMeansKept
       DEF OutputBuffersKept, FlushFindsAll, Kept
  <1> QED
    BY <1>1, <1>2, <1>3, PTL DEF MCSpec

-----------------------------------------------------------------------------
(* The library's slots beside the driver's.                                  *)

LibSlots == 1 .. NumSlots
BufferOrNone == CodecBuffers \cup {NoCodec}
SlotTypes == [buf : BufferOrNone, queued : BOOLEAN, private : BufferOrNone]
EntryTypes == [buf : BufferOrNone, at : {"user", "held", "done"}]

CallTypes ==
    [pc : {"rest", "waits", "has", "returned"}, index : 0 .. NumSlots, buf : BufferOrNone]

SlotsTyped == slots \in [LibSlots -> SlotTypes]
DriverTyped == driver \in [LibSlots -> EntryTypes]
CallersTyped ==
    /\ idle \in SUBSET CodecBuffers
    /\ enqueue \in [pc : {"rest", "marked", "queued", "private"},
                    index : 0 .. NumSlots, buf : BufferOrNone]
    /\ dequeue \in CallTypes
    /\ flush \in {"rest", "streams", "stopped", "cleared"}
    /\ wrong = {}
ModesTyped ==
    /\ kind \in Kinds /\ array \in {"none", "live"}
    /\ ready \in BOOLEAN /\ on \in BOOLEAN /\ stream \in BOOLEAN

\* Whom the driver's index, or the index a caller works with, belongs to.
InDriver(i) == driver[i].at # "user"
Enqueuing(i) == enqueue.pc \in {"marked", "queued"} /\ enqueue.index = i
Dequeuing(i) == dequeue.pc = "has" /\ dequeue.index = i
InHand == dequeue.pc \in {"has", "returned"}

\* Before its setup and after its end the queue is empty; the array is freed
\* only where it was not kept.
Fresh ==
    /\ ~ ready => (/\ enqueue.pc = "rest" /\ dequeue.pc = "rest" /\ flush = "rest" /\ ~ on
                   /\ \A i \in LibSlots : ~ InDriver(i))
    /\ ("refused" \in kind.faults /\ ~ ready) => array = "none"
\* A flush stops the stream first, and with it the driver has nothing.
StreamStopped ==
    /\ flush = "rest" => stream = on
    /\ flush # "rest" => (/\ enqueue.pc = "rest" /\ ~ stream
                          /\ \A i \in LibSlots : ~ InDriver(i))
    /\ flush \in {"stopped", "cleared"} => ~ on
    /\ (~ on /\ enqueue.pc \notin {"queued", "private"}) => \A i \in LibSlots : ~ InDriver(i)
    /\ (dequeue.pc # "rest" /\ flush \in {"rest", "streams"}) => on
\* What the driver has is marked, the buffer's name is with it, and the caller
\* does not have it.
DriverHas ==
    \A i \in LibSlots : InDriver(i) =>
        /\ slots[i].queued /\ driver[i].buf \in CodecBuffers \ idle
        /\ driver[i].at = "done" => slots[i].private = driver[i].buf
        /\ slots[i].private = driver[i].buf \/ (enqueue.pc = "queued" /\ enqueue.index = i)
        /\ \A j \in LibSlots \ {i} : InDriver(j) => driver[j].buf # driver[i].buf
        /\ InHand => dequeue.buf # driver[i].buf
\* What is marked is in the driver, or on its way to it or from it.
MarkedHas ==
    flush = "rest" => \A i \in LibSlots :
        slots[i].queued => InDriver(i) \/ Enqueuing(i) \/ Dequeuing(i)
EnqueueHas ==
    /\ enqueue.pc # "rest" => (enqueue.index \in LibSlots /\ enqueue.buf \in CodecBuffers)
    /\ enqueue.pc = "marked" => (/\ enqueue.buf \in idle /\ slots[enqueue.index].queued
                                 /\ ~ InDriver(enqueue.index))
    /\ enqueue.pc = "queued" => driver[enqueue.index] = [buf |-> enqueue.buf, at |-> "held"]
DequeueHas ==
    /\ InHand => dequeue.buf \in CodecBuffers \ idle
    /\ dequeue.pc = "has" => (/\ dequeue.index \in LibSlots /\ ~ InDriver(dequeue.index)
                              /\ ~ Enqueuing(dequeue.index)
                              /\ flush = "rest" => slots[dequeue.index].queued)
    /\ (InHand /\ dequeue.index # 0) => slots[dequeue.index].private = dequeue.buf
    /\ (dequeue.pc = "returned" /\ dequeue.index # 0) => Library!Bound
\* Where a buffer has a slot of its own it is found there only.
BoundSlots ==
    Library!Bound =>
        /\ ready => \A i \in LibSlots : slots[i].buf = Library!Registered[i]
        /\ \A i \in LibSlots : InDriver(i) => driver[i].buf = slots[i].buf
        /\ enqueue.pc \in {"marked", "queued"} => enqueue.buf = slots[enqueue.index].buf
        /\ (InHand /\ dequeue.index # 0) => dequeue.buf = slots[dequeue.index].buf

LibraryInv ==
    /\ SlotsTyped /\ DriverTyped /\ CallersTyped /\ ModesTyped
    /\ Fresh /\ StreamStopped /\ DriverHas /\ MarkedHas /\ EnqueueHas /\ DequeueHas /\ BoundSlots

\* Every non-empty set of slots has a least one.
LEMMA LeastSlot ==
    ASSUME NEW T \in SUBSET LibSlots, T # {}
    PROVE  Library!Least(T) \in T
  <1> DEFINE R == OpToRel(<, Nat)
  <1>1. IsWellFoundedOn(R, Nat)
    BY Zenon, NatLessThanWellFounded DEF R
  <1>2. R = {ss \in Nat \X Nat : ss[1] < ss[2]}
    BY SMT DEF OpToRel, R
  <1> HIDE DEF R
  <1>3. T \in SUBSET Nat
    BY LibraryAssumption DEF LibSlots
  <1>4. PICK n \in T : \A m \in T : <<m, n>> \notin R
    BY <1>1, <1>3, WFMin, Zenon
  <1>5. \A m \in T : n <= m
    <2>1. \A m \in T : ~ (m < n)
      BY <1>2, <1>3, <1>4
    <2> QED
      BY <1>3, <2>1
  <1> QED
    BY <1>5 DEF Library!Least

\* What Enqueue finds: a slot that is not queued, of the buffer if it has one.
LEMMA SlotFound ==
    ASSUME LibraryInv, NEW b \in CodecBuffers, Library!EnqueueMarks(b)
    PROVE  \E i \in LibSlots :
              /\ ~ slots[i].queued /\ (Library!Bound => slots[i].buf = b)
              /\ enqueue' = [pc |-> "marked", index |-> i, buf |-> b]
              /\ slots' = [slots EXCEPT ![i] = [@ EXCEPT !.queued = TRUE, !.buf = b]]
              /\ enqueue.pc = "rest" /\ flush = "rest" /\ ready /\ b \in idle
              /\ UNCHANGED <<kind, array, ready, on, driver, stream, idle, dequeue, flush, wrong>>
  <1>1. Library!Find(b) \in SUBSET LibSlots /\ Library!Find(b) # {}
    BY DEF Library!EnqueueMarks, Library!Find, Library!FindBound, Library!FindEmpty,
           Library!Slots, LibSlots
  <1> DEFINE i == Library!Least(Library!Find(b))
  <1>2. i \in Library!Find(b)
    BY <1>1, LeastSlot
  <1>3. i \in LibSlots /\ ~ slots[i].queued /\ (Library!Bound => slots[i].buf = b)
    BY <1>2 DEF Library!Find, Library!FindBound, Library!FindEmpty, Library!Slots, LibSlots
  <1>4. /\ enqueue' = [pc |-> "marked", index |-> i, buf |-> b]
        /\ slots' = [slots EXCEPT ![i].queued = TRUE, ![i].buf = b]
        /\ enqueue.pc = "rest" /\ flush = "rest" /\ ready /\ b \in idle
        /\ UNCHANGED <<kind, array, ready, on, driver, stream, idle, dequeue, flush, wrong>>
    BY DEF Library!EnqueueMarks
  <1> HIDE DEF i
  <1>5. slots' = [slots EXCEPT ![i] = [@ EXCEPT !.queued = TRUE, !.buf = b]]
    BY <1>3, <1>4 DEF LibraryInv, SlotsTyped, SlotTypes
  <1> QED
    BY <1>3, <1>4, <1>5

\* A slot keeps its type when a mark, a buffer or its name is written into it.
LEMMA SlotsStayTyped ==
    ASSUME LibraryInv, NEW q \in BOOLEAN, NEW b \in BufferOrNone
    PROVE  /\ \A i \in LibSlots : [slots EXCEPT ![i].queued = q] \in [LibSlots -> SlotTypes]
           /\ \A i \in LibSlots : [slots EXCEPT ![i].private = b] \in [LibSlots -> SlotTypes]
           /\ \A i \in LibSlots :
                 [slots EXCEPT ![i] = [@ EXCEPT !.queued = q, !.buf = b]]
                     \in [LibSlots -> SlotTypes]
           /\ [i \in LibSlots |-> [slots[i] EXCEPT !.queued = q]] \in [LibSlots -> SlotTypes]
           /\ \A i \in LibSlots : [driver EXCEPT ![i].at = "done"] \in [LibSlots -> EntryTypes]
           /\ \A i \in LibSlots : [driver EXCEPT ![i].at = "user"] \in [LibSlots -> EntryTypes]
  <1>1. slots \in [LibSlots -> SlotTypes] /\ driver \in [LibSlots -> EntryTypes]
    BY DEF LibraryInv, SlotsTyped, DriverTyped
  <1>2. \A i \in LibSlots : /\ [slots[i] EXCEPT !.queued = q] \in SlotTypes
                            /\ [slots[i] EXCEPT !.private = b] \in SlotTypes
                            /\ [slots[i] EXCEPT !.queued = q, !.buf = b] \in SlotTypes
    BY <1>1 DEF SlotTypes
  <1>3. \A i \in LibSlots : /\ [driver[i] EXCEPT !.at = "done"] \in EntryTypes
                            /\ [driver[i] EXCEPT !.at = "user"] \in EntryTypes
    BY <1>1 DEF EntryTypes
  <1> QED
    BY <1>1, <1>2, <1>3

\* The call of a queue with bound slots returns the slot it has and unmarks it;
\* when the stream was stopped meanwhile the decoder returns nothing, and its
\* output queue leaves the mark.
LEMMA SlotGiven ==
    ASSUME LibraryInv, Library!DecInDequeues \/ Library!DecOutDequeues \/ Library!EncDequeues
    PROVE  /\ dequeue.pc = "has" /\ dequeue.index \in LibSlots /\ Library!Bound
           /\ UNCHANGED <<kind, array, ready, on, driver, stream, idle, enqueue, flush, wrong>>
           /\ slots' \in [LibSlots -> SlotTypes]
           /\ \A i \in LibSlots :
                 /\ slots'[i].buf = slots[i].buf /\ slots'[i].private = slots[i].private
                 /\ i # dequeue.index => slots'[i].queued = slots[i].queued
           /\ slots'[dequeue.index].queued => ~ on
           /\ dequeue'.pc \in {"returned", "rest"}
           /\ dequeue'.pc = "returned" =>
                 (dequeue'.index = dequeue.index /\ dequeue'.buf = dequeue.buf)
  <1> USE DEF Library!Unmarks, Library!Gives, Library!Rest, Library!Bound
  <1>1. dequeue.pc = "has" => dequeue.index \in LibSlots
    BY DEF LibraryInv, DequeueHas
  <1>2. slots \in [LibSlots -> SlotTypes] /\ FALSE \in BOOLEAN /\ NoCodec \in BufferOrNone
    BY DEF LibraryInv, SlotsTyped, BufferOrNone
  <1>3. dequeue \in CallTypes
    BY DEF LibraryInv, CallersTyped
  <1>4. /\ dequeue.pc = "has" /\ Library!Bound
        /\ UNCHANGED <<kind, array, ready, on, driver, stream, idle, enqueue, flush, wrong>>
        /\ \/ slots' = [slots EXCEPT ![dequeue.index].queued = FALSE]
           \/ ~ on /\ slots' = slots
        /\ \/ dequeue' = [dequeue EXCEPT !.pc = "returned", !.index = dequeue.index]
           \/ dequeue' = [pc |-> "rest", index |-> 0, buf |-> NoCodec]
    BY DEF Library!DecInDequeues, Library!DecOutDequeues, Library!EncDequeues
  <1>5. dequeue.index \in LibSlots
    BY <1>1, <1>4
  <1>6. slots' \in [LibSlots -> SlotTypes]
    BY <1>2, <1>4, <1>5, SlotsStayTyped
  <1>7. /\ \A i \in LibSlots :
              /\ slots'[i].buf = slots[i].buf /\ slots'[i].private = slots[i].private
              /\ i # dequeue.index => slots'[i].queued = slots[i].queued
        /\ slots'[dequeue.index].queued => ~ on
    BY <1>2, <1>4, <1>5 DEF SlotTypes
  <1>8. /\ dequeue'.pc \in {"returned", "rest"}
        /\ dequeue'.pc = "returned" =>
              (dequeue'.index = dequeue.index /\ dequeue'.buf = dequeue.buf)
    <2>1. CASE dequeue' = [dequeue EXCEPT !.pc = "returned", !.index = dequeue.index]
      <3>1. /\ dequeue'.pc = "returned" /\ dequeue'.index = dequeue.index
            /\ dequeue'.buf = dequeue.buf
        BY ONLY <2>1, <1>3 DEF CallTypes
      <3> QED
        BY <3>1
    <2>2. CASE dequeue' = [pc |-> "rest", index |-> 0, buf |-> NoCodec]
      BY ONLY <2>2
    <2> QED
      BY <1>4, <2>1, <2>2
  <1> QED
    BY <1>4, <1>5, <1>6, <1>7, <1>8

\* What it leaves of the call.
LEMMA GivenTyped ==
    ASSUME LibraryInv, Library!DecInDequeues \/ Library!DecOutDequeues \/ Library!EncDequeues
    PROVE  dequeue' \in CallTypes /\ UNCHANGED <<idle, enqueue, flush, wrong>>
  <1>1. dequeue \in CallTypes /\ dequeue.index \in LibSlots
    BY SlotGiven DEF LibraryInv, CallersTyped
  <1>2. /\ \/ dequeue' = [dequeue EXCEPT !.pc = "returned", !.index = dequeue.index]
           \/ dequeue' = [pc |-> "rest", index |-> 0, buf |-> NoCodec]
        /\ UNCHANGED <<idle, enqueue, flush, wrong>>
    BY DEF Library!DecInDequeues, Library!DecOutDequeues, Library!EncDequeues, Library!Gives,
           Library!Rest
  <1>3. [dequeue EXCEPT !.pc = "returned", !.index = dequeue.index] \in CallTypes
    BY ONLY <1>1 DEF CallTypes
  <1>4. [pc |-> "rest", index |-> 0, buf |-> NoCodec] \in CallTypes
    BY LibraryAssumption DEF CallTypes, BufferOrNone
  <1> QED
    BY <1>2, <1>3, <1>4

\* Register: each buffer has one slot.
LEMMA RegisteredTyped ==
    /\ Library!Registered \in [LibSlots -> BufferOrNone]
    /\ \A b \in CodecBuffers : \E i \in LibSlots :
          \A j \in LibSlots : Library!Registered[j] = b <=> j = i
  <1> DEFINE n == Cardinality(CodecBuffers)
             P(f) == /\ \A b \in CodecBuffers : \E i \in LibSlots :
                           \A j \in LibSlots : f[j] = b <=> j = i
                     /\ \A i, j \in LibSlots : i < j /\ f[j] # NoCodec => f[i] # NoCodec
  <1>1. /\ n \in Nat /\ NumSlots \in Nat /\ n <= NumSlots
        /\ NoCodec \notin CodecBuffers /\ IsFiniteSet(CodecBuffers)
    BY FS_CardinalityType, VdecOutputAssumption, LibraryAssumption
  <1>2. PICK g \in Bijection(1 .. n, CodecBuffers) : TRUE
    BY FS_CardinalityType, VdecOutputAssumption DEF ExistsBijection
  <1> DEFINE f == [i \in LibSlots |-> IF i <= n THEN g[i] ELSE NoCodec]
  <1>3. /\ \A i \in 1 .. n : g[i] \in CodecBuffers
        /\ \A i, j \in 1 .. n : g[i] = g[j] => i = j
        /\ \A b \in CodecBuffers : \E i \in 1 .. n : g[i] = b
    BY <1>2 DEF Bijection, Injection, Surjection, IsInjective
  <1>4. f \in [LibSlots -> BufferOrNone]
    BY <1>1, <1>3 DEF LibSlots, BufferOrNone
  <1>5. \A i, j \in LibSlots : i < j /\ f[j] # NoCodec => f[i] # NoCodec
    BY <1>1, <1>3 DEF LibSlots
  <1>6. ASSUME NEW b \in CodecBuffers
        PROVE  \E i \in LibSlots : \A j \in LibSlots : f[j] = b <=> j = i
    <2>1. PICK k \in 1 .. n : g[k] = b
      BY <1>3
    <2>2. k \in LibSlots /\ \A j \in LibSlots : f[j] = b <=> j = k
      BY <1>1, <1>3, <2>1 DEF LibSlots
    <2> QED
      BY <2>2
  <1>7. P(f)
    BY <1>5, <1>6
  <1> HIDE DEF f
  <1>8. \E h \in [LibSlots -> BufferOrNone] : P(h)
    BY <1>4, <1>7
  <1>9. Library!Registered \in [LibSlots -> BufferOrNone] /\ P(Library!Registered)
    <2>1. Library!Registered = CHOOSE h \in [LibSlots -> BufferOrNone] : P(h)
      BY DEF Library!Registered, Library!Slots, LibSlots, BufferOrNone
    <2> HIDE DEF P
    <2> QED
      BY <1>8, <2>1, Zenon
  <1> QED
    BY <1>9

\* The modes are typed, and the array is never freed and kept.
LEMMA LibModesKept ==
    ASSUME LibraryInv, [Library!Next]_libraryVars
    PROVE  (ModesTyped /\ Fresh)'
  <1> USE DEF LibraryInv, SlotsTyped, DriverTyped, CallersTyped, ModesTyped, LibSlots,
          BufferOrNone, SlotTypes, EntryTypes, CallTypes, Library!callers, Library!libraryVars,
          Fresh, StreamStopped, EnqueueHas, InDriver
  <1>1. CASE Library!SetupRefused
    BY <1>1, LibraryAssumption DEF Library!SetupRefused, Library!Fails, Library!Harm
  <1>2. CASE Library!SetupLater
    BY <1>2, LibraryAssumption DEF Library!SetupLater, Library!Fails
  <1>3. CASE Library!Setup
    BY <1>3, LibraryAssumption DEF Library!Setup, Library!Unqueued, Library!Slots
  <1>4. CASE Library!Finalize
    BY <1>4, LibraryAssumption DEF Library!Finalize, Library!Unqueued, Library!Nothing,
         Library!Slots
  <1>5. ASSUME NEW b \in CodecBuffers, Library!EnqueueMarks(b)
        PROVE  (ModesTyped /\ Fresh)'
    BY <1>5, LibraryAssumption DEF Library!EnqueueMarks
  <1>6. ASSUME NEW b \in CodecBuffers, Library!EnqueueFindsNone(b)
        PROVE  (ModesTyped /\ Fresh)'
    BY <1>6, LibraryAssumption DEF Library!EnqueueFindsNone, Library!Harm
  <1>7. CASE Library!EnqueueQueues
    BY <1>7, LibraryAssumption DEF Library!EnqueueQueues
  <1>8. CASE Library!EnqueueFails
    BY <1>8, LibraryAssumption DEF Library!EnqueueFails, Library!Fails, Library!Harm,
         Library!Rest
  <1>9. CASE Library!EnqueuePrivate
    BY <1>9, LibraryAssumption DEF Library!EnqueuePrivate
  <1>10. CASE Library!Run
    BY <1>10, LibraryAssumption DEF Library!Run, Library!Fails, Library!Rest
  <1>11. CASE Library!DequeueWaits
    BY <1>11, LibraryAssumption DEF Library!DequeueWaits
  <1>12. CASE Library!DequeueHas
    BY <1>12, LibraryAssumption DEF Library!DequeueHas, Library!Slots
  <1>13. CASE Library!DequeueFails
    BY <1>13, LibraryAssumption DEF Library!DequeueFails, Library!Rest
  <1>14. CASE Library!DecInDequeues
    BY <1>14, LibraryAssumption DEF Library!DecInDequeues, Library!Unmarks, Library!Gives,
         Library!Rest
  <1>15. CASE Library!DecOutDequeues
    BY <1>15, LibraryAssumption DEF Library!DecOutDequeues, Library!Unmarks, Library!Gives,
         Library!Rest
  <1>16. CASE Library!EncDequeues
    BY <1>16, LibraryAssumption DEF Library!EncDequeues, Library!Unmarks, Library!Gives
  <1>17. CASE Library!ExtensionDequeue
    BY <1>17, LibraryAssumption DEF Library!ExtensionDequeue, Library!Unmarks, Library!Gives,
         Library!Harm
  <1>18. CASE Library!CallerReads
    BY <1>18, LibraryAssumption DEF Library!CallerReads, Library!Harm, Library!Rest
  <1>19. CASE Library!MFC
    BY <1>19, LibraryAssumption DEF Library!MFC, Library!Slots
  <1>20. CASE Library!FlushStreamsOff
    BY <1>20, LibraryAssumption DEF Library!FlushStreamsOff, Library!Nothing, Library!Slots
  <1>21. CASE Library!FlushStops
    BY <1>21, LibraryAssumption DEF Library!FlushStops
  <1>22. CASE Library!FlushClears
    BY <1>22, LibraryAssumption DEF Library!FlushClears, Library!Unmarked, Library!Slots
  <1>23. CASE Library!FlushEnqueuesAll
    BY <1>23, LibraryAssumption DEF Library!FlushEnqueuesAll, Library!Unmarked, Library!Slots
  <1>24. CASE UNCHANGED libraryVars
    BY <1>24, LibraryAssumption DEF libraryVars
  <1> QED
    BY <1>1, <1>2, <1>3, <1>4, <1>5, <1>6, <1>7, <1>8, <1>9, <1>10, <1>11, <1>12, <1>13, <1>14,
         <1>15, <1>16, <1>17, <1>18, <1>19, <1>20, <1>21, <1>22, <1>23, <1>24 DEF Library!Next,
         Library!Enqueues, Library!Dequeues, Library!Flushes

\* A flush stays ahead of the stream: no step puts a buffer in the driver, or a
\* caller in a call, while the stream is off.
LEMMA StoppedKept ==
    ASSUME LibraryInv, [Library!Next]_libraryVars
    PROVE  StreamStopped'
  <1> USE DEF LibraryInv, SlotsTyped, DriverTyped, CallersTyped, ModesTyped, LibSlots,
          BufferOrNone, SlotTypes, EntryTypes, CallTypes, Library!callers, Library!libraryVars,
          Fresh, StreamStopped, InDriver, EnqueueHas
  <1>1. CASE Library!SetupRefused
    BY <1>1, LibraryAssumption DEF Library!SetupRefused, Library!Fails, Library!Harm
  <1>2. CASE Library!SetupLater
    BY <1>2, LibraryAssumption DEF Library!SetupLater, Library!Fails
  <1>3. CASE Library!Setup
    BY <1>3, LibraryAssumption DEF Library!Setup, Library!Unqueued, Library!Slots
  <1>4. CASE Library!Finalize
    BY <1>4, LibraryAssumption DEF Library!Finalize, Library!Unqueued, Library!Nothing,
         Library!Slots
  <1>5. ASSUME NEW b \in CodecBuffers, Library!EnqueueMarks(b)
        PROVE  StreamStopped'
    BY <1>5, LibraryAssumption DEF Library!EnqueueMarks
  <1>6. ASSUME NEW b \in CodecBuffers, Library!EnqueueFindsNone(b)
        PROVE  StreamStopped'
    BY <1>6, LibraryAssumption DEF Library!EnqueueFindsNone, Library!Harm
  <1>7. CASE Library!EnqueueQueues
    BY <1>7, LibraryAssumption DEF Library!EnqueueQueues
  <1>8. CASE Library!EnqueueFails
    BY <1>8, LibraryAssumption DEF Library!EnqueueFails, Library!Fails, Library!Harm,
         Library!Rest
  <1>9. CASE Library!EnqueuePrivate
    BY <1>9, LibraryAssumption DEF Library!EnqueuePrivate
  <1>10. CASE Library!Run
    BY <1>10, LibraryAssumption DEF Library!Run, Library!Fails, Library!Rest
  <1>11. CASE Library!DequeueWaits
    BY <1>11, LibraryAssumption DEF Library!DequeueWaits
  <1>12. CASE Library!DequeueHas
    BY <1>12, LibraryAssumption DEF Library!DequeueHas, Library!Slots
  <1>13. CASE Library!DequeueFails
    BY <1>13, LibraryAssumption DEF Library!DequeueFails, Library!Rest
  <1>14. CASE Library!DecInDequeues
    BY <1>14, LibraryAssumption DEF Library!DecInDequeues, Library!Unmarks, Library!Gives,
         Library!Rest
  <1>15. CASE Library!DecOutDequeues
    BY <1>15, LibraryAssumption DEF Library!DecOutDequeues, Library!Unmarks, Library!Gives,
         Library!Rest
  <1>16. CASE Library!EncDequeues
    BY <1>16, LibraryAssumption DEF Library!EncDequeues, Library!Unmarks, Library!Gives
  <1>17. CASE Library!ExtensionDequeue
    BY <1>17, LibraryAssumption DEF Library!ExtensionDequeue, Library!Unmarks, Library!Gives,
         Library!Harm
  <1>18. CASE Library!CallerReads
    BY <1>18, LibraryAssumption DEF Library!CallerReads, Library!Harm, Library!Rest
  <1>19. CASE Library!MFC
    BY <1>19, LibraryAssumption DEF Library!MFC, Library!Slots
  <1>20. CASE Library!FlushStreamsOff
    BY <1>20, LibraryAssumption DEF Library!FlushStreamsOff, Library!Nothing, Library!Slots
  <1>21. CASE Library!FlushStops
    BY <1>21, LibraryAssumption DEF Library!FlushStops
  <1>22. CASE Library!FlushClears
    BY <1>22, LibraryAssumption DEF Library!FlushClears, Library!Unmarked, Library!Slots
  <1>23. CASE Library!FlushEnqueuesAll
    BY <1>23, LibraryAssumption DEF Library!FlushEnqueuesAll, Library!Unmarked, Library!Slots
  <1>24. CASE UNCHANGED libraryVars
    BY <1>24, LibraryAssumption DEF libraryVars
  <1> QED
    BY <1>1, <1>2, <1>3, <1>4, <1>5, <1>6, <1>7, <1>8, <1>9, <1>10, <1>11, <1>12, <1>13, <1>14,
         <1>15, <1>16, <1>17, <1>18, <1>19, <1>20, <1>21, <1>22, <1>23, <1>24 DEF Library!Next,
         Library!Enqueues, Library!Dequeues, Library!Flushes

\* The buffer being enqueued stays the caller's and its slot stays marked until the
\* driver has it; from then on the driver has it until the call has its name.
LEMMA EnqueueKept ==
    ASSUME LibraryInv, [Library!Next]_libraryVars
    PROVE  EnqueueHas'
  <1> USE DEF LibraryInv, SlotsTyped, DriverTyped, CallersTyped, ModesTyped, LibSlots,
          BufferOrNone, SlotTypes, EntryTypes, CallTypes, Library!callers, Library!libraryVars,
          Fresh, StreamStopped, DriverHas, MarkedHas, EnqueueHas, DequeueHas, BoundSlots,
          InDriver, Enqueuing, Dequeuing, InHand, Library!Bound
  <1>1. CASE Library!SetupRefused
    BY <1>1, LibraryAssumption DEF Library!SetupRefused, Library!Fails, Library!Harm
  <1>2. CASE Library!SetupLater
    BY <1>2, LibraryAssumption DEF Library!SetupLater, Library!Fails
  <1>3. CASE Library!Setup
    BY <1>3, LibraryAssumption DEF Library!Setup, Library!Unqueued, Library!Slots
  <1>4. CASE Library!Finalize
    BY <1>4, LibraryAssumption DEF Library!Finalize, Library!Unqueued, Library!Nothing,
         Library!Slots
  <1>5. ASSUME NEW b \in CodecBuffers, Library!EnqueueMarks(b)
        PROVE  EnqueueHas'
    <2>1. PICK i \in LibSlots :
                /\ ~ slots[i].queued /\ (Library!Bound => slots[i].buf = b)
                /\ enqueue' = [pc |-> "marked", index |-> i, buf |-> b]
                /\ slots' = [slots EXCEPT ![i] = [@ EXCEPT !.queued = TRUE, !.buf = b]]
                /\ enqueue.pc = "rest" /\ flush = "rest" /\ ready /\ b \in idle
                /\ UNCHANGED <<kind, array, ready, on, driver, stream, idle, dequeue, flush,
                               wrong>>
      BY <1>5, SlotFound
    <2> QED
      BY <2>1, LibraryAssumption
  <1>6. ASSUME NEW b \in CodecBuffers, Library!EnqueueFindsNone(b)
        PROVE  EnqueueHas'
    BY <1>6, LibraryAssumption DEF Library!EnqueueFindsNone, Library!Harm
  <1>7. CASE Library!EnqueueQueues
    BY <1>7, LibraryAssumption DEF Library!EnqueueQueues
  <1>8. CASE Library!EnqueueFails
    BY <1>8, LibraryAssumption DEF Library!EnqueueFails, Library!Fails, Library!Harm,
         Library!Rest
  <1>9. CASE Library!EnqueuePrivate
    BY <1>9, LibraryAssumption DEF Library!EnqueuePrivate
  <1>10. CASE Library!Run
    BY <1>10, LibraryAssumption DEF Library!Run, Library!Fails, Library!Rest
  <1>11. CASE Library!DequeueWaits
    BY <1>11, LibraryAssumption DEF Library!DequeueWaits
  <1>12. CASE Library!DequeueHas
    BY <1>12, LibraryAssumption DEF Library!DequeueHas, Library!Slots
  <1>13. CASE Library!DequeueFails
    BY <1>13, LibraryAssumption DEF Library!DequeueFails, Library!Rest
  <1>14. CASE Library!DecInDequeues
    BY <1>14, LibraryAssumption DEF Library!DecInDequeues, Library!Unmarks, Library!Gives,
         Library!Rest
  <1>15. CASE Library!DecOutDequeues
    BY <1>15, LibraryAssumption DEF Library!DecOutDequeues, Library!Unmarks, Library!Gives,
         Library!Rest
  <1>16. CASE Library!EncDequeues
    BY <1>16, LibraryAssumption DEF Library!EncDequeues, Library!Unmarks, Library!Gives
  <1>17. CASE Library!ExtensionDequeue
    BY <1>17, LibraryAssumption DEF Library!ExtensionDequeue, Library!Unmarks, Library!Gives,
         Library!Harm
  <1>18. CASE Library!CallerReads
    BY <1>18, LibraryAssumption DEF Library!CallerReads, Library!Harm, Library!Rest
  <1>19. CASE Library!MFC
    BY <1>19, LibraryAssumption DEF Library!MFC, Library!Slots
  <1>20. CASE Library!FlushStreamsOff
    BY <1>20, LibraryAssumption DEF Library!FlushStreamsOff, Library!Nothing, Library!Slots
  <1>21. CASE Library!FlushStops
    BY <1>21, LibraryAssumption DEF Library!FlushStops
  <1>22. CASE Library!FlushClears
    BY <1>22, LibraryAssumption DEF Library!FlushClears, Library!Unmarked, Library!Slots
  <1>23. CASE Library!FlushEnqueuesAll
    BY <1>23, LibraryAssumption DEF Library!FlushEnqueuesAll, Library!Unmarked, Library!Slots
  <1>24. CASE UNCHANGED libraryVars
    BY <1>24, LibraryAssumption DEF libraryVars
  <1> QED
    BY <1>1, <1>2, <1>3, <1>4, <1>5, <1>6, <1>7, <1>8, <1>9, <1>10, <1>11, <1>12, <1>13, <1>14,
         <1>15, <1>16, <1>17, <1>18, <1>19, <1>20, <1>21, <1>22, <1>23, <1>24 DEF Library!Next,
         Library!Enqueues, Library!Dequeues, Library!Flushes

\* The buffer a dequeue has taken stays out of the driver and away from the caller,
\* and its slot keeps its name until the caller has read it.
LEMMA DequeueKept ==
    ASSUME LibraryInv, [Library!Next]_libraryVars
    PROVE  DequeueHas'
  <1> USE DEF LibraryInv, SlotsTyped, DriverTyped, CallersTyped, ModesTyped, LibSlots,
          BufferOrNone, SlotTypes, EntryTypes, CallTypes, Library!callers, Library!libraryVars,
          Fresh, StreamStopped, DriverHas, MarkedHas, EnqueueHas, DequeueHas, BoundSlots,
          InDriver, Enqueuing, Dequeuing, InHand, Library!Bound
  <1>1. CASE Library!SetupRefused
    BY <1>1, LibraryAssumption DEF Library!SetupRefused, Library!Fails, Library!Harm
  <1>2. CASE Library!SetupLater
    BY <1>2, LibraryAssumption DEF Library!SetupLater, Library!Fails
  <1>3. CASE Library!Setup
    BY <1>3, LibraryAssumption DEF Library!Setup, Library!Unqueued, Library!Slots
  <1>4. CASE Library!Finalize
    BY <1>4, LibraryAssumption DEF Library!Finalize, Library!Unqueued, Library!Nothing,
         Library!Slots
  <1>5. ASSUME NEW b \in CodecBuffers, Library!EnqueueMarks(b)
        PROVE  DequeueHas'
    <2>1. PICK i \in LibSlots :
                /\ ~ slots[i].queued /\ (Library!Bound => slots[i].buf = b)
                /\ enqueue' = [pc |-> "marked", index |-> i, buf |-> b]
                /\ slots' = [slots EXCEPT ![i] = [@ EXCEPT !.queued = TRUE, !.buf = b]]
                /\ enqueue.pc = "rest" /\ flush = "rest" /\ ready /\ b \in idle
                /\ UNCHANGED <<kind, array, ready, on, driver, stream, idle, dequeue, flush,
                               wrong>>
      BY <1>5, SlotFound
    <2> QED
      BY <2>1, LibraryAssumption
  <1>6. ASSUME NEW b \in CodecBuffers, Library!EnqueueFindsNone(b)
        PROVE  DequeueHas'
    BY <1>6, LibraryAssumption DEF Library!EnqueueFindsNone, Library!Harm
  <1>7. CASE Library!EnqueueQueues
    BY <1>7, LibraryAssumption DEF Library!EnqueueQueues
  <1>8. CASE Library!EnqueueFails
    BY <1>8, LibraryAssumption DEF Library!EnqueueFails, Library!Fails, Library!Harm,
         Library!Rest
  <1>9. CASE Library!EnqueuePrivate
    BY <1>9, LibraryAssumption DEF Library!EnqueuePrivate
  <1>10. CASE Library!Run
    BY <1>10, LibraryAssumption DEF Library!Run, Library!Fails, Library!Rest
  <1>11. CASE Library!DequeueWaits
    BY <1>11, LibraryAssumption DEF Library!DequeueWaits
  <1>12. CASE Library!DequeueHas
    BY <1>12, LibraryAssumption DEF Library!DequeueHas, Library!Slots
  <1>13. CASE Library!DequeueFails
    BY <1>13, LibraryAssumption DEF Library!DequeueFails, Library!Rest
  <1>14. CASE Library!DecInDequeues
    BY <1>14, SlotGiven, LibraryAssumption
  <1>15. CASE Library!DecOutDequeues
    BY <1>15, SlotGiven, LibraryAssumption
  <1>16. CASE Library!EncDequeues
    BY <1>16, SlotGiven, LibraryAssumption
  <1>17. CASE Library!ExtensionDequeue
    BY <1>17, LibraryAssumption DEF Library!ExtensionDequeue, Library!Unmarks, Library!Gives,
         Library!Harm
  <1>18. CASE Library!CallerReads
    BY <1>18, LibraryAssumption DEF Library!CallerReads, Library!Harm, Library!Rest
  <1>19. CASE Library!MFC
    BY <1>19, LibraryAssumption DEF Library!MFC, Library!Slots
  <1>20. CASE Library!FlushStreamsOff
    BY <1>20, LibraryAssumption DEF Library!FlushStreamsOff, Library!Nothing, Library!Slots
  <1>21. CASE Library!FlushStops
    BY <1>21, LibraryAssumption DEF Library!FlushStops
  <1>22. CASE Library!FlushClears
    BY <1>22, LibraryAssumption DEF Library!FlushClears, Library!Unmarked, Library!Slots
  <1>23. CASE Library!FlushEnqueuesAll
    BY <1>23, LibraryAssumption DEF Library!FlushEnqueuesAll, Library!Unmarked, Library!Slots
  <1>24. CASE UNCHANGED libraryVars
    BY <1>24, LibraryAssumption DEF libraryVars
  <1> QED
    BY <1>1, <1>2, <1>3, <1>4, <1>5, <1>6, <1>7, <1>8, <1>9, <1>10, <1>11, <1>12, <1>13, <1>14,
         <1>15, <1>16, <1>17, <1>18, <1>19, <1>20, <1>21, <1>22, <1>23, <1>24 DEF Library!Next,
         Library!Enqueues, Library!Dequeues, Library!Flushes

\* The slots and the driver's entries keep their types.
LEMMA LibTypesKept ==
    ASSUME LibraryInv, [Library!Next]_libraryVars
    PROVE  (SlotsTyped /\ DriverTyped)'
  <1> USE DEF LibraryInv, SlotsTyped, DriverTyped, CallersTyped, ModesTyped, LibSlots,
          BufferOrNone, SlotTypes, EntryTypes, CallTypes, Library!callers, Library!libraryVars,
          EnqueueHas, DequeueHas, InHand
  <1>1. CASE Library!SetupRefused
    BY <1>1, LibraryAssumption, SlotsStayTyped DEF Library!SetupRefused, Library!Fails,
         Library!Harm
  <1>2. CASE Library!SetupLater
    BY <1>2, LibraryAssumption, SlotsStayTyped DEF Library!SetupLater, Library!Fails
  <1>3. CASE Library!Setup
    <2>1. \A i \in LibSlots : Library!Bound => Library!Registered[i] \in BufferOrNone
      BY RegisteredTyped
    <2> QED
      BY <1>3, <2>1 DEF Library!Setup, Library!Unqueued, Library!Slots
  <1>4. CASE Library!Finalize
    BY <1>4, LibraryAssumption, SlotsStayTyped DEF Library!Finalize, Library!Unqueued,
         Library!Nothing, Library!Slots
  <1>5. ASSUME NEW b \in CodecBuffers, Library!EnqueueMarks(b)
        PROVE  (SlotsTyped /\ DriverTyped)'
    <2>1. PICK i \in LibSlots :
                /\ ~ slots[i].queued /\ (Library!Bound => slots[i].buf = b)
                /\ enqueue' = [pc |-> "marked", index |-> i, buf |-> b]
                /\ slots' = [slots EXCEPT ![i] = [@ EXCEPT !.queued = TRUE, !.buf = b]]
                /\ enqueue.pc = "rest" /\ flush = "rest" /\ ready /\ b \in idle
                /\ UNCHANGED <<kind, array, ready, on, driver, stream, idle, dequeue, flush,
                               wrong>>
      BY <1>5, SlotFound
    <2> QED
      BY <2>1, SlotsStayTyped
  <1>6. ASSUME NEW b \in CodecBuffers, Library!EnqueueFindsNone(b)
        PROVE  (SlotsTyped /\ DriverTyped)'
    BY <1>6, LibraryAssumption, SlotsStayTyped DEF Library!EnqueueFindsNone, Library!Harm
  <1>7. CASE Library!EnqueueQueues
    BY <1>7, LibraryAssumption, SlotsStayTyped DEF Library!EnqueueQueues
  <1>8. CASE Library!EnqueueFails
    BY <1>8, LibraryAssumption, SlotsStayTyped DEF Library!EnqueueFails, Library!Fails,
         Library!Harm, Library!Rest
  <1>9. CASE Library!EnqueuePrivate
    BY <1>9, LibraryAssumption, SlotsStayTyped DEF Library!EnqueuePrivate
  <1>10. CASE Library!Run
    BY <1>10, LibraryAssumption, SlotsStayTyped DEF Library!Run, Library!Fails, Library!Rest
  <1>11. CASE Library!DequeueWaits
    BY <1>11, LibraryAssumption, SlotsStayTyped DEF Library!DequeueWaits
  <1>12. CASE Library!DequeueHas
    <2>1. PICK i \in LibSlots : driver' = [driver EXCEPT ![i].at = "user"]
      BY <1>12 DEF Library!DequeueHas, Library!Slots
    <2> QED
      BY <1>12, <2>1, SlotsStayTyped DEF Library!DequeueHas, Library!Slots
  <1>13. CASE Library!DequeueFails
    BY <1>13, LibraryAssumption, SlotsStayTyped DEF Library!DequeueFails, Library!Rest
  <1>14. CASE Library!DecInDequeues
    BY <1>14, SlotGiven, LibraryAssumption
  <1>15. CASE Library!DecOutDequeues
    BY <1>15, SlotGiven, LibraryAssumption
  <1>16. CASE Library!EncDequeues
    BY <1>16, SlotGiven, LibraryAssumption
  <1>17. CASE Library!ExtensionDequeue
    BY <1>17, LibraryAssumption, SlotsStayTyped DEF Library!ExtensionDequeue, Library!Unmarks,
         Library!Gives, Library!Harm
  <1>18. CASE Library!CallerReads
    BY <1>18, LibraryAssumption, SlotsStayTyped DEF Library!CallerReads, Library!Harm,
         Library!Rest
  <1>19. CASE Library!MFC
    <2>1. PICK i \in LibSlots : driver' = [driver EXCEPT ![i].at = "done"]
      BY <1>19 DEF Library!MFC, Library!Slots
    <2> QED
      BY <1>19, <2>1, SlotsStayTyped DEF Library!MFC, Library!Slots
  <1>20. CASE Library!FlushStreamsOff
    BY <1>20 DEF Library!FlushStreamsOff, Library!Nothing, Library!Slots
  <1>21. CASE Library!FlushStops
    BY <1>21, LibraryAssumption, SlotsStayTyped DEF Library!FlushStops
  <1>22. CASE Library!FlushClears
    BY <1>22, LibraryAssumption, SlotsStayTyped DEF Library!FlushClears, Library!Unmarked,
         Library!Slots
  <1>23. CASE Library!FlushEnqueuesAll
    BY <1>23, LibraryAssumption, SlotsStayTyped DEF Library!FlushEnqueuesAll, Library!Unmarked,
         Library!Slots
  <1>24. CASE UNCHANGED libraryVars
    BY <1>24, LibraryAssumption, SlotsStayTyped DEF libraryVars
  <1> QED
    BY <1>1, <1>2, <1>3, <1>4, <1>5, <1>6, <1>7, <1>8, <1>9, <1>10, <1>11, <1>12, <1>13, <1>14,
         <1>15, <1>16, <1>17, <1>18, <1>19, <1>20, <1>21, <1>22, <1>23, <1>24 DEF Library!Next,
         Library!Enqueues, Library!Dequeues, Library!Flushes

\* The call that returns a slot leaves alone what the driver has, which is
\* never that slot, ...
LEMMA DriverHasGiven ==
    ASSUME LibraryInv, Library!DecInDequeues \/ Library!DecOutDequeues \/ Library!EncDequeues
    PROVE  DriverHas'
  <1>1. DriverHas /\ DequeueHas
    BY DEF LibraryInv
  <1>2. dequeue.pc = "has" /\ dequeue.index \in LibSlots
    BY SlotGiven
  <1>3. driver' = driver /\ idle' = idle /\ enqueue' = enqueue
    BY SlotGiven
  <1>4. \A i \in LibSlots :
            /\ slots'[i].private = slots[i].private
            /\ i # dequeue.index => slots'[i].queued = slots[i].queued
    BY SlotGiven
  <1>5. InHand' => dequeue'.buf = dequeue.buf
    BY SlotGiven DEF InHand
  <1>6. InHand /\ ~ InDriver(dequeue.index)
    BY ONLY <1>1, <1>2 DEF DequeueHas, InHand
  <1>7. ASSUME NEW i \in LibSlots, InDriver(i)'
        PROVE  /\ slots'[i].queued /\ driver'[i].buf \in CodecBuffers \ idle'
               /\ driver'[i].at = "done" => slots'[i].private = driver'[i].buf
               /\ \/ slots'[i].private = driver'[i].buf
                  \/ enqueue'.pc = "queued" /\ enqueue'.index = i
               /\ \A j \in LibSlots \ {i} : InDriver(j)' => driver'[j].buf # driver'[i].buf
               /\ InHand' => dequeue'.buf # driver'[i].buf
    <2>0. i \in LibSlots
      OBVIOUS
    <2>1. \A j \in LibSlots : InDriver(j)' <=> InDriver(j)
      BY ONLY <1>3 DEF InDriver
    <2>2. InDriver(i) /\ i # dequeue.index
      BY ONLY <1>6, <1>7, <2>1
    <2> QED
      <3>1. /\ slots[i].queued /\ driver[i].buf \in CodecBuffers \ idle
            /\ driver[i].at = "done" => slots[i].private = driver[i].buf
            /\ slots[i].private = driver[i].buf \/ (enqueue.pc = "queued" /\ enqueue.index = i)
            /\ \A j \in LibSlots \ {i} : InDriver(j) => driver[j].buf # driver[i].buf
            /\ dequeue.buf # driver[i].buf
        BY ONLY <1>1, <1>6, <2>2 DEF DriverHas
      <3>2. slots'[i].private = slots[i].private /\ slots'[i].queued
        BY ONLY <1>4, <2>0, <2>2, <3>1
      <3>3. \A j \in LibSlots \ {i} : InDriver(j)' => driver'[j].buf # driver'[i].buf
        BY ONLY <1>3, <2>1, <3>1
      <3>4. InHand' => dequeue'.buf # driver'[i].buf
        BY ONLY <1>3, <1>5, <3>1
      <3> QED
        BY ONLY <1>3, <3>1, <3>2, <3>3, <3>4
  <1> QED
    BY ONLY <1>7 DEF DriverHas

\* ... and what is marked: where the slot's own mark stays the stream has
\* stopped, and only a flush stops it under a call.
LEMMA MarkedGiven ==
    ASSUME LibraryInv, Library!DecInDequeues \/ Library!DecOutDequeues \/ Library!EncDequeues
    PROVE  MarkedHas'
  <1>1. MarkedHas /\ StreamStopped
    BY DEF LibraryInv
  <1>2. dequeue.pc = "has" /\ dequeue.index \in LibSlots
    BY SlotGiven
  <1>3. driver' = driver /\ enqueue' = enqueue /\ flush' = flush
    BY SlotGiven
  <1>4. \A i \in LibSlots : i # dequeue.index => slots'[i].queued = slots[i].queued
    BY SlotGiven
  <1>5. slots'[dequeue.index].queued => ~ on
    BY SlotGiven
  <1>6. ASSUME NEW i \in LibSlots, flush' = "rest", slots'[i].queued
        PROVE  InDriver(i)' \/ Enqueuing(i)' \/ Dequeuing(i)'
    <2>1. on
      BY ONLY <1>1, <1>2, <1>3, <1>6 DEF StreamStopped
    <2>2. i # dequeue.index
      BY ONLY <1>5, <1>6, <2>1
    <2>3. InDriver(i) \/ Enqueuing(i) \/ Dequeuing(i)
      BY ONLY <1>1, <1>3, <1>4, <1>6, <2>2 DEF MarkedHas
    <2> QED
      BY ONLY <1>3, <2>2, <2>3 DEF InDriver, Enqueuing, Dequeuing
  <1> QED
    BY ONLY <1>6 DEF MarkedHas

\* What the driver has stays marked, under one name, and away from the caller.
LEMMA DriverHasKept ==
    ASSUME LibraryInv, [Library!Next]_libraryVars
    PROVE  DriverHas'
  <1>g. Library!DecInDequeues \/ Library!DecOutDequeues \/ Library!EncDequeues => DriverHas'
    BY DriverHasGiven
  <1> USE DEF LibraryInv, SlotsTyped, DriverTyped, CallersTyped, ModesTyped, LibSlots,
          BufferOrNone, SlotTypes, EntryTypes, CallTypes, Library!callers, Library!libraryVars,
          Fresh, StreamStopped, DriverHas, MarkedHas, EnqueueHas, DequeueHas, BoundSlots,
          InDriver, Enqueuing, Dequeuing, InHand, Library!Bound
  <1>1. CASE Library!SetupRefused
    BY <1>1, LibraryAssumption DEF Library!SetupRefused, Library!Fails, Library!Harm
  <1>2. CASE Library!SetupLater
    BY <1>2, LibraryAssumption DEF Library!SetupLater, Library!Fails
  <1>3. CASE Library!Setup
    BY <1>3, LibraryAssumption DEF Library!Setup, Library!Unqueued, Library!Slots
  <1>4. CASE Library!Finalize
    BY <1>4, LibraryAssumption DEF Library!Finalize, Library!Unqueued, Library!Nothing,
         Library!Slots
  <1>5. ASSUME NEW b \in CodecBuffers, Library!EnqueueMarks(b)
        PROVE  DriverHas'
    <2>1. PICK i \in LibSlots :
                /\ ~ slots[i].queued /\ (Library!Bound => slots[i].buf = b)
                /\ enqueue' = [pc |-> "marked", index |-> i, buf |-> b]
                /\ slots' = [slots EXCEPT ![i] = [@ EXCEPT !.queued = TRUE, !.buf = b]]
                /\ enqueue.pc = "rest" /\ flush = "rest" /\ ready /\ b \in idle
                /\ UNCHANGED <<kind, array, ready, on, driver, stream, idle, dequeue, flush,
                               wrong>>
      BY <1>5, SlotFound
    <2> QED
      BY <2>1, LibraryAssumption
  <1>6. ASSUME NEW b \in CodecBuffers, Library!EnqueueFindsNone(b)
        PROVE  DriverHas'
    BY <1>6, LibraryAssumption DEF Library!EnqueueFindsNone, Library!Harm
  <1>7. CASE Library!EnqueueQueues
    BY <1>7, LibraryAssumption DEF Library!EnqueueQueues
  <1>8. CASE Library!EnqueueFails
    BY <1>8, LibraryAssumption DEF Library!EnqueueFails, Library!Fails, Library!Harm,
         Library!Rest
  <1>9. CASE Library!EnqueuePrivate
    BY <1>9, LibraryAssumption DEF Library!EnqueuePrivate
  <1>10. CASE Library!Run
    BY <1>10, LibraryAssumption DEF Library!Run, Library!Fails, Library!Rest
  <1>11. CASE Library!DequeueWaits
    BY <1>11, LibraryAssumption DEF Library!DequeueWaits
  <1>12. CASE Library!DequeueHas
    BY <1>12, LibraryAssumption DEF Library!DequeueHas, Library!Slots
  <1>13. CASE Library!DequeueFails
    BY <1>13, LibraryAssumption DEF Library!DequeueFails, Library!Rest
  <1>14. CASE Library!DecInDequeues
    BY ONLY <1>14, <1>g
  <1>15. CASE Library!DecOutDequeues
    BY ONLY <1>15, <1>g
  <1>16. CASE Library!EncDequeues
    BY ONLY <1>16, <1>g
  <1>17. CASE Library!ExtensionDequeue
    BY <1>17, LibraryAssumption DEF Library!ExtensionDequeue, Library!Unmarks, Library!Gives,
         Library!Harm
  <1>18. CASE Library!CallerReads
    BY <1>18, LibraryAssumption DEF Library!CallerReads, Library!Harm, Library!Rest
  <1>19. CASE Library!MFC
    BY <1>19, LibraryAssumption DEF Library!MFC, Library!Slots
  <1>20. CASE Library!FlushStreamsOff
    BY <1>20, LibraryAssumption DEF Library!FlushStreamsOff, Library!Nothing, Library!Slots
  <1>21. CASE Library!FlushStops
    BY <1>21, LibraryAssumption DEF Library!FlushStops
  <1>22. CASE Library!FlushClears
    BY <1>22, LibraryAssumption DEF Library!FlushClears, Library!Unmarked, Library!Slots
  <1>23. CASE Library!FlushEnqueuesAll
    BY <1>23, LibraryAssumption DEF Library!FlushEnqueuesAll, Library!Unmarked, Library!Slots
  <1>24. CASE UNCHANGED libraryVars
    BY <1>24, LibraryAssumption DEF libraryVars
  <1> QED
    BY <1>1, <1>2, <1>3, <1>4, <1>5, <1>6, <1>7, <1>8, <1>9, <1>10, <1>11, <1>12, <1>13, <1>14,
         <1>15, <1>16, <1>17, <1>18, <1>19, <1>20, <1>21, <1>22, <1>23, <1>24 DEF Library!Next,
         Library!Enqueues, Library!Dequeues, Library!Flushes

\* A mark never outlives its buffer, but under a flush, which clears every mark.
LEMMA MarkedKept ==
    ASSUME LibraryInv, [Library!Next]_libraryVars
    PROVE  MarkedHas'
  <1>g. Library!DecInDequeues \/ Library!DecOutDequeues \/ Library!EncDequeues => MarkedHas'
    BY MarkedGiven
  <1> USE DEF LibraryInv, SlotsTyped, DriverTyped, CallersTyped, ModesTyped, LibSlots,
          BufferOrNone, SlotTypes, EntryTypes, CallTypes, Library!callers, Library!libraryVars,
          Fresh, StreamStopped, DriverHas, MarkedHas, EnqueueHas, DequeueHas, BoundSlots,
          InDriver, Enqueuing, Dequeuing, InHand, Library!Bound
  <1>1. CASE Library!SetupRefused
    BY <1>1, LibraryAssumption DEF Library!SetupRefused, Library!Fails, Library!Harm
  <1>2. CASE Library!SetupLater
    BY <1>2, LibraryAssumption DEF Library!SetupLater, Library!Fails
  <1>3. CASE Library!Setup
    BY <1>3, LibraryAssumption DEF Library!Setup, Library!Unqueued, Library!Slots
  <1>4. CASE Library!Finalize
    BY <1>4, LibraryAssumption DEF Library!Finalize, Library!Unqueued, Library!Nothing,
         Library!Slots
  <1>5. ASSUME NEW b \in CodecBuffers, Library!EnqueueMarks(b)
        PROVE  MarkedHas'
    <2>1. PICK i \in LibSlots :
                /\ ~ slots[i].queued /\ (Library!Bound => slots[i].buf = b)
                /\ enqueue' = [pc |-> "marked", index |-> i, buf |-> b]
                /\ slots' = [slots EXCEPT ![i] = [@ EXCEPT !.queued = TRUE, !.buf = b]]
                /\ enqueue.pc = "rest" /\ flush = "rest" /\ ready /\ b \in idle
                /\ UNCHANGED <<kind, array, ready, on, driver, stream, idle, dequeue, flush,
                               wrong>>
      BY <1>5, SlotFound
    <2> QED
      BY <2>1, LibraryAssumption
  <1>6. ASSUME NEW b \in CodecBuffers, Library!EnqueueFindsNone(b)
        PROVE  MarkedHas'
    BY <1>6, LibraryAssumption DEF Library!EnqueueFindsNone, Library!Harm
  <1>7. CASE Library!EnqueueQueues
    BY <1>7, LibraryAssumption DEF Library!EnqueueQueues
  <1>8. CASE Library!EnqueueFails
    BY <1>8, LibraryAssumption DEF Library!EnqueueFails, Library!Fails, Library!Harm,
         Library!Rest
  <1>9. CASE Library!EnqueuePrivate
    BY <1>9, LibraryAssumption DEF Library!EnqueuePrivate
  <1>10. CASE Library!Run
    BY <1>10, LibraryAssumption DEF Library!Run, Library!Fails, Library!Rest
  <1>11. CASE Library!DequeueWaits
    BY <1>11, LibraryAssumption DEF Library!DequeueWaits
  <1>12. CASE Library!DequeueHas
    BY <1>12, LibraryAssumption DEF Library!DequeueHas, Library!Slots
  <1>13. CASE Library!DequeueFails
    BY <1>13, LibraryAssumption DEF Library!DequeueFails, Library!Rest
  <1>14. CASE Library!DecInDequeues
    BY ONLY <1>14, <1>g
  <1>15. CASE Library!DecOutDequeues
    BY ONLY <1>15, <1>g
  <1>16. CASE Library!EncDequeues
    BY ONLY <1>16, <1>g
  <1>17. CASE Library!ExtensionDequeue
    BY <1>17, LibraryAssumption DEF Library!ExtensionDequeue, Library!Unmarks, Library!Gives,
         Library!Harm
  <1>18. CASE Library!CallerReads
    BY <1>18, LibraryAssumption DEF Library!CallerReads, Library!Harm, Library!Rest
  <1>19. CASE Library!MFC
    BY <1>19, LibraryAssumption DEF Library!MFC, Library!Slots
  <1>20. CASE Library!FlushStreamsOff
    BY <1>20, LibraryAssumption DEF Library!FlushStreamsOff, Library!Nothing, Library!Slots
  <1>21. CASE Library!FlushStops
    BY <1>21, LibraryAssumption DEF Library!FlushStops
  <1>22. CASE Library!FlushClears
    BY <1>22, LibraryAssumption DEF Library!FlushClears, Library!Unmarked, Library!Slots
  <1>23. CASE Library!FlushEnqueuesAll
    BY <1>23, LibraryAssumption DEF Library!FlushEnqueuesAll, Library!Unmarked, Library!Slots
  <1>24. CASE UNCHANGED libraryVars
    BY <1>24, LibraryAssumption DEF libraryVars
  <1> QED
    BY <1>1, <1>2, <1>3, <1>4, <1>5, <1>6, <1>7, <1>8, <1>9, <1>10, <1>11, <1>12, <1>13, <1>14,
         <1>15, <1>16, <1>17, <1>18, <1>19, <1>20, <1>21, <1>22, <1>23, <1>24 DEF Library!Next,
         Library!Enqueues, Library!Dequeues, Library!Flushes

\* Where buffers are bound to slots no step moves one to another's.
LEMMA BoundKept ==
    ASSUME LibraryInv, [Library!Next]_libraryVars
    PROVE  BoundSlots'
  <1> USE DEF LibraryInv, SlotsTyped, DriverTyped, CallersTyped, ModesTyped, LibSlots,
          BufferOrNone, SlotTypes, EntryTypes, CallTypes, Library!callers, Library!libraryVars,
          Fresh, StreamStopped, DriverHas, MarkedHas, EnqueueHas, DequeueHas, BoundSlots,
          InDriver, Enqueuing, Dequeuing, InHand, Library!Bound
  <1>1. CASE Library!SetupRefused
    BY <1>1, LibraryAssumption DEF Library!SetupRefused, Library!Fails, Library!Harm
  <1>2. CASE Library!SetupLater
    BY <1>2, LibraryAssumption DEF Library!SetupLater, Library!Fails
  <1>3. CASE Library!Setup
    BY <1>3, LibraryAssumption DEF Library!Setup, Library!Unqueued, Library!Slots
  <1>4. CASE Library!Finalize
    BY <1>4, LibraryAssumption DEF Library!Finalize, Library!Unqueued, Library!Nothing,
         Library!Slots
  <1>5. ASSUME NEW b \in CodecBuffers, Library!EnqueueMarks(b)
        PROVE  BoundSlots'
    <2>1. PICK i \in LibSlots :
                /\ ~ slots[i].queued /\ (Library!Bound => slots[i].buf = b)
                /\ enqueue' = [pc |-> "marked", index |-> i, buf |-> b]
                /\ slots' = [slots EXCEPT ![i] = [@ EXCEPT !.queued = TRUE, !.buf = b]]
                /\ enqueue.pc = "rest" /\ flush = "rest" /\ ready /\ b \in idle
                /\ UNCHANGED <<kind, array, ready, on, driver, stream, idle, dequeue, flush,
                               wrong>>
      BY <1>5, SlotFound
    <2> QED
      BY <2>1, LibraryAssumption
  <1>6. ASSUME NEW b \in CodecBuffers, Library!EnqueueFindsNone(b)
        PROVE  BoundSlots'
    BY <1>6, LibraryAssumption DEF Library!EnqueueFindsNone, Library!Harm
  <1>7. CASE Library!EnqueueQueues
    BY <1>7, LibraryAssumption DEF Library!EnqueueQueues
  <1>8. CASE Library!EnqueueFails
    BY <1>8, LibraryAssumption DEF Library!EnqueueFails, Library!Fails, Library!Harm,
         Library!Rest
  <1>9. CASE Library!EnqueuePrivate
    BY <1>9, LibraryAssumption DEF Library!EnqueuePrivate
  <1>10. CASE Library!Run
    BY <1>10, LibraryAssumption DEF Library!Run, Library!Fails, Library!Rest
  <1>11. CASE Library!DequeueWaits
    BY <1>11, LibraryAssumption DEF Library!DequeueWaits
  <1>12. CASE Library!DequeueHas
    BY <1>12, LibraryAssumption DEF Library!DequeueHas, Library!Slots
  <1>13. CASE Library!DequeueFails
    BY <1>13, LibraryAssumption DEF Library!DequeueFails, Library!Rest
  <1>14. CASE Library!DecInDequeues
    BY <1>14, SlotGiven, LibraryAssumption
  <1>15. CASE Library!DecOutDequeues
    BY <1>15, SlotGiven, LibraryAssumption
  <1>16. CASE Library!EncDequeues
    BY <1>16, SlotGiven, LibraryAssumption
  <1>17. CASE Library!ExtensionDequeue
    BY <1>17, LibraryAssumption DEF Library!ExtensionDequeue, Library!Unmarks, Library!Gives,
         Library!Harm
  <1>18. CASE Library!CallerReads
    BY <1>18, LibraryAssumption DEF Library!CallerReads, Library!Harm, Library!Rest
  <1>19. CASE Library!MFC
    BY <1>19, LibraryAssumption DEF Library!MFC, Library!Slots
  <1>20. CASE Library!FlushStreamsOff
    BY <1>20, LibraryAssumption DEF Library!FlushStreamsOff, Library!Nothing, Library!Slots
  <1>21. CASE Library!FlushStops
    BY <1>21, LibraryAssumption DEF Library!FlushStops
  <1>22. CASE Library!FlushClears
    BY <1>22, LibraryAssumption DEF Library!FlushClears, Library!Unmarked, Library!Slots
  <1>23. CASE Library!FlushEnqueuesAll
    BY <1>23, LibraryAssumption DEF Library!FlushEnqueuesAll, Library!Unmarked, Library!Slots
  <1>24. CASE UNCHANGED libraryVars
    BY <1>24, LibraryAssumption DEF libraryVars
  <1> QED
    BY <1>1, <1>2, <1>3, <1>4, <1>5, <1>6, <1>7, <1>8, <1>9, <1>10, <1>11, <1>12, <1>13, <1>14,
         <1>15, <1>16, <1>17, <1>18, <1>19, <1>20, <1>21, <1>22, <1>23, <1>24 DEF Library!Next,
         Library!Enqueues, Library!Dequeues, Library!Flushes

\* Enqueue finds a slot: that of the buffer is not marked, and where buffers
\* have no slots of their own, fewer are marked than there are.
LEMMA EnqueueFindsSome ==
    ASSUME LibraryInv, NEW b \in CodecBuffers, Library!EnqueueFindsNone(b)
    PROVE  FALSE
  <1> USE DEF InDriver, Enqueuing, Dequeuing, InHand
  <1>1. /\ enqueue.pc = "rest" /\ flush = "rest" /\ ready /\ b \in idle
        /\ Library!Find(b) = {}
    BY DEF Library!EnqueueFindsNone
  <1>2. NumSlots \in Nat /\ 0 \notin LibSlots
    BY LibraryAssumption DEF LibSlots
  <1>3. /\ \A i \in LibSlots : slots[i].queued => InDriver(i) \/ Dequeuing(i)
        /\ \A i \in LibSlots : InDriver(i) => driver[i].buf \in CodecBuffers \ {b}
        /\ InHand => dequeue.buf \in CodecBuffers \ {b}
    BY <1>1 DEF LibraryInv, MarkedHas, DriverHas, DequeueHas
  <1>4. CASE Library!Bound
    <2>1. PICK i \in LibSlots : Library!Registered[i] = b
      BY RegisteredTyped
    <2>2. slots[i].buf = b
      BY <1>1, <1>4, <2>1 DEF LibraryInv, BoundSlots
    <2>3. slots[i].queued
      BY <1>1, <1>4, <2>2 DEF Library!Find, Library!FindBound, Library!Slots, LibSlots
    <2>4. ~ InDriver(i)
      BY <1>3, <1>4, <2>2 DEF LibraryInv, BoundSlots
    <2>5. ~ Dequeuing(i)
      BY <1>2, <1>3, <1>4, <2>2 DEF LibraryInv, BoundSlots
    <2> QED
      BY <1>3, <2>3, <2>4, <2>5
  <1>5. CASE ~ Library!Bound
    <2>1. \A i \in LibSlots : InDriver(i) \/ Dequeuing(i)
      BY <1>1, <1>3, <1>5 DEF Library!Find, Library!FindEmpty, Library!Slots, LibSlots
    <2> DEFINE g == [i \in LibSlots |-> IF InDriver(i) THEN driver[i].buf ELSE dequeue.buf]
    <2>2. g \in [LibSlots -> CodecBuffers \ {b}]
      BY <1>3, <2>1
    <2>3. \A i, j \in LibSlots : g[i] = g[j] => i = j
      BY <2>1 DEF LibraryInv, DriverHas
    <2>4. g \in Injection(LibSlots, CodecBuffers \ {b})
      BY <2>2, <2>3 DEF Injection, IsInjective
    <2> HIDE DEF g
    <2>5. /\ IsFiniteSet(CodecBuffers \ {b})
          /\ Cardinality(CodecBuffers \ {b}) = Cardinality(CodecBuffers) - 1
      BY FS_RemoveElement, VdecOutputAssumption
    <2>6. Cardinality(LibSlots) = NumSlots
      BY <1>2, FS_Interval DEF LibSlots
    <2>7. Cardinality(LibSlots) <= Cardinality(CodecBuffers \ {b})
      BY <2>4, <2>5, FS_Injection DEF ExistsInjection
    <2>8. Cardinality(CodecBuffers) \in Nat /\ Cardinality(CodecBuffers) <= NumSlots
      BY FS_CardinalityType, VdecOutputAssumption, LibraryAssumption
    <2> QED
      BY <1>2, <2>5, <2>6, <2>7, <2>8
  <1> QED
    BY <1>4, <1>5

\* The callers are typed and nothing goes wrong: no enqueue is refused, no dequeue
\* returns a buffer under another's name, and the array is freed once.
LEMMA CallersKept ==
    ASSUME LibraryInv, [Library!Next]_libraryVars
    PROVE  CallersTyped'
  <1> USE DEF LibraryInv, SlotsTyped, DriverTyped, CallersTyped, ModesTyped, LibSlots,
          BufferOrNone, SlotTypes, EntryTypes, CallTypes, Library!callers, Library!libraryVars,
          Fresh, StreamStopped, DriverHas, MarkedHas, EnqueueHas, DequeueHas, BoundSlots,
          InDriver, Enqueuing, Dequeuing, InHand, Library!Bound
  <1>1. CASE Library!SetupRefused
    BY <1>1, LibraryAssumption DEF Library!SetupRefused, Library!Fails, Library!Harm
  <1>2. CASE Library!SetupLater
    BY <1>2, LibraryAssumption DEF Library!SetupLater, Library!Fails
  <1>3. CASE Library!Setup
    BY <1>3, LibraryAssumption DEF Library!Setup, Library!Unqueued, Library!Slots
  <1>4. CASE Library!Finalize
    BY <1>4, LibraryAssumption DEF Library!Finalize, Library!Unqueued, Library!Nothing,
         Library!Slots
  <1>5. ASSUME NEW b \in CodecBuffers, Library!EnqueueMarks(b)
        PROVE  CallersTyped'
    <2>1. PICK i \in LibSlots :
                /\ ~ slots[i].queued /\ (Library!Bound => slots[i].buf = b)
                /\ enqueue' = [pc |-> "marked", index |-> i, buf |-> b]
                /\ slots' = [slots EXCEPT ![i] = [@ EXCEPT !.queued = TRUE, !.buf = b]]
                /\ enqueue.pc = "rest" /\ flush = "rest" /\ ready /\ b \in idle
                /\ UNCHANGED <<kind, array, ready, on, driver, stream, idle, dequeue, flush,
                               wrong>>
      BY <1>5, SlotFound
    <2> QED
      BY <2>1, LibraryAssumption
  <1>6. ASSUME NEW b \in CodecBuffers, Library!EnqueueFindsNone(b)
        PROVE  CallersTyped'
    BY <1>6, EnqueueFindsSome
  <1>7. CASE Library!EnqueueQueues
    BY <1>7, LibraryAssumption DEF Library!EnqueueQueues
  <1>8. CASE Library!EnqueueFails
    BY <1>8, LibraryAssumption DEF Library!EnqueueFails, Library!Fails, Library!Harm,
         Library!Rest
  <1>9. CASE Library!EnqueuePrivate
    BY <1>9, LibraryAssumption DEF Library!EnqueuePrivate
  <1>10. CASE Library!Run
    BY <1>10, LibraryAssumption DEF Library!Run, Library!Fails, Library!Rest
  <1>11. CASE Library!DequeueWaits
    BY <1>11, LibraryAssumption DEF Library!DequeueWaits
  <1>12. CASE Library!DequeueHas
    BY <1>12, LibraryAssumption DEF Library!DequeueHas, Library!Slots
  <1>13. CASE Library!DequeueFails
    BY <1>13, LibraryAssumption DEF Library!DequeueFails, Library!Rest
  <1>14. CASE Library!DecInDequeues
    BY <1>14, GivenTyped
  <1>15. CASE Library!DecOutDequeues
    BY <1>15, GivenTyped
  <1>16. CASE Library!EncDequeues
    BY <1>16, GivenTyped
  <1>17. CASE Library!ExtensionDequeue
    <2>1. wrong' = wrong
      BY <1>17 DEF Library!ExtensionDequeue
    <2>2. dequeue' = [dequeue EXCEPT !.pc = "returned", !.index = 0]
      BY <1>17 DEF Library!ExtensionDequeue, Library!Gives
    <2>3. dequeue \in CallTypes /\ 0 \in 0 .. NumSlots
      BY LibraryAssumption
    <2>4. dequeue' \in CallTypes
      BY ONLY <2>2, <2>3 DEF CallTypes
    <2> QED
      BY <1>17, <2>1, <2>4 DEF Library!ExtensionDequeue
  <1>18. CASE Library!CallerReads
    BY <1>18, LibraryAssumption DEF Library!CallerReads, Library!Harm, Library!Rest
  <1>19. CASE Library!MFC
    BY <1>19, LibraryAssumption DEF Library!MFC, Library!Slots
  <1>20. CASE Library!FlushStreamsOff
    BY <1>20, LibraryAssumption DEF Library!FlushStreamsOff, Library!Nothing, Library!Slots
  <1>21. CASE Library!FlushStops
    BY <1>21, LibraryAssumption DEF Library!FlushStops
  <1>22. CASE Library!FlushClears
    BY <1>22, LibraryAssumption DEF Library!FlushClears, Library!Unmarked, Library!Slots
  <1>23. CASE Library!FlushEnqueuesAll
    BY <1>23, LibraryAssumption DEF Library!FlushEnqueuesAll, Library!Unmarked, Library!Slots
  <1>24. CASE UNCHANGED libraryVars
    BY <1>24, LibraryAssumption DEF libraryVars
  <1> QED
    BY <1>1, <1>2, <1>3, <1>4, <1>5, <1>6, <1>7, <1>8, <1>9, <1>10, <1>11, <1>12, <1>13, <1>14,
         <1>15, <1>16, <1>17, <1>18, <1>19, <1>20, <1>21, <1>22, <1>23, <1>24 DEF Library!Next,
         Library!Enqueues, Library!Dequeues, Library!Flushes

\* Initially the queue has no slots in use and the driver no buffers.
LEMMA LibraryInit ==
    ASSUME Library!Init
    PROVE  LibraryInv
  <1> USE DEF Library!Init, Library!Unqueued, Library!Nothing, Library!Rest, Library!Slots,
              LibSlots, InDriver, Enqueuing, Dequeuing, InHand
  <1>1. SlotsTyped /\ DriverTyped
    BY DEF SlotsTyped, DriverTyped, SlotTypes, EntryTypes, BufferOrNone
  <1>2. CallersTyped /\ ModesTyped
    <2>1. 0 \in 0 .. NumSlots
      BY LibraryAssumption
    <2> DEFINE rest == [pc |-> "rest", index |-> 0, buf |-> NoCodec]
    <2>2. /\ rest \in [pc : {"rest", "marked", "queued", "private"}, index : 0 .. NumSlots,
                       buf : BufferOrNone]
          /\ rest \in CallTypes
      BY ONLY <2>1 DEF CallTypes, BufferOrNone
    <2>3. enqueue = rest /\ dequeue = rest
      OBVIOUS
    <2> HIDE DEF rest
    <2>4. CallersTyped
      BY <2>2, <2>3 DEF CallersTyped
    <2> QED
      BY <2>4 DEF ModesTyped
  <1>3. Fresh /\ StreamStopped /\ DriverHas /\ MarkedHas
    BY DEF Fresh, StreamStopped, DriverHas, MarkedHas
  <1>4. EnqueueHas /\ DequeueHas /\ BoundSlots
    BY DEF EnqueueHas, DequeueHas, BoundSlots
  <1> QED
    BY <1>1, <1>2, <1>3, <1>4 DEF LibraryInv

\* No step of the library, of its callers or of the driver breaks the invariant.
LEMMA LibraryStep ==
    ASSUME LibraryInv, [Library!Next]_libraryVars
    PROVE  LibraryInv'
  BY LibModesKept, StoppedKept, EnqueueKept, DequeueKept, LibTypesKept, DriverHasKept,
     MarkedKept, BoundKept, CallersKept DEF LibraryInv

\* The invariant is what the run checks, and more.
LEMMA LibraryInvKeeps ==
    ASSUME LibraryInv
    PROVE  LibraryAgrees
  <1> USE DEF LibraryInv, Library!Slots, LibSlots, BufferOrNone
  <1>1. /\ slots \in [LibSlots -> SlotTypes] /\ driver \in [LibSlots -> EntryTypes]
        /\ CallersTyped /\ ModesTyped /\ DriverHas
    BY DEF SlotsTyped, DriverTyped
  <1>2. Library!TypeOK
    BY <1>1 DEF Library!TypeOK, SlotTypes, EntryTypes, CallersTyped, CallTypes, ModesTyped,
                Library!Harms
  <1>3. Library!HeldIsMarked
    BY <1>1 DEF Library!HeldIsMarked, DriverHas, InDriver
  <1>4. Library!NoHarm
    BY <1>1 DEF Library!NoHarm, CallersTyped
  <1> QED
    BY <1>2, <1>3, <1>4 DEF LibraryAgrees, Library!Kept

\* For every number of buffers and of slots and for each of the four queues:
\* what the driver has is marked as queued in the library, so that its index is
\* not offered again; no buffer of the caller is refused or returned under
\* another's name, whatever a flush, a failed call and the two callers do
\* between each other's steps; and the array is freed once.
THEOREM LibraryKeepsBuffers == MCSpec => []LibraryAgrees
  <1>1. MCInit => LibraryInv
    BY LibraryInit DEF MCInit
  <1>2. LibraryInv /\ [MCNext]_all => LibraryInv'
    <2>1. [MCNext]_all => [Library!Next]_libraryVars
      BY DEF MCNext, InPort, InLibrary, Alone, all
    <2> QED
      BY <2>1, LibraryStep
  <1>3. LibraryInv => LibraryAgrees
    BY LibraryInvKeeps
  <1> QED
    BY <1>1, <1>2, <1>3, PTL DEF MCSpec
=============================================================================
