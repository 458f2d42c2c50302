-------------------------- MODULE VdecInput_proofs --------------------------
(* Proofs about VdecInput: for any number of buffers, whatever the client    *)
(* does and the MFC refuses, a buffer that the client has passed is in one   *)
(* place of the component and one that was returned is nowhere in it; and if *)
(* nothing disturbs the flow none is lost.                                   *)
EXTENDS VdecInput, FiniteSetTheorems, SequenceTheorems, TLAPS

(* Sequences without repetition: the queue and what the MFC holds.           *)

\* A queue that holds nothing is empty.
LEMMA NoneQueued ==
    ASSUME NEW S, NEW s \in Seq(S), Range(s) = {}
    PROVE  Len(s) = 0
  <1>1. DOMAIN s = 1 .. Len(s) /\ Len(s) \in Nat
    BY LenProperties
  <1>2. \A i \in DOMAIN s : s[i] \in Range(s)
    BY DEF Range
  <1>3. ASSUME Len(s) # 0
        PROVE  FALSE
    <2>1. 1 \in DOMAIN s
      BY ONLY <1>1, <1>3
    <2>2. s[1] \in {}
      BY <1>2, <2>1
    <2> QED
      BY ONLY <2>2
  <1> QED
    BY ONLY <1>3

\* A queue without repetition is no longer than the set of what it holds.
LEMMA NoLongerThanTheSet ==
    ASSUME NEW S, IsFiniteSet(S), NEW s \in Seq(S), IsInjective(s)
    PROVE  Len(s) <= Cardinality(S) /\ Len(s) \in Nat
  <1>1. s \in Injection(1 .. Len(s), S)
    BY DEF IsInjective, Injection
  <1>2. Cardinality(1 .. Len(s)) <= Cardinality(S)
    BY <1>1, FS_Injection
  <1>3. Len(s) \in Nat
    BY LenProperties
  <1>4. Cardinality(1 .. Len(s)) = Len(s)
    <2>1. 1 \in Int /\ Len(s) \in Int
      BY <1>3
    <2>2. Cardinality(1 .. Len(s)) = IF 1 > Len(s) THEN 0 ELSE Len(s) - 1 + 1
      BY <2>1, FS_Interval
    <2> QED
      BY <1>3, <2>2
  <1> QED
    BY <1>2, <1>3, <1>4

LEMMA AppendIsInjective ==
    ASSUME NEW S, NEW s \in Seq(S), NEW e \in S, IsInjective(s), e \notin Range(s)
    PROVE  /\ Append(s, e) \in Seq(S) /\ IsInjective(Append(s, e))
           /\ Range(Append(s, e)) = Range(s) \cup {e}
           /\ Len(Append(s, e)) = Len(s) + 1
  BY AppendProperties DEF IsInjective, Range

LEMMA TailIsInjective ==
    ASSUME NEW S, NEW s \in Seq(S), s # <<>>, IsInjective(s)
    PROVE  /\ Tail(s) \in Seq(S) /\ IsInjective(Tail(s))
           /\ Head(s) \in S /\ Head(s) \in Range(s)
           /\ Range(Tail(s)) = Range(s) \ {Head(s)}
           /\ Len(Tail(s)) = Len(s) - 1 /\ Len(s) \in Nat \ {0}
  <1>1. /\ Head(s) \in S /\ Tail(s) \in Seq(S) /\ Len(s) \in Nat \ {0}
        /\ Len(Tail(s)) = Len(s) - 1
        /\ \A i \in 1 .. Len(Tail(s)) : Tail(s)[i] = s[i + 1]
        /\ Head(s) = s[1] /\ DOMAIN s = 1 .. Len(s)
        /\ DOMAIN Tail(s) = 1 .. Len(s) - 1
    BY HeadTailProperties
  <1> DEFINE t == Tail(s)
             h == Head(s)
  <1>2. IsInjective(t)
    BY <1>1 DEF IsInjective
  <1>3. Range(t) = Range(s) \ {h}
    <2>1. ASSUME NEW i \in 1 .. Len(s), s[i] # h
          PROVE  s[i] = t[i - 1] /\ i - 1 \in DOMAIN t
      BY <1>1, <2>1
    <2>2. ASSUME NEW i \in DOMAIN t
          PROVE  t[i] = s[i + 1] /\ i + 1 \in DOMAIN s /\ s[i + 1] # h
      BY <1>1, <2>2 DEF IsInjective
    <2>3. ASSUME NEW x \in Range(s), x # h PROVE x \in Range(t)
      <3>1. PICK i \in 1 .. Len(s) : x = s[i]
        BY <1>1 DEF Range
      <3> QED
        BY <2>1, <2>3, <3>1 DEF Range
    <2>4. ASSUME NEW x \in Range(t) PROVE x \in Range(s) /\ x # h
      BY <2>2, <2>4 DEF Range
    <2> QED
      BY <2>3, <2>4
  <1>4. h \in Range(s)
    <2>1. 1 \in DOMAIN s /\ s[1] = h
      BY <1>1
    <2> QED
      BY ONLY <2>1 DEF Range
  <1> QED
    BY <1>1, <1>2, <1>3, <1>4

LEMMA EmptyIsInjective ==
    ASSUME NEW S
    PROVE  <<>> \in Seq(S) /\ IsInjective(<<>>) /\ Range(<<>>) = {} /\ Len(<<>>) = 0
  BY DEF IsInjective, Range
-----------------------------------------------------------------------------
(* What keeps a buffer in one place, whatever happens: who has the mutex     *)
(* while the data buffers and the queue change, what a flush has emptied,    *)
(* and how many the semaphore may announce more than the queue holds.        *)

Body == {"noData", "data", "prepared", "semaphore", "dequeue", "process"}
SrcInputPlaces ==
    Body \cup {"outer", "paused", "resume", "inner", "checks", "lock", "exited"}

Reset == {"returned", "drained", "reset"}
Stopped == Reset \cup {"stopped", "locked2", "emptied"}
Locked == Stopped \cup {"locked1"}
Flushing == Locked \cup {"marked", "woken"}
Exiting == {"exiting", "joinInput", "joinOutput", "ended"}
HandlerPlaces == Flushing \cup Exiting \cup {"idle", "flushed"}

Types ==
    /\ currentState \in {"Idle", "Executing", "Pause", "Invalid"}
    /\ transientState \in {"Max", "LoadedToIdle", "IdleToExecuting",
                           "ExecutingToIdle", "IdleToLoaded"}
    /\ portState \in {"Idle", "Loaded", "Invalid"}
    /\ bBufferInOMX \subseteq Buffers /\ atClient \subseteq Buffers
    /\ inputDataBuffer \in Buffers \cup {NoBuffer}
    /\ processData \in Buffers \cup {NoBuffer}
    /\ bufferQ \in Seq(Buffers) /\ mfcInput \in Seq(Buffers)
    /\ command \in {"none", "Flush"} \cup Targets
    /\ bufferSem \in Nat

Flags ==
    /\ bIsPortFlushed \in BOOLEAN /\ pauseEvent \in BOOLEAN
    /\ bExitBufferProcessThread \in BOOLEAN
    /\ decodeYet \in BOOLEAN /\ bStreamonInbuf \in BOOLEAN
    /\ bConfiguredMFCSrc \in BOOLEAN /\ bSourceStart \in BOOLEAN
    /\ hSourceStartEvent \in BOOLEAN /\ exceptionFlag \in BOOLEAN

Mutexes ==
    /\ bufferMutex \in [1 .. 2 -> {"free", "SrcInput", "SrcOutput", "handler"}]
    /\ srcInput \in SrcInputPlaces /\ handler \in HandlerPlaces
    /\ srcInput \in Body => bufferMutex[1] = "SrcInput"
    /\ handler \in Locked => bufferMutex[1] = "handler"

CallChecked ==
    /\ call \in [at : {"none", "checked", "queued"}, buffer : Buffers \cup {NoBuffer}]
    /\ call.at = "checked" => call.buffer \in atClient \ Inside

FlushEmpties ==
    /\ handler \in Flushing => bIsPortFlushed
    /\ handler \in Stopped => mfcInput = <<>>
    /\ handler \in Reset => inputDataBuffer = NoBuffer /\ processData = NoBuffer

One(p) == IF p THEN 1 ELSE 0

\* What a flush and the end of the threads add to the semaphore.
Extra == IF handler \in {"woken", "locked1", "stopped", "locked2", "emptied", "returned",
                         "joinInput", "joinOutput", "ended"} THEN 2 ELSE 1

SemaphoreBounded ==
    /\ bufferSem + One(call.at = "queued") + One(srcInput = "dequeue")
          <= Len(bufferQ) + Extra
    /\ handler = "drained" =>
          bufferSem + One(call.at = "queued") + One(call.at = "checked") <= 1

Kept ==
    /\ Types /\ Mutexes /\ CallChecked /\ FlushEmpties /\ SemaphoreBounded
    /\ ReturnedIsGone /\ OnePlace

LEMMA KeptHasTypes ==
    ASSUME Kept, Flags
    PROVE  TypeOK
  <1>1. Cardinality(Buffers) \in Nat
    BY VdecPortAssumption, FS_CardinalityType
  <1>2. /\ Len(bufferQ) <= Cardinality(Buffers) /\ Len(bufferQ) \in Nat
        /\ Len(mfcInput) <= Cardinality(Buffers)
    BY VdecPortAssumption, NoLongerThanTheSet DEF Kept, Types, OnePlace
  <1>3. bufferSem \in 0 .. Cardinality(Buffers) + 2
    BY <1>1, <1>2 DEF Kept, Types, SemaphoreBounded, One, Extra
  <1> QED
    BY <1>2, <1>3 DEF Kept, Types, Flags, CallChecked, TypeOK, PortTypeOK

LEMMA KeptInit ==
    ASSUME Init
    PROVE  Kept /\ Flags
  <1> USE EmptyIsInjective, VdecPortAssumption DEF Init, PortInit, NoCall
  <1>1. Inside = {} /\ bufferSem = 0 /\ call = [at |-> "none", buffer |-> NoBuffer]
    BY DEF Inside, Queued, Range
  <1>2. Types /\ CallChecked
    BY <1>1 DEF Types, CallChecked
  <1>3. Flags
    BY DEF Flags
  <1>4. Mutexes
    BY DEF Mutexes, Body, SrcInputPlaces, HandlerPlaces, Flushing, Locked, Stopped,
       Reset, Exiting
  <1>5. FlushEmpties /\ SemaphoreBounded
    BY DEF FlushEmpties, SemaphoreBounded, One, Extra, Flushing, Locked, Stopped, Reset
  <1>6. ReturnedIsGone /\ OnePlace
    BY <1>1 DEF ReturnedIsGone, OnePlace, Queued, Range
  <1> QED
    BY <1>2, <1>3, <1>4, <1>5, <1>6 DEF Kept

LEMMA KeptStep ==
    ASSUME Kept, [Next]_vars
    PROVE  Kept'
  <1> USE DEF Kept, Types, Mutexes, CallChecked, FlushEmpties, SemaphoreBounded,
          ReturnedIsGone, OnePlace, Inside, One, Extra, Body, SrcInputPlaces,
          HandlerPlaces, Flushing, Locked, Stopped, Reset, Exiting, stateVars,
          queueVars, flowVars, portVars, dataVars, mfcVars, startVars, inputVars
  <1> USE VdecPortAssumption
  <1>0. /\ Queued = Range(bufferQ) /\ Queued' = Range(bufferQ')
        /\ Range(bufferQ) \subseteq Buffers /\ Range(mfcInput) \subseteq Buffers
        /\ Len(bufferQ) \in Nat
        /\ <<>> \in Seq(Buffers) /\ IsInjective(<<>>) /\ Range(<<>>) = {} /\ Len(<<>>) = 0
    BY EmptyIsInjective, LenProperties DEF Queued, Range
  <1>1. CASE UNCHANGED vars
    BY <1>0, <1>1 DEF vars
  <1>2. CASE (\E b \in Buffers : CallCheck(b)) /\ UNCHANGED inputVars
    BY <1>0, <1>2 DEF CallCheck, NoCall
  <1>3. CASE CallQueue /\ UNCHANGED inputVars
    <2> USE <1>0, <1>3 DEF CallQueue
    <2>1. /\ call.buffer \in Buffers /\ call.buffer \notin Range(bufferQ)
          /\ call'.buffer = call.buffer /\ call'.at = "queued"
      OBVIOUS
    <2>2. /\ bufferQ' \in Seq(Buffers) /\ IsInjective(bufferQ')
          /\ Range(bufferQ') = Range(bufferQ) \cup {call.buffer}
          /\ Len(bufferQ') = Len(bufferQ) + 1
      BY <2>1, AppendIsInjective
    <2>3. Types'
      BY <2>1, <2>2
    <2>4. Mutexes'
      BY <2>1, <2>2
    <2>5. CallChecked'
      BY <2>1, <2>2
    <2>6. FlushEmpties'
      BY <2>1, <2>2
    <2>7. SemaphoreBounded'
      BY <2>1, <2>2
    <2>8. ReturnedIsGone'
      BY <2>1, <2>2
    <2>9. OnePlace'
      BY <2>1, <2>2
    <2> QED
      BY <2>3, <2>4, <2>5, <2>6, <2>7, <2>8, <2>9
  <1>4. CASE CallPost /\ UNCHANGED inputVars
    BY <1>0, <1>4 DEF CallPost, NoCall
  <1>5. CASE SendFlush /\ UNCHANGED inputVars
    BY <1>0, <1>5 DEF SendFlush, ClientMaySend
  <1>6. CASE (\E s \in Targets : SendStateSet(s)) /\ UNCHANGED inputVars
    BY <1>0, <1>6 DEF SendStateSet, ClientMaySend, Transitions
  <1>7. CASE ToExecuting /\ UNCHANGED inputVars
    BY <1>0, <1>7 DEF ToExecuting
  <1>8. CASE ToPause /\ UNCHANGED inputVars
    BY <1>0, <1>8 DEF ToPause
  <1>9. CASE FlushMark /\ UNCHANGED inputVars
    BY <1>0, <1>9 DEF FlushMark
  <1>10. CASE FlushWake
    BY <1>0, <1>10 DEF FlushWake
  <1>11. CASE FlushLock1
    BY <1>0, <1>11 DEF FlushLock1, FlushLock, Lock
  <1>12. CASE FlushStop
    BY <1>0, <1>12 DEF FlushStop
  <1>13. CASE FlushLock2
    BY <1>0, <1>13 DEF FlushLock2, FlushLock, Lock
  <1>14. CASE FlushQueue
    <2> USE <1>0, <1>14 DEF FlushQueue, BufferReturn, PortMutexFree, DrainedSem
    <2>1. Types'
      OBVIOUS
    <2>2. Mutexes'
      OBVIOUS
    <2>3. CallChecked'
      OBVIOUS
    <2>4. FlushEmpties'
      OBVIOUS
    <2>5. SemaphoreBounded'
      <3>1. bufferSem' = 0 \/ bufferSem' + Len(bufferQ) = bufferSem
        OBVIOUS
      <3>2. bufferSem + One(call.at = "queued") + One(srcInput = "dequeue") <=
              Len(bufferQ) + 2
        OBVIOUS
      <3>3. bufferSem \in Nat /\ bufferSem' \in Nat /\ \A p : One(p) \in {0, 1}
        BY <2>1
      <3>4. /\ Len(bufferQ') = 0 /\ Extra' = 2 /\ handler' # "drained"
            /\ UNCHANGED <<call, srcInput>>
        OBVIOUS
      <3> HIDE DEF One, Extra
      <3>5. bufferSem' + One(call.at = "queued") + One(srcInput = "dequeue") <= 2
        BY <1>0, <3>1, <3>2, <3>3
      <3> QED
        BY <3>4, <3>5
    <2>6. ReturnedIsGone'
      OBVIOUS
    <2>7. OnePlace'
      OBVIOUS
    <2> QED
      BY <2>1, <2>2, <2>3, <2>4, <2>5, <2>6, <2>7
  <1>15. CASE FlushReturn
    <2> USE <1>0, <1>15 DEF FlushReturn, BufferReturn, PortMutexFree
    <2>1. Types'
      OBVIOUS
    <2>2. Mutexes'
      OBVIOUS
    <2>3. CallChecked'
      OBVIOUS
    <2>4. FlushEmpties'
      OBVIOUS
    <2>5. SemaphoreBounded'
      OBVIOUS
    <2>6. ReturnedIsGone'
      OBVIOUS
    <2>7. OnePlace'
      OBVIOUS
    <2> QED
      BY <2>1, <2>2, <2>3, <2>4, <2>5, <2>6, <2>7
  <1>16. CASE FlushDrainSem /\ UNCHANGED inputVars
    BY <1>0, <1>16 DEF FlushDrainSem
  <1>17. CASE FlushResetQueue /\ UNCHANGED inputVars
    BY <1>0, <1>17 DEF FlushResetQueue
  <1>18. CASE FlushDone /\ processData' = NoBuffer /\ UNCHANGED <<srcInput, decodeYet,
          inputDataBuffer, srcOutput, mfcVars, startVars, exceptionFlag>>
    BY <1>0, <1>18 DEF FlushDone
  <1>19. CASE TerminateBegin /\ UNCHANGED inputVars
    BY <1>0, <1>19 DEF TerminateBegin
  <1>20. CASE TerminateSrcInput
    BY <1>0, <1>20 DEF TerminateSrcInput
  <1>21. CASE TerminateSrcOutput
    BY <1>0, <1>21 DEF TerminateSrcOutput
  <1>22. CASE TerminateDone
    BY <1>0, <1>22 DEF TerminateDone
  <1>23. CASE BufferProcess_Create
    BY <1>0, <1>23 DEF BufferProcess_Create
  <1>24. CASE SrcInputOuter
    BY <1>0, <1>24 DEF SrcInputOuter, SrcInputGoes
  <1>25. CASE SrcInputPaused
    BY <1>0, <1>25 DEF SrcInputPaused, SrcInputGoes
  <1>26. CASE SrcInputInner
    BY <1>0, <1>26 DEF SrcInputInner, SrcInputGoes
  <1>27. CASE SrcInputChecks
    BY <1>0, <1>27 DEF SrcInputChecks, SrcInputGoes
  <1>28. CASE SrcInputPrepared
    BY <1>0, <1>28 DEF SrcInputPrepared, SrcInputGoes
  <1>29. CASE SrcInputGetQueue
    BY <1>0, <1>29 DEF SrcInputGetQueue, SrcInputGoes
  <1>30. CASE SrcInputResume
    BY <1>0, <1>30 DEF SrcInputResume
  <1>31. CASE SrcInputLock
    BY <1>0, <1>31 DEF SrcInputLock, Lock
  <1>32. CASE SrcInputPreprocess
    <2> USE <1>0, <1>32 DEF SrcInputPreprocess
    <2>1. Types'
      OBVIOUS
    <2>2. Mutexes'
      OBVIOUS
    <2>3. CallChecked'
      OBVIOUS
    <2>4. FlushEmpties'
      OBVIOUS
    <2>5. SemaphoreBounded'
      OBVIOUS
    <2>6. ReturnedIsGone'
      OBVIOUS
    <2>7. OnePlace'
      OBVIOUS
    <2> QED
      BY <2>1, <2>2, <2>3, <2>4, <2>5, <2>6, <2>7
  <1>33. CASE SrcInputFlushed
    BY <1>0, <1>33 DEF SrcInputFlushed, SrcInputUnlocks, Unlock
  <1>34. CASE SrcInputGetsNothing
    BY <1>0, <1>34 DEF SrcInputGetsNothing, SrcInputUnlocks, Unlock
  <1>35. CASE SrcInputDequeue
    <2> USE <1>0, <1>35 DEF SrcInputDequeue, SrcInputUnlocks, Unlock
    <2>1. CASE bufferQ = <<>>
      BY <2>1
    <2>2. CASE bufferQ # <<>>
      <3>1. bufferQ' = Tail(bufferQ) /\ inputDataBuffer' = Head(bufferQ)
        BY <2>2
      <3>2. /\ bufferQ' \in Seq(Buffers) /\ IsInjective(bufferQ')
            /\ inputDataBuffer' \in Range(bufferQ)
            /\ Range(bufferQ') = Range(bufferQ) \ {inputDataBuffer'}
            /\ Len(bufferQ') = Len(bufferQ) - 1
        BY <2>2, <3>1, TailIsInjective
      <3>3. Inside' \subseteq Inside
        BY <3>2
      <3>4. Types'
        BY <3>2, <3>3
      <3>5. Mutexes'
        BY <3>2, <3>3
      <3>6. CallChecked'
        BY <3>2, <3>3
      <3>7. FlushEmpties'
        BY <3>2, <3>3
      <3>8. SemaphoreBounded'
        BY <3>2, <3>3
      <3>9. ReturnedIsGone'
        BY <3>2, <3>3
      <3>10. OnePlace'
        BY <3>2, <3>3
      <3> QED
        BY <3>4, <3>5, <3>6, <3>7, <3>8, <3>9, <3>10
    <2> QED
      BY <2>1, <2>2
  <1>36. CASE SrcInputHeld
    <2> USE <1>0, <1>36 DEF SrcInputHeld, SrcInputUnlocks, Unlock
    <2>1. Types'
      OBVIOUS
    <2>2. Mutexes'
      OBVIOUS
    <2>3. CallChecked'
      OBVIOUS
    <2>4. FlushEmpties'
      OBVIOUS
    <2>5. SemaphoreBounded'
      OBVIOUS
    <2>6. ReturnedIsGone'
      OBVIOUS
    <2>7. OnePlace'
      OBVIOUS
    <2> QED
      BY <2>1, <2>2, <2>3, <2>4, <2>5, <2>6, <2>7
  <1>37. CASE SrcSetup
    BY <1>0, <1>37 DEF SrcSetup, SrcInputUnlocks, Unlock
  <1>38. CASE SrcSetupFails
    <2> USE <1>0, <1>38 DEF SrcSetupFails, SrcInputUnlocks, Unlock
    <2>1. Types'
      OBVIOUS
    <2>2. Mutexes'
      OBVIOUS
    <2>3. CallChecked'
      OBVIOUS
    <2>4. FlushEmpties'
      OBVIOUS
    <2>5. SemaphoreBounded'
      OBVIOUS
    <2>6. ReturnedIsGone'
      OBVIOUS
    <2>7. OnePlace'
      OBVIOUS
    <2> QED
      BY <2>1, <2>2, <2>3, <2>4, <2>5, <2>6, <2>7
  <1>39. CASE SrcIn
    <2> USE <1>0, <1>39 DEF SrcIn, SrcInputUnlocks, Unlock
    <2>1. CASE processData = NoBuffer
      BY <2>1
    <2>2. CASE processData # NoBuffer
      <3>1. /\ mfcInput' = Append(mfcInput, processData)
            /\ processData \in Buffers /\ processData \notin Range(mfcInput)
        BY <2>2
      <3>2. /\ mfcInput' \in Seq(Buffers) /\ IsInjective(mfcInput')
            /\ Range(mfcInput') = Range(mfcInput) \cup {processData}
        BY <3>1, AppendIsInjective
      <3>3. Types'
        BY <2>2, <3>1, <3>2
      <3>4. Mutexes'
        BY <2>2, <3>1, <3>2
      <3>5. CallChecked'
        BY <2>2, <3>1, <3>2
      <3>6. FlushEmpties'
        BY <2>2, <3>1, <3>2
      <3>7. SemaphoreBounded'
        BY <2>2, <3>1, <3>2
      <3>8. ReturnedIsGone'
        BY <2>2, <3>1, <3>2
      <3>9. OnePlace'
        BY <2>2, <3>1, <3>2
      <3> QED
        BY <3>3, <3>4, <3>5, <3>6, <3>7, <3>8, <3>9
    <2> QED
      BY <2>1, <2>2
  <1>40. CASE SrcInDrops
    <2> USE <1>0, <1>40 DEF SrcInDrops, SrcInputUnlocks, Unlock
    <2>1. Types'
      OBVIOUS
    <2>2. Mutexes'
      OBVIOUS
    <2>3. CallChecked'
      OBVIOUS
    <2>4. FlushEmpties'
      OBVIOUS
    <2>5. SemaphoreBounded'
      OBVIOUS
    <2>6. ReturnedIsGone'
      OBVIOUS
    <2>7. OnePlace'
      OBVIOUS
    <2> QED
      BY <2>1, <2>2, <2>3, <2>4, <2>5, <2>6, <2>7
  <1>41. CASE SrcInputWait
    BY <1>0, <1>41 DEF SrcInputWait
  <1>42. CASE SrcOutputLoop
    BY <1>0, <1>42 DEF SrcOutputLoop, SrcOutputGoes
  <1>43. CASE SrcOutputStarted
    BY <1>0, <1>43 DEF SrcOutputStarted, SrcOutputGoes
  <1>44. CASE SrcOutputLock
    BY <1>0, <1>44 DEF SrcOutputLock, Lock
  <1>45. CASE SrcOutputResetEvent
    BY <1>0, <1>45 DEF SrcOutputResetEvent
  <1>46. CASE SrcOutputReturn
    <2> USE <1>0, <1>46 DEF SrcOutputReturn, Unlock, BufferReturn
    <2>1. CASE bStreamonInbuf
      <3>1. mfcInput # <<>> /\ mfcInput' = Tail(mfcInput)
        BY <2>1
      <3>2. /\ IsInjective(Tail(mfcInput)) /\ Tail(mfcInput) \in Seq(Buffers)
            /\ Head(mfcInput) \in Range(mfcInput)
            /\ Range(Tail(mfcInput)) = Range(mfcInput) \ {Head(mfcInput)}
        BY <3>1, TailIsInjective
      <3>3. /\ mfcInput' \in Seq(Buffers) /\ IsInjective(mfcInput')
            /\ Head(mfcInput) \in Range(mfcInput)
            /\ Range(mfcInput') = Range(mfcInput) \ {Head(mfcInput)}
        BY <3>1, <3>2
      <3>4. Types'
        BY <2>1, <3>1, <3>3
      <3>5. Mutexes'
        BY <2>1, <3>1, <3>3
      <3>6. CallChecked'
        BY <2>1, <3>1, <3>3
      <3>7. FlushEmpties'
        BY <2>1, <3>1, <3>3
      <3>8. SemaphoreBounded'
        BY <2>1, <3>1, <3>3
      <3>9. ReturnedIsGone'
        BY <2>1, <3>1, <3>3
      <3>10. OnePlace'
        BY <2>1, <3>1, <3>3
      <3> QED
        BY <3>4, <3>5, <3>6, <3>7, <3>8, <3>9, <3>10
    <2>2. CASE ~bStreamonInbuf
      BY <2>2
    <2> QED
      BY <2>1, <2>2
  <1>47. CASE OutputPortEnabled
    BY <1>0, <1>47 DEF OutputPortEnabled
  <1> QED
    BY <1>1, <1>2, <1>3, <1>4, <1>5, <1>6, <1>7, <1>8, <1>9, <1>10, <1>11, <1>12, <1>13,
       <1>14, <1>15, <1>16, <1>17, <1>18, <1>19, <1>20, <1>21, <1>22, <1>23, <1>24,
       <1>25, <1>26, <1>27, <1>28, <1>29, <1>30, <1>31, <1>32, <1>33, <1>34, <1>35,
       <1>36, <1>37, <1>38, <1>39, <1>40, <1>41, <1>42, <1>43, <1>44, <1>45, <1>46,
       <1>47, ZenonT(40) DEF Next, EmptyThisBuffer, SendCommand, Handler,
       SrcInputThread, SrcOutputThread

\* The flags stay flags.
LEMMA FlagsStep ==
    ASSUME Flags, [Next]_vars
    PROVE  Flags'
  <1> USE DEF Flags, stateVars, queueVars, flowVars, portVars, dataVars, mfcVars,
          startVars, inputVars, vars
  <1>1. CASE UNCHANGED vars
    BY ZenonT(40), <1>1
  <1>2. CASE (EmptyThisBuffer \/ SendCommand) /\ UNCHANGED inputVars
    BY ZenonT(40), <1>2 DEF EmptyThisBuffer, CallCheck, CallQueue, CallPost, SendCommand,
       SendFlush, SendStateSet
  <1>3. CASE Handler
    BY ZenonT(40), <1>3 DEF Handler, ToExecuting, ToPause, FlushMark, FlushWake,
       FlushLock1, FlushLock2, FlushLock, FlushStop, FlushQueue, FlushReturn,
       FlushDrainSem, FlushResetQueue, FlushDone, TerminateBegin, TerminateSrcInput,
       TerminateSrcOutput, TerminateDone, BufferProcess_Create
  <1>4. CASE SrcInputOuter \/ SrcInputPaused \/ SrcInputInner \/ SrcInputChecks \/
            SrcInputPrepared \/ SrcInputGetQueue
    BY ZenonT(40), <1>4 DEF SrcInputGoes, SrcInputOuter, SrcInputPaused, SrcInputInner,
       SrcInputChecks, SrcInputPrepared, SrcInputGetQueue
  <1>5. CASE SrcInputResume \/ SrcInputLock \/ SrcInputPreprocess \/ SrcInputWait
    BY ZenonT(40), <1>5 DEF SrcInputResume, SrcInputLock, SrcInputPreprocess, SrcInputWait
  <1>6. CASE SrcInputFlushed \/ SrcInputGetsNothing \/ SrcInputDequeue \/ SrcInputHeld
            \/ SrcSetup \/ SrcSetupFails \/ SrcIn \/ SrcInDrops
    BY ZenonT(40), <1>6 DEF SrcInputUnlocks, SrcInputFlushed, SrcInputGetsNothing,
       SrcInputDequeue, SrcInputHeld, SrcSetup, SrcSetupFails, SrcIn, SrcInDrops
  <1>7. CASE SrcOutputThread
    BY ZenonT(40), <1>7 DEF SrcOutputThread, SrcOutputGoes, SrcOutputLoop, SrcOutputLock,
       SrcOutputStarted, SrcOutputResetEvent, SrcOutputReturn
  <1>8. CASE OutputPortEnabled
    BY ZenonT(40), <1>8 DEF OutputPortEnabled
  <1> QED
    BY <1>1, <1>2, <1>3, <1>4, <1>5, <1>6, <1>7, <1>8 DEF Next, SrcInputThread

\* The general part: whatever the client does and the MFC refuses.
LEMMA BuffersStayKept == Spec => [](Kept /\ Flags)
  <1>1. Init => Kept /\ Flags
    BY KeptInit
  <1>2. Kept /\ Flags /\ [Next]_vars => (Kept /\ Flags)'
    BY KeptStep, FlagsStep
  <1> QED
    BY <1>1, <1>2, PTL DEF Spec
-----------------------------------------------------------------------------
(* Where nothing disturbs the flow a command is one at a time, no buffer     *)
(* comes while one is under way, and a buffer that is marked can be found.   *)

CommandInOrder ==
    /\ call.at # "none" => command = "none" /\ currentState = "Executing"
    /\ command = "none" => handler = "idle" /\ portState = "Idle" /\ currentState #
            "Invalid"
    /\ currentState = "Executing" /\ command \in {"none", "Flush"} =>
          transientState = "Max" /\ portState = "Idle"
    /\ command \in {"Flush", "Idle"} => currentState = "Executing" /\ portState = "Idle"
    /\ command = "Executing" =>
          currentState = "Idle" /\ portState = "Idle" /\ handler = "idle"
    /\ command = "Loaded" => currentState = "Idle"
    /\ currentState # "Pause" /\ handler # "flushed"
    /\ handler \in Flushing => command \in {"Flush", "Idle"}
    /\ handler \in Exiting => command \in {"Loaded", "Invalid"}
    /\ bExitBufferProcessThread <=> handler \in Exiting
    /\ handler \notin Flushing /\ bIsPortFlushed => command = "Flush"

DataIsMarked ==
    /\ Inside \subseteq bBufferInOMX
    /\ currentState = "Idle" => bBufferInOMX = {}
    /\ handler \in Reset => bBufferInOMX = {}
    /\ handler \in Reset \cup {"emptied"} => bufferQ = <<>>
    /\ srcInput \in {"noData", "semaphore", "dequeue"} => inputDataBuffer = NoBuffer
    /\ srcInput \in {"noData", "data", "prepared", "semaphore", "dequeue"} => ~decodeYet
    /\ command = "none" /\ processData # NoBuffer =>
          decodeYet \/ srcInput \in {"prepared", "process"}

PlainKept == CommandInOrder /\ DataIsMarked /\ NothingLost /\ Announced

LEMMA PlainInit ==
    ASSUME Init
    PROVE  PlainKept
  <1> USE EmptyIsInjective DEF Init, PortInit, NoCall
  <1>1. Inside = {} /\ call.at = "none"
    BY DEF Inside, Queued, Range
  <1>2. CommandInOrder
    BY <1>1 DEF CommandInOrder, Flushing, Locked, Stopped, Reset, Exiting
  <1>3. DataIsMarked /\ NothingLost /\ Announced
    BY <1>1 DEF DataIsMarked, NothingLost, Announced, Reset
  <1> QED
    BY <1>2, <1>3 DEF PlainKept

LEMMA PlainStep ==
    ASSUME Undisturbed, Kept, PlainKept, [Next]_vars
    PROVE  PlainKept'
  <1> USE VdecPortAssumption
      DEF Undisturbed, Kept, Types, Mutexes, CallChecked, FlushEmpties, OnePlace, Inside,
          CommandInOrder, DataIsMarked, NothingLost, Announced, PlainKept,
          Body, SrcInputPlaces, HandlerPlaces, Flushing, Locked, Stopped, Reset, Exiting,
          stateVars, queueVars, flowVars, portVars, dataVars, mfcVars, startVars,
                  inputVars, NoCall
  <1>0. /\ Queued = Range(bufferQ) /\ Queued' = Range(bufferQ')
        /\ Range(bufferQ) \subseteq Buffers /\ Range(mfcInput) \subseteq Buffers
        /\ Len(bufferQ) \in Nat
        /\ <<>> \in Seq(Buffers) /\ Range(<<>>) = {} /\ Len(<<>>) = 0
    BY EmptyIsInjective, LenProperties DEF Queued, Range
  <1>1. CASE UNCHANGED vars
    BY <1>0, <1>1 DEF vars
  <1>2. CASE (\E b \in Buffers : CallCheck(b)) /\ UNCHANGED inputVars
    BY <1>0, <1>2 DEF CallCheck, NoCall
  <1>3. CASE CallQueue /\ UNCHANGED inputVars
    <2> USE <1>0, <1>3 DEF CallQueue
    <2>1. /\ call.buffer \in Buffers /\ call.buffer \notin Range(bufferQ)
          /\ call'.buffer = call.buffer /\ call'.at = "queued"
      OBVIOUS
    <2>2. /\ Range(bufferQ') = Range(bufferQ) \cup {call.buffer}
          /\ Len(bufferQ') = Len(bufferQ) + 1
      BY <2>1, AppendIsInjective
    <2>3. CommandInOrder'
      BY <2>1, <2>2
    <2>4. DataIsMarked'
      BY <2>1, <2>2
    <2>5. NothingLost'
      BY <2>1, <2>2
    <2>6. Announced'
      BY <2>1, <2>2
    <2> QED
      BY <2>3, <2>4, <2>5, <2>6
  <1>4. CASE CallPost /\ UNCHANGED inputVars
    BY <1>0, <1>4 DEF CallPost, NoCall
  <1>5. CASE SendFlush /\ UNCHANGED inputVars
    <2> USE <1>0, <1>5 DEF SendFlush, ClientMaySend
    <2>1. CommandInOrder'
      OBVIOUS
    <2>2. DataIsMarked'
      OBVIOUS
    <2>3. NothingLost'
      OBVIOUS
    <2>4. Announced'
      OBVIOUS
    <2> QED
      BY <2>1, <2>2, <2>3, <2>4
  <1>6. CASE (\E s \in Targets : SendStateSet(s)) /\ UNCHANGED inputVars
    <2> USE <1>0, <1>6 DEF SendStateSet, ClientMaySend, Transitions
    <2>1. CommandInOrder'
      OBVIOUS
    <2>2. DataIsMarked'
      OBVIOUS
    <2>3. NothingLost'
      OBVIOUS
    <2>4. Announced'
      OBVIOUS
    <2> QED
      BY <2>1, <2>2, <2>3, <2>4
  <1>7. CASE ToExecuting /\ UNCHANGED inputVars
    BY <1>0, <1>7 DEF ToExecuting
  <1>8. CASE ToPause /\ UNCHANGED inputVars
    BY <1>0, <1>8 DEF ToPause
  <1>9. CASE FlushMark /\ UNCHANGED inputVars
    BY <1>0, <1>9 DEF FlushMark
  <1>10. CASE FlushWake
    BY <1>0, <1>10 DEF FlushWake
  <1>11. CASE FlushLock1
    BY <1>0, <1>11 DEF FlushLock1, FlushLock, Lock
  <1>12. CASE FlushStop
    BY <1>0, <1>12 DEF FlushStop
  <1>13. CASE FlushLock2
    BY <1>0, <1>13 DEF FlushLock2, FlushLock, Lock
  <1>14. CASE FlushQueue
    <2> USE <1>0, <1>14 DEF FlushQueue, BufferReturn, PortMutexFree, DrainedSem
    <2>1. CommandInOrder'
      OBVIOUS
    <2>2. DataIsMarked'
      OBVIOUS
    <2>3. NothingLost'
      OBVIOUS
    <2>4. Announced'
      <3>1. Len(bufferQ') = 0 /\ bufferSem' \in Nat
        OBVIOUS
      <3> QED
        BY <3>1, \A i, j, n \in Nat : 0 <= n + i + j
    <2> QED
      BY <2>1, <2>2, <2>3, <2>4
  <1>15. CASE FlushReturn
    BY <1>0, <1>15 DEF FlushReturn, BufferReturn, PortMutexFree
  <1>16. CASE FlushDrainSem /\ UNCHANGED inputVars
    BY <1>0, <1>16 DEF FlushDrainSem
  <1>17. CASE FlushResetQueue /\ UNCHANGED inputVars
    BY <1>0, <1>17 DEF FlushResetQueue
  <1>18. CASE FlushDone /\ processData' = NoBuffer /\ UNCHANGED <<srcInput, decodeYet,
          inputDataBuffer, srcOutput, mfcVars, startVars, exceptionFlag>>
    <2> USE <1>0, <1>18 DEF FlushDone
    <2>1. CommandInOrder'
      OBVIOUS
    <2>2. DataIsMarked'
      OBVIOUS
    <2>3. NothingLost'
      OBVIOUS
    <2>4. Announced'
      OBVIOUS
    <2> QED
      BY <2>1, <2>2, <2>3, <2>4
  <1>19. CASE TerminateBegin /\ UNCHANGED inputVars
    BY <1>0, <1>19 DEF TerminateBegin
  <1>20. CASE TerminateSrcInput
    BY <1>0, <1>20 DEF TerminateSrcInput
  <1>21. CASE TerminateSrcOutput
    BY <1>0, <1>21 DEF TerminateSrcOutput
  <1>22. CASE TerminateDone
    BY <1>0, <1>22 DEF TerminateDone
  <1>23. CASE BufferProcess_Create
    <2> USE <1>0, <1>23 DEF BufferProcess_Create
    <2>1. CommandInOrder'
      OBVIOUS
    <2>2. DataIsMarked'
      OBVIOUS
    <2>3. NothingLost'
      OBVIOUS
    <2>4. Announced'
      <3>1. bufferQ' = bufferQ /\ Range(bufferQ) = {}
        OBVIOUS
      <3>2. bufferQ \in Seq(Buffers)
        OBVIOUS
      <3>3. Len(bufferQ') = 0
        BY ONLY <3>1, <3>2, NoneQueued
      <3> QED
        BY <3>3
    <2> QED
      BY <2>1, <2>2, <2>3, <2>4
  <1>24. CASE SrcInputOuter
    BY <1>0, <1>24 DEF SrcInputOuter, SrcInputGoes
  <1>25. CASE SrcInputPaused
    BY <1>0, <1>25 DEF SrcInputPaused, SrcInputGoes
  <1>26. CASE SrcInputInner
    BY <1>0, <1>26 DEF SrcInputInner, SrcInputGoes
  <1>27. CASE SrcInputChecks
    BY <1>0, <1>27 DEF SrcInputChecks, SrcInputGoes
  <1>28. CASE SrcInputPrepared
    BY <1>0, <1>28 DEF SrcInputPrepared, SrcInputGoes
  <1>29. CASE SrcInputGetQueue
    BY <1>0, <1>29 DEF SrcInputGetQueue, SrcInputGoes, Check_BufferProcess_State,
       MayGetQueue
  <1>30. CASE SrcInputResume
    BY <1>0, <1>30 DEF SrcInputResume
  <1>31. CASE SrcInputLock
    BY <1>0, <1>31 DEF SrcInputLock, Lock
  <1>32. CASE SrcInputPreprocess
    BY <1>0, <1>32 DEF SrcInputPreprocess
  <1>33. CASE SrcInputFlushed
    BY <1>0, <1>33 DEF SrcInputFlushed, SrcInputUnlocks, Unlock
  <1>34. CASE SrcInputGetsNothing
    BY <1>0, <1>34 DEF SrcInputGetsNothing, SrcInputUnlocks, Unlock,
       Check_BufferProcess_State, MayGetQueue
  <1>35. CASE SrcInputDequeue
    <2> USE <1>0, <1>35 DEF SrcInputDequeue, SrcInputUnlocks, Unlock
    <2>1. CASE bufferQ = <<>>
      BY <2>1
    <2>2. CASE bufferQ # <<>>
      <3>1. /\ bufferQ' = Tail(bufferQ) /\ inputDataBuffer' = Head(bufferQ)
            /\ inputDataBuffer = NoBuffer
        BY <2>2
      <3>2. /\ inputDataBuffer' \in Range(bufferQ)
            /\ Range(bufferQ') = Range(bufferQ) \ {inputDataBuffer'}
            /\ Len(bufferQ') = Len(bufferQ) - 1
        BY <2>2, <3>1, TailIsInjective
      <3>3. Inside' = Inside
        BY <3>1, <3>2
      <3>4. CommandInOrder'
        BY <3>1, <3>2, <3>3
      <3>5. DataIsMarked'
        BY <3>1, <3>2, <3>3
      <3>6. NothingLost'
        BY <3>1, <3>2, <3>3
      <3>7. Announced'
        BY <3>1, <3>2, <3>3
      <3> QED
        BY <3>4, <3>5, <3>6, <3>7
    <2> QED
      BY <2>1, <2>2
  <1>36. CASE SrcInputHeld
    BY <1>0, <1>36 DEF SrcInputHeld, SrcInputUnlocks, Unlock, Check_BufferProcess_State,
       MayGetQueue
  <1>37. CASE SrcSetup
    BY <1>0, <1>37 DEF SrcSetup, SrcInputUnlocks, Unlock, Check_BufferProcess_State,
       MayGetQueue
  <1>38. CASE SrcSetupFails
    BY <1>0, <1>38 DEF SrcSetupFails, SrcInputUnlocks, Unlock,
       Check_BufferProcess_State, MayGetQueue
  <1>39. CASE SrcIn
    <2> USE <1>0, <1>39 DEF SrcIn, SrcInputUnlocks, Unlock, Check_BufferProcess_State,
            MayGetQueue
    <2>1. CASE processData = NoBuffer
      BY <2>1
    <2>2. CASE processData # NoBuffer
      <3>1. /\ mfcInput' = Append(mfcInput, processData)
            /\ processData \in Buffers /\ processData \notin Range(mfcInput)
        BY <2>2
      <3>2. Range(mfcInput') = Range(mfcInput) \cup {processData}
        BY <3>1, AppendIsInjective
      <3>3. Inside' = Inside
        BY <2>2, <3>2
      <3>4. CommandInOrder'
        BY <2>2, <3>2, <3>3
      <3>5. DataIsMarked'
        BY <2>2, <3>2, <3>3
      <3>6. NothingLost'
        BY <2>2, <3>2, <3>3
      <3>7. Announced'
        BY <2>2, <3>2, <3>3
      <3> QED
        BY <3>4, <3>5, <3>6, <3>7
    <2> QED
      BY <2>1, <2>2
  <1>40. CASE SrcInDrops
    BY <1>0, <1>40 DEF SrcInDrops, SrcInputUnlocks, Unlock, Check_BufferProcess_State,
       MayGetQueue
  <1>41. CASE SrcInputWait
    BY <1>0, <1>41 DEF SrcInputWait
  <1>42. CASE SrcOutputLoop
    BY <1>0, <1>42 DEF SrcOutputLoop, SrcOutputGoes
  <1>43. CASE SrcOutputStarted
    BY <1>0, <1>43 DEF SrcOutputStarted, SrcOutputGoes
  <1>44. CASE SrcOutputLock
    BY <1>0, <1>44 DEF SrcOutputLock, Lock
  <1>45. CASE SrcOutputResetEvent
    BY <1>0, <1>45 DEF SrcOutputResetEvent
  <1>46. CASE SrcOutputReturn
    <2> USE <1>0, <1>46 DEF SrcOutputReturn, Unlock, BufferReturn
    <2>1. CASE bStreamonInbuf
      <3>1. mfcInput # <<>> /\ mfcInput' = Tail(mfcInput)
        BY <2>1
      <3>2. /\ Head(mfcInput) \in Range(mfcInput)
            /\ Range(Tail(mfcInput)) = Range(mfcInput) \ {Head(mfcInput)}
        BY <3>1, TailIsInjective
      <3>3. Range(mfcInput') = Range(mfcInput) \ {Head(mfcInput)}
        BY <3>1, <3>2
      <3>4. bBufferInOMX' = bBufferInOMX \ {Head(mfcInput)}
        BY <2>1
      <3>5. CommandInOrder'
        BY <2>1, <3>1, <3>2, <3>3, <3>4
      <3>6. DataIsMarked'
        BY <2>1, <3>1, <3>2, <3>3, <3>4
      <3>7. NothingLost'
        BY <2>1, <3>1, <3>2, <3>3, <3>4
      <3>8. Announced'
        BY <2>1, <3>1, <3>2, <3>3, <3>4
      <3> QED
        BY <3>5, <3>6, <3>7, <3>8
    <2>2. CASE ~bStreamonInbuf
      BY <2>2
    <2> QED
      BY <2>1, <2>2
  <1>47. CASE OutputPortEnabled
    BY <1>0, <1>47 DEF OutputPortEnabled
  <1> QED
    BY <1>1, <1>2, <1>3, <1>4, <1>5, <1>6, <1>7, <1>8, <1>9, <1>10, <1>11, <1>12, <1>13,
       <1>14, <1>15, <1>16, <1>17, <1>18, <1>19, <1>20, <1>21, <1>22, <1>23, <1>24,
       <1>25, <1>26, <1>27, <1>28, <1>29, <1>30, <1>31, <1>32, <1>33, <1>34, <1>35,
       <1>36, <1>37, <1>38, <1>39, <1>40, <1>41, <1>42, <1>43, <1>44, <1>45, <1>46,
       <1>47 DEF Next, EmptyThisBuffer, SendCommand, Handler, SrcInputThread,
       SrcOutputThread
-----------------------------------------------------------------------------
LEMMA KeptIsEnough ==
    ASSUME Kept, Flags, Undisturbed => PlainKept
    PROVE  InputBuffersKept
  <1>1. TypeOK /\ ReturnedIsGone /\ OnePlace
    BY KeptHasTypes DEF Kept
  <1>2. ASSUME Undisturbed PROVE NothingLost /\ Announced
    BY <1>2 DEF PlainKept
  <1>3. ASSUME Undisturbed PROVE IdleHasNothing
    BY <1>3 DEF PlainKept, DataIsMarked, IdleHasNothing
  <1>4. ASSUME Undisturbed PROVE ExecutingRuns
    BY <1>4 DEF PlainKept, CommandInOrder, ExecutingRuns, Check_BufferProcess_State,
                ProcessPaused
  <1> QED
    BY <1>1, <1>2, <1>3, <1>4 DEF InputBuffersKept

(* The input port keeps track of the client's buffers, for any number of     *)
(* buffers and at every interleaving of the client's calls and commands, the *)
(* handler's flush and the two threads: a buffer is in one place, and one    *)
(* that was returned is nowhere in the component (Exynos_OMX_Vdec.c,         *)
(* SrcInputBufferProcess, SrcOutputBufferProcess, BufferFlush).  If the MFC  *)
(* refuses nothing and the client keeps to the OpenMAX header and does not   *)
(* pause, the semaphore announces every buffer queued and none is lost.      *)
THEOREM InputPortKeepsBuffers == Spec => []InputBuffersKept
  <1>1. CASE Undisturbed
    <2>1. Init => Kept /\ Flags /\ PlainKept
      BY KeptInit, PlainInit
    <2>2. Kept /\ Flags /\ PlainKept /\ [Next]_vars => (Kept /\ Flags /\ PlainKept)'
      BY <1>1, KeptStep, FlagsStep, PlainStep
    <2>3. Kept /\ Flags /\ PlainKept => InputBuffersKept
      BY KeptIsEnough
    <2> QED
      BY <2>1, <2>2, <2>3, PTL DEF Spec
  <1>2. CASE ~ Undisturbed
    <2>1. Kept /\ Flags => InputBuffersKept
      BY <1>2, KeptIsEnough
    <2> QED
      BY <2>1, BuffersStayKept, PTL
  <1> QED
    BY <1>1, <1>2
=============================================================================
