---------------------------- MODULE VencPorts_proofs ----------------------------
(* Proofs about VencPorts, for any number of pictures and of buffers of both  *)
(* kinds: whatever the client and the command thread do once the stream has   *)
(* begun, no codec buffer is lost, the permits agree with the queues, and no  *)
(* buffer the client has is used; and a client that waits for its commands    *)
(* and flushes both ports together gets every buffer back.                    *)
EXTENDS VencPorts, FiniteSetTheorems, SequenceTheorems, TLAPS

-----------------------------------------------------------------------------
(* The inductive invariant.                                                   *)

SrcInPlaces == {"top", "wantBuf", "wantFrame", "feed", "eosWait", "headerWait", "header"}
\* Where SrcInput has a codec buffer with a picture in it.
WithPicture == {"feed", "eosWait", "headerWait", "header"}
AllPlaces == {"top", "wantBuf", "wantFrame", "feed", "eosWait", "headerWait",
              "header", "start", "dequeue", "wantOut", "give"}

\* The entries of the MFC's queues.
Jobs == [buf : Codecs, frame : Pictures]
Empties == [out : Outs, header : BOOLEAN]
Written == [out : Outs, header : BOOLEAN, frame : 0 .. NumFrames]

CommandTypes ==
    /\ single \in BOOLEAN
    /\ mode \in {"executing", "toIdle", "idle", "ended"}
    /\ ctl \in [at : {"ready", "lock", "stopped", "join"}, port : Ports,
                rest : {"end", "out", "toIdle", "toIdleOut"}, join : 0 .. 4]
FlagTypes ==
    /\ flushing \in [Ports -> BOOLEAN] /\ configured \in [Ports -> BOOLEAN]
    /\ event \in [Ports -> BOOLEAN] /\ started \in BOOLEAN
OwnTypes == inOMX \in [Outs -> BOOLEAN]
PictureTypes ==
    /\ stamp \in [set : BOOLEAN, check : BOOLEAN, start : 0 .. NumFrames]
    /\ eos \in 0 .. NumFrames
    /\ fate \in [Pictures -> {"unsent", "in", "out", "flushed", "refused"}]
PlaceTypes == pc \in [Threads -> AllPlaces]
Types == CommandTypes /\ FlagTypes /\ OwnTypes /\ PictureTypes /\ PlaceTypes

\* Each thread stays at its own places.
Places ==
    /\ pc["srcIn"] \in SrcInPlaces /\ pc["srcOut"] \in {"top", "start", "dequeue"}
    /\ pc["dstIn"] \in {"top", "wantOut", "give", "start"} /\ pc["dstOut"] \in {"top", "dequeue"}

\* What the queues, the threads and the MFC may hold.
QueueTypes ==
    /\ queue \in [in : Seq(Pictures), out : Seq(Outs)] /\ sem \in [Ports -> Nat]
    /\ codecQ \in Seq(Codecs) /\ codecSem \in Nat
BufferAndFrame == [buf : Codecs \cup {None}, frame : 0 .. NumFrames]
HandTypes ==
    /\ hold \in BufferAndFrame /\ inBuf \in 0 .. NumFrames
    /\ direct \in Outs \cup {None} /\ dstHeld \in Outs \cup {None} /\ outBuf \in Outs \cup {None}
InputType == mfcIn \in [on : BOOLEAN, work : Seq(Jobs), done : Seq(Codecs)]
OutputType ==
    mfcOut \in [on : BOOLEAN, work : Seq(Empties), done : Seq(Written), headed : BOOLEAN]
Contents == QueueTypes /\ HandTypes /\ InputType /\ OutputType

\* The command thread has the port it is flushing marked, and only that one;
\* on the way to Idle the input comes first.
AtWork == ctl.at \in {"lock", "stopped"}
Commands ==
    /\ flushing["in"] <=> (AtWork /\ ctl.port = "in")
    /\ flushing["out"] <=> (AtWork /\ ctl.port = "out")
    /\ mode = "executing" => ctl.at \in {"ready", "lock", "stopped"}
    /\ (mode = "executing" /\ AtWork) => ctl.rest \in {"end", "out"}
    /\ mode = "toIdle" => (AtWork /\ ctl.rest \in {"toIdle", "toIdleOut"})
    /\ mode \in {"idle", "ended"} => ~AtWork
    /\ ctl.rest = "toIdle" => ctl.port = "out"
    /\ (ctl.rest \in {"out", "toIdleOut"} /\ AtWork) => ctl.port = "in"

\* Before the stream runs no command has come and no thread is past its start.
Begun ==
    /\ started <=> configured["out"]
    /\ started => (configured["in"] /\ mfcOut.headed)
    /\ ~started => (/\ mode = "executing" /\ ctl.at = "ready"
                    /\ ~event["in"] /\ ~event["out"]
                    /\ ~stamp.set /\ ~stamp.check
                    /\ pc["srcOut"] # "dequeue" /\ pc["dstOut"] = "top")
    /\ mfcOut.done # <<>> => mfcOut.headed
    /\ pc["srcIn"] = "eosWait" => (~configured["in"] /\ single)
    /\ pc["srcIn"] \in {"headerWait", "header"} => (~started /\ configured["in"] /\ mfcOut.on)
    /\ single \/ eos = 0 \/ configured["in"]

\* What a thread has in its hands at each place.
Holding ==
    /\ pc["srcIn"] = "wantBuf" => hold = Free
    /\ pc["srcIn"] = "wantFrame" => (hold.frame = 0 /\ inBuf = 0)
    /\ pc["srcIn"] \in WithPicture => (hold.buf \in Codecs /\ hold.frame \in Pictures)
    /\ (pc["srcIn"] = "top" /\ ~flushing["in"]) => hold.frame = 0
    /\ (pc["srcIn"] = "header") <=> (direct # None)
    /\ (pc["dstIn"] \in {"give", "start"}) <=> (dstHeld # None)

\* From the stop of a stream to the end of its flush the MFC stays empty.
Locked ==
    /\ (ctl.at = "stopped" /\ ctl.port = "in") => (pc["srcIn"] = "top" /\ mfcIn = Dry)
    /\ (ctl.at = "stopped" /\ ctl.port = "out") =>
          (pc["dstIn"] = "top" /\ mfcOut.work = <<>> /\ mfcOut.done = <<>> /\ ~mfcOut.on)
    /\ (mode # "executing" /\ ~flushing["in"]) =>
          (pc["srcIn"] = "top" /\ mfcIn.work = <<>> /\ mfcIn.done = <<>>)

Control == Types /\ Places /\ Contents /\ Commands /\ Begun /\ Holding /\ Locked

\* A flush posts one permit more than there are buffers.
PermitsOf(p) ==
    /\ sem[p] <= Len(queue[p]) + 1
    /\ ~flushing[p] => sem[p] = Len(queue[p])
CodecPermits ==
    /\ codecSem <= Len(codecQ) + 1
    /\ ~flushing["in"] => codecSem = Len(codecQ)
\* The client has Room input buffers.
Fits == Len(queue["in"]) + (IF inBuf = 0 THEN 0 ELSE 1) <= Room
Permits == PermitsOf("in") /\ PermitsOf("out") /\ CodecPermits /\ Fits

\* The codec buffers, counted over the places they may be in.
InHold == IF hold.buf = None THEN 0 ELSE 1
CodecCount == Len(codecQ) + Len(mfcIn.work) + Len(mfcIn.done) + InHold
CodecSpots == ToSet(codecQ) \cup {hold.buf} \cup InWork(mfcIn.work, "buf") \cup ToSet(mfcIn.done)
Counting == ~single /\ ~flushing["in"]
CodecsCounted ==
    /\ CodecCount <= Cardinality(Codecs)
    /\ Counting => CodecCount = Cardinality(Codecs)
CodecsCovered == Counting => Codecs \subseteq CodecSpots
CodecsIn == CodecsCounted /\ CodecsCovered

\* Sequences of entries of the MFC's output: none has an output buffer twice,
\* and what is with the MFC is nowhere else.
OutsOf(s) == InWork(s, "out")
OneEach(s) == \A i, j \in DOMAIN s : s[i].out = s[j].out => i = j
Away(o) == inOMX[o] /\ o \notin ToSet(queue["out"]) /\ o \notin {direct, dstHeld, outBuf}
Elsewhere(s) == \A o \in OutsOf(s) : Away(o)

Outside ==
    /\ IsInjective(queue["out"])
    /\ \A o \in ToSet(queue["out"]) : inOMX[o] /\ o \notin {direct, dstHeld, outBuf}
    /\ \A o \in {direct, dstHeld, outBuf} \ {None} : inOMX[o]
    /\ direct # None => (direct # dstHeld /\ direct # outBuf)
    /\ dstHeld # None => dstHeld # outBuf

Bare(s) == \A i \in DOMAIN s : ~s[i].header
Headed(s) == \A i \in DOMAIN s : s[i].header
Inside ==
    /\ ~started => (Bare(mfcOut.work) /\ Bare(mfcOut.done))
    /\ started => (/\ Headed(mfcOut.work) /\ Headed(mfcOut.done)
                   /\ OneEach(mfcOut.work) /\ OneEach(mfcOut.done)
                   /\ OutsOf(mfcOut.work) \cap OutsOf(mfcOut.done) = {}
                   /\ Elsewhere(mfcOut.work) /\ Elsewhere(mfcOut.done))

IInv == Control /\ Permits /\ CodecsIn /\ Outside /\ Inside

-----------------------------------------------------------------------------
(* Flags and sequences.                                                       *)

\* A table of flags stays one when one flag is set or cleared.
LEMMA FlagsKept ==
    ASSUME NEW S, NEW f \in [S -> BOOLEAN], NEW p \in S, NEW b \in BOOLEAN
    PROVE  [f EXCEPT ![p] = b] \in [S -> BOOLEAN]
  BY Zenon

\* It stays one when one flag is cleared, wherever that flag is.
LEMMA FlagCleared ==
    ASSUME NEW S, NEW f \in [S -> BOOLEAN], NEW p
    PROVE  [f EXCEPT ![p] = FALSE] \in [S -> BOOLEAN]
  OBVIOUS

\* Permits stay counted when one count is replaced, wherever it is.
LEMMA CountReplaced ==
    ASSUME NEW S, NEW f \in [S -> Nat], NEW p, NEW n \in Nat
    PROVE  [f EXCEPT ![p] = n] \in [S -> Nat]
  OBVIOUS

\* The queues of the two ports stay typed when one of them changes.
LEMMA QueueReplaced ==
    ASSUME NEW A, NEW B, NEW r \in [in : A, out : B]
    PROVE  /\ \A q \in A : [r EXCEPT !.in = q] \in [in : A, out : B]
           /\ \A q \in B : [r EXCEPT !.out = q] \in [in : A, out : B]
  OBVIOUS

\* It stays one when flags are cleared.
LEMMA FlagsLowered ==
    ASSUME NEW S, NEW f \in [S -> BOOLEAN], NEW h
    PROVE  [x \in S |-> f[x] /\ x # h] \in [S -> BOOLEAN] /\ [x \in S |-> FALSE] \in [S -> BOOLEAN]
  BY Zenon

\* What a queue loses when its first element is taken ...
LEMMA TakenFrom ==
    ASSUME NEW S, NEW s \in Seq(S), s # <<>>
    PROVE  /\ Head(s) \in S /\ Tail(s) \in Seq(S) /\ Len(s) \in Nat \ {0}
           /\ Len(Tail(s)) = Len(s) - 1 /\ Head(s) \in ToSet(s)
           /\ ToSet(s) = {Head(s)} \cup ToSet(Tail(s))
  <1>1. /\ Head(s) \in S /\ Tail(s) \in Seq(S) /\ Len(s) \in Nat \ {0}
        /\ Len(Tail(s)) = Len(s) - 1
        /\ \A i \in 1 .. Len(Tail(s)) : Tail(s)[i] = s[i + 1]
        /\ Head(s) = s[1] /\ DOMAIN s = 1 .. Len(s)
        /\ DOMAIN Tail(s) = 1 .. Len(s) - 1
    BY HeadTailProperties
  <1> DEFINE t == Tail(s)
  <1>2. ASSUME NEW x \in ToSet(s), x # Head(s) PROVE x \in ToSet(t)
    <2>1. PICK i \in 1 .. Len(s) : x = s[i]
      BY <1>1 DEF ToSet
    <2>2. i - 1 \in DOMAIN t /\ t[i - 1] = x
      BY <1>1, <1>2, <2>1
    <2> QED
      BY <2>2 DEF ToSet
  <1>3. ASSUME NEW x \in ToSet(t) PROVE x \in ToSet(s)
    <2>1. PICK i \in DOMAIN t : x = t[i]
      BY DEF ToSet
    <2>2. i + 1 \in DOMAIN s /\ s[i + 1] = x
      BY <1>1, <2>1
    <2> QED
      BY <2>2 DEF ToSet
  <1>4. Head(s) \in ToSet(s)
    BY <1>1 DEF ToSet
  <1> QED
    BY <1>1, <1>2, <1>3, <1>4

\* ... and gains when one is put in.
LEMMA PutInto ==
    ASSUME NEW S, NEW s \in Seq(S), NEW e \in S
    PROVE  /\ Append(s, e) \in Seq(S) /\ Append(s, e) # <<>>
           /\ Len(s) \in Nat /\ Len(Append(s, e)) = Len(s) + 1
           /\ ToSet(Append(s, e)) = ToSet(s) \cup {e}
  <1>1. /\ Append(s, e) \in Seq(S) /\ Len(s) \in Nat /\ Len(Append(s, e)) = Len(s) + 1
        /\ DOMAIN s = 1 .. Len(s) /\ DOMAIN Append(s, e) = 1 .. Len(s) + 1
        /\ Append(s, e)[Len(s) + 1] = e
        /\ \A i \in 1 .. Len(s) : Append(s, e)[i] = s[i]
    BY AppendProperties
  <1> QED
    BY <1>1 DEF ToSet

\* A queue without repetition is no longer than the set of what it may hold.
LEMMA NoLongerThanTheSet ==
    ASSUME NEW S, IsFiniteSet(S), NEW s \in Seq(S), IsInjective(s)
    PROVE  Len(s) <= Cardinality(S) /\ Len(s) \in Nat
  <1>1. s \in Injection(1 .. Len(s), S)
    BY DEF IsInjective, Injection
  <1>2. Cardinality(1 .. Len(s)) <= Cardinality(S)
    BY <1>1, FS_Injection
  <1>3. Len(s) \in Nat
    BY LenProperties
  <1>4. Cardinality(1 .. Len(s)) = Len(s)
    <2>1. 1 \in Int /\ Len(s) \in Int
      BY <1>3
    <2>2. Cardinality(1 .. Len(s)) = IF 1 > Len(s) THEN 0 ELSE Len(s) - 1 + 1
      BY <2>1, FS_Interval
    <2> QED
      BY <1>3, <2>2
  <1> QED
    BY <1>2, <1>3, <1>4

\* The sequence of a finite set has each of its elements once.
LEMMA SetToSeqOf ==
    ASSUME NEW S, IsFiniteSet(S)
    PROVE  /\ SetToSeq(S) \in Seq(S) /\ IsInjective(SetToSeq(S))
           /\ Len(SetToSeq(S)) = Cardinality(S) /\ Cardinality(S) \in Nat
           /\ {SetToSeq(S)[i] : i \in DOMAIN SetToSeq(S)} = S
  <1> DEFINE n == Cardinality(S)
             q == SetToSeq(S)
  <1>1. n \in Nat /\ ExistsBijection(1 .. n, S)
    BY FS_CardinalityType
  <1>2. PICK f \in Bijection(1 .. n, S) : TRUE
    BY <1>1 DEF ExistsBijection
  <1>3. f \in [1 .. n -> S] /\ IsInjective(f)
    BY <1>2 DEF Bijection, Injection
  <1>4. q \in [1 .. n -> S] /\ IsInjective(q)
    BY <1>3 DEF SetToSeq
  <1>5. q \in Seq(S) /\ Len(q) = n
    BY <1>1, <1>4
  <1>6. q \in Surjection(1 .. n, S)
    <2>1. q \in Injection(1 .. n, S)
      BY <1>4 DEF Injection
    <2>2. 1 \in Int /\ n \in Int
      BY <1>1
    <2>3. Cardinality(1 .. n) = IF 1 > n THEN 0 ELSE n - 1 + 1
      BY <2>2, FS_Interval
    <2>4. Cardinality(1 .. n) = Cardinality(S)
      BY <1>1, <2>3
    <2> QED
      BY <2>1, <2>4, FS_Injection
  <1>7. {q[i] : i \in DOMAIN q} = S
    BY <1>4, <1>6 DEF Surjection
  <1> QED
    BY <1>1, <1>4, <1>5, <1>7

-----------------------------------------------------------------------------
(* The types, and the places of the threads and of the command thread.        *)

\* The types are kept: the command thread ...
LEMMA CommandTypesKept ==
    ASSUME IInv, ~EarlyFlush, [Next]_vars
    PROVE  CommandTypes'
  <1> USE DEF IInv, Control, Types, CommandTypes, portVars, codecVars, setUp, told, Goes,
          Running, Ports, Threads
  <1>1. ASSUME NEW n \in Pictures, NEW last \in BOOLEAN, EmptyThisBuffer(n, last)
        PROVE  CommandTypes'
    BY <1>1 DEF EmptyThisBuffer
  <1>2. ASSUME NEW o \in Outs, FillThisBuffer(o)
        PROVE  CommandTypes'
    BY <1>2 DEF FillThisBuffer
  <1>3. CASE SrcInputBufferProcess
    BY <1>3 DEF SrcInputBufferProcess, Open, Preprocessor_InputData
  <1>4. CASE CodecBufferDeQueue
    BY <1>4 DEF CodecBufferDeQueue
  <1>5. CASE InputBufferGetQueue
    BY <1>5 DEF InputBufferGetQueue
  <1>6. CASE SrcInputRefused
    BY <1>6 DEF SrcInputRefused, Forgets
  <1>7. CASE SrcSetupEos
    BY <1>7 DEF SrcSetupEos, EosAlone, Forgets
  <1>8. CASE SrcSetupEosAnswered
    BY <1>8 DEF SrcSetupEosAnswered, Forgets
  <1>9. CASE SrcIn
    BY <1>9 DEF SrcIn, EosAlone, Enqueued
  <1>10. CASE DstSetup
    BY <1>10 DEF DstSetup, EosAlone, Enqueued
  <1>11. CASE DstSetupTakes
    BY <1>11 DEF DstSetupTakes, Enqueued
  <1>12. CASE DstSetupEnds
    BY <1>12 DEF DstSetupEnds, Enqueued, Drained
  <1>13. CASE SrcOutputBufferProcess
    BY <1>13 DEF SrcOutputBufferProcess
  <1>14. CASE SrcOutputStarts
    BY <1>14 DEF SrcOutputStarts
  <1>15. CASE SrcOut
    BY <1>15 DEF SrcOut
  <1>16. CASE DstInputBufferProcess
    BY <1>16 DEF DstInputBufferProcess, Open
  <1>17. CASE OutputBufferGetQueue
    BY <1>17 DEF OutputBufferGetQueue
  <1>18. CASE DstInputProcess
    BY <1>18 DEF DstInputProcess
  <1>19. CASE DstInputStarts
    BY <1>19 DEF DstInputStarts
  <1>20. CASE DstOutputBufferProcess
    BY <1>20 DEF DstOutputBufferProcess
  <1>21. CASE DstOut
    BY <1>21 DEF DstOut, Garbage
  <1>22. CASE EncodeHeader
    BY <1>22 DEF EncodeHeader
  <1>23. CASE Encode
    BY <1>23 DEF Encode
  <1>24. CASE FlushBegins
    BY <1>24 DEF FlushBegins, FlushWakes
  <1>25. CASE FlushStops
    BY <1>25 DEF FlushStops, Dry, Drained
  <1>26. CASE FlushEndsPort
    BY <1>26 DEF FlushEndsPort, FlushedIn, FlushedOut
  <1>27. CASE Resumes
    BY <1>27 DEF Resumes
  <1>28. CASE BufferProcess_Terminate
    <2>1. ctl.join + 1 \in 0 .. 4
      BY <1>28 DEF BufferProcess_Terminate, Joined, Dry, Drained
    <2>2. PICK a \in {"ready", "join"} : ctl' = [ctl EXCEPT !.at = a, !.join = ctl.join + 1]
      BY <1>28 DEF BufferProcess_Terminate, Joined, Dry, Drained
    <2>3. mode' \in {"idle", "ended"} /\ single' = single
      BY <1>28 DEF BufferProcess_Terminate, Joined, Dry, Drained
    <2> QED
      BY <2>1, <2>2, <2>3
  <1>29. CASE UNCHANGED vars
    BY <1>29 DEF vars
  <1> QED
    BY <1>1, <1>2, <1>3, <1>4, <1>5, <1>6, <1>7, <1>8, <1>9, <1>10, <1>11, <1>12, <1>13, <1>14,
         <1>15, <1>16, <1>17, <1>18, <1>19, <1>20, <1>21, <1>22, <1>23, <1>24, <1>25, <1>26,
         <1>27, <1>28, <1>29 DEF Next, SrcInput, SrcOutput, DstInput, DstOutput, MFC, Command

\* ... the flags ...
LEMMA FlagTypesKept ==
    ASSUME IInv, ~EarlyFlush, [Next]_vars
    PROVE  FlagTypes'
  <1> USE DEF IInv, Control, Types, CommandTypes, FlagTypes, portVars, codecVars, setUp, told,
          Goes, Running, Ports, Threads
  <1>1. ASSUME NEW n \in Pictures, NEW last \in BOOLEAN, EmptyThisBuffer(n, last)
        PROVE  FlagTypes'
    BY <1>1, FlagsKept DEF EmptyThisBuffer
  <1>2. ASSUME NEW o \in Outs, FillThisBuffer(o)
        PROVE  FlagTypes'
    BY <1>2, FlagsKept DEF FillThisBuffer
  <1>3. CASE SrcInputBufferProcess
    BY <1>3, FlagsKept DEF SrcInputBufferProcess, Open, Preprocessor_InputData
  <1>4. CASE CodecBufferDeQueue
    BY <1>4, FlagsKept DEF CodecBufferDeQueue
  <1>5. CASE InputBufferGetQueue
    BY <1>5, FlagsKept DEF InputBufferGetQueue
  <1>6. CASE SrcInputRefused
    BY <1>6, FlagsKept DEF SrcInputRefused, Forgets
  <1>7. CASE SrcSetupEos
    BY <1>7, FlagsKept DEF SrcSetupEos, EosAlone, Forgets
  <1>8. CASE SrcSetupEosAnswered
    BY <1>8, FlagsKept DEF SrcSetupEosAnswered, Forgets
  <1>9. CASE SrcIn
    BY <1>9, FlagsKept DEF SrcIn, EosAlone, Enqueued
  <1>10. CASE DstSetup
    BY <1>10, FlagsKept DEF DstSetup, EosAlone, Enqueued
  <1>11. CASE DstSetupTakes
    BY <1>11, FlagsKept DEF DstSetupTakes, Enqueued
  <1>12. CASE DstSetupEnds
    <2>1. /\ UNCHANGED flushing /\ started' = TRUE
          /\ configured' = configured \/ configured' = [configured EXCEPT !["out"] = TRUE]
          /\ event' = event \/ event' = [p \in Ports |-> TRUE]
      BY <1>12 DEF DstSetupEnds, Enqueued, Drained
    <2>2. [p \in Ports |-> TRUE] \in [Ports -> BOOLEAN]
      OBVIOUS
    <2> QED
      BY <2>1, <2>2, FlagsKept
  <1>13. CASE SrcOutputBufferProcess
    BY <1>13, FlagsKept DEF SrcOutputBufferProcess
  <1>14. CASE SrcOutputStarts
    BY <1>14, FlagsKept DEF SrcOutputStarts
  <1>15. CASE SrcOut
    BY <1>15, FlagsKept DEF SrcOut
  <1>16. CASE DstInputBufferProcess
    BY <1>16, FlagsKept DEF DstInputBufferProcess, Open
  <1>17. CASE OutputBufferGetQueue
    BY <1>17, FlagsKept DEF OutputBufferGetQueue
  <1>18. CASE DstInputProcess
    BY <1>18, FlagsKept DEF DstInputProcess
  <1>19. CASE DstInputStarts
    BY <1>19, FlagsKept DEF DstInputStarts
  <1>20. CASE DstOutputBufferProcess
    BY <1>20, FlagsKept DEF DstOutputBufferProcess
  <1>21. CASE DstOut
    BY <1>21, FlagsKept DEF DstOut, Garbage
  <1>22. CASE EncodeHeader
    BY <1>22, FlagsKept DEF EncodeHeader
  <1>23. CASE Encode
    BY <1>23, FlagsKept DEF Encode
  <1>24. CASE FlushBegins
    <2>1. PICK p \in Ports : FlushWakes(p, ctl'.rest) /\ UNCHANGED setUp
      BY <1>24 DEF FlushBegins, FlushWakes
    <2>2. /\ flushing' = [flushing EXCEPT ![p] = TRUE]
          /\ event' = event \/ event' = [event EXCEPT ![p] = TRUE]
      BY <2>1 DEF FlushWakes
    <2> QED
      BY <2>1, <2>2, FlagsKept
  <1>25. CASE FlushStops
    BY <1>25, FlagsKept DEF FlushStops, Dry, Drained
  <1>26. CASE FlushEndsPort
    <2>1. /\ flushing' = [p \in Ports |-> p = "out"] \/ flushing' = [flushing EXCEPT ![ctl.port] = FALSE]
          /\ event' = event \/ event' = [event EXCEPT !["out"] = TRUE]
          /\ UNCHANGED <<configured, started>> /\ ctl.port \in Ports
      BY <1>26 DEF FlushEndsPort, FlushedIn, FlushedOut
    <2>2. [p \in Ports |-> p = "out"] \in [Ports -> BOOLEAN]
      OBVIOUS
    <2>3. /\ [flushing EXCEPT ![ctl.port] = FALSE] \in [Ports -> BOOLEAN]
          /\ [event EXCEPT !["out"] = TRUE] \in [Ports -> BOOLEAN]
      <3>1. flushing \in [Ports -> BOOLEAN] /\ event \in [Ports -> BOOLEAN] /\ "out" \in Ports
        BY DEF IInv, Control, Types, FlagTypes, Ports
      <3> HIDE DEF IInv, Control, Types, FlagTypes, Ports
      <3> QED
        BY <2>1, <3>1, FlagsKept
    <2>4. flushing' \in [Ports -> BOOLEAN]
      BY <2>1, <2>2, <2>3, Zenon
    <2> QED
      BY <2>1, <2>3, <2>4
  <1>27. CASE Resumes
    BY <1>27, FlagsKept DEF Resumes
  <1>28. CASE BufferProcess_Terminate
    BY <1>28, FlagsKept DEF BufferProcess_Terminate, Joined, Dry, Drained
  <1>29. CASE UNCHANGED vars
    BY <1>29, FlagsKept DEF vars
  <1> QED
    BY <1>1, <1>2, <1>3, <1>4, <1>5, <1>6, <1>7, <1>8, <1>9, <1>10, <1>11, <1>12, <1>13, <1>14,
         <1>15, <1>16, <1>17, <1>18, <1>19, <1>20, <1>21, <1>22, <1>23, <1>24, <1>25, <1>26,
         <1>27, <1>28, <1>29 DEF Next, SrcInput, SrcOutput, DstInput, DstOutput, MFC, Command

\* ... whose the output buffers are ...
LEMMA OwnTypesKept ==
    ASSUME IInv, ~EarlyFlush, [Next]_vars
    PROVE  OwnTypes'
  <1> USE DEF IInv, Control, Types, OwnTypes, portVars, codecVars, setUp, told, Goes, Running,
          Ports, Threads
  <1>0. inOMX \in [Outs -> BOOLEAN]
    BY DEF IInv, Control, Types, OwnTypes
  <1>1. ASSUME NEW n \in Pictures, NEW last \in BOOLEAN, EmptyThisBuffer(n, last)
        PROVE  OwnTypes'
    BY <1>1, FlagsKept, FlagsLowered DEF EmptyThisBuffer
  <1>2. ASSUME NEW o \in Outs, FillThisBuffer(o)
        PROVE  OwnTypes'
    BY <1>2, FlagsKept, FlagsLowered DEF FillThisBuffer
  <1>3. CASE SrcInputBufferProcess
    BY <1>3, FlagsKept, FlagsLowered DEF SrcInputBufferProcess, Open, Preprocessor_InputData
  <1>4. CASE CodecBufferDeQueue
    BY <1>4, FlagsKept, FlagsLowered DEF CodecBufferDeQueue
  <1>5. CASE InputBufferGetQueue
    BY <1>5, FlagsKept, FlagsLowered DEF InputBufferGetQueue
  <1>6. CASE SrcInputRefused
    BY <1>6, FlagsKept, FlagsLowered DEF SrcInputRefused, Forgets
  <1>7. CASE SrcSetupEos
    BY <1>7, FlagsKept, FlagsLowered DEF SrcSetupEos, EosAlone, Forgets
  <1>8. CASE SrcSetupEosAnswered
    <2>1. inOMX' = inOMX \/ inOMX' = [inOMX EXCEPT ![Head(queue.out)] = FALSE]
      BY <1>8 DEF SrcSetupEosAnswered
    <2> QED
      BY ONLY <1>0, <2>1, FlagCleared DEF OwnTypes
  <1>9. CASE SrcIn
    BY <1>9, FlagsKept, FlagsLowered DEF SrcIn, EosAlone, Enqueued
  <1>10. CASE DstSetup
    BY <1>10, FlagsKept, FlagsLowered DEF DstSetup, EosAlone, Enqueued
  <1>11. CASE DstSetupTakes
    BY <1>11, FlagsKept, FlagsLowered DEF DstSetupTakes, Enqueued
  <1>12. CASE DstSetupEnds
    <2>1. inOMX' = inOMX \/ inOMX' = [inOMX EXCEPT ![direct] = FALSE]
      BY <1>12 DEF DstSetupEnds
    <2> QED
      BY ONLY <1>0, <2>1, FlagCleared DEF OwnTypes
  <1>13. CASE SrcOutputBufferProcess
    BY <1>13, FlagsKept, FlagsLowered DEF SrcOutputBufferProcess
  <1>14. CASE SrcOutputStarts
    BY <1>14, FlagsKept, FlagsLowered DEF SrcOutputStarts
  <1>15. CASE SrcOut
    BY <1>15, FlagsKept, FlagsLowered DEF SrcOut
  <1>16. CASE DstInputBufferProcess
    BY <1>16, FlagsKept, FlagsLowered DEF DstInputBufferProcess, Open
  <1>17. CASE OutputBufferGetQueue
    BY <1>17, FlagsKept, FlagsLowered DEF OutputBufferGetQueue
  <1>18. CASE DstInputProcess
    BY <1>18, FlagsKept, FlagsLowered DEF DstInputProcess
  <1>19. CASE DstInputStarts
    BY <1>19, FlagsKept, FlagsLowered DEF DstInputStarts
  <1>20. CASE DstOutputBufferProcess
    BY <1>20, FlagsKept, FlagsLowered DEF DstOutputBufferProcess
  <1>21. CASE DstOut
    <2>1. \/ inOMX' = inOMX
          \/ inOMX' = [o \in Outs |-> inOMX[o]
                          /\ o # IF Head(mfcOut.done).header THEN Head(mfcOut.done).out ELSE None]
      BY <1>21, Zenon DEF DstOut, Garbage
    <2> QED
      BY <2>1, FlagsLowered
  <1>22. CASE EncodeHeader
    BY <1>22, FlagsKept, FlagsLowered DEF EncodeHeader
  <1>23. CASE Encode
    BY <1>23, FlagsKept, FlagsLowered DEF Encode
  <1>24. CASE FlushBegins
    BY <1>24, FlagsKept, FlagsLowered DEF FlushBegins, FlushWakes
  <1>25. CASE FlushStops
    BY <1>25, FlagsKept, FlagsLowered DEF FlushStops, Dry, Drained
  <1>26. CASE FlushEndsPort
    <2>1. inOMX' = inOMX \/ inOMX' = [o \in Outs |-> FALSE]
      BY <1>26 DEF FlushEndsPort, FlushedIn, FlushedOut
    <2> QED
      BY <2>1, FlagsLowered
  <1>27. CASE Resumes
    BY <1>27, FlagsKept, FlagsLowered DEF Resumes
  <1>28. CASE BufferProcess_Terminate
    BY <1>28, FlagsKept, FlagsLowered DEF BufferProcess_Terminate, Joined, Dry, Drained
  <1>29. CASE UNCHANGED vars
    BY <1>29, FlagsKept, FlagsLowered DEF vars
  <1> QED
    BY <1>1, <1>2, <1>3, <1>4, <1>5, <1>6, <1>7, <1>8, <1>9, <1>10, <1>11, <1>12, <1>13, <1>14,
         <1>15, <1>16, <1>17, <1>18, <1>19, <1>20, <1>21, <1>22, <1>23, <1>24, <1>25, <1>26,
         <1>27, <1>28, <1>29 DEF Next, SrcInput, SrcOutput, DstInput, DstOutput, MFC, Command

\* ... the pictures ...
LEMMA PictureTypesKept ==
    ASSUME IInv, ~EarlyFlush, [Next]_vars
    PROVE  PictureTypes'
  <1> USE DEF IInv, Control, Types, PictureTypes, Pictures, Contents, HandTypes, portVars,
          codecVars, setUp, told, Goes, Running, Ports, Threads
  <1>1. ASSUME NEW n \in Pictures, NEW last \in BOOLEAN, EmptyThisBuffer(n, last)
        PROVE  PictureTypes'
    BY <1>1 DEF EmptyThisBuffer
  <1>2. ASSUME NEW o \in Outs, FillThisBuffer(o)
        PROVE  PictureTypes'
    BY <1>2 DEF FillThisBuffer
  <1>3. CASE SrcInputBufferProcess
    <2>1. UNCHANGED <<fate, eos>>
      BY <1>3 DEF SrcInputBufferProcess, Open, Preprocessor_InputData
    <2>2. \/ stamp' = stamp
          \/ stamp' = [set |-> FALSE, check |-> TRUE, start |-> inBuf]
      BY <1>3 DEF SrcInputBufferProcess, Open, Preprocessor_InputData
    <2>3. inBuf \in 0 .. NumFrames
      OBVIOUS
    <2>4. stamp' \in [set : BOOLEAN, check : BOOLEAN, start : 0 .. NumFrames]
      <3>1. stamp \in [set : BOOLEAN, check : BOOLEAN, start : 0 .. NumFrames]
        OBVIOUS
      <3>2. [set |-> FALSE, check |-> TRUE, start |-> inBuf]
               \in [set : BOOLEAN, check : BOOLEAN, start : 0 .. NumFrames]
        BY <2>3
      <3> QED
        BY <2>2, <3>1, <3>2
    <2> QED
      BY <2>1, <2>4
  <1>4. CASE CodecBufferDeQueue
    BY <1>4 DEF CodecBufferDeQueue
  <1>5. CASE InputBufferGetQueue
    BY <1>5 DEF InputBufferGetQueue
  <1>6. CASE SrcInputRefused
    BY <1>6 DEF SrcInputRefused, Forgets
  <1>7. CASE SrcSetupEos
    BY <1>7 DEF SrcSetupEos, EosAlone, Forgets
  <1>8. CASE SrcSetupEosAnswered
    BY <1>8 DEF SrcSetupEosAnswered, Forgets
  <1>9. CASE SrcIn
    BY <1>9 DEF SrcIn, EosAlone, Enqueued
  <1>10. CASE DstSetup
    BY <1>10 DEF DstSetup, EosAlone, Enqueued
  <1>11. CASE DstSetupTakes
    BY <1>11 DEF DstSetupTakes, Enqueued
  <1>12. CASE DstSetupEnds
    BY <1>12 DEF DstSetupEnds, Enqueued, Drained
  <1>13. CASE SrcOutputBufferProcess
    BY <1>13 DEF SrcOutputBufferProcess
  <1>14. CASE SrcOutputStarts
    BY <1>14 DEF SrcOutputStarts
  <1>15. CASE SrcOut
    BY <1>15 DEF SrcOut
  <1>16. CASE DstInputBufferProcess
    BY <1>16 DEF DstInputBufferProcess, Open
  <1>17. CASE OutputBufferGetQueue
    BY <1>17 DEF OutputBufferGetQueue
  <1>18. CASE DstInputProcess
    BY <1>18 DEF DstInputProcess
  <1>19. CASE DstInputStarts
    BY <1>19 DEF DstInputStarts
  <1>20. CASE DstOutputBufferProcess
    BY <1>20 DEF DstOutputBufferProcess
  <1>21. CASE DstOut
    <2>1. UNCHANGED eos
      BY <1>21 DEF DstOut, Garbage
    <2>2. stamp' = stamp \/ stamp' = [set |-> FALSE, check |-> FALSE, start |-> 0]
      BY <1>21 DEF DstOut, Garbage
    <2> DEFINE m == Head(mfcOut.done).frame
               h == IF Head(mfcOut.done).header THEN Head(mfcOut.done).out ELSE None
               f == [n \in Pictures |-> IF n = m /\ h # None THEN "out" ELSE fate[n]]
    <2>3. fate' = fate \/ fate' = f
      BY <1>21, Zenon DEF DstOut, Garbage
    <2> HIDE DEF m, h
    <2>4. f \in [Pictures -> {"unsent", "in", "out", "flushed", "refused"}]
      BY DEF IInv, Control, Types, PictureTypes
    <2>5. stamp' \in [set : BOOLEAN, check : BOOLEAN, start : 0 .. NumFrames]
      <3>1. stamp \in [set : BOOLEAN, check : BOOLEAN, start : 0 .. NumFrames]
        OBVIOUS
      <3>2. [set |-> FALSE, check |-> FALSE, start |-> 0]
               \in [set : BOOLEAN, check : BOOLEAN, start : 0 .. NumFrames]
        BY EncoderSizes
      <3> QED
        BY <2>2, <3>1, <3>2
    <2>6. fate' \in [Pictures -> {"unsent", "in", "out", "flushed", "refused"}]
      BY <2>3, <2>4
    <2> QED
      BY <2>1, <2>5, <2>6
  <1>22. CASE EncodeHeader
    BY <1>22 DEF EncodeHeader
  <1>23. CASE Encode
    BY <1>23 DEF Encode
  <1>24. CASE FlushBegins
    BY <1>24 DEF FlushBegins, FlushWakes
  <1>25. CASE FlushStops
    BY <1>25 DEF FlushStops, Dry, Drained
  <1>26. CASE FlushEndsPort
    BY <1>26 DEF FlushEndsPort, FlushedIn, FlushedOut
  <1>27. CASE Resumes
    BY <1>27 DEF Resumes
  <1>28. CASE BufferProcess_Terminate
    BY <1>28 DEF BufferProcess_Terminate, Joined, Dry, Drained
  <1>29. CASE UNCHANGED vars
    BY <1>29 DEF vars
  <1> QED
    BY <1>1, <1>2, <1>3, <1>4, <1>5, <1>6, <1>7, <1>8, <1>9, <1>10, <1>11, <1>12, <1>13, <1>14,
         <1>15, <1>16, <1>17, <1>18, <1>19, <1>20, <1>21, <1>22, <1>23, <1>24, <1>25, <1>26,
         <1>27, <1>28, <1>29 DEF Next, SrcInput, SrcOutput, DstInput, DstOutput, MFC, Command

\* ... and each thread stays at its places.
LEMMA PlacesKept ==
    ASSUME IInv, ~EarlyFlush, [Next]_vars
    PROVE  (PlaceTypes /\ Places)'
  <1> USE DEF IInv, Control, Types, PlaceTypes, Places, AllPlaces, SrcInPlaces, portVars,
          codecVars, setUp, told, Goes, Running, Ports, Threads
  <1>1. ASSUME NEW n \in Pictures, NEW last \in BOOLEAN, EmptyThisBuffer(n, last)
        PROVE  (PlaceTypes /\ Places)'
    BY <1>1 DEF EmptyThisBuffer
  <1>2. ASSUME NEW o \in Outs, FillThisBuffer(o)
        PROVE  (PlaceTypes /\ Places)'
    BY <1>2 DEF FillThisBuffer
  <1>3. CASE SrcInputBufferProcess
    BY <1>3 DEF SrcInputBufferProcess, Open, Preprocessor_InputData
  <1>4. CASE CodecBufferDeQueue
    BY <1>4 DEF CodecBufferDeQueue
  <1>5. CASE InputBufferGetQueue
    BY <1>5 DEF InputBufferGetQueue
  <1>6. CASE SrcInputRefused
    BY <1>6 DEF SrcInputRefused, Forgets
  <1>7. CASE SrcSetupEos
    BY <1>7 DEF SrcSetupEos, EosAlone, Forgets
  <1>8. CASE SrcSetupEosAnswered
    BY <1>8 DEF SrcSetupEosAnswered, Forgets
  <1>9. CASE SrcIn
    BY <1>9 DEF SrcIn, EosAlone, Enqueued
  <1>10. CASE DstSetup
    BY <1>10 DEF DstSetup, EosAlone, Enqueued
  <1>11. CASE DstSetupTakes
    BY <1>11 DEF DstSetupTakes, Enqueued
  <1>12. CASE DstSetupEnds
    BY <1>12 DEF DstSetupEnds, Enqueued, Drained
  <1>13. CASE SrcOutputBufferProcess
    BY <1>13 DEF SrcOutputBufferProcess
  <1>14. CASE SrcOutputStarts
    BY <1>14 DEF SrcOutputStarts
  <1>15. CASE SrcOut
    BY <1>15 DEF SrcOut
  <1>16. CASE DstInputBufferProcess
    BY <1>16 DEF DstInputBufferProcess, Open
  <1>17. CASE OutputBufferGetQueue
    BY <1>17 DEF OutputBufferGetQueue
  <1>18. CASE DstInputProcess
    BY <1>18 DEF DstInputProcess
  <1>19. CASE DstInputStarts
    BY <1>19 DEF DstInputStarts
  <1>20. CASE DstOutputBufferProcess
    BY <1>20 DEF DstOutputBufferProcess
  <1>21. CASE DstOut
    BY <1>21 DEF DstOut, Garbage
  <1>22. CASE EncodeHeader
    BY <1>22 DEF EncodeHeader
  <1>23. CASE Encode
    BY <1>23 DEF Encode
  <1>24. CASE FlushBegins
    BY <1>24 DEF FlushBegins, FlushWakes
  <1>25. CASE FlushStops
    BY <1>25 DEF FlushStops, Dry, Drained
  <1>26. CASE FlushEndsPort
    BY <1>26 DEF FlushEndsPort, FlushedIn, FlushedOut
  <1>27. CASE Resumes
    BY <1>27 DEF Resumes
  <1>28. CASE BufferProcess_Terminate
    BY <1>28 DEF BufferProcess_Terminate, Joined, Dry, Drained
  <1>29. CASE UNCHANGED vars
    BY <1>29 DEF vars
  <1> QED
    BY <1>1, <1>2, <1>3, <1>4, <1>5, <1>6, <1>7, <1>8, <1>9, <1>10, <1>11, <1>12, <1>13, <1>14,
         <1>15, <1>16, <1>17, <1>18, <1>19, <1>20, <1>21, <1>22, <1>23, <1>24, <1>25, <1>26,
         <1>27, <1>28, <1>29 DEF Next, SrcInput, SrcOutput, DstInput, DstOutput, MFC, Command

\* The command thread works on the port that is marked, the input before the output.
LEMMA CommandsKept ==
    ASSUME IInv, ~EarlyFlush, [Next]_vars
    PROVE  Commands'
  <1> USE DEF IInv, Control, Types, CommandTypes, FlagTypes, Commands, AtWork, portVars,
          codecVars, setUp, told, Goes, Running, Ports, Threads
  <1>1. ASSUME NEW n \in Pictures, NEW last \in BOOLEAN, EmptyThisBuffer(n, last)
        PROVE  Commands'
    BY <1>1 DEF EmptyThisBuffer
  <1>2. ASSUME NEW o \in Outs, FillThisBuffer(o)
        PROVE  Commands'
    BY <1>2 DEF FillThisBuffer
  <1>3. CASE SrcInputBufferProcess
    BY <1>3 DEF SrcInputBufferProcess, Open, Preprocessor_InputData
  <1>4. CASE CodecBufferDeQueue
    BY <1>4 DEF CodecBufferDeQueue
  <1>5. CASE InputBufferGetQueue
    BY <1>5 DEF InputBufferGetQueue
  <1>6. CASE SrcInputRefused
    BY <1>6 DEF SrcInputRefused, Forgets
  <1>7. CASE SrcSetupEos
    BY <1>7 DEF SrcSetupEos, EosAlone, Forgets
  <1>8. CASE SrcSetupEosAnswered
    BY <1>8 DEF SrcSetupEosAnswered, Forgets
  <1>9. CASE SrcIn
    BY <1>9 DEF SrcIn, EosAlone, Enqueued
  <1>10. CASE DstSetup
    BY <1>10 DEF DstSetup, EosAlone, Enqueued
  <1>11. CASE DstSetupTakes
    BY <1>11 DEF DstSetupTakes, Enqueued
  <1>12. CASE DstSetupEnds
    BY <1>12 DEF DstSetupEnds, Enqueued, Drained
  <1>13. CASE SrcOutputBufferProcess
    BY <1>13 DEF SrcOutputBufferProcess
  <1>14. CASE SrcOutputStarts
    BY <1>14 DEF SrcOutputStarts
  <1>15. CASE SrcOut
    BY <1>15 DEF SrcOut
  <1>16. CASE DstInputBufferProcess
    BY <1>16 DEF DstInputBufferProcess, Open
  <1>17. CASE OutputBufferGetQueue
    BY <1>17 DEF OutputBufferGetQueue
  <1>18. CASE DstInputProcess
    BY <1>18 DEF DstInputProcess
  <1>19. CASE DstInputStarts
    BY <1>19 DEF DstInputStarts
  <1>20. CASE DstOutputBufferProcess
    BY <1>20 DEF DstOutputBufferProcess
  <1>21. CASE DstOut
    BY <1>21 DEF DstOut, Garbage
  <1>22. CASE EncodeHeader
    BY <1>22 DEF EncodeHeader
  <1>23. CASE Encode
    BY <1>23 DEF Encode
  <1>24. CASE FlushBegins
    BY <1>24 DEF FlushBegins, FlushWakes
  <1>25. CASE FlushStops
    BY <1>25 DEF FlushStops, Dry, Drained
  <1>26. CASE FlushEndsPort
    BY <1>26, ZenonT(30) DEF FlushEndsPort, FlushedIn, FlushedOut
  <1>27. CASE Resumes
    BY <1>27 DEF Resumes
  <1>28. CASE BufferProcess_Terminate
    BY <1>28 DEF BufferProcess_Terminate, Joined, Dry, Drained
  <1>29. CASE UNCHANGED vars
    BY <1>29 DEF vars
  <1> QED
    BY <1>1, <1>2, <1>3, <1>4, <1>5, <1>6, <1>7, <1>8, <1>9, <1>10, <1>11, <1>12, <1>13, <1>14,
         <1>15, <1>16, <1>17, <1>18, <1>19, <1>20, <1>21, <1>22, <1>23, <1>24, <1>25, <1>26,
         <1>27, <1>28, <1>29 DEF Next, SrcInput, SrcOutput, DstInput, DstOutput, MFC, Command

-----------------------------------------------------------------------------
(* What the queues, the hands and the MFC hold.                               *)

\* The queues of the ports and of the codec buffers, with what may be put in
\* or taken out.
LEMMA QueuesTyped ==
    ASSUME Contents
    PROVE  /\ queue["in"] \in Seq(Pictures) /\ queue["out"] \in Seq(Outs) /\ codecQ \in Seq(Codecs)
           /\ queue["in"] # <<>> =>
                 (Head(queue["in"]) \in Pictures /\ Tail(queue["in"]) \in Seq(Pictures))
           /\ queue["out"] # <<>> =>
                 (Head(queue["out"]) \in Outs /\ Tail(queue["out"]) \in Seq(Outs))
           /\ codecQ # <<>> => (Head(codecQ) \in Codecs /\ Tail(codecQ) \in Seq(Codecs))
           /\ \A n \in Pictures : Append(queue["in"], n) \in Seq(Pictures)
           /\ \A o \in Outs : Append(queue["out"], o) \in Seq(Outs)
           /\ \A c \in Codecs : Append(codecQ, c) \in Seq(Codecs)
           /\ <<>> \in Seq(Pictures) /\ <<>> \in Seq(Outs) /\ SetToSeq(Codecs) \in Seq(Codecs)
  <1>1. queue["in"] \in Seq(Pictures) /\ queue["out"] \in Seq(Outs) /\ codecQ \in Seq(Codecs)
    BY DEF Contents, QueueTypes
  <1>2. <<>> \in Seq(Pictures) /\ <<>> \in Seq(Outs) /\ SetToSeq(Codecs) \in Seq(Codecs)
    BY EncoderSizes, SetToSeqOf, EmptySeq
  <1>3. queue["in"] # <<>> =>
           (Head(queue["in"]) \in Pictures /\ Tail(queue["in"]) \in Seq(Pictures))
    BY <1>1, TakenFrom
  <1>4. queue["out"] # <<>> => (Head(queue["out"]) \in Outs /\ Tail(queue["out"]) \in Seq(Outs))
    BY <1>1, TakenFrom
  <1>5. codecQ # <<>> => (Head(codecQ) \in Codecs /\ Tail(codecQ) \in Seq(Codecs))
    BY <1>1, TakenFrom
  <1>6. /\ \A n \in Pictures : Append(queue["in"], n) \in Seq(Pictures)
        /\ \A o \in Outs : Append(queue["out"], o) \in Seq(Outs)
        /\ \A c \in Codecs : Append(codecQ, c) \in Seq(Codecs)
    BY <1>1, PutInto
  <1> QED
    BY <1>1, <1>2, <1>3, <1>4, <1>5, <1>6

\* The input of the MFC.
LEMMA InputTyped ==
    ASSUME Contents
    PROVE  /\ mfcIn.work \in Seq(Jobs) /\ mfcIn.done \in Seq(Codecs)
           /\ mfcIn.work # <<>> =>
                 (Head(mfcIn.work) \in Jobs /\ Head(mfcIn.work).buf \in Codecs
                    /\ Head(mfcIn.work).frame \in Pictures /\ Tail(mfcIn.work) \in Seq(Jobs))
           /\ mfcIn.done # <<>> => (Head(mfcIn.done) \in Codecs /\ Tail(mfcIn.done) \in Seq(Codecs))
           /\ \A j \in Jobs : Append(mfcIn.work, j) \in Seq(Jobs)
           /\ \A c \in Codecs : Append(mfcIn.done, c) \in Seq(Codecs)
           /\ <<>> \in Seq(Jobs) /\ <<>> \in Seq(Codecs)
  <1>1. mfcIn.work \in Seq(Jobs) /\ mfcIn.done \in Seq(Codecs)
    BY DEF Contents, InputType
  <1>2. <<>> \in Seq(Jobs) /\ <<>> \in Seq(Codecs)
    BY EmptySeq
  <1>3. mfcIn.work # <<>> => (Head(mfcIn.work) \in Jobs /\ Tail(mfcIn.work) \in Seq(Jobs))
    BY <1>1, TakenFrom
  <1>4. mfcIn.done # <<>> => (Head(mfcIn.done) \in Codecs /\ Tail(mfcIn.done) \in Seq(Codecs))
    BY <1>1, TakenFrom
  <1>5. /\ \A j \in Jobs : Append(mfcIn.work, j) \in Seq(Jobs)
        /\ \A c \in Codecs : Append(mfcIn.done, c) \in Seq(Codecs)
    BY <1>1, PutInto
  <1>6. \A j \in Jobs : j.buf \in Codecs /\ j.frame \in Pictures
    BY DEF Jobs
  <1> QED
    BY <1>1, <1>2, <1>3, <1>4, <1>5, <1>6

\* The output of the MFC.
LEMMA OutputTyped ==
    ASSUME Contents
    PROVE  /\ mfcOut.work \in Seq(Empties) /\ mfcOut.done \in Seq(Written)
           /\ mfcOut.work # <<>> =>
                 (Head(mfcOut.work) \in Empties /\ Tail(mfcOut.work) \in Seq(Empties))
           /\ mfcOut.done # <<>> =>
                 (Head(mfcOut.done) \in Written /\ Tail(mfcOut.done) \in Seq(Written))
           /\ \A e \in Empties : Append(mfcOut.work, e) \in Seq(Empties)
           /\ \A e \in Empties, n \in 0 .. NumFrames :
                 Append(mfcOut.done, Coded(e, n)) \in Seq(Written)
           /\ <<>> \in Seq(Empties) /\ <<>> \in Seq(Written)
           /\ [i \in 1 .. Cardinality(Outs) |-> [out |-> SetToSeq(Outs)[i], header |-> FALSE]]
                 \in Seq(Empties)
  <1>1. mfcOut.work \in Seq(Empties) /\ mfcOut.done \in Seq(Written)
    BY DEF Contents, OutputType
  <1>2. <<>> \in Seq(Empties) /\ <<>> \in Seq(Written)
    BY EmptySeq
  <1>3. mfcOut.work # <<>> => (Head(mfcOut.work) \in Empties /\ Tail(mfcOut.work) \in Seq(Empties))
    BY <1>1, TakenFrom
  <1>4. mfcOut.done # <<>> => (Head(mfcOut.done) \in Written /\ Tail(mfcOut.done) \in Seq(Written))
    BY <1>1, TakenFrom
  <1>5. \A e \in Empties : Append(mfcOut.work, e) \in Seq(Empties)
    BY <1>1, PutInto
  <1>6. \A e \in Empties, n \in 0 .. NumFrames : Coded(e, n) \in Written
    BY DEF Coded, Empties, Written
  <1>7. \A e \in Empties, n \in 0 .. NumFrames : Append(mfcOut.done, Coded(e, n)) \in Seq(Written)
    BY <1>1, <1>6, PutInto
  <1>8. [i \in 1 .. Cardinality(Outs) |-> [out |-> SetToSeq(Outs)[i], header |-> FALSE]]
           \in Seq(Empties)
    <2>1. /\ SetToSeq(Outs) \in Seq(Outs) /\ Len(SetToSeq(Outs)) = Cardinality(Outs)
          /\ Cardinality(Outs) \in Nat
      BY EncoderSizes, SetToSeqOf
    <2>2. \A i \in 1 .. Cardinality(Outs) : SetToSeq(Outs)[i] \in Outs
      BY <2>1
    <2>3. \A i \in 1 .. Cardinality(Outs) :
             [out |-> SetToSeq(Outs)[i], header |-> FALSE] \in Empties
      BY <2>2 DEF Empties
    <2> QED
      BY <2>1, <2>3
  <1> QED
    BY <1>1, <1>2, <1>3, <1>4, <1>5, <1>7, <1>8

\* A codec buffer with a picture in it is an entry for the MFC.
LEMMA PictureInBuffer ==
    ASSUME Contents, Holding, pc["srcIn"] \in WithPicture
    PROVE  hold \in Jobs
  BY DEF Contents, HandTypes, BufferAndFrame, Holding, Jobs, Pictures

\* What processData may become.
LEMMA HandTyped ==
    ASSUME Contents
    PROVE  /\ hold \in BufferAndFrame /\ Free \in BufferAndFrame
           /\ \A c \in Codecs : [buf |-> c, frame |-> 0] \in BufferAndFrame
           /\ [hold EXCEPT !.frame = inBuf] \in BufferAndFrame
  <1>1. hold \in [buf : Codecs \cup {None}, frame : 0 .. NumFrames] /\ inBuf \in 0 .. NumFrames
    BY DEF Contents, HandTypes, BufferAndFrame
  <1>2. 0 \in 0 .. NumFrames
    BY EncoderSizes
  <1> QED
    BY <1>1, <1>2 DEF BufferAndFrame, Free

\* What the MFC's output is after a stop, and what it was until then.
LEMMA OutputStopped ==
    ASSUME OutputType
    PROVE  Drained(mfcOut.headed) \in
              [on : BOOLEAN, work : Seq(Empties), done : Seq(Written), headed : BOOLEAN]
  <1>1. <<>> \in Seq(Empties) /\ <<>> \in Seq(Written)
    BY EmptySeq
  <1>2. mfcOut.headed \in BOOLEAN
    BY DEF OutputType
  <1> QED
    BY <1>1, <1>2 DEF Drained

\* The MFC gets one more empty buffer.
LEMMA OutputGiven ==
    ASSUME Contents, NEW o \in Outs
    PROVE  [mfcOut EXCEPT !.on = TRUE, !.work = Append(@, [out |-> o, header |-> TRUE])] \in
              [on : BOOLEAN, work : Seq(Empties), done : Seq(Written), headed : BOOLEAN]
  <1>1. [out |-> o, header |-> TRUE] \in Empties
    BY DEF Empties
  <1>2. Append(mfcOut.work, [out |-> o, header |-> TRUE]) \in Seq(Empties)
    BY <1>1, OutputTyped
  <1> QED
    BY <1>2 DEF Contents, OutputType

\* The MFC writes n into the first of the empty buffers.
LEMMA OutputWritten ==
    ASSUME Contents, mfcOut.work # <<>>, NEW n \in 0 .. NumFrames, NEW b \in BOOLEAN
    PROVE  /\ Append(mfcOut.done, Coded(Head(mfcOut.work), n)) \in Seq(Written)
           /\ Tail(mfcOut.work) \in Seq(Empties)
           /\ [mfcOut EXCEPT !.headed = b, !.work = Tail(@),
                             !.done = Append(@, Coded(Head(mfcOut.work), n))] \in
                 [on : BOOLEAN, work : Seq(Empties), done : Seq(Written), headed : BOOLEAN]
           /\ [mfcOut EXCEPT !.work = Tail(@),
                             !.done = Append(@, Coded(Head(mfcOut.work), n))] \in
                 [on : BOOLEAN, work : Seq(Empties), done : Seq(Written), headed : BOOLEAN]
  <1> DEFINE d == Append(mfcOut.done, Coded(Head(mfcOut.work), n))
  <1>1. d \in Seq(Written) /\ Tail(mfcOut.work) \in Seq(Empties)
    BY OutputTyped
  <1> HIDE DEF d
  <1>2. /\ [mfcOut EXCEPT !.headed = b, !.work = Tail(@), !.done = d] \in
               [on : BOOLEAN, work : Seq(Empties), done : Seq(Written), headed : BOOLEAN]
        /\ [mfcOut EXCEPT !.work = Tail(@), !.done = d] \in
               [on : BOOLEAN, work : Seq(Empties), done : Seq(Written), headed : BOOLEAN]
    BY <1>1 DEF Contents, OutputType
  <1> QED
    BY <1>1, <1>2 DEF d

\* The queues and their counters stay typed, ...
LEMMA QueueTypesKept ==
    ASSUME IInv, ~EarlyFlush, [Next]_vars
    PROVE  QueueTypes'
  <1>q. Contents
    BY DEF IInv, Control
  <1>0. queue \in [in : Seq(Pictures), out : Seq(Outs)]
    BY DEF IInv, Control, Contents, QueueTypes
  <1>r. /\ \A q \in Seq(Pictures) : [queue EXCEPT !.in = q] \in [in : Seq(Pictures), out : Seq(Outs)]
        /\ \A q \in Seq(Outs) : [queue EXCEPT !.out = q] \in [in : Seq(Pictures), out : Seq(Outs)]
    BY ONLY <1>0, QueueReplaced
  <1>s. sem \in [Ports -> Nat] /\ \A p : \A n \in Nat : [sem EXCEPT ![p] = n] \in [Ports -> Nat]
    <2>1. sem \in [Ports -> Nat]
      BY DEF IInv, Control, Contents, QueueTypes
    <2> QED
      BY ONLY <2>1, CountReplaced
  <1> USE DEF IInv, Control, Contents, QueueTypes, portVars, codecVars, setUp, told, Goes,
          Running, Ports, Threads
  <1>1. ASSUME NEW n \in Pictures, NEW last \in BOOLEAN, EmptyThisBuffer(n, last)
        PROVE  QueueTypes'
    <2>1. queue' \in [in : Seq(Pictures), out : Seq(Outs)]
      <3>1. queue' = [queue EXCEPT !.in = Append(queue["in"], n)]
        BY <1>1 DEF EmptyThisBuffer
      <3>2. Append(queue["in"], n) \in Seq(Pictures)
        BY <1>q, QueuesTyped
      <3> QED
        BY ONLY <1>0, <1>r, <3>1, <3>2, Zenon
    <2>2. sem' \in [Ports -> Nat]
      <3>1. sem' = [sem EXCEPT !["in"] = sem["in"] + 1]
        BY <1>1 DEF EmptyThisBuffer
      <3>2. sem["in"] \in Nat
        BY ONLY <1>s DEF Ports
      <3>3. sem["in"] + 1 \in Nat
        BY ONLY <3>1, <3>2
      <3> QED
        BY ONLY <1>s, <3>1, <3>3, Zenon
    <2>3. codecQ' \in Seq(Codecs)
      BY <1>1, <1>q, QueuesTyped DEF EmptyThisBuffer
    <2>4. codecSem' \in Nat
      BY <1>1, <1>q, QueuesTyped DEF EmptyThisBuffer
    <2> QED
      BY <2>1, <2>2, <2>3, <2>4
  <1>2. ASSUME NEW o \in Outs, FillThisBuffer(o)
        PROVE  QueueTypes'
    <2>1. queue' \in [in : Seq(Pictures), out : Seq(Outs)]
      <3>1. queue' = [queue EXCEPT !.out = Append(queue["out"], o)]
        BY <1>2 DEF FillThisBuffer
      <3>2. Append(queue["out"], o) \in Seq(Outs)
        BY <1>q, QueuesTyped
      <3> QED
        BY ONLY <1>0, <1>r, <3>1, <3>2, Zenon
    <2>2. sem' \in [Ports -> Nat]
      <3>1. sem' = [sem EXCEPT !["out"] = sem["out"] + 1]
        BY <1>2 DEF FillThisBuffer
      <3>2. sem["out"] \in Nat
        BY ONLY <1>s DEF Ports
      <3>3. sem["out"] + 1 \in Nat
        BY ONLY <3>1, <3>2
      <3> QED
        BY ONLY <1>s, <3>1, <3>3, Zenon
    <2>3. codecQ' \in Seq(Codecs)
      BY <1>2, <1>q, QueuesTyped DEF FillThisBuffer
    <2>4. codecSem' \in Nat
      BY <1>2, <1>q, QueuesTyped DEF FillThisBuffer
    <2> QED
      BY <2>1, <2>2, <2>3, <2>4
  <1>3. CASE SrcInputBufferProcess
    BY <1>3 DEF SrcInputBufferProcess, Open, Preprocessor_InputData
  <1>4. CASE CodecBufferDeQueue
    <2>1. queue' \in [in : Seq(Pictures), out : Seq(Outs)]
      BY <1>4, <1>q, QueuesTyped DEF CodecBufferDeQueue
    <2>2. sem' \in [Ports -> Nat]
      BY <1>4, <1>q, QueuesTyped DEF CodecBufferDeQueue
    <2>3. codecQ' \in Seq(Codecs)
      BY <1>4, <1>q, QueuesTyped DEF CodecBufferDeQueue
    <2>4. codecSem' \in Nat
      BY <1>4, <1>q, QueuesTyped DEF CodecBufferDeQueue
    <2> QED
      BY <2>1, <2>2, <2>3, <2>4
  <1>5. CASE InputBufferGetQueue
    <2>1. queue' \in [in : Seq(Pictures), out : Seq(Outs)]
      <3>1. \/ queue' = queue
            \/ queue["in"] # <<>> /\ queue' = [queue EXCEPT !.in = Tail(queue["in"])]
        BY <1>5 DEF InputBufferGetQueue
      <3>2. queue["in"] # <<>> => Tail(queue["in"]) \in Seq(Pictures)
        BY <1>q, QueuesTyped
      <3> QED
        BY ONLY <1>0, <1>r, <3>1, <3>2, Zenon
    <2>2. sem' \in [Ports -> Nat]
      <3>1. sem' = [sem EXCEPT !["in"] = sem["in"] - 1] /\ sem["in"] > 0
        BY <1>5 DEF InputBufferGetQueue
      <3>2. sem["in"] \in Nat
        BY ONLY <1>s DEF Ports
      <3>3. sem["in"] - 1 \in Nat
        BY ONLY <3>1, <3>2
      <3> QED
        BY ONLY <1>s, <3>1, <3>3, Zenon
    <2>3. codecQ' \in Seq(Codecs)
      BY <1>5, <1>q, QueuesTyped DEF InputBufferGetQueue
    <2>4. codecSem' \in Nat
      BY <1>5, <1>q, QueuesTyped DEF InputBufferGetQueue
    <2> QED
      BY <2>1, <2>2, <2>3, <2>4
  <1>6. CASE SrcInputRefused
    BY <1>6 DEF SrcInputRefused, Forgets
  <1>7. CASE SrcSetupEos
    BY <1>7 DEF SrcSetupEos, EosAlone, Forgets
  <1>8. CASE SrcSetupEosAnswered
    <2>1. queue' \in [in : Seq(Pictures), out : Seq(Outs)]
      <3>1. \/ queue' = queue
            \/ queue["out"] # <<>> /\ queue' = [queue EXCEPT !.out = Tail(queue["out"])]
        BY <1>8 DEF SrcSetupEosAnswered
      <3>2. queue["out"] # <<>> => Tail(queue["out"]) \in Seq(Outs)
        BY <1>q, QueuesTyped
      <3> QED
        BY ONLY <1>0, <1>r, <3>1, <3>2, Zenon
    <2>2. sem' \in [Ports -> Nat]
      <3>1. sem' = [sem EXCEPT !["out"] = sem["out"] - 1] /\ sem["out"] > 0
        BY <1>8 DEF SrcSetupEosAnswered
      <3>2. sem["out"] \in Nat
        BY ONLY <1>s DEF Ports
      <3>3. sem["out"] - 1 \in Nat
        BY ONLY <3>1, <3>2
      <3> QED
        BY ONLY <1>s, <3>1, <3>3, Zenon
    <2>3. codecQ' \in Seq(Codecs)
      BY <1>8, <1>q, QueuesTyped DEF SrcSetupEosAnswered, Forgets
    <2>4. codecSem' \in Nat
      BY <1>8, <1>q, QueuesTyped DEF SrcSetupEosAnswered, Forgets
    <2> QED
      BY <2>1, <2>2, <2>3, <2>4
  <1>9. CASE SrcIn
    BY <1>9 DEF SrcIn, EosAlone, Enqueued
  <1>10. CASE DstSetup
    BY <1>10 DEF DstSetup, EosAlone, Enqueued
  <1>11. CASE DstSetupTakes
    <2>1. queue' \in [in : Seq(Pictures), out : Seq(Outs)]
      <3>1. \/ queue' = queue
            \/ queue["out"] # <<>> /\ queue' = [queue EXCEPT !.out = Tail(queue["out"])]
        BY <1>11 DEF DstSetupTakes
      <3>2. queue["out"] # <<>> => Tail(queue["out"]) \in Seq(Outs)
        BY <1>q, QueuesTyped
      <3> QED
        BY ONLY <1>0, <1>r, <3>1, <3>2, Zenon
    <2>2. sem' \in [Ports -> Nat]
      <3>1. sem' = [sem EXCEPT !["out"] = sem["out"] - 1] /\ sem["out"] > 0
        BY <1>11 DEF DstSetupTakes
      <3>2. sem["out"] \in Nat
        BY ONLY <1>s DEF Ports
      <3>3. sem["out"] - 1 \in Nat
        BY ONLY <3>1, <3>2
      <3> QED
        BY ONLY <1>s, <3>1, <3>3, Zenon
    <2>3. codecQ' \in Seq(Codecs)
      BY <1>11, <1>q, QueuesTyped DEF DstSetupTakes, Enqueued
    <2>4. codecSem' \in Nat
      BY <1>11, <1>q, QueuesTyped DEF DstSetupTakes, Enqueued
    <2> QED
      BY <2>1, <2>2, <2>3, <2>4
  <1>12. CASE DstSetupEnds
    BY <1>12 DEF DstSetupEnds, Enqueued, Drained
  <1>13. CASE SrcOutputBufferProcess
    BY <1>13 DEF SrcOutputBufferProcess
  <1>14. CASE SrcOutputStarts
    BY <1>14 DEF SrcOutputStarts
  <1>15. CASE SrcOut
    <2>1. queue' \in [in : Seq(Pictures), out : Seq(Outs)]
      BY <1>15 DEF SrcOut
    <2>2. sem' \in [Ports -> Nat]
      BY <1>15 DEF SrcOut
    <2>3. codecQ' \in Seq(Codecs)
      BY <1>15, <1>q, QueuesTyped, InputTyped DEF SrcOut
    <2>4. codecSem' \in Nat
      BY <1>15 DEF SrcOut
    <2> QED
      BY <2>1, <2>2, <2>3, <2>4
  <1>16. CASE DstInputBufferProcess
    BY <1>16 DEF DstInputBufferProcess, Open
  <1>17. CASE OutputBufferGetQueue
    <2>1. queue' \in [in : Seq(Pictures), out : Seq(Outs)]
      <3>1. \/ queue' = queue
            \/ queue["out"] # <<>> /\ queue' = [queue EXCEPT !.out = Tail(queue["out"])]
        BY <1>17 DEF OutputBufferGetQueue
      <3>2. queue["out"] # <<>> => Tail(queue["out"]) \in Seq(Outs)
        BY <1>q, QueuesTyped
      <3> QED
        BY ONLY <1>0, <1>r, <3>1, <3>2, Zenon
    <2>2. sem' \in [Ports -> Nat]
      <3>1. sem' = [sem EXCEPT !["out"] = sem["out"] - 1] /\ sem["out"] > 0
        BY <1>17 DEF OutputBufferGetQueue
      <3>2. sem["out"] \in Nat
        BY ONLY <1>s DEF Ports
      <3>3. sem["out"] - 1 \in Nat
        BY ONLY <3>1, <3>2
      <3> QED
        BY ONLY <1>s, <3>1, <3>3, Zenon
    <2>3. codecQ' \in Seq(Codecs)
      BY <1>17, <1>q, QueuesTyped DEF OutputBufferGetQueue
    <2>4. codecSem' \in Nat
      BY <1>17, <1>q, QueuesTyped DEF OutputBufferGetQueue
    <2> QED
      BY <2>1, <2>2, <2>3, <2>4
  <1>18. CASE DstInputProcess
    BY <1>18 DEF DstInputProcess
  <1>19. CASE DstInputStarts
    BY <1>19 DEF DstInputStarts
  <1>20. CASE DstOutputBufferProcess
    BY <1>20 DEF DstOutputBufferProcess
  <1>21. CASE DstOut
    BY <1>21 DEF DstOut, Garbage
  <1>22. CASE EncodeHeader
    BY <1>22 DEF EncodeHeader
  <1>23. CASE Encode
    BY <1>23 DEF Encode
  <1>24. CASE FlushBegins
    BY <1>24 DEF FlushBegins, FlushWakes
  <1>25. CASE FlushStops
    BY <1>25 DEF FlushStops, Dry, Drained
  <1>26. CASE FlushEndsPort
    <2>1. queue' \in [in : Seq(Pictures), out : Seq(Outs)]
      <3>1. \/ queue' = [queue EXCEPT !["in"] = <<>>]
            \/ queue' = [queue EXCEPT !["out"] = <<>>]
        BY <1>26 DEF FlushEndsPort, FlushedIn, FlushedOut
      <3>2. <<>> \in Seq(Pictures) /\ <<>> \in Seq(Outs)
        BY <1>q, QueuesTyped
      <3> QED
        BY <3>1, <3>2
    <2>2. sem' \in [Ports -> Nat]
      <3>1. \/ sem' = [p \in Ports |-> IF p = "in" THEN 0 ELSE sem["out"] + 1]
            \/ sem' = [sem EXCEPT ![ctl.port] = 0]
        BY <1>26 DEF FlushEndsPort, FlushedIn, FlushedOut
      <3> QED
        BY <3>1
    <2>3. codecQ' \in Seq(Codecs)
      BY <1>26, <1>q, QueuesTyped DEF FlushEndsPort, FlushedIn, FlushedOut
    <2>4. codecSem' \in Nat
      <3>1. codecSem' = codecSem \/ codecSem' = Cardinality(Codecs)
        BY <1>26 DEF FlushEndsPort, FlushedIn, FlushedOut
      <3> QED
        BY <3>1, SetToSeqOf, EncoderSizes
    <2> QED
      BY <2>1, <2>2, <2>3, <2>4
  <1>27. CASE Resumes
    BY <1>27 DEF Resumes
  <1>28. CASE BufferProcess_Terminate
    BY <1>28 DEF BufferProcess_Terminate, Joined, Dry, Drained
  <1>29. CASE UNCHANGED vars
    BY <1>29 DEF vars
  <1> QED
    BY <1>1, <1>2, <1>3, <1>4, <1>5, <1>6, <1>7, <1>8, <1>9, <1>10, <1>11, <1>12, <1>13, <1>14,
         <1>15, <1>16, <1>17, <1>18, <1>19, <1>20, <1>21, <1>22, <1>23, <1>24, <1>25, <1>26,
         <1>27, <1>28, <1>29 DEF Next, SrcInput, SrcOutput, DstInput, DstOutput, MFC, Command

\* ... what the threads hold ...
LEMMA HandTypesKept ==
    ASSUME IInv, ~EarlyFlush, [Next]_vars
    PROVE  HandTypes'
  <1>q. Contents
    BY DEF IInv, Control
  <1> USE DEF IInv, Control, Contents, HandTypes, Pictures, portVars, codecVars, setUp, told,
          Goes, Running, Ports, Threads
  <1>1. ASSUME NEW n \in Pictures, NEW last \in BOOLEAN, EmptyThisBuffer(n, last)
        PROVE  HandTypes'
    BY <1>1 DEF EmptyThisBuffer
  <1>2. ASSUME NEW o \in Outs, FillThisBuffer(o)
        PROVE  HandTypes'
    BY <1>2 DEF FillThisBuffer
  <1>3. CASE SrcInputBufferProcess
    <2>1. hold' \in BufferAndFrame
      <3>1. hold' = hold \/ hold' = [hold EXCEPT !.frame = inBuf]
        BY <1>3 DEF SrcInputBufferProcess, Open, Preprocessor_InputData
      <3> QED
        BY <3>1, <1>q, HandTyped
    <2>2. inBuf' \in 0 .. NumFrames
      <3>1. inBuf' = inBuf \/ inBuf' = 0
        BY <1>3 DEF SrcInputBufferProcess, Open, Preprocessor_InputData
      <3> QED
        BY <3>1, EncoderSizes
    <2>3. direct' \in Outs \cup {None} /\ dstHeld' \in Outs \cup {None}
      BY <1>3, <1>q, HandTyped DEF SrcInputBufferProcess, Open, Preprocessor_InputData
    <2>4. outBuf' \in Outs \cup {None}
      BY <1>3, <1>q, HandTyped DEF SrcInputBufferProcess, Open, Preprocessor_InputData
    <2> QED
      BY <2>1, <2>2, <2>3, <2>4
  <1>4. CASE CodecBufferDeQueue
    <2>1. hold' \in BufferAndFrame
      BY <1>4, <1>q, QueuesTyped, HandTyped DEF CodecBufferDeQueue
    <2>2. inBuf' \in 0 .. NumFrames
      BY <1>4, <1>q, QueuesTyped, HandTyped DEF CodecBufferDeQueue
    <2>3. direct' \in Outs \cup {None} /\ dstHeld' \in Outs \cup {None}
      BY <1>4, <1>q, QueuesTyped, HandTyped DEF CodecBufferDeQueue
    <2>4. outBuf' \in Outs \cup {None}
      BY <1>4, <1>q, QueuesTyped, HandTyped DEF CodecBufferDeQueue
    <2> QED
      BY <2>1, <2>2, <2>3, <2>4
  <1>5. CASE InputBufferGetQueue
    BY <1>5, <1>q, QueuesTyped DEF InputBufferGetQueue
  <1>6. CASE SrcInputRefused
    <2>1. hold' \in BufferAndFrame
      BY <1>6, <1>q, HandTyped DEF SrcInputRefused, Forgets
    <2>2. inBuf' \in 0 .. NumFrames
      BY <1>6, <1>q, HandTyped DEF SrcInputRefused, Forgets
    <2>3. direct' \in Outs \cup {None} /\ dstHeld' \in Outs \cup {None}
      BY <1>6, <1>q, HandTyped DEF SrcInputRefused, Forgets
    <2>4. outBuf' \in Outs \cup {None}
      BY <1>6, <1>q, HandTyped DEF SrcInputRefused, Forgets
    <2> QED
      BY <2>1, <2>2, <2>3, <2>4
  <1>7. CASE SrcSetupEos
    <2>1. hold' \in BufferAndFrame
      BY <1>7, <1>q, HandTyped DEF SrcSetupEos, EosAlone, Forgets
    <2>2. inBuf' \in 0 .. NumFrames
      BY <1>7, <1>q, HandTyped DEF SrcSetupEos, EosAlone, Forgets
    <2>3. direct' \in Outs \cup {None} /\ dstHeld' \in Outs \cup {None}
      BY <1>7, <1>q, HandTyped DEF SrcSetupEos, EosAlone, Forgets
    <2>4. outBuf' \in Outs \cup {None}
      BY <1>7, <1>q, HandTyped DEF SrcSetupEos, EosAlone, Forgets
    <2> QED
      BY <2>1, <2>2, <2>3, <2>4
  <1>8. CASE SrcSetupEosAnswered
    <2>1. hold' \in BufferAndFrame
      BY <1>8, <1>q, HandTyped DEF SrcSetupEosAnswered, Forgets
    <2>2. inBuf' \in 0 .. NumFrames
      BY <1>8, <1>q, HandTyped DEF SrcSetupEosAnswered, Forgets
    <2>3. direct' \in Outs \cup {None} /\ dstHeld' \in Outs \cup {None}
      BY <1>8, <1>q, HandTyped DEF SrcSetupEosAnswered, Forgets
    <2>4. outBuf' \in Outs \cup {None}
      BY <1>8, <1>q, HandTyped DEF SrcSetupEosAnswered, Forgets
    <2> QED
      BY <2>1, <2>2, <2>3, <2>4
  <1>9. CASE SrcIn
    <2>1. hold' \in BufferAndFrame
      BY <1>9, <1>q, HandTyped DEF SrcIn, EosAlone, Enqueued
    <2>2. inBuf' \in 0 .. NumFrames
      BY <1>9, <1>q, HandTyped DEF SrcIn, EosAlone, Enqueued
    <2>3. direct' \in Outs \cup {None} /\ dstHeld' \in Outs \cup {None}
      BY <1>9, <1>q, HandTyped DEF SrcIn, EosAlone, Enqueued
    <2>4. outBuf' \in Outs \cup {None}
      BY <1>9, <1>q, HandTyped DEF SrcIn, EosAlone, Enqueued
    <2> QED
      BY <2>1, <2>2, <2>3, <2>4
  <1>10. CASE DstSetup
    <2>1. hold' \in BufferAndFrame
      BY <1>10, <1>q, HandTyped DEF DstSetup, EosAlone, Enqueued
    <2>2. inBuf' \in 0 .. NumFrames
      BY <1>10, <1>q, HandTyped DEF DstSetup, EosAlone, Enqueued
    <2>3. direct' \in Outs \cup {None} /\ dstHeld' \in Outs \cup {None}
      BY <1>10, <1>q, HandTyped DEF DstSetup, EosAlone, Enqueued
    <2>4. outBuf' \in Outs \cup {None}
      BY <1>10, <1>q, HandTyped DEF DstSetup, EosAlone, Enqueued
    <2> QED
      BY <2>1, <2>2, <2>3, <2>4
  <1>11. CASE DstSetupTakes
    <2>1. hold' \in BufferAndFrame
      BY <1>11, <1>q, QueuesTyped, HandTyped DEF DstSetupTakes, Enqueued
    <2>2. inBuf' \in 0 .. NumFrames
      BY <1>11, <1>q, QueuesTyped, HandTyped DEF DstSetupTakes, Enqueued
    <2>3. direct' \in Outs \cup {None} /\ dstHeld' \in Outs \cup {None}
      BY <1>11, <1>q, QueuesTyped, HandTyped DEF DstSetupTakes, Enqueued
    <2>4. outBuf' \in Outs \cup {None}
      BY <1>11, <1>q, QueuesTyped, HandTyped DEF DstSetupTakes, Enqueued
    <2> QED
      BY <2>1, <2>2, <2>3, <2>4
  <1>12. CASE DstSetupEnds
    <2>1. hold' \in BufferAndFrame
      BY <1>12, <1>q, HandTyped DEF DstSetupEnds, Enqueued, Drained
    <2>2. inBuf' \in 0 .. NumFrames
      BY <1>12, <1>q, HandTyped DEF DstSetupEnds, Enqueued, Drained
    <2>3. direct' \in Outs \cup {None} /\ dstHeld' \in Outs \cup {None}
      BY <1>12, <1>q, HandTyped DEF DstSetupEnds, Enqueued, Drained
    <2>4. outBuf' \in Outs \cup {None}
      BY <1>12, <1>q, HandTyped DEF DstSetupEnds, Enqueued, Drained
    <2> QED
      BY <2>1, <2>2, <2>3, <2>4
  <1>13. CASE SrcOutputBufferProcess
    BY <1>13 DEF SrcOutputBufferProcess
  <1>14. CASE SrcOutputStarts
    BY <1>14 DEF SrcOutputStarts
  <1>15. CASE SrcOut
    BY <1>15 DEF SrcOut
  <1>16. CASE DstInputBufferProcess
    BY <1>16 DEF DstInputBufferProcess, Open
  <1>17. CASE OutputBufferGetQueue
    BY <1>17, <1>q, QueuesTyped DEF OutputBufferGetQueue
  <1>18. CASE DstInputProcess
    BY <1>18 DEF DstInputProcess
  <1>19. CASE DstInputStarts
    BY <1>19 DEF DstInputStarts
  <1>20. CASE DstOutputBufferProcess
    BY <1>20 DEF DstOutputBufferProcess
  <1>21. CASE DstOut
    <2>1. hold' \in BufferAndFrame
      BY <1>21 DEF DstOut, Garbage
    <2>2. inBuf' \in 0 .. NumFrames
      BY <1>21 DEF DstOut, Garbage
    <2>3. direct' \in Outs \cup {None} /\ dstHeld' \in Outs \cup {None}
      BY <1>21 DEF DstOut, Garbage
    <2>4. outBuf' \in Outs \cup {None}
      <3> DEFINE h == IF Head(mfcOut.done).header THEN Head(mfcOut.done).out ELSE None
      <3>1. outBuf' = None \/ (mfcOut.done # <<>> /\ outBuf' = h)
        BY <1>21, Zenon DEF DstOut, Garbage
      <3>2. mfcOut.done # <<>> => Head(mfcOut.done).out \in Outs
        BY <1>q, OutputTyped DEF Written
      <3> QED
        BY <3>1, <3>2
    <2> QED
      BY <2>1, <2>2, <2>3, <2>4
  <1>22. CASE EncodeHeader
    BY <1>22 DEF EncodeHeader
  <1>23. CASE Encode
    BY <1>23 DEF Encode
  <1>24. CASE FlushBegins
    BY <1>24 DEF FlushBegins, FlushWakes
  <1>25. CASE FlushStops
    BY <1>25 DEF FlushStops, Dry, Drained
  <1>26. CASE FlushEndsPort
    <2>1. hold' \in BufferAndFrame
      <3>1. hold' = hold \/ hold' = Free
        BY <1>26 DEF FlushEndsPort, FlushedIn, FlushedOut
      <3> QED
        BY <3>1, <1>q, HandTyped
    <2>2. inBuf' \in 0 .. NumFrames
      <3>1. inBuf' = inBuf \/ inBuf' = 0
        BY <1>26 DEF FlushEndsPort, FlushedIn, FlushedOut
      <3> QED
        BY <3>1, EncoderSizes
    <2>3. direct' \in Outs \cup {None} /\ dstHeld' \in Outs \cup {None}
      BY <1>26, <1>q, HandTyped DEF FlushEndsPort, FlushedIn, FlushedOut
    <2>4. outBuf' \in Outs \cup {None}
      BY <1>26, <1>q, HandTyped DEF FlushEndsPort, FlushedIn, FlushedOut
    <2> QED
      BY <2>1, <2>2, <2>3, <2>4
  <1>27. CASE Resumes
    BY <1>27 DEF Resumes
  <1>28. CASE BufferProcess_Terminate
    BY <1>28 DEF BufferProcess_Terminate, Joined, Dry, Drained
  <1>29. CASE UNCHANGED vars
    BY <1>29 DEF vars
  <1> QED
    BY <1>1, <1>2, <1>3, <1>4, <1>5, <1>6, <1>7, <1>8, <1>9, <1>10, <1>11, <1>12, <1>13, <1>14,
         <1>15, <1>16, <1>17, <1>18, <1>19, <1>20, <1>21, <1>22, <1>23, <1>24, <1>25, <1>26,
         <1>27, <1>28, <1>29 DEF Next, SrcInput, SrcOutput, DstInput, DstOutput, MFC, Command

\* ... the MFC's input ...
LEMMA InputTypeKept ==
    ASSUME IInv, ~EarlyFlush, [Next]_vars
    PROVE  InputType'
  <1>q. Contents
    BY DEF IInv, Control
  <1>h. pc["srcIn"] \in WithPicture => hold \in Jobs
    BY PictureInBuffer DEF IInv, Control
  <1> USE DEF IInv, Control, Contents, InputType, WithPicture, portVars, codecVars, setUp, told,
          Goes, Running, Ports, Threads
  <1>1. ASSUME NEW n \in Pictures, NEW last \in BOOLEAN, EmptyThisBuffer(n, last)
        PROVE  InputType'
    BY <1>1 DEF EmptyThisBuffer
  <1>2. ASSUME NEW o \in Outs, FillThisBuffer(o)
        PROVE  InputType'
    BY <1>2 DEF FillThisBuffer
  <1>3. CASE SrcInputBufferProcess
    BY <1>3 DEF SrcInputBufferProcess, Open, Preprocessor_InputData
  <1>4. CASE CodecBufferDeQueue
    BY <1>4 DEF CodecBufferDeQueue
  <1>5. CASE InputBufferGetQueue
    BY <1>5 DEF InputBufferGetQueue
  <1>6. CASE SrcInputRefused
    BY <1>6 DEF SrcInputRefused, Forgets
  <1>7. CASE SrcSetupEos
    BY <1>7 DEF SrcSetupEos, EosAlone, Forgets
  <1>8. CASE SrcSetupEosAnswered
    BY <1>8 DEF SrcSetupEosAnswered, Forgets
  <1>9. CASE SrcIn
    BY <1>9, <1>q, <1>h, InputTyped DEF SrcIn, EosAlone, Enqueued
  <1>10. CASE DstSetup
    BY <1>10, <1>q, <1>h, InputTyped DEF DstSetup, EosAlone, Enqueued
  <1>11. CASE DstSetupTakes
    BY <1>11, <1>q, <1>h, InputTyped DEF DstSetupTakes, Enqueued
  <1>12. CASE DstSetupEnds
    BY <1>12, <1>q, <1>h, InputTyped DEF DstSetupEnds, Enqueued, Drained
  <1>13. CASE SrcOutputBufferProcess
    BY <1>13 DEF SrcOutputBufferProcess
  <1>14. CASE SrcOutputStarts
    BY <1>14 DEF SrcOutputStarts
  <1>15. CASE SrcOut
    BY <1>15, <1>q, <1>h, InputTyped DEF SrcOut
  <1>16. CASE DstInputBufferProcess
    BY <1>16 DEF DstInputBufferProcess, Open
  <1>17. CASE OutputBufferGetQueue
    BY <1>17 DEF OutputBufferGetQueue
  <1>18. CASE DstInputProcess
    BY <1>18 DEF DstInputProcess
  <1>19. CASE DstInputStarts
    BY <1>19 DEF DstInputStarts
  <1>20. CASE DstOutputBufferProcess
    BY <1>20 DEF DstOutputBufferProcess
  <1>21. CASE DstOut
    BY <1>21 DEF DstOut, Garbage
  <1>22. CASE EncodeHeader
    BY <1>22 DEF EncodeHeader
  <1>23. CASE Encode
    BY <1>23, <1>q, <1>h, InputTyped DEF Encode
  <1>24. CASE FlushBegins
    BY <1>24 DEF FlushBegins, FlushWakes
  <1>25. CASE FlushStops
    <2>1. mfcIn' = mfcIn \/ mfcIn' = [on |-> FALSE, work |-> <<>>, done |-> <<>>]
      BY <1>25 DEF FlushStops, Dry, Drained
    <2>2. <<>> \in Seq(Jobs) /\ <<>> \in Seq(Codecs)
      BY EmptySeq
    <2>3. [on |-> FALSE, work |-> <<>>, done |-> <<>>]
             \in [on : BOOLEAN, work : Seq(Jobs), done : Seq(Codecs)]
      BY <2>2
    <2> QED
      BY <2>1, <2>3
  <1>26. CASE FlushEndsPort
    BY <1>26 DEF FlushEndsPort, FlushedIn, FlushedOut
  <1>27. CASE Resumes
    BY <1>27 DEF Resumes
  <1>28. CASE BufferProcess_Terminate
    BY <1>28, <1>q, <1>h, InputTyped DEF BufferProcess_Terminate, Joined, Dry, Drained
  <1>29. CASE UNCHANGED vars
    BY <1>29 DEF vars
  <1> QED
    BY <1>1, <1>2, <1>3, <1>4, <1>5, <1>6, <1>7, <1>8, <1>9, <1>10, <1>11, <1>12, <1>13, <1>14,
         <1>15, <1>16, <1>17, <1>18, <1>19, <1>20, <1>21, <1>22, <1>23, <1>24, <1>25, <1>26,
         <1>27, <1>28, <1>29 DEF Next, SrcInput, SrcOutput, DstInput, DstOutput, MFC, Command

\* ... and its output.
LEMMA OutputTypeKept ==
    ASSUME IInv, ~EarlyFlush, [Next]_vars
    PROVE  OutputType'
  <1>q. Contents
    BY DEF IInv, Control
  <1> USE DEF IInv, Control, Contents, OutputType, portVars, codecVars, setUp, told, Goes,
          Running, Ports, Threads
  <1>1. ASSUME NEW n \in Pictures, NEW last \in BOOLEAN, EmptyThisBuffer(n, last)
        PROVE  OutputType'
    BY <1>1 DEF EmptyThisBuffer
  <1>2. ASSUME NEW o \in Outs, FillThisBuffer(o)
        PROVE  OutputType'
    BY <1>2 DEF FillThisBuffer
  <1>3. CASE SrcInputBufferProcess
    BY <1>3 DEF SrcInputBufferProcess, Open, Preprocessor_InputData
  <1>4. CASE CodecBufferDeQueue
    BY <1>4 DEF CodecBufferDeQueue
  <1>5. CASE InputBufferGetQueue
    BY <1>5 DEF InputBufferGetQueue
  <1>6. CASE SrcInputRefused
    BY <1>6 DEF SrcInputRefused, Forgets
  <1>7. CASE SrcSetupEos
    BY <1>7 DEF SrcSetupEos, EosAlone, Forgets
  <1>8. CASE SrcSetupEosAnswered
    BY <1>8 DEF SrcSetupEosAnswered, Forgets
  <1>9. CASE SrcIn
    BY <1>9 DEF SrcIn, EosAlone, Enqueued
  <1>10. CASE DstSetup
    BY <1>10, <1>q, OutputTyped DEF DstSetup, EosAlone, Enqueued
  <1>11. CASE DstSetupTakes
    BY <1>11 DEF DstSetupTakes, Enqueued
  <1>12. CASE DstSetupEnds
    <2>1. mfcOut' = mfcOut \/ mfcOut' = Drained(mfcOut.headed)
      BY <1>12 DEF DstSetupEnds
    <2> QED
      BY <2>1, OutputStopped
  <1>13. CASE SrcOutputBufferProcess
    BY <1>13 DEF SrcOutputBufferProcess
  <1>14. CASE SrcOutputStarts
    BY <1>14 DEF SrcOutputStarts
  <1>15. CASE SrcOut
    BY <1>15 DEF SrcOut
  <1>16. CASE DstInputBufferProcess
    BY <1>16 DEF DstInputBufferProcess, Open
  <1>17. CASE OutputBufferGetQueue
    BY <1>17 DEF OutputBufferGetQueue
  <1>18. CASE DstInputProcess
    <2>1. dstHeld \in Outs
      BY <1>18 DEF DstInputProcess, Holding, HandTypes
    <2>2. \/ mfcOut' = mfcOut
          \/ mfcOut' = [mfcOut EXCEPT !.on = TRUE,
                           !.work = Append(@, [out |-> dstHeld, header |-> TRUE])]
      BY <1>18 DEF DstInputProcess
    <2> QED
      BY <1>q, <2>1, <2>2, OutputGiven
  <1>19. CASE DstInputStarts
    <2>1. dstHeld \in Outs
      BY <1>19 DEF DstInputStarts, Holding, HandTypes
    <2>2. \/ mfcOut' = mfcOut
          \/ mfcOut' = [mfcOut EXCEPT !.on = TRUE,
                           !.work = Append(@, [out |-> dstHeld, header |-> TRUE])]
      BY <1>19 DEF DstInputStarts
    <2> QED
      BY <1>q, <2>1, <2>2, OutputGiven
  <1>20. CASE DstOutputBufferProcess
    BY <1>20 DEF DstOutputBufferProcess
  <1>21. CASE DstOut
    BY <1>21, <1>q, OutputTyped DEF DstOut, Garbage
  <1>22. CASE EncodeHeader
    <2>1. 0 \in 0 .. NumFrames
      BY EncoderSizes
    <2> QED
      BY <1>22, <1>q, <2>1, OutputWritten DEF EncodeHeader
  <1>23. CASE Encode
    <2>1. Head(mfcIn.work).frame \in 0 .. NumFrames /\ mfcOut.work # <<>>
      BY <1>23, <1>q, InputTyped DEF Encode, Pictures
    <2> QED
      BY <1>23, <1>q, <2>1, OutputWritten DEF Encode
  <1>24. CASE FlushBegins
    BY <1>24 DEF FlushBegins, FlushWakes
  <1>25. CASE FlushStops
    <2>1. mfcOut' = mfcOut \/ mfcOut' = Drained(mfcOut.headed)
      BY <1>25 DEF FlushStops
    <2> QED
      BY <2>1, OutputStopped
  <1>26. CASE FlushEndsPort
    BY <1>26 DEF FlushEndsPort, FlushedIn, FlushedOut
  <1>27. CASE Resumes
    BY <1>27 DEF Resumes
  <1>28. CASE BufferProcess_Terminate
    BY <1>28, <1>q, OutputTyped DEF BufferProcess_Terminate, Joined, Dry, Drained
  <1>29. CASE UNCHANGED vars
    BY <1>29 DEF vars
  <1> QED
    BY <1>1, <1>2, <1>3, <1>4, <1>5, <1>6, <1>7, <1>8, <1>9, <1>10, <1>11, <1>12, <1>13, <1>14,
         <1>15, <1>16, <1>17, <1>18, <1>19, <1>20, <1>21, <1>22, <1>23, <1>24, <1>25, <1>26,
         <1>27, <1>28, <1>29 DEF Next, SrcInput, SrcOutput, DstInput, DstOutput, MFC, Command

\* Before the stream runs nothing else does: no command, no thread past its start.
LEMMA BegunKept ==
    ASSUME IInv, ~EarlyFlush, [Next]_vars
    PROVE  Begun'
  <1>q. Contents
    BY DEF IInv, Control
  <1> USE DEF IInv, Control, Types, CommandTypes, FlagTypes, PictureTypes, Places, SrcInPlaces,
          Commands, AtWork, Begun, Holding, WithPicture, PlaceTypes, AllPlaces, portVars,
          codecVars, setUp, told, Goes, Running, Ports, Threads
  <1>1. ASSUME NEW n \in Pictures, NEW last \in BOOLEAN, EmptyThisBuffer(n, last)
        PROVE  Begun'
    BY <1>1 DEF EmptyThisBuffer
  <1>2. ASSUME NEW o \in Outs, FillThisBuffer(o)
        PROVE  Begun'
    BY <1>2 DEF FillThisBuffer
  <1>3. CASE SrcInputBufferProcess
    BY <1>3 DEF SrcInputBufferProcess, Open, Preprocessor_InputData
  <1>4. CASE CodecBufferDeQueue
    BY <1>4 DEF CodecBufferDeQueue
  <1>5. CASE InputBufferGetQueue
    BY <1>5 DEF InputBufferGetQueue
  <1>6. CASE SrcInputRefused
    BY <1>6 DEF SrcInputRefused, Forgets
  <1>7. CASE SrcSetupEos
    BY <1>7 DEF SrcSetupEos, EosAlone, Forgets, Pictures
  <1>8. CASE SrcSetupEosAnswered
    BY <1>8 DEF SrcSetupEosAnswered, Forgets
  <1>9. CASE SrcIn
    BY <1>9 DEF SrcIn, EosAlone, Enqueued
  <1>10. CASE DstSetup
    BY <1>10 DEF DstSetup, EosAlone, Enqueued, Pictures
  <1>11. CASE DstSetupTakes
    <2>1. sem["out"] = Len(queue["out"]) /\ ~started
      BY <1>11 DEF DstSetupTakes, Enqueued, Permits, PermitsOf
    <2>2. queue["out"] # <<>>
      BY <1>11, <2>1, <1>q, QueuesTyped DEF DstSetupTakes
    <2> QED
      BY <1>11, <2>2 DEF DstSetupTakes
  <1>12. CASE DstSetupEnds
    BY <1>12 DEF DstSetupEnds, Enqueued, Drained
  <1>13. CASE SrcOutputBufferProcess
    BY <1>13 DEF SrcOutputBufferProcess
  <1>14. CASE SrcOutputStarts
    BY <1>14 DEF SrcOutputStarts
  <1>15. CASE SrcOut
    BY <1>15 DEF SrcOut
  <1>16. CASE DstInputBufferProcess
    BY <1>16 DEF DstInputBufferProcess, Open
  <1>17. CASE OutputBufferGetQueue
    BY <1>17 DEF OutputBufferGetQueue
  <1>18. CASE DstInputProcess
    <2>1. /\ mfcOut'.done = mfcOut.done /\ mfcOut'.headed = mfcOut.headed
          /\ mfcOut.on => mfcOut'.on
      <3>1. \/ mfcOut' = mfcOut
            \/ \E w : mfcOut' = [mfcOut EXCEPT !.on = TRUE, !.work = w]
        BY <1>18 DEF DstInputProcess
      <3>2. OutputType
        BY DEF Contents
      <3> QED
        BY ONLY <3>1, <3>2 DEF OutputType
    <2> QED
      BY <1>18, <2>1 DEF DstInputProcess
  <1>19. CASE DstInputStarts
    BY <1>19 DEF DstInputStarts
  <1>20. CASE DstOutputBufferProcess
    BY <1>20 DEF DstOutputBufferProcess
  <1>21. CASE DstOut
    <2>1. /\ mfcOut'.headed = mfcOut.headed /\ mfcOut'.on = mfcOut.on
          /\ mfcOut'.done # <<>> => mfcOut.done # <<>>
      BY <1>21 DEF DstOut, Garbage, Contents, OutputType
    <2>2. stamp' = stamp \/ stamp' = [set |-> FALSE, check |-> FALSE, start |-> 0]
      BY <1>21 DEF DstOut, Garbage
    <2>3. /\ UNCHANGED <<single, mode, ctl, event, started, configured, eos>>
          /\ pc' = [pc EXCEPT !["dstOut"] = "top"]
      BY <1>21 DEF DstOut, Garbage
    <2> QED
      BY <2>1, <2>2, <2>3
  <1>22. CASE EncodeHeader
    BY <1>22, <1>q, OutputTyped DEF EncodeHeader
  <1>23. CASE Encode
    BY <1>23, <1>q, OutputTyped DEF Encode
  <1>24. CASE FlushBegins
    BY <1>24 DEF FlushBegins, FlushWakes
  <1>25. CASE FlushStops
    BY <1>25 DEF FlushStops, Dry, Drained
  <1>26. CASE FlushEndsPort
    BY <1>26 DEF FlushEndsPort, FlushedIn, FlushedOut
  <1>27. CASE Resumes
    BY <1>27 DEF Resumes
  <1>28. CASE BufferProcess_Terminate
    BY <1>28 DEF BufferProcess_Terminate, Joined, Dry, Drained
  <1>29. CASE UNCHANGED vars
    BY <1>29 DEF vars
  <1> QED
    BY <1>1, <1>2, <1>3, <1>4, <1>5, <1>6, <1>7, <1>8, <1>9, <1>10, <1>11, <1>12, <1>13, <1>14,
         <1>15, <1>16, <1>17, <1>18, <1>19, <1>20, <1>21, <1>22, <1>23, <1>24, <1>25, <1>26,
         <1>27, <1>28, <1>29 DEF Next, SrcInput, SrcOutput, DstInput, DstOutput, MFC, Command

\* What a thread has in its hands fits its place.
LEMMA HoldingKept ==
    ASSUME IInv, ~EarlyFlush, [Next]_vars
    PROVE  Holding'
  <1>q. Contents
    BY DEF IInv, Control
  <1> USE DEF IInv, Control, Types, CommandTypes, FlagTypes, Places, SrcInPlaces, Contents,
          HandTypes, BufferAndFrame, Commands, AtWork, Holding, WithPicture, Free, Pictures,
          PlaceTypes, AllPlaces, Locked, portVars, codecVars, setUp, told, Goes, Running, Ports,
          Threads
  <1>1. ASSUME NEW n \in Pictures, NEW last \in BOOLEAN, EmptyThisBuffer(n, last)
        PROVE  Holding'
    BY <1>1 DEF EmptyThisBuffer
  <1>2. ASSUME NEW o \in Outs, FillThisBuffer(o)
        PROVE  Holding'
    BY <1>2 DEF FillThisBuffer
  <1>3. CASE SrcInputBufferProcess
    BY <1>3 DEF SrcInputBufferProcess, Open, Preprocessor_InputData
  <1>4. CASE CodecBufferDeQueue
    BY <1>4, <1>q, QueuesTyped, EncoderSizes DEF CodecBufferDeQueue
  <1>5. CASE InputBufferGetQueue
    BY <1>5, <1>q, QueuesTyped, EncoderSizes DEF InputBufferGetQueue
  <1>6. CASE SrcInputRefused
    BY <1>6 DEF SrcInputRefused, Forgets
  <1>7. CASE SrcSetupEos
    BY <1>7 DEF SrcSetupEos, EosAlone, Forgets
  <1>8. CASE SrcSetupEosAnswered
    BY <1>8 DEF SrcSetupEosAnswered, Forgets
  <1>9. CASE SrcIn
    BY <1>9 DEF SrcIn, EosAlone, Enqueued
  <1>10. CASE DstSetup
    BY <1>10 DEF DstSetup, EosAlone, Enqueued
  <1>11. CASE DstSetupTakes
    BY <1>11, <1>q, QueuesTyped, EncoderSizes DEF DstSetupTakes, Enqueued
  <1>12. CASE DstSetupEnds
    BY <1>12 DEF DstSetupEnds, Enqueued, Drained
  <1>13. CASE SrcOutputBufferProcess
    BY <1>13 DEF SrcOutputBufferProcess
  <1>14. CASE SrcOutputStarts
    BY <1>14 DEF SrcOutputStarts
  <1>15. CASE SrcOut
    BY <1>15 DEF SrcOut
  <1>16. CASE DstInputBufferProcess
    BY <1>16 DEF DstInputBufferProcess, Open
  <1>17. CASE OutputBufferGetQueue
    BY <1>17, <1>q, QueuesTyped, EncoderSizes DEF OutputBufferGetQueue
  <1>18. CASE DstInputProcess
    BY <1>18 DEF DstInputProcess
  <1>19. CASE DstInputStarts
    BY <1>19 DEF DstInputStarts
  <1>20. CASE DstOutputBufferProcess
    BY <1>20 DEF DstOutputBufferProcess
  <1>21. CASE DstOut
    BY <1>21 DEF DstOut, Garbage
  <1>22. CASE EncodeHeader
    BY <1>22 DEF EncodeHeader
  <1>23. CASE Encode
    BY <1>23 DEF Encode
  <1>24. CASE FlushBegins
    BY <1>24 DEF FlushBegins, FlushWakes
  <1>25. CASE FlushStops
    BY <1>25 DEF FlushStops, Dry, Drained
  <1>26. CASE FlushEndsPort
    BY <1>26 DEF FlushEndsPort, FlushedIn, FlushedOut
  <1>27. CASE Resumes
    BY <1>27 DEF Resumes
  <1>28. CASE BufferProcess_Terminate
    BY <1>28 DEF BufferProcess_Terminate, Joined, Dry, Drained
  <1>29. CASE UNCHANGED vars
    BY <1>29 DEF vars
  <1> QED
    BY <1>1, <1>2, <1>3, <1>4, <1>5, <1>6, <1>7, <1>8, <1>9, <1>10, <1>11, <1>12, <1>13, <1>14,
         <1>15, <1>16, <1>17, <1>18, <1>19, <1>20, <1>21, <1>22, <1>23, <1>24, <1>25, <1>26,
         <1>27, <1>28, <1>29 DEF Next, SrcInput, SrcOutput, DstInput, DstOutput, MFC, Command

\* Between the stop of a stream and the end of its flush the MFC stays empty.
LEMMA LockedKept ==
    ASSUME IInv, ~EarlyFlush, [Next]_vars
    PROVE  Locked'
  <1>q. Contents
    BY DEF IInv, Control
  <1> USE DEF IInv, Control, Types, CommandTypes, FlagTypes, Places, SrcInPlaces, Contents,
          InputType, OutputType, Commands, AtWork, Begun, Locked, Dry, PlaceTypes, AllPlaces,
          portVars, codecVars, setUp, told, Goes, Running, Ports, Threads
  <1>1. ASSUME NEW n \in Pictures, NEW last \in BOOLEAN, EmptyThisBuffer(n, last)
        PROVE  Locked'
    BY <1>1 DEF EmptyThisBuffer
  <1>2. ASSUME NEW o \in Outs, FillThisBuffer(o)
        PROVE  Locked'
    BY <1>2 DEF FillThisBuffer
  <1>3. CASE SrcInputBufferProcess
    BY <1>3 DEF SrcInputBufferProcess, Open, Preprocessor_InputData
  <1>4. CASE CodecBufferDeQueue
    BY <1>4 DEF CodecBufferDeQueue
  <1>5. CASE InputBufferGetQueue
    BY <1>5 DEF InputBufferGetQueue
  <1>6. CASE SrcInputRefused
    BY <1>6 DEF SrcInputRefused, Forgets
  <1>7. CASE SrcSetupEos
    BY <1>7 DEF SrcSetupEos, EosAlone, Forgets
  <1>8. CASE SrcSetupEosAnswered
    BY <1>8 DEF SrcSetupEosAnswered, Forgets
  <1>9. CASE SrcIn
    BY <1>9 DEF SrcIn, EosAlone, Enqueued
  <1>10. CASE DstSetup
    BY <1>10 DEF DstSetup, EosAlone, Enqueued
  <1>11. CASE DstSetupTakes
    BY <1>11 DEF DstSetupTakes, Enqueued
  <1>12. CASE DstSetupEnds
    BY <1>12 DEF DstSetupEnds, Enqueued, Drained
  <1>13. CASE SrcOutputBufferProcess
    BY <1>13 DEF SrcOutputBufferProcess
  <1>14. CASE SrcOutputStarts
    BY <1>14 DEF SrcOutputStarts
  <1>15. CASE SrcOut
    BY <1>15 DEF SrcOut
  <1>16. CASE DstInputBufferProcess
    BY <1>16 DEF DstInputBufferProcess, Open
  <1>17. CASE OutputBufferGetQueue
    BY <1>17 DEF OutputBufferGetQueue
  <1>18. CASE DstInputProcess
    BY <1>18 DEF DstInputProcess
  <1>19. CASE DstInputStarts
    BY <1>19 DEF DstInputStarts
  <1>20. CASE DstOutputBufferProcess
    BY <1>20 DEF DstOutputBufferProcess
  <1>21. CASE DstOut
    BY <1>21 DEF DstOut, Garbage
  <1>22. CASE EncodeHeader
    BY <1>22 DEF EncodeHeader
  <1>23. CASE Encode
    BY <1>23 DEF Encode
  <1>24. CASE FlushBegins
    BY <1>24 DEF FlushBegins, FlushWakes
  <1>25. CASE FlushStops
    BY <1>25 DEF FlushStops, Dry, Drained
  <1>26. CASE FlushEndsPort
    <2>1. UNCHANGED <<pc, mfcIn, mfcOut>> /\ ctl'.at # "stopped"
      BY <1>26, ZenonT(30) DEF FlushEndsPort
    <2>2. CASE ctl.port = "in"
      <3>1. pc["srcIn"] = "top" /\ mfcIn = Dry
        BY <1>26, <2>2 DEF FlushEndsPort
      <3> QED
        BY <2>1, <3>1
    <2>3. CASE ctl.port = "out"
      <3>1. ~flushing["in"] /\ (mode' # "executing" => mode # "executing")
        BY <1>26, <2>3 DEF FlushEndsPort
      <3> QED
        BY <2>1, <3>1
    <2> QED
      BY <2>2, <2>3
  <1>27. CASE Resumes
    BY <1>27 DEF Resumes
  <1>28. CASE BufferProcess_Terminate
    BY <1>28 DEF BufferProcess_Terminate, Joined, Dry, Drained
  <1>29. CASE UNCHANGED vars
    BY <1>29 DEF vars
  <1> QED
    BY <1>1, <1>2, <1>3, <1>4, <1>5, <1>6, <1>7, <1>8, <1>9, <1>10, <1>11, <1>12, <1>13, <1>14,
         <1>15, <1>16, <1>17, <1>18, <1>19, <1>20, <1>21, <1>22, <1>23, <1>24, <1>25, <1>26,
         <1>27, <1>28, <1>29 DEF Next, SrcInput, SrcOutput, DstInput, DstOutput, MFC, Command

-----------------------------------------------------------------------------
(* Permits, codec buffers and the client's room.                              *)

\* The lengths of the queues, before and after one element goes in or out.
LEMMA Lengths ==
    ASSUME Contents
    PROVE  /\ Len(queue["in"]) \in Nat /\ Len(queue["out"]) \in Nat /\ Len(codecQ) \in Nat
           /\ IF queue["in"] = <<>> THEN Len(queue["in"]) = 0
              ELSE Len(queue["in"]) > 0 /\ Len(Tail(queue["in"])) = Len(queue["in"]) - 1
           /\ IF queue["out"] = <<>> THEN Len(queue["out"]) = 0
              ELSE Len(queue["out"]) > 0 /\ Len(Tail(queue["out"])) = Len(queue["out"]) - 1
           /\ IF codecQ = <<>> THEN Len(codecQ) = 0
              ELSE Len(codecQ) > 0 /\ Len(Tail(codecQ)) = Len(codecQ) - 1
           /\ \A n \in Pictures : Len(Append(queue["in"], n)) = Len(queue["in"]) + 1
           /\ \A o \in Outs : Len(Append(queue["out"], o)) = Len(queue["out"]) + 1
           /\ \A c \in Codecs : Len(Append(codecQ, c)) = Len(codecQ) + 1
           /\ Len(<<>>) = 0
           /\ Len(SetToSeq(Codecs)) = Cardinality(Codecs) /\ Cardinality(Codecs) \in Nat
  <1>1. queue["in"] \in Seq(Pictures) /\ queue["out"] \in Seq(Outs) /\ codecQ \in Seq(Codecs)
    BY DEF Contents, QueueTypes
  <1>2. /\ Len(queue["in"]) \in Nat /\ Len(queue["out"]) \in Nat /\ Len(codecQ) \in Nat
        /\ queue["in"] = <<>> => Len(queue["in"]) = 0
        /\ queue["out"] = <<>> => Len(queue["out"]) = 0
        /\ codecQ = <<>> => Len(codecQ) = 0
    BY <1>1, EmptySeq, LenProperties
  <1>3. queue["in"] # <<>> =>
           (Len(queue["in"]) > 0 /\ Len(Tail(queue["in"])) = Len(queue["in"]) - 1)
    BY <1>1, TakenFrom
  <1>4. queue["out"] # <<>> =>
           (Len(queue["out"]) > 0 /\ Len(Tail(queue["out"])) = Len(queue["out"]) - 1)
    BY <1>1, TakenFrom
  <1>5. codecQ # <<>> => (Len(codecQ) > 0 /\ Len(Tail(codecQ)) = Len(codecQ) - 1)
    BY <1>1, TakenFrom
  <1>6. /\ \A n \in Pictures : Len(Append(queue["in"], n)) = Len(queue["in"]) + 1
        /\ \A o \in Outs : Len(Append(queue["out"], o)) = Len(queue["out"]) + 1
        /\ \A c \in Codecs : Len(Append(codecQ, c)) = Len(codecQ) + 1
    BY <1>1, PutInto
  <1>7. Len(<<>>) = 0
    BY EmptySeq
  <1>8. Len(SetToSeq(Codecs)) = Cardinality(Codecs) /\ Cardinality(Codecs) \in Nat
    BY EncoderSizes, SetToSeqOf
  <1> QED
    BY <1>2, <1>3, <1>4, <1>5, <1>6, <1>7, <1>8

\* A thread that waits for a buffer of a port takes one permit, and with it the
\* first buffer of the queue if there is one.
LEMMA OneTaken ==
    ASSUME NEW p \in Ports, IInv, sem[p] > 0, sem' = [sem EXCEPT ![p] = @ - 1],
           flushing' = flushing,
           IF queue[p] = <<>> THEN queue' = queue
           ELSE queue' = [queue EXCEPT ![p] = Tail(@)]
    PROVE  PermitsOf(p)'
  <1>1. Contents /\ Types /\ PermitsOf(p)
    BY DEF IInv, Control, Permits, Ports
  <1>2. /\ Len(queue[p]) \in Nat
        /\ IF queue[p] = <<>> THEN Len(queue[p]) = 0
           ELSE Len(Tail(queue[p])) = Len(queue[p]) - 1
    BY <1>1, Lengths DEF Ports
  <1>3. /\ p \in DOMAIN queue /\ p \in DOMAIN sem /\ sem[p] \in Int
    BY <1>1 DEF Types, CommandTypes, Contents, QueueTypes, Ports
  <1>4. sem'[p] = sem[p] - 1 /\ flushing'[p] = flushing[p]
    BY <1>3
  <1>5. CASE queue[p] = <<>>
    <2>1. queue'[p] = queue[p] /\ sem[p] > 0
      BY <1>5
    <2> QED
      BY ONLY <1>1, <1>2, <1>3, <1>4, <1>5, <2>1 DEF PermitsOf
  <1>6. CASE queue[p] # <<>>
    <2>1. queue'[p] = Tail(queue[p])
      BY <1>3, <1>6
    <2> QED
      BY ONLY <1>1, <1>2, <1>3, <1>4, <1>6, <2>1 DEF PermitsOf
  <1> QED
    BY ONLY <1>5, <1>6

\* A picture is announced once, and a flush announces none that is not there, of the input ...
LEMMA PermitsInKept ==
    ASSUME IInv, ~EarlyFlush, [Next]_vars
    PROVE  PermitsOf("in")'
  <1>q. Contents
    BY DEF IInv, Control
  <1> USE DEF IInv, Control, Types, CommandTypes, FlagTypes, Contents, QueueTypes, Commands,
          AtWork, Permits, PermitsOf, portVars, codecVars, setUp, told, Goes, Running, Ports,
          Threads
  <1>1. ASSUME NEW n \in Pictures, NEW last \in BOOLEAN, EmptyThisBuffer(n, last)
        PROVE  PermitsOf("in")'
    BY <1>1, <1>q, Lengths DEF EmptyThisBuffer
  <1>2. ASSUME NEW o \in Outs, FillThisBuffer(o)
        PROVE  PermitsOf("in")'
    BY <1>2 DEF FillThisBuffer
  <1>3. CASE SrcInputBufferProcess
    BY <1>3 DEF SrcInputBufferProcess, Open, Preprocessor_InputData
  <1>4. CASE CodecBufferDeQueue
    BY <1>4 DEF CodecBufferDeQueue
  <1>5. CASE InputBufferGetQueue
    <2>1. /\ sem["in"] > 0 /\ sem' = [sem EXCEPT !["in"] = @ - 1] /\ flushing' = flushing
          /\ IF queue["in"] = <<>> THEN queue' = queue
             ELSE queue' = [queue EXCEPT !["in"] = Tail(@)]
      BY ONLY <1>5 DEF InputBufferGetQueue
    <2>2. "in" \in Ports /\ IInv
      BY DEF Ports
    <2> QED
      BY ONLY <2>1, <2>2, OneTaken
  <1>6. CASE SrcInputRefused
    BY <1>6 DEF SrcInputRefused, Forgets
  <1>7. CASE SrcSetupEos
    BY <1>7 DEF SrcSetupEos, EosAlone, Forgets
  <1>8. CASE SrcSetupEosAnswered
    BY <1>8 DEF SrcSetupEosAnswered, Forgets
  <1>9. CASE SrcIn
    BY <1>9 DEF SrcIn, EosAlone, Enqueued
  <1>10. CASE DstSetup
    BY <1>10 DEF DstSetup, EosAlone, Enqueued
  <1>11. CASE DstSetupTakes
    BY <1>11 DEF DstSetupTakes, Enqueued
  <1>12. CASE DstSetupEnds
    BY <1>12 DEF DstSetupEnds, Enqueued, Drained
  <1>13. CASE SrcOutputBufferProcess
    BY <1>13 DEF SrcOutputBufferProcess
  <1>14. CASE SrcOutputStarts
    BY <1>14 DEF SrcOutputStarts
  <1>15. CASE SrcOut
    BY <1>15 DEF SrcOut
  <1>16. CASE DstInputBufferProcess
    BY <1>16 DEF DstInputBufferProcess, Open
  <1>17. CASE OutputBufferGetQueue
    BY <1>17 DEF OutputBufferGetQueue
  <1>18. CASE DstInputProcess
    BY <1>18 DEF DstInputProcess
  <1>19. CASE DstInputStarts
    BY <1>19 DEF DstInputStarts
  <1>20. CASE DstOutputBufferProcess
    BY <1>20 DEF DstOutputBufferProcess
  <1>21. CASE DstOut
    BY <1>21 DEF DstOut, Garbage
  <1>22. CASE EncodeHeader
    BY <1>22 DEF EncodeHeader
  <1>23. CASE Encode
    BY <1>23 DEF Encode
  <1>24. CASE FlushBegins
    BY <1>24, <1>q, Lengths DEF FlushBegins, FlushWakes
  <1>25. CASE FlushStops
    BY <1>25 DEF FlushStops, Dry, Drained
  <1>26. CASE FlushEndsPort
    BY <1>26, <1>q, Lengths DEF FlushEndsPort, FlushedIn, FlushedOut
  <1>27. CASE Resumes
    BY <1>27 DEF Resumes
  <1>28. CASE BufferProcess_Terminate
    BY <1>28 DEF BufferProcess_Terminate, Joined, Dry, Drained
  <1>29. CASE UNCHANGED vars
    BY <1>29 DEF vars
  <1> QED
    BY <1>1, <1>2, <1>3, <1>4, <1>5, <1>6, <1>7, <1>8, <1>9, <1>10, <1>11, <1>12, <1>13, <1>14,
         <1>15, <1>16, <1>17, <1>18, <1>19, <1>20, <1>21, <1>22, <1>23, <1>24, <1>25, <1>26,
         <1>27, <1>28, <1>29 DEF Next, SrcInput, SrcOutput, DstInput, DstOutput, MFC, Command

\* ... and of the output, ...
LEMMA PermitsOutKept ==
    ASSUME IInv, ~EarlyFlush, [Next]_vars
    PROVE  PermitsOf("out")'
  <1>q. Contents
    BY DEF IInv, Control
  <1> USE DEF IInv, Control, Types, CommandTypes, FlagTypes, Contents, QueueTypes, Commands,
          AtWork, Permits, PermitsOf, portVars, codecVars, setUp, told, Goes, Running, Ports,
          Threads
  <1>1. ASSUME NEW n \in Pictures, NEW last \in BOOLEAN, EmptyThisBuffer(n, last)
        PROVE  PermitsOf("out")'
    BY <1>1 DEF EmptyThisBuffer
  <1>2. ASSUME NEW o \in Outs, FillThisBuffer(o)
        PROVE  PermitsOf("out")'
    BY <1>2, <1>q, Lengths DEF FillThisBuffer
  <1>3. CASE SrcInputBufferProcess
    BY <1>3 DEF SrcInputBufferProcess, Open, Preprocessor_InputData
  <1>4. CASE CodecBufferDeQueue
    BY <1>4 DEF CodecBufferDeQueue
  <1>5. CASE InputBufferGetQueue
    BY <1>5 DEF InputBufferGetQueue
  <1>6. CASE SrcInputRefused
    BY <1>6 DEF SrcInputRefused, Forgets
  <1>7. CASE SrcSetupEos
    BY <1>7 DEF SrcSetupEos, EosAlone, Forgets
  <1>8. CASE SrcSetupEosAnswered
    <2>1. /\ sem["out"] > 0 /\ sem' = [sem EXCEPT !["out"] = @ - 1] /\ flushing' = flushing
          /\ IF queue["out"] = <<>> THEN queue' = queue
             ELSE queue' = [queue EXCEPT !["out"] = Tail(@)]
      BY ONLY <1>8 DEF SrcSetupEosAnswered
    <2>2. "out" \in Ports /\ IInv
      BY DEF Ports
    <2> QED
      BY ONLY <2>1, <2>2, OneTaken
  <1>9. CASE SrcIn
    BY <1>9 DEF SrcIn, EosAlone, Enqueued
  <1>10. CASE DstSetup
    BY <1>10 DEF DstSetup, EosAlone, Enqueued
  <1>11. CASE DstSetupTakes
    <2>1. /\ sem["out"] > 0 /\ sem' = [sem EXCEPT !["out"] = @ - 1] /\ flushing' = flushing
          /\ IF queue["out"] = <<>> THEN queue' = queue
             ELSE queue' = [queue EXCEPT !["out"] = Tail(@)]
      BY ONLY <1>11 DEF DstSetupTakes
    <2>2. "out" \in Ports /\ IInv
      BY DEF Ports
    <2> QED
      BY ONLY <2>1, <2>2, OneTaken
  <1>12. CASE DstSetupEnds
    BY <1>12 DEF DstSetupEnds, Enqueued, Drained
  <1>13. CASE SrcOutputBufferProcess
    BY <1>13 DEF SrcOutputBufferProcess
  <1>14. CASE SrcOutputStarts
    BY <1>14 DEF SrcOutputStarts
  <1>15. CASE SrcOut
    BY <1>15 DEF SrcOut
  <1>16. CASE DstInputBufferProcess
    BY <1>16 DEF DstInputBufferProcess, Open
  <1>17. CASE OutputBufferGetQueue
    <2>1. /\ sem["out"] > 0 /\ sem' = [sem EXCEPT !["out"] = @ - 1] /\ flushing' = flushing
          /\ IF queue["out"] = <<>> THEN queue' = queue
             ELSE queue' = [queue EXCEPT !["out"] = Tail(@)]
      BY ONLY <1>17 DEF OutputBufferGetQueue
    <2>2. "out" \in Ports /\ IInv
      BY DEF Ports
    <2> QED
      BY ONLY <2>1, <2>2, OneTaken
  <1>18. CASE DstInputProcess
    BY <1>18 DEF DstInputProcess
  <1>19. CASE DstInputStarts
    BY <1>19 DEF DstInputStarts
  <1>20. CASE DstOutputBufferProcess
    BY <1>20 DEF DstOutputBufferProcess
  <1>21. CASE DstOut
    BY <1>21 DEF DstOut, Garbage
  <1>22. CASE EncodeHeader
    BY <1>22 DEF EncodeHeader
  <1>23. CASE Encode
    BY <1>23 DEF Encode
  <1>24. CASE FlushBegins
    BY <1>24, <1>q, Lengths DEF FlushBegins, FlushWakes
  <1>25. CASE FlushStops
    BY <1>25 DEF FlushStops, Dry, Drained
  <1>26. CASE FlushEndsPort
    BY <1>26, <1>q, Lengths DEF FlushEndsPort, FlushedIn, FlushedOut
  <1>27. CASE Resumes
    BY <1>27 DEF Resumes
  <1>28. CASE BufferProcess_Terminate
    BY <1>28 DEF BufferProcess_Terminate, Joined, Dry, Drained
  <1>29. CASE UNCHANGED vars
    BY <1>29 DEF vars
  <1> QED
    BY <1>1, <1>2, <1>3, <1>4, <1>5, <1>6, <1>7, <1>8, <1>9, <1>10, <1>11, <1>12, <1>13, <1>14,
         <1>15, <1>16, <1>17, <1>18, <1>19, <1>20, <1>21, <1>22, <1>23, <1>24, <1>25, <1>26,
         <1>27, <1>28, <1>29 DEF Next, SrcInput, SrcOutput, DstInput, DstOutput, MFC, Command

\* ... and so it is with the codec buffers.
LEMMA CodecPermitsKept ==
    ASSUME IInv, ~EarlyFlush, [Next]_vars
    PROVE  CodecPermits'
  <1>q. Contents
    BY DEF IInv, Control
  <1> USE DEF IInv, Control, Types, CommandTypes, FlagTypes, Contents, QueueTypes, Commands,
          AtWork, Begun, Permits, CodecPermits, portVars, codecVars, setUp, told, Goes, Running,
          Ports, Threads
  <1>1. ASSUME NEW n \in Pictures, NEW last \in BOOLEAN, EmptyThisBuffer(n, last)
        PROVE  CodecPermits'
    BY <1>1 DEF EmptyThisBuffer
  <1>2. ASSUME NEW o \in Outs, FillThisBuffer(o)
        PROVE  CodecPermits'
    BY <1>2 DEF FillThisBuffer
  <1>3. CASE SrcInputBufferProcess
    BY <1>3 DEF SrcInputBufferProcess, Open, Preprocessor_InputData
  <1>4. CASE CodecBufferDeQueue
    BY <1>4, <1>q, Lengths DEF CodecBufferDeQueue
  <1>5. CASE InputBufferGetQueue
    BY <1>5 DEF InputBufferGetQueue
  <1>6. CASE SrcInputRefused
    BY <1>6 DEF SrcInputRefused, Forgets
  <1>7. CASE SrcSetupEos
    BY <1>7 DEF SrcSetupEos, EosAlone, Forgets
  <1>8. CASE SrcSetupEosAnswered
    BY <1>8 DEF SrcSetupEosAnswered, Forgets
  <1>9. CASE SrcIn
    BY <1>9 DEF SrcIn, EosAlone, Enqueued
  <1>10. CASE DstSetup
    BY <1>10 DEF DstSetup, EosAlone, Enqueued
  <1>11. CASE DstSetupTakes
    BY <1>11 DEF DstSetupTakes, Enqueued
  <1>12. CASE DstSetupEnds
    BY <1>12 DEF DstSetupEnds, Enqueued, Drained
  <1>13. CASE SrcOutputBufferProcess
    BY <1>13 DEF SrcOutputBufferProcess
  <1>14. CASE SrcOutputStarts
    BY <1>14 DEF SrcOutputStarts
  <1>15. CASE SrcOut
    BY <1>15, <1>q, Lengths, InputTyped DEF SrcOut
  <1>16. CASE DstInputBufferProcess
    BY <1>16 DEF DstInputBufferProcess, Open
  <1>17. CASE OutputBufferGetQueue
    BY <1>17 DEF OutputBufferGetQueue
  <1>18. CASE DstInputProcess
    BY <1>18 DEF DstInputProcess
  <1>19. CASE DstInputStarts
    BY <1>19 DEF DstInputStarts
  <1>20. CASE DstOutputBufferProcess
    BY <1>20 DEF DstOutputBufferProcess
  <1>21. CASE DstOut
    BY <1>21 DEF DstOut, Garbage
  <1>22. CASE EncodeHeader
    BY <1>22 DEF EncodeHeader
  <1>23. CASE Encode
    BY <1>23 DEF Encode
  <1>24. CASE FlushBegins
    BY <1>24, <1>q, Lengths DEF FlushBegins, FlushWakes
  <1>25. CASE FlushStops
    BY <1>25 DEF FlushStops, Dry, Drained
  <1>26. CASE FlushEndsPort
    BY <1>26, <1>q, Lengths DEF FlushEndsPort, FlushedIn, FlushedOut
  <1>27. CASE Resumes
    BY <1>27 DEF Resumes
  <1>28. CASE BufferProcess_Terminate
    BY <1>28 DEF BufferProcess_Terminate, Joined, Dry, Drained
  <1>29. CASE UNCHANGED vars
    BY <1>29 DEF vars
  <1> QED
    BY <1>1, <1>2, <1>3, <1>4, <1>5, <1>6, <1>7, <1>8, <1>9, <1>10, <1>11, <1>12, <1>13, <1>14,
         <1>15, <1>16, <1>17, <1>18, <1>19, <1>20, <1>21, <1>22, <1>23, <1>24, <1>25, <1>26,
         <1>27, <1>28, <1>29 DEF Next, SrcInput, SrcOutput, DstInput, DstOutput, MFC, Command

\* The client has no more pictures with the component than it has buffers.
LEMMA FitsKept ==
    ASSUME IInv, ~EarlyFlush, [Next]_vars
    PROVE  Fits'
  <1>q. Contents
    BY DEF IInv, Control
  <1> USE DEF IInv, Control, Contents, QueueTypes, HandTypes, Permits, Fits, Holding, portVars,
          codecVars, setUp, told, Goes, Running, Ports, Threads
  <1>1. ASSUME NEW n \in Pictures, NEW last \in BOOLEAN, EmptyThisBuffer(n, last)
        PROVE  Fits'
    BY <1>1, <1>q, Lengths, EncoderSizes DEF EmptyThisBuffer
  <1>2. ASSUME NEW o \in Outs, FillThisBuffer(o)
        PROVE  Fits'
    BY <1>2 DEF FillThisBuffer
  <1>3. CASE SrcInputBufferProcess
    BY <1>3, <1>q, Lengths, EncoderSizes DEF SrcInputBufferProcess, Open, Preprocessor_InputData
  <1>4. CASE CodecBufferDeQueue
    BY <1>4 DEF CodecBufferDeQueue
  <1>5. CASE InputBufferGetQueue
    <2>1. inBuf = 0
      BY <1>5 DEF InputBufferGetQueue
    <2>2. CASE queue["in"] = <<>>
      BY <1>5, <2>2 DEF InputBufferGetQueue
    <2>3. CASE queue["in"] # <<>>
      <3>1. queue'["in"] = Tail(queue["in"])
        BY <1>5, <2>3 DEF InputBufferGetQueue
      <3> QED
        BY <1>q, <2>1, <2>3, <3>1, Lengths, EncoderSizes
    <2> QED
      BY <2>2, <2>3
  <1>6. CASE SrcInputRefused
    BY <1>6 DEF SrcInputRefused, Forgets
  <1>7. CASE SrcSetupEos
    BY <1>7 DEF SrcSetupEos, EosAlone, Forgets
  <1>8. CASE SrcSetupEosAnswered
    BY <1>8 DEF SrcSetupEosAnswered, Forgets
  <1>9. CASE SrcIn
    BY <1>9 DEF SrcIn, EosAlone, Enqueued
  <1>10. CASE DstSetup
    BY <1>10 DEF DstSetup, EosAlone, Enqueued
  <1>11. CASE DstSetupTakes
    BY <1>11 DEF DstSetupTakes, Enqueued
  <1>12. CASE DstSetupEnds
    BY <1>12 DEF DstSetupEnds, Enqueued, Drained
  <1>13. CASE SrcOutputBufferProcess
    BY <1>13 DEF SrcOutputBufferProcess
  <1>14. CASE SrcOutputStarts
    BY <1>14 DEF SrcOutputStarts
  <1>15. CASE SrcOut
    BY <1>15 DEF SrcOut
  <1>16. CASE DstInputBufferProcess
    BY <1>16 DEF DstInputBufferProcess, Open
  <1>17. CASE OutputBufferGetQueue
    BY <1>17 DEF OutputBufferGetQueue
  <1>18. CASE DstInputProcess
    BY <1>18 DEF DstInputProcess
  <1>19. CASE DstInputStarts
    BY <1>19 DEF DstInputStarts
  <1>20. CASE DstOutputBufferProcess
    BY <1>20 DEF DstOutputBufferProcess
  <1>21. CASE DstOut
    BY <1>21 DEF DstOut, Garbage
  <1>22. CASE EncodeHeader
    BY <1>22 DEF EncodeHeader
  <1>23. CASE Encode
    BY <1>23 DEF Encode
  <1>24. CASE FlushBegins
    BY <1>24 DEF FlushBegins, FlushWakes
  <1>25. CASE FlushStops
    BY <1>25 DEF FlushStops, Dry, Drained
  <1>26. CASE FlushEndsPort
    <2>1. \/ queue'["in"] = queue["in"] /\ inBuf' = inBuf
          \/ queue'["in"] = <<>> /\ inBuf' = 0
      BY <1>26 DEF FlushEndsPort, FlushedIn, FlushedOut
    <2>2. CASE queue'["in"] = queue["in"] /\ inBuf' = inBuf
      BY <2>2
    <2>3. CASE queue'["in"] = <<>> /\ inBuf' = 0
      <3>1. Len(queue'["in"]) = 0
        BY <1>q, <2>3, Lengths
      <3> QED
        BY <2>3, <3>1, EncoderSizes
    <2> QED
      BY <2>1, <2>2, <2>3
  <1>27. CASE Resumes
    BY <1>27 DEF Resumes
  <1>28. CASE BufferProcess_Terminate
    BY <1>28 DEF BufferProcess_Terminate, Joined, Dry, Drained
  <1>29. CASE UNCHANGED vars
    BY <1>29 DEF vars
  <1> QED
    BY <1>1, <1>2, <1>3, <1>4, <1>5, <1>6, <1>7, <1>8, <1>9, <1>10, <1>11, <1>12, <1>13, <1>14,
         <1>15, <1>16, <1>17, <1>18, <1>19, <1>20, <1>21, <1>22, <1>23, <1>24, <1>25, <1>26,
         <1>27, <1>28, <1>29 DEF Next, SrcInput, SrcOutput, DstInput, DstOutput, MFC, Command


\* The MFC's input: lengths, and the buffers in it, before and after one
\* element goes in or out.
LEMMA InputLengths ==
    ASSUME Contents
    PROVE  /\ Len(mfcIn.work) \in Nat /\ Len(mfcIn.done) \in Nat
           /\ mfcIn.work # <<>> =>
                 (/\ Len(mfcIn.work) > 0 /\ Len(Tail(mfcIn.work)) = Len(mfcIn.work) - 1
                  /\ InWork(mfcIn.work, "buf")
                        = {Head(mfcIn.work).buf} \cup InWork(Tail(mfcIn.work), "buf"))
           /\ mfcIn.done # <<>> =>
                 (/\ Len(mfcIn.done) > 0 /\ Len(Tail(mfcIn.done)) = Len(mfcIn.done) - 1
                  /\ ToSet(mfcIn.done) = {Head(mfcIn.done)} \cup ToSet(Tail(mfcIn.done)))
           /\ \A j \in Jobs :
                 /\ Len(Append(mfcIn.work, j)) = Len(mfcIn.work) + 1
                 /\ InWork(Append(mfcIn.work, j), "buf") = InWork(mfcIn.work, "buf") \cup {j.buf}
           /\ \A c \in Codecs :
                 /\ Len(Append(mfcIn.done, c)) = Len(mfcIn.done) + 1
                 /\ ToSet(Append(mfcIn.done, c)) = ToSet(mfcIn.done) \cup {c}
  <1> DEFINE w == mfcIn.work
             d == mfcIn.done
  <1>1. w \in Seq(Jobs) /\ d \in Seq(Codecs)
    BY DEF Contents, InputType
  <1> HIDE DEF w, d
  <1>2. Len(w) \in Nat /\ Len(d) \in Nat
    BY <1>1, LenProperties
  <1>3. \A s \in Seq(Jobs) : InWork(s, "buf") = {j.buf : j \in ToSet(s)}
    BY DEF InWork, ToSet
  <1>4. w # <<>> =>
           (/\ Len(w) > 0 /\ Len(Tail(w)) = Len(w) - 1
            /\ InWork(w, "buf") = {Head(w).buf} \cup InWork(Tail(w), "buf"))
    <2>1. SUFFICES ASSUME w # <<>>
                   PROVE  /\ Len(w) > 0 /\ Len(Tail(w)) = Len(w) - 1
                          /\ InWork(w, "buf") = {Head(w).buf} \cup InWork(Tail(w), "buf")
      OBVIOUS
    <2>2. /\ Tail(w) \in Seq(Jobs) /\ Len(w) > 0 /\ Len(Tail(w)) = Len(w) - 1
          /\ ToSet(w) = {Head(w)} \cup ToSet(Tail(w))
      BY <1>1, <2>1, TakenFrom
    <2>3. /\ InWork(w, "buf") = {j.buf : j \in ToSet(w)}
          /\ InWork(Tail(w), "buf") = {j.buf : j \in ToSet(Tail(w))}
      BY <1>1, <1>3, <2>2
    <2> QED
      BY <2>2, <2>3
  <1>5. d # <<>> =>
           (/\ Len(d) > 0 /\ Len(Tail(d)) = Len(d) - 1
            /\ ToSet(d) = {Head(d)} \cup ToSet(Tail(d)))
    BY <1>1, TakenFrom
  <1>6. ASSUME NEW j \in Jobs
        PROVE  /\ Len(Append(w, j)) = Len(w) + 1
               /\ InWork(Append(w, j), "buf") = InWork(w, "buf") \cup {j.buf}
    <2>1. /\ Append(w, j) \in Seq(Jobs) /\ Len(Append(w, j)) = Len(w) + 1
          /\ ToSet(Append(w, j)) = ToSet(w) \cup {j}
      BY <1>1, PutInto
    <2>2. /\ InWork(w, "buf") = {i.buf : i \in ToSet(w)}
          /\ InWork(Append(w, j), "buf") = {i.buf : i \in ToSet(Append(w, j))}
      BY <1>1, <1>3, <2>1
    <2> QED
      BY <2>1, <2>2
  <1>7. ASSUME NEW c \in Codecs
        PROVE  Len(Append(d, c)) = Len(d) + 1 /\ ToSet(Append(d, c)) = ToSet(d) \cup {c}
    BY <1>1, PutInto
  <1> QED
    BY <1>2, <1>4, <1>5, <1>6, <1>7 DEF w, d

\* The codec buffers' queue, likewise.
LEMMA CodecRanges ==
    ASSUME Contents
    PROVE  /\ codecQ # <<>> => ToSet(codecQ) = {Head(codecQ)} \cup ToSet(Tail(codecQ))
           /\ \A c \in Codecs : ToSet(Append(codecQ, c)) = ToSet(codecQ) \cup {c}
           /\ ToSet(SetToSeq(Codecs)) = Codecs
  <1>1. codecQ \in Seq(Codecs)
    BY DEF Contents, QueueTypes
  <1>2. codecQ # <<>> => ToSet(codecQ) = {Head(codecQ)} \cup ToSet(Tail(codecQ))
    BY <1>1, TakenFrom
  <1>3. \A c \in Codecs : ToSet(Append(codecQ, c)) = ToSet(codecQ) \cup {c}
    BY <1>1, PutInto
  <1>4. ToSet(SetToSeq(Codecs)) = Codecs
    BY EncoderSizes, SetToSeqOf DEF ToSet
  <1> QED
    BY <1>2, <1>3, <1>4

\* An empty MFC has no codec buffer.
LEMMA DryIsEmpty ==
    Len(Dry.work) = 0 /\ Len(Dry.done) = 0 /\ InWork(Dry.work, "buf") = {} /\ ToSet(Dry.done) = {}
  BY EmptySeq DEF Dry, InWork, ToSet

\* The count moves by what the four places gain and lose.
LEMMA CountsAdd ==
    ASSUME Contents, Len(codecQ') \in Int, Len(mfcIn'.work) \in Int, Len(mfcIn'.done) \in Int
    PROVE  /\ CodecCount \in Nat /\ CodecCount' \in Int
           /\ CodecCount' = CodecCount + (Len(codecQ') - Len(codecQ))
                 + (Len(mfcIn'.work) - Len(mfcIn.work)) + (Len(mfcIn'.done) - Len(mfcIn.done))
                 + (InHold' - InHold)
  <1> DEFINE p == Len(codecQ)
             q == Len(mfcIn.work)
             r == Len(mfcIn.done)
             i == InHold
             pp == Len(codecQ')
             qq == Len(mfcIn'.work)
             rr == Len(mfcIn'.done)
             ii == InHold'
  <1>1. p \in Nat /\ q \in Nat /\ r \in Nat /\ pp \in Int /\ qq \in Int /\ rr \in Int
    BY Lengths, InputLengths
  <1>2. i \in {0, 1} /\ ii \in {0, 1}
    BY DEF InHold
  <1>3. CodecCount = p + q + r + i /\ CodecCount' = pp + qq + rr + ii
    BY DEF CodecCount
  <1> HIDE DEF p, q, r, i, pp, qq, rr, ii
  <1>4. /\ p + q + r + i \in Nat /\ pp + qq + rr + ii \in Int
        /\ pp + qq + rr + ii = p + q + r + i + (pp - p) + (qq - q) + (rr - r) + (ii - i)
    BY <1>1, <1>2
  <1>5. CodecCount' = CodecCount + (pp - p) + (qq - q) + (rr - r) + (ii - i)
    BY <1>3, <1>4
  <1> QED
    BY <1>3, <1>4, <1>5 DEF p, q, r, i, pp, qq, rr, ii

\* Giving the codec buffer to the MFC keeps it in the count and in a place.
LEMMA EnqueuedCounts ==
    ASSUME Contents, Holding, pc["srcIn"] \in WithPicture, Enqueued, UNCHANGED codecQ
    PROVE  CodecCount' = CodecCount /\ Codecs \cap CodecSpots \subseteq CodecSpots'
  <1>1. hold \in Jobs /\ hold.buf \in Codecs /\ hold.buf # None
    BY PictureInBuffer, EncoderSizes DEF Jobs
  <1>2. /\ mfcIn'.work = Append(mfcIn.work, hold) /\ mfcIn'.done = mfcIn.done
        /\ hold'.buf = None
    BY DEF Enqueued, Free, Contents, InputType
  <1>3. Len(mfcIn'.work) = Len(mfcIn.work) + 1 /\ InHold = 1 /\ InHold' = 0
    BY <1>1, <1>2, InputLengths DEF InHold
  <1>4. InWork(mfcIn'.work, "buf") = InWork(mfcIn.work, "buf") \cup {hold.buf}
    BY <1>1, <1>2, InputLengths
  <1>5. CodecCount' = CodecCount
    <2>1. Len(mfcIn'.done) = Len(mfcIn.done) /\ Len(codecQ') = Len(codecQ)
      BY <1>2
    <2>2. /\ Len(codecQ) \in Int /\ Len(mfcIn.work) \in Int /\ Len(mfcIn.done) \in Int
          /\ Len(codecQ') \in Int /\ Len(mfcIn'.work) \in Int /\ Len(mfcIn'.done) \in Int
      BY <1>3, <2>1, Lengths, InputLengths
    <2> QED
      BY <1>3, <2>1, <2>2, CountsAdd
  <1>6. Codecs \cap CodecSpots \subseteq CodecSpots'
    BY <1>2, <1>4 DEF CodecSpots
  <1> QED
    BY <1>5, <1>6

\* With more than one picture, no picture ends the stream before the set-up.
LEMMA EosIsSingle ==
    ASSUME Begun, Holding, pc["srcIn"] = "feed", EosAlone
    PROVE  single
  BY DEF Begun, Holding, WithPicture, EosAlone, Pictures

\* How the counters and the places of the codec buffers may change.
CodecsSame ==
    /\ CodecCount' = CodecCount /\ Codecs \cap CodecSpots \subseteq CodecSpots'
    /\ Counting' => Counting
CodecsGone == CodecCount' \in Int /\ CodecCount' <= CodecCount /\ ~Counting'
CodecsBack == CodecCount' = Cardinality(Codecs) /\ Codecs \subseteq CodecSpots'
CodecsMove == CodecsSame \/ CodecsGone \/ CodecsBack

\* Nothing moves when the queue, the MFC and the buffer in hand are the same.
LEMMA CodecsUntouched ==
    ASSUME codecQ' = codecQ, mfcIn' = mfcIn, hold'.buf = hold.buf, Counting' => Counting
    PROVE  CodecsMove
  BY DEF CodecsMove, CodecsSame, CodecCount, CodecSpots, InHold

\* A codec buffer that is forgotten is missing where nobody counts them.
LEMMA CodecForgotten ==
    ASSUME Contents, hold' = Free, UNCHANGED <<codecQ, mfcIn>>, ~Counting'
    PROVE  CodecsMove
  <1>1. InHold \in {0, 1} /\ InHold' = 0
    BY DEF InHold, Free
  <1>2. Len(codecQ) \in Int /\ Len(mfcIn.work) \in Int /\ Len(mfcIn.done) \in Int
    BY Lengths, InputLengths
  <1>3. CodecCount' \in Int /\ CodecCount' <= CodecCount
    BY <1>1, <1>2, CountsAdd
  <1> QED
    BY <1>3 DEF CodecsMove, CodecsGone

\* No codec buffer is counted twice, and none is missing while the input is not flushed.
LEMMA CodecsMoveSo ==
    ASSUME IInv, ~EarlyFlush, [Next]_vars
    PROVE  CodecsMove
  <1>q. Contents /\ Holding /\ Begun /\ Locked /\ Types
    BY DEF IInv, Control
  <1> USE DEF CodecsMove, CodecsSame, Counting, portVars, codecVars, setUp, told, Goes, Running,
          Ports, Threads
  <1>1. ASSUME NEW n \in Pictures, NEW last \in BOOLEAN, EmptyThisBuffer(n, last)
        PROVE  CodecsMove
    BY <1>1 DEF EmptyThisBuffer, CodecCount, InHold, CodecSpots
  <1>2. ASSUME NEW o \in Outs, FillThisBuffer(o)
        PROVE  CodecsMove
    BY <1>2 DEF FillThisBuffer, CodecCount, InHold, CodecSpots
  <1>3. CASE SrcInputBufferProcess
    <2>1. hold'.buf = hold.buf
      BY <1>3, <1>q DEF SrcInputBufferProcess, Open, Preprocessor_InputData, Contents, HandTypes, BufferAndFrame
    <2> QED
      BY <1>3, <2>1, CodecsUntouched DEF SrcInputBufferProcess, Open, Preprocessor_InputData
  <1>4. CASE CodecBufferDeQueue
    <2>1. CASE codecQ = <<>>
      BY <1>4, <2>1, CodecsUntouched DEF CodecBufferDeQueue
    <2>2. CASE codecQ # <<>>
      <3>1. /\ codecQ' = Tail(codecQ) /\ hold' = [buf |-> Head(codecQ), frame |-> 0]
            /\ UNCHANGED <<mfcIn, single, flushing>> /\ hold = Free
        BY <1>4, <1>q, <2>2 DEF CodecBufferDeQueue, Holding
      <3>2. hold'.buf = Head(codecQ) /\ Head(codecQ) \in Codecs /\ hold.buf = None
        BY <1>q, <2>2, <3>1, QueuesTyped DEF Free
      <3>3. InHold = 0 /\ InHold' = 1
        BY <3>2, EncoderSizes DEF InHold
      <3>4. /\ Len(codecQ') = Len(codecQ) - 1 /\ Len(codecQ) \in Int
            /\ Len(mfcIn.work) \in Int /\ Len(mfcIn.done) \in Int
        BY <1>q, <2>2, <3>1, Lengths, InputLengths
      <3>5. CodecCount' = CodecCount
        BY <1>q, <3>1, <3>3, <3>4, CountsAdd
      <3>6. ToSet(codecQ) = {Head(codecQ)} \cup ToSet(codecQ')
        BY <1>q, <2>2, <3>1, CodecRanges
      <3>7. Codecs \cap CodecSpots \subseteq CodecSpots'
        BY <3>1, <3>2, <3>6, EncoderSizes DEF CodecSpots
      <3> QED
        BY <3>1, <3>5, <3>7
    <2> QED
      BY <2>1, <2>2
  <1>5. CASE InputBufferGetQueue
    BY <1>5 DEF InputBufferGetQueue, CodecCount, InHold, CodecSpots
  <1>6. CASE SrcInputRefused
    <2>1. flushing["in"]
      BY <1>6, <1>q DEF SrcInputRefused, Locked
    <2> QED
      BY <1>6, <2>1, CodecsUntouched DEF SrcInputRefused, Forgets
  <1>7. CASE SrcSetupEos
    <2>1. single
      BY <1>7, <1>q, EosIsSingle DEF SrcSetupEos
    <2> QED
      BY <1>7, <1>q, <2>1, CodecForgotten, CodecsUntouched DEF SrcSetupEos, EosAlone, Forgets
  <1>8. CASE SrcSetupEosAnswered
    <2>1. single
      BY <1>8, <1>q DEF SrcSetupEosAnswered, Begun
    <2> QED
      BY <1>8, <1>q, <2>1, CodecForgotten DEF SrcSetupEosAnswered, Forgets
  <1>9. CASE SrcIn
    <2>1. pc["srcIn"] \in WithPicture /\ Enqueued /\ UNCHANGED <<codecQ, single, flushing>>
      BY <1>9 DEF SrcIn, WithPicture
    <2> QED
      BY <1>q, <2>1, EnqueuedCounts
  <1>10. CASE DstSetup
    <2>1. pc["srcIn"] \in WithPicture /\ UNCHANGED <<codecQ, single, flushing>>
      BY <1>10 DEF DstSetup, WithPicture
    <2>2. Enqueued \/ UNCHANGED <<hold, mfcIn>>
      BY <1>10 DEF DstSetup
    <2> QED
      BY <1>q, <2>1, <2>2, EnqueuedCounts, CodecsUntouched
  <1>11. CASE DstSetupTakes
    <2>1. pc["srcIn"] \in WithPicture /\ UNCHANGED <<codecQ, single, flushing>>
      BY <1>11 DEF DstSetupTakes, WithPicture
    <2>2. Enqueued \/ UNCHANGED <<hold, mfcIn>>
      BY <1>11 DEF DstSetupTakes
    <2> QED
      BY <1>q, <2>1, <2>2, EnqueuedCounts, CodecsUntouched
  <1>12. CASE DstSetupEnds
    <2>1. pc["srcIn"] \in WithPicture /\ Enqueued /\ UNCHANGED <<codecQ, single, flushing>>
      BY <1>12 DEF DstSetupEnds, WithPicture
    <2> QED
      BY <1>q, <2>1, EnqueuedCounts
  <1>13. CASE SrcOutputBufferProcess
    BY <1>13 DEF SrcOutputBufferProcess, CodecCount, InHold, CodecSpots
  <1>14. CASE SrcOutputStarts
    BY <1>14 DEF SrcOutputStarts, CodecCount, InHold, CodecSpots
  <1>15. CASE SrcOut
    <2>1. CASE ~mfcIn.on
      BY <1>15, <2>1, CodecsUntouched DEF SrcOut
    <2>2. CASE mfcIn.on
      <3>1. /\ mfcIn.done # <<>> /\ codecQ' = Append(codecQ, Head(mfcIn.done))
            /\ mfcIn' = [mfcIn EXCEPT !.done = Tail(@)]
            /\ UNCHANGED <<hold, single, flushing>>
        BY <1>15, <2>2 DEF SrcOut
      <3>2. /\ Head(mfcIn.done) \in Codecs
            /\ mfcIn'.work = mfcIn.work /\ mfcIn'.done = Tail(mfcIn.done)
        BY <1>q, <3>1, InputTyped DEF Contents, InputType
      <3>3. InHold' = InHold /\ InHold \in Int
        BY <3>1 DEF InHold
      <3>4. /\ Len(codecQ') = Len(codecQ) + 1 /\ Len(codecQ) \in Int
            /\ Len(mfcIn'.done) = Len(mfcIn.done) - 1 /\ Len(mfcIn.done) \in Int
            /\ Len(mfcIn.work) \in Int
        BY <1>q, <3>1, <3>2, Lengths, InputLengths
      <3>5. CodecCount' = CodecCount
        BY <1>q, <3>2, <3>3, <3>4, CountsAdd
      <3>6. /\ ToSet(mfcIn.done) = {Head(mfcIn.done)} \cup ToSet(mfcIn'.done)
            /\ ToSet(codecQ') = ToSet(codecQ) \cup {Head(mfcIn.done)}
        BY <1>q, <3>1, <3>2, CodecRanges, InputLengths
      <3>7. Codecs \cap CodecSpots \subseteq CodecSpots'
        BY <3>1, <3>2, <3>6 DEF CodecSpots
      <3> QED
        BY <3>1, <3>5, <3>7
    <2> QED
      BY <2>1, <2>2
  <1>16. CASE DstInputBufferProcess
    BY <1>16 DEF DstInputBufferProcess, Open, CodecCount, InHold, CodecSpots
  <1>17. CASE OutputBufferGetQueue
    BY <1>17 DEF OutputBufferGetQueue, CodecCount, InHold, CodecSpots
  <1>18. CASE DstInputProcess
    BY <1>18 DEF DstInputProcess, CodecCount, InHold, CodecSpots
  <1>19. CASE DstInputStarts
    BY <1>19 DEF DstInputStarts, CodecCount, InHold, CodecSpots
  <1>20. CASE DstOutputBufferProcess
    BY <1>20 DEF DstOutputBufferProcess, CodecCount, InHold, CodecSpots
  <1>21. CASE DstOut
    BY <1>21 DEF DstOut, Garbage, CodecCount, InHold, CodecSpots
  <1>22. CASE EncodeHeader
    BY <1>22 DEF EncodeHeader, CodecCount, InHold, CodecSpots
  <1>23. CASE Encode
    <2> DEFINE c == Head(mfcIn.work).buf
    <2>1. mfcIn.work # <<>> /\ UNCHANGED <<codecQ, hold, single, flushing>>
      BY <1>23 DEF Encode
    <2>2. /\ c \in Codecs /\ mfcIn'.work = Tail(mfcIn.work)
          /\ mfcIn'.done = Append(mfcIn.done, c)
      BY <1>23, <1>q, <2>1, InputTyped DEF Encode, Contents, InputType
    <2> HIDE DEF c
    <2>3. InHold' = InHold /\ InHold \in Int
      BY <2>1 DEF InHold
    <2>4. /\ Len(mfcIn'.work) = Len(mfcIn.work) - 1 /\ Len(mfcIn.work) \in Int
          /\ Len(mfcIn'.done) = Len(mfcIn.done) + 1 /\ Len(mfcIn.done) \in Int
          /\ Len(codecQ) \in Int
      BY <1>q, <2>1, <2>2, Lengths, InputLengths
    <2>5. CodecCount' = CodecCount
      BY <1>q, <2>1, <2>3, <2>4, CountsAdd
    <2>6. /\ InWork(mfcIn.work, "buf") = {c} \cup InWork(mfcIn'.work, "buf")
          /\ ToSet(mfcIn'.done) = ToSet(mfcIn.done) \cup {c}
      BY <1>q, <2>1, <2>2, InputLengths DEF c
    <2>7. Codecs \cap CodecSpots \subseteq CodecSpots'
      BY <2>1, <2>6 DEF CodecSpots
    <2> QED
      BY <2>1, <2>5, <2>7
  <1>24. CASE FlushBegins
    <2>1. UNCHANGED <<codecQ, mfcIn, hold, single>>
      BY <1>24 DEF FlushBegins
    <2>2. \A p \in Ports : flushing[p] => flushing'[p]
      BY <1>24, <1>q DEF FlushBegins, FlushWakes, Types, FlagTypes
    <2> QED
      BY <2>1, <2>2, CodecsUntouched
  <1>25. CASE FlushStops
    <2>1. UNCHANGED <<codecQ, hold, single, flushing>>
      BY <1>25 DEF FlushStops
    <2>2. CASE ctl.port = "out"
      BY <1>25, <2>1, <2>2, CodecsUntouched DEF FlushStops
    <2>3. CASE ctl.port = "in"
      <3>1. mfcIn' = Dry /\ flushing["in"]
        BY <1>25, <2>3 DEF FlushStops, IInv, Control, Commands, AtWork
      <3>2. /\ Len(mfcIn'.work) = 0 /\ Len(mfcIn'.done) = 0
            /\ Len(mfcIn.work) \in Nat /\ Len(mfcIn.done) \in Nat /\ Len(codecQ) \in Int
        BY <1>q, <3>1, DryIsEmpty, Lengths, InputLengths
      <3>3. InHold' = InHold /\ InHold \in Int
        BY <2>1 DEF InHold
      <3>4. CodecCount' \in Int /\ CodecCount' <= CodecCount
        BY <1>q, <2>1, <3>2, <3>3, CountsAdd
      <3> QED
        BY <2>1, <3>1, <3>4 DEF CodecsGone
    <2> QED
      BY <1>25, <1>q, <2>2, <2>3 DEF Types, CommandTypes
  <1>26. CASE FlushEndsPort
    <2>1. UNCHANGED <<mfcIn, single>>
      BY <1>26 DEF FlushEndsPort
    <2>2. CASE ctl.port = "out"
      <3>1. UNCHANGED <<codecQ, hold>>
        BY <1>26, <2>2 DEF FlushEndsPort, FlushedOut
      <3>2. flushing'["in"] = flushing["in"]
        BY <1>26, <1>q, <2>2 DEF FlushEndsPort, Types, FlagTypes
      <3> QED
        BY <2>1, <3>1, <3>2, CodecsUntouched
    <2>3. CASE ctl.port = "in"
      <3>1. started /\ mfcIn = Dry
        BY <1>26, <1>q, <2>3 DEF FlushEndsPort, Begun, Locked
      <3>2. codecQ' = SetToSeq(Codecs) /\ hold'.buf = None
        BY <1>26, <2>3, <3>1 DEF FlushEndsPort, FlushedIn, Free
      <3>3. InHold' = 0
        BY <3>2 DEF InHold
      <3>4. /\ Len(mfcIn'.work) = 0 /\ Len(mfcIn'.done) = 0
            /\ Len(codecQ') = Cardinality(Codecs) /\ Cardinality(Codecs) \in Nat
        BY <1>q, <2>1, <3>1, <3>2, DryIsEmpty, Lengths
      <3>5. CodecCount' = Cardinality(Codecs)
        BY <3>3, <3>4 DEF CodecCount
      <3>6. Codecs \subseteq CodecSpots'
        BY <1>q, <3>2, CodecRanges DEF CodecSpots
      <3> QED
        BY <3>5, <3>6 DEF CodecsBack
    <2> QED
      BY <1>26, <1>q, <2>2, <2>3 DEF Types, CommandTypes
  <1>27. CASE Resumes
    BY <1>27 DEF Resumes, CodecCount, InHold, CodecSpots
  <1>28. CASE BufferProcess_Terminate
    <2>1. UNCHANGED <<codecQ, hold, single, flushing>> /\ (mfcIn' = mfcIn \/ mfcIn' = Dry)
      BY <1>28 DEF BufferProcess_Terminate
    <2>2. mfcIn.work = <<>> /\ mfcIn.done = <<>>
      BY <1>28, <1>q DEF BufferProcess_Terminate, Locked, IInv, Control, Commands
    <2>3. /\ mfcIn'.work = mfcIn.work /\ mfcIn'.done = mfcIn.done
      BY <2>1, <2>2 DEF Dry
    <2> QED
      BY <2>1, <2>3 DEF CodecCount, CodecSpots, InHold
  <1>29. CASE UNCHANGED vars
    BY <1>29 DEF vars, CodecCount, InHold, CodecSpots
  <1> QED
    BY <1>1, <1>2, <1>3, <1>4, <1>5, <1>6, <1>7, <1>8, <1>9, <1>10, <1>11, <1>12, <1>13, <1>14,
         <1>15, <1>16, <1>17, <1>18, <1>19, <1>20, <1>21, <1>22, <1>23, <1>24, <1>25, <1>26,
         <1>27, <1>28, <1>29 DEF Next, SrcInput, SrcOutput, DstInput, DstOutput, MFC, Command


\* So every codec buffer is counted once, in its place.
LEMMA CodecsInKept ==
    ASSUME IInv, ~EarlyFlush, [Next]_vars
    PROVE  CodecsIn'
  <1>1. CodecCount \in Nat /\ Cardinality(Codecs) \in Nat
    <2>1. Contents
      BY DEF IInv, Control
    <2>2. Len(codecQ) \in Nat /\ Len(mfcIn.work) \in Nat /\ Len(mfcIn.done) \in Nat
      BY <2>1, Lengths, InputLengths
    <2>3. InHold \in {0, 1}
      BY DEF InHold
    <2> DEFINE p == Len(codecQ)
               q == Len(mfcIn.work)
               r == Len(mfcIn.done)
    <2> HIDE DEF p, q, r
    <2>4. p \in Nat /\ q \in Nat /\ r \in Nat
      BY <2>2 DEF p, q, r
    <2>5. p + q + r + InHold \in Nat
      BY <2>3, <2>4
    <2> QED
      BY <2>1, <2>5, Lengths DEF CodecCount, p, q, r
  <1>2. CodecsIn
    BY DEF IInv
  <1>3. CASE CodecsSame
    BY <1>1, <1>2, <1>3 DEF CodecsSame, CodecsIn, CodecsCounted, CodecsCovered
  <1>4. CASE CodecsGone
    BY <1>1, <1>2, <1>4 DEF CodecsGone, CodecsIn, CodecsCounted, CodecsCovered
  <1>5. CASE CodecsBack
    BY <1>1, <1>5 DEF CodecsBack, CodecsIn, CodecsCounted, CodecsCovered
  <1> QED
    BY <1>3, <1>4, <1>5, CodecsMoveSo DEF CodecsMove

-----------------------------------------------------------------------------
(* The output buffers.                                                        *)

\* The output queue without repetition, before and after one buffer goes in
\* or out.
LEMMA OutputRanges ==
    ASSUME Contents, IsInjective(queue["out"])
    PROVE  /\ queue["out"] # <<>> =>
                 (/\ IsInjective(Tail(queue["out"])) /\ Head(queue["out"]) \in Outs
                  /\ Head(queue["out"]) \in ToSet(queue["out"])
                  /\ ToSet(Tail(queue["out"])) = ToSet(queue["out"]) \ {Head(queue["out"])})
           /\ \A o \in Outs \ ToSet(queue["out"]) :
                 /\ IsInjective(Append(queue["out"], o))
                 /\ ToSet(Append(queue["out"], o)) = ToSet(queue["out"]) \cup {o}
           /\ IsInjective(<<>>) /\ ToSet(<<>>) = {}
           /\ ToSet(queue["out"]) \subseteq Outs
  <1> DEFINE s == queue["out"]
  <1>1. s \in Seq(Outs)
    BY DEF Contents, QueueTypes
  <1> HIDE DEF s
  <1>2. ASSUME s # <<>>
        PROVE  /\ IsInjective(Tail(s)) /\ Head(s) \in Outs /\ Head(s) \in ToSet(s)
               /\ ToSet(Tail(s)) = ToSet(s) \ {Head(s)}
    <2>1. /\ Head(s) \in Outs /\ Tail(s) \in Seq(Outs) /\ Head(s) \in ToSet(s)
          /\ ToSet(s) = {Head(s)} \cup ToSet(Tail(s))
      BY <1>1, <1>2, TakenFrom
    <2> DEFINE t == Tail(s)
    <2>2. /\ DOMAIN s = 1 .. Len(s) /\ DOMAIN t = 1 .. Len(s) - 1 /\ Len(s) \in Nat
          /\ \A i \in DOMAIN t : t[i] = s[i + 1]
          /\ Head(s) = s[1] /\ 1 \in DOMAIN s
      BY <1>1, <1>2, HeadTailProperties
    <2>3. \A i, j \in DOMAIN s : s[i] = s[j] => i = j
      BY DEF IsInjective, s
    <2>4. IsInjective(t)
      BY <2>2, <2>3 DEF IsInjective
    <2>5. ASSUME NEW i \in DOMAIN t PROVE t[i] # Head(s)
      BY <2>2, <2>3, <2>5
    <2>6. Head(s) \notin ToSet(t)
      BY <2>5 DEF ToSet
    <2> QED
      BY <2>1, <2>4, <2>6
  <1>3. ASSUME NEW o \in Outs, o \notin ToSet(s)
        PROVE  IsInjective(Append(s, o)) /\ ToSet(Append(s, o)) = ToSet(s) \cup {o}
    <2>1. /\ DOMAIN s = 1 .. Len(s) /\ Len(s) \in Nat
          /\ DOMAIN Append(s, o) = 1 .. Len(s) + 1 /\ Append(s, o)[Len(s) + 1] = o
          /\ \A i \in 1 .. Len(s) : Append(s, o)[i] = s[i]
      BY <1>1, AppendProperties
    <2>2. \A i \in DOMAIN s : s[i] # o
      BY <1>3 DEF ToSet
    <2>3. \A i, j \in DOMAIN s : s[i] = s[j] => i = j
      BY DEF IsInjective, s
    <2>4. IsInjective(Append(s, o))
      BY <2>1, <2>2, <2>3 DEF IsInjective
    <2> QED
      BY <1>1, <2>4, PutInto
  <1>4. IsInjective(<<>>) /\ ToSet(<<>>) = {}
    BY DEF IsInjective, ToSet
  <1>5. ToSet(s) \subseteq Outs
    BY <1>1 DEF ToSet
  <1> QED
    BY <1>2, <1>3, <1>4, <1>5 DEF s

\* Entries that leave a queue of the MFC at its head ...
LEMMA EntryTaken ==
    ASSUME NEW S, NEW s \in Seq(S), s # <<>>
    PROVE  /\ OutsOf(s) = {Head(s).out} \cup OutsOf(Tail(s))
           /\ OneEach(s) => (OneEach(Tail(s)) /\ Head(s).out \notin OutsOf(Tail(s)))
           /\ Headed(s) => (Head(s).header /\ Headed(Tail(s)))
           /\ Bare(s) => (~Head(s).header /\ Bare(Tail(s)))
  <1> DEFINE t == Tail(s)
  <1>1. /\ DOMAIN s = 1 .. Len(s) /\ DOMAIN t = 1 .. Len(s) - 1 /\ Len(s) \in Nat
        /\ \A i \in DOMAIN t : t[i] = s[i + 1] /\ i + 1 \in DOMAIN s
        /\ Head(s) = s[1] /\ 1 \in DOMAIN s
    BY HeadTailProperties
  <1>2. ToSet(s) = {Head(s)} \cup ToSet(t)
    BY TakenFrom
  <1>3. OutsOf(s) = {e.out : e \in ToSet(s)} /\ OutsOf(t) = {e.out : e \in ToSet(t)}
    BY DEF OutsOf, InWork, ToSet
  <1>4. OutsOf(s) = {Head(s).out} \cup OutsOf(t)
    BY <1>2, <1>3
  <1>5. ASSUME OneEach(s) PROVE OneEach(t) /\ Head(s).out \notin OutsOf(t)
    <2>1. \A i, j \in DOMAIN s : s[i].out = s[j].out => i = j
      BY <1>5 DEF OneEach
    <2>2. OneEach(t)
      BY <1>1, <2>1 DEF OneEach
    <2>3. ASSUME NEW i \in DOMAIN t PROVE t[i].out # Head(s).out
      BY <1>1, <2>1, <2>3
    <2> QED
      BY <2>2, <2>3 DEF OutsOf, InWork
  <1>6. Headed(s) => (Head(s).header /\ Headed(t))
    BY <1>1 DEF Headed
  <1>7. Bare(s) => (~Head(s).header /\ Bare(t))
    BY <1>1 DEF Bare
  <1> QED
    BY <1>4, <1>5, <1>6, <1>7

\* ... and that join one at its end.
LEMMA EntryPut ==
    ASSUME NEW S, NEW s \in Seq(S), NEW e \in S
    PROVE  /\ OutsOf(Append(s, e)) = OutsOf(s) \cup {e.out}
           /\ (OneEach(s) /\ e.out \notin OutsOf(s)) => OneEach(Append(s, e))
           /\ (Headed(s) /\ e.header) => Headed(Append(s, e))
           /\ (Bare(s) /\ ~e.header) => Bare(Append(s, e))
  <1> DEFINE a == Append(s, e)
  <1>1. /\ DOMAIN s = 1 .. Len(s) /\ Len(s) \in Nat
        /\ DOMAIN a = 1 .. Len(s) + 1 /\ a[Len(s) + 1] = e
        /\ \A i \in 1 .. Len(s) : a[i] = s[i]
    BY AppendProperties
  <1>2. ToSet(a) = ToSet(s) \cup {e}
    BY PutInto
  <1> HIDE DEF a
  <1>3. OutsOf(s) = {x.out : x \in ToSet(s)} /\ OutsOf(a) = {x.out : x \in ToSet(a)}
    BY DEF OutsOf, InWork, ToSet
  <1>4. OutsOf(a) = OutsOf(s) \cup {e.out}
    BY <1>2, <1>3
  <1>5. ASSUME OneEach(s), e.out \notin OutsOf(s) PROVE OneEach(a)
    <2>1. \A i, j \in DOMAIN s : s[i].out = s[j].out => i = j
      BY <1>5 DEF OneEach
    <2>2. \A i \in DOMAIN s : s[i].out # e.out
      BY <1>5 DEF OutsOf, InWork
    <2> QED
      BY <1>1, <2>1, <2>2 DEF OneEach
  <1>6. (Headed(s) /\ e.header) => Headed(a)
    BY <1>1 DEF Headed
  <1>7. (Bare(s) /\ ~e.header) => Bare(a)
    BY <1>1 DEF Bare
  <1> QED
    BY <1>4, <1>5, <1>6, <1>7 DEF a

\* An empty queue has no entry.
LEMMA NoEntries ==
    OutsOf(<<>>) = {} /\ OneEach(<<>>) /\ Headed(<<>>) /\ Bare(<<>>)
  BY DEF OutsOf, InWork, OneEach, Headed, Bare

\* An output buffer outside the MFC has one place, and is not with the client.
LEMMA OutsideKept ==
    ASSUME IInv, ~EarlyFlush, [Next]_vars
    PROVE  Outside'
  <1>q. Contents /\ Outside /\ OwnTypes
    BY DEF IInv, Control, Types
  <1> USE DEF IInv, Outside, OwnTypes, portVars, codecVars, setUp, told, Goes, Running, Ports,
          Threads
  <1>1. ASSUME NEW n \in Pictures, NEW last \in BOOLEAN, EmptyThisBuffer(n, last)
        PROVE  Outside'
    BY <1>1 DEF EmptyThisBuffer
  <1>2. ASSUME NEW o \in Outs, FillThisBuffer(o)
        PROVE  Outside'
    <2>1. /\ ~inOMX[o] /\ queue'["out"] = Append(queue["out"], o)
          /\ UNCHANGED <<direct, dstHeld, outBuf>>
      BY <1>2, <1>q DEF FillThisBuffer, Contents, QueueTypes
    <2>2. inOMX'[o] /\ (\A x \in Outs : x # o => inOMX'[x] = inOMX[x])
      BY <1>2, <1>q DEF FillThisBuffer, OwnTypes
    <2>3. o \notin ToSet(queue["out"]) /\ o \notin {direct, dstHeld, outBuf}
      BY <1>q, <2>1, EncoderSizes DEF Outside
    <2>4. /\ IsInjective(queue'["out"]) /\ ToSet(queue'["out"]) = ToSet(queue["out"]) \cup {o}
          /\ ToSet(queue["out"]) \subseteq Outs
      BY <1>q, <2>1, <2>3, OutputRanges DEF Outside
    <2>5. {direct, dstHeld, outBuf} \ {None} \subseteq Outs
      BY <1>q DEF Contents, HandTypes
    <2> QED
      BY <1>q, <2>1, <2>2, <2>3, <2>4, <2>5 DEF Outside
  <1>3. CASE SrcInputBufferProcess
    BY <1>3 DEF SrcInputBufferProcess, Open, Preprocessor_InputData
  <1>4. CASE CodecBufferDeQueue
    BY <1>4 DEF CodecBufferDeQueue
  <1>5. CASE InputBufferGetQueue
    <2>1. queue'["out"] = queue["out"] /\ UNCHANGED <<direct, dstHeld, outBuf, inOMX>>
      BY <1>5, <1>q DEF InputBufferGetQueue, Contents, QueueTypes
    <2> QED
      BY <1>q, <2>1 DEF Outside
  <1>6. CASE SrcInputRefused
    BY <1>6 DEF SrcInputRefused, Forgets
  <1>7. CASE SrcSetupEos
    BY <1>7 DEF SrcSetupEos, EosAlone, Forgets
  <1>8. CASE SrcSetupEosAnswered
    <2>1. UNCHANGED <<direct, dstHeld, outBuf>>
      BY <1>8 DEF SrcSetupEosAnswered, Forgets
    <2>2. CASE queue["out"] = <<>>
      BY <1>8, <1>q, <2>1, <2>2 DEF SrcSetupEosAnswered, Forgets
    <2>3. CASE queue["out"] # <<>>
      <3> DEFINE h == Head(queue["out"])
      <3>1. queue'["out"] = Tail(queue["out"]) /\ inOMX' = [inOMX EXCEPT ![h] = FALSE]
        BY <1>8, <1>q, <2>3 DEF SrcSetupEosAnswered, Forgets, Contents, QueueTypes
      <3>2. /\ IsInjective(queue'["out"]) /\ h \in Outs /\ h \in ToSet(queue["out"])
            /\ ToSet(queue'["out"]) = ToSet(queue["out"]) \ {h}
            /\ ToSet(queue["out"]) \subseteq Outs
        BY <1>q, <2>3, <3>1, OutputRanges DEF Outside
      <3>3. {direct, dstHeld, outBuf} \ {None} \subseteq Outs
        BY <1>q DEF Contents, HandTypes
      <3>4. \A x \in Outs : x # h => inOMX'[x] = inOMX[x]
        BY <1>q, <3>1, <3>2 DEF OwnTypes
      <3> QED
        BY <1>q, <2>1, <3>2, <3>3, <3>4 DEF Outside
    <2> QED
      BY <2>2, <2>3
  <1>9. CASE SrcIn
    BY <1>9 DEF SrcIn, EosAlone, Enqueued
  <1>10. CASE DstSetup
    BY <1>10 DEF DstSetup, EosAlone, Enqueued
  <1>11. CASE DstSetupTakes
    <2>1. UNCHANGED <<dstHeld, outBuf, inOMX>> /\ direct = None
      BY <1>11 DEF DstSetupTakes, IInv, Control, Holding
    <2>2. CASE queue["out"] = <<>>
      BY <1>11, <1>q, <2>1, <2>2 DEF DstSetupTakes
    <2>3. CASE queue["out"] # <<>>
      <3> DEFINE h == Head(queue["out"])
      <3>1. queue'["out"] = Tail(queue["out"]) /\ direct' = h
        BY <1>11, <1>q, <2>3 DEF DstSetupTakes, Contents, QueueTypes
      <3>2. /\ IsInjective(queue'["out"]) /\ h \in Outs /\ h \in ToSet(queue["out"])
            /\ ToSet(queue'["out"]) = ToSet(queue["out"]) \ {h}
        BY <1>q, <2>3, <3>1, OutputRanges DEF Outside
      <3> QED
        BY <1>q, <2>1, <3>1, <3>2 DEF Outside
    <2> QED
      BY <2>2, <2>3
  <1>12. CASE DstSetupEnds
    <2>1. UNCHANGED <<queue, dstHeld, outBuf>> /\ direct' = None
      BY <1>12 DEF DstSetupEnds
    <2>2. direct \in Outs /\ direct # None
      BY <1>12, <1>q DEF DstSetupEnds, IInv, Control, Holding, Contents, HandTypes
    <2>3. inOMX' = inOMX \/ inOMX' = [inOMX EXCEPT ![direct] = FALSE]
      BY <1>12 DEF DstSetupEnds
    <2>4. \A x \in Outs : x # direct => inOMX'[x] = inOMX[x]
      BY <1>q, <2>2, <2>3 DEF OwnTypes
    <2>5. ToSet(queue["out"]) \subseteq Outs /\ {dstHeld, outBuf} \ {None} \subseteq Outs
      BY <1>q, OutputRanges DEF Outside, Contents, HandTypes
    <2> QED
      BY <1>q, <2>1, <2>2, <2>4, <2>5, EncoderSizes DEF Outside
  <1>13. CASE SrcOutputBufferProcess
    BY <1>13 DEF SrcOutputBufferProcess
  <1>14. CASE SrcOutputStarts
    BY <1>14 DEF SrcOutputStarts
  <1>15. CASE SrcOut
    BY <1>15 DEF SrcOut
  <1>16. CASE DstInputBufferProcess
    BY <1>16 DEF DstInputBufferProcess, Open
  <1>17. CASE OutputBufferGetQueue
    <2>1. UNCHANGED <<direct, outBuf, inOMX>> /\ dstHeld = None
      BY <1>17 DEF OutputBufferGetQueue, IInv, Control, Holding
    <2>2. CASE queue["out"] = <<>>
      BY <1>17, <1>q, <2>1, <2>2 DEF OutputBufferGetQueue
    <2>3. CASE queue["out"] # <<>>
      <3> DEFINE h == Head(queue["out"])
      <3>1. queue'["out"] = Tail(queue["out"]) /\ (dstHeld' = None \/ dstHeld' = h)
        BY <1>17, <1>q, <2>1, <2>3 DEF OutputBufferGetQueue, Contents, QueueTypes
      <3>2. /\ IsInjective(queue'["out"]) /\ h \in Outs /\ h \in ToSet(queue["out"])
            /\ ToSet(queue'["out"]) = ToSet(queue["out"]) \ {h}
        BY <1>q, <2>3, <3>1, OutputRanges DEF Outside
      <3>3. h # None /\ h \notin {direct, outBuf} /\ inOMX[h]
        BY <1>q, <3>2, EncoderSizes DEF Outside
      <3> QED
        BY <1>q, <2>1, <3>1, <3>2, <3>3, EncoderSizes DEF Outside
    <2> QED
      BY <2>2, <2>3
  <1>18. CASE DstInputProcess
    <2>1. UNCHANGED <<queue, direct, outBuf, inOMX>> /\ (dstHeld' = None \/ dstHeld' = dstHeld)
      BY <1>18 DEF DstInputProcess
    <2>2. None \notin ToSet(queue["out"])
      BY <1>q, OutputRanges, EncoderSizes DEF Outside
    <2> QED
      BY <1>q, <2>1, <2>2 DEF Outside
  <1>19. CASE DstInputStarts
    <2>1. UNCHANGED <<queue, direct, outBuf, inOMX>> /\ dstHeld' = None
      BY <1>19 DEF DstInputStarts
    <2>2. None \notin ToSet(queue["out"])
      BY <1>q, OutputRanges, EncoderSizes DEF Outside
    <2> QED
      BY <1>q, <2>1, <2>2 DEF Outside
  <1>20. CASE DstOutputBufferProcess
    BY <1>20 DEF DstOutputBufferProcess
  <1>21. CASE DstOut
    <2> DEFINE h == IF Head(mfcOut.done).header THEN Head(mfcOut.done).out ELSE None
    <2>1. UNCHANGED <<queue, direct, dstHeld>> /\ started
      BY <1>21 DEF DstOut, IInv, Control, Begun
    <2>2. \/ outBuf' = None /\ inOMX' = inOMX
          \/ mfcOut.done # <<>> /\ outBuf' = h /\ inOMX' = inOMX
          \/ mfcOut.done # <<>> /\ outBuf' = None /\ inOMX' = [o \in Outs |-> inOMX[o] /\ o # h]
      BY <1>21, Zenon DEF DstOut, Garbage
    <2>3. /\ ToSet(queue["out"]) \subseteq Outs /\ {direct, dstHeld} \ {None} \subseteq Outs
          /\ None \notin ToSet(queue["out"])
      BY <1>q, OutputRanges, EncoderSizes DEF Outside, Contents, HandTypes
    <2>4. CASE outBuf' = None /\ inOMX' = inOMX
      BY <1>q, <2>1, <2>3, <2>4 DEF Outside
    <2>5. ASSUME mfcOut.done # <<>>
          PROVE  /\ h \in Outs /\ h # None /\ inOMX[h]
                 /\ h \notin ToSet(queue["out"]) /\ h \notin {direct, dstHeld}
      <3>1. /\ Head(mfcOut.done) \in Written /\ mfcOut.done \in Seq(Written)
            /\ Headed(mfcOut.done) /\ Elsewhere(mfcOut.done)
        BY <1>q, <2>1, <2>5, OutputTyped DEF IInv, Inside
      <3>2. /\ h = Head(mfcOut.done).out /\ h \in OutsOf(mfcOut.done)
        BY <2>5, <3>1, EntryTaken
      <3> QED
        BY <3>1, <3>2, EncoderSizes DEF Elsewhere, Away, Written
    <2> HIDE DEF h
    <2>6. CASE mfcOut.done # <<>> /\ outBuf' = h /\ inOMX' = inOMX
      BY <1>q, <2>1, <2>3, <2>5, <2>6 DEF Outside
    <2>7. CASE mfcOut.done # <<>> /\ outBuf' = None /\ inOMX' = [o \in Outs |-> inOMX[o] /\ o # h]
      <3>1. \A o \in Outs : o # h => inOMX'[o] = inOMX[o]
        BY <1>q, <2>7 DEF OwnTypes
      <3> QED
        BY <1>q, <2>1, <2>3, <2>5, <2>7, <3>1 DEF Outside
    <2> QED
      BY <2>2, <2>4, <2>6, <2>7
  <1>22. CASE EncodeHeader
    BY <1>22 DEF EncodeHeader
  <1>23. CASE Encode
    BY <1>23 DEF Encode
  <1>24. CASE FlushBegins
    BY <1>24 DEF FlushBegins, FlushWakes
  <1>25. CASE FlushStops
    BY <1>25 DEF FlushStops, Dry, Drained
  <1>26. CASE FlushEndsPort
    <2>1. UNCHANGED <<direct, dstHeld>>
      BY <1>26 DEF FlushEndsPort
    <2>2. CASE ctl.port = "in"
      <3>1. queue'["out"] = queue["out"] /\ UNCHANGED <<outBuf, inOMX>>
        BY <1>26, <1>q, <2>2 DEF FlushEndsPort, FlushedIn, Contents, QueueTypes
      <3> QED
        BY <1>q, <2>1, <3>1 DEF Outside
    <2>3. CASE ctl.port = "out"
      <3>1. direct = None /\ dstHeld = None
        BY <1>26, <2>3 DEF FlushEndsPort, IInv, Control, Locked, Holding, Begun
      <3>2. queue'["out"] = <<>> /\ outBuf' = None
        BY <1>26, <1>q, <2>3 DEF FlushEndsPort, FlushedOut, Contents, QueueTypes
      <3> QED
        BY <1>q, <2>1, <3>1, <3>2, OutputRanges DEF Outside
    <2> QED
      BY <1>26, <2>2, <2>3 DEF IInv, Control, Types, CommandTypes
  <1>27. CASE Resumes
    BY <1>27 DEF Resumes
  <1>28. CASE BufferProcess_Terminate
    BY <1>28 DEF BufferProcess_Terminate, Joined, Dry, Drained
  <1>29. CASE UNCHANGED vars
    BY <1>29 DEF vars
  <1> QED
    BY <1>1, <1>2, <1>3, <1>4, <1>5, <1>6, <1>7, <1>8, <1>9, <1>10, <1>11, <1>12, <1>13, <1>14,
         <1>15, <1>16, <1>17, <1>18, <1>19, <1>20, <1>21, <1>22, <1>23, <1>24, <1>25, <1>26,
         <1>27, <1>28, <1>29 DEF Next, SrcInput, SrcOutput, DstInput, DstOutput, MFC, Command


\* The entries of the MFC's output are output buffers.
LEMMA MfcOuts ==
    ASSUME Contents
    PROVE  OutsOf(mfcOut.work) \subseteq Outs /\ OutsOf(mfcOut.done) \subseteq Outs
  <1>1. mfcOut.work \in Seq(Empties) /\ mfcOut.done \in Seq(Written)
    BY OutputTyped
  <1>2. /\ \A i \in DOMAIN mfcOut.work : mfcOut.work[i] \in Empties
        /\ \A i \in DOMAIN mfcOut.done : mfcOut.done[i] \in Written
    BY <1>1
  <1> QED
    BY <1>2 DEF OutsOf, InWork, Empties, Written

\* The buffer for the header data is there once it is announced.
LEMMA HeaderFindsBuffer ==
    ASSUME IInv, pc["srcIn"] = "headerWait", sem["out"] > 0
    PROVE  queue["out"] # <<>>
  <1>1. sem["out"] = Len(queue["out"])
    BY DEF IInv, Control, Begun, Commands, AtWork, Permits, PermitsOf
  <1>2. queue["out"] = <<>> => Len(queue["out"]) = 0
    BY Lengths DEF IInv, Control
  <1> QED
    BY <1>1, <1>2

\* What the MFC has stays alone there when what changes is elsewhere.
LEMMA InsideSame ==
    ASSUME Inside, mfcOut'.work = mfcOut.work, mfcOut'.done = mfcOut.done, started' = started,
           started => \A o \in OutsOf(mfcOut.work) \cup OutsOf(mfcOut.done) : Away(o) => Away(o)'
    PROVE  Inside'
  BY DEF Inside, Elsewhere

\* DstInput gives its buffer to the MFC, and has it no more.
LEMMA InsideGiven ==
    ASSUME Contents, Outside, Inside, started, dstHeld \in Outs,
           mfcOut' = [mfcOut EXCEPT !.on = TRUE,
                         !.work = Append(@, [out |-> dstHeld, header |-> TRUE])],
           UNCHANGED <<queue, direct, outBuf, inOMX, started>>, dstHeld' = None
    PROVE  Inside'
  <1> DEFINE e == [out |-> dstHeld, header |-> TRUE]
  <1>1. mfcOut'.work = Append(mfcOut.work, e) /\ mfcOut'.done = mfcOut.done
    BY DEF Contents, OutputType
  <1>2. e \in Empties /\ mfcOut.work \in Seq(Empties) /\ e.out = dstHeld /\ e.header
    BY OutputTyped DEF Empties
  <1> HIDE DEF e
  <1>3. /\ Headed(mfcOut.work) /\ Headed(mfcOut.done)
        /\ OneEach(mfcOut.work) /\ OneEach(mfcOut.done)
        /\ OutsOf(mfcOut.work) \cap OutsOf(mfcOut.done) = {}
        /\ Elsewhere(mfcOut.work) /\ Elsewhere(mfcOut.done)
    BY DEF Inside
  <1>4. dstHeld \notin OutsOf(mfcOut.work) /\ dstHeld \notin OutsOf(mfcOut.done)
    BY <1>3 DEF Elsewhere, Away
  <1>5. /\ OutsOf(mfcOut'.work) = OutsOf(mfcOut.work) \cup {dstHeld}
        /\ OneEach(mfcOut'.work) /\ Headed(mfcOut'.work)
    <2>1. /\ OutsOf(Append(mfcOut.work, e)) = OutsOf(mfcOut.work) \cup {e.out}
          /\ (OneEach(mfcOut.work) /\ e.out \notin OutsOf(mfcOut.work))
                => OneEach(Append(mfcOut.work, e))
          /\ (Headed(mfcOut.work) /\ e.header) => Headed(Append(mfcOut.work, e))
      BY ONLY <1>2, EntryPut
    <2> QED
      BY <1>1, <1>2, <1>3, <1>4, <2>1
  <1>6. \A x \in Outs : Away(x) => Away(x)'
    BY EncoderSizes DEF Away
  <1>7. \A x \in Outs : x = dstHeld => Away(x)'
    BY EncoderSizes DEF Away, Outside
  <1> QED
    BY <1>1, <1>3, <1>4, <1>5, <1>6, <1>7, MfcOuts DEF Inside, Elsewhere

\* A buffer that was written joins the others.
LEMMA DonePut ==
    ASSUME Contents, NEW w \in Written
    PROVE  /\ OutsOf(Append(mfcOut.done, w)) = OutsOf(mfcOut.done) \cup {w.out}
           /\ (OneEach(mfcOut.done) /\ w.out \notin OutsOf(mfcOut.done))
                 => OneEach(Append(mfcOut.done, w))
           /\ (Headed(mfcOut.done) /\ w.header) => Headed(Append(mfcOut.done, w))
  <1>1. mfcOut.done \in Seq(Written)
    BY OutputTyped
  <1> QED
    BY ONLY <1>1, EntryPut

\* An output buffer with the MFC is there once, and nowhere else.
LEMMA InsideKept ==
    ASSUME IInv, ~EarlyFlush, [Next]_vars
    PROVE  Inside'
  <1>q. Contents /\ Outside /\ OwnTypes /\ Inside
    BY DEF IInv, Control, Types
  <1> USE DEF IInv, Inside, Elsewhere, Away, portVars, codecVars, setUp, told, Goes, Running,
          Ports, Threads
  <1>1. ASSUME NEW n \in Pictures, NEW last \in BOOLEAN, EmptyThisBuffer(n, last)
        PROVE  Inside'
    BY <1>1 DEF EmptyThisBuffer
  <1>2. ASSUME NEW o \in Outs, FillThisBuffer(o)
        PROVE  Inside'
    <2>1. /\ ~inOMX[o] /\ queue'["out"] = Append(queue["out"], o)
          /\ UNCHANGED <<direct, dstHeld, outBuf, mfcOut, started>>
          /\ inOMX' = [inOMX EXCEPT ![o] = TRUE]
      BY <1>2, <1>q DEF FillThisBuffer, Contents, QueueTypes
    <2>2. \A x \in Outs : x # o => inOMX'[x] = inOMX[x]
      BY <1>q, <2>1 DEF OwnTypes
    <2>3. ToSet(queue'["out"]) = ToSet(queue["out"]) \cup {o}
      BY <1>q, <2>1, PutInto DEF Contents, QueueTypes
    <2>4. \A x \in Outs : Away(x) => Away(x)'
      BY <2>1, <2>2, <2>3 DEF Away
    <2> QED
      BY <1>q, <2>1, <2>4, InsideSame, MfcOuts
  <1>3. CASE SrcInputBufferProcess
    BY <1>3 DEF SrcInputBufferProcess, Open, Preprocessor_InputData
  <1>4. CASE CodecBufferDeQueue
    BY <1>4 DEF CodecBufferDeQueue
  <1>5. CASE InputBufferGetQueue
    <2>1. /\ queue'["out"] = queue["out"]
          /\ UNCHANGED <<direct, dstHeld, outBuf, mfcOut, started, inOMX>>
      BY <1>5, <1>q DEF InputBufferGetQueue, Contents, QueueTypes
    <2> QED
      BY <1>q, <2>1, InsideSame DEF Away
  <1>6. CASE SrcInputRefused
    BY <1>6 DEF SrcInputRefused, Forgets
  <1>7. CASE SrcSetupEos
    BY <1>7 DEF SrcSetupEos, EosAlone, Forgets
  <1>8. CASE SrcSetupEosAnswered
    <2>1. UNCHANGED <<direct, dstHeld, outBuf, mfcOut, started>>
      BY <1>8 DEF SrcSetupEosAnswered, Forgets
    <2>2. CASE queue["out"] = <<>>
      BY <1>8, <1>q, <2>1, <2>2, InsideSame DEF SrcSetupEosAnswered, Forgets, Away
    <2>3. CASE queue["out"] # <<>>
      <3> DEFINE h == Head(queue["out"])
      <3>1. queue'["out"] = Tail(queue["out"]) /\ inOMX' = [inOMX EXCEPT ![h] = FALSE]
        BY <1>8, <1>q, <2>3 DEF SrcSetupEosAnswered, Forgets, Contents, QueueTypes
      <3>2. /\ h \in Outs /\ h \in ToSet(queue["out"])
            /\ ToSet(queue'["out"]) = ToSet(queue["out"]) \ {h}
        BY <1>q, <2>3, <3>1, OutputRanges DEF Outside
      <3>3. \A x \in Outs : x # h => inOMX'[x] = inOMX[x]
        BY <1>q, <3>1, <3>2 DEF OwnTypes
      <3>4. \A x \in Outs : Away(x) => Away(x)'
        BY <2>1, <3>2, <3>3 DEF Away
      <3> QED
        BY <1>q, <2>1, <3>4, InsideSame, MfcOuts
    <2> QED
      BY <2>2, <2>3
  <1>9. CASE SrcIn
    <2>1. UNCHANGED <<queue, direct, dstHeld, outBuf, mfcOut, inOMX>> /\ started' = started
      BY <1>9 DEF SrcIn, Enqueued, IInv, Control, Begun
    <2> QED
      BY <1>q, <2>1, InsideSame DEF Away
  <1>10. CASE DstSetup
    <2>1. ~started /\ ~flushing["out"]
      BY <1>10 DEF DstSetup, IInv, Control, Begun, Commands, AtWork
    <2>2. /\ mfcOut'.done = <<>> /\ started' = started
          /\ mfcOut'.work = [i \in 1 .. Cardinality(Outs) |->
                                [out |-> SetToSeq(Outs)[i], header |-> FALSE]]
      BY <1>10, <1>q, <2>1 DEF DstSetup, Contents, OutputType
    <2> QED
      BY <2>1, <2>2, NoEntries DEF Bare
  <1>11. CASE DstSetupTakes
    <2>1. queue["out"] # <<>> /\ ~started
      BY <1>11, <1>q, HeaderFindsBuffer DEF DstSetupTakes, IInv, Control, Begun
    <2>2. UNCHANGED <<mfcOut, started>>
      BY <1>11, <2>1 DEF DstSetupTakes
    <2> QED
      BY <1>q, <2>1, <2>2, InsideSame
  <1>12. CASE DstSetupEnds
    <2>1. mfcOut.on
      BY <1>12 DEF DstSetupEnds, IInv, Control, Begun
    <2>2. started' /\ mfcOut'.work = <<>> /\ mfcOut'.done = <<>>
      BY <1>12, <2>1 DEF DstSetupEnds, Enqueued, Drained
    <2> QED
      BY <2>2, NoEntries
  <1>13. CASE SrcOutputBufferProcess
    BY <1>13 DEF SrcOutputBufferProcess
  <1>14. CASE SrcOutputStarts
    BY <1>14 DEF SrcOutputStarts
  <1>15. CASE SrcOut
    BY <1>15 DEF SrcOut
  <1>16. CASE DstInputBufferProcess
    BY <1>16 DEF DstInputBufferProcess, Open
  <1>17. CASE OutputBufferGetQueue
    <2>1. UNCHANGED <<direct, outBuf, inOMX, mfcOut, started>> /\ dstHeld = None
      BY <1>17 DEF OutputBufferGetQueue, IInv, Control, Holding
    <2>2. CASE queue["out"] = <<>>
      BY <1>17, <1>q, <2>1, <2>2, InsideSame DEF OutputBufferGetQueue, Away
    <2>3. CASE queue["out"] # <<>>
      <3> DEFINE h == Head(queue["out"])
      <3>1. queue'["out"] = Tail(queue["out"]) /\ (dstHeld' = None \/ dstHeld' = h)
        BY <1>17, <1>q, <2>1, <2>3 DEF OutputBufferGetQueue, Contents, QueueTypes
      <3>2. /\ h \in ToSet(queue["out"])
            /\ ToSet(queue'["out"]) = ToSet(queue["out"]) \ {h}
        BY <1>q, <2>3, <3>1, OutputRanges DEF Outside
      <3>3. \A x \in Outs : Away(x) => Away(x)'
        BY <2>1, <3>1, <3>2, EncoderSizes DEF Away
      <3> QED
        BY <1>q, <2>1, <3>3, InsideSame, MfcOuts
    <2> QED
      BY <2>2, <2>3
  <1>18. CASE DstInputProcess
    <2>1. /\ UNCHANGED <<queue, direct, outBuf, inOMX, started>>
          /\ dstHeld \in Outs /\ (dstHeld' = dstHeld \/ dstHeld' = None)
      BY <1>18, <1>q DEF DstInputProcess, IInv, Control, Holding, Contents, HandTypes
    <2>2. CASE UNCHANGED mfcOut
      BY <1>q, <2>1, <2>2, InsideSame, MfcOuts, EncoderSizes DEF Away
    <2>3. CASE ~UNCHANGED mfcOut
      BY <1>18, <1>q, <2>1, <2>3, InsideGiven DEF DstInputProcess, IInv, Control, Begun
    <2> QED
      BY <2>2, <2>3
  <1>19. CASE DstInputStarts
    <2>1. /\ UNCHANGED <<queue, direct, outBuf, inOMX, started>> /\ dstHeld \in Outs /\ dstHeld' = None
      BY <1>19, <1>q DEF DstInputStarts, IInv, Control, Holding, Contents, HandTypes
    <2>2. CASE UNCHANGED mfcOut
      BY <1>q, <2>1, <2>2, InsideSame, MfcOuts, EncoderSizes DEF Away
    <2>3. CASE ~UNCHANGED mfcOut
      BY <1>19, <1>q, <2>1, <2>3, InsideGiven DEF DstInputStarts, IInv, Control, Begun
    <2> QED
      BY <2>2, <2>3
  <1>20. CASE DstOutputBufferProcess
    BY <1>20 DEF DstOutputBufferProcess
  <1>21. CASE DstOut
    <2>1. UNCHANGED <<queue, direct, dstHeld, started>> /\ started
      BY <1>21 DEF DstOut, IInv, Control, Begun
    <2>2. CASE ~mfcOut.on
      BY <1>21, <1>q, <2>1, <2>2, InsideSame, MfcOuts, EncoderSizes DEF DstOut, Away
    <2>3. CASE mfcOut.on
      <3> DEFINE h == Head(mfcOut.done).out
      <3>1. mfcOut.done # <<>> /\ mfcOut' = [mfcOut EXCEPT !.done = Tail(@)]
        BY <1>21, <2>3 DEF DstOut
      <3>2. mfcOut'.work = mfcOut.work /\ mfcOut'.done = Tail(mfcOut.done)
        BY <1>q, <3>1 DEF Contents, OutputType
      <3>3. /\ Headed(mfcOut.done) /\ OneEach(mfcOut.done) /\ mfcOut.done \in Seq(Written)
        BY <1>q, <2>1, OutputTyped DEF Inside
      <3>4. /\ OutsOf(mfcOut.done) = {h} \cup OutsOf(mfcOut'.done) /\ OneEach(mfcOut'.done)
            /\ h \notin OutsOf(mfcOut'.done) /\ Headed(mfcOut'.done) /\ Head(mfcOut.done).header
        BY <3>1, <3>2, <3>3, EntryTaken
      <3>5. outBuf' = h \/ outBuf' = None
        BY <1>21, <2>3, <3>4 DEF DstOut
      <3>6. inOMX' = inOMX \/ inOMX' = [o \in Outs |-> inOMX[o] /\ o # h]
        BY <1>21, <2>3, <3>4 DEF DstOut
      <3> HIDE DEF h
      <3>7. \A x \in Outs : x # h => inOMX'[x] = inOMX[x]
        BY <1>q, <3>6 DEF OwnTypes
      <3>8. \A x \in Outs : (x # h /\ Away(x)) => Away(x)'
        BY <2>1, <3>5, <3>7, EncoderSizes DEF Away
      <3>9. h \notin OutsOf(mfcOut.work)
        BY <1>q, <2>1, <3>4 DEF Inside
      <3> QED
        BY <1>q, <2>1, <3>2, <3>4, <3>8, <3>9, MfcOuts DEF Inside, Elsewhere
    <2> QED
      BY <2>2, <2>3
  <1>22. CASE EncodeHeader
    <2> DEFINE w == Coded(Head(mfcOut.work), 0)
    <2>1. ~started /\ mfcOut.work # <<>> /\ UNCHANGED started
      BY <1>22 DEF EncodeHeader, IInv, Control, Begun
    <2>2. mfcOut'.work = Tail(mfcOut.work) /\ mfcOut'.done = Append(mfcOut.done, w)
      BY <1>22, <1>q DEF EncodeHeader, Contents, OutputType
    <2>3. /\ mfcOut.work \in Seq(Empties) /\ mfcOut.done \in Seq(Written) /\ w \in Written
      BY <1>q, <2>1, EncoderSizes, OutputTyped DEF Coded, Empties, Written
    <2>4. Bare(mfcOut.work) /\ Bare(mfcOut.done)
      BY <1>q, <2>1 DEF Inside
    <2>5. ~Head(mfcOut.work).header /\ Bare(mfcOut'.work)
      BY <2>1, <2>2, <2>3, <2>4, EntryTaken
    <2>6. ~w.header
      BY <2>5 DEF Coded
    <2> HIDE DEF w
    <2>7. Bare(mfcOut'.done)
      BY <2>2, <2>3, <2>4, <2>6, EntryPut
    <2> QED
      BY <2>1, <2>5, <2>7
  <1>23. CASE Encode
    <2> DEFINE w == Coded(Head(mfcOut.work), Head(mfcIn.work).frame)
               e == Head(mfcOut.work)
    <2>1. /\ mfcOut.work # <<>> /\ mfcIn.work # <<>>
          /\ UNCHANGED <<queue, direct, dstHeld, outBuf, started, inOMX>>
      BY <1>23 DEF Encode
    <2>2. mfcOut'.work = Tail(mfcOut.work) /\ mfcOut'.done = Append(mfcOut.done, w)
      BY <1>23, <1>q DEF Encode, Contents, OutputType
    <2>3. /\ mfcOut.work \in Seq(Empties) /\ mfcOut.done \in Seq(Written) /\ w \in Written
          /\ w.out = e.out /\ w.header = e.header
      <3>1. e \in Empties /\ Head(mfcIn.work).frame \in 0 .. NumFrames
        BY <1>q, <2>1, InputTyped, OutputTyped DEF Pictures
      <3> QED
        BY <1>q, <3>1, OutputTyped DEF Coded, Empties, Written
    <2> HIDE DEF w, e
    <2>4. CASE ~started
      <3>1. Bare(mfcOut.work) /\ Bare(mfcOut.done)
        BY <1>q, <2>4 DEF Inside
      <3>2. ~e.header /\ Bare(mfcOut'.work)
        BY <2>1, <2>2, <2>3, <3>1, EntryTaken DEF e
      <3>3. Bare(mfcOut'.done)
        BY <2>2, <2>3, <3>1, <3>2, EntryPut
      <3> QED
        BY <2>1, <2>4, <3>2, <3>3
    <2>5. CASE started
      <3>1. /\ Headed(mfcOut.work) /\ Headed(mfcOut.done)
            /\ OneEach(mfcOut.work) /\ OneEach(mfcOut.done)
            /\ OutsOf(mfcOut.work) \cap OutsOf(mfcOut.done) = {}
            /\ Elsewhere(mfcOut.work) /\ Elsewhere(mfcOut.done)
        BY <1>q, <2>5 DEF Inside
      <3>2. /\ OutsOf(mfcOut.work) = {e.out} \cup OutsOf(mfcOut'.work)
            /\ OneEach(mfcOut'.work) /\ e.out \notin OutsOf(mfcOut'.work)
            /\ e.header /\ Headed(mfcOut'.work)
        BY <2>1, <2>2, <2>3, <3>1, EntryTaken DEF e
      <3>3. e.out \notin OutsOf(mfcOut.done)
        BY <3>1, <3>2
      <3>4. /\ OutsOf(mfcOut'.done) = OutsOf(mfcOut.done) \cup {e.out}
            /\ OneEach(mfcOut'.done) /\ Headed(mfcOut'.done)
        BY <1>q, <2>2, <2>3, <3>1, <3>2, <3>3, DonePut
      <3>5. \A x : Away(x) => Away(x)'
        BY <2>1 DEF Away
      <3> QED
        BY <2>1, <2>5, <3>1, <3>2, <3>4, <3>5 DEF Elsewhere
    <2> QED
      BY <2>4, <2>5
  <1>24. CASE FlushBegins
    BY <1>24 DEF FlushBegins, FlushWakes
  <1>25. CASE FlushStops
    <2>1. UNCHANGED <<queue, direct, dstHeld, outBuf, started, inOMX>>
      BY <1>25 DEF FlushStops
    <2>2. mfcOut' = mfcOut \/ mfcOut' = Drained(mfcOut.headed)
      BY <1>25 DEF FlushStops
    <2>3. CASE mfcOut' = mfcOut
      BY <1>q, <2>1, <2>3, InsideSame DEF Away
    <2>4. CASE mfcOut' = Drained(mfcOut.headed)
      BY <2>1, <2>4, NoEntries DEF Drained
    <2> QED
      BY <2>2, <2>3, <2>4
  <1>26. CASE FlushEndsPort
    <2>1. UNCHANGED <<direct, dstHeld, mfcOut, started>>
      BY <1>26 DEF FlushEndsPort
    <2>2. CASE ctl.port = "in"
      <3>1. queue'["out"] = queue["out"] /\ UNCHANGED <<outBuf, inOMX>>
        BY <1>26, <1>q, <2>2 DEF FlushEndsPort, FlushedIn, Contents, QueueTypes
      <3> QED
        BY <1>q, <2>1, <3>1, InsideSame DEF Away
    <2>3. CASE ctl.port = "out"
      <3>1. mfcOut.work = <<>> /\ mfcOut.done = <<>>
        BY <1>26, <2>3 DEF FlushEndsPort, IInv, Control, Locked
      <3> QED
        BY <2>1, <3>1, NoEntries
    <2> QED
      BY <1>26, <2>2, <2>3 DEF IInv, Control, Types, CommandTypes
  <1>27. CASE Resumes
    BY <1>27 DEF Resumes
  <1>28. CASE BufferProcess_Terminate
    <2>1. UNCHANGED <<queue, direct, dstHeld, outBuf, started, inOMX>>
      BY <1>28 DEF BufferProcess_Terminate
    <2>2. mfcOut' = mfcOut \/ mfcOut' = Drained(mfcOut.headed)
      BY <1>28 DEF BufferProcess_Terminate
    <2>3. CASE mfcOut' = mfcOut
      BY <1>q, <2>1, <2>3, InsideSame DEF Away
    <2>4. CASE mfcOut' = Drained(mfcOut.headed)
      BY <2>1, <2>4, NoEntries DEF Drained
    <2> QED
      BY <2>2, <2>3, <2>4
  <1>29. CASE UNCHANGED vars
    BY <1>29 DEF vars
  <1> QED
    BY <1>1, <1>2, <1>3, <1>4, <1>5, <1>6, <1>7, <1>8, <1>9, <1>10, <1>11, <1>12, <1>13, <1>14,
         <1>15, <1>16, <1>17, <1>18, <1>19, <1>20, <1>21, <1>22, <1>23, <1>24, <1>25, <1>26,
         <1>27, <1>28, <1>29 DEF Next, SrcInput, SrcOutput, DstInput, DstOutput, MFC, Command

-----------------------------------------------------------------------------
(* The theorem for every client, and for both kinds of flush.                 *)

\* The encoder starts with the invariant.
LEMMA IInvInit ==
    ASSUME Init
    PROVE  IInv
  <1> USE EncoderSizes DEF Init
  <1>1. Types
    <2>1. CommandTypes
      BY DEF CommandTypes, Ports
    <2>2. FlagTypes
      BY DEF FlagTypes, Ports
    <2>3. OwnTypes
      BY DEF OwnTypes
    <2>4. PictureTypes
      BY DEF PictureTypes
    <2>5. PlaceTypes
      BY DEF PlaceTypes, Threads, AllPlaces
    <2> QED
      BY <2>1, <2>2, <2>3, <2>4, <2>5 DEF Types
  <1>2. Places
    BY DEF Places, SrcInPlaces, Threads
  <1>3. QueueTypes
    <2>1. <<>> \in Seq(Pictures) /\ <<>> \in Seq(Outs)
      BY EmptySeq
    <2>2. SetToSeq(Codecs) \in Seq(Codecs) /\ Cardinality(Codecs) \in Nat
      BY SetToSeqOf
    <2> QED
      BY <2>1, <2>2 DEF QueueTypes, Ports
  <1>4. HandTypes
    BY DEF HandTypes, BufferAndFrame, Free
  <1>5. InputType
    <2>1. <<>> \in Seq(Jobs) /\ <<>> \in Seq(Codecs)
      BY EmptySeq
    <2> QED
      BY <2>1 DEF InputType, Dry
  <1>6. OutputType
    <2>1. <<>> \in Seq(Empties) /\ <<>> \in Seq(Written)
      BY EmptySeq
    <2> QED
      BY <2>1 DEF OutputType, Drained
  <1>7. Commands
    BY DEF Commands, AtWork, Ports
  <1>8. Begun
    BY DEF Begun, Ports, Threads, Drained
  <1>9. Holding
    BY DEF Holding, Threads, WithPicture, Free
  <1>10. Locked
    BY DEF Locked
  <1>11. Contents
    BY <1>3, <1>4, <1>5, <1>6 DEF Contents
  <1>12. Permits
    <2>1. Len(queue["in"]) = 0 /\ Len(queue["out"]) = 0
      BY <1>11, Lengths
    <2>2. codecSem = Len(codecQ) /\ Len(codecQ) \in Nat
      BY <1>11, Lengths
    <2>3. sem["in"] = 0 /\ sem["out"] = 0
      BY DEF Ports
    <2> QED
      BY <2>1, <2>2, <2>3 DEF Permits, PermitsOf, CodecPermits, Fits
  <1>13. CodecsIn
    <2>1. /\ Len(codecQ) = Cardinality(Codecs) /\ Cardinality(Codecs) \in Nat
          /\ ToSet(codecQ) = Codecs
      BY <1>11, Lengths, CodecRanges
    <2>2. Len(mfcIn.work) = 0 /\ Len(mfcIn.done) = 0 /\ InHold = 0
      BY DryIsEmpty DEF InHold, Free
    <2> QED
      BY <2>1, <2>2 DEF CodecsIn, CodecsCounted, CodecsCovered, CodecCount, CodecSpots
  <1>14. Outside
    <2>1. queue["out"] = <<>> /\ direct = None /\ dstHeld = None /\ outBuf = None
      OBVIOUS
    <2> QED
      BY <2>1 DEF Outside, IsInjective, ToSet
  <1>15. Inside
    BY NoEntries DEF Inside, Drained
  <1> QED
    BY <1>1, <1>2, <1>7, <1>8, <1>9, <1>10, <1>11, <1>12, <1>13, <1>14, <1>15 DEF IInv, Control

\* Every step keeps it, once no command comes before the stream has begun.
LEMMA IInvStep ==
    ASSUME IInv, ~EarlyFlush, [Next]_vars
    PROVE  IInv'
  <1>1. Types'
    BY CommandTypesKept, FlagTypesKept, OwnTypesKept, PictureTypesKept, PlacesKept DEF Types
  <1>2. Contents'
    BY QueueTypesKept, HandTypesKept, InputTypeKept, OutputTypeKept DEF Contents
  <1>3. Control'
    BY <1>1, <1>2, PlacesKept, CommandsKept, BegunKept, HoldingKept, LockedKept DEF Control
  <1>4. Permits'
    BY PermitsInKept, PermitsOutKept, CodecPermitsKept, FitsKept DEF Permits
  <1> QED
    BY <1>3, <1>4, CodecsInKept, OutsideKept, InsideKept DEF IInv

\* The number of permits is bounded by the number of buffers.
LEMMA IInvBounds ==
    ASSUME IInv
    PROVE  /\ sem["in"] <= Room + 1 /\ sem["out"] <= Cardinality(Outs) + 1
           /\ codecSem <= Cardinality(Codecs) + 1
  <1>1. Contents /\ Permits /\ Outside /\ CodecsIn
    BY DEF IInv, Control
  <1>2. sem["in"] \in Nat /\ sem["out"] \in Nat /\ codecSem \in Nat /\ Room \in Nat
    BY <1>1, EncoderSizes DEF Contents, QueueTypes, Ports
  <1>3. sem["in"] <= Room + 1
    <2> DEFINE n == Len(queue["in"])
               b == IF inBuf = 0 THEN 0 ELSE 1
    <2>1. n \in Nat /\ b \in {0, 1}
      BY <1>1, Lengths
    <2>2. sem["in"] <= n + 1 /\ n + b <= Room
      BY <1>1 DEF Permits, PermitsOf, Fits
    <2> HIDE DEF n, b
    <2> QED
      BY <1>2, <2>1, <2>2
  <1>4. sem["out"] <= Cardinality(Outs) + 1
    <2>1. queue["out"] \in Seq(Outs) /\ IsInjective(queue["out"])
      BY <1>1 DEF Contents, QueueTypes, Outside
    <2>2. Len(queue["out"]) <= Cardinality(Outs) /\ Len(queue["out"]) \in Nat
      BY <2>1, EncoderSizes, NoLongerThanTheSet
    <2>3. Cardinality(Outs) \in Nat
      BY EncoderSizes, FS_CardinalityType
    <2>4. sem["out"] <= Len(queue["out"]) + 1
      BY <1>1 DEF Permits, PermitsOf
    <2> QED
      BY <1>2, <2>2, <2>3, <2>4
  <1>5. codecSem <= Cardinality(Codecs) + 1
    <2> DEFINE p == Len(codecQ)
               q == Len(mfcIn.work)
               r == Len(mfcIn.done)
               i == InHold
    <2>1. p \in Nat /\ q \in Nat /\ r \in Nat /\ Cardinality(Codecs) \in Nat
      BY <1>1, Lengths, InputLengths
    <2>2. i \in {0, 1}
      BY DEF InHold
    <2>3. p + q + r + i <= Cardinality(Codecs) /\ codecSem <= p + 1
      BY <1>1 DEF CodecsIn, CodecsCounted, CodecCount, Permits, CodecPermits
    <2> HIDE DEF p, q, r, i
    <2> QED
      BY <1>2, <2>1, <2>2, <2>3
  <1> QED
    BY <1>3, <1>4, <1>5

\* What the invariant says in the words of the component.
LEMMA IInvKeeps ==
    ASSUME IInv
    PROVE  /\ TypeOK /\ (~single => CodecBuffersKept)
           /\ PermitsMatch /\ KeptIsNotReturned
  <1>1. TypeOK
    BY IInvBounds DEF IInv, Control, Types, CommandTypes, FlagTypes, OwnTypes, PictureTypes,
          PlaceTypes, AllPlaces, Contents, QueueTypes, HandTypes, BufferAndFrame, TypeOK, Ports
  <1>2. ~single => CodecBuffersKept
    BY DEF IInv, CodecsIn, CodecsCounted, CodecsCovered, Counting, CodecCount, CodecSpots, InHold,
           CodecBuffersKept
  <1>3. PermitsMatch
    BY DEF IInv, Permits, PermitsOf, CodecPermits, PermitsMatch, Ports
  <1>4. KeptIsNotReturned
    <2>1. SUFFICES ASSUME NEW o \in Outs, ~inOMX[o]
                   PROVE  /\ o \notin ToSet(queue["out"]) \cup {dstHeld, direct, outBuf}
                          /\ \A s \in {mfcOut.work, mfcOut.done} :
                                \A i \in DOMAIN s : s[i].header => s[i].out # o
      BY DEF KeptIsNotReturned
    <2>2. o \notin ToSet(queue["out"]) \cup {dstHeld, direct, outBuf}
      BY <2>1, EncoderSizes DEF IInv, Outside
    <2>3. ASSUME NEW s \in {mfcOut.work, mfcOut.done}, NEW i \in DOMAIN s, s[i].header
          PROVE  s[i].out # o
      <3>1. started
        BY <2>3 DEF IInv, Inside, Bare
      <3>2. Elsewhere(s)
        BY <3>1 DEF IInv, Inside
      <3> QED
        BY <2>1, <3>2 DEF Elsewhere, Away, OutsOf, InWork
    <2> QED
      BY <2>2, <2>3
  <1> QED
    BY <1>1, <1>2, <1>3, <1>4

\* When no command comes before the first picture is encoded, no codec buffer is
\* lost or in two places while the input is not flushed (unless the stream is
\* one picture with EOS), the permits agree with the queues whenever no flush
\* releases a thread, and no buffer the client has back is used: whichever
\* ports the client flushes, and whether or not it waits.
THEOREM NoCodecBufferIsLost ==
    ASSUME ~EarlyFlush
    PROVE  Spec => [](/\ TypeOK /\ (~single => CodecBuffersKept)
                      /\ PermitsMatch /\ KeptIsNotReturned)
  <1>1. Init => IInv
    BY IInvInit
  <1>2. IInv /\ [Next]_vars => IInv'
    BY IInvStep
  <1>3. IInv => (/\ TypeOK /\ (~single => CodecBuffersKept)
                 /\ PermitsMatch /\ KeptIsNotReturned)
    BY IInvKeeps
  <1> QED
    BY <1>1, <1>2, <1>3, PTL DEF Spec

-----------------------------------------------------------------------------
(* With a client that flushes both ports together and waits for the end of    *)
(* its commands, the output buffers are found too.                            *)

\* Both ports are flushed, the input first.
InputFirst == (ctl.rest = "end" /\ AtWork) => ctl.port = "out"

\* After a flush the output waits for the stamp of one picture ...
StampShape == stamp.check => (~stamp.set /\ stamp.start # 0)
\* ... the next to come out of the MFC, ...
Awaited ==
    IF mfcOut.done # <<>> THEN Head(mfcOut.done).frame = stamp.start
    ELSE IF mfcIn.work # <<>> THEN Head(mfcIn.work).frame = stamp.start
    ELSE hold.frame = stamp.start
\* ... and before there is one, nothing is on its way.
NothingFed == hold.frame = 0 /\ mfcIn.work = <<>>
Stamps ==
    (mode = "executing" /\ ctl.at = "ready") =>
        (/\ stamp.check => Awaited
         /\ stamp.set => (NothingFed /\ mfcOut.done = <<>>))

\* While the output is flushed, and out of Executing, no picture is left.
InputFlushed ==
    (flushing["out"] \/ mode \in {"idle", "ended"}) =>
        (NothingFed /\ stamp.set /\ ~stamp.check /\ inBuf = 0 /\ queue["in"] = <<>>)
AllReturned == mode = "idle" => ((\A o \in Outs : ~inOMX[o]) /\ mfcOut.done = <<>>)

\* Where a buffer the component owes the client may be.
Owed ==
    ToSet(queue["out"]) \cup {dstHeld, direct}
      \cup (IF started THEN OutsOf(mfcOut.work) \cup OutsOf(mfcOut.done) ELSE {})
OwedFound == (mode = "executing" /\ ctl.at = "ready") => \A o \in Outs : inOMX[o] => o \in Owed

Both == InputFirst /\ StampShape /\ Stamps /\ InputFlushed /\ AllReturned /\ OwedFound
IInvFound == IInv /\ Both

\* The input is flushed first ...
LEMMA InputFirstKept ==
    ASSUME IInvFound, ~EarlyFlush, ~Separate, Patient, [Next]_vars
    PROVE  InputFirst'
  <1> USE DEF IInvFound, Both, InputFirst, IInv, Control, Types, CommandTypes, Commands, AtWork,
          portVars, codecVars, setUp, told, Goes, Running, Ports, Threads
  <1>1. ASSUME NEW n \in Pictures, NEW last \in BOOLEAN, EmptyThisBuffer(n, last)
        PROVE  InputFirst'
    BY <1>1 DEF EmptyThisBuffer
  <1>2. ASSUME NEW o \in Outs, FillThisBuffer(o)
        PROVE  InputFirst'
    BY <1>2 DEF FillThisBuffer
  <1>3. CASE SrcInputBufferProcess
    BY <1>3 DEF SrcInputBufferProcess, Open, Preprocessor_InputData
  <1>4. CASE CodecBufferDeQueue
    BY <1>4 DEF CodecBufferDeQueue
  <1>5. CASE InputBufferGetQueue
    BY <1>5 DEF InputBufferGetQueue
  <1>6. CASE SrcInputRefused
    BY <1>6 DEF SrcInputRefused, Forgets
  <1>7. CASE SrcSetupEos
    BY <1>7 DEF SrcSetupEos, EosAlone, Forgets
  <1>8. CASE SrcSetupEosAnswered
    BY <1>8 DEF SrcSetupEosAnswered, Forgets
  <1>9. CASE SrcIn
    BY <1>9 DEF SrcIn, EosAlone, Enqueued
  <1>10. CASE DstSetup
    BY <1>10 DEF DstSetup, EosAlone, Enqueued
  <1>11. CASE DstSetupTakes
    BY <1>11 DEF DstSetupTakes, Enqueued
  <1>12. CASE DstSetupEnds
    BY <1>12 DEF DstSetupEnds, Enqueued, Drained
  <1>13. CASE SrcOutputBufferProcess
    BY <1>13 DEF SrcOutputBufferProcess
  <1>14. CASE SrcOutputStarts
    BY <1>14 DEF SrcOutputStarts
  <1>15. CASE SrcOut
    BY <1>15 DEF SrcOut
  <1>16. CASE DstInputBufferProcess
    BY <1>16 DEF DstInputBufferProcess, Open
  <1>17. CASE OutputBufferGetQueue
    BY <1>17 DEF OutputBufferGetQueue
  <1>18. CASE DstInputProcess
    BY <1>18 DEF DstInputProcess
  <1>19. CASE DstInputStarts
    BY <1>19 DEF DstInputStarts
  <1>20. CASE DstOutputBufferProcess
    BY <1>20 DEF DstOutputBufferProcess
  <1>21. CASE DstOut
    BY <1>21 DEF DstOut, Garbage
  <1>22. CASE EncodeHeader
    BY <1>22 DEF EncodeHeader
  <1>23. CASE Encode
    BY <1>23 DEF Encode
  <1>24. CASE FlushBegins
    BY <1>24 DEF FlushBegins, FlushWakes
  <1>25. CASE FlushStops
    BY <1>25 DEF FlushStops, Dry, Drained
  <1>26. CASE FlushEndsPort
    BY <1>26 DEF FlushEndsPort, FlushedIn, FlushedOut
  <1>27. CASE Resumes
    BY <1>27 DEF Resumes
  <1>28. CASE BufferProcess_Terminate
    BY <1>28 DEF BufferProcess_Terminate, Joined, Dry, Drained
  <1>29. CASE UNCHANGED vars
    BY <1>29 DEF vars
  <1> QED
    BY <1>1, <1>2, <1>3, <1>4, <1>5, <1>6, <1>7, <1>8, <1>9, <1>10, <1>11, <1>12, <1>13, <1>14,
         <1>15, <1>16, <1>17, <1>18, <1>19, <1>20, <1>21, <1>22, <1>23, <1>24, <1>25, <1>26,
         <1>27, <1>28, <1>29 DEF Next, SrcInput, SrcOutput, DstInput, DstOutput, MFC, Command

\* ... no flush waits for a picture that has no number ...
LEMMA StampShapeKept ==
    ASSUME IInvFound, ~EarlyFlush, ~Separate, Patient, [Next]_vars
    PROVE  StampShape'
  <1> USE DEF IInvFound, Both, StampShape, Pictures, IInv, Control, Contents, HandTypes, Types,
          PictureTypes, portVars, codecVars, setUp, told, Goes, Running, Ports, Threads
  <1>1. ASSUME NEW n \in Pictures, NEW last \in BOOLEAN, EmptyThisBuffer(n, last)
        PROVE  StampShape'
    BY <1>1 DEF EmptyThisBuffer
  <1>2. ASSUME NEW o \in Outs, FillThisBuffer(o)
        PROVE  StampShape'
    BY <1>2 DEF FillThisBuffer
  <1>3. CASE SrcInputBufferProcess
    BY <1>3 DEF SrcInputBufferProcess, Open, Preprocessor_InputData
  <1>4. CASE CodecBufferDeQueue
    BY <1>4 DEF CodecBufferDeQueue
  <1>5. CASE InputBufferGetQueue
    BY <1>5 DEF InputBufferGetQueue
  <1>6. CASE SrcInputRefused
    BY <1>6 DEF SrcInputRefused, Forgets
  <1>7. CASE SrcSetupEos
    BY <1>7 DEF SrcSetupEos, EosAlone, Forgets
  <1>8. CASE SrcSetupEosAnswered
    BY <1>8 DEF SrcSetupEosAnswered, Forgets
  <1>9. CASE SrcIn
    BY <1>9 DEF SrcIn, EosAlone, Enqueued
  <1>10. CASE DstSetup
    BY <1>10 DEF DstSetup, EosAlone, Enqueued
  <1>11. CASE DstSetupTakes
    BY <1>11 DEF DstSetupTakes, Enqueued
  <1>12. CASE DstSetupEnds
    BY <1>12 DEF DstSetupEnds, Enqueued, Drained
  <1>13. CASE SrcOutputBufferProcess
    BY <1>13 DEF SrcOutputBufferProcess
  <1>14. CASE SrcOutputStarts
    BY <1>14 DEF SrcOutputStarts
  <1>15. CASE SrcOut
    BY <1>15 DEF SrcOut
  <1>16. CASE DstInputBufferProcess
    BY <1>16 DEF DstInputBufferProcess, Open
  <1>17. CASE OutputBufferGetQueue
    BY <1>17 DEF OutputBufferGetQueue
  <1>18. CASE DstInputProcess
    BY <1>18 DEF DstInputProcess
  <1>19. CASE DstInputStarts
    BY <1>19 DEF DstInputStarts
  <1>20. CASE DstOutputBufferProcess
    BY <1>20 DEF DstOutputBufferProcess
  <1>21. CASE DstOut
    BY <1>21 DEF DstOut, Garbage
  <1>22. CASE EncodeHeader
    BY <1>22 DEF EncodeHeader
  <1>23. CASE Encode
    BY <1>23 DEF Encode
  <1>24. CASE FlushBegins
    BY <1>24 DEF FlushBegins, FlushWakes
  <1>25. CASE FlushStops
    BY <1>25 DEF FlushStops, Dry, Drained
  <1>26. CASE FlushEndsPort
    BY <1>26 DEF FlushEndsPort, FlushedIn, FlushedOut
  <1>27. CASE Resumes
    BY <1>27 DEF Resumes
  <1>28. CASE BufferProcess_Terminate
    BY <1>28 DEF BufferProcess_Terminate, Joined, Dry, Drained
  <1>29. CASE UNCHANGED vars
    BY <1>29 DEF vars
  <1> QED
    BY <1>1, <1>2, <1>3, <1>4, <1>5, <1>6, <1>7, <1>8, <1>9, <1>10, <1>11, <1>12, <1>13, <1>14,
         <1>15, <1>16, <1>17, <1>18, <1>19, <1>20, <1>21, <1>22, <1>23, <1>24, <1>25, <1>26,
         <1>27, <1>28, <1>29 DEF Next, SrcInput, SrcOutput, DstInput, DstOutput, MFC, Command

\* ... and after its flush the input has no picture.
LEMMA InputFlushedKept ==
    ASSUME IInvFound, ~EarlyFlush, ~Separate, Patient, [Next]_vars
    PROVE  InputFlushed'
  <1>q. Contents
    BY DEF IInvFound, IInv, Control
  <1> USE DEF IInvFound, Both, InputFirst, InputFlushed, NothingFed, IInv, Control, Contents,
          HandTypes, BufferAndFrame, QueueTypes, InputType, Types, CommandTypes, FlagTypes,
          PictureTypes, Commands, AtWork, Begun, Holding, WithPicture, Locked, Pictures, Free,
          Dry, Busy, portVars, codecVars, setUp, told, Goes, Running, Ports, Threads
  <1>1. ASSUME NEW n \in Pictures, NEW last \in BOOLEAN, EmptyThisBuffer(n, last)
        PROVE  InputFlushed'
    BY <1>1 DEF EmptyThisBuffer
  <1>2. ASSUME NEW o \in Outs, FillThisBuffer(o)
        PROVE  InputFlushed'
    BY <1>2 DEF FillThisBuffer
  <1>3. CASE SrcInputBufferProcess
    BY <1>3 DEF SrcInputBufferProcess, Open, Preprocessor_InputData
  <1>4. CASE CodecBufferDeQueue
    BY <1>4 DEF CodecBufferDeQueue
  <1>5. CASE InputBufferGetQueue
    BY <1>5 DEF InputBufferGetQueue
  <1>6. CASE SrcInputRefused
    BY <1>6 DEF SrcInputRefused, Forgets
  <1>7. CASE SrcSetupEos
    BY <1>7 DEF SrcSetupEos, EosAlone, Forgets
  <1>8. CASE SrcSetupEosAnswered
    BY <1>8 DEF SrcSetupEosAnswered, Forgets
  <1>9. CASE SrcIn
    BY <1>9 DEF SrcIn, EosAlone, Enqueued
  <1>10. CASE DstSetup
    BY <1>10 DEF DstSetup, EosAlone, Enqueued
  <1>11. CASE DstSetupTakes
    BY <1>11 DEF DstSetupTakes, Enqueued
  <1>12. CASE DstSetupEnds
    BY <1>12 DEF DstSetupEnds, Enqueued, Drained
  <1>13. CASE SrcOutputBufferProcess
    BY <1>13 DEF SrcOutputBufferProcess
  <1>14. CASE SrcOutputStarts
    BY <1>14 DEF SrcOutputStarts
  <1>15. CASE SrcOut
    BY <1>15 DEF SrcOut
  <1>16. CASE DstInputBufferProcess
    BY <1>16 DEF DstInputBufferProcess, Open
  <1>17. CASE OutputBufferGetQueue
    BY <1>17 DEF OutputBufferGetQueue
  <1>18. CASE DstInputProcess
    BY <1>18 DEF DstInputProcess
  <1>19. CASE DstInputStarts
    BY <1>19 DEF DstInputStarts
  <1>20. CASE DstOutputBufferProcess
    BY <1>20 DEF DstOutputBufferProcess
  <1>21. CASE DstOut
    BY <1>21 DEF DstOut, Garbage
  <1>22. CASE EncodeHeader
    BY <1>22 DEF EncodeHeader
  <1>23. CASE Encode
    BY <1>23 DEF Encode
  <1>24. CASE FlushBegins
    BY <1>24 DEF FlushBegins, FlushWakes
  <1>25. CASE FlushStops
    BY <1>25 DEF FlushStops, Dry, Drained
  <1>26. CASE FlushEndsPort
    <2>1. UNCHANGED <<mfcIn, started>>
      BY <1>26 DEF FlushEndsPort
    <2>2. CASE ctl.port = "in"
      <3>1. mfcIn = Dry
        BY <1>26, <2>2 DEF FlushEndsPort
      <3>2. hold' = Free /\ inBuf' = 0 /\ queue'["in"] = <<>> /\ stamp'.set /\ ~stamp'.check
        BY <1>26, <2>2, ZenonT(30) DEF FlushEndsPort, FlushedIn
      <3> QED
        BY <2>1, <3>1, <3>2
    <2>3. CASE ctl.port = "out"
      <3>1. UNCHANGED <<hold, inBuf, stamp>> /\ queue'["in"] = queue["in"] /\ flushing["out"]
        BY <1>26, <2>3 DEF FlushEndsPort, FlushedOut
      <3> QED
        BY <2>1, <3>1
    <2> QED
      BY <1>26, <2>2, <2>3 DEF FlushEndsPort
  <1>27. CASE Resumes
    BY <1>27 DEF Resumes
  <1>28. CASE BufferProcess_Terminate
    BY <1>28 DEF BufferProcess_Terminate, Joined, Dry, Drained
  <1>29. CASE UNCHANGED vars
    BY <1>29 DEF vars
  <1> QED
    BY <1>1, <1>2, <1>3, <1>4, <1>5, <1>6, <1>7, <1>8, <1>9, <1>10, <1>11, <1>12, <1>13, <1>14,
         <1>15, <1>16, <1>17, <1>18, <1>19, <1>20, <1>21, <1>22, <1>23, <1>24, <1>25, <1>26,
         <1>27, <1>28, <1>29 DEF Next, SrcInput, SrcOutput, DstInput, DstOutput, MFC, Command

\* In Idle the client has every buffer.
LEMMA AllReturnedKept ==
    ASSUME IInvFound, ~EarlyFlush, ~Separate, Patient, [Next]_vars
    PROVE  AllReturned'
  <1> USE DEF IInvFound, Both, InputFlushed, NothingFed, AllReturned, IInv, Control, Contents,
          OutputType, Types, CommandTypes, OwnTypes, FlagTypes, Commands, AtWork, Begun, Locked,
          portVars, codecVars, setUp, told, Goes, Running, Ports, Threads
  <1>1. ASSUME NEW n \in Pictures, NEW last \in BOOLEAN, EmptyThisBuffer(n, last)
        PROVE  AllReturned'
    BY <1>1 DEF EmptyThisBuffer
  <1>2. ASSUME NEW o \in Outs, FillThisBuffer(o)
        PROVE  AllReturned'
    BY <1>2 DEF FillThisBuffer
  <1>3. CASE SrcInputBufferProcess
    BY <1>3 DEF SrcInputBufferProcess, Open, Preprocessor_InputData
  <1>4. CASE CodecBufferDeQueue
    BY <1>4 DEF CodecBufferDeQueue
  <1>5. CASE InputBufferGetQueue
    BY <1>5 DEF InputBufferGetQueue
  <1>6. CASE SrcInputRefused
    BY <1>6 DEF SrcInputRefused, Forgets
  <1>7. CASE SrcSetupEos
    BY <1>7 DEF SrcSetupEos, EosAlone, Forgets
  <1>8. CASE SrcSetupEosAnswered
    BY <1>8 DEF SrcSetupEosAnswered, Forgets
  <1>9. CASE SrcIn
    BY <1>9 DEF SrcIn, EosAlone, Enqueued
  <1>10. CASE DstSetup
    BY <1>10 DEF DstSetup, EosAlone, Enqueued
  <1>11. CASE DstSetupTakes
    BY <1>11 DEF DstSetupTakes, Enqueued
  <1>12. CASE DstSetupEnds
    BY <1>12 DEF DstSetupEnds, Enqueued, Drained
  <1>13. CASE SrcOutputBufferProcess
    BY <1>13 DEF SrcOutputBufferProcess
  <1>14. CASE SrcOutputStarts
    BY <1>14 DEF SrcOutputStarts
  <1>15. CASE SrcOut
    BY <1>15 DEF SrcOut
  <1>16. CASE DstInputBufferProcess
    BY <1>16 DEF DstInputBufferProcess, Open
  <1>17. CASE OutputBufferGetQueue
    BY <1>17 DEF OutputBufferGetQueue
  <1>18. CASE DstInputProcess
    BY <1>18 DEF DstInputProcess
  <1>19. CASE DstInputStarts
    BY <1>19 DEF DstInputStarts
  <1>20. CASE DstOutputBufferProcess
    BY <1>20 DEF DstOutputBufferProcess
  <1>21. CASE DstOut
    BY <1>21 DEF DstOut, Garbage
  <1>22. CASE EncodeHeader
    BY <1>22 DEF EncodeHeader
  <1>23. CASE Encode
    BY <1>23 DEF Encode
  <1>24. CASE FlushBegins
    BY <1>24 DEF FlushBegins, FlushWakes
  <1>25. CASE FlushStops
    BY <1>25 DEF FlushStops, Dry, Drained
  <1>26. CASE FlushEndsPort
    BY <1>26 DEF FlushEndsPort, FlushedIn, FlushedOut
  <1>27. CASE Resumes
    BY <1>27 DEF Resumes
  <1>28. CASE BufferProcess_Terminate
    BY <1>28 DEF BufferProcess_Terminate, Joined, Dry, Drained
  <1>29. CASE UNCHANGED vars
    BY <1>29 DEF vars
  <1> QED
    BY <1>1, <1>2, <1>3, <1>4, <1>5, <1>6, <1>7, <1>8, <1>9, <1>10, <1>11, <1>12, <1>13, <1>14,
         <1>15, <1>16, <1>17, <1>18, <1>19, <1>20, <1>21, <1>22, <1>23, <1>24, <1>25, <1>26,
         <1>27, <1>28, <1>29 DEF Next, SrcInput, SrcOutput, DstInput, DstOutput, MFC, Command


\* The first entry of a queue stays first until it is taken.
LEMMA FirstOf ==
    ASSUME NEW S, NEW s \in Seq(S), NEW e \in S
    PROVE  Append(s, e) # <<>> /\ Head(Append(s, e)) = IF s = <<>> THEN e ELSE Head(s)
  <1>1. /\ Append(s, e) # <<>> /\ Append(s, e) \in Seq(S)
        /\ DOMAIN s = 1 .. Len(s) /\ Len(s) \in Nat
        /\ Append(s, e)[Len(s) + 1] = e /\ \A i \in 1 .. Len(s) : Append(s, e)[i] = s[i]
    BY AppendProperties
  <1>2. Head(Append(s, e)) = Append(s, e)[1]
    BY <1>1, HeadTailProperties
  <1>3. CASE s = <<>>
    BY <1>1, <1>2, <1>3, EmptySeq
  <1>4. CASE s # <<>>
    <2>1. Head(s) = s[1] /\ Len(s) > 0
      BY <1>4, HeadTailProperties, TakenFrom
    <2> QED
      BY <1>1, <1>2, <1>4, <2>1
  <1> QED
    BY <1>1, <1>3, <1>4

\* What DstInput gives to the MFC it owes no less.
LEMMA OwedGiven ==
    ASSUME Contents, OwedFound, started, dstHeld \in Outs,
           mfcOut' = [mfcOut EXCEPT !.on = TRUE,
                         !.work = Append(@, [out |-> dstHeld, header |-> TRUE])],
           UNCHANGED <<mode, ctl, queue, direct, inOMX, started>>
    PROVE  OwedFound'
  <1> DEFINE e == [out |-> dstHeld, header |-> TRUE]
  <1>1. mfcOut'.work = Append(mfcOut.work, e) /\ mfcOut'.done = mfcOut.done
    BY DEF Contents, OutputType
  <1>2. e \in Empties /\ mfcOut.work \in Seq(Empties) /\ e.out = dstHeld
    BY OutputTyped DEF Empties
  <1> HIDE DEF e
  <1>3. OutsOf(mfcOut'.work) = OutsOf(mfcOut.work) \cup {dstHeld}
    <2>1. OutsOf(Append(mfcOut.work, e)) = OutsOf(mfcOut.work) \cup {e.out}
      BY ONLY <1>2, EntryPut
    <2> QED
      BY <1>1, <1>2, <2>1
  <1> QED
    BY <1>1, <1>3 DEF OwedFound, Owed

\* The stamp the output waits for is that of the next picture.
LEMMA StampsKept ==
    ASSUME IInvFound, ~EarlyFlush, ~Separate, Patient, [Next]_vars
    PROVE  Stamps'
  <1>q. /\ Contents /\ Types /\ Holding /\ Begun /\ Locked /\ Commands
        /\ Stamps /\ StampShape /\ InputFlushed /\ InputFirst /\ AllReturned
    BY DEF IInvFound, Both, IInv, Control
  <1> USE DEF Stamps, Awaited, NothingFed, Types, CommandTypes, portVars, codecVars, setUp,
          told, Goes, Running, Ports, Threads
  <1>1. ASSUME NEW n \in Pictures, NEW last \in BOOLEAN, EmptyThisBuffer(n, last)
        PROVE  Stamps'
    BY <1>1, <1>q DEF EmptyThisBuffer
  <1>2. ASSUME NEW o \in Outs, FillThisBuffer(o)
        PROVE  Stamps'
    BY <1>2, <1>q DEF FillThisBuffer
  <1>3. CASE SrcInputBufferProcess
    <2>1. UNCHANGED <<mode, ctl, mfcIn, mfcOut>> /\ mode = "executing" /\ ~flushing["in"]
      BY <1>3 DEF SrcInputBufferProcess, Open, Preprocessor_InputData
    <2>2. CASE UNCHANGED <<hold, stamp>>
      BY <1>q, <2>1, <2>2
    <2>3. CASE Preprocessor_InputData /\ inBuf # 0
      <3>1. hold'.frame = inBuf /\ hold.frame = 0
        BY <1>3, <1>q, <2>1, <2>3 DEF SrcInputBufferProcess, Preprocessor_InputData, Contents, HandTypes,
              BufferAndFrame, Holding
      <3>2. CASE stamp.set
        <4>1. ~stamp'.set /\ stamp'.start = inBuf
          BY <2>3, <3>2 DEF Preprocessor_InputData
        <4> QED
          BY <1>q, <2>1, <3>1, <3>2, <4>1
      <3>3. CASE ~stamp.set
        <4>1. stamp' = stamp
          BY <2>3, <3>3 DEF Preprocessor_InputData
        <4> QED
          BY <1>q, <2>1, <3>1, <3>3, <4>1 DEF StampShape
      <3> QED
        BY <3>2, <3>3
    <2> QED
      BY <1>3, <2>2, <2>3 DEF SrcInputBufferProcess
  <1>4. CASE CodecBufferDeQueue
    <2>1. UNCHANGED <<mode, ctl, mfcIn, mfcOut, stamp>> /\ hold.frame = 0 /\ hold'.frame = 0
      BY <1>4, <1>q DEF CodecBufferDeQueue, Holding, Free
    <2> QED
      BY <1>q, <2>1
  <1>5. CASE InputBufferGetQueue
    BY <1>5, <1>q DEF InputBufferGetQueue
  <1>6. CASE SrcInputRefused
    BY <1>6, <1>q DEF SrcInputRefused, Forgets
  <1>7. CASE SrcSetupEos
    <2>1. ~started /\ UNCHANGED stamp
      BY <1>7, <1>q DEF SrcSetupEos, EosAlone, Begun
    <2> QED
      BY <1>q, <2>1 DEF Begun
  <1>8. CASE SrcSetupEosAnswered
    <2>1. ~started /\ UNCHANGED stamp
      BY <1>8, <1>q DEF SrcSetupEosAnswered, Begun
    <2> QED
      BY <1>q, <2>1 DEF Begun
  <1>9. CASE SrcIn
    <2>1. UNCHANGED <<mode, ctl, mfcOut, stamp>>
      BY <1>9 DEF SrcIn
    <2>2. mfcIn'.work = Append(mfcIn.work, hold)
      BY <1>9, <1>q DEF SrcIn, Enqueued, Contents, InputType
    <2>3. hold \in Jobs /\ hold.frame \in Pictures
      BY <1>9, <1>q, PictureInBuffer DEF SrcIn, Holding, WithPicture
    <2>4. /\ mfcIn'.work # <<>>
          /\ Head(mfcIn'.work) = IF mfcIn.work = <<>> THEN hold ELSE Head(mfcIn.work)
      BY <1>q, <2>2, <2>3, FirstOf, InputTyped
    <2> QED
      BY <1>q, <2>1, <2>3, <2>4 DEF Pictures
  <1>10. CASE DstSetup
    <2>1. ~started /\ UNCHANGED stamp
      BY <1>10, <1>q DEF DstSetup, Begun
    <2> QED
      BY <1>q, <2>1 DEF Begun
  <1>11. CASE DstSetupTakes
    <2>1. ~started /\ UNCHANGED stamp
      BY <1>11, <1>q DEF DstSetupTakes, Begun
    <2> QED
      BY <1>q, <2>1 DEF Begun
  <1>12. CASE DstSetupEnds
    <2>1. ~started /\ UNCHANGED stamp
      BY <1>12, <1>q DEF DstSetupEnds, Begun
    <2> QED
      BY <1>q, <2>1 DEF Begun
  <1>13. CASE SrcOutputBufferProcess
    BY <1>13, <1>q DEF SrcOutputBufferProcess
  <1>14. CASE SrcOutputStarts
    BY <1>14, <1>q DEF SrcOutputStarts
  <1>15. CASE SrcOut
    <2>1. UNCHANGED <<mode, ctl, mfcOut, stamp, hold>> /\ mfcIn'.work = mfcIn.work
      BY <1>15, <1>q DEF SrcOut, Contents, InputType
    <2> QED
      BY <1>q, <2>1
  <1>16. CASE DstInputBufferProcess
    BY <1>16, <1>q DEF DstInputBufferProcess, Open
  <1>17. CASE OutputBufferGetQueue
    BY <1>17, <1>q DEF OutputBufferGetQueue
  <1>18. CASE DstInputProcess
    <2>1. UNCHANGED <<mode, ctl, mfcIn, stamp, hold>> /\ mfcOut'.done = mfcOut.done
      BY <1>18, <1>q DEF DstInputProcess, Contents, OutputType
    <2> QED
      BY <1>q, <2>1
  <1>19. CASE DstInputStarts
    BY <1>19, <1>q DEF DstInputStarts
  <1>20. CASE DstOutputBufferProcess
    BY <1>20, <1>q DEF DstOutputBufferProcess
  <1>21. CASE DstOut
    BY <1>21, <1>q DEF DstOut, Garbage
  <1>22. CASE EncodeHeader
    <2>1. ~started /\ UNCHANGED stamp
      BY <1>22, <1>q DEF EncodeHeader, Begun
    <2> QED
      BY <1>q, <2>1 DEF Begun
  <1>23. CASE Encode
    <2> DEFINE w == Coded(Head(mfcOut.work), Head(mfcIn.work).frame)
    <2>1. UNCHANGED <<mode, ctl, stamp, hold>> /\ mfcIn.work # <<>> /\ mfcOut.work # <<>>
      BY <1>23 DEF Encode
    <2>2. mfcOut'.done = Append(mfcOut.done, w) /\ w.frame = Head(mfcIn.work).frame
      BY <1>23, <1>q DEF Encode, Contents, OutputType, Coded
    <2>3. w \in Written /\ mfcOut.done \in Seq(Written)
      <3>1. Head(mfcOut.work) \in Empties /\ Head(mfcIn.work).frame \in 0 .. NumFrames
        BY <1>q, <2>1, InputTyped, OutputTyped DEF Pictures
      <3> QED
        BY <1>q, <3>1, OutputTyped DEF Coded, Empties, Written
    <2> HIDE DEF w
    <2>4. /\ mfcOut'.done # <<>>
          /\ Head(mfcOut'.done) = IF mfcOut.done = <<>> THEN w ELSE Head(mfcOut.done)
      BY <2>2, <2>3, FirstOf
    <2> QED
      BY <1>q, <2>1, <2>2, <2>4
  <1>24. CASE FlushBegins
    BY <1>24, <1>q DEF FlushBegins, FlushWakes
  <1>25. CASE FlushStops
    BY <1>25, <1>q DEF FlushStops, Dry, Drained
  <1>26. CASE FlushEndsPort
    <2> SUFFICES ASSUME mode' = "executing", ctl'.at = "ready"
                 PROVE  Stamps'
      OBVIOUS
    <2>1. mode = "executing" /\ ctl.at = "stopped" /\ ctl.rest = "end" /\ ctl.port = "out"
      BY <1>26, <1>q DEF FlushEndsPort, Commands, AtWork, InputFirst
    <2>2. UNCHANGED <<stamp, hold, mfcIn, mfcOut>>
      BY <1>26, <2>1 DEF FlushEndsPort, FlushedOut
    <2>3. stamp.set /\ ~stamp.check /\ NothingFed
      BY <1>q, <2>1 DEF InputFlushed, Commands, AtWork
    <2>4. mfcOut.done = <<>>
      BY <1>q, <2>1 DEF Locked
    <2> QED
      BY <2>2, <2>3, <2>4
  <1>27. CASE Resumes
    <2>1. UNCHANGED <<stamp, hold, mfcIn, mfcOut>> /\ mode = "idle"
      BY <1>27 DEF Resumes
    <2> QED
      BY <1>q, <2>1 DEF InputFlushed, AllReturned
  <1>28. CASE BufferProcess_Terminate
    BY <1>28, <1>q DEF BufferProcess_Terminate, Joined, Dry, Drained
  <1>29. CASE UNCHANGED vars
    BY <1>29, <1>q DEF vars
  <1> QED
    BY <1>1, <1>2, <1>3, <1>4, <1>5, <1>6, <1>7, <1>8, <1>9, <1>10, <1>11, <1>12, <1>13, <1>14,
         <1>15, <1>16, <1>17, <1>18, <1>19, <1>20, <1>21, <1>22, <1>23, <1>24, <1>25, <1>26,
         <1>27, <1>28, <1>29 DEF Next, SrcInput, SrcOutput, DstInput, DstOutput, MFC, Command

\* What the component owes the client is somewhere it can come back from.
LEMMA OwedFoundKept ==
    ASSUME IInvFound, ~EarlyFlush, ~Separate, Patient, [Next]_vars
    PROVE  OwedFound'
  <1>q. /\ Contents /\ Types /\ OwnTypes /\ Holding /\ Begun /\ Locked /\ Commands
        /\ Outside /\ Inside /\ Stamps /\ StampShape /\ AllReturned /\ OwedFound /\ InputFirst
    BY DEF IInvFound, Both, IInv, Control, Types
  <1> USE DEF OwedFound, Owed, Types, CommandTypes, portVars, codecVars, setUp, told, Goes,
          Running, Ports, Threads
  <1>1. ASSUME NEW n \in Pictures, NEW last \in BOOLEAN, EmptyThisBuffer(n, last)
        PROVE  OwedFound'
    BY <1>1, <1>q DEF EmptyThisBuffer
  <1>2. ASSUME NEW o \in Outs, FillThisBuffer(o)
        PROVE  OwedFound'
    <2>1. UNCHANGED <<mode, ctl, direct, dstHeld, mfcOut, started>>
          /\ inOMX' = [inOMX EXCEPT ![o] = TRUE] /\ queue'["out"] = Append(queue["out"], o)
      BY <1>2, <1>q DEF FillThisBuffer, Contents, QueueTypes
    <2>2. ToSet(queue'["out"]) = ToSet(queue["out"]) \cup {o}
      BY <1>q, <2>1, PutInto DEF Contents, QueueTypes
    <2> QED
      BY <1>q, <2>1, <2>2 DEF OwnTypes
  <1>3. CASE SrcInputBufferProcess
    BY <1>3, <1>q DEF SrcInputBufferProcess, Open, Preprocessor_InputData
  <1>4. CASE CodecBufferDeQueue
    BY <1>4, <1>q DEF CodecBufferDeQueue
  <1>5. CASE InputBufferGetQueue
    <2>1. /\ UNCHANGED <<mode, ctl, direct, dstHeld, mfcOut, started, inOMX>>
          /\ queue'["out"] = queue["out"]
      BY <1>5, <1>q DEF InputBufferGetQueue, Contents, QueueTypes
    <2> QED
      BY <1>q, <2>1
  <1>6. CASE SrcInputRefused
    BY <1>6, <1>q DEF SrcInputRefused, Forgets
  <1>7. CASE SrcSetupEos
    BY <1>7, <1>q DEF SrcSetupEos, EosAlone, Forgets
  <1>8. CASE SrcSetupEosAnswered
    <2>1. UNCHANGED <<mode, ctl, direct, dstHeld, mfcOut, started>>
      BY <1>8 DEF SrcSetupEosAnswered
    <2>2. CASE queue["out"] = <<>>
      BY <1>8, <1>q, <2>1, <2>2 DEF SrcSetupEosAnswered
    <2>3. CASE queue["out"] # <<>>
      <3> DEFINE h == Head(queue["out"])
      <3>1. queue'["out"] = Tail(queue["out"]) /\ inOMX' = [inOMX EXCEPT ![h] = FALSE]
        BY <1>8, <1>q, <2>3 DEF SrcSetupEosAnswered, Contents, QueueTypes
      <3>2. h \in Outs /\ ToSet(queue'["out"]) = ToSet(queue["out"]) \ {h}
        BY <1>q, <2>3, <3>1, OutputRanges DEF Outside
      <3> QED
        BY <1>q, <2>1, <3>1, <3>2 DEF OwnTypes
    <2> QED
      BY <2>2, <2>3
  <1>9. CASE SrcIn
    BY <1>9, <1>q DEF SrcIn, EosAlone, Enqueued
  <1>10. CASE DstSetup
    <2>1. ~started
      BY <1>10, <1>q DEF DstSetup, Begun
    <2>2. ~flushing["out"]
      BY <1>q, <2>1 DEF Begun, Commands, AtWork
    <2>3. UNCHANGED <<mode, ctl, queue, direct, dstHeld, started, inOMX>>
      BY <1>10, <2>2 DEF DstSetup
    <2> QED
      BY <1>q, <2>1, <2>3
  <1>11. CASE DstSetupTakes
    <2> DEFINE h == Head(queue["out"])
    <2>1. queue["out"] # <<>> /\ direct = None
      BY <1>11, <1>q, HeaderFindsBuffer DEF DstSetupTakes, IInvFound, Holding
    <2>2. UNCHANGED <<mode, ctl, mfcOut, dstHeld, started, inOMX>> /\ direct' = h
      BY <1>11, <2>1 DEF DstSetupTakes
    <2>3. queue'["out"] = Tail(queue["out"])
      BY <1>11, <1>q, <2>1 DEF DstSetupTakes, Contents, QueueTypes
    <2>4. ToSet(queue'["out"]) = ToSet(queue["out"]) \ {h}
      BY <1>q, <2>1, <2>3, OutputRanges DEF Outside
    <2> QED
      BY <1>q, <2>1, <2>2, <2>4, EncoderSizes
  <1>12. CASE DstSetupEnds
    <2>1. ~started /\ mfcOut.on /\ direct \in Outs
      BY <1>12, <1>q DEF DstSetupEnds, Begun, Holding, Contents, HandTypes
    <2>2. /\ UNCHANGED <<mode, ctl, queue, dstHeld>> /\ inOMX' = [inOMX EXCEPT ![direct] = FALSE]
      BY <1>12, <2>1 DEF DstSetupEnds
    <2> QED
      BY <1>q, <2>1, <2>2 DEF OwnTypes
  <1>13. CASE SrcOutputBufferProcess
    BY <1>13, <1>q DEF SrcOutputBufferProcess
  <1>14. CASE SrcOutputStarts
    BY <1>14, <1>q DEF SrcOutputStarts
  <1>15. CASE SrcOut
    BY <1>15, <1>q DEF SrcOut
  <1>16. CASE DstInputBufferProcess
    BY <1>16, <1>q DEF DstInputBufferProcess, Open
  <1>17. CASE OutputBufferGetQueue
    <2> SUFFICES ASSUME mode' = "executing", ctl'.at = "ready"
                 PROVE  OwedFound'
      OBVIOUS
    <2>1. UNCHANGED <<mode, ctl, direct, inOMX, mfcOut, started>> /\ dstHeld = None
      BY <1>17, <1>q DEF OutputBufferGetQueue, Holding
    <2>2. ~flushing["out"]
      BY <1>q, <2>1 DEF Commands, AtWork
    <2>3. CASE queue["out"] = <<>>
      BY <1>17, <1>q, <2>1, <2>3 DEF OutputBufferGetQueue
    <2>4. CASE queue["out"] # <<>>
      <3> DEFINE h == Head(queue["out"])
      <3>1. queue'["out"] = Tail(queue["out"]) /\ dstHeld' = h
        BY <1>17, <1>q, <2>2, <2>4 DEF OutputBufferGetQueue, Contents, QueueTypes
      <3>2. ToSet(queue'["out"]) = ToSet(queue["out"]) \ {h}
        BY <1>q, <2>4, <3>1, OutputRanges DEF Outside
      <3> QED
        BY <1>q, <2>1, <3>1, <3>2, EncoderSizes
    <2> QED
      BY <2>3, <2>4
  <1>18. CASE DstInputProcess
    <2>1. UNCHANGED <<mode, ctl, queue, direct, started, inOMX>> /\ dstHeld \in Outs
      BY <1>18, <1>q DEF DstInputProcess, Holding, Contents, HandTypes
    <2>2. CASE UNCHANGED <<dstHeld, mfcOut>>
      BY <1>q, <2>1, <2>2
    <2>3. CASE ~UNCHANGED <<dstHeld, mfcOut>>
      <3> SUFFICES ASSUME mode = "executing", ctl.at = "ready"
                   PROVE  OwedFound'
        BY <2>1
      <3>1. started
        BY <1>18, <1>q, <2>3 DEF DstInputProcess, Commands, AtWork
      <3>2. mfcOut' = [mfcOut EXCEPT !.on = TRUE,
                           !.work = Append(@, [out |-> dstHeld, header |-> TRUE])]
        BY <1>18, <1>q, <2>3, <3>1 DEF DstInputProcess, Begun
      <3> QED
        BY <1>q, <2>1, <3>1, <3>2, OwedGiven
    <2> QED
      BY <2>2, <2>3
  <1>19. CASE DstInputStarts
    <2>1. UNCHANGED <<mode, ctl, queue, direct, started, inOMX>> /\ dstHeld \in Outs
      BY <1>19, <1>q DEF DstInputStarts, Holding, Contents, HandTypes
    <2>2. started
      BY <1>19, <1>q DEF DstInputStarts, Begun
    <2>3. mfcOut' = [mfcOut EXCEPT !.on = TRUE,
                         !.work = Append(@, [out |-> dstHeld, header |-> TRUE])]
      BY <1>19, <1>q, <2>2 DEF DstInputStarts, Begun
    <2> QED
      BY <1>q, <2>1, <2>2, <2>3, OwedGiven
  <1>20. CASE DstOutputBufferProcess
    BY <1>20, <1>q DEF DstOutputBufferProcess
  <1>21. CASE DstOut
    <2> SUFFICES ASSUME mode' = "executing", ctl'.at = "ready"
                 PROVE  OwedFound'
      OBVIOUS
    <2>1. UNCHANGED <<mode, ctl, queue, direct, dstHeld, started>> /\ started
      BY <1>21, <1>q DEF DstOut, Begun
    <2>2. CASE ~mfcOut.on
      BY <1>21, <1>q, <2>1, <2>2 DEF DstOut
    <2>3. CASE mfcOut.on
      <3> DEFINE h == Head(mfcOut.done).out
      <3>1. mfcOut.done # <<>> /\ mfcOut'.work = mfcOut.work /\ mfcOut'.done = Tail(mfcOut.done)
        BY <1>21, <1>q, <2>3 DEF DstOut, Contents, OutputType
      <3>2. ~Garbage(Head(mfcOut.done).frame)
        BY <1>q, <2>1, <3>1 DEF Garbage, Stamps, Awaited
      <3>3. OutsOf(mfcOut.done) = {h} \cup OutsOf(mfcOut'.done) /\ Head(mfcOut.done).header
        BY <1>q, <2>1, <3>1, EntryTaken, OutputTyped DEF Inside
      <3>4. inOMX' = [x \in Outs |-> inOMX[x] /\ x # h]
        BY <1>21, <2>3, <3>2, <3>3 DEF DstOut
      <3> HIDE DEF h
      <3> QED
        BY <1>q, <2>1, <3>1, <3>3, <3>4
    <2> QED
      BY <2>2, <2>3
  <1>22. CASE EncodeHeader
    <2>1. ~started /\ UNCHANGED <<mode, ctl, queue, direct, dstHeld, started, inOMX>>
      BY <1>22, <1>q DEF EncodeHeader, Begun
    <2> QED
      BY <1>q, <2>1
  <1>23. CASE Encode
    <2> DEFINE w == Coded(Head(mfcOut.work), Head(mfcIn.work).frame)
               e == Head(mfcOut.work)
    <2>1. /\ mfcOut.work # <<>> /\ mfcIn.work # <<>>
          /\ UNCHANGED <<mode, ctl, queue, direct, dstHeld, started, inOMX>>
      BY <1>23 DEF Encode
    <2>2. mfcOut'.work = Tail(mfcOut.work) /\ mfcOut'.done = Append(mfcOut.done, w)
      BY <1>23, <1>q DEF Encode, Contents, OutputType
    <2>3. w \in Written /\ w.out = e.out
      <3>1. e \in Empties /\ Head(mfcIn.work).frame \in 0 .. NumFrames
        BY <1>q, <2>1, InputTyped, OutputTyped DEF Pictures
      <3> QED
        BY <3>1 DEF Coded, Empties, Written
    <2> HIDE DEF w, e
    <2>4. OutsOf(mfcOut.work) = {e.out} \cup OutsOf(mfcOut'.work)
      BY <1>q, <2>1, <2>2, EntryTaken, OutputTyped DEF e
    <2>5. OutsOf(mfcOut'.done) = OutsOf(mfcOut.done) \cup {e.out}
      BY <1>q, <2>2, <2>3, DonePut
    <2> QED
      BY <1>q, <2>1, <2>4, <2>5
  <1>24. CASE FlushBegins
    BY <1>24, <1>q DEF FlushBegins, FlushWakes
  <1>25. CASE FlushStops
    BY <1>25, <1>q DEF FlushStops, Dry, Drained
  <1>26. CASE FlushEndsPort
    <2> SUFFICES ASSUME mode' = "executing", ctl'.at = "ready"
                 PROVE  OwedFound'
      OBVIOUS
    <2>1. ctl.port = "out"
      BY <1>26, <1>q DEF FlushEndsPort, Commands, AtWork, InputFirst
    <2>2. \A x \in Outs : ~inOMX'[x]
      BY <1>26, <2>1 DEF FlushEndsPort, FlushedOut
    <2> QED
      BY <2>2
  <1>27. CASE Resumes
    <2>1. UNCHANGED inOMX /\ mode = "idle"
      BY <1>27 DEF Resumes
    <2> QED
      BY <1>q, <2>1 DEF AllReturned
  <1>28. CASE BufferProcess_Terminate
    BY <1>28, <1>q DEF BufferProcess_Terminate, Joined, Dry, Drained
  <1>29. CASE UNCHANGED vars
    BY <1>29, <1>q DEF vars
  <1> QED
    BY <1>1, <1>2, <1>3, <1>4, <1>5, <1>6, <1>7, <1>8, <1>9, <1>10, <1>11, <1>12, <1>13, <1>14,
         <1>15, <1>16, <1>17, <1>18, <1>19, <1>20, <1>21, <1>22, <1>23, <1>24, <1>25, <1>26,
         <1>27, <1>28, <1>29 DEF Next, SrcInput, SrcOutput, DstInput, DstOutput, MFC, Command


-----------------------------------------------------------------------------
(* The theorem for a client that waits for its commands.                     *)

\* At first nothing is owed and nothing awaited.
LEMMA BothInit ==
    ASSUME Init
    PROVE  Both
  <1>1. InputFirst /\ StampShape /\ Stamps /\ AllReturned
    BY DEF Init, InputFirst, AtWork, StampShape, Stamps, AllReturned
  <1>2. InputFlushed
    BY DEF Init, InputFlushed, Ports
  <1>3. OwedFound
    BY DEF Init, OwedFound
  <1> QED
    BY <1>1, <1>2, <1>3 DEF Both

\* Every step keeps the stronger invariant when both ports are flushed together
\* and the client waits.
LEMMA IInvFoundStep ==
    ASSUME IInvFound, ~EarlyFlush, ~Separate, Patient, [Next]_vars
    PROVE  IInvFound'
  <1>1. IInv'
    BY IInvStep DEF IInvFound
  <1> QED
    BY <1>1, InputFirstKept, StampShapeKept, StampsKept, InputFlushedKept, AllReturnedKept,
       OwedFoundKept DEF IInvFound, Both

\* What is owed is found in the words of the component.
LEMMA OwedIsFound ==
    ASSUME IInvFound
    PROVE  OutputBuffersFound
  <1>1. SUFFICES ASSUME mode = "executing", ctl.at = "ready", NEW o \in Outs, inOMX[o],
                        o \notin ToSet(queue["out"]) \cup {dstHeld, direct}
                 PROVE  \E s \in {mfcOut.work, mfcOut.done} :
                           \E i \in DOMAIN s : s[i].header /\ s[i].out = o
    BY DEF OutputBuffersFound, Running, Busy
  <1>2. started /\ o \in OutsOf(mfcOut.work) \cup OutsOf(mfcOut.done)
    BY <1>1 DEF IInvFound, Both, OwedFound, Owed
  <1>3. Headed(mfcOut.work) /\ Headed(mfcOut.done)
    BY <1>2 DEF IInvFound, IInv, Inside
  <1> QED
    BY <1>2, <1>3 DEF OutsOf, InWork, Headed

\* When no command comes before the first picture is encoded, the ports are
\* flushed together, and the client waits for the end of its commands, then
\* besides what NoCodecBufferIsLost says every output buffer the component owes
\* the client is, between two commands, in its queue, with a thread, or with
\* the MFC and its header, from where it comes back: the picture the output
\* drops everything else for after a flush is always the next one to come.
THEOREM EncoderKeepsBuffers ==
    ASSUME ~EarlyFlush, ~Separate, Patient
    PROVE  Spec => []EncoderBuffersKept
  <1>1. Init => IInvFound
    BY IInvInit, BothInit DEF IInvFound
  <1>2. IInvFound /\ [Next]_vars => IInvFound'
    BY IInvFoundStep
  <1>3. IInvFound => EncoderBuffersKept
    BY IInvKeeps, OwedIsFound DEF IInvFound, EncoderBuffersKept
  <1> QED
    BY <1>1, <1>2, <1>3, PTL DEF Spec
=============================================================================
