------------------------ MODULE CameraRequests_proofs ------------------------
(* Proofs about CameraRequests, for any number of requests and entries, any   *)
(* depth of the sensor's and the streams' queues and whatever the ISP drops,  *)
(* as long as no night picture is taken: the camera keeps the promise         *)
(* RequestPipeline makes to the service, and what its threads tell each other *)
(* is so; and about CameraStreams, whatever sub-streams are in use: what the  *)
(* service holds of the streams is what their threads serve.                  *)
EXTENDS MCCameraRequests, MCCameraStreams, SignalDrivenThread, Functions,
        FiniteSetTheorems, SequenceTheorems, TLAPS

(* Sequences without repetition: the frames a driver has ready.              *)

LEMMA AppendIsInjective ==
    ASSUME NEW S, NEW s \in Seq(S), NEW e \in S, IsInjective(s), e \notin Range(s)
    PROVE  /\ Append(s, e) \in Seq(S) /\ IsInjective(Append(s, e))
           /\ Range(Append(s, e)) = Range(s) \cup {e}
           /\ Len(Append(s, e)) = Len(s) + 1
  BY AppendProperties DEF IsInjective, Range

LEMMA TailIsInjective ==
    ASSUME NEW S, NEW s \in Seq(S), s # <<>>, IsInjective(s)
    PROVE  /\ Tail(s) \in Seq(S) /\ IsInjective(Tail(s))
           /\ Head(s) \in S /\ Head(s) \in Range(s)
           /\ Range(Tail(s)) = Range(s) \ {Head(s)}
           /\ Len(Tail(s)) = Len(s) - 1 /\ Len(s) \in Nat \ {0}
  <1>1. /\ Head(s) \in S /\ Tail(s) \in Seq(S) /\ Len(s) \in Nat \ {0}
        /\ Len(Tail(s)) = Len(s) - 1
        /\ \A i \in 1 .. Len(Tail(s)) : Tail(s)[i] = s[i + 1]
        /\ Head(s) = s[1] /\ DOMAIN s = 1 .. Len(s)
        /\ DOMAIN Tail(s) = 1 .. Len(s) - 1
    BY HeadTailProperties
  <1> DEFINE t == Tail(s)
             h == Head(s)
  <1>2. IsInjective(t)
    BY <1>1 DEF IsInjective
  <1>3. Range(t) = Range(s) \ {h}
    <2>1. ASSUME NEW i \in 1 .. Len(s), s[i] # h
          PROVE  s[i] = t[i - 1] /\ i - 1 \in DOMAIN t
      BY <1>1, <2>1
    <2>2. ASSUME NEW i \in DOMAIN t
          PROVE  t[i] = s[i + 1] /\ i + 1 \in DOMAIN s /\ s[i + 1] # h
      BY <1>1, <2>2 DEF IsInjective
    <2>3. ASSUME NEW x \in Range(s), x # h PROVE x \in Range(t)
      <3>1. PICK i \in 1 .. Len(s) : x = s[i]
        BY <1>1 DEF Range
      <3> QED
        BY <2>1, <2>3, <3>1 DEF Range
    <2>4. ASSUME NEW x \in Range(t) PROVE x \in Range(s) /\ x # h
      BY <2>2, <2>4 DEF Range
    <2> QED
      BY <2>3, <2>4
  <1>4. h \in Range(s)
    <2>1. 1 \in DOMAIN s /\ s[1] = h
      BY <1>1
    <2> QED
      BY ONLY <2>1 DEF Range
  <1> QED
    BY <1>1, <1>2, <1>3, <1>4
-----------------------------------------------------------------------------
(* The ring: where the entry of a request is follows from the insertion      *)
(* index, and the entries in use are those of the requests that were taken   *)
(* and not freed.                                                            *)

Places == [main |-> {"wait", "request", "null", "registered", "done", "freed"},
           sensor |-> {"wait", "start", "isp", "meta", "scc", "scp", "mark"},
           scp |-> {"wait", "dequeue", "output", "stray"},
           scc |-> {"wait", "dequeue", "output", "stray", "jpeg"}]

AllPlaces == Places.main \cup Places.sensor \cup Places.scp \cup Places.scc

Entry == [status : Statuses, frame : Requests \cup {NoFrame}, outputs : 0 .. 2]

RequestTypes ==
    /\ kind \in [Requests -> Kinds]
    /\ submitted \in 0 .. NumRequests /\ dequeued \in 0 .. submitted
    /\ freed \in 0 .. dequeued
    /\ entries \in [Indices -> Entry]
    /\ m_entryInsertionIndex \in Indices \cup {-1}
    /\ m_entryProcessingIndex \in Indices \cup {-1}

ThreadTypes ==
    /\ pc \in [Threads -> AllPlaces]
    /\ pc["main"] \in Places.main /\ pc["sensor"] \in Places.sensor
    /\ pc["scp"] \in Places.scp /\ pc["scc"] \in Places.scc
    /\ shot \in [frame : Requests \cup {NoFrame}, outputs : SUBSET Streams,
                 dropped : SUBSET Streams]
    /\ shot.frame = NoFrame => shot.outputs = {} /\ shot.dropped = {}
    /\ done \in [Streams -> Seq(Requests)]
    /\ frame \in [Streams -> Requests \cup {NoFrame}]
    /\ \A s \in Streams : pc[s] = "output" => frame[s] \in Requests
    /\ handedOver \subseteq Requests \X Streams
    /\ m_nightCaptureCnt = 0 /\ m_nightCaptureFrameCnt = 0

\* The request whose entry is, or was last, at index i.
FrameAt(i) ==
    dequeued - 1 - (IF i <= m_entryInsertionIndex THEN m_entryInsertionIndex - i
                    ELSE m_entryInsertionIndex - i + NumEntries)

Ring ==
    /\ m_lastCompletedFrameCnt = freed - 1
    /\ m_numOfEntries = dequeued - freed /\ m_numOfEntries <= NumEntries
    /\ \A i \in Indices :
           IF FrameAt(i) < freed THEN entries[i] = EmptyEntry
           ELSE entries[i].status # "EMPTY" /\ entries[i].frame = FrameAt(i)

USE DEF Requests, Indices, NoFrame, Streams, Threads, OutputCame

\* A request has one entry only, and every request that is under way has one.
LEMMA RingIsExact ==
    ASSUME RequestTypes, Ring
    PROVE  /\ \A i, j \in Indices :
                  entries[i].frame = entries[j].frame /\ entries[i].frame # NoFrame => i = j
           /\ \A i \in Indices : entries[i].frame # NoFrame <=> entries[i].status # "EMPTY"
           /\ \A f \in freed .. dequeued - 1 : \E i \in Indices : entries[i].frame = f
           /\ \A i \in Indices :
                  entries[i].frame = NoFrame \/ entries[i].frame \in freed .. dequeued - 1
  <1> USE RequestsAssumption DEF RequestTypes, Ring, FrameAt, EmptyEntry, Entry
  <1>1. NumEntries \in Nat \ {0} /\ NumRequests \in Nat \ {0}
    OBVIOUS
  <1>2. ASSUME NEW f \in freed .. dequeued - 1
        PROVE  \E i \in Indices : entries[i].frame = f
    <2> DEFINE k == m_entryInsertionIndex - (dequeued - 1 - f)
               i == IF k >= 0 THEN k ELSE k + NumEntries
    <2>1. i \in Indices /\ FrameAt(i) = f
      BY <1>1
    <2> QED
      BY <2>1
  <1>3. ASSUME NEW i \in Indices
        PROVE  /\ entries[i].frame # NoFrame <=> entries[i].status # "EMPTY"
               /\ entries[i].frame = NoFrame \/ entries[i].frame \in freed .. dequeued - 1
    BY <1>1
  <1>4. ASSUME NEW i \in Indices, NEW j \in Indices,
               entries[i].frame = entries[j].frame, entries[i].frame # NoFrame
        PROVE  i = j
    <2>1. FrameAt(i) = FrameAt(j)
      BY <1>3, <1>4
    <2> QED
      BY <1>1, <2>1
  <1> QED
    BY <1>2, <1>3, <1>4

ringVars == <<dequeued, freed, m_numOfEntries, m_entryInsertionIndex, m_lastCompletedFrameCnt>>

\* One entry in use is written over and keeps its frame.
Updates(i, e) ==
    /\ i \in Indices /\ entries[i].status # "EMPTY"
    /\ e \in Entry /\ e.frame = entries[i].frame /\ e.status # "EMPTY"
    /\ entries' = [entries EXCEPT ![i] = e]

LEMMA UpdateKeepsRing ==
    ASSUME RequestTypes, Ring, NEW i, NEW e, Updates(i, e), UNCHANGED ringVars
    PROVE  /\ Ring' /\ entries' \in [Indices -> Entry] /\ i \in Indices /\ entries'[i] = e
           /\ \A j \in Indices : j # i => entries'[j] = entries[j]
  <1>1. ASSUME NEW j \in Indices
        PROVE  FrameAt(j)' = FrameAt(j) /\ FrameAt(j) \in Int /\ freed \in Int /\ freed' = freed
    BY RequestsAssumption DEF FrameAt, ringVars, RequestTypes
  <1>2. i \in Indices /\ e \in Entry /\ entries \in [Indices -> Entry]
    BY DEF Updates, RequestTypes
  <1> HIDE DEF Indices
  <1>3. entries' = [entries EXCEPT ![i] = e]
    BY DEF Updates
  <1>4. entries' \in [Indices -> Entry]
    BY <1>2, <1>3
  <1>5. entries'[i] = e /\ \A j \in Indices : j # i => entries'[j] = entries[j]
    BY <1>2, <1>3
  <1>6. ~ (FrameAt(i) < freed) /\ e.frame = FrameAt(i) /\ e.status # "EMPTY"
    BY <1>2 DEF Updates, Ring, EmptyEntry
  <1>7. ASSUME NEW j \in Indices
        PROVE  IF FrameAt(j)' < freed' THEN entries'[j] = EmptyEntry
               ELSE entries'[j].status # "EMPTY" /\ entries'[j].frame = FrameAt(j)'
    <2>1. FrameAt(j)' = FrameAt(j) /\ freed' = freed
      BY <1>1
    <2>2. CASE j = i
      BY <1>5, <1>6, <2>1, <2>2
    <2>3. CASE j # i
      BY <1>5, <2>1, <2>3 DEF Ring
    <2> QED
      BY <2>2, <2>3
  <1> QED
    BY <1>2, <1>4, <1>5, <1>7 DEF Ring, ringVars

\* RegisterRequest finds the entry after the last one empty.
LEMMA RegisterKeepsRing ==
    ASSUME RequestTypes, Ring, ~ IsRequestQueueFull, dequeued < submitted,
           dequeued' = dequeued + 1, RegisterRequest(dequeued), freed' = freed
    PROVE  /\ Ring' /\ m_entryInsertionIndex' \in Indices
           /\ entries[m_entryInsertionIndex'].status = "EMPTY"
           /\ entries' = [entries EXCEPT ![m_entryInsertionIndex'] =
                              [status |-> "REGISTERED", frame |-> dequeued,
                               outputs |-> IF kind[dequeued] \in {"preview", "jpeg"}
                                           THEN 1 ELSE 2]]
           /\ entries' \in [Indices -> Entry]
           /\ UNCHANGED m_entryProcessingIndex
  <1> USE RequestsAssumption DEF RequestTypes, Ring, IsRequestQueueFull
  <1> DEFINE i == GetNextIndex(m_entryInsertionIndex)
  <1>1. NumEntries \in Nat \ {0} /\ NumRequests \in Nat \ {0}
    OBVIOUS
  <1>2. i \in Indices /\ FrameAt(i) < freed
    <2>1. /\ dequeued \in Int /\ freed \in Int /\ m_entryInsertionIndex \in -1 .. NumEntries - 1
          /\ NumEntries \in Int /\ NumEntries >= 1 /\ dequeued - freed < NumEntries
      BY <1>1
    <2>2. i \in Indices /\ FrameAt(i) = dequeued - NumEntries
      BY ONLY <2>1 DEF FrameAt, GetNextIndex, Indices, i
    <2> QED
      BY ONLY <2>1, <2>2
  <1>3. entries[i].status = "EMPTY"
    BY <1>2 DEF EmptyEntry
  <1>4. /\ m_entryInsertionIndex' = i /\ m_numOfEntries' = m_numOfEntries + 1
        /\ UNCHANGED <<m_entryProcessingIndex, m_lastCompletedFrameCnt>>
        /\ entries' = [entries EXCEPT ![i] =
                           [status |-> "REGISTERED", frame |-> dequeued,
                            outputs |-> IF kind[dequeued] \in {"preview", "jpeg"}
                                        THEN 1 ELSE 2]]
    BY <1>3 DEF RegisterRequest
  <1>5. \A j \in Indices : FrameAt(j)' = IF j = i THEN dequeued ELSE FrameAt(j)
    BY <1>1, <1>4 DEF FrameAt, GetNextIndex
  <1>6. entries' \in [Indices -> Entry]
    BY <1>2, <1>4 DEF Entry, Statuses
  <1>7. Ring'
    <2>1. ASSUME NEW j \in Indices
          PROVE  IF FrameAt(j)' < freed' THEN entries'[j] = EmptyEntry
                 ELSE entries'[j].status # "EMPTY" /\ entries'[j].frame = FrameAt(j)'
      <3>1. CASE j = i
        <4>1. FrameAt(j)' = dequeued /\ freed' = freed /\ freed <= dequeued
              /\ entries'[j].status = "REGISTERED" /\ entries'[j].frame = dequeued
          BY <1>2, <1>4, <1>5, <3>1
        <4>2. dequeued \in Int /\ freed \in Int
          BY <1>1
        <4> QED
          BY ONLY <4>1, <4>2
      <3>2. CASE j # i
        <4>1. FrameAt(j)' = FrameAt(j) /\ freed' = freed /\ entries'[j] = entries[j]
          BY <1>2, <1>4, <1>5, <3>2
        <4> QED
          BY <4>1
      <3> QED
        BY <3>1, <3>2
    <2> QED
      BY <1>4, <2>1
  <1> QED
    BY <1>2, <1>3, <1>4, <1>6, <1>7
\* The frame of a position of the ring was dequeued.
LEMMA FrameIsDequeued ==
    ASSUME RequestTypes, NEW i \in Indices
    PROVE  FrameAt(i) \in Int /\ FrameAt(i) < dequeued
  BY RequestsAssumption DEF RequestTypes, FrameAt

\* DeregisterRequest of the entry that is next empties it; the one after it,
\* if it is finished, was marked as completed before.
LEMMA DeregisterKeepsRing ==
    ASSUME RequestTypes, Ring, NEW i \in Indices, entries[i].frame = m_lastCompletedFrameCnt + 1,
           \A j \in Indices : entries[j].status = "METADONE" => entries[j].outputs # 0,
           DeregisterRequest(i), freed' = freed + 1, dequeued' = dequeued
    PROVE  /\ Ring' /\ entries' \in [Indices -> Entry]
           /\ entries' = [entries EXCEPT ![i] = EmptyEntry]
           /\ UNCHANGED <<m_entryInsertionIndex, m_entryProcessingIndex>>
           /\ freed < dequeued
  <1> USE RequestsAssumption DEF RequestTypes, Ring
  <1> DEFINE emptied == [entries EXCEPT ![i] = EmptyEntry]
             next == GetNextIndex(i)
  <1>1. NumEntries \in Nat \ {0} /\ NumRequests \in Nat \ {0}
    OBVIOUS
  <1>2. next \in Indices
    BY <1>1 DEF GetNextIndex
  <1>3. EmptyEntry \in Entry /\ EmptyEntry.status = "EMPTY"
    BY DEF EmptyEntry, Entry, Statuses
  <1>4. emptied \in [Indices -> Entry]
    BY <1>3
  <1>5. CheckCompleted(emptied, next) = emptied
    <2>1. ASSUME Completes(emptied[next]) PROVE emptied[next].status = "COMPLETED"
      <3>1. next # i /\ emptied[next] = entries[next]
        BY <1>2, <1>3, <2>1 DEF Completes
      <3>2. entries[next].outputs \in 0 .. 2
        BY <1>2 DEF Entry
      <3> QED
        BY <1>2, <2>1, <3>1, <3>2 DEF Completes
    <2>2. ASSUME Completes(emptied[next])
          PROVE  [emptied EXCEPT ![next].status = "COMPLETED"] = emptied
      <3> HIDE DEF emptied
      <3>1. emptied[next].status = "COMPLETED" /\ emptied[next] \in Entry
        BY <1>2, <1>4, <2>1, <2>2
      <3>2. [emptied[next] EXCEPT !.status = "COMPLETED"] = emptied[next]
        BY <3>1 DEF Entry
      <3> QED
        BY <1>4, <3>2
    <2> QED
      BY <2>2 DEF CheckCompleted
  <1>6. /\ m_lastCompletedFrameCnt' = entries[i].frame
        /\ m_numOfEntries' = m_numOfEntries - 1 /\ entries' = emptied
        /\ UNCHANGED <<m_entryInsertionIndex, m_entryProcessingIndex>>
    BY <1>5 DEF DeregisterRequest
  <1>7. FrameAt(i) = freed /\ freed < dequeued
    <2>1. FrameAt(i) = freed
      BY DEF EmptyEntry
    <2> QED
      BY <2>1, FrameIsDequeued
  <1>8. \A j \in Indices : /\ FrameAt(j)' = FrameAt(j) /\ FrameAt(j) \in Int
                           /\ FrameAt(j) = freed => j = i
    BY <1>1, <1>6, <1>7 DEF FrameAt
  <1>9. ASSUME NEW j \in Indices
        PROVE  IF FrameAt(j)' < freed' THEN entries'[j] = EmptyEntry
               ELSE entries'[j].status # "EMPTY" /\ entries'[j].frame = FrameAt(j)'
    <2>1. freed \in Int /\ freed' = freed + 1
      OBVIOUS
    <2>2. CASE j = i
      BY <1>3, <1>6, <1>7, <1>8, <2>1, <2>2
    <2>3. CASE j # i
      <3>1. entries'[j] = entries[j] /\ FrameAt(j)' = FrameAt(j) /\ FrameAt(j) # freed
        BY <1>6, <1>8, <2>3
      <3> QED
        BY <1>8, <2>1, <3>1
    <2> QED
      BY <2>2, <2>3
  <1> QED
    BY <1>4, <1>6, <1>7, <1>9
-----------------------------------------------------------------------------
(* The outputs: where each output that did not come is, and what the entry   *)
(* of its request says of it.                                                *)

\* The ISP has output s of frame f, or has dropped it and it is not counted.
InShot(f, s) ==
    /\ shot.frame = f
    /\ \/ s \in shot.outputs /\ pc["sensor"] = "isp"
       \/ s \in shot.dropped /\ pc["sensor"] \in {"meta", "scc"}
       \/ s \in shot.dropped /\ s = "scp" /\ pc["sensor"] = "scp"

\* Its driver has it ready, or its thread is about to hand it over.
InDriver(f, s) == f \in Range(done[s])
InThread(f, s) == pc[s] = "output" /\ frame[s] = f

OnItsWay(f, s) == InShot(f, s) \/ InDriver(f, s) \/ InThread(f, s)

\* An output is in one place only.
Apart ==
    \A s \in Streams :
        /\ IsInjective(done[s])
        /\ \A f \in Requests :
               /\ ~ (InShot(f, s) /\ InDriver(f, s))
               /\ ~ (InShot(f, s) /\ InThread(f, s))
               /\ ~ (InThread(f, s) /\ InDriver(f, s))

\* The frame was captured and its request is not finished.
Lit(f) == \E i \in Indices : entries[i].frame = f /\ entries[i].status \in {"CAPTURED", "METADONE"}

Owes(f, s) == s \in Outputs(kind[f]) /\ <<f, s>> \notin handedOver

Due(f) == (IF Owes(f, "scp") THEN 1 ELSE 0) + (IF Owes(f, "scc") THEN 1 ELSE 0)

\* What an entry in use says of its request.
Sound(e) ==
    /\ e.outputs = Due(e.frame)
    /\ e.status \in {"REGISTERED", "REQUESTED"} => \A s \in Streams : <<e.frame, s>> \notin handedOver
    /\ e.status = "COMPLETED" => e.outputs = 0
    /\ e.status = "METADONE" => e.outputs # 0

Owed ==
    /\ \A f \in Requests, s \in Streams : OnItsWay(f, s) => Owes(f, s) /\ Lit(f)
    /\ \A f \in Requests, s \in Streams : <<f, s>> \in handedOver => f < dequeued
    /\ \A i \in Indices : entries[i].status # "EMPTY" => Sound(entries[i])

\* What the ISP works on was captured, and its metadata is not there yet.
AtIsp ==
    pc["sensor"] = "isp" =>
        \E i \in Indices : entries[i].frame = shot.frame /\ entries[i].status = "CAPTURED"

Way == RequestTypes /\ ThreadTypes /\ Ring /\ Apart /\ Owed /\ AtIsp

\* What becomes of the invariant when no entry changes and nothing is handed
\* over.
LEMMA OwedStays ==
    ASSUME Owed, UNCHANGED <<kind, dequeued, entries, handedOver>>,
           \A f \in Requests, s \in Streams : OnItsWay(f, s)' => OnItsWay(f, s)
    PROVE  Owed'
  <1>1. \A f \in Requests, s \in Streams : Owes(f, s)' = Owes(f, s)
    BY DEF Owes
  <1>2. \A f \in Requests : Lit(f)' = Lit(f)
    BY DEF Lit
  <1>3. \A i \in Indices : Sound(entries[i])' = Sound(entries[i])
    BY DEF Sound, Due, Owes
  <1>4. (\A f \in Requests, s \in Streams : OnItsWay(f, s) => Owes(f, s) /\ Lit(f))'
    BY <1>1, <1>2 DEF Owed
  <1>5. (\A f \in Requests, s \in Streams : <<f, s>> \in handedOver => f < dequeued)'
    BY DEF Owed
  <1>6. (\A i \in Indices : entries[i].status # "EMPTY" => Sound(entries[i]))'
    BY <1>3 DEF Owed
  <1> QED
    BY <1>4, <1>5, <1>6 DEF Owed

LEMMA ApartStays ==
    ASSUME Apart, UNCHANGED done,
           \A f \in Requests, s \in Streams : /\ InShot(f, s)' => InShot(f, s)
                                              /\ InThread(f, s)' => InThread(f, s)
    PROVE  /\ Apart'
           /\ \A f \in Requests, s \in Streams : OnItsWay(f, s)' => OnItsWay(f, s)
  <1>1. \A f \in Requests, s \in Streams : InDriver(f, s)' = InDriver(f, s)
    BY DEF InDriver
  <1> QED
    BY <1>1 DEF Apart, OnItsWay

\* And when the entry of one request changes: only its outputs move.
LEMMA OneEntryChanges ==
    ASSUME RequestTypes, Ring, Owed, NEW i, NEW e, Updates(i, e), UNCHANGED <<kind, ringVars>>,
           \A f \in Requests, s \in Streams :
               f # e.frame => /\ OnItsWay(f, s)' => OnItsWay(f, s)
                              /\ <<f, s>> \in handedOver' <=> <<f, s>> \in handedOver,
           \A s \in Streams :
               OnItsWay(e.frame, s)' => /\ Owes(e.frame, s)'
                                        /\ e.status \in {"CAPTURED", "METADONE"},
           Sound(e)'
    PROVE  Owed' /\ Ring' /\ entries' \in [Indices -> Entry]
  <1>1. /\ Ring' /\ entries' \in [Indices -> Entry] /\ i \in Indices /\ entries'[i] = e
        /\ \A j \in Indices : j # i => entries'[j] = entries[j]
    BY UpdateKeepsRing
  <1>2. /\ e.frame = entries[i].frame /\ e.frame \in Requests /\ e.frame < dequeued
        /\ entries[i].status # "EMPTY"
    <2>1. entries[i].status # "EMPTY" /\ e.frame = entries[i].frame
      BY DEF Updates
    <2>2. entries[i].frame \in freed .. dequeued - 1 /\ entries[i].frame # NoFrame
      BY RingIsExact, <1>1, <2>1
    <2>3. entries[i] \in Entry
      BY <1>1 DEF RequestTypes
    <2> QED
      BY <2>1, <2>2, <2>3 DEF Entry, RequestTypes
  <1>3. ASSUME NEW j \in Indices, j # i, entries[j].status # "EMPTY"
        PROVE  entries[j].frame # e.frame /\ entries[j].frame \in Requests
    <2>1. entries[j].frame # NoFrame /\ entries[j] \in Entry
      BY RingIsExact, <1>3 DEF RequestTypes
    <2> QED
      BY RingIsExact, <1>1, <1>2, <1>3, <2>1 DEF Entry
  <1>4. \A f \in Requests, s \in Streams : f # e.frame => Owes(f, s)' = Owes(f, s)
    BY DEF Owes
  <1>5. ASSUME NEW f \in Requests, NEW s \in Streams, OnItsWay(f, s)'
        PROVE  Owes(f, s)' /\ Lit(f)'
    <2>1. CASE f = e.frame
      BY <1>1, <1>5, <2>1 DEF Lit
    <2>2. CASE f # e.frame
      <3>1. Owes(f, s) /\ Lit(f)
        BY <1>5, <2>2 DEF Owed
      <3>2. PICK j \in Indices : entries[j].frame = f /\ entries[j].status \in {"CAPTURED", "METADONE"}
        BY <3>1 DEF Lit
      <3>3. j # i
        BY <1>2, <2>2, <3>2
      <3> QED
        BY <1>1, <1>4, <2>2, <3>1, <3>2, <3>3 DEF Lit
    <2> QED
      BY <2>1, <2>2
  <1>6. ASSUME NEW f \in Requests, NEW s \in Streams, <<f, s>> \in handedOver'
        PROVE  f < dequeued'
    BY <1>2, <1>6 DEF Owed, ringVars
  <1>7. ASSUME NEW j \in Indices, entries'[j].status # "EMPTY" PROVE Sound(entries[j])'
    <2>1. CASE j = i
      BY <1>1, <2>1 DEF Sound, Due, Owes
    <2>2. CASE j # i
      <3>1. entries'[j] = entries[j] /\ Sound(entries[j])
        BY <1>1, <1>7, <2>2 DEF Owed
      <3>2. entries[j].frame # e.frame /\ entries[j].frame \in Requests
        BY <1>3, <1>7, <2>2, <3>1
      <3>3. \A s \in Streams : /\ Owes(entries[j].frame, s)' = Owes(entries[j].frame, s)
                               /\ <<entries[j].frame, s>> \in handedOver'
                                      <=> <<entries[j].frame, s>> \in handedOver
        BY <1>4, <3>1, <3>2 DEF Owes
      <3> QED
        BY <3>1, <3>3 DEF Sound, Due
    <2> QED
      BY <2>1, <2>2
  <1> QED
    BY <1>1, <1>5, <1>6, <1>7 DEF Owed

-----------------------------------------------------------------------------
(* What the steps do to the entry of the request they are about.             *)

\* An entry after CheckCompleted.
Checked(e) == IF Completes(e) THEN [e EXCEPT !.status = "COMPLETED"] ELSE e

LEMMA CheckUpdates ==
    ASSUME RequestTypes, NEW i \in Indices, NEW e \in Entry, NEW es,
           es = [entries EXCEPT ![i] = e]
    PROVE  CheckCompleted(es, i) = [entries EXCEPT ![i] = Checked(e)] /\ Checked(e) \in Entry
  <1>1. entries \in [Indices -> Entry]
    BY DEF RequestTypes
  <1> HIDE DEF Indices
  <1>2. es[i] = e
    BY <1>1
  <1>3. Checked(e) \in Entry
    BY DEF Checked, Entry, Statuses
  <1>4. CheckCompleted(es, i) = [entries EXCEPT ![i] = Checked(e)]
    BY <1>1, <1>2 DEF CheckCompleted, Checked
  <1> QED
    BY <1>3, <1>4

\* NotifyStreamOutput finds the one entry of the frame.
LEMMA NotifyUpdates ==
    ASSUME RequestTypes, Ring, NEW f \in Requests, NEW i \in Indices,
           entries[i].frame = f, entries[i].outputs \in 1 .. 2,
           entries[i].status # "COMPLETED", NotifyStreamOutput(f)
    PROVE  \E e \in Entry :
               /\ Updates(i, e) /\ e.frame = f /\ e.outputs = entries[i].outputs - 1
               /\ IF entries[i].status = "METADONE" /\ e.outputs = 0 THEN e.status = "COMPLETED"
                  ELSE e.status = entries[i].status
               /\ signals' = TellMainIf(signals, e.status = "COMPLETED"
                                                 /\ m_lastCompletedFrameCnt + 1 = f)
  <1> DEFINE less == [entries[i] EXCEPT !.outputs = @ - 1]
  <1>1. entries \in [Indices -> Entry] /\ entries[i] \in Entry
    BY DEF RequestTypes
  <1>2. EntriesOf(f) = {i}
    BY RingIsExact DEF EntriesOf
  <1>3. (CHOOSE j \in EntriesOf(f) : TRUE) = i
    BY <1>2
  <1>4. Notified(f) = [entries EXCEPT ![i] = less]
    BY <1>1, <1>2 DEF Notified, EntriesOf
  <1>5. /\ less \in Entry /\ less.frame = f /\ less.outputs = entries[i].outputs - 1
        /\ less.status = entries[i].status
    BY <1>1 DEF Entry
  <1>6. /\ entries' = CheckCompleted(Notified(f), i)
        /\ signals' = TellMainIf(signals, WakesMain(Notified(f), i, m_lastCompletedFrameCnt))
    BY <1>2, <1>3 DEF NotifyStreamOutput
  <1> HIDE DEF less
  <1>7. entries' = [entries EXCEPT ![i] = Checked(less)] /\ Checked(less) \in Entry
    BY <1>4, <1>5, <1>6, CheckUpdates
  <1>8. entries[i].status # "EMPTY"
    BY RingIsExact
  <1>9. /\ Checked(less).frame = f /\ Checked(less).outputs = less.outputs
        /\ Checked(less).status = IF Completes(less) THEN "COMPLETED" ELSE less.status
    BY <1>5 DEF Checked, Entry
  <1>10. Completes(less) <=> less.status \in {"METADONE", "COMPLETED"} /\ less.outputs = 0
    BY <1>5 DEF Completes, Entry
  <1>11. Notified(f)[i] = less
    BY <1>1, <1>4
  <1>12. WakesMain(Notified(f), i, m_lastCompletedFrameCnt)
            <=> Checked(less).status = "COMPLETED" /\ m_lastCompletedFrameCnt + 1 = f
    BY <1>5, <1>9, <1>11 DEF WakesMain
  <1>13. signals' = TellMainIf(signals, Checked(less).status = "COMPLETED"
                                            /\ m_lastCompletedFrameCnt + 1 = f)
    BY <1>6, <1>12 DEF TellMainIf
  <1> QED
    BY <1>5, <1>7, <1>8, <1>9, <1>10, <1>13 DEF Updates

\* A status that is set in an entry in use.
LEMMA StatusUpdates ==
    ASSUME RequestTypes, NEW i \in Indices, NEW to \in Statuses \ {"EMPTY"},
           entries[i].status # "EMPTY"
    PROVE  \E e \in Entry :
               /\ e.frame = entries[i].frame /\ e.outputs = entries[i].outputs
               /\ e.status = to
               /\ [entries EXCEPT ![i].status = to] = [entries EXCEPT ![i] = e]
  <1>1. entries \in [Indices -> Entry] /\ entries[i] \in Entry
    BY DEF RequestTypes
  <1> DEFINE e == [entries[i] EXCEPT !.status = to]
  <1>2. /\ e \in Entry /\ e.frame = entries[i].frame /\ e.outputs = entries[i].outputs
        /\ e.status = to
    BY <1>1 DEF Entry
  <1>3. [entries EXCEPT ![i].status = to] = [entries EXCEPT ![i] = e]
    BY <1>1
  <1> QED
    BY <1>2, <1>3

\* FindFrameCnt marks the one entry of the frame.
LEMMA CapturedUpdates ==
    ASSUME RequestTypes, Ring, m_nightCaptureCnt = 0, NEW f \in Requests, NEW i \in Indices,
           entries[i].frame = f, entries[i].status = "REQUESTED", entries' = Captured(f)
    PROVE  \E e \in Entry :
               /\ Updates(i, e) /\ e.frame = f /\ e.outputs = entries[i].outputs
               /\ e.status = "CAPTURED"
  <1>1. entries \in [Indices -> Entry] /\ entries[i] \in Entry
    BY DEF RequestTypes
  <1> DEFINE e == [entries[i] EXCEPT !.status = "CAPTURED"]
  <1>2. /\ e \in Entry /\ e.frame = f /\ e.outputs = entries[i].outputs
        /\ e.status = "CAPTURED"
    BY <1>1 DEF Entry, Statuses
  <1>3. \A j \in Indices : entries[j].frame = f => j = i
    BY RingIsExact
  <1>4. entries' = [entries EXCEPT ![i] = e]
    <2>1. \A j \in Indices : entries[j].frame = f /\ entries[j].status = "REQUESTED" <=> j = i
      BY <1>3
    <2>2. Captured(f) = [j \in Indices |-> IF entries[j].frame = f /\ entries[j].status = "REQUESTED"
                                           THEN [entries[j] EXCEPT !.status = "CAPTURED"]
                                           ELSE entries[j]]
      BY f # NoFrame DEF Captured
    <2>3. Captured(f) = [j \in Indices |-> IF j = i THEN e ELSE entries[j]]
      BY <2>1, <2>2
    <2> HIDE DEF e
    <2> QED
      BY <1>1, <2>3
  <1> HIDE DEF e
  <1>5. Updates(i, e)
    BY <1>2, <1>4 DEF Updates
  <1> QED
    BY <1>2, <1>5

\* What the sensor thread finds for a frame, and for the next one.
LEMMA MatchFinds ==
    ASSUME RequestTypes, Ring, m_nightCaptureCnt = 0, SensorMatch
    PROVE  \E i \in Indices, e \in Entry :
               /\ Updates(i, e) /\ entries[i].status = "REQUESTED" /\ e.status = "CAPTURED"
               /\ e.frame = Head(sensor)
  <1>1. PICK f : f = Head(sensor)
    OBVIOUS
  <1>2. /\ f # NoFrame /\ entries' = Captured(f)
        /\ \E i \in EntriesOf(f) : entries[i].status = "REQUESTED"
    BY <1>1 DEF SensorMatch, Matched
  <1>3. PICK i \in Indices : entries[i].frame = f /\ entries[i].status = "REQUESTED"
    BY <1>2 DEF EntriesOf
  <1>4. f \in Requests
    BY <1>2, <1>3 DEF RequestTypes, Entry
  <1> QED
    BY <1>1, <1>2, <1>3, <1>4, CapturedUpdates

LEMMA MarkFinds ==
    ASSUME RequestTypes, SensorMark
    PROVE  \/ /\ UNCHANGED <<entries, m_entryProcessingIndex>>
              /\ sensor' = Append(sensor, NoFrame)
           \/ \E i \in Indices, e \in Entry :
                  /\ Updates(i, e) /\ entries[i].status = "REGISTERED" /\ e.status = "REQUESTED"
                  /\ e.outputs = entries[i].outputs
                  /\ sensor' = Append(sensor, e.frame) /\ m_entryProcessingIndex' = i
  <1>1. CASE Markable = {}
    BY <1>1 DEF SensorMark
  <1>2. CASE Markable # {}
    <2>1. PICK j \in Markable : /\ entries' = [entries EXCEPT ![j].status = "REQUESTED"]
                                /\ sensor' = Append(sensor, entries[j].frame)
                                /\ m_entryProcessingIndex' = j
      BY <1>2 DEF SensorMark
    <2>2. PICK i \in Indices : /\ entries' = [entries EXCEPT ![i].status = "REQUESTED"]
                               /\ sensor' = Append(sensor, entries[i].frame)
                               /\ m_entryProcessingIndex' = i
                               /\ entries[i].status = "REGISTERED"
      <3>1. j = GetNextIndex(m_entryProcessingIndex) /\ entries[j].status = "REGISTERED"
        BY DEF Markable
      <3>2. m_entryProcessingIndex \in Indices \cup {-1} /\ NumEntries \in Nat \ {0}
        BY RequestsAssumption DEF RequestTypes
      <3>3. j \in Indices
        BY <3>1, <3>2 DEF GetNextIndex
      <3> QED
        BY <2>1, <3>1, <3>3
    <2>3. PICK e \in Entry :
              /\ e.frame = entries[i].frame /\ e.outputs = entries[i].outputs
              /\ e.status = "REQUESTED"
              /\ [entries EXCEPT ![i].status = "REQUESTED"] = [entries EXCEPT ![i] = e]
      <3>1. "REQUESTED" \in Statuses \ {"EMPTY"} /\ entries[i].status # "EMPTY"
        BY <2>2 DEF Statuses
      <3> QED
        BY <3>1, StatusUpdates
    <2> QED
      BY <2>2, <2>3 DEF Updates
  <1> QED
    BY <1>1, <1>2

-----------------------------------------------------------------------------
(* The steps of the threads.                                                 *)

LEMMA Moves ==
    ASSUME pc \in [Threads -> AllPlaces], NEW t \in Threads, NEW to \in AllPlaces,
           pc' = [pc EXCEPT ![t] = to]
    PROVE  /\ pc' \in [Threads -> AllPlaces] /\ pc'[t] = to
           /\ \A u \in Threads : u # t => pc'[u] = pc[u]
  OBVIOUS

\* The output that comes is still due, so its request is not finished before.
LEMMA NotifyFinds ==
    ASSUME RequestTypes, Ring, Owed, NEW f \in Requests, NEW s \in Streams, OnItsWay(f, s),
           NotifyStreamOutput(f)
    PROVE  \E i \in Indices, e \in Entry :
               /\ Updates(i, e) /\ e.frame = f /\ entries[i].frame = f
               /\ entries[i].status \in {"CAPTURED", "METADONE"}
               /\ e.outputs = Due(f) - 1
               /\ IF entries[i].status = "METADONE" /\ e.outputs = 0 THEN e.status = "COMPLETED"
                  ELSE e.status = entries[i].status
               /\ signals' = TellMainIf(signals, e.status = "COMPLETED"
                                                 /\ m_lastCompletedFrameCnt + 1 = f)
  <1>1. Owes(f, s) /\ Lit(f)
    BY DEF Owed
  <1>2. PICK i \in Indices : entries[i].frame = f /\ entries[i].status \in {"CAPTURED", "METADONE"}
    BY <1>1 DEF Lit
  <1>3. Sound(entries[i]) /\ entries[i].status # "EMPTY"
    BY <1>2 DEF Owed
  <1>4. entries[i].outputs = Due(f) /\ Due(f) \in 1 .. 2
    BY <1>1, <1>2, <1>3 DEF Sound, Due
  <1>5. PICK e \in Entry :
            /\ Updates(i, e) /\ e.frame = f /\ e.outputs = Due(f) - 1
            /\ IF entries[i].status = "METADONE" /\ e.outputs = 0 THEN e.status = "COMPLETED"
               ELSE e.status = entries[i].status
            /\ signals' = TellMainIf(signals, e.status = "COMPLETED"
                                              /\ m_lastCompletedFrameCnt + 1 = f)
    BY <1>2, <1>4, NotifyUpdates
  <1> QED
    BY <1>2, <1>5

\* An output that comes, or was dropped, is handed over and counted once.
LEMMA OutputComes ==
    ASSUME RequestTypes, Ring, Owed, NEW f \in Requests, NEW s \in Streams, OnItsWay(f, s),
           NotifyStreamOutput(f), handedOver' = handedOver \cup {<<f, s>>},
           UNCHANGED <<kind, ringVars>>, ~ OnItsWay(f, s)',
           \A g \in Requests, u \in Streams : OnItsWay(g, u)' => OnItsWay(g, u)
    PROVE  /\ Owed' /\ Ring' /\ entries' \in [Indices -> Entry]
           /\ \A i \in Indices : entries[i].status = "CAPTURED" =>
                  entries'[i].status = "CAPTURED" /\ entries'[i].frame = entries[i].frame
  <1>1. Owes(f, s)
    BY DEF Owed
  <1>2. PICK i \in Indices, e \in Entry :
            /\ Updates(i, e) /\ e.frame = f /\ entries[i].frame = f
            /\ entries[i].status \in {"CAPTURED", "METADONE"}
            /\ e.outputs = Due(f) - 1
            /\ IF entries[i].status = "METADONE" /\ e.outputs = 0 THEN e.status = "COMPLETED"
               ELSE e.status = entries[i].status
    BY NotifyFinds
  <1>3. \A u \in Streams : Owes(f, u)' <=> Owes(f, u) /\ u # s
    BY DEF Owes
  <1>4. Due(f)' = Due(f) - 1
    BY <1>1, <1>3 DEF Due
  <1>5. \A u \in Streams : u # s /\ Owes(f, u) => Due(f) = 2
    BY <1>1 DEF Due
  <1>6. ASSUME NEW u \in Streams, OnItsWay(f, u)'
        PROVE  Owes(f, u)' /\ e.status \in {"CAPTURED", "METADONE"}
    <2>1. u # s /\ Owes(f, u)
      BY <1>6 DEF Owed
    <2>2. e.outputs = 1
      BY <1>2, <1>5, <2>1
    <2> QED
      BY <1>2, <1>3, <2>1, <2>2
  <1>7. Sound(e)'
    <2>1. e.status \in {"CAPTURED", "METADONE", "COMPLETED"}
      BY <1>2
    <2>2. (e.status = "COMPLETED" => e.outputs = 0) /\ (e.status = "METADONE" => e.outputs # 0)
      BY <1>2
    <2>3. e.outputs = Due(e.frame)'
      BY <1>2, <1>4
    <2> QED
      BY <2>1, <2>2, <2>3 DEF Sound
  <1>8. \A g \in Requests, u \in Streams :
             g # e.frame => /\ OnItsWay(g, u)' => OnItsWay(g, u)
                            /\ <<g, u>> \in handedOver' <=> <<g, u>> \in handedOver
    BY <1>2
  <1>9. Owed' /\ Ring' /\ entries' \in [Indices -> Entry]
    <2>1. \A u \in Streams : OnItsWay(e.frame, u)' => /\ Owes(e.frame, u)'
                                                      /\ e.status \in {"CAPTURED", "METADONE"}
      BY <1>2, <1>6
    <2> QED
      BY <1>2, <1>7, <1>8, <2>1, OneEntryChanges
  <1>10. ASSUME NEW j \in Indices, entries[j].status = "CAPTURED"
         PROVE  entries'[j].status = "CAPTURED" /\ entries'[j].frame = entries[j].frame
    <2>1. entries'[i] = e /\ (j # i => entries'[j] = entries[j])
      BY <1>2, UpdateKeepsRing
    <2> QED
      BY <1>2, <1>10, <2>1
  <1> QED
    BY <1>9, <1>10

\* The places of the threads after a step.
GoodPlaces ==
    /\ pc \in [Threads -> AllPlaces]
    /\ pc["main"] \in Places.main /\ pc["sensor"] \in Places.sensor
    /\ pc["scp"] \in Places.scp /\ pc["scc"] \in Places.scc

night == <<m_nightCaptureCnt, m_nightCaptureFrameCnt>>

\* A step that neither takes, frees nor captures a request, and moves no output.
LEMMA QuietStep ==
    ASSUME Way, UNCHANGED <<kind, dequeued, freed, manager, night, done, frame, handedOver>>,
           submitted' \in submitted .. NumRequests, GoodPlaces',
           shot' = shot \/ shot' = NoShot,
           pc'["sensor"] = "isp" => pc["sensor"] = "isp" /\ shot' = shot,
           \A f \in Requests, s \in Streams : InShot(f, s)' => InShot(f, s),
           \A s \in Streams : pc'[s] = "output" => pc[s] = "output"
    PROVE  Way'
  <1> USE DEF Way
  <1>1. RequestTypes'
    BY RequestsAssumption DEF RequestTypes, manager
  <1>2. ThreadTypes'
    BY DEF ThreadTypes, GoodPlaces, NoShot, night
  <1>3. Ring'
    BY DEF Ring, FrameAt, manager
  <1>4. \A f \in Requests, s \in Streams : InThread(f, s)' => InThread(f, s)
    BY DEF InThread
  <1>5. Apart' /\ Owed'
    BY <1>4, ApartStays, OwedStays DEF manager
  <1>6. AtIsp'
    BY DEF AtIsp, manager
  <1> QED
    BY <1>1, <1>2, <1>3, <1>5, <1>6

LEMMA ServiceStep ==
    ASSUME Way, Submit \/ notifyRequestQueueNotEmpty
    PROVE  Way'
  <1>1. GoodPlaces'
    BY DEF GoodPlaces, Way, ThreadTypes, Submit, notifyRequestQueueNotEmpty
  <1>2. submitted' \in submitted .. NumRequests
    BY RequestsAssumption DEF Submit, notifyRequestQueueNotEmpty, Way, RequestTypes
  <1>3. /\ UNCHANGED <<kind, dequeued, freed, manager, night, done, frame, handedOver, shot, pc>>
    BY DEF Submit, notifyRequestQueueNotEmpty, streamVars, sensorVars, night
  <1> QED
    BY <1>1, <1>2, <1>3, QuietStep DEF InShot

LEMMA MainQuietStep ==
    ASSUME Way,
           \/ MainTurn \/ MainFull \/ MainDequeueNull \/ MainNull \/ MainRegistered \/ MainFreed
    PROVE  Way'
  <1> USE DEF Goes, mainOthers, service, sensorVars, streamVars, night
  <1>1. \E to \in Places.main : pc' = [pc EXCEPT !["main"] = to]
    BY DEF MainTurn, TakeTurn, MainFull, MainDequeueNull, MainNull, MainRegistered, MainFreed,
           Then, Places
  <1>2. /\ UNCHANGED <<kind, submitted, dequeued, freed, manager, night, done, frame, handedOver>>
        /\ UNCHANGED shot
    BY DEF MainTurn, TakeTurn, MainFull, MainDequeueNull, MainNull, MainRegistered, MainFreed
  <1>3. PICK to \in Places.main : pc' = [pc EXCEPT !["main"] = to]
    BY <1>1
  <1>4. to \in AllPlaces /\ pc \in [Threads -> AllPlaces]
    BY DEF AllPlaces, Way, ThreadTypes
  <1>5. pc'["main"] = to /\ pc' \in [Threads -> AllPlaces] /\ \A u \in Threads : u # "main" => pc'[u] = pc[u]
    BY <1>3, <1>4, Moves
  <1>6. GoodPlaces'
    BY <1>5 DEF GoodPlaces, Way, ThreadTypes
  <1>7. submitted' \in submitted .. NumRequests
    BY <1>2, RequestsAssumption DEF Way, RequestTypes
  <1>8. \A f \in Requests, u \in Streams : InShot(f, u)' => InShot(f, u)
    BY <1>2, <1>5 DEF InShot, NoShot
  <1> QED
    BY <1>2, <1>5, <1>6, <1>7, <1>8, QuietStep

LEMMA SensorQuietStep ==
    ASSUME Way, SensorTurn \/ SensorBubble
    PROVE  Way'
  <1> USE DEF Goes, sensorOthers, service, sensorVars, streamVars, night
  <1>1. \E to \in {"start", "mark"} : pc' = [pc EXCEPT !["sensor"] = to]
    BY DEF SensorTurn, TakeTurn, SensorBubble
  <1>2. /\ UNCHANGED <<kind, submitted, dequeued, freed, manager, night, done, frame, handedOver>>
        /\ shot' = shot \/ shot' = NoShot
    BY DEF SensorTurn, TakeTurn, SensorBubble
  <1>3. PICK to \in {"start", "mark"} : pc' = [pc EXCEPT !["sensor"] = to]
    BY <1>1
  <1>4. to \in AllPlaces /\ pc \in [Threads -> AllPlaces]
    BY DEF AllPlaces, Places, Way, ThreadTypes
  <1>5. pc'["sensor"] = to /\ pc' \in [Threads -> AllPlaces] /\ \A u \in Threads : u # "sensor" => pc'[u] = pc[u]
    BY <1>3, <1>4, Moves
  <1>6. GoodPlaces'
    BY <1>5 DEF GoodPlaces, Way, ThreadTypes, Places
  <1>7. submitted' \in submitted .. NumRequests
    BY <1>2, RequestsAssumption DEF Way, RequestTypes
  <1>8. \A f \in Requests, u \in Streams : InShot(f, u)' => InShot(f, u)
    BY <1>2, <1>5 DEF InShot, NoShot
  <1> QED
    BY <1>2, <1>5, <1>6, <1>7, <1>8, QuietStep

LEMMA StreamQuietStep ==
    ASSUME Way, NEW s \in Streams, StreamTurn(s) \/ StreamStray(s) \/ (s = "scc" /\ JpegDone)
    PROVE  Way'
  <1> USE DEF Goes, streamOthers, service, sensorVars, streamVars, night
  <1>1. \E to \in {"dequeue", "wait"} : pc' = [pc EXCEPT ![s] = to]
    BY DEF StreamTurn, TakeTurn, StreamStray, JpegDone
  <1>2. /\ UNCHANGED <<kind, submitted, dequeued, freed, manager, night, done, frame, handedOver>>
        /\ UNCHANGED shot
    BY DEF StreamTurn, TakeTurn, StreamStray, JpegDone
  <1>3. PICK to \in {"dequeue", "wait"} : pc' = [pc EXCEPT ![s] = to]
    BY <1>1
  <1>4. to \in AllPlaces /\ pc \in [Threads -> AllPlaces]
    BY DEF AllPlaces, Places, Way, ThreadTypes
  <1>5. pc'[s] = to /\ pc' \in [Threads -> AllPlaces] /\ \A u \in Threads : u # s => pc'[u] = pc[u]
    BY <1>3, <1>4, Moves
  <1>6. GoodPlaces'
    BY <1>5 DEF GoodPlaces, Way, ThreadTypes, Places
  <1>7. submitted' \in submitted .. NumRequests
    BY <1>2, RequestsAssumption DEF Way, RequestTypes
  <1>8. \A f \in Requests, u \in Streams : InShot(f, u)' => InShot(f, u)
    BY <1>2, <1>5 DEF InShot, NoShot
  <1> QED
    BY <1>2, <1>5, <1>6, <1>7, <1>8, QuietStep

\* A request that is taken gets the entry after the last one; nothing of it
\* has come.
LEMMA RegisterStep ==
    ASSUME Way, MainRegister, "night" \notin Kinds
    PROVE  Way'
  <1> USE DEF Way
  <1>1. /\ ~ IsRequestQueueFull /\ dequeued < submitted /\ dequeued' = dequeued + 1
        /\ RegisterRequest(dequeued)
        /\ UNCHANGED <<kind, submitted, freed, night, done, frame, handedOver, shot>>
        /\ pc' = [pc EXCEPT !["main"] = "registered"]
    BY DEF MainRegister, Goes, mainOthers, service, sensorVars, streamVars, night
  <1>2. NumRequests \in Nat /\ dequeued \in Nat /\ dequeued \in Requests /\ submitted \in Nat
    BY <1>1, RequestsAssumption DEF RequestTypes
  <1>3. PICK f \in Requests : f = dequeued
    BY <1>2
  <1>4. kind[f] \in {"preview", "jpeg", "still"}
    <2>1. kind[f] \in Kinds
      BY DEF RequestTypes
    <2> QED
      BY <2>1, RequestsAssumption
  <1>5. PICK e : e = [status |-> "REGISTERED", frame |-> f,
                       outputs |-> IF kind[f] \in {"preview", "jpeg"} THEN 1 ELSE 2]
    OBVIOUS
  <1>6. PICK i : i = m_entryInsertionIndex'
    OBVIOUS
  <1>7. /\ Ring' /\ i \in Indices /\ entries[i].status = "EMPTY"
        /\ entries' = [entries EXCEPT ![i] = e]
        /\ entries' \in [Indices -> Entry]
        /\ UNCHANGED m_entryProcessingIndex
    BY <1>1, <1>3, <1>5, <1>6, RegisterKeepsRing
  <1>8. RequestTypes'
    BY <1>1, <1>7, <1>2, <1>6, RequestsAssumption DEF RequestTypes
  <1>9. /\ pc' \in [Threads -> AllPlaces] /\ pc'["main"] = "registered"
        /\ \A u \in Threads : u # "main" => pc'[u] = pc[u]
    <2>1. "registered" \in AllPlaces /\ pc \in [Threads -> AllPlaces]
      BY DEF AllPlaces, Places, ThreadTypes
    <2> QED
      BY <1>1, <2>1, Moves
  <1>10. ThreadTypes'
    BY <1>1, <1>9 DEF ThreadTypes, Places, night
  <1>11. \A g \in Requests, s \in Streams :
            InShot(g, s)' = InShot(g, s) /\ InDriver(g, s)' = InDriver(g, s)
            /\ InThread(g, s)' = InThread(g, s)
    BY <1>1, <1>9 DEF InShot, InDriver, InThread
  <1>12. Apart'
    BY <1>1, <1>11 DEF Apart
  <1>13. /\ entries'[i] = e /\ \A j \in Indices : j # i => entries'[j] = entries[j]
        /\ entries \in [Indices -> Entry]
    <2>1. entries \in [Indices -> Entry]
      BY DEF RequestTypes
    <2> QED
      BY <1>7, <2>1
  <1>14. \A g \in Requests : Lit(g) => Lit(g)'
    BY <1>7, <1>13 DEF Lit
  <1>15. \A g \in Requests, s \in Streams : Owes(g, s)' = Owes(g, s)
    BY <1>1 DEF Owes
  <1>16. \A s \in Streams : <<f, s>> \notin handedOver
    <2>1. \A s \in Streams : <<f, s>> \in handedOver => f < dequeued
      BY DEF Owed
    <2> QED
      BY <1>2, <1>3, <2>1
  <1>17. Due(f)' = e.outputs /\ e.frame = f /\ e.status = "REGISTERED"
    <2>1. /\ Owes(f, "scp")' <=> "scp" \in Outputs(kind[f])
          /\ Owes(f, "scc")' <=> "scc" \in Outputs(kind[f])
      BY <1>1, <1>16 DEF Owes
    <2> QED
      BY <1>4, <1>5, <2>1 DEF Due, Outputs
  <1>18. Sound(e)'
    BY <1>1, <1>16, <1>17 DEF Sound
  <1>19. ASSUME NEW j \in Indices, entries'[j].status # "EMPTY" PROVE Sound(entries[j])'
    <2>1. CASE j = i
      <3>1. entries'[j] = e
        BY <1>13, <2>1
      <3> QED
        BY <1>18, <3>1 DEF Sound, Due, Owes
    <2>2. CASE j # i
      <3>1. entries'[j] = entries[j] /\ Sound(entries[j])
        BY <1>13, <1>19, <2>2 DEF Owed
      <3> QED
        BY <1>1, <3>1 DEF Sound, Due, Owes
    <2> QED
      BY <2>1, <2>2
  <1>20. Owed'
    <2>1. \A g \in Requests, s \in Streams : OnItsWay(g, s)' => Owes(g, s)' /\ Lit(g)'
      BY <1>11, <1>14, <1>15 DEF Owed, OnItsWay
    <2>2. ASSUME NEW g \in Requests, NEW s \in Streams, <<g, s>> \in handedOver'
          PROVE  g < dequeued'
      <3>1. g < dequeued
        BY <1>1, <2>2 DEF Owed
      <3> QED
        BY <1>1, <1>2, <3>1
    <2> QED
      BY <1>19, <2>1, <2>2 DEF Owed
  <1>21. AtIsp'
    BY <1>1, <1>7, <1>9, <1>13 DEF AtIsp
  <1> QED
    BY <1>7, <1>8, <1>10, <1>12, <1>20, <1>21

\* The request that is freed is finished: nothing of it is on its way.
LEMMA DoneStep ==
    ASSUME Way, MainDone
    PROVE  /\ Way'
           /\ freed' # freed =>
                  /\ freed' = freed + 1 /\ freed < dequeued
                  /\ \A s \in Streams : ~ Owes(freed, s)
  <1> USE DEF Way
  <1>1. /\ UNCHANGED <<kind, submitted, dequeued, night, done, frame, handedOver, shot>>
        /\ pc' = [pc EXCEPT !["main"] = "freed"]
    BY DEF MainDone, Goes, mainOthers, service, sensorVars, streamVars, night
  <1>2. PICK i \in EntriesOf(m_lastCompletedFrameCnt + 1) :
            IF entries[i].status = "COMPLETED"
            THEN freed' = freed + 1 /\ DeregisterRequest(i)
            ELSE UNCHANGED <<freed, manager, signals>>
    BY DEF MainDone
  <1>3. /\ pc' \in [Threads -> AllPlaces] /\ pc'["main"] = "freed"
        /\ \A u \in Threads : u # "main" => pc'[u] = pc[u]
    <2>1. "freed" \in AllPlaces /\ pc \in [Threads -> AllPlaces]
      BY DEF AllPlaces, Places, ThreadTypes
    <2> QED
      BY <1>1, <2>1, Moves
  <1>4. ThreadTypes' /\ GoodPlaces'
    BY <1>1, <1>3 DEF ThreadTypes, GoodPlaces, Places, night
  <1>5. CASE entries[i].status # "COMPLETED"
    <2>1. UNCHANGED <<freed, manager>>
      BY <1>2, <1>5
    <2>2. submitted' \in submitted .. NumRequests
      BY <1>1, RequestsAssumption DEF RequestTypes
    <2>3. Way'
      BY <1>1, <1>3, <1>4, <2>1, <2>2, QuietStep DEF InShot
    <2> QED
      BY <2>1, <2>3
  <1>6. CASE entries[i].status = "COMPLETED"
    <2>1. i \in Indices /\ entries[i].frame = m_lastCompletedFrameCnt + 1
      BY DEF EntriesOf
    <2>2. \A j \in Indices : entries[j].status = "METADONE" => entries[j].outputs # 0
      BY DEF Owed, Sound
    <2>3. DeregisterRequest(i) /\ freed' = freed + 1
      BY <1>2, <1>6
    <2>4. /\ Ring' /\ entries' \in [Indices -> Entry]
          /\ entries' = [entries EXCEPT ![i] = EmptyEntry]
          /\ UNCHANGED <<m_entryInsertionIndex, m_entryProcessingIndex>>
          /\ freed < dequeued
      BY <1>1, <2>1, <2>2, <2>3, DeregisterKeepsRing
    <2>5. RequestTypes'
      BY <1>1, <2>3, <2>4, RequestsAssumption DEF RequestTypes
    <2>6. /\ entries'[i] = EmptyEntry /\ EmptyEntry.status = "EMPTY"
          /\ \A j \in Indices : j # i => entries'[j] = entries[j]
      BY <2>1, <2>4 DEF RequestTypes, EmptyEntry
    <2>7. \A f \in Requests : Lit(f) => Lit(f)'
      BY <1>6, <2>6 DEF Lit
    <2>8. \A f \in Requests, s \in Streams :
              InShot(f, s)' = InShot(f, s) /\ InDriver(f, s)' = InDriver(f, s)
              /\ InThread(f, s)' = InThread(f, s) /\ Owes(f, s)' = Owes(f, s)
      BY <1>1, <1>3 DEF InShot, InDriver, InThread, Owes
    <2>9. Apart'
      BY <1>1, <2>8 DEF Apart
    <2>10. ASSUME NEW j \in Indices, entries'[j].status # "EMPTY" PROVE Sound(entries[j])'
      <3>1. entries'[j] = entries[j] /\ Sound(entries[j])
        BY <2>6, <2>10 DEF Owed
      <3> QED
        BY <1>1, <3>1 DEF Sound, Due, Owes
    <2>11. Owed'
      <3>1. \A f \in Requests, s \in Streams : OnItsWay(f, s)' => Owes(f, s)' /\ Lit(f)'
        BY <2>7, <2>8 DEF Owed, OnItsWay
      <3>2. \A f \in Requests, s \in Streams : <<f, s>> \in handedOver' => f < dequeued'
        BY <1>1 DEF Owed
      <3> QED
        BY <2>10, <3>1, <3>2 DEF Owed
    <2>12. AtIsp'
      BY <1>1, <1>3, <1>6, <2>6 DEF AtIsp
    <2>13. entries[i].frame = freed
      BY <2>1, RequestsAssumption DEF Ring, RequestTypes
    <2>14. Due(freed) = 0
      BY <1>6, <2>1, <2>13 DEF Owed, Sound
    <2>15. \A s \in Streams : ~ Owes(freed, s)
      BY <2>14 DEF Due
    <2> QED
      BY <1>4, <2>3, <2>4, <2>5, <2>9, <2>11, <2>12, <2>15
  <1> QED
    BY <1>5, <1>6

\* Where the sensor thread is after a step that ends at `to`.
LEMMA SensorMoves ==
    ASSUME ThreadTypes, NEW to \in Places.sensor, pc' = [pc EXCEPT !["sensor"] = to]
    PROVE  /\ GoodPlaces' /\ pc'["sensor"] = to
           /\ \A u \in Threads : u # "sensor" => pc'[u] = pc[u]
  <1>1. to \in AllPlaces /\ pc \in [Threads -> AllPlaces]
    BY DEF AllPlaces, ThreadTypes
  <1>2. /\ pc' \in [Threads -> AllPlaces] /\ pc'["sensor"] = to
        /\ \A u \in Threads : u # "sensor" => pc'[u] = pc[u]
    BY <1>1, Moves
  <1> QED
    BY <1>2 DEF GoodPlaces, ThreadTypes

LEMMA SensorMatchStep ==
    ASSUME Way, SensorMatch, "night" \notin Kinds
    PROVE  Way'
  <1> USE DEF Way
  <1>1. m_nightCaptureCnt = 0 /\ m_nightCaptureFrameCnt = 0
    BY DEF ThreadTypes
  <1>2. PICK f : f = Matched(Head(sensor))
    OBVIOUS
  <1>3. f # NoFrame /\ f = Head(sensor) /\ \E i \in EntriesOf(f) : entries[i].status = "REQUESTED"
    BY <1>1, <1>2 DEF SensorMatch, Matched
  <1>4. PICK i \in Indices : entries[i].frame = f /\ entries[i].status = "REQUESTED"
    BY <1>3 DEF EntriesOf
  <1>5. f \in Requests /\ kind[f] # "night"
    <2>1. f \in Requests
      BY <1>3, <1>4 DEF RequestTypes, Entry
    <2>2. kind[f] \in Kinds
      BY <2>1 DEF RequestTypes
    <2> QED
      BY <2>1, <2>2
  <1>6. AskedOutputs(f) = Outputs(kind[f])
    BY <1>1, <1>4, <1>5 DEF AskedOutputs, EntriesOf
  <1>7. /\ shot' = [frame |-> f, outputs |-> Outputs(kind[f]), dropped |-> {}]
        /\ entries' = Captured(f)
        /\ pc' = [pc EXCEPT !["sensor"] = "isp"]
        /\ UNCHANGED <<kind, submitted, dequeued, freed, managerOthers, done, frame, handedOver>>
    BY <1>2, <1>3, <1>6 DEF SensorMatch, Goes, sensorOthers, service, streamVars
  <1>8. UNCHANGED night
    BY <1>1, <1>2, <1>5 DEF SensorMatch, night
  <1>9. PICK e \in Entry : /\ Updates(i, e) /\ e.frame = f /\ e.outputs = entries[i].outputs
                           /\ e.status = "CAPTURED"
    BY <1>1, <1>4, <1>5, <1>7, CapturedUpdates
  <1>10. /\ GoodPlaces' /\ pc'["sensor"] = "isp"
         /\ \A u \in Threads : u # "sensor" => pc'[u] = pc[u]
    <2>1. "isp" \in Places.sensor
      BY DEF Places
    <2> QED
      BY <1>7, <2>1, SensorMoves
  <1>11. kind[f] \in {"preview", "jpeg", "still"} /\ Outputs(kind[f]) \subseteq Streams
    <2>1. kind[f] \in Kinds
      BY <1>5 DEF RequestTypes
    <2>2. kind[f] \in {"preview", "jpeg", "still"}
      BY <1>5, <2>1, RequestsAssumption
    <2> QED
      BY <2>2 DEF Outputs
  <1>12. ThreadTypes'
    BY <1>5, <1>7, <1>8, <1>10, <1>11 DEF ThreadTypes, GoodPlaces, night
  <1>13. ~ Lit(f)
    <2>1. \A j \in Indices : entries[j].frame = f => j = i
      BY <1>4, <1>5, RingIsExact
    <2> QED
      BY <1>4, <2>1 DEF Lit
  <1>14. \A s \in Streams : ~ OnItsWay(f, s)
    BY <1>5, <1>13 DEF Owed
  <1>15. \A g \in Requests, s \in Streams : InDriver(g, s)' = InDriver(g, s) /\ InThread(g, s)' = InThread(g, s)
    BY <1>7, <1>10 DEF InDriver, InThread
  <1>16. \A g \in Requests, s \in Streams : InShot(g, s)' <=> g = f /\ s \in Outputs(kind[f])
    BY <1>7, <1>10 DEF InShot
  <1>17. Apart'
    BY <1>7, <1>14, <1>15, <1>16 DEF Apart, OnItsWay
  <1>18. Sound(entries[i])
    BY <1>4 DEF Owed
  <1>19. \A g \in Requests, s \in Streams : Owes(g, s)' = Owes(g, s)
    BY <1>7 DEF Owes
  <1>20. Sound(e)'
    <2>1. Due(f)' = Due(f)
      BY <1>5, <1>19 DEF Due
    <2>2. e.outputs = Due(f)
      BY <1>4, <1>9, <1>18 DEF Sound
    <2>3. e.outputs = Due(e.frame)'
      BY <1>9, <2>1, <2>2
    <2> QED
      BY <1>9, <2>3 DEF Sound
  <1>21. ASSUME NEW s \in Streams, OnItsWay(f, s)'
         PROVE  Owes(f, s)' /\ e.status \in {"CAPTURED", "METADONE"}
    <2>1. s \in Outputs(kind[f])
      BY <1>5, <1>14, <1>15, <1>16, <1>21 DEF OnItsWay
    <2>2. <<f, s>> \notin handedOver
      BY <1>4, <1>18 DEF Sound
    <2> QED
      BY <1>5, <1>9, <1>19, <2>1, <2>2 DEF Owes
  <1>22. Owed' /\ Ring' /\ entries' \in [Indices -> Entry]
    <2>1. UNCHANGED <<kind, ringVars>>
      BY <1>7 DEF managerOthers, ringVars
    <2>2. ASSUME NEW g \in Requests, NEW s \in Streams, g # e.frame
          PROVE  /\ OnItsWay(g, s)' => OnItsWay(g, s)
                 /\ <<g, s>> \in handedOver' <=> <<g, s>> \in handedOver
      BY <1>7, <1>9, <1>15, <1>16, <2>2 DEF OnItsWay
    <2>3. \A s \in Streams : OnItsWay(e.frame, s)' => /\ Owes(e.frame, s)'
                                                      /\ e.status \in {"CAPTURED", "METADONE"}
      BY <1>9, <1>21
    <2> QED
      BY <1>9, <1>20, <2>1, <2>2, <2>3, OneEntryChanges
  <1>23. RequestTypes'
    BY <1>7, <1>22 DEF RequestTypes, managerOthers
  <1>24. AtIsp'
    <2>1. entries'[i] = e
      BY <1>9 DEF Updates, RequestTypes
    <2> QED
      BY <1>4, <1>7, <1>9, <2>1 DEF AtIsp
  <1> QED
    BY <1>12, <1>17, <1>22, <1>23, <1>24

\* What the ISP gives back is ready in the drivers, or dropped.
LEMMA SensorIspStep ==
    ASSUME Way, SensorIsp
    PROVE  Way'
  <1> USE DEF Way
  <1>1. PICK dropped \in SUBSET shot.outputs :
            /\ shot' = [frame |-> shot.frame, outputs |-> shot.outputs \ dropped,
                        dropped |-> dropped]
            /\ done' = [s \in Streams |->
                           IF s \in shot.outputs \ dropped
                           THEN Append(done[s], shot.frame) ELSE done[s]]
    BY DEF SensorIsp
  <1>2. /\ UNCHANGED <<kind, submitted, dequeued, freed, manager, night, frame, handedOver>>
        /\ pc["sensor"] = "isp" /\ pc' = [pc EXCEPT !["sensor"] = "meta"]
    BY DEF SensorIsp, Goes, sensorOthers, service, night
  <1>3. /\ GoodPlaces' /\ pc'["sensor"] = "meta"
        /\ \A u \in Threads : u # "sensor" => pc'[u] = pc[u]
    <2>1. "meta" \in Places.sensor
      BY DEF Places
    <2> QED
      BY <1>2, <2>1, SensorMoves
  <1>4. shot.frame \in Requests
    <2>1. PICK i \in Indices : entries[i].frame = shot.frame /\ entries[i].status = "CAPTURED"
      BY <1>2 DEF AtIsp
    <2>2. entries[i].frame # NoFrame
      BY <2>1, RingIsExact
    <2> QED
      BY <2>1, <2>2 DEF RequestTypes, Entry
  <1>5. shot.outputs \subseteq Streams
    BY DEF ThreadTypes
  <1>6. \A f \in Requests, s \in Streams : InShot(f, s)' <=> f = shot.frame /\ s \in dropped
    BY <1>1, <1>3 DEF InShot
  <1>7. \A s \in Streams : s \in shot.outputs => InShot(shot.frame, s)
    BY <1>2 DEF InShot
  <1>8. \A f \in Requests, s \in Streams : InThread(f, s)' = InThread(f, s)
    BY <1>2, <1>3 DEF InThread
  <1>9. ASSUME NEW s \in Streams
        PROVE  /\ done'[s] \in Seq(Requests) /\ IsInjective(done'[s])
               /\ \A f \in Requests : InDriver(f, s)'
                      <=> InDriver(f, s) \/ (f = shot.frame /\ s \in shot.outputs \ dropped)
    <2>1. done[s] \in Seq(Requests) /\ IsInjective(done[s])
      BY DEF ThreadTypes, Apart
    <2>2. CASE s \in shot.outputs \ dropped
      <3>1. done'[s] = Append(done[s], shot.frame)
        BY <1>1, <2>2
      <3>2. shot.frame \notin Range(done[s])
        BY <1>4, <1>7, <2>2 DEF Apart, InDriver
      <3>3. /\ Append(done[s], shot.frame) \in Seq(Requests)
            /\ IsInjective(Append(done[s], shot.frame))
            /\ Range(Append(done[s], shot.frame)) = Range(done[s]) \cup {shot.frame}
        <4> DEFINE q == done[s]
                   f == shot.frame
        <4>1. f \in Requests /\ q \in Seq(Requests) /\ IsInjective(q) /\ f \notin Range(q)
          BY <1>4, <2>1, <3>2
        <4> HIDE DEF q, f
        <4>2. Append(q, f) \in Seq(Requests) /\ IsInjective(Append(q, f))
              /\ Range(Append(q, f)) = Range(q) \cup {f}
          <5> HIDE DEF Requests
          <5> QED
            BY <4>1, AppendIsInjective
        <4> QED
          BY <4>2 DEF q, f
      <3> QED
        BY <2>2, <3>1, <3>3 DEF InDriver
    <2>3. CASE ~ (s \in shot.outputs \ dropped)
      <3>1. done'[s] = done[s]
        BY <1>1, <2>3
      <3> QED
        BY <2>1, <2>3, <3>1 DEF InDriver
    <2> QED
      BY <2>2, <2>3
  <1>10. ThreadTypes'
    <2>1. shot' \in [frame : Requests \cup {NoFrame}, outputs : SUBSET Streams,
                     dropped : SUBSET Streams]
      BY <1>1, <1>4, <1>5
    <2>2. shot'.frame # NoFrame
      BY <1>1, <1>4
    <2>3. done' \in [Streams -> Seq(Requests)]
      BY <1>1, <1>9
    <2> QED
      BY <1>2, <1>3, <2>1, <2>2, <2>3 DEF ThreadTypes, GoodPlaces, night
  <1>11. Apart'
    <2>1. ASSUME NEW s \in Streams, NEW f \in Requests
          PROVE  /\ ~ (InShot(f, s)' /\ InDriver(f, s)')
                 /\ ~ (InShot(f, s)' /\ InThread(f, s)')
                 /\ ~ (InThread(f, s)' /\ InDriver(f, s)')
      BY <1>4, <1>6, <1>7, <1>8, <1>9 DEF Apart
    <2> QED
      BY <1>9, <2>1 DEF Apart
  <1>12. Owed'
    <2>1. \A f \in Requests, s \in Streams : OnItsWay(f, s)' => OnItsWay(f, s)
      BY <1>6, <1>7, <1>8, <1>9 DEF OnItsWay
    <2> QED
      BY <1>2, <2>1, OwedStays DEF manager
  <1>13. RequestTypes' /\ Ring'
    BY <1>2 DEF RequestTypes, Ring, FrameAt, manager
  <1>14. AtIsp'
    BY <1>3 DEF AtIsp
  <1> QED
    BY <1>10, <1>11, <1>12, <1>13, <1>14

\* What SensorMeta finds, if it finds anything.
LEMMA MetaFinds ==
    ASSUME RequestTypes, Ring, SensorMeta
    PROVE  \/ UNCHANGED <<entries, signals>>
           \/ \E i \in Indices, e \in Entry :
                  /\ Updates(i, e) /\ e.frame = shot.frame /\ entries[i].frame = shot.frame
                  /\ entries[i].status = "CAPTURED" /\ e.outputs = entries[i].outputs
                  /\ e.status = IF e.outputs = 0 THEN "COMPLETED" ELSE "METADONE"
                  /\ e.frame \in Requests
                  /\ signals' = TellMainIf(signals, e.status = "COMPLETED"
                                                    /\ m_lastCompletedFrameCnt + 1 = e.frame)
  <1> SUFFICES ASSUME ~ UNCHANGED <<entries, signals>>
               PROVE  \E i \in Indices, e \in Entry :
                  /\ Updates(i, e) /\ e.frame = shot.frame /\ entries[i].frame = shot.frame
                  /\ entries[i].status = "CAPTURED" /\ e.outputs = entries[i].outputs
                  /\ e.status = IF e.outputs = 0 THEN "COMPLETED" ELSE "METADONE"
                  /\ e.frame \in Requests
                  /\ signals' = TellMainIf(signals, e.status = "COMPLETED"
                                                    /\ m_lastCompletedFrameCnt + 1 = e.frame)
    OBVIOUS
  <1>1. PICK i \in Indices :
            LET es == [entries EXCEPT ![i].status = "METADONE"] IN
            /\ entries[i].frame = shot.frame /\ entries[i].status = "CAPTURED"
            /\ entries' = CheckCompleted(es, i)
            /\ signals' = TellMainIf(signals, WakesMain(es, i, m_lastCompletedFrameCnt))
    BY DEF SensorMeta, EntriesOf
  <1>2. /\ entries[i].frame # NoFrame /\ entries[i] \in Entry /\ shot.frame \in Requests
        /\ entries[i].outputs \in 0 .. 2
    <2>1. entries[i].frame # NoFrame /\ entries[i] \in Entry
      BY <1>1, RingIsExact DEF RequestTypes
    <2> QED
      BY <1>1, <2>1 DEF Entry
  <1>3. PICK d \in Entry :
            /\ d.frame = entries[i].frame /\ d.outputs = entries[i].outputs
            /\ d.status = "METADONE"
            /\ [entries EXCEPT ![i].status = "METADONE"] = [entries EXCEPT ![i] = d]
    <2>1. "METADONE" \in Statuses \ {"EMPTY"} /\ entries[i].status # "EMPTY"
      BY <1>1 DEF Statuses
    <2> QED
      BY <2>1, StatusUpdates
  <1>4. PICK e \in Entry : e = Checked(d) /\ entries' = [entries EXCEPT ![i] = e]
    BY <1>1, <1>3, CheckUpdates
  <1>5. Completes(d) <=> d.outputs = 0
    BY <1>2, <1>3 DEF Completes
  <1>6. /\ e.frame = shot.frame /\ e.outputs = entries[i].outputs
        /\ e.status = IF e.outputs = 0 THEN "COMPLETED" ELSE "METADONE"
    BY <1>1, <1>3, <1>4, <1>5 DEF Checked, Entry
  <1>7. Updates(i, e)
    BY <1>1, <1>4, <1>6 DEF Updates
  <1>8. signals' = TellMainIf(signals, e.status = "COMPLETED"
                                           /\ m_lastCompletedFrameCnt + 1 = e.frame)
    <2> DEFINE es == [entries EXCEPT ![i].status = "METADONE"]
    <2>1. es[i] = d
      BY <1>3 DEF RequestTypes
    <2>2. WakesMain(es, i, m_lastCompletedFrameCnt)
              <=> e.status = "COMPLETED" /\ m_lastCompletedFrameCnt + 1 = e.frame
      BY <1>1, <1>3, <1>5, <1>6, <2>1 DEF WakesMain
    <2> QED
      BY <1>1, <2>2 DEF TellMainIf
  <1> QED
    BY <1>1, <1>2, <1>6, <1>7, <1>8

\* The metadata of a frame finishes the request only if nothing is due.
LEMMA SensorMetaStep ==
    ASSUME Way, SensorMeta
    PROVE  Way'
  <1> USE DEF Way
  <1>1. /\ UNCHANGED <<kind, submitted, dequeued, freed, managerOthers, night, shot, done, frame,
                       handedOver>>
        /\ pc["sensor"] = "meta" /\ pc' = [pc EXCEPT !["sensor"] = "scc"]
    BY DEF SensorMeta, Goes, sensorOthers, service, sensorVars, streamVars, night
  <1>2. /\ GoodPlaces' /\ pc'["sensor"] = "scc"
        /\ \A u \in Threads : u # "sensor" => pc'[u] = pc[u]
    <2>1. "scc" \in Places.sensor
      BY DEF Places
    <2> QED
      BY <1>1, <2>1, SensorMoves
  <1>3. \A f \in Requests, s \in Streams : /\ InShot(f, s)' => InShot(f, s)
                                           /\ InThread(f, s)' => InThread(f, s)
    BY <1>1, <1>2 DEF InShot, InThread
  <1>4. submitted' \in submitted .. NumRequests
    BY <1>1, RequestsAssumption DEF RequestTypes
  <1>5. CASE UNCHANGED <<entries, signals>>
    <2>1. UNCHANGED manager
      BY <1>1, <1>5 DEF manager, managerOthers
    <2> QED
      BY <1>1, <1>2, <1>3, <1>4, <2>1, QuietStep
  <1>6. CASE ~ UNCHANGED <<entries, signals>>
    <2>1. PICK i \in Indices, e \in Entry :
              /\ Updates(i, e) /\ e.frame = shot.frame /\ entries[i].frame = shot.frame
              /\ entries[i].status = "CAPTURED" /\ e.outputs = entries[i].outputs
              /\ e.status = IF e.outputs = 0 THEN "COMPLETED" ELSE "METADONE"
              /\ e.frame \in Requests
      BY <1>6, MetaFinds
    <2>2. /\ Apart' /\ \A f \in Requests, s \in Streams : OnItsWay(f, s)' => OnItsWay(f, s)
      BY <1>1, <1>3, ApartStays
    <2>3. \A f \in Requests, s \in Streams : Owes(f, s)' = Owes(f, s)
      BY <1>1 DEF Owes
    <2>4. Sound(entries[i])
      BY <2>1 DEF Owed
    <2>5. e.outputs = Due(e.frame) /\ Due(e.frame)' = Due(e.frame)
      BY <2>1, <2>3, <2>4 DEF Sound, Due
    <2>6. Sound(e)'
      BY <2>1, <2>5 DEF Sound
    <2>7. ASSUME NEW s \in Streams, OnItsWay(e.frame, s)'
           PROVE  Owes(e.frame, s)' /\ e.status \in {"CAPTURED", "METADONE"}
      <3>1. Owes(e.frame, s)
        BY <2>1, <2>2, <2>7 DEF Owed
      <3>2. e.outputs # 0
        BY <2>5, <3>1 DEF Due
      <3> QED
        BY <2>1, <2>3, <3>1, <3>2
    <2>8. Owed' /\ Ring' /\ entries' \in [Indices -> Entry]
      <3>1. UNCHANGED <<kind, ringVars>>
        BY <1>1 DEF managerOthers, ringVars
      <3>2. \A f \in Requests, s \in Streams :
                f # e.frame => /\ OnItsWay(f, s)' => OnItsWay(f, s)
                               /\ <<f, s>> \in handedOver' <=> <<f, s>> \in handedOver
        BY <1>1, <2>2
      <3> QED
        BY <2>1, <2>6, <2>7, <3>1, <3>2, OneEntryChanges
    <2>9. RequestTypes'
      BY <1>1, <2>8 DEF RequestTypes, managerOthers
    <2>10. ThreadTypes'
      BY <1>1, <1>2 DEF ThreadTypes, GoodPlaces, night
    <2>11. AtIsp'
      BY <1>2 DEF AtIsp
    <2> QED
      BY <2>2, <2>8, <2>9, <2>10, <2>11
  <1> QED
    BY <1>5, <1>6

\* The dropped output of a shot is counted, the one that came announced.
LEMMA SensorOutputStep ==
    ASSUME Way, NEW s \in Streams, NEW from, NEW to, SensorOutput(s, from, to),
           \/ s = "scc" /\ from = "scc" /\ to = "scp"
           \/ s = "scp" /\ from = "scp" /\ to = "mark"
    PROVE  /\ Way'
           /\ handedOver' # handedOver =>
                  /\ shot.frame \in Requests /\ OnItsWay(shot.frame, s)
                  /\ handedOver' = handedOver \cup {<<shot.frame, s>>}
  <1> USE DEF Way
  <1>1. /\ UNCHANGED <<kind, submitted, dequeued, freed, managerOthers, night, shot, done, frame>>
        /\ pc["sensor"] = from /\ pc' = [pc EXCEPT !["sensor"] = to]
    BY DEF SensorOutput, Goes, sensorOthers, service, sensorVars, night
  <1>2. /\ GoodPlaces' /\ pc'["sensor"] = to
        /\ \A u \in Threads : u # "sensor" => pc'[u] = pc[u]
    <2>1. to \in Places.sensor
      BY DEF Places
    <2> QED
      BY <1>1, <2>1, SensorMoves
  <1>3. \A f \in Requests, u \in Streams : /\ InShot(f, u)' => InShot(f, u)
                                           /\ InThread(f, u)' => InThread(f, u)
    BY <1>1, <1>2 DEF InShot, InThread
  <1>4. submitted' \in submitted .. NumRequests
    BY <1>1, RequestsAssumption DEF RequestTypes
  <1>5. CASE s \notin shot.dropped
    <2>1. UNCHANGED <<manager, handedOver>>
      BY <1>1, <1>5 DEF SensorOutput, manager, managerOthers
    <2> QED
      BY <1>1, <1>2, <1>3, <1>4, <2>1, QuietStep
  <1>6. CASE s \in shot.dropped
    <2>1. PICK f : f = shot.frame
      OBVIOUS
    <2>2. f \in Requests
      BY <1>6, <2>1 DEF ThreadTypes
    <2>3. InShot(f, s) /\ ~ InShot(f, s)' /\ OnItsWay(f, s)
      BY <1>1, <1>2, <1>6, <2>1, <2>2 DEF InShot, OnItsWay
    <2>4. Lit(f)
      BY <2>2, <2>3 DEF Owed
    <2>5. NotifyStreamOutput(f) /\ handedOver' = handedOver \cup {<<f, s>>}
      <3>1. EntriesOf(f) # {}
        BY <2>4 DEF Lit, EntriesOf
      <3> QED
        BY <1>6, <2>1, <3>1 DEF SensorOutput
    <2>6. /\ Apart' /\ \A g \in Requests, u \in Streams : OnItsWay(g, u)' => OnItsWay(g, u)
      BY <1>1, <1>3, ApartStays
    <2>7. ~ OnItsWay(f, s)'
      <3>1. ~ InDriver(f, s)' /\ ~ InThread(f, s)'
        BY <1>1, <1>3, <2>2, <2>3 DEF Apart, InDriver
      <3> QED
        BY <2>3, <3>1 DEF OnItsWay
    <2>8. Owed' /\ Ring' /\ entries' \in [Indices -> Entry]
      <3>1. UNCHANGED <<kind, ringVars>>
        BY <1>1 DEF managerOthers, ringVars
      <3> QED
        BY <2>2, <2>3, <2>5, <2>6, <2>7, <3>1, OutputComes
    <2>9. RequestTypes'
      BY <1>1, <2>8 DEF RequestTypes, managerOthers
    <2>10. ThreadTypes'
      BY <1>1, <1>2, <2>2, <2>5 DEF ThreadTypes, GoodPlaces, night
    <2>11. AtIsp'
      BY <1>2 DEF AtIsp
    <2> QED
      BY <2>1, <2>2, <2>3, <2>5, <2>6, <2>8, <2>9, <2>10, <2>11
  <1> QED
    BY <1>5, <1>6

\* A request that goes to the sensor has no output yet.
LEMMA SensorMarkStep ==
    ASSUME Way, SensorMark
    PROVE  Way'
  <1> USE DEF Way
  <1>1. /\ UNCHANGED <<kind, submitted, dequeued, freed, m_numOfEntries, m_entryInsertionIndex,
                       m_lastCompletedFrameCnt, night, done, frame, handedOver>>
        /\ pc' = [pc EXCEPT !["sensor"] = "wait"] /\ shot' = NoShot
    BY DEF SensorMark, Goes, sensorOthers, service, streamVars, night
  <1>2. /\ GoodPlaces' /\ pc'["sensor"] = "wait"
        /\ \A u \in Threads : u # "sensor" => pc'[u] = pc[u]
    <2>1. "wait" \in Places.sensor
      BY DEF Places
    <2> QED
      BY <1>1, <2>1, SensorMoves
  <1>3. \A f \in Requests, s \in Streams : /\ InShot(f, s)' => InShot(f, s)
                                           /\ InThread(f, s)' => InThread(f, s)
    BY <1>1, <1>2 DEF InShot, InThread
  <1>4. submitted' \in submitted .. NumRequests
    BY <1>1, RequestsAssumption DEF RequestTypes
  <1>5. CASE UNCHANGED <<entries, m_entryProcessingIndex>>
    <2>1. UNCHANGED manager
      BY <1>1, <1>5 DEF manager
    <2> QED
      BY <1>1, <1>2, <1>3, <1>4, <2>1, QuietStep
  <1>6. CASE ~ UNCHANGED <<entries, m_entryProcessingIndex>>
    <2>1. PICK i \in Indices, e \in Entry :
              /\ Updates(i, e) /\ entries[i].status = "REGISTERED" /\ e.status = "REQUESTED"
              /\ e.outputs = entries[i].outputs /\ m_entryProcessingIndex' = i
      BY <1>6, MarkFinds
    <2>2. e.frame = entries[i].frame
      BY <2>1 DEF Updates
    <2>3. entries[i].frame \in Requests
      <3>1. entries[i].frame # NoFrame /\ entries[i] \in Entry
        BY <2>1, RingIsExact DEF RequestTypes
      <3> QED
        BY <3>1 DEF Entry
    <2>4. /\ Apart' /\ \A f \in Requests, s \in Streams : OnItsWay(f, s)' => OnItsWay(f, s)
      BY <1>1, <1>3, ApartStays
    <2>5. \A s \in Streams : ~ OnItsWay(e.frame, s)'
      <3>1. \A k \in Indices : entries[k].frame = e.frame => k = i
        BY <2>1, <2>2, <2>3, RingIsExact
      <3>2. ~ Lit(e.frame)
        BY <2>1, <3>1 DEF Lit
      <3> QED
        BY <2>2, <2>3, <2>4, <3>2 DEF Owed
    <2>6. Sound(e)'
      <3>1. Sound(entries[i])
        BY <2>1 DEF Owed
      <3>2. \A s \in Streams : Owes(e.frame, s)' = Owes(e.frame, s)
        BY <1>1 DEF Owes
      <3>3. Due(e.frame)' = Due(e.frame)
        BY <3>2 DEF Due
      <3>4. e.outputs = Due(e.frame)'
        BY <2>1, <2>2, <3>1, <3>3 DEF Sound
      <3> QED
        BY <1>1, <2>1, <2>2, <3>1, <3>4 DEF Sound
    <2>7. Owed' /\ Ring' /\ entries' \in [Indices -> Entry]
      <3>1. UNCHANGED <<kind, ringVars>>
        BY <1>1 DEF ringVars
      <3>2. \A f \in Requests, s \in Streams :
                f # e.frame => /\ OnItsWay(f, s)' => OnItsWay(f, s)
                               /\ <<f, s>> \in handedOver' <=> <<f, s>> \in handedOver
        BY <1>1, <2>4
      <3> QED
        BY <2>1, <2>5, <2>6, <3>1, <3>2, OneEntryChanges
    <2>8. RequestTypes'
      BY <1>1, <2>1, <2>7 DEF RequestTypes
    <2>9. ThreadTypes'
      BY <1>1, <1>2 DEF ThreadTypes, GoodPlaces, night, NoShot
    <2>10. AtIsp'
      BY <1>2 DEF AtIsp
    <2> QED
      BY <2>4, <2>7, <2>8, <2>9, <2>10
  <1> QED
    BY <1>5, <1>6

\* Where a stream thread is after a step.
LEMMA StreamMoves ==
    ASSUME ThreadTypes, NEW s \in Streams, NEW to \in {"wait", "output", "stray", "jpeg"},
           to = "jpeg" => s = "scc", pc' = [pc EXCEPT ![s] = to]
    PROVE  /\ GoodPlaces' /\ pc'[s] = to
           /\ \A u \in Threads : u # s => pc'[u] = pc[u]
  <1>1. to \in AllPlaces /\ pc \in [Threads -> AllPlaces]
    BY DEF AllPlaces, Places, ThreadTypes
  <1>2. /\ pc' \in [Threads -> AllPlaces] /\ pc'[s] = to
        /\ \A u \in Threads : u # s => pc'[u] = pc[u]
    BY <1>1, Moves
  <1> QED
    BY <1>2 DEF GoodPlaces, ThreadTypes, Places

\* The frame goes from the driver to the thread.
LEMMA StreamDequeueStep ==
    ASSUME Way, NEW s \in Streams, StreamDequeue(s)
    PROVE  Way'
  <1> USE DEF Way
  <1> DEFINE q == done[s]
             h == Head(done[s])
  <1>1. /\ UNCHANGED <<kind, submitted, dequeued, freed, manager, night, shot, handedOver>>
        /\ q # <<>> /\ pc[s] = "dequeue"
        /\ frame' = [frame EXCEPT ![s] = h]
        /\ done' = [done EXCEPT ![s] = Tail(q)]
        /\ \E to \in {"output", "stray"} : pc' = [pc EXCEPT ![s] = to]
    BY DEF StreamDequeue, Goes, streamOthers, service, sensorVars, night
  <1>2. PICK to \in {"output", "stray"} : pc' = [pc EXCEPT ![s] = to]
    BY <1>1
  <1>3. /\ GoodPlaces' /\ pc'[s] = to
        /\ \A u \in Threads : u # s => pc'[u] = pc[u]
    BY <1>2, StreamMoves
  <1>4. q \in Seq(Requests) /\ IsInjective(q)
    BY DEF ThreadTypes, Apart
  <1>5. /\ Tail(q) \in Seq(Requests) /\ IsInjective(Tail(q)) /\ h \in Requests /\ h \in Range(q)
        /\ Range(Tail(q)) = Range(q) \ {h}
    <2> HIDE DEF q, Requests
    <2>1. q # <<>>
      BY <1>1
    <2>2. /\ Tail(q) \in Seq(Requests) /\ IsInjective(Tail(q)) /\ Head(q) \in Requests
          /\ Head(q) \in Range(q) /\ Range(Tail(q)) = Range(q) \ {Head(q)}
      BY <1>4, <2>1, TailIsInjective
    <2> QED
      BY <2>2 DEF q
  <1> HIDE DEF q, h
  <1>6. /\ frame'[s] = h /\ \A u \in Streams : u # s => frame'[u] = frame[u]
        /\ frame' \in [Streams -> Requests \cup {NoFrame}]
        /\ done'[s] = Tail(q) /\ \A u \in Streams : u # s => done'[u] = done[u]
        /\ done' \in [Streams -> Seq(Requests)]
    <2>1. done \in [Streams -> Seq(Requests)] /\ frame \in [Streams -> Requests \cup {NoFrame}]
      BY DEF ThreadTypes
    <2> QED
      BY <1>1, <1>5, <2>1
  <1>7. \A f \in Requests, u \in Streams : InShot(f, u)' = InShot(f, u)
    BY <1>1, <1>3 DEF InShot
  <1>8. \A f \in Requests, u \in Streams :
            u # s => InDriver(f, u)' = InDriver(f, u) /\ InThread(f, u)' = InThread(f, u)
    BY <1>3, <1>6 DEF InDriver, InThread
  <1>9. \A f \in Requests : /\ InDriver(f, s)' <=> InDriver(f, s) /\ f # h
                            /\ InThread(f, s)' => f = h
    BY <1>5, <1>6 DEF InDriver, InThread, q
  <1>10. InDriver(h, s)
    BY <1>5 DEF InDriver, q
  <1>11. Apart'
    <2>1. ASSUME NEW u \in Streams, NEW f \in Requests
          PROVE  /\ ~ (InShot(f, u)' /\ InDriver(f, u)')
                 /\ ~ (InShot(f, u)' /\ InThread(f, u)')
                 /\ ~ (InThread(f, u)' /\ InDriver(f, u)')
      <3>1. CASE u = s
        BY <1>7, <1>9, <1>10, <3>1 DEF Apart
      <3>2. CASE u # s
        BY <1>7, <1>8, <3>2 DEF Apart
      <3> QED
        BY <3>1, <3>2
    <2>2. ASSUME NEW u \in Streams PROVE IsInjective(done'[u])
      <3>1. u # s => done'[u] = done[u] /\ IsInjective(done[u])
        BY <1>6 DEF Apart
      <3>2. u = s => done'[u] = Tail(q)
        BY <1>6
      <3>3. CASE u = s
        BY <1>5, <3>2, <3>3
      <3>4. CASE u # s
        BY <3>1, <3>4
      <3> QED
        BY <3>3, <3>4
    <2> QED
      BY <2>1, <2>2 DEF Apart
  <1>12. Owed'
    <2>1. ASSUME NEW f \in Requests, NEW u \in Streams, OnItsWay(f, u)' PROVE OnItsWay(f, u)
      <3>1. CASE u = s
        BY <1>7, <1>9, <1>10, <2>1, <3>1 DEF OnItsWay
      <3>2. CASE u # s
        BY <1>7, <1>8, <2>1, <3>2 DEF OnItsWay
      <3> QED
        BY <3>1, <3>2
    <2> QED
      BY <1>1, <2>1, OwedStays DEF manager
  <1>13. ThreadTypes'
    <2>1. \A u \in Streams : pc'[u] = "output" => frame'[u] \in Requests
      BY <1>3, <1>5, <1>6 DEF ThreadTypes
    <2> QED
      BY <1>1, <1>3, <1>6, <2>1 DEF ThreadTypes, GoodPlaces, night
  <1>14. RequestTypes' /\ Ring' /\ AtIsp'
    BY <1>1, <1>3 DEF RequestTypes, Ring, FrameAt, AtIsp, manager
  <1> QED
    BY <1>11, <1>12, <1>13, <1>14

\* The thread hands its frame over.
LEMMA StreamOutputStep ==
    ASSUME Way, NEW s \in Streams, \/ s = "scp" /\ PreviewOutput
                                   \/ s = "scc" /\ PictureOutput
    PROVE  /\ Way'
           /\ frame[s] \in Requests /\ OnItsWay(frame[s], s)
           /\ handedOver' = handedOver \cup {<<frame[s], s>>}
  <1> USE DEF Way
  <1>1. PICK f : f = frame[s]
    OBVIOUS
  <1>2. /\ UNCHANGED <<kind, submitted, dequeued, freed, managerOthers, night, shot, done, frame>>
        /\ pc[s] = "output" /\ NotifyStreamOutput(f) /\ handedOver' = handedOver \cup {<<f, s>>}
        /\ \E to \in {"wait", "jpeg"} : pc' = [pc EXCEPT ![s] = to] /\ (to = "jpeg" => s = "scc")
    BY <1>1 DEF PreviewOutput, PictureOutput, Goes, streamOthers, service, sensorVars, night,
               ThreadTypes
  <1>3. PICK to \in {"wait", "jpeg"} : pc' = [pc EXCEPT ![s] = to] /\ (to = "jpeg" => s = "scc")
    BY <1>2
  <1>4. /\ GoodPlaces' /\ pc'[s] = to
        /\ \A u \in Threads : u # s => pc'[u] = pc[u]
    BY <1>3, StreamMoves
  <1>5. f \in Requests /\ InThread(f, s) /\ OnItsWay(f, s)
    BY <1>1, <1>2 DEF ThreadTypes, InThread, OnItsWay
  <1>6. \A g \in Requests, u \in Streams : /\ InShot(g, u)' => InShot(g, u)
                                           /\ InThread(g, u)' => InThread(g, u)
    BY <1>2, <1>4 DEF InShot, InThread
  <1>7. /\ Apart' /\ \A g \in Requests, u \in Streams : OnItsWay(g, u)' => OnItsWay(g, u)
    BY <1>2, <1>6, ApartStays
  <1>8. ~ OnItsWay(f, s)'
    <2>1. ~ InThread(f, s)'
      BY <1>4 DEF InThread
    <2>2. ~ InDriver(f, s)' /\ ~ InShot(f, s)'
      BY <1>2, <1>5, <1>6 DEF Apart, InDriver
    <2> QED
      BY <2>1, <2>2 DEF OnItsWay
  <1>9. /\ Owed' /\ Ring' /\ entries' \in [Indices -> Entry]
        /\ \A i \in Indices : entries[i].status = "CAPTURED" =>
               entries'[i].status = "CAPTURED" /\ entries'[i].frame = entries[i].frame
    <2>1. UNCHANGED <<kind, ringVars>>
      BY <1>2 DEF managerOthers, ringVars
    <2> QED
      BY <1>2, <1>5, <1>7, <1>8, <2>1, OutputComes
  <1>10. RequestTypes'
    BY <1>2, <1>9 DEF RequestTypes, managerOthers
  <1>11. ThreadTypes'
    <2>1. \A u \in Streams : pc'[u] = "output" => frame'[u] \in Requests
      BY <1>2, <1>4 DEF ThreadTypes
    <2> QED
      BY <1>2, <1>4, <1>5, <2>1 DEF ThreadTypes, GoodPlaces, night
  <1>12. AtIsp'
    BY <1>2, <1>4, <1>9 DEF AtIsp
  <1> QED
    BY <1>1, <1>2, <1>5, <1>7, <1>9, <1>10, <1>11, <1>12

-----------------------------------------------------------------------------
(* The promise.                                                              *)

LEMMA StartIsPromised ==
    ASSUME Init, "night" \notin Kinds
    PROVE  Way /\ Pipeline!Init
  <1> USE DEF Init
  <1>1. NumEntries \in Nat \ {0} /\ NumRequests \in Nat \ {0}
    BY RequestsAssumption
  <1>2. EmptyEntry \in Entry /\ EmptyEntry.status = "EMPTY"
    BY DEF EmptyEntry, Entry, Statuses
  <1>3. RequestTypes
    BY <1>1, <1>2 DEF RequestTypes
  <1>4. ThreadTypes
    <2>1. <<>> \in Seq(Requests)
      OBVIOUS
    <2> QED
      BY <2>1 DEF ThreadTypes, Places, AllPlaces, NoShot
  <1>5. Ring
    <2>1. \A i \in Indices : FrameAt(i) < 0
      BY <1>1 DEF FrameAt
    <2> QED
      BY <1>1, <2>1 DEF Ring
  <1>6. \A f \in Requests, s \in Streams : ~ OnItsWay(f, s) /\ done[s] = <<>>
    <2>1. Range(<<>>) = {}
      BY DEF Range
    <2> QED
      BY <2>1 DEF OnItsWay, InShot, InDriver, InThread, NoShot
  <1>7. Apart
    <2>1. IsInjective(<<>>)
      BY DEF IsInjective
    <2>2. \A s \in Streams : done[s] = <<>>
      OBVIOUS
    <2> QED
      BY <1>6, <2>1, <2>2 DEF Apart, OnItsWay
  <1>8. Owed /\ AtIsp
    BY <1>2, <1>6 DEF Owed, AtIsp
  <1>9. Pipeline!Init
    <2>1. \A r \in Requests : Outputs(kind[r]) \subseteq Streams
      <3>1. \A r \in Requests : kind[r] \in {"preview", "jpeg", "still"}
        BY RequestsAssumption
      <3> QED
        BY <3>1 DEF Outputs
    <2> QED
      BY <2>1 DEF Pipeline!Init, Pipeline!Requests
  <1> QED
    BY <1>3, <1>4, <1>5, <1>7, <1>8, <1>9 DEF Way

\* An output that is handed over was asked for, and its request is not back.
LEMMA HandedOverIsPromised ==
    ASSUME Way, NEW f \in Requests, NEW s \in Streams, OnItsWay(f, s),
           handedOver' = handedOver \cup {<<f, s>>}, UNCHANGED <<kind, submitted, freed>>
    PROVE  Pipeline!Next
  <1>1. Owes(f, s) /\ Lit(f)
    BY DEF Way, Owed
  <1>2. f \in freed .. submitted - 1
    <2>1. PICK i \in Indices : entries[i].frame = f
      BY <1>1 DEF Lit
    <2>2. f \in freed .. dequeued - 1
      BY <2>1, RingIsExact DEF Way
    <2> QED
      BY <2>2, RequestsAssumption DEF Way, RequestTypes
  <1>3. s \in [r \in Requests |-> Outputs(kind[r])][f]
    BY <1>1 DEF Owes
  <1>4. Pipeline!HandOver(f, s)
    BY <1>2, <1>3 DEF Pipeline!HandOver
  <1> QED
    BY <1>4 DEF Pipeline!Next, Pipeline!Requests

LEMMA StepIsPromised ==
    ASSUME Way, [Next]_vars, "night" \notin Kinds
    PROVE  Way' /\ [Pipeline!Next]_(Pipeline!vars)
  <1> DEFINE Still == UNCHANGED <<kind, submitted, handedOver, freed>>
  <1>0. Still => UNCHANGED Pipeline!vars
    BY DEF Pipeline!vars
  <1>1. CASE Submit
    <2>1. Way'
      BY <1>1, ServiceStep
    <2>2. Pipeline!Submit
      BY <1>1 DEF Submit, Pipeline!Submit, streamVars
    <2> QED
      BY <2>1, <2>2 DEF Pipeline!Next
  <1>2. CASE notifyRequestQueueNotEmpty
    <2>1. Way'
      BY <1>2, ServiceStep
    <2>2. Still
      BY <1>2 DEF notifyRequestQueueNotEmpty, streamVars
    <2> QED
      BY <1>0, <2>1, <2>2
  <1>3. CASE mainThread
    <2> USE DEF mainOthers, service, streamVars, sensorVars
    <2>1. CASE \/ MainTurn \/ MainFull \/ MainDequeueNull \/ MainNull
               \/ MainRegistered \/ MainFreed
      <3>1. Way'
        BY <2>1, MainQuietStep
      <3>2. Still
        BY <2>1 DEF MainTurn, TakeTurn, MainFull, MainDequeueNull, MainNull, MainRegistered,
                    MainFreed
      <3> QED
        BY <1>0, <3>1, <3>2
    <2>2. CASE MainRegister
      <3>1. Way'
        BY <2>2, RegisterStep
      <3>2. Still
        BY <2>2 DEF MainRegister
      <3> QED
        BY <1>0, <3>1, <3>2
    <2>3. CASE MainDone
      <3>1. /\ Way'
            /\ freed' # freed => /\ freed' = freed + 1 /\ freed < dequeued
                                 /\ \A s \in Streams : ~ Owes(freed, s)
        BY <2>3, DoneStep
      <3>2. UNCHANGED <<kind, submitted, handedOver>>
        BY <2>3 DEF MainDone
      <3>3. CASE freed' = freed
        BY <1>0, <3>1, <3>2, <3>3
      <3>4. CASE freed' # freed
        <4>1. freed < submitted /\ freed \in Requests
          BY <3>1, <3>4, RequestsAssumption DEF Way, RequestTypes
        <4>2. \A s \in [r \in Requests |-> Outputs(kind[r])][freed] : <<freed, s>> \in handedOver
          <5>1. kind[freed] \in {"preview", "jpeg", "still"}
            <6>1. kind[freed] \in Kinds
              BY <4>1 DEF Way, RequestTypes
            <6> QED
              BY <6>1, RequestsAssumption
          <5>2. Outputs(kind[freed]) \subseteq Streams
            BY <5>1 DEF Outputs
          <5> QED
            BY <3>1, <3>4, <4>1, <5>2 DEF Owes
        <4>3. Pipeline!Free
          BY <3>1, <3>2, <3>4, <4>1, <4>2 DEF Pipeline!Free
        <4> QED
          BY <3>1, <4>3 DEF Pipeline!Next
      <3> QED
        BY <3>3, <3>4
    <2> QED
      BY <1>3, <2>1, <2>2, <2>3 DEF mainThread
  <1>4. CASE sensorThread
    <2> USE DEF sensorOthers, service, streamVars, sensorVars
    <2>1. CASE SensorTurn \/ SensorBubble
      <3>1. Way'
        BY <2>1, SensorQuietStep
      <3>2. Still
        BY <2>1 DEF SensorTurn, TakeTurn, SensorBubble
      <3> QED
        BY <1>0, <3>1, <3>2
    <2>2. CASE SensorMatch
      <3>1. Way'
        BY <2>2, SensorMatchStep
      <3>2. Still
        BY <2>2 DEF SensorMatch
      <3> QED
        BY <1>0, <3>1, <3>2
    <2>3. CASE SensorIsp
      <3>1. Way'
        BY <2>3, SensorIspStep
      <3>2. Still
        BY <2>3 DEF SensorIsp
      <3> QED
        BY <1>0, <3>1, <3>2
    <2>4. CASE SensorMeta
      <3>1. Way'
        BY <2>4, SensorMetaStep
      <3>2. Still
        BY <2>4 DEF SensorMeta
      <3> QED
        BY <1>0, <3>1, <3>2
    <2>5. ASSUME NEW s \in Streams, NEW from, NEW to, SensorOutput(s, from, to),
                 \/ s = "scc" /\ from = "scc" /\ to = "scp"
                 \/ s = "scp" /\ from = "scp" /\ to = "mark"
          PROVE  Way' /\ [Pipeline!Next]_(Pipeline!vars)
      <3>1. /\ Way'
            /\ handedOver' # handedOver =>
                   /\ shot.frame \in Requests /\ OnItsWay(shot.frame, s)
                   /\ handedOver' = handedOver \cup {<<shot.frame, s>>}
        BY <2>5, SensorOutputStep
      <3>2. UNCHANGED <<kind, submitted, freed>>
        BY <2>5 DEF SensorOutput
      <3>3. CASE handedOver' = handedOver
        BY <1>0, <3>1, <3>2, <3>3
      <3>4. CASE handedOver' # handedOver
        <4>1. PICK f \in Requests : f = shot.frame
          BY <3>1, <3>4
        <4>2. OnItsWay(f, s) /\ handedOver' = handedOver \cup {<<f, s>>}
          BY <3>1, <3>4, <4>1
        <4>3. Pipeline!Next
          BY <3>2, <4>2, HandedOverIsPromised
        <4> QED
          BY <3>1, <4>3
      <3> QED
        BY <3>3, <3>4
    <2>6. CASE SensorOutput("scc", "scc", "scp")
      BY <2>5, <2>6
    <2>7. CASE SensorOutput("scp", "scp", "mark")
      BY <2>5, <2>7
    <2>8. CASE SensorMark
      <3>1. Way'
        BY <2>8, SensorMarkStep
      <3>2. Still
        BY <2>8 DEF SensorMark
      <3> QED
        BY <1>0, <3>1, <3>2
    <2> QED
      BY <1>4, <2>1, <2>2, <2>3, <2>4, <2>6, <2>7, <2>8 DEF sensorThread
  <1>5. ASSUME NEW s \in Streams, streamThread(s)
        PROVE  Way' /\ [Pipeline!Next]_(Pipeline!vars)
    <2> USE DEF streamOthers, service, streamVars, sensorVars
    <2>1. CASE StreamTurn(s) \/ StreamStray(s) \/ (s = "scc" /\ JpegDone)
      <3>1. Way'
        BY <2>1, StreamQuietStep
      <3>2. Still
        BY <2>1 DEF StreamTurn, TakeTurn, StreamStray, JpegDone
      <3> QED
        BY <1>0, <3>1, <3>2
    <2>2. CASE StreamDequeue(s)
      <3>1. Way'
        BY <2>2, StreamDequeueStep
      <3>2. Still
        BY <2>2 DEF StreamDequeue
      <3> QED
        BY <1>0, <3>1, <3>2
    <2>3. CASE (s = "scp" /\ PreviewOutput) \/ (s = "scc" /\ PictureOutput)
      <3>1. /\ Way' /\ frame[s] \in Requests /\ OnItsWay(frame[s], s)
            /\ handedOver' = handedOver \cup {<<frame[s], s>>}
        BY <2>3, StreamOutputStep
      <3>2. UNCHANGED <<kind, submitted, freed>>
        BY <2>3 DEF PreviewOutput, PictureOutput
      <3>3. PICK f \in Requests : f = frame[s]
        BY <3>1
      <3>4. Pipeline!Next
        BY <3>1, <3>2, <3>3, HandedOverIsPromised
      <3> QED
        BY <3>1, <3>4
    <2> QED
      BY <1>5, <2>1, <2>2, <2>3 DEF streamThread
  <1>6. CASE UNCHANGED vars
    <2> USE DEF vars, service, manager, sensorVars, streamVars
    <2>1. Still
      BY <1>6
    <2>2. Way'
      <3>1. RequestTypes' /\ ThreadTypes'
        BY <1>6 DEF Way, RequestTypes, ThreadTypes
      <3>2. \A f \in Requests, s \in Streams : InShot(f, s)' = InShot(f, s) /\ InThread(f, s)' = InThread(f, s)
        BY <1>6 DEF InShot, InThread
      <3>3. Apart' /\ Owed'
        BY <1>6, <3>2, ApartStays, OwedStays DEF Way
      <3>4. Ring' /\ AtIsp'
        BY <1>6 DEF Way, Ring, FrameAt, AtIsp
      <3> QED
        BY <3>1, <3>3, <3>4 DEF Way
    <2> QED
      BY <1>0, <2>1, <2>2
  <1> QED
    BY <1>1, <1>2, <1>3, <1>4, <1>5, <1>6 DEF Next

\* Whatever the threads' interleaving and whatever the ISP drops, requests
\* come back once, in order, and after each of their outputs came or was
\* reported as dropped.
THEOREM RequestsKeepPromise ==
    ASSUME "night" \notin Kinds
    PROVE  Spec => KeepsPromise
  <1>1. Init => Way /\ Pipeline!Init
    BY StartIsPromised
  <1>2. Way /\ [Next]_vars => Way' /\ [Pipeline!Next]_(Pipeline!vars)
    BY StepIsPromised
  <1> QED
    BY <1>1, <1>2, PTL DEF Spec, KeepsPromise, Pipeline!Spec

-----------------------------------------------------------------------------
(* What the threads tell each other.                                         *)

Words == {"REQ_Q_NOT_EMPTY", "STREAM_OUTPUT_DONE", "START_REQ_PROCESSING", "DATA_COMING"}

\* Each thread is sent only the signals its function handles, and the main
\* thread has STREAM_OUTPUT_DONE once at most.
WordsOf(sigs) ==
    /\ sigs \in [Threads -> [received : SUBSET Words, pending : SUBSET Words]]
    /\ sigs["main"].received \subseteq {"REQ_Q_NOT_EMPTY", "STREAM_OUTPUT_DONE"}
    /\ sigs["main"].pending \subseteq {"REQ_Q_NOT_EMPTY"}
    /\ \A s \in Streams : /\ sigs[s].received \subseteq {"DATA_COMING"}
                          /\ sigs[s].pending \subseteq {"DATA_COMING"}

LEMMA Telling ==
    ASSUME NEW sigs \in [Threads -> [received : SUBSET Words, pending : SUBSET Words]],
           NEW t \in Threads, NEW w \in Words
    PROVE  /\ Tell(sigs, t, w) \in [Threads -> [received : SUBSET Words, pending : SUBSET Words]]
           /\ \A u \in Threads : u # t => Tell(sigs, t, w)[u] = sigs[u]
           /\ IF w \in sigs[t].received
              THEN /\ Tell(sigs, t, w)[t].received = sigs[t].received
                   /\ Tell(sigs, t, w)[t].pending = sigs[t].pending \cup {w}
              ELSE /\ Tell(sigs, t, w)[t].received = sigs[t].received \cup {w}
                   /\ Tell(sigs, t, w)[t].pending = sigs[t].pending
  <1> DEFINE q == sigs[t]
             r == SetSignal(q, w)
             Q == [received : SUBSET Words, pending : SUBSET Words]
  <1>1. q \in Q
    OBVIOUS
  <1>2. /\ r \in Q
        /\ IF w \in q.received
           THEN r.received = q.received /\ r.pending = q.pending \cup {w}
           ELSE r.received = q.received \cup {w} /\ r.pending = q.pending
    <2> HIDE DEF q
    <2>1. CASE w \in q.received
      BY <1>1, <2>1 DEF SetSignal
    <2>2. CASE w \notin q.received
      BY <1>1, <2>2 DEF SetSignal
    <2> QED
      BY <2>1, <2>2
  <1>3. Tell(sigs, t, w) = [sigs EXCEPT ![t] = r]
    BY DEF Tell
  <1> HIDE DEF r, Q
  <1>4. Tell(sigs, t, w)[t] = r
    BY <1>3
  <1>5. Tell(sigs, t, w) \in [Threads -> Q] /\ \A u \in Threads : u # t => Tell(sigs, t, w)[u] = sigs[u]
    BY <1>2, <1>3 DEF Q
  <1> QED
    BY <1>2, <1>4, <1>5 DEF Q

\* Which signals the threads send each other without a finished request.
LEMMA TellingKeepsWords ==
    ASSUME NEW sigs, WordsOf(sigs), NEW t \in Threads, NEW w \in Words,
           \/ t = "main" /\ w = "REQ_Q_NOT_EMPTY"
           \/ t = "sensor" /\ w = "START_REQ_PROCESSING"
           \/ t \in Streams /\ w = "DATA_COMING"
    PROVE  /\ WordsOf(Tell(sigs, t, w))
           /\ "STREAM_OUTPUT_DONE" \in Tell(sigs, t, w)["main"].received
                  <=> "STREAM_OUTPUT_DONE" \in sigs["main"].received
  <1> DEFINE new == Tell(sigs, t, w)
  <1>1. /\ new \in [Threads -> [received : SUBSET Words, pending : SUBSET Words]]
        /\ \A u \in Threads : u # t => new[u] = sigs[u]
        /\ IF w \in sigs[t].received
           THEN /\ new[t].received = sigs[t].received
                /\ new[t].pending = sigs[t].pending \cup {w}
           ELSE /\ new[t].received = sigs[t].received \cup {w}
                /\ new[t].pending = sigs[t].pending
    BY Telling DEF WordsOf
  <1> HIDE DEF new
  <1>2. WordsOf(new) /\ ("STREAM_OUTPUT_DONE" \in new["main"].received
                             <=> "STREAM_OUTPUT_DONE" \in sigs["main"].received)
    <2>1. CASE t = "main"
      BY <1>1, <2>1 DEF WordsOf
    <2>2. CASE t = "sensor"
      BY <1>1, <2>2 DEF WordsOf
    <2>3. CASE t \in Streams
      BY <1>1, <2>3 DEF WordsOf
    <2> QED
      BY <2>1, <2>2, <2>3
  <1> QED
    BY <1>2 DEF new

LEMMA TurnTaken ==
    ASSUME WordsOf(signals), NEW t \in Threads, NEW q, q = signals[t],
           signals' = [signals EXCEPT ![t] = AfterTurn(@)]
    PROVE  /\ WordsOf(signals)'
           /\ \A u \in Threads : u # t => signals'[u] = signals[u]
           /\ signals'[t].received = q.pending /\ signals'[t].pending = {}
  <1> DEFINE r == AfterTurn(q)
             Q == [received : SUBSET Words, pending : SUBSET Words]
  <1>1. q \in Q /\ r.received = q.pending /\ r.pending = {} /\ r \in Q
    <2>1. q \in Q
      BY DEF WordsOf
    <2> QED
      BY <2>1 DEF AfterTurn
  <1>2. signals' = [signals EXCEPT ![t] = r] /\ signals \in [Threads -> Q]
    BY DEF WordsOf
  <1> HIDE DEF r, Q
  <1>3. /\ signals'[t] = r /\ signals' \in [Threads -> Q]
        /\ \A u \in Threads : u # t => signals'[u] = signals[u]
    BY <1>1, <1>2
  <1>4. WordsOf(signals)'
    <2>1. \A u \in Threads : /\ signals'[u].received \subseteq signals[u].received
                                   \/ signals'[u].received = signals[u].pending
                             /\ signals'[u].pending \subseteq signals[u].pending
      BY <1>1, <1>3
    <2> QED
      BY <1>3, <2>1 DEF WordsOf, Q
  <1> QED
    BY <1>1, <1>3, <1>4
-----------------------------------------------------------------------------
(* The main thread is told of each finished request once, and finds it.      *)

DoneTold == "STREAM_OUTPUT_DONE" \in signals["main"].received

DoneTaken ==
    \/ pc["main"] = "done"
    \/ /\ pc["main"] \in {"request", "null", "registered"}
       /\ "STREAM_OUTPUT_DONE" \in turn["main"]

NextIsDone == \E i \in Indices : entries[i].frame = freed /\ entries[i].status = "COMPLETED"

Finished ==
    /\ DoneTold \/ DoneTaken => NextIsDone
    /\ ~ (DoneTold /\ DoneTaken)

Told == WordsOf(signals) /\ turn \in [Threads -> SUBSET Words] /\ Finished

\* A finished entry stays until it is freed.
DoneEntriesStay ==
    \A i \in Indices : entries[i].status = "COMPLETED" => entries'[i] = entries[i]

LEMMA UpdatesStay ==
    ASSUME RequestTypes, NEW i \in Indices, NEW e, Updates(i, e), entries[i].status # "COMPLETED"
    PROVE  DoneEntriesStay /\ entries'[i] = e /\ \A j \in Indices : j # i => entries'[j] = entries[j]
  BY DEF DoneEntriesStay, Updates, RequestTypes

LEMMA FinishedStays ==
    ASSUME Finished, DoneTold' => DoneTold, DoneTaken' => DoneTaken, freed' = freed,
           DoneEntriesStay
    PROVE  Finished'
  BY DEF Finished, NextIsDone, DoneEntriesStay

\* A step that may finish one request, and tells the main thread if it is the
\* next to go.
LEMMA FinishingTells ==
    ASSUME RequestTypes, Ring, Told, NEW i \in Indices, NEW e \in Entry, Updates(i, e),
           entries[i].status # "COMPLETED", e.frame \in Requests,
           signals' = TellMainIf(signals, e.status = "COMPLETED"
                                          /\ m_lastCompletedFrameCnt + 1 = e.frame),
           UNCHANGED <<freed, turn>>, pc'["main"] = pc["main"]
    PROVE  Told' /\ \A u \in Threads : u # "main" => signals'[u] = signals[u]
  <1>1. /\ DoneEntriesStay /\ entries'[i] = e /\ entries[i].frame = e.frame
    BY UpdatesStay DEF Updates
  <1>2. m_lastCompletedFrameCnt + 1 = freed
    BY RequestsAssumption DEF Ring, RequestTypes
  <1>3. DoneTaken' <=> DoneTaken
    BY DEF DoneTaken
  <1>4. CASE e.status = "COMPLETED" /\ e.frame = freed
    <2>1. ~ NextIsDone
      <3>1. \A j \in Indices : entries[j].frame = freed => j = i
        BY <1>1, <1>4, RingIsExact
      <3> QED
        BY <3>1 DEF NextIsDone
    <2>2. ~ DoneTold /\ ~ DoneTaken
      BY <2>1 DEF Told, Finished
    <2>3. signals' = Tell(signals, "main", "STREAM_OUTPUT_DONE")
      BY <1>2, <1>4 DEF TellMainIf
    <2>4. /\ signals' \in [Threads -> [received : SUBSET Words, pending : SUBSET Words]]
          /\ \A u \in Threads : u # "main" => signals'[u] = signals[u]
          /\ signals'["main"].received = signals["main"].received \cup {"STREAM_OUTPUT_DONE"}
          /\ signals'["main"].pending = signals["main"].pending
      <3>1. "STREAM_OUTPUT_DONE" \in Words /\ "main" \in Threads
        BY DEF Words
      <3> QED
        BY <2>2, <2>3, <3>1, Telling DEF Told, WordsOf, DoneTold
    <2>5. WordsOf(signals)'
      BY <2>4 DEF Told, WordsOf
    <2>6. NextIsDone'
      BY <1>1, <1>4 DEF NextIsDone
    <2> QED
      BY <1>3, <2>2, <2>4, <2>5, <2>6 DEF Told, Finished
  <1>5. CASE ~ (e.status = "COMPLETED" /\ e.frame = freed)
    <2>1. signals' = signals
      BY <1>2, <1>5 DEF TellMainIf
    <2>2. DoneTold' <=> DoneTold
      BY <2>1 DEF DoneTold
    <2>3. Finished'
      BY <1>1, <1>3, <2>2, FinishedStays DEF Told
    <2> QED
      BY <2>1, <2>3 DEF Told, WordsOf
  <1> QED
    BY <1>4, <1>5

LEMMA ToldStays ==
    ASSUME Told, WordsOf(signals)', DoneTold' => DoneTold, DoneTaken' => DoneTaken,
           UNCHANGED <<freed, turn>>, DoneEntriesStay
    PROVE  Told'
  BY FinishedStays DEF Told

LEMMA MainToldStep ==
    ASSUME Way, Told, mainThread, "night" \notin Kinds
    PROVE  Told'
  <1> USE DEF Goes, mainOthers
  <1>1. pc \in [Threads -> AllPlaces]
    BY DEF Way, ThreadTypes
  <1>2. UNCHANGED entries => DoneEntriesStay
    BY DEF DoneEntriesStay
  <1>3. CASE MainTurn
    <2>1. /\ signals["main"].received # {} /\ turn' = [turn EXCEPT !["main"] = TurnOf(signals["main"])]
          /\ signals' = [signals EXCEPT !["main"] = AfterTurn(@)]
          /\ pc' = [pc EXCEPT !["main"] = IF "REQ_Q_NOT_EMPTY" \in TurnOf(signals["main"])
                                          THEN "request" ELSE "done"]
          /\ UNCHANGED <<freed, entries>>
      BY <1>3 DEF MainTurn, TakeTurn, manager
    <2>2. PICK q : q = signals["main"]
      OBVIOUS
    <2>3. WordsOf(signals)' /\ signals'["main"].received = q.pending
      BY <2>1, <2>2, TurnTaken DEF Told
    <2>4. /\ q.received \subseteq {"REQ_Q_NOT_EMPTY", "STREAM_OUTPUT_DONE"} /\ q.received # {}
          /\ q.pending \subseteq {"REQ_Q_NOT_EMPTY"} /\ q.received \subseteq Words
      BY <2>1, <2>2 DEF Told, WordsOf, Words
    <2>5. turn'["main"] = q.received /\ turn' \in [Threads -> SUBSET Words]
      BY <2>1, <2>2, <2>4 DEF Told, TurnOf
    <2>6. pc'["main"] = IF "REQ_Q_NOT_EMPTY" \in q.received THEN "request" ELSE "done"
      BY <1>1, <2>1, <2>2 DEF TurnOf
    <2>7. ~ DoneTold'
      BY <2>3, <2>4 DEF DoneTold
    <2>8. DoneTaken' => "STREAM_OUTPUT_DONE" \in q.received
      BY <2>4, <2>5, <2>6 DEF DoneTaken
    <2>9. DoneTaken' => NextIsDone'
      BY <2>1, <2>2, <2>8 DEF Told, Finished, DoneTold, NextIsDone
    <2> QED
      BY <2>3, <2>5, <2>7, <2>9 DEF Told, Finished
  <1>4. CASE MainFull \/ MainDequeueNull \/ MainNull
    <2>1. /\ UNCHANGED <<signals, turn, freed, entries>>
          /\ pc["main"] \in {"request", "null"}
          /\ \E to \in {"null", Then} : pc' = [pc EXCEPT !["main"] = to]
      BY <1>4 DEF MainFull, MainDequeueNull, MainNull, manager
    <2>2. pc'["main"] = "null" \/ pc'["main"] = Then
      BY <1>1, <2>1
    <2>3. DoneTaken' => DoneTaken
      BY <2>1, <2>2 DEF DoneTaken, Then
    <2>4. WordsOf(signals)' /\ (DoneTold' => DoneTold)
      BY <2>1 DEF Told, WordsOf, DoneTold
    <2> QED
      BY <1>2, <2>1, <2>3, <2>4, ToldStays
  <1>5. CASE MainRegister
    <2>1. /\ UNCHANGED <<signals, turn, freed>> /\ pc["main"] = "request"
          /\ pc' = [pc EXCEPT !["main"] = "registered"]
          /\ ~ IsRequestQueueFull /\ dequeued < submitted /\ dequeued' = dequeued + 1
          /\ RegisterRequest(dequeued)
      BY <1>5 DEF MainRegister
    <2>2. PICK i : i = m_entryInsertionIndex'
      OBVIOUS
    <2>3. PICK e : e = [status |-> "REGISTERED", frame |-> dequeued,
                        outputs |-> IF kind[dequeued] \in {"preview", "jpeg"} THEN 1 ELSE 2]
      OBVIOUS
    <2>4. i \in Indices /\ entries[i].status = "EMPTY" /\ entries' = [entries EXCEPT ![i] = e]
      BY <2>1, <2>2, <2>3, RegisterKeepsRing DEF Way
    <2>5. DoneEntriesStay
      BY <2>4 DEF DoneEntriesStay, Way, RequestTypes
    <2>6. pc'["main"] = "registered"
      BY <1>1, <2>1
    <2>7. DoneTaken' => DoneTaken
      BY <2>1, <2>6 DEF DoneTaken
    <2>8. WordsOf(signals)' /\ (DoneTold' => DoneTold)
      BY <2>1 DEF Told, WordsOf, DoneTold
    <2> QED
      BY <2>1, <2>5, <2>7, <2>8, ToldStays
  <1>6. CASE MainRegistered \/ MainFreed
    <2> DEFINE again == Tell(signals, "main", "REQ_Q_NOT_EMPTY")
    <2>1. /\ UNCHANGED <<turn, freed, entries>>
          /\ \/ signals' = again \/ signals' = signals
             \/ signals' = Tell(again, "sensor", "START_REQ_PROCESSING")
             \/ signals' = Tell(signals, "sensor", "START_REQ_PROCESSING")
      BY <1>6 DEF MainRegistered, MainFreed, manager
    <2>2. "REQ_Q_NOT_EMPTY" \in Words /\ "START_REQ_PROCESSING" \in Words
      BY DEF Words
    <2>3. WordsOf(again) /\ ("STREAM_OUTPUT_DONE" \in again["main"].received <=> DoneTold)
      BY <2>2, TellingKeepsWords DEF Told, DoneTold
    <2> HIDE DEF again
    <2>4. PICK new : new = signals'
      OBVIOUS
    <2>5. WordsOf(new) /\ ("STREAM_OUTPUT_DONE" \in new["main"].received <=> DoneTold)
      <3>1. CASE new = Tell(again, "sensor", "START_REQ_PROCESSING")
        BY <2>2, <2>3, <3>1, TellingKeepsWords
      <3>2. CASE new = Tell(signals, "sensor", "START_REQ_PROCESSING")
        BY <2>2, <3>2, TellingKeepsWords DEF Told, DoneTold
      <3> QED
        BY <2>1, <2>3, <2>4, <3>1, <3>2 DEF Told, DoneTold
    <2>6. WordsOf(signals)' /\ (DoneTold' => DoneTold)
      BY <2>4, <2>5 DEF WordsOf, DoneTold
    <2>7. DoneTaken' => DoneTaken
      <3>1. CASE MainRegistered
        <4>1. pc["main"] = "registered" /\ pc'["main"] = Then
          BY <1>1, <3>1 DEF MainRegistered
        <4> QED
          BY <2>1, <4>1 DEF DoneTaken, Then
      <3>2. CASE MainFreed
        <4>1. pc'["main"] = "wait"
          BY <1>1, <3>2 DEF MainFreed
        <4> QED
          BY <2>1, <4>1 DEF DoneTaken
      <3> QED
        BY <1>6, <3>1, <3>2
    <2> QED
      BY <1>2, <2>1, <2>6, <2>7, ToldStays
  <1>7. CASE MainDone
    <2>1. PICK i \in EntriesOf(m_lastCompletedFrameCnt + 1) :
              IF entries[i].status = "COMPLETED"
              THEN freed' = freed + 1 /\ DeregisterRequest(i)
              ELSE UNCHANGED <<freed, manager, signals>>
      BY <1>7 DEF MainDone
    <2>2. /\ pc["main"] = "done" /\ pc'["main"] = "freed" /\ UNCHANGED <<turn, dequeued>>
      BY <1>1, <1>7 DEF MainDone
    <2>3. DoneTaken /\ ~ DoneTold /\ NextIsDone /\ ~ DoneTaken'
      BY <2>2 DEF DoneTaken, Told, Finished
    <2>4. i \in Indices /\ entries[i].frame = m_lastCompletedFrameCnt + 1
      BY DEF EntriesOf
    <2>5. m_lastCompletedFrameCnt + 1 = freed /\ freed \in Nat
      BY RequestsAssumption DEF Way, Ring, RequestTypes
    <2>6. entries[i].status = "COMPLETED"
      <3>1. \A j \in Indices : entries[j].frame = freed => j = i
        BY <2>4, <2>5, RingIsExact DEF Way
      <3> QED
        BY <2>3, <3>1 DEF NextIsDone
    <2> DEFINE next == GetNextIndex(i)
               emptied == [entries EXCEPT ![i] = EmptyEntry]
    <2>7. /\ freed' = freed + 1 /\ DeregisterRequest(i)
          /\ signals' = TellMainIf(signals, WakesMain(emptied, next, entries[i].frame))
      BY <2>1, <2>6 DEF DeregisterRequest
    <2>8. entries' = emptied
      <3>1. \A j \in Indices : entries[j].status = "METADONE" => entries[j].outputs # 0
        BY DEF Way, Owed, Sound
      <3> QED
        BY <2>2, <2>4, <2>7, <3>1, DeregisterKeepsRing DEF Way
    <2>9. CASE ~ WakesMain(emptied, next, entries[i].frame)
      <3>1. signals' = signals
        BY <2>7, <2>9 DEF TellMainIf
      <3>2. ~ DoneTold'
        BY <2>3, <3>1 DEF DoneTold
      <3> QED
        BY <2>2, <2>3, <3>1, <3>2 DEF Told, WordsOf, Finished
    <2>10. CASE WakesMain(emptied, next, entries[i].frame)
      <3>1. signals' = Tell(signals, "main", "STREAM_OUTPUT_DONE")
        BY <2>7, <2>10 DEF TellMainIf
      <3>2. /\ signals' \in [Threads -> [received : SUBSET Words, pending : SUBSET Words]]
            /\ \A u \in Threads : u # "main" => signals'[u] = signals[u]
            /\ signals'["main"].received = signals["main"].received \cup {"STREAM_OUTPUT_DONE"}
            /\ signals'["main"].pending = signals["main"].pending
        <4>1. "STREAM_OUTPUT_DONE" \in Words /\ "main" \in Threads
          BY DEF Words
        <4> QED
          BY <2>3, <3>1, <4>1, Telling DEF Told, WordsOf, DoneTold
      <3>3. WordsOf(signals)'
        BY <3>2 DEF Told, WordsOf
      <3>4. Completes(emptied[next]) /\ freed + 1 = emptied[next].frame
        BY <2>4, <2>5, <2>10 DEF WakesMain
      <3>5. next \in Indices /\ NumEntries \in Nat \ {0}
        BY <2>4, RequestsAssumption DEF GetNextIndex
      <3>6. emptied[next] \in Entry /\ (next # i => emptied[next] = entries[next])
            /\ EmptyEntry.status = "EMPTY" /\ emptied[i] = EmptyEntry
        BY <2>4, <3>5 DEF Way, RequestTypes, EmptyEntry, Entry, Statuses
      <3>7. next # i /\ entries[next].status \in {"METADONE", "COMPLETED"} /\ entries[next].outputs = 0
        BY <3>4, <3>5, <3>6 DEF Completes, Entry
      <3>8. entries[next].status = "COMPLETED"
        BY <3>5, <3>7 DEF Way, Owed, Sound
      <3>9. NextIsDone'
        BY <2>7, <2>8, <3>4, <3>5, <3>6, <3>7, <3>8 DEF NextIsDone
      <3> QED
        BY <2>2, <2>3, <3>3, <3>9 DEF Told, Finished
    <2> QED
      BY <2>9, <2>10
  <1> QED
    BY <1>3, <1>4, <1>5, <1>6, <1>7 DEF mainThread

LEMMA ServiceToldStep ==
    ASSUME Told, Submit \/ notifyRequestQueueNotEmpty
    PROVE  Told'
  <1>1. /\ UNCHANGED <<turn, freed, entries, pc>>
        /\ signals' = signals \/ signals' = Tell(signals, "main", "REQ_Q_NOT_EMPTY")
    BY DEF Submit, notifyRequestQueueNotEmpty, manager
  <1>2. PICK new : new = signals'
    OBVIOUS
  <1>3. WordsOf(new) /\ ("STREAM_OUTPUT_DONE" \in new["main"].received <=> DoneTold)
    <2>1. "REQ_Q_NOT_EMPTY" \in Words
      BY DEF Words
    <2> QED
      BY <1>1, <1>2, <2>1, TellingKeepsWords DEF Told, DoneTold
  <1>4. WordsOf(signals)' /\ (DoneTold' => DoneTold)
    BY <1>2, <1>3 DEF WordsOf, DoneTold
  <1>5. DoneTaken' => DoneTaken
    BY <1>1 DEF DoneTaken
  <1>6. DoneEntriesStay
    BY <1>1 DEF DoneEntriesStay
  <1> QED
    BY <1>1, <1>4, <1>5, <1>6, ToldStays

\* A thread other than the main thread takes its turn.
LEMMA OtherTurnTold ==
    ASSUME ThreadTypes, Told, NEW t \in Threads, t # "main",
           turn' = [turn EXCEPT ![t] = TurnOf(signals[t])],
           signals' = [signals EXCEPT ![t] = AfterTurn(@)],
           UNCHANGED <<freed, entries>>, pc'["main"] = pc["main"]
    PROVE  Told'
  <1>1. PICK q : q = signals[t]
    OBVIOUS
  <1>2. /\ WordsOf(signals)' /\ \A u \in Threads : u # t => signals'[u] = signals[u]
    BY <1>1, TurnTaken DEF Told
  <1>3. q.received \in SUBSET Words
    BY <1>1 DEF Told, WordsOf
  <1>4. turn' \in [Threads -> SUBSET Words] /\ turn'["main"] = turn["main"]
    BY <1>1, <1>3 DEF Told, TurnOf
  <1>5. /\ DoneTold' <=> DoneTold
        /\ DoneTaken' <=> DoneTaken
        /\ DoneEntriesStay
    BY <1>2, <1>4 DEF DoneTold, DoneTaken, DoneEntriesStay
  <1> QED
    BY <1>2, <1>4, <1>5, FinishedStays DEF Told

\* What a thread leaves alone, whatever it does.
LEMMA SensorActs ==
    ASSUME ThreadTypes, sensorThread
    PROVE  /\ UNCHANGED <<service, dequeued, freed, m_isRequestQueueNull, frame>>
           /\ \A u \in Threads : u # "sensor" => pc'[u] = pc[u]
  <1> USE DEF sensorOthers, streamVars
  <1>1. pc \in [Threads -> AllPlaces]
    BY DEF ThreadTypes
  <1>2. ASSUME NEW from, NEW to, Goes("sensor", from, to)
        PROVE  \A u \in Threads : u # "sensor" => pc'[u] = pc[u]
    BY <1>1, <1>2 DEF Goes
  <1>3. CASE SensorTurn
    BY <1>2, <1>3 DEF SensorTurn, TakeTurn, sensorVars
  <1>4. CASE SensorMatch
    BY <1>2, <1>4 DEF SensorMatch
  <1>5. CASE SensorBubble
    BY <1>2, <1>5 DEF SensorBubble
  <1>6. CASE SensorIsp
    BY <1>2, <1>6 DEF SensorIsp
  <1>7. CASE SensorMeta
    BY <1>2, <1>7 DEF SensorMeta
  <1>8. ASSUME NEW s, NEW from, NEW to, SensorOutput(s, from, to)
        PROVE  /\ UNCHANGED <<service, dequeued, freed, m_isRequestQueueNull, frame>>
               /\ \A u \in Threads : u # "sensor" => pc'[u] = pc[u]
    BY <1>2, <1>8 DEF SensorOutput
  <1>9. CASE SensorMark
    BY <1>2, <1>9 DEF SensorMark
  <1> QED
    BY <1>3, <1>4, <1>5, <1>6, <1>7, <1>8, <1>9 DEF sensorThread

LEMMA StreamActs ==
    ASSUME ThreadTypes, NEW s \in Streams, streamThread(s)
    PROVE  /\ UNCHANGED <<service, dequeued, freed, m_isRequestQueueNull, sensorVars>>
           /\ \A u \in Threads : u # s => pc'[u] = pc[u]
  <1> USE DEF streamOthers
  <1>1. pc \in [Threads -> AllPlaces]
    BY DEF ThreadTypes
  <1>2. ASSUME NEW t, NEW from, NEW to, Goes(t, from, to)
        PROVE  \A u \in Threads : u # t => pc'[u] = pc[u]
    BY <1>1, <1>2 DEF Goes
  <1>3. CASE StreamTurn(s)
    BY <1>2, <1>3 DEF StreamTurn, TakeTurn
  <1>4. CASE StreamDequeue(s) \/ StreamStray(s)
    BY <1>2, <1>4 DEF StreamDequeue, StreamStray
  <1>5. CASE s = "scp" /\ PreviewOutput
    BY <1>2, <1>5 DEF PreviewOutput
  <1>6. CASE s = "scc" /\ (PictureOutput \/ JpegDone)
    BY <1>2, <1>6 DEF PictureOutput, JpegDone
  <1> QED
    BY <1>3, <1>4, <1>5, <1>6 DEF streamThread

LEMMA SensorToldStep ==
    ASSUME Way, Told, sensorThread
    PROVE  Told'
  <1> USE DEF Goes, sensorOthers
  <1>1. pc \in [Threads -> AllPlaces]
    BY DEF Way, ThreadTypes
  <1>2. pc'["main"] = pc["main"] /\ freed' = freed
    BY SensorActs DEF Way
  <1>3. CASE SensorTurn
    BY <1>2, <1>3, OtherTurnTold DEF SensorTurn, TakeTurn, manager, Way
  <1>4. ASSUME UNCHANGED <<signals, turn>>, DoneEntriesStay PROVE Told'
    <2>1. WordsOf(signals)' /\ (DoneTold' => DoneTold) /\ (DoneTaken' => DoneTaken)
      BY <1>2, <1>4 DEF Told, WordsOf, DoneTold, DoneTaken
    <2> QED
      BY <1>2, <1>4, <2>1, ToldStays
  <1>5. CASE SensorMatch
    <2>1. m_nightCaptureCnt = 0
      BY DEF Way, ThreadTypes
    <2>2. PICK i \in Indices, e \in Entry : Updates(i, e) /\ entries[i].status = "REQUESTED"
      BY <1>5, <2>1, MatchFinds DEF Way
    <2>3. DoneEntriesStay
      BY <2>2, UpdatesStay DEF Way
    <2> QED
      BY <1>4, <1>5, <2>3 DEF SensorMatch
  <1>6. CASE SensorBubble \/ SensorIsp
    <2>1. DoneEntriesStay
      BY <1>6 DEF SensorBubble, SensorIsp, manager, DoneEntriesStay
    <2> QED
      BY <1>4, <1>6, <2>1 DEF SensorBubble, SensorIsp
  <1>7. CASE SensorMeta
    <2>1. CASE UNCHANGED <<entries, signals>>
      <3>1. DoneEntriesStay
        BY <2>1 DEF DoneEntriesStay
      <3> QED
        BY <1>4, <1>7, <2>1, <3>1 DEF SensorMeta
    <2>2. CASE ~ UNCHANGED <<entries, signals>>
      <3>1. PICK i \in Indices, e \in Entry :
                /\ Updates(i, e) /\ entries[i].status = "CAPTURED" /\ e.frame \in Requests
                /\ signals' = TellMainIf(signals, e.status = "COMPLETED"
                                                  /\ m_lastCompletedFrameCnt + 1 = e.frame)
        BY <1>7, <2>2, MetaFinds DEF Way
      <3>2. turn' = turn
        BY <1>7 DEF SensorMeta
      <3> QED
        BY <1>2, <3>1, <3>2, FinishingTells DEF Way
    <2> QED
      BY <2>1, <2>2
  <1>8. ASSUME NEW s \in Streams, NEW from, NEW to, SensorOutput(s, from, to),
               \/ s = "scc" /\ from = "scc" /\ to = "scp"
               \/ s = "scp" /\ from = "scp" /\ to = "mark"
        PROVE  Told'
    <2>1. CASE s \in shot.dropped
      <3>1. PICK f : f = shot.frame
        OBVIOUS
      <3>2. f \in Requests
        BY <2>1, <3>1 DEF Way, ThreadTypes
      <3>3. OnItsWay(f, s)
        BY <1>8, <2>1, <3>1 DEF SensorOutput, OnItsWay, InShot
      <3>4. NotifyStreamOutput(f) /\ turn' = turn
        BY <1>8, <2>1, <3>1 DEF SensorOutput
      <3>5. PICK i \in Indices, e \in Entry :
                /\ Updates(i, e) /\ entries[i].status \in {"CAPTURED", "METADONE"} /\ e.frame = f
                /\ signals' = TellMainIf(signals, e.status = "COMPLETED"
                                                  /\ m_lastCompletedFrameCnt + 1 = f)
        BY <3>2, <3>3, <3>4, NotifyFinds DEF Way
      <3> QED
        BY <1>2, <3>2, <3>4, <3>5, FinishingTells DEF Way
    <2>2. CASE s \notin shot.dropped
      <3>1. /\ UNCHANGED <<turn, entries>>
            /\ signals' = signals \/ signals' = Tell(signals, s, "DATA_COMING")
        BY <1>8, <2>2 DEF SensorOutput
      <3>2. PICK new : new = signals'
        OBVIOUS
      <3>3. WordsOf(new) /\ ("STREAM_OUTPUT_DONE" \in new["main"].received <=> DoneTold)
        <4>1. "DATA_COMING" \in Words
          BY DEF Words
        <4> QED
          BY <3>1, <3>2, <4>1, TellingKeepsWords DEF Told, DoneTold
      <3>4. WordsOf(signals)' /\ (DoneTold' => DoneTold)
        BY <3>2, <3>3 DEF WordsOf, DoneTold
      <3>5. (DoneTaken' => DoneTaken) /\ DoneEntriesStay
        BY <1>2, <3>1 DEF DoneTaken, DoneEntriesStay
      <3> QED
        BY <1>2, <3>1, <3>4, <3>5, ToldStays
    <2> QED
      BY <2>1, <2>2
  <1>9. CASE SensorMark
    <2>1. /\ turn' = turn
          /\ signals' = signals \/ signals' = Tell(signals, "sensor", "START_REQ_PROCESSING")
      BY <1>9 DEF SensorMark
    <2>2. DoneEntriesStay
      <3>1. CASE UNCHANGED entries
        BY <3>1 DEF DoneEntriesStay
      <3>2. CASE ~ UNCHANGED entries
        <4>1. PICK i \in Indices, e \in Entry : Updates(i, e) /\ entries[i].status = "REGISTERED"
          BY <1>9, <3>2, MarkFinds DEF Way
        <4> QED
          BY <4>1, UpdatesStay DEF Way
      <3> QED
        BY <3>1, <3>2
    <2>3. PICK new : new = signals'
      OBVIOUS
    <2>4. WordsOf(new) /\ ("STREAM_OUTPUT_DONE" \in new["main"].received <=> DoneTold)
      <3>1. "START_REQ_PROCESSING" \in Words
        BY DEF Words
      <3> QED
        BY <2>1, <2>3, <3>1, TellingKeepsWords DEF Told, DoneTold
    <2>5. WordsOf(signals)' /\ (DoneTold' => DoneTold)
      BY <2>3, <2>4 DEF WordsOf, DoneTold
    <2>6. DoneTaken' => DoneTaken
      BY <1>2, <2>1 DEF DoneTaken
    <2> QED
      BY <1>2, <2>1, <2>2, <2>5, <2>6, ToldStays
  <1> QED
    BY <1>3, <1>5, <1>6, <1>7, <1>8, <1>9 DEF sensorThread

LEMMA StreamToldStep ==
    ASSUME Way, Told, NEW s \in Streams, streamThread(s)
    PROVE  Told'
  <1> USE DEF Goes, streamOthers
  <1>1. pc \in [Threads -> AllPlaces]
    BY DEF Way, ThreadTypes
  <1>2. pc'["main"] = pc["main"] /\ freed' = freed
    BY StreamActs DEF Way
  <1>3. CASE StreamTurn(s)
    BY <1>2, <1>3, OtherTurnTold DEF StreamTurn, TakeTurn, manager, Way
  <1>4. CASE StreamDequeue(s) \/ StreamStray(s) \/ (s = "scc" /\ JpegDone)
    <2>1. UNCHANGED <<signals, turn, entries>>
      BY <1>4 DEF StreamDequeue, StreamStray, JpegDone, manager
    <2>2. DoneEntriesStay /\ WordsOf(signals)' /\ (DoneTold' => DoneTold) /\ (DoneTaken' => DoneTaken)
      BY <1>2, <2>1 DEF DoneEntriesStay, Told, WordsOf, DoneTold, DoneTaken
    <2> QED
      BY <1>2, <2>1, <2>2, ToldStays
  <1>5. CASE (s = "scp" /\ PreviewOutput) \/ (s = "scc" /\ PictureOutput)
    <2>1. PICK f : f = frame[s]
      OBVIOUS
    <2>2. pc[s] = "output" /\ NotifyStreamOutput(f) /\ turn' = turn
      BY <1>5, <2>1 DEF PreviewOutput, PictureOutput, Way, ThreadTypes
    <2>3. f \in Requests /\ OnItsWay(f, s)
      BY <2>1, <2>2 DEF Way, ThreadTypes, OnItsWay, InThread
    <2>4. PICK i \in Indices, e \in Entry :
              /\ Updates(i, e) /\ entries[i].status \in {"CAPTURED", "METADONE"} /\ e.frame = f
              /\ signals' = TellMainIf(signals, e.status = "COMPLETED"
                                                /\ m_lastCompletedFrameCnt + 1 = f)
      BY <2>2, <2>3, NotifyFinds DEF Way
    <2> QED
      BY <1>2, <2>2, <2>3, <2>4, FinishingTells DEF Way
  <1> QED
    BY <1>3, <1>4, <1>5 DEF streamThread

-----------------------------------------------------------------------------
(* The stream threads: each DATA_COMING that is under way has its frame.     *)

\* The sensor thread is about to tell the thread of s of a frame.
ToTell(s) ==
    /\ s \in shot.outputs
    /\ pc["sensor"] \in {"meta", "scc"} \/ (s = "scp" /\ pc["sensor"] = "scp")

\* The turns at the driver the thread of s is going to have.
Turns(s) ==
    (IF "DATA_COMING" \in signals[s].received THEN 1 ELSE 0)
    + (IF "DATA_COMING" \in signals[s].pending THEN 1 ELSE 0)
    + (IF pc[s] = "dequeue" THEN 1 ELSE 0)
    + (IF ToTell(s) THEN 1 ELSE 0)

Announced == \A s \in Streams : Turns(s) <= Len(done[s])

\* The main thread sends no stream thread a signal.
LEMMA MainActs ==
    ASSUME ThreadTypes, WordsOf(signals), mainThread
    PROVE  /\ UNCHANGED <<sensorVars, streamVars>>
           /\ \A u \in Threads : u # "main" => pc'[u] = pc[u]
           /\ \A s \in Streams : signals'[s] = signals[s]
  <1> USE DEF mainOthers
  <1>1. pc \in [Threads -> AllPlaces] /\ DOMAIN signals = Threads
    BY DEF ThreadTypes, WordsOf
  <1>2. ASSUME NEW from, NEW to, Goes("main", from, to)
        PROVE  \A u \in Threads : u # "main" => pc'[u] = pc[u]
    BY <1>1, <1>2 DEF Goes
  <1>3. CASE MainTurn
    BY <1>1, <1>2, <1>3 DEF MainTurn, TakeTurn
  <1>4. CASE MainFull \/ MainDequeueNull \/ MainNull \/ MainRegister
    BY <1>2, <1>4 DEF MainFull, MainDequeueNull, MainNull, MainRegister
  <1>5. CASE MainRegistered
    BY <1>1, <1>2, <1>5 DEF MainRegistered, Tell
  <1>6. CASE MainFreed
    BY <1>1, <1>2, <1>6 DEF MainFreed, Tell
  <1>7. CASE MainDone
    <2>1. \E b : signals' = TellMainIf(signals, b)
      <3>1. signals = TellMainIf(signals, FALSE)
        BY DEF TellMainIf
      <3> QED
        BY <1>7, <3>1 DEF MainDone, DeregisterRequest
    <2> QED
      BY <1>1, <1>2, <1>7, <2>1 DEF MainDone, TellMainIf, Tell
  <1> QED
    BY <1>3, <1>4, <1>5, <1>6, <1>7 DEF mainThread

\* A step that does not touch the driver of s nor send its thread a signal.
LEMMA TurnsStay ==
    ASSUME NEW s \in Streams, Turns(s) <= Len(done[s]), done \in [Streams -> Seq(Requests)],
           signals'[s] = signals[s], done'[s] = done[s],
           pc'[s] = "dequeue" => pc[s] = "dequeue", ToTell(s)' => ToTell(s)
    PROVE  Turns(s)' <= Len(done'[s])
  <1>1. Len(done[s]) \in Nat
    BY LenProperties
  <1> QED
    BY <1>1 DEF Turns

LEMMA NotifySignals ==
    ASSUME NEW f, NotifyStreamOutput(f), DOMAIN signals = Threads
    PROVE  \A s \in Streams : signals'[s] = signals[s]
  BY DEF NotifyStreamOutput, TellMainIf, Tell

LEMMA ServiceAnnounced ==
    ASSUME Way, Told, Announced, Submit \/ notifyRequestQueueNotEmpty \/ mainThread
    PROVE  Announced'
  <1>1. /\ \A s \in Streams : signals'[s] = signals[s] /\ pc'[s] = pc[s]
        /\ pc'["sensor"] = pc["sensor"] /\ UNCHANGED <<done, shot>>
    <2>1. CASE Submit \/ notifyRequestQueueNotEmpty
      BY <2>1 DEF Submit, notifyRequestQueueNotEmpty, Tell, Told, WordsOf, sensorVars, streamVars
    <2>2. CASE mainThread
      BY <2>2, MainActs DEF Way, Told, sensorVars, streamVars
    <2> QED
      BY <2>1, <2>2
  <1>2. ASSUME NEW s \in Streams PROVE Turns(s)' <= Len(done'[s])
    <2>1. ToTell(s)' => ToTell(s)
      BY <1>1 DEF ToTell
    <2> QED
      BY <1>1, <2>1, TurnsStay DEF Announced, Way, ThreadTypes
  <1> QED
    BY <1>2 DEF Announced

LEMMA StreamAnnounced ==
    ASSUME Way, Told, Announced, NEW s \in Streams, streamThread(s)
    PROVE  Announced'
  <1> USE DEF Goes
  <1>1. /\ pc \in [Threads -> AllPlaces] /\ done \in [Streams -> Seq(Requests)]
        /\ DOMAIN signals = Threads
    BY DEF Way, ThreadTypes, Told, WordsOf
  <1>2. shot' = shot /\ \A u \in Threads : u # s => pc'[u] = pc[u]
    BY StreamActs DEF Way, sensorVars
  <1>3. \A t \in Streams : ToTell(t)' <=> ToTell(t)
    BY <1>2 DEF ToTell
  <1>4. ASSUME NEW t \in Streams, signals'[t] = signals[t], done'[t] = done[t],
               pc'[t] = "dequeue" => pc[t] = "dequeue"
        PROVE  Turns(t)' <= Len(done'[t])
    BY <1>1, <1>3, <1>4, TurnsStay DEF Announced
  <1>5. CASE StreamTurn(s)
    <2>1. /\ pc[s] = "wait" /\ pc'[s] = "dequeue" /\ done' = done
          /\ signals[s].received # {} /\ signals' = [signals EXCEPT ![s] = AfterTurn(@)]
      BY <1>1, <1>5 DEF StreamTurn, TakeTurn, streamVars
    <2>2. ASSUME NEW t \in Streams, t # s PROVE Turns(t)' <= Len(done'[t])
      BY <1>1, <1>2, <1>4, <2>1, <2>2
    <2>3. PICK q : q = signals[s]
      OBVIOUS
    <2>4. signals'[s].received = q.pending /\ signals'[s].pending = {}
      BY <2>1, <2>3, TurnTaken DEF Told
    <2>5. "DATA_COMING" \in signals[s].received
      BY <2>1 DEF Told, WordsOf
    <2>6. Turns(s)' = Turns(s)
      BY <1>3, <2>1, <2>3, <2>4, <2>5 DEF Turns
    <2> QED
      BY <2>1, <2>2, <2>6 DEF Announced
  <1>6. CASE StreamDequeue(s)
    <2>1. /\ done[s] # <<>> /\ done' = [done EXCEPT ![s] = Tail(@)] /\ signals' = signals
          /\ pc[s] = "dequeue" /\ pc'[s] # "dequeue"
      BY <1>1, <1>6 DEF StreamDequeue
    <2>2. ASSUME NEW t \in Streams, t # s PROVE Turns(t)' <= Len(done'[t])
      BY <1>1, <1>2, <1>4, <2>1, <2>2
    <2>3. done[s] \in Seq(Requests) /\ done'[s] = Tail(done[s])
      BY <1>1, <2>1
    <2>4. Len(done[s]) \in Nat /\ Len(done'[s]) = Len(done[s]) - 1
      <3>1. PICK q : q = done[s]
        OBVIOUS
      <3> HIDE DEF Requests
      <3>2. Len(q) \in Nat /\ Len(Tail(q)) = Len(q) - 1
        BY <2>1, <2>3, <3>1, HeadTailProperties
      <3> QED
        BY <2>3, <3>1, <3>2
    <2>5. Turns(s)' = Turns(s) - 1
      BY <1>3, <2>1 DEF Turns
    <2>6. Turns(s) \in Int
      BY DEF Turns
    <2> QED
      BY <2>2, <2>4, <2>5, <2>6 DEF Announced
  <1>7. CASE StreamStray(s) \/ (s = "scc" /\ JpegDone)
    <2>1. UNCHANGED <<done, signals>> /\ pc'[s] # "dequeue"
      BY <1>1, <1>7 DEF StreamStray, JpegDone, streamVars
    <2> QED
      BY <1>2, <1>4, <2>1 DEF Announced
  <1>8. CASE (s = "scp" /\ PreviewOutput) \/ (s = "scc" /\ PictureOutput)
    <2>1. done' = done /\ pc'[s] # "dequeue"
      BY <1>1, <1>8 DEF PreviewOutput, PictureOutput
    <2>2. \A t \in Streams : signals'[t] = signals[t]
      BY <1>1, <1>8, NotifySignals DEF PreviewOutput, PictureOutput
    <2> QED
      BY <1>2, <1>4, <2>1, <2>2 DEF Announced
  <1> QED
    BY <1>5, <1>6, <1>7, <1>8 DEF streamThread

LEMMA SensorAnnounced ==
    ASSUME Way, Told, Announced, sensorThread
    PROVE  Announced'
  <1> USE DEF Goes
  <1>1. /\ pc \in [Threads -> AllPlaces] /\ done \in [Streams -> Seq(Requests)]
        /\ DOMAIN signals = Threads
    BY DEF Way, ThreadTypes, Told, WordsOf
  <1>2. \A u \in Threads : u # "sensor" => pc'[u] = pc[u]
    BY SensorActs DEF Way
  <1>3. ASSUME NEW s \in Streams, signals'[s] = signals[s], done'[s] = done[s],
               ToTell(s)' => ToTell(s)
        PROVE  Turns(s)' <= Len(done'[s])
    BY <1>1, <1>2, <1>3, TurnsStay DEF Announced
  <1>4. CASE SensorTurn \/ SensorMatch \/ SensorBubble \/ SensorMark
    <2>1. pc'["sensor"] \in {"start", "isp", "mark", "wait"} /\ done' = done
      BY <1>1, <1>4 DEF SensorTurn, TakeTurn, SensorMatch, SensorBubble, SensorMark, streamVars
    <2>2. \A s \in Streams : signals'[s] = signals[s]
      BY <1>1, <1>4 DEF SensorTurn, TakeTurn, SensorMatch, SensorBubble, SensorMark, Tell
    <2>3. \A s \in Streams : ~ ToTell(s)'
      BY <2>1 DEF ToTell
    <2> QED
      BY <1>3, <2>1, <2>2, <2>3 DEF Announced
  <1>5. CASE SensorIsp
    <2>1. PICK dropped \in SUBSET shot.outputs :
              /\ shot' = [frame |-> shot.frame, outputs |-> shot.outputs \ dropped,
                          dropped |-> dropped]
              /\ done' = [s \in Streams |-> IF s \in shot.outputs \ dropped
                                            THEN Append(done[s], shot.frame) ELSE done[s]]
      BY <1>5 DEF SensorIsp
    <2>2. /\ pc["sensor"] = "isp" /\ pc'["sensor"] = "meta" /\ signals' = signals
      BY <1>1, <1>5 DEF SensorIsp
    <2>3. ASSUME NEW s \in Streams PROVE Turns(s)' <= Len(done'[s])
      <3>1. CASE s \in shot.outputs \ dropped
        <4>1. shot.frame \in Requests
          BY <3>1 DEF Way, ThreadTypes
        <4>2. done'[s] = Append(done[s], shot.frame) /\ done[s] \in Seq(Requests)
          BY <1>1, <2>1, <3>1
        <4>3. Len(done'[s]) = Len(done[s]) + 1 /\ Len(done[s]) \in Nat
          BY <4>1, <4>2, AppendProperties, LenProperties
        <4>4. ~ ToTell(s)
          BY <2>2 DEF ToTell
        <4>5. Turns(s)' <= Turns(s) + 1 /\ Turns(s) \in Int /\ Turns(s)' \in Int
          BY <1>2, <2>2, <4>4 DEF Turns
        <4> QED
          BY <4>3, <4>5 DEF Announced
      <3>2. CASE s \notin shot.outputs \ dropped
        BY <1>3, <2>1, <2>2, <3>2 DEF ToTell
      <3> QED
        BY <3>1, <3>2
    <2> QED
      BY <2>3 DEF Announced
  <1>6. CASE SensorMeta
    <2>1. /\ UNCHANGED <<shot, done>> /\ pc["sensor"] = "meta" /\ pc'["sensor"] = "scc"
      BY <1>1, <1>6 DEF SensorMeta, sensorVars, streamVars
    <2>2. \A s \in Streams : signals'[s] = signals[s]
      <3>1. \E b : signals' = TellMainIf(signals, b)
        <4>1. signals = TellMainIf(signals, FALSE)
          BY DEF TellMainIf
        <4>2. CASE UNCHANGED <<entries, signals>>
          BY <4>1, <4>2
        <4>3. CASE ~ UNCHANGED <<entries, signals>>
          BY <1>6, <4>3, MetaFinds DEF Way
        <4> QED
          BY <4>2, <4>3
      <3> QED
        BY <1>1, <3>1 DEF TellMainIf, Tell
    <2>3. \A s \in Streams : ToTell(s)' => ToTell(s)
      BY <2>1 DEF ToTell
    <2> QED
      BY <1>3, <2>1, <2>2, <2>3 DEF Announced
  <1>7. ASSUME NEW s \in Streams, NEW from, NEW to, SensorOutput(s, from, to),
               \/ s = "scc" /\ from = "scc" /\ to = "scp"
               \/ s = "scp" /\ from = "scp" /\ to = "mark"
        PROVE  Announced'
    <2>1. /\ UNCHANGED <<shot, done>> /\ pc["sensor"] = from /\ pc'["sensor"] = to
      BY <1>1, <1>7 DEF SensorOutput, sensorVars
    <2>2. \A t \in Streams : ToTell(t)' => ToTell(t)
      BY <1>7, <2>1 DEF ToTell
    <2>3. CASE s \in shot.dropped \/ s \notin shot.outputs
      <3>1. \A t \in Streams : signals'[t] = signals[t]
        BY <1>1, <1>7, <2>3, NotifySignals DEF SensorOutput
      <3> QED
        BY <1>3, <2>1, <2>2, <3>1 DEF Announced
    <2>4. CASE s \notin shot.dropped /\ s \in shot.outputs
      <3>1. signals' = Tell(signals, s, "DATA_COMING")
        BY <1>7, <2>4 DEF SensorOutput
      <3>2. "DATA_COMING" \in Words
        BY DEF Words
      <3>3. /\ \A u \in Threads : u # s => signals'[u] = signals[u]
            /\ IF "DATA_COMING" \in signals[s].received
               THEN /\ signals'[s].received = signals[s].received
                    /\ signals'[s].pending = signals[s].pending \cup {"DATA_COMING"}
               ELSE /\ signals'[s].received = signals[s].received \cup {"DATA_COMING"}
                    /\ signals'[s].pending = signals[s].pending
        BY <3>1, <3>2, Telling DEF Told, WordsOf
      <3>4. ASSUME NEW t \in Streams, t # s PROVE Turns(t)' <= Len(done'[t])
        BY <1>3, <2>1, <2>2, <3>3, <3>4
      <3>5. ToTell(s) /\ ~ ToTell(s)'
        BY <1>7, <2>1, <2>4 DEF ToTell
      <3>6. pc'[s] = pc[s]
        BY <1>2
      <3>7. Turns(s)' <= Turns(s) /\ Turns(s) \in Int /\ Turns(s)' \in Int
        BY <3>3, <3>5, <3>6 DEF Turns
      <3>8. Len(done[s]) \in Nat
        BY <1>1, LenProperties
      <3> QED
        BY <2>1, <3>4, <3>7, <3>8 DEF Announced
    <2> QED
      BY <2>3, <2>4
  <1> QED
    BY <1>4, <1>5, <1>6, <1>7 DEF sensorThread

-----------------------------------------------------------------------------
(* The sensor: a request that was sent to it is under way there.             *)

LEMMA TailKeeps ==
    ASSUME NEW S, NEW s \in Seq(S), Len(s) # 0
    PROVE  /\ Tail(s) \in Seq(S) /\ Len(Tail(s)) = Len(s) - 1 /\ Len(s) \in Nat
           /\ \A x \in Range(s) : x # Head(s) => x \in Range(Tail(s))
  <1>1. /\ Tail(s) \in Seq(S) /\ Len(s) \in Nat \ {0} /\ Len(Tail(s)) = Len(s) - 1
        /\ \A i \in 1 .. Len(Tail(s)) : Tail(s)[i] = s[i + 1]
        /\ Head(s) = s[1] /\ DOMAIN s = 1 .. Len(s) /\ DOMAIN Tail(s) = 1 .. Len(s) - 1
    BY HeadTailProperties, LenProperties, EmptySeq
  <1> DEFINE t == Tail(s)
             h == Head(s)
  <1>2. ASSUME NEW i \in 1 .. Len(s), s[i] # h
        PROVE  s[i] = t[i - 1] /\ i - 1 \in DOMAIN t
    BY <1>1, <1>2
  <1>3. ASSUME NEW x \in Range(s), x # h PROVE x \in Range(t)
    <2>1. PICK i \in 1 .. Len(s) : x = s[i]
      BY <1>1 DEF Range
    <2> QED
      BY <1>2, <1>3, <2>1 DEF Range
  <1> QED
    BY <1>1, <1>3

LEMMA AppendAdds ==
    ASSUME NEW S, NEW s \in Seq(S), NEW e \in S
    PROVE  /\ Append(s, e) \in Seq(S) /\ Len(Append(s, e)) = Len(s) + 1 /\ Len(s) \in Nat
           /\ Range(Append(s, e)) = Range(s) \cup {e}
  BY AppendProperties, LenProperties DEF Range

Sent ==
    /\ sensor \in Seq(Requests \cup {NoFrame})
    /\ Len(sensor) = IF pc["sensor"] \in {"wait", "start"} THEN SensorDepth ELSE SensorDepth - 1
    /\ \A i \in Indices : entries[i].status = "REQUESTED" => entries[i].frame \in Range(sensor)

\* No entry is sent to the sensor.
NoneIsSent ==
    \A i \in Indices : entries'[i].status = "REQUESTED" => entries'[i] = entries[i]

LEMMA SentStays ==
    ASSUME Sent, NoneIsSent, sensor' = sensor,
           pc'["sensor"] \in {"wait", "start"} <=> pc["sensor"] \in {"wait", "start"}
    PROVE  Sent'
  BY DEF Sent, NoneIsSent

LEMMA UpdateSendsNone ==
    ASSUME RequestTypes, NEW i \in Indices, NEW e, Updates(i, e), e.status # "REQUESTED"
    PROVE  NoneIsSent
  BY UpdateKeepsRing DEF NoneIsSent, Updates, RequestTypes

LEMMA NotifySendsNone ==
    ASSUME Way, NEW f \in Requests, NEW s \in Streams, OnItsWay(f, s), NotifyStreamOutput(f)
    PROVE  NoneIsSent
  <1>1. PICK i \in Indices, e \in Entry :
            /\ Updates(i, e) /\ entries[i].status \in {"CAPTURED", "METADONE"}
            /\ IF entries[i].status = "METADONE" /\ e.outputs = 0 THEN e.status = "COMPLETED"
               ELSE e.status = entries[i].status
    BY NotifyFinds DEF Way
  <1> QED
    BY <1>1, UpdateSendsNone DEF Way

LEMMA ServiceSent ==
    ASSUME Way, Told, Sent, Submit \/ notifyRequestQueueNotEmpty \/ mainThread
    PROVE  Sent'
  <1>1. sensor' = sensor /\ pc'["sensor"] = pc["sensor"]
    <2>1. CASE Submit \/ notifyRequestQueueNotEmpty
      BY <2>1 DEF Submit, notifyRequestQueueNotEmpty, sensorVars
    <2>2. CASE mainThread
      BY <2>2, MainActs DEF Way, Told, sensorVars
    <2> QED
      BY <2>1, <2>2
  <1>2. NoneIsSent
    <2>1. CASE UNCHANGED entries
      BY <2>1 DEF NoneIsSent
    <2>2. CASE MainRegister
      <3>1. PICK i : i = m_entryInsertionIndex'
        OBVIOUS
      <3>2. PICK e : e = [status |-> "REGISTERED", frame |-> dequeued,
                          outputs |-> IF kind[dequeued] \in {"preview", "jpeg"} THEN 1 ELSE 2]
        OBVIOUS
      <3>3. i \in Indices /\ entries' = [entries EXCEPT ![i] = e]
        BY <2>2, <3>1, <3>2, RegisterKeepsRing DEF Way, MainRegister, mainOthers
      <3>4. e.status # "REQUESTED"
        BY <3>2
      <3> QED
        BY <3>3, <3>4 DEF NoneIsSent, Way, RequestTypes
    <2>3. CASE MainDone /\ ~ UNCHANGED entries
      <3>1. PICK i \in EntriesOf(m_lastCompletedFrameCnt + 1) :
                freed' = freed + 1 /\ DeregisterRequest(i)
        BY <2>3 DEF MainDone, manager
      <3>2. i \in Indices /\ entries[i].frame = m_lastCompletedFrameCnt + 1
        BY DEF EntriesOf
      <3>3. \A j \in Indices : entries[j].status = "METADONE" => entries[j].outputs # 0
        BY DEF Way, Owed, Sound
      <3>4. dequeued' = dequeued
        BY <2>3 DEF MainDone
      <3>5. entries' = [entries EXCEPT ![i] = EmptyEntry]
        BY <3>1, <3>2, <3>3, <3>4, DeregisterKeepsRing DEF Way
      <3> QED
        BY <3>2, <3>5 DEF NoneIsSent, Way, RequestTypes, EmptyEntry
    <2>4. CASE Submit \/ notifyRequestQueueNotEmpty \/ MainTurn \/ MainFull \/ MainDequeueNull
                \/ MainNull \/ MainRegistered \/ MainFreed
      <3>1. UNCHANGED entries
        BY <2>4 DEF Submit, notifyRequestQueueNotEmpty, MainTurn, TakeTurn, MainFull,
                    MainDequeueNull, MainNull, MainRegistered, MainFreed, manager
      <3> QED
        BY <2>1, <3>1
    <2> QED
      BY <2>1, <2>2, <2>3, <2>4 DEF mainThread
  <1> QED
    BY <1>1, <1>2, SentStays

LEMMA StreamSent ==
    ASSUME Way, Told, Sent, NEW s \in Streams, streamThread(s)
    PROVE  Sent'
  <1>1. sensor' = sensor /\ pc'["sensor"] = pc["sensor"]
    BY StreamActs DEF Way, sensorVars
  <1>2. NoneIsSent
    <2>1. CASE StreamTurn(s) \/ StreamDequeue(s) \/ StreamStray(s) \/ JpegDone
      <3>1. UNCHANGED entries
        BY <2>1 DEF StreamTurn, TakeTurn, StreamDequeue, StreamStray, JpegDone, manager
      <3> QED
        BY <3>1 DEF NoneIsSent
    <2>2. CASE (s = "scp" /\ PreviewOutput) \/ (s = "scc" /\ PictureOutput)
      <3>1. PICK f : f = frame[s]
        OBVIOUS
      <3>2. pc[s] = "output" /\ NotifyStreamOutput(f)
        BY <2>2, <3>1 DEF PreviewOutput, PictureOutput, Goes, Way, ThreadTypes
      <3>3. f \in Requests /\ OnItsWay(f, s)
        BY <3>1, <3>2 DEF Way, ThreadTypes, OnItsWay, InThread
      <3> QED
        BY <3>2, <3>3, NotifySendsNone
    <2> QED
      BY <2>1, <2>2 DEF streamThread
  <1> QED
    BY <1>1, <1>2, SentStays

LEMMA SensorSent ==
    ASSUME Way, Told, Sent, sensorThread
    PROVE  Sent'
  <1> USE DEF Goes
  <1>1. pc \in [Threads -> AllPlaces] /\ SensorDepth \in Nat \ {0}
    BY RequestsAssumption DEF Way, ThreadTypes
  <1>2. CASE SensorTurn \/ SensorIsp
    <2>1. UNCHANGED <<sensor, entries>>
      BY <1>2 DEF SensorTurn, TakeTurn, SensorIsp, manager, sensorVars
    <2>2. pc'["sensor"] \in {"wait", "start"} <=> pc["sensor"] \in {"wait", "start"}
      BY <1>1, <1>2 DEF SensorTurn, TakeTurn, SensorIsp
    <2> QED
      BY <2>1, <2>2, SentStays DEF NoneIsSent
  <1>3. CASE SensorMeta
    <2>1. sensor' = sensor
          /\ (pc'["sensor"] \in {"wait", "start"} <=> pc["sensor"] \in {"wait", "start"})
      BY <1>1, <1>3 DEF SensorMeta, sensorVars
    <2>2. NoneIsSent
      <3>1. CASE UNCHANGED entries
        BY <3>1 DEF NoneIsSent
      <3>2. CASE ~ UNCHANGED entries
        <4>1. PICK i \in Indices, e \in Entry :
                  Updates(i, e) /\ e.status = IF e.outputs = 0 THEN "COMPLETED" ELSE "METADONE"
          BY <1>3, <3>2, MetaFinds DEF Way
        <4> QED
          BY <4>1, UpdateSendsNone DEF Way
      <3> QED
        BY <3>1, <3>2
    <2> QED
      BY <2>1, <2>2, SentStays
  <1>4. ASSUME NEW s \in Streams, NEW from, NEW to, SensorOutput(s, from, to),
               \/ s = "scc" /\ from = "scc" /\ to = "scp"
               \/ s = "scp" /\ from = "scp" /\ to = "mark"
        PROVE  Sent'
    <2>1. sensor' = sensor
          /\ (pc'["sensor"] \in {"wait", "start"} <=> pc["sensor"] \in {"wait", "start"})
      BY <1>1, <1>4 DEF SensorOutput, sensorVars
    <2>2. CASE s \in shot.dropped
      <3>1. PICK f : f = shot.frame
        OBVIOUS
      <3>2. f \in Requests
        BY <2>2, <3>1 DEF Way, ThreadTypes
      <3>3. OnItsWay(f, s) /\ NotifyStreamOutput(f)
        BY <1>4, <2>2, <3>1 DEF SensorOutput, OnItsWay, InShot
      <3> QED
        BY <2>1, <3>2, <3>3, NotifySendsNone, SentStays
    <2>3. CASE s \notin shot.dropped
      <3>1. NoneIsSent
        BY <1>4, <2>3 DEF SensorOutput, NoneIsSent
      <3> QED
        BY <2>1, <3>1, SentStays
    <2> QED
      BY <2>2, <2>3
  <1>5. CASE SensorMatch \/ SensorBubble
    <2>1. PICK q \in Seq(Requests \cup {NoFrame}) : q = sensor
      BY DEF Sent
    <2>2. /\ sensor' = Tail(q) /\ pc["sensor"] = "start" /\ pc'["sensor"] \in {"isp", "mark"}
          /\ m_nightCaptureCnt = 0
      BY <1>1, <1>5, <2>1 DEF SensorMatch, SensorBubble, Way, ThreadTypes
    <2>3. Len(q) = SensorDepth /\ Len(q) # 0
      BY <1>1, <2>1, <2>2 DEF Sent
    <2>4. /\ Tail(q) \in Seq(Requests \cup {NoFrame}) /\ Len(Tail(q)) = SensorDepth - 1
          /\ \A x \in Range(q) : x # Head(q) => x \in Range(Tail(q))
      <3> HIDE DEF Requests, NoFrame
      <3> QED
        BY <2>3, TailKeeps
    <2>5. ASSUME NEW j \in Indices, entries'[j].status = "REQUESTED"
          PROVE  entries'[j].frame \in Range(q) /\ entries'[j].frame # Head(q)
      <3>1. CASE SensorMatch
        <4>1. PICK i \in Indices, e \in Entry :
                  /\ Updates(i, e) /\ entries[i].status = "REQUESTED" /\ e.status = "CAPTURED"
                  /\ e.frame = Head(sensor)
          BY <2>2, <3>1, MatchFinds DEF Way
        <4>2. /\ entries'[i] = e /\ entries[i].frame = e.frame
              /\ \A k \in Indices : k # i => entries'[k] = entries[k]
          BY <4>1 DEF Updates, Way, RequestTypes
        <4>3. j # i /\ entries'[j] = entries[j]
          BY <2>5, <4>1, <4>2
        <4>4. entries[i].frame # NoFrame
          BY <4>1, RingIsExact DEF Way
        <4>5. entries[j].frame # entries[i].frame
          BY <4>3, <4>4, RingIsExact DEF Way
        <4> QED
          BY <2>1, <2>5, <4>1, <4>2, <4>3, <4>5 DEF Sent
      <3>2. CASE SensorBubble
        <4>1. entries' = entries /\ Matched(Head(q)) = NoFrame
          BY <2>1, <3>2 DEF SensorBubble, manager
        <4>2. entries[j].frame # NoFrame
          BY <2>5, <4>1, RingIsExact DEF Way
        <4>3. entries[j].frame # Head(q)
          BY <2>2, <2>5, <4>1, <4>2 DEF Matched, EntriesOf
        <4> QED
          BY <2>1, <2>5, <4>1, <4>3 DEF Sent
      <3> QED
        BY <1>5, <3>1, <3>2
    <2> QED
      BY <2>2, <2>4, <2>5 DEF Sent
  <1>6. CASE SensorMark
    <2>1. PICK q \in Seq(Requests \cup {NoFrame}) : q = sensor
      BY DEF Sent
    <2>2. pc["sensor"] = "mark" /\ pc'["sensor"] = "wait"
      BY <1>1, <1>6 DEF SensorMark
    <2>3. Len(q) = SensorDepth - 1
      BY <2>1, <2>2 DEF Sent
    <2>4. \E x \in Requests \cup {NoFrame} :
              /\ sensor' = Append(q, x)
              /\ \A j \in Indices : entries'[j].status = "REQUESTED" =>
                     entries'[j].frame = x \/ entries'[j] = entries[j]
      <3>1. CASE UNCHANGED entries /\ sensor' = Append(sensor, NoFrame)
        BY <2>1, <3>1
      <3>2. CASE ~ (UNCHANGED entries /\ sensor' = Append(sensor, NoFrame))
        <4>1. PICK i \in Indices, e \in Entry :
                  Updates(i, e) /\ sensor' = Append(sensor, e.frame)
          BY <1>6, <3>2, MarkFinds DEF Way
        <4>2. /\ entries'[i] = e /\ e.frame \in Requests \cup {NoFrame}
              /\ \A k \in Indices : k # i => entries'[k] = entries[k]
          BY <4>1 DEF Updates, Way, RequestTypes, Entry
        <4> QED
          BY <2>1, <4>1, <4>2
      <3> QED
        BY <3>1, <3>2
    <2>5. PICK x \in Requests \cup {NoFrame} :
              /\ sensor' = Append(q, x)
              /\ \A j \in Indices : entries'[j].status = "REQUESTED" =>
                     entries'[j].frame = x \/ entries'[j] = entries[j]
      BY <2>4
    <2>6. /\ Append(q, x) \in Seq(Requests \cup {NoFrame}) /\ Len(Append(q, x)) = Len(q) + 1
          /\ Range(Append(q, x)) = Range(q) \cup {x}
      <3> HIDE DEF Requests, NoFrame
      <3> QED
        BY AppendAdds
    <2> QED
      BY <1>1, <2>1, <2>2, <2>3, <2>5, <2>6 DEF Sent
  <1> QED
    BY <1>2, <1>3, <1>4, <1>5, <1>6 DEF sensorThread

-----------------------------------------------------------------------------
(* The service's queue: when the camera believes that it is empty it is, or  *)
(* the service is about to say that it is not.                               *)

Asked ==
    /\ signalConsumer \in BOOLEAN /\ notifying \in BOOLEAN /\ m_isRequestQueueNull \in BOOLEAN
    /\ ~ QueuesInDequeue =>
           /\ m_isRequestQueueNull => signalConsumer \/ notifying
           /\ m_isRequestQueueNull /\ ~ notifying => dequeued = submitted
           /\ pc["main"] = "null" => signalConsumer /\ dequeued = submitted

LEMMA AskedStays ==
    ASSUME Asked, UNCHANGED <<submitted, signalConsumer, notifying, dequeued, m_isRequestQueueNull>>,
           pc'["main"] = "null" => pc["main"] = "null"
    PROVE  Asked'
  BY Zenon DEF Asked

LEMMA AskedStep ==
    ASSUME Way, Told, Asked, Next
    PROVE  Asked'
  <1> USE DEF Goes, mainOthers, service
  <1>1. pc \in [Threads -> AllPlaces]
    BY DEF Way, ThreadTypes
  <1>2. ASSUME NEW from, NEW to, Goes("main", from, to)
        PROVE  pc["main"] = from /\ pc'["main"] = to
    BY <1>1, <1>2
  <1>3. dequeued < submitted => dequeued # submitted
    BY RequestsAssumption DEF Way, RequestTypes
  <1>4. CASE Submit
    <2>1. /\ ~ notifying /\ (QueuesInDequeue \/ pc["main"] # "null") /\ pc' = pc /\ dequeued' = dequeued
          /\ notifying' = signalConsumer /\ signalConsumer' = FALSE
          /\ m_isRequestQueueNull' = m_isRequestQueueNull
      BY <1>4, Zenon DEF Submit
    <2> QED
      BY <2>1, Zenon DEF Asked
  <1>5. CASE notifyRequestQueueNotEmpty
    <2>1. /\ notifying' = FALSE /\ m_isRequestQueueNull' = FALSE
          /\ UNCHANGED <<pc, signalConsumer, dequeued, submitted>>
      BY <1>5, Zenon DEF notifyRequestQueueNotEmpty
    <2> QED
      BY <2>1, Zenon DEF Asked
  <1>6. CASE MainTurn \/ MainFull \/ MainRegistered \/ MainDone \/ MainFreed
    <2>1. UNCHANGED <<submitted, signalConsumer, notifying, dequeued, m_isRequestQueueNull>>
      BY <1>6, Zenon DEF MainTurn, TakeTurn, MainFull, MainRegistered, MainDone, MainFreed
    <2>2. pc'["main"] # "null"
      <3>1. CASE MainTurn
        BY <1>2, <3>1 DEF MainTurn, TakeTurn
      <3>2. CASE MainFull
        BY <1>2, <3>2 DEF MainFull, Then
      <3>3. CASE MainRegistered
        BY <1>2, <3>3 DEF MainRegistered, Then
      <3>4. CASE MainDone
        BY <1>2, <3>4 DEF MainDone
      <3>5. CASE MainFreed
        BY <1>2, <3>5 DEF MainFreed
      <3> QED
        BY <1>6, <3>1, <3>2, <3>3, <3>4, <3>5
    <2> QED
      BY <2>1, <2>2, AskedStays
  <1>7. CASE MainDequeueNull
    <2>1. /\ signalConsumer' = TRUE /\ dequeued = submitted
          /\ UNCHANGED <<submitted, notifying, dequeued, m_isRequestQueueNull>>
      BY <1>7, Zenon DEF MainDequeueNull
    <2> QED
      BY <2>1, Zenon DEF Asked
  <1>8. CASE MainNull
    <2>1. /\ m_isRequestQueueNull' = TRUE
          /\ UNCHANGED <<submitted, signalConsumer, notifying, dequeued>>
      BY <1>8, Zenon DEF MainNull
    <2>2. pc["main"] = "null" /\ pc'["main"] # "null"
      <3>1. PICK to : to = Then
        OBVIOUS
      <3>2. to # "null" /\ Goes("main", "null", to)
        BY <1>8, <3>1 DEF MainNull, Then
      <3> QED
        BY <1>2, <3>2
    <2> QED
      BY <2>1, <2>2, Zenon DEF Asked
  <1>9. CASE MainRegister
    <2>1. /\ dequeued # submitted
          /\ UNCHANGED <<submitted, signalConsumer, notifying, m_isRequestQueueNull>>
      BY <1>3, <1>9, Zenon DEF MainRegister
    <2>2. pc'["main"] # "null"
      BY <1>2, <1>9 DEF MainRegister
    <2> QED
      BY <2>1, <2>2, Zenon DEF Asked
  <1>10. CASE sensorThread
    <2>1. /\ UNCHANGED <<service, dequeued, m_isRequestQueueNull>> /\ pc'["main"] = pc["main"]
      BY <1>10, SensorActs DEF Way
    <2> QED
      BY <2>1, AskedStays, Zenon
  <1>11. ASSUME NEW s \in Streams, streamThread(s) PROVE Asked'
    <2>1. /\ UNCHANGED <<service, dequeued, m_isRequestQueueNull>> /\ pc'["main"] = pc["main"]
      BY <1>11, StreamActs DEF Way
    <2> QED
      BY <2>1, AskedStays, Zenon
  <1> QED
    BY <1>4, <1>5, <1>6, <1>7, <1>8, <1>9, <1>10, <1>11 DEF Next, mainThread

-----------------------------------------------------------------------------
(* The threads agree.                                                        *)

Agreement == Way /\ Told /\ Announced /\ Sent /\ Asked

LEMMA StartAgrees ==
    ASSUME Init, "night" \notin Kinds
    PROVE  Agreement
  <1> USE DEF Init
  <1>1. Way
    BY StartIsPromised
  <1>2. Told
    <2>1. /\ signals \in [Threads -> [received : SUBSET Words, pending : SUBSET Words]]
          /\ \A t \in Threads : signals[t].received = {} /\ signals[t].pending = {}
      BY DEF NoSignals
    <2>2. WordsOf(signals) /\ ~ DoneTold
      BY <2>1 DEF WordsOf, DoneTold
    <2>3. ~ DoneTaken /\ turn \in [Threads -> SUBSET Words]
      BY DEF DoneTaken
    <2> QED
      BY <2>2, <2>3 DEF Told, Finished
  <1>3. Announced
    <2>1. ASSUME NEW s \in Streams PROVE Turns(s) = 0 /\ Len(done[s]) = 0
      <3>1. signals[s].received = {} /\ signals[s].pending = {} /\ done[s] = <<>>
        BY DEF NoSignals
      <3>2. ~ ToTell(s) /\ pc[s] # "dequeue"
        BY DEF ToTell, NoShot
      <3> QED
        BY <3>1, <3>2 DEF Turns
    <2> QED
      BY <2>1 DEF Announced
  <1>4. Sent
    <2>1. SensorDepth \in Nat \ {0}
      BY RequestsAssumption
    <2>2. sensor \in Seq(Requests \cup {NoFrame}) /\ Len(sensor) = SensorDepth
      BY <2>1
    <2>3. \A i \in Indices : entries[i].status = "EMPTY"
      BY DEF EmptyEntry
    <2> QED
      BY <2>2, <2>3 DEF Sent
  <1>5. Asked
    BY Zenon DEF Asked
  <1> QED
    BY <1>1, <1>2, <1>3, <1>4, <1>5 DEF Agreement

LEMMA StepAgrees ==
    ASSUME Agreement, [Next]_vars, "night" \notin Kinds
    PROVE  Agreement'
  <1> USE DEF Agreement
  <1>1. Way'
    BY StepIsPromised
  <1>2. ASSUME Submit \/ notifyRequestQueueNotEmpty \/ mainThread
        PROVE  Told' /\ Announced' /\ Sent'
    BY <1>2, ServiceToldStep, MainToldStep, ServiceAnnounced, ServiceSent
  <1>3. ASSUME sensorThread PROVE Told' /\ Announced' /\ Sent'
    BY <1>3, SensorToldStep, SensorAnnounced, SensorSent
  <1>4. ASSUME NEW s \in Streams, streamThread(s) PROVE Told' /\ Announced' /\ Sent'
    BY <1>4, StreamToldStep, StreamAnnounced, StreamSent
  <1>5. CASE UNCHANGED vars
    <2> USE DEF vars, service, manager, sensorVars, streamVars
    <2>1. DoneEntriesStay /\ NoneIsSent
      BY <1>5 DEF DoneEntriesStay, NoneIsSent
    <2>2. Told'
      <3>1. WordsOf(signals)' /\ (DoneTold' => DoneTold) /\ (DoneTaken' => DoneTaken)
        BY <1>5 DEF Told, WordsOf, DoneTold, DoneTaken
      <3> QED
        BY <1>5, <2>1, <3>1, ToldStays
    <2>3. Sent'
      BY <1>5, <2>1, SentStays
    <2>4. Announced'
      <3>1. \A s \in Streams : Turns(s)' = Turns(s) /\ done' = done
        BY <1>5 DEF Turns, ToTell
      <3> QED
        BY <3>1 DEF Announced
    <2>5. Asked'
      BY <1>5, AskedStays, Zenon
    <2> QED
      BY <1>1, <2>2, <2>3, <2>4, <2>5
  <1>6. CASE Next
    <2>1. Asked'
      BY <1>6, AskedStep
    <2> QED
      BY <1>1, <1>2, <1>3, <1>4, <1>6, <2>1 DEF Next
  <1> QED
    BY <1>5, <1>6

\* The invariant says all of what the run checks.
LEMMA AgreementSuffices ==
    ASSUME Agreement
    PROVE  /\ TypeOK /\ RingInOrder /\ DoneIsTrue /\ SignalsHaveFrames /\ SentIsUnderWay
           /\ ~ QueuesInDequeue => NullMeansEmpty
  <1> USE DEF Agreement, Way
  <1>1. NumEntries \in Nat \ {0} /\ NumRequests \in Nat \ {0} /\ SensorDepth \in Nat \ {0}
    BY RequestsAssumption
  <1>2. TypeOK
    <2>1. {signalConsumer, notifying, m_isRequestQueueNull} \subseteq BOOLEAN
      BY Zenon DEF Asked
    <2>2. /\ {submitted, dequeued, freed} \subseteq 0 .. NumRequests
          /\ m_numOfEntries \in 0 .. NumEntries
          /\ m_lastCompletedFrameCnt \in Requests \cup {NoFrame}
      BY <1>1 DEF RequestTypes, Ring
    <2>3. Len(sensor) \in {SensorDepth - 1, SensorDepth}
      BY DEF Sent
    <2>4. entries \in [Indices -> [status : Statuses, frame : Requests \cup {NoFrame},
                                   outputs : 0 .. 2]]
      BY DEF RequestTypes, Entry
    <2> QED
      BY <2>1, <2>2, <2>3, <2>4 DEF TypeOK, RequestTypes
  <1>3. RingInOrder
    <2> DEFINE used == {i \in Indices : entries[i].status # "EMPTY"}
    <2>1. freed \in Nat /\ dequeued \in Nat /\ m_lastCompletedFrameCnt = freed - 1
          /\ m_numOfEntries = dequeued - freed
      BY <1>1 DEF RequestTypes, Ring
    <2>2. {entries[i].frame : i \in used} = m_lastCompletedFrameCnt + 1 .. dequeued - 1
      <3>1. ASSUME NEW f \in freed .. dequeued - 1
            PROVE  f \in {entries[i].frame : i \in used}
        <4>1. PICK i \in Indices : entries[i].frame = f
          BY RingIsExact
        <4>2. f # NoFrame
          BY <2>1
        <4> QED
          BY <4>1, <4>2, RingIsExact
      <3>2. ASSUME NEW i \in used PROVE entries[i].frame \in freed .. dequeued - 1
        BY RingIsExact
      <3> HIDE DEF used
      <3>3. m_lastCompletedFrameCnt + 1 = freed
        BY <2>1
      <3> QED
        BY <3>1, <3>2, <3>3
    <2>3. ASSUME NEW i \in used, entries[i].frame # dequeued - 1
          PROVE  entries[GetNextIndex(i)].frame = entries[i].frame + 1
      <3>1. GetNextIndex(i) \in Indices
        BY <1>1 DEF GetNextIndex
      <3>2. entries[i].frame = FrameAt(i) /\ FrameAt(i) >= freed
        BY <1>1, <2>1 DEF Ring, FrameAt, RequestTypes, EmptyEntry
      <3>3. FrameAt(GetNextIndex(i)) = FrameAt(i) + 1
        BY <1>1, <2>1, <2>3, <3>2 DEF FrameAt, GetNextIndex, RequestTypes
      <3>4. ~ (FrameAt(GetNextIndex(i)) < freed)
        BY <1>1, <2>1, <3>1, <3>2, <3>3 DEF FrameAt, RequestTypes
      <3> QED
        BY <3>1, <3>2, <3>3, <3>4 DEF Ring
    <2>4. pc["main"] # "registered" => m_numOfEntries = dequeued - 1 - m_lastCompletedFrameCnt
      BY <2>1
    <2> QED
      BY <2>2, <2>3, <2>4 DEF RingInOrder
  <1>4. DoneIsTrue
    <2>1. m_lastCompletedFrameCnt + 1 = freed
      BY <1>1 DEF RequestTypes, Ring
    <2>2. "STREAM_OUTPUT_DONE" \notin signals["main"].pending
      BY DEF Told, WordsOf
    <2>3. pc["main"] = "done" => \E i \in Indices : entries[i].frame = freed
                                                    /\ entries[i].status = "COMPLETED"
      BY DEF Told, Finished, DoneTaken, NextIsDone
    <2> QED
      BY <2>1, <2>2, <2>3 DEF DoneIsTrue, EntriesOf
  <1>5. SignalsHaveFrames
    <2>1. ASSUME NEW s \in Streams
          PROVE  (IF "DATA_COMING" \in signals[s].received THEN 1 ELSE 0)
                 + (IF "DATA_COMING" \in signals[s].pending THEN 1 ELSE 0)
                 + (IF pc[s] = "dequeue" THEN 1 ELSE 0) <= Len(done[s])
      <3> USE DEF ThreadTypes
      <3>1. Len(done[s]) \in Nat /\ Turns(s) <= Len(done[s])
        BY LenProperties DEF Announced
      <3> QED
        BY <3>1 DEF Turns
    <2> QED
      BY <2>1 DEF SignalsHaveFrames
  <1>6. SentIsUnderWay
    BY DEF Sent, SentIsUnderWay, Range
  <1>7. ~ QueuesInDequeue => NullMeansEmpty
    BY Zenon DEF Asked, NullMeansEmpty
  <1> QED
    BY <1>2, <1>3, <1>4, <1>5, <1>6, <1>7

\* The entries in use follow each other in the ring without a gap; what one
\* thread of the camera tells another is so; and a request that was sent to
\* the sensor is there until its frame comes.
THEOREM ThreadsAgree ==
    ASSUME "night" \notin Kinds
    PROVE  Spec => [](RingInOrder /\ DoneIsTrue /\ SignalsHaveFrames /\ SentIsUnderWay)
  <1>1. Init => Agreement
    BY StartAgrees
  <1>2. Agreement /\ [Next]_vars => Agreement'
    BY StepAgrees
  <1>3. Agreement => RingInOrder /\ DoneIsTrue /\ SignalsHaveFrames /\ SentIsUnderWay
    BY AgreementSuffices
  <1> QED
    BY <1>1, <1>2, <1>3, PTL DEF Spec

-----------------------------------------------------------------------------
(* The same of the instance that is model-checked.                           *)

\* What the requests of the run's ordinary instance promise the service.
THEOREM OrdinaryRequestsKeepPromise ==
    ASSUME "night" \notin Kinds
    PROVE  MCSpec => OrdinaryKeepsPromise
  <1> DEFINE Inv == instance = "ordinary" => Way
             Step == instance = "ordinary" => [Pipeline!Next]_(Pipeline!vars)
  <1>1. MCInit => Inv /\ (instance = "ordinary" => Pipeline!Init)
    BY StartIsPromised DEF MCInit, RequestInit
  <1>2. [MCNext]_all => UNCHANGED instance /\ (instance = "ordinary" => [Next]_vars)
    BY DEF MCNext, RequestNext, FocusNext, BufferNext, all
  <1>3. Inv /\ [MCNext]_all => Inv' /\ Step
    BY <1>2, StepIsPromised
  <1> HIDE DEF Step, Inv
  <1>4. MCSpec => [][Step]_all
    BY <1>1, <1>3, PTL DEF MCSpec
  <1> QED
    BY <1>1, <1>4, PTL DEF MCSpec, OrdinaryKeepsPromise, Step

\* What the threads of the run's ordinary instance tell each other is so.
THEOREM OrdinaryRequestsAgree ==
    ASSUME "night" \notin Kinds, ~ QueuesInDequeue
    PROVE  MCSpec => []RequestsAgree
  <1> DEFINE Inv == instance = "ordinary" => Agreement
  <1>1. MCInit => Inv
    BY StartAgrees DEF MCInit, RequestInit
  <1>2. [MCNext]_all => UNCHANGED instance /\ (instance = "ordinary" => [Next]_vars)
    BY DEF MCNext, RequestNext, FocusNext, BufferNext, all
  <1>3. Inv /\ [MCNext]_all => Inv'
    BY <1>2, StepAgrees
  <1>4. Inv => RequestsAgree
    BY AgreementSuffices DEF RequestsAgree
  <1> QED
    BY <1>1, <1>3, <1>4, PTL DEF MCSpec
-----------------------------------------------------------------------------

(* One thread of the camera: the two signal words keep their shape and       *)
(* remember signals as the counters of SignalMemory do.                      *)

Shape == ThreadTypeOK /\ PendingBehindReceived

\* SetSignal keeps the types, and puts a signal among the pending ones only
\* when it has been received already.
LEMMA SetSignalShape ==
    ASSUME NEW q \in [received : Subsets, pending : Subsets],
           q.pending \subseteq q.received,
           NEW s \in Signals
    PROVE  /\ SetSignal(q, s) \in [received : Subsets, pending : Subsets]
           /\ SetSignal(q, s).pending \subseteq SetSignal(q, s).received
           /\ SetSignal(q, s).received = q.received \cup {s}
           /\ SetSignal(q, s).pending =
                  IF s \in q.received THEN q.pending \cup {s} ELSE q.pending
  BY DEF SetSignal, Subsets

\* A new turn leaves one of each signal that was set twice.
LEMMA AfterTurnShape ==
    ASSUME NEW q \in [received : Subsets, pending : Subsets]
    PROVE  /\ AfterTurn(q) \in [received : Subsets, pending : Subsets]
           /\ AfterTurn(q).received = q.pending
           /\ AfterTurn(q).pending = {}
           /\ TurnOf(q) \in Subsets
  BY DEF AfterTurn, TurnOf, Subsets

LEMMA ShapeInit == ThreadInit => Shape
  <1> SUFFICES ASSUME ThreadInit PROVE Shape
    OBVIOUS
  <1>1. NoSignals \in [received : Subsets, pending : Subsets]
    BY Zenon DEF NoSignals, Subsets
  <1>2. NoSignals.pending = {} /\ NoSignals.received = {}
    BY DEF NoSignals
  <1>3. {} \in Subsets
    BY DEF Subsets
  <1> QED
    BY <1>1, <1>2, <1>3 DEF ThreadInit, Shape, ThreadTypeOK, PendingBehindReceived

LEMMA ShapeStep == Shape /\ [ThreadNext]_threadVars => Shape'
  <1> SUFFICES ASSUME Shape, [ThreadNext]_threadVars PROVE Shape'
    OBVIOUS
  <1> USE DEF Shape, ThreadTypeOK, PendingBehindReceived
  <1>1. CASE Start
    BY <1>1 DEF Start
  <1>2. CASE Take
    <2>1. /\ m_signals' = AfterTurn(m_signals)
          /\ m_processingSignal' = TurnOf(m_signals)
          /\ place' = "took"
          /\ UNCHANGED m_isTerminated
      BY <1>2 DEF Take
    <2>2. m_signals' \in [received : Subsets, pending : Subsets]
      BY <2>1, AfterTurnShape
    <2>3. m_processingSignal' \in Subsets
      BY <2>1, AfterTurnShape
    <2>4. m_signals'.pending = {}
      BY <2>1, AfterTurnShape
    <2> QED
      BY <2>1, <2>2, <2>3, <2>4 DEF Subsets
  <1>3. CASE SeesTerminate \/ Pauses \/ FunctionReturns
    BY <1>3 DEF SeesTerminate, Pauses, FunctionReturns
  <1>4. CASE Terminate \/ Handles
    BY <1>4 DEF Terminate, Handles
  <1>5. ASSUME NEW s \in Signals, Set(s) PROVE Shape'
    <2>1. m_signals' = SetSignal(m_signals, s)
          /\ UNCHANGED <<m_processingSignal, m_isTerminated, place>>
      BY <1>5 DEF Set
    <2>2. /\ m_signals' \in [received : Subsets, pending : Subsets]
          /\ m_signals'.pending \subseteq m_signals'.received
      BY <2>1, SetSignalShape
    <2> QED
      BY <2>1, <2>2
  <1>6. CASE UNCHANGED threadVars
    BY <1>6 DEF threadVars
  <1> QED
    BY <1>1, <1>2, <1>3, <1>4, <1>5, <1>6 DEF ThreadNext, threadLoop

LEMMA ShapeAlways == ThreadSpec => []Shape
  BY ShapeInit, ShapeStep, PTL DEF ThreadSpec

\* The variables of SignalDrivenThread.cpp keep their types.
THEOREM ThreadTypeSafe == ThreadSpec => []ThreadTypeOK
  BY ShapeAlways, PTL DEF Shape

\* threadLoop, which waits for m_receivedSignal alone, never sleeps while a
\* signal is pending.
THEOREM NeverSleepsOnPending == ThreadSpec => []PendingBehindReceived
  BY ShapeAlways, PTL DEF Shape

-----------------------------------------------------------------------------
(* IsTerminated.                                                             *)

\* The mark of an end is never seen while the thread's function runs.
THEOREM TerminatedOnlyOutside == ThreadSpec => []TerminatedOutside
  <1>1. ThreadInit => TerminatedOutside
    BY DEF ThreadInit, TerminatedOutside
  <1>2. TerminatedOutside /\ [ThreadNext]_threadVars => TerminatedOutside'
    BY DEF TerminatedOutside, ThreadNext, threadVars, threadLoop, Start, Set, Take,
           SeesTerminate, Terminate, Pauses, Handles, FunctionReturns
  <1> QED
    BY <1>1, <1>2, PTL DEF ThreadSpec

\* Signals are heard and the end is told truly, for every set of signals.
THEOREM SignalsAreHeard == ThreadSpec => []ThreadsHearSignals
  BY NeverSleepsOnPending, TerminatedOnlyOutside, PTL DEF ThreadsHearSignals

-----------------------------------------------------------------------------
(* The refinement of SignalMemory.                                           *)

LEMMA RememberedType == Shape => rememberedSignals \in [Signals -> 0 .. 2]
  BY DEF rememberedSignals

LEMMA MemoryInit == ThreadInit => Memory!Init
  BY DEF ThreadInit, Memory!Init, rememberedSignals, NoSignals

\* A set counts up to two.
LEMMA SetCounts ==
    ASSUME Shape, NEW s \in Signals, Set(s)
    PROVE  Memory!Set(s)
  <1>1. m_signals \in [received : Subsets, pending : Subsets]
        /\ m_signals.pending \subseteq m_signals.received
    BY DEF Shape, ThreadTypeOK, PendingBehindReceived
  <1>2. m_signals' = SetSignal(m_signals, s) /\ place' = place
    BY DEF Set
  <1>3. /\ m_signals'.received = m_signals.received \cup {s}
        /\ m_signals'.pending = IF s \in m_signals.received
                                THEN m_signals.pending \cup {s}
                                ELSE m_signals.pending
    BY <1>1, <1>2, SetSignalShape
  <1>4. rememberedSignals' =
            [rememberedSignals EXCEPT ![s] = IF @ < 2 THEN @ + 1 ELSE 2]
    <2>1. rememberedSignals \in [Signals -> 0 .. 2]
      BY RememberedType
    <2>2. ASSUME NEW t \in Signals
          PROVE  rememberedSignals'[t] =
                     IF t = s THEN IF rememberedSignals[s] < 2
                                   THEN rememberedSignals[s] + 1 ELSE 2
                     ELSE rememberedSignals[t]
      BY <1>1, <1>3 DEF rememberedSignals
    <2>3. rememberedSignals' \in [Signals -> Int]
      BY DEF rememberedSignals
    <2> DEFINE counted == [rememberedSignals EXCEPT ![s] = IF @ < 2 THEN @ + 1 ELSE 2]
    <2>4. counted \in [Signals -> Int]
      BY <2>1
    <2>5. \A t \in Signals : rememberedSignals'[t] = counted[t]
      BY <2>1, <2>2
    <2> HIDE DEF counted
    <2>6. rememberedSignals' = counted
      BY <2>3, <2>4, <2>5
    <2> QED
      BY <2>6 DEF counted
  <1> QED
    BY <1>2, <1>4 DEF Memory!Set

\* A turn takes one of each.
LEMMA TakeTurns ==
    ASSUME Shape, Take
    PROVE  Memory!Turn
  <1>1. m_signals \in [received : Subsets, pending : Subsets]
        /\ m_signals.pending \subseteq m_signals.received
    BY DEF Shape, ThreadTypeOK, PendingBehindReceived
  <1>2. /\ m_signals' = AfterTurn(m_signals)
        /\ m_signals.received # {}
        /\ place = "wait" /\ place' = "took"
    BY DEF Take
  <1>3. m_signals'.received = m_signals.pending /\ m_signals'.pending = {}
    BY <1>1, <1>2, AfterTurnShape
  <1>4. \E s \in Signals : rememberedSignals[s] > 0
    BY <1>1, <1>2 DEF rememberedSignals, Subsets
  <1>5. rememberedSignals' =
            [s \in Signals |-> IF rememberedSignals[s] > 0
                               THEN rememberedSignals[s] - 1 ELSE 0]
    BY <1>1, <1>3 DEF rememberedSignals
  <1> QED
    BY <1>2, <1>4, <1>5 DEF Memory!Turn

LEMMA MemoryStep ==
    Shape /\ [ThreadNext]_threadVars => [Memory!Next]_(Memory!vars)
  <1> SUFFICES ASSUME Shape, [ThreadNext]_threadVars
               PROVE  [Memory!Next]_(Memory!vars)
    OBVIOUS
  <1> USE DEF Memory!Next, Memory!vars
  <1>1. CASE Take
    BY <1>1, TakeTurns
  <1>2. ASSUME NEW s \in Signals, Set(s) PROVE Memory!Next
    BY <1>2, SetCounts
  <1>3. CASE Start
    <2>1. rememberedSignals' = rememberedSignals /\ place' = "wait"
      BY <1>3 DEF Start, rememberedSignals
    <2> QED
      BY <2>1 DEF Memory!Restart
  <1>4. CASE Terminate
    <2>1. rememberedSignals' = rememberedSignals /\ place' = "gone"
      BY <1>4 DEF Terminate, rememberedSignals
    <2> QED
      BY <2>1 DEF Memory!End
  <1>5. CASE SeesTerminate \/ Pauses \/ Handles \/ FunctionReturns
    <2>1. /\ rememberedSignals' = rememberedSignals
          /\ place # "gone" /\ place' # "gone"
      BY <1>5 DEF SeesTerminate, Pauses, Handles, FunctionReturns,
                  rememberedSignals
    <2> QED
      BY <2>1
  <1>6. CASE UNCHANGED threadVars
    BY <1>6 DEF threadVars, rememberedSignals
  <1> QED
    BY <1>1, <1>2, <1>3, <1>4, <1>5, <1>6 DEF ThreadNext, threadLoop

\* The two words of a SignalDrivenThread implement the counters: a signal is
\* remembered up to twice, and no turn loses or invents one.
THEOREM ImplementsMemory == ThreadSpec => KeepsMemory
  <1>1. ThreadSpec => Memory!Init /\ [][Memory!Next]_(Memory!vars)
    BY MemoryInit, ShapeAlways, MemoryStep, PTL DEF ThreadSpec
  <1> QED
    BY <1>1 DEF KeepsMemory, Memory!Spec

-----------------------------------------------------------------------------
(* The streams of the camera and their threads.                              *)

SignalNames == {"RELEASE", "TERMINATE", "DATA", "START"}
Ends == {"RELEASE", "TERMINATE"}

SignalWords == [received : SUBSET SignalNames, pending : SUBSET SignalNames]

ThreadRecs ==
    [life : {"wait", "turn", "released", "subs", "gone"}, q : SignalWords,
     turn : SUBSET SignalNames, terminated : BOOLEAN]

StreamRecs ==
    [exists : BOOLEAN, active : BOOLEAN, releasing : BOOLEAN, init : BOOLEAN,
     direct : BOOLEAN, count : Int, attached : SUBSET SubStreams]

NodeRecs ==
    [on : SUBSET {"scp", "capture", "sensor"}, capture : BOOLEAN, sensor : BOOLEAN,
     isp : BOOLEAN, suspended : BOOLEAN, csc : BOOLEAN]

CallRecs ==
    [op : {"idle", "zsl", "zslOff", "preview", "close"},
     at : {"idle", "sensor", "capture", "releaseCapture", "captureSlept",
           "captureReleased", "previewThread", "releasePreview", "previewSlept",
           "previewEnds", "ends", "closed"}]

StreamsTypes ==
    /\ th \in [{"preview", "capture", "sensor"} -> ThreadRecs]
    /\ st \in [{"preview", "capture"} -> StreamRecs]
    /\ subs \subseteq SubStreams /\ zsl \in BOOLEAN
    /\ videoNode \in NodeRecs
    /\ call \in CallRecs

\* Which calls have which steps.
CallPlaces ==
    /\ call.op = "idle" <=> call.at = "idle"
    /\ call.op = "close" <=> call.at \in {"ends", "closed"}
    /\ call.op = "zsl" => call.at \in {"releaseCapture", "captureSlept", "captureReleased"}
    /\ call.at \in {"sensor", "releasePreview", "previewSlept", "previewEnds"} =>
           call.op = "preview"
    /\ call.op = "zsl" \/ call.at \in {"releaseCapture", "captureSlept", "captureReleased"} => ~ zsl
    /\ call.op = "zslOff" => ~ zsl

\* No order to end is on its way to a thread.
Clean(t) ==
    /\ th[t].q.received \cap Ends = {} /\ th[t].q.pending \cap Ends = {}
    /\ th[t].life = "turn" => th[t].turn \cap Ends = {}
    /\ th[t].life # "released"

\* How many streams a thread serves, the one of its own included.
CountOf(set) == (IF "RECORD" \in set THEN 1 ELSE 0) + (IF "PRVCB" \in set THEN 1 ELSE 0)
                    + (IF "JPEG" \in set THEN 1 ELSE 0)

Served ==
    /\ st["preview"].exists => st["preview"].attached = subs \ {"JPEG"}
    /\ st["capture"].exists /\ call.op # "zsl" => st["capture"].attached = subs \cap {"JPEG"}
    /\ "JPEG" \notin st["preview"].attached /\ st["capture"].attached \subseteq {"JPEG"}
    /\ "JPEG" \in subs \/ zsl \/ call.op = "zsl" => st["capture"].exists

Counted ==
    /\ st["preview"].count =
           IF ~ st["preview"].exists THEN 0
           ELSE CountOf(st["preview"].attached) + (IF call.op = "preview" THEN 0 ELSE 1)
    /\ st["capture"].count - CountOf(st["capture"].attached) \in {0, 1}
    /\ ~ st["capture"].exists => st["capture"].count = 0
    /\ ~ st["preview"].exists => st["preview"].attached = {}
    /\ zsl => st["capture"].count = CountOf(st["capture"].attached) + 1

\* The sensor thread serves while the ISP does, and ends with the preview.
SensorFollows ==
    LET feeder == th["sensor"]
        on == "sensor" \in videoNode.on
    IN  /\ call.op # "close" => feeder.q.pending = {}
        /\ feeder.life \notin {"released", "subs"}
        /\ videoNode.sensor <=> on
        /\ call.op \notin {"preview", "close"} =>
               Clean("sensor") /\ (videoNode.isp <=> on) /\ (on => feeder.life # "gone")
        /\ call.at = "sensor" =>
              \/ /\ ~ feeder.terminated /\ feeder.life = "wait"
                 /\ "RELEASE" \in feeder.q.received /\ "TERMINATE" \notin feeder.q.received
              \/ /\ ~ feeder.terminated /\ feeder.life = "turn" /\ feeder.q.received \cap Ends = {}
                 /\ "RELEASE" \in feeder.turn /\ "TERMINATE" \notin feeder.turn
              \/ /\ ~ feeder.terminated /\ feeder.life = "wait" /\ ~ on
                 /\ "TERMINATE" \in feeder.q.received /\ "RELEASE" \notin feeder.q.received
              \/ feeder.life = "gone" /\ ~ on /\ Clean("sensor")
        /\ call.op = "preview" /\ call.at # "sensor" =>
              feeder.life = "gone" /\ ~ on /\ Clean("sensor")

\* A stream that has a frame, or is about to, has it from a sensor that works.
FramesCome ==
    LET preview == th["preview"]
        comes == \/ st["preview"].init
                 \/ "DATA" \in preview.q.received \cup preview.q.pending \cup preview.turn
    IN  st["preview"].exists /\ call.op \notin {"preview", "close"} /\ comes =>
            videoNode.isp /\ ~ th["sensor"].terminated

\* The preview's thread is active as long as the stream is held, and its node
\* is off when it is given up.
PreviewFollows ==
    LET thread == th["preview"]
        s == st["preview"]
        off == "scp" \notin videoNode.on
    IN  /\ thread.terminated => thread.life = "gone"
        /\ call.op # "close" =>
              /\ s.exists <=> call.at = "previewEnds" \/ thread.life # "gone"
              /\ call.op = "preview" => s.exists
              /\ ~ s.exists => off
              /\ s.exists /\ call.at \notin {"releasePreview", "previewSlept", "previewEnds"} =>
                    s.active /\ Clean("preview")
              /\ call.op = "preview" /\ call.at \notin {"releasePreview", "previewSlept",
                                                        "previewEnds"} => s.init
              /\ call.at \in {"releasePreview", "previewSlept"} =>
                    IF s.releasing THEN s.init ELSE off
              /\ call.at \in {"releasePreview", "previewSlept"} =>
                    /\ "TERMINATE" \notin thread.q.received \cup thread.q.pending
                    /\ thread.life = "turn" => "TERMINATE" \notin thread.turn
              /\ call.at = "previewEnds" => off

\* The capture thread stays, and is active for the ZSL stream.
CaptureFollows ==
    call.op # "close" =>
        /\ st["capture"].exists => th["capture"].life # "gone"
        /\ "TERMINATE" \notin th["capture"].q.received \cup th["capture"].q.pending
        /\ zsl => st["capture"].active /\ Clean("capture")

StreamsInv ==
    /\ StreamsTypes /\ CallPlaces /\ Served /\ Counted
    /\ SensorFollows /\ FramesCome /\ PreviewFollows /\ CaptureFollows

\* How many sub-streams there are of a set.
LEMMA SubStreamsCount ==
    ASSUME NEW S \in SUBSET SubStreams
    PROVE  Service!Cardinality(S) = CountOf(S)
  <1>1. Service!Cardinality(S) = Cardinality(S)
    BY Zenon DEF Service!Cardinality, Cardinality
  <1>2. S \subseteq {"RECORD", "PRVCB", "JPEG"}
    BY StreamsAssumption
  <1>3. IsFiniteSet({}) /\ Cardinality({}) = 0
    BY FS_EmptySet
  <1>4. ASSUME NEW T, IsFiniteSet(T), NEW x
        PROVE  /\ IsFiniteSet(T \cup {x})
               /\ Cardinality(T \cup {x}) = IF x \in T THEN Cardinality(T) ELSE Cardinality(T) + 1
    BY <1>4, FS_AddElement
  <1> DEFINE A == IF "RECORD" \in S THEN {} \cup {"RECORD"} ELSE {}
             B == IF "PRVCB" \in S THEN A \cup {"PRVCB"} ELSE A
             C == IF "JPEG" \in S THEN B \cup {"JPEG"} ELSE B
  <1>5. IsFiniteSet(A) /\ Cardinality(A) = IF "RECORD" \in S THEN 1 ELSE 0
    <2>1. /\ IsFiniteSet({} \cup {"RECORD"})
          /\ Cardinality({} \cup {"RECORD"}) = IF "RECORD" \in {} THEN 0 ELSE 0 + 1
      BY ONLY <1>3, <1>4
    <2>2. CASE "RECORD" \in S
      BY ONLY <2>1, <2>2
    <2>3. CASE "RECORD" \notin S
      BY ONLY <1>3, <2>3
    <2> QED
      BY ONLY <2>2, <2>3
  <1>6. "PRVCB" \notin A /\ "JPEG" \notin B
    OBVIOUS
  <1>7. S = C
    BY <1>2
  <1> HIDE DEF A
  <1>8. IsFiniteSet(B) /\ Cardinality(B) = Cardinality(A) + IF "PRVCB" \in S THEN 1 ELSE 0
    BY <1>4, <1>5, <1>6
  <1> HIDE DEF B
  <1>9. Cardinality(C) = Cardinality(B) + IF "JPEG" \in S THEN 1 ELSE 0
    BY <1>4, <1>5, <1>6, <1>8
  <1> HIDE DEF C
  <1> QED
    BY <1>1, <1>5, <1>7, <1>8, <1>9 DEF CountOf

\* A stream that is started is a stream.
LEMMA StartedIsStream ==
    ASSUME NEW r \in StreamRecs, NEW d \in BOOLEAN
    PROVE  Service!Started(r, d) \in StreamRecs
  <1>1. PICK a \in StreamRecs : a = [r EXCEPT !.exists = TRUE, !.active = TRUE]
    BY DEF StreamRecs
  <1>2. PICK e \in BOOLEAN : e = ~ d
    BY Zenon
  <1>3. PICK b \in StreamRecs : b = [a EXCEPT !.init = e]
    BY DEF StreamRecs
  <1>4. PICK c \in StreamRecs : c = [b EXCEPT !.direct = d]
    BY DEF StreamRecs
  <1>5. PICK w \in SUBSET SubStreams : w = {}
    OBVIOUS
  <1>8. PICK n \in Int : n = 1
    OBVIOUS
  <1>6. [c EXCEPT !.count = n, !.attached = w] \in StreamRecs
    BY DEF StreamRecs
  <1>7. [c EXCEPT !.count = n, !.attached = w] = Service!Started(r, d)
    BY <1>1, <1>2, <1>3, <1>4, <1>5, <1>8 DEF Service!Started
  <1> QED
    BY <1>6, <1>7

\* So is one that is given sub-streams,
LEMMA AttachedIsStream ==
    ASSUME NEW r \in StreamRecs, NEW w \in SUBSET SubStreams
    PROVE  Service!Attached(r, w) \in StreamRecs
  <1> DEFINE a == r.attached \cup w
             c == r.count + Service!Cardinality(w)
  <1>1. a \in SUBSET SubStreams /\ c \in Int
    BY SubStreamsCount DEF StreamRecs, CountOf
  <1> HIDE DEF a, c
  <1>2. [r EXCEPT !.attached = a, !.count = c] \in StreamRecs
    BY <1>1 DEF StreamRecs
  <1> QED
    BY <1>2 DEF Service!Attached, a, c

\* and one that loses a sub-stream.
LEMMA DetachedIsStream ==
    ASSUME NEW r \in StreamRecs, NEW x
    PROVE  Service!Detached(r, x) \in StreamRecs
  <1> DEFINE a == r.attached \ {x}
             c == r.count - 1
  <1>1. a \in SUBSET SubStreams /\ c \in Int
    BY DEF StreamRecs
  <1> HIDE DEF a, c
  <1>2. [r EXCEPT !.attached = a, !.count = c] \in StreamRecs
    BY <1>1 DEF StreamRecs
  <1> QED
    BY <1>2 DEF Service!Detached, a, c

\* The stream that a thread has before it is allocated.
LEMMA NoStreamIsStream == Service!NoStream \in StreamRecs
  BY DEF Service!NoStream, StreamRecs

\* What a stream that is started holds.
LEMMA StartedFields ==
    ASSUME NEW r \in StreamRecs, NEW d \in BOOLEAN, NEW n \in StreamRecs,
           n = Service!Started(r, d)
    PROVE  /\ n.exists /\ n.active /\ n.init = ~ d /\ n.direct = d
           /\ n.count = 1 /\ n.attached = {} /\ n.releasing = r.releasing
  BY DEF Service!Started, StreamRecs

\* What a stream holds that is given sub-streams.
LEMMA AttachedFields ==
    ASSUME NEW r \in StreamRecs, NEW w \in SUBSET SubStreams, NEW n \in StreamRecs,
           n = Service!Attached(r, w)
    PROVE  /\ n.exists = r.exists /\ n.active = r.active /\ n.init = r.init
           /\ n.direct = r.direct /\ n.releasing = r.releasing
           /\ n.attached = r.attached \cup w /\ n.count = r.count + CountOf(w)
  <1>1. Service!Cardinality(w) = CountOf(w)
    BY SubStreamsCount
  <1> DEFINE c == Service!Cardinality(w)
  <1>2. n = [r EXCEPT !.attached = @ \cup w, !.count = @ + c]
    BY DEF Service!Attached
  <1>3. c \in Int /\ c = CountOf(w)
    BY <1>1 DEF CountOf
  <1> HIDE DEF c
  <1> QED
    BY <1>2, <1>3 DEF StreamRecs

\* What a stream holds that loses a sub-stream.
LEMMA DetachedFields ==
    ASSUME NEW r \in StreamRecs, NEW x, NEW n \in StreamRecs,
           n = Service!Detached(r, x)
    PROVE  /\ n.exists = r.exists /\ n.active = r.active /\ n.init = r.init
           /\ n.direct = r.direct /\ n.releasing = r.releasing
           /\ n.attached = r.attached \ {x}
           /\ n.count = IF x \in r.attached THEN r.count - 1 ELSE r.count
  <1>1. CASE x \in r.attached
    BY <1>1 DEF Service!Detached, StreamRecs
  <1>2. CASE x \notin r.attached
    BY <1>2 DEF Service!Detached
  <1> QED
    BY <1>1, <1>2

\* A thread that is sent a signal.
LEMMA SentSignal ==
    ASSUME NEW ths \in [{"preview", "capture", "sensor"} -> ThreadRecs],
           NEW t \in {"preview", "capture", "sensor"}, NEW x \in SignalNames
    PROVE  Service!Sends(ths, t, x) \in [{"preview", "capture", "sensor"} -> ThreadRecs]
  <1>1. PICK w \in SignalWords : w = ths[t].q
    BY DEF ThreadRecs
  <1>2. Service!SetSignal(w, x) \in SignalWords
    BY DEF Service!SetSignal, SignalWords
  <1>3. PICK v \in SignalWords : v = Service!SetSignal(ths[t].q, x)
    BY <1>1, <1>2
  <1>4. [ths[t] EXCEPT !.q = v] \in ThreadRecs
    BY <1>3 DEF ThreadRecs
  <1>5. Service!Sends(ths, t, x) = [ths EXCEPT ![t] = [ths[t] EXCEPT !.q = v]]
    BY <1>3 DEF Service!Sends
  <1> QED
    BY <1>4, <1>5

\* A thread that was just made.
LEMMA NewThreadFields ==
    /\ Service!NewThread \in ThreadRecs
    /\ Service!NewThread.life = "wait" /\ Service!NewThread.q.received = {}
    /\ Service!NewThread.q.pending = {} /\ Service!NewThread.turn = {}
    /\ ~ Service!NewThread.terminated
  BY DEF Service!NewThread, Service!NoSignals, ThreadRecs, SignalWords

\* What StartSCCThread does to the capture stream and its thread.
LEMMA StartSCCFields ==
    ASSUME StreamsTypes, NEW n \in NodeRecs, NEW new,
           new = Service!StartSCC(th, st, n)
    PROVE  /\ new.th \in [{"preview", "capture", "sensor"} -> ThreadRecs]
           /\ new.th["preview"] = th["preview"] /\ new.th["sensor"] = th["sensor"]
           /\ st["capture"].exists => new.th = th
           /\ ~ st["capture"].exists => new.th["capture"] = Service!NewThread
           /\ new.st \in [{"preview", "capture"} -> StreamRecs]
           /\ new.st["preview"] = st["preview"]
           /\ new.st["capture"].exists /\ new.st["capture"].active
           /\ new.st["capture"].count =
                 IF st["capture"].exists THEN st["capture"].count ELSE 1
           /\ new.st["capture"].attached =
                 IF st["capture"].exists THEN st["capture"].attached ELSE {}
           /\ new.st["capture"].releasing = st["capture"].releasing
           /\ new.node \in NodeRecs
           /\ new.node.on = n.on \cup {"capture"} /\ new.node.isp = n.isp
           /\ new.node.sensor = n.sensor
  <1>1. st["capture"] \in StreamRecs /\ Service!NewThread \in ThreadRecs
    BY NewThreadFields DEF StreamsTypes
  <1>2. PICK r \in StreamRecs : r = Service!Started(st["capture"], FALSE)
    BY <1>1, StartedIsStream
  <1>3. /\ r.exists /\ r.active /\ r.count = 1 /\ r.attached = {}
        /\ r.releasing = st["capture"].releasing
    BY <1>1, <1>2, StartedFields
  <1>4. PICK o \in StreamRecs : o = [st["capture"] EXCEPT !.direct = FALSE, !.active = TRUE,
                                                          !.init = TRUE]
    BY <1>1 DEF StreamRecs
  <1>5. /\ o.exists = st["capture"].exists /\ o.active /\ o.count = st["capture"].count
        /\ o.attached = st["capture"].attached /\ o.releasing = st["capture"].releasing
    BY <1>1, <1>4 DEF StreamRecs
  <1>6. PICK c \in StreamRecs : c = IF st["capture"].exists THEN o ELSE r
    OBVIOUS
  <1>7. new.st = [st EXCEPT !["capture"] = c]
    BY <1>2, <1>4, <1>6 DEF Service!StartSCC
  <1>8. new.th = IF st["capture"].exists THEN th ELSE [th EXCEPT !["capture"] = Service!NewThread]
    BY DEF Service!StartSCC
  <1>9. new.node = [n EXCEPT !.on = @ \cup {"capture"}, !.capture = TRUE]
    BY DEF Service!StartSCC
  <1>10. new.st \in [{"preview", "capture"} -> StreamRecs] /\ new.st["capture"] = c
         /\ new.st["preview"] = st["preview"]
    BY <1>7 DEF StreamsTypes
  <1>11. new.th \in [{"preview", "capture", "sensor"} -> ThreadRecs]
         /\ new.th["preview"] = th["preview"] /\ new.th["sensor"] = th["sensor"]
         /\ (~ st["capture"].exists => new.th["capture"] = Service!NewThread)
    BY <1>1, <1>8 DEF StreamsTypes
  <1>12. new.node \in NodeRecs /\ new.node.on = n.on \cup {"capture"} /\ new.node.isp = n.isp
         /\ new.node.sensor = n.sensor
    BY <1>9 DEF NodeRecs
  <1>13. /\ c.exists /\ c.active
         /\ c.count = IF st["capture"].exists THEN st["capture"].count ELSE 1
         /\ c.attached = IF st["capture"].exists THEN st["capture"].attached ELSE {}
         /\ c.releasing = st["capture"].releasing
    BY <1>3, <1>5, <1>6
  <1>14. st["capture"].exists => new.th = th
    BY <1>8
  <1> QED
    BY <1>10, <1>11, <1>12, <1>13, <1>14

\* allocateStream of a preview stream.
LEMMA AllocatePreviewDoes ==
    ASSUME StreamsTypes, Service!AllocatePreview
    PROVE  /\ StreamsTypes'
           /\ st'["capture"] = st["capture"] /\ st'["preview"].exists
           /\ st'["preview"].active /\ ~ st'["preview"].init
           /\ st'["preview"].attached = subs \cap {"RECORD", "PRVCB"}
           /\ st'["preview"].count = CountOf(subs \cap {"RECORD", "PRVCB"}) + 1
           /\ th'["preview"] = Service!NewThread
  <1>1. PICK w \in SUBSET SubStreams : w = subs \cap {"RECORD", "PRVCB"}
    BY DEF StreamsTypes
  <1>2. PICK a \in StreamRecs : a = Service!Started(Service!NoStream, TRUE)
    BY NoStreamIsStream, StartedIsStream
  <1>3. PICK b \in StreamRecs : b = Service!Attached(a, w)
    BY <1>1, <1>2, AttachedIsStream
  <1>4. /\ b.exists /\ b.active /\ ~ b.init /\ b.attached = w
        /\ b.count = CountOf(w) + 1
    <2>1. a.exists /\ a.active /\ ~ a.init /\ a.count = 1 /\ a.attached = {}
      BY <1>2, NoStreamIsStream, StartedFields
    <2>2. b.exists = a.exists /\ b.active = a.active /\ b.init = a.init
      BY <1>3, AttachedFields
    <2>3. b.attached = a.attached \cup w /\ b.count = a.count + CountOf(w)
      BY <1>3, AttachedFields
    <2>4. CountOf(w) \in Int
      BY DEF CountOf
    <2> QED
      BY <2>1, <2>2, <2>3, <2>4
  <1>5. st' = [st EXCEPT !["preview"] = b]
    BY <1>1, <1>2, <1>3 DEF Service!AllocatePreview
  <1>6. /\ th' = [th EXCEPT !["preview"] = Service!NewThread]
        /\ UNCHANGED <<subs, zsl, videoNode, call>>
    BY DEF Service!AllocatePreview
  <1>7. st' \in [{"preview", "capture"} -> StreamRecs] /\ st'["preview"] = b
        /\ st'["capture"] = st["capture"]
    BY <1>5 DEF StreamsTypes
  <1>8. th' \in [{"preview", "capture", "sensor"} -> ThreadRecs]
        /\ th'["preview"] = Service!NewThread
    BY <1>6, NewThreadFields DEF StreamsTypes
  <1> QED
    BY <1>1, <1>4, <1>6, <1>7, <1>8 DEF StreamsTypes

\* allocateStream of a recording or callback stream.
LEMMA AllocateSubDoes ==
    ASSUME StreamsTypes, NEW sub \in SubStreams \ {"JPEG"}, Service!AllocateSub(sub)
    PROVE  /\ StreamsTypes'
           /\ st'["capture"] = st["capture"]
           /\ st'["preview"].exists = st["preview"].exists
           /\ st'["preview"].active = st["preview"].active
           /\ st'["preview"].init = st["preview"].init
           /\ st'["preview"].releasing = st["preview"].releasing
           /\ st'["preview"].attached = st["preview"].attached \cup {sub}
           /\ st'["preview"].count = st["preview"].count + CountOf({sub})
  <1>1. PICK w \in SUBSET SubStreams : w = {sub}
    OBVIOUS
  <1>2. st["preview"] \in StreamRecs
    BY DEF StreamsTypes
  <1>3. PICK b \in StreamRecs : b = Service!Attached(st["preview"], w)
    BY <1>2, AttachedIsStream
  <1>4. /\ b.exists = st["preview"].exists /\ b.active = st["preview"].active
        /\ b.init = st["preview"].init /\ b.releasing = st["preview"].releasing
        /\ b.attached = st["preview"].attached \cup w
        /\ b.count = st["preview"].count + CountOf(w)
    BY <1>2, <1>3, AttachedFields
  <1>5. st' = [st EXCEPT !["preview"] = b]
    BY <1>1, <1>3 DEF Service!AllocateSub
  <1>6. st' \in [{"preview", "capture"} -> StreamRecs] /\ st'["preview"] = b
        /\ st'["capture"] = st["capture"]
    BY <1>5 DEF StreamsTypes
  <1>7. UNCHANGED <<th, zsl, videoNode, call>> /\ subs' \in SUBSET SubStreams
    BY DEF Service!AllocateSub, StreamsTypes
  <1> QED
    BY <1>1, <1>4, <1>6, <1>7 DEF StreamsTypes

\* releaseStream of a sub-stream touches nothing but its stream.
LEMMA ReleaseSubLeaves ==
    ASSUME NEW sub \in SubStreams, Service!ReleaseSub(sub)
    PROVE  /\ th' = th /\ zsl' = zsl /\ videoNode' = videoNode /\ call' = call
           /\ subs' = subs \ {sub} /\ sub \in subs
  BY DEF Service!ReleaseSub

\* releaseStream of a sub-stream.
LEMMA ReleaseSubDoes ==
    ASSUME StreamsTypes, NEW sub \in SubStreams, Service!ReleaseSub(sub)
    PROVE  /\ StreamsTypes'
           /\ \A s \in {"preview", "capture"} :
                 /\ st'[s].exists = st[s].exists
                 /\ st'[s].active = st[s].active
                 /\ st'[s].init = st[s].init
                 /\ st'[s].releasing = st[s].releasing
                 /\ s # Service!Parent(sub) => st'[s] = st[s]
           /\ LET s == Service!Parent(sub)
              IN  /\ st'[s].attached = st[s].attached \ {sub}
                  /\ st'[s].count =
                        IF sub \in st[s].attached THEN st[s].count - 1 ELSE st[s].count
  <1>1. PICK p \in {"preview", "capture"} : p = Service!Parent(sub)
    BY DEF Service!Parent
  <1>2. st[p] \in StreamRecs
    BY DEF StreamsTypes
  <1>3. PICK b \in StreamRecs : b = Service!Detached(st[p], sub)
    BY <1>2, DetachedIsStream
  <1>4. /\ b.exists = st[p].exists /\ b.active = st[p].active
        /\ b.init = st[p].init /\ b.releasing = st[p].releasing
        /\ b.attached = st[p].attached \ {sub}
        /\ b.count = IF sub \in st[p].attached THEN st[p].count - 1 ELSE st[p].count
    BY <1>2, <1>3, DetachedFields
  <1>5. st' = [st EXCEPT ![p] = b]
    BY <1>1, <1>3 DEF Service!ReleaseSub
  <1>6. st' \in [{"preview", "capture"} -> StreamRecs] /\ st'[p] = b
        /\ \A s \in {"preview", "capture"} \ {p} : st'[s] = st[s]
    BY <1>5 DEF StreamsTypes
  <1>7. UNCHANGED <<th, zsl, videoNode, call>> /\ subs' \in SUBSET SubStreams
    BY DEF Service!ReleaseSub, StreamsTypes
  <1>8. StreamsTypes'
    BY <1>6, <1>7 DEF StreamsTypes
  <1>9. ASSUME NEW s \in {"preview", "capture"}
        PROVE  /\ st'[s].exists = st[s].exists
               /\ st'[s].active = st[s].active
               /\ st'[s].init = st[s].init
               /\ st'[s].releasing = st[s].releasing
               /\ s # p => st'[s] = st[s]
    BY <1>4, <1>6
  <1> QED
    BY <1>1, <1>4, <1>6, <1>8, <1>9

\* allocateStream of a JPEG stream.
LEMMA AllocateJpegDoes ==
    ASSUME StreamsTypes, Service!AllocateJpeg
    PROVE  /\ StreamsTypes'
           /\ st'["preview"] = st["preview"]
           /\ st'["capture"].exists /\ st'["capture"].active
           /\ st'["capture"].attached =
                 (IF st["capture"].exists THEN st["capture"].attached ELSE {}) \cup {"JPEG"}
           /\ st'["capture"].count =
                 (IF st["capture"].exists THEN st["capture"].count ELSE 1) + 1
           /\ th'["preview"] = th["preview"] /\ th'["sensor"] = th["sensor"]
           /\ st["capture"].exists => th' = th
           /\ ~ st["capture"].exists => th'["capture"] = Service!NewThread
           /\ videoNode'.isp = videoNode.isp /\ videoNode'.sensor = videoNode.sensor
           /\ videoNode'.on = videoNode.on \/ videoNode'.on = videoNode.on \cup {"capture"}
  <1> DEFINE new == Service!StartSCC(th, st, videoNode)
             same == st["capture"].exists /\ st["capture"].active
  <1>1. PICK ths, sts, n :
            /\ ths = IF same THEN th ELSE new.th
            /\ sts = IF same THEN st ELSE new.st
            /\ n = IF same THEN videoNode ELSE new.node
    OBVIOUS
  <1>2. videoNode \in NodeRecs
    BY DEF StreamsTypes
  <1>3. /\ new.th \in [{"preview", "capture", "sensor"} -> ThreadRecs]
        /\ new.th["preview"] = th["preview"] /\ new.th["sensor"] = th["sensor"]
        /\ st["capture"].exists => new.th = th
        /\ ~ st["capture"].exists => new.th["capture"] = Service!NewThread
        /\ new.st \in [{"preview", "capture"} -> StreamRecs]
        /\ new.st["preview"] = st["preview"]
        /\ new.st["capture"].exists /\ new.st["capture"].active
        /\ new.st["capture"].count =
              IF st["capture"].exists THEN st["capture"].count ELSE 1
        /\ new.st["capture"].attached =
              IF st["capture"].exists THEN st["capture"].attached ELSE {}
        /\ new.node \in NodeRecs
        /\ new.node.on = videoNode.on \cup {"capture"} /\ new.node.isp = videoNode.isp
        /\ new.node.sensor = videoNode.sensor
    BY <1>2, StartSCCFields
  <1>4. th' = ths /\ videoNode' = n /\ st' = [sts EXCEPT !["capture"] = Service!Attached(@, {"JPEG"})]
    BY <1>1 DEF Service!AllocateJpeg
  <1>5. UNCHANGED <<zsl, call>> /\ subs' \in SUBSET SubStreams /\ "JPEG" \in SubStreams
    BY DEF Service!AllocateJpeg, StreamsTypes
  <1> HIDE DEF new
  <1>6. /\ ths \in [{"preview", "capture", "sensor"} -> ThreadRecs]
        /\ ths["preview"] = th["preview"] /\ ths["sensor"] = th["sensor"]
        /\ st["capture"].exists => ths = th
        /\ ~ st["capture"].exists => ths["capture"] = Service!NewThread
    BY <1>1, <1>3 DEF StreamsTypes
  <1>7. /\ sts \in [{"preview", "capture"} -> StreamRecs]
        /\ sts["preview"] = st["preview"]
        /\ sts["capture"].exists /\ sts["capture"].active
        /\ sts["capture"].count = IF st["capture"].exists THEN st["capture"].count ELSE 1
        /\ sts["capture"].attached =
              IF st["capture"].exists THEN st["capture"].attached ELSE {}
    BY <1>1, <1>3 DEF StreamsTypes
  <1>8. /\ n \in NodeRecs /\ n.isp = videoNode.isp /\ n.sensor = videoNode.sensor
        /\ n.on = videoNode.on \/ n.on = videoNode.on \cup {"capture"}
    BY <1>1, <1>2, <1>3
  <1>9. PICK w \in SUBSET SubStreams : w = {"JPEG"}
    BY <1>5
  <1>10. PICK r \in StreamRecs : r = sts["capture"]
    BY <1>7
  <1>11. PICK b \in StreamRecs : b = Service!Attached(r, w)
    BY AttachedIsStream
  <1>12. /\ b.exists = r.exists /\ b.active = r.active
         /\ b.attached = r.attached \cup w
         /\ b.count = r.count + CountOf(w)
    BY <1>11, AttachedFields
  <1>13. CountOf(w) = 1
    BY <1>9 DEF CountOf
  <1>14. st' = [sts EXCEPT !["capture"] = b]
    BY <1>4, <1>9, <1>10, <1>11
  <1>15. st' \in [{"preview", "capture"} -> StreamRecs] /\ st'["capture"] = b
         /\ st'["preview"] = st["preview"]
    BY <1>7, <1>14
  <1>16. StreamsTypes'
    BY <1>4, <1>5, <1>6, <1>8, <1>15 DEF StreamsTypes
  <1> QED
    BY <1>4, <1>6, <1>7, <1>8, <1>9, <1>10, <1>12, <1>13, <1>15, <1>16

\* allocateStream of the ZSL stream.
LEMMA AllocateZslDoes ==
    ASSUME StreamsTypes, Service!AllocateZsl
    PROVE  /\ StreamsTypes'
           /\ st'["preview"] = st["preview"]
           /\ st'["capture"].exists /\ st'["capture"].active
           /\ st'["capture"].attached = {} /\ st'["capture"].count = 1
           /\ th' = [th EXCEPT !["capture"] = Service!NewThread]
  <1>1. PICK r \in StreamRecs : r = st["capture"]
    BY DEF StreamsTypes
  <1>2. PICK b \in StreamRecs : b = Service!Started(r, TRUE)
    BY StartedIsStream
  <1>3. b.exists /\ b.active /\ b.attached = {} /\ b.count = 1
    BY <1>2, StartedFields
  <1>4. /\ st' = [st EXCEPT !["capture"] = b] /\ th' = [th EXCEPT !["capture"] = Service!NewThread]
        /\ UNCHANGED <<subs, videoNode, call>> /\ zsl' \in BOOLEAN
    BY <1>1, <1>2 DEF Service!AllocateZsl
  <1>5. st' \in [{"preview", "capture"} -> StreamRecs] /\ st'["capture"] = b
        /\ st'["preview"] = st["preview"]
    BY <1>4 DEF StreamsTypes
  <1>6. th' \in [{"preview", "capture", "sensor"} -> ThreadRecs]
    BY <1>4, NewThreadFields DEF StreamsTypes
  <1> QED
    BY <1>3, <1>4, <1>5, <1>6 DEF StreamsTypes

\* allocateStream of the ZSL stream, when it takes the capture thread over.
LEMMA ConvertToZslDoes ==
    ASSUME StreamsTypes, Service!ConvertToZsl
    PROVE  /\ StreamsTypes'
           /\ st'["preview"] = st["preview"]
           /\ st'["capture"].exists = st["capture"].exists
           /\ st'["capture"].attached = st["capture"].attached \ {"JPEG"}
           /\ st'["capture"].count =
                 IF "JPEG" \in st["capture"].attached THEN st["capture"].count - 1
                                                      ELSE st["capture"].count
  <1>1. PICK r \in StreamRecs : r = st["capture"]
    BY DEF StreamsTypes
  <1>2. PICK d \in StreamRecs : d = Service!Detached(r, "JPEG")
    BY DetachedIsStream
  <1>3. /\ d.exists = r.exists /\ d.attached = r.attached \ {"JPEG"}
        /\ d.count = IF "JPEG" \in r.attached THEN r.count - 1 ELSE r.count
    BY <1>2, DetachedFields
  <1>4. PICK b \in StreamRecs : b = [d EXCEPT !.releasing = TRUE]
    BY DEF StreamRecs
  <1>5. b.exists = d.exists /\ b.attached = d.attached /\ b.count = d.count
    BY <1>4 DEF StreamRecs
  <1>6. /\ st' = [st EXCEPT !["capture"] = b] /\ UNCHANGED <<th, subs, zsl, videoNode>>
        /\ call' = [op |-> "zsl", at |-> "releaseCapture"]
    BY <1>1, <1>2, <1>4 DEF Service!ConvertToZsl
  <1>7. st' \in [{"preview", "capture"} -> StreamRecs] /\ st'["capture"] = b
        /\ st'["preview"] = st["preview"]
    BY <1>6 DEF StreamsTypes
  <1>8. call' \in CallRecs
    BY <1>6 DEF CallRecs
  <1>9. StreamsTypes'
    BY <1>6, <1>7, <1>8 DEF StreamsTypes
  <1> QED
    BY <1>1, <1>3, <1>5, <1>7, <1>9

\* The capture thread is the ZSL stream's from then on.
LEMMA ConvertedToZslDoes ==
    ASSUME StreamsTypes, Service!ConvertedToZsl
    PROVE  /\ StreamsTypes'
           /\ st'["preview"] = st["preview"]
           /\ st'["capture"].exists /\ st'["capture"].active
           /\ st'["capture"].attached = subs \cap {"JPEG"}
           /\ st'["capture"].count = 1 + CountOf(subs \cap {"JPEG"})
  <1>1. PICK r \in StreamRecs : r = st["capture"]
    BY DEF StreamsTypes
  <1>2. PICK w \in SUBSET SubStreams : w = subs \cap {"JPEG"}
    BY DEF StreamsTypes
  <1>3. PICK a \in StreamRecs : a = Service!Started(r, TRUE)
    BY StartedIsStream
  <1>4. a.exists /\ a.active /\ a.attached = {} /\ a.count = 1
    BY <1>3, StartedFields
  <1>5. PICK b \in StreamRecs : b = Service!Attached(a, w)
    BY AttachedIsStream
  <1>6. /\ b.exists = a.exists /\ b.active = a.active
        /\ b.attached = a.attached \cup w /\ b.count = a.count + CountOf(w)
    BY <1>5, AttachedFields
  <1>7. /\ st' = [st EXCEPT !["capture"] = b] /\ UNCHANGED <<th, subs, videoNode>>
        /\ zsl' \in BOOLEAN /\ call' = [op |-> "idle", at |-> "idle"]
    BY <1>1, <1>2, <1>3, <1>5 DEF Service!ConvertedToZsl, Service!Idle
  <1>8. st' \in [{"preview", "capture"} -> StreamRecs] /\ st'["capture"] = b
        /\ st'["preview"] = st["preview"]
    BY <1>7 DEF StreamsTypes
  <1>9. call' \in CallRecs
    BY <1>7 DEF CallRecs
  <1>10. StreamsTypes'
    BY <1>7, <1>8, <1>9 DEF StreamsTypes
  <1> QED
    BY <1>2, <1>4, <1>6, <1>8, <1>10

\* notifyRequestQueueNotEmpty, which the service calls while no other call of
\* its runs, and which allocates and releases nothing.
LEMMA NotifyLeaves ==
    ASSUME Service!Notify
    PROVE  /\ UNCHANGED <<subs, zsl, call>> /\ st["preview"].exists
           /\ call.op = "idle" /\ call.at = "idle"
  <1>1. UNCHANGED <<subs, zsl, call>> /\ st["preview"].exists /\ call = Service!Idle
    BY DEF Service!Notify, Service!Calls
  <1> QED
    BY ONLY <1>1 DEF Service!Idle

\* notifyRequestQueueNotEmpty.
LEMMA NotifyDoes ==
    ASSUME StreamsTypes, Service!Notify
    PROVE  /\ StreamsTypes'
           /\ st'["preview"] = st["preview"]
           /\ st'["capture"].exists /\ st'["capture"].active
           /\ st'["capture"].attached =
                 IF st["capture"].exists THEN st["capture"].attached ELSE {}
           /\ st'["capture"].count =
                 IF st["capture"].exists THEN st["capture"].count ELSE 1
           /\ th'["preview"] = th["preview"]
           /\ st["capture"].exists => th'["capture"] = th["capture"]
           /\ ~ st["capture"].exists => th'["capture"] = Service!NewThread
           /\ th'["sensor"] =
                 IF videoNode.isp \/ th["sensor"].life # "gone" THEN th["sensor"]
                 ELSE [th["sensor"] EXCEPT !.life = "wait"]
           /\ videoNode'.isp
           /\ "sensor" \in videoNode'.on <=>
                 "sensor" \in videoNode.on \/ ~ (videoNode.isp \/ videoNode.sensor)
           /\ "scp" \in videoNode'.on <=> "scp" \in videoNode.on
           /\ videoNode'.sensor <=> videoNode.sensor \/ ~ (videoNode.isp \/ videoNode.sensor)
  <1>1. PICK n \in NodeRecs :
            /\ n = IF videoNode.isp \/ videoNode.sensor THEN videoNode
                   ELSE [videoNode EXCEPT !.on = @ \cup {"sensor"}, !.sensor = TRUE]
            /\ n.isp = videoNode.isp
            /\ n.sensor <=> videoNode.sensor \/ ~ (videoNode.isp \/ videoNode.sensor)
            /\ "sensor" \in n.on <=>
                  "sensor" \in videoNode.on \/ ~ (videoNode.isp \/ videoNode.sensor)
            /\ "scp" \in n.on <=> "scp" \in videoNode.on
    <2>1. CASE videoNode.isp \/ videoNode.sensor
      BY <2>1 DEF StreamsTypes
    <2>2. CASE ~ (videoNode.isp \/ videoNode.sensor)
      <3>1. PICK o \in SUBSET {"scp", "capture", "sensor"} : o = videoNode.on \cup {"sensor"}
        BY DEF StreamsTypes, NodeRecs
      <3>2. PICK m \in NodeRecs : m = [videoNode EXCEPT !.on = o, !.sensor = TRUE]
        BY DEF StreamsTypes, NodeRecs
      <3>3. m.isp = videoNode.isp /\ m.sensor /\ m.on = o
        BY <3>2 DEF StreamsTypes, NodeRecs
      <3>4. m = [videoNode EXCEPT !.on = @ \cup {"sensor"}, !.sensor = TRUE]
        BY <3>1, <3>2
      <3> QED
        BY <2>2, <3>1, <3>3, <3>4
    <2> QED
      BY <2>1, <2>2
  <1> DEFINE new == Service!StartSCC(th, st, n)
             same == st["capture"].exists /\ st["capture"].active
  <1>2. PICK m \in NodeRecs :
            /\ m = [n EXCEPT !.on = @ \cup {"capture"}, !.capture = TRUE, !.suspended = FALSE]
            /\ m.isp = n.isp /\ m.sensor = n.sensor /\ m.on = n.on \cup {"capture"}
    <2>1. PICK o \in SUBSET {"scp", "capture", "sensor"} : o = n.on \cup {"capture"}
      BY DEF NodeRecs
    <2>2. PICK k \in NodeRecs : k = [n EXCEPT !.on = o, !.capture = TRUE]
      BY DEF NodeRecs
    <2>3. PICK m \in NodeRecs : m = [k EXCEPT !.suspended = FALSE]
      BY DEF NodeRecs
    <2>4. m.isp = n.isp /\ m.sensor = n.sensor /\ m.on = o
      BY <2>2, <2>3 DEF NodeRecs
    <2>5. m = [n EXCEPT !.on = @ \cup {"capture"}, !.capture = TRUE, !.suspended = FALSE]
      BY <2>1, <2>2, <2>3
    <2> QED
      BY <2>1, <2>4, <2>5
  <1>3. PICK ths, sts, k :
            /\ ths = IF same THEN th ELSE new.th
            /\ sts = IF same THEN st ELSE new.st
            /\ k = IF same THEN m ELSE new.node
    OBVIOUS
  <1>4. /\ new.th \in [{"preview", "capture", "sensor"} -> ThreadRecs]
        /\ new.th["preview"] = th["preview"] /\ new.th["sensor"] = th["sensor"]
        /\ st["capture"].exists => new.th = th
        /\ ~ st["capture"].exists => new.th["capture"] = Service!NewThread
        /\ new.st \in [{"preview", "capture"} -> StreamRecs]
        /\ new.st["preview"] = st["preview"]
        /\ new.st["capture"].exists /\ new.st["capture"].active
        /\ new.st["capture"].count =
              IF st["capture"].exists THEN st["capture"].count ELSE 1
        /\ new.st["capture"].attached =
              IF st["capture"].exists THEN st["capture"].attached ELSE {}
        /\ new.node \in NodeRecs
        /\ new.node.on = n.on \cup {"capture"} /\ new.node.isp = n.isp
        /\ new.node.sensor = n.sensor
    BY StartSCCFields
  <1>5. /\ st' = sts /\ videoNode' = [k EXCEPT !.isp = TRUE]
        /\ th' = IF videoNode.isp \/ Service!Alive("sensor") THEN ths
                 ELSE [ths EXCEPT !["sensor"].life = "wait"]
        /\ UNCHANGED <<subs, zsl, call>>
    BY <1>1, <1>2, <1>3 DEF Service!Notify
  <1> HIDE DEF new
  <1>6. /\ ths \in [{"preview", "capture", "sensor"} -> ThreadRecs]
        /\ ths["preview"] = th["preview"] /\ ths["sensor"] = th["sensor"]
        /\ st["capture"].exists => ths = th
        /\ ~ st["capture"].exists => ths["capture"] = Service!NewThread
    BY <1>3, <1>4 DEF StreamsTypes
  <1>7. /\ sts \in [{"preview", "capture"} -> StreamRecs]
        /\ sts["preview"] = st["preview"]
        /\ sts["capture"].exists /\ sts["capture"].active
        /\ sts["capture"].count = IF st["capture"].exists THEN st["capture"].count ELSE 1
        /\ sts["capture"].attached =
              IF st["capture"].exists THEN st["capture"].attached ELSE {}
    BY <1>3, <1>4 DEF StreamsTypes
  <1>8. k \in NodeRecs /\ k.sensor = n.sensor /\ k.on = n.on \cup {"capture"}
    BY <1>2, <1>3, <1>4
  <1>9. videoNode' \in NodeRecs /\ videoNode'.isp /\ videoNode'.sensor = k.sensor
        /\ videoNode'.on = k.on
    BY <1>5, <1>8 DEF NodeRecs
  <1>10. PICK t \in ThreadRecs : t = [ths["sensor"] EXCEPT !.life = "wait"]
    BY <1>6 DEF ThreadRecs
  <1>11. /\ th' \in [{"preview", "capture", "sensor"} -> ThreadRecs]
         /\ th'["preview"] = th["preview"] /\ th'["capture"] = ths["capture"]
         /\ th'["sensor"] = IF videoNode.isp \/ th["sensor"].life # "gone" THEN th["sensor"]
                            ELSE t
    BY <1>5, <1>6, <1>10 DEF Service!Alive
  <1>12. StreamsTypes'
    BY <1>5, <1>7, <1>9, <1>11 DEF StreamsTypes
  <1>13. "sensor" \in videoNode'.on <=> "sensor" \in n.on
    BY <1>8, <1>9
  <1>14. "scp" \in videoNode'.on <=> "scp" \in n.on
    BY <1>8, <1>9
  <1>15. videoNode'.sensor <=> n.sensor
    BY <1>8, <1>9
  <1>16. /\ st["capture"].exists => th'["capture"] = th["capture"]
         /\ ~ st["capture"].exists => th'["capture"] = Service!NewThread
    BY <1>6, <1>11
  <1>17. th'["sensor"] = IF videoNode.isp \/ th["sensor"].life # "gone" THEN th["sensor"]
                         ELSE [th["sensor"] EXCEPT !.life = "wait"]
    BY <1>6, <1>10, <1>11
  <1> QED
    BY <1>1, <1>5, <1>7, <1>9, <1>11, <1>12, <1>13, <1>14, <1>15, <1>16, <1>17

\* releaseStream of the ZSL stream.
LEMMA ReleaseZslDoes ==
    ASSUME StreamsTypes, Service!ReleaseZsl
    PROVE  /\ StreamsTypes'
           /\ st'["preview"] = st["preview"]
           /\ st'["capture"].exists = st["capture"].exists
           /\ st'["capture"].active = st["capture"].active
           /\ st'["capture"].attached = st["capture"].attached
           /\ st'["capture"].count = st["capture"].count - 1
           /\ ~ zsl' /\ call'.op = "zslOff" /\ call'.at = "capture"
  <1>1. PICK r \in StreamRecs : r = st["capture"]
    BY DEF StreamsTypes
  <1>2. PICK n \in Int : n = r.count - 1
    BY DEF StreamRecs
  <1>3. PICK b \in StreamRecs : b = [r EXCEPT !.count = n]
    BY DEF StreamRecs
  <1>4. b.exists = r.exists /\ b.active = r.active /\ b.attached = r.attached /\ b.count = n
    BY <1>3 DEF StreamRecs
  <1>5. st' = [st EXCEPT !["capture"] = b]
    BY <1>1, <1>2, <1>3 DEF Service!ReleaseZsl
  <1>6. /\ ~ zsl' /\ zsl' \in BOOLEAN /\ call' = [op |-> "zslOff", at |-> "capture"]
        /\ UNCHANGED <<th, subs, videoNode>>
    BY DEF Service!ReleaseZsl
  <1>7. /\ st' \in [{"preview", "capture"} -> StreamRecs] /\ st'["capture"] = b
        /\ st'["preview"] = st["preview"]
    BY <1>5 DEF StreamsTypes
  <1>8. call' \in CallRecs /\ call'.op = "zslOff" /\ call'.at = "capture"
    BY <1>6 DEF CallRecs
  <1>9. StreamsTypes'
    BY <1>6, <1>7, <1>8 DEF StreamsTypes
  <1> QED
    BY <1>1, <1>2, <1>4, <1>6, <1>7, <1>8, <1>9

\* A stream whose release begins.
LEMMA ReleaseBegins ==
    ASSUME StreamsTypes, NEW s \in {"preview", "capture"}, NEW a \in {"releaseCapture", "releasePreview"},
           st' = [st EXCEPT ![s].releasing = TRUE], call' = [call EXCEPT !.at = a]
    PROVE  /\ st' \in [{"preview", "capture"} -> StreamRecs]
           /\ call' \in CallRecs /\ call'.op = call.op /\ call'.at = a
           /\ \A u \in {"preview", "capture"} :
                 /\ st'[u].exists = st[u].exists /\ st'[u].active = st[u].active
                 /\ st'[u].init = st[u].init /\ st'[u].attached = st[u].attached
                 /\ st'[u].count = st[u].count
           /\ st'[s].releasing
  <1>1. PICK r \in StreamRecs : r = st[s]
    BY DEF StreamsTypes
  <1>2. PICK b \in StreamRecs : b = [r EXCEPT !.releasing = TRUE]
    BY DEF StreamRecs
  <1>3. /\ b.exists = r.exists /\ b.active = r.active /\ b.attached = r.attached
        /\ b.count = r.count /\ b.init = r.init /\ b.releasing
    BY <1>2 DEF StreamRecs
  <1>4. st' = [st EXCEPT ![s] = b]
    BY <1>1, <1>2
  <1>5. /\ st' \in [{"preview", "capture"} -> StreamRecs] /\ st'[s] = b
        /\ \A u \in {"preview", "capture"} \ {s} : st'[u] = st[u]
    BY <1>4 DEF StreamsTypes
  <1>6. call' \in CallRecs /\ call'.op = call.op /\ call'.at = a
    BY DEF StreamsTypes, CallRecs
  <1> QED
    BY <1>1, <1>3, <1>5, <1>6

\* m_sensorThreadFunc.
LEMMA SensorTurnDoes ==
    ASSUME StreamsTypes, Service!SensorTurn
    PROVE  /\ StreamsTypes'
           /\ UNCHANGED <<st, subs, zsl, call>>
           /\ th'["preview"] = th["preview"] /\ th'["capture"] = th["capture"]
           /\ th'["sensor"].life = "wait" /\ th'["sensor"].terminated = th["sensor"].terminated
           /\ "RELEASE" \in th["sensor"].turn =>
                 /\ th'["sensor"].q = Service!SetSignal(th["sensor"].q, "TERMINATE")
                 /\ videoNode' = [videoNode EXCEPT !.on = @ \ {"sensor"}, !.sensor = FALSE]
           /\ "RELEASE" \notin th["sensor"].turn =>
                 th'["sensor"].q = th["sensor"].q /\ UNCHANGED videoNode
  <1>1. PICK a \in ThreadRecs : a = [th["sensor"] EXCEPT !.life = "wait"]
    BY DEF StreamsTypes, ThreadRecs
  <1>2. a.life = "wait" /\ a.terminated = th["sensor"].terminated /\ a.q = th["sensor"].q
    BY <1>1 DEF StreamsTypes, ThreadRecs
  <1> DEFINE ths == [th EXCEPT !["sensor"] = a]
  <1>3. /\ ths \in [{"preview", "capture", "sensor"} -> ThreadRecs]
        /\ ths["preview"] = th["preview"] /\ ths["capture"] = th["capture"]
        /\ ths["sensor"] = a
    BY DEF StreamsTypes
  <1>4. UNCHANGED <<st, subs, zsl, call>>
    BY DEF Service!SensorTurn
  <1>5. CASE "RELEASE" \in th["sensor"].turn
    <2>1. /\ th' = Service!Sends(ths, "sensor", "TERMINATE")
          /\ videoNode' = [videoNode EXCEPT !.on = @ \ {"sensor"}, !.sensor = FALSE]
      BY <1>1, <1>5 DEF Service!SensorTurn
    <2>2. videoNode' \in NodeRecs
      BY <2>1 DEF StreamsTypes, NodeRecs
    <2> HIDE DEF ths
    <2>3. th' \in [{"preview", "capture", "sensor"} -> ThreadRecs]
      BY <1>3, <2>1, SentSignal DEF SignalNames
    <2>4. /\ th'["preview"] = th["preview"] /\ th'["capture"] = th["capture"]
          /\ th'["sensor"].life = a.life /\ th'["sensor"].terminated = a.terminated
          /\ th'["sensor"].q = Service!SetSignal(a.q, "TERMINATE")
      BY <1>3, <2>1 DEF Service!Sends, ThreadRecs
    <2>5. StreamsTypes'
      BY <1>4, <2>2, <2>3 DEF StreamsTypes
    <2> QED
      BY <1>2, <1>4, <1>5, <2>1, <2>4, <2>5
  <1>6. CASE "RELEASE" \notin th["sensor"].turn
    <2>1. th' = ths /\ UNCHANGED videoNode
      BY <1>1, <1>6 DEF Service!SensorTurn
    <2>2. StreamsTypes'
      BY <1>3, <1>4, <2>1 DEF StreamsTypes
    <2> QED
      BY <1>2, <1>3, <1>4, <1>6, <2>1, <2>2
  <1> QED
    BY <1>5, <1>6

\* The release branch of m_streamFunc_direct and m_streamFunc_indirect.
LEMMA StreamReleasesDoes ==
    ASSUME StreamsTypes, NEW s \in {"preview", "capture"}, Service!StreamReleases(s)
    PROVE  /\ StreamsTypes'
           /\ \A u \in {"preview", "capture"} :
                 /\ st'[u].exists = st[u].exists /\ st'[u].active = st[u].active
                 /\ st'[u].attached = st[u].attached /\ st'[u].count = st[u].count
                 /\ u # s => st'[u] = st[u]
           /\ ~ st'[s].init /\ ~ st'[s].releasing
           /\ th'["sensor"] = th["sensor"]
           /\ videoNode'.isp = videoNode.isp /\ videoNode'.sensor = videoNode.sensor
           /\ "sensor" \in videoNode'.on <=> "sensor" \in videoNode.on
           /\ "scp" \in videoNode'.on <=>
                 "scp" \in videoNode.on /\ ~ (s = "preview" /\ st["preview"].init)
  <1>1. PICK r \in StreamRecs : r = st[s]
    BY DEF StreamsTypes
  <1>2. PICK b \in StreamRecs : b = [r EXCEPT !.init = FALSE, !.releasing = FALSE]
    BY DEF StreamRecs
  <1>3. /\ b.exists = r.exists /\ b.active = r.active /\ b.attached = r.attached
        /\ b.count = r.count /\ ~ b.init /\ ~ b.releasing
    BY <1>2 DEF StreamRecs
  <1>4. st' = [st EXCEPT ![s] = b]
    BY <1>1, <1>2 DEF Service!StreamReleases
  <1>5. /\ st' \in [{"preview", "capture"} -> StreamRecs] /\ st'[s] = b
        /\ \A u \in {"preview", "capture"} \ {s} : st'[u] = st[u]
    BY <1>4 DEF StreamsTypes
  <1>6. th' = [th EXCEPT ![s].life = "released"] /\ UNCHANGED <<subs, zsl, call>>
    BY DEF Service!StreamReleases
  <1>7. th' \in [{"preview", "capture", "sensor"} -> ThreadRecs] /\ th'["sensor"] = th["sensor"]
    BY <1>6 DEF StreamsTypes, ThreadRecs
  <1>8. /\ videoNode' \in NodeRecs
        /\ videoNode'.isp = videoNode.isp /\ videoNode'.sensor = videoNode.sensor
        /\ "sensor" \in videoNode'.on <=> "sensor" \in videoNode.on
        /\ "scp" \in videoNode'.on <=>
              "scp" \in videoNode.on /\ ~ (s = "preview" /\ st["preview"].init)
    <2>1. videoNode \in NodeRecs
      BY DEF StreamsTypes
    <2>2. CASE ~ Service!TakesOff(s)
      <3>1. videoNode' = videoNode
        BY <2>2 DEF Service!StreamReleases
      <3>2. ~ (s = "preview" /\ st["preview"].init)
        BY <2>2 DEF Service!TakesOff
      <3> QED
        BY <2>1, <3>1, <3>2
    <2>3. CASE Service!TakesOff(s)
      <3>1. PICK x \in {"scp", "capture"} : x = IF s = "preview" THEN "scp" ELSE "capture"
        OBVIOUS
      <3>2. PICK o \in SUBSET {"scp", "capture", "sensor"} : o = videoNode.on \ {x}
        BY <2>1 DEF NodeRecs
      <3>3. PICK c \in BOOLEAN : c = (videoNode.capture /\ (s = "preview" \/ st[s].direct))
        BY Zenon
      <3>4. videoNode' = [videoNode EXCEPT !.on = o, !.capture = c]
        BY <2>3, <3>1, <3>2, <3>3 DEF Service!StreamReleases
      <3>5. /\ videoNode' \in NodeRecs /\ videoNode'.on = o
            /\ videoNode'.isp = videoNode.isp /\ videoNode'.sensor = videoNode.sensor
        BY <2>1, <3>4 DEF NodeRecs
      <3>6. st[s].init
        BY <2>3 DEF Service!TakesOff
      <3> QED
        BY <3>1, <3>2, <3>5, <3>6
    <2> QED
      BY <2>2, <2>3
  <1>9. StreamsTypes'
    BY <1>5, <1>6, <1>7, <1>8 DEF StreamsTypes
  <1>10. ASSUME NEW u \in {"preview", "capture"}
         PROVE  /\ st'[u].exists = st[u].exists /\ st'[u].active = st[u].active
                /\ st'[u].attached = st[u].attached /\ st'[u].count = st[u].count
                /\ u # s => st'[u] = st[u]
    BY <1>1, <1>3, <1>5
  <1> QED
    BY <1>3, <1>5, <1>7, <1>8, <1>9, <1>10

\* The first frame of a stream.
LEMMA StreamDataDoes ==
    ASSUME StreamsTypes, NEW s \in {"preview", "capture"}, Service!StreamData(s)
    PROVE  /\ StreamsTypes'
           /\ \A u \in {"preview", "capture"} :
                 /\ st'[u].exists = st[u].exists /\ st'[u].active = st[u].active
                 /\ st'[u].attached = st[u].attached /\ st'[u].count = st[u].count
                 /\ st'[u].releasing = st[u].releasing
                 /\ u # s => st'[u] = st[u]
           /\ st'[s].init
  <1>1. PICK r \in StreamRecs : r = st[s]
    BY DEF StreamsTypes
  <1>2. PICK b \in StreamRecs : b = [r EXCEPT !.init = TRUE]
    BY DEF StreamRecs
  <1>3. /\ b.exists = r.exists /\ b.active = r.active /\ b.attached = r.attached
        /\ b.count = r.count /\ b.init /\ b.releasing = r.releasing
    BY <1>2 DEF StreamRecs
  <1>4. st' = [st EXCEPT ![s] = b]
    BY <1>1, <1>2 DEF Service!StreamData
  <1>5. /\ st' \in [{"preview", "capture"} -> StreamRecs] /\ st'[s] = b
        /\ \A u \in {"preview", "capture"} \ {s} : st'[u] = st[u]
    BY <1>4 DEF StreamsTypes
  <1>6. th' = [th EXCEPT ![s].life = "subs"] /\ UNCHANGED <<subs, zsl, videoNode, call>>
    BY DEF Service!StreamData
  <1>7. th' \in [{"preview", "capture", "sensor"} -> ThreadRecs]
    BY <1>6 DEF StreamsTypes, ThreadRecs
  <1>8. StreamsTypes'
    BY <1>5, <1>6, <1>7 DEF StreamsTypes
  <1>9. ASSUME NEW u \in {"preview", "capture"}
        PROVE  /\ st'[u].exists = st[u].exists /\ st'[u].active = st[u].active
               /\ st'[u].attached = st[u].attached /\ st'[u].count = st[u].count
               /\ st'[u].releasing = st[u].releasing
               /\ u # s => st'[u] = st[u]
    BY <1>1, <1>3, <1>5
  <1> QED
    BY <1>3, <1>5, <1>8, <1>9

\* release of the camera.
LEMMA CloseTypes ==
    ASSUME StreamsTypes, Service!Close
    PROVE  StreamsTypes'
  <1>1. ASSUME NEW t \in {"preview", "capture", "sensor"}
        PROVE  (LET q == Service!SetSignal(th[t].q, "RELEASE")
                IN  [th[t] EXCEPT !.q = IF t = "sensor" THEN q
                                        ELSE Service!SetSignal(q, "TERMINATE")]) \in ThreadRecs
    <2>1. PICK w \in SignalWords : w = th[t].q
      BY DEF StreamsTypes, ThreadRecs
    <2>2. PICK q \in SignalWords : q = Service!SetSignal(w, "RELEASE")
      BY DEF Service!SetSignal, SignalWords, SignalNames
    <2>3. PICK v \in SignalWords : v = IF t = "sensor" THEN q ELSE Service!SetSignal(q, "TERMINATE")
      BY DEF Service!SetSignal, SignalWords, SignalNames
    <2>4. [th[t] EXCEPT !.q = v] \in ThreadRecs
      BY DEF StreamsTypes, ThreadRecs
    <2> QED
      BY <2>1, <2>2, <2>3, <2>4
  <1>2. Service!Threads = {"preview", "capture", "sensor"}
    BY DEF Service!Threads, Service!Streams
  <1>3. th' \in [{"preview", "capture", "sensor"} -> ThreadRecs]
    BY <1>1, <1>2 DEF Service!Close
  <1>4. UNCHANGED <<st, subs, zsl>> /\ videoNode' \in NodeRecs /\ call' \in CallRecs
    BY DEF StreamsTypes, Service!Close, NodeRecs, CallRecs
  <1> QED
    BY <1>3, <1>4 DEF StreamsTypes

\* The call decides about the capture thread,
LEMMA DecideCaptureDoes ==
    ASSUME StreamsTypes, Service!DecideCapture
    PROVE  /\ UNCHANGED <<th, subs, zsl, videoNode>>
           /\ call.at = "capture" /\ call'.op = call.op
           /\ call'.at \in {"releaseCapture", "previewThread"}
           /\ call'.at = "releaseCapture" => st["capture"].count = 0
           /\ \A u \in {"preview", "capture"} :
                 /\ st'[u].exists = st[u].exists /\ st'[u].active = st[u].active
                 /\ st'[u].init = st[u].init /\ st'[u].attached = st[u].attached
                 /\ st'[u].count = st[u].count
           /\ StreamsTypes'
  <1>1. UNCHANGED <<th, subs, zsl, videoNode>> /\ call.at = "capture"
    BY DEF Service!DecideCapture
  <1>2. CASE st["capture"].count = 0 /\ st["capture"].active
    <2>1. /\ st' = [st EXCEPT !["capture"].releasing = TRUE]
          /\ call' = [call EXCEPT !.at = "releaseCapture"]
      BY <1>2 DEF Service!DecideCapture
    <2> QED
      BY <1>1, <1>2, <2>1, ReleaseBegins DEF StreamsTypes
  <1>3. CASE ~ (st["capture"].count = 0 /\ st["capture"].active)
    <2>1. UNCHANGED st /\ call' = [call EXCEPT !.at = "previewThread"]
      BY <1>3 DEF Service!DecideCapture
    <2> QED
      BY <1>1, <2>1 DEF StreamsTypes, CallRecs
  <1> QED
    BY <1>2, <1>3

\* and about the preview thread.
LEMMA DecidePreviewDoes ==
    ASSUME StreamsTypes, Service!DecidePreview
    PROVE  /\ UNCHANGED <<th, subs, zsl, videoNode>>
           /\ call.at = "previewThread"
           /\ \/ /\ call'.op = call.op /\ call'.at = "releasePreview"
                 /\ st'["preview"].releasing
                 /\ \/ call.op = "preview"
                    \/ st["preview"].exists /\ st["preview"].count = 0
              \/ /\ call'.op = "idle" /\ call'.at = "idle" /\ call.op # "preview"
           /\ \A u \in {"preview", "capture"} :
                 /\ st'[u].exists = st[u].exists /\ st'[u].active = st[u].active
                 /\ st'[u].init = st[u].init /\ st'[u].attached = st[u].attached
                 /\ st'[u].count = st[u].count
           /\ StreamsTypes'
  <1> DEFINE ends == \/ call.op = "preview"
                     \/ st["preview"].exists /\ st["preview"].count = 0
                        /\ st["preview"].active
  <1>1. UNCHANGED <<th, subs, zsl, videoNode>> /\ call.at = "previewThread"
    BY DEF Service!DecidePreview
  <1>2. CASE ends
    <2>1. /\ st' = [st EXCEPT !["preview"].releasing = TRUE]
          /\ call' = [call EXCEPT !.at = "releasePreview"]
      BY <1>2 DEF Service!DecidePreview
    <2> QED
      BY <1>1, <1>2, <2>1, ReleaseBegins DEF StreamsTypes
  <1>3. CASE ~ ends
    <2>1. UNCHANGED st /\ call' = [op |-> "idle", at |-> "idle"]
      BY <1>3 DEF Service!DecidePreview, Service!Idle
    <2> QED
      BY <1>1, <1>3, <2>1 DEF StreamsTypes, CallRecs
  <1> QED
    BY <1>2, <1>3

\* How many sub-streams there are at most,
LEMMA CountOfBounds ==
    ASSUME NEW S \in SUBSET SubStreams
    PROVE  CountOf(S) \in 0 .. 3 /\ CountOf(S) \in Int /\ CountOf({}) = 0
  BY DEF CountOf

\* and when one comes or goes.
LEMMA CountOfOne ==
    ASSUME NEW S \in SUBSET SubStreams, NEW x \in SubStreams
    PROVE  /\ CountOf({x}) = 1
           /\ CountOf(S \cup {x}) = IF x \in S THEN CountOf(S) ELSE CountOf(S) + 1
           /\ CountOf(S \ {x}) = IF x \in S THEN CountOf(S) - 1 ELSE CountOf(S)
  <1>1. x \in {"RECORD", "PRVCB", "JPEG"}
    BY StreamsAssumption
  <1>2. CASE x = "RECORD"
    BY <1>2 DEF CountOf
  <1>3. CASE x = "PRVCB"
    BY <1>3 DEF CountOf
  <1>4. CASE x = "JPEG"
    BY <1>4 DEF CountOf
  <1> QED
    BY <1>1, <1>2, <1>3, <1>4

\* What a thread has that is sent a signal.
LEMMA SentDoes ==
    ASSUME StreamsTypes, NEW t \in {"preview", "capture", "sensor"}, NEW x \in SignalNames,
           th' = Service!Sends(th, t, x)
    PROVE  /\ \A u \in {"preview", "capture", "sensor"} \ {t} : th'[u] = th[u]
           /\ th'[t].life = th[t].life /\ th'[t].turn = th[t].turn
           /\ th'[t].terminated = th[t].terminated
           /\ th'[t].q.received = th[t].q.received \cup {x}
           /\ th'[t].q.pending = IF x \in th[t].q.received THEN th[t].q.pending \cup {x}
                                                           ELSE th[t].q.pending
  <1>1. PICK r \in ThreadRecs : r = th[t]
    BY DEF StreamsTypes
  <1>2. PICK w \in SignalWords : w = r.q
    BY DEF ThreadRecs
  <1>3. PICK v \in SignalWords : v = Service!SetSignal(w, x)
    BY DEF Service!SetSignal, SignalWords
  <1>4. /\ v.received = w.received \cup {x}
        /\ v.pending = IF x \in w.received THEN w.pending \cup {x} ELSE w.pending
    BY <1>3 DEF Service!SetSignal, SignalWords
  <1>5. PICK s \in ThreadRecs : s = [r EXCEPT !.q = v]
    BY DEF ThreadRecs
  <1>6. /\ s.life = r.life /\ s.turn = r.turn /\ s.terminated = r.terminated /\ s.q = v
    BY <1>5 DEF ThreadRecs
  <1>7. th' = [th EXCEPT ![t] = s]
    BY <1>1, <1>2, <1>3, <1>5 DEF Service!Sends
  <1>8. th'[t] = s /\ \A u \in {"preview", "capture", "sensor"} \ {t} : th'[u] = th[u]
    BY <1>7 DEF StreamsTypes
  <1> QED
    BY <1>1, <1>2, <1>4, <1>6, <1>8

\* A frame comes only to a thread that has none, so it is on its way at once.
LEMMA FrameDoes ==
    ASSUME StreamsTypes, NEW s \in {"preview", "capture"}, Service!Frame(s)
    PROVE  /\ st' = st /\ subs' = subs /\ zsl' = zsl /\ videoNode' = videoNode /\ call' = call
           /\ st[s].exists /\ "sensor" \in videoNode.on /\ ~ th["sensor"].terminated
           /\ \A u \in {"preview", "capture", "sensor"} \ {s} : th'[u] = th[u]
           /\ th'[s].life = th[s].life /\ th'[s].turn = th[s].turn
           /\ th'[s].terminated = th[s].terminated
           /\ th'[s].q.received = th[s].q.received \cup {"DATA"}
           /\ th'[s].q.pending = th[s].q.pending
           /\ \A u \in {"preview", "capture", "sensor"} : Clean(u)' <=> Clean(u)
  <1>1. /\ st' = st /\ subs' = subs /\ zsl' = zsl /\ videoNode' = videoNode /\ call' = call
        /\ st[s].exists /\ "sensor" \in videoNode.on /\ ~ th["sensor"].terminated
        /\ "DATA" \notin th[s].q.received /\ th' = Service!Sends(th, s, "DATA")
    BY DEF Service!Frame
  <1>2. /\ \A u \in {"preview", "capture", "sensor"} \ {s} : th'[u] = th[u]
        /\ th'[s].life = th[s].life /\ th'[s].turn = th[s].turn
        /\ th'[s].terminated = th[s].terminated
        /\ th'[s].q.received = th[s].q.received \cup {"DATA"}
        /\ th'[s].q.pending = th[s].q.pending
    BY <1>1, SentDoes DEF SignalNames
  <1>3. ASSUME NEW u \in {"preview", "capture", "sensor"}
        PROVE  Clean(u)' <=> Clean(u)
    <2>1. CASE u = s
      BY ONLY <1>2, <2>1 DEF Clean, Ends
    <2>2. CASE u # s
      <3>1. th'[u] = th[u]
        BY <1>2, <2>2
      <3> QED
        BY ONLY <3>1 DEF Clean
    <2> QED
      BY <2>1, <2>2
  <1> QED
    BY <1>1, <1>2, <1>3

\* ... and no thread is disturbed by it but for the signal.
LEMMA FrameLeaves ==
    ASSUME StreamsTypes, NEW s \in {"preview", "capture"}, Service!Frame(s)
    PROVE  \A u \in {"preview", "capture", "sensor"} :
              /\ th'[u].life = th[u].life /\ th'[u].turn = th[u].turn
              /\ th'[u].terminated = th[u].terminated /\ th'[u].q.pending = th[u].q.pending
              /\ th'[u].q.received = th[u].q.received
                 \/ th'[u].q.received = th[u].q.received \cup {"DATA"}
              /\ Clean(u)' <=> Clean(u)
  <1>1. \A u \in {"preview", "capture", "sensor"} : u = s \/ th'[u] = th[u]
    BY FrameDoes
  <1>2. /\ th'[s].life = th[s].life /\ th'[s].turn = th[s].turn
        /\ th'[s].terminated = th[s].terminated /\ th'[s].q.pending = th[s].q.pending
        /\ th'[s].q.received = th[s].q.received \cup {"DATA"}
        /\ \A u \in {"preview", "capture", "sensor"} : Clean(u)' <=> Clean(u)
    BY FrameDoes
  <1> QED
    BY ONLY <1>1, <1>2

\* The turn that a thread takes.
LEMMA TakeDoes ==
    ASSUME StreamsTypes, NEW t \in {"preview", "capture", "sensor"}, Service!Take(t)
    PROVE  /\ UNCHANGED <<st, subs, zsl, videoNode, call>>
           /\ \A u \in {"preview", "capture", "sensor"} \ {t} : th'[u] = th[u]
           /\ th[t].life = "wait"
           /\ th'[t].life = IF "TERMINATE" \in th[t].q.received THEN "gone" ELSE "turn"
           /\ th'[t].turn = th[t].q.received
           /\ th'[t].terminated <=> "TERMINATE" \in th[t].q.received
           /\ th'[t].q.received = th[t].q.pending /\ th'[t].q.pending = {}
  BY DEF StreamsTypes, Service!Take, Service!TurnOf, Service!AfterTurn, ThreadRecs, SignalWords

\* release of the camera sends every thread its end.
LEMMA CloseDoes ==
    ASSUME StreamsTypes, Service!Close
    PROVE  /\ UNCHANGED <<st, subs, zsl>>
           /\ call.op = "idle" /\ call'.op = "close" /\ call'.at = "ends"
           /\ videoNode'.on = videoNode.on /\ videoNode'.isp = videoNode.isp
           /\ videoNode'.sensor = videoNode.sensor
           /\ \A t \in {"preview", "capture", "sensor"} :
                 /\ th'[t].life = th[t].life /\ th'[t].turn = th[t].turn
                 /\ th'[t].terminated = th[t].terminated
           /\ th'["sensor"].q.pending = IF "RELEASE" \in th["sensor"].q.received
                                        THEN th["sensor"].q.pending \cup {"RELEASE"}
                                        ELSE th["sensor"].q.pending
  <1>1. Service!Threads = {"preview", "capture", "sensor"}
    BY DEF Service!Threads, Service!Streams
  <1>2. UNCHANGED <<st, subs, zsl>> /\ call = [op |-> "idle", at |-> "idle"]
        /\ call' = [op |-> "close", at |-> "ends"] /\ videoNode' = [videoNode EXCEPT !.csc = FALSE]
    BY DEF Service!Close, Service!Calls, Service!Idle
  <1>3. ASSUME NEW t \in {"preview", "capture", "sensor"}
        PROVE  /\ th'[t].life = th[t].life /\ th'[t].turn = th[t].turn
               /\ th'[t].terminated = th[t].terminated
               /\ t = "sensor" => th'[t].q = Service!SetSignal(th[t].q, "RELEASE")
    <2>1. PICK r \in ThreadRecs : r = th[t]
      BY DEF StreamsTypes
    <2> DEFINE q == Service!SetSignal(th[t].q, "RELEASE")
               v == IF t = "sensor" THEN q ELSE Service!SetSignal(q, "TERMINATE")
    <2>2. th'[t] = [r EXCEPT !.q = v]
      BY <1>1, <2>1 DEF Service!Close
    <2>3. t = "sensor" => v = q
      OBVIOUS
    <2> HIDE DEF v
    <2>4. th'[t].life = r.life /\ th'[t].turn = r.turn /\ th'[t].terminated = r.terminated
          /\ th'[t].q = v
      BY <2>2 DEF ThreadRecs
    <2> QED
      BY <2>1, <2>3, <2>4
  <1>4. th'["sensor"].q.pending = IF "RELEASE" \in th["sensor"].q.received
                                  THEN th["sensor"].q.pending \cup {"RELEASE"}
                                  ELSE th["sensor"].q.pending
    <2>1. PICK w \in SignalWords : w = th["sensor"].q
      BY DEF StreamsTypes, ThreadRecs
    <2>2. th'["sensor"].q = Service!SetSignal(w, "RELEASE")
      BY <1>3, <2>1
    <2> QED
      BY <2>1, <2>2 DEF Service!SetSignal, SignalWords
  <1>5. call.op = "idle" /\ call'.op = "close" /\ call'.at = "ends"
    BY <1>2
  <1>6. videoNode'.on = videoNode.on /\ videoNode'.isp = videoNode.isp
        /\ videoNode'.sensor = videoNode.sensor
    BY <1>2 DEF StreamsTypes, NodeRecs
  <1> QED
    BY <1>2, <1>3, <1>4, <1>5, <1>6

\* releaseStream of the preview.
LEMMA ReleasePreviewDoes ==
    ASSUME StreamsTypes, Service!ReleasePreview
    PROVE  /\ UNCHANGED <<subs, zsl, videoNode>> /\ st["preview"].exists
           /\ Service!MayRelease("preview")
           /\ call.op = "idle" /\ call'.op = "preview" /\ call'.at = "sensor"
           /\ Settled => \A t \in {"preview", "capture", "sensor"} : Service!AtRest(t)
           /\ st'["capture"] = st["capture"]
           /\ st'["preview"].exists = st["preview"].exists
           /\ st'["preview"].active = st["preview"].active
           /\ st'["preview"].init = st["preview"].init
           /\ th' = Service!Sends(th, "sensor", "RELEASE")
           /\ th'["preview"] = th["preview"] /\ th'["capture"] = th["capture"]
           /\ th'["sensor"].life = th["sensor"].life /\ th'["sensor"].turn = th["sensor"].turn
           /\ th'["sensor"].terminated = th["sensor"].terminated
           /\ th'["sensor"].q.received = th["sensor"].q.received \cup {"RELEASE"}
           /\ th'["sensor"].q.pending = IF "RELEASE" \in th["sensor"].q.received
                                        THEN th["sensor"].q.pending \cup {"RELEASE"}
                                        ELSE th["sensor"].q.pending
  <1>1. /\ UNCHANGED <<subs, zsl, videoNode>> /\ st["preview"].exists
        /\ Service!MayRelease("preview") /\ call = [op |-> "idle", at |-> "idle"]
        /\ call' = [op |-> "preview", at |-> "sensor"]
        /\ th' = Service!Sends(th, "sensor", "RELEASE")
        /\ st' = [st EXCEPT !["preview"].count = @ - 1]
    BY DEF Service!ReleasePreview, Service!Calls, Service!Idle
  <1>2. Settled => \A t \in {"preview", "capture", "sensor"} : Service!AtRest(t)
    BY DEF Service!ReleasePreview, Service!Calls, Service!Threads, Service!Streams
  <1>3. /\ st'["capture"] = st["capture"] /\ st'["preview"].exists = st["preview"].exists
        /\ st'["preview"].active = st["preview"].active
        /\ st'["preview"].init = st["preview"].init
    BY <1>1 DEF StreamsTypes, StreamRecs
  <1>4. call.op = "idle" /\ call'.op = "preview" /\ call'.at = "sensor"
    BY <1>1
  <1>5. /\ th'["preview"] = th["preview"] /\ th'["capture"] = th["capture"]
        /\ th'["sensor"].life = th["sensor"].life /\ th'["sensor"].turn = th["sensor"].turn
        /\ th'["sensor"].terminated = th["sensor"].terminated
        /\ th'["sensor"].q.received = th["sensor"].q.received \cup {"RELEASE"}
        /\ th'["sensor"].q.pending = IF "RELEASE" \in th["sensor"].q.received
                                     THEN th["sensor"].q.pending \cup {"RELEASE"}
                                     ELSE th["sensor"].q.pending
    BY <1>1, SentDoes DEF SignalNames
  <1> QED
    BY <1>1, <1>2, <1>3, <1>4, <1>5

\* The types, of a step.
LEMMA StreamsTypesKept ==
    ASSUME StreamsTypes, Service!Next
    PROVE  StreamsTypes'
  <1>0. /\ th \in [{"preview", "capture", "sensor"} -> ThreadRecs]
        /\ st \in [{"preview", "capture"} -> StreamRecs]
        /\ subs \subseteq SubStreams /\ zsl \in BOOLEAN
        /\ videoNode \in NodeRecs /\ call \in CallRecs
    BY DEF StreamsTypes
  <1>1. CASE Service!AllocatePreview
    BY <1>1, AllocatePreviewDoes
  <1>2. ASSUME NEW sub \in SubStreams \ {"JPEG"}, Service!AllocateSub(sub)
        PROVE  StreamsTypes'
    BY <1>2, AllocateSubDoes
  <1>3. CASE Service!AllocateJpeg
    BY <1>3, AllocateJpegDoes
  <1>4. CASE Service!AllocateZsl
    BY <1>4, AllocateZslDoes
  <1>5. CASE Service!ConvertToZsl
    BY <1>5, ConvertToZslDoes
  <1>6. ASSUME NEW s \in {"preview", "capture"}, Service!Register(s)
        PROVE  StreamsTypes'
    BY <1>6 DEF StreamsTypes, Service!Register, NodeRecs
  <1>7. ASSUME NEW sub \in SubStreams, Service!ReleaseSub(sub)
        PROVE  StreamsTypes'
    BY <1>7, ReleaseSubDoes
  <1>8. CASE Service!Notify
    BY <1>8, NotifyDoes
  <1>9. CASE Service!ReleasePreview
    BY <1>9, SentSignal DEF StreamsTypes, Service!ReleasePreview, StreamRecs, CallRecs,
                            SignalNames
  <1>10. CASE Service!ReleaseZsl
    BY <1>10, ReleaseZslDoes
  <1>11. CASE Service!Close
    BY <1>11, CloseTypes
  <1>12. CASE Service!ConvertedToZsl
    BY <1>12, ConvertedToZslDoes
  <1>13. CASE Service!SensorEnded
    BY <1>13 DEF StreamsTypes, Service!SensorEnded, CallRecs
  <1>14. CASE Service!DecideCapture
    BY <1>14, DecideCaptureDoes
  <1>15. CASE Service!PollCapture
    BY <1>15, SentSignal DEF StreamsTypes, Service!PollCapture, CallRecs, SignalNames
  <1>16. CASE Service!CheckCapture
    BY <1>16 DEF StreamsTypes, Service!CheckCapture, CallRecs
  <1>17. CASE Service!CaptureReleased
    BY <1>17 DEF StreamsTypes, Service!CaptureReleased, CallRecs, NodeRecs
  <1>18. CASE Service!DecidePreview
    BY <1>18, DecidePreviewDoes
  <1>19. CASE Service!PollPreview
    BY <1>19, SentSignal DEF StreamsTypes, Service!PollPreview, CallRecs, SignalNames
  <1>20. CASE Service!CheckPreview
    BY <1>20, SentSignal DEF StreamsTypes, Service!CheckPreview, CallRecs, SignalNames
  <1>21. CASE Service!PreviewEnded
    BY <1>21, NoStreamIsStream DEF StreamsTypes, Service!PreviewEnded, CallRecs, NodeRecs,
                                   Service!Idle
  <1>22. CASE Service!Closed
    BY <1>22 DEF StreamsTypes, Service!Closed, CallRecs
  <1>23. CASE Service!SensorTurn
    BY <1>23, SensorTurnDoes
  <1>24. CASE Service!Work
    BY <1>24, SentSignal DEF StreamsTypes, Service!Work, SignalNames
  <1>25. ASSUME NEW t \in {"preview", "capture", "sensor"}, Service!Take(t)
        PROVE  StreamsTypes'
    BY <1>25 DEF StreamsTypes, Service!Take, Service!TurnOf, Service!AfterTurn, ThreadRecs,
                 SignalWords
  <1>26. ASSUME NEW s \in {"preview", "capture"}, Service!StreamReleases(s)
        PROVE  StreamsTypes'
    BY <1>26, StreamReleasesDoes
  <1>27. ASSUME NEW s \in {"preview", "capture"}, Service!StreamReleased(s)
        PROVE  StreamsTypes'
    <2>1. /\ st' = [st EXCEPT ![s].active = FALSE] /\ th' = [th EXCEPT ![s].life = "wait"]
          /\ UNCHANGED <<subs, zsl, videoNode, call>>
      BY <1>27 DEF Service!StreamReleased
    <2>2. st[s] \in StreamRecs /\ th[s] \in ThreadRecs
      BY DEF StreamsTypes
    <2>3. PICK a \in StreamRecs : a = [st[s] EXCEPT !.active = FALSE]
      BY ONLY <2>2 DEF StreamRecs
    <2>4. PICK r \in ThreadRecs : r = [th[s] EXCEPT !.life = "wait"]
      BY ONLY <2>2 DEF ThreadRecs
    <2>5. st' = [st EXCEPT ![s] = a] /\ th' = [th EXCEPT ![s] = r]
      BY ONLY <2>1, <2>3, <2>4
    <2>6. st' \in [{"preview", "capture"} -> StreamRecs]
      BY ONLY <2>5, <1>0
    <2>7. th' \in [{"preview", "capture", "sensor"} -> ThreadRecs]
      BY ONLY <2>5, <1>0
    <2> QED
      BY ONLY <1>0, <2>1, <2>6, <2>7 DEF StreamsTypes
  <1>28. ASSUME NEW s \in {"preview", "capture"}, Service!StreamData(s)
        PROVE  StreamsTypes'
    BY <1>28, StreamDataDoes
  <1>29. ASSUME NEW s \in {"preview", "capture"}, Service!StreamHandled(s)
        PROVE  StreamsTypes'
    BY <1>29 DEF StreamsTypes, Service!StreamHandled, ThreadRecs
  <1>30. ASSUME NEW s \in {"preview", "capture"}, Service!Frame(s)
        PROVE  StreamsTypes'
    BY <1>30, SentSignal DEF StreamsTypes, Service!Frame, SignalNames
  <1> QED
    BY <1>1, <1>2, <1>3, <1>4, <1>5, <1>6, <1>7, <1>8, <1>9, <1>10, <1>11, <1>12, <1>13, <1>14,
       <1>15, <1>16, <1>17, <1>18, <1>19, <1>20, <1>21, <1>22, <1>23, <1>24, <1>25, <1>26, <1>27,
       <1>28, <1>29, <1>30
       DEF Service!Next, Service!ServiceCalls,
       Service!CallSteps, Service!StreamSteps, Service!Streams, Service!Threads

\* The places of a call, of a step.
LEMMA CallPlacesKept ==
    ASSUME StreamsInv, StreamsTypes', Service!Next
    PROVE  CallPlaces'
  <1> USE DEF StreamsInv, StreamsTypes, CallPlaces
  <1>1. CASE Service!AllocatePreview
    BY <1>1 DEF Service!AllocatePreview
  <1>2. ASSUME NEW sub \in SubStreams \ {"JPEG"}, Service!AllocateSub(sub)
        PROVE  CallPlaces'
    BY <1>2 DEF Service!AllocateSub
  <1>3. CASE Service!AllocateJpeg
    BY <1>3 DEF Service!AllocateJpeg
  <1>4. CASE Service!AllocateZsl
    BY <1>4 DEF Service!AllocateZsl, Service!Idle, Service!Calls
  <1>5. CASE Service!ConvertToZsl
    BY <1>5 DEF Service!ConvertToZsl
  <1>6. ASSUME NEW s \in {"preview", "capture"}, Service!Register(s)
        PROVE  CallPlaces'
    BY <1>6 DEF Service!Register
  <1>7. ASSUME NEW sub \in SubStreams, Service!ReleaseSub(sub)
        PROVE  CallPlaces'
    BY <1>7 DEF Service!ReleaseSub
  <1>8. CASE Service!Notify
    BY <1>8 DEF Service!Notify
  <1>9. CASE Service!ReleasePreview
    BY <1>9 DEF Service!ReleasePreview
  <1>10. CASE Service!ReleaseZsl
    BY <1>10, ReleaseZslDoes
  <1>11. CASE Service!Close
    BY <1>11, CloseDoes
  <1>12. CASE Service!ConvertedToZsl
    BY <1>12 DEF Service!ConvertedToZsl, Service!Idle
  <1>13. CASE Service!SensorEnded
    BY <1>13 DEF Service!SensorEnded
  <1>14. CASE Service!DecideCapture
    <2>1. CountOf(st["capture"].attached) \in 0 .. 3
      BY CountOfBounds DEF StreamRecs
    <2>2. zsl => st["capture"].count # 0
      BY <2>1 DEF Counted
    <2> QED
      BY <1>14, <2>2, DecideCaptureDoes DEF CallRecs
  <1>15. CASE Service!PollCapture
    BY <1>15 DEF Service!PollCapture
  <1>16. CASE Service!CheckCapture
    BY <1>16 DEF Service!CheckCapture
  <1>17. CASE Service!CaptureReleased
    BY <1>17 DEF Service!CaptureReleased
  <1>18. CASE Service!DecidePreview
    <2>1. CountOf(st["preview"].attached) \in 0 .. 3
      BY CountOfBounds DEF StreamRecs
    <2>2. call.op # "preview" /\ st["preview"].exists => st["preview"].count # 0
      BY <2>1 DEF Counted
    <2> QED
      BY <1>18, <2>2, DecidePreviewDoes DEF CallRecs
  <1>19. CASE Service!PollPreview
    BY <1>19 DEF Service!PollPreview
  <1>20. CASE Service!CheckPreview
    BY <1>20 DEF Service!CheckPreview, CallRecs
  <1>21. CASE Service!PreviewEnded
    BY <1>21 DEF Service!PreviewEnded, Service!Idle
  <1>22. CASE Service!Closed
    BY <1>22 DEF Service!Closed
  <1>23. CASE Service!SensorTurn
    BY <1>23, SensorTurnDoes
  <1>24. CASE Service!Work
    BY <1>24 DEF Service!Work
  <1>25. ASSUME NEW t \in {"preview", "capture", "sensor"}, Service!Take(t)
        PROVE  CallPlaces'
    BY <1>25, TakeDoes
  <1>26. ASSUME NEW s \in {"preview", "capture"}, Service!StreamReleases(s)
        PROVE  CallPlaces'
    BY <1>26 DEF Service!StreamReleases
  <1>27. ASSUME NEW s \in {"preview", "capture"}, Service!StreamReleased(s)
        PROVE  CallPlaces'
    BY <1>27 DEF Service!StreamReleased
  <1>28. ASSUME NEW s \in {"preview", "capture"}, Service!StreamData(s)
        PROVE  CallPlaces'
    BY <1>28 DEF Service!StreamData
  <1>29. ASSUME NEW s \in {"preview", "capture"}, Service!StreamHandled(s)
        PROVE  CallPlaces'
    BY <1>29 DEF Service!StreamHandled
  <1>30. ASSUME NEW s \in {"preview", "capture"}, Service!Frame(s)
        PROVE  CallPlaces'
    BY <1>30 DEF Service!Frame
  <1> QED
    BY <1>1, <1>2, <1>3, <1>4, <1>5, <1>6, <1>7, <1>8, <1>9, <1>10, <1>11, <1>12, <1>13, <1>14,
       <1>15, <1>16, <1>17, <1>18, <1>19, <1>20, <1>21, <1>22, <1>23, <1>24, <1>25, <1>26, <1>27,
       <1>28, <1>29, <1>30
       DEF Service!Next, Service!ServiceCalls,
       Service!CallSteps, Service!StreamSteps, Service!Streams, Service!Threads

\* A stream thread serves the sub-streams of its stream, of a step:
\* what allocateStream and releaseStream attach and detach is what is allocated.
LEMMA ServedKept ==
    ASSUME StreamsInv, StreamsTypes', Service!Next
    PROVE  Served'
  <1> USE DEF StreamsInv, StreamsTypes, CallPlaces, Served
  <1>0. Served
    OBVIOUS
  <1>1. CASE Service!AllocatePreview
    BY <1>1, AllocatePreviewDoes, StreamsAssumption DEF Service!AllocatePreview
  <1>2. ASSUME NEW sub \in SubStreams \ {"JPEG"}, Service!AllocateSub(sub)
        PROVE  Served'
    <2>1. /\ UNCHANGED <<th, zsl, videoNode, call>> /\ subs' = subs \cup {sub}
          /\ call.op = "idle"
      BY <1>2 DEF Service!AllocateSub, Service!Calls, Service!Idle
    <2>2. /\ st'["capture"] = st["capture"]
          /\ st'["preview"].exists = st["preview"].exists
          /\ st'["preview"].attached = st["preview"].attached \cup {sub}
      BY <1>2, AllocateSubDoes
    <2>3. sub # "JPEG"
      OBVIOUS
    <2> HIDE <1>2
    <2> QED
      BY <2>1, <2>2, <2>3 DEF Served
  <1>3. CASE Service!AllocateJpeg
    BY <1>3, AllocateJpegDoes DEF Service!AllocateJpeg
  <1>4. CASE Service!AllocateZsl
    <2>1. /\ UNCHANGED <<subs, call>> /\ ~ st["capture"].exists
      BY <1>4 DEF Service!AllocateZsl
    <2>2. "JPEG" \notin subs
      BY <2>1 DEF Served
    <2> QED
      BY <1>4, <2>1, <2>2, AllocateZslDoes DEF Served
  <1>5. CASE Service!ConvertToZsl
    BY <1>5, ConvertToZslDoes DEF Service!ConvertToZsl
  <1>6. ASSUME NEW s \in {"preview", "capture"}, Service!Register(s)
        PROVE  Served'
    BY <1>6 DEF Service!Register
  <1>7. ASSUME NEW sub \in SubStreams, Service!ReleaseSub(sub)
        PROVE  Served'
    <2>1. UNCHANGED <<th, zsl, videoNode, call>> /\ subs' = subs \ {sub}
      BY <1>7 DEF Service!ReleaseSub
    <2>2. CASE sub = "JPEG"
      <3>1. Service!Parent(sub) = "capture"
        BY ONLY <2>2 DEF Service!Parent
      <3>2. /\ st'["capture"].exists = st["capture"].exists /\ st'["preview"] = st["preview"]
            /\ st'["capture"].attached = st["capture"].attached \ {sub}
        BY <1>7, <3>1, ReleaseSubDoes
      <3> QED
        BY ONLY <1>0, <2>1, <2>2, <3>2 DEF Served
    <2>3. CASE sub # "JPEG"
      <3>1. Service!Parent(sub) = "preview"
        BY ONLY <2>3 DEF Service!Parent
      <3>2. /\ st'["preview"].exists = st["preview"].exists /\ st'["capture"] = st["capture"]
            /\ st'["preview"].attached = st["preview"].attached \ {sub}
        BY <1>7, <3>1, ReleaseSubDoes
      <3> QED
        BY ONLY <1>0, <2>1, <2>3, <3>2 DEF Served
    <2> QED
      BY <2>2, <2>3
  <1>8. CASE Service!Notify
    <2>1. subs' = subs /\ zsl' = zsl /\ call' = call /\ call.op = "idle"
      BY <1>8, NotifyLeaves
    <2>2. /\ st'["preview"] = st["preview"] /\ st'["capture"].exists
          /\ st'["capture"].attached =
                IF st["capture"].exists THEN st["capture"].attached ELSE {}
      BY <1>8, NotifyDoes
    <2>3. st'["capture"].attached = subs \cap {"JPEG"} /\ st'["capture"].attached \subseteq {"JPEG"}
      <3>1. CASE st["capture"].exists
        BY ONLY <2>1, <2>2, <3>1, <1>0 DEF Served
      <3>2. CASE ~ st["capture"].exists
        BY ONLY <2>1, <2>2, <3>2, <1>0 DEF Served
      <3> QED
        BY ONLY <3>1, <3>2
    <2> QED
      BY ONLY <2>1, <2>2, <2>3, <1>0 DEF Served
  <1>9. CASE Service!ReleasePreview
    BY <1>9 DEF Service!ReleasePreview, Service!Idle, Service!Calls
  <1>10. CASE Service!ReleaseZsl
    BY <1>10 DEF Service!ReleaseZsl
  <1>11. CASE Service!Close
    BY <1>11, CloseDoes
  <1>12. CASE Service!ConvertedToZsl
    BY <1>12, ConvertedToZslDoes DEF Service!ConvertedToZsl
  <1>13. CASE Service!SensorEnded
    BY <1>13 DEF Service!SensorEnded
  <1>14. CASE Service!DecideCapture
    BY <1>14, DecideCaptureDoes
  <1>15. CASE Service!PollCapture
    BY <1>15 DEF Service!PollCapture
  <1>16. CASE Service!CheckCapture
    BY <1>16 DEF Service!CheckCapture
  <1>17. CASE Service!CaptureReleased
    BY <1>17 DEF Service!CaptureReleased
  <1>18. CASE Service!DecidePreview
    BY <1>18, DecidePreviewDoes
  <1>19. CASE Service!PollPreview
    BY <1>19 DEF Service!PollPreview
  <1>20. CASE Service!CheckPreview
    BY <1>20 DEF Service!CheckPreview, CallRecs
  <1>21. CASE Service!PreviewEnded
    BY <1>21 DEF Service!PreviewEnded, Service!Idle, Service!NoStream
  <1>22. CASE Service!Closed
    BY <1>22 DEF Service!Closed
  <1>23. CASE Service!SensorTurn
    BY <1>23, SensorTurnDoes
  <1>24. CASE Service!Work
    BY <1>24 DEF Service!Work
  <1>25. ASSUME NEW t \in {"preview", "capture", "sensor"}, Service!Take(t)
        PROVE  Served'
    BY <1>25, TakeDoes
  <1>26. ASSUME NEW s \in {"preview", "capture"}, Service!StreamReleases(s)
        PROVE  Served'
    BY <1>26 DEF Service!StreamReleases
  <1>27. ASSUME NEW s \in {"preview", "capture"}, Service!StreamReleased(s)
        PROVE  Served'
    BY <1>27 DEF Service!StreamReleased
  <1>28. ASSUME NEW s \in {"preview", "capture"}, Service!StreamData(s)
        PROVE  Served'
    BY <1>28 DEF Service!StreamData
  <1>29. ASSUME NEW s \in {"preview", "capture"}, Service!StreamHandled(s)
        PROVE  Served'
    BY <1>29 DEF Service!StreamHandled
  <1>30. ASSUME NEW s \in {"preview", "capture"}, Service!Frame(s)
        PROVE  Served'
    BY <1>30 DEF Service!Frame
  <1> QED
    BY <1>1, <1>2, <1>3, <1>4, <1>5, <1>6, <1>7, <1>8, <1>9, <1>10, <1>11, <1>12, <1>13, <1>14,
       <1>15, <1>16, <1>17, <1>18, <1>19, <1>20, <1>21, <1>22, <1>23, <1>24, <1>25, <1>26, <1>27,
       <1>28, <1>29, <1>30
       DEF Service!Next, Service!ServiceCalls,
       Service!CallSteps, Service!StreamSteps, Service!Streams, Service!Threads

\* The count of a stream is that of its sub-streams and its own, of a step.
LEMMA CountedKept ==
    ASSUME StreamsInv, StreamsTypes', Service!Next
    PROVE  Counted'
  <1> USE DEF StreamsInv, StreamsTypes, CallPlaces, Service!Idle
  <1>0. Counted
    OBVIOUS
  <1>1. CASE Service!AllocatePreview
    <2>1. UNCHANGED <<zsl, subs, call>> /\ call.op = "idle"
      BY <1>1 DEF Service!AllocatePreview, Service!Calls, Service!Idle
    <2> QED
      BY <1>1, <2>1, AllocatePreviewDoes DEF Counted
  <1>2. ASSUME NEW sub \in SubStreams \ {"JPEG"}, Service!AllocateSub(sub)
        PROVE  Counted'
    <2>1. UNCHANGED <<zsl, call>> /\ sub \notin subs /\ st["preview"].exists
      BY <1>2 DEF Service!AllocateSub
    <2>2. PICK a \in SUBSET SubStreams : a = st["preview"].attached
      BY DEF StreamRecs
    <2>3. CountOf({sub}) = 1 /\ CountOf(a \cup {sub}) = CountOf(a) + 1 /\ CountOf(a) \in Int
      BY <2>1, <2>2, CountOfOne, CountOfBounds DEF Served
    <2>4. /\ st'["capture"] = st["capture"] /\ st'["preview"].exists
          /\ st'["preview"].attached = a \cup {sub}
          /\ st'["preview"].count = st["preview"].count + 1
      BY <1>2, <2>1, <2>2, <2>3, AllocateSubDoes
    <2> QED
      BY <2>1, <2>2, <2>3, <2>4 DEF Counted, StreamRecs
  <1>3. CASE Service!AllocateJpeg
    <2>1. UNCHANGED <<zsl, call>> /\ "JPEG" \in SubStreams \ subs /\ call.op = "idle"
      BY <1>3 DEF Service!AllocateJpeg, Service!Calls, Service!Idle
    <2>2. PICK a \in SUBSET SubStreams :
              a = IF st["capture"].exists THEN st["capture"].attached ELSE {}
      BY DEF StreamRecs
    <2>3. PICK c \in Int : c = IF st["capture"].exists THEN st["capture"].count ELSE 1
      BY DEF StreamRecs
    <2>4. "JPEG" \notin a
      BY <2>1, <2>2 DEF Served
    <2>5. CountOf(a \cup {"JPEG"}) = CountOf(a) + 1
      BY <2>1, <2>4, CountOfOne
    <2>8. CountOf(a) \in Int /\ CountOf({}) = 0
      BY CountOfBounds
    <2>6. c - CountOf(a) \in {0, 1} /\ (zsl => c = CountOf(a) + 1)
      BY <2>2, <2>3, <2>8 DEF Counted
    <2>7. /\ st'["preview"] = st["preview"] /\ st'["capture"].exists
          /\ st'["capture"].attached = a \cup {"JPEG"} /\ st'["capture"].count = c + 1
      BY <1>3, <2>2, <2>3, AllocateJpegDoes
    <2>9. st'["capture"].count - CountOf(st'["capture"].attached) = c - CountOf(a)
      BY ONLY <2>3, <2>5, <2>7, <2>8
    <2>10. st'["capture"].count - CountOf(st'["capture"].attached) \in {0, 1}
      BY ONLY <2>6, <2>9
    <2>11. zsl => st'["capture"].count = CountOf(st'["capture"].attached) + 1
      BY ONLY <2>3, <2>5, <2>6, <2>7, <2>8
    <2> QED
      BY ONLY <1>0, <2>1, <2>7, <2>10, <2>11 DEF Counted
  <1>4. CASE Service!AllocateZsl
    <2>1. UNCHANGED <<subs, call>>
      BY <1>4 DEF Service!AllocateZsl
    <2>2. CountOf({}) = 0
      BY DEF CountOf
    <2>3. /\ st'["preview"] = st["preview"] /\ st'["capture"].exists
          /\ st'["capture"].attached = {} /\ st'["capture"].count = 1
      BY <1>4, AllocateZslDoes
    <2> QED
      BY ONLY <1>0, <2>1, <2>2, <2>3 DEF Counted
  <1>5. CASE Service!ConvertToZsl
    <2>1. /\ UNCHANGED zsl /\ ~ zsl /\ st["capture"].exists /\ call.op = "idle"
          /\ call' = [op |-> "zsl", at |-> "releaseCapture"]
      BY <1>5 DEF Service!ConvertToZsl, Service!Calls, Service!Idle
    <2>2. PICK a \in SUBSET SubStreams : a = st["capture"].attached
      BY DEF StreamRecs
    <2>3. /\ CountOf(a) \in Int
          /\ CountOf(a \ {"JPEG"}) = IF "JPEG" \in a THEN CountOf(a) - 1 ELSE CountOf(a)
      <3>1. CASE "JPEG" \in a
        BY <3>1, CountOfOne, CountOfBounds
      <3>2. CASE "JPEG" \notin a
        <4>1. a \ {"JPEG"} = a
          BY <3>2
        <4> QED
          BY <3>2, <4>1, CountOfBounds
      <3> QED
        BY <3>1, <3>2
    <2>4. /\ st'["preview"] = st["preview"] /\ st'["capture"].exists
          /\ st'["capture"].attached = a \ {"JPEG"}
          /\ st'["capture"].count = IF "JPEG" \in a THEN st["capture"].count - 1
                                                    ELSE st["capture"].count
      BY <1>5, <2>1, <2>2, ConvertToZslDoes
    <2>5. st["capture"].count - CountOf(a) \in {0, 1} /\ st["capture"].count \in Int
      BY <2>2 DEF Counted, StreamRecs
    <2>6. st'["capture"].count - CountOf(a \ {"JPEG"}) \in {0, 1}
      BY <2>3, <2>4, <2>5
    <2>7. call'.op = "zsl"
      BY <2>1
    <2> QED
      BY <2>1, <2>4, <2>6, <2>7 DEF Counted
  <1>6. ASSUME NEW s \in {"preview", "capture"}, Service!Register(s)
        PROVE  Counted'
    BY <1>6 DEF Service!Register, Counted
  <1>7. ASSUME NEW sub \in SubStreams, Service!ReleaseSub(sub)
        PROVE  Counted'
    <2>1. UNCHANGED <<zsl, call>> /\ sub \in subs
      BY <1>7 DEF Service!ReleaseSub
    <2>2. PICK p \in {"preview", "capture"} : p = Service!Parent(sub)
      BY DEF Service!Parent
    <2>3. PICK a \in SUBSET SubStreams : a = st[p].attached
      BY DEF StreamRecs
    <2>4. /\ CountOf(a) \in Int
          /\ CountOf(a \ {sub}) = IF sub \in a THEN CountOf(a) - 1 ELSE CountOf(a)
      BY CountOfOne, CountOfBounds
    <2>5. /\ st'[p].attached = a \ {sub}
          /\ st'[p].count = IF sub \in a THEN st[p].count - 1 ELSE st[p].count
      BY <1>7, <2>2, <2>3, ReleaseSubDoes
    <2>6. /\ st'[p].exists = st[p].exists
          /\ \A s \in {"preview", "capture"} \ {p} : st'[s] = st[s]
      BY <1>7, <2>2, ReleaseSubDoes
    <2>7. st[p].count \in Int /\ st[p].exists \in BOOLEAN
      BY DEF StreamRecs
    <2>8. st'[p].count - CountOf(st'[p].attached) = st[p].count - CountOf(a)
      BY <2>4, <2>5, <2>7
    <2>9. ~ st[p].exists => st'[p].count = 0
      <3>1. CASE p = "preview"
        BY <2>3, <2>5, <3>1 DEF Counted
      <3>2. CASE p = "capture"
        <4>1. sub = "JPEG"
          BY <2>2, <3>2 DEF Service!Parent
        <4> QED
          BY <2>1, <3>2, <4>1 DEF Served
      <3> QED
        BY <3>1, <3>2
    <2>12. st'[p].count \in Int /\ CountOf(st'[p].attached) \in Int
      BY <2>4, <2>5, <2>7
    <2>10. CASE p = "preview"
      <3>1. st'["preview"].exists => st'["preview"].count - CountOf(st'["preview"].attached)
                                         = (IF call.op = "preview" THEN 0 ELSE 1)
        BY <2>3, <2>4, <2>6, <2>7, <2>8, <2>10 DEF Counted
      <3>2. ~ st'["preview"].exists => st'["preview"].attached = {}
        BY <2>3, <2>5, <2>6, <2>10 DEF Counted
      <3> QED
        BY <2>1, <2>6, <2>9, <2>10, <2>12, <3>1, <3>2 DEF Counted
    <2>11. CASE p = "capture"
      <3>1. st'["capture"].count - CountOf(st'["capture"].attached) \in {0, 1}
        BY <2>3, <2>8, <2>11 DEF Counted
      <3>2. zsl => st'["capture"].count - CountOf(st'["capture"].attached) = 1
        <4>1. CountOf(a) \in Int /\ st["capture"].count \in Int /\ a = st["capture"].attached
              /\ st'["capture"].count - CountOf(st'["capture"].attached)
                    = st["capture"].count - CountOf(a)
          BY ONLY <2>3, <2>4, <2>7, <2>8, <2>11
        <4> QED
          BY ONLY <1>0, <4>1 DEF Counted
      <3> QED
        BY <2>1, <2>6, <2>9, <2>11, <2>12, <3>1, <3>2 DEF Counted
    <2> QED
      BY <2>10, <2>11
  <1>8. CASE Service!Notify
    <2>1. zsl' = zsl /\ call' = call
      BY <1>8, NotifyLeaves
    <2>2. /\ st'["preview"] = st["preview"] /\ st'["capture"].exists
          /\ st'["capture"].attached =
                IF st["capture"].exists THEN st["capture"].attached ELSE {}
          /\ st'["capture"].count =
                IF st["capture"].exists THEN st["capture"].count ELSE 1
      BY <1>8, NotifyDoes
    <2>3. zsl => st["capture"].exists
      BY DEF Served
    <2>4. CASE st["capture"].exists
      BY ONLY <2>1, <2>2, <2>4, <1>0 DEF Counted
    <2>5. CASE ~ st["capture"].exists
      <3>1. CountOf(st'["capture"].attached) = 0 /\ st'["capture"].count = 1
        BY ONLY <2>2, <2>5 DEF CountOf
      <3> QED
        BY ONLY <2>1, <2>2, <2>3, <2>5, <3>1, <1>0 DEF Counted
    <2> QED
      BY ONLY <2>4, <2>5
  <1>9. CASE Service!ReleasePreview
    BY <1>9 DEF Service!ReleasePreview, Service!Calls, CountOf, Counted
  <1>10. CASE Service!ReleaseZsl
    BY <1>10 DEF Service!ReleaseZsl, Service!Calls, CountOf, Counted
  <1>11. CASE Service!Close
    BY <1>11, CloseDoes DEF Counted
  <1>12. CASE Service!ConvertedToZsl
    <2>1. call' = [op |-> "idle", at |-> "idle"] /\ call.op = "zsl"
      BY <1>12 DEF Service!ConvertedToZsl, Service!Idle
    <2>2. PICK w \in SUBSET SubStreams : w = subs \cap {"JPEG"}
      OBVIOUS
    <2>3. CountOf(w) \in Int
      BY CountOfBounds
    <2>4. /\ st'["preview"] = st["preview"] /\ st'["capture"].exists
          /\ st'["capture"].attached = w /\ st'["capture"].count = 1 + CountOf(w)
      BY <1>12, <2>2, ConvertedToZslDoes
    <2>5. call'.op = "idle"
      BY <2>1
    <2> QED
      BY <2>1, <2>3, <2>4, <2>5 DEF Counted
  <1>13. CASE Service!SensorEnded
    BY <1>13 DEF Service!SensorEnded, Counted
  <1>14. CASE Service!DecideCapture
    BY <1>14, DecideCaptureDoes DEF Counted
  <1>15. CASE Service!PollCapture
    BY <1>15 DEF Service!PollCapture, Counted
  <1>16. CASE Service!CheckCapture
    BY <1>16 DEF Service!CheckCapture, Counted
  <1>17. CASE Service!CaptureReleased
    BY <1>17 DEF Service!CaptureReleased, Counted
  <1>18. CASE Service!DecidePreview
    BY <1>18, DecidePreviewDoes DEF Counted
  <1>19. CASE Service!PollPreview
    BY <1>19 DEF Service!PollPreview, Counted
  <1>20. CASE Service!CheckPreview
    BY <1>20 DEF Service!CheckPreview, CallRecs, Counted
  <1>21. CASE Service!PreviewEnded
    BY <1>21 DEF Service!PreviewEnded, Service!NoStream, Counted
  <1>22. CASE Service!Closed
    BY <1>22 DEF Service!Closed, Counted
  <1>23. CASE Service!SensorTurn
    BY <1>23, SensorTurnDoes DEF Counted
  <1>24. CASE Service!Work
    BY <1>24 DEF Service!Work, Counted
  <1>25. ASSUME NEW t \in {"preview", "capture", "sensor"}, Service!Take(t)
        PROVE  Counted'
    BY <1>25, TakeDoes DEF Counted
  <1>26. ASSUME NEW s \in {"preview", "capture"}, Service!StreamReleases(s)
        PROVE  Counted'
    <2>1. UNCHANGED <<zsl, call>>
      BY <1>26 DEF Service!StreamReleases
    <2> QED
      BY <1>26, <2>1, StreamReleasesDoes DEF Counted
  <1>27. ASSUME NEW s \in {"preview", "capture"}, Service!StreamReleased(s)
        PROVE  Counted'
    BY <1>27 DEF Service!StreamReleased, Counted
  <1>28. ASSUME NEW s \in {"preview", "capture"}, Service!StreamData(s)
        PROVE  Counted'
    BY <1>28 DEF Service!StreamData, Counted
  <1>29. ASSUME NEW s \in {"preview", "capture"}, Service!StreamHandled(s)
        PROVE  Counted'
    BY <1>29 DEF Service!StreamHandled, Counted
  <1>30. ASSUME NEW s \in {"preview", "capture"}, Service!Frame(s)
        PROVE  Counted'
    BY <1>30 DEF Service!Frame, Counted
  <1> QED
    BY <1>1, <1>2, <1>3, <1>4, <1>5, <1>6, <1>7, <1>8, <1>9, <1>10, <1>11, <1>12, <1>13, <1>14,
       <1>15, <1>16, <1>17, <1>18, <1>19, <1>20, <1>21, <1>22, <1>23, <1>24, <1>25, <1>26, <1>27,
       <1>28, <1>29, <1>30
       DEF Service!Next, Service!ServiceCalls,
       Service!CallSteps, Service!StreamSteps, Service!Streams, Service!Threads

\* The capture thread, of a step.
LEMMA CaptureFollowsKept ==
    ASSUME StreamsInv, StreamsTypes', Settled, FirstFrames, Service!Next
    PROVE  CaptureFollows'
  <1> USE DEF StreamsInv, StreamsTypes, CallPlaces, CaptureFollows
  <1>1. CASE Service!AllocatePreview
    BY <1>1 DEF Service!AllocatePreview, Clean
  <1>2. ASSUME NEW sub \in SubStreams \ {"JPEG"}, Service!AllocateSub(sub)
        PROVE  CaptureFollows'
    BY <1>2 DEF Service!AllocateSub, Clean
  <1>3. CASE Service!AllocateJpeg
    <2>1. UNCHANGED <<zsl, call>>
      BY <1>3 DEF Service!AllocateJpeg
    <2>2. zsl => st["capture"].exists
      BY DEF Served
    <2>3. CASE st["capture"].exists
      BY <1>3, <2>1, <2>3, AllocateJpegDoes DEF Clean
    <2>4. CASE ~ st["capture"].exists
      BY <1>3, <2>1, <2>2, <2>4, AllocateJpegDoes, NewThreadFields
    <2> QED
      BY <2>3, <2>4
  <1>4. CASE Service!AllocateZsl
    BY <1>4, AllocateZslDoes, NewThreadFields DEF Clean
  <1>5. CASE Service!ConvertToZsl
    BY <1>5 DEF Service!ConvertToZsl, Service!Idle, Service!Calls
  <1>6. ASSUME NEW s \in {"preview", "capture"}, Service!Register(s)
        PROVE  CaptureFollows'
    BY <1>6 DEF Service!Register, Clean
  <1>7. ASSUME NEW sub \in SubStreams, Service!ReleaseSub(sub)
        PROVE  CaptureFollows'
    <2>1. CaptureFollows /\ th' = th /\ zsl' = zsl /\ videoNode' = videoNode /\ call' = call
      BY <1>7, ReleaseSubLeaves
    <2>2. \A s \in {"preview", "capture"} :
              /\ st'[s].exists = st[s].exists /\ st'[s].active = st[s].active
              /\ st'[s].init = st[s].init /\ st'[s].releasing = st[s].releasing
      BY <1>7, ReleaseSubDoes
    <2>3. \A t : Clean(t)' <=> Clean(t)
      BY ONLY <2>1 DEF Clean
    <2> QED
      BY ONLY <2>1, <2>2, <2>3 DEF CaptureFollows
  <1>8. CASE Service!Notify
    <2>1. UNCHANGED <<zsl, call>>
      BY <1>8 DEF Service!Notify
    <2>2. zsl => st["capture"].exists
      BY DEF Served
    <2>3. CASE st["capture"].exists
      BY <1>8, <2>1, <2>3, NotifyDoes DEF Clean
    <2>4. CASE ~ st["capture"].exists
      BY <1>8, <2>1, <2>2, <2>4, NotifyDoes, NewThreadFields
    <2> QED
      BY <2>3, <2>4
  <1>9. CASE Service!ReleasePreview
    BY <1>9, SentDoes DEF Service!ReleasePreview, SignalNames, Clean, Service!Idle, Service!Calls
  <1>10. CASE Service!ReleaseZsl
    BY <1>10 DEF Service!ReleaseZsl, Service!Idle, Service!Calls
  <1>11. CASE Service!Close
    BY <1>11, CloseDoes
  <1>12. CASE Service!ConvertedToZsl
    <2>1. /\ UNCHANGED th /\ Service!AtRest("capture") /\ call.op = "zsl"
          /\ call' = [op |-> "idle", at |-> "idle"]
      BY <1>12 DEF Service!ConvertedToZsl, Service!Idle
    <2>2. th["capture"].life # "gone"
      BY <2>1 DEF Served
    <2>3. Clean("capture")
      BY <2>1, <2>2 DEF Service!AtRest, Clean, Ends
    <2> QED
      BY <1>12, <2>1, <2>2, <2>3, ConvertedToZslDoes DEF Clean
  <1>13. CASE Service!SensorEnded
    BY <1>13 DEF Service!SensorEnded, Clean
  <1>14. CASE Service!DecideCapture
    BY <1>14, DecideCaptureDoes DEF Clean
  <1>15. CASE Service!PollCapture
    BY <1>15, SentDoes DEF Service!PollCapture, SignalNames
  <1>16. CASE Service!CheckCapture
    BY <1>16 DEF Service!CheckCapture
  <1>17. CASE Service!CaptureReleased
    BY <1>17 DEF Service!CaptureReleased
  <1>18. CASE Service!DecidePreview
    BY <1>18, DecidePreviewDoes DEF Clean
  <1>19. CASE Service!PollPreview
    BY <1>19, SentDoes DEF Service!PollPreview, SignalNames, Clean
  <1>20. CASE Service!CheckPreview
    BY <1>20, SentDoes DEF Service!CheckPreview, SignalNames, Clean
  <1>21. CASE Service!PreviewEnded
    BY <1>21 DEF Service!PreviewEnded, Clean
  <1>22. CASE Service!Closed
    BY <1>22 DEF Service!Closed
  <1>23. CASE Service!SensorTurn
    BY <1>23, SensorTurnDoes DEF Clean
  <1>24. CASE Service!Work
    BY <1>24, SentDoes DEF Service!Work, SignalNames, Clean
  <1>25. ASSUME NEW t \in {"preview", "capture", "sensor"}, Service!Take(t)
        PROVE  CaptureFollows'
    BY <1>25, TakeDoes DEF Clean
  <1>26. ASSUME NEW s \in {"preview", "capture"}, Service!StreamReleases(s)
        PROVE  CaptureFollows'
    BY <1>26 DEF Service!StreamReleases, Clean, Ends
  <1>27. ASSUME NEW s \in {"preview", "capture"}, Service!StreamReleased(s)
        PROVE  CaptureFollows'
    BY <1>27 DEF Service!StreamReleased, Clean
  <1>28. ASSUME NEW s \in {"preview", "capture"}, Service!StreamData(s)
        PROVE  CaptureFollows'
    BY <1>28 DEF Service!StreamData, Clean
  <1>29. ASSUME NEW s \in {"preview", "capture"}, Service!StreamHandled(s)
        PROVE  CaptureFollows'
    BY <1>29 DEF Service!StreamHandled, Clean
  <1>30. ASSUME NEW s \in {"preview", "capture"}, Service!Frame(s)
        PROVE  CaptureFollows'
    <2>0. CaptureFollows
      OBVIOUS
    <2>s. StreamsTypes /\ s \in {"preview", "capture"}
      OBVIOUS
    <2>1. st' = st /\ subs' = subs /\ zsl' = zsl /\ videoNode' = videoNode /\ call' = call
      BY ONLY <1>30, <2>s, FrameDoes
    <2>2. \A u \in {"preview", "capture", "sensor"} :
               /\ th'[u].life = th[u].life /\ th'[u].turn = th[u].turn
               /\ th'[u].terminated = th[u].terminated /\ th'[u].q.pending = th[u].q.pending
               /\ th'[u].q.received = th[u].q.received
                  \/ th'[u].q.received = th[u].q.received \cup {"DATA"}
               /\ Clean(u)' <=> Clean(u)
      BY ONLY <1>30, <2>s, FrameLeaves
    <2> QED
      BY ONLY <2>0, <2>1, <2>2 DEF CaptureFollows, Ends
  <1> QED
    BY <1>1, <1>2, <1>3, <1>4, <1>5, <1>6, <1>7, <1>8, <1>9, <1>10, <1>11, <1>12, <1>13, <1>14,
       <1>15, <1>16, <1>17, <1>18, <1>19, <1>20, <1>21, <1>22, <1>23, <1>24, <1>25, <1>26, <1>27,
       <1>28, <1>29, <1>30
       DEF Service!Next, Service!ServiceCalls,
       Service!CallSteps, Service!StreamSteps, Service!Streams, Service!Threads

\* The preview's thread, of a step.
LEMMA PreviewFollowsKept ==
    ASSUME StreamsInv, StreamsTypes', Settled, FirstFrames, Service!Next
    PROVE  PreviewFollows'
  <1> USE DEF StreamsInv, StreamsTypes, CallPlaces, PreviewFollows
  <1>0. PreviewFollows
    OBVIOUS
  <1>1. CASE Service!AllocatePreview
    BY <1>1, AllocatePreviewDoes, NewThreadFields DEF Service!AllocatePreview, Clean,
                                                      Service!Idle, Service!Calls
  <1>2. ASSUME NEW sub \in SubStreams \ {"JPEG"}, Service!AllocateSub(sub)
        PROVE  PreviewFollows'
    BY <1>2, AllocateSubDoes DEF Service!AllocateSub, Clean
  <1>3. CASE Service!AllocateJpeg
    BY <1>3, AllocateJpegDoes DEF Service!AllocateJpeg, Clean
  <1>4. CASE Service!AllocateZsl
    BY <1>4 DEF Service!AllocateZsl, Clean
  <1>5. CASE Service!ConvertToZsl
    BY <1>5 DEF Service!ConvertToZsl, Clean, Service!Idle, Service!Calls
  <1>6. ASSUME NEW s \in {"preview", "capture"}, Service!Register(s)
        PROVE  PreviewFollows'
    BY <1>6 DEF Service!Register, Clean, Service!Idle, Service!Calls
  <1>7. ASSUME NEW sub \in SubStreams, Service!ReleaseSub(sub)
        PROVE  PreviewFollows'
    <2>1. PreviewFollows /\ th' = th /\ zsl' = zsl /\ videoNode' = videoNode /\ call' = call
      BY <1>7, ReleaseSubLeaves
    <2>2. \A s \in {"preview", "capture"} :
              /\ st'[s].exists = st[s].exists /\ st'[s].active = st[s].active
              /\ st'[s].init = st[s].init /\ st'[s].releasing = st[s].releasing
      BY <1>7, ReleaseSubDoes
    <2>3. \A t : Clean(t)' <=> Clean(t)
      BY ONLY <2>1 DEF Clean
    <2> QED
      BY ONLY <2>1, <2>2, <2>3 DEF PreviewFollows
  <1>8. CASE Service!Notify
    <2>1. call' = call /\ call.op = "idle" /\ call.at = "idle" /\ st["preview"].exists
      BY <1>8, NotifyLeaves
    <2>2. /\ st'["preview"] = st["preview"] /\ th'["preview"] = th["preview"]
          /\ "scp" \in videoNode'.on <=> "scp" \in videoNode.on
      BY <1>8, NotifyDoes
    <2>3. Clean("preview")' <=> Clean("preview")
      BY ONLY <2>2 DEF Clean
    <2> QED
      BY ONLY <2>1, <2>2, <2>3, <1>0 DEF PreviewFollows
  <1>9. CASE Service!ReleasePreview
    <2>1. Clean("preview") /\ th["preview"].life # "gone" /\ st["preview"].active
      BY <1>9, ReleasePreviewDoes
    <2>2. st["preview"].init
      BY <1>9, ReleasePreviewDoes DEF Service!MayRelease
    <2> QED
      BY <1>9, <2>1, <2>2, ReleasePreviewDoes DEF Clean
  <1>10. CASE Service!ReleaseZsl
    BY <1>10 DEF Service!ReleaseZsl, Clean, Service!Idle, Service!Calls
  <1>11. CASE Service!Close
    BY <1>11, CloseDoes
  <1>12. CASE Service!ConvertedToZsl
    BY <1>12 DEF Service!ConvertedToZsl, Clean, Service!Idle
  <1>13. CASE Service!SensorEnded
    BY <1>13 DEF Service!SensorEnded, Clean
  <1>14. CASE Service!DecideCapture
    BY <1>14, DecideCaptureDoes DEF Clean
  <1>15. CASE Service!PollCapture
    BY <1>15, SentDoes DEF Service!PollCapture, SignalNames, Clean
  <1>16. CASE Service!CheckCapture
    BY <1>16 DEF Service!CheckCapture, Clean
  <1>17. CASE Service!CaptureReleased
    BY <1>17 DEF Service!CaptureReleased, Clean
  <1>18. CASE Service!DecidePreview
    <2>1. CountOf(st["preview"].attached) \in 0 .. 3
      BY CountOfBounds DEF StreamRecs
    <2>2. call.op # "preview" /\ st["preview"].exists => st["preview"].count # 0
      BY <2>1 DEF Counted
    <2>3. CASE call'.at = "releasePreview"
      <3>1. call'.op = call.op /\ call.op = "preview" /\ st'["preview"].releasing
            /\ call.at = "previewThread"
        BY <1>18, <2>2, <2>3, DecidePreviewDoes
      <3>2. st["preview"].init /\ Clean("preview") /\ st["preview"].exists
            /\ th["preview"].life # "gone"
        BY <3>1
      <3>3. "TERMINATE" \notin th["preview"].q.received \cup th["preview"].q.pending
            /\ (th["preview"].life = "turn" => "TERMINATE" \notin th["preview"].turn)
        BY <3>2 DEF Clean, Ends
      <3> QED
        BY <1>18, <2>3, <3>1, <3>2, <3>3, DecidePreviewDoes
    <2>4. CASE call'.at # "releasePreview"
      <3>1. call'.op = "idle" /\ call'.at = "idle" /\ call.op # "preview"
            /\ call.at = "previewThread"
        BY <1>18, <2>4, DecidePreviewDoes
      <3> QED
        BY <1>18, <3>1, DecidePreviewDoes DEF Clean
    <2> QED
      BY <2>3, <2>4
  <1>19. CASE Service!PollPreview
    BY <1>19, SentDoes DEF Service!PollPreview, SignalNames
  <1>20. CASE Service!CheckPreview
    BY <1>20, SentDoes DEF Service!CheckPreview, CallRecs, SignalNames
  <1>21. CASE Service!PreviewEnded
    BY <1>21 DEF Service!PreviewEnded, Service!Idle, Service!NoStream
  <1>22. CASE Service!Closed
    BY <1>22 DEF Service!Closed
  <1>23. CASE Service!SensorTurn
    <2>1. "scp" \in videoNode'.on <=> "scp" \in videoNode.on
      <3>1. CASE "RELEASE" \in th["sensor"].turn
        <4>1. videoNode' = [videoNode EXCEPT !.on = @ \ {"sensor"}, !.sensor = FALSE]
          BY <1>23, <3>1, SensorTurnDoes
        <4>2. videoNode'.on = videoNode.on \ {"sensor"}
          BY <4>1 DEF NodeRecs
        <4> QED
          BY <4>2
      <3>2. CASE "RELEASE" \notin th["sensor"].turn
        BY <1>23, <3>2, SensorTurnDoes
      <3> QED
        BY <3>1, <3>2
    <2> QED
      BY <1>23, <2>1, SensorTurnDoes DEF Clean
  <1>24. CASE Service!Work
    BY <1>24, SentDoes DEF Service!Work, SignalNames, Clean
  <1>25. ASSUME NEW t \in {"preview", "capture", "sensor"}, Service!Take(t)
        PROVE  PreviewFollows'
    BY <1>25, TakeDoes DEF Clean, Ends
  <1>26. ASSUME NEW s \in {"preview", "capture"}, Service!StreamReleases(s)
        PROVE  PreviewFollows'
    BY <1>26 DEF Service!StreamReleases, Clean, Ends, StreamRecs
  <1>27. ASSUME NEW s \in {"preview", "capture"}, Service!StreamReleased(s)
        PROVE  PreviewFollows'
    BY <1>27 DEF Service!StreamReleased, Clean
  <1>28. ASSUME NEW s \in {"preview", "capture"}, Service!StreamData(s)
        PROVE  PreviewFollows'
    BY <1>28 DEF Service!StreamData, Clean
  <1>29. ASSUME NEW s \in {"preview", "capture"}, Service!StreamHandled(s)
        PROVE  PreviewFollows'
    BY <1>29 DEF Service!StreamHandled, Clean
  <1>30. ASSUME NEW s \in {"preview", "capture"}, Service!Frame(s)
        PROVE  PreviewFollows'
    <2>0. PreviewFollows
      OBVIOUS
    <2>s. StreamsTypes /\ s \in {"preview", "capture"}
      OBVIOUS
    <2>1. st' = st /\ subs' = subs /\ zsl' = zsl /\ videoNode' = videoNode /\ call' = call
      BY ONLY <1>30, <2>s, FrameDoes
    <2>2. \A u \in {"preview", "capture", "sensor"} :
               /\ th'[u].life = th[u].life /\ th'[u].turn = th[u].turn
               /\ th'[u].terminated = th[u].terminated /\ th'[u].q.pending = th[u].q.pending
               /\ th'[u].q.received = th[u].q.received
                  \/ th'[u].q.received = th[u].q.received \cup {"DATA"}
               /\ Clean(u)' <=> Clean(u)
      BY ONLY <1>30, <2>s, FrameLeaves
    <2> QED
      BY ONLY <2>0, <2>1, <2>2 DEF PreviewFollows, Ends
  <1> QED
    BY <1>1, <1>2, <1>3, <1>4, <1>5, <1>6, <1>7, <1>8, <1>9, <1>10, <1>11, <1>12, <1>13, <1>14,
       <1>15, <1>16, <1>17, <1>18, <1>19, <1>20, <1>21, <1>22, <1>23, <1>24, <1>25, <1>26, <1>27,
       <1>28, <1>29, <1>30, ZenonT(30)
       DEF Service!Next, Service!ServiceCalls,
       Service!CallSteps, Service!StreamSteps, Service!Streams, Service!Threads

\* The sensor thread, of a step.
LEMMA SensorFollowsKept ==
    ASSUME StreamsInv, StreamsTypes', Settled, FirstFrames, Service!Next
    PROVE  SensorFollows'
  <1> USE DEF StreamsInv, StreamsTypes, CallPlaces, SensorFollows
  <1>1. CASE Service!AllocatePreview
    BY <1>1 DEF Service!AllocatePreview, Clean
  <1>2. ASSUME NEW sub \in SubStreams \ {"JPEG"}, Service!AllocateSub(sub)
        PROVE  SensorFollows'
    BY <1>2 DEF Service!AllocateSub, Clean
  <1>3. CASE Service!AllocateJpeg
    BY <1>3, AllocateJpegDoes DEF Service!AllocateJpeg, Clean
  <1>4. CASE Service!AllocateZsl
    BY <1>4 DEF Service!AllocateZsl, Clean
  <1>5. CASE Service!ConvertToZsl
    BY <1>5 DEF Service!ConvertToZsl, Clean, Service!Idle, Service!Calls
  <1>6. ASSUME NEW s \in {"preview", "capture"}, Service!Register(s)
        PROVE  SensorFollows'
    BY <1>6 DEF Service!Register, Clean
  <1>7. ASSUME NEW sub \in SubStreams, Service!ReleaseSub(sub)
        PROVE  SensorFollows'
    BY <1>7 DEF Service!ReleaseSub, Clean
  <1>8. CASE Service!Notify
    <2>1. UNCHANGED call /\ call.op = "idle"
      BY <1>8 DEF Service!Notify, Service!Calls, Service!Idle
    <2>2. /\ th["sensor"].q.pending = {} /\ th["sensor"].life \notin {"released", "subs"}
          /\ Clean("sensor") /\ (videoNode.isp <=> "sensor" \in videoNode.on)
          /\ (videoNode.sensor <=> "sensor" \in videoNode.on)
          /\ ("sensor" \in videoNode.on => th["sensor"].life # "gone")
      BY <2>1
    <2>3. PICK r \in ThreadRecs : r = th["sensor"]
      OBVIOUS
    <2>4. PICK n \in ThreadRecs : n = [r EXCEPT !.life = "wait"]
      BY DEF ThreadRecs
    <2>5. n.life = "wait" /\ n.q = r.q /\ n.turn = r.turn
      BY <2>4 DEF ThreadRecs
    <2>6. PICK s \in ThreadRecs : s = th'["sensor"]
      OBVIOUS
    <2>7. s = IF videoNode.isp \/ r.life # "gone" THEN r ELSE n
      BY <1>8, <2>3, <2>4, <2>6, NotifyDoes
    <2>8. s.q = r.q /\ s.turn = r.turn /\ s.life # "gone"
          /\ (s.life = r.life \/ s.life = "wait")
      BY <2>2, <2>3, <2>5, <2>7
    <2>9. /\ videoNode'.isp /\ "sensor" \in videoNode'.on /\ videoNode'.sensor
      BY <1>8, <2>2, NotifyDoes
    <2>10. Clean("sensor")'
      BY <2>2, <2>3, <2>6, <2>8 DEF Clean, Ends
    <2>11. s.q.pending = {} /\ s.life \notin {"released", "subs"}
      BY <2>2, <2>3, <2>8
    <2>12. call'.op = "idle" /\ call'.at = "idle"
      BY <2>1
    <2> QED
      BY <2>6, <2>8, <2>9, <2>10, <2>11, <2>12
  <1>9. CASE Service!ReleasePreview
    <2>1. videoNode.isp /\ ~ th["sensor"].terminated
      BY <1>9, ReleasePreviewDoes DEF Service!MayRelease, FramesCome
    <2>2. /\ th["sensor"].life # "gone" /\ th["sensor"].life \notin {"released", "subs"}
          /\ (videoNode.sensor <=> "sensor" \in videoNode.on)
          /\ th["sensor"].q.pending = {} /\ Clean("sensor")
      BY <1>9, <2>1, ReleasePreviewDoes
    <2>3. th["sensor"].life = "wait"
      BY <1>9, <2>2, ReleasePreviewDoes DEF Service!AtRest
    <2>4. "RELEASE" \notin th["sensor"].q.received /\ "TERMINATE" \notin th["sensor"].q.received
      BY <2>2 DEF Clean, Ends
    <2>5. /\ th'["sensor"].life = "wait" /\ ~ th'["sensor"].terminated
          /\ "RELEASE" \in th'["sensor"].q.received
          /\ "TERMINATE" \notin th'["sensor"].q.received /\ th'["sensor"].q.pending = {}
          /\ call'.op = "preview" /\ call'.at = "sensor" /\ UNCHANGED videoNode
      BY <1>9, <2>1, <2>2, <2>3, <2>4, ReleasePreviewDoes
    <2> QED
      BY <2>2, <2>5
  <1>10. CASE Service!ReleaseZsl
    BY <1>10 DEF Service!ReleaseZsl, Clean, Service!Idle, Service!Calls
  <1>11. CASE Service!Close
    BY <1>11, CloseDoes
  <1>12. CASE Service!ConvertedToZsl
    BY <1>12 DEF Service!ConvertedToZsl, Clean, Service!Idle
  <1>13. CASE Service!SensorEnded
    BY <1>13 DEF Service!SensorEnded, Clean
  <1>14. CASE Service!DecideCapture
    BY <1>14, DecideCaptureDoes DEF Clean
  <1>15. CASE Service!PollCapture
    BY <1>15, SentDoes DEF Service!PollCapture, SignalNames, Clean
  <1>16. CASE Service!CheckCapture
    BY <1>16 DEF Service!CheckCapture, Clean
  <1>17. CASE Service!CaptureReleased
    BY <1>17 DEF Service!CaptureReleased, Clean
  <1>18. CASE Service!DecidePreview
    BY <1>18, DecidePreviewDoes DEF Clean
  <1>19. CASE Service!PollPreview
    BY <1>19, SentDoes DEF Service!PollPreview, SignalNames, Clean
  <1>20. CASE Service!CheckPreview
    BY <1>20, SentDoes DEF Service!CheckPreview, CallRecs, SignalNames, Clean
  <1>21. CASE Service!PreviewEnded
    BY <1>21 DEF Service!PreviewEnded, Clean
  <1>22. CASE Service!Closed
    BY <1>22 DEF Service!Closed
  <1>23. CASE Service!SensorTurn
    <2>1. /\ th'["sensor"].life = "wait" /\ th'["sensor"].terminated = th["sensor"].terminated
          /\ UNCHANGED call /\ th["sensor"].life = "turn"
      BY <1>23, SensorTurnDoes DEF Service!SensorTurn
    <2>2. CASE "RELEASE" \in th["sensor"].turn
      <3>1. /\ th'["sensor"].q = Service!SetSignal(th["sensor"].q, "TERMINATE")
            /\ videoNode' = [videoNode EXCEPT !.on = @ \ {"sensor"}, !.sensor = FALSE]
        BY <1>23, <2>2, SensorTurnDoes
      <3>2. ~ videoNode'.sensor /\ "sensor" \notin videoNode'.on
        BY <3>1 DEF NodeRecs
      <3>3. PICK w \in SignalWords : w = th["sensor"].q
        BY DEF ThreadRecs
      <3>4. PICK v \in SignalWords : v = th'["sensor"].q
        BY DEF ThreadRecs
      <3>5. /\ v.received = w.received \cup {"TERMINATE"}
            /\ v.pending = IF "TERMINATE" \in w.received THEN w.pending \cup {"TERMINATE"}
                           ELSE w.pending
        BY <3>1, <3>3, <3>4 DEF Service!SetSignal, SignalWords
      <3>6. call.op \in {"preview", "close"}
        BY <2>1, <2>2 DEF Clean, Ends
      <3>7. CASE call.op = "preview"
        <4>1. call.at = "sensor"
          BY <2>1, <3>7
        <4>2. w.received \cap Ends = {} /\ w.pending = {} /\ ~ th["sensor"].terminated
          BY <2>1, <3>3, <3>7, <4>1 DEF Ends
        <4>3. "TERMINATE" \in v.received /\ "RELEASE" \notin v.received /\ v.pending = {}
          BY <3>5, <4>2 DEF Ends
        <4> QED
          BY <2>1, <3>2, <3>4, <3>7, <4>1, <4>2, <4>3
      <3>8. CASE call.op = "close"
        BY <2>1, <3>2, <3>8
      <3> QED
        BY <3>6, <3>7, <3>8
    <2>3. CASE "RELEASE" \notin th["sensor"].turn
      <3>1. th'["sensor"].q = th["sensor"].q /\ UNCHANGED videoNode
        BY <1>23, <2>3, SensorTurnDoes
      <3>2. call.op # "preview"
        BY <2>1, <2>3
      <3> QED
        BY <2>1, <3>1, <3>2 DEF Clean
    <2> QED
      BY <2>2, <2>3
  <1>24. CASE Service!Work
    BY <1>24, SentDoes DEF Service!Work, SignalNames, Clean, Ends
  <1>25. ASSUME NEW t \in {"preview", "capture", "sensor"}, Service!Take(t)
        PROVE  SensorFollows'
    BY <1>25, TakeDoes DEF Clean, Ends
  <1>26. ASSUME NEW s \in {"preview", "capture"}, Service!StreamReleases(s)
        PROVE  SensorFollows'
    BY <1>26 DEF Service!StreamReleases, Clean
  <1>27. ASSUME NEW s \in {"preview", "capture"}, Service!StreamReleased(s)
        PROVE  SensorFollows'
    BY <1>27 DEF Service!StreamReleased, Clean
  <1>28. ASSUME NEW s \in {"preview", "capture"}, Service!StreamData(s)
        PROVE  SensorFollows'
    BY <1>28 DEF Service!StreamData, Clean
  <1>29. ASSUME NEW s \in {"preview", "capture"}, Service!StreamHandled(s)
        PROVE  SensorFollows'
    BY <1>29 DEF Service!StreamHandled, Clean
  <1>30. ASSUME NEW s \in {"preview", "capture"}, Service!Frame(s)
        PROVE  SensorFollows'
    <2>0. SensorFollows
      OBVIOUS
    <2>s. StreamsTypes /\ s \in {"preview", "capture"}
      OBVIOUS
    <2>1. st' = st /\ subs' = subs /\ zsl' = zsl /\ videoNode' = videoNode /\ call' = call
      BY ONLY <1>30, <2>s, FrameDoes
    <2>2. \A u \in {"preview", "capture", "sensor"} :
               /\ th'[u].life = th[u].life /\ th'[u].turn = th[u].turn
               /\ th'[u].terminated = th[u].terminated /\ th'[u].q.pending = th[u].q.pending
               /\ th'[u].q.received = th[u].q.received
                  \/ th'[u].q.received = th[u].q.received \cup {"DATA"}
               /\ Clean(u)' <=> Clean(u)
      BY ONLY <1>30, <2>s, FrameLeaves
    <2> QED
      BY ONLY <2>0, <2>1, <2>2 DEF SensorFollows, Ends
  <1> QED
    BY <1>1, <1>2, <1>3, <1>4, <1>5, <1>6, <1>7, <1>8, <1>9, <1>10, <1>11, <1>12, <1>13, <1>14,
       <1>15, <1>16, <1>17, <1>18, <1>19, <1>20, <1>21, <1>22, <1>23, <1>24, <1>25, <1>26, <1>27,
       <1>28, <1>29, <1>30, ZenonT(30)
       DEF Service!Next, Service!ServiceCalls,
       Service!CallSteps, Service!StreamSteps, Service!Streams, Service!Threads

\* Frames come from a sensor that works, of a step.
LEMMA FramesComeKept ==
    ASSUME StreamsInv, StreamsTypes', Settled, FirstFrames, Service!Next
    PROVE  FramesCome'
  <1> USE DEF StreamsInv, StreamsTypes, CallPlaces, FramesCome
  <1>0. FramesCome
    OBVIOUS
  <1>1. CASE Service!AllocatePreview
    BY <1>1, AllocatePreviewDoes, NewThreadFields
  <1>2. ASSUME NEW sub \in SubStreams \ {"JPEG"}, Service!AllocateSub(sub)
        PROVE  FramesCome'
    BY <1>2, AllocateSubDoes DEF Service!AllocateSub
  <1>3. CASE Service!AllocateJpeg
    BY <1>3, AllocateJpegDoes DEF Service!AllocateJpeg
  <1>4. CASE Service!AllocateZsl
    BY <1>4 DEF Service!AllocateZsl
  <1>5. CASE Service!ConvertToZsl
    BY <1>5 DEF Service!ConvertToZsl, Service!Idle, Service!Calls
  <1>6. ASSUME NEW s \in {"preview", "capture"}, Service!Register(s)
        PROVE  FramesCome'
    BY <1>6 DEF Service!Register
  <1>7. ASSUME NEW sub \in SubStreams, Service!ReleaseSub(sub)
        PROVE  FramesCome'
    <2>1. th' = th /\ videoNode' = videoNode /\ call' = call
      BY <1>7, ReleaseSubLeaves
    <2>2. st'["preview"].exists = st["preview"].exists /\ st'["preview"].init = st["preview"].init
      BY <1>7, ReleaseSubDoes
    <2> QED
      BY ONLY <1>0, <2>1, <2>2 DEF FramesCome
  <1>8. CASE Service!Notify
    <2>1. call' = call
      BY <1>8, NotifyLeaves
    <2>2. /\ st'["preview"] = st["preview"] /\ th'["preview"] = th["preview"]
          /\ videoNode'.isp
          /\ th'["sensor"] = IF videoNode.isp \/ th["sensor"].life # "gone" THEN th["sensor"]
                             ELSE [th["sensor"] EXCEPT !.life = "wait"]
      BY <1>8, NotifyDoes
    <2>3. th["sensor"] \in ThreadRecs
      OBVIOUS
    <2>4. th'["sensor"].terminated = th["sensor"].terminated
      BY ONLY <2>2, <2>3 DEF ThreadRecs
    <2> QED
      BY ONLY <2>1, <2>2, <2>4, <1>0 DEF FramesCome
  <1>9. CASE Service!ReleasePreview
    BY <1>9 DEF Service!ReleasePreview
  <1>10. CASE Service!ReleaseZsl
    BY <1>10 DEF Service!ReleaseZsl, Service!Idle, Service!Calls
  <1>11. CASE Service!Close
    BY <1>11, CloseDoes
  <1>12. CASE Service!ConvertedToZsl
    BY <1>12 DEF Service!ConvertedToZsl
  <1>13. CASE Service!SensorEnded
    BY <1>13 DEF Service!SensorEnded
  <1>14. CASE Service!DecideCapture
    BY <1>14, DecideCaptureDoes
  <1>15. CASE Service!PollCapture
    BY <1>15, SentDoes DEF Service!PollCapture, SignalNames, SignalNames
  <1>16. CASE Service!CheckCapture
    BY <1>16 DEF Service!CheckCapture
  <1>17. CASE Service!CaptureReleased
    BY <1>17 DEF Service!CaptureReleased
  <1>18. CASE Service!DecidePreview
    BY <1>18, DecidePreviewDoes
  <1>19. CASE Service!PollPreview
    BY <1>19 DEF Service!PollPreview
  <1>20. CASE Service!CheckPreview
    BY <1>20 DEF Service!CheckPreview, CallRecs
  <1>21. CASE Service!PreviewEnded
    BY <1>21 DEF Service!PreviewEnded, Service!NoStream
  <1>22. CASE Service!Closed
    BY <1>22 DEF Service!Closed
  <1>23. CASE Service!SensorTurn
    BY <1>23, SensorTurnDoes DEF NodeRecs
  <1>24. CASE Service!Work
    BY <1>24, SentDoes DEF Service!Work, SignalNames, SignalNames
  <1>25. ASSUME NEW t \in {"preview", "capture", "sensor"}, Service!Take(t)
        PROVE  FramesCome'
    <2>1. UNCHANGED <<st, videoNode, call>>
      BY <1>25, TakeDoes
    <2>2. CASE t = "preview"
      BY <1>25, <2>1, <2>2, TakeDoes
    <2>3. CASE t = "sensor"
      <3>1. call.op \notin {"preview", "close"} => ~ th'["sensor"].terminated
        BY <1>25, <2>3, TakeDoes DEF SensorFollows, Clean, Ends
      <3> QED
        BY <1>25, <2>1, <2>3, <3>1, TakeDoes
    <2>4. CASE t = "capture"
      BY <1>25, <2>1, <2>4, TakeDoes
    <2> QED
      BY <2>2, <2>3, <2>4
  <1>26. ASSUME NEW s \in {"preview", "capture"}, Service!StreamReleases(s)
        PROVE  FramesCome'
    BY <1>26 DEF Service!StreamReleases
  <1>27. ASSUME NEW s \in {"preview", "capture"}, Service!StreamReleased(s)
        PROVE  FramesCome'
    BY <1>27 DEF Service!StreamReleased
  <1>28. ASSUME NEW s \in {"preview", "capture"}, Service!StreamData(s)
        PROVE  FramesCome'
    BY <1>28 DEF Service!StreamData
  <1>29. ASSUME NEW s \in {"preview", "capture"}, Service!StreamHandled(s)
        PROVE  FramesCome'
    BY <1>29 DEF Service!StreamHandled
  <1>30. ASSUME NEW s \in {"preview", "capture"}, Service!Frame(s)
        PROVE  FramesCome'
    <2>1. /\ UNCHANGED <<st, videoNode, call>> /\ th' = Service!Sends(th, s, "DATA")
          /\ "sensor" \in videoNode.on /\ ~ th["sensor"].terminated
      BY <1>30 DEF Service!Frame
    <2>2. th'["sensor"] = th["sensor"]
      BY <2>1, SentDoes DEF SignalNames
    <2>3. call.op \notin {"preview", "close"} => videoNode.isp
      BY <2>1 DEF SensorFollows
    <2> QED
      BY <2>1, <2>2, <2>3
  <1> QED
    BY <1>1, <1>2, <1>3, <1>4, <1>5, <1>6, <1>7, <1>8, <1>9, <1>10, <1>11, <1>12, <1>13, <1>14,
       <1>15, <1>16, <1>17, <1>18, <1>19, <1>20, <1>21, <1>22, <1>23, <1>24, <1>25, <1>26, <1>27,
       <1>28, <1>29, <1>30
       DEF Service!Next, Service!ServiceCalls,
       Service!CallSteps, Service!StreamSteps, Service!Streams, Service!Threads

\* The invariant holds at first,
LEMMA StreamsInvInit == Service!Init => StreamsInv
  <1> SUFFICES ASSUME Service!Init PROVE StreamsInv
    OBVIOUS
  <1>1. Service!Threads = {"preview", "capture", "sensor"} /\ Service!Streams = {"preview", "capture"}
    BY DEF Service!Threads, Service!Streams
  <1>2. [Service!NewThread EXCEPT !.life = "gone"] \in ThreadRecs
    BY NewThreadFields DEF ThreadRecs
  <1>3. PICK g \in ThreadRecs : g = [Service!NewThread EXCEPT !.life = "gone"]
    BY <1>2
  <1>4. g.life = "gone" /\ g.q = Service!NewThread.q /\ ~ g.terminated
    BY <1>3, NewThreadFields DEF ThreadRecs
  <1>5. /\ th["preview"] = g /\ th["capture"] = g /\ th["sensor"] = Service!NewThread
        /\ th \in [{"preview", "capture", "sensor"} -> ThreadRecs]
    BY <1>1, <1>3, NewThreadFields DEF Service!Init
  <1>6. /\ st \in [{"preview", "capture"} -> StreamRecs]
        /\ \A s \in {"preview", "capture"} : st[s] = Service!NoStream
    BY <1>1, NoStreamIsStream DEF Service!Init
  <1>7. /\ \A s \in {"preview", "capture"} :
              /\ ~ st[s].exists /\ ~ st[s].init
              /\ st[s].count = 0 /\ st[s].attached = {}
    BY <1>6 DEF Service!NoStream
  <1>8. /\ videoNode \in NodeRecs /\ videoNode.on = {} /\ ~ videoNode.sensor /\ ~ videoNode.isp
    BY DEF Service!Init, NodeRecs
  <1>9. /\ call \in CallRecs /\ call.op = "idle" /\ call.at = "idle"
        /\ subs = {} /\ ~ zsl /\ zsl \in BOOLEAN
    BY DEF Service!Init, Service!Idle, CallRecs
  <1>10. StreamsTypes
    BY <1>5, <1>6, <1>8, <1>9 DEF StreamsTypes
  <1>11. CallPlaces /\ Served
    BY <1>7, <1>9 DEF CallPlaces, Served
  <1>12. Counted
    BY <1>7, <1>9 DEF Counted, CountOf
  <1>13. /\ Clean("sensor") /\ th["sensor"].q.pending = {} /\ th["sensor"].life = "wait"
         /\ ~ th["sensor"].terminated
    BY <1>5, NewThreadFields DEF Clean
  <1>14. SensorFollows /\ FramesCome
    BY <1>7, <1>8, <1>9, <1>13 DEF SensorFollows, FramesCome
  <1>15. PreviewFollows
    BY <1>4, <1>5, <1>7, <1>8, <1>9 DEF PreviewFollows
  <1>16. CaptureFollows
    BY <1>4, <1>5, <1>7, <1>9, NewThreadFields DEF CaptureFollows
  <1> QED
    BY <1>10, <1>11, <1>12, <1>14, <1>15, <1>16 DEF StreamsInv

\* every step keeps it,
LEMMA StreamsInvNext ==
    ASSUME Settled, FirstFrames, StreamsInv, [Service!Next]_(Service!vars)
    PROVE  StreamsInv'
  <1>1. CASE Service!Next
    <2>1. StreamsTypes'
      BY <1>1, StreamsTypesKept DEF StreamsInv
    <2> QED
      BY <1>1, <2>1, CallPlacesKept, ServedKept, CountedKept, SensorFollowsKept, FramesComeKept,
         PreviewFollowsKept, CaptureFollowsKept DEF StreamsInv
  <1>2. CASE UNCHANGED Service!vars
    BY <1>2 DEF Service!vars, StreamsInv, StreamsTypes, CallPlaces, Served, Counted,
                SensorFollows,
                FramesCome, PreviewFollows, CaptureFollows, Clean
  <1> QED
    BY <1>1, <1>2

\* and where it holds, the streams agree.
LEMMA StreamsInvAgrees == StreamsInv => StreamsAgree
  <1> SUFFICES ASSUME StreamsInv PROVE StreamsAgree
    OBVIOUS
  <1>1. Service!Threads = {"preview", "capture", "sensor"} /\ Service!Streams = {"preview", "capture"}
    BY DEF Service!Threads, Service!Streams
  <1>2. StreamsTypes /\ CallPlaces /\ Served /\ Counted
        /\ SensorFollows /\ FramesCome /\ PreviewFollows /\ CaptureFollows
    BY DEF StreamsInv
  <1>3. Service!TypeOK
    <2>1. ASSUME NEW s \in {"preview", "capture"} PROVE st[s].count \in 0 .. 3
      <3>1. PICK a \in SUBSET SubStreams : a = st[s].attached
        BY <1>2 DEF StreamsTypes, StreamRecs
      <3>2. CASE s = "preview"
        <4>1. "JPEG" \notin a
          BY <1>2, <3>1, <3>2 DEF Served
        <4>2. CountOf(a) \in 0 .. 2
          BY <4>1 DEF CountOf
        <4> QED
          BY <1>2, <3>1, <3>2, <4>2 DEF Counted
      <3>3. CASE s = "capture"
        <4>1. a \subseteq {"JPEG"}
          BY <1>2, <3>1, <3>3 DEF Served
        <4>2. CountOf(a) \in 0 .. 1
          BY <4>1 DEF CountOf
        <4>3. st["capture"].count \in Int
          BY <1>2 DEF StreamsTypes, StreamRecs
        <4> QED
          BY <1>2, <3>1, <3>3, <4>2, <4>3 DEF Counted
      <3> QED
        BY <3>2, <3>3
    <2>2. ASSUME NEW t \in {"preview", "capture", "sensor"}
          PROVE  /\ th[t].life \in {"wait", "turn", "released", "subs", "gone"}
                 /\ th[t].turn \subseteq {"RELEASE", "TERMINATE", "DATA", "START"}
      BY <1>2 DEF StreamsTypes, ThreadRecs, SignalNames
    <2> QED
      BY <1>1, <1>2, <2>1, <2>2 DEF Service!TypeOK, StreamsTypes, NodeRecs
  <1> SUFFICES ASSUME call = Service!Idle
               PROVE  /\ Service!ServesAllocated /\ Service!SensorServes /\ Service!HeldIsActive
                      /\ Service!SensorIsOff /\ Service!PreviewIsOff
    BY <1>3, Zenon DEF StreamsAgree, Service!StreamsAgree, Service!ServesAllocated,
       Service!SensorServes, Service!HeldIsActive, Service!SensorIsOff, Service!PreviewIsOff
  <1>4. call.op = "idle" /\ call.at = "idle"
    BY DEF Service!Idle
  <1>5. Service!ServesAllocated
    <2>1. subs \subseteq {"RECORD", "PRVCB", "JPEG"}
      BY <1>2, StreamsAssumption DEF StreamsTypes
    <2>2. /\ {sub \in subs : Service!Parent(sub) = "preview"} = subs \ {"JPEG"}
          /\ {sub \in subs : Service!Parent(sub) = "capture"} = subs \cap {"JPEG"}
      BY DEF Service!Parent
    <2>3. ASSUME NEW s \in {"preview", "capture"}, st[s].exists
          PROVE  st[s].attached = {sub \in subs : Service!Parent(sub) = s}
      <3>1. CASE s = "preview"
        BY <1>2, <2>2, <2>3, <3>1 DEF Served
      <3>2. CASE s = "capture"
        BY <1>2, <1>4, <2>2, <2>3, <3>2 DEF Served
      <3> QED
        BY <3>1, <3>2
    <2> QED
      BY <1>1, <2>3 DEF Service!ServesAllocated
  <1>6. Service!SensorServes /\ Service!SensorIsOff
    BY <1>2, <1>4 DEF SensorFollows, Clean, Ends, Service!SensorServes, Service!SensorIsOff,
                      Service!Alive
  <1>7. Service!HeldIsActive /\ Service!PreviewIsOff
    BY <1>2, <1>4 DEF PreviewFollows, CaptureFollows, Service!HeldIsActive,
                      Service!PreviewIsOff, Service!Alive
  <1> QED
    BY <1>5, <1>6, <1>7

\* StreamsAgree, whatever sub-streams the service uses, for a service that
\* calls when no order to stop is left with a thread and releases a stream
\* after its first frame: between two calls of libcamera2's service the stream
\* threads serve what is allocated, what the service holds is active, the
\* sensor serves while requests are served, and what was released is off.
THEOREM StreamsStayAgreed ==
    (Settled /\ FirstFrames) => (StreamsSpec => []StreamsAgree)
  <1> SUFFICES ASSUME Settled, FirstFrames PROVE StreamsSpec => []StreamsAgree
    OBVIOUS
  <1>1. Service!Init => StreamsInv
    BY StreamsInvInit
  <1>2. StreamsInv /\ [Service!Next]_(Service!vars) => StreamsInv'
    BY StreamsInvNext
  <1>3. StreamsInv => StreamsAgree
    BY StreamsInvAgrees
  <1> QED
    BY <1>1, <1>2, <1>3, PTL DEF StreamsSpec, Service!FairSpec, Service!Spec
=============================================================================
