---------------------------- MODULE Composer_proofs ----------------------------
(* A layer through the G-Scaler: the buffers are guarded by their fences, no *)
(* fence of a frame that comes through is left open, and the handle is always *)
(* in a state from which the next frame can be run, and protected if its     *)
(* content is - for any number of buffers, any layers and whatever fails.    *)
(* The second display: the HAL's record of its buffers is the driver's, and  *)
(* the framework, the mixer and the layers keep up with the cable.           *)
EXTENDS MCComposer, FiniteSetTheorems, SequenceTheorems, WellFoundedInduction, TLAPS

-----------------------------------------------------------------------------
(* The kernel's next descriptor.                                             *)

\* Every non-empty set of numbers has a least one.
LEMMA LeastOfNumbers ==
    ASSUME NEW T \in SUBSET Nat, T # {}
    PROVE  \E n \in T : \A m \in T : n <= m
  <1> DEFINE R == OpToRel(<, Nat)
  <1>1. IsWellFoundedOn(R, Nat)
    BY Zenon, NatLessThanWellFounded DEF R
  <1>2. R = {ss \in Nat \X Nat : ss[1] < ss[2]}
    BY SMT DEF OpToRel, R
  <1> HIDE DEF R
  <1>3. PICK n \in T : \A m \in T : <<m, n>> \notin R
    BY <1>1, WFMin, Zenon
  <1>4. \A m \in T : ~ (m < n)
    BY <1>2, <1>3
  <1> QED
    BY <1>3, <1>4

\* A finite set of descriptors leaves one below the bound free.
LEMMA FreshIsNew ==
    ASSUME NEW S \in SUBSET (Nat \ {0}), IsFiniteSet(S)
    PROVE  Fresh(S) \in Nat \ {0} /\ Fresh(S) \notin S
  <1> DEFINE top == Cardinality(S) + 1
             Free == {n \in 1 .. top : n \notin S}
  <1>1. Cardinality(S) \in Nat
    BY FS_CardinalityType
  <1>2. Free # {}
    <2> SUFFICES ASSUME Free = {} PROVE FALSE
      OBVIOUS
    <2>1. 1 .. top \in SUBSET S
      OBVIOUS
    <2>2. Cardinality(1 .. top) <= Cardinality(S)
      BY <2>1, FS_Subset
    <2>3. Cardinality(1 .. top) = IF 1 > top THEN 0 ELSE top - 1 + 1
      BY <1>1, FS_Interval
    <2> QED
      BY <1>1, <2>2, <2>3
  <1>3. PICK n \in Free : \A m \in Free : n <= m
    <2>1. Free \in SUBSET Nat
      BY <1>1
    <2> HIDE DEF Free
    <2> QED
      BY <1>2, <2>1, LeastOfNumbers
  <1>4. n \in 1 .. top /\ n \notin S /\ \A m \in 1 .. n - 1 : m \in S
    BY <1>1, <1>3
  <1>5. /\ Fresh(S) \in 1 .. Cardinality(S) + 1
        /\ Fresh(S) \notin S
    BY <1>4 DEF Fresh
  <1> QED
    BY <1>1, <1>5

-----------------------------------------------------------------------------
(* The handle of the library: what a run makes of it.                        *)

\* It runs.
Streams(h, drm) ==
    /\ h \in Handle /\ h.allowDrm
    /\ h.src.on /\ h.src.allocated /\ h.src.queued /\ h.src.marked /\ ~ h.src.dirty
    /\ h.dst.on /\ h.dst.allocated /\ h.dst.queued /\ h.dst.marked /\ ~ h.dst.dirty
    /\ h.src.drm = drm /\ h.dst.drm = drm /\ h.believesProtected = drm
    /\ drm => h.secure

\* It has been opened, stopped or given up.
Stopped(h) == h \in Handle /\ h.allowDrm /\ ~ h.src.on /\ ~ h.dst.on /\ ~ h.believesProtected

\* It has been stopped and given a format.
Waits(h, drm) ==
    /\ Stopped(h) /\ h.src.dirty /\ h.dst.dirty /\ h.src.drm = drm /\ h.dst.drm = drm

\* exynos_gsc_m2m_stop.
LEMMA StopOf ==
    ASSUME NEW h \in Handle, h.allowDrm
    PROVE  /\ Stop(h) \in Handle /\ Stop(h).allowDrm
           /\ ~ Stop(h).src.on /\ ~ Stop(h).dst.on
           /\ h.src.on \/ ~ h.believesProtected => ~ Stop(h).believesProtected
  <1>1. CASE ~ h.src.on /\ ~ h.dst.on
    BY <1>1 DEF Stop
  <1>2. CASE h.src.on \/ h.dst.on
    <2>1. PICK s \in BOOLEAN : s = (h.secure /\ ~ (h.allowDrm /\ h.believesProtected))
      OBVIOUS
    <2>2. PICK a : a = Emptied(h.src)
      OBVIOUS
    <2>3. PICK b : b = Emptied(h.dst)
      OBVIOUS
    <2>4. a \in Side /\ b \in Side /\ ~ a.on /\ ~ b.on
      BY <2>2, <2>3 DEF Handle, Side, Emptied
    <2>5. Stop(h) = [h EXCEPT !.src = a, !.dst = b, !.secure = s, !.believesProtected = FALSE]
      BY <1>2, <2>1, <2>2, <2>3 DEF Stop
    <2>6. /\ Stop(h) \in Handle /\ Stop(h).allowDrm = h.allowDrm
          /\ Stop(h).src = a /\ Stop(h).dst = b /\ Stop(h).believesProtected = FALSE
      BY <2>4, <2>5 DEF Handle
    <2> QED
      BY <2>4, <2>6
  <1> QED
    BY <1>1, <1>2

\* exynos_gsc_set_src_format and exynos_gsc_set_dst_format after a stop.
LEMMA ConfiguredAnew ==
    ASSUME NEW h, NEW drm \in BOOLEAN, Stopped(h) \/ \E d \in BOOLEAN : Streams(h, d)
    PROVE  Waits(Config(Stop(h), drm), drm) /\ Config(Stop(h), drm) \in Handle
  <1>1. h \in Handle /\ h.allowDrm /\ (h.src.on \/ ~ h.believesProtected)
    BY DEF Stopped, Streams
  <1>2. PICK g : g = Stop(h)
    OBVIOUS
  <1>3. Stopped(g)
    BY <1>1, <1>2, StopOf DEF Stopped
  <1>4. Waits(Config(g, drm), drm)
    BY <1>3 DEF Waits, Stopped, Config, Handle, Side
  <1> QED
    BY <1>2, <1>4 DEF Waits, Stopped

\* m_exynos_gsc_destroy.
LEMMA DestroyedIsStopped ==
    ASSUME NEW h \in Handle, h.allowDrm
    PROVE  Stopped(Destroyed(h)) /\ Destroyed(h) \in Handle
  <1>1. PICK s \in BOOLEAN : s = Stop(h).secure
    BY StopOf DEF Handle
  <1>2. PICK n : n = NewHandle(h.allowDrm)
    OBVIOUS
  <1>3. Destroyed(h) = [n EXCEPT !.secure = s]
    BY <1>1, <1>2 DEF Destroyed
  <1>4. /\ n \in Handle /\ n.allowDrm = h.allowDrm
        /\ ~ n.src.on /\ ~ n.dst.on /\ ~ n.believesProtected
    <2>1. h.allowDrm \in BOOLEAN
      BY DEF Handle
    <2>2. NewSide \in Side /\ ~ NewSide.on
      BY DEF NewSide, Side
    <2> QED
      BY <1>2, <2>1, <2>2 DEF NewHandle, Handle
  <1>5. /\ Destroyed(h) \in Handle /\ Destroyed(h).allowDrm = n.allowDrm
        /\ Destroyed(h).src = n.src /\ Destroyed(h).dst = n.dst
        /\ Destroyed(h).believesProtected = n.believesProtected
    BY <1>3, <1>4 DEF Handle
  <1> QED
    BY <1>4, <1>5 DEF Stopped

\* The steps of a run, each on a handle of any kind.
Result(r) == r.ok \in BOOLEAN /\ r.h \in Handle
Rest(h) == <<h.allowDrm, h.believesProtected, h.secure>>

LEMMA FormatSrcOf ==
    ASSUME NEW h \in Handle, NEW fault, NEW r, r = FormatSrc(h, fault)
    PROVE  /\ Result(r) /\ r.h.dst = h.dst /\ Rest(r.h) = Rest(h)
           /\ r.h.src.drm = h.src.drm /\ r.h.src.on = h.src.on /\ r.h.src.marked = h.src.marked
           /\ ~ h.src.dirty => r.ok /\ r.h = h
           /\ r.ok /\ h.src.dirty => ~ r.h.src.dirty /\ r.h.src.allocated /\ ~ r.h.src.queued
           /\ fault # "formatSrc" /\ ~ h.src.on => r.ok
  <1> DEFINE g == [h EXCEPT !.src.dirty = FALSE, !.src.allocated = TRUE, !.src.queued = FALSE]
  <1>1. /\ g \in Handle /\ g.dst = h.dst /\ Rest(g) = Rest(h)
        /\ g.src.drm = h.src.drm /\ g.src.on = h.src.on /\ g.src.marked = h.src.marked
        /\ ~ g.src.dirty /\ g.src.allocated /\ ~ g.src.queued
    BY DEF Handle, Side, Rest
  <1>2. r = IF ~ h.src.dirty THEN Ok(h)
            ELSE IF fault = "formatSrc" \/ h.src.on THEN Fail(h) ELSE Ok(g)
    BY DEF FormatSrc
  <1> HIDE DEF g
  <1>3. {h.src.dirty, h.src.on, h.src.allocated, h.src.queued, h.src.drm, h.dst.dirty, h.dst.on,
         h.dst.allocated, h.dst.queued, h.allowDrm} \subseteq BOOLEAN
    BY DEF Handle, Side
  <1> QED
    BY <1>1, <1>2, <1>3 DEF Ok, Fail, Result

LEMMA FormatDstOf ==
    ASSUME NEW h \in Handle, NEW fault, NEW r, r = FormatDst(h, fault)
    PROVE  /\ Result(r) /\ r.h.src = h.src /\ Rest(r.h) = Rest(h)
           /\ r.h.dst.drm = h.dst.drm /\ r.h.dst.on = h.dst.on /\ r.h.dst.marked = h.dst.marked
           /\ ~ h.dst.dirty => r.ok /\ r.h = h
           /\ r.ok /\ h.dst.dirty => ~ r.h.dst.dirty /\ r.h.dst.allocated /\ ~ r.h.dst.queued
           /\ fault # "formatDst" /\ ~ h.dst.on => r.ok
  <1> DEFINE g == [h EXCEPT !.dst.dirty = FALSE, !.dst.allocated = TRUE, !.dst.queued = FALSE]
  <1>1. /\ g \in Handle /\ g.src = h.src /\ Rest(g) = Rest(h)
        /\ g.dst.drm = h.dst.drm /\ g.dst.on = h.dst.on /\ g.dst.marked = h.dst.marked
        /\ ~ g.dst.dirty /\ g.dst.allocated /\ ~ g.dst.queued
    BY DEF Handle, Side, Rest
  <1>2. r = IF ~ h.dst.dirty THEN Ok(h)
            ELSE IF fault = "formatDst" \/ h.dst.on THEN Fail(h) ELSE Ok(g)
    BY DEF FormatDst
  <1> HIDE DEF g
  <1>3. {h.src.dirty, h.src.on, h.src.allocated, h.src.queued, h.src.drm, h.dst.dirty, h.dst.on,
         h.dst.allocated, h.dst.queued, h.allowDrm} \subseteq BOOLEAN
    BY DEF Handle, Side
  <1> QED
    BY <1>1, <1>2, <1>3 DEF Ok, Fail, Result

LEMMA ProtectOf ==
    ASSUME NEW h \in Handle, NEW fault, NEW r, NEW changed \in BOOLEAN,
           h.allowDrm, r = Protect(h, changed, fault)
    PROVE  /\ Result(r) /\ r.h.src = h.src /\ r.h.dst = h.dst /\ r.h.allowDrm
           /\ ~ changed \/ ~ h.src.drm => r.ok /\ r.h = h
           /\ r.ok /\ changed /\ h.src.drm => r.h.secure /\ r.h.believesProtected
           /\ fault # "protect" => r.ok
  <1> DEFINE g == [h EXCEPT !.secure = TRUE, !.believesProtected = TRUE]
  <1>1. /\ g \in Handle /\ g.src = h.src /\ g.dst = h.dst
        /\ g.allowDrm /\ g.secure /\ g.believesProtected
    BY DEF Handle, Side
  <1>2. CASE ~ changed \/ ~ h.src.drm
    <2>1. r = Ok(h)
      BY <1>2 DEF Protect
    <2>2. r.ok /\ r.h = h
      BY <2>1 DEF Ok
    <2> QED
      BY <1>2, <2>1, <2>2 DEF Ok, Result
  <1>3. CASE changed /\ h.src.drm
    <2>1. r = IF fault = "protect" THEN Fail(h) ELSE Ok(g)
      BY <1>3 DEF Protect
    <2> HIDE DEF g
    <2>2. CASE fault = "protect"
      <3>1. r.h = h /\ ~ r.ok /\ r.ok \in BOOLEAN
        BY <2>1, <2>2 DEF Fail
      <3> QED
        BY <1>3, <2>2, <3>1 DEF Result
    <2>3. CASE fault # "protect"
      <3>1. r.h = g /\ r.ok /\ r.ok \in BOOLEAN
        BY <2>1, <2>3 DEF Ok
      <3> QED
        BY <1>1, <1>3, <2>3, <3>1 DEF Result
    <2> QED
      BY <2>2, <2>3
  <1> QED
    BY <1>2, <1>3

LEMMA QueueSrcOf ==
    ASSUME NEW h \in Handle, NEW fault, NEW r, r = QueueSrc(h, fault)
    PROVE  /\ Result(r) /\ r.h.dst = h.dst /\ Rest(r.h) = Rest(h)
           /\ r.h.src.drm = h.src.drm /\ r.h.src.on = h.src.on /\ r.h.src.dirty = h.src.dirty
           /\ r.h.src.allocated = h.src.allocated
           /\ r.ok => r.h.src.queued /\ r.h.src.marked
           /\ fault # "queueSrc" /\ h.src.allocated /\ ~ h.src.queued => r.ok
  <1> DEFINE g == [h EXCEPT !.src.queued = TRUE, !.src.marked = TRUE]
  <1>1. /\ g \in Handle /\ g.dst = h.dst /\ Rest(g) = Rest(h)
        /\ g.src.drm = h.src.drm /\ g.src.on = h.src.on /\ g.src.dirty = h.src.dirty
        /\ g.src.allocated = h.src.allocated /\ g.src.queued /\ g.src.marked
    BY DEF Handle, Side, Rest
  <1>2. r = IF fault = "queueSrc" \/ ~ h.src.allocated \/ h.src.queued THEN Fail(h) ELSE Ok(g)
    BY DEF QueueSrc
  <1> HIDE DEF g
  <1>3. {h.src.dirty, h.src.on, h.src.allocated, h.src.queued, h.src.drm, h.dst.dirty, h.dst.on,
         h.dst.allocated, h.dst.queued, h.allowDrm} \subseteq BOOLEAN
    BY DEF Handle, Side
  <1> QED
    BY <1>1, <1>2, <1>3 DEF Ok, Fail, Result

LEMMA QueueDstOf ==
    ASSUME NEW h \in Handle, NEW fault, NEW r, r = QueueDst(h, fault)
    PROVE  /\ Result(r) /\ r.h.src = h.src /\ Rest(r.h) = Rest(h)
           /\ r.h.dst.drm = h.dst.drm /\ r.h.dst.on = h.dst.on /\ r.h.dst.dirty = h.dst.dirty
           /\ r.h.dst.allocated = h.dst.allocated
           /\ r.ok => r.h.dst.queued /\ r.h.dst.marked
           /\ fault # "queueDst" /\ h.dst.allocated /\ ~ h.dst.queued => r.ok
  <1> DEFINE g == [h EXCEPT !.dst.queued = TRUE, !.dst.marked = TRUE]
  <1>1. /\ g \in Handle /\ g.src = h.src /\ Rest(g) = Rest(h)
        /\ g.dst.drm = h.dst.drm /\ g.dst.on = h.dst.on /\ g.dst.dirty = h.dst.dirty
        /\ g.dst.allocated = h.dst.allocated /\ g.dst.queued /\ g.dst.marked
    BY DEF Handle, Side, Rest
  <1>2. r = IF fault = "queueDst" \/ ~ h.dst.allocated \/ h.dst.queued THEN Fail(h) ELSE Ok(g)
    BY DEF QueueDst
  <1> HIDE DEF g
  <1>3. {h.src.dirty, h.src.on, h.src.allocated, h.src.queued, h.src.drm, h.dst.dirty, h.dst.on,
         h.dst.allocated, h.dst.queued, h.allowDrm} \subseteq BOOLEAN
    BY DEF Handle, Side
  <1> QED
    BY <1>1, <1>2, <1>3 DEF Ok, Fail, Result

LEMMA StreamSrcOf ==
    ASSUME NEW h \in Handle, NEW fault, NEW r, r = StreamSrc(h, fault)
    PROVE  /\ Result(r) /\ r.h.dst = h.dst /\ Rest(r.h) = Rest(h)
           /\ r.h.src.drm = h.src.drm /\ r.h.src.dirty = h.src.dirty
           /\ r.h.src.allocated = h.src.allocated /\ r.h.src.queued = h.src.queued
           /\ r.h.src.marked = h.src.marked
           /\ r.ok => r.h.src.on
           /\ h.src.on \/ fault # "onSrc" => r.ok
  <1> DEFINE g == [h EXCEPT !.src.on = TRUE]
  <1>1. /\ g \in Handle /\ g.dst = h.dst /\ Rest(g) = Rest(h)
        /\ g.src.drm = h.src.drm /\ g.src.on /\ g.src.dirty = h.src.dirty
        /\ g.src.allocated = h.src.allocated /\ g.src.queued = h.src.queued /\ g.src.marked = h.src.marked
    BY DEF Handle, Side, Rest
  <1>2. r = IF h.src.on THEN Ok(h) ELSE IF fault = "onSrc" THEN Fail(h) ELSE Ok(g)
    BY DEF StreamSrc
  <1> HIDE DEF g
  <1>3. {h.src.dirty, h.src.on, h.src.allocated, h.src.queued, h.src.drm, h.dst.dirty, h.dst.on,
         h.dst.allocated, h.dst.queued, h.allowDrm} \subseteq BOOLEAN
    BY DEF Handle, Side
  <1> QED
    BY <1>1, <1>2, <1>3 DEF Ok, Fail, Result

LEMMA StreamDstOf ==
    ASSUME NEW h \in Handle, NEW fault, NEW r, r = StreamDst(h, fault)
    PROVE  /\ Result(r) /\ r.h.src = h.src /\ Rest(r.h) = Rest(h)
           /\ r.h.dst.drm = h.dst.drm /\ r.h.dst.dirty = h.dst.dirty
           /\ r.h.dst.allocated = h.dst.allocated /\ r.h.dst.queued = h.dst.queued
           /\ r.h.dst.marked = h.dst.marked
           /\ r.ok => r.h.dst.on
           /\ h.dst.on \/ fault # "onDst" => r.ok
  <1> DEFINE g == [h EXCEPT !.dst.on = TRUE]
  <1>1. /\ g \in Handle /\ g.src = h.src /\ Rest(g) = Rest(h)
        /\ g.dst.drm = h.dst.drm /\ g.dst.on /\ g.dst.dirty = h.dst.dirty
        /\ g.dst.allocated = h.dst.allocated /\ g.dst.queued = h.dst.queued /\ g.dst.marked = h.dst.marked
    BY DEF Handle, Side, Rest
  <1>2. r = IF h.dst.on THEN Ok(h) ELSE IF fault = "onDst" THEN Fail(h) ELSE Ok(g)
    BY DEF StreamDst
  <1> HIDE DEF g
  <1>3. {h.src.dirty, h.src.on, h.src.allocated, h.src.queued, h.src.drm, h.dst.dirty, h.dst.on,
         h.dst.allocated, h.dst.queued, h.allowDrm} \subseteq BOOLEAN
    BY DEF Handle, Side
  <1> QED
    BY <1>1, <1>2, <1>3 DEF Ok, Fail, Result

LEMMA WaitFrameDoneOf ==
    ASSUME NEW h \in Handle, NEW fault, NEW r, r = WaitFrameDone(h, fault)
    PROVE  /\ Result(r) /\ Rest(r.h) = Rest(h)
           /\ r.h.src.drm = h.src.drm /\ r.h.src.on = h.src.on /\ r.h.src.dirty = h.src.dirty
           /\ r.h.dst.drm = h.dst.drm /\ r.h.dst.on = h.dst.on /\ r.h.dst.dirty = h.dst.dirty
           /\ r.h.src.allocated = h.src.allocated /\ r.h.dst.allocated = h.dst.allocated
           /\ r.ok => ~ r.h.src.queued /\ ~ r.h.dst.queued
           /\ fault # "wait" /\ h.src.on /\ h.dst.on => r.ok
  <1> DEFINE g == [h EXCEPT !.src.marked = FALSE, !.src.queued = FALSE,
                         !.dst.marked = FALSE, !.dst.queued = FALSE]
  <1>1. /\ g \in Handle /\ Rest(g) = Rest(h)
        /\ g.src.drm = h.src.drm /\ g.src.on = h.src.on /\ g.src.dirty = h.src.dirty
        /\ g.dst.drm = h.dst.drm /\ g.dst.on = h.dst.on /\ g.dst.dirty = h.dst.dirty
        /\ g.src.allocated = h.src.allocated /\ g.dst.allocated = h.dst.allocated
        /\ ~ g.src.queued /\ ~ g.dst.queued
    BY DEF Handle, Side, Rest
  <1>2. r = IF ~ h.src.on \/ ~ h.dst.on \/ (fault = "wait" /\ h.src.marked)
            THEN Fail(h) ELSE Ok(g)
    BY DEF WaitFrameDone
  <1> HIDE DEF g
  <1>3. {h.src.dirty, h.src.on, h.src.allocated, h.src.queued, h.src.drm, h.dst.dirty, h.dst.on,
         h.dst.allocated, h.dst.queued, h.allowDrm} \subseteq BOOLEAN
    BY DEF Handle, Side
  <1> QED
    BY <1>1, <1>2, <1>3 DEF Ok, Fail, Result

\* What a run makes of a handle when fault is what fails.
RunsFrom(r, drm, fault) ==
    /\ Result(r) /\ r.h.allowDrm
    /\ r.ok => Streams(r.h, drm)
    /\ fault \notin RunFaults => r.ok

\* exynos_gsc_m2m_run_core from the formats on: of a new format, or of the one
\* that runs, whose frame has been taken back.
LEMMA StartsFrom ==
    ASSUME NEW drm \in BOOLEAN, NEW h, NEW changed \in BOOLEAN, NEW fault,
           h \in Handle, h.allowDrm, h.src.drm = drm, h.dst.drm = drm,
           changed => Waits(h, drm),
           ~ changed => /\ h.src.on /\ h.src.allocated /\ ~ h.src.queued /\ ~ h.src.dirty
                        /\ h.dst.on /\ h.dst.allocated /\ ~ h.dst.queued /\ ~ h.dst.dirty
                        /\ h.believesProtected = drm /\ (drm => h.secure)
    PROVE  RunsFrom(Started(h, changed, fault), drm, fault)
  <1>a. PICK a : a = FormatSrc(h, fault)
    OBVIOUS
  <1>b. PICK b : b = IF a.ok THEN FormatDst(a.h, fault) ELSE a
    OBVIOUS
  <1>c. PICK c : c = IF b.ok THEN Protect(b.h, changed, fault) ELSE b
    OBVIOUS
  <1>d. PICK d : d = IF c.ok THEN QueueSrc(c.h, fault) ELSE c
    OBVIOUS
  <1>e. PICK e : e = IF d.ok THEN QueueDst(d.h, fault) ELSE d
    OBVIOUS
  <1>f. PICK f : f = IF e.ok THEN StreamSrc(e.h, fault) ELSE e
    OBVIOUS
  <1>g. PICK g : g = IF f.ok THEN StreamDst(f.h, fault) ELSE f
    OBVIOUS
  <1>0. Started(h, changed, fault) = IF g.ok THEN g ELSE Fail(Stop(g.h))
    BY <1>a, <1>b, <1>c, <1>d, <1>e, <1>f, <1>g DEF Started, Then
  <1> DEFINE Fine(r) == Result(r) /\ r.h.allowDrm /\ (fault \notin RunFaults => r.ok)
             Drm(r) == r.h.src.drm = drm /\ r.h.dst.drm = drm
             SrcFormat(r) == ~ r.h.src.dirty /\ r.h.src.allocated /\ ~ r.h.src.queued
             DstFormat(r) == ~ r.h.dst.dirty /\ r.h.dst.allocated /\ ~ r.h.dst.queued
             Path(r) == r.h.believesProtected = drm /\ (drm => r.h.secure)
             Before(r) == changed => ~ r.h.believesProtected
             Same(r) == ~ changed => r.h = h
  <1>1. Fine(a) /\ (a.ok => Drm(a) /\ SrcFormat(a) /\ Before(a) /\ Same(a) /\ a.h.dst = h.dst)
    BY <1>a, FormatSrcOf DEF Waits, Stopped, Rest, RunFaults, Result
  <1>2. Fine(b) /\ (b.ok => Drm(b) /\ SrcFormat(b) /\ DstFormat(b) /\ Before(b) /\ Same(b))
    BY <1>1, <1>b, FormatDstOf DEF Waits, Stopped, Rest, RunFaults, Result
  <1>3. Fine(c) /\ (c.ok => Drm(c) /\ SrcFormat(c) /\ DstFormat(c) /\ Path(c))
    <2>1. CASE ~ b.ok
      BY <1>2, <1>c, <2>1
    <2>2. CASE b.ok
      <3>1. c = Protect(b.h, changed, fault)
        BY <1>c, <2>2
      <3>2. Fine(c) /\ c.h.src = b.h.src /\ c.h.dst = b.h.dst
        BY <1>2, <2>2, <3>1, ProtectOf DEF RunFaults, Result
      <3>3. CASE ~ changed
        BY <1>2, <2>2, <3>1, <3>2, <3>3, ProtectOf DEF Result
      <3>4. CASE changed /\ drm
        BY <1>2, <2>2, <3>1, <3>2, <3>4, ProtectOf DEF Result, Handle
      <3>5. CASE changed /\ ~ drm
        BY <1>2, <2>2, <3>1, <3>2, <3>5, ProtectOf DEF Result, Handle
      <3> QED
        BY <3>3, <3>4, <3>5
    <2> QED
      BY <2>1, <2>2
  <1>4. Fine(d) /\ (d.ok => /\ Drm(d) /\ DstFormat(d) /\ Path(d)
                            /\ ~ d.h.src.dirty /\ d.h.src.allocated /\ d.h.src.queued /\ d.h.src.marked)
    BY <1>3, <1>d, QueueSrcOf DEF RunFaults, Result, Rest
  <1> DEFINE Queued(r) == /\ ~ r.h.src.dirty /\ r.h.src.allocated /\ r.h.src.queued /\ r.h.src.marked
                          /\ ~ r.h.dst.dirty /\ r.h.dst.allocated /\ r.h.dst.queued /\ r.h.dst.marked
  <1>5. Fine(e) /\ (e.ok => Drm(e) /\ Path(e) /\ Queued(e))
    BY <1>4, <1>e, QueueDstOf DEF RunFaults, Result, Rest
  <1>6. Fine(f) /\ (f.ok => Drm(f) /\ Path(f) /\ Queued(f) /\ f.h.src.on)
    BY <1>5, <1>f, StreamSrcOf DEF RunFaults, Result, Rest
  <1>7. Fine(g) /\ (g.ok => Drm(g) /\ Path(g) /\ Queued(g) /\ g.h.src.on /\ g.h.dst.on)
    BY <1>6, <1>g, StreamDstOf DEF RunFaults, Result, Rest
  <1>8. CASE g.ok
    BY <1>0, <1>7, <1>8 DEF RunsFrom, Streams, Result
  <1>9. CASE ~ g.ok
    <2>1. Stop(g.h) \in Handle /\ Stop(g.h).allowDrm
      BY <1>7, StopOf DEF Result
    <2> QED
      BY <1>0, <1>7, <1>9, <2>1 DEF RunsFrom, Result, Fail
  <1> QED
    BY <1>8, <1>9

\* A run refused at once.
LEMMA Refused ==
    ASSUME NEW h \in Handle, h.allowDrm, NEW drm, NEW fault \in RunFaults
    PROVE  RunsFrom(Fail(h), drm, fault)
  <1>1. Fail(h).h = h /\ ~ Fail(h).ok /\ Fail(h).ok \in BOOLEAN
    BY DEF Fail
  <1> QED
    BY <1>1 DEF RunsFrom, Result

\* exynos_gsc_m2m_run_core with a new format, and with the one it has.
LEMMA RunsNew ==
    ASSUME NEW drm \in BOOLEAN, NEW h, Waits(h, drm), NEW fault
    PROVE  RunsFrom(RunCore(h, fault), drm, fault)
  <1>1. h \in Handle /\ h.allowDrm /\ ~ h.src.on /\ h.src.drm = drm /\ h.dst.drm = drm
        /\ h.src.dirty
    BY DEF Waits, Stopped
  <1>2. CASE fault = "size"
    <2>1. RunCore(h, fault) = Fail(h)
      BY <1>2 DEF RunCore
    <2> QED
      BY <1>1, <1>2, <2>1, Refused DEF RunFaults
  <1>3. CASE fault # "size"
    <2>1. RunCore(h, fault) = Started(Ok(h).h, TRUE, fault)
      BY <1>1, <1>3 DEF RunCore, Ok
    <2>2. RunsFrom(Started(h, TRUE, fault), drm, fault)
      BY <1>1, StartsFrom
    <2>3. Ok(h).h = h
      BY DEF Ok
    <2> QED
      BY <2>1, <2>2, <2>3
  <1> QED
    BY <1>2, <1>3

LEMMA RunsAgain ==
    ASSUME NEW drm \in BOOLEAN, NEW h, Streams(h, drm), NEW fault
    PROVE  RunsFrom(RunCore(h, fault), drm, fault)
  <1>1. /\ h \in Handle /\ h.allowDrm /\ h.src.on /\ h.dst.on /\ h.src.drm = drm /\ h.dst.drm = drm
        /\ ~ h.src.dirty /\ ~ h.dst.dirty /\ h.src.allocated /\ h.dst.allocated
        /\ h.believesProtected = drm /\ (drm => h.secure)
    BY DEF Streams
  <1>2. CASE fault = "size"
    <2>1. RunCore(h, fault) = Fail(h)
      BY <1>2 DEF RunCore
    <2> QED
      BY <1>1, <1>2, <2>1, Refused DEF RunFaults
  <1>3. CASE fault # "size"
    <2>1. PICK free : free = WaitFrameDone(h, fault)
      OBVIOUS
    <2>2. RunCore(h, fault) = IF ~ free.ok THEN free ELSE Started(free.h, FALSE, fault)
      BY <1>1, <1>3, <2>1 DEF RunCore
    <2>3. Result(free) /\ Rest(free.h) = Rest(h) /\ (fault \notin RunFaults => free.ok)
      BY <1>1, <2>1, WaitFrameDoneOf DEF RunFaults
    <2>4. free.h.allowDrm /\ free.h.believesProtected = drm /\ (drm => free.h.secure)
      BY <1>1, <2>3 DEF Rest
    <2>5. CASE ~ free.ok
      BY <2>2, <2>3, <2>4, <2>5 DEF RunsFrom
    <2>6. CASE free.ok
      <3>1. RunsFrom(Started(free.h, FALSE, fault), drm, fault)
        <4>1. /\ free.h.src.on /\ free.h.src.allocated /\ ~ free.h.src.queued /\ ~ free.h.src.dirty
              /\ free.h.dst.on /\ free.h.dst.allocated /\ ~ free.h.dst.queued /\ ~ free.h.dst.dirty
              /\ free.h.src.drm = drm /\ free.h.dst.drm = drm /\ free.h \in Handle
          BY <1>1, <2>1, <2>6, WaitFrameDoneOf DEF Result
        <4> QED
          BY <2>4, <4>1, StartsFrom
      <3> QED
        BY <2>2, <2>6, <3>1
    <2> QED
      BY <2>5, <2>6
  <1> QED
    BY <1>2, <1>3

-----------------------------------------------------------------------------
(* A frame of the composer.                                                  *)

FrameStates ==
    [alive : BOOLEAN, unit : Handle, saved : Configs \cup {NoConfig}, slots : [Ring -> Nat],
     current : Ring, open : SUBSET (Nat \ {0}), shows : [Ring -> Nat],
     written : [got : Nat, right : Nat]]

\* The fences that are open and not kept with a buffer.
Loose(s) == s.open \ Fences(s)

\* Every buffer has its own fence, which is open and is the one after which
\* the display reads the buffer no more.
BuffersGuarded(s) ==
    /\ IsFiniteSet(s.open)
    /\ Fences(s) \subseteq s.open
    /\ s.shows = s.slots
    /\ \A a, b \in Ring : s.slots[a] = s.slots[b] /\ s.slots[a] # 0 => a = b
    /\ s.written.got = s.written.right

\* The handle runs with the format that the composer notes, or is not there.
UnitAgrees(s) ==
    IF s.alive THEN s.saved \in Configs /\ Streams(s.unit, s.saved \in DrmConfigs)
               ELSE s.saved = NoConfig /\ Stopped(s.unit)

Fit(s) == s \in FrameStates /\ BuffersGuarded(s) /\ UnitAgrees(s)

ScalerInv ==
    /\ want \in Configs \cup {NoConfig} /\ phase \in {"prepare", "set", "crashed"}
    /\ Fit(Here)

LEMMA NoFencesFacts ==
    /\ NoFences \in [Ring -> Nat] /\ 0 \in Ring
    /\ \A s \in FrameStates : s.slots = NoFences => Fences(s) = {}
  BY HwcGscalerAssumption DEF NoFences, Ring, Fences

\* What Cleared leaves alone and what it does.
LEMMA ClearedOf ==
    ASSUME NEW s \in FrameStates, IsFiniteSet(s.open)
    PROVE  /\ Cleared(s) \in FrameStates /\ IsFiniteSet(Cleared(s).open)
           /\ Cleared(s).open = Loose(s) /\ Cleared(s).slots = NoFences
           /\ Cleared(s).shows = NoFences
           /\ Cleared(s).alive = s.alive /\ Cleared(s).unit = s.unit
           /\ Cleared(s).saved = s.saved /\ Cleared(s).current = s.current
           /\ Cleared(s).written = s.written
  <1>1. /\ Cleared(s) \in FrameStates
        /\ Cleared(s).open = Loose(s) /\ Cleared(s).slots = NoFences
        /\ Cleared(s).shows = NoFences
        /\ Cleared(s).alive = s.alive /\ Cleared(s).unit = s.unit
        /\ Cleared(s).saved = s.saved /\ Cleared(s).current = s.current
        /\ Cleared(s).written = s.written
    BY NoFencesFacts DEF Cleared, FrameStates, Loose
  <1>2. IsFiniteSet(Loose(s))
    BY FS_Subset DEF Loose
  <1> QED
    BY <1>1, <1>2

\* A state without fences in the ring.
LEMMA EmptyIsGuarded ==
    ASSUME NEW s \in FrameStates, IsFiniteSet(s.open), s.slots = NoFences, s.shows = NoFences,
           s.written.got = s.written.right
    PROVE  BuffersGuarded(s)
  BY NoFencesFacts DEF BuffersGuarded, NoFences

\* exynos5_cleanup_gsc_m2m closes what is kept and nothing else.
LEMMA CleanupFits ==
    ASSUME NEW s, Fit(s)
    PROVE  Fit(Cleanup(s)) /\ Loose(Cleanup(s)) = Loose(s)
  <1>1. CASE ~ s.alive
    BY <1>1 DEF Cleanup
  <1>2. CASE s.alive
    <2> DEFINE t == Destroy([s EXCEPT !.unit = Stop(s.unit)])
               u == [Cleared(t) EXCEPT !.saved = NoConfig, !.current = 0]
    <2>1. Cleanup(s) = u
      BY <1>2 DEF Cleanup
    <2>2. s \in FrameStates /\ s.unit \in Handle /\ s.unit.allowDrm /\ IsFiniteSet(s.open)
      BY <1>2 DEF Fit, UnitAgrees, Streams, BuffersGuarded
    <2>3. Stop(s.unit) \in Handle /\ Stopped(Destroyed(Stop(s.unit)))
      BY <2>2, StopOf, DestroyedIsStopped
    <2>4. /\ t \in FrameStates /\ t.open = s.open /\ t.slots = s.slots /\ t.written = s.written
          /\ t.alive = FALSE /\ t.unit = Destroyed(Stop(s.unit))
      BY <2>2, <2>3 DEF Destroy, FrameStates, Stopped
    <2> HIDE DEF t
    <2>5. Cleared(t).open = Loose(s) /\ Loose(t) = Loose(s)
      BY <2>2, <2>4, ClearedOf DEF Loose, Fences
    <2>6. /\ u \in FrameStates /\ u.open = Loose(s) /\ u.slots = NoFences /\ u.shows = NoFences
          /\ u.written = s.written /\ u.alive = FALSE /\ u.saved = NoConfig
          /\ u.unit = Destroyed(Stop(s.unit)) /\ IsFiniteSet(u.open)
      <3>1. PICK c : c = Cleared(t)
        OBVIOUS
      <3>2. /\ c \in FrameStates /\ c.open = Loose(s) /\ c.slots = NoFences /\ c.shows = NoFences
            /\ c.written = s.written /\ c.alive = FALSE /\ c.unit = Destroyed(Stop(s.unit))
            /\ IsFiniteSet(Loose(s))
        BY <2>2, <2>4, <2>5, <3>1, ClearedOf
      <3>3. u = [c EXCEPT !.saved = NoConfig, !.current = 0]
        BY <3>1
      <3> HIDE DEF u
      <3> QED
        BY <3>2, <3>3, NoFencesFacts DEF FrameStates
    <2> HIDE DEF u
    <2>7. BuffersGuarded(u)
      BY <2>6, EmptyIsGuarded DEF Fit, BuffersGuarded
    <2>8. UnitAgrees(u)
      BY <2>3, <2>6 DEF UnitAgrees
    <2>9. Loose(u) = Loose(s)
      BY <2>6, NoFencesFacts DEF Loose
    <2> QED
      BY <2>1, <2>6, <2>7, <2>8, <2>9 DEF Fit
  <1> QED
    BY <1>1, <1>2

\* The state that the G-Scaler's part of a frame begins with.
Begins(s, acquire) ==
    /\ s \in FrameStates /\ BuffersGuarded(s)
    /\ acquire \in s.open /\ acquire \notin Fences(s)
    /\ IF s.alive THEN \E d \in BOOLEAN : Streams(s.unit, d) ELSE Stopped(s.unit)
    /\ s.saved = want => s.alive /\ Streams(s.unit, want \in DrmConfigs)

\* What Scaled makes of s when it comes through.
ScaledThrough(r, s, acquire) ==
    /\ r.s \in FrameStates /\ IsFiniteSet(r.s.open)
    /\ r.window \in r.s.open /\ r.window \notin s.open \ {acquire, s.slots[s.current]}
    /\ r.s.open = (s.open \ {acquire, s.slots[s.current]}) \cup {r.window}
    /\ r.s.slots = [s.slots EXCEPT ![s.current] = 0] /\ r.s.shows = s.shows
    /\ r.s.current = s.current
    /\ r.s.written.got = r.s.written.right
    /\ r.s.alive /\ r.s.saved = want /\ Streams(r.s.unit, want \in DrmConfigs)

LEMMA AbandonedOf ==
    ASSUME NEW s \in FrameStates, NEW acquire, IsFiniteSet(s.open),
           ~ s.alive, Stopped(s.unit), s.written.got = s.written.right
    PROVE  Fit(Abandoned(s, acquire)) /\ Abandoned(s, acquire).slots = NoFences
  <1> DEFINE t == [s EXCEPT !.open = @ \ {acquire}]
  <1>1. /\ t \in FrameStates /\ t.alive = s.alive /\ t.unit = s.unit /\ t.written = s.written
        /\ t.open = s.open \ {acquire}
    BY DEF FrameStates
  <1>2. IsFiniteSet(t.open)
    BY <1>1, FS_Subset
  <1>3. Abandoned(s, acquire) = [Cleared(t) EXCEPT !.saved = NoConfig]
    BY DEF Abandoned
  <1> HIDE DEF t
  <1>4. PICK c : c = Cleared(t)
    OBVIOUS
  <1>5. /\ c \in FrameStates /\ c.slots = NoFences /\ c.shows = NoFences
        /\ c.written = s.written /\ c.alive = s.alive /\ c.unit = s.unit
        /\ IsFiniteSet(c.open)
    BY <1>1, <1>2, <1>4, ClearedOf
  <1>6. PICK u : u = [c EXCEPT !.saved = NoConfig]
    OBVIOUS
  <1>7. /\ u \in FrameStates /\ u.slots = NoFences /\ u.shows = NoFences
        /\ u.written = s.written /\ u.alive = s.alive /\ u.unit = s.unit
        /\ u.saved = NoConfig /\ u.open = c.open
    BY <1>5, <1>6 DEF FrameStates
  <1>8. BuffersGuarded(u)
    BY <1>5, <1>7, EmptyIsGuarded
  <1> QED
    BY <1>3, <1>4, <1>6, <1>7, <1>8 DEF Fit, UnitAgrees

\* The G-Scaler's part of exynos5_config_gsc_m2m: it comes through with a
\* handle that runs and a new fence, or everything is given up.
LEMMA ScaledOf ==
    ASSUME NEW s, NEW acquire, NEW fault, want \in Configs, Begins(s, acquire),
           NEW r, r = Scaled(s, acquire, fault)
    PROVE  /\ r.ok => ScaledThrough(r, s, acquire)
           /\ ~ r.ok => Fit(r.s) /\ r.s.slots = NoFences /\ r.window = 0
           /\ fault \notin RunFaults \cup {"create"} => r.ok
  <1> DEFINE drm == want \in DrmConfigs
             guard == s.slots[s.current]
  <1>0. drm \in BOOLEAN
    <2>1. CASE drm
      BY <2>1
    <2>2. CASE ~ drm
      BY <2>2
    <2> QED
      BY <2>1, <2>2
  <1>a. PICK taken : taken = [s EXCEPT !.slots[s.current] = 0]
    OBVIOUS
  <1>b. PICK opened :
           opened = IF taken.alive THEN taken
                    ELSE [taken EXCEPT !.alive = TRUE,
                                       !.unit = [NewHandle(TRUE) EXCEPT !.secure = taken.unit.secure]]
    OBVIOUS
  <1>c. PICK set : set = IF s.saved # want THEN [opened EXCEPT !.unit = Config(Stop(@), drm)] ELSE opened
    OBVIOUS
  <1> DEFINE unstopped ==
               s.saved # want /\ fault = "stop" /\ (opened.unit.src.on \/ opened.unit.dst.on)
  <1>d. PICK run : run = IF unstopped THEN Fail(set.unit) ELSE RunCore(set.unit, fault)
    OBVIOUS
  <1>e. PICK after : after = [set EXCEPT !.unit = run.h]
    OBVIOUS
  <1>1. /\ s \in FrameStates /\ IsFiniteSet(s.open) /\ s.shows = s.slots
        /\ s.written.got = s.written.right /\ s.current \in Ring
        /\ s.slots \in [Ring -> Nat]
    BY DEF Begins, BuffersGuarded, FrameStates
  <1>2. /\ taken \in FrameStates /\ taken.slots = [s.slots EXCEPT ![s.current] = 0]
        /\ taken.alive = s.alive /\ taken.unit = s.unit /\ taken.saved = s.saved
        /\ taken.open = s.open /\ taken.shows = s.shows /\ taken.current = s.current
        /\ taken.written = s.written
    <2>1. [s.slots EXCEPT ![s.current] = 0] \in [Ring -> Nat]
      BY <1>1
    <2>2. taken = [s EXCEPT !.slots = [s.slots EXCEPT ![s.current] = 0]]
      BY <1>a
    <2> QED
      BY <1>1, <2>1, <2>2 DEF FrameStates
  <1> DEFINE Kept(t) == /\ t.slots = taken.slots /\ t.open = s.open /\ t.shows = s.shows
                        /\ t.current = s.current /\ t.written = s.written
  <1>3. /\ opened \in FrameStates /\ Kept(opened) /\ opened.alive
        /\ Stopped(opened.unit) \/ \E d \in BOOLEAN : Streams(opened.unit, d)
        /\ s.saved = want => Streams(opened.unit, drm)
    <2>1. CASE s.alive
      BY <1>2, <1>b, <2>1 DEF Begins
    <2>2. CASE ~ s.alive
      <3>1. PICK n : n = [NewHandle(TRUE) EXCEPT !.secure = taken.unit.secure]
        OBVIOUS
      <3>2. Stopped(n) /\ n \in Handle
        <4>1. taken.unit.secure \in BOOLEAN
          BY <1>2 DEF FrameStates, Handle
        <4> QED
          BY <3>1, <4>1 DEF NewHandle, NewSide, Stopped, Handle, Side
      <3>3. opened = [taken EXCEPT !.alive = TRUE, !.unit = n]
        BY <1>2, <1>b, <2>2, <3>1
      <3>4. /\ opened \in FrameStates /\ Kept(opened) /\ opened.alive = TRUE /\ opened.unit = n
        BY <1>2, <3>2, <3>3 DEF FrameStates
      <3> QED
        BY <2>2, <3>2, <3>4 DEF Begins
    <2> QED
      BY <2>1, <2>2
  <1>4. /\ set \in FrameStates /\ Kept(set) /\ set.alive
        /\ IF s.saved # want THEN Waits(set.unit, drm) ELSE Streams(set.unit, drm)
    <2>1. CASE s.saved = want
      BY <1>3, <1>c, <2>1
    <2>2. CASE s.saved # want
      <3>1. PICK n : n = Config(Stop(opened.unit), drm)
        OBVIOUS
      <3>2. PICK d \in BOOLEAN : d = drm
        BY <1>0, Zenon
      <3>3. Waits(n, d) /\ n \in Handle
        BY <1>3, <3>1, <3>2, ConfiguredAnew
      <3>4. set = [opened EXCEPT !.unit = n]
        BY <1>c, <2>2, <3>1
      <3>5. /\ set \in FrameStates /\ Kept(set) /\ set.alive = opened.alive /\ set.unit = n
        BY <1>3, <3>3, <3>4 DEF FrameStates
      <3> QED
        BY <1>3, <2>2, <3>2, <3>3, <3>5
    <2> QED
      BY <2>1, <2>2
  <1>5. RunsFrom(run, drm, fault)
    <2>1. PICK d \in BOOLEAN : d = drm
      BY <1>0, Zenon
    <2>2. CASE unstopped
      <3>1. run = Fail(set.unit) /\ fault \in RunFaults
        BY <1>d, <2>2 DEF RunFaults
      <3>2. set.unit \in Handle /\ set.unit.allowDrm
        BY <1>4, <2>2 DEF Waits, Stopped
      <3> QED
        BY <3>1, <3>2, Refused
    <2>3. CASE ~ unstopped
      <3>1. run = RunCore(set.unit, fault)
        BY <1>d, <2>3
      <3> QED
        BY <1>4, <2>1, <3>1, RunsNew, RunsAgain
    <2> QED
      BY <2>2, <2>3
  <1>6. /\ after \in FrameStates /\ Kept(after) /\ after.alive = set.alive /\ after.unit = run.h
    BY <1>4, <1>5, <1>e DEF FrameStates, RunsFrom, Result
  <1>7. r = IF ~ taken.alive /\ fault = "create"
            THEN [ok |-> FALSE, window |-> 0, s |-> Abandoned(taken, acquire)]
            ELSE IF ~ run.ok
            THEN [ok |-> FALSE, window |-> 0,
                  s |-> Abandoned(Destroy([after EXCEPT !.open = @ \cup Leaked(@, fault)]),
                                  acquire)]
            ELSE LET closed == after.open \ {acquire, guard}
                     made == Fresh(closed)
                 IN [ok |-> TRUE, window |-> made,
                     s |-> [after EXCEPT !.open = closed \cup {made}, !.saved = want,
                                         !.written = [got |-> guard, right |-> s.shows[s.current]]]]
    BY <1>a, <1>b, <1>c, <1>d, <1>e DEF Scaled
  <1> HIDE DEF drm, guard
  <1>8. CASE ~ taken.alive /\ fault = "create"
    <2>1. ~ r.ok /\ r.s = Abandoned(taken, acquire) /\ r.window = 0
      BY <1>7, <1>8
    <2>2. Fit(Abandoned(taken, acquire)) /\ Abandoned(taken, acquire).slots = NoFences
      BY <1>1, <1>2, <1>8, AbandonedOf DEF Begins
    <2> QED
      BY <1>8, <2>1, <2>2
  <1>9. CASE ~ (~ taken.alive /\ fault = "create") /\ ~ run.ok
    <2>1. PICK extra : extra = Leaked(after.open, fault)
      OBVIOUS
    <2>2. PICK t : t = Destroy([after EXCEPT !.open = after.open \cup extra])
      OBVIOUS
    <2>3. ~ r.ok /\ r.s = Abandoned(t, acquire) /\ r.window = 0
      <3>1. [after EXCEPT !.open = @ \cup Leaked(@, fault)] =
                [after EXCEPT !.open = after.open \cup extra]
        BY <1>6, <2>1 DEF FrameStates
      <3> QED
        BY <1>7, <1>9, <2>2, <3>1
    <2>4. after.open \in SUBSET (Nat \ {0}) /\ IsFiniteSet(after.open)
      BY <1>1, <1>6 DEF FrameStates
    <2>5. extra \in SUBSET (Nat \ {0}) /\ IsFiniteSet(after.open \cup extra)
      <3>1. PICK source : source = Fresh(after.open)
        OBVIOUS
      <3>2. source \in Nat \ {0} /\ IsFiniteSet(after.open \cup {source})
        BY <2>4, <3>1, FreshIsNew, FS_AddElement
      <3>3. PICK target : target = Fresh(after.open \cup {source})
        OBVIOUS
      <3>4. /\ target \in Nat \ {0}
            /\ IsFiniteSet((after.open \cup {source}) \cup {target})
        BY <2>4, <3>2, <3>3, FreshIsNew, FS_AddElement
      <3>5. extra \subseteq {source, target}
        BY <2>1, <3>1, <3>3 DEF Leaked
      <3>6. after.open \cup extra \subseteq (after.open \cup {source}) \cup {target}
        BY <3>5
      <3> QED
        BY <3>2, <3>4, <3>5, <3>6, FS_Subset
    <2>6. Stopped(Destroyed(run.h)) /\ Destroyed(run.h) \in Handle
      BY <1>5, DestroyedIsStopped DEF RunsFrom, Result, Stopped
    <2>7. PICK k : k = [after EXCEPT !.open = after.open \cup extra]
      OBVIOUS
    <2>8. /\ k \in FrameStates /\ k.open = after.open \cup extra /\ k.unit = run.h
          /\ k.written = s.written
      BY <1>6, <2>4, <2>5, <2>7 DEF FrameStates
    <2>9. t = [k EXCEPT !.alive = FALSE, !.unit = Destroyed(run.h)]
      BY <2>2, <2>7, <2>8 DEF Destroy
    <2>10. /\ t \in FrameStates /\ t.open = after.open \cup extra /\ t.alive = FALSE
           /\ t.unit = Destroyed(run.h) /\ t.written = s.written
      BY <2>6, <2>8, <2>9 DEF FrameStates
    <2>11. Fit(r.s) /\ r.s.slots = NoFences
      BY <1>1, <2>3, <2>5, <2>6, <2>10, AbandonedOf
    <2> QED
      BY <1>5, <1>9, <2>3, <2>11 DEF RunsFrom
  <1>10. CASE ~ (~ taken.alive /\ fault = "create") /\ run.ok
    <2>1. PICK closed : closed = s.open \ {acquire, guard}
      OBVIOUS
    <2>2. PICK made : made = Fresh(closed)
      OBVIOUS
    <2>3. PICK w : w = [got |-> guard, right |-> s.shows[s.current]]
      OBVIOUS
    <2>4. PICK t : t = [after EXCEPT !.open = closed \cup {made}, !.saved = want, !.written = w]
      OBVIOUS
    <2>5. r.ok /\ r.window = made /\ r.s = t
      BY <1>6, <1>7, <1>10, <2>1, <2>2, <2>3, <2>4
    <2>6. closed \in SUBSET (Nat \ {0}) /\ IsFiniteSet(closed)
      BY <1>1, <2>1, FS_Subset DEF FrameStates
    <2>7. made \in Nat \ {0} /\ made \notin closed /\ IsFiniteSet(closed \cup {made})
      BY <2>2, <2>6, FreshIsNew, FS_AddElement
    <2>8. w \in [got : Nat, right : Nat] /\ w.got = w.right
      BY <1>1, <2>3 DEF guard
    <2>9. /\ t \in FrameStates /\ t.open = closed \cup {made} /\ t.saved = want /\ t.written = w
          /\ t.slots = after.slots /\ t.shows = after.shows /\ t.current = after.current
          /\ t.alive = after.alive /\ t.unit = after.unit
      BY <1>6, <2>4, <2>6, <2>7, <2>8 DEF FrameStates
    <2>10. Streams(t.unit, drm)
      BY <1>5, <1>6, <1>10, <2>9 DEF RunsFrom
    <2>11. ScaledThrough(r, s, acquire)
      BY <1>2, <1>4, <1>6, <2>1, <2>5, <2>7, <2>8, <2>9, <2>10 DEF ScaledThrough, drm, guard
    <2> QED
      BY <2>5, <2>11
  <1> QED
    BY <1>8, <1>9, <1>10

\* exynos5_config_gsc_m2m: another format begins with an empty ring.
LEMMA ConfigGscOf ==
    ASSUME NEW s, NEW acquire, NEW fault, want \in Configs, Fit(s),
           acquire \in Loose(s), NEW r, r = ConfigGsc(s, acquire, fault)
    PROVE  \E b : /\ Begins(b, acquire) /\ Loose(b) = Loose(s)
                  /\ r.ok => ScaledThrough(r, b, acquire)
                  /\ ~ r.ok => Fit(r.s) /\ r.s.slots = NoFences /\ r.window = 0
                  /\ fault \notin RunFaults \cup {"create"} => r.ok
  <1>0. s \in FrameStates /\ IsFiniteSet(s.open) /\ BuffersGuarded(s)
    BY DEF Fit, BuffersGuarded
  <1>1. want # NoConfig
    BY HwcGscalerAssumption
  <1>2. ASSUME NEW b, Begins(b, acquire), Loose(b) = Loose(s), r = Scaled(b, acquire, fault)
        PROVE  \E c : /\ Begins(c, acquire) /\ Loose(c) = Loose(s)
                      /\ r.ok => ScaledThrough(r, c, acquire)
                      /\ ~ r.ok => Fit(r.s) /\ r.s.slots = NoFences /\ r.window = 0
                      /\ fault \notin RunFaults \cup {"create"} => r.ok
    <2>1. /\ r.ok => ScaledThrough(r, b, acquire)
          /\ ~ r.ok => Fit(r.s) /\ r.s.slots = NoFences /\ r.window = 0
          /\ fault \notin RunFaults \cup {"create"} => r.ok
      BY <1>2, ScaledOf
    <2> QED
      BY <1>2, <2>1
  <1>3. CASE s.saved = want
    <2>1. r = Scaled(s, acquire, fault)
      BY <1>3 DEF ConfigGsc
    <2>2. s.alive /\ Streams(s.unit, want \in DrmConfigs) /\ (want \in DrmConfigs) \in BOOLEAN
      BY <1>1, <1>3 DEF Fit, UnitAgrees
    <2>3. Begins(s, acquire)
      <3>1. \E d \in BOOLEAN : Streams(s.unit, d)
        BY <2>2, Zenon
      <3> QED
        BY <1>0, <2>2, <3>1 DEF Begins, Loose
    <2> QED
      BY <1>2, <2>1, <2>3
  <1>4. CASE s.saved # want
    <2>1. PICK c : c = Cleared(s)
      OBVIOUS
    <2>2. PICK b : b = [c EXCEPT !.current = 0]
      OBVIOUS
    <2>3. r = Scaled(b, acquire, fault)
      BY <1>4, <2>1, <2>2 DEF ConfigGsc
    <2>4. /\ c \in FrameStates /\ IsFiniteSet(c.open) /\ c.open = Loose(s)
          /\ c.slots = NoFences /\ c.shows = NoFences /\ c.alive = s.alive /\ c.unit = s.unit
          /\ c.saved = s.saved /\ c.written = s.written
      BY <1>0, <2>1, ClearedOf
    <2>5. /\ b \in FrameStates /\ IsFiniteSet(b.open) /\ b.open = Loose(s)
          /\ b.slots = NoFences /\ b.shows = NoFences /\ b.alive = s.alive /\ b.unit = s.unit
          /\ b.saved = s.saved /\ b.written = s.written
      BY <2>2, <2>4, NoFencesFacts DEF FrameStates
    <2>6. BuffersGuarded(b)
      BY <1>0, <2>5, EmptyIsGuarded DEF BuffersGuarded
    <2>7. Loose(b) = Loose(s) /\ acquire \in b.open /\ acquire \notin Fences(b)
      BY <2>5, NoFencesFacts DEF Loose
    <2>8. IF s.alive THEN \E d \in BOOLEAN : Streams(s.unit, d) ELSE Stopped(s.unit)
      <3>1. CASE s.alive
        <4>1. Streams(s.unit, s.saved \in DrmConfigs) /\ (s.saved \in DrmConfigs) \in BOOLEAN
          BY <3>1 DEF Fit, UnitAgrees
        <4>2. \E d \in BOOLEAN : Streams(s.unit, d)
          BY <4>1, Zenon
        <4> QED
          BY <3>1, <4>2
      <3>2. CASE ~ s.alive
        BY <3>2 DEF Fit, UnitAgrees
      <3> QED
        BY <3>1, <3>2
    <2>9. Begins(b, acquire)
      BY <1>4, <2>5, <2>6, <2>7, <2>8 DEF Begins
    <2> QED
      BY <1>2, <2>3, <2>7, <2>9
  <1> QED
    BY <1>3, <1>4

\* The same, but the display's fence of the current buffer has been taken out
\* of the ring.
CurrentOpen(s) ==
    /\ IsFiniteSet(s.open)
    /\ Fences(s) \subseteq s.open
    /\ \A b \in Ring : b # s.current => s.shows[b] = s.slots[b]
    /\ \A a, b \in Ring : s.slots[a] = s.slots[b] /\ s.slots[a] # 0 => a = b
    /\ s.written.got = s.written.right

\* The fence of the frame is kept with the buffer that it showed.
LEMMA ReleasedOf ==
    ASSUME NEW s \in FrameStates, CurrentOpen(s)
    PROVE  /\ Released(s) \in FrameStates /\ BuffersGuarded(Released(s))
           /\ Released(s).alive = s.alive /\ Released(s).unit = s.unit
           /\ Released(s).saved = s.saved
           /\ s.slots[s.current] = 0 => Loose(Released(s)) = Loose(s)
  <1>1. PICK dup : dup = Fresh(s.open)
    OBVIOUS
  <1>2. PICK next : next = (s.current + 1) % NumBufs
    OBVIOUS
  <1>3. PICK sl : sl = [s.slots EXCEPT ![s.current] = dup]
    OBVIOUS
  <1>4. PICK t : t = [s EXCEPT !.open = @ \cup {dup}, !.slots = sl, !.shows = sl, !.current = next]
    OBVIOUS
  <1>5. /\ s.open \in SUBSET (Nat \ {0}) /\ IsFiniteSet(s.open) /\ s.slots \in [Ring -> Nat]
        /\ s.current \in Ring /\ s.shows \in [Ring -> Nat]
    BY DEF FrameStates, CurrentOpen
  <1>6. dup \in Nat \ {0} /\ dup \notin s.open /\ IsFiniteSet(s.open \cup {dup})
    BY <1>1, <1>5, FreshIsNew, FS_AddElement
  <1>7. next \in Ring
    BY <1>2, <1>5, HwcGscalerAssumption DEF Ring
  <1>8. /\ sl \in [Ring -> Nat] /\ sl[s.current] = dup
        /\ \A b \in Ring : b # s.current => sl[b] = s.slots[b]
    BY <1>3, <1>5, <1>6
  <1>9. Released(s) = t
    <2>1. sl = [s.shows EXCEPT ![s.current] = dup]
      BY <1>3, <1>5, <1>6 DEF CurrentOpen
    <2> QED
      BY <1>1, <1>2, <1>3, <1>4, <2>1 DEF Released
  <1>10. /\ t \in FrameStates /\ t.open = s.open \cup {dup} /\ t.slots = sl /\ t.shows = sl
         /\ t.alive = s.alive /\ t.unit = s.unit /\ t.saved = s.saved /\ t.written = s.written
    BY <1>4, <1>5, <1>6, <1>7, <1>8 DEF FrameStates
  <1>11. Fences(s) = {s.slots[b] : b \in Ring} \ {0} /\ Fences(t) = {sl[b] : b \in Ring} \ {0}
    BY <1>10 DEF Fences
  <1>12. Fences(t) \subseteq t.open
    BY <1>5, <1>8, <1>10, <1>11 DEF CurrentOpen
  <1>13. \A a, b \in Ring : sl[a] = sl[b] /\ sl[a] # 0 => a = b
    <2> SUFFICES ASSUME NEW a \in Ring, NEW b \in Ring, sl[a] = sl[b], sl[a] # 0
                 PROVE  a = b
      OBVIOUS
    <2>1. \A c \in Ring : c # s.current => sl[c] # dup
      BY <1>6, <1>8, <1>11 DEF CurrentOpen
    <2> QED
      BY <1>8, <2>1 DEF CurrentOpen
  <1>14. BuffersGuarded(t)
    BY <1>6, <1>10, <1>12, <1>13 DEF BuffersGuarded, CurrentOpen
  <1>15. s.slots[s.current] = 0 => Loose(t) = Loose(s)
    <2> SUFFICES ASSUME s.slots[s.current] = 0
                 PROVE  t.open \ Fences(t) = s.open \ Fences(s)
      BY DEF Loose
    <2>1. Fences(t) = Fences(s) \cup {dup}
      BY <1>5, <1>6, <1>8, <1>11
    <2> QED
      BY <1>6, <1>10, <2>1
  <1> QED
    BY <1>9, <1>10, <1>14, <1>15

LEMMA HereIs ==
    /\ Here.alive = alive /\ Here.unit = unit /\ Here.saved = saved /\ Here.slots = slots
    /\ Here.current = current /\ Here.open = open /\ Here.shows = shows
    /\ Here.written = written
    /\ Fences(Here) = Owned
  BY DEF Here, Fences, Owned

\* exynos5_post_fimd and exynos5_set_fimd: a frame leaves the buffers guarded
\* and, unless something fails in the composer or the G-Scaler, no new fence
\* open beside those kept.
LEMMA FrameFits ==
    ASSUME Fit(Here), want \in Configs \cup {NoConfig}, NEW fault
    PROVE  /\ Fit(Frame(fault))
           /\ fault \notin RunFaults \cup {"create", "target"} => Loose(Frame(fault)) = Loose(Here)
  <1>a. PICK other : other = Fresh(open)
    OBVIOUS
  <1>b. PICK acquire : acquire = Fresh(open \cup {other})
    OBVIOUS
  <1>c. PICK more : more = IF want = NoConfig THEN {other} ELSE {other, acquire}
    OBVIOUS
  <1>d. PICK given : given = [Here EXCEPT !.open = @ \cup {other} \cup (IF want = NoConfig THEN {} ELSE {acquire})]
    OBVIOUS
  <1>1. Here \in FrameStates /\ BuffersGuarded(Here) /\ UnitAgrees(Here)
        /\ Here.open = open /\ Fences(Here) = Owned
    BY HereIs DEF Fit
  <1>2. /\ open \in SUBSET (Nat \ {0}) /\ IsFiniteSet(open) /\ Owned \subseteq open
    BY <1>1 DEF FrameStates, BuffersGuarded
  <1>3. other \in Nat \ {0} /\ other \notin open /\ IsFiniteSet(open \cup {other})
    BY <1>2, <1>a, FreshIsNew, FS_AddElement
  <1>4. /\ acquire \in Nat \ {0} /\ acquire \notin open /\ acquire # other
        /\ IsFiniteSet(open \cup {other, acquire})
    <2>1. acquire \in Nat \ {0} /\ acquire \notin open \cup {other}
      BY <1>2, <1>3, <1>b, FreshIsNew
    <2>2. IsFiniteSet((open \cup {other}) \cup {acquire})
      BY <1>3, FS_AddElement
    <2>3. (open \cup {other}) \cup {acquire} = open \cup {other, acquire}
      OBVIOUS
    <2> QED
      BY <2>1, <2>2, <2>3
  <1>5. /\ given \in FrameStates /\ given.open = open \cup more
        /\ given.alive = Here.alive /\ given.unit = Here.unit /\ given.saved = Here.saved
        /\ given.slots = Here.slots /\ given.current = Here.current /\ given.shows = Here.shows
        /\ given.written = Here.written
    <2>1. given = [Here EXCEPT !.open = open \cup more]
      BY <1>1, <1>c, <1>d
    <2>2. open \cup more \in SUBSET (Nat \ {0})
      BY <1>2, <1>3, <1>4, <1>c
    <2> QED
      BY <1>1, <2>1, <2>2 DEF FrameStates
  <1>6. Fences(given) = Owned
    BY <1>1, <1>5 DEF Fences
  <1>7. Fit(given)
    <2>1. IsFiniteSet(given.open)
      BY <1>3, <1>4, <1>5, <1>c
    <2>2. BuffersGuarded(given)
      BY <1>1, <1>2, <1>5, <1>6, <2>1 DEF BuffersGuarded
    <2>3. UnitAgrees(given)
      BY <1>1, <1>5 DEF UnitAgrees
    <2> QED
      BY <1>5, <2>2, <2>3 DEF Fit
  <1>8. Loose(given) = Loose(Here) \cup more
    BY <1>1, <1>2, <1>3, <1>4, <1>5, <1>6, <1>c DEF Loose
  <1>9. Frame(fault) =
            IF fault = "target" THEN IF want = NoConfig THEN given ELSE Released(given)
            ELSE IF want = NoConfig THEN [given EXCEPT !.open = @ \ {other}]
            ELSE LET g == ConfigGsc(given, acquire, fault)
                     posted == [g.s EXCEPT !.open = @ \ {other, g.window}]
                 IN IF g.ok THEN Released(posted) ELSE posted
    BY <1>a, <1>b, <1>d, Zenon DEF Frame
  <1>10. CASE fault = "target"
    <2>1. CASE want = NoConfig
      BY <1>7, <1>9, <1>10, <2>1
    <2>2. CASE want # NoConfig
      <3>1. Frame(fault) = Released(given)
        BY <1>9, <1>10, <2>2
      <3>2. Fit(Released(given))
        BY <1>7, ReleasedOf DEF Fit, UnitAgrees, BuffersGuarded, CurrentOpen
      <3> QED
        BY <1>10, <3>1, <3>2
    <2> QED
      BY <2>1, <2>2
  <1>11. CASE fault # "target" /\ want = NoConfig
    <2>1. PICK t : t = [given EXCEPT !.open = @ \ {other}]
      OBVIOUS
    <2>2. Frame(fault) = t
      BY <1>9, <1>11, <2>1
    <2>3. /\ t \in FrameStates /\ t.open = open
          /\ t.alive = Here.alive /\ t.unit = Here.unit /\ t.saved = Here.saved
          /\ t.slots = Here.slots /\ t.current = Here.current /\ t.shows = Here.shows
          /\ t.written = Here.written
      BY <1>2, <1>3, <1>5, <1>11, <1>c, <2>1 DEF FrameStates
    <2>4. Fences(t) = Owned
      BY <1>1, <2>3 DEF Fences
    <2>5. BuffersGuarded(t) /\ UnitAgrees(t)
      BY <1>1, <1>2, <2>3, <2>4 DEF BuffersGuarded, UnitAgrees
    <2>6. Loose(t) = Loose(Here)
      BY <1>1, <2>3, <2>4 DEF Loose
    <2> QED
      BY <2>2, <2>3, <2>5, <2>6 DEF Fit
  <1>12. CASE fault # "target" /\ want # NoConfig
    <2>0. want \in Configs /\ more = {other, acquire}
      BY <1>12, <1>c
    <2>1. PICK r : r = ConfigGsc(given, acquire, fault)
      OBVIOUS
    <2>2. PICK posted : posted = [r.s EXCEPT !.open = @ \ {other, r.window}]
      OBVIOUS
    <2>3. Frame(fault) = IF r.ok THEN Released(posted) ELSE posted
      BY <1>9, <1>12, <2>1, <2>2
    <2>4. acquire \in Loose(given) /\ other \in Loose(given)
      BY <1>8, <2>0
    <2>5. PICK b : /\ Begins(b, acquire) /\ Loose(b) = Loose(given)
                   /\ r.ok => ScaledThrough(r, b, acquire)
                   /\ ~ r.ok => Fit(r.s) /\ r.s.slots = NoFences /\ r.window = 0
                   /\ fault \notin RunFaults \cup {"create"} => r.ok
      BY <1>7, <2>0, <2>1, <2>4, ConfigGscOf
    <2>6. CASE r.ok
      <3>1. /\ r.s \in FrameStates /\ b \in FrameStates /\ BuffersGuarded(b)
            /\ b.current \in Ring /\ b.slots \in [Ring -> Nat]
        BY <2>5, <2>6 DEF ScaledThrough, Begins, FrameStates
      <3>2. PICK guard : guard = b.slots[b.current]
        OBVIOUS
      <3>3. posted.open = b.open \ {acquire, guard, other}
        <4>1. posted.open = r.s.open \ {other, r.window}
          BY <2>2, <3>1 DEF FrameStates
        <4> QED
          BY <2>5, <2>6, <3>2, <4>1 DEF ScaledThrough
      <3>4. /\ posted \in FrameStates /\ IsFiniteSet(posted.open)
            /\ posted.slots = [b.slots EXCEPT ![b.current] = 0]
            /\ posted.shows = b.shows /\ posted.current = b.current
            /\ posted.written.got = posted.written.right
            /\ posted.alive /\ posted.saved = want /\ Streams(posted.unit, want \in DrmConfigs)
        <4>1. /\ posted \in FrameStates /\ posted.slots = r.s.slots /\ posted.shows = r.s.shows
              /\ posted.current = r.s.current /\ posted.written = r.s.written
              /\ posted.alive = r.s.alive /\ posted.saved = r.s.saved /\ posted.unit = r.s.unit
          BY <2>2, <3>1 DEF FrameStates
        <4>2. IsFiniteSet(posted.open)
          BY <2>5, <3>3, FS_Subset DEF Begins, BuffersGuarded
        <4> QED
          BY <2>5, <2>6, <4>1, <4>2 DEF ScaledThrough
      <3>5. /\ \A c \in Ring : posted.slots[c] = IF c = b.current THEN 0 ELSE b.slots[c]
            /\ b.open \in SUBSET (Nat \ {0}) /\ Fences(b) \subseteq b.open
            /\ \A c, d \in Ring : b.slots[c] = b.slots[d] /\ b.slots[c] # 0 => c = d
            /\ Fences(b) = {b.slots[c] : c \in Ring} \ {0}
            /\ Fences(posted) = {posted.slots[c] : c \in Ring} \ {0}
        BY <3>1, <3>4 DEF BuffersGuarded, FrameStates, Fences
      <3>6. Fences(posted) = Fences(b) \ {guard}
        BY <3>1, <3>2, <3>5
      <3>7. acquire \notin Fences(b) /\ other \notin Fences(b) /\ other \in b.open
        BY <2>4, <2>5 DEF Begins, Loose
      <3>8. CurrentOpen(posted)
        <4>1. Fences(posted) \subseteq posted.open
          BY <3>3, <3>5, <3>6, <3>7
        <4>2. \A c \in Ring : c # posted.current => posted.shows[c] = posted.slots[c]
          BY <3>1, <3>4, <3>5 DEF BuffersGuarded
        <4>3. \A c, d \in Ring : posted.slots[c] = posted.slots[d] /\ posted.slots[c] # 0 => c = d
          BY <3>5
        <4> QED
          BY <3>4, <4>1, <4>2, <4>3 DEF CurrentOpen
      <3>9. posted.slots[posted.current] = 0
        BY <3>1, <3>4, <3>5
      <3>10. Loose(posted) = Loose(b) \ {acquire, other}
        BY <3>2, <3>3, <3>5, <3>6, <3>7, <3>1 DEF Loose
      <3>11. Loose(posted) = Loose(Here)
        BY <1>1, <1>2, <1>3, <1>4, <1>8, <2>0, <2>5, <3>10 DEF Loose
      <3>12. UnitAgrees(Released(posted))
        BY <2>0, <3>4, <3>8, ReleasedOf DEF UnitAgrees
      <3> QED
        BY <2>3, <2>6, <3>4, <3>8, <3>9, <3>11, <3>12, ReleasedOf DEF Fit
    <2>7. CASE ~ r.ok
      <3>1. r.s \in FrameStates /\ BuffersGuarded(r.s) /\ UnitAgrees(r.s)
        BY <2>5, <2>7 DEF Fit
      <3>2. /\ posted \in FrameStates /\ posted.open = r.s.open \ {other, 0}
            /\ posted.slots = NoFences /\ posted.shows = NoFences
            /\ posted.alive = r.s.alive /\ posted.unit = r.s.unit /\ posted.saved = r.s.saved
            /\ posted.written = r.s.written
        <4>1. r.s.shows = NoFences
          BY <2>5, <2>7, <3>1 DEF BuffersGuarded
        <4> QED
          BY <2>2, <2>5, <2>7, <3>1, <4>1 DEF FrameStates
      <3>3. IsFiniteSet(posted.open)
        BY <3>1, <3>2, FS_Subset DEF BuffersGuarded
      <3>4. BuffersGuarded(posted) /\ UnitAgrees(posted)
        BY <3>1, <3>2, <3>3, EmptyIsGuarded DEF BuffersGuarded, UnitAgrees
      <3> QED
        BY <2>3, <2>5, <2>7, <3>2, <3>4 DEF Fit
    <2> QED
      BY <2>6, <2>7
  <1> QED
    BY <1>10, <1>11, <1>12

-----------------------------------------------------------------------------
(* The steps of the composer.                                                *)

LEMMA NowIs ==
    ASSUME NEW s \in FrameStates, Now(s)
    PROVE  Here' = s
  BY DEF Here, Now, FrameStates

LEMMA ScalerInit ==
    ASSUME Init
    PROVE  ScalerInv
  <1> USE DEF Init
  <1>1. Stopped(NewHandle(TRUE)) /\ NewHandle(TRUE) \in Handle
    BY DEF NewHandle, NewSide, Stopped, Handle, Side
  <1>2. Here \in FrameStates
    BY <1>1, NoFencesFacts DEF Here, FrameStates
  <1>3. BuffersGuarded(Here)
    <2>1. Here.open = {} /\ Here.slots = NoFences /\ Here.shows = NoFences
          /\ Here.written.got = Here.written.right
      BY HereIs
    <2>2. IsFiniteSet(Here.open)
      BY ONLY <2>1, FS_EmptySet
    <2> QED
      BY ONLY <1>2, <2>1, <2>2, EmptyIsGuarded
  <1>4. UnitAgrees(Here)
    BY <1>1, HereIs DEF UnitAgrees
  <1> QED
    BY <1>2, <1>3, <1>4 DEF ScalerInv, Fit

LEMMA ScalerStep ==
    ASSUME ScalerInv, [Next]_vars
    PROVE  ScalerInv' /\ LeavesNone
  <1> USE DEF ScalerInv
  <1>1. ASSUME NEW l \in Configs \cup {NoConfig}, Prepare(l)
        PROVE  ScalerInv' /\ Loose(Here)' = Loose(Here)
    <2>1. PICK s : s = IF l = NoConfig THEN Cleanup(Here) ELSE Here
      OBVIOUS
    <2>2. Fit(s) /\ Loose(s) = Loose(Here) /\ Now(s)
      BY <1>1, <2>1, CleanupFits DEF Prepare
    <2>3. Here' = s
      BY <2>2, NowIs DEF Fit
    <2>4. Fit(Here)' /\ Loose(Here)' = Loose(s)
      BY <2>2, <2>3 DEF Fit, BuffersGuarded, UnitAgrees, Loose, Fences
    <2> QED
      BY <1>1, <2>2, <2>4 DEF Prepare
  <1>2. ASSUME NEW fault, Set(fault)
        PROVE  /\ ScalerInv'
               /\ fault \in {NoFault, "ioctl"} => Loose(Here)' = Loose(Here)
    <2>1. PICK s : s = Frame(fault)
      OBVIOUS
    <2>2. /\ Fit(s) /\ Now(s)
          /\ fault \notin RunFaults \cup {"create", "target"} => Loose(s) = Loose(Here)
      BY <1>2, <2>1, FrameFits DEF Set
    <2>3. Here' = s
      BY <2>2, NowIs DEF Fit
    <2>4. Fit(Here)' /\ Loose(Here)' = Loose(s)
      BY <2>2, <2>3 DEF Fit, BuffersGuarded, UnitAgrees, Loose, Fences
    <2>5. fault \in {NoFault, "ioctl"} => fault \notin RunFaults \cup {"create", "target"}
      BY DEF NoFault, RunFaults
    <2> QED
      BY <1>2, <2>2, <2>4, <2>5 DEF Set
  <1>3. ASSUME UNCHANGED Here, phase' \in {phase, "crashed"}, UNCHANGED want
        PROVE  ScalerInv'
    <2>1. Here' = Here /\ Fit(Here)
      BY <1>3
    <2>2. Fit(Here)'
      BY <2>1 DEF Fit, BuffersGuarded, UnitAgrees, Fences
    <2> QED
      BY <1>3, <2>2
  <1>4. SetWithoutBuffer \/ UNCHANGED vars =>
            UNCHANGED Here /\ phase' \in {phase, "crashed"} /\ UNCHANGED want
    BY DEF SetWithoutBuffer, vars, Here
  <1>5. ScalerInv'
    BY <1>1, <1>2, <1>3, <1>4 DEF Next
  <1>6. LeavesNone
    <2>1. open \ Owned = Loose(Here)
      BY HereIs DEF Loose
    <2>2. (open \ Owned)' = Loose(Here)'
      BY <2>1 DEF Here, Loose, Fences, Owned
    <2> QED
      BY <1>1, <1>2, <2>1, <2>2 DEF LeavesNone
  <1> QED
    BY <1>5, <1>6

LEMMA ScalerFacts ==
    ASSUME ScalerInv
    PROVE  FreshBuffer /\ KeptAreOpen /\ Protected /\ Recovers
  <1> USE DEF ScalerInv
  <1>0. Here \in FrameStates /\ BuffersGuarded(Here) /\ UnitAgrees(Here)
    BY DEF Fit
  <1>1. FreshBuffer /\ KeptAreOpen
    BY <1>0, HereIs DEF FreshBuffer, KeptAreOpen, BuffersGuarded
  <1>2. Protected
    <2>1. CASE alive
      BY <1>0, <2>1, HereIs DEF UnitAgrees, Streams, Protected
    <2>2. CASE ~ alive
      BY <1>0, <2>2, HereIs DEF UnitAgrees, Stopped, Protected
    <2> QED
      BY <2>1, <2>2
  <1>3. Recovers
    <2> SUFFICES ASSUME want \in Configs
                 PROVE  ConfigGsc([Here EXCEPT !.open = @ \cup {Fresh(open)}], Fresh(open), NoFault).ok
      BY DEF Recovers
    <2>1. PICK acquire : acquire = Fresh(open)
      OBVIOUS
    <2>2. PICK given : given = [Here EXCEPT !.open = @ \cup {acquire}]
      OBVIOUS
    <2>3. /\ open \in SUBSET (Nat \ {0}) /\ IsFiniteSet(open) /\ Owned \subseteq open
      BY <1>0, HereIs DEF FrameStates, BuffersGuarded
    <2>4. acquire \in Nat \ {0} /\ acquire \notin open /\ IsFiniteSet(open \cup {acquire})
      BY <2>1, <2>3, FreshIsNew, FS_AddElement
    <2>5. /\ given \in FrameStates /\ given.open = open \cup {acquire}
          /\ given.alive = Here.alive /\ given.unit = Here.unit /\ given.saved = Here.saved
          /\ given.slots = Here.slots /\ given.shows = Here.shows
          /\ given.written = Here.written
      BY <1>0, <2>2, <2>3, <2>4, HereIs DEF FrameStates
    <2>6. Fences(given) = Owned
      BY <2>5, HereIs DEF Fences
    <2>7. Fit(given) /\ acquire \in Loose(given)
      BY <1>0, <2>3, <2>4, <2>5, <2>6 DEF Fit, BuffersGuarded, UnitAgrees, Loose
    <2>8. NoFault \notin RunFaults \cup {"create"}
      BY DEF NoFault, RunFaults
    <2>9. PICK r : r = ConfigGsc(given, acquire, NoFault)
      OBVIOUS
    <2>10. r.ok
      BY <2>7, <2>8, <2>9, ConfigGscOf
    <2> QED
      BY <2>1, <2>2, <2>9, <2>10
  <1> QED
    BY <1>1, <1>2, <1>3

-----------------------------------------------------------------------------
(* The fences and the handle of every composer.                              *)

\* The G-Scaler never writes into a buffer that the display may still read,
\* a fence that is kept with a buffer is open, protected content runs through
\* a protected path, and after any failure a frame in which nothing fails
\* comes through (exynos5_config_gsc_m2m, exynos5_cleanup_gsc_m2m,
\* exynos5_set_fimd, exynos_gsc_m2m_run_core); only a frame in which the
\* composer or the G-Scaler fails leaves a fence open for good.
THEOREM ScalerGuardsBuffers ==
    Spec => /\ [](FreshBuffer /\ KeptAreOpen /\ Protected /\ Recovers)
            /\ [][LeavesNone]_vars
  <1>1. Init => ScalerInv
    BY ScalerInit
  <1>2. ScalerInv /\ [Next]_vars => ScalerInv'
    BY ScalerStep
  <1>3. ScalerInv /\ [Next]_vars => [LeavesNone]_vars
    BY ScalerStep
  <1>4. ScalerInv => FreshBuffer /\ KeptAreOpen /\ Protected /\ Recovers
    BY ScalerFacts
  <1> QED
    BY <1>1, <1>2, <1>3, <1>4, PTL DEF Spec

\* The same of the run's instance: the fences.
THEOREM FencesAreGuarding == MCSpec => FencesGuardBuffers
  <1> DEFINE Inv == instance = "scaler" => ScalerInv
             Good == instance = "scaler" => FreshBuffer /\ KeptAreOpen
             Step == instance = "scaler" => LeavesNone
  <1>1. MCInit => Inv
    BY ScalerInit DEF MCInit
  <1>2. [MCNext]_all => UNCHANGED instance /\ (instance = "scaler" => [Next]_vars)
    BY DEF MCNext, all
  <1>3. Inv /\ [MCNext]_all => Inv' /\ Step
    BY <1>2, ScalerStep
  <1>4. Inv => Good
    BY ScalerFacts
  <1> HIDE DEF Inv, Good, Step
  <1>5. MCSpec => []Good /\ [][Step]_all
    BY <1>1, <1>3, <1>4, PTL DEF MCSpec
  <1> QED
    BY <1>5 DEF FencesGuardBuffers, Good, Step

\* ... and the handle.
THEOREM ScalerStaysSafe == MCSpec => []ScalerIsSafe
  <1> DEFINE Inv == instance = "scaler" => ScalerInv
  <1>1. MCInit => Inv
    BY ScalerInit DEF MCInit
  <1>2. [MCNext]_all => UNCHANGED instance /\ (instance = "scaler" => [Next]_vars)
    BY DEF MCNext, all
  <1>3. Inv /\ [MCNext]_all => Inv'
    BY <1>2, ScalerStep
  <1>4. Inv => ScalerIsSafe
    BY ScalerFacts DEF ScalerIsSafe
  <1> QED
    BY <1>1, <1>3, <1>4, PTL DEF MCSpec

-----------------------------------------------------------------------------
(* The second display.                                                       *)

Resolutions == [w : Nat, h : Nat]
HdmiBuffers == 0 .. NumHdmiBuffers - 1
LayerTypes ==
    [enabled : BOOLEAN, streaming : BOOLEAN, cfg : Rectangles \cup {"none"},
     queued : 0 .. NumHdmiBuffers, current : HdmiBuffers]
QueueTypes == [bufs : BOOLEAN, queue : Seq(HdmiBuffers), on : BOOLEAN]

\* The k-th buffer from the oldest one of n when c is the next to be used.
RingAt(c, n, k) ==
    IF c - n + k - 1 >= 0 THEN c - n + k - 1 ELSE c - n + k - 1 + NumHdmiBuffers

\* The HAL's record of a layer beside its queue: the queue holds the buffers
\* before the next one, in turn; it streams as soon as it holds one.
Sound(s) ==
    /\ s = [hl |-> s.hl, drv |-> s.drv]
    /\ s.hl \in LayerTypes /\ s.drv \in QueueTypes
    /\ Len(s.drv.queue) = s.hl.queued
    /\ \A k \in 1 .. s.hl.queued : s.drv.queue[k] = RingAt(s.hl.current, s.hl.queued, k)
    /\ s.hl.enabled <=> s.drv.bufs
    /\ s.hl.streaming <=> s.drv.on
    /\ s.hl.queued > 0 => s.drv.on
    /\ ~ s.hl.enabled => s.hl.queued = 0 /\ s.hl.current = 0 /\ ~ s.drv.on
    /\ "reqbufs" \notin kind.faults => (s.hl.cfg # "none" => s.hl.enabled)

SoundLayers == \A i \in {0, 1} : Sound([hl |-> layer[i], drv |-> driver[i]])

LayersSound ==
    /\ kind \in Kinds /\ SoundLayers
    /\ enabled \in BOOLEAN
    /\ ~ enabled => ~ gsc /\ \A i \in {0, 1} : ~ layer[i].enabled
    /\ "reqbufs" \notin kind.faults => missed = {}

\* What the next event will say, under way or not.
NextPlugged == IF events = <<>> THEN cable = [w |-> 0, h |-> 0] ELSE Head(events)

Alternating(e) == \A k \in 1 .. Len(e) - 1 : e[k + 1] <=> ~ e[k]

\* Events alternate, so that a display that was told of is not announced again;
\* one that was there when the device was opened may be, unless the framework
\* keeps up.
EventsAlternate ==
    /\ events \in Seq(BOOLEAN) /\ cable \in Resolutions
    /\ hpd \in BOOLEAN /\ told \in {"never", "plugged", "unplugged"}
    /\ uevent \in {"wait", "width", "height", "tell"}
    /\ Alternating(events)
    /\ events # <<>> => (events[Len(events)] <=> cable # [w |-> 0, h |-> 0])
    /\ frame = "opened" => told = "never"
    /\ hpd /\ (uevent # "wait" \/ told # "never" \/ kind.calm) => ~ NextPlugged
    /\ uevent \in {"width", "height"} => hpd /\ told # "plugged"
    /\ uevent = "wait" /\ told # "never" => (told = "plugged") = hpd

\* With a frame after each uevent the display is off whenever its resolution is
\* read, so that the mixer has the one that was read.
MixerFollows ==
    /\ size \in Resolutions /\ mixer \in [sink : Resolutions, source : Resolutions]
    /\ fresh \in BOOLEAN /\ frame \in {"opened", "prepare", "source", "set"}
    /\ kind.calm =>
        /\ enabled => mixer = [sink |-> size, source |-> size]
        /\ frame = "source" => mixer.sink = size /\ ~ enabled
        /\ uevent \in {"width", "height"} => ~ enabled /\ frame # "source"
        /\ (uevent = "wait" /\ fresh /\ ~ hpd) => ~ enabled /\ frame # "source"

HdmiInv == LayersSound /\ EventsAlternate /\ MixerFollows


\* What the proofs use of the constants.
LEMMA HdmiNumbers ==
    /\ NumHdmiBuffers \in Nat \ {0}
    /\ 0 \in 0 .. NumHdmiBuffers /\ 0 \in HdmiBuffers /\ "none" \notin Rectangles
  BY HdmiAssumption DEF HdmiBuffers, Hdmi!None

\* A layer without buffers queued is sound.
LEMMA EmptySound ==
    ASSUME NEW e \in BOOLEAN, NEW c \in Rectangles \cup {"none"},
           "reqbufs" \notin kind.faults => (c # "none" => e)
    PROVE  Sound([hl |-> [enabled |-> e, streaming |-> FALSE, cfg |-> c, queued |-> 0,
                          current |-> 0],
                  drv |-> [bufs |-> e, queue |-> <<>>, on |-> FALSE]])
  <1> DEFINE h == [enabled |-> e, streaming |-> FALSE, cfg |-> c, queued |-> 0, current |-> 0]
             d == [bufs |-> e, queue |-> <<>>, on |-> FALSE]
  <1>1. h \in LayerTypes
    BY HdmiNumbers DEF LayerTypes
  <1>2. d \in QueueTypes
    BY DEF QueueTypes
  <1> DEFINE r == [hl |-> h, drv |-> d]
  <1>3. r = [hl |-> r.hl, drv |-> r.drv] /\ r.hl \in LayerTypes /\ r.drv \in QueueTypes
    BY <1>1, <1>2
  <1>4. /\ Len(r.drv.queue) = r.hl.queued /\ r.hl.queued = 0 /\ r.hl.current = 0
        /\ (r.hl.enabled <=> r.drv.bufs) /\ (r.hl.streaming <=> r.drv.on) /\ ~ r.drv.on
        /\ r.hl.cfg = c /\ (r.hl.enabled <=> e)
    OBVIOUS
  <1> HIDE DEF r
  <1>5. \A k \in 1 .. r.hl.queued : FALSE
    BY <1>4
  <1>6. Sound(r)
    BY <1>3, <1>4, <1>5 DEF Sound
  <1> QED
    BY <1>6 DEF r

\* A layer that is disabled has no buffer queued and does not stream.
LEMMA DisabledSound ==
    ASSUME NEW s, Sound(s)
    PROVE  /\ Sound(Hdmi!DisableLayer(s))
           /\ ~ Hdmi!DisableLayer(s).hl.enabled /\ ~ Hdmi!DisableLayer(s).drv.on
  <1>1. CASE ~ s.hl.enabled
    BY <1>1 DEF Sound, Hdmi!DisableLayer
  <1>2. CASE s.hl.enabled
    <2> DEFINE t == [hl |-> [enabled |-> FALSE, streaming |-> FALSE, cfg |-> "none",
                             queued |-> 0, current |-> 0],
                     drv |-> [bufs |-> FALSE, queue |-> <<>>, on |-> FALSE]]
    <2>1. Hdmi!DisableLayer(s) = t
      BY <1>2 DEF Hdmi!DisableLayer, Hdmi!NoLayer, Hdmi!NoQueue, Hdmi!None
    <2>2. Sound(t)
      BY EmptySound
    <2> QED
      BY <2>1, <2>2
  <1> QED
    BY <1>1, <1>2

\* A layer that is enabled has buffers and none of them is queued yet; a layer
\* that was enabled stays as it is.  Without REQBUFS failing it is enabled.
LEMMA EnabledSound ==
    ASSUME NEW s, Sound(s), NEW i, NEW fault, fault # "blend"
    PROVE  /\ Sound(Hdmi!EnableLayer(s, i, fault))
           /\ Hdmi!EnableLayer(s, i, fault).hl.cfg = s.hl.cfg
           /\ fault # "reqbufs" => Hdmi!EnableLayer(s, i, fault).hl.enabled
  <1>1. CASE s.hl.enabled \/ fault = "reqbufs" \/ s.drv.on
    BY <1>1 DEF Sound, Hdmi!EnableLayer
  <1>2. CASE ~ (s.hl.enabled \/ fault = "reqbufs" \/ s.drv.on)
    <2> DEFINE h == [s.hl EXCEPT !.enabled = TRUE]
               d == [bufs |-> TRUE, queue |-> <<>>, on |-> FALSE]
               t == [hl |-> h, drv |-> d]
    <2>1. Hdmi!EnableLayer(s, i, fault) = t
      BY <1>2 DEF Hdmi!EnableLayer, Hdmi!NoQueue
    <2>2. /\ s.hl \in LayerTypes /\ s.hl.queued = 0 /\ s.hl.current = 0
          /\ ~ s.hl.streaming
      BY <1>2 DEF Sound
    <2>3. /\ h \in LayerTypes /\ h.queued = 0 /\ h.current = 0 /\ ~ h.streaming /\ h.enabled
          /\ h.cfg = s.hl.cfg
      BY ONLY <2>2 DEF LayerTypes
    <2>4. d \in QueueTypes /\ Len(d.queue) = 0 /\ d.bufs /\ ~ d.on
      BY DEF QueueTypes
    <2>5. t = [hl |-> t.hl, drv |-> t.drv] /\ t.hl = h /\ t.drv = d
      OBVIOUS
    <2> HIDE DEF h, d, t
    <2>6. Sound(t)
      BY <2>3, <2>4, <2>5 DEF Sound
    <2> QED
      BY <2>1, <2>3, <2>5, <2>6
  <1> QED
    BY <1>1, <1>2


\* The buffer after c.
LEMMA NextBuffer ==
    ASSUME NEW c \in HdmiBuffers
    PROVE  (c + 1) % NumHdmiBuffers = IF c + 1 = NumHdmiBuffers THEN 0 ELSE c + 1
  <1>1. c + 1 \in 1 .. NumHdmiBuffers
    BY HdmiNumbers DEF HdmiBuffers
  <1>2. CASE c + 1 = NumHdmiBuffers
    BY <1>2, HdmiNumbers
  <1>3. CASE c + 1 < NumHdmiBuffers
    BY <1>1, <1>3, HdmiNumbers
  <1> QED
    BY <1>1, <1>2, <1>3, HdmiNumbers


\* A full queue that streams has given back its oldest buffer; the others are
\* those before the next one, as before.
LEMMA RoomSound ==
    ASSUME NEW s, Sound(s)
    PROVE  /\ Sound(Hdmi!Room(s))
           /\ Hdmi!Room(s).hl.queued < NumHdmiBuffers
           /\ Hdmi!Room(s).hl.enabled <=> s.hl.enabled
           /\ Hdmi!Room(s).hl.cfg = s.hl.cfg
  <1> DEFINE n == s.hl.queued
             c == s.hl.current
             q == s.drv.queue
  <1>1. /\ s.hl \in LayerTypes /\ s.drv \in QueueTypes /\ n \in 0 .. NumHdmiBuffers
        /\ c \in HdmiBuffers /\ q \in Seq(HdmiBuffers) /\ Len(q) = n
        /\ \A k \in 1 .. n : q[k] = RingAt(c, n, k)
    BY DEF Sound, LayerTypes, QueueTypes
  <1>2. CASE ~ (n = NumHdmiBuffers /\ s.drv.on)
    <2>1. Hdmi!Room(s) = s
      BY <1>2 DEF Hdmi!Room
    <2>2. n < NumHdmiBuffers
      BY <1>1, <1>2, HdmiNumbers DEF Sound
    <2> QED
      BY <2>1, <2>2
  <1>3. CASE n = NumHdmiBuffers /\ s.drv.on
    <2> DEFINE h == [s.hl EXCEPT !.queued = n - 1]
               d == [s.drv EXCEPT !.queue = Tail(q)]
               t == [hl |-> h, drv |-> d]
    <2>1. s = [hl |-> s.hl, drv |-> s.drv]
      BY DEF Sound
    <2>2. Hdmi!Room(s) = [s EXCEPT !.hl.queued = n - 1, !.drv.queue = Tail(q)]
      BY <1>3 DEF Hdmi!Room
    <2>3. Hdmi!Room(s) = t
      BY <2>1, <2>2
    <2>4. n > 0 /\ n - 1 \in 0 .. NumHdmiBuffers /\ n - 1 < NumHdmiBuffers
      BY <1>3, HdmiNumbers
    <2>5. /\ Tail(q) \in Seq(HdmiBuffers) /\ Len(Tail(q)) = n - 1
          /\ \A k \in 1 .. n - 1 : Tail(q)[k] = q[k + 1]
      BY <1>1, <2>4, HeadTailProperties
    <2>6. \A k \in 1 .. n - 1 : Tail(q)[k] = RingAt(c, n - 1, k)
      <3> SUFFICES ASSUME NEW k \in 1 .. n - 1
                   PROVE  Tail(q)[k] = RingAt(c, n - 1, k)
        OBVIOUS
      <3>1. k + 1 \in 1 .. n /\ c \in Int /\ n \in Int /\ k \in Int
        BY <1>1, HdmiNumbers DEF HdmiBuffers
      <3>2. RingAt(c, n, k + 1) = RingAt(c, n - 1, k)
        BY <3>1, HdmiNumbers DEF RingAt
      <3> QED
        BY <1>1, <2>5, <3>1, <3>2
    <2>7. /\ h \in LayerTypes /\ h.queued = n - 1 /\ h.current = c /\ h.cfg = s.hl.cfg
          /\ (h.enabled <=> s.hl.enabled) /\ (h.streaming <=> s.hl.streaming)
      BY <1>1, <2>4 DEF LayerTypes
    <2>8. /\ d \in QueueTypes /\ d.queue = Tail(q)
          /\ (d.bufs <=> s.drv.bufs) /\ (d.on <=> s.drv.on)
      BY <1>1, <2>5 DEF QueueTypes
    <2>9. t = [hl |-> t.hl, drv |-> t.drv] /\ t.hl = h /\ t.drv = d
      OBVIOUS
    <2> HIDE DEF h, d, t
    <2>10. Sound(t)
      BY <1>3, <2>5, <2>6, <2>7, <2>8, <2>9 DEF Sound
    <2> QED
      BY <2>3, <2>4, <2>7, <2>9, <2>10
  <1> QED
    BY <1>2, <1>3

\* The next buffer is none of those that are queued unless all are.
LEMMA NextIsFree ==
    ASSUME NEW s, Sound(s), s.hl.queued < NumHdmiBuffers
    PROVE  ~ Hdmi!Contains(s.drv.queue, s.hl.current)
  <1> DEFINE n == s.hl.queued
             c == s.hl.current
  <1>1. /\ n \in 0 .. NumHdmiBuffers /\ c \in HdmiBuffers /\ Len(s.drv.queue) = n
        /\ \A k \in 1 .. n : s.drv.queue[k] = RingAt(c, n, k)
    BY DEF Sound, LayerTypes
  <1>2. \A k \in 1 .. n : RingAt(c, n, k) # c
    <2> SUFFICES ASSUME NEW k \in 1 .. n
                 PROVE  RingAt(c, n, k) # c
      OBVIOUS
    <2>1. c \in Int /\ n \in Int /\ k \in Int /\ NumHdmiBuffers \in Int
      BY <1>1, HdmiNumbers DEF HdmiBuffers
    <2> HIDE DEF n, c
    <2> QED
      BY <2>1 DEF RingAt, n
  <1> QED
    BY <1>1, <1>2 DEF Hdmi!Contains

\* What the ring holds when one more is queued.
LEMMA RingGrows ==
    ASSUME NEW n \in 0 .. NumHdmiBuffers, n < NumHdmiBuffers, NEW c \in HdmiBuffers, NEW e,
           e = IF c + 1 = NumHdmiBuffers THEN 0 ELSE c + 1
    PROVE  /\ RingAt(e, n + 1, n + 1) = c
           /\ \A k \in 1 .. n : RingAt(e, n + 1, k) = RingAt(c, n, k)
  <1>1. n \in Int /\ c \in Int /\ NumHdmiBuffers \in Int /\ 0 <= c /\ c < NumHdmiBuffers
    BY HdmiNumbers DEF HdmiBuffers
  <1>2. CASE c + 1 = NumHdmiBuffers
    <2>1. e = 0
      BY <1>2
    <2> QED
      BY <1>1, <1>2, <2>1 DEF RingAt
  <1>3. CASE c + 1 # NumHdmiBuffers
    <2>1. e = c + 1
      BY <1>3
    <2> QED
      BY <1>1, <1>3, <2>1 DEF RingAt
  <1> QED
    BY <1>2, <1>3

\* STREAMON, and the HAL's note of it.
LEMMA StreamsOf ==
    ASSUME NEW h, NEW d
    PROVE  Hdmi!Streams([hl |-> h, drv |-> d]) =
               [hl |-> [h EXCEPT !.streaming = TRUE], drv |-> [d EXCEPT !.on = TRUE]]
  BY DEF Hdmi!Streams

\* A buffer queued is the youngest of them; the layer streams then, because it
\* did or because it starts.
LEMMA QueuedSound ==
    ASSUME NEW s, Sound(s), s.hl.queued < NumHdmiBuffers, s.drv.bufs
    PROVE  /\ s.hl.streaming => Sound(Hdmi!Queued(s))
           /\ Sound(Hdmi!Streams(Hdmi!Queued(s)))
           /\ Hdmi!Queued(s).hl.enabled /\ Hdmi!Streams(Hdmi!Queued(s)).hl.enabled
  <1> DEFINE n == s.hl.queued
             c == s.hl.current
             q == s.drv.queue
             e == (c + 1) % NumHdmiBuffers
  <1>1. /\ s.hl \in LayerTypes /\ s.drv \in QueueTypes /\ n \in 0 .. NumHdmiBuffers
        /\ c \in HdmiBuffers /\ q \in Seq(HdmiBuffers) /\ Len(q) = n
        /\ \A k \in 1 .. n : q[k] = RingAt(c, n, k)
        /\ s.hl.enabled
    BY DEF Sound, LayerTypes, QueueTypes
  <1>2. e = IF c + 1 = NumHdmiBuffers THEN 0 ELSE c + 1
    BY <1>1, NextBuffer
  <1> HIDE DEF e
  <1>3. /\ e \in HdmiBuffers /\ n + 1 \in 0 .. NumHdmiBuffers /\ n \in Int /\ c \in Int
        /\ NumHdmiBuffers \in Int
    BY <1>1, <1>2, HdmiNumbers DEF HdmiBuffers
  <1>4. /\ Append(q, c) \in Seq(HdmiBuffers) /\ Len(Append(q, c)) = n + 1
        /\ \A k \in 1 .. n : Append(q, c)[k] = q[k]
        /\ Append(q, c)[n + 1] = c
    BY <1>1, AppendProperties
  <1>5. \A k \in 1 .. n + 1 : Append(q, c)[k] = RingAt(e, n + 1, k)
    <2> SUFFICES ASSUME NEW k \in 1 .. n + 1
                 PROVE  Append(q, c)[k] = RingAt(e, n + 1, k)
      OBVIOUS
    <2>1. CASE k = n + 1
      <3>1. RingAt(e, n + 1, n + 1) = c
        BY <1>1, <1>2, RingGrows
      <3> QED
        BY <1>4, <2>1, <3>1
    <2>2. CASE k # n + 1
      <3>1. k \in 1 .. n
        BY <1>3, <2>2
      <3>2. RingAt(e, n + 1, k) = RingAt(c, n, k)
        BY <1>1, <1>2, <3>1, RingGrows
      <3> QED
        BY <1>1, <1>4, <3>1, <3>2
    <2> QED
      BY <2>1, <2>2
  <1> DEFINE h == [s.hl EXCEPT !.queued = n + 1, !.current = e]
             d == [s.drv EXCEPT !.queue = Append(q, c)]
             t == [hl |-> h, drv |-> d]
             h1 == [h EXCEPT !.streaming = TRUE]
             d1 == [d EXCEPT !.on = TRUE]
             t1 == [hl |-> h1, drv |-> d1]
  <1>6. Hdmi!Queued(s) = t
    <2>1. s = [hl |-> s.hl, drv |-> s.drv]
      BY DEF Sound
    <2>2. Hdmi!Queued(s) = [s EXCEPT !.hl.queued = n + 1, !.hl.current = e,
                                     !.drv.queue = Append(q, c)]
      BY DEF Hdmi!Queued, e
    <2> QED
      BY <2>1, <2>2
  <1>7. Hdmi!Streams(t) = t1
    BY StreamsOf
  <1>8. /\ h \in LayerTypes /\ h.queued = n + 1 /\ h.current = e /\ h.cfg = s.hl.cfg
        /\ h.enabled /\ (h.streaming <=> s.hl.streaming)
    BY <1>1, <1>3 DEF LayerTypes
  <1>9. d \in QueueTypes /\ d.queue = Append(q, c) /\ d.bufs /\ (d.on <=> s.drv.on)
    BY <1>1, <1>4 DEF QueueTypes
  <1>10. /\ h1 \in LayerTypes /\ h1.queued = n + 1 /\ h1.current = e /\ h1.cfg = s.hl.cfg
         /\ h1.enabled /\ h1.streaming
    <2> HIDE DEF h
    <2> QED
      BY <1>8 DEF LayerTypes
  <1>11. d1 \in QueueTypes /\ d1.queue = Append(q, c) /\ d1.bufs /\ d1.on
    <2> HIDE DEF d
    <2> QED
      BY <1>9 DEF QueueTypes
  <1>12. /\ t = [hl |-> t.hl, drv |-> t.drv] /\ t.hl = h /\ t.drv = d
         /\ t1 = [hl |-> t1.hl, drv |-> t1.drv] /\ t1.hl = h1 /\ t1.drv = d1
    OBVIOUS
  <1> HIDE DEF h, d, t, h1, d1, t1
  <1>13. s.hl.streaming => Sound(t)
    BY <1>4, <1>5, <1>8, <1>9, <1>12 DEF Sound
  <1>14. Sound(t1)
    BY <1>4, <1>5, <1>10, <1>11, <1>12 DEF Sound
  <1> QED
    BY <1>6, <1>7, <1>8, <1>10, <1>12, <1>13, <1>14


\* A layer set up for a rectangle is sound in any case, and has the rectangle
\* where nothing fails.
LEMMA ConfiguredSound ==
    ASSUME NEW s, Sound(s), NEW i, NEW cfg \in Rectangles, NEW fault, fault # "blend",
           fault \in kind.faults \cup {"none"}
    PROVE  /\ Sound(Hdmi!Configured(s, i, cfg, fault))
           /\ fault = "none" => Hdmi!Configured(s, i, cfg, fault).hl.cfg = cfg
  <1>1. CASE s.hl.cfg = cfg
    BY <1>1 DEF Hdmi!Configured
  <1>2. CASE s.hl.cfg # cfg
    <2> DEFINE off == Hdmi!DisableLayer(s)
               on1 == Hdmi!EnableLayer(off, i, fault)
               t == [on1 EXCEPT !.hl.cfg = cfg]
    <2>1. Sound(off)
      BY DisabledSound
    <2>2. CASE fault = "fmt"
      BY <1>2, <2>1, <2>2 DEF Hdmi!Configured
    <2>3. CASE fault # "fmt"
      <3>1. Hdmi!Configured(s, i, cfg, fault) = t
        BY <1>2, <2>3 DEF Hdmi!Configured
      <3>2. Sound(on1) /\ (fault # "reqbufs" => on1.hl.enabled)
        BY <2>1, EnabledSound
      <3> HIDE DEF off, on1
      <3>3. on1.hl \in LayerTypes /\ on1 = [hl |-> on1.hl, drv |-> on1.drv]
        BY <3>2 DEF Sound
      <3> DEFINE h == [on1.hl EXCEPT !.cfg = cfg]
      <3>4. t = [hl |-> h, drv |-> on1.drv]
        BY <3>3
      <3>5. /\ h \in LayerTypes /\ h.cfg = cfg /\ h.queued = on1.hl.queued
            /\ h.current = on1.hl.current /\ (h.enabled <=> on1.hl.enabled)
            /\ (h.streaming <=> on1.hl.streaming)
        BY <3>3 DEF LayerTypes
      <3>6. t.hl = h /\ t.drv = on1.drv /\ t = [hl |-> t.hl, drv |-> t.drv]
        BY <3>4
      <3> HIDE DEF h, t
      <3>7. Sound(t)
        BY <3>2, <3>5, <3>6 DEF Sound
      <3> QED
        BY <3>1, <3>5, <3>6, <3>7
    <2> QED
      BY <2>2, <2>3
  <1> QED
    BY <1>1, <1>2

\* An output of a layer leaves it sound, and shows the frame where nothing fails.
LEMMA OutputSound ==
    ASSUME NEW s, Sound(s), NEW i, NEW cfg \in Rectangles, kind \in Kinds,
           NEW fault \in kind.faults \cup {"none"}
    PROVE  /\ Sound(Hdmi!Output(s, i, cfg, fault).state)
           /\ fault = "none" /\ "reqbufs" \notin kind.faults => Hdmi!Output(s, i, cfg, fault).ok
  <1> DEFINE set == Hdmi!Configured(s, i, cfg, fault)
             room == IF set.hl.cfg = cfg THEN Hdmi!Room(set) ELSE set
             out == Hdmi!Output(s, i, cfg, fault)
  <1>1. fault # "blend" /\ fault # "stream"
    BY HdmiAssumption
  <1>2. Sound(set) /\ (fault = "none" => set.hl.cfg = cfg)
    BY <1>1, ConfiguredSound
  <1>3. /\ Sound(room) /\ (set.hl.cfg = cfg => room.hl.queued < NumHdmiBuffers)
        /\ (set.hl.cfg = cfg => room.hl.cfg = cfg)
    <2> HIDE DEF set
    <2> QED
      BY <1>2, RoomSound
  <1>4. CASE set.hl.cfg # cfg \/ ~ Hdmi!CanQueue(room, fault)
    <2>1. out = [state |-> room, ok |-> FALSE]
      BY <1>4 DEF Hdmi!Output
    <2>2. ~ (fault = "none" /\ "reqbufs" \notin kind.faults)
      <3> SUFFICES ASSUME fault = "none", "reqbufs" \notin kind.faults
                   PROVE  FALSE
        OBVIOUS
      <3> HIDE DEF set, room
      <3>1. set.hl.cfg = cfg /\ room.hl.cfg = cfg /\ room.hl.queued < NumHdmiBuffers
        BY <1>2, <1>3
      <3>2. room.drv.bufs
        BY <1>3, <3>1, HdmiNumbers DEF Sound
      <3>3. ~ Hdmi!Contains(room.drv.queue, room.hl.current)
        BY <1>3, <3>1, NextIsFree
      <3>4. Hdmi!CanQueue(room, fault)
        BY <3>1, <3>2, <3>3 DEF Hdmi!CanQueue
      <3> QED
        BY <1>4, <3>1, <3>4
    <2> HIDE DEF room
    <2> QED
      BY <1>3, <2>1, <2>2
  <1>5. CASE set.hl.cfg = cfg /\ Hdmi!CanQueue(room, fault)
    <2>1. out = [state |-> IF ~ room.hl.streaming THEN Hdmi!Streams(Hdmi!Queued(room))
                           ELSE Hdmi!Queued(room),
                 ok |-> TRUE]
      BY <1>1, <1>5 DEF Hdmi!Output
    <2>2. room.hl.queued < NumHdmiBuffers /\ room.drv.bufs
      BY <1>5 DEF Hdmi!CanQueue
    <2> HIDE DEF room
    <2>3. /\ room.hl.streaming => Sound(Hdmi!Queued(room))
          /\ Sound(Hdmi!Streams(Hdmi!Queued(room)))
      BY <1>3, <2>2, QueuedSound
    <2> QED
      BY <2>1, <2>3
  <1> QED
    BY <1>4, <1>5


\* A frame that makes both layers sound leaves sound layers.
LEMMA AllDoneSound ==
    ASSUME kind' = kind, NEW s0, NEW s1, Sound(s0), Sound(s1), Hdmi!AllDone(s0, s1)
    PROVE  SoundLayers' /\ layer'[0] = s0.hl /\ layer'[1] = s1.hl
  <1>1. /\ layer'[0] = s0.hl /\ layer'[1] = s1.hl
        /\ driver'[0] = s0.drv /\ driver'[1] = s1.drv
    BY DEF Hdmi!AllDone, Hdmi!Ids
  <1>2. s0 = [hl |-> s0.hl, drv |-> s0.drv] /\ s1 = [hl |-> s1.hl, drv |-> s1.drv]
    BY DEF Sound
  <1>3. ASSUME NEW s, Sound(s)
        PROVE  Sound(s)'
    BY <1>3 DEF Sound
  <1>4. \A i \in {0, 1} : Sound([hl |-> layer'[i], drv |-> driver'[i]])
    BY <1>1, <1>2
  <1> QED
    BY <1>1, <1>4 DEF SoundLayers, Sound

\* What a layer is does not depend on anything else that changes.
LEMMA SoundStays ==
    ASSUME UNCHANGED <<kind, layer, driver>>, SoundLayers
    PROVE  SoundLayers'
  BY DEF SoundLayers, Sound

\* hdmi_disable, once or twice.
LEMMA DisableSound ==
    ASSUME LayersSound, kind' = kind, Hdmi!Disable
    PROVE  SoundLayers' /\ ~ gsc' /\ enabled' = FALSE /\ \A i \in {0, 1} : ~ layer'[i].enabled
  <1>1. CASE enabled
    <2> DEFINE s0 == Hdmi!DisableLayer(Hdmi!At(0))
               s1 == Hdmi!DisableLayer(Hdmi!At(1))
    <2>1. Hdmi!AllDone(s0, s1) /\ gsc' = FALSE /\ enabled' = FALSE
      BY <1>1 DEF Hdmi!Disable
    <2>2. Sound(Hdmi!At(0)) /\ Sound(Hdmi!At(1))
      BY DEF LayersSound, SoundLayers, Hdmi!At
    <2>3. Sound(s0) /\ Sound(s1) /\ ~ s0.hl.enabled /\ ~ s1.hl.enabled
      BY <2>2, DisabledSound
    <2> HIDE DEF s0, s1
    <2> QED
      BY <2>1, <2>3, AllDoneSound
  <1>2. CASE ~ enabled
    BY <1>2, SoundStays DEF LayersSound, Hdmi!Disable
  <1> QED
    BY <1>1, <1>2

\* Whatever fails in a frame, at whichever layer, both layers stay sound; where
\* nothing fails they show what the frame has for them.
LEMMA SetSound ==
    ASSUME LayersSound, kind' = kind,
           NEW video \in Rectangles \cup {"none"}, NEW fb1 \in Rectangles \cup {"none"},
           NEW fault \in kind.faults \cup {"none"}, NEW where \in {0, 1},
           Hdmi!Set(video, fb1, fault, where)
    PROVE  LayersSound'
  <1> DEFINE meets(i) == IF where = i THEN fault ELSE "none"
             scaled == video # "none" /\ fault # "gsc"
             out0 == IF scaled THEN Hdmi!Output(Hdmi!At(0), 0, video, meets(0))
                     ELSE [state |-> Hdmi!DisableLayer(Hdmi!At(0)), ok |-> FALSE]
             out1 == IF fb1 # "none" THEN Hdmi!Output(Hdmi!At(1), 1, fb1, meets(1))
                     ELSE [state |-> Hdmi!DisableLayer(Hdmi!At(1)), ok |-> FALSE]
             shown == {i \in {0, 1} : /\ fault = "none"
                                       /\ (IF i = 0 THEN video ELSE fb1) # "none"
                                       /\ ~ (IF i = 0 THEN out0 ELSE out1).ok}
  <1>1. enabled' = enabled
    BY DEF Hdmi!Set
  <1>2. CASE ~ enabled
    <2>1. missed' = {} /\ UNCHANGED <<layer, driver, gsc>>
      BY <1>2 DEF Hdmi!Set
    <2> QED
      BY <1>1, <1>2, <2>1, SoundStays DEF LayersSound
  <1>3. CASE enabled
    <2>1. Hdmi!AllDone(out0.state, out1.state) /\ missed' = shown
      BY <1>3 DEF Hdmi!Set, Hdmi!Ids, Hdmi!None
    <2>2. Sound(Hdmi!At(0)) /\ Sound(Hdmi!At(1)) /\ kind \in Kinds
      BY DEF LayersSound, SoundLayers, Hdmi!At
    <2>3. \A i \in {0, 1} : meets(i) \in kind.faults \cup {"none"}
      OBVIOUS
    <2>4. /\ Sound(out0.state)
          /\ (fault = "none" /\ video # "none" /\ "reqbufs" \notin kind.faults) => out0.ok
      <3>1. CASE scaled
        BY <2>2, <2>3, <3>1, OutputSound
      <3>2. CASE ~ scaled
        BY <2>2, <3>2, DisabledSound
      <3> QED
        BY <3>1, <3>2
    <2>5. /\ Sound(out1.state)
          /\ (fault = "none" /\ fb1 # "none" /\ "reqbufs" \notin kind.faults) => out1.ok
      <3>1. CASE fb1 # "none"
        BY <2>2, <2>3, <3>1, OutputSound
      <3>2. CASE fb1 = "none"
        BY <2>2, <3>2, DisabledSound
      <3> QED
        BY <3>1, <3>2
    <2> HIDE DEF out0, out1
    <2>6. "reqbufs" \notin kind.faults => shown = {}
      BY <2>4, <2>5
    <2>7. SoundLayers'
      BY <2>1, <2>4, <2>5, AllDoneSound
    <2> QED
      BY <1>1, <1>3, <2>1, <2>2, <2>6, <2>7 DEF LayersSound
  <1> QED
    BY <1>2, <1>3

\* The layers stay sound.
LEMMA LayersKept ==
    ASSUME HdmiInv, [Hdmi!Next]_hdmiVars
    PROVE  LayersSound'
  <1> USE DEF HdmiInv, Hdmi!threadVars, Hdmi!frameVars, Hdmi!None, Hdmi!Failing
  <1>1. LayersSound
    OBVIOUS
  <1>2. ASSUME UNCHANGED <<kind, enabled, gsc, missed, layer, driver>>
        PROVE  LayersSound'
    BY <1>2, <1>1, SoundStays DEF LayersSound
  <1>3. ASSUME kind' = kind, UNCHANGED missed, Hdmi!Disable
        PROVE  LayersSound'
    BY <1>1, <1>3, DisableSound DEF LayersSound
  <1>4. ASSUME kind' = kind, NEW to, Hdmi!Plug(to)
        PROVE  LayersSound'
    BY <1>2, <1>4 DEF Hdmi!Plug
  <1>5. CASE kind' = kind /\ Hdmi!Uevent
    BY <1>2, <1>5 DEF Hdmi!Uevent
  <1>6. CASE kind' = kind /\ Hdmi!ReadWidth
    BY <1>2, <1>6 DEF Hdmi!ReadWidth
  <1>7. CASE kind' = kind /\ Hdmi!ReadHeight
    BY <1>2, <1>7 DEF Hdmi!ReadHeight
  <1>8. CASE kind' = kind /\ Hdmi!ReadFails
    BY <1>2, <1>8 DEF Hdmi!ReadFails
  <1>9. CASE kind' = kind /\ Hdmi!Tell
    BY <1>2, <1>9 DEF Hdmi!Tell
  <1>10. CASE kind' = kind /\ Hdmi!Prepare
    <2>1. CASE Hdmi!Disable
      BY <1>3, <1>10, <2>1 DEF Hdmi!Prepare
    <2>2. CASE UNCHANGED <<enabled, layer, driver, gsc>>
      BY <1>2, <1>10, <2>2 DEF Hdmi!Prepare
    <2> QED
      BY <1>10, <2>1, <2>2 DEF Hdmi!Prepare
  <1>11. ASSUME kind' = kind, NEW fault \in kind.faults \cup {"none"}, Hdmi!EnableSource(fault)
         PROVE  LayersSound'
    <2>1. CASE fault = "fmt"
      BY <1>2, <1>11, <2>1 DEF Hdmi!EnableSource
    <2>2. CASE fault # "fmt"
      <3> DEFINE s1 == Hdmi!EnableLayer(Hdmi!At(1), 1, fault)
      <3>1. /\ Hdmi!AllDone(Hdmi!At(0), s1) /\ enabled' = TRUE /\ missed' = missed
        BY <1>11, <2>2 DEF Hdmi!EnableSource
      <3>2. Sound(Hdmi!At(0)) /\ Sound(Hdmi!At(1)) /\ fault # "blend"
        BY <1>1, HdmiAssumption DEF LayersSound, SoundLayers, Hdmi!At
      <3>3. Sound(s1)
        BY <3>2, EnabledSound
      <3> HIDE DEF s1
      <3>4. SoundLayers'
        BY <1>11, <3>1, <3>2, <3>3, AllDoneSound
      <3> QED
        BY <1>1, <1>11, <3>1, <3>4 DEF LayersSound
    <2> QED
      BY <2>1, <2>2
  <1>12. ASSUME kind' = kind, NEW video \in Rectangles \cup {"none"},
                NEW fb1 \in Rectangles \cup {"none"},
                NEW fault \in kind.faults \cup {"none"}, NEW where \in {0, 1},
                Hdmi!Set(video, fb1, fault, where)
         PROVE  LayersSound'
    BY <1>1, <1>12, SetSound
  <1>13. ASSUME kind' = kind, NEW blank \in BOOLEAN, Hdmi!Blank(blank)
         PROVE  LayersSound'
    BY <1>2, <1>3, <1>13 DEF Hdmi!Blank
  <1>14. CASE UNCHANGED hdmiVars
    BY <1>2, <1>14 DEF hdmiVars
  <1>15. CASE kind' = kind /\ Hdmi!RegisterProcs
    BY <1>2, <1>15 DEF Hdmi!RegisterProcs
  <1> QED
    BY <1>4, <1>5, <1>6, <1>7, <1>8, <1>9, <1>10, <1>11, <1>12, <1>13, <1>14, <1>15
       DEF Hdmi!Next, Hdmi!Ids


\* An event that says the opposite of the last one goes on alternating.
LEMMA AlternatingAppend ==
    ASSUME NEW e \in Seq(BOOLEAN), Alternating(e), NEW p \in BOOLEAN,
           e # <<>> => (p <=> ~ e[Len(e)])
    PROVE  /\ Append(e, p) \in Seq(BOOLEAN) /\ Alternating(Append(e, p))
           /\ Append(e, p) # <<>> /\ Append(e, p)[Len(Append(e, p))] = p
           /\ e # <<>> => Head(Append(e, p)) = Head(e)
           /\ e = <<>> => Head(Append(e, p)) = p
  <1> DEFINE f == Append(e, p)
  <1>1. /\ f \in Seq(BOOLEAN) /\ Len(f) = Len(e) + 1 /\ Len(e) \in Nat
        /\ \A k \in 1 .. Len(e) : f[k] = e[k]
        /\ f[Len(e) + 1] = p
    BY AppendProperties
  <1>2. f # <<>> /\ Head(f) = f[1] /\ (e # <<>> => Head(e) = e[1] /\ Len(e) > 0)
    BY <1>1, EmptySeq
  <1> HIDE DEF f
  <1>3. ASSUME NEW k \in 1 .. Len(f) - 1
        PROVE  f[k + 1] <=> ~ f[k]
    <2>1. CASE k = Len(e)
      <3>1. f[k + 1] = p /\ f[k] = e[k] /\ e # <<>>
        BY <1>1, <2>1
      <3> QED
        BY <2>1, <3>1
    <2>2. CASE k # Len(e)
      <3>1. k \in 1 .. Len(e) - 1 /\ k \in 1 .. Len(e) /\ k + 1 \in 1 .. Len(e)
        BY <1>1, <2>2
      <3>2. f[k + 1] = e[k + 1] /\ f[k] = e[k]
        BY <1>1, <3>1
      <3> QED
        BY <3>1, <3>2 DEF Alternating
    <2> QED
      BY <2>1, <2>2
  <1>4. f[Len(f)] = p /\ (e # <<>> => Head(f) = Head(e)) /\ (e = <<>> => Head(f) = p)
    BY <1>1, <1>2
  <1> QED
    BY <1>1, <1>2, <1>3, <1>4 DEF Alternating, f

\* The events after the first go on alternating, from its opposite.
LEMMA AlternatingTail ==
    ASSUME NEW e \in Seq(BOOLEAN), Alternating(e), e # <<>>
    PROVE  /\ Tail(e) \in Seq(BOOLEAN) /\ Alternating(Tail(e)) /\ Head(e) \in BOOLEAN
           /\ Tail(e) # <<>> => (/\ Tail(e)[Len(Tail(e))] = e[Len(e)]
                                 /\ Head(Tail(e)) <=> ~ Head(e))
           /\ Tail(e) = <<>> => Head(e) = e[Len(e)]
  <1> DEFINE f == Tail(e)
  <1>1. /\ f \in Seq(BOOLEAN) /\ Len(f) = Len(e) - 1 /\ Len(e) \in Nat \ {0}
        /\ \A k \in 1 .. Len(f) : f[k] = e[k + 1]
        /\ Head(e) = e[1] /\ Head(e) \in BOOLEAN
    BY HeadTailProperties, EmptySeq
  <1>2. f # <<>> => Head(f) = f[1] /\ Len(f) > 0
    BY <1>1, EmptySeq
  <1> HIDE DEF f
  <1>3. f = <<>> => Len(f) = 0
    BY EmptySeq
  <1>4. ASSUME NEW k \in 1 .. Len(f) - 1
        PROVE  f[k + 1] <=> ~ f[k]
    <2>1. k \in 1 .. Len(f) /\ k + 1 \in 1 .. Len(f) /\ k + 1 \in 1 .. Len(e) - 1
      BY <1>1
    <2>2. f[k + 1] = e[(k + 1) + 1] /\ f[k] = e[k + 1]
      BY <1>1, <2>1
    <2> QED
      BY <2>1, <2>2 DEF Alternating
  <1>5. f # <<>> => (/\ f[Len(f)] = e[Len(e)]
                     /\ Head(f) <=> ~ Head(e))
    <2> SUFFICES ASSUME f # <<>>
                 PROVE  f[Len(f)] = e[Len(e)] /\ (Head(f) <=> ~ Head(e))
      OBVIOUS
    <2>1. f[Len(f)] = e[Len(e)]
      BY <1>1, <1>2
    <2>2. 1 \in 1 .. Len(e) - 1 /\ 1 \in 1 .. Len(f)
      BY <1>1, <1>2
    <2>3. Head(f) = e[1 + 1] /\ Head(e) = e[1]
      BY <1>1, <1>2, <2>2
    <2> QED
      BY <2>1, <2>2, <2>3 DEF Alternating
  <1>6. f = <<>> => Head(e) = e[Len(e)]
    <2> SUFFICES ASSUME f = <<>>
                 PROVE  Head(e) = e[Len(e)]
      OBVIOUS
    <2>1. Len(e) = 1
      <3>1. Len(f) = 0 /\ Len(f) = Len(e) - 1 /\ Len(e) \in Nat
        BY <1>1, <1>3
      <3> QED
        BY ONLY <3>1
    <2>2. Head(e) = e[1]
      BY ONLY <1>1
    <2> QED
      BY ONLY <2>1, <2>2
  <1> QED
    BY <1>1, <1>4, <1>5, <1>6 DEF Alternating, f

\* Events go on alternating, and what is told is what was last read.
LEMMA EventsKept ==
    ASSUME HdmiInv, [Hdmi!Next]_hdmiVars
    PROVE  EventsAlternate'
  <1> USE DEF HdmiInv, EventsAlternate, NextPlugged, Hdmi!frameVars, Hdmi!threadVars,
              Hdmi!None, Hdmi!Unplugged, Hdmi!NoSize
  <1>0. kind' = kind
    BY DEF Hdmi!Next, hdmiVars
  <1>1. ASSUME UNCHANGED <<cable, events, uevent, hpd, told>>, frame' = "opened" => frame = "opened"
        PROVE  EventsAlternate'
    BY <1>0, <1>1 DEF Alternating
  <1>2. ASSUME NEW to \in Displays \cup {Hdmi!Unplugged}, Hdmi!Plug(to)
        PROVE  EventsAlternate'
    <2> DEFINE plugged == (to # [w |-> 0, h |-> 0])
    <2>1. /\ events' = Append(events, plugged) /\ cable' = to
          /\ cable = [w |-> 0, h |-> 0] <=> plugged
          /\ UNCHANGED <<uevent, hpd, told, frame>>
      BY <1>2 DEF Hdmi!Plug
    <2>2. cable' \in Resolutions
      <3>1. \A r \in Displays : r \in Resolutions
        BY HdmiAssumption DEF Resolutions
      <3>2. [w |-> 0, h |-> 0] \in Resolutions
        BY DEF Resolutions
      <3> QED
        BY <2>1, <3>1, <3>2
    <2>3. plugged \in BOOLEAN /\ (events # <<>> => (plugged <=> ~ events[Len(events)]))
      BY <2>1
    <2>4. /\ events' \in Seq(BOOLEAN) /\ Alternating(events')
          /\ events' # <<>> /\ events'[Len(events')] = plugged
          /\ events # <<>> => Head(events') = Head(events)
          /\ events = <<>> => Head(events') = plugged
      BY <2>1, <2>3, AlternatingAppend
    <2>5. NextPlugged' <=> NextPlugged
      BY <2>1, <2>4
    <2> QED
      BY <1>0, <2>1, <2>2, <2>4, <2>5 DEF Alternating
  <1>3. CASE Hdmi!Uevent
    <2>1. /\ events # <<>> /\ events' = Tail(events) /\ hpd' = Head(events)
          /\ uevent' = IF hpd' THEN "width" ELSE "tell"
          /\ uevent = "wait" /\ UNCHANGED <<cable, told, frame>>
      BY <1>3 DEF Hdmi!Uevent
    <2>2. /\ events' \in Seq(BOOLEAN) /\ Alternating(events') /\ hpd' \in BOOLEAN
          /\ events' # <<>> => (/\ events'[Len(events')] = events[Len(events)]
                                /\ Head(events') <=> ~ hpd')
          /\ events' = <<>> => hpd' = events[Len(events)]
      BY <2>1, AlternatingTail
    <2>3. hpd' => ~ NextPlugged'
      BY <2>1, <2>2
    <2>4. uevent' \in {"width", "height"} => hpd' /\ told' # "plugged"
      <3>1. hpd' => NextPlugged
        BY <2>1
      <3> QED
        BY <2>1, <3>1
    <2>5. uevent' \in {"width", "tell"}
      BY <2>1
    <2> QED
      BY <2>1, <2>2, <2>3, <2>4, <2>5 DEF Alternating
  <1>4. CASE Hdmi!ReadWidth
    BY <1>0, <1>4 DEF Hdmi!ReadWidth, Alternating
  <1>5. CASE Hdmi!ReadHeight
    BY <1>0, <1>5 DEF Hdmi!ReadHeight, Alternating
  <1>6. CASE Hdmi!ReadFails
    BY <1>0, <1>6 DEF Hdmi!ReadFails, Alternating
  <1>7. CASE Hdmi!Tell
    BY <1>0, <1>7 DEF Hdmi!Tell, Alternating
  <1>8. CASE Hdmi!Prepare
    BY <1>1, <1>8 DEF Hdmi!Prepare
  <1>9. ASSUME NEW fault, Hdmi!EnableSource(fault)
        PROVE  EventsAlternate'
    BY <1>1, <1>9 DEF Hdmi!EnableSource
  <1>10. ASSUME NEW video, NEW fb1, NEW fault, NEW where, Hdmi!Set(video, fb1, fault, where)
         PROVE  EventsAlternate'
    BY <1>1, <1>10 DEF Hdmi!Set
  <1>11. ASSUME NEW blank, Hdmi!Blank(blank)
         PROVE  EventsAlternate'
    BY <1>1, <1>11 DEF Hdmi!Blank
  <1>12. CASE UNCHANGED hdmiVars
    BY <1>1, <1>12 DEF hdmiVars
  <1>13. CASE Hdmi!RegisterProcs
    BY <1>1, <1>13 DEF Hdmi!RegisterProcs
  <1> QED
    BY <1>2, <1>3, <1>4, <1>5, <1>6, <1>7, <1>8, <1>9, <1>10, <1>11, <1>12, <1>13, HdmiAssumption
       DEF Hdmi!Next, LayersSound, Hdmi!KindsOf

\* The mixer goes on having the resolution that was read last.
LEMMA MixerKept ==
    ASSUME HdmiInv, [Hdmi!Next]_hdmiVars
    PROVE  MixerFollows'
  <1> USE DEF HdmiInv, EventsAlternate, MixerFollows, NextPlugged, Resolutions,
              Hdmi!frameVars, Hdmi!threadVars, Hdmi!Calm, Hdmi!Unplugged, Hdmi!NoSize
  <1>1. ASSUME kind' = kind, NEW to, Hdmi!Plug(to)
        PROVE  MixerFollows'
    BY <1>1 DEF Hdmi!Plug
  <1>2. CASE kind' = kind /\ Hdmi!Uevent
    <2>1. events # <<>> => Head(events) = NextPlugged
      OBVIOUS
    <2> QED
      BY <1>2, <2>1 DEF Hdmi!Uevent
  <1>3. CASE kind' = kind /\ Hdmi!ReadWidth
    BY <1>3 DEF Hdmi!ReadWidth
  <1>4. CASE kind' = kind /\ Hdmi!ReadHeight
    BY <1>4 DEF Hdmi!ReadHeight
  <1>5. CASE kind' = kind /\ Hdmi!ReadFails
    BY <1>5 DEF Hdmi!ReadFails
  <1>6. CASE kind' = kind /\ Hdmi!Tell
    BY <1>6 DEF Hdmi!Tell
  <1>7. CASE kind' = kind /\ Hdmi!Prepare
    <2>1. fresh' = TRUE /\ UNCHANGED <<kind, uevent, hpd, size>> /\ (kind.calm => uevent = "wait")
      BY <1>7 DEF Hdmi!Prepare
    <2>2. CASE hpd /\ frame' = "set" /\ UNCHANGED <<enabled, mixer>>
      BY <2>1, <2>2
    <2>3. CASE hpd /\ ~ enabled /\ mixer' = [mixer EXCEPT !.sink = size] /\ frame' = "source"
               /\ UNCHANGED enabled
      BY <2>1, <2>3
    <2>4. CASE enabled' = FALSE /\ frame' = "set" /\ UNCHANGED mixer
      BY <2>1, <2>4
    <2> QED
      BY <1>7, <2>2, <2>3, <2>4 DEF Hdmi!Prepare, Hdmi!Disable
  <1>8. ASSUME kind' = kind, NEW fault, Hdmi!EnableSource(fault)
        PROVE  MixerFollows'
    BY <1>8 DEF Hdmi!EnableSource
  <1>9. ASSUME kind' = kind, NEW video, NEW fb1, NEW fault, NEW where,
               Hdmi!Set(video, fb1, fault, where)
        PROVE  MixerFollows'
    BY <1>9 DEF Hdmi!Set
  <1>10. ASSUME kind' = kind, NEW blank, Hdmi!Blank(blank)
         PROVE  MixerFollows'
    BY <1>10 DEF Hdmi!Blank, Hdmi!Disable
  <1>11. CASE UNCHANGED hdmiVars
    BY <1>11 DEF hdmiVars
  <1>12. CASE kind' = kind /\ Hdmi!RegisterProcs
    BY <1>12 DEF Hdmi!RegisterProcs
  <1> QED
    BY <1>1, <1>2, <1>3, <1>4, <1>5, <1>6, <1>7, <1>8, <1>9, <1>10, <1>11, <1>12 DEF Hdmi!Next


\* Initially both layers are off, whatever display there is, and nobody was told.
LEMMA HdmiInit ==
    ASSUME Hdmi!Init
    PROVE  HdmiInv
  <1> USE DEF Hdmi!Init, Hdmi!None, Hdmi!Unplugged, Hdmi!NoSize, Hdmi!Ids
  <1>1. /\ kind \in Kinds /\ events = <<>> /\ uevent = "wait"
        /\ enabled = FALSE /\ told = "never"
        /\ mixer = [sink |-> [w |-> 0, h |-> 0], source |-> [w |-> 0, h |-> 0]]
        /\ frame = "opened" /\ gsc = FALSE /\ missed = {} /\ fresh = TRUE
        /\ hpd = (size # [w |-> 0, h |-> 0])
        /\ kind.calm => size = cable \/ ~ hpd
    BY DEF Hdmi!Calm
  <1>2. {cable, size, [w |-> 0, h |-> 0]} \subseteq Resolutions
    <2>1. \A r \in Displays : r \in Resolutions
      BY HdmiAssumption DEF Resolutions
    <2>2. [w |-> 0, h |-> 0] \in Resolutions
      BY DEF Resolutions
    <2>3. kind.displays \subseteq Displays
      BY <1>1, HdmiAssumption DEF Hdmi!KindsOf
    <2> QED
      BY <2>1, <2>2, <2>3
  <1> DEFINE h == [enabled |-> FALSE, streaming |-> FALSE, cfg |-> "none", queued |-> 0,
                   current |-> 0]
             d == [bufs |-> FALSE, queue |-> <<>>, on |-> FALSE]
  <1>3. \A i \in {0, 1} : layer[i] = h /\ driver[i] = d
    BY DEF Hdmi!NoLayer, Hdmi!NoQueue
  <1>4. Sound([hl |-> h, drv |-> d])
    BY EmptySound
  <1>5. \A i \in {0, 1} : ~ layer[i].enabled
    BY <1>3
  <1> HIDE DEF h, d
  <1>6. LayersSound
    BY <1>1, <1>3, <1>4, <1>5 DEF LayersSound, SoundLayers
  <1>7. EventsAlternate
    <2>1. events \in Seq(BOOLEAN) /\ \A k \in 1 .. Len(events) - 1 : FALSE
      BY <1>1, EmptySeq
    <2> QED
      BY <1>1, <1>2, <2>1 DEF EventsAlternate, Alternating, NextPlugged
  <1>8. MixerFollows
    BY <1>1, <1>2 DEF MixerFollows
  <1> QED
    BY <1>6, <1>7, <1>8 DEF HdmiInv

\* The invariant is what the run checks, and more.
LEMMA HdmiInvKeeps ==
    ASSUME HdmiInv
    PROVE  DisplayAgrees
  <1> DEFINE s(i) == [hl |-> layer[i], drv |-> driver[i]]
  <1>1. \A i \in {0, 1} : Sound(s(i)) /\ s(i).hl = layer[i] /\ s(i).drv = driver[i]
    BY DEF HdmiInv, LayersSound, SoundLayers
  <1> HIDE DEF s
  <1>2. Hdmi!Numbered
    <2> SUFFICES ASSUME NEW i \in {0, 1}
                 PROVE  /\ layer[i].queued = Len(driver[i].queue)
                        /\ layer[i].queued < NumHdmiBuffers =>
                              ~ Hdmi!Contains(driver[i].queue, layer[i].current)
      BY DEF Hdmi!Numbered, Hdmi!Ids
    <2>1. layer[i].queued = Len(driver[i].queue)
      BY <1>1 DEF Sound
    <2>2. layer[i].queued < NumHdmiBuffers =>
             ~ Hdmi!Contains(driver[i].queue, layer[i].current)
      BY <1>1, NextIsFree
    <2> QED
      BY <2>1, <2>2
  <1>3. Hdmi!OffIsOff
    <2>1. \A i \in {0, 1} : ~ layer[i].enabled => ~ driver[i].on
      BY <1>1 DEF Sound
    <2> QED
      BY <2>1 DEF HdmiInv, LayersSound, Hdmi!OffIsOff, Hdmi!Ids
  <1>4. Hdmi!ToldPlugged
    BY DEF HdmiInv, EventsAlternate, Hdmi!ToldPlugged
  <1>5. Hdmi!Calm => Hdmi!MixerFits
    BY DEF HdmiInv, MixerFollows, Hdmi!MixerFits, Hdmi!Calm
  <1>6. "reqbufs" \notin Hdmi!Failing => Hdmi!Recovers
    BY DEF HdmiInv, LayersSound, Hdmi!Recovers, Hdmi!Failing
  <1> QED
    BY <1>2, <1>3, <1>4, <1>5, <1>6 DEF DisplayAgrees, Hdmi!Agrees

\* For any number of buffers of a layer, any displays and rectangles and any
\* number of events under way: the HAL's count of the buffers in a layer's queue
\* is the driver's and the buffer it uses next is not among them, whatever call
\* failed in whichever frame; a display that is off has no layer that streams;
\* from the first call of hotplug on the framework knows, between two uevents,
\* whether there is a display, whatever was plugged in when the device was opened
\* and however many events came before the procs were registered; where a frame
\* follows each uevent, and none was missed before the thread listened, the mixer
\* has the display's resolution; and where REQBUFS does not fail, a frame in which
\* nothing fails shows its layers (exynos5_open, exynos5_registerProcs,
\* handle_hdmi_uevent, hdmi_enable, hdmi_output, hdmi_disable_layer).  Blending and
\* stream-on succeed (HdmiAssumption).
THEOREM DisplayStaysInStep == MCSpec => []DisplayAgrees
  <1>1. MCInit => HdmiInv
    BY HdmiInit DEF MCInit
  <1>2. HdmiInv /\ [MCNext]_all => HdmiInv'
    <2>1. [MCNext]_all => [Hdmi!Next]_hdmiVars
      BY DEF MCNext, all
    <2>2. HdmiInv /\ [Hdmi!Next]_hdmiVars => HdmiInv'
      BY LayersKept, EventsKept, MixerKept DEF HdmiInv
    <2> QED
      BY <2>1, <2>2
  <1>3. HdmiInv => DisplayAgrees
    BY HdmiInvKeeps
  <1> QED
    BY <1>1, <1>2, <1>3, PTL DEF MCSpec
=============================================================================
