------------------------------ MODULE Gscaler -------------------------------
(***************************************************************************)
(* A handle of the G-Scaler library in memory-to-memory mode               *)
(* (src/libgscaler/exynos_gscaler.c) with the driver's two queues under    *)
(* it: the operations as functions of the handle, for the module of its    *)
(* client, HwcGscaler.  Every operation takes the call that fails in it,   *)
(* or NoFault.                                                             *)
(***************************************************************************)
EXTENDS Naturals

NoFault == "none"

\* The calls that can fail on the way of a run, in their order, the stop before
\* a new format first.
RunFaults == {"stop", "size", "wait", "formatSrc", "formatDst", "protect",
              "queueSrc", "queueDst", "onSrc", "onDst"}

(* One side of the handle: what the library believes (gsc_info) and what   *)
(* the driver's queue has.                                                  *)
Side == [dirty: BOOLEAN, on: BOOLEAN, marked: BOOLEAN, drm: BOOLEAN,
         allocated: BOOLEAN, queued: BOOLEAN]
NewSide == [dirty |-> FALSE, on |-> FALSE, marked |-> FALSE, drm |-> FALSE,
            allocated |-> FALSE, queued |-> FALSE]

Handle == [src: Side, dst: Side, allowDrm: BOOLEAN, believesProtected: BOOLEAN, secure: BOOLEAN]

(* exynos_gsc_create and exynos_gsc_create_exclusive, the handle's part;   *)
(* secure is the secure world's path protection of the unit.               *)
NewHandle(allowDrm) ==
  [src |-> NewSide, dst |-> NewSide, allowDrm |-> allowDrm,
   believesProtected |-> FALSE, secure |-> FALSE]

(* A step's outcome, and the steps after it, taken only if it succeeded.   *)
Ok(h) == [ok |-> TRUE, h |-> h]
Fail(h) == [ok |-> FALSE, h |-> h]
Then(r, Op(_)) == IF r.ok THEN Op(r.h) ELSE r

(* exynos_gsc_set_src_format and exynos_gsc_set_dst_format.                *)
Config(h, drm) ==
  [h EXCEPT !.src.dirty = TRUE, !.src.drm = drm, !.dst.dirty = TRUE, !.dst.drm = drm]

(* m_exynos_gsc_set_format: the driver takes no format while it streams;   *)
(* reqbufs gives one buffer and drops what was queued.                     *)
FormatSrc(h, fault) ==
  IF ~ h.src.dirty THEN Ok(h)
  ELSE IF fault = "formatSrc" \/ h.src.on THEN Fail(h)
  ELSE Ok([h EXCEPT !.src.dirty = FALSE, !.src.allocated = TRUE, !.src.queued = FALSE])
FormatDst(h, fault) ==
  IF ~ h.dst.dirty THEN Ok(h)
  ELSE IF fault = "formatDst" \/ h.dst.on THEN Fail(h)
  ELSE Ok([h EXCEPT !.dst.dirty = FALSE, !.dst.allocated = TRUE, !.dst.queued = FALSE])

(* m_exynos_gsc_set_addr: the one buffer is queued, if there is one that is *)
(* not queued already.                                                      *)
QueueSrc(h, fault) ==
  IF fault = "queueSrc" \/ ~ h.src.allocated \/ h.src.queued THEN Fail(h)
  ELSE Ok([h EXCEPT !.src.queued = TRUE, !.src.marked = TRUE])
QueueDst(h, fault) ==
  IF fault = "queueDst" \/ ~ h.dst.allocated \/ h.dst.queued THEN Fail(h)
  ELSE Ok([h EXCEPT !.dst.queued = TRUE, !.dst.marked = TRUE])

StreamSrc(h, fault) ==
  IF h.src.on THEN Ok(h) ELSE IF fault = "onSrc" THEN Fail(h) ELSE Ok([h EXCEPT !.src.on = TRUE])
StreamDst(h, fault) ==
  IF h.dst.on THEN Ok(h) ELSE IF fault = "onDst" THEN Fail(h) ELSE Ok([h EXCEPT !.dst.on = TRUE])

(* exynos_gsc_m2m_wait_frame_done: the buffers that are marked are taken   *)
(* back; the first dequeue of the source is the one that may fail.          *)
WaitFrameDone(h, fault) ==
  IF ~ h.src.on \/ ~ h.dst.on \/ (fault = "wait" /\ h.src.marked) THEN Fail(h)
  ELSE Ok([h EXCEPT !.src.marked = FALSE, !.src.queued = FALSE,
                    !.dst.marked = FALSE, !.dst.queued = FALSE])

Emptied(side) == [side EXCEPT !.on = FALSE, !.allocated = FALSE, !.queued = FALSE]

\* Mutant: the handle still believes that it streams.
StopStillOn(h) ==
  IF ~ h.src.on /\ ~ h.dst.on THEN h
  ELSE [h EXCEPT !.src = [Emptied(@) EXCEPT !.on = h.src.on], !.dst = Emptied(@),
                 !.secure = FALSE, !.believesProtected = FALSE]

(* exynos_gsc_m2m_stop: without a stream there is nothing to do.            *)
Stop(h) ==
  IF ~ h.src.on /\ ~ h.dst.on THEN h
  ELSE [h EXCEPT !.src = Emptied(@), !.dst = Emptied(@),
                 !.secure = @ /\ ~ (h.allowDrm /\ h.believesProtected),
                 !.believesProtected = FALSE]

(* CP_Enable_Path_Protection, when a change of format turned DRM on.        *)
Protect(h, changed, fault) ==
  IF ~ changed \/ ~ h.allowDrm \/ ~ h.src.drm THEN Ok(h)
  ELSE IF fault = "protect" THEN Fail(h)
  ELSE Ok([h EXCEPT !.secure = TRUE, !.believesProtected = TRUE])

(* From setting the formats on, a failure calls stop.                       *)
Started(h, changed, fault) ==
  LET a == FormatSrc(h, fault)
      b == Then(a, LAMBDA x : FormatDst(x, fault))
      c == Then(b, LAMBDA x : Protect(x, changed, fault))
      d == Then(c, LAMBDA x : QueueSrc(x, fault))
      e == Then(d, LAMBDA x : QueueDst(x, fault))
      f == Then(e, LAMBDA x : StreamSrc(x, fault))
      g == Then(f, LAMBDA x : StreamDst(x, fault))
  IN IF g.ok THEN g ELSE Fail(Stop(g.h))

(* exynos_gsc_m2m_run_core.                                                 *)
RunCore(h, fault) ==
  LET changed == h.src.dirty \/ h.dst.dirty
      allowed == /\ changed => h.src.drm = h.dst.drm
                 /\ h.src.drm => h.allowDrm
      free == IF h.src.on THEN WaitFrameDone(h, fault) ELSE Ok(h)
  IN IF ~ allowed \/ fault = "size" THEN Fail(h)
     ELSE IF ~ free.ok THEN free
     ELSE Started(free.h, changed, fault)

(* exynos_gsc_convert: the frame is waited for and everything is stopped;  *)
(* a failed wait leaves it as it is.                                        *)
Convert(h, fault) ==
  LET run == RunCore(h, fault)
      done == Then(run, LAMBDA x : WaitFrameDone(x, fault))
  IN IF done.ok THEN Ok(Stop(done.h)) ELSE done

(* m_exynos_gsc_destroy: it stops, and closes the device, which gives the  *)
(* driver's buffers back but knows nothing of the secure world.            *)
Destroyed(h) == [NewHandle(h.allowDrm) EXCEPT !.secure = Stop(h).secure]
=============================================================================
