----------------------------- MODULE HwcGscaler -----------------------------
(***************************************************************************)
(* How the hardware composer shows a layer through the G-Scaler            *)
(* (src/libhwc/hwc.cpp: exynos5_config_gsc_m2m, exynos5_cleanup_gsc_m2m,   *)
(* exynos5_post_fimd and exynos5_set_fimd): the ring of destination        *)
(* buffers, the sync fences that travel between the layers, the G-Scaler   *)
(* and the display, and who closes them.                                   *)
(*                                                                         *)
(* A fence is a number, as its file descriptor is; 0 is none.  Beside the  *)
(* scaled layer there is one layer with a window of its own and a frame     *)
(* buffer, whose acquire fences take the same way.                          *)
(***************************************************************************)
EXTENDS Gscaler, FiniteSets

CONSTANTS
  NumBufs,      \* NUM_GSC_DST_BUFS
  Configs,      \* what a scaled layer can look like
  DrmConfigs,   \* those of protected layers
  Faults,       \* what may fail in a frame
  NoConfig       \* no layer needs the G-Scaler

ASSUME HwcGscalerAssumption == NumBufs \in Nat \ {0} /\ NoConfig \notin Configs

VARIABLES
  want,       \* the layer of this frame that needs the G-Scaler, or NoConfig
  phase,      \* "prepare" | "set" | "crashed"
  alive,      \* gsc_data->gsc is there
  unit,       \* the handle, or what its closing left of it
  saved,      \* gsc_data->src_cfg and dst_cfg, NoConfig when zeroed
  slots,      \* gsc_data->dst_buf_fence, 0 for -1
  current,    \* gsc_data->current_buf
  open,       \* the fences that are open in the composer
  shows,      \* the fence after which the display reads a buffer no more
  written     \* the G-Scaler's last target: the fence it got and the right one

vars == <<want, phase, alive, unit, saved, slots, current, open, shows, written>>

Ring == 0 .. NumBufs - 1
Owned == {slots[b] : b \in Ring} \ {0}
NoFences == [b \in Ring |-> 0]

(* The kernel's next descriptor: the smallest that is free.                 *)
Fresh(set) == CHOOSE n \in 1 .. Cardinality(set) + 1 :
                n \notin set /\ \A m \in 1 .. n - 1 : m \in set

(* The state a frame works on.                                              *)
Here == [alive |-> alive, unit |-> unit, saved |-> saved, slots |-> slots,
         current |-> current, open |-> open, shows |-> shows, written |-> written]

Now(s) ==
  /\ alive' = s.alive /\ unit' = s.unit /\ saved' = s.saved /\ slots' = s.slots
  /\ current' = s.current /\ open' = s.open /\ shows' = s.shows /\ written' = s.written

Fences(s) == {s.slots[b] : b \in Ring} \ {0}

(* Every destination buffer is freed and its fence closed.                  *)
Cleared(s) == [s EXCEPT !.open = @ \ Fences(s), !.slots = NoFences, !.shows = NoFences]

Destroy(s) == [s EXCEPT !.alive = FALSE, !.unit = Destroyed(s.unit)]

(* exynos5_cleanup_gsc_m2m.                                                 *)
Cleanup(s) ==
  IF ~ s.alive THEN s
  ELSE [Cleared(Destroy([s EXCEPT !.unit = Stop(s.unit)])) EXCEPT !.saved = NoConfig, !.current = 0]

(* The end of exynos5_config_gsc_m2m when something failed: acquire is the  *)
(* layer's fence, which is closed here; the one taken out of the ring is    *)
(* not.                                                                     *)
Abandoned(s, acquire) == [Cleared([s EXCEPT !.open = @ \ {acquire}]) EXCEPT !.saved = NoConfig]

(* exynos_gsc_m2m_run: it closes the acquire fences of a run that started;  *)
(* the release fences, made when the source and the target are queued, are  *)
(* nobody's when the run failed after that.                                 *)
TargetQueued(fault) == fault \in {"onSrc", "onDst"}
SourceQueued(fault) == fault = "queueDst" \/ TargetQueued(fault)

Leaked(set, fault) ==
  LET source == Fresh(set)
      target == Fresh(set \cup {source})
  IN {f \in {source, target} : \/ f = source /\ SourceQueued(fault)
                               \/ f = target /\ TargetQueued(fault)}

(* The G-Scaler's part of exynos5_config_gsc_m2m, after the buffers.  A stop *)
(* that fails has stopped all the same.                                     *)
Scaled(s, acquire, fault) ==
  LET guard == s.slots[s.current]
      taken == [s EXCEPT !.slots[s.current] = 0]
      changed == s.saved # want
      opened == IF taken.alive THEN taken
                ELSE [taken EXCEPT !.alive = TRUE,
                                   !.unit = [NewHandle(TRUE) EXCEPT !.secure = taken.unit.secure]]
      set == IF changed THEN [opened EXCEPT !.unit = Config(Stop(@), want \in DrmConfigs)] ELSE opened
      unstopped == changed /\ fault = "stop" /\ (opened.unit.src.on \/ opened.unit.dst.on)
      run == IF unstopped THEN Fail(set.unit) ELSE RunCore(set.unit, fault)
      after == [set EXCEPT !.unit = run.h]
  IN IF ~ taken.alive /\ fault = "create"
     THEN [ok |-> FALSE, window |-> 0, s |-> Abandoned(taken, acquire)]
     ELSE IF ~ run.ok
     THEN [ok |-> FALSE, window |-> 0,
           s |-> Abandoned(Destroy([after EXCEPT !.open = @ \cup Leaked(@, fault)]), acquire)]
     ELSE LET closed == after.open \ {acquire, guard}
              made == Fresh(closed)
          IN [ok |-> TRUE, window |-> made,
              s |-> [after EXCEPT !.open = closed \cup {made}, !.saved = want,
                                  !.written = [got |-> guard, right |-> s.shows[s.current]]]]

(* exynos5_config_gsc_m2m: another configuration takes new buffers.         *)
ConfigGsc(s, acquire, fault) ==
  IF s.saved = want THEN Scaled(s, acquire, fault)
  ELSE Scaled([Cleared(s) EXCEPT !.current = 0], acquire, fault)

\* Mutant: the buffer's fence is not kept.
ReleasedUnkept(s) ==
  LET dup == Fresh(s.open)
  IN [s EXCEPT !.shows[s.current] = dup, !.current = (@ + 1) % NumBufs]

(* The release fence of the frame for the layers: the framework takes the  *)
(* others', the scaled layer's stays in the ring with its buffer.           *)
Released(s) ==
  LET dup == Fresh(s.open)
  IN [s EXCEPT !.open = @ \cup {dup}, !.slots[s.current] = dup, !.shows[s.current] = dup,
               !.current = (@ + 1) % NumBufs]

(* exynos5_post_fimd and the rest of exynos5_set_fimd.  The acquire fences *)
(* in the window configurations are closed whatever the driver said.       *)
Frame(fault) ==
  LET other == Fresh(open)
      acquire == Fresh(open \cup {other})
      given == [Here EXCEPT !.open = @ \cup {other} \cup (IF want = NoConfig THEN {} ELSE {acquire})]
      gsc == ConfigGsc(given, acquire, fault)
  IN IF fault = "target" THEN IF want = NoConfig THEN given ELSE Released(given)
     ELSE IF want = NoConfig THEN [given EXCEPT !.open = @ \ {other}]
     ELSE LET posted == [gsc.s EXCEPT !.open = @ \ {other, gsc.window}]
          IN IF gsc.ok THEN Released(posted) ELSE posted

(* exynos5_prepare_fimd's end: without a scaled layer the G-Scaler is given *)
(* back.                                                                    *)
Prepare(layer) ==
  /\ phase = "prepare" /\ phase' = "set" /\ want' = layer
  /\ IF layer = NoConfig THEN Now(Cleanup(Here)) ELSE Now(Here)

Set(fault) ==
  /\ phase = "set"
  /\ ~ (fault = "alloc" /\ want \notin {NoConfig, saved})
  /\ Now(Frame(fault))
  /\ phase' = "prepare"
  /\ UNCHANGED want

(* A destination buffer cannot be allocated: the inner ret shadows the one *)
(* that is returned, the caller sees success and a buffer that is not       *)
(* there.                                                                   *)
SetWithoutBuffer ==
  /\ phase = "set" /\ "alloc" \in Faults /\ want \notin {NoConfig, saved}
  /\ phase' = "crashed"
  /\ UNCHANGED <<want, alive, unit, saved, slots, current, open, shows, written>>

Init ==
  /\ want = NoConfig /\ phase = "prepare" /\ alive = FALSE /\ unit = NewHandle(TRUE)
  /\ saved = NoConfig /\ slots = NoFences /\ current = 0 /\ open = {} /\ shows = NoFences
  /\ written = [got |-> 0, right |-> 0]

Next ==
  \/ \E layer \in Configs \cup {NoConfig} : Prepare(layer)
  \/ \E fault \in Faults \cup {NoFault} : Set(fault)
  \/ SetWithoutBuffer

Spec == Init /\ [][Next]_vars

-----------------------------------------------------------------------------
(* A fence that is kept with a buffer has not been closed.                  *)
KeptAreOpen == Owned \subseteq open

(* Only a frame in which the composer or the G-Scaler fails leaves a fence  *)
(* open that is not kept with a buffer; neither a refusal of the driver     *)
(* does nor giving the G-Scaler back.                                       *)
LeavesNone ==
  (\E fault \in {NoFault, "ioctl"} : Set(fault)) \/ (\E layer \in Configs \cup {NoConfig} : Prepare(layer))
    => UNCHANGED (open \ Owned)

(* The G-Scaler never writes into a buffer that the display may still read: *)
(* it gets the fence of the last frame that showed the buffer.              *)
FreshBuffer == written.got = written.right

(* Protected content runs through a protected path only.                    *)
Protected == unit.src.on /\ unit.src.drm => unit.secure

(* A frame in which nothing fails comes through, whatever failed in earlier *)
(* ones: the handle that failed has been given up with all its state.       *)
Recovers ==
  phase = "set" /\ want # NoConfig =>
     ConfigGsc([Here EXCEPT !.open = @ \cup {Fresh(open)}], Fresh(open), NoFault).ok

(* A G-Scaler that is closed is not protected: "we cannot afford to leave  *)
(* secure side protection on if things failed".                             *)
ClosedUnprotected == ~ alive => ~ unit.secure

(* exynos5_config_gsc_m2m reports a destination buffer that it could not    *)
(* allocate.                                                                *)
NoMissingBuffer == phase # "crashed"
=============================================================================
