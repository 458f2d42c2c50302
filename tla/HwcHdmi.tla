------------------------------ MODULE HwcHdmi ------------------------------
(***************************************************************************)
(* The hardware composer's second display (src/libhwc/hwc.cpp).  The       *)
(* uevent thread follows the HDMI cable, reads the display's resolution    *)
(* and tells the framework; SurfaceFlinger's thread switches the mixer and *)
(* its two layers (0 video, 1 frame buffer) on and off between frames and  *)
(* queues a buffer of each in a frame.  The layers' V4L2 queues count      *)
(* their buffers beside the HAL.                                           *)
(***************************************************************************)
EXTENDS Integers, Sequences, SequencesExt

CONSTANTS
  Sizes,        \* resolutions of displays, records [w, h]
  Configs,      \* rectangles of a layer
  NumBuffers,   \* NUM_HDMI_BUFFERS
  MaxEvents,    \* uevents that wait for the thread
  Kinds         \* what may happen to the display: see KindsOf

\* displays: what is plugged in.  faults: what can fail.  calm: what was plugged
\* in when the device was opened still is when the uevent thread listens, a frame
\* is composed after each uevent and none during one.
KindsOf ==
  [displays : SUBSET Sizes,
   faults : SUBSET {"preset", "gsc", "fmt", "reqbufs", "blend", "queue", "stream"},
   calm : BOOLEAN]

VARIABLES
  kind,       \* one of Kinds (kept)
  cable,      \* the display that is plugged in, or Unplugged
  events,     \* uevents under way: plugged or not
  uevent,     \* handle_hdmi_uevent: "wait", "width", "height" or "tell"
  hpd, blanked, size, enabled,     \* pdev->hdmi_...
  told,       \* what procs->hotplug said last: "plugged", "unplugged" or "never"
  mixer,      \* the formats of its sink and its source pad
  frame,      \* SurfaceFlinger: "opened", without procs; then "prepare", "source"
              \* within hdmi_enable, "set"
  layer,      \* hdmi_layers: enabled, streaming, cfg, queued_buf, current_buf
  driver,     \* their queues: buffers allocated, the queue, streaming
  gsc,        \* a G-Scaler works for the video layer
  missed,     \* layers of the last frame not shown although nothing failed
  fresh       \* a frame was prepared since the last uevent

Failing == kind.faults
Calm == kind.calm

vars == <<kind, cable, events, uevent, hpd, blanked, size, enabled, told, mixer, frame,
          layer, driver, gsc, missed, fresh>>
threadVars == <<cable, events, uevent, hpd, size, told>>
frameVars == <<enabled, mixer, frame, layer, driver, gsc, missed>>

None == "none"
NoSize == [w |-> 0, h |-> 0]
Unplugged == NoSize
NoLayer == [enabled |-> FALSE, streaming |-> FALSE, cfg |-> None, queued |-> 0, current |-> 0]
NoQueue == [bufs |-> FALSE, queue |-> <<>>, on |-> FALSE]
Ids == {0, 1}

(* exynos5_open has read the switch and the display's resolution, and tells *)
(* nobody.  What happens before the uevent thread listens goes unnoticed.   *)
Init ==
  /\ kind \in Kinds
  /\ cable \in kind.displays \cup {Unplugged}
  /\ size \in kind.displays \cup {NoSize} /\ hpd = (size # NoSize)
  /\ Calm => size = cable \/ ("preset" \in Failing /\ ~ hpd)
  /\ events = <<>> /\ uevent = "wait"
  /\ blanked = FALSE /\ enabled = FALSE /\ told = "never"
  /\ mixer = [sink |-> NoSize, source |-> NoSize] /\ frame = "opened"
  /\ layer = [i \in Ids |-> NoLayer] /\ driver = [i \in Ids |-> NoQueue]
  /\ gsc = FALSE /\ missed = {} /\ fresh = TRUE

-----------------------------------------------------------------------------
(* The cable and the uevent thread.                                         *)

Plug(to) ==
  /\ Len(events) < MaxEvents /\ (cable = Unplugged) # (to = Unplugged)
  /\ cable' = to
  /\ events' = Append(events, to # Unplugged)
  /\ UNCHANGED <<uevent, hpd, blanked, size, told, fresh, frameVars>>

(* SWITCH_STATE.  The preset that is then read is the one of now.           *)
Uevent ==
  /\ uevent = "wait" /\ events # <<>> /\ (Calm => fresh)
  /\ events' = Tail(events)
  /\ hpd' = Head(events)
  /\ uevent' = IF hpd' THEN "width" ELSE "tell"
  /\ UNCHANGED <<cable, blanked, size, told, fresh, frameVars>>

ReadWidth ==
  /\ uevent = "width" /\ cable # Unplugged
  /\ size' = [size EXCEPT !.w = cable.w]
  /\ uevent' = "height"
  /\ UNCHANGED <<cable, events, hpd, blanked, told, fresh, frameVars>>

ReadHeight ==
  /\ uevent = "height"
  /\ size' = IF cable = Unplugged THEN size ELSE [size EXCEPT !.h = cable.h]
  /\ uevent' = "tell"
  /\ blanked' = FALSE
  /\ UNCHANGED <<cable, events, hpd, told, fresh, frameVars>>

(* The configuration cannot be read: nobody is told.                        *)
ReadFails ==
  /\ uevent = "width" /\ (cable = Unplugged \/ "preset" \in Failing)
  /\ hpd' = FALSE
  /\ uevent' = "wait" /\ fresh' = FALSE
  /\ UNCHANGED <<cable, events, blanked, size, told, frameVars>>

(* Nobody is told before the procs are registered.                          *)
Tell ==
  /\ uevent = "tell"
  /\ told' = IF frame = "opened" THEN told ELSE IF hpd THEN "plugged" ELSE "unplugged"
  /\ uevent' = "wait" /\ fresh' = FALSE
  /\ UNCHANGED <<cable, events, hpd, blanked, size, frameVars>>

-----------------------------------------------------------------------------
(* A layer, s = [hl, drv], with the fault that meets it.                    *)

At(i) == [hl |-> layer[i], drv |-> driver[i]]

EnableLayer(s, i, fault) ==
  IF s.hl.enabled \/ fault = "reqbufs" \/ s.drv.on THEN s
  ELSE [hl |-> [s.hl EXCEPT !.enabled = ~ (i = 1 /\ fault = "blend")],
        drv |-> [NoQueue EXCEPT !.bufs = TRUE]]

DisableLayer(s) ==
  IF ~ s.hl.enabled THEN s ELSE [hl |-> NoLayer, drv |-> NoQueue]

Configured(s, i, cfg, fault) ==
  IF s.hl.cfg = cfg THEN s
  ELSE LET off == DisableLayer(s)
       IN  IF fault = "fmt" THEN off
           ELSE [EnableLayer(off, i, fault) EXCEPT !.hl.cfg = cfg]

(* A full queue gives its oldest buffer back when the layer streams.        *)
Room(s) ==
  IF s.hl.queued = NumBuffers /\ s.drv.on
  THEN [s EXCEPT !.hl.queued = @ - 1, !.drv.queue = Tail(@)] ELSE s

CanQueue(s, fault) ==
  /\ s.hl.queued < NumBuffers /\ s.drv.bufs /\ fault # "queue"
  /\ ~ Contains(s.drv.queue, s.hl.current)

Queued(s) ==
  [s EXCEPT !.hl.queued = @ + 1, !.hl.current = (@ + 1) % NumBuffers,
            !.drv.queue = Append(@, s.hl.current)]

Streams(s) ==
  [hl |-> [s.hl EXCEPT !.streaming = TRUE], drv |-> [s.drv EXCEPT !.on = TRUE]]

(* hdmi_output: what becomes of the layer, and whether it shows the frame.  *)
Output(s, i, cfg, fault) ==
  LET set == Configured(s, i, cfg, fault)
      room == IF set.hl.cfg = cfg THEN Room(set) ELSE set
  IN  IF set.hl.cfg # cfg \/ ~ CanQueue(room, fault)
      THEN [state |-> room, ok |-> FALSE]
      ELSE LET starts == ~ room.hl.streaming
           IN  IF starts /\ fault = "stream" THEN [state |-> Queued(room), ok |-> FALSE]
               ELSE [state |-> IF starts THEN Streams(Queued(room)) ELSE Queued(room), ok |-> TRUE]

-----------------------------------------------------------------------------
(* SurfaceFlinger's thread.                                                 *)

AllDone(s0, s1) ==
  /\ layer' = [i \in Ids |-> IF i = 0 THEN s0.hl ELSE s1.hl]
  /\ driver' = [i \in Ids |-> IF i = 0 THEN s0.drv ELSE s1.drv]

(* Variant with a defect: the display counts as enabled.                    *)
DisableStays ==
  /\ UNCHANGED enabled
  /\ IF enabled THEN AllDone(DisableLayer(At(0)), DisableLayer(At(1))) /\ gsc' = FALSE
                ELSE UNCHANGED <<layer, driver, gsc>>

(* hdmi_disable.                                                            *)
Disable ==
  /\ enabled' = FALSE
  /\ IF enabled THEN AllDone(DisableLayer(At(0)), DisableLayer(At(1))) /\ gsc' = FALSE
                ELSE UNCHANGED <<layer, driver, gsc>>

RegisterProcs ==
  /\ frame = "opened" /\ frame' = "prepare"
  /\ UNCHANGED <<threadVars, blanked, enabled, mixer, layer, driver, gsc, missed, fresh>>

(* exynos5_prepare, up to the mixer's sink pad.                             *)
Prepare ==
  /\ frame = "prepare" /\ (Calm => uevent = "wait")
  /\ fresh' = TRUE
  /\ \/ /\ hpd /\ (enabled \/ blanked)
        /\ frame' = "set" /\ UNCHANGED <<enabled, layer, driver, gsc, mixer>>
     \/ /\ hpd /\ ~ enabled /\ ~ blanked
        /\ mixer' = [mixer EXCEPT !.sink = size]
        /\ frame' = "source" /\ UNCHANGED <<enabled, layer, driver, gsc>>
     \/ ~ hpd /\ Disable /\ frame' = "set" /\ UNCHANGED mixer
  /\ UNCHANGED <<threadVars, blanked, missed>>

(* A pad that refuses its format leaves the display off until the next      *)
(* frame; a layer that cannot be enabled does not.                          *)
EnableSource(fault) ==
  /\ frame = "source" /\ (Calm => uevent = "wait")
  /\ frame' = "set"
  /\ IF fault = "fmt" THEN UNCHANGED <<enabled, mixer, layer, driver>>
     ELSE /\ mixer' = [mixer EXCEPT !.source = size]
          /\ enabled' = TRUE
          /\ AllDone(At(0), EnableLayer(At(1), 1, fault))
  /\ UNCHANGED <<threadVars, blanked, gsc, missed, fresh>>

(* exynos5_set_hdmi: the video goes through the G-Scaler, whose failure     *)
(* leaves no video.  One thing fails in a frame, at one layer.              *)
Set(video, fb, fault, at) ==
  LET meets(i) == IF at = i THEN fault ELSE None
      scaled == video # None /\ fault # "gsc"
      out0 == IF scaled THEN Output(At(0), 0, video, meets(0))
              ELSE [state |-> DisableLayer(At(0)), ok |-> FALSE]
      out1 == IF fb # None THEN Output(At(1), 1, fb, meets(1))
              ELSE [state |-> DisableLayer(At(1)), ok |-> FALSE]
  IN  /\ frame = "set"
      /\ frame' = "prepare"
      /\ IF enabled
         THEN /\ AllDone(out0.state, out1.state)
              /\ gsc' = scaled
              /\ missed' = {i \in Ids : /\ fault = None
                                         /\ (IF i = 0 THEN video ELSE fb) # None
                                         /\ ~ (IF i = 0 THEN out0 ELSE out1).ok}
         ELSE /\ missed' = {}
              /\ UNCHANGED <<layer, driver, gsc>>
      /\ UNCHANGED <<threadVars, blanked, enabled, mixer, fresh>>

Blank(blank) ==
  /\ frame = "prepare" /\ hpd
  /\ IF blank /\ ~ blanked THEN Disable ELSE UNCHANGED <<enabled, layer, driver, gsc>>
  /\ blanked' = blank
  /\ UNCHANGED <<threadVars, mixer, frame, missed, fresh>>

Next ==
  /\ UNCHANGED kind
  /\ \/ \E to \in kind.displays \cup {Unplugged} : Plug(to)
     \/ Uevent \/ ReadWidth \/ ReadHeight \/ ReadFails \/ Tell
     \/ RegisterProcs \/ Prepare
     \/ \E fault \in Failing \cup {None} : EnableSource(fault)
     \/ \E video, fb \in Configs \cup {None}, fault \in Failing \cup {None}, at \in Ids :
           Set(video, fb, fault, at)
     \/ \E blank \in BOOLEAN : Blank(blank)

Spec == Init /\ [][Next]_vars

-----------------------------------------------------------------------------
(* The HAL's numbers are the queue's: as many buffers are queued as it      *)
(* counts, and the next to be used is not among them.                       *)
Numbered ==
  \A i \in Ids :
     /\ layer[i].queued = Len(driver[i].queue)
     /\ driver[i].bufs /\ layer[i].queued < NumBuffers =>
          ~ Contains(driver[i].queue, layer[i].current)

(* A display that is off has no layer that streams and no G-Scaler at work. *)
OffIsOff == ~ enabled => ~ gsc /\ \A i \in Ids : ~ driver[i].on

(* A frame in which nothing fails shows its layers, whatever failed before. *)
Recovers == missed = {}

(* The mixer works at the display's resolution.                             *)
MixerFits == enabled /\ hpd /\ uevent = "wait" /\ fresh => mixer = [sink |-> size, source |-> size]

(* Once the framework has been told of the display it knows, between two    *)
(* uevents, whether there is one.                                            *)
ToldPlugged == uevent = "wait" /\ told # "never" => (told = "plugged") = hpd

(* All of these, where the faults and the framework allow it.               *)
Agrees ==
  /\ Numbered /\ OffIsOff /\ ToldPlugged
  /\ Calm => MixerFits
  /\ "reqbufs" \notin Failing => Recovers
=============================================================================
