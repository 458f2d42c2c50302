----------------------------- MODULE HwcWindows -----------------------------
(***************************************************************************)
(* The hardware composer's choice of windows (src/libhwc/hwc.cpp,          *)
(* exynos5_prepare_fimd).  The display controller has a few windows, a     *)
(* limited bandwidth and blends at most two of them at one pixel.  Every   *)
(* layer is either drawn by the GPU into the one frame buffer or shown in  *)
(* a window of its own; the search adds layers one at a time and starts    *)
(* again when one has to be given up.                                      *)
(*                                                                         *)
(* Rectangles are intervals of one dimension: the code's tests on them     *)
(* are the same in both, and three boxes that meet in pairs meet in one    *)
(* point in any number of dimensions.                                      *)
(***************************************************************************)
EXTENDS Integers, Sequences, FiniteSets

CONSTANTS
  NumWindows,     \* NUM_HW_WINDOWS
  Xres,           \* the width of the screen
  MaxPixels,      \* MAX_PIXELS
  Burst,          \* the narrowest window, BURSTLEN_BYTES in pixels
  LayerLists,     \* the lists of layers of a first frame
  NextLists       \* and of a later one

(* A layer: background is HWC_BACKGROUND, skip is HWC_SKIP_LAYER, drawable  *)
(* stands for its format and its blending being the hardware's, scaled for *)
(* needing the G-Scaler (format, scaling, transform or alignment), fits for *)
(* exynos5_supports_gscaler; l and r are its displayFrame, off is what      *)
(* exynos5_is_offscreen computes.                                           *)

VARIABLES
  layers,     \* contents->hwLayers without the frame buffer target
  forceGpu,   \* pdev->force_gpu
  type,       \* the composition type of each layer
  fb,         \* fb_needed, first_fb and last_fb
  phase,      \* "classify" | "search" | "assigned" | "posted"
  at,         \* the layer a pass has come to
  left,       \* what the pass has still to give away
  window,     \* overlay_map: the layer of each window, or NoLayer
  gscIn,      \* the windows whose gsc_map says GSC_M2M
  config      \* the window configurations of the last post

vars == <<layers, forceGpu, type, fb, phase, at, left, window, gscIn, config>>

NoLayer == 0

(* A loop over the layers: start, and what step makes of it for each.       *)
OverLayers(step(_, _), start) ==
  LET after[n \in 0 .. Len(layers)] == IF n = 0 THEN start ELSE step(after[n - 1], n)
  IN after[Len(layers)]

Layers == DOMAIN layers
Windows == 0 .. NumWindows - 1
Least(a, b) == IF a < b THEN a ELSE b
Most(a, b) == IF a > b THEN a ELSE b
Size(layer) == layer.r - layer.l

(* min and max of an unsigned width: a layer beside the screen has a        *)
(* negative width, which the conversion to size_t makes a very large one.   *)
VisibleWidth(layer) ==
  LET w == Least(layer.r, Xres) - Most(layer.l, 0) IN IF w < 0 THEN MaxPixels * 4 ELSE w

Supported(layer) ==
  /\ ~ layer.skip
  /\ VisibleWidth(layer) >= Burst
  /\ IF layer.scaled THEN layer.fits ELSE layer.drawable
  /\ ~ layer.off

(* The composition types as the framework hands the layers over.            *)
Offered(l) == [i \in DOMAIN l |-> IF l[i].background THEN "background" ELSE "fb"]

NoFrameBuffer == [needed |-> FALSE, first |-> 0, last |-> 0]

\* Mutant: only the first layer of the frame buffer is remembered.
WidenedFirstOnly(f, i) ==
  IF f.needed THEN [f EXCEPT !.first = Least(@, i)]
              ELSE [needed |-> TRUE, first |-> i, last |-> i]

(* fb_needed, first_fb and last_fb once layer i is drawn by the GPU.        *)
Widened(f, i) ==
  IF f.needed THEN [f EXCEPT !.first = Least(@, i), !.last = Most(@, i)]
              ELSE [needed |-> TRUE, first |-> i, last |-> i]

(* Overlays cannot be composited between layers of the frame buffer.        *)
Unsandwiched(t, f) ==
  [i \in DOMAIN t |-> IF f.needed /\ i >= f.first /\ i < f.last THEN "fb" ELSE t[i]]

(* The first loop: what the hardware cannot show goes to the GPU.           *)
Classified(i) ==
  IF type[i] = "background" /\ ~ forceGpu THEN "background"
  ELSE IF Supported(layers[i]) /\ ~ forceGpu THEN "overlay" ELSE "fb"

(* What a pass has to give away when it begins: the frame buffer takes a   *)
(* window and a screen of bandwidth and lies under everything.              *)
Budget(f) ==
  IF f.needed THEN [pixels |-> MaxPixels - Xres, windows |-> NumWindows - 1,
                    rects |-> {[l |-> 0, r |-> Xres - 1]}, overlaps |-> {}, gsc |-> FALSE]
              ELSE [pixels |-> MaxPixels, windows |-> NumWindows,
                    rects |-> {}, overlaps |-> {}, gsc |-> FALSE]

Classify ==
  /\ phase = "classify"
  /\ LET t == [i \in Layers |-> Classified(i)]
         f == OverLayers(LAMBDA acc, i : IF t[i] = "fb" THEN Widened(acc, i) ELSE acc, NoFrameBuffer)
     IN fb' = f /\ type' = Unsandwiched(t, f) /\ left' = Budget(f)
  /\ at' = 1
  /\ phase' = "search"
  /\ window' = [w \in Windows |-> NoLayer]
  /\ gscIn' = {}
  /\ UNCHANGED <<layers, forceGpu, config>>

Meet(a, b) == ~ (a.l > b.r \/ a.r < b.l)
Common(a, b) == [l |-> Most(a.l, b.l), r |-> Least(a.r, b.r)]
Inclusive(layer) == [l |-> layer.l, r |-> layer.r - 1]

CanCompose(layer) ==
  /\ left.windows > 0 /\ Size(layer) <= left.pixels
  /\ layer.scaled => ~ left.gsc
  /\ \A o \in left.overlaps : ~ Meet(Inclusive(layer), o)

Spent(layer) ==
  LET here == Inclusive(layer)
  IN [left EXCEPT !.overlaps = @ \cup {Common(here, r) : r \in {q \in left.rects : Meet(here, q)}},
                  !.rects = @ \cup {here},
                  !.pixels = @ - Size(layer),
                  !.windows = @ - 1,
                  !.gsc = @ \/ layer.scaled]

(* Skipped layers and those of the frame buffer cost nothing of their own,  *)
(* and nothing is asked of the background.                                  *)
Costless(i) == layers[i].skip \/ type[i] = "fb"
Affordable(i) == Costless(i) \/ type[i] = "background" \/ CanCompose(layers[i])

(* One turn of the pass: the layer gets a window.                           *)
TryLayer ==
  /\ phase = "search" /\ at <= Len(layers) /\ Affordable(at)
  /\ left' = IF Costless(at) THEN left
             ELSE IF type[at] = "background" THEN [left EXCEPT !.windows = @ - 1]
             ELSE Spent(layers[at])
  /\ at' = at + 1
  /\ UNCHANGED <<layers, forceGpu, type, fb, phase, window, gscIn, config>>

\* Mutant: the layer keeps its type.
GiveUpSameType ==
  /\ phase = "search" /\ at <= Len(layers) /\ ~ Affordable(at)
  /\ at' = 1 /\ left' = Budget(fb)
  /\ UNCHANGED <<layers, forceGpu, type, fb, phase, window, gscIn, config>>

(* A layer did not fit: it goes to the GPU and everything is tried again.   *)
GiveUp ==
  /\ phase = "search" /\ at <= Len(layers) /\ ~ Affordable(at)
  /\ LET f == Widened(fb, at)
     IN fb' = f /\ type' = Unsandwiched([type EXCEPT ![at] = "fb"], f) /\ left' = Budget(f)
  /\ at' = 1
  /\ UNCHANGED <<layers, forceGpu, phase, window, gscIn, config>>

(* The windows are numbered in the order of the layers; the frame buffer   *)
(* takes the number of the first layer that is drawn into it.              *)
Numbered(acc, i) ==
  IF fb.needed /\ i = fb.first THEN [acc EXCEPT !.next = @ + 1]
  ELSE IF type[i] = "fb" THEN acc
  ELSE [next |-> acc.next + 1,
        map |-> [acc.map EXCEPT ![acc.next] = i],
        gsc |-> IF type[i] = "overlay" /\ layers[i].scaled THEN acc.gsc \cup {acc.next} ELSE acc.gsc]

Assign ==
  /\ phase = "search" /\ at > Len(layers)
  /\ LET a == OverLayers(Numbered, [next |-> 0, map |-> window, gsc |-> gscIn])
     IN window' = a.map /\ gscIn' = a.gsc
  /\ phase' = "assigned"
  /\ UNCHANGED <<layers, forceGpu, type, fb, at, left, config>>

(* bufs.fb_window is the index of the layer, the windows being counted      *)
(* from 0 as the code's layers are.                                         *)
FbWindow == fb.first - 1

(* exynos5_config_handle: what of the layer is outside the screen is cut    *)
(* off.                                                                     *)
Cropped(layer) ==
  [x |-> Most(layer.l, 0),
   w |-> Size(layer) - (IF layer.l < 0 THEN - layer.l ELSE 0)
                     - (IF layer.r > Xres THEN layer.r - Xres ELSE 0)]

WholeScreen == [x |-> 0, w |-> Xres]
Unused == [x |-> 0, w |-> 0]

(* exynos5_post_fimd, the frame buffer's target put at bufs.fb_window.      *)
Configured(w) ==
  IF fb.needed /\ w = FbWindow THEN WholeScreen
  ELSE IF window[w] = NoLayer THEN Unused
  ELSE IF type[window[w]] = "background" THEN WholeScreen
  ELSE Cropped(layers[window[w]])

Post ==
  /\ phase = "assigned"
  /\ config' = [w \in Windows |-> Configured(w)]
  /\ phase' = "posted"
  /\ UNCHANGED <<layers, forceGpu, type, fb, at, left, window, gscIn>>

(* The next frame: the same layers, or others.                              *)
NextFrame ==
  /\ phase = "posted"
  /\ layers' \in {layers} \cup NextLists
  /\ type' = Offered(layers')
  /\ phase' = "classify"
  /\ UNCHANGED <<forceGpu, fb, at, left, window, gscIn, config>>

Init ==
  /\ layers \in LayerLists
  /\ forceGpu \in BOOLEAN
  /\ type = Offered(layers)
  /\ fb = NoFrameBuffer
  /\ phase = "classify" /\ at = 1 /\ left = Budget(NoFrameBuffer)
  /\ window = [w \in Windows |-> NoLayer]
  /\ gscIn = {}
  /\ config = [w \in Windows |-> Unused]

Next == Classify \/ TryLayer \/ GiveUp \/ Assign \/ Post \/ NextFrame

Spec == Init /\ [][Next]_vars /\ WF_vars(TryLayer \/ GiveUp \/ Assign)

-----------------------------------------------------------------------------
Chosen == phase \in {"assigned", "posted"}
Shown == {i \in Layers : \E w \in Windows : window[w] = i}
Overlays == {i \in Shown : type[i] = "overlay"}
Depth(x) ==
  Cardinality({i \in Overlays : layers[i].l <= x /\ x < layers[i].r})
    + (IF fb.needed THEN 1 ELSE 0)

(* No pixel of the screen is covered by more than two of the windows that  *)
(* are read from memory, the frame buffer one of them: the search looks     *)
(* only at pairs that met before, and starts again when the frame buffer    *)
(* appears.                                                                  *)
TwoDeep == Chosen => \A x \in 0 .. Xres - 1 : Depth(x) <= 2

(* The windows of a frame stay within the bandwidth and the one G-Scaler,   *)
(* with every layer that was put back counted in the frame buffer's screen. *)
WithinBudget ==
  Chosen =>
    /\ OverLayers(LAMBDA n, i : IF i \in Overlays THEN n + Size(layers[i]) ELSE n,
                  IF fb.needed THEN Xres ELSE 0) <= MaxPixels
    /\ Cardinality(gscIn) <= 1

(* Every layer is on the screen exactly once, and in its place: the windows *)
(* below the frame buffer's hold the layers below the first it draws, those *)
(* above it the layers above the last, in their order, and no layer's       *)
(* window is the frame buffer's.                                            *)
InOrder ==
  Chosen =>
    /\ \A i \in Layers : i \in Shown <=> ~ (fb.needed /\ i >= fb.first /\ i <= fb.last)
    /\ \A v, w \in Windows :
          v < w /\ window[v] # NoLayer /\ window[w] # NoLayer => window[v] < window[w]
    /\ fb.needed =>
         /\ FbWindow \in Windows /\ window[FbWindow] = NoLayer
         /\ \A w \in Windows : window[w] # NoLayer =>
               (w < FbWindow <=> window[w] < fb.first)

(* The search comes to an end, whatever it has to give up on the way.       *)
Settles == phase = "search" ~> phase = "assigned"

(* A window that is used has a place on the screen.  (With layers that lie  *)
(* beside the screen it does not: exynos5_is_offscreen looks at sourceCrop, *)
(* and a negative width is a very large one.)                               *)
OnScreen ==
  phase = "posted" => \A w \in Windows :
     config[w] # Unused => config[w].w > 0 /\ config[w].x + config[w].w <= Xres
=============================================================================
