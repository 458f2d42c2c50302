----------------------------- MODULE MCComposer -----------------------------
(* The hardware composer: the windows of a frame on a screen of four pixels  *)
(* with three windows, the layer that goes through the G-Scaler, the second  *)
(* display.  A behaviour is of one instance of one of the modules, the       *)
(* others keep their initial state.                                          *)
EXTENDS HwcGscaler, Integers, Sequences

CONSTANTS
    Displays,         \* what may be plugged in
    Rectangles,       \* of the second display's layers
    NumHdmiBuffers,   \* their buffers
    MaxEvents,        \* of the cable, that wait
    Kinds             \* what fails there, and how calm it is

VARIABLES
    instance,
    layers, forceGpu, type, fb, search, at, left, window, gscIn, config,      \* HwcWindows
    kind, cable, events, uevent, hpd, blanked, size, enabled, told, mixer,   \* HwcHdmi
    frame, layer, driver, gsc, missed, fresh

windowVars == <<layers, forceGpu, type, fb, search, at, left, window, gscIn, config>>
hdmiVars == <<kind, cable, events, uevent, hpd, blanked, size, enabled, told, mixer,
              frame, layer, driver, gsc, missed, fresh>>
all == <<instance, windowVars, vars, hdmiVars>>

-----------------------------------------------------------------------------
(* Every list of up to four layers, then another frame with less on it: what *)
(* the first left behind would show.                                         *)

Plain(f) == [l |-> f[1], r |-> f[2], skip |-> FALSE, background |-> FALSE, drawable |-> TRUE,
             scaled |-> FALSE, fits |-> FALSE, off |-> FALSE]
Shapes ==
    {Plain(f) : f \in {<<0, 4>>, <<0, 2>>, <<1, 3>>, <<-1, 2>>, <<3, 6>>}}
    \cup {[Plain(<<0, 2>>) EXCEPT !.drawable = FALSE],
          [Plain(<<0, 2>>) EXCEPT !.scaled = TRUE, !.fits = TRUE],
          [Plain(<<2, 4>>) EXCEPT !.scaled = TRUE, !.fits = TRUE]}
Bottoms == Shapes \cup {[Plain(<<0, 4>>) EXCEPT !.skip = TRUE],
                        [Plain(<<0, 0>>) EXCEPT !.background = TRUE]}
MaxLayers == 4
FirstLists ==
    UNION {{<<b>> \o s : b \in Bottoms, s \in [1 .. n -> Shapes]} : n \in 0 .. MaxLayers - 1}
LaterLists == {<<Plain(<<1, 3>>)>>,
               <<Plain(<<0, 4>>), [Plain(<<0, 2>>) EXCEPT !.drawable = FALSE]>>}

Windows == INSTANCE HwcWindows
             WITH NumWindows <- 3, Xres <- 4, MaxPixels <- 8, Burst <- 1,
                  LayerLists <- FirstLists, NextLists <- LaterLists,
                  phase <- search

\* Everything that can fail on the way of a layer through the G-Scaler (this
\* module's own constants).
AllFaults == RunFaults \cup {"create", "ioctl", "target", "alloc"}

Hdmi == INSTANCE HwcHdmi
          WITH Sizes <- Displays, Configs <- Rectangles, NumBuffers <- NumHdmiBuffers

\* After a stream-on or a blending control that fails the records are those of
\* a stream that is not there: these two faults are left out.
ASSUME HdmiAssumption ==
    /\ NumHdmiBuffers \in Nat \ {0} /\ MaxEvents \in Nat
    /\ Displays \subseteq [w : Nat \ {0}, h : Nat \ {0}]
    /\ Hdmi!None \notin Rectangles
    /\ Kinds \subseteq Hdmi!KindsOf
    /\ \A k \in Kinds : "stream" \notin k.faults /\ "blend" \notin k.faults

\* A display that comes and goes at any moment, with faults that the layers
\* get over and with others; two displays and a framework that keeps up.
Display == [w |-> 1, h |-> 1]
TwoDisplays == {Display, [w |-> 2, h |-> 2]}
AnyDisplay ==
    {[displays |-> {Display}, calm |-> FALSE,
      faults |-> {"preset", "gsc", "fmt", "reqbufs", "queue"}],
     [displays |-> {Display}, calm |-> FALSE, faults |-> {"gsc", "fmt", "queue"}],
     [displays |-> TwoDisplays, calm |-> TRUE, faults |-> {"preset", "gsc", "fmt", "queue"}]}

MCInit ==
    /\ instance \in {"windows", "scaler", "hdmi"}
    /\ Windows!Init
    /\ instance # "windows" =>
           layers = <<Plain(<<0, 4>>)>> /\ ~ forceGpu
    /\ Init /\ Hdmi!Init
    /\ instance # "hdmi" =>
           cable = Hdmi!Unplugged /\ ~ hpd /\ kind = CHOOSE k \in Kinds : TRUE

MCNext ==
    /\ UNCHANGED instance
    /\ \/ instance = "windows" /\ Windows!Next /\ UNCHANGED <<vars, hdmiVars>>
       \/ instance = "scaler" /\ Next /\ UNCHANGED <<windowVars, hdmiVars>>
       \/ instance = "hdmi" /\ Hdmi!Next /\ UNCHANGED <<windowVars, vars>>

MCSpec ==
    /\ MCInit /\ [][MCNext]_all
    /\ WF_all(/\ instance = "windows" /\ UNCHANGED <<instance, vars, hdmiVars>>
              /\ Windows!TryLayer \/ Windows!GiveUp \/ Windows!Assign)

\* A fence left open after a failure is never closed again: this many are enough.
MaxOpen == 7
FewFences == Cardinality(open) <= MaxOpen

-----------------------------------------------------------------------------
\* No pixel is covered by more than two windows that are read from memory, the
\* windows stay within the bandwidth and the one G-Scaler, and every layer is
\* on the screen once and in its place.
WindowsFit ==
    /\ Windows!TwoDeep
    /\ Windows!WithinBudget
    /\ Windows!InOrder /\ Windows!OnScreen

\* The search for windows comes to an end.
Settles == Windows!Settles

\* The G-Scaler never writes into a buffer the display may still read, a fence
\* that is kept with a buffer is open, and only a frame in which something
\* fails leaves another one open.
FencesGuardBuffers ==
    /\ [](instance = "scaler" => FreshBuffer /\ KeptAreOpen)
    /\ [][instance = "scaler" => LeavesNone]_all

\* Protected content runs through a protected path only, and after a failure a
\* frame in which nothing fails comes through the G-Scaler.
ScalerIsSafe == instance = "scaler" => Protected /\ Recovers

\* Once the framework has been told of the display it knows, between two uevents,
\* whether there is one; the HAL counts its buffers as the driver does, a display that is off has no layer
\* that streams, the mixer works at its resolution, and a layer that failed
\* once shows the next frame.
DisplayAgrees == Hdmi!Agrees
=============================================================================
