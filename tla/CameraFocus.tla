----------------------------- MODULE CameraFocus -----------------------------
(* Autofocus, flash and precapture metering of                               *)
(* libcamera2/ExynosCameraHWInterface2.cpp.  The service triggers and        *)
(* cancels in triggerAction, which holds m_afModeTriggerLock; the main       *)
(* thread sets the mode of each request under the same lock; the sensor      *)
(* thread takes no lock: for every frame it sends what was decided to the    *)
(* ISP with a shot and hears what the lens and the flash did.  The rear      *)
(* camera is modelled (the other has no flash); MACRO behaves as AUTO.       *)
EXTENDS Integers

CONSTANTS
    AfModes,      \* the modes of requests: AUTO, VIDEO and PICTURE
    FlashModes,   \* the flash modes of requests: on (no flash), auto, always
    FrameKinds,   \* the kinds of frames: preview, still and reprocess
    Hasty,        \* the service does not wait for its last call to work
    Races,        \* m_afState is written some time after it was read
    LateCapture,  \* it queues a still although precapture has not ended
    FlashWait,    \* frames an always flash may take to come on (5)
    StableWait,   \* FLASH_STABLE_WAIT_TIMEOUT (10)
    RetryAfter    \* frames without a notification (5)

VARIABLES
    af,      \* the autofocus state of the camera
    flash,   \* m_ctlInfo.flash
    ae,      \* m_precaptureTriggerId (a Boolean) and aeStateNoti
    late,    \* "service", "sensor" -> the state it will write, or "none"
    pc,      \* the sensor thread: "shot", "isp", and "ae" after OnAfNotification
    bubble,  \* no request matches the frame
    lens,    \* the ISP: mode, told to scan, what it reported last
    wanted,  \* the mode of the service's requests
    asked,   \* an autofocus the service waits for
    picture  \* "none", "held": a still frame waits for the flash, "taken"

vars == <<af, flash, ae, late, pc, bubble, lens, wanted, asked, picture>>

\* The flash states, in the order of their numbers.
None == 0         On == 1           OnWaits == 2      OnDone == 3
AeAwbLock == 4    LockWait == 5     AutoWait == 6     AutoDone == 7
AutoOff == 8      Capture == 9      CaptureWait == 10 CaptureJpeg == 11
CaptureEnd == 12

Continuous == {"VIDEO", "PICTURE"}
Reports == {"INACTIVE", "SCAN", "ACQUIRED", "FAILED"}
Locked == {"FOCUSED_LOCKED", "NOT_FOCUSED_LOCKED"}

\* m_AfHwStateFailed and m_serviceAfState are not initialised.
Init ==
    /\ af \in [mode : {"NO_CHANGE"}, mode2 : {"NO_CHANGE"},
               state : {"INACTIVE"}, update : {FALSE}, trigger : {FALSE},
               lock : {FALSE}, timeOut : {0}, hwFailed : BOOLEAN,
               service : Locked \cup {"INACTIVE"}]
    /\ flash = [mode |-> "on", cnt |-> None, enable |-> FALSE,
                afDone |-> FALSE, decision |-> FALSE, timeOut |-> 0]
    /\ ae = [precapture |-> FALSE, noti |-> "INACTIVE"]
    /\ late = [service |-> "none", sensor |-> "none"]
    /\ pc = "shot" /\ bubble = FALSE
    /\ lens = [mode |-> "OFF", armed |-> FALSE, report |-> "INACTIVE"]
    /\ wanted \in AfModes
    /\ asked = FALSE /\ picture = "none"

-----------------------------------------------------------------------------
(* What is decided about the focus.  A decision is the state to go to, or    *)
(* "none", and the rest of the autofocus and flash state.                    *)

Decide(a, f, s) == [af |-> a, flash |-> f, next |-> s]

\* SetAfStateForService.
Tell(a, s) == [a EXCEPT !.service = s]

\* SetAfMode: a change while another is to be applied has to wait.
SetAfMode(a, m) ==
    IF a.mode = m THEN a
    ELSE IF a.update /\ a.mode # "OFF" THEN [a EXCEPT !.mode2 = m]
    ELSE [a EXCEPT !.update = TRUE, !.mode = m, !.state = "INACTIVE",
                   !.service = "INACTIVE"]

\* The flash is needed for focusing and not on yet.
AfFlash(f) ==
    IF f.mode # "on" /\ ~ f.enable
    THEN [f EXCEPT !.enable = TRUE, !.cnt = On, !.decision = FALSE,
                   !.afDone = TRUE]
    ELSE f

\* OnAfTriggerAutoMacro.
TriggerAutoMacro(a, f) ==
    IF a.state \in {"NEEDS_COMMAND", "STARTED", "NEEDS_DETERMINATION"}
    THEN Decide(a, f, "none")
    ELSE Decide([a EXCEPT !.trigger = TRUE], f, "NEEDS_COMMAND")

\* The focus a continuous mode has found is kept: the lens is to be locked.
LockAt(a, f, focused) ==
    Decide([Tell(a, IF focused THEN "FOCUSED_LOCKED"
                    ELSE "NOT_FOCUSED_LOCKED") EXCEPT !.lock = TRUE],
           f, IF focused THEN "LOCKED" ELSE "FAILED")

\* OnAfTriggerCAFPicture.
TriggerPicture(a, f) ==
    CASE a.state = "INACTIVE" ->
            Decide(Tell(a, "NOT_FOCUSED_LOCKED"), f, "FAILED")
      [] a.state \in {"STARTED", "SCANNING"} ->
            Decide([a EXCEPT !.hwFailed = FALSE],
                   IF a.state = "SCANNING" THEN AfFlash(f) ELSE f,
                   "NEEDS_DETERMINATION")
      [] a.state = "PASSIVE_FOCUSED" ->
            LockAt([a EXCEPT !.hwFailed = FALSE], f, ~ a.hwFailed)
      [] OTHER -> Decide(a, f, "none")

\* OnAfTriggerCAFVideo.
TriggerVideo(a, f) ==
    CASE a.state = "INACTIVE" ->
            Decide(Tell(a, "NOT_FOCUSED_LOCKED"), f, "FAILED")
      [] a.state \in {"STARTED", "SCANNING"} -> LockAt(a, f, FALSE)
      [] a.state = "PASSIVE_FOCUSED" -> LockAt(a, f, TRUE)
      [] OTHER -> Decide(a, f, "none")

\* OnAfTrigger; in the modes OFF and NO_CHANGE it does nothing.
Trigger(a, f) ==
    CASE a.mode = "AUTO" -> TriggerAutoMacro(a, AfFlash(f))
      [] a.mode = "VIDEO" -> TriggerVideo(a, f)
      [] a.mode = "PICTURE" -> TriggerPicture(a, f)
      [] OTHER -> Decide(a, f, "none")

\* OnAfCancelAutoMacro.
CancelAutoMacro(a, f) ==
    LET g == IF f.enable /\ f.afDone THEN [f EXCEPT !.cnt = AutoOff] ELSE f
    IN  CASE a.state = "INACTIVE" -> Decide(Tell(a, "INACTIVE"), g, "none")
          [] a.state \in {"NEEDS_COMMAND", "STARTED", "SCANNING", "LOCKED",
                          "FAILED"} ->
                Decide(Tell(SetAfMode(a, "OFF"), "INACTIVE"), g, "INACTIVE")
          [] OTHER -> Decide(a, g, "none")

\* OnAfCancelCAFPicture and OnAfCancelCAFVideo.
CancelContinuous(a, f) ==
    IF a.state = "INACTIVE" THEN Decide(a, f, "none")
    ELSE Decide(SetAfMode(Tell(SetAfMode(a, "OFF"), "INACTIVE"), a.mode),
                f, "INACTIVE")

\* OnAfCancel.
Cancel(a, f) ==
    CASE a.mode \in {"AUTO", "OFF"} -> CancelAutoMacro(a, f)
      [] a.mode \in Continuous -> CancelContinuous(a, f)
      [] OTHER -> Decide(a, f, "none")

\* The end of a scan the service asked for: with the flash on, metering comes
\* between the first result and the one that counts.
Determined(a, f, report, locks) ==
    LET focused == report = "ACQUIRED"
        ended == [Tell(a, IF focused THEN "FOCUSED_LOCKED"
                          ELSE "NOT_FOCUSED_LOCKED")
                     EXCEPT !.lock = @ \/ locks]
        state == IF focused THEN "LOCKED" ELSE "FAILED"
    IN  IF ~ (f.enable /\ f.afDone) THEN Decide(ended, f, state)
        ELSE CASE f.cnt = OnDone ->
                    Decide(a, [f EXCEPT !.cnt = AeAwbLock], "none")
               [] f.cnt = AutoDone ->
                    Decide(ended, [f EXCEPT !.cnt = AutoOff], state)
               [] OTHER -> Decide(a, f, "none")

\* OnAfNotificationAutoMacro.
NoteAutoMacro(a, f, report) ==
    CASE a.state = "STARTED" /\ report = "SCAN" ->
            Decide(Tell(a, "ACTIVE_SCAN"), f, "SCANNING")
      [] a.state = "SCANNING" /\ report \in {"ACQUIRED", "FAILED"} ->
            Determined(a, f, report, FALSE)
      [] OTHER -> Decide(a, f, "none")

\* The first call of SetAfMode changes m_afMode, or the second finds it
\* unchanged: the mode that was set is not set again.
Retry(a) ==
    IF a.timeOut = 0 THEN a
    ELSE IF a.timeOut > RetryAfter
         THEN LET off == SetAfMode(a, "OFF")
              IN  [SetAfMode(off, off.mode) EXCEPT !.timeOut = 0]
         ELSE [a EXCEPT !.timeOut = @ + 1]

\* OnAfNotificationCAFPicture in the states before focus is found.
NotePictureUnfocused(a, f, report) ==
    CASE a.state = "STARTED" /\ report = "SCAN" ->
            Decide([Tell(a, "PASSIVE_SCAN") EXCEPT !.timeOut = 0], f,
                   "SCANNING")
      [] a.state = "STARTED" /\ report = "ACQUIRED" ->
            Decide([Tell(a, "PASSIVE_FOCUSED") EXCEPT !.timeOut = 0], f,
                   "PASSIVE_FOCUSED")
      [] a.state = "SCANNING" /\ report = "SCAN" ->
            Decide([a EXCEPT !.hwFailed = FALSE], f, "none")
      [] a.state = "SCANNING" /\ report \in {"ACQUIRED", "FAILED"} ->
            Decide([Tell(a, "PASSIVE_FOCUSED")
                       EXCEPT !.hwFailed = (report = "FAILED")], f,
                   "PASSIVE_FOCUSED")
      [] OTHER -> Decide(a, f, "none")

\* In the states after it.
NotePictureFocused(a, f, report) ==
    CASE a.state = "PASSIVE_FOCUSED" /\ report = "SCAN" ->
            Decide([Tell(a, "PASSIVE_SCAN") EXCEPT !.hwFailed = FALSE], f,
                   "SCANNING")
      [] a.state = "PASSIVE_FOCUSED" /\ report \in {"ACQUIRED", "FAILED"} ->
            Decide([a EXCEPT !.hwFailed = (report = "FAILED")], f, "none")
      [] a.state = "NEEDS_DETERMINATION" /\ report \in {"ACQUIRED", "FAILED"}
            /\ ~ (f.enable /\ f.afDone /\ f.cnt < OnDone) ->
            Determined(a, f, report, TRUE)
      [] a.state = "FAILED" /\ report = "SCAN" -> Decide(a, f, "SCANNING")
      [] OTHER -> Decide(a, f, "none")

\* OnAfNotificationCAFPicture.
NotePicture(a, f, report) ==
    CASE a.state = "INACTIVE" -> Decide(Retry(a), f, "none")
      [] a.state \in {"STARTED", "SCANNING"} ->
            NotePictureUnfocused(a, f, report)
      [] OTHER -> NotePictureFocused(a, f, report)

\* OnAfNotificationCAFVideo.
NoteVideo(a, f, report) ==
    CASE a.state \in {"STARTED", "PASSIVE_FOCUSED"} /\ report = "SCAN" ->
            Decide(Tell(a, "PASSIVE_SCAN"), f, "SCANNING")
      [] a.state \in {"STARTED", "SCANNING"} /\ report = "ACQUIRED" ->
            Decide(Tell(a, "PASSIVE_FOCUSED"), f, "PASSIVE_FOCUSED")
      [] a.state \in {"STARTED", "PASSIVE_FOCUSED"} /\ report = "FAILED" ->
            Decide(Tell(a, "NOT_FOCUSED_LOCKED"), f, "FAILED")
      [] OTHER -> Decide(a, f, "none")

\* OnAfNotification.
Note(a, f, report) ==
    CASE a.mode = "AUTO" -> NoteAutoMacro(a, f, report)
      [] a.mode = "VIDEO" -> NoteVideo(a, f, report)
      [] a.mode = "PICTURE" -> NotePicture(a, f, report)
      [] OTHER -> Decide(a, f, "none")

Settle(a, s) == IF s = "none" THEN a ELSE [a EXCEPT !.state = s]

\* A thread carries its decision out, or writes the state some time later.
Enact(thread, d) ==
    /\ flash' = d.flash
    /\ \/ af' = Settle(d.af, d.next) /\ UNCHANGED late
       \/ /\ Races /\ d.next # "none"
          /\ af' = d.af /\ late' = [late EXCEPT ![thread] = d.next]

WritesLate(thread) ==
    /\ late[thread] # "none"
    /\ af' = [af EXCEPT !.state = late[thread]]
    /\ late' = [late EXCEPT ![thread] = "none"]
    /\ UNCHANGED <<flash, ae, pc, bubble, lens, wanted, asked, picture>>

-----------------------------------------------------------------------------
(* The service and the main thread.                                          *)

\* Nothing the service wants is still to be sent to the ISP.
InEffect ==
    /\ ~ af.update /\ ~ af.trigger /\ ~ af.lock /\ ~ ae.precapture
    /\ af.mode = wanted /\ af.mode2 = "NO_CHANGE"

ServiceMayCall == late["service"] = "none" /\ (Hasty \/ InEffect)

\* triggerAction(CAMERA2_TRIGGER_AUTOFOCUS).  A continuous mode that holds
\* a result already does not answer again.
OnAfTrigger ==
    /\ ServiceMayCall /\ (Hasty \/ ~ asked)
    /\ LET d == Trigger(af, flash)
           a == Settle(d.af, d.next)
       IN  /\ Enact("service", d)
           /\ asked' = (a.state \notin {"LOCKED", "FAILED"})
    /\ UNCHANGED <<ae, pc, bubble, lens, wanted, picture>>

\* triggerAction(CAMERA2_TRIGGER_CANCEL_AUTOFOCUS).
OnAfCancel ==
    /\ ServiceMayCall
    /\ Enact("service", Cancel(af, flash))
    /\ asked' = FALSE
    /\ UNCHANGED <<ae, pc, bubble, lens, wanted, picture>>

\* OnPrecaptureMeteringTriggerStart, while no still frame is under way.
OnPrecapture ==
    /\ ServiceMayCall /\ ~ ae.precapture /\ picture # "held"
    /\ ae' = [precapture |-> TRUE, noti |-> "PRECAPTURE"]
    /\ flash' = IF flash.mode = "on"
                THEN [flash EXCEPT !.enable = FALSE, !.cnt = None]
                ELSE IF flash.cnt \in {AutoDone, AutoOff} THEN flash
                ELSE [flash EXCEPT !.cnt = On, !.enable = TRUE,
                                   !.timeOut = 0]
    /\ UNCHANGED <<af, late, pc, bubble, lens, wanted, asked, picture>>

\* The service's next requests have another mode.
ChangeMode ==
    /\ ServiceMayCall
    /\ \E m \in AfModes \ {wanted} : wanted' = m
    /\ asked' = FALSE
    /\ UNCHANGED <<af, flash, ae, late, pc, bubble, lens, picture>>

\* The main thread registers a request and sets its mode.
Request ==
    /\ late["service"] = "none"
    /\ SetAfMode(af, wanted) # af
    /\ af' = SetAfMode(af, wanted)
    /\ UNCHANGED <<flash, ae, late, pc, bubble, lens, wanted, asked, picture>>

-----------------------------------------------------------------------------
(* The sensor thread, before it queues the shot to the ISP.                  *)

Applies(a) == a.update /\ ~ ae.precapture

\* The change of mode is sent; continuous modes start at once.
AppliedFlash(a, f) ==
    IF Applies(a) /\ a.mode \in Continuous /\ f.afDone
    THEN [f EXCEPT !.enable = FALSE, !.afDone = FALSE, !.decision = FALSE,
                   !.cnt = None]
    ELSE f

\* Variant with a defect: the change that waited is not taken up.
AppliedOnce(a) ==
    IF ~ Applies(a) THEN a
    ELSE LET started == IF a.mode \in Continuous
                        THEN [a EXCEPT !.state = "STARTED", !.timeOut = 1]
                        ELSE a
         IN  [started EXCEPT !.update = FALSE, !.mode2 = "NO_CHANGE"]

Applied(a) ==
    IF ~ Applies(a) THEN a
    ELSE LET started == IF a.mode \in Continuous
                        THEN [a EXCEPT !.state = "STARTED", !.timeOut = 1]
                        ELSE a
             sent == [started EXCEPT !.update = FALSE, !.mode2 = "NO_CHANGE"]
         IN  IF a.mode2 = "NO_CHANGE" THEN sent
             ELSE SetAfMode(sent, a.mode2)

\* An autofocus that uses the flash begins when it is on.
Triggers(a, f) == a.trigger /\ (f.enable /\ f.afDone => f.cnt = OnDone)

\* m_afTrigger.
AfTrigger(a, f) ==
    LET mode == f.enable /\ f.afDone /\ a.mode # "AUTO"
    IN  IF a.state = "NEEDS_COMMAND" /\ ~ mode
        THEN [a EXCEPT !.state = "STARTED", !.trigger = FALSE]
        ELSE [a EXCEPT !.trigger = FALSE]

\* Variant with a defect: the lock is forgotten when the mode is sent.
SentUnlocked(l, old, new, triggers, locks) ==
    LET mode == IF triggers THEN new.mode
                ELSE IF Applies(old) THEN old.mode ELSE l.mode
        scan == triggers \/ (Applies(old) /\ old.mode \in Continuous)
    IN  [l EXCEPT !.mode = mode, !.armed = mode # "OFF" /\ (@ \/ scan)]

\* What the shot tells the lens: locking overrides everything else.
Sent(l, old, new, triggers, locks) ==
    LET mode == CASE locks -> "OFF"
                  [] triggers -> new.mode
                  [] Applies(old) -> old.mode
                  [] OTHER -> l.mode
        scan == triggers \/ (Applies(old) /\ old.mode \in Continuous)
    IN  [l EXCEPT !.mode = mode,
                  !.armed = IF mode = "OFF" THEN FALSE ELSE @ \/ scan]

\* A still capture that wants the flash.
FlashStill(f) ==
    CASE ~ f.decision ->
            [f EXCEPT !.enable = FALSE, !.afDone = FALSE, !.cnt = None]
      [] f.decision /\ f.cnt \in {AutoDone, AutoOff} ->
            [f EXCEPT !.enable = TRUE, !.afDone = FALSE, !.cnt = Capture]
      [] f.decision /\ f.cnt < AutoDone ->
            [f EXCEPT !.enable = FALSE, !.afDone = FALSE, !.cnt = None]
      [] OTHER -> f

FlashFor(f, kind) ==
    CASE kind = "still" /\ f.mode # "on" -> FlashStill(f)
      [] kind = "still" /\ f.mode = "on" -> [f EXCEPT !.decision = FALSE]
      [] kind = "reprocess" -> [f EXCEPT !.decision = FALSE,
                                         !.enable = FALSE]
      [] OTHER -> f

\* m_preCaptureListenerSensor: the pre-flash is off.
ListenSensor(f, off) ==
    IF f.cnt = AutoWait /\ (f.decision => off)
    THEN [f EXCEPT !.cnt = AutoDone] ELSE f

TurnOn(f) ==
    [f EXCEPT !.cnt = OnWaits,
              !.timeOut = IF f.mode = "always" THEN FlashWait ELSE @]

\* m_preCaptureSetter.
SetFlash(f) ==
    CASE f.cnt = On ->
            IF ae.precapture /\ f.timeOut # 0
            THEN [f EXCEPT !.timeOut = @ - 1] ELSE TurnOn(f)
      [] f.cnt = OnDone /\ ~ f.afDone -> [f EXCEPT !.cnt = AeAwbLock]
      [] f.cnt = AeAwbLock -> [f EXCEPT !.cnt = LockWait]
      [] f.cnt = AutoOff -> [f EXCEPT !.enable = FALSE]
      [] f.cnt = Capture ->
            [f EXCEPT !.timeOut = StableWait, !.cnt = CaptureWait]
      [] f.cnt = CaptureJpeg -> [f EXCEPT !.cnt = CaptureEnd]
      [] f.cnt = CaptureEnd ->
            [f EXCEPT !.enable = FALSE, !.cnt = None, !.afDone = FALSE]
      [] OTHER -> f

\* The picture goes with the shot that finds the flash stable.
PictureAfter(before, after) ==
    CASE before # Capture /\ after = Capture -> "held"
      [] before = CaptureJpeg -> "taken"
      [] picture = "taken" /\ after < Capture -> "none"
      [] OTHER -> picture

\* A frame that a request matches: a fixed one while a still is held.
Shot(kind, mode, off) ==
    LET old == IF kind = "preview" THEN [flash EXCEPT !.mode = mode]
               ELSE flash
        applied == Applied(af)
        lit == AppliedFlash(af, old)
        triggers == Triggers(applied, lit)
        a == IF triggers THEN AfTrigger(applied, lit) ELSE applied
        capture == FlashFor(lit, kind)
        f == IF capture.enable THEN ListenSensor(capture, off) ELSE capture
    IN  /\ kind = "still" \/ flash.cnt < Capture
        /\ kind # "preview" => mode = flash.mode
        /\ af' = [a EXCEPT !.lock = FALSE]
        /\ lens' = Sent(lens, af, applied, triggers, af.lock)
        /\ flash' = IF f.enable THEN SetFlash(f) ELSE f
        /\ picture' = IF lit.cnt < Capture /\ capture.cnt = Capture
                      THEN "held" ELSE PictureAfter(lit.cnt, flash'.cnt)

SensorShot ==
    /\ pc = "shot" /\ late["sensor"] = "none"
    /\ \E kind \in FrameKinds, mode \in FlashModes, off \in BOOLEAN :
        /\ kind # "preview" => LateCapture \/ ~ ae.precapture
        /\ Shot(kind, mode, off)
    /\ pc' = "isp" /\ bubble' = FALSE
    /\ UNCHANGED <<ae, late, wanted, asked>>

\* No request matches: the ISP only keeps running.
SensorBubble ==
    /\ pc = "shot" /\ late["sensor"] = "none" /\ flash.cnt < Capture
    /\ pc' = "isp" /\ bubble' = TRUE
    /\ UNCHANGED <<af, flash, ae, late, lens, wanted, asked, picture>>

-----------------------------------------------------------------------------
(* The sensor thread, after the ISP has processed the shot.                  *)

\* Variant with a defect: the waits for the flash have no end of their own.
ListenIspPatient(f, answer, decision) ==
    CASE f.cnt = OnWaits /\ answer ->
            [f EXCEPT !.decision = decision, !.cnt = OnDone]
      [] f.cnt = LockWait /\ answer -> [f EXCEPT !.cnt = AutoWait]
      [] f.cnt = CaptureWait /\ (f.decision => answer) ->
            [f EXCEPT !.cnt = CaptureJpeg]
      [] OTHER -> f

\* m_preCaptureListenerISP: what the ISP says of the flash.
ListenIsp(f, answer, decision) ==
    CASE f.cnt = OnWaits /\ answer ->
            [f EXCEPT !.decision = decision, !.cnt = OnDone]
      [] f.cnt = OnWaits /\ ~ answer ->
            IF f.timeOut = 0
            THEN [f EXCEPT !.cnt = OnDone, !.decision = FALSE]
            ELSE [f EXCEPT !.timeOut = @ - 1]
      [] f.cnt = LockWait /\ answer -> [f EXCEPT !.cnt = AutoWait]
      [] f.cnt = CaptureWait ->
            IF f.decision /\ ~ answer /\ f.timeOut # 0
            THEN [f EXCEPT !.timeOut = @ - 1]
            ELSE [f EXCEPT !.cnt = CaptureJpeg]
      [] OTHER -> f

\* What the lens may report next (the ISP is outside this repository).
NextReports ==
    CASE lens.mode = "OFF" -> {lens.report}
      [] lens.mode # "OFF" /\ lens.armed -> {lens.report, "SCAN"}
      [] lens.mode # "OFF" /\ ~ lens.armed /\ lens.report = "SCAN" ->
            {"SCAN", "ACQUIRED", "FAILED"}
      [] OTHER -> {lens.report} \cup
                  (IF lens.mode \in Continuous THEN {"SCAN"} ELSE {})

IspDone(report, answer, decision) ==
    LET heard == IF flash.enable /\ ~ bubble
                 THEN ListenIsp(flash, answer, decision) ELSE flash
        d == Note(af, heard, report)
    IN  /\ lens' = [lens EXCEPT !.report = report,
                                !.armed = @ /\ report # "SCAN"]
        /\ Enact("sensor", d)
        /\ asked' = (asked /\ d.next \notin {"LOCKED", "FAILED"})

SensorIsp ==
    /\ pc = "isp"
    /\ \E report \in NextReports, answer, decision \in BOOLEAN :
           IspDone(report, answer, decision)
    /\ pc' = IF bubble THEN "shot" ELSE "ae"
    /\ UNCHANGED <<ae, bubble, wanted, picture>>

\* Precapture metering has come to its end.
MeteringDone ==
    IF flash.enable
    THEN \/ flash.cnt \in {AutoDone, AutoOff} /\ ae.noti = "PRECAPTURE"
         \/ flash.cnt \in Capture .. CaptureEnd
    ELSE ae.noti = "PRECAPTURE"

\* OnPrecaptureMeteringNotificationISP.
MeteringNotification ==
    /\ pc = "ae" /\ late["sensor"] = "none"
    /\ ae' = IF ae.precapture /\ MeteringDone
             THEN [ae EXCEPT !.precapture = FALSE] ELSE ae
    /\ flash' = IF /\ ae.precapture /\ flash.enable
                   /\ flash.cnt \in Capture .. CaptureEnd
                THEN [flash EXCEPT !.cnt = AutoDone] ELSE flash
    /\ pc' = "shot"
    /\ UNCHANGED <<af, late, bubble, lens, wanted, asked, picture>>

-----------------------------------------------------------------------------

Next ==
    \/ OnAfTrigger \/ OnAfCancel \/ OnPrecapture \/ ChangeMode \/ Request
    \/ SensorShot \/ SensorBubble \/ SensorIsp \/ MeteringNotification
    \/ WritesLate("service") \/ WritesLate("sensor")

Spec == Init /\ [][Next]_vars

\* The parts of a frame whose outcome fairness is about.
LensScans == SensorIsp /\ lens'.report = "SCAN"
LensEnds == SensorIsp /\ lens'.report \in {"ACQUIRED", "FAILED"}
FlashAnswers == SensorIsp /\ flash'.cnt = AutoWait /\ flash.cnt = LockWait
FlashGoesOff == SensorShot /\ flash'.cnt = AutoDone

\* Requests and frames keep coming; the lens begins and ends the scan it was
\* told to do, and the white balance locks, when they can again and again.
FairSpec ==
    /\ Spec
    /\ WF_vars(Request) /\ WF_vars(SensorIsp) /\ WF_vars(MeteringNotification)
    /\ SF_vars(SensorShot)
    /\ WF_vars(WritesLate("service")) /\ WF_vars(WritesLate("sensor"))
    /\ SF_vars(LensScans) /\ SF_vars(LensEnds)
    /\ SF_vars(FlashAnswers) /\ SF_vars(FlashGoesOff)

-----------------------------------------------------------------------------
(* Properties.                                                               *)

TypeOK ==
    /\ af \in [mode : AfModes \cup {"NO_CHANGE", "OFF"},
               mode2 : AfModes \cup {"NO_CHANGE", "OFF"},
               state : {"INACTIVE", "NEEDS_COMMAND", "STARTED", "SCANNING",
                        "LOCKED", "FAILED", "NEEDS_DETERMINATION",
                        "PASSIVE_FOCUSED"},
               update : BOOLEAN, trigger : BOOLEAN, lock : BOOLEAN,
               timeOut : 0 .. RetryAfter + 1, hwFailed : BOOLEAN,
               service : Locked \cup {"INACTIVE", "ACTIVE_SCAN",
                                      "PASSIVE_SCAN", "PASSIVE_FOCUSED"}]
    /\ flash.cnt \in None .. CaptureEnd /\ flash.timeOut \in Nat
    /\ lens.report \in Reports /\ pc \in {"shot", "isp", "ae"}

Quiet == late = [service |-> "none", sensor |-> "none"]

\* What the service was told last agrees with where the camera is
\* (SetAfStateForService and the assignments of m_afState).
ServiceAgrees ==
    Quiet /\ af.mode # "NO_CHANGE" =>
    CASE af.state = "LOCKED" -> af.service = "FOCUSED_LOCKED"
      [] af.state = "FAILED" -> af.service = "NOT_FOCUSED_LOCKED"
      [] af.state \in {"INACTIVE", "PASSIVE_FOCUSED"} ->
            af.service = af.state
      [] af.state = "SCANNING" /\ af.mode = "AUTO" ->
            af.service = "ACTIVE_SCAN"
      [] OTHER -> af.service = "FOCUSED_LOCKED" => af.mode = "AUTO"

\* An autofocus that waits for the sensor thread is one it will begin
\* (m_IsAfTriggerRequired).
CommandHasTrigger ==
    af.state = "NEEDS_COMMAND" /\ Quiet => af.trigger

\* A continuous mode that was started is the mode of the lens.
ModeReachesLens ==
    /\ af.mode \in Continuous /\ ~ af.update
    /\ \/ af.state \in {"STARTED", "PASSIVE_FOCUSED"}
       \/ af.state = "SCANNING" /\ af.service = "PASSIVE_SCAN"
    => lens.mode = af.mode

\* The lens is held where a continuous mode was locked.
LockReachesLens ==
    af.state = "LOCKED" /\ af.mode \in Continuous /\ ~ af.lock
    => lens.mode = "OFF"

\* Focus is told to be found only when the lens found it: its last report
\* says so.
FoundWhenTold ==
    af'.service = "FOCUSED_LOCKED" /\ af.service # "FOCUSED_LOCKED"
        => lens'.report = "ACQUIRED"

\* A lock that was told to the service ends only by a call of the service
\* or a change of mode, whatever the lens reports.
LockStays ==
    af.service = "FOCUSED_LOCKED" /\ af.state = "LOCKED" /\ pc # pc'
    /\ af.mode2 = "NO_CHANGE"
        => af'.service = "FOCUSED_LOCKED"

\* A mode that waited is set when the one before it has been sent.
PendingModeSet ==
    [][ af.mode2 # "NO_CHANGE" /\ af'.mode2 = "NO_CHANGE"
        => af'.mode = af.mode2 ]_vars

\* An autofocus the service asked for is answered with a locked state.
AutoFocusAnswered == asked ~> ~ asked

\* Precapture metering is told to have converged.
PrecaptureEnds == ae.precapture ~> ~ ae.precapture

\* A still that is held for the flash is taken.
PictureTaken == (picture = "held") ~> (picture = "taken")

\* "wrong trigger state" (line 3037): autofocus is triggered in the state
\* NEEDS_COMMAND, or again in the middle of a scan.
TriggerFindsCommand ==
    [][ af.trigger /\ ~ af'.trigger /\ ~ (flash.enable /\ flash.afDone)
        => af.state \in {"NEEDS_COMMAND", "SCANNING"} ]_vars

\* "try to re-trigger mode" (line 5161): the mode is set once more.
RetriesSameMode ==
    [][ af.timeOut > RetryAfter /\ af'.timeOut = 0 /\ af.state = "INACTIVE"
        /\ pc = "isp"
        => af'.update /\ af'.mode = af.mode /\ af'.mode2 \in
                                            {"NO_CHANGE", af.mode} ]_vars
=============================================================================
