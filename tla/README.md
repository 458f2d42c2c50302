# A specification of the Exynos 5 hardware library

This directory holds TLA+ modules that model the parts of the Exynos 5 hardware
library that have control of their own: the OpenMAX components, the camera HAL
(API 2), the hardware composer, the MobiCore daemon and client. TLC checks them on small
instances; the TLA+ proof system checks proofs about some of them for every value of
their constants. `PROJECT.json` ties every definition to the source lines it stands
for (`map`), every property to the hazards it is there for (`hazards`), every
checked property to a plausible bug it catches (`mutants`), and lists the proved
`theorems`.

Paths below are relative to `src/`. Short names:

| short | file |
|-------|------|
| BASE, PORT, RM | `exynos_omx/openmax/exynos_omx/component/common/Exynos_OMX_{Basecomponent,Baseport,Resourcemanager}.c` |
| VDEC, VCTL, H264, VP8 | `.../component/video/dec/Exynos_OMX_{Vdec,VdecControl}.c`, `h264/Exynos_OMX_H264dec.c`, `vp8/Exynos_OMX_Vp8dec.c` |
| VENC, VECTL, H264E | `.../component/video/enc/Exynos_OMX_{Venc,VencControl}.c`, `h264/Exynos_OMX_H264enc.c` |
| ADEC, MP3 | `.../component/audio/dec/Exynos_OMX_Adec.c`, `mp3/Exynos_OMX_Mp3dec.c` |
| Q | `exynos_omx/openmax/exynos_omx/osal/Exynos_OSAL_Queue.c` |
| MFCD, MFCE | `exynos_omx/codecs/exynos_codecs/video/exynos5/mfc_v4l2/{dec,enc}/src/ExynosVideo{Decoder,Encoder}.c` |
| CAM | `libcamera2/ExynosCameraHWInterface2.cpp` |
| HWC, GSC | `libhwc/hwc.cpp`, `libgscaler/exynos_gscaler.c` |
| MCD, TZ, DEV, CLI | `mobicore/daemon/Daemon/MobiCoreDriverDaemon.cpp`, `Device/Platforms/Generic/TrustZoneDevice.cpp`, `Device/MobiCoreDevice.cpp`, `ClientLib/ClientLib.cpp` |

To repeat a check: `tlc -config <run>.cfg <module>`; the runs and their modules are in
`PROJECT.json`. To repeat the proofs: `tlapm <module>_proofs.tla`.

## 1. Inventory

The repository is the hardware library of a board: mostly independent libraries that
Android loads into one process or another. They meet through the kernel's drivers,
which are outside, and through Android's services.

| component | state it keeps | operations | with whom it interacts | what is hard | correct when |
|---|---|---|---|---|---|
| OSAL queue (Q) | ring, `first`, `last`, `numElem`, a mutex | Create, Queue, Dequeue, GetElemNum, ResetQueue, SetElemNum | messages of a component, buffers of a port, codec buffers | three records of how full it is | a bounded FIFO |
| base component (BASE) | `currentState`, `transientState`, message queue, handler thread, abend event | SendCommand, handler (state set, flush, port enable and disable), FreeHandle | client's thread, ports, resource manager, codec | flags change in the client's thread before the message is queued (BASE:884); the handler waits inside a command for the client | commands are concluded once and in order, states follow the OpenMAX graph, resource, codec, threads and ports agree at rest |
| ports (PORT, VCTL) | port state, `bEnabled`, `bPopulated`, headers, `bufferQ`, two semaphores | Use/Allocate/FreeBuffer, EmptyThisBuffer, FillThisBuffer, flush | client, handler, buffer threads | the tests at the start of a buffer call are made without the lock the queueing takes | a buffer is in one place, comes back once, is not used after that |
| resource manager (RM) | owners, waiters, one mutex | Get, Release, In/Out_WaitForResource | all components of a process | preempts a component that is still running | the list stays in the hardware's limit, agrees with open codecs, and the lowest priority gives way |
| video decoder (VDEC) | four buffer threads, their mutexes, pause event, data in hand | SrcInput, SrcOutput, DstInput, DstOutput, start, end | ports, codec | threads block with a mutex held; the flush stops them by way of events, semaphores and the driver | nothing is lost or doubled by a flush; flush and end come to an end |
| video encoder (VENC) | as the decoder, and its own input buffers | as the decoder | ports, codec | the set-up of the output waits for a client buffer inside the input's turn | as the decoder; every picture comes out or is flushed |
| audio decoder (ADEC) | one buffer thread, seek flags, retained frame | BufferProcess, flush | ports, SRP | the event of a flush before the flags of the new start | nothing from before a seek comes out, EOS does |
| codec components | handle, *configured* flags, start events | header and data in, data out, start, stop | buffer threads, MFC library | who wakes the start event | (with the buffer threads) |
| MFC libraries (MFCD, MFCE) | planes, queued flags, private pointers | set-up, enqueue, dequeue, run, stop, clear | V4L2 driver | slots unmarked while another thread looks for one | the library's records agree with the driver's |
| SRP library | stream of the audio DSP | decode, send EOS, flush, get PCM | audio decoder | what an early seek leaves behind | (with the audio decoder) |
| camera, API 2 (CAM) | request ring, signal words, streams, sub-streams, autofocus and flash machines | the service's calls, main, sensor and two stream threads | camera service, its windows, video nodes, ISP | signals while one is processed; a request finished by three threads in any order; polls without limit | requests come back once, in order, after their outputs; signals are true; focus, flash and streams agree |
| composer (HWC) | windows, layers, destination buffers, fences, HDMI state | prepare, set, vsync and uevent thread | SurfaceFlinger, display driver, G-Scaler, mixer | choices that undo each other; who closes a fence; hot plug inside a frame | what is shown fits the hardware; each fence closed once; no buffer overwritten while shown |
| G-Scaler library (GSC) | nodes, queues | config, run, stop, free | composer, drivers | error paths between protect and stream on | (with the composer) |
| MobiCore daemon (MCD, DEV, TZ) | connections, sessions, locked buffers, MCP flags, notification queue | commands of a client, interrupt thread, scheduler | client library, secure world, kernel module | late answers, a secure world that halts, restarts, commands from two threads | the answer read is one's own; sessions are those of live clients; notifications arrive |
| MobiCore client (CLI) | device, sessions, bulk buffers, devMutex | open, close, map, unmap, notify, wait | daemon | the daemon dies in between | records are those of the daemon |
| the rest | | | | | sequential wrappers, pixel arithmetic or tables; see section 8 |

## 2. How the project is organised

A component has a module that is its state machine: one action for each stretch of a
thread's code between two points where another thread can matter. A module
whose name begins with MC makes the instances that TLC checks; one whose
name ends in `_proofs` has theorems. Where a component promises something to its
users there is an abstract module of the promise: `BoundedFifo` of the queue,
`OmxCommands` of the command interface, `SignalMemory` of a signal-driven thread,
`RequestPipeline` of the camera. The detailed module is shown to implement it.

Some MC modules hold several instances, of one module with different constants or of
several modules of one subsystem. A variable `instance`, chosen in the
initial state and never changed, says which of them a behaviour is of; the others keep an initial state.
A property of such a run is a conjunction `instance = "x" => ...`. Nothing relates the
instances: it is a way to have one run per subsystem.

Compositions proper: `OmxComponent` has a component's ports, handler, resource and
client together; `ResourceManager` several components with their handlers;
`VdecInput`, `VdecOutput` and `VdecShare` extend `VdecPort`, client and handler, with
the threads of a port; `VencPorts` has both ports of the encoder; `CameraRequests`
has four threads that communicate through `Signals`, which `SignalDrivenThread`
models on its own; `HwcGscaler` drives `Gscaler`.

## 3. The modules

**OsalQueue, BoundedFifo.** `data` is the array of node pointers, `first`, `last`,
`numElem` as in Q; every operation holds the queue's mutex and is one action. The
ring has one node fewer than QueueCreate's argument (Q:61). `SetElemNum` is
left out: its caller, the audio decoder, calls it on an empty ring (see AdecProcess).

**OmxComponent, OmxCommands.** One component: the client's `SendStateSet`, `SendFlush`,
`SendPortDisable`, `SendPortEnable` (the part of SendCommand that sets flags), then
`CommandQueue`; `UseBuffer`, `AllocateBuffer`, `FreeBuffer`; `FreeHandle` and the
steps after it; and the handler, one action per stretch between two waits (`hpc` says where
it is). `Failures` chooses the calls on the way to Idle that may fail. `OmxCommands`
allows two things a stricter promise would not, because the code does them: a
transition to Idle given up for FreeHandle is reported complete (BASE:346-349), and errors
may be reported that conclude nothing. Left out: tunnelled ports, MarkBuffer,
unknown commands, SetParameter. A flush is one step here.

**ResourceManager.** Both lists of one codec type. A component's handler opens the
codec some steps after it got the resource and closes it some steps after it gave it
back, as BASE does; Get_Resource sends the preempted component a command (RM:175),
Release_Resource a waiting one (RM:395). Priorities change at any time, the list keeps that
of the insertion.

**VdecPort, VdecInput, VdecOutput, VdecShare.** `VdecPort`: the client's buffer call in
three steps (tests, queue, post; PORT:379-426), commands, and the handler's part of flush and
end. `VdecInput`: SrcInput and SrcOutput with an input port that shares its buffers
with the MFC. `VdecOutput`: DstInput and DstOutput with an output port that copies
from codec buffers. `VdecShare`: the output port that shares, as Android uses
it: the component asks for new settings after the header, the client disables the port, frees,
allocates and enables, and SrcInput registers the buffers. A picture after a seek, or one that a change of
resolution leaves with the length zero (VP8:1623, VDEC:525), is not returned: the data buffer keeps it until the next picture
overwrites it; `kept` remembers these. Threads stop at
every point between two accesses of shared state; a mutex is held
from the step that takes it to the one that gives it back. Parsing a header is one step; the
MFC takes and gives when it likes.

**MfcBuffers.** The slots of one queue of the MFC library beside the driver's own
records, for both libraries: set-up, enqueue,
dequeue and its extension, run, stop, clear, and the flush that takes the two turns' mutexes. `kind`, chosen at first and kept,
says which of the four queues it is and what fails. MCVdecOutput instantiates it beside the output port.

**VencPorts.** Both ports of the encoder: four threads, the encoder's own input
buffers between `codecBufferQ`, `processData`, the MFC and SrcOutput, the client's output
buffers shared with the MFC, flush, Idle, Executing and the end. A turn is one
step up to where it may block. A behaviour is of a client whose stream is one picture, perhaps with EOS, or of
one that sends EOS only after a picture (`single`, chosen at first and kept). `EarlyFlush`, `Separate` and `Patient` say
what commands the client gives (section 7). The module has no MC module: the run needs only values of its constants.

**AdecProcess.** BufferProcess of ADEC with the MP3 decoder's calls of the SRP
library between the two ports, the flush, pause and end. In MCComponentAndAudio the client passes no buffer while a
command is under way (`~Overlaps`); its buffers, state changes and sets of flushed ports are constants of that module.

**Signals, SignalDrivenThread, SignalMemory.** The two signal words, the thread's loop with its
condition and termination, and what it promises: each signal is remembered up to twice.

**CameraRequests, RequestPipeline.** The ring of RequestManager with its indices
(entries are EMPTY, REGISTERED, REQUESTED, CAPTURED, METADONE, COMPLETED), the main thread,
the sensor thread and two stream threads. Calls that hold `m_requestMutex` are one
step. `Kinds` are previews, pictures with preview (`still`), JPEGs and night
pictures, which take five shots. Assumptions of the instances: `KeepsUp` (a stream thread
is at most one frame behind the ISP), `StillAlone` (a picture is queued when
nothing is under way), `QueuesInDequeue` (see section 7). Bayer buffers are not told apart. Left
out: release of the device, reprocessing, VDIS bubbles, `m_scp_closing`.

**CameraFocus.** Triggers and cancels under their lock, the mode with each request, the
sensor thread without a lock, the lens, the flash's machine and precapture. The
initial values of `m_AfHwStateFailed` and `m_serviceAfState`, which the code does not
initialise, are arbitrary. Left out: MANUAL, infinity, torch; MACRO behaves as AUTO.

**CameraBuffers.** A stream's node and sub-streams, with the window's calls that may
fail. **CameraStreams.** Allocation, registration and release of streams and their threads,
with the calls that poll. MCCameraStreams is its instance with the video nodes named `videoNode`, which the proofs extend
beside CameraRequests.

**HwcWindows.** Layers as intervals of one dimension, windows, bandwidth, at most two windows at
a pixel; the search of `exynos5_prepare_fimd` with its restarts. **HwcGscaler, Gscaler.** The ring
of destination buffers and the fences between layers, scaler and display, with every call that may
fail, the stop before a change of format among them; a run that fails leaves the release fences of what it had queued.
**HwcHdmi.** The uevent thread, the mixer and its two layers' queues. A behaviour begins
when exynos5_open has read the switch and perhaps the resolution, with any cable, and nobody told; until `RegisterProcs` the
uevent thread's findings are told to nobody. `told` is what hotplug said last, `mixer` the formats of the mixer's pads (the crop that
hdmi_output sets at a pad with a layer's rectangle is left out). `kind` chooses, once, which
displays are plugged in, which calls fail, and `calm`: what was plugged in at the open still is when the uevent thread
begins to listen, and a frame follows each uevent and none runs during one.

**McExchange.** One MCP command: server threads, the scheduler, the interrupt
thread, a secure world that runs in slices and may be slow or halt. **McSessions.**
Connections, sessions, locked buffers, notifications and restarts of the daemon.
**McClient.** The client library beside a daemon that may die.

## 4. The runs

| run | instances and bounds | what it shows |
|---|---|---|
| QueueAndPromise | *queue*: 4 nodes (MaxNumElem 5), 3 pointers. *component*: 1 port with 1 buffer, every state as a target, port disable and enable, every failure, 2 commands in flight, a queue of 1, a semaphore of 1 | the ring's pointers, count and slots agree (`Contiguous`) and it is a FIFO (`IsFifo`); the component implements `OmxCommands` (`KeepsPromise`) |
| ComponentAndAudio | *component*: 2 ports of 1 and 2 buffers, Loaded, Idle, Executing, flush, disable, enable, one command at a time, no failures. *audio*: 1 buffer per port (`Buffers`), flush of both, a frame of processData, hardware errors | at rest ports, semaphores, resource, codec and threads agree (`RestIsConsistent`, `HeldMatchesState`); `CallsConclude`; the audio decoder loses no buffer and mixes nothing from before a seek with what is after it (`AudioBuffersKept`), and delivers (`AudioDelivers`) |
| ResourceManager | 3 components, 2 hardware instances, 3 priorities, codecs that may not open; and one priority with waiters and no failures; symmetry | `AccountedFor`, `WaitersAccountedFor`, `PreemptsLowest` |
| VdecInput | *disturbed*: 1 buffer, all targets, overlapping calls, refused header and data. *plain*: 2 buffers, a client that keeps to the protocol | `InputBuffersKept`, `PlainBuffersKept`, `InputMovesOn` (flushes and the end come to an end, buffers come back) |
| VdecOutput | 2 buffers, 2 codec buffers, one early wake-up of the start event; *library*: 2 slots for the codec buffers, each of the four queues (`Survived`) with refused calls, and set-ups refused or failing later | `OutputBuffersKept`, `OutputCommandsEnd`, `LibraryAgrees` |
| VdecShare | 2 buffers, one seek between two flushes of the output, a change of resolution at any picture | `SharedBuffersKept`, `SharedPortMovesOn` |
| CameraRequests | *ordinary*: 3 requests, 2 entries, 2 frames in the sensor, 2 stream buffers, previews and pictures, dropped frames. *night*: 2 requests of five shots. *lag*: 7 requests, 4 entries, 4 stream buffers. *focus*: waits of 1 frame. *buffers*: 3 buffers of hardware, 4 of the node, 3 sub-streams | `RequestsAgree` (*ordinary*), `LateRequestsAgree` (*night*, *lag*), `CameraAgrees`, `FocusIsHonest` (*focus*, *buffers*), `OrdinaryKeepsPromise` |
| CameraStreams | all streams, the sub-streams RECORD and JPEG, a service that waits for threads to be settled and first frames | `StreamsAgree`, `CallsReturn` |
| CameraProgress | *thread*: four signals; *service*: autofocus, precapture, requests and stream turns under fairness | `ThreadsHearSignals`, `KeepsMemory`, `ServiceIsAnswered` |
| MobiCore | *exchange*: 2 callers, 2 tries, 1 slice, each fault. *sessions*: 2 clients, ids 2-3, 3 handles, one session per client. *client*: 2 threads, 2 ids, 1 buffer, a daemon that dies and refuses | `OwnAnswer`, `SessionsAgree`, `ClientAgrees`, `CallsEnd` |
| Composer | 4 layers, 3 windows, a screen of 4 pixels; one ring of 3 destination buffers, 3 shapes of layers, everything that can fail, one fault in a frame; the second display with 3 buffers and one event that waits, plugged in or not at the open: one display and faults, also of REQBUFS, or two displays and a framework that keeps up | `WindowsFit`, `FencesGuardBuffers`, `ScalerIsSafe`, `DisplayAgrees`, `Settles` |
| Encoder | 2 output buffers, 2 codec buffers, 2 pictures, 2 input buffers of the client; streams of one picture and of more (`single`); commands that come after the first picture, flush both ports and are waited for | `EncoderBuffersKept`, `EncoderMovesOn` |

### Bounds, and why they are enough

A bound is a constant or a named definition of the MC module, and a guard or constraint uses
it. The interesting cases need few of anything: a ring of two or four entries wraps, two
buffers can change places, two threads interleave, three components compete for two
instances so that one is preempted while another waits. A hazard that a longer sequence or a
larger number would show that these do not is one whose counting is proved instead:
the ring of the queue, the ring of the camera, `searchLowPriority`, the buffers of
the input port and of the audio decoder, the slots of the MFC library, the ring of the G-Scaler's destination buffers and
the ring of the second display's layers are proved for every size. The constraints `FewFences` (Composer) and `Cut`
(MobiCore: counts of the notification queue and of started slices) cut off counters that only grow;
the liveness formulas of those runs are about states that the cut leaves reachable again. `VdecShare` has two buffers,
of which at most one is lost while the data buffer keeps the other; with a third, pictures that were kept and overwritten
can be told from the one that DstInput drops. `SharedBuffersKept` alone holds with three as well (3.6 million states, too many for
its liveness).

Where the code guarantees something only for a client that behaves, a constant says so
(`Overlaps`, `Settled`, `Calm`, `Prompt`, `KeepsUp`); what happens otherwise
is in section 7.

### Deadlock

The runs say `CHECK_DEADLOCK FALSE` where the system may stop: a client that sends nothing more,
a component that was freed, a camera whose service is quiet, a bounded number of requests or fences. That the
calls which have begun do end is in each case a liveness property instead.

### Fairness

Weak fairness of each thread: the threads are pthreads in endless loops and the kernel
schedules them. The client is fair in finishing calls it has begun and in giving the
buffers that a command waits for, as the OpenMAX specification asks of it; nothing makes it send
commands. Drivers complete what they were given (the MFC, the sensor, display and
scaler). In MobiCore the mutex `devMutex` is taken again and again by other threads, so
`Notify`, `CloseDevice` and `CloseSession` have strong fairness, as a pthread mutex gives in practice;
the secure world's answer needs none, for each wait has its time limit. Liveness is not
claimed where a thread polls for something only the client can bring.

## 5. What is proved

The proofs are for every value of the constants that the module's `ASSUME`s allow. Where a
theorem needs more it says so in its hypotheses, and the hypothesis is one
of the conditions of section 4 or 7 under which the code does what is claimed.

**OmxComponent_proofs, the queue.** `RingConsistent` and `RingImplementsFifo`. Invariant `RingInv`: `Contiguous` and the types.
The lemmas say what the three operations do to the contents of the ring read from `first` (append, take the head,
empty), with the wrap-around in arithmetic; each step of the ring is then one of
`BoundedFifo` under the mapping `queue <- Contents`.

**OmxComponent_proofs, the component.** `TypeCorrect`, `ImplementsPromise`, `HoldsNothingInLoaded`,
`InitialisedWhenActive`, `HeldWhenActiveOnly`. Invariant `IInv`: the types and `HandlerInv`,
which relates the handler's place to the command it handles. `LoadedInv` and
`ActiveInv` add to it what each of the handler's places has of resource, codec and
threads: at rest in Loaded nothing is held only because the places on the way back
release each in turn. Hypotheses: nothing fails on the way to Idle for the first and the third, no
WaitForResources for the last two. With failures in componentInit the resource stays held
(BASE:355), see section 7.
`RestsConsistent`: `RestInv` follows the one command from the call that sends it to the
acknowledgement (`Current`, wherever it is). The ports it has still to visit (`ToVisit`) are `Filling` or `Emptying`: the
semaphore has its post exactly if the last buffer has come or gone. All others are `Settled`, as
full as the component's state and `bEnabled` want, without a post. `Announced` is what ties the client's thread to the
handler: the `transientState` that SendCommand wrote is the transition the handler is in. And `Destroyed`: FreeHandle's
forced Idle never gets there, as nobody brings buffers any more. Hypotheses: one command
outstanding, nothing fails on the way to Idle, no Pause and no WaitForResources (each
leaves a post or a `transientState` behind, section 7).

**OmxComponent_proofs, the audio decoder.** `AudioKeepsBuffers`, for any buffers of the two ports, any state changes and any
sets of ports that the client flushes (`AudioAssumption`), and for every choice of `Prompt`, `EarlySeeks` and `HardwareFails`. The invariant
`AudioInv` beside the types:

* `PortKept`: the client's buffers, the queue, which repeats none, and the thread's are disjoint and together all of the port's;
  a buffer whose return waits in Pause is the client's already, though the data buffer names it still (`Returning`);
* `AudioMutexes`: such a wait has the port's mutex, and so has a flush from the counting to the end; that they exclude each
  other is why the flush does not give the client the same buffer a second time;
* `AudioCommands`: what the handler has flushed on the way to Idle is `Emptied`, all with the client, and remains so, as no call
  of the client is under way and the handler finds the queue empty before it forgets its count.

Hypothesis: no buffer is passed while a command is under way (`~Overlaps`, section 7). The thread may take a count of the semaphore
that the flush counted on (`Prompt`): buffers are then late, but not lost.

**ResourceManager_proofs.** `LowestGivesWay`: `searchLowPriority` makes one pass over the list;
that its result is the lowest is proved of the pass by the least
counterexample (well-foundedness of Nat), as the provers cannot instantiate the induction theorems.
`ListIsSound`: the list is not longer than the hardware's instances, and `AccountInv`: a component is listed
once, and is so from the opening of its codec to the beginning of its closing, if all priorities are equal and every codec opens.

**VdecInput_proofs.** `InputPortKeepsBuffers`. The general part (`Types`, `Flags`, `Mutexes`, `CallChecked`, `FlushEmpties`,
`SemaphoreBounded`, `Kept`) holds whatever the client does: a buffer is in one of the places call, queue, thread, MFC, returned; sequences
have no repetition; who is in the body of a loop has its mutex. `PlainKept` is for
a flow that nothing disturbs: the semaphore counts the queued buffers, those the thread is about to take and those
the flush takes included (`Announced`), and no buffer is lost.

**VdecOutput_proofs.** `ClientBuffersInOnePlace`, for every client and every time of the setup: `Kept` says who has which
mutex and what a flush has emptied, that the queue has no repetition, and how far the semaphore may be ahead of it (`Extra`: one
post of a flush or of the end of the threads, and one of a client's call that a flush overtook). A buffer is returned by the thread with its mutex held, so the
flush, which takes both mutexes, never returns it a second time. `CodecBuffersInOnePlace`, hypothesis `~SetupInFlush`
(section 7): `CodecKept` says that before the start the MFC has all codec buffers, that later each is with the MFC, in the
queue or with one thread, and that the queue is announced. `OutputPortKeepsBuffers`, the
formula the run checks, adds `FewLost`: on the way to Idle DstInput may drop one codec buffer, and is then outside its loop until the component executes
again, so no second one is lost before a flush makes the queue anew. Hypotheses: no Pause (section 7), and for what
a flush finds a client that passes no buffer while a command is under way (`~Overlaps`).
`LibraryKeepsBuffers`, about the MFC library with any number of buffers and of slots and each of its four queues. `LibraryInv`
relates three records of an index: the library's mark, the driver's entry and what the caller in the middle of a call has. What
the driver has is marked and under the name of its buffer (`DriverHas`); what is marked is in the driver or in a caller's hand,
unless a flush is under way, which has stopped the stream first (`MarkedHas`, `StreamStopped`); the slot of a buffer is found
under no other (`BoundSlots`). That Enqueue finds a slot where buffers have none of their own is a
count: if all slots were marked, the slots would inject into the buffers other than the one to be enqueued. `LibraryAssumption`: a slot for
each buffer, no stream-on that fails, not both kinds of failing set-ups; and `Prompt` (section 7).

**VencPorts_proofs.** `NoCodecBufferIsLost`, for every client whose commands come once the stream runs
(`~EarlyFlush`), whichever port it flushes and whether it waits or not. The invariant `IInv`: `Control` ties the places of the
threads to what they hold, to the flags of the command thread and to what a stopped stream has (`Commands`, `Begun`,
`Holding`, `Locked`); `Permits` says how far a counter may be ahead of its queue, by the one post of a flush; `CodecsIn`
counts the codec buffers over queue, hand and MFC and says that they cover all; `Outside` and `Inside` say of the output
buffers that none is in two places and none is with the client while it is in one. That the buffers are counted is not
enough for a step that takes one out of the middle: that they cover the set as well shows that none is
doubled, and the lemma `CodecsMoveSo` says of each action how both move. `EncoderKeepsBuffers` is the formula the run
checks. After a flush the output drops every picture until the one with the awaited time stamp, and what it drops, buffer
and all, is overwritten by the next (VENC:483); so that an output buffer is never lost to this, `Both` adds that the awaited picture is
always the next to come out of the MFC (`Stamps`), that when the output is flushed the input has none left (`InputFlushed`), and where a buffer
that the component owes may be (`OwedFound`). Hypotheses besides: both ports are flushed together (`~Separate`), by a client that
waits for the end of its commands (`Patient`).

**MobiCore_proofs.** `AnswersAreOwn`: `ExchangeInv` says that at most one command is under way
anywhere (caller, buffer, secure world, notification), that a fault stops the exchange for good, and who sleeps has a
wake-up coming or a halted world; hypothesis `Exclusive`, that every command is sent under handleConnection's mutex
(section 7). `ClientAndDaemonAgree`: `ClientInv` says that the sessions and buffers of a live device are the daemon's, and a daemon that
died has none of a device's; hypothesis: the notification queue connects (`~NqFails`). `PendingSessionRefusesClose` is an action property of
every step of every thread.
`SessionsAreKnown`: `SessionsInv` says that a session is once in the list and has an owner of its own
(`OwnersApart`), that each lock is held by a session or by the command under way (`Locks`), and where
every notification is (`OnTheWay`): what a trustlet sent is at most what its client got, what is in the queue to the
interrupt thread, in its hands, kept in the session, or kept in the device for the session being opened. Hypotheses: one
session per client and an interrupt thread that no update of the queue's counter interrupts (section 7), and
identifiers among those that a restarted daemon closes. What `Without` and the walk of `Reached` compute of a list of
any length is proved by the least counterexample, as for `searchLowPriority`.

**CameraRequests_proofs.** `RequestsKeepPromise` (refinement of `RequestPipeline`),
`ThreadsAgree`, and the same of the instance TLC checks. Of the streams, `StreamsStayAgreed`. Of one signal-driven thread, `NeverSleepsOnPending`,
`TerminatedOnlyOutside`, `SignalsAreHeard` and `ImplementsMemory`, by the invariant `Shape`: the types, and a signal is in the second word only
if in the first. The invariant `Agreement` of the requests has five parts:

* `Way`: the ring, by the frame that belongs to each position counted back from the insertion index (`FrameAt`):
  positions below the oldest one in use are empty, the others hold just that frame. And where each output
  of each frame is: a shot in the sensor, at the driver, in the stream's thread, or given back. It is in one of them only (`Apart`), and each entry's count of
  outputs to come is what these owe (`Owed`);
* `Told`: STREAM_OUTPUT_DONE is on its way, or just taken, at most once; the entry it names is COMPLETED and
  the oldest. `RingIsExact` shows it is the only one of its frame;
* `Announced`: turns a stream thread was told to take do not outnumber the frames at the driver;
* `Sent`: a REQUESTED entry's frame is in the sensor's queue or at the ISP;
* `Asked`: if the main thread knows that the service has nothing, the service will notify.

Hypothesis `"night" \notin Kinds`: the five shots of a night picture are shown but not counted (section 7), so
`Owed` is false of them. The formula about the null flag also supposes that the service does not queue a request while `dequeue_request` is returning NULL (`~QueuesInDequeue`, section 7).

`StreamsStayAgreed` is `StreamsAgree` whatever sub-streams are in use. `StreamsAgree` speaks only of the time between two calls, so
its invariant `StreamsInv` says what is so at each place of a call that waits:

* `CallPlaces`: which call waits where, and that the ZSL stream is not held before its capture thread has changed hands;
* `Served` and `Counted`: what a stream thread serves is what is allocated of its stream, and the stream's count is that of its
  sub-streams and one for the preview or ZSL itself;
* `SensorFollows`: sensor, node and ISP work together, no order to stop is left with a sensor thread that serves (`Clean`), and while
  a release of the preview waits for it, RELEASE and TERMINATE are in one of the three places they pass through in turn;
* `FramesCome`: a first frame, shown or on its way, comes from a sensor that works, so that who waits for one gets it;
* `PreviewFollows` and `CaptureFollows`: the thread lives as long as the stream is held, and the node is off once the thread
  has given the stream up.

Hypotheses: `Settled` and `FirstFrames`. Without them an order to stop overtakes the start, and `SensorIsOff`,
`PreviewIsOff` and `HeldIsActive` are false (section 7).

**Composer_proofs.** `ScalerGuardsBuffers`, and `FencesAreGuarding` and `ScalerStaysSafe`, the same of the instance TLC
checks. The invariant `ScalerInv` has two parts:

* `BuffersGuarded`: fences kept with different buffers differ, are open, and the fence of a buffer the display
  shows is the one the display will signal. The kernel gives the lowest free descriptor; `FreshIsNew`
  shows that there is one and that it is none of the open ones, by the cardinality of a finite set;
* `UnitAgrees`: if there is a handle, its node is set up for the format the composer noted and streams, on a
  protected path if the content is protected (`Streams`); if there is none, no format is noted and the
  unit is stopped.

Each call into the G-Scaler's library has a lemma of its own that says what it does to the
node, also when it fails half-way; a frame is their composition. `LeavesNone` is an action property: a fence
that no buffer keeps stays open only after a frame in which the composer or the G-Scaler fails (it leaves the release
fences of what the scaler had queued and the buffer's own, GSC:700, HWC:1175), not when the display's driver refuses the frame.

`DisplayStaysInStep` is about the second display. Its invariant `HdmiInv` has three parts:

* `LayersSound`: the driver's queue of a layer is the run of buffers before the one the HAL uses next, around the ring
  (`RingAt`), as many as the HAL has counted; a layer streams as soon as it holds one; `Room`, `Queued` and `Streams` keep
  this each on its own (`RoomSound`, `QueuedSound`), hence so does a frame, whichever call of it fails;
* `EventsAlternate`: the kernel's events under way alternate and the last one says how the cable is, so once the framework
  was told of a display, the next event does not announce one again, and a configuration that cannot be read leaves it with what it was told before;
  nothing is told before the procs are registered;
* `MixerFollows`: where a frame follows each uevent, the display is off whenever a resolution is read.

The theorem says of the framework's knowledge only what the code gives: it agrees from the first call of hotplug on. exynos5_open
calls nothing (HWC:2070), and an event before the procs are registered is lost (HWC:1697), so before that call the
framework may not know of a display that is there (section 7).

Hypothesis `HdmiAssumption`: at least one buffer, and no failure of stream-on or of the blending control (section 7).

## 6. What is only model-checked

* Liveness, all of it: it rests on fairness and ENABLED, which the proof system does not reason about.
  `CallsConclude`, `AudioDelivers`, `InputMovesOn`, `OutputCommandsEnd`, `SharedPortMovesOn`, `CallsReturn`,
  `ServiceIsAnswered`, `CallsEnd`, `Settles`, `EncoderMovesOn`.
* Safety: `SharedBuffersKept`, `LateRequestsAgree`, `CameraAgrees`, `FocusIsHonest`, `WindowsFit`.
* `WaitersAccountedFor` and `PlainBuffersKept` are the formulas of `ListIsSound` and `InputPortKeepsBuffers` at a second
  choice of the constants; the theorems, being about all of them, include these.
* `HwcWindows`: what `exynos5_prepare_fimd` computes is a search with restarts, written as recursive functions; a proof of its result would be an induction over data.

## 7. What does not hold

Each of these is a formula of the module, false when the constant named has the value
named (or of the module as it is). The runs leave the situation out or check a weaker formula; to see the
counterexample, set the constant.

| formula | when | what the code does |
|---|---|---|
| OmxComponent: FreeHandle ends | Get_Resource refused before | Port_Destructor takes `transientState = LoadedToIdle` to mean that the handler waits for buffers (PORT:802); it does not, and the acknowledgement never comes |
| OmxComponent: nothing held in Loaded | `componentInit` fails | the resource, perhaps the codec, stays held (BASE:355) |
| OmxComponent: initialised when active | WaitForResources, then Idle | Idle without codec or threads (BASE:454); a PortDisable in WaitForResources waits for buffers that are not there (PORT:237) |
| ResourceManager: `Accounted` | a codec fails to open; a component preempted outside Idle | the resource goes before the codec is closed (BASE:201); one in Executing that is preempted is told nothing and goes on (RM:181) |
| VdecInput `NothingLost` | Pause | the codec's function returns at once and the thread drops the data as consumed (VDEC:602, H264:1931) |
| VdecInput `ExecutingRuns` | Executing by way of Pause | `transientState` keeps LoadedToIdle and the threads wait (BASE:502, cf. :477) |
| VdecOutput `TerminateEnds` | Invalid | the start event of the input port is set where the output port's is meant (VDEC:1006, H264:2048) |
| VdecOutput `CodecBuffersKept` | Pause | DstInput drops the codec buffer it holds at each pause, and only a flush makes the queue anew (VDEC:736) |
| VdecOutput `CodecBuffersKept` | `SetupInFlush` | a flush between CodecDstSetup and the start takes all codec buffers and enqueues none (H264:562) |
| VdecShare `SharedBuffersKept` | `FlushAfterDrop` | a header is returned twice (VDEC:455); after a flush of the input alone, pictures kept are overwritten (VDEC:459) |
| VdecShare `FewLost` without `kept` | after a seek, at a change of resolution; three buffers | a picture that Postprocess keeps is overwritten by the next, its buffer lost until the next flush; each such picture costs one (VDEC:459, :525, VP8:1623) |
| MfcBuffers `Kept` | `Prompt = FALSE` | `pPrivate` is written after the enqueue (ExynosVideoDecoder.c:1451) |
| MfcBuffers `Kept` | a kind with the faults "refused" and "later", or with "run" | a plane's memory is freed twice (ExynosVideoDecoder.c:904); a refused stream-on is ignored |
| AdecProcess `CommandsEnd` | `Prompt = FALSE` | the flush counts the semaphore, the thread takes the count, the handler waits with the mutex (ADEC:881-884) |
| AdecProcess `EOSComesOut` | `EarlySeeks` | `bSRPSendEOS` stays set (MP3:560) |
| AdecProcess, seeks | `Overlaps`; a flush of the input alone | the thread is woken before the postlude of the flush (ADEC:966, :975) |
| VencPorts `EncoderBuffersKept`, `CommandsEnd` | `EarlyFlush` | a codec buffer is lost when the input is flushed before the first picture was encoded (VECTL:541, H264E:686) |
| VencPorts `CodecBuffersKept` | `single` | the same when the first data is an empty EOS: its codec buffer is reset with processData |
| VencPorts `OutputBuffersFound` | `Separate`, or `Patient = FALSE` | a picture that is not the awaited one is dropped with its buffer, which comes back only with the next flush of the output (VENC:483) |
| VencPorts, delivery | `Separate`, `Patient = FALSE` | a picture sent between two flushes; the set-up waits for an output buffer with the input's mutex held (H264E:742, :865) |
| CameraRequests `NullMeansEmpty` | `QueuesInDequeue` | the service queues while NULL is being returned and the notification is lost (CAM:2740) |
| CameraRequests `FrameHasEntry` | night pictures | the first shots' frames have no entry (CAM:541, :3848) |
| CameraFocus `PrecaptureEnds`, `ModeReachesLens` | the mode changes meanwhile | CAM:2869, :3235 |
| CameraFocus `TriggerFindsCommand` | `Races` | the sensor thread reads the words without the lock (CAM:3036) |
| CameraStreams `SensorIsOff`, `PreviewIsOff`, `HeldIsActive`, `NotSuspended`, `ConverterKept` | `Settled` or `FirstFrames` FALSE | a release before the threads got going (CAM:2266, :3737, :1838, :1582, :1089) |
| CameraBuffers `Findable` | two sub-streams registered before the same frame | CAM:4147 |
| HwcWindows `OnScreen` | a layer beside the screen | a window outside the display (HWC:731, :786) |
| HwcGscaler `ClosedUnprotected` | stream-on fails | GSC:1947, against the comment at GSC:519 |
| HwcGscaler `NoMissingBuffer` | the copy's set-up fails | the inner `ret` hides the outer one (HWC:1156) |
| HwcHdmi `ToldPlugged` without `told # "never"` | plugged in at the open, or an event before the procs are registered | the open and the uevent thread set `hdmi_hpd` and call no hotplug (HWC:2070, :1697) |
| HwcHdmi `MixerFits` | a `kind` that is not `calm` | the mixer keeps the old formats when the display changes while it is on, or takes half a resolution while it is read (HWC:614, :1679) |
| HwcHdmi `Numbered`, `OffIsOff`, `Recovers` | faults of stream, blend; `Recovers` also of reqbufs | records stay of a stream that is not there (`HdmiAssumption`) |
| McExchange `OwnAnswer` | `Exclusive = FALSE` | a connection is dropped without the mutex that commands hold, so two commands meet in the one message buffer (MCD:194) |
| McSessions `NoOrphans` | two sessions of a client | the walk that closes them erases while it goes (DEV:150, :136) |
| McSessions `Delivered` | `Torn` | the queue's counter is read in the middle of an update (TZ:590) |
| McClient `NotifyEnds`, `PendingRefused`, `DeviceComesBack` | `Forever`, `NqFails`, a daemon that died | CLI:541, :399, :272 |

Seen while modelling and not stated as formulas: a transition to Idle given up by
FreeHandle is reported complete (BASE:346-349); a client that passes a buffer while it flushes may
have it forgotten until the next flush (`Overlaps`); thumbnail mode asks for more buffers than were set up (H264:532);
the encoder's `configChange` is set and never read, and Change_H264Enc_Param (H264E:326) and its likes are never called, so parameters
set at run time do not reach the encoder; the search for a lost buffer reads an element past the array
before it tests the index (H264E:1860).

## 8. Not modelled

* **Camera HAL, API 1** (`libcamera`): `Android.mk` builds `libcamera2`; at this commit the capture path
  of the older one cannot run (`m_startPictureInternal` fails when its second allocation
  succeeds; `m_rawHeap` is used and never allocated).
* Wrappers of system calls (OSAL, V4L2, ION), pixel arithmetic (`libcsc`, `libswconverter`), image
  data (`libhwjpeg`, the camera's JPEG encoders), `gralloc`, the rotator, the registry of
  MobiCore, keymaster: sequential code for one caller.
* The MPEG-4 and other codec components: near copies of those modelled, with other headers.
* In the modelled components: tunnelled ports and MarkBuffer; an input port that copies; Pause, MARK,
  metadata input, port disable and parameters of the encoder; parameters of the audio decoder and its
  ways between Idle and Pause; release of the camera device, reprocessing, VDIS; MANUAL, infinity and torch of the
  focus; time limits of AE_AWB_LOCK_WAIT; fimg, cursor and blanking of the composer, the crop of the mixer's pads; drivers' loading and
  buffering in MobiCore, whose session handles are never reused in the model.

## 9. What is left

A proof of `SharedBuffersKept`, by an invariant of the places of a buffer as for
the other ports; the lemmas on sequences without repetition in VdecOutput_proofs and
VencPorts_proofs serve it.
