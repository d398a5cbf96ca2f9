# Verification of the ambilight core

TLA+ models of the control logic of this repository, model-checked with TLC
and partly proved with TLAPS. Paths are relative to the repository, the
program's own code is under `src/sources` and `src/include`; line numbers are
in `PROJECT.json` ("map").

## 1. The system

A daemon captures colours from many sources and sends them to LED strips. Each
*instance* owns one strip.

| part | state | operations | talks to |
|---|---|---|---|
| Priority muxer (`base/Muxer.cpp`) | table of inputs by priority with timeout and component, visible and previous priority, pin | register, set, clear, clear all, pin, auto select, 250 ms tick | direct signals to the instance, the effect engine and the LED power |
| Instance (`base/AmbilightAppInstance.cpp`) | owns all parts of an instance | colour, image, LEDs, effect, clear | calls the muxer and the effect engine, all on its own thread |
| Component controller (`base/ComponentController.cpp`) | state of every component, states saved by a pause | pause and resume all, component changed | requests by signal |
| LED device (`leddevice/`, `dev_serial/`) | enabled, ready, port, retry and USB timers | enable, disable, pause, write | own thread; queued calls in, queued state signals out |
| Effect engine (`effectengine/`) | running effects, a thread for each | run, finish, clear, visible priority changed | queued frames and end signals to the instance, a flag read by the effect's thread |
| LED mapping and black borders (`base/ImageToLedManager.cpp`, `blackborder/`) | map for a size, a border and a layout; current and previous border, counters, switches | frame, LEDs, averaging, switches, settings | the instance gives it images and gets colours |
| Instance manager (`base/AmbilightAppManager.cpp`, `base/AmbilightAppIManager.h`) | table of instances, starting and running ones, who asked for a start, how many still start | start, stop, create, delete, instance started | threads of the instances, daemon, clients; main thread |
| Clients of the API (`api/BaseAPI.cpp`, `api/AmbilightAPI.cpp`) | selected instance, pointer to it | connect, message, switch, instance commands | blocking and queued calls to the manager; network thread |
| Capture control (`base/VideoControl.cpp`, `base/GrabberWrapper.cpp`) | per instance: switch, inactivity timer; of the capture: clients, dark instances, pause, timers | image, request, LEDs changed, pause timer, revival | queued signals between the threads of the instances and of the capture |
| V4L2 capture (`grabber/v4l2/`) | stream, buffers of the driver, workers with a thread and a busy flag each | start, stop, restart, HDR mode, frame, answer of a worker | threads of the workers, driver |
| Smoothing (`base/Smoothing.cpp`) | configurations, connection to the device clock | clock tick, new colours, restart | LED device thread |
| Network inputs (`RawUdpServer`, Boblight, FlatBuffers, Proto) | priority of each client | register, data, clear, disconnect | muxer |
| Access manager (`base/AccessManager.cpp`) | pending requests, attempts | request, accept, deny, timeout | API |
| API, settings, database, web, discovery, capture back ends, other image processing | see `PROJECT.json` | not modelled: dispatch, I/O or numeric code | |

**What is hard.** Most work of an instance runs on one thread, so its handlers
are atomic; the difficulties are elsewhere:

* time passes between handlers, and inputs expire by themselves;
* the LED device and every effect live on threads of their own and are reached
  by queued calls: whoever asks never waits for the outcome;
* opening a serial port waits in a *nested event loop*, so calls and timers of
  the device run in the middle of another call;
* timers (retry, late re-enable, USB monitor, inactivity) race with requests;
* a pause of all components saves states that queued work still changes;
* the clients of the API run on the network thread, hold shared pointers to
  instances that the main thread stops, and look at the manager in blocking calls;
* the capture hears of its clients on two ways that are not in order with each
  other, and decides by comparing two counts;
* worker threads read the driver's buffers and answer by queued signals, some of
  which arrive after the stream they belong to is gone;
* a map of the LEDs is built for a border, a size and a layout that each change
  by themselves, in any order.

The list of concrete hazards, each at its line and with the properties that
cover it, is `PROJECT.json` ("hazards").

## 2. The modules

| module | models | role |
|---|---|---|
| `VisibleSource` | what listeners of the visible priority may rely on | abstract specification |
| `Muxer` | `base/Muxer.cpp` | component; implements `VisibleSource` |
| `MCMuxer` | | constants of `Muxer` for TLC |
| `MuxerProofs` | | inductive invariant, safety theorems, one of liveness |
| `MuxerRefinementProofs` | | `Muxer` implements `VisibleSource`, proved |
| `LedDevice` | `LedDevice.cpp`, `ProviderSerial.cpp`, `LedDeviceWrapper.cpp` | component, the device thread |
| `LedPower` | `ComponentController.cpp`, `handlePriorityChangedLedDevice`, the API's request | composes `LedDevice` with `VisibleSource` |
| `MCLedPower` | | a history variable for TLC |
| `LedPowerProofs` | | inductive invariant, safety theorems |
| `Effects` | `EffectEngine.cpp`, `Effect.cpp`, `setColor`, `setInputImage` and `clear` of the instance | component, the effects of one priority |
| `EffectsProofs` | | inductive invariant, safety theorems |
| `BlackBorder` | `BlackBorderProcessor.cpp` | component, part of the next |
| `LedMapping` | `ImageToLedManager.cpp`, the LED settings and the visible component of the instance | component; drives `BlackBorder` |
| `BorderHistory` | | `LedMapping` with history variables, its properties over time |
| `MCLedMapping` | | constants of `BorderHistory` for TLC |
| `BorderProofs` | | inductive invariant, safety theorems |
| `CaptureWorkers` | `V4L2Grabber.cpp`, `V4L2Worker.cpp` | component, the capture and the threads of its workers |
| `CaptureWorkersProofs` | | inductive invariant, safety theorems |
| `CaptureClients` | `VideoControl.cpp`, `GrabberWrapper.cpp`, `Grabber::revive` and what the instances tell them | component, the instances and one capture |
| `CaptureHistory` | | `CaptureClients` with a history variable, its properties about an index |
| `MCCaptureClients` | | constants of `CaptureHistory` for TLC |
| `CaptureClientsProofs` | | inductive invariant, safety theorems |
| `InstanceLife` | what the daemon may rely on when instances start and stop | abstract specification |
| `Instances` | `AmbilightAppManager.cpp`, the daemon's start of services, the instance part of the API | component, main thread, network thread and threads of the instances; implements `InstanceLife` |
| `InstancesProofs` | | inductive invariant, safety theorems |

An operator that no specification uses (`EnabledFrameKeepsMap`, `StopDeletesAtOnce`)
stands before the definition it resembles and shows a plausible mistake in it;
`PROJECT.json` ("mutants") names the property that notices.

The composition is through the abstract specification: `LedPower` uses
`VisibleSource` in place of the muxer, and `MuxerImplementsVisibleSource`
justifies that. `Effects` looks at the muxer from one priority: of the other
inputs it keeps only whether a more important one is active. `CaptureWorkers`,
`CaptureClients` and `Instances` are components of the daemon rather than of an
instance: the first says how a started capture works, the second when it is
started, the third which instances there are. `InstanceLife` is the part of the
third that the daemon relies on, and `LifeOf` the mapping to it.

### Muxer

`activeInputs` is the map of the same name; an input is its timeout and its
component. The absolute expiry stamp of the code is kept as the time left
until it (0: reached), and `Elapse` lets a unit of time pass, also between the
steps of `clearAll`. Every public operation is one action; `SetCurrentTime` is
the private method they share, with the erasure of expired inputs, the fallback
of a lost pin and the update of previous and visible priority. Announcements
are not queued (direct signals); `Announcement` says what a listener concludes
from the two priorities it sees.

Not modelled: colours, owners, origins, smoothing configuration, and the
throttle of the broadcast to user interfaces. Assumed: nobody but the muxer
registers the built-in input (every caller passes a priority of a source).

### LedDevice and LedPower

`calls` are the queued calls to the device thread, `states` the queued signals
back. `nested` is the stack of event loops the device thread waits in: `Open`
pushes one, `FinishOpen` runs the rest of `open` and `enableDevice` when the
innermost loop ends, and every other action of the device may happen in
between. `DisableDevice` writes `PowerOffFrames` black frames (`WriteBlack`). A
frame that fails puts the device in error and closes the port, and the next one
finds it closed, opens it and waits in a loop of its own: an entry of `nested` is
`Opening` (0), or the number of black frames still to be written. `FinishBlack`
ends such a wait. The frame is written, or fails and leaves a late re-enable, or
is given up because an enable and a disable taken during the wait closed the
port; the frames after it open the port again if they find it closed. At the end
of the frames `disableDevice` closes the port, whatever became of the device
meanwhile. `retry` is the number of attempts left, `lateEnables` the two-second timers of
`writeBytes` that nothing cancels. The port may fail whenever it is used.

`LedPower` adds the three who ask for the LEDs. `AllOff` and `AllOn` are
requests for `COMP_ALL`: `ComponentController` saves or restores, then the
wrapper pauses or resumes the retry timer. `prevLedState` is the entry of
`COMP_LEDDEVICE` in the saved states ("empty" when nothing is saved).

Not modelled: frames and the refresh timer, discovery of the port, a device
without retries (`_maxRetry` 0), the termination of an instance, components
other than `COMP_ALL` and `COMP_LEDDEVICE`.

### Effects

One priority, the effects that were started on it, and their threads. `active`
is `_activeEffects`; an effect that was interrupted stays there until its end is
handled. The flags of an effect are sets of effects: `interrupted`
(`_interrupt`), `hidden` (`_visiblePriority < _priority`), `ticking` (its timer),
`starting` (the queued call of `start`), `ended` (its time is over, or the
animation says so). What an effect hears and says is queued: `news` holds calls
of `visiblePriorityChanged`, `events` its frames and ends on their way to the
instance. The instance's handlers are atomic, so `HandleFinished` includes the
clearing of the priority and the deletion of the effect. Deletion interrupts and
joins the thread; an event that was sent before is still delivered but belongs to
nobody (`Orphaned`), which is how a second end of the same effect is seen. The
signals of the muxer are direct, and `Announce` appends to `news` in their order.

A timeout is the effect whose remaining time it repeats, or just finite. `left`
is computed once per frame (a frame of an effect with `_timeout` 0 carries 0,
which the muxer treats as endless). `owner` is not in the code: it is a history
variable that says for which effect an entry was registered.

Not modelled: smoothing configurations, LED counts, sound, what is drawn,
effects of other priorities, images set by clients.

### BlackBorder and LedMapping

A frame shows a known border or none can be told; which of the two, and which
border, is the detector's and is left open: frames show any. `Unknown` stands for
every border whose `unknown` flag is set, which the code's `operator==` does not
tell apart. `UpdateBorder` is one frame in the processor: `Ignore` is the early
return for an inconsistent frame, `Consider` the rest. `enabled`, `userEnabled`
and `hardDisabled` are the three switches; a settings update replaces the frame
counts and keeps what was counted. The comparison of border sizes in
`verifyBorder` concerns the map only and is part of `Cut`.

`mapSize`, `mapBorder` and `ledString` are what the current map was built from;
`layout` is the layout the instance says is in use. `ProcessFrame` is one image:
a new size first builds a map without a border, then the border is verified,
or given up when the detection is disabled.

`BorderHistory` adds what an observer of the frames would write down (`seen`,
`gap`, `last`, `run`). None of it is in the code, and no action depends on it: it
lets a property speak about each border by itself, where the code has one pair
of counters for all.

Not modelled: detectors, their mode and threshold, blur, the numbers in the map,
the choice of averaging.

### CaptureWorkers

`streaming` says that the device is open and its notifier enabled, `queued` which
buffers the driver may fill, `buffer` what each worker was given last. The flags
of a worker are two, as in the code: its thread (`thread`) and `busy`
(`_isBusy`). A worker's answer is a queued signal (`results`) with the number of
the worker; the grabber reads from the worker which buffer to give back. A stop,
a restart and a change of the HDR mode clear `_isActive` and then wait for the
threads: `waiting` is set meanwhile, and no action of the grabber's thread is
enabled but `Stopped`, which does what follows the wait. A thread that begins in
that time returns without an answer (`Run`). `HandleResult` stands for the
handlers of a good and of a failed frame, which treat the buffer alike.

Answers that were sent before a start are marked `old`. They are handled as the
others are; the mark only states that Qt delivers posted events before it looks
at the socket of a stream that was opened after them (`NoOldResults`), so no
frame is taken from a new stream before the old answers are through. `valid` is
a history variable: the workers for which nothing was unmapped or replaced since
they were set up.

Not modelled: a capture with one worker, which reads on the grabber's thread;
finding and configuring devices; decoding; calls to the driver that fail and are
only logged.

### CaptureClients

`signal` is what `VideoControl` of an instance knows: `_usbCaptEnabled`, whether
the inactivity timer runs, and `_alive`. Requests for images go from the thread
of an instance to the thread of the capture (`requests`); news of the LEDs go by
way of the instance manager (`pauses`); the two queues are in no order with each
other. `runningClients` and `pausedClients` are the lists of `GrabberWrapper`.
Every change of the second starts a timer that makes the earlier ones void, so
one flag `trigger` stands for all of them. The capture knows an instance by its
index. `Instances` are objects and `index` says which one each has: the manager
starts an instance that is in neither of its maps, while a client of the API may
still hold the stopped object of that index, which goes on until it is destroyed
and then withdraws the request of its index. A stop by itself changes nothing
here. `CaptureHistory` adds `shared`, the indices that two objects had at the
same time and of which at least one object has lived on since. `revivals` says that at least one
three-second timer of `revive` runs. A frame becomes a queued call for every
instance that is connected when the frame is there.

Assumed: a start of the device succeeds; automatic resume is on. Not modelled:
the veto of the signal detection, the software grabber (which `SystemControl`
controls in a similar, simpler way), HDR, CEC and the lists of devices.

### Instances

An object is an index and a life, so that two objects with one index can be told
apart. `starting` and `running` are the manager's maps of shared pointers, `held`
the pointers of the clients; `Release` deletes the objects nobody points at any
more. `calls` is the event queue of the main thread. A client's message is
handled on the network thread: `HandleMessage` asks whether the selected instance
runs and blocks (`handling`), and the command comes later (`passed`); both wait
for the main thread, while stops, starts and deletions of others get in between.
`fireStarter` is the counter of instances that still start; the last one starts
the network thread (`services`). The queued STOP signals for the clients are
`news`.

Not modelled: sleep and wake, names and backups, music devices, the way to exit,
clients of MQTT, and every command that concerns no instance (it is passed on).

## 3. The runs

| run | shows | bounds |
|---|---|---|
| `muxer` | selection, pins, clearing and announcements are right at every moment; the timer makes up for operations that do not select | inputs 0 and 1 above the built-in 3, a user and a capture component, timeouts up to two units |
| `led_power` | reports, timers, saved states and retries against a failing port; an enable that was taken is pursued until a disable is, or until an older disable, whose black frame waited, ends | 3 queued calls, 1 queued signal, 2 nested loops, 1 retry, 1 late re-enable, 3 black frames as in the code; 475,446 states |
| `led_no_source` | a violation, see below | as above with 2 calls, 1 nested loop |
| `effects` | replacing, clearing and finishing effects in any order leaves one that plays, no orphaned entry and no late frame; effects know whether they are hidden, and end | 2 effects at a time; 1 announcement for each and 2 events altogether wait before an action that adds one is disabled; 248,328 states |
| `effects_unregistered` | a violation, see below | 1 effect |
| `led_mapping` | switches agree, only stable borders replace a known one, steady ones do, and the map follows | 3 known borders, 2 image sizes, switch after 3 unknown or 2 equal frames, 1 inconsistent frame overlooked |
| `led_mapping_uncut` | a violation, see below | as above |
| `capture_workers` | no buffer is shared, replaced under a reader or lost, and frames are handled, over stops, restarts and changes of the HDR mode | 3 workers, 3 buffers |
| `capture_clients` | no client is left that nobody wants and none is missing unless its index was shared, a rest has a reason, lit clients get images if only clients are counted as dark, no stale image stays | 2 objects, one of index 1, the other of index 1 or 2; 2 requests or changes of LEDs queued, pausing switched on; 1,994,579 states |
| `capture_paused` | a violation, see below | as above |
| `instances` | what clients hold is started and alive, every index goes through off, starting and on, the services start with the last instance, what was stopped is deleted, who asked for a start hears of it | indices 0 and 1, 2 objects for each, 2 clients, 2 calls queued before a client adds one |
| `instances_switch` | a violation, see below | as above |

The muxer compares priorities and components only with each other and with
constants, and a pin concerns one input: two inputs and the built-in one give
every order of visible, pinned and cleared input, and two units of time let one
expire before the other. A user component (colour, effect, image; the three have
one value in `MCMuxer.cfg`, since the muxer asks only whether a component is one
of them) and a capture component are the two classes the muxer distinguishes. On the device,
two nested loops are enough for an inner open to finish before an outer one, and
three calls for an enable, a disable and a pause to be under way together, or for
an enable and a disable to be taken while a black frame waits; the single retry is both the first and the last. Two effects are an old and a new one
of the priority; an effect that is deleted may be started again, so a run goes
through any number of them. Two events are a frame before an end, the ends of two
effects, or a first and a second end of the same one; the deletion of an effect
while another event of it is queued is reached in the run. The bounds disable an
action whose queue is full; in `Effects` clients and the more important sources
wait while an effect has news (`Calm`), and an effect waits with its next event,
never the muxer's timer or the instance. The theorems about `Effects` do not
depend on its bounds.

In `MCLedMapping` the three known borders are no bars and two kinds of bars:
current, previous and shown border can all differ. `MaxFrames` is the number of
equal frames after which any border must have been taken over, which
`SettingsAssumption` asks for; longer runs of equal frames are not counted
further by the history, and the code's counters never exceed it (`NotOvershot` in
`BorderProofs`). A new processor has 10 inconsistent frames to its name and
overlooks at most 10 by default; the run keeps that equality with 1.

Three workers are one that reads, one that has answered and one that is free or
lost, and three buffers keep all of them busy; a restart with answers of the old
stream under way needs no more. Two objects of two indices are an instance that wants images and one
that does not, and every count from none to both; two objects of one index are an
old and a new one of the same instance. Two queued messages are what a change of
the priority sends at once, two changes of the LEDs that must stay in order, or a
request of the old object behind one of the new; and an instance can go and come
back before the capture has heard of either. In `Instances`, with two objects for
an index an old one is still held while the new one starts. An object that was
deleted may be used again, so a run goes through any number of starts. Only
clients wait for a free place in a queue, never an answer of the main thread or of
an instance. The theorems about the three modules depend on none of these bounds.

**Fairness.** `Muxer`: the 250 ms timer is never stopped, a loop that began goes
on, time passes. `LedDevice`: the event loop of the device thread takes the next
call, a wait in a nested loop ends (single-shot timers), and the retry and
re-enable timers fire; the instance handles queued signals. No caller, and no
failure of the port, is ever obliged to happen. `Effects`: the event loops of the
effects' threads run what is queued and their timers, the instance handles
signals, the muxer's timer runs and time passes; clients and more important
sources need not do anything, and an animation without a timeout need not stop.
The start and the timer of an effect are strongly fair, since the bound on the
events, which the program does not have, may keep an effect from sending again
and again; weak fairness would let the other effect's frames starve it.
`CaptureWorkers`: the threads of the workers run, a wait for threads that have
ended returns, and an answer is handled although stops and mode changes keep
interrupting (strong fairness: the event queue of a thread is in order).
`CaptureClients`: the inactivity timers fire; they are repeating timers of the
instances' threads. `Instances`: an instance that
starts gets ready, the main thread takes its calls, a message that was let
through is handled, and a posted STOP signal is delivered although there are
always more messages (strong fairness, as above).

**Disagreements found.** In five places a message, a comment or the user
interface states an outcome the code does not guarantee.

* "No source left -> switch LED-Device off" (`NoSourceLedsOff`): the start-up
  enable opens the port and waits in its nested loop; the muxer's first tick
  asks for off, which `disableDevice` ignores because the device is not enabled
  yet; then the open completes and the LEDs are on with no source. Retries and
  late re-enables lead to the same state.
* "clear current effect on the channel", "start the effect"
  (`RunningEffectIsRegistered`): an endless effect started where a colour with a
  timeout was set keeps that timeout. If it runs out before the first frame is
  handled, or while the effect rests behind a more important source, the entry
  goes, every frame is dropped, and nothing ends the effect.
* "Number of frames before a consistent detected border is set"
  (`ConsistentBorderIsCut`): new averaging, new LEDs and a new image size build a
  map without a border, and the processor, whose border is unchanged, never tells
  of it again. `ConsistentBorderIsApplied` and `MapIsNeverStale` show that the
  processor is right and the map is at worst uncut.
* "Turn off the USB gripper completely after 10 seconds when all LED devices are
  off" (`LitClientsAreFilmed`): the wrapper counts every dark instance, also one
  that does not use the capture. With one lit client and one dark instance that
  is no client the counts are equal, and the capture of the lit client stops.
  `LitClientsAreFilmedAmongClients` shows that this is the only reason.
* "Selected Ambilight App instance isn't running" (`ClientsDriveTheirInstance`):
  this error is never sent. The manager gives the main instance for an index
  that does not run, and the client remembers the index it asked for; when that
  instance runs, the client's commands pass the check and drive the main one. It
  is never any other (`OnlyTheMainStandsIn`, proved).

**Reachable and not stated.** The models reach these states too. They are
recorded here, and as hazards, because no comment, document or test says what
should happen, or a log message describes only the step that leads there.

* All components are paused while the enable of the LEDs is queued
  (`ComponentController.cpp`): "off" is saved and nothing is requested, and the
  LEDs settle on during the pause.
* An endless effect that is told to stop while it rests behind a more important
  source has stopped the timer that would look at the request; it stays until
  that source goes. `EffectsEnd` shows that it is the only one that stays.
* The end of an effect that finished by itself clears its priority after a newer
  colour or effect took it.
* A disable writes black frames, one of which waits in the event loop of the port
  (`ProviderSerial.cpp:299`). An enable is taken there, opens the port in a loop
  of its own and sets `_isEnabled`; then the old disable comes to its end and
  closes the port (`LedDevice.cpp:367-371`). The device stays enabled with a closed
  port and not ready (`CutOff`), the instance shows the LEDs on, and every further
  enable, from a caller or a timer, does nothing (`LedDevice.cpp:314`) until a
  disable.
  `WishIsKept` shows that this is the only way, other than a disable, to lose an
  enable that was taken.
* An enable and a disable taken while a black frame waits leave the port closed;
  the frame is given up, and the next one opens the port again with every wish
  dropped. If it then cannot be written, its late re-enable switches the device
  on unasked (`ProviderSerial.cpp:320-326`, `368`). `NothingUnasked` proves that
  nothing else does.
* A layout that arrives before the first image is dropped by the image
  processing, and the first map is built for the old one.
* Deleting an instance that is still starting removes its row; it gets ready,
  runs on and cannot be stopped, and a new instance may be given its index.
* A worker whose thread begins while a stop waits for it stays busy for ever.
* A revival, or a restart for new settings, starts a capture that no client
  wants; pausing that is switched off while the capture is paused leaves it
  resting until a client asks anew.
* After a stop and a new start two objects can have the same index as long as a
  client holds the old one (`AmbilightAppManager.cpp:318`). When the old one is
  destroyed, or disables its capture, the capture drops the index
  (`VideoControl.cpp:66-69`): the new object wants images and is no client until
  its capture is switched or its priority changed. In the same way the LEDs of
  the old object count for the new one. `ClientsConverge` and
  `LitClientsAreFilmed` except an index that was shared, but only where the new
  object would be missing: a client that nobody wants does not stay even then.

## 4. The proofs

`MuxerProofs` proves, for every set of priorities, every set of components and
every timeout bound that satisfy the assumptions of `Muxer`
(`PrioritiesAssumption`, `ComponentsAssumption`, `TimeoutAssumption`):
type correctness, `AutoShowsMostImportant`, `VisibleIsRegistered`,
`ClearAllSparesOthers`, and that a pinned input is registered (`PinIsRegistered`).
`VisibleIsRegistered` and `PinIsRegistered` are in no run of their own.

The inductive invariant `IInv` strengthens these by `TableOK`: the built-in
input is always registered, endless and a colour. Without it the set of active
inputs could be empty and "the most important" would mean nothing;
`MostImportantIsLeast` shows that a non-empty set of naturals has the least
element that `CHOOSE` names. The heart is one lemma about `SetCurrentTime`,
which every selecting action cites; the other actions change only inactive
entries, components or the pin.

It also proves a liveness property of `FairSpec`: a selection that is due (a pin
that is not shown, a component that was not announced) is made
(`SelectionsAreMade`). While no loop of `clearAll` runs, the next tick makes it.
While one runs, nothing else of the muxer does, and its first selection settles
what was due before it began: as long as something is due the loop has cleared
nothing, and the input it comes to next is still registered (`LoopIsFresh`), so
its next step selects. The provers know nothing of `ENABLED`; the theorem has the
hypothesis `[]GuardsAreMet`, which says that the two fair
actions are enabled when their guards hold. It can be checked as an invariant of
`Muxer` (it holds on the instance of the run `muxer`), and it is plain from the
actions: every selection changes what was due, every step of the loop shortens
it.

`MuxerRefinementProofs` proves `Spec => Source!Spec`: a step of the muxer either
leaves the pair (is a source visible, what does the last announcement mean)
alone or is `Goes`, `Appears` or `TakenOver`. It needs, beyond `IInv`, that the
visible priority is the built-in one as long as nothing was announced, and that
the built-in input never changes its component, so an announcement for it is
never repeated.

`EffectsProofs` proves `TypeOK`, `OneEffectPlays`, `NoOrphanInput`,
`FramesDoNotOutlive` and `HiddenIsTrue` for any set of effects and any bounds,
assuming only that the constants are distinct (`EffectsAssumption`). None of the
last four is inductive alone. `IInv` adds

* `OwnerPlays`: the entry of an effect belongs to one that was not told to stop
  (everything that tells an effect to stop also erases or overwrites the entry);
* `EventsOK`: an end was sent by an effect that was told to stop or is at its
  end, and no frame follows it in the queue, so the deletion of an effect leaves
  only ends behind (`SendOK` and `HandleFinishedOK` are the two sides of this);
* that the queues of effects which do not exist are empty, so that a new effect
  starts with the visible priority and nothing to hear.

On top of `IInv`, `NoEffectIsForgotten` is the safety half of `EffectsEnd`: while
an effect exists its start is queued, its timer runs, its end is under way, or it
has no timeout and rests behind a more important source. A timer that is stopped
without a cause, or an end whose handling is skipped, would break it; only the
last case is one in which nothing need happen, and the run `effects` shows it.

`BorderProofs` proves `TypeOK`, `EnabledIsWanted`, `MapIsNeverStale`,
`SwitchesOnlyToStableBorders` and
`ConsistentBorderIsApplied` for any borders, sizes, layouts and frame counts that
satisfy the named assumptions. `IInv` ties the code's counters to the observer's:

* `SeenOK`: the previous border has been seen more often than the count says, so
  a count that reaches the setting is a border that was seen long enough;
* `GapOK`: the gap of the previous border is at most the number of inconsistent
  frames, so the observer forgets it no earlier than the code;
* `NotOvershot`, `RunOK`: a count that has passed its setting belongs to the
  current border, and a run of equal frames is at most a few frames ahead of it.

The last two need settings that do not change (`Fixed`): lower frame counts that
arrive after the count has passed them freeze the border until other frames are
shown, since the code compares for equality. The theorem about
`ConsistentBorderIsApplied` says so in its assumption; the other theorems allow
any change of settings.

`CaptureWorkersProofs` proves `TypeOK`, `BuffersAreNotShared`,
`ReadsWhatItWasGiven` and `NoBufferIsLost` for any number of workers and any set
of buffers. `IInv` says who has a buffer:

* `ResultsOK`: an answer belongs to a busy worker and no worker has two;
* `CarriersOK`: a worker that reads, or whose answer of the present stream is
  under way, has its buffer for itself, so handling the answer cannot give the
  driver a buffer somebody reads. Busy workers alone would not do: one that lost
  its frame to a stop stays busy with a buffer that is the driver's again;
* `OldResultsOK`: while an old answer is under way nothing of the new stream has
  been handed out, and the driver already has every buffer;
* `ReadersOK`: a worker reads only while there is a stream, with what it was set
  up with. The waits in `Stopped` are what preserves it.

`CaptureClientsProofs` proves `TypeOK`, `ClientsConverge` and `RestIsExplained`
of `CaptureHistory`, for any objects, any finite set of indices and any settings,
and
`LitClientsAreFilmedAmongClients` if the setting stays on
(`PausingModes = {TRUE}`, a hypothesis of the theorem). `IInv` adds

* `SharedOK`: an index that is not shared belongs to one object at most;
* `RequestsOK`: the last request under way with an index asks for images only if
  an object of it wants them, and without one the list of clients has the index
  only then; the converse holds of an index that is not shared. An object that
  goes or disables its capture always sends the last word itself, so a wish can
  be lost to another object of the index, but never be kept by one;
* `PausesOK` and `DarkOK`, of indices that are not shared: the last news of a lit
  one says "lit", and one that is still listed as dark has news under way, so a
  listed one without news is dark. The second holds only while pausing stays on.

`InstancesProofs` proves `TypeOK` and `ClientsHoldStartedInstances` for any
indices, objects and clients. `IInv` adds

* `ManagedOK`: an index has one object at most in the manager's two maps, what
  runs is started, and the main instance is always in one of them;
* `StartsOK`: an object that gets ready is the one its index expects, and its
  start is announced once: a second announcement would count another start;
* `ServicesOK`: until the services start, `fireStarter` is the number of expected
  objects and there are no clients, so the count reaches 0 when the last
  instance, and with it the main one, runs.

`ManagedOK` and `StartsOK` are a theorem of their own (`OneInstanceEach`).

`InstancesImplementInstanceLife` proves `Spec => Life!Spec`: what the manager's
maps say of an index changes only from off to starting, from there to on, and from
on to off, never for the main one. The step that matters is the announcement: the
counter is at 1 exactly when no other instance starts (`CountIsLast`), so the
services start with the last one. That needs that no start is announced twice
(`StartsOK`) and that nobody starts an instance before (`ServicesOK`).

Three more theorems say that nothing gets lost between the threads:

* `AnswersReachTheirAsker`: at most one blocking question waits for the main
  thread, and it does exactly while a client's message is handled and not yet let
  through, so no answer can be another client's;
* `StartsAreNotForgotten`: whoever waits for a start waits for an instance whose
  thread is still at it, or whose announcement is queued;
* `StoppedInstancesLeave`: a stopped object that still lives is held by clients
  only, and each of them has a STOP signal waiting or is in the middle of the
  switch that replaces its pointer. The proof needs that an object is let go of
  by everybody who is told (`StoppedAreLetGo`) and that a client's index is the
  one of what it holds, or of the main one (`IndexIsKnown`).

`OnlyTheMainStandsIn` completes what the run `instances_switch` shows: a client that
is let through holds an instance (`AskersHold`), which is the selected or the main
one.

The second and third are the safety halves of `StartsAreAnswered` and
`StoppedInstancesGo`: what is left to fairness is that queues move.

`LedPowerProofs` proves `TypeOK`, `ReportConverges`, `ReadyMeansWorking`,
`PauseCanBeUndone`, `WishIsKept` and `DisabledStartWaits` for any number of
retries and any bounds on the queues, the nested event loops and the late
re-enables. The stack of interrupted calls is no obstacle, because what the
properties need of a call is the same whether or not it is interrupted:

* `DeviceOK` holds after every step of the device and does not mention who is
  interrupted. The rest of an interrupted `open` reports what it did, so the last
  signal under way, or with none what the instance shows, is the truth again;
* `PauseCanBeUndone` concerns the instance alone. A
  pause switches `COMP_ALL` off when it saves and saves nothing twice; its end
  switches `COMP_ALL` on when it empties what was saved;
* `WishIsKept` is an action property. Every way to leave one of the four
  disjuncts of `Wished` leads to another: a failed open starts the retry or the
  USB monitor, the last retry hands over to the monitor, a pause stores the timer
  and its end restores it. Being enabled counts only with a ready device or
  while none was cut off before (`CutOff`). Only a `disable` drops all of them, or
  the end of an older one that finds the device enabled and closes its port
  (`OlderDisableCloses`);
* `NothingUnasked` is the converse: with every wish dropped, only an `enable` from
  the queue brings one back, or the late re-enable of a black frame that could not
  be written to the port it had opened. No other failed write, interrupted open or
  end of a pause does. The proof needs that an open port always means a wish or a
  black frame that waits (`PortHasReason`);
* `DisabledStartWaits` needs that nothing is under way that could switch the LEDs
  on (`Dormant`), and that `COMP_ALL` is off from the start.

`EffectsAreDriven`, `OneAnswerIsAwaited`, `StartsAreUnderWay`,
`StoppedInstancesAreLeaving` and `PortHasReason` are stated in the proof modules and
are in no run.

Only model-checked: all other liveness properties. An expired input goes after a
loop of any length, a queued frame, answer, announcement or STOP signal is
handled after everything before it: each needs induction over the length of a
loop or the place in a queue, and `ENABLED` of every fair action on the way,
which the provers cannot do. The algorithms have no recursion, so nothing else
is out of reach.

## 5. Not modelled

The models cover the code that decides what happens, in which order and on which
thread. The larger part of the repository is left out, so the share of its lines
that the models stand for is small:

* protocols of lamps (`leddevice/dev_net` and the like), wire formats of the
  network inputs, HTTP, WebSocket, JSON dispatch and vendored code: translations
  between formats whose only effect on the rest are calls that the models
  already leave to any caller;
* capture back ends other than V4L2: calls of an operating system. Media
  Foundation uses the worker scheme of `CaptureWorkers`;
* image processing, smoothing, signal detection, LUT calibration: numeric code.
  The models leave its outcome open (any border, any image, any frame);
* the settings and the database: SQL and schemas. What components do when a
  setting changes is part of their models;
* the access manager: hashes, tokens and short sequential bookkeeping;
* sleep and wake of the instances, the way to exit, and the start-up order apart
  from the start of the services: they depend on how Qt ends event loops and on
  blocking calls to a thread that has left its loop;
* forwarding, sound, discovery, the tray and the remote control.

`PROJECT.json` ("components") says the same of each part, and names what is left
out of the parts that are modelled partly.
