--------------------------- MODULE CaptureClients ---------------------------
(***************************************************************************)
(* Who gets images from the video capture, and when the capture rests.     *)
(* VideoControl of every instance asks for images and watches that they    *)
(* come; GrabberWrapper, on the thread of the capture, keeps the list of   *)
(* clients, pauses the capture while their LEDs are off and revives it     *)
(* when the images stop.  Requests come straight from the threads of the   *)
(* instances, changes of the LEDs by way of the instance manager: the two  *)
(* queues are not in order with each other.                                *)
(*                                                                         *)
(* An instance is an object here and its index the name the capture knows  *)
(* it by.  A stopped object goes on as it did until nobody holds it any    *)
(* more; meanwhile another one may be started with its index.              *)
(*                                                                         *)
(* The device is there: a start succeeds.  Automatic resume is on.  The    *)
(* signal detection, which may veto a revival, is left out.                *)
(***************************************************************************)
EXTENDS Naturals, Sequences, FiniteSets

CONSTANTS Instances,        \* objects that can exist at the same time
          Indices, NoIndex,
          MayHave,          \* bound: the indices that each of them may have
          PausingModes,     \* values of the setting "Pause when LEDs are off"
          MaxQueued         \* bound: signals that wait for the capture

ASSUME IndicesAssumption == IsFiniteSet(Indices) /\ NoIndex \notin Indices
ASSUME MayHaveAssumption == MayHave \in [Instances -> SUBSET Indices]
ASSUME ModesAssumption == PausingModes # {} /\ PausingModes \subseteq BOOLEAN

VARIABLES
    index,              \* of an instance, NoIndex if there is no such object
    signal,             \* what VideoControl of an instance knows of its images
    lit,                \* instances whose COMP_LEDDEVICE is on
    frames,             \* instances with a queued handleUsbImage
    stream,             \* VideoControl::_stream, shared by all instances
    requests,           \* queued signals SignalRequestComponent
    pauses,             \* queued signals SignalInstancePauseChanged
    runningClients, pausedClients, isPaused, pausingModeEnabled,
    trigger,            \* the timer of the newest signature runs
    capturing,          \* the grabber is started
    revivals            \* timers of GrabberWrapper::revive run

vars == <<index, signal, lit, frames, stream, requests, pauses, runningClients,
          pausedClients, isPaused, pausingModeEnabled, trigger, capturing, revivals>>

instanceVars == <<index, signal, lit, frames, stream>>
wrapperVars == <<runningClients, pausedClients, isPaused, pausingModeEnabled,
                 trigger, capturing, revivals>>

(* "off": _usbCaptEnabled is not set.  Otherwise it is set, and the        *)
(* inactivity timer does not run ("silent"), runs with or without _alive   *)
(* ("alive", "doubtful"), or runs on although the input was set inactive   *)
(* ("inactive").                                                           *)
Signals == {"off", "silent", "alive", "doubtful", "inactive"}
Watched == {"alive", "doubtful", "inactive"}

Up(i) == index[i] # NoIndex
UsbCaptEnabled(i) == signal[i] # "off"

Requests == [instance : Indices, listen : BOOLEAN]
Pauses == [instance : Indices, enabled : BOOLEAN]

TypeOK ==
    /\ index \in [Instances -> Indices \cup {NoIndex}]
    /\ signal \in [Instances -> Signals]
    /\ \A i \in Instances : UsbCaptEnabled(i) => Up(i)
    /\ lit \subseteq {i \in Instances : Up(i)}
    /\ frames \subseteq Instances
    /\ stream \in BOOLEAN
    /\ requests \in Seq(Requests)
    /\ pauses \in Seq(Pauses)
    /\ runningClients \subseteq Indices
    /\ pausedClients \subseteq Indices
    /\ isPaused \in BOOLEAN
    /\ pausingModeEnabled \in PausingModes
    /\ trigger \in BOOLEAN
    /\ capturing \in BOOLEAN
    /\ revivals \in BOOLEAN

Init ==
    /\ index = [i \in Instances |-> NoIndex]
    /\ signal = [i \in Instances |-> "off"]
    /\ lit = {}
    /\ frames = {}
    /\ stream = FALSE
    /\ requests = <<>>
    /\ pauses = <<>>
    /\ runningClients = {}
    /\ pausedClients = {}
    /\ isPaused = FALSE
    /\ pausingModeEnabled \in PausingModes
    /\ trigger = FALSE
    /\ capturing = FALSE
    /\ revivals = FALSE

-----------------------------------------------------------------------------
(***************************************************************************)
(* The threads of the instances                                            *)
(***************************************************************************)
HasRoomFor(n) == Len(requests) + Len(pauses) + n <= MaxQueued

Request(i, listen) == [instance |-> index[i], listen |-> listen]
Pause(i, enabled) == [instance |-> index[i], enabled |-> enabled]

(* startInstance of the manager and start of the instance: the LEDs are    *)
(* reported off.  That another object of this index was stopped before     *)
(* changes nothing here, and nobody waits for its end.                     *)
StartInstance(i) ==
    /\ ~Up(i)
    /\ HasRoomFor(1)
    /\ \E x \in MayHave[i] :
         /\ index' = [index EXCEPT ![i] = x]
         /\ pauses' = Append(pauses, [instance |-> x, enabled |-> FALSE])
    /\ UNCHANGED <<signal, lit, frames, stream, requests, wrapperVars>>

(* ~VideoControl                                                           *)
DestroyInstanceKeepsLit(i) ==
    /\ Up(i)
    /\ HasRoomFor(1)
    /\ signal' = [signal EXCEPT ![i] = "off"]
    /\ index' = [index EXCEPT ![i] = NoIndex]
    /\ frames' = frames \ {i}
    /\ requests' = Append(requests, Request(i, FALSE))
    /\ UNCHANGED <<lit, stream, pauses, wrapperVars>>

DestroyInstance(i) ==
    /\ Up(i)
    /\ HasRoomFor(1)
    /\ signal' = [signal EXCEPT ![i] = "off"]
    /\ index' = [index EXCEPT ![i] = NoIndex]
    /\ lit' = lit \ {i}
    /\ frames' = frames \ {i}
    /\ requests' = Append(requests, Request(i, FALSE))
    /\ UNCHANGED <<stream, pauses, wrapperVars>>

(* setUsbCaptureEnable, called by handleCompStateChangeRequest and         *)
(* handleSettingsUpdate: it acts only when something changes.              *)
SetUsbCaptureEnable(i) ==
    /\ Up(i)
    /\ HasRoomFor(1)
    /\ \E enable \in BOOLEAN \ {UsbCaptEnabled(i)} :
         /\ signal' = [signal EXCEPT ![i] = IF enable THEN "silent" ELSE "off"]
         /\ requests' = Append(requests, Request(i, enable))
    /\ UNCHANGED <<index, lit, frames, stream, pauses, wrapperVars>>

(* handleSettingsUpdate with another priority disables and enables.        *)
ChangeUsbCapturePriority(i) ==
    /\ UsbCaptEnabled(i)
    /\ HasRoomFor(2)
    /\ signal' = [signal EXCEPT ![i] = "silent"]
    /\ requests' = Append(Append(requests, Request(i, FALSE)), Request(i, TRUE))
    /\ UNCHANGED <<index, lit, frames, stream, pauses, wrapperVars>>

(* setNewComponentState of COMP_LEDDEVICE, also when nothing changes.      *)
SetNewComponentState(i) ==
    /\ Up(i)
    /\ HasRoomFor(1)
    /\ \E state \in BOOLEAN :
         /\ lit' = IF state THEN lit \cup {i} ELSE lit \ {i}
         /\ pauses' = Append(pauses, Pause(i, state))
    /\ UNCHANGED <<index, signal, frames, stream, requests, wrapperVars>>

(* handleUsbImage, queued by the thread of the capture; the capture may be *)
(* disabled, or disabled and enabled again, by then.                       *)
HandleUsbImage(i) ==
    /\ i \in frames
    /\ frames' = frames \ {i}
    /\ IF UsbCaptEnabled(i)
       THEN signal' = [signal EXCEPT ![i] = "alive"] /\ stream' = TRUE
       ELSE UNCHANGED <<signal, stream>>
    /\ UNCHANGED <<index, lit, requests, pauses, wrapperVars>>

(* The inactivity timer                                                    *)
SetUsbInactiveKeepsAlive(i) ==
    /\ signal[i] \in Watched
    /\ IF signal[i] = "alive"
       THEN UNCHANGED <<signal, stream, revivals>>
       ELSE /\ signal' = [signal EXCEPT ![i] = "inactive"]
            /\ stream' = FALSE
            /\ revivals' = (revivals \/ stream)
    /\ UNCHANGED <<index, lit, frames, requests, pauses, runningClients, pausedClients,
                   isPaused, pausingModeEnabled, trigger, capturing>>

SetUsbInactive(i) ==
    /\ signal[i] \in Watched
    /\ IF signal[i] = "alive"
       THEN /\ signal' = [signal EXCEPT ![i] = "doubtful"]
            /\ UNCHANGED <<stream, revivals>>
       ELSE /\ signal' = [signal EXCEPT ![i] = "inactive"]
            /\ stream' = FALSE
            /\ revivals' = (revivals \/ stream)
    /\ UNCHANGED <<index, lit, frames, requests, pauses, runningClients, pausedClients,
                   isPaused, pausingModeEnabled, trigger, capturing>>

-----------------------------------------------------------------------------
(***************************************************************************)
(* The thread of the capture                                               *)
(***************************************************************************)

(* A frame reaches the instances that are connected at this moment.        *)
NewFrame ==
    /\ capturing
    /\ frames' = frames \cup {i \in Instances : UsbCaptEnabled(i)}
    /\ frames' # frames
    /\ UNCHANGED <<index, signal, lit, stream, requests, pauses, wrapperVars>>

(* signalRequestSourceHandler                                              *)
SignalRequestSourceAddsOnly ==
    /\ requests # <<>>
    /\ requests' = Tail(requests)
    /\ runningClients' = runningClients \cup {Head(requests).instance}
    /\ pausedClients' = pausedClients \ {Head(requests).instance}
    /\ capturing' = TRUE
    /\ UNCHANGED <<instanceVars, pauses, isPaused, pausingModeEnabled, trigger, revivals>>

SignalRequestSource ==
    /\ requests # <<>>
    /\ requests' = Tail(requests)
    /\ LET i == Head(requests).instance
       IN  IF Head(requests).listen
           THEN /\ runningClients' = runningClients \cup {i}
                /\ pausedClients' = IF i \in runningClients THEN pausedClients
                                                            ELSE pausedClients \ {i}
           ELSE /\ runningClients' = runningClients \ {i}
                /\ pausedClients' = pausedClients \ {i}
    /\ capturing' = (runningClients' # {})
    /\ UNCHANGED <<instanceVars, pauses, isPaused, pausingModeEnabled, trigger, revivals>>

(* signalInstancePauseChangedHandler: a change of the list starts a timer  *)
(* that makes those before it void.                                        *)
SignalInstancePauseChangedOnlyForDark ==
    /\ pauses # <<>>
    /\ pauses' = Tail(pauses)
    /\ LET i == Head(pauses).instance
       IN  pausedClients' = IF ~pausingModeEnabled THEN pausedClients
                            ELSE IF Head(pauses).enabled THEN pausedClients \ {i}
                            ELSE pausedClients \cup {i}
    /\ trigger' = (trigger \/ ~(pausedClients' \subseteq pausedClients))
    /\ UNCHANGED <<instanceVars, requests, runningClients, isPaused,
                   pausingModeEnabled, capturing, revivals>>

SignalInstancePauseChanged ==
    /\ pauses # <<>>
    /\ pauses' = Tail(pauses)
    /\ LET i == Head(pauses).instance
       IN  pausedClients' = IF ~pausingModeEnabled THEN pausedClients
                            ELSE IF Head(pauses).enabled THEN pausedClients \ {i}
                            ELSE pausedClients \cup {i}
    /\ trigger' = (trigger \/ pausedClients' # pausedClients)
    /\ UNCHANGED <<instanceVars, requests, runningClients, isPaused,
                   pausingModeEnabled, capturing, revivals>>

(* ... and the timer.                                                      *)
TriggerNeverResumes ==
    /\ trigger
    /\ trigger' = FALSE
    /\ IF Cardinality(pausedClients) = Cardinality(runningClients) /\ pausedClients # {}
       THEN isPaused' = TRUE /\ capturing' = (capturing /\ isPaused)
       ELSE UNCHANGED <<isPaused, capturing>>
    /\ UNCHANGED <<instanceVars, requests, pauses, runningClients, pausedClients,
                   pausingModeEnabled, revivals>>

Trigger ==
    /\ trigger
    /\ trigger' = FALSE
    /\ \/ /\ Cardinality(pausedClients) = Cardinality(runningClients)
          /\ pausedClients # {}
          /\ isPaused' = TRUE
          /\ capturing' = (capturing /\ isPaused)
       \/ /\ Cardinality(pausedClients) < Cardinality(runningClients)
          /\ isPaused' = FALSE
          /\ capturing' = (capturing \/ isPaused)
       \/ /\ Cardinality(pausedClients) >= Cardinality(runningClients)
          /\ pausedClients = {} \/ Cardinality(pausedClients) # Cardinality(runningClients)
          /\ UNCHANGED <<isPaused, capturing>>
    /\ UNCHANGED <<instanceVars, requests, pauses, runningClients, pausedClients,
                   pausingModeEnabled, revivals>>

(* handleSettingsUpdate: a restart starts the capture whoever wants it.    *)
HandleSettingsUpdate ==
    /\ pausingModeEnabled' \in PausingModes
    /\ capturing' \in {capturing, TRUE}
    /\ UNCHANGED <<instanceVars, requests, pauses, runningClients, pausedClients,
                   isPaused, trigger, revivals>>

(* Three seconds later Grabber::revive stops and starts; there may be more *)
(* than one such timer.                                                    *)
Revive ==
    /\ revivals
    /\ revivals' \in BOOLEAN
    /\ capturing' = TRUE
    /\ UNCHANGED <<instanceVars, requests, pauses, runningClients, pausedClients,
                   isPaused, pausingModeEnabled, trigger>>

-----------------------------------------------------------------------------
InstanceStep(i) ==
    \/ StartInstance(i)
    \/ DestroyInstance(i)
    \/ SetUsbCaptureEnable(i)
    \/ ChangeUsbCapturePriority(i)
    \/ SetNewComponentState(i)
    \/ HandleUsbImage(i)
    \/ SetUsbInactive(i)

Next ==
    \/ \E i \in Instances : InstanceStep(i)
    \/ NewFrame
    \/ SignalRequestSource
    \/ SignalInstancePauseChanged
    \/ Trigger
    \/ HandleSettingsUpdate
    \/ Revive

Spec == Init /\ [][Next]_vars

(* Timers fire.  Nobody has to start, switch or film anything, nor to      *)
(* handle an image.                                                        *)
Fairness == \A i \in Instances : WF_vars(SetUsbInactive(i))

-----------------------------------------------------------------------------
(***************************************************************************)
(* Properties                                                              *)
(***************************************************************************)

(* A capture that rests although it has clients was paused, and at least   *)
(* as many instances as clients are dark, or this is looked at again soon. *)
RestIsExplained ==
    ~capturing /\ runningClients # {} =>
        /\ isPaused
        /\ trigger \/ Cardinality(pausedClients) >= Cardinality(runningClients)

(* When the capture rests for good, no instance goes on to show its last   *)
(* image as an active source.                                              *)
StaleImagesGo ==
    <>[]~capturing => <>[](\A i \in Instances : signal[i] \notin {"alive", "doubtful"})
=============================================================================
