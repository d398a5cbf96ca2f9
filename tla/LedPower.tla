------------------------------ MODULE LedPower ------------------------------
(***************************************************************************)
(* Who switches the LEDs of one instance on and off: the muxer when its    *)
(* first source appears or its last one goes                               *)
(* (AmbilightAppInstance::handlePriorityChangedLedDevice), the pause of    *)
(* all components (ComponentController), and the API.  Each of them sends  *)
(* requests to the device of LedDevice and none of them waits for the      *)
(* outcome.                                                                *)
(*                                                                         *)
(* The muxer appears here as VisibleSource, which Muxer implements; that   *)
(* another source takes over changes nothing for the LEDs and is left out. *)
(* A request for all components is one step, although its two receivers    *)
(* are called by two consecutive events of the instance.                   *)
(***************************************************************************)
EXTENDS LedDevice

CONSTANT ApiMaySwitchLeds    \* bound: API clients also switch COMP_LEDDEVICE

ASSUME ApiAssumption == ApiMaySwitchLeds \in BOOLEAN

VARIABLES disableOnStartup,      \* the setting the instance was started with
          allEnabled,            \* _componentStates[COMP_ALL]
          prevLedState,          \* COMP_LEDDEVICE in _prevComponentStates
          sourceVisible,         \* the visible priority is not LOWEST_PRIORITY
          announcement           \* what the muxer said last

Source == INSTANCE VisibleSource

powerVars == <<disableOnStartup, allEnabled, prevLedState, sourceVisible, announcement>>
vars == <<deviceVars, powerVars>>

TypeOK ==
    /\ DeviceTypeOK
    /\ disableOnStartup \in BOOLEAN
    /\ allEnabled \in BOOLEAN
    /\ prevLedState \in {"empty", "off", "on"}
    /\ sourceVisible \in BOOLEAN
    /\ announcement \in {"none", "off", "on"}

(* The device is started with its thread, which enables it, unless the     *)
(* user disabled that: then COMP_ALL is off although nothing was saved.    *)
Init ==
    /\ disableOnStartup \in BOOLEAN
    /\ calls = IF disableOnStartup THEN <<>> ELSE <<"enable">>
    /\ states = <<>>
    /\ reported = FALSE
    /\ isEnabled = FALSE
    /\ isDeviceReady = FALSE
    /\ portOpen = FALSE
    /\ retry = NoTimer
    /\ pausedRetry = "none"
    /\ usbMonitor = FALSE
    /\ lateEnables = 0
    /\ nested = <<>>
    /\ allEnabled = ~disableOnStartup
    /\ prevLedState = "empty"
    /\ Source!Init

Requested(new) ==
    /\ Queue(new)
    /\ UNCHANGED <<states, reported, isEnabled, isDeviceReady, portOpen, retry,
                   pausedRetry, usbMonitor, lateEnables, nested>>

-----------------------------------------------------------------------------
(* handlePriorityChangedLedDevice: "off" is asked for at the first         *)
(* announcement too; "on" not while the components are paused.             *)
SourceGoes ==
    /\ Source!Goes
    /\ Requested(<<"disable">>)
    /\ UNCHANGED <<disableOnStartup, allEnabled, prevLedState>>

SourceAppears ==
    /\ Source!Appears
    /\ Requested(IF allEnabled THEN <<"enable">> ELSE <<>>)
    /\ UNCHANGED <<disableOnStartup, allEnabled, prevLedState>>

(* A request for COMP_ALL: ComponentController saves or restores the state *)
(* of the LEDs, then the wrapper pauses or resumes the retry timer.        *)
AllOffSavesWhatIsReported ==
    /\ IF prevLedState = "empty"
       THEN /\ allEnabled' = FALSE
            /\ prevLedState' = IF reported THEN "on" ELSE "off"
            /\ Requested(IF reported THEN <<"disable", "pause">> ELSE <<"pause">>)
       ELSE Requested(<<"pause">>) /\ UNCHANGED <<allEnabled, prevLedState>>
    /\ UNCHANGED <<disableOnStartup, sourceVisible, announcement>>

AllOff ==
    /\ IF prevLedState = "empty"
       THEN LET disableLeds == disableOnStartup /\ ~allEnabled
            IN  /\ allEnabled' = FALSE
                /\ prevLedState' = IF disableLeds \/ reported THEN "on" ELSE "off"
                /\ Requested(IF reported THEN <<"disable", "pause">> ELSE <<"pause">>)
       ELSE Requested(<<"pause">>) /\ UNCHANGED <<allEnabled, prevLedState>>
    /\ UNCHANGED <<disableOnStartup, sourceVisible, announcement>>

AllOnKeepsSaved ==
    /\ IF prevLedState # "empty"
       THEN /\ allEnabled' = TRUE
            /\ Requested(IF prevLedState = "on" THEN <<"enable", "resume">>
                                                ELSE <<"resume">>)
       ELSE Requested(<<"resume">>) /\ UNCHANGED allEnabled
    /\ UNCHANGED <<disableOnStartup, prevLedState, sourceVisible, announcement>>

AllOn ==
    /\ IF prevLedState # "empty"
       THEN /\ allEnabled' = TRUE
            /\ prevLedState' = "empty"
            /\ Requested(IF prevLedState = "on" THEN <<"enable", "resume">>
                                                ELSE <<"resume">>)
       ELSE Requested(<<"resume">>) /\ UNCHANGED <<allEnabled, prevLedState>>
    /\ UNCHANGED <<disableOnStartup, sourceVisible, announcement>>

(* setComponentState of the API for COMP_LEDDEVICE                         *)
ApiSwitchesLeds ==
    /\ ApiMaySwitchLeds
    /\ \E call \in {"enable", "disable"} : Requested(<<call>>)
    /\ UNCHANGED powerVars

Next ==
    \/ SourceGoes
    \/ SourceAppears
    \/ AllOff
    \/ AllOn
    \/ ApiSwitchesLeds
    \/ HandleInternalEnableState /\ UNCHANGED powerVars
    \/ DeviceStep /\ UNCHANGED powerVars

Spec == Init /\ [][Next]_vars

FairSpec == Spec /\ DeviceFairness

-----------------------------------------------------------------------------
(***************************************************************************)
(* Properties                                                              *)
(***************************************************************************)

(* What the instance shows, once it has handled the signals under way, is  *)
(* the truth: every path that switches the device on or off (nested opens, *)
(* write errors, failed black frames) announces it.                        *)
ReportConverges == LastState = isEnabled

(* A device that is ready to take frames is enabled, has its port and no   *)
(* retry timer that would open it a second time, whatever was nested.      *)
ReadyMeansWorking ==
    isDeviceReady => isEnabled /\ portOpen /\ retry = NoTimer

(* The saved states and COMP_ALL agree, so a pause can be undone and is    *)
(* saved only once; only a disabled start has COMP_ALL off with nothing    *)
(* saved.                                                                  *)
PauseCanBeUndone ==
    /\ prevLedState # "empty" => ~allEnabled
    /\ ~allEnabled => prevLedState # "empty" \/ disableOnStartup

(* Retrying ends: a retry timer counts down and stops also when opens      *)
(* fail, nest or are paused.  It goes on only while somebody goes on       *)
(* asking for the device, or its port comes and goes.                      *)
RetryEnds ==
    \/ []<>(retry = NoTimer)
    \/ []<><<TakeEnable \/ UsbMonitorFires>>_vars

(* The last call to the device, when it is "enable", is not forgotten: the *)
(* LEDs come on, or some timer keeps trying, unless a later call or the    *)
(* pause takes over.  One way out stays (WishIsKept says which): the       *)
(* device is enabled and closed, and "enable" does nothing to it.          *)
SomebodyKeepsTrying == retry # NoTimer \/ usbMonitor \/ lateEnables > 0

CutOff == isEnabled /\ ~isDeviceReady

EnableIsNotForgotten ==
    (calls # <<>> /\ calls[Len(calls)] = "enable") ~>
        \/ isDeviceReady
        \/ SomebodyKeepsTrying
        \/ calls # <<>> /\ calls[Len(calls)] # "enable"
        \/ CutOff

(* ... and step by step: once the device took an "enable" it is on and     *)
(* ready, opens, or some timer will try again, and a pause only puts that  *)
(* aside, whatever fails, nests or fires.  Two steps end it: taking a      *)
(* "disable", and the end of an older disable whose black frame waited     *)
(* while the device was enabled anew.                                      *)
Wished ==
    \/ isEnabled
    \/ SomebodyKeepsTrying
    \/ pausedRetry = "retrying"
    \/ \E i \in DOMAIN nested : nested[i] = Opening

OlderDisableCloses == FinishBlack /\ isEnabled /\ CutOff'

WishIsKept ==
    [][~CutOff /\ (TakeEnable \/ Wished)
        => (Wished' /\ ~CutOff') \/ TakeDisable \/ OlderDisableCloses]_vars

(* Nothing is under way between the instance and the device.               *)
Settled ==
    /\ calls = <<>> /\ states = <<>> /\ nested = <<>>
    /\ retry = NoTimer /\ ~usbMonitor /\ lateEnables = 0

(* "No source left -> switch LED-Device off": once everything has settled, *)
(* an instance that shows no source has its LEDs off.                      *)
NoSourceLedsOff == Settled /\ announcement = "off" => ~isEnabled

=============================================================================
