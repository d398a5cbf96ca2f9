----------------------------- MODULE LedDevice -----------------------------
(***************************************************************************)
(* An LED device on a serial port and its wrapper in the instance          *)
(* (sources/leddevice/LedDevice.cpp, LedDeviceWrapper.cpp and              *)
(* dev_serial/ProviderSerial.cpp).                                         *)
(*                                                                         *)
(* The device lives on a thread of its own.  The instance only queues      *)
(* calls to it (QUEUE_CALL), and learns its state from queued              *)
(* SignalEnableStateChanged signals.  Opening the port ends in a nested    *)
(* event loop (delayAfterConnect): while it waits, the device thread takes *)
(* further calls and timers, which may open again; nested loops end in     *)
(* the reverse order of their start.                                       *)
(*                                                                         *)
(* _isOn always equals _isEnabled (switchOn never fails on a serial        *)
(* device, and both are reset together), so one variable stands for both.  *)
(* The port may fail at every use.  Consecutive equal signals are kept     *)
(* once: the wrapper handles a repetition without effect on its state.     *)
(***************************************************************************)
EXTENDS Integers, Sequences

CONSTANTS MaxRetry,        \* reconnection attempts of one retry timer
          MaxCalls,        \* bound: calls waiting on the device thread
          MaxSignals,      \* bound: signals waiting on the instance thread
          MaxNesting,      \* bound: event loops nested on the device thread
          MaxLateEnables,  \* bound: pending two-second re-enables
          PowerOffFrames   \* NUM_POWEROFF_WRITE_BLACK

ASSUME RetryAssumption == MaxRetry \in Nat \ {0}

ASSUME BoundsAssumption ==
    /\ MaxCalls \in Nat
    /\ MaxSignals \in Nat
    /\ MaxNesting \in Nat
    /\ MaxLateEnables \in Nat

ASSUME FramesAssumption == PowerOffFrames \in Nat

VARIABLES calls,          \* the calls queued to the device thread, oldest first
          states,         \* the enable states queued to the instance
          reported,       \* what the instance shows: COMP_LEDDEVICE is enabled
          isEnabled,
          isDeviceReady,
          portOpen,       \* _serialPort->isOpen()
          retry,          \* attempts left, NoTimer without a retry timer
          pausedRetry,    \* _pauseRetryTimer
          usbMonitor,     \* the USB monitor is running
          lateEnables,    \* singleShot(2000) timers of writeBytes
          nested          \* the event loops being waited in, the innermost first

deviceVars == <<calls, states, reported, isEnabled, isDeviceReady, portOpen, retry,
                pausedRetry, usbMonitor, lateEnables, nested>>

Calls == {"enable", "disable", "pause", "resume"}
NoTimer == -1

(* What a nested event loop waits in: open, or a black frame; of a black   *)
(* frame, how many are left to be written, itself included.                *)
Opening == 0
Loops == 0 .. PowerOffFrames

DeviceTypeOK ==
    /\ calls \in Seq(Calls)
    /\ states \in Seq(BOOLEAN)
    /\ reported \in BOOLEAN
    /\ isEnabled \in BOOLEAN
    /\ isDeviceReady \in BOOLEAN
    /\ portOpen \in BOOLEAN
    /\ retry \in {NoTimer} \cup 0 .. MaxRetry
    /\ pausedRetry \in {"none", "idle", "retrying"}
    /\ usbMonitor \in BOOLEAN
    /\ lateEnables \in 0 .. MaxLateEnables
    /\ nested \in Seq(Loops)

-----------------------------------------------------------------------------
(***************************************************************************)
(* The wrapper: calls to the device, signals from it                       *)
(***************************************************************************)
Queue(new) ==
    /\ Len(calls) + Len(new) <= MaxCalls
    /\ calls' = calls \o new

(* What the instance will show once it has handled every signal.           *)
LastState == IF states = <<>> THEN reported ELSE states[Len(states)]

Emit(state) ==
    /\ Len(states) < MaxSignals
    /\ states' = IF state = LastState THEN states ELSE Append(states, state)

HandleInternalEnableState ==
    /\ states # <<>>
    /\ reported' = Head(states)
    /\ states' = Tail(states)
    /\ UNCHANGED <<calls, isEnabled, isDeviceReady, portOpen, retry, pausedRetry,
                   usbMonitor, lateEnables, nested>>

-----------------------------------------------------------------------------
(***************************************************************************)
(* The device.  The operators of this part say what becomes of             *)
(* isEnabled, isDeviceReady, portOpen, states, lateEnables, retry and      *)
(* nested; timer is the retry timer at the moment they are called.         *)
(***************************************************************************)
Enter(loop, outer) ==
    /\ Len(outer) < MaxNesting
    /\ nested' = <<loop>> \o outer

SetupRetryNever(timer) == timer
SetupRetry(timer) == IF timer = NoTimer THEN MaxRetry ELSE timer

(* close, and the announcement that follows it.                            *)
CloseAndEmit(enabled) ==
    /\ portOpen' = FALSE
    /\ isDeviceReady' = FALSE
    /\ isEnabled' = enabled
    /\ Emit(enabled)

(* setInError: the device is off, and says so.                             *)
SetInError == CloseAndEmit(FALSE)

(* open: the port cannot be opened, or it is open now and the delay of the *)
(* device has begun.                                                       *)
Open(timer) ==
    \/ /\ ~portOpen
       /\ SetInError
       /\ retry' = SetupRetry(timer)
       /\ UNCHANGED nested
    \/ /\ Enter(Opening, nested)
       /\ portOpen' = TRUE
       /\ isDeviceReady' = FALSE
       /\ retry' = timer
       /\ UNCHANGED <<isEnabled, states>>

EnableDevice(timer) ==
    IF isEnabled
    THEN /\ retry' = timer
         /\ UNCHANGED <<isEnabled, isDeviceReady, portOpen, states, nested>>
    ELSE Open(timer)

(* The delay after connecting is over: the rest of open and enableDevice.  *)
(* Whoever closed the port meanwhile made the attempt fail.                *)
FinishOpenKeepsTimer ==
    /\ nested # <<>> /\ Head(nested) = Opening
    /\ nested' = Tail(nested)
    /\ IF portOpen
       THEN /\ isDeviceReady' = TRUE
            /\ isEnabled' = TRUE
            /\ Emit(TRUE)
            /\ UNCHANGED retry
       ELSE /\ retry' = SetupRetry(retry)
            /\ UNCHANGED <<isDeviceReady, isEnabled, states>>
    /\ UNCHANGED <<calls, reported, portOpen, pausedRetry, usbMonitor, lateEnables>>

FinishOpen ==
    /\ nested # <<>> /\ Head(nested) = Opening
    /\ nested' = Tail(nested)
    /\ IF portOpen
       THEN /\ isDeviceReady' = TRUE
            /\ isEnabled' = TRUE
            /\ retry' = NoTimer
            /\ Emit(TRUE)
       ELSE /\ retry' = SetupRetry(retry)
            /\ UNCHANGED <<isDeviceReady, isEnabled, states>>
    /\ UNCHANGED <<calls, reported, portOpen, pausedRetry, usbMonitor, lateEnables>>

(* writeBytes failed: besides setInError it schedules a re-enable that     *)
(* nothing cancels.                                                        *)
ScheduleLateEnable ==
    /\ lateEnables < MaxLateEnables
    /\ lateEnables' = lateEnables + 1

(* What is left of writeBlack: so many frames, to a port that is open or   *)
(* not.  They are written, or the last one fails; or one of them finds the *)
(* port closed (it was, or a frame before failed and closed it), opens it  *)
(* and waits.  In the end disableDevice closes the port and announces the  *)
(* state the device has then.                                              *)
WriteBlack(frames, open, enabled, outer) ==
    \/ /\ open \/ frames = 0
       /\ CloseAndEmit(enabled)
       /\ nested' = outer
       /\ UNCHANGED lateEnables
    \/ /\ frames > 0
       /\ IF open THEN ScheduleLateEnable ELSE UNCHANGED lateEnables
       /\ SetInError
       /\ nested' = outer
    \/ \E left \in 1 .. frames :
          /\ Enter(left, outer)
          /\ portOpen' = TRUE
          /\ IF open THEN left < frames /\ ScheduleLateEnable
                     ELSE UNCHANGED lateEnables
          /\ isDeviceReady' = FALSE
          /\ IF left < frames
             THEN isEnabled' = FALSE /\ Emit(FALSE)
             ELSE UNCHANGED <<isEnabled, states>>

DisableDeviceUnannounced ==
    /\ isEnabled
    /\ isEnabled' = FALSE
    /\ isDeviceReady' = FALSE
    /\ portOpen' = FALSE
    /\ UNCHANGED <<states, lateEnables, nested>>

DisableDevice ==
    /\ isEnabled
    /\ IF isDeviceReady
       THEN WriteBlack(PowerOffFrames, TRUE, FALSE, nested)
       ELSE CloseAndEmit(FALSE) /\ UNCHANGED <<lateEnables, nested>>

(* The wait of a black frame is over, and the rest of disableDevice comes, *)
(* whatever became of the device meanwhile: the frame is written if the    *)
(* port is still open, and given up if somebody closed it.                 *)
FinishBlack ==
    /\ nested # <<>> /\ Head(nested) # Opening
    /\ WriteBlack(IF portOpen THEN Head(nested) ELSE Head(nested) - 1,
                  portOpen, isEnabled, Tail(nested))
    /\ UNCHANGED <<calls, reported, retry, pausedRetry, usbMonitor>>

-----------------------------------------------------------------------------
(***************************************************************************)
(* The calls, in the order they were queued                                *)
(***************************************************************************)
Take(call) ==
    /\ calls # <<>>
    /\ Head(calls) = call
    /\ calls' = Tail(calls)

TakeEnable ==
    /\ Take("enable")
    /\ pausedRetry' = "none"
    /\ EnableDevice(NoTimer)
    /\ UNCHANGED <<reported, usbMonitor, lateEnables>>

TakeDisable ==
    /\ Take("disable")
    /\ \/ DisableDevice
       \/ /\ ~isEnabled
          /\ UNCHANGED <<isEnabled, isDeviceReady, portOpen, states, lateEnables, nested>>
    /\ UNCHANGED <<reported, retry, pausedRetry, usbMonitor>>

(* pauseRetryTimer(true): a second pause keeps what the first one saved.   *)
TakePauseAgain ==
    /\ Take("pause")
    /\ pausedRetry' = IF retry # NoTimer THEN "retrying" ELSE "idle"
    /\ retry' = NoTimer
    /\ UNCHANGED <<states, reported, isEnabled, isDeviceReady, portOpen, usbMonitor,
                   lateEnables, nested>>

TakePause ==
    /\ Take("pause")
    /\ IF pausedRetry = "none"
       THEN /\ pausedRetry' = IF retry # NoTimer THEN "retrying" ELSE "idle"
            /\ retry' = NoTimer
       ELSE UNCHANGED <<pausedRetry, retry>>
    /\ UNCHANGED <<states, reported, isEnabled, isDeviceReady, portOpen, usbMonitor,
                   lateEnables, nested>>

(* pauseRetryTimer(false) *)
TakeResume ==
    /\ Take("resume")
    /\ retry' = IF pausedRetry = "retrying" /\ ~isEnabled THEN SetupRetry(retry) ELSE retry
    /\ pausedRetry' = "none"
    /\ UNCHANGED <<states, reported, isEnabled, isDeviceReady, portOpen, usbMonitor,
                   lateEnables, nested>>

-----------------------------------------------------------------------------
(***************************************************************************)
(* The timers of the device thread, and frames that cannot be written      *)
(***************************************************************************)
RetryFiresUnguarded ==
    /\ EnableDevice(retry - 1)
    /\ UNCHANGED <<calls, reported, pausedRetry, usbMonitor, lateEnables>>

RetryFiresForever ==
    /\ retry # NoTimer
    /\ EnableDevice(IF retry > 0 THEN retry - 1 ELSE MaxRetry)
    /\ UNCHANGED <<calls, reported, pausedRetry, usbMonitor, lateEnables>>

RetryFires ==
    /\ \/ /\ retry > 0
          /\ EnableDevice(retry - 1)
          /\ UNCHANGED usbMonitor
       \/ /\ retry = 0
          /\ retry' = NoTimer
          /\ usbMonitor' = TRUE
          /\ UNCHANGED <<isEnabled, isDeviceReady, portOpen, states, nested>>
    /\ UNCHANGED <<calls, reported, pausedRetry, lateEnables>>

(* A change in the list of ports makes the monitor enable the device; it   *)
(* ends at the first tick that finds the device ready.                     *)
UsbMonitorFires ==
    /\ usbMonitor
    /\ IF isDeviceReady
       THEN /\ usbMonitor' = FALSE
            /\ UNCHANGED <<isEnabled, isDeviceReady, portOpen, states, retry,
                           pausedRetry, nested>>
       ELSE /\ pausedRetry' = "none"
            /\ EnableDevice(NoTimer)
            /\ UNCHANGED usbMonitor
    /\ UNCHANGED <<calls, reported, lateEnables>>

LateEnableFires ==
    /\ lateEnables > 0
    /\ lateEnables' = lateEnables - 1
    /\ pausedRetry' = "none"
    /\ EnableDevice(NoTimer)
    /\ UNCHANGED <<calls, reported, usbMonitor>>

WriteFails ==
    /\ isEnabled
    /\ isDeviceReady
    /\ SetInError
    /\ ScheduleLateEnable
    /\ UNCHANGED <<calls, reported, retry, pausedRetry, usbMonitor, nested>>

DeviceStep ==
    \/ TakeEnable
    \/ TakeDisable
    \/ TakePause
    \/ TakeResume
    \/ FinishOpen
    \/ FinishBlack
    \/ RetryFires
    \/ UsbMonitorFires
    \/ LateEnableFires
    \/ WriteFails

(* Event loops turn and timers fire; nobody has to unplug the device.      *)
DeviceFairness ==
    /\ WF_deviceVars(TakeEnable \/ TakeDisable \/ TakePause \/ TakeResume)
    /\ WF_deviceVars(FinishOpen \/ FinishBlack)
    /\ WF_deviceVars(RetryFires)
    /\ WF_deviceVars(LateEnableFires)
    /\ WF_deviceVars(HandleInternalEnableState)

=============================================================================
