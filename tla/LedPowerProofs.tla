--------------------------- MODULE LedPowerProofs ---------------------------
(***************************************************************************)
(* Proofs about the power of the LEDs, for any number of retries and any   *)
(* bound on the queues, the nested event loops and the late re-enables.    *)
(***************************************************************************)
EXTENDS MCLedPower, SequenceTheorems, TLAPS

-----------------------------------------------------------------------------
(***************************************************************************)
(* The inductive invariant                                                 *)
(***************************************************************************)

(* What the steps of the device keep among themselves.                     *)
DeviceOK ==
    /\ DeviceTypeOK
    /\ ReportConverges
    /\ ReadyMeansWorking

PowerTypeOK ==
    /\ disableOnStartup \in BOOLEAN
    /\ allEnabled \in BOOLEAN
    /\ prevLedState \in {"empty", "off", "on"}
    /\ sourceVisible \in BOOLEAN
    /\ announcement \in {"none", "off", "on"}

IInv ==
    /\ DeviceOK
    /\ PowerTypeOK
    /\ PauseCanBeUndone

(* Nothing is under way that could switch the LEDs on.                     *)
Dormant ==
    /\ ~isEnabled
    /\ \A i \in DOMAIN calls : calls[i] # "enable"
    /\ nested = <<>>
    /\ retry = NoTimer
    /\ pausedRetry # "retrying"
    /\ ~usbMonitor
    /\ lateEnables = 0

(* After a disabled start, until somebody asks.                            *)
DormantUntilAsked ==
    disableOnStartup /\ ~asked =>
        /\ Dormant
        /\ ~allEnabled
        /\ prevLedState # "off"

Timers == {NoTimer} \cup 0 .. MaxRetry

-----------------------------------------------------------------------------
(***************************************************************************)
(* Queues, signals and nested loops                                        *)
(***************************************************************************)

(* The rest of a queue, and where its members were.                        *)
LEMMA RestOfQueue ==
    ASSUME NEW S, NEW q \in Seq(S), q # <<>>
    PROVE  /\ Head(q) \in S /\ Head(q) = q[1]
           /\ Tail(q) \in Seq(S)
           /\ Len(Tail(q)) = Len(q) - 1
           /\ \A i \in DOMAIN Tail(q) : i + 1 \in DOMAIN q /\ Tail(q)[i] = q[i + 1]
           /\ \A i \in DOMAIN q : i # 1 =>
                i - 1 \in DOMAIN Tail(q) /\ Tail(q)[i - 1] = q[i]
<1>1. Len(q) \in Nat /\ Len(q) > 0 /\ DOMAIN q = 1 .. Len(q)
  OBVIOUS
<1>2. /\ Tail(q) \in Seq(S)
      /\ Len(Tail(q)) = Len(q) - 1
      /\ \A i \in 1 .. Len(q) - 1 : Tail(q)[i] = q[i + 1]
  BY HeadTailProperties
<1>3. DOMAIN Tail(q) = 1 .. Len(q) - 1
  BY <1>1, <1>2
<1>4. Head(q) \in S /\ Head(q) = q[1]
  BY <1>1
<1>5. \A i \in DOMAIN Tail(q) : i + 1 \in DOMAIN q /\ Tail(q)[i] = q[i + 1]
  BY <1>1, <1>2, <1>3
<1>6. ASSUME NEW i \in DOMAIN q, i # 1
      PROVE  i - 1 \in DOMAIN Tail(q) /\ Tail(q)[i - 1] = q[i]
  <2>1. i - 1 \in 1 .. Len(q) - 1 /\ (i - 1) + 1 = i
    BY <1>1, <1>6
  <2>2. QED
    BY <2>1, <1>2, <1>3
<1>7. QED
  BY <1>2, <1>4, <1>5, <1>6

(* What is queued to the device.                                           *)
LEMMA QueueOK ==
    ASSUME calls \in Seq(Calls), NEW new \in Seq(Calls), Queue(new)
    PROVE  /\ calls' \in Seq(Calls)
           /\ /\ \A i \in DOMAIN calls : calls[i] # "enable"
              /\ \A i \in DOMAIN new : new[i] # "enable"
              => \A i \in DOMAIN calls' : calls'[i] # "enable"
<1>1. calls' = calls \o new /\ calls' \in Seq(Calls)
  BY ConcatProperties DEF Queue
<1>2. /\ Len(calls) \in Nat /\ DOMAIN calls = 1 .. Len(calls)
      /\ Len(new) \in Nat /\ DOMAIN new = 1 .. Len(new)
      /\ DOMAIN calls' = 1 .. Len(calls) + Len(new)
      /\ \A i \in 1 .. Len(calls) + Len(new) :
           calls'[i] = IF i <= Len(calls) THEN calls[i] ELSE new[i - Len(calls)]
  BY <1>1, ConcatProperties
<1>3. ASSUME \A i \in DOMAIN calls : calls[i] # "enable",
             \A i \in DOMAIN new : new[i] # "enable",
             NEW i \in DOMAIN calls'
      PROVE  calls'[i] # "enable"
  <2>1. CASE i <= Len(calls)
    BY <1>2, <1>3, <2>1
  <2>2. CASE ~(i <= Len(calls))
    <3>1. i - Len(calls) \in DOMAIN new
      BY <1>2, <2>2
    <3>2. QED
      BY <1>2, <1>3, <2>2, <3>1
  <2>3. QED
    BY <2>1, <2>2
<1>4. QED
  BY <1>1, <1>3

(* A call that is taken leaves calls, and no "enable" where there was none.*)
LEMMA TakeOK ==
    ASSUME calls \in Seq(Calls), NEW call, Take(call)
    PROVE  /\ calls' \in Seq(Calls)
           /\ (\A i \in DOMAIN calls : calls[i] # "enable") =>
                /\ call # "enable"
                /\ \A i \in DOMAIN calls' : calls'[i] # "enable"
<1>1. calls # <<>> /\ Head(calls) = call /\ calls' = Tail(calls)
  BY DEF Take
<1>2. 1 \in DOMAIN calls
  BY <1>1
<1>3. QED
  BY <1>1, <1>2, RestOfQueue

(* Whatever is announced, it is what the instance will show in the end.    *)
LEMMA EmitOK ==
    ASSUME states \in Seq(BOOLEAN), reported \in BOOLEAN, UNCHANGED reported,
           NEW state \in BOOLEAN, Emit(state)
    PROVE  states' \in Seq(BOOLEAN) /\ LastState' = state
<1>1. CASE state = LastState
  <2>1. states' = states
    BY <1>1 DEF Emit
  <2>2. QED
    BY <1>1, <2>1 DEF LastState
<1>2. CASE state # LastState
  <2>1. states' = Append(states, state)
    BY <1>2 DEF Emit
  <2>2. /\ states' \in Seq(BOOLEAN)
        /\ states' # <<>>
        /\ states'[Len(states')] = state
    BY <2>1, AppendProperties
  <2>3. QED
    BY <2>2 DEF LastState
<1>3. QED
  BY <1>1, <1>2

(* Handling a signal does not change that.                                 *)
LEMMA HandleSignalOK ==
    ASSUME states \in Seq(BOOLEAN), HandleInternalEnableState
    PROVE  /\ states' \in Seq(BOOLEAN)
           /\ reported' \in BOOLEAN
           /\ LastState' = LastState
<1>1. states # <<>> /\ reported' = Head(states) /\ states' = Tail(states)
  BY DEF HandleInternalEnableState
<1>2. Len(states) \in Nat \ {0} /\ DOMAIN states = 1 .. Len(states)
  BY <1>1
<1>3. states' \in Seq(BOOLEAN) /\ reported' \in BOOLEAN /\ Len(states') = Len(states) - 1
  BY <1>1, RestOfQueue
<1>4. CASE Len(states) = 1
  <2>1. states' = <<>>
    BY <1>2, <1>3, <1>4, EmptySeq
  <2>2. reported' = states[Len(states)]
    BY <1>1, <1>4, RestOfQueue
  <2>3. QED
    BY <1>1, <1>3, <2>1, <2>2 DEF LastState
<1>5. CASE Len(states) # 1
  <2>1. states' # <<>>
    BY <1>2, <1>3, <1>5, EmptySeq
  <2>2. Len(states) \in DOMAIN states
    BY <1>2
  <2>3. Tail(states)[Len(states) - 1] = states[Len(states)]
    BY <1>1, <1>5, <2>2, RestOfQueue
  <2>4. QED
    BY <1>1, <1>3, <2>1, <2>3 DEF LastState
<1>6. QED
  BY <1>3, <1>4, <1>5

(* Who waits in the nested event loops.                                    *)
Opens(loops) == \E i \in DOMAIN loops : loops[i] = Opening
Blacks(loops) == \E i \in DOMAIN loops : loops[i] # Opening

OpenWaits == Opens(nested)
BlackWaits == Blacks(nested)

(* An event loop that begins is the innermost one.                         *)
LEMMA EnterOK ==
    ASSUME NEW outer \in Seq(Loops), NEW loop \in Loops, Enter(loop, outer)
    PROVE  /\ nested' \in Seq(Loops)
           /\ Opens(nested') <=> loop = Opening \/ Opens(outer)
           /\ loop # Opening => Blacks(nested')
<1>1. nested' = <<loop>> \o outer
  BY DEF Enter
<1>2. <<loop>> \in Seq(Loops) /\ Len(<<loop>>) = 1 /\ <<loop>>[1] = loop
  OBVIOUS
<1>3. /\ nested' \in Seq(Loops)
      /\ Len(nested') = 1 + Len(outer)
      /\ \A i \in 1 .. 1 + Len(outer) :
           nested'[i] = IF i <= 1 THEN <<loop>>[i] ELSE outer[i - 1]
  BY <1>1, <1>2, ConcatProperties
<1>4. Len(outer) \in Nat /\ DOMAIN outer = 1 .. Len(outer)
      /\ DOMAIN nested' = 1 .. 1 + Len(outer)
  BY <1>3
<1>5. 1 \in DOMAIN nested' /\ nested'[1] = loop
  BY <1>2, <1>3, <1>4
<1>6. ASSUME NEW i \in DOMAIN outer
      PROVE  i + 1 \in DOMAIN nested' /\ nested'[i + 1] = outer[i]
  <2>1. i + 1 \in DOMAIN nested' /\ ~(i + 1 <= 1) /\ (i + 1) - 1 = i
    BY <1>4
  <2>2. QED
    BY <1>3, <1>4, <2>1
<1>7. ASSUME NEW i \in DOMAIN nested', i # 1
      PROVE  i - 1 \in DOMAIN outer /\ nested'[i] = outer[i - 1]
  <2>1. i - 1 \in DOMAIN outer /\ ~(i <= 1) /\ i \in 1 .. 1 + Len(outer)
    BY <1>4, <1>7
  <2>2. QED
    BY <1>3, <2>1
<1>8. Opens(outer) => Opens(nested')
  BY <1>6 DEF Opens
<1>9. Opens(nested') => loop = Opening \/ Opens(outer)
  BY <1>5, <1>7 DEF Opens
<1>10. QED
  BY <1>3, <1>5, <1>8, <1>9 DEF Opens, Blacks

(* The end of the innermost loop leaves the others.                        *)
LEMMA LeaveOK ==
    ASSUME nested \in Seq(Loops), nested # <<>>
    PROVE  /\ Head(nested) \in Loops
           /\ Tail(nested) \in Seq(Loops)
           /\ Head(nested) # Opening => (Opens(nested) <=> Opens(Tail(nested)))
           /\ Head(nested) = Opening => OpenWaits
<1>1. /\ Head(nested) \in Loops /\ Head(nested) = nested[1]
      /\ Tail(nested) \in Seq(Loops)
      /\ \A i \in DOMAIN Tail(nested) :
           i + 1 \in DOMAIN nested /\ Tail(nested)[i] = nested[i + 1]
      /\ \A i \in DOMAIN nested : i # 1 =>
           i - 1 \in DOMAIN Tail(nested) /\ Tail(nested)[i - 1] = nested[i]
  BY RestOfQueue
<1>2. 1 \in DOMAIN nested
  OBVIOUS
<1>3. QED
  BY <1>1, <1>2 DEF Opens, OpenWaits

-----------------------------------------------------------------------------
(***************************************************************************)
(* The device: opening, failing, closing                                   *)
(***************************************************************************)

(* Nobody else touches the pauses, the monitor and the announcements.      *)
LEMMA OpenOK ==
    ASSUME DeviceOK, ~isEnabled, NEW timer \in Timers, Open(timer), UNCHANGED reported
    PROVE  /\ states' \in Seq(BOOLEAN)
           /\ isEnabled' = FALSE
           /\ isDeviceReady' = FALSE
           /\ portOpen' \in BOOLEAN
           /\ retry' \in Timers
           /\ nested' \in Seq(Loops)
           /\ LastState' = FALSE
           /\ retry' # NoTimer \/ OpenWaits'
<1>0. /\ states \in Seq(BOOLEAN) /\ reported \in BOOLEAN /\ isEnabled \in BOOLEAN
      /\ nested \in Seq(Loops)
      /\ LastState = isEnabled
  BY DEF DeviceOK, DeviceTypeOK, ReportConverges
<1>1. CASE /\ ~portOpen
           /\ SetInError
           /\ retry' = SetupRetry(timer)
           /\ UNCHANGED nested
  <2>1. states' \in Seq(BOOLEAN) /\ LastState' = FALSE
    BY <1>0, <1>1, EmitOK DEF SetInError, CloseAndEmit
  <2>2. retry' \in Timers /\ retry' # NoTimer
    BY <1>1, RetryAssumption DEF SetupRetry, Timers, NoTimer
  <2>3. /\ isEnabled' = FALSE /\ isDeviceReady' = FALSE /\ portOpen' = FALSE
        /\ nested' \in Seq(Loops)
    BY <1>0, <1>1 DEF SetInError, CloseAndEmit
  <2>4. QED
    BY <2>1, <2>2, <2>3
<1>2. CASE /\ Enter(Opening, nested)
           /\ portOpen' = TRUE
           /\ isDeviceReady' = FALSE
           /\ retry' = timer
           /\ UNCHANGED <<isEnabled, states>>
  <2>1. nested' \in Seq(Loops) /\ OpenWaits'
    <3>1. Opening \in Loops
      BY FramesAssumption DEF Opening, Loops
    <3>2. QED
      BY <1>0, <1>2, <3>1, EnterOK DEF OpenWaits
  <2>2. LastState' = LastState
    BY <1>2 DEF LastState
  <2>3. QED
    BY <1>0, <1>2, <2>1, <2>2
<1>3. QED
  BY <1>1, <1>2 DEF Open

(* What every step of the device leaves behind.                            *)
Truthful ==
    /\ states' \in Seq(BOOLEAN)
    /\ isEnabled' \in BOOLEAN
    /\ isDeviceReady' \in BOOLEAN
    /\ portOpen' \in BOOLEAN
    /\ retry' \in Timers
    /\ nested' \in Seq(Loops)
    /\ LastState' = isEnabled'
    /\ isDeviceReady' => isEnabled' /\ portOpen' /\ retry' = NoTimer

LEMMA TruthfulIsOK ==
    ASSUME Truthful, calls' \in Seq(Calls), reported' \in BOOLEAN,
           pausedRetry' \in {"none", "idle", "retrying"}, usbMonitor' \in BOOLEAN,
           lateEnables' \in 0 .. MaxLateEnables
    PROVE  DeviceOK'
BY DEF Truthful, DeviceOK, DeviceTypeOK, ReportConverges, ReadyMeansWorking, Timers

(* ... and so is a step that leaves all this alone.                        *)
LEMMA UntouchedIsTruthful ==
    ASSUME DeviceOK,
           UNCHANGED <<states, reported, isEnabled, isDeviceReady, portOpen, nested>>,
           retry' \in Timers, isDeviceReady => retry' = NoTimer
    PROVE  Truthful
<1>1. LastState' = LastState
  BY DEF LastState
<1>2. QED
  BY <1>1 DEF Truthful, DeviceOK, DeviceTypeOK, ReportConverges, ReadyMeansWorking, Timers

LEMMA EnableDeviceOK ==
    ASSUME DeviceOK, NEW timer \in Timers, isDeviceReady => timer = NoTimer,
           EnableDevice(timer), UNCHANGED reported
    PROVE  /\ Truthful
           /\ isEnabled' \/ retry' # NoTimer \/ OpenWaits'
<1>1. CASE isEnabled
  <2>1. retry' = timer
        /\ UNCHANGED <<isEnabled, isDeviceReady, portOpen, states, nested>>
    BY <1>1 DEF EnableDevice
  <2>2. QED
    BY <1>1, <2>1, UntouchedIsTruthful
<1>2. CASE ~isEnabled
  <2>1. Open(timer)
    BY <1>2 DEF EnableDevice
  <2>2. QED
    BY <1>2, <2>1, OpenOK DEF Truthful
<1>3. QED
  BY <1>1, <1>2

LEMMA ScheduleOK ==
    ASSUME DeviceOK, ScheduleLateEnable
    PROVE  lateEnables' \in 0 .. MaxLateEnables /\ lateEnables' > 0
BY BoundsAssumption DEF ScheduleLateEnable, DeviceOK, DeviceTypeOK

LEMMA CloseAndEmitOK ==
    ASSUME DeviceOK, NEW enabled \in BOOLEAN, CloseAndEmit(enabled),
           UNCHANGED <<reported, retry>>, nested' \in Seq(Loops)
    PROVE  Truthful
<1>1. states \in Seq(BOOLEAN) /\ reported \in BOOLEAN /\ retry \in Timers
  BY DEF DeviceOK, DeviceTypeOK, Timers
<1>2. states' \in Seq(BOOLEAN) /\ LastState' = enabled
  BY <1>1, EmitOK DEF CloseAndEmit
<1>3. QED
  BY <1>1, <1>2 DEF CloseAndEmit, Truthful

(* The rest of a writeBlack: it never makes the device ready or enables    *)
(* it, leaves the port open only where it waits again, and drops a device  *)
(* that was enabled with an open port only for a late enable.              *)
LEMMA WriteBlackOK ==
    ASSUME DeviceOK, NEW frames \in 0 .. PowerOffFrames, NEW open \in BOOLEAN,
           NEW enabled \in BOOLEAN, NEW outer \in Seq(Loops),
           WriteBlack(frames, open, enabled, outer), UNCHANGED <<reported, retry>>
    PROVE  /\ Truthful
           /\ lateEnables' \in 0 .. MaxLateEnables
           /\ lateEnables' = lateEnables \/ lateEnables' > lateEnables
           /\ OpenWaits' <=> Opens(outer)
           /\ portOpen' => BlackWaits'
           /\ isDeviceReady' = FALSE
           /\ isEnabled' => enabled \/ (isEnabled /\ ~open)
           /\ enabled /\ open => isEnabled' \/ lateEnables' > 0
<1>0. /\ states \in Seq(BOOLEAN) /\ reported \in BOOLEAN /\ retry \in Timers
      /\ isEnabled \in BOOLEAN /\ lateEnables \in 0 .. MaxLateEnables
      /\ LastState = isEnabled
  BY DEF DeviceOK, DeviceTypeOK, Timers, ReportConverges
<1>1. ScheduleLateEnable => /\ lateEnables' \in 0 .. MaxLateEnables
                            /\ lateEnables' > lateEnables /\ lateEnables' > 0
  BY <1>0, BoundsAssumption DEF ScheduleLateEnable
<1>2. CASE /\ CloseAndEmit(enabled)
           /\ nested' = outer
           /\ UNCHANGED lateEnables
  <2>1. Truthful
    BY <1>2, CloseAndEmitOK
  <2>2. QED
    BY <1>0, <1>2, <2>1 DEF CloseAndEmit, OpenWaits
<1>3. CASE /\ frames > 0
           /\ IF open THEN ScheduleLateEnable ELSE UNCHANGED lateEnables
           /\ SetInError
           /\ nested' = outer
  <2>1. Truthful
    BY <1>3, CloseAndEmitOK DEF SetInError
  <2>2. QED
    BY <1>0, <1>1, <1>3, <2>1 DEF SetInError, CloseAndEmit, OpenWaits
<1>4. ASSUME NEW left \in 1 .. frames,
             /\ Enter(left, outer)
             /\ portOpen' = TRUE
             /\ IF open THEN left < frames /\ ScheduleLateEnable
                        ELSE UNCHANGED lateEnables
             /\ isDeviceReady' = FALSE
             /\ IF left < frames
                THEN isEnabled' = FALSE /\ Emit(FALSE)
                ELSE UNCHANGED <<isEnabled, states>>
      PROVE  /\ Truthful
             /\ lateEnables' \in 0 .. MaxLateEnables
             /\ lateEnables' = lateEnables \/ lateEnables' > lateEnables
             /\ OpenWaits' <=> Opens(outer)
             /\ portOpen' => BlackWaits'
             /\ isDeviceReady' = FALSE
             /\ isEnabled' => enabled \/ (isEnabled /\ ~open)
             /\ enabled /\ open => isEnabled' \/ lateEnables' > 0
  <2>1. left \in Loops /\ left # Opening
    BY FramesAssumption DEF Loops, Opening
  <2>2. nested' \in Seq(Loops) /\ (OpenWaits' <=> Opens(outer)) /\ BlackWaits'
    BY <1>4, <2>1, EnterOK DEF OpenWaits, BlackWaits
  <2>3. /\ states' \in Seq(BOOLEAN) /\ LastState' = isEnabled' /\ isEnabled' \in BOOLEAN
        /\ isEnabled' => isEnabled /\ ~open
    <3>1. CASE left < frames
      BY <1>0, <1>4, <3>1, EmitOK
    <3>2. CASE ~(left < frames)
      BY <1>0, <1>4, <3>2 DEF LastState
    <3>3. QED
      BY <3>1, <3>2
  <2>4. Truthful
    BY <1>0, <1>4, <2>2, <2>3 DEF Truthful
  <2>5. QED
    BY <1>0, <1>1, <1>4, <2>2, <2>3, <2>4
<1>5. QED
  BY <1>2, <1>3, <1>4 DEF WriteBlack

(* A disable that closes the port, or goes on waiting in a black frame.    *)
LEMMA DisableDeviceOK ==
    ASSUME DeviceOK, DisableDevice, UNCHANGED <<reported, retry>>
    PROVE  /\ Truthful /\ lateEnables' \in 0 .. MaxLateEnables
           /\ isEnabled' = FALSE
           /\ portOpen' => BlackWaits'
<1>1. /\ nested \in Seq(Loops) /\ lateEnables \in 0 .. MaxLateEnables
      /\ PowerOffFrames \in 0 .. PowerOffFrames
  BY FramesAssumption DEF DeviceOK, DeviceTypeOK
<1>2. CASE isDeviceReady
  <2>1. WriteBlack(PowerOffFrames, TRUE, FALSE, nested)
    BY <1>2 DEF DisableDevice
  <2>2. QED
    BY <1>1, <2>1, WriteBlackOK DEF Truthful
<1>3. CASE ~isDeviceReady
  <2>1. CloseAndEmit(FALSE) /\ UNCHANGED <<lateEnables, nested>>
    BY <1>3 DEF DisableDevice
  <2>2. Truthful
    BY <1>1, <2>1, CloseAndEmitOK
  <2>3. QED
    BY <1>1, <2>1, <2>2 DEF CloseAndEmit
<1>4. QED
  BY <1>2, <1>3

-----------------------------------------------------------------------------
(***************************************************************************)
(* The calls                                                               *)
(***************************************************************************)
LEMMA TypesOfDevice ==
    ASSUME DeviceOK
    PROVE  /\ calls \in Seq(Calls) /\ states \in Seq(BOOLEAN) /\ nested \in Seq(Loops)
           /\ reported \in BOOLEAN /\ isEnabled \in BOOLEAN /\ usbMonitor \in BOOLEAN
           /\ isDeviceReady \in BOOLEAN /\ portOpen \in BOOLEAN
           /\ retry \in Timers
           /\ pausedRetry \in {"none", "idle", "retrying"}
           /\ lateEnables \in 0 .. MaxLateEnables
           /\ isDeviceReady => isEnabled /\ portOpen /\ retry = NoTimer
BY DEF DeviceOK, DeviceTypeOK, ReadyMeansWorking, Timers

LEMMA TakeEnableOK ==
    ASSUME DeviceOK, TakeEnable
    PROVE  DeviceOK' /\ Wished'
<1>1. Truthful /\ (isEnabled' \/ retry' # NoTimer \/ OpenWaits')
  BY EnableDeviceOK DEF TakeEnable, Timers
<1>2. calls' \in Seq(Calls)
  BY TypesOfDevice, TakeOK DEF TakeEnable
<1>3. DeviceOK'
  BY <1>1, <1>2, TypesOfDevice, TruthfulIsOK DEF TakeEnable
<1>4. QED
  BY <1>1, <1>3 DEF Wished, SomebodyKeepsTrying, OpenWaits, Opens

LEMMA TakeDisableOK ==
    ASSUME DeviceOK, TakeDisable
    PROVE  DeviceOK'
<1>1. calls' \in Seq(Calls)
  BY TypesOfDevice, TakeOK DEF TakeDisable
<1>2. Truthful /\ lateEnables' \in 0 .. MaxLateEnables
  <2>1. CASE DisableDevice
    BY <2>1, DisableDeviceOK DEF TakeDisable
  <2>2. CASE UNCHANGED <<isEnabled, isDeviceReady, portOpen, states, lateEnables, nested>>
    BY <2>2, TypesOfDevice, UntouchedIsTruthful DEF TakeDisable
  <2>3. QED
    BY <2>1, <2>2 DEF TakeDisable
<1>3. QED
  BY <1>1, <1>2, TypesOfDevice, TruthfulIsOK DEF TakeDisable

LEMMA TakePauseOK ==
    ASSUME DeviceOK, TakePause
    PROVE  DeviceOK' /\ (Wished => Wished')
<1>1. calls' \in Seq(Calls)
  BY TypesOfDevice, TakeOK DEF TakePause
<1>2. /\ pausedRetry' \in {"none", "idle", "retrying"}
      /\ retry' \in Timers
      /\ isDeviceReady => retry' = NoTimer
      /\ retry # NoTimer \/ pausedRetry = "retrying" =>
           retry' # NoTimer \/ pausedRetry' = "retrying"
  BY TypesOfDevice DEF TakePause, Timers
<1>3. Truthful
  BY <1>2, UntouchedIsTruthful DEF TakePause
<1>4. DeviceOK'
  BY <1>1, <1>2, <1>3, TypesOfDevice, TruthfulIsOK DEF TakePause
<1>5. QED
  BY <1>2, <1>4 DEF Wished, SomebodyKeepsTrying, TakePause

LEMMA TakeResumeOK ==
    ASSUME DeviceOK, TakeResume
    PROVE  DeviceOK' /\ (Wished => Wished')
<1>1. calls' \in Seq(Calls)
  BY TypesOfDevice, TakeOK DEF TakeResume
<1>2. /\ pausedRetry' = "none"
      /\ retry' \in Timers
      /\ isDeviceReady => retry' = NoTimer
      /\ retry # NoTimer \/ pausedRetry = "retrying" => isEnabled \/ retry' # NoTimer
  BY TypesOfDevice, RetryAssumption DEF TakeResume, SetupRetry, Timers, NoTimer
<1>3. Truthful
  BY <1>2, UntouchedIsTruthful DEF TakeResume
<1>4. DeviceOK'
  BY <1>1, <1>2, <1>3, TypesOfDevice, TruthfulIsOK DEF TakeResume
<1>5. QED
  BY <1>2, <1>4 DEF Wished, SomebodyKeepsTrying, TakeResume

-----------------------------------------------------------------------------
(***************************************************************************)
(* The ends of nested loops                                                *)
(***************************************************************************)
LEMMA FinishOpenOK ==
    ASSUME DeviceOK, FinishOpen
    PROVE  DeviceOK' /\ Wished'
<1>1. nested' \in Seq(Loops)
  BY TypesOfDevice, LeaveOK DEF FinishOpen
<1>2. CASE portOpen
  <2>1. /\ isDeviceReady' = TRUE /\ isEnabled' = TRUE /\ retry' = NoTimer
        /\ Emit(TRUE) /\ UNCHANGED <<reported, portOpen>>
    BY <1>2 DEF FinishOpen
  <2>2. states' \in Seq(BOOLEAN) /\ LastState' = TRUE
    BY <2>1, TypesOfDevice, EmitOK
  <2>3. Truthful
    BY <1>1, <1>2, <2>1, <2>2 DEF Truthful, Timers
  <2>4. QED
    BY <2>1, <2>3, TypesOfDevice, TruthfulIsOK DEF FinishOpen, Wished
<1>3. CASE ~portOpen
  <2>1. /\ retry' = SetupRetry(retry)
        /\ UNCHANGED <<isDeviceReady, isEnabled, states, reported, portOpen>>
    BY <1>3 DEF FinishOpen
  <2>2. retry' \in Timers /\ retry' # NoTimer
    BY <2>1, TypesOfDevice, RetryAssumption DEF SetupRetry, Timers, NoTimer
  <2>3. ~isDeviceReady /\ isEnabled = LastState /\ LastState' = LastState
    BY <1>3, <2>1, TypesOfDevice DEF DeviceOK, ReportConverges, LastState
  <2>4. Truthful
    BY <1>1, <2>1, <2>2, <2>3, TypesOfDevice DEF Truthful
  <2>5. QED
    BY <2>2, <2>4, TypesOfDevice, TruthfulIsOK
    DEF FinishOpen, Wished, SomebodyKeepsTrying
<1>4. QED
  BY <1>2, <1>3

(* After its end a black frame wants nothing but a late enable.            *)
LEMMA FinishBlackOK ==
    ASSUME DeviceOK, FinishBlack
    PROVE  /\ DeviceOK'
           /\ Wished /\ ~CutOff => Wished'
           /\ Wished' => Wished \/ lateEnables' > lateEnables
           /\ portOpen' => BlackWaits'
           /\ CutOff' => isEnabled
<1> DEFINE frames == IF portOpen THEN Head(nested) ELSE Head(nested) - 1
<1>1. /\ nested # <<>> /\ Head(nested) # Opening
      /\ WriteBlack(frames, portOpen, isEnabled, Tail(nested))
      /\ UNCHANGED <<calls, reported, retry, pausedRetry, usbMonitor>>
  BY DEF FinishBlack
<1>2. /\ Head(nested) \in Loops /\ Tail(nested) \in Seq(Loops)
      /\ OpenWaits <=> Opens(Tail(nested))
  BY <1>1, TypesOfDevice, LeaveOK DEF OpenWaits
<1>3. frames \in 0 .. PowerOffFrames
  BY <1>1, <1>2, FramesAssumption DEF Loops, Opening
<1> HIDE DEF frames
<1>4. /\ Truthful
      /\ lateEnables' \in 0 .. MaxLateEnables
      /\ lateEnables' = lateEnables \/ lateEnables' > lateEnables
      /\ OpenWaits' <=> Opens(Tail(nested))
      /\ portOpen' => BlackWaits'
      /\ isEnabled' => isEnabled
      /\ isEnabled /\ portOpen => isEnabled' \/ lateEnables' > 0
  BY <1>1, <1>2, <1>3, TypesOfDevice, WriteBlackOK
<1>5. DeviceOK'
  BY <1>1, <1>4, TypesOfDevice, TruthfulIsOK
<1>6. isEnabled /\ ~CutOff => isEnabled' \/ lateEnables' > 0
  BY <1>4, TypesOfDevice DEF CutOff
<1>7. lateEnables > 0 => lateEnables' > 0
  BY <1>4, TypesOfDevice
<1>8. Wished /\ ~CutOff => Wished'
  BY <1>1, <1>2, <1>4, <1>6, <1>7 DEF Wished, SomebodyKeepsTrying, OpenWaits, Opens
<1>9. Wished' => Wished \/ lateEnables' > lateEnables
  BY <1>1, <1>2, <1>4 DEF Wished, SomebodyKeepsTrying, OpenWaits, Opens
<1>10. QED
  BY <1>4, <1>5, <1>8, <1>9 DEF CutOff

-----------------------------------------------------------------------------
(***************************************************************************)
(* The timers, and frames that fail                                        *)
(***************************************************************************)
LEMMA RetryFiresOK ==
    ASSUME DeviceOK, RetryFires
    PROVE  DeviceOK' /\ Wished'
<1>0. UNCHANGED <<calls, reported, pausedRetry, lateEnables>>
  BY DEF RetryFires
<1>1. CASE retry > 0 /\ EnableDevice(retry - 1) /\ UNCHANGED usbMonitor
  <2>1. retry - 1 \in Timers /\ ~isDeviceReady
    BY <1>1, TypesOfDevice, RetryAssumption DEF Timers, NoTimer
  <2>2. Truthful /\ (isEnabled' \/ retry' # NoTimer \/ OpenWaits')
    BY <1>0, <1>1, <2>1, EnableDeviceOK
  <2>3. DeviceOK'
    BY <1>0, <1>1, <2>2, TypesOfDevice, TruthfulIsOK
  <2>4. QED
    BY <2>2, <2>3 DEF Wished, SomebodyKeepsTrying, OpenWaits, Opens
<1>2. CASE /\ retry = 0
           /\ retry' = NoTimer
           /\ usbMonitor' = TRUE
           /\ UNCHANGED <<isEnabled, isDeviceReady, portOpen, states, nested>>
  <2>1. Truthful
    BY <1>0, <1>2, UntouchedIsTruthful DEF Timers
  <2>2. DeviceOK'
    BY <1>0, <1>2, <2>1, TypesOfDevice, TruthfulIsOK
  <2>3. QED
    BY <1>2, <2>2 DEF Wished, SomebodyKeepsTrying
<1>3. QED
  BY <1>1, <1>2 DEF RetryFires

LEMMA UsbMonitorFiresOK ==
    ASSUME DeviceOK, UsbMonitorFires
    PROVE  DeviceOK' /\ Wished'
<1>0. usbMonitor /\ UNCHANGED <<calls, reported, lateEnables>>
  BY DEF UsbMonitorFires
<1>1. CASE isDeviceReady
  <2>1. /\ usbMonitor' = FALSE
        /\ UNCHANGED <<isEnabled, isDeviceReady, portOpen, states, retry,
                        pausedRetry, nested>>
    BY <1>1 DEF UsbMonitorFires
  <2>2. Truthful
    BY <1>0, <2>1, TypesOfDevice, UntouchedIsTruthful
  <2>3. DeviceOK'
    BY <1>0, <2>1, <2>2, TypesOfDevice, TruthfulIsOK
  <2>4. QED
    BY <1>1, <2>1, <2>3, TypesOfDevice DEF Wished
<1>2. CASE ~isDeviceReady
  <2>1. pausedRetry' = "none" /\ EnableDevice(NoTimer) /\ UNCHANGED usbMonitor
    BY <1>2 DEF UsbMonitorFires
  <2>2. Truthful
    BY <1>0, <2>1, EnableDeviceOK DEF Timers
  <2>3. DeviceOK'
    BY <1>0, <2>1, <2>2, TypesOfDevice, TruthfulIsOK
  <2>4. QED
    BY <1>0, <2>1, <2>3 DEF Wished, SomebodyKeepsTrying
<1>3. QED
  BY <1>1, <1>2

LEMMA LateEnableFiresOK ==
    ASSUME DeviceOK, LateEnableFires
    PROVE  DeviceOK' /\ Wished'
<1>1. Truthful /\ (isEnabled' \/ retry' # NoTimer \/ OpenWaits')
  BY EnableDeviceOK DEF LateEnableFires, Timers
<1>2. lateEnables' \in 0 .. MaxLateEnables
  BY TypesOfDevice, BoundsAssumption DEF LateEnableFires
<1>3. DeviceOK'
  BY <1>1, <1>2, TypesOfDevice, TruthfulIsOK DEF LateEnableFires
<1>4. QED
  BY <1>1, <1>3 DEF Wished, SomebodyKeepsTrying, OpenWaits, Opens

LEMMA WriteFailsOK ==
    ASSUME DeviceOK, WriteFails
    PROVE  DeviceOK' /\ Wished'
<1>1. Truthful
  BY TypesOfDevice, CloseAndEmitOK DEF WriteFails, SetInError
<1>2. lateEnables' \in 0 .. MaxLateEnables /\ lateEnables' > 0
  BY ScheduleOK DEF WriteFails
<1>3. DeviceOK'
  BY <1>1, <1>2, TypesOfDevice, TruthfulIsOK DEF WriteFails
<1>4. QED
  BY <1>2, <1>3 DEF Wished, SomebodyKeepsTrying

(* All of them together.                                                   *)
LEMMA DeviceStepOK ==
    ASSUME DeviceOK, DeviceStep
    PROVE  DeviceOK' /\ (Wished /\ ~TakeDisable /\ ~(FinishBlack /\ CutOff) => Wished')
BY TakeEnableOK, TakeDisableOK, TakePauseOK, TakeResumeOK, FinishOpenOK, FinishBlackOK,
   RetryFiresOK, UsbMonitorFiresOK, LateEnableFiresOK, WriteFailsOK DEF DeviceStep

(* Only a black frame of an older disable closes the port under a device   *)
(* that stays enabled.                                                     *)
LEMMA EnableDoesNotCutOff ==
    ASSUME NEW timer, EnableDevice(timer), CutOff'
    PROVE  CutOff
<1>1. CASE isEnabled
  BY <1>1 DEF EnableDevice, CutOff
<1>2. CASE ~isEnabled
  BY <1>2 DEF EnableDevice, Open, SetInError, CloseAndEmit, CutOff
<1>3. QED
  BY <1>1, <1>2

LEMMA CutOffByBlack ==
    ASSUME DeviceOK, DeviceStep, CutOff'
    PROVE  CutOff \/ OlderDisableCloses
<1>1. CASE TakeEnable \/ LateEnableFires
  BY <1>1, EnableDoesNotCutOff DEF TakeEnable, LateEnableFires
<1>2. CASE TakeDisable
  <2>1. UNCHANGED <<reported, retry>> /\ (DisableDevice \/ UNCHANGED <<isEnabled, isDeviceReady>>)
    BY <1>2 DEF TakeDisable
  <2>2. QED
    BY <2>1, DisableDeviceOK DEF CutOff
<1>3. CASE TakePause \/ TakeResume
  BY <1>3 DEF TakePause, TakeResume, CutOff
<1>4. CASE FinishOpen
  BY <1>4 DEF FinishOpen, CutOff
<1>5. CASE FinishBlack
  BY <1>5, FinishBlackOK DEF OlderDisableCloses
<1>6. CASE RetryFires
  BY <1>6, EnableDoesNotCutOff DEF RetryFires, CutOff
<1>7. CASE UsbMonitorFires
  BY <1>7, EnableDoesNotCutOff DEF UsbMonitorFires, CutOff
<1>8. CASE WriteFails
  BY <1>8 DEF WriteFails, SetInError, CloseAndEmit, CutOff
<1>9. QED
  BY <1>1, <1>2, <1>3, <1>4, <1>5, <1>6, <1>7, <1>8 DEF DeviceStep

-----------------------------------------------------------------------------
(***************************************************************************)
(* Those who ask                                                           *)
(***************************************************************************)

(* A request changes the queue of calls and nothing of the device.         *)
LEMMA RequestedOK ==
    ASSUME DeviceOK, NEW new \in Seq(Calls), Requested(new)
    PROVE  /\ DeviceOK'
           /\ Wished => Wished'
           /\ Dormant /\ (\A i \in DOMAIN new : new[i] # "enable") => Dormant'
<1>1. Queue(new)
      /\ UNCHANGED <<states, reported, isEnabled, isDeviceReady, portOpen, retry,
                     pausedRetry, usbMonitor, lateEnables, nested>>
  BY DEF Requested
<1>2. calls' \in Seq(Calls)
  BY <1>1, TypesOfDevice, QueueOK
<1>3. Truthful
  BY <1>1, TypesOfDevice, UntouchedIsTruthful
<1>4. DeviceOK'
  BY <1>1, <1>2, <1>3, TypesOfDevice, TruthfulIsOK
<1>5. Wished => Wished'
  BY <1>1 DEF Wished, SomebodyKeepsTrying
<1>6. ASSUME Dormant, \A i \in DOMAIN new : new[i] # "enable"
      PROVE  Dormant'
  <2>1. \A i \in DOMAIN calls' : calls'[i] # "enable"
    BY <1>1, <1>6, TypesOfDevice, QueueOK DEF Dormant
  <2>2. QED
    BY <1>1, <1>6, <2>1 DEF Dormant
<1>7. QED
  BY <1>4, <1>5, <1>6

(* The requests that are made are calls, and those without "enable".       *)
LEMMA RequestsAreCalls ==
    /\ <<>> \in Seq(Calls)
    /\ \A a \in Calls : <<a>> \in Seq(Calls)
    /\ \A a, b \in Calls : <<a, b>> \in Seq(Calls)
    /\ \A a \in Calls \ {"enable"} : \A i \in DOMAIN <<a>> : <<a>>[i] # "enable"
    /\ \A a, b \in Calls \ {"enable"} :
         \A i \in DOMAIN <<a, b>> : <<a, b>>[i] # "enable"
    /\ \A i \in DOMAIN <<>> : <<>>[i] # "enable"
OBVIOUS

(* The steps of those who ask; of the announcements, only their type       *)
(* matters here.                                                           *)
LEMMA SourceGoesOK ==
    ASSUME IInv, SourceGoes
    PROVE  /\ IInv' /\ (Wished => Wished')
           /\ Dormant => Dormant'
           /\ UNCHANGED <<allEnabled, prevLedState>>
<1>1. DeviceOK /\ Requested(<<"disable">>)
  BY DEF IInv, SourceGoes
<1>2. <<"disable">> \in Seq(Calls)
  BY RequestsAreCalls DEF Calls
<1>3. \A i \in DOMAIN <<"disable">> : <<"disable">>[i] # "enable"
  BY RequestsAreCalls DEF Calls
<1>4. DeviceOK' /\ (Wished => Wished') /\ (Dormant => Dormant')
  BY <1>1, <1>2, <1>3, RequestedOK
<1>5. PowerTypeOK' /\ PauseCanBeUndone'
  BY DEF IInv, SourceGoes, Source!Goes, PowerTypeOK, PauseCanBeUndone
<1>6. QED
  BY <1>4, <1>5 DEF IInv, SourceGoes

LEMMA SourceAppearsOK ==
    ASSUME IInv, SourceAppears
    PROVE  /\ IInv' /\ (Wished => Wished')
           /\ Dormant /\ ~allEnabled => Dormant'
           /\ UNCHANGED <<allEnabled, prevLedState>>
<1> DEFINE new == IF allEnabled THEN <<"enable">> ELSE <<>>
<1>1. DeviceOK /\ Requested(new)
  BY DEF IInv, SourceAppears
<1>2. new \in Seq(Calls)
  BY RequestsAreCalls DEF Calls
<1>3. ~allEnabled => \A i \in DOMAIN new : new[i] # "enable"
  BY RequestsAreCalls
<1> HIDE DEF new
<1>4. DeviceOK' /\ (Wished => Wished') /\ (Dormant /\ ~allEnabled => Dormant')
  BY <1>1, <1>2, <1>3, RequestedOK
<1>5. PowerTypeOK' /\ PauseCanBeUndone'
  BY DEF IInv, SourceAppears, Source!Appears, PowerTypeOK, PauseCanBeUndone
<1>6. QED
  BY <1>4, <1>5 DEF IInv, SourceAppears

(* A pause: what it requests never switches the LEDs on, and after a       *)
(* disabled start it saves that they are wanted.                           *)
LEMMA AllOffOK ==
    ASSUME IInv, AllOff
    PROVE  /\ IInv' /\ (Wished => Wished')
           /\ Dormant => Dormant'
           /\ ~allEnabled => ~allEnabled'
           /\ disableOnStartup /\ ~allEnabled /\ prevLedState # "off" =>
                prevLedState' # "off"
<1> DEFINE new == IF prevLedState = "empty" /\ reported THEN <<"disable", "pause">>
                                                         ELSE <<"pause">>
<1>1. DeviceOK /\ Requested(new)
  BY DEF IInv, AllOff
<1>2. new \in Seq(Calls) /\ \A i \in DOMAIN new : new[i] # "enable"
  <2>1. "disable" \in Calls \ {"enable"} /\ "pause" \in Calls \ {"enable"}
    BY DEF Calls
  <2>2. CASE prevLedState = "empty" /\ reported
    <3>1. new = <<"disable", "pause">>
      BY <2>2
    <3>2. QED
      BY <2>1, <3>1, RequestsAreCalls
  <2>3. CASE ~(prevLedState = "empty" /\ reported)
    <3>1. new = <<"pause">>
      BY <2>3
    <3>2. QED
      BY <2>1, <3>1, RequestsAreCalls
  <2>4. QED
    BY <2>2, <2>3
<1> HIDE DEF new
<1>3. DeviceOK' /\ (Wished => Wished') /\ (Dormant => Dormant')
  BY <1>1, <1>2, RequestedOK
<1>4. CASE prevLedState = "empty"
  <2>1. /\ allEnabled' = FALSE
        /\ prevLedState' = IF (disableOnStartup /\ ~allEnabled) \/ reported
                           THEN "on" ELSE "off"
        /\ UNCHANGED <<disableOnStartup, sourceVisible, announcement>>
    BY <1>4 DEF AllOff
  <2>2. PowerTypeOK' /\ PauseCanBeUndone'
    BY <2>1 DEF IInv, PowerTypeOK, PauseCanBeUndone
  <2>3. QED
    BY <1>3, <2>1, <2>2 DEF IInv
<1>5. CASE prevLedState # "empty"
  <2>1. UNCHANGED <<disableOnStartup, allEnabled, prevLedState, sourceVisible, announcement>>
    BY <1>5 DEF AllOff
  <2>2. PowerTypeOK' /\ PauseCanBeUndone'
    BY <2>1 DEF IInv, PowerTypeOK, PauseCanBeUndone
  <2>3. QED
    BY <1>3, <2>1, <2>2 DEF IInv
<1>6. QED
  BY <1>4, <1>5

(* The end of a pause may switch the LEDs on only if COMP_ALL is on then.  *)
LEMMA AllOnOK ==
    ASSUME IInv, AllOn
    PROVE  /\ IInv' /\ (Wished => Wished')
           /\ Dormant /\ ~allEnabled' => Dormant' /\ UNCHANGED prevLedState
<1> DEFINE new == IF prevLedState = "on" THEN <<"enable", "resume">> ELSE <<"resume">>
<1>1. DeviceOK /\ Requested(new)
  BY DEF IInv, AllOn
<1>2. new \in Seq(Calls)
  BY RequestsAreCalls DEF Calls
<1>3. prevLedState # "on" => \A i \in DOMAIN new : new[i] # "enable"
  <2>1. "resume" \in Calls \ {"enable"}
    BY DEF Calls
  <2>2. prevLedState # "on" => new = <<"resume">>
    OBVIOUS
  <2>3. QED
    BY <2>1, <2>2, RequestsAreCalls
<1> HIDE DEF new
<1>4. /\ DeviceOK' /\ (Wished => Wished')
      /\ Dormant /\ prevLedState # "on" => Dormant'
  BY <1>1, <1>2, <1>3, RequestedOK
<1>5. CASE prevLedState = "empty"
  <2>1. UNCHANGED <<disableOnStartup, allEnabled, prevLedState, sourceVisible, announcement>>
    BY <1>5 DEF AllOn
  <2>2. PowerTypeOK' /\ PauseCanBeUndone'
    BY <2>1 DEF IInv, PowerTypeOK, PauseCanBeUndone
  <2>3. QED
    BY <1>4, <1>5, <2>1, <2>2 DEF IInv
<1>6. CASE prevLedState # "empty"
  <2>1. /\ allEnabled' = TRUE /\ prevLedState' = "empty"
        /\ UNCHANGED <<disableOnStartup, sourceVisible, announcement>>
    BY <1>6 DEF AllOn
  <2>2. PowerTypeOK' /\ PauseCanBeUndone'
    BY <2>1 DEF IInv, PowerTypeOK, PauseCanBeUndone
  <2>3. QED
    BY <1>4, <2>1, <2>2 DEF IInv
<1>7. QED
  BY <1>5, <1>6

LEMMA ApiSwitchesLedsOK ==
    ASSUME IInv, ApiSwitchesLeds
    PROVE  IInv' /\ (Wished => Wished')
<1>1. PICK call \in {"enable", "disable"} : Requested(<<call>>)
  BY DEF ApiSwitchesLeds
<1>2. DeviceOK' /\ (Wished => Wished')
  BY <1>1, RequestsAreCalls, RequestedOK DEF IInv, Calls
<1>3. PowerTypeOK' /\ PauseCanBeUndone'
  BY DEF IInv, ApiSwitchesLeds, powerVars, PowerTypeOK, PauseCanBeUndone
<1>4. QED
  BY <1>2, <1>3 DEF IInv

LEMMA SignalOK ==
    ASSUME IInv, HandleInternalEnableState, UNCHANGED powerVars
    PROVE  IInv' /\ (Wished => Wished') /\ (Dormant => Dormant')
<1>1. UNCHANGED <<calls, isEnabled, isDeviceReady, portOpen, retry, pausedRetry,
                  usbMonitor, lateEnables, nested>>
  BY DEF HandleInternalEnableState
<1>2. DeviceOK
  BY DEF IInv
<1>3. /\ states' \in Seq(BOOLEAN) /\ reported' \in BOOLEAN
      /\ LastState' = LastState
  BY <1>2, TypesOfDevice, HandleSignalOK
<1>4. Truthful
  BY <1>1, <1>2, <1>3, TypesOfDevice DEF Truthful, DeviceOK, ReportConverges
<1>5. DeviceOK'
  BY <1>1, <1>2, <1>3, <1>4, TypesOfDevice, TruthfulIsOK
<1>6. PowerTypeOK' /\ PauseCanBeUndone'
  BY DEF IInv, powerVars, PowerTypeOK, PauseCanBeUndone
<1>7. QED
  BY <1>1, <1>5, <1>6 DEF IInv, Wished, SomebodyKeepsTrying, Dormant

(* A device that nobody asked for does nothing by itself.                  *)
LEMMA DormantDevice ==
    ASSUME DeviceOK, Dormant, DeviceStep
    PROVE  Dormant'
<1>1. \A i \in DOMAIN calls : calls[i] # "enable"
  BY DEF Dormant
<1>2. CASE TakeEnable
  BY <1>1, <1>2, TypesOfDevice, TakeOK DEF TakeEnable
<1>3. CASE TakeDisable
  <2>1. \A i \in DOMAIN calls' : calls'[i] # "enable"
    BY <1>1, <1>3, TypesOfDevice, TakeOK DEF TakeDisable
  <2>2. ~isEnabled
    BY DEF Dormant
  <2>3. UNCHANGED <<isEnabled, lateEnables, nested, retry, pausedRetry, usbMonitor>>
    BY <1>3, <2>2 DEF TakeDisable, DisableDevice
  <2>4. QED
    BY <2>1, <2>3 DEF Dormant
<1>4. CASE TakePause
  <2>1. \A i \in DOMAIN calls' : calls'[i] # "enable"
    BY <1>1, <1>4, TypesOfDevice, TakeOK DEF TakePause
  <2>2. QED
    BY <1>4, <2>1 DEF TakePause, Dormant
<1>5. CASE TakeResume
  <2>1. \A i \in DOMAIN calls' : calls'[i] # "enable"
    BY <1>1, <1>5, TypesOfDevice, TakeOK DEF TakeResume
  <2>2. QED
    BY <1>5, <2>1 DEF TakeResume, Dormant
<1>6. ~FinishOpen /\ ~FinishBlack
  BY DEF Dormant, FinishOpen, FinishBlack
<1>7. ~RetryFires
  BY DEF Dormant, RetryFires, NoTimer
<1>8. ~UsbMonitorFires /\ ~WriteFails
  BY DEF Dormant, UsbMonitorFires, WriteFails
<1>9. ~LateEnableFires
  BY DEF Dormant, LateEnableFires
<1>10. QED
  BY <1>2, <1>3, <1>4, <1>5, <1>6, <1>7, <1>8, <1>9 DEF DeviceStep

LEMMA DeviceOfPowerOK ==
    ASSUME IInv, DeviceStep, UNCHANGED powerVars
    PROVE  /\ IInv'
           /\ Wished /\ ~TakeDisable /\ ~(FinishBlack /\ CutOff) => Wished'
           /\ Dormant => Dormant'
<1>1. DeviceOK
  BY DEF IInv
<1>2. /\ DeviceOK' /\ (Dormant => Dormant')
      /\ Wished /\ ~TakeDisable /\ ~(FinishBlack /\ CutOff) => Wished'
  BY <1>1, DeviceStepOK, DormantDevice
<1>3. PowerTypeOK' /\ PauseCanBeUndone'
  BY DEF IInv, powerVars, PowerTypeOK, PauseCanBeUndone
<1>4. QED
  BY <1>2, <1>3 DEF IInv

-----------------------------------------------------------------------------
(***************************************************************************)
(* The initial state, and all steps together                               *)
(***************************************************************************)
LEMMA InitOK == Init => IInv /\ (disableOnStartup => Dormant)
<1> SUFFICES ASSUME Init PROVE IInv /\ (disableOnStartup => Dormant)
  OBVIOUS
<1>1. <<>> \in Seq(BOOLEAN) /\ <<>> \in Seq(Loops) /\ <<>> \in Seq(Calls)
  OBVIOUS
<1>2. <<"enable">> \in Seq(Calls)
  BY RequestsAreCalls DEF Calls
<1>3. calls \in Seq(Calls) /\ (disableOnStartup => calls = <<>>)
  BY <1>1, <1>2 DEF Init
<1>4. LastState = FALSE
  BY DEF Init, LastState
<1>5. DeviceTypeOK
  <2>1. states \in Seq(BOOLEAN) /\ nested \in Seq(Loops)
    BY <1>1 DEF Init
  <2>2. retry \in {NoTimer} \cup 0 .. MaxRetry /\ lateEnables \in 0 .. MaxLateEnables
    BY BoundsAssumption DEF Init
  <2>3. /\ reported \in BOOLEAN /\ isEnabled \in BOOLEAN /\ isDeviceReady \in BOOLEAN
        /\ portOpen \in BOOLEAN /\ usbMonitor \in BOOLEAN
        /\ pausedRetry \in {"none", "idle", "retrying"}
    BY DEF Init
  <2>4. QED
    BY <1>3, <2>1, <2>2, <2>3 DEF DeviceTypeOK
<1>6. DeviceOK
  BY <1>4, <1>5 DEF Init, DeviceOK, ReportConverges, ReadyMeansWorking
<1>7. PowerTypeOK /\ PauseCanBeUndone
  BY DEF Init, Source!Init, PowerTypeOK, PauseCanBeUndone
<1>8. disableOnStartup => Dormant
  BY <1>3, RequestsAreCalls DEF Init, Dormant
<1>9. QED
  BY <1>6, <1>7, <1>8 DEF IInv

LEMMA StutterOK ==
    ASSUME UNCHANGED vars
    PROVE  /\ IInv => IInv'
           /\ Wished => Wished'
           /\ Dormant => Dormant'
<1>1. /\ UNCHANGED <<calls, states, reported, isEnabled, isDeviceReady, portOpen, retry,
                     pausedRetry, usbMonitor, lateEnables, nested>>
      /\ UNCHANGED <<disableOnStartup, allEnabled, prevLedState, sourceVisible,
                     announcement>>
  BY DEF vars, deviceVars, powerVars
<1>2. IInv => IInv'
  BY <1>1 DEF IInv, DeviceOK, DeviceTypeOK, ReportConverges, LastState, ReadyMeansWorking,
              PowerTypeOK, PauseCanBeUndone
<1>3. (Wished => Wished') /\ (Dormant => Dormant')
  BY <1>1 DEF Wished, SomebodyKeepsTrying, Dormant
<1>4. QED
  BY <1>2, <1>3

(* Requests, and what the instance hears, change nothing of the device.    *)
LEMMA OthersOnlyAsk ==
    ASSUME [Next]_vars, ~DeviceStep
    PROVE  UNCHANGED <<isEnabled, isDeviceReady, portOpen, retry, pausedRetry,
                       usbMonitor, lateEnables, nested>>
<1>1. CASE SourceGoes \/ SourceAppears \/ AllOff \/ AllOn \/ ApiSwitchesLeds
  <2>1. \E new : Requested(new)
    BY <1>1 DEF SourceGoes, SourceAppears, AllOff, AllOn, ApiSwitchesLeds
  <2>2. QED
    BY <2>1 DEF Requested
<1>2. CASE HandleInternalEnableState \/ UNCHANGED vars
  BY <1>2 DEF HandleInternalEnableState, vars, deviceVars
<1>3. QED
  BY <1>1, <1>2 DEF Next

(* Every step keeps the invariant, and a wish for the LEDs that no older   *)
(* disable has cut off.                                                    *)
LEMMA StepOK ==
    ASSUME IInv, [Next]_vars
    PROVE  /\ IInv'
           /\ Wished /\ ~TakeDisable /\ ~(FinishBlack /\ CutOff) => Wished'
           /\ ~CutOff /\ (TakeEnable \/ Wished)
                => (Wished' /\ ~CutOff') \/ TakeDisable \/ OlderDisableCloses
<1>1. IInv' /\ (Wished /\ ~TakeDisable /\ ~(FinishBlack /\ CutOff) => Wished')
  BY SourceGoesOK, SourceAppearsOK, AllOffOK, AllOnOK, ApiSwitchesLedsOK, SignalOK,
     DeviceOfPowerOK, StutterOK DEF Next
<1>2. TakeEnable => Wished'
  BY TakeEnableOK DEF IInv
<1>3. CutOff' => CutOff \/ OlderDisableCloses
  BY CutOffByBlack, OthersOnlyAsk DEF IInv, CutOff
<1>4. QED
  BY <1>1, <1>2, <1>3

(* The setting of the start stays what it was.                             *)
LEMMA SettingStays == Next => UNCHANGED disableOnStartup
<1>1. AllOff => UNCHANGED disableOnStartup
  BY DEF AllOff
<1>2. AllOn => UNCHANGED disableOnStartup
  BY DEF AllOn
<1>3. QED
  BY <1>1, <1>2 DEF Next, SourceGoes, SourceAppears, ApiSwitchesLeds, powerVars

-----------------------------------------------------------------------------
(***************************************************************************)
(* Nothing unasked                                                         *)
(***************************************************************************)

(* The port is open only while the LEDs are wanted, or on the way there,   *)
(* or until the black frame that opened it is done.                        *)
PortHasReason == portOpen => Wished \/ BlackWaits

(* Without a wish there is no timer and no open, and the device does       *)
(* nothing that would bring one about; but a black frame may be waiting,   *)
(* and what it cannot write schedules a late enable.                       *)
LEMMA UnaskedDevice ==
    ASSUME DeviceOK, ~Wished, DeviceStep, ~TakeEnable
    PROVE  /\ Wished' => FinishBlack /\ lateEnables' > lateEnables
           /\ ~FinishBlack => UNCHANGED <<portOpen, nested>>
<1>1. /\ ~isEnabled /\ ~isDeviceReady
      /\ retry = NoTimer /\ ~usbMonitor /\ ~(lateEnables > 0)
      /\ pausedRetry # "retrying"
      /\ ~OpenWaits
  BY DEF Wished, SomebodyKeepsTrying, DeviceOK, ReadyMeansWorking, OpenWaits, Opens
<1>2. CASE TakeDisable
  <2>1. UNCHANGED <<isEnabled, portOpen, lateEnables, nested, retry, pausedRetry,
                    usbMonitor>>
    BY <1>1, <1>2 DEF TakeDisable, DisableDevice
  <2>2. QED
    BY <2>1 DEF Wished, SomebodyKeepsTrying
<1>3. CASE TakePause
  BY <1>1, <1>3 DEF TakePause, Wished, SomebodyKeepsTrying
<1>4. CASE TakeResume
  BY <1>1, <1>4 DEF TakeResume, Wished, SomebodyKeepsTrying
<1>5. ~FinishOpen
  BY <1>1, TypesOfDevice, LeaveOK DEF FinishOpen
<1>6. CASE FinishBlack
  BY <1>6, FinishBlackOK
<1>7. ~RetryFires /\ ~UsbMonitorFires /\ ~LateEnableFires /\ ~WriteFails
  BY <1>1 DEF RetryFires, NoTimer, UsbMonitorFires, LateEnableFires, WriteFails
<1>8. QED
  BY <1>2, <1>3, <1>4, <1>5, <1>6, <1>7 DEF DeviceStep

LEMMA PortOK ==
    ASSUME IInv, PortHasReason, [Next]_vars
    PROVE  /\ PortHasReason'
           /\ Wished' => \/ Wished \/ TakeEnable
                         \/ FinishBlack /\ lateEnables' > lateEnables
<1>0. DeviceOK
  BY DEF IInv
<1>1. ~DeviceStep => (Wished' <=> Wished) /\ (BlackWaits' <=> BlackWaits)
                     /\ portOpen' = portOpen
  BY OthersOnlyAsk DEF Wished, SomebodyKeepsTrying, BlackWaits, Blacks
<1>2. CASE FinishBlack
  BY <1>0, <1>2, FinishBlackOK DEF PortHasReason
<1>3. CASE TakeDisable /\ isEnabled
  <2>1. DisableDevice /\ UNCHANGED <<reported, retry>>
    BY <1>3 DEF TakeDisable
  <2>2. QED
    BY <1>0, <1>3, <2>1, DisableDeviceOK DEF PortHasReason, Wished
<1>4. CASE TakeDisable /\ ~isEnabled
  <2>1. UNCHANGED <<isEnabled, portOpen, lateEnables, nested, retry, pausedRetry,
                    usbMonitor>>
    BY <1>4 DEF TakeDisable, DisableDevice
  <2>2. QED
    BY <2>1 DEF PortHasReason, Wished, SomebodyKeepsTrying, BlackWaits, Blacks
<1>5. CASE DeviceStep /\ ~TakeDisable /\ ~FinishBlack
  <2>1. Wished \/ TakeEnable => Wished'
    BY <1>5, StepOK, TakeEnableOK DEF IInv
  <2>2. ~Wished /\ ~TakeEnable => ~Wished' /\ UNCHANGED <<portOpen, nested>>
    BY <1>0, <1>5, UnaskedDevice
  <2>3. QED
    BY <2>1, <2>2 DEF PortHasReason, BlackWaits, Blacks
<1>6. QED
  BY <1>1, <1>2, <1>3, <1>4, <1>5 DEF PortHasReason

-----------------------------------------------------------------------------
(***************************************************************************)
(* The theorems                                                            *)
(***************************************************************************)

(* The inductive invariant holds in every reachable state.                 *)
THEOREM Invariance == Spec => []IInv
<1>1. Init => IInv
  BY InitOK
<1>2. IInv /\ [Next]_vars => IInv'
  BY StepOK
<1>3. QED
  BY <1>1, <1>2, PTL DEF Spec

(* Type correctness: retries and late re-enables stay within their bounds. *)
THEOREM TypeCorrect == Spec => []TypeOK
<1>1. IInv => TypeOK
  BY DEF IInv, DeviceOK, PowerTypeOK, TypeOK
<1>2. QED
  BY <1>1, Invariance, PTL

(* What the instance shows ends up being true, whatever fails, nests or is *)
(* repeated.                                                               *)
THEOREM ReportsConverge == Spec => []ReportConverges
<1>1. IInv => ReportConverges
  BY DEF IInv, DeviceOK
<1>2. QED
  BY <1>1, Invariance, PTL

(* A ready device is enabled, has its port, and no timer that opens it.    *)
THEOREM ReadyDeviceWorks == Spec => []ReadyMeansWorking
<1>1. IInv => ReadyMeansWorking
  BY DEF IInv, DeviceOK
<1>2. QED
  BY <1>1, Invariance, PTL

(* The states saved by a pause and COMP_ALL agree.                         *)
THEOREM PausesCanBeUndone == Spec => []PauseCanBeUndone
<1>1. IInv => PauseCanBeUndone
  BY DEF IInv
<1>2. QED
  BY <1>1, Invariance, PTL

(* Once taken, an "enable" is pursued until a "disable" is taken, or an    *)
(* older one ends whose black frame had waited: the safety half of         *)
(* EnableIsNotForgotten.                                                   *)
THEOREM WishesAreKept == Spec => WishIsKept
<1>1. IInv /\ [Next]_vars =>
        [~CutOff /\ (TakeEnable \/ Wished)
           => (Wished' /\ ~CutOff') \/ TakeDisable \/ OlderDisableCloses]_vars
  BY StepOK
<1>2. QED
  BY <1>1, Invariance, PTL DEF Spec, WishIsKept

(* Nothing switches the LEDs on unasked, with one exception: with every    *)
(* wish dropped, only an "enable" from the queue brings one back, or a     *)
(* black frame that cannot be written to the port it opened, by its late   *)
(* enable; no other failed write, interrupted open or end of a pause does. *)
(* And without a wish the port is open only for such a black frame.        *)
THEOREM NothingUnasked ==
    Spec => /\ []PortHasReason
            /\ [][Wished' => \/ Wished \/ TakeEnable
                             \/ FinishBlack /\ lateEnables' > lateEnables]_vars
<1>1. Init => PortHasReason
  BY DEF Init, PortHasReason
<1>2. IInv /\ PortHasReason /\ [Next]_vars
        => /\ PortHasReason'
           /\ [Wished' => \/ Wished \/ TakeEnable
                          \/ FinishBlack /\ lateEnables' > lateEnables]_vars
  BY PortOK
<1>3. QED
  BY <1>1, <1>2, Invariance, PTL DEF Spec

(* After a disabled start the device lies dormant until somebody asks.     *)
THEOREM DisabledStartsWait == MCSpec => []DisabledStartWaits
<1>1. MCInit => IInv /\ DormantUntilAsked
  BY InitOK DEF MCInit, Init, DormantUntilAsked
<1>2. ASSUME IInv, DormantUntilAsked, [MCNext]_<<vars, asked>>
      PROVE  IInv' /\ DormantUntilAsked'
  <2>1. IInv'
    BY <1>2, StepOK DEF MCNext
  <2>2. ASSUME disableOnStartup', ~asked'
        PROVE  Dormant' /\ ~allEnabled' /\ prevLedState' # "off"
    <3>1. disableOnStartup /\ ~asked
      <4>1. CASE MCNext
        <5>1. ~asked
          BY <2>2, <4>1 DEF MCNext
        <5>2. disableOnStartup' = disableOnStartup
          BY <4>1, SettingStays DEF MCNext
        <5>3. QED
          BY <2>2, <5>1, <5>2
      <4>2. CASE UNCHANGED <<vars, asked>>
        <5>1. asked' = asked /\ disableOnStartup' = disableOnStartup
          BY <4>2 DEF vars, powerVars
        <5>2. QED
          BY <2>2, <5>1
      <4>3. QED
        BY <1>2, <4>1, <4>2
    <3>2. Dormant /\ ~allEnabled /\ prevLedState # "off"
      BY <1>2, <3>1 DEF DormantUntilAsked
    <3>3. CASE MCNext
      <4>1. ~allEnabled' /\ ~ApiSwitchesLeds /\ Next
        BY <2>2, <3>3 DEF MCNext
      <4>2. QED
        BY <1>2, <3>1, <3>2, <4>1, SourceGoesOK, SourceAppearsOK, AllOffOK, AllOnOK,
           SignalOK, DeviceOfPowerOK DEF Next, powerVars
    <3>4. CASE UNCHANGED <<vars, asked>>
      BY <3>2, <3>4, StutterOK DEF vars, powerVars
    <3>5. QED
      BY <1>2, <3>3, <3>4
  <2>3. QED
    BY <2>1, <2>2 DEF DormantUntilAsked
<1>3. DormantUntilAsked => DisabledStartWaits
  BY DEF DormantUntilAsked, Dormant, DisabledStartWaits
<1>4. QED
  BY <1>1, <1>2, <1>3, PTL DEF MCSpec

=============================================================================
