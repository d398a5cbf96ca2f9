---------------------------- MODULE BlackBorder ----------------------------
(***************************************************************************)
(* The detection of black borders: BlackBorderProcessor.cpp.  Every frame  *)
(* shows a border or none; the processor takes a border over only when it  *)
(* has been shown for long enough, and overlooks a few frames that show    *)
(* something else.  Which border a frame shows (the detector, its mode and *)
(* threshold, the pixels cut away for blur) is left open: frames show any. *)
(***************************************************************************)
EXTENDS Integers

CONSTANTS KnownBorders,    \* borders a frame can show, with their two sizes
          NoBars,          \* the known border of size 0
          Unknown,         \* no border can be told: `unknown` is set
          Settings,        \* the frame counts a user can set
          FirstInconsistentCnt,   \* inconsistentCnt of a new processor: 10
          MaxFrames        \* bound: frames that are counted

Borders == KnownBorders \cup {Unknown}
Counts == 0 .. MaxFrames

ASSUME BordersAssumption == NoBars \in KnownBorders /\ Unknown \notin KnownBorders
ASSUME FramesAssumption == MaxFrames \in Nat /\ FirstInconsistentCnt \in Counts
ASSUME SettingsAssumption ==
    \A s \in Settings :
        /\ s \in [unknownSwitchCnt : Nat, borderSwitchCnt : Nat, maxInconsistentCnt : Nat]
        /\ s.maxInconsistentCnt + 1 + s.unknownSwitchCnt <= MaxFrames
        /\ s.maxInconsistentCnt + 1 + s.borderSwitchCnt <= MaxFrames

VARIABLES settings,
          userEnabled,
          hardDisabled,             \* an effect is visible
          enabled,
          currentBorder,
          previousDetectedBorder,
          consistentCnt,
          inconsistentCnt

switchVars == <<settings, userEnabled, hardDisabled, enabled>>
detectionVars == <<currentBorder, previousDetectedBorder, consistentCnt, inconsistentCnt>>

ProcessorTypeOK ==
    /\ settings \in Settings
    /\ userEnabled \in BOOLEAN
    /\ hardDisabled \in BOOLEAN
    /\ enabled \in BOOLEAN
    /\ currentBorder \in Borders
    /\ previousDetectedBorder \in Borders
    /\ consistentCnt \in Counts
    /\ inconsistentCnt \in Counts

ProcessorInit ==
    /\ settings \in Settings
    /\ userEnabled \in BOOLEAN
    /\ hardDisabled = FALSE
    /\ enabled = userEnabled
    /\ currentBorder = Unknown
    /\ previousDetectedBorder = Unknown
    /\ consistentCnt = 0
    /\ inconsistentCnt = FirstInconsistentCnt

-----------------------------------------------------------------------------
(***************************************************************************)
(* The switches                                                            *)
(***************************************************************************)
Request(enable) ==
    /\ userEnabled' = enable
    /\ enabled' = IF enable /\ hardDisabled THEN enabled ELSE enable

HandleCompStateChangeRequest(enable) ==
    /\ Request(enable)
    /\ UNCHANGED <<settings, hardDisabled, detectionVars>>

(* The counters keep what they counted under the old settings.             *)
HandleSettingsUpdate(newSettings, enable) ==
    /\ settings' = newSettings
    /\ Request(enable)
    /\ UNCHANGED <<hardDisabled, detectionVars>>

SetHardDisableOverrules(disable) ==
    /\ hardDisabled' = disable
    /\ enabled' = ~disable
    /\ UNCHANGED <<settings, userEnabled, detectionVars>>

SetHardDisable(disable) ==
    /\ hardDisabled' = disable
    /\ enabled' = IF disable THEN FALSE ELSE enabled \/ userEnabled
    /\ UNCHANGED <<settings, userEnabled, detectionVars>>

-----------------------------------------------------------------------------
(***************************************************************************)
(* updateBorder                                                            *)
(***************************************************************************)
SwitchCnt(border) ==
    IF border = Unknown THEN settings.unknownSwitchCnt ELSE settings.borderSwitchCnt

IsIgnored(border) ==
    border # previousDetectedBorder /\ inconsistentCnt < settings.maxInconsistentCnt

(* One of a few inconsistent frames.                                       *)
Ignore ==
    /\ inconsistentCnt' = inconsistentCnt + 1
    /\ UNCHANGED <<currentBorder, previousDetectedBorder, consistentCnt>>

(* A frame that counts, or that starts a new count.  After it the border   *)
(* changes, or is the one that was shown, or waits.                        *)
ConsiderKeepsCount(border) ==
    /\ consistentCnt < MaxFrames /\ inconsistentCnt < MaxFrames
    /\ previousDetectedBorder' = border
    /\ consistentCnt' = consistentCnt + 1
    /\ inconsistentCnt' = IF border \in {previousDetectedBorder, currentBorder}
                          THEN 0 ELSE inconsistentCnt + 1
    /\ currentBorder' = IF \/ currentBorder = Unknown
                           \/ consistentCnt' = SwitchCnt(border)
                        THEN border ELSE currentBorder

ConsiderOnceMore(border) ==
    /\ consistentCnt < MaxFrames /\ inconsistentCnt < MaxFrames
    /\ previousDetectedBorder' = border
    /\ consistentCnt' = IF border = previousDetectedBorder THEN consistentCnt + 1 ELSE 0
    /\ inconsistentCnt' = IF border \in {previousDetectedBorder, currentBorder}
                          THEN 0 ELSE inconsistentCnt + 1
    /\ currentBorder' = IF \/ currentBorder = Unknown
                           \/ consistentCnt' = SwitchCnt(border) + 1
                        THEN border ELSE currentBorder

Consider(border) ==
    /\ consistentCnt < MaxFrames /\ inconsistentCnt < MaxFrames
    /\ previousDetectedBorder' = border
    /\ consistentCnt' = IF border = previousDetectedBorder THEN consistentCnt + 1 ELSE 0
    /\ inconsistentCnt' = IF border \in {previousDetectedBorder, currentBorder}
                          THEN 0 ELSE inconsistentCnt + 1
    /\ currentBorder' = IF \/ currentBorder = Unknown
                           \/ consistentCnt' = SwitchCnt(border)
                        THEN border ELSE currentBorder

UpdateBorder(border) == IF IsIgnored(border) THEN Ignore ELSE Consider(border)

(* process, when the detection is disabled: nothing is detected.           *)
ProcessDisabled ==
    /\ currentBorder' = Unknown
    /\ UNCHANGED <<previousDetectedBorder, consistentCnt, inconsistentCnt>>

=============================================================================
