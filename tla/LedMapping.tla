----------------------------- MODULE LedMapping -----------------------------
(***************************************************************************)
(* The map from images to LEDs: ImageToLedManager.cpp, with the black      *)
(* border detection it drives and the calls of AmbilightAppInstance.  A    *)
(* map is built for an image size, a border to cut away and a LED layout;  *)
(* every change of one of them, or of how colours are averaged, builds a   *)
(* new one.  All calls come on the thread of the instance.                 *)
(***************************************************************************)
EXTENDS BlackBorder

CONSTANTS Sizes,      \* sizes of images
          NoMap,      \* the size of the map before the first image
          Layouts     \* LED layouts

ASSUME SizesAssumption == NoMap \notin Sizes

VARIABLES mapSize,      \* of _colorAveraging, or NoMap
          mapBorder,    \* of _colorAveraging
          ledString,    \* the layout the manager builds maps for
          layout        \* the layout of the instance

mapVars == <<mapSize, mapBorder, ledString, layout>>
vars == <<switchVars, detectionVars, mapVars>>

TypeOK ==
    /\ ProcessorTypeOK
    /\ mapSize \in Sizes \cup {NoMap}
    /\ mapBorder \in KnownBorders
    /\ ledString \in Layouts
    /\ layout \in Layouts

Init ==
    /\ ProcessorInit
    /\ mapSize = NoMap
    /\ mapBorder = NoBars
    /\ layout \in Layouts
    /\ ledString = layout

-----------------------------------------------------------------------------
(* verifyBorder: the border that is cut away.                              *)
CutEvenUnknown(border) == border

Cut(border) == IF border = Unknown THEN NoBars ELSE border

(* processFrame of an image of that size that shows that border.           *)
EnabledFrameKeepsMap(border, oldMapBorder) ==
    /\ UpdateBorder(border)
    /\ mapBorder' = IF currentBorder' # currentBorder /\ currentBorder' # Unknown
                    THEN currentBorder' ELSE oldMapBorder

EnabledFrame(border, oldMapBorder) ==
    /\ UpdateBorder(border)
    /\ mapBorder' = IF currentBorder' # currentBorder THEN Cut(currentBorder')
                                                      ELSE oldMapBorder

DisabledFrame(oldMapBorder) ==
    /\ IF oldMapBorder = NoBars THEN UNCHANGED detectionVars ELSE ProcessDisabled
    /\ mapBorder' = NoBars

ProcessFrame(size, border) ==
    /\ mapSize' = size
    /\ LET oldMapBorder == IF size = mapSize THEN mapBorder ELSE NoBars
       IN  IF enabled THEN EnabledFrame(border, oldMapBorder)
                      ELSE DisabledFrame(oldMapBorder)
    /\ UNCHANGED <<switchVars, ledString, layout>>

(* setLedMappingType and setSparseProcessing, when the value changes       *)
ChangeAveraging ==
    /\ mapSize # NoMap
    /\ mapBorder' = NoBars
    /\ UNCHANGED <<switchVars, detectionVars, mapSize, ledString, layout>>

(* New LEDs, or a new order of colours: setLedString                       *)
SetLedString(newLayout) ==
    /\ layout' = newLayout
    /\ IF mapSize = NoMap THEN UNCHANGED <<mapBorder, ledString>>
                          ELSE mapBorder' = NoBars /\ ledString' = newLayout
    /\ UNCHANGED <<switchVars, detectionVars, mapSize>>

Switch ==
    /\ \E value \in BOOLEAN :
        HandleCompStateChangeRequest(value) \/ SetHardDisable(value)
    /\ UNCHANGED mapVars

ChangeSettings ==
    /\ \E s \in Settings, enable \in BOOLEAN : HandleSettingsUpdate(s, enable)
    /\ UNCHANGED mapVars

Next ==
    \/ \E size \in Sizes, border \in Borders : ProcessFrame(size, border)
    \/ ChangeAveraging
    \/ \E newLayout \in Layouts : SetLedString(newLayout)
    \/ Switch
    \/ ChangeSettings

Spec == Init /\ [][Next]_vars

-----------------------------------------------------------------------------
(***************************************************************************)
(* Properties                                                              *)
(***************************************************************************)

(* "the user has the last word to enable": whatever the order of requests, *)
(* settings and visible effects, the detection runs if the user wants it   *)
(* and no effect is visible.                                               *)
EnabledIsWanted == enabled <=> userEnabled /\ ~hardDisabled

(* What the map cuts away is the border the processor stands for, never    *)
(* one it has given up.                                                    *)
MapIsNeverStale == mapBorder # NoBars => mapBorder = currentBorder

=============================================================================
