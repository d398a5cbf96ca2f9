--------------------------- MODULE VisibleSource ---------------------------
(***************************************************************************)
(* What the muxer promises those who listen to its visible priority        *)
(* (AmbilightAppInstance::handlePriorityChangedLedDevice and the effect    *)
(* engine), whatever its table of inputs looks like: whether a source is   *)
(* visible, and what its last announcement meant.                          *)
(*                                                                         *)
(*   "off"   no source is left                                             *)
(*   "on"    a source appeared where there was none                        *)
(*   "keep"  another source, or another component, took over               *)
(*                                                                         *)
(* A listener that acts on "off" and "on" alone knows at every moment      *)
(* whether a source is visible.                                            *)
(***************************************************************************)
VARIABLES sourceVisible,
          announcement       \* the meaning of the last one, "none" before it

sourceVars == <<sourceVisible, announcement>>

Init == sourceVisible = FALSE /\ announcement = "none"

(* The first announcement comes even when there never was a source.        *)
Goes ==
    /\ sourceVisible \/ announcement = "none"
    /\ sourceVisible' = FALSE
    /\ announcement' = "off"

Appears ==
    /\ ~sourceVisible
    /\ sourceVisible' = TRUE
    /\ announcement' = "on"

TakenOver ==
    /\ sourceVisible
    /\ announcement' = "keep"
    /\ UNCHANGED sourceVisible

Next == Goes \/ Appears \/ TakenOver

Spec == Init /\ [][Next]_sourceVars
=============================================================================
