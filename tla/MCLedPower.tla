----------------------------- MODULE MCLedPower -----------------------------
(***************************************************************************)
(* LedPower with a history variable for TLC: whether anybody has asked for *)
(* the LEDs, by switching COMP_ALL on or through the API.                  *)
(***************************************************************************)
EXTENDS LedPower

VARIABLE asked

MCInit == Init /\ asked = allEnabled
MCNext == Next /\ asked' = (asked \/ allEnabled' \/ ApiSwitchesLeds)
MCSpec == MCInit /\ [][MCNext]_<<vars, asked>> /\ DeviceFairness

(* After a start with the LEDs disabled they stay off until somebody asks  *)
(* for them, whatever sources come; and switching the components on for    *)
(* the first time will switch the LEDs on although they never were.        *)
DisabledStartWaits ==
    disableOnStartup /\ ~asked => ~isEnabled /\ prevLedState # "off"
=============================================================================
