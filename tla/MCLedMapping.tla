---------------------------- MODULE MCLedMapping ----------------------------
(***************************************************************************)
(* Instances of BorderHistory for TLC, with frame counts small enough to   *)
(* be exceeded.                                                            *)
(***************************************************************************)
EXTENDS BorderHistory

Patient == [unknownSwitchCnt |-> 3, borderSwitchCnt |-> 2, maxInconsistentCnt |-> 1]
OneSetting == {Patient}
=============================================================================
