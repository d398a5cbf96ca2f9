-------------------------- MODULE MCCaptureClients --------------------------
(***************************************************************************)
(* CaptureHistory for TLC: two objects, of two instances or of one.        *)
(***************************************************************************)
EXTENDS CaptureHistory

CONSTANTS o1, o2, i1, i2

MCInstances == {o1, o2}
MCIndices == {i1, i2}
MCMayHave == [o \in MCInstances |-> IF o = o1 THEN {i1} ELSE MCIndices]
=============================================================================
