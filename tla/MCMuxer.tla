------------------------------ MODULE MCMuxer ------------------------------
(***************************************************************************)
(* An instance of the muxer for TLC: a capture component and a component   *)
(* that stands for the three user components, which the muxer treats       *)
(* alike; two inputs, both of the kind that clearAll may clear, are enough *)
(* for one to wait behind the other.                                       *)
(***************************************************************************)
EXTENDS Muxer

CONSTANT COMP_VIDEOGRABBER

MCComponents == {COMP_COLOR, COMP_VIDEOGRABBER}
MCInputPriorities == {0, 1}
MCLowestPriority == 3
=============================================================================
