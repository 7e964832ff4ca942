------------------------------ MODULE MCDebug ------------------------------
(***************************************************************************)
(* Debug for TLC: a gather of one collector, with one artifact it writes   *)
(* and one marker.                                                         *)
(***************************************************************************)
EXTENDS Debug

CONSTANTS yaml, marker

MCFiles == {yaml, marker}
MCMarkers == {marker}
None == {}
=============================================================================
