---------------------------- MODULE MCGatherRun ----------------------------
(***************************************************************************)
(* GatherRun for TLC: two collectors and one file of each way a file gets  *)
(* into a bundle: a plain artifact, a container log (its writer defers the *)
(* discard), a marker and a bug report.                                    *)
(***************************************************************************)
EXTENDS GatherRun

CONSTANTS yaml, podlog, marker, report

MCFiles == {yaml, podlog, marker, report}
MCMarkers == {marker}
MCCopied == {report}
MCGuarded == {podlog}
MCStuck == {yaml, report}
=============================================================================
