------------------------------ MODULE MCBundle ------------------------------
(***************************************************************************)
(* Bundle for TLC: a node that changes while the gather runs, and a        *)
(* validator whose resources ask for a GPU.                                *)
(***************************************************************************)
EXTENDS Bundle

CONSTANT n1

MCNodes == {n1}
MCChanging == {n1}
MCKinds == {"dra", "upgrading"}
=============================================================================
