----------------------------- MODULE MCPodCopy -----------------------------
(***************************************************************************)
(* PodCopy for TLC: pods in a row, of which the first may never answer the *)
(* script and the second may stop answering during the copy.               *)
(***************************************************************************)
EXTENDS PodCopy

First == {1}
Second == {2}
=============================================================================
