--------------------------- MODULE MCHealthCluster ---------------------------
(***************************************************************************)
(* HealthCluster for TLC: one node that starts in any of the set-ups and   *)
(* changes, beside a plain one.                                            *)
(***************************************************************************)
EXTENDS HealthCluster

CONSTANTS n1, n2

MCNodes == {n1, n2}
MCChanging == {n1}
MCKinds == {"plain", "single", "mixed", "dra", "both", "vm", "upgrading",
            "tolerated", "control-plane"}
=============================================================================
