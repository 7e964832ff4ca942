----------------------------- MODULE MCReadRun -----------------------------
(***************************************************************************)
(* ReadRun for TLC: two nodes, a rule that only says info and a warning    *)
(* that does not apply to the operator's version, gated on warnings.       *)
(***************************************************************************)
EXTENDS ReadRun, TLC

CONSTANTS n1, n2, info_rule, gated_rule

MCNodes == {n1, n2}
MCRules == {info_rule, gated_rule}
MCSeverity == (info_rule :> 1) @@ (gated_rule :> 2)
MCFailOn == {2}
MCGated == {gated_rule}
MCSymmetry == Permutations(MCNodes)
=============================================================================
