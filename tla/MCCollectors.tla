---------------------------- MODULE MCCollectors ----------------------------
(***************************************************************************)
(* Collectors for TLC.  A gather runs twenty collectors; a scenario takes  *)
(* four of them in registry order: the ones that share state together, and *)
(* one of each kind of the ones that do not.                               *)
(***************************************************************************)
EXTENDS Collectors

CONSTANTS op, drv1, drv2, n1, n2

MCPods == {op, drv1, drv2}
TheOperator == {op}
TheDrivers == {drv1, drv2}
\* Both driver pods run on one node, as a driver and a vGPU manager do.
MCNodeOf == [p \in MCPods |-> IF p = op THEN n2 ELSE n1]

WholeCluster == {[redact |-> FALSE, node |-> FALSE]}
Either == [redact : {FALSE}, node : BOOLEAN]

MCScenarios ==
  {[registry |-> <<"openshift-version", "nodes", "cluster-policy", "gpu-cluster">>,
    flags |-> WholeCluster, pods |-> {}, churn |-> 0],
   [registry |-> <<"nodes", "cluster-policy", "device-classes", "resource-slices">>,
    flags |-> WholeCluster, pods |-> {}, churn |-> 0],
   [registry |-> <<"operator-pod", "operand-pods", "pod-logs", "pod-descriptions">>,
    flags |-> Either, pods |-> {op, drv1}, churn |-> 2],
   [registry |-> <<"gpu-nodes", "daemonsets", "bug-report", "device-usage">>,
    flags |-> Either, pods |-> MCPods, churn |-> 0]}
=============================================================================
