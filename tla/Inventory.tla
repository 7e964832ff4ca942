------------------------------ MODULE Inventory ------------------------------
(***************************************************************************)
(* What pkg/inventory makes of a cluster: the nodes that carry GPUs, how   *)
(* each advertises them, the operand pods on it and what those pods are.   *)
(* The variables are the cluster as the API server serves it; the          *)
(* operators work on a reading r of it, which a source.Source makes: the   *)
(* nodes, the nodes that slices name, the pods, the operator's own pods,   *)
(* the policies, events and domains.                                       *)
(*                                                                         *)
(* Labels a rule compares with one value are Booleans; times are ticks,    *)
(* and 0 is a time that is not set.                                        *)
(***************************************************************************)
EXTENDS Integers, Sequences, FiniteSets, TLC

CONSTANTS Nodes

VARIABLES
  node,      \* the Node objects
  pods,      \* the Pod objects
  policies,  \* the ClusterPolicies, in the order the list has them
  events,    \* the Node events: [node, state, at]
  domains,   \* the ComputeDomains: the status of each node they cover
  now        \* the time

\* The reads of a health run that it can go on without.  The pods are read
\* twice: all of them, and the operator's own by its label.
Reads == {"resourceslices", "pods", "operator", "clusterpolicies", "events", "computedomains"}

Label(p, key) == IF key \in DOMAIN p.labels THEN p.labels[key] ELSE ""

\* A reading of the cluster as it is, without the reads in R: those that were
\* refused, or answered a moment before the object was there.
Live(R) ==
  LET read(name, what, lost) == IF name \in R THEN lost ELSE what
  IN [nodes |-> node,
      slices |-> read("resourceslices", {n \in Nodes : node[n].slice}, {}),
      pods |-> read("pods", pods, {}),
      operator |-> read("operator", {p \in pods : Label(p, "app") = "gpu-operator"}, {}),
      policies |-> read("clusterpolicies", policies, <<>>),
      events |-> read("events", events, {}),
      domains |-> read("computedomains", domains, {})]

Resources == {"gpu", "gpu.shared", "mig"}   \* the extended resources, one MIG profile

-----------------------------------------------------------------------------
(* Terminations of containers. *)

NoTermination == [observed |-> FALSE, code |-> 0, at |-> 0]
Terminated(c, t) == [observed |-> TRUE, code |-> c, at |-> t]

\* A container's status: its state is "running", "terminated" or a reason to wait.
Container(state, cur, last, restarts, ready) ==
  [state |-> state, cur |-> cur, last |-> last, restarts |-> restarts, ready |-> ready]
Running == Container("running", NoTermination, NoTermination, 0, TRUE)

\* The newer of the run that ended now and the one that ended before it.
lastTermination(c) ==
  IF ~c.cur.observed THEN c.last
  ELSE IF c.last.observed /\ c.last.at > c.cur.at THEN c.last ELSE c.cur

newestTermination(statuses) ==
  LET seen == {t \in {lastTermination(statuses[i]) : i \in DOMAIN statuses} : t.observed}
  IN IF seen = {} THEN NoTermination ELSE CHOOSE t \in seen : \A u \in seen : u.at <= t.at

allReady(statuses) == statuses # <<>> /\ \A i \in DOMAIN statuses : statuses[i].ready

Restarts(statuses) == \E i \in DOMAIN statuses : statuses[i].restarts > 0

-----------------------------------------------------------------------------
(* Which component a pod is. *)

\* The first of the alternatives that is not empty.
FirstOf(alternatives) ==
  alternatives[CHOOSE i \in DOMAIN alternatives :
                 alternatives[i] # "" /\ \A j \in 1..(i - 1) : alternatives[j] = ""]

driverSelectors ==
  << [key |-> "app", value |-> "driver", component |-> "driver"],
     [key |-> "component", value |-> "nvidia-driver", component |-> "driver"],
     [key |-> "app", value |-> "vgpu-manager", component |-> "vgpu-manager"],
     [key |-> "driver-toolkit", value |-> "", component |-> "driver"] >>

DriverComponent(p) ==
  LET matches(s) == s.key \in DOMAIN p.labels /\ s.value \in {"", p.labels[s.key]}
      hits == {i \in DOMAIN driverSelectors : matches(driverSelectors[i])}
  IN IF hits = {} THEN ""
     ELSE driverSelectors[CHOOSE i \in hits : \A j \in hits : i <= j].component

draComponent(p) ==
  IF "computeDomain" \in DOMAIN p.labels THEN "imex-daemon"
  ELSE IF Label(p, "app") = "dra-driver" \/ Label(p, "dra-component") = "kubelet-plugin"
  THEN "dra-driver" ELSE ""

componentOf(p) ==
  FirstOf(<<DriverComponent(p), Label(p, "app"), draComponent(p), Label(p, "component"),
            Label(p, "name"), p.owner, p.name>>)

\* The namespace of the operator's controller, and "" for a list without one.
operatorNamespace(list) ==
  LET operators == {p \in list : componentOf(p) = "gpu-operator"}
  IN IF operators = {} THEN "" ELSE (CHOOSE p \in operators : TRUE).namespace

isOperand(p, namespace) ==
  draComponent(p) # "" \/ (namespace # "" /\ p.namespace = namespace)

\* The validator is the one pod whose init containers matter.
operandFromPod(p) ==
  [name |-> p.name, component |-> componentOf(p), ready |-> allReady(p.statuses),
   restarted |-> Restarts(p.statuses), died |-> newestTermination(p.statuses),
   init |-> IF componentOf(p) = "validator" THEN p.init ELSE <<>>]

operandsByNode(list) ==
  LET namespace == operatorNamespace(list)
  IN [n \in Nodes |-> {operandFromPod(p) : p \in {q \in list : q.node = n /\ isOperand(q, namespace)}}]

-----------------------------------------------------------------------------
(* The nodes. *)

bySlice(r, n) == n \in r.slices
byPlugin(r, n) == \E res \in Resources : r.nodes[n].cap[res] > 0

\* Mutant of mode: a node with a slice is a DRA node.
modeSliceWins(r, n) ==
  IF bySlice(r, n) THEN "dra" ELSE IF byPlugin(r, n) THEN "device-plugin" ELSE "none"

mode(r, n) ==
  CASE byPlugin(r, n) /\ bySlice(r, n) -> "both"
    [] byPlugin(r, n) /\ ~bySlice(r, n) -> "device-plugin"
    [] ~byPlugin(r, n) /\ bySlice(r, n) -> "dra"
    [] OTHER -> "none"

wholeGPUs(list) == list["gpu"] + list["gpu.shared"]

isGPUNode(r, n) == bySlice(r, n) \/ byPlugin(r, n)
hasHintLabel(r, n) == r.nodes[n].pci \/ r.nodes[n].present

\* buildNode: the node as the rules are given it, hinted or not.  The deploy and
\* topology labels, the taints and the conditions are taken over.
buildNode(r, n, operands) ==
  LET of == r.nodes[n]
  IN [name |-> n, hinted |-> ~isGPUNode(r, n), mode |-> mode(r, n), operands |-> operands,
      capacity |-> wholeGPUs(of.cap), allocatable |-> wholeGPUs(of.alloc), alloc |-> of.alloc,
      pci |-> of.pci, present |-> of.present, count |-> of.count, replicas |-> of.replicas,
      strategy |-> of.strategy, config |-> of.config, configState |-> of.configState,
      capable |-> of.capable, workload |-> of.workload, upgrade |-> of.upgrade,
      deploy |-> of.deploy, taints |-> of.taints, unschedulable |-> of.unschedulable,
      sentinel |-> of.sentinel, clique |-> of.clique, tiers |-> of.tiers]

\* BuildWithHinted, with the hinted nodes asked for.
BuildWithHinted(r) ==
  LET operands == operandsByNode(r.pods)
  IN {buildNode(r, n, operands[n]) : n \in {m \in DOMAIN r.nodes : isGPUNode(r, m) \/ hasHintLabel(r, m)}}
=============================================================================
