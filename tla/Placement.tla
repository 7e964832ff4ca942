------------------------------ MODULE Placement ------------------------------
(***************************************************************************)
(* What pkg/topology makes of the GPU nodes: the levels they are grouped   *)
(* at, what each group has left, and the levels at which a job fits; with  *)
(* pkg/inventory's rule for the GPUs that a pod asks for.                  *)
(*                                                                         *)
(* A list of nodes is a function from their names to what was read of      *)
(* each; names and label values are numbers, so that they can be sorted.   *)
(* A level goes by its label, and the two implicit ones by hostname and    *)
(* cluster.                                                                *)
(***************************************************************************)
EXTENDS Integers, SequencesExt

CONSTANTS
  TierNumber  \* the number of each fabric tier label; one that has none comes last

LabelHostname == "hostname"
LevelCluster == "cluster"
NVLinkLabels == <<"clique", "sub-domain", "domain">>
Tiers == DOMAIN TierNumber

-----------------------------------------------------------------------------
(* The GPUs that a pod asks for. *)

\* What is asked for under one name: a request, or the limit in place of one.
containerRequest(c, name) ==
  IF name \in DOMAIN c.requests THEN c.requests[name]
  ELSE IF name \in DOMAIN c.limits THEN c.limits[name] ELSE 0

gpuRequest(c) == containerRequest(c, "gpu") + containerRequest(c, "gpu.shared")

Larger(a, b) == IF a > b THEN a ELSE b

\* Init containers run one at a time, on top of the sidecars started before them.
PodSpecGPURequest(spec) ==
  LET step(acc, c) ==
        IF c.restartable
          THEN [sidecars |-> acc.sidecars + gpuRequest(c),
                peak |-> Larger(acc.peak, acc.sidecars + gpuRequest(c))]
          ELSE [acc EXCEPT !.peak = Larger(@, acc.sidecars + gpuRequest(c))]
      last == FoldLeft(step, [sidecars |-> 0, peak |-> 0], spec.init)
      containers == SumFunction([i \in DOMAIN spec.containers |-> gpuRequest(spec.containers[i])])
  IN Larger(last.peak, containers + last.sidecars)

\* The pods of a list that hold GPUs of a node: bound to it and not over.
requestedByNode(pods, n) ==
  LET holding == {p \in DOMAIN pods : pods[p].node = n /\ pods[p].phase \notin {"Succeeded", "Failed"}}
  IN SumFunction([p \in holding |-> PodSpecGPURequest(pods[p].spec)])

-----------------------------------------------------------------------------
(* group.go: the groups and their arithmetic. *)

freeOn(node) == IF node.known THEN Larger(node.alloc - node.requested, 0) ELSE 0

\* The sums of a group, which are withheld when one of its nodes is unknown.
groupOf(value, names, nodes) ==
  LET known == \A n \in names : nodes[n].known
      free == [n \in names |-> freeOn(nodes[n])]
      ifKnown(x) == IF known THEN x ELSE 0
  IN [value |-> value, nodes |-> names, known |-> known,
      allocatable |-> SumFunction([n \in names |-> nodes[n].alloc]),
      requested |-> ifKnown(SumFunction([n \in names |-> nodes[n].requested])),
      free |-> ifKnown(SumFunction(free)),
      largestFreeNode |-> ifKnown(FoldFunction(Larger, 0, free))]

Carries(node, label) == label \in DOMAIN node.labels
anyNodeHas(nodes, label) == \E n \in DOMAIN nodes : Carries(nodes[n], label)

\* labelsInUse: of the labels the inventory keeps apart, those some node carries.
labelsInUse(nodes) ==
  {l \in ToSet(NVLinkLabels) \cup Tiers : anyNodeHas(nodes, l)}

\* One group for each value of the label, of the nodes that carry it.
groupsAt(nodes, label) ==
  LET carriers == {n \in DOMAIN nodes : Carries(nodes[n], label)}
      values == SetToSortSeq({nodes[n].labels[label] : n \in carriers}, <)
  IN [i \in DOMAIN values |->
        groupOf(values[i], {n \in carriers : nodes[n].labels[label] = values[i]}, nodes)]

groupsPerNode(nodes) ==
  LET names == SetToSortSeq(DOMAIN nodes, <)
  IN [i \in DOMAIN names |-> groupOf(names[i], {names[i]}, nodes)]

groupsWholeCluster(nodes) ==
  IF DOMAIN nodes = {} THEN <<>> ELSE <<groupOf(0, DOMAIN nodes, nodes)>>

tierLevels(nodes) ==
  SetToSortSeq(Tiers \cap labelsInUse(nodes), LAMBDA a, b : TierNumber[a] < TierNumber[b])

\* Mutant of levelsOf: the topologies are read as they are declared, widest first.
levelsOfForwards(nodes, topologies) ==
  LET own == <<LabelHostname>> \o SelectSeq(NVLinkLabels, LAMBDA l : l \in labelsInUse(nodes))
               \o tierLevels(nodes)
      add(keys, l) == IF l \in ToSet(keys) \/ ~anyNodeHas(nodes, l) THEN keys ELSE Append(keys, l)
  IN Append(FoldLeft(add, own, FlattenSeq(topologies)), LevelCluster)

\* The labels of the levels, narrowest first: the node, the NVLink side, the
\* tiers, what the Kueue topologies add to these, each backwards, and the cluster.
levelsOf(nodes, topologies) ==
  LET own == <<LabelHostname>> \o SelectSeq(NVLinkLabels, LAMBDA l : l \in labelsInUse(nodes))
               \o tierLevels(nodes)
      add(keys, l) == IF l \in ToSet(keys) \/ ~anyNodeHas(nodes, l) THEN keys ELSE Append(keys, l)
      declared == FlattenSeq([i \in DOMAIN topologies |-> Reverse(topologies[i])])
  IN Append(FoldLeft(add, own, declared), LevelCluster)

\* ParseTopology: the labels of the levels that name one.
ParseTopology(t) == SelectSeq(t.levels, LAMBDA l : l # "")

\* The topologies, in the order of their names, that a flavor references; one
\* without a level is passed over.
ReferencedTopologies(topologies, flavors) ==
  LET kept == SelectSeq(topologies, LAMBDA t : t.name \in flavors /\ ParseTopology(t) # <<>>)
  IN [i \in DOMAIN kept |-> ParseTopology(kept[i])]

\* Build: the levels of the report.
Build(nodes, topologies) ==
  LET keys == levelsOf(nodes, topologies)
      group(key) == CASE key = LabelHostname -> groupsPerNode(nodes)
                      [] key = LevelCluster -> groupsWholeCluster(nodes)
                      [] OTHER -> groupsAt(nodes, key)
  IN [i \in DOMAIN keys |-> [label |-> keys[i], groups |-> group(keys[i])]]

\* The nodes that carry some of the Topograph labels in use and not the others.
partialNodes(nodes) ==
  LET universe == labelsInUse(nodes) \ {"clique"}
      present(n) == {l \in universe : Carries(nodes[n], l)}
  IN {n \in DOMAIN nodes : present(n) # {} /\ present(n) # universe}

-----------------------------------------------------------------------------
(* job.go and fit.go: where a job fits. *)

Unset == -1

podsOf(j) ==
  LET pods == IF j.parallelism = Unset THEN 1 ELSE j.parallelism
  IN IF j.completions # Unset /\ j.completions < pods THEN j.completions ELSE pods

JobRequestFrom(j) == [pods |-> podsOf(j), gpus |-> PodSpecGPURequest(j.spec)]

\* Whether there is a placement to answer about.
Answerable(req) == req.pods > 0 /\ req.gpus > 0

placeableNodes(nodes) ==
  {n \in DOMAIN nodes : ~nodes[n].unschedulable /\ nodes[n].ready /\ nodes[n].known}

\* Mutant of fits: the group's free GPUs are one pool.
fitsPooled(free, pods, gpus) == pods > 0 /\ gpus > 0 /\ SumFunction(free) >= pods * gpus

\* Whole pods: what a node takes is rounded down.
fits(free, pods, gpus) ==
  pods > 0 /\ gpus > 0 /\ SumFunction([n \in DOMAIN free |-> free[n] \div gpus]) >= pods

freeOfGroup(g, nodes) == [n \in g.nodes \cap placeableNodes(nodes) |-> freeOn(nodes[n])]

\* The values of the groups that fit, level by level, and the first such level.
FitJob(levels, nodes, req) ==
  LET fitting(level) ==
        {level.groups[i].value : i \in {k \in DOMAIN level.groups :
            fits(freeOfGroup(level.groups[k], nodes), req.pods, req.gpus)}}
      some == {i \in DOMAIN levels : fitting(levels[i]) # {}}
  IN [levels |-> [i \in DOMAIN levels |-> [label |-> levels[i].label, groups |-> fitting(levels[i])]],
      smallest |-> IF some = {} THEN "" ELSE levels[CHOOSE i \in some : \A k \in some : i <= k].label,
      excluded |-> DOMAIN nodes \ placeableNodes(nodes)]
=============================================================================
