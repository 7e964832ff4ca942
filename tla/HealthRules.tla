----------------------------- MODULE HealthRules -----------------------------
(***************************************************************************)
(* The sixteen rules of pkg/health/rules over the input the health command *)
(* builds.  A rule is the set of findings it returns; the evidence, the    *)
(* messages and the order of a report are left out.  Every rule's version  *)
(* range is empty, so all of them apply whatever the operator's version.   *)
(***************************************************************************)
EXTENDS Inventory

CONSTANTS
  DriverRestartWindow,       \* in ticks
  DefaultUpgradeStuckAfter,
  UpgradeStuckAfter          \* --upgrade-stuck-after, as the user gave it

ASSUME WindowsAssumption ==
  /\ DriverRestartWindow \in Nat \ {0} /\ DefaultUpgradeStuckAfter \in Nat \ {0}
  /\ UpgradeStuckAfter \in Int

Info == 1
Warning == 2
Error == 3
Cluster == "cluster"   \* the node of a finding that is about none

Finding(code, sev, n, component) == [code |-> code, sev |-> sev, node |-> n, component |-> component]

\* health.Input, from a reading.
Input(r) ==
  LET all == BuildWithHinted(r)
  IN [nodes |-> {g \in all : ~g.hinted},
      hinted |-> {g \in all : g.hinted},
      policies |-> r.policies,
      installed |-> r.operator # {},
      events |-> r.events,
      domains |-> r.domains]

\* Mutant of everyNode: a hinted node has no GPUs to say anything of.
everyNodeGPU(in) == in.nodes

everyNode(in) == in.nodes \cup in.hinted

-----------------------------------------------------------------------------
(* policy.go: the ClusterPolicy that counts. *)

IsReady(policy) == policy.state = "ready"

activeClusterPolicy(in) ==
  LET ready == {i \in DOMAIN in.policies : IsReady(in.policies[i])}
  IN in.policies[IF ready = {} THEN 1 ELSE CHOOSE i \in ready : \A j \in ready : i <= j]

OperandEnabledInPolicy(in, field) ==
  in.policies # <<>> => field \notin activeClusterPolicy(in).off

-----------------------------------------------------------------------------
(* target.go: whether the operator runs its operands on a node. *)

DeployDisabled(value) == value \in {"false", "paused"}

operandDisabledOn(g, key) == key \in DOMAIN g.deploy /\ DeployDisabled(g.deploy[key])

everyOperandDisabled(g) ==
  DOMAIN g.deploy # {} /\ \A key \in DOMAIN g.deploy : DeployDisabled(g.deploy[key])

deployGatedComponents ==
  {"driver", "vgpu-manager", "container-toolkit", "device-plugin", "gpu-feature-discovery",
   "dcgm", "dcgm-exporter", "validator", "mig-manager", "node-status-exporter", "dra-driver"}

runsADeployGatedOperand(g) == \E pod \in g.operands : pod.component \in deployGatedComponents

Toleration(key, op, value, effect) == [key |-> key, op |-> op, value |-> value, effect |-> effect]

\* The operator's own, the node conditions' keys under one name.
defaultOperandTolerations ==
  {Toleration("gpu", "Exists", "", "NoSchedule"),
   Toleration("not-ready", "Exists", "", "NoExecute"),
   Toleration("pressure", "Exists", "", "NoSchedule")}

\* An operator that is not set is Equal.
PolicyTolerations(in) ==
  IF in.policies = <<>> THEN {}
  ELSE {[t EXCEPT !.op = IF @ = "" THEN "Equal" ELSE @] : t \in activeClusterPolicy(in).tolerations}

toleratedBy(taint, tolerations) ==
  \E t \in tolerations :
    /\ t.effect \in {"", taint.effect}
    /\ t.key \in {"", taint.key}
    /\ t.op = "Exists" \/ (t.op = "Equal" /\ t.key # "" /\ t.value = taint.value)

everyOperandTaintedOff(g, extra) ==
  \E taint \in g.taints :
    /\ taint.effect \in {"NoSchedule", "NoExecute"}
    /\ ~toleratedBy(taint, defaultOperandTolerations)
    /\ ~toleratedBy(taint, extra)

\* Mutant of OperatorTargets: any pod of the operator's namespace settles it.
OperatorTargetsAnyPod(g, extra) ==
  /\ ~everyOperandDisabled(g)
  /\ g.operands # {} \/ ~everyOperandTaintedOff(g, extra)

OperatorTargets(g, extra) ==
  /\ ~everyOperandDisabled(g)
  /\ runsADeployGatedOperand(g) \/ ~everyOperandTaintedOff(g, extra)

Targeted(in, g) == OperatorTargets(g, PolicyTolerations(in))

-----------------------------------------------------------------------------
(* rules.go: what several rules ask of a node. *)

isVirtualMachineWorkload(g) == g.workload \in {"vm-passthrough", "vm-vgpu"}

isMixedMIG(g) == g.alloc["mig"] > 0

operandsFor(g, component) == {pod \in g.operands : pod.component = component}

\* operandFor: the first of them is the only one.
ReadyOperand(g, component) ==
  operandsFor(g, component) # {} /\ (CHOOSE pod \in operandsFor(g, component) : TRUE).ready

UpgradeDone == "upgrade-done"
UpgradeFailed == "upgrade-failed"
upgradeStuckStates == {"cordon-required", "pod-restart-required", "validation-required"}

midUpgrade(g) == g.upgrade \notin {"", UpgradeDone, UpgradeFailed}

insideWindow(t, d) == t.observed /\ t.at # 0 /\ now - t.at < d

-----------------------------------------------------------------------------
(* The rules. *)

NodePCIWithoutGPULabel(in) ==
  {Finding("NV-NODE-001", Warning, g.name, "node") :
     g \in {h \in everyNode(in) : in.installed /\ h.pci /\ ~h.present /\ Targeted(in, h)}}

\* Mutant of NodeNoAllocatableGPUs: a node without capacity is not looked at.
NodeNoAllocatableGPUsListed(in) ==
  {Finding("NV-NODE-002", Error, g.name, "node") :
     g \in {h \in in.nodes :
              /\ h.present /\ h.allocatable <= 0 /\ h.mode # "dra"
              /\ ~isVirtualMachineWorkload(h) /\ Targeted(in, h) /\ ~isMixedMIG(h)}}

\* Of the MIG profiles one is enough: the sum is above zero when one of them is.
NodeNoAllocatableGPUs(in) ==
  {Finding("NV-NODE-002", Error, g.name, "node") :
     g \in {h \in everyNode(in) :
              /\ h.present /\ h.allocatable <= 0 /\ h.mode # "dra"
              /\ ~isVirtualMachineWorkload(h) /\ Targeted(in, h) /\ ~isMixedMIG(h)}}

NodeAllocatableBelowCapacity(in) ==
  {Finding("NV-NODE-003", Warning, g.name, "node") :
     g \in {h \in in.nodes :
              h.allocatable > 0 /\ h.allocatable < h.capacity /\ Targeted(in, h)}}

replicaFactor(g) == IF g.replicas < 1 THEN 1 ELSE g.replicas

NodeCountDiffersFromCapacity(in) ==
  {Finding("NV-NODE-004", Warning, g.name, "node") :
     g \in {h \in in.nodes :
              /\ h.count > 0 /\ ~isMixedMIG(h) /\ h.mode # "dra" /\ Targeted(in, h)
              /\ h.count * replicaFactor(h) # h.capacity}}

\* A condition NVSentinel reports, and a cordon.
NodeConditionOrCordon(in) ==
  {Finding("NV-NODE-005", Info, g.name, "node") :
     g \in {h \in in.nodes : h.sentinel \/ h.unschedulable}}

\* A policy without a state beside one that is ready is ignored, not broken.
OperatorClusterPolicyNotReady(in) ==
  LET all == {in.policies[i] : i \in DOMAIN in.policies}
      ignored(p) == p.state = "" /\ \E q \in all : IsReady(q) /\ q.name # p.name
  IN {Finding("NV-OP-001", IF ignored(p) THEN Warning ELSE Error, Cluster, "gpu-operator") :
        p \in {q \in all : ~IsReady(q)}}

OperatorOperandDisabled(in) ==
  UNION {{Finding("NV-OP-002", Info, g.name, key) :
            key \in {k \in DOMAIN g.deploy : operandDisabledOn(g, k)}} : g \in everyNode(in)}

\* The driver's deploy label has the name of its component.
DriverPodNotReady(in) ==
  LET faulty(g, pod) ==
        /\ pod.component \in {"driver", "vgpu-manager"}
        /\ ~operandDisabledOn(g, pod.component)
        /\ ~pod.ready \/ (pod.restarted /\ insideWindow(pod.died, DriverRestartWindow))
  IN UNION {{Finding("NV-DRV-001", IF midUpgrade(g) THEN Info ELSE Error, g.name, pod.component) :
               pod \in {p \in g.operands : in.installed /\ faulty(g, p)}} : g \in everyNode(in)}

\* A container that waits is not one that failed, unless it waits to be restarted.
toolkitFailure(c) ==
  IF c.state = "terminated" THEN c.cur.code # 0
  ELSE c.state = "CrashLoopBackOff" /\ lastTermination(c).observed /\ lastTermination(c).code # 0

ToolkitValidationFailed(in) ==
  {Finding("NV-CTK-001", Error, g.name, "container-toolkit") :
     g \in {h \in everyNode(in) :
              /\ in.installed
              /\ \E pod \in operandsFor(h, "validator") :
                   \E i \in DOMAIN pod.init :
                     pod.init[i].name = "toolkit-validation" /\ toolkitFailure(pod.init[i].status)}}

DevicePluginNotReady(in) ==
  {Finding("NV-DP-001", Error, g.name, "device-plugin") :
     g \in {h \in in.nodes :
              /\ in.installed /\ OperandEnabledInPolicy(in, "devicePlugin")
              /\ h.mode # "dra" /\ ~operandDisabledOn(h, "device-plugin")
              /\ ~ReadyOperand(h, "device-plugin")}}

DCGMExporterNotReady(in) ==
  {Finding("NV-DCGM-001", Warning, g.name, "dcgm-exporter") :
     g \in {h \in in.nodes :
              /\ in.installed /\ OperandEnabledInPolicy(in, "dcgmExporter")
              /\ ~operandDisabledOn(h, "dcgm-exporter")
              /\ ~ReadyOperand(h, "dcgm-exporter")}}

DevicePluginAndDRABoth(in) ==
  {Finding("NV-DRA-001", Info, g.name, "node") : g \in {h \in in.nodes : h.mode = "both"}}

configFinding(g) == g.config # "" /\ g.configState # "success"

strategyFinding(g) ==
  /\ g.capable
  /\ \/ g.strategy = "single" /\ isMixedMIG(g)
     \/ g.strategy = "mixed" /\ ~isMixedMIG(g) /\ g.config \notin {"", "all-disabled"}

MIGConfigNotApplied(in) ==
  {IF configFinding(g)
     THEN Finding("NV-MIG-001", IF g.configState = "failed" THEN Error ELSE Warning, g.name, "mig-manager")
     ELSE Finding("NV-MIG-001", Warning, g.name, "node") :
     g \in {h \in everyNode(in) :
              /\ ~isVirtualMachineWorkload(h) /\ Targeted(in, h)
              /\ configFinding(h) \/ strategyFinding(h)}}

\* A domain says of each node it covers whether it is ready there.
ComputeDomainNotReady(in) ==
  LET covered == {c \in in.domains \X in.nodes : c[2].name \in DOMAIN c[1]}
      imexDown(g) == operandsFor(g, "imex-daemon") # {} /\ ~ReadyOperand(g, "imex-daemon")
  IN {Finding("NV-CD-001", Info, c[2].name, "imex-daemon") :
        c \in {e \in covered : e[1][e[2].name] # "Ready" \/ imexDown(e[2])}}
     \cup {Finding("NV-CD-001", Info, c[2].name, "node") : c \in {e \in covered : e[2].clique = ""}}

\* The window falls back to the default for a value that is none.
upgradeStuckAfter ==
  IF UpgradeStuckAfter <= 0 THEN DefaultUpgradeStuckAfter ELSE UpgradeStuckAfter

\* The events that announce the state the node is in.
enteredState(in, g) == {e \in in.events : e.node = g.name /\ e.state = g.upgrade /\ e.at # 0}

\* Since the newest of them.
Elapsed(in, g) == now - (CHOOSE e \in enteredState(in, g) :
                           \A f \in enteredState(in, g) : f.at <= e.at).at

UpgradeStuck(in) ==
  LET dated(g) == enteredState(in, g) # {}
      says(g) == \/ g.upgrade = UpgradeFailed
                 \/ g.upgrade \in upgradeStuckStates /\ (dated(g) => Elapsed(in, g) >= upgradeStuckAfter)
      severity(g) == IF g.upgrade = UpgradeFailed THEN Error ELSE IF dated(g) THEN Warning ELSE Info
  IN {Finding("NV-UPG-001", severity(g), g.name, "node") : g \in {h \in everyNode(in) : says(h)}}

tiersInUse(in) == UNION {g.tiers : g \in in.nodes}

TopologyLabelsPartial(in) ==
  {Finding("NV-TOPO-001", Info, g.name, "node") :
     g \in {h \in in.nodes : ~(tiersInUse(in) \subseteq h.tiers)}}

\* All of them over one input.
AllWith(in) ==
  UNION {NodePCIWithoutGPULabel(in), NodeNoAllocatableGPUs(in), NodeAllocatableBelowCapacity(in),
         NodeCountDiffersFromCapacity(in), NodeConditionOrCordon(in),
         OperatorClusterPolicyNotReady(in), OperatorOperandDisabled(in), DriverPodNotReady(in),
         ToolkitValidationFailed(in), DevicePluginNotReady(in), DevicePluginAndDRABoth(in),
         MIGConfigNotApplied(in), DCGMExporterNotReady(in), ComputeDomainNotReady(in),
         UpgradeStuck(in), TopologyLabelsPartial(in)}

Findings(r) == AllWith(Input(r))
=============================================================================
