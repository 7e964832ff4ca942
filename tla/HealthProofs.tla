----------------------------- MODULE HealthProofs -----------------------------
(***************************************************************************)
(* Proofs about the rules, over a cluster that changes (HealthCluster) and *)
(* over a bundle of it (Bundle).                                           *)
(*                                                                         *)
(* LessIsNotWorse: for every cluster and whatever is refused, the alarms   *)
(* are among those of a run that read everything, but for three.  A node   *)
(* that was read with less is Less than the same node read with all, an    *)
(* input of such nodes is Lesser, and each rule is monotone in that order. *)
(*                                                                         *)
(* LostIsAlwaysSeen, BrokenIsAlwaysSeen and IntendedIsAlwaysQuiet: what    *)
(* the rules say of a live cluster is right, however many changes it goes  *)
(* through.  ClusterInv is what nodes, pods, events and policies can       *)
(* become, faults and all; SaneInv is what more is true of a node that no  *)
(* fault has struck.                                                       *)
(*                                                                         *)
(* GapsAreRead: what a bundle that is read back says is missing from it,   *)
(* whatever changes while it is gathered, whichever reads fail and         *)
(* whatever becomes of the files afterwards.  The invariant relates the    *)
(* history to the directory: a file is lost exactly when what stands under *)
(* its name is neither the objects nor a marker that they are not          *)
(* installed.                                                              *)
(*                                                                         *)
(* BundleAlwaysAgrees: a whole bundle of a cluster that stood still reads  *)
(* as the cluster does.  SteadyInv says that each file is what the cluster *)
(* still has.                                                              *)
(*                                                                         *)
(* TornAlwaysKeeps: an alarm of every moment of a cluster that did change  *)
(* is one of the whole bundle.  An alarm has Parts, what its rule asks of  *)
(* the node, the slice, the policy, the events and the pods; TornInv says  *)
(* that each file has its part of every alarm that has lasted so far, with *)
(* the pods and the events of the node that the nodes file has, and that   *)
(* needs what a cluster never takes back (CapInv, DateInv, Newest, Was).   *)
(***************************************************************************)
EXTENDS Bundle, SequenceTheorems, TLAPS

-----------------------------------------------------------------------------
(* Reading less. *)

\* What is read of a node whichever other reads were made.
Alike(g, h) ==
  /\ g.name = h.name /\ g.capacity = h.capacity /\ g.allocatable = h.allocatable
  /\ g.alloc = h.alloc /\ g.pci = h.pci /\ g.present = h.present /\ g.count = h.count
  /\ g.replicas = h.replicas /\ g.strategy = h.strategy /\ g.config = h.config
  /\ g.configState = h.configState /\ g.capable = h.capable /\ g.workload = h.workload
  /\ g.upgrade = h.upgrade /\ g.deploy = h.deploy /\ g.taints = h.taints

\* h is the node that g is when the reads in R are made too.
Less(R, g, h) ==
  /\ Alike(g, h)
  /\ g.operands \subseteq h.operands
  /\ "pods" \notin R => g.operands = h.operands
  /\ ~g.hinted => ~h.hinted
  /\ (g.mode # "dra" /\ h.mode = "dra") =>
       "resourceslices" \in R /\ g.hinted /\ node[h.name].slice

\* all is the input that in is when the reads in R are made too.
Lesser(R, in, all) ==
  /\ \A g \in everyNode(in) : \E h \in everyNode(all) : Less(R, g, h)
  /\ \A g \in in.nodes : ~g.hinted /\ \E h \in all.nodes : Less(R, g, h)
  /\ in.installed => all.installed /\ "operator" \notin R
  /\ in.policies = all.policies \/ (in.policies = <<>> /\ "clusterpolicies" \in R)
  /\ in.events = all.events \/ in.events = {}

\* What a refused read leaves of a reading.
LEMMA Reading ==
  ASSUME NEW R
  PROVE  /\ Live(R).nodes = node
         /\ Live(R).slices = IF "resourceslices" \in R THEN {} ELSE {n \in Nodes : node[n].slice}
         /\ Live(R).pods = IF "pods" \in R THEN {} ELSE pods
         /\ Live(R).operator =
              IF "operator" \in R THEN {} ELSE {p \in pods : Label(p, "app") = "gpu-operator"}
         /\ Live(R).policies = IF "clusterpolicies" \in R THEN <<>> ELSE policies
         /\ Live(R).events = IF "events" \in R THEN {} ELSE events
BY DEF Live

\* A node that is built has what the Node object says, and a mode that its slice and
\* its capacity decide.
LEMMA BuiltNode ==
  ASSUME NEW r, NEW n, NEW operands
  PROVE  LET g == buildNode(r, n, operands) IN
         /\ g.name = n /\ g.operands = operands /\ g.hinted = ~isGPUNode(r, n)
         /\ g.mode = mode(r, n)
         /\ g.capacity = wholeGPUs(r.nodes[n].cap) /\ g.allocatable = wholeGPUs(r.nodes[n].alloc)
         /\ g.alloc = r.nodes[n].alloc /\ g.pci = r.nodes[n].pci
         /\ g.present = r.nodes[n].present /\ g.count = r.nodes[n].count
         /\ g.replicas = r.nodes[n].replicas /\ g.strategy = r.nodes[n].strategy
         /\ g.config = r.nodes[n].config /\ g.configState = r.nodes[n].configState
         /\ g.capable = r.nodes[n].capable /\ g.workload = r.nodes[n].workload
         /\ g.upgrade = r.nodes[n].upgrade /\ g.deploy = r.nodes[n].deploy
         /\ g.taints = r.nodes[n].taints
BY DEF buildNode

\* When a node is a DRA node.
LEMMA DRAMode ==
  ASSUME NEW r, NEW n
  PROVE  mode(r, n) = "dra" <=> ~byPlugin(r, n) /\ bySlice(r, n)
BY DEF mode

\* A node of a reading is one of the whole reading, and less.
LEMMA NodeIsLess ==
  ASSUME DOMAIN node = Nodes, NEW R, NEW g \in BuildWithHinted(Live(R))
  PROVE  \E h \in BuildWithHinted(Live({})) : Less(R, g, h)
<1> DEFINE some == Live(R)
           all == Live({})
<1>1. PICK n \in DOMAIN some.nodes :
        /\ isGPUNode(some, n) \/ hasHintLabel(some, n)
        /\ g = buildNode(some, n, operandsByNode(some.pods)[n])
  BY DEF BuildWithHinted
<1>2. some.nodes = node /\ all.nodes = node /\ n \in Nodes
  BY <1>1, Reading
<1>3. /\ byPlugin(some, n) <=> byPlugin(all, n)
      /\ hasHintLabel(some, n) <=> hasHintLabel(all, n)
  BY <1>2 DEF byPlugin, hasHintLabel
<1>4. /\ bySlice(some, n) => bySlice(all, n)
      /\ bySlice(all, n) => node[n].slice
      /\ (bySlice(all, n) /\ ~bySlice(some, n)) => "resourceslices" \in R
  BY <1>2, Reading DEF bySlice
<1>5. /\ operandsByNode(some.pods)[n] \subseteq operandsByNode(all.pods)[n]
      /\ "pods" \notin R => operandsByNode(some.pods)[n] = operandsByNode(all.pods)[n]
  <2>1. CASE "pods" \in R
    <3>1. some.pods = {}
      BY <2>1, Reading
    <3>2. operandsByNode(some.pods)[n] = {}
      BY <1>2, <3>1 DEF operandsByNode
    <3> QED
      BY <2>1, <3>2
  <2>2. CASE "pods" \notin R
    <3>1. some.pods = all.pods
      BY <2>2, Reading
    <3> QED
      BY <3>1
  <2> QED
    BY <2>1, <2>2
<1> DEFINE h == buildNode(all, n, operandsByNode(all.pods)[n])
<1>6. h \in BuildWithHinted(all)
  BY <1>1, <1>2, <1>3, <1>4 DEF BuildWithHinted, isGPUNode
<1>7. /\ g.hinted = ~isGPUNode(some, n) /\ h.hinted = ~isGPUNode(all, n)
      /\ g.mode = mode(some, n) /\ h.mode = mode(all, n) /\ h.name = n
      /\ g.operands = operandsByNode(some.pods)[n] /\ h.operands = operandsByNode(all.pods)[n]
  BY <1>1, BuiltNode
<1>8. Alike(g, h)
  BY <1>1, <1>2, BuiltNode DEF Alike
<1>9. Less(R, g, h)
  BY <1>3, <1>4, <1>5, <1>7, <1>8, DRAMode DEF Less, isGPUNode
<1> QED
  BY <1>6, <1>9

\* And so the input is less.
LEMMA InputIsLess ==
  ASSUME DOMAIN node = Nodes, NEW R
  PROVE  Lesser(R, Input(Live(R)), Input(Live({})))
<1> DEFINE some == Live(R)
           all == Live({})
           in == Input(some)
           full == Input(all)
<1>1. \A r : /\ Input(r).nodes = {g \in BuildWithHinted(r) : ~g.hinted}
             /\ everyNode(Input(r)) = BuildWithHinted(r)
             /\ Input(r).installed = (r.operator # {})
             /\ Input(r).policies = r.policies /\ Input(r).events = r.events
  <2> SUFFICES ASSUME NEW r
               PROVE  /\ Input(r).nodes = {g \in BuildWithHinted(r) : ~g.hinted}
                      /\ Input(r).hinted = {g \in BuildWithHinted(r) : g.hinted}
                      /\ Input(r).installed = (r.operator # {})
                      /\ Input(r).policies = r.policies /\ Input(r).events = r.events
    BY DEF everyNode
  <2> QED
    BY DEF Input
<1>2. /\ in.nodes = {g \in BuildWithHinted(some) : ~g.hinted}
      /\ full.nodes = {g \in BuildWithHinted(all) : ~g.hinted}
      /\ everyNode(in) = BuildWithHinted(some) /\ everyNode(full) = BuildWithHinted(all)
  BY <1>1
<1>3. /\ in.installed = (some.operator # {}) /\ full.installed = (all.operator # {})
      /\ in.policies = some.policies /\ full.policies = all.policies
      /\ in.events = some.events /\ full.events = all.events
  BY <1>1
<1>4. \A g \in BuildWithHinted(some) : \E h \in BuildWithHinted(all) : Less(R, g, h)
  BY NodeIsLess
<1>5. /\ some.operator \in {{}, all.operator} /\ ("operator" \in R => some.operator = {})
      /\ some.policies = all.policies \/ (some.policies = <<>> /\ "clusterpolicies" \in R)
      /\ some.events \in {{}, all.events}
  <2>1. /\ all.operator = {p \in pods : Label(p, "app") = "gpu-operator"}
        /\ all.policies = policies /\ all.events = events
    BY Reading
  <2> QED
    BY <2>1, Reading
<1> HIDE DEF in, full, some, all
<1>6. \A g \in in.nodes : ~g.hinted /\ \E h \in full.nodes : Less(R, g, h)
  BY <1>2, <1>4 DEF Less
<1>7. Lesser(R, in, full)
  BY <1>2, <1>3, <1>4, <1>5, <1>6 DEF Lesser
<1> QED
  BY <1>7 DEF in, full, some, all

-----------------------------------------------------------------------------
(* The rules are monotone. *)

\* The tolerations of the policy, and what the rules ask of it, are the policies'.
Active(list) ==
  LET ready == {i \in DOMAIN list : IsReady(list[i])}
  IN list[IF ready = {} THEN 1 ELSE CHOOSE i \in ready : \A j \in ready : i <= j]

\* Two inputs with the same policies have the same active one.
LEMMA SamePolicy ==
  ASSUME NEW in, NEW all, in.policies = all.policies
  PROVE  /\ PolicyTolerations(in) = PolicyTolerations(all)
         /\ \A field : OperandEnabledInPolicy(in, field) <=> OperandEnabledInPolicy(all, field)
<1>1. \A i : activeClusterPolicy(i) = Active(i.policies)
  BY DEF activeClusterPolicy, Active
<1>2. activeClusterPolicy(in) = activeClusterPolicy(all)
  BY <1>1
<1> QED
  BY <1>2 DEF PolicyTolerations, OperandEnabledInPolicy

\* A node the operator targets as far as less was read is one that it targets: what
\* was not read can only add operands and tolerations.
LEMMA TargetedIsMonotone ==
  ASSUME NEW R, NEW in, NEW all, Lesser(R, in, all), NEW g, NEW h, Less(R, g, h), Targeted(in, g)
  PROVE  Targeted(all, h)
<1>1. PolicyTolerations(in) \subseteq PolicyTolerations(all)
  <2>1. CASE in.policies = all.policies
    BY <2>1, SamePolicy
  <2>2. CASE in.policies = <<>>
    BY <2>2 DEF PolicyTolerations
  <2> QED
    BY <2>1, <2>2 DEF Lesser
<1>2. everyOperandTaintedOff(h, PolicyTolerations(all)) => everyOperandTaintedOff(g, PolicyTolerations(in))
  <2>1. \A taint : toleratedBy(taint, PolicyTolerations(in)) => toleratedBy(taint, PolicyTolerations(all))
    BY <1>1, Zenon DEF toleratedBy
  <2>2. h.taints = g.taints
    BY DEF Less, Alike
  <2> QED
    BY <2>1, <2>2 DEF everyOperandTaintedOff
<1>3. runsADeployGatedOperand(g) => runsADeployGatedOperand(h)
  BY DEF runsADeployGatedOperand, Less
<1>4. everyOperandDisabled(h) <=> everyOperandDisabled(g)
  BY DEF everyOperandDisabled, Less, Alike
<1> QED
  BY <1>2, <1>3, <1>4 DEF Targeted, OperatorTargets

\* A GPU node is a DRA node with everything read only if it is one with less.
LEMMA ListedMode ==
  ASSUME NEW R, NEW in, NEW all, Lesser(R, in, all), NEW g \in in.nodes
  PROVE  \E h \in all.nodes : Less(R, g, h) /\ (g.mode # "dra" => h.mode # "dra")
BY DEF Lesser, Less

\* What the rules say of what the Node object alone has.
LEMMA NodeRulesAreMonotone ==
  ASSUME NEW R, NEW in, NEW all, Lesser(R, in, all)
  PROVE  /\ NodePCIWithoutGPULabel(in) \subseteq NodePCIWithoutGPULabel(all)
         /\ NodeAllocatableBelowCapacity(in) \subseteq NodeAllocatableBelowCapacity(all)
         /\ NodeCountDiffersFromCapacity(in) \subseteq NodeCountDiffersFromCapacity(all)
         /\ MIGConfigNotApplied(in) \subseteq MIGConfigNotApplied(all)
<1>1. NodePCIWithoutGPULabel(in) \subseteq NodePCIWithoutGPULabel(all)
  <2> SUFFICES ASSUME NEW g \in everyNode(in), in.installed, g.pci, ~g.present, Targeted(in, g)
               PROVE  Finding("NV-NODE-001", Warning, g.name, "node") \in NodePCIWithoutGPULabel(all)
    BY DEF NodePCIWithoutGPULabel
  <2>1. PICK h \in everyNode(all) : Less(R, g, h)
    BY DEF Lesser
  <2>2. Targeted(all, h) /\ all.installed
    BY <2>1, TargetedIsMonotone DEF Lesser
  <2>3. h.name = g.name /\ h.pci /\ ~h.present
    BY <2>1 DEF Less, Alike
  <2> QED
    BY <2>2, <2>3 DEF NodePCIWithoutGPULabel
<1>2. NodeAllocatableBelowCapacity(in) \subseteq NodeAllocatableBelowCapacity(all)
  <2> SUFFICES ASSUME NEW g \in in.nodes, g.allocatable > 0, g.allocatable < g.capacity, Targeted(in, g)
               PROVE  Finding("NV-NODE-003", Warning, g.name, "node")
                        \in NodeAllocatableBelowCapacity(all)
    BY DEF NodeAllocatableBelowCapacity
  <2>1. PICK h \in all.nodes : Less(R, g, h)
    BY DEF Lesser
  <2>2. Targeted(all, h)
    BY <2>1, TargetedIsMonotone
  <2>3. h.name = g.name /\ h.allocatable > 0 /\ h.allocatable < h.capacity
    BY <2>1 DEF Less, Alike
  <2> QED
    BY <2>2, <2>3 DEF NodeAllocatableBelowCapacity
<1>3. NodeCountDiffersFromCapacity(in) \subseteq NodeCountDiffersFromCapacity(all)
  <2> SUFFICES ASSUME NEW g \in in.nodes, g.count > 0, ~isMixedMIG(g), g.mode # "dra", Targeted(in, g),
                      g.count * replicaFactor(g) # g.capacity
               PROVE  Finding("NV-NODE-004", Warning, g.name, "node")
                        \in NodeCountDiffersFromCapacity(all)
    BY DEF NodeCountDiffersFromCapacity
  <2>1. PICK h \in all.nodes : Less(R, g, h) /\ h.mode # "dra"
    BY ListedMode
  <2>2. Targeted(all, h)
    BY <2>1, TargetedIsMonotone
  <2>3. /\ h.name = g.name /\ h.count > 0 /\ ~isMixedMIG(h)
        /\ h.count * replicaFactor(h) # h.capacity
    BY <2>1 DEF Less, Alike, isMixedMIG, replicaFactor
  <2> QED
    BY <2>1, <2>2, <2>3 DEF NodeCountDiffersFromCapacity
<1>4. MIGConfigNotApplied(in) \subseteq MIGConfigNotApplied(all)
  <2> DEFINE says(g) ==
        IF configFinding(g)
          THEN Finding("NV-MIG-001", IF g.configState = "failed" THEN Error ELSE Warning, g.name, "mig-manager")
          ELSE Finding("NV-MIG-001", Warning, g.name, "node")
  <2> SUFFICES ASSUME NEW g \in everyNode(in), ~isVirtualMachineWorkload(g), Targeted(in, g),
                      configFinding(g) \/ strategyFinding(g)
               PROVE  says(g) \in MIGConfigNotApplied(all)
    BY DEF MIGConfigNotApplied
  <2>1. PICK h \in everyNode(all) : Less(R, g, h)
    BY DEF Lesser
  <2>2. Targeted(all, h)
    BY <2>1, TargetedIsMonotone
  <2>3. /\ ~isVirtualMachineWorkload(h)
        /\ configFinding(h) <=> configFinding(g)
        /\ strategyFinding(h) <=> strategyFinding(g)
        /\ h.name = g.name /\ h.configState = g.configState
    <3>1. Alike(g, h)
      BY <2>1 DEF Less
    <3>2. isMixedMIG(h) <=> isMixedMIG(g)
      BY <3>1 DEF Alike, isMixedMIG
    <3>3. strategyFinding(h) <=> strategyFinding(g)
      BY <3>1, <3>2, Zenon DEF Alike, strategyFinding
    <3>4. configFinding(h) <=> configFinding(g)
      BY <3>1, Zenon DEF Alike, configFinding
    <3> QED
      BY <3>1, <3>3, <3>4 DEF Alike, isVirtualMachineWorkload
  <2>4. says(h) \in MIGConfigNotApplied(all)
    BY <2>2, <2>3 DEF MIGConfigNotApplied
  <2>5. says(h) = says(g)
    BY <2>3
  <2> QED
    BY <2>4, <2>5
<1> QED
  BY <1>1, <1>2, <1>3, <1>4

\* A node that looks empty is empty, or it has a slice and the slices were not read.
LEMMA EmptyNodeIsEmpty ==
  ASSUME NEW R, NEW in, NEW all, Lesser(R, in, all), NEW f \in NodeNoAllocatableGPUs(in)
  PROVE  \/ f \in NodeNoAllocatableGPUs(all)
         \/ "resourceslices" \in R /\ f.code = "NV-NODE-002" /\ node[f.node].slice
<1>1. PICK g \in everyNode(in) :
        /\ f = Finding("NV-NODE-002", Error, g.name, "node")
        /\ g.present /\ g.allocatable <= 0 /\ g.mode # "dra"
        /\ ~isVirtualMachineWorkload(g) /\ Targeted(in, g) /\ ~isMixedMIG(g)
  BY DEF NodeNoAllocatableGPUs
<1>2. PICK h \in everyNode(all) : Less(R, g, h)
  BY DEF Lesser
<1>3. /\ h.name = g.name /\ h.present /\ h.allocatable <= 0
      /\ ~isVirtualMachineWorkload(h) /\ ~isMixedMIG(h)
  BY <1>1, <1>2 DEF Less, Alike, isVirtualMachineWorkload, isMixedMIG
<1>4. Targeted(all, h)
  BY <1>1, <1>2, TargetedIsMonotone
<1>5. CASE h.mode # "dra"
  BY <1>1, <1>3, <1>4, <1>5 DEF NodeNoAllocatableGPUs
<1>6. CASE h.mode = "dra"
  <2>1. "resourceslices" \in R /\ node[h.name].slice
    BY <1>1, <1>2, <1>6 DEF Less
  <2>2. f.code = "NV-NODE-002" /\ f.node = h.name
    BY <1>1, <1>3 DEF Finding
  <2> QED
    BY <2>1, <2>2
<1> QED
  BY <1>5, <1>6

\* What the rules say of a pod that was read.
LEMMA PodRulesAreMonotone ==
  ASSUME NEW R, NEW in, NEW all, Lesser(R, in, all)
  PROVE  /\ DriverPodNotReady(in) \subseteq DriverPodNotReady(all)
         /\ ToolkitValidationFailed(in) \subseteq ToolkitValidationFailed(all)
<1>1. DriverPodNotReady(in) \subseteq DriverPodNotReady(all)
  <2> DEFINE faulty(g, pod) ==
               /\ pod.component \in {"driver", "vgpu-manager"}
               /\ ~operandDisabledOn(g, pod.component)
               /\ ~pod.ready \/ (pod.restarted /\ insideWindow(pod.died, DriverRestartWindow))
             says(g, pod) ==
               Finding("NV-DRV-001", IF midUpgrade(g) THEN Info ELSE Error, g.name, pod.component)
  <2> SUFFICES ASSUME NEW g \in everyNode(in), NEW pod \in g.operands, in.installed, faulty(g, pod)
               PROVE  says(g, pod) \in DriverPodNotReady(all)
    BY DEF DriverPodNotReady
  <2>1. PICK h \in everyNode(all) : Less(R, g, h)
    BY DEF Lesser
  <2>2. /\ pod \in h.operands /\ all.installed /\ g.name = h.name
        /\ midUpgrade(g) <=> midUpgrade(h)
        /\ operandDisabledOn(g, pod.component) <=> operandDisabledOn(h, pod.component)
    BY <2>1 DEF Less, Alike, Lesser, midUpgrade, operandDisabledOn
  <2>3. faulty(h, pod) /\ says(g, pod) = says(h, pod)
    BY <2>2
  <2>4. says(h, pod) \in DriverPodNotReady(all)
    BY <2>2, <2>3 DEF DriverPodNotReady
  <2> QED
    BY <2>3, <2>4
<1>2. ToolkitValidationFailed(in) \subseteq ToolkitValidationFailed(all)
  <2> DEFINE fails(pod) ==
        \E i \in DOMAIN pod.init :
          pod.init[i].name = "toolkit-validation" /\ toolkitFailure(pod.init[i].status)
  <2> SUFFICES ASSUME NEW g \in everyNode(in), in.installed,
                      NEW pod \in operandsFor(g, "validator"), fails(pod)
               PROVE  Finding("NV-CTK-001", Error, g.name, "container-toolkit")
                        \in ToolkitValidationFailed(all)
    BY DEF ToolkitValidationFailed
  <2>1. PICK h \in everyNode(all) : Less(R, g, h)
    BY DEF Lesser
  <2>2. pod \in operandsFor(h, "validator") /\ all.installed /\ g.name = h.name
    BY <2>1 DEF Less, Alike, Lesser, operandsFor
  <2> QED
    BY <2>2 DEF ToolkitValidationFailed
<1> QED
  BY <1>1, <1>2

\* An operand that looks missing is, when the operator's pods, all pods and the
\* policies were read; without the operator's nothing is said.
LEMMA MissingOperandIsMissing ==
  ASSUME NEW R, NEW in, NEW all, Lesser(R, in, all),
         "clusterpolicies" \notin R, "pods" \in R => "operator" \in R
  PROVE  /\ DevicePluginNotReady(in) \subseteq DevicePluginNotReady(all)
         /\ DCGMExporterNotReady(in) \subseteq DCGMExporterNotReady(all)
<1> DEFINE first(S) == (CHOOSE pod \in S : TRUE).ready
<1>1. CASE ~in.installed
  BY <1>1 DEF DevicePluginNotReady, DCGMExporterNotReady
<1>2. CASE in.installed
  <2>1. "pods" \notin R /\ all.installed /\ in.policies = all.policies
    BY <1>2 DEF Lesser
  <2>2. \A field : OperandEnabledInPolicy(in, field) <=> OperandEnabledInPolicy(all, field)
    BY <2>1, SamePolicy
  <2>3. \A g, c : ReadyOperand(g, c) <=> (operandsFor(g, c) # {} /\ first(operandsFor(g, c)))
    BY DEF ReadyOperand
  <2>4. ASSUME NEW g, NEW h, Less(R, g, h), NEW c
        PROVE  /\ g.name = h.name /\ (ReadyOperand(g, c) <=> ReadyOperand(h, c))
               /\ operandDisabledOn(g, c) <=> operandDisabledOn(h, c)
    <3>1. operandsFor(g, c) = operandsFor(h, c)
      BY <2>1, <2>4 DEF Less, operandsFor
    <3> HIDE DEF first
    <3> QED
      BY <2>3, <2>4, <3>1 DEF Less, Alike, operandDisabledOn
  <2>5. DevicePluginNotReady(in) \subseteq DevicePluginNotReady(all)
    <3> SUFFICES ASSUME NEW g \in in.nodes, OperandEnabledInPolicy(in, "devicePlugin"),
                        g.mode # "dra", ~operandDisabledOn(g, "device-plugin"),
                        ~ReadyOperand(g, "device-plugin")
                 PROVE  Finding("NV-DP-001", Error, g.name, "device-plugin")
                          \in DevicePluginNotReady(all)
      BY DEF DevicePluginNotReady
    <3>1. PICK h \in all.nodes : Less(R, g, h) /\ h.mode # "dra"
      BY ListedMode
    <3>2. g.name = h.name /\ ~ReadyOperand(h, "device-plugin") /\ ~operandDisabledOn(h, "device-plugin")
      BY <2>4, <3>1
    <3> QED
      BY <2>1, <2>2, <3>1, <3>2 DEF DevicePluginNotReady
  <2>6. DCGMExporterNotReady(in) \subseteq DCGMExporterNotReady(all)
    <3> SUFFICES ASSUME NEW g \in in.nodes, OperandEnabledInPolicy(in, "dcgmExporter"),
                        ~operandDisabledOn(g, "dcgm-exporter"), ~ReadyOperand(g, "dcgm-exporter")
                 PROVE  Finding("NV-DCGM-001", Warning, g.name, "dcgm-exporter")
                          \in DCGMExporterNotReady(all)
      BY DEF DCGMExporterNotReady
    <3>1. PICK h \in all.nodes : Less(R, g, h)
      BY DEF Lesser
    <3>2. g.name = h.name /\ ~ReadyOperand(h, "dcgm-exporter") /\ ~operandDisabledOn(h, "dcgm-exporter")
      BY <2>4, <3>1
    <3> QED
      BY <2>1, <2>2, <3>1, <3>2 DEF DCGMExporterNotReady
  <2> QED
    BY <2>5, <2>6
<1> QED
  BY <1>1, <1>2

\* A node that is stuck in an upgrade is: without the events it is only mentioned.
LEMMA StuckIsStuck ==
  ASSUME NEW R, NEW in, NEW all, Lesser(R, in, all), NEW f \in UpgradeStuck(in), f.sev >= Warning
  PROVE  f \in UpgradeStuck(all)
<1> DEFINE newest(S) == (CHOOSE e \in S : \A d \in S : d.at <= e.at).at
           dated(i, g) == enteredState(i, g) # {}
           says(i, g) ==
             \/ g.upgrade = UpgradeFailed
             \/ g.upgrade \in upgradeStuckStates /\ (dated(i, g) => Elapsed(i, g) >= upgradeStuckAfter)
           severity(i, g) ==
             IF g.upgrade = UpgradeFailed THEN Error ELSE IF dated(i, g) THEN Warning ELSE Info
           finding(i, g) == Finding("NV-UPG-001", severity(i, g), g.name, "node")
<1>1. \A i : UpgradeStuck(i) = {finding(i, g) : g \in {h \in everyNode(i) : says(i, h)}}
  BY DEF UpgradeStuck
<1>2. \A i, g : Elapsed(i, g) = now - newest(enteredState(i, g))
  BY DEF Elapsed
<1>3. PICK g \in everyNode(in) : says(in, g) /\ f = finding(in, g)
  BY <1>1
<1>4. PICK h \in everyNode(all) : Less(R, g, h)
  BY DEF Lesser
<1>5. g.name = h.name /\ g.upgrade = h.upgrade
  BY <1>4 DEF Less, Alike
<1>6. CASE g.upgrade = UpgradeFailed
  <2>1. says(all, h) /\ finding(all, h) = finding(in, g)
    BY <1>5, <1>6
  <2> QED
    BY <1>1, <1>3, <2>1
<1>7. CASE g.upgrade # UpgradeFailed
  <2>1. f.sev = IF dated(in, g) THEN Warning ELSE Info
    BY <1>3, <1>7 DEF Finding
  <2>2. dated(in, g)
    BY <2>1 DEF Warning, Info
  <2>3. in.events # {}
    BY <2>2 DEF enteredState
  <2>4. enteredState(in, g) = enteredState(all, h)
    BY <1>5, <2>3 DEF Lesser, enteredState
  <2> HIDE DEF newest
  <2>5. Elapsed(in, g) = Elapsed(all, h)
    BY <1>2, <2>4
  <2>6. says(all, h) /\ finding(all, h) = finding(in, g)
    BY <1>3, <1>5, <2>4, <2>5
  <2> QED
    BY <1>1, <1>3, <2>6
<1> QED
  BY <1>6, <1>7

\* The policies are the same, or there is none to speak of.
LEMMA PolicyRuleIsMonotone ==
  ASSUME NEW R, NEW in, NEW all, Lesser(R, in, all)
  PROVE  OperatorClusterPolicyNotReady(in) \subseteq OperatorClusterPolicyNotReady(all)
<1>1. CASE in.policies = all.policies
  BY <1>1 DEF OperatorClusterPolicyNotReady
<1>2. CASE in.policies = <<>>
  BY <1>2 DEF OperatorClusterPolicyNotReady
<1> QED
  BY <1>1, <1>2 DEF Lesser

\* The other rules only inform.
LEMMA Informing ==
  ASSUME NEW in, NEW f,
         \/ f \in NodeConditionOrCordon(in) \/ f \in OperatorOperandDisabled(in)
         \/ f \in DevicePluginAndDRABoth(in) \/ f \in ComputeDomainNotReady(in)
         \/ f \in TopologyLabelsPartial(in)
  PROVE  ~(f.sev >= Warning)
<1>1. f.sev = Info
  <2>1. \A code, n, component : Finding(code, Info, n, component).sev = Info
    BY DEF Finding
  <2>2. CASE f \in NodeConditionOrCordon(in) \/ f \in DevicePluginAndDRABoth(in)
             \/ f \in TopologyLabelsPartial(in)
    BY <2>1, <2>2 DEF NodeConditionOrCordon, DevicePluginAndDRABoth, TopologyLabelsPartial
  <2>3. CASE f \in OperatorOperandDisabled(in)
    BY <2>1, <2>3 DEF OperatorOperandDisabled
  <2>4. CASE f \in ComputeDomainNotReady(in)
    <3>1. \E c, component : f = Finding("NV-CD-001", Info, c[2].name, component)
      BY <2>4, Zenon DEF ComputeDomainNotReady
    <3> QED
      BY <2>1, <3>1
  <2> QED
    BY <2>2, <2>3, <2>4
<1> QED
  BY <1>1 DEF Info, Warning

\* What a rule's findings are called.
LEMMA OperandCodes ==
  ASSUME NEW in, NEW f, f \in DevicePluginNotReady(in) \/ f \in DCGMExporterNotReady(in)
  PROVE  f.code \in {"NV-DP-001", "NV-DCGM-001"}
BY DEF DevicePluginNotReady, DCGMExporterNotReady, Finding

\* An alarm over less is one over everything, but for the three that are named.
LEMMA AlarmIsAlarm ==
  ASSUME DOMAIN node = Nodes, NEW R, NEW f \in Alarms(R), f \notin Alarms({})
  PROVE  \/ "resourceslices" \in R /\ f.code = "NV-NODE-002" /\ node[f.node].slice
         \/ "clusterpolicies" \in R /\ f.code \in {"NV-DP-001", "NV-DCGM-001"}
         \/ "pods" \in R /\ "operator" \notin R /\ f.code \in {"NV-DP-001", "NV-DCGM-001"}
<1> DEFINE in == Input(Live(R))
           all == Input(Live({}))
<1>1. Lesser(R, in, all)
  BY InputIsLess
<1>2. f \in AllWith(in) /\ f.sev >= Warning /\ f \notin AllWith(all)
  BY DEF Alarms, Findings
<1> HIDE DEF in, all
<1>3. CASE f \in NodePCIWithoutGPULabel(in) \/ f \in NodeAllocatableBelowCapacity(in)
           \/ f \in NodeCountDiffersFromCapacity(in) \/ f \in MIGConfigNotApplied(in)
  BY <1>1, <1>2, <1>3, NodeRulesAreMonotone DEF AllWith
<1>4. CASE f \in DriverPodNotReady(in) \/ f \in ToolkitValidationFailed(in)
  BY <1>1, <1>2, <1>4, PodRulesAreMonotone DEF AllWith
<1>5. CASE f \in NodeNoAllocatableGPUs(in)
  BY <1>1, <1>2, <1>5, EmptyNodeIsEmpty DEF AllWith
<1>6. CASE f \in DevicePluginNotReady(in) \/ f \in DCGMExporterNotReady(in)
  <2>1. f.code \in {"NV-DP-001", "NV-DCGM-001"}
    BY <1>6, OperandCodes
  <2>2. "clusterpolicies" \in R \/ ("pods" \in R /\ "operator" \notin R)
    BY <1>1, <1>2, <1>6, MissingOperandIsMissing DEF AllWith
  <2> QED
    BY <2>1, <2>2
<1>7. CASE f \in UpgradeStuck(in)
  BY <1>1, <1>2, <1>7, StuckIsStuck DEF AllWith
<1>8. CASE f \in OperatorClusterPolicyNotReady(in)
  BY <1>1, <1>2, <1>8, PolicyRuleIsMonotone DEF AllWith
<1>9. CASE f \in NodeConditionOrCordon(in) \/ f \in OperatorOperandDisabled(in)
           \/ f \in DevicePluginAndDRABoth(in) \/ f \in ComputeDomainNotReady(in)
           \/ f \in TopologyLabelsPartial(in)
  BY <1>2, <1>9, Informing
<1> QED
  BY <1>2, <1>3, <1>4, <1>5, <1>6, <1>7, <1>8, <1>9 DEF AllWith

\* No step of the cluster makes or removes a node.
LEMMA NodesStay ==
  ASSUME DOMAIN node = Nodes, [Next]_vars
  PROVE  DOMAIN node' = Nodes
<1>1. \A n, fields : SetNode(n, fields) => DOMAIN node' = Nodes
  BY DEF SetNode
<1>2. \A n, alloc, fields : Advertise(n, alloc, fields) => DOMAIN node' = Nodes
  BY DEF Advertise
<1>3. ASSUME NEW n \in Changing,
             \/ DriverFails(n) \/ ToolkitFails(n) \/ ImexFails(n) \/ JoinDomain(n)
             \/ DeviceUnhealthy(n)
      PROVE  DOMAIN node' = Nodes
  BY <1>3 DEF DriverFails, ToolkitFails, ImexFails, JoinDomain, DeviceUnhealthy
<1>4. ASSUME NEW n \in Changing,
             \/ PluginStops(n) \/ ReconfigureFails(n) \/ RetirePlugin(n) \/ Repartition(n) \/ Share(n)
      PROVE  DOMAIN node' = Nodes
  <2>1. \E alloc, fields : Advertise(n, alloc, fields)
    BY <1>4, Zenon DEF PluginStops, ReconfigureFails, RetirePlugin, Repartition, Share
  <2> QED
    BY <1>2, <2>1, Zenon
<1>5. ASSUME NEW n \in Changing,
             \/ SliceWithdrawn(n) \/ PublishSlice(n) \/ Pause(n) \/ Relabel(n) \/ Unlabel(n)
             \/ \E state : UpgradeStep(n, state)
      PROVE  DOMAIN node' = Nodes
  <2>1. \E alloc, fields : SetNode(n, fields) \/ Advertise(n, alloc, fields)
    BY <1>5, Zenon DEF SliceWithdrawn, PublishSlice, Pause, Relabel, Unlabel, UpgradeStep
  <2> QED
    BY <1>1, <1>2, <2>1, Zenon
<1>6. CASE DisableOperand \/ PolicyChanges \/ Tick \/ UNCHANGED vars
  <2>1. node' = node
    BY <1>6, Zenon DEF DisableOperand, PolicyChanges, Tick, vars, objects
  <2> QED
    BY <2>1
<1> QED
  BY <1>3, <1>4, <1>5, <1>6 DEF Next

\* Reading less raises no alarm that reading everything would not, but for the three
\* LessReadIsNotWorse names, whatever the cluster is and has become, and for every
\* number of reads that are refused (the rules of pkg/health/rules over buildInput).
THEOREM LessIsNotWorse == Spec => []LessReadIsNotWorse
<1>1. Init => DOMAIN node = Nodes
  BY DEF Init
<1>2. DOMAIN node = Nodes /\ [Next]_vars => (DOMAIN node = Nodes)'
  BY NodesStay
<1>3. DOMAIN node = Nodes => LessReadIsNotWorse
  BY AlarmIsAlarm DEF LessReadIsNotWorse, Losses
<1> QED
  BY <1>1, <1>2, <1>3, PTL DEF Spec

-----------------------------------------------------------------------------
(* What a cluster can become. *)

\* The names of the pods; the values a node's labels take.
Roles == {"gpu-operator", "driver", "vgpu-manager", "validator", "device-plugin",
          "dcgm-exporter", "dra-driver", "imex-daemon", "nfd"}
Outside == {"dra-driver", "imex-daemon"}   \* those that run in another namespace
Fields == DOMAIN Plain
Upgrades == {"", "cordon-required", "drain-required", "pod-restart-required",
             UpgradeDone, UpgradeFailed}
DeployValues == {"true", "false", "paused"}

\* The Node objects: what no step changes, and the types of what some do.
NodeOk(g) ==
  /\ DOMAIN g = Fields
  /\ g.pci = TRUE
  /\ g.slice \in BOOLEAN
  /\ g.cap \in [Resources -> Nat] /\ g.alloc \in [Resources -> Nat]
  /\ g.upgrade \in Upgrades
  /\ \/ g.workload = "container" /\ g.deploy \in [DeployKeys -> DeployValues]
     \/ g.workload = "vm-vgpu" /\ g.deploy \in [{"vgpu-manager"} -> DeployValues]

\* Every node has its object, and it is well formed.
NodeInv == DOMAIN node = Nodes /\ \A n \in Nodes : NodeOk(node[n])

\* What no step of a node undoes.
Grows(g, h) ==
  /\ h.workload = g.workload
  /\ DOMAIN h.deploy = DOMAIN g.deploy
  /\ \A k \in DOMAIN g.deploy : DeployDisabled(g.deploy[k]) => DeployDisabled(h.deploy[k])
  /\ g.taints \subseteq h.taints

\* A container that never ended, one that waits to be restarted, one that came back.
Contained(c) ==
  \/ c = Running
  \/ /\ c.restarts \in Nat \ {0}
     /\ \E t \in 1 .. now :
          \/ c = Container("CrashLoopBackOff", NoTermination, Terminated(1, t), c.restarts, FALSE)
          \/ c = Container("running", NoTermination, Terminated(1, t), c.restarts, TRUE)

\* The statuses of a pod whose first container is c.
Statuses(role, c) == IF role = "driver" THEN <<c, Running>> ELSE <<c>>

\* The empty string, by a name.
Blank == ""

\* The pods are as they were made, but for their statuses.
PodOk(p) ==
  /\ DOMAIN p = {"node", "name", "owner", "labels", "namespace", "statuses", "init"}
  /\ p.name \in Roles /\ p.owner = Blank /\ p.labels = LabelsOf(p.name)
  /\ p.namespace = IF p.name \in Outside THEN "dra" ELSE "gpu-operator"
  /\ p.name # "gpu-operator" => p.node \in Nodes
  /\ \/ p.name \in {"driver", "vgpu-manager"} /\ p.statuses = <<>>
     \/ Contained(p.statuses[1]) /\ p.statuses = Statuses(p.name, p.statuses[1])
  /\ p.name = "dcgm-exporter" => p.statuses = <<Running>>
  /\ p.name = "validator" =>
       \E t \in 1 .. now : p.init \in {<<Validation("terminated", 0, t)>>,
                                       <<Validation("terminated", 1, t)>>,
                                       <<Validation("CrashLoopBackOff", 1, t)>>}

\* The controller is always there, and every pod is well formed.
PodInv == NewPod("controller", "gpu-operator") \in pods /\ \A p \in pods : PodOk(p)

\* Every operand of the node is switched off.
AllOff(n) == \A k \in DOMAIN node[n].deploy : DeployDisabled(node[n].deploy[k])

\* Where GPUs are or were served the validator runs, until everything is paused.
RoleInv ==
  /\ served \subseteq Nodes
  /\ \A n \in Nodes :
       /\ (n \in served \/ Runs(n, "device-plugin")) => node[n].workload = "container"
       /\ (n \in served \/ Runs(n, "device-plugin") \/ Runs(n, "dra-driver")) =>
            Runs(n, "validator") \/ AllOff(n)

\* The event that dates the step of an upgrade is the last to go.
EventInv ==
  /\ now \in Nat \ {0} /\ changes \in Nat
  /\ since \in [Nodes -> 0 .. now]
  /\ \A e \in events : e.at \in 1 .. now
  /\ \A n \in Nodes : \A e \in events :
       (e.node = n /\ e.state = node[n].upgrade) =>
         /\ e.at <= since[n]
         /\ [node |-> n, state |-> node[n].upgrade, at |-> since[n]] \in events

\* One policy is the operator's own; the other that may be there has no state.
Own(state, off) ==
  [name |-> Policy.name, state |-> state, off |-> off, tolerations |-> Policy.tolerations]
Other == [name |-> "other", state |-> "", off |-> {}, tolerations |-> {}]
Operands == {"dcgmExporter", "devicePlugin"}
\* The policies are the operator's, alone or beside the other.
PolicyInv ==
  \E state \in {"ready", "notReady"}, off \in SUBSET Operands :
    policies \in {<<Own(state, off)>>, <<Other, Own(state, off)>>, <<Own(state, off), Other>>}

\* The inductive invariant of the cluster, faults and all.
ClusterInv == NodeInv /\ PodInv /\ RoleInv /\ EventInv /\ PolicyInv

\* A node on which the operator runs nothing that serves GPUs to containers.
Idle(n) ==
  /\ node[n].cap = Zero /\ ~node[n].slice /\ ~Runs(n, "device-plugin")
  /\ \/ node[n].workload = "vm-vgpu"
     \/ /\ ControlPlaneTaint \in node[n].taints
        /\ \A p \in pods : p.node = n => p.name \in {"gpu-operator", "nfd", "imex-daemon"}

\* What is served is what the node was set up or changed for.
Served(n) ==
  \E r \in Resources :
    /\ node[n].alloc = Of(r, GPUs * node[n].replicas)
    /\ node[n].cap[r] = node[n].alloc[r]
    /\ r = "mig" <=> node[n].strategy = "mixed"

\* Of a node that no fault has struck: its labels,
Sound(n) ==
  /\ node[n].present = TRUE /\ node[n].count = GPUs
  /\ node[n].config # Blank => node[n].configState = "success"
  /\ node[n].upgrade # UpgradeFailed /\ ~Stuck(n, now)
  /\ node[n].replicas = 1 \/ (node[n].replicas = 2 /\ node[n].strategy = "none")

\* its GPUs,
Offers(n) == Served(n) \/ (node[n].alloc = Zero /\ (node[n].slice \/ AllOff(n) \/ Idle(n)))

\* its plugin and its exporter,
Plugged(n) == Runs(n, "device-plugin") \/ operandDisabledOn(node[n], "device-plugin") \/ Idle(n)

Exported(n) ==
  \/ Runs(n, "dcgm-exporter") \/ operandDisabledOn(node[n], "dcgm-exporter") \/ Idle(n)
  \/ \A i \in DOMAIN policies : policies[i].name = Policy.name => "dcgmExporter" \in policies[i].off

\* and its pods.
Healthy(n) ==
  \A p \in pods : p.node = n =>
    /\ p.name = "validator" => p.init = <<Validation("terminated", 0, 1)>>
    /\ \/ p.statuses = Statuses(p.name, Running)
       \/ p.name = "driver" /\ p.statuses = <<>> /\ midUpgrade(node[n])

SaneAt(n) == Sound(n) /\ Offers(n) /\ Plugged(n) /\ Exported(n) /\ Healthy(n)
\* The inductive invariant of the nodes that no fault has struck.
SaneInv == \A n \in Nodes \ broken : SaneAt(n)


-----------------------------------------------------------------------------
(* What the steps do to the nodes. *)

\* The fields of a Node object.
LEMMA FieldNames ==
  Fields = {"pci", "present", "count", "replicas", "cap", "alloc", "slice", "strategy", "config",
            "configState", "capable", "workload", "upgrade", "deploy", "taints", "unschedulable",
            "sentinel", "clique", "tiers"}
BY DEF Fields, Plain

\* Of the nodes only n changes, and of n only the fields in S.
Only(n, S) ==
  /\ DOMAIN node' = Nodes /\ DOMAIN node'[n] = Fields
  /\ \A m \in Nodes \ {n} : node'[m] = node[m]
  /\ \A k \in Fields \ S : node'[n][k] = node[n][k]

\* A node after SetNode.
FieldsSet(n, fields) ==
  Only(n, DOMAIN fields) /\ \A k \in DOMAIN fields \cap Fields : node'[n][k] = fields[k]

\* A node after Advertise.
Advertised(n, alloc, fields) ==
  /\ Only(n, DOMAIN fields \cup {"cap", "alloc"})
  /\ \A k \in (DOMAIN fields \cap Fields) \ {"cap", "alloc"} : node'[n][k] = fields[k]
  /\ node'[n].alloc = alloc
  /\ (node[n].cap \in [Resources -> Nat] /\ alloc \in [Resources -> Nat]) =>
        node'[n].cap \in [Resources -> Nat]
  /\ \A r \in Resources :
        \/ node'[n].cap[r] = alloc[r]
        \/ node'[n].cap[r] = node[n].cap[r] /\ node[n].cap[r] > 0 /\ alloc[r] = 0

\* What SetNode does, field by field.
LEMMA SetNodeSets ==
  ASSUME DOMAIN node = Nodes, NEW n \in Nodes, DOMAIN node[n] = Fields, NEW fields,
         SetNode(n, fields)
  PROVE  FieldsSet(n, fields)
BY DEF SetNode, With, Only, FieldsSet

\* What Advertise does, field by field.
LEMMA AdvertiseSets ==
  ASSUME DOMAIN node = Nodes, NEW n \in Nodes, DOMAIN node[n] = Fields, NEW alloc, NEW fields,
         Advertise(n, alloc, fields)
  PROVE  Advertised(n, alloc, fields)
<1>1. PICK stale \in SUBSET {r \in Resources : node[n].cap[r] > 0 /\ alloc[r] = 0} :
        node' = [node EXCEPT ![n] =
          [With(@, fields) EXCEPT !.alloc = alloc,
             !.cap = [r \in Resources |-> IF r \in stale THEN node[n].cap[r] ELSE alloc[r]]]]
  BY Zenon DEF Advertise
<1> DEFINE old == With(node[n], fields)
           cap == [r \in Resources |-> IF r \in stale THEN node[n].cap[r] ELSE alloc[r]]
<1>2. DOMAIN old = Fields /\ \A k \in Fields : old[k] = IF k \in DOMAIN fields THEN fields[k] ELSE node[n][k]
  BY DEF With
<1> HIDE DEF old, cap
<1>3. node' = [node EXCEPT ![n] = [old EXCEPT !.alloc = alloc, !.cap = cap]]
  BY <1>1 DEF old, cap
<1>4. DOMAIN node' = Nodes /\ (\A m \in Nodes \ {n} : node'[m] = node[m])
      /\ node'[n] = [old EXCEPT !.alloc = alloc, !.cap = cap]
  BY <1>3
<1>5. /\ DOMAIN node'[n] = Fields /\ node'[n].alloc = alloc /\ node'[n].cap = cap
      /\ \A k \in Fields \ {"alloc", "cap"} : node'[n][k] = old[k]
  BY <1>2, <1>4, FieldNames
<1>6. Only(n, DOMAIN fields \cup {"cap", "alloc"})
  BY <1>2, <1>4, <1>5 DEF Only
<1>7. /\ (node[n].cap \in [Resources -> Nat] /\ alloc \in [Resources -> Nat]) =>
           node'[n].cap \in [Resources -> Nat]
      /\ \A r \in Resources : node'[n].cap[r] = IF r \in stale THEN node[n].cap[r] ELSE alloc[r]
  BY <1>5 DEF cap
<1>8. \A k \in (DOMAIN fields \cap Fields) \ {"cap", "alloc"} : node'[n][k] = fields[k]
  BY <1>2, <1>5
<1>9. \A r \in stale : node[n].cap[r] > 0 /\ alloc[r] = 0
  OBVIOUS
<1> QED
  BY <1>5, <1>6, <1>7, <1>8, <1>9 DEF Advertised

\* What a node keeps when only the fields in S change.
LEMMA OnlyKeeps ==
  ASSUME NEW n \in Nodes, NEW S, Only(n, S)
  PROVE  /\ "pci" \notin S => node'[n].pci = node[n].pci
         /\ "slice" \notin S => node'[n].slice = node[n].slice
         /\ "cap" \notin S => node'[n].cap = node[n].cap
         /\ "alloc" \notin S => node'[n].alloc = node[n].alloc
         /\ "upgrade" \notin S => node'[n].upgrade = node[n].upgrade
         /\ "workload" \notin S => node'[n].workload = node[n].workload
         /\ "deploy" \notin S => node'[n].deploy = node[n].deploy
         /\ "taints" \notin S => node'[n].taints = node[n].taints
         /\ "present" \notin S => node'[n].present = node[n].present
         /\ "count" \notin S => node'[n].count = node[n].count
         /\ "replicas" \notin S => node'[n].replicas = node[n].replicas
         /\ "strategy" \notin S => node'[n].strategy = node[n].strategy
         /\ "config" \notin S => node'[n].config = node[n].config
         /\ "configState" \notin S => node'[n].configState = node[n].configState
BY FieldNames DEF Only

\* It is enough to look at the node that changes.
LEMMA OneNodeMoves ==
  ASSUME NodeInv, NEW n \in Nodes, NEW S, Only(n, S), NodeOk(node'[n]), Grows(node[n], node'[n])
  PROVE  NodeInv' /\ \A m \in Nodes : Grows(node[m], node'[m])
<1>1. \A m \in Nodes \ {n} : NodeOk(node'[m]) /\ Grows(node[m], node'[m])
  BY DEF NodeInv, Only, Grows
<1> QED
  BY <1>1 DEF NodeInv, Only

\* A step that sets neither a type nor a deploy label of a node.
LEMMA LightlyMoved ==
  ASSUME NodeInv, NEW n \in Nodes, NEW S, Only(n, S),
         S \subseteq Fields \ {"pci", "workload", "deploy"},
         node'[n].slice \in BOOLEAN, node'[n].upgrade \in Upgrades,
         node'[n].cap \in [Resources -> Nat], node'[n].alloc \in [Resources -> Nat],
         node[n].taints \subseteq node'[n].taints
  PROVE  NodeInv' /\ \A m \in Nodes : Grows(node[m], node'[m])
<1>1. /\ node'[n].pci = node[n].pci /\ node'[n].workload = node[n].workload
      /\ node'[n].deploy = node[n].deploy
  BY OnlyKeeps
<1>2. NodeOk(node[n]) /\ DOMAIN node'[n] = Fields
  BY DEF NodeInv, Only
<1>3. NodeOk(node'[n])
  BY <1>1, <1>2 DEF NodeOk
<1>4. Grows(node[n], node'[n])
  BY <1>1 DEF Grows
<1> QED
  BY <1>3, <1>4, OneNodeMoves

\* The plugin that advertises leaves the types as they were.
LEMMA AdvertiseTypes ==
  ASSUME NodeInv, NEW n \in Nodes, NEW alloc \in [Resources -> Nat], NEW fields, Advertised(n, alloc, fields)
  PROVE  node'[n].cap \in [Resources -> Nat] /\ node'[n].alloc \in [Resources -> Nat]
BY DEF NodeInv, NodeOk, Advertised

\* What the plugin may advertise.
LEMMA Amounts ==
  /\ Zero \in [Resources -> Nat] /\ \A r \in Resources : Zero[r] = 0
  /\ \A r \in Resources, k \in Nat :
       Of(r, k) \in [Resources -> Nat] /\ Of(r, k)[r] = k /\ \A q \in Resources \ {r} : Of(r, k)[q] = 0
BY DEF Zero, Of

\* The plugin's withdrawal, with or without one more field.
LEMMA AdvertiseMoves ==
  ASSUME NodeInv, NEW n \in Nodes, NEW alloc \in [Resources -> Nat], NEW fields,
         Advertise(n, alloc, fields),
         DOMAIN fields \subseteq {"configState", "strategy", "replicas"}
  PROVE  NodeInv' /\ \A m \in Nodes : Grows(node[m], node'[m])
<1>1. DOMAIN node = Nodes /\ DOMAIN node[n] = Fields /\ NodeOk(node[n])
  BY DEF NodeInv, NodeOk
<1>2. Advertised(n, alloc, fields)
  BY <1>1, AdvertiseSets
<1> DEFINE S == DOMAIN fields \cup {"cap", "alloc"}
<1>3. Only(n, S)
  BY <1>2 DEF Advertised
<1>4. S \subseteq Fields \ {"pci", "workload", "deploy", "slice", "upgrade", "taints"}
  BY FieldNames
<1> HIDE DEF S
<1>5. /\ node'[n].slice = node[n].slice /\ node'[n].upgrade = node[n].upgrade
      /\ node'[n].taints = node[n].taints
  BY <1>3, <1>4, OnlyKeeps
<1>6. node'[n].cap \in [Resources -> Nat] /\ node'[n].alloc \in [Resources -> Nat]
  BY <1>2, AdvertiseTypes
<1> QED
  BY <1>1, <1>3, <1>4, <1>5, <1>6, LightlyMoved DEF NodeOk

\* One label, condition or taint of a node is set.
LEMMA SetNodeMoves ==
  ASSUME NodeInv, NEW n \in Nodes, NEW fields, SetNode(n, fields),
         DOMAIN fields \subseteq Fields \ {"pci", "workload", "deploy", "cap", "alloc"},
         "slice" \in DOMAIN fields => fields.slice \in BOOLEAN,
         "upgrade" \in DOMAIN fields => fields.upgrade \in Upgrades,
         "taints" \in DOMAIN fields => node[n].taints \subseteq fields.taints
  PROVE  NodeInv' /\ \A m \in Nodes : Grows(node[m], node'[m])
<1>1. DOMAIN node = Nodes /\ DOMAIN node[n] = Fields /\ NodeOk(node[n])
  BY DEF NodeInv, NodeOk
<1>2. FieldsSet(n, fields)
  BY <1>1, SetNodeSets
<1>3. Only(n, DOMAIN fields)
  BY <1>2 DEF FieldsSet
<1>4. /\ node'[n].cap = node[n].cap /\ node'[n].alloc = node[n].alloc
      /\ "slice" \notin DOMAIN fields => node'[n].slice = node[n].slice
      /\ "upgrade" \notin DOMAIN fields => node'[n].upgrade = node[n].upgrade
      /\ "taints" \notin DOMAIN fields => node'[n].taints = node[n].taints
  BY <1>3, OnlyKeeps
<1>5. /\ "slice" \in DOMAIN fields => node'[n].slice = fields.slice
      /\ "upgrade" \in DOMAIN fields => node'[n].upgrade = fields.upgrade
      /\ "taints" \in DOMAIN fields => node'[n].taints = fields.taints
  BY <1>2, FieldNames DEF FieldsSet
<1>6. /\ node'[n].slice \in BOOLEAN /\ node'[n].upgrade \in Upgrades
      /\ node[n].taints \subseteq node'[n].taints
      /\ node'[n].cap \in [Resources -> Nat] /\ node'[n].alloc \in [Resources -> Nat]
  BY <1>1, <1>4, <1>5 DEF NodeOk
<1> QED
  BY <1>3, <1>6, LightlyMoved

\* A deploy label is switched off.
LEMMA SwitchedOff ==
  ASSUME NodeInv, NEW n \in Nodes, NEW S, Only(n, S), S \subseteq {"deploy", "cap", "alloc"},
         node'[n].cap \in [Resources -> Nat], node'[n].alloc \in [Resources -> Nat],
         DOMAIN node'[n].deploy = DOMAIN node[n].deploy,
         node'[n].deploy \in [DOMAIN node[n].deploy -> DeployValues],
         \A k \in DOMAIN node[n].deploy :
           node'[n].deploy[k] = node[n].deploy[k] \/ DeployDisabled(node'[n].deploy[k])
  PROVE  NodeInv' /\ \A m \in Nodes : Grows(node[m], node'[m])
<1>1. /\ node'[n].pci = node[n].pci /\ node'[n].workload = node[n].workload
      /\ node'[n].slice = node[n].slice /\ node'[n].upgrade = node[n].upgrade
      /\ node'[n].taints = node[n].taints
  BY OnlyKeeps
<1>2. NodeOk(node[n]) /\ DOMAIN node'[n] = Fields
  BY DEF NodeInv, Only
<1>3. NodeOk(node'[n])
  BY <1>1, <1>2 DEF NodeOk
<1>4. Grows(node[n], node'[n])
  BY <1>1 DEF Grows
<1> QED
  BY <1>3, <1>4, OneNodeMoves

\* What a node's deploy labels are.
LEMMA Labelled ==
  ASSUME NodeInv, NEW n \in Nodes
  PROVE  /\ node[n].deploy \in [DOMAIN node[n].deploy -> DeployValues]
         /\ node[n].workload = "container" => DOMAIN node[n].deploy = DeployKeys
         /\ node[n].workload # "container" => DOMAIN node[n].deploy = {"vgpu-manager"}
         /\ DOMAIN node[n].deploy \in {DeployKeys, {"vgpu-manager"}}
BY DEF NodeInv, NodeOk

\* The steps that switch an operand off.
LEMMA PauseMoves ==
  ASSUME NodeInv, NEW n \in Nodes, NEW deploy \in [DOMAIN node[n].deploy -> DeployValues],
         SetNode(n, [deploy |-> deploy]) \/ Advertise(n, Zero, [deploy |-> deploy]),
         \A k \in DOMAIN node[n].deploy : deploy[k] = node[n].deploy[k] \/ DeployDisabled(deploy[k])
  PROVE  /\ NodeInv' /\ \A m \in Nodes : Grows(node[m], node'[m])
         /\ node'[n].deploy = deploy /\ \E S \in SUBSET {"deploy", "cap", "alloc"} : Only(n, S)
<1> DEFINE fields == [deploy |-> deploy]
<1>1. DOMAIN node = Nodes /\ DOMAIN node[n] = Fields /\ NodeOk(node[n])
  BY DEF NodeInv, NodeOk
<1>2. DOMAIN fields = {"deploy"} /\ fields.deploy = deploy
  OBVIOUS
<1> HIDE DEF fields
<1>3. CASE SetNode(n, fields)
  <2>1. FieldsSet(n, fields)
    BY <1>1, <1>3, SetNodeSets
  <2>2. Only(n, {"deploy"}) /\ node'[n].deploy = deploy
    BY <1>2, <2>1, FieldNames DEF FieldsSet
  <2>3. node'[n].cap = node[n].cap /\ node'[n].alloc = node[n].alloc
    BY <2>2, OnlyKeeps
  <2>4. node'[n].cap \in [Resources -> Nat] /\ node'[n].alloc \in [Resources -> Nat]
    BY <1>1, <2>3 DEF NodeOk
  <2> QED
    BY <2>2, <2>4, SwitchedOff
<1>4. CASE Advertise(n, Zero, fields)
  <2>1. Advertised(n, Zero, fields)
    BY <1>1, <1>4, AdvertiseSets
  <2>2. Only(n, {"deploy", "cap", "alloc"}) /\ node'[n].deploy = deploy
    BY <1>2, <2>1, FieldNames DEF Advertised
  <2>3. node'[n].cap \in [Resources -> Nat] /\ node'[n].alloc \in [Resources -> Nat]
    BY <2>1, AdvertiseTypes, Amounts
  <2> QED
    BY <2>2, <2>3, SwitchedOff
<1> QED
  BY <1>3, <1>4 DEF fields

\* No step makes, removes or retypes a node, and none undoes what Grows says.
LEMMA NodeStep ==
  ASSUME NodeInv, [Next]_vars
  PROVE  NodeInv' /\ \A m \in Nodes : Grows(node[m], node'[m])
<1> DEFINE Goal == NodeInv' /\ \A m \in Nodes : Grows(node[m], node'[m])
<1>1. ASSUME node' = node PROVE Goal
  <2>1. NodeInv'
    BY <1>1 DEF NodeInv
  <2> QED
    BY <1>1, <2>1 DEF Grows
<1> SUFFICES Goal
  OBVIOUS
<1> HIDE DEF Goal
<1>2. CASE DisableOperand \/ PolicyChanges \/ Tick \/ UNCHANGED vars
  <2>1. node' = node
    BY <1>2, Zenon DEF DisableOperand, PolicyChanges, Tick, vars, objects
  <2> QED
    BY <1>1, <2>1
<1>3. ASSUME NEW n \in Changing, DriverFails(n) \/ ToolkitFails(n) \/ ImexFails(n) \/ JoinDomain(n)
      PROVE  Goal
  BY <1>1, <1>3, Zenon DEF DriverFails, ToolkitFails, ImexFails, JoinDomain
<1>4. Changing \subseteq Nodes
  BY ClusterAssumption
<1>5. ASSUME NEW n \in Changing, PluginStops(n) PROVE Goal
  <2>1. Advertise(n, Zero, << >>)
    BY <1>5, Zenon DEF PluginStops
  <2>2. DOMAIN << >> \subseteq {"configState", "strategy", "replicas"}
    OBVIOUS
  <2> QED
    BY <1>4, <2>1, <2>2, Amounts, AdvertiseMoves DEF Goal
<1>6. ASSUME NEW n \in Changing, DeviceUnhealthy(n) PROVE Goal
  <2>1. PICK r \in Resources : node[n].alloc[r] > 0 /\ node' = [node EXCEPT ![n].alloc[r] = @ - 1]
    BY <1>6 DEF DeviceUnhealthy
  <2>2. DOMAIN node = Nodes /\ DOMAIN node[n] = Fields /\ NodeOk(node[n]) /\ n \in Nodes
    BY <1>4 DEF NodeInv, NodeOk
  <2>3. /\ Only(n, {"alloc"})
        /\ node'[n].alloc = [node[n].alloc EXCEPT ![r] = node[n].alloc[r] - 1]
    BY <2>1, <2>2, FieldNames DEF Only
  <2>4. node[n].alloc[r] - 1 \in Nat
    BY <2>1, <2>2 DEF NodeOk
  <2>5. node'[n].alloc \in [Resources -> Nat]
    BY <2>2, <2>3, <2>4 DEF NodeOk
  <2>6. /\ node'[n].slice = node[n].slice /\ node'[n].upgrade = node[n].upgrade
        /\ node'[n].taints = node[n].taints /\ node'[n].cap = node[n].cap
    BY <2>2, <2>3, OnlyKeeps
  <2>7. /\ node'[n].slice \in BOOLEAN /\ node'[n].upgrade \in Upgrades
        /\ node[n].taints \subseteq node'[n].taints /\ node'[n].cap \in [Resources -> Nat]
    BY <2>2, <2>6 DEF NodeOk
  <2>8. {"alloc"} \subseteq Fields \ {"pci", "workload", "deploy"}
    BY FieldNames
  <2> QED
    BY <2>2, <2>3, <2>5, <2>7, <2>8, LightlyMoved DEF Goal
<1>7. ASSUME NEW n \in Changing, SliceWithdrawn(n) \/ PublishSlice(n) PROVE Goal
  <2>1. PICK slice \in BOOLEAN : SetNode(n, [slice |-> slice])
    BY <1>7, Zenon DEF SliceWithdrawn, PublishSlice
  <2>2. DOMAIN [slice |-> slice] = {"slice"} /\ [slice |-> slice].slice = slice
    OBVIOUS
  <2> QED
    BY <1>4, <2>1, <2>2, FieldNames, SetNodeMoves DEF Goal
<1>8. ASSUME NEW n \in Changing, ReconfigureFails(n) PROVE Goal
  <2>1. PICK state : Advertise(n, Zero, [configState |-> state])
    BY <1>8, Zenon DEF ReconfigureFails
  <2>2. DOMAIN [configState |-> state] \subseteq {"configState", "strategy", "replicas"}
    OBVIOUS
  <2> QED
    BY <1>4, <2>1, <2>2, Amounts, AdvertiseMoves DEF Goal
<1>9. ASSUME NEW n \in Changing, RetirePlugin(n) PROVE Goal
  <2> DEFINE deploy == [node[n].deploy EXCEPT !["device-plugin"] = "false"]
  <2>1. Advertise(n, Zero, [deploy |-> deploy])
    BY <1>9, Zenon DEF RetirePlugin
  <2>2. /\ deploy \in [DOMAIN node[n].deploy -> DeployValues]
        /\ \A k \in DOMAIN node[n].deploy : deploy[k] = node[n].deploy[k] \/ DeployDisabled(deploy[k])
    BY <1>4, Labelled DEF DeployValues, DeployDisabled
  <2> HIDE DEF deploy
  <2> QED
    BY <1>4, <2>1, <2>2, PauseMoves DEF Goal
<1>10. ASSUME NEW n \in Changing, Repartition(n) PROVE Goal
  <2>4. PICK r \in Resources : \E to : Advertise(n, Of(r, GPUs), [strategy |-> to])
    BY <1>10, Zenon DEF Repartition, Resources
  <2>1. PICK to : Advertise(n, Of(r, GPUs), [strategy |-> to])
    BY <2>4
  <2>2. DOMAIN [strategy |-> to] \subseteq {"configState", "strategy", "replicas"}
    OBVIOUS
  <2>3. Of(r, GPUs) \in [Resources -> Nat]
    BY Amounts DEF GPUs
  <2> QED
    BY <1>4, <2>1, <2>2, <2>3, AdvertiseMoves DEF Goal
<1>11. ASSUME NEW n \in Changing, Share(n) PROVE Goal
  <2>1. PICK r \in Resources : Advertise(n, Of(r, 2 * GPUs), [replicas |-> 2])
    BY <1>11, Zenon DEF Share, Resources
  <2>2. DOMAIN [replicas |-> 2] \subseteq {"configState", "strategy", "replicas"}
    OBVIOUS
  <2>3. Of(r, 2 * GPUs) \in [Resources -> Nat]
    BY Amounts DEF GPUs
  <2> QED
    BY <1>4, <2>1, <2>2, <2>3, AdvertiseMoves DEF Goal
<1>12. ASSUME NEW n \in Changing, Pause(n) PROVE Goal
  <2>1. CASE \E key \in {"driver", "dcgm-exporter"} :
               SetNode(n, [deploy |-> [node[n].deploy EXCEPT ![key] = "paused"]])
    <3>1. PICK key : SetNode(n, [deploy |-> [node[n].deploy EXCEPT ![key] = "paused"]])
      BY <2>1
    <3> DEFINE deploy == [node[n].deploy EXCEPT ![key] = "paused"]
    <3>2. /\ deploy \in [DOMAIN node[n].deploy -> DeployValues]
          /\ \A k \in DOMAIN node[n].deploy : deploy[k] = node[n].deploy[k] \/ DeployDisabled(deploy[k])
      BY <1>4, Labelled DEF DeployValues, DeployDisabled
    <3> HIDE DEF deploy
    <3>3. SetNode(n, [deploy |-> deploy])
      BY <3>1 DEF deploy
    <3> QED
      BY <1>4, <3>2, <3>3, PauseMoves DEF Goal
  <2>2. CASE Advertise(n, Zero, [deploy |-> [k \in DOMAIN node[n].deploy |-> "paused"]])
    <3> DEFINE deploy == [k \in DOMAIN node[n].deploy |-> "paused"]
    <3>2. /\ deploy \in [DOMAIN node[n].deploy -> DeployValues]
          /\ \A k \in DOMAIN node[n].deploy : deploy[k] = node[n].deploy[k] \/ DeployDisabled(deploy[k])
      BY <1>4, Labelled DEF DeployValues, DeployDisabled
    <3>3. Advertise(n, Zero, [deploy |-> deploy])
      BY <2>2
    <3> HIDE DEF deploy
    <3> QED
      BY <1>4, <3>2, <3>3, PauseMoves DEF Goal
  <2> QED
    BY <1>12, <2>1, <2>2, Zenon DEF Pause
<1>13. ASSUME NEW n \in Changing, Relabel(n) PROVE Goal
  <2>1. \/ \E b, t : SetNode(n, [unschedulable |-> b, taints |-> node[n].taints \cup t])
        \/ \E b : \/ SetNode(n, [sentinel |-> b]) \/ SetNode(n, [tiers |-> b])
                  \/ SetNode(n, [clique |-> b]) \/ SetNode(n, [taints |-> node[n].taints \cup b])
    BY <1>13, Zenon DEF Relabel
  <2>2. ASSUME NEW fields, SetNode(n, fields),
               DOMAIN fields \subseteq {"unschedulable", "taints", "sentinel", "tiers", "clique"},
               "taints" \in DOMAIN fields => node[n].taints \subseteq fields.taints
        PROVE  Goal
    BY <1>4, <2>2, FieldNames, SetNodeMoves DEF Goal
  <2>3. ASSUME NEW b, NEW t, SetNode(n, [unschedulable |-> b, taints |-> node[n].taints \cup t])
        PROVE  Goal
    BY <2>2, <2>3
  <2>4. ASSUME NEW b, \/ SetNode(n, [sentinel |-> b]) \/ SetNode(n, [tiers |-> b])
                      \/ SetNode(n, [clique |-> b]) \/ SetNode(n, [taints |-> node[n].taints \cup b])
        PROVE  Goal
    BY <2>2, <2>4
  <2> QED
    BY <2>1, <2>3, <2>4, Zenon
<1>14. ASSUME NEW n \in Changing, Unlabel(n) PROVE Goal
  <2>1. SetNode(n, [present |-> FALSE, count |-> 0])
    BY <1>14, Zenon DEF Unlabel
  <2>2. DOMAIN [present |-> FALSE, count |-> 0] = {"present", "count"}
    OBVIOUS
  <2> QED
    BY <1>4, <2>1, <2>2, FieldNames, SetNodeMoves DEF Goal
<1>15. ASSUME NEW n \in Changing,
              NEW state \in {"cordon-required", "drain-required", "pod-restart-required",
                             UpgradeDone, UpgradeFailed},
              UpgradeStep(n, state)
       PROVE  Goal
  <2>1. SetNode(n, [upgrade |-> state])
    BY <1>15, Zenon DEF UpgradeStep
  <2>3. state \in Upgrades
    BY Zenon DEF Upgrades
  <2>2. DOMAIN [upgrade |-> state] = {"upgrade"} /\ [upgrade |-> state].upgrade = state
    OBVIOUS
  <2> QED
    BY <1>4, <2>1, <2>2, <2>3, FieldNames, SetNodeMoves DEF Goal
<1> QED
  BY <1>2, <1>3, <1>5, <1>6, <1>7, <1>8, <1>9, <1>10, <1>11, <1>12, <1>13, <1>14, <1>15 DEF Next

-----------------------------------------------------------------------------
(* What the steps do to the pods. *)

\* Statuses of one container and of two.
LEMMA Tuples ==
  /\ DOMAIN <<>> = {}
  /\ \A x : DOMAIN <<x>> = {1} /\ <<x>>[1] = x /\ <<x>> # <<>>
  /\ \A d : [<<>> EXCEPT ![1] = d] = <<>>
  /\ \A role, c : /\ Statuses(role, c)[1] = c
                  /\ Statuses(role, c) # <<>>
                  /\ \A d : [Statuses(role, c) EXCEPT ![1] = d] = Statuses(role, d)
                  /\ role = "driver" => DOMAIN Statuses(role, c) = {1, 2} /\ Statuses(role, c)[2] = Running
                  /\ role # "driver" => Statuses(role, c) = <<c>>
<1>1. DOMAIN <<>> = {} /\ \A d : [<<>> EXCEPT ![1] = d] = <<>>
  OBVIOUS
<1>2. \A x : DOMAIN <<x>> = {1} /\ <<x>>[1] = x
  OBVIOUS
<1>3. ASSUME NEW c, NEW role
      PROVE  /\ Statuses(role, c)[1] = c
             /\ \A d : [Statuses(role, c) EXCEPT ![1] = d] = Statuses(role, d)
             /\ role = "driver" => DOMAIN Statuses(role, c) = {1, 2} /\ Statuses(role, c)[2] = Running
             /\ role # "driver" => Statuses(role, c) = <<c>>
  <2>1. CASE role = "driver"
    <3>1. \A x : Statuses(role, x) = <<x, Running>>
      BY <2>1 DEF Statuses
    <3> HIDE DEF Running
    <3>2. \A x : /\ <<x, Running>>[1] = x /\ <<x, Running>>[2] = Running /\ DOMAIN <<x, Running>> = {1, 2}
                /\ \A d : [<<x, Running>> EXCEPT ![1] = d] = <<d, Running>>
      OBVIOUS
    <3> QED
      BY <2>1, <3>1, <3>2
  <2>2. CASE role # "driver"
    <3>1. \A x : Statuses(role, x) = <<x>>
      BY <2>2 DEF Statuses
    <3>2. \A x, d : [<<x>> EXCEPT ![1] = d] = <<d>>
      OBVIOUS
    <3> QED
      BY <1>2, <2>2, <3>1, <3>2
  <2> QED
    BY <2>1, <2>2
<1> QED
  BY <1>1, <1>2, <1>3

\* A pod as it is made.
LEMMA NewPodOk ==
  ASSUME now \in Nat \ {0}, NEW n, NEW role \in Roles, role # "gpu-operator" => n \in Nodes
  PROVE  /\ PodOk(NewPod(n, role))
         /\ NewPod(n, role).node = n /\ NewPod(n, role).name = role
         /\ NewPod(n, role).statuses = Statuses(role, Running)
         /\ role = "validator" => NewPod(n, role).init = <<Validation("terminated", 0, 1)>>
<1> DEFINE p == NewPod(n, role)
<1>1. /\ DOMAIN p = {"node", "name", "owner", "labels", "namespace", "statuses", "init"}
      /\ p.node = n /\ p.name = role /\ p.owner = Blank /\ p.labels = LabelsOf(role)
      /\ p.namespace = IF role \in Outside THEN "dra" ELSE "gpu-operator"
      /\ p.statuses = Statuses(role, Running)
      /\ p.init = IF role = "validator" THEN <<Validation("terminated", 0, 1)>> ELSE <<>>
  BY DEF NewPod, Statuses, Outside, Blank
<1> HIDE DEF p
<1>2. p.statuses[1] = Running
  BY <1>1, Tuples
<1>3. Contained(Running)
  BY DEF Contained
<1>4. role = "validator" => \E t \in 1 .. now : p.init \in {<<Validation("terminated", 0, t)>>,
                                       <<Validation("terminated", 1, t)>>,
                                       <<Validation("CrashLoopBackOff", 1, t)>>}
  <2>1. 1 \in 1 .. now
    OBVIOUS
  <2> QED
    BY <1>1, <2>1
<1>5. role = "dcgm-exporter" => p.statuses = <<Running>>
  BY <1>1, Tuples
<1>6. PodOk(p)
  BY <1>1, <1>2, <1>3, <1>4, <1>5 DEF PodOk
<1> QED
  BY <1>1, <1>6 DEF p

\* A container that died just now, and one that came back.
LEMMA Ended ==
  ASSUME now \in Nat \ {0}, NEW c, Contained(c), NEW d \in {Died(c), CameBack(c)}
  PROVE  Contained(d)
<1>1. c.restarts \in Nat
  BY DEF Contained, Running, Container
<1>2. d.restarts = c.restarts + 1
  BY DEF Died, CameBack, Container
<1>3. now \in 1 .. now
  OBVIOUS
<1>4. \/ d = Container("CrashLoopBackOff", NoTermination, Terminated(1, now), d.restarts, FALSE)
      \/ d = Container("running", NoTermination, Terminated(1, now), d.restarts, TRUE)
  BY <1>2 DEF Died, CameBack
<1> QED
  <2>1. d.restarts \in Nat \ {0}
    BY <1>1, <1>2
  <2> QED
    BY <1>3, <1>4, <2>1, Zenon DEF Contained

\* A pod whose first container ends.
LEMMA EndedPodOk ==
  ASSUME now \in Nat \ {0}, NEW p, PodOk(p),
         p.name \in {"driver", "vgpu-manager", "device-plugin", "imex-daemon"},
         NEW d \in {Died(p.statuses[1]), CameBack(p.statuses[1])}
  PROVE  LET q == [p EXCEPT !.statuses[1] = d]
         IN PodOk(q) /\ q.node = p.node /\ q.name = p.name
<1> DEFINE s == [p.statuses EXCEPT ![1] = d]
           q == [p EXCEPT !.statuses = s]
<1>1. CASE p.statuses = <<>>
  <2>1. s = <<>>
    BY <1>1, Tuples
  <2> HIDE DEF s
  <2>2. PodOk(q)
    BY <1>1, <2>1 DEF PodOk
  <2> QED
    BY <2>2 DEF PodOk, s
<1>2. CASE Contained(p.statuses[1]) /\ p.statuses = Statuses(p.name, p.statuses[1])
  <2>1. Contained(d)
    BY <1>2, Ended
  <2>2. s = Statuses(p.name, d)
    BY <1>2, Tuples
  <2>3. s[1] = d
    BY <2>2, Tuples
  <2> HIDE DEF s
  <2>4. PodOk(q)
    BY <2>1, <2>2, <2>3 DEF PodOk
  <2> QED
    BY <2>4 DEF PodOk, s
<1> QED
  BY <1>1, <1>2 DEF PodOk

\* Of the pods those that come are of these nodes and have these roles, and so for
\* those that go.
Moved(N, new, gone) ==
  /\ \A q \in pods' \ pods : q.node \in N /\ q.name \in new /\ PodOk(q)
  /\ \A p \in pods \ pods' : p.node \in N /\ p.name \in gone

\* A pod is no less what it was when time passes.
LEMMA LaterPodOk ==
  ASSUME now \in Nat, now' \in {now, now + 1}, NEW p, PodOk(p)
  PROVE  PodOk(p)'
<1>1. 1 .. now \subseteq 1 .. now'
  OBVIOUS
<1>2. \A c : Contained(c) => Contained(c)'
  BY <1>1, Zenon DEF Contained
<1>3. Contained(p.statuses[1]) => Contained(p.statuses[1])'
  BY <1>2
<1>4. p.name = "validator" => \E t \in 1 .. now' : p.init \in {<<Validation("terminated", 0, t)>>,
                                       <<Validation("terminated", 1, t)>>,
                                       <<Validation("CrashLoopBackOff", 1, t)>>}
  BY <1>1, Zenon DEF PodOk
<1> QED
  BY <1>3, <1>4, Zenon DEF PodOk

\* What a move keeps.
LEMMA MovedKeeps ==
  ASSUME PodInv, now \in Nat, now' \in {now, now + 1},
         NEW N, NEW new, NEW gone, Moved(N, new, gone), "gpu-operator" \notin gone
  PROVE  /\ PodInv'
         /\ \A m, role : (role \notin new \/ m \notin N) => (Runs(m, role)' => Runs(m, role))
         /\ \A m, role : (role \notin gone \/ m \notin N) => (Runs(m, role) => Runs(m, role)')
<1>1. \A p \in pods' : PodOk(p)'
  <2> SUFFICES ASSUME NEW p \in pods' PROVE PodOk(p)'
    OBVIOUS
  <2>1. PodOk(p)
    BY DEF PodInv, Moved
  <2> QED
    BY <2>1, LaterPodOk
<1>2. (NewPod("controller", "gpu-operator"))' = NewPod("controller", "gpu-operator")
  OBVIOUS
<1>3. NewPod("controller", "gpu-operator").name = "gpu-operator"
  BY DEF NewPod
<1>4. NewPod("controller", "gpu-operator") \in pods'
  BY <1>3 DEF PodInv, Moved
<1>5. PodInv'
  BY <1>1, <1>2, <1>4, Zenon DEF PodInv
<1>6. ASSUME NEW m, NEW role, role \notin new \/ m \notin N, Runs(m, role)'
      PROVE  Runs(m, role)
  BY <1>6 DEF Moved, Runs
<1>7. ASSUME NEW m, NEW role, role \notin gone \/ m \notin N, Runs(m, role)
      PROVE  Runs(m, role)'
  BY <1>7 DEF Moved, Runs
<1> QED
  BY <1>5, <1>6, <1>7

\* A step that touches no pod.
LEMMA StillMoved ==
  ASSUME pods' = pods, NEW N, NEW new, NEW gone
  PROVE  Moved(N, new, gone)
BY DEF Moved

\* A pod is made.
LEMMA MadeMoved ==
  ASSUME now \in Nat \ {0}, NEW n \in Nodes, NEW role \in Roles, pods' = pods \cup {NewPod(n, role)}
  PROVE  Moved({n}, {role}, {})
BY NewPodOk DEF Moved

\* Pods of a node go.
LEMMA WithoutMoved ==
  ASSUME NEW n, NEW roles, pods' = Without(n, roles)
  PROVE  Moved({n}, {}, roles)
BY DEF Moved, Without

\* A container of a pod of the node ends.
LEMMA EndedMoved ==
  ASSUME PodInv, now \in Nat \ {0}, NEW n,
         NEW role \in {"driver", "vgpu-manager", "device-plugin", "imex-daemon"},
         \/ UpdatePod(n, role, LAMBDA p : [p EXCEPT !.statuses[1] = Died(@)])
         \/ UpdatePod(n, role, LAMBDA p : [p EXCEPT !.statuses[1] = CameBack(@)])
  PROVE  Moved({n}, {role}, {role})
<1>1. CASE pods' = {IF p.node = n /\ p.name = role THEN [p EXCEPT !.statuses[1] = Died(@)] ELSE p : p \in pods}
  <2> DEFINE f(p) == [p EXCEPT !.statuses[1] = Died(@)]
  <2>1. \A p \in pods : p.name = role => PodOk(f(p)) /\ f(p).node = p.node /\ f(p).name = p.name
    BY EndedPodOk DEF PodInv
  <2>2. pods' = {IF p.node = n /\ p.name = role THEN f(p) ELSE p : p \in pods}
    BY <1>1
  <2> HIDE DEF f
  <2> QED
    BY <2>1, <2>2 DEF Moved
<1>2. CASE pods' = {IF p.node = n /\ p.name = role THEN [p EXCEPT !.statuses[1] = CameBack(@)] ELSE p : p \in pods}
  <2> DEFINE f(p) == [p EXCEPT !.statuses[1] = CameBack(@)]
  <2>1. \A p \in pods : p.name = role => PodOk(f(p)) /\ f(p).node = p.node /\ f(p).name = p.name
    BY EndedPodOk DEF PodInv
  <2>2. pods' = {IF p.node = n /\ p.name = role THEN f(p) ELSE p : p \in pods}
    BY <1>2
  <2> HIDE DEF f
  <2> QED
    BY <2>1, <2>2 DEF Moved
<1> QED
  BY <1>1, <1>2 DEF UpdatePod

\* A driver pod has no containers any more.
LEMMA ClearedMoved ==
  ASSUME PodInv, NEW n, NEW role \in {"driver", "vgpu-manager"},
         UpdatePod(n, role, LAMBDA p : [p EXCEPT !.statuses = <<>>])
  PROVE  Moved({n}, {role}, {role})
<1> DEFINE f(p) == [p EXCEPT !.statuses = <<>>]
<1>1. \A p \in pods : p.name = role => PodOk(f(p)) /\ f(p).node = p.node /\ f(p).name = p.name
  BY DEF PodInv, PodOk
<1>2. pods' = {IF p.node = n /\ p.name = role THEN f(p) ELSE p : p \in pods}
  BY DEF UpdatePod
<1> HIDE DEF f
<1> QED
  BY <1>1, <1>2 DEF Moved

\* The validation of a node fails.
LEMMA FailedMoved ==
  ASSUME PodInv, now \in Nat \ {0}, NEW n, NEW state \in {"terminated", "CrashLoopBackOff"},
         UpdatePod(n, "validator", LAMBDA p : [p EXCEPT !.init = <<Validation(state, 1, now)>>])
  PROVE  /\ Moved({n}, {"validator"}, {"validator"})
         /\ Runs(n, "validator") => Runs(n, "validator")'
<1> DEFINE v == <<Validation(state, 1, now)>>
           f(p) == [p EXCEPT !.init = v]
<1>1. now \in 1 .. now /\ v \in {<<Validation("terminated", 0, now)>>,
                                 <<Validation("terminated", 1, now)>>,
                                 <<Validation("CrashLoopBackOff", 1, now)>>}
  OBVIOUS
<1>2. pods' = {IF p.node = n /\ p.name = "validator" THEN f(p) ELSE p : p \in pods}
  BY DEF UpdatePod
<1> HIDE DEF v
<1>3. \A p \in pods : p.name = "validator" => PodOk(f(p)) /\ f(p).node = p.node /\ f(p).name = p.name
  <2> SUFFICES ASSUME NEW p \in pods, p.name = "validator"
               PROVE  PodOk(f(p)) /\ f(p).node = p.node /\ f(p).name = p.name
    OBVIOUS
  <2>1. PodOk(p)
    BY DEF PodInv
  <2> DEFINE q == f(p)
  <2>2. /\ DOMAIN q = DOMAIN p /\ q.node = p.node /\ q.name = p.name /\ q.owner = p.owner
        /\ q.labels = p.labels /\ q.namespace = p.namespace /\ q.statuses = p.statuses /\ q.init = v
    BY <2>1 DEF PodOk
  <2> HIDE DEF q
  <2>3. PodOk(q)
    BY <1>1, <2>1, <2>2 DEF PodOk
  <2> QED
    BY <2>2, <2>3 DEF q
<1> HIDE DEF f
<1>4. Moved({n}, {"validator"}, {"validator"})
  BY <1>2, <1>3 DEF Moved
<1>5. Runs(n, "validator") => Runs(n, "validator")'
  BY <1>2, <1>3 DEF Runs
<1> QED
  BY <1>4, <1>5

\* The upgrade replaces the driver pod.
LEMMA UpgradedMoved ==
  ASSUME PodInv, now \in Nat \ {0}, NEW n \in Nodes, NEW state, UpgradeStep(n, state)
  PROVE  Moved({n}, {"driver"}, {"driver"})
<1> DEFINE fresh == NewPod(n, "driver")
           empty == [fresh EXCEPT !.statuses = <<>>]
<1>1. PodOk(fresh) /\ fresh.node = n /\ fresh.name = "driver"
  BY NewPodOk DEF Roles
<1> HIDE DEF fresh
<1>2. PodOk(empty) /\ empty.node = n /\ empty.name = "driver"
  BY <1>1 DEF PodOk
<1>3. \/ pods' = Without(n, {"driver"}) \cup {empty}
      \/ pods' = Without(n, {"driver"}) \cup {fresh}
      \/ pods' = pods
  <2>1. pods' = CASE state = "pod-restart-required" -> Without(n, {"driver"}) \cup {empty}
                 [] state = UpgradeDone -> Without(n, {"driver"}) \cup {fresh}
                 [] OTHER -> pods
    BY Zenon DEF UpgradeStep, fresh
  <2> HIDE DEF empty
  <2> QED
    BY <2>1
<1> HIDE DEF empty
<1> QED
  BY <1>1, <1>2, <1>3 DEF Moved, Without

\* What no step does to the roles of a node.
RoleMoves ==
  /\ served' \subseteq served \cup Nodes
  /\ \A m \in Nodes :
       /\ Runs(m, "device-plugin")' => Runs(m, "device-plugin")
       /\ Runs(m, "dra-driver")' => Runs(m, "dra-driver") \/ Runs(m, "device-plugin")
       /\ Runs(m, "validator") => Runs(m, "validator")' \/ AllOff(m)'
       /\ m \in served' => m \in served \/ Runs(m, "device-plugin")

\* A node on which everything is switched off stays so.
LEMMA OffStaysOff ==
  ASSUME NEW m, Grows(node[m], node'[m]), AllOff(m)
  PROVE  AllOff(m)'
BY DEF Grows, AllOff

\* Every step of the cluster keeps the pods well formed and moves the roles as it may.
LEMMA RolesStep ==
  ASSUME NodeInv, PodInv, now \in Nat \ {0}, [Next]_vars
  PROVE  PodInv' /\ RoleMoves
<1>1. Changing \subseteq Nodes
  BY ClusterAssumption
<1>2. ASSUME NEW N, NEW new, NEW gone, Moved(N, new, gone), now' \in {now, now + 1},
             gone \cap {"gpu-operator", "validator"} = {}, new \cap {"device-plugin", "dra-driver"} = {},
             served' = served
      PROVE  PodInv' /\ RoleMoves
  BY <1>2, MovedKeeps DEF RoleMoves
<1>3. CASE PolicyChanges \/ Tick \/ UNCHANGED vars
  <2>1. pods' = pods /\ served' = served
    BY <1>3, Zenon DEF PolicyChanges, Tick, vars, objects
  <2>2. now' = now \/ now' = now + 1
    BY <1>3, Zenon DEF PolicyChanges, Change, Tick, vars
  <2>3. Moved({}, {}, {})
    BY <2>1, StillMoved
  <2> QED
    BY <1>2, <2>1, <2>2, <2>3
<1>4. CASE DisableOperand
  <2>1. PICK role \in {"dcgm-exporter", "device-plugin"} : pods' = {p \in pods : p.name # role}
    BY <1>4, Zenon DEF DisableOperand
  <2>2. now' = now /\ served' = served
    BY <1>4, Zenon DEF DisableOperand, Change
  <2>3. Moved(Nodes, {}, {"dcgm-exporter", "device-plugin"})
    BY <2>1 DEF Moved, PodInv, PodOk
  <2> QED
    BY <1>2, <2>2, <2>3
<1>5. ASSUME NEW n \in Changing, DeviceUnhealthy(n) \/ SliceWithdrawn(n) \/ ReconfigureFails(n)
             \/ Unlabel(n) \/ Repartition(n) \/ Share(n) \/ Relabel(n)
      PROVE  PodInv' /\ RoleMoves
  <2>1. pods' = pods /\ served' = served
    BY <1>5, Zenon DEF DeviceUnhealthy, SliceWithdrawn, ReconfigureFails, Unlabel, Repartition, Share, Relabel
  <2>2. now' = now
    BY <1>5, Zenon DEF DeviceUnhealthy, SliceWithdrawn, ReconfigureFails, Unlabel, Repartition, Share, Relabel,
                       Change
  <2>3. Moved({}, {}, {})
    BY <2>1, StillMoved
  <2> QED
    BY <1>2, <2>1, <2>2, <2>3
<1>6. ASSUME NEW n \in Changing, DriverFails(n) PROVE PodInv' /\ RoleMoves
  <2>1. PICK role \in {"driver", "vgpu-manager"} :
          \/ UpdatePod(n, role, LAMBDA p : [p EXCEPT !.statuses[1] = Died(@)])
          \/ UpdatePod(n, role, LAMBDA p : [p EXCEPT !.statuses[1] = CameBack(@)])
          \/ UpdatePod(n, role, LAMBDA p : [p EXCEPT !.statuses = <<>>])
    BY <1>6, Zenon DEF DriverFails
  <2>2. Moved({n}, {role}, {role})
    BY <2>1, EndedMoved, ClearedMoved
  <2>3. now' = now /\ served' = served
    BY <1>6, Zenon DEF DriverFails, Change
  <2> QED
    BY <1>2, <2>2, <2>3
<1>7. ASSUME NEW n \in Changing, ToolkitFails(n) PROVE PodInv' /\ RoleMoves
  <2>1. PICK state \in {"terminated", "CrashLoopBackOff"} :
          UpdatePod(n, "validator", LAMBDA p : [p EXCEPT !.init = <<Validation(state, 1, now)>>])
    BY <1>7, Zenon DEF ToolkitFails
  <2>2. /\ Moved({n}, {"validator"}, {"validator"})
        /\ Runs(n, "validator") => Runs(n, "validator")'
    BY <2>1, FailedMoved
  <2>3. now' = now /\ served' = served
    BY <1>7, Zenon DEF ToolkitFails, Change
  <2>4. PodInv'
    BY <2>2, <2>3, MovedKeeps
  <2>5. \A m, role : (role # "validator" \/ m # n) => (Runs(m, role)' <=> Runs(m, role))
    BY <2>2, <2>3, MovedKeeps
  <2> QED
    BY <2>2, <2>3, <2>4, <2>5 DEF RoleMoves
<1>8. ASSUME NEW n \in Changing, PluginStops(n) PROVE PodInv' /\ RoleMoves
  <2>1. UpdatePod(n, "device-plugin", LAMBDA p : [p EXCEPT !.statuses[1] = Died(@)]) /\ Runs(n, "device-plugin")
    BY <1>8, Zenon DEF PluginStops
  <2>2. Moved({n}, {"device-plugin"}, {"device-plugin"})
    BY <2>1, EndedMoved
  <2>3. now' = now /\ served' = served
    BY <1>8, Zenon DEF PluginStops, Change
  <2> QED
    BY <2>1, <2>2, <2>3, MovedKeeps DEF RoleMoves
<1>9. ASSUME NEW n \in Changing, ImexFails(n) PROVE PodInv' /\ RoleMoves
  <2>1. UpdatePod(n, "imex-daemon", LAMBDA p : [p EXCEPT !.statuses[1] = Died(@)])
    BY <1>9, Zenon DEF ImexFails
  <2>2. Moved({n}, {"imex-daemon"}, {"imex-daemon"})
    BY <2>1, EndedMoved
  <2>3. now' = now /\ served' = served
    BY <1>9, Zenon DEF ImexFails, Change
  <2> QED
    BY <1>2, <2>2, <2>3
<1>10. ASSUME NEW n \in Changing, PublishSlice(n) PROVE PodInv' /\ RoleMoves
  <2>1. /\ pods' = pods \cup {NewPod(n, "dra-driver")} /\ Runs(n, "device-plugin")
        /\ now' = now /\ served' = served \cup {n}
    BY <1>10, Zenon DEF PublishSlice, Change, Serves
  <2>2. Moved({n}, {"dra-driver"}, {})
    BY <1>1, <2>1, MadeMoved DEF Roles
  <2> QED
    BY <1>1, <2>1, <2>2, MovedKeeps DEF RoleMoves
<1>11. ASSUME NEW n \in Changing, RetirePlugin(n) PROVE PodInv' /\ RoleMoves
  <2>1. pods' = Without(n, {"device-plugin"}) /\ now' = now /\ served' = served
    BY <1>11, Zenon DEF RetirePlugin, Change
  <2> QED
    BY <1>2, <2>1, WithoutMoved
<1>12. ASSUME NEW n \in Changing, Pause(n) PROVE PodInv' /\ RoleMoves
  <2>1. now' = now /\ served' = served
    BY <1>12, Zenon DEF Pause, Change
  <2>2. CASE \E key \in {"driver", "dcgm-exporter"} : pods' = Without(n, {key})
    BY <1>2, <2>1, <2>2, WithoutMoved
  <2>3. CASE /\ Advertise(n, Zero, [deploy |-> [k \in DOMAIN node[n].deploy |-> "paused"]])
             /\ pods' = Without(n, DeployKeys)
    <3> DEFINE deploy == [k \in DOMAIN node[n].deploy |-> "paused"]
    <3>1. /\ deploy \in [DOMAIN node[n].deploy -> DeployValues]
          /\ \A k \in DOMAIN node[n].deploy : deploy[k] = node[n].deploy[k] \/ DeployDisabled(deploy[k])
          /\ \A k \in DOMAIN deploy : DeployDisabled(deploy[k])
      BY DEF DeployValues, DeployDisabled
    <3>2. Advertise(n, Zero, [deploy |-> deploy])
      BY <2>3
    <3> HIDE DEF deploy
    <3>3. node'[n].deploy = deploy
      BY <1>1, <3>1, <3>2, PauseMoves
    <3>4. AllOff(n)'
      BY <3>1, <3>3 DEF AllOff
    <3>5. Moved({n}, {}, DeployKeys) /\ "gpu-operator" \notin DeployKeys
      BY <2>3, WithoutMoved DEF DeployKeys
    <3> QED
      BY <2>1, <3>4, <3>5, MovedKeeps DEF RoleMoves
  <2> QED
    BY <1>12, <2>2, <2>3, Zenon DEF Pause
<1>13. ASSUME NEW n \in Changing, JoinDomain(n) PROVE PodInv' /\ RoleMoves
  <2>1. pods' = pods \cup {NewPod(n, "imex-daemon")} /\ now' = now /\ served' = served
    BY <1>13, Zenon DEF JoinDomain, Change
  <2>2. Moved({n}, {"imex-daemon"}, {})
    BY <1>1, <2>1, MadeMoved DEF Roles
  <2> QED
    BY <1>2, <2>1, <2>2
<1>14. ASSUME NEW n \in Changing, NEW state, UpgradeStep(n, state) PROVE PodInv' /\ RoleMoves
  <2>1. Moved({n}, {"driver"}, {"driver"})
    BY <1>1, <1>14, UpgradedMoved
  <2>2. now' = now /\ served' = served
    BY <1>14, Zenon DEF UpgradeStep, Change
  <2> QED
    BY <1>2, <2>1, <2>2
<1> QED
  BY <1>3, <1>4, <1>5, <1>6, <1>7, <1>8, <1>9, <1>10, <1>11, <1>12, <1>13, <1>14 DEF Next

\* Where GPUs are or were served the validator runs, until everything is paused.
LEMMA RoleStep ==
  ASSUME NodeInv, PodInv, RoleInv, now \in Nat \ {0}, [Next]_vars
  PROVE  RoleInv'
<1>1. RoleMoves
  BY RolesStep
<1>2. \A m \in Nodes : Grows(node[m], node'[m])
  BY NodeStep
<1>3. \A m \in Nodes : AllOff(m) => AllOff(m)'
  BY <1>2, OffStaysOff
<1>4. \A m \in Nodes : node'[m].workload = node[m].workload
  BY <1>2 DEF Grows
<1>5. served' \subseteq Nodes
  BY <1>1 DEF RoleInv, RoleMoves
<1> QED
  BY <1>1, <1>3, <1>4, <1>5, Zenon DEF RoleInv, RoleMoves

-----------------------------------------------------------------------------
(* The events and the policies. *)

\* Both ways of setting a node, by the fields they leave alone.
LEMMA SetOnly ==
  ASSUME NodeInv, NEW n \in Nodes, NEW fields,
         SetNode(n, fields) \/ \E alloc : Advertise(n, alloc, fields)
  PROVE  Only(n, DOMAIN fields \cup {"cap", "alloc"})
<1>1. DOMAIN node = Nodes /\ DOMAIN node[n] = Fields
  BY DEF NodeInv, NodeOk
<1>2. CASE SetNode(n, fields)
  BY <1>1, <1>2, SetNodeSets DEF FieldsSet, Only
<1>3. CASE \E alloc : Advertise(n, alloc, fields)
  BY <1>1, <1>3, AdvertiseSets DEF Advertised
<1> QED
  BY <1>2, <1>3

\* The steps that change neither an upgrade nor the time.
LEMMA UpgradeKept ==
  ASSUME NodeInv, NEW n \in Changing,
         \/ DriverFails(n) \/ ToolkitFails(n) \/ PluginStops(n) \/ DeviceUnhealthy(n)
         \/ ImexFails(n) \/ SliceWithdrawn(n) \/ ReconfigureFails(n) \/ Unlabel(n)
         \/ PublishSlice(n) \/ RetirePlugin(n) \/ Repartition(n) \/ Share(n) \/ Pause(n)
         \/ Relabel(n) \/ JoinDomain(n)
  PROVE  /\ \A m \in Nodes : node'[m].upgrade = node[m].upgrade
         /\ events' = events /\ since' = since /\ now' = now /\ changes' = changes + 1
<1>1. events' = events /\ since' = since
  BY Zenon DEF DriverFails, ToolkitFails, PluginStops, DeviceUnhealthy, ImexFails, SliceWithdrawn,
     ReconfigureFails, Unlabel, PublishSlice, RetirePlugin, Repartition, Share, Pause, Relabel, JoinDomain
<1>2. now' = now /\ changes' = changes + 1
  BY Zenon DEF DriverFails, ToolkitFails, PluginStops, DeviceUnhealthy, ImexFails, SliceWithdrawn,
     ReconfigureFails, Unlabel, PublishSlice, RetirePlugin, Repartition, Share, Pause, Relabel, JoinDomain, Change
<1>3. n \in Nodes
  BY ClusterAssumption
<1>4. ASSUME NEW S, Only(n, S), "upgrade" \notin S
      PROVE  \A m \in Nodes : node'[m].upgrade = node[m].upgrade
  BY <1>3, <1>4, OnlyKeeps DEF Only
<1>5. ASSUME NEW fields, SetNode(n, fields) \/ \E alloc : Advertise(n, alloc, fields),
             "upgrade" \notin DOMAIN fields
      PROVE  \A m \in Nodes : node'[m].upgrade = node[m].upgrade
  <2>1. Only(n, DOMAIN fields \cup {"cap", "alloc"})
    BY <1>3, <1>5, SetOnly
  <2> QED
    BY <1>4, <1>5, <2>1
<1>6. CASE DriverFails(n) \/ ToolkitFails(n) \/ ImexFails(n) \/ JoinDomain(n)
  <2>1. node' = node
    BY <1>6, Zenon DEF DriverFails, ToolkitFails, ImexFails, JoinDomain
  <2> QED
    BY <1>1, <1>2, <2>1
<1>7. CASE DeviceUnhealthy(n)
  <2>1. PICK r \in Resources : node' = [node EXCEPT ![n].alloc[r] = @ - 1]
    BY <1>7 DEF DeviceUnhealthy
  <2>2. DOMAIN node = Nodes /\ DOMAIN node[n] = Fields
    BY <1>3 DEF NodeInv, NodeOk
  <2>3. Only(n, {"alloc"})
    BY <1>3, <2>1, <2>2, FieldNames DEF Only
  <2> QED
    BY <1>1, <1>2, <1>4, <2>3
<1>8. CASE PluginStops(n) \/ SliceWithdrawn(n) \/ ReconfigureFails(n) \/ Unlabel(n) \/ PublishSlice(n)
           \/ RetirePlugin(n) \/ Repartition(n) \/ Share(n) \/ Pause(n) \/ Relabel(n)
  <2>1. \E fields : /\ SetNode(n, fields) \/ \E alloc : Advertise(n, alloc, fields)
                    /\ \/ fields = << >>
                       \/ \E a : \/ fields = [slice |-> a] \/ fields = [configState |-> a]
                                 \/ fields = [deploy |-> a] \/ fields = [strategy |-> a]
                                 \/ fields = [replicas |-> a] \/ fields = [sentinel |-> a]
                                 \/ fields = [tiers |-> a] \/ fields = [clique |-> a]
                                 \/ fields = [taints |-> a]
                       \/ \E a, b : \/ fields = [unschedulable |-> a, taints |-> b]
                                    \/ fields = [present |-> a, count |-> b]
    BY <1>8, Zenon DEF PluginStops, SliceWithdrawn, ReconfigureFails, Unlabel, PublishSlice,
       RetirePlugin, Repartition, Share, Pause, Relabel
  <2>2. \E fields : /\ SetNode(n, fields) \/ \E alloc : Advertise(n, alloc, fields)
                    /\ "upgrade" \notin DOMAIN fields
    BY <2>1
  <2> QED
    BY <1>1, <1>2, <1>5, <2>2
<1> QED
  BY <1>6, <1>7, <1>8

\* The event that dates the step a node is in is the newest that has its name, and it
\* is the last of them the API server drops.
LEMMA EventStep ==
  ASSUME NodeInv, EventInv, [Next]_vars
  PROVE  EventInv'
<1>1. now \in Nat \ {0} /\ changes \in Nat /\ since \in [Nodes -> 0 .. now] /\ \A e \in events : e.at \in 1 .. now
  BY DEF EventInv
<1>2. ASSUME \A m \in Nodes : node'[m].upgrade = node[m].upgrade, events' = events, since' = since,
             now' = now, changes' \in {changes, changes + 1}
      PROVE  EventInv'
  BY <1>1, <1>2 DEF EventInv
<1>3. CASE UNCHANGED vars
  <2>1. node' = node /\ events' = events /\ since' = since /\ now' = now /\ changes' = changes
    BY <1>3 DEF vars, objects
  <2> QED
    BY <1>2, <2>1
<1>4. CASE DisableOperand \/ PolicyChanges
  <2>1. node' = node /\ events' = events /\ since' = since /\ now' = now /\ changes' = changes + 1
    BY <1>4, Zenon DEF DisableOperand, PolicyChanges, Change
  <2> QED
    BY <1>2, <2>1
<1>5. CASE Tick
  <2>1. /\ node' = node /\ since' = since /\ now' = now + 1 /\ changes' = changes
        /\ events' = {e \in events : now + 1 - e.at < EventTTL}
    BY <1>5 DEF Tick
  <2>2. EventTTL \in Nat
    BY ClusterAssumption
  <2>3. now' \in Nat \ {0} /\ changes' \in Nat
    BY <1>1, <2>1
  <2>4. since' \in [Nodes -> 0 .. now']
    BY <1>1, <2>1
  <2>5. \A e \in events' : e \in events /\ e.at \in 1 .. now'
    BY <1>1, <2>1
  <2>6. ASSUME NEW n \in Nodes, NEW e \in events', e.node = n, e.state = node[n].upgrade
        PROVE  /\ e.at <= since[n]
               /\ [node |-> n, state |-> node[n].upgrade, at |-> since[n]] \in events'
    <3> DEFINE d == [node |-> n, state |-> node[n].upgrade, at |-> since[n]]
    <3>1. e \in events /\ e.at \in Nat /\ now + 1 - e.at < EventTTL
      BY <1>1, <2>1
    <3>2. e.at <= since[n] /\ d \in events
      BY <2>6, <3>1 DEF EventInv
    <3>3. d.at = since[n] /\ since[n] \in Nat
      BY <1>1
    <3> HIDE DEF d
    <3>4. now + 1 - d.at < EventTTL
      BY <1>1, <2>2, <3>1, <3>2, <3>3
    <3> QED
      BY <2>1, <3>2, <3>4 DEF d
  <2> QED
    BY <2>1, <2>3, <2>4, <2>5, <2>6 DEF EventInv
<1>6. ASSUME NEW n \in Changing, NEW state, UpgradeStep(n, state) PROVE EventInv'
  <2> DEFINE d == [node |-> n, state |-> state, at |-> now]
  <2>1. /\ SetNode(n, [upgrade |-> state]) /\ now' = now /\ changes' = changes + 1
        /\ events' = events \cup {d} /\ since' = [since EXCEPT ![n] = now]
    BY <1>6, Zenon DEF UpgradeStep, Change
  <2>2. n \in Nodes /\ DOMAIN node = Nodes /\ DOMAIN node[n] = Fields
    BY ClusterAssumption DEF NodeInv, NodeOk
  <2>3. FieldsSet(n, [upgrade |-> state])
    BY <2>1, <2>2, SetNodeSets
  <2>4. node'[n].upgrade = state /\ \A m \in Nodes \ {n} : node'[m] = node[m]
    BY <2>3, FieldNames DEF FieldsSet, Only
  <2>5. d.node = n /\ d.state = state /\ d.at = now
    OBVIOUS
  <2>6. since'[n] = now /\ (\A m \in Nodes \ {n} : since'[m] = since[m]) /\ since' \in [Nodes -> 0 .. now']
    BY <1>1, <2>1, <2>2
  <2>7. \A e \in events' : e.at \in 1 .. now'
    BY <1>1, <2>1, <2>5
  <2>8. ASSUME NEW m \in Nodes, NEW e \in events', e.node = m, e.state = node'[m].upgrade
        PROVE  /\ e.at <= since'[m]
               /\ [node |-> m, state |-> node'[m].upgrade, at |-> since'[m]] \in events'
    <3>1. CASE m = n
      <4>1. [node |-> m, state |-> node'[m].upgrade, at |-> since'[m]] = d
        BY <2>4, <2>6, <3>1
      <4> QED
        BY <1>1, <2>1, <2>6, <2>7, <3>1, <4>1
    <3>2. CASE m # n
      <4>1. e \in events /\ node'[m].upgrade = node[m].upgrade /\ since'[m] = since[m]
        BY <2>1, <2>4, <2>5, <2>6, <2>8, <3>2
      <4> QED
        BY <2>1, <2>8, <4>1 DEF EventInv
    <3> QED
      BY <3>1, <3>2
  <2> HIDE DEF d
  <2> QED
    BY <1>1, <2>1, <2>6, <2>7, <2>8 DEF EventInv
<1>7. ASSUME NEW n \in Changing,
             \/ DriverFails(n) \/ ToolkitFails(n) \/ PluginStops(n) \/ DeviceUnhealthy(n)
             \/ ImexFails(n) \/ SliceWithdrawn(n) \/ ReconfigureFails(n) \/ Unlabel(n)
             \/ PublishSlice(n) \/ RetirePlugin(n) \/ Repartition(n) \/ Share(n) \/ Pause(n)
             \/ Relabel(n) \/ JoinDomain(n)
      PROVE  EventInv'
  BY <1>2, <1>7, UpgradeKept
<1> QED
  BY <1>3, <1>4, <1>5, <1>6, <1>7 DEF Next

\* The fields of the two policies.
LEMMA PolicyFields ==
  /\ Policy = Own("ready", {})
  /\ \A state, off : /\ Own(state, off).name = Policy.name /\ Own(state, off).state = state
                     /\ Own(state, off).off = off /\ Own(state, off).tolerations = Policy.tolerations
                     /\ \A new : [Own(state, off) EXCEPT !.off = new] = Own(state, new)
                     /\ \A new : [Own(state, off) EXCEPT !.state = new] = Own(new, off)
  /\ Other.name # Policy.name /\ Other.state # "ready" /\ Other.tolerations = {} /\ Other.off = {}
<1>1. /\ Policy.name = "cluster-policy"
      /\ Policy = Own("ready", {})
  BY Zenon DEF Policy, Own
<1>2. \A state, off : /\ Own(state, off).name = Policy.name /\ Own(state, off).state = state
                      /\ Own(state, off).off = off /\ Own(state, off).tolerations = Policy.tolerations
                      /\ \A new : [Own(state, off) EXCEPT !.off = new] = Own(state, new)
                      /\ \A new : [Own(state, off) EXCEPT !.state = new] = Own(new, off)
  BY DEF Own
<1>3. Other.name = "other" /\ Other.state = "" /\ Other.tolerations = {} /\ Other.off = {}
  BY Zenon DEF Other
<1>4. Other.state # "ready"
  BY <1>3, Zenon
<1>5. Other.name # Policy.name
  BY <1>1, <1>3, Zenon
<1>6. Other.tolerations = {} /\ Other.off = {}
  BY <1>3, Zenon
<1> QED
  BY <1>1, <1>2, <1>4, <1>5, <1>6

\* A change of the operator's own policy.
LEMMA OwnChanges ==
  ASSUME NEW own, NEW new, own.name = Policy.name, NEW list, NEW result,
         list \in {<<own>>, <<Other, own>>, <<own, Other>>},
         result = [i \in DOMAIN list |-> IF list[i].name = Policy.name THEN result[i] ELSE list[i]],
         \A i \in DOMAIN list : list[i].name = Policy.name => result[i] = new
  PROVE  \/ list = <<own>> /\ result = <<new>>
         \/ list = <<Other, own>> /\ result = <<Other, new>>
         \/ list = <<own, Other>> /\ result = <<new, Other>>
<1>1. Other.name # Policy.name
  BY PolicyFields
<1>2. DOMAIN result = DOMAIN list /\ \A i \in DOMAIN list : list[i].name # Policy.name => result[i] = list[i]
  OBVIOUS
<1>3. CASE list = <<own>>
  <2>1. result[1] = new /\ DOMAIN result = 1 .. 1
    BY <1>2, <1>3
  <2> QED
    BY <1>3, <2>1
<1>4. CASE list = <<Other, own>>
  <2>1. result[1] = Other /\ result[2] = new /\ DOMAIN result = 1 .. 2
    BY <1>1, <1>2, <1>4
  <2> QED
    BY <1>4, <2>1
<1>5. CASE list = <<own, Other>>
  <2>1. result[1] = new /\ result[2] = Other /\ DOMAIN result = 1 .. 2
    BY <1>1, <1>2, <1>5
  <2> QED
    BY <1>5, <2>1
<1> QED
  BY <1>3, <1>4, <1>5

\* Every step keeps the policies what they can be.
LEMMA PolicyStep ==
  ASSUME PolicyInv, [Next]_vars
  PROVE  PolicyInv'
<1>1. PICK state \in {"ready", "notReady"}, off \in SUBSET Operands :
        policies \in {<<Own(state, off)>>, <<Other, Own(state, off)>>, <<Own(state, off), Other>>}
  BY DEF PolicyInv
<1>2. ASSUME policies' = policies PROVE PolicyInv'
  BY <1>2 DEF PolicyInv
<1>3. ASSUME NEW s \in {"ready", "notReady"}, NEW o \in SUBSET Operands,
             policies' = [i \in DOMAIN policies |->
                            IF policies[i].name = Policy.name THEN policies'[i] ELSE policies[i]],
             \A i \in DOMAIN policies : policies[i].name = Policy.name => policies'[i] = Own(s, o)
      PROVE  PolicyInv'
  <2>1. Own(state, off).name = Policy.name
    BY PolicyFields
  <2>2. policies' \in {<<Own(s, o)>>, <<Other, Own(s, o)>>, <<Own(s, o), Other>>}
    BY <1>1, <1>3, <2>1, OwnChanges
  <2> QED
    BY <2>2 DEF PolicyInv
<1>4. \A i \in DOMAIN policies : policies[i].name = Policy.name => policies[i] = Own(state, off)
  BY <1>1, PolicyFields
<1>5. CASE DisableOperand
  <2>1. PICK field \in Operands :
          policies' = [i \in DOMAIN policies |->
                         IF policies[i].name = Policy.name
                           THEN [policies[i] EXCEPT !.off = @ \cup {field}] ELSE policies[i]]
    BY <1>5, Zenon DEF DisableOperand, Operands
  <2>2. \A i \in DOMAIN policies : policies[i].name = Policy.name => policies'[i] = Own(state, off \cup {field})
    <3>1. [Own(state, off) EXCEPT !.off = @ \cup {field}] = Own(state, off \cup {field})
      BY DEF Own
    <3> QED
      BY <1>4, <2>1, <3>1
  <2>3. policies' = [i \in DOMAIN policies |->
                       IF policies[i].name = Policy.name THEN policies'[i] ELSE policies[i]]
    BY <2>1
  <2>4. off \cup {field} \in SUBSET Operands
    OBVIOUS
  <2> QED
    BY <1>3, <2>2, <2>3, <2>4
<1>6. CASE PolicyChanges
  <2>1. CASE policies' = [i \in DOMAIN policies |->
                            IF policies[i].name = Policy.name
                              THEN [policies[i] EXCEPT !.state = "notReady"] ELSE policies[i]]
    <3>2. \A i \in DOMAIN policies : policies[i].name = Policy.name => policies'[i] = Own("notReady", off)
      BY <1>4, <2>1, PolicyFields
    <3>3. policies' = [i \in DOMAIN policies |->
                         IF policies[i].name = Policy.name THEN policies'[i] ELSE policies[i]]
      BY <2>1
    <3> QED
      BY <1>3, <3>2, <3>3
  <2>2. CASE Len(policies) = 1 /\ policies' \in {<<Other>> \o policies, Append(policies, Other)}
    <3>1. policies = <<Own(state, off)>>
      BY <1>1, <2>2
    <3>2. policies' \in {<<Other, Own(state, off)>>, <<Own(state, off), Other>>}
      BY <2>2, <3>1
    <3> QED
      BY <3>2 DEF PolicyInv
  <2> QED
    BY <1>6, <2>1, <2>2, Zenon DEF PolicyChanges, Other
<1>7. CASE Tick \/ UNCHANGED vars
  <2>1. policies' = policies
    BY <1>7, Zenon DEF Tick, vars, objects
  <2> QED
    BY <1>2, <2>1
<1>8. ASSUME NEW n \in Changing,
             \/ DriverFails(n) \/ ToolkitFails(n) \/ PluginStops(n) \/ DeviceUnhealthy(n)
             \/ ImexFails(n) \/ SliceWithdrawn(n) \/ ReconfigureFails(n) \/ Unlabel(n)
             \/ PublishSlice(n) \/ RetirePlugin(n) \/ Repartition(n) \/ Share(n) \/ Pause(n)
             \/ Relabel(n) \/ JoinDomain(n) \/ \E s : UpgradeStep(n, s)
      PROVE  PolicyInv'
  <2>1. policies' = policies
    BY <1>8, Zenon DEF DriverFails, ToolkitFails, PluginStops, DeviceUnhealthy, ImexFails, SliceWithdrawn,
       ReconfigureFails, Unlabel, PublishSlice, RetirePlugin, Repartition, Share, Pause, Relabel, JoinDomain,
       UpgradeStep
  <2> QED
    BY <1>2, <2>1
<1> QED
  BY <1>5, <1>6, <1>7, <1>8 DEF Next

-----------------------------------------------------------------------------
(* The set-ups. *)

\* Every way a node is set up.
AllKinds == {"plain", "single", "mixed", "dra", "both", "upgrading", "vm", "tolerated", "control-plane"}

\* A plain node.
LEMMA PlainFields ==
  /\ DOMAIN Plain = Fields
  /\ Plain.pci = TRUE /\ Plain.present = TRUE /\ Plain.count = GPUs /\ Plain.replicas = 1
  /\ Plain.cap = Of("gpu", GPUs) /\ Plain.alloc = Of("gpu", GPUs) /\ Plain.slice = FALSE
  /\ Plain.strategy = "none" /\ Plain.config = Blank /\ Plain.workload = "container"
  /\ Plain.upgrade = Blank /\ Plain.deploy = [k \in DeployKeys |-> "true"]
<1>1. \E blank : /\ blank = Blank
                 /\ Plain = [pci |-> TRUE, present |-> TRUE, count |-> GPUs, replicas |-> 1,
                      cap |-> Of("gpu", GPUs), alloc |-> Of("gpu", GPUs), slice |-> FALSE,
                      strategy |-> "none", config |-> blank, configState |-> blank, capable |-> TRUE,
                      workload |-> "container", upgrade |-> blank, deploy |-> [k \in DeployKeys |-> "true"],
                      taints |-> {}, unschedulable |-> FALSE, sentinel |-> FALSE, clique |-> "c", tiers |-> {}]
  BY Zenon DEF Plain, Blank
<1>2. DOMAIN Plain = Fields
  BY DEF Fields
<1> QED
  BY <1>1, <1>2

\* What g is when it is a node of this kind.
Setting(kind, g) ==
  /\ DOMAIN g = Fields /\ g.pci = TRUE /\ g.present = TRUE /\ g.count = GPUs /\ g.replicas = 1
  /\ kind \in {"dra", "both"} => g.slice = TRUE
  /\ kind \notin {"dra", "both"} => g.slice = FALSE
  /\ g.alloc = g.cap
  /\ kind \in {"dra", "vm", "control-plane"} => g.cap = Zero
  /\ kind = "mixed" => g.cap = Of("mig", GPUs)
  /\ kind \notin {"dra", "vm", "control-plane", "mixed"} => g.cap = Of("gpu", GPUs)
  /\ kind \in {"single", "mixed"} => g.strategy = kind
  /\ kind \notin {"single", "mixed"} => g.strategy = "none"
  /\ g.config # Blank => g.configState = "success"
  /\ kind = "upgrading" => g.upgrade = "cordon-required"
  /\ kind # "upgrading" => g.upgrade = Blank
  /\ kind = "vm" => g.workload = "vm-vgpu" /\ g.deploy = [k \in {"vgpu-manager"} |-> "true"]
  /\ kind # "vm" => g.workload = "container"
  /\ kind = "dra" => g.deploy = [Plain.deploy EXCEPT !["device-plugin"] = "false"]
  /\ kind \notin {"vm", "dra"} => g.deploy = Plain.deploy
  /\ kind = "control-plane" => ControlPlaneTaint \in g.taints

\* A node of each kind.
LEMMA KindFields ==
  ASSUME NEW kind \in AllKinds
  PROVE  Setting(kind, NodeOf(kind))
<1> USE PlainFields, FieldNames DEF Setting
<1>1. CASE kind = "plain"
  <2>1. NodeOf(kind) = Plain
    BY <1>1 DEF NodeOf
  <2> QED
    BY <1>1, <2>1
<1>2. CASE kind = "single"
  <2>1. NodeOf(kind) = [Plain EXCEPT !.strategy = "single", !.config = "parted", !.configState = "success"]
    BY <1>2 DEF NodeOf
  <2> DEFINE g == NodeOf(kind)
  <2>2. /\ DOMAIN g = Fields
        /\ g.strategy = "single" /\ g.config = "parted" /\ g.configState = "success"
        /\ g.pci = Plain.pci /\ g.present = Plain.present /\ g.count = Plain.count /\ g.replicas = Plain.replicas
        /\ g.cap = Plain.cap /\ g.alloc = Plain.alloc /\ g.slice = Plain.slice /\ g.workload = Plain.workload
        /\ g.upgrade = Plain.upgrade /\ g.deploy = Plain.deploy /\ g.taints = Plain.taints
    BY <2>1
  <2> HIDE DEF g
  <2> QED
    BY <1>2, <2>2 DEF g
<1>3. CASE kind = "mixed"
  <2>1. NodeOf(kind) = [Plain EXCEPT !.strategy = "mixed", !.config = "parted", !.configState = "success",
                                     !.cap = Of("mig", GPUs), !.alloc = Of("mig", GPUs)]
    BY <1>3 DEF NodeOf
  <2> DEFINE g == NodeOf(kind)
  <2>2. /\ DOMAIN g = Fields
        /\ g.cap = Of("mig", GPUs) /\ g.alloc = Of("mig", GPUs) /\ g.strategy = "mixed" /\ g.config = "parted" /\ g.configState = "success"
        /\ g.pci = Plain.pci /\ g.present = Plain.present /\ g.count = Plain.count /\ g.replicas = Plain.replicas
        /\ g.slice = Plain.slice /\ g.workload = Plain.workload /\ g.upgrade = Plain.upgrade /\ g.deploy = Plain.deploy
        /\ g.taints = Plain.taints
    BY <2>1
  <2> HIDE DEF g
  <2> QED
    BY <1>3, <2>2 DEF g
<1>4. CASE kind = "dra"
  <2>1. NodeOf(kind) = [Plain EXCEPT !.cap = Zero, !.alloc = Zero, !.slice = TRUE,
                                     !.deploy = [Plain.deploy EXCEPT !["device-plugin"] = "false"]]
    BY <1>4 DEF NodeOf
  <2> DEFINE g == NodeOf(kind)
  <2>2. /\ DOMAIN g = Fields
        /\ g.cap = Zero /\ g.alloc = Zero /\ g.slice = TRUE /\ g.deploy = [Plain.deploy EXCEPT !["device-plugin"] = "false"]
        /\ g.pci = Plain.pci /\ g.present = Plain.present /\ g.count = Plain.count /\ g.replicas = Plain.replicas
        /\ g.strategy = Plain.strategy /\ g.config = Plain.config /\ g.configState = Plain.configState /\ g.workload = Plain.workload
        /\ g.upgrade = Plain.upgrade /\ g.taints = Plain.taints
    BY <2>1
  <2> HIDE DEF g
  <2> QED
    BY <1>4, <2>2 DEF g
<1>5. CASE kind = "both"
  <2>1. NodeOf(kind) = [Plain EXCEPT !.slice = TRUE]
    BY <1>5 DEF NodeOf
  <2> QED
    BY <1>5, <2>1
<1>6. CASE kind = "upgrading"
  <2>1. NodeOf(kind) = [Plain EXCEPT !.upgrade = "cordon-required"]
    BY <1>6 DEF NodeOf
  <2> QED
    BY <1>6, <2>1
<1>7. CASE kind = "vm"
  <2>1. NodeOf(kind) = [Plain EXCEPT !.cap = Zero, !.alloc = Zero, !.workload = "vm-vgpu",
                                     !.deploy = [k \in {"vgpu-manager"} |-> "true"]]
    BY <1>7 DEF NodeOf
  <2> DEFINE g == NodeOf(kind)
  <2>2. /\ DOMAIN g = Fields
        /\ g.cap = Zero /\ g.alloc = Zero /\ g.workload = "vm-vgpu" /\ g.deploy = [k \in {"vgpu-manager"} |-> "true"]
        /\ g.pci = Plain.pci /\ g.present = Plain.present /\ g.count = Plain.count /\ g.replicas = Plain.replicas
        /\ g.slice = Plain.slice /\ g.strategy = Plain.strategy /\ g.config = Plain.config /\ g.configState = Plain.configState
        /\ g.upgrade = Plain.upgrade /\ g.taints = Plain.taints
    BY <2>1
  <2> HIDE DEF g
  <2> QED
    BY <1>7, <2>2 DEF g
<1>8. CASE kind = "tolerated"
  <2>1. NodeOf(kind) = [Plain EXCEPT !.taints = {[ControlPlaneTaint EXCEPT !.key = "team"]}]
    BY <1>8 DEF NodeOf
  <2> QED
    BY <1>8, <2>1
<1>9. CASE kind = "control-plane"
  <2>1. NodeOf(kind) = [Plain EXCEPT !.cap = Zero, !.alloc = Zero, !.taints = {ControlPlaneTaint}]
    BY <1>9 DEF NodeOf
  <2> DEFINE g == NodeOf(kind)
  <2>2. /\ DOMAIN g = Fields
        /\ g.cap = Zero /\ g.alloc = Zero /\ g.taints = {ControlPlaneTaint}
        /\ g.pci = Plain.pci /\ g.present = Plain.present /\ g.count = Plain.count /\ g.replicas = Plain.replicas
        /\ g.slice = Plain.slice /\ g.strategy = Plain.strategy /\ g.config = Plain.config /\ g.configState = Plain.configState
        /\ g.workload = Plain.workload /\ g.upgrade = Plain.upgrade /\ g.deploy = Plain.deploy
    BY <2>1
  <2> HIDE DEF g
  <2> QED
    BY <1>9, <2>2 DEF g
<1> QED
  BY <1>1, <1>2, <1>3, <1>4, <1>5, <1>6, <1>7, <1>8, <1>9 DEF AllKinds

\* A node of any kind is well formed.
LEMMA KindOk ==
  ASSUME NEW kind \in AllKinds
  PROVE  NodeOk(NodeOf(kind))
<1> DEFINE g == NodeOf(kind)
<1>1. /\ DOMAIN g = Fields /\ g.pci = TRUE /\ g.slice \in BOOLEAN
      /\ g.cap \in {Zero, Of("mig", GPUs), Of("gpu", GPUs)} /\ g.alloc = g.cap
      /\ g.upgrade \in {Blank, "cordon-required"}
      /\ \/ g.workload = "vm-vgpu" /\ g.deploy = [k \in {"vgpu-manager"} |-> "true"]
         \/ g.workload = "container"
            /\ g.deploy \in {Plain.deploy, [Plain.deploy EXCEPT !["device-plugin"] = "false"]}
  <2>1. Setting(kind, g)
    BY KindFields
  <2> HIDE DEF g
  <2> QED
    BY <2>1 DEF Setting, AllKinds
<1> HIDE DEF g
<1>2. g.cap \in [Resources -> Nat]
  BY <1>1, Amounts DEF Resources, GPUs
<1>3. g.upgrade \in Upgrades
  BY <1>1, Zenon DEF Upgrades, Blank
<1>4. Plain.deploy = [k \in DeployKeys |-> "true"]
  BY PlainFields
<1>5. \/ g.workload = "container" /\ g.deploy \in [DeployKeys -> DeployValues]
      \/ g.workload = "vm-vgpu" /\ g.deploy \in [{"vgpu-manager"} -> DeployValues]
  BY <1>1, <1>4 DEF DeployValues
<1>6. NodeOk(g)
  BY <1>1, <1>2, <1>3, <1>5 DEF NodeOk
<1> QED
  BY <1>6 DEF g

\* The cluster as a function from the nodes to their kinds.
SetUp(of) ==
  /\ node = [n \in Nodes |-> NodeOf(of[n])]
  /\ pods = {NewPod("controller", "gpu-operator")}
            \cup UNION {{NewPod(n, role) : role \in RolesOf(of[n])} : n \in Nodes}
  /\ served = {n \in Nodes : of[n] \notin {"vm", "control-plane"}}
  /\ events = {[node |-> n, state |-> "cordon-required", at |-> 1] :
                 n \in {m \in Nodes : of[m] = "upgrading"}}
  /\ since = [n \in Nodes |-> IF of[n] = "upgrading" THEN 1 ELSE 0]
  /\ policies = <<Policy>> /\ domains = {} /\ now = 1 /\ changes = 0 /\ broken = {}

\* A cluster as it begins is a set-up of some kinds.
LEMMA InitSetsUp ==
  ASSUME Init
  PROVE  \E of \in [Nodes -> AllKinds] : SetUp(of)
<1>1. PICK kind \in [Changing -> Kinds] :
        LET of(n) == IF n \in Changing THEN kind[n] ELSE "plain"
        IN /\ node = [n \in Nodes |-> NodeOf(of(n))]
           /\ pods = {NewPod("controller", "gpu-operator")}
                    \cup UNION {{NewPod(n, role) : role \in RolesOf(of(n))} : n \in Nodes}
           /\ served = {n \in Nodes : of(n) \notin {"vm", "control-plane"}}
           /\ events = {[node |-> n, state |-> "cordon-required", at |-> 1] :
                         n \in {m \in Nodes : of(m) = "upgrading"}}
           /\ since = [n \in Nodes |-> IF of(n) = "upgrading" THEN 1 ELSE 0]
  BY Zenon DEF Init
<1> DEFINE of == [n \in Nodes |-> IF n \in Changing THEN kind[n] ELSE "plain"]
<1>2. of \in [Nodes -> AllKinds]
  BY ClusterAssumption DEF AllKinds
<1>3. \A n \in Nodes : of[n] = IF n \in Changing THEN kind[n] ELSE "plain"
  OBVIOUS
<1> HIDE DEF of
<1>4. node = [n \in Nodes |-> NodeOf(of[n])]
  BY <1>1, <1>3
<1>5. pods = {NewPod("controller", "gpu-operator")}
                    \cup UNION {{NewPod(n, role) : role \in RolesOf(of[n])} : n \in Nodes}
  <2>1. UNION {{NewPod(n, role) : role \in RolesOf(of[n])} : n \in Nodes}
          = UNION {{NewPod(n, role) : role \in RolesOf(IF n \in Changing THEN kind[n] ELSE "plain")} : n \in Nodes}
    BY <1>3
  <2> QED
    BY <1>1, <2>1
<1>6. served = {n \in Nodes : of[n] \notin {"vm", "control-plane"}}
  BY <1>1, <1>3
<1>7. events = {[node |-> n, state |-> "cordon-required", at |-> 1] :
                 n \in {m \in Nodes : of[m] = "upgrading"}}
  BY <1>1, <1>3
<1>8. since = [n \in Nodes |-> IF of[n] = "upgrading" THEN 1 ELSE 0]
  BY <1>1, <1>3
<1>9. policies = <<Policy>> /\ domains = {} /\ now = 1 /\ changes = 0 /\ broken = {}
  BY Zenon DEF Init
<1>10. SetUp(of)
  BY <1>4, <1>5, <1>6, <1>7, <1>8, <1>9 DEF SetUp
<1> QED
  BY <1>2, <1>10

\* The pods of a set-up.
LEMMA FirstPods ==
  ASSUME NEW of \in [Nodes -> AllKinds], SetUp(of)
  PROVE  /\ \A p \in pods : \/ p = NewPod("controller", "gpu-operator")
                            \/ \E n \in Nodes : \E role \in RolesOf(of[n]) : p = NewPod(n, role)
         /\ NewPod("controller", "gpu-operator") \in pods
         /\ \A n \in Nodes : \A role \in RolesOf(of[n]) : NewPod(n, role) \in pods
         /\ \A n \in Nodes : RolesOf(of[n]) \subseteq Roles \ {"gpu-operator"}
         /\ \A n \in Nodes : \A role : role # "gpu-operator" => (Runs(n, role) <=> role \in RolesOf(of[n]))
<1>1. /\ \A p \in pods : \/ p = NewPod("controller", "gpu-operator")
                         \/ \E n \in Nodes : \E role \in RolesOf(of[n]) : p = NewPod(n, role)
      /\ NewPod("controller", "gpu-operator") \in pods
      /\ \A n \in Nodes : \A role \in RolesOf(of[n]) : NewPod(n, role) \in pods
  BY DEF SetUp
<1>2. \A kind : RolesOf(kind) \subseteq Roles \ {"gpu-operator"}
  BY DEF RolesOf, Roles
<1>3. \A n, role : NewPod(n, role).node = n /\ NewPod(n, role).name = role
  BY DEF NewPod
<1>4. \A n \in Nodes : \A role : role # "gpu-operator" => (Runs(n, role) <=> role \in RolesOf(of[n]))
  BY <1>1, <1>3 DEF Runs
<1> QED
  BY <1>1, <1>2, <1>4

\* The invariant holds of a cluster as it begins.
LEMMA ClusterInit ==
  ASSUME Init
  PROVE  ClusterInv
<1>1. PICK of \in [Nodes -> AllKinds] : SetUp(of)
  BY InitSetsUp
<1>2. node = [n \in Nodes |-> NodeOf(of[n])] /\ now = 1 /\ changes = 0
  BY <1>1 DEF SetUp
<1>3. \A n \in Nodes : of[n] \in AllKinds /\ node[n] = NodeOf(of[n])
  BY <1>2
<1>0. \A n \in Nodes : Setting(of[n], node[n])
  BY <1>3, KindFields
<1>4. NodeInv
  BY <1>2, <1>3, KindOk DEF NodeInv
<1>5. PodInv
  <2>1. \A n, role : (role \in Roles /\ (role # "gpu-operator" => n \in Nodes)) => PodOk(NewPod(n, role))
    BY <1>2, NewPodOk
  <2>2. "gpu-operator" \in Roles
    BY DEF Roles
  <2> QED
    BY <1>1, <2>1, <2>2, FirstPods DEF PodInv
<1>6. RoleInv
  <2> SUFFICES ASSUME NEW n \in Nodes
               PROVE  /\ (n \in served \/ Runs(n, "device-plugin")) => node[n].workload = "container"
                      /\ (n \in served \/ Runs(n, "device-plugin") \/ Runs(n, "dra-driver")) => Runs(n, "validator")
    BY <1>1 DEF RoleInv, SetUp
  <2>1. n \in served => of[n] \notin {"vm", "control-plane"}
    BY <1>1 DEF SetUp
  <2>2. /\ of[n] \notin {"vm", "control-plane"} => "validator" \in RolesOf(of[n])
        /\ of[n] \in {"vm", "control-plane"} => RolesOf(of[n]) \cap {"device-plugin", "dra-driver"} = {}
    BY <1>3 DEF RolesOf, AllKinds
  <2>3. of[n] # "vm" => node[n].workload = "container"
    BY <1>0 DEF Setting
  <2>4. \A role : role # "gpu-operator" => (Runs(n, role) <=> role \in RolesOf(of[n]))
    BY <1>1, FirstPods
  <2> QED
    BY <2>1, <2>2, <2>3, <2>4
<1>7. EventInv
  <2>1. /\ events = {[node |-> n, state |-> "cordon-required", at |-> 1] : n \in {m \in Nodes : of[m] = "upgrading"}}
        /\ since = [n \in Nodes |-> IF of[n] = "upgrading" THEN 1 ELSE 0]
    BY <1>1 DEF SetUp
  <2>2. \A e \in events : e.at = 1 /\ e.state = "cordon-required" /\ e.node \in Nodes /\ of[e.node] = "upgrading"
                          /\ e = [node |-> e.node, state |-> "cordon-required", at |-> 1]
    BY <2>1
  <2>3. since \in [Nodes -> 0 .. 1] /\ \A n \in Nodes : of[n] = "upgrading" => since[n] = 1
    BY <2>1
  <2>4. \A n \in Nodes : of[n] = "upgrading" => node[n].upgrade = "cordon-required"
    BY <1>0 DEF Setting
  <2>5. ASSUME NEW n \in Nodes, NEW e \in events, e.node = n, e.state = node[n].upgrade
        PROVE  /\ e.at <= since[n]
               /\ [node |-> n, state |-> node[n].upgrade, at |-> since[n]] \in events
    BY <2>2, <2>3, <2>4, <2>5
  <2> QED
    BY <1>2, <2>2, <2>3, <2>5 DEF EventInv
<1>8. PolicyInv
  <2>1. policies = <<Policy>>
    BY <1>1 DEF SetUp
  <2>2. policies = <<Own("ready", {})>>
    BY <2>1, PolicyFields
  <2> QED
    BY <2>2 DEF PolicyInv
<1> QED
  BY <1>4, <1>5, <1>6, <1>7, <1>8 DEF ClusterInv

\* ClusterInv is inductive.
LEMMA ClusterKept ==
  ASSUME ClusterInv, [Next]_vars
  PROVE  ClusterInv'
<1>1. now \in Nat \ {0}
  BY DEF ClusterInv, EventInv
<1> QED
  BY <1>1, NodeStep, RolesStep, RoleStep, EventStep, PolicyStep DEF ClusterInv

-----------------------------------------------------------------------------
(* What the inventory makes of the pods. *)

\* No role and no label's value is empty.
LEMMA BlankIsNoName ==
  /\ \A role \in Roles : role # Blank
  /\ "kubelet-plugin" # Blank /\ "nvidia-driver" # Blank /\ "uid" # Blank
  /\ "gpu-operator" # Blank /\ "dra" # Blank
BY Zenon DEF Roles, Blank

\* The labels of a pod.
LEMMA LabelIs ==
  ASSUME NEW p, NEW key
  PROVE  Label(p, key) = IF key \in DOMAIN p.labels THEN p.labels[key] ELSE Blank
BY Zenon DEF Label, Blank

\* The first alternative that has a name.
LEMMA FirstIs ==
  ASSUME NEW s, DOMAIN s = 1 .. 7, NEW k \in 1 .. 7, s[k] # Blank, \A j \in 1 .. (k - 1) : s[j] = Blank
  PROVE  FirstOf(s) = s[k]
<1> DEFINE P(i) == s[i] # Blank /\ \A j \in 1 .. (i - 1) : s[j] = Blank
<1>1. FirstOf(s) = s[CHOOSE i \in DOMAIN s : P(i)]
  BY Zenon DEF FirstOf, Blank
<1>2. P(k) /\ \A i \in DOMAIN s : P(i) => i = k
  <2>1. ASSUME NEW i \in 1 .. 7, P(i), i # k PROVE FALSE
    <3>1. CASE i < k
      BY <2>1, <3>1
    <3>2. CASE k < i
      BY <2>1, <3>2
    <3> QED
      BY <2>1, <3>1, <3>2
  <2> QED
    BY <2>1
<1> HIDE DEF P
<1>3. (CHOOSE i \in DOMAIN s : P(i)) = k
  BY <1>2
<1> QED
  BY <1>1, <1>3

\* The selectors of the driver's pods.
LEMMA Selectors ==
  driverSelectors =
    << [key |-> "app", value |-> "driver", component |-> "driver"],
       [key |-> "component", value |-> "nvidia-driver", component |-> "driver"],
       [key |-> "app", value |-> "vgpu-manager", component |-> "vgpu-manager"],
       [key |-> "driver-toolkit", value |-> Blank, component |-> "driver"] >>
BY Zenon DEF driverSelectors, Blank

\* Which selector of a driver a pod meets first.
LEMMA DriverIs ==
  ASSUME NEW p
  PROVE  LET Has(key, value) == key \in DOMAIN p.labels /\ p.labels[key] = value
         IN /\ ~Has("app", "driver") /\ Has("component", "nvidia-driver") => DriverComponent(p) = "driver"
            /\ (/\ ~Has("app", "driver") /\ ~Has("component", "nvidia-driver")
                /\ Has("app", "vgpu-manager")) => DriverComponent(p) = "vgpu-manager"
            /\ (/\ ~Has("app", "driver") /\ ~Has("component", "nvidia-driver")
                /\ ~Has("app", "vgpu-manager") /\ "driver-toolkit" \notin DOMAIN p.labels)
                 => DriverComponent(p) = Blank
<1> DEFINE sel == driverSelectors
           matches(s) == s.key \in DOMAIN p.labels /\ s.value \in {Blank, p.labels[s.key]}
           hits == {i \in DOMAIN sel : matches(sel[i])}
           Has(key, value) == key \in DOMAIN p.labels /\ p.labels[key] = value
<1>1. DriverComponent(p) = IF hits = {} THEN Blank
                           ELSE sel[CHOOSE i \in hits : \A j \in hits : i <= j].component
  BY Zenon DEF DriverComponent, Blank
<1>2. /\ DOMAIN sel = 1 .. 4
      /\ sel[1].key = "app" /\ sel[1].value = "driver"
      /\ sel[2].key = "component" /\ sel[2].value = "nvidia-driver" /\ sel[2].component = "driver"
      /\ sel[3].key = "app" /\ sel[3].value = "vgpu-manager" /\ sel[3].component = "vgpu-manager"
      /\ sel[4].key = "driver-toolkit"
  BY Selectors
<1>3. "driver" # Blank /\ "vgpu-manager" # Blank /\ "nvidia-driver" # Blank
  BY BlankIsNoName DEF Roles
<1> HIDE DEF sel
<1>4. /\ matches(sel[1]) <=> Has("app", "driver")
      /\ matches(sel[2]) <=> Has("component", "nvidia-driver")
      /\ matches(sel[3]) <=> Has("app", "vgpu-manager")
      /\ matches(sel[4]) => "driver-toolkit" \in DOMAIN p.labels
  BY <1>2, <1>3
<1> HIDE DEF matches
<1>5. hits \subseteq 1 .. 4 /\ \A i \in 1 .. 4 : i \in hits <=> matches(sel[i])
  BY <1>2
<1> HIDE DEF hits
<1>6. ASSUME NEW k \in hits, \A j \in hits : k <= j
      PROVE  DriverComponent(p) = sel[k].component
  <2> DEFINE P(i) == \A j \in hits : i <= j
  <2>1. P(k) /\ \A i \in hits : P(i) => i = k
    BY <1>5, <1>6
  <2>2. hits # {} /\ DriverComponent(p) = sel[CHOOSE i \in hits : P(i)].component
    BY <1>1, <1>6
  <2> HIDE DEF P
  <2>3. (CHOOSE i \in hits : P(i)) = k
    BY <1>6, <2>1
  <2> QED
    BY <2>2, <2>3
<1>7. ASSUME ~Has("app", "driver"), Has("component", "nvidia-driver")
      PROVE  DriverComponent(p) = "driver"
  <2>1. 2 \in hits /\ \A j \in hits : 2 <= j
    BY <1>4, <1>5, <1>7
  <2> QED
    BY <1>2, <1>6, <2>1
<1>8. ASSUME ~Has("app", "driver"), ~Has("component", "nvidia-driver"), Has("app", "vgpu-manager")
      PROVE  DriverComponent(p) = "vgpu-manager"
  <2>1. 3 \in hits /\ \A j \in hits : 3 <= j
    BY <1>4, <1>5, <1>8
  <2> QED
    BY <1>2, <1>6, <2>1
<1>9. ASSUME ~Has("app", "driver"), ~Has("component", "nvidia-driver"), ~Has("app", "vgpu-manager"),
             "driver-toolkit" \notin DOMAIN p.labels
      PROVE  DriverComponent(p) = Blank
  <2>1. hits = {}
    BY <1>4, <1>5, <1>9
  <2> QED
    BY <1>1, <2>1
<1> QED
  BY <1>7, <1>8, <1>9

\* A pod is the component of its role.
LEMMA ComponentIs ==
  ASSUME NEW p, p.name \in Roles, p.labels = LabelsOf(p.name), p.owner = Blank
  PROVE  /\ componentOf(p) = p.name
         /\ Label(p, "app") = "gpu-operator" <=> p.name = "gpu-operator"
         /\ p.name \in Outside => draComponent(p) = p.name
         /\ p.name \notin Outside => draComponent(p) = Blank
<1> DEFINE s == <<DriverComponent(p), Label(p, "app"), draComponent(p), Label(p, "component"),
                  Label(p, "name"), p.owner, p.name>>
<1>1. componentOf(p) = FirstOf(s)
  BY DEF componentOf
<1>2. DOMAIN s = 1 .. 7 /\ s[1] = DriverComponent(p) /\ s[2] = Label(p, "app") /\ s[3] = draComponent(p)
  OBVIOUS
<1>3. p.name # Blank
  BY BlankIsNoName
<1> HIDE DEF s
<1>4. draComponent(p) = IF "computeDomain" \in DOMAIN p.labels THEN "imex-daemon"
                        ELSE IF Label(p, "app") = "dra-driver" \/ Label(p, "dra-component") = "kubelet-plugin"
                        THEN "dra-driver" ELSE Blank
  BY Zenon DEF draComponent, Blank
<1>5. "nvidia-gpu-driver-ubuntu22" # Blank /\ "driver" # Blank
  BY Zenon DEF Blank
<1>6. CASE p.name = "driver"
  <2>1. /\ DOMAIN p.labels = {"app", "component"} /\ p.labels["app"] = "nvidia-gpu-driver-ubuntu22"
        /\ p.labels["component"] = "nvidia-driver"
    BY <1>6 DEF LabelsOf
  <2>2. DriverComponent(p) = "driver"
    BY <2>1, DriverIs
  <2>3. FirstOf(s) = "driver"
    BY <1>2, <1>5, <2>2, FirstIs
  <2>4. Label(p, "app") = "nvidia-gpu-driver-ubuntu22" /\ Label(p, "dra-component") = Blank
    BY <2>1, LabelIs
  <2>5. draComponent(p) = Blank
    BY <1>4, <2>1, <2>4, BlankIsNoName
  <2> QED
    BY <1>1, <1>6, <2>3, <2>4, <2>5 DEF Outside
<1>7. CASE p.name = "dra-driver"
  <2>1. DOMAIN p.labels = {"dra-component"} /\ p.labels["dra-component"] = "kubelet-plugin"
    BY <1>7 DEF LabelsOf
  <2>2. DriverComponent(p) = Blank
    BY <2>1, DriverIs
  <2>3. Label(p, "app") = Blank /\ Label(p, "dra-component") = "kubelet-plugin"
    BY <2>1, LabelIs
  <2>4. draComponent(p) = "dra-driver"
    BY <1>4, <2>1, <2>3
  <2>5. FirstOf(s) = "dra-driver"
    BY <1>2, <1>3, <1>7, <2>2, <2>3, <2>4, FirstIs
  <2> QED
    BY <1>1, <1>7, <2>3, <2>4, <2>5, BlankIsNoName DEF Outside
<1>8. CASE p.name = "imex-daemon"
  <2>1. DOMAIN p.labels = {"computeDomain"}
    BY <1>8 DEF LabelsOf
  <2>2. DriverComponent(p) = Blank
    BY <2>1, DriverIs
  <2>3. Label(p, "app") = Blank
    BY <2>1, LabelIs
  <2>4. draComponent(p) = "imex-daemon"
    BY <1>4, <2>1
  <2>5. FirstOf(s) = "imex-daemon"
    BY <1>2, <1>3, <1>8, <2>2, <2>3, <2>4, FirstIs
  <2> QED
    BY <1>1, <1>8, <2>3, <2>4, <2>5, BlankIsNoName DEF Outside
<1>9. CASE p.name \notin {"driver", "dra-driver", "imex-daemon"}
  <2>1. DOMAIN p.labels = {"app"} /\ p.labels["app"] = p.name
    BY <1>9 DEF LabelsOf
  <2>2. DriverComponent(p) \in {Blank, p.name}
    BY <1>9, <2>1, DriverIs
  <2>3. Label(p, "app") = p.name /\ Label(p, "dra-component") = Blank
    BY <2>1, LabelIs
  <2>4. draComponent(p) = Blank
    BY <1>4, <1>9, <2>1, <2>3, BlankIsNoName
  <2>5. FirstOf(s) = p.name
    <3>1. CASE DriverComponent(p) = p.name
      BY <1>2, <1>3, <3>1, FirstIs
    <3>2. CASE DriverComponent(p) = Blank
      BY <1>2, <1>3, <2>3, <3>2, FirstIs
    <3> QED
      BY <2>2, <3>1, <3>2
  <2> QED
    BY <1>1, <1>9, <2>3, <2>4, <2>5 DEF Outside
<1> QED
  BY <1>6, <1>7, <1>8, <1>9

\* A pod that says what it is.
Named(p) ==
  /\ p.name \in Roles /\ p.owner = Blank /\ p.labels = LabelsOf(p.name)
  /\ p.namespace = IF p.name \in Outside THEN "dra" ELSE "gpu-operator"

\* Where the operator is found every pod is an operand of its node.
LEMMA AllOperands ==
  ASSUME NEW list, \A p \in list : Named(p), NEW q \in list, q.name = "gpu-operator", NEW n \in Nodes
  PROVE  operandsByNode(list)[n] = {operandFromPod(p) : p \in {r \in list : r.node = n}}
<1> DEFINE operators == {p \in list : componentOf(p) = "gpu-operator"}
           namespace == operatorNamespace(list)
<1>1. \A p \in list : componentOf(p) = p.name
  BY ComponentIs DEF Named
<1>2. q \in operators /\ \A p \in operators : p.name = "gpu-operator" /\ Named(p)
  BY <1>1
<1>3. namespace = IF operators = {} THEN Blank ELSE (CHOOSE p \in operators : TRUE).namespace
  BY Zenon DEF operatorNamespace, Blank
<1> HIDE DEF operators
<1>4. namespace = "gpu-operator"
  BY <1>2, <1>3 DEF Named, Outside
<1> HIDE DEF namespace
<1>5. \A p \in list : isOperand(p, namespace)
  <2> SUFFICES ASSUME NEW p \in list PROVE isOperand(p, namespace)
    OBVIOUS
  <2>1. isOperand(p, namespace) <=> (draComponent(p) # Blank \/ (namespace # Blank /\ p.namespace = namespace))
    BY Zenon DEF isOperand, Blank
  <2>2. Named(p)
    OBVIOUS
  <2>3. CASE p.name \in Outside
    BY <2>1, <2>2, <2>3, ComponentIs, BlankIsNoName DEF Named
  <2>4. CASE p.name \notin Outside
    BY <1>4, <2>1, <2>2, <2>4, BlankIsNoName DEF Named
  <2> QED
    BY <2>3, <2>4
<1>6. operandsByNode(list)[n] = {operandFromPod(p) : p \in {r \in list : r.node = n /\ isOperand(r, namespace)}}
  BY DEF operandsByNode, namespace
<1>7. {r \in list : r.node = n /\ isOperand(r, namespace)} = {r \in list : r.node = n}
  BY <1>5
<1> QED
  BY <1>6, <1>7

\* The pods of the cluster are such.
LEMMA ClusterPods ==
  ASSUME PodInv
  PROVE  /\ \A p \in pods : Named(p)
         /\ \E q \in pods : q.name = "gpu-operator" /\ Label(q, "app") = "gpu-operator"
         /\ \A n \in Nodes : operandsByNode(pods)[n] = {operandFromPod(p) : p \in {r \in pods : r.node = n}}
         /\ \A p \in pods : componentOf(p) = p.name
<1>1. \A p \in pods : Named(p)
  BY DEF PodInv, PodOk, Named
<1>2. PICK q \in pods : q.name = "gpu-operator"
  <2>1. NewPod("controller", "gpu-operator").name = "gpu-operator"
    BY Zenon DEF NewPod
  <2> QED
    BY <2>1 DEF PodInv
<1>3. Label(q, "app") = "gpu-operator"
  BY <1>1, <1>2, ComponentIs DEF Named
<1>4. \A n \in Nodes : operandsByNode(pods)[n] = {operandFromPod(p) : p \in {r \in pods : r.node = n}}
  BY <1>1, <1>2, AllOperands
<1>5. \A p \in pods : componentOf(p) = p.name
  BY <1>1, ComponentIs DEF Named
<1> QED
  BY <1>1, <1>2, <1>3, <1>4, <1>5

\* An operand is its pod.
LEMMA OperandIs ==
  ASSUME NEW p
  PROVE  /\ operandFromPod(p).name = p.name /\ operandFromPod(p).component = componentOf(p)
         /\ operandFromPod(p).ready = allReady(p.statuses)
         /\ operandFromPod(p).restarted = Restarts(p.statuses)
         /\ operandFromPod(p).died = newestTermination(p.statuses)
         /\ componentOf(p) = "validator" => operandFromPod(p).init = p.init
BY DEF operandFromPod

\* Every node is one that is looked at, for NFD has seen its device.
LEMMA EveryNodeIsBuilt ==
  ASSUME NEW r, r.nodes = node, NodeInv
  PROVE  everyNode(Input(r)) = {buildNode(r, n, operandsByNode(r.pods)[n]) : n \in Nodes}
<1>1. everyNode(Input(r)) = BuildWithHinted(r)
  <2>1. /\ Input(r).nodes = {g \in BuildWithHinted(r) : ~g.hinted}
        /\ Input(r).hinted = {g \in BuildWithHinted(r) : g.hinted}
    BY DEF Input
  <2> QED
    BY <2>1 DEF everyNode
<1>2. \A n \in Nodes : hasHintLabel(r, n)
  BY DEF hasHintLabel, NodeInv, NodeOk
<1>3. DOMAIN r.nodes = Nodes
  BY DEF NodeInv
<1> QED
  BY <1>1, <1>2, <1>3 DEF BuildWithHinted

\* g is the node n of the reading r, with these operands.
IsBuilt(g, r, n, operands) ==
  /\ g.name = n /\ g.operands = operands
  /\ (g.hinted <=> ~isGPUNode(r, n)) /\ g.mode = mode(r, n)
  /\ g.capacity = wholeGPUs(node[n].cap) /\ g.allocatable = wholeGPUs(node[n].alloc)
  /\ g.alloc = node[n].alloc /\ g.pci = node[n].pci /\ g.present = node[n].present
  /\ g.count = node[n].count /\ g.replicas = node[n].replicas /\ g.strategy = node[n].strategy
  /\ g.config = node[n].config /\ g.configState = node[n].configState
  /\ g.workload = node[n].workload /\ g.upgrade = node[n].upgrade
  /\ g.deploy = node[n].deploy /\ g.taints = node[n].taints

\* A node that is built is as IsBuilt says.
LEMMA BuildsIt ==
  ASSUME NEW r, r.nodes = node, NEW n, NEW operands
  PROVE  IsBuilt(buildNode(r, n, operands), r, n, operands)
<1> DEFINE g == buildNode(r, n, operands)
<1>1. g.hinted = ~isGPUNode(r, n)
  BY BuiltNode
<1>2. g.hinted <=> ~isGPUNode(r, n)
  BY <1>1, Zenon
<1>3. /\ g.name = n /\ g.operands = operands /\ g.mode = mode(r, n)
      /\ g.capacity = wholeGPUs(node[n].cap) /\ g.allocatable = wholeGPUs(node[n].alloc)
      /\ g.alloc = node[n].alloc /\ g.pci = node[n].pci /\ g.present = node[n].present
      /\ g.count = node[n].count /\ g.replicas = node[n].replicas /\ g.strategy = node[n].strategy
      /\ g.config = node[n].config /\ g.configState = node[n].configState
      /\ g.workload = node[n].workload /\ g.upgrade = node[n].upgrade
      /\ g.deploy = node[n].deploy /\ g.taints = node[n].taints
  BY BuiltNode
<1> QED
  BY <1>2, <1>3 DEF IsBuilt

-----------------------------------------------------------------------------
(* A node that is lost. *)

\* A node on which a gated operand runs is targeted, unless everything is off.
LEMMA GatedIsTargeted ==
  ASSUME NEW in, NEW g, ~everyOperandDisabled(g),
         \/ \E o \in g.operands : o.component \in deployGatedComponents
         \/ g.taints = {}
  PROVE  Targeted(in, g)
BY DEF Targeted, OperatorTargets, runsADeployGatedOperand, everyOperandTaintedOff

\* A node that served GPUs and serves none is an error, whatever was refused.
LEMMA LostIsSeen ==
  ASSUME ClusterInv, NEW R, NEW n \in served \cap Nodes, node[n].present, ~node[n].slice,
         \A r \in Resources : ~(node[n].alloc[r] > 0), ~AllOff(n),
         node[n].taints = {} \/ "pods" \notin R
  PROVE  Finding("NV-NODE-002", Error, n, "node") \in Findings(Live(R))
<1> DEFINE r == Live(R)
           in == Input(r)
           h == buildNode(r, n, operandsByNode(r.pods)[n])
<1>1. r.nodes = node /\ (r.slices \subseteq {m \in Nodes : node[m].slice}) /\ ("pods" \notin R => r.pods = pods)
  BY Reading
<1>2. h \in everyNode(in)
  BY <1>1, EveryNodeIsBuilt DEF ClusterInv
<1> HIDE DEF r
<1>0. IsBuilt(h, r, n, operandsByNode(r.pods)[n])
  BY <1>1, BuildsIt
<1> HIDE DEF h, in
<1>3. /\ h.name = n /\ h.operands = operandsByNode(r.pods)[n] /\ h.mode = mode(r, n)
      /\ h.allocatable = wholeGPUs(node[n].alloc) /\ h.alloc = node[n].alloc
      /\ h.present = node[n].present /\ h.workload = node[n].workload
      /\ h.deploy = node[n].deploy /\ h.taints = node[n].taints
  BY <1>0 DEF IsBuilt
<1>4. node[n].alloc \in [Resources -> Nat]
  BY DEF ClusterInv, NodeInv, NodeOk
<1>5. \A q \in Resources : node[n].alloc[q] = 0
  BY <1>4
<1>6. h.allocatable <= 0 /\ ~isMixedMIG(h)
  BY <1>3, <1>5 DEF wholeGPUs, isMixedMIG, Resources
<1>7. h.mode # "dra"
  BY <1>1, <1>3, DRAMode DEF bySlice
<1>8. Runs(n, "validator") /\ node[n].workload = "container"
  BY DEF ClusterInv, RoleInv
<1>9. ~isVirtualMachineWorkload(h)
  BY <1>3, <1>8 DEF isVirtualMachineWorkload
<1>10. ~everyOperandDisabled(h)
  BY <1>3 DEF everyOperandDisabled, AllOff
<1>11. Targeted(in, h)
  <2>1. CASE node[n].taints = {}
    BY <1>3, <1>10, <2>1, GatedIsTargeted
  <2>2. CASE "pods" \notin R
    <3>1. PICK p \in pods : p.node = n /\ p.name = "validator"
      BY <1>8 DEF Runs
    <3>2. operandFromPod(p) \in h.operands
      BY <1>1, <1>3, <2>2, <3>1, ClusterPods DEF ClusterInv
    <3>3. operandFromPod(p).component = "validator"
      BY <3>1, ClusterPods, OperandIs DEF ClusterInv
    <3> QED
      BY <1>10, <3>2, <3>3, GatedIsTargeted DEF deployGatedComponents
  <2> QED
    BY <2>1, <2>2
<1>12. Finding("NV-NODE-002", Error, n, "node") \in NodeNoAllocatableGPUs(in)
  BY <1>2, <1>3, <1>6, <1>7, <1>9, <1>11 DEF NodeNoAllocatableGPUs
<1> QED
  BY <1>12 DEF Findings, AllWith, in, r

\* A node that had a GPU to place and offers none, through neither the plugin nor a
\* slice, is an error of NV-NODE-002 (nv_node_002.go) for every number of reads that
\* are refused, but where only its pods or the tolerations could tell.
THEOREM LostIsAlwaysSeen == Spec => []LostNodeIsSeen
<1>1. ClusterInv => LostNodeIsSeen
  <2> SUFFICES ASSUME ClusterInv, NEW R \in Losses, NEW n \in served,
                      node[n].present,
                      ~(node[n].slice \/ \E r \in Resources : node[n].alloc[r] > 0),
                      ~(\A k \in DOMAIN node[n].deploy : DeployDisabled(node[n].deploy[k])),
                      ~(node[n].taints # {} /\ "pods" \in R)
               PROVE  \E f \in Findings(Live(R)) : f.node = n /\ f.code = "NV-NODE-002" /\ f.sev = Error
    BY DEF LostNodeIsSeen
  <2> DEFINE f == Finding("NV-NODE-002", Error, n, "node")
  <2>1. f \in Findings(Live(R))
    BY LostIsSeen DEF AllOff, ClusterInv, RoleInv
  <2>2. f.node = n /\ f.code = "NV-NODE-002" /\ f.sev = Error
    BY DEF Finding
  <2> QED
    BY <2>1, <2>2
<1> QED
  BY <1>1, ClusterInit, ClusterKept, PTL DEF Spec

-----------------------------------------------------------------------------
(* A driver, a toolkit and an upgrade that are broken. *)

\* The reading of a run that got the pods, and the node it builds.
LEMMA PodsRead ==
  ASSUME ClusterInv, NEW R, "pods" \notin R, "operator" \notin R, NEW n \in Nodes
  PROVE  LET r == Live(R)
             h == buildNode(r, n, operandsByNode(pods)[n])
         IN /\ Input(r).installed
            /\ h \in everyNode(Input(r))
            /\ IsBuilt(h, r, n, operandsByNode(pods)[n])
            /\ \A p \in pods : p.node = n => operandFromPod(p) \in h.operands
<1> DEFINE r == Live(R)
<1>1. r.nodes = node /\ r.pods = pods /\ r.operator = {p \in pods : Label(p, "app") = "gpu-operator"}
  BY Reading
<1> HIDE DEF r
<1> DEFINE h == buildNode(r, n, operandsByNode(pods)[n])
<1>2. h \in everyNode(Input(r))
  BY <1>1, EveryNodeIsBuilt DEF ClusterInv
<1>3. IsBuilt(h, r, n, operandsByNode(pods)[n])
  BY <1>1, BuildsIt
<1>4. Input(r).installed
  <2>1. r.operator # {}
    BY <1>1, ClusterPods DEF ClusterInv
  <2>2. Input(r).installed = (r.operator # {})
    BY DEF Input
  <2> QED
    BY <2>1, <2>2
<1> HIDE DEF h
<1>5. \A p \in pods : p.node = n => operandFromPod(p) \in h.operands
  BY <1>3, ClusterPods DEF ClusterInv, IsBuilt
<1> QED
  BY <1>2, <1>3, <1>4, <1>5 DEF h, r

\* The fields of the containers there are.
LEMMA ContainerFields ==
  ASSUME NEW c, Contained(c)
  PROVE  \/ c = Running /\ c.restarts = 0 /\ c.ready = TRUE /\ ~lastTermination(c).observed
         \/ c.restarts \in Nat \ {0} /\ c.ready = FALSE
         \/ /\ c.restarts \in Nat \ {0} /\ c.ready = TRUE
            /\ \E t \in 1 .. now : c.last = Terminated(1, t) /\ lastTermination(c) = c.last
<1>1. CASE c = Running
  <2>1. c.restarts = 0 /\ c.ready = TRUE /\ c.cur = NoTermination /\ c.last = NoTermination
    BY <1>1 DEF Running, Container
  <2>2. NoTermination.observed = FALSE
    BY DEF NoTermination
  <2>3. ~lastTermination(c).observed
    BY <2>1, <2>2 DEF lastTermination
  <2> QED
    BY <1>1, <2>1, <2>3
<1>2. ASSUME NEW t \in 1 .. now, c.restarts \in Nat \ {0},
             c = Container("CrashLoopBackOff", NoTermination, Terminated(1, t), c.restarts, FALSE)
      PROVE  c.ready = FALSE
  BY <1>2 DEF Container
<1>3. ASSUME NEW t \in 1 .. now,
             c = Container("running", NoTermination, Terminated(1, t), c.restarts, TRUE)
      PROVE  c.ready = TRUE /\ c.last = Terminated(1, t) /\ lastTermination(c) = c.last
  <2>1. c.ready = TRUE /\ c.last = Terminated(1, t) /\ c.cur = NoTermination
    BY <1>3 DEF Container
  <2>2. lastTermination(c) = c.last
    BY <2>1 DEF lastTermination, NoTermination
  <2> QED
    BY <2>1, <2>2
<1> QED
  BY <1>1, <1>2, <1>3 DEF Contained

\* The newest termination of a pod is the one its first container had.
LEMMA NewestIs ==
  ASSUME NEW role, NEW c, ~lastTermination(Running).observed, lastTermination(c).observed,
         lastTermination(c).at \in Nat
  PROVE  newestTermination(Statuses(role, c)) = lastTermination(c)
<1> DEFINE s == Statuses(role, c)
           seen == {t \in {lastTermination(s[i]) : i \in DOMAIN s} : t.observed}
           P(t) == \A u \in seen : u.at <= t.at
<1>1. seen = {lastTermination(c)}
  <2>1. s[1] = c /\ (DOMAIN s = {1} \/ (DOMAIN s = {1, 2} /\ s[2] = Running))
    BY Tuples
  <2> HIDE DEF s
  <2> QED
    BY <2>1
<1>2. newestTermination(s) = IF seen = {} THEN NoTermination ELSE CHOOSE t \in seen : P(t)
  BY DEF newestTermination
<1>3. P(lastTermination(c))
  BY <1>1
<1> HIDE DEF s, seen, P
<1>4. newestTermination(s) = CHOOSE t \in seen : P(t)
  BY <1>1, <1>2
<1>5. (CHOOSE t \in seen : P(t)) \in seen
  BY <1>1, <1>3
<1> QED
  BY <1>1, <1>4, <1>5 DEF s

\* A driver pod that is down, or came back a moment ago, is named.
LEMMA DriverIsNamed ==
  ASSUME ClusterInv, NEW R, "pods" \notin R, "operator" \notin R,
         NEW p \in pods, p.name \in {"driver", "vgpu-manager"},
         ~operandDisabledOn(node[p.node], p.name),
         \/ p.statuses = <<>>
         \/ \E c \in {p.statuses[i] : i \in DOMAIN p.statuses} :
              c.restarts > 0 /\ (c.ready => now - c.last.at < DriverRestartWindow)
  PROVE  Finding("NV-DRV-001", IF midUpgrade(node[p.node]) THEN Info ELSE Error, p.node, p.name)
           \in Findings(Live(R))
<1> DEFINE n == p.node
           r == Live(R)
           in == Input(r)
           h == buildNode(r, n, operandsByNode(pods)[n])
           o == operandFromPod(p)
<1>1. PodOk(p) /\ n \in Nodes
  BY DEF ClusterInv, PodInv, PodOk
<1>2. /\ in.installed /\ h \in everyNode(in)
      /\ IsBuilt(h, r, n, operandsByNode(pods)[n]) /\ o \in h.operands
  BY <1>1, PodsRead
<1>3. o.component = p.name
  BY ClusterPods, OperandIs DEF ClusterInv
<1>4. /\ o.ready = allReady(p.statuses) /\ o.restarted = Restarts(p.statuses)
      /\ o.died = newestTermination(p.statuses)
  BY OperandIs
<1> HIDE DEF in, h, o, r
<1>5. ~o.ready \/ (o.restarted /\ insideWindow(o.died, DriverRestartWindow))
  <2>1. CASE p.statuses = <<>>
    <3>1. ~allReady(p.statuses)
      BY <2>1 DEF allReady
    <3> QED
      BY <1>4, <3>1
  <2>2. CASE p.statuses # <<>>
    <3> DEFINE c == p.statuses[1]
               s == Statuses(p.name, c)
    <3>1. Contained(c) /\ p.statuses = s
      BY <1>1, <2>2 DEF PodOk
    <3>2. s[1] = c /\ 1 \in DOMAIN s /\ (DOMAIN s = {1} \/ (DOMAIN s = {1, 2} /\ s[2] = Running))
      BY Tuples
    <3>3. Running.restarts = 0 /\ ~lastTermination(Running).observed
      <4>1. Contained(Running)
        BY DEF Contained
      <4>2. Running.restarts = 0
        BY DEF Running, Container
      <4> QED
        BY <4>1, <4>2, ContainerFields
    <3>4. c.restarts > 0 /\ (c.ready => now - c.last.at < DriverRestartWindow)
      BY <2>2, <3>1, <3>2, <3>3
    <3> HIDE DEF c, s
    <3>5. CASE c.ready = FALSE
      <4>1. ~allReady(s)
        BY <3>2, <3>5 DEF allReady
      <4> QED
        BY <1>4, <3>1, <4>1
    <3>6. ASSUME c.ready = TRUE, NEW t \in 1 .. now, c.last = Terminated(1, t), lastTermination(c) = c.last
          PROVE  o.restarted /\ insideWindow(o.died, DriverRestartWindow)
      <4>1. c.last.observed = TRUE /\ c.last.at = t
        BY <3>6 DEF Terminated
      <4>2. now \in Nat
        BY DEF ClusterInv, EventInv
      <4>3. newestTermination(s) = c.last
        <5>1. lastTermination(c).observed /\ lastTermination(c).at \in Nat
          BY <3>6, <4>1, <4>2
        <5> QED
          BY <3>3, <3>6, <5>1, NewestIs DEF s
      <4>4. insideWindow(c.last, DriverRestartWindow)
        BY <3>4, <3>6, <4>1, <4>2 DEF insideWindow
      <4>5. Restarts(s)
        BY <3>2, <3>4 DEF Restarts
      <4> QED
        BY <1>4, <3>1, <4>3, <4>4, <4>5
    <3>7. c.restarts # 0
      BY <3>4
    <3> QED
      BY <3>1, <3>5, <3>6, <3>7, ContainerFields
  <2> QED
    BY <2>1, <2>2
<1>6. h.name = n /\ h.deploy = node[n].deploy /\ h.upgrade = node[n].upgrade
  BY <1>2 DEF IsBuilt
<1>7. ~operandDisabledOn(h, o.component) /\ (midUpgrade(h) <=> midUpgrade(node[n]))
  <2>1. ~operandDisabledOn(h, o.component)
    BY <1>3, <1>6 DEF operandDisabledOn
  <2>2. midUpgrade(h) <=> midUpgrade(node[n])
    BY <1>6, Zenon DEF midUpgrade
  <2> QED
    BY <2>1, <2>2
<1>8. Finding("NV-DRV-001", IF midUpgrade(h) THEN Info ELSE Error, h.name, o.component)
        \in DriverPodNotReady(in)
  BY <1>2, <1>3, <1>5, <1>7 DEF DriverPodNotReady
<1>9. Finding("NV-DRV-001", IF midUpgrade(node[n]) THEN Info ELSE Error, n, p.name) \in DriverPodNotReady(in)
  BY <1>3, <1>6, <1>7, <1>8
<1> QED
  BY <1>9 DEF Findings, AllWith, in, r

\* A validation that ended in an error is named.
LEMMA ToolkitIsNamed ==
  ASSUME ClusterInv, NEW R, "pods" \notin R, "operator" \notin R,
         NEW p \in pods, p.name = "validator",
         p.init[1].status.last.code + p.init[1].status.cur.code > 0
  PROVE  Finding("NV-CTK-001", Error, p.node, "container-toolkit") \in Findings(Live(R))
<1> DEFINE n == p.node
           r == Live(R)
           in == Input(r)
           h == buildNode(r, n, operandsByNode(pods)[n])
           o == operandFromPod(p)
<1>1. PodOk(p) /\ n \in Nodes
  BY DEF ClusterInv, PodInv, PodOk
<1>2. /\ in.installed /\ h \in everyNode(in)
      /\ IsBuilt(h, r, n, operandsByNode(pods)[n]) /\ o \in h.operands
  BY <1>1, PodsRead
<1>3. o.component = "validator" /\ o.init = p.init
  BY ClusterPods, OperandIs DEF ClusterInv
<1> HIDE DEF in, h, o, r
<1>4. PICK t \in 1 .. now : p.init \in {<<Validation("terminated", 0, t)>>,
                                        <<Validation("terminated", 1, t)>>,
                                        <<Validation("CrashLoopBackOff", 1, t)>>}
  BY <1>1 DEF PodOk
<1>5. PICK v : p.init = <<v>> /\ v \in {Validation("terminated", 0, t), Validation("terminated", 1, t),
                                        Validation("CrashLoopBackOff", 1, t)}
  BY <1>4
<1>6. DOMAIN p.init = {1} /\ p.init[1] = v
  BY <1>5, Tuples
<1>7. v # Validation("terminated", 0, t)
  <2> SUFFICES ASSUME v = Validation("terminated", 0, t) PROVE FALSE
    OBVIOUS
  <2>1. v.status.cur.code = 0 /\ v.status.last.code = 0
    BY DEF Validation, Container, Terminated, NoTermination
  <2> QED
    BY <1>6, <2>1
<1>8. v.name = "toolkit-validation" /\ toolkitFailure(v.status)
  <2>1. CASE v = Validation("terminated", 1, t)
    <3>1. v.name = "toolkit-validation" /\ v.status.state = "terminated" /\ v.status.cur.code = 1
      BY <2>1 DEF Validation, Container, Terminated, NoTermination
    <3> QED
      BY <3>1 DEF toolkitFailure
  <2>2. CASE v = Validation("CrashLoopBackOff", 1, t)
    <3>1. /\ v.name = "toolkit-validation" /\ v.status.state = "CrashLoopBackOff"
          /\ v.status.cur.observed = FALSE /\ v.status.last.code = 1 /\ v.status.last.observed = TRUE
      BY <2>2 DEF Validation, Container, Terminated, NoTermination
    <3>2. lastTermination(v.status) = v.status.last
      BY <3>1 DEF lastTermination
    <3> QED
      BY <3>1, <3>2 DEF toolkitFailure
  <2> QED
    BY <1>5, <1>7, <2>1, <2>2
<1>9. o \in operandsFor(h, "validator")
  BY <1>2, <1>3 DEF operandsFor
<1>10. h.name = n
  BY <1>2 DEF IsBuilt
<1>11. Finding("NV-CTK-001", Error, n, "container-toolkit") \in ToolkitValidationFailed(in)
  BY <1>2, <1>3, <1>6, <1>8, <1>9, <1>10 DEF ToolkitValidationFailed
<1> QED
  BY <1>11 DEF Findings, AllWith, in, r

\* The event of the step a node is in.
Dates(n) == [node |-> n, state |-> node[n].upgrade, at |-> since[n]]

\* The newest of the events that announce the state of a node is the one that dates it.
LEMMA NewestEvent ==
  ASSUME ClusterInv, NEW in, in.events \in {{}, events}, NEW g, NEW n \in Nodes, g.name = n,
         g.upgrade = node[n].upgrade
  PROVE  /\ enteredState(in, g) # {} => Elapsed(in, g) = now - since[n]
         /\ (in.events = events /\ Dates(n) \in events) => enteredState(in, g) # {}
         /\ enteredState(in, g) # {} => in.events = events /\ Dates(n) \in events
<1> DEFINE d == Dates(n)
           E == enteredState(in, g)
           P(e) == \A f \in E : f.at <= e.at
<1>1. E = {e \in in.events : e.node = n /\ e.state = node[n].upgrade /\ e.at # 0}
  BY DEF enteredState
<1>2. \A e \in events : e.at \in Nat \ {0}
  BY DEF ClusterInv, EventInv
<1>3. d.node = n /\ d.state = node[n].upgrade /\ d.at = since[n]
  BY DEF Dates
<1>4. \A e \in events : (e.node = n /\ e.state = node[n].upgrade) => e.at <= since[n] /\ d \in events
  BY DEF ClusterInv, EventInv, Dates
<1> HIDE DEF d
<1>5. (in.events = events /\ d \in events) => d \in E
  BY <1>1, <1>2, <1>3
<1>6. ASSUME E # {} PROVE Elapsed(in, g) = now - since[n] /\ in.events = events /\ d \in events
  <2>1. in.events = events /\ d \in events /\ \A e \in E : e \in events /\ e.at <= since[n] /\ e.at \in Nat
    BY <1>1, <1>2, <1>4, <1>6
  <2>2. d \in E /\ P(d)
    BY <1>3, <1>5, <2>1
  <2>3. \A e \in E : P(e) => e.at = since[n]
    BY <1>3, <2>1, <2>2
  <2>4. Elapsed(in, g) = now - (CHOOSE e \in E : P(e)).at
    BY DEF Elapsed
  <2> HIDE DEF E, P
  <2>5. (CHOOSE e \in E : P(e)) \in E /\ P(CHOOSE e \in E : P(e))
    BY <2>2
  <2> QED
    BY <2>1, <2>3, <2>4, <2>5
<1> QED
  BY <1>5, <1>6 DEF d

\* A node that is stuck in an upgrade is named.
LEMMA StuckIsNamed ==
  ASSUME ClusterInv, NEW R, NEW n \in Nodes, Stuck(n, now)
  PROVE  LET dated == /\ "events" \notin R
                      /\ [node |-> n, state |-> node[n].upgrade, at |-> since[n]] \in events
         IN Finding("NV-UPG-001", IF dated THEN Warning ELSE Info, n, "node") \in Findings(Live(R))
<1> DEFINE r == Live(R)
           in == Input(r)
           h == buildNode(r, n, operandsByNode(r.pods)[n])
           dated == /\ "events" \notin R
                    /\ Dates(n) \in events
<1>1. r.nodes = node /\ r.events = IF "events" \in R THEN {} ELSE events
  BY Reading
<1> HIDE DEF r
<1>2. h \in everyNode(in)
  BY <1>1, EveryNodeIsBuilt DEF ClusterInv
<1>3. IsBuilt(h, r, n, operandsByNode(r.pods)[n])
  BY <1>1, BuildsIt
<1>4. in.events = r.events
  BY DEF Input
<1> HIDE DEF h, in
<1>5. h.name = n /\ h.upgrade = node[n].upgrade
  BY <1>3 DEF IsBuilt
<1>6. /\ enteredState(in, h) # {} => Elapsed(in, h) = now - since[n]
      /\ dated => enteredState(in, h) # {}
      /\ (enteredState(in, h) # {} /\ "events" \notin R) => dated
      /\ "events" \in R => enteredState(in, h) = {}
  <2>1. in.events \in {{}, events}
    BY <1>1, <1>4
  <2>2. "events" \in R => enteredState(in, h) = {}
    BY <1>1, <1>4 DEF enteredState
  <2> QED
    BY <1>1, <1>4, <1>5, <2>1, <2>2, NewestEvent
<1>7. h.upgrade \in upgradeStuckStates /\ h.upgrade # UpgradeFailed
  BY <1>5 DEF Stuck, upgradeStuckStates, UpgradeFailed
<1>8. enteredState(in, h) # {} => Elapsed(in, h) >= upgradeStuckAfter
  BY <1>6 DEF Stuck
<1>9. Finding("NV-UPG-001", IF enteredState(in, h) # {} THEN Warning ELSE Info, h.name, "node") \in UpgradeStuck(in)
  BY <1>2, <1>7, <1>8 DEF UpgradeStuck
<1>10. enteredState(in, h) # {} <=> dated
  BY <1>6
<1>11. Finding("NV-UPG-001", IF dated THEN Warning ELSE Info, n, "node") \in UpgradeStuck(in)
  BY <1>5, <1>9, <1>10
<1> QED
  BY <1>11 DEF Findings, AllWith, in, r, Dates

\* What is broken is named on its node, for every cluster and for every number of
\* reads that are refused beside the pods' (nv_drv_001.go, nv_ctk_001.go and
\* nv_upg_001.go over everyNode, nodes.go:30).
THEOREM BrokenIsAlwaysSeen == Spec => []BrokenIsSeen
<1>1. ClusterInv => BrokenIsSeen
  <2> SUFFICES ASSUME ClusterInv, NEW R \in Losses, R \cap {"pods", "operator"} = {}, NEW p \in pods
               PROVE  LET found == Findings(Live(R))
                          named(code, sev) == \E f \in found : f.node = p.node /\ f.code = code /\ f.sev >= sev
                          dated == "events" \notin R
                                   /\ [node |-> p.node, state |-> node[p.node].upgrade, at |-> since[p.node]] \in events
                          paused(key) == key \in DOMAIN node[p.node].deploy /\ DeployDisabled(node[p.node].deploy[key])
                          dead == \E c \in {p.statuses[i] : i \in DOMAIN p.statuses} :
                                    c.restarts > 0 /\ (c.ready => now - c.last.at < DriverRestartWindow)
                          upgrading == node[p.node].upgrade \notin {"", UpgradeDone, UpgradeFailed}
                      IN /\ p.name \in {"driver", "vgpu-manager"} /\ ~paused(p.name) /\ (dead \/ p.statuses = <<>>)
                              => named("NV-DRV-001", IF upgrading THEN Info ELSE Error)
                         /\ p.name = "validator" /\ p.init[1].status.last.code + p.init[1].status.cur.code > 0
                              => named("NV-CTK-001", Error)
                         /\ p.name = "driver" /\ Stuck(p.node, now) => named("NV-UPG-001", IF dated THEN Warning ELSE Info)
    BY Zenon DEF BrokenIsSeen
  <2> DEFINE n == p.node
             found == Findings(Live(R))
             named(code, sev) == \E f \in found : f.node = n /\ f.code = code /\ f.sev >= sev
  <2>1. \A code, component : \A sev \in {Info, Warning, Error} :
          Finding(code, sev, n, component) \in found => named(code, sev)
    BY DEF Finding, Info, Warning, Error
  <2>2. "pods" \notin R /\ "operator" \notin R
    OBVIOUS
  <2> HIDE DEF named, found
  <2>3. ASSUME p.name \in {"driver", "vgpu-manager"}, ~operandDisabledOn(node[n], p.name),
               \/ p.statuses = <<>>
               \/ \E c \in {p.statuses[i] : i \in DOMAIN p.statuses} :
                    c.restarts > 0 /\ (c.ready => now - c.last.at < DriverRestartWindow)
        PROVE  named("NV-DRV-001", IF midUpgrade(node[n]) THEN Info ELSE Error)
    <3>1. Finding("NV-DRV-001", IF midUpgrade(node[n]) THEN Info ELSE Error, n, p.name) \in found
      BY <2>2, <2>3, DriverIsNamed DEF found
    <3> QED
      BY <2>1, <3>1
  <2>4. ASSUME p.name = "validator", p.init[1].status.last.code + p.init[1].status.cur.code > 0
        PROVE  named("NV-CTK-001", Error)
    <3>1. Finding("NV-CTK-001", Error, n, "container-toolkit") \in found
      BY <2>2, <2>4, ToolkitIsNamed DEF found
    <3> QED
      BY <2>1, <3>1
  <2>5. ASSUME p.name = "driver", Stuck(n, now)
        PROVE  LET dated == "events" \notin R
                            /\ [node |-> n, state |-> node[n].upgrade, at |-> since[n]] \in events
               IN named("NV-UPG-001", IF dated THEN Warning ELSE Info)
    <3> DEFINE dated == "events" \notin R
                        /\ [node |-> n, state |-> node[n].upgrade, at |-> since[n]] \in events
    <3>1. n \in Nodes
      BY <2>5 DEF ClusterInv, PodInv, PodOk
    <3>2. Finding("NV-UPG-001", IF dated THEN Warning ELSE Info, n, "node") \in found
      BY <2>5, <3>1, StuckIsNamed DEF found
    <3> HIDE DEF dated
    <3>3. named("NV-UPG-001", IF dated THEN Warning ELSE Info)
      BY <2>1, <3>2
    <3> QED
      BY <3>3 DEF dated
  <2> QED
    BY <2>3, <2>4, <2>5, Zenon DEF named, found, operandDisabledOn, midUpgrade
<1> QED
  BY <1>1, ClusterInit, ClusterKept, PTL DEF Spec

-----------------------------------------------------------------------------
(* A node that no fault has struck. *)

\* A node, its pods and what dates it are as they were.
Still(n) ==
  /\ node'[n] = node[n] /\ since'[n] = since[n] /\ now' = now
  /\ \A p : p.node = n => (p \in pods' <=> p \in pods)

\* The exporter is not switched on again.
Switched ==
  (\A i \in DOMAIN policies : policies[i].name = Policy.name => "dcgmExporter" \in policies[i].off)
    => \A i \in DOMAIN policies' : policies'[i].name = Policy.name => "dcgmExporter" \in policies'[i].off

\* A node that nothing changed is as sane as it was.
LEMMA StillSane ==
  ASSUME NEW n, Still(n), SaneAt(n), Switched
  PROVE  SaneAt(n)'
<1>1. \A role : Runs(n, role)' <=> Runs(n, role)
  BY DEF Still, Runs
<1>2. Idle(n)' <=> Idle(n)
  <2>1. (\A p \in pods' : p.node = n => p.name \in {"gpu-operator", "nfd", "imex-daemon"})
          <=> (\A p \in pods : p.node = n => p.name \in {"gpu-operator", "nfd", "imex-daemon"})
    BY DEF Still
  <2> QED
    BY <1>1, <2>1 DEF Idle, Still
<1>3. Sound(n)'
  <2>1. Stuck(n, now)' <=> Stuck(n, now)
    BY DEF Stuck, Still
  <2> QED
    BY <2>1 DEF Sound, SaneAt, Still
<1>4. Offers(n)'
  <2>1. Served(n)' <=> Served(n)
    BY DEF Served, Still
  <2>2. AllOff(n)' <=> AllOff(n)
    BY DEF AllOff, Still
  <2> QED
    BY <1>2, <2>1, <2>2 DEF Offers, SaneAt, Still
<1>5. Plugged(n)'
  BY <1>1, <1>2 DEF Plugged, SaneAt, Still
<1>6. Exported(n)'
  BY <1>1, <1>2 DEF Exported, SaneAt, Still, Switched
<1>7. Healthy(n)'
  BY DEF Healthy, SaneAt, Still
<1> QED
  BY <1>3, <1>4, <1>5, <1>6, <1>7 DEF SaneAt

\* Pods that come and go on other nodes.
LEMMA ElsewhereIsStill ==
  ASSUME NEW n, NEW m, m # n, NEW new, NEW gone, Moved({n}, new, gone),
         node'[m] = node[m], since'[m] = since[m], now' = now
  PROVE  Still(m)
BY DEF Moved, Still

\* A node on which nothing serves GPUs stays one.
LEMMA IdleKept ==
  ASSUME NEW n, Idle(n), NEW N, NEW new, NEW gone, Moved(N, new, gone), new \subseteq {"imex-daemon"},
         node'[n].cap = node[n].cap, node'[n].slice = node[n].slice, Grows(node[n], node'[n])
  PROVE  Idle(n)'
<1>1. ~Runs(n, "device-plugin")'
  BY DEF Idle, Runs, Moved
<1>2. node'[n].workload = node[n].workload /\ node[n].taints \subseteq node'[n].taints
  BY DEF Grows
<1>3. (\A p \in pods : p.node = n => p.name \in {"gpu-operator", "nfd", "imex-daemon"})
        => \A p \in pods' : p.node = n => p.name \in {"gpu-operator", "nfd", "imex-daemon"}
  BY DEF Moved
<1> QED
  BY <1>1, <1>2, <1>3 DEF Idle

\* The labels of a node are as they were.
LEMMA SoundKept ==
  ASSUME NEW n, Sound(n), now' = now, since'[n] = since[n],
         node'[n].present = node[n].present, node'[n].count = node[n].count,
         node'[n].config = node[n].config, node'[n].configState = node[n].configState,
         node'[n].upgrade = node[n].upgrade, node'[n].replicas = node[n].replicas,
         node'[n].strategy = node[n].strategy
  PROVE  Sound(n)'
<1>1. Stuck(n, now)' <=> Stuck(n, now)
  BY DEF Stuck
<1> QED
  BY <1>1 DEF Sound

\* What a node offers is as it was.
LEMMA OffersKept ==
  ASSUME NEW n, Offers(n), Idle(n) => Idle(n)', Grows(node[n], node'[n]),
         node'[n].cap = node[n].cap, node'[n].alloc = node[n].alloc,
         node[n].slice => node'[n].slice, node'[n].replicas = node[n].replicas,
         node'[n].strategy = node[n].strategy
  PROVE  Offers(n)'
<1>1. Served(n)' <=> Served(n)
  BY DEF Served
<1>2. AllOff(n) => AllOff(n)'
  BY OffStaysOff
<1> QED
  BY <1>1, <1>2 DEF Offers

\* The pods that come to a node are healthy.
LEMMA HealthyKept ==
  ASSUME NEW n, Healthy(n), node'[n].upgrade = node[n].upgrade,
         \A q \in pods' \ pods : q.node = n =>
           q.name # "validator" /\ q.statuses = Statuses(q.name, Running)
  PROVE  Healthy(n)'
<1>1. midUpgrade(node'[n]) <=> midUpgrade(node[n])
  BY Zenon DEF midUpgrade
<1> QED
  BY <1>1 DEF Healthy

\* The plugin and the exporter go only where they are switched off.
LEMMA KeptSane ==
  ASSUME NEW n, SaneAt(n), Switched, Grows(node[n], node'[n]),
         NEW N, NEW new, NEW gone, Moved(N, new, gone), Idle(n) => Idle(n)',
         "device-plugin" \in gone => ~Runs(n, "device-plugin") \/ operandDisabledOn(node'[n], "device-plugin"),
         "dcgm-exporter" \in gone =>
           \/ operandDisabledOn(node'[n], "dcgm-exporter")
           \/ \A i \in DOMAIN policies' : policies'[i].name = Policy.name => "dcgmExporter" \in policies'[i].off,
         Sound(n)', Offers(n)', Healthy(n)'
  PROVE  SaneAt(n)'
<1>1. \A role : role \notin gone => (Runs(n, role) => Runs(n, role)')
  BY DEF Moved, Runs
<1>2. \A key : operandDisabledOn(node[n], key) => operandDisabledOn(node'[n], key)
  BY DEF operandDisabledOn, Grows
<1>3. Plugged(n)'
  BY <1>1, <1>2 DEF SaneAt, Plugged
<1>4. Exported(n)'
  BY <1>1, <1>2 DEF SaneAt, Exported, Switched
<1> QED
  BY <1>3, <1>4 DEF SaneAt

\* A pod that is made is healthy.
LEMMA FreshPod ==
  ASSUME NEW n, NEW role \in Roles \ {"validator"}
  PROVE  /\ NewPod(n, role).name = role /\ NewPod(n, role).node = n
         /\ NewPod(n, role).statuses = Statuses(role, Running)
BY DEF NewPod, Statuses

\* The steps of one node: the faults but for a failed upgrade, and the changes made on
\* purpose.
Fault(n) ==
  \/ DriverFails(n) \/ ToolkitFails(n) \/ PluginStops(n) \/ DeviceUnhealthy(n)
  \/ ImexFails(n) \/ SliceWithdrawn(n) \/ ReconfigureFails(n) \/ Unlabel(n)
Purpose(n) ==
  \/ PublishSlice(n) \/ RetirePlugin(n) \/ Repartition(n) \/ Share(n) \/ Pause(n)
  \/ Relabel(n) \/ JoinDomain(n)

\* They leave the other nodes alone.
LEMMA OthersAlone ==
  ASSUME NodeInv, NEW n \in Changing, Fault(n) \/ Purpose(n) \/ \E state : UpgradeStep(n, state),
         NEW m \in Nodes \ {n}
  PROVE  node'[m] = node[m] /\ since'[m] = since[m] /\ now' = now /\ policies' = policies
<1>1. n \in Nodes
  BY ClusterAssumption
<1>2. ASSUME NEW fields, SetNode(n, fields) \/ \E alloc : Advertise(n, alloc, fields)
      PROVE  node'[m] = node[m]
  BY <1>1, <1>2, SetOnly DEF Only
<1>3. node'[m] = node[m]
  <2>1. CASE DriverFails(n) \/ ToolkitFails(n) \/ ImexFails(n) \/ JoinDomain(n)
    BY <2>1, Zenon DEF DriverFails, ToolkitFails, ImexFails, JoinDomain
  <2>2. CASE DeviceUnhealthy(n)
    <3>1. PICK r \in Resources : node' = [node EXCEPT ![n].alloc[r] = @ - 1]
      BY <2>2 DEF DeviceUnhealthy
    <3> QED
      BY <3>1 DEF NodeInv
  <2>3. CASE PluginStops(n) \/ SliceWithdrawn(n) \/ ReconfigureFails(n) \/ Unlabel(n) \/ PublishSlice(n)
             \/ RetirePlugin(n) \/ Repartition(n) \/ Share(n) \/ Pause(n) \/ Relabel(n)
             \/ \E state : UpgradeStep(n, state)
    <3>1. \E fields : SetNode(n, fields) \/ \E alloc : Advertise(n, alloc, fields)
      BY <2>3, Zenon DEF PluginStops, SliceWithdrawn, ReconfigureFails, Unlabel, PublishSlice,
         RetirePlugin, Repartition, Share, Pause, Relabel, UpgradeStep
    <3> QED
      BY <1>2, <3>1
  <2> QED
    BY <2>1, <2>2, <2>3 DEF Fault, Purpose
<1>4. policies' = policies /\ now' = now
  BY Zenon DEF Fault, Purpose, DriverFails, ToolkitFails, PluginStops, DeviceUnhealthy, ImexFails,
     SliceWithdrawn, ReconfigureFails, Unlabel, PublishSlice, RetirePlugin, Repartition, Share, Pause,
     Relabel, JoinDomain, UpgradeStep, Change
<1>5. since'[m] = since[m]
  <2>1. CASE Fault(n) \/ Purpose(n)
    BY <2>1, Zenon DEF Fault, Purpose, DriverFails, ToolkitFails, PluginStops, DeviceUnhealthy, ImexFails,
     SliceWithdrawn, ReconfigureFails, Unlabel, PublishSlice, RetirePlugin, Repartition, Share, Pause,
     Relabel, JoinDomain
  <2>2. CASE \E state : UpgradeStep(n, state)
    <3>1. since' = [since EXCEPT ![n] = now]
      BY <2>2, Zenon DEF UpgradeStep
    <3> QED
      BY <3>1
  <2> QED
    BY <2>1, <2>2
<1> QED
  BY <1>3, <1>4, <1>5

\* And their pods.
LEMMA OtherPodsStay ==
  ASSUME NodeInv, PodInv, now \in Nat \ {0}, NEW n \in Changing,
         Fault(n) \/ Purpose(n) \/ \E state : UpgradeStep(n, state)
  PROVE  \E new, gone : Moved({n}, new, gone)
<1>1. n \in Nodes
  BY ClusterAssumption
<1>2. CASE DeviceUnhealthy(n) \/ SliceWithdrawn(n) \/ ReconfigureFails(n)
           \/ Unlabel(n) \/ Repartition(n) \/ Share(n) \/ Relabel(n)
  <2>1. pods' = pods
    BY <1>2, Zenon DEF DeviceUnhealthy, SliceWithdrawn, ReconfigureFails, Unlabel, Repartition, Share, Relabel
  <2> QED
    BY <2>1, StillMoved
<1>3. CASE DriverFails(n) \/ PluginStops(n) \/ ImexFails(n)
  <2>1. PICK role \in {"driver", "vgpu-manager", "device-plugin", "imex-daemon"} :
          \/ UpdatePod(n, role, LAMBDA p : [p EXCEPT !.statuses[1] = Died(@)])
          \/ UpdatePod(n, role, LAMBDA p : [p EXCEPT !.statuses[1] = CameBack(@)])
          \/ role \in {"driver", "vgpu-manager"} /\ UpdatePod(n, role, LAMBDA p : [p EXCEPT !.statuses = <<>>])
    BY <1>3, Zenon DEF DriverFails, PluginStops, ImexFails
  <2> QED
    BY <2>1, EndedMoved, ClearedMoved
<1>4. CASE ToolkitFails(n)
  <2>1. PICK state \in {"terminated", "CrashLoopBackOff"} :
          UpdatePod(n, "validator", LAMBDA p : [p EXCEPT !.init = <<Validation(state, 1, now)>>])
    BY <1>4, Zenon DEF ToolkitFails
  <2> QED
    BY <2>1, FailedMoved
<1>5. CASE PublishSlice(n) \/ JoinDomain(n)
  <2>1. PICK role \in {"dra-driver", "imex-daemon"} : pods' = pods \cup {NewPod(n, role)}
    BY <1>5, Zenon DEF PublishSlice, JoinDomain
  <2> QED
    BY <1>1, <2>1, MadeMoved DEF Roles
<1>6. CASE RetirePlugin(n) \/ Pause(n)
  <2>1. PICK roles : pods' = Without(n, roles)
    BY <1>6, Zenon DEF RetirePlugin, Pause
  <2> QED
    BY <2>1, WithoutMoved
<1>7. CASE \E state : UpgradeStep(n, state)
  BY <1>1, <1>7, UpgradedMoved
<1> QED
  BY <1>2, <1>3, <1>4, <1>5, <1>6, <1>7 DEF Fault, Purpose

\* What was sane of the others is.
LEMMA OthersSane ==
  ASSUME NodeInv, PodInv, now \in Nat \ {0}, NEW n \in Changing,
         Fault(n) \/ Purpose(n) \/ \E state : UpgradeStep(n, state),
         NEW m \in Nodes \ {n}, SaneAt(m)
  PROVE  SaneAt(m)'
<1>1. node'[m] = node[m] /\ since'[m] = since[m] /\ now' = now /\ policies' = policies
  BY OthersAlone
<1>2. PICK new, gone : Moved({n}, new, gone)
  BY OtherPodsStay
<1>3. Still(m)
  BY <1>1, <1>2, ElsewhereIsStill
<1>4. Switched
  BY <1>1 DEF Switched
<1> QED
  BY <1>3, <1>4, StillSane

\* Of the node itself: what a change made on purpose leaves alone.
LEMMA PurposeKeeps ==
  ASSUME NodeInv, NEW n \in Changing, Purpose(n), [Next]_vars
  PROVE  /\ n \in Nodes /\ now' = now /\ since'[n] = since[n] /\ node'[n].upgrade = node[n].upgrade
         /\ Grows(node[n], node'[n]) /\ Switched
<1>1. n \in Nodes
  BY ClusterAssumption
<1>2. now' = now /\ since' = since /\ node'[n].upgrade = node[n].upgrade
  BY <1>1, UpgradeKept DEF Purpose
<1>3. policies' = policies
  BY Zenon DEF Purpose, PublishSlice, RetirePlugin, Repartition, Share, Pause, Relabel, JoinDomain
<1>4. Switched
  BY <1>3 DEF Switched
<1> QED
  BY <1>1, <1>2, <1>4, NodeStep

\* A label, a condition or a taint, and a node that joins a domain.
LEMMA RelabelledSane ==
  ASSUME NodeInv, PodInv, now \in Nat \ {0}, [Next]_vars, NEW n \in Changing, SaneAt(n),
         Relabel(n) \/ JoinDomain(n)
  PROVE  SaneAt(n)'
<1>1. /\ n \in Nodes /\ now' = now /\ since'[n] = since[n] /\ node'[n].upgrade = node[n].upgrade
      /\ Grows(node[n], node'[n]) /\ Switched
  BY PurposeKeeps DEF Purpose
<1>2. /\ node'[n].present = node[n].present /\ node'[n].count = node[n].count
      /\ node'[n].config = node[n].config /\ node'[n].configState = node[n].configState
      /\ node'[n].replicas = node[n].replicas /\ node'[n].strategy = node[n].strategy
      /\ node'[n].cap = node[n].cap /\ node'[n].alloc = node[n].alloc /\ node'[n].slice = node[n].slice
  <2>1. CASE Relabel(n)
    <3>1. PICK fields : /\ SetNode(n, fields)
                        /\ \/ \E a : \/ fields = [sentinel |-> a] \/ fields = [tiers |-> a]
                                     \/ fields = [clique |-> a] \/ fields = [taints |-> a]
                           \/ \E a, b : fields = [unschedulable |-> a, taints |-> b]
      BY <2>1, Zenon DEF Relabel
    <3>2. DOMAIN fields \subseteq {"unschedulable", "sentinel", "tiers", "clique", "taints"}
      BY <3>1
    <3>3. Only(n, DOMAIN fields)
      BY <1>1, <3>1, SetNodeSets DEF NodeInv, NodeOk, FieldsSet
    <3> QED
      BY <1>1, <3>2, <3>3, OnlyKeeps
  <2>2. CASE JoinDomain(n)
    <3>1. node' = node
      BY <2>2, Zenon DEF JoinDomain
    <3> QED
      BY <3>1
  <2> QED
    BY <2>1, <2>2
<1>3. \E new \in SUBSET {"imex-daemon"} : Moved({n}, new, {})
  <2>1. CASE Relabel(n)
    <3>1. pods' = pods
      BY <2>1, Zenon DEF Relabel
    <3> QED
      BY <3>1, StillMoved
  <2>2. CASE JoinDomain(n)
    <3>1. pods' = pods \cup {NewPod(n, "imex-daemon")}
      BY <2>2, Zenon DEF JoinDomain
    <3> QED
      BY <1>1, <3>1, MadeMoved DEF Roles
  <2> QED
    BY <2>1, <2>2
<1>4. \A q \in pods' \ pods : q.name # "validator" /\ q.statuses = Statuses(q.name, Running)
  <2>1. CASE Relabel(n)
    BY <2>1, Zenon DEF Relabel
  <2>2. CASE JoinDomain(n)
    <3>1. pods' = pods \cup {NewPod(n, "imex-daemon")}
      BY <2>2, Zenon DEF JoinDomain
    <3> QED
      BY <3>1, FreshPod DEF Roles
  <2> QED
    BY <2>1, <2>2
<1>5. PICK new \in SUBSET {"imex-daemon"} : Moved({n}, new, {})
  BY <1>3
<1>6. Idle(n) => Idle(n)'
  BY <1>1, <1>2, <1>5, IdleKept
<1>7. Sound(n)'
  BY <1>1, <1>2, SoundKept DEF SaneAt
<1>8. Offers(n)'
  BY <1>1, <1>2, <1>6, OffersKept DEF SaneAt
<1>9. Healthy(n)'
  BY <1>1, <1>4, HealthyKept DEF SaneAt
<1> QED
  BY <1>1, <1>5, <1>6, <1>7, <1>8, <1>9, KeptSane

\* The slices of a node whose plugin goes on.
LEMMA PublishedSane ==
  ASSUME NodeInv, PodInv, now \in Nat \ {0}, [Next]_vars, NEW n \in Changing, SaneAt(n), PublishSlice(n)
  PROVE  SaneAt(n)'
<1>1. /\ n \in Nodes /\ now' = now /\ since'[n] = since[n] /\ node'[n].upgrade = node[n].upgrade
      /\ Grows(node[n], node'[n]) /\ Switched
  BY PurposeKeeps DEF Purpose
<1>2. /\ SetNode(n, [slice |-> TRUE]) /\ pods' = pods \cup {NewPod(n, "dra-driver")}
      /\ Runs(n, "device-plugin")
  BY Zenon DEF PublishSlice
<1>3. DOMAIN [slice |-> TRUE] = {"slice"} /\ [slice |-> TRUE].slice = TRUE
  OBVIOUS
<1>4. Only(n, {"slice"}) /\ node'[n].slice = TRUE
  BY <1>1, <1>2, <1>3, FieldNames, SetNodeSets DEF NodeInv, NodeOk, FieldsSet
<1>5. /\ node'[n].present = node[n].present /\ node'[n].count = node[n].count
      /\ node'[n].config = node[n].config /\ node'[n].configState = node[n].configState
      /\ node'[n].replicas = node[n].replicas /\ node'[n].strategy = node[n].strategy
      /\ node'[n].cap = node[n].cap /\ node'[n].alloc = node[n].alloc
  BY <1>1, <1>4, OnlyKeeps
<1>6. Moved({n}, {"dra-driver"}, {})
  BY <1>1, <1>2, MadeMoved DEF Roles
<1>7. ~Idle(n)
  BY <1>2 DEF Idle
<1>8. Sound(n)'
  BY <1>1, <1>5, SoundKept DEF SaneAt
<1>9. Offers(n)'
  BY <1>1, <1>4, <1>5, <1>7, OffersKept DEF SaneAt
<1>10. \A q \in pods' \ pods : q.name # "validator" /\ q.statuses = Statuses(q.name, Running)
  BY <1>2, FreshPod DEF Roles
<1>11. Healthy(n)'
  BY <1>1, <1>10, HealthyKept DEF SaneAt
<1> QED
  BY <1>1, <1>6, <1>7, <1>8, <1>9, <1>11, KeptSane

\* GPUs that are cut up again, or shared.
LEMMA RepartitionedSane ==
  ASSUME NodeInv, PodInv, [Next]_vars, NEW n \in Changing, SaneAt(n), Repartition(n) \/ Share(n)
  PROVE  SaneAt(n)'
<1>1. /\ n \in Nodes /\ now' = now /\ since'[n] = since[n] /\ node'[n].upgrade = node[n].upgrade
      /\ Grows(node[n], node'[n]) /\ Switched
  BY PurposeKeeps DEF Purpose
<1>2. pods' = pods /\ Runs(n, "device-plugin")
  BY Zenon DEF Repartition, Share, Serving
<1>3. PICK r, k, fields :
        /\ r \in Resources /\ k \in {1, 2}
        /\ Advertise(n, Of(r, GPUs * k), fields)
        /\ \/ \E to \in {"single", "mixed"} :
                /\ fields = [strategy |-> to] /\ k = 1 /\ (r = "mig" <=> to = "mixed")
                /\ node[n].strategy \in {"single", "mixed"}
           \/ fields = [replicas |-> 2] /\ k = 2 /\ r # "mig" /\ node[n].strategy = "none"
  <2>1. CASE Repartition(n)
    <3>1. PICK r \in Resources, to \in {"single", "mixed"} :
            /\ Advertise(n, Of(r, GPUs), [strategy |-> to])
            /\ (r = "mig" /\ to = "mixed") \/ (r = "gpu" /\ to = "single")
            /\ node[n].strategy \in {"single", "mixed"}
      BY <2>1, Zenon DEF Repartition, Resources
    <3>2. GPUs * 1 = GPUs
      BY DEF GPUs
    <3>3. r = "mig" <=> to = "mixed"
      BY <3>1
    <3> QED
      BY <3>1, <3>2, <3>3
  <2>2. CASE Share(n)
    <3>1. PICK r \in {"gpu", "gpu.shared"} :
            Advertise(n, Of(r, 2 * GPUs), [replicas |-> 2]) /\ node[n].strategy = "none"
      BY <2>2, Zenon DEF Share
    <3>2. GPUs * 2 = 2 * GPUs /\ r \in Resources /\ r # "mig"
      BY DEF GPUs, Resources
    <3> QED
      BY <3>1, <3>2
  <2> QED
    BY <2>1, <2>2
<1>4. Advertised(n, Of(r, GPUs * k), fields)
  BY <1>1, <1>3, AdvertiseSets DEF NodeInv, NodeOk
<1>5. GPUs * k \in Nat \ {0}
  BY <1>3 DEF GPUs
<1>6. node'[n].alloc = Of(r, GPUs * k) /\ node'[n].alloc[r] = GPUs * k /\ node'[n].cap[r] = node'[n].alloc[r]
  BY <1>3, <1>4, <1>5, Amounts DEF Advertised
<1>7. DOMAIN fields \subseteq {"strategy", "replicas"}
  BY <1>3
<1>8. /\ node'[n].present = node[n].present /\ node'[n].count = node[n].count
      /\ node'[n].config = node[n].config /\ node'[n].configState = node[n].configState
  BY <1>1, <1>4, <1>7, OnlyKeeps DEF Advertised
<1>9. node'[n].replicas = k /\ (r = "mig" <=> node'[n].strategy = "mixed")
      /\ (k = 2 => node'[n].strategy = "none")
  <2>1. /\ "strategy" \in DOMAIN fields => node'[n].strategy = fields.strategy
        /\ "replicas" \in DOMAIN fields => node'[n].replicas = fields.replicas
    BY <1>4, FieldNames DEF Advertised
  <2>2. /\ "strategy" \notin DOMAIN fields => node'[n].strategy = node[n].strategy
        /\ "replicas" \notin DOMAIN fields => node'[n].replicas = node[n].replicas
    BY <1>1, <1>4, OnlyKeeps DEF Advertised
  <2>3. node[n].strategy # "none" => node[n].replicas = 1
    BY DEF SaneAt, Sound
  <2> QED
    BY <1>3, <2>1, <2>2, <2>3
<1>10. Sound(n)'
  <2>1. Stuck(n, now)' <=> Stuck(n, now)
    BY <1>1 DEF Stuck
  <2> QED
    BY <1>1, <1>3, <1>8, <1>9, <2>1 DEF SaneAt, Sound
<1>11. Offers(n)'
  BY <1>3, <1>6, <1>9 DEF Offers, Served
<1>12. Healthy(n)'
  BY <1>1, <1>2, HealthyKept DEF SaneAt
<1>13. ~Idle(n) /\ Moved({n}, {}, {})
  BY <1>2, StillMoved DEF Idle
<1> QED
  BY <1>1, <1>10, <1>11, <1>12, <1>13, KeptSane

\* What a node with a deploy label switched off keeps.
LEMMA OffKeeps ==
  ASSUME NEW n \in Nodes, NEW S \in SUBSET {"deploy", "cap", "alloc"}, Only(n, S)
  PROVE  /\ node'[n].present = node[n].present /\ node'[n].count = node[n].count
         /\ node'[n].config = node[n].config /\ node'[n].configState = node[n].configState
         /\ node'[n].replicas = node[n].replicas /\ node'[n].strategy = node[n].strategy
         /\ node'[n].slice = node[n].slice
BY OnlyKeeps

\* The plugin of a node that has slices is retired.
LEMMA RetiredSane ==
  ASSUME NodeInv, PodInv, RoleInv, [Next]_vars, NEW n \in Changing, SaneAt(n), RetirePlugin(n)
  PROVE  SaneAt(n)'
<1>1. /\ n \in Nodes /\ now' = now /\ since'[n] = since[n] /\ node'[n].upgrade = node[n].upgrade
      /\ Grows(node[n], node'[n]) /\ Switched
  BY PurposeKeeps DEF Purpose
<1> DEFINE deploy == [node[n].deploy EXCEPT !["device-plugin"] = "false"]
<1>2. /\ node[n].slice /\ Runs(n, "device-plugin") /\ Advertise(n, Zero, [deploy |-> deploy])
      /\ pods' = Without(n, {"device-plugin"})
  BY Zenon DEF RetirePlugin
<1>3. "device-plugin" \in DOMAIN node[n].deploy
  BY <1>1, <1>2, Labelled DEF RoleInv, DeployKeys
<1>4. /\ deploy \in [DOMAIN node[n].deploy -> DeployValues]
      /\ \A k \in DOMAIN node[n].deploy : deploy[k] = node[n].deploy[k] \/ DeployDisabled(deploy[k])
      /\ "device-plugin" \in DOMAIN deploy /\ deploy["device-plugin"] = "false"
  BY <1>1, <1>3, Labelled DEF DeployValues, DeployDisabled
<1>5. DOMAIN [deploy |-> deploy] = {"deploy"}
  OBVIOUS
<1> HIDE DEF deploy
<1>6. node'[n].deploy = deploy
  BY <1>1, <1>2, <1>4, PauseMoves
<1>7. Advertised(n, Zero, [deploy |-> deploy])
  BY <1>1, <1>2, AdvertiseSets DEF NodeInv, NodeOk
<1>8. node'[n].alloc = Zero /\ Only(n, {"deploy", "cap", "alloc"})
  BY <1>5, <1>7 DEF Advertised
<1>9. Sound(n)'
  BY <1>1, <1>8, OffKeeps, SoundKept DEF SaneAt
<1>10. Offers(n)'
  BY <1>1, <1>2, <1>8, OffKeeps DEF Offers
<1>11. Healthy(n)'
  BY <1>1, <1>2, HealthyKept DEF SaneAt, Without
<1>12. operandDisabledOn(node'[n], "device-plugin")
  BY <1>4, <1>6 DEF operandDisabledOn, DeployDisabled
<1>13. ~Idle(n) /\ Moved({n}, {}, {"device-plugin"})
  BY <1>2, WithoutMoved DEF Idle
<1> QED
  BY <1>1, <1>9, <1>10, <1>11, <1>12, <1>13, KeptSane

\* An operand is paused, or all are.
LEMMA PausedSane ==
  ASSUME NodeInv, PodInv, [Next]_vars, NEW n \in Changing, SaneAt(n), Pause(n)
  PROVE  SaneAt(n)'
<1>1. /\ n \in Nodes /\ now' = now /\ since'[n] = since[n] /\ node'[n].upgrade = node[n].upgrade
      /\ Grows(node[n], node'[n]) /\ Switched
  BY PurposeKeeps DEF Purpose
<1>2. SUFFICES SaneAt(n)'
  OBVIOUS
<1>3. PICK roles : pods' = Without(n, roles)
  BY Zenon DEF Pause
<1>4. Healthy(n)' /\ Moved({n}, {}, roles)
  BY <1>1, <1>3, HealthyKept, WithoutMoved DEF SaneAt, Without
<1>5. ASSUME NEW key \in {"driver", "dcgm-exporter"}, key \in DOMAIN node[n].deploy,
             SetNode(n, [deploy |-> [node[n].deploy EXCEPT ![key] = "paused"]]),
             pods' = Without(n, {key})
      PROVE  SaneAt(n)'
  <2> DEFINE deploy == [node[n].deploy EXCEPT ![key] = "paused"]
  <2>1. /\ deploy \in [DOMAIN node[n].deploy -> DeployValues]
        /\ \A k \in DOMAIN node[n].deploy : deploy[k] = node[n].deploy[k] \/ DeployDisabled(deploy[k])
        /\ key \in DOMAIN deploy /\ deploy[key] = "paused"
    BY <1>1, <1>5, Labelled DEF DeployValues, DeployDisabled
  <2>2. SetNode(n, [deploy |-> deploy]) /\ DOMAIN [deploy |-> deploy] = {"deploy"}
    BY <1>5
  <2> HIDE DEF deploy
  <2>3. node'[n].deploy = deploy
    BY <1>1, <2>1, <2>2, PauseMoves
  <2>4. Only(n, {"deploy"})
    BY <1>1, <2>2, SetNodeSets DEF NodeInv, NodeOk, FieldsSet
  <2>5. node'[n].cap = node[n].cap /\ node'[n].alloc = node[n].alloc
    BY <1>1, <2>4, OnlyKeeps
  <2>6. operandDisabledOn(node'[n], key)
    BY <2>1, <2>3 DEF operandDisabledOn, DeployDisabled
  <2>7. /\ node'[n].present = node[n].present /\ node'[n].count = node[n].count
        /\ node'[n].config = node[n].config /\ node'[n].configState = node[n].configState
        /\ node'[n].replicas = node[n].replicas /\ node'[n].strategy = node[n].strategy
        /\ node'[n].slice = node[n].slice
    BY <1>1, <2>4, OffKeeps
  <2>8. Sound(n)'
    BY <1>1, <2>7, SoundKept DEF SaneAt
  <2>9. Moved({n}, {}, {key})
    BY <1>5, WithoutMoved
  <2>10. Idle(n) => Idle(n)'
    BY <1>1, <2>5, <2>7, <2>9, IdleKept
  <2>11. Offers(n)'
    BY <1>1, <2>5, <2>7, <2>10, OffersKept DEF SaneAt
  <2>12. "device-plugin" \notin {key}
    OBVIOUS
  <2> QED
    BY <1>1, <1>4, <2>6, <2>8, <2>9, <2>10, <2>11, <2>12, KeptSane
<1>6. ASSUME node[n].workload = "container",
             Advertise(n, Zero, [deploy |-> [k \in DOMAIN node[n].deploy |-> "paused"]])
      PROVE  SaneAt(n)'
  <2> DEFINE deploy == [k \in DOMAIN node[n].deploy |-> "paused"]
  <2>1. /\ deploy \in [DOMAIN node[n].deploy -> DeployValues]
        /\ \A k \in DOMAIN node[n].deploy : deploy[k] = node[n].deploy[k] \/ DeployDisabled(deploy[k])
        /\ \A k \in DOMAIN deploy : DeployDisabled(deploy[k])
        /\ DOMAIN deploy = DeployKeys
    BY <1>1, <1>6, Labelled DEF DeployValues, DeployDisabled
  <2>2. Advertise(n, Zero, [deploy |-> deploy]) /\ DOMAIN [deploy |-> deploy] = {"deploy"}
    BY <1>6
  <2> HIDE DEF deploy
  <2>3. node'[n].deploy = deploy
    BY <1>1, <2>1, <2>2, PauseMoves
  <2>4. Advertised(n, Zero, [deploy |-> deploy])
    BY <1>1, <2>2, AdvertiseSets DEF NodeInv, NodeOk
  <2>5. node'[n].alloc = Zero /\ Only(n, {"deploy", "cap", "alloc"})
    BY <2>2, <2>4 DEF Advertised
  <2>6. /\ node'[n].present = node[n].present /\ node'[n].count = node[n].count
        /\ node'[n].config = node[n].config /\ node'[n].configState = node[n].configState
        /\ node'[n].replicas = node[n].replicas /\ node'[n].strategy = node[n].strategy
        /\ node'[n].slice = node[n].slice
    BY <1>1, <2>5, OffKeeps
  <2>7. Sound(n)'
    BY <1>1, <2>6, SoundKept DEF SaneAt
  <2>8. AllOff(n)' /\ operandDisabledOn(node'[n], "device-plugin") /\ operandDisabledOn(node'[n], "dcgm-exporter")
    BY <2>1, <2>3 DEF AllOff, operandDisabledOn, DeployKeys
  <2>9. Offers(n)'
    BY <2>5, <2>8 DEF Offers
  <2>10. Plugged(n)' /\ Exported(n)'
    BY <2>8 DEF Plugged, Exported
  <2> QED
    BY <1>4, <2>7, <2>9, <2>10 DEF SaneAt
<1> QED
  BY <1>5, <1>6, Zenon DEF Pause

\* A step of an upgrade that does not fail.
LEMMA UpgradedSane ==
  ASSUME NodeInv, PodInv, now \in Nat \ {0}, [Next]_vars, NEW n \in Changing, SaneAt(n),
         NEW state \in {"cordon-required", "drain-required", "pod-restart-required", UpgradeDone},
         UpgradeStep(n, state), since \in [Nodes -> 0 .. now]
  PROVE  SaneAt(n)'
<1>1. n \in Nodes /\ Grows(node[n], node'[n])
  BY ClusterAssumption, NodeStep
<1>2. /\ SetNode(n, [upgrade |-> state]) /\ since' = [since EXCEPT ![n] = now] /\ now' = now
      /\ policies' = policies
  BY Zenon DEF UpgradeStep, Change
<1>3. DOMAIN [upgrade |-> state] = {"upgrade"} /\ [upgrade |-> state].upgrade = state
  OBVIOUS
<1>4. Only(n, {"upgrade"}) /\ node'[n].upgrade = state
  BY <1>1, <1>2, <1>3, FieldNames, SetNodeSets DEF NodeInv, NodeOk, FieldsSet
<1>5. /\ node'[n].present = node[n].present /\ node'[n].count = node[n].count
      /\ node'[n].config = node[n].config /\ node'[n].configState = node[n].configState
      /\ node'[n].replicas = node[n].replicas /\ node'[n].strategy = node[n].strategy
      /\ node'[n].cap = node[n].cap /\ node'[n].alloc = node[n].alloc /\ node'[n].slice = node[n].slice
  BY <1>1, <1>4, OnlyKeeps
<1>6. Moved({n}, {"driver"}, {"driver"})
  BY <1>1, UpgradedMoved
<1>7. Runs(n, "driver") /\ state # UpgradeFailed
  BY Zenon DEF UpgradeStep, UpgradeDone, UpgradeFailed
<1>8. Sound(n)'
  <2>1. since'[n] = now
    BY <1>1, <1>2
  <2>2. upgradeStuckAfter > 0
    BY WindowsAssumption DEF upgradeStuckAfter
  <2>3. ~Stuck(n, now)'
    <3>1. now' - since'[n] = 0
      BY <1>2, <2>1
    <3>2. upgradeStuckAfter \in Int
      BY WindowsAssumption DEF upgradeStuckAfter
    <3> QED
      BY <2>2, <3>1, <3>2 DEF Stuck
  <2> QED
    BY <1>4, <1>5, <1>7, <2>3 DEF SaneAt, Sound
<1>9. Idle(n) => Idle(n)'
  <2>1. Runs(n, "device-plugin")' => Runs(n, "device-plugin")
    BY <1>6 DEF Moved, Runs
  <2> QED
    BY <1>1, <1>5, <1>7, <2>1 DEF Idle, Grows, Runs
<1>10. Offers(n)'
  BY <1>1, <1>5, <1>9, OffersKept DEF SaneAt
<1>11. Healthy(n)'
  <2> DEFINE fresh == NewPod(n, "driver")
             empty == [fresh EXCEPT !.statuses = <<>>]
  <2>1. fresh.node = n /\ fresh.name = "driver" /\ fresh.statuses = Statuses("driver", Running)
    BY FreshPod DEF Roles
  <2>2. pods' = CASE state = "pod-restart-required" -> Without(n, {"driver"}) \cup {empty}
                 [] state = UpgradeDone -> Without(n, {"driver"}) \cup {fresh}
                 [] OTHER -> pods
    BY Zenon DEF UpgradeStep
  <2>3. empty.name = "driver" /\ empty.statuses = <<>>
    BY DEF NewPod
  <2> HIDE DEF fresh, empty
  <2>4. state # UpgradeDone => midUpgrade(node'[n])
    <3>1. "cordon-required" # Blank /\ "drain-required" # Blank /\ "pod-restart-required" # Blank
      BY Zenon DEF Blank
    <3>2. state # UpgradeDone => state \notin {Blank, UpgradeDone, UpgradeFailed}
      BY <1>7, <3>1
    <3> QED
      BY <1>4, <3>2, Zenon DEF midUpgrade, Blank
  <2>5. \A p \in Without(n, {"driver"}) : p.node = n =>
           p \in pods /\ p.name # "driver"
    BY DEF Without
  <2>6. CASE state = "pod-restart-required"
    <3>1. pods' = Without(n, {"driver"}) \cup {empty}
      BY <2>2, <2>6 DEF UpgradeDone
    <3>2. midUpgrade(node'[n])
      BY <2>4, <2>6 DEF UpgradeDone
    <3> QED
      BY <2>3, <2>5, <3>1, <3>2 DEF SaneAt, Healthy
  <2>7. CASE state = UpgradeDone
    <3>1. pods' = Without(n, {"driver"}) \cup {fresh}
      BY <2>2, <2>7 DEF UpgradeDone
    <3> QED
      BY <2>1, <2>5, <3>1 DEF SaneAt, Healthy
  <2>8. CASE state \notin {"pod-restart-required", UpgradeDone}
    <3>1. pods' = pods
      BY <2>2, <2>8
    <3>2. midUpgrade(node'[n])
      BY <2>4, <2>8
    <3> QED
      BY <3>1, <3>2 DEF SaneAt, Healthy
  <2> QED
    BY <2>6, <2>7, <2>8
<1>12. Switched
  BY <1>2 DEF Switched
<1> QED
  BY <1>1, <1>6, <1>8, <1>9, <1>10, <1>11, <1>12, KeptSane

\* No step switches the exporter on.
LEMMA StaysSwitched ==
  ASSUME PolicyInv, DisableOperand \/ PolicyChanges
  PROVE  Switched
<1>1. PICK state \in {"ready", "notReady"}, off \in SUBSET Operands :
        policies \in {<<Own(state, off)>>, <<Other, Own(state, off)>>, <<Own(state, off), Other>>}
  BY DEF PolicyInv
<1>2. \A i \in DOMAIN policies : policies[i].name = Policy.name => policies[i] = Own(state, off)
  BY <1>1, PolicyFields
<1>3. CASE \E new : policies' = [i \in DOMAIN policies |->
                      IF policies[i].name = Policy.name
                        THEN [policies[i] EXCEPT !.off = @ \cup {new}] ELSE policies[i]]
  <2>1. \A new : [Own(state, off) EXCEPT !.off = @ \cup {new}] = Own(state, off \cup {new})
    BY DEF Own
  <2>3. PICK new : policies' = [i \in DOMAIN policies |->
                      IF policies[i].name = Policy.name
                        THEN [policies[i] EXCEPT !.off = @ \cup {new}] ELSE policies[i]]
    BY <1>3
  <2>2. \A i \in DOMAIN policies :
          policies'[i] = IF policies[i].name = Policy.name THEN Own(state, off \cup {new}) ELSE policies[i]
    BY <1>2, <2>1, <2>3
  <2>4. DOMAIN policies' = DOMAIN policies
    BY <2>3
  <2> QED
    BY <1>2, <2>2, <2>4, PolicyFields DEF Switched
<1>4. CASE policies' = [i \in DOMAIN policies |->
                         IF policies[i].name = Policy.name
                           THEN [policies[i] EXCEPT !.state = "notReady"] ELSE policies[i]]
  <2>1. \A i \in DOMAIN policies :
          policies'[i] = IF policies[i].name = Policy.name THEN Own("notReady", off) ELSE policies[i]
    BY <1>2, <1>4, PolicyFields
  <2> QED
    BY <1>2, <1>4, <2>1, PolicyFields DEF Switched
<1>5. CASE Len(policies) = 1 /\ policies' \in {<<Other>> \o policies, Append(policies, Other)}
  <2>1. policies = <<Own(state, off)>>
    BY <1>1, <1>5
  <2>2. policies' \in {<<Other, Own(state, off)>>, <<Own(state, off), Other>>}
    BY <1>5, <2>1
  <2> QED
    BY <2>1, <2>2, PolicyFields DEF Switched
<1> QED
  BY <1>3, <1>4, <1>5, Zenon DEF DisableOperand, PolicyChanges, Other

\* The chart switches the exporter off, or a plugin that runs nowhere.
LEMMA DisabledSane ==
  ASSUME NodeInv, PodInv, PolicyInv, [Next]_vars, DisableOperand, NEW n \in Nodes, SaneAt(n)
  PROVE  SaneAt(n)'
<1>1. node' = node /\ since' = since /\ now' = now
  BY Zenon DEF DisableOperand, Change
<1>2. PICK field \in Operands, role \in {"dcgm-exporter", "device-plugin"} :
        /\ role = "dcgm-exporter" => field = "dcgmExporter"
        /\ role = "device-plugin" => \A m \in Nodes : ~Runs(m, role)
        /\ policies' = [i \in DOMAIN policies |->
                          IF policies[i].name = Policy.name
                            THEN [policies[i] EXCEPT !.off = @ \cup {field}] ELSE policies[i]]
        /\ pods' = {p \in pods : p.name # role}
  <2>1. \E field \in Operands :
           LET role == IF field = "dcgmExporter" THEN "dcgm-exporter" ELSE "device-plugin"
           IN /\ field = "devicePlugin" => \A m \in Nodes : ~Runs(m, role)
              /\ policies' = [i \in DOMAIN policies |->
                                IF policies[i].name = Policy.name
                                  THEN [policies[i] EXCEPT !.off = @ \cup {field}] ELSE policies[i]]
              /\ pods' = {p \in pods : p.name # role}
    BY Zenon DEF DisableOperand, Operands
  <2> QED
    BY <2>1 DEF Operands
<1>3. Moved(Nodes, {}, {role})
  BY <1>2 DEF Moved, PodInv, PodOk
<1>4. role = "dcgm-exporter" =>
        \A i \in DOMAIN policies' : policies'[i].name = Policy.name => "dcgmExporter" \in policies'[i].off
  <2>1. PICK state \in {"ready", "notReady"}, off \in SUBSET Operands :
          policies \in {<<Own(state, off)>>, <<Other, Own(state, off)>>, <<Own(state, off), Other>>}
    BY DEF PolicyInv
  <2>2. \A i \in DOMAIN policies : policies[i].name = Policy.name => policies[i] = Own(state, off)
    BY <2>1, PolicyFields
  <2>3. [Own(state, off) EXCEPT !.off = @ \cup {field}] = Own(state, off \cup {field})
    BY DEF Own
  <2>4. \A i \in DOMAIN policies :
          policies'[i] = IF policies[i].name = Policy.name THEN Own(state, off \cup {field}) ELSE policies[i]
    BY <1>2, <2>2, <2>3
  <2>5. DOMAIN policies' = DOMAIN policies
    BY <1>2
  <2> QED
    BY <1>2, <2>4, <2>5, PolicyFields
<1>5. Grows(node[n], node'[n])
  BY NodeStep
<1>6. Switched
  BY StaysSwitched
<1>7. Idle(n) => Idle(n)'
  BY <1>1, <1>3, <1>5, IdleKept
<1>8. Sound(n)'
  BY <1>1, SoundKept DEF SaneAt
<1>9. Offers(n)'
  BY <1>1, <1>5, <1>7, OffersKept DEF SaneAt
<1>10. Healthy(n)'
  BY <1>1, <1>2, HealthyKept DEF SaneAt
<1> QED
  BY <1>2, <1>3, <1>4, <1>5, <1>6, <1>7, <1>8, <1>9, <1>10, KeptSane

\* Time passes: a node that is stuck in its upgrade is not one that no fault struck.
LEMMA TickSane ==
  ASSUME Tick, NEW n \in Nodes, n \notin broken', SaneAt(n)
  PROVE  SaneAt(n)'
<1>1. /\ node' = node /\ pods' = pods /\ policies' = policies /\ since' = since /\ now' = now + 1
      /\ broken' = broken \cup {m \in Nodes : Stuck(m, now + 1)}
  BY Zenon DEF Tick
<1>2. ~Stuck(n, now + 1)
  BY <1>1
<1>3. ~Stuck(n, now)'
  BY <1>1, <1>2 DEF Stuck
<1>4. Sound(n)'
  BY <1>1, <1>3 DEF SaneAt, Sound
<1>5. \A role : Runs(n, role)' <=> Runs(n, role)
  BY <1>1 DEF Runs
<1>6. Idle(n)' <=> Idle(n)
  BY <1>1, <1>5 DEF Idle
<1>7. Offers(n)'
  BY <1>1, <1>6 DEF SaneAt, Offers, Served, AllOff
<1>8. Plugged(n)' /\ Exported(n)' /\ Healthy(n)'
  BY <1>1, <1>5, <1>6 DEF SaneAt, Plugged, Exported, Healthy
<1> QED
  BY <1>4, <1>7, <1>8 DEF SaneAt

\* SaneInv is inductive relative to ClusterInv.
LEMMA SaneKept ==
  ASSUME ClusterInv, SaneInv, [Next]_vars
  PROVE  SaneInv'
<1> SUFFICES ASSUME NEW n \in Nodes, n \notin broken'
             PROVE  SaneAt(n)'
  BY DEF SaneInv
<1>1. NodeInv /\ PodInv /\ RoleInv /\ PolicyInv /\ now \in Nat \ {0} /\ since \in [Nodes -> 0 .. now]
  BY DEF ClusterInv, EventInv
<1>2. ASSUME n \notin broken PROVE SaneAt(n)
  BY <1>2 DEF SaneInv
<1>3. CASE UNCHANGED vars
  <2>1. /\ node' = node /\ pods' = pods /\ policies' = policies /\ since' = since /\ now' = now
        /\ broken' = broken
    BY <1>3, Zenon DEF vars, objects
  <2>2. Still(n) /\ Switched
    BY <2>1 DEF Still, Switched
  <2> QED
    BY <1>2, <2>1, <2>2, StillSane
<1>4. CASE Tick
  <2>1. broken \subseteq broken'
    BY <1>4 DEF Tick
  <2> QED
    BY <1>2, <1>4, <2>1, TickSane
<1>5. CASE DisableOperand
  <2>1. broken' = broken
    BY <1>5, Zenon DEF DisableOperand, Intended
  <2> QED
    BY <1>1, <1>2, <1>5, <2>1, DisabledSane
<1>6. CASE PolicyChanges
  <2>1. broken' = broken /\ node' = node /\ pods' = pods /\ since' = since /\ now' = now
    BY <1>6, Zenon DEF PolicyChanges, Intended, Change
  <2>2. Still(n) /\ Switched
    BY <1>1, <1>6, <2>1, StaysSwitched DEF Still
  <2> QED
    BY <1>2, <2>1, <2>2, StillSane
<1>7. ASSUME NEW m \in Changing, Fault(m) PROVE SaneAt(n)'
  <2>1. broken' = broken \cup {m}
    BY <1>7, Zenon DEF Fault, DriverFails, ToolkitFails, PluginStops, DeviceUnhealthy, ImexFails,
       SliceWithdrawn, ReconfigureFails, Unlabel, Break
  <2> QED
    BY <1>1, <1>2, <1>7, <2>1, OthersSane
<1>8. ASSUME NEW m \in Changing, Purpose(m) PROVE SaneAt(n)'
  <2>1. broken' = broken
    BY <1>8, Zenon DEF Purpose, PublishSlice, RetirePlugin, Repartition, Share, Pause, Relabel, JoinDomain,
       Intended
  <2>2. SaneAt(n)
    BY <1>2, <2>1
  <2>3. CASE n # m
    BY <1>1, <1>8, <2>2, <2>3, OthersSane
  <2>4. CASE n = m
    BY <1>1, <1>8, <2>2, <2>4, RelabelledSane, PublishedSane, RepartitionedSane, RetiredSane, PausedSane
       DEF Purpose
  <2> QED
    BY <2>3, <2>4
<1>9. ASSUME NEW m \in Changing,
             NEW state \in {"cordon-required", "drain-required", "pod-restart-required",
                            UpgradeDone, UpgradeFailed},
             UpgradeStep(m, state)
      PROVE  SaneAt(n)'
  <2>1. IF state = UpgradeFailed THEN broken' = broken \cup {m} ELSE broken' = broken
    BY <1>9, Zenon DEF UpgradeStep, Break, Intended
  <2>2. SaneAt(n)
    BY <1>2, <2>1
  <2>3. CASE n # m
    BY <1>1, <1>9, <2>2, <2>3, OthersSane
  <2>4. CASE n = m
    <3>1. state # UpgradeFailed
      BY <2>1, <2>4
    <3> QED
      BY <1>1, <1>9, <2>2, <2>4, <3>1, UpgradedSane
  <2> QED
    BY <2>3, <2>4
<1> QED
  BY <1>3, <1>4, <1>5, <1>6, <1>7, <1>8, <1>9 DEF Next, Fault, Purpose

\* Every set-up is sane.
LEMMA SaneInit ==
  ASSUME Init
  PROVE  SaneInv
<1>1. PICK of \in [Nodes -> AllKinds] : SetUp(of)
  BY InitSetsUp
<1> SUFFICES ASSUME NEW n \in Nodes PROVE SaneAt(n)
  BY DEF SaneInv
<1>2. node[n] = NodeOf(of[n]) /\ now = 1 /\ of[n] \in AllKinds /\ since[n] = IF of[n] = "upgrading" THEN 1 ELSE 0
  BY <1>1 DEF SetUp
<1>3. Setting(of[n], node[n])
  BY <1>2, KindFields
<1>4. \A role : role # "gpu-operator" => (Runs(n, role) <=> role \in RolesOf(of[n]))
  BY <1>1, FirstPods
<1>5. Sound(n)
  <2>1. upgradeStuckAfter > 0 /\ upgradeStuckAfter \in Int
    BY WindowsAssumption DEF upgradeStuckAfter
  <2>2. Blank \notin upgradeStuckStates /\ Blank # UpgradeFailed /\ "cordon-required" # UpgradeFailed
    BY Zenon DEF upgradeStuckStates, Blank, UpgradeFailed
  <2>3. ~Stuck(n, now)
    <3>1. CASE of[n] = "upgrading"
      BY <1>2, <2>1, <3>1 DEF Stuck
    <3>2. CASE of[n] # "upgrading"
      BY <1>3, <2>2, <3>2 DEF Stuck, Setting
    <3> QED
      BY <3>1, <3>2
  <2> QED
    BY <1>3, <2>2, <2>3 DEF Sound, Setting
<1>6. of[n] \in {"vm", "control-plane"} => Idle(n)
  <2>1. of[n] \in {"vm", "control-plane"} => RolesOf(of[n]) \cap {"device-plugin"} = {}
    BY DEF RolesOf
  <2>2. of[n] = "control-plane" => RolesOf(of[n]) = {"nfd"}
    BY DEF RolesOf
  <2>3. of[n] = "control-plane" => \A p \in pods : p.node = n => p.name \in {"gpu-operator", "nfd"}
    <3>1. \A p \in pods : p.node = n /\ p.name # "gpu-operator" => Runs(n, p.name)
      BY DEF Runs
    <3> QED
      BY <1>4, <2>2, <3>1
  <2> QED
    BY <1>3, <1>4, <2>1, <2>3 DEF Idle, Setting
<1>7. Offers(n)
  <2>1. of[n] \in {"dra", "vm", "control-plane"} => Offers(n)
    BY <1>3, <1>6 DEF Offers, Setting
  <2>2. GPUs * 1 = GPUs /\ GPUs \in Nat
    BY DEF GPUs
  <2>3. of[n] \notin {"dra", "vm", "control-plane"} => Served(n)
    <3>1. "gpu" \in Resources /\ "mig" \in Resources
      BY DEF Resources
    <3>2. CASE of[n] = "mixed"
      BY <1>3, <2>2, <3>1, <3>2 DEF Served, Setting
    <3>3. CASE of[n] \notin {"dra", "vm", "control-plane", "mixed"}
      BY <1>3, <2>2, <3>1, <3>3 DEF Served, Setting
    <3> QED
      BY <3>2, <3>3
  <2> QED
    BY <2>1, <2>3 DEF Offers
<1>8. Plugged(n) /\ Exported(n)
  <2>1. of[n] \notin {"vm", "control-plane"} => "dcgm-exporter" \in RolesOf(of[n])
    BY <1>2 DEF RolesOf, AllKinds
  <2>2. of[n] \notin {"vm", "control-plane", "dra"} => "device-plugin" \in RolesOf(of[n])
    BY <1>2 DEF RolesOf, AllKinds
  <2>3. of[n] = "dra" => operandDisabledOn(node[n], "device-plugin")
    BY <1>3, PlainFields DEF Setting, operandDisabledOn, DeployDisabled, DeployKeys
  <2> QED
    BY <1>4, <1>6, <2>1, <2>2, <2>3 DEF Plugged, Exported
<1>9. Healthy(n)
  <2> SUFFICES ASSUME NEW p \in pods, p.node = n
               PROVE  /\ p.name = "validator" => p.init = <<Validation("terminated", 0, 1)>>
                      /\ p.statuses = Statuses(p.name, Running)
    BY DEF Healthy
  <2>1. PICK m, role : p = NewPod(m, role)
    BY <1>1, FirstPods
  <2>2. PICK blank, space : p = [node |-> m, name |-> role, owner |-> blank, labels |-> LabelsOf(role),
                                 namespace |-> space,
                                 statuses |-> IF role = "driver" THEN <<Running, Running>> ELSE <<Running>>,
                                 init |-> IF role = "validator" THEN <<Validation("terminated", 0, 1)>> ELSE <<>>]
    BY <2>1, Zenon DEF NewPod
  <2> QED
    BY <2>2 DEF Statuses
<1> QED
  BY <1>5, <1>7, <1>8, <1>9 DEF SaneAt

-----------------------------------------------------------------------------
(* What is said of a node that no fault has struck. *)

\* g is the node n as a run that reads everything is given it.
SeenAs(g, n) ==
  /\ g.name = n /\ g.operands = {operandFromPod(p) : p \in {q \in pods : q.node = n}}
  /\ g.mode = "dra" <=> node[n].slice /\ \A r \in Resources : ~(node[n].cap[r] > 0)
  /\ g.hinted <=> ~node[n].slice /\ \A r \in Resources : ~(node[n].cap[r] > 0)
  /\ g.capacity = wholeGPUs(node[n].cap) /\ g.allocatable = wholeGPUs(node[n].alloc)
  /\ g.alloc = node[n].alloc /\ g.present = node[n].present
  /\ g.count = node[n].count /\ g.replicas = node[n].replicas /\ g.strategy = node[n].strategy
  /\ g.config = node[n].config /\ g.configState = node[n].configState
  /\ g.workload = node[n].workload /\ g.upgrade = node[n].upgrade
  /\ g.deploy = node[n].deploy /\ g.taints = node[n].taints

\* What a run that reads everything is given, node by node.
LEMMA AllIsSeen ==
  ASSUME ClusterInv
  PROVE  LET in == Input(Live({})) IN
         /\ in.installed /\ in.policies = policies /\ in.events = events
         /\ in.nodes \subseteq everyNode(in) /\ \A g \in in.nodes : ~g.hinted
         /\ \A g \in everyNode(in) : g.name \in Nodes /\ SeenAs(g, g.name)
<1> DEFINE r == Live({})
           in == Input(r)
<1>1. /\ r.nodes = node /\ r.pods = pods /\ r.slices = {n \in Nodes : node[n].slice}
      /\ r.operator = {p \in pods : Label(p, "app") = "gpu-operator"}
      /\ r.policies = policies /\ r.events = events
  BY Reading
<1> HIDE DEF r
<1>2. r.operator # {}
  BY <1>1, ClusterPods DEF ClusterInv
<1>3. /\ in.policies = r.policies /\ in.events = r.events /\ in.installed = (r.operator # {})
      /\ in.nodes = {g \in BuildWithHinted(r) : ~g.hinted}
  BY DEF Input
<1>4. in.nodes \subseteq everyNode(in)
  BY DEF everyNode
<1>5. everyNode(in) = {buildNode(r, n, operandsByNode(r.pods)[n]) : n \in Nodes}
  BY <1>1, EveryNodeIsBuilt DEF ClusterInv
<1>6. ASSUME NEW n \in Nodes, NEW g, IsBuilt(g, r, n, operandsByNode(pods)[n])
      PROVE  g.name = n /\ SeenAs(g, n)
  <2>1. byPlugin(r, n) <=> \E q \in Resources : node[n].cap[q] > 0
    BY <1>1 DEF byPlugin
  <2>2. bySlice(r, n) <=> node[n].slice
    BY <1>1 DEF bySlice
  <2>3. g.mode = "dra" <=> node[n].slice /\ \A q \in Resources : ~(node[n].cap[q] > 0)
    BY <1>6, <2>1, <2>2, DRAMode DEF IsBuilt
  <2>4. g.hinted <=> ~node[n].slice /\ \A q \in Resources : ~(node[n].cap[q] > 0)
    BY <1>6, <2>1, <2>2 DEF IsBuilt, isGPUNode
  <2>5. operandsByNode(pods)[n] = {operandFromPod(p) : p \in {q \in pods : q.node = n}}
    BY ClusterPods DEF ClusterInv
  <2> QED
    BY <1>6, <2>3, <2>4, <2>5 DEF IsBuilt, SeenAs
<1>7. \A g \in everyNode(in) : g.name \in Nodes /\ SeenAs(g, g.name)
  <2> SUFFICES ASSUME NEW g \in everyNode(in) PROVE g.name \in Nodes /\ SeenAs(g, g.name)
    OBVIOUS
  <2>1. PICK n \in Nodes : g = buildNode(r, n, operandsByNode(r.pods)[n])
    BY <1>5
  <2>2. IsBuilt(g, r, n, operandsByNode(pods)[n])
    BY <1>1, <2>1, BuildsIt
  <2> QED
    BY <1>6, <2>2
<1> HIDE DEF in
<1>8. in.installed
  BY <1>2, <1>3
<1> QED
  BY <1>1, <1>3, <1>4, <1>7, <1>8 DEF in, r

\* A node is not what the operator runs its operands on.
Untargeted(n) ==
  \/ AllOff(n)
  \/ /\ ControlPlaneTaint \in node[n].taints
     /\ \A p \in pods : p.node = n => p.name \in {"gpu-operator", "nfd", "imex-daemon"}

\* The taint of the control plane is one that nothing of the operator tolerates.
LEMMA ControlPlaneIsTainted ==
  ASSUME PolicyInv, NEW in, in.policies = policies
  PROVE  /\ ControlPlaneTaint.effect = "NoSchedule"
         /\ ~toleratedBy(ControlPlaneTaint, defaultOperandTolerations)
         /\ ~toleratedBy(ControlPlaneTaint, PolicyTolerations(in))
<1>1. ControlPlaneTaint.key = "control-plane" /\ ControlPlaneTaint.effect = "NoSchedule"
  BY Zenon DEF ControlPlaneTaint
<1>2. \A key, op, value, effect : Toleration(key, op, value, effect).key = key
  BY DEF Toleration
<1>3. \A T : toleratedBy(ControlPlaneTaint, T) => \E t \in T : t.key \in {Blank, "control-plane"}
  BY <1>1, Zenon DEF toleratedBy, Blank
<1>4. "gpu" # Blank /\ "not-ready" # Blank /\ "pressure" # Blank /\ "team" # Blank
  BY Zenon DEF Blank
<1>5. \A t \in defaultOperandTolerations : t.key \in {"gpu", "not-ready", "pressure"}
  <2>1. \A t \in defaultOperandTolerations : \E op, value, effect :
          \/ t = Toleration("gpu", op, value, effect) \/ t = Toleration("not-ready", op, value, effect)
          \/ t = Toleration("pressure", op, value, effect)
    BY Zenon DEF defaultOperandTolerations
  <2> QED
    BY <1>2, <2>1
<1>6. ~toleratedBy(ControlPlaneTaint, defaultOperandTolerations)
  <2>1. \A t \in defaultOperandTolerations : t.key \notin {Blank, "control-plane"}
    BY <1>4, <1>5
  <2> QED
    BY <1>3, <2>1
<1>7. PICK state \in {"ready", "notReady"}, off \in SUBSET Operands :
        policies \in {<<Own(state, off)>>, <<Other, Own(state, off)>>, <<Own(state, off), Other>>}
  BY DEF PolicyInv
<1>8. activeClusterPolicy(in).tolerations \in {Policy.tolerations, {}}
  <2> DEFINE ready == {i \in DOMAIN policies : IsReady(policies[i])}
             at == IF ready = {} THEN 1 ELSE CHOOSE i \in ready : \A j \in ready : i <= j
  <2>1. activeClusterPolicy(in) = policies[at]
    BY DEF activeClusterPolicy
  <2>2. \A i \in DOMAIN policies : policies[i].tolerations \in {Policy.tolerations, {}}
    BY <1>7, PolicyFields
  <2>3. DOMAIN policies \in {1 .. 1, 1 .. 2}
    BY <1>7
  <2>4. at \in DOMAIN policies
    <3>1. CASE ready = {}
      BY <2>3, <3>1
    <3>2. CASE ready # {}
      <4>1. \E i \in ready : \A j \in ready : i <= j
        <5>1. ready \subseteq {1, 2}
          BY <2>3
        <5> HIDE DEF ready
        <5>2. CASE 1 \in ready
          <6>1. \A j \in ready : 1 <= j
            BY <5>1
          <6> QED
            BY <5>2, <6>1
        <5>3. CASE 1 \notin ready
          <6>1. ready = {2}
            BY <3>2, <5>1, <5>3
          <6> QED
            BY <6>1
        <5> QED
          BY <5>2, <5>3
      <4> QED
        BY <4>1
    <3> QED
      BY <3>1, <3>2
  <2> HIDE DEF at
  <2> QED
    BY <2>1, <2>2, <2>4
<1>9. Policy.tolerations = {Toleration("team", Blank, Blank, "NoSchedule")}
  BY Zenon DEF Policy, Blank
<1>10. \A t \in PolicyTolerations(in) : t.key = "team"
  <2>1. policies # <<>>
    BY <1>7
  <2>2. PolicyTolerations(in) =
          {[t EXCEPT !.op = IF @ = Blank THEN "Equal" ELSE @] : t \in activeClusterPolicy(in).tolerations}
    BY <2>1, Zenon DEF PolicyTolerations, Blank
  <2>3. \A t : t \in activeClusterPolicy(in).tolerations =>
          t = Toleration("team", Blank, Blank, "NoSchedule")
    BY <1>8, <1>9
  <2>4. \A x : [Toleration("team", Blank, Blank, "NoSchedule") EXCEPT !.op = x].key = "team"
    BY DEF Toleration
  <2> QED
    BY <2>2, <2>3, <2>4
<1>11. \A t \in PolicyTolerations(in) : t.key \notin {Blank, "control-plane"}
  BY <1>4, <1>10
<1>12. ~toleratedBy(ControlPlaneTaint, PolicyTolerations(in))
  BY <1>3, <1>11
<1> QED
  BY <1>1, <1>6, <1>12

\* A node the operator does not target is not looked at by the rules that ask.
LEMMA NotTargeted ==
  ASSUME ClusterInv, NEW in, in.policies = policies, NEW n \in Nodes, NEW g, SeenAs(g, n), Untargeted(n)
  PROVE  ~Targeted(in, g)
<1>1. CASE AllOff(n)
  <2>1. DOMAIN node[n].deploy # {}
    BY Labelled DEF ClusterInv, DeployKeys
  <2>2. everyOperandDisabled(g)
    BY <1>1, <2>1 DEF SeenAs, everyOperandDisabled, AllOff
  <2> QED
    BY <2>2 DEF Targeted, OperatorTargets
<1>2. CASE ~AllOff(n)
  <2>1. /\ ControlPlaneTaint \in g.taints
        /\ \A p \in pods : p.node = n => p.name \in {"gpu-operator", "nfd", "imex-daemon"}
    BY <1>2 DEF Untargeted, SeenAs
  <2>2. ~runsADeployGatedOperand(g)
    <3>1. \A o \in g.operands : o.component \in {"gpu-operator", "nfd", "imex-daemon"}
      BY <2>1, ClusterPods, OperandIs DEF SeenAs, ClusterInv
    <3> QED
      BY <3>1 DEF runsADeployGatedOperand, deployGatedComponents
  <2>3. everyOperandTaintedOff(g, PolicyTolerations(in))
    BY <2>1, ControlPlaneIsTainted DEF everyOperandTaintedOff, ClusterInv
  <2> QED
    BY <2>2, <2>3 DEF Targeted, OperatorTargets
<1> QED
  BY <1>1, <1>2

\* What a node that no fault has struck offers: whole GPUs, MIG devices, or nothing.
LEMMA OfferIs ==
  ASSUME ClusterInv, NEW n \in Nodes, SaneAt(n), ~Leftover(n)
  PROVE  LET whole == wholeGPUs(node[n].alloc)
             mig == node[n].alloc["mig"]
         IN \/ /\ whole > 0 /\ whole = wholeGPUs(node[n].cap) /\ whole = GPUs * node[n].replicas
               /\ mig = 0 /\ node[n].strategy # "mixed"
            \/ whole = 0 /\ mig > 0 /\ node[n].strategy = "mixed"
            \/ /\ whole = 0 /\ mig = 0
               /\ \/ /\ node[n].slice /\ node[n].strategy # "mixed"
                     /\ \A r \in Resources : ~(node[n].cap[r] > 0)
                  \/ AllOff(n)
                  \/ Idle(n)
<1> DEFINE g == node[n]
           stale == {r \in Resources : g.cap[r] > 0 /\ g.alloc[r] = 0}
<1>1. g.cap \in [Resources -> Nat] /\ g.alloc \in [Resources -> Nat]
  BY DEF ClusterInv, NodeInv, NodeOk
<1>2. /\ ~(g.slice /\ stale # {})
      /\ ~(stale \ {"mig"} # {} /\ wholeGPUs(g.alloc) > 0)
      /\ ~(g.slice /\ g.strategy = "mixed" /\ g.alloc["mig"] = 0)
  BY DEF Leftover
<1> HIDE DEF g
<1>3. CASE Served(n)
  <2>1. PICK r \in Resources :
          /\ g.alloc = Of(r, GPUs * g.replicas) /\ g.cap[r] = g.alloc[r]
          /\ r = "mig" <=> g.strategy = "mixed"
    BY <1>3 DEF Served, g
  <2> DEFINE k == GPUs * g.replicas
  <2>2. k \in Nat \ {0}
    BY DEF SaneAt, Sound, GPUs, g
  <2> HIDE DEF k
  <2>3. g.alloc[r] = k /\ \A q \in Resources \ {r} : g.alloc[q] = 0
    BY <2>1, <2>2, Amounts DEF k
  <2>4. CASE r = "mig"
    BY <2>1, <2>2, <2>3, <2>4 DEF wholeGPUs, Resources, g
  <2>5. CASE r # "mig"
    <3>1. PICK q \in Resources \ {r} : (r = "gpu" /\ q = "gpu.shared") \/ (r = "gpu.shared" /\ q = "gpu")
      BY <2>5 DEF Resources
    <3>8. \A list \in [Resources -> Nat] : wholeGPUs(list) = list[r] + list[q]
      BY <3>1 DEF wholeGPUs
    <3>2. wholeGPUs(g.alloc) = k /\ wholeGPUs(g.cap) = g.cap[r] + g.cap[q]
      BY <1>1, <2>2, <2>3, <3>1, <3>8
    <3>3. q # "mig"
      BY <3>1
    <3>4. q \notin stale
      BY <1>2, <2>2, <3>2, <3>3
    <3>5. g.cap[q] = 0
      BY <1>1, <2>3, <3>1, <3>4
    <3>6. g.alloc["mig"] = 0 /\ g.strategy # "mixed"
      BY <2>1, <2>3, <2>5 DEF Resources
    <3>7. wholeGPUs(g.cap) = k
      BY <2>1, <2>2, <2>3, <3>2, <3>5
    <3> QED
      BY <2>2, <3>2, <3>6, <3>7 DEF g, k
  <2> QED
    BY <2>4, <2>5
<1>4. CASE ~Served(n)
  <2>1. g.alloc = Zero /\ (g.slice \/ AllOff(n) \/ Idle(n))
    BY <1>4 DEF SaneAt, Offers, g
  <2>2. \A r \in Resources : g.alloc[r] = 0
    BY <2>1, Amounts
  <2>3. wholeGPUs(g.alloc) = 0 /\ g.alloc["mig"] = 0
    BY <2>2 DEF wholeGPUs, Resources
  <2>4. g.slice => stale = {} /\ g.strategy # "mixed"
    BY <1>2, <2>3
  <2>5. g.slice => \A r \in Resources : ~(g.cap[r] > 0)
    BY <2>2, <2>4
  <2> QED
    BY <2>1, <2>3, <2>4, <2>5 DEF g
<1> QED
  BY <1>3, <1>4

\* The rules about its labels and its GPUs are quiet.
LEMMA NodeRulesAreQuiet ==
  ASSUME ClusterInv, NEW in, in.policies = policies, NEW n \in Nodes, SaneAt(n), ~Leftover(n),
         NEW g, SeenAs(g, n)
  PROVE  /\ g.present
         /\ ~(/\ g.allocatable <= 0 /\ g.mode # "dra" /\ ~isVirtualMachineWorkload(g)
              /\ Targeted(in, g) /\ ~isMixedMIG(g))
         /\ ~(g.allocatable > 0 /\ g.allocatable < g.capacity)
         /\ ~(/\ ~g.hinted /\ ~isMixedMIG(g) /\ g.mode # "dra" /\ Targeted(in, g)
              /\ g.count * replicaFactor(g) # g.capacity)
         /\ ~configFinding(g)
         /\ ~(~isVirtualMachineWorkload(g) /\ Targeted(in, g) /\ strategyFinding(g))
<1> DEFINE whole == wholeGPUs(node[n].alloc)
           mig == node[n].alloc["mig"]
<1>1. /\ g.capacity = wholeGPUs(node[n].cap) /\ g.allocatable = whole
      /\ isMixedMIG(g) <=> mig > 0
      /\ g.present = node[n].present /\ g.count = node[n].count /\ g.replicas = node[n].replicas
      /\ g.strategy = node[n].strategy /\ g.workload = node[n].workload
      /\ g.mode = "dra" <=> node[n].slice /\ \A r \in Resources : ~(node[n].cap[r] > 0)
      /\ g.hinted <=> ~node[n].slice /\ \A r \in Resources : ~(node[n].cap[r] > 0)
  BY DEF SeenAs, isMixedMIG
<1>2. whole \in Nat /\ mig \in Nat
  BY DEF ClusterInv, NodeInv, NodeOk, Resources, wholeGPUs
<1>3. \/ /\ whole > 0 /\ whole = wholeGPUs(node[n].cap) /\ whole = GPUs * node[n].replicas
         /\ mig = 0 /\ node[n].strategy # "mixed"
      \/ whole = 0 /\ mig > 0 /\ node[n].strategy = "mixed"
      \/ /\ whole = 0 /\ mig = 0
         /\ \/ /\ node[n].slice /\ node[n].strategy # "mixed"
               /\ \A r \in Resources : ~(node[n].cap[r] > 0)
            \/ AllOff(n)
            \/ Idle(n)
  BY OfferIs
<1> HIDE DEF whole, mig
<1>4. AllOff(n) => ~Targeted(in, g)
  BY NotTargeted DEF Untargeted
<1>5. Idle(n) => isVirtualMachineWorkload(g) \/ ~Targeted(in, g)
  BY <1>1, NotTargeted DEF Untargeted, Idle, isVirtualMachineWorkload
<1>6. Idle(n) => g.hinted
  BY <1>1, Amounts DEF Idle
<1>7. g.present /\ g.count = GPUs /\ replicaFactor(g) = g.replicas
  BY <1>1 DEF SaneAt, Sound, replicaFactor
<1>8. ~configFinding(g)
  <2>1. g.config = node[n].config /\ g.configState = node[n].configState
    BY DEF SeenAs
  <2>2. configFinding(g) <=> g.config # Blank /\ g.configState # "success"
    BY Zenon DEF configFinding, Blank
  <2> QED
    BY <2>1, <2>2 DEF SaneAt, Sound
<1>9. strategyFinding(g) => \/ g.strategy = "single" /\ isMixedMIG(g)
                            \/ g.strategy = "mixed" /\ ~isMixedMIG(g)
  BY Zenon DEF strategyFinding
<1>10. ~(/\ g.allocatable <= 0 /\ g.mode # "dra" /\ ~isVirtualMachineWorkload(g)
         /\ Targeted(in, g) /\ ~isMixedMIG(g))
  BY <1>1, <1>2, <1>3, <1>4, <1>5
<1>11. ~(g.allocatable > 0 /\ g.allocatable < g.capacity)
  BY <1>1, <1>2, <1>3
<1>12. ~(/\ ~g.hinted /\ ~isMixedMIG(g) /\ g.mode # "dra" /\ Targeted(in, g)
         /\ g.count * replicaFactor(g) # g.capacity)
  BY <1>1, <1>2, <1>3, <1>4, <1>6, <1>7
<1>13. ~(~isVirtualMachineWorkload(g) /\ Targeted(in, g) /\ strategyFinding(g))
  BY <1>1, <1>2, <1>3, <1>4, <1>5, <1>9
<1> QED
  BY <1>7, <1>8, <1>10, <1>11, <1>12, <1>13

\* Its operands run, but for a driver that an upgrade replaces.
LEMMA HealthyOperand ==
  ASSUME ClusterInv, NEW n, Healthy(n), NEW p \in pods, p.node = n, NEW o, o = operandFromPod(p)
  PROVE  /\ o.component = p.name
         /\ (o.ready /\ ~o.restarted) \/ (p.name = "driver" /\ midUpgrade(node[n]))
         /\ p.name = "validator" => o.init = <<Validation("terminated", 0, 1)>>
<1>1. /\ o.component = p.name /\ componentOf(p) = p.name
      /\ o.ready = allReady(p.statuses) /\ o.restarted = Restarts(p.statuses)
      /\ p.name = "validator" => o.init = p.init
  BY ClusterPods, OperandIs DEF ClusterInv
<1>2. CASE p.statuses = Statuses(p.name, Running)
  <2>1. Running.ready = TRUE /\ Running.restarts = 0
    BY DEF Running, Container
  <2>2. p.statuses # <<>> /\ \A i \in DOMAIN p.statuses : p.statuses[i] = Running
    BY <1>2 DEF Statuses
  <2>3. allReady(p.statuses) /\ ~Restarts(p.statuses)
    BY <2>1, <2>2 DEF allReady, Restarts
  <2> QED
    BY <1>1, <2>3 DEF Healthy
<1>3. CASE p.statuses # Statuses(p.name, Running)
  BY <1>1, <1>3 DEF Healthy
<1> QED
  BY <1>2, <1>3

\* The validation that went well is not one that failed.
LEMMA ValidationIsGood ==
  LET v == Validation("terminated", 0, 1) IN ~toolkitFailure(v.status)
<1> DEFINE v == Validation("terminated", 0, 1)
<1>1. v.status = Container("terminated", Terminated(0, 1), NoTermination, 0, FALSE)
  BY DEF Validation
<1>2. v.status.state = "terminated" /\ v.status.cur.code = 0
  BY <1>1 DEF Container, Terminated
<1> HIDE DEF v
<1>3. ~toolkitFailure(v.status)
  BY <1>2 DEF toolkitFailure
<1> QED
  BY <1>3 DEF v

\* An operand that runs is ready.
LEMMA RunningIsReady ==
  ASSUME ClusterInv, NEW n \in Nodes, Healthy(n), NEW role, role # "driver", Runs(n, role),
         NEW g, SeenAs(g, n)
  PROVE  ReadyOperand(g, role)
<1> DEFINE S == operandsFor(g, role)
<1>1. PICK p \in pods : p.node = n /\ p.name = role
  BY DEF Runs
<1>2. g.operands = {operandFromPod(q) : q \in {r \in pods : r.node = n}}
  BY DEF SeenAs
<1>3. operandFromPod(p) \in S
  BY <1>1, <1>2, HealthyOperand DEF operandsFor
<1>4. \A o \in S : o.ready
  <2> SUFFICES ASSUME NEW o \in S PROVE o.ready
    OBVIOUS
  <2>1. PICK q \in pods : q.node = n /\ o = operandFromPod(q) /\ o.component = role
    BY <1>2 DEF operandsFor
  <2> QED
    BY <2>1, HealthyOperand
<1> HIDE DEF S
<1>5. (CHOOSE o \in S : TRUE) \in S
  BY <1>3
<1>6. (CHOOSE o \in S : TRUE).ready
  BY <1>4, <1>5
<1> QED
  BY <1>3, <1>6 DEF ReadyOperand, S

\* The policy that counts is the operator's own, unless it is a guess.
LEMMA OwnIsActive ==
  ASSUME PolicyInv, ~PolicyGuessed, NEW in, in.policies = policies
  PROVE  \E i \in DOMAIN policies : activeClusterPolicy(in) = policies[i] /\ policies[i].name = Policy.name
<1>1. PICK state \in {"ready", "notReady"}, off \in SUBSET Operands :
        policies \in {<<Own(state, off)>>, <<Other, Own(state, off)>>, <<Own(state, off), Other>>}
  BY DEF PolicyInv
<1> DEFINE own == Own(state, off)
           ready == {i \in DOMAIN policies : IsReady(policies[i])}
           at == IF ready = {} THEN 1 ELSE CHOOSE i \in ready : \A j \in ready : i <= j
<1>2. activeClusterPolicy(in) = policies[at]
  BY DEF activeClusterPolicy
<1>3. own.name = Policy.name /\ own.state = state /\ ~IsReady(Other)
  BY PolicyFields DEF IsReady
<1>4. PICK k \in DOMAIN policies :
        policies[k] = own /\ \A i \in DOMAIN policies \ {k} : policies[i] = Other
  BY <1>1
<1> HIDE DEF own
<1>5. at \in DOMAIN policies /\ policies[at].name = Policy.name
  <2>1. CASE Len(policies) > 1
    <3>1. ready # {}
      BY <2>1 DEF PolicyGuessed
    <3>2. ready \subseteq {k}
      BY <1>3, <1>4
    <3> HIDE DEF ready
    <3>3. ready = {k} /\ k \in Int
      BY <1>1, <3>1, <3>2 DEF ready
    <3>4. (CHOOSE i \in ready : \A j \in ready : i <= j) = k
      BY <3>3
    <3>5. at = k
      BY <3>3, <3>4
    <3> HIDE DEF at
    <3> QED
      BY <1>3, <1>4, <3>5
  <2>2. CASE ~(Len(policies) > 1)
    <3>1. policies = <<own>>
      BY <1>1, <2>2 DEF own
    <3>2. ready \subseteq {1}
      BY <3>1
    <3> HIDE DEF ready
    <3>3. at = 1
      <4>1. CASE ready = {}
        BY <4>1
      <4>2. CASE ready # {}
        <5>1. ready = {1}
          BY <3>2, <4>2
        <5>2. (CHOOSE i \in ready : \A j \in ready : i <= j) = 1
          BY <5>1
        <5> QED
          BY <5>1, <5>2
      <4> QED
        BY <4>1, <4>2
    <3> HIDE DEF at
    <3> QED
      BY <1>3, <3>1, <3>3
  <2> QED
    BY <2>1, <2>2
<1> HIDE DEF at
<1> QED
  BY <1>2, <1>5

\* The rules about its pods and its upgrade are quiet.
LEMMA PodRulesAreQuiet ==
  ASSUME ClusterInv, ~PolicyGuessed, NEW in, in.policies = policies, in.events = events,
         NEW n \in Nodes, SaneAt(n), NEW g, SeenAs(g, n)
  PROVE  /\ \A o \in g.operands :
              (o.component \in {"driver", "vgpu-manager"} /\ (~o.ready \/ o.restarted)) => midUpgrade(g)
         /\ \A o \in operandsFor(g, "validator") : \A i \in DOMAIN o.init : ~toolkitFailure(o.init[i].status)
         /\ ~g.hinted => operandDisabledOn(g, "device-plugin") \/ ReadyOperand(g, "device-plugin")
         /\ ~g.hinted => \/ operandDisabledOn(g, "dcgm-exporter") \/ ReadyOperand(g, "dcgm-exporter")
                         \/ ~OperandEnabledInPolicy(in, "dcgmExporter")
         /\ g.upgrade # UpgradeFailed
         /\ (g.upgrade \in upgradeStuckStates /\ enteredState(in, g) # {}) =>
               ~(Elapsed(in, g) >= upgradeStuckAfter)
<1>1. /\ g.name = n /\ g.operands = {operandFromPod(p) : p \in {q \in pods : q.node = n}}
      /\ g.upgrade = node[n].upgrade /\ g.deploy = node[n].deploy
      /\ g.hinted <=> ~node[n].slice /\ \A r \in Resources : ~(node[n].cap[r] > 0)
  BY DEF SeenAs
<1>2. Healthy(n) /\ Plugged(n) /\ Exported(n) /\ Sound(n)
  BY DEF SaneAt
<1>3. midUpgrade(g) <=> midUpgrade(node[n])
  BY <1>1, Zenon DEF midUpgrade
<1>4. ASSUME NEW o \in g.operands
      PROVE  \E p \in pods : /\ p.node = n /\ o.component = p.name
                             /\ (o.ready /\ ~o.restarted) \/ (p.name = "driver" /\ midUpgrade(node[n]))
                             /\ p.name = "validator" => o.init = <<Validation("terminated", 0, 1)>>
  <2>1. PICK p \in pods : p.node = n /\ o = operandFromPod(p)
    BY <1>1
  <2> QED
    BY <1>2, <2>1, HealthyOperand
<1>5. \A o \in g.operands :
        (o.component \in {"driver", "vgpu-manager"} /\ (~o.ready \/ o.restarted)) => midUpgrade(g)
  BY <1>3, <1>4
<1>6. ASSUME NEW o \in operandsFor(g, "validator"), NEW i \in DOMAIN o.init
      PROVE  ~toolkitFailure(o.init[i].status)
  <2>1. o.init = <<Validation("terminated", 0, 1)>>
    BY <1>4 DEF operandsFor
  <2>2. o.init[i] = Validation("terminated", 0, 1)
    BY <2>1
  <2> QED
    BY <2>2, ValidationIsGood
<1>7. Idle(n) => g.hinted
  BY <1>1, Amounts DEF Idle
<1>8. \A key : operandDisabledOn(g, key) <=> operandDisabledOn(node[n], key)
  BY <1>1 DEF operandDisabledOn
<1>9. ~g.hinted => operandDisabledOn(g, "device-plugin") \/ ReadyOperand(g, "device-plugin")
  BY <1>2, <1>7, <1>8, RunningIsReady DEF Plugged
<1>10. ~g.hinted => \/ operandDisabledOn(g, "dcgm-exporter") \/ ReadyOperand(g, "dcgm-exporter")
                    \/ ~OperandEnabledInPolicy(in, "dcgmExporter")
  <2>1. CASE \A i \in DOMAIN policies : policies[i].name = Policy.name => "dcgmExporter" \in policies[i].off
    <3>1. "dcgmExporter" \in activeClusterPolicy(in).off
      BY <2>1, OwnIsActive DEF ClusterInv
    <3>2. policies # <<>>
      <4>1. \E a, b : policies \in {<<a>>, <<a, b>>}
        BY Zenon DEF ClusterInv, PolicyInv
      <4> QED
        BY <4>1
    <3> QED
      BY <3>1, <3>2 DEF OperandEnabledInPolicy
  <2>2. CASE ~(\A i \in DOMAIN policies : policies[i].name = Policy.name => "dcgmExporter" \in policies[i].off)
    BY <1>2, <1>7, <1>8, <2>2, RunningIsReady DEF Exported
  <2> QED
    BY <2>1, <2>2
<1>11. g.upgrade # UpgradeFailed
  BY <1>1, <1>2 DEF Sound
<1>12. (g.upgrade \in upgradeStuckStates /\ enteredState(in, g) # {}) => ~(Elapsed(in, g) >= upgradeStuckAfter)
  <2>1. enteredState(in, g) # {} => Elapsed(in, g) = now - since[n]
    BY <1>1, NewestEvent
  <2> QED
    BY <1>1, <1>2, <2>1 DEF Sound, Stuck
<1> QED
  BY <1>5, <1>6, <1>9, <1>10, <1>11, <1>12

\* No rule warns of a node that no fault has struck.
LEMMA SaneIsQuiet ==
  ASSUME ClusterInv, SaneInv, ~PolicyGuessed, NEW n \in Nodes, n \notin broken, ~Leftover(n)
  PROVE  AlarmsOn(n, {}) = {}
<1> SUFFICES ASSUME NEW f \in Findings(Live({})), f.sev >= Warning, f.node = n
             PROVE  FALSE
  BY DEF AlarmsOn, Alarms
<1> DEFINE in == Input(Live({}))
<1>1. /\ in.installed /\ in.policies = policies /\ in.events = events
      /\ in.nodes \subseteq everyNode(in) /\ \A g \in in.nodes : ~g.hinted
      /\ \A g \in everyNode(in) : g.name \in Nodes /\ SeenAs(g, g.name)
  BY AllIsSeen
<1>2. f \in AllWith(in)
  BY DEF Findings
<1> HIDE DEF in
<1>3. SaneAt(n)
  BY DEF SaneInv
<1>4. \A code, sev, m, component :
        LET x == Finding(code, sev, m, component) IN x.sev = sev /\ x.node = m
  BY DEF Finding
<1>5. \A g \in everyNode(in) : g.name = n => SeenAs(g, n)
  BY <1>1
<1>6. ASSUME NEW g \in everyNode(in), g.name = n
      PROVE  /\ g.present
             /\ ~(/\ g.allocatable <= 0 /\ g.mode # "dra" /\ ~isVirtualMachineWorkload(g)
                  /\ Targeted(in, g) /\ ~isMixedMIG(g))
             /\ ~(g.allocatable > 0 /\ g.allocatable < g.capacity)
             /\ ~(/\ ~g.hinted /\ ~isMixedMIG(g) /\ g.mode # "dra" /\ Targeted(in, g)
                  /\ g.count * replicaFactor(g) # g.capacity)
             /\ ~configFinding(g)
             /\ ~(~isVirtualMachineWorkload(g) /\ Targeted(in, g) /\ strategyFinding(g))
  <2>1. SeenAs(g, n)
    BY <1>5, <1>6
  <2> QED
    BY <1>1, <1>3, <2>1, NodeRulesAreQuiet
<1>7. ASSUME NEW g \in everyNode(in), g.name = n
      PROVE  /\ \A o \in g.operands :
                  (o.component \in {"driver", "vgpu-manager"} /\ (~o.ready \/ o.restarted)) => midUpgrade(g)
             /\ \A o \in operandsFor(g, "validator") : \A i \in DOMAIN o.init : ~toolkitFailure(o.init[i].status)
             /\ ~g.hinted => operandDisabledOn(g, "device-plugin") \/ ReadyOperand(g, "device-plugin")
             /\ ~g.hinted => \/ operandDisabledOn(g, "dcgm-exporter") \/ ReadyOperand(g, "dcgm-exporter")
                             \/ ~OperandEnabledInPolicy(in, "dcgmExporter")
             /\ g.upgrade # UpgradeFailed
             /\ (g.upgrade \in upgradeStuckStates /\ enteredState(in, g) # {}) =>
                   ~(Elapsed(in, g) >= upgradeStuckAfter)
  <2>1. SeenAs(g, n)
    BY <1>5, <1>7
  <2> QED
    BY <1>1, <1>3, <2>1, PodRulesAreQuiet
<1>8. Info = 1 /\ Warning = 2
  BY DEF Info, Warning
<1>9. f \notin NodePCIWithoutGPULabel(in) /\ f \notin NodeNoAllocatableGPUs(in)
  BY <1>4, <1>6 DEF NodePCIWithoutGPULabel, NodeNoAllocatableGPUs
<1>10. f \notin NodeAllocatableBelowCapacity(in) /\ f \notin NodeCountDiffersFromCapacity(in)
  BY <1>1, <1>4, <1>6 DEF NodeAllocatableBelowCapacity, NodeCountDiffersFromCapacity
<1>11. f \notin OperatorClusterPolicyNotReady(in)
  <2>1. ASSUME f \in OperatorClusterPolicyNotReady(in)
        PROVE  \E sev : f = Finding("NV-OP-001", sev, Cluster, "gpu-operator")
    BY <2>1, Zenon DEF OperatorClusterPolicyNotReady
  <2> QED
    BY <1>4, <2>1, ClusterAssumption
<1>12. f \notin DriverPodNotReady(in)
  <2> SUFFICES ASSUME f \in DriverPodNotReady(in) PROVE FALSE
    OBVIOUS
  <2>1. PICK g \in everyNode(in) : \E o \in g.operands :
          /\ f = Finding("NV-DRV-001", IF midUpgrade(g) THEN Info ELSE Error, g.name, o.component)
          /\ o.component \in {"driver", "vgpu-manager"} /\ (~o.ready \/ o.restarted)
    BY Zenon DEF DriverPodNotReady
  <2>2. g.name = n
    BY <1>4, <2>1
  <2>3. midUpgrade(g)
    BY <1>7, <2>1, <2>2
  <2> QED
    BY <1>4, <1>8, <2>1, <2>3
<1>13. f \notin ToolkitValidationFailed(in)
  BY <1>4, <1>7 DEF ToolkitValidationFailed
<1>14. f \notin DevicePluginNotReady(in) /\ f \notin DCGMExporterNotReady(in)
  BY <1>1, <1>4, <1>7 DEF DevicePluginNotReady, DCGMExporterNotReady
<1>15. f \notin MIGConfigNotApplied(in)
  <2> SUFFICES ASSUME f \in MIGConfigNotApplied(in) PROVE FALSE
    OBVIOUS
  <2>1. PICK g \in everyNode(in) :
          /\ ~isVirtualMachineWorkload(g) /\ Targeted(in, g) /\ (configFinding(g) \/ strategyFinding(g))
          /\ \E sev, component : f = Finding("NV-MIG-001", sev, g.name, component)
    BY Zenon DEF MIGConfigNotApplied
  <2>2. g.name = n
    BY <1>4, <2>1
  <2> QED
    BY <1>6, <2>1, <2>2
<1>16. f \notin UpgradeStuck(in)
  <2> SUFFICES ASSUME f \in UpgradeStuck(in) PROVE FALSE
    OBVIOUS
  <2>1. PICK g \in everyNode(in) :
          /\ \/ g.upgrade = UpgradeFailed
             \/ /\ g.upgrade \in upgradeStuckStates
                /\ enteredState(in, g) # {} => Elapsed(in, g) >= upgradeStuckAfter
          /\ f = Finding("NV-UPG-001", IF g.upgrade = UpgradeFailed THEN Error
                                       ELSE IF enteredState(in, g) # {} THEN Warning ELSE Info, g.name, "node")
    BY Zenon DEF UpgradeStuck
  <2>2. g.name = n
    BY <1>4, <2>1
  <2>3. g.upgrade # UpgradeFailed /\ enteredState(in, g) = {}
    BY <1>7, <2>1, <2>2
  <2> QED
    BY <1>4, <1>8, <2>1, <2>3
<1>17. \/ f \in NodePCIWithoutGPULabel(in) \/ f \in NodeNoAllocatableGPUs(in)
       \/ f \in NodeAllocatableBelowCapacity(in) \/ f \in NodeCountDiffersFromCapacity(in)
       \/ f \in OperatorClusterPolicyNotReady(in) \/ f \in DriverPodNotReady(in)
       \/ f \in ToolkitValidationFailed(in) \/ f \in DevicePluginNotReady(in)
       \/ f \in MIGConfigNotApplied(in) \/ f \in DCGMExporterNotReady(in) \/ f \in UpgradeStuck(in)
       \/ f \in NodeConditionOrCordon(in) \/ f \in OperatorOperandDisabled(in)
       \/ f \in DevicePluginAndDRABoth(in) \/ f \in ComputeDomainNotReady(in)
       \/ f \in TopologyLabelsPartial(in)
  BY <1>2, Zenon DEF AllWith
<1> QED
  BY <1>9, <1>10, <1>11, <1>12, <1>13, <1>14, <1>15, <1>16, <1>17, Informing

\* No change made on purpose, in any order, from any set-up and for any number of
\* them, makes a rule of pkg/health/rules warn about a node, but where the plugin left
\* something behind (nv_node_002.go:34 and the exclusions beside it).
THEOREM IntendedIsAlwaysQuiet == Spec => []IntendedIsQuiet
<1>1. ClusterInv /\ SaneInv => IntendedIsQuiet
  BY SaneIsQuiet DEF IntendedIsQuiet
<1>2. Init => ClusterInv /\ SaneInv
  BY ClusterInit, SaneInit
<1>3. ClusterInv /\ SaneInv /\ [Next]_vars => (ClusterInv /\ SaneInv)'
  BY ClusterKept, SaneKept
<1> QED
  BY <1>1, <1>2, <1>3, PTL DEF Spec

-----------------------------------------------------------------------------
(* The bundle. *)

\* The collectors still to run are different ones.
TodoInv ==
  /\ todo \in Seq(Files \cup {"operator_pod"})
  /\ \A i, j \in DOMAIN todo : todo[i] = todo[j] => i = j

\* The collector of f is still to run.
Pending(f) == \E i \in DOMAIN todo : todo[i] = f

\* What stands under a name, when it is read back as a gap.
Gap(what) ==
  \/ what.kind \in {"absent", "garbled", "unsafe"}
  \/ what.kind = "marker" /\ what.reason # "not installed"

\* What is lost is what would be read as a gap, of the collectors that have run.
FilesInv ==
  /\ bundle = [f \in Files |-> bundle[f]]
  /\ lost \subseteq Files
  /\ \A f \in Files :
       /\ bundle[f].kind \in {"absent", "file", "marker", "garbled", "unsafe"}
       /\ bundle[f].kind = "marker" => f \in {"cluster_policy", "compute_domains"}
       /\ Pending(f) => bundle[f] = Absent /\ f \notin lost
       /\ ~Pending(f) => (f \in lost <=> Gap(bundle[f]))

\* The inductive invariant behind GapsAreRead.
IInv == TodoInv /\ FilesInv

-----------------------------------------------------------------------------
(* The gather. *)

\* The names of the files.
LEMMA FileNames ==
  /\ Files = {"nodes", "cluster_policy", "resourceslices", "compute_domains",
              "gpu_pods", "node_events", "gpu_operand_pods"}
  /\ Hard \notin Files
  /\ "operator_pod" \notin Files
<1>1. DOMAIN Registry = 1 .. 8
  BY DEF Registry
<1>2. {Registry[i] : i \in 1 .. 8} =
        {"nodes", "cluster_policy", "resourceslices", "compute_domains",
         "gpu_pods", "node_events", "operator_pod", "gpu_operand_pods"}
  BY DEF Registry
<1> QED
  BY <1>1, <1>2 DEF Files, Hard

\* The collector that runs is not to run again, and the others are as they were.
LEMMA TodoMoves ==
  ASSUME TodoInv, NEW f, Collect(f)
  PROVE  /\ TodoInv'
         /\ ~Pending(f)'
         /\ \A g : g # f => (Pending(g)' <=> Pending(g))
<1> DEFINE S == Files \cup {"operator_pod"}
<1>1. todo \in Seq(S) /\ todo # <<>> /\ f = Head(todo) /\ todo' = Tail(todo)
  BY DEF TodoInv, Collect
<1> HIDE DEF S
<1>2. PICK t : t = todo
  OBVIOUS
<1>3. /\ Tail(t) \in Seq(S) /\ f = t[1] /\ Len(t) \in Nat /\ Len(t) > 0
      /\ DOMAIN Tail(t) = 1 .. (Len(t) - 1) /\ DOMAIN t = 1 .. Len(t)
      /\ \A i \in 1 .. (Len(t) - 1) : Tail(t)[i] = t[i + 1]
  BY <1>1, <1>2, HeadTailProperties
<1>4. \A i, j \in DOMAIN t : t[i] = t[j] => i = j
  BY <1>2 DEF TodoInv
<1>5. TodoInv'
  <2>1. \A i, j \in DOMAIN Tail(t) : Tail(t)[i] = Tail(t)[j] => i = j
    BY <1>3, <1>4
  <2> QED
    BY <1>1, <1>2, <1>3, <2>1 DEF TodoInv, S
<1>6. ~\E i \in DOMAIN Tail(t) : Tail(t)[i] = f
  BY <1>3, <1>4
<1>7. ASSUME NEW g, g # f
      PROVE  (\E i \in DOMAIN Tail(t) : Tail(t)[i] = g) <=> (\E i \in DOMAIN t : t[i] = g)
  <2>1. ASSUME NEW i \in DOMAIN t, t[i] = g
        PROVE  i - 1 \in DOMAIN Tail(t) /\ Tail(t)[i - 1] = g
    BY <1>3, <1>7, <2>1
  <2>2. ASSUME NEW i \in DOMAIN Tail(t), Tail(t)[i] = g
        PROVE  i + 1 \in DOMAIN t /\ t[i + 1] = g
    BY <1>3, <2>2
  <2> QED
    BY <2>1, <2>2
<1> QED
  BY <1>1, <1>2, <1>5, <1>6, <1>7 DEF Pending

\* A collector leaves under its name what its reply was.
LEMMA CollectKeeps ==
  ASSUME IInv, NEW f \in Files, Collect(f), NEW what,
         bundle' = [bundle EXCEPT ![f] = what],
         what.kind \in {"absent", "file", "marker"},
         what.kind = "marker" => f \in {"cluster_policy", "compute_domains"},
         NEW gap \in BOOLEAN, gap <=> Gap(what),
         lost' = IF gap THEN lost \cup {f} ELSE lost
  PROVE  IInv'
<1>1. /\ TodoInv' /\ ~Pending(f)' /\ \A g : g # f => (Pending(g)' <=> Pending(g))
  BY TodoMoves DEF IInv
<1>2. Pending(f)
  <2>1. todo # <<>> /\ f = Head(todo) /\ todo \in Seq(Files \cup {"operator_pod"})
    BY DEF Collect, IInv, TodoInv
  <2>2. 1 \in DOMAIN todo /\ todo[1] = f
    BY <2>1, HeadTailProperties
  <2> QED
    BY <2>2 DEF Pending
<1>3. f \notin lost /\ bundle = [g \in Files |-> bundle[g]] /\ lost \subseteq Files
  BY <1>2 DEF IInv, FilesInv
<1>4. FilesInv'
  <2>1. bundle' = [g \in Files |-> bundle'[g]] /\ lost' \subseteq Files
    BY <1>3
  <2>2. bundle'[f] = what /\ (f \in lost' <=> Gap(what))
    BY <1>3
  <2>3. \A g \in Files : g # f => bundle'[g] = bundle[g] /\ (g \in lost' <=> g \in lost)
    BY <1>3
  <2>4. ASSUME NEW g \in Files
        PROVE  /\ bundle'[g].kind \in {"absent", "file", "marker", "garbled", "unsafe"}
               /\ bundle'[g].kind = "marker" => g \in {"cluster_policy", "compute_domains"}
               /\ Pending(g)' => bundle'[g] = Absent /\ g \notin lost'
               /\ ~Pending(g)' => (g \in lost' <=> Gap(bundle'[g]))
    <3>1. CASE g = f
      BY <1>1, <2>2, <3>1
    <3>2. CASE g # f
      BY <1>1, <2>3, <2>4, <3>2 DEF IInv, FilesInv
    <3> QED
      BY <3>1, <3>2
  <2> QED
    BY <2>1, <2>4 DEF FilesInv, Gap, Absent
<1> QED
  BY <1>1, <1>4 DEF IInv

\* The kinds of what a collector can leave.
LEMMA KindsLeft ==
  /\ Absent.kind = "absent" /\ Gap(Absent)
  /\ \A content : File(content).kind = "file" /\ ~Gap(File(content))
  /\ \A reason : /\ Marker(reason).kind = "marker"
                 /\ Gap(Marker(reason)) <=> reason # "not installed"
BY DEF Absent, File, Marker, Gap

\* A collector that writes nothing leaves what was there, which is nothing.
LEMMA NothingWritten ==
  ASSUME IInv, NEW f \in Files, Collect(f), bundle' = bundle
  PROVE  bundle' = [bundle EXCEPT ![f] = Absent]
<1>1. todo # <<>> /\ f = Head(todo) /\ todo \in Seq(Files \cup {"operator_pod"})
  BY DEF Collect, IInv, TodoInv
<1>2. 1 \in DOMAIN todo /\ todo[1] = f
  BY <1>1, HeadTailProperties
<1>3. bundle[f] = Absent /\ bundle = [g \in Files |-> bundle[g]]
  BY <1>2 DEF IInv, FilesInv, Pending
<1> QED
  BY <1>3

\* The collectors that end in an error write the objects or nothing.
LEMMA OrFailKeeps ==
  ASSUME IInv, NEW f \in Files, NEW content, gatherOrFail(f, content)
  PROVE  IInv'
<1>1. PICK reply \in {"ok"} \cup Faults :
        /\ Answers(f, reply)
        /\ IF reply = "ok" THEN Write(f, File(content)) ELSE UNCHANGED bundle
  BY DEF gatherOrFail
<1>2. Collect(f)
  BY DEF gatherOrFail
<1>3. CASE reply = "ok"
  <2>1. bundle' = [bundle EXCEPT ![f] = File(content)] /\ lost' = lost
    BY <1>1, <1>3 DEF Answers, Write, Faults
  <2> QED
    BY <1>2, <2>1, KindsLeft, CollectKeeps
<1>4. CASE reply \in Faults
  <2>1. bundle' = bundle /\ lost' = lost \cup {f}
    BY <1>1, <1>4 DEF Answers, Faults
  <2>2. bundle' = [bundle EXCEPT ![f] = Absent]
    BY <1>2, <2>1, NothingWritten
  <2> QED
    BY <1>2, <2>1, <2>2, KindsLeft, CollectKeeps
<1> QED
  BY <1>3, <1>4

\* The collectors that mark leave the objects or the reason there are none.
LEMMA OrMarkKeeps ==
  ASSUME IInv, NEW f \in {"cluster_policy", "compute_domains"},
         NEW none \in BOOLEAN, NEW content, gatherOrMark(f, none, content)
  PROVE  IInv'
<1>1. PICK reply \in {"ok", "notserved"} \cup Faults :
        /\ Answers(f, reply)
        /\ Write(f, CASE reply = "ok" /\ ~none -> File(content)
                      [] reply = "ok" /\ none -> Marker("not installed")
                      [] reply = "notserved" -> Marker("not installed")
                      [] OTHER -> Marker(reply))
  BY DEF gatherOrMark
<1>2. Collect(f) /\ f \in Files
  BY FileNames DEF gatherOrMark
<1>3. CASE reply \in {"ok", "notserved"}
  <2>1. /\ bundle' = [bundle EXCEPT ![f] = File(content)]
           \/ bundle' = [bundle EXCEPT ![f] = Marker("not installed")]
        /\ lost' = lost
    BY <1>1, <1>3 DEF Answers, Write, Faults
  <2> QED
    BY <1>2, <2>1, KindsLeft, CollectKeeps
<1>4. CASE reply \in Faults
  <2>1. bundle' = [bundle EXCEPT ![f] = Marker(reply)] /\ lost' = lost \cup {f}
    BY <1>1, <1>4 DEF Answers, Write, Faults
  <2>2. reply # "not installed"
    BY <1>4 DEF Faults
  <2> QED
    BY <1>2, <2>1, <2>2, KindsLeft, CollectKeeps
<1> QED
  BY <1>3, <1>4

\* The slices are a list, an empty one or no file.
LEMMA SlicesKeep ==
  ASSUME IInv, gatherResourceSlices
  PROVE  IInv'
<1> DEFINE f == "resourceslices"
           sliced == {n \in Nodes : node[n].slice}
<1>1. PICK reply \in {"ok", "older", "notserved"} \cup Faults :
        /\ Answers(f, reply)
        /\ CASE reply = "ok" -> Write(f, File(sliced))
             [] reply \in {"older", "notserved"} -> Write(f, File({}))
             [] OTHER -> UNCHANGED bundle
  BY DEF gatherResourceSlices
<1>2. Collect(f) /\ f \in Files
  BY FileNames DEF gatherResourceSlices
<1>3. CASE reply \in {"ok", "older", "notserved"}
  <2>1. /\ lost' = lost
        /\ \E content : bundle' = [bundle EXCEPT ![f] = File(content)]
    BY <1>1, <1>3 DEF Answers, Write, Faults
  <2>2. PICK content : bundle' = [bundle EXCEPT ![f] = File(content)]
    BY <2>1
  <2> QED
    BY <1>2, <2>1, <2>2, KindsLeft, CollectKeeps
<1>4. CASE reply \in Faults
  <2>1. bundle' = bundle /\ lost' = lost \cup {f}
    BY <1>1, <1>4 DEF Answers, Faults
  <2>2. bundle' = [bundle EXCEPT ![f] = Absent]
    BY <1>2, <2>1, NothingWritten
  <2> QED
    BY <1>2, <2>1, <2>2, KindsLeft, CollectKeeps
<1> QED
  BY <1>3, <1>4

\* The operands are the pods that were prepared, or there is no file.
LEMMA OperandsKeep ==
  ASSUME IInv, gatherOperandPods
  PROVE  IInv'
<1> DEFINE f == "gpu_operand_pods"
<1>1. Collect(f) /\ f \in Files
  BY FileNames DEF gatherOperandPods
<1>2. CASE prepared' = <<>>
  <2>1. bundle' = bundle /\ lost' = lost \cup {f}
    BY <1>2 DEF gatherOperandPods, Answers, Faults
  <2>2. bundle' = [bundle EXCEPT ![f] = Absent]
    BY <1>1, <2>1, NothingWritten
  <2> QED
    BY <1>1, <2>1, <2>2, KindsLeft, CollectKeeps
<1>3. CASE prepared' # <<>>
  <2>1. bundle' = [bundle EXCEPT ![f] = File(prepared'[1])] /\ lost' = lost
    BY <1>3 DEF gatherOperandPods, Answers, Write, Faults
  <2>2. PICK content : content = prepared'[1]
    OBVIOUS
  <2> QED
    BY <1>1, <2>1, <2>2, KindsLeft, CollectKeeps
<1> QED
  BY <1>2, <1>3

\* A file that comes to harm is lost, whatever it was.
LEMMA DamageKeeps ==
  ASSUME IInv, NEW f \in Files, Damage(f)
  PROVE  IInv'
<1>1. PICK kind \in {"absent", "garbled", "unsafe"} : bundle' = [bundle EXCEPT ![f] = [kind |-> kind]]
  BY DEF Damage, Write
<1>2. todo = <<>> /\ todo' = todo /\ lost' = lost \cup {f}
  BY DEF Damage
<1>3. \A g : ~Pending(g) /\ ~Pending(g)'
  BY <1>2 DEF Pending
<1>4. FilesInv'
  <2>1. /\ bundle' = [g \in Files |-> bundle'[g]] /\ lost' \subseteq Files
        /\ bundle'[f] = [kind |-> kind] /\ f \in lost'
        /\ \A g \in Files : g # f => bundle'[g] = bundle[g] /\ (g \in lost' <=> g \in lost)
    BY <1>1, <1>2 DEF IInv, FilesInv
  <2>2. bundle'[f].kind = kind /\ Gap(bundle'[f])
    <3>1. [kind |-> kind].kind = kind
      OBVIOUS
    <3> QED
      BY <2>1, <3>1, Zenon DEF Gap
  <2>3. ASSUME NEW g \in Files
        PROVE  /\ bundle'[g].kind \in {"absent", "file", "marker", "garbled", "unsafe"}
               /\ bundle'[g].kind = "marker" => g \in {"cluster_policy", "compute_domains"}
               /\ g \in lost' <=> Gap(bundle'[g])
    <3>1. CASE g = f
      BY <2>1, <2>2, <3>1
    <3>2. CASE g # f
      BY <1>3, <2>1, <3>2 DEF IInv, FilesInv
    <3> QED
      BY <3>1, <3>2
  <2> QED
    BY <1>3, <2>1, <2>3 DEF FilesInv, Gap
<1> QED
  BY <1>2, <1>4 DEF IInv, TodoInv

\* Before the gather every file is still to be written.
LEMMA InitIsGood ==
  ASSUME BundleInit
  PROVE  IInv
<1>1. /\ todo = Registry /\ bundle = [f \in Files |-> Absent] /\ lost = {}
  BY DEF BundleInit
<1>2. TodoInv
  BY <1>1, FileNames DEF TodoInv, Registry
<1>3. \A f \in Files : Pending(f)
  BY <1>1, FileNames DEF Pending, Registry
<1>4. \A f \in Files : bundle[f] = Absent /\ bundle[f].kind = "absent"
  BY <1>1 DEF Absent
<1>5. FilesInv
  BY <1>1, <1>3, <1>4 DEF FilesInv
<1> QED
  BY <1>2, <1>5 DEF IInv

\* Every step keeps the invariant.
LEMMA StepKeeps ==
  ASSUME IInv, [BundleNext]_bundleVars
  PROVE  IInv'
<1>1. CASE gatherNodeInfo \/ gatherGPUPods \/ gatherNodeEvents
  BY <1>1, FileNames, OrFailKeeps DEF gatherNodeInfo, gatherGPUPods, gatherNodeEvents
<1>2. CASE gatherClusterPolicy \/ gatherComputeDomains
  BY <1>2, OrMarkKeeps DEF gatherClusterPolicy, gatherComputeDomains
<1>3. CASE gatherResourceSlices
  BY <1>3, SlicesKeep
<1>4. CASE gatherOperatorPod
  <2>1. Collect("operator_pod") /\ UNCHANGED <<bundle, lost>>
    BY <1>4 DEF gatherOperatorPod
  <2>2. TodoInv' /\ \A g : g # "operator_pod" => (Pending(g)' <=> Pending(g))
    BY <2>1, TodoMoves DEF IInv
  <2> QED
    BY <2>1, <2>2, FileNames DEF IInv, FilesInv, Gap, Absent
<1>5. CASE gatherOperandPods
  BY <1>5, OperandsKeep
<1>6. CASE \E f \in Files : Damage(f)
  BY <1>6, DamageKeeps
<1>7. CASE ClusterStep \/ UNCHANGED bundleVars
  <2>1. UNCHANGED <<todo, bundle, lost>>
    BY <1>7 DEF ClusterStep, bundleVars, gather
  <2> QED
    BY <2>1 DEF IInv, TodoInv, FilesInv, Pending, Gap, Absent
<1> QED
  BY <1>1, <1>2, <1>3, <1>4, <1>5, <1>6, <1>7 DEF BundleNext

-----------------------------------------------------------------------------
(* The reading. *)

\* What readYAML names is the file, or that there can be no run.
LEMMA ReadNames ==
  ASSUME IInv, Gathered, NEW f \in Files, NEW nothing
  PROVE  LET answer == readYAML(f, nothing) IN
         /\ answer.missing \in {{}, {f}, {Hard}}
         /\ answer.missing = {Hard} <=> bundle[f].kind = "unsafe"
         /\ answer.missing = {} <=> bundle[f].kind = "file"
<1>1. bundle[f].kind \in {"absent", "file", "marker", "garbled", "unsafe"} /\ f # Hard
  BY FileNames DEF IInv, FilesInv
<1>2. /\ bundle[f].kind = "file" => readYAML(f, nothing).missing = {}
      /\ bundle[f].kind = "unsafe" => readYAML(f, nothing).missing = {Hard}
      /\ bundle[f].kind \notin {"file", "unsafe"} => readYAML(f, nothing).missing = {f}
  BY <1>1 DEF readYAML, Answer
<1> QED
  BY <1>1, <1>2

\* What is lost is what the directory has no answer for.
LEMMA LostIsGap ==
  ASSUME IInv, Gathered, NEW f \in Files
  PROVE  f \in lost <=> Gap(bundle[f])
BY DEF IInv, FilesInv, Pending, Gathered

\* A file that is not marked is lost exactly when reading it says so.
LEMMA PlainRead ==
  ASSUME IInv, Gathered, NEW f \in Files \ {"cluster_policy", "compute_domains"}, NEW nothing
  PROVE  LET answer == readYAML(f, nothing) IN
         /\ answer.missing \in {{}, {f}, {Hard}}
         /\ answer.missing = {} <=> f \notin lost
<1>1. bundle[f].kind \in {"absent", "file", "garbled", "unsafe"}
  BY DEF IInv, FilesInv
<1> QED
  BY <1>1, ReadNames, LostIsGap DEF Gap

\* Nor is one that is marked, once the marker was read.
LEMMA MarkedRead ==
  ASSUME IInv, Gathered, NEW f \in {"cluster_policy", "compute_domains"}, NEW nothing
  PROVE  LET answer == markerReason(f, readYAML(f, nothing)) IN
         /\ answer.missing \in {{}, {f}, {Hard}}
         /\ answer.missing = {} <=> f \notin lost
<1>1. f \in Files /\ bundle[f].kind \in {"absent", "file", "marker", "garbled", "unsafe"}
  BY FileNames DEF IInv, FilesInv
<1>2. \A a : "missing" \in DOMAIN a => [a EXCEPT !.missing = {}].missing = {}
  OBVIOUS
<1>3. "missing" \in DOMAIN readYAML(f, nothing)
  BY <1>1 DEF readYAML, Answer
<1>4. CASE bundle[f].kind = "marker" /\ bundle[f].reason = "not installed"
  <2>1. markerReason(f, readYAML(f, nothing)).missing = {}
    BY <1>2, <1>3, <1>4 DEF markerReason
  <2>2. f \notin lost
    BY <1>1, <1>4, LostIsGap DEF Gap
  <2> QED
    BY <2>1, <2>2
<1>5. CASE ~(bundle[f].kind = "marker" /\ bundle[f].reason = "not installed")
  <2>1. markerReason(f, readYAML(f, nothing)) = readYAML(f, nothing)
    BY <1>5 DEF markerReason
  <2>2. f \in lost <=> bundle[f].kind # "file"
    BY <1>1, <1>5, LostIsGap DEF Gap
  <2>3. /\ readYAML(f, nothing).missing \in {{}, {f}, {Hard}}
        /\ readYAML(f, nothing).missing = {} <=> bundle[f].kind = "file"
    BY <1>1, ReadNames
  <2> QED
    BY <2>1, <2>2, <2>3
<1> QED
  BY <1>4, <1>5

\* What each reader misses.
LEMMA Missing ==
  ASSUME IInv, Gathered
  PROVE  /\ ResourceSlices.missing \in {{}, {"resourceslices"}, {Hard}}
         /\ ResourceSlices.missing = {} <=> "resourceslices" \notin lost
         /\ ClassifyNodes.missing \in {{"nodes"}, {Hard}, ResourceSlices.missing}
         /\ "nodes" \in lost => ClassifyNodes.missing \in {{"nodes"}, {Hard}}
         /\ "nodes" \notin lost => ClassifyNodes.missing = ResourceSlices.missing
         /\ NodeEvents.missing \in {{}, {"node_events"}, {Hard}}
         /\ NodeEvents.missing = {} <=> "node_events" \notin lost
         /\ ComputeDomains.missing \in {{}, {"compute_domains"}, {Hard}}
         /\ ComputeDomains.missing = {} <=> "compute_domains" \notin lost
         /\ ClusterPolicies.missing \in {{}, {"cluster_policy"}, {Hard}}
         /\ ClusterPolicies.missing = {} <=> "cluster_policy" \notin lost
         /\ "gpu_operand_pods" \in lost => Pods.missing \in {{"gpu_operand_pods"}, {Hard}}
         /\ "gpu_operand_pods" \notin lost => Pods.missing \in {{}, {"gpu_pods"}, {Hard}}
         /\ "gpu_operand_pods" \notin lost => (Pods.missing = {} <=> "gpu_pods" \notin lost)
<1>1. /\ {"nodes", "resourceslices", "gpu_pods", "node_events", "gpu_operand_pods"}
           \subseteq Files \ {"cluster_policy", "compute_domains"}
      /\ \A f \in Files : f # Hard
  BY FileNames
<1>2. /\ ResourceSlices.missing \in {{}, {"resourceslices"}, {Hard}}
      /\ ResourceSlices.missing = {} <=> "resourceslices" \notin lost
      /\ NodeEvents.missing \in {{}, {"node_events"}, {Hard}}
      /\ NodeEvents.missing = {} <=> "node_events" \notin lost
  BY <1>1, PlainRead DEF ResourceSlices, NodeEvents
<1>3. ClassifyNodes.missing = IF readYAML("nodes", <<>>).missing # {}
                                THEN readYAML("nodes", <<>>).missing ELSE ResourceSlices.missing
  BY DEF ClassifyNodes, Answer
<1>4. /\ "nodes" \in lost => ClassifyNodes.missing \in {{"nodes"}, {Hard}}
      /\ "nodes" \notin lost => ClassifyNodes.missing = ResourceSlices.missing
  <2>1. /\ readYAML("nodes", <<>>).missing \in {{}, {"nodes"}, {Hard}}
        /\ readYAML("nodes", <<>>).missing = {} <=> "nodes" \notin lost
    BY <1>1, PlainRead
  <2> QED
    BY <1>3, <2>1
<1>5. /\ ComputeDomains.missing \in {{}, {"compute_domains"}, {Hard}}
      /\ ComputeDomains.missing = {} <=> "compute_domains" \notin lost
  BY MarkedRead DEF ComputeDomains
<1>6. /\ ClusterPolicies.missing \in {{}, {"cluster_policy"}, {Hard}}
      /\ ClusterPolicies.missing = {} <=> "cluster_policy" \notin lost
  <2> DEFINE file == readYAML("cluster_policy", <<>>)
  <2>1. CASE file.missing = {}
    <3>1. ClusterPolicies.missing = {}
      BY <2>1 DEF ClusterPolicies, Answer
    <3>2. "cluster_policy" \notin lost
      BY <2>1, FileNames, ReadNames, LostIsGap DEF Gap
    <3> QED
      BY <3>1, <3>2
  <2>2. CASE file.missing # {}
    <3>1. ClusterPolicies = markerReason("cluster_policy", file)
      BY <2>2 DEF ClusterPolicies
    <3> QED
      BY <3>1, MarkedRead
  <2> QED
    BY <2>1, <2>2
<1>7. /\ "gpu_operand_pods" \in lost => Pods.missing \in {{"gpu_operand_pods"}, {Hard}}
      /\ "gpu_operand_pods" \notin lost => /\ Pods.missing \in {{}, {"gpu_pods"}, {Hard}}
                                           /\ Pods.missing = {} <=> "gpu_pods" \notin lost
  <2> DEFINE list == readYAML("gpu_operand_pods", {})
             gpuPods == readYAML("gpu_pods", {})
  <2>1. list.missing # {} => Pods = list
    BY DEF Pods
  <2>2. list.missing = {} => Pods.missing = gpuPods.missing
    BY DEF Pods, Answer
  <2>3. /\ list.missing \in {{}, {"gpu_operand_pods"}, {Hard}}
        /\ list.missing = {} <=> "gpu_operand_pods" \notin lost
        /\ gpuPods.missing \in {{}, {"gpu_pods"}, {Hard}}
        /\ gpuPods.missing = {} <=> "gpu_pods" \notin lost
    BY <1>1, PlainRead
  <2> QED
    BY <2>1, <2>2, <2>3
<1> QED
  BY <1>2, <1>4, <1>5, <1>6, <1>7

\* What a bundle does not hold is named when it is read back, and only that: for
\* every cluster and every harm (readYAML, markerReason, writeMissingMarker).
THEOREM GapsAreRead == BundleSpec => []GapIsReadAsGap
<1>1. ASSUME IInv, Gathered
      PROVE  /\ Replay.missing \ {Hard} \subseteq lost
             /\ Replay.ran => \A f \in lost :
                  f \in Replay.missing \/ (f = "gpu_pods" /\ "gpu_operand_pods" \in lost)
  <2>1. /\ Replay.missing = UNION {ClassifyNodes.missing, ResourceSlices.missing, Pods.missing,
                                   ClusterPolicies.missing, NodeEvents.missing,
                                   ComputeDomains.missing}
        /\ Replay.ran <=> Hard \notin Replay.missing
    BY DEF Replay
  <2>2. Replay.missing \ {Hard} \subseteq lost
    BY <1>1, <2>1, Missing
  <2>3. ASSUME Hard \notin Replay.missing, NEW f \in lost
        PROVE  f \in Replay.missing \/ (f = "gpu_pods" /\ "gpu_operand_pods" \in lost)
    <3>1. f \in Files
      BY <1>1 DEF IInv, FilesInv
    <3> QED
      BY <1>1, <2>1, <2>3, <3>1, FileNames, Missing
  <2> QED
    BY <2>1, <2>2, <2>3
<1>2. IInv => GapIsReadAsGap
  BY <1>1 DEF GapIsReadAsGap
<1>3. BundleInit => IInv
  BY InitIsGood
<1>4. IInv /\ [BundleNext]_bundleVars => IInv'
  BY StepKeeps
<1> QED
  BY <1>2, <1>3, <1>4, PTL DEF BundleSpec


-----------------------------------------------------------------------------
(* Two inputs that say the same. *)

\* The same node, but for the operands of the other namespace.
Twins(g, h) ==
  /\ Alike(g, h) /\ (g.hinted <=> h.hinted) /\ g.mode = h.mode
  /\ g.unschedulable = h.unschedulable /\ g.sentinel = h.sentinel
  /\ g.clique = h.clique /\ g.tiers = h.tiers
  /\ \A c : c \notin Outside => operandsFor(g, c) = operandsFor(h, c)
  /\ everyOperandDisabled(g) \/ (runsADeployGatedOperand(g) <=> runsADeployGatedOperand(h))

\* What one input has the other has too, but for the events.
Agree(in, on) ==
  /\ \A g \in everyNode(in) : \E h \in everyNode(on) : Twins(g, h)
  /\ \A g \in in.nodes : \E h \in on.nodes : Twins(g, h)
  /\ tiersInUse(in) = tiersInUse(on)
  /\ in.installed = on.installed /\ in.policies = on.policies /\ in.domains = on.domains

\* The operator targets both or neither.
LEMMA TwinsAreTargeted ==
  ASSUME NEW in, NEW on, Agree(in, on), NEW g, NEW h, Twins(g, h), Targeted(in, g)
  PROVE  Targeted(on, h)
<1>1. PolicyTolerations(in) = PolicyTolerations(on)
  BY SamePolicy DEF Agree
<1>2. everyOperandDisabled(g) <=> everyOperandDisabled(h)
  BY DEF everyOperandDisabled, Twins, Alike
<1>3. \A extra : everyOperandTaintedOff(g, extra) <=> everyOperandTaintedOff(h, extra)
  BY DEF everyOperandTaintedOff, Twins, Alike
<1> QED
  BY <1>1, <1>2, <1>3 DEF Targeted, OperatorTargets, Twins

\* The rules about what a Node object says.
LEMMA NodeRulesAgree ==
  ASSUME NEW in, NEW on, Agree(in, on)
  PROVE  /\ NodePCIWithoutGPULabel(in) \subseteq NodePCIWithoutGPULabel(on)
         /\ NodeNoAllocatableGPUs(in) \subseteq NodeNoAllocatableGPUs(on)
         /\ NodeAllocatableBelowCapacity(in) \subseteq NodeAllocatableBelowCapacity(on)
         /\ NodeCountDiffersFromCapacity(in) \subseteq NodeCountDiffersFromCapacity(on)
         /\ NodeConditionOrCordon(in) \subseteq NodeConditionOrCordon(on)
         /\ DevicePluginAndDRABoth(in) \subseteq DevicePluginAndDRABoth(on)
         /\ TopologyLabelsPartial(in) \subseteq TopologyLabelsPartial(on)
<1>1. NodePCIWithoutGPULabel(in) \subseteq NodePCIWithoutGPULabel(on)
  <2> SUFFICES ASSUME NEW g \in everyNode(in), in.installed, g.pci, ~g.present, Targeted(in, g)
               PROVE  Finding("NV-NODE-001", Warning, g.name, "node") \in NodePCIWithoutGPULabel(on)
    BY DEF NodePCIWithoutGPULabel
  <2>1. PICK h \in everyNode(on) : Twins(g, h)
    BY DEF Agree
  <2>2. Targeted(on, h) /\ on.installed /\ h.name = g.name /\ h.pci /\ ~h.present
    BY <2>1, TwinsAreTargeted DEF Agree, Twins, Alike
  <2> QED
    BY <2>2 DEF NodePCIWithoutGPULabel
<1>2. NodeNoAllocatableGPUs(in) \subseteq NodeNoAllocatableGPUs(on)
  <2> SUFFICES ASSUME NEW g \in everyNode(in), g.present, g.allocatable <= 0, g.mode # "dra",
                      ~isVirtualMachineWorkload(g), Targeted(in, g), ~isMixedMIG(g)
               PROVE  Finding("NV-NODE-002", Error, g.name, "node") \in NodeNoAllocatableGPUs(on)
    BY DEF NodeNoAllocatableGPUs
  <2>1. PICK h \in everyNode(on) : Twins(g, h)
    BY DEF Agree
  <2>2. Targeted(on, h) /\ h.name = g.name
    BY <2>1, TwinsAreTargeted DEF Twins, Alike
  <2>3. /\ h.present /\ h.allocatable <= 0 /\ h.mode # "dra"
        /\ ~isVirtualMachineWorkload(h) /\ ~isMixedMIG(h)
    BY <2>1 DEF Twins, Alike, isVirtualMachineWorkload, isMixedMIG
  <2> QED
    BY <2>2, <2>3 DEF NodeNoAllocatableGPUs
<1>3. NodeAllocatableBelowCapacity(in) \subseteq NodeAllocatableBelowCapacity(on)
  <2> SUFFICES ASSUME NEW g \in in.nodes, g.allocatable > 0, g.allocatable < g.capacity, Targeted(in, g)
               PROVE  Finding("NV-NODE-003", Warning, g.name, "node") \in NodeAllocatableBelowCapacity(on)
    BY DEF NodeAllocatableBelowCapacity
  <2>1. PICK h \in on.nodes : Twins(g, h)
    BY DEF Agree
  <2>2. Targeted(on, h) /\ h.name = g.name /\ h.allocatable > 0 /\ h.allocatable < h.capacity
    BY <2>1, TwinsAreTargeted DEF Twins, Alike
  <2> QED
    BY <2>2 DEF NodeAllocatableBelowCapacity
<1>4. NodeCountDiffersFromCapacity(in) \subseteq NodeCountDiffersFromCapacity(on)
  <2> SUFFICES ASSUME NEW g \in in.nodes, g.count > 0, ~isMixedMIG(g), g.mode # "dra", Targeted(in, g),
                      g.count * replicaFactor(g) # g.capacity
               PROVE  Finding("NV-NODE-004", Warning, g.name, "node") \in NodeCountDiffersFromCapacity(on)
    BY DEF NodeCountDiffersFromCapacity
  <2>1. PICK h \in on.nodes : Twins(g, h)
    BY DEF Agree
  <2>2. Targeted(on, h) /\ h.name = g.name /\ h.mode # "dra"
    BY <2>1, TwinsAreTargeted DEF Twins, Alike
  <2>3. h.count > 0 /\ ~isMixedMIG(h) /\ h.count * replicaFactor(h) # h.capacity
    BY <2>1 DEF Twins, Alike, isMixedMIG, replicaFactor
  <2> QED
    BY <2>2, <2>3 DEF NodeCountDiffersFromCapacity
<1>5. NodeConditionOrCordon(in) \subseteq NodeConditionOrCordon(on)
  <2> SUFFICES ASSUME NEW g \in in.nodes, g.sentinel \/ g.unschedulable
               PROVE  Finding("NV-NODE-005", Info, g.name, "node") \in NodeConditionOrCordon(on)
    BY DEF NodeConditionOrCordon
  <2>1. PICK h \in on.nodes : Twins(g, h)
    BY DEF Agree
  <2>2. h.name = g.name /\ (h.sentinel \/ h.unschedulable)
    BY <2>1 DEF Twins, Alike
  <2> QED
    BY <2>2 DEF NodeConditionOrCordon
<1>6. DevicePluginAndDRABoth(in) \subseteq DevicePluginAndDRABoth(on)
  <2> SUFFICES ASSUME NEW g \in in.nodes, g.mode = "both"
               PROVE  Finding("NV-DRA-001", Info, g.name, "node") \in DevicePluginAndDRABoth(on)
    BY DEF DevicePluginAndDRABoth
  <2>1. PICK h \in on.nodes : Twins(g, h)
    BY DEF Agree
  <2>2. h.name = g.name /\ h.mode = "both"
    BY <2>1 DEF Twins, Alike
  <2> QED
    BY <2>2 DEF DevicePluginAndDRABoth
<1>7. TopologyLabelsPartial(in) \subseteq TopologyLabelsPartial(on)
  <2> SUFFICES ASSUME NEW g \in in.nodes, ~(tiersInUse(in) \subseteq g.tiers)
               PROVE  Finding("NV-TOPO-001", Info, g.name, "node") \in TopologyLabelsPartial(on)
    BY DEF TopologyLabelsPartial
  <2>1. PICK h \in on.nodes : Twins(g, h)
    BY DEF Agree
  <2>2. h.name = g.name /\ ~(tiersInUse(on) \subseteq h.tiers)
    BY <2>1 DEF Twins, Alike, Agree
  <2> QED
    BY <2>2 DEF TopologyLabelsPartial
<1> QED
  BY <1>1, <1>2, <1>3, <1>4, <1>5, <1>6, <1>7

\* The rules about labels and policies.
LEMMA LabelRulesAgree ==
  ASSUME NEW in, NEW on, Agree(in, on)
  PROVE  /\ OperatorClusterPolicyNotReady(in) \subseteq OperatorClusterPolicyNotReady(on)
         /\ OperatorOperandDisabled(in) \subseteq OperatorOperandDisabled(on)
         /\ MIGConfigNotApplied(in) \subseteq MIGConfigNotApplied(on)
<1>1. OperatorClusterPolicyNotReady(in) \subseteq OperatorClusterPolicyNotReady(on)
  <2>1. in.policies = on.policies
    BY DEF Agree
  <2> QED
    BY <2>1 DEF OperatorClusterPolicyNotReady
<1>2. OperatorOperandDisabled(in) \subseteq OperatorOperandDisabled(on)
  <2> SUFFICES ASSUME NEW g \in everyNode(in), NEW key \in DOMAIN g.deploy, operandDisabledOn(g, key)
               PROVE  Finding("NV-OP-002", Info, g.name, key) \in OperatorOperandDisabled(on)
    BY DEF OperatorOperandDisabled
  <2>1. PICK h \in everyNode(on) : Twins(g, h)
    BY DEF Agree
  <2>2. h.name = g.name /\ key \in DOMAIN h.deploy /\ operandDisabledOn(h, key)
    BY <2>1 DEF Twins, Alike, operandDisabledOn
  <2> QED
    BY <2>2 DEF OperatorOperandDisabled
<1>3. MIGConfigNotApplied(in) \subseteq MIGConfigNotApplied(on)
  <2> DEFINE says(g) ==
        IF configFinding(g)
          THEN Finding("NV-MIG-001", IF g.configState = "failed" THEN Error ELSE Warning, g.name, "mig-manager")
          ELSE Finding("NV-MIG-001", Warning, g.name, "node")
  <2> SUFFICES ASSUME NEW g \in everyNode(in), ~isVirtualMachineWorkload(g), Targeted(in, g),
                      configFinding(g) \/ strategyFinding(g)
               PROVE  says(g) \in MIGConfigNotApplied(on)
    BY DEF MIGConfigNotApplied
  <2>1. PICK h \in everyNode(on) : Twins(g, h)
    BY DEF Agree
  <2>2. Targeted(on, h) /\ Alike(g, h)
    BY <2>1, TwinsAreTargeted DEF Twins
  <2>3. isMixedMIG(h) <=> isMixedMIG(g)
    BY <2>2 DEF Alike, isMixedMIG
  <2>4. strategyFinding(h) <=> strategyFinding(g)
    BY <2>2, <2>3, Zenon DEF Alike, strategyFinding
  <2>5. configFinding(h) <=> configFinding(g)
    BY <2>2, Zenon DEF Alike, configFinding
  <2>6. ~isVirtualMachineWorkload(h) /\ h.name = g.name /\ h.configState = g.configState
    BY <2>2 DEF Alike, isVirtualMachineWorkload
  <2>7. says(h) \in MIGConfigNotApplied(on)
    BY <2>2, <2>4, <2>5, <2>6 DEF MIGConfigNotApplied
  <2>8. says(h) = says(g)
    BY <2>5, <2>6
  <2> QED
    BY <2>7, <2>8
<1> QED
  BY <1>1, <1>2, <1>3

\* The rules about the operands of the operator's namespace.
LEMMA OperandRulesAgree ==
  ASSUME NEW in, NEW on, Agree(in, on)
  PROVE  /\ DriverPodNotReady(in) \subseteq DriverPodNotReady(on)
         /\ ToolkitValidationFailed(in) \subseteq ToolkitValidationFailed(on)
         /\ DevicePluginNotReady(in) \subseteq DevicePluginNotReady(on)
         /\ DCGMExporterNotReady(in) \subseteq DCGMExporterNotReady(on)
<1> DEFINE first(S) == (CHOOSE pod \in S : TRUE).ready
<1>1. \A g, c : ReadyOperand(g, c) <=> (operandsFor(g, c) # {} /\ first(operandsFor(g, c)))
  BY DEF ReadyOperand
<1>2. {"driver", "vgpu-manager", "validator", "device-plugin", "dcgm-exporter"} \cap Outside = {}
  BY DEF Outside
<1>3. /\ \A field : OperandEnabledInPolicy(in, field) <=> OperandEnabledInPolicy(on, field)
      /\ in.installed => on.installed
  BY SamePolicy DEF Agree
<1> HIDE DEF first
<1>4. ASSUME NEW g, NEW h, Twins(g, h), NEW c, c \notin Outside
      PROVE  /\ g.name = h.name /\ g.mode = h.mode /\ operandsFor(g, c) = operandsFor(h, c)
             /\ ReadyOperand(g, c) <=> ReadyOperand(h, c)
             /\ operandDisabledOn(g, c) <=> operandDisabledOn(h, c)
  BY <1>1, <1>4 DEF Twins, Alike, operandDisabledOn
<1>5. DriverPodNotReady(in) \subseteq DriverPodNotReady(on)
  <2> DEFINE faulty(g, pod) ==
               /\ pod.component \in {"driver", "vgpu-manager"}
               /\ ~operandDisabledOn(g, pod.component)
               /\ ~pod.ready \/ (pod.restarted /\ insideWindow(pod.died, DriverRestartWindow))
             says(g, pod) ==
               Finding("NV-DRV-001", IF midUpgrade(g) THEN Info ELSE Error, g.name, pod.component)
  <2> SUFFICES ASSUME NEW g \in everyNode(in), NEW pod \in g.operands, in.installed, faulty(g, pod)
               PROVE  says(g, pod) \in DriverPodNotReady(on)
    BY DEF DriverPodNotReady
  <2>1. PICK h \in everyNode(on) : Twins(g, h)
    BY DEF Agree
  <2>2. pod.component \notin Outside
    BY <1>2
  <2>3. g.name = h.name /\ pod \in h.operands /\ ~operandDisabledOn(h, pod.component)
    BY <1>4, <2>1, <2>2 DEF operandsFor
  <2>4. midUpgrade(g) <=> midUpgrade(h)
    BY <2>1 DEF Twins, Alike, midUpgrade
  <2>5. faulty(h, pod) /\ says(g, pod) = says(h, pod)
    BY <2>3, <2>4
  <2>6. says(h, pod) \in DriverPodNotReady(on)
    BY <1>3, <2>3, <2>5 DEF DriverPodNotReady
  <2> QED
    BY <2>5, <2>6
<1>6. ToolkitValidationFailed(in) \subseteq ToolkitValidationFailed(on)
  <2> DEFINE fails(pod) ==
        \E i \in DOMAIN pod.init :
          pod.init[i].name = "toolkit-validation" /\ toolkitFailure(pod.init[i].status)
  <2> SUFFICES ASSUME NEW g \in everyNode(in), in.installed,
                      NEW pod \in operandsFor(g, "validator"), fails(pod)
               PROVE  Finding("NV-CTK-001", Error, g.name, "container-toolkit")
                        \in ToolkitValidationFailed(on)
    BY DEF ToolkitValidationFailed
  <2>1. PICK h \in everyNode(on) : Twins(g, h)
    BY DEF Agree
  <2>2. pod \in operandsFor(h, "validator") /\ on.installed /\ g.name = h.name
    BY <1>2, <1>3, <1>4, <2>1
  <2> QED
    BY <2>2 DEF ToolkitValidationFailed
<1>7. DevicePluginNotReady(in) \subseteq DevicePluginNotReady(on)
  <2> SUFFICES ASSUME NEW g \in in.nodes, in.installed, OperandEnabledInPolicy(in, "devicePlugin"),
                      g.mode # "dra", ~operandDisabledOn(g, "device-plugin"),
                      ~ReadyOperand(g, "device-plugin")
               PROVE  Finding("NV-DP-001", Error, g.name, "device-plugin") \in DevicePluginNotReady(on)
    BY DEF DevicePluginNotReady
  <2>1. PICK h \in on.nodes : Twins(g, h)
    BY DEF Agree
  <2>2. /\ g.name = h.name /\ h.mode # "dra" /\ ~operandDisabledOn(h, "device-plugin")
        /\ ~ReadyOperand(h, "device-plugin")
    BY <1>2, <1>4, <2>1
  <2> QED
    BY <1>3, <2>2 DEF DevicePluginNotReady
<1>8. DCGMExporterNotReady(in) \subseteq DCGMExporterNotReady(on)
  <2> SUFFICES ASSUME NEW g \in in.nodes, in.installed, OperandEnabledInPolicy(in, "dcgmExporter"),
                      ~operandDisabledOn(g, "dcgm-exporter"), ~ReadyOperand(g, "dcgm-exporter")
               PROVE  Finding("NV-DCGM-001", Warning, g.name, "dcgm-exporter") \in DCGMExporterNotReady(on)
    BY DEF DCGMExporterNotReady
  <2>1. PICK h \in on.nodes : Twins(g, h)
    BY DEF Agree
  <2>2. g.name = h.name /\ ~operandDisabledOn(h, "dcgm-exporter") /\ ~ReadyOperand(h, "dcgm-exporter")
    BY <1>2, <1>4, <2>1
  <2> QED
    BY <1>3, <2>2 DEF DCGMExporterNotReady
<1> QED
  BY <1>5, <1>6, <1>7, <1>8

\* The domains, but for their daemons.
LEMMA DomainRuleAgrees ==
  ASSUME NEW in, NEW on, Agree(in, on), NEW f \in ComputeDomainNotReady(in), f.component # "imex-daemon"
  PROVE  f \in ComputeDomainNotReady(on)
<1> DEFINE says(n) == Finding("NV-CD-001", Info, n, "node")
<1>1. \A n : Finding("NV-CD-001", Info, n, "imex-daemon").component = "imex-daemon"
  BY DEF Finding
<1>2. PICK d \in in.domains, g \in in.nodes :
        g.name \in DOMAIN d /\ g.clique = "" /\ f = says(g.name)
  <2>1. PICK c \in in.domains \X in.nodes :
          c[2].name \in DOMAIN c[1] /\ c[2].clique = "" /\ f = says(c[2].name)
    BY <1>1, Zenon DEF ComputeDomainNotReady
  <2>2. c[1] \in in.domains /\ c[2] \in in.nodes
    OBVIOUS
  <2> QED
    BY <2>1, <2>2, Zenon
<1>3. PICK h \in on.nodes : Twins(g, h)
  BY DEF Agree
<1>4. d \in on.domains /\ h.name = g.name /\ h.clique = g.clique
  BY <1>3 DEF Agree, Twins, Alike
<1>5. h.clique = ""
  BY <1>2, <1>4, Zenon
<1>6. PICK c : c = <<d, h>>
  OBVIOUS
<1>7. c \in on.domains \X on.nodes /\ c[1] = d /\ c[2] = h
  BY <1>3, <1>4, <1>6
<1>8. /\ c[2].name \in DOMAIN c[1] /\ c[2].clique = "" /\ f = says(c[2].name)
  BY <1>2, <1>4, <1>5, <1>7, Zenon
<1> QED
  BY <1>7, <1>8, Zenon DEF ComputeDomainNotReady

\* The upgrades, over the same events.
LEMMA UpgradeRuleAgrees ==
  ASSUME NEW in, NEW on, Agree(in, on), in.events = on.events
  PROVE  UpgradeStuck(in) \subseteq UpgradeStuck(on)
<1> DEFINE says(i, g) ==
             \/ g.upgrade = UpgradeFailed
             \/ /\ g.upgrade \in upgradeStuckStates
                /\ enteredState(i, g) # {} => Elapsed(i, g) >= upgradeStuckAfter
           severity(i, g) ==
             IF g.upgrade = UpgradeFailed THEN Error ELSE IF enteredState(i, g) # {} THEN Warning ELSE Info
           finding(i, g) == Finding("NV-UPG-001", severity(i, g), g.name, "node")
<1>1. \A i : UpgradeStuck(i) = {finding(i, g) : g \in {h \in everyNode(i) : says(i, h)}}
  BY Zenon DEF UpgradeStuck
<1>2. ASSUME NEW g, NEW h, Twins(g, h)
      PROVE  (says(in, g) <=> says(on, h)) /\ finding(in, g) = finding(on, h)
  <2>1. g.name = h.name /\ g.upgrade = h.upgrade
    BY <1>2 DEF Twins, Alike
  <2>2. enteredState(in, g) = enteredState(on, h)
    BY <2>1 DEF enteredState
  <2>3. Elapsed(in, g) = Elapsed(on, h)
    BY <2>2, Zenon DEF Elapsed
  <2> QED
    BY <2>1, <2>2, <2>3
<1> HIDE DEF says, finding
<1> QED
  BY <1>1, <1>2 DEF Agree

\* What is found in one is found in the other.
LEMMA FindingsAgree ==
  ASSUME NEW in, NEW on, Agree(in, on), NEW f \in AllWith(in), f.component # "imex-daemon",
         f.code = "NV-UPG-001" => in.events = on.events
  PROVE  f \in AllWith(on)
<1>1. CASE f \in UNION {NodePCIWithoutGPULabel(in), NodeNoAllocatableGPUs(in), NodeAllocatableBelowCapacity(in),
                        NodeCountDiffersFromCapacity(in), NodeConditionOrCordon(in),
                        DevicePluginAndDRABoth(in), TopologyLabelsPartial(in)}
  BY <1>1, NodeRulesAgree DEF AllWith
<1>2. CASE f \in UNION {OperatorClusterPolicyNotReady(in), OperatorOperandDisabled(in), MIGConfigNotApplied(in)}
  BY <1>2, LabelRulesAgree DEF AllWith
<1>3. CASE f \in UNION {DriverPodNotReady(in), ToolkitValidationFailed(in), DevicePluginNotReady(in),
                        DCGMExporterNotReady(in)}
  BY <1>3, OperandRulesAgree DEF AllWith
<1>4. CASE f \in ComputeDomainNotReady(in)
  BY <1>4, DomainRuleAgrees DEF AllWith
<1>5. CASE f \in UpgradeStuck(in)
  <2>1. \A sev, n : Finding("NV-UPG-001", sev, n, "node").code = "NV-UPG-001"
    BY DEF Finding
  <2>2. f.code = "NV-UPG-001"
    BY <1>5, <2>1, Zenon DEF UpgradeStuck
  <2> QED
    BY <1>5, <2>2, UpgradeRuleAgrees DEF AllWith
<1> QED
  BY <1>1, <1>2, <1>3, <1>4, <1>5 DEF AllWith

-----------------------------------------------------------------------------
(* The cluster, and what a whole bundle of it holds. *)

\* The pods and the slices as the collectors write them, and the marker for nothing.
Spaced == {p \in pods : p.namespace = "gpu-operator"}
Projected == {projectGPUPod(p) : p \in {q \in pods : q.name \in Asking}}
Sliced == {n \in Nodes : node[n].slice}
None == Marker("not installed")

\* What stands under a name, when it is of the cluster as it is.  Of the events some
\* may have been dropped since, and of a list of policies nothing is said.
Recorded(f, what) ==
  /\ f = "nodes" => what = File(node)
  /\ f = "cluster_policy" /\ Len(policies) = 1 => what = File(policies[1])
  /\ f = "resourceslices" => what = File(Sliced)
  /\ f = "compute_domains" /\ domains = {} => what = None
  /\ f = "compute_domains" /\ domains # {} => what = File(domains)
  /\ f = "gpu_pods" => what = File(Projected)
  /\ f = "gpu_operand_pods" => what = File(Spaced)

\* A projection is the pod it is of, without its statuses.
LEMMA ProjectedIs ==
  ASSUME NEW p, PodOk(p)
  PROVE  LET q == projectGPUPod(p) IN
         /\ q.node = p.node /\ q.name = p.name /\ q.namespace = p.namespace
         /\ q.owner = p.owner /\ q.labels = p.labels
<1>1. DOMAIN p = {"node", "name", "owner", "labels", "namespace", "statuses", "init"}
  BY DEF PodOk
<1> QED
  BY <1>1 DEF projectGPUPod

\* The pods of a whole bundle: those of the operator's namespace are the pods of the
\* cluster, and the others are of the other namespace.
LEMMA MergedPods ==
  ASSUME PodInv
  PROVE  LET list == mergePods(Spaced, Projected) IN
         /\ \A p \in list : Named(p)
         /\ Spaced \subseteq list /\ Spaced \subseteq pods
         /\ \A p \in (list \cup pods) \ Spaced : p.name \in Outside
         /\ \A p \in list : \E q \in pods : q.name = p.name /\ q.node = p.node
         /\ \A p \in Spaced : p.name \notin Outside
         /\ \E q \in Spaced : q.name = "gpu-operator" /\ Label(q, "app") = "gpu-operator"
<1> DEFINE list == mergePods(Spaced, Projected)
<1>1. \A p \in pods : Named(p) /\ PodOk(p)
  BY ClusterPods DEF PodInv
<1>2. Spaced \subseteq list /\ Spaced \subseteq pods
  BY DEF mergePods, Spaced
<1>3. \A p \in pods : p \in Spaced <=> p.name \notin Outside
  BY <1>1 DEF Named, Spaced
<1>4. ASSUME NEW p \in list \ Spaced
      PROVE  /\ Named(p) /\ p.name \in Outside
             /\ \E q \in pods : q.name = p.name /\ q.node = p.node
  <2>1. p \in Projected /\ \A q \in Spaced : ~SamePod(p, q)
    BY DEF mergePods
  <2>2. PICK q \in pods : p = projectGPUPod(q)
    BY <2>1 DEF Projected
  <2>3. /\ p.node = q.node /\ p.name = q.name /\ p.namespace = q.namespace
        /\ p.owner = q.owner /\ p.labels = q.labels
    BY <1>1, <2>2, ProjectedIs
  <2>4. q \notin Spaced
    BY <2>1, <2>3 DEF SamePod
  <2> QED
    BY <1>1, <1>3, <2>3, <2>4 DEF Named
<1>5. \A p \in list : /\ Named(p)
                      /\ \E q \in pods : q.name = p.name /\ q.node = p.node
  <2> SUFFICES ASSUME NEW p \in list
               PROVE  Named(p) /\ \E q \in pods : q.name = p.name /\ q.node = p.node
    OBVIOUS
  <2>1. CASE p \in Spaced
    BY <1>1, <1>2, <2>1
  <2>2. CASE p \notin Spaced
    BY <1>4, <2>2
  <2> QED
    BY <2>1, <2>2
<1>6. \A p \in (list \cup pods) \ Spaced : p.name \in Outside
  BY <1>3, <1>4
<1>7. PICK q \in pods : q.name = "gpu-operator" /\ Label(q, "app") = "gpu-operator"
  BY ClusterPods
<1>8. q \in Spaced
  BY <1>3, <1>7 DEF Outside
<1> HIDE DEF list
<1>9. \A p \in Spaced : p.name \notin Outside
  BY <1>2, <1>3
<1> QED
  BY <1>2, <1>5, <1>6, <1>7, <1>8, <1>9 DEF list

\* A reading that a whole bundle gives, but for its events.
WholeReading(r) ==
  /\ r.nodes = node /\ r.slices = Sliced /\ r.policies = policies /\ r.domains = domains
  /\ r.pods \in {pods, mergePods(Spaced, Projected)}
  /\ r.operator = {p \in r.pods : Label(p, "app") = "gpu-operator"}

\* The operands of a node in such a reading: those of the operator's namespace, and
\* some of the other, which are there when their pods are.
LEMMA WholeOperands ==
  ASSUME ClusterInv, NEW list, list \in {pods, mergePods(Spaced, Projected)}, NEW n \in Nodes
  PROVE  /\ \A o \in operandsByNode(list)[n] :
              \/ \E p \in Spaced : p.node = n /\ o = operandFromPod(p) /\ o.component = p.name
              \/ o.component \in Outside /\ Runs(n, o.component)
         /\ \A p \in Spaced : p.node = n =>
              /\ operandFromPod(p) \in operandsByNode(list)[n]
              /\ operandFromPod(p).component = p.name /\ p.name \notin Outside
<1>1. PodInv
  BY DEF ClusterInv
<1>2. /\ \A p \in list : Named(p)
      /\ Spaced \subseteq list
      /\ \A p \in list \ Spaced : p.name \in Outside
      /\ \A p \in list : \E q \in pods : q.name = p.name /\ q.node = p.node
      /\ \A p \in Spaced : p.name \notin Outside
      /\ \E q \in list : q.name = "gpu-operator"
  BY <1>1, MergedPods, ClusterPods
<1>3. operandsByNode(list)[n] = {operandFromPod(p) : p \in {r \in list : r.node = n}}
  BY <1>2, AllOperands
<1>4. \A p \in list : operandFromPod(p).component = p.name
  BY <1>2, ComponentIs, OperandIs DEF Named
<1>5. ASSUME NEW o \in operandsByNode(list)[n]
      PROVE  \/ \E p \in Spaced : p.node = n /\ o = operandFromPod(p) /\ o.component = p.name
             \/ o.component \in Outside /\ Runs(n, o.component)
  <2>1. PICK p \in list : p.node = n /\ o = operandFromPod(p)
    BY <1>3
  <2> QED
    BY <1>2, <1>4, <2>1 DEF Runs
<1> QED
  BY <1>2, <1>3, <1>4, <1>5

\* A node of one such reading is the twin of the same node of another.
LEMMA NodesAreTwins ==
  ASSUME ClusterInv, NEW r, WholeReading(r), NEW s, WholeReading(s), NEW n \in Nodes
  PROVE  Twins(buildNode(r, n, operandsByNode(r.pods)[n]), buildNode(s, n, operandsByNode(s.pods)[n]))
<1> DEFINE A == operandsByNode(r.pods)[n]
           B == operandsByNode(s.pods)[n]
           g == buildNode(r, n, A)
           h == buildNode(s, n, B)
<1> SUFFICES Twins(g, h)
  OBVIOUS
<1>1. /\ r.nodes = node /\ s.nodes = node /\ r.slices = Sliced /\ s.slices = Sliced
      /\ r.pods \in {pods, mergePods(Spaced, Projected)} /\ s.pods \in {pods, mergePods(Spaced, Projected)}
  BY DEF WholeReading
<1>2. /\ \A o \in A : \/ \E p \in Spaced : p.node = n /\ o = operandFromPod(p) /\ o.component = p.name
                      \/ o.component \in Outside /\ Runs(n, o.component)
      /\ \A o \in B : \/ \E p \in Spaced : p.node = n /\ o = operandFromPod(p) /\ o.component = p.name
                      \/ o.component \in Outside /\ Runs(n, o.component)
      /\ \A p \in Spaced : p.node = n =>
           /\ operandFromPod(p) \in A /\ operandFromPod(p) \in B
           /\ operandFromPod(p).component = p.name /\ p.name \notin Outside
  BY <1>1, WholeOperands
<1>3. /\ byPlugin(r, n) <=> byPlugin(s, n)
      /\ bySlice(r, n) <=> bySlice(s, n)
  BY <1>1 DEF byPlugin, bySlice
<1>4. mode(r, n) = mode(s, n) /\ (isGPUNode(r, n) <=> isGPUNode(s, n))
  BY <1>3 DEF mode, isGPUNode
<1> HIDE DEF A, B
<1>5. Alike(g, h) /\ g.mode = h.mode
  BY <1>1, <1>4, BuiltNode DEF Alike
<1>6. g.hinted <=> h.hinted
  <2>1. g.hinted = ~isGPUNode(r, n) /\ h.hinted = ~isGPUNode(s, n)
    BY BuiltNode
  <2> QED
    BY <1>4, <2>1, Zenon
<1>7. /\ g.unschedulable = h.unschedulable /\ g.sentinel = h.sentinel
      /\ g.clique = h.clique /\ g.tiers = h.tiers
  BY <1>1 DEF buildNode
<1>8. g.operands = A /\ h.operands = B /\ g.deploy = node[n].deploy
  BY <1>1, BuiltNode
<1> HIDE DEF g, h
<1>9. \A c : c \notin Outside => operandsFor(g, c) = operandsFor(h, c)
  <2> SUFFICES ASSUME NEW c, c \notin Outside PROVE operandsFor(g, c) = operandsFor(h, c)
    OBVIOUS
  <2>1. \A o : o \in A /\ o.component = c <=> o \in B /\ o.component = c
    BY <1>2
  <2> QED
    BY <1>8, <2>1 DEF operandsFor
<1>10. CASE Runs(n, "dra-driver")
  <2>1. Runs(n, "validator") \/ AllOff(n)
    BY <1>10 DEF ClusterInv, RoleInv
  <2>2. CASE Runs(n, "validator")
    <3>1. PICK p \in pods : p.node = n /\ p.name = "validator"
      BY <2>2 DEF Runs
    <3>2. p \in Spaced
      BY <3>1, ClusterPods DEF ClusterInv, Spaced, Named, Outside
    <3>3. operandFromPod(p) \in A /\ operandFromPod(p) \in B /\ operandFromPod(p).component = "validator"
      BY <1>2, <3>1, <3>2
    <3> QED
      BY <1>5, <1>6, <1>7, <1>8, <1>9, <3>3 DEF Twins, runsADeployGatedOperand, deployGatedComponents
  <2>3. CASE AllOff(n)
    <3>1. everyOperandDisabled(g)
      BY <1>8, <2>3 DEF everyOperandDisabled, AllOff, ClusterInv, NodeInv, NodeOk, DeployKeys
    <3> QED
      BY <1>5, <1>6, <1>7, <1>9, <3>1 DEF Twins
  <2> QED
    BY <2>1, <2>2, <2>3
<1>11. CASE ~Runs(n, "dra-driver")
  <2>1. \A c \in deployGatedComponents : c = "dra-driver" \/ c \notin Outside
    BY DEF deployGatedComponents, Outside
  <2>2. \A o : o.component \in deployGatedComponents => (o \in A <=> o \in B)
    BY <1>2, <1>11, <2>1
  <2>3. runsADeployGatedOperand(g) <=> runsADeployGatedOperand(h)
    BY <1>8, <2>2 DEF runsADeployGatedOperand
  <2> QED
    BY <1>5, <1>6, <1>7, <1>9, <2>3 DEF Twins
<1> QED
  BY <1>10, <1>11

\* Two such readings give inputs that agree.
LEMMA ReadingsAgree ==
  ASSUME ClusterInv, NEW r, WholeReading(r), NEW s, WholeReading(s)
  PROVE  Agree(Input(r), Input(s))
<1> DEFINE built(q) == {buildNode(q, n, operandsByNode(q.pods)[n]) : n \in Nodes}
           in == Input(r)
           on == Input(s)
<1>1. ASSUME NEW q, WholeReading(q)
      PROVE  /\ everyNode(Input(q)) = built(q)
             /\ Input(q).nodes = {g \in built(q) : ~g.hinted}
             /\ Input(q).policies = policies /\ Input(q).domains = domains
             /\ Input(q).installed = TRUE
  <2>1. q.nodes = node /\ q.policies = policies /\ q.domains = domains
    BY <1>1 DEF WholeReading
  <2>2. everyNode(Input(q)) = built(q)
    BY <2>1, EveryNodeIsBuilt DEF ClusterInv
  <2>3. q.operator # {}
    <3>1. Spaced \subseteq q.pods /\ \E p \in Spaced : Label(p, "app") = "gpu-operator"
      BY <1>1, MergedPods DEF WholeReading, ClusterInv
    <3> QED
      BY <1>1, <3>1 DEF WholeReading
  <2>4. /\ Input(q).nodes = {g \in BuildWithHinted(q) : ~g.hinted}
        /\ Input(q).hinted = {g \in BuildWithHinted(q) : g.hinted}
        /\ Input(q).policies = q.policies /\ Input(q).domains = q.domains
        /\ Input(q).installed = (q.operator # {})
    BY DEF Input
  <2>5. everyNode(Input(q)) = BuildWithHinted(q)
    BY <2>4 DEF everyNode
  <2> HIDE DEF built
  <2> QED
    BY <2>1, <2>2, <2>3, <2>4, <2>5
<1>2. /\ \A g \in built(r) : \E h \in built(s) : Twins(g, h)
      /\ \A h \in built(s) : \E g \in built(r) : Twins(g, h)
  BY NodesAreTwins
<1>3. /\ everyNode(in) = built(r) /\ in.nodes = {g \in built(r) : ~g.hinted}
      /\ everyNode(on) = built(s) /\ on.nodes = {g \in built(s) : ~g.hinted}
      /\ in.policies = on.policies /\ in.domains = on.domains /\ in.installed = on.installed
  BY <1>1
<1> HIDE DEF built, in, on
<1>4. /\ \A g \in in.nodes : \E h \in on.nodes : Twins(g, h)
      /\ \A h \in on.nodes : \E g \in in.nodes : Twins(g, h)
  BY <1>2, <1>3 DEF Twins
<1>5. tiersInUse(in) = tiersInUse(on)
  BY <1>4 DEF tiersInUse, Twins
<1>6. Agree(in, on)
  BY <1>2, <1>3, <1>4, <1>5 DEF Agree
<1> QED
  BY <1>6 DEF in, on

-----------------------------------------------------------------------------
(* A gather of a cluster that does not change meanwhile. *)

\* What has been gathered since the cluster last changed is as the cluster is.
SteadyInv ==
  /\ began.changes \in Nat /\ began.changes <= changes
  /\ todo = Registry => prepared = <<>>
  /\ changes = began.changes =>
       /\ prepared \in {<<>>, <<Spaced>>}
       /\ \A f \in Files : \/ Pending(f) \/ f \in lost \/ (f = "resourceslices" /\ hollow)
                           \/ Recorded(f, bundle[f])

\* When the gather has not begun every collector is to run.
LEMMA AllArePending ==
  ASSUME todo = Registry
  PROVE  \A f \in Files \cup {"operator_pod"} : Pending(f)
BY FileNames DEF Pending, Registry

\* What is of the cluster stays so as long as the cluster stays.
LEMMA RecordStays ==
  ASSUME node' = node, pods' = pods, policies' = policies, domains' = domains
  PROVE  /\ Spaced' = Spaced
         /\ \A g, what : Recorded(g, what)' <=> Recorded(g, what)
<1>1. Spaced' = Spaced /\ Sliced' = Sliced
  BY DEF Spaced, Sliced
<1>2. Projected' = Projected
  BY Zenon DEF Projected
<1>3. ASSUME NEW g, NEW what
      PROVE  Recorded(g, what)' <=> Recorded(g, what)
  BY <1>1, <1>2, Zenon DEF Recorded
<1> QED
  BY <1>1, <1>3, Zenon

\* A collector that ran keeps it, if what it leaves is of the cluster as it is.
LEMMA CollectSteady ==
  ASSUME IInv, SteadyInv, NEW f \in Files \cup {"operator_pod"}, Collect(f),
         \A g \in Files \ {f} : bundle'[g] = bundle[g],
         lost \subseteq lost',
         f # "resourceslices" => hollow' = hollow,
         changes = began.changes => prepared' \in {<<>>, <<Spaced>>},
         (changes = began.changes /\ f \in Files) =>
           f \in lost' \/ (f = "resourceslices" /\ hollow') \/ Recorded(f, bundle'[f])
  PROVE  SteadyInv'
<1>1. /\ ~Pending(f)' /\ \A g : g # f => (Pending(g)' <=> Pending(g))
  BY TodoMoves DEF IInv
<1>2. todo' # Registry
  <2>1. todo' = Registry => Pending(f)'
    BY FileNames DEF Pending, Registry
  <2> QED
    BY <1>1, <2>1
<1>3. /\ changes' = changes /\ began' = began
      /\ node' = node /\ pods' = pods /\ policies' = policies /\ domains' = domains
  BY DEF Collect, vars, objects
<1>4. /\ Spaced' = Spaced
      /\ \A g, what : Recorded(g, what)' <=> Recorded(g, what)
  BY <1>3, RecordStays
<1>5. ASSUME changes = began.changes, NEW g \in Files
      PROVE  \/ Pending(g)' \/ g \in lost' \/ (g = "resourceslices" /\ hollow')
             \/ Recorded(g, bundle'[g])
  <2>1. CASE g = f
    BY <1>5, <2>1
  <2>2. CASE g # f
    <3>1. Pending(g) \/ g \in lost \/ (g = "resourceslices" /\ hollow) \/ Recorded(g, bundle[g])
      BY <1>5 DEF SteadyInv
    <3>2. bundle'[g] = bundle[g] /\ (Pending(g)' <=> Pending(g))
      BY <1>1, <2>2
    <3> QED
      BY <2>2, <3>1, <3>2
  <2> QED
    BY <2>1, <2>2
<1> QED
  BY <1>2, <1>3, <1>4, <1>5 DEF SteadyInv

\* What a collector writes is under its name alone.
LEMMA WritesItsFile ==
  ASSUME IInv, NEW f, NEW what, Write(f, what)
  PROVE  (\A g \in Files \ {f} : bundle'[g] = bundle[g]) /\ (f \in Files => bundle'[f] = what)
<1>1. bundle = [g \in Files |-> bundle[g]] /\ bundle' = [bundle EXCEPT ![f] = what]
  BY DEF IInv, FilesInv, Write
<1> QED
  BY <1>1

\* The collectors that end in an error.
LEMMA OrFailSteady ==
  ASSUME IInv, SteadyInv, NEW f \in Files, f # "resourceslices", NEW content,
         gatherOrFail(f, content), Recorded(f, File(content))
  PROVE  SteadyInv'
<1>1. PICK reply \in {"ok"} \cup Faults :
        /\ Answers(f, reply)
        /\ IF reply = "ok" THEN Write(f, File(content)) ELSE UNCHANGED bundle
  BY DEF gatherOrFail
<1>2. Collect(f) /\ prepared' = prepared /\ hollow' = hollow
  BY DEF gatherOrFail
<1>3. lost \subseteq lost' /\ (reply \in Faults => f \in lost')
  BY <1>1 DEF Answers
<1>4. changes = began.changes => prepared' \in {<<>>, <<Spaced>>}
  BY <1>2 DEF SteadyInv
<1>5. \A g \in Files \ {f} : bundle'[g] = bundle[g]
  BY <1>1, WritesItsFile
<1>6. f \in lost' \/ Recorded(f, bundle'[f])
  BY <1>1, <1>3, WritesItsFile
<1> QED
  BY <1>2, <1>3, <1>4, <1>5, <1>6, CollectSteady

\* The collectors that mark.
LEMMA OrMarkSteady ==
  ASSUME IInv, SteadyInv, NEW f \in {"cluster_policy", "compute_domains"},
         NEW none \in BOOLEAN, NEW content, gatherOrMark(f, none, content),
         none => Recorded(f, None), ~none => Recorded(f, File(content))
  PROVE  SteadyInv'
<1>1. PICK reply \in {"ok"} \cup Faults \cup (IF none THEN {"notserved"} ELSE {}) :
        /\ Answers(f, reply)
        /\ Write(f, CASE reply = "ok" /\ ~none -> File(content)
                      [] reply = "ok" /\ none -> None
                      [] reply = "notserved" -> None
                      [] OTHER -> Marker(reply))
  BY Zenon DEF gatherOrMark, None
<1>2. Collect(f) /\ prepared' = prepared /\ hollow' = hollow /\ f \in Files /\ f # "resourceslices"
  <2>1. Collect(f) /\ UNCHANGED <<prepared, hollow>>
    BY Zenon DEF gatherOrMark
  <2> QED
    BY <2>1, FileNames
<1>3. lost \subseteq lost' /\ (reply \in Faults => f \in lost')
  BY <1>1 DEF Answers
<1>4. changes = began.changes => prepared' \in {<<>>, <<Spaced>>}
  BY <1>2 DEF SteadyInv
<1>5. \A g \in Files \ {f} : bundle'[g] = bundle[g]
  BY <1>1, WritesItsFile
<1>6. CASE reply \in Faults
  BY <1>2, <1>3, <1>4, <1>5, <1>6, CollectSteady
<1>7. CASE reply \notin Faults
  <2>1. (none => Write(f, None)) /\ (~none => Write(f, File(content)))
    BY <1>1, <1>7
  <2>2. Recorded(f, bundle'[f])
    BY <1>2, <2>1, WritesItsFile
  <2> QED
    BY <1>2, <1>3, <1>4, <1>5, <2>2, CollectSteady
<1> QED
  BY <1>6, <1>7

\* The slices.
LEMMA SlicesSteady ==
  ASSUME IInv, SteadyInv, gatherResourceSlices
  PROVE  SteadyInv'
<1> DEFINE f == "resourceslices"
<1>1. PICK reply \in {"ok", "older"} \cup Faults \cup (IF Sliced = {} THEN {"notserved"} ELSE {}) :
        /\ Answers(f, reply)
        /\ hollow' = (reply = "older")
        /\ CASE reply = "ok" -> Write(f, File(Sliced))
             [] reply \in {"older", "notserved"} -> Write(f, File({}))
             [] OTHER -> UNCHANGED bundle
  BY DEF gatherResourceSlices, Sliced
<1>2. Collect(f) /\ prepared' = prepared /\ f \in Files
  BY FileNames DEF gatherResourceSlices
<1>3. lost \subseteq lost' /\ (reply \in Faults => f \in lost')
  BY <1>1 DEF Answers
<1>4. changes = began.changes => prepared' \in {<<>>, <<Spaced>>}
  BY <1>2 DEF SteadyInv
<1>5. CASE reply \in Faults
  <2>1. bundle' = bundle
    BY <1>1, <1>5 DEF Faults
  <2> QED
    BY <1>2, <1>3, <1>4, <1>5, <2>1, CollectSteady
<1>6. CASE reply = "older"
  <2>1. hollow' /\ Write(f, File({}))
    BY <1>1, <1>6
  <2> QED
    BY <1>2, <1>3, <1>4, <2>1, WritesItsFile, CollectSteady
<1>7. CASE reply \in {"ok", "notserved"} /\ reply \notin Faults
  <2>1. Write(f, File(Sliced))
    BY <1>1, <1>7
  <2>2. bundle'[f] = File(Sliced) /\ \A g \in Files \ {f} : bundle'[g] = bundle[g]
    BY <1>2, <2>1, WritesItsFile
  <2>3. Recorded(f, bundle'[f])
    BY <2>2 DEF Recorded
  <2> QED
    BY <1>2, <1>3, <1>4, <2>2, <2>3, CollectSteady
<1> QED
  BY <1>1, <1>5, <1>6, <1>7

\* The pods that prepareState may have listed are those of the operator's namespace.
LEMMA PreparedIs ==
  ASSUME PodInv, SteadyInv, prepared' \in prepareState, changes = began.changes
  PROVE  prepared' \in {<<>>, <<Spaced>>}
<1> DEFINE space == (CHOOSE q \in operatorPods : TRUE).namespace
<1>1. prepared \in {<<>>, <<Spaced>>}
  BY DEF SteadyInv
<1>2. prepared' \in {prepared} \cup (IF operatorPods = {} THEN {} ELSE {<<{p \in pods : p.namespace = space}>>})
  BY DEF prepareState
<1>3. CASE operatorPods = {}
  BY <1>1, <1>2, <1>3
<1>4. CASE operatorPods # {}
  <2>1. \A q \in operatorPods : q \in pods /\ q.name = "gpu-operator" /\ Named(q)
    BY ClusterPods, ComponentIs DEF operatorPods, Named
  <2>2. \A q \in operatorPods : q.namespace = "gpu-operator"
    BY <2>1 DEF Named, Outside
  <2>3. space = "gpu-operator"
    BY <1>4, <2>2
  <2> HIDE DEF space
  <2>4. {p \in pods : p.namespace = space} = Spaced
    BY <2>3 DEF Spaced
  <2> QED
    BY <1>1, <1>2, <2>4
<1> QED
  BY <1>3, <1>4

\* The operator and its operands.
LEMMA OperandsSteady ==
  ASSUME IInv, SteadyInv, PodInv, gatherOperatorPod \/ gatherOperandPods
  PROVE  SteadyInv'
<1>1. CASE gatherOperatorPod
  <2>1. /\ Collect("operator_pod") /\ prepared' \in prepareState
        /\ bundle' = bundle /\ lost' = lost /\ hollow' = hollow
    BY <1>1, Zenon DEF gatherOperatorPod
  <2>2. changes = began.changes => prepared' \in {<<>>, <<Spaced>>}
    BY <2>1, PreparedIs
  <2> QED
    BY <2>1, <2>2, FileNames, CollectSteady
<1>2. CASE gatherOperandPods
  <2> DEFINE f == "gpu_operand_pods"
  <2>1. /\ Collect(f) /\ prepared' \in prepareState /\ hollow' = hollow
        /\ Answers(f, IF prepared' = <<>> THEN "failed" ELSE "ok")
        /\ IF prepared' = <<>> THEN UNCHANGED bundle ELSE Write(f, File(prepared'[1]))
    BY <1>2, Zenon DEF gatherOperandPods
  <2>2. changes = began.changes => prepared' \in {<<>>, <<Spaced>>}
    BY <2>1, PreparedIs
  <2>3. f \in Files /\ f # "resourceslices"
    BY FileNames
  <2>4. lost \subseteq lost' /\ (prepared' = <<>> => f \in lost')
    BY <2>1 DEF Answers, Faults
  <2>5. CASE prepared' = <<>>
    <3>1. bundle' = bundle
      BY <2>1, <2>5
    <3> QED
      BY <2>1, <2>2, <2>3, <2>4, <2>5, <3>1, CollectSteady
  <2>6. CASE prepared' # <<>>
    <3>1. PICK content : content = prepared'[1]
      OBVIOUS
    <3>2. Write(f, File(content))
      BY <2>1, <2>6, <3>1
    <3>3. bundle'[f] = File(content) /\ \A g \in Files \ {f} : bundle'[g] = bundle[g]
      BY <2>3, <3>2, WritesItsFile
    <3>4. changes = began.changes => content = Spaced
      BY <2>2, <2>6, <3>1
    <3>5. changes = began.changes => Recorded(f, bundle'[f])
      BY <3>3, <3>4 DEF Recorded
    <3> QED
      BY <2>1, <2>2, <2>3, <2>4, <3>3, <3>5, CollectSteady
  <2> QED
    BY <2>5, <2>6
<1> QED
  BY <1>1, <1>2

\* A step of the cluster is a change, or time passes.
LEMMA ChangeOrTick ==
  ASSUME Next
  PROVE  \/ changes' = changes + 1
         \/ UNCHANGED <<changes, node, pods, policies, domains>>
<1>1. CASE Tick
  BY <1>1, Zenon DEF Tick
<1>2. CASE DisableOperand \/ PolicyChanges
  BY <1>2, Zenon DEF DisableOperand, PolicyChanges, Change
<1>3. ASSUME NEW n \in Changing,
             \/ DriverFails(n) \/ ToolkitFails(n) \/ PluginStops(n) \/ DeviceUnhealthy(n)
             \/ ImexFails(n) \/ SliceWithdrawn(n) \/ ReconfigureFails(n) \/ Unlabel(n)
      PROVE  changes' = changes + 1
  BY <1>3, Zenon DEF DriverFails, ToolkitFails, PluginStops, DeviceUnhealthy, ImexFails,
                     SliceWithdrawn, ReconfigureFails, Unlabel, Change
<1>4. ASSUME NEW n \in Changing,
             \/ PublishSlice(n) \/ RetirePlugin(n) \/ Repartition(n) \/ Share(n) \/ Pause(n)
             \/ Relabel(n) \/ JoinDomain(n) \/ \E state : UpgradeStep(n, state)
      PROVE  changes' = changes + 1
  BY <1>4, Zenon DEF PublishSlice, RetirePlugin, Repartition, Share, Pause, Relabel, JoinDomain,
                     UpgradeStep, Change
<1> QED
  BY <1>1, <1>2, <1>3, <1>4, Zenon DEF Next

\* The cluster changes, and nothing is claimed any more; or time passes.
LEMMA ClusterSteady ==
  ASSUME SteadyInv, changes \in Nat, ClusterStep
  PROVE  SteadyInv'
<1>1. /\ Next /\ UNCHANGED <<todo, prepared, bundle, lost, hollow>>
      /\ began' = IF todo = Registry THEN [changes |-> changes', at |-> now'] ELSE began
  BY Zenon DEF ClusterStep
<1>2. \/ changes' = changes + 1
      \/ UNCHANGED <<changes, node, pods, policies, domains>>
  BY <1>1, ChangeOrTick
<1>3. CASE todo = Registry
  <2>1. began'.changes = changes' /\ prepared' = <<>> /\ todo' = Registry
    BY <1>1, <1>3 DEF SteadyInv
  <2>2. \A f \in Files : Pending(f)'
    BY <2>1, FileNames DEF Pending, Registry
  <2>3. changes' \in Nat
    BY <1>2
  <2> QED
    BY <2>1, <2>2, <2>3 DEF SteadyInv
<1>4. CASE todo # Registry /\ changes' = changes + 1
  <2>1. began' = began /\ todo' # Registry
    BY <1>1, <1>4
  <2>2. began.changes \in Nat /\ began.changes <= changes
    BY DEF SteadyInv
  <2>3. changes' # began'.changes /\ began'.changes <= changes'
    BY <1>4, <2>1, <2>2
  <2> QED
    BY <2>1, <2>2, <2>3 DEF SteadyInv
<1>5. CASE todo # Registry /\ UNCHANGED <<changes, node, pods, policies, domains>>
  <2>1. began' = began /\ UNCHANGED <<todo, prepared, bundle, lost, hollow, changes>>
    BY <1>1, <1>5
  <2>2. Spaced' = Spaced /\ \A g, what : Recorded(g, what)' <=> Recorded(g, what)
    BY <1>5, RecordStays
  <2> QED
    BY <2>1, <2>2 DEF SteadyInv, Pending
<1> QED
  BY <1>2, <1>3, <1>4, <1>5

\* Every step keeps it.
LEMMA SteadyKept ==
  ASSUME IInv, SteadyInv, ClusterInv, [BundleNext]_bundleVars
  PROVE  SteadyInv' /\ ClusterInv'
<1>1. ClusterInv'
  <2>1. [Next]_vars
    BY Zenon DEF BundleNext, bundleVars, gatherNodeInfo, gatherGPUPods, gatherNodeEvents, gatherOrFail,
       gatherClusterPolicy, gatherComputeDomains, gatherOrMark, gatherResourceSlices,
       gatherOperatorPod, gatherOperandPods, Collect, Damage, ClusterStep
  <2> QED
    BY <2>1, ClusterKept
<1> SUFFICES SteadyInv'
  BY <1>1
<1>2. CASE gatherNodeInfo \/ gatherGPUPods \/ gatherNodeEvents
  <2>1. CASE gatherNodeInfo
    <3>1. Recorded("nodes", File(node))
      BY DEF Recorded
    <3> QED
      BY <2>1, <3>1, FileNames, OrFailSteady DEF gatherNodeInfo
  <2>2. CASE gatherGPUPods
    <3>1. Recorded("gpu_pods", File(Projected))
      BY DEF Recorded
    <3>2. gatherOrFail("gpu_pods", Projected)
      BY <2>2, Zenon DEF gatherGPUPods, Projected
    <3> QED
      BY <3>1, <3>2, FileNames, OrFailSteady
  <2>3. CASE gatherNodeEvents
    <3>1. Recorded("node_events", File(events))
      BY DEF Recorded
    <3> QED
      BY <2>3, <3>1, FileNames, OrFailSteady DEF gatherNodeEvents
  <2> QED
    BY <1>2, <2>1, <2>2, <2>3
<1>3. CASE gatherClusterPolicy
  <2>1. policies # <<>>
    BY DEF ClusterInv, PolicyInv
  <2> DEFINE content == IF Len(policies) = 1 THEN policies[1] ELSE [items |-> policies]
  <2>2. gatherOrMark("cluster_policy", policies = <<>>, content)
    BY <1>3, Zenon DEF gatherClusterPolicy
  <2>3. Len(policies) = 1 => content = policies[1]
    OBVIOUS
  <2> HIDE DEF content
  <2>4. Recorded("cluster_policy", File(content))
    BY <2>3 DEF Recorded
  <2> QED
    BY <2>1, <2>2, <2>4, OrMarkSteady
<1>4. CASE gatherComputeDomains
  <2>1. gatherOrMark("compute_domains", domains = {}, domains)
    BY <1>4, Zenon DEF gatherComputeDomains
  <2>2. /\ domains = {} => Recorded("compute_domains", None)
        /\ domains # {} => Recorded("compute_domains", File(domains))
    BY DEF Recorded
  <2> QED
    BY <2>1, <2>2, OrMarkSteady
<1>5. CASE gatherResourceSlices
  BY <1>5, SlicesSteady
<1>6. CASE gatherOperatorPod \/ gatherOperandPods
  BY <1>6, OperandsSteady DEF ClusterInv
<1>7. ASSUME NEW f \in Files, Damage(f) PROVE SteadyInv'
  <2>1. /\ todo = <<>> /\ lost' = lost \cup {f} /\ UNCHANGED <<vars, todo, prepared, hollow, began>>
        /\ \E kind : Write(f, [kind |-> kind])
    BY <1>7, Zenon DEF Damage
  <2>2. /\ changes' = changes /\ node' = node /\ pods' = pods /\ policies' = policies
        /\ domains' = domains
    BY <2>1 DEF vars, objects
  <2>3. \A g \in Files \ {f} : bundle'[g] = bundle[g]
    BY <2>1, WritesItsFile
  <2>4. Spaced' = Spaced /\ \A g, what : Recorded(g, what)' <=> Recorded(g, what)
    BY <2>2, RecordStays
  <2>5. \A g : ~Pending(g)
    BY <2>1 DEF Pending
  <2>6. ASSUME changes = began.changes, NEW g \in Files
        PROVE  g \in lost' \/ (g = "resourceslices" /\ hollow') \/ Recorded(g, bundle'[g])
    BY <2>1, <2>3, <2>5, <2>6 DEF SteadyInv
  <2> QED
    BY <2>1, <2>2, <2>4, <2>6 DEF SteadyInv
<1>8. CASE ClusterStep
  BY <1>8, ClusterSteady DEF ClusterInv, EventInv
<1>9. CASE UNCHANGED bundleVars
  <2>1. UNCHANGED <<node, pods, policies, domains, changes, todo, prepared, bundle, lost, hollow, began>>
    BY <1>9 DEF bundleVars, vars, objects, gather
  <2>2. Spaced' = Spaced /\ \A g, what : Recorded(g, what)' <=> Recorded(g, what)
    BY <2>1, RecordStays
  <2> QED
    BY <2>1, <2>2 DEF SteadyInv, Pending
<1> QED
  BY <1>2, <1>3, <1>4, <1>5, <1>6, <1>7, <1>8, <1>9, Zenon DEF BundleNext

-----------------------------------------------------------------------------
(* The reading of a whole bundle. *)

\* What a file holds is what is read.
LEMMA ReadFile ==
  ASSUME NEW f, NEW content, bundle[f] = File(content), NEW nothing
  PROVE  readYAML(f, nothing).got = content /\ readYAML(f, nothing).missing = {}
<1>1. bundle[f].kind = "file" /\ bundle[f].content = content
  BY DEF File
<1>2. readYAML(f, nothing) = Answer(content, {})
  BY <1>1, Zenon DEF readYAML
<1> QED
  BY <1>2 DEF Answer

\* One policy is read back as it is.
LEMMA ReadPolicy ==
  ASSUME PolicyInv, Len(policies) = 1, bundle["cluster_policy"] = File(policies[1])
  PROVE  ClusterPolicies.got = policies
<1>1. PICK state \in {"ready", "notReady"}, off \in SUBSET Operands : policies = <<Own(state, off)>>
  BY DEF PolicyInv
<1>2. policies[1] = Own(state, off) /\ policies = <<policies[1]>>
  BY <1>1
<1>3. DOMAIN Own(state, off) = {"name", "state", "off", "tolerations"}
  BY DEF Own
<1>4. "items" \notin DOMAIN policies[1]
  BY <1>2, <1>3
<1>5. /\ readYAML("cluster_policy", <<>>).got = policies[1]
      /\ readYAML("cluster_policy", <<>>).missing = {}
  BY ReadFile
<1>6. ClusterPolicies = Answer(<<policies[1]>>, {})
  BY <1>4, <1>5, Zenon DEF ClusterPolicies
<1>7. ClusterPolicies.got = <<policies[1]>>
  BY <1>6 DEF Answer
<1> QED
  BY <1>2, <1>7

\* No domains are read back as none.
LEMMA ReadDomains ==
  ASSUME \/ domains = {} /\ bundle["compute_domains"] = None
         \/ bundle["compute_domains"] = File(domains)
  PROVE  ComputeDomains.got = domains
<1> DEFINE f == "compute_domains"
<1>1. CASE bundle[f] = File(domains)
  <2>1. bundle[f].kind = "file"
    BY <1>1 DEF File
  <2>2. ComputeDomains = readYAML(f, {})
    BY <2>1 DEF ComputeDomains, markerReason
  <2> QED
    BY <1>1, <2>2, ReadFile
<1>2. CASE domains = {} /\ bundle[f] = None
  <2>1. bundle[f].kind = "marker" /\ bundle[f].reason = "not installed"
    <3>1. \A reason : Marker(reason).kind = "marker" /\ Marker(reason).reason = reason
      BY DEF Marker
    <3> QED
      BY <1>2, <3>1, Zenon DEF None
  <2>2. readYAML(f, {}) = Answer({}, {f})
    <3>1. bundle[f].kind = "marker"
      BY <2>1, Zenon
    <3>2. bundle[f].kind # "file" /\ bundle[f].kind # "unsafe"
      BY <3>1, Zenon
    <3> QED
      BY <3>2, Zenon DEF readYAML
  <2>3. ComputeDomains = [Answer({}, {f}) EXCEPT !.missing = {}]
    BY <2>1, <2>2, Zenon DEF ComputeDomains, markerReason
  <2>4. [Answer({}, {f}) EXCEPT !.missing = {}].got = {}
    BY DEF Answer
  <2> QED
    BY <1>2, <2>3, <2>4
<1> QED
  BY <1>1, <1>2

\* Both readings are whole.
LEMMA BothAreWhole ==
  ASSUME IInv, SteadyInv, ClusterInv, Whole, changes = began.changes, Len(policies) = 1
  PROVE  /\ WholeReading(Replay.reading) /\ WholeReading(Live({}))
         /\ Replay.reading.events = NodeEvents.got /\ Live({}).events = events
<1>1. \A f \in Files : Recorded(f, bundle[f])
  BY DEF SteadyInv, Whole, Gathered, Pending
<1>2. /\ bundle["nodes"] = File(node) /\ bundle["cluster_policy"] = File(policies[1])
      /\ bundle["resourceslices"] = File(Sliced)
      /\ bundle["gpu_pods"] = File(Projected) /\ bundle["gpu_operand_pods"] = File(Spaced)
      /\ \/ domains = {} /\ bundle["compute_domains"] = None
         \/ bundle["compute_domains"] = File(domains)
  BY <1>1, FileNames DEF Recorded
<1>3. ResourceSlices.got = Sliced /\ ResourceSlices.missing = {}
  BY <1>2, ReadFile DEF ResourceSlices
<1>4. ClassifyNodes.got = node
  <2>1. readYAML("nodes", <<>>).got = node /\ readYAML("nodes", <<>>).missing = {}
    BY <1>2, ReadFile
  <2>2. ClassifyNodes = Answer(node, {})
    BY <1>3, <2>1, Zenon DEF ClassifyNodes
  <2> QED
    BY <2>2 DEF Answer
<1>5. Pods.got = mergePods(Spaced, Projected)
  <2>1. /\ readYAML("gpu_operand_pods", {}).got = Spaced /\ readYAML("gpu_operand_pods", {}).missing = {}
        /\ readYAML("gpu_pods", {}).got = Projected /\ readYAML("gpu_pods", {}).missing = {}
    BY <1>2, ReadFile
  <2>2. Pods = Answer(mergePods(Spaced, Projected), {})
    BY <2>1, Zenon DEF Pods
  <2> QED
    BY <2>2 DEF Answer
<1>6. ClusterPolicies.got = policies /\ ComputeDomains.got = domains
  BY <1>2, ReadPolicy, ReadDomains DEF ClusterInv
<1>7. /\ Replay.reading.nodes = ClassifyNodes.got /\ Replay.reading.slices = ResourceSlices.got
      /\ Replay.reading.pods = Pods.got /\ Replay.reading.policies = ClusterPolicies.got
      /\ Replay.reading.events = NodeEvents.got /\ Replay.reading.domains = ComputeDomains.got
      /\ Replay.reading.operator = {p \in Pods.got : Label(p, "app") = "gpu-operator"}
  BY DEF Replay
<1>8. WholeReading(Replay.reading)
  BY <1>3, <1>4, <1>5, <1>6, <1>7 DEF WholeReading
<1>9. /\ Live({}).nodes = node /\ Live({}).slices = Sliced /\ Live({}).pods = pods
      /\ Live({}).policies = policies /\ Live({}).events = events /\ Live({}).domains = domains
      /\ Live({}).operator = {p \in pods : Label(p, "app") = "gpu-operator"}
  BY DEF Live, Sliced
<1>10. WholeReading(Live({}))
  BY <1>9 DEF WholeReading
<1> QED
  BY <1>7, <1>8, <1>9, <1>10

\* A whole bundle of a cluster that did not change meanwhile says what the cluster
\* says, for every cluster, at every time and wherever the pods that ask for GPUs
\* are (mergePods, projectGPUPod, prepareState, buildInput).
THEOREM BundleAlwaysAgrees == BundleSpec => []BundleAgrees
<1> DEFINE Inv == IInv /\ SteadyInv /\ ClusterInv
<1>1. BundleInit => Inv
  <2> SUFFICES ASSUME BundleInit PROVE IInv /\ SteadyInv /\ ClusterInv
    OBVIOUS
  <2>1. /\ Init /\ todo = Registry /\ prepared = <<>> /\ began = [changes |-> 0, at |-> 1]
        /\ changes = 0
    BY DEF BundleInit, Init
  <2>2. ClusterInv
    BY <2>1, ClusterInit
  <2>3. SteadyInv
    BY <2>1, AllArePending DEF SteadyInv
  <2> QED
    BY <2>2, <2>3, InitIsGood
<1>2. Inv /\ [BundleNext]_bundleVars => Inv'
  BY StepKeeps, SteadyKept
<1>3. Inv => BundleAgrees
  <2> DEFINE r == Replay.reading
             s == Live({})
             counts(f) == f.component # "imex-daemon" /\ (f.code = "NV-UPG-001" => NodeEvents.got = events)
  <2> SUFFICES ASSUME Inv, Whole, changes = began.changes, Len(policies) = 1
               PROVE  {f \in Findings(r) : counts(f)} = {f \in Findings(s) : counts(f)}
    BY Zenon DEF BundleAgrees
  <2>1. WholeReading(r) /\ WholeReading(s) /\ r.events = NodeEvents.got /\ s.events = events
    BY BothAreWhole
  <2>2. Agree(Input(r), Input(s)) /\ Agree(Input(s), Input(r))
    BY <2>1, ReadingsAgree
  <2>3. Input(r).events = NodeEvents.got /\ Input(s).events = events
    BY <2>1 DEF Input
  <2> HIDE DEF r, s
  <2>4. \A f : counts(f) => (f \in AllWith(Input(r)) <=> f \in AllWith(Input(s)))
    BY <2>2, <2>3, FindingsAgree
  <2> QED
    BY <2>4 DEF Findings
<1> QED
  BY <1>1, <1>2, <1>3, PTL DEF BundleSpec

-----------------------------------------------------------------------------
(* What a cluster never takes back. *)

\* A node that has no resource of the device plugin, by its capacity.
Bare(g) == \A r \in Resources : ~(g.cap[r] > 0)

\* What can be allocated is counted,
CapInv == \A n \in Nodes : Bare(node[n]) => \A r \in Resources : ~(node[n].alloc[r] > 0)

\* and no event of a node is newer than the step it is in.
DateInv == \A e \in events : e.node \in Nodes /\ e.at <= since[e.node]

\* Of the events of a node in a state one is the newest.
Newest(list) ==
  \A e \in list : \E m \in list :
    /\ m.node = e.node /\ m.state = e.state
    /\ \A d \in list : d.node = e.node /\ d.state = e.state => d.at <= m.at

\* What a step does to both capacities.
CapMoves == CapInv' /\ \A m \in Nodes : Bare(node[m]) => Bare(node'[m])

\* A step that leaves them alone.
LEMMA CapLeft ==
  ASSUME CapInv, NEW n \in Nodes, NEW S, Only(n, S), S \cap {"cap", "alloc"} = {}
  PROVE  CapMoves
<1>1. node'[n].cap = node[n].cap /\ node'[n].alloc = node[n].alloc
  BY OnlyKeeps
<1>2. \A m \in Nodes : node'[m].cap = node[m].cap /\ node'[m].alloc = node[m].alloc
  BY <1>1 DEF Only
<1> QED
  BY <1>2 DEF CapMoves, CapInv, Bare

\* The plugin advertises nothing, or something where something was.
LEMMA CapAdvertised ==
  ASSUME NodeInv, CapInv, NEW n \in Nodes, NEW alloc \in [Resources -> Nat], NEW fields,
         Advertise(n, alloc, fields),
         alloc = Zero \/ \E r \in Resources : node[n].alloc[r] > 0
  PROVE  CapMoves
<1>1. DOMAIN node = Nodes /\ DOMAIN node[n] = Fields
  BY DEF NodeInv, NodeOk
<1>2. Advertised(n, alloc, fields)
  BY <1>1, AdvertiseSets
<1>3. /\ \A m \in Nodes \ {n} : node'[m] = node[m]
      /\ node'[n].alloc = alloc
      /\ \A r \in Resources : \/ node'[n].cap[r] = alloc[r]
                              \/ node'[n].cap[r] = node[n].cap[r] /\ node[n].cap[r] > 0 /\ alloc[r] = 0
  BY <1>2 DEF Advertised, Only
<1>4. Bare(node[n]) => alloc = Zero
  BY DEF CapInv
<1>5. Bare(node[n]) => Bare(node'[n])
  BY <1>3, <1>4, Amounts DEF Bare
<1>6. Bare(node'[n]) => \A r \in Resources : ~(node'[n].alloc[r] > 0)
  BY <1>3 DEF Bare
<1> QED
  BY <1>3, <1>5, <1>6 DEF CapMoves, CapInv

\* A node whose capacity is gone does not get it back.
LEMMA CapStep ==
  ASSUME NodeInv, CapInv, [Next]_vars
  PROVE  CapMoves
<1>1. Changing \subseteq Nodes
  BY ClusterAssumption
<1>2. ASSUME node' = node PROVE CapMoves
  BY <1>2 DEF CapMoves, CapInv
<1>3. CASE DisableOperand \/ PolicyChanges \/ Tick \/ UNCHANGED vars
  <2>1. node' = node
    BY <1>3, Zenon DEF DisableOperand, PolicyChanges, Tick, vars, objects
  <2> QED
    BY <1>2, <2>1
<1>4. ASSUME NEW n \in Changing, DriverFails(n) \/ ToolkitFails(n) \/ ImexFails(n) \/ JoinDomain(n)
      PROVE  CapMoves
  BY <1>2, <1>4, Zenon DEF DriverFails, ToolkitFails, ImexFails, JoinDomain
<1>5. ASSUME NEW n \in Changing, DeviceUnhealthy(n) PROVE CapMoves
  <2>1. PICK r \in Resources : node[n].alloc[r] > 0 /\ node' = [node EXCEPT ![n].alloc[r] = @ - 1]
    BY <1>5 DEF DeviceUnhealthy
  <2>2. n \in Nodes /\ DOMAIN node = Nodes /\ DOMAIN node[n] = Fields
    BY <1>1 DEF NodeInv, NodeOk
  <2>3. Only(n, {"alloc"})
    BY <2>1, <2>2, FieldNames DEF Only
  <2>4. node'[n].cap = node[n].cap /\ ~Bare(node[n])
    BY <2>1, <2>2, <2>3, OnlyKeeps DEF CapInv
  <2> QED
    BY <2>2, <2>3, <2>4 DEF CapMoves, CapInv, Bare, Only
<1>6. ASSUME NEW n \in Changing, NEW fields, Advertise(n, Zero, fields) PROVE CapMoves
  BY <1>1, <1>6, Amounts, CapAdvertised
<1>7. ASSUME NEW n \in Changing, NEW r \in Resources, NEW k \in Nat, NEW fields,
             Serving(n), Advertise(n, Of(r, k), fields)
      PROVE  CapMoves
  BY <1>1, <1>7, Amounts, CapAdvertised DEF Serving
<1>8. ASSUME NEW n \in Changing, NEW fields, SetNode(n, fields), DOMAIN fields \cap {"cap", "alloc"} = {}
      PROVE  CapMoves
  <2>1. n \in Nodes /\ DOMAIN node = Nodes /\ DOMAIN node[n] = Fields
    BY <1>1 DEF NodeInv, NodeOk
  <2>2. Only(n, DOMAIN fields)
    BY <1>8, <2>1, SetNodeSets DEF FieldsSet
  <2> QED
    BY <1>8, <2>1, <2>2, CapLeft
<1>9. ASSUME NEW n \in Changing,
             \/ SliceWithdrawn(n) \/ PublishSlice(n) \/ Unlabel(n) \/ Relabel(n) \/ \E s : UpgradeStep(n, s)
      PROVE  CapMoves
  <2>1. \E fields : /\ SetNode(n, fields)
                    /\ \/ \E a : \/ fields = [slice |-> a] \/ fields = [sentinel |-> a]
                                 \/ fields = [tiers |-> a] \/ fields = [clique |-> a]
                                 \/ fields = [taints |-> a] \/ fields = [upgrade |-> a]
                       \/ \E a, b : \/ fields = [unschedulable |-> a, taints |-> b]
                                    \/ fields = [present |-> a, count |-> b]
    BY <1>9, Zenon DEF SliceWithdrawn, PublishSlice, Unlabel, Relabel, UpgradeStep
  <2>2. \E fields : SetNode(n, fields) /\ DOMAIN fields \cap {"cap", "alloc"} = {}
    BY <2>1
  <2> QED
    BY <1>8, <2>2
<1>10. ASSUME NEW n \in Changing, PluginStops(n) \/ ReconfigureFails(n) \/ RetirePlugin(n) PROVE CapMoves
  <2>1. \E fields : Advertise(n, Zero, fields)
    BY <1>10, Zenon DEF PluginStops, ReconfigureFails, RetirePlugin
  <2> QED
    BY <1>6, <2>1
<1>11. ASSUME NEW n \in Changing, Repartition(n) \/ Share(n) PROVE CapMoves
  <2>1. Serving(n) /\ \E r \in Resources, k \in {GPUs, 2 * GPUs} : \E fields : Advertise(n, Of(r, k), fields)
    BY <1>11, Zenon DEF Repartition, Share, Resources
  <2>2. {GPUs, 2 * GPUs} \subseteq Nat
    BY DEF GPUs
  <2> QED
    BY <1>7, <2>1, <2>2
<1>12. ASSUME NEW n \in Changing, Pause(n) PROVE CapMoves
  <2>1. \/ \E deploy : SetNode(n, [deploy |-> deploy])
        \/ \E fields : Advertise(n, Zero, fields)
    BY <1>12, Zenon DEF Pause
  <2>2. \A deploy : DOMAIN [deploy |-> deploy] \cap {"cap", "alloc"} = {}
    OBVIOUS
  <2> QED
    BY <1>6, <1>8, <2>1, <2>2
<1> QED
  BY <1>3, <1>4, <1>5, <1>9, <1>10, <1>11, <1>12 DEF Next

\* An event is of the step it announced or of one before it.
LEMMA DateStep ==
  ASSUME NodeInv, EventInv, DateInv, Newest(events), [Next]_vars
  PROVE  /\ DateInv' /\ Newest(events') /\ now' \in {now, now + 1}
         /\ now' = now => events \subseteq events'
<1>1. now \in Nat \ {0} /\ since \in [Nodes -> 0 .. now] /\ \A e \in events : e.at \in 1 .. now
  BY DEF EventInv
<1>2. CASE /\ events' = events /\ since' = since /\ now' = now
  BY <1>2 DEF DateInv
<1>3. CASE DisableOperand \/ PolicyChanges \/ UNCHANGED vars
  <2>1. events' = events /\ since' = since /\ now' = now
    BY <1>3, Zenon DEF DisableOperand, PolicyChanges, Change, vars, objects
  <2> QED
    BY <1>2, <2>1
<1>4. CASE Tick
  <2>1. events' \subseteq events /\ since' = since /\ now' = now + 1
    BY <1>4 DEF Tick
  <2> QED
    <3>1. Newest(events')
      <4> SUFFICES ASSUME NEW e \in events'
                   PROVE  \E m \in events' :
                            /\ m.node = e.node /\ m.state = e.state
                            /\ \A d \in events' : d.node = e.node /\ d.state = e.state => d.at <= m.at
        BY DEF Newest
      <4>1. PICK m \in events : /\ m.node = e.node /\ m.state = e.state
                               /\ \A d \in events : d.node = e.node /\ d.state = e.state => d.at <= m.at
        BY <2>1 DEF Newest
      <4>2. events' = {d \in events : now + 1 - d.at < EventTTL} /\ EventTTL \in Nat
        BY <1>4, ClusterAssumption DEF Tick
      <4>3. e.at \in Nat /\ m.at \in Nat /\ e.at <= m.at /\ now + 1 - e.at < EventTTL /\ now \in Nat
        BY <1>1, <4>1, <4>2
      <4>4. m \in events'
        BY <4>2, <4>3
      <4> QED
        BY <2>1, <4>1, <4>4
    <3> QED
      BY <1>1, <2>1, <3>1 DEF DateInv
<1>5. ASSUME NEW n \in Changing, NEW state, UpgradeStep(n, state)
      PROVE  DateInv' /\ Newest(events') /\ now' = now /\ events \subseteq events'
  <2> DEFINE d == [node |-> n, state |-> state, at |-> now]
  <2>1. now' = now /\ events' = events \cup {d} /\ since' = [since EXCEPT ![n] = now]
    BY <1>5, Zenon DEF UpgradeStep, Change
  <2>2. n \in Nodes /\ d.node = n /\ d.at = now
    BY ClusterAssumption
  <2> HIDE DEF d
  <2>3. ASSUME NEW e \in events PROVE e.node \in Nodes /\ e.at <= since'[e.node]
    BY <1>1, <2>1, <2>2 DEF DateInv
  <2>4. d.at <= since'[d.node]
    BY <1>1, <2>1, <2>2
  <2>5. d.state = state
    BY DEF d
  <2>6. Newest(events')
    <3> SUFFICES ASSUME NEW e \in events'
                 PROVE  \E m \in events' :
                          /\ m.node = e.node /\ m.state = e.state
                          /\ \A c \in events' : c.node = e.node /\ c.state = e.state => c.at <= m.at
      BY DEF Newest
    <3>1. CASE e.node = n /\ e.state = state
      <4>1. \A c \in events' : c.at <= d.at
        BY <1>1, <2>1, <2>2
      <4> QED
        BY <2>1, <2>2, <2>5, <3>1, <4>1
    <3>2. CASE ~(e.node = n /\ e.state = state)
      <4>1. e \in events
        BY <2>1, <2>2, <2>5, <3>2
      <4>2. PICK m \in events : /\ m.node = e.node /\ m.state = e.state
                               /\ \A c \in events : c.node = e.node /\ c.state = e.state => c.at <= m.at
        BY <4>1 DEF Newest
      <4> QED
        BY <2>1, <2>2, <2>5, <3>2, <4>2
    <3> QED
      BY <3>1, <3>2
  <2> QED
    BY <2>1, <2>2, <2>3, <2>4, <2>6 DEF DateInv
<1>6. ASSUME NEW n \in Changing,
             \/ DriverFails(n) \/ ToolkitFails(n) \/ PluginStops(n) \/ DeviceUnhealthy(n)
             \/ ImexFails(n) \/ SliceWithdrawn(n) \/ ReconfigureFails(n) \/ Unlabel(n)
             \/ PublishSlice(n) \/ RetirePlugin(n) \/ Repartition(n) \/ Share(n) \/ Pause(n)
             \/ Relabel(n) \/ JoinDomain(n)
      PROVE  events' = events /\ since' = since /\ now' = now
  BY <1>6, UpgradeKept
<1> QED
  BY <1>2, <1>3, <1>4, <1>5, <1>6 DEF Next

\* One policy was never more than one.
LEMMA OnePolicy ==
  ASSUME PolicyInv, [Next]_vars, Len(policies') = 1
  PROVE  Len(policies) = 1
<1>1. PICK state, off : policies \in {<<Own(state, off)>>, <<Other, Own(state, off)>>, <<Own(state, off), Other>>}
  BY DEF PolicyInv
<1>2. CASE DisableOperand \/ PolicyChanges
  <2>1. \/ DOMAIN policies' = DOMAIN policies
        \/ Len(policies) = 1
    <3>1. \/ \E of : policies' = [i \in DOMAIN policies |-> of[i]]
          \/ Len(policies) = 1
      <4>1. CASE DisableOperand
        <5>1. PICK field :
                policies' = [i \in DOMAIN policies |->
                               IF policies[i].name = Policy.name
                                 THEN [policies[i] EXCEPT !.off = @ \cup {field}] ELSE policies[i]]
          BY <4>1, Zenon DEF DisableOperand
        <5> QED
          BY <5>1
      <4>2. CASE PolicyChanges
        <5>1. \/ policies' = [i \in DOMAIN policies |->
                               IF policies[i].name = Policy.name
                                 THEN [policies[i] EXCEPT !.state = "notReady"] ELSE policies[i]]
              \/ Len(policies) = 1
          BY <4>2, Zenon DEF PolicyChanges
        <5> QED
          BY <5>1
      <4> QED
        BY <1>2, <4>1, <4>2
    <3> QED
      BY <3>1
  <2> QED
    <3>1. PolicyInv'
      BY PolicyStep
    <3>2. PICK s, o : policies' \in {<<Own(s, o)>>, <<Other, Own(s, o)>>, <<Own(s, o), Other>>}
      BY <3>1 DEF PolicyInv
    <3>3. policies' = <<Own(s, o)>>
      BY <3>2
    <3> QED
      BY <1>1, <2>1, <3>3
<1>3. CASE Tick \/ UNCHANGED vars
  <2>1. policies' = policies
    BY <1>3, Zenon DEF Tick, vars, objects
  <2> QED
    BY <2>1
<1>4. ASSUME NEW n \in Changing,
             \/ DriverFails(n) \/ ToolkitFails(n) \/ PluginStops(n) \/ DeviceUnhealthy(n)
             \/ ImexFails(n) \/ SliceWithdrawn(n) \/ ReconfigureFails(n) \/ Unlabel(n)
             \/ PublishSlice(n) \/ RetirePlugin(n) \/ Repartition(n) \/ Share(n) \/ Pause(n)
             \/ Relabel(n) \/ JoinDomain(n) \/ \E s : UpgradeStep(n, s)
      PROVE  policies' = policies
  BY <1>4, Zenon DEF DriverFails, ToolkitFails, PluginStops, DeviceUnhealthy, ImexFails, SliceWithdrawn,
     ReconfigureFails, Unlabel, PublishSlice, RetirePlugin, Repartition, Share, Pause, Relabel, JoinDomain,
     UpgradeStep
<1> QED
  BY <1>2, <1>3, <1>4 DEF Next

-----------------------------------------------------------------------------
(* The parts of an alarm.  What a rule asks is asked of the node's object, of its   *)
(* slice, of the policy, of the events and of the pods, each of which is in a file  *)
(* of its own.                                                                      *)

\* The codes of the rules that look only at nodes the operator targets.
TargetCodes == {"NV-NODE-001", "NV-NODE-002", "NV-NODE-003", "NV-NODE-004", "NV-MIG-001"}

\* What MIGConfigNotApplied says of a node.
MIGFinding(g, n) ==
  IF configFinding(g)
    THEN Finding("NV-MIG-001", IF g.configState = "failed" THEN Error ELSE Warning, n, "mig-manager")
    ELSE Finding("NV-MIG-001", Warning, n, "node")

\* Of the object g of the node,
OnNode(f, g) ==
  /\ f.code \in TargetCodes => ~everyOperandDisabled(g)
  /\ \/ /\ f = Finding("NV-NODE-001", Warning, f.node, "node")
        /\ g.pci /\ ~g.present
     \/ /\ f = Finding("NV-NODE-002", Error, f.node, "node")
        /\ g.present /\ wholeGPUs(g.alloc) <= 0 /\ ~isVirtualMachineWorkload(g) /\ ~isMixedMIG(g)
     \/ /\ f = Finding("NV-NODE-003", Warning, f.node, "node")
        /\ wholeGPUs(g.alloc) > 0 /\ wholeGPUs(g.alloc) < wholeGPUs(g.cap)
     \/ /\ f = Finding("NV-NODE-004", Warning, f.node, "node")
        /\ ~Bare(g) /\ g.count > 0 /\ ~isMixedMIG(g)
        /\ g.count * replicaFactor(g) # wholeGPUs(g.cap)
     \/ /\ f = Finding("NV-DRV-001", Error, f.node, f.component)
        /\ f.component \in {"driver", "vgpu-manager"}
        /\ ~midUpgrade(g) /\ ~operandDisabledOn(g, f.component)
     \/ f = Finding("NV-CTK-001", Error, f.node, "container-toolkit")
     \/ /\ f = Finding("NV-DP-001", Error, f.node, "device-plugin")
        /\ ~Bare(g) /\ ~operandDisabledOn(g, "device-plugin")
     \/ /\ f = Finding("NV-DCGM-001", Warning, f.node, "dcgm-exporter")
        /\ ~operandDisabledOn(g, "dcgm-exporter")
     \/ /\ f = MIGFinding(g, f.node)
        /\ ~isVirtualMachineWorkload(g) /\ (configFinding(g) \/ strategyFinding(g))
     \/ f = Finding("NV-UPG-001", Error, f.node, "node") /\ g.upgrade = UpgradeFailed
     \/ f = Finding("NV-UPG-001", Warning, f.node, "node") /\ g.upgrade \in upgradeStuckStates

\* of its slice,
OnSlice(f, g, sliced) ==
  /\ f.code = "NV-NODE-002" => ~(Bare(g) /\ sliced)
  /\ f.code = "NV-DCGM-001" => ~Bare(g) \/ sliced

\* of the policy,
OnPolicy(f, policy) ==
  /\ f.code = "NV-OP-001" => ~IsReady(policy)
  /\ f.code = "NV-DP-001" => "devicePlugin" \notin policy.off
  /\ f.code = "NV-DCGM-001" => "dcgmExporter" \notin policy.off

\* of the events: one dates the step the node is in, and all are old enough,
StuckAlarm(f) == f.code = "NV-UPG-001" /\ f.sev = Warning
Dated(f, g, list) == StuckAlarm(f) => \E e \in list : e.node = f.node /\ e.state = g.upgrade /\ e.at # 0
Overdue(f, list) ==
  StuckAlarm(f) => \A e \in list : e.node = f.node => now - e.at >= upgradeStuckAfter

\* and of the pods.
OwnTolerations == PolicyTolerations([policies |-> <<Policy>>])
Faulty(p) ==
  \/ ~allReady(p.statuses)
  \/ Restarts(p.statuses) /\ insideWindow(newestTermination(p.statuses), DriverRestartWindow)
Failing(p) ==
  \E i \in DOMAIN p.init : p.init[i].name = "toolkit-validation" /\ toolkitFailure(p.init[i].status)
OperandsIn(list, n, role) == {operandFromPod(p) : p \in {q \in list : q.node = n /\ q.name = role}}
ReadyIn(list, n, role) ==
  OperandsIn(list, n, role) # {} /\ (CHOOSE pod \in OperandsIn(list, n, role) : TRUE).ready
Admits(n, g, list) ==
  \/ \E role \in deployGatedComponents : \E p \in list : p.node = n /\ p.name = role
  \/ ~everyOperandTaintedOff(g, OwnTolerations)
OnPods(f, g, list, late) ==
  /\ f.code \in TargetCodes => Admits(f.node, g, list)
  /\ f.code = "NV-DRV-001" =>
       late \/ \E p \in list : p.node = f.node /\ p.name = f.component /\ Faulty(p)
  /\ f.code = "NV-CTK-001" => \E p \in list : p.node = f.node /\ p.name = "validator" /\ Failing(p)
  /\ f.code = "NV-DP-001" => ~ReadyIn(list, f.node, "device-plugin")
  /\ f.code = "NV-DCGM-001" => ~ReadyIn(list, f.node, "dcgm-exporter")

\* The alarm that is about no node.
OnCluster(f) == f = Finding("NV-OP-001", Error, Cluster, "gpu-operator")

-----------------------------------------------------------------------------
(* A gather of a cluster that changes meanwhile. *)

Intact(f) == ~Pending(f) /\ f \notin lost
Content(f) == bundle[f].content

\* A node as it was, and as it is.
Was(g, h) == NodeOk(g) /\ g.taints \subseteq h.taints /\ (Bare(g) => Bare(h))

\* The pods of the operator's namespace.
Listed(list) ==
  /\ \A p \in list : Named(p) /\ p.name \notin Outside
  /\ \E q \in list : q.name = "gpu-operator" /\ Label(q, "app") = "gpu-operator"

\* The alarms that were of every moment, about nodes.
Lasting == {f \in stable : f.node \in Nodes}

\* What is kept under a name says its part of each of them.
Keeps(g) ==
  LET nodes == Content("nodes")
      file == Content(g)
  IN /\ g = "nodes" =>
          /\ DOMAIN file = Nodes /\ \A n \in Nodes : Was(file[n], node[n])
          /\ \A f \in stable : OnCluster(f) \/ (f.node \in Nodes /\ OnNode(f, file[f.node]))
     /\ g = "cluster_policy" =>
          /\ bundle[g].kind = "file" /\ \E state \in {"ready", "notReady"}, off \in SUBSET Operands : file = Own(state, off)
          /\ \A f \in stable : OnPolicy(f, file)
     /\ g = "resourceslices" /\ ~hollow => \A f \in Lasting : OnSlice(f, nodes[f.node], f.node \in file)
     /\ g = "gpu_pods" => \A p \in file : Named(p) /\ p.statuses = <<>>
     /\ g = "node_events" =>
          /\ \A e \in file : e.at \in Nat \ {0}
          /\ Newest(file)
          /\ \A f \in Lasting : (now = began.at => Dated(f, nodes[f.node], file)) /\ Overdue(f, file)
     /\ g = "gpu_operand_pods" => prepared # <<>> /\ file = prepared[1]

\* The same of what is still only in memory, or not read yet.
KeepsRest ==
  LET nodes == Content("nodes")
  IN /\ prepared # <<>> =>
          /\ Listed(prepared[1])
          /\ \A f \in Lasting : OnPods(f, nodes[f.node], prepared[1], now > began.at)
     /\ Pending("node_events") /\ now = began.at => \A f \in Lasting : Dated(f, nodes[f.node], events)

\* What has been gathered says of every alarm that lasted what the rule asks of it.
Carried ==
  Len(policies) = 1 /\ Intact("nodes") => KeepsRest /\ \A g \in Files : Intact(g) => Keeps(g)

\* The inductive invariant of the gather.
TornInv ==
  /\ CapInv /\ DateInv /\ Newest(events)
  /\ began.at \in Nat /\ began.at <= now
  /\ Pending("nodes") => todo = Registry
  /\ todo = Registry => stable = {} /\ prepared = <<>>
  /\ Carried

-----------------------------------------------------------------------------
(* What the rules are given. *)

\* h is the node n, of the object g, with a slice or not, among these pods.
View(h, n, g, sliced, list) ==
  /\ h.name = n /\ h.operands = {operandFromPod(p) : p \in {q \in list : q.node = n}}
  /\ h.mode = "dra" <=> Bare(g) /\ sliced
  /\ h.hinted <=> Bare(g) /\ ~sliced
  /\ h.capacity = wholeGPUs(g.cap) /\ h.allocatable = wholeGPUs(g.alloc)
  /\ h.alloc = g.alloc /\ h.pci = g.pci /\ h.present = g.present /\ h.count = g.count
  /\ h.replicas = g.replicas /\ h.strategy = g.strategy /\ h.config = g.config
  /\ h.configState = g.configState /\ h.capable = g.capable /\ h.workload = g.workload
  /\ h.upgrade = g.upgrade /\ h.deploy = g.deploy /\ h.taints = g.taints

\* The input is of these nodes, slices, pods, policies and events.
Given(in, nodes, slices, list, policy, dates) ==
  /\ in.installed /\ in.policies = <<policy>> /\ in.events = dates
  /\ in.nodes \subseteq everyNode(in)
  /\ \A h \in everyNode(in) : h \in in.nodes <=> ~h.hinted
  /\ \A h \in everyNode(in) :
       h.name \in Nodes /\ View(h, h.name, nodes[h.name], h.name \in slices, list)
  /\ \A n \in Nodes : \E h \in everyNode(in) : h.name = n

\* A reading is given to the rules.
LEMMA ReadingIsGiven ==
  ASSUME NEW r, NEW policy, DOMAIN r.nodes = Nodes, \A n \in Nodes : NodeOk(r.nodes[n]),
         \A p \in r.pods : Named(p),
         \E q \in r.pods : q.name = "gpu-operator" /\ Label(q, "app") = "gpu-operator",
         r.operator = {p \in r.pods : Label(p, "app") = "gpu-operator"},
         r.policies = <<policy>>
  PROVE  Given(Input(r), r.nodes, r.slices, r.pods, policy, r.events)
<1> DEFINE in == Input(r)
           built == {buildNode(r, n, operandsByNode(r.pods)[n]) : n \in Nodes}
<1>1. /\ in.nodes = {g \in BuildWithHinted(r) : ~g.hinted}
      /\ in.hinted = {g \in BuildWithHinted(r) : g.hinted}
      /\ in.policies = r.policies /\ in.events = r.events /\ in.installed = (r.operator # {})
  BY DEF Input
<1>2. everyNode(in) = BuildWithHinted(r)
  BY <1>1 DEF everyNode
<1>3. BuildWithHinted(r) = built
  <2>1. \A n \in Nodes : hasHintLabel(r, n)
    BY DEF hasHintLabel, NodeOk
  <2> QED
    BY <2>1 DEF BuildWithHinted
<1>4. ASSUME NEW n \in Nodes, NEW h, h = buildNode(r, n, operandsByNode(r.pods)[n])
      PROVE  View(h, n, r.nodes[n], n \in r.slices, r.pods)
  <2>1. byPlugin(r, n) <=> ~Bare(r.nodes[n])
    BY DEF byPlugin, Bare
  <2>2. bySlice(r, n) <=> n \in r.slices
    BY DEF bySlice
  <2>3. /\ h.name = n /\ h.operands = operandsByNode(r.pods)[n] /\ h.hinted = ~isGPUNode(r, n)
        /\ h.mode = mode(r, n)
        /\ h.capacity = wholeGPUs(r.nodes[n].cap) /\ h.allocatable = wholeGPUs(r.nodes[n].alloc)
        /\ h.alloc = r.nodes[n].alloc /\ h.pci = r.nodes[n].pci
        /\ h.present = r.nodes[n].present /\ h.count = r.nodes[n].count
        /\ h.replicas = r.nodes[n].replicas /\ h.strategy = r.nodes[n].strategy
        /\ h.config = r.nodes[n].config /\ h.configState = r.nodes[n].configState
        /\ h.capable = r.nodes[n].capable /\ h.workload = r.nodes[n].workload
        /\ h.upgrade = r.nodes[n].upgrade /\ h.deploy = r.nodes[n].deploy
        /\ h.taints = r.nodes[n].taints
    BY <1>4, BuiltNode
  <2>4. h.mode = "dra" <=> Bare(r.nodes[n]) /\ n \in r.slices
    BY <2>1, <2>2, <2>3, DRAMode
  <2>5. h.hinted <=> Bare(r.nodes[n]) /\ n \notin r.slices
    <3>1. isGPUNode(r, n) <=> ~(Bare(r.nodes[n]) /\ n \notin r.slices)
      BY <2>1, <2>2 DEF isGPUNode
    <3> QED
      BY <2>3, <3>1, Zenon
  <2>6. operandsByNode(r.pods)[n] = {operandFromPod(p) : p \in {q \in r.pods : q.node = n}}
    BY AllOperands
  <2> QED
    BY <2>3, <2>4, <2>5, <2>6 DEF View
<1> HIDE DEF in, built
<1>5. /\ \A h \in built : h.name \in Nodes /\ View(h, h.name, r.nodes[h.name], h.name \in r.slices, r.pods)
      /\ \A n \in Nodes : \E h \in built : h.name = n
  <2>1. ASSUME NEW h \in built
        PROVE  h.name \in Nodes /\ View(h, h.name, r.nodes[h.name], h.name \in r.slices, r.pods)
    <3>1. PICK n \in Nodes : h = buildNode(r, n, operandsByNode(r.pods)[n])
      BY DEF built
    <3>2. h.name = n
      BY <3>1, BuiltNode
    <3> QED
      BY <1>4, <3>1, <3>2
  <2>2. ASSUME NEW n \in Nodes PROVE \E h \in built : h.name = n
    <3>1. buildNode(r, n, operandsByNode(r.pods)[n]).name = n
      BY BuiltNode
    <3> QED
      BY <3>1 DEF built
  <2> QED
    BY <2>1, <2>2
<1>6. in.installed
  BY <1>1
<1> QED
  BY <1>1, <1>2, <1>3, <1>5, <1>6 DEF Given, in

\* What the rules ask of a node is asked of its object.
Asked(h, g) ==
  /\ everyOperandDisabled(h) <=> everyOperandDisabled(g)
  /\ \A k : operandDisabledOn(h, k) <=> operandDisabledOn(g, k)
  /\ \A extra : everyOperandTaintedOff(h, extra) <=> everyOperandTaintedOff(g, extra)
  /\ isVirtualMachineWorkload(h) <=> isVirtualMachineWorkload(g)
  /\ isMixedMIG(h) <=> isMixedMIG(g)
  /\ midUpgrade(h) <=> midUpgrade(g)
  /\ replicaFactor(h) = replicaFactor(g)
  /\ configFinding(h) <=> configFinding(g)
  /\ strategyFinding(h) <=> strategyFinding(g)
  /\ \A n : MIGFinding(h, n) = MIGFinding(g, n)

\* A node that is seen is asked so.
LEMMA ViewIsAsked ==
  ASSUME NEW h, NEW n, NEW g, NEW sliced, NEW list, View(h, n, g, sliced, list)
  PROVE  Asked(h, g)
<1>1. /\ h.alloc = g.alloc /\ h.replicas = g.replicas /\ h.strategy = g.strategy /\ h.config = g.config
      /\ h.configState = g.configState /\ h.capable = g.capable /\ h.workload = g.workload
      /\ h.upgrade = g.upgrade /\ h.deploy = g.deploy /\ h.taints = g.taints
  BY DEF View
<1>2. /\ everyOperandDisabled(h) <=> everyOperandDisabled(g)
      /\ \A k : operandDisabledOn(h, k) <=> operandDisabledOn(g, k)
  BY <1>1 DEF everyOperandDisabled, operandDisabledOn
<1>3. \A extra : everyOperandTaintedOff(h, extra) <=> everyOperandTaintedOff(g, extra)
  BY <1>1, Zenon DEF everyOperandTaintedOff
<1>4. isVirtualMachineWorkload(h) <=> isVirtualMachineWorkload(g)
  BY <1>1 DEF isVirtualMachineWorkload
<1>5. isMixedMIG(h) <=> isMixedMIG(g)
  BY <1>1 DEF isMixedMIG
<1>6. midUpgrade(h) <=> midUpgrade(g)
  BY <1>1, Zenon DEF midUpgrade
<1>7. replicaFactor(h) = replicaFactor(g)
  BY <1>1 DEF replicaFactor
<1>8. configFinding(h) <=> configFinding(g)
  BY <1>1, Zenon DEF configFinding
<1>9. strategyFinding(h) <=> strategyFinding(g)
  BY <1>1, <1>5, Zenon DEF strategyFinding
<1>10. \A m : MIGFinding(h, m) = MIGFinding(g, m)
  BY <1>1, <1>8 DEF MIGFinding
<1> QED
  BY <1>2, <1>3, <1>4, <1>5, <1>6, <1>7, <1>8, <1>9, <1>10 DEF Asked

\* The operands of a role are its pods.
LEMMA RoleOperands ==
  ASSUME NEW list, \A p \in list : Named(p), NEW h, NEW n,
         h.operands = {operandFromPod(p) : p \in {q \in list : q.node = n}}
  PROVE  /\ \A p \in list : operandFromPod(p).component = p.name
         /\ \A role : operandsFor(h, role) = OperandsIn(list, n, role)
         /\ \A role : ReadyOperand(h, role) <=> ReadyIn(list, n, role)
         /\ runsADeployGatedOperand(h) <=>
              \E role \in deployGatedComponents : \E p \in list : p.node = n /\ p.name = role
<1>1. \A p \in list : operandFromPod(p).component = p.name
  BY ComponentIs, OperandIs DEF Named
<1>2. \A role : operandsFor(h, role) = OperandsIn(list, n, role)
  BY <1>1 DEF operandsFor, OperandsIn
<1>3. \A role : ReadyOperand(h, role) <=> ReadyIn(list, n, role)
  <2> SUFFICES ASSUME NEW role PROVE ReadyOperand(h, role) <=> ReadyIn(list, n, role)
    OBVIOUS
  <2>1. PICK O : O = operandsFor(h, role) /\ O = OperandsIn(list, n, role)
    BY <1>2
  <2>2. ReadyOperand(h, role) <=> O # {} /\ (CHOOSE pod \in O : TRUE).ready
    BY <2>1 DEF ReadyOperand
  <2>3. ReadyIn(list, n, role) <=> O # {} /\ (CHOOSE pod \in O : TRUE).ready
    BY <2>1 DEF ReadyIn
  <2> QED
    BY <2>2, <2>3
<1>4. runsADeployGatedOperand(h) <=>
        \E role \in deployGatedComponents : \E p \in list : p.node = n /\ p.name = role
  BY <1>1 DEF runsADeployGatedOperand
<1> QED
  BY <1>1, <1>2, <1>3, <1>4

\* What the rules ask of a policy that is the operator's own and the only one.
LEMMA PolicyOf ==
  ASSUME NEW in, NEW state, NEW off, in.policies = <<Own(state, off)>>
  PROVE  /\ PolicyTolerations(in) = OwnTolerations
         /\ \A field : OperandEnabledInPolicy(in, field) <=> field \notin off
         /\ state = "ready" => OperatorClusterPolicyNotReady(in) = {}
         /\ state # "ready" => OperatorClusterPolicyNotReady(in) = {Finding("NV-OP-001", Error, Cluster, "gpu-operator")}
         /\ IsReady(Own(state, off)) <=> state = "ready"
<1> DEFINE own == Own(state, off)
           told(T) == {[t EXCEPT !.op = IF @ = "" THEN "Equal" ELSE @] : t \in T}
<1>1. own.tolerations = Policy.tolerations /\ own.off = off /\ own.state = state /\ own.name = Policy.name
  BY PolicyFields
<1>2. ASSUME NEW i, NEW p, i.policies = <<p>> PROVE activeClusterPolicy(i) = p /\ i.policies # <<>>
  <2> DEFINE ready == {k \in DOMAIN i.policies : IsReady(i.policies[k])}
             at == IF ready = {} THEN 1 ELSE CHOOSE k \in ready : \A j \in ready : k <= j
  <2>1. activeClusterPolicy(i) = i.policies[at]
    BY DEF activeClusterPolicy
  <2>2. ready = {} \/ ready = {1}
    BY <1>2
  <2>3. at = 1
    <3> HIDE DEF ready
    <3>1. CASE ready = {}
      BY <3>1
    <3>2. CASE ready = {1}
      <4>1. (CHOOSE k \in ready : \A j \in ready : k <= j) = 1
        BY <3>2
      <4> QED
        BY <3>2, <4>1
    <3> QED
      BY <2>2, <3>1, <3>2
  <2> HIDE DEF at
  <2> QED
    BY <1>2, <2>1, <2>3
<1>3. \A i : i.policies # <<>> => PolicyTolerations(i) = told(activeClusterPolicy(i).tolerations)
  BY Zenon DEF PolicyTolerations
<1> HIDE DEF told
<1>4. activeClusterPolicy(in) = own /\ in.policies # <<>>
  BY <1>2
<1>5. PolicyTolerations(in) = OwnTolerations
  <2> DEFINE i == [policies |-> <<Policy>>]
  <2>1. i.policies = <<Policy>>
    OBVIOUS
  <2>2. OwnTolerations = PolicyTolerations(i)
    BY Zenon DEF OwnTolerations
  <2> HIDE DEF i
  <2>3. activeClusterPolicy(i) = Policy /\ i.policies # <<>>
    BY <1>2, <2>1
  <2> QED
    BY <1>1, <1>3, <1>4, <2>2, <2>3
<1>6. \A field : OperandEnabledInPolicy(in, field) <=> field \notin off
  BY <1>1, <1>4 DEF OperandEnabledInPolicy
<1>7. IsReady(own) <=> state = "ready"
  BY <1>1 DEF IsReady
<1> DEFINE all == {in.policies[i] : i \in DOMAIN in.policies}
           ignored(p) == p.state = "" /\ \E q \in all : IsReady(q) /\ q.name # p.name
           says(p) == Finding("NV-OP-001", IF ignored(p) THEN Warning ELSE Error, Cluster, "gpu-operator")
<1>8. OperatorClusterPolicyNotReady(in) = {says(p) : p \in {q \in all : ~IsReady(q)}}
  BY Zenon DEF OperatorClusterPolicyNotReady
<1>9. all = {own}
  OBVIOUS
<1>10. ~IsReady(own) => ~ignored(own)
  BY <1>9, Zenon
<1> HIDE DEF all, ignored, own
<1>11. {q \in all : ~IsReady(q)} = IF state = "ready" THEN {} ELSE {own}
  BY <1>7, <1>9
<1>12. state # "ready" => says(own) = Finding("NV-OP-001", Error, Cluster, "gpu-operator")
  BY <1>7, <1>10
<1> HIDE DEF says
<1> QED
  BY <1>5, <1>6, <1>7, <1>8, <1>11, <1>12 DEF own

-----------------------------------------------------------------------------
(* From an alarm to its parts. *)

\* What the rules see of a node that they are given.
LEMMA SeenFacts ==
  ASSUME NEW in, NEW nodes, NEW slices, NEW list, NEW state, NEW off, NEW dates,
         Given(in, nodes, slices, list, Own(state, off), dates), \A p \in list : Named(p),
         NEW h \in everyNode(in)
  PROVE  LET n == h.name
             g == nodes[n]
         IN /\ n \in Nodes /\ View(h, n, g, n \in slices, list) /\ Asked(h, g)
            /\ Targeted(in, h) <=> ~everyOperandDisabled(g) /\ Admits(n, g, list)
            /\ \A role : ReadyOperand(h, role) <=> ReadyIn(list, n, role)
<1> DEFINE n == h.name
           g == nodes[n]
<1>1. n \in Nodes /\ View(h, n, g, n \in slices, list)
  BY DEF Given
<1>2. Asked(h, g)
  BY <1>1, ViewIsAsked
<1>3. PolicyTolerations(in) = OwnTolerations
  BY PolicyOf DEF Given
<1>4. h.operands = {operandFromPod(p) : p \in {q \in list : q.node = n}}
  BY <1>1 DEF View
<1> HIDE DEF n, g
<1>5. \A role : ReadyOperand(h, role) <=> ReadyIn(list, n, role)
  BY <1>4, RoleOperands, Zenon
<1>7. runsADeployGatedOperand(h) <=>
        \E role \in deployGatedComponents : \E p \in list : p.node = n /\ p.name = role
  <2>1. \A p \in list : operandFromPod(p).component = p.name
    BY ComponentIs, OperandIs DEF Named
  <2> QED
    BY <1>4, <2>1 DEF runsADeployGatedOperand
<1>6. Targeted(in, h) <=> ~everyOperandDisabled(g) /\ Admits(n, g, list)
  BY <1>2, <1>3, <1>7 DEF Targeted, OperatorTargets, Asked, Admits
<1> QED
  BY <1>1, <1>2, <1>5, <1>6 DEF n, g

\* All parts of an alarm.
Parts(f, nodes, slices, list, policy, dates) ==
  LET g == nodes[f.node]
  IN /\ OnPolicy(f, policy)
     /\ \/ OnCluster(f)
        \/ /\ f.node \in Nodes /\ OnNode(f, g) /\ OnSlice(f, g, f.node \in slices)
           /\ OnPods(f, g, list, FALSE) /\ Dated(f, g, dates)

\* The fields of a finding.
LEMMA FindingFields ==
  \A code, sev, n, component :
    LET f == Finding(code, sev, n, component)
    IN f.code = code /\ f.sev = sev /\ f.node = n /\ f.component = component
BY DEF Finding

\* A finding of a rule that asks nothing of the policy, the slice and the events.
LEMMA PlainParts ==
  ASSUME NEW f, NEW nodes, NEW slices, NEW list, NEW policy, NEW dates,
         f.code \notin {"NV-OP-001", "NV-NODE-002", "NV-DP-001", "NV-DCGM-001", "NV-UPG-001"},
         f.node \in Nodes, OnNode(f, nodes[f.node]), OnPods(f, nodes[f.node], list, FALSE)
  PROVE  Parts(f, nodes, slices, list, policy, dates)
BY DEF Parts, OnPolicy, OnSlice, Dated, StuckAlarm

\* The rules about a node's object.
LEMMA NodeAlarmParts ==
  ASSUME NEW in, NEW nodes, NEW slices, NEW list, NEW state, NEW off, NEW dates,
         Given(in, nodes, slices, list, Own(state, off), dates), \A p \in list : Named(p), NEW f,
         \/ f \in NodePCIWithoutGPULabel(in) \/ f \in NodeNoAllocatableGPUs(in)
         \/ f \in NodeAllocatableBelowCapacity(in) \/ f \in NodeCountDiffersFromCapacity(in)
         \/ f \in MIGConfigNotApplied(in)
  PROVE  Parts(f, nodes, slices, list, Own(state, off), dates)
<1> DEFINE policy == Own(state, off)
<1>0. \A h \in in.nodes : h \in everyNode(in) /\ ~h.hinted
  BY DEF Given
<1>1. CASE f \in NodePCIWithoutGPULabel(in)
  <2>1. PICK h \in everyNode(in) :
          /\ f = Finding("NV-NODE-001", Warning, h.name, "node")
          /\ h.pci /\ ~h.present /\ Targeted(in, h)
    BY <1>1 DEF NodePCIWithoutGPULabel
  <2>2. f.code = "NV-NODE-001" /\ f.node = h.name
    BY <2>1, FindingFields
  <2>3. f.node \in Nodes /\ nodes[f.node].pci /\ ~nodes[f.node].present
    BY <2>1, <2>2, SeenFacts DEF View
  <2>4. ~everyOperandDisabled(nodes[f.node]) /\ Admits(f.node, nodes[f.node], list)
    BY <2>1, <2>2, SeenFacts
  <2>5. OnNode(f, nodes[f.node])
    BY <2>1, <2>2, <2>3, <2>4 DEF OnNode
  <2>6. OnPods(f, nodes[f.node], list, FALSE)
    BY <2>2, <2>4 DEF OnPods
  <2>7. f.code \notin {"NV-OP-001", "NV-NODE-002", "NV-DP-001", "NV-DCGM-001", "NV-UPG-001"}
    BY <2>2
  <2> QED
    BY <2>3, <2>5, <2>6, <2>7, PlainParts, Zenon
<1>2. CASE f \in NodeNoAllocatableGPUs(in)
  <2>1. PICK h \in everyNode(in) :
          /\ f = Finding("NV-NODE-002", Error, h.name, "node")
          /\ h.present /\ h.allocatable <= 0 /\ h.mode # "dra"
          /\ ~isVirtualMachineWorkload(h) /\ Targeted(in, h) /\ ~isMixedMIG(h)
    BY <1>2 DEF NodeNoAllocatableGPUs
  <2>2. f.code = "NV-NODE-002" /\ f.node = h.name
    BY <2>1, FindingFields
  <2>3. /\ f.node \in Nodes /\ nodes[f.node].present /\ wholeGPUs(nodes[f.node].alloc) <= 0
        /\ ~(Bare(nodes[f.node]) /\ f.node \in slices)
    BY <2>1, <2>2, SeenFacts DEF View
  <2>4. /\ ~everyOperandDisabled(nodes[f.node]) /\ Admits(f.node, nodes[f.node], list)
        /\ ~isVirtualMachineWorkload(nodes[f.node]) /\ ~isMixedMIG(nodes[f.node])
    BY <2>1, <2>2, SeenFacts DEF Asked
  <2>5. OnNode(f, nodes[f.node])
    BY <2>1, <2>2, <2>3, <2>4 DEF OnNode
  <2>6. /\ OnPods(f, nodes[f.node], list, FALSE) /\ OnPolicy(f, policy)
        /\ OnSlice(f, nodes[f.node], f.node \in slices) /\ Dated(f, nodes[f.node], dates)
    BY <2>2, <2>3, <2>4 DEF OnPods, OnPolicy, OnSlice, Dated, StuckAlarm
  <2> QED
    BY <2>3, <2>5, <2>6 DEF Parts
<1>3. CASE f \in NodeAllocatableBelowCapacity(in)
  <2>1. PICK h \in in.nodes :
          /\ f = Finding("NV-NODE-003", Warning, h.name, "node")
          /\ h.allocatable > 0 /\ h.allocatable < h.capacity /\ Targeted(in, h)
    BY <1>3 DEF NodeAllocatableBelowCapacity
  <2>2. f.code = "NV-NODE-003" /\ f.node = h.name /\ h \in everyNode(in)
    BY <1>0, <2>1, FindingFields
  <2>3. /\ f.node \in Nodes /\ wholeGPUs(nodes[f.node].alloc) > 0
        /\ wholeGPUs(nodes[f.node].alloc) < wholeGPUs(nodes[f.node].cap)
    BY <2>1, <2>2, SeenFacts DEF View
  <2>4. ~everyOperandDisabled(nodes[f.node]) /\ Admits(f.node, nodes[f.node], list)
    BY <2>1, <2>2, SeenFacts
  <2>5. OnNode(f, nodes[f.node])
    BY <2>1, <2>2, <2>3, <2>4 DEF OnNode
  <2>6. OnPods(f, nodes[f.node], list, FALSE)
    BY <2>2, <2>4 DEF OnPods
  <2>7. f.code \notin {"NV-OP-001", "NV-NODE-002", "NV-DP-001", "NV-DCGM-001", "NV-UPG-001"}
    BY <2>2
  <2> QED
    BY <2>3, <2>5, <2>6, <2>7, PlainParts, Zenon
<1>4. CASE f \in NodeCountDiffersFromCapacity(in)
  <2>1. PICK h \in in.nodes :
          /\ f = Finding("NV-NODE-004", Warning, h.name, "node")
          /\ h.count > 0 /\ ~isMixedMIG(h) /\ h.mode # "dra" /\ Targeted(in, h)
          /\ h.count * replicaFactor(h) # h.capacity
    BY <1>4 DEF NodeCountDiffersFromCapacity
  <2>2. f.code = "NV-NODE-004" /\ f.node = h.name /\ h \in everyNode(in) /\ ~h.hinted
    BY <1>0, <2>1, FindingFields
  <2>3. /\ f.node \in Nodes /\ ~Bare(nodes[f.node]) /\ nodes[f.node].count > 0
        /\ nodes[f.node].count = h.count /\ wholeGPUs(nodes[f.node].cap) = h.capacity
    BY <2>1, <2>2, SeenFacts DEF View
  <2>4. /\ ~everyOperandDisabled(nodes[f.node]) /\ Admits(f.node, nodes[f.node], list)
        /\ ~isMixedMIG(nodes[f.node]) /\ replicaFactor(nodes[f.node]) = replicaFactor(h)
    BY <2>1, <2>2, SeenFacts DEF Asked
  <2>5. OnNode(f, nodes[f.node])
    BY <2>1, <2>2, <2>3, <2>4 DEF OnNode
  <2>6. OnPods(f, nodes[f.node], list, FALSE)
    BY <2>2, <2>4 DEF OnPods
  <2>7. f.code \notin {"NV-OP-001", "NV-NODE-002", "NV-DP-001", "NV-DCGM-001", "NV-UPG-001"}
    BY <2>2
  <2> QED
    BY <2>3, <2>5, <2>6, <2>7, PlainParts, Zenon
<1>5. CASE f \in MIGConfigNotApplied(in)
  <2>1. PICK h \in everyNode(in) :
          /\ f = MIGFinding(h, h.name)
          /\ ~isVirtualMachineWorkload(h) /\ Targeted(in, h) /\ (configFinding(h) \/ strategyFinding(h))
    BY <1>5 DEF MIGConfigNotApplied, MIGFinding
  <2>2. f.code = "NV-MIG-001" /\ f.node = h.name
    BY <2>1, FindingFields DEF MIGFinding
  <2>3. f.node \in Nodes
    BY <2>2, SeenFacts
  <2>4. /\ ~everyOperandDisabled(nodes[f.node]) /\ Admits(f.node, nodes[f.node], list)
        /\ ~isVirtualMachineWorkload(nodes[f.node]) /\ f = MIGFinding(nodes[f.node], f.node)
        /\ (configFinding(nodes[f.node]) \/ strategyFinding(nodes[f.node]))
    BY <2>1, <2>2, SeenFacts DEF Asked
  <2>5. OnNode(f, nodes[f.node])
    BY <2>2, <2>4 DEF OnNode
  <2>6. OnPods(f, nodes[f.node], list, FALSE)
    BY <2>2, <2>4 DEF OnPods
  <2>7. f.code \notin {"NV-OP-001", "NV-NODE-002", "NV-DP-001", "NV-DCGM-001", "NV-UPG-001"}
    BY <2>2
  <2> QED
    BY <2>3, <2>5, <2>6, <2>7, PlainParts, Zenon
<1> QED
  BY <1>1, <1>2, <1>3, <1>4, <1>5

\* The pods behind the operands that a node is seen with.
LEMMA SeenPods ==
  ASSUME NEW in, NEW nodes, NEW slices, NEW list, NEW policy, NEW dates,
         Given(in, nodes, slices, list, policy, dates), \A p \in list : Named(p),
         NEW h \in everyNode(in)
  PROVE  /\ \A pod \in h.operands : \E p \in list :
              p.node = h.name /\ pod = operandFromPod(p) /\ pod.component = p.name
         /\ \A p \in list : p.node = h.name =>
              operandFromPod(p) \in h.operands /\ operandFromPod(p).component = p.name
<1>1. h.operands = {operandFromPod(p) : p \in {q \in list : q.node = h.name}}
  BY DEF Given, View
<1>2. \A p \in list : operandFromPod(p).component = p.name
  BY ComponentIs, OperandIs DEF Named
<1> QED
  BY <1>1, <1>2

\* The rules about a node's driver, its plugin and its exporter.
LEMMA PodAlarmParts ==
  ASSUME NEW in, NEW nodes, NEW slices, NEW list, NEW state, NEW off, NEW dates,
         Given(in, nodes, slices, list, Own(state, off), dates), \A p \in list : Named(p), NEW f,
         f.sev >= Warning,
         \/ f \in DriverPodNotReady(in) \/ f \in ToolkitValidationFailed(in)
         \/ f \in DevicePluginNotReady(in) \/ f \in DCGMExporterNotReady(in)
  PROVE  Parts(f, nodes, slices, list, Own(state, off), dates)
<1> DEFINE policy == Own(state, off)
<1>0. /\ \A h \in in.nodes : h \in everyNode(in) /\ ~h.hinted
      /\ \A field : OperandEnabledInPolicy(in, field) <=> field \notin off
      /\ policy.off = off
  <2>1. in.policies = <<policy>> /\ \A h \in in.nodes : h \in everyNode(in) /\ ~h.hinted
    BY DEF Given
  <2>2. \A field : OperandEnabledInPolicy(in, field) <=> field \notin off
    BY <2>1, PolicyOf, Zenon
  <2>3. policy.off = off
    BY PolicyFields
  <2> QED
    BY <2>1, <2>2, <2>3
<1>1. CASE f \in DriverPodNotReady(in)
  <2>0. PICK h \in everyNode(in) : \E pod \in h.operands :
          /\ f = Finding("NV-DRV-001", IF midUpgrade(h) THEN Info ELSE Error, h.name, pod.component)
          /\ pod.component \in {"driver", "vgpu-manager"}
          /\ ~operandDisabledOn(h, pod.component)
          /\ ~pod.ready \/ (pod.restarted /\ insideWindow(pod.died, DriverRestartWindow))
    BY <1>1 DEF DriverPodNotReady
  <2>1. PICK pod \in h.operands :
          /\ f = Finding("NV-DRV-001", IF midUpgrade(h) THEN Info ELSE Error, h.name, pod.component)
          /\ pod.component \in {"driver", "vgpu-manager"}
          /\ ~operandDisabledOn(h, pod.component)
          /\ ~pod.ready \/ (pod.restarted /\ insideWindow(pod.died, DriverRestartWindow))
    BY <2>0, Zenon
  <2>2. /\ f.code = "NV-DRV-001" /\ f.node = h.name /\ f.component = pod.component
        /\ f.sev = IF midUpgrade(h) THEN Info ELSE Error
    BY <2>1, FindingFields
  <2>3. ~midUpgrade(h) /\ f = Finding("NV-DRV-001", Error, h.name, pod.component)
    BY <2>1, <2>2 DEF Info, Warning
  <2>4. f.node \in Nodes /\ ~midUpgrade(nodes[f.node]) /\ ~operandDisabledOn(nodes[f.node], f.component)
    BY <2>1, <2>2, <2>3, SeenFacts DEF Asked
  <2>5. PICK p \in list : p.node = h.name /\ pod = operandFromPod(p) /\ pod.component = p.name
    BY SeenPods
  <2>6. Faulty(p)
    BY <2>1, <2>5, OperandIs DEF Faulty
  <2>7. OnNode(f, nodes[f.node])
    BY <2>1, <2>2, <2>3, <2>4 DEF OnNode, TargetCodes
  <2>8. OnPods(f, nodes[f.node], list, FALSE)
    BY <2>2, <2>5, <2>6 DEF OnPods, TargetCodes
  <2>9. f.code \notin {"NV-OP-001", "NV-NODE-002", "NV-DP-001", "NV-DCGM-001", "NV-UPG-001"}
    BY <2>2
  <2> QED
    BY <2>4, <2>7, <2>8, <2>9, PlainParts, Zenon
<1>2. CASE f \in ToolkitValidationFailed(in)
  <2>0. PICK h \in everyNode(in) : \E pod \in h.operands :
          /\ f = Finding("NV-CTK-001", Error, h.name, "container-toolkit")
          /\ pod.component = "validator"
          /\ \E i \in DOMAIN pod.init :
               pod.init[i].name = "toolkit-validation" /\ toolkitFailure(pod.init[i].status)
    BY <1>2 DEF ToolkitValidationFailed, operandsFor
  <2>1. PICK pod \in h.operands :
          /\ f = Finding("NV-CTK-001", Error, h.name, "container-toolkit")
          /\ pod.component = "validator"
          /\ \E i \in DOMAIN pod.init :
               pod.init[i].name = "toolkit-validation" /\ toolkitFailure(pod.init[i].status)
    BY <2>0, Zenon
  <2>2. f.code = "NV-CTK-001" /\ f.node = h.name /\ f.component = "container-toolkit"
    BY <2>1, FindingFields
  <2>3. f.node \in Nodes
    BY <2>2, SeenFacts
  <2>4. PICK p \in list : p.node = h.name /\ pod = operandFromPod(p) /\ pod.component = p.name
    BY SeenPods
  <2>5. pod.init = p.init
    BY <2>1, <2>4, OperandIs
  <2>6. Failing(p)
    BY <2>1, <2>5 DEF Failing
  <2>7. OnNode(f, nodes[f.node])
    BY <2>1, <2>2 DEF OnNode, TargetCodes
  <2>8. OnPods(f, nodes[f.node], list, FALSE)
    BY <2>1, <2>2, <2>4, <2>6 DEF OnPods, TargetCodes
  <2>9. f.code \notin {"NV-OP-001", "NV-NODE-002", "NV-DP-001", "NV-DCGM-001", "NV-UPG-001"}
    BY <2>2
  <2> QED
    BY <2>3, <2>7, <2>8, <2>9, PlainParts, Zenon
<1>3. CASE f \in DevicePluginNotReady(in)
  <2>1. PICK h \in in.nodes :
          /\ f = Finding("NV-DP-001", Error, h.name, "device-plugin")
          /\ OperandEnabledInPolicy(in, "devicePlugin")
          /\ h.mode # "dra" /\ ~operandDisabledOn(h, "device-plugin")
          /\ ~ReadyOperand(h, "device-plugin")
    BY <1>3 DEF DevicePluginNotReady
  <2>2. f.code = "NV-DP-001" /\ f.node = h.name /\ h \in everyNode(in) /\ ~h.hinted
    BY <1>0, <2>1, FindingFields
  <2>3. f.node \in Nodes /\ ~Bare(nodes[f.node])
    BY <2>1, <2>2, SeenFacts DEF View
  <2>4. ~operandDisabledOn(nodes[f.node], "device-plugin") /\ ~ReadyIn(list, f.node, "device-plugin")
    BY <2>1, <2>2, SeenFacts DEF Asked
  <2>5. OnNode(f, nodes[f.node])
    BY <2>1, <2>2, <2>3, <2>4 DEF OnNode, TargetCodes
  <2>6. /\ OnPods(f, nodes[f.node], list, FALSE) /\ OnPolicy(f, policy)
        /\ OnSlice(f, nodes[f.node], f.node \in slices) /\ Dated(f, nodes[f.node], dates)
    BY <1>0, <2>1, <2>2, <2>4 DEF OnPods, OnPolicy, OnSlice, Dated, StuckAlarm, TargetCodes
  <2> QED
    BY <2>3, <2>5, <2>6 DEF Parts
<1>4. CASE f \in DCGMExporterNotReady(in)
  <2>1. PICK h \in in.nodes :
          /\ f = Finding("NV-DCGM-001", Warning, h.name, "dcgm-exporter")
          /\ OperandEnabledInPolicy(in, "dcgmExporter")
          /\ ~operandDisabledOn(h, "dcgm-exporter")
          /\ ~ReadyOperand(h, "dcgm-exporter")
    BY <1>4 DEF DCGMExporterNotReady
  <2>2. f.code = "NV-DCGM-001" /\ f.node = h.name /\ h \in everyNode(in) /\ ~h.hinted
    BY <1>0, <2>1, FindingFields
  <2>3. f.node \in Nodes /\ (~Bare(nodes[f.node]) \/ f.node \in slices)
    BY <2>1, <2>2, SeenFacts DEF View
  <2>4. ~operandDisabledOn(nodes[f.node], "dcgm-exporter") /\ ~ReadyIn(list, f.node, "dcgm-exporter")
    BY <2>1, <2>2, SeenFacts DEF Asked
  <2>5. OnNode(f, nodes[f.node])
    BY <2>1, <2>2, <2>3, <2>4 DEF OnNode, TargetCodes
  <2>6. /\ OnPods(f, nodes[f.node], list, FALSE) /\ OnPolicy(f, policy)
        /\ OnSlice(f, nodes[f.node], f.node \in slices) /\ Dated(f, nodes[f.node], dates)
    BY <1>0, <2>1, <2>2, <2>3, <2>4 DEF OnPods, OnPolicy, OnSlice, Dated, StuckAlarm, TargetCodes
  <2> QED
    BY <2>3, <2>5, <2>6 DEF Parts
<1> QED
  BY <1>1, <1>2, <1>3, <1>4

\* The rule about upgrades.
LEMMA UpgradeAlarmParts ==
  ASSUME NEW in, NEW nodes, NEW slices, NEW list, NEW state, NEW off, NEW dates,
         Given(in, nodes, slices, list, Own(state, off), dates), \A p \in list : Named(p), NEW f,
         f.sev >= Warning, f \in UpgradeStuck(in)
  PROVE  /\ Parts(f, nodes, slices, list, Own(state, off), dates)
         /\ StuckAlarm(f) => \E h \in everyNode(in) :
              h.name = f.node /\ enteredState(in, h) # {} /\ Elapsed(in, h) >= upgradeStuckAfter
<1> DEFINE policy == Own(state, off)
           severity(h) == IF h.upgrade = UpgradeFailed THEN Error
                          ELSE IF enteredState(in, h) # {} THEN Warning ELSE Info
<1>1. PICK h \in everyNode(in) :
        /\ f = Finding("NV-UPG-001", severity(h), h.name, "node")
        /\ \/ h.upgrade = UpgradeFailed
           \/ h.upgrade \in upgradeStuckStates
              /\ (enteredState(in, h) # {} => Elapsed(in, h) >= upgradeStuckAfter)
  BY DEF UpgradeStuck
<1>2. f.code = "NV-UPG-001" /\ f.node = h.name /\ f.sev = severity(h)
  BY <1>1, FindingFields
<1>3. f.node \in Nodes /\ h.upgrade = nodes[f.node].upgrade /\ in.events = dates
  BY <1>2, SeenFacts DEF View, Given
<1>4. \/ h.upgrade = UpgradeFailed /\ severity(h) = Error
      \/ /\ h.upgrade \in upgradeStuckStates /\ enteredState(in, h) # {} /\ severity(h) = Warning
         /\ Elapsed(in, h) >= upgradeStuckAfter
  BY <1>1, <1>2 DEF Info, Warning, Error
<1>5. OnNode(f, nodes[f.node])
  BY <1>1, <1>2, <1>3, <1>4 DEF OnNode, TargetCodes
<1>6. /\ OnPods(f, nodes[f.node], list, FALSE) /\ OnPolicy(f, policy)
      /\ OnSlice(f, nodes[f.node], f.node \in slices)
  BY <1>2 DEF OnPods, OnPolicy, OnSlice, TargetCodes
<1>7. Dated(f, nodes[f.node], dates)
  <2> SUFFICES ASSUME f.sev = Warning
               PROVE  \E e \in dates : e.node = f.node /\ e.state = nodes[f.node].upgrade /\ e.at # 0
    BY DEF Dated, StuckAlarm
  <2>1. enteredState(in, h) # {}
    BY <1>2, <1>4 DEF Warning, Error
  <2> QED
    BY <1>2, <1>3, <2>1 DEF enteredState
<1>8. StuckAlarm(f) => enteredState(in, h) # {} /\ Elapsed(in, h) >= upgradeStuckAfter
  BY <1>2, <1>4 DEF Warning, Error, StuckAlarm
<1> HIDE DEF severity
<1> QED
  BY <1>2, <1>3, <1>5, <1>6, <1>7, <1>8 DEF Parts

\* Every alarm has its parts.
LEMMA AlarmParts ==
  ASSUME NEW in, NEW nodes, NEW slices, NEW list, NEW state, NEW off, NEW dates,
         Given(in, nodes, slices, list, Own(state, off), dates), \A p \in list : Named(p),
         NEW f \in AllWith(in), f.sev >= Warning
  PROVE  /\ Parts(f, nodes, slices, list, Own(state, off), dates)
         /\ StuckAlarm(f) => f \in UpgradeStuck(in)
<1>1. \/ f \in NodePCIWithoutGPULabel(in) \/ f \in NodeNoAllocatableGPUs(in)
      \/ f \in NodeAllocatableBelowCapacity(in) \/ f \in NodeCountDiffersFromCapacity(in)
      \/ f \in MIGConfigNotApplied(in)
      \/ f \in DriverPodNotReady(in) \/ f \in ToolkitValidationFailed(in)
      \/ f \in DevicePluginNotReady(in) \/ f \in DCGMExporterNotReady(in)
      \/ f \in UpgradeStuck(in) \/ f \in OperatorClusterPolicyNotReady(in)
      \/ f \in NodeConditionOrCordon(in) \/ f \in OperatorOperandDisabled(in)
      \/ f \in DevicePluginAndDRABoth(in) \/ f \in ComputeDomainNotReady(in)
      \/ f \in TopologyLabelsPartial(in)
  BY Zenon DEF AllWith
<1>2. ~(\/ f \in NodeConditionOrCordon(in) \/ f \in OperatorOperandDisabled(in)
        \/ f \in DevicePluginAndDRABoth(in) \/ f \in ComputeDomainNotReady(in)
        \/ f \in TopologyLabelsPartial(in))
  <2>1. f \notin NodeConditionOrCordon(in)
    BY FindingFields DEF NodeConditionOrCordon, Info, Warning
  <2>2. f \notin OperatorOperandDisabled(in)
    BY FindingFields DEF OperatorOperandDisabled, Info, Warning
  <2>3. f \notin DevicePluginAndDRABoth(in)
    BY FindingFields DEF DevicePluginAndDRABoth, Info, Warning
  <2>4. f \notin ComputeDomainNotReady(in)
    <3>1. f \in ComputeDomainNotReady(in) => \E m, c : f = Finding("NV-CD-001", Info, m, c)
      BY Zenon DEF ComputeDomainNotReady
    <3> QED
      BY <3>1, FindingFields DEF Info, Warning
  <2>5. f \notin TopologyLabelsPartial(in)
    BY FindingFields DEF TopologyLabelsPartial, Info, Warning
  <2> QED
    BY <2>1, <2>2, <2>3, <2>4, <2>5, Zenon
<1>3. CASE f \in OperatorClusterPolicyNotReady(in)
  <2>1. in.policies = <<Own(state, off)>>
    BY DEF Given
  <2>2. state # "ready" /\ f = Finding("NV-OP-001", Error, Cluster, "gpu-operator")
    BY <1>3, <2>1, PolicyOf
  <2>3. ~IsReady(Own(state, off))
    BY <2>1, <2>2, PolicyOf
  <2>4. f.code = "NV-OP-001"
    BY <2>2, FindingFields
  <2> QED
    BY <2>2, <2>3, <2>4 DEF Parts, OnPolicy, OnCluster, StuckAlarm
<1>4. CASE f \in UpgradeStuck(in)
  BY <1>4, UpgradeAlarmParts, Zenon
<1>5. CASE \/ f \in NodePCIWithoutGPULabel(in) \/ f \in NodeNoAllocatableGPUs(in)
           \/ f \in NodeAllocatableBelowCapacity(in) \/ f \in NodeCountDiffersFromCapacity(in)
           \/ f \in MIGConfigNotApplied(in)
  <2>1. Parts(f, nodes, slices, list, Own(state, off), dates)
    BY <1>5, NodeAlarmParts, Zenon
  <2>2. f.code # "NV-UPG-001"
    BY <1>5, FindingFields DEF NodePCIWithoutGPULabel, NodeNoAllocatableGPUs,
          NodeAllocatableBelowCapacity, NodeCountDiffersFromCapacity, MIGConfigNotApplied
  <2> QED
    BY <2>1, <2>2, Zenon DEF StuckAlarm
<1>6. CASE \/ f \in DriverPodNotReady(in) \/ f \in ToolkitValidationFailed(in)
           \/ f \in DevicePluginNotReady(in) \/ f \in DCGMExporterNotReady(in)
  <2>1. Parts(f, nodes, slices, list, Own(state, off), dates)
    BY <1>6, PodAlarmParts, Zenon
  <2>2. f.code # "NV-UPG-001"
    BY <1>6, FindingFields DEF DriverPodNotReady, ToolkitValidationFailed,
          DevicePluginNotReady, DCGMExporterNotReady
  <2> QED
    BY <2>1, <2>2, Zenon DEF StuckAlarm
<1> QED
  BY <1>1, <1>2, <1>3, <1>4, <1>5, <1>6, Zenon

-----------------------------------------------------------------------------
(* The alarms of a moment. *)

\* The pods of the operator's namespace are all that a rule which alarms looks at.
LEMMA SpacedPods ==
  ASSUME ClusterInv
  PROVE  /\ \A p \in pods : Named(p)
         /\ \A p \in pods : p \in Spaced <=> p.name \notin Outside
         /\ \A n, role : role \notin Outside => OperandsIn(Spaced, n, role) = OperandsIn(pods, n, role)
         /\ \A n, role : role \notin Outside => (ReadyIn(Spaced, n, role) <=> ReadyIn(pods, n, role))
<1>1. \A p \in pods : Named(p)
  BY DEF ClusterInv, PodInv, PodOk, Named
<1>2. \A p \in pods : p \in Spaced <=> p.name \notin Outside
  BY <1>1 DEF Spaced, Named
<1>3. ASSUME NEW n, NEW role, role \notin Outside
      PROVE  OperandsIn(Spaced, n, role) = OperandsIn(pods, n, role)
  <2>1. {q \in Spaced : q.node = n /\ q.name = role} = {q \in pods : q.node = n /\ q.name = role}
    BY <1>2, <1>3 DEF Spaced
  <2> QED
    BY <2>1 DEF OperandsIn
<1>4. ASSUME NEW n, NEW role, role \notin Outside
      PROVE  ReadyIn(Spaced, n, role) <=> ReadyIn(pods, n, role)
  <2>1. PICK O : O = OperandsIn(Spaced, n, role) /\ O = OperandsIn(pods, n, role)
    BY <1>3, <1>4
  <2>2. ReadyIn(Spaced, n, role) <=> O # {} /\ (CHOOSE pod \in O : TRUE).ready
    BY <2>1 DEF ReadyIn
  <2>3. ReadyIn(pods, n, role) <=> O # {} /\ (CHOOSE pod \in O : TRUE).ready
    BY <2>1 DEF ReadyIn
  <2> QED
    BY <2>2, <2>3
<1> QED
  BY <1>1, <1>2, <1>3, <1>4

\* Who runs the DRA driver runs the validator too, or nothing is targeted.
LEMMA AdmittedInSpace ==
  ASSUME ClusterInv, NEW n \in Nodes, ~everyOperandDisabled(node[n]), Admits(n, node[n], pods)
  PROVE  Admits(n, node[n], Spaced)
<1>1. CASE ~everyOperandTaintedOff(node[n], OwnTolerations)
  BY <1>1 DEF Admits
<1>2. CASE \E role \in deployGatedComponents : \E p \in pods : p.node = n /\ p.name = role
  <2>1. PICK p \in pods : p.node = n /\ p.name \in deployGatedComponents
    BY <1>2
  <2>2. CASE p.name \notin Outside
    BY <2>1, <2>2, SpacedPods DEF Admits
  <2>3. CASE p.name \in Outside
    <3>1. p.name = "dra-driver"
      BY <2>1, <2>3 DEF Outside, deployGatedComponents
    <3>2. Runs(n, "validator") \/ AllOff(n)
      BY <2>1, <3>1 DEF ClusterInv, RoleInv, Runs
    <3>3. ~AllOff(n)
      BY DEF ClusterInv, NodeInv, NodeOk, AllOff, everyOperandDisabled, DeployKeys
    <3>4. PICK q \in pods : q.node = n /\ q.name = "validator"
      BY <3>2, <3>3 DEF Runs
    <3>5. q \in Spaced
      BY <3>4, SpacedPods DEF Outside
    <3> QED
      BY <3>4, <3>5 DEF Admits, deployGatedComponents
  <2> QED
    BY <2>2, <2>3
<1> QED
  BY <1>1, <1>2 DEF Admits

\* What a rule asks of all pods is so of those of the namespace.
LEMMA OnSpaced ==
  ASSUME ClusterInv, NEW f, f.node \in Nodes, OnNode(f, node[f.node]),
         OnPods(f, node[f.node], pods, FALSE)
  PROVE  OnPods(f, node[f.node], Spaced, FALSE)
<1> DEFINE n == f.node
           g == node[n]
<1>1. f.code \in TargetCodes => Admits(n, g, Spaced)
  BY AdmittedInSpace DEF OnPods, OnNode
<1>2. f.code = "NV-DRV-001" => \E p \in Spaced : p.node = n /\ p.name = f.component /\ Faulty(p)
  <2> SUFFICES ASSUME f.code = "NV-DRV-001"
               PROVE  \E p \in Spaced : p.node = n /\ p.name = f.component /\ Faulty(p)
    OBVIOUS
  <2>1. f.component \in {"driver", "vgpu-manager"}
    BY FindingFields DEF OnNode, MIGFinding
  <2>2. PICK p \in pods : p.node = n /\ p.name = f.component /\ Faulty(p)
    BY DEF OnPods
  <2>3. p \in Spaced
    BY <2>1, <2>2, SpacedPods DEF Outside
  <2> QED
    BY <2>2, <2>3
<1>3. f.code = "NV-CTK-001" => \E p \in Spaced : p.node = n /\ p.name = "validator" /\ Failing(p)
  BY SpacedPods DEF OnPods, Outside
<1>4. /\ f.code = "NV-DP-001" => ~ReadyIn(Spaced, n, "device-plugin")
      /\ f.code = "NV-DCGM-001" => ~ReadyIn(Spaced, n, "dcgm-exporter")
  BY SpacedPods DEF OnPods, Outside
<1> QED
  BY <1>1, <1>2, <1>3, <1>4 DEF OnPods

\* What the rules are given of the cluster as it is.
LEMMA LiveIsGiven ==
  ASSUME ClusterInv, Len(policies) = 1
  PROVE  Given(Input(Live({})), node, Sliced, pods, policies[1], events)
<1> DEFINE r == Live({})
<1>1. /\ r.nodes = node /\ r.pods = pods /\ r.slices = Sliced
      /\ r.operator = {p \in pods : Label(p, "app") = "gpu-operator"}
      /\ r.policies = policies /\ r.events = events
  BY Reading DEF Sliced
<1>2. policies = <<policies[1]>>
  BY DEF ClusterInv, PolicyInv
<1>3. \E q \in pods : q.name = "gpu-operator" /\ Label(q, "app") = "gpu-operator"
  BY MergedPods DEF ClusterInv
<1>4. DOMAIN node = Nodes /\ \A n \in Nodes : NodeOk(node[n])
  BY DEF ClusterInv, NodeInv
<1>5. \A p \in pods : Named(p)
  BY SpacedPods
<1> HIDE DEF r
<1>6. Given(Input(r), r.nodes, r.slices, r.pods, policies[1], r.events)
  BY <1>1, <1>2, <1>3, <1>4, <1>5, ReadingIsGiven
<1> QED
  BY <1>1, <1>6 DEF r

\* The alarms of a moment have their parts in it, and those that are stuck are overdue.
LEMMA MomentParts ==
  ASSUME ClusterInv, DateInv, Len(policies) = 1, NEW f \in Alarms({})
  PROVE  Parts(f, node, Sliced, Spaced, policies[1], events) /\ Overdue(f, events)
<1> DEFINE in == Input(Live({}))
<1>1. f \in AllWith(in) /\ f.sev >= Warning
  BY DEF Alarms, Findings
<1> HIDE DEF in
<1>2. PICK state, off : policies[1] = Own(state, off)
  BY DEF ClusterInv, PolicyInv
<1>3. Given(in, node, Sliced, pods, Own(state, off), events)
  BY <1>2, LiveIsGiven DEF in
<1>4. \A p \in pods : Named(p)
  BY SpacedPods
<1>5. /\ Parts(f, node, Sliced, pods, Own(state, off), events)
      /\ StuckAlarm(f) => f \in UpgradeStuck(in)
  BY <1>1, <1>3, <1>4, AlarmParts, Zenon
<1>6. Parts(f, node, Sliced, Spaced, Own(state, off), events)
  BY <1>5, OnSpaced DEF Parts
<1>7. Overdue(f, events)
  <2> SUFFICES ASSUME StuckAlarm(f), NEW e \in events, e.node = f.node
               PROVE  now - e.at >= upgradeStuckAfter
    BY DEF Overdue
  <2>1. PICK h \in everyNode(in) :
          h.name = f.node /\ enteredState(in, h) # {} /\ Elapsed(in, h) >= upgradeStuckAfter
    BY <1>1, <1>3, <1>4, <1>5, UpgradeAlarmParts, Zenon
  <2>2. /\ h.name \in Nodes /\ h.upgrade = node[h.name].upgrade /\ in.events = events
    BY <1>3 DEF Given, View
  <2>3. Elapsed(in, h) = now - since[h.name]
    BY <2>1, <2>2, NewestEvent
  <2>4. e.at <= since[h.name] /\ e.at \in Nat /\ now \in Nat /\ since[h.name] \in Nat
    BY <2>1, <2>2 DEF DateInv, ClusterInv, EventInv
  <2>5. upgradeStuckAfter \in Int
    BY WindowsAssumption DEF upgradeStuckAfter
  <2> QED
    BY <2>1, <2>3, <2>4, <2>5
<1> QED
  BY <1>2, <1>6, <1>7

-----------------------------------------------------------------------------
(* From the parts of an alarm back to it. *)

\* All parts that were kept of an alarm, some of them later than others.
Kept(f, nodes, slices, list, policy, dates, late) ==
  LET g == nodes[f.node]
  IN /\ OnPolicy(f, policy)
     /\ \/ OnCluster(f)
        \/ /\ f.node \in Nodes /\ OnNode(f, g) /\ OnSlice(f, g, f.node \in slices)
           /\ OnPods(f, g, list, late) /\ (late \/ Dated(f, g, dates)) /\ Overdue(f, dates)

\* A pod of which only the projection is known is ready for nobody.
LEMMA MergedReady ==
  ASSUME NEW list, \A p \in list : Named(p) /\ p.name \notin Outside,
         NEW asking, \A p \in asking : Named(p) /\ p.statuses = <<>>,
         NEW n, NEW role, role \notin Outside, ~ReadyIn(list, n, role)
  PROVE  ~ReadyIn(mergePods(list, asking), n, role)
<1> DEFINE merged == mergePods(list, asking)
           of(l) == {q \in l : q.node = n /\ q.name = role}
<1>1. CASE of(list) = {}
  <2>1. \A p \in of(merged) : ~operandFromPod(p).ready
    BY <1>1, OperandIs DEF mergePods, allReady
  <2>2. \A pod \in OperandsIn(merged, n, role) : ~pod.ready
    BY <2>1 DEF OperandsIn
  <2> HIDE DEF merged
  <2>3. PICK O : O = OperandsIn(merged, n, role)
    OBVIOUS
  <2>4. O # {} => (CHOOSE pod \in O : TRUE) \in O
    OBVIOUS
  <2>5. ReadyIn(merged, n, role) <=> O # {} /\ (CHOOSE pod \in O : TRUE).ready
    BY <2>3 DEF ReadyIn
  <2> QED
    BY <2>2, <2>3, <2>4, <2>5 DEF merged
<1>2. CASE of(list) # {}
  <2>1. PICK p \in list : p.node = n /\ p.name = role
    BY <1>2
  <2>2. \A q \in asking : q.node = n /\ q.name = role => SamePod(q, p)
    BY <2>1 DEF SamePod, Named
  <2>3. of(merged) = of(list)
    BY <2>1, <2>2 DEF mergePods
  <2>4. PICK O : O = OperandsIn(merged, n, role) /\ O = OperandsIn(list, n, role)
    BY <2>3 DEF OperandsIn
  <2>5. ReadyIn(merged, n, role) <=> O # {} /\ (CHOOSE pod \in O : TRUE).ready
    BY <2>4 DEF ReadyIn
  <2>6. ReadyIn(list, n, role) <=> O # {} /\ (CHOOSE pod \in O : TRUE).ready
    BY <2>4 DEF ReadyIn
  <2> QED
    BY <2>5, <2>6
<1> QED
  BY <1>1, <1>2

\* So the pods that only ask for GPUs take no part of an alarm away.
LEMMA MergedParts ==
  ASSUME NEW list, \A p \in list : Named(p) /\ p.name \notin Outside,
         NEW asking, \A p \in asking : Named(p) /\ p.statuses = <<>>,
         NEW f, NEW g, NEW late, OnPods(f, g, list, late)
  PROVE  OnPods(f, g, mergePods(list, asking), late)
<1>1. list \subseteq mergePods(list, asking)
  BY DEF mergePods
<1>2. f.code \in TargetCodes => Admits(f.node, g, mergePods(list, asking))
  BY <1>1 DEF OnPods, Admits
<1>3. /\ f.code = "NV-DP-001" => ~ReadyIn(mergePods(list, asking), f.node, "device-plugin")
      /\ f.code = "NV-DCGM-001" => ~ReadyIn(mergePods(list, asking), f.node, "dcgm-exporter")
  BY MergedReady DEF OnPods, Outside
<1> QED
  BY <1>1, <1>2, <1>3 DEF OnPods

\* A rule about a node's object finds again what was kept of its alarm.
LEMMA NodeAlarmFound ==
  ASSUME NEW in, NEW nodes, NEW slices, NEW list, NEW state, NEW off, NEW dates, NEW late,
         Given(in, nodes, slices, list, Own(state, off), dates), \A p \in list : Named(p), NEW f,
         f.node \in Nodes, NodeOk(nodes[f.node]),
         OnNode(f, nodes[f.node]), OnSlice(f, nodes[f.node], f.node \in slices),
         OnPods(f, nodes[f.node], list, late), f.code \in TargetCodes
  PROVE  f \in AllWith(in)
<1> DEFINE g == nodes[f.node]
<1>1. PICK h \in everyNode(in) : h.name = f.node
  BY DEF Given
<1>2. /\ View(h, f.node, g, f.node \in slices, list) /\ Asked(h, g)
      /\ Targeted(in, h) <=> ~everyOperandDisabled(g) /\ Admits(f.node, g, list)
  BY <1>1, SeenFacts, Zenon
<1>3. Targeted(in, h)
  BY <1>2 DEF OnNode, OnPods
<1>4. in.installed /\ (~h.hinted => h \in in.nodes)
  BY DEF Given
<1>5. CASE f = Finding("NV-NODE-001", Warning, f.node, "node") /\ g.pci /\ ~g.present
  <2>1. f \in NodePCIWithoutGPULabel(in)
    BY <1>1, <1>2, <1>3, <1>4, <1>5 DEF NodePCIWithoutGPULabel, View
  <2> QED
    BY <2>1, Zenon DEF AllWith
<1>6. CASE /\ f = Finding("NV-NODE-002", Error, f.node, "node")
           /\ g.present /\ wholeGPUs(g.alloc) <= 0 /\ ~isVirtualMachineWorkload(g) /\ ~isMixedMIG(g)
  <2>1. h.present /\ h.allocatable <= 0 /\ h.mode # "dra"
    BY <1>2, <1>6, FindingFields DEF View, OnSlice
  <2>2. ~isVirtualMachineWorkload(h) /\ ~isMixedMIG(h)
    BY <1>2, <1>6 DEF Asked
  <2>3. f \in NodeNoAllocatableGPUs(in)
    BY <1>1, <1>3, <1>6, <2>1, <2>2 DEF NodeNoAllocatableGPUs
  <2> QED
    BY <2>3, Zenon DEF AllWith
<1>7. CASE /\ f = Finding("NV-NODE-003", Warning, f.node, "node")
           /\ wholeGPUs(g.alloc) > 0 /\ wholeGPUs(g.alloc) < wholeGPUs(g.cap)
  <2>1. ~Bare(g)
    BY <1>7 DEF NodeOk, Resources, wholeGPUs, Bare
  <2>2. h \in in.nodes /\ h.allocatable > 0 /\ h.allocatable < h.capacity
    BY <1>2, <1>4, <1>7, <2>1 DEF View
  <2>3. f \in NodeAllocatableBelowCapacity(in)
    BY <1>1, <1>3, <1>7, <2>2 DEF NodeAllocatableBelowCapacity
  <2> QED
    BY <2>3, Zenon DEF AllWith
<1>8. CASE /\ f = Finding("NV-NODE-004", Warning, f.node, "node")
           /\ ~Bare(g) /\ g.count > 0 /\ ~isMixedMIG(g)
           /\ g.count * replicaFactor(g) # wholeGPUs(g.cap)
  <2>1. h \in in.nodes /\ h.mode # "dra" /\ h.count = g.count /\ h.capacity = wholeGPUs(g.cap)
    BY <1>2, <1>4, <1>8 DEF View
  <2>2. ~isMixedMIG(h) /\ replicaFactor(h) = replicaFactor(g)
    BY <1>2, <1>8 DEF Asked
  <2>3. h.count > 0 /\ h.count * replicaFactor(h) # h.capacity
    BY <1>8, <2>1, <2>2
  <2>4. f \in NodeCountDiffersFromCapacity(in)
    BY <1>1, <1>3, <1>8, <2>1, <2>2, <2>3 DEF NodeCountDiffersFromCapacity
  <2> QED
    BY <2>4, Zenon DEF AllWith
<1>9. CASE /\ f = MIGFinding(g, f.node)
           /\ ~isVirtualMachineWorkload(g) /\ (configFinding(g) \/ strategyFinding(g))
  <2>1. /\ f = MIGFinding(h, h.name)
        /\ ~isVirtualMachineWorkload(h) /\ (configFinding(h) \/ strategyFinding(h))
    BY <1>1, <1>2, <1>9 DEF Asked
  <2>2. f \in MIGConfigNotApplied(in)
    BY <1>3, <2>1 DEF MIGConfigNotApplied, MIGFinding
  <2> QED
    BY <2>2, Zenon DEF AllWith
<1> QED
  BY <1>5, <1>6, <1>7, <1>8, <1>9, FindingFields DEF OnNode, TargetCodes

\* So does a rule about its pods, unless the driver was looked at too late.
LEMMA PodAlarmFound ==
  ASSUME NEW in, NEW nodes, NEW slices, NEW list, NEW state, NEW off, NEW dates, NEW late,
         Given(in, nodes, slices, list, Own(state, off), dates), \A p \in list : Named(p), NEW f,
         f.node \in Nodes, OnPolicy(f, Own(state, off)),
         OnNode(f, nodes[f.node]), OnSlice(f, nodes[f.node], f.node \in slices),
         OnPods(f, nodes[f.node], list, late),
         f.code \in {"NV-DRV-001", "NV-CTK-001", "NV-DP-001", "NV-DCGM-001"}
  PROVE  f \in AllWith(in) \/ (late /\ f.code = "NV-DRV-001")
<1> DEFINE g == nodes[f.node]
           policy == Own(state, off)
<1>1. PICK h \in everyNode(in) : h.name = f.node
  BY DEF Given
<1>2. /\ View(h, f.node, g, f.node \in slices, list) /\ Asked(h, g)
      /\ \A role : ReadyOperand(h, role) <=> ReadyIn(list, f.node, role)
  BY <1>1, SeenFacts, Zenon
<1>3. in.installed /\ (~h.hinted => h \in in.nodes)
  BY DEF Given
<1>4. \A field : OperandEnabledInPolicy(in, field) <=> field \notin off
  <2>1. in.policies = <<policy>>
    BY DEF Given
  <2> QED
    BY <2>1, PolicyOf, Zenon
<1>5. policy.off = off
  BY PolicyFields
<1>6. \A p \in list : p.node = h.name =>
        operandFromPod(p) \in h.operands /\ operandFromPod(p).component = p.name
  BY SeenPods
<1>7. CASE f.code = "NV-DRV-001"
  <2>1. /\ f = Finding("NV-DRV-001", Error, f.node, f.component)
        /\ f.component \in {"driver", "vgpu-manager"}
        /\ ~midUpgrade(g) /\ ~operandDisabledOn(g, f.component)
    BY <1>7, FindingFields DEF OnNode, MIGFinding
  <2>2. CASE ~late
    <3>1. PICK p \in list : p.node = f.node /\ p.name = f.component /\ Faulty(p)
      BY <1>7, <2>2 DEF OnPods
    <3>2. PICK pod \in h.operands : pod = operandFromPod(p) /\ pod.component = f.component
      BY <1>1, <1>6, <3>1
    <3>3. ~pod.ready \/ (pod.restarted /\ insideWindow(pod.died, DriverRestartWindow))
      BY <3>1, <3>2, OperandIs DEF Faulty
    <3>4. ~midUpgrade(h) /\ ~operandDisabledOn(h, pod.component)
      BY <1>2, <2>1, <3>2 DEF Asked
    <3>5. f = Finding("NV-DRV-001", IF midUpgrade(h) THEN Info ELSE Error, h.name, pod.component)
      BY <1>1, <2>1, <3>2, <3>4
    <3>6. f \in DriverPodNotReady(in)
      BY <1>3, <2>1, <3>2, <3>3, <3>4, <3>5 DEF DriverPodNotReady
    <3> QED
      BY <3>6, Zenon DEF AllWith
  <2> QED
    BY <1>7, <2>2
<1>8. CASE f.code = "NV-CTK-001"
  <2>1. f = Finding("NV-CTK-001", Error, h.name, "container-toolkit")
    BY <1>1, <1>8, FindingFields DEF OnNode, MIGFinding
  <2>2. PICK p \in list : p.node = f.node /\ p.name = "validator" /\ Failing(p)
    BY <1>8 DEF OnPods
  <2>3. PICK pod \in h.operands : pod = operandFromPod(p) /\ pod.component = "validator"
    BY <1>1, <1>6, <2>2
  <2>4. pod.init = p.init
    BY <2>3, OperandIs
  <2>5. pod \in operandsFor(h, "validator")
    BY <2>3 DEF operandsFor
  <2>6. \E i \in DOMAIN pod.init :
          pod.init[i].name = "toolkit-validation" /\ toolkitFailure(pod.init[i].status)
    BY <2>2, <2>4 DEF Failing
  <2>7. f \in ToolkitValidationFailed(in)
    BY <1>3, <2>1, <2>5, <2>6 DEF ToolkitValidationFailed
  <2> QED
    BY <2>7, Zenon DEF AllWith
<1>9. CASE f.code = "NV-DP-001"
  <2>1. /\ f = Finding("NV-DP-001", Error, h.name, "device-plugin")
        /\ ~Bare(g) /\ ~operandDisabledOn(g, "device-plugin")
    BY <1>1, <1>9, FindingFields DEF OnNode, MIGFinding
  <2>2. h \in in.nodes /\ h.mode # "dra"
    BY <1>2, <1>3, <2>1 DEF View
  <2>3. ~operandDisabledOn(h, "device-plugin")
    BY <1>2, <2>1 DEF Asked
  <2>4. ~ReadyOperand(h, "device-plugin")
    BY <1>2, <1>9 DEF OnPods
  <2>5. OperandEnabledInPolicy(in, "devicePlugin")
    BY <1>4, <1>5, <1>9 DEF OnPolicy
  <2>6. f \in DevicePluginNotReady(in)
    BY <1>3, <2>1, <2>2, <2>3, <2>4, <2>5 DEF DevicePluginNotReady
  <2> QED
    BY <2>6, Zenon DEF AllWith
<1>10. CASE f.code = "NV-DCGM-001"
  <2>1. /\ f = Finding("NV-DCGM-001", Warning, h.name, "dcgm-exporter")
        /\ ~operandDisabledOn(g, "dcgm-exporter")
    BY <1>1, <1>10, FindingFields DEF OnNode, MIGFinding
  <2>2. h \in in.nodes
    BY <1>2, <1>3, <1>10 DEF View, OnSlice
  <2>3. ~operandDisabledOn(h, "dcgm-exporter")
    BY <1>2, <2>1 DEF Asked
  <2>4. ~ReadyOperand(h, "dcgm-exporter")
    BY <1>2, <1>10 DEF OnPods
  <2>5. OperandEnabledInPolicy(in, "dcgmExporter")
    BY <1>4, <1>5, <1>10 DEF OnPolicy
  <2>6. f \in DCGMExporterNotReady(in)
    BY <1>3, <2>1, <2>2, <2>3, <2>4, <2>5 DEF DCGMExporterNotReady
  <2> QED
    BY <2>6, Zenon DEF AllWith
<1> QED
  BY <1>7, <1>8, <1>9, <1>10

\* So does the rule about upgrades, with or without the event that dates the step.
LEMMA UpgradeFound ==
  ASSUME NEW in, NEW nodes, NEW slices, NEW list, NEW state, NEW off, NEW dates, NEW late,
         Given(in, nodes, slices, list, Own(state, off), dates), \A p \in list : Named(p), NEW f,
         f.node \in Nodes, OnNode(f, nodes[f.node]), late \/ Dated(f, nodes[f.node], dates),
         Overdue(f, dates), Newest(dates), \A e \in dates : e.at \in Nat \ {0}, f.code = "NV-UPG-001"
  PROVE  f \in AllWith(in) \/ (late /\ [f EXCEPT !.sev = Info] \in AllWith(in))
<1> DEFINE g == nodes[f.node]
           severity(h) == IF h.upgrade = UpgradeFailed THEN Error
                          ELSE IF enteredState(in, h) # {} THEN Warning ELSE Info
<1>1. PICK h \in everyNode(in) : h.name = f.node
  BY DEF Given
<1>2. h.upgrade = g.upgrade /\ in.events = dates
  BY <1>1 DEF Given, View
<1>3. (\/ h.upgrade = UpgradeFailed
       \/ h.upgrade \in upgradeStuckStates
          /\ (enteredState(in, h) # {} => Elapsed(in, h) >= upgradeStuckAfter))
      => Finding("NV-UPG-001", severity(h), h.name, "node") \in UpgradeStuck(in)
  BY DEF UpgradeStuck
<1>4. UpgradeStuck(in) \subseteq AllWith(in)
  BY Zenon DEF AllWith
<1>5. \/ f = Finding("NV-UPG-001", Error, f.node, "node") /\ g.upgrade = UpgradeFailed
      \/ f = Finding("NV-UPG-001", Warning, f.node, "node") /\ g.upgrade \in upgradeStuckStates
  BY FindingFields DEF OnNode, MIGFinding
<1>6. CASE f = Finding("NV-UPG-001", Error, f.node, "node") /\ g.upgrade = UpgradeFailed
  BY <1>1, <1>2, <1>3, <1>4, <1>6
<1>7. CASE f = Finding("NV-UPG-001", Warning, f.node, "node") /\ g.upgrade \in upgradeStuckStates
  <2>1. StuckAlarm(f) /\ h.upgrade # UpgradeFailed
    BY <1>2, <1>7, FindingFields DEF StuckAlarm, upgradeStuckStates, UpgradeFailed
  <2>2. CASE enteredState(in, h) # {}
    <3> DEFINE S == enteredState(in, h)
               e == CHOOSE d \in S : \A c \in S : c.at <= d.at
    <3>1. S = {d \in dates : d.node = f.node /\ d.state = h.upgrade /\ d.at # 0}
      BY <1>1, <1>2 DEF enteredState
    <3>2. \E d \in S : \A c \in S : c.at <= d.at
      <4>1. PICK d \in dates : d.node = f.node /\ d.state = h.upgrade /\ d.at # 0
        BY <2>2, <3>1
      <4>2. PICK m \in dates : /\ m.node = d.node /\ m.state = d.state
                               /\ \A c \in dates : c.node = d.node /\ c.state = d.state => c.at <= m.at
        BY DEF Newest
      <4> QED
        BY <3>1, <4>1, <4>2
    <3>3. Elapsed(in, h) = now - e.at
      BY DEF Elapsed
    <3> HIDE DEF S
    <3>4. e \in S
      BY <3>2
    <3> HIDE DEF e
    <3>5. now - e.at >= upgradeStuckAfter
      BY <2>1, <3>1, <3>4 DEF Overdue
    <3>6. severity(h) = Warning
      BY <2>1, <2>2
    <3> QED
      BY <1>1, <1>2, <1>3, <1>4, <1>7, <2>2, <3>3, <3>5, <3>6
  <2>3. CASE enteredState(in, h) = {}
    <3>1. late
      BY <1>1, <1>2, <2>1, <2>3 DEF Dated, enteredState
    <3>2. severity(h) = Info
      BY <2>1, <2>3
    <3>3. [f EXCEPT !.sev = Info] = Finding("NV-UPG-001", Info, h.name, "node")
      BY <1>1, <1>7 DEF Finding
    <3> QED
      BY <1>2, <1>3, <1>4, <1>7, <2>3, <3>1, <3>2, <3>3
  <2> QED
    BY <2>2, <2>3
<1> QED
  BY <1>5, <1>6, <1>7

\* Whose parts were all kept, that alarm is found again.
LEMMA KeptIsFound ==
  ASSUME NEW in, NEW nodes, NEW slices, NEW list, NEW state, NEW off, NEW dates, NEW late,
         Given(in, nodes, slices, list, Own(state, off), dates), \A p \in list : Named(p),
         \A n \in Nodes : NodeOk(nodes[n]), Newest(dates), \A e \in dates : e.at \in Nat \ {0}, NEW f,
         Kept(f, nodes, slices, list, Own(state, off), dates, late)
  PROVE  \/ f \in AllWith(in)
         \/ late /\ f.code = "NV-DRV-001"
         \/ late /\ f.code = "NV-UPG-001" /\ [f EXCEPT !.sev = Info] \in AllWith(in)
<1> DEFINE g == nodes[f.node]
           policy == Own(state, off)
<1>1. CASE OnCluster(f)
  <2>1. f.code = "NV-OP-001" /\ f = Finding("NV-OP-001", Error, Cluster, "gpu-operator")
    BY <1>1, FindingFields DEF OnCluster
  <2>2. in.policies = <<policy>> /\ ~IsReady(policy)
    BY <2>1 DEF Given, Kept, OnPolicy
  <2>3. f \in OperatorClusterPolicyNotReady(in)
    BY <2>1, <2>2, PolicyOf
  <2> QED
    BY <2>3, Zenon DEF AllWith
<1>2. CASE ~OnCluster(f)
  <2>1. /\ f.node \in Nodes /\ OnNode(f, g) /\ OnSlice(f, g, f.node \in slices) /\ OnPolicy(f, policy)
        /\ OnPods(f, g, list, late) /\ (late \/ Dated(f, g, dates)) /\ Overdue(f, dates)
    BY <1>2, Zenon DEF Kept
  <2>2. NodeOk(g)
    BY <2>1
  <2>3. \/ f.code \in TargetCodes \/ f.code = "NV-UPG-001"
        \/ f.code \in {"NV-DRV-001", "NV-CTK-001", "NV-DP-001", "NV-DCGM-001"}
    BY <2>1, FindingFields DEF OnNode, TargetCodes, MIGFinding
  <2>4. CASE f.code \in TargetCodes
    BY <2>1, <2>2, <2>4, NodeAlarmFound, Zenon
  <2>5. CASE f.code = "NV-UPG-001"
    BY <2>1, <2>5, UpgradeFound, Zenon
  <2>6. CASE f.code \in {"NV-DRV-001", "NV-CTK-001", "NV-DP-001", "NV-DCGM-001"}
    BY <2>1, <2>6, PodAlarmFound, Zenon
  <2> QED
    BY <2>3, <2>4, <2>5, <2>6
<1> QED
  BY <1>1, <1>2

\* What is read of a bundle that lacks nothing is what stands in its files.
LEMMA ReadBack ==
  ASSUME IInv, Whole, bundle["cluster_policy"].kind = "file",
         NEW state, NEW off, Content("cluster_policy") = Own(state, off)
  PROVE  LET r == Replay.reading IN
         /\ r.nodes = Content("nodes") /\ r.slices = Content("resourceslices")
         /\ r.pods = mergePods(Content("gpu_operand_pods"), Content("gpu_pods"))
         /\ r.operator = {p \in r.pods : Label(p, "app") = "gpu-operator"}
         /\ r.policies = <<Own(state, off)>> /\ r.events = Content("node_events")
<1>1. Gathered /\ lost = {}
  BY DEF Whole
<1>2. \A f \in Files \ {"cluster_policy", "compute_domains"} : bundle[f].kind = "file"
  <2> TAKE f \in Files \ {"cluster_policy", "compute_domains"}
  <2>1. readYAML(f, {}).missing = {}
    BY <1>1, PlainRead
  <2> QED
    BY <1>1, <2>1, ReadNames
<1>3. {"nodes", "resourceslices", "gpu_pods", "node_events", "gpu_operand_pods"}
        \subseteq Files \ {"cluster_policy", "compute_domains"}
  BY FileNames
<1>4. ASSUME NEW f, bundle[f].kind = "file", NEW nothing
      PROVE  readYAML(f, nothing).got = Content(f) /\ readYAML(f, nothing).missing = {}
  <2>1. readYAML(f, nothing) = Answer(bundle[f].content, {})
    BY <1>4 DEF readYAML
  <2> QED
    BY <2>1 DEF Answer, Content
<1>5. ResourceSlices.got = Content("resourceslices") /\ ResourceSlices.missing = {}
  BY <1>2, <1>3, <1>4 DEF ResourceSlices
<1>6. ClassifyNodes.got = Content("nodes")
  <2>1. readYAML("nodes", <<>>).got = Content("nodes") /\ readYAML("nodes", <<>>).missing = {}
    BY <1>2, <1>3, <1>4
  <2>2. ClassifyNodes = Answer(Content("nodes"), {})
    BY <1>5, <2>1, Zenon DEF ClassifyNodes
  <2> QED
    BY <2>2 DEF Answer
<1>7. Pods.got = mergePods(Content("gpu_operand_pods"), Content("gpu_pods"))
  <2>1. /\ readYAML("gpu_operand_pods", {}).got = Content("gpu_operand_pods")
        /\ readYAML("gpu_operand_pods", {}).missing = {}
        /\ readYAML("gpu_pods", {}).got = Content("gpu_pods") /\ readYAML("gpu_pods", {}).missing = {}
    BY <1>2, <1>3, <1>4
  <2>2. Pods = Answer(mergePods(Content("gpu_operand_pods"), Content("gpu_pods")), {})
    BY <2>1, Zenon DEF Pods
  <2> QED
    BY <2>2 DEF Answer
<1>8. NodeEvents.got = Content("node_events")
  BY <1>2, <1>3, <1>4 DEF NodeEvents
<1>9. ClusterPolicies.got = <<Own(state, off)>>
  <2> DEFINE file == readYAML("cluster_policy", <<>>)
             none == [name |-> "", state |-> "", off |-> {}, tolerations |-> {}]
  <2>1. file.got = Own(state, off) /\ file.missing = {}
    BY <1>4
  <2>2. "items" \notin DOMAIN Own(state, off)
    BY DEF Own
  <2>3. ClusterPolicies =
          IF file.missing = {} THEN Answer(<<IF "items" \in DOMAIN file.got THEN none ELSE file.got>>, {})
          ELSE markerReason("cluster_policy", file)
    BY Zenon DEF ClusterPolicies
  <2> HIDE DEF file, none
  <2>4. ClusterPolicies = Answer(<<Own(state, off)>>, {})
    BY <2>1, <2>2, <2>3
  <2> QED
    BY <2>4 DEF Answer
<1>10. /\ Replay.reading.nodes = ClassifyNodes.got /\ Replay.reading.slices = ResourceSlices.got
       /\ Replay.reading.pods = Pods.got /\ Replay.reading.policies = ClusterPolicies.got
       /\ Replay.reading.events = NodeEvents.got
       /\ Replay.reading.operator = {p \in Pods.got : Label(p, "app") = "gpu-operator"}
  BY DEF Replay
<1> QED
  BY <1>5, <1>6, <1>7, <1>8, <1>9, <1>10

\* What has been gathered, once it is whole, brings every lasting alarm back.
LEMMA TornHolds ==
  ASSUME IInv, ClusterInv, TornInv
  PROVE  TornKeepsAlarms
<1> SUFFICES ASSUME Whole, Len(policies) = 1, NEW f \in stable
             PROVE  LET found == Findings(Replay.reading) IN
                    \/ f \in found
                    \/ /\ now > began.at
                       /\ \/ f.code = "NV-DRV-001"
                          \/ f.code = "NV-UPG-001" /\ [f EXCEPT !.sev = Info] \in found
  BY Zenon DEF TornKeepsAlarms
<1> DEFINE r == Replay.reading
           nodes == Content("nodes")
           list == Content("gpu_operand_pods")
           asking == Content("gpu_pods")
           dates == Content("node_events")
           late == now > began.at
<1>1. \A g \in Files : Intact(g)
  BY DEF Whole, Gathered, Intact, Pending
<1>2. KeepsRest /\ \A g \in Files : Keeps(g)
  BY <1>1, FileNames DEF TornInv, Carried
<1>3. {"nodes", "cluster_policy", "resourceslices", "gpu_pods", "node_events", "gpu_operand_pods"} \subseteq Files
  BY FileNames
<1>4. /\ DOMAIN nodes = Nodes /\ \A n \in Nodes : NodeOk(nodes[n])
      /\ OnCluster(f) \/ (f.node \in Nodes /\ OnNode(f, nodes[f.node]))
  <2>1. Keeps("nodes")
    BY <1>2, <1>3
  <2> QED
    BY <2>1 DEF Keeps, Was
<1>5. PICK state, off : Content("cluster_policy") = Own(state, off)
  <2>1. Keeps("cluster_policy")
    BY <1>2, <1>3
  <2> QED
    BY <2>1 DEF Keeps
<1>6. bundle["cluster_policy"].kind = "file" /\ OnPolicy(f, Own(state, off))
  <2>1. Keeps("cluster_policy")
    BY <1>2, <1>3
  <2> QED
    BY <1>5, <2>1 DEF Keeps
<1>7. f.node \in Nodes => OnSlice(f, nodes[f.node], f.node \in Content("resourceslices"))
  <2>1. Keeps("resourceslices") /\ ~hollow
    BY <1>2, <1>3 DEF Whole
  <2> QED
    BY <2>1 DEF Keeps, Lasting
<1>8. \A p \in asking : Named(p) /\ p.statuses = <<>>
  <2>1. Keeps("gpu_pods")
    BY <1>2, <1>3
  <2> QED
    BY <2>1 DEF Keeps
<1>9. /\ \A e \in dates : e.at \in Nat \ {0}
      /\ Newest(dates)
      /\ f.node \in Nodes => (now = began.at => Dated(f, nodes[f.node], dates)) /\ Overdue(f, dates)
  <2>1. Keeps("node_events")
    BY <1>2, <1>3
  <2> QED
    BY <2>1 DEF Keeps, Lasting
<1>10. late \/ now = began.at
  BY DEF TornInv, ClusterInv, EventInv
<1>11. prepared # <<>> /\ list = prepared[1]
  <2>1. Keeps("gpu_operand_pods")
    BY <1>2, <1>3
  <2> QED
    BY <2>1 DEF Keeps
<1>12. Listed(list) /\ (f.node \in Nodes => OnPods(f, nodes[f.node], list, late))
  BY <1>2, <1>11 DEF KeepsRest, Lasting
<1>13. /\ r.nodes = nodes /\ r.slices = Content("resourceslices") /\ r.pods = mergePods(list, asking)
       /\ r.operator = {p \in r.pods : Label(p, "app") = "gpu-operator"}
       /\ r.policies = <<Own(state, off)>> /\ r.events = dates
  BY <1>5, <1>6, ReadBack
<1> HIDE DEF r, nodes, list, asking, dates, late
<1>14. /\ \A p \in r.pods : Named(p)
       /\ \E q \in r.pods : q.name = "gpu-operator" /\ Label(q, "app") = "gpu-operator"
  BY <1>8, <1>12, <1>13 DEF Listed, mergePods
<1>15. Given(Input(r), r.nodes, r.slices, r.pods, Own(state, off), r.events)
  BY <1>4, <1>13, <1>14, ReadingIsGiven
<1>16. f.node \in Nodes => OnPods(f, nodes[f.node], r.pods, late)
  BY <1>8, <1>12, <1>13, MergedParts DEF Listed
<1>17. Kept(f, r.nodes, r.slices, r.pods, Own(state, off), r.events, late)
  BY <1>4, <1>6, <1>7, <1>9, <1>10, <1>13, <1>16 DEF Kept
<1>18. /\ \A n \in Nodes : NodeOk(r.nodes[n])
       /\ Newest(r.events) /\ \A e \in r.events : e.at \in Nat \ {0}
  BY <1>4, <1>9, <1>13
<1>19. \/ f \in AllWith(Input(r))
       \/ late /\ f.code = "NV-DRV-001"
       \/ late /\ f.code = "NV-UPG-001" /\ [f EXCEPT !.sev = Info] \in AllWith(Input(r))
  BY <1>14, <1>15, <1>17, <1>18, KeptIsFound, Zenon
<1> QED
  BY <1>19 DEF late, r, Findings

-----------------------------------------------------------------------------
(* What was kept stays kept. *)

\* Time passes or not since the gather began, events stay as long as it does not, and
\* nodes take nothing back.
Onward ==
  /\ now \in Nat /\ now' \in {now, now + 1} /\ began' = began
  /\ began.at \in Nat /\ began.at <= now
  /\ now' = now => events \subseteq events'
  /\ \A n \in Nodes : node[n].taints \subseteq node'[n].taints /\ (Bare(node[n]) => Bare(node'[n]))

\* What is overdue stays so.
LEMMA StaysOverdue ==
  ASSUME Onward, NEW f, NEW list, \A e \in list : e.at \in Nat, Overdue(f, list)
  PROVE  Overdue(f, list)'
<1>1. upgradeStuckAfter \in Int /\ upgradeStuckAfter' = upgradeStuckAfter
  BY WindowsAssumption DEF upgradeStuckAfter
<1> QED
  BY <1>1 DEF Onward, Overdue, StuckAlarm

\* A file that nobody writes keeps its parts.
LEMMA StillKept ==
  ASSUME Onward, NEW g, Keeps(g), stable' \subseteq stable,
         bundle'[g] = bundle[g], bundle'["nodes"] = bundle["nodes"],
         g = "resourceslices" => hollow' = hollow, prepared # <<>> => prepared' = prepared
  PROVE  Keeps(g)'
<1>1. Content(g)' = Content(g) /\ Content("nodes")' = Content("nodes")
  BY DEF Content
<1>2. Lasting' \subseteq Lasting
  BY DEF Lasting
<1>3. CASE g = "nodes"
  <2>1. \A n \in Nodes : Was(Content(g)[n], node[n]) => Was(Content(g)[n], node'[n])
    BY DEF Was, Onward
  <2> QED
    BY <1>1, <1>3, <2>1 DEF Keeps
<1>4. CASE g = "cluster_policy"
  BY <1>1, <1>4 DEF Keeps
<1>5. CASE g = "resourceslices"
  BY <1>1, <1>2, <1>5 DEF Keeps
<1>6. CASE g = "gpu_pods"
  BY <1>1, <1>6 DEF Keeps
<1>7. CASE g = "node_events"
  <2> DEFINE file == Content(g)
             nodes == Content("nodes")
  <2>1. (\A e \in file : e.at \in Nat \ {0}) /\ Newest(file)
    BY <1>7 DEF Keeps
  <2>2. ASSUME NEW f \in Lasting'
        PROVE  (now' = began'.at => Dated(f, nodes[f.node], file)) /\ Overdue(f, file)'
    <3>1. (now = began.at => Dated(f, nodes[f.node], file)) /\ Overdue(f, file)
      BY <1>2, <1>7 DEF Keeps
    <3>2. now' = began'.at => now = began.at
      BY DEF Onward
    <3> HIDE DEF file
    <3>3. PICK l : l = file /\ l = file'
      BY <1>1 DEF file
    <3>4. Overdue(f, l) /\ \A e \in l : e.at \in Nat
      BY <2>1, <3>1, <3>3
    <3>5. Overdue(f, l)'
      BY <3>4, StaysOverdue
    <3> QED
      BY <3>1, <3>2, <3>3, <3>5
  <2> QED
    BY <1>1, <1>7, <2>1, <2>2 DEF Keeps
<1>8. CASE g = "gpu_operand_pods"
  BY <1>1, <1>8 DEF Keeps
<1> QED
  BY <1>3, <1>4, <1>5, <1>6, <1>7, <1>8 DEF Keeps

\* What is in memory keeps its own.
LEMMA RestKept ==
  ASSUME Onward, KeepsRest, stable' \subseteq stable, bundle'["nodes"] = bundle["nodes"],
         prepared' = prepared, Pending("node_events")' => Pending("node_events")
  PROVE  KeepsRest'
<1> DEFINE nodes == Content("nodes")
<1>1. Content("nodes")' = Content("nodes")
  BY DEF Content
<1>2. Lasting' \subseteq Lasting
  BY DEF Lasting
<1>3. ASSUME prepared # <<>>, NEW f \in Lasting'
      PROVE  OnPods(f, nodes[f.node], prepared[1], now > began.at)'
  <2>1. OnPods(f, nodes[f.node], prepared[1], now > began.at)
    BY <1>2, <1>3 DEF KeepsRest
  <2>2. CASE now' = now
    <3>1. \A p : Faulty(p)' <=> Faulty(p)
      BY <2>2 DEF Faulty, insideWindow
    <3> QED
      BY <1>1, <2>1, <2>2, <3>1 DEF OnPods, Onward
  <2>3. CASE now' # now
    <3>1. now' > began'.at
      BY <2>3 DEF Onward
    <3> QED
      BY <1>1, <2>1, <3>1 DEF OnPods
  <2> QED
    BY <2>2, <2>3
<1>4. ASSUME Pending("node_events")', now' = began'.at, NEW f \in Lasting'
      PROVE  Dated(f, nodes[f.node], events)'
  <2>1. now = began.at /\ now' = now
    BY <1>4 DEF Onward
  <2>2. Dated(f, nodes[f.node], events)
    BY <1>2, <1>4, <2>1 DEF KeepsRest
  <2>3. events \subseteq events'
    BY <2>1 DEF Onward
  <2> QED
    BY <1>1, <2>2, <2>3 DEF Dated
<1>5. prepared # <<>> => Listed(prepared[1])
  BY DEF KeepsRest
<1> QED
  BY <1>3, <1>4, <1>5 DEF KeepsRest

-----------------------------------------------------------------------------
(* What the collectors keep. *)

\* What a rule asks of a node as it is, it asks of the node as it was.
LEMMA AskedBefore ==
  ASSUME NEW f, NEW g, NEW h, Was(g, h)
  PROVE  /\ \A sliced : OnSlice(f, h, sliced) => OnSlice(f, g, sliced)
         /\ \A list, late : OnPods(f, h, list, FALSE) => OnPods(f, g, list, late)
<1>1. everyOperandTaintedOff(g, OwnTolerations) => everyOperandTaintedOff(h, OwnTolerations)
  BY Zenon DEF Was, everyOperandTaintedOff
<1>2. \A n, list : Admits(n, h, list) => Admits(n, g, list)
  BY <1>1 DEF Admits
<1>3. \A list, late : OnPods(f, h, list, FALSE) => OnPods(f, g, list, late)
  BY <1>2 DEF OnPods
<1>4. \A sliced : OnSlice(f, h, sliced) => OnSlice(f, g, sliced)
  BY DEF Was, OnSlice
<1> QED
  BY <1>3, <1>4, Zenon

\* The parts of an alarm of the moment, for a node that was read before.
LEMMA MomentKeeps ==
  ASSUME ClusterInv, DateInv, Len(policies) = 1, NEW f \in Alarms({})
  PROVE  /\ OnPolicy(f, policies[1])
         /\ OnCluster(f) \/ (f.node \in Nodes /\ OnNode(f, node[f.node]))
         /\ f.node \in Nodes => Dated(f, node[f.node], events) /\ Overdue(f, events)
         /\ \A g : f.node \in Nodes /\ Was(g, node[f.node]) =>
              OnSlice(f, g, f.node \in Sliced) /\ \A late : OnPods(f, g, Spaced, late)
<1>1. Parts(f, node, Sliced, Spaced, policies[1], events) /\ Overdue(f, events)
  BY MomentParts
<1>2. OnCluster(f) => f.node \notin Nodes
  BY FindingFields, ClusterAssumption DEF OnCluster
<1>3. f.node \in Nodes =>
        /\ OnNode(f, node[f.node]) /\ OnSlice(f, node[f.node], f.node \in Sliced)
        /\ OnPods(f, node[f.node], Spaced, FALSE) /\ Dated(f, node[f.node], events)
  BY <1>1, <1>2 DEF Parts
<1>4. \A g : f.node \in Nodes /\ Was(g, node[f.node]) =>
        OnSlice(f, g, f.node \in Sliced) /\ \A late : OnPods(f, g, Spaced, late)
  BY <1>3, AskedBefore
<1> QED
  BY <1>1, <1>3, <1>4 DEF Parts

\* A collector behind the first leaves the other files and the cluster alone.
LEMMA CollectTorn ==
  ASSUME IInv, ClusterInv, TornInv, NEW f, Collect(f), todo # Registry, lost \subseteq lost',
         \A g \in Files \ {f} : bundle'[g] = bundle[g],
         f # "resourceslices" => hollow' = hollow, prepared # <<>> => prepared' = prepared,
         Len(policies) = 1, Intact("nodes")'
  PROVE  /\ KeepsRest /\ Keeps("nodes") /\ Onward
         /\ f # "nodes" /\ bundle'["nodes"] = bundle["nodes"]
         /\ stable' \subseteq stable /\ stable' \subseteq Alarms({})
         /\ \A g \in Files \ {f} : Intact(g)' => Keeps(g)'
         /\ prepared' = prepared => KeepsRest'
<1>1. /\ ~Pending(f)' /\ \A g : g # f => (Pending(g)' <=> Pending(g))
  BY TodoMoves DEF IInv
<1>2. Pending(f) /\ ~Pending("nodes")
  <2>1. todo # <<>> /\ f = Head(todo) /\ todo \in Seq(Files \cup {"operator_pod"})
    BY DEF Collect, IInv, TodoInv
  <2>2. 1 \in DOMAIN todo /\ todo[1] = f
    BY <2>1, HeadTailProperties
  <2> QED
    BY <2>2 DEF Pending, TornInv
<1>3. "nodes" \in Files /\ f # "nodes" /\ bundle'["nodes"] = bundle["nodes"]
  BY <1>2, FileNames
<1>4. Intact("nodes")
  BY <1>2 DEF Intact
<1>5. KeepsRest /\ \A g \in Files : Intact(g) => Keeps(g)
  BY <1>4 DEF TornInv, Carried
<1>6. stable' \subseteq stable /\ stable' \subseteq Alarms({}) /\ UNCHANGED <<node, events, now, began>>
  <2>1. stable' = IF stable = {} THEN {} ELSE stable \cap Alarms({})
    BY Zenon DEF Collect
  <2>2. UNCHANGED vars /\ began' = began
    BY Zenon DEF Collect
  <2> QED
    BY <2>1, <2>2 DEF vars, objects
<1>7. Onward
  BY <1>6 DEF Onward, TornInv, ClusterInv, EventInv
<1>8. ASSUME NEW g \in Files \ {f}, Intact(g)' PROVE Keeps(g)'
  <2>1. Intact(g) /\ bundle'[g] = bundle[g]
    BY <1>1, <1>8 DEF Intact
  <2>2. Keeps(g)
    BY <1>5, <2>1
  <2> QED
    BY <1>3, <1>6, <1>7, <1>8, <2>1, <2>2, StillKept
<1>9. prepared' = prepared => KeepsRest'
  <2>1. Pending("node_events")' => Pending("node_events")
    BY <1>1
  <2> QED
    BY <1>3, <1>5, <1>6, <1>7, <2>1, RestKept
<1> QED
  BY <1>3, <1>4, <1>5, <1>6, <1>7, <1>8, <1>9

\* A collector keeps the rest of the invariant.
LEMMA CollectFrame ==
  ASSUME IInv, ClusterInv, TornInv, NEW f \in Files \cup {"operator_pod"}, Collect(f), Carried'
  PROVE  TornInv'
<1>1. /\ ~Pending(f)' /\ \A g : g # f => (Pending(g)' <=> Pending(g))
  BY TodoMoves DEF IInv
<1>2. todo' # Registry
  <2>1. todo' = Registry => Pending(f)'
    BY FileNames DEF Pending, Registry
  <2> QED
    BY <1>1, <2>1
<1>3. ~Pending("nodes")'
  <2>1. CASE todo = Registry
    <3>1. f = "nodes"
      BY <2>1 DEF Collect, Registry
    <3> QED
      BY <1>1, <3>1
  <2>2. CASE todo # Registry
    BY <1>1, <2>2 DEF TornInv
  <2> QED
    BY <2>1, <2>2
<1>4. UNCHANGED <<node, events, since, now, began>>
  BY DEF Collect, vars, objects
<1>5. CapInv' /\ DateInv' /\ Newest(events)' /\ (began.at \in Nat /\ began.at <= now)'
  BY <1>4 DEF TornInv, CapInv, DateInv, Newest, Bare
<1> QED
  BY <1>2, <1>3, <1>5 DEF TornInv

\* The first file: the nodes.
LEMMA NodesTorn ==
  ASSUME IInv, ClusterInv, TornInv, gatherNodeInfo
  PROVE  TornInv'
<1> DEFINE f == "nodes"
<1>1. f \in Files /\ Collect(f) /\ prepared' = prepared
  BY FileNames, Zenon DEF gatherNodeInfo, gatherOrFail
<1>2. PICK reply \in {"ok"} \cup Faults :
        /\ Answers(f, reply)
        /\ IF reply = "ok" THEN Write(f, File(node)) ELSE UNCHANGED bundle
  BY DEF gatherNodeInfo, gatherOrFail
<1>3. /\ ~Pending(f)' /\ \A g : g # f => (Pending(g)' <=> Pending(g))
  BY <1>1, TodoMoves DEF IInv
<1>4. todo = Registry
  <2>1. todo # <<>> /\ f = Head(todo) /\ todo \in Seq(Files \cup {"operator_pod"})
    BY <1>1 DEF Collect, IInv, TodoInv
  <2>2. 1 \in DOMAIN todo /\ todo[1] = f
    BY <2>1, HeadTailProperties
  <2> QED
    BY <2>2 DEF Pending, TornInv
<1>5. stable' = Alarms({}) /\ UNCHANGED <<node, pods, policies, events, now, began>>
  <2>1. stable' = Alarms({})
    BY <1>1, <1>4, Zenon DEF Collect
  <2> QED
    BY <1>1, <2>1 DEF Collect, vars, objects
<1>6. prepared' = <<>>
  BY <1>1, <1>4 DEF TornInv
<1>7. \A g \in Files \ {f} : ~Intact(g)'
  BY <1>3, <1>4, AllArePending DEF Intact
<1>8. Carried'
  <2> SUFFICES ASSUME Len(policies') = 1, Intact(f)'
               PROVE  KeepsRest' /\ \A g \in Files : Intact(g)' => Keeps(g)'
    BY DEF Carried
  <2>1. reply = "ok"
    BY <1>2 DEF Intact, Answers
  <2>2. bundle'[f] = File(node)
    BY <1>1, <1>2, <2>1, WritesItsFile
  <2>3. Content(f)' = node
    BY <2>2 DEF Content, File
  <2>4. \A n \in Nodes : Was(node[n], node[n])
    BY DEF Was, ClusterInv, NodeInv
  <2>5. \A a \in stable' :
          /\ OnCluster(a) \/ (a.node \in Nodes /\ OnNode(a, node[a.node]))
          /\ a.node \in Nodes => Dated(a, node[a.node], events)
    BY <1>5, MomentKeeps DEF TornInv
  <2>6. Keeps(f)'
    BY <1>5, <2>3, <2>4, <2>5 DEF Keeps, ClusterInv, NodeInv
  <2>7. KeepsRest'
    BY <1>5, <1>6, <2>3, <2>5 DEF KeepsRest, Lasting
  <2> QED
    BY <1>7, <2>6, <2>7
<1> QED
  BY <1>1, <1>8, CollectFrame

\* What is known of the alarms when a collector behind the first has run.
Lasts(f) ==
  /\ Len(policies) = 1 /\ Intact("nodes")' /\ bundle'["nodes"] = bundle["nodes"]
  /\ KeepsRest /\ Keeps("nodes") /\ Onward
  /\ stable' \subseteq stable /\ stable' \subseteq Alarms({})

\* A collector behind the first keeps the invariant when its own file has its parts.
LEMMA LaterTorn ==
  ASSUME IInv, ClusterInv, TornInv, NEW f \in Files \cup {"operator_pod"}, f # "nodes", Collect(f),
         lost \subseteq lost', \A g \in Files \ {f} : bundle'[g] = bundle[g],
         f # "resourceslices" => hollow' = hollow, prepared # <<>> => prepared' = prepared,
         Lasts(f) => (prepared' = prepared \/ KeepsRest') /\ (f \in Files /\ Intact(f)' => Keeps(f)')
  PROVE  TornInv'
<1>1. todo # Registry /\ policies' = policies
  BY DEF Collect, Registry, vars, objects
<1>2. Carried'
  <2> SUFFICES ASSUME Len(policies) = 1, Intact("nodes")'
               PROVE  KeepsRest' /\ \A g \in Files : Intact(g)' => Keeps(g)'
    BY <1>1 DEF Carried
  <2>1. /\ KeepsRest /\ Keeps("nodes") /\ Onward /\ bundle'["nodes"] = bundle["nodes"]
        /\ stable' \subseteq stable /\ stable' \subseteq Alarms({})
        /\ \A g \in Files \ {f} : Intact(g)' => Keeps(g)'
        /\ prepared' = prepared => KeepsRest'
    BY <1>1, CollectTorn
  <2>2. Lasts(f)
    BY <2>1 DEF Lasts
  <2> QED
    BY <2>1, <2>2
<1> QED
  BY <1>2, CollectFrame

\* The collectors that end in an error.
LEMMA OrFailTorn ==
  ASSUME IInv, ClusterInv, TornInv, NEW f \in Files \ {"nodes", "resourceslices"}, NEW content,
         gatherOrFail(f, content), Lasts(f) /\ bundle'[f] = File(content) => Keeps(f)'
  PROVE  TornInv'
<1>1. PICK reply \in {"ok"} \cup Faults :
        /\ Answers(f, reply)
        /\ IF reply = "ok" THEN Write(f, File(content)) ELSE UNCHANGED bundle
  BY DEF gatherOrFail
<1>2. Collect(f) /\ prepared' = prepared /\ hollow' = hollow
  BY DEF gatherOrFail
<1>3. lost \subseteq lost' /\ (reply \in Faults => f \in lost')
  BY <1>1 DEF Answers
<1>4. \A g \in Files \ {f} : bundle'[g] = bundle[g]
  BY <1>1, WritesItsFile
<1>5. Intact(f)' => bundle'[f] = File(content)
  BY <1>1, <1>3, WritesItsFile DEF Intact
<1> QED
  BY <1>2, <1>3, <1>4, <1>5, LaterTorn

\* The pods that ask for GPUs.
LEMMA AskingTorn ==
  ASSUME IInv, ClusterInv, TornInv, gatherGPUPods
  PROVE  TornInv'
<1> DEFINE f == "gpu_pods"
<1>1. gatherOrFail(f, Projected)
  BY Zenon DEF gatherGPUPods, Projected
<1>2. \A p \in Projected : Named(p) /\ p.statuses = <<>>
  <2>1. ASSUME NEW q \in pods
        PROVE  Named(projectGPUPod(q)) /\ projectGPUPod(q).statuses = <<>>
    <3>1. PodOk(q)
      BY DEF ClusterInv, PodInv
    <3>2. projectGPUPod(q).statuses = <<>>
      BY <3>1 DEF projectGPUPod, PodOk
    <3>3. Named(q)
      BY <3>1 DEF PodOk, Named
    <3> QED
      BY <3>1, <3>2, <3>3, ProjectedIs DEF Named
  <2> QED
    BY <2>1 DEF Projected
<1>3. bundle'[f] = File(Projected) => Keeps(f)'
  <2> SUFFICES ASSUME bundle'[f] = File(Projected) PROVE Keeps(f)'
    OBVIOUS
  <2>1. Content(f)' = Projected
    BY DEF Content, File
  <2> QED
    BY <1>2, <2>1 DEF Keeps
<1> QED
  BY <1>1, <1>3, FileNames, OrFailTorn

\* The events.
LEMMA EventsTorn ==
  ASSUME IInv, ClusterInv, TornInv, gatherNodeEvents
  PROVE  TornInv'
<1> DEFINE f == "node_events"
<1>1. gatherOrFail(f, events)
  BY Zenon DEF gatherNodeEvents
<1>2. Collect(f) /\ f \in Files
  BY <1>1, FileNames DEF gatherOrFail
<1>3. Pending(f) /\ UNCHANGED <<events, now, began>>
  <2>1. todo # <<>> /\ f = Head(todo) /\ todo \in Seq(Files \cup {"operator_pod"})
    BY <1>2 DEF Collect, IInv, TodoInv
  <2>2. 1 \in DOMAIN todo /\ todo[1] = f
    BY <2>1, HeadTailProperties
  <2> QED
    BY <1>2, <2>2 DEF Pending, Collect, vars, objects
<1>4. Lasts(f) /\ bundle'[f] = File(events) => Keeps(f)'
  <2> SUFFICES ASSUME Lasts(f), bundle'[f] = File(events) PROVE Keeps(f)'
    OBVIOUS
  <2>1. Content(f)' = events /\ Content("nodes")' = Content("nodes")
    BY DEF Content, File, Lasts
  <2>2. (\A e \in events : e.at \in Nat \ {0}) /\ Newest(events)
    BY DEF ClusterInv, EventInv, TornInv
  <2>3. ASSUME NEW a \in Lasting'
        PROVE  (now = began.at => Dated(a, Content("nodes")[a.node], events)) /\ Overdue(a, events)
    <3>1. a \in Lasting /\ a \in Alarms({}) /\ a.node \in Nodes
      BY DEF Lasting, Lasts
    <3>2. now = began.at => Dated(a, Content("nodes")[a.node], events)
      BY <1>3, <3>1 DEF Lasts, KeepsRest
    <3>3. Overdue(a, events)
      BY <3>1, MomentKeeps DEF Lasts, TornInv
    <3> QED
      BY <3>2, <3>3
  <2>4. \A a : Overdue(a, events)' <=> Overdue(a, events)
    BY <1>3 DEF Overdue, StuckAlarm, upgradeStuckAfter
  <2> QED
    BY <1>3, <2>1, <2>2, <2>3, <2>4 DEF Keeps
<1> QED
  BY <1>1, <1>4, FileNames, OrFailTorn

\* The collectors that leave a marker.
LEMMA OrMarkTorn ==
  ASSUME IInv, ClusterInv, TornInv, NEW f \in {"cluster_policy", "compute_domains"},
         NEW none \in BOOLEAN, NEW content, gatherOrMark(f, none, content),
         f = "cluster_policy" => ~none,
         f = "cluster_policy" /\ Lasts(f) /\ bundle'[f] = File(content) => Keeps(f)'
  PROVE  TornInv'
<1>1. PICK reply \in {"ok"} \cup Faults \cup (IF none THEN {"notserved"} ELSE {}) :
        /\ Answers(f, reply)
        /\ Write(f, CASE reply = "ok" /\ ~none -> File(content)
                      [] reply = "ok" /\ none -> None
                      [] reply = "notserved" -> None
                      [] OTHER -> Marker(reply))
  BY Zenon DEF gatherOrMark, None
<1>2. Collect(f) /\ prepared' = prepared /\ hollow' = hollow /\ f \in Files /\ f # "resourceslices" /\ f # "nodes"
  <2>1. Collect(f) /\ UNCHANGED <<prepared, hollow>>
    BY Zenon DEF gatherOrMark
  <2> QED
    BY <2>1, FileNames
<1>3. lost \subseteq lost' /\ (reply \in Faults => f \in lost')
  BY <1>1 DEF Answers
<1>4. \A g \in Files \ {f} : bundle'[g] = bundle[g]
  BY <1>1, WritesItsFile
<1>5. f = "cluster_policy" /\ Intact(f)' => bundle'[f] = File(content)
  <2> SUFFICES ASSUME f = "cluster_policy", Intact(f)' PROVE bundle'[f] = File(content)
    OBVIOUS
  <2>1. reply = "ok" /\ ~none
    BY <1>1, <1>3 DEF Intact
  <2>2. Write(f, File(content))
    BY <1>1, <2>1
  <2> QED
    BY <1>2, <2>2, WritesItsFile
<1>6. f = "compute_domains" => Keeps(f)'
  BY DEF Keeps
<1>7. Lasts(f) /\ Intact(f)' => Keeps(f)'
  BY <1>5, <1>6
<1> QED
  BY <1>2, <1>3, <1>4, <1>7, LaterTorn

\* The policy.
LEMMA PolicyTorn ==
  ASSUME IInv, ClusterInv, TornInv, gatherClusterPolicy
  PROVE  TornInv'
<1> DEFINE f == "cluster_policy"
           content == IF Len(policies) = 1 THEN policies[1] ELSE [items |-> policies]
<1>1. policies # <<>>
  BY DEF ClusterInv, PolicyInv
<1>2. gatherOrMark(f, policies = <<>>, content)
  BY Zenon DEF gatherClusterPolicy
<1>3. Len(policies) = 1 => content = policies[1]
  OBVIOUS
<1> HIDE DEF content
<1>4. Lasts(f) /\ bundle'[f] = File(content) => Keeps(f)'
  <2> SUFFICES ASSUME Lasts(f), bundle'[f] = File(content) PROVE Keeps(f)'
    OBVIOUS
  <2>1. Len(policies) = 1 /\ stable' \subseteq Alarms({})
    BY DEF Lasts
  <2>2. Content(f)' = policies[1] /\ bundle'[f].kind = "file"
    BY <1>3, <2>1 DEF Content, File
  <2>3. PICK state \in {"ready", "notReady"}, off \in SUBSET Operands : policies[1] = Own(state, off)
    <3>1. PICK state \in {"ready", "notReady"}, off \in SUBSET Operands :
            policies \in {<<Own(state, off)>>, <<Other, Own(state, off)>>, <<Own(state, off), Other>>}
      BY DEF ClusterInv, PolicyInv
    <3>2. policies = <<Own(state, off)>>
      BY <2>1, <3>1
    <3> QED
      BY <3>2
  <2>4. \A a \in stable' : OnPolicy(a, policies[1])
    BY <2>1, MomentKeeps DEF TornInv
  <2> QED
    BY <2>2, <2>3, <2>4 DEF Keeps
<1> QED
  BY <1>1, <1>2, <1>4, OrMarkTorn

\* The compute domains, of which no alarm says anything.
LEMMA DomainsTorn ==
  ASSUME IInv, ClusterInv, TornInv, gatherComputeDomains
  PROVE  TornInv'
<1>1. gatherOrMark("compute_domains", domains = {}, domains)
  BY Zenon DEF gatherComputeDomains
<1> QED
  BY <1>1, OrMarkTorn

\* The slices.
LEMMA SlicesTorn ==
  ASSUME IInv, ClusterInv, TornInv, gatherResourceSlices
  PROVE  TornInv'
<1> DEFINE f == "resourceslices"
<1>1. PICK reply \in {"ok", "older"} \cup Faults \cup (IF Sliced = {} THEN {"notserved"} ELSE {}) :
        /\ Answers(f, reply)
        /\ hollow' = (reply = "older")
        /\ CASE reply = "ok" -> Write(f, File(Sliced))
             [] reply \in {"older", "notserved"} -> Write(f, File({}))
             [] OTHER -> UNCHANGED bundle
  BY DEF gatherResourceSlices, Sliced
<1>2. Collect(f) /\ prepared' = prepared /\ f \in Files
  BY FileNames DEF gatherResourceSlices
<1>3. lost \subseteq lost' /\ (reply \in Faults => f \in lost')
  BY <1>1 DEF Answers
<1>4. \A g \in Files \ {f} : bundle'[g] = bundle[g]
  <2>1. bundle' = bundle \/ \E what : Write(f, what)
    BY <1>1
  <2> QED
    BY <2>1, WritesItsFile
<1>5. Intact(f)' /\ ~hollow' => bundle'[f] = File(Sliced)
  <2> SUFFICES ASSUME Intact(f)', ~hollow' PROVE bundle'[f] = File(Sliced)
    OBVIOUS
  <2>1. reply \in {"ok", "notserved"} /\ (reply = "notserved" => Sliced = {})
    BY <1>1, <1>3 DEF Intact
  <2>2. Write(f, File(Sliced))
    BY <1>1, <2>1
  <2> QED
    BY <1>2, <2>2, WritesItsFile
<1>6. Lasts(f) /\ Intact(f)' => Keeps(f)'
  <2> SUFFICES ASSUME Lasts(f), Intact(f)', ~hollow' PROVE Keeps(f)'
    BY DEF Keeps
  <2>1. Content(f)' = Sliced /\ Content("nodes")' = Content("nodes")
    BY <1>5 DEF Content, File, Lasts
  <2>2. ASSUME NEW a \in Lasting'
        PROVE  OnSlice(a, Content("nodes")[a.node], a.node \in Sliced)
    <3>1. a \in Alarms({}) /\ a.node \in Nodes /\ Len(policies) = 1
      BY DEF Lasting, Lasts
    <3>2. Was(Content("nodes")[a.node], node[a.node])
      BY <3>1 DEF Lasts, Keeps
    <3> QED
      BY <3>1, <3>2, MomentKeeps DEF TornInv
  <2> QED
    BY <2>1, <2>2 DEF Keeps
<1> QED
  BY <1>2, <1>3, <1>4, <1>6, LaterTorn

\* What prepareState lists is of the operator's namespace, of the moment it does.
LEMMA SpacedIsPrepared ==
  ASSUME PodInv, prepared' \in prepareState
  PROVE  /\ prepared # <<>> => prepared' = prepared
         /\ prepared' \in {prepared, <<Spaced>>}
<1> DEFINE space == (CHOOSE q \in operatorPods : TRUE).namespace
<1>1. prepared # <<>> => prepared' = prepared
  BY DEF prepareState
<1>2. prepared' \in {prepared} \cup (IF operatorPods = {} THEN {} ELSE {<<{p \in pods : p.namespace = space}>>})
  BY DEF prepareState
<1>3. CASE operatorPods = {}
  BY <1>1, <1>2, <1>3
<1>4. CASE operatorPods # {}
  <2>1. \A q \in operatorPods : q \in pods /\ q.name = "gpu-operator" /\ Named(q)
    BY ClusterPods, ComponentIs DEF operatorPods, Named
  <2>2. \A q \in operatorPods : q.namespace = "gpu-operator"
    BY <2>1 DEF Named, Outside
  <2>3. space = "gpu-operator"
    BY <1>4, <2>2
  <2> HIDE DEF space
  <2>4. {p \in pods : p.namespace = space} = Spaced
    BY <2>3 DEF Spaced
  <2> QED
    BY <1>1, <1>2, <2>4
<1> QED
  BY <1>3, <1>4

\* The pods that are kept in memory have their parts.
LEMMA PreparedTorn ==
  ASSUME IInv, ClusterInv, TornInv, NEW f, f # "node_events", Collect(f), Lasts(f), prepared' = <<Spaced>>
  PROVE  KeepsRest'
<1>1. Content("nodes")' = Content("nodes")
  BY DEF Content, Lasts
<1>2. prepared'[1] = Spaced
  OBVIOUS
<1>3. Listed(Spaced)
  <2>1. PodInv
    BY DEF ClusterInv
  <2>2. /\ \A p \in Spaced : Named(p)
        /\ \A p \in Spaced : p.name \notin Outside
        /\ \E q \in Spaced : q.name = "gpu-operator" /\ Label(q, "app") = "gpu-operator"
    BY <2>1, MergedPods, SpacedPods
  <2> QED
    BY <2>2 DEF Listed
<1>4. UNCHANGED <<now, events, began>>
  BY DEF Collect, vars, objects
<1>5. ASSUME NEW a \in Lasting'
      PROVE  /\ a \in Lasting
             /\ \A late : OnPods(a, Content("nodes")[a.node], Spaced, late)
  <2>1. a \in Alarms({}) /\ a.node \in Nodes /\ Len(policies) = 1 /\ a \in Lasting
    BY DEF Lasting, Lasts
  <2>2. Was(Content("nodes")[a.node], node[a.node])
    BY <2>1 DEF Lasts, Keeps
  <2> QED
    BY <2>1, <2>2, MomentKeeps DEF TornInv
<1>6. Pending("node_events")' => Pending("node_events")
  BY TodoMoves DEF IInv
<1>7. \A p : Faulty(p)' <=> Faulty(p)
  BY <1>4 DEF Faulty, insideWindow
<1>8. \A a \in Lasting' : OnPods(a, Content("nodes")[a.node], Spaced, now > began.at)
  BY <1>5
<1>9. ASSUME NEW a \in Lasting', Pending("node_events")', now' = began'.at
      PROVE  Dated(a, Content("nodes")[a.node], events)
  BY <1>4, <1>5, <1>6, <1>9 DEF Lasts, KeepsRest
<1> QED
  BY <1>1, <1>2, <1>3, <1>4, <1>7, <1>8, <1>9 DEF KeepsRest, OnPods

\* The operator and its operands.
LEMMA OperandsTorn ==
  ASSUME IInv, ClusterInv, TornInv, gatherOperatorPod \/ gatherOperandPods
  PROVE  TornInv'
<1>1. prepared' \in prepareState /\ hollow' = hollow
  BY Zenon DEF gatherOperatorPod, gatherOperandPods
<1>2. (prepared # <<>> => prepared' = prepared) /\ prepared' \in {prepared, <<Spaced>>}
  BY <1>1, SpacedIsPrepared DEF ClusterInv
<1>3. CASE gatherOperatorPod
  <2> DEFINE f == "operator_pod"
  <2>1. Collect(f) /\ bundle' = bundle /\ lost' = lost
    BY <1>3, Zenon DEF gatherOperatorPod
  <2>2. Lasts(f) => prepared' = prepared \/ KeepsRest'
    BY <1>2, <2>1, PreparedTorn
  <2> QED
    BY <1>1, <1>2, <2>1, <2>2, FileNames, LaterTorn
<1>4. CASE gatherOperandPods
  <2> DEFINE f == "gpu_operand_pods"
  <2>1. /\ Collect(f)
        /\ Answers(f, IF prepared' = <<>> THEN "failed" ELSE "ok")
        /\ IF prepared' = <<>> THEN UNCHANGED bundle ELSE Write(f, File(prepared'[1]))
    BY <1>4, Zenon DEF gatherOperandPods
  <2>2. Lasts(f) => prepared' = prepared \/ KeepsRest'
    BY <1>2, <2>1, PreparedTorn
  <2>3. f \in Files /\ f # "resourceslices" /\ f # "nodes"
    BY FileNames
  <2>4. lost \subseteq lost' /\ (prepared' = <<>> => f \in lost')
    BY <2>1 DEF Answers, Faults
  <2>5. PICK content : content = prepared'[1]
    OBVIOUS
  <2>6. prepared' # <<>> => Write(f, File(content))
    BY <2>1, <2>5
  <2>7. \A g \in Files \ {f} : bundle'[g] = bundle[g]
    BY <2>1, <2>6, WritesItsFile
  <2>8. Intact(f)' => Keeps(f)'
    <3> SUFFICES ASSUME Intact(f)' PROVE Keeps(f)'
      OBVIOUS
    <3>1. prepared' # <<>>
      BY <2>4 DEF Intact
    <3>2. bundle'[f] = File(content)
      BY <2>3, <2>6, <3>1, WritesItsFile
    <3> QED
      BY <2>5, <3>1, <3>2 DEF Keeps, Content, File
  <2> QED
    BY <1>1, <1>2, <2>1, <2>2, <2>3, <2>4, <2>7, <2>8, LaterTorn
<1> QED
  BY <1>3, <1>4

-----------------------------------------------------------------------------
(* What else happens. *)

\* Every step of the cluster goes on from where the nodes and the events were.
LEMMA ClusterGoesOn ==
  ASSUME ClusterInv, TornInv, [Next]_vars
  PROVE  /\ CapInv' /\ DateInv' /\ Newest(events') /\ now' \in {now, now + 1} /\ now \in Nat
         /\ Len(policies') = 1 => Len(policies) = 1
         /\ began' = began => Onward
<1>1. NodeInv /\ EventInv /\ PolicyInv /\ now \in Nat
  BY DEF ClusterInv, EventInv
<1>2. CapInv' /\ \A m \in Nodes : Bare(node[m]) => Bare(node'[m])
  BY <1>1, CapStep DEF TornInv, CapMoves
<1>3. /\ DateInv' /\ Newest(events') /\ now' \in {now, now + 1}
      /\ now' = now => events \subseteq events'
  BY <1>1, DateStep DEF TornInv
<1>4. \A m \in Nodes : node[m].taints \subseteq node'[m].taints
  BY <1>1, NodeStep DEF Grows
<1>5. Len(policies') = 1 => Len(policies) = 1
  BY <1>1, OnePolicy
<1>6. began' = began => Onward
  BY <1>1, <1>2, <1>3, <1>4 DEF Onward, TornInv
<1> QED
  BY <1>1, <1>2, <1>3, <1>5, <1>6

\* Before the gather begins there is nothing to keep.
LEMMA BeforeTorn ==
  ASSUME ClusterInv, TornInv, [Next]_vars, todo = Registry, UNCHANGED <<todo, prepared, stable>>,
         began' = [changes |-> changes', at |-> now'] \/ began' = began
  PROVE  TornInv'
<1>1. CapInv' /\ DateInv' /\ Newest(events') /\ now' \in {now, now + 1} /\ now \in Nat
  BY ClusterGoesOn
<1>2. (began.at \in Nat /\ began.at <= now)'
  BY <1>1 DEF TornInv
<1>3. Pending("nodes")'
  BY FileNames DEF Pending, Registry
<1>4. Carried'
  BY <1>3 DEF Carried, Intact
<1>5. (todo = Registry => stable = {} /\ prepared = <<>>)' /\ (Pending("nodes") => todo = Registry)'
  BY DEF TornInv
<1> QED
  BY <1>1, <1>2, <1>4, <1>5 DEF TornInv

\* Afterwards the cluster changes, or files come to harm.
LEMMA AfterTorn ==
  ASSUME ClusterInv, TornInv, [Next]_vars, todo # Registry,
         UNCHANGED <<todo, prepared, stable, hollow, began>>,
         lost \subseteq lost', \A g \in Files : g \in lost' \/ bundle'[g] = bundle[g]
  PROVE  TornInv'
<1>1. /\ CapInv' /\ DateInv' /\ Newest(events') /\ now' \in {now, now + 1} /\ now \in Nat
      /\ Len(policies') = 1 => Len(policies) = 1
      /\ Onward
  BY ClusterGoesOn
<1>2. (began.at \in Nat /\ began.at <= now)'
  BY <1>1 DEF TornInv
<1>3. \A g : (Pending(g)' <=> Pending(g))
  BY DEF Pending
<1>4. Carried'
  <2> SUFFICES ASSUME Len(policies') = 1, Intact("nodes")'
               PROVE  KeepsRest' /\ \A g \in Files : Intact(g)' => Keeps(g)'
    BY DEF Carried
  <2>1. "nodes" \in Files /\ Intact("nodes") /\ bundle'["nodes"] = bundle["nodes"]
    BY <1>3, FileNames DEF Intact
  <2>2. KeepsRest /\ \A g \in Files : Intact(g) => Keeps(g)
    BY <1>1, <2>1 DEF TornInv, Carried
  <2>3. KeepsRest'
    BY <1>1, <1>3, <2>1, <2>2, RestKept
  <2>4. ASSUME NEW g \in Files, Intact(g)' PROVE Keeps(g)'
    <3>1. Intact(g) /\ bundle'[g] = bundle[g]
      BY <1>3, <2>4 DEF Intact
    <3> QED
      BY <1>1, <2>1, <2>2, <3>1, StillKept
  <2> QED
    BY <2>3, <2>4
<1>5. (todo = Registry => stable = {} /\ prepared = <<>>)' /\ (Pending("nodes") => todo = Registry)'
  BY <1>3 DEF TornInv
<1> QED
  BY <1>1, <1>2, <1>4, <1>5 DEF TornInv

\* TornInv is inductive.
LEMMA TornStep ==
  ASSUME IInv, ClusterInv, TornInv, [BundleNext]_bundleVars
  PROVE  TornInv'
<1>1. [Next]_vars
  BY Zenon DEF BundleNext, bundleVars, gatherNodeInfo, gatherGPUPods, gatherNodeEvents, gatherOrFail,
     gatherClusterPolicy, gatherComputeDomains, gatherOrMark, gatherResourceSlices,
     gatherOperatorPod, gatherOperandPods, Collect, Damage, ClusterStep
<1>2. CASE gatherNodeInfo \/ gatherGPUPods \/ gatherNodeEvents
  BY <1>2, NodesTorn, AskingTorn, EventsTorn
<1>3. CASE gatherClusterPolicy \/ gatherComputeDomains \/ gatherResourceSlices
  BY <1>3, PolicyTorn, DomainsTorn, SlicesTorn
<1>4. CASE gatherOperatorPod \/ gatherOperandPods
  BY <1>4, OperandsTorn
<1>5. ASSUME NEW f \in Files, Damage(f) PROVE TornInv'
  <2>1. /\ todo = <<>> /\ lost' = lost \cup {f}
        /\ UNCHANGED <<todo, prepared, stable, hollow, began>>
        /\ \E kind : Write(f, [kind |-> kind])
    BY <1>5, Zenon DEF Damage
  <2>2. \A g \in Files \ {f} : bundle'[g] = bundle[g]
    BY <2>1, WritesItsFile
  <2>3. todo # Registry
    BY <2>1 DEF Registry
  <2> QED
    BY <1>1, <2>1, <2>2, <2>3, AfterTorn
<1>6. CASE ClusterStep
  <2>1. /\ UNCHANGED <<todo, prepared, bundle, lost, hollow, stable>>
        /\ began' = IF todo = Registry THEN [changes |-> changes', at |-> now'] ELSE began
    BY <1>6, Zenon DEF ClusterStep
  <2> QED
    BY <1>1, <2>1, BeforeTorn, AfterTorn
<1>7. CASE UNCHANGED bundleVars
  <2>1. UNCHANGED <<todo, prepared, bundle, lost, hollow, stable, began>>
    BY <1>7 DEF bundleVars, gather
  <2> QED
    BY <1>1, <2>1, BeforeTorn, AfterTorn
<1> QED
  BY <1>2, <1>3, <1>4, <1>5, <1>6, <1>7, Zenon DEF BundleNext

\* It holds when nothing has happened yet.
LEMMA TornInit ==
  ASSUME BundleInit
  PROVE  TornInv
<1>1. /\ Init /\ todo = Registry /\ prepared = <<>> /\ stable = {}
      /\ began = [changes |-> 0, at |-> 1]
  BY DEF BundleInit
<1>2. PICK of \in [Nodes -> AllKinds] : SetUp(of)
  BY <1>1, InitSetsUp
<1>3. node = [n \in Nodes |-> NodeOf(of[n])] /\ now = 1
  BY <1>2 DEF SetUp
<1>4. CapInv
  <2> SUFFICES ASSUME NEW n \in Nodes PROVE node[n].alloc = node[n].cap
    BY DEF CapInv, Bare
  <2>1. of[n] \in AllKinds /\ node[n] = NodeOf(of[n])
    BY <1>3
  <2>2. Setting(of[n], node[n])
    BY <2>1, KindFields
  <2> QED
    BY <2>2 DEF Setting
<1>5. /\ events = {[node |-> n, state |-> "cordon-required", at |-> 1] : n \in {m \in Nodes : of[m] = "upgrading"}}
      /\ since = [n \in Nodes |-> IF of[n] = "upgrading" THEN 1 ELSE 0]
  BY <1>2 DEF SetUp
<1>6. \A e \in events : e.node \in Nodes /\ e.at = 1 /\ since[e.node] = 1
  BY <1>5
<1>7. DateInv /\ Newest(events)
  BY <1>6 DEF DateInv, Newest
<1>8. Pending("nodes")
  BY <1>1, FileNames, AllArePending
<1>9. Carried
  BY <1>8 DEF Carried, Intact
<1> QED
  BY <1>1, <1>3, <1>4, <1>7, <1>9 DEF TornInv

\* What every moment of the cluster was alarmed about, a whole bundle of it is too,
\* for every cluster and wherever in the gather it changed: the files the collectors
\* left are of different moments, and buildInput reads them as one (readYAML,
\* mergePods, gatherNodeInfo to gatherOperandPods).
THEOREM TornAlwaysKeeps == BundleSpec => []TornKeepsAlarms
<1> DEFINE Inv == IInv /\ ClusterInv /\ TornInv
<1>1. BundleInit => Inv
  <2> SUFFICES ASSUME BundleInit PROVE IInv /\ ClusterInv /\ TornInv
    OBVIOUS
  <2>1. Init
    BY DEF BundleInit
  <2>2. ClusterInv
    BY <2>1, ClusterInit
  <2> QED
    BY <2>2, InitIsGood, TornInit
<1>2. Inv /\ [BundleNext]_bundleVars => Inv'
  <2> SUFFICES ASSUME IInv, ClusterInv, TornInv, [BundleNext]_bundleVars
               PROVE  IInv' /\ ClusterInv' /\ TornInv'
    OBVIOUS
  <2>1. [Next]_vars
    BY Zenon DEF BundleNext, bundleVars, gatherNodeInfo, gatherGPUPods, gatherNodeEvents, gatherOrFail,
       gatherClusterPolicy, gatherComputeDomains, gatherOrMark, gatherResourceSlices,
       gatherOperatorPod, gatherOperandPods, Collect, Damage, ClusterStep
  <2> QED
    BY <2>1, StepKeeps, ClusterKept, TornStep
<1>3. Inv => TornKeepsAlarms
  BY TornHolds
<1> QED
  BY <1>1, <1>2, <1>3, PTL DEF BundleSpec
=============================================================================
