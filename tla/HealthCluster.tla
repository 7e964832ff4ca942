---------------------------- MODULE HealthCluster ----------------------------
(***************************************************************************)
(* A GPU cluster that changes under "kubectl nv health": nodes that were   *)
(* set up in any of the ways the rules know, the changes an administrator  *)
(* makes on purpose, the faults, and what health says at every moment of   *)
(* it, whichever of its reads it could make.  The cluster is not code of   *)
(* this repository; its steps are those the rules' comments and catalog    *)
(* describe, above all the kubelet's: a resource whose device plugin is    *)
(* gone loses its allocatable, and its capacity is zeroed or stays as it   *)
(* was.                                                                    *)
(***************************************************************************)
EXTENDS HealthRules

CONSTANTS
  Changing,   \* the nodes that change
  Kinds,      \* the ways the changing nodes are set up
  EventTTL,   \* how long the API server keeps an event, in ticks
  MaxLost,    \* bound: how many reads a run of health has to do without
  MaxChanges, \* bound: how many changes happen
  MaxTime     \* bound: the last tick

ASSUME ClusterAssumption ==
  /\ Changing \subseteq Nodes /\ EventTTL \in Nat \ {0}
  /\ Cluster \notin Nodes
  /\ Kinds \subseteq {"plain", "single", "mixed", "dra", "both", "upgrading", "vm",
                     "tolerated", "control-plane"}

VARIABLES
  changes,  \* how many changes have happened
  broken,   \* history: the nodes a fault has struck
  served,   \* history: the nodes that had a GPU the scheduler could place
  since     \* history: when each node got to the step of an upgrade it is in

objects == <<node, pods, policies, events, domains>>
vars == <<objects, now, changes, broken, served, since>>

-----------------------------------------------------------------------------
(* Nodes and pods as the operator, NFD and the device plugin set them up. *)

GPUs == 2
DeployKeys == {"driver", "container-toolkit", "device-plugin", "dcgm-exporter", "validator"}
Zero == [r \in Resources |-> 0]
Of(r, n) == [Zero EXCEPT ![r] = n]

Plain ==
  [pci |-> TRUE, present |-> TRUE, count |-> GPUs, replicas |-> 1,
   cap |-> Of("gpu", GPUs), alloc |-> Of("gpu", GPUs), slice |-> FALSE,
   strategy |-> "none", config |-> "", configState |-> "", capable |-> TRUE,
   workload |-> "container", upgrade |-> "", deploy |-> [k \in DeployKeys |-> "true"],
   taints |-> {}, unschedulable |-> FALSE, sentinel |-> FALSE, clique |-> "c", tiers |-> {}]

ControlPlaneTaint == [key |-> "control-plane", value |-> "", effect |-> "NoSchedule"]

\* A node of each kind the rules tell apart.
NodeOf(kind) ==
  CASE kind = "plain" -> Plain
    [] kind = "single" -> [Plain EXCEPT !.strategy = "single", !.config = "parted", !.configState = "success"]
    [] kind = "mixed" -> [Plain EXCEPT !.strategy = "mixed", !.config = "parted", !.configState = "success",
                                       !.cap = Of("mig", GPUs), !.alloc = Of("mig", GPUs)]
    [] kind = "dra" -> [Plain EXCEPT !.cap = Zero, !.alloc = Zero, !.slice = TRUE,
                                     !.deploy["device-plugin"] = "false"]
    [] kind = "both" -> [Plain EXCEPT !.slice = TRUE]
    [] kind = "upgrading" -> [Plain EXCEPT !.upgrade = "cordon-required"]
    [] kind = "vm" -> [Plain EXCEPT !.cap = Zero, !.alloc = Zero, !.workload = "vm-vgpu",
                                    !.deploy = [k \in {"vgpu-manager"} |-> "true"]]
    [] kind = "tolerated" -> [Plain EXCEPT !.taints = {[ControlPlaneTaint EXCEPT !.key = "team"]}]
    [] kind = "control-plane" -> [Plain EXCEPT !.cap = Zero, !.alloc = Zero, !.taints = {ControlPlaneTaint}]

RolesOf(kind) ==
  CASE kind = "dra" -> {"driver", "validator", "dcgm-exporter", "dra-driver"}
    [] kind = "both" -> {"driver", "validator", "device-plugin", "dcgm-exporter", "dra-driver"}
    [] kind = "vm" -> {"vgpu-manager"}
    [] kind = "control-plane" -> {"nfd"}
    [] OTHER -> {"driver", "validator", "device-plugin", "dcgm-exporter"}

\* The driver of an NVIDIADriver object has a name of its own in its app label.
LabelsOf(role) ==
  CASE role = "driver" -> [app |-> "nvidia-gpu-driver-ubuntu22", component |-> "nvidia-driver"]
    [] role = "dra-driver" -> [k \in {"dra-component"} |-> "kubelet-plugin"]
    [] role = "imex-daemon" -> [computeDomain |-> "uid"]
    [] OTHER -> [app |-> role]

Validation(state, code, at) ==
  [name |-> "toolkit-validation",
   status |-> IF state = "terminated"
                THEN Container(state, Terminated(code, at), NoTermination, 0, FALSE)
                ELSE Container(state, NoTermination, Terminated(code, at), 1, FALSE)]

NewPod(n, role) ==
  [node |-> n, name |-> role, owner |-> "", labels |-> LabelsOf(role),
   namespace |-> IF role \in {"dra-driver", "imex-daemon"} THEN "dra" ELSE "gpu-operator",
   statuses |-> IF role = "driver" THEN <<Running, Running>> ELSE <<Running>>,
   init |-> IF role = "validator" THEN <<Validation("terminated", 0, 1)>> ELSE <<>>]

Policy == [name |-> "cluster-policy", state |-> "ready", off |-> {},
           tolerations |-> {Toleration("team", "", "", "NoSchedule")}]

Init ==
  /\ \E kind \in [Changing -> Kinds] :
       LET of(n) == IF n \in Changing THEN kind[n] ELSE "plain"
       IN /\ node = [n \in Nodes |-> NodeOf(of(n))]
          /\ pods = {NewPod("controller", "gpu-operator")}
                    \cup UNION {{NewPod(n, role) : role \in RolesOf(of(n))} : n \in Nodes}
          /\ served = {n \in Nodes : of(n) \notin {"vm", "control-plane"}}
          /\ events = {[node |-> n, state |-> "cordon-required", at |-> 1] :
                         n \in {m \in Nodes : of(m) = "upgrading"}}
          /\ since = [n \in Nodes |-> IF of(n) = "upgrading" THEN 1 ELSE 0]
  /\ policies = <<Policy>>
  /\ domains = {}
  /\ now = 1 /\ changes = 0
  /\ broken = {}

-----------------------------------------------------------------------------

Change == changes < MaxChanges /\ changes' = changes + 1 /\ now' = now
Break(n) == broken' = broken \cup {n}
Intended == UNCHANGED broken
Serves(n) == served' = served \cup {n}

Runs(n, role) == \E p \in pods : p.node = n /\ p.name = role
UpdatePod(n, role, f(_)) == pods' = {IF p.node = n /\ p.name = role THEN f(p) ELSE p : p \in pods}
Without(n, roles) == {p \in pods : ~(p.node = n /\ p.name \in roles)}

\* A node with some of its fields set.
With(old, fields) == [k \in DOMAIN old |-> IF k \in DOMAIN fields THEN fields[k] ELSE old[k]]

\* The device plugin serves what alloc says; what it served before and does not
\* any more is at allocatable zero, its capacity zeroed or as it was.
Advertise(n, alloc, fields) ==
  \E stale \in SUBSET {r \in Resources : node[n].cap[r] > 0 /\ alloc[r] = 0} :
    node' = [node EXCEPT ![n] =
      [With(@, fields) EXCEPT !.alloc = alloc,
                              !.cap = [r \in Resources |-> IF r \in stale THEN node[n].cap[r] ELSE alloc[r]]]]

SetNode(n, fields) == node' = [node EXCEPT ![n] = With(@, fields)]

-----------------------------------------------------------------------------
(* Faults. *)

Died(c) == Container("CrashLoopBackOff", NoTermination, Terminated(1, now), c.restarts + 1, FALSE)
CameBack(c) == Container("running", NoTermination, Terminated(1, now), c.restarts + 1, TRUE)

DriverFails(n) ==
  /\ Change /\ Break(n)
  /\ \E role \in {"driver", "vgpu-manager"} :
       /\ Runs(n, role)
       /\ \/ UpdatePod(n, role, LAMBDA p : [p EXCEPT !.statuses[1] = Died(@)])
          \/ UpdatePod(n, role, LAMBDA p : [p EXCEPT !.statuses[1] = CameBack(@)])
          \/ UpdatePod(n, role, LAMBDA p : [p EXCEPT !.statuses = <<>>])
  /\ UNCHANGED <<node, policies, events, domains, served, since>>

ToolkitFails(n) ==
  /\ Change /\ Break(n)
  /\ Runs(n, "validator")
  /\ \E state \in {"terminated", "CrashLoopBackOff"} :
       UpdatePod(n, "validator", LAMBDA p : [p EXCEPT !.init = <<Validation(state, 1, now)>>])
  /\ UNCHANGED <<node, policies, events, domains, served, since>>

\* The plugin waits for what it needs and advertises nothing.
PluginStops(n) ==
  /\ Change /\ Break(n)
  /\ Runs(n, "device-plugin")
  /\ UpdatePod(n, "device-plugin", LAMBDA p : [p EXCEPT !.statuses[1] = Died(@)])
  /\ Advertise(n, Zero, << >>)
  /\ UNCHANGED <<policies, events, domains, served, since>>

DeviceUnhealthy(n) ==
  /\ Change /\ Break(n)
  /\ \E r \in Resources : node[n].alloc[r] > 0 /\ node' = [node EXCEPT ![n].alloc[r] = @ - 1]
  /\ UNCHANGED <<pods, policies, events, domains, served, since>>

ImexFails(n) ==
  /\ Change /\ Break(n)
  /\ Runs(n, "imex-daemon")
  /\ UpdatePod(n, "imex-daemon", LAMBDA p : [p EXCEPT !.statuses[1] = Died(@)])
  /\ UNCHANGED <<node, policies, events, domains, served, since>>

SliceWithdrawn(n) ==
  /\ Change /\ Break(n)
  /\ node[n].slice /\ SetNode(n, [slice |-> FALSE])
  /\ UNCHANGED <<pods, policies, events, domains, served, since>>

ReconfigureFails(n) ==
  /\ Change /\ Break(n)
  /\ node[n].config # ""
  /\ \E state \in {"pending", "failed"} : Advertise(n, Zero, [configState |-> state])
  /\ UNCHANGED <<pods, policies, events, domains, served, since>>

-----------------------------------------------------------------------------
(* Changes made on purpose. *)

\* The start of a migration to DRA.
PublishSlice(n) ==
  /\ Change /\ Intended /\ Serves(n)
  /\ ~node[n].slice /\ Runs(n, "device-plugin")
  /\ SetNode(n, [slice |-> TRUE])
  /\ pods' = pods \cup {NewPod(n, "dra-driver")}
  /\ UNCHANGED <<policies, events, domains, since>>

\* The end of a migration to DRA.
RetirePlugin(n) ==
  /\ Change /\ Intended
  /\ node[n].slice /\ Runs(n, "device-plugin")
  /\ Advertise(n, Zero, [deploy |-> [node[n].deploy EXCEPT !["device-plugin"] = "false"]])
  /\ pods' = Without(n, {"device-plugin"})
  /\ UNCHANGED <<policies, events, domains, served, since>>

Serving(n) == Runs(n, "device-plugin") /\ \E r \in Resources : node[n].alloc[r] > 0

Repartition(n) ==
  /\ Change /\ Intended /\ Serving(n)
  /\ \/ /\ node[n].strategy = "mixed"
        /\ Advertise(n, Of("gpu", GPUs), [strategy |-> "single"])
     \/ /\ node[n].strategy = "single"
        /\ Advertise(n, Of("mig", GPUs), [strategy |-> "mixed"])
  /\ UNCHANGED <<pods, policies, events, domains, served, since>>

\* Time slicing, under the resource's own name or, with renameByDefault, the other.
Share(n) ==
  /\ Change /\ Intended /\ Serving(n)
  /\ node[n].replicas = 1 /\ node[n].strategy = "none"
  /\ \E r \in {"gpu", "gpu.shared"} : Advertise(n, Of(r, 2 * GPUs), [replicas |-> 2])
  /\ UNCHANGED <<pods, policies, events, domains, served, since>>

\* One operand of the node is paused, or all are: then nothing is served either.
Pause(n) ==
  /\ Change /\ Intended
  /\ \/ \E key \in {"driver", "dcgm-exporter"} :
          /\ key \in DOMAIN node[n].deploy
          /\ SetNode(n, [deploy |-> [node[n].deploy EXCEPT ![key] = "paused"]])
          /\ pods' = Without(n, {key})
     \/ /\ node[n].workload = "container"
        /\ Advertise(n, Zero, [deploy |-> [k \in DOMAIN node[n].deploy |-> "paused"]])
        /\ pods' = Without(n, DeployKeys)
  /\ UNCHANGED <<policies, events, domains, served, since>>

\* The chart is told not to run the exporter, or its plugin where nothing needs it.
DisableOperand ==
  /\ Change /\ Intended
  /\ \E field \in {"dcgmExporter", "devicePlugin"} :
       LET role == IF field = "dcgmExporter" THEN "dcgm-exporter" ELSE "device-plugin"
       IN /\ field = "devicePlugin" => \A n \in Nodes : ~Runs(n, role)
          /\ policies' = [i \in DOMAIN policies |->
                            IF policies[i].name = Policy.name
                              THEN [policies[i] EXCEPT !.off = @ \cup {field}] ELSE policies[i]]
          /\ pods' = {p \in pods : p.name # role}
  /\ UNCHANGED <<node, events, domains, served, since>>

\* A second policy comes to be, and is listed before or after; or the first is not ready.
PolicyChanges ==
  /\ Change /\ Intended
  /\ LET other == [name |-> "other", state |-> "", off |-> {}, tolerations |-> {}]
     IN \/ Len(policies) = 1 /\ policies' \in {<<other>> \o policies, Append(policies, other)}
        \/ policies' = [i \in DOMAIN policies |->
                          IF policies[i].name = Policy.name
                            THEN [policies[i] EXCEPT !.state = "notReady"] ELSE policies[i]]
  /\ UNCHANGED <<node, pods, events, domains, served, since>>

Relabel(n) ==
  /\ Change /\ Intended
  /\ \/ SetNode(n, [unschedulable |-> TRUE, taints |-> node[n].taints \cup
                      {[key |-> "pressure", value |-> "", effect |-> "NoSchedule"]}])
     \/ SetNode(n, [sentinel |-> TRUE])
     \/ SetNode(n, [tiers |-> {"tier-1"}])
     \/ SetNode(n, [clique |-> ""])
     \/ SetNode(n, [taints |-> node[n].taints \cup {ControlPlaneTaint}])
  /\ UNCHANGED <<pods, policies, events, domains, served, since>>

\* NFD has found the device and GFD has not labelled the node yet, or any more.
Unlabel(n) ==
  /\ Change /\ Break(n)
  /\ SetNode(n, [present |-> FALSE, count |-> 0])
  /\ UNCHANGED <<pods, policies, events, domains, served, since>>

JoinDomain(n) ==
  /\ Change /\ Intended
  /\ \E status \in {"Ready", "NotReady"} : domains' = domains \cup {[m \in {n} |-> status]}
  /\ pods' = pods \cup {NewPod(n, "imex-daemon")}
  /\ UNCHANGED <<node, policies, events, served, since>>

\* The upgrade controller sets the label and records an event; the restart takes
\* the driver down and the end of it brings a new one.
UpgradeStep(n, state) ==
  /\ Change
  /\ Runs(n, "driver") /\ node[n].upgrade # state
  /\ IF state = UpgradeFailed THEN Break(n) ELSE Intended
  /\ SetNode(n, [upgrade |-> state])
  /\ events' = events \cup {[node |-> n, state |-> state, at |-> now]}
  /\ since' = [since EXCEPT ![n] = now]
  /\ pods' = CASE state = "pod-restart-required" ->
                    Without(n, {"driver"}) \cup {[NewPod(n, "driver") EXCEPT !.statuses = <<>>]}
               [] state = UpgradeDone -> Without(n, {"driver"}) \cup {NewPod(n, "driver")}
               [] OTHER -> pods
  /\ UNCHANGED <<policies, domains, served>>

\* A node that is still in its step when the window is over is stuck.
Stuck(n, t) == node[n].upgrade \in upgradeStuckStates /\ t - since[n] >= upgradeStuckAfter

Tick ==
  /\ now < MaxTime /\ now' = now + 1
  /\ events' = {e \in events : now + 1 - e.at < EventTTL}
  /\ broken' = broken \cup {n \in Nodes : Stuck(n, now + 1)}
  /\ UNCHANGED <<node, pods, policies, domains, changes, served, since>>

Next ==
  \/ \E n \in Changing :
       \/ DriverFails(n) \/ ToolkitFails(n) \/ PluginStops(n) \/ DeviceUnhealthy(n)
       \/ ImexFails(n) \/ SliceWithdrawn(n) \/ ReconfigureFails(n) \/ Unlabel(n)
       \/ PublishSlice(n) \/ RetirePlugin(n) \/ Repartition(n) \/ Share(n) \/ Pause(n)
       \/ Relabel(n) \/ JoinDomain(n)
       \/ \E state \in {"cordon-required", "drain-required", "pod-restart-required",
                        UpgradeDone, UpgradeFailed} : UpgradeStep(n, state)
  \/ DisableOperand \/ PolicyChanges \/ Tick

Spec == Init /\ [][Next]_vars

-----------------------------------------------------------------------------
(* Properties. *)

\* The reads a run of health may lose.
Losses == {R \in SUBSET Reads : Cardinality(R) <= MaxLost}

Alarms(R) == {f \in Findings(Live(R)) : f.sev >= Warning}
AlarmsOn(n, R) == {f \in Alarms(R) : f.node = n}

\* What the device plugin left behind: a resource that is not served any more and
\* that the kubelet still counts, on a node with a slice or beside the other name
\* for a whole GPU; or a mixed strategy on a DRA node.
Leftover(n) ==
  LET stale == {r \in Resources : node[n].cap[r] > 0 /\ node[n].alloc[r] = 0}
  IN \/ node[n].slice /\ stale # {}
     \/ stale \ {"mig"} # {} /\ wholeGPUs(node[n].alloc) > 0
     \/ node[n].slice /\ node[n].strategy = "mixed" /\ node[n].alloc["mig"] = 0

\* Several policies and none of them ready: activeClusterPolicy guesses.
PolicyGuessed == Len(policies) > 1 /\ \A i \in DOMAIN policies : ~IsReady(policies[i])

\* No step made on purpose, in any order and from any of the set-ups, makes a rule
\* warn about a node: a migration, a repartitioned or a shared GPU, a paused or a
\* disabled operand, a cordon, a taint and an upgrade inside its window are not
\* faults (the exclusions of nv_node_002.go:34 and of the rules beside it).  Left out
\* is what the device plugin left behind on a node that moved to DRA, whose mode
\* is then "both" and whose zero allocatable NV-NODE-002 reports (model.go:193), and
\* a cluster whose policy is a guess.
IntendedIsQuiet ==
  ~PolicyGuessed => \A n \in Nodes : n \notin broken /\ ~Leftover(n) => AlarmsOn(n, {}) = {}

\* A driver that is down, or that came back a moment ago, and a toolkit that does
\* not validate are named on their node whatever became of the node in the meantime
\* (its plugin stopped and it is only hinted, its slice is gone, it was tainted or
\* relabelled) and whichever other read was lost; a driver that an upgrade is
\* replacing is at least mentioned (nodes.go:30, the reason for everyNode).  So is a
\* node that is stuck in an upgrade, which is a warning as long as the event that
\* dates it is kept.
BrokenIsSeen ==
  \A R \in {L \in Losses : L \cap {"pods", "operator"} = {}} : LET found == Findings(Live(R)) IN \A p \in pods :
    LET named(code, sev) == \E f \in found : f.node = p.node /\ f.code = code /\ f.sev >= sev
        dated == "events" \notin R
                 /\ [node |-> p.node, state |-> node[p.node].upgrade, at |-> since[p.node]] \in events
        paused(key) == key \in DOMAIN node[p.node].deploy /\ DeployDisabled(node[p.node].deploy[key])
        dead == \E c \in {p.statuses[i] : i \in DOMAIN p.statuses} :
                  c.restarts > 0 /\ (c.ready => now - c.last.at < DriverRestartWindow)
        upgrading == node[p.node].upgrade \notin {"", UpgradeDone, UpgradeFailed}
    IN /\ p.name \in {"driver", "vgpu-manager"} /\ ~paused(p.name) /\ (dead \/ p.statuses = <<>>)
            => named("NV-DRV-001", IF upgrading THEN Info ELSE Error)
       /\ p.name = "validator" /\ p.init[1].status.last.code + p.init[1].status.cur.code > 0
            => named("NV-CTK-001", Error)
       /\ p.name = "driver" /\ Stuck(p.node, now) => named("NV-UPG-001", IF dated THEN Warning ELSE Info)

\* A node that had a GPU to place and has none left, through neither the plugin nor
\* a slice, is an error: with its capacity zeroed it is only hinted, with its capacity
\* left it is a GPU node.  Only a lost label hides it, or a taint when neither the
\* pods that run there nor the policy's tolerations could be read.
LostNodeIsSeen ==
  \A R \in Losses, n \in served :
    LET offers == node[n].slice \/ \E r \in Resources : node[n].alloc[r] > 0
        paused == \A k \in DOMAIN node[n].deploy : DeployDisabled(node[n].deploy[k])
    IN node[n].present /\ ~offers /\ ~paused
         => \/ \E f \in Findings(Live(R)) : f.node = n /\ f.code = "NV-NODE-002" /\ f.sev = Error
            \/ node[n].taints # {} /\ "pods" \in R

\* Reading less never raises an alarm that reading everything would not, but for
\* these: a node that is a GPU node by its slice alone looks empty without the slices
\* (live.go:153, "wrong in a known direction"); an operand the policy switched off
\* looks wanted without the policy (policy.go:83); and operands look missing when the
\* pods were not read and the operator was.
LessReadIsNotWorse ==
  LET all == Alarms({}) IN
  \A R \in Losses : \A f \in Alarms(R) \ all :
    \/ "resourceslices" \in R /\ f.code = "NV-NODE-002" /\ node[f.node].slice
    \/ "clusterpolicies" \in R /\ f.code \in {"NV-DP-001", "NV-DCGM-001"}
    \/ "pods" \in R /\ "operator" \notin R /\ f.code \in {"NV-DP-001", "NV-DCGM-001"}

=============================================================================
