------------------------------- MODULE Bundle -------------------------------
(***************************************************************************)
(* A must-gather that writes the files health reads back, one collector    *)
(* after the other while the cluster goes on changing, what may become of  *)
(* the files afterwards, and "kubectl nv health --from-bundle" over them.  *)
(*                                                                         *)
(* Of the registry only the collectors whose files are read back are here, *)
(* in the registry's order; Collectors has how each of them works.  What a *)
(* redaction does to the files is not modelled.                            *)
(***************************************************************************)
EXTENDS HealthCluster

CONSTANTS
  Asking,     \* names of the pods that ask for GPUs: any operand's resources can be set
  MaxTrouble  \* bound: how many changes there are and files that are missing or harmed

VARIABLES
  todo,      \* the collectors still to run
  prepared,  \* gatherState: the pods of the operator's namespace, once listed
  bundle,    \* what the directory holds under each name
  lost,      \* history: the files whose read failed, or that came to harm
  hollow,    \* history: the slices of an older version could not be read
  stable,    \* history: the alarms of every moment of the cluster since the gather began
  began      \* history: when the gather began, and how many changes had happened

gather == <<todo, prepared, bundle, lost, hollow, stable, began>>
bundleVars == <<vars, gather>>

Registry == <<"nodes", "cluster_policy", "resourceslices", "compute_domains",
              "gpu_pods", "node_events", "operator_pod", "gpu_operand_pods">>
Files == {Registry[i] : i \in DOMAIN Registry} \ {"operator_pod"}

Absent == [kind |-> "absent"]
File(content) == [kind |-> "file", content |-> content]
Marker(reason) == [kind |-> "marker", reason |-> reason]

BundleInit ==
  /\ Init
  /\ todo = Registry /\ prepared = <<>>
  /\ bundle = [f \in Files |-> Absent]
  /\ lost = {} /\ hollow = FALSE
  /\ stable = {} /\ began = [changes |-> 0, at |-> 1]

-----------------------------------------------------------------------------
(* The collectors.  A reply is "ok", or "forbidden" or "failed", or           *)
(* "notserved" for a collection that the cluster does not have.               *)

Collect(f) ==
  /\ todo # <<>> /\ Head(todo) = f /\ todo' = Tail(todo)
  /\ stable' = IF todo = Registry THEN Alarms({})
               ELSE IF stable = {} THEN {} ELSE stable \cap Alarms({})
  /\ UNCHANGED <<vars, began>>

Faults == {"forbidden", "failed"}

\* The reply to the read behind a file, and what the history makes of it.
Answers(f, reply) ==
  IF reply \in Faults
    THEN Cardinality(lost) + changes < MaxTrouble /\ lost' = lost \cup {f}
    ELSE UNCHANGED lost

Write(f, what) == bundle' = [bundle EXCEPT ![f] = what]

\* A list without which there is no file: the collector ends in an error.
gatherOrFail(f, content) ==
  /\ Collect(f)
  /\ \E reply \in {"ok"} \cup Faults :
       /\ Answers(f, reply)
       /\ IF reply = "ok" THEN Write(f, File(content)) ELSE UNCHANGED bundle
  /\ UNCHANGED <<prepared, hollow>>

gatherNodeInfo == gatherOrFail("nodes", node)

\* projectGPUPod: what a pod asks for and where it runs, without its statuses.
projectGPUPod(p) == [p EXCEPT !.statuses = <<>>, !.init = <<>>]

gatherGPUPods == gatherOrFail("gpu_pods", {projectGPUPod(p) : p \in {q \in pods : q.name \in Asking}})

gatherNodeEvents == gatherOrFail("node_events", events)

\* gatherOrMark: the objects, or a marker that says why there are none.
gatherOrMark(f, none, content) ==
  /\ Collect(f)
  /\ \E reply \in {"ok"} \cup Faults \cup (IF none THEN {"notserved"} ELSE {}) :
       /\ Answers(f, reply)
       /\ Write(f, CASE reply = "ok" /\ ~none -> File(content)
                     [] reply = "ok" /\ none -> Marker("not installed")
                     [] reply = "notserved" -> Marker("not installed")
                     [] OTHER -> Marker(reply))
  /\ UNCHANGED <<prepared, hollow>>

\* Mutant of gatherClusterPolicy: what is written is always the list.
gatherClusterPolicyList ==
  gatherOrMark("cluster_policy", policies = <<>>, [items |-> policies])

\* A list of one policy is written as the one document, another as a list.
gatherClusterPolicy ==
  gatherOrMark("cluster_policy", policies = <<>>,
               IF Len(policies) = 1 THEN policies[1] ELSE [items |-> policies])

gatherComputeDomains == gatherOrMark("compute_domains", domains = {}, domains)

\* A group that is not served leaves an empty list, and so does one that is served
\* at an older version which then cannot be read ("older"); a refusal leaves nothing.
gatherResourceSlices ==
  LET f == "resourceslices"
      sliced == {n \in Nodes : node[n].slice}
  IN /\ Collect(f)
     /\ \E reply \in {"ok", "older"} \cup Faults \cup (IF sliced = {} THEN {"notserved"} ELSE {}) :
          /\ Answers(f, reply)
          /\ hollow' = (reply = "older")
          /\ CASE reply = "ok" -> Write(f, File(sliced))
               [] reply \in {"older", "notserved"} -> Write(f, File({}))
               [] OTHER -> UNCHANGED bundle
  /\ UNCHANGED prepared

operatorPods == {p \in pods : Label(p, "app") = "gpu-operator"}

\* prepareState: the operator is found by its label, and its namespace is listed.
\* Once it has worked no collector asks again.
prepareState ==
  IF prepared # <<>> \/ operatorPods = {} THEN {prepared}
  ELSE {<<{p \in pods : p.namespace = (CHOOSE q \in operatorPods : TRUE).namespace}>>} \cup {prepared}

gatherOperatorPod ==
  /\ Collect("operator_pod")
  /\ prepared' \in prepareState
  /\ UNCHANGED <<bundle, lost, hollow>>

gatherOperandPods ==
  LET f == "gpu_operand_pods" IN
  /\ Collect(f)
  /\ prepared' \in prepareState
  /\ Answers(f, IF prepared' = <<>> THEN "failed" ELSE "ok")
  /\ IF prepared' = <<>> THEN UNCHANGED bundle ELSE Write(f, File(prepared'[1]))
  /\ UNCHANGED hollow

\* A file is truncated or lost on its way to the reader, or is replaced by what is
\* not a regular file, is too large or is of an earlier version of the tool.
Damage(f) ==
  /\ todo = <<>> /\ bundle[f] # Absent
  /\ Cardinality(lost) + changes < MaxTrouble
  /\ \E kind \in {"absent", "garbled", "unsafe"} : Write(f, [kind |-> kind])
  /\ lost' = lost \cup {f}
  /\ UNCHANGED <<vars, stable, todo, prepared, hollow, began>>

\* The cluster changes, before, during or after the gather.
ClusterStep ==
  /\ Next /\ Cardinality(lost) + changes' <= MaxTrouble
  /\ UNCHANGED <<todo, prepared, bundle, lost, hollow, stable>>
  /\ began' = IF todo = Registry THEN [changes |-> changes', at |-> now'] ELSE began

BundleNext ==
  \/ gatherNodeInfo \/ gatherClusterPolicy \/ gatherResourceSlices \/ gatherComputeDomains
  \/ gatherGPUPods \/ gatherNodeEvents \/ gatherOperatorPod \/ gatherOperandPods
  \/ \E f \in Files : Damage(f)
  \/ ClusterStep

BundleSpec == BundleInit /\ [][BundleNext]_bundleVars

-----------------------------------------------------------------------------
(* source.Bundle: what is read back.  An answer is what was got and what is   *)
(* missing of it, as the files the errors name; Hard among them is an error   *)
(* that is not partial.                                                       *)

Hard == "hard"
Answer(got, missing) == [got |-> got, missing |-> missing]

\* readYAML: the file's content, or a partial error that names the file; what is
\* structurally wrong with it is an error of its own.
readYAML(f, nothing) ==
  CASE bundle[f].kind = "file" -> Answer(bundle[f].content, {})
    [] bundle[f].kind = "unsafe" -> Answer(nothing, {Hard})
    [] OTHER -> Answer(nothing, {f})

\* Mutant of markerReason: a marker is the answer, whatever it says.
markerReasonAny(f, answer) ==
  IF bundle[f].kind = "marker" THEN [answer EXCEPT !.missing = {}] ELSE answer

\* Of the reasons only "not installed" is an answer, and it is an empty one.
markerReason(f, answer) ==
  IF bundle[f].kind = "marker" /\ bundle[f].reason = "not installed"
    THEN [answer EXCEPT !.missing = {}] ELSE answer

ResourceSlices == readYAML("resourceslices", {})

\* The nodes without the slices are a partial answer, the slices without the nodes
\* are none.
ClassifyNodes ==
  LET list == readYAML("nodes", <<>>)
      missing == IF list.missing # {} THEN list.missing ELSE ResourceSlices.missing
  IN Answer(IF missing = {Hard} THEN <<>> ELSE list.got, missing)

SamePod(p, q) == p.namespace = q.namespace /\ p.name = q.name /\ p.node = q.node

\* Mutant of mergePods: the projections come first.
mergeProjections(operands, asking) ==
  asking \cup {p \in operands : \A q \in asking : ~SamePod(p, q)}

\* A pod in both files is taken from the first.
mergePods(operands, asking) ==
  operands \cup {p \in asking : \A q \in operands : ~SamePod(p, q)}

\* Pods of every namespace: without the pods that ask for GPUs it is partial.
Pods ==
  LET list == readYAML("gpu_operand_pods", {})
      gpuPods == readYAML("gpu_pods", {})
  IN CASE list.missing # {} -> list
       [] list.missing = {} /\ gpuPods.missing = {Hard} -> Answer({}, {Hard})
       [] OTHER -> Answer(mergePods(list.got, gpuPods.got), gpuPods.missing)

\* What the file holds is one object: a list of several is read as one that has
\* neither a state nor a spec.
ClusterPolicies ==
  LET file == readYAML("cluster_policy", <<>>)
      object == IF "items" \in DOMAIN file.got
                  THEN [name |-> "", state |-> "", off |-> {}, tolerations |-> {}] ELSE file.got
  IN IF file.missing = {} THEN Answer(<<object>>, {}) ELSE markerReason("cluster_policy", file)

ComputeDomains == markerReason("compute_domains", readYAML("compute_domains", {}))

NodeEvents == readYAML("node_events", {})

\* health's buildInput over a bundle: a reading, what is missing of it, and whether
\* there is a report at all.
Replay ==
  LET operators == {p \in Pods.got : Label(p, "app") = "gpu-operator"}
      missing == UNION {ClassifyNodes.missing, ResourceSlices.missing, Pods.missing,
                        ClusterPolicies.missing, NodeEvents.missing, ComputeDomains.missing}
  IN [reading |-> [nodes |-> ClassifyNodes.got, slices |-> ResourceSlices.got, pods |-> Pods.got,
                   operator |-> operators, policies |-> ClusterPolicies.got,
                   events |-> NodeEvents.got, domains |-> ComputeDomains.got],
      missing |-> missing,
      ran |-> Hard \notin missing]

-----------------------------------------------------------------------------
(* Properties. *)

Gathered == todo = <<>>
Whole == Gathered /\ lost = {} /\ ~hollow

\* What the gather did not get, and what came to harm since, is named by the run
\* that reads the bundle back, or there is no run; and a collection that the cluster
\* does not serve is not missing.  Only a list of GPU pods that is missing beside the
\* operands' is not named (bundle.go:385 returns first), and slices that are served
\* at an older version which could not be read are taken for none
\* (resourceslices.go:123).
GapIsReadAsGap ==
  Gathered =>
    LET replay == Replay IN
    /\ replay.missing \ {Hard} \subseteq lost
    /\ replay.ran => \A f \in lost :
         f \in replay.missing \/ (f = "gpu_pods" /\ "gpu_operand_pods" \in lost)

\* A whole bundle of a cluster that did not change while it was gathered says what
\* the cluster says, at whatever time both are read, but for three things: an upgrade
\* whose event the API server has dropped and the bundle has kept, a policy that is
\* one of several (written as a list, read as an object), and the IMEX daemons, whose
\* pods no file holds.
BundleAgrees ==
  Whole /\ changes = began.changes /\ Len(policies) = 1 =>
    LET compared(found) == {f \in found : /\ f.component # "imex-daemon"
                                          /\ f.code = "NV-UPG-001" => NodeEvents.got = events}
    IN compared(Findings(Replay.reading)) = compared(Findings(Live({})))

\* The files of a gather are of different moments, and no moment may have been as the
\* bundle is.  An alarm that every moment had is still an alarm of a whole bundle,
\* whatever changed in between and after, but for two when time has passed: a driver
\* that came back, for health takes the time of the reading (health.go:186), and an
\* upgrade that went from one step it was stuck in to the next, when the event that
\* dates the first was dropped before the events were listed.  That one is still
\* mentioned.
TornKeepsAlarms ==
  Whole /\ Len(policies) = 1 =>
    LET found == Findings(Replay.reading) IN
    \A f \in stable :
      \/ f \in found
      \/ /\ now > began.at
         /\ \/ f.code = "NV-DRV-001"
            \/ f.code = "NV-UPG-001" /\ [f EXCEPT !.sev = Info] \in found

\* A question about every namespace is answered completely by a whole bundle
\* (bundle.go:368): it holds the operands the live inventory has of every node.
OperandsAreRecorded ==
  Whole /\ changes = began.changes =>
    \A n \in Nodes : operandsByNode(Replay.reading.pods)[n] = operandsByNode(pods)[n]
=============================================================================
