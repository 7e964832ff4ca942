# Verification of kubectl-nv

kubectl-nv is a read-only kubectl plugin for clusters with NVIDIA GPUs. Its
commands list and explain the GPUs, check their health, show their topology,
collect a support bundle (`adm must-gather`), and serve all of that to a model
over MCP (`mcp`). This directory holds TLA+ models of the parts of it that keep
state over several steps, the TLC runs that check them on small instances, and
TLAPS proofs for every size.

## The system

| Component | State it keeps | Operations | Talks to |
|---|---|---|---|
| must-gather run (`pkg/mustgather`: mustgather.go, manifest.go, progress.go, bundle.go) | the artifact directory, `Gatherer.results`, `current`, `collected`, the two open logs, `manifest.json` | `NewGatherer`, `checkNode`, `collect`, `createArtifact`/`commit`/`discard`, `writeMarker`, the deferred `writeManifest` | every collector calls its file operations |
| collectors (collector.go, complete.go, resourceslices.go, logs.go, driverpods.go) | `gatherState`: namespace, operator pod, operand pods, driver pods, `execDenied`, `prepared` | twenty collectors, in registry order; `prepareState` and `prepareDriverPods` on first use | the API server, one request at a time; driver pods by exec |
| bug report copy (cp.go, exec.go, k8sUtils.go) | an `io.Pipe`, a goroutine, a context with a deadline, the destination file | exec a script, exec `tar`, `untarAll` | a pod that may answer, fail, stop or cut the stream |
| redactor (redact.go) | the key, the learned names, the renames, the dropped files | `RedactBundle` file by file, `discardBundle`, `redactManifest` | the artifact directory |
| MCP server (`pkg/cmd/mcp`) | one connection: `ConfigFlags` and a factory; per call a command tree, a command line, a private directory | `handlerFor`, `commandLine`, `execute` | the command tree (`pkg/cmd/root`), the factory; calls run at the same time |
| client factory (`pkg/cmd/factory.go`) | REST configuration and clients behind a mutex | `RESTConfig`, `KubernetesClient`, `DynamicClient` | every command, every tool call |
| sources (`pkg/source`) | a memoised ResourceSlice list (live), files (bundle) | one read per kind of object | inventory, health, topology, debug |
| inventory (`pkg/inventory`) | none | GPU accounting over nodes, pods and slices | health, topology, list, info |
| health (`pkg/health`, `engine`, `rules`) | the report being built | run each rule over what was read; fold into a report and an exit code | sources, inventory, output |
| topology (`pkg/topology`, `pkg/cmd/topology`) | none | read the nodes, Kueue and a job; group the nodes; fit the job | sources, inventory |
| debug (`pkg/debug`, `pkg/cmd/debug`) | the report | read a node, gather it, read the manifest back | inventory, the must-gather run |
| output (`pkg/output`) | none | printers, envelopes, limits, schemas, exit codes | every command |
| commands and main (`pkg/cmd/*`, `cmd/kubectl-nv`) | flags | wiring; a panic is exit 4, a usage error exit 2 | all of the above |

What makes each of them correct, and what is hard about it:

* **run**: the exit code, the manifest and the directory tell one story, however
  the run ended: an error, a refusal, a panic, a kill, a write, a removal or a
  redaction that failed. A test reaches each of these one at a time.
* **collectors**: a gap (refused, failed) is not told as an absence; the files
  of one bundle are from one list though pods come and go between the reads and
  a failed `prepareState` is retried by the next collector; no two files share a
  name; a refused exec reaches the exit code, or the file it was to fill.
* **copy**: the stream can be cut anywhere and the pod can stop answering; what
  stays on disk is whole, and one pod does not cost the others, unless it stops
  answering during its copy.
* **redactor**: after `--redact` nothing is as it was collected, or the bundle is
  gone and the exit code says so.
* **MCP server**: no tool call execs into a pod; calls that run at once do not
  change one another; each is answered.
* **factory**: one configuration and one client of each kind for all calls, and a
  mutex that is free again whatever could not be built.
* **list, info, health**: a dozen requests, each answered, refused, failed or
  about something the cluster does not serve, while the cluster changes. Exit 0
  is said only of what was looked at, 3 only of a run that happened and with
  what it missed, 2 only when the name is known to be wrong, and one answer is
  from one list of ResourceSlices.
* **inventory and rules**: sixteen rules look at the same nodes, pods, policies,
  events and domains, some of which were not read. What an administrator does on
  purpose is no fault, what breaks is named although breaking it moves the node
  from one list to another, and a read that was refused does not invent a fault.
* **bundle**: a cluster is written down file by file while it goes on changing,
  and read back later by someone who cannot ask it again. A file that is not
  there has one of several meanings.
* **topology**: a job fits where a scheduler could put it, though the nodes and
  the pods that were counted are of two moments.
* **debug**: one exit code for a read, a gather and the manifest of the gather.
* **output** is printing; its hazards are wrong text.

`PROJECT.json` lists the hazards at their lines, with the properties that would
catch them going wrong.

## Modules

**GatherRun** is one run, for *any* registry of `N` collectors and any set of
files. A file's content is `absent`, `torn`, `raw` or `redacted`; `disk` has the
final names and `part` the `.part` names, so that "committed", "in progress" and
"left behind" are different states. A manifest records the content it hashed,
which is what a digest stands for. What a collector may do is stated once:
`createArtifact`, `commit`, `discard`, `writeMarker`, the copy of a bug report
(`copyStarts` .. `discardArtifact`), and `Return` with ok, skipped or error.
`Panic` unwinds through the writers that defer their discard (`Guarded`) to the
deferred `writeManifest`; `Kill` ends the process with no deferred call. `Stuck`
are the files whose removal may fail: `discard`, `discardArtifact` and
`discardBundle` then leave them, as the code does. Renames of the redaction are
not modelled: a file keeps its identity and only its content changes.

| state | code |
|---|---|
| `status`, `arts` | `Gatherer.results` (`CollectorStatus`); `open` is the empty Status between `begin` and `end` |
| `collected` | `Gatherer.collected` |
| `denied` | `gatherState.execDenied` is not empty |
| `outcome`, `code` | the error `Run` returns, and its `ExitCode` |
| `opts` | `Options.Redact`, `Options.Node` |

**Collectors** has the collectors themselves. A collector reads (one request per
step, answered with items, nothing, not served, forbidden or failed), turns the
answer into a plan of jobs, does the jobs one at a time and returns. `gs` is
`gatherState`; `live` is what the namespace holds now, and `Churn` changes it
between any two requests. A *scenario* is a registry with the flags and the
pods it is checked with; one is chosen at the start and kept. `heard`, `noted`,
`said` and `listed` are history variables: the gaps a collector met, each with the
question it was the answer to (`Questions \X Gaps`), the usage files a command of
which was refused or failed, what the bundle says in reply, and the pod list that
was written. Its file operations check nothing about names; the module
INSTANCEs GatherRun and `GatherRunSpec` says that every step is one GatherRun
allows, whose `createArtifact` demands a fresh name and whose `Return` demands
that nothing is unfinished. Panics and kills are the same in all collectors and
stay in GatherRun; so do removals that fail (`Stuck` is empty here). The status
tables ask the server anew for pods the collector already has
(tables.go:304-308), and fall back on those when the answer is not one; that read
changes the text of a table and is left out.

**PodCopy** is the loop over driver pods: exec under a deadline, then the copy.
The archive is a header, `Size` data blocks and a zero block; `send` and
`streamEnds` are the goroutine and the pod, `readBlock` and `readEnd` are
`untarAll`. `expire` is the timer. `SilentExec` and `SilentCopy` are the pods that
may never answer the script, or stop answering in the copy. The retries in `TarPipe.Read` are left out:
no caller sets `MaxTries`.

**McpServer** has `Calls` handled at the same time. Binding `--namespace` reads
the shared string and stores it back, parsing stores the call's own value, and
nothing locks it: each word of the string is a step of its own (a Go string is a
pointer and a length). The factory's mutex, the lazily built configuration,
clientset and dynamic client and the forced `--no-exec` are modelled; the command
that runs is external and exits with any code.

| state | code |
|---|---|
| `factory` | `configFlagsFactory.config`, `clientset`, `dynamic`: which build each is, and the configuration it was made from |
| `held` | what each call's command was handed by the factory |
| `holder` | `configFlagsFactory.mu` |
| `ns` | `ConfigFlags.Namespace`, its two words |

**ReadRun** is one `list`, `info` or `health` over a live cluster, one request a
step. A node is three facts: it advertises a GPU, it has an NVIDIA label, a
ResourceSlice names it. The node list fixes the first two when it is read;
`Churn` publishes and withdraws slices from then on until the last step that
could read them. `Nodes` are the nodes of that list: a slice that names another
node is passed over by `classifyNodes` and is no node's. An error is what
`errors.As` and `collectPartial` tell apart: the resource of a `PartialError`,
or `Hard`; wrapping adds nothing to that, and `errors.Join` makes a sequence.
What the rules conclude is left open (`Evaluations`): at most `MaxFound`
findings, of any rule that applies, about any node it was given or the cluster.
A list is one step: client-go's pager starts again when its continue token
expires, so the pages of one answer are one answer or a failure.

| state | code |
|---|---|
| `memo` | `Live.slices`, `sliceErr`, `sliceRead` |
| `gpu`, `hinted`, `sliced` | `GPUNodeList.Items` by their `Hinted`, and `clusterFacts.slices` |
| `partials` | the errors `BuildWithHinted` and `buildInput` collect |
| `inSlices`, `version` | `health.Input.ResourceSlices`, `OperatorVersion` |
| `found`, `said`, `code` | the report's findings, the resources the output names as not read, the exit code |
| `gaps`, `concluded` | history: requests that were not answered, what the rules found before `--node` |

**Inventory** and **HealthRules** are pure: the first turns objects into what
`pkg/inventory` keeps of a node (mode, MIG, driver, operands, the driver pod),
the second is the rules, one operator each, named after its Go type, with the
helpers of policy.go and rules.go they share. `Input(r)` is `health.Input` when
the reads in `r` were refused, so that the same cluster can be looked at with
and without them. A finding keeps its code, severity, node and component; its
evidence and text are left out.

**HealthCluster** is the cluster they look at, and is external: nodes set up in
each of the ways the operator supports (`Kinds`), and one action per thing an
administrator, the operator, the kubelet or a fault does to one. `broken`,
`served` and `since` are history: what was broken and not mended, when the node
last served its GPUs. The rules run in every state.

**Bundle** extends HealthCluster with a gather of it, one file a step while the
cluster goes on, and the bundle readers of `pkg/source`. Each file is what the
collector wrote of the cluster at that moment (projections such as
`projectGPUPod` included), a marker with its reason, or nothing; `Damage` loses
or cuts a file afterwards. `Replay` is `buildInput` over it, and the rules are
those of HealthRules. `lost` and `hollow` remember what was refused or damaged,
`stable` the alarms that stood in every state since the gather `began`.

**Placement** is the arithmetic of `pkg/topology` and of inventory's requests:
what a pod spec asks for (sidecars, init containers, limits), groups by NVLink
label, network tier and Kueue level, and `fits`. **Topology** is the command over
it: each read a step that may be refused or fail, while pods bind and end and
nodes are cordoned or lose GPUs in between. `witnessed` is what the node list
and the pod list said, which is what an answer can be held to.

**Debug** is `runDebug` around the whole of GatherRun, which it EXTENDS: read the
node, gather, read the manifest back, report. The inventory is reduced to the
node being found or not and the reads that were refused.

`MC*.tla` and the `.cfg` files instantiate them. The theorems about a module are in
the `Proofs` module of its name: GatherRun, Collectors, ReadRun, McpServer, PodCopy,
Debug and Topology have one, and `HealthProofs` is about HealthCluster and Bundle.

## Runs

| run | instance | shows |
|---|---|---|
| `gather_run` | 2 collectors; a plain artifact, a log, a marker, a bug report; removal of the plain artifact and of the report may fail | the seven safety properties of a run and its type invariant |
| `collectors` | 4 scenarios of 4 collectors: two of cluster-scoped ones, one of each kind; the namespaced ones with the operator's pod, one operand and 2 changes of the namespace; the ones that exec with two driver pods on one node. 1 local fault; with and without `--node` | `GapIsSaid`, `CompleteHasEvidence`, `OneListPerBundle`, `RefusedExecIsReported`, refinement of GatherRun |
| `mcp_server` | 2 calls, a namespace the server was given and one a call names | `NeverExecs`, `OneOfEachClient`, `QuietNamespace`, `EveryCallAnswered` |
| `read_run` | 2 nodes, one change of the slices, one finding; an info rule and a warning rule that does not apply to a known version, gated on warnings; every flag of the three commands that changes a read or a filter | `CleanMeansSeen`, `FailureIsExitError`, `MissedIsSaid`, `UsageIsCertain`, `OneMoment` |
| `health_rules` | a node that starts in any of 9 set-ups and is changed twice, beside a plain one; every set of at most 3 refused reads; 3 ticks, against windows of 1 and events that live for 2 | `IntendedIsQuiet`, `BrokenIsSeen`, `LostNodeIsSeen`, `LessReadIsNotWorse` |
| `bundle` | a DRA node or one in an upgrade; 3 ticks and 2 changes, refused reads or damaged files between them, in every order with the 8 collectors | `GapIsReadAsGap`, `TornKeepsAlarms`, `BundleAgrees` |
| `topology` | 4 nodes, one of them DRA; 2 pods that come and go; 7 jobs; labels on all, on some and on no nodes; 4 Kueue topologies, two of which share the block and two the rack; 2 changes | `FitIsExact`, `SmallestIsNarrowest`, `ExitTells` |
| `pod_copy` | 3 pods, the first may never answer its script and the second may stop answering in its copy, 3 data blocks | `SettledIsWhole`, `EveryPodSettled` |

The bounds are the least that let the interesting cases meet: two collectors, so
that one fails and one does not; one file of each way a file enters a bundle;
two pods on one node, so that names can collide; two changes of the namespace,
so that one falls between the two lists of `prepareState` and one after them;
two calls, since the properties are about pairs; two blocks before the last, so
that a stream can be cut inside a file; two nodes, one that was asked for and
one that was not; one finding, since an exit code is decided by whether there is
one at the threshold; two changes of a node, since a fault and its consequence,
or a step and the one that undoes it, are two (`IntendedIsQuiet` was also run
with three); three nodes with GPUs, so that a sum over nodes and a sum of what
each can take differ. The changes, faults, refusals and ticks (`MaxChurn` and the
`churn` of a scenario, `MaxFaults`, `MaxFound`, `MaxChanges`, `MaxLost`,
`MaxTrouble`, `MaxTime`) are the only caps on what would be unbounded; what is
proved is proved for every value of them.
`read_run` does not check deadlock: a command ends; nor do `health_rules` and
`bundle`, which stop at their bounds.

What the properties leave out, and why:

* `IntendedIsQuiet` exempts a node that moved to DRA and on which the kubelet
  still lists the device plugin's resource at zero allocatable (`Leftover`): its
  mode is then `both` and NV-NODE-002 is an error, although nv_node_002.go:71-74
  calls that "what a healthy one looks like". How long a kubelet keeps a
  capacity above zero is outside the repository (nodes.go:33 takes it to drop it
  with the plugin), so no run is made of it. `Leftover` also has the node whose
  shared GPUs were renamed, with the old name still counted, and the mixed MIG
  strategy left on a DRA node. The property also exempts a cluster with several
  policies of which none is ready, where `activeClusterPolicy` guesses
  (policy.go:45-48).
* `LessReadIsNotWorse` lists the three alarms a refused read does invent:
  NV-NODE-002 of a DRA node when the ResourceSlices were refused, and NV-DP-001
  and NV-DCGM-001 when the policies were, or when the pods were and the
  operator's own were not.
* `BrokenIsSeen` asks for a mention, not an alarm, of a driver that an upgrade is
  replacing: a DRA node in the middle of one whose events have expired gets
  infos only.
* `TornKeepsAlarms` is one direction. The files of a bundle are of different
  moments, and alarms no moment had do arise from that (NV-DP-001, NV-DCGM-001,
  NV-UPG-001, NV-NODE-002 and NV-DRV-001 all can). It is about a cluster with one
  policy, and it lets two alarms go when time passed between the first read and the
  last: NV-DRV-001, whose restart can leave its window, and NV-UPG-001, whose event
  can expire before the events are read, and of which an info must then remain.
* `SmallestIsNarrowest` compares levels of one hierarchy: the NVLink labels, the
  tiers, and the levels each Kueue topology declares (`kueueNarrower`). Kueue's
  levels come after the tiers and one topology's after another's, so the first that
  fits need not be the narrowest of all. It need not be the narrowest of a Kueue
  topology either when that shares a level with a topology before it: with
  a = [block, hostname] and b = [block, rack, hostname] the report has block before
  rack (group.go:358-373), and `--for` names the block though a rack fits, where
  group.go:288 and fit.go:69 speak of "narrowest first" and "the narrowest level
  with a group that fits". The instance has such topologies; the property leaves out
  that pair, of a shared level and what a later topology declares below it, and
  holds of all others. A running job counts its own pods as taken
  when it is asked about with `--for`.
* `GapIsSaid` lets four failures go that the code takes for a no (`Presumed`): of
  the OpenShift endpoint, of the discovery of the DRA version, of the slices at that
  version, and of the nvidia-smi probe other than a refusal and a deadline. Each is
  heard in the model; what is promised is that there are no others.
* `RefusedExecIsReported` lets exit 0 stand when a usage command was refused or
  failed, as the code does: it is then written into a file that is recorded, which
  the property asks for. The refusal is not among `execDenied`.
* `EveryPodSettled` lets one thing hold a gather for ever: a pod that stops answering
  in its copy (`HungInCopy`). Whatever else a pod does or does not do, every pod
  behind it gets its turn.
* `OneOfEachClient` is about what the factory hands out. It does not make one rate
  limit of it: `rest.Config.RateLimiter` is never set, so the clientset and the
  dynamic client have a bucket each, and a gather makes more clients of the
  configuration by itself (k8sUtils.go:38, 55, 80).

Four more runs are expected to be violated. Each states what a comment or the
documentation says and shows the code doing something else:

* `mcp_namespace`: a `--namespace` one call set is read by the next call, or by
  one beside it. The `ConfigFlags` are shared and every tree's flag is bound to
  the same string.
* `topology_unreachable`: with the ResourceSlices and the pods refused the report
  lists only the first, since `errors.As` stops there. debug.go:302 does the same;
  the health engine walks all of them.
* `bundle_operands`: the DRA driver's pods run outside the operator's namespace
  and ask for no GPU, so no file has them, and the pods still read back as whole.
  NV-CD-001 loses the IMEX daemons it sees over a live cluster.
* `debug_unindexed`: a gather that cannot index its bundle returns no error, debug
  takes the missing manifest for a gather that reported its own failure, and
  exits 0 on "a bundle nobody can check".

Smaller disagreements met on the way and not kept as runs: a redaction that fails
returns before the manifest is written (manifest.go:121-123: "the manifest is
still written"); copyFromPod takes no context (cp.go:57), so the exec timeout does
not end a copy whose pod stopped answering, and the gather hangs in it
(mustgather.go:70-73: "bounds one exec or one copy [...] costs one file rather than
the whole bundle", and 111-114); a refused read of
the older ResourceSlice version is written as an empty list (resourceslices.go:119,
against 91-92), and a discovery that failed is recorded as "not served"
(resourceslices.go:67, against 58-60); an OpenShift endpoint that was refused or
failed is "not OpenShift" (k8sUtils.go:46), and an nvidia-smi probe that failed is
"no nvidia-smi" (driverpods.go:302-303), though 299-301 say of the deadline why
that would mislead; a gather whose usage commands were all refused exits 0 with the
refusals in the file (driverpods.go:359-363); every client made from the factory has
a bucket of its own, where factory.go:202-203 says that they throttle "against one
bucket rather than one each"; several ClusterPolicies are written as a
List and read back as one object without a state (collector.go
`writeCustomResources`, bundle.go:499-516); a bundle without gpu_pods.yaml whose
operand list cannot be read names only the second (bundle.go:385); `health` reads
a bundle with the present time (health.go:186), so the windows of NV-DRV-001 and
NV-UPG-001 are over in any bundle that is old; nv_dra_001.go:39 speaks of a
warning where the severity is info; report.go:31 says Kueue's levels are taken "in
the order it declares them" and group.go walks them backwards; a gather whose
--node does not exist writes its logs and a manifest, of which debug.go:150 says it
"never started"; the comment on
`collect` says a failed collector stops the gather (mustgather.go:737-740); a
panic leaves a collector with an empty Status and none for those behind it
(manifest.go:64-65 and 94), which is what `EveryCollectorAnswered` says of a panic; a bug report
whose archive was empty is listed and does not exist (driverpods.go:183); the
operator pod is not always among `operandPods` (collector.go:102-105); a tool
call that exits 2 or 4 does not report its directory (tools.go:93-96); a panic
in a writer that does not defer its discard, or a removal that fails, leaves a
`.part` file that the manifest indexes (mustgather.go:867-869: "A reader of a
bundle never sees one"); with `--node` the rules see every node and the filter
is on their findings, where `engine.Options` says they "see that node alone"
(engine.go:43-44); `health` names a refused ResourceSlice or pod read twice,
since `buildInput` reads both again after `joinPartials` named each once
(build.go:170-178 says why once matters); and `health` in a table that exits 1
says nothing of the reads that were refused.

## Fairness

`Collectors` has none, and nothing is said of when a gather ends: the typed lists
carry no deadline, so nothing the code does makes a request return.
`PodCopy` has weak fairness of the gatherer and its timer, and of each pod that
is not silent: the constants say which pods may stop answering, one in its script
and another in its copy. `McpServer` has weak
fairness of each call's steps: the SDK gives each request a goroutine. The
safety properties need none of it.

## Proofs

Each proof module extends the module it is about. The assumptions it rests on are
the ASSUMEs of that module, which TLC evaluates on the instances; otherwise the
theorems are for every value of the constants, the bounds included. Each invariant
`IInv` held in TLC on the module's instance before it was proved; the properties
by themselves are not inductive.

**GatherRunProofs**: for every `N`, every set of files and any choice of
markers, copies, guarded and stuck files (`NAssumption`, `FilesAssumption`):

* `TypeCorrect`: `Spec => []TypeOK`;
* `CompleteIsComplete`, `PartialHasEvidence`: what exit codes 0 and 3 mean;
* `ManifestIsTrue`, `ManifestIsFinished`, `ManifestAccounts`, `ManifestAnswers`:
  what a manifest on disk means for the files, the artifacts and the collectors,
  after a panic those that came before it;
* `NothingLeaks`: what `--redact` leaves.

The exit code is decided after the last collector returned, and the manifest after
that, so each property depends on facts that have to be carried along: `PhaseInv`
(what is known at each point of `Run`), `AnswerInv` (collectors before `at` have
answered, and the outcome agrees with the answers), `CleanInv` (between collectors
nothing is unfinished), `RecordInv` (what is recorded is on disk or dropped),
`LogInv` (the log outlives everything but a redaction), `RedactInv` (past the
redaction nothing is raw) and `ManifestInv` (a manifest is the index of what is on
disk). There is one lemma per conjunct, by cases on the actions; `Invariance` puts
them together and each theorem follows from `IInv`.

**CollectorsProofs**: for every set of scenarios, pods and faults. What is assumed
of a scenario (`ScenariosAssumption`) is that its registry names no collector twice
and has one of `Unconditional`, the collectors that cannot return without either a
file or an error; the program's registry has `nodes`. `PodsAssumption` says that
every pod has a node and that there are finitely many.

* `CollectorsGather`: Collectors implements GatherRun (`GatherRunSpec`), and so
  `CollectorsAreSound`: the theorems about exit codes, manifest and redaction hold
  of a gather of these collectors;
* `GapsAreSaid`, `ListIsShared`, `RefusalIsReported`, `CompleteIsEvidence` and
  `CollectorsTypeCorrect`: the five invariants of `collectors`.

The hard part of the refinement is that GatherRun writes only names that are free
while nothing in a collector checks that. The argument is `FilesInv`: a file that
is touched is `Claimed` by a collector that has run; the files of a plan bear its
collector's name and differ from each other (`PlanInv`); and for the collectors
that exec, whose names depend on the node and sometimes on the pod, the ledger
`taken` has every name used and the longer name of a pod still to come is free
(`LedgerInv`). `TalkInv` follows a refusal from where it was met to where it is
said, `NotedInv` says that a usage file with a refusal in it is being written, is
recorded, or was lost to an error that the gather will report (`Excused`), `ListInv` ties what is recorded of a pod to the list that was prepared, and
`EvidenceInv` says that an unconditional collector has left a file or an error, or
is about to. The reads are proved first to have one of three effects, `Planned`,
`Returned` or `Waiting` (`ReadStep`), and each of those to keep the invariant.

**ReadRunProofs**: all six properties of `read_run`, for every cluster, any
rules with any severities and version ranges, any `--fail-on` and every bound
(`NodesAssumption`, `RulesAssumption`, `FailOnAssumption`, `BoundsAssumption`):
`ReadTypeCorrect`, `CleanIsSeen`, `FailureIsNotPartial`, `MissedIsNamed`,
`UsageIsKnown` and `SlicesAreOneList`. Each property speaks of the end of a run and
of requests made long before it, so the invariant has to carry the correspondence
from step to step: `GapInv` says that every refused read is among the collected
errors by its name and every failed one as `Hard`, and that no name is there
without a refusal; `SliceInv` that the slices are read once and that everything
derived from them is derived from the memo; `PhaseInv` which command is where and
what is not there yet; `EndInv` what a run that ended has said. `Collected` and
`Settled` are the lemmas about one request and about one exit, and `Step` has one
case per action.

**McpServerProofs**: for any set of calls and of tools (`ToolsAssumption`,
`NamespacesAssumption`): `McpTypeCorrect`, `NobodyExecs`, `ClientsAreShared`
and `QuietIsKept`. The calls share the namespace string, which is stored and read
in two words, and the factory. `LineInv` follows `--no-exec` from the command line
to the command, `FactoryInv` says what the factory and what the calls were handed by it can
be, and `QuietInv` what is in the shared string, in the default each tree took from
it and in what each command made of it as long as no call names a namespace.

**PodCopyProofs**: for any number of pods and reports of any size
(`PodCopyAssumption`): `PodCopyTypeCorrect` and `CollectedIsWhole`. At every moment
of a copy what was written to the file, the block in the pipe and what tar has still
to send are together the archive (`StreamInv`), so a copy that ended well is whole
wherever the deadline fell.

**DebugProofs**: `DebugGathers` (a debug does to the bundle what GatherRun does
and nothing else), hence `DebugGatherIsSound`, and `DebugCleanIsSeen`: exit 0 means
the node was read without a gap and its gather is complete. It does not say that
there is a manifest, which is what `debug_unindexed` is about.

**TopologyProofs**: `ExitIsTold` for every cluster, every job and every order of
answers (`NodesAssumption`). A refusal is among the errors of the inventory until
`inventory.Build` joins them, which drops repetitions but never the last
(`JoinNames`), and among those of the run from then on (`RefusalInv`).

**HealthProofs**, about the rules over a live cluster and over a bundle of it
(`ClusterAssumption`, `WindowsAssumption`).

* `LessIsNotWorse`: for every cluster and every set of refused reads the alarms are
  among those of a run that read everything, but for the three that
  `LessReadIsNotWorse` names. A refused read takes operands from a node, tolerations
  and switches from the policy, events from the upgrade and the slice from the mode.
  `Less` is the order that makes of nodes and `Lesser` of inputs (`InputIsLess`), and
  there is a lemma per group of rules that they are monotone in it. Of the cluster it
  needs only that its nodes stay the same; that the alarms are right is not claimed.
* `LostIsAlwaysSeen`, `BrokenIsAlwaysSeen` and `IntendedIsAlwaysQuiet`: for any
  number of nodes and changes, what is broken is said and what was done on purpose
  is not. None of the three is inductive: each speaks of the findings of a moment,
  which depend on everything the cluster went through before. `ClusterInv` is what
  it can have become, faults and all: a Node object keeps its fields and its
  workload, a pod is as it was made but for its statuses, the validator runs where
  GPUs are or were served until everything is paused (`RoleInv`; without it a node
  that lost its GPUs could look like one that never had any), the event that dates
  the step a node is in is the last of them to expire (`EventInv`), and one policy
  is the operator's own. `SaneInv` is what more holds of a node no fault has struck:
  its labels (`Sound`), its GPUs (`Offers`), its plugin and exporter (`Plugged`,
  `Exported`) and its pods (`Healthy`). There is a lemma per action that it keeps
  each, and a lemma per rule that a sane node is not the subject of its alarm.
* `GapsAreRead` for every cluster and every harm to the files. `FilesInv` says that a file is lost
  exactly when what stands under its name is neither the objects nor a marker that
  they are not installed; the theorem is that `Replay` names those files and no other.
* `BundleAlwaysAgrees`: a whole bundle of a cluster that did not change while it was
  gathered gives the findings of the cluster, those of the IMEX daemons and
  of upgrades whose events are not in the file apart. `SteadyInv` says that as long as nothing
  has changed each file is what the cluster still has (`Recorded`), the operator's pods
  in memory included; the proof then follows the reading of each file back to a
  live reading, and shows that the operands outside the operator's namespace, which
  are in no file, are not what a rule that differs could have asked for.
* `TornAlwaysKeeps`: an alarm that every moment had is an alarm of a whole bundle,
  with the two exceptions `TornKeepsAlarms` has, for any number of nodes and however
  the changes fall between the collectors. An alarm comes apart into what its rule
  asks of the node, of its slice, of the policy, of the events and of the pods
  (`OnNode`, `OnSlice`, `OnPolicy`, `Dated` and `Overdue`, `OnPods`), an alarm of a
  moment has all its parts then (`AlarmParts`, `MomentParts`), and files that each
  have their part give the alarm back (`KeptIsFound`). `TornInv` is what holds in
  between: each file, and the pods still in memory, has its part of every alarm that
  lasted so far. The later files are of a node that has changed since the nodes were
  read, so the invariant also needs what a node never takes back: its taints, and a
  capacity once it is gone (`Was`, `CapInv`). It needs too that the newest event of a
  step is the last to expire (`Newest`, `DateInv`), and that until time passes none
  does, which is why both exceptions are about time.

Only model-checked:

* the liveness properties (`EveryPodSettled`, `EveryCallAnswered`),
  which are out of the prover's reach;
* `FitIsExact` and `SmallestIsNarrowest`: Placement sums over nodes and levels, and
  what a fold computes for every input needs an induction the prover cannot do.

## Not modelled

The text of the redaction (which strings are identities or secrets), the tables,
printers and schemas, cobra wiring, and the derivation of tools from the command
tree are text or static structure. `--fields` and `--limit` cut what was printed
and are left out. `list` and `info` over a bundle use readers Bundle has, with the
error handling ReadRun has; the two are not composed. Redacted bundles, whose
names are renamed consistently, are not read back. `Live` under concurrent
readers is not modelled: no command reads one from two goroutines. Of the redaction
two errors are left out: NewRedactor's own, which only crypto/rand could cause and
which it does not return in the Go the module asks for (redact.go:1016-1018), and a
directory that was listed for the redaction and cannot be listed to be discarded
(redact.go:1061-1066).

## Plan

1. **ArtifactDir**: several gathers on one `--artifacts-dir`, where the emptiness
   check and the first write are two steps.
