----------------------------- MODULE Collectors -----------------------------
(***************************************************************************)
(* The collectors a gather runs (pkg/mustgather: collector.go, complete.go,*)
(* resourceslices.go, logs.go, driverpods.go), over the run of GatherRun.  *)
(*                                                                         *)
(* Each collector reads the cluster, one request a step, and turns the     *)
(* answer into work: files to write, a marker, pods to exec into.  The     *)
(* cluster changes between two requests, answers each request in any of    *)
(* the ways the code distinguishes, and a local write can fail.  The file  *)
(* operations are the code's own, with no check that a name is free: that  *)
(* no two collectors and no two pods share one is part of what is checked, *)
(* as GR!Spec.  A panic and a kill are the same in every collector and are *)
(* left to GatherRun.                                                      *)
(***************************************************************************)
EXTENDS Integers, Sequences, FiniteSets, SequencesExt

CONSTANTS
  Scenarios,     \* what a gather is checked with: its collectors, in the order it
                 \* runs them, the flags, the pods, and how often these change
  N,             \* how many collectors a scenario has
  Pods,          \* the pods the operator namespace can hold
  OperatorPods,  \* those labelled app=gpu-operator
  DriverPods,    \* those carrying a driver label
  NodeOf,        \* the node each pod runs on
  WantedNode,    \* what --node names, when it is given
  MaxFaults      \* bound: how many local writes, tables and descriptions fail

\* The collectors whose first file is written or the gather fails: "nodes", which
\* every registry of the program holds, is one.
Unconditional == {"nodes", "gpu-pods", "node-events", "operand-pods", "daemonsets"}

ASSUME ScenariosAssumption ==
  /\ N \in Nat
  /\ \A s \in Scenarios :
       /\ DOMAIN s.registry = 1 .. N
       /\ \A i, j \in 1 .. N : s.registry[i] = s.registry[j] => i = j
       /\ \E i \in 1 .. N : s.registry[i] \in Unconditional
       /\ s.pods \subseteq Pods
       /\ s.churn \in Nat
ASSUME PodsAssumption ==
  /\ IsFiniteSet(Pods)
  /\ OperatorPods \subseteq Pods
  /\ DriverPods \subseteq Pods
  /\ Pods \subseteq DOMAIN NodeOf
ASSUME FaultsAssumption == MaxFaults \in Nat

VARIABLES
  opts, pc, at, status, arts, collected, denied,
  disk, part, dropped, outcome, manifest, code,  \* GatherRun's
  scenario,  \* the one this gather is
  live,    \* the pods the operator namespace holds now
  noExec,  \* --no-exec
  gs,      \* gatherState, which one collector fills for the ones after it
  ph,      \* the step inside the collector
  work,    \* the files the collector has still to write, and how it fares
  heard,   \* history: the refusals and failures each collector was answered with,
           \* as <<what it asked for, the gap>>
  noted,   \* history: the usage files in which a command was refused or failed
  said,    \* history: what the bundle says in answer, per collector
  listed,  \* history: the pods gpu_operand_pods.yaml holds
  churn, faults  \* how much of the two bounds is used

Registry == scenario.registry

bundle == <<disk, part>>
run == <<scenario, opts, pc, dropped, outcome, manifest, code>>
inner == <<ph, work>>
history == <<heard, noted, said, listed>>
bounds == <<churn, faults>>
vars == <<run, at, status, arts, collected, denied, bundle, live, noExec, gs,
          inner, history, bounds>>

Optional == {"gpu-cluster", "hyperconverged", "kubevirt"}
Marked == {"cluster-policy", "nvidia-drivers", "compute-domains"}
Listed == {"nodes", "gpu-pods", "node-events"}
Namespaced == {"operator-pod", "operand-pods", "pod-logs", "pod-descriptions",
               "daemonsets", "bug-report", "device-usage"}
Execs == {"bug-report", "device-usage"}

\* The files, by collector and by what tells them apart within one.
ReportFiles ==
  {<<"bug-report", NodeOf[p]>> : p \in DriverPods}
    \cup {<<"bug-report", NodeOf[p], p>> : p \in DriverPods}
UsageFiles ==
  {<<"device-usage", NodeOf[p]>> : p \in DriverPods}
    \cup {<<"device-usage", NodeOf[p], p>> : p \in DriverPods}
LogFiles == {<<k, p>> : k \in {"log", "previous"}, p \in Pods}
MarkerFiles == {<<c, "missing">> : c \in Marked}
AllFiles ==
  {<<c, "yaml">> : c \in UNION {Range(s.registry) : s \in Scenarios}}
    \cup {<<"gpu-nodes", k>> : k \in {"labels", "status", "descr"}}
    \cup {<<"operand-pods", k>> : k \in {"status", "images"}}
    \cup {<<"daemonsets", k>> : k \in {"status", "descr"}}
    \cup {<<"operator-pod", "status">>}
    \cup MarkerFiles \cup LogFiles \cup {<<"descr", p>> : p \in Pods}
    \cup ReportFiles \cup UsageFiles

GR == INSTANCE GatherRun WITH
  N <- N, Files <- AllFiles,
  LogFile <- <<"must-gather.log">>, ErrLogFile <- <<"must-gather.stderr.log">>,
  Markers <- MarkerFiles, Copied <- ReportFiles, Guarded <- LogFiles \cup UsageFiles,
  Stuck <- {}

Gaps == {"forbidden", "failed"}
Questions == {"list", "exec", "openshift", "discovery", "served slices", "nvidia-smi"}
Answers == {"items", "empty", "absent"} \cup Gaps
NoWork == [plan |-> <<>>, errs |-> FALSE, got |-> FALSE, deny |-> FALSE, taken |-> {}]

Init ==
  /\ GR!Init
  /\ scenario \in Scenarios
  /\ opts \in scenario.flags
  /\ live \in SUBSET scenario.pods
  /\ noExec \in BOOLEAN
  /\ noExec => Range(Registry) \cap Execs # {}
  /\ gs = [ns |-> FALSE, prepared |-> FALSE, operand |-> {}, operator |-> {},
           drivers |-> {}, found |-> FALSE]
  /\ ph = "read"
  /\ work = NoWork
  /\ heard = [c \in DOMAIN Registry |-> {}]
  /\ noted = {}
  /\ said = [c \in DOMAIN Registry |-> "nothing"]
  /\ listed = {}
  /\ churn = 0
  /\ faults = 0

Running(c) == GR!InCollector /\ Registry[at] = c
Reading(c) == Running(c) /\ ph = "read"
Working == GR!InCollector /\ ph = "work"

\* What the answer a to a question leaves unknown.
Gap(question, a) == {question} \X ({a} \cap Gaps)

Hear(gaps) == heard' = [heard EXCEPT ![at] = @ \cup gaps]
Say(s) == said' = [said EXCEPT ![at] = s]

\* The collector has its answer and this is what it has to write.
Work(plan, s) ==
  /\ ph' = "work"
  /\ work' = [NoWork EXCEPT !.plan = plan]
  /\ Say(s)
  /\ UNCHANGED <<status, at, denied>>

\* The collector returns: ok, errSkipped or any other error.
Return(st, deny) ==
  /\ GR!End(st, deny)
  /\ ph' = "read"
  /\ work' = NoWork

Skip(s) == Return("skipped", FALSE) /\ Say(s)
Fail == Return("error", FALSE) /\ UNCHANGED said

Job(how, file, pod) == [how |-> how, file |-> file, pod |-> pod]
Write(file) == Job("file", file, file)

\* A read leaves the bundle and everything not about the answer alone.
Read == UNCHANGED <<run, arts, collected, bundle, live, noExec, noted, listed, bounds>>

-----------------------------------------------------------------------------
(* The cluster-scoped collectors. *)

\* isOpenShiftCluster takes whatever its endpoint failed with for a cluster that
\* is not OpenShift.
gatherOpenShiftVersion ==
  /\ Reading("openshift-version")
  /\ \E a \in {"items", "absent"} \cup Gaps :
       /\ Hear(Gap("openshift", a))
       /\ IF a = "items"
            THEN Work(<<Write(<<"openshift-version", "yaml">>)>>, "objects")
            ELSE Skip("absent")
  /\ UNCHANGED gs
  /\ Read

\* Mutant of gatherList: a read that was refused is a skip.
listSkipsRefused(c) ==
  /\ Reading(c)
  /\ \E a \in Answers :
       /\ Hear(Gap("list", a))
       /\ CASE a \in {"items", "empty"} -> Work(<<Write(<<c, "yaml">>)>>, "objects")
            [] a = "forbidden" -> Skip("refused")
            [] OTHER -> Fail
  /\ UNCHANGED gs
  /\ Read

\* gatherNodeInfo (the nodes, or the machines of a cluster it first asks whether it
\* is OpenShift), gatherGPUPods and gatherNodeEvents: an empty answer is written,
\* and any other failure fails.
gatherList(c) ==
  /\ Reading(c)
  /\ \E a \in Answers, o \in IF c = "nodes" THEN {"absent"} \cup Gaps ELSE {"absent"} :
       /\ Hear(Gap("list", a) \cup Gap("openshift", o))
       /\ IF a \in {"items", "empty"}
            THEN Work(<<Write(<<c, "yaml">>)>>, "objects")
            ELSE Fail
  /\ UNCHANGED gs
  /\ Read

answerOptional(c, a) ==
  CASE a = "items" -> Work(<<Write(<<c, "yaml">>)>>, "objects")
    [] a \in {"empty", "absent"} -> Skip("absent")
    [] a = "forbidden" -> Skip("refused")
    [] OTHER -> Fail

gatherOptionalCustomResource(c) ==
  /\ Reading(c)
  /\ \E a \in Answers : Hear(Gap("list", a)) /\ answerOptional(c, a)
  /\ UNCHANGED gs
  /\ Read

\* Mutant of gatherOrMark: a refused read is marked as not installed.
markRefusedAbsent(c) ==
  /\ Reading(c)
  /\ \E a \in Answers :
       /\ Hear(Gap("list", a))
       /\ IF a = "items"
            THEN Work(<<Write(<<c, "yaml">>)>>, "objects")
            ELSE Work(<<Job("marker", <<c, "missing">>, c)>>, "absent")
  /\ UNCHANGED gs
  /\ Read

\* The marker carries the reason the bundle has none.
gatherOrMark(c) ==
  /\ Reading(c)
  /\ \E a \in Answers :
       /\ Hear(Gap("list", a))
       /\ LET mark(s) == Work(<<Job("marker", <<c, "missing">>, c)>>, s) IN
          CASE a = "items" -> Work(<<Write(<<c, "yaml">>)>>, "objects")
            [] a \in {"empty", "absent"} -> mark("absent")
            [] a = "forbidden" -> mark("refused")
            [] OTHER -> mark("failed")
  /\ UNCHANGED gs
  /\ Read

\* draVersion takes a discovery that failed for a version that is not served.
gatherDeviceClasses ==
  /\ Reading("device-classes")
  /\ \/ \E d \in {"absent"} \cup Gaps : Hear(Gap("discovery", d)) /\ Skip("absent")
     \/ \E a \in Answers : Hear(Gap("list", a)) /\ answerOptional("device-classes", a)
  /\ UNCHANGED gs
  /\ Read

\* The typed client speaks v1; a cluster that does not serve it is asked again.
gatherResourceSlices ==
  /\ Reading("resource-slices")
  /\ \E a \in Answers :
       /\ Hear(Gap("list", a))
       /\ CASE a \in {"items", "empty"} ->
                 Work(<<Write(<<"resource-slices", "yaml">>)>>, "objects")
            [] a = "absent" ->
                 ph' = "beta" /\ UNCHANGED <<work, said, status, at, denied>>
            [] a = "forbidden" -> Skip("refused")
            [] OTHER -> Fail
  /\ UNCHANGED gs
  /\ Read

\* Whatever the second read failed with, the empty list is written.
resourceSlicesAtServedVersion ==
  /\ Running("resource-slices")
  /\ ph = "beta"
  /\ \E a \in Answers :
       /\ Hear(Gap("served slices", a))
       /\ Work(<<Write(<<"resource-slices", "yaml">>)>>,
               IF a \in {"items", "empty"} THEN "objects" ELSE "absent")
  /\ UNCHANGED gs
  /\ Read

gatherGPUNodes ==
  /\ Reading("gpu-nodes")
  /\ \E a \in Answers :
       /\ Hear(Gap("list", a))
       /\ CASE a = "items" ->
                 Work([i \in 1 .. 4 |->
                        Write(<<"gpu-nodes", <<"yaml", "labels", "status", "descr">>[i]>>)],
                      "objects")
            [] a = "empty" -> Skip("absent")
            [] OTHER -> Fail
  /\ UNCHANGED gs
  /\ Read

-----------------------------------------------------------------------------
(* prepareState and prepareDriverPods: what the namespaced collectors share. *)

podsOnNode(pods) ==
  {p \in pods : opts.node => NodeOf[p] = WantedNode}

Preparing == GR!InCollector /\ Registry[at] \in Namespaced /\ ~gs.prepared

\* The pods or the daemonsets could not be listed, for whatever reason.
listFails == Fail /\ Hear(Gap("list", "failed")) /\ UNCHANGED gs

gatherOperatorNamespace ==
  /\ Preparing
  /\ ph = "read"
  /\ ~gs.ns
  /\ \/ /\ live \cap OperatorPods # {}
        /\ gs' = [gs EXCEPT !.ns = TRUE]
        /\ UNCHANGED <<status, at, denied, inner, said, heard>>
     \/ live \cap OperatorPods = {} /\ Fail /\ UNCHANGED <<gs, heard>>
     \/ listFails
  /\ Read

listOperandPods ==
  /\ Preparing
  /\ ph = "read"
  /\ gs.ns
  /\ \/ /\ gs' = [gs EXCEPT !.operand = podsOnNode(live)]
        /\ ph' = "operator"
        /\ UNCHANGED <<status, at, denied, work, said, heard>>
     \/ listFails
  /\ Read

\* Mutant of listOperatorPod: the first item of an empty list is kept.
listOperatorUnchecked ==
  /\ Preparing
  /\ ph = "operator"
  /\ \E op \in {{p} : p \in live \cap OperatorPods} \cup {{"nil"}} :
       gs' = [gs EXCEPT !.operator = op, !.prepared = TRUE]
  /\ ph' = "read"
  /\ UNCHANGED <<status, at, denied, work, said, heard>>
  /\ Read

\* The first of the pods carrying the operator's label, whatever --node says.
listOperatorPod ==
  /\ Preparing
  /\ ph = "operator"
  /\ \/ /\ \E op \in {{p} : p \in live \cap OperatorPods}
                       \cup (IF live \cap OperatorPods = {} THEN {{}} ELSE {}) :
             gs' = [gs EXCEPT !.operator = op, !.prepared = TRUE]
        /\ ph' = "read"
        /\ UNCHANGED <<status, at, denied, work, said, heard>>
     \/ listFails
  /\ Read

findDriverPods ==
  /\ GR!InCollector
  /\ Registry[at] \in Execs
  /\ gs.prepared
  /\ ph = "read"
  /\ ~gs.found
  /\ \/ /\ gs' = [gs EXCEPT !.drivers = podsOnNode(live \cap DriverPods), !.found = TRUE]
        /\ UNCHANGED <<status, at, denied, inner, said, heard>>
     \/ listFails
  /\ Read

-----------------------------------------------------------------------------
(* The namespaced collectors. *)

Ready(c) == Reading(c) /\ gs.prepared

\* This collector and the next end with a table that writePodStatus lists anew:
\* which pods it shows is left out, that it can fail is in discardFile.
gatherOperatorPod ==
  /\ Ready("operator-pod")
  /\ IF gs.operator = {}
       THEN Fail
       ELSE Work(<<Write(<<"operator-pod", "yaml">>), Write(<<"operator-pod", "status">>)>>,
                 "objects")
  /\ UNCHANGED <<gs, heard>>
  /\ Read

gatherOperandPods ==
  /\ Ready("operand-pods")
  /\ Work([i \in 1 .. 3 |-> Write(<<"operand-pods", <<"yaml", "status", "images">>[i]>>)],
          "objects")
  /\ UNCHANGED <<gs, heard>>
  /\ Read

\* A pod's log and then its previous log, pod by pod.
collectPodLogs(pods) ==
  [i \in 1 .. 2 * Cardinality(pods) |->
     LET p == SetToSeq(pods)[(i + 1) \div 2]
     IN Job("log", <<IF i % 2 = 1 THEN "log" ELSE "previous", p>>, p)]

\* The operator pod first, then the operand pods it is not among.
gatherPodLogs ==
  /\ Ready("pod-logs")
  /\ Work(collectPodLogs(gs.operator) \o collectPodLogs(gs.operand \ gs.operator), "objects")
  /\ UNCHANGED <<gs, heard>>
  /\ Read

\* Mutant of gatherPodDescriptions: it lists the pods for itself.
describeFreshList ==
  /\ Ready("pod-descriptions")
  /\ Work(SetToSeq({Job("descr", <<"descr", p>>, p) : p \in podsOnNode(live)}), "objects")
  /\ UNCHANGED <<gs, heard>>
  /\ Read

gatherPodDescriptions ==
  /\ Ready("pod-descriptions")
  /\ Work(SetToSeq({Job("descr", <<"descr", p>>, p) : p \in gs.operand}), "objects")
  /\ UNCHANGED <<gs, heard>>
  /\ Read

gatherDaemonSets ==
  /\ Ready("daemonsets")
  /\ \/ /\ Work(<<Write(<<"daemonsets", "yaml">>), Write(<<"daemonsets", "status">>),
                  Job("descr", <<"daemonsets", "descr">>, "daemonset")>>, "objects")
        /\ UNCHANGED <<gs, heard>>
     \/ listFails
  /\ Read

\* gatherBugReportFromDaemonSet and gatherDeviceUsage, up to their loop.
gatherFromDrivers(c) ==
  /\ Ready(c)
  /\ gs.found
  /\ CASE noExec -> Skip("flag")
       [] ~noExec /\ gs.drivers = {} -> Skip("absent")
       [] OTHER -> Work(SetToSeq({Job(c, <<c>>, p) : p \in gs.drivers}), "objects")
  /\ UNCHANGED <<gs, heard>>
  /\ Read

-----------------------------------------------------------------------------
(* The work: one job of the plan at a time. *)

job == Head(work.plan)
Doing(hows) == Working /\ work.plan # <<>> /\ job.how \in hows

\* The job is done, well or not: an artifact written with writeArtifactFile ends
\* the collector when it fails, the others are collected on their own.
JobDone(got) ==
  work' = [work EXCEPT !.plan = Tail(@), !.got = @ \/ got]
JobFails ==
  work' = [work EXCEPT !.plan = IF job.how \in {"file", "marker"} THEN <<>> ELSE Tail(@),
                       !.errs = TRUE]

Local == UNCHANGED <<run, at, status, denied, live, noExec, gs, said, noted, churn>>
Fault == faults < MaxFaults /\ faults' = faults + 1

createArtifact(f) == part' = [part EXCEPT ![f] = "raw"] /\ UNCHANGED disk

commit(f) ==
  /\ part' = [part EXCEPT ![f] = "absent"]
  /\ disk' = [disk EXCEPT ![f] = "raw"]
  /\ GR!recordArtifact(f)

discard(f) == part' = [part EXCEPT ![f] = "absent"] /\ UNCHANGED <<disk, arts, collected>>

\* What is written under a ".part" name: writeArtifactFile, collectContainerLogs
\* and writeDeviceUsage.
Streamed == {"file", "log", "descr", "usage"}

startFile ==
  /\ Doing(Streamed)
  /\ \/ createArtifact(job.file) /\ ph' = "made" /\ UNCHANGED <<work, faults>>
     \/ Fault /\ JobFails /\ UNCHANGED <<ph, bundle>>
  /\ UNCHANGED <<arts, collected, heard, listed>>
  /\ Local

\* writeDeviceUsage: a command that is refused or fails is written into the file.
usageCommandFails ==
  /\ GR!InCollector
  /\ ph = "made"
  /\ job.how = "usage"
  /\ noted' = noted \cup {job.file}
  /\ UNCHANGED <<run, at, status, arts, collected, denied, bundle, live, noExec, gs, inner,
                 heard, said, listed, bounds>>

\* A log the API server will not serve is committed holding the reason.
commitFile ==
  /\ GR!InCollector
  /\ ph = "made"
  /\ job.how \in Streamed
  /\ commit(job.file)
  /\ listed' = IF job.file = <<"operand-pods", "yaml">> THEN gs.operand ELSE listed
  /\ JobDone(TRUE)
  /\ ph' = "work"
  /\ UNCHANGED <<heard, faults>>
  /\ Local

discardFile ==
  /\ GR!InCollector
  /\ ph = "made"
  /\ job.how \in Streamed
  /\ discard(job.file)
  /\ Fault
  /\ JobFails
  /\ ph' = "work"
  /\ UNCHANGED <<heard, listed>>
  /\ Local

\* A pod or a daemonset that went away before it could be described.
describeNotFound ==
  /\ GR!InCollector
  /\ ph = "made"
  /\ job.how = "descr"
  /\ discard(job.file)
  /\ JobDone(FALSE)
  /\ ph' = "work"
  /\ UNCHANGED <<heard, listed, faults>>
  /\ Local

writeMarker ==
  /\ Doing({"marker"})
  /\ disk' = [disk EXCEPT ![job.file] = "raw"]
  /\ GR!indexArtifact(job.file)
  /\ JobDone(FALSE)
  /\ UNCHANGED <<part, collected, ph, heard, listed, faults>>
  /\ Local

markerFails ==
  /\ Doing({"marker"})
  /\ Fault
  /\ \E left \in {"absent", "torn"} : disk' = [disk EXCEPT ![job.file] = left]
  /\ Return("error", FALSE)
  /\ UNCHANGED <<run, part, arts, collected, live, noExec, gs, history, churn>>

-----------------------------------------------------------------------------
(* The driver pods: an exec, then a copy or a file of command output. *)

\* Mutant of destName: a node's second driver pod overwrites the first's file.
destNameNode(c, p) == <<c, NodeOf[p]>>

\* The ledger of names: the second pod of a node gets its own name as well.
destName(c, p) ==
  IF <<c, NodeOf[p]>> \in work.taken THEN <<c, NodeOf[p], p>> ELSE <<c, NodeOf[p]>>

notCollectable ==
  /\ Doing(Execs)
  /\ JobDone(FALSE)
  /\ UNCHANGED <<ph, bundle, arts, collected, heard, listed, faults>>
  /\ Local

\* The exec is refused, or fails, or runs out of time.
ExecFails(names) ==
  \E refused \in BOOLEAN :
    /\ work' = [work EXCEPT !.plan = Tail(@), !.errs = TRUE, !.deny = @ \/ refused,
                            !.taken = @ \cup names]
    /\ Hear(Gap("exec", IF refused THEN "forbidden" ELSE "failed"))

\* fetchBugReport: the exec fails and what it left is taken back, or the script
\* ran and the copy starts, or the archive that came back held no file.
execBugReport ==
  /\ Doing({"bug-report"})
  /\ LET f == destName("bug-report", job.pod) IN
     \/ /\ ExecFails({f})
        /\ disk' = [disk EXCEPT ![f] = "absent"]
        /\ UNCHANGED <<part, arts, collected>>
     \/ /\ disk' = [disk EXCEPT ![f] = "torn"]
        /\ work' = [work EXCEPT !.plan = <<Job("copying", f, job.pod)>> \o Tail(@),
                                !.taken = @ \cup {f}]
        /\ UNCHANGED <<part, arts, collected, heard>>
     \/ /\ work' = [work EXCEPT !.plan = Tail(@), !.got = TRUE, !.taken = @ \cup {f}]
        /\ GR!recordArtifact(f)
        /\ UNCHANGED <<bundle, heard>>
  /\ UNCHANGED <<ph, listed, faults>>
  /\ Local

copyBugReport ==
  /\ Doing({"copying"})
  /\ \/ /\ disk' = [disk EXCEPT ![job.file] = "raw"]
        /\ GR!recordArtifact(job.file)
        /\ JobDone(TRUE)
        /\ UNCHANGED heard
     \/ /\ disk' = [disk EXCEPT ![job.file] = "absent"]
        /\ ExecFails({})
        /\ UNCHANGED <<arts, collected>>
  /\ UNCHANGED <<ph, part, listed, faults>>
  /\ Local

\* The nvidia-smi probe: refused or out of time, not there, or there.  Whatever
\* else it fails with is taken for a container without nvidia-smi.
probeDeviceUsage ==
  /\ Doing({"device-usage"})
  /\ \/ ExecFails({})
     \/ JobDone(FALSE) /\ \E a \in {"absent", "failed"} : Hear(Gap("nvidia-smi", a))
     \/ UNCHANGED heard /\ LET f == destName("device-usage", job.pod) IN
        work' = [work EXCEPT !.plan = <<Job("usage", f, job.pod)>> \o Tail(@),
                             !.taken = @ \cup {f}]
  /\ UNCHANGED <<ph, bundle, arts, collected, listed, faults>>
  /\ Local

\* Mutant of finish: a refused exec is a skip like any other.
finishForgetsDenied ==
  /\ Working
  /\ work.plan = <<>>
  /\ CASE work.deny -> Skip("refused")
       [] ~work.deny /\ work.errs -> Fail
       [] OTHER -> Return("ok", FALSE) /\ UNCHANGED said
  /\ UNCHANGED <<run, arts, collected, bundle, live, noExec, gs, heard, noted, listed, bounds>>

\* The collector returns what its jobs came to.
finish ==
  /\ Working
  /\ work.plan = <<>>
  /\ CASE work.deny -> Return("skipped", TRUE) /\ Say("refused")
       [] ~work.deny /\ work.errs -> Fail
       [] ~work.deny /\ ~work.errs /\ Registry[at] \in Execs /\ ~work.got -> Skip("absent")
       [] OTHER -> Return("ok", FALSE) /\ UNCHANGED said
  /\ UNCHANGED <<run, arts, collected, bundle, live, noExec, gs, heard, noted, listed, bounds>>

-----------------------------------------------------------------------------
\* The cluster: a pod of the operator namespace comes or goes.
Churn ==
  /\ churn < scenario.churn
  /\ pc = "collect"
  /\ \E p \in scenario.pods : live' = (live \ {p}) \cup ({p} \ live)
  /\ churn' = churn + 1
  /\ UNCHANGED <<run, at, status, arts, collected, denied, bundle, noExec, gs, inner,
                 history, faults>>

\* Everything of the run that is not a collector.
Outer ==
  /\ GR!Setup \/ GR!Begin \/ GR!collect \/ GR!Sealing
  /\ UNCHANGED <<scenario, live, noExec, gs, inner, history, bounds>>

ClusterScoped ==
  \/ gatherOpenShiftVersion
  \/ \E c \in Listed : gatherList(c)
  \/ \E c \in Optional : gatherOptionalCustomResource(c)
  \/ \E c \in Marked : gatherOrMark(c)
  \/ gatherDeviceClasses
  \/ gatherResourceSlices
  \/ resourceSlicesAtServedVersion
  \/ gatherGPUNodes

NamespaceScoped ==
  \/ gatherOperatorNamespace \/ listOperandPods \/ listOperatorPod \/ findDriverPods
  \/ gatherOperatorPod \/ gatherOperandPods \/ gatherPodLogs
  \/ gatherPodDescriptions \/ gatherDaemonSets
  \/ \E c \in Execs : gatherFromDrivers(c)

Jobs ==
  \/ startFile \/ usageCommandFails \/ commitFile \/ discardFile \/ describeNotFound
  \/ writeMarker \/ markerFails
  \/ notCollectable \/ execBugReport \/ copyBugReport
  \/ probeDeviceUsage
  \/ finish

Step == Outer \/ ClusterScoped \/ NamespaceScoped \/ Jobs

Terminated == pc = "exit" /\ UNCHANGED vars

Next == Step \/ Churn \/ Terminated

\* No fairness: the typed lists run without a deadline, and nothing the code does
\* makes the API server answer one.
Spec == Init /\ [][Next]_vars

-----------------------------------------------------------------------------
(* Properties.  GR!Spec, as GatherRunSpec, says the collectors do to a bundle *)
(* only what GatherRun lets any collector do: no two write one name, none     *)
(* takes back a file another recorded, and none returns with one unfinished.  *)

\* Every step of a gather is a step of GatherRun or leaves its state alone.
GatherRunSpec == GR!Spec

\* The shape of the state that is not GatherRun's.
TypeOK ==
  /\ live \subseteq Pods
  /\ gs.operand \subseteq Pods /\ gs.operator \subseteq Pods /\ gs.drivers \subseteq Pods
  /\ ph \in {"read", "beta", "operator", "work", "made"}
  /\ heard \in [DOMAIN Registry -> SUBSET (Questions \X Gaps)]
  /\ churn \in 0 .. scenario.churn /\ faults \in 0 .. MaxFaults

Ended(c) == status[c] \in {"ok", "skipped", "error"}

\* The failures the code takes for the answer "no": whether the cluster is
\* OpenShift (isOpenShiftCluster), which version of the DRA group it serves and
\* the slices at that version (draVersion, gatherResourceSlices), and whether a
\* container has nvidia-smi (gatherDeviceUsage's default).
Presumed ==
  ({"openshift", "discovery", "served slices"} \X Gaps) \cup {<<"nvidia-smi", "failed">>}

\* A gap is not recorded as a cluster that does not have the thing, the four kinds
\* in Presumed apart: the collector failed, or its skip or its marker says why
\* (gatherOptionalCustomResource, gatherOrMark, gatherResourceSlices' first read,
\* gatherBugReportFromDaemonSet, gatherDeviceUsage).  What a log, a description or
\* a usage command failed with is in the file, or fails the collector.
GapIsSaid ==
  \A c \in DOMAIN Registry :
    (Ended(c) /\ ~(heard[c] \subseteq Presumed)) =>
      status[c] = "error" \/ said[c] \in {"refused", "failed"}

\* Exit 0 means some evidence was collected, never only skips and markers: the
\* node list is written even when it is empty, and fails the gather otherwise.
CompleteHasEvidence == code = 0 => collected

\* A gather that exits 0 was refused no exec it does not show: no bug report and no
\* probe was refused or ran out of time (gatherState.execDenied), and a usage
\* command that was refused or failed is in a file the gather recorded
\* (writeDeviceUsage).  A probe that failed in any other way is Presumed.
RefusedExecIsReported ==
  code = 0 =>
    /\ noted \subseteq GR!Recorded
    /\ \A c \in DOMAIN Registry : Registry[c] \in Execs => heard[c] \subseteq Presumed

\* The per-pod files and the pod list of one bundle come from one list: a log or
\* a description is of a pod gpu_operand_pods.yaml holds, or of the operator pod,
\* however the pods changed and whichever read had to be retried (prepareState).
\* The status tables, which are listed anew, are not among these files.
OneListPerBundle ==
  <<"operand-pods", "yaml">> \in GR!Recorded =>
    \A p \in Pods :
      {<<"log", p>>, <<"previous", p>>, <<"descr", p>>} \cap GR!Recorded # {} =>
        p \in listed \cup gs.operator

=============================================================================
