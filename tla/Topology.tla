------------------------------ MODULE Topology ------------------------------
(***************************************************************************)
(* "kubectl nv topology --for job/<name>" over a cluster that goes on      *)
(* while it is read: the nodes, the slices and the pods, the Kueue objects *)
(* in whichever version is served, the job, and the report over them.      *)
(*                                                                         *)
(* The cluster is the API server's: pods are bound and end, nodes are      *)
(* cordoned and lose devices.  What is read once, and only once, is chosen *)
(* when it is read.                                                        *)
(***************************************************************************)
EXTENDS Placement

CONSTANTS
  Nodes,       \* the names of the nodes
  Sliced,      \* those that are GPU nodes by a ResourceSlice alone
  GPUs,        \* how many GPUs each of the others has
  Pods,        \* the pods
  SpecOf,      \* the spec of each
  Jobs,        \* the jobs that --for may name
  Place,       \* the value of each label on each node that carries it
  Wearings,    \* which nodes carry which label
  Narrower,    \* pairs of labels of one fixed hierarchy, the narrower first
  Topologies,  \* the Kueue topologies, sorted by name
  Flavors,     \* the sets of them that the resource flavors may reference
  MaxChanges   \* bound: how often the cluster changes

Values == Nodes \cup {0}   \* the values of labels, and the one of the whole cluster

ASSUME NodesAssumption ==
  /\ Nodes \subseteq Nat /\ Sliced \subseteq Nodes
  /\ \A l \in DOMAIN Place : Place[l] \in [Nodes -> Values]

VARIABLES
  alloc,      \* the allocatable GPUs of each node
  closed,     \* the nodes that are cordoned or not ready
  pods,       \* each pod's spec, node and phase
  changes,    \* how often the cluster has changed
  pc,         \* where the command is
  forJob,     \* whether --for was given
  list,       \* the nodes as the inventory has them
  kueue,      \* the Kueue status, and the topologies that are referenced
  version,    \* the Kueue version that is being tried
  inventory,  \* the resources of the inventory's PartialErrors
  partial,    \* the partial errors of the run, each the resources joined in it
  job,        \* the job that was read
  report,     \* what is printed
  exit,       \* the exit code
  gaps,       \* history: the resources that were refused
  failed,     \* history: whether a request failed otherwise
  witnessed,  \* history: the cluster when the pods were listed
  moved       \* history: whether a node changed between the two lists

cluster == <<alloc, closed, pods, changes>>
history == <<gaps, failed, witnessed, moved>>
vars == <<cluster, pc, forJob, list, kueue, version, inventory, partial, job, report, exit, history>>

NoNode == 0
NoReport == [levels |-> <<>>]
NoJob == << >>
KueueVersions == <<"v1beta2", "v1beta1", "v1alpha1">>
ExitOK == 0
ExitUsage == 2
ExitPartial == 3
ExitError == 4

Init ==
  /\ alloc = [n \in Nodes |-> IF n \in Sliced THEN 0 ELSE GPUs[n]]
  /\ closed = {}
  /\ pods = [p \in Pods |-> [spec |-> SpecOf[p], node |-> NoNode, phase |-> "Pending"]]
  /\ changes = 0
  /\ pc = "start" /\ forJob = FALSE
  /\ list = << >>
  /\ kueue = [installed |-> FALSE, topologies |-> <<>>] /\ version = 1
  /\ inventory = <<>> /\ partial = <<>>
  /\ job = NoJob
  /\ report = NoReport /\ exit = -1
  /\ gaps = {} /\ failed = FALSE
  /\ witnessed = << >> /\ moved = FALSE

-----------------------------------------------------------------------------
(* The cluster. *)

\* What a pod holds of its node's GPUs is what it holds at its busiest: while its
\* i-th init container runs, or its containers; the sidecars run on from their start.
Busiest(spec) ==
  LET wants(c) == LET of == c.requests @@ c.limits IN SumFunction(of)
      running(i) == {k \in DOMAIN spec.init : k = i \/ (k < i /\ spec.init[k].restartable)}
      init(i) == SumFunction([k \in running(i) |-> wants(spec.init[k])])
      main == init(Len(spec.init) + 1) + SumFunction([k \in DOMAIN spec.containers |-> wants(spec.containers[k])])
  IN Max({main} \cup {init(i) : i \in DOMAIN spec.init})

Held(n) ==
  SumFunction([p \in {q \in Pods : pods[q].node = n /\ pods[q].phase = "Running"} |-> Busiest(pods[p].spec)])

\* Between the two lists that the report is made of.
Between == {"slices", "pods"}

\* Once the pods are listed nothing more is read that the cluster changes.
Change ==
  /\ changes < MaxChanges /\ changes' = changes + 1
  /\ pc \in {"start", "nodes"} \cup Between
  /\ UNCHANGED <<pc, forJob, list, kueue, version, inventory, partial, job, report, exit,
                 gaps, failed, witnessed>>

Bind(p, n) ==
  /\ Change
  /\ pods[p].phase = "Pending" /\ n \notin closed
  /\ Held(n) + Busiest(pods[p].spec) <= alloc[n]
  /\ pods' = [pods EXCEPT ![p].node = n, ![p].phase = "Running"]
  /\ UNCHANGED <<alloc, closed, moved>>

End(p) ==
  /\ Change
  /\ pods[p].phase = "Running"
  /\ \E phase \in {"Succeeded", "Failed"} : pods' = [pods EXCEPT ![p].phase = phase]
  /\ UNCHANGED <<alloc, closed, moved>>

NodeChanges(n) ==
  /\ Change
  /\ moved' = (moved \/ pc \in Between)
  /\ \/ closed' = closed \cup {n} /\ UNCHANGED alloc
     \/ alloc[n] > 0 /\ alloc' = [alloc EXCEPT ![n] = @ - 1] /\ UNCHANGED closed
  /\ UNCHANGED pods

-----------------------------------------------------------------------------
(* The command. *)

Exit(code) == exit' = code /\ pc' = "done"
Goto(there) == pc' = there /\ UNCHANGED exit
Refused(resource) == gaps' = gaps \cup {resource} /\ UNCHANGED failed
Answered == UNCHANGED <<gaps, failed>>

\* A request that fails for another reason than a refusal ends the run.
Fails(at) ==
  /\ pc = at /\ Exit(ExitError)
  /\ failed' = TRUE
  /\ UNCHANGED <<cluster, forJob, list, kueue, version, inventory, partial, job, report,
                 gaps, witnessed, moved>>

\* The flags are validated, and --for is parsed.
Validate ==
  /\ pc = "start"
  /\ \/ Exit(ExitUsage) /\ UNCHANGED forJob
     \/ Goto("nodes") /\ forJob' \in BOOLEAN
  /\ UNCHANGED <<cluster, list, kueue, version, inventory, partial, job, report, history>>

\* The node list.
ListNodes ==
  /\ pc = "nodes" /\ Goto("slices")
  /\ \E wearing \in Wearings :
       list' = [n \in Nodes |->
                  [alloc |-> alloc[n], requested |-> 0, known |-> FALSE,
                   ready |-> n \notin closed, unschedulable |-> n \in closed,
                   labels |-> [l \in wearing[n] |-> Place[l][n]]]]
  /\ UNCHANGED <<cluster, forJob, kueue, version, inventory, partial, job, report, history>>

\* The slices, which are asked for twice and read once: refused, the nodes that
\* only a slice makes GPU nodes are not there.
ReadSlices ==
  /\ pc = "slices" /\ Goto("pods")
  /\ \/ Answered /\ UNCHANGED <<list, inventory>>
     \/ /\ Refused("resourceslices")
        /\ inventory' = <<"resourceslices", "resourceslices">>
        /\ list' = [n \in Nodes \ Sliced |-> list[n]]
  /\ UNCHANGED <<cluster, forJob, kueue, version, partial, job, report, witnessed, moved>>

\* joinPartials: every resource once, where it is first named.
joinPartials(partials) ==
  LET first == {i \in DOMAIN partials : \A k \in 1 .. (i - 1) : partials[k] # partials[i]}
      nth(k) == CHOOSE i \in first : Cardinality({j \in first : j <= i}) = k
  IN [k \in 1 .. Cardinality(first) |-> partials[nth(k)]]

Collect(errors) == IF errors = <<>> THEN partial ELSE Append(partial, errors)

\* One list over every namespace, and the end of inventory.Build.
ListPods ==
  /\ pc = "pods" /\ Goto("topologies")
  /\ \/ /\ Answered /\ UNCHANGED inventory
        /\ list' = [n \in DOMAIN list |->
                      [list[n] EXCEPT !.known = TRUE, !.requested = requestedByNode(pods, n)]]
     \/ /\ Refused("pods")
        /\ inventory' = Append(inventory, "pods")
        /\ UNCHANGED list
  /\ partial' = Collect(joinPartials(inventory'))
  /\ witnessed' = [n \in Nodes \ closed |-> alloc[n] - Held(n)]
  /\ UNCHANGED <<cluster, forJob, kueue, version, job, report, moved>>

\* kueueProblem and passPartial: what the run goes on with when Kueue was not read.
NoKueue(resource, installed, error) ==
  /\ kueue' = [installed |-> installed \/ resource = "resourceflavors", topologies |-> <<>>]
  /\ partial' = Collect(error)
  /\ Goto("job") /\ version' = 1

KueueRead(resource) ==
  IF resource = "topologies"
    THEN Goto("resourceflavors") /\ version' = 1 /\ UNCHANGED <<kueue, partial>>
    ELSE /\ \E flavors \in Flavors :
              kueue' = [installed |-> TRUE, topologies |-> ReferencedTopologies(Topologies, flavors)]
         /\ Goto("job") /\ version' = 1 /\ UNCHANGED partial

\* Mutant of listKueue: a refused discovery is taken for a version not served.
listKueueSkips(resource) ==
  /\ pc = resource
  /\ \/ \E refused \in BOOLEAN :
          /\ IF refused THEN Refused(resource) ELSE Answered
          /\ IF version < Len(KueueVersions)
               THEN version' = version + 1 /\ UNCHANGED <<pc, exit, kueue, partial>>
               ELSE NoKueue(resource, FALSE, <<>>)
     \/ Answered /\ KueueRead(resource)
  /\ UNCHANGED <<cluster, forJob, list, inventory, job, report, witnessed, moved>>

\* One version: discovery is refused; or it is not served, or gone when it is
\* listed, and the next is tried; or the list is refused or read.
listKueue(resource) ==
  /\ pc = resource
  /\ \/ /\ Refused(resource)
        /\ NoKueue(resource, FALSE, <<resource>>)
     \/ /\ Answered
        /\ IF version < Len(KueueVersions)
             THEN version' = version + 1 /\ UNCHANGED <<pc, exit, kueue, partial>>
             ELSE NoKueue(resource, FALSE, <<>>)
     \/ /\ Refused(resource)
        /\ NoKueue(resource, TRUE, <<resource>>)
     \/ Answered /\ KueueRead(resource)
  /\ UNCHANGED <<cluster, forJob, list, inventory, job, report, witnessed, moved>>

\* answerForJob, when there is a job to answer about.
answerForJob ==
  /\ pc = "job"
  /\ \/ ~forJob /\ Goto("print") /\ Answered /\ UNCHANGED <<partial, job>>
     \/ forJob /\ Exit(ExitUsage) /\ Answered /\ UNCHANGED <<partial, job>>   \* no such job
     \/ forJob /\ Goto("print") /\ Refused("jobs") /\ partial' = Collect(<<"jobs">>) /\ UNCHANGED job
     \/ /\ forJob /\ Answered /\ UNCHANGED partial
        /\ \E j \in Jobs :
             IF Answerable(JobRequestFrom(j))
               THEN job' = j /\ Goto("print")
               ELSE Exit(ExitUsage) /\ UNCHANGED job
  /\ UNCHANGED <<cluster, forJob, list, kueue, version, inventory, report, witnessed, moved>>

\* unreachableOf: errors.As finds one resource in each error that was collected.
unreachableOf(errors) == {errors[i][1] : i \in DOMAIN errors}

\* The report and the exit code.
printReport ==
  /\ pc = "print"
  /\ LET levels == Build(list, kueue.topologies)
     IN report' = [levels |-> levels,
                   installed |-> kueue.installed,
                   partialNodes |-> partialNodes(list),
                   fit |-> IF job = NoJob THEN << >> ELSE FitJob(levels, list, JobRequestFrom(job)),
                   unreachable |-> unreachableOf(partial)]
  /\ Exit(IF partial = <<>> THEN ExitOK ELSE ExitPartial)
  /\ UNCHANGED <<cluster, forJob, list, kueue, version, inventory, partial, job, history>>

Done == pc = "done" /\ UNCHANGED vars

Next ==
  \/ \E p \in Pods : End(p) \/ \E n \in Nodes : Bind(p, n)
  \/ \E n \in Nodes : NodeChanges(n)
  \/ Validate \/ ListNodes \/ ReadSlices \/ ListPods
  \/ \E r \in {"topologies", "resourceflavors"} : listKueue(r)
  \/ \E at \in {"nodes", "slices", "pods", "topologies", "resourceflavors", "job", "print"} : Fails(at)
  \/ answerForJob \/ printReport \/ Done

Spec == Init /\ [][Next]_vars

-----------------------------------------------------------------------------
(* Properties. *)

Printed == pc = "done" /\ report # NoReport
Answers == Printed /\ job # NoJob

\* The nodes of the group that has value v at the level of a label.
Members(label, v) ==
  CASE label = LabelHostname -> {v} \cap DOMAIN list
    [] label = LevelCluster -> IF v = 0 THEN DOMAIN list ELSE {}
    [] OTHER -> {n \in DOMAIN list : Carries(list[n], label) /\ list[n].labels[label] = v}

\* Some way to put every pod that the job runs at once on a node of these, each
\* whole, beside what those nodes held when the pods were listed.
CanPlace(names) ==
  LET count == Min({n \in {IF job.parallelism = Unset THEN 1 ELSE job.parallelism, job.completions} : n # Unset})
      open == names \cap DOMAIN witnessed
  IN \E at \in [1..count -> open] :
       \A i \in 1..count : Busiest(job.spec) * Cardinality({k \in 1..count : at[k] = at[i]}) <= witnessed[at[i]]

\* A group is listed as one the job fits in exactly when its pods could be placed on
\* its nodes at the moment the pods were listed, if no node changed since the node
\* list; when the pods could not be listed none is (fit.go:157, "a placement that
\* will sit Pending").  The pods that were bound or ended since the run began count,
\* and so does the start of a pod, sidecars and all.
FitIsExact ==
  Answers =>
    \A i \in DOMAIN report.fit.levels :
      LET level == report.fit.levels[i]
      IN \A v \in Values :
           IF "pods" \in gaps THEN level.groups = {}
           ELSE Members(level.label, v) # {} /\ ~moved
                  => (v \in level.groups <=> CanPlace(Members(level.label, v)))

\* What a Kueue topology declares below another level of its own is the narrower of
\* the two, as long as the report has the wider one from this topology: not from a
\* hierarchy of its own (group.go:288-297), and not from a topology that comes before
\* by name, whose levels are all listed before the ones this topology adds
\* (group.go:358-373).
kueueNarrower(x, y) ==
  /\ y \notin ToSet(NVLinkLabels) \cup Tiers
  /\ \E t \in DOMAIN kueue.topologies :
       LET levels == kueue.topologies[t]
       IN /\ \A s \in 1 .. (t - 1) : y \notin ToSet(kueue.topologies[s])
          /\ \E i, k \in DOMAIN levels : k < i /\ levels[i] = x /\ levels[k] = y

\* The level the answer names is the narrowest: at no level of the report that is
\* narrower in the same hierarchy is there a group the job's pods could be placed in,
\* whichever nodes lack the label and however many topologies add levels or share
\* one, and no name means that the cluster has no room (fit.go:69).  A level that two
\* topologies share is where the first of them puts it; what the second declares
\* below it is not held against the answer.
SmallestIsNarrowest ==
  Answers /\ "pods" \notin gaps /\ ~moved =>
    LET room(label) == \E v \in Values :
                         Members(label, v) # {} /\ CanPlace(Members(label, v))
    IN /\ report.fit.smallest = "" => ~room(LevelCluster)
       /\ \A i \in DOMAIN report.fit.levels :
            LET label == report.fit.levels[i].label
            IN (<<label, report.fit.smallest>> \in Narrower \/ kueueNarrower(label, report.fit.smallest))
                 => ~room(label)

\* The exit code is what the reads came to, in whichever order they were refused,
\* not served or failed: 4 when one failed, 3 when one was refused and the report is
\* printed all the same, 0 only when all were answered (docs/usage.md:218).
ExitTells ==
  pc = "done" =>
    /\ (exit = ExitError) = failed
    /\ Printed => exit = IF gaps = {} THEN ExitOK ELSE ExitPartial
    /\ ~Printed => exit \in {ExitUsage, ExitError}

\* The report lists every resource that was refused (exitcode.go:115, "Unreachable
\* lists what Partial is about, so that a reader never has to guess which part of
\* the cluster is missing").
UnreachableIsWhole == Printed => report.unreachable = gaps
=============================================================================
