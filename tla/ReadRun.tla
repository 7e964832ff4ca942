------------------------------- MODULE ReadRun -------------------------------
(***************************************************************************)
(* The read-only commands "kubectl nv list", "info" and "health" over a    *)
(* live cluster: pkg/source reads the API server one collection at a time, *)
(* pkg/inventory builds the nodes from the first reads, the health command *)
(* reads further and runs the rules, and the error every part returned is  *)
(* turned into the exit code.                                              *)
(*                                                                         *)
(* The API server may answer, refuse (RBAC) or fail each request, and the  *)
(* cluster changes between two of them.  The error of one read is NoError, *)
(* the name of the resource a PartialError is about, or Hard for any other *)
(* error, with whatever context it is wrapped in; what errors.Join returns *)
(* is the sequence of them.  What the rules conclude from their input is   *)
(* left open.                                                              *)
(***************************************************************************)
EXTENDS Integers, Sequences, FiniteSets

CONSTANTS
  Nodes,      \* the nodes of the node list; what a slice says of others is passed over
  Ghost,      \* a name that no node has
  Rules,      \* the health rules
  Severity,   \* the rank of each rule's findings: 1 info, 2 warning, 3 error
  Gated,      \* the rules whose range does not cover the operator's version
  FailOn,     \* the thresholds --fail-on is tried with, as such ranks
  MaxFound,   \* bound: how many findings the rules return
  MaxChurn    \* bound: how often the cluster changes during a run

ASSUME NodesAssumption == Ghost \notin Nodes
ASSUME RulesAssumption ==
  /\ Gated \subseteq Rules
  /\ Severity \in [Rules -> 1..3]
ASSUME FailOnAssumption == FailOn \subseteq 1..3
ASSUME BoundsAssumption == MaxChurn \in Nat /\ MaxFound \in Nat

VARIABLES
  cluster,     \* nodes that advertise a GPU, are labelled, are named by a slice
  churn,       \* how often the cluster has changed
  opts,        \* the command line
  pc,          \* where the command is
  nodeList,    \* the nodes' capacity and labels as listed
  memo,        \* Live: the one ResourceSlice read that is kept
  gpu,         \* the inventory's GPU nodes
  hinted,      \* and its hinted nodes
  sliced,      \* the nodes the inventory attributes a ResourceSlice to
  partials,    \* the errors collected so far, their leaves in order
  inSlices,    \* health.Input.ResourceSlices, the nodes they name
  version,     \* health.Input.OperatorVersion: "known" or "unknown"
  found,       \* the report's findings
  printed,     \* whether the answer was printed
  said,        \* the resources the output names as not read
  code,        \* the exit code
  gaps,        \* history: the requests that were not answered, and how
  concluded    \* history: what the rules found, before --node narrowed it

world == <<cluster, churn>>
inv == <<nodeList, memo, gpu, hinted, sliced>>
input == <<inSlices, version>>
result == <<found, printed, said, code>>
vars == <<world, opts, pc, inv, partials, input, result, gaps, concluded>>

NoNode == "none"
NoError == "nil"
Hard == "hard"
Secondary == {"resourceslices", "pods", "clusterpolicies", "events", "computedomains"}
Resources == Secondary \cup {"nodes"}

\* The collections a cluster may not serve at all.
Optional == {"resourceslices", "clusterpolicies", "computedomains"}
Unanswered == {"forbidden", "failed"}
Replies(res) == {"ok"} \cup Unanswered \cup (IF res \in Optional THEN {"notfound"} ELSE {})

Pending == -1
ExitOK == 0
ExitFindings == 1
ExitUsage == 2
ExitPartial == 3
ExitError == 4

Names == Nodes \cup {Ghost, NoNode}
Commands ==
  [cmd : {"list"}, node : Names, match : SUBSET Nodes, noPods : BOOLEAN,
   hinted : BOOLEAN, table : {TRUE}, failOn : {3}]
  \cup [cmd : {"info"}, node : Names \ {NoNode}, match : {Nodes}, noPods : {FALSE},
        hinted : {TRUE}, table : {TRUE}, failOn : {3}]
  \cup [cmd : {"health"}, node : Names, match : {Nodes}, noPods : {FALSE},
        hinted : {TRUE}, table : BOOLEAN, failOn : FailOn]

Clusters == [cap : SUBSET Nodes, label : SUBSET Nodes, slice : SUBSET Nodes]
NoList == [cap |-> {}, label |-> {}]
Memos == [read : BOOLEAN, slices : SUBSET Nodes, err : {NoError, "resourceslices", Hard}]
NoMemo == [read |-> FALSE, slices |-> {}, err |-> NoError]

Init ==
  /\ cluster \in Clusters
  /\ churn = 0
  /\ opts \in Commands
  /\ pc = "start"
  /\ nodeList = NoList
  /\ memo = NoMemo
  /\ gpu = {} /\ hinted = {} /\ sliced = {}
  /\ partials = <<>>
  /\ inSlices = {} /\ version = "unknown"
  /\ found = {} /\ printed = FALSE /\ said = {} /\ code = Pending
  /\ gaps = {} /\ concluded = {}

Goto(there) == pc' = there
Exit(c) == code' = c /\ Goto("done")

\* A request for res is answered with reply; gaps remembers the ones that are not.
Ask(res, reply) ==
  /\ reply \in Replies(res)
  /\ gaps' = IF reply \in Unanswered THEN gaps \cup {[res |-> res, how |-> reply]} ELSE gaps

\* A refused secondary resource is a PartialError; a collection the cluster does
\* not serve is an empty answer; anything else ends in a plain error.
errorOf(res, reply) ==
  IF reply \notin Unanswered THEN NoError
  ELSE IF reply = "forbidden" /\ res \in Secondary THEN res
  ELSE Hard

\* The errors collected, as the tree of errors.Join holds them.
Leaves == {partials[i] : i \in DOMAIN partials}

\* The code of what a command returns: of the leaves only a PartialError has one,
\* and errors.As finds it wherever it is.
ExitCodeFor ==
  IF partials = <<>> THEN ExitOK
  ELSE IF Leaves \cap Secondary # {} THEN ExitPartial ELSE ExitError

-----------------------------------------------------------------------------
(* The command line, and the clients. *)

\* A flag that does not parse, --fields that name nothing, a selector that is
\* none, a --from-bundle that is no bundle: all before the first request.
BadUsage ==
  /\ pc = "start"
  /\ Exit(ExitUsage)
  /\ UNCHANGED <<world, opts, inv, partials, input, found, printed, said, gaps, concluded>>

NoClient ==
  /\ pc = "start"
  /\ Exit(ExitError)
  /\ UNCHANGED <<world, opts, inv, partials, input, found, printed, said, gaps, concluded>>

newSource ==
  /\ pc = "start"
  /\ Goto("nodes")
  /\ UNCHANGED <<world, opts, inv, partials, input, result, gaps, concluded>>

-----------------------------------------------------------------------------
(* Live, and BuildWithHinted over it. *)

\* A build that failed has no list: the command returns its error.
BuildFails == Exit(ExitError) /\ UNCHANGED partials

listNodes ==
  /\ pc = "nodes"
  /\ \E reply \in Replies("nodes") :
       /\ Ask("nodes", reply)
       /\ IF reply = "ok"
            THEN /\ nodeList' = [cap |-> cluster.cap, label |-> cluster.label]
                 /\ Goto("classify")
                 /\ UNCHANGED <<partials, code>>
            ELSE BuildFails /\ UNCHANGED nodeList
  /\ UNCHANGED <<world, opts, memo, gpu, hinted, sliced, input, found, printed, said, concluded>>

\* Mutant of remembered: nothing is.
rememberedNever(reply) == {FALSE}

\* Every answer is remembered, a refusal too.  A context that is dead is no
\* answer: it is one of the ways to fail.
remembered(reply) == IF reply = "failed" THEN BOOLEAN ELSE {TRUE}

\* listResourceSlices: r is what it returns.  The request is made when none was
\* answered before, and the answer stands for the rest of the run.
listResourceSlices(r) ==
  \/ /\ memo.read
     /\ r = [slices |-> memo.slices, err |-> memo.err]
     /\ UNCHANGED <<memo, gaps>>
  \/ /\ ~memo.read
     /\ \E reply \in Replies("resourceslices") :
          /\ Ask("resourceslices", reply)
          /\ r = [slices |-> IF reply = "ok" THEN cluster.slice ELSE {},
                  err |-> errorOf("resourceslices", reply)]
          /\ \E keeps \in remembered(reply) :
               memo' = IF keeps THEN [read |-> TRUE, slices |-> r.slices, err |-> r.err]
                                ELSE memo

Returns == [slices : SUBSET Nodes, err : {NoError, "resourceslices", Hard}]

isGPUNode(n, slices) == n \in nodeList.cap \/ n \in slices

\* classifyNodes: membership wins over a label, and a label alone is a hint.
classifyNodes(slices) ==
  LET members == {n \in Nodes : isGPUNode(n, slices)}
  IN [gpu |-> members, hinted |-> nodeList.label \ members]

\* joinPartials, done as the errors are collected: the builder names each lost
\* resource once.
joinPartials(err) ==
  partials' = IF err \in Leaves \cup {NoError} THEN partials ELSE Append(partials, err)

ClassifyNodes ==
  /\ pc = "classify"
  /\ \E r \in Returns :
       /\ listResourceSlices(r)
       /\ IF r.err = Hard
            THEN BuildFails /\ UNCHANGED <<gpu, hinted>>
            ELSE /\ gpu' = classifyNodes(r.slices).gpu
                 /\ hinted' = classifyNodes(r.slices).hinted
                 /\ joinPartials(r.err)
                 /\ Goto("slices") /\ UNCHANGED code
  /\ UNCHANGED <<world, opts, nodeList, sliced, input, found, printed, said, concluded>>

\* slicesByNode.
buildSlices ==
  /\ pc = "slices"
  /\ \E r \in Returns :
       /\ listResourceSlices(r)
       /\ IF r.err = Hard
            THEN BuildFails /\ UNCHANGED sliced
            ELSE /\ sliced' = r.slices
                 /\ joinPartials(r.err)
                 /\ Goto(IF opts.noPods THEN "build" ELSE "pods") /\ UNCHANGED code
  /\ UNCHANGED <<world, opts, nodeList, gpu, hinted, input, found, printed, said, concluded>>

buildPods ==
  /\ pc = "pods"
  /\ \E reply \in Replies("pods") :
       /\ Ask("pods", reply)
       /\ IF errorOf("pods", reply) = Hard
            THEN BuildFails
            ELSE joinPartials(errorOf("pods", reply)) /\ Goto("build") /\ UNCHANGED code
  /\ UNCHANGED <<world, opts, inv, input, found, printed, said, concluded>>

\* filterNodes and the rest of BuildWithHinted.  health asks for every node and
\* narrows what it reports.
filterNodes(nodes) ==
  IF opts.cmd = "health" THEN nodes
  ELSE {n \in nodes \cap opts.match : opts.node \in {n, NoNode}}

BuildWithHinted ==
  /\ pc = "build"
  /\ gpu' = filterNodes(gpu)
  /\ hinted' = IF opts.hinted THEN filterNodes(hinted) ELSE {}
  /\ Goto(IF opts.cmd = "health" THEN "policies" ELSE opts.cmd)
  /\ UNCHANGED <<world, opts, nodeList, memo, sliced, partials, input, result, gaps, concluded>>

-----------------------------------------------------------------------------
(* list and info: print the nodes, and return what the build returned. *)

PrintFails ==
  /\ pc \in {"list", "info", "print"}
  /\ pc = "info" => opts.node \in gpu \cup hinted
  /\ Exit(ExitError)
  /\ UNCHANGED <<world, opts, inv, partials, input, found, printed, said, gaps, concluded>>

list ==
  /\ pc = "list"
  /\ printed' = TRUE
  /\ said' = Leaves
  /\ Exit(ExitCodeFor)
  /\ UNCHANGED <<world, opts, inv, partials, input, found, gaps, concluded>>

\* Mutant of notFound: a node that was not found is the user's mistake.
notFoundIsUsage == ExitUsage

\* A node that an incomplete read did not find is not a node without GPUs.
notFound == IF partials # <<>> THEN ExitPartial ELSE ExitUsage

info ==
  /\ pc = "info"
  /\ said' = Leaves
  /\ IF opts.node \in gpu \cup hinted
       THEN printed' = TRUE /\ Exit(ExitCodeFor)
       ELSE printed' = FALSE /\ Exit(notFound)
  /\ UNCHANGED <<world, opts, inv, partials, input, found, gaps, concluded>>

-----------------------------------------------------------------------------
(* health: buildInput reads on, whatever a read returns, and collects. *)

\* Mutant of collect: the error is added without a look at whether there is one.
collectNil(err) == partials' = Append(partials, err)

\* Mutant of collect: the last error is the one that is kept.
collectLast(err) == partials' = IF err = NoError THEN partials ELSE <<err>>

collect(err) == partials' = IF err = NoError THEN partials ELSE Append(partials, err)

ClusterPolicies ==
  /\ pc = "policies"
  /\ \E reply \in Replies("clusterpolicies") :
       Ask("clusterpolicies", reply) /\ collect(errorOf("clusterpolicies", reply))
  /\ Goto("input")
  /\ UNCHANGED <<world, opts, inv, input, result, concluded>>

ResourceSlices ==
  /\ pc = "input"
  /\ \E r \in Returns :
       /\ listResourceSlices(r)
       /\ collect(r.err)
       /\ inSlices' = IF r.err = NoError THEN r.slices ELSE inSlices
  /\ Goto("operator")
  /\ UNCHANGED <<world, opts, nodeList, gpu, hinted, sliced, version, result, concluded>>

\* No operator pod, or an image without a readable tag, leaves it unknown.
OperatorPods ==
  /\ pc = "operator"
  /\ \E reply \in Replies("pods"), v \in {"known", "unknown"} :
       /\ Ask("pods", reply)
       /\ collect(errorOf("pods", reply))
       /\ reply # "ok" => v = "unknown"
       /\ version' = v
  /\ Goto("events")
  /\ UNCHANGED <<world, opts, inv, inSlices, result, concluded>>

NodeEvents ==
  /\ pc = "events"
  /\ \E reply \in Replies("events") :
       Ask("events", reply) /\ collect(errorOf("events", reply))
  /\ Goto("discovery")
  /\ UNCHANGED <<world, opts, inv, input, result, concluded>>

\* servesComputeDomains, then the list when the one version is served.  A group
\* that is not served, and one that goes away before the list, is an empty answer.
servesComputeDomains ==
  /\ pc = "discovery"
  /\ \E reply \in Replies("computedomains") :
       /\ Ask("computedomains", reply)
       /\ collect(errorOf("computedomains", reply))
       /\ IF reply = "ok" THEN Goto("domains") ELSE Goto("engine")
  /\ UNCHANGED <<world, opts, inv, input, result, concluded>>

ComputeDomains ==
  /\ pc = "domains"
  /\ \E reply \in Replies("computedomains") :
       Ask("computedomains", reply) /\ collect(errorOf("computedomains", reply))
  /\ Goto("engine")
  /\ UNCHANGED <<world, opts, inv, input, result, concluded>>

-----------------------------------------------------------------------------
(* engine.Run, print and exitFor. *)

\* Mutant of collectPartial: one PartialError makes the whole tree partial.
collectPartialAny == partials = <<>> \/ Leaves \cap Secondary # {}

\* Every leaf has to be a PartialError.
collectPartial == Hard \notin Leaves

\* VersionInRange: an unknown version is no constraint.
Applies(r) == version = "unknown" \/ r \notin Gated

\* Mutant of keep: a finding about the cluster is not the node's.
keepNodes(f) == opts.node = NoNode \/ f.node = opts.node

keep(f) == opts.node = NoNode \/ f.node = NoNode \/ f.node = opts.node

Findings == [rule : Rules, node : Nodes \cup {NoNode}]

\* What the rules that apply may conclude: anything about the nodes they are
\* given, or about the cluster.
Evaluations ==
  {e \in SUBSET {f \in Findings : Applies(f.rule) /\ f.node \in gpu \cup hinted \cup {NoNode}} :
     IsFiniteSet(e) /\ Cardinality(e) <= MaxFound}

runError ==
  /\ pc = "engine" /\ ~collectPartial
  /\ Exit(ExitError)
  /\ UNCHANGED <<world, opts, inv, partials, input, found, printed, said, gaps, concluded>>

nodesCheckedNone ==
  /\ pc = "engine" /\ collectPartial
  /\ opts.node \notin gpu \cup hinted \cup {NoNode}
  /\ said' = Leaves
  /\ Exit(notFound)
  /\ UNCHANGED <<world, opts, inv, partials, input, found, printed, gaps, concluded>>

Run ==
  /\ pc = "engine" /\ collectPartial
  /\ opts.node \in gpu \cup hinted \cup {NoNode}
  /\ concluded' \in Evaluations
  /\ found' = {f \in concluded' : keep(f)}
  /\ Goto("print")
  /\ UNCHANGED <<world, opts, inv, partials, input, printed, said, code, gaps>>

\* Mutant of ExitCode: a partial report with nothing in it is clean.
ExitCodeOfFindings ==
  IF \E f \in found : Severity[f.rule] >= opts.failOn THEN ExitFindings ELSE ExitOK

\* Findings at or above --fail-on win over a partial read.
ExitCode ==
  IF \E f \in found : Severity[f.rule] >= opts.failOn THEN ExitFindings
  ELSE IF partials # <<>> THEN ExitPartial
  ELSE ExitOK

\* The machine readable report carries what was not read; the table does not,
\* and then only the error of an ExitPartial does.
print ==
  /\ pc = "print"
  /\ printed' = TRUE
  /\ said' = IF opts.table /\ ExitCode # ExitPartial THEN {} ELSE Leaves
  /\ Exit(ExitCode)
  /\ UNCHANGED <<world, opts, inv, partials, input, found, gaps, concluded>>

-----------------------------------------------------------------------------
\* The cluster: a ResourceSlice is published or withdrawn, after the nodes were
\* listed and while a command may still read the slices.  The rest of it is read
\* once, and Init leaves open what it is then.
Churn ==
  /\ pc \in {"classify", "slices", "pods", "build", "policies", "input"}
  /\ churn < MaxChurn
  /\ \E n \in Nodes :
       cluster' = [cluster EXCEPT !.slice = IF n \in @ THEN @ \ {n} ELSE @ \cup {n}]
  /\ churn' = churn + 1
  /\ UNCHANGED <<opts, pc, inv, partials, input, result, gaps, concluded>>

Command ==
  \/ BadUsage \/ NoClient \/ newSource
  \/ listNodes \/ ClassifyNodes \/ buildSlices \/ buildPods \/ BuildWithHinted
  \/ list \/ info \/ PrintFails
  \/ ClusterPolicies \/ ResourceSlices \/ OperatorPods \/ NodeEvents
  \/ servesComputeDomains \/ ComputeDomains
  \/ runError \/ nodesCheckedNone \/ Run \/ print

Next == Command \/ Churn

Spec == Init /\ [][Next]_vars

-----------------------------------------------------------------------------
(* Properties. *)

TypeOK ==
  /\ cluster \in Clusters /\ churn \in 0..MaxChurn /\ opts \in Commands
  /\ pc \in {"start", "nodes", "classify", "slices", "pods", "build", "list", "info",
             "policies", "input", "operator", "events", "discovery", "domains",
             "engine", "print", "done"}
  /\ nodeList \in [cap : SUBSET Nodes, label : SUBSET Nodes]
  /\ memo \in Memos
  /\ gpu \subseteq Nodes /\ hinted \subseteq Nodes /\ sliced \subseteq Nodes
  /\ partials \in Seq(Secondary \cup {Hard})
  /\ inSlices \subseteq Nodes /\ version \in {"known", "unknown"}
  /\ found \subseteq concluded /\ concluded \subseteq Findings
  /\ printed \in BOOLEAN /\ said \subseteq Secondary \cup {Hard}
  /\ code \in {Pending, ExitOK, ExitFindings, ExitUsage, ExitPartial, ExitError}
  /\ gaps \subseteq [res : Resources, how : Unanswered]

\* The findings --fail-on is about that concern what the user asked for.
Relevant ==
  {f \in concluded : /\ Severity[f.rule] >= opts.failOn
                     /\ f.node = NoNode \/ opts.node \in {f.node, NoNode}}

\* Exit 0 is said only of what was looked at: every request of the run was
\* answered, and no rule found anything at or above --fail-on about the cluster
\* or the node that was asked for (exitFor, ExitCode, keep).
CleanMeansSeen == code = ExitOK => gaps = {} /\ Relevant = {}

\* A request that failed, as opposed to one that was refused, and a node list
\* that was either, ends in exit 4 with nothing printed, whatever else the run
\* was refused or found: 3 is never said of a run that did not happen
\* (classifyInputError, runError, BuildWithHinted).
FailureIsExitError ==
  (\E g \in gaps : g.how = "failed" \/ g.res = "nodes") =>
    ~printed /\ code \in {Pending, ExitError}

\* A run that ended on less than it asked for names everything it was refused,
\* except in the table of a run that found something: exit 1 and a table say
\* nothing of the reads that were refused (print, findingsError).
MissedIsSaid ==
  (code \in {ExitFindings, ExitPartial} /\ ~(code = ExitFindings /\ opts.table)) =>
    said = {g.res : g \in gaps}

\* The user is told a name is wrong only when every request was answered: with a
\* read refused, the node may be in the part that was not seen (nodesChecked,
\* info's run).
UsageIsCertain == code = ExitUsage => gaps = {}

\* The ResourceSlices that decide which nodes are GPU nodes, the ones attributed
\* to the nodes and the ones the rules look inside are one list: no hinted node
\* has a slice, whatever is published during the run (the memo of Live).
OneMoment ==
  /\ hinted \cap (sliced \cup inSlices) = {}
  /\ inSlices \subseteq gpu
=============================================================================
