---------------------------- MODULE ReadRunProofs ----------------------------
(***************************************************************************)
(* Proofs about ReadRun, for every cluster, every set of rules and every   *)
(* bound.  What a command says at its end follows from two correspondences *)
(* that hold all along: between the requests that were not answered and    *)
(* the errors that were collected (GapInv), and between the one remembered *)
(* list of ResourceSlices and everything derived from it (SliceInv).       *)
(***************************************************************************)
EXTENDS ReadRun, TLAPS

Errors == Secondary \cup {Hard}
Fresh == {"start", "nodes", "classify"}
Building == {"slices", "pods", "build"}
HealthOnly == {"policies", "input", "operator", "events", "discovery", "domains",
               "engine", "print"}

\* Which command is where, and what is not there yet.
PhaseInv ==
  /\ pc \in {"start", "nodes"} => gaps = {} /\ partials = <<>>
  /\ pc = "done" <=> code # Pending
  /\ pc # "done" => ~printed
  /\ pc \in HealthOnly => opts.cmd = "health"
  /\ opts.cmd # "health" => inSlices = {} /\ concluded = {}
  /\ pc \notin {"print", "done"} => concluded = {}
  /\ pc = "print" => found = {f \in concluded : keep(f)}

\* While the command runs, a refused read of a secondary resource is among the
\* errors by its name and any other unanswered one as Hard; and every name among
\* the errors is that of a request that was not answered.
GapInv ==
  /\ pc # "done" =>
       \A g \in gaps :
         IF g.how = "forbidden" /\ g.res \in Secondary THEN g.res \in Leaves ELSE Hard \in Leaves
  /\ \A l \in Leaves \cap Secondary : \E g \in gaps : g.res = l
  /\ pc \in Fresh \cup Building \cup {"list", "info", "policies", "print"} => Hard \notin Leaves

\* The slices are read once, when the nodes are classified, and that list is the
\* one the rest is derived from.
SliceInv ==
  /\ pc \in Fresh => memo = NoMemo
  /\ pc \in Building \cup {"list", "info"} \cup HealthOnly => memo.read /\ memo.err # Hard
  /\ memo.err = "resourceslices" => [res |-> "resourceslices", how |-> "forbidden"] \in gaps
  /\ sliced \cup inSlices \subseteq memo.slices
  /\ hinted \cap memo.slices = {}
  /\ opts.cmd = "health" => memo.slices \subseteq gpu

\* What a run that ended has said.
EndInv == CleanMeansSeen /\ FailureIsExitError /\ MissedIsSaid /\ UsageIsCertain

IInv == TypeOK /\ PhaseInv /\ GapInv /\ SliceInv /\ EndInv

-----------------------------------------------------------------------------
(* The errors as a set. *)

\* Adding an error to the sequence adds it to the set of its leaves, and a
\* sequence without leaves is empty.
LEMMA LeavesAppend ==
  ASSUME NEW S, NEW s \in Seq(S), NEW e \in S
  PROVE  /\ Append(s, e) \in Seq(S)
         /\ {Append(s, e)[i] : i \in DOMAIN Append(s, e)} = {s[i] : i \in DOMAIN s} \cup {e}
         /\ s = <<>> <=> {s[i] : i \in DOMAIN s} = {}
<1> DEFINE t == Append(s, e)
<1>1. t \in Seq(S) /\ DOMAIN t = 1..(Len(s) + 1) /\ DOMAIN s = 1..Len(s) /\ Len(s) \in Nat
  OBVIOUS
<1>2. \A i \in 1..Len(s) : t[i] = s[i]
  OBVIOUS
<1>3. t[Len(s) + 1] = e
  OBVIOUS
<1>4. {t[i] : i \in DOMAIN t} \subseteq {s[i] : i \in DOMAIN s} \cup {e}
  BY <1>1, <1>2, <1>3
<1>5. {s[i] : i \in DOMAIN s} \cup {e} \subseteq {t[i] : i \in DOMAIN t}
  BY <1>1, <1>2, <1>3
<1>6. s = <<>> <=> {s[i] : i \in DOMAIN s} = {}
  <2>1. ASSUME s # <<>> PROVE s[1] \in {s[i] : i \in DOMAIN s}
    <3>1. 1 \in DOMAIN s
      BY <1>1, <2>1
    <3> QED
      BY <3>1
  <2>2. ASSUME s = <<>> PROVE {s[i] : i \in DOMAIN s} = {}
    BY <2>2
  <2> QED
    BY <2>1, <2>2
<1> QED
  BY <1>1, <1>4, <1>5, <1>6

\* Both ways of collecting an error, the builder's that drops a second one about
\* the same resource and buildInput's that keeps it, do the same to the leaves.
LEMMA Collected ==
  ASSUME partials \in Seq(Errors), NEW err \in Errors \cup {NoError},
         collect(err) \/ joinPartials(err)
  PROVE  /\ partials' \in Seq(Errors)
         /\ Leaves' = Leaves \cup ({err} \ {NoError})
<1>0. NoError \notin Errors
  BY DEF NoError, Errors, Secondary, Hard
<1>1. CASE partials' = partials /\ err \in Leaves \cup {NoError}
  BY <1>1 DEF Leaves
<1>2. CASE partials' = Append(partials, err) /\ err # NoError
  <2>1. err \in Errors
    BY <1>2
  <2> QED
    BY <1>2, <2>1, LeavesAppend DEF Leaves
<1> QED
  BY <1>1, <1>2 DEF collect, joinPartials

\* There is an error exactly when there is a leaf.
LEMMA NoLeaves ==
  ASSUME partials \in Seq(Errors)
  PROVE  partials = <<>> <=> Leaves = {}
BY LeavesAppend, Hard \in Errors DEF Leaves, Errors

-----------------------------------------------------------------------------
(* The invariant. *)

\* The reading half of GapInv, for a command that is still running.
Matched ==
  /\ \A g \in gaps :
       IF g.how = "forbidden" /\ g.res \in Secondary THEN g.res \in Leaves ELSE Hard \in Leaves
  /\ \A l \in Leaves \cap Secondary : \E g \in gaps : g.res = l

\* A request whose error is collected keeps the requests and the errors matched.
LEMMA AskedAndCollected ==
  ASSUME gaps \subseteq [res : Resources, how : Unanswered], Matched,
         NEW res \in Secondary, NEW reply \in Replies(res), Ask(res, reply),
         Leaves' = Leaves \cup ({errorOf(res, reply)} \ {NoError})
  PROVE  /\ Matched'
         /\ gaps' \subseteq [res : Resources, how : Unanswered]
         /\ gaps \subseteq gaps'
<1> DEFINE g == [res |-> res, how |-> reply]
<1>0. /\ Hard \notin Secondary /\ NoError \notin Secondary /\ NoError # Hard
      /\ Secondary \subseteq Resources
  BY DEF Hard, NoError, Secondary, Resources
<1>1. CASE reply \notin Unanswered
  <2>1. errorOf(res, reply) = NoError /\ gaps' = gaps /\ Leaves' = Leaves
    BY <1>1 DEF errorOf, Ask
  <2> QED
    BY <2>1 DEF Matched
<1>2. CASE reply = "forbidden"
  <2>1. errorOf(res, reply) = res /\ gaps' = gaps \cup {g} /\ Leaves' = Leaves \cup {res}
    BY <1>0, <1>2 DEF errorOf, Ask, Unanswered
  <2>2. g.res = res /\ g.how = "forbidden" /\ g \in [res : Resources, how : Unanswered]
    BY <1>0, <1>2 DEF Unanswered
  <2> HIDE DEF g
  <2> QED
    BY <1>0, <2>1, <2>2 DEF Matched
<1>3. CASE reply = "failed"
  <2>1. errorOf(res, reply) = Hard /\ gaps' = gaps \cup {g} /\ Leaves' = Leaves \cup {Hard}
    BY <1>0, <1>3 DEF errorOf, Ask, Unanswered
  <2>2. g.res = res /\ g.how = "failed" /\ g \in [res : Resources, how : Unanswered]
    BY <1>0, <1>3 DEF Unanswered
  <2> HIDE DEF g
  <2> QED
    BY <1>0, <2>1, <2>2 DEF Matched
<1> QED
  BY <1>1, <1>2, <1>3 DEF Unanswered

\* So does a read of the slices, whether it makes a request or remembers one.
LEMMA SlicesAndCollected ==
  ASSUME gaps \subseteq [res : Resources, how : Unanswered], Matched, SliceInv,
         memo \in Memos,
         memo.read => memo.err # Hard,
         NEW r \in Returns, listResourceSlices(r),
         Leaves' = Leaves \cup ({r.err} \ {NoError})
  PROVE  Matched'
<1> USE DEF Memos
<1>1. CASE memo.read
  <2>1. r.err = memo.err /\ gaps' = gaps
    BY <1>1 DEF listResourceSlices
  <2>2. CASE memo.err = NoError
    BY <2>1, <2>2 DEF Matched
  <2>3. CASE memo.err = "resourceslices"
    <3> DEFINE g == [res |-> "resourceslices", how |-> "forbidden"]
    <3>1. g \in gaps /\ g.res = "resourceslices"
      BY <2>3 DEF SliceInv
    <3>2. Leaves' = Leaves \cup {"resourceslices"}
      BY <2>1, <2>3 DEF NoError
    <3> HIDE DEF g
    <3> QED
      BY <2>1, <3>1, <3>2 DEF Matched
  <2> QED
    BY <1>1, <2>2, <2>3
<1>2. CASE ~memo.read
  <2>1. PICK reply \in Replies("resourceslices") :
          Ask("resourceslices", reply) /\ r.err = errorOf("resourceslices", reply)
    BY <1>2 DEF listResourceSlices
  <2> QED
    BY <2>1, AskedAndCollected, "resourceslices" \in Secondary DEF Secondary
<1> QED
  BY <1>1, <1>2 DEF listResourceSlices

\* What a read of the slices leaves in the memo.
LEMMA SlicesRemembered ==
  ASSUME gaps \subseteq [res : Resources, how : Unanswered],
         memo \in Memos,
         NEW r \in Returns, listResourceSlices(r)
  PROVE  /\ memo' \in Memos
         /\ gaps' \subseteq [res : Resources, how : Unanswered]
         /\ gaps \subseteq gaps'
         /\ memo.read => memo' = memo /\ r.slices = memo.slices /\ r.err = memo.err
         /\ (~memo.read /\ r.err # Hard) => memo'.read /\ memo'.slices = r.slices /\ memo'.err = r.err
         /\ (~memo.read /\ r.err = Hard) =>
              r.slices = {} /\ (memo' = memo \/ (memo'.slices = {} /\ memo'.err = Hard))
         /\ (~memo.read /\ r.err = "resourceslices") =>
              [res |-> "resourceslices", how |-> "forbidden"] \in gaps'
<1> USE DEF Memos
<1>1. CASE memo.read
  BY <1>1 DEF listResourceSlices
<1>2. CASE ~memo.read
  <2>1. PICK reply \in Replies("resourceslices") :
          /\ Ask("resourceslices", reply)
          /\ r = [slices |-> IF reply = "ok" THEN cluster.slice ELSE {},
                  err |-> errorOf("resourceslices", reply)]
          /\ \E keeps \in remembered(reply) :
               memo' = IF keeps THEN [read |-> TRUE, slices |-> r.slices, err |-> r.err] ELSE memo
    BY <1>2 DEF listResourceSlices
  <2>2. r.slices \in SUBSET Nodes /\ r.err \in {NoError, "resourceslices", Hard}
    BY DEF Returns
  <2>3. /\ reply = "failed" <=> r.err = Hard
        /\ reply = "forbidden" <=> r.err = "resourceslices"
        /\ reply = "failed" => r.slices = {}
    BY <2>1 DEF errorOf, Replies, Unanswered, Optional, Secondary, Hard, NoError
  <2>4. /\ gaps' \subseteq [res : Resources, how : Unanswered]
        /\ gaps \subseteq gaps'
        /\ reply = "forbidden" => [res |-> "resourceslices", how |-> "forbidden"] \in gaps'
    BY <2>1 DEF Ask, Resources, Secondary, Unanswered
  <2>5. reply # "failed" => memo' = [read |-> TRUE, slices |-> r.slices, err |-> r.err]
    BY <2>1 DEF remembered
  <2>6. reply = "failed" =>
          memo' = memo \/ memo' = [read |-> TRUE, slices |-> r.slices, err |-> r.err]
    BY <2>1 DEF remembered
  <2> DEFINE m == [read |-> TRUE, slices |-> r.slices, err |-> r.err]
  <2>7. /\ m \in Memos
        /\ m.read /\ m.slices = r.slices /\ m.err = r.err
    BY <2>2
  <2> HIDE DEF m
  <2>8. CASE reply # "failed"
    BY <1>2, <2>3, <2>4, <2>5, <2>7, <2>8 DEF m
  <2>9. CASE reply = "failed"
    BY <1>2, <2>3, <2>4, <2>6, <2>7, <2>9 DEF m
  <2> QED
    BY <2>8, <2>9
<1> QED
  BY <1>1, <1>2

\* When nothing failed, the leaves are the resources of the requests that were
\* not answered, all of them refused.
LEMMA Settled ==
  ASSUME partials \in Seq(Errors), Matched, Hard \notin Leaves
  PROVE  /\ partials = <<>> => gaps = {}
         /\ partials # <<>> => Leaves \cap Secondary # {}
         /\ \A g \in gaps : g.how = "forbidden" /\ g.res \in Secondary
         /\ Leaves = {g.res : g \in gaps}
<1>1. Leaves \subseteq Secondary
  BY DEF Leaves, Errors
<1>2. \A g \in gaps : g.how = "forbidden" /\ g.res \in Secondary /\ g.res \in Leaves
  BY DEF Matched
<1>3. partials = <<>> <=> Leaves = {}
  BY NoLeaves
<1> QED
  BY <1>1, <1>2, <1>3 DEF Matched

\* A read of buildInput, which goes on whatever it returns.
LEMMA InputRead ==
  ASSUME IInv, NEW res \in Secondary, NEW reply \in Replies(res),
         Ask(res, reply), collect(errorOf(res, reply)),
         pc \in HealthOnly \ {"print"}, pc' \in HealthOnly \ {"print", "policies"},
         UNCHANGED <<world, opts, inv, result, inSlices, concluded>>,
         version' \in {"known", "unknown"}
  PROVE  IInv'
<1> USE DEF IInv
<1>1. partials \in Seq(Errors) /\ Matched
  BY DEF TypeOK, Errors, GapInv, Matched, HealthOnly
<1>2. errorOf(res, reply) \in Errors \cup {NoError}
  BY DEF errorOf, Errors
<1>3. partials' \in Seq(Errors) /\ Leaves' = Leaves \cup ({errorOf(res, reply)} \ {NoError})
  BY <1>1, <1>2, Collected
<1>4. /\ Matched' /\ gaps \subseteq gaps'
      /\ gaps' \subseteq [res : Resources, how : Unanswered]
  BY <1>1, <1>3, AskedAndCollected DEF TypeOK
<1>5. TypeOK'
  BY <1>3, <1>4 DEF TypeOK, HealthOnly, world, inv, result, Errors
<1>6. PhaseInv'
  BY DEF PhaseInv, HealthOnly, result
<1>7. GapInv'
  BY <1>4 DEF GapInv, Matched, HealthOnly, Fresh, Building
<1>8. SliceInv'
  BY <1>4 DEF SliceInv, HealthOnly, Fresh, Building, inv
<1>9. EndInv'
  BY DEF EndInv, CleanMeansSeen, FailureIsExitError, MissedIsSaid, UsageIsCertain,
         PhaseInv, HealthOnly, result, Pending, ExitOK, ExitFindings, ExitUsage, ExitPartial, ExitError
<1> QED
  BY <1>5, <1>6, <1>7, <1>8, <1>9

\* The end of a run in which nothing failed, given that its exit code claims no
\* more than was read and that it names what was not.
LEMMA Ends ==
  ASSUME IInv, pc # "done", Hard \notin Leaves,
         pc' = "done", printed' \in BOOLEAN,
         UNCHANGED <<world, opts, inv, partials, input, found, gaps, concluded>>,
         said' = Leaves \/ (said' = {} /\ opts.table /\ code' # ExitPartial),
         code' \in {ExitOK, ExitFindings, ExitUsage, ExitPartial},
         code' \in {ExitOK, ExitUsage} => partials = <<>>,
         code' = ExitOK => Relevant = {}
  PROVE  IInv'
<1> USE DEF IInv
<1>1. partials \in Seq(Errors) /\ Matched
  BY DEF TypeOK, Errors, GapInv, Matched
<1>2. /\ partials = <<>> => gaps = {}
      /\ \A g \in gaps : g.how = "forbidden" /\ g.res \in Secondary
      /\ Leaves = {g.res : g \in gaps}
  BY <1>1, Settled
<1>3. Leaves' = Leaves /\ Relevant' = Relevant
  BY DEF Leaves, Relevant
<1>4. TypeOK'
  BY <1>2 DEF TypeOK, world, inv, input
<1>5. PhaseInv'
  BY DEF PhaseInv, HealthOnly, input, Pending, ExitOK, ExitFindings, ExitUsage,
     ExitPartial, ExitError
<1>6. GapInv'
  BY <1>3 DEF GapInv, Fresh, Building
<1>7. SliceInv'
  BY DEF SliceInv, Fresh, Building, HealthOnly, inv, input
<1>8. EndInv'
  <2>1. CleanMeansSeen'
    BY <1>2, <1>3 DEF CleanMeansSeen, Pending, ExitOK, ExitFindings, ExitUsage,
       ExitPartial, ExitError
  <2>2. FailureIsExitError'
    BY <1>2 DEF FailureIsExitError, Secondary
  <2>3. MissedIsSaid'
    BY <1>2 DEF MissedIsSaid, Pending, ExitOK, ExitFindings, ExitUsage, ExitPartial,
       ExitError
  <2>4. UsageIsCertain'
    BY <1>2 DEF UsageIsCertain, Pending, ExitOK, ExitFindings, ExitUsage, ExitPartial,
       ExitError
  <2> QED
    BY <2>1, <2>2, <2>3, <2>4 DEF EndInv
<1> QED
  BY <1>4, <1>5, <1>6, <1>7, <1>8

\* One step of the command or the cluster keeps the invariant.
LEMMA Step == IInv /\ [Next]_vars => IInv'
<1> SUFFICES ASSUME IInv, [Next]_vars PROVE IInv'
  OBVIOUS
<1> USE DEF IInv, Memos, world, inv, input, result, Goto, Exit
<1>0. partials \in Seq(Errors)
  BY DEF TypeOK, Errors
<1>L. partials' = partials => Leaves' = Leaves
  BY DEF Leaves
<1>M. pc # "done" => Matched
  BY DEF GapInv, Matched
<1>C. opts.cmd \in {"list", "info", "health"}
  BY DEF TypeOK, Commands
<1>P. /\ ExitOK # Pending /\ ExitFindings # Pending /\ ExitUsage # Pending
      /\ ExitPartial # Pending /\ ExitError # Pending
  BY DEF Pending, ExitOK, ExitFindings, ExitUsage, ExitPartial, ExitError
<1>1. CASE BadUsage \/ NoClient \/ PrintFails \/ runError
  <2>1. TypeOK'
    BY <1>1 DEF TypeOK, BadUsage, NoClient, PrintFails, runError
  <2>2. PhaseInv'
    BY <1>1, <1>P DEF PhaseInv, HealthOnly, BadUsage, NoClient, PrintFails, runError
  <2>3. GapInv'
    BY <1>1, <1>L DEF GapInv, Fresh, Building, BadUsage, NoClient, PrintFails, runError
  <2>4. SliceInv'
    BY <1>1 DEF SliceInv, Fresh, Building, HealthOnly, BadUsage, NoClient, PrintFails,
       runError
  <2>5. EndInv'
    BY <1>1, <1>P DEF EndInv, CleanMeansSeen, Relevant, FailureIsExitError,
       MissedIsSaid, UsageIsCertain, PhaseInv, Pending, ExitOK, ExitFindings, ExitUsage,
       ExitPartial, ExitError, BadUsage, NoClient, PrintFails, runError
  <2> QED
    BY <2>1, <2>2, <2>3, <2>4, <2>5
<1>2. CASE newSource
  <2>1. TypeOK'
    BY <1>2 DEF TypeOK, newSource
  <2>2. PhaseInv'
    BY <1>2, <1>P DEF PhaseInv, HealthOnly, newSource
  <2>3. GapInv'
    BY <1>2, <1>L DEF GapInv, Fresh, Building, newSource
  <2>4. SliceInv'
    BY <1>2 DEF SliceInv, Fresh, Building, HealthOnly, newSource
  <2>5. EndInv'
    BY <1>2, <1>P DEF EndInv, CleanMeansSeen, Relevant, FailureIsExitError,
       MissedIsSaid, UsageIsCertain, PhaseInv, Pending, ExitOK, ExitFindings, ExitUsage,
       ExitPartial, ExitError, newSource
  <2> QED
    BY <2>1, <2>2, <2>3, <2>4, <2>5
<1>3. CASE listNodes
  <2>a. gaps' \subseteq [res : Resources, how : Unanswered]
    BY <1>3 DEF TypeOK, listNodes, Ask, Resources
  <2>b. nodeList' \in [cap : SUBSET Nodes, label : SUBSET Nodes]
    BY <1>3 DEF TypeOK, listNodes, Clusters
  <2>1. TypeOK'
    BY <1>3, <2>a, <2>b DEF TypeOK, listNodes, BuildFails
  <2>2. PhaseInv'
    BY <1>3, <1>P DEF PhaseInv, HealthOnly, listNodes, Ask, BuildFails, Resources,
       Unanswered, Replies, Optional, TypeOK
  <2>3. GapInv'
    BY <1>3, <1>L DEF GapInv, Fresh, Building, listNodes, Ask, BuildFails, Resources,
       Unanswered, Replies, Optional, TypeOK
  <2>4. SliceInv'
    BY <1>3 DEF SliceInv, Fresh, Building, HealthOnly, listNodes, Ask, BuildFails,
       Resources, Unanswered, Replies, Optional, TypeOK
  <2>5. EndInv'
    BY <1>3, <1>P DEF EndInv, CleanMeansSeen, Relevant, FailureIsExitError,
       MissedIsSaid, UsageIsCertain, PhaseInv, Pending, ExitOK, ExitFindings, ExitUsage,
       ExitPartial, ExitError, listNodes, Ask, BuildFails, Resources, Unanswered,
       Replies, Optional, TypeOK
  <2> QED
    BY <2>1, <2>2, <2>3, <2>4, <2>5
<1>4. CASE ClassifyNodes
  <2>a. pc = "classify" /\ memo = NoMemo /\ Matched
    BY <1>4, <1>M DEF ClassifyNodes, SliceInv, Fresh
  <2>b. PICK r \in Returns :
          /\ listResourceSlices(r)
          /\ IF r.err = Hard
               THEN BuildFails /\ UNCHANGED <<gpu, hinted>>
               ELSE /\ gpu' = classifyNodes(r.slices).gpu
                    /\ hinted' = classifyNodes(r.slices).hinted
                    /\ joinPartials(r.err)
                    /\ Goto("slices") /\ UNCHANGED code
    BY <1>4 DEF ClassifyNodes
  <2>c. UNCHANGED <<world, opts, nodeList, sliced, input, found, printed, said, concluded>>
    BY <1>4 DEF ClassifyNodes
  <2>d. r.slices \subseteq Nodes /\ r.err \in {NoError, "resourceslices", Hard}
    BY DEF Returns
  <2>e. ~memo.read /\ memo.slices = {} /\ memo.err = NoError /\ sliced = {} /\ inSlices = {}
    BY <2>a DEF NoMemo, SliceInv
  <2>f. /\ memo' \in Memos
        /\ gaps' \subseteq [res : Resources, how : Unanswered]
        /\ r.err # Hard => memo'.read /\ memo'.slices = r.slices /\ memo'.err = r.err
        /\ r.err = Hard => memo'.slices = {} /\ memo'.err \in {NoError, Hard}
        /\ r.err = "resourceslices" =>
             [res |-> "resourceslices", how |-> "forbidden"] \in gaps'
    BY <2>b, <2>e, SlicesRemembered DEF TypeOK
  <2>f0. gaps \subseteq gaps'
    BY <2>b, SlicesRemembered DEF TypeOK
  <2>g. CASE r.err = Hard
    <3>0. pc' = "done" /\ code' = ExitError /\ UNCHANGED <<partials, gpu, hinted>>
      BY <2>b, <2>g DEF BuildFails
    <3>1. TypeOK'
      BY <2>c, <2>f, <3>0 DEF TypeOK
    <3>2. PhaseInv'
      BY <2>a, <2>c, <3>0, <1>P DEF PhaseInv, HealthOnly
    <3>3. GapInv'
      BY <2>a, <2>b, <2>g, <3>0, <1>L, <2>f0 DEF GapInv, Fresh, Building, Matched
    <3>4. SliceInv'
      BY <2>c, <2>e, <2>f, <2>g, <3>0 DEF SliceInv, Fresh, Building, HealthOnly, Hard,
         NoError
    <3>5. EndInv'
      BY <2>a, <2>c, <3>0, <1>P DEF EndInv, CleanMeansSeen, Relevant,
         FailureIsExitError, MissedIsSaid, UsageIsCertain, PhaseInv, Pending, ExitOK,
         ExitFindings, ExitUsage, ExitPartial, ExitError
    <3> QED
      BY <3>1, <3>2, <3>3, <3>4, <3>5
  <2>h. CASE r.err # Hard
    <3>0. /\ pc' = "slices" /\ UNCHANGED code
          /\ gpu' = classifyNodes(r.slices).gpu /\ hinted' = classifyNodes(r.slices).hinted
      BY <2>b, <2>h DEF Goto
    <3>a. r.err \in Errors \cup {NoError}
      BY <2>d DEF Errors, Secondary
    <3>b. /\ partials' \in Seq(Errors)
          /\ Leaves' = Leaves \cup ({r.err} \ {NoError})
      BY <2>b, <2>h, <3>a, <1>0, Collected
    <3>c. Matched'
      BY <2>a, <2>b, <2>e, <3>b, SlicesAndCollected DEF TypeOK
    <3>d. /\ gpu' \subseteq Nodes /\ hinted' \subseteq Nodes
          /\ r.slices \subseteq gpu' /\ hinted' \cap r.slices = {}
      BY <2>d, <3>0 DEF classifyNodes, isGPUNode, TypeOK
    <3>1. TypeOK'
      BY <2>c, <2>f, <3>0, <3>b, <3>d DEF TypeOK, Errors
    <3>2. PhaseInv'
      BY <2>a, <2>c, <3>0 DEF PhaseInv, HealthOnly
    <3>3. GapInv'
      BY <2>a, <2>h, <3>0, <3>b, <3>c DEF GapInv, Fresh, Building, Matched
    <3>4. SliceInv'
      BY <2>c, <2>e, <2>f, <2>h, <3>0, <3>d DEF SliceInv, Fresh, Building, HealthOnly
    <3>5. EndInv'
      BY <2>a, <2>c, <3>0 DEF EndInv, CleanMeansSeen, Relevant, FailureIsExitError,
         MissedIsSaid, UsageIsCertain, PhaseInv, Pending, ExitOK, ExitFindings,
         ExitUsage, ExitPartial, ExitError
    <3> QED
      BY <3>1, <3>2, <3>3, <3>4, <3>5
  <2> QED
    BY <2>g, <2>h
<1>5. CASE buildSlices
  <2>a. pc = "slices" /\ memo.read /\ memo.err # Hard /\ Matched
    BY <1>5, <1>M DEF buildSlices, SliceInv, Building, HealthOnly
  <2>b. PICK r \in Returns :
          /\ listResourceSlices(r)
          /\ IF r.err = Hard
               THEN BuildFails /\ UNCHANGED sliced
               ELSE /\ sliced' = r.slices
                    /\ joinPartials(r.err)
                    /\ Goto(IF opts.noPods THEN "build" ELSE "pods") /\ UNCHANGED code
    BY <1>5 DEF buildSlices
  <2>c. UNCHANGED <<world, opts, nodeList, gpu, hinted, input, found, printed, said, concluded>>
    BY <1>5 DEF buildSlices
  <2>d. memo' = memo /\ gaps' = gaps /\ r.slices = memo.slices /\ r.err = memo.err
    BY <2>a, <2>b DEF listResourceSlices
  <2>e. pc' \in {"build", "pods"} /\ UNCHANGED code /\ sliced' = memo.slices /\ joinPartials(r.err)
    BY <2>a, <2>b, <2>d DEF Goto
  <2>f. r.err \in Errors \cup {NoError}
    BY <2>d DEF TypeOK, Errors, Secondary
  <2>g. /\ partials' \in Seq(Errors)
        /\ Leaves' = Leaves \cup ({r.err} \ {NoError})
    BY <2>e, <2>f, <1>0, Collected
  <2>h. Matched'
    BY <2>a, <2>b, <2>g, SlicesAndCollected DEF TypeOK
  <2>1. TypeOK'
    BY <2>c, <2>d, <2>e, <2>g DEF TypeOK, Errors
  <2>2. PhaseInv'
    BY <2>a, <2>c, <2>e DEF PhaseInv, HealthOnly
  <2>3. GapInv'
    BY <2>a, <2>d, <2>e, <2>g, <2>h DEF GapInv, Fresh, Building, Matched
  <2>4. SliceInv'
    BY <2>a, <2>c, <2>d, <2>e DEF SliceInv, Fresh, Building, HealthOnly
  <2>5. EndInv'
    BY <2>a, <2>c, <2>d, <2>e DEF EndInv, CleanMeansSeen, Relevant, FailureIsExitError,
       MissedIsSaid, UsageIsCertain, PhaseInv, Pending, ExitOK, ExitFindings, ExitUsage,
       ExitPartial, ExitError
  <2> QED
    BY <2>1, <2>2, <2>3, <2>4, <2>5
<1>6. CASE buildPods
  <2>a. pc = "pods" /\ Matched
    BY <1>6, <1>M DEF buildPods
  <2>b. PICK reply \in Replies("pods") :
          /\ Ask("pods", reply)
          /\ IF errorOf("pods", reply) = Hard
               THEN BuildFails
               ELSE joinPartials(errorOf("pods", reply)) /\ Goto("build") /\ UNCHANGED code
    BY <1>6 DEF buildPods
  <2>c. UNCHANGED <<world, opts, inv, input, found, printed, said, concluded>>
    BY <1>6 DEF buildPods
  <2>d. gaps' \subseteq [res : Resources, how : Unanswered] /\ gaps \subseteq gaps'
    BY <2>b DEF Ask, TypeOK, Resources, Secondary
  <2>e. CASE errorOf("pods", reply) = Hard
    <3>0. pc' = "done" /\ code' = ExitError /\ UNCHANGED partials
      BY <2>b, <2>e DEF BuildFails
    <3>1. TypeOK'
      BY <2>c, <2>d, <3>0 DEF TypeOK
    <3>2. PhaseInv'
      BY <2>a, <2>c, <3>0, <1>P DEF PhaseInv, HealthOnly
    <3>3. GapInv'
      BY <2>a, <2>d, <3>0, <1>L DEF GapInv, Fresh, Building
    <3>4. SliceInv'
      BY <2>a, <2>c, <2>d, <3>0 DEF SliceInv, Fresh, Building, HealthOnly
    <3>5. EndInv'
      BY <2>a, <2>c, <3>0, <1>P DEF EndInv, CleanMeansSeen, Relevant,
         FailureIsExitError, MissedIsSaid, UsageIsCertain, PhaseInv, Pending, ExitOK,
         ExitFindings, ExitUsage, ExitPartial, ExitError
    <3> QED
      BY <3>1, <3>2, <3>3, <3>4, <3>5
  <2>f. CASE errorOf("pods", reply) # Hard
    <3>0. pc' = "build" /\ UNCHANGED code /\ joinPartials(errorOf("pods", reply))
      BY <2>b, <2>f DEF Goto
    <3>a. errorOf("pods", reply) \in Errors \cup {NoError}
      BY DEF errorOf, Errors, Secondary
    <3>b. /\ partials' \in Seq(Errors)
          /\ Leaves' = Leaves \cup ({errorOf("pods", reply)} \ {NoError})
      BY <3>0, <3>a, <1>0, Collected
    <3>c. Matched'
      BY <2>a, <2>b, <3>b, AskedAndCollected, "pods" \in Secondary DEF TypeOK, Secondary
    <3>1. TypeOK'
      BY <2>c, <2>d, <3>0, <3>b DEF TypeOK, Errors
    <3>2. PhaseInv'
      BY <2>a, <2>c, <3>0 DEF PhaseInv, HealthOnly
    <3>3. GapInv'
      BY <2>a, <2>f, <3>0, <3>b, <3>c DEF GapInv, Fresh, Building, Matched
    <3>4. SliceInv'
      BY <2>a, <2>c, <2>d, <3>0 DEF SliceInv, Fresh, Building, HealthOnly
    <3>5. EndInv'
      BY <2>a, <2>c, <3>0 DEF EndInv, CleanMeansSeen, Relevant, FailureIsExitError,
         MissedIsSaid, UsageIsCertain, PhaseInv, Pending, ExitOK, ExitFindings,
         ExitUsage, ExitPartial, ExitError
    <3> QED
      BY <3>1, <3>2, <3>3, <3>4, <3>5
  <2> QED
    BY <2>e, <2>f
<1>7. CASE BuildWithHinted
  <2>a. gpu' \subseteq gpu /\ hinted' \subseteq hinted /\ (opts.cmd = "health" => gpu' = gpu)
    BY <1>7 DEF BuildWithHinted, filterNodes
  <2>b. pc' \in {"list", "info", "policies"} /\ (pc' = "policies" => opts.cmd = "health")
    BY <1>7, <1>C DEF BuildWithHinted
  <2>1. TypeOK'
    BY <1>7, <2>a, <2>b DEF TypeOK, BuildWithHinted
  <2>2. PhaseInv'
    BY <1>7, <2>b, <1>P DEF PhaseInv, HealthOnly, BuildWithHinted
  <2>3. GapInv'
    BY <1>7, <2>b, <1>L DEF GapInv, Fresh, Building, BuildWithHinted
  <2>4. SliceInv'
    BY <1>7, <2>a, <2>b DEF SliceInv, Fresh, Building, HealthOnly, BuildWithHinted
  <2>5. EndInv'
    BY <1>7, <2>b, <1>P DEF EndInv, CleanMeansSeen, Relevant, FailureIsExitError,
       MissedIsSaid, UsageIsCertain, PhaseInv, Pending, ExitOK, ExitFindings, ExitUsage,
       ExitPartial, ExitError, BuildWithHinted
  <2> QED
    BY <2>1, <2>2, <2>3, <2>4, <2>5
<1>8. CASE list
  <2>1. Hard \notin Leaves /\ (partials # <<>> => Leaves \cap Secondary # {})
    BY <1>8, <1>0, <1>M, Settled DEF GapInv, list, collectPartial
  <2>2. Relevant = {}
    BY <1>8 DEF Relevant, PhaseInv, list
  <2> QED
    BY <1>8, <2>1, <2>2, Ends DEF list, ExitCodeFor, TypeOK, Pending, ExitOK,
       ExitFindings, ExitUsage, ExitPartial, ExitError
<1>9. CASE info
  <2>1. Hard \notin Leaves /\ (partials # <<>> => Leaves \cap Secondary # {})
    BY <1>9, <1>0, <1>M, Settled DEF GapInv, info
  <2>2. Relevant = {}
    BY <1>9 DEF Relevant, PhaseInv, info
  <2>3. /\ code' \in {ExitOK, ExitUsage, ExitPartial}
        /\ code' \in {ExitOK, ExitUsage} => partials = <<>>
    BY <1>9, <2>1 DEF info, ExitCodeFor, notFound, Pending, ExitOK, ExitFindings,
       ExitUsage, ExitPartial, ExitError
  <2>4. printed' \in BOOLEAN /\ said' = Leaves /\ pc = "info" /\ pc' = "done"
    BY <1>9 DEF info
  <2> QED
    BY <1>9, <2>1, <2>2, <2>3, <2>4, Ends DEF info
<1>10. CASE nodesCheckedNone
  <2>1. Hard \notin Leaves /\ (partials # <<>> => Leaves \cap Secondary # {})
    BY <1>10, <1>0, <1>M, Settled DEF GapInv, nodesCheckedNone, collectPartial
  <2>2. Relevant = {}
    BY <1>10 DEF Relevant, PhaseInv, nodesCheckedNone
  <2> QED
    BY <1>10, <2>1, <2>2, Ends DEF nodesCheckedNone, notFound, TypeOK, Pending, ExitOK,
       ExitFindings, ExitUsage, ExitPartial, ExitError
<1>11. CASE print
  <2>1. Hard \notin Leaves /\ (partials # <<>> => Leaves \cap Secondary # {})
    BY <1>11, <1>0, <1>M, Settled DEF GapInv, print, collectPartial
  <2>2. code' = ExitOK => Relevant = {}
    BY <1>11 DEF Relevant, PhaseInv, print, ExitCode, keep, ExitOK, ExitPartial,
       ExitFindings
  <2> QED
    BY <1>11, <2>1, <2>2, Ends DEF print, ExitCode, TypeOK, Pending, ExitOK,
       ExitFindings, ExitUsage, ExitPartial, ExitError
<1>12. CASE ClusterPolicies
  <2>1. PICK reply \in Replies("clusterpolicies") :
          Ask("clusterpolicies", reply) /\ collect(errorOf("clusterpolicies", reply))
    BY <1>12 DEF ClusterPolicies
  <2> QED
    BY <1>12, <2>1, InputRead, "clusterpolicies" \in Secondary DEF ClusterPolicies,
       TypeOK, HealthOnly, Secondary
<1>13. CASE OperatorPods
  <2>1. PICK reply \in Replies("pods") :
          Ask("pods", reply) /\ collect(errorOf("pods", reply))
    BY <1>13 DEF OperatorPods
  <2> QED
    BY <1>13, <2>1, InputRead, "pods" \in Secondary DEF OperatorPods, TypeOK,
       HealthOnly, Secondary
<1>14. CASE NodeEvents
  <2>1. PICK reply \in Replies("events") :
          Ask("events", reply) /\ collect(errorOf("events", reply))
    BY <1>14 DEF NodeEvents
  <2> QED
    BY <1>14, <2>1, InputRead, "events" \in Secondary DEF NodeEvents, TypeOK,
       HealthOnly, Secondary
<1>15. CASE servesComputeDomains
  <2>1. PICK reply \in Replies("computedomains") :
          Ask("computedomains", reply) /\ collect(errorOf("computedomains", reply))
    BY <1>15 DEF servesComputeDomains
  <2> QED
    BY <1>15, <2>1, InputRead, "computedomains" \in Secondary DEF servesComputeDomains,
       TypeOK, HealthOnly, Secondary
<1>16. CASE ComputeDomains
  <2>1. PICK reply \in Replies("computedomains") :
          Ask("computedomains", reply) /\ collect(errorOf("computedomains", reply))
    BY <1>16 DEF ComputeDomains
  <2> QED
    BY <1>16, <2>1, InputRead, "computedomains" \in Secondary DEF ComputeDomains,
       TypeOK, HealthOnly, Secondary
<1>17. CASE ResourceSlices
  <2>a. pc = "input" /\ memo.read /\ memo.err # Hard /\ Matched
    BY <1>17, <1>M DEF ResourceSlices, SliceInv, Building, HealthOnly
  <2>b. PICK r \in Returns :
          /\ listResourceSlices(r)
          /\ collect(r.err)
          /\ inSlices' = IF r.err = NoError THEN r.slices ELSE inSlices
    BY <1>17 DEF ResourceSlices
  <2>c. pc' = "operator" /\ UNCHANGED <<world, opts, nodeList, gpu, hinted, sliced, version, result, concluded>>
    BY <1>17 DEF ResourceSlices
  <2>d. memo' = memo /\ gaps' = gaps /\ r.slices = memo.slices /\ r.err = memo.err
    BY <2>a, <2>b DEF listResourceSlices
  <2>f. r.err \in Errors \cup {NoError}
    BY <2>d DEF TypeOK, Errors, Secondary
  <2>g. /\ partials' \in Seq(Errors)
        /\ Leaves' = Leaves \cup ({r.err} \ {NoError})
    BY <2>b, <2>f, <1>0, Collected
  <2>h. Matched'
    BY <2>a, <2>b, <2>g, SlicesAndCollected DEF TypeOK
  <2>1. TypeOK'
    BY <2>a, <2>b, <2>c, <2>d, <2>g DEF TypeOK, Errors
  <2>2. PhaseInv'
    BY <2>a, <2>c DEF PhaseInv, HealthOnly
  <2>3. GapInv'
    BY <2>a, <2>c, <2>h DEF GapInv, Fresh, Building, Matched
  <2>4. SliceInv'
    BY <2>a, <2>b, <2>c, <2>d DEF SliceInv, Fresh, Building, HealthOnly
  <2>5. EndInv'
    BY <2>a, <2>c, <2>d DEF EndInv, CleanMeansSeen, Relevant, FailureIsExitError,
       MissedIsSaid, UsageIsCertain, PhaseInv, Pending, ExitOK, ExitFindings, ExitUsage,
       ExitPartial, ExitError
  <2> QED
    BY <2>1, <2>2, <2>3, <2>4, <2>5
<1>18. CASE Run
  <2>1. TypeOK'
    BY <1>18 DEF TypeOK, Run, Evaluations, keep, collectPartial, HealthOnly, Fresh,
       Building
  <2>2. PhaseInv'
    BY <1>18, <1>P DEF PhaseInv, HealthOnly, Run, Evaluations, keep, collectPartial,
       HealthOnly, Fresh, Building
  <2>3. GapInv'
    BY <1>18, <1>L DEF GapInv, Fresh, Building, Run, Evaluations, keep, collectPartial,
       HealthOnly, Fresh, Building
  <2>4. SliceInv'
    BY <1>18 DEF SliceInv, Fresh, Building, HealthOnly, Run, Evaluations, keep,
       collectPartial, HealthOnly, Fresh, Building
  <2>5. EndInv'
    BY <1>18, <1>P DEF EndInv, CleanMeansSeen, Relevant, FailureIsExitError,
       MissedIsSaid, UsageIsCertain, PhaseInv, Pending, ExitOK, ExitFindings, ExitUsage,
       ExitPartial, ExitError, Run, Evaluations, keep, collectPartial, HealthOnly,
       Fresh, Building
  <2> QED
    BY <2>1, <2>2, <2>3, <2>4, <2>5
<1>19. CASE Churn
  <2>a. cluster' \in Clusters
    BY <1>19 DEF TypeOK, Churn, Clusters
  <2>b. churn' \in 0..MaxChurn
    BY <1>19, BoundsAssumption DEF TypeOK, Churn
  <2>1. TypeOK'
    BY <1>19, <2>a, <2>b DEF TypeOK, Churn
  <2>2. PhaseInv'
    BY <1>19, <1>P DEF PhaseInv, HealthOnly, Churn
  <2>3. GapInv'
    BY <1>19, <1>L DEF GapInv, Fresh, Building, Churn
  <2>4. SliceInv'
    BY <1>19 DEF SliceInv, Fresh, Building, HealthOnly, Churn
  <2>5. EndInv'
    BY <1>19, <1>P DEF EndInv, CleanMeansSeen, Relevant, FailureIsExitError,
       MissedIsSaid, UsageIsCertain, PhaseInv, Pending, ExitOK, ExitFindings, ExitUsage,
       ExitPartial, ExitError, Churn
  <2> QED
    BY <2>1, <2>2, <2>3, <2>4, <2>5
<1>20. CASE UNCHANGED vars
  <2>1. TypeOK'
    BY <1>20 DEF TypeOK, vars
  <2>2. PhaseInv'
    BY <1>20 DEF PhaseInv, HealthOnly, vars, keep
  <2>3. GapInv'
    BY <1>20, <1>L DEF GapInv, Fresh, Building, vars
  <2>4. SliceInv'
    BY <1>20 DEF SliceInv, Fresh, Building, HealthOnly, vars
  <2>5. EndInv'
    BY <1>20 DEF EndInv, CleanMeansSeen, Relevant, FailureIsExitError, MissedIsSaid,
       UsageIsCertain, vars
  <2> QED
    BY <2>1, <2>2, <2>3, <2>4, <2>5
<1> QED
  BY <1>1, <1>2, <1>3, <1>4, <1>5, <1>6, <1>7, <1>8, <1>9, <1>10, <1>11, <1>12, <1>13,
     <1>14, <1>15, <1>16, <1>17, <1>18, <1>19, <1>20 DEF Next, Command

\* The invariant holds of every behaviour.
LEMMA Invariant == Spec => []IInv
<1>1. Init => IInv
  <2> SUFFICES ASSUME Init PROVE IInv
    OBVIOUS
  <2>1. Leaves = {}
    BY DEF Init, Leaves
  <2>2. TypeOK
    <3>1. churn \in 0..MaxChurn
      BY BoundsAssumption DEF Init
    <3>2. memo \in Memos
      BY DEF Init, NoMemo, Memos
    <3>3. nodeList \in [cap : SUBSET Nodes, label : SUBSET Nodes]
      BY DEF Init, NoList
    <3>4. partials \in Seq(Secondary \cup {Hard})
      BY DEF Init
    <3> QED
      BY <3>1, <3>2, <3>3, <3>4 DEF Init, TypeOK
  <2>3. PhaseInv
    BY DEF Init, PhaseInv, HealthOnly, Pending
  <2>4. GapInv
    BY <2>1 DEF Init, GapInv, Fresh, Building
  <2>5. SliceInv
    BY DEF Init, SliceInv, Fresh, Building, HealthOnly, NoMemo, NoError
  <2>6. EndInv
    BY DEF Init, EndInv, CleanMeansSeen, Relevant, FailureIsExitError, MissedIsSaid,
       UsageIsCertain, Pending, ExitOK, ExitFindings, ExitUsage, ExitPartial, ExitError
  <2> QED
    BY <2>2, <2>3, <2>4, <2>5, <2>6 DEF IInv
<1> QED
  BY <1>1, Step, PTL DEF Spec

-----------------------------------------------------------------------------
(* The theorems. *)

\* Every variable keeps its type, for every cluster and every set of rules.
THEOREM ReadTypeCorrect == Spec => []TypeOK
BY Invariant, PTL DEF IInv

\* Exit 0 is said only after every request was answered and no rule that
\* concerns what was asked for found anything at or above --fail-on.
THEOREM CleanIsSeen == Spec => []CleanMeansSeen
BY Invariant, PTL DEF IInv, EndInv

\* A request that failed is never reported as a partial or a clean run.
THEOREM FailureIsNotPartial == Spec => []FailureIsExitError
BY Invariant, PTL DEF IInv, EndInv

\* A partial run names every resource it was refused, and no other.
THEOREM MissedIsNamed == Spec => []MissedIsSaid
BY Invariant, PTL DEF IInv, EndInv

\* A node name is called wrong only when every request was answered.
THEOREM UsageIsKnown == Spec => []UsageIsCertain
BY Invariant, PTL DEF IInv, EndInv

\* Whatever is published during a run, its nodes and its slices are of one list.
THEOREM SlicesAreOneList == Spec => []OneMoment
<1>1. IInv => OneMoment
  BY DEF IInv, PhaseInv, SliceInv, OneMoment
<1> QED
  BY <1>1, Invariant, PTL
=============================================================================
