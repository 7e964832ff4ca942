---------------------------- MODULE TopologyProofs ----------------------------
(***************************************************************************)
(* What the exit code of "kubectl nv topology" tells, for every cluster,   *)
(* every job and every order in which its reads are answered, refused or   *)
(* fail.  The invariant says where a refusal is held on its way to the     *)
(* exit code: among the inventory's errors until inventory.Build returns,  *)
(* and among the run's from then on.                                       *)
(***************************************************************************)
EXTENDS Topology, FiniteSetTheorems, SequenceTheorems, TLAPS

\* The reads of inventory.Build, and what comes after it.
Building == {"start", "nodes", "slices", "pods"}
Reporting == {"topologies", "resourceflavors", "job", "print"}

\* The resources inventory.Build reads, and the errors the run may hold.
Read == {"resourceslices", "pods"}
Errors == {joinPartials(i) : i \in Seq(Read)} \cup {<<r>> : r \in Reporting \cup {"jobs"}}

\* Until the run is done it has neither printed nor exited.
RunInv ==
  /\ pc \in Building \cup Reporting \cup {"done"}
  /\ failed \in BOOLEAN
  /\ pc # "done" => exit = -1 /\ ~failed /\ report = NoReport

\* A refusal is among the errors of the inventory, and then of the run.
RefusalInv ==
  /\ inventory \in Seq(Read)
  /\ partial \in Seq(Errors)
  /\ pc \in Building => partial = <<>> /\ (inventory = <<>> <=> gaps = {})
  /\ pc \in Reporting => (partial = <<>> <=> gaps = {})

IInv == RunInv /\ RefusalInv /\ ExitTells

-----------------------------------------------------------------------------
\* What is joined names something when anything does (joinPartials returns nil
\* for no errors only).
LEMMA JoinNames ==
  ASSUME NEW partials \in Seq(Read)
  PROVE  joinPartials(partials) = <<>> <=> partials = <<>>
<1> DEFINE first == {i \in DOMAIN partials : \A k \in 1 .. (i - 1) : partials[k] # partials[i]}
<1>1. first \subseteq 1 .. Len(partials) /\ Len(partials) \in Nat
  OBVIOUS
<1>2. IsFiniteSet(first) /\ Cardinality(first) \in Nat
  <2>1. IsFiniteSet(1 .. Len(partials))
    BY <1>1, FS_Interval
  <2> QED
    BY <1>1, <2>1, FS_Subset, FS_CardinalityType
<1>3. partials # <<>> => 1 \in first
  OBVIOUS
<1>4. partials = <<>> => first = {}
  OBVIOUS
<1>5. Cardinality(first) = 0 <=> first = {}
  BY <1>2, FS_EmptySet
<1>6. DOMAIN joinPartials(partials) = 1 .. Cardinality(first)
  BY DEF joinPartials
<1>7. joinPartials(partials) = <<>> => Cardinality(first) = 0
  <2> HIDE DEF first
  <2> QED
    BY <1>2, <1>6
<1>8. Cardinality(first) = 0 => joinPartials(partials) = <<>>
  <2> SUFFICES ASSUME Cardinality(first) = 0
               PROVE  joinPartials(partials) = <<>>
    OBVIOUS
  <2> DEFINE nth(k) == CHOOSE i \in first : Cardinality({j \in first : j <= i}) = k
  <2>1. joinPartials(partials) = [k \in 1 .. Cardinality(first) |-> partials[nth(k)]]
    BY DEF joinPartials
  <2>2. joinPartials(partials) = [k \in 1 .. 0 |-> partials[nth(k)]]
    BY <2>1
  <2> HIDE DEF first, nth
  <2> QED
    BY <2>2
<1> QED
  BY <1>3, <1>4, <1>5, <1>7, <1>8

\* An error that is collected stays, and what is not one leaves no trace
\* (passPartial).
LEMMA CollectKeeps ==
  ASSUME partial \in Seq(Errors), NEW e \in Errors \cup {<<>>}
  PROVE  /\ Collect(e) \in Seq(Errors)
         /\ Collect(e) = <<>> <=> partial = <<>> /\ e = <<>>
<1>1. CASE e = <<>>
  BY <1>1 DEF Collect
<1>2. CASE e # <<>>
  <2>1. e \in Errors
    BY <1>2
  <2>2. Append(partial, e) \in Seq(Errors) /\ Append(partial, e) # <<>>
    BY <2>1, AppendProperties
  <2> QED
    BY <1>2, <2>2 DEF Collect
<1> QED
  BY <1>1, <1>2

\* The first state has nothing refused and nothing printed.
LEMMA InitIsGood ==
  ASSUME Init
  PROVE  IInv
<1>1. /\ pc = "start" /\ exit = -1 /\ failed = FALSE /\ report = NoReport
      /\ inventory = <<>> /\ partial = <<>> /\ gaps = {}
  BY DEF Init
<1>2. <<>> \in Seq(Read) /\ <<>> \in Seq(Errors)
  OBVIOUS
<1> QED
  BY <1>1, <1>2 DEF IInv, RunInv, RefusalInv, ExitTells, Building, Reporting

\* The steps that neither end the run nor collect an error.
LEMMA ClusterKeeps ==
  ASSUME IInv, UNCHANGED <<pc, inventory, partial, report, exit, gaps, failed>>
  PROVE  IInv'
BY DEF IInv, RunInv, RefusalInv, ExitTells, Printed

\* Every step keeps the invariant: a read that fails ends the run with 4, a
\* refusal is collected, and the report is printed with the code of what was.
LEMMA StepKeeps ==
  ASSUME IInv, [Next]_vars
  PROVE  IInv'
<1> USE DEF Goto, Exit, Answered, Refused, history, cluster
<1>1. CASE \/ \E p \in Pods : End(p) \/ \E n \in Nodes : Bind(p, n)
           \/ \E n \in Nodes : NodeChanges(n)
           \/ Done \/ UNCHANGED vars
  BY <1>1, ClusterKeeps DEF End, Bind, NodeChanges, Change, Done, vars
<1>2. ASSUME NEW at, Fails(at), pc # "done"
      PROVE  IInv'
  BY <1>2 DEF Fails, IInv, RunInv, RefusalInv, ExitTells, Printed, Building, Reporting,
              ExitError, ExitUsage
<1>3. CASE Validate
  BY <1>3 DEF Validate, IInv, RunInv, RefusalInv, ExitTells, Printed, Building, Reporting,
              ExitError, ExitUsage
<1>4. CASE ListNodes
  <2>1. /\ pc = "nodes" /\ pc' = "slices"
        /\ UNCHANGED <<inventory, partial, report, exit, gaps, failed>>
    BY <1>4 DEF ListNodes
  <2> QED
    BY <2>1 DEF IInv, RunInv, RefusalInv, ExitTells, Building, Reporting
<1>5. CASE ReadSlices
  <2>1. /\ pc = "slices" /\ pc' = "pods"
        /\ UNCHANGED <<partial, report, exit, failed>>
        /\ \/ UNCHANGED <<gaps, inventory>>
           \/ /\ gaps' = gaps \cup {"resourceslices"}
              /\ inventory' = <<"resourceslices", "resourceslices">>
    BY <1>5 DEF ReadSlices
  <2>2. /\ <<"resourceslices", "resourceslices">> \in Seq(Read)
        /\ <<"resourceslices", "resourceslices">> # << >>
    BY DEF Read
  <2> QED
    BY <2>1, <2>2 DEF IInv, RunInv, RefusalInv, ExitTells, Building, Reporting
<1>6. CASE ListPods
  <2>1. /\ pc = "pods" /\ pc' = "topologies"
        /\ UNCHANGED <<report, exit, failed>>
        /\ \/ UNCHANGED <<gaps, inventory>>
           \/ gaps' = gaps \cup {"pods"} /\ inventory' = Append(inventory, "pods")
        /\ partial' = Collect(joinPartials(inventory'))
    BY <1>6 DEF ListPods
  <2>2. inventory' \in Seq(Read) /\ (inventory' = <<>> <=> gaps' = {}) /\ partial = <<>>
    BY <2>1 DEF IInv, RefusalInv, Building, Read
  <2>3. PICK i \in Seq(Read) : i = inventory'
    BY <2>2
  <2>4. PICK e \in Errors : e = joinPartials(i)
    BY DEF Errors
  <2>5. partial' \in Seq(Errors) /\ (partial' = <<>> <=> e = <<>>)
    BY <2>1, <2>2, <2>3, <2>4, CollectKeeps DEF IInv, RefusalInv
  <2>6. partial' = <<>> <=> gaps' = {}
    BY <2>2, <2>3, <2>4, <2>5, JoinNames
  <2> QED
    BY <2>1, <2>2, <2>5, <2>6 DEF IInv, RunInv, RefusalInv, ExitTells, Building, Reporting
<1>7. ASSUME NEW resource \in {"topologies", "resourceflavors"}, listKueue(resource)
      PROVE  IInv'
  <2>1. /\ pc = resource /\ pc' \in Reporting
        /\ UNCHANGED <<inventory, report, exit, failed>>
        /\ \/ gaps' = gaps /\ (partial' = partial \/ partial' = Collect(<<>>))
           \/ gaps' = gaps \cup {resource} /\ partial' = Collect(<<resource>>)
    BY <1>7 DEF listKueue, NoKueue, KueueRead, Reporting
  <2>2. <<resource>> \in Errors
    BY DEF Errors, Reporting
  <2>3. partial \in Seq(Errors) /\ (partial = <<>> <=> gaps = {})
    BY <2>1 DEF IInv, RefusalInv, Reporting
  <2>4. /\ Collect(<<>>) \in Seq(Errors) /\ Collect(<<resource>>) \in Seq(Errors)
        /\ Collect(<<>>) = <<>> <=> partial = <<>>
        /\ Collect(<<resource>>) # <<>>
    <3>1. <<resource>> # << >>
      OBVIOUS
    <3> QED
      BY <2>2, <2>3, <3>1, CollectKeeps
  <2>5. partial' \in Seq(Errors) /\ (partial' = <<>> <=> gaps' = {})
    BY <2>1, <2>3, <2>4
  <2> QED
    BY <2>1, <2>5 DEF IInv, RunInv, RefusalInv, ExitTells, Building, Reporting
<1>8. CASE answerForJob
  <2>1. /\ pc = "job" /\ UNCHANGED <<inventory, report, failed>>
        /\ \/ pc' = "print" /\ UNCHANGED <<exit, gaps, partial>>
           \/ pc' = "done" /\ exit' = ExitUsage /\ UNCHANGED <<gaps, partial>>
           \/ /\ pc' = "print" /\ exit' = exit
              /\ gaps' = gaps \cup {"jobs"} /\ partial' = Collect(<<"jobs">>)
    BY <1>8 DEF answerForJob
  <2>2. <<"jobs">> \in Errors /\ <<"jobs">> # << >>
    BY DEF Errors
  <2>3. Collect(<<"jobs">>) \in Seq(Errors) /\ Collect(<<"jobs">>) # <<>>
    BY <2>2, CollectKeeps DEF IInv, RefusalInv
  <2> QED
    BY <2>1, <2>3 DEF IInv, RunInv, RefusalInv, ExitTells, Printed, Building, Reporting,
                      ExitUsage, ExitError
<1>9. CASE printReport
  <2>1. /\ pc = "print" /\ pc' = "done" /\ UNCHANGED <<inventory, partial, failed, gaps>>
        /\ exit' = IF partial = <<>> THEN ExitOK ELSE ExitPartial
        /\ "fit" \in DOMAIN report'
    BY <1>9 DEF printReport
  <2>2. report' # NoReport
    BY <2>1 DEF NoReport
  <2> QED
    BY <2>1, <2>2 DEF IInv, RunInv, RefusalInv, ExitTells, Printed, Building, Reporting,
                      ExitOK, ExitPartial, ExitError
<1> QED
  <2>1. \A at \in {"nodes", "slices", "pods", "topologies", "resourceflavors", "job", "print"} :
          Fails(at) => pc # "done"
    BY DEF Fails
  <2> QED
    BY <1>1, <1>2, <1>3, <1>4, <1>5, <1>6, <1>7, <1>8, <1>9, <2>1 DEF Next

\* The exit code is what the reads came to, for every cluster and job and in
\* whatever order they were refused, not served or failed (joinPartials,
\* passPartial, topology's run).
THEOREM ExitIsTold == Spec => []ExitTells
<1>1. Init => IInv
  BY InitIsGood
<1>2. IInv /\ [Next]_vars => IInv'
  BY StepKeeps
<1>3. IInv => ExitTells
  BY DEF IInv
<1> QED
  BY <1>1, <1>2, <1>3, PTL DEF Spec

=============================================================================
