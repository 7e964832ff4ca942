--------------------------- MODULE CollectorsProofs ---------------------------
(***************************************************************************)
(* Proofs about Collectors, for every registry, every set of pods and      *)
(* every bound.  A gather of these collectors is a gather of GatherRun:    *)
(* each step of theirs is one GatherRun allows, although nothing in them   *)
(* checks that a name is free.  That is the argument of FilesInv: a file   *)
(* that is touched belongs to a collector that has run, the files a        *)
(* collector plans to write are its own and differ, and the exec           *)
(* collectors' ledger has every name they used.  The theorems of           *)
(* GatherRunProofs then hold of this gather, and what the collectors say   *)
(* in the bundle is proved on top of them.                                 *)
(***************************************************************************)
EXTENDS Collectors, FiniteSetTheorems, SequenceTheorems, TLAPS

P == INSTANCE GatherRunProofs WITH
  N <- N, Files <- AllFiles,
  LogFile <- <<"must-gather.log">>, ErrLogFile <- <<"must-gather.stderr.log">>,
  Markers <- MarkerFiles, Copied <- ReportFiles, Guarded <- LogFiles \cup UsageFiles,
  Stuck <- {}

-----------------------------------------------------------------------------
(* Definitions. *)

Plain == {"file", "log", "descr"}
Hows == Plain \cup {"marker", "copying", "usage"} \cup Execs

\* The first part of the names a collector writes under.
PodKinds == {"log", "previous", "descr"}
Kinds(c) ==
  IF c = "pod-logs" THEN {"log", "previous"}
  ELSE IF c = "pod-descriptions" THEN {"descr"}
  ELSE {c} \ PodKinds

\* The gaps a collector can hear.
Heard == Questions \X Gaps

Me == Registry[at]
Busy == ph \in {"work", "made"}

JobSet ==
  [how : Hows, file : AllFiles \cup {<<c>> : c \in Execs},
   pod : Pods \cup AllFiles \cup Marked \cup {"daemonset"}]

\* A job of collector c.
Mine(c, j) ==
  /\ j.how \in Plain => /\ j.file \in AllFiles \ (MarkerFiles \cup ReportFiles)
                        /\ j.file[1] \in Kinds(c)
                        /\ c \notin Execs
  /\ j.how = "marker" => j.file \in MarkerFiles /\ j.file[1] \in Kinds(c) /\ c \notin Execs
  /\ j.how \in Execs => c = j.how /\ j.pod \in DriverPods
  /\ j.how = "copying" => c = "bug-report" /\ j.file \in ReportFiles
  /\ j.how = "usage" => c = "device-usage" /\ j.file \in UsageFiles

\* A job about a pod, or of the pod list, is of the list that was prepared.
Prepared(g, j) ==
  /\ j.file = <<"operand-pods", "yaml">> => g.prepared
  /\ \A k \in PodKinds : \A p \in Pods :
       j.file = <<k, p>> => g.prepared /\ p \in g.operand \cup g.operator

Apart(j, k) ==
  IF j.how \in Plain \cup {"marker"} THEN j.file # k.file ELSE j.pod # k.pod

\* What collector c may plan when g is the shared state.
OwnPlan(c, g, plan) ==
  /\ plan \in Seq(JobSet)
  /\ \A i \in DOMAIN plan : Mine(c, plan[i]) /\ Prepared(g, plan[i])
  /\ \A i, j \in DOMAIN plan : i # j => Apart(plan[i], plan[j])
Second == {"copying", "usage"}
NewPlan(c, g, plan) ==
  OwnPlan(c, g, plan) /\ \A i \in DOMAIN plan : plan[i].how \notin Second
GoodPlan(c, g, plan) ==
  OwnPlan(c, g, plan) /\ \A i \in DOMAIN plan : i > 1 => plan[i].how \notin Second

-----------------------------------------------------------------------------
(* The inductive invariant. *)

\* The shape of the state.
Shape ==
  /\ scenario \in Scenarios
  /\ GR!TypeOK
  /\ TypeOK
  /\ gs.drivers \subseteq DriverPods
  /\ DOMAIN gs = {"ns", "prepared", "operand", "operator", "drivers", "found"}
  /\ DOMAIN work = {"plan", "errs", "got", "deny", "taken"}
  /\ DOMAIN said = 1 .. N

\* Where the gather is: the collectors past at have not begun, and a phase other
\* than reading is inside a collector.
PhaseInv ==
  /\ \A c \in 1 .. N : /\ c > at => status[c] = "none"
                       /\ c = at => status[c] \in {"none", "open"}
  /\ ~Busy => work = NoWork
  /\ ph # "read" => GR!InCollector
  /\ ph = "beta" => Me = "resource-slices"
  /\ ph = "made" => work.plan # <<>> /\ job.how \in Streamed

PlanInv == Busy => GoodPlan(Me, gs, work.plan)

\* The job at hand is a copy out of a pod.
Copying == ph = "work" /\ work.plan # <<>> /\ job.how = "copying"

\* A collector that ran, or is at work, writes under this name.
Claimed(f) ==
  \E i \in 1 .. N : f[1] \in Kinds(Registry[i]) /\ (i < at \/ (i = at /\ Busy))

\* Until the bundle is closed: what is unfinished is the job at hand, what is
\* touched is claimed, and what is still to be written is untouched.
FilesInv ==
  pc \in {"start", "node", "collect"} =>
    /\ \A f \in AllFiles : part[f] # "absent" => ph = "made" /\ f = job.file
    /\ ph = "made" => part[job.file] = "raw"
    /\ \A f \in ReportFiles : disk[f] = "torn" => Copying /\ f = job.file
    /\ Copying => disk[job.file] = "torn" /\ job.file \notin GR!Recorded
    /\ \A f \in AllFiles : GR!Fresh(f) \/ Claimed(f)
    /\ Busy => \A i \in DOMAIN work.plan :
                 /\ work.plan[i].how \in Plain \cup {"marker", "usage"}
                 /\ ~(i = 1 /\ ph = "made")
                 => GR!Fresh(work.plan[i].file)

\* The ledger of an exec collector has every name it used, and the longer name
\* of a pod still to come is free.
LedgerInv ==
  (Busy /\ Me \in Execs) =>
    /\ \A f \in AllFiles : f[1] = Me => GR!Fresh(f) \/ f \in work.taken
    /\ \A i \in DOMAIN work.plan :
         LET j == work.plan[i] IN
         /\ j.how \in Execs => <<Me, NodeOf[j.pod], j.pod>> \notin work.taken
         /\ j.how \in Second => j.file \in work.taken

\* A gap a collector met, and does not presume on, is on its way to being said.
TalkInv ==
  /\ \A c \in 1 .. N : (c > at \/ (c = at /\ ~Busy)) => heard[c] = {}
  /\ \A c \in 1 .. N : (c < at /\ ~(heard[c] \subseteq Presumed)) =>
       /\ status[c] = "error" \/ said[c] \in {"refused", "failed"}
       /\ Registry[c] \in Execs => denied \/ status[c] = "error"
  /\ (Busy /\ ~(heard[at] \subseteq Presumed)) =>
       IF Me \in Execs THEN work.errs ELSE said[at] \in {"refused", "failed"}

\* What is recorded about a pod is of the list every collector shares.
ListInv ==
  /\ <<"operand-pods", "yaml">> \in GR!Recorded => gs.prepared /\ listed = gs.operand
  /\ \A k \in PodKinds, p \in Pods :
       <<k, p>> \in GR!Recorded => gs.prepared /\ p \in gs.operand \cup gs.operator

\* The collectors that always write leave a file, or an error.
EvidenceInv ==
  /\ \A c \in 1 .. N : (c < at /\ Registry[c] \in Unconditional) =>
       collected \/ denied \/ status[c] = "error"
  /\ (Busy /\ Me \in Unconditional) =>
       collected \/ work.errs \/ (work.plan # <<>> /\ job.how = "file")

IInv ==
  /\ Shape /\ PhaseInv /\ PlanInv /\ FilesInv /\ LedgerInv
  /\ TalkInv /\ ListInv /\ EvidenceInv

-----------------------------------------------------------------------------
(* The files. *)

\* The files of the bundle, the markers and the bug reports are as GatherRun
\* assumes of any gather.
LEMMA GatherRunAssumptions == P!NAssumption /\ P!FilesAssumption
<1>1. P!NAssumption
  BY ScenariosAssumption DEF P!NAssumption
<1>2. \A f \in AllFiles : f # <<"must-gather.log">> /\ f # <<"must-gather.stderr.log">>
  BY DEF AllFiles, MarkerFiles, LogFiles, ReportFiles, UsageFiles
<1>3. /\ MarkerFiles \subseteq AllFiles /\ ReportFiles \subseteq AllFiles
      /\ LogFiles \cup UsageFiles \subseteq AllFiles
  BY DEF AllFiles
<1>4. MarkerFiles \cap ReportFiles = {}
  BY DEF MarkerFiles, ReportFiles, Marked
<1> QED
  BY <1>1, <1>2, <1>3, <1>4 DEF P!FilesAssumption

\* A finite set as a sequence has every element once.
LEMMA SetAsSeq ==
  ASSUME NEW S, IsFiniteSet(S)
  PROVE  /\ SetToSeq(S) \in Seq(S)
         /\ Cardinality(S) \in Nat
         /\ Len(SetToSeq(S)) = Cardinality(S)
         /\ \A i, j \in 1 .. Cardinality(S) : SetToSeq(S)[i] = SetToSeq(S)[j] => i = j
<1>1. Cardinality(S) \in Nat /\ ExistsBijection(1 .. Cardinality(S), S)
  BY FS_CardinalityType
<1>2. \E f \in [1 .. Cardinality(S) -> S] : IsInjective(f)
  BY <1>1 DEF ExistsBijection, Bijection, Injection, IsInjective
<1>3. SetToSeq(S) \in [1 .. Cardinality(S) -> S] /\ IsInjective(SetToSeq(S))
  BY <1>2 DEF SetToSeq
<1> QED
  BY <1>1, <1>3 DEF IsInjective

\* The image of a finite set is finite.
LEMMA FiniteImage ==
  ASSUME NEW A, IsFiniteSet(A), NEW f, DOMAIN f = A, f = [x \in A |-> f[x]]
  PROVE  IsFiniteSet({f[x] : x \in A})
<1>1. f \in Surjection(A, {f[x] : x \in A})
  BY DEF Surjection
<1> QED
  BY <1>1, FS_Surjection

\* Two collectors write under different names.
LEMMA KindsApart ==
  ASSUME NEW c, NEW d, NEW k, k \in Kinds(c), k \in Kinds(d)
  PROVE  c = d
BY DEF Kinds, PodKinds

-----------------------------------------------------------------------------
(* The plans. *)

\* What the lemmas of this section know of the state: a collector is running.
Running1 ==
  /\ scenario \in Scenarios
  /\ at \in 1 .. N
  /\ gs.operand \subseteq Pods /\ gs.operator \subseteq Pods /\ gs.drivers \subseteq DriverPods

\* A file of the collector's own, not about a pod, is a job of its own.
LEMMA WriteIsMine ==
  ASSUME NEW k, k # "missing", <<Me, k>> \in AllFiles,
         Me \notin Execs \cup PodKinds \cup {"pod-logs", "pod-descriptions"},
         Me = "operand-pods" => gs.prepared
  PROVE  LET j == Write(<<Me, k>>) IN
         j \in JobSet /\ Mine(Me, j) /\ Prepared(gs, j) /\ j.how = "file" /\ j.file = <<Me, k>>
<1> DEFINE j == Write(<<Me, k>>)
<1>1. j.how = "file" /\ j.file = <<Me, k>> /\ j.pod = <<Me, k>> /\ j.file[1] = Me
  BY DEF Write, Job
<1>2. j \in JobSet
  BY DEF Write, Job, JobSet, Hows, Plain
<1>3. <<Me, k>> \notin MarkerFiles \cup ReportFiles
  BY DEF MarkerFiles, ReportFiles, Execs
<1>4. Mine(Me, j)
  BY <1>1, <1>3 DEF Mine, Plain, Kinds, PodKinds, Execs
<1>5. Prepared(gs, j)
  BY <1>1 DEF Prepared, PodKinds
<1> QED
  BY <1>1, <1>2, <1>4, <1>5

\* A plan of one job.
LEMMA OneJob ==
  ASSUME NEW j \in JobSet, Mine(Me, j), Prepared(gs, j), j.how \notin Second
  PROVE  NewPlan(Me, gs, <<j>>) /\ <<j>> # <<>> /\ Head(<<j>>) = j
<1>1. <<j>> \in Seq(JobSet) /\ DOMAIN <<j>> = 1 .. 1 /\ <<j>>[1] = j
  OBVIOUS
<1> QED
  BY <1>1 DEF NewPlan, OwnPlan, Second

\* The yaml every collector of the registry may write.
LEMMA YamlPlan ==
  ASSUME Running1, Me \notin Execs \cup PodKinds \cup {"pod-logs", "pod-descriptions"},
         Me = "operand-pods" => gs.prepared
  PROVE  LET plan == <<Write(<<Me, "yaml">>)>> IN
         NewPlan(Me, gs, plan) /\ plan # <<>> /\ Head(plan).how = "file"
<1>1. Me \in Range(scenario.registry)
  BY ScenariosAssumption DEF Running1, Me, Registry, Range
<1>2. <<Me, "yaml">> \in AllFiles
  BY <1>1 DEF AllFiles, Running1
<1> QED
  BY <1>2, WriteIsMine, OneJob DEF Second

\* A marker.
LEMMA MarkerPlan ==
  ASSUME Running1, Me \in Marked
  PROVE  NewPlan(Me, gs, <<Job("marker", <<Me, "missing">>, Me)>>)
<1> DEFINE j == Job("marker", <<Me, "missing">>, Me)
<1>1. j.how = "marker" /\ j.file = <<Me, "missing">> /\ j.pod = Me /\ j.file[1] = Me
  BY DEF Job
<1>2. <<Me, "missing">> \in MarkerFiles /\ MarkerFiles \subseteq AllFiles
  BY DEF MarkerFiles, AllFiles
<1>3. j \in JobSet
  BY <1>2 DEF Job, JobSet, Hows
<1>4. Mine(Me, j)
  BY <1>1, <1>2 DEF Mine, Plain, Kinds, PodKinds, Execs, Marked
<1>5. Prepared(gs, j)
  BY <1>1 DEF Prepared, PodKinds, Marked
<1> QED
  BY <1>1, <1>3, <1>4, <1>5, OneJob DEF Second

\* Several files of one collector.
LEMMA WritesPlan ==
  ASSUME NEW n \in Nat, NEW names,
         \A i \in 1 .. n : <<Me, names[i]>> \in AllFiles /\ names[i] # "missing",
         \A i, j \in 1 .. n : i # j => names[i] # names[j],
         Me \notin Execs \cup PodKinds \cup {"pod-logs", "pod-descriptions"},
         Me = "operand-pods" => gs.prepared
  PROVE  LET plan == [i \in 1 .. n |-> Write(<<Me, names[i]>>)] IN
         NewPlan(Me, gs, plan) /\ (n > 0 => plan # <<>> /\ Head(plan).how = "file")
<1> DEFINE plan == [i \in 1 .. n |-> Write(<<Me, names[i]>>)]
<1>1. ASSUME NEW i \in 1 .. n
      PROVE  /\ plan[i] \in JobSet /\ Mine(Me, plan[i]) /\ Prepared(gs, plan[i])
             /\ plan[i].how = "file" /\ plan[i].file = <<Me, names[i]>>
  <2>1. plan[i] = Write(<<Me, names[i]>>)
    OBVIOUS
  <2> HIDE DEF plan
  <2> QED
    BY <2>1, WriteIsMine
<1>2. plan \in Seq(JobSet) /\ DOMAIN plan = 1 .. n
  BY <1>1
<1>3. \A i, j \in 1 .. n : i # j => Apart(plan[i], plan[j])
  BY <1>1 DEF Apart, Plain
<1>4. NewPlan(Me, gs, plan)
  <2> HIDE DEF plan
  <2> QED
    BY <1>1, <1>2, <1>3 DEF NewPlan, OwnPlan, Second
<1>5. n > 0 => plan # <<>> /\ Head(plan).how = "file"
  <2>1. n > 0 => plan # <<>> /\ Head(plan) = plan[1] /\ 1 \in 1 .. n
    <3> HIDE DEF plan
    <3> QED
      BY <1>2
  <2> QED
    BY <1>1, <2>1
<1> QED
  BY <1>4, <1>5

\* A log of a pod that was listed.
LEMMA LogJob ==
  ASSUME Running1, Me = "pod-logs", gs.prepared,
         NEW k \in {"log", "previous"}, NEW p \in gs.operand \cup gs.operator
  PROVE  LET j == Job("log", <<k, p>>, p) IN
         /\ j \in JobSet /\ Mine(Me, j) /\ Prepared(gs, j)
         /\ j.how = "log" /\ j.file = <<k, p>> /\ j.pod = p
<1> DEFINE j == Job("log", <<k, p>>, p)
<1>1. j.how = "log" /\ j.file = <<k, p>> /\ j.pod = p /\ j.file[1] = k
  BY DEF Job
<1>2. p \in Pods /\ <<k, p>> \in LogFiles
  BY DEF Running1, LogFiles
<1>3. j \in JobSet
  BY <1>2 DEF Job, JobSet, Hows, Plain, AllFiles
<1>4. <<k, p>> \notin MarkerFiles \cup ReportFiles
  BY DEF MarkerFiles, ReportFiles, Marked
<1>5. Mine(Me, j)
  BY <1>1, <1>2, <1>4 DEF Mine, Plain, Kinds, Execs, AllFiles
<1>6. Prepared(gs, j)
  BY <1>1 DEF Prepared
<1> QED
  BY <1>1, <1>3, <1>5, <1>6

\* The two logs of each of some pods.
LEMMA PodLogs ==
  ASSUME Running1, Me = "pod-logs", gs.prepared,
         NEW S, S \subseteq gs.operand \cup gs.operator
  PROVE  LET logs == collectPodLogs(S) IN
         /\ logs \in Seq(JobSet)
         /\ \A i \in DOMAIN logs : /\ Mine(Me, logs[i]) /\ Prepared(gs, logs[i]) /\ logs[i].pod \in S
                                   /\ logs[i].how = "log" /\ logs[i].file[2] = logs[i].pod
         /\ \A i, j \in DOMAIN logs : i # j => logs[i].file # logs[j].file
<1> DEFINE n == Cardinality(S)
           m == 2 * n
           pod == [i \in 1 .. m |-> SetToSeq(S)[(i + 1) \div 2]]
           kind == [i \in 1 .. m |-> IF i % 2 = 1 THEN "log" ELSE "previous"]
           logs == collectPodLogs(S)
<1>1. IsFiniteSet(S)
  BY PodsAssumption, FS_Subset DEF Running1
<1>2. n \in Nat /\ m \in Nat /\ \A i \in 1 .. n : SetToSeq(S)[i] \in S
  BY <1>1, SetAsSeq
<1>3. \A i \in 1 .. m : (i + 1) \div 2 \in 1 .. n
  BY <1>2
<1>4. \A i \in 1 .. m : pod[i] \in S /\ kind[i] \in {"log", "previous"}
  BY <1>2, <1>3
<1>5. \A i, j \in 1 .. m : pod[i] = pod[j] /\ kind[i] = kind[j] => i = j
  <2>1. \A i, j \in 1 .. m : (i + 1) \div 2 = (j + 1) \div 2 /\ kind[i] = kind[j] => i = j
    BY <1>2
  <2>2. \A i, j \in 1 .. n : SetToSeq(S)[i] = SetToSeq(S)[j] => i = j
    BY <1>1, SetAsSeq
  <2> QED
    BY <1>3, <2>1, <2>2
<1>6. DOMAIN logs = 1 .. m /\ logs = [i \in 1 .. m |-> logs[i]]
  BY DEF collectPodLogs
<1>7. \A i \in 1 .. m : logs[i] = Job("log", <<kind[i], pod[i]>>, pod[i])
  BY DEF collectPodLogs
<1> HIDE DEF n, m, pod, kind, logs
<1>8. ASSUME NEW i \in 1 .. m
      PROVE  /\ logs[i] \in JobSet /\ Mine(Me, logs[i]) /\ Prepared(gs, logs[i])
             /\ logs[i].how = "log" /\ logs[i].file = <<kind[i], pod[i]>>
             /\ logs[i].pod = pod[i]
  <2> DEFINE k == kind[i]
             p == pod[i]
  <2>1. /\ k \in {"log", "previous"} /\ p \in gs.operand \cup gs.operator
        /\ logs[i] = Job("log", <<k, p>>, p)
    BY <1>4, <1>7
  <2> HIDE DEF k, p
  <2>2. LET j == Job("log", <<k, p>>, p) IN
        /\ j \in JobSet /\ Mine(Me, j) /\ Prepared(gs, j)
        /\ j.how = "log" /\ j.file = <<k, p>> /\ j.pod = p
    BY <2>1, LogJob
  <2> QED
    BY <2>1, <2>2 DEF k, p
<1>9. logs \in Seq(JobSet)
  BY <1>2, <1>6, <1>8
<1>10. \A i, j \in 1 .. m : i # j => logs[i].file # logs[j].file
  BY <1>5, <1>8
<1>11. \A i \in 1 .. m : logs[i].file[2] = logs[i].pod
  BY <1>8
<1> QED
  BY <1>4, <1>6, <1>8, <1>9, <1>10, <1>11 DEF logs

\* The operator pod's logs and those of the other pods.
LEMMA LogsPlan ==
  ASSUME Running1, Me = "pod-logs", gs.prepared
  PROVE  NewPlan(Me, gs, collectPodLogs(gs.operator) \o collectPodLogs(gs.operand \ gs.operator))
<1> DEFINE a == collectPodLogs(gs.operator)
           b == collectPodLogs(gs.operand \ gs.operator)
           plan == a \o b
<1>1. /\ a \in Seq(JobSet)
      /\ \A i \in DOMAIN a : /\ Mine(Me, a[i]) /\ Prepared(gs, a[i]) /\ a[i].pod \in gs.operator
                             /\ a[i].how = "log" /\ a[i].file[2] = a[i].pod
      /\ \A i, j \in DOMAIN a : i # j => a[i].file # a[j].file
  BY PodLogs
<1>2. /\ b \in Seq(JobSet)
      /\ \A i \in DOMAIN b : /\ Mine(Me, b[i]) /\ Prepared(gs, b[i]) /\ b[i].pod \notin gs.operator
                             /\ b[i].how = "log" /\ b[i].file[2] = b[i].pod
      /\ \A i, j \in DOMAIN b : i # j => b[i].file # b[j].file
  BY PodLogs
<1> HIDE DEF a, b
<1>3. /\ plan \in Seq(JobSet) /\ DOMAIN plan = 1 .. Len(a) + Len(b)
      /\ Len(a) \in Nat /\ DOMAIN a = 1 .. Len(a) /\ Len(b) \in Nat /\ DOMAIN b = 1 .. Len(b)
      /\ \A i \in DOMAIN plan : plan[i] = IF i <= Len(a) THEN a[i] ELSE b[i - Len(a)]
  BY <1>1, <1>2
<1> HIDE DEF plan
<1>4. \A i \in DOMAIN plan : Mine(Me, plan[i]) /\ Prepared(gs, plan[i]) /\ plan[i].how = "log"
  BY <1>1, <1>2, <1>3
<1>5. \A i, j \in DOMAIN plan : i # j => plan[i].file # plan[j].file
  <2> SUFFICES ASSUME NEW i \in DOMAIN plan, NEW j \in DOMAIN plan, i < j
               PROVE  plan[i].file # plan[j].file
    BY <1>3
  <2>1. CASE j <= Len(a)
    BY <1>1, <1>3, <2>1
  <2>2. CASE i > Len(a)
    <3>1. /\ i - Len(a) \in DOMAIN b /\ j - Len(a) \in DOMAIN b /\ i - Len(a) # j - Len(a)
          /\ plan[i] = b[i - Len(a)] /\ plan[j] = b[j - Len(a)]
      BY <1>3, <2>2
    <3> QED
      BY <1>2, <3>1
  <2>3. CASE i <= Len(a) /\ j > Len(a)
    <3>1. i \in DOMAIN a /\ j - Len(a) \in DOMAIN b
      BY <1>3, <2>3
    <3>2. plan[i] = a[i] /\ plan[j] = b[j - Len(a)]
      BY <1>3, <2>3
    <3>3. plan[i].file[2] \in gs.operator /\ plan[j].file[2] \notin gs.operator
      BY <1>1, <1>2, <3>1, <3>2
    <3> QED
      BY <3>3
  <2> QED
    BY <1>3, <2>1, <2>2, <2>3
<1> QED
  BY <1>3, <1>4, <1>5 DEF NewPlan, OwnPlan, Second, Apart, Plain, plan, a, b

\* The description of each pod that was listed.
LEMMA DescriptionsPlan ==
  ASSUME Running1, Me = "pod-descriptions", gs.prepared
  PROVE  NewPlan(Me, gs, SetToSeq({Job("descr", <<"descr", p>>, p) : p \in gs.operand}))
<1> DEFINE S == {Job("descr", <<"descr", p>>, p) : p \in gs.operand}
           plan == SetToSeq(S)
<1>1. IsFiniteSet(gs.operand)
  BY PodsAssumption, FS_Subset DEF Running1
<1>2. IsFiniteSet(S)
  <2> DEFINE f == [p \in gs.operand |-> Job("descr", <<"descr", p>>, p)]
  <2>1. IsFiniteSet({f[p] : p \in gs.operand})
    <3>1. DOMAIN f = gs.operand /\ f = [p \in gs.operand |-> f[p]]
      OBVIOUS
    <3> HIDE DEF f
    <3> QED
      BY <1>1, <3>1, FiniteImage
  <2>2. S = {f[p] : p \in gs.operand}
    OBVIOUS
  <2> QED
    BY <2>1, <2>2
<1>3. ASSUME NEW p \in gs.operand
      PROVE  LET j == Job("descr", <<"descr", p>>, p) IN
             /\ j \in JobSet /\ Mine(Me, j) /\ Prepared(gs, j)
             /\ j.how = "descr" /\ j.file = <<"descr", p>> /\ j.pod = p
  <2> DEFINE j == Job("descr", <<"descr", p>>, p)
  <2>1. j.how = "descr" /\ j.file = <<"descr", p>> /\ j.pod = p /\ j.file[1] = "descr"
    BY DEF Job
  <2>2. p \in Pods /\ <<"descr", p>> \in AllFiles
    BY DEF Running1, AllFiles
  <2>3. j \in JobSet
    BY <2>2 DEF Job, JobSet, Hows, Plain
  <2>4. <<"descr", p>> \notin MarkerFiles \cup ReportFiles
    BY DEF MarkerFiles, ReportFiles, Marked
  <2>5. Mine(Me, j)
    BY <2>1, <2>2, <2>4 DEF Mine, Plain, Kinds, Execs
  <2>6. Prepared(gs, j)
    BY <2>1 DEF Prepared
  <2> QED
    BY <2>1, <2>3, <2>5, <2>6
<1>4. \A j \in S : /\ j \in JobSet /\ Mine(Me, j) /\ Prepared(gs, j) /\ j.how = "descr"
                   /\ j = Job("descr", j.file, j.pod) /\ j.file = <<"descr", j.pod>>
  <2> TAKE j \in S
  <2>1. PICK p \in gs.operand : j = Job("descr", <<"descr", p>>, p)
    OBVIOUS
  <2>2. /\ j \in JobSet /\ Mine(Me, j) /\ Prepared(gs, j)
        /\ j.how = "descr" /\ j.file = <<"descr", p>> /\ j.pod = p
    BY <1>3, <2>1
  <2> QED
    BY <2>1, <2>2
<1> HIDE DEF S
<1>5. /\ plan \in Seq(S) /\ DOMAIN plan = 1 .. Len(plan) /\ \A i \in DOMAIN plan : plan[i] \in S
      /\ \A i, j \in DOMAIN plan : plan[i] = plan[j] => i = j
  BY <1>2, SetAsSeq
<1> HIDE DEF plan
<1>6. plan \in Seq(JobSet)
  BY <1>4, <1>5, SeqMonotonic
<1>7. \A i, j \in DOMAIN plan : i # j => plan[i].file # plan[j].file
  <2> SUFFICES ASSUME NEW i \in DOMAIN plan, NEW j \in DOMAIN plan, plan[i].file = plan[j].file
               PROVE  i = j
    OBVIOUS
  <2>1. plan[i].pod = plan[j].pod
    BY <1>4, <1>5
  <2> QED
    BY <1>4, <1>5, <2>1
<1> QED
  BY <1>4, <1>5, <1>6, <1>7 DEF NewPlan, OwnPlan, Second, Apart, Plain, plan, S

\* A job for each driver pod.
LEMMA DriversPlan ==
  ASSUME Running1, Me \in Execs
  PROVE  NewPlan(Me, gs, SetToSeq({Job(Me, <<Me>>, p) : p \in gs.drivers}))
<1> DEFINE S == {Job(Me, <<Me>>, p) : p \in gs.drivers}
           plan == SetToSeq(S)
<1>1. IsFiniteSet(gs.drivers)
  BY PodsAssumption, FS_Subset DEF Running1
<1>2. IsFiniteSet(S)
  <2> DEFINE f == [p \in gs.drivers |-> Job(Me, <<Me>>, p)]
  <2>1. IsFiniteSet({f[p] : p \in gs.drivers})
    <3>1. DOMAIN f = gs.drivers /\ f = [p \in gs.drivers |-> f[p]]
      OBVIOUS
    <3> HIDE DEF f
    <3> QED
      BY <1>1, <3>1, FiniteImage
  <2>2. S = {f[p] : p \in gs.drivers}
    OBVIOUS
  <2> QED
    BY <2>1, <2>2
<1>3. ASSUME NEW p \in gs.drivers
      PROVE  LET j == Job(Me, <<Me>>, p) IN
             j \in JobSet /\ Mine(Me, j) /\ Prepared(gs, j) /\ j.how = Me /\ j.file = <<Me>> /\ j.pod = p
  <2> DEFINE j == Job(Me, <<Me>>, p)
  <2>1. j.how = Me /\ j.file = <<Me>> /\ j.pod = p
    BY DEF Job
  <2>2. p \in Pods /\ p \in DriverPods
    BY PodsAssumption DEF Running1
  <2>3. j \in JobSet
    BY <2>2 DEF Job, JobSet, Hows
  <2>4. Mine(Me, j)
    BY <2>1, <2>2 DEF Mine, Plain, Execs
  <2>5. Prepared(gs, j)
    BY <2>1 DEF Prepared
  <2> QED
    BY <2>1, <2>3, <2>4, <2>5
<1>4. \A j \in S : /\ j \in JobSet /\ Mine(Me, j) /\ Prepared(gs, j) /\ j.how = Me
                   /\ j = Job(Me, <<Me>>, j.pod)
  BY <1>3
<1> HIDE DEF S
<1>5. /\ plan \in Seq(S) /\ DOMAIN plan = 1 .. Len(plan) /\ \A i \in DOMAIN plan : plan[i] \in S
      /\ \A i, j \in DOMAIN plan : plan[i] = plan[j] => i = j
  BY <1>2, SetAsSeq
<1> HIDE DEF plan
<1>6. plan \in Seq(JobSet)
  BY <1>4, <1>5, SeqMonotonic
<1>7. \A i, j \in DOMAIN plan : i # j => plan[i].pod # plan[j].pod
  BY <1>4, <1>5
<1> QED
  BY <1>4, <1>5, <1>6, <1>7 DEF NewPlan, OwnPlan, Second, Apart, Plain, Execs, plan, S

\* The operator pod's yaml and status.
LEMMA OperatorPodPlan ==
  ASSUME Running1, Me = "operator-pod"
  PROVE  NewPlan(Me, gs, <<Write(<<Me, "yaml">>), Write(<<Me, "status">>)>>)
<1> DEFINE names == <<"yaml", "status">>
           plan == [i \in 1 .. 2 |-> Write(<<Me, names[i]>>)]
<1>1. Me \in Range(scenario.registry)
  BY ScenariosAssumption DEF Running1, Me, Registry, Range
<1>2. <<Me, "yaml">> \in AllFiles /\ <<Me, "status">> \in AllFiles
  BY <1>1 DEF AllFiles, Running1
<1>3. NewPlan(Me, gs, plan)
  <2>1. /\ \A i \in 1 .. 2 : <<Me, names[i]>> \in AllFiles /\ names[i] # "missing"
        /\ \A i, j \in 1 .. 2 : i # j => names[i] # names[j]
    BY <1>2
  <2> HIDE DEF names
  <2> QED
    BY <2>1, WritesPlan DEF Execs, PodKinds
<1>4. plan = <<Write(<<Me, "yaml">>), Write(<<Me, "status">>)>>
  OBVIOUS
<1> QED
  BY <1>3, <1>4

\* The files of the GPU nodes.
LEMMA NodesPlan ==
  ASSUME Running1, Me = "gpu-nodes"
  PROVE  NewPlan(Me, gs, [i \in 1 .. 4 |->
                    Write(<<Me, <<"yaml", "labels", "status", "descr">>[i]>>)])
<1> DEFINE names == <<"yaml", "labels", "status", "descr">>
<1>1. Me \in Range(scenario.registry)
  BY ScenariosAssumption DEF Running1, Me, Registry, Range
<1>2. \A i \in 1 .. 4 : <<Me, names[i]>> \in AllFiles /\ names[i] # "missing"
  BY <1>1 DEF AllFiles, Running1
<1>3. \A i, j \in 1 .. 4 : i # j => names[i] # names[j]
  OBVIOUS
<1> HIDE DEF names
<1>4. LET plan == [i \in 1 .. 4 |-> Write(<<Me, names[i]>>)] IN
      NewPlan(Me, gs, plan) /\ (4 > 0 => plan # <<>> /\ Head(plan).how = "file")
  BY <1>2, <1>3, WritesPlan DEF Execs, PodKinds
<1> QED
  BY <1>4 DEF names

\* The files of the operand pods.
LEMMA OperandsPlan ==
  ASSUME Running1, Me = "operand-pods", gs.prepared
  PROVE  LET plan == [i \in 1 .. 3 |-> Write(<<Me, <<"yaml", "status", "images">>[i]>>)] IN
         NewPlan(Me, gs, plan) /\ plan # <<>> /\ Head(plan).how = "file"
<1> DEFINE names == <<"yaml", "status", "images">>
<1>1. Me \in Range(scenario.registry)
  BY ScenariosAssumption DEF Running1, Me, Registry, Range
<1>2. \A i \in 1 .. 3 : <<Me, names[i]>> \in AllFiles /\ names[i] # "missing"
  BY <1>1 DEF AllFiles, Running1
<1>3. \A i, j \in 1 .. 3 : i # j => names[i] # names[j]
  OBVIOUS
<1> HIDE DEF names
<1>4. LET plan == [i \in 1 .. 3 |-> Write(<<Me, names[i]>>)] IN
      NewPlan(Me, gs, plan) /\ (3 > 0 => plan # <<>> /\ Head(plan).how = "file")
  BY <1>2, <1>3, WritesPlan DEF Execs, PodKinds
<1> QED
  BY <1>4 DEF names

\* The files of the daemonsets: a description is written on its own.
LEMMA DaemonSetsPlan ==
  ASSUME Running1, Me = "daemonsets"
  PROVE  LET plan == <<Write(<<Me, "yaml">>), Write(<<Me, "status">>),
                       Job("descr", <<Me, "descr">>, "daemonset")>> IN
         NewPlan(Me, gs, plan) /\ plan # <<>> /\ Head(plan).how = "file"
<1> DEFINE y == Write(<<Me, "yaml">>)
           t == Write(<<Me, "status">>)
           d == Job("descr", <<Me, "descr">>, "daemonset")
           plan == <<y, t, d>>
<1>1. Me \in Range(scenario.registry)
  BY ScenariosAssumption DEF Running1, Me, Registry, Range
<1>2. <<Me, "yaml">> \in AllFiles /\ <<Me, "status">> \in AllFiles /\ <<Me, "descr">> \in AllFiles
  BY <1>1 DEF AllFiles, Running1
<1>3. y \in JobSet /\ Mine(Me, y) /\ Prepared(gs, y) /\ y.how = "file" /\ y.file = <<Me, "yaml">>
  BY <1>2, WriteIsMine DEF Execs, PodKinds
<1>4. t \in JobSet /\ Mine(Me, t) /\ Prepared(gs, t) /\ t.how = "file" /\ t.file = <<Me, "status">>
  BY <1>2, WriteIsMine DEF Execs, PodKinds
<1>5. d \in JobSet /\ Mine(Me, d) /\ Prepared(gs, d) /\ d.how = "descr" /\ d.file = <<Me, "descr">>
  <2>1. d.how = "descr" /\ d.file = <<Me, "descr">> /\ d.file[1] = Me /\ d.pod = "daemonset"
    BY DEF Job
  <2>2. d \in JobSet
    BY <1>2 DEF Job, JobSet, Hows, Plain
  <2>3. <<Me, "descr">> \notin MarkerFiles \cup ReportFiles
    BY DEF MarkerFiles, ReportFiles
  <2>4. Mine(Me, d)
    BY <1>2, <2>1, <2>3 DEF Mine, Plain, Kinds, PodKinds, Execs
  <2>5. Prepared(gs, d)
    BY <2>1 DEF Prepared, PodKinds
  <2> QED
    BY <2>1, <2>2, <2>4, <2>5
<1> HIDE DEF y, t, d
<1>6. /\ plan \in Seq(JobSet) /\ DOMAIN plan = 1 .. 3 /\ plan # <<>> /\ Head(plan) = y
      /\ plan[1] = y /\ plan[2] = t /\ plan[3] = d
  BY <1>3, <1>4, <1>5
<1>7. y.file # t.file /\ y.file # d.file /\ t.file # d.file
  BY <1>3, <1>4, <1>5
<1>8. \A i, j \in 1 .. 3 : i # j => Apart(plan[i], plan[j])
  <2> HIDE DEF plan
  <2>1. \A i \in 1 .. 3 : plan[i].how \in Plain
    BY <1>3, <1>4, <1>5, <1>6 DEF Plain
  <2>2. \A i, j \in 1 .. 3 : i # j => plan[i].file # plan[j].file
    BY <1>6, <1>7
  <2> QED
    BY <2>1, <2>2 DEF Apart
<1>9. NewPlan(Me, gs, plan)
  <2> HIDE DEF plan
  <2> QED
    BY <1>3, <1>4, <1>5, <1>6, <1>8 DEF NewPlan, OwnPlan, Second
<1> QED
  BY <1>3, <1>6, <1>9 DEF y, t, d

-----------------------------------------------------------------------------
(* The reads: a collector that is answered goes to work, returns or waits. *)

\* The answer the running collector heard, and nobody else did.
Told(h) ==
  /\ h \subseteq Heard
  /\ heard' \in [1 .. N -> SUBSET Heard]
  /\ heard'[at] = h
  /\ \A c \in 1 .. N : c # at => heard'[c] = heard[c]
Spoke(s) ==
  /\ DOMAIN said' = 1 .. N
  /\ said'[at] = s
  /\ \A c \in 1 .. N : c # at => said'[c] = said[c]

\* What is said of a gap does not hide it.
Honest(h, s) ==
  h \subseteq Presumed \/ (Me \notin Execs /\ s \in {"refused", "failed"})

Planned ==
  \E plan, h, s :
    /\ ph' = "work" /\ work' = [NoWork EXCEPT !.plan = plan]
    /\ UNCHANGED <<status, at, denied, gs>>
    /\ NewPlan(Me, gs, plan)
    /\ Me \in Unconditional => plan # <<>> /\ Head(plan).how = "file"
    /\ Told(h) /\ Spoke(s) /\ Honest(h, s)

Returned ==
  \E st \in {"skipped", "error"} : \E h, s :
    /\ Return(st, FALSE) /\ UNCHANGED gs
    /\ Told(h) /\ Spoke(s)
    /\ st = "skipped" => Honest(h, s) /\ Me \notin Unconditional

Waiting ==
  /\ UNCHANGED <<status, at, denied, work, said>>
  /\ Told({})
  /\ ph' \in {"read", "beta", "operator"} /\ (ph' = "beta" => Me = "resource-slices")
  /\ DOMAIN gs' = DOMAIN gs
  /\ gs'.operand \subseteq Pods /\ gs'.operator \subseteq Pods /\ gs'.drivers \subseteq DriverPods
  /\ gs.prepared => gs'.prepared /\ gs'.operand = gs.operand /\ gs'.operator = gs.operator

ReadStep == GR!InCollector /\ ~Busy /\ Read /\ (Planned \/ Returned \/ Waiting)

\* What a read knows of the state.
LEMMA InRead ==
  ASSUME IInv, GR!InCollector, ~Busy
  PROVE  Running1 /\ heard[at] = {} /\ DOMAIN said = 1 .. N /\ heard \in [1 .. N -> SUBSET Heard]
<1>1. at \in 1 .. N
  BY DEF GR!InCollector, GR!Collector
<1>2. DOMAIN Registry = 1 .. N
  BY ScenariosAssumption DEF IInv, Shape, Registry
<1> QED
  BY <1>1, <1>2 DEF IInv, Shape, TypeOK, TalkInv, Running1, Heard

\* What the gaps of an answer are, and which of them the code presumes on.
LEMMA GapKinds ==
  ASSUME NEW q \in Questions, NEW a
  PROVE  /\ Gap(q, a) \in SUBSET Heard
         /\ a \notin Gaps => Gap(q, a) = {}
         /\ q \in {"openshift", "discovery", "served slices"} => Gap(q, a) \subseteq Presumed
         /\ q = "nvidia-smi" /\ a # "forbidden" => Gap(q, a) \subseteq Presumed
BY DEF Gap, Heard, Presumed, Gaps

\* An answer changes what this collector heard, and nothing of the others.
LEMMA Hearing ==
  ASSUME IInv, GR!InCollector, ~Busy
  PROVE  /\ \A h \in SUBSET Heard : Hear(h) => Told(h)
         /\ heard' = heard => Told({})
         /\ \A s : Say(s) => Spoke(s)
         /\ said' = said => Spoke(said[at])
<1>1. at \in 1 .. N /\ heard[at] = {} /\ DOMAIN said = 1 .. N /\ heard \in [1 .. N -> SUBSET Heard]
  BY InRead DEF Running1
<1>2. ASSUME NEW h \in SUBSET Heard, Hear(h) PROVE Told(h)
  BY <1>1, <1>2 DEF Hear, Told
<1>3. ASSUME heard' = heard PROVE Told({})
  BY <1>1, <1>3 DEF Told
<1>4. ASSUME NEW s, Say(s) PROVE Spoke(s)
  BY <1>1, <1>4 DEF Say, Spoke
<1>5. ASSUME said' = said PROVE Spoke(said[at])
  BY <1>1, <1>5 DEF Spoke
<1> QED
  BY <1>2, <1>3, <1>4, <1>5

\* A collector that has its answer plans, and says what its answer was.
LEMMA GoesToWork ==
  ASSUME IInv, GR!InCollector, ~Busy, Read, UNCHANGED gs,
         NEW plan, NEW s, Work(plan, s), NewPlan(Me, gs, plan),
         Me \in Unconditional => plan # <<>> /\ Head(plan).how = "file",
         NEW h, Told(h), Honest(h, s)
  PROVE  ReadStep
<1>1. Spoke(s)
  BY Hearing DEF Work
<1>2. Planned
  BY <1>1 DEF Planned, Work
<1> QED
  BY <1>2 DEF ReadStep

\* A collector that skips returns, and says why.
LEMMA Skips ==
  ASSUME IInv, GR!InCollector, ~Busy, Read, UNCHANGED gs,
         NEW s, Skip(s), Me \notin Unconditional, NEW h, Told(h), Honest(h, s)
  PROVE  ReadStep
<1>1. Spoke(s) /\ Return("skipped", FALSE)
  BY Hearing DEF Skip
<1>2. Returned
  BY <1>1 DEF Returned, Honest
<1> QED
  BY <1>2 DEF ReadStep

\* A collector that fails returns, and its status says so.
LEMMA Fails ==
  ASSUME IInv, GR!InCollector, ~Busy, Read, UNCHANGED gs,
         Fail, NEW h, Told(h)
  PROVE  ReadStep
<1>1. Spoke(said[at]) /\ Return("error", FALSE)
  BY Hearing DEF Fail
<1>2. Returned
  BY <1>1 DEF Returned
<1> QED
  BY <1>2 DEF ReadStep

\* What a collector that is not told apart by a phase knows when it reads.
LEMMA AtRead ==
  ASSUME IInv, NEW c, Reading(c)
  PROVE  Me = c /\ GR!InCollector /\ ~Busy
BY DEF Reading, Running, Me, Busy

\* The answer to a read that a collector writes, skips or fails on.
LEMMA YamlAnswer ==
  ASSUME IInv, GR!InCollector, ~Busy, Read, UNCHANGED gs,
         Me \notin Execs \cup PodKinds \cup {"pod-logs", "pod-descriptions", "operand-pods"},
         NEW s, Work(<<Write(<<Me, "yaml">>)>>, s),
         NEW h, Told(h), Honest(h, s)
  PROVE  ReadStep
<1> DEFINE plan == <<Write(<<Me, "yaml">>)>>
<1>1. NewPlan(Me, gs, plan) /\ plan # <<>> /\ Head(plan).how = "file"
  BY YamlPlan, InRead
<1>2. Work(plan, s)
  OBVIOUS
<1> HIDE DEF plan
<1> QED
  BY <1>1, <1>2, GoesToWork

\* Every answer to an optional resource is a plan or a return.
LEMMA OptionalAnswer ==
  ASSUME IInv, GR!InCollector, ~Busy, Read, UNCHANGED gs,
         Me \in Optional \cup {"device-classes"},
         NEW a \in Answers, Hear(Gap("list", a)), answerOptional(Me, a)
  PROVE  ReadStep
<1> DEFINE h == Gap("list", a)
<1>0. h \in SUBSET Heard /\ (a \notin Gaps => h = {})
  BY GapKinds DEF Questions
<1>1. Told(h)
  BY <1>0, Hearing
<1>2. /\ Me \notin Execs \cup PodKinds \cup {"pod-logs", "pod-descriptions", "operand-pods"}
      /\ Me \notin Unconditional
  BY DEF Optional, Execs, PodKinds, Unconditional
<1>3. CASE a = "items"
  <2>1. Work(<<Write(<<Me, "yaml">>)>>, "objects")
    BY <1>3 DEF answerOptional
  <2>2. Honest(h, "objects")
    BY <1>0, <1>3 DEF Honest, Gaps
  <2> QED
    BY <1>1, <1>2, <2>1, <2>2, YamlAnswer
<1>4. CASE a \in {"empty", "absent"}
  <2>1. Skip("absent")
    BY <1>4 DEF answerOptional
  <2>2. Honest(h, "absent")
    BY <1>0, <1>4 DEF Honest, Gaps
  <2> QED
    BY <1>1, <1>2, <2>1, <2>2, Skips
<1>5. CASE a = "forbidden"
  <2>1. Skip("refused")
    BY <1>5 DEF answerOptional
  <2>2. Honest(h, "refused")
    BY <1>2 DEF Honest
  <2> QED
    BY <1>1, <1>2, <2>1, <2>2, Skips
<1>6. CASE a = "failed"
  <2>1. Fail
    BY <1>6 DEF answerOptional
  <2> QED
    BY <1>1, <1>2, <2>1, Fails
<1> QED
  BY <1>3, <1>4, <1>5, <1>6 DEF Answers, Gaps

\* gatherNodeInfo, gatherGPUPods and gatherNodeEvents.
LEMMA ListIsRead ==
  ASSUME IInv, NEW c \in Listed, gatherList(c)
  PROVE  ReadStep
<1>1. Me = c /\ GR!InCollector /\ ~Busy /\ Read /\ UNCHANGED gs
  BY AtRead DEF gatherList
<1>2. Me \notin Execs \cup PodKinds \cup {"pod-logs", "pod-descriptions", "operand-pods"}
  BY <1>1 DEF Listed, Execs, PodKinds
<1>3. PICK a \in Answers, o \in {"absent"} \cup Gaps :
        /\ Hear(Gap("list", a) \cup Gap("openshift", o))
        /\ IF a \in {"items", "empty"} THEN Work(<<Write(<<c, "yaml">>)>>, "objects") ELSE Fail
  BY DEF gatherList
<1> DEFINE h == Gap("list", a) \cup Gap("openshift", o)
<1>0. /\ h \in SUBSET Heard
      /\ a \notin Gaps => h \subseteq Presumed
  BY GapKinds DEF Questions
<1>4. Told(h)
  BY <1>0, <1>1, <1>3, Hearing
<1>5. CASE a \in {"items", "empty"}
  <2>1. Work(<<Write(<<Me, "yaml">>)>>, "objects") /\ Honest(h, "objects")
    BY <1>0, <1>1, <1>3, <1>5 DEF Honest, Gaps
  <2> QED
    BY <1>1, <1>2, <1>4, <2>1, YamlAnswer
<1>6. CASE a \notin {"items", "empty"}
  BY <1>1, <1>2, <1>3, <1>4, <1>6, Fails
<1> QED
  BY <1>5, <1>6

\* gatherOrMark: a gap is in the marker it plans.
LEMMA MarkedIsRead ==
  ASSUME IInv, NEW c \in Marked, gatherOrMark(c)
  PROVE  ReadStep
<1>1. Me = c /\ GR!InCollector /\ ~Busy /\ Read /\ UNCHANGED gs
  BY AtRead DEF gatherOrMark
<1>2. /\ Me \notin Execs \cup PodKinds \cup {"pod-logs", "pod-descriptions", "operand-pods"}
      /\ Me \notin Unconditional
  BY <1>1 DEF Marked, Execs, PodKinds, Unconditional
<1> DEFINE marker == <<Job("marker", <<Me, "missing">>, Me)>>
<1>3. PICK a \in Answers :
        /\ Hear(Gap("list", a))
        /\ \/ a \notin Gaps /\ Work(<<Write(<<Me, "yaml">>)>>, "objects")
           \/ a \notin Gaps /\ Work(marker, "absent")
           \/ Work(marker, "refused")
           \/ Work(marker, "failed")
  BY <1>1 DEF gatherOrMark, Answers, Gaps
<1> DEFINE h == Gap("list", a)
<1>0. h \in SUBSET Heard /\ (a \notin Gaps => h = {})
  BY GapKinds DEF Questions
<1>4. Told(h)
  BY <1>0, <1>1, <1>3, Hearing
<1>5. NewPlan(Me, gs, marker)
  BY <1>1, MarkerPlan, InRead
<1>6. \A s : (a \notin Gaps \/ s \in {"refused", "failed"}) => Honest(h, s)
  BY <1>0, <1>2 DEF Honest
<1> HIDE DEF marker, h
<1>7. ASSUME NEW s, Work(marker, s), Honest(h, s)
      PROVE  ReadStep
  BY <1>1, <1>2, <1>4, <1>5, <1>7, GoesToWork
<1>8. ASSUME Work(<<Write(<<Me, "yaml">>)>>, "objects"), Honest(h, "objects")
      PROVE  ReadStep
  BY <1>1, <1>2, <1>4, <1>8, YamlAnswer
<1> QED
  BY <1>3, <1>6, <1>7, <1>8

\* gatherDeviceClasses.
LEMMA ClassesAreRead ==
  ASSUME IInv, gatherDeviceClasses
  PROVE  ReadStep
<1>1. Me = "device-classes" /\ GR!InCollector /\ ~Busy /\ Read /\ UNCHANGED gs
  BY AtRead DEF gatherDeviceClasses
<1>2. ASSUME NEW d, Hear(Gap("discovery", d)), Skip("absent")
      PROVE  ReadStep
  <2> DEFINE h == Gap("discovery", d)
  <2>0. h \in SUBSET Heard /\ h \subseteq Presumed
    BY GapKinds DEF Questions
  <2>1. Told(h)
    BY <1>1, <1>2, <2>0, Hearing
  <2>2. Honest(h, "absent") /\ Me \notin Unconditional
    BY <1>1, <2>0 DEF Honest, Unconditional
  <2> HIDE DEF h
  <2> QED
    BY <1>1, <1>2, <2>1, <2>2, Skips
<1>3. ASSUME NEW a \in Answers, Hear(Gap("list", a)), answerOptional("device-classes", a)
      PROVE  ReadStep
  <2>1. answerOptional(Me, a)
    BY <1>1, <1>3
  <2> QED
    BY <1>1, <1>3, <2>1, OptionalAnswer
<1> QED
  BY <1>2, <1>3 DEF gatherDeviceClasses

\* gatherResourceSlices, at v1 and at the version the cluster serves.
LEMMA SlicesAreRead ==
  ASSUME IInv, gatherResourceSlices \/ resourceSlicesAtServedVersion
  PROVE  ReadStep
<1>1. Me = "resource-slices" /\ GR!InCollector /\ ~Busy /\ Read /\ UNCHANGED gs
  BY DEF gatherResourceSlices, resourceSlicesAtServedVersion, Reading, Running, Busy, Me
<1>2. /\ Me \notin Execs \cup PodKinds \cup {"pod-logs", "pod-descriptions", "operand-pods"}
      /\ Me \notin Unconditional
  BY <1>1 DEF Execs, PodKinds, Unconditional
<1>3. PICK a \in Answers, q \in {"list", "served slices"} :
        /\ Hear(Gap(q, a))
        /\ \/ (a \notin Gaps \/ q = "served slices") /\ \E s : Work(<<Write(<<Me, "yaml">>)>>, s)
           \/ a = "absent" /\ ph' = "beta" /\ UNCHANGED <<work, said, status, at, denied>>
           \/ Skip("refused")
           \/ Fail
  <2>1. CASE gatherResourceSlices
    BY <1>1, <2>1 DEF gatherResourceSlices, Answers, Gaps
  <2>2. CASE resourceSlicesAtServedVersion
    BY <1>1, <2>2 DEF resourceSlicesAtServedVersion
  <2> QED
    BY <2>1, <2>2
<1> DEFINE h == Gap(q, a)
<1>0. /\ h \in SUBSET Heard
      /\ a \notin Gaps => h = {}
      /\ q = "served slices" => h \subseteq Presumed
  BY GapKinds DEF Questions
<1>4. /\ Told(h) /\ Honest(h, "refused")
      /\ (a \notin Gaps \/ q = "served slices") => \A s : Honest(h, s)
  BY <1>0, <1>1, <1>2, <1>3, Hearing DEF Honest
<1> HIDE DEF h
<1>5. CASE (a \notin Gaps \/ q = "served slices") /\ \E s : Work(<<Write(<<Me, "yaml">>)>>, s)
  BY <1>1, <1>2, <1>4, <1>5, YamlAnswer
<1>6. CASE a = "absent" /\ ph' = "beta" /\ UNCHANGED <<work, said, status, at, denied>>
  <2>1. Told({})
    BY <1>0, <1>4, <1>6 DEF Gaps
  <2>2. gs.operand \subseteq Pods /\ gs.operator \subseteq Pods /\ gs.drivers \subseteq DriverPods
    BY <1>1, InRead DEF Running1
  <2>3. Waiting
    BY <1>1, <1>6, <2>1, <2>2 DEF Waiting
  <2> QED
    BY <1>1, <2>3 DEF ReadStep
<1>7. CASE Skip("refused")
  BY <1>1, <1>2, <1>4, <1>7, Skips
<1>8. CASE Fail
  BY <1>1, <1>2, <1>4, <1>8, Fails
<1> QED
  BY <1>3, <1>5, <1>6, <1>7, <1>8

\* gatherGPUNodes.
LEMMA NodesAreRead ==
  ASSUME IInv, gatherGPUNodes
  PROVE  ReadStep
<1>1. Me = "gpu-nodes" /\ GR!InCollector /\ ~Busy /\ Read /\ UNCHANGED gs
  BY AtRead DEF gatherGPUNodes
<1>2. Me \notin Execs /\ Me \notin Unconditional
  BY <1>1 DEF Execs, Unconditional
<1> DEFINE plan == [i \in 1 .. 4 |-> Write(<<Me, <<"yaml", "labels", "status", "descr">>[i]>>)]
<1>3. NewPlan(Me, gs, plan)
  BY <1>1, NodesPlan, InRead
<1>4. PICK a \in Answers :
        /\ Hear(Gap("list", a))
        /\ \/ a = "items" /\ Work(plan, "objects")
           \/ a = "empty" /\ Skip("absent")
           \/ Fail
  BY <1>1 DEF gatherGPUNodes
<1> DEFINE h == Gap("list", a)
<1>0. h \in SUBSET Heard /\ (a \notin Gaps => h = {})
  BY GapKinds DEF Questions
<1>5. Told(h) /\ (a \in {"items", "empty"} => \A s : Honest(h, s))
  BY <1>0, <1>1, <1>2, <1>4, Hearing DEF Honest, Gaps
<1> HIDE DEF plan, h
<1> QED
  BY <1>1, <1>2, <1>3, <1>4, <1>5, GoesToWork, Skips, Fails

\* Every step of a cluster-scoped collector is a read.
LEMMA ClusterIsRead ==
  ASSUME IInv, ClusterScoped
  PROVE  ReadStep
<1>1. CASE gatherOpenShiftVersion
  <2>1. Me = "openshift-version" /\ GR!InCollector /\ ~Busy /\ Read /\ UNCHANGED gs
    BY <1>1, AtRead DEF gatherOpenShiftVersion
  <2>2. /\ Me \notin Execs \cup PodKinds \cup {"pod-logs", "pod-descriptions", "operand-pods"}
        /\ Me \notin Unconditional
    BY <2>1 DEF Execs, PodKinds, Unconditional
  <2>3. PICK a : /\ Hear(Gap("openshift", a))
                 /\ Work(<<Write(<<Me, "yaml">>)>>, "objects") \/ Skip("absent")
    BY <1>1, <2>1 DEF gatherOpenShiftVersion
  <2> DEFINE h == Gap("openshift", a)
  <2>4. h \in SUBSET Heard /\ h \subseteq Presumed
    BY GapKinds DEF Questions
  <2>5. Told(h) /\ \A s : Honest(h, s)
    BY <2>1, <2>3, <2>4, Hearing DEF Honest
  <2> HIDE DEF h
  <2> QED
    BY <2>1, <2>2, <2>3, <2>5, YamlAnswer, Skips
<1>2. CASE \E c \in Optional : gatherOptionalCustomResource(c)
  <2>1. PICK c \in Optional : gatherOptionalCustomResource(c)
    BY <1>2
  <2>2. Me = c /\ GR!InCollector /\ ~Busy /\ Read /\ UNCHANGED gs
    BY <2>1, AtRead DEF gatherOptionalCustomResource
  <2>3. PICK a \in Answers : Hear(Gap("list", a)) /\ answerOptional(Me, a)
    BY <2>1, <2>2 DEF gatherOptionalCustomResource
  <2> QED
    BY <2>2, <2>3, OptionalAnswer
<1> QED
  BY <1>1, <1>2, ListIsRead, MarkedIsRead, ClassesAreRead, SlicesAreRead, NodesAreRead
     DEF ClusterScoped

\* A list that failed fails the collector that made it, and so does one that does
\* not hold what it must.
LEMMA ListFails ==
  ASSUME IInv, GR!InCollector, ~Busy, Read,
         listFails \/ (Fail /\ UNCHANGED <<gs, heard>>)
  PROVE  ReadStep
<1>1. CASE listFails
  <2>1. PICK h \in SUBSET Heard : Hear(h)
    BY <1>1, GapKinds DEF listFails, Questions
  <2>2. Told(h) /\ Fail /\ UNCHANGED gs
    BY <1>1, <2>1, Hearing DEF listFails
  <2> QED
    BY <2>2, Fails
<1>2. CASE Fail /\ UNCHANGED <<gs, heard>>
  BY <1>2, Hearing, Fails
<1> QED
  BY <1>1, <1>2

\* One that was answered fills the shared state, and no more once it is prepared.
LEMMA PrepareWaits ==
  ASSUME IInv, GR!InCollector, ~Busy, Read, heard' = heard,
         UNCHANGED <<status, at, denied, work, said>>, ph' \in {"read", "operator"},
         DOMAIN gs' = DOMAIN gs,
         gs'.operand \subseteq Pods, gs'.operator \subseteq Pods, gs'.drivers \subseteq DriverPods,
         gs.prepared => gs'.prepared /\ gs'.operand = gs.operand /\ gs'.operator = gs.operator
  PROVE  ReadStep
<1>1. Told({})
  BY Hearing
<1> QED
  BY <1>1 DEF ReadStep, Waiting

\* prepareState and prepareDriverPods change only what they share.
LEMMA PreparationIsRead ==
  ASSUME IInv, gatherOperatorNamespace \/ listOperandPods \/ listOperatorPod \/ findDriverPods
  PROVE  ReadStep
<1> DEFINE fails == listFails \/ (Fail /\ UNCHANGED <<gs, heard>>)
<1>1. GR!InCollector /\ ~Busy /\ Read
  BY DEF gatherOperatorNamespace, listOperandPods, listOperatorPod, findDriverPods,
         Preparing, Busy
<1>2. /\ gs.operand \subseteq Pods /\ gs.operator \subseteq Pods /\ gs.drivers \subseteq DriverPods
      /\ live \subseteq Pods
      /\ DOMAIN gs = {"ns", "prepared", "operand", "operator", "drivers", "found"}
  BY <1>1, InRead DEF Running1, IInv, Shape, TypeOK
<1>3. \A S : podsOnNode(S) \subseteq S
  BY DEF podsOnNode
<1>4. CASE fails
  BY <1>1, <1>4, ListFails
<1>5. CASE gatherOperatorNamespace /\ ~fails
  <2>1. /\ gs' = [gs EXCEPT !.ns = TRUE] /\ ~gs.prepared
        /\ UNCHANGED <<status, at, denied, work, said, heard>> /\ ph' = "read"
    BY <1>5 DEF gatherOperatorNamespace, Preparing, inner
  <2>2. /\ DOMAIN gs' = DOMAIN gs
        /\ gs'.operand = gs.operand /\ gs'.operator = gs.operator /\ gs'.drivers = gs.drivers
    BY <1>2, <2>1
  <2> QED
    BY <1>1, <1>2, <2>1, <2>2, PrepareWaits
<1>6. CASE listOperandPods /\ ~fails
  <2>1. /\ gs' = [gs EXCEPT !.operand = podsOnNode(live)] /\ ~gs.prepared
        /\ UNCHANGED <<status, at, denied, work, said, heard>> /\ ph' = "operator"
    BY <1>6 DEF listOperandPods, Preparing
  <2>2. /\ DOMAIN gs' = DOMAIN gs /\ gs'.operand = podsOnNode(live)
        /\ gs'.operator = gs.operator /\ gs'.drivers = gs.drivers
    BY <1>2, <2>1
  <2>3. gs'.operand \subseteq Pods
    BY <1>2, <1>3, <2>2
  <2> QED
    BY <1>1, <1>2, <2>1, <2>2, <2>3, PrepareWaits
<1>7. CASE listOperatorPod /\ ~fails
  <2> DEFINE Found == {{p} : p \in live \cap OperatorPods}
                        \cup (IF live \cap OperatorPods = {} THEN {{}} ELSE {})
  <2>1. \A pods \in Found : pods \subseteq Pods
    BY <1>2
  <2>2. PICK pods \in Found :
          /\ gs' = [gs EXCEPT !.operator = pods, !.prepared = TRUE] /\ ~gs.prepared
          /\ UNCHANGED <<status, at, denied, work, said, heard>> /\ ph' = "read"
    BY <1>7, Zenon DEF listOperatorPod, Preparing
  <2>3. /\ DOMAIN gs' = DOMAIN gs /\ gs'.operand = gs.operand
        /\ gs'.operator = pods /\ gs'.drivers = gs.drivers
    BY <1>2, <2>2
  <2> QED
    BY <1>1, <1>2, <2>2, <2>3, <2>1, PrepareWaits
<1>8. CASE findDriverPods /\ ~fails
  <2>1. /\ gs' = [gs EXCEPT !.drivers = podsOnNode(live \cap DriverPods), !.found = TRUE]
        /\ UNCHANGED <<status, at, denied, work, said, heard>> /\ ph' = "read"
    BY <1>8 DEF findDriverPods, inner
  <2>2. /\ DOMAIN gs' = DOMAIN gs /\ gs'.drivers = podsOnNode(live \cap DriverPods)
        /\ gs'.operand = gs.operand /\ gs'.operator = gs.operator
        /\ gs'.prepared = gs.prepared
    BY <1>2, <2>1
  <2>3. gs'.drivers \subseteq DriverPods
    BY <1>3, <2>2
  <2> QED
    BY <1>1, <1>2, <2>1, <2>2, <2>3, PrepareWaits
<1> QED
  BY <1>4, <1>5, <1>6, <1>7, <1>8

\* Every step of a namespaced collector up to its work is a read.
LEMMA NamespaceIsRead ==
  ASSUME IInv, NamespaceScoped
  PROVE  ReadStep
<1>1. \A s : Honest({}, s)
  BY DEF Honest
<1>2. ASSUME NEW c, Ready(c), Read, UNCHANGED <<gs, heard>>
      PROVE  Me = c /\ GR!InCollector /\ ~Busy /\ gs.prepared /\ Told({}) /\ Running1
  <2>1. Me = c /\ GR!InCollector /\ ~Busy /\ gs.prepared
    BY <1>2, AtRead DEF Ready
  <2> QED
    BY <1>2, <2>1, Hearing, InRead
<1>3. CASE gatherOperatorPod
  <2>1. Read /\ UNCHANGED <<gs, heard>> /\ Ready("operator-pod")
    BY <1>3 DEF gatherOperatorPod
  <2>2. /\ Me = "operator-pod" /\ GR!InCollector /\ ~Busy /\ gs.prepared /\ Told({}) /\ Running1
        /\ Me \notin Execs \cup Unconditional
    BY <1>2, <2>1 DEF Execs, Unconditional
  <2> DEFINE plan == <<Write(<<Me, "yaml">>), Write(<<Me, "status">>)>>
  <2>3. Work(plan, "objects") \/ Fail
    BY <1>3, <2>2 DEF gatherOperatorPod
  <2>4. NewPlan(Me, gs, plan)
    BY <2>2, OperatorPodPlan
  <2> HIDE DEF plan
  <2> QED
    BY <1>1, <2>1, <2>2, <2>3, <2>4, GoesToWork, Fails
<1>4. CASE gatherOperandPods
  <2>1. Read /\ UNCHANGED <<gs, heard>> /\ Ready("operand-pods")
    BY <1>4 DEF gatherOperandPods
  <2>2. Me = "operand-pods" /\ GR!InCollector /\ ~Busy /\ gs.prepared /\ Told({}) /\ Running1
    BY <1>2, <2>1
  <2> DEFINE plan == [i \in 1 .. 3 |-> Write(<<Me, <<"yaml", "status", "images">>[i]>>)]
  <2>3. Work(plan, "objects")
    BY <1>4, <2>2 DEF gatherOperandPods
  <2>4. NewPlan(Me, gs, plan) /\ plan # <<>> /\ Head(plan).how = "file"
    BY <2>2, OperandsPlan
  <2> HIDE DEF plan
  <2> QED
    BY <1>1, <2>1, <2>2, <2>3, <2>4, GoesToWork
<1>5. CASE gatherPodLogs
  <2>1. Read /\ UNCHANGED <<gs, heard>> /\ Ready("pod-logs")
    BY <1>5 DEF gatherPodLogs
  <2>2. /\ Me = "pod-logs" /\ GR!InCollector /\ ~Busy /\ gs.prepared /\ Told({}) /\ Running1
        /\ Me \notin Unconditional
    BY <1>2, <2>1 DEF Unconditional
  <2> DEFINE plan == collectPodLogs(gs.operator) \o collectPodLogs(gs.operand \ gs.operator)
  <2>3. Work(plan, "objects")
    BY <1>5 DEF gatherPodLogs
  <2>4. NewPlan(Me, gs, plan)
    BY <2>2, LogsPlan
  <2> HIDE DEF plan
  <2> QED
    BY <1>1, <2>1, <2>2, <2>3, <2>4, GoesToWork
<1>6. CASE gatherPodDescriptions
  <2>1. Read /\ UNCHANGED <<gs, heard>> /\ Ready("pod-descriptions")
    BY <1>6 DEF gatherPodDescriptions
  <2>2. /\ Me = "pod-descriptions" /\ GR!InCollector /\ ~Busy /\ gs.prepared /\ Told({})
        /\ Running1 /\ Me \notin Unconditional
    BY <1>2, <2>1 DEF Unconditional
  <2> DEFINE plan == SetToSeq({Job("descr", <<"descr", p>>, p) : p \in gs.operand})
  <2>3. Work(plan, "objects")
    BY <1>6 DEF gatherPodDescriptions
  <2>4. NewPlan(Me, gs, plan)
    BY <2>2, DescriptionsPlan
  <2> HIDE DEF plan
  <2> QED
    BY <1>1, <2>1, <2>2, <2>3, <2>4, GoesToWork
<1>7. CASE gatherDaemonSets
  <2>1. Read /\ Ready("daemonsets")
    BY <1>7 DEF gatherDaemonSets
  <2>2. Me = "daemonsets" /\ GR!InCollector /\ ~Busy /\ gs.prepared /\ Running1
    BY <2>1, AtRead, InRead DEF Ready
  <2> DEFINE plan == <<Write(<<Me, "yaml">>), Write(<<Me, "status">>),
                       Job("descr", <<Me, "descr">>, "daemonset")>>
  <2>3. listFails \/ (Work(plan, "objects") /\ UNCHANGED <<gs, heard>>)
    BY <1>7, <2>2 DEF gatherDaemonSets
  <2>4. NewPlan(Me, gs, plan) /\ plan # <<>> /\ Head(plan).how = "file"
    BY <2>2, DaemonSetsPlan
  <2> HIDE DEF plan
  <2>5. CASE Work(plan, "objects") /\ UNCHANGED <<gs, heard>>
    <3>1. Told({})
      BY <2>2, <2>5, Hearing
    <3> QED
      BY <1>1, <2>1, <2>2, <2>4, <2>5, <3>1, GoesToWork
  <2> QED
    BY <2>1, <2>2, <2>3, <2>5, ListFails
<1>8. CASE \E c \in Execs : gatherFromDrivers(c)
  <2>1. PICK c \in Execs : gatherFromDrivers(c)
    BY <1>8
  <2>2. Read /\ UNCHANGED <<gs, heard>> /\ Ready(c)
    BY <2>1 DEF gatherFromDrivers
  <2>3. /\ Me = c /\ GR!InCollector /\ ~Busy /\ gs.prepared /\ Told({}) /\ Running1
        /\ Me \notin Unconditional
    BY <1>2, <2>2 DEF Execs, Unconditional
  <2> DEFINE plan == SetToSeq({Job(Me, <<Me>>, p) : p \in gs.drivers})
  <2>4. Work(plan, "objects") \/ Skip("flag") \/ Skip("absent")
    BY <2>1, <2>3 DEF gatherFromDrivers
  <2>5. NewPlan(Me, gs, plan)
    BY <2>1, <2>3, DriversPlan
  <2> HIDE DEF plan
  <2> QED
    BY <1>1, <2>2, <2>3, <2>4, <2>5, GoesToWork, Skips
<1> QED
  BY <1>3, <1>4, <1>5, <1>6, <1>7, <1>8, PreparationIsRead DEF NamespaceScoped

-----------------------------------------------------------------------------
(* The two instances of GatherRun, the model's and the proofs', are one. *)

\* The two instances of GatherRun, the specification and the one its proofs
\* are about, are the same formulas.
LEMMA SameRun ==
  /\ GR!vars = P!vars
  /\ GR!TypeOK <=> P!TypeOK
  /\ GR!Init <=> P!Init
  /\ GR!Next <=> P!Next
<1> USE DEF GR!vars, P!vars, GR!bundle, P!bundle, GR!progress, P!progress, GR!Logs, P!Logs,
            GR!Names, P!Names, GR!Collector, P!Collector
<1>1. GR!vars = P!vars
  OBVIOUS
<1>2. GR!TypeOK <=> P!TypeOK
  BY DEF GR!TypeOK, P!TypeOK, GR!Statuses, P!Statuses, GR!Content, P!Content, GR!Outcomes,
         P!Outcomes, GR!ManifestType, P!ManifestType, GR!NoManifest, P!NoManifest,
         GR!Running, P!Running, GR!ExitOK, P!ExitOK, GR!ExitUsage, P!ExitUsage,
         GR!ExitPartial, P!ExitPartial, GR!ExitError, P!ExitError
<1>3. GR!Init <=> P!Init
  BY DEF GR!Init, P!Init, GR!NoManifest, P!NoManifest, GR!Running, P!Running
<1>4. GR!Setup <=> P!Setup
  BY DEF GR!Setup, P!Setup, GR!Refused, P!Refused, GR!InitFails, P!InitFails, GR!NewGatherer,
         P!NewGatherer, GR!CheckNode, P!CheckNode, GR!NoSuchNode, P!NoSuchNode,
         GR!ExitUsage, P!ExitUsage, GR!ExitError, P!ExitError
<1>5. GR!InCollector <=> P!InCollector
  BY DEF GR!InCollector, P!InCollector
<1>6. ASSUME NEW f
      PROVE  /\ GR!createArtifact(f) <=> P!createArtifact(f)
             /\ GR!commit(f) <=> P!commit(f)
             /\ GR!discard(f) <=> P!discard(f)
             /\ GR!writeMarker(f) <=> P!writeMarker(f)
             /\ GR!copyStarts(f) <=> P!copyStarts(f)
             /\ GR!copyDone(f) <=> P!copyDone(f)
             /\ GR!copyEmpty(f) <=> P!copyEmpty(f)
             /\ GR!discardArtifact(f) <=> P!discardArtifact(f)
  <2>1. GR!Fresh(f) <=> P!Fresh(f)
    BY DEF GR!Fresh, P!Fresh, GR!Recorded, P!Recorded
  <2>2. GR!Recorded = P!Recorded
    BY DEF GR!Recorded, P!Recorded
  <2>3. /\ GR!recordArtifact(f) <=> P!recordArtifact(f)
        /\ GR!indexArtifact(f) <=> P!indexArtifact(f)
    BY DEF GR!recordArtifact, P!recordArtifact, GR!indexArtifact, P!indexArtifact
  <2> QED
    BY <1>5, <2>1, <2>2, <2>3
       DEF GR!createArtifact, P!createArtifact, GR!commit, P!commit, GR!discard, P!discard,
           GR!writeMarker, P!writeMarker, GR!copyStarts, P!copyStarts, GR!copyDone,
           P!copyDone, GR!copyEmpty, P!copyEmpty, GR!discardArtifact, P!discardArtifact
<1>7. ASSUME NEW f
      PROVE  GR!markerFails(f) <=> P!markerFails(f)
  BY <1>5 DEF GR!markerFails, P!markerFails, GR!End, P!End, GR!Fresh, P!Fresh,
              GR!Recorded, P!Recorded
<1>8. ASSUME NEW st, NEW deny
      PROVE  GR!Return(st, deny) <=> P!Return(st, deny)
  BY <1>5 DEF GR!Return, P!Return, GR!End, P!End
<1>9. /\ GR!Begin <=> P!Begin
      /\ GR!Panic <=> P!Panic
      /\ GR!collect <=> P!collect
  BY <1>5 DEF GR!Begin, P!Begin, GR!Panic, P!Panic, GR!collect, P!collect, GR!failed, P!failed
<1>10. GR!Collecting <=> P!Collecting
  BY <1>6, <1>7, <1>8, <1>9 DEF GR!Collecting, P!Collecting, GR!Ended, P!Ended
<1>11. GR!Sealing <=> P!Sealing
  <2>1. GR!ExitCode = P!ExitCode
    BY DEF GR!ExitCode, P!ExitCode, GR!ExitOK, P!ExitOK, GR!ExitUsage, P!ExitUsage,
           GR!ExitPartial, P!ExitPartial, GR!ExitError, P!ExitError
  <2>2. GR!Index(disk, part) = P!Index(disk, part)
    BY DEF GR!Index, P!Index
  <2>3. GR!indexBundle <=> P!indexBundle
    BY <2>1, <2>2 DEF GR!indexBundle, P!indexBundle
  <2>4. GR!indexFails <=> P!indexFails
    BY <2>1 DEF GR!indexFails, P!indexFails
  <2>5. GR!redactBundleFails <=> P!redactBundleFails
    BY DEF GR!redactBundleFails, P!redactBundleFails, GR!ExitError, P!ExitError
  <2>6. /\ GR!writeManifest <=> P!writeManifest
        /\ GR!redactBundle <=> P!redactBundle
    BY DEF GR!writeManifest, P!writeManifest, GR!redactBundle, P!redactBundle,
           GR!Unredacted, P!Unredacted
  <2>7. ASSUME NEW f
        PROVE  /\ GR!redactFile(f) <=> P!redactFile(f)
               /\ GR!dropFile(f) <=> P!dropFile(f)
               /\ GR!redactPart(f) <=> P!redactPart(f)
    <3>1. GR!NextFile(f) <=> P!NextFile(f)
      BY DEF GR!NextFile, P!NextFile, GR!Unredacted, P!Unredacted
    <3> QED
      BY <3>1 DEF GR!redactFile, P!redactFile, GR!dropFile, P!dropFile, GR!redactPart,
                  P!redactPart, GR!Unredacted, P!Unredacted
  <2> QED
    BY <2>3, <2>4, <2>5, <2>6, <2>7 DEF GR!Sealing, P!Sealing
<1>12. /\ GR!Kill <=> P!Kill
       /\ GR!Terminated <=> P!Terminated
  BY DEF GR!Kill, P!Kill, GR!Terminated, P!Terminated
<1> QED
  BY <1>1, <1>2, <1>3, <1>4, <1>10, <1>11, <1>12 DEF GR!Next, P!Next

-----------------------------------------------------------------------------
(* Every step is one of GatherRun's. *)

\* Outside a write nothing is unfinished, so a collector may return.
LEMMA MayReturn ==
  ASSUME IInv, GR!InCollector, ph # "made", ~Copying,
         NEW st \in GR!Ended, NEW deny \in BOOLEAN, deny => st = "skipped",
         GR!End(st, deny), UNCHANGED <<opts, pc, arts, collected, disk, part, dropped,
                                       outcome, manifest, code>>
  PROVE  GR!Next
<1>1. pc = "collect"
  BY DEF GR!InCollector
<1>2. /\ \A f \in AllFiles : part[f] # "raw"
      /\ \A f \in ReportFiles : disk[f] # "torn"
  BY <1>1 DEF IInv, FilesInv
<1>3. GR!Return(st, deny)
  BY <1>2 DEF GR!Return, GR!bundle
<1> QED
  BY <1>3 DEF GR!Next, GR!Collecting

\* A read returns, or leaves the state of GatherRun alone.
LEMMA ReadIsGather ==
  ASSUME IInv, ReadStep
  PROVE  GR!Next \/ UNCHANGED GR!vars
<1>1. UNCHANGED <<opts, pc, dropped, outcome, manifest, code, arts, collected, disk, part>>
  BY DEF ReadStep, Read, run, bundle
<1>2. GR!InCollector /\ ~Busy
  BY DEF ReadStep
<1>3. CASE Planned \/ Waiting
  BY <1>1, <1>3 DEF Planned, Waiting, GR!vars, GR!progress, GR!bundle
<1>4. CASE Returned
  <2>1. PICK st \in {"skipped", "error"} : GR!End(st, FALSE)
    BY <1>4 DEF Returned, Return
  <2>2. st \in GR!Ended /\ ph # "made" /\ ~Copying
    BY <1>2 DEF GR!Ended, Busy, Copying
  <2> QED
    BY <1>1, <1>2, <2>1, <2>2, MayReturn
<1> QED
  BY <1>3, <1>4 DEF ReadStep

\* The job at hand, as the plan has it.
LEMMA AtJob ==
  ASSUME IInv, Busy, work.plan # <<>>
  PROVE  /\ GR!InCollector /\ pc = "collect" /\ at \in 1 .. N /\ Running1
         /\ GoodPlan(Me, gs, work.plan)
         /\ job = work.plan[1] /\ 1 \in DOMAIN work.plan
         /\ job \in JobSet /\ Mine(Me, job) /\ Prepared(gs, job)
<1>1. GR!InCollector
  BY DEF IInv, PhaseInv, Busy
<1>2. GoodPlan(Me, gs, work.plan)
  BY DEF IInv, PlanInv
<1>3. /\ work.plan \in Seq(JobSet)
      /\ \A i \in DOMAIN work.plan : Mine(Me, work.plan[i]) /\ Prepared(gs, work.plan[i])
  BY <1>2 DEF GoodPlan, OwnPlan
<1>4. job = work.plan[1] /\ 1 \in DOMAIN work.plan /\ work.plan[1] \in JobSet
  BY <1>3 DEF job
<1>5. at \in 1 .. N /\ pc = "collect"
  BY <1>1 DEF GR!InCollector, GR!Collector
<1> QED
  BY <1>1, <1>2, <1>3, <1>4, <1>5 DEF IInv, Shape, TypeOK, Running1

\* A streamed file is one of the collector's own, in the bundle, and neither a
\* marker nor a bug report.
LEMMA StreamedFile ==
  ASSUME IInv, Busy, work.plan # <<>>, job.how \in Streamed
  PROVE  /\ job.file \in AllFiles \ (MarkerFiles \cup ReportFiles)
         /\ job.file[1] \in Kinds(Me)
         /\ ph = "work" => GR!Fresh(job.file)
         /\ ph = "made" => part[job.file] = "raw"
<1>1. Mine(Me, job) /\ pc = "collect" /\ job = work.plan[1] /\ 1 \in DOMAIN work.plan
  BY AtJob
<1>2. job.how \in Plain \/ job.how = "usage"
  BY DEF Streamed, Plain
<1>3. job.file \in AllFiles \ (MarkerFiles \cup ReportFiles) /\ job.file[1] \in Kinds(Me)
  <2>1. CASE job.how \in Plain
    BY <1>1, <2>1 DEF Mine
  <2>2. CASE job.how = "usage"
    <3>1. job.file \in UsageFiles /\ Me = "device-usage"
      BY <1>1, <2>2 DEF Mine
    <3>2. job.file \in AllFiles /\ job.file[1] = "device-usage" /\ job.file \notin ReportFiles
      BY <3>1 DEF UsageFiles, ReportFiles, AllFiles
    <3>3. job.file \notin MarkerFiles
      BY <3>2 DEF MarkerFiles, Marked
    <3> QED
      BY <3>1, <3>2, <3>3 DEF Kinds, PodKinds
  <2> QED
    BY <1>2, <2>1, <2>2
<1>4. ph = "work" => GR!Fresh(job.file)
  BY <1>1, <1>2 DEF IInv, FilesInv, Busy
<1>5. ph = "made" => part[job.file] = "raw"
  BY <1>1 DEF IInv, FilesInv
<1> QED
  BY <1>3, <1>4, <1>5

\* The file of a marker job.
LEMMA MarkerFile ==
  ASSUME IInv, ph = "work", work.plan # <<>>, job.how = "marker"
  PROVE  /\ job.file \in MarkerFiles /\ job.file \in AllFiles
         /\ job.file[1] \in Kinds(Me)
         /\ GR!Fresh(job.file)
<1>1. Mine(Me, job) /\ pc = "collect" /\ job = work.plan[1] /\ 1 \in DOMAIN work.plan
  BY AtJob DEF Busy
<1>2. job.file \in MarkerFiles /\ job.file[1] \in Kinds(Me)
  BY <1>1 DEF Mine
<1>3. GR!Fresh(job.file)
  BY <1>1 DEF IInv, FilesInv, Busy
<1> QED
  BY <1>2, <1>3 DEF AllFiles

\* The name an exec collector gives a driver pod's file is its own, and free.
LEMMA DestFile ==
  ASSUME IInv, ph = "work", work.plan # <<>>, job.how \in Execs
  PROVE  LET f == destName(Me, job.pod) IN
         /\ Me = job.how /\ Me \in Execs /\ Me \in Kinds(Me)
         /\ f \in AllFiles /\ f[1] = Me
         /\ Me = "bug-report" => f \in ReportFiles
         /\ Me = "device-usage" => f \in UsageFiles
         /\ GR!Fresh(f)
         /\ \A q : q # job.pod => <<Me, NodeOf[q], q>> # f
<1> DEFINE p == job.pod
           f == destName(Me, p)
<1>1. Mine(Me, job) /\ pc = "collect" /\ job = work.plan[1] /\ 1 \in DOMAIN work.plan
  BY AtJob DEF Busy
<1>2. Me = job.how /\ Me \in Execs /\ p \in DriverPods
  BY <1>1 DEF Mine
<1>3. /\ Me = "bug-report" => f \in ReportFiles
      /\ Me = "device-usage" => f \in UsageFiles
  BY <1>2 DEF destName, ReportFiles, UsageFiles
<1>4. f \in AllFiles /\ f[1] = Me /\ Me \in Kinds(Me)
  BY <1>2, <1>3 DEF Execs, AllFiles, destName, Kinds, PodKinds
<1>5. f \notin work.taken
  BY <1>1, <1>2 DEF destName, IInv, LedgerInv, Busy
<1>6. GR!Fresh(f)
  BY <1>2, <1>4, <1>5 DEF IInv, LedgerInv, Busy
<1>7. \A q : q # p => <<Me, NodeOf[q], q>> # f
  BY DEF destName
<1> QED
  BY <1>2, <1>3, <1>4, <1>6, <1>7

\* Each step of a job is an operation of GatherRun on a file it allows.
LEMMA JobIsGather ==
  ASSUME IInv, Jobs
  PROVE  GR!Next \/ UNCHANGED GR!vars
<1> USE DEF run, bundle, GR!vars, GR!progress, GR!bundle
<1>1. ASSUME NEW f \in AllFiles,
             \/ GR!createArtifact(f) \/ GR!commit(f) \/ GR!discard(f)
             \/ GR!writeMarker(f) \/ GR!markerFails(f)
             \/ GR!copyStarts(f) \/ GR!copyDone(f) \/ GR!copyEmpty(f) \/ GR!discardArtifact(f)
      PROVE  GR!Next
  BY <1>1 DEF GR!Next, GR!Collecting
<1>2. CASE startFile
  <2>1. /\ Busy /\ ph = "work" /\ work.plan # <<>> /\ job.how \in Streamed /\ GR!InCollector
        /\ Local /\ UNCHANGED <<arts, collected>>
        /\ UNCHANGED bundle \/ createArtifact(job.file)
    BY <1>2 DEF startFile, Doing, Working, Busy
  <2>2. GR!Fresh(job.file) /\ job.file \in AllFiles \ (MarkerFiles \cup ReportFiles)
    BY <2>1, StreamedFile
  <2>3. CASE UNCHANGED bundle
    BY <2>1, <2>3 DEF Local
  <2>4. CASE createArtifact(job.file)
    <3>1. GR!createArtifact(job.file)
      BY <2>1, <2>2, <2>4 DEF createArtifact, GR!createArtifact, Local
    <3> QED
      BY <1>1, <2>2, <3>1
  <2> QED
    BY <2>1, <2>3, <2>4
<1>3. CASE commitFile \/ discardFile \/ describeNotFound
  <2>1. /\ GR!InCollector /\ ph = "made" /\ Local /\ Busy
        /\ commit(job.file) \/ discard(job.file)
    BY <1>3 DEF commitFile, discardFile, describeNotFound, Busy
  <2>2. work.plan # <<>> /\ job.how \in Streamed
    BY <2>1 DEF IInv, PhaseInv
  <2>3. part[job.file] = "raw" /\ job.file \in AllFiles
    BY <2>1, <2>2, StreamedFile
  <2>4. CASE commit(job.file)
    <3>1. GR!commit(job.file)
      BY <2>1, <2>3, <2>4 DEF commit, GR!commit, Local
    <3> QED
      BY <1>1, <2>3, <3>1
  <2>5. CASE discard(job.file)
    <3>1. GR!discard(job.file)
      BY <2>1, <2>3, <2>5 DEF discard, GR!discard, Local
    <3> QED
      BY <1>1, <2>3, <3>1
  <2> QED
    BY <2>1, <2>4, <2>5
<1>4. CASE writeMarker
  <2>1. ph = "work" /\ work.plan # <<>> /\ job.how = "marker" /\ GR!InCollector /\ Local
    BY <1>4 DEF writeMarker, Doing, Working
  <2>2. job.file \in MarkerFiles /\ job.file \in AllFiles /\ GR!Fresh(job.file)
    BY <2>1, MarkerFile
  <2>3. GR!writeMarker(job.file)
    BY <1>4, <2>1, <2>2 DEF writeMarker, GR!writeMarker, Local
  <2> QED
    BY <1>1, <2>2, <2>3
<1>5. CASE markerFails
  <2>1. ph = "work" /\ work.plan # <<>> /\ job.how = "marker" /\ GR!InCollector
    BY <1>5 DEF markerFails, Doing, Working
  <2>2. job.file \in MarkerFiles /\ job.file \in AllFiles /\ GR!Fresh(job.file)
    BY <2>1, MarkerFile
  <2>3. pc = "collect" /\ ~Copying
    BY <2>1 DEF GR!InCollector, Copying
  <2>4. (\A g \in AllFiles : part[g] # "raw") /\ (\A g \in ReportFiles : disk[g] # "torn")
    BY <2>1, <2>3 DEF IInv, FilesInv
  <2>5. GR!markerFails(job.file)
    BY <1>5, <2>1, <2>2, <2>4 DEF markerFails, Return, GR!markerFails
  <2> QED
    BY <1>1, <2>2, <2>5
<1>6. CASE notCollectable \/ probeDeviceUsage \/ usageCommandFails
  BY <1>6 DEF notCollectable, probeDeviceUsage, usageCommandFails, Local
<1>7. CASE execBugReport
  <2>1. /\ ph = "work" /\ work.plan # <<>> /\ job.how \in Execs /\ job.how = "bug-report"
        /\ GR!InCollector /\ Local
    BY <1>7 DEF execBugReport, Doing, Working, Execs
  <2> DEFINE f == destName("bug-report", job.pod)
  <2>2. f \in AllFiles /\ f \in ReportFiles /\ GR!Fresh(f)
    BY <2>1, DestFile
  <2>3. f \notin GR!Recorded
    BY <2>2 DEF GR!Fresh
  <2>4. \/ disk' = [disk EXCEPT ![f] = "absent"] /\ UNCHANGED <<part, arts, collected>>
        \/ disk' = [disk EXCEPT ![f] = "torn"] /\ UNCHANGED <<part, arts, collected>>
        \/ GR!recordArtifact(f) /\ UNCHANGED bundle
    BY <1>7 DEF execBugReport
  <2> HIDE DEF f
  <2>5. GR!discardArtifact(f) \/ GR!copyStarts(f) \/ GR!copyEmpty(f)
    BY <2>1, <2>2, <2>3, <2>4
       DEF GR!discardArtifact, GR!copyStarts, GR!copyEmpty, Local
  <2> QED
    BY <1>1, <2>2, <2>5
<1>8. CASE copyBugReport
  <2>1. /\ ph = "work" /\ work.plan # <<>> /\ job.how = "copying" /\ GR!InCollector /\ Local
        /\ pc = "collect" /\ Copying /\ Busy
    BY <1>8 DEF copyBugReport, Doing, Working, GR!InCollector, Copying, Busy
  <2>2. Mine(Me, job)
    BY <2>1, AtJob
  <2>3. job.file \in AllFiles /\ job.file \in ReportFiles
    BY <2>1, <2>2 DEF Mine, AllFiles
  <2>4. disk[job.file] = "torn" /\ job.file \notin GR!Recorded
    BY <2>1 DEF IInv, FilesInv
  <2>5. GR!copyDone(job.file) \/ GR!discardArtifact(job.file)
    BY <1>8, <2>1, <2>3, <2>4 DEF copyBugReport, GR!copyDone, GR!discardArtifact, Local
  <2> QED
    BY <1>1, <2>3, <2>5
<1>9. CASE finish
  <2>1. ph = "work" /\ work.plan = <<>> /\ GR!InCollector /\ ~Copying
    BY <1>9 DEF finish, Working, Copying
  <2>2. \/ GR!End("skipped", TRUE) \/ GR!End("error", FALSE)
        \/ GR!End("skipped", FALSE) \/ GR!End("ok", FALSE)
    BY <1>9 DEF finish, Return, Fail, Skip
  <2>3. UNCHANGED <<opts, pc, arts, collected, disk, part, dropped, outcome, manifest, code>>
    BY <1>9 DEF finish
  <2> QED
    BY <2>1, <2>2, <2>3, MayReturn DEF GR!Ended
<1> QED
  BY <1>2, <1>3, <1>4, <1>5, <1>6, <1>7, <1>8, <1>9 DEF Jobs

\* A step of a gather is a step of GatherRun or leaves its state alone.
LEMMA StepIsGather ==
  ASSUME IInv, [Next]_vars
  PROVE  [GR!Next]_(GR!vars)
<1>1. CASE Outer
  BY <1>1 DEF Outer, GR!Next, GR!Collecting
<1>2. CASE ClusterScoped \/ NamespaceScoped
  BY <1>2, ClusterIsRead, NamespaceIsRead, ReadIsGather
<1>3. CASE Jobs
  BY <1>3, JobIsGather
<1>4. CASE Churn \/ Terminated \/ UNCHANGED vars
  BY <1>4 DEF Churn, Terminated, vars, run, bundle, GR!vars, GR!progress, GR!bundle
<1> QED
  BY <1>1, <1>2, <1>3, <1>4 DEF Next, Step

\* So the shape of GatherRun's state is kept.
LEMMA GatherShape ==
  ASSUME IInv, [Next]_vars
  PROVE  GR!TypeOK'
<1>1. GR!vars = P!vars /\ GR!vars' = P!vars'
  BY DEF GR!vars, P!vars, GR!bundle, P!bundle, GR!progress, P!progress
<1>2. P!TypeOK /\ [P!Next]_(P!vars)
  <2>1. GR!TypeOK
    BY DEF IInv, Shape
  <2>2. GR!Next \/ GR!vars' = GR!vars
    BY StepIsGather
  <2> QED
    BY <1>1, <2>1, <2>2, SameRun
<1>3. P!TypeOK'
  BY <1>2, P!TypeStep, GatherRunAssumptions
<1>4. (GR!TypeOK <=> P!TypeOK)'
  BY SameRun, PTL
<1> QED
  BY <1>3, <1>4

-----------------------------------------------------------------------------
(* What is left of a plan. *)

\* A new plan has no copy or usage at its head yet.
LEMMA NewIsGood ==
  ASSUME NEW c, NEW g, NEW plan, NewPlan(c, g, plan)
  PROVE  GoodPlan(c, g, plan)
BY DEF NewPlan, GoodPlan

\* What is left of a plan is a new plan, and its jobs are those that followed.
LEMMA PlanTail ==
  ASSUME NEW c, NEW g, NEW plan, GoodPlan(c, g, plan), plan # <<>>
  PROVE  /\ NewPlan(c, g, Tail(plan))
         /\ \A i \in DOMAIN Tail(plan) :
              /\ i + 1 \in DOMAIN plan /\ i + 1 # 1
              /\ Tail(plan)[i] = plan[i + 1]
              /\ Apart(plan[1], plan[i + 1]) /\ Apart(plan[i + 1], plan[1])
<1>1. plan \in Seq(JobSet) /\ Len(plan) \in Nat /\ Len(plan) >= 1 /\ DOMAIN plan = 1 .. Len(plan)
  BY DEF GoodPlan, OwnPlan
<1>2. /\ Tail(plan) \in Seq(JobSet) /\ DOMAIN Tail(plan) = 1 .. (Len(plan) - 1)
      /\ \A i \in DOMAIN Tail(plan) : Tail(plan)[i] = plan[i + 1]
  BY <1>1
<1> DEFINE tail == Tail(plan)
<1> HIDE DEF tail
<1>3. /\ tail \in Seq(JobSet) /\ DOMAIN tail = 1 .. (Len(plan) - 1)
      /\ \A i \in DOMAIN tail : tail[i] = plan[i + 1] /\ i + 1 \in DOMAIN plan /\ i + 1 > 1
  BY <1>1, <1>2 DEF tail
<1>4. \A i \in DOMAIN tail : Mine(c, tail[i]) /\ Prepared(g, tail[i]) /\ tail[i].how \notin Second
  BY <1>3 DEF GoodPlan, OwnPlan
<1>5. \A i, j \in DOMAIN tail : i # j => Apart(tail[i], tail[j])
  <2> SUFFICES ASSUME NEW i \in DOMAIN tail, NEW j \in DOMAIN tail, i # j
               PROVE  Apart(tail[i], tail[j])
    OBVIOUS
  <2>1. i + 1 # j + 1 /\ i + 1 \in DOMAIN plan /\ j + 1 \in DOMAIN plan
    BY <1>1, <1>3
  <2>2. Apart(plan[i + 1], plan[j + 1])
    BY <2>1 DEF GoodPlan, OwnPlan
  <2> QED
    BY <1>3, <2>2
<1>6. \A i \in DOMAIN tail : Apart(plan[1], plan[i + 1]) /\ Apart(plan[i + 1], plan[1])
  <2> SUFFICES ASSUME NEW i \in DOMAIN tail
               PROVE  Apart(plan[1], plan[i + 1]) /\ Apart(plan[i + 1], plan[1])
    OBVIOUS
  <2>1. i + 1 # 1 /\ i + 1 \in DOMAIN plan /\ 1 \in DOMAIN plan
    BY <1>1, <1>3
  <2> QED
    BY <2>1 DEF GoodPlan, OwnPlan
<1>7. NewPlan(c, g, tail)
  BY <1>3, <1>4, <1>5 DEF NewPlan, OwnPlan
<1> QED
  BY <1>1, <1>3, <1>6, <1>7 DEF tail

\* Nothing left is a plan.
LEMMA EmptyPlan ==
  ASSUME NEW c, NEW g
  PROVE  NewPlan(c, g, <<>>) /\ DOMAIN << >> = {}
BY DEF NewPlan, OwnPlan

\* The exec of a driver pod is followed by the copy or the file of the same pod.
LEMMA PlanSecond ==
  ASSUME NEW c \in Execs, NEW g, NEW plan, GoodPlan(c, g, plan), plan # <<>>,
         NEW j \in JobSet, Mine(c, j), Prepared(g, j), j.how \in Second, j.pod = plan[1].pod,
         plan[1].how \in Execs
  PROVE  LET next == <<j>> \o Tail(plan) IN
         /\ GoodPlan(c, g, next)
         /\ next # <<>> /\ Head(next) = j /\ next[1] = j
         /\ \A i \in DOMAIN next : i # 1 => i \in DOMAIN plan /\ next[i] = plan[i]
                                            /\ plan[i].pod # j.pod
<1> DEFINE next == <<j>> \o Tail(plan)
<1>1. /\ plan \in Seq(JobSet) /\ Len(plan) \in Nat /\ Len(plan) >= 1
      /\ DOMAIN plan = 1 .. Len(plan) /\ 1 \in DOMAIN plan
  BY DEF GoodPlan, OwnPlan
<1>2. /\ next \in Seq(JobSet) /\ DOMAIN next = DOMAIN plan /\ next[1] = j
      /\ \A i \in DOMAIN next : i # 1 => next[i] = plan[i]
      /\ next # <<>> /\ Head(next) = j
  BY <1>1
<1> HIDE DEF next
<1>3. \A i \in DOMAIN plan : plan[i].how \notin Plain \cup {"marker"}
  BY DEF GoodPlan, OwnPlan, Mine
<1>4. \A i \in DOMAIN plan : i # 1 => plan[i].pod # j.pod
  BY <1>1, <1>3 DEF GoodPlan, OwnPlan, Apart
<1>5. \A i, k \in DOMAIN next : i # k => Apart(next[i], next[k])
  <2>1. \A i \in DOMAIN next : next[i].how \notin Plain \cup {"marker"}
    BY <1>2, <1>3 DEF Second, Plain
  <2>2. \A i, k \in DOMAIN next : i # k => next[i].pod # next[k].pod
    BY <1>2, <1>3, <1>4 DEF GoodPlan, OwnPlan, Apart
  <2> QED
    BY <2>1, <2>2 DEF Apart
<1>6. \A i \in DOMAIN next : Mine(c, next[i]) /\ Prepared(g, next[i])
  BY <1>2 DEF GoodPlan, OwnPlan
<1>7. \A i \in DOMAIN next : i > 1 => next[i].how \notin Second
  BY <1>1, <1>2 DEF GoodPlan
<1> QED
  BY <1>2, <1>4, <1>5, <1>6, <1>7 DEF GoodPlan, OwnPlan, next

-----------------------------------------------------------------------------
(* A read keeps the invariant. *)

\* A step that leaves the files alone leaves every name as it was.
LEMMA SameFiles ==
  ASSUME UNCHANGED <<disk, part, arts>>
  PROVE  /\ GR!Recorded' = GR!Recorded
         /\ \A f : GR!Fresh(f)' <=> GR!Fresh(f)
BY DEF GR!Recorded, GR!Fresh

\* A file of the running collector is free until it goes to work.
LEMMA OwnIsFresh ==
  ASSUME IInv, GR!InCollector, ~Busy, NEW f \in AllFiles, f[1] \in Kinds(Me)
  PROVE  GR!Fresh(f)
<1>1. pc = "collect" /\ at \in 1 .. N /\ scenario \in Scenarios
  BY DEF GR!InCollector, GR!Collector, IInv, Shape
<1>2. GR!Fresh(f) \/ Claimed(f)
  BY <1>1 DEF IInv, FilesInv
<1>3. ASSUME Claimed(f) PROVE FALSE
  <2>1. PICK i \in 1 .. N : f[1] \in Kinds(Registry[i]) /\ i < at
    BY <1>3 DEF Claimed
  <2>2. Registry[i] = Registry[at]
    BY <2>1, KindsApart DEF Me
  <2>3. i = at
    BY <1>1, <2>2, ScenariosAssumption DEF Registry
  <2> QED
    BY <1>1, <2>1, <2>3
<1> QED
  BY <1>2, <1>3

\* The facts of the shape that the steps below use.
LEMMA Shapes ==
  ASSUME IInv
  PROVE  /\ N \in Nat /\ at \in 1 .. (N + 1) /\ at \in Int
         /\ DOMAIN status = 1 .. N /\ status = [c \in 1 .. N |-> status[c]]
         /\ DOMAIN Registry = 1 .. N /\ scenario \in Scenarios
         /\ GR!InCollector => at \in 1 .. N /\ pc = "collect"
<1>1. N \in Nat /\ DOMAIN Registry = 1 .. N /\ scenario \in Scenarios
  BY ScenariosAssumption DEF IInv, Shape, Registry
<1>2. status \in [1 .. N -> GR!Statuses] /\ at \in 1 .. (N + 1)
  BY DEF IInv, Shape, GR!TypeOK, GR!Collector
<1> QED
  BY <1>1, <1>2 DEF GR!InCollector, GR!Collector

\* A collector that returns leaves nothing unfinished, and its names claimed.
LEMMA LeaveFiles ==
  ASSUME IInv, GR!InCollector, NEW st, NEW deny, Return(st, deny), UNCHANGED <<scenario, pc>>,
         \A f \in AllFiles : part'[f] = "absent",
         \A f \in ReportFiles : disk'[f] # "torn",
         \A f \in AllFiles : GR!Fresh(f) => GR!Fresh(f)' \/ f[1] \in Kinds(Me)
  PROVE  PhaseInv' /\ PlanInv' /\ FilesInv' /\ LedgerInv'
<1>1. /\ status' = [status EXCEPT ![at] = st] /\ at' = at + 1 /\ ph' = "read" /\ work' = NoWork
      /\ ~Busy' /\ ~Copying'
  BY DEF Return, GR!End, Busy, Copying
<1>2. N \in Nat /\ at \in 1 .. N /\ DOMAIN status = 1 .. N
  BY Shapes
<1>3. PhaseInv'
  <2>1. \A c \in 1 .. N : c > at => status'[c] = "none"
    BY <1>1, <1>2 DEF IInv, PhaseInv
  <2> QED
    BY <1>1, <1>2, <2>1 DEF PhaseInv
<1>4. PlanInv' /\ LedgerInv'
  BY <1>1 DEF PlanInv, LedgerInv
<1>5. ASSUME NEW f \in AllFiles
      PROVE  GR!Fresh(f)' \/ Claimed(f)'
  <2>1. pc = "collect"
    BY DEF GR!InCollector
  <2>2. GR!Fresh(f) \/ Claimed(f)
    BY <2>1 DEF IInv, FilesInv
  <2>3. Registry' = Registry
    BY DEF Registry
  <2>4. Claimed(f) => Claimed(f)'
    BY <1>1, <1>2, <2>3 DEF Claimed
  <2>5. f[1] \in Kinds(Me) => Claimed(f)'
    BY <1>1, <1>2, <2>3 DEF Claimed, Me
  <2> QED
    BY <2>2, <2>4, <2>5
<1>6. FilesInv'
  BY <1>1, <1>5 DEF FilesInv
<1> QED
  BY <1>3, <1>4, <1>6

\* What a collector that returns has to have said.
LEMMA LeaveTalk ==
  ASSUME IInv, GR!InCollector, NEW st, NEW deny, Return(st, deny), UNCHANGED scenario,
         \A c \in 1 .. N : c # at => heard'[c] = heard[c] /\ said'[c] = said[c],
         ~(heard'[at] \subseteq Presumed) =>
           /\ st = "error" \/ said'[at] \in {"refused", "failed"}
           /\ Me \in Execs => deny \/ st = "error"
  PROVE  TalkInv'
<1>1. /\ status' = [status EXCEPT ![at] = st] /\ at' = at + 1 /\ denied' = (denied \/ deny)
      /\ ~Busy'
  BY DEF Return, GR!End, Busy
<1>2. N \in Nat /\ at \in 1 .. N /\ DOMAIN status = 1 .. N /\ Registry' = Registry
  BY Shapes DEF Registry
<1>3. \A c \in 1 .. N : c > at => heard'[c] = {}
  BY <1>2 DEF IInv, TalkInv
<1>4. ASSUME NEW c \in 1 .. N, c < at + 1, ~(heard'[c] \subseteq Presumed)
      PROVE  /\ status'[c] = "error" \/ said'[c] \in {"refused", "failed"}
             /\ Registry[c] \in Execs => denied' \/ status'[c] = "error"
  <2>1. CASE c = at
    <3>1. status'[c] = st
      BY <1>1, <1>2, <2>1
    <3> QED
      BY <1>1, <1>4, <2>1, <3>1 DEF Me
  <2>2. CASE c < at
    <3>1. status'[c] = status[c] /\ heard'[c] = heard[c] /\ said'[c] = said[c]
      BY <1>1, <1>2, <2>2
    <3> QED
      BY <1>1, <1>4, <2>2, <3>1 DEF IInv, TalkInv
  <2> QED
    BY <1>2, <1>4, <2>1, <2>2
<1> QED
  BY <1>1, <1>2, <1>3, <1>4 DEF TalkInv

\* A collector that always writes leaves a file or an error behind it.
LEMMA LeaveEvidence ==
  ASSUME IInv, GR!InCollector, NEW st, NEW deny, Return(st, deny),
         UNCHANGED <<scenario, collected>>,
         Me \in Unconditional => collected \/ deny \/ st = "error"
  PROVE  EvidenceInv'
<1>1. /\ status' = [status EXCEPT ![at] = st] /\ at' = at + 1 /\ denied' = (denied \/ deny)
      /\ ~Busy'
  BY DEF Return, GR!End, Busy
<1>2. N \in Nat /\ at \in 1 .. N /\ DOMAIN status = 1 .. N /\ Registry' = Registry
  BY Shapes DEF Registry
<1>3. ASSUME NEW c \in 1 .. N, c < at + 1, Registry[c] \in Unconditional
      PROVE  collected \/ denied' \/ status'[c] = "error"
  <2>1. CASE c = at
    <3>1. status'[c] = st
      BY <1>1, <1>2, <2>1
    <3> QED
      BY <1>1, <1>3, <2>1, <3>1 DEF Me
  <2>2. CASE c < at
    <3>1. status'[c] = status[c]
      BY <1>1, <1>2, <2>2
    <3> QED
      BY <1>1, <1>3, <2>2, <3>1 DEF IInv, EvidenceInv
  <2> QED
    BY <1>2, <1>3, <2>1, <2>2
<1> QED
  BY <1>1, <1>2, <1>3 DEF EvidenceInv

\* The part of the shape that is not GatherRun's, for any step of a collector.
LEMMA StepShape ==
  ASSUME IInv, [Next]_vars, UNCHANGED <<scenario, live, churn>>,
         DOMAIN gs' = DOMAIN gs,
         gs'.operand \subseteq Pods, gs'.operator \subseteq Pods, gs'.drivers \subseteq DriverPods,
         ph' \in {"read", "beta", "operator", "work", "made"},
         heard' \in [1 .. N -> SUBSET Heard], faults' \in 0 .. MaxFaults,
         DOMAIN work' = {"plan", "errs", "got", "deny", "taken"}, DOMAIN said' = 1 .. N
  PROVE  Shape'
<1>1. GR!TypeOK'
  BY GatherShape
<1>2. DOMAIN Registry' = 1 .. N
  BY Shapes DEF Registry
<1>3. gs'.drivers \subseteq Pods
  BY PodsAssumption
<1>4. TypeOK'
  BY <1>2, <1>3 DEF TypeOK, IInv, Shape, Heard
<1> QED
  BY <1>1, <1>4 DEF Shape, IInv

\* A read keeps the shape.
LEMMA ReadShape ==
  ASSUME IInv, [Next]_vars, ReadStep
  PROVE  Shape'
<1>1. UNCHANGED <<scenario, live, churn, faults>>
  BY DEF ReadStep, Read, run, bounds
<1>2. /\ gs.operand \subseteq Pods /\ gs.operator \subseteq Pods /\ gs.drivers \subseteq DriverPods
      /\ faults \in 0 .. MaxFaults /\ DOMAIN said = 1 .. N
      /\ DOMAIN work = {"plan", "errs", "got", "deny", "taken"}
  BY DEF IInv, Shape, TypeOK
<1>3. DOMAIN NoWork = {"plan", "errs", "got", "deny", "taken"}
  BY DEF NoWork
<1>4. CASE Planned
  BY <1>1, <1>2, <1>3, <1>4, StepShape DEF Planned, Told, Spoke
<1>5. CASE Returned
  BY <1>1, <1>2, <1>3, <1>5, StepShape DEF Returned, Return, Told, Spoke
<1>6. CASE Waiting
  BY <1>1, <1>2, <1>6, StepShape DEF Waiting, Told
<1> QED
  BY <1>4, <1>5, <1>6 DEF ReadStep

\* A read that ends in a plan keeps the invariant.
LEMMA PlannedKeeps ==
  ASSUME IInv, ReadStep, Planned
  PROVE  /\ PhaseInv' /\ PlanInv' /\ FilesInv' /\ LedgerInv'
         /\ TalkInv' /\ ListInv' /\ EvidenceInv'
<1>1. PICK plan, h, s :
        /\ ph' = "work" /\ work' = [NoWork EXCEPT !.plan = plan]
        /\ UNCHANGED <<status, at, denied, gs>>
        /\ NewPlan(Me, gs, plan)
        /\ Me \in Unconditional => plan # <<>> /\ Head(plan).how = "file"
        /\ Told(h) /\ Spoke(s) /\ Honest(h, s)
  BY DEF Planned
<1>2. UNCHANGED <<scenario, pc, disk, part, arts, collected, listed>>
  BY DEF ReadStep, Read, run, bundle
<1>3. /\ GR!InCollector /\ ~Busy /\ pc = "collect" /\ at \in 1 .. N /\ N \in Nat
  BY Shapes DEF ReadStep
<1>4. Registry' = Registry /\ Me' = Me /\ Busy'
  BY <1>1, <1>2 DEF Registry, Me, Busy
<1>5. work'.plan = plan /\ work'.taken = {}
  BY <1>1 DEF NoWork
<1>6. PhaseInv'
  <2>1. GR!InCollector'
    BY <1>1, <1>2, <1>3 DEF GR!InCollector
  <2> QED
    BY <1>1, <1>4, <2>1 DEF IInv, PhaseInv
<1>7. PlanInv'
  BY <1>1, <1>4, <1>5, NewIsGood DEF PlanInv
<1>8. /\ plan \in Seq(JobSet)
      /\ \A i \in DOMAIN plan : Mine(Me, plan[i]) /\ plan[i].how \notin Second
  BY <1>1 DEF NewPlan, OwnPlan
<1>9. /\ \A f \in AllFiles : part'[f] = "absent"
      /\ \A f \in ReportFiles : disk'[f] # "torn"
      /\ \A f \in AllFiles : GR!Fresh(f)' \/ Claimed(f)'
  <2>1. (\A f \in AllFiles : part[f] = "absent") /\ (\A f \in ReportFiles : disk[f] # "torn")
    BY <1>3 DEF IInv, FilesInv, Busy, Copying
  <2>2. \A f \in AllFiles : GR!Fresh(f) \/ Claimed(f)
    BY <1>3 DEF IInv, FilesInv
  <2>3. \A f : Claimed(f) => Claimed(f)'
    BY <1>1, <1>3, <1>4 DEF Claimed
  <2> QED
    BY <1>2, <2>1, <2>2, <2>3, SameFiles
<1>10. ~Copying'
  BY <1>5, <1>8 DEF Copying, job, Second
<1>11. \A i \in DOMAIN plan :
         plan[i].how \in Plain \cup {"marker", "usage"} => GR!Fresh(plan[i].file)'
  <2> SUFFICES ASSUME NEW i \in DOMAIN plan, plan[i].how \in Plain \cup {"marker", "usage"}
               PROVE  GR!Fresh(plan[i].file)
    BY <1>2, SameFiles
  <2>1. plan[i].how \in Plain \cup {"marker"} /\ Mine(Me, plan[i])
    BY <1>8 DEF Second
  <2>2. plan[i].file \in AllFiles /\ plan[i].file[1] \in Kinds(Me)
    BY <2>1 DEF Mine, AllFiles
  <2> QED
    BY <1>3, <2>2, OwnIsFresh
<1>12. FilesInv'
  BY <1>1, <1>5, <1>9, <1>10, <1>11 DEF FilesInv
<1>13. LedgerInv'
  <2>1. SUFFICES ASSUME Me \in Execs
                 PROVE  /\ \A f \in AllFiles : f[1] = Me => GR!Fresh(f)'
                        /\ \A i \in DOMAIN plan : plan[i].how \notin Second
    BY <1>4, <1>5 DEF LedgerInv
  <2>2. Me \in Kinds(Me)
    BY <2>1 DEF Execs, Kinds, PodKinds
  <2> QED
    BY <1>2, <1>3, <1>8, <2>2, OwnIsFresh, SameFiles
<1>14. TalkInv'
  <2>1. \A c \in 1 .. N : c > at => heard'[c] = {}
    BY <1>1, <1>3 DEF IInv, TalkInv, Told
  <2>2. \A c \in 1 .. N : c < at => heard'[c] = heard[c] /\ said'[c] = said[c]
    BY <1>1, <1>3 DEF Told, Spoke
  <2>3. \A c \in 1 .. N : (c < at /\ ~(heard'[c] \subseteq Presumed)) =>
          /\ status[c] = "error" \/ said'[c] \in {"refused", "failed"}
          /\ Registry[c] \in Execs => denied \/ status[c] = "error"
    BY <2>2 DEF IInv, TalkInv
  <2>4. ~(heard'[at] \subseteq Presumed) => /\ Me \notin Execs
                                            /\ said'[at] \in {"refused", "failed"}
    BY <1>1 DEF Told, Spoke, Honest
  <2> QED
    BY <1>1, <1>4, <2>1, <2>3, <2>4 DEF TalkInv
<1>15. ListInv'
  BY <1>1, <1>2, SameFiles DEF IInv, ListInv
<1>16. EvidenceInv'
  BY <1>1, <1>2, <1>4, <1>5 DEF IInv, EvidenceInv, job
<1> QED
  BY <1>6, <1>7, <1>12, <1>13, <1>14, <1>15, <1>16

\* A read that returns keeps it.
LEMMA ReturnedKeeps ==
  ASSUME IInv, ReadStep, Returned
  PROVE  /\ PhaseInv' /\ PlanInv' /\ FilesInv' /\ LedgerInv'
         /\ TalkInv' /\ ListInv' /\ EvidenceInv'
<1>0. PICK st \in {"skipped", "error"} : \E h, s :
        /\ Return(st, FALSE) /\ UNCHANGED gs
        /\ Told(h) /\ Spoke(s)
        /\ st = "skipped" => Honest(h, s) /\ Me \notin Unconditional
  BY DEF Returned
<1>1. PICK h, s :
        /\ Return(st, FALSE) /\ UNCHANGED gs
        /\ Told(h) /\ Spoke(s)
        /\ st = "skipped" => Honest(h, s) /\ Me \notin Unconditional
  BY <1>0
<1>2. UNCHANGED <<scenario, pc, disk, part, arts, collected, listed>>
  BY DEF ReadStep, Read, run, bundle
<1>3. GR!InCollector /\ ~Busy /\ pc = "collect"
  BY Shapes DEF ReadStep
<1>4. PhaseInv' /\ PlanInv' /\ FilesInv' /\ LedgerInv'
  <2>1. (\A f \in AllFiles : part[f] = "absent") /\ (\A f \in ReportFiles : disk[f] # "torn")
    BY <1>3 DEF IInv, FilesInv, Busy, Copying
  <2> QED
    BY <1>1, <1>2, <1>3, <2>1, SameFiles, LeaveFiles
<1>5. TalkInv'
  <2>1. heard'[at] = h /\ said'[at] = s
        /\ \A c \in 1 .. N : c # at => heard'[c] = heard[c] /\ said'[c] = said[c]
    BY <1>1 DEF Told, Spoke
  <2>2. ~(h \subseteq Presumed) => /\ st = "error" \/ s \in {"refused", "failed"}
                                   /\ Me \in Execs => st = "error"
    BY <1>1 DEF Honest
  <2> QED
    BY <1>1, <1>2, <1>3, <2>1, <2>2, LeaveTalk
<1>6. ListInv'
  BY <1>1, <1>2, SameFiles DEF IInv, ListInv
<1>7. EvidenceInv'
  BY <1>1, <1>2, <1>3, LeaveEvidence
<1> QED
  BY <1>4, <1>5, <1>6, <1>7

\* A read that asks again keeps it.
LEMMA WaitingKeeps ==
  ASSUME IInv, ReadStep, Waiting
  PROVE  /\ PhaseInv' /\ PlanInv' /\ FilesInv' /\ LedgerInv'
         /\ TalkInv' /\ ListInv' /\ EvidenceInv'
<1>1. /\ UNCHANGED <<status, at, denied, work, said>>
      /\ ph' \in {"read", "beta", "operator"} /\ (ph' = "beta" => Me = "resource-slices")
      /\ gs.prepared => gs'.prepared /\ gs'.operand = gs.operand /\ gs'.operator = gs.operator
      /\ Told({})
  BY DEF Waiting
<1>2. UNCHANGED <<scenario, pc, disk, part, arts, collected, listed>>
  BY DEF ReadStep, Read, run, bundle
<1>3. GR!InCollector /\ ~Busy /\ pc = "collect" /\ at \in 1 .. N /\ N \in Nat
  BY Shapes DEF ReadStep
<1>4. Registry' = Registry /\ Me' = Me /\ ~Busy' /\ ~Copying' /\ ph' # "made"
  BY <1>1, <1>2 DEF Registry, Me, Busy, Copying
<1>5. PhaseInv'
  <2>1. GR!InCollector'
    BY <1>1, <1>2, <1>3 DEF GR!InCollector
  <2> QED
    BY <1>1, <1>3, <1>4, <2>1 DEF IInv, PhaseInv
<1>6. PlanInv' /\ LedgerInv'
  BY <1>4 DEF PlanInv, LedgerInv
<1>7. FilesInv'
  <2>1. (\A f \in AllFiles : part[f] = "absent") /\ (\A f \in ReportFiles : disk[f] # "torn")
    BY <1>3 DEF IInv, FilesInv, Busy, Copying
  <2>2. \A f \in AllFiles : GR!Fresh(f) \/ Claimed(f)
    BY <1>3 DEF IInv, FilesInv
  <2>3. \A f : Claimed(f) => Claimed(f)'
    BY <1>1, <1>3, <1>4 DEF Claimed
  <2> QED
    BY <1>2, <1>4, <2>1, <2>2, <2>3, SameFiles DEF FilesInv
<1>8. TalkInv'
  <2>1. \A c \in 1 .. N : heard'[c] = heard[c]
    BY <1>1, <1>3 DEF IInv, TalkInv, Told
  <2> QED
    BY <1>1, <1>3, <1>4, <2>1 DEF IInv, TalkInv
<1>9. ListInv'
  BY <1>1, <1>2, SameFiles DEF IInv, ListInv
<1>10. EvidenceInv'
  BY <1>1, <1>2, <1>4 DEF IInv, EvidenceInv
<1> QED
  BY <1>5, <1>6, <1>7, <1>8, <1>9, <1>10

\* So every read does.
LEMMA ReadKeeps ==
  ASSUME IInv, [Next]_vars, ReadStep
  PROVE  IInv'
BY ReadShape, PlannedKeeps, ReturnedKeeps, WaitingKeeps DEF ReadStep, IInv

-----------------------------------------------------------------------------
(* The steps outside a collector keep the invariant. *)

\* They find no collector at work, and write nothing before the bundle is closed
\* but the logs.
LEMMA OuterFrame ==
  ASSUME IInv, Outer
  PROVE  /\ ph = "read"
         /\ UNCHANGED <<at, arts, collected, denied, scenario, live, gs, ph, work,
                        heard, noted, said, listed, churn, faults>>
         /\ status' = status \/ (pc = "collect" /\ status' = [status EXCEPT ![at] = "open"])
         /\ pc' \in {"start", "node", "collect"} =>
              /\ pc \in {"start", "node", "collect"} /\ part' = part
              /\ \A f \in AllFiles : disk'[f] = disk[f] \/ disk'[f] = "absent"
<1> USE DEF GR!progress, GR!bundle
<1>1. UNCHANGED <<scenario, live, gs, ph, work, heard, noted, said, listed, churn, faults>>
  BY DEF Outer, inner, history, bounds
<1>2. ph # "read" => pc = "collect" /\ at \in 1 .. N /\ N \in Nat /\ status[at] = "open"
  BY Shapes DEF IInv, PhaseInv, GR!InCollector
<1>3. CASE GR!Setup
  <2>1. /\ pc \in {"start", "node"} /\ UNCHANGED <<at, arts, collected, denied, status, part>>
        /\ disk' = disk \/ \E made : disk' = [f \in GR!Names |-> IF f \in made THEN "raw" ELSE "absent"]
                                     /\ made \cap AllFiles = {}
    <3>1. AllFiles \cap {<<"must-gather.log">>, <<"must-gather.stderr.log">>} = {}
      BY GatherRunAssumptions DEF P!FilesAssumption
    <3> QED
      BY <1>3, <3>1 DEF GR!Setup, GR!Refused, GR!InitFails, GR!NewGatherer, GR!CheckNode,
                        GR!NoSuchNode, GR!Logs
  <2> QED
    BY <1>1, <1>2, <2>1 DEF GR!Names
<1>4. CASE GR!Begin
  BY <1>1, <1>2, <1>4 DEF GR!Begin
<1>5. CASE GR!collect
  BY <1>1, <1>2, <1>5 DEF GR!collect
<1>6. CASE GR!Sealing
  <2>1. /\ pc \in {"deferred", "redact", "index"} /\ pc' \notin {"start", "node", "collect"}
        /\ UNCHANGED <<at, arts, collected, denied, status>>
    BY <1>6 DEF GR!Sealing, GR!writeManifest, GR!redactFile, GR!dropFile, GR!redactPart,
                GR!redactBundleFails, GR!redactBundle, GR!indexBundle, GR!indexFails
  <2> QED
    BY <1>1, <1>2, <2>1
<1> QED
  BY <1>3, <1>4, <1>5, <1>6 DEF Outer

\* They keep the invariant.
LEMMA OuterKeeps ==
  ASSUME IInv, [Next]_vars, Outer
  PROVE  IInv'
<1>1. /\ ph = "read"
      /\ UNCHANGED <<at, arts, collected, denied, scenario, live, gs, ph, work,
                     heard, noted, said, listed, churn, faults>>
      /\ status' = status \/ (pc = "collect" /\ status' = [status EXCEPT ![at] = "open"])
      /\ pc' \in {"start", "node", "collect"} =>
           /\ pc \in {"start", "node", "collect"} /\ part' = part
           /\ \A f \in AllFiles : disk'[f] = disk[f] \/ disk'[f] = "absent"
  BY OuterFrame
<1>2. /\ ~Busy /\ ~Busy' /\ ~Copying /\ ~Copying' /\ ph' # "made"
      /\ Registry' = Registry /\ Me' = Me
  BY <1>1 DEF Busy, Copying, Registry, Me
<1>3. N \in Nat /\ at \in 1 .. (N + 1) /\ DOMAIN status = 1 .. N
  BY Shapes
<1>4. GR!Recorded' = GR!Recorded
  BY <1>1 DEF GR!Recorded
<1>5. Shape'
  <2>1. /\ gs'.operand \subseteq Pods /\ gs'.operator \subseteq Pods /\ gs'.drivers \subseteq DriverPods
        /\ ph' = "read" /\ faults' \in 0 .. MaxFaults
        /\ DOMAIN work' = {"plan", "errs", "got", "deny", "taken"} /\ DOMAIN said' = 1 .. N
    BY <1>1 DEF IInv, Shape, TypeOK
  <2>2. heard' \in [1 .. N -> SUBSET Heard]
    BY <1>1, Shapes DEF IInv, Shape, TypeOK, Heard
  <2> QED
    BY <1>1, <2>1, <2>2, StepShape
<1>6. PhaseInv'
  <2>1. \A c \in 1 .. N : /\ c > at => status'[c] = "none"
                          /\ c = at => status'[c] \in {"none", "open"}
    BY <1>1, <1>3 DEF IInv, PhaseInv
  <2> QED
    BY <1>1, <1>2, <2>1 DEF IInv, PhaseInv
<1>7. PlanInv' /\ LedgerInv'
  BY <1>2 DEF PlanInv, LedgerInv
<1>8. FilesInv'
  <2>1. SUFFICES ASSUME pc' \in {"start", "node", "collect"}
                 PROVE  /\ \A f \in AllFiles : part'[f] = "absent"
                        /\ \A f \in ReportFiles : disk'[f] # "torn"
                        /\ \A f \in AllFiles : GR!Fresh(f)' \/ Claimed(f)'
    BY <1>2 DEF FilesInv
  <2>2. /\ part' = part /\ \A f \in AllFiles : disk'[f] = disk[f] \/ disk'[f] = "absent"
        /\ \A f \in AllFiles : part[f] = "absent"
        /\ \A f \in ReportFiles : disk[f] # "torn"
        /\ \A f \in AllFiles : GR!Fresh(f) \/ Claimed(f)
    BY <1>1, <1>2, <2>1 DEF IInv, FilesInv
  <2>3. \A f \in AllFiles : GR!Fresh(f) => GR!Fresh(f)'
    BY <1>4, <2>2 DEF GR!Fresh
  <2>4. \A f : Claimed(f) => Claimed(f)'
    BY <1>1, <1>2 DEF Claimed
  <2>5. ReportFiles \subseteq AllFiles
    BY DEF AllFiles
  <2> QED
    BY <2>2, <2>3, <2>4, <2>5
<1>9. TalkInv' /\ EvidenceInv'
  <2>1. \A c \in 1 .. N : c < at => status'[c] = status[c]
    BY <1>1, <1>3
  <2> QED
    BY <1>1, <1>2, <2>1 DEF IInv, TalkInv, EvidenceInv
<1>10. ListInv'
  BY <1>1, <1>4 DEF IInv, ListInv
<1> QED
  BY <1>5, <1>6, <1>7, <1>8, <1>9, <1>10 DEF IInv

\* The cluster changes, a usage command fails, or nothing does.
LEMMA IdleKeeps ==
  ASSUME IInv, [Next]_vars, Churn \/ usageCommandFails \/ UNCHANGED vars
  PROVE  IInv'
<1>1. /\ UNCHANGED <<scenario, pc, at, status, arts, collected, denied, disk, part, gs, ph,
                     work, heard, said, listed, faults>>
      /\ live' = live \/ \E p \in scenario.pods : live' = (live \ {p}) \cup ({p} \ live)
      /\ churn' = churn \/ (churn < scenario.churn /\ churn' = churn + 1)
  BY DEF Churn, usageCommandFails, vars, run, inner, history, bounds, bundle
<1>2. Registry' = Registry /\ Me' = Me /\ Busy' = Busy /\ Copying' = Copying /\ job' = job
  BY <1>1 DEF Registry, Me, Busy, Copying, job
<1>3. Shape'
  <2>1. live' \subseteq Pods
    BY <1>1, ScenariosAssumption DEF IInv, Shape, TypeOK
  <2>2. churn' \in 0 .. scenario.churn
    BY <1>1, ScenariosAssumption DEF IInv, Shape, TypeOK
  <2>3. GR!TypeOK'
    BY GatherShape
  <2> QED
    BY <1>1, <1>2, <2>1, <2>2, <2>3 DEF IInv, Shape, TypeOK
<1>4. PhaseInv'
  <2>1. GR!InCollector' = GR!InCollector
    BY <1>1 DEF GR!InCollector
  <2> QED
    BY <1>1, <1>2, <2>1 DEF IInv, PhaseInv
<1>5. PlanInv'
  BY <1>1, <1>2 DEF IInv, PlanInv
<1>6. FilesInv' /\ LedgerInv'
  <2>1. \A f : Claimed(f)' <=> Claimed(f)
    BY <1>1, <1>2 DEF Claimed
  <2> QED
    BY <1>1, <1>2, <2>1, SameFiles DEF IInv, FilesInv, LedgerInv
<1>7. TalkInv' /\ ListInv' /\ EvidenceInv'
  BY <1>1, <1>2, SameFiles DEF IInv, TalkInv, ListInv, EvidenceInv
<1> QED
  BY <1>3, <1>4, <1>5, <1>6, <1>7 DEF IInv

-----------------------------------------------------------------------------
(* The jobs keep the invariant. *)

\* What a job leaves alone.
LEMMA LocalFrame ==
  ASSUME Local
  PROVE  /\ UNCHANGED <<scenario, pc, at, status, denied, live, gs, said, churn>>
         /\ Registry' = Registry /\ Me' = Me
BY DEF Local, run, Registry, Me

\* What an index entry does to the files that are recorded.
LEMMA Indexed ==
  ASSUME IInv, GR!InCollector, NEW f, GR!indexArtifact(f)
  PROVE  GR!Recorded' = GR!Recorded \cup {f}
<1>1. DOMAIN arts = 1 .. N /\ at \in 1 .. N
  BY Shapes DEF IInv, Shape, GR!TypeOK, GR!Collector
<1>2. /\ DOMAIN arts' = 1 .. N /\ arts'[at] = arts[at] \cup {f}
      /\ \A c \in 1 .. N : c # at => arts'[c] = arts[c]
  BY <1>1 DEF GR!indexArtifact
<1> QED
  BY <1>1, <1>2 DEF GR!Recorded, GR!Collector

\* The files a job did not touch are as free as they were.
LEMMA Untouched ==
  ASSUME NEW T, \A f \in AllFiles \ T : disk'[f] = disk[f] /\ part'[f] = part[f],
         GR!Recorded' \subseteq GR!Recorded \cup T
  PROVE  \A f \in AllFiles \ T : GR!Fresh(f) => GR!Fresh(f)'
BY DEF GR!Fresh

\* A job is over: it touched the files T, and the rest of the plan is next.
Touches(rest, T) ==
  /\ work'.plan = rest /\ (rest = Tail(work.plan) \/ rest = <<>>)
  /\ T \in SUBSET AllFiles
  /\ \A f \in T : f[1] \in Kinds(Me) /\ (f = job.file \/ f[1] \in Execs)
  /\ \A f \in AllFiles : part'[f] = "absent"
  /\ \A f \in ReportFiles : disk'[f] # "torn"
  /\ \A f \in AllFiles \ T : disk'[f] = disk[f] /\ part'[f] = part[f]
  /\ GR!Recorded' \subseteq GR!Recorded \cup T
  /\ \A i \in DOMAIN rest :
       /\ rest[i].how \in Plain \cup {"marker"} => rest[i].file \notin T
       /\ rest[i].how \in Execs => <<Me, NodeOf[rest[i].pod], rest[i].pod>> \notin T
  /\ Me \in Execs => /\ T \subseteq work'.taken /\ work.taken \subseteq work'.taken
                     /\ work'.taken \subseteq work.taken \cup T

\* A step that ends a job keeps the invariants about files.
LEMMA NextJobFiles ==
  ASSUME IInv, Busy, work.plan # <<>>, Local, ph' = "work",
         NEW rest, NEW T, Touches(rest, T)
  PROVE  PhaseInv' /\ PlanInv' /\ FilesInv' /\ LedgerInv'
<1> USE DEF Touches
<1>1. /\ UNCHANGED <<scenario, pc, at, status, denied, live, gs, said, churn>>
      /\ Registry' = Registry /\ Me' = Me
  BY LocalFrame
<1>2. /\ GR!InCollector /\ pc = "collect" /\ at \in 1 .. N
      /\ GoodPlan(Me, gs, work.plan)
  BY AtJob
<1>3. \A f \in AllFiles \ T : GR!Fresh(f) => GR!Fresh(f)'
  BY Untouched
<1>4. Busy' /\ ph' # "made" /\ ph' # "read"
  BY DEF Busy
<1>5. /\ NewPlan(Me, gs, rest)
      /\ \A i \in DOMAIN rest : i + 1 \in DOMAIN work.plan /\ i + 1 # 1 /\ rest[i] = work.plan[i + 1]
  <2>1. CASE rest = Tail(work.plan)
    <3> DEFINE plan == work.plan
    <3>1. GoodPlan(Me, gs, plan) /\ plan # <<>> /\ rest = Tail(plan)
      BY <1>2, <2>1
    <3> HIDE DEF plan
    <3>2. /\ NewPlan(Me, gs, rest)
          /\ \A i \in DOMAIN rest : i + 1 \in DOMAIN plan /\ i + 1 # 1 /\ rest[i] = plan[i + 1]
      BY <3>1, PlanTail
    <3> QED
      BY <3>2 DEF plan
  <2>2. CASE rest = <<>>
    BY <2>2, EmptyPlan
  <2> QED
    BY <2>1, <2>2
<1>6. /\ rest \in Seq(JobSet)
      /\ \A i \in DOMAIN rest : Mine(Me, rest[i]) /\ rest[i].how \notin Second
  BY <1>5 DEF NewPlan, OwnPlan
<1>7. PhaseInv'
  <2>1. GR!InCollector'
    BY <1>1, <1>2 DEF GR!InCollector
  <2> QED
    BY <1>1, <1>4, <2>1 DEF IInv, PhaseInv
<1>8. PlanInv'
  BY <1>1, <1>5, NewIsGood DEF PlanInv
<1>9. ~Copying'
  BY <1>6 DEF Copying, job, Second
<1>10. \A f \in AllFiles : GR!Fresh(f)' \/ Claimed(f)'
  <2>1. \A f \in AllFiles : GR!Fresh(f) \/ Claimed(f)
    BY <1>2 DEF IInv, FilesInv
  <2>2. \A f : Claimed(f) => Claimed(f)'
    BY <1>1, <1>4 DEF Claimed
  <2>3. \A f \in T : Claimed(f)'
    BY <1>1, <1>2, <1>4 DEF Claimed, Me
  <2> QED
    BY <1>3, <2>1, <2>2, <2>3
<1>11. \A i \in DOMAIN rest :
         rest[i].how \in Plain \cup {"marker", "usage"} => GR!Fresh(rest[i].file)'
  <2> SUFFICES ASSUME NEW i \in DOMAIN rest, rest[i].how \in Plain \cup {"marker", "usage"}
               PROVE  GR!Fresh(rest[i].file)'
    OBVIOUS
  <2>1. rest[i].how \in Plain \cup {"marker"} /\ Mine(Me, rest[i])
    BY <1>6 DEF Second
  <2>2. rest[i].file \in AllFiles \ T
    BY <2>1 DEF Mine, AllFiles
  <2>3. GR!Fresh(work.plan[i + 1].file)
    BY <1>2, <1>5, <2>1 DEF IInv, FilesInv
  <2> QED
    BY <1>5, <1>3, <2>2, <2>3
<1>12. FilesInv'
  BY <1>4, <1>9, <1>10, <1>11 DEF FilesInv
<1>13. LedgerInv'
  <2>1. SUFFICES ASSUME Me \in Execs
                 PROVE  /\ \A f \in AllFiles : f[1] = Me => GR!Fresh(f)' \/ f \in work'.taken
                        /\ \A i \in DOMAIN rest :
                             /\ rest[i].how \in Execs =>
                                  <<Me, NodeOf[rest[i].pod], rest[i].pod>> \notin work'.taken
                             /\ rest[i].how \notin Second
    BY <1>1 DEF LedgerInv
  <2>2. \A f \in AllFiles : f[1] = Me => GR!Fresh(f) \/ f \in work.taken
    BY <2>1 DEF IInv, LedgerInv
  <2>3. \A i \in DOMAIN rest : rest[i].how \in Execs =>
          <<Me, NodeOf[rest[i].pod], rest[i].pod>> \notin work.taken
    BY <1>5, <2>1 DEF IInv, LedgerInv
  <2> QED
    BY <1>6, <1>3, <2>1, <2>2, <2>3
<1> QED
  BY <1>7, <1>8, <1>12, <1>13

\* The shape, for a step of a job.
LEMMA JobShape ==
  ASSUME IInv, [Next]_vars, Local, ph' \in {"work", "made"},
         DOMAIN work' = {"plan", "errs", "got", "deny", "taken"},
         heard' \in [1 .. N -> SUBSET Heard], faults' \in 0 .. MaxFaults
  PROVE  Shape'
<1>1. UNCHANGED <<scenario, pc, at, status, denied, live, gs, said, churn>>
  BY LocalFrame
<1>2. /\ gs.operand \subseteq Pods /\ gs.operator \subseteq Pods /\ gs.drivers \subseteq DriverPods
      /\ DOMAIN said = 1 .. N
  BY DEF IInv, Shape, TypeOK
<1> QED
  BY <1>1, <1>2, StepShape

\* What an exec came back with: it fails the job, or is presumed on.
Overheard ==
  \E h \in SUBSET Heard : Hear(h) /\ (work'.errs \/ h \subseteq Presumed)

\* What a job hears is an exec's, and fails it; an error is never forgotten.
LEMMA JobTalk ==
  ASSUME IInv, GR!InCollector, Busy, Local, Busy', work.errs => work'.errs,
         heard' = heard \/ (Me \in Execs /\ Overheard)
  PROVE  TalkInv' /\ heard' \in [1 .. N -> SUBSET Heard]
<1>1. /\ UNCHANGED <<scenario, pc, at, status, denied, live, gs, said, churn>>
      /\ Registry' = Registry /\ Me' = Me
  BY LocalFrame
<1>2. at \in 1 .. N /\ N \in Nat /\ heard \in [1 .. N -> SUBSET Heard]
  BY Shapes DEF IInv, Shape, TypeOK, Heard
<1>3. /\ heard' \in [1 .. N -> SUBSET Heard]
      /\ \A c \in 1 .. N : c # at => heard'[c] = heard[c]
  BY <1>2 DEF Hear, Overheard
<1>4. ~(heard'[at] \subseteq Presumed) =>
        IF Me \in Execs THEN work'.errs ELSE said[at] \in {"refused", "failed"}
  BY <1>2 DEF IInv, TalkInv, Hear, Overheard
<1>5. \A c \in 1 .. N : c > at => heard'[c] = {}
  BY <1>2, <1>3 DEF IInv, TalkInv
<1>6. \A c \in 1 .. N : (c < at /\ ~(heard'[c] \subseteq Presumed)) =>
        /\ status[c] = "error" \/ said[c] \in {"refused", "failed"}
        /\ Registry[c] \in Execs => denied \/ status[c] = "error"
  BY <1>2, <1>3 DEF IInv, TalkInv
<1> QED
  BY <1>1, <1>3, <1>4, <1>5, <1>6 DEF TalkInv

\* What a job records about a pod is of the prepared list.
LEMMA JobList ==
  ASSUME IInv, Busy, work.plan # <<>>, Local,
         NEW T, GR!Recorded' \subseteq GR!Recorded \cup T,
         \A f \in T : f = job.file \/ f[1] \in Execs,
         listed' = listed \/ listed' = gs.operand,
         <<"operand-pods", "yaml">> \in GR!Recorded' \ GR!Recorded => listed' = gs.operand
  PROVE  ListInv'
<1>1. gs' = gs /\ Prepared(gs, job)
  BY LocalFrame, AtJob
<1>2. \A f \in T : /\ f = <<"operand-pods", "yaml">> => gs.prepared
                   /\ \A k \in PodKinds, p \in Pods :
                        f = <<k, p>> => gs.prepared /\ p \in gs.operand \cup gs.operator
  <2> TAKE f \in T
  <2>1. CASE f = job.file
    BY <1>1, <2>1 DEF Prepared
  <2>2. CASE f[1] \in Execs
    BY <2>2 DEF Execs, PodKinds
  <2> QED
    BY <2>1, <2>2
<1> QED
  BY <1>1, <1>2 DEF IInv, ListInv

\* The evidence, for a step of a job.
LEMMA JobEvidence ==
  ASSUME IInv, Busy, Local, collected => collected', work.errs => work'.errs,
         collected' \/ work'.errs \/ ~(work.plan # <<>> /\ job.how = "file")
           \/ work'.plan = work.plan
  PROVE  EvidenceInv'
<1>1. /\ UNCHANGED <<scenario, pc, at, status, denied, live, gs, said, churn>>
      /\ Registry' = Registry /\ Me' = Me
  BY LocalFrame
<1> QED
  BY <1>1 DEF IInv, EvidenceInv, job

\* A job that is over keeps the invariant.
LEMMA JobMoves ==
  ASSUME IInv, [Next]_vars, Busy, work.plan # <<>>, Local, ph' = "work",
         DOMAIN work' = {"plan", "errs", "got", "deny", "taken"}, faults' \in 0 .. MaxFaults,
         NEW rest, NEW T, Touches(rest, T),
         listed' = listed \/ listed' = gs.operand,
         <<"operand-pods", "yaml">> \in GR!Recorded' \ GR!Recorded => listed' = gs.operand,
         heard' = heard \/ (Me \in Execs /\ Overheard),
         work.errs => work'.errs, collected => collected',
         collected' \/ work'.errs \/ job.how # "file"
  PROVE  IInv'
<1>1. GR!InCollector /\ Busy'
  BY AtJob DEF Busy
<1>2. PhaseInv' /\ PlanInv' /\ FilesInv' /\ LedgerInv'
  BY NextJobFiles
<1>3. TalkInv' /\ heard' \in [1 .. N -> SUBSET Heard]
  BY <1>1, JobTalk
<1>4. ListInv'
  <2>1. GR!Recorded' \subseteq GR!Recorded \cup T /\ \A f \in T : f = job.file \/ f[1] \in Execs
    BY DEF Touches
  <2> QED
    BY <2>1, JobList
<1>5. EvidenceInv'
  BY JobEvidence
<1>6. Shape'
  BY <1>3, JobShape
<1> QED
  BY <1>2, <1>3, <1>4, <1>5, <1>6 DEF IInv

\* What the end of a job leaves of the work.
LEMMA Ends ==
  ASSUME IInv
  PROVE  /\ \A got : JobDone(got) =>
              /\ DOMAIN work' = {"plan", "errs", "got", "deny", "taken"}
              /\ work'.plan = Tail(work.plan) /\ work'.errs = work.errs
              /\ work'.taken = work.taken
         /\ JobFails =>
              /\ DOMAIN work' = {"plan", "errs", "got", "deny", "taken"}
              /\ work'.plan = Tail(work.plan) \/ work'.plan = <<>>
              /\ work'.errs = TRUE /\ work'.taken = work.taken
         /\ Fault => faults' \in 0 .. MaxFaults
         /\ faults \in 0 .. MaxFaults
<1>1. DOMAIN work = {"plan", "errs", "got", "deny", "taken"} /\ faults \in 0 .. MaxFaults
  BY DEF IInv, Shape, TypeOK
<1>2. ASSUME NEW got, JobDone(got)
      PROVE  /\ DOMAIN work' = {"plan", "errs", "got", "deny", "taken"}
             /\ work'.plan = Tail(work.plan) /\ work'.errs = work.errs
             /\ work'.taken = work.taken
  BY <1>1, <1>2 DEF JobDone
<1>3. ASSUME JobFails
      PROVE  /\ DOMAIN work' = {"plan", "errs", "got", "deny", "taken"}
             /\ work'.plan = Tail(work.plan) \/ work'.plan = <<>>
             /\ work'.errs = TRUE /\ work'.taken = work.taken
  BY <1>1, <1>3 DEF JobFails
<1>4. Fault => faults' \in 0 .. MaxFaults
  BY <1>1, FaultsAssumption DEF Fault
<1> QED
  BY <1>1, <1>2, <1>3, <1>4

\* The jobs behind the one at hand are of other files and other pods.
LEMMA RestApart ==
  ASSUME IInv, Busy, work.plan # <<>>,
         NEW rest, rest = Tail(work.plan) \/ rest = <<>>
  PROVE  \A i \in DOMAIN rest :
           /\ rest[i].how \in Plain \cup {"marker"} =>
                rest[i].file # job.file /\ Me \notin Execs
           /\ rest[i].how \in Execs =>
                /\ rest[i].pod # job.pod /\ Me \in Execs
                /\ <<Me, NodeOf[rest[i].pod], rest[i].pod>> \notin work.taken
<1>1. GoodPlan(Me, gs, work.plan) /\ job = work.plan[1]
  BY AtJob
<1>2. CASE rest = <<>>
  BY <1>2, EmptyPlan
<1>3. CASE rest = Tail(work.plan)
  <2> DEFINE plan == work.plan
  <2>1. GoodPlan(Me, gs, plan) /\ plan # <<>> /\ rest = Tail(plan) /\ job = plan[1]
    BY <1>1, <1>3
  <2>2. \A i \in DOMAIN plan :
          (Me \in Execs /\ plan[i].how \in Execs) =>
            <<Me, NodeOf[plan[i].pod], plan[i].pod>> \notin work.taken
    BY DEF IInv, LedgerInv
  <2> HIDE DEF plan
  <2> SUFFICES ASSUME NEW i \in DOMAIN rest
               PROVE  /\ rest[i].how \in Plain \cup {"marker"} =>
                           rest[i].file # job.file /\ Me \notin Execs
                      /\ rest[i].how \in Execs =>
                           /\ rest[i].pod # job.pod /\ Me \in Execs
                           /\ <<Me, NodeOf[rest[i].pod], rest[i].pod>> \notin work.taken
    OBVIOUS
  <2>3. i + 1 \in DOMAIN plan /\ rest[i] = plan[i + 1] /\ Apart(rest[i], job)
    BY <2>1, PlanTail
  <2>4. Mine(Me, rest[i])
    BY <2>1, <2>3 DEF GoodPlan, OwnPlan
  <2>5. CASE rest[i].how \in Plain \cup {"marker"}
    BY <2>3, <2>4, <2>5 DEF Apart, Mine, Plain, Execs
  <2>6. CASE rest[i].how \in Execs
    <3>1. Me \in Execs /\ rest[i].how \notin Plain \cup {"marker"}
      BY <2>4, <2>6 DEF Mine, Plain, Execs
    <3> QED
      BY <2>2, <2>3, <2>6, <3>1 DEF Apart
  <2> QED
    BY <2>5, <2>6
<1> QED
  BY <1>2, <1>3

\* What is left unfinished before a job that writes no bug report.
LEMMA OnlyThisJob ==
  ASSUME IInv, Busy, work.plan # <<>>
  PROVE  /\ \A f \in AllFiles : part[f] = "absent" \/ (ph = "made" /\ f = job.file)
         /\ \A f \in ReportFiles : disk[f] = "torn" => job.how = "copying" /\ f = job.file
<1>1. pc = "collect"
  BY AtJob
<1> QED
  BY <1>1 DEF IInv, FilesInv, Copying

\* The end of a job that writes one file of its own, by a ".part" or in place.
LEMMA FileJobMoves ==
  ASSUME IInv, [Next]_vars, Busy, work.plan # <<>>, Local, ph' = "work",
         job.how \in Streamed \cup {"marker"}, job.how = "marker" => ph = "work",
         JobFails \/ \E got : JobDone(got),
         faults' \in 0 .. MaxFaults,
         \A f \in AllFiles : f # job.file => disk'[f] = disk[f] /\ part'[f] = part[f],
         part'[job.file] = "absent",
         GR!Recorded' \subseteq GR!Recorded \cup {job.file},
         listed' = listed \/ listed' = gs.operand,
         <<"operand-pods", "yaml">> \in GR!Recorded' \ GR!Recorded => listed' = gs.operand,
         heard' = heard, collected => collected',
         collected' \/ JobFails \/ job.how # "file"
  PROVE  IInv'
<1>1. /\ job.file \in AllFiles \ ReportFiles /\ job.file[1] \in Kinds(Me)
      /\ MarkerFiles \cap ReportFiles = {}
  <2>1. MarkerFiles \cap ReportFiles = {}
    BY DEF MarkerFiles, ReportFiles, Marked
  <2> QED
    BY <2>1, StreamedFile, MarkerFile
<1>2. PICK rest, T : rest = work'.plan /\ T = {job.file}
  OBVIOUS
<1>3. /\ DOMAIN work' = {"plan", "errs", "got", "deny", "taken"}
      /\ rest = Tail(work.plan) \/ rest = <<>>
      /\ work'.taken = work.taken
      /\ work.errs => work'.errs
      /\ JobFails => work'.errs
  BY <1>2, Ends
<1>4. job.how # "copying"
  BY DEF Streamed
<1>5. /\ \A f \in AllFiles : part'[f] = "absent"
      /\ \A f \in ReportFiles : disk'[f] # "torn"
  <2>1. ReportFiles \subseteq AllFiles
    BY DEF AllFiles
  <2> QED
    BY <1>1, <1>4, <2>1, OnlyThisJob
<1>6. Me \in Execs => job.file \in work.taken
  <2>1. job = work.plan[1] /\ 1 \in DOMAIN work.plan /\ Mine(Me, job)
    BY AtJob
  <2>2. Me \in Execs => job.how \in Second
    BY <2>1 DEF Mine, Streamed, Plain, Second
  <2> QED
    BY <2>1, <2>2 DEF IInv, LedgerInv
<1>7. \A i \in DOMAIN rest :
        /\ rest[i].how \in Plain \cup {"marker"} => rest[i].file \notin T
        /\ rest[i].how \in Execs => <<Me, NodeOf[rest[i].pod], rest[i].pod>> \notin T
  <2>1. \A i \in DOMAIN rest :
          /\ rest[i].how \in Plain \cup {"marker"} => rest[i].file # job.file
          /\ rest[i].how \in Execs =>
               Me \in Execs /\ <<Me, NodeOf[rest[i].pod], rest[i].pod>> \notin work.taken
    BY <1>3, RestApart
  <2> QED
    BY <1>2, <1>6, <2>1
<1>8. Touches(rest, T)
  BY <1>1, <1>2, <1>3, <1>5, <1>6, <1>7 DEF Touches
<1>9. collected' \/ work'.errs \/ job.how # "file"
  BY <1>3
<1> QED
  BY <1>3, <1>8, <1>9, JobMoves

\* A file that is begun keeps the invariant.
LEMMA CreateKeeps ==
  ASSUME IInv, [Next]_vars, ph = "work", work.plan # <<>>, job.how \in Streamed, Local,
         createArtifact(job.file), ph' = "made", UNCHANGED <<work, faults>>,
         UNCHANGED <<arts, collected, heard, listed>>
  PROVE  IInv'
<1>1. /\ UNCHANGED <<scenario, pc, at, status, denied, live, gs, said, churn>>
      /\ Registry' = Registry /\ Me' = Me /\ Busy /\ Busy' /\ ~Copying' /\ job' = job
  BY LocalFrame DEF Busy, Copying, job
<1>2. /\ GR!InCollector /\ pc = "collect" /\ at \in 1 .. N
      /\ GoodPlan(Me, gs, work.plan) /\ job = work.plan[1] /\ 1 \in DOMAIN work.plan
      /\ Mine(Me, job)
  BY <1>1, AtJob
<1>3. /\ job.file \in AllFiles \ (MarkerFiles \cup ReportFiles)
      /\ job.file[1] \in Kinds(Me)
  BY <1>1, StreamedFile
<1>4. DOMAIN part = AllFiles
  BY DEF IInv, Shape, GR!TypeOK
<1>5. /\ part'[job.file] = "raw" /\ disk' = disk
      /\ \A f \in AllFiles : f # job.file => part'[f] = part[f]
  BY <1>3, <1>4 DEF createArtifact
<1>6. GR!Recorded' = GR!Recorded
  BY DEF GR!Recorded
<1>7. \A f \in AllFiles : f # job.file => (GR!Fresh(f) => GR!Fresh(f)')
  BY <1>5, <1>6 DEF GR!Fresh
<1>8. PhaseInv'
  <2>1. GR!InCollector'
    BY <1>1, <1>2 DEF GR!InCollector
  <2> QED
    BY <1>1, <2>1 DEF IInv, PhaseInv
<1>9. PlanInv'
  BY <1>1, <1>2 DEF PlanInv
<1>10. FilesInv'
  <2>1. /\ \A f \in AllFiles : part[f] = "absent"
        /\ \A f \in ReportFiles : disk[f] # "torn"
    BY <1>1, OnlyThisJob DEF Streamed
  <2>2. \A f \in AllFiles : GR!Fresh(f)' \/ Claimed(f)'
    <3>1. \A f \in AllFiles : GR!Fresh(f) \/ Claimed(f)
      BY <1>2 DEF IInv, FilesInv
    <3>2. \A f : Claimed(f) => Claimed(f)'
      BY <1>1 DEF Claimed
    <3>3. \A f : f = job.file => Claimed(f)'
      BY <1>1, <1>2, <1>3 DEF Claimed, Me
    <3> QED
      BY <1>7, <3>1, <3>2, <3>3
  <2>3. ASSUME NEW i \in DOMAIN work.plan, i # 1,
               work.plan[i].how \in Plain \cup {"marker", "usage"}
        PROVE  GR!Fresh(work.plan[i].file)'
    <3>1. i > 1
      BY <1>2, <2>3 DEF GoodPlan, OwnPlan
    <3>2. /\ work.plan[i].how \in Plain \cup {"marker"} /\ Mine(Me, work.plan[i])
          /\ Apart(work.plan[i], job)
      BY <1>2, <2>3, <3>1 DEF GoodPlan, OwnPlan, Second
    <3>3. work.plan[i].file \in AllFiles /\ work.plan[i].file # job.file
      BY <3>2 DEF Mine, Apart, AllFiles
    <3>4. GR!Fresh(work.plan[i].file)
      BY <1>1, <1>2, <2>3 DEF IInv, FilesInv
    <3> QED
      BY <1>7, <3>3, <3>4
  <2> QED
    BY <1>1, <1>5, <2>1, <2>2, <2>3 DEF FilesInv
<1>11. LedgerInv'
  <2>1. SUFFICES ASSUME Me \in Execs
                 PROVE  /\ \A f \in AllFiles : f[1] = Me => GR!Fresh(f)' \/ f \in work.taken
                        /\ \A i \in DOMAIN work.plan :
                             LET j == work.plan[i] IN
                             /\ j.how \in Execs => <<Me, NodeOf[j.pod], j.pod>> \notin work.taken
                             /\ j.how \in Second => j.file \in work.taken
    BY <1>1 DEF LedgerInv
  <2>2. /\ \A f \in AllFiles : f[1] = Me => GR!Fresh(f) \/ f \in work.taken
        /\ \A i \in DOMAIN work.plan :
             LET j == work.plan[i] IN
             /\ j.how \in Execs => <<Me, NodeOf[j.pod], j.pod>> \notin work.taken
             /\ j.how \in Second => j.file \in work.taken
    BY <1>1, <2>1 DEF IInv, LedgerInv
  <2>3. job.how \in Second
    BY <1>2, <2>1 DEF Mine, Streamed, Plain, Second
  <2> QED
    BY <1>2, <1>7, <2>2, <2>3
<1>12. TalkInv' /\ heard' \in [1 .. N -> SUBSET Heard]
  BY <1>1, <1>2, JobTalk
<1>13. ListInv' /\ EvidenceInv'
  BY <1>1, <1>6 DEF IInv, ListInv, EvidenceInv
<1>14. Shape'
  <2>1. DOMAIN work' = {"plan", "errs", "got", "deny", "taken"} /\ faults' \in 0 .. MaxFaults
    BY DEF IInv, Shape, TypeOK
  <2> QED
    BY <1>12, <2>1, JobShape
<1> QED
  BY <1>8, <1>9, <1>10, <1>11, <1>12, <1>13, <1>14 DEF IInv

\* A file that is begun, committed or discarded keeps the invariant.
LEMMA StreamKeeps ==
  ASSUME IInv, [Next]_vars, startFile \/ commitFile \/ discardFile \/ describeNotFound
  PROVE  IInv'
<1>1. /\ Busy /\ work.plan # <<>> /\ job.how \in Streamed /\ Local /\ GR!InCollector
      /\ heard' = heard
  BY DEF startFile, commitFile, discardFile, describeNotFound, Doing, Working, Busy,
         Streamed, IInv, PhaseInv
<1>2. job.file \in AllFiles /\ DOMAIN part = AllFiles /\ AllFiles \subseteq DOMAIN disk
  BY <1>1, StreamedFile DEF IInv, Shape, GR!TypeOK, GR!Names
<1>3. job.how # "marker"
  BY <1>1 DEF Streamed
<1>4. UNCHANGED arts => GR!Recorded' = GR!Recorded
  BY DEF GR!Recorded
<1>5. CASE startFile
  <2>1. CASE createArtifact(job.file) /\ ph' = "made" /\ UNCHANGED <<work, faults>>
    BY <1>1, <1>5, <2>1, CreateKeeps DEF startFile, Doing, Working
  <2>2. CASE Fault /\ JobFails /\ UNCHANGED <<ph, bundle>>
    <3>1. ph = "work" /\ ph' = "work" /\ UNCHANGED <<disk, part, arts, collected, listed>>
      BY <1>5, <2>2 DEF startFile, Doing, Working, bundle
    <3>2. part'[job.file] = "absent"
      BY <1>1, <1>2, <3>1, OnlyThisJob
    <3>3. faults' \in 0 .. MaxFaults
      BY <2>2, Ends
    <3> QED
      BY <1>1, <1>3, <1>4, <2>2, <3>1, <3>2, <3>3, FileJobMoves
  <2> QED
    BY <1>5, <2>1, <2>2 DEF startFile
<1>6. CASE commitFile
  <2>1. /\ ph' = "work" /\ JobDone(TRUE) /\ faults' = faults /\ collected' = TRUE
        /\ listed' = IF job.file = <<"operand-pods", "yaml">> THEN gs.operand ELSE listed
        /\ part' = [part EXCEPT ![job.file] = "absent"]
        /\ disk' = [disk EXCEPT ![job.file] = "raw"]
        /\ GR!indexArtifact(job.file)
    BY <1>6 DEF commitFile, commit, GR!recordArtifact
  <2>2. /\ part'[job.file] = "absent"
        /\ \A f \in AllFiles : f # job.file => disk'[f] = disk[f] /\ part'[f] = part[f]
    BY <1>2, <2>1
  <2>3. GR!Recorded' = GR!Recorded \cup {job.file}
    BY <1>1, <2>1, Indexed
  <2>4. faults' \in 0 .. MaxFaults
    BY <2>1, Ends
  <2> QED
    BY <1>1, <1>3, <2>1, <2>2, <2>3, <2>4, FileJobMoves
<1>7. CASE discardFile
  <2>1. /\ ph' = "work" /\ JobFails /\ Fault /\ UNCHANGED <<disk, arts, collected, listed>>
        /\ part' = [part EXCEPT ![job.file] = "absent"]
    BY <1>7 DEF discardFile, discard
  <2>2. /\ part'[job.file] = "absent"
        /\ \A f \in AllFiles : f # job.file => disk'[f] = disk[f] /\ part'[f] = part[f]
    BY <1>2, <2>1
  <2>3. faults' \in 0 .. MaxFaults
    BY <2>1, Ends
  <2> QED
    BY <1>1, <1>3, <1>4, <2>1, <2>2, <2>3, FileJobMoves
<1>8. CASE describeNotFound
  <2>1. /\ ph' = "work" /\ JobDone(FALSE) /\ job.how = "descr" /\ faults' = faults
        /\ UNCHANGED <<disk, arts, collected, listed>>
        /\ part' = [part EXCEPT ![job.file] = "absent"]
    BY <1>8 DEF describeNotFound, discard
  <2>2. /\ part'[job.file] = "absent"
        /\ \A f \in AllFiles : f # job.file => disk'[f] = disk[f] /\ part'[f] = part[f]
    BY <1>2, <2>1
  <2>3. faults' \in 0 .. MaxFaults
    BY <2>1, Ends
  <2> QED
    BY <1>1, <1>3, <1>4, <2>1, <2>2, <2>3, FileJobMoves
<1> QED
  BY <1>5, <1>6, <1>7, <1>8

\* The shape after a collector returned.
LEMMA LeaveShape ==
  ASSUME IInv, [Next]_vars, NEW st, NEW deny, Return(st, deny),
         UNCHANGED <<scenario, live, churn, gs>>,
         heard' = heard, faults' \in 0 .. MaxFaults, DOMAIN said' = 1 .. N
  PROVE  Shape'
<1>1. /\ gs.operand \subseteq Pods /\ gs.operator \subseteq Pods /\ gs.drivers \subseteq DriverPods
      /\ heard \in [1 .. N -> SUBSET Heard]
  BY Shapes DEF IInv, Shape, TypeOK, Heard
<1>2. DOMAIN work' = {"plan", "errs", "got", "deny", "taken"} /\ ph' = "read"
  BY DEF Return, NoWork
<1> QED
  BY <1>1, <1>2, StepShape

\* A marker, written or not, keeps it.
LEMMA MarkerKeeps ==
  ASSUME IInv, [Next]_vars, writeMarker \/ markerFails
  PROVE  IInv'
<1>1. /\ Busy /\ ph = "work" /\ work.plan # <<>> /\ job.how = "marker" /\ GR!InCollector
      /\ heard' = heard
  BY DEF writeMarker, markerFails, Doing, Working, Busy, history
<1>2. /\ job.file \in MarkerFiles /\ job.file \in AllFiles /\ job.file[1] \in Kinds(Me)
      /\ AllFiles \subseteq DOMAIN disk
  BY <1>1, MarkerFile DEF IInv, Shape, GR!TypeOK, GR!Names
<1>3. /\ \A f \in AllFiles : part[f] = "absent"
      /\ \A f \in ReportFiles : disk[f] # "torn"
  BY <1>1, OnlyThisJob
<1>4. CASE writeMarker
  <2>1. /\ ph' = "work" /\ JobDone(FALSE) /\ Local /\ faults' = faults
        /\ UNCHANGED <<part, collected, listed>>
        /\ disk' = [disk EXCEPT ![job.file] = "raw"] /\ GR!indexArtifact(job.file)
    BY <1>1, <1>4 DEF writeMarker
  <2>2. \A f \in AllFiles : f # job.file => disk'[f] = disk[f]
    BY <1>2, <2>1
  <2>3. GR!Recorded' = GR!Recorded \cup {job.file}
    BY <1>1, <2>1, Indexed
  <2>4. faults' \in 0 .. MaxFaults
    BY <2>1, Ends
  <2>5. job.file # <<"operand-pods", "yaml">>
    BY <1>2 DEF MarkerFiles, Marked
  <2> QED
    BY <1>1, <1>2, <1>3, <2>1, <2>2, <2>3, <2>4, <2>5, FileJobMoves
<1>5. CASE markerFails
  <2>1. /\ Return("error", FALSE) /\ Fault
        /\ UNCHANGED <<scenario, pc, part, arts, collected, live, gs, heard, said, listed, churn>>
        /\ \E left \in {"absent", "torn"} : disk' = [disk EXCEPT ![job.file] = left]
    BY <1>5 DEF markerFails, run, history
  <2>2. \A f \in AllFiles : f # job.file => disk'[f] = disk[f]
    BY <1>2, <2>1
  <2>3. GR!Recorded' = GR!Recorded
    BY <2>1 DEF GR!Recorded
  <2>4. \A f \in AllFiles : GR!Fresh(f) => GR!Fresh(f)' \/ f[1] \in Kinds(Me)
    BY <1>2, <2>1, <2>2, <2>3 DEF GR!Fresh
  <2>5. \A f \in ReportFiles : disk'[f] # "torn"
    <3>1. ReportFiles \subseteq AllFiles /\ job.file \notin ReportFiles
      BY <1>2 DEF AllFiles, MarkerFiles, ReportFiles, Marked
    <3> QED
      BY <1>3, <2>2, <3>1
  <2>6. PhaseInv' /\ PlanInv' /\ FilesInv' /\ LedgerInv'
    BY <1>1, <1>3, <2>1, <2>4, <2>5, LeaveFiles
  <2>7. TalkInv' /\ EvidenceInv'
    BY <1>1, <2>1, LeaveTalk, LeaveEvidence
  <2>8. ListInv'
    BY <2>1, <2>3 DEF IInv, ListInv
  <2>9. Shape'
    <3>1. faults' \in 0 .. MaxFaults /\ DOMAIN said' = 1 .. N
      BY <2>1, Ends DEF IInv, Shape
    <3> QED
      BY <2>1, <3>1, LeaveShape
  <2> QED
    BY <2>6, <2>7, <2>8, <2>9 DEF IInv
<1> QED
  BY <1>4, <1>5

\* A collector that has no job left returns, and keeps it.
LEMMA FinishKeeps ==
  ASSUME IInv, [Next]_vars, finish
  PROVE  IInv'
<1>1. /\ Busy /\ ph = "work" /\ work.plan = <<>> /\ GR!InCollector /\ heard' = heard
      /\ pc = "collect" /\ ~Copying
  BY Shapes DEF finish, Working, Busy, Copying
<1>2. UNCHANGED <<scenario, pc, disk, part, arts, collected, live, gs, listed, churn, faults>>
  BY DEF finish, run, bundle, bounds
<1>3. /\ \A f \in AllFiles : part[f] = "absent"
      /\ \A f \in ReportFiles : disk[f] # "torn"
  BY <1>1 DEF IInv, FilesInv
<1>4. at \in 1 .. N /\ DOMAIN said = 1 .. N
  BY <1>1, Shapes DEF IInv, Shape
<1>5. PICK st, deny :
        /\ Return(st, deny)
        /\ \/ deny /\ said' = [said EXCEPT ![at] = "refused"]
           \/ st = "error" /\ said' = said
           \/ ~work.errs /\ Me \in Execs /\ said' = [said EXCEPT ![at] = "absent"]
           \/ ~work.errs /\ said' = said
  BY DEF finish, Fail, Skip, Say, Me
<1>6. DOMAIN said' = 1 .. N /\ \A c \in 1 .. N : c # at => said'[c] = said[c]
  BY <1>4, <1>5
<1>7. PhaseInv' /\ PlanInv' /\ FilesInv' /\ LedgerInv'
  BY <1>1, <1>2, <1>3, <1>5, SameFiles, LeaveFiles
<1>8. TalkInv'
  <2>1. ~(heard[at] \subseteq Presumed) =>
          IF Me \in Execs THEN work.errs ELSE said[at] \in {"refused", "failed"}
    BY <1>1 DEF IInv, TalkInv
  <2>2. ~(heard'[at] \subseteq Presumed) =>
          /\ st = "error" \/ said'[at] \in {"refused", "failed"}
          /\ Me \in Execs => deny \/ st = "error"
    BY <1>1, <1>4, <1>5, <2>1
  <2> QED
    BY <1>1, <1>2, <1>5, <1>6, <2>2, LeaveTalk
<1>9. EvidenceInv'
  <2>1. Me \in Unconditional => collected \/ work.errs
    BY <1>1 DEF IInv, EvidenceInv
  <2>2. Me \in Unconditional => collected \/ deny \/ st = "error"
    BY <1>5, <2>1
  <2> QED
    BY <1>1, <1>2, <1>5, <2>2, LeaveEvidence
<1>10. ListInv'
  BY <1>2, SameFiles DEF IInv, ListInv
<1>11. Shape'
  BY <1>1, <1>2, <1>5, <1>6, Ends, LeaveShape
<1> QED
  BY <1>7, <1>8, <1>9, <1>10, <1>11 DEF IInv

\* An exec that is followed by the copy of a bug report, or by a usage file.
LEMMA SecondKeeps ==
  ASSUME IInv, [Next]_vars, ph = "work", work.plan # <<>>, job.how \in Execs, Local,
         NEW how, NEW f, f = destName(Me, job.pod),
         \/ how = "copying" /\ Me = "bug-report" /\ disk' = [disk EXCEPT ![f] = "torn"]
         \/ how = "usage" /\ Me = "device-usage" /\ disk' = disk,
         work' = [work EXCEPT !.plan = <<Job(how, f, job.pod)>> \o Tail(@),
                              !.taken = @ \cup {f}],
         UNCHANGED <<ph, part, arts, collected, heard, listed, faults>>
  PROVE  IInv'
<1>1. /\ UNCHANGED <<scenario, pc, at, status, denied, live, gs, said, churn>>
      /\ Registry' = Registry /\ Me' = Me /\ Busy /\ Busy' /\ ph' # "made"
  BY LocalFrame DEF Busy
<1>2. /\ GR!InCollector /\ pc = "collect" /\ at \in 1 .. N
      /\ GoodPlan(Me, gs, work.plan) /\ job = work.plan[1] /\ 1 \in DOMAIN work.plan
      /\ job \in JobSet
  BY <1>1, AtJob
<1>3. /\ Me \in Execs /\ Me \in Kinds(Me)
      /\ f \in AllFiles /\ f[1] = Me
      /\ Me = "bug-report" => f \in ReportFiles
      /\ Me = "device-usage" => f \in UsageFiles
      /\ GR!Fresh(f)
      /\ \A q : q # job.pod => <<Me, NodeOf[q], q>> # f
  BY DestFile
<1>4. PICK j : j = Job(how, f, job.pod)
  OBVIOUS
<1>5. /\ j.how = how /\ j.file = f /\ j.pod = job.pod /\ how \in Second
  BY <1>4 DEF Job, Second
<1>6. j \in JobSet /\ Mine(Me, j) /\ Prepared(gs, j)
  <2>1. j \in JobSet
    BY <1>2, <1>3, <1>4 DEF Job, JobSet, Hows
  <2>2. Mine(Me, j)
    BY <1>3, <1>5 DEF Mine, Plain, Execs
  <2>3. Prepared(gs, j)
    BY <1>3, <1>5 DEF Prepared, PodKinds, Execs
  <2> QED
    BY <2>1, <2>2, <2>3
<1>7. PICK next : next = <<j>> \o Tail(work.plan)
  OBVIOUS
<1>8. /\ GoodPlan(Me, gs, next)
      /\ next # <<>> /\ Head(next) = j /\ next[1] = j
      /\ \A i \in DOMAIN next : i # 1 => i \in DOMAIN work.plan /\ next[i] = work.plan[i]
                                         /\ work.plan[i].pod # j.pod
  <2> DEFINE plan == work.plan
  <2>1. GoodPlan(Me, gs, plan) /\ plan # <<>> /\ plan[1] = job /\ next = <<j>> \o Tail(plan)
    BY <1>2, <1>7
  <2> HIDE DEF plan
  <2>2. /\ GoodPlan(Me, gs, next)
        /\ next # <<>> /\ Head(next) = j /\ next[1] = j
        /\ \A i \in DOMAIN next : i # 1 => i \in DOMAIN plan /\ next[i] = plan[i]
                                           /\ plan[i].pod # j.pod
    BY <1>3, <1>5, <1>6, <2>1, PlanSecond
  <2> QED
    BY <2>2 DEF plan
<1>9. /\ DOMAIN work = {"plan", "errs", "got", "deny", "taken"} /\ faults \in 0 .. MaxFaults
      /\ AllFiles \subseteq DOMAIN disk
  BY DEF IInv, Shape, TypeOK, GR!TypeOK, GR!Names
<1>10. /\ DOMAIN work' = {"plan", "errs", "got", "deny", "taken"}
       /\ work'.plan = next /\ work'.taken = work.taken \cup {f} /\ work'.errs = work.errs
  BY <1>4, <1>7, <1>9
<1>11. job' = j
  BY <1>8, <1>10 DEF job
<1>12. GR!Recorded' = GR!Recorded
  BY DEF GR!Recorded
<1>13. /\ \A g \in AllFiles : g # f => disk'[g] = disk[g] /\ (GR!Fresh(g) => GR!Fresh(g)')
       /\ how = "copying" => disk'[f] = "torn"
       /\ how = "usage" => GR!Fresh(f)'
  BY <1>3, <1>9, <1>12 DEF GR!Fresh
<1>14. PhaseInv'
  <2>1. GR!InCollector'
    BY <1>1, <1>2 DEF GR!InCollector
  <2> QED
    BY <1>1, <2>1 DEF IInv, PhaseInv
<1>15. PlanInv'
  BY <1>1, <1>8, <1>10 DEF PlanInv
<1>16. \A i \in DOMAIN next : i # 1 => next[i].how \notin Plain \cup {"marker", "usage"}
  <2> SUFFICES ASSUME NEW i \in DOMAIN next, i # 1
               PROVE  next[i].how \notin Plain \cup {"marker", "usage"}
    OBVIOUS
  <2>1. Mine(Me, next[i]) /\ i > 1
    BY <1>8 DEF GoodPlan, OwnPlan
  <2>2. next[i].how \notin Second
    BY <1>8, <2>1 DEF GoodPlan
  <2> QED
    BY <1>3, <2>1, <2>2 DEF Mine, Second
<1>17. FilesInv'
  <2>1. /\ \A g \in AllFiles : part[g] = "absent"
        /\ \A g \in ReportFiles : disk[g] # "torn"
    BY <1>1, OnlyThisJob DEF Execs
  <2>2. Copying' <=> how = "copying"
    BY <1>5, <1>8, <1>10, <1>11 DEF Copying
  <2>3. \A g \in ReportFiles : disk'[g] = "torn" => g = f /\ how = "copying"
    <3>1. ReportFiles \subseteq AllFiles
      BY DEF AllFiles
    <3> QED
      BY <1>3, <1>13, <2>1, <3>1
  <2>4. \A g \in AllFiles : GR!Fresh(g)' \/ Claimed(g)'
    <3>1. \A g \in AllFiles : GR!Fresh(g) \/ Claimed(g)
      BY <1>2 DEF IInv, FilesInv
    <3>2. \A g : Claimed(g) => Claimed(g)'
      BY <1>1 DEF Claimed
    <3>3. Claimed(f)'
      BY <1>1, <1>2, <1>3 DEF Claimed, Me
    <3> QED
      BY <1>13, <3>1, <3>2, <3>3
  <2>5. f \notin GR!Recorded
    BY <1>3 DEF GR!Fresh
  <2>6. \A i \in DOMAIN next :
          next[i].how \in Plain \cup {"marker", "usage"} => GR!Fresh(next[i].file)'
    <3> SUFFICES ASSUME NEW i \in DOMAIN next,
                        next[i].how \in Plain \cup {"marker", "usage"}
                 PROVE  GR!Fresh(next[i].file)'
      OBVIOUS
    <3>1. i = 1 /\ next[i] = j
      BY <1>8, <1>16
    <3>2. how = "usage"
      BY <1>5, <3>1 DEF Plain
    <3> QED
      BY <1>5, <1>13, <3>1, <3>2
  <2> QED
    BY <1>1, <1>5, <1>10, <1>11, <1>12, <1>13, <2>1, <2>2, <2>3, <2>4, <2>5, <2>6 DEF FilesInv
<1>18. LedgerInv'
  <2>1. /\ \A g \in AllFiles : g[1] = Me => GR!Fresh(g) \/ g \in work.taken
        /\ \A i \in DOMAIN work.plan :
             work.plan[i].how \in Execs =>
               <<Me, NodeOf[work.plan[i].pod], work.plan[i].pod>> \notin work.taken
    BY <1>1, <1>3 DEF IInv, LedgerInv
  <2>2. \A g \in AllFiles : g[1] = Me => GR!Fresh(g)' \/ g \in work'.taken
    BY <1>10, <1>13, <2>1
  <2>3. \A i \in DOMAIN next :
          /\ next[i].how \in Execs => <<Me, NodeOf[next[i].pod], next[i].pod>> \notin work'.taken
          /\ next[i].how \in Second => next[i].file \in work'.taken
    <3> SUFFICES ASSUME NEW i \in DOMAIN next
                 PROVE  /\ next[i].how \in Execs =>
                             <<Me, NodeOf[next[i].pod], next[i].pod>> \notin work'.taken
                        /\ next[i].how \in Second => next[i].file \in work'.taken
      OBVIOUS
    <3>1. CASE i = 1
      BY <1>5, <1>8, <1>10, <3>1 DEF Second, Execs
    <3>2. CASE i # 1
      <4>1. next[i].how \notin Second
        BY <1>8, <3>2 DEF GoodPlan, OwnPlan
      <4>2. next[i] = work.plan[i] /\ i \in DOMAIN work.plan /\ next[i].pod # job.pod
        BY <1>5, <1>8, <3>2
      <4> QED
        BY <1>3, <1>10, <2>1, <4>1, <4>2
    <3> QED
      BY <3>1, <3>2
  <2>4. \A i \in DOMAIN work'.plan :
          /\ work'.plan[i].how \in Execs =>
               <<Me, NodeOf[work'.plan[i].pod], work'.plan[i].pod>> \notin work'.taken
          /\ work'.plan[i].how \in Second => work'.plan[i].file \in work'.taken
    <3>1. work'.plan = next
      BY <1>10
    <3> QED
      BY <2>3, <3>1
  <2> QED
    BY <1>1, <2>2, <2>4, Zenon DEF LedgerInv
<1>19. TalkInv' /\ heard' \in [1 .. N -> SUBSET Heard]
  BY <1>1, <1>2, <1>10, JobTalk
<1>20. ListInv'
  BY <1>1, <1>12 DEF IInv, ListInv
<1>21. EvidenceInv'
  BY <1>1, <1>10, JobEvidence DEF Execs
<1>22. Shape'
  BY <1>9, <1>10, <1>19, JobShape
<1> QED
  BY <1>14, <1>15, <1>17, <1>18, <1>19, <1>20, <1>21, <1>22 DEF IInv

\* What an exec that failed leaves of the work.
LEMMA ExecEnds ==
  ASSUME IInv, NEW names, ExecFails(names)
  PROVE  /\ DOMAIN work' = {"plan", "errs", "got", "deny", "taken"}
         /\ work'.plan = Tail(work.plan) /\ work'.errs = TRUE
         /\ work'.taken = work.taken \cup names
         /\ Overheard
<1>1. DOMAIN work = {"plan", "errs", "got", "deny", "taken"}
  BY DEF IInv, Shape
<1>2. work'.errs = TRUE
  BY <1>1 DEF ExecFails
<1>3. \A a : Gap("exec", a) \in SUBSET Heard
  BY GapKinds DEF Questions
<1>4. Overheard
  BY <1>2, <1>3 DEF ExecFails, Overheard
<1> QED
  BY <1>1, <1>4 DEF ExecFails

\* An exec job that is over: it wrote nothing, or a file of the ledger.
LEMMA ExecJobMoves ==
  ASSUME IInv, [Next]_vars, ph = "work", work.plan # <<>>, Local, Me \in Execs,
         job.how \notin {"file", "usage"},
         ph' = ph, UNCHANGED <<part, listed, faults>>,
         DOMAIN work' = {"plan", "errs", "got", "deny", "taken"},
         work'.plan = Tail(work.plan), work.errs => work'.errs, collected => collected',
         heard' = heard \/ Overheard,
         NEW T \in SUBSET AllFiles, \A f \in T : f[1] = Me,
         work'.taken = work.taken \cup T,
         \A f \in AllFiles : f \notin T => disk'[f] = disk[f],
         \A f \in ReportFiles : f \in T => disk'[f] # "torn",
         job.how = "copying" => job.file \in T,
         GR!Recorded' \subseteq GR!Recorded \cup T,
         T \subseteq work.taken \/ \A q : q # job.pod => <<Me, NodeOf[q], q>> \notin T
  PROVE  IInv'
<1>1. Busy /\ Me \in Kinds(Me)
  BY DEF Busy, Execs, Kinds, PodKinds
<1>2. PICK rest : rest = Tail(work.plan)
  OBVIOUS
<1>3. \A i \in DOMAIN rest :
        /\ rest[i].how \notin Plain \cup {"marker"}
        /\ rest[i].how \in Execs => <<Me, NodeOf[rest[i].pod], rest[i].pod>> \notin T
  <2>1. \A i \in DOMAIN rest :
          /\ rest[i].how \notin Plain \cup {"marker"}
          /\ rest[i].how \in Execs =>
               /\ rest[i].pod # job.pod
               /\ <<Me, NodeOf[rest[i].pod], rest[i].pod>> \notin work.taken
    BY <1>1, <1>2, RestApart
  <2> QED
    BY <2>1
<1>4. /\ \A f \in AllFiles : part[f] = "absent"
      /\ \A f \in ReportFiles : disk[f] = "torn" => job.how = "copying" /\ f = job.file
  BY <1>1, OnlyThisJob
<1>5. \A f \in ReportFiles : disk'[f] # "torn"
  <2>1. ReportFiles \subseteq AllFiles
    BY DEF AllFiles
  <2> QED
    BY <1>4, <2>1
<1>6. Touches(rest, T)
  BY <1>1, <1>2, <1>3, <1>4, <1>5 DEF Touches
<1>7. <<"operand-pods", "yaml">> \notin T
  BY DEF Execs
<1>8. faults' \in 0 .. MaxFaults
  BY Ends
<1> QED
  BY <1>1, <1>6, <1>7, <1>8, JobMoves

\* However an exec job ended, when the ledger is as it was.
LEMMA ExecOrDone ==
  ASSUME IInv,
         \/ ExecFails({})
         \/ (heard' = heard \/ \E h \in SUBSET Presumed : Hear(h)) /\ \E got : JobDone(got)
  PROVE  /\ DOMAIN work' = {"plan", "errs", "got", "deny", "taken"}
         /\ work'.plan = Tail(work.plan) /\ (work.errs => work'.errs)
         /\ work'.taken = work.taken
         /\ heard' = heard \/ Overheard
<1>1. CASE ExecFails({})
  <2>1. work.taken \cup {} = work.taken
    OBVIOUS
  <2>2. /\ DOMAIN work' = {"plan", "errs", "got", "deny", "taken"}
        /\ work'.plan = Tail(work.plan) /\ work'.errs = TRUE
        /\ work'.taken = work.taken \cup {}
        /\ Overheard
    BY <1>1, ExecEnds
  <2> QED
    BY <2>1, <2>2
<1>2. CASE (heard' = heard \/ \E h \in SUBSET Presumed : Hear(h)) /\ \E got : JobDone(got)
  <2>1. PICK got : JobDone(got)
    BY <1>2
  <2>4. Presumed \subseteq Heard
    <3>1. \A q \in {"openshift", "discovery", "served slices"}, g \in Gaps : <<q, g>> \in Questions \X Gaps
      BY DEF Questions
    <3>2. {"openshift", "discovery", "served slices"} \X Gaps \subseteq Questions \X Gaps
      BY <3>1
    <3>3. <<"nvidia-smi", "failed">> \in Questions \X Gaps
      BY DEF Questions, Gaps
    <3> QED
      BY <3>2, <3>3 DEF Presumed, Heard
  <2>3. heard' = heard \/ Overheard
    <3>1. CASE \E h \in SUBSET Presumed : Hear(h)
      <4>1. PICK h \in SUBSET Presumed : Hear(h)
        BY <3>1
      <4>2. h \in SUBSET Heard
        BY <2>4
      <4> QED
        BY <4>1, <4>2 DEF Overheard
    <3> QED
      BY <1>2, <3>1
  <2>2. /\ DOMAIN work' = {"plan", "errs", "got", "deny", "taken"}
        /\ work'.plan = Tail(work.plan) /\ work'.errs = work.errs
        /\ work'.taken = work.taken
    BY <2>1, Ends, Zenon
  <2> QED
    BY <2>2, <2>3
<1> QED
  BY <1>1, <1>2

\* An exec and a copy keep it, whatever they come to.
LEMMA ExecKeeps ==
  ASSUME IInv, [Next]_vars,
         notCollectable \/ execBugReport \/ copyBugReport \/ probeDeviceUsage
  PROVE  IInv'
<1>1. /\ ph = "work" /\ work.plan # <<>> /\ Local /\ Busy
      /\ ph' = ph /\ UNCHANGED <<part, listed, faults>> /\ GR!InCollector
      /\ job.how \in Execs \cup {"copying"}
  BY DEF notCollectable, execBugReport, copyBugReport, probeDeviceUsage, Doing, Working,
         Busy, Execs, bundle
<1>2. /\ Mine(Me, job) /\ job = work.plan[1] /\ 1 \in DOMAIN work.plan
      /\ AllFiles \subseteq DOMAIN disk
      /\ DOMAIN work = {"plan", "errs", "got", "deny", "taken"}
  BY <1>1, AtJob DEF IInv, Shape, GR!TypeOK, GR!Names
<1>3. Me \in Execs /\ job.how \notin {"file", "usage"}
  BY <1>1, <1>2 DEF Mine, Execs
<1>4. UNCHANGED arts => GR!Recorded' = GR!Recorded
  BY DEF GR!Recorded
<1>5. ASSUME job.how \in Execs, UNCHANGED <<disk, arts, collected>>,
             \/ ExecFails({})
             \/ JobDone(FALSE) /\ (heard' = heard \/ \E h \in SUBSET Presumed : Hear(h))
      PROVE  IInv'
  <2>1. /\ DOMAIN work' = {"plan", "errs", "got", "deny", "taken"}
        /\ work'.plan = Tail(work.plan) /\ (work.errs => work'.errs)
        /\ work'.taken = work.taken
        /\ heard' = heard \/ Overheard
    BY <1>5, ExecOrDone
  <2>2. PICK T : T = {}
    OBVIOUS
  <2>3. /\ T \in SUBSET AllFiles /\ (\A f \in T : f[1] = Me)
        /\ work'.taken = work.taken \cup T
        /\ \A f \in AllFiles : f \notin T => disk'[f] = disk[f]
        /\ \A f \in ReportFiles : f \in T => disk'[f] # "torn"
        /\ job.how # "copying"
        /\ GR!Recorded' \subseteq GR!Recorded \cup T
        /\ T \subseteq work.taken
    BY <1>4, <1>5, <2>1, <2>2 DEF Execs
  <2> QED
    BY <1>1, <1>3, <1>5, <2>1, <2>3, ExecJobMoves
<1>6. CASE notCollectable
  BY <1>5, <1>6 DEF notCollectable, Doing, bundle
<1>7. CASE probeDeviceUsage
  <2>1. job.how \in Execs /\ job.how = "device-usage" /\ UNCHANGED <<disk, arts, collected>>
    BY <1>7 DEF probeDeviceUsage, Doing, bundle, Execs
  <2>2. Me = "device-usage"
    BY <1>2, <2>1 DEF Mine
  <2> DEFINE over == \/ ExecFails({})
                     \/ JobDone(FALSE) /\ \E h \in SUBSET Presumed : Hear(h)
  <2>3. CASE over
    BY <1>5, <2>1, <2>3
  <2>5. (\E a \in {"absent", "failed"} : Hear(Gap("nvidia-smi", a))) =>
          \E h \in SUBSET Presumed : Hear(h)
    BY GapKinds DEF Questions
  <2>4. CASE ~over
    <3>1. PICK f : /\ f = destName("device-usage", job.pod) /\ heard' = heard
                   /\ work' = [work EXCEPT !.plan = <<Job("usage", f, job.pod)>> \o Tail(@),
                                           !.taken = @ \cup {f}]
      BY <1>7, <2>4, <2>5 DEF probeDeviceUsage
    <3>2. f = destName(Me, job.pod)
      BY <2>2, <3>1
    <3> QED
      BY <1>1, <2>1, <2>2, <3>1, <3>2, SecondKeeps
  <2> QED
    BY <2>3, <2>4
<1>8. CASE execBugReport
  <2>1. job.how \in Execs /\ job.how = "bug-report"
    BY <1>8 DEF execBugReport, Doing, Execs
  <2>2. Me = "bug-report"
    BY <1>2, <2>1 DEF Mine
  <2>3. PICK f : f = destName(Me, job.pod)
    OBVIOUS
  <2>4. /\ f \in AllFiles /\ f[1] = Me /\ f \in ReportFiles /\ GR!Fresh(f)
        /\ \A q : q # job.pod => <<Me, NodeOf[q], q>> # f
    BY <1>1, <2>1, <2>2, <2>3, DestFile
  <2>5. \/ /\ ExecFails({f}) /\ disk' = [disk EXCEPT ![f] = "absent"]
           /\ UNCHANGED <<arts, collected>>
        \/ /\ disk' = [disk EXCEPT ![f] = "torn"]
           /\ work' = [work EXCEPT !.plan = <<Job("copying", f, job.pod)>> \o Tail(@),
                                   !.taken = @ \cup {f}]
           /\ UNCHANGED <<arts, collected, heard>>
        \/ /\ work' = [work EXCEPT !.plan = Tail(@), !.got = TRUE, !.taken = @ \cup {f}]
           /\ GR!recordArtifact(f) /\ UNCHANGED <<disk, heard>>
    BY <1>8, <2>2, <2>3 DEF execBugReport, bundle
  <2>6. PICK T : T = {f}
    OBVIOUS
  <2>7. /\ T \in SUBSET AllFiles /\ (\A g \in T : g[1] = Me) /\ job.how # "copying"
        /\ \A q : q # job.pod => <<Me, NodeOf[q], q>> \notin T
    BY <2>1, <2>4, <2>6
  <2>8. CASE ExecFails({f}) /\ disk' = [disk EXCEPT ![f] = "absent"] /\ UNCHANGED <<arts, collected>>
    <3>1. /\ DOMAIN work' = {"plan", "errs", "got", "deny", "taken"}
          /\ work'.plan = Tail(work.plan) /\ work'.errs = TRUE
          /\ work'.taken = work.taken \cup T
          /\ Overheard
      BY <2>6, <2>8, ExecEnds
    <3>2. /\ \A g \in AllFiles : g \notin T => disk'[g] = disk[g]
          /\ \A g \in ReportFiles : g \in T => disk'[g] # "torn"
      BY <1>2, <2>4, <2>6, <2>8
    <3> QED
      BY <1>1, <1>3, <1>4, <2>7, <2>8, <3>1, <3>2, ExecJobMoves
  <2>9. CASE /\ disk' = [disk EXCEPT ![f] = "torn"]
             /\ work' = [work EXCEPT !.plan = <<Job("copying", f, job.pod)>> \o Tail(@),
                                     !.taken = @ \cup {f}]
             /\ UNCHANGED <<arts, collected, heard>>
    BY <1>1, <2>1, <2>2, <2>3, <2>9, SecondKeeps
  <2>10. CASE /\ work' = [work EXCEPT !.plan = Tail(@), !.got = TRUE, !.taken = @ \cup {f}]
              /\ GR!recordArtifact(f) /\ UNCHANGED <<disk, heard>>
    <3>1. /\ DOMAIN work' = {"plan", "errs", "got", "deny", "taken"}
          /\ work'.plan = Tail(work.plan) /\ work'.errs = work.errs
          /\ work'.taken = work.taken \cup T
      BY <1>2, <2>6, <2>10
    <3>2. /\ \A g \in AllFiles : g \notin T => disk'[g] = disk[g]
          /\ \A g \in ReportFiles : g \in T => disk'[g] # "torn"
      BY <2>4, <2>6, <2>10 DEF GR!Fresh
    <3>3. GR!Recorded' = GR!Recorded \cup T /\ collected'
      BY <1>1, <2>6, <2>10, Indexed DEF GR!recordArtifact
    <3> QED
      BY <1>1, <1>3, <2>7, <2>10, <3>1, <3>2, <3>3, ExecJobMoves
  <2> QED
    BY <2>5, <2>8, <2>9, <2>10
<1>9. CASE copyBugReport
  <2>1. job.how = "copying"
    BY <1>9 DEF copyBugReport, Doing
  <2>2. Me = "bug-report" /\ job.file \in ReportFiles
    BY <1>2, <2>1 DEF Mine
  <2>3. job.file \in AllFiles /\ job.file[1] = Me
    BY <2>2 DEF AllFiles, ReportFiles
  <2>4. job.file \in work.taken
    BY <1>1, <1>2, <1>3, <2>1 DEF IInv, LedgerInv, Second
  <2>5. PICK T : T = {job.file}
    OBVIOUS
  <2>6. /\ T \in SUBSET AllFiles /\ (\A g \in T : g[1] = Me) /\ job.file \in T
        /\ T \subseteq work.taken
    BY <2>3, <2>4, <2>5
  <2>7. \/ /\ disk' = [disk EXCEPT ![job.file] = "raw"] /\ GR!recordArtifact(job.file)
           /\ JobDone(TRUE) /\ heard' = heard
        \/ /\ disk' = [disk EXCEPT ![job.file] = "absent"] /\ ExecFails({})
           /\ UNCHANGED <<arts, collected>>
    BY <1>9 DEF copyBugReport
  <2>8. /\ \A g \in AllFiles : g \notin T => disk'[g] = disk[g]
        /\ \A g \in ReportFiles : g \in T => disk'[g] # "torn"
    BY <1>2, <2>3, <2>5, <2>7
  <2>9. /\ DOMAIN work' = {"plan", "errs", "got", "deny", "taken"}
        /\ work'.plan = Tail(work.plan) /\ (work.errs => work'.errs)
        /\ work'.taken = work.taken
        /\ heard' = heard \/ Overheard
    BY <2>7, ExecOrDone
  <2>10. work'.taken = work.taken \cup T
    BY <2>6, <2>9
  <2>11. GR!Recorded' \subseteq GR!Recorded \cup T /\ (collected => collected')
    <3>1. CASE GR!recordArtifact(job.file)
      <4>1. GR!indexArtifact(job.file) /\ collected'
        BY <3>1 DEF GR!recordArtifact
      <4>2. GR!Recorded' = GR!Recorded \cup {job.file}
        BY <1>1, <4>1, Indexed
      <4> QED
        BY <2>5, <4>1, <4>2
    <3>2. CASE UNCHANGED <<arts, collected>>
      BY <1>4, <3>2
    <3> QED
      BY <2>7, <3>1, <3>2
  <2> QED
    BY <1>1, <1>3, <2>6, <2>8, <2>9, <2>10, <2>11, ExecJobMoves
<1> QED
  BY <1>6, <1>7, <1>8, <1>9

-----------------------------------------------------------------------------
(* The theorems. *)

\* Before the first step no collector ran, nothing is planned, and no file is
\* touched.
LEMMA InitIsGood ==
  ASSUME Init
  PROVE  IInv
<1>1. GR!TypeOK
  <2>1. P!TypeOK
    BY SameRun, P!InitIInv, GatherRunAssumptions DEF Init, P!IInv
  <2> QED
    BY <2>1, SameRun
<1>2. /\ scenario \in Scenarios /\ N \in Nat /\ DOMAIN Registry = 1 .. N
      /\ scenario.pods \subseteq Pods /\ scenario.churn \in Nat /\ MaxFaults \in Nat
  BY ScenariosAssumption, FaultsAssumption DEF Init, Registry
<1>3. /\ pc = "start" /\ at = 1 /\ ph = "read" /\ work = NoWork /\ ~Busy
      /\ status = [c \in 1 .. N |-> "none"] /\ GR!Recorded = {}
      /\ \A f \in AllFiles : GR!Fresh(f) /\ part[f] = "absent" /\ disk[f] = "absent"
  BY DEF Init, GR!Init, GR!Fresh, GR!Recorded, GR!Collector, GR!Names, Busy
<1>4. Shape
  <2>1. live \subseteq Pods
    BY <1>2 DEF Init
  <2>2. heard \in [DOMAIN Registry -> SUBSET (Questions \X Gaps)] /\ DOMAIN said = 1 .. N
    BY <1>2 DEF Init
  <2>3. /\ gs.operand = {} /\ gs.operator = {} /\ gs.drivers = {}
        /\ DOMAIN gs = {"ns", "prepared", "operand", "operator", "drivers", "found"}
    BY DEF Init
  <2>4. churn \in 0 .. scenario.churn /\ faults \in 0 .. MaxFaults
    BY <1>2 DEF Init
  <2>5. DOMAIN work = {"plan", "errs", "got", "deny", "taken"}
    BY <1>3 DEF NoWork
  <2> QED
    BY <1>1, <1>2, <1>3, <2>1, <2>2, <2>3, <2>4, <2>5 DEF Shape, TypeOK
<1>5. PhaseInv /\ PlanInv /\ LedgerInv
  BY <1>2, <1>3 DEF PhaseInv, PlanInv, LedgerInv
<1>6. FilesInv
  <2>1. ~Copying /\ ph # "made"
    BY <1>3 DEF Copying
  <2> QED
    BY <1>3, <2>1 DEF FilesInv, ReportFiles, AllFiles
<1>7. TalkInv
  <2>1. \A c \in 1 .. N : heard[c] = {} /\ ~(c < at)
    BY <1>2, <1>3 DEF Init
  <2> QED
    BY <1>3, <2>1 DEF TalkInv
<1>8. ListInv /\ EvidenceInv
  BY <1>2, <1>3 DEF ListInv, EvidenceInv
<1> QED
  BY <1>4, <1>5, <1>6, <1>7, <1>8 DEF IInv

\* Every step keeps the invariant.
LEMMA StepKeeps ==
  ASSUME IInv, [Next]_vars
  PROVE  IInv'
<1>1. CASE Outer
  BY <1>1, OuterKeeps
<1>2. CASE ClusterScoped \/ NamespaceScoped
  BY <1>2, ClusterIsRead, NamespaceIsRead, ReadKeeps
<1>3. CASE Jobs
  BY <1>3, IdleKeeps, StreamKeeps, MarkerKeeps, ExecKeeps, FinishKeeps DEF Jobs
<1>4. CASE Churn \/ Terminated \/ UNCHANGED vars
  BY <1>4, IdleKeeps DEF Terminated
<1> QED
  BY <1>1, <1>2, <1>3, <1>4 DEF Next, Step

\* The inductive invariant holds of every gather.
THEOREM Invariance == Spec => []IInv
<1>1. Init => IInv
  BY InitIsGood
<1>2. IInv /\ [Next]_vars => IInv'
  BY StepKeeps
<1> QED
  BY <1>1, <1>2, PTL DEF Spec

\* The state keeps its shape, whatever the registry, the pods and the bounds.
THEOREM CollectorsTypeCorrect == Spec => []TypeOK
<1>1. IInv => TypeOK
  BY DEF IInv, Shape
<1> QED
  BY <1>1, Invariance, PTL

\* The collectors do to the bundle only what GatherRun lets any collector do,
\* although none of their writes looks whether its name is free (createArtifact,
\* writeMarker, discardArtifact): the theorems of GatherRunProofs hold of them.
THEOREM CollectorsGather == Spec => GatherRunSpec
<1>1. Init => GR!Init
  BY DEF Init
<1>2. IInv /\ [Next]_vars => [GR!Next]_(GR!vars)
  BY StepIsGather
<1> QED
  BY <1>1, <1>2, Invariance, PTL DEF Spec, GatherRunSpec, GR!Spec

\* A gap is the collector's error or the reason of its skip or its marker, for
\* every answer but the four kinds the code presumes on (answerOptional,
\* gatherOrMark, gatherResourceSlices, gatherFromDrivers, finish).
THEOREM GapsAreSaid == Spec => []GapIsSaid
<1>1. ASSUME IInv, NEW c \in DOMAIN Registry, Ended(c), ~(heard[c] \subseteq Presumed)
      PROVE  status[c] = "error" \/ said[c] \in {"refused", "failed"}
  <2>1. c \in 1 .. N /\ c \in Int /\ at \in Int
    BY <1>1, Shapes
  <2>2. c < at
    BY <1>1, <2>1 DEF IInv, PhaseInv, Ended
  <2> QED
    BY <1>1, <2>1, <2>2 DEF IInv, TalkInv
<1>2. IInv => GapIsSaid
  BY <1>1 DEF GapIsSaid
<1> QED
  BY <1>2, Invariance, PTL

\* The pod list, the logs and the descriptions of one bundle are of one list,
\* however the pods came and went between the collectors (prepareState).
THEOREM ListIsShared == Spec => []OneListPerBundle
<1>1. IInv => OneListPerBundle
  BY DEF IInv, ListInv, OneListPerBundle, PodKinds
<1> QED
  BY <1>1, Invariance, PTL

\* A gather that exits 0 ran every collector, and none failed or was refused.
LEMMA CompleteIsDone ==
  ASSUME IInv, P!CompleteMeansComplete, code = 0
  PROVE  /\ ~denied
         /\ \A c \in 1 .. N : c < at /\ status[c] # "error"
<1>1. ~denied /\ \A c \in 1 .. N : status[c] \in {"ok", "skipped"}
  BY DEF P!CompleteMeansComplete, P!ExitOK, P!Collector
<1>2. at \in Int /\ \A c \in 1 .. N : c \in Int
  BY Shapes
<1> QED
  BY <1>1, <1>2 DEF IInv, PhaseInv

\* The same, of the instance that GatherRunProofs speaks of.
LEMMA GathersOfProofs == Spec => P!Spec
<1>1. Init => P!Init
  BY SameRun DEF Init
<1>2. IInv /\ [Next]_vars => [P!Next]_(P!vars)
  <2> SUFFICES ASSUME IInv, [Next]_vars
               PROVE  P!Next \/ P!vars' = P!vars
    OBVIOUS
  <2>1. GR!Next \/ GR!vars' = GR!vars
    BY StepIsGather
  <2>2. GR!vars' = P!vars' /\ GR!vars = P!vars
    BY DEF GR!vars, P!vars, GR!bundle, P!bundle, GR!progress, P!progress
  <2> QED
    BY <2>1, <2>2, SameRun
<1> QED
  BY <1>1, <1>2, Invariance, PTL DEF Spec, P!Spec

\* What is proved of every gather is proved of these collectors': what exit codes 0
\* and 3 mean, that the manifest is true and accounts for what they list, and what
\* a redaction leaves.
THEOREM CollectorsAreSound ==
  Spec => [](/\ P!CompleteMeansComplete /\ P!PartialMeansEvidence
             /\ P!DigestsMatch /\ P!ArtifactsAccounted /\ P!RedactedOrGone)
<1>1. P!Spec => []P!CompleteMeansComplete
  BY P!CompleteIsComplete, GatherRunAssumptions
<1>2. P!Spec => []P!PartialMeansEvidence
  BY P!PartialHasEvidence, GatherRunAssumptions
<1>3. P!Spec => []P!DigestsMatch
  BY P!ManifestIsTrue, GatherRunAssumptions
<1>4. P!Spec => []P!ArtifactsAccounted
  BY P!ManifestAccounts, GatherRunAssumptions
<1>5. P!Spec => []P!RedactedOrGone
  BY P!NothingLeaks, GatherRunAssumptions
<1> QED
  BY <1>1, <1>2, <1>3, <1>4, <1>5, GathersOfProofs, PTL

\* A usage file that holds a refusal is recorded or being written, or the gather
\* is on its way to an exit code that is not 0.
NotedInv ==
  \A f \in noted :
    \/ f \in GR!Recorded
    \/ ph = "made" /\ f = job.file /\ job.how = "usage"
    \/ Busy /\ work.errs
    \/ \E c \in 1 .. N : c < at /\ status[c] = "error"
    \/ denied

\* Why it may not be recorded after all.
Excused == (Busy /\ work.errs) \/ (\E c \in 1 .. N : c < at /\ status[c] = "error") \/ denied

\* What a step leaves of the excuse, of what is noted and of what is recorded.
NotedMoves ==
  /\ noted' = noted
  /\ Excused => Excused'
  /\ GR!Recorded \subseteq GR!Recorded'
  /\ (ph = "made" /\ job.how = "usage") =>
       \/ ph' = "made" /\ job' = job
       \/ job.file \in GR!Recorded'
       \/ Excused'

\* Which keeps the invariant.
LEMMA NotedIsKept ==
  ASSUME NotedInv, NotedMoves
  PROVE  NotedInv'
<1>1. NotedInv <=>
        \A f \in noted :
          \/ f \in GR!Recorded
          \/ ph = "made" /\ f = job.file /\ job.how = "usage"
          \/ Excused
  BY DEF NotedInv, Excused
<1>2. NotedInv' <=>
        \A f \in noted' :
          \/ f \in GR!Recorded'
          \/ ph' = "made" /\ f = job'.file /\ job'.how = "usage"
          \/ Excused'
  BY DEF NotedInv, Excused
<1> QED
  BY <1>1, <1>2 DEF NotedMoves

\* A collector that returns is excused, if it was, by its status or its refusal.
LEMMA LeaveNoted ==
  ASSUME IInv, GR!InCollector, ph # "made", NEW st, NEW deny, Return(st, deny),
         UNCHANGED <<arts, noted>>, Busy /\ work.errs => deny \/ st = "error"
  PROVE  NotedMoves
<1>1. /\ status' = [status EXCEPT ![at] = st] /\ at' = at + 1 /\ denied' = (denied \/ deny)
  BY DEF Return, GR!End
<1>2. N \in Nat /\ at \in 1 .. N /\ DOMAIN status = 1 .. N
  BY Shapes
<1>3. status'[at] = st /\ \A c \in 1 .. N : c < at => status'[c] = status[c]
  BY <1>1, <1>2
<1>4. Excused => Excused'
  <2>1. CASE Busy /\ work.errs
    <3>1. CASE deny
      BY <1>1, <3>1 DEF Excused
    <3>2. CASE st = "error"
      <4>1. at < at' /\ status'[at] = "error"
        BY <1>1, <1>2, <1>3, <3>2
      <4> QED
        BY <1>2, <4>1 DEF Excused
    <3> QED
      BY <2>1, <3>1, <3>2
  <2>2. CASE \E c \in 1 .. N : c < at /\ status[c] = "error"
    <3>1. PICK c \in 1 .. N : c < at /\ status[c] = "error"
      BY <2>2
    <3>2. c < at' /\ status'[c] = "error"
      BY <1>1, <1>2, <1>3, <3>1
    <3> QED
      BY <3>2 DEF Excused
  <2>3. CASE denied
    BY <1>1, <2>3 DEF Excused
  <2> QED
    BY <2>1, <2>2, <2>3 DEF Excused
<1>5. GR!Recorded' = GR!Recorded
  BY DEF GR!Recorded
<1> QED
  BY <1>4, <1>5 DEF NotedMoves

\* A read keeps it.
LEMMA ReadNoted ==
  ASSUME IInv, ReadStep
  PROVE  NotedMoves
<1>1. /\ GR!InCollector /\ ~Busy /\ ph # "made" /\ UNCHANGED <<arts, noted>>
      /\ GR!Recorded' = GR!Recorded
  BY DEF ReadStep, Read, Busy, GR!Recorded
<1>2. CASE Planned \/ Waiting
  <2>1. UNCHANGED <<status, at, denied>>
    BY <1>2 DEF Planned, Waiting
  <2>2. Excused => Excused'
    BY <1>1, <2>1 DEF Excused
  <2> QED
    BY <1>1, <2>2 DEF NotedMoves
<1>3. CASE Returned
  <2>1. PICK st \in {"skipped", "error"} : Return(st, FALSE)
    BY <1>3 DEF Returned
  <2> QED
    BY <1>1, <2>1, LeaveNoted
<1> QED
  BY <1>2, <1>3 DEF ReadStep

\* So does a step of a job that stays in its collector and forgets no error.
LEMMA LocalNoted ==
  ASSUME Local, Busy, Busy', work.errs => work'.errs,
         GR!Recorded \subseteq GR!Recorded',
         (ph = "made" /\ job.how = "usage") => job.file \in GR!Recorded' \/ work'.errs
  PROVE  NotedMoves
<1>1. UNCHANGED <<status, at, denied, noted>>
  BY DEF Local
<1>2. Excused => Excused'
  BY <1>1 DEF Excused
<1>3. work'.errs => Excused'
  BY DEF Excused
<1> QED
  BY <1>1, <1>2, <1>3 DEF NotedMoves

\* Every job does: the file of a usage job is committed, or its loss is an error.
LEMMA JobNoted ==
  ASSUME IInv, NotedInv, Jobs
  PROVE  NotedInv'
<1>0. UNCHANGED arts => GR!Recorded' = GR!Recorded
  BY DEF GR!Recorded
<1>1. CASE usageCommandFails
  <2>1. /\ UNCHANGED <<at, status, arts, denied, ph, work>>
        /\ noted' = noted \cup {job.file} /\ ph = "made" /\ job.how = "usage"
    BY <1>1 DEF usageCommandFails, inner
  <2>2. job' = job /\ Busy' = Busy
    BY <2>1 DEF job, Busy
  <2> QED
    BY <1>0, <2>1, <2>2 DEF NotedInv
<1>2. CASE startFile
  <2>1. /\ Local /\ Busy /\ Busy' /\ ph # "made" /\ UNCHANGED arts
        /\ UNCHANGED work \/ JobFails
    BY <1>2 DEF startFile, Doing, Working, Busy
  <2>2. work.errs => work'.errs
    BY <2>1, Ends
  <2> QED
    BY <1>0, <2>1, <2>2, LocalNoted, NotedIsKept
<1>3. CASE commitFile
  <2>1. /\ Local /\ Busy /\ Busy' /\ JobDone(TRUE) /\ GR!InCollector
        /\ GR!indexArtifact(job.file)
    BY <1>3 DEF commitFile, commit, GR!recordArtifact, Busy
  <2>2. GR!Recorded' = GR!Recorded \cup {job.file} /\ (work.errs => work'.errs)
    BY <2>1, Ends, Indexed
  <2> QED
    BY <2>1, <2>2, LocalNoted, NotedIsKept
<1>4. CASE discardFile
  <2>1. Local /\ Busy /\ Busy' /\ JobFails /\ UNCHANGED arts
    BY <1>4 DEF discardFile, discard, Busy
  <2>2. work'.errs
    BY <2>1, Ends
  <2> QED
    BY <1>0, <2>1, <2>2, LocalNoted, NotedIsKept
<1>5. CASE describeNotFound
  <2>1. Local /\ Busy /\ Busy' /\ JobDone(FALSE) /\ UNCHANGED arts /\ job.how # "usage"
    BY <1>5 DEF describeNotFound, discard, Busy
  <2>2. work.errs => work'.errs
    BY <2>1, Ends
  <2> QED
    BY <1>0, <2>1, <2>2, LocalNoted, NotedIsKept
<1>6. CASE writeMarker
  <2>1. /\ Local /\ Busy /\ Busy' /\ ph # "made" /\ JobDone(FALSE) /\ GR!InCollector
        /\ GR!indexArtifact(job.file)
    BY <1>6 DEF writeMarker, Doing, Working, Busy
  <2>2. GR!Recorded' = GR!Recorded \cup {job.file} /\ (work.errs => work'.errs)
    BY <2>1, Ends, Indexed
  <2> QED
    BY <2>1, <2>2, LocalNoted, NotedIsKept
<1>7. CASE markerFails
  <2>1. GR!InCollector /\ ph # "made" /\ Return("error", FALSE) /\ UNCHANGED <<arts, noted>>
    BY <1>7 DEF markerFails, Doing, Working, history
  <2> QED
    BY <2>1, LeaveNoted, NotedIsKept
<1>8. CASE finish
  <2>1. GR!InCollector /\ ph # "made" /\ UNCHANGED <<arts, noted>>
    BY <1>8 DEF finish, Working
  <2>2. PICK st, deny : Return(st, deny) /\ (work.errs => deny \/ st = "error")
    BY <1>8 DEF finish, Fail, Skip
  <2> QED
    BY <2>1, <2>2, LeaveNoted, NotedIsKept
<1>9. CASE notCollectable \/ execBugReport \/ copyBugReport \/ probeDeviceUsage
  <2>1. Local /\ Busy /\ Busy' /\ ph # "made"
    BY <1>9 DEF notCollectable, execBugReport, copyBugReport, probeDeviceUsage, Doing, Working,
                Busy
  <2>2. DOMAIN work = {"plan", "errs", "got", "deny", "taken"}
    BY DEF IInv, Shape
  <2>3. work.errs => work'.errs
    BY <1>9, <2>2 DEF notCollectable, execBugReport, copyBugReport, probeDeviceUsage, ExecFails,
                      JobDone
  <2>4. GR!Recorded \subseteq GR!Recorded'
    <3>1. UNCHANGED arts \/ \E f : GR!indexArtifact(f)
      BY <1>9 DEF notCollectable, execBugReport, copyBugReport, probeDeviceUsage,
                  GR!recordArtifact
    <3>2. GR!InCollector
      BY <1>9 DEF notCollectable, execBugReport, copyBugReport, probeDeviceUsage, Doing, Working
    <3> QED
      BY <1>0, <3>1, <3>2, Indexed
  <2> QED
    BY <2>1, <2>3, <2>4, LocalNoted, NotedIsKept
<1> QED
  BY <1>1, <1>2, <1>3, <1>4, <1>5, <1>6, <1>7, <1>8, <1>9 DEF Jobs

\* And every other step.
LEMMA StepNoted ==
  ASSUME IInv, NotedInv, [Next]_vars
  PROVE  NotedInv'
<1>1. CASE Outer
  <2>1. /\ ph = "read" /\ UNCHANGED <<at, arts, denied, ph, work, noted>>
        /\ status' = status \/ (pc = "collect" /\ status' = [status EXCEPT ![at] = "open"])
    BY <1>1, OuterFrame
  <2>2. N \in Nat /\ at \in 1 .. (N + 1) /\ DOMAIN status = 1 .. N
    BY Shapes
  <2>3. \A c \in 1 .. N : c < at => status'[c] = status[c]
    BY <2>1, <2>2
  <2>4. GR!Recorded' = GR!Recorded
    BY <2>1 DEF GR!Recorded
  <2>5. Excused => Excused'
    BY <2>1, <2>3 DEF Excused, Busy
  <2> QED
    BY <2>1, <2>4, <2>5, NotedIsKept DEF NotedMoves
<1>2. CASE ClusterScoped \/ NamespaceScoped
  BY <1>2, ClusterIsRead, NamespaceIsRead, ReadNoted, NotedIsKept
<1>3. CASE Jobs
  BY <1>3, JobNoted
<1>4. CASE Churn \/ Terminated \/ UNCHANGED vars
  <2>1. UNCHANGED <<at, status, arts, denied, ph, work, noted>>
    BY <1>4 DEF Churn, Terminated, vars, inner, history
  <2>2. job' = job /\ Busy' = Busy /\ GR!Recorded' = GR!Recorded
    BY <2>1 DEF job, Busy, GR!Recorded
  <2> QED
    BY <2>1, <2>2 DEF NotedInv
<1> QED
  BY <1>1, <1>2, <1>3, <1>4 DEF Next, Step

\* Exit 0 hides no refused exec: a bug report or a probe that was refused or ran out
\* of time makes the exit code another (gatherState.execDenied, finish, ExitCode), and
\* what a usage command was refused is in a file the gather recorded (writeDeviceUsage).
THEOREM RefusalIsReported == Spec => []RefusedExecIsReported
<1>1. ASSUME IInv, P!CompleteMeansComplete, code = 0,
             NEW c \in DOMAIN Registry, Registry[c] \in Execs
      PROVE  heard[c] \subseteq Presumed
  <2>1. c \in 1 .. N
    BY <1>1, Shapes
  <2> QED
    BY <1>1, <2>1, CompleteIsDone DEF IInv, TalkInv
<1>2. ASSUME IInv, NotedInv, P!CompleteMeansComplete, code = 0
      PROVE  noted \subseteq GR!Recorded
  <2>1. ~denied /\ \A c \in 1 .. N : status[c] # "error"
    BY <1>2, CompleteIsDone
  <2>2. ph = "read"
    <3>1. \A c \in 1 .. N : c < at
      BY <1>2, CompleteIsDone
    <3>2. GR!InCollector => at \in 1 .. N /\ at \in Int
      BY <1>2, Shapes
    <3> QED
      BY <1>2, <3>1, <3>2 DEF IInv, PhaseInv
  <2> QED
    BY <1>2, <2>1, <2>2 DEF NotedInv, Busy
<1>3. IInv /\ NotedInv /\ P!CompleteMeansComplete => RefusedExecIsReported
  BY <1>1, <1>2 DEF RefusedExecIsReported
<1>4. Init => NotedInv
  BY DEF Init, NotedInv
<1>5. IInv /\ NotedInv /\ [Next]_vars => NotedInv'
  BY StepNoted
<1>6. Spec => []NotedInv
  BY <1>4, <1>5, Invariance, PTL DEF Spec
<1> QED
  BY <1>3, <1>6, Invariance, CollectorsAreSound, PTL

\* Exit 0 has evidence in it: the collector every registry has that cannot end
\* well without a file is what carries this (gatherNodeInfo, writeArtifactFile).
THEOREM CompleteIsEvidence == Spec => []CompleteHasEvidence
<1>1. ASSUME IInv, P!CompleteMeansComplete, code = 0
      PROVE  collected
  <2>1. PICK c \in 1 .. N : Registry[c] \in Unconditional
    BY <1>1, Shapes, ScenariosAssumption DEF Registry
  <2> QED
    BY <1>1, <2>1, CompleteIsDone DEF IInv, EvidenceInv
<1>2. IInv /\ P!CompleteMeansComplete => CompleteHasEvidence
  BY <1>1 DEF CompleteHasEvidence
<1> QED
  BY <1>2, Invariance, CollectorsAreSound, PTL

=============================================================================
