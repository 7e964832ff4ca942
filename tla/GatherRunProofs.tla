--------------------------- MODULE GatherRunProofs ---------------------------
(***************************************************************************)
(* Proofs about GatherRun, for every registry and every set of files.      *)
(*                                                                         *)
(* None of the properties is inductive by itself: that an exit code or a   *)
(* manifest is right depends on what held when the last collector          *)
(* returned.  IInv carries those facts from the first collector to the     *)
(* exit, one conjunct for each thing a run keeps, and every property       *)
(* follows from it.                                                        *)
(***************************************************************************)
EXTENDS GatherRun, TLAPS

\* Nothing is recorded before the run starts, and how it ended is known exactly
\* from the deferred manifest on.
PhaseInv ==
  /\ pc \in {"start", "node", "collect"} => outcome = "none"
  /\ pc \in {"deferred", "redact", "index"} => outcome # "none"
  /\ pc = "start" => \A c \in Collector : arts[c] = {}
  /\ code = ExitOK => pc = "exit" /\ outcome = "complete"
  /\ code = ExitPartial => pc = "exit" /\ outcome = "failed" /\ collected

\* The collectors before the current one have answered and those behind it have not
\* been asked; a run that reached the end of the registry has an answer from all of
\* them, and one that panicked stopped in the collector it was in.
AnswerInv ==
  /\ \A c \in Collector : c < at => status[c] \in Ended
  /\ \A c \in Collector : c > at => status[c] = "none"
  /\ outcome = "panic" => at \in Collector /\ status[at] = "open"
  /\ outcome \in {"complete", "failed"} => \A c \in Collector : status[c] \in Ended
  /\ outcome = "complete" => ~denied /\ \A c \in Collector : status[c] # "error"
  /\ outcome = "failed" => denied \/ \E c \in Collector : status[c] = "error"

\* Between two collectors, and after the last, nothing is half written but what
\* could not be removed.
CleanInv ==
  /\ \A f \in Files : part[f] # "absent" => f \notin Markers \cup Copied
  /\ outcome # "panic" => \A f \in Files \ Stuck : part[f] \in {"absent", "raw"}
  /\ (outcome # "panic" /\ pc # "killed" /\ ~InCollector) =>
       /\ \A f \in Files \ Stuck : part[f] = "absent"
       /\ \A f \in Copied \ Stuck : disk[f] # "torn"
  /\ \A f \in Names : disk[f] = "torn" =>
       f \in Copied \/ (f \in Markers /\ \E c \in Collector : status[c] = "error")

\* What is recorded is on disk, until a redaction that failed takes it all.
RecordInv ==
  /\ (pc # "exit" \/ manifest.whole \/ code = ExitPartial) =>
       \A c \in Collector : \A f \in arts[c] :
         f \in Copied \/ disk[f] # "absent" \/ f \in dropped
  /\ collected => \E c \in Collector : \E f \in arts[c] : f \notin Markers

\* The log file outlives everything but a redaction.
LogInv ==
  /\ pc \in {"node", "collect", "deferred", "redact", "index"} =>
       disk[LogFile] # "absent" \/ LogFile \in dropped
  /\ (pc = "exit" /\ outcome # "none") =>
       code = ExitError \/ disk[LogFile] # "absent" \/ LogFile \in dropped

\* Past a redaction nothing is as it was collected, unless it could not be
\* removed after a redaction that failed.
RedactInv ==
  (opts.redact /\ outcome # "none" /\ pc \in {"index", "exit"}) =>
    /\ \A f \in Names : disk[f] \in Unredacted => f \in Stuck /\ pc = "exit" /\ code = ExitError
    /\ \A f \in Files : part[f] \in Unredacted => f \in Stuck /\ pc = "exit" /\ code = ExitError

\* A manifest is written last, of the bundle as it is.
ManifestInv ==
  manifest.whole =>
    /\ pc = "exit"
    /\ outcome # "none"
    /\ manifest = Index(disk, part)

IInv ==
  /\ TypeOK
  /\ PhaseInv
  /\ AnswerInv
  /\ CleanInv
  /\ RecordInv
  /\ LogInv
  /\ RedactInv
  /\ ManifestInv

-----------------------------------------------------------------------------

\* Every action keeps the state in its shape.
LEMMA TypeStep ==
  ASSUME TypeOK, [Next]_vars
  PROVE  TypeOK'
<1> USE FilesAssumption, NAssumption
    DEF TypeOK, Content, Statuses, Ended, Outcomes, ExitOK, ExitUsage, ExitPartial,
        ExitError, Running, Collector, Names, vars, bundle, progress
<1>1. CASE Setup
  BY <1>1 DEF Setup, Refused, InitFails, NewGatherer, CheckNode, NoSuchNode, Logs
<1>2. CASE Collecting
  <2>1. CASE Begin
    BY <2>1 DEF Begin
  <2>2. ASSUME NEW f \in Files, createArtifact(f) \/ commit(f) \/ discard(f)
        PROVE  TypeOK'
    <3>1. CASE createArtifact(f)
      BY <3>1 DEF createArtifact
    <3>2. CASE commit(f)
      BY <3>2 DEF commit, InCollector, recordArtifact, indexArtifact
    <3>3. CASE discard(f)
      BY <3>3 DEF discard
    <3> QED
      BY <2>2, <3>1, <3>2, <3>3
  <2>3. ASSUME NEW f \in Files, writeMarker(f) PROVE TypeOK'
    BY <2>3 DEF writeMarker, InCollector, indexArtifact
  <2>4. ASSUME NEW f \in Files, markerFails(f) PROVE TypeOK'
    <3>1. denied' \in BOOLEAN
      BY <2>4, Zenon DEF markerFails, End
    <3>2. at' \in 1 .. (N + 1) /\ status' \in [Collector -> Statuses]
      BY <2>4 DEF markerFails, InCollector, End
    <3>3. disk' \in [Names -> Content]
      BY <2>4 DEF markerFails
    <3> QED
      BY <2>4, <3>1, <3>2, <3>3 DEF markerFails
  <2>5. ASSUME NEW f \in Files,
               copyStarts(f) \/ copyDone(f) \/ copyEmpty(f) \/ discardArtifact(f)
        PROVE  TypeOK'
    <3>1. CASE copyStarts(f) \/ discardArtifact(f)
      BY <3>1 DEF copyStarts, discardArtifact
    <3>2. CASE copyDone(f)
      BY <3>2 DEF copyDone, InCollector, recordArtifact, indexArtifact
    <3>3. CASE copyEmpty(f)
      BY <3>3 DEF copyEmpty, InCollector, recordArtifact, indexArtifact
    <3> QED
      BY <2>5, <3>1, <3>2, <3>3
  <2>6. ASSUME NEW st \in Ended, NEW deny \in BOOLEAN, Return(st, deny) PROVE TypeOK'
    <3>1. denied' \in BOOLEAN
      BY <2>6, Zenon DEF Return, End
    <3>2. at' \in 1 .. (N + 1) /\ status' \in [Collector -> Statuses]
      BY <2>6 DEF Return, InCollector, End
    <3> QED
      BY <2>6, <3>1, <3>2 DEF Return
  <2>7. CASE Panic \/ collect
    BY <2>7 DEF Panic, collect
  <2> QED
    BY <1>2, <2>1, <2>2, <2>3, <2>4, <2>5, <2>6, <2>7 DEF Collecting
<1>3. CASE Sealing
  <2>1. CASE writeManifest \/ redactBundleFails \/ redactBundle
    BY <2>1 DEF writeManifest, redactBundleFails, redactBundle
  <2>2. ASSUME NEW f \in Names, redactFile(f) \/ dropFile(f) PROVE TypeOK'
    BY <2>2 DEF redactFile, dropFile
  <2>3. ASSUME NEW f \in Files, redactPart(f) PROVE TypeOK'
    <3>1. part' \in [Files -> Content]
      BY <2>3 DEF redactPart
    <3> QED
      BY <2>3, <3>1 DEF redactPart
  <2>4. CASE indexBundle
    <3>1. manifest' \in ManifestType
      BY <2>4 DEF indexBundle, Index, ManifestType
    <3> QED
      BY <2>4, <3>1 DEF indexBundle, ExitCode
  <2>5. CASE indexFails
    BY <2>5 DEF indexFails, ExitCode
  <2> QED
    BY <1>3, <2>1, <2>2, <2>3, <2>4, <2>5 DEF Sealing
<1>4. CASE Kill
  BY <1>4 DEF Kill
<1>5. CASE UNCHANGED vars
  BY <1>5
<1> QED
  BY <1>1, <1>2, <1>3, <1>4, <1>5 DEF Next, Terminated

\* The exit codes 0 and 3 are set by the last step, from the outcome.
LEMMA PhaseInvStep ==
  ASSUME IInv, [Next]_vars
  PROVE  PhaseInv'
<1> USE FilesAssumption, NAssumption
    DEF IInv, TypeOK, PhaseInv, ExitOK, ExitUsage, ExitPartial, ExitError, Running,
        Collector, Names, vars, bundle, progress
<1>1. CASE Setup
  BY <1>1 DEF Setup, Refused, InitFails, NewGatherer, CheckNode, NoSuchNode, Logs
<1>2. CASE Collecting
  BY <1>2 DEF Collecting, Begin, createArtifact, commit, discard, writeMarker,
       markerFails, copyStarts, copyDone, copyEmpty, discardArtifact, Return, Panic,
       collect, InCollector, Fresh, End, indexArtifact, recordArtifact
<1>3. CASE Sealing
  BY <1>3 DEF Sealing, writeManifest, redactFile, dropFile, redactPart,
       redactBundleFails, redactBundle, indexBundle, indexFails, ExitCode
<1>4. CASE Kill \/ UNCHANGED vars
  BY <1>4 DEF Kill
<1> QED
  BY <1>1, <1>2, <1>3, <1>4 DEF Next, Terminated

\* A collector that has ended is never opened again.
LEMMA AnswerInvStep ==
  ASSUME IInv, [Next]_vars
  PROVE  AnswerInv'
<1> USE FilesAssumption, NAssumption
    DEF IInv, TypeOK, PhaseInv, AnswerInv, Ended, Statuses,
        Collector, Names, vars, bundle, progress
<1>1. CASE Setup
  BY <1>1 DEF Setup, Refused, InitFails, NewGatherer, CheckNode, NoSuchNode, Logs
<1>2. CASE Collecting
  <2>1. CASE Begin
    BY <2>1 DEF Begin
  <2>2. ASSUME NEW f \in Files, createArtifact(f) PROVE AnswerInv'
    BY <2>2 DEF createArtifact, InCollector
  <2>3. ASSUME NEW f \in Files, commit(f) PROVE AnswerInv'
    BY <2>3 DEF commit, InCollector, recordArtifact, indexArtifact
  <2>4. ASSUME NEW f \in Files, discard(f) PROVE AnswerInv'
    BY <2>4 DEF discard, InCollector
  <2>5. ASSUME NEW f \in Files, writeMarker(f) PROVE AnswerInv'
    BY <2>5 DEF writeMarker, InCollector, indexArtifact
  <2>6. ASSUME NEW f \in Files, markerFails(f) PROVE AnswerInv'
    BY <2>6 DEF markerFails, InCollector, Fresh, End
  <2>7. ASSUME NEW f \in Files, copyStarts(f) PROVE AnswerInv'
    BY <2>7 DEF copyStarts, InCollector
  <2>8. ASSUME NEW f \in Files, copyDone(f) PROVE AnswerInv'
    BY <2>8 DEF copyDone, InCollector, recordArtifact, indexArtifact
  <2>9. ASSUME NEW f \in Files, copyEmpty(f) PROVE AnswerInv'
    BY <2>9 DEF copyEmpty, InCollector, recordArtifact, indexArtifact
  <2>10. ASSUME NEW f \in Files, discardArtifact(f) PROVE AnswerInv'
    BY <2>10 DEF discardArtifact, InCollector
  <2>11. ASSUME NEW st \in Ended, NEW deny \in BOOLEAN, Return(st, deny) PROVE AnswerInv'
    BY <2>11 DEF Return, InCollector, End
  <2>12. CASE Panic
    BY <2>12 DEF Panic, InCollector
  <2>13. CASE collect
    BY <2>13 DEF collect, failed
  <2> QED
    BY <1>2, <2>1, <2>2, <2>3, <2>4, <2>5, <2>6, <2>7,
       <2>8, <2>9, <2>10, <2>11, <2>12, <2>13 DEF Collecting
<1>3. CASE Sealing
  BY <1>3 DEF Sealing, writeManifest, redactFile, dropFile, redactPart,
       redactBundleFails, redactBundle, indexBundle, indexFails
<1>4. CASE Kill \/ UNCHANGED vars
  BY <1>4 DEF Kill
<1> QED
  BY <1>1, <1>2, <1>3, <1>4 DEF Next, Terminated

\* Only the collector that runs can have an unfinished write.
LEMMA CleanInvStep ==
  ASSUME IInv, [Next]_vars
  PROVE  CleanInv'
<1> USE FilesAssumption, NAssumption
    DEF IInv, TypeOK, PhaseInv, AnswerInv, CleanInv, Content, Logs, InCollector, Statuses,
        Ended,
        Collector, Names, vars, bundle, progress
<1>1. CASE Setup
  BY <1>1 DEF Setup, Refused, InitFails, NewGatherer, CheckNode, NoSuchNode, Logs
<1>2. CASE Collecting
  BY <1>2 DEF Collecting, Begin, createArtifact, commit, discard, writeMarker,
       markerFails, copyStarts, copyDone, copyEmpty, discardArtifact, Return, Panic,
       collect, InCollector, Fresh, End, indexArtifact, recordArtifact
<1>3. CASE Sealing
  BY <1>3 DEF Sealing, writeManifest, redactFile, dropFile, redactPart,
       redactBundleFails, redactBundle, indexBundle, indexFails, Unredacted
<1>4. CASE Kill \/ UNCHANGED vars
  BY <1>4 DEF Kill
<1> QED
  BY <1>1, <1>2, <1>3, <1>4 DEF Next, Terminated

\* What is recorded is never taken back: a name that is taken back or torn is
\* one not recorded yet.
LEMMA RecordInvStep ==
  ASSUME IInv, [Next]_vars
  PROVE  RecordInv'
<1> USE FilesAssumption, NAssumption
    DEF IInv, TypeOK, PhaseInv, CleanInv, RecordInv, ManifestInv, Recorded, Content,
        NoManifest, ExitOK, ExitUsage, ExitPartial, ExitError, Running,
        Collector, Names, vars, bundle, progress
<1>1. CASE Setup
  BY <1>1 DEF Setup, Refused, InitFails, NewGatherer, CheckNode, NoSuchNode, Logs
<1>2. CASE Collecting
  <2>1. CASE Begin
    BY <2>1 DEF Begin
  <2>2. ASSUME NEW f \in Files, createArtifact(f) PROVE RecordInv'
    BY <2>2 DEF createArtifact, InCollector
  <2>3. ASSUME NEW f \in Files, commit(f) PROVE RecordInv'
    BY <2>3 DEF commit, InCollector, recordArtifact, indexArtifact
  <2>4. ASSUME NEW f \in Files, discard(f) PROVE RecordInv'
    BY <2>4 DEF discard, InCollector
  <2>5. ASSUME NEW f \in Files, writeMarker(f) PROVE RecordInv'
    BY <2>5 DEF writeMarker, InCollector, indexArtifact
  <2>6. ASSUME NEW f \in Files, markerFails(f) PROVE RecordInv'
    BY <2>6 DEF markerFails, InCollector, Fresh, End
  <2>7. ASSUME NEW f \in Files, copyStarts(f) PROVE RecordInv'
    BY <2>7 DEF copyStarts, InCollector
  <2>8. ASSUME NEW f \in Files, copyDone(f) PROVE RecordInv'
    BY <2>8 DEF copyDone, InCollector, recordArtifact, indexArtifact
  <2>9. ASSUME NEW f \in Files, copyEmpty(f) PROVE RecordInv'
    BY <2>9 DEF copyEmpty, InCollector, recordArtifact, indexArtifact
  <2>10. ASSUME NEW f \in Files, discardArtifact(f) PROVE RecordInv'
    BY <2>10 DEF discardArtifact, InCollector
  <2>11. ASSUME NEW st \in Ended, NEW deny \in BOOLEAN, Return(st, deny) PROVE RecordInv'
    BY <2>11 DEF Return, InCollector, End
  <2>12. CASE Panic
    BY <2>12 DEF Panic, InCollector
  <2>13. CASE collect
    BY <2>13 DEF collect, failed
  <2> QED
    BY <1>2, <2>1, <2>2, <2>3, <2>4, <2>5, <2>6, <2>7,
       <2>8, <2>9, <2>10, <2>11, <2>12, <2>13 DEF Collecting
<1>3. CASE Sealing
  BY <1>3 DEF Sealing, writeManifest, redactFile, dropFile, redactPart,
       redactBundleFails, redactBundle, indexBundle, indexFails, ExitCode, Unredacted
<1>4. CASE Kill \/ UNCHANGED vars
  BY <1>4 DEF Kill
<1> QED
  BY <1>1, <1>2, <1>3, <1>4 DEF Next, Terminated

\* The names collectors write under are not the log file's.
LEMMA LogInvStep ==
  ASSUME IInv, [Next]_vars
  PROVE  LogInv'
<1> USE FilesAssumption, NAssumption
    DEF IInv, TypeOK, LogInv, PhaseInv, ExitOK, ExitError, Logs,
        Collector, Names, vars, bundle, progress
<1>1. CASE Setup
  BY <1>1 DEF Setup, Refused, InitFails, NewGatherer, CheckNode, NoSuchNode, Logs
<1>2. CASE Collecting
  BY <1>2 DEF Collecting, Begin, createArtifact, commit, discard, writeMarker,
       markerFails, copyStarts, copyDone, copyEmpty, discardArtifact, Return, Panic,
       collect, InCollector, Fresh, End, indexArtifact, recordArtifact
<1>3. CASE Sealing
  BY <1>3 DEF Sealing, writeManifest, redactFile, dropFile, redactPart,
       redactBundleFails, redactBundle, indexBundle, indexFails, ExitCode, Unredacted
<1>4. CASE Kill \/ UNCHANGED vars
  BY <1>4 DEF Kill
<1> QED
  BY <1>1, <1>2, <1>3, <1>4 DEF Next, Terminated

\* The index waits until nothing is left to redact.
LEMMA RedactInvStep ==
  ASSUME IInv, [Next]_vars
  PROVE  RedactInv'
<1> USE FilesAssumption, NAssumption
    DEF IInv, TypeOK, PhaseInv, RedactInv, Unredacted, Content,
        Collector, Names, vars, bundle, progress
<1>1. CASE Setup
  BY <1>1 DEF Setup, Refused, InitFails, NewGatherer, CheckNode, NoSuchNode, Logs
<1>2. CASE Collecting
  BY <1>2 DEF Collecting, Begin, createArtifact, commit, discard, writeMarker,
       markerFails, copyStarts, copyDone, copyEmpty, discardArtifact, Return, Panic,
       collect, InCollector, Fresh, End, indexArtifact, recordArtifact
<1>3. CASE Sealing
  BY <1>3 DEF Sealing, writeManifest, redactFile, dropFile, redactPart,
       redactBundleFails, redactBundle, indexBundle, indexFails
<1>4. CASE Kill \/ UNCHANGED vars
  BY <1>4 DEF Kill
<1> QED
  BY <1>1, <1>2, <1>3, <1>4 DEF Next, Terminated

\* Once there is a manifest nothing of the bundle changes.
LEMMA ManifestInvStep ==
  ASSUME IInv, [Next]_vars
  PROVE  ManifestInv'
<1> USE FilesAssumption, NAssumption
    DEF IInv, TypeOK, PhaseInv, ManifestInv, Index, NoManifest,
        Collector, Names, vars, bundle, progress
<1>1. CASE Setup
  BY <1>1 DEF Setup, Refused, InitFails, NewGatherer, CheckNode, NoSuchNode, Logs
<1>2. CASE Collecting
  BY <1>2 DEF Collecting, Begin, createArtifact, commit, discard, writeMarker,
       markerFails, copyStarts, copyDone, copyEmpty, discardArtifact, Return, Panic,
       collect, InCollector, Fresh, End, indexArtifact, recordArtifact
<1>3. CASE Sealing
  BY <1>3 DEF Sealing, writeManifest, redactFile, dropFile, redactPart,
       redactBundleFails, redactBundle, indexBundle, indexFails
<1>4. CASE Kill \/ UNCHANGED vars
  BY <1>4 DEF Kill
<1> QED
  BY <1>1, <1>2, <1>3, <1>4 DEF Next, Terminated

-----------------------------------------------------------------------------

\* A run starts with nothing recorded, nothing written and no manifest.
LEMMA InitIInv == Init => IInv
<1> SUFFICES ASSUME Init PROVE IInv
  OBVIOUS
<1> USE FilesAssumption, NAssumption
    DEF Init, Content, Statuses, Outcomes, Collector, Names, ExitOK, ExitUsage,
        ExitPartial, ExitError, Running
<1>1. TypeOK
  <2>1. status \in [Collector -> Statuses] /\ arts \in [Collector -> SUBSET Files]
    OBVIOUS
  <2>2. disk \in [Names -> Content] /\ part \in [Files -> Content]
    OBVIOUS
  <2>3. manifest \in ManifestType \cup {NoManifest}
    OBVIOUS
  <2>4. at \in 1 .. (N + 1) /\ dropped \in SUBSET Names
    OBVIOUS
  <2>5. collected \in BOOLEAN /\ denied \in BOOLEAN
    OBVIOUS
  <2> QED
    BY <2>1, <2>2, <2>3, <2>4, <2>5 DEF TypeOK
<1> USE DEF NoManifest
<1>2. PhaseInv /\ AnswerInv /\ CleanInv
  BY DEF PhaseInv, AnswerInv, CleanInv
<1>3. RecordInv /\ LogInv /\ RedactInv /\ ManifestInv
  BY DEF RecordInv, LogInv, RedactInv, ManifestInv
<1> QED
  BY <1>1, <1>2, <1>3 DEF IInv

\* The state of a run keeps its shape: every action of NewGatherer, Run, collect
\* and writeManifest assigns each field a value of its kind.
THEOREM TypeCorrect == Spec => []TypeOK
<1>1. Init => TypeOK
  BY InitIInv DEF IInv
<1>2. TypeOK /\ [Next]_vars => TypeOK'
  BY TypeStep
<1> QED
  BY <1>1, <1>2, PTL DEF Spec

\* The inductive invariant of a run, from which the properties below follow.
THEOREM Invariance == Spec => []IInv
<1>1. IInv /\ [Next]_vars => IInv'
  <2> SUFFICES ASSUME IInv, [Next]_vars PROVE IInv'
    OBVIOUS
  <2>1. TypeOK'
    BY TypeStep DEF IInv
  <2> QED
    BY <2>1, PhaseInvStep, AnswerInvStep, CleanInvStep, RecordInvStep, LogInvStep,
       RedactInvStep, ManifestInvStep DEF IInv
<1> QED
  BY <1>1, InitIInv, PTL DEF Spec

\* Exit 0 is a whole bundle, whatever the registry and the files: every collector
\* answered ok or skipped, none noted a refused exec, nothing is half written, and what
\* was to be redacted is (collect, Run, ExitCode).
THEOREM CompleteIsComplete == Spec => []CompleteMeansComplete
<1>1. IInv => CompleteMeansComplete
  BY FilesAssumption
  DEF IInv, TypeOK, PhaseInv, AnswerInv, CleanInv, RedactInv, CompleteMeansComplete,
      Ended, Unredacted, Names, InCollector, ExitOK, ExitError
<1> QED
  BY <1>1, Invariance, PTL

\* Exit 3 is a bundle worth sending, whatever the registry and the files
\* (recordArtifact, recordMarker, Error.ExitCode).
THEOREM PartialHasEvidence == Spec => []PartialMeansEvidence
<1>1. ASSUME IInv, code = ExitPartial
      PROVE  /\ denied \/ failed # {}
             /\ \E f \in Recorded \ Markers :
                  disk[f] # "absent" \/ f \in dropped \/ f \in Copied
  <2>1. outcome = "failed" /\ collected
    BY <1>1 DEF IInv, PhaseInv
  <2>2. denied \/ failed # {}
    BY <1>1, <2>1 DEF IInv, AnswerInv, failed
  <2>3. PICK c \in Collector : \E f \in arts[c] : f \notin Markers
    BY <1>1, <2>1 DEF IInv, RecordInv
  <2> PICK f \in arts[c] : f \notin Markers
    BY <2>3
  <2>4. f \in Copied \/ disk[f] # "absent" \/ f \in dropped
    BY <1>1 DEF IInv, RecordInv
  <2>5. f \in Recorded \ Markers
    BY DEF Recorded
  <2> QED
    BY <2>2, <2>4, <2>5
<1>2. IInv => PartialMeansEvidence
  BY <1>1 DEF PartialMeansEvidence
<1> QED
  BY <1>2, Invariance, PTL

\* A manifest on disk has the digests of the files on disk with it, of the ".part"
\* files too (writeManifest, indexBundle).
THEOREM ManifestIsTrue == Spec => []DigestsMatch
<1>1. IInv => DigestsMatch
  BY DEF IInv, ManifestInv, Index, DigestsMatch
<1> QED
  BY <1>1, Invariance, PTL

\* The manifest accounts for every artifact a collector lists, the copied bug
\* reports apart: it indexes the file or lists it as dropped (commit, writeMarker,
\* dropFile, indexBundle).
THEOREM ManifestAccounts == Spec => []ArtifactsAccounted
<1>1. ASSUME IInv, manifest.whole,
             NEW c \in Collector, NEW f \in manifest.arts[c] \ Copied
      PROVE  manifest.files[f] # "absent" \/ f \in manifest.dropped
  <2>1. manifest.arts = arts /\ manifest.files = disk /\ manifest.dropped = dropped
    BY <1>1 DEF IInv, ManifestInv, Index
  <2> QED
    BY <1>1, <2>1 DEF IInv, RecordInv
<1>2. IInv => ArtifactsAccounted
  BY <1>1 DEF ArtifactsAccounted
<1> QED
  BY <1>2, Invariance, PTL

\* A run asked to redact leaves no byte as it was collected once it has exited,
\* whichever step of the redaction failed, but in a file that could not be removed
\* and with exit 4 (redactBundle, discardBundle).
THEOREM NothingLeaks == Spec => []RedactedOrGone
<1>1. IInv => RedactedOrGone
  BY DEF IInv, TypeOK, RedactInv, LogInv, RedactedOrGone, Unredacted, Content
<1> QED
  BY <1>1, Invariance, PTL

\* Short of a panic the manifest indexes nothing unfinished that could be removed
\* but a marker whose collector failed (artifactFile, writeMissingMarker).
THEOREM ManifestIsFinished == Spec => []NothingUnfinishedIndexed
<1>1. ASSUME IInv, manifest.whole
      PROVE  manifest.parts = part /\ manifest.files = disk /\ pc = "exit"
  BY <1>1 DEF IInv, ManifestInv, Index
<1>2. IInv => NothingUnfinishedIndexed
  <2> SUFFICES ASSUME IInv, manifest.whole, outcome # "panic"
               PROVE  /\ \A f \in Files \ Stuck : part[f] = "absent"
                      /\ \A f \in Files \ Stuck :
                           disk[f] = "torn" => f \in Markers /\ failed # {}
    BY <1>1 DEF NothingUnfinishedIndexed
  <2>1. \A f \in Files \ Stuck : part[f] = "absent"
    BY <1>1 DEF IInv, CleanInv, InCollector
  <2>2. \A f \in Copied \ Stuck : disk[f] # "torn"
    BY <1>1 DEF IInv, CleanInv, InCollector
  <2>3. \A f \in Files \ Stuck : disk[f] = "torn" => f \in Markers /\ failed # {}
    BY <2>2 DEF IInv, CleanInv, Names, failed
  <2> QED
    BY <2>1, <2>3
<1> QED
  BY <1>2, Invariance, PTL

\* The manifest has the answer of every collector of the registry, whichever of them
\* failed, and after a panic of every one that ran before (collect).
THEOREM ManifestAnswers == Spec => []EveryCollectorAnswered
<1>1. ASSUME IInv, manifest.whole
      PROVE  manifest.status = status
  BY <1>1 DEF IInv, ManifestInv, Index
<1>2. ASSUME IInv, manifest.whole, outcome = "panic"
      PROVE  \E panicked \in Collector :
               \A c \in Collector :
                 /\ c < panicked => manifest.status[c] \in Ended
                 /\ c = panicked => manifest.status[c] = "open"
                 /\ c > panicked => manifest.status[c] = "none"
  <2>1. at \in Collector
    BY <1>2 DEF IInv, AnswerInv
  <2> WITNESS at \in Collector
  <2> QED
    BY <1>1, <1>2 DEF IInv, AnswerInv
<1>3. IInv => EveryCollectorAnswered
  BY <1>1, <1>2 DEF IInv, AnswerInv, EveryCollectorAnswered
<1> QED
  BY <1>3, Invariance, PTL

=============================================================================
