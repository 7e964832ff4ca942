------------------------------ MODULE GatherRun ------------------------------
(***************************************************************************)
(* One run of "kubectl nv adm must-gather" (pkg/mustgather): the Gatherer  *)
(* from NewGatherer to the exit code.  A run creates its log files, checks *)
(* --node, runs every collector of the registry in turn, and then, in a    *)
(* deferred call that a panic reaches too, redacts the bundle when asked,  *)
(* indexes it and writes manifest.json.                                    *)
(*                                                                         *)
(* What a collector may do to the bundle is stated here for any collector: *)
(* it creates an artifact under a ".part" name, commits or discards it,    *)
(* writes a marker, copies a file out of a pod, and ends ok, skipped or    *)
(* error.  Module Collectors has the collectors themselves and is checked  *)
(* to do nothing else.                                                     *)
(*                                                                         *)
(* A file is a model value and its content is abstracted to what the       *)
(* properties tell apart: absent, torn (a write that did not finish), raw  *)
(* (as collected) or redacted.  The digest a manifest records is the       *)
(* content that was hashed.                                                *)
(***************************************************************************)
EXTENDS Integers

CONSTANTS
  N,        \* how many collectors the registry holds
  Files,    \* the names collectors write artifacts under
  LogFile, ErrLogFile,  \* must-gather.log and must-gather.stderr.log
  Markers,  \* the ".missing" files, written in place
  Copied,   \* the bug reports, copied out of a pod in place
  Guarded,  \* the artifacts whose writer defers its discard
  Stuck     \* the files a removal of which can fail

ASSUME NAssumption == N \in Nat
ASSUME FilesAssumption ==
  /\ Files \cap {LogFile, ErrLogFile} = {}
  /\ Markers \subseteq Files
  /\ Copied \subseteq Files
  /\ Guarded \subseteq Files
  /\ Stuck \subseteq Files \cup {LogFile, ErrLogFile}
  /\ Markers \cap Copied = {}

VARIABLES
  opts,       \* the flags: --redact and whether --node was given
  pc,         \* where Run is
  at,         \* the collector being run, or the next one
  status,     \* what each collector ended as; "open" is the empty Status
  arts,       \* CollectorStatus.Artifacts, per collector
  collected,  \* Gatherer.collected
  denied,     \* gatherState.execDenied is not empty
  disk,       \* the files of the artifact directory, by final name
  part,       \* the ".part" files of the artifact directory
  dropped,    \* the files the redaction removed
  outcome,    \* how collect (or checkNode, or a panic) ended
  manifest,   \* manifest.json, as it is on disk
  code        \* the exit code

bundle == <<disk, part>>
progress == <<at, status, arts, collected, denied>>
vars == <<opts, pc, progress, bundle, dropped, outcome, manifest, code>>

Logs == {LogFile, ErrLogFile}
Names == Files \cup Logs
Collector == 1 .. N
Content == {"absent", "torn", "raw", "redacted"}
Statuses == {"none", "open", "ok", "skipped", "error"}
Ended == {"ok", "skipped", "error"}
Outcomes == {"none", "complete", "failed", "usage", "panic"}

ExitOK == 0
ExitUsage == 2
ExitPartial == 3
ExitError == 4
Running == -1  \* no exit code yet

NoManifest == [whole |-> FALSE]
Index(files, parts) ==
  [whole |-> TRUE, files |-> files, parts |-> parts,
   status |-> status, arts |-> arts, dropped |-> dropped]

Init ==
  /\ opts \in [redact : BOOLEAN, node : BOOLEAN]
  /\ pc = "start"
  /\ at = 1
  /\ status = [c \in Collector |-> "none"]
  /\ arts = [c \in Collector |-> {}]
  /\ collected = FALSE
  /\ denied = FALSE
  /\ disk = [f \in Names |-> "absent"]
  /\ part = [f \in Files |-> "absent"]
  /\ dropped = {}
  /\ outcome = "none"
  /\ manifest = NoManifest
  /\ code = Running

-----------------------------------------------------------------------------
(* NewGatherer and checkNode. *)

\* The directory was refused (a usage error) or could not be read or made.
Refused(c) ==
  /\ pc = "start"
  /\ pc' = "exit"
  /\ code' = c
  /\ UNCHANGED <<opts, progress, bundle, dropped, outcome, manifest>>

\* The log files were started, and a file or a client could not be had.
InitFails(made) ==
  /\ pc = "start"
  /\ disk' = [f \in Names |-> IF f \in made THEN "raw" ELSE "absent"]
  /\ pc' = "exit"
  /\ code' = ExitError
  /\ UNCHANGED <<opts, progress, part, dropped, outcome, manifest>>

NewGatherer ==
  /\ pc = "start"
  /\ disk' = [f \in Names |-> IF f \in Logs THEN "raw" ELSE "absent"]
  /\ pc' = "node"
  /\ UNCHANGED <<opts, progress, part, dropped, outcome, manifest, code>>

\* No --node, a node the cluster has, or a cluster that would not say.
CheckNode ==
  /\ pc = "node"
  /\ pc' = "collect"
  /\ UNCHANGED <<opts, progress, bundle, dropped, outcome, manifest, code>>

\* A --node that names nothing is a usage error, past the deferred manifest.
NoSuchNode ==
  /\ pc = "node"
  /\ opts.node
  /\ outcome' = "usage"
  /\ pc' = "deferred"
  /\ UNCHANGED <<opts, progress, bundle, dropped, manifest, code>>

-----------------------------------------------------------------------------
(* collect: one collector at a time. *)

Begin ==
  /\ pc = "collect"
  /\ at \in Collector
  /\ status[at] = "none"
  /\ status' = [status EXCEPT ![at] = "open"]
  /\ UNCHANGED <<opts, pc, at, arts, collected, denied, bundle, dropped,
                 outcome, manifest, code>>

InCollector == pc = "collect" /\ at \in Collector /\ status[at] = "open"

\* Mutant of End: a collector that failed stops the gather.
EndStopsOnError(st, deny) ==
  /\ status' = [status EXCEPT ![at] = st]
  /\ at' = IF st = "error" THEN N + 1 ELSE at + 1
  /\ denied' = (denied \/ deny)

\* The collector returned st; a denied exec is noted on the way out.
End(st, deny) ==
  /\ status' = [status EXCEPT ![at] = st]
  /\ at' = at + 1
  /\ denied' = (denied \/ deny)

indexArtifact(f) == arts' = [arts EXCEPT ![at] = @ \cup {f}]

recordArtifact(f) == collected' = TRUE /\ indexArtifact(f)

Recorded == UNION {arts[c] : c \in Collector}

\* No two files of a bundle share a name: the names carry the pod, the
\* container and the node, and the exec collectors keep a ledger of theirs.
Fresh(f) == disk[f] = "absent" /\ part[f] = "absent" /\ f \notin Recorded

\* Mutant of createArtifact: recorded when started rather than when committed.
createRecords(f) ==
  /\ InCollector
  /\ f \notin Markers \cup Copied
  /\ Fresh(f)
  /\ part' = [part EXCEPT ![f] = "raw"]
  /\ recordArtifact(f)
  /\ UNCHANGED <<opts, pc, at, status, denied, disk, dropped, outcome, manifest, code>>

createArtifact(f) ==
  /\ InCollector
  /\ f \notin Markers \cup Copied
  /\ Fresh(f)
  /\ part' = [part EXCEPT ![f] = "raw"]
  /\ UNCHANGED <<opts, pc, progress, disk, dropped, outcome, manifest, code>>

commit(f) ==
  /\ InCollector
  /\ part[f] = "raw"
  /\ part' = [part EXCEPT ![f] = "absent"]
  /\ disk' = [disk EXCEPT ![f] = "raw"]
  /\ recordArtifact(f)
  /\ UNCHANGED <<opts, pc, at, status, denied, dropped, outcome, manifest, code>>

\* A write, a close or a rename that failed: the ".part" goes, or is left torn
\* when it cannot be removed.
discard(f) ==
  /\ InCollector
  /\ part[f] = "raw"
  /\ \E left \in {"absent"} \cup (IF f \in Stuck THEN {"torn"} ELSE {}) :
       part' = [part EXCEPT ![f] = left]
  /\ UNCHANGED <<opts, pc, progress, disk, dropped, outcome, manifest, code>>

\* Mutant of writeMarker: a marker counts as something collected.
markerCollects(f) ==
  /\ InCollector
  /\ f \in Markers
  /\ Fresh(f)
  /\ disk' = [disk EXCEPT ![f] = "raw"]
  /\ recordArtifact(f)
  /\ UNCHANGED <<opts, pc, at, status, denied, part, dropped, outcome, manifest, code>>

writeMarker(f) ==
  /\ InCollector
  /\ f \in Markers
  /\ Fresh(f)
  /\ disk' = [disk EXCEPT ![f] = "raw"]
  /\ indexArtifact(f)
  /\ UNCHANGED <<opts, pc, at, status, collected, denied, part, dropped,
                 outcome, manifest, code>>

\* The marker is written in place, so a write that fails leaves what it wrote,
\* and the collector ends there.
markerFails(f) ==
  /\ InCollector
  /\ f \in Markers
  /\ Fresh(f)
  /\ \A g \in Files : part[g] # "raw"
  /\ \A g \in Copied \ Stuck : disk[g] # "torn"
  /\ \E left \in {"absent", "torn"} : disk' = [disk EXCEPT ![f] = left]
  /\ End("error", FALSE)
  /\ UNCHANGED <<opts, pc, arts, collected, part, dropped, outcome, manifest, code>>

\* untarAll opens the destination itself and fills it as the archive arrives.
copyStarts(f) ==
  /\ InCollector
  /\ f \in Copied
  /\ Fresh(f)
  /\ disk' = [disk EXCEPT ![f] = "torn"]
  /\ UNCHANGED <<opts, pc, progress, part, dropped, outcome, manifest, code>>

copyDone(f) ==
  /\ InCollector
  /\ f \in Copied
  /\ disk[f] = "torn"
  /\ disk' = [disk EXCEPT ![f] = "raw"]
  /\ recordArtifact(f)
  /\ UNCHANGED <<opts, pc, at, status, denied, part, dropped, outcome, manifest, code>>

\* An archive that holds no regular file ends the copy without an error.
copyEmpty(f) ==
  /\ InCollector
  /\ f \in Copied
  /\ Fresh(f)
  /\ recordArtifact(f)
  /\ UNCHANGED <<opts, pc, at, status, denied, bundle, dropped, outcome, manifest, code>>

\* A copy that failed is taken back; it is only ever one just started.
discardArtifact(f) ==
  /\ InCollector
  /\ f \in Copied
  /\ f \notin Recorded
  /\ disk' = [disk EXCEPT ![f] = "absent"]
  /\ UNCHANGED <<opts, pc, progress, part, dropped, outcome, manifest, code>>

\* Mutant of Return: an early return leaves the artifact it had started.
returnLeaves(st, deny) ==
  /\ InCollector
  /\ deny => st = "skipped"
  /\ End(st, deny)
  /\ UNCHANGED <<opts, pc, arts, collected, bundle, dropped, outcome, manifest, code>>

\* A collector returns once every artifact it started is committed, discarded
\* or copied; a copy that failed and cannot be removed stays.
Return(st, deny) ==
  /\ InCollector
  /\ \A f \in Files : part[f] # "raw"
  /\ \A f \in Copied \ Stuck : disk[f] # "torn"
  /\ deny => st = "skipped"
  /\ End(st, deny)
  /\ UNCHANGED <<opts, pc, arts, collected, bundle, dropped, outcome, manifest, code>>

\* A panic unwinds through the deferred discards of the writers that have one.
Panic ==
  /\ InCollector
  /\ part' = [f \in Files |-> IF f \in Guarded THEN "absent" ELSE part[f]]
  /\ outcome' = "panic"
  /\ pc' = "deferred"
  /\ UNCHANGED <<opts, progress, disk, dropped, manifest, code>>

failed == {c \in Collector : status[c] = "error"}

\* Mutant of collect: a denied exec is a skip like any other.
collectIgnoresDenied ==
  /\ pc = "collect"
  /\ at = N + 1
  /\ outcome' = IF failed # {} THEN "failed" ELSE "complete"
  /\ pc' = "deferred"
  /\ UNCHANGED <<opts, progress, bundle, dropped, manifest, code>>

collect ==
  /\ pc = "collect"
  /\ at = N + 1
  /\ outcome' = IF denied \/ failed # {} THEN "failed" ELSE "complete"
  /\ pc' = "deferred"
  /\ UNCHANGED <<opts, progress, bundle, dropped, manifest, code>>

-----------------------------------------------------------------------------
(* The deferred writeManifest, and the exit code Run returns. *)

\* Mutant of ExitCode: a usage error exits as a finding does.
ExitCodeOne == IF outcome = "usage" THEN 1 ELSE ExitError

ExitCode ==
  CASE outcome = "complete" -> ExitOK
    [] outcome = "usage"    -> ExitUsage
    [] outcome = "failed"   -> IF collected THEN ExitPartial ELSE ExitError
    [] OTHER                -> ExitError

\* Mutant of writeManifest: indexed before it is redacted.
indexThenRedact ==
  /\ pc = "deferred"
  /\ manifest' = Index(disk, part)
  /\ pc' = IF opts.redact THEN "redact" ELSE "index"
  /\ UNCHANGED <<opts, progress, bundle, dropped, outcome, code>>

writeManifest ==
  /\ pc = "deferred"
  /\ pc' = IF opts.redact THEN "redact" ELSE "index"
  /\ UNCHANGED <<opts, progress, bundle, dropped, outcome, manifest, code>>

Unredacted == {"torn", "raw"}

\* The files are rewritten in a fixed order, whatever it is.
NextFile(f) ==
  /\ disk[f] \in Unredacted
  /\ f = CHOOSE g \in Names : disk[g] \in Unredacted

\* One file rewritten beside itself and renamed over the original.
redactFile(f) ==
  /\ pc = "redact"
  /\ NextFile(f)
  /\ disk' = [disk EXCEPT ![f] = "redacted"]
  /\ UNCHANGED <<opts, pc, progress, part, dropped, outcome, manifest, code>>

redactPart(f) ==
  /\ pc = "redact"
  /\ part[f] \in Unredacted
  /\ \E left \in {"redacted", "absent"} : part' = [part EXCEPT ![f] = left]
  /\ UNCHANGED <<opts, pc, progress, disk, dropped, outcome, manifest, code>>

\* Neither text nor gzip: removed, and the manifest says so.
dropFile(f) ==
  /\ pc = "redact"
  /\ NextFile(f)
  /\ disk' = [disk EXCEPT ![f] = "absent"]
  /\ dropped' = dropped \cup {f}
  /\ UNCHANGED <<opts, pc, progress, part, outcome, manifest, code>>

\* Mutant of redactBundleFails: what was not reached stays where it is.
redactFailsKeeps ==
  /\ pc = "redact"
  /\ pc' = "exit"
  /\ code' = ExitError
  /\ UNCHANGED <<opts, progress, bundle, dropped, outcome, manifest>>

\* A redaction that cannot finish takes the bundle with it; a file discardBundle
\* cannot remove is noted and stays.  Left out are a directory that the redaction
\* could list and discardBundle cannot, which keeps every file, and an error of
\* NewRedactor, which crypto/rand does not return in the Go the module asks for.
redactBundleFails ==
  /\ pc = "redact"
  /\ \E kept \in SUBSET Stuck :
       /\ disk' = [f \in Names |-> IF f \in kept THEN disk[f] ELSE "absent"]
       /\ part' = [f \in Files |-> IF f \in kept THEN part[f] ELSE "absent"]
  /\ pc' = "exit"
  /\ code' = ExitError
  /\ UNCHANGED <<opts, progress, dropped, outcome, manifest>>

redactBundle ==
  /\ pc = "redact"
  /\ \A f \in Names : disk[f] \notin Unredacted
  /\ \A f \in Files : part[f] \notin Unredacted
  /\ pc' = "index"
  /\ UNCHANGED <<opts, progress, bundle, dropped, outcome, manifest, code>>

\* indexBundle hashes what the directory holds, ".part" names included.
indexBundle ==
  /\ pc = "index"
  /\ manifest' = Index(disk, part)
  /\ pc' = "exit"
  /\ code' = ExitCode
  /\ UNCHANGED <<opts, progress, bundle, dropped, outcome>>

\* A file that cannot be hashed, or a manifest that cannot be written, is noted.
indexFails ==
  /\ pc = "index"
  /\ pc' = "exit"
  /\ code' = ExitCode
  /\ UNCHANGED <<opts, progress, bundle, dropped, outcome, manifest>>

\* The process is killed: no deferred call runs.
Kill ==
  /\ pc \notin {"exit", "killed"}
  /\ pc' = "killed"
  /\ UNCHANGED <<opts, progress, bundle, dropped, outcome, manifest, code>>

Terminated == pc \in {"exit", "killed"} /\ UNCHANGED vars

-----------------------------------------------------------------------------
Setup ==
  \/ \E c \in {ExitUsage, ExitError} : Refused(c)
  \/ \E made \in {{}, {LogFile}, Logs} : InitFails(made)
  \/ NewGatherer
  \/ CheckNode
  \/ NoSuchNode

Collecting ==
  \/ Begin
  \/ \E f \in Files :
       \/ createArtifact(f) \/ commit(f) \/ discard(f)
       \/ writeMarker(f) \/ markerFails(f)
       \/ copyStarts(f) \/ copyDone(f) \/ copyEmpty(f) \/ discardArtifact(f)
  \/ \E st \in Ended, deny \in BOOLEAN : Return(st, deny)
  \/ Panic
  \/ collect

Sealing ==
  \/ writeManifest
  \/ \E f \in Names : redactFile(f) \/ dropFile(f)
  \/ \E f \in Files : redactPart(f)
  \/ redactBundleFails
  \/ redactBundle
  \/ indexBundle
  \/ indexFails

Next == Setup \/ Collecting \/ Sealing \/ Kill \/ Terminated

Spec == Init /\ [][Next]_vars

-----------------------------------------------------------------------------
(* Properties. *)

ManifestType ==
  [whole : {TRUE}, files : [Names -> Content], parts : [Files -> Content],
   status : [Collector -> Statuses], arts : [Collector -> SUBSET Files],
   dropped : SUBSET Names]

\* The shape of the state.
TypeOK ==
  /\ opts \in [redact : BOOLEAN, node : BOOLEAN]
  /\ pc \in {"start", "node", "collect", "deferred", "redact", "index", "exit", "killed"}
  /\ at \in 1 .. (N + 1)
  /\ status \in [Collector -> Statuses]
  /\ arts \in [Collector -> SUBSET Files]
  /\ collected \in BOOLEAN
  /\ denied \in BOOLEAN
  /\ disk \in [Names -> Content]
  /\ part \in [Files -> Content]
  /\ dropped \in SUBSET Names
  /\ outcome \in Outcomes
  /\ manifest \in ManifestType \cup {NoManifest}
  /\ code \in {Running, ExitOK, ExitUsage, ExitPartial, ExitError}

\* Exit 0 is a whole bundle: every collector answered ok or skipped, none of them
\* noted a refused exec (gatherState.execDenied), no write was left half done but where it could not be removed, and
\* nothing of a bundle that was to be redacted is as collected (collect,
\* redactBundle, Run).
CompleteMeansComplete ==
  code = ExitOK =>
    /\ \A c \in Collector : status[c] \in {"ok", "skipped"}
    /\ ~denied
    /\ \A f \in Files \ Stuck : part[f] = "absent" /\ disk[f] # "torn"
    /\ opts.redact => \A f \in Names : disk[f] # "raw"

\* Exit 3 is a bundle worth sending: besides the collector that failed or was
\* denied, some artifact that is not a "not installed" marker was recorded, and
\* it is on disk unless the redaction dropped it or it is a bug report whose
\* archive was empty (recordArtifact, recordMarker, Error.ExitCode).
PartialMeansEvidence ==
  code = ExitPartial =>
    /\ denied \/ failed # {}
    /\ \E f \in Recorded \ Markers :
         disk[f] # "absent" \/ f \in dropped \/ f \in Copied

\* Every artifact a collector lists, the copied bug reports apart, is a file the
\* manifest indexes or one it lists as dropped (commit, writeMarker, indexBundle).
ArtifactsAccounted ==
  manifest.whole =>
    \A c \in Collector : \A f \in manifest.arts[c] \ Copied :
      manifest.files[f] # "absent" \/ f \in manifest.dropped

\* A manifest on disk, however the process ended, has the digests of the files
\* that are on disk with it: they are taken after the last byte was written or
\* rewritten (writeManifest: sync, then redact, then index).
DigestsMatch ==
  manifest.whole => manifest.files = disk /\ manifest.parts = part

\* A run asked to redact that got as far as its deferred manifest and exited
\* leaves no byte as it was collected: the bundle is redacted, or it is gone and
\* the exit code says so, as it does of a file that could not be removed
\* (redactBundle, discardBundle).
RedactedOrGone ==
  (pc = "exit" /\ opts.redact /\ outcome # "none") =>
    /\ \A f \in Names : disk[f] \in Unredacted => f \in Stuck /\ code = ExitError
    /\ \A f \in Files : part[f] \in Unredacted => f \in Stuck /\ code = ExitError
    /\ disk[LogFile] = "absent" /\ LogFile \notin dropped => code = ExitError

\* Short of a panic, the manifest indexes no unfinished write that could be
\* removed, other than a marker whose collector says it failed (artifactFile,
\* writeMissingMarker).
NothingUnfinishedIndexed ==
  (manifest.whole /\ outcome # "panic") =>
    /\ \A f \in Files \ Stuck : manifest.parts[f] = "absent"
    /\ \A f \in Files \ Stuck : manifest.files[f] = "torn" => f \in Markers /\ failed # {}

\* One collector that failed does not cost the ones behind it: the manifest has an
\* answer from every collector of the registry (collect), unless --node was a usage
\* error and none ran.  After a panic it has the answers of those that ran before,
\* the collector that panicked without one, and none of those behind it (Run's
\* deferred writeManifest).
EveryCollectorAnswered ==
  manifest.whole =>
    /\ outcome \in {"complete", "failed"} => \A c \in Collector : manifest.status[c] \in Ended
    /\ outcome = "panic" =>
         \E panicked \in Collector :
           \A c \in Collector :
             /\ c < panicked => manifest.status[c] \in Ended
             /\ c = panicked => manifest.status[c] = "open"
             /\ c > panicked => manifest.status[c] = "none"

=============================================================================
