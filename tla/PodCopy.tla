------------------------------- MODULE PodCopy -------------------------------
(***************************************************************************)
(* The bug reports (pkg/mustgather: gatherBugReportFromDaemonSet,          *)
(* execAndCopyBugReport, cp.go): in each driver pod in turn a script is run *)
(* under a deadline, and the file it wrote is copied out by a second exec  *)
(* that runs tar.  A goroutine writes tar's output into an io.Pipe and     *)
(* untarAll reads it from there.                                           *)
(*                                                                         *)
(* The archive is a sequence of blocks: a header, the file's data, and the *)
(* zero block that ends it.  What the pod does is external: it answers, it *)
(* fails, the stream is cut anywhere, or it stops answering.               *)
(***************************************************************************)
EXTENDS Integers, Sequences

CONSTANTS
  NPods,       \* how many driver pods there are
  Size,        \* how many blocks of data a report has
  SilentExec,  \* the pods that may never answer the script
  SilentCopy   \* the pods that may never answer the copy

ASSUME PodCopyAssumption == NPods \in Nat /\ Size \in Nat \ {0}

Pods == 1 .. NPods

VARIABLES
  at,       \* the pod being collected from
  ph,       \* the step: exec, copy, then the next pod
  expired,  \* the deadline of this pod's context has passed
  tar,      \* what tar has still to send
  pipe,     \* the block a Write waits in the pipe with
  writer,   \* the goroutine's end of the pipe: none, open, closed or failed
  untar,    \* untarAll: at a header, or in a file's data
  file,     \* how much of each pod's report is on disk, -1 for no file
  result    \* what came of each pod

copying == <<tar, pipe, writer, untar>>
vars == <<at, ph, expired, copying, file, result>>

NoFile == -1
Report == <<"header">> \o [i \in 1 .. Size |-> "data"] \o <<"zero">>
NoReport == <<"zero">>  \* what tar sends for a file that is not there

Init ==
  /\ at = 1
  /\ ph = "exec"
  /\ expired = FALSE
  /\ tar = <<>>
  /\ pipe = "empty"
  /\ writer = "none"
  /\ untar = "header"
  /\ file = [p \in Pods |-> NoFile]
  /\ result = [p \in Pods |-> "none"]

\* The loop goes on to the next pod, under a deadline of its own.
Settle(how) ==
  /\ result' = [result EXCEPT ![at] = how]
  /\ at' = at + 1
  /\ ph' = "exec"
  /\ expired' = FALSE
  /\ tar' = <<>>
  /\ pipe' = "empty"
  /\ writer' = "none"
  /\ untar' = "header"

\* Mutant of fail: what a failed copy left stays.
failKeeps == Settle("failed") /\ UNCHANGED file

\* The failure is kept for the end, and discardArtifact takes the file back.
fail == Settle("failed") /\ file' = [file EXCEPT ![at] = NoFile]

Executing == at \in Pods /\ ph = "exec"
Copying == at \in Pods /\ ph = "copy"

notCollectable == Executing /\ Settle("skipped") /\ UNCHANGED file

\* Mutant of expire: the context of the exec has no deadline.
expireNever == FALSE /\ UNCHANGED vars

\* The context's timer, during the exec or the copy.
expire ==
  /\ Executing \/ Copying
  /\ ~expired
  /\ expired' = TRUE
  /\ UNCHANGED <<at, ph, copying, file, result>>

-----------------------------------------------------------------------------
(* The pod. *)

\* The script ran; newTarPipe starts the copy.  The report may not be there.
execAnswers ==
  /\ Executing
  /\ ph' = "copy"
  /\ \E archive \in {Report, NoReport} : tar' = archive
  /\ writer' = "open"
  /\ UNCHANGED <<at, expired, pipe, untar, file, result>>

execRefused == Executing /\ fail

\* tar's next block is written into the pipe, which holds one at a time.
send ==
  /\ Copying
  /\ writer = "open"
  /\ pipe = "empty"
  /\ tar # <<>>
  /\ pipe' = Head(tar)
  /\ tar' = Tail(tar)
  /\ UNCHANGED <<at, ph, expired, writer, untar, file, result>>

\* The stream ends, after the archive or short of it, with an error or without.
streamEnds ==
  /\ Copying
  /\ writer = "open"
  /\ pipe = "empty"
  /\ \E how \in {"closed", "failed"} : writer' = how
  /\ UNCHANGED <<at, ph, expired, tar, pipe, untar, file, result>>

-----------------------------------------------------------------------------
(* The gatherer. *)

\* StreamWithContext returns when the context is done; the copy has no context.
execTimesOut == Executing /\ expired /\ fail

\* Mutant of readBlock: the file takes what follows its data in the stream too.
readBlockPastEnd ==
  /\ Copying
  /\ pipe # "empty"
  /\ \/ pipe = "zero" /\ untar = "header" /\ Settle("ok") /\ UNCHANGED file
     \/ /\ file' = [file EXCEPT ![at] = IF pipe = "header" THEN 0 ELSE @ + 1]
        /\ untar' = "data"
        /\ pipe' = "empty"
        /\ UNCHANGED <<at, ph, expired, tar, writer, result>>

\* The zero block ends the archive, and whatever comes after it is not read.
readBlock ==
  /\ Copying
  /\ pipe # "empty"
  /\ \/ /\ pipe = "header"
        /\ file' = [file EXCEPT ![at] = 0]
        /\ untar' = "data"
        /\ pipe' = "empty"
        /\ UNCHANGED <<at, ph, expired, tar, writer, result>>
     \/ /\ pipe = "data"
        /\ file' = [file EXCEPT ![at] = @ + 1]
        /\ untar' = IF file[at] + 1 = Size THEN "header" ELSE "data"
        /\ pipe' = "empty"
        /\ UNCHANGED <<at, ph, expired, tar, writer, result>>
     \/ pipe = "zero" /\ Settle("ok") /\ UNCHANGED file
     \/ \* a local write that fails
        pipe \in {"header", "data"} /\ fail

\* The pipe is closed: an error is an error, the end of the stream is one in the
\* middle of a file, and between two files it is the end of the archive.
readEnd ==
  /\ Copying
  /\ pipe = "empty"
  /\ \/ writer = "failed" /\ fail
     \/ writer = "closed" /\ untar = "data" /\ fail
     \/ writer = "closed" /\ untar = "header" /\ Settle("ok") /\ UNCHANGED file

Gatherer == execTimesOut \/ readBlock \/ readEnd
Answers == execAnswers \/ execRefused
Streams == send \/ streamEnds
Finished == at = NPods + 1 /\ UNCHANGED vars

Next == notCollectable \/ expire \/ Gatherer \/ Answers \/ Streams \/ Finished

\* The gatherer and its timers run; a pod that is not a silent one answers.  Of a
\* silent one nothing is assumed: the exec has the context's deadline, and the
\* copy, which is given no context, has none (copyFromPod, initReadFrom).
Spec ==
  /\ Init
  /\ [][Next]_vars
  /\ WF_vars(Gatherer)
  /\ WF_vars(expire)
  /\ WF_vars(at \notin SilentExec /\ Answers)
  /\ WF_vars(at \notin SilentCopy /\ Streams)

-----------------------------------------------------------------------------
(* Properties. *)

\* The shape of the state.
TypeOK ==
  /\ at \in 1 .. (NPods + 1)
  /\ ph \in {"exec", "copy"}
  /\ pipe \in {"empty", "header", "data", "zero"}
  /\ writer \in {"none", "open", "closed", "failed"}
  /\ untar \in {"header", "data"}
  /\ file \in [Pods -> NoFile .. Size]
  /\ result \in [Pods -> {"none", "ok", "failed", "skipped"}]

\* What the loop leaves on disk is whole or is not there: a report that was
\* collected has every byte of its archive's file, wherever the stream was cut,
\* and a failed one leaves nothing (untarAll, discardArtifact).
SettledIsWhole ==
  \A p \in Pods :
    /\ result[p] = "ok" => file[p] \in {NoFile, Size}
    /\ result[p] \in {"failed", "skipped"} => file[p] = NoFile

\* untarAll waits for a stream that a silent pod neither continues nor ends.
HungInCopy ==
  Copying /\ at \in SilentCopy /\ writer = "open" /\ pipe = "empty"

\* One pod that cannot be collected from does not cost the ones behind it, one
\* that never answers its script included: every pod is settled, unless the
\* gather stays for ever in the copy of a pod that stopped answering there, which
\* the deadline does not reach and the only place it can be held
\* (gatherBugReportFromDaemonSet, execContext, copyFromPod).
EveryPodSettled ==
  <>(\A p \in Pods : result[p] # "none") \/ <>[]HungInCopy

=============================================================================
