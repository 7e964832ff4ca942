---------------------------- MODULE PodCopyProofs ----------------------------
(***************************************************************************)
(* Proofs about PodCopy, for any number of pods and reports of any size.   *)
(* What is on disk when a copy is settled follows from where the copy is:  *)
(* at every step the blocks written to the file, the block in the pipe and *)
(* the blocks tar has still to send are together the archive (StreamInv).  *)
(***************************************************************************)
EXTENDS PodCopy, SequenceTheorems, TLAPS

Blocks == {"header", "data", "zero"}

\* The archive without its first k blocks.
Rest(k) == [i \in 1 .. (Size + 2 - k) |-> Report[k + i]]

\* How many blocks of the archive untarAll has taken: the header makes an empty
\* file of what was none.
Taken == file[at] + 1

\* A report's archive, at any moment of its copy.
ReportInv ==
  /\ Taken \in 0 .. Size + 1
  /\ untar = IF Taken \in {0, Size + 1} THEN "header" ELSE "data"
  /\ \/ pipe = "empty" /\ tar = Rest(Taken)
     \/ pipe = Report[Taken + 1] /\ tar = Rest(Taken + 1)

\* The archive of a report that is not there: nothing but its end.
NoReportInv ==
  /\ file[at] = NoFile
  /\ untar = "header"
  /\ \/ pipe = "empty" /\ tar = <<"zero">>
     \/ pipe = "zero" /\ tar = <<>>

StreamInv == Copying => ReportInv \/ NoReportInv

\* The pods from the present one on are not settled, and have no file; a copy
\* starts with an empty pipe.
LoopInv ==
  /\ \A p \in Pods : p >= at => result[p] = "none"
  /\ \A p \in Pods : p > at => file[p] = NoFile
  /\ Executing => file[at] = NoFile
  /\ ph = "exec" => pipe = "empty" /\ untar = "header"

IInv == TypeOK /\ LoopInv /\ StreamInv /\ SettledIsWhole

-----------------------------------------------------------------------------
(* The archive. *)

\* What the blocks of the archive are.
LEMMA ReportBlocks ==
  /\ Report \in Seq(Blocks) /\ Len(Report) = Size + 2
  /\ Report[1] = "header" /\ Report[Size + 2] = "zero"
  /\ \A i \in 2 .. Size + 1 : Report[i] = "data"
<1> DEFINE data == [i \in 1 .. Size |-> "data"]
           front == <<"header">> \o data
<1>1. data \in Seq(Blocks) /\ Len(data) = Size /\ \A i \in 1 .. Size : data[i] = "data"
  BY PodCopyAssumption DEF Blocks
<1>2. /\ front \in Seq(Blocks) /\ Len(front) = Size + 1 /\ front[1] = "header"
      /\ \A i \in 2 .. Size + 1 : front[i] = "data"
  <2>1. <<"header">> \in Seq(Blocks) /\ Len(<<"header">>) = 1 /\ <<"header">>[1] = "header"
    BY DEF Blocks
  <2> HIDE DEF data
  <2> QED
    BY <1>1, <2>1, PodCopyAssumption
<1>3. <<"zero">> \in Seq(Blocks) /\ Len(<<"zero">>) = 1 /\ <<"zero">>[1] = "zero"
  BY DEF Blocks
<1>4. Report = front \o <<"zero">>
  BY DEF Report
<1> HIDE DEF front
<1> QED
  BY <1>2, <1>3, <1>4, PodCopyAssumption

\* Sending a block takes it off what is left.
LEMMA RestSteps ==
  /\ Rest(0) = Report
  /\ Rest(Size + 2) = <<>>
  /\ \A k \in 0 .. Size + 1 :
       /\ Rest(k) # <<>>
       /\ Head(Rest(k)) = Report[k + 1]
       /\ Tail(Rest(k)) = Rest(k + 1)
<1>1. Rest(0) = Report
  BY ReportBlocks, PodCopyAssumption DEF Rest
<1>2. Rest(Size + 2) = <<>>
  BY PodCopyAssumption DEF Rest
<1>3. ASSUME NEW k \in 0 .. Size + 1
      PROVE  /\ Rest(k) # <<>>
             /\ Head(Rest(k)) = Report[k + 1]
             /\ Tail(Rest(k)) = Rest(k + 1)
  <2>1. Size + 2 - k \in Nat /\ Size + 2 - k >= 1 /\ Size + 2 - (k + 1) \in Nat
    BY PodCopyAssumption
  <2>2. \A i \in 1 .. Size + 2 - k : Report[k + i] \in Blocks
    BY <2>1, ReportBlocks, PodCopyAssumption
  <2>3. Rest(k) \in Seq(Blocks) /\ Len(Rest(k)) = Size + 2 - k
    BY <2>1, <2>2 DEF Rest
  <2>4. Rest(k) # <<>> /\ Head(Rest(k)) = Report[k + 1]
    BY <2>1, <2>3 DEF Rest
  <2>5. /\ Tail(Rest(k)) \in Seq(Blocks) /\ Len(Tail(Rest(k))) = Size + 2 - (k + 1)
        /\ \A i \in 1 .. Size + 2 - (k + 1) : Tail(Rest(k))[i] = Rest(k)[i + 1]
    BY <2>1, <2>3, <2>4, PodCopyAssumption
  <2>6. \A i \in 1 .. Size + 2 - (k + 1) : Rest(k)[i + 1] = Report[k + 1 + i]
    BY <2>1, PodCopyAssumption DEF Rest
  <2>7. Tail(Rest(k)) = [i \in 1 .. Size + 2 - (k + 1) |-> Tail(Rest(k))[i]]
    <3> DEFINE t == Tail(Rest(k))
    <3>1. t \in [1 .. Size + 2 - (k + 1) -> Blocks]
      BY <2>5, LenProperties
    <3> HIDE DEF t
    <3>2. t = [i \in 1 .. Size + 2 - (k + 1) |-> t[i]]
      BY <3>1
    <3> QED
      BY <3>2 DEF t
  <2>8. Tail(Rest(k)) = [i \in 1 .. Size + 2 - (k + 1) |-> Report[k + 1 + i]]
    BY <2>5, <2>6, <2>7
  <2> QED
    BY <2>4, <2>8 DEF Rest
<1> QED
  BY <1>1, <1>2, <1>3

-----------------------------------------------------------------------------
(* The invariant. *)

\* The first pod is about to be asked.
LEMMA InitIInv == Init => IInv
BY PodCopyAssumption
DEF Init, IInv, TypeOK, LoopInv, StreamInv, SettledIsWhole, Pods, NoFile, Executing, Copying

\* A pod that is settled with its report whole or absent leaves the loop before
\* the next pod.
LEMMA Settles ==
  ASSUME IInv, at \in Pods, NEW how \in {"ok", "failed", "skipped"}, Settle(how),
         \/ file' = file /\ how = "ok" /\ file[at] \in {NoFile, Size}
         \/ file' = file /\ how = "skipped" /\ file[at] = NoFile
         \/ file' = [file EXCEPT ![at] = NoFile]
  PROVE  IInv'
<1>1. /\ at' = at + 1 /\ at' \in 1 .. (NPods + 1)
      /\ ph' = "exec" /\ pipe' = "empty" /\ writer' = "none" /\ untar' = "header"
  BY PodCopyAssumption DEF Settle, Pods
<1>2. /\ file' \in [Pods -> NoFile .. Size]
      /\ \A p \in Pods : p # at => file'[p] = file[p]
      /\ how = "ok" => file'[at] \in {NoFile, Size}
      /\ how # "ok" => file'[at] = NoFile
  BY PodCopyAssumption DEF IInv, TypeOK, NoFile
<1>3. /\ result' \in [Pods -> {"none", "ok", "failed", "skipped"}]
      /\ \A p \in Pods : p # at => result'[p] = result[p]
      /\ result'[at] = how
  BY DEF Settle, IInv, TypeOK
<1>4. TypeOK'
  BY <1>1, <1>2, <1>3 DEF TypeOK
<1>5. LoopInv'
  BY <1>1, <1>2, <1>3, PodCopyAssumption DEF IInv, LoopInv, TypeOK, Pods, Executing
<1>6. StreamInv'
  BY <1>1 DEF StreamInv, Copying
<1>7. SettledIsWhole'
  <2>1. \A p \in Pods : p # at =>
          /\ result'[p] = "ok" => file'[p] \in {NoFile, Size}
          /\ result'[p] \in {"failed", "skipped"} => file'[p] = NoFile
    BY <1>2, <1>3 DEF IInv, SettledIsWhole
  <2> QED
    BY <1>2, <1>3, <2>1 DEF SettledIsWhole
<1> QED
  BY <1>4, <1>5, <1>6, <1>7 DEF IInv

\* A failed pod's file is taken back, whatever is in it.
LEMMA Fails == IInv /\ at \in Pods /\ fail => IInv'
BY Settles DEF fail

\* Untar is at a header only before the file and after all of it.
LEMMA AtHeader ==
  ASSUME IInv, Copying, (pipe = "empty" /\ untar = "header") \/ pipe = "zero"
  PROVE  file[at] \in {NoFile, Size}
<1>1. CASE NoReportInv
  BY <1>1 DEF NoReportInv
<1>2. CASE ReportInv
  <2>1. file[at] \in NoFile .. Size
    BY DEF IInv, TypeOK, Copying
  <2>2. pipe = "zero" => Taken = Size + 1
    BY <1>2, ReportBlocks, PodCopyAssumption DEF ReportInv
  <2>3. Taken \in {0, Size + 1}
    BY <1>2, <2>2 DEF ReportInv
  <2> QED
    BY <2>1, <2>3, PodCopyAssumption DEF Taken, NoFile
<1> QED
  BY <1>1, <1>2 DEF IInv, StreamInv

\* tar's next block goes into the pipe.
LEMMA SendStep == IInv /\ send => IInv'
<1> SUFFICES ASSUME IInv, send PROVE IInv'
  OBVIOUS
<1>1. /\ Copying /\ pipe = "empty" /\ pipe' = Head(tar) /\ tar' = Tail(tar)
      /\ UNCHANGED <<at, ph, writer, untar, file, result>>
  BY DEF send
<1>2. CASE ReportInv
  <2>1. Taken \in 0 .. Size + 1 /\ Taken' = Taken
    BY <1>1, <1>2 DEF ReportInv, Taken
  <2>2. tar = Rest(Taken)
    <3>1. Report[Taken + 1] # "empty"
      BY <2>1, ReportBlocks, PodCopyAssumption DEF Blocks
    <3> QED
      BY <1>1, <1>2, <3>1 DEF ReportInv
  <2>3. pipe' = Report[Taken + 1] /\ tar' = Rest(Taken + 1)
    BY <1>1, <2>1, <2>2, RestSteps
  <2>4. pipe' \in Blocks
    BY <2>1, <2>3, ReportBlocks, PodCopyAssumption
  <2>5. ReportInv'
    BY <1>1, <1>2, <2>1, <2>3 DEF ReportInv, Rest, Report
  <2> QED
    BY <1>1, <2>4, <2>5 DEF IInv, TypeOK, LoopInv, StreamInv, SettledIsWhole, Blocks,
                            Copying, Executing
<1>3. CASE NoReportInv
  <2>1. pipe' = "zero" /\ tar' = <<>>
    BY <1>1, <1>3 DEF NoReportInv
  <2> QED
    BY <1>1, <1>3, <2>1 DEF IInv, TypeOK, LoopInv, StreamInv, SettledIsWhole, NoReportInv,
                            Copying, Executing
<1> QED
  BY <1>1, <1>2, <1>3 DEF IInv, StreamInv

\* A header makes the file, and a block of data makes it longer, up to its size.
LEMMA TakeStep ==
  ASSUME IInv, Copying, pipe \in {"header", "data"}, pipe' = "empty",
         UNCHANGED <<at, ph, tar, writer, result>>,
         \/ /\ pipe = "header"
            /\ file' = [file EXCEPT ![at] = 0]
            /\ untar' = "data"
         \/ /\ pipe = "data"
            /\ file' = [file EXCEPT ![at] = @ + 1]
            /\ untar' = IF file[at] + 1 = Size THEN "header" ELSE "data"
  PROVE  IInv'
<1>1. ReportInv /\ pipe = Report[Taken + 1] /\ tar = Rest(Taken + 1)
  BY DEF IInv, StreamInv, NoReportInv, ReportInv
<1>2. file[at] \in NoFile .. Size /\ Taken \in 0 .. Size + 1 /\ at \in Pods
  BY <1>1 DEF IInv, TypeOK, Copying, ReportInv
<1>3. /\ pipe = "header" <=> Taken = 0
      /\ pipe = "data" <=> Taken \in 1 .. Size
  BY <1>1, <1>2, ReportBlocks, PodCopyAssumption
<1>4. /\ file' \in [Pods -> NoFile .. Size]
      /\ \A p \in Pods : p # at => file'[p] = file[p]
      /\ Taken' = Taken + 1 /\ Taken' \in 1 .. Size + 1
      /\ untar' = IF Taken' = Size + 1 THEN "header" ELSE "data"
  BY <1>2, <1>3, PodCopyAssumption DEF IInv, TypeOK, Taken, NoFile
<1>5. ReportInv'
  BY <1>1, <1>4, PodCopyAssumption DEF ReportInv, Rest, Report
<1>6. TypeOK'
  BY <1>4 DEF IInv, TypeOK
<1>7. LoopInv'
  BY <1>2, <1>4 DEF IInv, LoopInv, Executing, Copying, Pods
<1>8. SettledIsWhole'
  <2>1. result[at] = "none"
    BY <1>2, PodCopyAssumption DEF IInv, LoopInv, Pods
  <2> QED
    BY <1>4, <2>1 DEF IInv, SettledIsWhole
<1> QED
  BY <1>5, <1>6, <1>7, <1>8 DEF IInv, StreamInv

\* Every step keeps the invariant.
LEMMA StepIInv == IInv /\ [Next]_vars => IInv'
<1> SUFFICES ASSUME IInv, [Next]_vars PROVE IInv'
  OBVIOUS
<1>1. CASE UNCHANGED <<at, ph, copying, file, result>>
  BY <1>1 DEF IInv, TypeOK, LoopInv, StreamInv, SettledIsWhole, ReportInv, NoReportInv, Taken,
     Rest, Report, Executing, Copying, copying
<1>2. CASE notCollectable
  BY <1>2, Settles DEF notCollectable, Executing, IInv, LoopInv
<1>3. CASE execAnswers
  <2>1. /\ Executing /\ ph' = "copy" /\ writer' = "open" /\ tar' \in {Report, NoReport}
        /\ UNCHANGED <<at, pipe, untar, file, result>>
    BY <1>3 DEF execAnswers
  <2>2. file[at] = NoFile /\ pipe = "empty" /\ untar = "header"
    BY <2>1 DEF IInv, LoopInv, Executing
  <2>3. ReportInv' \/ NoReportInv'
    <3>1. Taken' = 0
      BY <2>1, <2>2 DEF Taken, NoFile
    <3>2. CASE tar' = NoReport
      BY <2>1, <2>2, <3>2 DEF NoReportInv, NoReport
    <3>3. CASE tar' = Report
      BY <2>1, <2>2, <3>1, <3>3, RestSteps, PodCopyAssumption DEF ReportInv, Rest, Report
    <3> QED
      BY <2>1, <3>2, <3>3
  <2> QED
    BY <2>1, <2>3 DEF IInv, TypeOK, LoopInv, StreamInv, SettledIsWhole, Executing, Copying
<1>4. CASE execRefused \/ execTimesOut
  BY <1>4, Fails DEF execRefused, execTimesOut, Executing
<1>5. CASE send
  BY <1>5, SendStep
<1>6. CASE streamEnds
  BY <1>6 DEF streamEnds, IInv, TypeOK, LoopInv, StreamInv, SettledIsWhole, ReportInv,
     NoReportInv, Taken, Rest, Report, Executing, Copying
<1>7. CASE readBlock
  <2>1. CASE pipe = "zero" /\ Settle("ok") /\ UNCHANGED file
    BY <1>7, <2>1, Settles, AtHeader DEF readBlock, Copying
  <2>2. CASE pipe \in {"header", "data"} /\ fail
    BY <1>7, <2>2, Fails DEF readBlock, Copying
  <2>3. CASE pipe \in {"header", "data"} /\ ~fail
    BY <1>7, <2>3, TakeStep DEF readBlock
  <2> QED
    BY <1>7, <2>1, <2>2, <2>3 DEF readBlock
<1>8. CASE readEnd
  <2>1. CASE fail
    BY <1>8, <2>1, Fails DEF readEnd, Copying
  <2>2. CASE untar = "header" /\ Settle("ok") /\ UNCHANGED file
    BY <1>8, <2>2, Settles, AtHeader DEF readEnd, Copying
  <2> QED
    BY <1>8, <2>1, <2>2 DEF readEnd
<1> QED
  BY <1>1, <1>2, <1>3, <1>4, <1>5, <1>6, <1>7, <1>8
  DEF Next, Gatherer, Answers, Streams, Finished, expire, vars

\* The inductive invariant holds throughout.
LEMMA Invariant == Spec => []IInv
BY InitIInv, StepIInv, PTL DEF Spec

-----------------------------------------------------------------------------
(* The theorems. *)

\* The shape of the state; in particular no file grows past its report's size.
THEOREM PodCopyTypeCorrect == Spec => []TypeOK
<1>1. IInv => TypeOK
  BY DEF IInv
<1> QED
  BY Invariant, <1>1, PTL

\* A report that was collected is whole and a failed one leaves nothing, for any
\* number of pods and any size of report, wherever each stream was cut (untarAll,
\* execAndCopyBugReport, discardArtifact).
THEOREM CollectedIsWhole == Spec => []SettledIsWhole
<1>1. IInv => SettledIsWhole
  BY DEF IInv
<1> QED
  BY Invariant, <1>1, PTL

=============================================================================
