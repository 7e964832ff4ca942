----------------------------- MODULE DebugProofs -----------------------------
(***************************************************************************)
(* Proofs about Debug.  The gather inside a debug is a gather: DSpec       *)
(* implements the Spec of GatherRun, so that what is proved of a gather    *)
(* holds here too, and what debug's own exit code says is proved from it.  *)
(***************************************************************************)
EXTENDS Debug, GatherRunProofs

\* Debug exits 0 only over a node the inventory read without a gap and a gather
\* that is complete: nothing it lists as unreachable, every collector answered, no
\* exec refused, nothing half written, nothing unredacted that was to be (runDebug,
\* report.Partial, gatherOptions.Run).  It does not say there is a manifest.
CleanIsSeen ==
  exit = ExitOK =>
    /\ missed = {}
    /\ report.printed /\ ~report.partial
    /\ \A c \in Collector : status[c] \in {"ok", "skipped"}
    /\ ~denied
    /\ \A f \in Files \ Stuck : part[f] = "absent" /\ disk[f] # "torn"
    /\ opts.redact => \A f \in Names : disk[f] # "raw"

\* Nothing is said before the end, and a clean end is of what the gather said.
StageInv ==
  /\ stage \in {"read", "gather", "ended"}
  /\ stage # "ended" => exit = Running
  /\ exit = ExitOK => code = ExitOK /\ missed = {} /\ report.printed /\ ~report.partial

-----------------------------------------------------------------------------
(* The gather of a debug is a gather. *)

\* Debug does to the bundle what GatherRun does and nothing else: a gather narrowed
\* to a node, in its own stage, or nothing.
THEOREM DebugGathers == DSpec => Spec
<1>1. DInit => Init
  BY DEF DInit
<1>2. [DNext]_dvars => [Next]_vars
  <2>1. CASE UNCHANGED gather
    BY <2>1 DEF gather
  <2>2. CASE gatherFunc
    BY <2>2 DEF gatherFunc, Next
  <2> QED
    BY <2>1, <2>2 DEF DNext, dvars, Refuse, readNode, Unreported, runDebug, DTerminated
<1> QED
  BY <1>1, <1>2, PTL DEF DSpec, Spec

\* What is proved of every gather is proved of debug's: exit 0 of the gather inside
\* it is a whole bundle, its manifest is true of the files, and a redaction leaves
\* nothing as collected.
THEOREM DebugGatherIsSound ==
  DSpec => [](CompleteMeansComplete /\ DigestsMatch /\ ArtifactsAccounted /\ RedactedOrGone)
BY DebugGathers, CompleteIsComplete, ManifestIsTrue, ManifestAccounts, NothingLeaks, PTL

-----------------------------------------------------------------------------
(* What debug's exit code says. *)

\* A report without a gap is of an inventory read that had none.
LEMMA WholeReport ==
  ASSUME NEW m, ~ buildReport(m).partial
  PROVE  missed = {}
<1> DEFINE named == {"resourceslices", "pods", "must-gather", "manifest.json"}
           gath == IF code # ExitOK THEN <<"must-gather">> ELSE <<>>
           mani == IF m = "unreadable" THEN <<"manifest.json">> ELSE <<>>
<1>1. (firstMissed \o gath) \o mani = <<>>
  BY DEF buildReport
<1>2. gath \in Seq(named) /\ mani \in Seq(named) /\ firstMissed \in Seq(named)
  <2>1. /\ <<"resourceslices">> \in Seq(named) /\ <<"pods">> \in Seq(named)
        /\ <<"must-gather">> \in Seq(named) /\ <<"manifest.json">> \in Seq(named)
    OBVIOUS
  <2>2. <<>> \in Seq(named)
    OBVIOUS
  <2>3. firstMissed \in {<<>>, <<"resourceslices">>, <<"pods">>}
    BY DEF firstMissed
  <2>4. gath \in {<<>>, <<"must-gather">>} /\ mani \in {<<>>, <<"manifest.json">>}
    OBVIOUS
  <2> HIDE DEF gath, mani
  <2> QED
    BY <2>1, <2>2, <2>3, <2>4, Zenon
<1>3. Len(firstMissed) = 0
  <2> HIDE DEF gath, mani
  <2>1. Len((firstMissed \o gath) \o mani) = Len(firstMissed) + Len(gath) + Len(mani)
    BY <1>2
  <2> QED
    BY <1>1, <1>2, <2>1
<1> QED
  BY <1>3 DEF firstMissed

\* Every step of a debug keeps what its stage says, given the gather's own invariant.
LEMMA StageInvStep == IInv /\ StageInv /\ [DNext]_dvars => StageInv'
<1> SUFFICES ASSUME IInv, StageInv, [DNext]_dvars PROVE StageInv'
  OBVIOUS
<1> USE DEF ExitOK, ExitUsage, ExitPartial, ExitError, Running
<1>1. CASE UNCHANGED dvars
  BY <1>1 DEF StageInv, dvars, gather, vars, progress, bundle
<1>2. CASE Refuse \/ readNode
  BY <1>2 DEF Refuse, readNode, Ends, StageInv, gather, vars, progress, bundle
<1>3. CASE gatherFunc
  <2>1. stage = "gather" /\ UNCHANGED <<stage, missed, report, exit>>
    BY <1>3 DEF gatherFunc
  <2> QED
    BY <2>1 DEF StageInv
<1>4. CASE Unreported
  <2>1. code # ExitOK
    BY <1>4 DEF Unreported, IInv, PhaseInv
  <2> QED
    BY <1>4, <2>1 DEF Unreported, Ends, StageInv, gather, vars, progress, bundle
<1>5. CASE runDebug
  <2>1. /\ pc = "exit" /\ pc' = "exit" /\ stage' = "ended"
        /\ code' = code /\ missed' = missed
    BY <1>5 DEF runDebug, Ends, gather, vars
  <2>2. exit' = ExitOK => code = ExitOK /\ missed = {} /\ report'.printed /\ ~report'.partial
    <3>1. CASE report' = NoReport /\ Ends(ExitError)
      BY <3>1 DEF Ends
    <3>2. ASSUME NEW m \in readManifest, report' = buildReport(m),
                 Ends(CASE code # ExitOK -> code
                        [] code = ExitOK /\ report'.partial -> ExitPartial
                        [] OTHER -> ExitOK)
          PROVE  exit' = ExitOK =>
                   code = ExitOK /\ missed = {} /\ report'.printed /\ ~report'.partial
      <4>1. exit' = ExitOK => code = ExitOK /\ ~report'.partial
        BY <3>2 DEF Ends
      <4>2. report'.printed
        BY <3>2 DEF buildReport
      <4> QED
        BY <3>2, <4>1, <4>2, WholeReport
    <3> QED
      BY <1>5, <3>1, <3>2 DEF runDebug
  <2> QED
    BY <2>1, <2>2 DEF StageInv
<1> QED
  BY <1>1, <1>2, <1>3, <1>4, <1>5 DEF DNext, DTerminated

\* The stages of a debug, throughout.
LEMMA Staged == DSpec => []StageInv
<1>1. DInit => StageInv
  BY DEF DInit, Init, StageInv, Running, ExitOK
<1>2. DSpec => []IInv
  BY DebugGathers, Invariance, PTL
<1> QED
  BY <1>1, <1>2, StageInvStep, PTL DEF DSpec

\* Exit 0 of a debug means the node was read without a gap and its gather is
\* complete, through every way the read, the gather, its redaction and its index
\* can end.
THEOREM DebugCleanIsSeen == DSpec => []CleanIsSeen
<1>1. StageInv /\ CompleteMeansComplete => CleanIsSeen
  BY DEF StageInv, CompleteMeansComplete, CleanIsSeen
<1> QED
  BY <1>1, Staged, DebugGatherIsSound, PTL

=============================================================================
