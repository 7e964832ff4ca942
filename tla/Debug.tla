-------------------------------- MODULE Debug --------------------------------
(***************************************************************************)
(* "kubectl nv debug NODE" (pkg/cmd/debug, pkg/debug): the node as the     *)
(* inventory sees it, then a gather narrowed to it, then one report about  *)
(* both and an exit code.  The gather is the run of GatherRun, every way   *)
(* it can end included; the inventory read is reduced to what debug takes  *)
(* from it, the node or not and the reads that were refused.               *)
(***************************************************************************)
EXTENDS GatherRun, Sequences

VARIABLES
  stage,   \* where runDebug is: read, gather or ended
  missed,  \* inventoryErr: the resources of its PartialErrors
  report,  \* what was printed
  exit     \* debug's own exit code

gather == vars
dvars == <<gather, stage, missed, report, exit>>

Readable == {"resourceslices", "pods"}
NoReport == [printed |-> FALSE]

DInit ==
  /\ Init
  /\ opts.node  \* prepare
  /\ stage = "read"
  /\ missed = {}
  /\ report = NoReport
  /\ exit = Running

Ends(c) == stage' = "ended" /\ exit' = c

\* A flag is refused, or there is no client, or no node list.
Refuse ==
  /\ stage = "read"
  /\ \E c \in {ExitUsage, ExitError} : Ends(c)
  /\ UNCHANGED <<gather, missed, report>>

\* A node missing from a whole read was mistyped; from one with gaps, unknown.
readNode ==
  /\ stage = "read"
  /\ missed' \in SUBSET Readable
  /\ \/ stage' = "gather" /\ UNCHANGED exit
     \/ Ends(IF missed' = {} THEN ExitUsage ELSE ExitPartial)
  /\ UNCHANGED <<gather, report>>

gatherFunc ==
  /\ stage = "gather"
  /\ Setup \/ Collecting \/ Sealing \/ Kill
  /\ UNCHANGED <<stage, missed, report, exit>>

\* A usage error has nothing to report, and a panic is not caught.
Unreported ==
  /\ stage = "gather"
  /\ pc = "exit"
  /\ code = ExitUsage \/ outcome = "panic"
  /\ Ends(code)
  /\ UNCHANGED <<gather, missed, report>>

\* What of the joined inventory error errors.As finds: the first, in read order.
firstMissed ==
  CASE missed = {} -> <<>>
    [] "resourceslices" \in missed -> <<"resourceslices">>
    [] OTHER -> <<"pods">>

\* The gather got as far as its index, and no failed redaction took the bundle.
Indexing == outcome # "none" /\ \E f \in Names : disk[f] # "absent"

\* A manifest that is there parses, unless it cannot be read; one whose write
\* failed halfway does not; one that was never written is no error.
readManifest ==
  IF manifest.whole THEN {"read", "unreadable"}
    ELSE {"none"} \cup (IF Indexing THEN {"unreadable"} ELSE {})

buildReport(m) ==
  LET unreachable ==
        firstMissed \o (IF code # ExitOK THEN <<"must-gather">> ELSE <<>>)
                    \o (IF m = "unreadable" THEN <<"manifest.json">> ELSE <<>>)
  IN [printed |-> TRUE, indexed |-> m = "read",
      partial |-> unreachable # <<>>, unreachable |-> unreachable]

\* The report is printed, and the gather's error wins over the others.
runDebug ==
  /\ stage = "gather"
  /\ pc = "exit"
  /\ code # ExitUsage /\ outcome # "panic"
  /\ \/ /\ \E m \in readManifest : report' = buildReport(m)
        /\ Ends(CASE code # ExitOK -> code
                  [] code = ExitOK /\ report'.partial -> ExitPartial
                  [] OTHER -> ExitOK)
     \/ report' = NoReport /\ Ends(ExitError)
  /\ UNCHANGED <<gather, missed>>

DTerminated == (stage = "ended" \/ pc = "killed") /\ UNCHANGED dvars

DNext ==
  Refuse \/ readNode \/ gatherFunc \/ Unreported \/ runDebug \/ DTerminated

DSpec == DInit /\ [][DNext]_dvars

-----------------------------------------------------------------------------
(* What a comment of the code says, and the code does not do. *)

\* debug.go:181-183, of "the bundle that could not be indexed": "Exit 0 would
\* report a bundle nobody can check as a clean run."  So a debug that exits 0
\* found an index of the bundle (runDebug, readManifest, and Run, which only
\* notes that there is none).
CleanIsIndexed == exit = ExitOK => report.indexed

=============================================================================
