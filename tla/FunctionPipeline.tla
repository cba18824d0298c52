-------------------------- MODULE FunctionPipeline --------------------------
(***************************************************************************)
(* From an upload to a function that can be invoked: the server's intake,  *)
(* the analyzer and the VM service's builders, which share the functions   *)
(* table, the buckets and two queues, and fail independently.              *)
(***************************************************************************)
EXTENDS Intake, Analyzer, Build

vars == <<platformVars, tableVars, bucketVars, analyzerQueue, buildQueueVars,
          intakeVars, analyzerVars, buildVars>>

Init ==
    /\ StoreInit
    /\ IntakeInit
    /\ AnalyzerInit
    /\ BuildInit

Next ==
    \/ IntakeNext /\ UNCHANGED <<analyzerVars, buildVars>>
    \/ AnalyzerNext /\ UNCHANGED <<intakeVars, buildVars>>
    \/ BuildNext /\ UNCHANGED <<intakeVars, analyzerVars>>

(***************************************************************************)
(* Fairness: processes that are up go on, since every wait in them ends    *)
(* with a reply, an error or a time limit; processes that are down are     *)
(* started again.  No upload has to begin and no fault has to happen.      *)
(***************************************************************************)
Fairness ==
    /\ WF_vars(IntakeProgress /\ UNCHANGED <<analyzerVars, buildVars>>)
    /\ WF_vars(ServerStart /\ UNCHANGED <<analyzerVars, buildVars>>)
    /\ WF_vars(AnalyzerProgress /\ UNCHANGED <<intakeVars, buildVars>>)
    /\ WF_vars(AnalyzerStart /\ UNCHANGED <<intakeVars, buildVars>>)
    /\ \A c \in Builders :
         /\ WF_vars(DeliverBuild(c) /\ UNCHANGED <<intakeVars, analyzerVars>>)
         /\ WF_vars(BuilderStep(c) /\ UNCHANGED <<intakeVars, analyzerVars>>)
    /\ WF_vars(VmExit /\ UNCHANGED <<intakeVars, analyzerVars>>)
    /\ WF_vars(VmStart /\ UNCHANGED <<intakeVars, analyzerVars>>)

Spec == Init /\ [][Next]_vars
FairSpec == Spec /\ Fairness

-----------------------------------------------------------------------------
\* The shapes of the state of all the parts.
TypeOK == StoreTypeOK /\ IntakeTypeOK /\ AnalyzerTypeOK /\ BuildTypeOK

(***************************************************************************)
(* The security gate: nothing is prepared, and no drive is named, for a    *)
(* function no analysis has called SAFE or whose archive the analyzer has  *)
(* not moved.  A delayed, repeated or failed step of any service does not  *)
(* open it (listener.go:99-117, prepare.go:24).                            *)
(***************************************************************************)
OnlySafeIsBuilt ==
    \A f \in Functions :
        \/ fnStatus[f] \in {"PREPARING_ENVIRONMENT", "READY"}
        \/ drivePath[f] # 0
        \/ f \in functionsBucket
        => "SAFE" \in verdicts[f]

(***************************************************************************)
(* The row never names a drive that is not in the drives bucket, and READY *)
(* names one: the upload of the drive precedes the UPDATE, in whatever     *)
(* order builds of the same function end (vm/prepare.go:96, prepare.go:50).*)
(***************************************************************************)
DriveIsStored ==
    \A f \in Functions :
        /\ drivePath[f] # 0 => <<f, drivePath[f]>> \in drivesBucket
        /\ fnStatus[f] = "READY" => drivePath[f] # 0

(***************************************************************************)
(* An archive is never lost on its way between the buckets: from the       *)
(* INSERT on, one of them has it (upload.go:47-53, filestore.go:62-67).    *)
(***************************************************************************)
ArchiveIsSomewhere ==
    \A f \in Functions :
        fnStatus[f] # "NOROW" => f \in quarantineBucket \cup functionsBucket

(***************************************************************************)
(* docs/architecture.md:87: "Both the archive and the extracted directory  *)
(* are deleted when the pipeline finishes", and after a crash by the purge *)
(* at the next start (analysis_orchestrator.go:57-72, main.go:53).         *)
(***************************************************************************)
WorkspaceIsClean ==
    analyzer = "up" /\ scan.at \in {"idle", "record", "copy", "remove", "publish"}
        => workspace \cap (Functions \X {"archive", "extracted"}) = {}

(***************************************************************************)
(* Two microVMs never prepare the same function at a time (prepare.go:24). *)
(***************************************************************************)
OneBuilder ==
    \A f \in Functions, c, d \in Builders : Builds(c, f) /\ Builds(d, f) => c = d

(***************************************************************************)
(* While nothing fails, a function whose status still says that somebody   *)
(* is at work on it is in that somebody's hands: the worker or a bus, the  *)
(* analyzer or its queue, a builder or the build queue.  What the analyzer *)
(* could not judge is excepted (see VerdictIsTold).                        *)
(***************************************************************************)
InSequence(bus, f) == \E k \in DOMAIN bus : bus[k] = f

WorkedOn(f) ==
    CASE fnStatus[f] = "QUARANTINED" ->
            \/ upload[f] = "created" \/ InSequence(quarantineBus, f)
            \/ qWorker.of = f /\ qWorker.at = "update"
      [] fnStatus[f] = "EXTRACTED" ->
            \/ qWorker.of = f /\ qWorker.at = "announce"
            \/ InSequence(extractionBus, f) \/ xWorker = f \/ analyzerQueue[f] > 0
            \/ scan.of = f /\ scan.at = "land"
      [] fnStatus[f] = "SCANNING" -> scan.of = f /\ scan.at \in Analysis \cup {"record"}
      [] fnStatus[f] = "VERIFIED" /\ "SAFE" \in verdicts[f] ->
            \/ scan.of = f /\ scan.at \in {"copy", "remove", "publish"}
            \/ B!Carried(f)
      [] fnStatus[f] = "PREPARING_ENVIRONMENT" -> \E c \in Builders : Builds(c, f)
      [] OTHER -> TRUE

NobodyIsForgotten == \A f \in Functions : WorkedOn(f)

(***************************************************************************)
(* Once its message is acknowledged, only the analyzer's own goroutine     *)
(* takes a function out of SCANNING, and nothing looks for those it has    *)
(* lost.  Each of them is explained by a fault of its own: the process     *)
(* died, semgrep could not be run, or an UPDATE failed.  A verdict, a      *)
(* failed stage, a dropped event or a lost transfer strands nobody         *)
(* (listener.go:58-117, analysis_orchestrator.go:50, store.go:45).         *)
(***************************************************************************)
StuckScans ==
    {f \in Functions :
        fnStatus[f] = "SCANNING" /\ ~ (scan.of = f /\ scan.at \in Analysis \cup {"record"})}

StuckScansAreExplained ==
    \E start \in Budgets :
        /\ \A k \in FaultKinds : budget[k] <= start[k]
        /\ Cardinality(StuckScans) <= (start["crash"] - budget["crash"])
                                    + (start["tool"] - budget["tool"])
                                    + (start["db"] - budget["db"])

(***************************************************************************)
(* What is judged SAFE is built or refused, whatever connections are lost  *)
(* (listener.go:115, prepare.go:50).                                       *)
(***************************************************************************)
SafeIsBuilt ==
    \A f \in Functions : "SAFE" \in verdicts[f] ~> fnStatus[f] \in {"READY", "FAILED"}

(***************************************************************************)
(* docs/architecture.md:110: a FAILURE of the pipeline is recorded as      *)
(* FAILED.  The function is looked at once the analyzer is done with it.   *)
(***************************************************************************)
VerdictIsTold ==
    \A f \in Functions :
        verdicts[f] = {"FAILURE"} /\ scan.of # f => fnStatus[f] = "FAILED"

(***************************************************************************)
(* Every step on a row is one the contract allows.                         *)
(***************************************************************************)
Contract == INSTANCE FunctionContract WITH
    status <- fnStatus,
    judged <- [f \in Functions |-> verdicts[f] # {}],
    built <- [f \in Functions |-> drivePath[f] # 0]

\* The gates are passed in order, and READY and DETECTED stay (service.go:51,
\* listener.go:92-102, prepare.go:24-50, handler.go:92).
ImplementsContract == Contract!Spec
=============================================================================
