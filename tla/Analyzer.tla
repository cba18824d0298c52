------------------------------ MODULE Analyzer ------------------------------
(***************************************************************************)
(* The analyzer: one goroutine that acknowledges a message, marks the      *)
(* function SCANNING, takes its archive through the stages of AnalyzeFile  *)
(* and, by the verdict, records a status, moves the archive to the         *)
(* functions bucket and asks the VM service for a build                    *)
(* (message/listener.go, orchestrator/analysis_orchestrator.go).           *)
(*                                                                         *)
(* What a scanner or the judge says of a file is any of the answers the    *)
(* stage can give.                                                         *)
(***************************************************************************)
EXTENDS FunctionStore, AnalysisStages

VARIABLES
    analyzer,           \* the analyzer process: "up" or "down"
    scan,               \* what the goroutine is at, for which function
    workspace,          \* files it has on its disk, as <<function, kind>>
    verdicts            \* every verdict AnalyzeFile has returned, per function

analyzerVars == <<analyzer, scan, workspace, verdicts>>

ScanStages == {"idle", "land", "record", "copy", "remove", "publish"} \cup Analysis

NoScan == [at |-> "idle", of |-> NoFunction, verdict |-> "FAILURE"]

AnalyzerInit ==
    /\ analyzer = "up"
    /\ scan = NoScan
    /\ workspace = {}
    /\ verdicts = [f \in Functions |-> {}]

AnalyzerTypeOK ==
    /\ analyzer \in {"up", "down"}
    /\ scan \in [at : ScanStages, of : Functions \cup {NoFunction}, verdict : AnalysisVerdicts]
    /\ (scan.at = "idle") <=> (scan.of = NoFunction)
    /\ workspace \subseteq Functions \X FileKinds
    /\ verdicts \in [Functions -> SUBSET AnalysisVerdicts]

ScanAt(stages) == analyzer = "up" /\ scan.at \in stages

GoTo(stage) == scan' = [scan EXCEPT !.at = stage]

\* processMessage returns, and the loop waits for the next message.
Done == scan' = NoScan

\* msg.Ack() comes first; if it is lost, the broker will deliver again.
ReceiveUpload(f) ==
    /\ ScanAt({"idle"})
    /\ analyzerQueue[f] > 0
    /\ scan' = [NoScan EXCEPT !.at = "land", !.of = f]
    /\ \/ /\ analyzerQueue' = [analyzerQueue EXCEPT ![f] = @ - 1]
          /\ UNCHANGED budget
       \/ /\ Spend("redelivery")
          /\ UNCHANGED analyzerQueue
    /\ UNCHANGED <<vmState, tableVars, bucketVars, buildQueueVars, analyzer, workspace, verdicts>>

\* onLand: SCANNING, whatever the status was.
Land ==
    /\ ScanAt({"land"})
    /\ \/ StatusUpdated(scan.of, "SCANNING") /\ GoTo("download")
       \/ StatusUpdateFails(scan.of, "SCANNING") /\ Done
    /\ UNCHANGED <<vmState, drivePath, bucketVars, analyzerQueue, buildQueueVars,
                   analyzer, workspace, verdicts>>

PassStage ==
    /\ ScanAt(DOMAIN NextStage)
    /\ scan.at = "download" => scan.of \in quarantineBucket
    /\ GoTo(NextStage[scan.at])
    /\ workspace' = workspace \cup {scan.of} \X Creates(scan.at)
    /\ UNCHANGED <<platformVars, tableVars, bucketVars, analyzerQueue, buildQueueVars,
                   analyzer, verdicts>>

\* Mutant of EndAnalysis: the archive is removed only by the pipeline's success.
EndWithoutCleanup ==
    /\ ScanAt(Analysis)
    /\ \E v \in EndsWith[scan.at] :
         /\ scan' = [scan EXCEPT !.at = "record", !.verdict = v]
         /\ verdicts' = [verdicts EXCEPT ![scan.of] = @ \cup {v}]
         /\ workspace' = IF v = "SAFE" THEN workspace \ ({scan.of} \X FileKinds) ELSE workspace
    /\ UNCHANGED <<platformVars, tableVars, bucketVars, analyzerQueue, buildQueueVars, analyzer>>

\* AnalyzeFile returns, and its deferred clean-ups run.
EndAnalysis ==
    /\ ScanAt(Analysis)
    /\ \E v \in EndsWith[scan.at] :
         /\ scan' = [scan EXCEPT !.at = "record", !.verdict = v]
         /\ verdicts' = [verdicts EXCEPT ![scan.of] = @ \cup {v}]
    /\ workspace' = workspace \ ({scan.of} \X FileKinds)
    /\ UNCHANGED <<platformVars, tableVars, bucketVars, analyzerQueue, buildQueueVars, analyzer>>

\* updateFunctionStatus knows two statuses for three verdicts.
StatusOf(verdict) == IF verdict = "MALICIOUS" THEN "DETECTED" ELSE "VERIFIED"

\* Mutant of RecordVerdict: the error that came with the verdict is not returned.
RecordAndGoOn ==
    /\ ScanAt({"record"})
    /\ \/ /\ StatusUpdated(scan.of, StatusOf(scan.verdict))
          /\ IF scan.verdict # "MALICIOUS" THEN GoTo("copy") ELSE Done
       \/ StatusUpdateFails(scan.of, StatusOf(scan.verdict)) /\ Done
    /\ UNCHANGED <<vmState, drivePath, bucketVars, analyzerQueue, buildQueueVars,
                   analyzer, workspace, verdicts>>

\* Mutant of RecordVerdict: the error that came with a verdict is returned
\* before the verdict is recorded.
RecordUnlessFailed ==
    /\ ScanAt({"record"})
    /\ \/ scan.verdict = "FAILURE" /\ Done /\ UNCHANGED <<fnStatus, budget>>
       \/ /\ scan.verdict # "FAILURE"
          /\ StatusUpdated(scan.of, StatusOf(scan.verdict))
          /\ IF scan.verdict = "SAFE" THEN GoTo("copy") ELSE Done
       \/ StatusUpdateFails(scan.of, StatusOf(scan.verdict)) /\ Done
    /\ UNCHANGED <<vmState, drivePath, bucketVars, analyzerQueue, buildQueueVars,
                   analyzer, workspace, verdicts>>

\* Only a SAFE verdict comes without an error and goes on.
RecordVerdict ==
    /\ ScanAt({"record"})
    /\ \/ /\ StatusUpdated(scan.of, StatusOf(scan.verdict))
          /\ IF scan.verdict = "SAFE" THEN GoTo("copy") ELSE Done
       \/ StatusUpdateFails(scan.of, StatusOf(scan.verdict)) /\ Done
    /\ UNCHANGED <<vmState, drivePath, bucketVars, analyzerQueue, buildQueueVars,
                   analyzer, workspace, verdicts>>

\* Mutant of CopyArchive: the error of the copy does not keep Move from removing.
CopyUnchecked ==
    /\ ScanAt({"copy"})
    /\ GoTo("remove")
    /\ \/ functionsBucket' = functionsBucket \cup {scan.of} /\ UNCHANGED budget
       \/ Spend("minio") /\ UNCHANGED functionsBucket
    /\ UNCHANGED <<vmState, tableVars, quarantineBucket, drivesBucket, analyzerQueue, buildQueueVars,
                   analyzer, workspace, verdicts>>

\* FileStore.Move, first half: a copy that fails may have been made.
CopyArchive ==
    /\ ScanAt({"copy"})
    /\ \/ /\ functionsBucket' = functionsBucket \cup {scan.of}
          /\ GoTo("remove")
          /\ UNCHANGED budget
       \/ /\ functionsBucket' \in {functionsBucket, functionsBucket \cup {scan.of}}
          /\ Done
          /\ Spend("minio")
    /\ UNCHANGED <<vmState, tableVars, quarantineBucket, drivesBucket, analyzerQueue, buildQueueVars,
                   analyzer, workspace, verdicts>>

\* FileStore.Move, second half; its error ends the message without a build,
\* whether the archive is gone or not.
RemoveArchive ==
    /\ ScanAt({"remove"})
    /\ \/ /\ quarantineBucket' = quarantineBucket \ {scan.of}
          /\ GoTo("publish")
          /\ UNCHANGED budget
       \/ /\ quarantineBucket' \in {quarantineBucket, quarantineBucket \ {scan.of}}
          /\ Done
          /\ Spend("minio")
    /\ UNCHANGED <<vmState, tableVars, functionsBucket, drivesBucket, analyzerQueue, buildQueueVars,
                   analyzer, workspace, verdicts>>

\* vmpublish.Publish; nobody tries again when it fails.
PublishBuild ==
    /\ ScanAt({"publish"})
    /\ Done
    /\ \/ B!Enqueue(scan.of) /\ UNCHANGED budget
       \/ Spend("amqp") /\ UNCHANGED buildQueueVars
    /\ UNCHANGED <<vmState, tableVars, bucketVars, analyzerQueue, analyzer, workspace, verdicts>>

\* The process ends without its deferred calls; the message is gone already.
AnalyzerDies ==
    /\ analyzer' = "down"
    /\ Done

\* semgrep cannot be run: a log.Fatalf.
SemgrepFails ==
    /\ ScanAt({"sast"})
    /\ Spend("tool")
    /\ AnalyzerDies
    /\ UNCHANGED <<vmState, tableVars, bucketVars, analyzerQueue, buildQueueVars, workspace, verdicts>>

\* A crash, or a SIGTERM: main cancels the context and returns at once.
AnalyzerCrash ==
    /\ analyzer = "up"
    /\ Spend("crash")
    /\ AnalyzerDies
    /\ UNCHANGED <<vmState, tableVars, bucketVars, analyzerQueue, buildQueueVars, workspace, verdicts>>

\* main purges /tmp/quarantine; reports live elsewhere.
AnalyzerStart ==
    /\ analyzer = "down"
    /\ analyzer' = "up"
    /\ workspace' = workspace \ (Functions \X {"archive", "extracted"})
    /\ UNCHANGED <<platformVars, tableVars, bucketVars, analyzerQueue, buildQueueVars, scan, verdicts>>

AnalyzerProgress ==
    \/ \E f \in Functions : ReceiveUpload(f)
    \/ Land
    \/ PassStage
    \/ EndAnalysis
    \/ RecordVerdict
    \/ CopyArchive
    \/ RemoveArchive
    \/ PublishBuild

AnalyzerNext ==
    \/ AnalyzerProgress
    \/ SemgrepFails
    \/ AnalyzerCrash
    \/ AnalyzerStart
=============================================================================
