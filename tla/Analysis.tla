------------------------------ MODULE Analysis ------------------------------
(***************************************************************************)
(* AnalyzeFile with what happens inside its stages, for one archive after  *)
(* another: the archive is unpacked, the scanners and the judge answer,    *)
(* and the sample is run (orchestrator/analysis_orchestrator.go:45-162).   *)
(***************************************************************************)
EXTENDS Archive, Detonation, AnalysisStages

CONSTANTS
    Archives,           \* the archives users upload
    MaxFindings         \* bound: findings of one Semgrep report

ASSUME AnalysisAssumption ==
    /\ Archives \subseteq Seq(ArchiveEntries)
    /\ MaxFindings \in Nat

VARIABLES
    at, verdict, workspace,     \* as in AnalysisContract
    archive,            \* the archive, until it is unpacked
    passed,             \* whether the server's extractor was satisfied with it
    target,             \* what Extract has made of it
    extraction,         \* "none", "done", or "io" for a failing disk
    findings            \* of Semgrep, not yet shown to the judge

archiveVars == <<archive, passed, target, extraction>>
callVars == <<run, at, verdict, workspace>>
vars == <<callVars, archiveVars, findings, budget, dastVars, dockerVars>>

Init ==
    /\ DetonationInit
    /\ at = "idle" /\ verdict = "none" /\ workspace = {}
    /\ archive = << >> /\ passed = FALSE /\ target = EmptyTarget /\ extraction = "none"
    /\ findings = 0

TypeOK ==
    /\ DetonationTypeOK
    /\ at \in Analysis \cup {"idle", "down"}
    /\ verdict \in AnalysisVerdicts \cup {"none"}
    /\ workspace \subseteq Runs \X FileKinds
    /\ archive \in Archives \cup {<< >>}
    /\ passed \in BOOLEAN
    /\ target.ok \in BOOLEAN /\ target.written \in 0 .. MaxAllowedBytes
    /\ extraction \in {"none", "done", "io"}
    /\ findings \in 0 .. MaxFindings
    /\ step # "out" <=> at = "detonate"

At(stage) == at = stage /\ UNCHANGED run

Forget == archive' = << >> /\ passed' = FALSE /\ target' = EmptyTarget /\ extraction' = "none"

WorkspaceGets(kinds) == workspace' = workspace \cup {run} \X kinds

Passed == at' = NextStage[at] /\ WorkspaceGets(Creates(at)) /\ UNCHANGED verdict

\* Mutant of Returns: the extracted files are removed by the stages that use them.
ReturnsUnclean(v) ==
    /\ verdict' = v
    /\ at' = "idle"
    /\ workspace' = IF at = "extract" THEN workspace ELSE workspace \ ({run} \X FileKinds)

\* AnalyzeFile returns and its deferred removals run.
Returns(v) ==
    /\ verdict' = v
    /\ at' = "idle"
    /\ workspace' = workspace \ ({run} \X FileKinds)

\* The server has looked at the archive, and the analyzer gets it either way.
AnalyzeFile(a) ==
    /\ at = "idle"
    /\ run < MaxRuns
    /\ run' = run + 1
    /\ at' = "download"
    /\ verdict' = "none"
    /\ archive' = a
    /\ passed' = Passes(a)
    /\ UNCHANGED <<workspace, target, extraction, findings, budget, dastVars, dockerVars>>

Download ==
    /\ At("download")
    /\ \/ Passed /\ UNCHANGED <<budget, archiveVars>>
       \/ Spend("other") /\ Returns("FAILURE") /\ Forget
    /\ UNCHANGED <<findings, dastVars, dockerVars>>

Extract ==
    /\ At("extract")
    /\ extraction = "none"
    /\ \/ /\ target' = Unpack(archive)
          /\ extraction' = "done"
          /\ UNCHANGED budget
       \/ /\ Spend("other")
          /\ \E k \in 0 .. Len(archive) : target' = Refused(Unpack(SubSeq(archive, 1, k)))
          /\ extraction' = "io"
    /\ WorkspaceGets({"extracted"})
    /\ UNCHANGED <<at, verdict, archive, passed, findings, dastVars, dockerVars>>

Extracted ==
    /\ At("extract")
    /\ extraction # "none"
    /\ IF target.ok THEN Passed ELSE Returns("FAILURE")
    /\ Forget
    /\ UNCHANGED <<findings, budget, dastVars, dockerVars>>

\* pip-audit is satisfied or not asked; its failure counts as a finding.
Audit ==
    /\ At("audit")
    /\ Passed \/ Returns("MALICIOUS")
    /\ UNCHANGED <<archiveVars, findings, budget, dastVars, dockerVars>>

ScanLocalPath ==
    /\ At("antivirus")
    /\ \/ Passed /\ findings' \in 0 .. MaxFindings
       \/ Returns("FAILURE") /\ UNCHANGED findings
    /\ UNCHANGED <<archiveVars, budget, dastVars, dockerVars>>

\* One finding: the judge condemns it, or does not, or cannot be asked.
AskForSAST ==
    /\ At("sast")
    /\ findings > 0
    /\ \/ Returns("MALICIOUS") /\ findings' = 0
       \/ findings' = findings - 1 /\ UNCHANGED <<at, verdict, workspace>>
    /\ UNCHANGED <<archiveVars, budget, dastVars, dockerVars>>

NoFindingLeft ==
    /\ At("sast")
    /\ findings = 0
    /\ Passed
    /\ EnterDetonation
    /\ UNCHANGED <<archiveVars, findings, budget, dockerVars>>

Detonate ==
    /\ At("detonate")
    /\ DetonationStep
    /\ UNCHANGED <<at, verdict, workspace, archiveVars, findings>>

Detonated ==
    /\ At("detonate")
    /\ step = "return"
    /\ IF result = "ok" THEN Passed ELSE Returns("FAILURE")
    /\ LeaveDetonation
    /\ UNCHANGED <<archiveVars, findings, budget, dockerVars>>

WriteJSONReport ==
    /\ At("report")
    /\ \/ Passed /\ UNCHANGED budget
       \/ Spend("other") /\ Returns("FAILURE")
    /\ UNCHANGED <<archiveVars, findings, dastVars, dockerVars>>

\* SUSPICIOUS counts as MALICIOUS; every other answer that parses is SAFE.
AskForLogs ==
    /\ At("judge")
    /\ \E v \in AnalysisVerdicts : Returns(v)
    /\ UNCHANGED <<archiveVars, findings, budget, dastVars, dockerVars>>

\* The process ends, by semgrep's log.Fatalf or otherwise; Docker goes on.
Dies ==
    /\ at # "down"
    /\ at' = "down"
    /\ \/ Spend("crash")
       \/ at = "sast" /\ Spend("other")
    /\ Forget
    /\ findings' = 0
    /\ LeaveDetonation
    /\ UNCHANGED <<run, verdict, workspace, dockerVars>>

\* main purges /tmp/quarantine, and looks for no containers.
Restart ==
    /\ at = "down"
    /\ at' = "idle"
    /\ workspace' = {file \in workspace : file[2] = "report"}
    /\ UNCHANGED <<run, verdict, archiveVars, findings, budget, dastVars, dockerVars>>

AnalyzerStep ==
    \/ Download \/ Extract \/ Extracted \/ Audit \/ ScanLocalPath
    \/ AskForSAST \/ NoFindingLeft \/ Detonate \/ Detonated
    \/ WriteJSONReport \/ AskForLogs
    \/ Restart

Next ==
    \/ \E a \in Archives : AnalyzeFile(a)
    \/ AnalyzerStep
    \/ Dies
    \/ (Deadline \/ Docker) /\ UNCHANGED <<at, verdict, workspace, archiveVars, findings>>

Spec == Init /\ [][Next]_vars

(***************************************************************************)
(* The scanners and the judge answer, the clock goes on, and nothing makes *)
(* a sample end.                                                           *)
(***************************************************************************)
FairSpec ==
    /\ Spec
    /\ WF_vars(AnalyzerStep)
    /\ WF_vars(Deadline /\ UNCHANGED <<at, verdict, workspace, archiveVars, findings>>)

-----------------------------------------------------------------------------
(***************************************************************************)
(* io.LimitReader cuts a file without an error.  An extraction that is     *)
(* reported as good has every file in its full length: the cut is always   *)
(* noticed by the comparison after it (unzipper.go:83-96).                 *)
(***************************************************************************)
NothingIsCutSilently ==
    extraction = "done" /\ target.ok => Complete(archive, target)

(***************************************************************************)
(* An archive the server's extractor has passed is one the analyzer can    *)
(* unpack, if its names are those of a tree and the file system takes      *)
(* them, which only the unzipper finds out: the two readers have their     *)
(* rules and limits in two places (extractor.go:87-116, unzipper.go:46-98).*)
(***************************************************************************)
PassedIsUnpacked ==
    extraction = "done" /\ passed /\ TreeShaped(archive) /\ NamesFit(archive) => target.ok

(***************************************************************************)
(* A sample still runs after its analysis only where a fault of its own    *)
(* explains it, an unanswered request or a death of the analyzer; running  *)
(* out of time does not (visor.go:101-108).                                *)
(***************************************************************************)
SamplesAreStopped ==
    Cardinality({k \in Runs : boxes[k] \in Live /\ ~(k = run /\ at = "detonate")})
        <= Spent("docker") + Spent("crash")

(***************************************************************************)
(* The behaviour that is judged is the sample's own, although its log is   *)
(* only known by not having been there before (helpers.go:61-92).  It is   *)
(* another's only where a fault explains it: the snapshot failed           *)
(* (visor.go:89-91), or an older container, left by an unanswered request  *)
(* or a death of the analyzer, was still on its way up.                    *)
(***************************************************************************)
BehaviorIsOurs ==
    result = "ok" /\ behavior \notin {0, run}
        => Spent("logdir") + Spent("docker") + Spent("crash") > 0

(***************************************************************************)
(* A detonation ends, whatever the sample does (visor.go:85).              *)
(***************************************************************************)
DetonationEnds == at = "detonate" ~> at # "detonate"

Contract == INSTANCE AnalysisContract

\* Each stage ends with its own verdicts only, and no file outlives a call
\* that returns (analysis_orchestrator.go:45-149).
ImplementsContract == Contract!Spec
=============================================================================
