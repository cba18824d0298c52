--------------------------- MODULE AnalysisProofs ---------------------------
(***************************************************************************)
(* Theorems about Analysis, for any number of analyses, any archives and   *)
(* any budget of faults: it implements AnalysisContract, samples are       *)
(* stopped, the behaviour that is judged is the sample's own, and the two  *)
(* readers of an archive agree on what matters.                            *)
(***************************************************************************)
EXTENDS Analysis, FoldLemmas, TLAPS

(***************************************************************************)
(* The refinement needs no invariant: each step is the contract's step of  *)
(* the same stage, or happens inside a stage.                              *)
(***************************************************************************)
LEMMA ContractInit == Init => Contract!Init
BY DEF Init, DetonationInit, Contract!Init

\* Both modules read the table of stages.
LEMMA SameStages ==
    /\ Contract!NextStage = NextStage /\ Contract!EndsWith = EndsWith
    /\ Contract!Analysis = Analysis /\ Contract!FileKinds = FileKinds
    /\ \A stage : Contract!Creates(stage) = Creates(stage)
BY DEF NextStage, EndsWith, Analysis, FileKinds, Creates, Contract!NextStage, Contract!EndsWith,
       Contract!Analysis, Contract!FileKinds, Contract!Creates

LEMMA StagesGoOn ==
    ASSUME NEW stage \in DOMAIN NextStage, At(stage), Passed
    PROVE  Contract!Pass
BY SameStages DEF At, Passed, WorkspaceGets, Contract!Pass, Contract!Files

LEMMA StagesEnd ==
    ASSUME NEW stage \in Analysis, At(stage), NEW v \in EndsWith[stage], Returns(v)
    PROVE  Contract!End
BY SameStages DEF At, Returns, Contract!End

LEMMA StagesHaveSuccessors ==
    DOMAIN NextStage = {"download", "extract", "audit", "antivirus", "sast", "detonate", "report"}
BY DEF NextStage

LEMMA StagesAre == Analysis = {"download", "extract", "audit", "antivirus", "sast", "detonate", "report", "judge"}
BY DEF Analysis, EndsWith

LEMMA ContractStep == [Next]_vars => [Contract!Next]_(Contract!contractVars)
<1> SUFFICES ASSUME [Next]_vars
             PROVE  Contract!Next \/ UNCHANGED <<run, at, verdict, workspace>>
  BY DEF Contract!contractVars
<1> USE StagesHaveSuccessors, StagesAre
<1>1. ASSUME NEW a \in Archives, AnalyzeFile(a)
      PROVE  Contract!Begin
  BY <1>1 DEF AnalyzeFile, Contract!Begin
<1>2. CASE Download
  <2>1. Passed => Contract!Pass
    BY <1>2, StagesGoOn DEF Download
  <2>2. Returns("FAILURE") => Contract!End
    BY <1>2, StagesEnd DEF Download, EndsWith
  <2> QED BY <1>2, <2>1, <2>2 DEF Download, Contract!Next
<1>3. CASE Extract
  BY <1>3, SameStages DEF Extract, At, WorkspaceGets, Creates, Contract!Next, Contract!Work, Contract!Files
<1>4. CASE Extracted
  <2>1. Passed => Contract!Pass
    BY <1>4, StagesGoOn DEF Extracted
  <2>2. Returns("FAILURE") => Contract!End
    BY <1>4, StagesEnd DEF Extracted, EndsWith
  <2> QED BY <1>4, <2>1, <2>2 DEF Extracted, Contract!Next
<1>5. CASE Audit
  <2>1. Passed => Contract!Pass
    BY <1>5, StagesGoOn DEF Audit
  <2>2. Returns("MALICIOUS") => Contract!End
    BY <1>5, StagesEnd DEF Audit, EndsWith
  <2> QED BY <1>5, <2>1, <2>2 DEF Audit, Contract!Next
<1>6. CASE ScanLocalPath
  <2>1. Passed => Contract!Pass
    BY <1>6, StagesGoOn DEF ScanLocalPath
  <2>2. Returns("FAILURE") => Contract!End
    BY <1>6, StagesEnd DEF ScanLocalPath, EndsWith
  <2> QED BY <1>6, <2>1, <2>2 DEF ScanLocalPath, Contract!Next
<1>7. CASE AskForSAST
  <2>1. Returns("MALICIOUS") => Contract!End
    BY <1>7, StagesEnd DEF AskForSAST, EndsWith
  <2> QED BY <1>7, <2>1 DEF AskForSAST, At, Contract!Next
<1>8. CASE NoFindingLeft
  BY <1>8, StagesGoOn DEF NoFindingLeft, Contract!Next
<1>9. CASE Detonate
  BY <1>9 DEF Detonate, At
<1>10. CASE Detonated
  <2>1. Passed => Contract!Pass
    BY <1>10, StagesGoOn DEF Detonated
  <2>2. Returns("FAILURE") => Contract!End
    BY <1>10, StagesEnd DEF Detonated, EndsWith
  <2> QED BY <1>10, <2>1, <2>2 DEF Detonated, Contract!Next
<1>11. CASE WriteJSONReport
  <2>1. Passed => Contract!Pass
    BY <1>11, StagesGoOn DEF WriteJSONReport
  <2>2. Returns("FAILURE") => Contract!End
    BY <1>11, StagesEnd DEF WriteJSONReport, EndsWith
  <2> QED BY <1>11, <2>1, <2>2 DEF WriteJSONReport, Contract!Next
<1>12. CASE AskForLogs
  <2>1. PICK v \in AnalysisVerdicts : Returns(v)
    BY <1>12 DEF AskForLogs
  <2>2. At("judge") /\ v \in EndsWith["judge"]
    BY <1>12 DEF AskForLogs, EndsWith, AnalysisVerdicts
  <2> QED BY <2>1, <2>2, StagesEnd DEF Contract!Next
<1>13. CASE Restart
  BY <1>13 DEF Restart, Contract!Restart, Contract!Next
<1>14. CASE Dies
  BY <1>14 DEF Dies, Contract!Die, Contract!Next
<1>15. CASE (Deadline \/ Docker) /\ UNCHANGED <<at, verdict, workspace, archiveVars, findings>>
  BY <1>15 DEF Deadline, Docker, SandboxBoots, SampleExits
<1>16. CASE UNCHANGED vars
  BY <1>16 DEF vars, callVars
<1> QED BY <1>1, <1>2, <1>3, <1>4, <1>5, <1>6, <1>7, <1>8, <1>9, <1>10, <1>11, <1>12, <1>13,
           <1>14, <1>15, <1>16 DEF Next, AnalyzerStep, Contract!Next

\* Each stage ends with its own verdicts only, they are passed in their order,
\* and no file outlives a call that returns (analysis_orchestrator.go:45-149).
THEOREM AnalysisKeepsItsContract == Spec => ImplementsContract
<1>1. Spec => Contract!Spec
  BY ContractInit, ContractStep, PTL DEF Spec, Contract!Spec
<1> QED BY <1>1 DEF ImplementsContract

-----------------------------------------------------------------------------
(***************************************************************************)
(* Containers that nobody will stop are counted.  A container may become   *)
(* one of them only in a step that spends an unanswered request or a death *)
(* of the analyzer; the end of the 30 seconds alone never does, because    *)
(* the removal is deferred and has a context of its own.                   *)
(***************************************************************************)
StageInv ==
    /\ run \in 0 .. MaxRuns
    /\ budget \in [FaultKinds -> Nat]
    /\ \A kind \in FaultKinds : budget[kind] <= Faults[kind]
    /\ step \in Steps
    /\ boxes \in [Runs -> BoxStates]
    /\ logs \subseteq Runs
    /\ at = "detonate" <=> step # "out"
    /\ at \in Analysis => run \in Runs

\* No container is made before its analysis detonates the sample.
FreshInv ==
    /\ \A k \in Runs : k > run => boxes[k] = "none"
    /\ at \in {"download", "extract", "audit", "antivirus", "sast"} => boxes[run] = "none"
    /\ step \in {"snapshot", "create"} => boxes[run] = "none"

Left == {k \in Runs : boxes[k] \in Live /\ ~(k = run /\ at = "detonate" /\ step # "return")}

Faulty == Spent("docker") + Spent("crash")

LeftInv == Cardinality(Left) <= Faulty

SampleInv == StageInv /\ FreshInv /\ LeftInv

LEMMA LeftIsFinite ==
    /\ IsFiniteSet(Left) /\ Cardinality(Left) \in Nat
<1>1. IsFiniteSet(Runs)
  BY FS_Interval, DetonationAssumption DEF Runs
<1>2. IsFiniteSet(Left)
  BY <1>1, FS_Subset DEF Left
<1> QED BY <1>2, FS_CardinalityType

\* Faults are spent and never given back.
LEMMA SpendingIsNat ==
    ASSUME StageInv
    PROVE  /\ Spent("docker") \in Nat /\ Spent("crash") \in Nat /\ Spent("logdir") \in Nat
           /\ Faulty \in Nat
BY DetonationAssumption DEF StageInv, Spent, FaultKinds, Faulty

LEMMA SpendKeeps ==
    ASSUME StageInv, NEW kind \in FaultKinds, Spend(kind)
    PROVE  /\ budget' \in [FaultKinds -> Nat]
           /\ \A k \in FaultKinds : budget'[k] <= Faults[k] /\ budget'[k] <= budget[k]
           /\ budget'[kind] = budget[kind] - 1
BY DetonationAssumption DEF StageInv, Spend, FaultKinds

\* A step that leaves no container more behind.
LEMMA NoneLeftMore ==
    ASSUME StageInv, StageInv', LeftInv, Left' \subseteq Left,
           \A k \in FaultKinds : budget'[k] <= budget[k]
    PROVE  LeftInv'
<1>1. Cardinality(Left') <= Cardinality(Left)
  BY LeftIsFinite, FS_Subset
<1>2. Faulty <= Faulty' /\ Faulty \in Nat /\ Faulty' \in Nat
  BY DetonationAssumption DEF StageInv, Faulty, Spent, FaultKinds
<1>3. Cardinality(Left) \in Nat /\ Cardinality(Left') \in Nat
  <2>1. IsFiniteSet(Left')
    BY LeftIsFinite, FS_Subset
  <2> QED BY <2>1, LeftIsFinite, FS_CardinalityType
<1> QED BY <1>1, <1>2, <1>3 DEF LeftInv

\* A step that leaves one behind, and spends a fault on it.
LEMMA OneLeftMore ==
    ASSUME StageInv, StageInv', LeftInv, Left' \subseteq Left \cup {run},
           NEW kind \in {"docker", "crash"}, Spend(kind)
    PROVE  LeftInv'
<1>1. IsFiniteSet(Left \cup {run}) /\ Cardinality(Left \cup {run}) <= Cardinality(Left) + 1
  BY LeftIsFinite, FS_AddElement
<1>2. /\ IsFiniteSet(Left') /\ Cardinality(Left') <= Cardinality(Left \cup {run})
      /\ Cardinality(Left') \in Nat /\ Cardinality(Left \cup {run}) \in Nat
  BY <1>1, FS_Subset, FS_CardinalityType
<1>3. Faulty' = Faulty + 1 /\ Faulty \in Nat
  BY DetonationAssumption DEF StageInv, Faulty, Spent, Spend, FaultKinds
<1>4. Cardinality(Left) \in Nat
  BY LeftIsFinite
<1> QED BY <1>1, <1>2, <1>3, <1>4 DEF LeftInv

-----------------------------------------------------------------------------
LEMMA SampleInit == Init => SampleInv
<1> SUFFICES ASSUME Init PROVE SampleInv
  OBVIOUS
<1>1. StageInv /\ FreshInv
  BY DetonationAssumption, StagesAre DEF Init, DetonationInit, StageInv, FreshInv, Steps, BoxStates,
     Runs, FaultKinds
<1>2. Left = {}
  BY DEF Left, Init, DetonationInit, Live
<1>3. Cardinality(Left) = 0
  BY <1>2, FS_EmptySet
<1>4. Faulty \in Nat
  BY <1>1, SpendingIsNat
<1> QED BY <1>1, <1>3, <1>4 DEF SampleInv, LeftInv

\* Whatever fault a step spends, the budgets stay budgets.
BudgetFine ==
    /\ budget' \in [FaultKinds -> Nat]
    /\ \A kind \in FaultKinds : budget'[kind] <= Faults[kind] /\ budget'[kind] <= budget[kind]

LEMMA BudgetUnchanged ==
    ASSUME StageInv, UNCHANGED budget
    PROVE  BudgetFine
BY DEF StageInv, BudgetFine, FaultKinds

LEMMA BudgetSpent ==
    ASSUME StageInv, NEW kind \in FaultKinds, Spend(kind)
    PROVE  BudgetFine
BY SpendKeeps DEF BudgetFine

LEMMA NotAnsweredIsFine ==
    ASSUME StageInv, NotAnswered
    PROVE  BudgetFine
BY BudgetUnchanged, BudgetSpent DEF NotAnswered, FaultKinds

LEMMA AnsweredIsFine ==
    ASSUME StageInv, Answered
    PROVE  BudgetFine
BY BudgetUnchanged DEF Answered

\* Outside of a detonation: the analyzer goes from stage to stage.
LEMMA StagesKeepSamples ==
    ASSUME SampleInv, BudgetFine, UNCHANGED <<run, dockerVars>>, at # "detonate",
           \/ at' # "detonate" /\ UNCHANGED dastVars
           \/ at = "sast" /\ at' = "detonate" /\ EnterDetonation,
           \/ at' = at \/ at' \in {"idle", "down"}
           \/ at \in DOMAIN NextStage /\ at' = NextStage[at]
    PROVE  SampleInv'
<1> USE StagesHaveSuccessors, StagesAre
<1>1. StageInv'
  BY DEF SampleInv, StageInv, BudgetFine, EnterDetonation, Steps, dastVars, dockerVars, NextStage
<1>2. FreshInv'
  BY DEF SampleInv, StageInv, FreshInv, EnterDetonation, dastVars, dockerVars, NextStage
<1>3. Left' \subseteq Left
  BY DEF Left, dockerVars
<1> QED BY <1>1, <1>2, <1>3, NoneLeftMore DEF SampleInv, BudgetFine

\* Inside of it, up to its removal or to the create that is not answered.
LEMMA DetonationKeepsSamples ==
    ASSUME SampleInv, at = "detonate", DetonationStep, UNCHANGED at
    PROVE  SampleInv'
<1> USE DEF GoOn
<1>r. run \in Runs /\ run \in Nat
  BY StagesAre, DetonationAssumption DEF SampleInv, StageInv, Runs
<1>1. CASE SnapshotLogFiles
  <2>1. BudgetFine
    BY <1>1, BudgetUnchanged, BudgetSpent DEF SampleInv, SnapshotLogFiles, FaultKinds
  <2>2. StageInv' /\ FreshInv' /\ Left' \subseteq Left
    BY <1>1, <2>1 DEF SampleInv, SnapshotLogFiles, StageInv, FreshInv, BudgetFine, Steps, Left, dockerVars
  <2> QED BY <2>1, <2>2, NoneLeftMore DEF SampleInv, BudgetFine
<1>2. CASE ContainerCreate
  <2>1. BudgetFine
    BY <1>2, NotAnsweredIsFine, AnsweredIsFine DEF SampleInv, ContainerCreate
  <2>2. /\ boxes[run] = "none" /\ boxes'[run] \in {"none", "created"}
        /\ \A k \in Runs : k # run => boxes'[k] = boxes[k]
        /\ boxes' \in [Runs -> BoxStates] /\ run' = run /\ logs' = logs
        /\ step' \in {"start", "return"}
    BY <1>2, <1>r DEF SampleInv, ContainerCreate, BoxBecomes, FreshInv, StageInv, BoxStates
  <2>3. StageInv' /\ FreshInv'
    BY <1>r, <2>1, <2>2 DEF SampleInv, StageInv, FreshInv, BudgetFine, Steps
  <2>4. Left' \subseteq Left
    BY <2>2 DEF Left, Live
  <2> QED BY <2>1, <2>3, <2>4, NoneLeftMore DEF SampleInv, BudgetFine
<1>3. CASE ContainerStart
  <2>1. BudgetFine
    BY <1>3, NotAnsweredIsFine, AnsweredIsFine DEF SampleInv, ContainerStart
  <2>2. /\ \A k \in Runs : k # run => boxes'[k] = boxes[k]
        /\ boxes' \in [Runs -> BoxStates] /\ run' = run /\ logs' = logs
        /\ step' \in {"starting", "remove"}
    BY <1>3, <1>r DEF SampleInv, ContainerStart, BoxBecomes, StageInv, BoxStates
  <2>3. StageInv' /\ FreshInv'
    BY <1>r, <2>1, <2>2 DEF SampleInv, StageInv, FreshInv, BudgetFine, Steps
  <2>4. Left' \subseteq Left
    BY <2>2 DEF Left
  <2> QED BY <2>1, <2>3, <2>4, NoneLeftMore DEF SampleInv, BudgetFine
<1>4. CASE ContainerStarted \/ FindNewBootLog \/ ContainerWait \/ ContainerLogs \/ ReadBootLog
  <2>1. BudgetFine
    <3>1. CASE ContainerStarted
      BY <3>1, NotAnsweredIsFine, AnsweredIsFine DEF SampleInv, ContainerStarted
    <3>2. CASE FindNewBootLog
      BY <3>2, BudgetUnchanged, BudgetSpent DEF SampleInv, FindNewBootLog, FaultKinds
    <3>3. CASE ContainerWait
      BY <3>3, NotAnsweredIsFine, BudgetUnchanged DEF SampleInv, ContainerWait
    <3>4. CASE ContainerLogs
      BY <3>4, NotAnsweredIsFine, AnsweredIsFine DEF SampleInv, ContainerLogs
    <3>5. CASE ReadBootLog
      BY <3>5, BudgetUnchanged, BudgetSpent DEF SampleInv, ReadBootLog, FaultKinds
    <3> QED BY <1>4, <3>1, <3>2, <3>3, <3>4, <3>5
  <2>2. /\ UNCHANGED <<run, boxes, logs>>
        /\ step \notin {"return", "out"} /\ step' \in {"find", "wait", "logs", "read", "remove"}
    BY <1>4 DEF ContainerStarted, FindNewBootLog, ContainerWait, ContainerLogs, ReadBootLog, dockerVars
  <2>3. StageInv' /\ FreshInv' /\ Left' \subseteq Left
    BY <2>1, <2>2 DEF SampleInv, StageInv, FreshInv, BudgetFine, Steps, Left
  <2> QED BY <2>1, <2>3, NoneLeftMore DEF SampleInv, BudgetFine
<1>5. CASE ContainerRemove
  <2>1. BudgetFine
    BY <1>5, BudgetUnchanged, BudgetSpent DEF SampleInv, ContainerRemove, FaultKinds
  <2>2. /\ \A k \in Runs : k # run => boxes'[k] = boxes[k]
        /\ boxes' \in [Runs -> BoxStates] /\ run' = run /\ logs' = logs /\ step' = "return"
    BY <1>5, <1>r DEF SampleInv, ContainerRemove, BoxBecomes, StageInv, BoxStates
  <2>3. StageInv' /\ FreshInv'
    BY <1>r, <2>1, <2>2 DEF SampleInv, StageInv, FreshInv, BudgetFine, Steps
  <2>4. Left' \subseteq Left \cup {run}
    BY <2>2 DEF Left
  <2>5. CASE BoxBecomes("removed")
    <3>1. boxes'[run] = "removed"
      BY <1>r, <2>5 DEF SampleInv, StageInv, BoxBecomes
    <3>2. Left' \subseteq Left
      BY <2>2, <2>4, <3>1 DEF Left, Live
    <3> QED BY <2>1, <2>3, <3>2, NoneLeftMore DEF SampleInv, BudgetFine
  <2>6. CASE Spend("docker")
    BY <2>3, <2>4, <2>6, OneLeftMore DEF SampleInv
  <2> QED BY <1>5, <2>5, <2>6 DEF ContainerRemove
<1> QED BY <1>1, <1>2, <1>3, <1>4, <1>5 DEF DetonationStep

\* A death of the analyzer may leave its container.  Semgrep's log.Fatalf ends
\* the process, too, but before there is a container.
LEMMA DeathKeepsSamples ==
    ASSUME SampleInv, Dies
    PROVE  SampleInv'
<1> USE StagesAre
<1>1. BudgetFine
  BY BudgetSpent DEF SampleInv, Dies, FaultKinds
<1>2. /\ UNCHANGED <<run, boxes, logs>> /\ at' = "down" /\ step' = "out"
  BY DEF Dies, LeaveDetonation, dockerVars
<1>3. StageInv' /\ FreshInv'
  BY <1>1, <1>2 DEF SampleInv, StageInv, FreshInv, BudgetFine, Steps
<1>4. CASE Spend("crash")
  <2>1. Left' \subseteq Left \cup {run}
    BY <1>2 DEF Left
  <2> QED BY <1>3, <1>4, <2>1, OneLeftMore DEF SampleInv
<1>5. CASE at = "sast"
  <2>1. Left' \subseteq Left
    BY <1>2, <1>5 DEF Left
  <2> QED BY <1>1, <1>3, <2>1, NoneLeftMore DEF SampleInv, BudgetFine
<1> QED BY <1>4, <1>5 DEF Dies

\* The clock, and Docker on its own.
LEMMA OutsideKeepsSamples ==
    ASSUME SampleInv, Deadline \/ Docker, UNCHANGED at
    PROVE  SampleInv'
<1>1. CASE Deadline
  <2>1. BudgetFine
    BY <1>1, BudgetUnchanged DEF SampleInv, Deadline
  <2>2. UNCHANGED <<run, boxes, logs, step>>
    BY <1>1 DEF Deadline, dockerVars
  <2>3. StageInv' /\ FreshInv' /\ Left' \subseteq Left
    BY <2>1, <2>2 DEF SampleInv, StageInv, FreshInv, BudgetFine, Left
  <2> QED BY <2>1, <2>3, NoneLeftMore DEF SampleInv, BudgetFine
<1>2. ASSUME NEW k \in Runs, SandboxBoots(k) \/ SampleExits(k)
      PROVE  SampleInv'
  <2>1. BudgetFine
    BY <1>2, BudgetUnchanged, BudgetSpent DEF SampleInv, SandboxBoots, SampleExits, FaultKinds
  <2>2. /\ UNCHANGED <<run, step>> /\ boxes[k] \in Live
        /\ boxes' = [boxes EXCEPT ![k] = "running"] \/ boxes' = [boxes EXCEPT ![k] = "exited"]
        /\ logs' = logs \/ logs' = logs \cup {k}
    BY <1>2 DEF SandboxBoots, SampleExits, dastVars, Live
  <2>3. /\ boxes' \in [Runs -> BoxStates] /\ boxes[k] # "none"
        /\ \A j \in Runs : j # k => boxes'[j] = boxes[j]
    BY <2>2 DEF SampleInv, StageInv, BoxStates, Live
  <2>4. StageInv'
    BY <2>1, <2>2, <2>3 DEF SampleInv, StageInv, BudgetFine
  <2>5. FreshInv'
    <3>1. at \in {"download", "extract", "audit", "antivirus", "sast"} => k # run /\ run \in Runs
      BY <2>3, StagesAre DEF SampleInv, FreshInv, StageInv
    <3>2. step \in {"snapshot", "create"} => k # run /\ run \in Runs
      BY <2>3, StagesAre DEF SampleInv, FreshInv, StageInv
    <3> QED BY <2>2, <2>3, <3>1, <3>2 DEF SampleInv, FreshInv
  <2>6. Left' \subseteq Left
    BY <2>2, <2>3 DEF Left
  <2> QED BY <2>1, <2>4, <2>5, <2>6, NoneLeftMore DEF SampleInv, BudgetFine
<1> QED BY <1>1, <1>2 DEF Docker

LEMMA SampleStep == SampleInv /\ [Next]_vars => SampleInv'
<1> SUFFICES ASSUME SampleInv, [Next]_vars
             PROVE  SampleInv'
  OBVIOUS
<1> USE StagesHaveSuccessors, StagesAre
<1>0. StageInv /\ (UNCHANGED budget => BudgetFine) /\ (Spend("other") => BudgetFine)
  BY BudgetUnchanged, BudgetSpent DEF SampleInv, FaultKinds
<1>1. ASSUME NEW a \in Archives, AnalyzeFile(a)
      PROVE  SampleInv'
  <2>1. BudgetFine
    BY <1>0, <1>1 DEF AnalyzeFile
  <2>2. /\ run' = run + 1 /\ run < MaxRuns /\ run \in Nat /\ at = "idle" /\ at' = "download"
        /\ UNCHANGED <<step, boxes, logs>> /\ step = "out"
    BY <1>0, <1>1, DetonationAssumption DEF AnalyzeFile, StageInv, dastVars, dockerVars
  <2>3. run' \in Runs /\ run' > run /\ boxes[run'] = "none"
    BY <2>2, DetonationAssumption DEF SampleInv, FreshInv, Runs
  <2>4. StageInv'
    BY <1>0, <2>1, <2>2, <2>3 DEF StageInv, BudgetFine, Runs
  <2>5. FreshInv'
    BY <2>2, <2>3 DEF SampleInv, FreshInv, Runs
  <2>6. Left' \subseteq Left
    BY <2>2 DEF Left
  <2> QED BY <2>1, <2>4, <2>5, <2>6, NoneLeftMore DEF SampleInv, BudgetFine
<1>2. CASE Download
  BY <1>0, <1>2, StagesKeepSamples DEF Download, At, Passed, Returns, NextStage
<1>3. CASE Extract
  BY <1>0, <1>3, StagesKeepSamples DEF Extract, At
<1>4. CASE Extracted
  BY <1>0, <1>4, StagesKeepSamples DEF Extracted, At, Passed, Returns, NextStage
<1>5. CASE Audit
  BY <1>0, <1>5, StagesKeepSamples DEF Audit, At, Passed, Returns, NextStage
<1>6. CASE ScanLocalPath
  BY <1>0, <1>6, StagesKeepSamples DEF ScanLocalPath, At, Passed, Returns, NextStage
<1>7. CASE AskForSAST
  BY <1>0, <1>7, StagesKeepSamples DEF AskForSAST, At, Returns
<1>8. CASE NoFindingLeft
  BY <1>0, <1>8, StagesKeepSamples DEF NoFindingLeft, At, Passed, NextStage
<1>9. CASE Detonate
  BY <1>9, DetonationKeepsSamples DEF Detonate, At
<1>10. CASE Detonated
  <2>1. /\ UNCHANGED <<run, boxes, logs>> /\ at = "detonate" /\ step = "return"
        /\ step' = "out" /\ at' \in {"report", "idle"}
    BY <1>10 DEF Detonated, At, Passed, Returns, NextStage, LeaveDetonation, dockerVars
  <2>2. BudgetFine
    BY <1>0, <1>10 DEF Detonated
  <2>3. StageInv' /\ FreshInv' /\ Left' \subseteq Left
    BY <2>1, <2>2 DEF SampleInv, StageInv, FreshInv, BudgetFine, Steps, Left
  <2> QED BY <2>2, <2>3, NoneLeftMore DEF SampleInv, BudgetFine
<1>11. CASE WriteJSONReport
  BY <1>0, <1>11, StagesKeepSamples DEF WriteJSONReport, At, Passed, Returns, NextStage
<1>12. CASE AskForLogs
  BY <1>0, <1>12, StagesKeepSamples DEF AskForLogs, At, Returns
<1>13. CASE Restart
  BY <1>0, <1>13, StagesKeepSamples DEF Restart
<1>14. CASE Dies
  BY <1>14, DeathKeepsSamples
<1>15. CASE (Deadline \/ Docker) /\ UNCHANGED <<at, verdict, workspace, archiveVars, findings>>
  BY <1>15, OutsideKeepsSamples
<1>16. CASE UNCHANGED vars
  BY <1>16 DEF vars, callVars, dastVars, dockerVars, SampleInv, StageInv, FreshInv, LeftInv, Left,
     Faulty, Spent
<1> QED BY <1>1, <1>2, <1>3, <1>4, <1>5, <1>6, <1>7, <1>8, <1>9, <1>10, <1>11, <1>12, <1>13,
           <1>14, <1>15, <1>16 DEF Next, AnalyzerStep

\* A sample still runs after its analysis only where an unanswered request or
\* a death of the analyzer explains it (visor.go:101-108).
THEOREM StoppedOrExplained == Spec => []SamplesAreStopped
<1>1. Spec => []SampleInv
  BY SampleInit, SampleStep, PTL DEF Spec
<1>2. SampleInv => SamplesAreStopped
  <2> SUFFICES ASSUME SampleInv PROVE SamplesAreStopped
    OBVIOUS
  <2> DEFINE Running == {k \in Runs : boxes[k] \in Live /\ ~(k = run /\ at = "detonate")}
  <2>1. Running \subseteq Left
    BY DEF Left
  <2>2. IsFiniteSet(Running) /\ Cardinality(Running) <= Cardinality(Left)
    BY <2>1, LeftIsFinite, FS_Subset
  <2>3. Cardinality(Running) \in Nat /\ Cardinality(Left) \in Nat /\ Faulty \in Nat
    BY <2>2, LeftIsFinite, FS_CardinalityType, SpendingIsNat DEF SampleInv
  <2> HIDE DEF Running
  <2>4. Cardinality(Running) <= Faulty
    BY <2>2, <2>3 DEF SampleInv, LeftInv
  <2> QED BY <2>4 DEF Running, SamplesAreStopped, Faulty
<1> QED BY <1>1, <1>2, PTL

-----------------------------------------------------------------------------
(***************************************************************************)
(* The behaviour that is judged is the sample's own.  As long as no fault  *)
(* has happened, no container is left behind, so that no other one is on   *)
(* its way up: the only log that was not there before is ours.             *)
(***************************************************************************)
NoFault == Spent("logdir") + Spent("docker") + Spent("crash") = 0

OursInv ==
    /\ step = "out" => result = "none" /\ behavior = 0
    /\ NoFault /\ step \notin {"out", "snapshot"} => logs \ before \subseteq {run}
    /\ NoFault /\ step # "out" => found \in {0, run} /\ behavior \in {0, run}

LEMMA NoFaultMeans ==
    ASSUME StageInv
    PROVE  NoFault <=> \A kind \in {"logdir", "docker", "crash"} : budget[kind] = Faults[kind]
<1>1. \A kind \in {"logdir", "docker", "crash"} :
         /\ budget[kind] \in Nat /\ Faults[kind] \in Nat
         /\ Spent(kind) \in Nat
         /\ Spent(kind) = 0 <=> budget[kind] = Faults[kind]
  BY DetonationAssumption DEF StageInv, Spent, FaultKinds
<1>2. NoFault <=> Spent("logdir") = 0 /\ Spent("docker") = 0 /\ Spent("crash") = 0
  BY <1>1 DEF NoFault
<1> QED BY <1>1, <1>2

\* Faults are not taken back, and spending one shows.
LEMMA NoFaultBefore ==
    ASSUME StageInv, StageInv', BudgetFine, NoFault'
    PROVE  NoFault /\ \A kind \in {"logdir", "docker", "crash"} : ~Spend(kind)
<1>1. \A kind \in {"logdir", "docker", "crash"} : budget'[kind] = Faults[kind]
  <2>1. \A kind \in {"logdir", "docker", "crash"} :
           /\ budget'[kind] \in Nat /\ Faults[kind] \in Nat /\ Faults[kind] - budget'[kind] \in Nat
           /\ Faults[kind] - budget'[kind] = 0 <=> budget'[kind] = Faults[kind]
    BY DetonationAssumption DEF StageInv, FaultKinds
  <2>2. \E a, b, c \in Nat :
           /\ a = Faults["logdir"] - budget'["logdir"]
           /\ b = Faults["docker"] - budget'["docker"]
           /\ c = Faults["crash"] - budget'["crash"]
           /\ a + b + c = 0
    BY <2>1, Zenon DEF NoFault, Spent
  <2>3. PICK a, b, c \in Nat :
           /\ a = Faults["logdir"] - budget'["logdir"]
           /\ b = Faults["docker"] - budget'["docker"]
           /\ c = Faults["crash"] - budget'["crash"]
           /\ a + b + c = 0
    BY <2>2
  <2>4. a = 0 /\ b = 0 /\ c = 0
    <3>1. a + b + c = 0
      BY <2>3
    <3> HIDE <2>3
    <3> QED BY <3>1
  <2> QED BY <2>1, <2>3, <2>4
<1>2. \A kind \in {"logdir", "docker", "crash"} :
         budget[kind] = Faults[kind] /\ budget[kind] \in Nat
  BY <1>1, DetonationAssumption DEF StageInv, BudgetFine, FaultKinds
<1>3. \A kind \in {"logdir", "docker", "crash"} : ~Spend(kind)
  BY <1>1, <1>2 DEF Spend, StageInv, FaultKinds
<1> QED BY <1>2, <1>3, NoFaultMeans

\* Without a fault only the sample at work is on its way.
LEMMA OnlyOursRuns ==
    ASSUME SampleInv, NoFault, NEW k \in Runs, boxes[k] \in Live
    PROVE  k = run /\ at = "detonate" /\ step # "return"
<1>1. Faulty = 0
  BY DetonationAssumption DEF SampleInv, StageInv, NoFault, Spent, Faulty, FaultKinds
<1>2. Cardinality(Left) = 0
  BY <1>1, LeftIsFinite DEF SampleInv, LeftInv
<1>3. Left = {}
  BY <1>2, LeftIsFinite, FS_EmptySet
<1> QED BY <1>3 DEF Left

LEMMA BudgetStep == StageInv /\ [Next]_vars => BudgetFine
<1> SUFFICES ASSUME StageInv, [Next]_vars
             PROVE  BudgetFine
  OBVIOUS
<1>1. \/ UNCHANGED budget
      \/ \E kind \in FaultKinds : Spend(kind)
  BY DEF Next, AnalyzerStep, AnalyzeFile, Download, Extract, Extracted, Audit, ScanLocalPath,
     AskForSAST, NoFindingLeft, Detonate, DetonationStep, SnapshotLogFiles, ContainerCreate,
     ContainerStart, ContainerStarted, FindNewBootLog, ContainerWait, ContainerLogs, ReadBootLog,
     ContainerRemove, Answered, NotAnswered, Detonated, WriteJSONReport, AskForLogs, Restart, Dies,
     Deadline, Docker, SandboxBoots, SampleExits, vars, FaultKinds
<1> QED BY <1>1, BudgetUnchanged, BudgetSpent

LEMMA OursInit == Init => OursInv
BY DEF Init, DetonationInit, OursInv

LEMMA OursStep == SampleInv /\ OursInv /\ SampleInv' /\ [Next]_vars => OursInv'
<1> SUFFICES ASSUME SampleInv, OursInv, SampleInv', [Next]_vars
             PROVE  OursInv'
  OBVIOUS
<1>0. /\ StageInv /\ StageInv' /\ BudgetFine
      /\ (at = "detonate" <=> step # "out") /\ (at = "detonate" <=> step # "out")'
  BY BudgetStep DEF SampleInv, StageInv
<1>b. NoFault' => NoFault /\ ~Spend("logdir")
  BY <1>0, NoFaultBefore
\* Steps outside of a detonation.
<1>1. CASE step' = "out" /\ (UNCHANGED dastVars \/ LeaveDetonation)
  BY <1>1 DEF OursInv, LeaveDetonation, dastVars
<1>2. CASE EnterDetonation
  BY <1>2 DEF OursInv, EnterDetonation
<1>3. CASE Detonate /\ DetonationStep
  <2>0. run' = run /\ step' # "out" /\ logs' = logs /\ step # "out"
    BY <1>0, <1>3 DEF Detonate, At, DetonationStep, SnapshotLogFiles, ContainerCreate, ContainerStart,
       ContainerStarted, FindNewBootLog, ContainerWait, ContainerLogs, ReadBootLog, ContainerRemove,
       GoOn, dockerVars
  <2>1. CASE SnapshotLogFiles
    <3>1. NoFault' => before' = logs
      BY <1>b, <2>1 DEF SnapshotLogFiles
    <3> QED BY <1>b, <2>0, <2>1, <3>1 DEF SnapshotLogFiles, GoOn, OursInv
  <2>2. CASE FindNewBootLog
    <3>1. NoFault' => found' \in {0, run}
      BY <1>b, <2>2 DEF FindNewBootLog, GoOn, OursInv
    <3> QED BY <1>b, <2>0, <2>2, <3>1 DEF FindNewBootLog, GoOn, OursInv
  <2>3. CASE ReadBootLog
    BY <1>b, <2>0, <2>3 DEF ReadBootLog, OursInv
  <2>4. CASE \/ ContainerCreate \/ ContainerStart \/ ContainerStarted \/ ContainerWait
             \/ ContainerLogs \/ ContainerRemove
    <3>1. UNCHANGED <<before, found, behavior>> /\ step \notin {"out", "snapshot"}
      BY <2>4 DEF ContainerCreate, ContainerStart, ContainerStarted, ContainerWait, ContainerLogs,
         ContainerRemove, GoOn
    <3> QED BY <1>b, <2>0, <3>1 DEF OursInv
  <2> QED BY <1>3, <2>1, <2>2, <2>3, <2>4 DEF DetonationStep
<1>4. CASE Deadline
  BY <1>b, <1>4 DEF Deadline, dockerVars, OursInv
<1>5. ASSUME NEW k \in Runs, SandboxBoots(k)
      PROVE  OursInv'
  <2>1. /\ UNCHANGED <<run, step, before, found, result, behavior>> /\ boxes[k] \in Live
        /\ logs' \subseteq logs \cup {k}
    BY <1>5 DEF SandboxBoots, dastVars, Live
  <2>2. NoFault' => k = run
    BY <1>b, <2>1, OnlyOursRuns
  <2> QED BY <1>b, <2>1, <2>2 DEF OursInv
<1>6. CASE UNCHANGED <<run, dastVars, logs>>
  BY <1>b, <1>6 DEF dastVars, OursInv
<1>7. \/ step' = "out" /\ (UNCHANGED dastVars \/ LeaveDetonation)
      \/ EnterDetonation
      \/ Detonate /\ DetonationStep
      \/ Deadline
      \/ \E k \in Runs : SandboxBoots(k)
      \/ UNCHANGED <<run, dastVars, logs>>
  <2>1. ASSUME NEW a \in Archives, AnalyzeFile(a)
        PROVE  step' = "out" /\ UNCHANGED dastVars
    BY <1>0, <2>1 DEF AnalyzeFile, dastVars
  <2>2. Dies \/ Detonated => LeaveDetonation /\ (LeaveDetonation => step' = "out")
    BY DEF Dies, Detonated, LeaveDetonation
  <2>3. NoFindingLeft => EnterDetonation
    BY DEF NoFindingLeft
  <2>4. Detonate => Detonate /\ DetonationStep
    BY DEF Detonate
  <2>5. \/ Download \/ Extract \/ Extracted \/ Audit \/ ScanLocalPath \/ AskForSAST
        \/ WriteJSONReport \/ AskForLogs \/ Restart
        => UNCHANGED <<run, dastVars, logs>>
    BY DEF Download, Extract, Extracted, Audit, ScanLocalPath, AskForSAST, WriteJSONReport,
       AskForLogs, Restart, At, dockerVars
  <2>6. Docker => (\E k \in Runs : SandboxBoots(k)) \/ UNCHANGED <<run, dastVars, logs>>
    BY DEF Docker, SampleExits
  <2>7. UNCHANGED vars => UNCHANGED <<run, dastVars, logs>>
    BY DEF vars, callVars, dockerVars
  <2> QED BY <2>1, <2>2, <2>3, <2>4, <2>5, <2>6, <2>7 DEF Next, AnalyzerStep
<1> QED BY <1>1, <1>2, <1>3, <1>4, <1>5, <1>6, <1>7

\* The behaviour that is judged is the sample's own, unless a directory that
\* could not be read, an unanswered request or a death of the analyzer
\* explains another one (helpers.go:61-92, visor.go:89-91).
THEOREM OwnBehaviorOrExplained == Spec => []BehaviorIsOurs
<1>1. Spec => [](SampleInv /\ OursInv)
  BY SampleInit, SampleStep, OursInit, OursStep, PTL DEF Spec
<1>2. SampleInv /\ OursInv => BehaviorIsOurs
  <2> SUFFICES ASSUME SampleInv, OursInv, result = "ok", behavior \notin {0, run}
               PROVE  Spent("logdir") + Spent("docker") + Spent("crash") > 0
    BY DEF BehaviorIsOurs
  <2>1. step # "out"
    BY DEF OursInv
  <2>2. Spent("logdir") + Spent("docker") + Spent("crash") # 0
    BY <2>1 DEF OursInv, NoFault
  <2>3. Spent("logdir") \in Nat /\ Spent("docker") \in Nat /\ Spent("crash") \in Nat
    BY SpendingIsNat DEF SampleInv
  <2> QED BY <2>2, <2>3
<1> QED BY <1>1, <1>2, PTL

-----------------------------------------------------------------------------
(***************************************************************************)
(* The two readers of an archive.  Both are folds over its entries; the    *)
(* first lemmas turn them into a function of how many entries have been    *)
(* read, from which each invariant of a reader follows by induction.       *)
(***************************************************************************)
LEMMA MaxOfSegment ==
    ASSUME NEW k \in Nat \ {0}
    PROVE  Max(1 .. k) = k /\ (1 .. k) \ {k} = 1 .. k - 1
<1>1. k \in 1 .. k /\ \A y \in 1 .. k : k >= y
  OBVIOUS
<1>2. \A x \in 1 .. k : (\A y \in 1 .. k : x >= y) => x = k
  OBVIOUS
<1>3. Max(1 .. k) = k
  BY <1>1, <1>2 DEF Max
<1> QED BY <1>3

LEMMA MaxIsMember ==
    ASSUME NEW n \in Nat, NEW s \in SUBSET (1 .. n), s # {}
    PROVE  Max(s) \in s
<1> DEFINE S == {k \in Nat : \A t \in SUBSET (1 .. n) :
                    (\E x \in t : n - x <= k) => \E x \in t : \A y \in t : x >= y}
<1>1. 0 \in S
  OBVIOUS
<1>2. ASSUME NEW k \in Nat, k \in S
      PROVE  k + 1 \in S
  <2>1. SUFFICES ASSUME NEW t \in SUBSET (1 .. n), NEW x \in t, n - x <= k + 1
                 PROVE  \E z \in t : \A y \in t : z >= y
    OBVIOUS
  <2>2. CASE \E y \in t : y > x
    BY <1>2, <2>1, <2>2
  <2>3. CASE ~ \E y \in t : y > x
    BY <2>1, <2>3
  <2> QED BY <2>2, <2>3
<1>3. n \in S
  <2> HIDE DEF S
  <2> QED BY <1>1, <1>2, NatSetInduction
<1>4. PICK x \in s : TRUE
  OBVIOUS
<1>5. n - x <= n
  OBVIOUS
<1>6. \E z \in s : \A y \in s : z >= y
  BY <1>3, <1>4, <1>5
<1> QED BY <1>6 DEF Max

\* Everything the unzipper's target can be.
Paths == Seq(STRING)
Targets ==
    [ok : BOOLEAN, written : 0 .. MaxAllowedBytes, dirs : SUBSET Paths,
     files : UNION {[D -> Nat] : D \in SUBSET Paths}]

LEMMA ParentsArePaths ==
    ASSUME NEW path \in Paths
    PROVE  Parents(path) \subseteq Paths
BY DEF Parents, Paths

LEMMA EmptyTargetType == EmptyTarget \in Targets
<1>1. << >> \in Paths
  BY DEF Paths
<1>2. << >> \in [{} -> Nat]
  OBVIOUS
<1>3. << >> \in UNION {[D -> Nat] : D \in SUBSET Paths}
  BY <1>2
<1>4. 0 \in 0 .. MaxAllowedBytes
  BY ArchiveAssumption DEF ArchiveAssumption
<1> QED BY <1>1, <1>3, <1>4 DEF EmptyTarget, Targets

LEMMA UnpackEntryType ==
    ASSUME NEW t \in Targets, NEW e \in ArchiveEntries
    PROVE  UnpackEntry(t, e) \in Targets
<1>1. /\ e.path \in Paths /\ Parents(e.path) \subseteq Paths
      /\ e.size \in Nat /\ MaxAllowedBytes \in Nat
  BY ParentsArePaths, ArchiveAssumption DEF ArchiveEntries, Paths, ArchiveAssumption
<1>2. /\ t.ok \in BOOLEAN /\ t.written \in 0 .. MaxAllowedBytes /\ t.dirs \in SUBSET Paths
      /\ DOMAIN t.files \in SUBSET Paths /\ \A p \in DOMAIN t.files : t.files[p] \in Nat
      /\ t.files \in UNION {[D -> Nat] : D \in SUBSET Paths}
  BY DEF Targets
<1>3. Refused(t) \in Targets
  BY <1>2 DEF Refused, Targets
<1>4. UnpackDirectory(t, e) \in Targets
  BY <1>1, <1>2, <1>3 DEF UnpackDirectory, Targets
<1>5. UnpackFile(t, e) \in Targets
  <2> DEFINE length == IF e.size > MaxAllowedBytes - t.written
                       THEN MaxAllowedBytes - t.written ELSE e.size
             files == [p \in DOMAIN t.files \cup {e.path} |->
                            IF p = e.path THEN length ELSE t.files[p]]
  <2>1. length \in Nat /\ t.written + length \in 0 .. MaxAllowedBytes
    BY <1>1, <1>2
  <2> HIDE DEF length
  <2>2. files \in [DOMAIN t.files \cup {e.path} -> Nat]
    BY <1>2, <2>1
  <2>3. DOMAIN t.files \cup {e.path} \in SUBSET Paths
    BY <1>1, <1>2
  <2>4. files \in UNION {[D -> Nat] : D \in SUBSET Paths}
    BY <2>2, <2>3
  <2>5. WithinLimit(t.written + length) \in BOOLEAN
    BY DEF WithinLimit
  <2>6. t.dirs \cup Parents(e.path) \in SUBSET Paths
    BY <1>1, <1>2
  <2> HIDE DEF files
  <2>7. [ok |-> WithinLimit(t.written + length), written |-> t.written + length,
         dirs |-> t.dirs \cup Parents(e.path), files |-> files] \in Targets
    BY <2>1, <2>4, <2>5, <2>6 DEF Targets
  <2> QED BY <1>3, <2>7 DEF UnpackFile, length, files
<1> QED BY <1>3, <1>4, <1>5 DEF UnpackEntry

\* Unpack, entry by entry.
Unpacks(a, g) ==
    /\ g \in [0 .. Len(a) -> Targets]
    /\ g[0] = EmptyTarget
    /\ \A k \in 1 .. Len(a) : g[k] = UnpackEntry(g[k - 1], a[k])
    /\ Unpack(a) = g[Len(a)]

LEMMA UnpackByEntry ==
    ASSUME NEW a \in Seq(ArchiveEntries)
    PROVE  \E g : Unpacks(a, g)
<1> DEFINE D == 1 .. Len(a)
           op == [p \in D \X Targets |-> UnpackEntry(p[2], a[p[1]])]
           pick == [s \in SUBSET D |-> Max(s)]
           Fold(i) == i = [s \in SUBSET D |->
                             IF s = {} THEN EmptyTarget
                             ELSE UnpackEntry(i[s \ {Max(s)}], a[Max(s)])]
           iter == CHOOSE i : Fold(i)
<1>1. Len(a) \in Nat /\ DOMAIN a = D /\ \A k \in D : a[k] \in ArchiveEntries
  OBVIOUS
<1>2. IsFiniteSet(D)
  BY <1>1, FS_Interval
<1>3. op \in [D \X Targets -> Targets]
  BY <1>1, UnpackEntryType
<1>4. \A s \in SUBSET D : s # {} => pick[s] \in s
  BY <1>1, MaxIsMember
<1>5. PICK i \in [SUBSET D -> Targets] : FoldsOver(i, D, EmptyTarget, op, pick)
  <2> HIDE DEF op, pick, D
  <2> QED BY <1>2, <1>3, <1>4, EmptyTargetType, FoldExists
<1>6. \A s \in SUBSET D : i[s] =
        IF s = {} THEN EmptyTarget ELSE UnpackEntry(i[s \ {Max(s)}], a[Max(s)])
  BY <1>4, <1>5 DEF FoldsOver
<1>7. Fold(i)
  BY <1>5, <1>6
<1>8. Fold(iter)
  <2> HIDE DEF Fold
  <2> QED BY <1>7
<1>9. Unpack(a) = iter[DOMAIN a]
  BY Zenon, <1>1 DEF Unpack, FoldLeft, MapThenFoldSet
<1> HIDE DEF iter, op, pick
<1>10. iter[{}] = EmptyTarget
  BY <1>8
<1>11. ASSUME NEW k \in D
       PROVE  iter[1 .. k] = UnpackEntry(iter[1 .. k - 1], a[k])
  <2>1. k \in 1 .. k /\ 1 .. k \in SUBSET D
    BY <1>1
  <2>2. Max(1 .. k) = k /\ (1 .. k) \ {k} = 1 .. k - 1
    BY <1>1, MaxOfSegment
  <2> QED BY <1>8, <2>1, <2>2
<1> DEFINE g == [k \in 0 .. Len(a) |-> iter[1 .. k]]
<1>12. g[0] = EmptyTarget
  <2>1. 1 .. 0 = {}
    OBVIOUS
  <2> QED BY <1>1, <1>10, <2>1
<1>13. \A k \in 1 .. Len(a) : g[k] = UnpackEntry(g[k - 1], a[k])
  BY <1>1, <1>11
<1>14. Unpack(a) = g[Len(a)]
  BY <1>1, <1>9
<1>15. \A k \in Nat : k <= Len(a) => g[k] \in Targets
  <2> HIDE DEF g
  <2> DEFINE S == {n \in Nat : n <= Len(a) => g[n] \in Targets}
  <2>1. 0 \in S
    BY <1>12, EmptyTargetType
  <2>2. ASSUME NEW n \in Nat, n + 1 <= Len(a), g[n] \in Targets
        PROVE  g[n + 1] \in Targets
    <3>1. n + 1 \in 1 .. Len(a) /\ (n + 1) - 1 = n
      BY <1>1, <2>2
    <3> QED BY <1>1, <1>13, <2>2, <3>1, UnpackEntryType
  <2>3. \A n \in Nat : n \in S => n + 1 \in S
    BY <1>1, <2>2
  <2>4. \A n \in Nat : n \in S
    <3> HIDE DEF S
    <3> QED BY <2>1, <2>3, NatSetInduction
  <2> QED BY <2>4
<1>16. g \in [0 .. Len(a) -> Targets]
  BY <1>1, <1>15
<1> QED
  <2> HIDE DEF g
  <2> QED BY <1>12, <1>13, <1>14, <1>16 DEF Unpacks

\* What the headers declare, entry by entry.
Declares(a, f) ==
    /\ f \in [0 .. Len(a) -> Nat]
    /\ f[0] = 0
    /\ \A k \in 1 .. Len(a) : f[k] = f[k - 1] + a[k].size
    /\ SizeUpTo(a, Len(a)) = f[Len(a)]

LEMMA SizeByEntry ==
    ASSUME NEW a \in Seq(ArchiveEntries)
    PROVE  \E f : Declares(a, f)
<1> DEFINE D == 1 .. Len(a)
           op == [p \in D \X Nat |-> p[2] + a[p[1]].size]
           pick == [s \in SUBSET D |-> Max(s)]
           Fold(i) == i = [s \in SUBSET D |->
                             IF s = {} THEN 0 ELSE i[s \ {Max(s)}] + a[Max(s)].size]
           iter == CHOOSE i : Fold(i)
<1>1. /\ Len(a) \in Nat /\ DOMAIN a = D
      /\ \A k \in D : a[k] \in ArchiveEntries /\ a[k].size \in Nat
  <2>1. Len(a) \in Nat /\ DOMAIN a = D /\ \A k \in D : a[k] \in ArchiveEntries
    OBVIOUS
  <2>2. \A e \in ArchiveEntries : e.size \in Nat
    BY DEF ArchiveEntries
  <2> QED BY <2>1, <2>2
<1>2. IsFiniteSet(D)
  BY <1>1, FS_Interval
<1>3. op \in [D \X Nat -> Nat]
  BY <1>1
<1>4. \A s \in SUBSET D : s # {} => pick[s] \in s
  BY <1>1, MaxIsMember
<1>5. PICK i \in [SUBSET D -> Nat] : FoldsOver(i, D, 0, op, pick)
  <2> HIDE DEF op, pick, D
  <2> QED BY <1>2, <1>3, <1>4, FoldExists
<1>6. \A s \in SUBSET D : i[s] =
        IF s = {} THEN 0 ELSE i[s \ {Max(s)}] + a[Max(s)].size
  BY <1>4, <1>5 DEF FoldsOver
<1>7. Fold(i)
  BY <1>5, <1>6
<1>8. Fold(iter)
  <2> HIDE DEF Fold
  <2> QED BY <1>7
<1>9. SizeUpTo(a, Len(a)) = iter[DOMAIN a]
  <2>1. SubSeq(a, 1, Len(a)) = a
    BY <1>1
  <2>2. SizeUpTo(a, Len(a)) = FoldLeft(LAMBDA sum, e : sum + e.size, 0, a)
    BY Zenon, <2>1 DEF SizeUpTo
  <2>3. FoldLeft(LAMBDA sum, e : sum + e.size, 0, a) = iter[DOMAIN a]
    BY Zenon, <1>1 DEF FoldLeft, MapThenFoldSet
  <2> QED BY <2>2, <2>3
<1> HIDE DEF iter, op, pick
<1>10. iter[{}] = 0
  BY <1>8
<1>11. ASSUME NEW k \in D
       PROVE  iter[1 .. k] = iter[1 .. k - 1] + a[k].size
  <2>1. k \in 1 .. k /\ 1 .. k \in SUBSET D
    BY <1>1
  <2>2. Max(1 .. k) = k /\ (1 .. k) \ {k} = 1 .. k - 1
    BY <1>1, MaxOfSegment
  <2> QED BY <1>8, <2>1, <2>2
<1> DEFINE f == [k \in 0 .. Len(a) |-> iter[1 .. k]]
<1>12. f[0] = 0
  <2>1. 1 .. 0 = {}
    OBVIOUS
  <2> QED BY <1>1, <1>10, <2>1
<1>13. \A k \in 1 .. Len(a) : f[k] = f[k - 1] + a[k].size
  BY <1>1, <1>11
<1>14. SizeUpTo(a, Len(a)) = f[Len(a)]
  BY <1>1, <1>9
<1>15. \A k \in Nat : k <= Len(a) => f[k] \in Nat
  <2> HIDE DEF f
  <2> DEFINE S == {n \in Nat : n <= Len(a) => f[n] \in Nat}
  <2>1. 0 \in S
    BY <1>12
  <2>2. ASSUME NEW n \in Nat, n + 1 <= Len(a), f[n] \in Nat
        PROVE  f[n + 1] \in Nat
    <3>1. n + 1 \in 1 .. Len(a) /\ (n + 1) - 1 = n
      BY <1>1, <2>2
    <3> QED BY <1>1, <1>13, <2>2, <3>1
  <2>3. \A n \in Nat : n \in S => n + 1 \in S
    BY <1>1, <2>2
  <2>4. \A n \in Nat : n \in S
    <3> HIDE DEF S
    <3> QED BY <2>1, <2>3, NatSetInduction
  <2> QED BY <2>4
<1>16. f \in [0 .. Len(a) -> Nat]
  BY <1>1, <1>15
<1> QED
  <2> HIDE DEF f
  <2> QED BY <1>12, <1>13, <1>14, <1>16 DEF Declares

-----------------------------------------------------------------------------
(***************************************************************************)
(* The unzipper, after k entries: unless it has failed, every file of      *)
(* theirs is there in full, since a cut brings the total to the limit.     *)
(***************************************************************************)
FullSoFar(a, k, t) ==
    LET read == {j \in Regular(a) : j <= k} IN
    t.ok =>
        /\ t.written < MaxAllowedBytes
        /\ DOMAIN t.files = {a[j].path : j \in read}
        /\ \A p \in DOMAIN t.files :
             \E j \in read : /\ a[j].path = p /\ a[j].size = t.files[p]
                             /\ \A i \in read : a[i].path = p => i <= j

LEMMA EntryIsFull ==
    ASSUME NEW a \in Seq(ArchiveEntries), NEW k \in 1 .. Len(a),
           NEW t \in Targets, FullSoFar(a, k - 1, t)
    PROVE  FullSoFar(a, k, UnpackEntry(t, a[k]))
<1> DEFINE e == a[k]
           u == UnpackEntry(t, e)
           prior == {j \in Regular(a) : j <= k - 1}
           read == {j \in Regular(a) : j <= k}
<1>1. /\ e \in ArchiveEntries /\ e.size \in Nat /\ t.written \in Nat /\ t.ok \in BOOLEAN
      /\ MaxAllowedBytes \in Nat /\ Len(a) \in Nat /\ DOMAIN a = 1 .. Len(a)
      /\ DOMAIN Refused(t).files = DOMAIN t.files
      /\ ~ Refused(t).ok
  <2>1. e \in ArchiveEntries /\ Len(a) \in Nat /\ DOMAIN a = 1 .. Len(a)
    OBVIOUS
  <2>2. e.size \in Nat
    BY <2>1 DEF ArchiveEntries
  <2>3. MaxAllowedBytes \in Nat /\ t.written \in Nat /\ t.ok \in BOOLEAN
    BY ArchiveAssumption DEF ArchiveAssumption, Targets
  <2>4. DOMAIN Refused(t).files = DOMAIN t.files /\ ~ Refused(t).ok
    BY DEF Targets, Refused
  <2> QED BY <2>1, <2>2, <2>3, <2>4
<1>2. CASE e.type # "reg" \/ ~ u.ok
  <2>1. read = prior \/ ~ u.ok
    BY <1>1, <1>2 DEF Regular
  <2>2. u.ok => t.ok /\ u.files = t.files /\ u.written = t.written
    BY <1>1, <1>2 DEF UnpackEntry, Unwritable, UnpackDirectory, Refused, Targets
  <2> QED BY <2>1, <2>2 DEF FullSoFar
<1>3. CASE e.type = "reg" /\ u.ok
  <2> DEFINE length == IF e.size > MaxAllowedBytes - t.written
                       THEN MaxAllowedBytes - t.written ELSE e.size
  <2>1. t.ok /\ u = UnpackFile(t, e)
    BY <1>1, <1>3 DEF UnpackEntry, Refused
  <2>2. /\ u.files = [p \in DOMAIN t.files \cup {e.path} |->
                            IF p = e.path THEN length ELSE t.files[p]]
        /\ u.written = t.written + length
        /\ WithinLimit(t.written + length)
    BY <1>1, <1>3, <2>1 DEF UnpackFile
  <2>3. length = e.size /\ u.written < MaxAllowedBytes
    BY <1>1, <2>2 DEF WithinLimit
  <2>4. read = prior \cup {k} /\ k \notin prior
    BY <1>1, <1>3 DEF Regular
  <2>5. \A i \in prior : i < k
    BY <1>1 DEF Regular
  <2>6. /\ DOMAIN t.files = {a[j].path : j \in prior}
        /\ \A p \in DOMAIN t.files :
             \E j \in prior : /\ a[j].path = p /\ a[j].size = t.files[p]
                               /\ \A i \in prior : a[i].path = p => i <= j
    BY <2>1 DEF FullSoFar
  <2>7. DOMAIN u.files = {a[j].path : j \in read}
    BY <2>2, <2>4, <2>6
  <2>8. ASSUME NEW p \in DOMAIN u.files
        PROVE  \E j \in read : /\ a[j].path = p /\ a[j].size = u.files[p]
                               /\ \A i \in read : a[i].path = p => i <= j
    <3>1. CASE p = e.path
      <4>1. k \in read /\ a[k].path = p /\ a[k].size = u.files[p]
        BY <2>2, <2>3, <2>4, <3>1
      <4>2. \A i \in read : i <= k
        BY <2>4, <2>5, <1>1
      <4> QED BY <4>1, <4>2
    <3>2. CASE p # e.path
      <4>1. p \in DOMAIN t.files /\ u.files[p] = t.files[p]
        BY <2>2, <2>8, <3>2
      <4>2. PICK j \in prior : /\ a[j].path = p /\ a[j].size = t.files[p]
                                /\ \A i \in prior : a[i].path = p => i <= j
        BY <2>6, <4>1
      <4> QED BY <2>4, <3>2, <4>1, <4>2
    <3> QED BY <3>1, <3>2
  <2> HIDE DEF u, read
  <2>9. u.written < MaxAllowedBytes
    BY <2>3
  <2>10. FullSoFar(a, k, u)
    BY <2>7, <2>8, <2>9 DEF FullSoFar, read
  <2> QED BY <2>10 DEF u
<1> QED BY <1>2, <1>3

LEMMA UnpackedIsComplete ==
    ASSUME NEW a \in Seq(ArchiveEntries), Unpack(a).ok
    PROVE  Complete(a, Unpack(a))
<1>1. PICK g : Unpacks(a, g)
  BY UnpackByEntry
<1>2. Len(a) \in Nat /\ DOMAIN a = 1 .. Len(a)
  OBVIOUS
<1> DEFINE S == {n \in Nat : n <= Len(a) => FullSoFar(a, n, g[n])}
<1>3. 0 \in S
  <2>1. {j \in Regular(a) : j <= 0} = {}
    BY <1>2 DEF Regular
  <2>2. g[0] = EmptyTarget /\ 0 < MaxAllowedBytes /\ DOMAIN EmptyTarget.files = {}
    BY <1>1, ArchiveAssumption DEF Unpacks, ArchiveAssumption, EmptyTarget
  <2>3. EmptyTarget.written = 0
    BY DEF EmptyTarget
  <2> QED BY <2>1, <2>2, <2>3 DEF FullSoFar
<1>4. ASSUME NEW n \in Nat, n \in S, n + 1 <= Len(a)
      PROVE  FullSoFar(a, n + 1, g[n + 1])
  <2>1. n + 1 \in 1 .. Len(a) /\ (n + 1) - 1 = n /\ n \in 0 .. Len(a)
    BY <1>2, <1>4
  <2>2. g[n] \in Targets /\ g[n + 1] = UnpackEntry(g[n], a[n + 1])
    BY <1>1, <2>1 DEF Unpacks
  <2> QED BY <1>2, <1>4, <2>1, <2>2, EntryIsFull
<1>5. \A n \in Nat : n \in S => n + 1 \in S
  BY <1>4
<1>6. FullSoFar(a, Len(a), g[Len(a)])
  <2>1. \A n \in Nat : n \in S
    <3> HIDE DEF S
    <3> QED BY <1>3, <1>5, NatSetInduction
  <2> QED BY <1>2, <2>1
<1>7. {j \in Regular(a) : j <= Len(a)} = Regular(a)
  BY <1>2 DEF Regular
<1> QED BY <1>1, <1>6, <1>7 DEF FullSoFar, Complete, Unpacks

-----------------------------------------------------------------------------
(***************************************************************************)
(* The unzipper on an archive the extractor has passed: after k entries it *)
(* has not failed, and what is there is what these entries bring.  No      *)
(* entry is in the way of another in a tree, and the total is below the    *)
(* limit since the extractor's limit is.                                   *)
(***************************************************************************)
GoodSoFar(a, f, k, t) ==
    /\ t.ok /\ t.written <= f[k]
    /\ DOMAIN t.files \subseteq {a[j].path : j \in {i \in Regular(a) : i <= k}}
    /\ \A p \in t.dirs :
         \/ p = << >>
         \/ \E j \in 1 .. k : \/ p \in Parents(a[j].path)
                              \/ a[j].type = "dir" /\ a[j].path = p

LEMMA DeclaredSizesGrow ==
    ASSUME NEW a \in Seq(ArchiveEntries), NEW f, Declares(a, f),
           NEW k \in 0 .. Len(a)
    PROVE  f[k] <= f[Len(a)]
<1>1. Len(a) \in Nat /\ DOMAIN a = 1 .. Len(a)
  OBVIOUS
<1> DEFINE S == {n \in Nat : n <= Len(a) => f[Len(a) - n] <= f[Len(a)]}
<1>2. f[Len(a)] \in Nat
  BY <1>1 DEF Declares
<1>3. 0 \in S
  BY <1>1, <1>2
<1>4. ASSUME NEW n \in Nat, n \in S, n + 1 <= Len(a)
      PROVE  f[Len(a) - (n + 1)] <= f[Len(a)]
  <2> DEFINE m == Len(a) - n
  <2>1. m \in 1 .. Len(a) /\ m - 1 = Len(a) - (n + 1) /\ m - 1 \in 0 .. Len(a)
    BY <1>1, <1>4
  <2>2. f[m] <= f[Len(a)]
    BY <1>1, <1>4
  <2> HIDE DEF m
  <2>3. f[m] = f[m - 1] + a[m].size /\ f[m - 1] \in Nat
    BY <2>1 DEF Declares
  <2>4. a[m].size \in Nat
    <3>1. a[m] \in ArchiveEntries
      BY <2>1
    <3> QED BY <3>1 DEF ArchiveEntries
  <2>5. f[m - 1] <= f[Len(a)]
    BY <1>2, <2>2, <2>3, <2>4
  <2> QED BY <2>1, <2>5
<1>5. \A n \in Nat : n \in S => n + 1 \in S
  BY <1>4
<1>6. \A n \in Nat : n \in S
  <2> HIDE DEF S
  <2> QED BY <1>3, <1>5, NatSetInduction
<1>7. Len(a) - k \in Nat /\ Len(a) - (Len(a) - k) = k /\ Len(a) - k <= Len(a)
  BY <1>1
<1> QED BY <1>6, <1>7

LEMMA GoodEntry ==
    ASSUME NEW a \in Seq(ArchiveEntries), Passes(a), TreeShaped(a), NamesFit(a),
           NEW f, Declares(a, f), NEW k \in 1 .. Len(a),
           NEW t \in Targets, GoodSoFar(a, f, k - 1, t)
    PROVE  GoodSoFar(a, f, k, UnpackEntry(t, a[k]))
<1> DEFINE e == a[k]
           u == UnpackEntry(t, e)
           prior == {j \in Regular(a) : j <= k - 1}
           read == {j \in Regular(a) : j <= k}
<1>1. Len(a) \in Nat /\ DOMAIN a = 1 .. Len(a) /\ e \in ArchiveEntries
  OBVIOUS
<1>2. e.size \in Nat /\ MaxAllowedBytes \in Nat /\ MaxTotalSize < MaxAllowedBytes /\ MaxTotalSize \in Nat
  BY <1>1, ArchiveAssumption DEF ArchiveEntries, ArchiveAssumption
<1>3. e.type \in {"reg", "dir"} /\ e.form = "relative" /\ e.path # << >>
  BY <1>1 DEF Passes, ValidHeader, NamesFit
<1>4. /\ f[k] = f[k - 1] + e.size /\ f[k - 1] \in Nat /\ f[Len(a)] \in Nat
      /\ SizeUpTo(a, Len(a)) = f[Len(a)]
  BY <1>1 DEF Declares
<1>5. f[k] < MaxAllowedBytes
  <2>1. SizeUpTo(a, Len(a)) <= MaxTotalSize
    BY <1>1 DEF Passes, ValidHeader
  <2>2. f[k] <= f[Len(a)]
    BY DeclaredSizesGrow, <1>1
  <2> QED BY <1>2, <1>4, <2>1, <2>2
<1>6. /\ t.ok /\ t.written <= f[k - 1] /\ t.written \in Nat
      /\ DOMAIN t.files \subseteq {a[j].path : j \in prior}
      /\ \A p \in t.dirs :
           \/ p = << >>
           \/ \E j \in 1 .. k - 1 : \/ p \in Parents(a[j].path)
                                    \/ a[j].type = "dir" /\ a[j].path = p
  BY DEF GoodSoFar, Targets
<1>7. prior \subseteq read /\ \A j \in prior : j # k /\ j \in 1 .. Len(a) /\ a[j].type = "reg"
  BY <1>1 DEF Regular
<1>8. ~ HasFile(t, Parents(e.path) \cup {e.path})
  <2>1. \A j \in prior : a[j].path \notin Parents(e.path) /\ a[j].path # e.path
    BY <1>1, <1>7 DEF TreeShaped
  <2> QED BY <1>6, <2>1 DEF HasFile
<1>9. CASE e.type = "dir"
  <2>1. u = [t EXCEPT !.dirs = @ \cup Parents(e.path) \cup {e.path}]
    BY <1>3, <1>6, <1>8, <1>9 DEF UnpackEntry, Unwritable, UnpackDirectory
  <2>2. /\ u.ok = t.ok /\ u.written = t.written /\ u.files = t.files
        /\ u.dirs = t.dirs \cup Parents(e.path) \cup {e.path}
    BY <2>1 DEF Targets
  <2> HIDE DEF u
  <2>3. ASSUME NEW p \in u.dirs
        PROVE  \/ p = << >>
               \/ \E j \in 1 .. k : \/ p \in Parents(a[j].path)
                                    \/ a[j].type = "dir" /\ a[j].path = p
    <3>1. k \in 1 .. k /\ 1 .. k - 1 \subseteq 1 .. k
      BY <1>1
    <3> QED BY <1>6, <1>9, <2>2, <2>3, <3>1
  <2>4. u.written <= f[k]
    BY <1>2, <1>4, <1>6, <2>2
  <2>5. DOMAIN u.files \subseteq {a[j].path : j \in read}
    BY <1>6, <1>7, <2>2
  <2> QED BY <1>6, <2>2, <2>3, <2>4, <2>5 DEF GoodSoFar, u, e
<1>10. CASE e.type = "reg"
  <2>1. ~ HasFile(t, Parents(e.path))
    BY <1>8 DEF HasFile
  <2>2. e.path \notin t.dirs
    <3>1. \A j \in 1 .. k - 1 : /\ e.path \notin Parents(a[j].path)
                                /\ a[j].path # e.path
      BY <1>1, <1>10 DEF TreeShaped
    <3> QED BY <1>3, <1>6, <3>1
  <2>3. ~ e.size > MaxAllowedBytes - t.written /\ t.written + e.size <= f[k]
    BY <1>2, <1>4, <1>5, <1>6
  <2>4. u = UnpackFile(t, e)
    BY <1>3, <1>6, <1>10 DEF UnpackEntry, Unwritable
  <2>5. /\ u.ok = WithinLimit(t.written + e.size) /\ u.written = t.written + e.size
        /\ u.dirs = t.dirs \cup Parents(e.path)
        /\ DOMAIN u.files = DOMAIN t.files \cup {e.path}
    BY <2>1, <2>2, <2>3, <2>4 DEF UnpackFile
  <2> HIDE DEF u
  <2>6. u.ok
    <3>1. t.written + e.size < MaxAllowedBytes
      BY <1>2, <1>4, <1>5, <1>6, <2>3
    <3>2. WithinLimit(t.written + e.size)
      BY <3>1 DEF WithinLimit
    <3> QED BY Zenon, <2>5, <3>2
  <2>7. ASSUME NEW p \in u.dirs
        PROVE  \/ p = << >>
               \/ \E j \in 1 .. k : \/ p \in Parents(a[j].path)
                                    \/ a[j].type = "dir" /\ a[j].path = p
    <3>1. k \in 1 .. k /\ 1 .. k - 1 \subseteq 1 .. k
      BY <1>1
    <3> QED BY <1>6, <2>5, <2>7, <3>1
  <2>8. DOMAIN u.files \subseteq {a[j].path : j \in read}
    <3>1. k \in read
      BY <1>1, <1>10 DEF Regular
    <3> QED BY <1>6, <1>7, <2>5, <3>1
  <2> QED BY <2>3, <2>5, <2>6, <2>7, <2>8 DEF GoodSoFar, u, e
<1> QED BY <1>3, <1>9, <1>10

LEMMA PassedUnpacks ==
    ASSUME NEW a \in Seq(ArchiveEntries), Passes(a), TreeShaped(a), NamesFit(a)
    PROVE  Unpack(a).ok
<1>1. PICK g : Unpacks(a, g)
  BY UnpackByEntry
<1>2. PICK f : Declares(a, f)
  BY SizeByEntry
<1>3. Len(a) \in Nat /\ DOMAIN a = 1 .. Len(a)
  OBVIOUS
<1> DEFINE S == {n \in Nat : n <= Len(a) => GoodSoFar(a, f, n, g[n])}
<1>4. 0 \in S
  <2>1. g[0] = EmptyTarget /\ f[0] = 0
    BY <1>1, <1>2 DEF Unpacks, Declares
  <2>2. /\ EmptyTarget.ok /\ EmptyTarget.written = 0
        /\ DOMAIN EmptyTarget.files = {} /\ EmptyTarget.dirs = {<< >>}
    BY DEF EmptyTarget
  <2> QED BY <2>1, <2>2 DEF GoodSoFar
<1>5. ASSUME NEW n \in Nat, n \in S, n + 1 <= Len(a)
      PROVE  GoodSoFar(a, f, n + 1, g[n + 1])
  <2>1. n + 1 \in 1 .. Len(a) /\ (n + 1) - 1 = n /\ n \in 0 .. Len(a)
    BY <1>3, <1>5
  <2>2. g[n] \in Targets /\ g[n + 1] = UnpackEntry(g[n], a[n + 1])
    BY <1>1, <2>1 DEF Unpacks
  <2> QED BY <1>2, <1>3, <1>5, <2>1, <2>2, GoodEntry
<1>6. \A n \in Nat : n \in S => n + 1 \in S
  BY <1>5
<1>7. GoodSoFar(a, f, Len(a), g[Len(a)])
  <2>1. \A n \in Nat : n \in S
    <3> HIDE DEF S
    <3> QED BY <1>4, <1>6, NatSetInduction
  <2> QED BY <1>3, <2>1
<1> QED BY <1>1, <1>7 DEF GoodSoFar, Unpacks

LEMMA UnpackType ==
    ASSUME NEW a \in Seq(ArchiveEntries)
    PROVE  Unpack(a) \in Targets
<1>1. PICK g : Unpacks(a, g)
  BY UnpackByEntry
<1>2. Len(a) \in Nat
  OBVIOUS
<1> QED BY <1>1, <1>2 DEF Unpacks

-----------------------------------------------------------------------------
(***************************************************************************)
(* The archive of the analysis: what the extractor thinks of it, and what  *)
(* has been made of it.                                                    *)
(***************************************************************************)
ArchiveInv ==
    /\ archive \in Archives \cup {<< >>}
    /\ passed \in BOOLEAN /\ (passed => Passes(archive))
    /\ target \in Targets
    /\ extraction \in {"none", "done", "io"}
    /\ extraction # "none" => at = "extract"
    /\ extraction = "done" => target = Unpack(archive)

LEMMA ArchivesAreReadable ==
    ASSUME ArchiveInv
    PROVE  archive \in Seq(ArchiveEntries)
<1>1. << >> \in Seq(ArchiveEntries)
  OBVIOUS
<1> QED BY <1>1, AnalysisAssumption DEF ArchiveInv, AnalysisAssumption

LEMMA RefusedType ==
    ASSUME NEW t \in Targets
    PROVE  Refused(t) \in Targets
BY DEF Refused, Targets

LEMMA ForgottenArchive ==
    ASSUME Forget
    PROVE  ArchiveInv'
<1>1. ~ passed' /\ target' \in Targets
  BY EmptyTargetType DEF Forget, Targets
<1>2. passed' \in BOOLEAN
  BY DEF Forget
<1> QED BY <1>1, <1>2 DEF Forget, ArchiveInv

LEMMA ArchiveInit == Init => ArchiveInv
<1> SUFFICES ASSUME Init PROVE ArchiveInv
  OBVIOUS
<1>1. target \in Targets
  BY EmptyTargetType DEF Init
<1>2. passed = FALSE
  BY DEF Init
<1> QED BY <1>1, <1>2 DEF Init, ArchiveInv

LEMMA ArchiveStep == ArchiveInv /\ [Next]_vars => ArchiveInv'
<1> SUFFICES ASSUME ArchiveInv, [Next]_vars
             PROVE  ArchiveInv'
  OBVIOUS
<1>u. ASSUME UNCHANGED archiveVars, at # "extract" \/ UNCHANGED at
      PROVE  ArchiveInv'
  BY <1>u DEF archiveVars, ArchiveInv
<1>1. ASSUME NEW a \in Archives, AnalyzeFile(a)
      PROVE  ArchiveInv'
  <2>1. archive' = a /\ UNCHANGED <<target, extraction>> /\ at = "idle"
    BY <1>1 DEF AnalyzeFile
  <2>2. passed' = Passes(a) /\ (Passes(a) \in BOOLEAN)
    BY Zenon, <1>1 DEF AnalyzeFile, Passes
  <2>3. extraction # "done"
    BY <2>1 DEF ArchiveInv
  <2> QED BY <2>1, <2>2, <2>3 DEF ArchiveInv
<1>2. CASE Extract
  <2>1. UNCHANGED <<archive, passed, at>> /\ archive \in Seq(ArchiveEntries) /\ at = "extract"
    BY <1>2, ArchivesAreReadable DEF Extract, At
  <2>2. CASE target' = Unpack(archive) /\ extraction' = "done"
    BY <2>1, <2>2, UnpackType DEF ArchiveInv
  <2>3. CASE extraction' = "io" /\ \E k \in 0 .. Len(archive) :
                                    target' = Refused(Unpack(SubSeq(archive, 1, k)))
    <3>1. PICK k \in 0 .. Len(archive) : target' = Refused(Unpack(SubSeq(archive, 1, k)))
      BY <2>3
    <3>2. SubSeq(archive, 1, k) \in Seq(ArchiveEntries)
      BY <2>1
    <3>3. target' \in Targets
      BY <3>1, <3>2, UnpackType, RefusedType
    <3> QED BY <2>1, <2>3, <3>3 DEF ArchiveInv
  <2> QED BY <1>2, <2>2, <2>3 DEF Extract
<1>3. CASE Extracted \/ Dies
  BY <1>3, ForgottenArchive DEF Extracted, Dies
<1>4. CASE Download
  BY <1>u, <1>4, ForgottenArchive DEF Download, At
<1>5. CASE \/ Audit \/ ScanLocalPath \/ AskForSAST \/ NoFindingLeft \/ Detonate \/ Detonated
           \/ WriteJSONReport \/ AskForLogs \/ Restart
           \/ (Deadline \/ Docker) /\ UNCHANGED <<at, verdict, workspace, archiveVars, findings>>
  BY <1>u, <1>5 DEF Audit, ScanLocalPath, AskForSAST, NoFindingLeft, Detonate, Detonated,
     WriteJSONReport, AskForLogs, Restart, At
<1>6. CASE UNCHANGED vars
  BY <1>u, <1>6 DEF vars, callVars
<1> QED BY <1>1, <1>2, <1>3, <1>4, <1>5, <1>6 DEF Next, AnalyzerStep

\* An extraction that is reported as good has every file in its full length
\* (unzipper.go:83-96).
THEOREM NoFileIsCut == Spec => []NothingIsCutSilently
<1>1. ArchiveInv => NothingIsCutSilently
  <2> SUFFICES ASSUME ArchiveInv, extraction = "done", target.ok
               PROVE  Complete(archive, target)
    BY DEF NothingIsCutSilently
  <2>1. archive \in Seq(ArchiveEntries) /\ target = Unpack(archive)
    BY ArchivesAreReadable DEF ArchiveInv
  <2> QED BY <2>1, UnpackedIsComplete
<1> QED BY <1>1, ArchiveInit, ArchiveStep, PTL DEF Spec

\* What the server's extractor has passed, the analyzer can unpack, if its names
\* are those of a tree that a file system takes (extractor.go:87-116,
\* unzipper.go:46-98).
THEOREM ReadersAgree == Spec => []PassedIsUnpacked
<1>1. ArchiveInv => PassedIsUnpacked
  <2> SUFFICES ASSUME ArchiveInv, extraction = "done", passed, TreeShaped(archive),
                      NamesFit(archive)
               PROVE  target.ok
    BY DEF PassedIsUnpacked
  <2>1. archive \in Seq(ArchiveEntries) /\ target = Unpack(archive) /\ Passes(archive)
    BY ArchivesAreReadable DEF ArchiveInv
  <2> QED BY <2>1, PassedUnpacks
<1> QED BY <1>1, ArchiveInit, ArchiveStep, PTL DEF Spec

-----------------------------------------------------------------------------
(***************************************************************************)
(* The rest of the types, of what no other invariant speaks of.            *)
(***************************************************************************)
CallInv ==
    /\ at \in Analysis \cup {"idle", "down"}
    /\ verdict \in AnalysisVerdicts \cup {"none"}
    /\ workspace \subseteq Runs \X FileKinds

SampleRestInv ==
    /\ late \in BOOLEAN
    /\ before \subseteq Runs
    /\ found \in 0 .. MaxRuns
    /\ result \in {"none", "error", "ok"}
    /\ behavior \in 0 .. MaxRuns

\* A call goes on to the next stage, or returns with a verdict.
LEMMA PassedType ==
    ASSUME CallInv, run \in Runs, at \in DOMAIN NextStage, Passed
    PROVE  CallInv'
<1>1. at' \in Analysis /\ UNCHANGED verdict
  BY StagesAre, StagesHaveSuccessors DEF Passed, NextStage
<1>2. Creates(at) \subseteq FileKinds
  BY DEF Creates, FileKinds
<1>3. workspace' \subseteq Runs \X FileKinds
  BY <1>2 DEF CallInv, Passed, WorkspaceGets
<1> QED BY <1>1, <1>3 DEF CallInv

LEMMA ReturnsType ==
    ASSUME CallInv, NEW v \in AnalysisVerdicts, Returns(v)
    PROVE  CallInv'
BY DEF CallInv, Returns

\* What a detonation has found.
LEMMA EnteredType ==
    ASSUME EnterDetonation \/ LeaveDetonation
    PROVE  SampleRestInv'
<1>1. late' = FALSE /\ before' = {} /\ found' = 0 /\ result' = "none" /\ behavior' = 0
  BY DEF EnterDetonation, LeaveDetonation
<1>2. MaxRuns \in Nat
  BY DetonationAssumption
<1>3. late' \in BOOLEAN /\ before' \subseteq Runs /\ result' \in {"none", "error", "ok"}
  BY <1>1
<1>4. found' \in 0 .. MaxRuns /\ behavior' \in 0 .. MaxRuns
  BY <1>1, <1>2
<1> QED BY <1>3, <1>4 DEF SampleRestInv

LEMMA DetonationType ==
    ASSUME SampleRestInv, logs \subseteq Runs, DetonationStep
    PROVE  SampleRestInv'
<1> USE DEF SampleRestInv, GoOn, dockerVars
<1>1. Runs \subseteq 0 .. MaxRuns /\ 0 \in 0 .. MaxRuns
  BY DetonationAssumption DEF Runs
<1>2. CASE SnapshotLogFiles
  BY <1>2 DEF SnapshotLogFiles
<1>3. CASE ContainerCreate
  BY <1>3 DEF ContainerCreate, Answered, NotAnswered
<1>4. CASE ContainerStart
  BY <1>4 DEF ContainerStart, Answered, NotAnswered
<1>5. CASE ContainerStarted
  BY <1>5 DEF ContainerStarted, Answered, NotAnswered
<1>6. CASE FindNewBootLog
  BY <1>1, <1>6 DEF FindNewBootLog
<1>7. CASE ContainerWait
  BY <1>7 DEF ContainerWait, NotAnswered
<1>8. CASE ContainerLogs
  BY <1>8 DEF ContainerLogs, Answered, NotAnswered
<1>9. CASE ReadBootLog
  BY <1>1, <1>9 DEF ReadBootLog
<1>10. CASE ContainerRemove
  BY <1>10 DEF ContainerRemove
<1> QED BY <1>2, <1>3, <1>4, <1>5, <1>6, <1>7, <1>8, <1>9, <1>10 DEF DetonationStep

LEMMA OutsideType ==
    ASSUME SampleRestInv, Deadline \/ Docker
    PROVE  SampleRestInv'
<1>1. CASE Deadline
  BY <1>1 DEF SampleRestInv, Deadline
<1>2. CASE Docker
  <2>1. UNCHANGED dastVars
    BY <1>2 DEF Docker, SandboxBoots, SampleExits
  <2> QED BY <2>1 DEF SampleRestInv, dastVars
<1> QED BY <1>1, <1>2

RestInv == CallInv /\ SampleRestInv /\ findings \in 0 .. MaxFindings

LEMMA RestInit == Init => RestInv
<1> SUFFICES ASSUME Init PROVE RestInv
  OBVIOUS
<1>1. MaxRuns \in Nat /\ MaxFindings \in Nat
  BY DetonationAssumption, AnalysisAssumption DEF AnalysisAssumption
<1>2. CallInv
  BY DEF Init, CallInv
<1>3. SampleRestInv
  <2>1. late \in BOOLEAN /\ before \subseteq Runs /\ result \in {"none", "error", "ok"}
    BY DEF Init, DetonationInit
  <2>2. found \in 0 .. MaxRuns /\ behavior \in 0 .. MaxRuns
    BY <1>1 DEF Init, DetonationInit
  <2> QED BY <2>1, <2>2 DEF SampleRestInv
<1> QED BY <1>1, <1>2, <1>3 DEF Init, RestInv

LEMMA RestStep == SampleInv /\ RestInv /\ [Next]_vars => RestInv'
<1> SUFFICES ASSUME SampleInv, RestInv, [Next]_vars
             PROVE  RestInv'
  OBVIOUS
<1>1. /\ CallInv /\ SampleRestInv /\ findings \in 0 .. MaxFindings /\ MaxFindings \in Nat
      /\ logs \subseteq Runs /\ (at \in Analysis => run \in Runs)
  BY AnalysisAssumption DEF SampleInv, StageInv, RestInv, AnalysisAssumption
<1>u. UNCHANGED dastVars => SampleRestInv'
  BY <1>1 DEF SampleRestInv, dastVars
<1>c. UNCHANGED <<at, verdict, workspace>> => CallInv'
  BY <1>1 DEF CallInv
<1>v. {"FAILURE", "MALICIOUS"} \subseteq AnalysisVerdicts
  BY DEF AnalysisVerdicts
<1>p. ASSUME at \in DOMAIN NextStage, Passed
      PROVE  CallInv'
  BY <1>1, <1>p, PassedType, StagesAre DEF NextStage
<1>2. ASSUME NEW a \in Archives, AnalyzeFile(a)
      PROVE  RestInv'
  BY <1>1, <1>2, <1>u, StagesAre DEF AnalyzeFile, RestInv, CallInv
<1>3. CASE Download
  <2>1. CallInv'
    BY <1>1, <1>3, <1>v, <1>p, ReturnsType DEF Download, At, NextStage
  <2> QED BY <1>1, <1>3, <1>u, <2>1 DEF Download, RestInv
<1>4. CASE Extract
  <2>1. workspace' \subseteq Runs \X FileKinds
    BY <1>1, <1>4, StagesAre DEF Extract, At, WorkspaceGets, CallInv, FileKinds
  <2>2. CallInv'
    BY <1>1, <1>4, <2>1 DEF Extract, CallInv
  <2> QED BY <1>1, <1>4, <1>u, <2>2 DEF Extract, RestInv
<1>5. CASE Extracted
  <2>1. CallInv'
    BY <1>1, <1>5, <1>v, <1>p, ReturnsType DEF Extracted, At, NextStage
  <2> QED BY <1>1, <1>5, <1>u, <2>1 DEF Extracted, RestInv
<1>6. CASE Audit
  <2>1. CallInv'
    BY <1>1, <1>6, <1>v, <1>p, ReturnsType DEF Audit, At, NextStage
  <2> QED BY <1>1, <1>6, <1>u, <2>1 DEF Audit, RestInv
<1>7. CASE ScanLocalPath
  <2>1. CallInv'
    BY <1>1, <1>7, <1>v, <1>p, ReturnsType DEF ScanLocalPath, At, NextStage
  <2> QED BY <1>1, <1>7, <1>u, <2>1 DEF ScanLocalPath, RestInv
<1>8. CASE AskForSAST
  <2>1. CallInv'
    BY <1>1, <1>8, <1>v, <1>c, ReturnsType DEF AskForSAST, At
  <2>2. findings' \in 0 .. MaxFindings
    BY <1>1, <1>8 DEF AskForSAST
  <2> QED BY <1>1, <1>8, <1>u, <2>1, <2>2 DEF AskForSAST, RestInv
<1>9. CASE NoFindingLeft
  <2>1. CallInv'
    BY <1>1, <1>9, <1>p DEF NoFindingLeft, At, NextStage
  <2> QED BY <1>1, <1>9, <2>1, EnteredType DEF NoFindingLeft, RestInv
<1>10. CASE Detonate
  BY <1>1, <1>10, <1>c, DetonationType DEF Detonate, RestInv
<1>11. CASE Detonated
  <2>1. CallInv'
    BY <1>1, <1>11, <1>v, <1>p, ReturnsType DEF Detonated, At, NextStage
  <2> QED BY <1>1, <1>11, <2>1, EnteredType DEF Detonated, RestInv
<1>12. CASE WriteJSONReport
  <2>1. CallInv'
    BY <1>1, <1>12, <1>v, <1>p, ReturnsType DEF WriteJSONReport, At, NextStage
  <2> QED BY <1>1, <1>12, <1>u, <2>1 DEF WriteJSONReport, RestInv
<1>13. CASE AskForLogs
  BY <1>1, <1>13, <1>u, ReturnsType DEF AskForLogs, RestInv
<1>14. CASE Restart
  BY <1>1, <1>14, <1>u DEF Restart, RestInv, CallInv
<1>15. CASE Dies
  <2>1. CallInv'
    BY <1>1, <1>15 DEF Dies, CallInv
  <2> QED BY <1>1, <1>15, <2>1, EnteredType DEF Dies, RestInv
<1>16. CASE (Deadline \/ Docker) /\ UNCHANGED <<at, verdict, workspace, archiveVars, findings>>
  BY <1>1, <1>16, <1>c, OutsideType DEF RestInv
<1>17. CASE UNCHANGED vars
  BY <1>1, <1>17, <1>u, <1>c DEF vars, callVars, RestInv
<1> QED BY <1>2, <1>3, <1>4, <1>5, <1>6, <1>7, <1>8, <1>9, <1>10, <1>11, <1>12, <1>13, <1>14,
           <1>15, <1>16, <1>17 DEF Next, AnalyzerStep

\* The types of an analysis (analysis_orchestrator.go:45-162, visor.go:83-162).
THEOREM AnalysisTypes == Spec => []TypeOK
<1>1. SampleInv /\ RestInv /\ ArchiveInv => TypeOK
  <2> SUFFICES ASSUME SampleInv, RestInv, ArchiveInv PROVE TypeOK
    OBVIOUS
  <2>1. DetonationTypeOK /\ (step # "out" <=> at = "detonate")
    BY DEF SampleInv, StageInv, RestInv, SampleRestInv, DetonationTypeOK
  <2>2. target.ok \in BOOLEAN /\ target.written \in 0 .. MaxAllowedBytes
    BY DEF ArchiveInv, Targets
  <2> QED BY <2>1, <2>2 DEF RestInv, CallInv, ArchiveInv, TypeOK
<1> QED BY <1>1, SampleInit, SampleStep, RestInit, RestStep, ArchiveInit, ArchiveStep, PTL DEF Spec
=============================================================================
