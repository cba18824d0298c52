--------------------------- MODULE PipelineProofs ---------------------------
(***************************************************************************)
(* Proofs about the pipeline and its clients, for any sets of functions    *)
(* and builders, buses of any length and any fault budgets.                *)
(***************************************************************************)
EXTENDS Cli, FiniteSetTheorems, TLAPS

\* Spending a fault leaves a budget.
LEMMA SpendType ==
    ASSUME PlatformTypeOK, NEW k \in FaultKinds, Spend(k)
    PROVE  budget' \in [FaultKinds -> Nat]
BY DEF PlatformTypeOK, Spend

\* A statement of the VM service, whatever its outcome, costs at most a fault.
LEMMA StatementType ==
    ASSUME PlatformTypeOK, DbOk \/ DbRefused \/ DbReplyLost
    PROVE  budget' \in [FaultKinds -> Nat]
BY SpendType DEF PlatformTypeOK, DbOk, DbRefused, DbReplyLost, FaultKinds

\* And so does one of the server or the analyzer, which leaves a status.
LEMMA UpdateType ==
    ASSUME StoreTypeOK, NEW f \in Functions, NEW s \in FnStatuses,
           StatusUpdated(f, s) \/ StatusUpdateFails(f, s)
    PROVE  budget' \in [FaultKinds -> Nat] /\ fnStatus' \in [Functions -> FnStatuses]
<1>1. budget' \in [FaultKinds -> Nat]
  BY SpendType
  DEF StoreTypeOK, PlatformTypeOK, FaultKinds, StatusUpdated, StatusUpdateFails
<1>2. fnStatus' \in [Functions -> FnStatuses]
  BY DEF StoreTypeOK, StatusUpdated, StatusUpdateFails, SetFnStatus
<1>3. QED
  BY <1>1, <1>2

\* The initial state has the right shape.
LEMMA InitTypeOK == CliInit => CliTypeOK
<1> SUFFICES ASSUME CliInit
             PROVE  CliTypeOK
  OBVIOUS
<1> USE DEF CliInit, Init
<1>1. StoreTypeOK
  BY FunctionStoreAssumption, BudgetsAssumption
  DEF FunctionStoreAssumption, BudgetsAssumption, StoreInit, StoreTypeOK, PlatformInit,
      PlatformTypeOK, VmStates, FnStatuses, B!Init, B!TypeOK, B!Stages
<1>2. IntakeTypeOK
  BY IntakeAssumption, FunctionStoreAssumption
  DEF IntakeAssumption, FunctionStoreAssumption, IntakeInit, IntakeTypeOK, UploadStages, WorkerStages, IdleWorker
<1>3. AnalyzerTypeOK
  BY DEF AnalyzerInit, AnalyzerTypeOK, NoScan, ScanStages, AnalysisVerdicts
<1>4. BuildTypeOK
  BY DEF BuildInit, BuildTypeOK, BuildSteps, StoreInit, B!Init
<1>5. QED
  BY <1>1, <1>2, <1>3, <1>4 DEF CliTypeOK, TypeOK, CliStages

-----------------------------------------------------------------------------
(* The server. *)

\* A bus keeps its shape and its limit, whatever is announced on it.
LEMMA AnnouncedType ==
    ASSUME NEW bus \in Seq(Functions), Len(bus) <= BusCapacity, NEW f \in Functions
    PROVE  Announced(bus, f) \in Seq(Functions) /\ Len(Announced(bus, f)) <= BusCapacity
BY IntakeAssumption DEF IntakeAssumption, Announced

\* A worker takes the head of its bus.
LEMMA TakenType ==
    ASSUME NEW bus \in Seq(Functions), Len(bus) <= BusCapacity, bus # << >>
    PROVE  /\ Head(bus) \in Functions
           /\ Tail(bus) \in Seq(Functions)
           /\ Len(Tail(bus)) <= BusCapacity
BY IntakeAssumption DEF IntakeAssumption

LEMMA DeathType ==
    ASSUME IntakeTypeOK, ServerDies
    PROVE  IntakeTypeOK'
BY IntakeAssumption, FunctionStoreAssumption
DEF IntakeAssumption, FunctionStoreAssumption, IntakeTypeOK, ServerDies, IdleWorker, WorkerStages, UploadStages

\* What a step of the server leaves of the shapes.
LEMMA ServerTypeOK ==
    ASSUME TypeOK, IntakeNext, UNCHANGED <<analyzerVars, buildVars>>
    PROVE  TypeOK'
<1> USE DEF platformVars, tableVars, bucketVars, buildQueueVars
<1> DEFINE Shared == /\ budget' \in [FaultKinds -> Nat]
                     /\ fnStatus' \in [Functions -> FnStatuses]
                     /\ quarantineBucket' \subseteq Functions
                     /\ analyzerQueue' \in [Functions -> Nat]
           Rest == UNCHANGED <<vmState, drivePath, functionsBucket, drivesBucket, buildQueueVars>>
<1>1. ASSUME Shared, Rest, IntakeTypeOK'
      PROVE  TypeOK'
  BY <1>1 DEF TypeOK, StoreTypeOK, PlatformTypeOK, B!TypeOK, AnalyzerTypeOK, BuildTypeOK,
     analyzerVars, buildVars
<1>2. /\ StoreTypeOK /\ PlatformTypeOK /\ IntakeTypeOK
      /\ budget \in [FaultKinds -> Nat]
      /\ fnStatus \in [Functions -> FnStatuses]
      /\ quarantineBucket \subseteq Functions
      /\ analyzerQueue \in [Functions -> Nat]
      /\ NoFunction \notin Functions
  BY FunctionStoreAssumption DEF FunctionStoreAssumption, TypeOK, StoreTypeOK, PlatformTypeOK
<1> USE <1>2
<1>3. ASSUME NEW f \in Functions, StoreArchive(f)
      PROVE  Shared /\ Rest /\ IntakeTypeOK'
  BY <1>3, SpendType DEF StoreArchive, UploadMoves, IntakeTypeOK, UploadStages, FaultKinds
<1>4. ASSUME NEW f \in Functions, CreateFunction(f)
      PROVE  Shared /\ Rest /\ IntakeTypeOK'
  <2>1. "QUARANTINED" \in FnStatuses
    BY DEF FnStatuses
  <2>2. Shared
    BY <1>4, <2>1, UpdateType DEF CreateFunction
  <2>3. Rest /\ IntakeTypeOK'
    BY <1>4 DEF CreateFunction, UploadMoves, IntakeTypeOK, UploadStages
  <2>4. QED
    BY <2>2, <2>3
<1>5. ASSUME NEW f \in Functions, AnnounceUpload(f)
      PROVE  Shared /\ Rest /\ IntakeTypeOK'
  <2>1. quarantineBus' \in Seq(Functions) /\ Len(quarantineBus') <= BusCapacity
    BY <1>5, AnnouncedType DEF AnnounceUpload, IntakeTypeOK
  <2>2. QED
    BY <1>5, <2>1 DEF AnnounceUpload, UploadMoves, IntakeTypeOK, UploadStages
<1>6. ASSUME ExtractNext
      PROVE  Shared /\ Rest /\ IntakeTypeOK'
  <2>1. /\ Head(quarantineBus) \in Functions
        /\ quarantineBus' \in Seq(Functions) /\ Len(quarantineBus') <= BusCapacity
    BY <1>6, TakenType DEF ExtractNext, IntakeTypeOK
  <2>2. qWorker' \in [at : WorkerStages, of : Functions \cup {NoFunction},
                      status : {"EXTRACTED", "FAILED"}]
    BY <1>6, <2>1 DEF ExtractNext, WorkerStages
  <2>3. QED
    BY <1>6, <2>1, <2>2 DEF ExtractNext, IntakeTypeOK
<1>7. ASSUME RecordExtraction
      PROVE  Shared /\ Rest /\ IntakeTypeOK'
  <2>1. qWorker.of \in Functions /\ qWorker.status \in FnStatuses
    BY <1>7 DEF RecordExtraction, IntakeTypeOK, FnStatuses
  <2>2. Shared
    BY <1>7, <2>1, UpdateType DEF RecordExtraction
  <2>3. qWorker' \in [at : WorkerStages, of : Functions \cup {NoFunction},
                      status : {"EXTRACTED", "FAILED"}]
    BY <1>7 DEF RecordExtraction, IntakeTypeOK, IdleWorker, WorkerStages
  <2>4. QED
    BY <1>7, <2>1, <2>2, <2>3 DEF RecordExtraction, IntakeTypeOK, IdleWorker
<1>8. ASSUME AnnounceExtraction
      PROVE  Shared /\ Rest /\ IntakeTypeOK'
  <2>1. qWorker.of \in Functions
    BY <1>8 DEF AnnounceExtraction, IntakeTypeOK
  <2>2. extractionBus' \in Seq(Functions) /\ Len(extractionBus') <= BusCapacity
    BY <1>8, <2>1, AnnouncedType DEF AnnounceExtraction, IntakeTypeOK
  <2>3. QED
    BY <1>8, <2>2 DEF AnnounceExtraction, IntakeTypeOK, IdleWorker, WorkerStages
<1>9. ASSUME ForwardNext
      PROVE  Shared /\ Rest /\ IntakeTypeOK'
  <2>1. /\ xWorker' \in Functions
        /\ extractionBus' \in Seq(Functions) /\ Len(extractionBus') <= BusCapacity
    BY <1>9, TakenType DEF ForwardNext, IntakeTypeOK
  <2>2. QED
    BY <1>9, <2>1 DEF ForwardNext, IntakeTypeOK
<1>10. ASSUME PublishToAnalyzer
       PROVE  Shared /\ Rest /\ IntakeTypeOK'
  <2>1. xWorker \in Functions
    BY <1>10 DEF PublishToAnalyzer, IntakeTypeOK
  <2>2. Shared /\ Rest
    BY <1>10, <2>1, SpendType DEF PublishToAnalyzer, FaultKinds
  <2>3. IntakeTypeOK'
    BY <1>10, DeathType DEF PublishToAnalyzer, IntakeTypeOK
  <2>4. QED
    BY <2>2, <2>3
<1>11. ASSUME ServerCrash \/ ServerStart
       PROVE  Shared /\ Rest /\ IntakeTypeOK'
  <2>1. Shared /\ Rest
    BY <1>11, SpendType DEF ServerCrash, ServerStart, FaultKinds
  <2>2. IntakeTypeOK'
    BY <1>11, DeathType DEF ServerCrash, ServerStart, IntakeTypeOK
  <2>3. QED
    BY <2>1, <2>2
<1>12. QED
  BY <1>1, <1>3, <1>4, <1>5, <1>6, <1>7, <1>8, <1>9, <1>10, <1>11
  DEF IntakeNext, IntakeProgress

-----------------------------------------------------------------------------
(* The analyzer. *)

\* Wherever the goroutine goes, it keeps its function.
LEMMA ScanType ==
    ASSUME AnalyzerTypeOK,
           scan' = NoScan \/ \E s \in ScanStages \ {"idle"} : scan.at # "idle" /\ GoTo(s)
    PROVE  /\ scan' \in [at : ScanStages, of : Functions \cup {NoFunction},
                         verdict : AnalysisVerdicts]
           /\ (scan'.at = "idle") <=> (scan'.of = NoFunction)
BY DEF AnalyzerTypeOK, NoScan, ScanStages, AnalysisVerdicts, GoTo

\* What a step of the analyzer leaves of the shapes.
LEMMA AnalyzerStepTypeOK ==
    ASSUME TypeOK, AnalyzerNext, UNCHANGED <<intakeVars, buildVars>>
    PROVE  TypeOK'
<1> USE DEF platformVars, tableVars, bucketVars, buildQueueVars
<1> DEFINE Shared == /\ budget' \in [FaultKinds -> Nat]
                     /\ fnStatus' \in [Functions -> FnStatuses]
                     /\ analyzerQueue' \in [Functions -> Nat]
           Buckets == /\ quarantineBucket' \subseteq Functions
                      /\ functionsBucket' \subseteq Functions
           Queue == B!TypeOK' /\ UNCHANGED <<pc, job, owned, tries>>
           Rest == UNCHANGED <<vmState, drivePath, drivesBucket>>
           Same == UNCHANGED <<quarantineBucket, functionsBucket, buildQueueVars>>
<1>1. ASSUME Shared, Buckets, Queue, Rest, AnalyzerTypeOK'
      PROVE  TypeOK'
  BY <1>1 DEF TypeOK, StoreTypeOK, PlatformTypeOK, IntakeTypeOK, BuildTypeOK, intakeVars, buildVars
<1>2. /\ StoreTypeOK /\ PlatformTypeOK /\ AnalyzerTypeOK
      /\ budget \in [FaultKinds -> Nat]
      /\ fnStatus \in [Functions -> FnStatuses]
      /\ quarantineBucket \subseteq Functions
      /\ functionsBucket \subseteq Functions
      /\ analyzerQueue \in [Functions -> Nat]
      /\ NoFunction \notin Functions
      /\ scan.at # "idle" => scan.of \in Functions
  BY FunctionStoreAssumption
  DEF FunctionStoreAssumption, TypeOK, StoreTypeOK, PlatformTypeOK, AnalyzerTypeOK
<1>3. Same => Buckets /\ Queue
  BY <1>2 DEF StoreTypeOK, B!TypeOK
<1> USE <1>2
<1>4. /\ "land" \in ScanStages \ {"idle"} /\ "record" \in ScanStages \ {"idle"}
      /\ "copy" \in ScanStages \ {"idle"} /\ "remove" \in ScanStages \ {"idle"}
      /\ "publish" \in ScanStages \ {"idle"} /\ "download" \in ScanStages \ {"idle"}
      /\ \A s \in DOMAIN NextStage : NextStage[s] \in ScanStages \ {"idle"} /\ s # "idle"
      /\ "idle" \notin Analysis
      /\ \A s \in Analysis : EndsWith[s] \subseteq AnalysisVerdicts
  <2>1. \A s \in DOMAIN NextStage : NextStage[s] \in Analysis /\ s # "idle"
    BY DEF Analysis, EndsWith, NextStage
  <2>2. "idle" \notin Analysis /\ "download" \in Analysis
    BY DEF Analysis, EndsWith
  <2>3. \A s \in Analysis : EndsWith[s] \subseteq AnalysisVerdicts
    BY DEF Analysis, EndsWith, AnalysisVerdicts
  <2>4. /\ {"land", "record", "copy", "remove", "publish"} \subseteq ScanStages \ {"idle"}
        /\ \A s \in Analysis : s \in ScanStages
    BY DEF ScanStages
  <2>5. QED
    BY <2>1, <2>2, <2>3, <2>4
<1>5. ASSUME NEW f \in Functions, ReceiveUpload(f)
      PROVE  Shared /\ Buckets /\ Queue /\ Rest /\ AnalyzerTypeOK'
  <2>1. Shared /\ Same /\ Rest
    BY <1>5, SpendType DEF ReceiveUpload, FaultKinds
  <2>2. AnalyzerTypeOK'
    BY <1>5, <1>4 DEF ReceiveUpload, AnalyzerTypeOK, NoScan, AnalysisVerdicts, ScanStages
  <2>3. QED
    BY <1>3, <2>1, <2>2
<1>6. ASSUME Land
      PROVE  Shared /\ Buckets /\ Queue /\ Rest /\ AnalyzerTypeOK'
  <2>1. scan.at = "land" /\ scan.of \in Functions /\ "SCANNING" \in FnStatuses
    BY <1>6 DEF Land, ScanAt, FnStatuses
  <2>2. Shared
    BY <1>6, <2>1, UpdateType DEF Land
  <2>3. Same /\ Rest /\ UNCHANGED <<analyzer, workspace, verdicts>>
    BY <1>6 DEF Land
  <2>4. AnalyzerTypeOK'
    BY <1>6, <1>4, <2>1, <2>3, ScanType DEF Land, Done, AnalyzerTypeOK
  <2>5. QED
    BY <1>3, <2>2, <2>3, <2>4
<1>7. ASSUME PassStage
      PROVE  Shared /\ Buckets /\ Queue /\ Rest /\ AnalyzerTypeOK'
  <2>1. Shared /\ Same /\ Rest /\ UNCHANGED <<analyzer, verdicts>>
    BY <1>7 DEF PassStage
  <2>2. scan.of \in Functions /\ scan.at # "idle"
    BY <1>4, <1>7 DEF PassStage, ScanAt
  <2>3. workspace' \subseteq Functions \X FileKinds
    BY <1>7, <2>2 DEF PassStage, AnalyzerTypeOK, Creates, FileKinds
  <2>4. AnalyzerTypeOK'
    BY <1>7, <1>4, <2>1, <2>2, <2>3, ScanType DEF PassStage, ScanAt, AnalyzerTypeOK
  <2>5. QED
    BY <1>3, <2>1, <2>4
<1>8. ASSUME EndAnalysis
      PROVE  Shared /\ Buckets /\ Queue /\ Rest /\ AnalyzerTypeOK'
  <2>1. Shared /\ Same /\ Rest /\ UNCHANGED analyzer
    BY <1>8 DEF EndAnalysis
  <2>2. scan.of \in Functions /\ scan.at # "idle"
    BY <1>4, <1>8 DEF EndAnalysis, ScanAt
  <2>3. PICK v \in AnalysisVerdicts :
             /\ scan' = [scan EXCEPT !.at = "record", !.verdict = v]
             /\ verdicts' = [verdicts EXCEPT ![scan.of] = @ \cup {v}]
    BY <1>8, <1>4 DEF EndAnalysis, ScanAt
  <2>4. workspace' \subseteq Functions \X FileKinds
    BY <1>8 DEF EndAnalysis, AnalyzerTypeOK
  <2>5. verdicts' \in [Functions -> SUBSET AnalysisVerdicts]
    BY <2>2, <2>3 DEF AnalyzerTypeOK
  <2>6. AnalyzerTypeOK'
    BY <1>4, <2>1, <2>2, <2>3, <2>4, <2>5 DEF AnalyzerTypeOK
  <2>7. QED
    BY <1>3, <2>1, <2>6
<1>9. ASSUME RecordVerdict
      PROVE  Shared /\ Buckets /\ Queue /\ Rest /\ AnalyzerTypeOK'
  <2>1. /\ scan.at = "record" /\ scan.of \in Functions
        /\ StatusOf(scan.verdict) \in FnStatuses
    BY <1>9 DEF RecordVerdict, ScanAt, FnStatuses, StatusOf
  <2>2. Shared
    BY <1>9, <2>1, UpdateType DEF RecordVerdict
  <2>3. Same /\ Rest /\ UNCHANGED <<analyzer, workspace, verdicts>>
    BY <1>9 DEF RecordVerdict
  <2>4. scan' = NoScan \/ GoTo("copy")
    BY <1>9 DEF RecordVerdict, Done
  <2>5. AnalyzerTypeOK'
    BY <1>4, <2>1, <2>3, <2>4, ScanType DEF AnalyzerTypeOK
  <2>6. QED
    BY <1>3, <2>2, <2>3, <2>5
<1>10. ASSUME CopyArchive \/ RemoveArchive
       PROVE  Shared /\ Buckets /\ Queue /\ Rest /\ AnalyzerTypeOK'
  <2>1. scan.at # "idle" /\ scan.of \in Functions
    BY <1>10 DEF CopyArchive, RemoveArchive, ScanAt
  <2>2. Shared /\ Buckets /\ Rest
    BY <1>10, <2>1, SpendType DEF CopyArchive, RemoveArchive, FaultKinds
  <2>3. UNCHANGED <<buildQueueVars, analyzer, workspace, verdicts>>
    BY <1>10 DEF CopyArchive, RemoveArchive
  <2>4. AnalyzerTypeOK'
    BY <1>10, <1>4, <2>1, <2>3, ScanType
    DEF CopyArchive, RemoveArchive, Done, AnalyzerTypeOK
  <2>5. Queue
    BY <2>3 DEF StoreTypeOK, B!TypeOK
  <2>6. QED
    BY <2>2, <2>4, <2>5
<1>11. ASSUME PublishBuild
       PROVE  Shared /\ Buckets /\ Queue /\ Rest /\ AnalyzerTypeOK'
  <2>1. scan.of \in Functions
    BY <1>11 DEF PublishBuild, ScanAt
  <2>2. Shared /\ Buckets /\ Rest
    BY <1>11, SpendType DEF PublishBuild, B!Enqueue, FaultKinds
  <2>3. Queue
    BY <1>11, <2>1 DEF PublishBuild, B!Enqueue, StoreTypeOK, B!TypeOK
  <2>4. AnalyzerTypeOK'
    BY <1>11, ScanType DEF PublishBuild, Done, AnalyzerTypeOK
  <2>5. QED
    BY <2>2, <2>3, <2>4
<1>12. ASSUME SemgrepFails \/ AnalyzerCrash
       PROVE  Shared /\ Buckets /\ Queue /\ Rest /\ AnalyzerTypeOK'
  <2>1. Shared /\ Same /\ Rest
    BY <1>12, SpendType DEF SemgrepFails, AnalyzerCrash, FaultKinds
  <2>2. AnalyzerTypeOK'
    BY <1>12, ScanType DEF SemgrepFails, AnalyzerCrash, AnalyzerDies, Done, AnalyzerTypeOK
  <2>3. QED
    BY <1>3, <2>1, <2>2
<1>13. ASSUME AnalyzerStart
       PROVE  Shared /\ Buckets /\ Queue /\ Rest /\ AnalyzerTypeOK'
  <2>1. Shared /\ Same /\ Rest
    BY <1>13 DEF AnalyzerStart
  <2>2. AnalyzerTypeOK'
    BY <1>13 DEF AnalyzerStart, AnalyzerTypeOK
  <2>3. QED
    BY <1>3, <2>1, <2>2
<1>14. QED
  BY <1>1, <1>5, <1>6, <1>7, <1>8, <1>9, <1>10, <1>11, <1>12, <1>13
  DEF AnalyzerNext, AnalyzerProgress

-----------------------------------------------------------------------------
(* The VM service. *)

(***************************************************************************)
(* The counts of a broker that takes back the deliveries of a dead process *)
(* stay natural numbers, because there are finitely many builders.         *)
(***************************************************************************)
LEMMA TakenBackIsFinite ==
    ASSUME NEW f
    PROVE  B!Cardinality({c \in Builders : owned[c] /\ job[c] = f}) \in Nat
<1>1. IsFiniteSet({c \in Builders : owned[c] /\ job[c] = f})
  BY FunctionStoreAssumption, FS_Subset DEF FunctionStoreAssumption
<1>2. B!Cardinality({c \in Builders : owned[c] /\ job[c] = f})
        = Cardinality({c \in Builders : owned[c] /\ job[c] = f})
  BY DEF B!Cardinality, Cardinality
<1>3. QED
  BY <1>1, <1>2, FS_CardinalityType

\* What a step of the router leaves of the shape of the router.
LEMMA RouterTypeOK ==
    ASSUME B!TypeOK, NEW c \in Builders
    PROVE  /\ B!ReturnNil(c) \/ B!ReturnError(c) \/ B!StatusWritten(c) => B!TypeOK'
           /\ \A f \in Functions : B!Deliver(c, f) => B!TypeOK'
           /\ B!DeadLetterSent(c) => B!TypeOK'
           /\ B!MayRetry(c, vmState = "up") /\ B!TryAgain(c) => B!TypeOK'
           /\ B!Nack(c) => B!TypeOK'
           /\ B!Ack(c) => B!TypeOK'
           /\ B!ConnectionLost(c) => B!TypeOK'
<1> USE FunctionStoreAssumption DEF FunctionStoreAssumption, B!TypeOK, B!Stages, B!Move
<1>1. B!ReturnNil(c) \/ B!ReturnError(c) \/ B!StatusWritten(c) => B!TypeOK'
  BY DEF B!ReturnNil, B!ReturnError, B!StatusWritten
<1>2. \A f \in Functions : B!Deliver(c, f) => B!TypeOK'
  BY DEF B!Deliver
<1>3. B!DeadLetterSent(c) => B!TypeOK'
  BY DEF B!DeadLetterSent
<1>4. B!MayRetry(c, vmState = "up") /\ B!TryAgain(c) => B!TypeOK'
  BY DEF B!MayRetry, B!TryAgain
<1>5. ASSUME B!Released(c), pc' = [pc EXCEPT ![c] = "idle"], queue' \in [Functions -> Nat]
      PROVE  B!TypeOK'
  <2>1. /\ pc' \in [Builders -> B!Stages]
        /\ job' \in [Builders -> Functions \cup {NoFunction}]
        /\ \A d \in Builders : (pc'[d] = "idle") <=> (job'[d] = NoFunction)
    BY <1>5 DEF B!Released
  <2>2. /\ owned' \in [Builders -> BOOLEAN]
        /\ \A d \in Builders : owned'[d] => job'[d] \in Functions
        /\ tries' \in [Builders -> 0 .. MaxRetries]
    BY <1>5 DEF B!Released
  <2>3. QED
    BY <1>5, <2>1, <2>2
<1>6. B!Nack(c) => B!TypeOK'
  <2>1. B!Returned(c) \in Nat
    BY DEF B!Returned
  <2>2. B!Nack(c) => queue' \in [Functions -> Nat]
    BY <2>1 DEF B!Nack
  <2>3. QED
    BY <1>5, <2>2 DEF B!Nack
<1>7. B!Ack(c) => B!TypeOK'
  BY <1>5 DEF B!Ack
<1>8. B!ConnectionLost(c) => B!TypeOK'
  BY DEF B!ConnectionLost
<1>9. QED
  BY <1>1, <1>2, <1>3, <1>4, <1>6, <1>7, <1>8

LEMMA DeathOfBuilders ==
    ASSUME B!TypeOK, B!Die
    PROVE  B!TypeOK'
<1> DEFINE back(f) == B!Cardinality({d \in Builders : owned[d] /\ job[d] = f})
<1>1. queue' = [f \in Functions |-> queue[f] + back(f)]
  BY DEF B!Die
<1>2. \A f \in Functions : back(f) \in Nat
  BY TakenBackIsFinite
<1> HIDE DEF back
<1>3. queue' \in [Functions -> Nat]
  BY <1>1, <1>2 DEF B!TypeOK
<1>4. QED
  BY <1>3, FunctionStoreAssumption DEF FunctionStoreAssumption, B!Die, B!TypeOK, B!Stages

\* What a step of the VM service leaves of the shapes.
LEMMA BuildStepTypeOK ==
    ASSUME TypeOK, BuildNext, UNCHANGED <<intakeVars, analyzerVars>>
    PROVE  TypeOK'
<1> USE DEF platformVars, tableVars, bucketVars, buildVars
<1> DEFINE Shared == /\ PlatformTypeOK'
                     /\ fnStatus' \in [Functions -> FnStatuses]
                     /\ drivePath' \in [Functions -> Nat]
                     /\ drivesBucket' \subseteq Functions \X Nat
                     /\ UNCHANGED <<quarantineBucket, functionsBucket, analyzerQueue>>
           Queue == B!TypeOK'
<1>1. ASSUME Shared, Queue, BuildTypeOK'
      PROVE  TypeOK'
  BY <1>1 DEF TypeOK, StoreTypeOK, IntakeTypeOK, AnalyzerTypeOK, intakeVars, analyzerVars
<1>2. /\ StoreTypeOK /\ PlatformTypeOK /\ BuildTypeOK /\ B!TypeOK
      /\ budget \in [FaultKinds -> Nat]
      /\ fnStatus \in [Functions -> FnStatuses]
      /\ drivePath \in [Functions -> Nat]
      /\ drivesBucket \subseteq Functions \X Nat
      /\ NoFunction \notin Functions
      /\ pc \in [Builders -> B!Stages]
      /\ job \in [Builders -> Functions \cup {NoFunction}]
      /\ \A c \in Builders : pc[c] # "idle" => job[c] \in Functions
  BY FunctionStoreAssumption
  DEF FunctionStoreAssumption, TypeOK, StoreTypeOK, PlatformTypeOK, B!TypeOK
<1>3. /\ {"FAILED", "VERIFIED", "PREPARING_ENVIRONMENT", "READY"} \subseteq FnStatuses
      /\ {"prepare", "save", "finish", "reject", "reset"} \subseteq BuildSteps \ {"claim"}
  BY DEF FnStatuses, BuildSteps
<1> USE <1>2
<1>4. ASSUME UNCHANGED buildQueueVars
      PROVE  B!TypeOK'
  BY <1>4 DEF B!TypeOK, buildQueueVars
<1>5. ASSUME NEW c \in Builders, NEW s, SetFnStatusOrLog(c, s) \/ DbOk \/ DbRefused \/ DbReplyLost,
             UNCHANGED vmState
      PROVE  PlatformTypeOK'
  BY <1>5, StatementType DEF SetFnStatusOrLog, PlatformTypeOK
<1>6. ASSUME NEW c \in Builders, DeliverBuild(c)
      PROVE  Shared /\ Queue /\ BuildTypeOK'
  <2>1. PICK f \in Functions : B!Deliver(c, f)
    BY <1>6 DEF DeliverBuild
  <2>2. Shared
    BY <1>6 DEF DeliverBuild, PlatformTypeOK
  <2>3. QED
    BY <1>6, <2>1, <2>2, RouterTypeOK DEF DeliverBuild, B!Deliver, B!Move, BuildTypeOK
<1>7. ASSUME NEW c \in Builders, ClaimBuild(c)
      PROVE  Shared /\ Queue /\ BuildTypeOK'
  <2>1. job[c] \in Functions /\ pc[c] = "handle" /\ step[c] = "claim"
    BY <1>7 DEF ClaimBuild, BuilderAt
  <2>2. /\ fnStatus' \in [Functions -> FnStatuses]
        /\ UNCHANGED <<vmState, drivePath, bucketVars, analyzerQueue>>
    BY <1>7, <1>3, <2>1 DEF ClaimBuild, SetFnStatus
  <2>3. PlatformTypeOK'
    BY <1>7, <2>2, StatementType DEF ClaimBuild, PlatformTypeOK
  <2>4. Queue
    BY <1>7, <1>4, RouterTypeOK DEF ClaimBuild
  <2>5. BuildTypeOK'
    <3>1. CASE /\ step' = [step EXCEPT ![c] = "prepare"]
               /\ lastName' = [lastName EXCEPT ![job[c]] = @ + 1]
               /\ driveName' = [driveName EXCEPT ![c] = lastName[job[c]] + 1]
               /\ UNCHANGED buildQueueVars
      BY <1>3, <2>1, <3>1 DEF BuildTypeOK, buildQueueVars
    <3>2. CASE UNCHANGED buildVars /\ (B!ReturnNil(c) \/ B!ReturnError(c))
      BY <2>1, <3>2 DEF BuildTypeOK, B!ReturnNil, B!ReturnError, B!Move
    <3>3. QED
      BY <1>7, <3>1, <3>2 DEF ClaimBuild
  <2>6. QED
    BY <2>2, <2>3, <2>4, <2>5
<1>8. ASSUME NEW c \in Builders, PrepareEnvironment(c)
      PROVE  Shared /\ Queue /\ BuildTypeOK'
  <2>1. Shared /\ Queue
    BY <1>8, <1>4 DEF PrepareEnvironment, Proceeds, PlatformTypeOK
  <2>2. BuildTypeOK'
    BY <1>8, <1>3 DEF PrepareEnvironment, Proceeds, BuilderAt, BuildTypeOK, buildQueueVars
  <2>3. QED
    BY <2>1, <2>2
<1>9. ASSUME NEW c \in Builders, SaveDrive(c)
      PROVE  Shared /\ Queue /\ BuildTypeOK'
  <2>1. job[c] \in Functions /\ driveName[c] \in Nat
    BY <1>9 DEF SaveDrive, BuilderAt, BuildTypeOK
  <2>2. Shared /\ Queue
    BY <1>9, <1>4, <2>1, SpendType DEF SaveDrive, Proceeds, PlatformTypeOK, FaultKinds
  <2>3. BuildTypeOK'
    BY <1>9, <1>3 DEF SaveDrive, Proceeds, BuilderAt, BuildTypeOK, buildQueueVars
  <2>4. QED
    BY <2>2, <2>3
<1>10. ASSUME NEW c \in Builders, RejectBuild(c) \/ ResetBuild(c) \/ FinishBuild(c)
       PROVE  Shared /\ Queue /\ BuildTypeOK'
  <2>1. job[c] \in Functions /\ driveName[c] \in Nat
    BY <1>10 DEF RejectBuild, ResetBuild, FinishBuild, BuilderAt, BuildTypeOK
  <2>2. Queue
    BY <1>10, RouterTypeOK DEF RejectBuild, ResetBuild, FinishBuild
  <2>3. /\ UNCHANGED <<vmState, bucketVars, analyzerQueue>>
        /\ LeavesPrepare(c) /\ (B!ReturnNil(c) \/ B!ReturnError(c))
    BY <1>10 DEF RejectBuild, ResetBuild, FinishBuild
  <2>4. PlatformTypeOK'
    BY <1>10, <2>3, StatementType
    DEF RejectBuild, ResetBuild, FinishBuild, SetFnStatusOrLog, PlatformTypeOK
  <2>5. /\ fnStatus' \in [Functions -> FnStatuses]
        /\ drivePath' \in [Functions -> Nat]
    BY <1>10, <1>3, <2>1
    DEF RejectBuild, ResetBuild, FinishBuild, SetFnStatusOrLog, SetFnStatus
  <2>6. BuildTypeOK'
    BY <2>3 DEF LeavesPrepare, BuildTypeOK, BuildSteps, B!ReturnNil, B!ReturnError, B!Move
  <2>7. QED
    BY <2>2, <2>3, <2>4, <2>5, <2>6
<1>11. ASSUME NEW c \in Builders, PoisonBuild(c)
       PROVE  Shared /\ Queue /\ BuildTypeOK'
  <2>1. UNCHANGED <<vmState, drivePath, bucketVars, analyzerQueue, buildVars>>
    BY <1>11 DEF PoisonBuild
  <2>2. PlatformTypeOK' /\ fnStatus' \in [Functions -> FnStatuses]
    BY <1>11, <1>3, <2>1, StatementType
    DEF PoisonBuild, SetFnStatusOrLog, SetFnStatus, PlatformTypeOK
  <2>3. Queue
    BY <1>11, RouterTypeOK DEF PoisonBuild
  <2>4. BuildTypeOK'
    BY <1>11, <2>1 DEF PoisonBuild, B!StatusWritten, B!Move, BuildTypeOK
  <2>5. QED
    BY <2>1, <2>2, <2>3, <2>4
<1>12. ASSUME NEW c \in Builders, DeadLetterBuild(c) \/ AckBuild(c)
       PROVE  Shared /\ Queue /\ BuildTypeOK'
  <2>1. Shared /\ Queue
    BY <1>12, RouterTypeOK DEF DeadLetterBuild, AckBuild, PlatformTypeOK
  <2>2. BuildTypeOK'
    BY <1>12 DEF DeadLetterBuild, AckBuild, B!DeadLetterSent, B!Ack, B!Move, BuildTypeOK
  <2>3. QED
    BY <2>1, <2>2
<1>13. ASSUME NEW c \in Builders, DeadLetterBuildFails(c)
       PROVE  Shared /\ Queue /\ BuildTypeOK'
  <2>1. Shared /\ Queue
    BY <1>13, RouterTypeOK, SpendType DEF DeadLetterBuildFails, PlatformTypeOK, FaultKinds
  <2>2. BuildTypeOK'
    BY <1>13 DEF DeadLetterBuildFails, B!TryAgain, B!Nack, B!Move, BuildTypeOK
  <2>3. QED
    BY <2>1, <2>2
<1>14. ASSUME NEW c \in Builders, BuilderConnectionLost(c)
       PROVE  Shared /\ Queue /\ BuildTypeOK'
  <2>1. Shared /\ Queue
    BY <1>14, RouterTypeOK, SpendType DEF BuilderConnectionLost, PlatformTypeOK, FaultKinds
  <2>2. BuildTypeOK'
    BY <1>14 DEF BuilderConnectionLost, B!ConnectionLost, BuildTypeOK
  <2>3. QED
    BY <2>1, <2>2
<1>15. ASSUME VmSigterm \/ VmExit \/ VmStart
       PROVE  Shared /\ Queue /\ BuildTypeOK'
  <2>1. PlatformTypeOK'
    BY <1>15, SpendType
    DEF VmSigterm, VmExit, VmStart, CancelContext, ProcessExits, ProcessStarts,
        PlatformTypeOK, VmStates, FaultKinds
  <2>2. UNCHANGED <<tableVars, bucketVars, analyzerQueue, buildQueueVars, buildVars>>
    BY <1>15 DEF VmSigterm, VmExit, VmStart
  <2>3. QED
    BY <1>4, <2>1, <2>2 DEF BuildTypeOK, buildQueueVars
<1>16. ASSUME VmCrash
       PROVE  Shared /\ Queue /\ BuildTypeOK'
  <2>1. PlatformTypeOK'
    BY <1>16, SpendType DEF VmCrash, ProcessCrashes, PlatformTypeOK, VmStates, FaultKinds
  <2>2. UNCHANGED <<tableVars, bucketVars, analyzerQueue, lastName>>
    BY <1>16 DEF VmCrash
  <2>3. BuildTypeOK'
    BY <1>16 DEF VmCrash, BuildTypeOK, BuildSteps
  <2>4. Queue
    BY <1>16, DeathOfBuilders DEF VmCrash
  <2>5. QED
    BY <2>1, <2>2, <2>3, <2>4
<1>17. QED
  BY <1>1, <1>6, <1>7, <1>8, <1>9, <1>10, <1>11, <1>12, <1>13, <1>14, <1>15, <1>16
  DEF BuildNext, BuilderStep

-----------------------------------------------------------------------------
(* The client. *)

\* A request of the client that fails costs at most a fault; nobody else sees it.
Unseen == UNCHANGED <<vmState, tableVars, bucketVars, analyzerQueue, buildQueueVars,
                      intakeVars, analyzerVars, buildVars>>

\* A step of client and services is one of the services, or it is unseen.
LEMMA StepOfServices == [CliNext]_cliVars => Next \/ Unseen
<1> SUFFICES ASSUME [CliNext]_cliVars
             PROVE  Next \/ Unseen
  OBVIOUS
<1>1. CASE ServicesMove
  BY <1>1 DEF ServicesMove, Next, IntakeNext
<1>2. ASSUME NEW f \in Functions, Send(f)
      PROVE  Next
  BY <1>2 DEF Send, Next, IntakeNext
<1>3. ASSUME NEW f \in Functions, Answered(f) \/ RequestFails(f) \/ ReadFinal(f)
      PROVE  Unseen
  BY <1>3 DEF Answered, RequestFails, ReadFinal, Unseen, vars, platformVars
<1>4. CASE UNCHANGED cliVars
  BY <1>4 DEF cliVars, vars, Unseen, platformVars
<1>5. QED
  BY <1>1, <1>2, <1>3, <1>4 DEF CliNext

LEMMA StepTypeOK == CliTypeOK /\ [CliNext]_cliVars => CliTypeOK'
<1> SUFFICES ASSUME CliTypeOK, [CliNext]_cliVars
             PROVE  CliTypeOK'
  OBVIOUS
<1>1. TypeOK
  BY DEF CliTypeOK
<1>2. ASSUME Next
      PROVE  TypeOK'
  BY <1>1, <1>2, ServerTypeOK, AnalyzerStepTypeOK, BuildStepTypeOK DEF Next
<1>3. ASSUME Unseen, budget' \in [FaultKinds -> Nat]
      PROVE  TypeOK'
  BY <1>1, <1>3
  DEF Unseen, TypeOK, StoreTypeOK, PlatformTypeOK, IntakeTypeOK, AnalyzerTypeOK, BuildTypeOK,
      B!TypeOK, tableVars, bucketVars, buildQueueVars, intakeVars, analyzerVars, buildVars
<1>4. ASSUME UNCHANGED cliVars
      PROVE  TypeOK'
  <2>1. Unseen /\ UNCHANGED budget
    BY <1>4 DEF cliVars, vars, Unseen, platformVars
  <2>2. QED
    BY <1>1, <1>3, <2>1 DEF TypeOK, StoreTypeOK, PlatformTypeOK
<1>5. ASSUME NEW f \in Functions, Answered(f) \/ RequestFails(f) \/ ReadFinal(f)
      PROVE  TypeOK'
  <2>1. Unseen
    BY <1>5 DEF Answered, RequestFails, ReadFinal, Unseen, vars, platformVars
  <2>2. budget' \in [FaultKinds -> Nat]
    BY <1>1, <1>5, SpendType
    DEF Answered, RequestFails, ReadFinal, vars, platformVars, TypeOK, StoreTypeOK,
        PlatformTypeOK, FaultKinds
  <2>3. QED
    BY <1>3, <2>1, <2>2
<1>6. ASSUME NEW f \in Functions, Send(f)
      PROVE  Next
  BY <1>6 DEF Send, Next, IntakeNext
<1>7. ServicesMove => Next
  BY DEF ServicesMove, Next, IntakeNext
<1>8. TypeOK'
  BY <1>2, <1>4, <1>5, <1>6, <1>7 DEF CliNext
<1>9. client' \in [Functions -> CliStages]
  BY DEF CliTypeOK, CliStages, CliFinal, CliNext, cliVars, ServicesMove, Send, Answered,
     RequestFails, ReadFinal, ClientMoves
<1>10. QED
  BY <1>8, <1>9 DEF CliTypeOK

(***************************************************************************)
(* Tables, buckets, queues, buses, workers and clients keep their shapes:  *)
(* no status the code has no name for, and no bus beyond its capacity      *)
(* (function/model.go, events/bus.go:33-42).                                  *)
(***************************************************************************)
THEOREM PipelineTypeCorrect == CliSpec => []CliTypeOK
BY InitTypeOK, StepTypeOK, PTL DEF CliSpec

-----------------------------------------------------------------------------
(***************************************************************************)
(* The gate.  What is built is SAFE because only a build message can lead  *)
(* to it, and only a SAFE verdict to a message.  Statuses play no part in  *)
(* it: VERIFIED is written for other verdicts too.                         *)
(***************************************************************************)
Cleared(f) ==
    \/ fnStatus[f] \in {"PREPARING_ENVIRONMENT", "READY"}
    \/ drivePath[f] # 0
    \/ f \in functionsBucket
    \/ B!Carried(f)
    \/ scan.of = f /\ scan.at \in {"copy", "remove", "publish"}

GateInv ==
    /\ scan.at = "record" => scan.verdict \in verdicts[scan.of]
    /\ \A f \in Functions : Cleared(f) => "SAFE" \in verdicts[f]

LEMMA InitGate == CliInit => GateInv
BY FunctionStoreAssumption
DEF FunctionStoreAssumption, CliInit, Init, StoreInit, AnalyzerInit, NoScan, GateInv, Cleared,
    B!Init, B!Carried

\* What is in nobody's way leaves the gate as it is.
LEMMA GateKept ==
    ASSUME GateInv, UNCHANGED <<scan, verdicts>>,
           \A f \in Functions : Cleared(f)' => Cleared(f)
    PROVE  GateInv'
BY DEF GateInv

LEMMA GateOfServer == TypeOK /\ GateInv /\ IntakeNext /\ UNCHANGED <<analyzerVars, buildVars>> => GateInv'
<1> SUFFICES ASSUME TypeOK, GateInv, IntakeNext, UNCHANGED <<analyzerVars, buildVars>>
             PROVE  GateInv'
  OBVIOUS
<1> USE DEF tableVars, bucketVars, buildQueueVars
<1>1. fnStatus \in [Functions -> FnStatuses]
  BY DEF TypeOK, StoreTypeOK
<1>2. UNCHANGED <<drivePath, functionsBucket, queue, job, scan, verdicts>>
  BY DEF IntakeNext, IntakeProgress, StoreArchive, CreateFunction, AnnounceUpload, ExtractNext,
     RecordExtraction, AnnounceExtraction, ForwardNext, PublishToAnalyzer, ServerCrash,
     ServerStart, analyzerVars
<1>3. \A f \in Functions : fnStatus'[f] \in {"PREPARING_ENVIRONMENT", "READY"}
                             => fnStatus[f] \in {"PREPARING_ENVIRONMENT", "READY"}
  <2>1. CASE UNCHANGED fnStatus
    BY <2>1
  <2>2. ASSUME NEW f \in Functions, CreateFunction(f)
        PROVE  fnStatus' = fnStatus \/ fnStatus' = [fnStatus EXCEPT ![f] = "QUARANTINED"]
    BY <2>2 DEF CreateFunction, StatusUpdated, StatusUpdateFails, SetFnStatus
  <2>3. ASSUME RecordExtraction
        PROVE  /\ qWorker.status \in {"EXTRACTED", "FAILED"}
               /\ \/ fnStatus' = fnStatus
                  \/ fnStatus' = [fnStatus EXCEPT ![qWorker.of] = qWorker.status]
    BY <2>3 DEF RecordExtraction, StatusUpdated, StatusUpdateFails, SetFnStatus, TypeOK, IntakeTypeOK
  <2>4. \/ UNCHANGED fnStatus \/ RecordExtraction
        \/ \E f \in Functions : CreateFunction(f)
    BY DEF IntakeNext, IntakeProgress, StoreArchive, AnnounceUpload, ExtractNext,
       AnnounceExtraction, ForwardNext, PublishToAnalyzer, ServerCrash, ServerStart
  <2>5. QED
    BY <1>1, <2>1, <2>2, <2>3, <2>4
<1>4. QED
  BY <1>2, <1>3, GateKept DEF Cleared, B!Carried

LEMMA GateOfAnalyzer ==
    TypeOK /\ GateInv /\ AnalyzerNext /\ UNCHANGED <<intakeVars, buildVars>> => GateInv'
<1> SUFFICES ASSUME TypeOK, GateInv, AnalyzerNext
             PROVE  GateInv'
  OBVIOUS
<1> USE DEF tableVars, bucketVars, buildQueueVars, ScanAt
<1>1. /\ fnStatus \in [Functions -> FnStatuses]
      /\ verdicts \in [Functions -> SUBSET AnalysisVerdicts]
      /\ queue \in [Functions -> Nat]
      /\ scan \in [at : ScanStages, of : Functions \cup {NoFunction}, verdict : AnalysisVerdicts]
      /\ scan.at # "idle" => scan.of \in Functions
  BY DEF TypeOK, StoreTypeOK, AnalyzerTypeOK, B!TypeOK
<1>2. /\ {"copy", "remove", "publish", "record"} \cap (Analysis \cup DOMAIN NextStage) = {}
      /\ \A s \in DOMAIN NextStage : NextStage[s] \notin {"copy", "remove", "publish", "record"}
  BY DEF Analysis, EndsWith, NextStage
<1> USE <1>1
<1>3. ASSUME NEW f \in Functions, ReceiveUpload(f)
      PROVE  GateInv'
  BY <1>3 DEF ReceiveUpload, NoScan, GateInv, Cleared, B!Carried
<1>4. ASSUME Land
      PROVE  GateInv'
  <2>1. /\ UNCHANGED <<drivePath, functionsBucket, queue, job, verdicts>>
        /\ scan'.at \notin {"record", "copy", "remove", "publish"}
    BY <1>4 DEF Land, GoTo, Done, NoScan
  <2>2. fnStatus' = fnStatus \/ fnStatus' = [fnStatus EXCEPT ![scan.of] = "SCANNING"]
    BY <1>4 DEF Land, StatusUpdated, StatusUpdateFails, SetFnStatus
  <2>3. QED
    BY <2>1, <2>2 DEF GateInv, Cleared, B!Carried
<1>5. ASSUME PassStage
      PROVE  GateInv'
  <2>1. /\ UNCHANGED <<fnStatus, drivePath, functionsBucket, queue, job, verdicts>>
        /\ scan'.at \notin {"record", "copy", "remove", "publish"}
    BY <1>2, <1>5 DEF PassStage, GoTo
  <2>2. QED
    BY <2>1 DEF GateInv, Cleared, B!Carried
<1>6. ASSUME EndAnalysis
      PROVE  GateInv'
  <2>1. PICK v \in EndsWith[scan.at] :
             /\ scan' = [scan EXCEPT !.at = "record", !.verdict = v]
             /\ verdicts' = [verdicts EXCEPT ![scan.of] = @ \cup {v}]
    BY <1>6 DEF EndAnalysis
  <2>2. UNCHANGED <<fnStatus, drivePath, functionsBucket, queue, job>> /\ scan.of \in Functions
    BY <1>2, <1>6 DEF EndAnalysis, Analysis, EndsWith
  <2>3. \A f \in Functions : verdicts[f] \subseteq verdicts'[f]
    BY <2>1
  <2>4. scan'.verdict \in verdicts'[scan'.of] /\ scan'.at = "record"
    BY <2>1, <2>2
  <2>5. QED
    BY <2>2, <2>3, <2>4 DEF GateInv, Cleared, B!Carried
<1>7. ASSUME RecordVerdict
      PROVE  GateInv'
  <2>1. /\ scan.at = "record" /\ scan.of \in Functions
        /\ UNCHANGED <<drivePath, functionsBucket, queue, job, verdicts>>
        /\ \/ fnStatus' = fnStatus
           \/ fnStatus' = [fnStatus EXCEPT ![scan.of] = StatusOf(scan.verdict)]
        /\ scan' = NoScan \/ (scan.verdict = "SAFE" /\ GoTo("copy"))
    <3>1. scan.at = "record" /\ scan.of \in Functions
      BY <1>7 DEF RecordVerdict
    <3>2. \/ fnStatus' = fnStatus
          \/ fnStatus' = [fnStatus EXCEPT ![scan.of] = StatusOf(scan.verdict)]
      BY <1>7 DEF RecordVerdict, StatusUpdated, StatusUpdateFails, SetFnStatus
    <3>3. scan' = NoScan \/ (scan.verdict = "SAFE" /\ GoTo("copy"))
      BY <1>7 DEF RecordVerdict, Done
    <3>4. UNCHANGED <<drivePath, functionsBucket, queue, job, verdicts>>
      BY <1>7 DEF RecordVerdict
    <3>5. QED
      BY <3>1, <3>2, <3>3, <3>4
  <2>2. StatusOf(scan.verdict) \notin {"PREPARING_ENVIRONMENT", "READY"}
    BY DEF StatusOf
  <2>3. scan.verdict \in verdicts[scan.of]
    BY <2>1 DEF GateInv
  <2>4. scan'.at # "record"
    BY <2>1 DEF NoScan, GoTo
  <2>5. ASSUME NEW f \in Functions, Cleared(f)'
        PROVE  "SAFE" \in verdicts[f]
    <3>1. CASE scan'.of = f /\ scan'.at \in {"copy", "remove", "publish"}
      BY <2>1, <2>3, <3>1 DEF NoScan, GoTo
    <3>2. CASE ~ (scan'.of = f /\ scan'.at \in {"copy", "remove", "publish"})
      BY <2>1, <2>2, <2>5, <3>2 DEF Cleared, B!Carried, GateInv
    <3>3. QED
      BY <3>1, <3>2
  <2>6. QED
    BY <2>1, <2>4, <2>5 DEF GateInv
<1>8. ASSUME CopyArchive \/ RemoveArchive
      PROVE  GateInv'
  <2>1. /\ scan.at \in {"copy", "remove"} /\ scan.of \in Functions
        /\ UNCHANGED <<fnStatus, drivePath, queue, job, verdicts>>
        /\ functionsBucket' \subseteq functionsBucket \cup {scan.of}
        /\ scan' = NoScan \/ GoTo("remove") \/ GoTo("publish")
    BY <1>8 DEF CopyArchive, RemoveArchive, Done
  <2>2. "SAFE" \in verdicts[scan.of]
    BY <2>1 DEF GateInv, Cleared
  <2>3. scan' = NoScan \/ (scan'.of = scan.of /\ scan'.at # "record")
    BY <2>1 DEF GoTo
  <2>4. QED
    BY <2>1, <2>2, <2>3 DEF NoScan, GateInv, Cleared, B!Carried
<1>9. ASSUME PublishBuild
      PROVE  GateInv'
  <2>1. /\ scan.at = "publish" /\ scan.of \in Functions
        /\ UNCHANGED <<fnStatus, drivePath, functionsBucket, job, verdicts>>
        /\ queue' = queue \/ queue' = [queue EXCEPT ![scan.of] = @ + 1]
        /\ scan' = NoScan
    BY <1>9 DEF PublishBuild, B!Enqueue, Done
  <2>2. "SAFE" \in verdicts[scan.of]
    BY <2>1 DEF GateInv, Cleared
  <2>3. QED
    BY <2>1, <2>2 DEF NoScan, GateInv, Cleared, B!Carried
<1>10. ASSUME SemgrepFails \/ AnalyzerCrash \/ AnalyzerStart
       PROVE  GateInv'
  <2>1. /\ UNCHANGED <<fnStatus, drivePath, functionsBucket, queue, job, verdicts>>
        /\ scan' = NoScan \/ scan' = scan
    BY <1>10 DEF SemgrepFails, AnalyzerCrash, AnalyzerStart, AnalyzerDies, Done
  <2>2. QED
    BY <2>1 DEF NoScan, GateInv, Cleared, B!Carried
<1>11. QED
  BY <1>3, <1>4, <1>5, <1>6, <1>7, <1>8, <1>9, <1>10 DEF AnalyzerNext, AnalyzerProgress

\* What a step of a consumer does to the build queue.
LEMMA RouterCarries ==
    ASSUME TypeOK, BuildNext
    PROVE  \A f \in Functions : B!Carried(f)' => B!Carried(f)
<1> USE DEF buildQueueVars
<1>1. /\ queue \in [Functions -> Nat]
      /\ pc \in [Builders -> B!Stages]
      /\ job \in [Builders -> Functions \cup {NoFunction}]
      /\ \A c \in Builders : (pc[c] = "idle") <=> (job[c] = NoFunction)
      /\ \A c \in Builders : owned[c] => job[c] \in Functions
      /\ NoFunction \notin Functions
  BY FunctionStoreAssumption DEF FunctionStoreAssumption, TypeOK, StoreTypeOK, B!TypeOK
<1>2. ASSUME UNCHANGED <<queue, job>>
      PROVE  \A f \in Functions : B!Carried(f)' => B!Carried(f)
  BY <1>2 DEF B!Carried
<1>3. ASSUME NEW c \in Builders, NEW f \in Functions, B!Deliver(c, f)
      PROVE  \A g \in Functions : B!Carried(g)' => B!Carried(g)
  BY <1>1, <1>3 DEF B!Deliver, B!Carried
<1>4. ASSUME NEW c \in Builders, B!Nack(c) \/ B!Ack(c) \/ B!ConnectionLost(c)
      PROVE  \A g \in Functions : B!Carried(g)' => B!Carried(g)
  <2>1. \/ queue' = queue
        \/ queue' = [queue EXCEPT ![job[c]] = @ + 1]
        \/ queue' = [queue EXCEPT ![job[c]] = @ + 0]
    BY <1>4 DEF B!Nack, B!Ack, B!ConnectionLost, B!Returned
  <2>2. job' = job \/ job' = [job EXCEPT ![c] = NoFunction]
    BY <1>4 DEF B!Nack, B!Ack, B!ConnectionLost, B!Released
  <2>3. QED
    BY <1>1, <2>1, <2>2 DEF B!Carried
<1>5. ASSUME B!Die
      PROVE  \A f \in Functions : B!Carried(f)' => B!Carried(f)
  <2> DEFINE back(f) == {c \in Builders : owned[c] /\ job[c] = f}
  <2>1. ASSUME NEW f \in Functions, \A c \in Builders : job[c] # f
        PROVE  B!Cardinality(back(f)) = 0
    <3>1. back(f) = {}
      BY <2>1
    <3>2. B!Cardinality(back(f)) = Cardinality(back(f))
      BY DEF B!Cardinality, Cardinality
    <3>3. QED
      BY <3>1, <3>2, FS_EmptySet
  <2>2. /\ queue' = [f \in Functions |-> queue[f] + B!Cardinality(back(f))]
        /\ \A c \in Builders : job'[c] = NoFunction
    BY <1>5 DEF B!Die
  <2> HIDE DEF back
  <2>3. QED
    BY <1>1, <2>1, <2>2 DEF B!Carried
<1>6. CASE VmSigterm \/ VmExit \/ VmCrash \/ VmStart
  BY <1>2, <1>5, <1>6 DEF VmSigterm, VmExit, VmCrash, VmStart
<1>7. ASSUME NEW c \in Builders, DeliverBuild(c) \/ BuilderConnectionLost(c)
      PROVE  \A f \in Functions : B!Carried(f)' => B!Carried(f)
  BY <1>3, <1>4, <1>7 DEF DeliverBuild, BuilderConnectionLost
<1>8. ASSUME NEW c \in Builders, BuilderStep(c)
      PROVE  \A f \in Functions : B!Carried(f)' => B!Carried(f)
  <2>1. UNCHANGED <<queue, job>> \/ B!Nack(c) \/ B!Ack(c)
    BY <1>8
    DEF BuilderStep, ClaimBuild, PrepareEnvironment, SaveDrive, RejectBuild, ResetBuild,
        FinishBuild, PoisonBuild, DeadLetterBuild, DeadLetterBuildFails, AckBuild, Proceeds,
        B!ReturnNil, B!ReturnError, B!StatusWritten, B!DeadLetterSent, B!TryAgain
  <2>2. QED
    BY <1>2, <1>4, <2>1
<1>9. QED
  BY <1>6, <1>7, <1>8 DEF BuildNext

\* Who builds has a message.
LEMMA GateOfBuilders ==
    TypeOK /\ GateInv /\ BuildNext /\ UNCHANGED <<intakeVars, analyzerVars>> => GateInv'
<1> SUFFICES ASSUME TypeOK, GateInv, BuildNext, UNCHANGED <<intakeVars, analyzerVars>>
             PROVE  GateInv'
  OBVIOUS
<1> USE DEF tableVars, bucketVars, buildQueueVars
<1>1. /\ fnStatus \in [Functions -> FnStatuses]
      /\ drivePath \in [Functions -> Nat]
      /\ \A c \in Builders : pc[c] # "idle" => job[c] \in Functions
  BY FunctionStoreAssumption DEF FunctionStoreAssumption, TypeOK, StoreTypeOK, B!TypeOK
<1>2. UNCHANGED <<functionsBucket, scan, verdicts>>
  <2>1. UNCHANGED functionsBucket
    BY DEF BuildNext, BuilderStep, DeliverBuild, ClaimBuild, PrepareEnvironment, SaveDrive,
       RejectBuild, ResetBuild, FinishBuild, PoisonBuild, DeadLetterBuild,
       DeadLetterBuildFails, AckBuild, BuilderConnectionLost, VmSigterm, VmExit, VmCrash, VmStart
  <2>2. QED
    BY <2>1 DEF analyzerVars
<1>3. ASSUME NEW f \in Functions,
             \/ fnStatus'[f] \in {"PREPARING_ENVIRONMENT", "READY"} /\ fnStatus'[f] # fnStatus[f]
             \/ drivePath'[f] # drivePath[f]
      PROVE  B!Carried(f)
  <2>1. PICK c \in Builders : ClaimBuild(c) \/ FinishBuild(c)
    <3>1. ASSUME NEW c \in Builders, RejectBuild(c) \/ ResetBuild(c) \/ PoisonBuild(c)
          PROVE  FALSE
      <4>1. UNCHANGED drivePath
        BY <3>1 DEF RejectBuild, ResetBuild, PoisonBuild
      <4>2. PICK s \in {"FAILED", "VERIFIED"} :
                 fnStatus' = fnStatus \/ fnStatus' = [fnStatus EXCEPT ![job[c]] = s]
        BY <3>1 DEF RejectBuild, ResetBuild, PoisonBuild, SetFnStatusOrLog, SetFnStatus
      <4>3. QED
        BY <1>1, <1>3, <4>1, <4>2
    <3>2. ASSUME UNCHANGED tableVars
          PROVE  FALSE
      BY <1>3, <3>2
    <3>3. QED
      BY <3>1, <3>2
      DEF BuildNext, BuilderStep, DeliverBuild, PrepareEnvironment, SaveDrive, DeadLetterBuild,
          DeadLetterBuildFails, AckBuild, BuilderConnectionLost, VmSigterm, VmExit, VmCrash, VmStart
  <2>2. /\ \/ fnStatus' = fnStatus
           \/ \E s : fnStatus' = [fnStatus EXCEPT ![job[c]] = s]
        /\ \/ drivePath' = drivePath
           \/ \E n : drivePath' = [drivePath EXCEPT ![job[c]] = n]
    BY <2>1 DEF ClaimBuild, FinishBuild, SetFnStatus
  <2>3. f = job[c]
    BY <1>1, <1>3, <2>2
  <2>4. QED
    BY <2>3 DEF B!Carried
<1>4. ASSUME NEW f \in Functions, Cleared(f)'
      PROVE  Cleared(f)
  BY <1>2, <1>3, <1>4, RouterCarries DEF Cleared
<1>5. QED
  BY <1>2, <1>4, GateKept

(***************************************************************************)
(* No interleaving and no fault opens the gate: only what an analysis has  *)
(* called SAFE is moved, prepared or given a drive (listener.go:99-117,    *)
(* prepare.go:24-50).                                                      *)
(***************************************************************************)
THEOREM OnlyClearedIsBuilt == CliSpec => []OnlySafeIsBuilt
<1>1. CliTypeOK /\ GateInv /\ [CliNext]_cliVars => GateInv'
  <2> SUFFICES ASSUME CliTypeOK, GateInv, [CliNext]_cliVars
               PROVE  GateInv'
    OBVIOUS
  <2>1. CASE Next
    BY <2>1, GateOfServer, GateOfAnalyzer, GateOfBuilders DEF Next, CliTypeOK
  <2>2. CASE Unseen
    <3>1. UNCHANGED <<fnStatus, drivePath, functionsBucket, queue, job, scan, verdicts>>
      BY <2>2 DEF Unseen, tableVars, bucketVars, buildQueueVars, analyzerVars
    <3>2. QED
      BY <3>1 DEF GateInv, Cleared, B!Carried
  <2>3. QED
    BY <2>1, <2>2, StepOfServices
<1>2. GateInv => OnlySafeIsBuilt
  BY DEF GateInv, Cleared, OnlySafeIsBuilt
<1>3. QED
  BY <1>1, <1>2, InitGate, PipelineTypeCorrect, PTL DEF CliSpec

-----------------------------------------------------------------------------
(***************************************************************************)
(* The drives.  A drive is in the bucket before its builder goes on to the *)
(* UPDATE that names it, and nothing is ever removed from that bucket or   *)
(* taken back from the column.                                             *)
(***************************************************************************)
DriveInv ==
    /\ DriveIsStored
    /\ \A c \in Builders : step[c] = "finish" => <<job[c], driveName[c]>> \in drivesBucket

\* What has nothing to do with drives leaves them alone.
LEMMA DrivesKept ==
    ASSUME DriveInv, UNCHANGED drivePath, drivesBucket \subseteq drivesBucket',
           \A f \in Functions : fnStatus'[f] = "READY" => fnStatus[f] = "READY",
           \A c \in Builders : step'[c] = "finish" =>
               step[c] = "finish" /\ job'[c] = job[c] /\ driveName'[c] = driveName[c]
    PROVE  DriveInv'
BY DEF DriveInv, DriveIsStored

\* Only a builder makes a function READY.
LEMMA ReadyIsOfBuilders ==
    ASSUME TypeOK, IntakeNext \/ AnalyzerNext
    PROVE  /\ \A f \in Functions : fnStatus'[f] = "READY" => fnStatus[f] = "READY"
           /\ UNCHANGED <<drivePath, drivesBucket, job>>
<1> USE DEF tableVars, bucketVars, buildQueueVars
<1>1. fnStatus \in [Functions -> FnStatuses]
  BY DEF TypeOK, StoreTypeOK
<1>2. CASE IntakeNext
  <2>1. UNCHANGED <<drivePath, drivesBucket, job>>
    BY <1>2 DEF IntakeNext, IntakeProgress, StoreArchive, CreateFunction, AnnounceUpload,
       ExtractNext, RecordExtraction, AnnounceExtraction, ForwardNext, PublishToAnalyzer,
       ServerCrash, ServerStart
  <2>2. UNCHANGED fnStatus \/ RecordExtraction \/ \E f \in Functions : CreateFunction(f)
    BY <1>2 DEF IntakeNext, IntakeProgress, StoreArchive, AnnounceUpload, ExtractNext,
       AnnounceExtraction, ForwardNext, PublishToAnalyzer, ServerCrash, ServerStart
  <2>3. \/ fnStatus' = fnStatus
        \/ \E f, s \in Functions \cup {NoFunction, "QUARANTINED", "EXTRACTED", "FAILED"} :
             s # "READY" /\ fnStatus' = [fnStatus EXCEPT ![f] = s]
    <3>1. ASSUME NEW f \in Functions, CreateFunction(f)
          PROVE  fnStatus' = fnStatus \/ fnStatus' = [fnStatus EXCEPT ![f] = "QUARANTINED"]
      BY <3>1 DEF CreateFunction, StatusUpdated, StatusUpdateFails, SetFnStatus
    <3>2. ASSUME RecordExtraction
          PROVE  /\ qWorker.status \in {"EXTRACTED", "FAILED"}
                 /\ qWorker.of \in Functions \cup {NoFunction}
                 /\ \/ fnStatus' = fnStatus
                    \/ fnStatus' = [fnStatus EXCEPT ![qWorker.of] = qWorker.status]
      BY <3>2 DEF RecordExtraction, StatusUpdated, StatusUpdateFails, SetFnStatus, TypeOK,
         IntakeTypeOK
    <3>3. QED
      BY <2>2, <3>1, <3>2
  <2>4. QED
    BY <1>1, <2>1, <2>3
<1>3. CASE AnalyzerNext
  <2>1. UNCHANGED <<drivePath, drivesBucket, job>>
    BY <1>3 DEF AnalyzerNext, AnalyzerProgress, ReceiveUpload, Land, PassStage, EndAnalysis,
       RecordVerdict, CopyArchive, RemoveArchive, PublishBuild, SemgrepFails, AnalyzerCrash,
       AnalyzerStart, B!Enqueue
  <2>2. UNCHANGED fnStatus \/ Land \/ RecordVerdict
    BY <1>3 DEF AnalyzerNext, AnalyzerProgress, ReceiveUpload, PassStage, EndAnalysis,
       CopyArchive, RemoveArchive, PublishBuild, SemgrepFails, AnalyzerCrash, AnalyzerStart
  <2>3. \/ fnStatus' = fnStatus
        \/ \E s \in {"SCANNING", "VERIFIED", "DETECTED"} :
             fnStatus' = [fnStatus EXCEPT ![scan.of] = s]
    BY <2>2 DEF Land, RecordVerdict, StatusOf, StatusUpdated, StatusUpdateFails, SetFnStatus
  <2>4. QED
    BY <1>1, <2>1, <2>3
<1>4. QED
  BY <1>2, <1>3

LEMMA DriveStep == TypeOK /\ DriveInv /\ Next => DriveInv'
<1> SUFFICES ASSUME TypeOK, DriveInv, Next
             PROVE  DriveInv'
  OBVIOUS
<1> USE DEF tableVars, bucketVars, buildVars, buildQueueVars
<1>1. /\ fnStatus \in [Functions -> FnStatuses]
      /\ drivePath \in [Functions -> Nat]
      /\ step \in [Builders -> BuildSteps]
      /\ driveName \in [Builders -> Nat]
      /\ job \in [Builders -> Functions \cup {NoFunction}]
      /\ \A c \in Builders : pc[c] # "idle" => job[c] \in Functions
      /\ \A c \in Builders : pc[c] # "handle" => step[c] = "claim"
      /\ \A c \in Builders : step[c] = "claim" <=> driveName[c] = 0
  BY FunctionStoreAssumption
  DEF FunctionStoreAssumption, TypeOK, StoreTypeOK, BuildTypeOK, B!TypeOK
<1>2. CASE \/ IntakeNext /\ UNCHANGED <<analyzerVars, buildVars>>
           \/ AnalyzerNext /\ UNCHANGED <<intakeVars, buildVars>>
  BY <1>2, ReadyIsOfBuilders, DrivesKept
<1>3. ASSUME NEW c \in Builders, NEW f \in Functions, B!Deliver(c, f), UNCHANGED buildVars,
             UNCHANGED <<tableVars, bucketVars>>
      PROVE  DriveInv'
  <2>1. step[c] = "claim" /\ job' = [job EXCEPT ![c] = f]
    BY <1>1, <1>3 DEF B!Deliver, B!Move
  <2>2. QED
    BY <1>1, <1>3, <2>1, DrivesKept
<1>4. ASSUME NEW c \in Builders, ClaimBuild(c)
      PROVE  DriveInv'
  <2>1. UNCHANGED <<drivePath, drivesBucket, job>>
    BY <1>4 DEF ClaimBuild, B!ReturnNil, B!ReturnError
  <2>2. /\ \/ fnStatus' = fnStatus
           \/ fnStatus' = [fnStatus EXCEPT ![job[c]] = "PREPARING_ENVIRONMENT"]
        /\ \/ UNCHANGED <<step, driveName>>
           \/ /\ step' = [step EXCEPT ![c] = "prepare"]
              /\ driveName' = [driveName EXCEPT ![c] = lastName[job[c]] + 1]
    BY <1>4 DEF ClaimBuild, SetFnStatus
  <2>3. QED
    BY <1>1, <2>1, <2>2, DrivesKept
<1>5. ASSUME NEW c \in Builders, PrepareEnvironment(c)
      PROVE  DriveInv'
  <2>1. UNCHANGED <<tableVars, drivesBucket, driveName, job>>
    BY <1>5 DEF PrepareEnvironment, Proceeds
  <2>2. \E s \in {"save", "reject", "reset"} : step' = [step EXCEPT ![c] = s]
    BY <1>5 DEF PrepareEnvironment, Proceeds
  <2>3. QED
    BY <1>1, <2>1, <2>2, DrivesKept
<1>6. ASSUME NEW c \in Builders, SaveDrive(c)
      PROVE  DriveInv'
  <2>1. UNCHANGED <<tableVars, driveName, job>> /\ drivesBucket \subseteq drivesBucket'
    BY <1>6 DEF SaveDrive, Proceeds
  <2>2. CASE step' = [step EXCEPT ![c] = "reset"]
    BY <1>1, <2>1, <2>2, DrivesKept
  <2>3. CASE /\ step' = [step EXCEPT ![c] = "finish"]
             /\ <<job[c], driveName[c]>> \in drivesBucket'
    BY <1>1, <2>1, <2>3 DEF DriveInv, DriveIsStored
  <2>4. QED
    BY <1>6, <2>2, <2>3 DEF SaveDrive, Proceeds
<1>7. ASSUME NEW c \in Builders, RejectBuild(c) \/ ResetBuild(c)
      PROVE  DriveInv'
  <2>1. UNCHANGED <<drivePath, drivesBucket, job>>
    BY <1>7 DEF RejectBuild, ResetBuild, B!ReturnNil, B!ReturnError
  <2>2. /\ step' = [step EXCEPT ![c] = "claim"]
        /\ driveName' = [driveName EXCEPT ![c] = 0]
        /\ \/ fnStatus' = fnStatus
           \/ \E s \in {"FAILED", "VERIFIED"} : fnStatus' = [fnStatus EXCEPT ![job[c]] = s]
    BY <1>7 DEF RejectBuild, ResetBuild, LeavesPrepare, SetFnStatusOrLog, SetFnStatus
  <2>3. QED
    BY <1>1, <2>1, <2>2, DrivesKept
<1>8. ASSUME NEW c \in Builders, FinishBuild(c)
      PROVE  DriveInv'
  <2>1. /\ step[c] = "finish" /\ job[c] \in Functions
        /\ driveName[c] \in Nat /\ driveName[c] # 0
        /\ <<job[c], driveName[c]>> \in drivesBucket
        /\ UNCHANGED <<drivesBucket, job>>
    BY <1>1, <1>8 DEF FinishBuild, BuilderAt, DriveInv, B!ReturnNil, B!ReturnError
  <2>2. /\ step' = [step EXCEPT ![c] = "claim"]
        /\ driveName' = [driveName EXCEPT ![c] = 0]
    BY <1>8 DEF FinishBuild, LeavesPrepare
  <2>3. CASE UNCHANGED tableVars
    BY <1>1, <2>1, <2>2, <2>3, DrivesKept
  <2>4. CASE /\ fnStatus' = [fnStatus EXCEPT ![job[c]] = "READY"]
             /\ drivePath' = [drivePath EXCEPT ![job[c]] = driveName[c]]
    BY <1>1, <2>1, <2>2, <2>4 DEF DriveInv, DriveIsStored
  <2>5. QED
    BY <1>8, <2>3, <2>4 DEF FinishBuild, SetFnStatus
<1>9. ASSUME NEW c \in Builders,
             \/ PoisonBuild(c) \/ DeadLetterBuild(c) \/ DeadLetterBuildFails(c)
             \/ AckBuild(c) \/ BuilderConnectionLost(c)
      PROVE  DriveInv'
  <2>1. UNCHANGED <<drivePath, drivesBucket, step, driveName>>
    BY <1>9 DEF PoisonBuild, DeadLetterBuild, DeadLetterBuildFails, AckBuild, BuilderConnectionLost
  <2>2. fnStatus' = fnStatus \/ fnStatus' = [fnStatus EXCEPT ![job[c]] = "FAILED"]
    BY <1>9 DEF PoisonBuild, DeadLetterBuild, DeadLetterBuildFails, AckBuild,
       BuilderConnectionLost, SetFnStatusOrLog, SetFnStatus
  <2>3. \/ job' = job
        \/ job' = [job EXCEPT ![c] = NoFunction] /\ step[c] = "claim"
    BY <1>1, <1>9
    DEF PoisonBuild, DeadLetterBuild, DeadLetterBuildFails, AckBuild, BuilderConnectionLost,
        B!StatusWritten, B!DeadLetterSent, B!TryAgain, B!Nack, B!Ack, B!Released,
        B!ConnectionLost, B!Move
  <2>4. QED
    BY <1>1, <2>1, <2>2, <2>3, DrivesKept
<1>10. CASE VmSigterm \/ VmExit \/ VmStart
  BY <1>10, DrivesKept DEF VmSigterm, VmExit, VmStart
<1>11. CASE VmCrash
  BY <1>11, DrivesKept DEF VmCrash
<1>12. QED
  BY <1>2, <1>3, <1>4, <1>5, <1>6, <1>7, <1>8, <1>9, <1>10, <1>11
  DEF Next, BuildNext, BuilderStep, DeliverBuild

\* A drive is named for good.
LEMMA PathsStay == TypeOK /\ Next => \A f \in Functions : drivePath[f] # 0 => drivePath'[f] # 0
<1> SUFFICES ASSUME TypeOK, Next
             PROVE  \A f \in Functions : drivePath[f] # 0 => drivePath'[f] # 0
  OBVIOUS
<1> USE DEF tableVars
<1>1. CASE IntakeNext \/ AnalyzerNext
  BY <1>1, ReadyIsOfBuilders
<1>2. CASE BuildNext
  <2>1. ASSUME NEW c \in Builders, FinishBuild(c)
        PROVE  \A f \in Functions : drivePath[f] # 0 => drivePath'[f] # 0
    <3>1. step[c] = "finish"
      BY <2>1 DEF FinishBuild, BuilderAt
    <3>2. driveName[c] # 0 /\ drivePath \in [Functions -> Nat]
      BY <3>1 DEF TypeOK, StoreTypeOK, BuildTypeOK
    <3>3. drivePath' = drivePath \/ drivePath' = [drivePath EXCEPT ![job[c]] = driveName[c]]
      BY <2>1 DEF FinishBuild
    <3>4. QED
      BY <3>2, <3>3
  <2>2. UNCHANGED drivePath \/ \E c \in Builders : FinishBuild(c)
    BY <1>2 DEF BuildNext, BuilderStep, DeliverBuild, ClaimBuild, PrepareEnvironment, SaveDrive,
       RejectBuild, ResetBuild, PoisonBuild, DeadLetterBuild, DeadLetterBuildFails, AckBuild,
       BuilderConnectionLost, VmSigterm, VmExit, VmCrash, VmStart
  <2>3. QED
    BY <2>1, <2>2
<1>3. QED
  BY <1>1, <1>2 DEF Next

(***************************************************************************)
(* The row never names a drive that is not stored, and whoever has been    *)
(* told READY finds a drive named from then on (prepare.go:50,             *)
(* vm/prepare.go:96, pollstatus.go:121).                                   *)
(***************************************************************************)
THEOREM ToldReadyIsInvokable == CliSpec => []ReadyIsInvokable
<1> DEFINE Told == \A f \in Functions : client[f] = "READY" => drivePath[f] # 0
<1>1. CliInit => DriveInv /\ Told
  BY DEF CliInit, Init, StoreInit, BuildInit, DriveInv, DriveIsStored
<1>2. CliTypeOK /\ DriveInv /\ Told /\ [CliNext]_cliVars => DriveInv' /\ Told'
  <2> SUFFICES ASSUME CliTypeOK, DriveInv, Told, [CliNext]_cliVars
               PROVE  DriveInv' /\ Told'
    OBVIOUS
  <2>1. TypeOK /\ client \in [Functions -> CliStages]
    BY DEF CliTypeOK
  <2>2. DriveInv' /\ \A f \in Functions : drivePath[f] # 0 => drivePath'[f] # 0
    <3>1. CASE Next
      BY <2>1, <3>1, DriveStep, PathsStay
    <3>2. CASE Unseen
      BY <3>2, DrivesKept DEF Unseen, tableVars, bucketVars, buildVars, buildQueueVars
    <3>3. QED
      BY <3>1, <3>2, StepOfServices
  <2>3. ASSUME NEW f \in Functions, client'[f] = "READY", client[f] # "READY"
        PROVE  drivePath'[f] # 0
    <3>1. PICK g \in Functions : Send(g) \/ Answered(g) \/ RequestFails(g) \/ ReadFinal(g)
      BY <2>3 DEF CliNext, ServicesMove, cliVars
    <3>2. /\ ReadFinal(g)
          /\ client' = [client EXCEPT ![g] = fnStatus[g]]
      BY <2>1, <2>3, <3>1 DEF Send, Answered, RequestFails, ReadFinal, ClientMoves
    <3>3. fnStatus[f] = "READY"
      BY <2>1, <2>3, <3>2
    <3>4. QED
      BY <2>2, <3>3 DEF DriveInv, DriveIsStored
  <2>4. QED
    BY <2>2, <2>3
<1>3. DriveInv /\ Told => ReadyIsInvokable
  BY DEF DriveInv, ReadyIsInvokable
<1>4. QED
  BY <1>1, <1>2, <1>3, PipelineTypeCorrect, PTL DEF CliSpec

-----------------------------------------------------------------------------
(***************************************************************************)
(* The archives.  ArchiveIsSomewhere speaks of rows; it is inductive for   *)
(* whatever can still lead to an UPDATE of a row: requests, events,        *)
(* messages and the hands they are in.                                     *)
(***************************************************************************)
Mentioned(f) ==
    \/ fnStatus[f] # "NOROW"
    \/ upload[f] \in {"stored", "created"}
    \/ InSequence(quarantineBus, f) \/ qWorker.of = f
    \/ InSequence(extractionBus, f) \/ xWorker = f
    \/ analyzerQueue[f] > 0 \/ scan.of = f
    \/ B!Carried(f)

ArchiveInv ==
    /\ \A f \in Functions : Mentioned(f) => f \in quarantineBucket \cup functionsBucket
    /\ scan.at = "remove" => scan.of \in functionsBucket

\* Nobody comes into a step but those of whom there was talk before.
LEMMA ArchivesKept ==
    ASSUME ArchiveInv,
           quarantineBucket \cup functionsBucket \subseteq quarantineBucket' \cup functionsBucket',
           functionsBucket \subseteq functionsBucket',
           scan'.at = "remove" => scan.at = "remove" /\ scan'.of = scan.of,
           \A f \in Functions : Mentioned(f)' => Mentioned(f)
    PROVE  ArchiveInv'
BY DEF ArchiveInv

\* What Publish and the workers do to what is on a bus.
LEMMA BusKeeps ==
    ASSUME NEW bus \in Seq(Functions), NEW f \in Functions, NEW g \in Functions
    PROVE  /\ InSequence(Announced(bus, f), g) => InSequence(bus, g) \/ g = f
           /\ bus # << >> => /\ InSequence(bus, Head(bus))
                             /\ InSequence(Tail(bus), g) => InSequence(bus, g)
BY DEF InSequence, Announced

LEMMA ArchiveOfServer ==
    TypeOK /\ ArchiveInv /\ IntakeNext /\ UNCHANGED <<analyzerVars, buildVars>> => ArchiveInv'
<1> SUFFICES ASSUME TypeOK, ArchiveInv, IntakeNext, UNCHANGED <<analyzerVars, buildVars>>
             PROVE  ArchiveInv'
  OBVIOUS
<1> USE DEF tableVars, bucketVars, buildQueueVars
<1>1. /\ fnStatus \in [Functions -> FnStatuses]
      /\ analyzerQueue \in [Functions -> Nat]
      /\ upload \in [Functions -> UploadStages]
      /\ quarantineBus \in Seq(Functions) /\ extractionBus \in Seq(Functions)
      /\ qWorker.at \in {"update", "announce"} <=> qWorker.of # NoFunction
      /\ qWorker \in [at : WorkerStages, of : Functions \cup {NoFunction},
                      status : {"EXTRACTED", "FAILED"}]
      /\ xWorker \in Functions \cup {NoFunction}
      /\ NoFunction \notin Functions
      /\ UNCHANGED scan
  BY FunctionStoreAssumption
  DEF FunctionStoreAssumption, TypeOK, StoreTypeOK, IntakeTypeOK, analyzerVars
<1> USE <1>1
<1>2. ASSUME NEW f \in Functions, StoreArchive(f)
      PROVE  ArchiveInv'
  <2>1. /\ UNCHANGED <<fnStatus, functionsBucket, analyzerQueue, queue, job,
                       quarantineBus, extractionBus, qWorker, xWorker>>
        /\ \/ /\ upload' = [upload EXCEPT ![f] = "stored"]
              /\ quarantineBucket' = quarantineBucket \cup {f}
           \/ /\ upload' = [upload EXCEPT ![f] = "error"]
              /\ quarantineBucket \subseteq quarantineBucket'
    BY <1>2 DEF StoreArchive, UploadMoves
  <2>2. \A g \in Functions : Mentioned(g)' => Mentioned(g) \/ (g = f /\ f \in quarantineBucket')
    BY <2>1 DEF Mentioned, B!Carried, InSequence
  <2>3. QED
    BY <2>1, <2>2 DEF ArchiveInv
<1>3. ASSUME NEW f \in Functions, CreateFunction(f)
      PROVE  ArchiveInv'
  <2>1. /\ UNCHANGED <<bucketVars, analyzerQueue, queue, job,
                       quarantineBus, extractionBus, qWorker, xWorker>>
        /\ upload[f] = "stored"
        /\ \E s \in {"created", "error"} : upload' = [upload EXCEPT ![f] = s]
    BY <1>3 DEF CreateFunction, UploadMoves
  <2>2. fnStatus' = fnStatus \/ fnStatus' = [fnStatus EXCEPT ![f] = "QUARANTINED"]
    BY <1>3 DEF CreateFunction, StatusUpdated, StatusUpdateFails, SetFnStatus
  <2>3. \A g \in Functions : Mentioned(g)' => Mentioned(g)
    BY <2>1, <2>2 DEF Mentioned, B!Carried, InSequence
  <2>4. QED
    BY <2>1, <2>3, ArchivesKept
<1>4. ASSUME NEW f \in Functions, AnnounceUpload(f)
      PROVE  ArchiveInv'
  <2>1. /\ UNCHANGED <<fnStatus, bucketVars, analyzerQueue, queue, job,
                       extractionBus, qWorker, xWorker>>
        /\ upload[f] = "created"
        /\ upload' = [upload EXCEPT ![f] = "ok"]
        /\ quarantineBus' = Announced(quarantineBus, f)
    BY <1>4 DEF AnnounceUpload, UploadMoves
  <2>2. \A g \in Functions : InSequence(quarantineBus', g) => InSequence(quarantineBus, g) \/ g = f
    BY <2>1, BusKeeps
  <2>3. \A g \in Functions : Mentioned(g)' => Mentioned(g)
    <3>1. \A g \in Functions : InSequence(quarantineBus, g)' => InSequence(quarantineBus, g) \/ g = f
      BY <2>2 DEF InSequence
    <3>2. QED
      BY <2>1, <3>1 DEF Mentioned, B!Carried, InSequence
  <2>4. QED
    BY <2>1, <2>3, ArchivesKept
<1>5. ASSUME ExtractNext
      PROVE  ArchiveInv'
  <2>1. /\ UNCHANGED <<fnStatus, bucketVars, analyzerQueue, queue, job, upload,
                       extractionBus, xWorker>>
        /\ quarantineBus # << >>
        /\ quarantineBus' = Tail(quarantineBus)
        /\ qWorker'.of = Head(quarantineBus)
    BY <1>5 DEF ExtractNext
  <2>2. /\ Head(quarantineBus) \in Functions
        /\ InSequence(quarantineBus, Head(quarantineBus))
        /\ \A g \in Functions : InSequence(quarantineBus', g) => InSequence(quarantineBus, g)
    BY <2>1, BusKeeps
  <2>3. \A g \in Functions : InSequence(quarantineBus, g)' => InSequence(quarantineBus, g)
    BY <2>2 DEF InSequence
  <2>4. \A g \in Functions : Mentioned(g)' => Mentioned(g)
    BY <2>1, <2>2, <2>3 DEF Mentioned, B!Carried, InSequence
  <2>5. QED
    BY <2>1, <2>4, ArchivesKept
<1>6. ASSUME RecordExtraction
      PROVE  ArchiveInv'
  <2>1. /\ UNCHANGED <<bucketVars, analyzerQueue, queue, job, upload, quarantineBus,
                       extractionBus, xWorker>>
        /\ qWorker.of \in Functions
    BY <1>6 DEF RecordExtraction
  <2>2. qWorker' = [qWorker EXCEPT !.at = "announce"] \/ qWorker' = [IdleWorker EXCEPT !.at = "gone"]
    BY <1>6 DEF RecordExtraction
  <2>3. qWorker'.of = qWorker.of \/ qWorker'.of = NoFunction
    BY <2>2 DEF IdleWorker
  <2>4. fnStatus' = fnStatus \/ fnStatus' = [fnStatus EXCEPT ![qWorker.of] = qWorker.status]
    BY <1>6 DEF RecordExtraction, StatusUpdated, StatusUpdateFails, SetFnStatus
  <2>5. \A g \in Functions : Mentioned(g)' => Mentioned(g)
    BY <2>1, <2>3, <2>4 DEF Mentioned, B!Carried, InSequence
  <2>6. QED
    BY <2>1, <2>5, ArchivesKept
<1>7. ASSUME AnnounceExtraction
      PROVE  ArchiveInv'
  <2>1. /\ UNCHANGED <<fnStatus, bucketVars, analyzerQueue, queue, job, upload,
                       quarantineBus, xWorker>>
        /\ qWorker.of \in Functions
        /\ extractionBus' = Announced(extractionBus, qWorker.of)
        /\ qWorker'.of = NoFunction
    BY <1>7 DEF AnnounceExtraction, IdleWorker
  <2>2. \A g \in Functions : InSequence(extractionBus', g) => InSequence(extractionBus, g) \/ g = qWorker.of
    BY <2>1, BusKeeps
  <2>3. \A g \in Functions : InSequence(extractionBus, g)' => InSequence(extractionBus, g) \/ g = qWorker.of
    BY <2>2 DEF InSequence
  <2>4. \A g \in Functions : Mentioned(g)' => Mentioned(g)
    BY <2>1, <2>3 DEF Mentioned, B!Carried, InSequence
  <2>5. QED
    BY <2>1, <2>4, ArchivesKept
<1>8. ASSUME ForwardNext
      PROVE  ArchiveInv'
  <2>1. /\ UNCHANGED <<fnStatus, bucketVars, analyzerQueue, queue, job, upload,
                       quarantineBus, qWorker>>
        /\ extractionBus # << >>
        /\ extractionBus' = Tail(extractionBus)
        /\ xWorker' = Head(extractionBus)
    BY <1>8 DEF ForwardNext
  <2>2. /\ Head(extractionBus) \in Functions
        /\ InSequence(extractionBus, Head(extractionBus))
        /\ \A g \in Functions : InSequence(extractionBus', g) => InSequence(extractionBus, g)
    BY <2>1, BusKeeps
  <2>3. \A g \in Functions : InSequence(extractionBus, g)' => InSequence(extractionBus, g)
    BY <2>2 DEF InSequence
  <2>4. \A g \in Functions : Mentioned(g)' => Mentioned(g)
    BY <2>1, <2>2, <2>3 DEF Mentioned, B!Carried, InSequence
  <2>5. QED
    BY <2>1, <2>4, ArchivesKept
<1>9. ASSUME ServerDies, UNCHANGED <<fnStatus, bucketVars, analyzerQueue, queue, job>>
      PROVE  ArchiveInv'
  <2>1. \A g \in Functions : Mentioned(g)' => Mentioned(g)
    BY <1>9 DEF ServerDies, IdleWorker, Mentioned, B!Carried, InSequence
  <2>2. QED
    BY <1>9, <2>1, ArchivesKept
<1>10. ASSUME PublishToAnalyzer
       PROVE  ArchiveInv'
  <2>1. UNCHANGED <<fnStatus, bucketVars, queue, job>> /\ xWorker \in Functions
    BY <1>10 DEF PublishToAnalyzer
  <2>2. CASE /\ analyzerQueue' = [analyzerQueue EXCEPT ![xWorker] = @ + 1]
             /\ xWorker' = NoFunction
             /\ UNCHANGED <<upload, quarantineBus, extractionBus, qWorker>>
    <3>1. \A g \in Functions : Mentioned(g)' => Mentioned(g)
      BY <2>1, <2>2 DEF Mentioned, B!Carried, InSequence
    <3>2. QED
      BY <2>1, <3>1, ArchivesKept
  <2>3. QED
    BY <1>9, <1>10, <2>1, <2>2 DEF PublishToAnalyzer
<1>11. ASSUME ServerStart
       PROVE  ArchiveInv'
  <2>1. \A g \in Functions : Mentioned(g)' => Mentioned(g)
    BY <1>11 DEF ServerStart, Mentioned, B!Carried, InSequence
  <2>2. QED
    BY <1>11, <2>1, ArchivesKept DEF ServerStart
<1>12. QED
  BY <1>2, <1>3, <1>4, <1>5, <1>6, <1>7, <1>8, <1>9, <1>10, <1>11
  DEF IntakeNext, IntakeProgress, ServerCrash

LEMMA ArchiveOfAnalyzer ==
    TypeOK /\ ArchiveInv /\ AnalyzerNext /\ UNCHANGED <<intakeVars, buildVars>> => ArchiveInv'
<1> SUFFICES ASSUME TypeOK, ArchiveInv, AnalyzerNext, UNCHANGED <<intakeVars, buildVars>>
             PROVE  ArchiveInv'
  OBVIOUS
<1> USE DEF tableVars, bucketVars, buildQueueVars
<1>1. /\ fnStatus \in [Functions -> FnStatuses]
      /\ analyzerQueue \in [Functions -> Nat]
      /\ queue \in [Functions -> Nat]
      /\ scan \in [at : ScanStages, of : Functions \cup {NoFunction}, verdict : AnalysisVerdicts]
      /\ scan.at # "idle" <=> scan.of # NoFunction
      /\ NoFunction \notin Functions
      /\ UNCHANGED <<upload, quarantineBus, extractionBus, qWorker, xWorker>>
      /\ "remove" \notin Analysis \cup {NextStage[s] : s \in DOMAIN NextStage}
  BY FunctionStoreAssumption
  DEF FunctionStoreAssumption, TypeOK, StoreTypeOK, B!TypeOK, AnalyzerTypeOK, intakeVars,
      NextStage, Analysis, EndsWith
<1> USE <1>1
<1>2. UNCHANGED job
  BY DEF AnalyzerNext, AnalyzerProgress, ReceiveUpload, Land, PassStage, EndAnalysis,
     RecordVerdict, CopyArchive, RemoveArchive, PublishBuild, SemgrepFails, AnalyzerCrash,
     AnalyzerStart, B!Enqueue
<1>3. ASSUME scan'.of = scan.of \/ scan'.of = NoFunction,
             \/ fnStatus' = fnStatus
             \/ scan.of \in Functions /\ \E s : fnStatus' = [fnStatus EXCEPT ![scan.of] = s],
             UNCHANGED <<analyzerQueue, queue>>
      PROVE  \A f \in Functions : Mentioned(f)' => Mentioned(f)
  BY <1>2, <1>3 DEF Mentioned, B!Carried, InSequence
<1>4. ASSUME NEW f \in Functions, ReceiveUpload(f)
      PROVE  ArchiveInv'
  <2>1. /\ analyzerQueue[f] > 0
        /\ UNCHANGED <<fnStatus, bucketVars, queue>>
        /\ scan' = [NoScan EXCEPT !.at = "land", !.of = f]
        /\ \/ analyzerQueue' = [analyzerQueue EXCEPT ![f] = @ - 1]
           \/ UNCHANGED analyzerQueue
    BY <1>4 DEF ReceiveUpload
  <2>2. scan'.at = "land" /\ scan'.of = f
    BY <2>1 DEF NoScan
  <2>3. \A g \in Functions : Mentioned(g)' => Mentioned(g)
    BY <1>2, <2>1, <2>2 DEF Mentioned, B!Carried, InSequence
  <2>4. QED
    BY <2>1, <2>2, <2>3, ArchivesKept
<1>5. ASSUME Land \/ RecordVerdict
      PROVE  ArchiveInv'
  <2>1. /\ UNCHANGED <<bucketVars, analyzerQueue, queue>>
        /\ scan.of \in Functions
        /\ scan' = NoScan \/ GoTo("download") \/ GoTo("copy")
    BY <1>5 DEF Land, RecordVerdict, ScanAt, Done
  <2>2. fnStatus' = fnStatus \/ \E s : fnStatus' = [fnStatus EXCEPT ![scan.of] = s]
    BY <1>5 DEF Land, RecordVerdict, StatusUpdated, StatusUpdateFails, SetFnStatus
  <2>3. scan'.at # "remove" /\ (scan'.of = scan.of \/ scan'.of = NoFunction)
    BY <2>1 DEF NoScan, GoTo
  <2>4. QED
    BY <1>3, <2>1, <2>2, <2>3, ArchivesKept
<1>6. ASSUME PassStage \/ EndAnalysis
      PROVE  ArchiveInv'
  <2>1. UNCHANGED <<fnStatus, bucketVars, analyzerQueue, queue>>
    BY <1>6 DEF PassStage, EndAnalysis
  <2>2. CASE PassStage
    <3>1. scan.at \in DOMAIN NextStage /\ GoTo(NextStage[scan.at])
      BY <2>2 DEF PassStage, ScanAt
    <3>2. scan'.at # "remove" /\ scan'.of = scan.of
      BY <3>1 DEF GoTo
    <3>3. QED
      BY <1>3, <2>1, <3>2, ArchivesKept
  <2>3. CASE EndAnalysis
    <3>1. \E v : scan' = [scan EXCEPT !.at = "record", !.verdict = v]
      BY <2>3 DEF EndAnalysis
    <3>2. scan'.at # "remove" /\ scan'.of = scan.of
      BY <3>1
    <3>3. QED
      BY <1>3, <2>1, <3>2, ArchivesKept
  <2>4. QED
    BY <1>6, <2>2, <2>3
<1>7. ASSUME CopyArchive
      PROVE  ArchiveInv'
  <2>1. /\ scan.of \in Functions
        /\ UNCHANGED <<fnStatus, quarantineBucket, analyzerQueue, queue>>
        /\ \/ GoTo("remove") /\ functionsBucket' = functionsBucket \cup {scan.of}
           \/ scan' = NoScan /\ functionsBucket \subseteq functionsBucket'
    BY <1>7 DEF CopyArchive, ScanAt, Done
  <2>2. /\ scan'.of = scan.of \/ scan'.of = NoFunction
        /\ scan'.at = "remove" => scan'.of \in functionsBucket'
    BY <2>1 DEF GoTo, NoScan
  <2>3. \A f \in Functions : Mentioned(f)' => Mentioned(f)
    BY <1>3, <2>1, <2>2
  <2>4. QED
    BY <2>1, <2>2, <2>3 DEF ArchiveInv
<1>8. ASSUME RemoveArchive
      PROVE  ArchiveInv'
  <2>1. /\ scan.of \in functionsBucket
        /\ UNCHANGED <<fnStatus, functionsBucket, analyzerQueue, queue>>
        /\ quarantineBucket \ {scan.of} \subseteq quarantineBucket'
        /\ scan' = NoScan \/ GoTo("publish")
    BY <1>8 DEF RemoveArchive, ScanAt, Done, ArchiveInv
  <2>2. scan'.at # "remove" /\ (scan'.of = scan.of \/ scan'.of = NoFunction)
    BY <2>1 DEF GoTo, NoScan
  <2>3. \A f \in Functions : Mentioned(f)' => Mentioned(f)
    BY <1>3, <2>1, <2>2
  <2>4. QED
    BY <2>1, <2>2, <2>3 DEF ArchiveInv
<1>9. ASSUME PublishBuild
      PROVE  ArchiveInv'
  <2>1. /\ scan.of \in Functions
        /\ UNCHANGED <<fnStatus, bucketVars, analyzerQueue>>
        /\ scan'.of = NoFunction /\ scan'.at = "idle"
        /\ queue' = queue \/ queue' = [queue EXCEPT ![scan.of] = @ + 1]
    BY <1>9 DEF PublishBuild, ScanAt, Done, NoScan, B!Enqueue
  <2>2. \A f \in Functions : Mentioned(f)' => Mentioned(f)
    BY <1>2, <2>1 DEF Mentioned, B!Carried, InSequence
  <2>3. QED
    BY <2>1, <2>2, ArchivesKept
<1>10. ASSUME SemgrepFails \/ AnalyzerCrash \/ AnalyzerStart
       PROVE  ArchiveInv'
  <2>1. /\ UNCHANGED <<fnStatus, bucketVars, analyzerQueue, queue>>
        /\ scan' = NoScan \/ scan' = scan
    BY <1>10 DEF SemgrepFails, AnalyzerCrash, AnalyzerStart, AnalyzerDies, Done
  <2>2. QED
    BY <1>3, <2>1, ArchivesKept DEF NoScan
<1>11. QED
  BY <1>4, <1>5, <1>6, <1>7, <1>8, <1>9, <1>10 DEF AnalyzerNext, AnalyzerProgress

\* A builder writes into the row that its message names.
LEMMA BuildersWriteTheirRow ==
    ASSUME TypeOK, BuildNext
    PROVE  \A f \in Functions : fnStatus'[f] # fnStatus[f] => B!Carried(f)
<1> USE DEF tableVars
<1>1. CASE UNCHANGED fnStatus
  BY <1>1
<1>2. ASSUME NEW c \in Builders,
             \/ ClaimBuild(c) \/ RejectBuild(c) \/ ResetBuild(c)
             \/ FinishBuild(c) \/ PoisonBuild(c)
      PROVE  \A f \in Functions : fnStatus'[f] # fnStatus[f] => B!Carried(f)
  <2>1. fnStatus' = fnStatus \/ \E s : fnStatus' = [fnStatus EXCEPT ![job[c]] = s]
    BY <1>2 DEF ClaimBuild, RejectBuild, ResetBuild, FinishBuild, PoisonBuild, SetFnStatusOrLog,
       SetFnStatus
  <2>2. fnStatus \in [Functions -> FnStatuses]
    BY DEF TypeOK, StoreTypeOK
  <2>3. QED
    BY <2>1, <2>2 DEF B!Carried
<1>3. QED
  BY <1>1, <1>2
  DEF BuildNext, BuilderStep, DeliverBuild, PrepareEnvironment, SaveDrive, DeadLetterBuild,
      DeadLetterBuildFails, AckBuild, BuilderConnectionLost, VmSigterm, VmExit, VmCrash, VmStart

LEMMA ArchiveOfBuilders ==
    TypeOK /\ ArchiveInv /\ BuildNext /\ UNCHANGED <<intakeVars, analyzerVars>> => ArchiveInv'
<1> SUFFICES ASSUME TypeOK, ArchiveInv, BuildNext, UNCHANGED <<intakeVars, analyzerVars>>
             PROVE  ArchiveInv'
  OBVIOUS
<1> USE DEF bucketVars
<1>1. UNCHANGED <<quarantineBucket, functionsBucket, analyzerQueue>>
  BY DEF BuildNext, BuilderStep, DeliverBuild, ClaimBuild, PrepareEnvironment, SaveDrive,
     RejectBuild, ResetBuild, FinishBuild, PoisonBuild, DeadLetterBuild,
     DeadLetterBuildFails, AckBuild, BuilderConnectionLost, VmSigterm, VmExit, VmCrash, VmStart
<1>2. ASSUME NEW f \in Functions, Mentioned(f)'
      PROVE  Mentioned(f)
  BY <1>1, <1>2, BuildersWriteTheirRow, RouterCarries
  DEF Mentioned, InSequence, intakeVars, analyzerVars
<1>3. QED
  BY <1>1, <1>2, ArchivesKept DEF analyzerVars

(***************************************************************************)
(* From the INSERT on, an archive is in one of the two buckets, at         *)
(* whatever step a request, a copy or a removal fails or a process dies    *)
(* (upload.go:47-53, filestore.go:62-67).                                  *)
(***************************************************************************)
THEOREM ArchiveIsNeverLost == CliSpec => []ArchiveIsSomewhere
<1>1. CliInit => ArchiveInv
  BY FunctionStoreAssumption
  DEF FunctionStoreAssumption, CliInit, Init, StoreInit, IntakeInit, AnalyzerInit, IdleWorker,
      NoScan, ArchiveInv, Mentioned, InSequence, B!Init, B!Carried
<1>2. CliTypeOK /\ ArchiveInv /\ [CliNext]_cliVars => ArchiveInv'
  <2> SUFFICES ASSUME CliTypeOK, ArchiveInv, [CliNext]_cliVars
               PROVE  ArchiveInv'
    OBVIOUS
  <2>1. CASE Next
    BY <2>1, ArchiveOfServer, ArchiveOfAnalyzer, ArchiveOfBuilders DEF Next, CliTypeOK
  <2>2. CASE Unseen
    <3>1. \A f \in Functions : Mentioned(f)' => Mentioned(f)
      BY <2>2 DEF Unseen, Mentioned, B!Carried, InSequence, tableVars, buildQueueVars, intakeVars,
         analyzerVars
    <3>2. QED
      BY <2>2, <3>1, ArchivesKept DEF Unseen, bucketVars, analyzerVars
  <2>3. QED
    BY <2>1, <2>2, StepOfServices
<1>3. ArchiveInv => ArchiveIsSomewhere
  BY DEF ArchiveInv, Mentioned, ArchiveIsSomewhere
<1>4. QED
  BY <1>1, <1>2, <1>3, PipelineTypeCorrect, PTL DEF CliSpec

-----------------------------------------------------------------------------
(***************************************************************************)
(* The disk.  What the analyzer finds on its disk between two analyses     *)
(* follows from what it has there during one.                              *)
(***************************************************************************)
DiskInv ==
    analyzer = "up" =>
        \A w \in workspace : w[2] # "report" => scan.at \in Analysis /\ w[1] = scan.of

LEMMA DiskStep == TypeOK /\ DiskInv /\ AnalyzerNext => DiskInv'
<1> SUFFICES ASSUME TypeOK, DiskInv, AnalyzerNext
             PROVE  DiskInv'
  OBVIOUS
<1> USE DEF ScanAt
<1>1. /\ scan \in [at : ScanStages, of : Functions \cup {NoFunction}, verdict : AnalysisVerdicts]
      /\ workspace \subseteq Functions \X FileKinds
      /\ \A s \in DOMAIN NextStage : s \in Analysis /\ NextStage[s] \in Analysis
      /\ {"idle", "land", "record", "copy", "remove", "publish"} \cap Analysis = {}
      /\ "download" \in Analysis
  BY DEF TypeOK, AnalyzerTypeOK, NextStage, Analysis, EndsWith
<1>2. ASSUME workspace' = workspace, analyzer' = analyzer, scan.at \notin Analysis
      PROVE  DiskInv'
  BY <1>2 DEF DiskInv
<1>3. ASSUME PassStage
      PROVE  DiskInv'
  <2>1. scan.at \in Analysis /\ scan'.at \in Analysis /\ scan'.of = scan.of /\ UNCHANGED analyzer
    BY <1>1, <1>3 DEF PassStage, GoTo
  <2>2. \A w \in workspace' : w \in workspace \/ w[1] = scan.of
    BY <1>3 DEF PassStage
  <2>3. QED
    BY <2>1, <2>2 DEF DiskInv
<1>4. ASSUME EndAnalysis
      PROVE  DiskInv'
  <2>1. workspace' = workspace \ ({scan.of} \X FileKinds) /\ UNCHANGED analyzer
    BY <1>4 DEF EndAnalysis
  <2>2. analyzer = "up"
    BY <1>4 DEF EndAnalysis
  <2>3. \A w \in workspace' : w[2] = "report"
    <3> SUFFICES ASSUME NEW w \in workspace', w[2] # "report"
                 PROVE  FALSE
      OBVIOUS
    <3>1. PICK f \in Functions, k \in FileKinds : w = <<f, k>>
      BY <1>1, <2>1
    <3>2. f = scan.of
      BY <2>1, <2>2, <3>1 DEF DiskInv
    <3>3. QED
      BY <2>1, <3>1, <3>2
  <2>4. QED
    BY <2>3 DEF DiskInv
<1>5. ASSUME SemgrepFails \/ AnalyzerCrash
      PROVE  DiskInv'
  BY <1>5 DEF SemgrepFails, AnalyzerCrash, AnalyzerDies, DiskInv
<1>6. ASSUME AnalyzerStart
      PROVE  DiskInv'
  <2>1. workspace' = workspace \ (Functions \X {"archive", "extracted"})
    BY <1>6 DEF AnalyzerStart
  <2>2. \A w \in workspace' : w[2] = "report"
    <3> SUFFICES ASSUME NEW w \in workspace'
                 PROVE  w[2] = "report"
      OBVIOUS
    <3>1. PICK f \in Functions, k \in FileKinds : w = <<f, k>>
      BY <1>1, <2>1
    <3>2. QED
      BY <2>1, <3>1 DEF FileKinds
  <2>3. QED
    BY <2>2 DEF DiskInv
<1>7. CASE \/ \E f \in Functions : ReceiveUpload(f)
           \/ Land \/ RecordVerdict \/ CopyArchive \/ RemoveArchive \/ PublishBuild
  <2>1. UNCHANGED <<workspace, analyzer>> /\ scan.at \notin Analysis
    BY <1>1, <1>7
    DEF ReceiveUpload, Land, RecordVerdict, CopyArchive, RemoveArchive, PublishBuild
  <2>2. QED
    BY <1>2, <2>1
<1>8. QED
  BY <1>3, <1>4, <1>5, <1>6, <1>7 DEF AnalyzerNext, AnalyzerProgress

(***************************************************************************)
(* Between two analyses neither an archive nor an extracted directory is   *)
(* on the analyzer's disk, after a crash as well                           *)
(* (analysis_orchestrator.go:57-72, cmd/analyzer/main.go:53).              *)
(***************************************************************************)
THEOREM NothingIsLeftOnDisk == CliSpec => []WorkspaceIsClean
<1>1. CliInit => DiskInv
  BY DEF CliInit, Init, AnalyzerInit, DiskInv
<1>2. CliTypeOK /\ DiskInv /\ [CliNext]_cliVars => DiskInv'
  <2> SUFFICES ASSUME CliTypeOK, DiskInv, [CliNext]_cliVars
               PROVE  DiskInv'
    OBVIOUS
  <2>1. CASE AnalyzerNext
    BY <2>1, DiskStep DEF CliTypeOK
  <2>2. CASE UNCHANGED analyzerVars
    BY <2>2 DEF analyzerVars, DiskInv
  <2>3. QED
    BY <2>1, <2>2, StepOfServices DEF Next, Unseen
<1>3. CliTypeOK /\ DiskInv => WorkspaceIsClean
  <2> SUFFICES ASSUME CliTypeOK, DiskInv, analyzer = "up",
                      scan.at \in {"idle", "record", "copy", "remove", "publish"},
                      NEW w \in workspace \cap (Functions \X {"archive", "extracted"})
               PROVE  FALSE
    BY DEF WorkspaceIsClean
  <2>1. w[2] # "report"
    OBVIOUS
  <2>2. QED
    BY <2>1 DEF DiskInv, Analysis, EndsWith
<1>4. QED
  BY <1>1, <1>2, <1>3, PipelineTypeCorrect, PTL DEF CliSpec

-----------------------------------------------------------------------------
(***************************************************************************)
(* The way of a function.  While the analyzer's acknowledgements arrive,   *)
(* a function is at one place of the pipeline at a time, goes from place   *)
(* to place, and is never brought back by the server or the analyzer.      *)
(***************************************************************************)
At(p, f) ==
    \/ p = "request" /\ upload[f] \in {"idle", "stored"}
    \/ p = "created" /\ upload[f] = "created"
    \/ p = "quarantineBus" /\ InSequence(quarantineBus, f)
    \/ p = "update" /\ qWorker.of = f /\ qWorker.at = "update"
    \/ p = "announce" /\ qWorker.of = f /\ qWorker.at = "announce"
    \/ p = "extractionBus" /\ InSequence(extractionBus, f)
    \/ p = "xWorker" /\ xWorker = f
    \/ p = "analyzerQueue" /\ analyzerQueue[f] > 0
    \/ p = "land" /\ scan.of = f /\ scan.at = "land"
    \/ p = "analysis" /\ scan.of = f /\ scan.at \in Analysis
    \/ p = "record" /\ scan.of = f /\ scan.at = "record"
    \/ p = "move" /\ scan.of = f /\ scan.at \in {"copy", "remove", "publish"}
    \/ p = "build" /\ B!Carried(f)

Places ==
    {"request", "created", "quarantineBus", "update", "announce", "extractionBus", "xWorker",
     "analyzerQueue", "land", "analysis", "record", "move", "build"}

Once(bus) == \A j, k \in DOMAIN bus : bus[j] = bus[k] => j = k

WayInv ==
    /\ \A f \in Functions, p, q \in Places : At(p, f) /\ At(q, f) => p = q
    /\ Once(quarantineBus) /\ Once(extractionBus)
    /\ \A f \in Functions : analyzerQueue[f] <= 1

\* Nobody comes to a place.
Still == \A g \in Functions, r \in Places : At(r, g)' => At(r, g)

\* f leaves p, if for anywhere, then for q.
Goes(f, p, q) ==
    /\ f \in Functions /\ At(p, f)
    /\ \A g \in Functions, r \in Places :
         At(r, g)' => \/ At(r, g) /\ ~ (g = f /\ r = p)
                      \/ g = f /\ r = q

\* What Publish and the workers do to a bus with no function on it twice.
LEMMA BusOnce ==
    ASSUME NEW bus \in Seq(Functions), Once(bus), NEW f \in Functions
    PROVE  /\ ~ InSequence(bus, f) => Once(Announced(bus, f))
           /\ bus # << >> => /\ Once(Tail(bus))
                             /\ ~ InSequence(Tail(bus), Head(bus))
BY DEF InSequence, Announced, Once

LEMMA WayOfServer ==
    ASSUME TypeOK, WayInv, UNCHANGED <<analyzerVars, buildVars>>
    PROVE  /\ \A f \in Functions :
                /\ StoreArchive(f) => Still
                /\ CreateFunction(f) => Goes(f, "request", "created")
                /\ AnnounceUpload(f) => Goes(f, "created", "quarantineBus")
           /\ ExtractNext => Goes(Head(quarantineBus), "quarantineBus", "update")
           /\ RecordExtraction => Goes(qWorker.of, "update", "announce")
           /\ AnnounceExtraction => Goes(qWorker.of, "announce", "extractionBus")
           /\ ForwardNext => Goes(Head(extractionBus), "extractionBus", "xWorker")
           /\ PublishToAnalyzer => Goes(xWorker, "xWorker", "analyzerQueue")
           /\ ServerCrash \/ ServerStart => Still
<1> USE DEF buildQueueVars, analyzerVars
<1>1. /\ analyzerQueue \in [Functions -> Nat]
      /\ upload \in [Functions -> UploadStages]
      /\ quarantineBus \in Seq(Functions) /\ extractionBus \in Seq(Functions)
      /\ qWorker.at \in {"update", "announce"} <=> qWorker.of # NoFunction
      /\ qWorker \in [at : WorkerStages, of : Functions \cup {NoFunction},
                      status : {"EXTRACTED", "FAILED"}]
      /\ xWorker \in Functions \cup {NoFunction}
      /\ NoFunction \notin Functions
      /\ UNCHANGED scan
  BY FunctionStoreAssumption
  DEF FunctionStoreAssumption, TypeOK, StoreTypeOK, IntakeTypeOK
<1> USE <1>1
<1>2. ASSUME NEW f \in Functions, StoreArchive(f)
      PROVE  Still
  <2>1. /\ UNCHANGED <<analyzerQueue, queue, job, quarantineBus, extractionBus, qWorker, xWorker>>
        /\ upload[f] = "idle"
        /\ \E s \in {"stored", "error"} : upload' = [upload EXCEPT ![f] = s]
    BY <1>2 DEF StoreArchive, UploadMoves
  <2>2. QED
    BY <2>1 DEF Still, At, B!Carried, InSequence
<1>3. ASSUME NEW f \in Functions, CreateFunction(f)
      PROVE  Goes(f, "request", "created")
  <2>1. /\ UNCHANGED <<analyzerQueue, queue, job, quarantineBus, extractionBus, qWorker, xWorker>>
        /\ upload[f] = "stored"
        /\ \E s \in {"created", "error"} : upload' = [upload EXCEPT ![f] = s]
    BY <1>3 DEF CreateFunction, UploadMoves
  <2>2. QED
    BY <2>1 DEF Goes, At, B!Carried, InSequence
<1>4. ASSUME NEW f \in Functions, AnnounceUpload(f)
      PROVE  Goes(f, "created", "quarantineBus")
  <2>1. /\ UNCHANGED <<analyzerQueue, queue, job, extractionBus, qWorker, xWorker>>
        /\ upload[f] = "created"
        /\ upload' = [upload EXCEPT ![f] = "ok"]
        /\ quarantineBus' = Announced(quarantineBus, f)
    BY <1>4 DEF AnnounceUpload, UploadMoves
  <2>2. \A g \in Functions : InSequence(quarantineBus', g) => InSequence(quarantineBus, g) \/ g = f
    BY <2>1, BusKeeps
  <2>3. \A g \in Functions : InSequence(quarantineBus, g)' => InSequence(quarantineBus, g) \/ g = f
    BY <2>2 DEF InSequence
  <2>4. \A g \in Functions : InSequence(extractionBus, g)' => InSequence(extractionBus, g)
    BY <2>1 DEF InSequence
  <2>5. QED
    BY <2>1, <2>3, <2>4 DEF Goes, At, B!Carried
<1>5. ASSUME ExtractNext
      PROVE  Goes(Head(quarantineBus), "quarantineBus", "update")
  <2>1. /\ UNCHANGED <<analyzerQueue, queue, job, upload, extractionBus, xWorker>>
        /\ quarantineBus # << >>
        /\ quarantineBus' = Tail(quarantineBus)
        /\ qWorker'.of = Head(quarantineBus) /\ qWorker'.at = "update"
    BY <1>5 DEF ExtractNext
  <2>2. /\ Head(quarantineBus) \in Functions
        /\ InSequence(quarantineBus, Head(quarantineBus))
        /\ ~ InSequence(quarantineBus', Head(quarantineBus))
        /\ \A g \in Functions : InSequence(quarantineBus', g) => InSequence(quarantineBus, g)
    BY <2>1, BusKeeps, BusOnce DEF WayInv
  <2>3. /\ \A g \in Functions : InSequence(quarantineBus, g)' => InSequence(quarantineBus, g)
        /\ \A g \in Functions : g = Head(quarantineBus) => ~ InSequence(quarantineBus, g)'
    BY <2>2 DEF InSequence
  <2>4. QED
    BY <2>1, <2>2, <2>3 DEF Goes, At, B!Carried, InSequence
<1>6. ASSUME RecordExtraction
      PROVE  Goes(qWorker.of, "update", "announce")
  <2>1. /\ UNCHANGED <<analyzerQueue, queue, job, upload, quarantineBus, extractionBus, xWorker>>
        /\ qWorker.of \in Functions /\ qWorker.at = "update"
    BY <1>6 DEF RecordExtraction
  <2>2. qWorker' = [qWorker EXCEPT !.at = "announce"] \/ qWorker' = [IdleWorker EXCEPT !.at = "gone"]
    BY <1>6 DEF RecordExtraction
  <2>3. \/ qWorker'.of = qWorker.of /\ qWorker'.at = "announce"
        \/ qWorker'.of = NoFunction
    BY <2>2 DEF IdleWorker
  <2>4. QED
    BY <2>1, <2>3 DEF Goes, At, B!Carried, InSequence
<1>7. ASSUME AnnounceExtraction
      PROVE  Goes(qWorker.of, "announce", "extractionBus")
  <2>1. /\ UNCHANGED <<analyzerQueue, queue, job, upload, quarantineBus, xWorker>>
        /\ qWorker.of \in Functions /\ qWorker.at = "announce"
        /\ extractionBus' = Announced(extractionBus, qWorker.of)
        /\ qWorker'.of = NoFunction
    BY <1>7 DEF AnnounceExtraction, IdleWorker
  <2>2. \A g \in Functions : InSequence(extractionBus', g) => InSequence(extractionBus, g) \/ g = qWorker.of
    BY <2>1, BusKeeps
  <2>3. \A g \in Functions : InSequence(extractionBus, g)' => InSequence(extractionBus, g) \/ g = qWorker.of
    BY <2>2 DEF InSequence
  <2>4. QED
    BY <2>1, <2>3 DEF Goes, At, B!Carried, InSequence
<1>8. ASSUME ForwardNext
      PROVE  Goes(Head(extractionBus), "extractionBus", "xWorker")
  <2>1. /\ UNCHANGED <<analyzerQueue, queue, job, upload, quarantineBus, qWorker>>
        /\ extractionBus # << >>
        /\ extractionBus' = Tail(extractionBus)
        /\ xWorker' = Head(extractionBus)
    BY <1>8 DEF ForwardNext
  <2>2. /\ Head(extractionBus) \in Functions
        /\ InSequence(extractionBus, Head(extractionBus))
        /\ ~ InSequence(extractionBus', Head(extractionBus))
        /\ \A g \in Functions : InSequence(extractionBus', g) => InSequence(extractionBus, g)
    BY <2>1, BusKeeps, BusOnce DEF WayInv
  <2>3. /\ \A g \in Functions : InSequence(extractionBus, g)' => InSequence(extractionBus, g)
        /\ \A g \in Functions : g = Head(extractionBus) => ~ InSequence(extractionBus, g)'
    BY <2>2 DEF InSequence
  <2>4. QED
    BY <2>1, <2>2, <2>3 DEF Goes, At, B!Carried, InSequence
<1>9. ASSUME ServerDies
      PROVE  /\ \A f \in Functions : upload'[f] \in {"idle", "stored", "created"} => upload'[f] = upload[f]
             /\ \A f \in Functions : ~ InSequence(quarantineBus, f)' /\ ~ InSequence(extractionBus, f)'
             /\ qWorker'.of = NoFunction /\ xWorker' = NoFunction
  BY <1>9 DEF ServerDies, IdleWorker, InSequence
<1>10. ASSUME PublishToAnalyzer
       PROVE  Goes(xWorker, "xWorker", "analyzerQueue")
  <2>1. UNCHANGED <<queue, job>> /\ xWorker \in Functions
    BY <1>10 DEF PublishToAnalyzer
  <2>2. CASE /\ analyzerQueue' = [analyzerQueue EXCEPT ![xWorker] = @ + 1]
             /\ xWorker' = NoFunction
             /\ UNCHANGED <<upload, quarantineBus, extractionBus, qWorker>>
    BY <2>1, <2>2 DEF Goes, At, B!Carried, InSequence
  <2>3. CASE ServerDies /\ UNCHANGED analyzerQueue
    BY <1>9, <2>1, <2>3 DEF Goes, At, B!Carried
  <2>4. QED
    BY <1>10, <2>2, <2>3 DEF PublishToAnalyzer
<1>11. ASSUME ServerCrash
       PROVE  Still
  <2>1. UNCHANGED <<analyzerQueue, queue, job>> /\ ServerDies
    BY <1>11 DEF ServerCrash
  <2>2. QED
    BY <1>9, <2>1 DEF Still, At, B!Carried
<1>12. ASSUME ServerStart
       PROVE  Still
  BY <1>12 DEF ServerStart, Still, At, B!Carried, InSequence
<1>13. QED
  BY <1>2, <1>3, <1>4, <1>5, <1>6, <1>7, <1>8, <1>10, <1>11, <1>12

LEMMA WayOfAnalyzer ==
    ASSUME TypeOK, WayInv, budget["redelivery"] = 0, UNCHANGED <<intakeVars, buildVars>>
    PROVE  /\ \A f \in Functions : ReceiveUpload(f) => Goes(f, "analyzerQueue", "land")
           /\ Land => Goes(scan.of, "land", "analysis")
           /\ PassStage \/ CopyArchive \/ RemoveArchive => Still
           /\ EndAnalysis => Goes(scan.of, "analysis", "record")
           /\ RecordVerdict => Goes(scan.of, "record", "move")
           /\ PublishBuild => Goes(scan.of, "move", "build")
           /\ SemgrepFails \/ AnalyzerCrash \/ AnalyzerStart => Still
<1> USE DEF buildQueueVars, intakeVars
<1>1. /\ analyzerQueue \in [Functions -> Nat]
      /\ queue \in [Functions -> Nat]
      /\ scan \in [at : ScanStages, of : Functions \cup {NoFunction}, verdict : AnalysisVerdicts]
      /\ scan.at # "idle" <=> scan.of # NoFunction
      /\ NoFunction \notin Functions
      /\ UNCHANGED <<upload, quarantineBus, extractionBus, qWorker, xWorker>>
      /\ \A s \in DOMAIN NextStage : s \in Analysis /\ NextStage[s] \in Analysis
      /\ {"idle", "land", "record", "copy", "remove", "publish"} \cap Analysis = {}
      /\ "download" \in Analysis
  BY FunctionStoreAssumption
  DEF FunctionStoreAssumption, TypeOK, StoreTypeOK, B!TypeOK, AnalyzerTypeOK, NextStage,
      Analysis, EndsWith
<1> USE <1>1
<1>2. \A g \in Functions : /\ InSequence(quarantineBus, g)' => InSequence(quarantineBus, g)
                           /\ InSequence(extractionBus, g)' => InSequence(extractionBus, g)
  BY DEF InSequence
<1>3. ASSUME NEW f \in Functions, ReceiveUpload(f)
      PROVE  Goes(f, "analyzerQueue", "land")
  <2>1. /\ analyzerQueue[f] > 0
        /\ UNCHANGED <<queue, job>>
        /\ scan' = [NoScan EXCEPT !.at = "land", !.of = f]
        /\ analyzerQueue' = [analyzerQueue EXCEPT ![f] = @ - 1]
    BY <1>3 DEF ReceiveUpload, Spend
  <2>2. scan'.at = "land" /\ scan'.of = f
    BY <2>1 DEF NoScan
  <2>3. analyzerQueue[f] <= 1
    BY DEF WayInv
  <2>4. QED
    BY <1>2, <2>1, <2>2, <2>3 DEF Goes, At, B!Carried
<1>4. ASSUME Land \/ RecordVerdict
      PROVE  /\ Land => Goes(scan.of, "land", "analysis")
             /\ RecordVerdict => Goes(scan.of, "record", "move")
  <2>1. /\ UNCHANGED <<analyzerQueue, queue, job>>
        /\ scan.of \in Functions
    BY <1>4 DEF Land, RecordVerdict, ScanAt
  <2>2. CASE Land
    <3>1. scan.at = "land" /\ (scan' = NoScan \/ GoTo("download"))
      BY <2>2 DEF Land, ScanAt, Done
    <3>2. scan'.of = NoFunction \/ (scan'.of = scan.of /\ scan'.at = "download")
      BY <3>1 DEF NoScan, GoTo
    <3>3. Goes(scan.of, "land", "analysis")
      BY <1>2, <2>1, <3>1, <3>2 DEF Goes, At, B!Carried
    <3>4. ~ RecordVerdict
      BY <3>1 DEF RecordVerdict, ScanAt
    <3>5. QED
      BY <3>3, <3>4
  <2>3. CASE RecordVerdict
    <3>1. scan.at = "record" /\ (scan' = NoScan \/ GoTo("copy"))
      BY <2>3 DEF RecordVerdict, ScanAt, Done
    <3>2. scan'.of = NoFunction \/ (scan'.of = scan.of /\ scan'.at = "copy")
      BY <3>1 DEF NoScan, GoTo
    <3>3. Goes(scan.of, "record", "move")
      BY <1>2, <2>1, <3>1, <3>2 DEF Goes, At, B!Carried
    <3>4. ~ Land
      BY <3>1 DEF Land, ScanAt
    <3>5. QED
      BY <3>3, <3>4
  <2>4. QED
    BY <1>4, <2>2, <2>3
<1>5. ASSUME PassStage
      PROVE  Still
  <2>1. UNCHANGED <<analyzerQueue, queue, job>> /\ scan.at \in DOMAIN NextStage
    BY <1>5 DEF PassStage, ScanAt
  <2>2. scan'.at \in Analysis /\ scan'.of = scan.of
    BY <1>5, <2>1 DEF PassStage, GoTo
  <2>3. QED
    BY <1>2, <2>1, <2>2 DEF Still, At, B!Carried
<1>6. ASSUME CopyArchive \/ RemoveArchive
      PROVE  Still
  <2>1. UNCHANGED <<analyzerQueue, queue, job>> /\ scan.at \in {"copy", "remove"}
    BY <1>6 DEF CopyArchive, RemoveArchive, ScanAt
  <2>2. scan' = NoScan \/ GoTo("remove") \/ GoTo("publish")
    BY <1>6 DEF CopyArchive, RemoveArchive, Done
  <2>3. scan'.of = NoFunction \/ (scan'.of = scan.of /\ scan'.at \in {"remove", "publish"})
    BY <2>2 DEF NoScan, GoTo
  <2>4. QED
    BY <1>2, <2>1, <2>3 DEF Still, At, B!Carried
<1>7. ASSUME EndAnalysis
      PROVE  Goes(scan.of, "analysis", "record")
  <2>1. UNCHANGED <<analyzerQueue, queue, job>> /\ scan.at \in Analysis
    BY <1>7 DEF EndAnalysis, ScanAt
  <2>2. scan'.at = "record" /\ scan'.of = scan.of
    BY <1>7 DEF EndAnalysis
  <2>3. QED
    BY <1>2, <2>1, <2>2 DEF Goes, At, B!Carried
<1>8. ASSUME PublishBuild
      PROVE  Goes(scan.of, "move", "build")
  <2>1. /\ UNCHANGED <<analyzerQueue, job>> /\ scan.at = "publish"
        /\ queue' = queue \/ queue' = [queue EXCEPT ![scan.of] = @ + 1]
        /\ scan'.of = NoFunction
    BY <1>8 DEF PublishBuild, ScanAt, Done, NoScan, B!Enqueue
  <2>2. QED
    BY <1>2, <2>1 DEF Goes, At, B!Carried
<1>9. ASSUME SemgrepFails \/ AnalyzerCrash \/ AnalyzerStart
      PROVE  Still
  <2>1. /\ UNCHANGED <<analyzerQueue, queue, job>>
        /\ scan' = NoScan \/ scan' = scan
    BY <1>9 DEF SemgrepFails, AnalyzerCrash, AnalyzerStart, AnalyzerDies, Done
  <2>2. scan'.of = NoFunction \/ scan' = scan
    BY <2>1 DEF NoScan
  <2>3. QED
    BY <1>2, <2>1, <2>2 DEF Still, At, B!Carried
<1>10. QED
  BY <1>3, <1>4, <1>5, <1>6, <1>7, <1>8, <1>9

LEMMA WayOfBuilders ==
    ASSUME TypeOK, BuildNext, UNCHANGED <<intakeVars, analyzerVars>>
    PROVE  Still
<1>1. UNCHANGED analyzerQueue
  BY DEF BuildNext, BuilderStep, DeliverBuild, ClaimBuild, PrepareEnvironment, SaveDrive,
     RejectBuild, ResetBuild, FinishBuild, PoisonBuild, DeadLetterBuild,
     DeadLetterBuildFails, AckBuild, BuilderConnectionLost, VmSigterm, VmExit, VmCrash, VmStart
<1>2. UNCHANGED <<upload, quarantineBus, extractionBus, qWorker, xWorker, scan>>
  BY DEF intakeVars, analyzerVars
<1>3. QED
  BY <1>1, <1>2, RouterCarries DEF Still, At, InSequence

\* Going from place to place leads to no second place.
LEMMA PlacesApart ==
    ASSUME WayInv, Still \/ \E f, p, q : Goes(f, p, q)
    PROVE  \A f \in Functions, p, q \in Places : At(p, f)' /\ At(q, f)' => p = q
<1>1. \A p, f : At(p, f) => p \in Places
  BY DEF At, Places
<1>2. CASE Still
  BY <1>2 DEF WayInv, Still
<1>3. ASSUME NEW f, NEW p, NEW q, Goes(f, p, q)
      PROVE  \A g \in Functions, r, s \in Places : At(r, g)' /\ At(s, g)' => r = s
  BY <1>1, <1>3 DEF WayInv, Goes
<1>4. QED
  BY <1>2, <1>3

\* An announced function was not on the bus, a forwarded one not in the queue.
LEMMA WayStep ==
    ASSUME TypeOK, WayInv, budget["redelivery"] = 0, Next \/ Unseen
    PROVE  WayInv'
<1> USE DEF buildQueueVars
<1>1. ASSUME UNCHANGED <<quarantineBus, extractionBus, analyzerQueue>>,
             Still \/ \E f, p, q : Goes(f, p, q)
      PROVE  WayInv'
  <2>1. \A f \in Functions, p, q \in Places : At(p, f)' /\ At(q, f)' => p = q
    BY <1>1, PlacesApart
  <2>2. QED
    BY <1>1, <2>1 DEF WayInv, Once
<1>2. /\ analyzerQueue \in [Functions -> Nat]
      /\ quarantineBus \in Seq(Functions) /\ extractionBus \in Seq(Functions)
      /\ qWorker.at \in {"update", "announce"} => qWorker.of \in Functions
      /\ xWorker \in Functions \cup {NoFunction}
      /\ {"created", "quarantineBus", "announce", "extractionBus", "xWorker", "analyzerQueue"}
           \subseteq Places
  BY FunctionStoreAssumption
  DEF FunctionStoreAssumption, TypeOK, StoreTypeOK, IntakeTypeOK, Places
<1> USE <1>2
<1>3. CASE Unseen
  <2>1. Still
    BY <1>3 DEF Unseen, intakeVars, analyzerVars, Still, At, B!Carried, InSequence
  <2>2. QED
    BY <1>1, <1>3, <2>1 DEF Unseen, intakeVars
<1>4. CASE BuildNext /\ UNCHANGED <<intakeVars, analyzerVars>>
  <2>1. UNCHANGED analyzerQueue
    BY <1>4 DEF BuildNext, BuilderStep, DeliverBuild, ClaimBuild, PrepareEnvironment, SaveDrive,
       RejectBuild, ResetBuild, FinishBuild, PoisonBuild, DeadLetterBuild,
       DeadLetterBuildFails, AckBuild, BuilderConnectionLost, VmSigterm, VmExit, VmCrash, VmStart
  <2>2. QED
    BY <1>1, <1>4, <2>1, WayOfBuilders DEF intakeVars
<1>5. CASE AnalyzerNext /\ UNCHANGED <<intakeVars, buildVars>>
  <2>1. Still \/ \E f, p, q : Goes(f, p, q)
    BY <1>5, WayOfAnalyzer DEF AnalyzerNext, AnalyzerProgress
  <2>2. ASSUME NEW f \in Functions, ReceiveUpload(f)
        PROVE  analyzerQueue' = [analyzerQueue EXCEPT ![f] = @ - 1]
    BY <2>2 DEF ReceiveUpload, Spend
  <2>3. UNCHANGED analyzerQueue \/ \E f \in Functions : ReceiveUpload(f)
    BY <1>5 DEF AnalyzerNext, AnalyzerProgress, Land, PassStage, EndAnalysis, RecordVerdict,
       CopyArchive, RemoveArchive, PublishBuild, SemgrepFails, AnalyzerCrash, AnalyzerStart
  <2>4. \A f \in Functions : analyzerQueue'[f] <= 1
    BY <2>2, <2>3 DEF WayInv
  <2>5. \A f \in Functions, p, q \in Places : At(p, f)' /\ At(q, f)' => p = q
    BY <2>1, PlacesApart
  <2>6. QED
    BY <1>5, <2>4, <2>5 DEF WayInv, Once, intakeVars
<1>6. CASE IntakeNext /\ UNCHANGED <<analyzerVars, buildVars>>
  <2>1. Still \/ \E f, p, q : Goes(f, p, q)
    BY <1>6, WayOfServer DEF IntakeNext, IntakeProgress
  <2>2. \A f \in Functions, p, q \in Places : At(p, f)' /\ At(q, f)' => p = q
    BY <2>1, PlacesApart
  <2>3. Once(quarantineBus)'
    <3>1. ASSUME NEW f \in Functions, AnnounceUpload(f)
          PROVE  Once(quarantineBus')
      <4>1. At("created", f) /\ quarantineBus' = Announced(quarantineBus, f)
        BY <3>1 DEF AnnounceUpload, UploadMoves, At
      <4>2. ~ At("quarantineBus", f)
        BY <4>1 DEF WayInv
      <4>3. ~ InSequence(quarantineBus, f)
        BY <4>2 DEF At
      <4>4. QED
        BY <4>1, <4>3, BusOnce DEF WayInv
    <3>2. ASSUME quarantineBus # << >>, quarantineBus' = Tail(quarantineBus)
          PROVE  Once(quarantineBus')
      <4>1. Head(quarantineBus) \in Functions
        BY <3>2
      <4>2. QED
        BY <3>2, <4>1, BusOnce DEF WayInv
    <3>3. ASSUME quarantineBus' = << >> \/ quarantineBus' = quarantineBus
          PROVE  Once(quarantineBus')
      BY <3>3 DEF Once, WayInv
    <3>4. Once(quarantineBus')
      BY <1>6, <3>1, <3>2, <3>3
      DEF IntakeNext, IntakeProgress, StoreArchive, CreateFunction, ExtractNext, RecordExtraction,
          AnnounceExtraction, ForwardNext, PublishToAnalyzer, ServerCrash, ServerStart, ServerDies
    <3>5. QED
      BY <3>4 DEF Once
  <2>4. Once(extractionBus)'
    <3>1. ASSUME AnnounceExtraction
          PROVE  Once(extractionBus')
      <4>1. /\ qWorker.of \in Functions /\ At("announce", qWorker.of)
            /\ extractionBus' = Announced(extractionBus, qWorker.of)
        BY <3>1 DEF AnnounceExtraction, At
      <4>2. ~ At("extractionBus", qWorker.of)
        BY <4>1 DEF WayInv
      <4>3. ~ InSequence(extractionBus, qWorker.of)
        BY <4>2 DEF At
      <4>4. QED
        BY <4>1, <4>3, BusOnce DEF WayInv
    <3>2. ASSUME extractionBus # << >>, extractionBus' = Tail(extractionBus)
          PROVE  Once(extractionBus')
      <4>1. Head(extractionBus) \in Functions
        BY <3>2
      <4>2. QED
        BY <3>2, <4>1, BusOnce DEF WayInv
    <3>3. ASSUME extractionBus' = << >> \/ extractionBus' = extractionBus
          PROVE  Once(extractionBus')
      BY <3>3 DEF Once, WayInv
    <3>4. Once(extractionBus')
      BY <1>6, <3>1, <3>2, <3>3
      DEF IntakeNext, IntakeProgress, StoreArchive, CreateFunction, AnnounceUpload, ExtractNext,
          RecordExtraction, ForwardNext, PublishToAnalyzer, ServerCrash, ServerStart, ServerDies
    <3>5. QED
      BY <3>4 DEF Once
  <2>5. \A f \in Functions : analyzerQueue'[f] <= 1
    <3>1. ASSUME PublishToAnalyzer
          PROVE  \A f \in Functions : analyzerQueue'[f] <= 1
      <4>1. xWorker \in Functions /\ At("xWorker", xWorker)
        BY <3>1 DEF PublishToAnalyzer, At
      <4>2. ~ At("analyzerQueue", xWorker)
        BY <4>1 DEF WayInv
      <4>3. analyzerQueue[xWorker] = 0
        BY <4>1, <4>2 DEF At
      <4>4. \/ UNCHANGED analyzerQueue
            \/ analyzerQueue' = [analyzerQueue EXCEPT ![xWorker] = @ + 1]
        BY <3>1 DEF PublishToAnalyzer
      <4>5. QED
        BY <4>1, <4>3, <4>4 DEF WayInv
    <3>2. UNCHANGED analyzerQueue \/ PublishToAnalyzer
      BY <1>6 DEF IntakeNext, IntakeProgress, StoreArchive, CreateFunction, AnnounceUpload,
         ExtractNext, RecordExtraction, AnnounceExtraction, ForwardNext, ServerCrash, ServerStart
    <3>3. QED
      BY <3>1, <3>2 DEF WayInv
  <2>6. QED
    BY <2>2, <2>3, <2>4, <2>5 DEF WayInv
<1>7. QED
  BY <1>3, <1>4, <1>5, <1>6 DEF Next

\* A step spends one fault or none.
LEMMA FaultsAreSpent ==
    ASSUME [CliNext]_cliVars
    PROVE  (\E l \in FaultKinds : Spend(l)) \/ UNCHANGED budget
<1> USE DEF FaultKinds, platformVars
<1>1. IntakeNext => (\E l \in FaultKinds : Spend(l)) \/ UNCHANGED budget
  BY DEF IntakeNext, IntakeProgress, StoreArchive, CreateFunction, AnnounceUpload, ExtractNext,
     RecordExtraction, AnnounceExtraction, ForwardNext, PublishToAnalyzer, ServerCrash,
     ServerStart, StatusUpdated, StatusUpdateFails
<1>2. AnalyzerNext => (\E l \in FaultKinds : Spend(l)) \/ UNCHANGED budget
  BY DEF AnalyzerNext, AnalyzerProgress, ReceiveUpload, Land, PassStage, EndAnalysis,
     RecordVerdict, CopyArchive, RemoveArchive, PublishBuild, SemgrepFails, AnalyzerCrash,
     AnalyzerStart, StatusUpdated, StatusUpdateFails
<1>3. DbOk \/ DbRefused \/ DbReplyLost => (\E l \in FaultKinds : Spend(l)) \/ UNCHANGED budget
  BY DEF DbOk, DbRefused, DbReplyLost
<1>4. ASSUME NEW c \in Builders, BuilderStep(c)
      PROVE  (\E l \in FaultKinds : Spend(l)) \/ UNCHANGED budget
  <2>1. ClaimBuild(c) \/ RejectBuild(c) \/ ResetBuild(c) \/ FinishBuild(c) \/ PoisonBuild(c)
          => DbOk \/ DbRefused \/ DbReplyLost
    BY DEF ClaimBuild, RejectBuild, ResetBuild, FinishBuild, PoisonBuild, SetFnStatusOrLog
  <2>2. QED
    BY <1>3, <1>4, <2>1
    DEF BuilderStep, PrepareEnvironment, SaveDrive, DeadLetterBuild, DeadLetterBuildFails, AckBuild
<1>5. BuildNext => (\E l \in FaultKinds : Spend(l)) \/ UNCHANGED budget
  BY <1>4 DEF BuildNext, DeliverBuild, BuilderConnectionLost, VmSigterm, VmExit, VmCrash, VmStart,
     CancelContext, ProcessExits, ProcessCrashes, ProcessStarts
<1>6. ASSUME NEW f \in Functions, Send(f) \/ Answered(f) \/ RequestFails(f) \/ ReadFinal(f)
      PROVE  (\E l \in FaultKinds : Spend(l)) \/ UNCHANGED budget
  BY <1>1, <1>6 DEF Send, IntakeNext, Answered, RequestFails, ReadFinal, vars
<1>7. UNCHANGED cliVars => UNCHANGED budget
  BY DEF cliVars, vars
<1>8. ServicesMove => (\E l \in FaultKinds : Spend(l)) \/ UNCHANGED budget
  BY <1>1, <1>2, <1>5 DEF ServicesMove, IntakeNext
<1>9. QED
  BY <1>6, <1>7, <1>8 DEF CliNext

\* A kind of fault that cannot happen any more cannot happen later either.
LEMMA NoNewFaults ==
    ASSUME CliTypeOK, [CliNext]_cliVars, NEW k \in FaultKinds, budget[k] = 0
    PROVE  budget'[k] = 0
<1>1. budget \in [FaultKinds -> Nat]
  BY DEF CliTypeOK, TypeOK, StoreTypeOK, PlatformTypeOK
<1>2. QED
  BY <1>1, FaultsAreSpent DEF Spend

\* What the acknowledgements and the way of a function rest on.
Way ==
    /\ CliTypeOK
    /\ budget["redelivery"] = 0
    /\ WayInv

LEMMA WayKept == CliSpec /\ budget["redelivery"] = 0 => []Way
<1>1. CliInit => WayInv
  BY FunctionStoreAssumption
  DEF FunctionStoreAssumption, CliInit, Init, StoreInit, IntakeInit, AnalyzerInit, IdleWorker,
      NoScan, WayInv, At, Once, InSequence, B!Init, B!Carried
<1>2. CliInit /\ budget["redelivery"] = 0 => Way
  BY <1>1, InitTypeOK DEF Way
<1>3. Way /\ [CliNext]_cliVars => Way'
  <2> SUFFICES ASSUME Way, [CliNext]_cliVars
               PROVE  Way'
    OBVIOUS
  <2>1. CliTypeOK'
    BY StepTypeOK DEF Way
  <2>2. "redelivery" \in FaultKinds
    BY DEF FaultKinds
  <2>3. budget'["redelivery"] = 0
    BY <2>2, NoNewFaults DEF Way
  <2>4. WayInv'
    BY StepOfServices, WayStep DEF Way, CliTypeOK
  <2>5. QED
    BY <2>1, <2>3, <2>4 DEF Way
<1>4. QED
  BY <1>2, <1>3, PTL DEF CliSpec

-----------------------------------------------------------------------------
(***************************************************************************)
(* The functions left in SCANNING.  A step leaves at most the one the      *)
(* analyzer is at behind, and only with a fault of its own.                *)
(***************************************************************************)
InHand == Analysis \cup {"record"}

StuckInv == IsFiniteSet(StuckScans) /\ StuckScansAreExplained

LEMMA StuckFor ==
    ASSUME NEW f
    PROVE  f \in StuckScans <=>
             f \in Functions /\ fnStatus[f] = "SCANNING" /\ ~ (scan.of = f /\ scan.at \in InHand)
BY DEF StuckScans, InHand

\* A step that leaves nobody behind.
LEMMA NobodyMoreStuck ==
    ASSUME CliTypeOK, CliTypeOK', [CliNext]_cliVars, StuckInv, StuckScans' \subseteq StuckScans
    PROVE  StuckInv'
<1>1. budget \in [FaultKinds -> Nat] /\ budget' \in [FaultKinds -> Nat]
  BY DEF CliTypeOK, TypeOK, StoreTypeOK, PlatformTypeOK
<1>2. \A k \in FaultKinds : budget'[k] <= budget[k]
  BY <1>1, FaultsAreSpent DEF Spend
<1>3. /\ IsFiniteSet(StuckScans') /\ Cardinality(StuckScans') <= Cardinality(StuckScans)
      /\ Cardinality(StuckScans') \in Nat /\ Cardinality(StuckScans) \in Nat
  BY FS_Subset, FS_CardinalityType DEF StuckInv
<1>4. PICK start \in Budgets :
        /\ \A k \in FaultKinds : budget[k] <= start[k]
        /\ Cardinality(StuckScans) <= (start["crash"] - budget["crash"])
                                    + (start["tool"] - budget["tool"])
                                    + (start["db"] - budget["db"])
  BY DEF StuckInv, StuckScansAreExplained
<1>5. start \in [FaultKinds -> Nat] /\ {"crash", "tool", "db"} \subseteq FaultKinds
  BY BudgetsAssumption DEF FaultKinds
<1>6. /\ \A k \in FaultKinds : budget'[k] <= start[k]
      /\ Cardinality(StuckScans') <= (start["crash"] - budget'["crash"])
                                   + (start["tool"] - budget'["tool"])
                                   + (start["db"] - budget'["db"])
  BY <1>1, <1>2, <1>3, <1>4, <1>5
<1>7. QED
  BY <1>3, <1>6 DEF StuckInv, StuckScansAreExplained

\* A step that leaves one behind, and spends a fault on it.
LEMMA OneMoreStuck ==
    ASSUME CliTypeOK, StuckInv, StuckScans' \subseteq StuckScans \cup {scan.of},
           NEW kind \in {"crash", "tool", "db"}, Spend(kind)
    PROVE  StuckInv'
<1>1. budget \in [FaultKinds -> Nat] /\ kind \in FaultKinds
  BY DEF CliTypeOK, TypeOK, StoreTypeOK, PlatformTypeOK, FaultKinds
<1>2. /\ IsFiniteSet(StuckScans \cup {scan.of})
      /\ Cardinality(StuckScans \cup {scan.of}) <= Cardinality(StuckScans) + 1
      /\ Cardinality(StuckScans) \in Nat
  <2>1. IsFiniteSet(StuckScans) /\ Cardinality(StuckScans) \in Nat
    BY FS_CardinalityType DEF StuckInv
  <2>2. /\ IsFiniteSet(StuckScans \cup {scan.of})
        /\ \/ Cardinality(StuckScans \cup {scan.of}) = Cardinality(StuckScans)
           \/ Cardinality(StuckScans \cup {scan.of}) = Cardinality(StuckScans) + 1
    BY <2>1, FS_AddElement
  <2>3. QED
    BY <2>1, <2>2
<1>3. /\ IsFiniteSet(StuckScans') /\ Cardinality(StuckScans') <= Cardinality(StuckScans \cup {scan.of})
      /\ Cardinality(StuckScans') \in Nat /\ Cardinality(StuckScans \cup {scan.of}) \in Nat
  BY <1>2, FS_Subset, FS_CardinalityType
<1>4. PICK start \in Budgets :
        /\ \A k \in FaultKinds : budget[k] <= start[k]
        /\ Cardinality(StuckScans) <= (start["crash"] - budget["crash"])
                                    + (start["tool"] - budget["tool"])
                                    + (start["db"] - budget["db"])
  BY DEF StuckInv, StuckScansAreExplained
<1>5. start \in [FaultKinds -> Nat] /\ {"crash", "tool", "db"} \subseteq FaultKinds
  BY BudgetsAssumption DEF FaultKinds
<1>6. budget'[kind] = budget[kind] - 1 /\ \A k \in FaultKinds \ {kind} : budget'[k] = budget[k]
  BY <1>1 DEF Spend
<1>7. \A k \in FaultKinds : budget'[k] <= start[k]
  BY <1>1, <1>4, <1>5, <1>6
<1>8. Cardinality(StuckScans') <= (start["crash"] - budget'["crash"])
                                + (start["tool"] - budget'["tool"])
                                + (start["db"] - budget'["db"])
  BY <1>1, <1>2, <1>3, <1>4, <1>5, <1>6
<1>9. QED
  BY <1>3, <1>7, <1>8 DEF StuckInv, StuckScansAreExplained

\* Neither the server nor a builder writes SCANNING.
LEMMA ScanningIsOfAnalyzer ==
    ASSUME TypeOK, IntakeNext \/ BuildNext, NEW f \in Functions, fnStatus'[f] = "SCANNING"
    PROVE  fnStatus[f] = "SCANNING"
<1>1. fnStatus \in [Functions -> FnStatuses]
  BY DEF TypeOK, StoreTypeOK
<1>2. UNCHANGED fnStatus \/ \E g, s : s # "SCANNING" /\ fnStatus' = [fnStatus EXCEPT ![g] = s]
  <2>1. ASSUME NEW g \in Functions, CreateFunction(g)
        PROVE  UNCHANGED fnStatus \/ fnStatus' = [fnStatus EXCEPT ![g] = "QUARANTINED"]
    BY <2>1 DEF CreateFunction, StatusUpdated, StatusUpdateFails, SetFnStatus
  <2>2. ASSUME RecordExtraction
        PROVE  /\ qWorker.status # "SCANNING"
               /\ \/ UNCHANGED fnStatus
                  \/ fnStatus' = [fnStatus EXCEPT ![qWorker.of] = qWorker.status]
    BY <2>2 DEF RecordExtraction, StatusUpdated, StatusUpdateFails, SetFnStatus, TypeOK,
       IntakeTypeOK
  <2>3. CASE IntakeNext
    BY <2>1, <2>2, <2>3
    DEF IntakeNext, IntakeProgress, StoreArchive, AnnounceUpload, ExtractNext, AnnounceExtraction,
        ForwardNext, PublishToAnalyzer, ServerCrash, ServerStart, tableVars
  <2>4. ASSUME NEW c \in Builders, BuilderStep(c)
        PROVE  UNCHANGED fnStatus \/ \E g, s : s # "SCANNING" /\ fnStatus' = [fnStatus EXCEPT ![g] = s]
    BY <2>4
    DEF BuilderStep, ClaimBuild, PrepareEnvironment, SaveDrive, RejectBuild, ResetBuild,
        FinishBuild, PoisonBuild, DeadLetterBuild, DeadLetterBuildFails, AckBuild,
        SetFnStatusOrLog, SetFnStatus, tableVars
  <2>5. CASE BuildNext
    BY <2>4, <2>5
    DEF BuildNext, DeliverBuild, BuilderConnectionLost, VmSigterm, VmExit, VmCrash, VmStart,
        tableVars
  <2>6. QED
    BY <2>3, <2>5
<1>3. QED
  BY <1>1, <1>2

LEMMA StuckOfAnalyzer ==
    ASSUME CliTypeOK, CliTypeOK', [CliNext]_cliVars, StuckInv, AnalyzerNext
    PROVE  StuckInv'
<1> USE DEF tableVars
<1>1. /\ fnStatus \in [Functions -> FnStatuses]
      /\ scan \in [at : ScanStages, of : Functions \cup {NoFunction}, verdict : AnalysisVerdicts]
      /\ scan.at # "idle" <=> scan.of # NoFunction
  BY DEF CliTypeOK, TypeOK, StoreTypeOK, AnalyzerTypeOK
<1>2. /\ {"idle", "land", "copy", "remove", "publish"} \cap InHand = {}
      /\ "download" \in InHand /\ "record" \in InHand
      /\ \A s \in DOMAIN NextStage : NextStage[s] \in InHand
  BY DEF InHand, Analysis, EndsWith, NextStage
<1>3. ASSUME scan.at \notin InHand \/ scan' = scan
                \/ (scan'.of = scan.of /\ scan'.at \in InHand),
             UNCHANGED fnStatus
      PROVE  StuckInv'
  <2>1. StuckScans' \subseteq StuckScans
    BY <1>3, StuckFor DEF StuckScans, InHand
  <2>2. QED
    BY <2>1, NobodyMoreStuck
<1>4. ASSUME NEW kind \in {"crash", "tool", "db"}, Spend(kind),
             \A f \in Functions \ {scan.of} : fnStatus'[f] = fnStatus[f]
      PROVE  StuckInv'
  <2>1. StuckScans' \subseteq StuckScans \cup {scan.of}
    BY <1>4 DEF StuckScans
  <2>2. QED
    BY <1>4, <2>1, OneMoreStuck
<1>5. ASSUME NEW f \in Functions, ReceiveUpload(f)
      PROVE  StuckInv'
  BY <1>2, <1>3, <1>5 DEF ReceiveUpload, ScanAt
<1>6. CASE Land
  <2>1. CASE StatusUpdated(scan.of, "SCANNING") /\ GoTo("download")
    <3>1. /\ fnStatus' = [fnStatus EXCEPT ![scan.of] = "SCANNING"]
          /\ scan'.of = scan.of /\ scan'.at = "download"
      BY <1>1, <2>1 DEF StatusUpdated, SetFnStatus, GoTo
    <3>2. scan.at = "land"
      BY <1>6 DEF Land, ScanAt
    <3>3. StuckScans' \subseteq StuckScans
      BY <1>1, <1>2, <3>1, <3>2 DEF StuckScans, InHand
    <3>4. QED
      BY <3>3, NobodyMoreStuck
  <2>2. CASE StatusUpdateFails(scan.of, "SCANNING")
    BY <1>1, <1>4, <2>2 DEF StatusUpdateFails, SetFnStatus
  <2>3. QED
    BY <1>6, <2>1, <2>2 DEF Land
<1>7. CASE PassStage
  BY <1>1, <1>2, <1>3, <1>7 DEF PassStage, ScanAt, GoTo
<1>8. CASE EndAnalysis
  BY <1>1, <1>2, <1>3, <1>8 DEF EndAnalysis
<1>9. CASE RecordVerdict
  <2>1. CASE StatusUpdated(scan.of, StatusOf(scan.verdict))
    <3>1. /\ fnStatus' = [fnStatus EXCEPT ![scan.of] = StatusOf(scan.verdict)]
          /\ StatusOf(scan.verdict) # "SCANNING"
      BY <2>1 DEF StatusUpdated, SetFnStatus, StatusOf
    <3>2. StuckScans' \subseteq StuckScans
      BY <1>1, <3>1 DEF StuckScans
    <3>3. QED
      BY <3>2, NobodyMoreStuck
  <2>2. CASE StatusUpdateFails(scan.of, StatusOf(scan.verdict))
    BY <1>1, <1>4, <2>2 DEF StatusUpdateFails, SetFnStatus
  <2>3. QED
    BY <1>9, <2>1, <2>2 DEF RecordVerdict
<1>10. CASE CopyArchive \/ RemoveArchive \/ PublishBuild
  BY <1>2, <1>3, <1>10 DEF CopyArchive, RemoveArchive, PublishBuild, ScanAt
<1>11. CASE SemgrepFails
  BY <1>4, <1>11 DEF SemgrepFails
<1>12. CASE AnalyzerCrash
  BY <1>4, <1>12 DEF AnalyzerCrash
<1>13. CASE AnalyzerStart
  BY <1>3, <1>13 DEF AnalyzerStart
<1>14. QED
  BY <1>5, <1>6, <1>7, <1>8, <1>9, <1>10, <1>11, <1>12, <1>13 DEF AnalyzerNext, AnalyzerProgress

(***************************************************************************)
(* A function whose scan nobody is at was left by the analyzer in a fault, *)
(* each by one of its own, under any faults, repeated deliveries and full  *)
(* buses (listener.go:58-117, analysis_orchestrator.go:50, store.go:45).   *)
(***************************************************************************)
THEOREM StuckOnlyByFaults == CliSpec => []StuckScansAreExplained
<1>1. CliInit => StuckInv
  <2> SUFFICES ASSUME CliInit
               PROVE  StuckInv
    OBVIOUS
  <2>1. StuckScans = {}
    BY DEF StuckScans, CliInit, Init, StoreInit
  <2>2. IsFiniteSet(StuckScans) /\ Cardinality(StuckScans) = 0
    BY <2>1, FS_EmptySet
  <2>3. budget \in Budgets /\ budget \in [FaultKinds -> Nat]
    BY BudgetsAssumption DEF CliInit, Init, StoreInit, PlatformInit
  <2>4. {"crash", "tool", "db"} \subseteq FaultKinds
    BY DEF FaultKinds
  <2>5. /\ \A k \in FaultKinds : budget[k] <= budget[k]
        /\ Cardinality(StuckScans) <= (budget["crash"] - budget["crash"])
                                    + (budget["tool"] - budget["tool"])
                                    + (budget["db"] - budget["db"])
    BY <2>2, <2>3, <2>4
  <2>6. QED
    BY <2>2, <2>3, <2>5 DEF StuckInv, StuckScansAreExplained
<1>2. CliTypeOK /\ StuckInv /\ [CliNext]_cliVars => StuckInv'
  <2> SUFFICES ASSUME CliTypeOK, StuckInv, [CliNext]_cliVars
               PROVE  StuckInv'
    OBVIOUS
  <2>1. CliTypeOK'
    BY StepTypeOK
  <2>2. ASSUME UNCHANGED scan, \A f \in Functions : fnStatus'[f] = "SCANNING" => fnStatus[f] = "SCANNING"
        PROVE  StuckInv'
    <3>1. StuckScans' \subseteq StuckScans
      BY <2>2 DEF StuckScans
    <3>2. QED
      BY <2>1, <3>1, NobodyMoreStuck
  <2>3. CASE IntakeNext /\ UNCHANGED <<analyzerVars, buildVars>>
    BY <2>2, <2>3, ScanningIsOfAnalyzer DEF analyzerVars, CliTypeOK
  <2>4. CASE BuildNext /\ UNCHANGED <<intakeVars, analyzerVars>>
    BY <2>2, <2>4, ScanningIsOfAnalyzer DEF analyzerVars, CliTypeOK
  <2>5. CASE AnalyzerNext
    BY <2>1, <2>5, StuckOfAnalyzer
  <2>6. CASE Unseen
    BY <2>2, <2>6 DEF Unseen, tableVars, analyzerVars
  <2>7. QED
    BY <2>3, <2>4, <2>5, <2>6, StepOfServices DEF Next
<1>3. QED
  BY <1>1, <1>2, PipelineTypeCorrect, PTL DEF CliSpec, StuckInv

-----------------------------------------------------------------------------
(***************************************************************************)
(* The builders.  A row that is being built is not claimable: VERIFIED is  *)
(* written by its own builder when it gives up, or by the analyzer before  *)
(* there is a build message.                                               *)
(***************************************************************************)
ApartInv ==
    /\ OneBuilder
    /\ \A f \in Functions, c \in Builders : Builds(c, f) => fnStatus[f] # "VERIFIED"

\* No build begins, and no row under construction becomes claimable.
LEMMA ApartKept ==
    ASSUME ApartInv,
           \A f \in Functions, c \in Builders : Builds(c, f)' => Builds(c, f),
           \A f \in Functions : fnStatus'[f] = "VERIFIED" =>
               fnStatus[f] = "VERIFIED" \/ \A c \in Builders : ~ Builds(c, f)'
    PROVE  ApartInv'
BY DEF ApartInv, OneBuilder

\* Only a builder and a verdict make a row VERIFIED.
LEMMA VerifiedByVerdict ==
    ASSUME TypeOK, IntakeNext \/ AnalyzerNext, NEW f \in Functions,
           fnStatus'[f] = "VERIFIED", fnStatus[f] # "VERIFIED"
    PROVE  RecordVerdict /\ f = scan.of
<1>1. fnStatus \in [Functions -> FnStatuses] /\ qWorker.status \in {"EXTRACTED", "FAILED"}
  BY DEF TypeOK, StoreTypeOK, IntakeTypeOK
<1> USE DEF tableVars
<1>2. ASSUME NEW g \in Functions, CreateFunction(g)
      PROVE  fnStatus' = fnStatus \/ fnStatus' = [fnStatus EXCEPT ![g] = "QUARANTINED"]
  BY <1>2 DEF CreateFunction, StatusUpdated, StatusUpdateFails, SetFnStatus
<1>3. ASSUME RecordExtraction
      PROVE  fnStatus' = fnStatus \/ fnStatus' = [fnStatus EXCEPT ![qWorker.of] = qWorker.status]
  BY <1>3 DEF RecordExtraction, StatusUpdated, StatusUpdateFails, SetFnStatus
<1>4. ASSUME Land
      PROVE  fnStatus' = fnStatus \/ fnStatus' = [fnStatus EXCEPT ![scan.of] = "SCANNING"]
  BY <1>4 DEF Land, StatusUpdated, StatusUpdateFails, SetFnStatus
<1>5. ASSUME RecordVerdict
      PROVE  \/ fnStatus' = fnStatus
             \/ fnStatus' = [fnStatus EXCEPT ![scan.of] = StatusOf(scan.verdict)]
  BY <1>5 DEF RecordVerdict, StatusUpdated, StatusUpdateFails, SetFnStatus
<1>6. \/ UNCHANGED fnStatus \/ RecordExtraction \/ Land \/ RecordVerdict
      \/ \E g \in Functions : CreateFunction(g)
  BY DEF IntakeNext, IntakeProgress, StoreArchive, AnnounceUpload, ExtractNext,
     AnnounceExtraction, ForwardNext, PublishToAnalyzer, ServerCrash, ServerStart,
     AnalyzerNext, AnalyzerProgress, ReceiveUpload, PassStage, EndAnalysis, CopyArchive,
     RemoveArchive, PublishBuild, SemgrepFails, AnalyzerCrash, AnalyzerStart
<1>7. RecordVerdict
  BY <1>1, <1>2, <1>3, <1>4, <1>6
<1>8. QED
  BY <1>1, <1>5, <1>7

LEMMA ApartStep == TypeOK /\ WayInv /\ ApartInv /\ (Next \/ Unseen) => ApartInv'
<1> SUFFICES ASSUME TypeOK, WayInv, ApartInv, Next \/ Unseen
             PROVE  ApartInv'
  OBVIOUS
<1> USE DEF buildQueueVars, buildVars, tableVars
<1>1. /\ fnStatus \in [Functions -> FnStatuses]
      /\ step \in [Builders -> BuildSteps]
      /\ pc \in [Builders -> B!Stages]
      /\ job \in [Builders -> Functions \cup {NoFunction}]
      /\ \A c \in Builders : pc[c] # "idle" => job[c] \in Functions
      /\ \A c \in Builders : pc[c] # "handle" => step[c] = "claim"
      /\ NoFunction \notin Functions
  BY FunctionStoreAssumption
  DEF FunctionStoreAssumption, TypeOK, StoreTypeOK, BuildTypeOK, B!TypeOK
<1>2. CASE \/ IntakeNext /\ UNCHANGED <<analyzerVars, buildVars>>
           \/ AnalyzerNext /\ UNCHANGED <<intakeVars, buildVars>>
  <2>1. UNCHANGED <<job, step>>
    BY <1>2, ReadyIsOfBuilders
  <2>2. \A f \in Functions, c \in Builders : Builds(c, f)' <=> Builds(c, f)
    BY <2>1 DEF Builds
  <2>3. ASSUME NEW f \in Functions, fnStatus'[f] = "VERIFIED", fnStatus[f] # "VERIFIED"
        PROVE  \A c \in Builders : ~ Builds(c, f)
    <3>1. RecordVerdict /\ f = scan.of
      BY <1>2, <2>3, VerifiedByVerdict
    <3>2. At("record", f)
      BY <3>1 DEF RecordVerdict, ScanAt, At
    <3>3. ~ At("build", f)
      BY <3>2 DEF WayInv, Places
    <3>4. QED
      BY <3>3 DEF At, B!Carried, Builds
  <2>4. QED
    BY <2>2, <2>3, ApartKept
<1>3. CASE Unseen
  BY <1>3, ApartKept DEF Unseen, Builds
<1>4. ASSUME NEW c \in Builders, NEW f \in Functions, B!Deliver(c, f), UNCHANGED <<step, fnStatus>>
      PROVE  ApartInv'
  <2>1. step[c] = "claim" /\ job' = [job EXCEPT ![c] = f]
    BY <1>1, <1>4 DEF B!Deliver, B!Move
  <2>2. \A g \in Functions, d \in Builders : Builds(d, g)' => Builds(d, g)
    BY <1>1, <1>4, <2>1 DEF Builds
  <2>3. QED
    BY <1>4, <2>2, ApartKept
<1>5. ASSUME NEW c \in Builders, ClaimBuild(c)
      PROVE  ApartInv'
  <2>1. UNCHANGED job /\ job[c] \in Functions
    BY <1>1, <1>5 DEF ClaimBuild, BuilderAt, B!ReturnNil, B!ReturnError
  <2>2. CASE /\ fnStatus[job[c]] = "VERIFIED"
             /\ fnStatus' = [fnStatus EXCEPT ![job[c]] = "PREPARING_ENVIRONMENT"]
             /\ step' = [step EXCEPT ![c] = "prepare"]
    BY <1>1, <2>1, <2>2 DEF ApartInv, OneBuilder, Builds
  <2>3. CASE /\ \/ fnStatus' = fnStatus
                \/ fnStatus' = [fnStatus EXCEPT ![job[c]] = "PREPARING_ENVIRONMENT"]
             /\ UNCHANGED step
    BY <1>1, <2>1, <2>3, ApartKept DEF Builds
  <2>4. QED
    BY <1>5, <2>2, <2>3 DEF ClaimBuild, SetFnStatus
<1>6. ASSUME NEW c \in Builders, PrepareEnvironment(c) \/ SaveDrive(c)
      PROVE  ApartInv'
  <2>1. UNCHANGED <<fnStatus, job>> /\ step[c] # "claim"
    BY <1>6 DEF PrepareEnvironment, SaveDrive, Proceeds, BuilderAt
  <2>2. \E s : step' = [step EXCEPT ![c] = s]
    BY <1>6 DEF PrepareEnvironment, SaveDrive, Proceeds
  <2>3. \A f \in Functions, d \in Builders : Builds(d, f)' => Builds(d, f)
    BY <1>1, <2>1, <2>2 DEF Builds
  <2>4. QED
    BY <2>1, <2>3, ApartKept
<1>7. ASSUME NEW c \in Builders, RejectBuild(c) \/ ResetBuild(c) \/ FinishBuild(c)
      PROVE  ApartInv'
  <2>1. /\ UNCHANGED job
        /\ step' = [step EXCEPT ![c] = "claim"]
        /\ step[c] # "claim" /\ job[c] \in Functions
        /\ fnStatus' = fnStatus \/ \E s : fnStatus' = [fnStatus EXCEPT ![job[c]] = s]
    <3>1. step[c] # "claim" /\ job[c] \in Functions
      BY <1>1, <1>7 DEF RejectBuild, ResetBuild, FinishBuild, BuilderAt
    <3>2. UNCHANGED job /\ step' = [step EXCEPT ![c] = "claim"]
      BY <1>7 DEF RejectBuild, ResetBuild, FinishBuild, LeavesPrepare, B!ReturnNil, B!ReturnError
    <3>3. fnStatus' = fnStatus \/ \E s : fnStatus' = [fnStatus EXCEPT ![job[c]] = s]
      BY <1>7 DEF RejectBuild, ResetBuild, FinishBuild, SetFnStatusOrLog, SetFnStatus
    <3>4. QED
      BY <3>1, <3>2, <3>3
  <2>2. \A f \in Functions, d \in Builders : Builds(d, f)' => Builds(d, f) /\ d # c
    BY <1>1, <2>1 DEF Builds
  <2>3. \A f \in Functions, d \in Builders : f = job[c] => ~ Builds(d, f)'
    BY <2>1, <2>2 DEF ApartInv, OneBuilder, Builds
  <2>4. \A f \in Functions : fnStatus'[f] = "VERIFIED" => fnStatus[f] = "VERIFIED" \/ f = job[c]
    BY <1>1, <2>1
  <2>5. QED
    BY <2>2, <2>3, <2>4, ApartKept
<1>8. ASSUME NEW c \in Builders,
             \/ PoisonBuild(c) \/ DeadLetterBuild(c) \/ DeadLetterBuildFails(c)
             \/ AckBuild(c) \/ BuilderConnectionLost(c)
      PROVE  ApartInv'
  <2>1. UNCHANGED step
    BY <1>8 DEF PoisonBuild, DeadLetterBuild, DeadLetterBuildFails, AckBuild, BuilderConnectionLost
  <2>2. fnStatus' = fnStatus \/ fnStatus' = [fnStatus EXCEPT ![job[c]] = "FAILED"]
    BY <1>8 DEF PoisonBuild, DeadLetterBuild, DeadLetterBuildFails, AckBuild,
       BuilderConnectionLost, SetFnStatusOrLog, SetFnStatus
  <2>3. job' = job \/ job' = [job EXCEPT ![c] = NoFunction]
    BY <1>8
    DEF PoisonBuild, DeadLetterBuild, DeadLetterBuildFails, AckBuild, BuilderConnectionLost,
        B!StatusWritten, B!DeadLetterSent, B!TryAgain, B!Nack, B!Ack, B!Released,
        B!ConnectionLost
  <2>4. \A f \in Functions, d \in Builders : Builds(d, f)' => Builds(d, f)
    BY <1>1, <2>1, <2>3 DEF Builds
  <2>5. \A f \in Functions : fnStatus'[f] = "VERIFIED" => fnStatus[f] = "VERIFIED"
    BY <1>1, <2>2
  <2>6. QED
    BY <2>4, <2>5, ApartKept
<1>9. CASE VmSigterm \/ VmExit \/ VmStart
  BY <1>9, ApartKept DEF VmSigterm, VmExit, VmStart, Builds
<1>10. CASE VmCrash
  BY <1>10, ApartKept DEF VmCrash, Builds
<1>11. QED
  BY <1>2, <1>3, <1>4, <1>5, <1>6, <1>7, <1>8, <1>9, <1>10
  DEF Next, BuildNext, BuilderStep, DeliverBuild

(***************************************************************************)
(* Two microVMs never prepare the same function at a time, whatever        *)
(* connections the builders lose and whatever statements fail, as long as  *)
(* the analyzer's acknowledgements arrive (prepare.go:24-48,               *)
(* listener.go:70-100).                                                    *)
(***************************************************************************)
THEOREM OneBuilderAtATime == CliSpec /\ budget["redelivery"] = 0 => []OneBuilder
<1>1. CliInit => ApartInv
  BY DEF CliInit, Init, BuildInit, ApartInv, OneBuilder, Builds
<1>2. Way /\ ApartInv /\ [CliNext]_cliVars => ApartInv'
  BY StepOfServices, ApartStep DEF Way, CliTypeOK
<1>3. ApartInv => OneBuilder
  BY DEF ApartInv
<1>4. QED
  BY <1>1, <1>2, <1>3, WayKept, PTL DEF CliSpec

-----------------------------------------------------------------------------
(***************************************************************************)
(* Who works on a function.  A status that says so is given up by its      *)
(* holder only for the next holder, as long as nothing fails but           *)
(* connections of builders, and the buses have room for every function.    *)
(***************************************************************************)
OnlyLosses == \A k \in FaultKinds \ {"loss"} : budget[k] = 0

Room == IsFiniteSet(Functions) /\ Cardinality(Functions) <= BusCapacity

\* A build of f is still to be claimed, or its failure still to be recorded.
Waits(f) ==
    \/ queue[f] > 0
    \/ \E c \in Builders : job[c] = f /\ (BuilderAt(c, "claim") \/ pc[c] = "poison")

Held(f) ==
    /\ fnStatus[f] = "QUARANTINED" => At("created", f) \/ At("quarantineBus", f) \/ At("update", f)
    /\ fnStatus[f] = "EXTRACTED" =>
         \/ At("announce", f) \/ At("extractionBus", f) \/ At("xWorker", f)
         \/ At("analyzerQueue", f) \/ At("land", f)
    /\ fnStatus[f] = "SCANNING" => At("analysis", f) \/ At("record", f)
    /\ fnStatus[f] = "VERIFIED" /\ "SAFE" \in verdicts[f] => At("move", f) \/ Waits(f)
    /\ fnStatus[f] = "PREPARING_ENVIRONMENT" => \E c \in Builders : Builds(c, f)

AllHeld == \A f \in Functions : Held(f)

\* The verdict that is recorded is the first one on its function.
Unjudged == Places \ {"record", "move", "build"}

FirstVerdict ==
    \A f \in Functions :
        /\ \A p \in Unjudged : At(p, f) => verdicts[f] = {} /\ fnStatus[f] # "VERIFIED"
        /\ At("record", f) => verdicts[f] = {scan.verdict}

\* What Held says, said of the statuses and places by their names.
LEMMA HeldIsWorkedOn ==
    ASSUME TypeOK, NEW f \in Functions, Held(f)
    PROVE  WorkedOn(f)
<1>1. /\ fnStatus[f] = "VERIFIED" /\ "SAFE" \in verdicts[f] =>
             (scan.of = f /\ scan.at \in {"copy", "remove", "publish"}) \/ B!Carried(f)
      /\ fnStatus[f] = "PREPARING_ENVIRONMENT" => \E c \in Builders : Builds(c, f)
  BY DEF Held, At, Waits, B!Carried
<1>2. /\ fnStatus[f] = "QUARANTINED" => \/ upload[f] = "created" \/ InSequence(quarantineBus, f)
                                        \/ qWorker.of = f /\ qWorker.at = "update"
      /\ fnStatus[f] = "SCANNING" => scan.of = f /\ scan.at \in Analysis \cup {"record"}
      /\ fnStatus[f] = "EXTRACTED" =>
            \/ qWorker.of = f /\ qWorker.at = "announce"
            \/ InSequence(extractionBus, f) \/ xWorker = f \/ analyzerQueue[f] > 0
            \/ scan.of = f /\ scan.at = "land"
  BY DEF Held, At
<1>3. QED
  BY <1>1, <1>2 DEF WorkedOn

\* A bus that has each of its functions once has room for another one.
LEMMA BusHasRoom ==
    ASSUME Room, NEW bus \in Seq(Functions), Once(bus), NEW f \in Functions, ~ InSequence(bus, f)
    PROVE  /\ InSequence(Announced(bus, f), f)
           /\ \A g : InSequence(bus, g) => InSequence(Announced(bus, f), g)
<1> DEFINE Others == Functions \ {f}
<1>1. /\ Len(bus) \in Nat /\ DOMAIN bus = 1 .. Len(bus)
      /\ \A k \in 1 .. Len(bus) : bus[k] \in Functions
  OBVIOUS
<1>2. bus \in Injection(1 .. Len(bus), Others)
  <2>1. bus \in [1 .. Len(bus) -> Others]
    BY <1>1 DEF InSequence
  <2>2. QED
    BY <1>1, <2>1 DEF Once, Injection, IsInjective
<1>3. /\ IsFiniteSet(Others)
      /\ Cardinality(Functions) \in Nat
      /\ Cardinality(Others) = Cardinality(Functions) - 1
  BY FS_RemoveElement, FS_CardinalityType DEF Room
<1>4. Cardinality(1 .. Len(bus)) = Len(bus)
  <2>1. Cardinality(1 .. Len(bus)) = IF 1 > Len(bus) THEN 0 ELSE Len(bus) - 1 + 1
    BY <1>1, FS_Interval
  <2>2. QED
    BY <1>1, <2>1
<1>5. Cardinality(1 .. Len(bus)) <= Cardinality(Others)
  BY <1>2, <1>3, FS_Injection
<1>6. Len(bus) < BusCapacity
  BY <1>1, <1>3, <1>4, <1>5, IntakeAssumption DEF IntakeAssumption, Room
<1>7. Announced(bus, f) = Append(bus, f)
  BY <1>6 DEF Announced
<1>8. QED
  BY <1>1, <1>7 DEF InSequence

\* What is not at the head of a bus stays on it.
LEMMA BusTail ==
    ASSUME NEW bus \in Seq(Functions), bus # << >>, NEW g, InSequence(bus, g), g # Head(bus)
    PROVE  InSequence(Tail(bus), g)
<1>1. PICK k \in DOMAIN bus : bus[k] = g
  BY DEF InSequence
<1>2. k # 1 /\ k \in 1 .. Len(bus) /\ Len(bus) \in Nat
  BY <1>1
<1>3. k - 1 \in DOMAIN Tail(bus) /\ Tail(bus)[k - 1] = g
  BY <1>1, <1>2
<1>4. QED
  BY <1>3 DEF InSequence

\* The status that the holder at a place answers for.
Says(p) ==
    CASE p = "request" -> "NOROW"
      [] p \in {"created", "quarantineBus", "update"} -> "QUARANTINED"
      [] p \in {"announce", "extractionBus", "xWorker", "analyzerQueue", "land"} -> "EXTRACTED"
      [] p \in {"analysis", "record"} -> "SCANNING"
      [] OTHER -> "VERIFIED"

\* A function whose row, holder and builds are left alone keeps its holder.
LEMMA HeldOn ==
    ASSUME NEW f \in Functions, Held(f),
           fnStatus'[f] = fnStatus[f], verdicts'[f] = verdicts[f] \/ fnStatus[f] # "VERIFIED",
           \A p \in Places \ {"build"} : At(p, f) /\ Says(p) = fnStatus[f] => At(p, f)',
           fnStatus[f] = "VERIFIED" /\ Waits(f) => Waits(f)',
           \A c \in Builders : Builds(c, f) => \E d \in Builders : Builds(d, f)'
    PROVE  Held(f)'
<1>1. fnStatus[f] = "QUARANTINED" =>
        /\ At("created", f) => At("created", f)'
        /\ At("quarantineBus", f) => At("quarantineBus", f)'
        /\ At("update", f) => At("update", f)'
  BY DEF Places, Says
<1>2. fnStatus[f] = "EXTRACTED" =>
        /\ At("announce", f) => At("announce", f)'
        /\ At("extractionBus", f) => At("extractionBus", f)'
        /\ At("xWorker", f) => At("xWorker", f)'
        /\ At("analyzerQueue", f) => At("analyzerQueue", f)'
        /\ At("land", f) => At("land", f)'
  BY DEF Places, Says
<1>3. fnStatus[f] = "SCANNING" =>
        /\ At("analysis", f) => At("analysis", f)'
        /\ At("record", f) => At("record", f)'
  BY DEF Places, Says
<1>4. fnStatus[f] = "VERIFIED" => (At("move", f) => At("move", f)')
  BY DEF Places, Says
<1> HIDE DEF At, Waits, Builds
<1>5. QED
  BY <1>1, <1>2, <1>3, <1>4 DEF Held

\* A function goes from p to q, and everybody else stays where he is.
Moves(f, p, q) ==
    \A g \in Functions :
        /\ g = f => At(q, g)'
        /\ \A r \in Places \ {"build"} : At(r, g) /\ ~ (g = f /\ r = p) => At(r, g)'

Rests == \A g \in Functions, r \in Places \ {"build"} : At(r, g) => At(r, g)'

BuildsRest == UNCHANGED <<queue, pc, job, step>>

LEMMA BuildsStay ==
    ASSUME BuildsRest, NEW f
    PROVE  /\ Waits(f) => Waits(f)'
           /\ \A c \in Builders : Builds(c, f) => \E d \in Builders : Builds(d, f)'
BY DEF BuildsRest, Waits, Builds, BuilderAt

LEMMA HeldByAll ==
    ASSUME AllHeld, Rests, BuildsRest, UNCHANGED <<fnStatus, verdicts>>
    PROVE  AllHeld'
BY HeldOn, BuildsStay DEF AllHeld, Rests

\* One function moves on with its status, or gets the status of its new place.
LEMMA HeldOnTheWay ==
    ASSUME AllHeld, NEW f \in Functions, NEW p \in Places, NEW q \in Places, Moves(f, p, q),
           q \notin {"request", "move", "build"}, BuildsRest,
           \A g \in Functions : g # f => fnStatus'[g] = fnStatus[g] /\ verdicts'[g] = verdicts[g],
           \/ /\ fnStatus'[f] = fnStatus[f] /\ Says(p) = Says(q)
              /\ verdicts'[f] = verdicts[f] \/ fnStatus[f] # "VERIFIED"
           \/ fnStatus'[f] \in {Says(q), "FAILED"}
    PROVE  AllHeld'
<1> SUFFICES ASSUME NEW g \in Functions
             PROVE  Held(g)'
  BY DEF AllHeld
<1>1. CASE g # f
  BY <1>1, HeldOn, BuildsStay DEF Moves, AllHeld
<1>2. ASSUME g = f, fnStatus'[f] = Says(q)
      PROVE  Held(g)'
  BY <1>2 DEF Moves, Held, Says, At
<1>3. ASSUME g = f, fnStatus'[f] = "FAILED"
      PROVE  Held(g)'
  BY <1>3 DEF Held
<1>4. ASSUME g = f, fnStatus'[f] = fnStatus[f], Says(p) = Says(q), fnStatus'[f] # Says(q),
             verdicts'[f] = verdicts[f] \/ fnStatus[f] # "VERIFIED"
      PROVE  Held(g)'
  BY <1>4, HeldOn, BuildsStay DEF Moves, AllHeld
<1>5. QED
  BY <1>1, <1>2, <1>3, <1>4 DEF Says

\* Where the functions go in the server.
LEMMA MovesOfServer ==
    ASSUME TypeOK, WayInv, OnlyLosses, Room, UNCHANGED <<analyzerVars, buildVars>>
    PROVE  /\ \A f \in Functions :
                /\ StoreArchive(f) => Rests
                /\ CreateFunction(f) => Moves(f, "request", "created")
                /\ AnnounceUpload(f) => Moves(f, "created", "quarantineBus")
           /\ ExtractNext => Moves(Head(quarantineBus), "quarantineBus", "update")
           /\ RecordExtraction => Moves(qWorker.of, "update", "announce")
           /\ AnnounceExtraction => Moves(qWorker.of, "announce", "extractionBus")
           /\ ForwardNext => Moves(Head(extractionBus), "extractionBus", "xWorker")
           /\ PublishToAnalyzer => Moves(xWorker, "xWorker", "analyzerQueue")
           /\ ~ ServerCrash
           /\ ServerStart => Rests
<1> USE DEF buildQueueVars, analyzerVars
<1>1. /\ analyzerQueue \in [Functions -> Nat]
      /\ upload \in [Functions -> UploadStages]
      /\ quarantineBus \in Seq(Functions) /\ extractionBus \in Seq(Functions)
      /\ qWorker.at \in {"update", "announce"} <=> qWorker.of # NoFunction
      /\ qWorker \in [at : WorkerStages, of : Functions \cup {NoFunction},
                      status : {"EXTRACTED", "FAILED"}]
      /\ xWorker \in Functions \cup {NoFunction}
      /\ NoFunction \notin Functions
      /\ Once(quarantineBus) /\ Once(extractionBus)
      /\ UNCHANGED scan
  BY FunctionStoreAssumption
  DEF FunctionStoreAssumption, TypeOK, StoreTypeOK, IntakeTypeOK, WayInv
<1>2. ~ Spend("db") /\ ~ Spend("minio") /\ ~ Spend("amqp") /\ ~ Spend("crash")
  BY DEF OnlyLosses, Spend, FaultKinds
<1> USE <1>1, <1>2
<1>3. ASSUME NEW f \in Functions, StoreArchive(f)
      PROVE  Rests
  <2>1. /\ UNCHANGED <<analyzerQueue, quarantineBus, extractionBus, qWorker, xWorker>>
        /\ upload[f] = "idle" /\ upload' = [upload EXCEPT ![f] = "stored"]
    BY <1>3 DEF StoreArchive, UploadMoves
  <2>2. QED
    BY <2>1 DEF Rests, At, InSequence
<1>4. ASSUME NEW f \in Functions, CreateFunction(f)
      PROVE  Moves(f, "request", "created")
  <2>1. /\ UNCHANGED <<analyzerQueue, quarantineBus, extractionBus, qWorker, xWorker>>
        /\ upload[f] = "stored" /\ upload' = [upload EXCEPT ![f] = "created"]
    BY <1>4 DEF CreateFunction, UploadMoves, StatusUpdateFails
  <2>2. QED
    BY <2>1 DEF Moves, At, InSequence
<1>5. ASSUME NEW f \in Functions, AnnounceUpload(f)
      PROVE  Moves(f, "created", "quarantineBus")
  <2>1. /\ UNCHANGED <<analyzerQueue, extractionBus, qWorker, xWorker>>
        /\ upload[f] = "created" /\ upload' = [upload EXCEPT ![f] = "ok"]
        /\ quarantineBus' = Announced(quarantineBus, f)
    BY <1>5 DEF AnnounceUpload, UploadMoves
  <2>2. ~ InSequence(quarantineBus, f)
    BY <2>1 DEF WayInv, At, Places
  <2>3. /\ InSequence(Announced(quarantineBus, f), f)
        /\ \A g \in Functions : InSequence(quarantineBus, g) => InSequence(Announced(quarantineBus, f), g)
    BY <2>2, BusHasRoom
  <2>4. /\ \A g \in Functions : g = f => InSequence(quarantineBus, g)'
        /\ \A g \in Functions : /\ InSequence(quarantineBus, g) => InSequence(quarantineBus, g)'
                                /\ InSequence(extractionBus, g) => InSequence(extractionBus, g)'
    BY <2>1, <2>3 DEF InSequence
  <2>5. QED
    BY <2>1, <2>4 DEF Moves, At
<1>6. ASSUME ExtractNext
      PROVE  Moves(Head(quarantineBus), "quarantineBus", "update")
  <2>1. /\ UNCHANGED <<analyzerQueue, upload, extractionBus, xWorker>>
        /\ qWorker.at = "idle" /\ quarantineBus # << >> /\ quarantineBus' = Tail(quarantineBus)
        /\ qWorker'.at = "update" /\ qWorker'.of = Head(quarantineBus)
    BY <1>6 DEF ExtractNext
  <2>2. \A g \in Functions : InSequence(quarantineBus, g) /\ g # Head(quarantineBus)
               => InSequence(Tail(quarantineBus), g)
    BY <2>1, BusTail
  <2>3. \A g \in Functions : /\ InSequence(quarantineBus, g) /\ g # Head(quarantineBus)
                                => InSequence(quarantineBus, g)'
                             /\ InSequence(extractionBus, g) => InSequence(extractionBus, g)'
    BY <2>1, <2>2 DEF InSequence
  <2>4. QED
    BY <2>1, <2>3 DEF Moves, At
<1>7. ASSUME RecordExtraction
      PROVE  Moves(qWorker.of, "update", "announce")
  <2>1. /\ UNCHANGED <<analyzerQueue, upload, quarantineBus, extractionBus, xWorker>>
        /\ qWorker.at = "update" /\ qWorker'.at = "announce" /\ qWorker'.of = qWorker.of
    BY <1>7 DEF RecordExtraction, StatusUpdateFails
  <2>2. QED
    BY <2>1 DEF Moves, At, InSequence
<1>8. ASSUME AnnounceExtraction
      PROVE  Moves(qWorker.of, "announce", "extractionBus")
  <2>1. /\ UNCHANGED <<analyzerQueue, upload, quarantineBus, xWorker>>
        /\ qWorker.at = "announce" /\ qWorker' = IdleWorker
        /\ qWorker.of \in Functions
        /\ extractionBus' = Announced(extractionBus, qWorker.of)
    BY <1>8 DEF AnnounceExtraction
  <2>2. ~ InSequence(extractionBus, qWorker.of)
    BY <2>1 DEF WayInv, At, Places
  <2>3. /\ InSequence(Announced(extractionBus, qWorker.of), qWorker.of)
        /\ \A g \in Functions : InSequence(extractionBus, g) => InSequence(Announced(extractionBus, qWorker.of), g)
    BY <2>1, <2>2, BusHasRoom
  <2>4. /\ \A g \in Functions : g = qWorker.of => InSequence(extractionBus, g)'
        /\ \A g \in Functions : /\ InSequence(quarantineBus, g) => InSequence(quarantineBus, g)'
                                /\ InSequence(extractionBus, g) => InSequence(extractionBus, g)'
    BY <2>1, <2>3 DEF InSequence
  <2>5. QED
    BY <2>1, <2>4 DEF Moves, At
<1>9. ASSUME ForwardNext
      PROVE  Moves(Head(extractionBus), "extractionBus", "xWorker")
  <2>1. /\ UNCHANGED <<analyzerQueue, upload, quarantineBus, qWorker>>
        /\ xWorker = NoFunction /\ xWorker' = Head(extractionBus)
        /\ extractionBus # << >> /\ extractionBus' = Tail(extractionBus)
    BY <1>9 DEF ForwardNext
  <2>2. \A g \in Functions : InSequence(extractionBus, g) /\ g # Head(extractionBus)
               => InSequence(Tail(extractionBus), g)
    BY <2>1, BusTail
  <2>3. \A g \in Functions : /\ InSequence(extractionBus, g) /\ g # Head(extractionBus)
                                => InSequence(extractionBus, g)'
                             /\ InSequence(quarantineBus, g) => InSequence(quarantineBus, g)'
    BY <2>1, <2>2 DEF InSequence
  <2>4. QED
    BY <2>1, <2>3 DEF Moves, At
<1>10. ASSUME PublishToAnalyzer
       PROVE  Moves(xWorker, "xWorker", "analyzerQueue")
  <2>1. /\ UNCHANGED <<upload, quarantineBus, extractionBus, qWorker>>
        /\ xWorker \in Functions /\ xWorker' = NoFunction
        /\ analyzerQueue' = [analyzerQueue EXCEPT ![xWorker] = @ + 1]
    BY <1>10 DEF PublishToAnalyzer
  <2>2. QED
    BY <2>1 DEF Moves, At, InSequence
<1>11. ASSUME ServerStart
       PROVE  Rests
  <2>1. UNCHANGED <<analyzerQueue, upload, quarantineBus, extractionBus, qWorker, xWorker>>
    BY <1>11 DEF ServerStart
  <2>2. QED
    BY <2>1 DEF Rests, At, InSequence
<1>12. ~ ServerCrash
  BY DEF ServerCrash
<1>13. QED
  BY <1>3, <1>4, <1>5, <1>6, <1>7, <1>8, <1>9, <1>10, <1>11, <1>12

\* The server keeps every function in somebody's hands.
LEMMA HeldOfServer ==
    ASSUME TypeOK, WayInv, OnlyLosses, Room, AllHeld, IntakeNext, UNCHANGED <<analyzerVars, buildVars>>
    PROVE  AllHeld'
<1>1. BuildsRest /\ UNCHANGED <<verdicts, scan>>
  BY DEF BuildsRest, buildVars, analyzerVars, buildQueueVars, IntakeNext, IntakeProgress, StoreArchive,
     CreateFunction, AnnounceUpload, ExtractNext, RecordExtraction, AnnounceExtraction, ForwardNext,
     PublishToAnalyzer, ServerCrash, ServerStart
<1>2. /\ {"request", "created", "quarantineBus", "update", "announce", "extractionBus", "xWorker",
          "analyzerQueue"} \subseteq Places
      /\ Says("created") = "QUARANTINED" /\ Says("quarantineBus") = "QUARANTINED"
      /\ Says("update") = "QUARANTINED" /\ Says("announce") = "EXTRACTED"
      /\ Says("extractionBus") = "EXTRACTED" /\ Says("xWorker") = "EXTRACTED"
      /\ Says("analyzerQueue") = "EXTRACTED"
  BY DEF Places, Says
<1>3. /\ quarantineBus # << >> => Head(quarantineBus) \in Functions
      /\ extractionBus # << >> => Head(extractionBus) \in Functions
      /\ qWorker.at \in {"update", "announce"} => qWorker.of \in Functions
      /\ xWorker # NoFunction => xWorker \in Functions
      /\ qWorker.status \in {"EXTRACTED", "FAILED"}
      /\ fnStatus \in [Functions -> FnStatuses]
  <2>1. quarantineBus \in Seq(Functions) /\ extractionBus \in Seq(Functions)
    BY DEF TypeOK, IntakeTypeOK
  <2>2. /\ quarantineBus # << >> => Head(quarantineBus) \in Functions
        /\ extractionBus # << >> => Head(extractionBus) \in Functions
    BY <2>1
  <2>3. QED
    BY <2>2 DEF TypeOK, StoreTypeOK, IntakeTypeOK
<1>4. ~ Spend("db")
  BY DEF OnlyLosses, Spend, FaultKinds
<1> USE <1>1, <1>2, <1>3 DEF tableVars
<1>5. ASSUME NEW f \in Functions, StoreArchive(f)
      PROVE  AllHeld'
  BY <1>5, MovesOfServer, HeldByAll DEF StoreArchive
<1>6. ASSUME NEW f \in Functions, CreateFunction(f)
      PROVE  AllHeld'
  <2>1. Moves(f, "request", "created") /\ fnStatus' = [fnStatus EXCEPT ![f] = "QUARANTINED"]
    BY <1>4, <1>6, MovesOfServer DEF CreateFunction, StatusUpdated, SetFnStatus, StatusUpdateFails
  <2>2. QED
    BY <2>1, HeldOnTheWay
<1>7. ASSUME NEW f \in Functions, AnnounceUpload(f)
      PROVE  AllHeld'
  <2>1. Moves(f, "created", "quarantineBus") /\ UNCHANGED fnStatus
    BY <1>7, MovesOfServer DEF AnnounceUpload
  <2>2. QED
    BY <2>1, HeldOnTheWay
<1>8. CASE ExtractNext
  <2>1. /\ Moves(Head(quarantineBus), "quarantineBus", "update") /\ UNCHANGED fnStatus
        /\ quarantineBus # << >>
    BY <1>8, MovesOfServer DEF ExtractNext
  <2>2. QED
    BY <2>1, HeldOnTheWay
<1>9. CASE RecordExtraction
  <2>1. /\ Moves(qWorker.of, "update", "announce")
        /\ fnStatus' = [fnStatus EXCEPT ![qWorker.of] = qWorker.status]
        /\ qWorker.of \in Functions
    BY <1>4, <1>9, MovesOfServer DEF RecordExtraction, StatusUpdated, SetFnStatus, StatusUpdateFails
  <2>2. QED
    BY <2>1, HeldOnTheWay
<1>10. CASE AnnounceExtraction
  <2>1. Moves(qWorker.of, "announce", "extractionBus") /\ UNCHANGED fnStatus /\ qWorker.of \in Functions
    BY <1>10, MovesOfServer DEF AnnounceExtraction
  <2>2. QED
    BY <2>1, HeldOnTheWay
<1>11. CASE ForwardNext
  <2>1. /\ Moves(Head(extractionBus), "extractionBus", "xWorker") /\ UNCHANGED fnStatus
        /\ extractionBus # << >>
    BY <1>11, MovesOfServer DEF ForwardNext
  <2>2. QED
    BY <2>1, HeldOnTheWay
<1>12. CASE PublishToAnalyzer
  <2>1. Moves(xWorker, "xWorker", "analyzerQueue") /\ UNCHANGED fnStatus /\ xWorker \in Functions
    BY <1>12, MovesOfServer DEF PublishToAnalyzer
  <2>2. QED
    BY <2>1, HeldOnTheWay
<1>13. CASE ServerStart
  BY <1>13, MovesOfServer, HeldByAll DEF ServerStart
<1>14. ~ ServerCrash
  BY MovesOfServer
<1>15. QED
  BY <1>5, <1>6, <1>7, <1>8, <1>9, <1>10, <1>11, <1>12, <1>13, <1>14 DEF IntakeNext, IntakeProgress

\* Where the functions go in the analyzer.
LEMMA MovesOfAnalyzer ==
    ASSUME TypeOK, OnlyLosses, UNCHANGED <<intakeVars, buildVars>>
    PROVE  /\ \A f \in Functions : ReceiveUpload(f) => Moves(f, "analyzerQueue", "land")
           /\ Land => Moves(scan.of, "land", "analysis")
           /\ PassStage => Rests
           /\ EndAnalysis => Moves(scan.of, "analysis", "record")
           /\ CopyArchive \/ RemoveArchive => Rests
           /\ RecordVerdict /\ scan.verdict = "SAFE" => Moves(scan.of, "record", "move")
           /\ \A g \in Functions, r \in Places \ {"build"} :
                /\ RecordVerdict => (At(r, g) /\ ~ (g = scan.of /\ r = "record") => At(r, g)')
                /\ PublishBuild => (At(r, g) /\ ~ (g = scan.of /\ r = "move") => At(r, g)')
           /\ ~ SemgrepFails /\ ~ AnalyzerCrash
           /\ AnalyzerStart => Rests
<1> USE DEF intakeVars
<1>1. /\ analyzerQueue \in [Functions -> Nat]
      /\ scan \in [at : ScanStages, of : Functions \cup {NoFunction}, verdict : AnalysisVerdicts]
      /\ scan.at # "idle" <=> scan.of # NoFunction
      /\ NoFunction \notin Functions
      /\ UNCHANGED <<upload, quarantineBus, extractionBus, qWorker, xWorker>>
      /\ \A s \in DOMAIN NextStage : s \in Analysis /\ NextStage[s] \in Analysis
      /\ {"idle", "land", "record", "copy", "remove", "publish"} \cap Analysis = {}
      /\ "download" \in Analysis
  BY FunctionStoreAssumption
  DEF FunctionStoreAssumption, TypeOK, StoreTypeOK, AnalyzerTypeOK, NextStage, Analysis, EndsWith
<1>2. /\ ~ Spend("db") /\ ~ Spend("minio") /\ ~ Spend("amqp") /\ ~ Spend("crash") /\ ~ Spend("tool")
      /\ ~ Spend("redelivery")
  BY DEF OnlyLosses, Spend, FaultKinds
<1>3. \A g \in Functions : /\ InSequence(quarantineBus, g) => InSequence(quarantineBus, g)'
                           /\ InSequence(extractionBus, g) => InSequence(extractionBus, g)'
  BY <1>1 DEF InSequence
<1> USE <1>1, <1>2, <1>3
<1>4. ASSUME NEW f \in Functions, ReceiveUpload(f)
      PROVE  Moves(f, "analyzerQueue", "land")
  <2>1. /\ scan.at = "idle" /\ scan'.at = "land" /\ scan'.of = f
        /\ analyzerQueue' = [analyzerQueue EXCEPT ![f] = @ - 1]
    BY <1>4 DEF ReceiveUpload, ScanAt, NoScan
  <2>2. QED
    BY <2>1 DEF Moves, At
<1>5. ASSUME Land
      PROVE  Moves(scan.of, "land", "analysis")
  <2>1. /\ scan.at = "land" /\ scan'.at = "download" /\ scan'.of = scan.of
        /\ UNCHANGED analyzerQueue
    BY <1>5 DEF Land, ScanAt, GoTo, StatusUpdateFails
  <2>2. QED
    BY <2>1 DEF Moves, At
<1>6. ASSUME PassStage
      PROVE  Rests
  <2>1. /\ scan.at \in Analysis /\ scan'.at \in Analysis /\ scan'.of = scan.of
        /\ UNCHANGED analyzerQueue
    BY <1>6 DEF PassStage, ScanAt, GoTo
  <2>2. QED
    BY <2>1 DEF Rests, At
<1>7. ASSUME EndAnalysis
      PROVE  Moves(scan.of, "analysis", "record")
  <2>1. /\ scan.at \in Analysis /\ scan'.at = "record" /\ scan'.of = scan.of
        /\ UNCHANGED analyzerQueue
    BY <1>7 DEF EndAnalysis, ScanAt
  <2>2. QED
    BY <2>1 DEF Moves, At
<1>8. ASSUME RecordVerdict
      PROVE  /\ \A g \in Functions, r \in Places \ {"build"} :
                  At(r, g) /\ ~ (g = scan.of /\ r = "record") => At(r, g)'
             /\ scan.verdict = "SAFE" => Moves(scan.of, "record", "move")
  <2>1. /\ scan.at = "record" /\ UNCHANGED analyzerQueue
        /\ scan.verdict = "SAFE" => scan'.at = "copy" /\ scan'.of = scan.of
    BY <1>8 DEF RecordVerdict, ScanAt, GoTo, StatusUpdateFails
  <2>2. \A g \in Functions, r \in Places \ {"build"} :
           At(r, g) /\ ~ (g = scan.of /\ r = "record") => At(r, g)'
    BY <2>1 DEF At
  <2>3. ASSUME scan.verdict = "SAFE", NEW g \in Functions, g = scan.of
        PROVE  At("move", g)'
    BY <2>1, <2>3 DEF At
  <2>4. QED
    BY <2>2, <2>3 DEF Moves
<1>9. ASSUME CopyArchive \/ RemoveArchive
      PROVE  Rests
  <2>1. /\ scan.at \in {"copy", "remove"} /\ scan'.at \in {"remove", "publish"} /\ scan'.of = scan.of
        /\ UNCHANGED analyzerQueue
    BY <1>9 DEF CopyArchive, RemoveArchive, ScanAt, GoTo
  <2>2. QED
    BY <2>1 DEF Rests, At
<1>10. ASSUME PublishBuild
       PROVE  \A g \in Functions, r \in Places \ {"build"} :
                  At(r, g) /\ ~ (g = scan.of /\ r = "move") => At(r, g)'
  <2>1. scan.at = "publish" /\ UNCHANGED analyzerQueue
    BY <1>10 DEF PublishBuild, ScanAt
  <2>2. QED
    BY <2>1 DEF At
<1>11. ASSUME AnalyzerStart
       PROVE  Rests
  BY <1>11 DEF AnalyzerStart, Rests, At
<1>12. ~ SemgrepFails /\ ~ AnalyzerCrash
  BY DEF SemgrepFails, AnalyzerCrash
<1>13. QED
  BY <1>4, <1>5, <1>6, <1>7, <1>8, <1>9, <1>10, <1>11, <1>12

\* The analyzer keeps every function in somebody's hands.
LEMMA HeldOfAnalyzer ==
    ASSUME TypeOK, OnlyLosses, FirstVerdict, AllHeld, AnalyzerNext, UNCHANGED <<intakeVars, buildVars>>
    PROVE  AllHeld'
<1>1. /\ {"analyzerQueue", "land", "analysis", "record", "move"} \subseteq Places
      /\ Says("analyzerQueue") = "EXTRACTED" /\ Says("land") = "EXTRACTED"
      /\ Says("analysis") = "SCANNING" /\ Says("record") = "SCANNING" /\ Says("move") = "VERIFIED"
  BY DEF Places, Says
<1>2. /\ scan.at # "idle" => scan.of \in Functions
      /\ fnStatus \in [Functions -> FnStatuses]
      /\ verdicts \in [Functions -> SUBSET AnalysisVerdicts]
      /\ scan.verdict \in AnalysisVerdicts
      /\ queue \in [Functions -> Nat]
      /\ "idle" \notin Analysis
  BY DEF TypeOK, StoreTypeOK, AnalyzerTypeOK, B!TypeOK, Analysis, EndsWith
<1>3. ~ Spend("db") /\ ~ Spend("amqp")
  BY DEF OnlyLosses, Spend, FaultKinds
<1>4. UNCHANGED <<step, pc, job>>
  BY <1>3 DEF buildVars, buildQueueVars, AnalyzerNext, AnalyzerProgress, ReceiveUpload, Land, PassStage,
     EndAnalysis, RecordVerdict, CopyArchive, RemoveArchive, PublishBuild, SemgrepFails,
     AnalyzerCrash, AnalyzerStart, B!Enqueue
<1> USE <1>1, <1>2, <1>4 DEF tableVars, buildQueueVars, BuildsRest
<1>5. ASSUME NEW f \in Functions, ReceiveUpload(f)
      PROVE  AllHeld'
  <2>1. Moves(f, "analyzerQueue", "land") /\ UNCHANGED <<fnStatus, verdicts, queue>>
    BY <1>5, MovesOfAnalyzer DEF ReceiveUpload
  <2>2. QED
    BY <2>1, HeldOnTheWay
<1>6. CASE Land
  <2>1. /\ Moves(scan.of, "land", "analysis") /\ scan.of \in Functions
        /\ fnStatus' = [fnStatus EXCEPT ![scan.of] = "SCANNING"] /\ UNCHANGED <<verdicts, queue>>
    BY <1>3, <1>6, MovesOfAnalyzer DEF Land, ScanAt, StatusUpdated, SetFnStatus, StatusUpdateFails
  <2>2. QED
    BY <2>1, HeldOnTheWay
<1>7. CASE EndAnalysis
  <2>1. /\ Moves(scan.of, "analysis", "record") /\ scan.of \in Functions /\ scan.at \in Analysis
        /\ \E v : verdicts' = [verdicts EXCEPT ![scan.of] = @ \cup {v}]
        /\ UNCHANGED <<fnStatus, queue>>
    BY <1>7, MovesOfAnalyzer DEF EndAnalysis, ScanAt
  <2>2. At("analysis", scan.of) /\ "analysis" \in Unjudged
    BY <2>1 DEF At, Unjudged
  <2>3. fnStatus[scan.of] # "VERIFIED"
    BY <2>1, <2>2 DEF FirstVerdict
  <2>4. QED
    BY <2>1, <2>3, HeldOnTheWay
<1>8. CASE RecordVerdict
  <2>1. /\ scan.at = "record" /\ scan.of \in Functions
        /\ fnStatus' = [fnStatus EXCEPT ![scan.of] = StatusOf(scan.verdict)]
        /\ UNCHANGED <<verdicts, queue>>
    BY <1>3, <1>8 DEF RecordVerdict, ScanAt, StatusUpdated, SetFnStatus, StatusUpdateFails
  <2>2. verdicts[scan.of] = {scan.verdict}
    BY <2>1 DEF FirstVerdict, At
  <2>3. ASSUME NEW g \in Functions, g # scan.of
        PROVE  Held(g)'
    BY <1>8, <2>1, <2>3, MovesOfAnalyzer, HeldOn, BuildsStay DEF AllHeld
  <2>4. ASSUME NEW g \in Functions, g = scan.of
        PROVE  Held(g)'
    <3>1. CASE scan.verdict = "SAFE"
      <4>1. At("move", g)' /\ fnStatus'[g] = "VERIFIED"
        BY <1>8, <2>1, <2>4, <3>1, MovesOfAnalyzer DEF Moves, StatusOf
      <4>2. QED
        BY <4>1 DEF Held
    <3>2. CASE scan.verdict # "SAFE"
      <4>1. fnStatus'[g] \in {"VERIFIED", "DETECTED"} /\ "SAFE" \notin verdicts'[g]
        BY <2>1, <2>2, <2>4, <3>2 DEF StatusOf
      <4>2. QED
        BY <4>1 DEF Held
    <3>3. QED
      BY <3>1, <3>2
  <2>5. QED
    BY <2>3, <2>4 DEF AllHeld
<1>9. CASE PublishBuild
  <2>1. /\ scan.of \in Functions /\ UNCHANGED <<fnStatus, verdicts>>
        /\ queue' = [queue EXCEPT ![scan.of] = @ + 1]
    BY <1>3, <1>9 DEF PublishBuild, ScanAt, B!Enqueue
  <2>2. ASSUME NEW g \in Functions
        PROVE  /\ Waits(g) => Waits(g)'
               /\ \A c \in Builders : Builds(c, g) => Builds(c, g)'
               /\ g = scan.of => Waits(g)'
    BY <2>1 DEF Waits, Builds, BuilderAt
  <2>3. ASSUME NEW g \in Functions, g # scan.of \/ fnStatus[g] # "VERIFIED"
        PROVE  Held(g)'
    BY <1>9, <2>1, <2>2, <2>3, MovesOfAnalyzer, HeldOn DEF AllHeld
  <2>4. ASSUME NEW g \in Functions, g = scan.of, fnStatus[g] = "VERIFIED"
        PROVE  Held(g)'
    <3>1. fnStatus'[g] = "VERIFIED" /\ Waits(g)'
      BY <2>1, <2>2, <2>4
    <3>2. QED
      BY <3>1 DEF Held
  <2>5. QED
    BY <2>3, <2>4 DEF AllHeld
<1>10. CASE PassStage \/ CopyArchive \/ RemoveArchive \/ AnalyzerStart
  <2>1. Rests /\ UNCHANGED <<fnStatus, verdicts, queue>>
    BY <1>10, MovesOfAnalyzer DEF PassStage, CopyArchive, RemoveArchive, AnalyzerStart
  <2>2. QED
    BY <2>1, HeldByAll
<1>11. QED
  BY <1>5, <1>6, <1>7, <1>8, <1>9, <1>10, MovesOfAnalyzer DEF AnalyzerNext, AnalyzerProgress

\* The builders keep every function in somebody's hands, also when one has lost
\* its connection and another is given the message.
LEMMA HeldOfBuilders ==
    ASSUME TypeOK, OnlyLosses, vmState = "up", AllHeld, BuildNext, UNCHANGED <<intakeVars, analyzerVars>>
    PROVE  AllHeld' /\ vmState' = "up"
<1>1. \A k \in FaultKinds \ {"loss"} : ~ Spend(k)
  BY DEF OnlyLosses, Spend
<1>2. /\ ~ Spend("db") /\ ~ Spend("minio") /\ ~ Spend("amqp") /\ ~ Spend("crash")
      /\ ~ Spend("sigterm")
  BY <1>1 DEF FaultKinds
<1>3. ~ DbRefused /\ ~ DbReplyLost
  BY <1>2 DEF DbRefused, DbReplyLost
<1>4. ~ VmSigterm /\ ~ VmExit /\ ~ VmCrash /\ ~ VmStart
  BY <1>2 DEF VmSigterm, VmExit, VmCrash, VmStart, CancelContext, ProcessExits, ProcessCrashes,
     ProcessStarts
<1>5. \A c \in Builders : ~ DeadLetterBuildFails(c)
  BY <1>2 DEF DeadLetterBuildFails
<1>6. UNCHANGED <<upload, quarantineBus, extractionBus, qWorker, xWorker, analyzerQueue, scan, verdicts>>
  BY DEF intakeVars, analyzerVars, BuildNext, BuilderStep, DeliverBuild, ClaimBuild, PrepareEnvironment,
     SaveDrive, RejectBuild, ResetBuild, FinishBuild, PoisonBuild, DeadLetterBuild,
     DeadLetterBuildFails, AckBuild, BuilderConnectionLost, VmSigterm, VmExit, VmCrash, VmStart
<1>7. Rests
  BY <1>6 DEF Rests, At, InSequence
<1>8. /\ fnStatus \in [Functions -> FnStatuses]
      /\ queue \in [Functions -> Nat]
      /\ pc \in [Builders -> B!Stages]
      /\ job \in [Builders -> Functions \cup {NoFunction}]
      /\ step \in [Builders -> BuildSteps]
      /\ NoFunction \notin Functions
      /\ \A c \in Builders : /\ pc[c] # "idle" => job[c] \in Functions
                             /\ pc[c] = "idle" => job[c] = NoFunction
                             /\ pc[c] # "handle" => step[c] = "claim"
                             /\ owned[c] => job[c] \in Functions
  BY FunctionStoreAssumption
  DEF FunctionStoreAssumption, TypeOK, StoreTypeOK, BuildTypeOK, B!TypeOK
<1> USE <1>3, <1>6, <1>7, <1>8 DEF tableVars, buildVars, buildQueueVars
<1> DEFINE Apart(c) == \A d \in Builders : d # c => /\ job'[d] = job[d] /\ pc'[d] = pc[d]
                                                    /\ step'[d] = step[d]
\* A builder's step leaves the functions alone that are not its job.
<1>9. ASSUME NEW c \in Builders, Apart(c), NEW g \in Functions, g # job[c],
             fnStatus'[g] = fnStatus[g], queue'[g] = queue[g]
      PROVE  Held(g)'
  <2>1. Waits(g) => Waits(g)'
    BY <1>9 DEF Waits, BuilderAt
  <2>2. \A d \in Builders : Builds(d, g) => Builds(d, g)'
    BY <1>9 DEF Builds
  <2>3. QED
    BY <1>9, <2>1, <2>2, HeldOn DEF AllHeld, Rests
\* It keeps its own job held, if it neither waited for it nor lets go of it.
<1>10. ASSUME NEW c \in Builders, Apart(c), NEW g \in Functions, g = job[c],
              fnStatus'[g] = fnStatus[g], queue'[g] = queue[g],
              fnStatus[g] # "VERIFIED" \/ ~ (BuilderAt(c, "claim") \/ pc[c] = "poison"),
              step[c] # "claim" => job'[c] = job[c] /\ step'[c] # "claim"
       PROVE  Held(g)'
  <2>1. fnStatus[g] = "VERIFIED" /\ Waits(g) => Waits(g)'
    BY <1>10 DEF Waits, BuilderAt
  <2>2. \A d \in Builders : Builds(d, g) => Builds(d, g)'
    BY <1>10 DEF Builds
  <2>3. QED
    BY <1>10, <2>1, <2>2, HeldOn DEF AllHeld, Rests
<1>11. ASSUME NEW c \in Builders, Apart(c), UNCHANGED <<fnStatus, queue>>, job[c] \in Functions,
              fnStatus[job[c]] # "VERIFIED" \/ ~ (BuilderAt(c, "claim") \/ pc[c] = "poison"),
              step[c] # "claim" => job'[c] = job[c] /\ step'[c] # "claim"
       PROVE  AllHeld'
  BY <1>9, <1>10, <1>11 DEF AllHeld
\* It writes the row of its job and is the job's holder, or the status needs none.
<1>12. ASSUME NEW c \in Builders, Apart(c), NEW s, fnStatus' = [fnStatus EXCEPT ![job[c]] = s],
              UNCHANGED <<queue, job>>, job[c] \in Functions,
              \/ s \in {"READY", "FAILED"}
              \/ s = "VERIFIED" /\ pc'[c] = "poison"
              \/ s = "PREPARING_ENVIRONMENT" /\ step'[c] # "claim"
       PROVE  AllHeld'
  <2>1. ASSUME NEW g \in Functions, g # job[c]
        PROVE  Held(g)'
    BY <1>9, <1>12, <2>1
  <2>2. ASSUME NEW g \in Functions, g = job[c]
        PROVE  Held(g)'
    <3>1. fnStatus'[g] = s
      BY <1>12, <2>2
    <3>2. s = "VERIFIED" => Waits(g)'
      BY <1>12, <2>2 DEF Waits
    <3>3. s = "PREPARING_ENVIRONMENT" => \E d \in Builders : Builds(d, g)'
      BY <1>12, <2>2 DEF Builds
    <3>4. QED
      BY <1>12, <3>1, <3>2, <3>3 DEF Held
  <2>3. QED
    BY <2>1, <2>2 DEF AllHeld
<1>13. ASSUME NEW c \in Builders, DeliverBuild(c)
       PROVE  AllHeld'
  <2>1. PICK f \in Functions :
          /\ pc[c] = "idle" /\ pc' = [pc EXCEPT ![c] = "handle"] /\ job' = [job EXCEPT ![c] = f]
          /\ queue' = [queue EXCEPT ![f] = @ - 1] /\ UNCHANGED <<fnStatus, step>>
    BY <1>13 DEF DeliverBuild, B!Deliver, B!Move
  <2>2. ASSUME NEW g \in Functions, g # f
        PROVE  Held(g)'
    BY <1>9, <2>1, <2>2
  <2>3. Waits(f)'
    BY <2>1 DEF Waits, BuilderAt
  <2>4. \A d \in Builders : Builds(d, f) => Builds(d, f)'
    BY <2>1 DEF Builds
  <2>5. Held(f)'
    BY <2>1, <2>3, <2>4, HeldOn DEF AllHeld, Rests
  <2>6. QED
    BY <2>2, <2>5 DEF AllHeld
<1>14. ASSUME NEW c \in Builders, ClaimBuild(c)
       PROVE  AllHeld'
  <2>1. /\ pc[c] = "handle" /\ step[c] = "claim" /\ job[c] \in Functions
    BY <1>14 DEF ClaimBuild, BuilderAt
  <2>2. CASE fnStatus[job[c]] = "VERIFIED"
    <3>1. /\ fnStatus' = [fnStatus EXCEPT ![job[c]] = "PREPARING_ENVIRONMENT"]
          /\ step' = [step EXCEPT ![c] = "prepare"] /\ UNCHANGED <<queue, pc, job>>
      BY <1>14, <2>2 DEF ClaimBuild, SetFnStatus
    <3>2. QED
      BY <1>12, <2>1, <3>1
  <2>3. CASE fnStatus[job[c]] # "VERIFIED"
    <3>1. /\ pc' = [pc EXCEPT ![c] = "settle"] /\ UNCHANGED <<queue, job, step, fnStatus>>
      BY <1>14, <2>3 DEF ClaimBuild, B!ReturnNil, B!Move
    <3>2. QED
      BY <1>11, <2>1, <2>3, <3>1
  <2>4. QED
    BY <2>2, <2>3
<1>15. ASSUME NEW c \in Builders, PrepareEnvironment(c) \/ SaveDrive(c)
       PROVE  AllHeld'
  <2>1. /\ pc[c] = "handle" /\ step[c] \in {"prepare", "save"} /\ job[c] \in Functions
        /\ \E s \in {"save", "reject", "reset", "finish"} : step' = [step EXCEPT ![c] = s]
        /\ UNCHANGED <<queue, pc, job, fnStatus>>
    BY <1>15 DEF PrepareEnvironment, SaveDrive, BuilderAt, Proceeds
  <2>2. QED
    BY <1>11, <2>1 DEF BuilderAt
<1>16. ASSUME NEW c \in Builders, RejectBuild(c) \/ FinishBuild(c)
       PROVE  AllHeld'
  <2>1. /\ pc[c] = "handle" /\ pc' = [pc EXCEPT ![c] = "settle"] /\ job[c] \in Functions
        /\ \E s \in {"FAILED", "READY"} : fnStatus' = [fnStatus EXCEPT ![job[c]] = s]
        /\ step' = [step EXCEPT ![c] = "claim"] /\ UNCHANGED <<queue, job>>
    BY <1>16 DEF RejectBuild, FinishBuild, BuilderAt, SetFnStatusOrLog, SetFnStatus, LeavesPrepare,
       B!ReturnNil, B!Move
  <2>2. QED
    BY <1>12, <2>1
<1>17. ASSUME NEW c \in Builders, ResetBuild(c)
       PROVE  AllHeld'
  <2>1. /\ pc[c] = "handle" /\ pc' = [pc EXCEPT ![c] = "poison"] /\ job[c] \in Functions
        /\ fnStatus' = [fnStatus EXCEPT ![job[c]] = "VERIFIED"]
        /\ step' = [step EXCEPT ![c] = "claim"] /\ UNCHANGED <<queue, job>>
    BY <1>17 DEF ResetBuild, BuilderAt, SetFnStatusOrLog, SetFnStatus, LeavesPrepare, B!ReturnError,
       B!Move
  <2>2. QED
    BY <1>12, <2>1
<1>18. ASSUME NEW c \in Builders, PoisonBuild(c)
       PROVE  AllHeld'
  <2>1. /\ pc[c] = "poison" /\ pc' = [pc EXCEPT ![c] = "dlq"] /\ job[c] \in Functions
        /\ fnStatus' = [fnStatus EXCEPT ![job[c]] = "FAILED"] /\ UNCHANGED <<queue, job, step>>
    BY <1>18 DEF PoisonBuild, SetFnStatusOrLog, SetFnStatus, B!StatusWritten, B!Move
  <2>2. QED
    BY <1>12, <2>1
<1>19. ASSUME NEW c \in Builders, DeadLetterBuild(c) \/ AckBuild(c)
       PROVE  AllHeld'
  <2>1. /\ pc[c] \in {"dlq", "settle"} /\ job[c] \in Functions /\ step[c] = "claim"
        /\ \A d \in Builders : d # c => pc'[d] = pc[d] /\ job'[d] = job[d]
        /\ UNCHANGED <<queue, step, fnStatus>>
    BY <1>19 DEF DeadLetterBuild, AckBuild, B!DeadLetterSent, B!Ack, B!Released, B!Move
  <2>2. QED
    BY <1>11, <2>1 DEF BuilderAt
<1>20. ASSUME NEW c \in Builders, BuilderConnectionLost(c)
       PROVE  AllHeld'
  <2>1. /\ queue' = [queue EXCEPT ![job[c]] = @ + 1] /\ UNCHANGED <<pc, job, step, fnStatus>>
    BY <1>20 DEF BuilderConnectionLost, B!ConnectionLost
  <2>2. ASSUME NEW g \in Functions
        PROVE  /\ Waits(g) => Waits(g)'
               /\ \A d \in Builders : Builds(d, g) => Builds(d, g)'
    BY <2>1 DEF Waits, Builds, BuilderAt
  <2>3. QED
    BY <2>1, <2>2, HeldOn DEF AllHeld, Rests
<1>21. AllHeld'
  BY <1>4, <1>5, <1>13, <1>14, <1>15, <1>16, <1>17, <1>18, <1>19, <1>20 DEF BuildNext, BuilderStep
<1>22. UNCHANGED vmState
  BY <1>4
  DEF BuildNext, BuilderStep, DeliverBuild, ClaimBuild, PrepareEnvironment, SaveDrive, RejectBuild,
      ResetBuild, FinishBuild, PoisonBuild, DeadLetterBuild, DeadLetterBuildFails, AckBuild,
      BuilderConnectionLost, platformVars
<1>23. QED
  BY <1>21, <1>22

\* No function comes to a place before the verdict from behind it, and its row is
\* made VERIFIED by the verdict only.
LEMMA FirstStep ==
    ASSUME TypeOK, WayInv, budget["redelivery"] = 0, FirstVerdict, Next \/ Unseen
    PROVE  FirstVerdict'
<1>1. /\ fnStatus \in [Functions -> FnStatuses]
      /\ verdicts \in [Functions -> SUBSET AnalysisVerdicts]
      /\ scan.at # "idle" => scan.of \in Functions
      /\ scan \in [at : ScanStages, of : Functions \cup {NoFunction}, verdict : AnalysisVerdicts]
      /\ "record" \notin Analysis /\ "land" \notin Analysis /\ "idle" \notin Analysis
  BY DEF TypeOK, StoreTypeOK, AnalyzerTypeOK, Analysis, EndsWith
<1>2. /\ \A p \in Unjudged : p \in Places /\ p \notin {"record", "move", "build"}
      /\ {"record", "move", "build"} \subseteq Places
  BY DEF Unjudged, Places
<1> USE <1>1, <1>2
\* Nobody is judged, and nobody's row is made VERIFIED who is not behind the verdict.
<1>3. ASSUME Still \/ \E f, p, q : Goes(f, p, q) /\ q # "record" /\ (q \in Unjudged => p \in Unjudged),
             UNCHANGED verdicts,
             scan' = scan \/ \A f \in Functions : ~ At("record", f)',
             \A f \in Functions : fnStatus'[f] = "VERIFIED" =>
                 \/ fnStatus[f] = "VERIFIED"
                 \/ \A p \in Unjudged : ~ At(p, f)'
      PROVE  FirstVerdict'
  <2>1. ASSUME NEW f \in Functions, NEW p \in Unjudged, At(p, f)'
        PROVE  \E r \in Unjudged : At(r, f)
    BY <1>3, <2>1 DEF Still, Goes
  <2>2. ASSUME NEW f \in Functions, At("record", f)'
        PROVE  At("record", f) /\ scan' = scan
    BY <1>3, <2>2 DEF Still, Goes
  <2>3. ASSUME NEW f \in Functions, NEW p \in Unjudged, At(p, f)'
        PROVE  verdicts'[f] = {} /\ fnStatus'[f] # "VERIFIED"
    BY <1>3, <2>1, <2>3 DEF FirstVerdict
  <2>4. ASSUME NEW f \in Functions, At("record", f)'
        PROVE  verdicts'[f] = {scan'.verdict}
    BY <1>3, <2>2, <2>4 DEF FirstVerdict
  <2>5. QED
    BY <2>3, <2>4 DEF FirstVerdict
<1>4. ASSUME IntakeNext, UNCHANGED <<analyzerVars, buildVars>>
      PROVE  FirstVerdict'
  <2>1. UNCHANGED <<verdicts, scan>>
    BY <1>4 DEF analyzerVars
  <2>2. ~ RecordVerdict
    BY <2>1 DEF RecordVerdict, ScanAt, GoTo, Done, NoScan
  <2>3. \A f \in Functions : fnStatus'[f] = "VERIFIED" => fnStatus[f] = "VERIFIED"
    BY <1>4, <2>2, VerifiedByVerdict
  <2>4. Still \/ \E f, p, q : Goes(f, p, q) /\ q # "record" /\ (q \in Unjudged => p \in Unjudged)
    <3>1. {"request", "created", "quarantineBus", "update", "announce", "extractionBus", "xWorker"}
             \subseteq Unjudged
      BY DEF Unjudged, Places
    <3>2. QED
      BY <1>4, <3>1, WayOfServer DEF IntakeNext, IntakeProgress
  <2>5. QED
    BY <1>3, <2>1, <2>3, <2>4
<1>5. ASSUME AnalyzerNext, UNCHANGED <<intakeVars, buildVars>>
      PROVE  FirstVerdict'
  <2>1. /\ {"analyzerQueue", "land", "analysis"} \subseteq Unjudged
        /\ "move" \notin Unjudged /\ "build" \notin Unjudged
    BY DEF Unjudged, Places
  <2>2. CASE EndAnalysis
    <3>1. Goes(scan.of, "analysis", "record")
      BY <1>5, <2>2, WayOfAnalyzer
    <3>2. /\ scan.of \in Functions /\ scan'.of = scan.of /\ UNCHANGED fnStatus
          /\ verdicts' = [verdicts EXCEPT ![scan.of] = @ \cup {scan'.verdict}]
          /\ At("analysis", scan.of)
      BY <2>2 DEF EndAnalysis, ScanAt, tableVars, At
    <3>3. verdicts[scan.of] = {} /\ \A r \in Places : At(r, scan.of) => r = "analysis"
      BY <2>1, <3>2 DEF FirstVerdict, WayInv
    <3>4. ASSUME NEW f \in Functions, NEW p \in Unjudged, At(p, f)'
          PROVE  verdicts'[f] = {} /\ fnStatus'[f] # "VERIFIED"
      <4>1. At(p, f) /\ ~ (f = scan.of /\ p = "analysis")
        BY <3>1, <3>4 DEF Goes
      <4>2. f # scan.of
        BY <3>3, <4>1
      <4>3. QED
        BY <3>2, <4>1, <4>2 DEF FirstVerdict
    <3>5. ASSUME NEW f \in Functions, At("record", f)'
          PROVE  verdicts'[f] = {scan'.verdict}
      <4>1. f = scan.of
        BY <3>2, <3>5 DEF At
      <4>2. QED
        BY <3>2, <3>3, <4>1
    <3>6. QED
      BY <3>4, <3>5 DEF FirstVerdict
  <2>3. CASE RecordVerdict
    <3>1. /\ Goes(scan.of, "record", "move") /\ UNCHANGED verdicts /\ scan.at = "record"
          /\ scan'.at # "record"
      BY <1>5, <2>3, WayOfAnalyzer DEF RecordVerdict, ScanAt, GoTo, Done, NoScan
    <3>2. \A f \in Functions : ~ At("record", f)'
      BY <3>1 DEF At
    <3>3. ASSUME NEW f \in Functions, fnStatus'[f] = "VERIFIED", fnStatus[f] # "VERIFIED",
                 NEW p \in Unjudged, At(p, f)'
          PROVE  FALSE
      <4>1. f = scan.of /\ At("record", f)
        BY <1>5, <3>1, <3>3, VerifiedByVerdict DEF At
      <4>2. At(p, f)
        BY <3>1, <3>3, <2>1 DEF Goes
      <4>3. QED
        BY <4>1, <4>2 DEF WayInv
    <3>4. QED
      BY <1>3, <2>1, <3>1, <3>2, <3>3
  <2>4. CASE ~ EndAnalysis /\ ~ RecordVerdict
    <3>1. \A f \in Functions : fnStatus'[f] = "VERIFIED" => fnStatus[f] = "VERIFIED"
      BY <1>5, <2>4, VerifiedByVerdict
    <3>2. Still \/ \E f, p, q : Goes(f, p, q) /\ q # "record" /\ (q \in Unjudged => p \in Unjudged)
      BY <1>5, <2>1, <2>4, WayOfAnalyzer DEF AnalyzerNext, AnalyzerProgress
    <3>3. UNCHANGED verdicts /\ (scan' = scan \/ scan'.at # "record")
      <4>1. CASE PassStage
        <5>1. \A s \in DOMAIN NextStage : NextStage[s] # "record"
          BY DEF NextStage
        <5>2. QED
          BY <4>1, <5>1 DEF PassStage, ScanAt, GoTo
      <4>2. ASSUME NEW f \in Functions, ReceiveUpload(f)
            PROVE  UNCHANGED verdicts /\ scan'.at # "record"
        BY <4>2 DEF ReceiveUpload, NoScan
      <4>3. CASE Land \/ CopyArchive \/ RemoveArchive \/ PublishBuild
        BY <4>3 DEF Land, CopyArchive, RemoveArchive, PublishBuild, GoTo, Done, NoScan
      <4>4. CASE SemgrepFails \/ AnalyzerCrash \/ AnalyzerStart
        BY <4>4 DEF SemgrepFails, AnalyzerCrash, AnalyzerStart, AnalyzerDies, Done, NoScan
      <4>5. QED
        BY <1>5, <2>4, <4>1, <4>2, <4>3, <4>4 DEF AnalyzerNext, AnalyzerProgress
    <3>4. scan' = scan \/ \A f \in Functions : ~ At("record", f)'
      BY <3>3 DEF At
    <3>5. QED
      BY <1>3, <3>1, <3>2, <3>3, <3>4
  <2>5. QED
    BY <2>2, <2>3, <2>4
<1>6. ASSUME BuildNext, UNCHANGED <<intakeVars, analyzerVars>>
      PROVE  FirstVerdict'
  <2>1. Still /\ UNCHANGED <<verdicts, scan>>
    BY <1>6, WayOfBuilders DEF analyzerVars
  <2>2. ASSUME NEW f \in Functions, fnStatus'[f] = "VERIFIED", fnStatus[f] # "VERIFIED",
               NEW p \in Unjudged, At(p, f)'
        PROVE  FALSE
    <3>1. At("build", f)
      BY <1>6, <2>2, BuildersWriteTheirRow DEF At
    <3>2. At(p, f)
      BY <2>1, <2>2 DEF Still
    <3>3. QED
      BY <3>1, <3>2 DEF WayInv
  <2>3. QED
    BY <1>3, <2>1, <2>2
<1>7. ASSUME Unseen
      PROVE  FirstVerdict'
  BY <1>7 DEF Unseen, tableVars, intakeVars, analyzerVars, buildQueueVars, FirstVerdict, At, InSequence,
     Unjudged, Places
<1>8. QED
  BY <1>4, <1>5, <1>6, <1>7 DEF Next

\* What NobodyIsForgotten rests on.
Care ==
    /\ Way
    /\ OnlyLosses
    /\ vmState = "up"
    /\ FirstVerdict
    /\ AllHeld

LEMMA CareStep == ASSUME Room, Care, [CliNext]_cliVars PROVE Care'
<1>1. /\ TypeOK /\ CliTypeOK /\ WayInv /\ budget["redelivery"] = 0 /\ OnlyLosses /\ AllHeld /\ FirstVerdict
      /\ vmState = "up"
  BY DEF Care, Way, CliTypeOK
<1>2. Next \/ Unseen
  BY StepOfServices
<1>3. CliTypeOK' /\ WayInv' /\ FirstVerdict'
  BY <1>1, <1>2, StepTypeOK, WayStep, FirstStep
<1>4. OnlyLosses'
  BY <1>1, NoNewFaults DEF OnlyLosses
<1>5. budget'["redelivery"] = 0
  BY <1>1, NoNewFaults DEF FaultKinds
<1>6. vmState' = "up" /\ AllHeld'
  <2>1. CASE IntakeNext /\ UNCHANGED <<analyzerVars, buildVars>>
    <3>1. UNCHANGED vmState
      BY <2>1 DEF IntakeNext, IntakeProgress, StoreArchive, CreateFunction, AnnounceUpload, ExtractNext,
         RecordExtraction, AnnounceExtraction, ForwardNext, PublishToAnalyzer, ServerCrash,
         ServerStart, platformVars
    <3>2. QED
      BY <1>1, <2>1, <3>1, HeldOfServer
  <2>2. CASE AnalyzerNext /\ UNCHANGED <<intakeVars, buildVars>>
    <3>1. UNCHANGED vmState
      BY <2>2 DEF AnalyzerNext, AnalyzerProgress, ReceiveUpload, Land, PassStage, EndAnalysis,
         RecordVerdict, CopyArchive, RemoveArchive, PublishBuild, SemgrepFails, AnalyzerCrash,
         AnalyzerStart, platformVars
    <3>2. QED
      BY <1>1, <2>2, <3>1, HeldOfAnalyzer
  <2>3. CASE BuildNext /\ UNCHANGED <<intakeVars, analyzerVars>>
    BY <1>1, <2>3, HeldOfBuilders
  <2>4. CASE Unseen
    <3>1. /\ UNCHANGED <<vmState, fnStatus, verdicts>> /\ BuildsRest
          /\ UNCHANGED <<upload, quarantineBus, extractionBus, qWorker, xWorker, analyzerQueue, scan>>
      BY <2>4 DEF Unseen, tableVars, intakeVars, analyzerVars, buildVars, buildQueueVars, BuildsRest
    <3>2. Rests
      BY <3>1 DEF Rests, At, InSequence
    <3>3. QED
      BY <1>1, <3>1, <3>2, HeldByAll
  <2>5. QED
    BY <1>2, <2>1, <2>2, <2>3, <2>4 DEF Next
<1>7. QED
  BY <1>3, <1>4, <1>5, <1>6 DEF Care, Way

(***************************************************************************)
(* A function whose status says that somebody is at work on it is in that  *)
(* somebody's hands, for any number of functions, builders and lost        *)
(* connections, as long as nothing else fails and a bus has room for every *)
(* function: no Publish drops an event then, and no builder leaves a       *)
(* claimed row behind (bus.go:46-53, listener.go:84-124, prepare.go:24-52). *)
(***************************************************************************)
THEOREM SomebodyIsAtWork == Room /\ CliSpec /\ OnlyLosses => []NobodyIsForgotten
<1>1. CliInit /\ OnlyLosses => Care
  <2> SUFFICES ASSUME CliInit, OnlyLosses
               PROVE  Care
    OBVIOUS
  <2>1. CliTypeOK /\ budget["redelivery"] = 0
    BY InitTypeOK DEF OnlyLosses, FaultKinds
  <2>2. WayInv
    BY FunctionStoreAssumption
    DEF FunctionStoreAssumption, CliInit, Init, StoreInit, IntakeInit, AnalyzerInit, IdleWorker,
        NoScan, WayInv, At, Once, InSequence, B!Init, B!Carried
  <2>3. /\ vmState = "up" /\ fnStatus = [f \in Functions |-> "NOROW"]
        /\ verdicts = [f \in Functions |-> {}] /\ scan.at = "idle"
    BY DEF CliInit, Init, StoreInit, PlatformInit, AnalyzerInit, NoScan
  <2>4. FirstVerdict /\ AllHeld
    BY <2>3 DEF FirstVerdict, AllHeld, Held, At
  <2>5. QED
    BY <2>1, <2>2, <2>3, <2>4 DEF Care, Way
<1>2. Room /\ Care /\ [CliNext]_cliVars => Care'
  BY CareStep
<1>3. Care => NobodyIsForgotten
  BY HeldIsWorkedOn DEF Care, Way, CliTypeOK, AllHeld, NobodyIsForgotten
<1>4. Room => (CliSpec /\ OnlyLosses => []NobodyIsForgotten)
  <2> SUFFICES ASSUME Room
               PROVE  CliSpec /\ OnlyLosses => []NobodyIsForgotten
    OBVIOUS
  <2>1. Care /\ [CliNext]_cliVars => Care'
    BY <1>2
  <2>2. QED
    BY <1>1, <1>3, <2>1, PTL DEF CliSpec
<1>5. QED
  BY <1>4

-----------------------------------------------------------------------------
(***************************************************************************)
(* The pipeline implements FunctionContract, for a database that answers,  *)
(* an analyzer whose acknowledgements arrive and builders that keep their  *)
(* connections.  MinIO, the broker and the tools may fail, processes may   *)
(* crash and the VM service may be told to stop, any number of times.      *)
(***************************************************************************)

\* The faults that the contract does not survive have been spent.
Orderly ==
    /\ budget["db"] = 0
    /\ budget["redelivery"] = 0
    /\ budget["loss"] = 0

LEMMA OrderlyStays == CliTypeOK /\ Orderly /\ [CliNext]_cliVars => Orderly'
BY NoNewFaults DEF Orderly, FaultKinds

-----------------------------------------------------------------------------
(***************************************************************************)
(* The status goes with the place.  Before the verdict it says where the   *)
(* function is on its way, and nothing has been judged.                    *)
(***************************************************************************)
StatusAt(p) ==
    CASE p = "request" -> {"NOROW"}
      [] p \in {"created", "quarantineBus", "update"} -> {"QUARANTINED"}
      [] p \in {"announce", "extractionBus", "xWorker", "analyzerQueue", "land"} ->
           {"EXTRACTED", "FAILED"}
      [] p \in {"analysis", "record"} -> {"SCANNING"}
      [] p = "move" -> {"VERIFIED"}
      [] OTHER -> {"VERIFIED", "PREPARING_ENVIRONMENT", "READY", "FAILED"}

Judged == {"record", "move", "build"}

Fits(p, f) ==
    /\ fnStatus[f] \in StatusAt(p)
    /\ (verdicts[f] = {}) <=> (p \notin Judged)

StageInv == \A f \in Functions, p \in Places : At(p, f) => Fits(p, f)

\* The functions that stay where they are, if their rows stay as they are.
LEMMA StagesStay ==
    ASSUME StageInv, Still,
           \A f \in Functions : fnStatus'[f] = fnStatus[f] \/ \A p \in Places : At(p, f)' => p = "build",
           \A f \in Functions : fnStatus'[f] # fnStatus[f] => fnStatus'[f] \in StatusAt("build"),
           UNCHANGED verdicts
    PROVE  StageInv'
<1> SUFFICES ASSUME NEW f \in Functions, NEW p \in Places, At(p, f)'
             PROVE  Fits(p, f)'
  BY DEF StageInv
<1>1. At(p, f)
  BY DEF Still
<1>2. fnStatus[f] \in StatusAt(p) /\ ((verdicts[f] = {}) <=> (p \notin Judged))
  BY <1>1 DEF StageInv, Fits
<1>3. fnStatus'[f] \in StatusAt(p)
  BY <1>2
<1>4. QED
  BY <1>2, <1>3 DEF Fits

\* One function goes on to a place that its row fits, the others stay.
LEMMA StagesGoOn ==
    ASSUME WayInv, StageInv, NEW f, NEW p, NEW q, Goes(f, p, q),
           \A g \in Functions : g # f => fnStatus'[g] = fnStatus[g] /\ verdicts'[g] = verdicts[g],
           At(q, f)' => /\ fnStatus'[f] \in StatusAt(q)
                        /\ (verdicts'[f] = {}) <=> (q \notin Judged)
    PROVE  StageInv'
<1> SUFFICES ASSUME NEW g \in Functions, NEW r \in Places, At(r, g)'
             PROVE  Fits(r, g)'
  BY DEF StageInv
<1>1. CASE g = f /\ r = q
  BY <1>1 DEF Fits
<1>2. CASE ~ (g = f /\ r = q)
  <2>1. At(r, g) /\ ~ (g = f /\ r = p)
    BY <1>2 DEF Goes
  <2>2. g # f
    <3>1. At(p, f) /\ f \in Functions /\ p \in Places
      BY DEF Goes, At, Places
    <3>2. QED
      BY <2>1, <3>1 DEF WayInv
  <2>3. Fits(r, g)
    BY <2>1 DEF StageInv
  <2>4. QED
    BY <2>2, <2>3 DEF Fits
<1>3. QED
  BY <1>1, <1>2

-----------------------------------------------------------------------------
(***************************************************************************)
(* The builders of a function.  Its one build message is in the queue or   *)
(* with one builder; who builds has a row that says so; and a READY row is *)
(* given up by nobody whose context is alive.                              *)
(***************************************************************************)
OneMessage(f) ==
    /\ queue[f] \in {0, 1}
    /\ queue[f] = 1 => \A c \in Builders : job[c] # f
    /\ \A c, d \in Builders : job[c] = f /\ job[d] = f => c = d

BuilderInv ==
    /\ \A c \in Builders : owned[c] <=> pc[c] # "idle"
    /\ \A f \in Functions : OneMessage(f)
    /\ \A c \in Builders : step[c] # "claim" => fnStatus[job[c]] = "PREPARING_ENVIRONMENT"
    /\ \A c \in Builders :
         pc[c] = "poison" => vmState # "up" \/ fnStatus[job[c]] # "READY"
    /\ vmState = "down" => B!AllIdle

\* Steps that no builder takes part in, on rows no builder has.
LEMMA BuildersStay ==
    ASSUME TypeOK, BuilderInv, UNCHANGED <<vmState, buildQueueVars, buildVars>>,
           \A f \in Functions : fnStatus'[f] # fnStatus[f] => \A c \in Builders : job[c] # f
    PROVE  BuilderInv'
<1> USE DEF buildQueueVars, buildVars
<1>1. \A c \in Builders : pc[c] # "idle" => job[c] \in Functions
  BY FunctionStoreAssumption
  DEF FunctionStoreAssumption, TypeOK, StoreTypeOK, B!TypeOK
<1>2. \A c \in Builders : step[c] # "claim" => pc[c] = "handle"
  BY DEF TypeOK, BuildTypeOK
<1>3. \A f \in Functions : OneMessage(f)'
  BY DEF BuilderInv, OneMessage
<1>4. \A c \in Builders : pc[c] # "idle" => fnStatus'[job[c]] = fnStatus[job[c]]
  BY <1>1
<1>5. QED
  BY <1>2, <1>3, <1>4 DEF BuilderInv, B!AllIdle

-----------------------------------------------------------------------------
\* Nobody comes to a place, and the rows and verdicts are left alone.
LEMMA StagesRest ==
    ASSUME StageInv, Still, UNCHANGED <<fnStatus, verdicts>>
    PROVE  StageInv'
BY StagesStay

\* A function goes on, and its row fits there as it is.
LEMMA StagesPass ==
    ASSUME WayInv, StageInv, NEW f, NEW p \in Places, NEW q, Goes(f, p, q),
           UNCHANGED <<fnStatus, verdicts>>,
           Fits(p, f) => Fits(q, f)
    PROVE  StageInv'
<1>1. Fits(q, f)
  BY DEF Goes, StageInv
<1>2. QED
  BY <1>1, StagesGoOn DEF Fits

LEMMA StagesOfServer ==
    ASSUME TypeOK, WayInv, StageInv, budget["db"] = 0, IntakeNext,
           UNCHANGED <<analyzerVars, buildVars>>
    PROVE  StageInv'
<1> USE DEF tableVars, analyzerVars
<1>1. /\ UNCHANGED verdicts
      /\ fnStatus \in [Functions -> FnStatuses]
      /\ qWorker.status \in {"EXTRACTED", "FAILED"}
      /\ \A f \in Functions : verdicts[f] = verdicts'[f]
  BY DEF TypeOK, StoreTypeOK, IntakeTypeOK
<1>2. ASSUME NEW f, NEW s, StatusUpdated(f, s) \/ StatusUpdateFails(f, s)
      PROVE  fnStatus' = [fnStatus EXCEPT ![f] = s]
  BY <1>2 DEF StatusUpdated, StatusUpdateFails, SetFnStatus, Spend
<1>3. \A f \in Functions : StoreArchive(f) => StageInv'
  BY <1>1, WayOfServer, StagesRest DEF StoreArchive
<1>4. ASSUME NEW f \in Functions, CreateFunction(f)
      PROVE  StageInv'
  <2>1. fnStatus' = [fnStatus EXCEPT ![f] = "QUARANTINED"]
    BY <1>2, <1>4 DEF CreateFunction
  <2>2. Goes(f, "request", "created") /\ "request" \in Places
    BY <1>4, WayOfServer DEF Places
  <2>3. verdicts[f] = {}
    BY <2>2 DEF Goes, StageInv, Fits, Judged
  <2>4. QED
    BY <1>1, <2>1, <2>2, <2>3, StagesGoOn DEF StatusAt, Judged
<1>5. ASSUME NEW f \in Functions, AnnounceUpload(f)
      PROVE  StageInv'
  <2>1. Goes(f, "created", "quarantineBus") /\ UNCHANGED fnStatus
    BY <1>5, WayOfServer DEF AnnounceUpload
  <2>2. QED
    BY <1>1, <2>1, StagesPass DEF Fits, StatusAt, Judged, Places
<1>6. CASE ExtractNext
  <2>1. Goes(Head(quarantineBus), "quarantineBus", "update") /\ UNCHANGED fnStatus
    BY <1>6, WayOfServer DEF ExtractNext
  <2>2. QED
    BY <1>1, <2>1, StagesPass DEF Fits, StatusAt, Judged, Places
<1>7. CASE RecordExtraction
  <2>1. fnStatus' = [fnStatus EXCEPT ![qWorker.of] = qWorker.status]
    BY <1>2, <1>7 DEF RecordExtraction
  <2>2. Goes(qWorker.of, "update", "announce") /\ "update" \in Places
    BY <1>7, WayOfServer DEF Places
  <2>3. verdicts[qWorker.of] = {} /\ qWorker.of \in Functions
    BY <2>2 DEF Goes, StageInv, Fits, Judged
  <2>4. QED
    BY <1>1, <2>1, <2>2, <2>3, StagesGoOn DEF StatusAt, Judged
<1>8. CASE AnnounceExtraction
  <2>1. Goes(qWorker.of, "announce", "extractionBus") /\ UNCHANGED fnStatus
    BY <1>8, WayOfServer DEF AnnounceExtraction
  <2>2. QED
    BY <1>1, <2>1, StagesPass DEF Fits, StatusAt, Judged, Places
<1>9. CASE ForwardNext
  <2>1. Goes(Head(extractionBus), "extractionBus", "xWorker") /\ UNCHANGED fnStatus
    BY <1>9, WayOfServer DEF ForwardNext
  <2>2. QED
    BY <1>1, <2>1, StagesPass DEF Fits, StatusAt, Judged, Places
<1>10. CASE PublishToAnalyzer
  <2>1. Goes(xWorker, "xWorker", "analyzerQueue") /\ UNCHANGED fnStatus
    BY <1>10, WayOfServer DEF PublishToAnalyzer
  <2>2. QED
    BY <1>1, <2>1, StagesPass DEF Fits, StatusAt, Judged, Places
<1>11. CASE ServerCrash \/ ServerStart
  <2>1. Still /\ UNCHANGED fnStatus
    BY <1>11, WayOfServer DEF ServerCrash, ServerStart
  <2>2. QED
    BY <1>1, <2>1, StagesRest
<1>12. QED
  BY <1>3, <1>4, <1>5, <1>6, <1>7, <1>8, <1>9, <1>10, <1>11 DEF IntakeNext, IntakeProgress

LEMMA StagesOfAnalyzer ==
    ASSUME TypeOK, WayInv, StageInv, Orderly, AnalyzerNext,
           UNCHANGED <<intakeVars, buildVars>>
    PROVE  StageInv'
<1> USE DEF tableVars
<1>1. /\ fnStatus \in [Functions -> FnStatuses]
      /\ verdicts \in [Functions -> SUBSET AnalysisVerdicts]
      /\ budget["redelivery"] = 0
      /\ scan \in [at : ScanStages, of : Functions \cup {NoFunction}, verdict : AnalysisVerdicts]
  BY DEF TypeOK, StoreTypeOK, AnalyzerTypeOK, Orderly
<1>2. ASSUME NEW f, NEW s, StatusUpdated(f, s) \/ StatusUpdateFails(f, s)
      PROVE  fnStatus' = [fnStatus EXCEPT ![f] = s] /\ StatusUpdated(f, s)
  BY <1>2 DEF StatusUpdated, StatusUpdateFails, SetFnStatus, Spend, Orderly
<1>3. ASSUME NEW f \in Functions, ReceiveUpload(f)
      PROVE  StageInv'
  <2>1. Goes(f, "analyzerQueue", "land") /\ UNCHANGED <<fnStatus, verdicts>>
    BY <1>1, <1>3, WayOfAnalyzer DEF ReceiveUpload
  <2>2. QED
    BY <2>1, StagesPass DEF Fits, StatusAt, Judged, Places
<1>4. CASE Land
  <2>1. fnStatus' = [fnStatus EXCEPT ![scan.of] = "SCANNING"] /\ UNCHANGED verdicts
    BY <1>2, <1>4 DEF Land
  <2>2. Goes(scan.of, "land", "analysis") /\ "land" \in Places
    BY <1>1, <1>4, WayOfAnalyzer DEF Places
  <2>3. verdicts[scan.of] = {} /\ scan.of \in Functions
    BY <2>2 DEF Goes, StageInv, Fits, Judged
  <2>4. QED
    BY <1>1, <2>1, <2>2, <2>3, StagesGoOn DEF StatusAt, Judged
<1>5. CASE PassStage \/ CopyArchive \/ RemoveArchive
  <2>1. Still /\ UNCHANGED <<fnStatus, verdicts>>
    BY <1>1, <1>5, WayOfAnalyzer DEF PassStage, CopyArchive, RemoveArchive
  <2>2. QED
    BY <2>1, StagesRest
<1>6. CASE EndAnalysis
  <2>1. PICK v : verdicts' = [verdicts EXCEPT ![scan.of] = @ \cup {v}]
    BY <1>6 DEF EndAnalysis
  <2>2. UNCHANGED fnStatus
    BY <1>6 DEF EndAnalysis
  <2>3. Goes(scan.of, "analysis", "record") /\ "analysis" \in Places
    BY <1>1, <1>6, WayOfAnalyzer DEF Places
  <2>4. fnStatus[scan.of] = "SCANNING" /\ scan.of \in Functions
    BY <2>3 DEF Goes, StageInv, Fits, StatusAt
  <2>5. verdicts'[scan.of] # {}
    BY <1>1, <2>1, <2>4
  <2>6. \A g \in Functions : g # scan.of => verdicts'[g] = verdicts[g]
    BY <1>1, <2>1
  <2>7. QED
    BY <2>2, <2>3, <2>4, <2>5, <2>6, StagesGoOn DEF StatusAt, Judged
<1>7. CASE RecordVerdict
  <2>1. /\ fnStatus' = [fnStatus EXCEPT ![scan.of] = StatusOf(scan.verdict)]
        /\ UNCHANGED verdicts
    BY <1>2, <1>7 DEF RecordVerdict
  <2>2. Goes(scan.of, "record", "move") /\ "record" \in Places
    BY <1>1, <1>7, WayOfAnalyzer DEF Places
  <2>3. verdicts[scan.of] # {} /\ scan.of \in Functions
    BY <2>2 DEF Goes, StageInv, Fits, Judged
  <2>4. At("move", scan.of) <=> scan.at \in {"copy", "remove", "publish"}
    BY DEF At
  <2>5. scan.verdict # "SAFE" => scan'.of = NoFunction
    BY <1>7 DEF RecordVerdict, Done, NoScan
  <2>6. ASSUME NEW f, f = scan.of, At("move", f)'
        PROVE  scan.verdict = "SAFE"
    BY <2>3, <2>5, <2>6, FunctionStoreAssumption DEF FunctionStoreAssumption, At
  <2>7. ASSUME NEW f, f = scan.of, At("move", f)'
        PROVE  fnStatus'[f] = "VERIFIED"
    BY <1>1, <2>1, <2>3, <2>6, <2>7 DEF StatusOf
  <2>8. QED
    <3>1. PICK f : f = scan.of
      OBVIOUS
    <3>2. Goes(f, "record", "move")
      BY <2>2, <3>1
    <3>3. At("move", f)' => fnStatus'[f] \in StatusAt("move")
      BY <2>7, <3>1 DEF StatusAt
    <3>4. \A g \in Functions : g # f => fnStatus'[g] = fnStatus[g]
      BY <1>1, <2>1, <3>1
    <3>5. verdicts'[f] # {}
      BY <2>1, <2>3, <3>1
    <3>6. QED
      BY <2>1, <3>2, <3>3, <3>4, <3>5, StagesGoOn DEF Judged
<1>8. CASE PublishBuild
  <2>1. Goes(scan.of, "move", "build") /\ UNCHANGED <<fnStatus, verdicts>>
    BY <1>1, <1>8, WayOfAnalyzer DEF PublishBuild
  <2>2. QED
    BY <2>1, StagesPass DEF Fits, StatusAt, Judged, Places
<1>9. CASE SemgrepFails \/ AnalyzerCrash \/ AnalyzerStart
  <2>1. Still /\ UNCHANGED <<fnStatus, verdicts>>
    BY <1>1, <1>9, WayOfAnalyzer DEF SemgrepFails, AnalyzerCrash, AnalyzerStart
  <2>2. QED
    BY <2>1, StagesRest
<1>10. QED
  BY <1>3, <1>4, <1>5, <1>6, <1>7, <1>8, <1>9 DEF AnalyzerNext, AnalyzerProgress

-----------------------------------------------------------------------------
\* A row that the server or the analyzer writes is with no builder.
LEMMA RowsOfOthers ==
    ASSUME TypeOK, WayInv, IntakeNext \/ AnalyzerNext,
           NEW f \in Functions, fnStatus'[f] # fnStatus[f]
    PROVE  ~ B!Carried(f)
<1> USE DEF tableVars
<1>1. /\ fnStatus \in [Functions -> FnStatuses]
      /\ queue \in [Functions -> Nat]
  BY DEF TypeOK, StoreTypeOK, B!TypeOK
<1>2. ASSUME NEW g, NEW s, StatusUpdated(g, s) \/ StatusUpdateFails(g, s)
      PROVE  f = g
  BY <1>1, <1>2 DEF StatusUpdated, StatusUpdateFails, SetFnStatus
<1>3. \/ \E g \in Functions : CreateFunction(g)
      \/ RecordExtraction \/ Land \/ RecordVerdict
  BY DEF IntakeNext, IntakeProgress, StoreArchive, AnnounceUpload, ExtractNext,
     AnnounceExtraction, ForwardNext, PublishToAnalyzer, ServerCrash, ServerStart,
     AnalyzerNext, AnalyzerProgress, ReceiveUpload, PassStage, EndAnalysis, CopyArchive,
     RemoveArchive, PublishBuild, SemgrepFails, AnalyzerCrash, AnalyzerStart
<1>4. \A g \in Functions : CreateFunction(g) => At("request", f)
  BY <1>2 DEF CreateFunction, UploadMoves, At
<1>5. RecordExtraction => At("update", f)
  BY <1>2 DEF RecordExtraction, At
<1>6. Land => At("land", f)
  BY <1>2 DEF Land, ScanAt, At
<1>7. RecordVerdict => At("record", f)
  BY <1>2 DEF RecordVerdict, ScanAt, At
<1>8. ~ At("build", f)
  BY <1>3, <1>4, <1>5, <1>6, <1>7 DEF WayInv, Places
<1>9. QED
  BY <1>8 DEF At

LEMMA BuildersOfOthers ==
    ASSUME TypeOK, WayInv, BuilderInv,
           \/ IntakeNext /\ UNCHANGED <<analyzerVars, buildVars>>
           \/ AnalyzerNext /\ UNCHANGED <<intakeVars, buildVars>>
    PROVE  BuilderInv'
<1> USE DEF buildQueueVars, buildVars, platformVars
<1>1. \A f \in Functions : fnStatus'[f] # fnStatus[f] => \A c \in Builders : job[c] # f
  BY RowsOfOthers DEF B!Carried
<1>2. UNCHANGED vmState
  BY DEF IntakeNext, IntakeProgress, StoreArchive, CreateFunction, AnnounceUpload, ExtractNext,
     RecordExtraction, AnnounceExtraction, ForwardNext, PublishToAnalyzer, ServerCrash,
     ServerStart, AnalyzerNext, AnalyzerProgress, ReceiveUpload, Land, PassStage, EndAnalysis,
     RecordVerdict, CopyArchive, RemoveArchive, PublishBuild, SemgrepFails, AnalyzerCrash,
     AnalyzerStart
<1>3. CASE UNCHANGED buildQueueVars
  BY <1>1, <1>2, <1>3, BuildersStay
<1>4. CASE ~ UNCHANGED buildQueueVars
  <2>1. PublishBuild /\ B!Enqueue(scan.of)
    BY <1>4
    DEF IntakeNext, IntakeProgress, StoreArchive, CreateFunction, AnnounceUpload, ExtractNext,
        RecordExtraction, AnnounceExtraction, ForwardNext, PublishToAnalyzer, ServerCrash,
        ServerStart, AnalyzerNext, AnalyzerProgress, ReceiveUpload, Land, PassStage, EndAnalysis,
        RecordVerdict, CopyArchive, RemoveArchive, PublishBuild, SemgrepFails, AnalyzerCrash,
        AnalyzerStart
  <2>2. scan.at = "publish" /\ scan.of \in Functions
    BY <2>1, FunctionStoreAssumption
    DEF FunctionStoreAssumption, PublishBuild, ScanAt, TypeOK, AnalyzerTypeOK
  <2>3. ~ B!Carried(scan.of)
    <3>1. At("move", scan.of)
      BY <2>2 DEF At
    <3>2. ~ At("build", scan.of)
      BY <2>2, <3>1 DEF WayInv, Places
    <3>3. QED
      BY <3>2 DEF At
  <2>4. /\ queue \in [Functions -> Nat]
        /\ queue' = [queue EXCEPT ![scan.of] = @ + 1]
        /\ UNCHANGED <<pc, job, owned, step, fnStatus, vmState>>
    BY <2>1, <1>2 DEF B!Enqueue, PublishBuild, TypeOK, StoreTypeOK, B!TypeOK, tableVars
  <2>5. \A f \in Functions : OneMessage(f)'
    BY <2>2, <2>3, <2>4 DEF BuilderInv, OneMessage, B!Carried
  <2>6. QED
    BY <2>4, <2>5 DEF BuilderInv, B!AllIdle
<1>5. QED
  BY <1>3, <1>4

\* A builder at work on its message, which it keeps.
LEMMA BuilderWorks ==
    ASSUME TypeOK, BuilderInv, NEW c \in Builders, pc[c] # "idle",
           UNCHANGED <<vmState, queue, job, owned>>,
           NEW a \in B!Stages, a # "idle", pc' = [pc EXCEPT ![c] = a],
           NEW s \in BuildSteps, step' = [step EXCEPT ![c] = s],
           \A f \in Functions : fnStatus'[f] # fnStatus[f] => f = job[c],
           s # "claim" => fnStatus'[job[c]] = "PREPARING_ENVIRONMENT",
           a = "poison" => vmState # "up" \/ fnStatus'[job[c]] # "READY"
    PROVE  BuilderInv'
<1>1. /\ pc \in [Builders -> B!Stages]
      /\ step \in [Builders -> BuildSteps]
      /\ \A d \in Builders : pc[d] # "idle" => job[d] \in Functions
      /\ \A d \in Builders : step[d] # "claim" => pc[d] = "handle"
  BY FunctionStoreAssumption
  DEF FunctionStoreAssumption, TypeOK, StoreTypeOK, B!TypeOK, BuildTypeOK
<1>2. \A f \in Functions : OneMessage(f)'
  BY DEF BuilderInv, OneMessage
<1>3. \A d \in Builders : owned'[d] <=> pc'[d] # "idle"
  BY <1>1 DEF BuilderInv
<1>4. ASSUME NEW d \in Builders, d # c, pc[d] # "idle"
      PROVE  fnStatus'[job[d]] = fnStatus[job[d]]
  <2>1. job[d] # job[c]
    BY <1>1, <1>4 DEF BuilderInv, OneMessage
  <2>2. QED
    BY <1>1, <1>4, <2>1
<1>5. \A d \in Builders : step'[d] # "claim" => fnStatus'[job[d]] = "PREPARING_ENVIRONMENT"
  BY <1>1, <1>4 DEF BuilderInv
<1>6. \A d \in Builders : pc'[d] = "poison" => vmState # "up" \/ fnStatus'[job[d]] # "READY"
  BY <1>1, <1>4 DEF BuilderInv
<1>7. vmState # "down"
  BY DEF BuilderInv, B!AllIdle
<1>8. QED
  BY <1>2, <1>3, <1>5, <1>6, <1>7 DEF BuilderInv

\* What each builder's step does to the row of its message, while statements
\* fail only because the service is stopping.
LEMMA BuilderWrites ==
    ASSUME TypeOK, BuilderInv, Orderly, NEW c \in Builders
    PROVE  /\ ClaimBuild(c) =>
                \/ /\ vmState = "up" /\ fnStatus[job[c]] = "VERIFIED"
                   /\ fnStatus' = [fnStatus EXCEPT ![job[c]] = "PREPARING_ENVIRONMENT"]
                   /\ step' = [step EXCEPT ![c] = "prepare"]
                   /\ UNCHANGED pc
                \/ UNCHANGED <<fnStatus, step>> /\ B!ReturnNil(c)
                \/ UNCHANGED <<fnStatus, step>> /\ B!ReturnError(c) /\ vmState # "up"
           /\ RejectBuild(c) =>
                /\ UNCHANGED fnStatus \/ fnStatus' = [fnStatus EXCEPT ![job[c]] = "FAILED"]
                /\ step' = [step EXCEPT ![c] = "claim"] /\ B!ReturnNil(c)
           /\ ResetBuild(c) =>
                /\ \/ UNCHANGED fnStatus /\ vmState # "up"
                   \/ fnStatus' = [fnStatus EXCEPT ![job[c]] = "VERIFIED"]
                /\ step' = [step EXCEPT ![c] = "claim"] /\ B!ReturnError(c)
           /\ FinishBuild(c) =>
                /\ step' = [step EXCEPT ![c] = "claim"]
                /\ \/ /\ fnStatus' = [fnStatus EXCEPT ![job[c]] = "READY"]
                      /\ drivePath' = [drivePath EXCEPT ![job[c]] = driveName[c]]
                      /\ B!ReturnNil(c)
                   \/ UNCHANGED <<fnStatus, drivePath>> /\ B!ReturnError(c) /\ vmState # "up"
           /\ PoisonBuild(c) =>
                /\ B!StatusWritten(c) /\ UNCHANGED step
                /\ \/ UNCHANGED fnStatus
                   \/ vmState = "up" /\ fnStatus' = [fnStatus EXCEPT ![job[c]] = "FAILED"]
<1> USE DEF buildQueueVars, buildVars, tableVars
<1>1. /\ ~ DbReplyLost
      /\ DbRefused => vmState = "stopping"
      /\ DbOk => vmState = "up"
  BY DEF DbReplyLost, DbRefused, DbOk, Spend, Orderly
<1>2. ClaimBuild(c) =>
        \/ /\ vmState = "up" /\ fnStatus[job[c]] = "VERIFIED"
           /\ fnStatus' = [fnStatus EXCEPT ![job[c]] = "PREPARING_ENVIRONMENT"]
           /\ step' = [step EXCEPT ![c] = "prepare"]
           /\ UNCHANGED pc
        \/ UNCHANGED <<fnStatus, step>> /\ B!ReturnNil(c)
        \/ UNCHANGED <<fnStatus, step>> /\ B!ReturnError(c) /\ vmState # "up"
  BY <1>1 DEF ClaimBuild, SetFnStatus
<1>3. RejectBuild(c) =>
        /\ UNCHANGED fnStatus \/ fnStatus' = [fnStatus EXCEPT ![job[c]] = "FAILED"]
        /\ step' = [step EXCEPT ![c] = "claim"] /\ B!ReturnNil(c)
  BY DEF RejectBuild, SetFnStatusOrLog, SetFnStatus, LeavesPrepare
<1>4. ResetBuild(c) =>
        /\ \/ UNCHANGED fnStatus /\ vmState # "up"
           \/ fnStatus' = [fnStatus EXCEPT ![job[c]] = "VERIFIED"]
        /\ step' = [step EXCEPT ![c] = "claim"] /\ B!ReturnError(c)
  BY <1>1 DEF ResetBuild, SetFnStatusOrLog, SetFnStatus, LeavesPrepare
<1>5. FinishBuild(c) =>
        /\ step' = [step EXCEPT ![c] = "claim"]
        /\ \/ /\ fnStatus' = [fnStatus EXCEPT ![job[c]] = "READY"]
              /\ drivePath' = [drivePath EXCEPT ![job[c]] = driveName[c]]
              /\ B!ReturnNil(c)
           \/ UNCHANGED <<fnStatus, drivePath>> /\ B!ReturnError(c) /\ vmState # "up"
  BY <1>1 DEF FinishBuild, SetFnStatus, LeavesPrepare
<1>6. PoisonBuild(c) =>
        /\ B!StatusWritten(c) /\ UNCHANGED step
        /\ \/ UNCHANGED fnStatus
           \/ vmState = "up" /\ fnStatus' = [fnStatus EXCEPT ![job[c]] = "FAILED"]
  BY <1>1 DEF PoisonBuild, SetFnStatusOrLog, SetFnStatus
<1>7. QED
  BY <1>2, <1>3, <1>4, <1>5, <1>6

\* A consumer that is done with its message, or is given one.
LEMMA BuilderComesAndGoes ==
    ASSUME TypeOK, BuilderInv, NEW c \in Builders, UNCHANGED <<fnStatus, step, vmState>>
    PROVE  /\ vmState = "up" /\ (\E f \in Functions : B!Deliver(c, f)) => BuilderInv'
           /\ B!Nack(c) \/ B!Ack(c) => BuilderInv'
<1>1. /\ queue \in [Functions -> Nat]
      /\ pc \in [Builders -> B!Stages]
      /\ owned \in [Builders -> BOOLEAN]
      /\ job \in [Builders -> Functions \cup {NoFunction}]
      /\ \A d \in Builders : pc[d] # "idle" <=> job[d] # NoFunction
      /\ \A d \in Builders : step[d] # "claim" => pc[d] = "handle"
      /\ NoFunction \notin Functions
  BY FunctionStoreAssumption
  DEF FunctionStoreAssumption, TypeOK, StoreTypeOK, B!TypeOK, BuildTypeOK
<1>2. ASSUME NEW f \in Functions, B!Deliver(c, f), vmState = "up"
      PROVE  BuilderInv'
  <2>1. /\ pc[c] = "idle" /\ pc' = [pc EXCEPT ![c] = "handle"]
        /\ queue[f] > 0 /\ queue' = [queue EXCEPT ![f] = @ - 1]
        /\ job' = [job EXCEPT ![c] = f]
        /\ owned' = [owned EXCEPT ![c] = TRUE]
    BY <1>2 DEF B!Deliver, B!Move
  <2>2. \A g \in Functions : OneMessage(g)'
    BY <1>1, <2>1 DEF BuilderInv, OneMessage
  <2>3. \A d \in Builders : owned'[d] <=> pc'[d] # "idle"
    BY <1>1, <2>1, Zenon DEF BuilderInv
  <2>4. \A d \in Builders : step'[d] # "claim" => fnStatus'[job'[d]] = "PREPARING_ENVIRONMENT"
    BY <1>1, <2>1 DEF BuilderInv
  <2>5. \A d \in Builders :
          pc'[d] = "poison" => vmState' # "up" \/ fnStatus'[job'[d]] # "READY"
    BY <1>1, <2>1 DEF BuilderInv
  <2>6. QED
    BY <1>2, <2>2, <2>3, <2>4, <2>5 DEF BuilderInv
<1>3. ASSUME B!Nack(c) \/ B!Ack(c)
      PROVE  BuilderInv'
  <2>1. /\ pc[c] # "idle" /\ pc[c] # "handle" /\ pc' = [pc EXCEPT ![c] = "idle"]
        /\ job' = [job EXCEPT ![c] = NoFunction]
        /\ owned' = [owned EXCEPT ![c] = FALSE]
        /\ queue' = queue \/ queue' = [queue EXCEPT ![job[c]] = @ + B!Returned(c)]
    BY <1>3 DEF B!Nack, B!Ack, B!Move, B!Released
  <2>2. B!Returned(c) \in {0, 1}
    BY DEF B!Returned
  <2>3. job[c] \in Functions
    BY <1>1, <2>1
  <2>4. \A g \in Functions : OneMessage(g)'
    BY <1>1, <2>1, <2>2, <2>3 DEF BuilderInv, OneMessage
  <2>5. \A d \in Builders : owned'[d] <=> pc'[d] # "idle"
    BY <1>1, <2>1, Zenon DEF BuilderInv
  <2>6. \A d \in Builders : step'[d] # "claim" => fnStatus'[job'[d]] = "PREPARING_ENVIRONMENT"
    BY <1>1, <2>1 DEF BuilderInv
  <2>7. \A d \in Builders :
          pc'[d] = "poison" => vmState' # "up" \/ fnStatus'[job'[d]] # "READY"
    BY <1>1, <2>1 DEF BuilderInv
  <2>8. vmState # "down"
    BY <2>1 DEF BuilderInv, B!AllIdle
  <2>9. QED
    BY <2>4, <2>5, <2>6, <2>7, <2>8 DEF BuilderInv
<1>4. QED
  BY <1>2, <1>3

\* The process dies: a message that a builder held is in the queue again.
LEMMA BuildersDie ==
    ASSUME TypeOK, BuilderInv, VmCrash
    PROVE  BuilderInv'
<1> USE DEF tableVars
<1>1. /\ queue \in [Functions -> Nat]
      /\ NoFunction \notin Functions
      /\ IsFiniteSet(Builders)
      /\ \A d \in Builders : pc[d] = "idle" <=> job[d] = NoFunction
  BY FunctionStoreAssumption
  DEF FunctionStoreAssumption, TypeOK, StoreTypeOK, B!TypeOK
<1>2. /\ vmState' = "down" /\ UNCHANGED fnStatus
      /\ step' = [c \in Builders |-> "claim"]
      /\ pc' = [c \in Builders |-> "idle"]
      /\ job' = [c \in Builders |-> NoFunction]
      /\ owned' = [c \in Builders |-> FALSE]
      /\ queue' = [f \in Functions |->
                     queue[f] + B!Cardinality({c \in Builders : owned[c] /\ job[c] = f})]
  BY DEF VmCrash, ProcessCrashes, B!Die
<1>3. ASSUME NEW f \in Functions
      PROVE  OneMessage(f)'
  <2> DEFINE back == {c \in Builders : owned[c] /\ job[c] = f}
  <2>1. B!Cardinality(back) = Cardinality(back)
    BY DEF B!Cardinality, Cardinality
  <2>2. CASE back = {}
    <3>1. queue'[f] = queue[f]
      <4>1. Cardinality(back) = 0
        BY <2>2, FS_EmptySet
      <4>2. queue'[f] = queue[f] + B!Cardinality(back)
        BY <1>2
      <4>3. QED
        BY <1>1, <2>1, <4>1, <4>2
    <3>2. QED
      BY <1>1, <1>2, <1>3, <3>1 DEF BuilderInv, OneMessage
  <2>3. CASE back # {}
    <3>1. PICK c \in Builders : c \in back
      BY <2>3
    <3>2. back = {c} /\ queue[f] = 0
      BY <3>1 DEF BuilderInv, OneMessage
    <3>3. Cardinality(back) = 1
      BY <3>2, FS_Singleton
    <3>4. queue'[f] = 1
      BY <1>1, <1>2, <2>1, <3>2, <3>3
    <3>5. QED
      BY <1>1, <1>2, <1>3, <3>4 DEF OneMessage
  <2>4. QED
    BY <2>2, <2>3
<1>4. QED
  BY <1>2, <1>3 DEF BuilderInv, B!AllIdle

LEMMA BuildersOfService ==
    ASSUME TypeOK, BuilderInv, Orderly, BuildNext
    PROVE  BuilderInv'
<1> USE DEF buildQueueVars, buildVars, tableVars, platformVars
<1>1. /\ fnStatus \in [Functions -> FnStatuses]
      /\ pc \in [Builders -> B!Stages]
      /\ step \in [Builders -> BuildSteps]
      /\ \A d \in Builders : pc[d] # "idle" => job[d] \in Functions
      /\ \A d \in Builders : step[d] # "claim" => pc[d] = "handle"
      /\ {"claim", "prepare", "save", "finish", "reject", "reset"} = BuildSteps
      /\ {"idle", "handle", "poison", "dlq", "settle"} = B!Stages
  BY FunctionStoreAssumption
  DEF FunctionStoreAssumption, TypeOK, StoreTypeOK, B!TypeOK, BuildTypeOK, BuildSteps, B!Stages
<1>2. ASSUME NEW c \in Builders, ClaimBuild(c)
      PROVE  BuilderInv'
  <2>1. pc[c] = "handle" /\ step[c] = "claim" /\ UNCHANGED vmState
    BY <1>2 DEF ClaimBuild, BuilderAt
  <2>2. CASE /\ vmState = "up" /\ fnStatus[job[c]] = "VERIFIED"
             /\ fnStatus' = [fnStatus EXCEPT ![job[c]] = "PREPARING_ENVIRONMENT"]
             /\ step' = [step EXCEPT ![c] = "prepare"]
             /\ UNCHANGED pc
    <3>1. UNCHANGED <<queue, job, owned>>
      BY <1>2 DEF ClaimBuild, B!ReturnNil, B!ReturnError
    <3>2. pc' = [pc EXCEPT ![c] = "handle"]
      BY <1>1, <2>1, <2>2
    <3>3. \A f \in Functions : fnStatus'[f] # fnStatus[f] => f = job[c]
      BY <1>1, <2>2
    <3>4. fnStatus'[job[c]] = "PREPARING_ENVIRONMENT"
      BY <1>1, <2>1, <2>2
    <3>5. QED
      BY <1>1, <2>1, <2>2, <3>1, <3>2, <3>3, <3>4, BuilderWorks
  <2>3. ASSUME NEW a \in {"settle", "poison"}, B!Move(c, "handle", a),
               UNCHANGED <<queue, job, owned, fnStatus, step>>,
               a = "poison" => vmState # "up"
        PROVE  BuilderInv'
    <3>1. step' = [step EXCEPT ![c] = "claim"]
      BY <1>1, <2>1, <2>3
    <3>2. QED
      BY <1>1, <2>1, <2>3, <3>1, BuilderWorks DEF B!Move
  <2>4. QED
    BY <1>2, <2>2, <2>3, BuilderWrites DEF B!ReturnNil, B!ReturnError
<1>3. ASSUME NEW c \in Builders, PrepareEnvironment(c) \/ SaveDrive(c)
      PROVE  BuilderInv'
  <2>1. /\ pc[c] = "handle" /\ step[c] # "claim"
        /\ UNCHANGED <<vmState, fnStatus, queue, pc, job, owned>>
    BY <1>3 DEF PrepareEnvironment, SaveDrive, BuilderAt, Proceeds
  <2>2. PICK s \in {"save", "reject", "reset", "finish"} : step' = [step EXCEPT ![c] = s]
    BY <1>3 DEF PrepareEnvironment, SaveDrive, Proceeds
  <2>3. fnStatus'[job[c]] = "PREPARING_ENVIRONMENT"
    BY <2>1 DEF BuilderInv
  <2>4. pc' = [pc EXCEPT ![c] = "handle"]
    BY <1>1, <2>1
  <2>5. QED
    BY <1>1, <2>1, <2>2, <2>3, <2>4, BuilderWorks
<1>4. ASSUME NEW c \in Builders, RejectBuild(c) \/ ResetBuild(c) \/ FinishBuild(c)
      PROVE  BuilderInv'
  <2>1. /\ pc[c] = "handle" /\ UNCHANGED <<vmState, queue, job, owned>>
        /\ step' = [step EXCEPT ![c] = "claim"]
    BY <1>4 DEF RejectBuild, ResetBuild, FinishBuild, BuilderAt, LeavesPrepare, B!ReturnNil,
       B!ReturnError
  <2>2. PICK a \in {"settle", "poison"} :
             /\ pc' = [pc EXCEPT ![c] = a]
             /\ \/ fnStatus' = fnStatus /\ (a = "poison" => vmState # "up")
                \/ fnStatus' = [fnStatus EXCEPT ![job[c]] = "FAILED"]
                \/ fnStatus' = [fnStatus EXCEPT ![job[c]] = "VERIFIED"]
                \/ fnStatus' = [fnStatus EXCEPT ![job[c]] = "READY"] /\ a = "settle"
    BY <1>4, BuilderWrites DEF B!ReturnNil, B!ReturnError, B!Move
  <2>3. \A f \in Functions : fnStatus'[f] # fnStatus[f] => f = job[c]
    BY <1>1, <2>2
  <2>4. a = "poison" => vmState # "up" \/ fnStatus'[job[c]] # "READY"
    BY <1>1, <2>1, <2>2
  <2>5. QED
    BY <1>1, <2>1, <2>2, <2>3, <2>4, BuilderWorks
<1>5. ASSUME NEW c \in Builders, PoisonBuild(c)
      PROVE  BuilderInv'
  <2>1. /\ pc[c] = "poison" /\ pc' = [pc EXCEPT ![c] = "dlq"]
        /\ UNCHANGED <<vmState, queue, job, owned, step>>
        /\ fnStatus' = fnStatus \/ fnStatus' = [fnStatus EXCEPT ![job[c]] = "FAILED"]
    BY <1>5, BuilderWrites DEF PoisonBuild, B!StatusWritten, B!Move
  <2>2. \A f \in Functions : fnStatus'[f] # fnStatus[f] => f = job[c]
    BY <1>1, <2>1
  <2>3. step' = [step EXCEPT ![c] = "claim"]
    BY <1>1, <2>1
  <2>4. QED
    BY <1>1, <2>1, <2>2, <2>3, BuilderWorks
<1>6. ASSUME NEW c \in Builders, DeadLetterBuild(c) \/ DeadLetterBuildFails(c) \/ AckBuild(c)
      PROVE  BuilderInv'
  <2>1. UNCHANGED <<vmState, fnStatus, step>>
    BY <1>6 DEF DeadLetterBuild, DeadLetterBuildFails, AckBuild
  <2>2. CASE B!DeadLetterSent(c) \/ B!TryAgain(c)
    <3>1. /\ pc[c] = "dlq" /\ UNCHANGED <<queue, job, owned>>
          /\ \E a \in {"settle", "handle"} : pc' = [pc EXCEPT ![c] = a]
      BY <2>2 DEF B!DeadLetterSent, B!TryAgain, B!Move
    <3>2. step' = [step EXCEPT ![c] = "claim"]
      BY <1>1, <2>1, <3>1
    <3>3. QED
      BY <1>1, <2>1, <3>1, <3>2, BuilderWorks
  <2>3. CASE B!Nack(c) \/ B!Ack(c)
    BY <2>1, <2>3, BuilderComesAndGoes
  <2>4. QED
    BY <1>6, <2>2, <2>3 DEF DeadLetterBuild, DeadLetterBuildFails, AckBuild
<1>7. ASSUME NEW c \in Builders, DeliverBuild(c)
      PROVE  BuilderInv'
  BY <1>7, BuilderComesAndGoes DEF DeliverBuild
<1>8. ASSUME NEW c \in Builders, BuilderConnectionLost(c)
      PROVE  FALSE
  BY <1>8 DEF BuilderConnectionLost, Spend, Orderly
<1>9. CASE VmSigterm \/ VmExit \/ VmStart
  <2>1. /\ UNCHANGED <<fnStatus, queue, pc, job, owned, step>>
        /\ \/ vmState = "up" /\ vmState' = "stopping"
           \/ vmState' = "down" /\ B!AllIdle
           \/ vmState = "down" /\ vmState' = "up"
    BY <1>9 DEF VmSigterm, VmExit, VmStart, CancelContext, ProcessExits, ProcessStarts
  <2>2. \A f \in Functions : OneMessage(f)'
    BY <2>1 DEF BuilderInv, OneMessage
  <2>3. \A c \in Builders : pc[c] = "poison" => vmState' # "up" \/ fnStatus[job[c]] # "READY"
    BY <2>1 DEF BuilderInv, B!AllIdle
  <2>4. QED
    BY <2>1, <2>2, <2>3 DEF BuilderInv, B!AllIdle
<1>10. CASE VmCrash
  BY <1>10, BuildersDie
<1>11. QED
  BY <1>2, <1>3, <1>4, <1>5, <1>6, <1>7, <1>8, <1>9, <1>10 DEF BuildNext, BuilderStep

LEMMA StagesOfBuilders ==
    ASSUME TypeOK, WayInv, StageInv, BuilderInv, Orderly, BuildNext,
           UNCHANGED <<intakeVars, analyzerVars>>
    PROVE  StageInv'
<1> USE DEF tableVars
<1>1. fnStatus \in [Functions -> FnStatuses]
  BY DEF TypeOK, StoreTypeOK
<1>2. Still
  BY WayOfBuilders
<1>3. ASSUME NEW f \in Functions, fnStatus'[f] # fnStatus[f]
      PROVE  \A p \in Places : At(p, f)' => p = "build"
  <2>1. At("build", f)
    BY <1>3, BuildersWriteTheirRow DEF At
  <2>2. QED
    BY <1>2, <1>3, <2>1 DEF Still, WayInv, Places
<1>4. ASSUME NEW f \in Functions, fnStatus'[f] # fnStatus[f]
      PROVE  fnStatus'[f] \in StatusAt("build")
  <2>1. PICK c \in Builders : \/ ClaimBuild(c) \/ RejectBuild(c) \/ ResetBuild(c)
                              \/ FinishBuild(c) \/ PoisonBuild(c)
    BY <1>4
    DEF BuildNext, BuilderStep, DeliverBuild, PrepareEnvironment, SaveDrive, DeadLetterBuild,
        DeadLetterBuildFails, AckBuild, BuilderConnectionLost, VmSigterm, VmExit, VmCrash, VmStart
  <2>2. \E s \in {"VERIFIED", "PREPARING_ENVIRONMENT", "READY", "FAILED"} :
          fnStatus' = fnStatus \/ fnStatus' = [fnStatus EXCEPT ![job[c]] = s]
    BY <2>1, BuilderWrites
  <2>3. QED
    BY <1>1, <1>4, <2>2 DEF StatusAt
<1>5. UNCHANGED verdicts
  BY DEF analyzerVars
<1>6. QED
  BY <1>2, <1>3, <1>4, <1>5, StagesStay

-----------------------------------------------------------------------------
\* Everything the contract is shown from.
Promise ==
    /\ Way
    /\ Orderly
    /\ StageInv
    /\ BuilderInv

LEMMA PromiseKept == CliSpec /\ Orderly => []Promise
<1>1. CliInit => StageInv /\ BuilderInv
  BY FunctionStoreAssumption
  DEF FunctionStoreAssumption, CliInit, Init, StoreInit, PlatformInit, IntakeInit, AnalyzerInit,
      IdleWorker, NoScan, BuildInit, B!Init, StageInv, Fits, StatusAt, Judged, At, InSequence,
      B!Carried, BuilderInv, OneMessage, Places
<1>2. Way /\ Orderly /\ StageInv /\ BuilderInv /\ [CliNext]_cliVars => Orderly' /\ StageInv' /\ BuilderInv'
  <2> SUFFICES ASSUME Way, Orderly, StageInv, BuilderInv, [CliNext]_cliVars
               PROVE  Orderly' /\ StageInv' /\ BuilderInv'
    OBVIOUS
  <2>1. TypeOK /\ WayInv
    BY DEF Way, CliTypeOK
  <2>2. Orderly'
    BY OrderlyStays DEF Way
  <2>3. CASE IntakeNext /\ UNCHANGED <<analyzerVars, buildVars>>
    BY <2>1, <2>2, <2>3, StagesOfServer, BuildersOfOthers DEF Orderly
  <2>4. CASE AnalyzerNext /\ UNCHANGED <<intakeVars, buildVars>>
    BY <2>1, <2>2, <2>4, StagesOfAnalyzer, BuildersOfOthers
  <2>5. CASE BuildNext /\ UNCHANGED <<intakeVars, analyzerVars>>
    BY <2>1, <2>2, <2>5, StagesOfBuilders, BuildersOfService
  <2>6. CASE Unseen
    <3>1. Still /\ UNCHANGED <<fnStatus, verdicts>>
      BY <2>6 DEF Unseen, Still, At, B!Carried, InSequence, intakeVars, analyzerVars,
         buildQueueVars, tableVars
    <3>2. StageInv'
      BY <3>1, StagesRest
    <3>3. BuilderInv'
      BY <2>1, <2>6, BuildersStay DEF Unseen, tableVars
    <3>4. QED
      BY <2>2, <3>2, <3>3
  <2>7. QED
    BY <2>3, <2>4, <2>5, <2>6, StepOfServices DEF Next
<1>3. Orderly => budget["redelivery"] = 0
  BY DEF Orderly
<1>4. QED
  BY <1>1, <1>2, <1>3, WayKept, PTL DEF Promise, CliSpec

-----------------------------------------------------------------------------
(***************************************************************************)
(* The steps of the services as steps of the contract.                     *)
(***************************************************************************)
\* What the contract does not see.
LEMMA ContractStutters ==
    UNCHANGED <<fnStatus, drivePath, verdicts>> => UNCHANGED Contract!vars
BY DEF Contract!vars

\* One verdict more is one function more that is judged.
LEMMA JudgedNow ==
    ASSUME NEW S, NEW v, NEW w, NEW f \in S,
           w[f] # {}, \A g \in S : g # f => w[g] = v[g]
    PROVE  [g \in S |-> w[g] # {}] = [[g \in S |-> v[g] # {}] EXCEPT ![f] = TRUE]
OBVIOUS

LEMMA ContractOfServer ==
    ASSUME TypeOK, WayInv, StageInv, budget["db"] = 0, IntakeNext,
           UNCHANGED <<analyzerVars, buildVars>>
    PROVE  [Contract!Next]_(Contract!vars)
<1> USE DEF tableVars, analyzerVars
<1>1. ASSUME NEW f, NEW s, StatusUpdated(f, s) \/ StatusUpdateFails(f, s)
      PROVE  fnStatus' = [fnStatus EXCEPT ![f] = s]
  BY <1>1 DEF StatusUpdated, StatusUpdateFails, SetFnStatus, Spend
<1>2. ASSUME NEW f \in Functions, CreateFunction(f)
      PROVE  Contract!Next
  <2>1. /\ fnStatus[f] = "NOROW" /\ fnStatus' = [fnStatus EXCEPT ![f] = "QUARANTINED"]
        /\ UNCHANGED <<drivePath, verdicts>>
    BY <1>1, <1>2 DEF CreateFunction
  <2>2. Contract!Upload(f)
    BY <2>1 DEF Contract!Upload, Contract!Becomes
  <2>3. QED
    BY <2>2 DEF Contract!Next
<1>3. CASE RecordExtraction
  <2>1. /\ fnStatus' = [fnStatus EXCEPT ![qWorker.of] = qWorker.status]
        /\ UNCHANGED <<drivePath, verdicts>>
    BY <1>1, <1>3 DEF RecordExtraction
  <2>2. Goes(qWorker.of, "update", "announce") /\ "update" \in Places
    BY <1>3, WayOfServer DEF Places
  <2>3. qWorker.of \in Functions /\ fnStatus[qWorker.of] = "QUARANTINED"
    BY <2>2 DEF Goes, StageInv, Fits, StatusAt
  <2>4. qWorker.status \in {"EXTRACTED", "FAILED"}
    BY DEF TypeOK, IntakeTypeOK
  <2>5. Contract!Look(qWorker.of)
    BY <2>1, <2>3, <2>4 DEF Contract!Look, Contract!Becomes
  <2>6. QED
    BY <2>3, <2>5 DEF Contract!Next
<1>4. \/ UNCHANGED <<fnStatus, drivePath, verdicts>>
      \/ RecordExtraction
      \/ \E f \in Functions : CreateFunction(f)
  BY DEF IntakeNext, IntakeProgress, StoreArchive, AnnounceUpload, ExtractNext,
     AnnounceExtraction, ForwardNext, PublishToAnalyzer, ServerCrash, ServerStart
<1>5. QED
  BY <1>2, <1>3, <1>4, ContractStutters

LEMMA ContractOfAnalyzer ==
    ASSUME TypeOK, WayInv, StageInv, Orderly, AnalyzerNext,
           UNCHANGED <<intakeVars, buildVars>>
    PROVE  [Contract!Next]_(Contract!vars)
<1> USE DEF tableVars
<1>1. /\ fnStatus \in [Functions -> FnStatuses]
      /\ verdicts \in [Functions -> SUBSET AnalysisVerdicts]
      /\ budget["redelivery"] = 0
  BY DEF TypeOK, StoreTypeOK, AnalyzerTypeOK, Orderly
<1>2. ASSUME NEW f, NEW s, StatusUpdated(f, s) \/ StatusUpdateFails(f, s)
      PROVE  fnStatus' = [fnStatus EXCEPT ![f] = s]
  BY <1>2 DEF StatusUpdated, StatusUpdateFails, SetFnStatus, Spend, Orderly
<1>3. CASE Land
  <2>1. /\ fnStatus' = [fnStatus EXCEPT ![scan.of] = "SCANNING"]
        /\ UNCHANGED <<drivePath, verdicts>>
    BY <1>2, <1>3 DEF Land
  <2>2. Goes(scan.of, "land", "analysis") /\ "land" \in Places
    BY <1>1, <1>3, WayOfAnalyzer DEF Places
  <2>3. /\ scan.of \in Functions /\ fnStatus[scan.of] \in {"EXTRACTED", "FAILED"}
        /\ verdicts[scan.of] = {}
    BY <2>2 DEF Goes, StageInv, Fits, StatusAt, Judged
  <2>4. Contract!Scan(scan.of)
    BY <2>1, <2>3 DEF Contract!Scan, Contract!Becomes
  <2>5. QED
    BY <2>3, <2>4 DEF Contract!Next
<1>4. CASE EndAnalysis
  <2>1. PICK v : verdicts' = [verdicts EXCEPT ![scan.of] = @ \cup {v}]
    BY <1>4 DEF EndAnalysis
  <2>2. UNCHANGED <<fnStatus, drivePath>>
    BY <1>4 DEF EndAnalysis
  <2>3. Goes(scan.of, "analysis", "record") /\ "analysis" \in Places
    BY <1>1, <1>4, WayOfAnalyzer DEF Places
  <2>4. /\ scan.of \in Functions /\ fnStatus[scan.of] = "SCANNING"
        /\ verdicts[scan.of] = {}
    BY <2>3 DEF Goes, StageInv, Fits, StatusAt, Judged
  <2>5. /\ verdicts'[scan.of] # {}
        /\ \A f \in Functions : f # scan.of => verdicts'[f] = verdicts[f]
    BY <1>1, <2>1, <2>4
  <2>6. [f \in Functions |-> verdicts'[f] # {}]
          = [[f \in Functions |-> verdicts[f] # {}] EXCEPT ![scan.of] = TRUE]
    BY <2>4, <2>5, JudgedNow
  <2>7. PICK f \in Functions : f = scan.of
    BY <2>4
  <2>8. Contract!EndAnalysis(f)
    BY <2>2, <2>4, <2>6, <2>7 DEF Contract!EndAnalysis
  <2>9. QED
    BY <2>8 DEF Contract!Next
<1>5. CASE RecordVerdict
  <2>1. /\ fnStatus' = [fnStatus EXCEPT ![scan.of] = StatusOf(scan.verdict)]
        /\ UNCHANGED <<drivePath, verdicts>>
    BY <1>2, <1>5 DEF RecordVerdict
  <2>2. Goes(scan.of, "record", "move") /\ "record" \in Places
    BY <1>1, <1>5, WayOfAnalyzer DEF Places
  <2>3. /\ scan.of \in Functions /\ fnStatus[scan.of] = "SCANNING"
        /\ verdicts[scan.of] # {}
    BY <2>2 DEF Goes, StageInv, Fits, StatusAt, Judged
  <2>4. Contract!Judge(scan.of)
    BY <2>1, <2>3 DEF Contract!Judge, Contract!Becomes, StatusOf
  <2>5. QED
    BY <2>3, <2>4 DEF Contract!Next
<1>6. UNCHANGED <<fnStatus, drivePath, verdicts>> \/ Land \/ EndAnalysis \/ RecordVerdict
  BY DEF AnalyzerNext, AnalyzerProgress, ReceiveUpload, PassStage, CopyArchive,
     RemoveArchive, PublishBuild, SemgrepFails, AnalyzerCrash, AnalyzerStart
<1>7. QED
  BY <1>3, <1>4, <1>5, <1>6, ContractStutters

\* One drive more is one function more that is built.
LEMMA BuiltNow ==
    ASSUME NEW S, NEW v, NEW w, NEW f \in S,
           w[f] # 0, \A g \in S : g # f => w[g] = v[g]
    PROVE  [g \in S |-> w[g] # 0] = [[g \in S |-> v[g] # 0] EXCEPT ![f] = TRUE]
OBVIOUS

LEMMA ContractOfBuilders ==
    ASSUME TypeOK, WayInv, StageInv, BuilderInv, Orderly, BuildNext,
           UNCHANGED <<intakeVars, analyzerVars>>
    PROVE  [Contract!Next]_(Contract!vars)
<1> USE DEF tableVars
<1>1. /\ fnStatus \in [Functions -> FnStatuses]
      /\ drivePath \in [Functions -> Nat]
      /\ \A d \in Builders : pc[d] # "idle" => job[d] \in Functions
      /\ \A d \in Builders : step[d] # "claim" => driveName[d] # 0
      /\ UNCHANGED verdicts
  BY FunctionStoreAssumption
  DEF FunctionStoreAssumption, TypeOK, StoreTypeOK, B!TypeOK, BuildTypeOK, analyzerVars
<1>2. \A d \in Builders : step[d] # "claim" => fnStatus[job[d]] = "PREPARING_ENVIRONMENT"
  BY DEF BuilderInv
<1>3. ASSUME UNCHANGED <<fnStatus, drivePath>>
      PROVE  [Contract!Next]_(Contract!vars)
  BY <1>1, <1>3, ContractStutters
<1>4. ASSUME NEW f \in Functions,
             Contract!Prepare(f) \/ Contract!PutBack(f) \/ Contract!GiveUp(f) \/ Contract!Ready(f)
      PROVE  [Contract!Next]_(Contract!vars)
  BY <1>4 DEF Contract!Next
<1>5. ASSUME NEW c \in Builders, ClaimBuild(c)
      PROVE  [Contract!Next]_(Contract!vars)
  <2>1. pc[c] = "handle" /\ UNCHANGED drivePath
    BY <1>5 DEF ClaimBuild, BuilderAt
  <2>2. PICK f \in Functions : f = job[c]
    BY <1>1, <2>1
  <2>3. CASE /\ fnStatus[f] = "VERIFIED"
             /\ fnStatus' = [fnStatus EXCEPT ![f] = "PREPARING_ENVIRONMENT"]
    <3>1. Contract!Prepare(f)
      BY <1>1, <2>1, <2>3 DEF Contract!Prepare, Contract!Becomes
    <3>2. QED
      BY <1>4, <3>1
  <2>4. QED
    BY <1>3, <1>5, <2>1, <2>2, <2>3, BuilderWrites
<1>6. ASSUME NEW c \in Builders, RejectBuild(c) \/ ResetBuild(c)
      PROVE  [Contract!Next]_(Contract!vars)
  <2>1. pc[c] = "handle" /\ step[c] # "claim" /\ UNCHANGED drivePath
    BY <1>6 DEF RejectBuild, ResetBuild, BuilderAt
  <2>2. PICK f \in Functions : f = job[c]
    BY <1>1, <2>1
  <2>3. fnStatus[f] = "PREPARING_ENVIRONMENT"
    BY <1>2, <2>1, <2>2
  <2>4. CASE fnStatus' = [fnStatus EXCEPT ![f] = "FAILED"]
    <3>1. Contract!GiveUp(f)
      BY <1>1, <2>1, <2>3, <2>4 DEF Contract!GiveUp, Contract!Becomes
    <3>2. QED
      BY <1>4, <3>1
  <2>5. CASE fnStatus' = [fnStatus EXCEPT ![f] = "VERIFIED"]
    <3>1. Contract!PutBack(f)
      BY <1>1, <2>1, <2>3, <2>5 DEF Contract!PutBack, Contract!Becomes
    <3>2. QED
      BY <1>4, <3>1
  <2>6. QED
    BY <1>3, <1>6, <2>1, <2>2, <2>4, <2>5, BuilderWrites
<1>7. ASSUME NEW c \in Builders, FinishBuild(c)
      PROVE  [Contract!Next]_(Contract!vars)
  <2>1. pc[c] = "handle" /\ step[c] # "claim"
    BY <1>7 DEF FinishBuild, BuilderAt
  <2>2. PICK f \in Functions : f = job[c]
    BY <1>1, <2>1
  <2>3. fnStatus[f] = "PREPARING_ENVIRONMENT"
    BY <1>2, <2>1, <2>2
  <2>4. CASE /\ fnStatus' = [fnStatus EXCEPT ![f] = "READY"]
             /\ drivePath' = [drivePath EXCEPT ![f] = driveName[c]]
    <3>1. /\ drivePath'[f] # 0
          /\ \A g \in Functions : g # f => drivePath'[g] = drivePath[g]
      BY <1>1, <2>1, <2>4
    <3>2. [g \in Functions |-> drivePath'[g] # 0]
            = [[g \in Functions |-> drivePath[g] # 0] EXCEPT ![f] = TRUE]
      BY <3>1, BuiltNow
    <3>3. Contract!Ready(f)
      BY <1>1, <2>3, <2>4, <3>2 DEF Contract!Ready, Contract!Becomes
    <3>4. QED
      BY <1>4, <3>3
  <2>5. QED
    BY <1>3, <1>7, <2>2, <2>4, BuilderWrites
<1>8. ASSUME NEW c \in Builders, PoisonBuild(c)
      PROVE  [Contract!Next]_(Contract!vars)
  <2>1. pc[c] = "poison" /\ UNCHANGED drivePath
    BY <1>8 DEF PoisonBuild, B!StatusWritten, B!Move
  <2>2. PICK f \in Functions : f = job[c]
    BY <1>1, <2>1
  <2>3. CASE vmState = "up" /\ fnStatus' = [fnStatus EXCEPT ![f] = "FAILED"]
    <3>1. fnStatus[f] \in {"VERIFIED", "PREPARING_ENVIRONMENT", "FAILED"}
      <4>1. At("build", f)
        BY <2>2 DEF At, B!Carried
      <4>2. fnStatus[f] \in StatusAt("build")
        BY <4>1 DEF StageInv, Fits, Places
      <4>3. fnStatus[f] # "READY"
        BY <2>1, <2>2, <2>3 DEF BuilderInv
      <4>4. QED
        BY <4>2, <4>3 DEF StatusAt
    <3>2. CASE fnStatus[f] = "FAILED"
      BY <1>1, <1>3, <2>1, <2>3, <3>2
    <3>3. CASE fnStatus[f] # "FAILED"
      <4>1. Contract!GiveUp(f)
        BY <1>1, <2>1, <2>3, <3>1, <3>3 DEF Contract!GiveUp, Contract!Becomes
      <4>2. QED
        BY <1>4, <4>1
    <3>4. QED
      BY <3>2, <3>3
  <2>4. QED
    BY <1>3, <1>8, <2>1, <2>2, <2>3, BuilderWrites
<1>9. QED
  BY <1>3, <1>5, <1>6, <1>7, <1>8
  DEF BuildNext, BuilderStep, DeliverBuild, PrepareEnvironment, SaveDrive, DeadLetterBuild,
      DeadLetterBuildFails, AckBuild, BuilderConnectionLost, VmSigterm, VmExit, VmCrash, VmStart

(***************************************************************************)
(* The row passes the gates in order, and READY and DETECTED stay, for any *)
(* functions and builders and however often MinIO, the broker and the      *)
(* tools fail, processes crash and the VM service is told to stop, as long *)
(* as statements do not fail, acknowledgements arrive and builders keep    *)
(* their connections (service.go:45-51, listener.go:92-102,                *)
(* prepare.go:24-50, handler.go:92).                                       *)
(***************************************************************************)
THEOREM PipelineKeepsTheContract == CliSpec /\ Orderly => ImplementsContract
<1>1. CliInit => Contract!Init
  BY DEF CliInit, Init, StoreInit, AnalyzerInit, Contract!Init
<1>2. Promise /\ [CliNext]_cliVars => [Contract!Next]_(Contract!vars)
  <2> SUFFICES ASSUME Promise, [CliNext]_cliVars
               PROVE  [Contract!Next]_(Contract!vars)
    OBVIOUS
  <2>1. TypeOK /\ WayInv /\ StageInv /\ BuilderInv /\ Orderly
    BY DEF Promise, Way, CliTypeOK
  <2>2. CASE IntakeNext /\ UNCHANGED <<analyzerVars, buildVars>>
    BY <2>1, <2>2, ContractOfServer DEF Orderly
  <2>3. CASE AnalyzerNext /\ UNCHANGED <<intakeVars, buildVars>>
    BY <2>1, <2>3, ContractOfAnalyzer
  <2>4. CASE BuildNext /\ UNCHANGED <<intakeVars, analyzerVars>>
    BY <2>1, <2>4, ContractOfBuilders
  <2>5. CASE Unseen
    BY <2>5, ContractStutters DEF Unseen, tableVars, analyzerVars
  <2>6. QED
    BY <2>2, <2>3, <2>4, <2>5, StepOfServices DEF Next
<1>3. QED
  BY <1>1, <1>2, PromiseKept, PTL DEF CliSpec, ImplementsContract, Contract!Spec
=============================================================================
