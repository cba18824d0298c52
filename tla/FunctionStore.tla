--------------------------- MODULE FunctionStore ---------------------------
(***************************************************************************)
(* What the server, the analyzer and the VM service share about functions: *)
(* the functions table (internal/function/store.go), three buckets of      *)
(* MinIO, the analyzer's queue and the build queue.                        *)
(***************************************************************************)
EXTENDS Platform, FiniteSets

CONSTANTS
    Functions,              \* the functions users upload
    Builders,               \* MAX_CONCURRENT_BUILDS consumers of the build queue
    NoFunction,
    MaxRetries

ASSUME FunctionStoreAssumption ==
    /\ NoFunction \notin Functions
    /\ IsFiniteSet(Builders)
    /\ MaxRetries \in Nat

VARIABLES
    fnStatus,               \* the status column, "NOROW" before the INSERT
    drivePath,              \* the drive_path column, 0 for NULL
    quarantineBucket,       \* functions whose archive is in quarantine
    functionsBucket,        \* functions whose archive is in the functions bucket
    drivesBucket,           \* the <<function, name>> of every stored drive
    analyzerQueue,          \* messages of the queue analyzer_data, per function
    queue, pc, job, owned, tries   \* the build queue

buildQueueVars == <<queue, pc, job, owned, tries>>
tableVars == <<fnStatus, drivePath>>
bucketVars == <<quarantineBucket, functionsBucket, drivesBucket>>

\* The build queue has no length limit.
B == INSTANCE Router WITH
        Jobs <- Functions, Consumers <- Builders, NoJob <- NoFunction, MaxLength <- 0

FnStatuses ==
    {"NOROW", "QUARANTINED", "EXTRACTED", "SCANNING", "DETECTED", "VERIFIED",
     "PREPARING_ENVIRONMENT", "READY", "FAILED"}

StoreInit ==
    /\ PlatformInit
    /\ fnStatus = [f \in Functions |-> "NOROW"]
    /\ drivePath = [f \in Functions |-> 0]
    /\ quarantineBucket = {}
    /\ functionsBucket = {}
    /\ drivesBucket = {}
    /\ analyzerQueue = [f \in Functions |-> 0]
    /\ B!Init

StoreTypeOK ==
    /\ PlatformTypeOK
    /\ fnStatus \in [Functions -> FnStatuses]
    /\ drivePath \in [Functions -> Nat]
    /\ quarantineBucket \subseteq Functions
    /\ functionsBucket \subseteq Functions
    /\ drivesBucket \subseteq Functions \X Nat
    /\ analyzerQueue \in [Functions -> Nat]
    /\ B!TypeOK

\* The UPDATE of one row's status, unconditional.
SetFnStatus(f, s) == fnStatus' = [fnStatus EXCEPT ![f] = s]

(***************************************************************************)
(* The same UPDATE as the server and the analyzer see it: it is applied    *)
(* and confirmed, or it fails and may have been applied all the same.      *)
(***************************************************************************)
StatusUpdated(f, s) == SetFnStatus(f, s) /\ UNCHANGED budget

StatusUpdateFails(f, s) ==
    /\ Spend("db")
    /\ SetFnStatus(f, s) \/ UNCHANGED fnStatus
=============================================================================
