------------------------------- MODULE Intake -------------------------------
(***************************************************************************)
(* The server's half of an upload: the HTTP handler that stores the        *)
(* archive and the row (handler/upload.go), the two event buses in memory  *)
(* (events/bus.go), and the goroutines behind them, which look into the    *)
(* archive and hand the function to the analyzer (extractor/service.go).   *)
(* Nothing reads the events back from the table when the server starts.    *)
(***************************************************************************)
EXTENDS FunctionStore, Sequences

CONSTANT BusCapacity        \* BufferSizePerSubscription

ASSUME IntakeAssumption == BusCapacity \in Nat \ {0}

VARIABLES
    server,             \* the server process: "up" or "down"
    upload,             \* where the upload request of a function is
    quarantineBus,      \* the quarantine worker's channel
    extractionBus,      \* the extraction worker's channel
    qWorker,            \* the quarantine worker: what it does, for whom
    xWorker             \* the function the extraction worker is publishing

intakeVars == <<server, upload, quarantineBus, extractionBus, qWorker, xWorker>>

UploadStages == {"idle", "stored", "created", "ok", "error"}

\* "gone" is a worker that has returned from its loop for good.
WorkerStages == {"idle", "update", "announce", "gone"}

IdleWorker == [at |-> "idle", of |-> NoFunction, status |-> "EXTRACTED"]

IntakeInit ==
    /\ server = "up"
    /\ upload = [f \in Functions |-> "idle"]
    /\ quarantineBus = << >>
    /\ extractionBus = << >>
    /\ qWorker = IdleWorker
    /\ xWorker = NoFunction

IntakeTypeOK ==
    /\ server \in {"up", "down"}
    /\ upload \in [Functions -> UploadStages]
    /\ quarantineBus \in Seq(Functions) /\ Len(quarantineBus) <= BusCapacity
    /\ extractionBus \in Seq(Functions) /\ Len(extractionBus) <= BusCapacity
    /\ qWorker \in [at : WorkerStages, of : Functions \cup {NoFunction},
                    status : {"EXTRACTED", "FAILED"}]
    /\ (qWorker.at \in {"update", "announce"}) <=> (qWorker.of # NoFunction)
    /\ xWorker \in Functions \cup {NoFunction}

\* Mutant of Announced: one place of the channel is never used.
AnnouncedOffByOne(bus, f) == IF Len(bus) + 1 < BusCapacity THEN Append(bus, f) ELSE bus

\* Bus.Publish: an event that does not fit its subscriber's channel is dropped.
Announced(bus, f) == IF Len(bus) < BusCapacity THEN Append(bus, f) ELSE bus

UploadMoves(f, from, to) ==
    /\ server = "up"
    /\ upload[f] = from
    /\ upload' = [upload EXCEPT ![f] = to]

\* A put that fails may have been applied all the same: its answer was lost.
StoreArchive(f) ==
    /\ \/ /\ UploadMoves(f, "idle", "stored")
          /\ quarantineBucket' = quarantineBucket \cup {f}
          /\ UNCHANGED budget
       \/ /\ UploadMoves(f, "idle", "error")
          /\ Spend("minio")
          /\ quarantineBucket' \in {quarantineBucket, quarantineBucket \cup {f}}
    /\ UNCHANGED <<vmState, tableVars, functionsBucket, drivesBucket, analyzerQueue, buildQueueVars,
                   server, quarantineBus, extractionBus, qWorker, xWorker>>

CreateFunction(f) ==
    /\ fnStatus[f] = "NOROW"
    /\ \/ UploadMoves(f, "stored", "created") /\ StatusUpdated(f, "QUARANTINED")
       \/ UploadMoves(f, "stored", "error") /\ StatusUpdateFails(f, "QUARANTINED")
    /\ UNCHANGED <<vmState, drivePath, bucketVars, analyzerQueue, buildQueueVars,
                   server, quarantineBus, extractionBus, qWorker, xWorker>>

AnnounceUpload(f) ==
    /\ UploadMoves(f, "created", "ok")
    /\ quarantineBus' = Announced(quarantineBus, f)
    /\ UNCHANGED <<platformVars, tableVars, bucketVars, analyzerQueue, buildQueueVars,
                   server, extractionBus, qWorker, xWorker>>

(***************************************************************************)
(* ExtractFromQuarantine reads the archive through and keeps nothing of    *)
(* it, so all that remains is whether it was satisfied.                    *)
(***************************************************************************)
ExtractNext ==
    /\ server = "up"
    /\ qWorker.at = "idle"
    /\ quarantineBus # << >>
    /\ \E s \in {"EXTRACTED", "FAILED"} :
         qWorker' = [at |-> "update", of |-> Head(quarantineBus), status |-> s]
    /\ quarantineBus' = Tail(quarantineBus)
    /\ UNCHANGED <<platformVars, tableVars, bucketVars, analyzerQueue, buildQueueVars,
                   server, upload, extractionBus, xWorker>>

\* A failed UPDATE is a `return` out of the goroutine, not a `continue`.
RecordExtraction ==
    /\ server = "up"
    /\ qWorker.at = "update"
    /\ \/ /\ StatusUpdated(qWorker.of, qWorker.status)
          /\ qWorker' = [qWorker EXCEPT !.at = "announce"]
       \/ /\ StatusUpdateFails(qWorker.of, qWorker.status)
          /\ qWorker' = [IdleWorker EXCEPT !.at = "gone"]
    /\ UNCHANGED <<vmState, drivePath, bucketVars, analyzerQueue, buildQueueVars,
                   server, upload, quarantineBus, extractionBus, xWorker>>

\* Reached after a failed extraction as well.
AnnounceExtraction ==
    /\ server = "up"
    /\ qWorker.at = "announce"
    /\ extractionBus' = Announced(extractionBus, qWorker.of)
    /\ qWorker' = IdleWorker
    /\ UNCHANGED <<platformVars, tableVars, bucketVars, analyzerQueue, buildQueueVars,
                   server, upload, quarantineBus, xWorker>>

ForwardNext ==
    /\ server = "up"
    /\ xWorker = NoFunction
    /\ extractionBus # << >>
    /\ xWorker' = Head(extractionBus)
    /\ extractionBus' = Tail(extractionBus)
    /\ UNCHANGED <<platformVars, tableVars, bucketVars, analyzerQueue, buildQueueVars,
                   server, upload, quarantineBus, qWorker>>

\* The process ends: requests in flight fail, events and workers are gone.
ServerDies ==
    /\ server' = "down"
    /\ upload' = [f \in Functions |->
                    IF upload[f] \in {"stored", "created"} THEN "error" ELSE upload[f]]
    /\ quarantineBus' = << >>
    /\ extractionBus' = << >>
    /\ qWorker' = IdleWorker
    /\ xWorker' = NoFunction

\* A publish that fails is a log.Fatalf: it takes the whole server down.
PublishToAnalyzer ==
    /\ server = "up"
    /\ xWorker # NoFunction
    /\ \/ /\ analyzerQueue' = [analyzerQueue EXCEPT ![xWorker] = @ + 1]
          /\ xWorker' = NoFunction
          /\ UNCHANGED <<budget, server, upload, quarantineBus, extractionBus, qWorker>>
       \/ /\ Spend("amqp")
          /\ ServerDies
          /\ UNCHANGED analyzerQueue
    /\ UNCHANGED <<vmState, tableVars, bucketVars, buildQueueVars>>

ServerCrash ==
    /\ server = "up"
    /\ Spend("crash")
    /\ ServerDies
    /\ UNCHANGED <<vmState, tableVars, bucketVars, analyzerQueue, buildQueueVars>>

ServerStart ==
    /\ server = "down"
    /\ server' = "up"
    /\ UNCHANGED <<platformVars, tableVars, bucketVars, analyzerQueue, buildQueueVars,
                   upload, quarantineBus, extractionBus, qWorker, xWorker>>

\* What the server does by itself once an upload has begun.
IntakeProgress ==
    \/ \E f \in Functions : CreateFunction(f) \/ AnnounceUpload(f)
    \/ ExtractNext
    \/ RecordExtraction
    \/ AnnounceExtraction
    \/ ForwardNext
    \/ PublishToAnalyzer

IntakeNext ==
    \/ \E f \in Functions : StoreArchive(f)
    \/ IntakeProgress
    \/ ServerCrash
    \/ ServerStart
=============================================================================
