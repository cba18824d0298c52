# oblak in TLA+

oblak is a platform for functions: a user uploads an archive of Python code, the
platform inspects it, installs its dependencies in a microVM, and then runs it
in a fresh microVM for every invocation. This directory models the parts of it
that have to agree with each other while processes, queues, databases and
machines fail, checks the models with TLC, and proves with TLAPS what matters
most of the invocations, the pipeline, the machines and the front. Paths such as `vm/service/exec.go` are under `src/internal/`.

## 1. Inventory

Three services share a Postgres database, MinIO buckets and RabbitMQ.

| part | state it keeps | operations | talks to |
|---|---|---|---|
| Upload handler (`server/handler/upload.go`) | a request in progress | store archive, INSERT row, announce | quarantine bucket, `functions`, quarantine bus |
| Event buses (`server/events/bus.go`) | two bounded channels | Publish (drops when full), Subscribe | handler and workers |
| Extraction workers (`server/extractor`) | two goroutines | extract, record status, announce; forward to the analyzer | `functions`, both buses, analyzer queue |
| Invoke handler (`server/handler/execute.go`) | a request in progress | read function, INSERT invocation, publish | `functions`, `invocations`, execute queue |
| Analyzer (`analyzer/message`, `analyzer/orchestrator`) | one goroutine, a workspace on disk | ack, SCANNING, eight stages, verdict, move archive, publish | analyzer queue, both buckets, `functions`, build queue |
| Archive readers (`server/extractor/extractor.go`, `analyzer/orchestrator/unzipper.go`) | counters of one pass over an archive | check headers; write files | quarantine bucket, workspace |
| Detonation box (`analyzer/dast`) | a container, a directory of boot logs | create, start, find the log, wait, read, remove | Docker, gVisor |
| Client (`cmd/cli/upload.go`, `cmd/cli/util/pollstatus.go`) | one command | send, wait for the answer, poll the status | server |
| VM router (`vm/queue`) | consumers of two queues | deliver, Retry, PoisonQueue, Ack/Nack | RabbitMQ |
| Build service (`vm/service/prepare.go`) | a build in progress | claim, prepare, save drive, finish, reset | `functions`, drives bucket |
| Execution service (`vm/service/exec.go`) | a run in progress | claim, run, finish, reset | `invocations`, logs bucket |
| MicroVM runner (`vm/vm`) | a machine, drive files, a jail directory | prepare drives, start, connect, stream, stop, clean up | Firecracker, agent, MinIO |
| Log streamer (`vm/vm/logs.go`) | three goroutines and a pipe | receive, write, upload, watch | agent, logs bucket |
| Agent in the guest (`agent`, `agentproto`) | a child, two pipes, mounts | take command, mount, scan, reap, clean up, report | runner over vsock |
| Context ids (`vm/vm/cid.go`) | a counter of the process | take the next id | every machine of both queues |
| Start of the server (`cmd/server/main.go`, `server/filestore/initializer.go`) | four buckets with policy and retention | make, set access, set retention, listen | MinIO |
| Middlewares and API keys (`server/middleware`, `server/authkey`, `signing`) | a request in the chain, users and keys, a key encryption key | rate limit, check headers, look up key, compare signatures | Postgres, handlers |
| Admin and CLI commands (`cmd/admin`, `cmd/cli`, `cli/config`, `cli/client`) | users, keys, a profile file | create user, create key, configure, sign | Postgres, server |
| HTTP reads (`server/handler/get*.go`, `invocationdetails.go`, `server/invocations/logs.go`) | none | list functions, read a status, an invocation and its log | `functions`, `invocations`, logs bucket |
| Functions and invocations tables (`function`, `invocation`) | a status per row, a drive path | conditional and plain UPDATEs | everybody |

What is hard about it:

- **Concurrency.** Consumers of one queue compete for one row; a message whose
  connection was lost is delivered to another consumer while its first handler
  goes on. Inside a run, runner, guard, uploader, watcher and guest race.
- **Partial failure.** Each handler is a sequence of database, broker and bucket
  calls. A statement can fail, or be applied with its reply lost.
- **Crashes and shutdown.** The server and the analyzer die without draining.
  SIGTERM cancels the context of handlers that are still working.
- **Retry and dead letters.** Retry sits outside the poison middleware, so what
  was dead-lettered counts as success; the poison publishers write FAILED.
- **Limits.** Bounded buses that drop, a bounded queue that rejects silently,
  two payload limits that differ, a line limit in the guest, a time limit.

What makes each part correct:

- *Invocations*: one worker at a time, no second run after a finished one,
  results that stay, FAILED that is honest, every accepted request settled.
- *Functions*: nothing is built that no analysis called SAFE, READY names a
  drive that exists, an archive is always in a bucket, every upload is judged
  and what is safe is built or refused.
- *Analyses*: the archive the server has passed can be unpacked and nothing of
  it is cut off, a sample is stopped and its own behaviour judged, a detonation
  ends, and no file outlives an analysis that returns: after a crash the archive
  and the extracted directory go at the next start, the JSON report does not.
- *Clients*: every accepted upload is told a final status, which stays.
- *MicroVM runs*: a complete log that can be read again, a drive that is
  uploaded only in its final state, no machine, goroutine, drive file or jail
  directory left over. (The console log `/tmp/vm-*.log` of `vm/vm/vm.go:64` is
  never removed.)
- *Machines of the service*: context ids that tell them apart, one machine at
  work per invocation, none that works unattended.
- *What users read*: DONE comes with its log, and the log with every line.
- *The front*: a server listens only with its buckets, a handler runs only for
  who signed, and nobody is refused without cause.

`PROJECT.json` lists every component, those left out included, and every hazard
at the line where it bites.

## 2. Modules

```
Platform        life of the VM service, fault budgets, outcomes of a statement
Router          one queue of the VM service with its consumers and middlewares
Execution       invocations: server, execute queue (Router), execution service
InvocationContract    what a client may rely on; Execution implements it
VmService       Execution with the machines and context ids of both queues
FunctionStore   functions table, buckets, analyzer queue, build queue (Router)
Intake          upload handler, buses, extraction workers     \
Analyzer        listener, orchestrator, bucket move            > FunctionPipeline
Build           build service of the VM service               /
Cli             the client of an upload, around FunctionPipeline
FunctionContract      what a client may rely on; FunctionPipeline implements it
AnalysisStages  stages of AnalyzeFile and the verdicts each can end with
AnalysisContract      what Analyzer takes one analysis for; Analysis implements it
Archive         the two readers of an archive   \
Detonation      one sample in its container      > Analysis
VmLink          what host and guest share: context, machine, connection, wire
Agent           the agent and its child in the guest          \
LogStream       receiver, pipe, uploader, watcher              > MicroVM
Details         the stored log of MicroVM as the server reads it
Bootstrap       the start of the server and its buckets       \
Access          users, keys, key encryption key, profile       > Front
MC*             fault profiles and small instances for TLC
ExecutionProofs, VmServiceProofs, ContractProofs      theorems about Execution,
                VmService, and the refinement of InvocationContract
PipelineProofs  theorems about Cli, FunctionPipeline and its contract
AnalysisProofs, MicroVMProofs, FrontProofs      theorems about Analysis, Details, Front
FoldLemmas      induction over data, used by the proofs
```

`map` in `PROJECT.json` gives for each definition the lines it stands for.

### Platform and Router

`vmState` is the VM service process; "stopping" is the time between SIGTERM and
exit, in which `msg.Context()` is already cancelled (`util/context.go`,
`cmd/vm/main.go:50-58`). A behaviour starts with a `budget` per kind of fault
and spends it, so that a configuration says exactly which faults it allows.
`DbOk`, `DbRefused` and `DbReplyLost` are the three outcomes of a statement.

`Router` is instantiated twice, as `Q` for the execute queue and as `B` for the
build queue. A consumer (`pc`) is idle, handles, or walks the middlewares in
their order: the poison publisher writes the status ("poison"), publishes the
dead letter ("dlq"), and the message is settled by Ack or by Retry and Nack. A
consumer that loses its connection keeps working (`owned` is FALSE) while the
broker requeues the message. Watermill and RabbitMQ are external and modelled
from `vm/queue/router.go` and `config.go`.

### Execution

A request loads the function, INSERTs the PENDING row and publishes; the nil
check of `drive_path` lies after the INSERT, as in `handler/execute.go:41-57`.
A payload has a size as it was `sent`, which the server's limit is about, and one
as it is `quoted` into the JSON of the message (`vmexecutepublisher/publish.go:38`),
which the VM service's is about. A consumer discards a message of more than
`maxPayloadBytes`, or claims the row by
the UPDATE with `status = 'PENDING'`, runs it (one step with the outcomes of
`ExecutionRunner.Execute`), and finishes or resets. Resets and results are plain
UPDATEs; the error of the final one is only logged, as in `exec.go:49-54`.

### VmService

`VmService` extends `Execution`: where a consumer runs, it starts a machine
(`StartMachine`, `StartFails`), and the run's end stops it (`FinishedRun`) or
has its guard called (`FailedRun`), after which the machine takes its time to
go (`MachineEnds`). The build consumers appear with the machines they start and
nothing else; `Build` has the rest. `nextCid` is the counter of `cid.go`, with
`CidSpace` in the place of 2^32. `Abandoned` lets any subset of the Firecracker
processes outlive the service, after a crash and after an exit, since `main`
does not wait for guards; the next process counts from 3 again. The conjuncts
`starts` and `before` are history, for the properties alone.

### FunctionPipeline

`Intake`, `Analyzer` and `Build` share `FunctionStore`. Each module has one
action per call that can fail on its own: the archive before the row, the row
before the event, SCANNING before the analysis, the verdict before the copy, the
copy before the removal, the removal before the build message. A call of MinIO
that fails may have done its work all the same, with its answer lost, like an
UPDATE. What a scanner
says is a free choice among the verdicts its stage can give (`EndsWith`);
`workspace` holds the files a stage leaves and the deferred calls remove.

`Cli` puts the upload command around it: `client` is where the command is, or
the status it has printed as final. Polling has no time limit, so it ends by
what the services write, or by a request that fails.

### Analysis

`Analyzer` takes a stage of `AnalyzeFile` for one step. `Analysis` opens the
stages, one archive after another, and is checked to implement
`AnalysisContract`, which has the steps of `Analyzer`'s `PassStage`,
`EndAnalysis` and restart. `Archive` states both tar readers as functions of
the archive: `Passes` by the position of each header, `Unpack` as a fold with
the bytes written so far. The form of a name is what they make of it: a "suspect"
one (`/a`, `a..b`, `../extracted/x`) is refused by the first and taken below the
target by the second, a "long" one the other way round. `Detonation` has one action per request to Docker;
`late` is the context of 30 seconds, after which no request is answered, and the
deferred removal has a context of its own. Containers are numbered like their
analyses, stay when the analyzer dies, and the sample in them need not end. A
boot log is the number of the container that wrote it, which the code cannot
see: it takes any log that was not there before.

### MicroVM

One run of `Execute` or `PrepareEnvironment`. `runner` walks the drives, the
start, the connection, the command, the stream, Stop and, for a build that
reported 0, the upload of the drive; then the deferred calls, latest first:
`conn.Close`, `CleanUpDrives`, `cancel`, `pendingCleanups`. `guard` is the
safety net of `StartMachine`; `stopping` is `stopOnce` with the work inside it,
whose second caller waits; the five-second wait in `Stop` may give up before
Firecracker has exited. In `LogStream` the pipe has no buffer, so a write is one
step of receiver and uploader; a failed upload closes the reading end after it
has put its result into `errChan`, from when on writes fail and are only
printed. In `Agent` the child fills two OS pipes, two scanners empty them, and
the exit code is reported after clean-up; a line of 64 KiB or more ends its
scanner. `Execution` and `Build` take such a run for one step (with the upload
of the drive as another), whose outcomes are those of `outcome`.

`Details` reads what such a run has left. It has no variables: the object in
the logs bucket is a function of `log` and of what the lines say (`text`), and
`LogLines` is the loop of `GetLogsByInvocationId`. Only what the reader tells
apart of a text is kept: whether `type:done` is in it, the braces it ends in, and
whether it is so near the limit of 64 KiB that only the agent's scanner holds it.

### Front

`Bootstrap` is the start of the server call by call: for each of the four
buckets, in the order of the registry, make it, set its access, set its
retention; some failures end the process, others are only logged (`warned`).
MinIO may hold anything before, so a start over the remains of another, or over
an older registry, is covered. `Access` has the admin commands, whose replies
may be lost, and `configure`, run in several shells at once: the user types in an
Auth ID and a secret, each of which may be nobody's; the run truncates the one
temporary file that all runs share, writes to it and renames whatever is under that
name by then. `typing` has where the file is that each run has open, since an open
file follows a rename, and `by` whose runs have had a hand in a file (for the
properties alone). A key is known by its secret, and `under` is
the key encryption key it was stored under; the server reads that key once, at
its start, while an operator may change the file. `Front` takes one request
through `RateLimitByIP` and `RequireAuth`: three of the aborts do not return,
so `req` keeps apart what was answered first (`answer`) and whether the chain is
aborted. Signatures are compared by their secrets, and a clock may be wrong by
`Skew`.

## 3. Runs

Deadlock is not checked: requests and uploads are finite, and a run of a microVM
ends, so the system may really have nothing left to do.

| run | instance | shows |
|---|---|---|
| ExecFaults | `VmService`: 1 invocation, 2 execute consumers, 1 build consumer, queue of 1, 3 machines, 4 context ids, one fault of every kind | `SingleRunner`, `CompletesOnce`, `CidsApart`, `OneMachineAtWork`, `WorkIsAttended` |
| ExecContract | 2 invocations, 2 consumers, queue of 1; failing statements, publishes, crashes, SIGTERM; no lost connection, no crash where statements fail | `DoneHasLog`, `FailureIsHonest`, refinement of `InvocationContract` |
| ExecLive | 2 and 2; two failed publishes, two lost connections | `Attended`, `AcceptedSettles` |
| PipeFaults | 1 function with its client, 2 builders (symmetric), buses of 1; one fault of every kind, but of a lost connection and a shutdown one at a time, or both with a redelivery alone | `OnlySafeIsBuilt`, `ReadyIsInvokable`, `ArchiveIsSomewhere`, `WorkspaceIsClean` |
| PipeContract | 2 functions, 2 builders, buses of 1; MinIO, broker, tools, two crashes, SIGTERM | `StuckScansAreExplained`, refinement of `FunctionContract` |
| PipeLive | 2 functions, 2 builders, with their clients, buses of 2; a lost connection | `NobodyIsForgotten`, `OneBuilder`, `PollingEnds`, `SafeIsBuilt` |
| Analysis | 2 analyses of archives of up to 3 entries, one odd entry at most among 3, small limits, 1 finding, one fault of every kind | `NothingIsCutSilently`, `PassedIsUnpacked`, `SamplesAreStopped`, `BehaviorIsOurs`, `DetonationEnds`, refinement of `AnalysisContract` |
| MicroVM | `Details`: both kinds of run, 2 lines of output, long ones included, pipes and wire of 1 | `DetailsTellAll`, `SavedDriveIsFinal`, `GoodRunIsStopped`, `NothingHangs` |
| Front | 1 user, key and request, 2 key encryption keys, 2 shells, buckets left by an older registry; one `configure` run with a failing MinIO call and a crash, or with a failing statement and a changed key; two runs, one interrupted; three runs and no request | `ListensWithBuckets`, `ProfileIsWhole`, `HandledIsSigned`, `UnauthorizedForCause`, `ComesUp` |

A run whose module has a `TypeOK` (`VmServiceTypeOK`, `CliTypeOK`) checks it, too.

Runs that find what the code does against what the repository says of it:

| run | the repository says | the code does |
|---|---|---|
| ExecSettles | an invocation becomes DONE or FAILED (`docs/architecture.md:144`) | the server accepts up to 1 MiB, the VM service acknowledges and drops 64 KiB and more: the row stays PENDING. With `PayloadSizes <- Small` in the configuration the other case is found: after SIGTERM neither PENDING nor FAILED can be written, the message is answered, and the row stays EXECUTING |
| PipeVerdict | a failed pipeline ends FAILED (`docs/architecture.md:110`) | `updateFunctionStatus` writes VERIFIED for every verdict but MALICIOUS |
| PipeFinal | FAILED is final (`cmd/cli/util/pollstatus.go:121-129`) | a failed extraction is announced like a good one and scanned, after the client has printed FAILED |

**Bounds.** Two invocations, functions, consumers and builders are what a race
needs, and each claim, queue entry and status is about one row: a third actor
repeats the second. `ExecFaults` has one invocation, since machines and claims of
different ones never meet but in `ExecContract`. One fault of each kind lets any
two faults of different kinds meet (`PipeFaults` does not give one run both a lost
connection and a shutdown together with a third kind, except a redelivery); where
two of one kind matter (two crashes, two lost connections, two failing statements)
the profile says so. `MaxRetries`
is 1 instead of 3: a second retry finds the row as the first did. In `ExecContract`
the queue of one place rejects the second invocation's message while the first's
waits; in the other runs of invocations it has room. A bus of 1 drops the second
event; buses of 2 never drop with two functions, which the liveness run needs.
With `CidSpace` 4 and `MaxStarts` 3 the counter wraps at its second id, so that
the boundary of the reserved ids is crossed; the coincidence of two ids after a
whole turn needs more starts and is left to the proof, which holds for every
width. In `MicroVM` two lines against pipes and a wire of one message block child,
scanner and receiver in turn, and put a line behind a line that is too long; two
lines are also enough for the brace of one to be taken for the other. In
`Analysis` the limits are 2 bytes and 2 files for the server and 4 bytes for the
analyzer, in the order of 1 MiB and 50 MiB; the entries reach each limit exactly
and beyond it, and the second analysis can meet what the first has left. In
`Front` a tick of the clock is longer than the 15 minutes of the window, so
`Window` is 0: a request signed in an earlier tick is late. With `Skew` 1 and
`MaxTime` 1 a client's clock is a tick behind, right or ahead, so that a request is
in time, late or from the future; `RateLimit` 1 refuses the second request of a
tick. The state of one request says nothing
about another one's but through `hits`, so there is one; two keys are not needed
to confuse them, because a wrong secret is a value of its own. The stores are one
leftover that has every deviation a start must repair; the proof takes any. Two
shells and three `configure` runs let one run find the temporary file as another,
interrupted or still at work, has left it, and find its own renamed, and replaced.

**Fairness.** Weak fairness per process and nothing more. Consumers and the
workers of server and analyzer go on, because each of their waits ends with a
reply, an error or a time limit (5 and 30 minutes for a microVM,
`vm/vm/resource.go:48-56`); a process that is down is started again by its
operator. In `MicroVM` each goroutine of the host goes on, the time limit expires,
and Firecracker obeys SIGTERM. No fault and no request has to happen, an upload
of a log never has to fail, and nothing at all is asked of the guest: a child
that loops, writes without end or never starts is covered by `NothingHangs`. In
`Analysis` the 30 seconds pass and the scanners and the judge answer; a sample
need not end. The client's ticker goes on ticking. In `Front` a server that is
down is started again, and a start that is under way goes on (`Boots`); no
request and no command has to happen.

## 4. What is proved

Every theorem holds for all values of the constants that satisfy the named
assumptions of the modules (`BudgetsAssumption`, `ExecutionAssumption`,
`VmServiceAssumption`, `FunctionStoreAssumption`, `IntakeAssumption`,
`LinkAssumption`, `AgentAssumption`, `DetonationAssumption`, `ArchiveAssumption`,
`AnalysisAssumption`, `FrontAssumption` and those of `Bootstrap` and `Access`):
counters are naturals, the consumers of a service are finitely many, a "none" is
none of the values, archives are sequences of entries whose sizes are not negative,
and the extractor's limit lies below the unzipper's, as 1 MiB does below 50. TLC evaluates them
in the runs. Each invariant below was checked by TLC on the small instance before
it was proved.

**ExecutionProofs** (invocations, any faults): `TypeCorrect`, `OneRunnerAtATime`,
`FinishedRunIsLast`, `HeldIsNotClaimable`. `SingleRunner` is not inductive: from a
state in which a consumer holds a PENDING row, the next claim breaks it. What
excludes such a state is `ClaimGuards`: a held row is never NOROW or PENDING. It
in turn needs to know that a finished invocation is not claimable, so that a
reset after the run cannot occur, and that is also what keeps `CompletesOnce`.
The invariant is `ClaimInv`, the three together. That the proof goes through
without a hypothesis about connections, retries or crashes is the point: the
conditional UPDATE alone carries the two properties. `AcceptedIsAttended` is the
opposite case, since it needs nearly everything: `OnlyBroker` (no failing statement
and no end of a process, since a row that is EXECUTING when its handler dies or
cannot write stays so: the redelivered message fails the claim), `PayloadsFit` and `QueueHasRoom` (the two ways a publish that was accepted
comes to nothing). What it shows is that lost connections and dead letters that
cannot be published are no third way. `RequestInv` says that no consumer touches a
row before its message is published. For the third
hypothesis there is a theorem of its own: `QueueNeverRejects` derives `QueueHasRoom`,
under any faults, from `RoomForAll`, a queue with a place for every invocation
(`vm/queue/config.go:53-57` sets 2000). It rests on `MessageInv`: the broker has at most
one message of an invocation, ready in the queue or delivered to a consumer whose
answer it still awaits; a handler that lost its connection works on, but its
message has gone back. `AcceptedIsAttendedInRoom` joins the two.

**VmServiceProofs** (machines and context ids, any width of the counter):
`MachinesOnTop` shows that `VmService` implements `Execution`, so that what is
proved of invocations holds of it. `CidsAreApart` rests on `CidInv`: the counter
is a function of the number of starts, and each machine's id of its own number;
the rest is arithmetic modulo `CidSpace`. `OneMachineWorks` and `WorkIsLookedAfter`
rest on `WorkInv`: a working machine of the process belongs to the consumer that
waits for it, and one that an earlier process abandoned belongs to an invocation
that can no longer be claimed (`DownInv` covers the time between two processes).

**ContractProofs** (what users read of invocations): `RowsKeepTheContract` (the
refinement of `InvocationContract`), `FailedNeverCompleted`, `LogWithDone`. They assume `Healthy`: no connection is lost under a working handler,
and statements fail only where no process dies. Both are needed: after a lost
connection the late handler overwrites the result of its successor, and after a
death between the run and a failing last UPDATE, the redelivered job of a finished
run is poisoned and FAILED. `CopyInv` says that an invocation has one message
between queue and consumers, `RowInv` what the row says at each place of it.

**PipelineProofs** (functions and their clients): `PipelineTypeCorrect`,
`OnlyClearedIsBuilt`, `ToldReadyIsInvokable`, `ArchiveIsNeverLost`,
`NothingIsLeftOnDisk`, `StuckOnlyByFaults`, for any faults, and `OneBuilderAtATime`
without repeated deliveries. The invariants: `GateInv` (what the analyzer is about to record is one
of the verdicts it has reached), `DriveInv` (a builder that finishes has stored
what it will name), `ArchiveInv` (a function of which there is still talk anywhere,
`Mentioned`, has its archive in a bucket), `DiskInv`, `StuckInv` (the functions left
in SCANNING are finitely many, and a step adds at most the one in the analyzer's hand,
with a fault of its own), and for the last `WayInv` and `ApartInv`: a function is at
one of the places between the request and the builder.
`SomebodyIsAtWork` assumes `OnlyLosses` (nothing but builders' connections fails) and
`Room` (each bus has room for all functions). Its invariant `Care` adds to `WayInv`
that the recorded verdict is the first (`FirstVerdict`) and that every status has its
holder (`AllHeld`), who lets go of a function only for the next one; that no event
is dropped is a pigeonhole argument over the buses (`BusHasRoom`).

`PipelineKeepsTheContract`, the refinement of `FunctionContract`, is proved under `Orderly`: statements are answered, the analyzer's deliveries are not repeated, builders keep their connections; MinIO, broker and
tools may fail, processes die and the VM service be told to stop, any number of
times. On top of `WayInv`, `StageInv` ties the status of a function to its place,
and `BuilderInv` the status of a row to the step of the builder that has it.

**AnalysisProofs**: `AnalysisKeepsItsContract` needs no invariant, since each step
is the contract's step of the same stage or happens inside it. `StoppedOrExplained`
counts the containers that nobody will stop (`Left`); one joins them only in a step
that spends a fault, which takes `FreshInv`, that no container exists before its
detonation. `OwnBehaviorOrExplained` uses that count: without a fault it is zero,
so that no other container can write a log during a detonation (`OursInv`).
`NoFileIsCut` and `ReadersAgree` are about every archive, of any length, under any
limits. `ArchiveInv` says that the target is `Unpack` of the archive. That an
unpacking which succeeds is complete is an induction over the entries: a file
that was cut has filled the total to the limit, and the comparison after it refuses
(`UnpackedIsComplete`); that the archive has passed keeps the sum of all sizes below
that limit, the shape of a tree keeps directories and files apart, and no name is
too long for the file system (`PassedUnpacks`). `AnalysisTypes` is the type invariant, which needs `ArchiveInv` for
the target.

**MicroVMProofs**: `MicroVMTypeCorrect`, which needs that the lines of a job are
bounded by its stages (`LinesInv`). `GoodRunHasStopped`: what Stop has done is
never undone, because only a run before its first stop starts a machine
(`StopInv`). `SavedDriveHasItsFinalState`: a Done message in the wire or in hand
tells the truth about the exit code and the disk from the moment it is sent, since
an agent that has reported never works again (`DoneInv`), and nobody receives
once the runner judges (`JudgedInv`). `DetailsShowTheLog` follows a line from the
child to the user. `FullInv` says what is where: as long as no error is noted, log, receiver's hand
and wire hold, in this order (`Flow`), the lines of each output that have been read,
in the order in which they were written; the others are still in the pipe, and
nothing follows a Done. A log that ends in Done has therefore lost nothing, and only
such a log ends a run that is reported as good. `KnownInv` adds that each line
anywhere has been written, so that it has a text. Then the reading is an
induction over the log: of each message one line is kept, since the brace on a
line of its own is dropped and no line of the child can pass for one
(`KeptOfLog`, `ShownInOrder`).

**FrontProofs**: `FrontTypeCorrect`, `BucketsBeforeRequests` (`BootInv`: what the
start has passed is as the registry wants it), `ProfilesAreWhole`, `OnlySignedIsHandled`
and `RefusalHasCause` (`RequestInv`: at each step of the chain, `Sound` says what has
been established about the request so far, also after an abort that goes on). That
profiles are whole needs `ProfileInv`: every run that has a file open is among those the
file is `by` (`HandlesAreKnown`), and a file that one shell alone has had a hand in is
empty only while that shell's run is about to write it (`OwnIsWhole`); what is in a file
was typed by somebody, an id that was shown or a mistake (`FilesAreTyped`).

**FoldLemmas** has the induction over data the others use. The library states its
induction theorems with an operator as a parameter, which no prover here can
instantiate; here the claim is a set of naturals instead (`NatSetInduction`, from the
well-foundedness of the naturals). That the recursive functions in the definitions
of the folds exist at all is proved in the same way (`FoldExists`,
`RecursionExists`); `FoldsOver` and `CountsOver` give the equation of one step.

Only model-checked: the liveness properties (`AcceptedSettles`, `PollingEnds`,
`SafeIsBuilt`, `DetonationEnds`, `NothingHangs`, `ComesUp`), which rest on fairness and
`ENABLED`, out of the prover's reach. Every other property of a passing run is a
theorem.

## 5. What is not claimed, and what is left out

Observed while modelling, without a run of their own:

- Dead letters are published to a routing key no queue is bound to
  (`vm/queue/config.go:73`), though `docs/architecture.md:148` keeps them for
  inspection. It holds of every dead letter, so there is nothing to explore.
- `ImplementsContract` and `FailureIsHonest` are not claimed when a connection is
  lost: the late handler's PENDING and FAILED are plain UPDATEs and overwrite a
  result another consumer has recorded (`vm/service/exec.go:42`,
  `vm/queue/handler.go:113`).
- `AcceptedSettles` is not claimed when statements fail: an EXECUTING row whose
  last UPDATE was lost is never looked at again.
- `OneBuilder` is not claimed when a message of the analyzer is delivered twice:
  SCANNING and VERIFIED are written whatever the status is
  (`analyzer/message/listener.go:92`, `:99`), also while a builder prepares the
  function, and a build message delivered then is claimed a second time although
  `vm/service/prepare.go:28` calls the claim the "idempotency check".
- `PollingEnds` excepts what the analyzer could not judge: such a function stays
  VERIFIED, and its client polls until it is interrupted.
- After a crash of the analyzer a container of the detonation keeps running:
  nothing looks for it at the next start (`analyzer/dast/visor.go:101`).
  `SamplesAreStopped` allows one such container per crash.
- The boot logs are read from `/tmp/runsc-logs` (`analyzer/dast/visor.go:19`);
  `docs/architecture.md:99` names `/tmp/gvisor-logs/`.
- A line of 64 KiB or more ends the scanner of its output without an error
  (`agent/stream.go:43`): the rest of that output is missing from the log of a
  run that is reported as good, and the child may block on the pipe until the
  time limit. `DetailsTellAll` excepts such an output.
- A run that ends by its time limit stores no log at all: the stream error ends
  the upload (`vm/vm/logs.go:75-79`).
- A start that fails half-way leaves the jail directory (`vm/vm/vm.go:146`);
  `NothingHangs` asks for its removal only of started machines.
- `vm/vm/drive.go:72` says that Cleanup uploads the drive; `Save` does,
  and Cleanup deletes the file.
- `MAX_CONCURRENT_VMS` is read and never enforced (`vm/config/config.go:22`):
  builds and executions together may run more machines than
  `docs/setup.md:321` and `docs/architecture.md:146` say. The queue arguments of
  `vm/queue/config.go` name a time to live that RabbitMQ does not know.
- Context ids restart at 3 with every process (`vm/vm/cid.go:11`), while a machine
  of the process before may still run: the next machines share its ids.
- What the reader of a log does to a line, apart from what `Details` models
  (`server/invocations/logs.go:44-86`): a closing brace at the end of the user's own
  line is cut, a line that contains `type:done` is shown as "Execution finished
  successfully.", the end of a failed run reads the same, and surrounding blanks
  are dropped.
- An invocation that does not exist is found as an empty record
  (`invocation/store.go:131-150`), whose missing time is dereferenced
  (`server/handler/invocationdetails.go:62`): the recovered panic answers 500 where
  `api/openapi.yaml` declares 404.
- Two runs of `oblak configure` at once share the temporary file
  (`cli/config/config.go:46`): one may rename what the other has just truncated, so
  that config.toml is empty or, if the texts differ in length, damaged, or fail
  because the other has renamed the file away. `ProfileIsWhole` is about files that
  one shell alone has written.
- `/execute/` needs no signature (`server/middleware/auth.go:98`), as the README of
  the repository says (`README.md:93`); `docs/security.md:149` says that all
  endpoints but `/health` do. `HandledIsSigned` is about the routes that want a user.
- A name too long for the file system passes the server's extractor, which looks at
  no lengths (`server/extractor/extractor.go:87-116`), and is refused by the unzipper
  (`analyzer/orchestrator/unzipper.go:77`): the function becomes EXTRACTED, its analysis
  is a FAILURE, and it stays VERIFIED. `PassedIsUnpacked` excepts such names (`NamesFit`).
- A crash between two stages leaves the JSON report of the analysis: the purge at the
  next start is of `/tmp/quarantine` only (`cmd/analyzer/main.go:53`), and
  `WorkspaceIsClean` speaks of archive and extracted directory.
- Listings: `function/store.go:95` sorts by `end_time DESC`, where an invocation
  without an end comes first, though the comment at line 78 means the newest
  execution; `invocation/store.go:79` sorts ascending, `api/openapi.yaml:95` says
  descending.
- `docs/setup.md:232` and `docs/architecture.md:219` give `create-key` a
  `--username`; the flag is `--user-id` (`cmd/admin/create_key.go:32`).
  `docs/setup.md:259` and `docs/architecture.md:197` name `config.yaml`; the file is
  `config.toml` (`cli/config/config.go:22`).

Not modelled, with the reasons in `PROJECT.json`: what scanners and judge
compute (their answers are free choices), the parsing of the boot log into
events (`analyzer/dast/helpers.go:93-396`), the SELECTs behind the listings, generated code
and routing.
`cmd.Wait` failing other than by an exit code, errors of unmounts and of single
file removals are left out of `Agent` and `MicroVM`.

## 6. Plan

The order was: the invocation path, which is where results are lost, and its proof;
the function pipeline with its client; the inside of a microVM run; the inside of
an analysis; both halves of the VM service together (`VmService`), with its context
ids and the lives of several machines; the front of the server (`Front`); the
reading of logs (`Details`); the proofs about each of these. What is left:

1. An abstract `RunContract` that `MicroVM` implements and that `Execution` and
   `Build` use in place of a choice of outcomes; the refinement can then be proved
   from the invariants of `MicroVMProofs`.
2. The parsing of the boot log as a pure algorithm, checked against a reference
   over bounded logs, and the SELECTs behind the listings.
