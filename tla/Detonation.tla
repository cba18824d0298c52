----------------------------- MODULE Detonation -----------------------------
(***************************************************************************)
(* Detonate: one run of a sample in a container of the gVisor runtime, and *)
(* the log of its behaviour, which the runtime writes under a name nobody  *)
(* knows before (dast/visor.go:83-162, dast/helpers.go:61-92).             *)
(*                                                                         *)
(* Containers are numbered like the analyses they belong to.  The Docker   *)
(* daemon and the runtime are external: they go on when the analyzer has   *)
(* given up on a request, or has died.                                     *)
(***************************************************************************)
EXTENDS Naturals, FiniteSets

CONSTANTS
    MaxRuns,            \* bound: how many analyses there are
    Faults              \* bound: how often each kind of fault happens

FaultKinds == {"docker", "logdir", "other", "crash"}

ASSUME DetonationAssumption == MaxRuns \in Nat \ {0} /\ Faults \in [FaultKinds -> Nat]

VARIABLES
    run,                \* the analysis that is on, or was last
    budget,             \* faults that may still happen
    step,               \* where Detonate is, "out" outside of it
    late,               \* the 30 seconds are over
    before,             \* boot logs that were there at the start
    found,              \* the boot log taken for ours, 0 for none
    result,             \* "none", "error", or "ok" with a behaviour
    behavior,           \* whose behaviour is reported, 0 for none
    boxes,              \* the container of each analysis
    logs                \* analyses whose container has written its boot log

dastVars == <<step, late, before, found, result, behavior>>
dockerVars == <<boxes, logs>>

Runs == 1 .. MaxRuns
Steps == {"out", "snapshot", "create", "start", "starting", "find", "wait", "logs", "read",
          "remove", "return"}
BoxStates == {"none", "created", "starting", "running", "exited", "removed"}
Live == {"starting", "running"}

DetonationInit ==
    /\ run = 0
    /\ budget = Faults
    /\ step = "out" /\ late = FALSE /\ before = {} /\ found = 0
    /\ result = "none" /\ behavior = 0
    /\ boxes = [k \in Runs |-> "none"]
    /\ logs = {}

DetonationTypeOK ==
    /\ run \in 0 .. MaxRuns
    /\ budget \in [FaultKinds -> Nat]
    /\ step \in Steps
    /\ late \in BOOLEAN
    /\ before \subseteq Runs
    /\ found \in 0 .. MaxRuns
    /\ result \in {"none", "error", "ok"}
    /\ behavior \in 0 .. MaxRuns
    /\ boxes \in [Runs -> BoxStates]
    /\ logs \subseteq Runs

Spend(kind) ==
    /\ budget[kind] > 0
    /\ budget' = [budget EXCEPT ![kind] = @ - 1]

Spent(kind) == Faults[kind] - budget[kind]

BoxBecomes(state) == boxes' = [boxes EXCEPT ![run] = state]

EnterDetonation ==
    /\ step' = "snapshot"
    /\ late' = FALSE /\ before' = {} /\ found' = 0 /\ result' = "none" /\ behavior' = 0

LeaveDetonation ==
    /\ step' = "out"
    /\ late' = FALSE /\ before' = {} /\ found' = 0 /\ result' = "none" /\ behavior' = 0

GoOn(from, to) ==
    /\ step = from /\ step' = to
    /\ UNCHANGED <<run, late, behavior>>

\* A request under the context: it is answered in time, or it is an error.
Answered == ~late /\ UNCHANGED <<budget, result>>

NotAnswered ==
    /\ \/ late /\ UNCHANGED budget
       \/ Spend("docker")
    /\ result' = "error"

\* The error of a directory that cannot be read is taken for an empty one.
SnapshotLogFiles ==
    /\ GoOn("snapshot", "create")
    /\ \/ before' = logs /\ UNCHANGED budget
       \/ before' = {} /\ Spend("logdir")
    /\ UNCHANGED <<found, result, dockerVars>>

\* An unanswered create may have made a container whose id nobody knows.
ContainerCreate ==
    /\ \/ GoOn("create", "start") /\ Answered /\ BoxBecomes("created")
       \/ GoOn("create", "return") /\ NotAnswered /\ (BoxBecomes("created") \/ UNCHANGED boxes)
    /\ UNCHANGED <<before, found, logs>>

ContainerStart ==
    /\ \/ GoOn("start", "starting") /\ Answered /\ BoxBecomes("starting")
       \/ GoOn("start", "remove") /\ NotAnswered /\ UNCHANGED boxes
    /\ UNCHANGED <<before, found, logs>>

\* The daemon answers when the sandbox is up, and so after the boot log.
ContainerStarted ==
    /\ \/ GoOn("starting", "find") /\ Answered /\ boxes[run] \in {"running", "exited"}
       \/ GoOn("starting", "remove") /\ NotAnswered
    /\ UNCHANGED <<before, found, dockerVars>>

\* Mutant of FindNewBootLog: the snapshot is not asked.
FindAnyBootLog ==
    /\ GoOn("find", "wait")
    /\ \/ found' \in logs /\ UNCHANGED budget
       \/ logs = {} /\ found' = 0 /\ UNCHANGED budget
       \/ found' = 0 /\ Spend("logdir")
    /\ UNCHANGED <<before, result, dockerVars>>

\* The first log that was not there, or none within five seconds.
FindNewBootLog ==
    /\ GoOn("find", "wait")
    /\ \/ found' \in logs \ before /\ UNCHANGED budget
       \/ logs \ before = {} /\ found' = 0 /\ UNCHANGED budget
       \/ found' = 0 /\ Spend("logdir")
    /\ UNCHANGED <<before, result, dockerVars>>

\* Mutant of ContainerWait: the context has no limit.
ContainerWaitForever ==
    /\ \/ GoOn("wait", "logs") /\ boxes[run] = "exited" /\ UNCHANGED <<budget, result>>
       \/ GoOn("wait", "remove") /\ Spend("docker") /\ result' = "error"
    /\ UNCHANGED <<before, found, dockerVars>>

\* The select takes the exit, or the error of the context.
ContainerWait ==
    /\ \/ GoOn("wait", "logs") /\ boxes[run] = "exited" /\ UNCHANGED <<budget, result>>
       \/ GoOn("wait", "remove") /\ NotAnswered
    /\ UNCHANGED <<before, found, dockerVars>>

ContainerLogs ==
    /\ \/ GoOn("logs", "read") /\ Answered
       \/ GoOn("logs", "remove") /\ NotAnswered
    /\ UNCHANGED <<before, found, dockerVars>>

\* Without a readable log the report is made all the same, of no behaviour.
ReadBootLog ==
    /\ step = "read" /\ step' = "remove"
    /\ result' = "ok"
    /\ \/ behavior' = found /\ UNCHANGED budget
       \/ behavior' = 0 /\ Spend("logdir")
    /\ UNCHANGED <<run, late, before, found, dockerVars>>

\* Mutant of ContainerRemove: deferred with the context of the detonation.
ContainerRemoveInTime ==
    /\ GoOn("remove", "return")
    /\ \/ ~late /\ BoxBecomes("removed") /\ UNCHANGED budget
       \/ late /\ UNCHANGED <<boxes, budget>>
       \/ UNCHANGED boxes /\ Spend("docker")
    /\ UNCHANGED <<before, found, result, logs>>

\* Deferred, with a context of its own; its error is only logged.
ContainerRemove ==
    /\ GoOn("remove", "return")
    /\ \/ BoxBecomes("removed") /\ UNCHANGED budget
       \/ UNCHANGED boxes /\ Spend("docker")
    /\ UNCHANGED <<before, found, result, logs>>

DetonationStep ==
    \/ SnapshotLogFiles
    \/ ContainerCreate
    \/ ContainerStart
    \/ ContainerStarted
    \/ FindNewBootLog
    \/ ContainerWait
    \/ ContainerLogs
    \/ ReadBootLog
    \/ ContainerRemove

\* The context.WithTimeout of the whole detonation.
Deadline ==
    /\ step \notin {"out", "return"}
    /\ ~late /\ late' = TRUE
    /\ UNCHANGED <<run, budget, step, before, found, result, behavior, dockerVars>>

\* The runtime: the sandbox is up, and its boot log too where it is configured.
SandboxBoots(k) ==
    /\ boxes[k] = "starting"
    /\ boxes' = [boxes EXCEPT ![k] = "running"]
    /\ \/ logs' = logs \cup {k} /\ UNCHANGED budget
       \/ UNCHANGED logs /\ Spend("logdir")
    /\ UNCHANGED <<run, dastVars>>

\* The sample may come to its end, and it need not.
SampleExits(k) ==
    /\ boxes[k] = "running"
    /\ boxes' = [boxes EXCEPT ![k] = "exited"]
    /\ UNCHANGED <<run, budget, dastVars, logs>>

Docker == \E k \in Runs : SandboxBoots(k) \/ SampleExits(k)
=============================================================================
