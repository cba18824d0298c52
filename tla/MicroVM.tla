------------------------------ MODULE MicroVM -------------------------------
(***************************************************************************)
(* One run of a microVM: ExecutionRunner.Execute (vm/vm/exec.go) or        *)
(* EnvironmentPrepareRunner.PrepareEnvironment (vm/vm/prepare.go) with the *)
(* goroutines it starts (the guard of StartMachine, the uploader and the   *)
(* watcher of the log stream) and the agent in the guest.  Execution and   *)
(* Build take such a run for one step with the outcomes given here.        *)
(***************************************************************************)
EXTENDS Agent, LogStream

VARIABLES
    runner,             \* where Execute or PrepareEnvironment is
    outcome,            \* what it returns: "none" so far, "ok", "error", "userError"
    files,              \* the drives' files on the host
    jail,               \* whether the jailer's directory of this machine exists
    guard,              \* StartMachine's safety net: "off", "waiting", "stop", "gone"
    stopping,           \* stopOnce: "no", "wait", "free" or "done"
    saved               \* whether the dependency drive is in the drives bucket

runnerVars == <<runner, outcome, files, jail, guard, stopping, saved>>
vars == <<linkVars, agentVars, streamVars, runnerVars>>

Drives == IF kind = "exec" THEN {"code", "deps", "tmp"} ELSE {"code", "deps"}

\* Mutant of AfterDrive: builds prepare a tmp drive, too.
AfterDriveAlways(d) == [code |-> "deps", deps |-> "tmp", tmp |-> "start"][d]

\* The next drive to prepare; the tmp drive is for executions only.
AfterDrive(d) ==
    CASE d = "code" -> "deps"
      [] d = "deps" -> IF kind = "exec" THEN "tmp" ELSE "start"
      [] d = "tmp"  -> "start"

\* The deferred calls run from "hangup" to "forget", the latest first.
Unwinding == {"hangup", "drop", "cancel", "forget"}
RunnerStages ==
    {"code", "deps", "tmp", "start", "connect", "send", "stream", "stop", "save", "returned"}
    \cup Unwinding

Init ==
    /\ LinkInit /\ AgentInit /\ StreamInit
    /\ runner = "code"
    /\ outcome = "none"
    /\ files = {}
    /\ jail = FALSE
    /\ guard = "off"
    /\ stopping = "no"
    /\ saved = FALSE

Fails(next) == outcome' = "error" /\ runner' = next

-----------------------------------------------------------------------------
\* A drive that cannot be prepared leaves no file of its own.
PrepareDrive ==
    /\ runner \in {"code", "deps", "tmp"}
    /\ \/ /\ files' = files \cup {runner}
          /\ runner' = AfterDrive(runner)
          /\ UNCHANGED outcome
       \/ Fails("forget") /\ UNCHANGED files
    /\ UNCHANGED <<linkVars, agentVars, streamVars, jail, guard, stopping, saved>>

(***************************************************************************)
(* The machine is started under a context of its own, so it starts also    *)
(* when the run's context is done.  A start that fails half-way leaves the *)
(* directory the jailer has made.                                          *)
(***************************************************************************)
StartMachine ==
    /\ runner = "start"
    /\ \/ /\ machine' = "running" /\ jail' = TRUE /\ guard' = "waiting"
          /\ runner' = "connect"
          /\ UNCHANGED outcome
       \/ /\ Fails("cancel")
          /\ jail' \in BOOLEAN
          /\ UNCHANGED <<machine, guard>>
    /\ UNCHANGED <<kind, ctx, conn, command, wire, agentVars, streamVars,
                   files, stopping, saved>>

\* A dial that the agent accepts, or the last of connectRetries without one.
Connect ==
    /\ runner = "connect"
    /\ \/ AgentAt("listen") /\ conn' = "open" /\ runner' = "send" /\ UNCHANGED outcome
       \/ Fails("drop") /\ UNCHANGED conn
    /\ UNCHANGED <<kind, ctx, machine, command, wire, agentVars, streamVars,
                   files, jail, guard, stopping, saved>>

\* The command leaves, and Stream begins; or the peer has gone.
SendCommand ==
    /\ runner = "send"
    /\ \/ /\ machine # "stopped"
          /\ command' = TRUE
          /\ runner' = "stream"
          /\ StreamBegins
          /\ UNCHANGED outcome
       \/ machine # "running" /\ Fails("hangup") /\ UNCHANGED <<command, streamVars>>
    /\ UNCHANGED <<kind, ctx, machine, conn, wire, agentVars,
                   files, jail, guard, stopping, saved>>

StreamReturns ==
    /\ runner = "stream" /\ receiver = "back"
    /\ IF StreamFailed THEN Fails("hangup") ELSE runner' = "stop" /\ UNCHANGED outcome
    /\ UNCHANGED <<linkVars, agentVars, streamVars, files, jail, guard, stopping, saved>>

-----------------------------------------------------------------------------
\* Stop, by whoever comes first: StopVMM signals the process.
BeginStop ==
    /\ stopping = "no"
    /\ \/ runner = "stop"
       \/ guard = "stop"
    /\ stopping' = "wait"
    /\ machine' = IF machine = "running" THEN "dying" ELSE machine
    /\ UNCHANGED <<kind, ctx, conn, command, wire, agentVars, streamVars,
                   runner, outcome, files, jail, guard, saved>>

\* The process has exited or five seconds are over; then cancelMachine.
StopWaits ==
    /\ stopping = "wait"
    /\ stopping' = "free"
    /\ UNCHANGED <<linkVars, agentVars, streamVars,
                   runner, outcome, files, jail, guard, saved>>

FreeMachine ==
    /\ stopping = "free"
    /\ stopping' = "done"
    /\ jail' = FALSE
    /\ UNCHANGED <<linkVars, agentVars, streamVars, runner, outcome, files, guard, saved>>

\* Mutant of StopReturned: a flag instead of sync.Once, so a second caller goes on.
StopBegan == stopping # "no"

\* Whoever comes second waits in stopOnce.Do for the first.
StopReturned == stopping = "done"

\* An execution is over.  A build is judged by its last message.
RunnerStopped ==
    /\ runner = "stop" /\ StopReturned
    /\ \/ kind = "exec" /\ outcome' = "ok" /\ runner' = "hangup"
       \/ kind = "build" /\ held = DoneMessage(0) /\ runner' = "save" /\ UNCHANGED outcome
       \/ kind = "build" /\ held # DoneMessage(0)
          /\ outcome' = "userError" /\ runner' = "hangup"
    /\ UNCHANGED <<linkVars, agentVars, streamVars, files, jail, guard, stopping, saved>>

SaveDrive ==
    /\ runner = "save"
    /\ \/ saved' = TRUE /\ outcome' = "ok" /\ runner' = "hangup"
       \/ Fails("hangup") /\ UNCHANGED saved
    /\ UNCHANGED <<linkVars, agentVars, streamVars, files, jail, guard, stopping>>

-----------------------------------------------------------------------------
\* defer conn.Close()
HangUp ==
    /\ runner = "hangup"
    /\ CloseConn
    /\ runner' = "drop"
    /\ UNCHANGED <<kind, ctx, machine, command, wire, agentVars, streamVars,
                   outcome, files, jail, guard, stopping, saved>>

\* defer m.CleanUpDrives(), whether or not the machine has been stopped
DropDrives ==
    /\ runner = "drop"
    /\ files' = {}
    /\ runner' = "cancel"
    /\ UNCHANGED <<linkVars, agentVars, streamVars, outcome, jail, guard, stopping, saved>>

\* defer cancel()
CancelRun ==
    /\ runner = "cancel"
    /\ ctx' = "done"
    /\ runner' = "forget"
    /\ UNCHANGED <<kind, machine, conn, command, wire, agentVars, streamVars,
                   outcome, files, jail, guard, stopping, saved>>

\* pendingCleanups, which a started machine has taken over.
ForgetDrives ==
    /\ runner = "forget"
    /\ files' = IF machine = "none" THEN {} ELSE files
    /\ runner' = "returned"
    /\ UNCHANGED <<linkVars, agentVars, streamVars, outcome, jail, guard, stopping, saved>>

-----------------------------------------------------------------------------
\* The guard: teardown when the run's context ends, unless Stop was faster.
GuardWakes ==
    /\ guard = "waiting"
    /\ \/ ctx = "done" /\ guard' = "stop"
       \/ stopping \in {"free", "done"} /\ guard' = "gone"
    /\ UNCHANGED <<linkVars, agentVars, streamVars, runner, outcome, files, jail, stopping, saved>>

GuardEnds ==
    /\ guard = "stop" /\ StopReturned
    /\ guard' = "gone"
    /\ UNCHANGED <<linkVars, agentVars, streamVars, runner, outcome, files, jail, stopping, saved>>

\* The time limit of the run, or the cancellation of the caller's context.
Expire ==
    /\ ctx = "live" /\ runner # "returned"
    /\ ctx' = "done"
    /\ UNCHANGED <<kind, machine, conn, command, wire, agentVars, streamVars, runnerVars>>

\* Firecracker exits on the signal.
MachineExits ==
    /\ machine = "dying"
    /\ PoweredOff
    /\ UNCHANGED <<streamVars, runnerVars>>

\* Firecracker or the guest's kernel dies by itself.
MachineCrashes ==
    /\ machine = "running"
    /\ PoweredOff
    /\ UNCHANGED <<streamVars, runnerVars>>

RunnerStep ==
    \/ PrepareDrive \/ StartMachine \/ Connect \/ SendCommand \/ StreamReturns
    \/ RunnerStopped \/ SaveDrive
    \/ HangUp \/ DropDrives \/ CancelRun \/ ForgetDrives
StopStep == BeginStop \/ StopWaits \/ FreeMachine
GuardStep == GuardWakes \/ GuardEnds

Next ==
    \/ RunnerStep \/ StopStep \/ GuardStep
    \/ Expire \/ MachineExits \/ MachineCrashes
    \/ StreamNext /\ UNCHANGED <<agentVars, runnerVars>>
    \/ AgentNext /\ UNCHANGED <<streamVars, runnerVars>>

(***************************************************************************)
(* Fairness: each goroutine of the host goes on when it can; the time      *)
(* limit, which exists from just before StartMachine, expires; Firecracker *)
(* obeys SIGTERM.  Nothing is asked of the guest, and no upload fails      *)
(* because it has to.                                                      *)
(***************************************************************************)
Fairness ==
    /\ WF_vars(RunnerStep)
    /\ WF_vars(StopStep)
    /\ WF_vars(GuardStep)
    /\ WF_vars(ReceiverStep /\ UNCHANGED <<agentVars, runnerVars>>)
    /\ WF_vars((UploadEnds \/ CloseReader) /\ UNCHANGED <<agentVars, runnerVars>>)
    /\ WF_vars(WatcherStep /\ UNCHANGED <<agentVars, runnerVars>>)
    /\ WF_vars(machine # "none" /\ Expire)
    /\ WF_vars(MachineExits)

Spec == Init /\ [][Next]_vars
FairSpec == Spec /\ Fairness

-----------------------------------------------------------------------------
\* The shapes of the state of the run, its goroutines and the guest.
TypeOK ==
    /\ LinkTypeOK /\ AgentTypeOK /\ StreamTypeOK
    /\ runner \in RunnerStages
    /\ outcome \in {"none", "ok", "error", "userError"}
    /\ files \subseteq Drives
    /\ jail \in BOOLEAN
    /\ guard \in {"off", "waiting", "stop", "gone"}
    /\ stopping \in {"no", "wait", "free", "done"}
    /\ saved \in BOOLEAN

\* What of a sequence is in a set, in its order.
Picked(seq, S) ==
    LET picked[i \in 0 .. Len(seq)] ==
            IF i = 0 THEN << >>
            ELSE IF seq[i] \in S THEN Append(picked[i - 1], seq[i]) ELSE picked[i - 1]
    IN  picked[Len(seq)]

OutputsOf(ch) == {m \in Messages : m.type = "output" /\ m.of = ch}

(***************************************************************************)
(* A run that is not reported as an error has its log in the bucket, and   *)
(* in it every line the child wrote before it ended, in order, through     *)
(* both pipes, both scanners, the proxy and the upload                     *)
(* (logs.go:53-91, agent/stream.go:43-54).  The output on which a scanner  *)
(* gave up, at a line too long for it, is cut there.                       *)
(***************************************************************************)
LinesOf(ch) == Picked(log, OutputsOf(ch))
AllLines(ch) == [n \in 1..written[ch] |-> Line(ch, n)]
CutShort(ch) == ch \in Output /\ scanner[ch] = "long"

LogIsFull ==
    outcome \in {"ok", "userError"} =>
        /\ stored
        /\ \A ch \in Channels : CutShort(ch) \/ LinesOf(ch) = AllLines(ch)

(***************************************************************************)
(* The drive put into the bucket is one pip left behind with exit code 0,  *)
(* unmounted and synced: whenever the time limit, a crash of the machine   *)
(* or a wait that gave up falls between the agent's report and the upload  *)
(* (prepare.go:88-96, agent/build.go:60-61).                               *)
(***************************************************************************)
SavedDriveIsFinal == saved => exitCode = 0 /\ disk = "synced"

(***************************************************************************)
(* A run is reported as good, or its drive uploaded, only when its machine *)
(* has been told to stop and its directory is gone, also when the guard is *)
(* the one that is stopping it (vm.go:164-172, :216-230).                  *)
(***************************************************************************)
GoodRunIsStopped ==
    saved \/ outcome \in {"ok", "userError"} => machine # "running" /\ ~jail

(***************************************************************************)
(* Whatever the guest does, however the upload ends and whenever the limit *)
(* falls: the run returns, its goroutines end, its machine stops, and no   *)
(* drive file and no directory of a started machine stays (exec.go:31-98,  *)
(* logs.go:29-88, vm.go:164-172).                                          *)
(***************************************************************************)
AllGone ==
    /\ runner = "returned"
    /\ guard \in {"off", "gone"}
    /\ watcher \in {"off", "gone"}
    /\ uploader \in {"off", "gone"}
    /\ machine \in {"none", "stopped"}
    /\ files = {}
    /\ jail => machine = "none"

NothingHangs == <>[]AllGone
=============================================================================
