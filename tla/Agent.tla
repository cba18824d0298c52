------------------------------- MODULE Agent --------------------------------
(***************************************************************************)
(* The agent, PID 1 of the guest: it takes one command, mounts the drives, *)
(* runs a child (user code or pip), passes every line of its two outputs   *)
(* to the host, cleans up, reports the exit code and powers the guest off  *)
(* when the host hangs up (agent/comm.go, exec.go, build.go, stream.go).   *)
(* Nothing of it is fair: the guest may stall or loop for ever.            *)
(***************************************************************************)
EXTENDS VmLink

CONSTANTS
    PipeSize,           \* lines that fit into an OS pipe
    LongLines           \* whether the child may write a line of 64 KiB or more

ASSUME AgentAssumption == PipeSize \in Nat \ {0} /\ LongLines \in BOOLEAN

VARIABLES
    agent,              \* where the agent is
    child,              \* "none", "running" or "exited"
    exitCode,           \* of the child
    pipe,               \* per output, the lines the agent has not read
    scanner,            \* per output: "off", "on", "long" (gave up) or "end"
    written,            \* per channel, the lines written so far
    disk                \* the drive the job writes to: "clean", "dirty", "synced"

agentVars == <<agent, child, exitCode, pipe, scanner, written, disk>>

Long == 0               \* a line the scanner cannot hold, in a pipe

AgentStages == {"listen", "start", "scan", "wait", "cleanup", "report", "linger", "off"}

AgentTypeOK ==
    /\ agent \in AgentStages
    /\ child \in {"none", "running", "exited"}
    /\ exitCode \in ExitCodes
    /\ pipe \in [Output -> Seq(0..Lines)]
    /\ \A ch \in Output : Len(pipe[ch]) <= PipeSize
    /\ scanner \in [Output -> {"off", "on", "long", "end"}]
    /\ written \in [Channels -> 0..(Lines + 2)]
    /\ disk \in {"clean", "dirty", "synced"}

AgentInit ==
    /\ agent = "listen"
    /\ child = "none"
    /\ exitCode = 0
    /\ pipe = [ch \in Output |-> <<>>]
    /\ scanner = [ch \in Output |-> "off"]
    /\ written = [ch \in Channels |-> 0]
    /\ disk = "clean"

\* The guest's memory, and what the proxy had not passed on, is gone.
PoweredOff ==
    /\ machine' = "stopped"
    /\ \E n \in 0..Len(wire) : wire' = SubSeq(wire, 1, n)
    /\ agent' = "off" /\ child' = "none"
    /\ pipe' = [ch \in Output |-> <<>>]
    /\ UNCHANGED <<kind, ctx, conn, command, exitCode, scanner, written, disk>>

AgentAt(stage) == GuestRuns /\ agent = stage

\* e.emit("system", ...)
EmitSystem ==
    /\ AgentSends(Line("system", written["system"] + 1))
    /\ written' = [written EXCEPT !["system"] = @ + 1]

\* The command has arrived, and the job announces itself.
TakeCommand ==
    /\ AgentAt("listen") /\ command
    /\ EmitSystem
    /\ agent' = "start"
    /\ UNCHANGED <<child, exitCode, pipe, scanner, disk>>

\* The connection ends before a command was read.
NoCommand ==
    /\ AgentAt("listen") /\ conn = "closed"
    /\ agent' = "linger"
    /\ UNCHANGED <<linkVars, child, exitCode, pipe, scanner, written, disk>>

\* mountDrives, or cmd.Start after it, fails: the job returns without a Done.
JobFails ==
    /\ AgentAt("start")
    /\ agent' = "linger"
    /\ UNCHANGED <<linkVars, child, exitCode, pipe, scanner, written, disk>>

\* Drives are mounted; no requirements.txt, or a payload that is not JSON.
NothingToRun ==
    /\ AgentAt("start")
    /\ EmitSystem
    /\ agent' = "report"
    /\ disk' = "synced"
    /\ UNCHANGED <<child, exitCode, pipe, scanner>>

StartChild ==
    /\ AgentAt("start")
    /\ agent' = "scan"
    /\ child' = "running"
    /\ scanner' = [ch \in Output |-> "on"]
    /\ disk' = "dirty"
    /\ UNCHANGED <<linkVars, exitCode, pipe, written>>

-----------------------------------------------------------------------------
\* The child writes what it likes and ends when it likes, if ever.
ChildWrites(ch) ==
    /\ GuestRuns /\ child = "running"
    /\ written["stdout"] + written["stderr"] < Lines
    /\ Len(pipe[ch]) < PipeSize
    /\ \E line \in {written[ch] + 1} \cup (IF LongLines THEN {Long} ELSE {}) :
          pipe' = [pipe EXCEPT ![ch] = Append(@, line)]
    /\ written' = [written EXCEPT ![ch] = @ + 1]
    /\ UNCHANGED <<linkVars, agent, child, exitCode, scanner, disk>>

ChildExits ==
    /\ GuestRuns /\ child = "running"
    /\ child' = "exited"
    /\ exitCode' \in ExitCodes
    /\ UNCHANGED <<linkVars, agent, pipe, scanner, written, disk>>

\* One goroutine per output.  The mutex of emit makes a message one step.
ScanLine(ch) ==
    /\ AgentAt("scan") /\ scanner[ch] = "on"
    /\ pipe[ch] # <<>> /\ Head(pipe[ch]) # Long
    /\ AgentSends(Line(ch, Head(pipe[ch])))
    /\ pipe' = [pipe EXCEPT ![ch] = Tail(@)]
    /\ UNCHANGED <<agent, child, exitCode, scanner, written, disk>>

\* bufio.ErrTooLong ends the loop like the end of the output does.
ScannerGivesUp(ch) ==
    /\ AgentAt("scan") /\ scanner[ch] = "on"
    /\ pipe[ch] # <<>> /\ Head(pipe[ch]) = Long
    /\ scanner' = [scanner EXCEPT ![ch] = "long"]
    /\ UNCHANGED <<linkVars, agent, child, exitCode, pipe, written, disk>>

ScannerEnds(ch) ==
    /\ AgentAt("scan") /\ scanner[ch] = "on"
    /\ pipe[ch] = <<>> /\ child = "exited"
    /\ scanner' = [scanner EXCEPT ![ch] = "end"]
    /\ UNCHANGED <<linkVars, agent, child, exitCode, pipe, written, disk>>

\* Mutant of Drained: one of the two scanners is enough.
DrainedByOne ==
    /\ AgentAt("scan")
    /\ \E ch \in Output : scanner[ch] \in {"long", "end"}
    /\ agent' = "wait"
    /\ UNCHANGED <<linkVars, child, exitCode, pipe, scanner, written, disk>>

\* wg.Wait: both scanners are through.
Drained ==
    /\ AgentAt("scan")
    /\ \A ch \in Output : scanner[ch] \in {"long", "end"}
    /\ agent' = "wait"
    /\ UNCHANGED <<linkVars, child, exitCode, pipe, scanner, written, disk>>

\* Mutant of Reap: the report comes without the clean-up.
ReapWithoutCleanUp ==
    /\ AgentAt("wait") /\ child = "exited"
    /\ \/ exitCode = 0 /\ UNCHANGED <<linkVars, written>>
       \/ exitCode # 0 /\ EmitSystem
    /\ agent' = "report"
    /\ UNCHANGED <<child, exitCode, pipe, scanner, disk>>

\* cmd.Wait waits for the child; an exit code other than 0 is announced.
Reap ==
    /\ AgentAt("wait") /\ child = "exited"
    /\ \/ exitCode = 0 /\ UNCHANGED <<linkVars, written>>
       \/ exitCode # 0 /\ EmitSystem
    /\ agent' = "cleanup"
    /\ UNCHANGED <<child, exitCode, pipe, scanner, disk>>

\* The rest of the child's process group is killed, drives unmounted, synced.
CleanUp ==
    /\ AgentAt("cleanup")
    /\ disk' = "synced"
    /\ agent' = "report"
    /\ UNCHANGED <<linkVars, child, exitCode, pipe, scanner, written>>

Report ==
    /\ AgentAt("report")
    /\ AgentSends(DoneMessage(exitCode))
    /\ agent' = "linger"
    /\ UNCHANGED <<child, exitCode, pipe, scanner, written, disk>>

\* The last Receive sees the host hang up, and main powers the guest off.
PowerOff ==
    /\ AgentAt("linger") /\ conn = "closed"
    /\ PoweredOff

AgentNext ==
    \/ TakeCommand \/ NoCommand \/ JobFails \/ NothingToRun \/ StartChild
    \/ ChildExits \/ Drained \/ Reap \/ CleanUp \/ Report \/ PowerOff
    \/ \E ch \in Output :
          ChildWrites(ch) \/ ScanLine(ch) \/ ScannerGivesUp(ch) \/ ScannerEnds(ch)
=============================================================================
