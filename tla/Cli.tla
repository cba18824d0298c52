-------------------------------- MODULE Cli ---------------------------------
(***************************************************************************)
(* `oblak upload` around the pipeline: the client sends the archive, waits *)
(* for the answer, and then asks for the status every second until it is   *)
(* one it takes for final (cmd/cli/upload.go, cmd/cli/util/pollstatus.go). *)
(***************************************************************************)
EXTENDS FunctionPipeline

VARIABLE client         \* per function: the stage, or the status told as final

CliFinal == {"FAILED", "READY", "DETECTED"}
CliStages == {"idle", "sending", "polling", "failed"} \cup CliFinal

cliVars == <<vars, client>>

CliInit ==
    /\ Init
    /\ client = [f \in Functions |-> "idle"]

\* The shape of the client and of all the parts of the pipeline.
CliTypeOK == TypeOK /\ client \in [Functions -> CliStages]

ClientMoves(f, from, to) ==
    /\ client[f] = from
    /\ client' = [client EXCEPT ![f] = to]

\* What the services do while the client waits.
ServicesMove ==
    /\ \/ IntakeProgress /\ UNCHANGED <<analyzerVars, buildVars>>
       \/ (ServerCrash \/ ServerStart) /\ UNCHANGED <<analyzerVars, buildVars>>
       \/ AnalyzerNext /\ UNCHANGED <<intakeVars, buildVars>>
       \/ BuildNext /\ UNCHANGED <<intakeVars, analyzerVars>>
    /\ UNCHANGED client

\* uploadFile: the archive reaches the server's handler.
Send(f) ==
    /\ ClientMoves(f, "idle", "sending")
    /\ StoreArchive(f)
    /\ UNCHANGED <<analyzerVars, buildVars>>

\* The answer carries the function's id, or it is an error.
Answered(f) ==
    /\ \/ upload[f] = "ok" /\ ClientMoves(f, "sending", "polling")
       \/ upload[f] = "error" /\ ClientMoves(f, "sending", "failed")
    /\ UNCHANGED vars

\* The command ends at the first request without a good answer: the server is
\* down, or it cannot read the row.
RequestFails(f) ==
    /\ \/ ClientMoves(f, "sending", "failed")
       \/ ClientMoves(f, "polling", "failed")
    /\ \/ server = "down" /\ UNCHANGED budget
       \/ client[f] = "polling" /\ server = "up" /\ Spend("db")
    /\ UNCHANGED <<vmState, tableVars, bucketVars, analyzerQueue, buildQueueVars,
                   intakeVars, analyzerVars, buildVars>>

\* Mutant of ReadFinal: DETECTED is not among the final statuses.
ReadFinalNotDetected(f) ==
    /\ server = "up"
    /\ fnStatus[f] \in CliFinal \ {"DETECTED"}
    /\ ClientMoves(f, "polling", fnStatus[f])
    /\ UNCHANGED vars

\* A tick that reads a final status: it is printed and the command ends.
ReadFinal(f) ==
    /\ server = "up"
    /\ fnStatus[f] \in CliFinal
    /\ ClientMoves(f, "polling", fnStatus[f])
    /\ UNCHANGED vars

CliNext ==
    \/ ServicesMove
    \/ \E f \in Functions : Send(f) \/ Answered(f) \/ RequestFails(f) \/ ReadFinal(f)

CliSpec == CliInit /\ [][CliNext]_cliVars

\* The fairness of the services, and a ticker that goes on ticking.
CliFairSpec ==
    /\ CliSpec
    /\ Fairness
    /\ \A f \in Functions : WF_cliVars(Answered(f) \/ ReadFinal(f))

-----------------------------------------------------------------------------
(***************************************************************************)
(* The row names a stored drive or none, and who has been told READY can   *)
(* invoke the function, from then on and under any faults: repeated        *)
(* analyses and builds may move the status again, but the row goes on      *)
(* naming a drive (pollstatus.go:121, prepare.go:50, execute.go:49).       *)
(***************************************************************************)
ReadyIsInvokable ==
    /\ DriveIsStored
    /\ \A f \in Functions : client[f] = "READY" => drivePath[f] # 0

(***************************************************************************)
(* The poll loop has no time limit, so it has to end by what the services  *)
(* write: an upload that was accepted is told READY, FAILED or DETECTED.   *)
(* What the analyzer could not judge is excepted: it stays VERIFIED (see   *)
(* VerdictIsTold; pollstatus.go:80-138).                                   *)
(***************************************************************************)
PollingEnds ==
    \A f \in Functions :
        client[f] = "polling" ~> client[f] # "polling" \/ "FAILURE" \in verdicts[f]

(***************************************************************************)
(* pollstatus.go:121-129: what the client has printed as "Final status" is *)
(* the status of the function from then on.                                *)
(***************************************************************************)
FinalIsFinal ==
    \A f \in Functions : client[f] \in CliFinal => fnStatus[f] = client[f]
=============================================================================
