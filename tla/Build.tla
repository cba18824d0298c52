------------------------------- MODULE Build -------------------------------
(***************************************************************************)
(* The VM service's build half: consumers of the build queue that claim a  *)
(* VERIFIED function, install its dependencies onto a fresh drive inside a *)
(* microVM, store the drive and make the function READY                    *)
(* (vm/queue/handler.go, vm/service/prepare.go, vm/vm/prepare.go).         *)
(***************************************************************************)
EXTENDS FunctionStore

VARIABLES
    step,               \* what a consumer does next inside the handler
    driveName,          \* the name a consumer made up for its drive, 0 if none
    lastName            \* the last name made up for a function's drive

buildVars == <<step, driveName, lastName>>

BuildSteps == {"claim", "prepare", "save", "finish", "reject", "reset"}

BuildInit ==
    /\ step = [c \in Builders |-> "claim"]
    /\ driveName = [c \in Builders |-> 0]
    /\ lastName = [f \in Functions |-> 0]

BuildTypeOK ==
    /\ step \in [Builders -> BuildSteps]
    /\ driveName \in [Builders -> Nat]
    /\ lastName \in [Functions -> Nat]
    /\ \A c \in Builders :
         /\ pc[c] # "handle" => step[c] = "claim"
         /\ step[c] = "claim" <=> driveName[c] = 0

BuilderAt(c, s) == pc[c] = "handle" /\ step[c] = s

Proceeds(c, s) ==
    /\ step' = [step EXCEPT ![c] = s]
    /\ UNCHANGED <<driveName, lastName, buildQueueVars>>

\* Prepare returns, and the name of its drive is forgotten.
LeavesPrepare(c) ==
    /\ step' = [step EXCEPT ![c] = "claim"]
    /\ driveName' = [driveName EXCEPT ![c] = 0]
    /\ UNCHANGED lastName

\* An UPDATE whose error is only logged.
SetFnStatusOrLog(f, s) ==
    \/ DbOk /\ SetFnStatus(f, s)
    \/ DbRefused /\ UNCHANGED fnStatus

DeliverBuild(c) ==
    /\ vmState = "up"
    /\ \E f \in Functions : B!Deliver(c, f)
    /\ UNCHANGED <<platformVars, tableVars, bucketVars, analyzerQueue, buildVars>>

\* Mutant of ClaimBuild: the UPDATE without its condition on the old status.
ClaimBuildUnconditionally(c) ==
    LET f == job[c] IN
    /\ BuilderAt(c, "claim")
    /\ DbOk
    /\ SetFnStatus(f, "PREPARING_ENVIRONMENT")
    /\ step' = [step EXCEPT ![c] = "prepare"]
    /\ lastName' = [lastName EXCEPT ![f] = @ + 1]
    /\ driveName' = [driveName EXCEPT ![c] = lastName[f] + 1]
    /\ UNCHANGED <<vmState, drivePath, bucketVars, analyzerQueue, buildQueueVars>>

\* UpdateFunctionStatusIf(VERIFIED, PREPARING_ENVIRONMENT), then a fresh name.
ClaimBuild(c) ==
    LET f == job[c]
        claimable == fnStatus[f] = "VERIFIED" IN
    /\ BuilderAt(c, "claim")
    /\ \/ /\ DbOk
          /\ claimable
          /\ SetFnStatus(f, "PREPARING_ENVIRONMENT")
          /\ step' = [step EXCEPT ![c] = "prepare"]
          /\ lastName' = [lastName EXCEPT ![f] = @ + 1]
          /\ driveName' = [driveName EXCEPT ![c] = lastName[f] + 1]
          /\ UNCHANGED buildQueueVars
       \/ /\ DbOk
          /\ ~ claimable
          /\ B!ReturnNil(c)
          /\ UNCHANGED <<fnStatus, buildVars>>
       \/ /\ DbRefused
          /\ B!ReturnError(c)
          /\ UNCHANGED <<fnStatus, buildVars>>
       \/ /\ DbReplyLost
          /\ IF claimable THEN SetFnStatus(f, "PREPARING_ENVIRONMENT") ELSE UNCHANGED fnStatus
          /\ B!ReturnError(c)
          /\ UNCHANGED buildVars
    /\ UNCHANGED <<vmState, drivePath, bucketVars, analyzerQueue>>

(***************************************************************************)
(* PrepareEnvironment up to m.Stop.  The agent ends with exit code 0, or   *)
(* with another one (a UserError), or something else fails: the download   *)
(* of the archive, the VM, the stream, the time limit, the context.        *)
(***************************************************************************)
PrepareEnvironment(c) ==
    /\ BuilderAt(c, "prepare")
    /\ \/ /\ vmState = "up" /\ job[c] \in functionsBucket
          /\ Proceeds(c, "save") \/ Proceeds(c, "reject")
       \/ Proceeds(c, "reset")
    /\ UNCHANGED <<platformVars, tableVars, bucketVars, analyzerQueue>>

\* Mutant of SaveDrive: the error of Save is not looked at.
SaveUnchecked(c) ==
    /\ BuilderAt(c, "save")
    /\ \/ drivesBucket' = drivesBucket \cup {<<job[c], driveName[c]>>} /\ UNCHANGED budget
       \/ Spend("minio") /\ UNCHANGED drivesBucket
    /\ Proceeds(c, "finish")
    /\ UNCHANGED <<vmState, tableVars, quarantineBucket, functionsBucket, analyzerQueue>>

\* depsDrive.Save uploads under a context of its own, which SIGTERM spares; an
\* upload that fails may have stored the drive.
SaveDrive(c) ==
    /\ BuilderAt(c, "save")
    /\ \/ /\ drivesBucket' = drivesBucket \cup {<<job[c], driveName[c]>>}
          /\ Proceeds(c, "finish")
          /\ UNCHANGED budget
       \/ /\ drivesBucket' \in {drivesBucket, drivesBucket \cup {<<job[c], driveName[c]>>}}
          /\ Proceeds(c, "reset")
          /\ Spend("minio")
    /\ UNCHANGED <<vmState, tableVars, quarantineBucket, functionsBucket, analyzerQueue>>

\* A UserError is the user's: FAILED, and the message is acknowledged.
RejectBuild(c) ==
    /\ BuilderAt(c, "reject")
    /\ SetFnStatusOrLog(job[c], "FAILED")
    /\ LeavesPrepare(c)
    /\ B!ReturnNil(c)
    /\ UNCHANGED <<vmState, drivePath, bucketVars, analyzerQueue>>

ResetBuild(c) ==
    /\ BuilderAt(c, "reset")
    /\ SetFnStatusOrLog(job[c], "VERIFIED")
    /\ LeavesPrepare(c)
    /\ B!ReturnError(c)
    /\ UNCHANGED <<vmState, drivePath, bucketVars, analyzerQueue>>

\* READY and drive_path in one UPDATE; its error goes to the middlewares.
FinishBuild(c) ==
    LET ready == /\ SetFnStatus(job[c], "READY")
                 /\ drivePath' = [drivePath EXCEPT ![job[c]] = driveName[c]]
    IN
    /\ BuilderAt(c, "finish")
    /\ \/ DbOk /\ ready /\ B!ReturnNil(c)
       \/ DbRefused /\ UNCHANGED tableVars /\ B!ReturnError(c)
       \/ DbReplyLost /\ ready /\ B!ReturnError(c)
    /\ LeavesPrepare(c)
    /\ UNCHANGED <<vmState, bucketVars, analyzerQueue>>

\* Mutant of PoisonBuild: the plain publisher, which leaves the row alone.
PoisonBuildPlain(c) ==
    /\ B!StatusWritten(c)
    /\ UNCHANGED <<platformVars, tableVars, bucketVars, analyzerQueue, buildVars>>

\* statusFailPublisher: FAILED whatever the status is by now.
PoisonBuild(c) ==
    /\ SetFnStatusOrLog(job[c], "FAILED")
    /\ B!StatusWritten(c)
    /\ UNCHANGED <<vmState, drivePath, bucketVars, analyzerQueue, buildVars>>

DeadLetterBuild(c) ==
    /\ B!DeadLetterSent(c)
    /\ UNCHANGED <<platformVars, tableVars, bucketVars, analyzerQueue, buildVars>>

DeadLetterBuildFails(c) ==
    /\ Spend("amqp")
    /\ \/ B!MayRetry(c, vmState = "up") /\ B!TryAgain(c)
       \/ ~ B!MayRetry(c, vmState = "up") /\ B!Nack(c)
    /\ UNCHANGED <<vmState, tableVars, bucketVars, analyzerQueue, buildVars>>

AckBuild(c) ==
    /\ B!Ack(c)
    /\ UNCHANGED <<platformVars, tableVars, bucketVars, analyzerQueue, buildVars>>

BuilderConnectionLost(c) ==
    /\ Spend("loss")
    /\ B!ConnectionLost(c)
    /\ UNCHANGED <<vmState, tableVars, bucketVars, analyzerQueue, buildVars>>

VmSigterm ==
    /\ CancelContext
    /\ UNCHANGED <<tableVars, bucketVars, analyzerQueue, buildQueueVars, buildVars>>

VmExit ==
    /\ B!AllIdle
    /\ ProcessExits
    /\ UNCHANGED <<tableVars, bucketVars, analyzerQueue, buildQueueVars, buildVars>>

VmCrash ==
    /\ ProcessCrashes
    /\ B!Die
    /\ step' = [c \in Builders |-> "claim"]
    /\ driveName' = [c \in Builders |-> 0]
    /\ UNCHANGED <<tableVars, bucketVars, analyzerQueue, lastName>>

VmStart ==
    /\ ProcessStarts
    /\ UNCHANGED <<tableVars, bucketVars, analyzerQueue, buildQueueVars, buildVars>>

BuilderStep(c) ==
    \/ ClaimBuild(c)
    \/ PrepareEnvironment(c)
    \/ SaveDrive(c)
    \/ RejectBuild(c)
    \/ ResetBuild(c)
    \/ FinishBuild(c)
    \/ PoisonBuild(c)
    \/ DeadLetterBuild(c)
    \/ DeadLetterBuildFails(c)
    \/ AckBuild(c)

BuildNext ==
    \/ \E c \in Builders : DeliverBuild(c) \/ BuilderStep(c) \/ BuilderConnectionLost(c)
    \/ VmSigterm
    \/ VmExit
    \/ VmCrash
    \/ VmStart

\* c has claimed f's build and has not let go of it.
Builds(c, f) == job[c] = f /\ step[c] # "claim"
=============================================================================
