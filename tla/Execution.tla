----------------------------- MODULE Execution -----------------------------
(***************************************************************************)
(* The life of an invocation: the HTTP handler that creates its row and    *)
(* publishes its message (server/handler/execute.go), the execute queue,   *)
(* and the VM service's consumers that claim the row, run the function and *)
(* record how it went (vm/queue/handler.go, vm/service/exec.go).           *)
(*                                                                         *)
(* The server and the VM service share the row only through Postgres and   *)
(* the queue.  The run of a microVM is one step here, with the outcomes    *)
(* ExecutionRunner.Execute can report.                                     *)
(***************************************************************************)
EXTENDS Platform, FiniteSets

CONSTANTS
    Invocations,            \* the invocations users may ask for
    Functions,              \* the rows of the functions table
    FunctionOf,             \* the function an invocation is of
    PayloadSizes,           \* sizes in bytes of the JSON payloads users send, and of
                            \* those as JSON strings, quotes and the like escaped
    Consumers,              \* MAX_CONCURRENT_EXECUTES consumers
    NoJob,
    MaxRetries,
    MaxLength

(***************************************************************************)
(* The two limits a payload meets, and the least number of bytes that the  *)
(* JSON of ExecuteMessage adds around it: four keys, a UUID and two object *)
(* names that are themselves UUIDs with a suffix.                          *)
(***************************************************************************)
MaxPayloadSize == 1024 * 1024
maxPayloadBytes == 64 * 1024
Envelope == 230

ASSUME ExecutionAssumption ==
    /\ FunctionOf \in [Invocations -> Functions]
    /\ PayloadSizes \subseteq {s \in [sent : Nat, quoted : Nat] : s.sent <= s.quoted}
    /\ NoJob \notin Invocations
    /\ IsFiniteSet(Consumers)
    /\ MaxRetries \in Nat
    /\ MaxLength \in Nat \ {0}

VARIABLES
    drive,          \* the function's row: "norow", "null" or "built" (drive_path)
    request,        \* where the HTTP request of an invocation is
    loadedDrive,    \* was drive_path set in the row the request loaded?
    size,           \* the size of the request's payload in its message
    invStatus,      \* the status column, "NOROW" before the INSERT
    logged,         \* is log_path set?
    runs,           \* how often the runner reported a finished run
    step,           \* what a consumer does next inside the handler
    queue, pc, job, owned, tries

Q == INSTANCE Router WITH Jobs <- Invocations

serverVars == <<drive, request, loadedDrive, size>>
routerVars == <<queue, pc, job, owned, tries>>
rowVars == <<invStatus, logged, runs>>
vars == <<platformVars, serverVars, rowVars, step, routerVars>>

Statuses == {"NOROW", "PENDING", "EXECUTING", "DONE", "FAILED"}
RequestStages == {"idle", "loaded", "created", "ok", "error"}
Steps == {"claim", "run", "reset", "finish"}

Init ==
    /\ PlatformInit
    /\ drive \in [Functions -> {"norow", "null"}]
    /\ request = [i \in Invocations |-> "idle"]
    /\ loadedDrive = [i \in Invocations |-> FALSE]
    /\ size = [i \in Invocations |-> 0]
    /\ invStatus = [i \in Invocations |-> "NOROW"]
    /\ logged = [i \in Invocations |-> FALSE]
    /\ runs = [i \in Invocations |-> 0]
    /\ step = [c \in Consumers |-> "claim"]
    /\ Q!Init

\* The build path finishes and sets drive_path; from here on it is set for good.
FunctionBuilt(f) ==
    /\ drive[f] = "null"
    /\ drive' = [drive EXCEPT ![f] = "built"]
    /\ UNCHANGED <<platformVars, request, loadedDrive, size, rowVars, step, routerVars>>

-----------------------------------------------------------------------------
(* The server: ExecuteLambda. *)

Respond(i, from, outcome) ==
    /\ request[i] = from
    /\ request' = [request EXCEPT ![i] = outcome]

(***************************************************************************)
(* validatePayload, then GetFunctionById, which hands the handler a copy   *)
(* of the row.  The status of the function is not looked at.               *)
(***************************************************************************)
LoadFunction(i, s) ==
    /\ size' = [size EXCEPT ![i] = s.quoted]
    /\ loadedDrive' = [loadedDrive EXCEPT ![i] = drive[FunctionOf[i]] = "built"]
    /\ \/ /\ s.sent <= MaxPayloadSize
          /\ drive[FunctionOf[i]] # "norow"
          /\ Respond(i, "idle", "loaded")
          /\ UNCHANGED budget
       \/ /\ s.sent > MaxPayloadSize \/ drive[FunctionOf[i]] = "norow"
          /\ Respond(i, "idle", "error")
          /\ UNCHANGED budget
       \/ /\ s.sent <= MaxPayloadSize
          /\ Respond(i, "idle", "error")
          /\ Spend("db")
    /\ UNCHANGED <<vmState, drive, rowVars, step, routerVars>>

\* The INSERT of a fresh id; a lost reply leaves a row no request answers for.
CreateInvocation(i) ==
    /\ invStatus[i] = "NOROW"
    /\ \/ /\ Respond(i, "loaded", "created")
          /\ invStatus' = [invStatus EXCEPT ![i] = "PENDING"]
          /\ UNCHANGED budget
       \/ /\ Respond(i, "loaded", "error")
          /\ invStatus' \in {invStatus, [invStatus EXCEPT ![i] = "PENDING"]}
          /\ Spend("db")
    /\ UNCHANGED <<vmState, drive, loadedDrive, size, logged, runs, step, routerVars>>

\* The nil check comes after the INSERT, and nothing takes the row back.
PublishInvocation(i) ==
    /\ \/ /\ loadedDrive[i]
          /\ Respond(i, "created", "ok")
          /\ Q!PublishLimited(i)
          /\ UNCHANGED budget
       \/ /\ loadedDrive[i]
          /\ Respond(i, "created", "error")
          /\ Spend("amqp")
          /\ UNCHANGED routerVars
       \/ /\ ~ loadedDrive[i]
          /\ Respond(i, "created", "error")
          /\ UNCHANGED <<budget, routerVars>>
    /\ UNCHANGED <<vmState, drive, loadedDrive, size, rowVars, step>>

\* Every request in flight ends with the connection; rows and messages stay.
ServerCrash ==
    /\ \E i \in Invocations : request[i] \in {"loaded", "created"}
    /\ request' = [i \in Invocations |->
                     IF request[i] \in {"loaded", "created"} THEN "error" ELSE request[i]]
    /\ Spend("crash")
    /\ UNCHANGED <<vmState, drive, loadedDrive, size, rowVars, step, routerVars>>

-----------------------------------------------------------------------------
(* The VM service: one consumer of the execute queue. *)

At(c, s) == pc[c] = "handle" /\ step[c] = s

Becomes(c, s) == step' = [step EXCEPT ![c] = s]

SetStatus(i, s) == invStatus' = [invStatus EXCEPT ![i] = s]

\* An UPDATE whose error is only logged.
SetStatusOrLog(i, s) ==
    \/ DbOk /\ SetStatus(i, s)
    \/ DbRefused /\ UNCHANGED invStatus

Deliver(c) ==
    /\ vmState = "up"
    /\ \E i \in Invocations : Q!Deliver(c, i)
    /\ UNCHANGED <<platformVars, serverVars, rowVars, step>>

TooLarge(i) == size[i] + Envelope > maxPayloadBytes

\* decodePayload refuses the message, and the handler acknowledges it.
Discard(c) ==
    /\ At(c, "claim")
    /\ TooLarge(job[c])
    /\ Q!ReturnNil(c)
    /\ UNCHANGED <<platformVars, serverVars, rowVars, step>>

\* Mutant of Claim: the UPDATE without its condition on the old status.
ClaimUnconditionally(c) ==
    /\ At(c, "claim")
    /\ ~ TooLarge(job[c])
    /\ DbOk
    /\ SetStatus(job[c], "EXECUTING")
    /\ Becomes(c, "run")
    /\ UNCHANGED <<vmState, serverVars, logged, runs, routerVars>>

\* UpdateInvocationStatusIf(PENDING, EXECUTING): the winner goes on to run.
Claim(c) ==
    LET i == job[c] IN
    /\ At(c, "claim")
    /\ ~ TooLarge(i)
    /\ \/ /\ DbOk
          /\ invStatus[i] = "PENDING"
          /\ SetStatus(i, "EXECUTING")
          /\ Becomes(c, "run")
          /\ UNCHANGED routerVars
       \/ /\ DbOk
          /\ invStatus[i] # "PENDING"
          /\ Q!ReturnNil(c)
          /\ UNCHANGED <<invStatus, step>>
       \/ /\ DbRefused
          /\ Q!ReturnError(c)
          /\ UNCHANGED <<invStatus, step>>
       \/ /\ DbReplyLost
          /\ SetStatus(i, IF invStatus[i] = "PENDING" THEN "EXECUTING" ELSE invStatus[i])
          /\ Q!ReturnError(c)
          /\ UNCHANGED step
    /\ UNCHANGED <<vmState, serverVars, logged, runs>>

(***************************************************************************)
(* runner.Execute.  It succeeds only while its context lives, since the    *)
(* upload of the log needs the context; it may fail at any time, and it    *)
(* has to within the execution time limit.                                 *)
(***************************************************************************)
RunSucceeds(c) ==
    /\ At(c, "run")
    /\ vmState = "up"
    /\ runs' = [runs EXCEPT ![job[c]] = @ + 1]
    /\ Becomes(c, "finish")
    /\ UNCHANGED <<platformVars, serverVars, invStatus, logged, routerVars>>

\* Mutant of RunFails: the error of the runner is not looked at.
RunErrorIgnored(c) ==
    /\ At(c, "run")
    /\ Becomes(c, "finish")
    /\ UNCHANGED <<platformVars, serverVars, rowVars, routerVars>>

RunFails(c) ==
    /\ At(c, "run")
    /\ Becomes(c, "reset")
    /\ UNCHANGED <<platformVars, serverVars, rowVars, routerVars>>

\* Mutant of Reset: the error goes up and the row is left as it is.
ResetForgotten(c) ==
    /\ At(c, "reset")
    /\ Becomes(c, "claim")
    /\ Q!ReturnError(c)
    /\ UNCHANGED <<platformVars, serverVars, rowVars>>

\* Back to PENDING, then the error goes up to the middlewares.
Reset(c) ==
    /\ At(c, "reset")
    /\ SetStatusOrLog(job[c], "PENDING")
    /\ Becomes(c, "claim")
    /\ Q!ReturnError(c)
    /\ UNCHANGED <<vmState, serverVars, logged, runs>>

\* Mutant of Finish: its error is returned, as prepare.go returns it.
FinishReportsError(c) ==
    /\ At(c, "finish")
    /\ \/ /\ DbOk
          /\ SetStatus(job[c], "DONE")
          /\ logged' = [logged EXCEPT ![job[c]] = TRUE]
          /\ Q!ReturnNil(c)
       \/ /\ DbRefused
          /\ Q!ReturnError(c)
          /\ UNCHANGED <<invStatus, logged>>
    /\ Becomes(c, "claim")
    /\ UNCHANGED <<vmState, serverVars, runs>>

\* Status, log path and end time are one UPDATE; its failure is only logged.
Finish(c) ==
    /\ At(c, "finish")
    /\ \/ /\ DbOk
          /\ SetStatus(job[c], "DONE")
          /\ logged' = [logged EXCEPT ![job[c]] = TRUE]
       \/ /\ DbRefused
          /\ UNCHANGED <<invStatus, logged>>
    /\ Becomes(c, "claim")
    /\ Q!ReturnNil(c)
    /\ UNCHANGED <<vmState, serverVars, runs>>

\* Mutant of Poison: the plain publisher, which leaves the row alone.
PoisonPlain(c) ==
    /\ Q!StatusWritten(c)
    /\ UNCHANGED <<platformVars, serverVars, rowVars, step>>

\* executeStatusFailPublisher: FAILED whatever the status is by now.
Poison(c) ==
    /\ SetStatusOrLog(job[c], "FAILED")
    /\ Q!StatusWritten(c)
    /\ UNCHANGED <<vmState, serverVars, logged, runs, step>>

DeadLetter(c) ==
    /\ Q!DeadLetterSent(c)
    /\ UNCHANGED <<platformVars, serverVars, rowVars, step>>

DeadLetterFails(c) ==
    /\ Spend("amqp")
    /\ \/ Q!MayRetry(c, vmState = "up") /\ Q!TryAgain(c)
       \/ ~ Q!MayRetry(c, vmState = "up") /\ Q!Nack(c)
    /\ UNCHANGED <<vmState, serverVars, rowVars, step>>

Ack(c) ==
    /\ Q!Ack(c)
    /\ UNCHANGED <<platformVars, serverVars, rowVars, step>>

ConnectionLost(c) ==
    /\ Spend("loss")
    /\ Q!ConnectionLost(c)
    /\ UNCHANGED <<vmState, serverVars, rowVars, step>>

-----------------------------------------------------------------------------
(* The life of the VM service. *)

Sigterm ==
    /\ CancelContext
    /\ UNCHANGED <<serverVars, rowVars, step, routerVars>>

\* router.Run returns once every handler has answered.
Exit ==
    /\ Q!AllIdle
    /\ ProcessExits
    /\ UNCHANGED <<serverVars, rowVars, step, routerVars>>

Crash ==
    /\ ProcessCrashes
    /\ Q!Die
    /\ step' = [c \in Consumers |-> "claim"]
    /\ UNCHANGED <<serverVars, rowVars>>

Start ==
    /\ ProcessStarts
    /\ UNCHANGED <<serverVars, rowVars, step, routerVars>>

ServerNext ==
    \/ \E i \in Invocations :
         \/ \E s \in PayloadSizes : LoadFunction(i, s)
         \/ CreateInvocation(i)
         \/ PublishInvocation(i)
    \/ ServerCrash

ConsumerStep(c) ==
    \/ Discard(c)
    \/ Claim(c)
    \/ RunSucceeds(c)
    \/ RunFails(c)
    \/ Reset(c)
    \/ Finish(c)
    \/ Poison(c)
    \/ DeadLetter(c)
    \/ DeadLetterFails(c)
    \/ Ack(c)

Next ==
    \/ \E f \in Functions : FunctionBuilt(f)
    \/ ServerNext
    \/ \E c \in Consumers : Deliver(c) \/ ConsumerStep(c) \/ ConnectionLost(c)
    \/ Sigterm
    \/ Exit
    \/ Crash
    \/ Start

(***************************************************************************)
(* Fairness: a consumer the broker has a message for is given one, a       *)
(* handler goes on (every wait in it ends with a reply, an error or the    *)
(* execution time limit), and a stopped service is started again.  No      *)
(* request has to arrive and no fault has to happen.                       *)
(***************************************************************************)
Fairness ==
    /\ \A c \in Consumers : WF_vars(Deliver(c)) /\ WF_vars(ConsumerStep(c))
    /\ WF_vars(Exit)
    /\ WF_vars(Start)

Spec == Init /\ [][Next]_vars
FairSpec == Spec /\ Fairness

-----------------------------------------------------------------------------
\* The shapes of the state: row, request and consumer.
TypeOK ==
    /\ PlatformTypeOK
    /\ drive \in [Functions -> {"norow", "null", "built"}]
    /\ request \in [Invocations -> RequestStages]
    /\ loadedDrive \in [Invocations -> BOOLEAN]
    /\ size \in [Invocations -> Nat]
    /\ invStatus \in [Invocations -> Statuses]
    /\ logged \in [Invocations -> BOOLEAN]
    /\ runs \in [Invocations -> Nat]
    /\ step \in [Consumers -> Steps]
    /\ \A c \in Consumers : pc[c] # "handle" => step[c] = "claim"
    /\ Q!TypeOK

\* c has won the claim of its invocation and has not given it up.
Holds(c, i) == job[c] = i /\ step[c] # "claim"

(***************************************************************************)
(* Two microVMs never work for the same invocation, however often its      *)
(* message is delivered: the claim in exec.go:24 admits one consumer, and  *)
(* the row leaves EXECUTING for PENDING only by the hand of that consumer. *)
(***************************************************************************)
SingleRunner ==
    \A i \in Invocations, c, d \in Consumers : Holds(c, i) /\ Holds(d, i) => c = d

(***************************************************************************)
(* A function is never run again after a run the runner called finished:   *)
(* neither a redelivery, nor the Retry middleware, nor a restart of the    *)
(* service gets past the claim once the log has been stored (exec.go:24,   *)
(* :41, :50).                                                              *)
(***************************************************************************)
CompletesOnce == \A i \in Invocations : runs[i] <= 1

Settled(i) == invStatus[i] \in {"DONE", "FAILED"}

(***************************************************************************)
(* Why the two properties above hold: an invocation in a consumer's hands  *)
(* cannot be claimed, and one whose run has finished cannot be claimed and *)
(* is in nobody's hands but those that are about to record it.  No delayed *)
(* handler breaks this, whatever it writes (exec.go:24-50, handler.go:113).*)
(***************************************************************************)
ClaimGuards ==
    \A i \in Invocations :
        LET claimable == invStatus[i] \in {"NOROW", "PENDING"} IN
        /\ (\E c \in Consumers : Holds(c, i)) => ~ claimable
        /\ runs[i] > 0 =>
              /\ ~ claimable
              /\ \A c \in Consumers : Holds(c, i) => step[c] = "finish"

(***************************************************************************)
(* FAILED is only said of an invocation whose function never completed.    *)
(***************************************************************************)
FailureIsHonest == \A i \in Invocations : invStatus[i] = "FAILED" => runs[i] = 0

(***************************************************************************)
(* Who reads DONE reads the log and the end time with it, and who reads    *)
(* them reads DONE, whatever fails in between: three columns, one UPDATE,  *)
(* and no other statement that takes one of them back (exec.go:50,         *)
(* handler.go:113, invocationdetails.go:66).                               *)
(***************************************************************************)
DoneHasLog ==
    \A i \in Invocations : logged[i] <=> invStatus[i] = "DONE"

(***************************************************************************)
(* An accepted invocation that is not settled is still in somebody's       *)
(* hands: PENDING means a message is on its way or a handler has yet to    *)
(* decide, EXECUTING means a handler holds it (handler.go:58-78,           *)
(* exec.go:24-50).                                                         *)
(***************************************************************************)
Attended ==
    \A i \in Invocations : request[i] = "ok" =>
        /\ invStatus[i] = "PENDING" =>
             \/ queue[i] > 0
             \/ \E c \in Consumers : job[c] = i /\ (At(c, "claim") \/ pc[c] = "poison")
        /\ invStatus[i] = "EXECUTING" => \E c \in Consumers : Holds(c, i)

(***************************************************************************)
(* docs/architecture.md:144: the VM service "updates the invocation status *)
(* (DONE or FAILED)" of what the server accepted.                          *)
(***************************************************************************)
AcceptedSettles == \A i \in Invocations : request[i] = "ok" ~> Settled(i)

(***************************************************************************)
(* The rows behave as the contract says.  A worker is a consumer that      *)
(* holds the invocation.                                                   *)
(***************************************************************************)
Contract == INSTANCE InvocationContract WITH
    status <- invStatus,
    finished <- runs,
    worked <- [i \in Invocations |-> \E c \in Consumers : Holds(c, i)]

\* Every step of servers, consumers and faults on a row is one the contract
\* allows (execute.go:42, exec.go:24-50, handler.go:113).
ImplementsContract == Contract!Spec
=============================================================================
