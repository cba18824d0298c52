--------------------------- MODULE ContractProofs ---------------------------
(***************************************************************************)
(* Proofs about what a client reads of an invocation, for a service whose  *)
(* consumers keep their connections, and whose statements do not fail      *)
(* where processes die.  Everything else may happen any number of times.   *)
(***************************************************************************)
EXTENDS ExecutionProofs

\* The faults of a behaviour that the contract is promised under.
Healthy ==
    /\ budget["loss"] = 0
    /\ budget["crash"] = 0 \/ budget["db"] = 0

-----------------------------------------------------------------------------
\* No step gives back a fault that has been spent.
LEMMA BudgetFalls ==
    ASSUME TypeOK, [Next]_vars
    PROVE  \A k \in FaultKinds : budget'[k] <= budget[k]
<1>1. budget \in [FaultKinds -> Nat]
  BY DEF TypeOK, PlatformTypeOK
<1>2. ASSUME UNCHANGED budget \/ \E k \in FaultKinds : Spend(k)
      PROVE  \A k \in FaultKinds : budget'[k] <= budget[k]
  BY <1>1, <1>2 DEF Spend
<1> USE DEF platformVars
<1>3. ASSUME NEW c \in Consumers, Deliver(c) \/ ConsumerStep(c) \/ ConnectionLost(c)
      PROVE  UNCHANGED budget \/ \E k \in FaultKinds : Spend(k)
  <2> USE DEF FaultKinds
  <2>1. DbOk \/ DbRefused \/ DbReplyLost => UNCHANGED budget \/ \E k \in FaultKinds : Spend(k)
    BY DEF DbOk, DbRefused, DbReplyLost
  <2>2. Claim(c) \/ Reset(c) \/ Finish(c) \/ Poison(c) => DbOk \/ DbRefused \/ DbReplyLost
    BY DEF Claim, Reset, Finish, Poison, SetStatusOrLog
  <2>3. QED
    BY <1>3, <2>1, <2>2
    DEF Deliver, ConsumerStep, ConnectionLost, Discard, RunSucceeds, RunFails, DeadLetter,
        DeadLetterFails, Ack
<1>4. ASSUME ServerNext
      PROVE  UNCHANGED budget \/ \E k \in FaultKinds : Spend(k)
  BY <1>4 DEF ServerNext, LoadFunction, CreateInvocation, PublishInvocation, ServerCrash,
     FaultKinds
<1>5. ASSUME \/ \E f \in Functions : FunctionBuilt(f)
             \/ Sigterm \/ Exit \/ Crash \/ Start \/ UNCHANGED vars
      PROVE  UNCHANGED budget \/ \E k \in FaultKinds : Spend(k)
  BY <1>5 DEF FunctionBuilt, Sigterm, Exit, Crash, Start, CancelContext, ProcessExits,
     ProcessCrashes, ProcessStarts, vars, FaultKinds
<1>6. QED
  BY <1>2, <1>3, <1>4, <1>5 DEF Next

LEMMA HealthyStays == TypeOK /\ Healthy /\ [Next]_vars => Healthy'
<1> SUFFICES ASSUME TypeOK, Healthy, [Next]_vars
             PROVE  Healthy'
  OBVIOUS
<1>1. \A k \in FaultKinds : budget[k] \in Nat /\ budget'[k] \in Nat /\ budget'[k] <= budget[k]
  BY BudgetFalls, StepTypeOK DEF TypeOK, PlatformTypeOK
<1>2. "loss" \in FaultKinds /\ "crash" \in FaultKinds /\ "db" \in FaultKinds
  BY DEF FaultKinds
<1>3. QED
  BY <1>1, <1>2 DEF Healthy

-----------------------------------------------------------------------------
(***************************************************************************)
(* While connections hold, the one message that a request publishes is at  *)
(* one place: in the queue, or with one consumer.                          *)
(***************************************************************************)
OneCopy(i) ==
    /\ queue[i] \in {0, 1}
    /\ queue[i] = 1 => \A c \in Consumers : job[c] # i
    /\ \A c, d \in Consumers : job[c] = i /\ job[d] = i => c = d
    /\ request[i] # "ok" => queue[i] = 0 /\ \A c \in Consumers : job[c] # i

CopyInv ==
    /\ \A c \in Consumers : owned[c] <=> pc[c] # "idle"
    /\ \A i \in Invocations : OneCopy(i)

LEMMA CopyStep == TypeOK /\ Healthy /\ CopyInv /\ [Next]_vars => CopyInv'
<1> SUFFICES ASSUME TypeOK, Healthy, CopyInv, [Next]_vars
             PROVE  CopyInv'
  OBVIOUS
<1>1. /\ queue \in [Invocations -> Nat]
      /\ pc \in [Consumers -> Q!Stages]
      /\ job \in [Consumers -> Invocations \cup {NoJob}]
      /\ owned \in [Consumers -> BOOLEAN]
      /\ request \in [Invocations -> RequestStages]
      /\ \A c \in Consumers : (pc[c] = "idle") <=> (job[c] = NoJob)
      /\ NoJob \notin Invocations
  BY ExecutionAssumption DEF ExecutionAssumption, TypeOK, Q!TypeOK
<1>2. ASSUME UNCHANGED <<queue, job, owned>>,
             \A c \in Consumers : pc'[c] = "idle" <=> pc[c] = "idle",
             \A i \in Invocations : request[i] = "ok" => request'[i] = "ok"
      PROVE  CopyInv'
  BY <1>2 DEF CopyInv, OneCopy
<1>3. ASSUME NEW i \in Invocations, PublishInvocation(i)
      PROVE  CopyInv'
  <2>1. /\ request[i] = "created"
        /\ UNCHANGED <<pc, job, owned>>
        /\ \/ /\ request' = [request EXCEPT ![i] = "ok"]
              /\ queue' = queue \/ queue' = [queue EXCEPT ![i] = @ + 1]
           \/ /\ request' = [request EXCEPT ![i] = "error"]
              /\ UNCHANGED queue
    BY <1>3 DEF PublishInvocation, Respond, Q!PublishLimited, Q!Enqueue, Q!routerVars, routerVars
  <2>2. queue[i] = 0 /\ \A c \in Consumers : job[c] # i
    BY <2>1 DEF CopyInv, OneCopy
  <2>3. QED
    BY <1>1, <2>1, <2>2 DEF CopyInv, OneCopy
<1>4. ASSUME ServerNext, \A i \in Invocations : ~ PublishInvocation(i)
      PROVE  CopyInv'
  <2>1. UNCHANGED <<queue, pc, job, owned>>
    BY <1>4 DEF ServerNext, LoadFunction, CreateInvocation, ServerCrash, routerVars
  <2>2. \A i \in Invocations : request[i] = "ok" => request'[i] = "ok"
    BY <1>1, <1>4 DEF ServerNext, LoadFunction, CreateInvocation, ServerCrash, Respond
  <2>3. QED
    BY <1>2, <2>1, <2>2
<1>5. ASSUME NEW c \in Consumers, NEW i \in Invocations, Q!Deliver(c, i), UNCHANGED request
      PROVE  CopyInv'
  <2>1. /\ pc[c] = "idle" /\ queue[i] > 0
        /\ pc' = [pc EXCEPT ![c] = "handle"]
        /\ queue' = [queue EXCEPT ![i] = @ - 1]
        /\ job' = [job EXCEPT ![c] = i]
        /\ owned' = [owned EXCEPT ![c] = TRUE]
    BY <1>5 DEF Q!Deliver, Q!Move
  <2>2. queue[i] = 1 /\ request[i] = "ok" /\ \A d \in Consumers : job[d] # i
    BY <1>1, <2>1 DEF CopyInv, OneCopy
  <2>3. ASSUME NEW j \in Invocations
        PROVE  OneCopy(j)'
    BY <1>1, <1>5, <2>1, <2>2 DEF CopyInv, OneCopy
  <2>4. \A d \in Consumers : owned'[d] <=> pc'[d] # "idle"
    BY <1>1, <2>1 DEF CopyInv
  <2>5. QED
    BY <2>3, <2>4 DEF CopyInv
<1>6. ASSUME NEW c \in Consumers, Q!Nack(c) \/ Q!Ack(c), UNCHANGED request
      PROVE  CopyInv'
  <2>1. /\ pc[c] # "idle"
        /\ pc' = [pc EXCEPT ![c] = "idle"]
        /\ job' = [job EXCEPT ![c] = NoJob]
        /\ owned' = [owned EXCEPT ![c] = FALSE]
        /\ queue' = queue \/ queue' = [queue EXCEPT ![job[c]] = @ + 1]
    BY <1>6 DEF Q!Nack, Q!Ack, Q!Move, Q!Released, Q!Returned, CopyInv
  <2>2. /\ job[c] \in Invocations /\ queue[job[c]] = 0
        /\ request[job[c]] = "ok"
        /\ \A d \in Consumers : job[d] = job[c] => d = c
    BY <1>1, <2>1 DEF CopyInv, OneCopy
  <2>3. ASSUME NEW j \in Invocations
        PROVE  OneCopy(j)'
    BY <1>1, <1>6, <2>1, <2>2 DEF CopyInv, OneCopy
  <2>4. \A d \in Consumers : owned'[d] <=> pc'[d] # "idle"
    BY <1>1, <2>1 DEF CopyInv
  <2>5. QED
    BY <2>3, <2>4 DEF CopyInv
<1>7. ASSUME Q!Die, UNCHANGED request
      PROVE  CopyInv'
  <2> DEFINE Mine(i) == {c \in Consumers : owned[c] /\ job[c] = i}
             back(i) == Q!Cardinality(Mine(i))
  <2>1. /\ queue' = [i \in Invocations |-> queue[i] + back(i)]
        /\ \A c \in Consumers : pc'[c] = "idle" /\ job'[c] = NoJob /\ owned'[c] = FALSE
    BY <1>7 DEF Q!Die
  <2>2. ASSUME NEW i \in Invocations
        PROVE  /\ back(i) \in {0, 1}
               /\ back(i) = 1 => queue[i] = 0 /\ request[i] = "ok"
    <3>0. back(i) = Cardinality(Mine(i))
      BY DEF Q!Cardinality, Cardinality
    <3>1. CASE Mine(i) = {}
      BY <3>0, <3>1, FS_EmptySet
    <3>2. ASSUME NEW c \in Mine(i)
          PROVE  back(i) = 1 /\ queue[i] = 0 /\ request[i] = "ok"
      <4>1. Mine(i) = {c}
        BY <3>2 DEF CopyInv, OneCopy
      <4>2. Cardinality({c}) = 1
        BY FS_Singleton
      <4>3. queue[i] = 0 /\ request[i] = "ok"
        BY <1>1, <3>2 DEF CopyInv, OneCopy
      <4>4. QED
        BY <3>0, <4>1, <4>2, <4>3
    <3> HIDE DEF Mine, back
    <3>3. QED
      BY <3>1, <3>2
  <2>3. ASSUME NEW i \in Invocations
        PROVE  OneCopy(i)'
    <3>1. queue'[i] = queue[i] + back(i) /\ \A c \in Consumers : job'[c] # i
      BY <1>1, <2>1
    <3>2. queue[i] \in {0, 1} /\ (request[i] # "ok" => queue[i] = 0)
      BY DEF CopyInv, OneCopy
    <3> HIDE DEF back, Mine
    <3>3. QED
      BY <1>7, <2>2, <3>1, <3>2 DEF OneCopy
  <2>4. QED
    BY <2>1, <2>3 DEF CopyInv
<1>8. ASSUME NEW c \in Consumers, ConsumerStep(c)
      PROVE  CopyInv'
  <2>1. UNCHANGED request
    BY <1>8 DEF ConsumerStep, Discard, Claim, RunSucceeds, RunFails, Reset, Finish, Poison,
       DeadLetter, DeadLetterFails, Ack, serverVars
  <2>2. CASE Discard(c) \/ Claim(c) \/ RunSucceeds(c) \/ RunFails(c)
    BY <1>1, <1>2, <2>1, <2>2
    DEF Discard, Claim, RunSucceeds, RunFails, Q!ReturnNil, Q!ReturnError, Q!Move, routerVars
  <2>3. CASE Reset(c) \/ Finish(c) \/ Poison(c) \/ DeadLetter(c)
    BY <1>1, <1>2, <2>1, <2>3
    DEF Reset, Finish, Poison, DeadLetter, Q!ReturnNil, Q!ReturnError, Q!StatusWritten,
        Q!DeadLetterSent, Q!Move
  <2>4. CASE DeadLetterFails(c) /\ Q!TryAgain(c)
    BY <1>1, <1>2, <2>1, <2>4 DEF Q!TryAgain, Q!Move
  <2>5. CASE Q!Nack(c) \/ Ack(c)
    BY <1>6, <2>1, <2>5 DEF Ack
  <2>6. QED
    BY <1>8, <2>2, <2>3, <2>4, <2>5 DEF ConsumerStep, DeadLetterFails
<1>9. ASSUME NEW c \in Consumers
      PROVE  ~ ConnectionLost(c)
  <2>1. budget["loss"] = 0
    BY DEF Healthy
  <2>2. QED
    BY <2>1 DEF ConnectionLost, Spend
<1>10. CASE \/ \E f \in Functions : FunctionBuilt(f)
            \/ Sigterm \/ Exit \/ Start \/ UNCHANGED vars
  BY <1>2, <1>10 DEF FunctionBuilt, Sigterm, Exit, Start, vars, routerVars, serverVars
<1>11. QED
  BY <1>3, <1>4, <1>5, <1>7, <1>8, <1>9, <1>10
  DEF Next, ServerNext, Deliver, Crash, serverVars

-----------------------------------------------------------------------------
(***************************************************************************)
(* Rows, while the one message of each is at one place.  A handler that    *)
(* gives up can still write only for a function that never completed; and  *)
(* a message that is handled after its run has finished meets no failing   *)
(* statement, for only a crash can have brought it back.                   *)
(***************************************************************************)
HonestRow(i) ==
    /\ invStatus[i] = "FAILED" => runs[i] = 0
    /\ invStatus[i] = "DONE" => runs[i] > 0
    /\ logged[i] <=> invStatus[i] = "DONE"
    /\ request[i] \in {"created", "ok"} => invStatus[i] # "NOROW"
    /\ runs[i] > 0 => request[i] = "ok"

FinishedIsRead(i) ==
    runs[i] > 0 =>
        /\ queue[i] = 0
        /\ \A c \in Consumers : job[c] = i => step[c] = "finish" \/ pc[c] = "settle"

RowInv ==
    /\ \A i \in Invocations : HonestRow(i)
    /\ \A c \in Consumers, i \in Invocations : Holds(c, i) =>
          /\ invStatus[i] = "EXECUTING"
          /\ step[c] = "finish" => runs[i] = 1
    /\ \A c \in Consumers : pc[c] = "poison" /\ vmState # "stopping" => runs[job[c]] = 0
    /\ budget["db"] > 0 => \A i \in Invocations : FinishedIsRead(i)

\* What the steps below need of the state they are taken in.
Before == TypeOK /\ Healthy /\ ClaimInv /\ CopyInv /\ RowInv

\* The facts about types that most of them use.
LEMMA Shapes ==
    ASSUME TypeOK
    PROVE  /\ queue \in [Invocations -> Nat]
           /\ pc \in [Consumers -> Q!Stages]
           /\ job \in [Consumers -> Invocations \cup {NoJob}]
           /\ step \in [Consumers -> Steps]
           /\ invStatus \in [Invocations -> Statuses]
           /\ logged \in [Invocations -> BOOLEAN]
           /\ runs \in [Invocations -> Nat]
           /\ request \in [Invocations -> RequestStages]
           /\ budget \in [FaultKinds -> Nat]
           /\ \A c \in Consumers : (pc[c] = "idle") <=> (job[c] = NoJob)
           /\ \A c \in Consumers : pc[c] # "handle" => step[c] = "claim"
           /\ NoJob \notin Invocations
           /\ "db" \in FaultKinds
BY ExecutionAssumption
DEF ExecutionAssumption, TypeOK, PlatformTypeOK, Q!TypeOK, FaultKinds

\* Statements fail, while the service is up, only where nothing finished comes back.
LEMMA RefusedIsUnfinished ==
    ASSUME Before, NEW c \in Consumers, pc[c] = "handle", step[c] = "claim",
           DbRefused \/ DbReplyLost, vmState # "stopping"
    PROVE  runs[job[c]] = 0
<1>1. budget["db"] > 0
  BY DEF DbRefused, DbReplyLost, Spend
<1>2. job[c] \in Invocations /\ runs[job[c]] \in Nat
  BY Shapes DEF Before
<1>3. FinishedIsRead(job[c])
  BY <1>1, <1>2 DEF Before, RowInv
<1>4. QED
  BY <1>2, <1>3 DEF FinishedIsRead

\* A fault of another kind than db, or none, leaves as many of it as there were.
LEMMA DbFalls ==
    ASSUME TypeOK, [Next]_vars
    PROVE  budget'["db"] > 0 => budget["db"] > 0
<1>1. "db" \in FaultKinds /\ budget["db"] \in Nat /\ budget'["db"] \in Nat
  BY StepTypeOK DEF TypeOK, PlatformTypeOK, FaultKinds
<1>2. QED
  BY <1>1, BudgetFalls

\* Requests: they write a row that nobody has been told of.
LEMMA ServerRow ==
    ASSUME Before, [Next]_vars, ServerNext
    PROVE  RowInv'
<1> USE Shapes, DbFalls DEF Before
<1>1. UNCHANGED <<vmState, pc, job, step, runs, logged>>
  BY DEF ServerNext, LoadFunction, CreateInvocation, PublishInvocation, ServerCrash, rowVars,
     routerVars, Q!PublishLimited, Q!Enqueue, Q!routerVars
<1>2. ASSUME NEW i \in Invocations, CreateInvocation(i)
      PROVE  RowInv'
  <2>1. /\ invStatus[i] = "NOROW" /\ request[i] = "loaded"
        /\ UNCHANGED queue
        /\ \/ /\ invStatus' = [invStatus EXCEPT ![i] = "PENDING"]
              /\ \/ request' = [request EXCEPT ![i] = "created"]
                 \/ request' = [request EXCEPT ![i] = "error"]
           \/ UNCHANGED invStatus /\ request' = [request EXCEPT ![i] = "error"]
    BY <1>2 DEF CreateInvocation, Respond, routerVars
  <2>2. QED
    BY <1>1, <2>1 DEF RowInv, HonestRow, FinishedIsRead, Holds
<1>3. ASSUME NEW i \in Invocations, PublishInvocation(i)
      PROVE  RowInv'
  <2>1. /\ request[i] = "created" /\ UNCHANGED invStatus
        /\ \/ request' = [request EXCEPT ![i] = "ok"]
           \/ request' = [request EXCEPT ![i] = "error"]
        /\ UNCHANGED queue \/ queue' = [queue EXCEPT ![i] = @ + 1]
    BY <1>3 DEF PublishInvocation, Respond, rowVars, routerVars, Q!PublishLimited, Q!Enqueue,
       Q!routerVars
  <2>2. runs[i] = 0
    BY <2>1 DEF RowInv, HonestRow
  <2>3. QED
    BY <1>1, <2>1, <2>2 DEF RowInv, HonestRow, FinishedIsRead, Holds
<1>4. ASSUME \/ \E i \in Invocations, s \in PayloadSizes : LoadFunction(i, s)
             \/ ServerCrash
      PROVE  RowInv'
  <2>1. /\ UNCHANGED <<invStatus, queue>>
        /\ \A i \in Invocations : /\ request[i] = "ok" <=> request'[i] = "ok"
                                  /\ request'[i] = "created" => request[i] = "created"
    BY <1>4 DEF LoadFunction, ServerCrash, Respond, rowVars, routerVars
  <2>2. QED
    BY <1>1, <2>1 DEF RowInv, HonestRow, FinishedIsRead, Holds
<1>5. QED
  BY <1>2, <1>3, <1>4 DEF ServerNext

\* Consumers: each step is about the invocation of its message.
LEMMA ConsumerRow ==
    ASSUME Before, [Next]_vars, NEW c \in Consumers, Deliver(c) \/ ConsumerStep(c)
    PROVE  RowInv'
<1> USE Shapes, DbFalls DEF Before
<1>1. UNCHANGED <<vmState, request>>
  BY DEF Deliver, ConsumerStep, Discard, Claim, RunSucceeds, RunFails, Reset, Finish, Poison,
     DeadLetter, DeadLetterFails, Ack, platformVars, serverVars
<1>2. ASSUME NEW d \in Consumers, job[d] = job[c], job[c] \in Invocations
      PROVE  d = c
  BY <1>2 DEF CopyInv, OneCopy
<1>3. pc[c] # "idle" => job[c] \in Invocations /\ queue[job[c]] = 0 /\ request[job[c]] = "ok"
  BY DEF CopyInv, OneCopy
<1>4. ASSUME Deliver(c)
      PROVE  RowInv'
  <2>1. PICK i \in Invocations :
           /\ pc[c] = "idle" /\ queue[i] > 0
           /\ pc' = [pc EXCEPT ![c] = "handle"]
           /\ queue' = [queue EXCEPT ![i] = @ - 1]
           /\ job' = [job EXCEPT ![c] = i]
           /\ UNCHANGED <<rowVars, step>>
    BY <1>4 DEF Deliver, Q!Deliver, Q!Move
  <2>2. \A j \in Invocations : HonestRow(j)'
    BY <1>1, <2>1 DEF RowInv, HonestRow, rowVars
  <2>3. \A d \in Consumers, j \in Invocations : Holds(d, j)' => Holds(d, j)
    BY <2>1 DEF Holds
  <2>4. budget["db"] > 0 => \A j \in Invocations : FinishedIsRead(j)'
    BY <2>1 DEF RowInv, FinishedIsRead, rowVars
  <2>5. QED
    BY <1>1, <2>1, <2>2, <2>3, <2>4 DEF RowInv, rowVars
<1>5. ASSUME Discard(c)
      PROVE  RowInv'
  <2>1. /\ pc' = [pc EXCEPT ![c] = "settle"] /\ pc[c] = "handle"
        /\ UNCHANGED <<queue, job, rowVars, step>>
    BY <1>5 DEF Discard, Q!ReturnNil, Q!Move, At
  <2>2. QED
    BY <1>1, <2>1 DEF RowInv, HonestRow, FinishedIsRead, Holds, rowVars
<1>6. ASSUME Claim(c)
      PROVE  RowInv'
  <2> DEFINE i == job[c]
  <2>1. /\ pc[c] = "handle" /\ step[c] = "claim" /\ i \in Invocations
        /\ request[i] = "ok"
        /\ UNCHANGED <<queue, job, logged, runs>>
    BY <1>3, <1>6 DEF Claim, At, routerVars, Q!ReturnNil, Q!ReturnError
  <2>2. \A d \in Consumers : ~ Holds(d, i)
    BY <1>2, <2>1 DEF Holds
  <2>3. CASE /\ invStatus[i] = "PENDING"
             /\ invStatus' = [invStatus EXCEPT ![i] = "EXECUTING"]
             /\ step' = [step EXCEPT ![c] = "run"]
             /\ UNCHANGED pc
    <3>1. runs[i] = 0
      BY <2>1, <2>3 DEF ClaimInv, ClaimGuards
    <3>2. QED
      BY <1>1, <2>1, <2>2, <2>3, <3>1 DEF RowInv, HonestRow, FinishedIsRead, Holds
  <2>4. CASE /\ UNCHANGED <<invStatus, step>>
             /\ pc' = [pc EXCEPT ![c] = "settle"]
    BY <1>1, <2>1, <2>4 DEF RowInv, HonestRow, FinishedIsRead, Holds
  <2>5. CASE /\ DbRefused \/ DbReplyLost
             /\ invStatus' = invStatus \/ invStatus' = [invStatus EXCEPT ![i] =
                  IF invStatus[i] = "PENDING" THEN "EXECUTING" ELSE invStatus[i]]
             /\ UNCHANGED step
             /\ pc' = [pc EXCEPT ![c] = "poison"]
    <3>1. vmState # "stopping" => runs[i] = 0
      BY <2>1, <2>5, RefusedIsUnfinished
    <3>2. \A j \in Invocations : HonestRow(j)'
      BY <1>1, <2>1, <2>5 DEF RowInv, HonestRow
    <3>3. \A d \in Consumers, j \in Invocations :
             Holds(d, j)' => Holds(d, j) /\ invStatus'[j] = invStatus[j]
      BY <2>1, <2>2, <2>5 DEF Holds
    <3>4. budget["db"] > 0 => \A j \in Invocations : FinishedIsRead(j)'
      BY <2>1, <2>5 DEF RowInv, FinishedIsRead
    <3>5. QED
      BY <1>1, <2>1, <2>5, <3>1, <3>2, <3>3, <3>4 DEF RowInv
  <2>6. QED
    BY <1>6, <2>3, <2>4, <2>5
    DEF Claim, SetStatus, Becomes, routerVars, Q!ReturnNil, Q!ReturnError, Q!Move
<1>7. ASSUME RunSucceeds(c)
      PROVE  RowInv'
  <2> DEFINE i == job[c]
  <2>1. /\ pc[c] = "handle" /\ step[c] = "run" /\ i \in Invocations
        /\ queue[i] = 0 /\ request[i] = "ok"
        /\ runs' = [runs EXCEPT ![i] = @ + 1]
        /\ step' = [step EXCEPT ![c] = "finish"]
        /\ UNCHANGED <<queue, pc, job, invStatus, logged>>
    BY <1>3, <1>7 DEF RunSucceeds, At, Becomes, routerVars
  <2>2. Holds(c, i) /\ runs[i] = 0 /\ invStatus[i] = "EXECUTING"
    BY <2>1 DEF Holds, ClaimInv, ClaimGuards, RowInv
  <2>3. \A d \in Consumers : job[d] = i => d = c
    BY <1>2, <2>1
  <2>4. \A j \in Invocations : HonestRow(j)'
    BY <1>1, <2>1, <2>2 DEF RowInv, HonestRow
  <2>5. \A d \in Consumers, j \in Invocations : Holds(d, j)' =>
           invStatus'[j] = "EXECUTING" /\ (step'[d] = "finish" => runs'[j] = 1)
    BY <2>1, <2>2, <2>3 DEF RowInv, Holds
  <2>6. \A d \in Consumers : pc'[d] = "poison" /\ vmState' # "stopping" => runs'[job'[d]] = 0
    BY <1>1, <2>1, <2>3 DEF RowInv
  <2>7. budget["db"] > 0 => \A j \in Invocations : FinishedIsRead(j)'
    BY <2>1, <2>3 DEF RowInv, FinishedIsRead
  <2>8. QED
    BY <2>4, <2>5, <2>6, <2>7 DEF RowInv
<1>8. ASSUME RunFails(c)
      PROVE  RowInv'
  <2>1. /\ pc[c] = "handle" /\ step[c] = "run"
        /\ step' = [step EXCEPT ![c] = "reset"]
        /\ UNCHANGED <<queue, pc, job, invStatus, logged, runs>>
    BY <1>8 DEF RunFails, At, Becomes, routerVars, rowVars
  <2>2. QED
    BY <1>1, <2>1 DEF RowInv, HonestRow, FinishedIsRead, Holds
<1>9. ASSUME Reset(c)
      PROVE  RowInv'
  <2> DEFINE i == job[c]
  <2>1. /\ pc[c] = "handle" /\ step[c] = "reset" /\ i \in Invocations
        /\ request[i] = "ok"
        /\ pc' = [pc EXCEPT ![c] = "poison"]
        /\ step' = [step EXCEPT ![c] = "claim"]
        /\ UNCHANGED <<queue, job, logged, runs>>
        /\ invStatus' = invStatus \/ invStatus' = [invStatus EXCEPT ![i] = "PENDING"]
    BY <1>3, <1>9 DEF Reset, At, Becomes, SetStatusOrLog, SetStatus, Q!ReturnError, Q!Move
  <2>2. Holds(c, i) /\ runs[i] = 0 /\ invStatus[i] = "EXECUTING"
    BY <2>1 DEF Holds, ClaimInv, ClaimGuards, RowInv
  <2>3. \A d \in Consumers : job[d] = i => d = c
    BY <1>2, <2>1
  <2>4. \A j \in Invocations : HonestRow(j)'
    BY <1>1, <2>1, <2>2 DEF RowInv, HonestRow
  <2>5. \A d \in Consumers, j \in Invocations :
           Holds(d, j)' => Holds(d, j) /\ step'[d] = step[d] /\ invStatus'[j] = invStatus[j]
    BY <2>1, <2>3 DEF Holds
  <2>6. budget["db"] > 0 => \A j \in Invocations : FinishedIsRead(j)'
    BY <2>1, <2>2, <2>3 DEF RowInv, FinishedIsRead
  <2>7. QED
    BY <1>1, <2>1, <2>2, <2>4, <2>5, <2>6 DEF RowInv
<1>10. ASSUME Finish(c)
      PROVE  RowInv'
  <2> DEFINE i == job[c]
  <2>1. /\ pc[c] = "handle" /\ step[c] = "finish" /\ i \in Invocations
        /\ request[i] = "ok"
        /\ pc' = [pc EXCEPT ![c] = "settle"]
        /\ step' = [step EXCEPT ![c] = "claim"]
        /\ UNCHANGED <<queue, job, runs>>
        /\ \/ UNCHANGED <<invStatus, logged>>
           \/ /\ invStatus' = [invStatus EXCEPT ![i] = "DONE"]
              /\ logged' = [logged EXCEPT ![i] = TRUE]
    BY <1>3, <1>10 DEF Finish, At, Becomes, SetStatus, Q!ReturnNil, Q!Move
  <2>2. Holds(c, i) /\ runs[i] = 1 /\ invStatus[i] = "EXECUTING"
    BY <2>1 DEF Holds, RowInv
  <2>3. \A d \in Consumers : job[d] = i => d = c
    BY <1>2, <2>1
  <2>4. \A j \in Invocations : HonestRow(j)'
    BY <1>1, <2>1, <2>2 DEF RowInv, HonestRow
  <2>5. \A d \in Consumers, j \in Invocations :
           Holds(d, j)' => Holds(d, j) /\ step'[d] = step[d] /\ invStatus'[j] = invStatus[j]
    BY <2>1, <2>3 DEF Holds
  <2>6. budget["db"] > 0 => \A j \in Invocations : FinishedIsRead(j)'
    BY <2>1, <2>3 DEF RowInv, FinishedIsRead
  <2>7. QED
    BY <1>1, <2>1, <2>4, <2>5, <2>6 DEF RowInv
<1>11. ASSUME Poison(c)
      PROVE  RowInv'
  <2> DEFINE i == job[c]
  <2>1. /\ pc[c] = "poison" /\ step[c] = "claim" /\ i \in Invocations
        /\ request[i] = "ok"
        /\ pc' = [pc EXCEPT ![c] = "dlq"]
        /\ UNCHANGED <<queue, job, step, logged, runs>>
        /\ \/ UNCHANGED invStatus
           \/ vmState = "up" /\ invStatus' = [invStatus EXCEPT ![i] = "FAILED"]
    BY <1>3, <1>11 DEF Poison, SetStatusOrLog, SetStatus, DbOk, Q!StatusWritten, Q!Move
  <2>2. \A d \in Consumers : job[d] = i => d = c
    BY <1>2, <2>1
  <2>3. vmState = "up" => runs[i] = 0
    BY <2>1 DEF RowInv
  <2>4. \A j \in Invocations : HonestRow(j)'
    BY <1>1, <2>1, <2>3 DEF RowInv, HonestRow
  <2>5. \A d \in Consumers, j \in Invocations :
           Holds(d, j)' => Holds(d, j) /\ invStatus'[j] = invStatus[j]
    BY <2>1, <2>2 DEF Holds
  <2>6. budget["db"] > 0 => \A j \in Invocations : FinishedIsRead(j)'
    BY <2>1 DEF RowInv, FinishedIsRead
  <2>7. QED
    BY <1>1, <2>1, <2>4, <2>5, <2>6 DEF RowInv
<1>12. ASSUME DeadLetter(c)
       PROVE  RowInv'
  <2>1. /\ pc[c] = "dlq" /\ pc' = [pc EXCEPT ![c] = "settle"]
        /\ UNCHANGED <<queue, job, step, rowVars>>
    BY <1>12 DEF DeadLetter, Q!DeadLetterSent, Q!Move
  <2>2. QED
    BY <1>1, <2>1 DEF RowInv, HonestRow, FinishedIsRead, Holds, rowVars
<1>13. ASSUME DeadLetterFails(c), Q!TryAgain(c)
       PROVE  RowInv'
  <2>1. /\ pc[c] = "dlq" /\ pc' = [pc EXCEPT ![c] = "handle"]
        /\ UNCHANGED <<queue, job, step, rowVars>>
    BY <1>13 DEF DeadLetterFails, Q!TryAgain, Q!Move
  <2>2. QED
    BY <1>1, <2>1 DEF RowInv, HonestRow, FinishedIsRead, Holds, rowVars
<1>14. ASSUME Q!Nack(c) \/ Q!Ack(c), UNCHANGED <<step, rowVars>>
       PROVE  RowInv'
  <2> DEFINE i == job[c]
  <2>1. /\ pc[c] \in {"dlq", "settle"} /\ i \in Invocations /\ step[c] = "claim"
        /\ pc' = [pc EXCEPT ![c] = "idle"]
        /\ job' = [job EXCEPT ![c] = NoJob]
        /\ \/ UNCHANGED queue
           \/ pc[c] = "dlq" /\ queue' = [queue EXCEPT ![i] = @ + 1]
    BY <1>3, <1>14 DEF Q!Nack, Q!Ack, Q!Move, Q!Released, Q!Returned
  <2>2. \A d \in Consumers, j \in Invocations : Holds(d, j)' => Holds(d, j)
    BY <1>14, <2>1 DEF Holds
  <2>3. budget["db"] > 0 => \A j \in Invocations : FinishedIsRead(j)'
    <3>1. budget["db"] > 0 /\ pc[c] = "dlq" => runs[i] = 0
      BY <2>1 DEF RowInv, FinishedIsRead
    <3>2. QED
      BY <1>14, <2>1, <3>1 DEF RowInv, FinishedIsRead, rowVars
  <2>4. \A j \in Invocations : HonestRow(j)'
    BY <1>1, <1>14 DEF RowInv, HonestRow, rowVars
  <2>5. QED
    BY <1>1, <1>14, <2>1, <2>2, <2>3, <2>4 DEF RowInv, rowVars
<1>15. QED
  BY <1>4, <1>5, <1>6, <1>7, <1>8, <1>9, <1>10, <1>11, <1>12, <1>13, <1>14
  DEF ConsumerStep, DeadLetterFails, Ack

\* The service goes and comes back, with its statements or without.
LEMMA LifeRow ==
    ASSUME Before, [Next]_vars, Sigterm \/ Exit \/ Crash \/ Start
    PROVE  RowInv'
<1> USE Shapes, DbFalls DEF Before
<1>1. UNCHANGED <<rowVars, request>>
  BY DEF Sigterm, Exit, Crash, Start, serverVars
<1>2. \A j \in Invocations : HonestRow(j)'
  BY <1>1 DEF RowInv, HonestRow, rowVars
<1>3. CASE Sigterm \/ Exit \/ Start
  <2>1. UNCHANGED <<queue, pc, job, step>>
    BY <1>3 DEF Sigterm, Exit, Start, routerVars
  <2>2. \A c \in Consumers : pc[c] = "poison" /\ vmState' # "stopping" => vmState # "stopping"
    BY <1>3 DEF Sigterm, Exit, Start, CancelContext, ProcessExits, ProcessStarts, Q!AllIdle
  <2>3. QED
    BY <1>1, <1>2, <2>1, <2>2 DEF RowInv, FinishedIsRead, Holds, rowVars
<1>4. CASE Crash
  <2>1. \A c \in Consumers : pc'[c] = "idle" /\ step'[c] = "claim"
    BY <1>4 DEF Crash, Q!Die
  <2>2. budget["crash"] > 0 /\ budget["crash"] \in Nat
    BY <1>4 DEF Crash, ProcessCrashes, Spend, FaultKinds
  <2>3. budget["db"] = 0
    BY <2>2 DEF Healthy
  <2>4. QED
    BY <1>2, <2>1, <2>3 DEF RowInv, Holds
<1>5. QED
  BY <1>3, <1>4

LEMMA RowStep == Before /\ [Next]_vars => RowInv'
<1> SUFFICES ASSUME Before, [Next]_vars
             PROVE  RowInv'
  OBVIOUS
<1>1. CASE (\E f \in Functions : FunctionBuilt(f)) \/ UNCHANGED vars
  <2>1. UNCHANGED <<vmState, budget, request, rowVars, step, routerVars>>
    BY <1>1 DEF FunctionBuilt, vars, platformVars, serverVars
  <2>2. QED
    BY <2>1 DEF Before, RowInv, HonestRow, FinishedIsRead, Holds, rowVars, routerVars
<1>2. ASSUME NEW c \in Consumers
      PROVE  ~ ConnectionLost(c)
  <2>1. budget["loss"] = 0
    BY DEF Before, Healthy
  <2>2. QED
    BY <2>1 DEF ConnectionLost, Spend
<1>3. QED
  BY <1>1, <1>2, ServerRow, ConsumerRow, LifeRow DEF Next

LEMMA RowInvariant == Spec /\ Healthy => []Before
<1>1. Init /\ Healthy => Before
  <2> SUFFICES ASSUME Init, Healthy
               PROVE  Before
    OBVIOUS
  <2>1. CopyInv
    BY ExecutionAssumption
    DEF ExecutionAssumption, CopyInv, OneCopy, Init, Q!Init
  <2>2. RowInv
    BY DEF RowInv, HonestRow, FinishedIsRead, Holds, Init, Q!Init
  <2>3. QED
    BY <2>1, <2>2, InitTypeOK, InitClaimInv DEF Before
<1>2. Before /\ [Next]_vars => Before'
  BY StepTypeOK, HealthyStays, ClaimStep, CopyStep, RowStep DEF Before
<1>3. QED
  BY <1>1, <1>2, PTL DEF Spec

(***************************************************************************)
(* While connections hold, FAILED is said only of what never completed     *)
(* (exec.go:42, :50, handler.go:113).                                      *)
(***************************************************************************)
THEOREM FailedNeverCompleted == Spec /\ Healthy => []FailureIsHonest
<1>1. Before => FailureIsHonest
  BY DEF Before, RowInv, HonestRow, FailureIsHonest
<1>2. QED
  BY <1>1, RowInvariant, PTL

(***************************************************************************)
(* While connections hold, DONE comes with the log and nothing else does   *)
(* (exec.go:50, invocationdetails.go:66).                                  *)
(***************************************************************************)
THEOREM LogWithDone == Spec /\ Healthy => []DoneHasLog
<1>1. Before => DoneHasLog
  BY DEF Before, RowInv, HonestRow, DoneHasLog
<1>2. QED
  BY <1>1, RowInvariant, PTL

-----------------------------------------------------------------------------
(* Execution implements InvocationContract. *)

Worked == [i \in Invocations |-> \E c \in Consumers : Holds(c, i)]

\* A step that changes no row and lets nobody take or leave one is a stutter.
LEMMA Stutter ==
    ASSUME UNCHANGED <<invStatus, runs>>,
           \A d \in Consumers, j \in Invocations : Holds(d, j)' <=> Holds(d, j)
    PROVE  UNCHANGED Contract!vars
<1>1. Worked' = Worked
  BY DEF Worked
<1>2. QED
  BY <1>1 DEF Contract!vars, Worked

\* Who works on i changes as c takes it up or leaves it, and on nothing else.
LEMMA WorkedBy ==
    ASSUME NEW i \in Invocations,
           \A d \in Consumers, j \in Invocations \ {i} : Holds(d, j)' <=> Holds(d, j)
    PROVE  Worked' = [Worked EXCEPT ![i] = \E c \in Consumers : Holds(c, i)']
BY DEF Worked

\* The claim of a consumer of the VM service.
LEMMA ClaimContract ==
    ASSUME Before, NEW c \in Consumers, Claim(c)
    PROVE  [Contract!Next]_(Contract!vars)
<1> USE Shapes DEF Before
<1> DEFINE i == job[c]
<1>1. /\ pc[c] = "handle" /\ step[c] = "claim" /\ i \in Invocations
      /\ UNCHANGED <<job, runs>>
  BY DEF Claim, At, routerVars, Q!ReturnNil, Q!ReturnError
<1>2. CASE /\ invStatus[i] = "PENDING"
           /\ invStatus' = [invStatus EXCEPT ![i] = "EXECUTING"]
           /\ step' = [step EXCEPT ![c] = "run"]
  <2>1. Holds(c, i)' /\ \A d \in Consumers, j \in Invocations \ {i} : Holds(d, j)' <=> Holds(d, j)
    BY <1>1, <1>2 DEF Holds
  <2>2. (\E d \in Consumers : Holds(d, i)') = TRUE
    BY <2>1
  <2>3. Worked' = [Worked EXCEPT ![i] = TRUE]
    BY <1>1, <2>1, <2>2, WorkedBy
  <2>4. Contract!Claim(i)
    BY <1>1, <1>2, <2>3 DEF Contract!Claim, Contract!Becomes, Worked
  <2>5. QED
    BY <1>1, <2>4 DEF Contract!Next
<1>3. CASE UNCHANGED <<invStatus, step>>
  BY <1>1, <1>3, Stutter DEF Holds
<1>4. CASE /\ UNCHANGED step
           /\ invStatus' = [invStatus EXCEPT ![i] =
                IF invStatus[i] = "PENDING" THEN "EXECUTING" ELSE invStatus[i]]
  <2>1. \A d \in Consumers, j \in Invocations : Holds(d, j)' <=> Holds(d, j)
    BY <1>1, <1>4 DEF Holds
  <2>2. CASE invStatus[i] = "PENDING"
    <3>1. Worked' = Worked
      BY <2>1 DEF Worked
    <3>2. Contract!Claim(i)
      BY <1>1, <1>4, <2>2, <3>1 DEF Contract!Claim, Contract!Becomes, Worked
    <3>3. QED
      BY <1>1, <3>2 DEF Contract!Next
  <2>3. CASE invStatus[i] # "PENDING"
    BY <1>1, <1>4, <2>1, <2>3, Stutter
  <2>4. QED
    BY <2>2, <2>3
<1>5. QED
  BY <1>2, <1>3, <1>4, <1>1 DEF Claim, SetStatus, Becomes

\* A consumer that has claimed a row: the run's end, the reset, the result.
LEMMA HolderContract ==
    ASSUME Before, NEW c \in Consumers, RunSucceeds(c) \/ Reset(c) \/ Finish(c)
    PROVE  [Contract!Next]_(Contract!vars)
<1> USE Shapes DEF Before
<1> DEFINE i == job[c]
<1>1. pc[c] = "handle" /\ step[c] # "claim" /\ i \in Invocations /\ UNCHANGED job
  BY DEF RunSucceeds, Reset, Finish, At, routerVars, Q!ReturnNil, Q!ReturnError
<1>2. Holds(c, i) /\ invStatus[i] = "EXECUTING" /\ Worked[i]
  BY <1>1 DEF Holds, RowInv, Worked
<1>3. \A d \in Consumers : job[d] = i => d = c
  BY <1>1 DEF CopyInv, OneCopy
<1>4. CASE RunSucceeds(c)
  <2>1. /\ runs' = [runs EXCEPT ![i] = @ + 1] /\ runs[i] = 0
        /\ step[c] = "run" /\ step' = [step EXCEPT ![c] = "finish"]
        /\ UNCHANGED invStatus
    BY <1>2, <1>4 DEF RunSucceeds, At, Becomes, ClaimInv, ClaimGuards
  <2>2. \A d \in Consumers, j \in Invocations : Holds(d, j)' <=> Holds(d, j)
    BY <1>1, <2>1 DEF Holds
  <2>3. Worked' = Worked
    BY <2>2 DEF Worked
  <2>4. Contract!FinishRun(i)
    BY <1>1, <1>2, <2>1, <2>3 DEF Contract!FinishRun, Worked
  <2>5. QED
    BY <1>1, <2>4 DEF Contract!Next
<1>5. ASSUME step' = [step EXCEPT ![c] = "claim"]
      PROVE  Worked' = [Worked EXCEPT ![i] = FALSE]
  <2>1. \A d \in Consumers, j \in Invocations \ {i} : Holds(d, j)' <=> Holds(d, j)
    BY <1>1, <1>5 DEF Holds
  <2>2. (\E d \in Consumers : Holds(d, i)') = FALSE
    BY <1>1, <1>3, <1>5 DEF Holds
  <2>3. QED
    BY <1>1, <2>1, <2>2, WorkedBy
<1>6. CASE Reset(c)
  <2>1. /\ runs[i] = 0 /\ UNCHANGED runs
        /\ step' = [step EXCEPT ![c] = "claim"]
        /\ invStatus' = invStatus \/ invStatus' = [invStatus EXCEPT ![i] = "PENDING"]
    BY <1>2, <1>6
    DEF Reset, At, Becomes, SetStatusOrLog, SetStatus, ClaimInv, ClaimGuards
  <2>2. Worked' = [Worked EXCEPT ![i] = FALSE]
    BY <1>5, <2>1
  <2>3. Contract!PutBack(i)
    BY <1>2, <2>1, <2>2 DEF Contract!PutBack, Worked
  <2>4. QED
    BY <1>1, <2>3 DEF Contract!Next
<1>7. CASE Finish(c)
  <2>1. /\ runs[i] = 1 /\ UNCHANGED runs
        /\ step' = [step EXCEPT ![c] = "claim"]
        /\ invStatus' = invStatus \/ invStatus' = [invStatus EXCEPT ![i] = "DONE"]
    BY <1>2, <1>7 DEF Finish, At, Becomes, SetStatus, RowInv
  <2>2. Worked' = [Worked EXCEPT ![i] = FALSE]
    BY <1>5, <2>1
  <2>3. Contract!Complete(i)
    BY <1>2, <2>1, <2>2 DEF Contract!Complete, Worked
  <2>4. QED
    BY <1>1, <2>3 DEF Contract!Next
<1>8. QED
  BY <1>4, <1>6, <1>7

\* The poison publisher writes FAILED for a row nobody works on.
LEMMA PoisonContract ==
    ASSUME Before, NEW c \in Consumers, Poison(c)
    PROVE  [Contract!Next]_(Contract!vars)
<1> USE Shapes DEF Before
<1> DEFINE i == job[c]
<1>1. /\ pc[c] = "poison" /\ step[c] = "claim" /\ i \in Invocations
      /\ request[i] = "ok"
      /\ UNCHANGED <<job, step, runs>>
      /\ \/ UNCHANGED invStatus
         \/ vmState = "up" /\ invStatus' = [invStatus EXCEPT ![i] = "FAILED"]
  BY DEF Poison, SetStatusOrLog, SetStatus, DbOk, Q!StatusWritten, Q!Move, CopyInv, OneCopy
<1>2. \A d \in Consumers, j \in Invocations : Holds(d, j)' <=> Holds(d, j)
  BY <1>1 DEF Holds
<1>3. CASE UNCHANGED invStatus
  BY <1>1, <1>2, <1>3, Stutter
<1>4. CASE vmState = "up" /\ invStatus' = [invStatus EXCEPT ![i] = "FAILED"]
  <2>1. runs[i] = 0 /\ invStatus[i] \in {"PENDING", "EXECUTING", "FAILED"}
    BY <1>1, <1>4 DEF RowInv, HonestRow, Statuses
  <2>2. CASE invStatus[i] = "FAILED"
    BY <1>1, <1>2, <1>4, <2>2, Stutter
  <2>3. CASE invStatus[i] # "FAILED"
    <3>1. ~ Worked[i]
      BY <1>1 DEF Worked, Holds, CopyInv, OneCopy
    <3>2. Worked' = Worked
      BY <1>2 DEF Worked
    <3>3. Contract!GiveUp(i)
      BY <1>1, <1>4, <2>1, <2>3, <3>1, <3>2 DEF Contract!GiveUp, Contract!Becomes, Worked
    <3>4. QED
      BY <1>1, <3>3 DEF Contract!Next
  <2>4. QED
    BY <2>2, <2>3
<1>5. QED
  BY <1>1, <1>3, <1>4

LEMMA ContractStep == Before /\ [Next]_vars => [Contract!Next]_(Contract!vars)
<1> SUFFICES ASSUME Before, [Next]_vars
             PROVE  [Contract!Next]_(Contract!vars)
  OBVIOUS
<1> USE Shapes DEF Before
<1>1. ASSUME NEW i \in Invocations, CreateInvocation(i)
      PROVE  [Contract!Next]_(Contract!vars)
  <2>1. /\ invStatus[i] = "NOROW" /\ UNCHANGED <<runs, step, job>>
        /\ invStatus' = invStatus \/ invStatus' = [invStatus EXCEPT ![i] = "PENDING"]
    BY <1>1 DEF CreateInvocation, routerVars
  <2>2. \A d \in Consumers, j \in Invocations : Holds(d, j)' <=> Holds(d, j)
    BY <2>1 DEF Holds
  <2>3. Worked' = Worked
    BY <2>2 DEF Worked
  <2>4. CASE invStatus' = [invStatus EXCEPT ![i] = "PENDING"]
    <3>1. Contract!Create(i)
      BY <2>1, <2>3, <2>4 DEF Contract!Create, Contract!Becomes, Worked
    <3>2. QED
      BY <3>1 DEF Contract!Next
  <2>5. QED
    BY <2>1, <2>2, <2>4, Stutter
<1>2. CASE ServerNext /\ \A i \in Invocations : ~ CreateInvocation(i)
  BY <1>2, Stutter
  DEF ServerNext, LoadFunction, PublishInvocation, ServerCrash, rowVars, routerVars, Holds,
      Q!PublishLimited, Q!Enqueue, Q!routerVars
<1>3. ASSUME NEW c \in Consumers, Deliver(c) \/ Discard(c) \/ RunFails(c) \/ DeadLetter(c)
      PROVE  [Contract!Next]_(Contract!vars)
  <2>1. UNCHANGED <<invStatus, runs>>
    BY <1>3 DEF Deliver, Discard, RunFails, DeadLetter, rowVars
  <2>2. \A d \in Consumers, j \in Invocations : Holds(d, j)' <=> Holds(d, j)
    BY <1>3 DEF Deliver, Discard, RunFails, DeadLetter, Q!Deliver, Q!ReturnNil,
       Q!DeadLetterSent, Q!Move, At, Becomes, routerVars, Holds
  <2>3. QED
    BY <2>1, <2>2, Stutter
<1>4. ASSUME NEW c \in Consumers, Ack(c) \/ DeadLetterFails(c)
      PROVE  [Contract!Next]_(Contract!vars)
  <2>1. /\ pc[c] \in {"settle", "dlq"} /\ step[c] = "claim"
        /\ UNCHANGED <<invStatus, runs, step>>
        /\ UNCHANGED job \/ job' = [job EXCEPT ![c] = NoJob]
    BY <1>4 DEF Ack, DeadLetterFails, Q!Ack, Q!Nack, Q!TryAgain, Q!Move, Q!Released, rowVars
  <2>2. \A d \in Consumers, j \in Invocations : Holds(d, j)' <=> Holds(d, j)
    BY <2>1 DEF Holds
  <2>3. QED
    BY <2>1, <2>2, Stutter
<1>5. CASE Crash
  <2>1. UNCHANGED <<invStatus, runs>> /\ \A c \in Consumers : step'[c] = "claim"
    BY <1>5 DEF Crash, rowVars
  <2>2. Worked' = [i \in Invocations |-> FALSE]
    BY <2>1 DEF Worked, Holds
  <2>3. Contract!WorkersDie
    BY <2>1, <2>2 DEF Contract!WorkersDie, Worked
  <2>4. QED
    BY <2>3 DEF Contract!Next
<1>6. CASE \/ \E f \in Functions : FunctionBuilt(f)
           \/ Sigterm \/ Exit \/ Start \/ UNCHANGED vars
  BY <1>6, Stutter DEF FunctionBuilt, Sigterm, Exit, Start, vars, rowVars, routerVars, Holds
<1>7. ASSUME NEW c \in Consumers
      PROVE  ~ ConnectionLost(c)
  <2>1. budget["loss"] = 0
    BY DEF Healthy
  <2>2. QED
    BY <2>1 DEF ConnectionLost, Spend
<1>8. QED
  BY <1>1, <1>2, <1>3, <1>4, <1>5, <1>6, <1>7, ClaimContract, HolderContract, PoisonContract
  DEF Next, ConsumerStep, ServerNext

(***************************************************************************)
(* While connections hold, servers, consumers and faults do to the rows    *)
(* what a client may rely on: one worker at a time, put back any number of *)
(* times, and then DONE after one finished run or FAILED after none        *)
(* (execute.go:42, exec.go:24-50, handler.go:113).                         *)
(***************************************************************************)
THEOREM RowsKeepTheContract == Spec /\ Healthy => ImplementsContract
<1>1. Init => Contract!Init
  <2> SUFFICES ASSUME Init
               PROVE  Contract!Init
    OBVIOUS
  <2>1. \A i \in Invocations, c \in Consumers : ~ Holds(c, i)
    BY DEF Init, Holds
  <2>2. QED
    BY <2>1 DEF Init, Contract!Init
<1>2. QED
  BY <1>1, RowInvariant, ContractStep, PTL DEF Spec, ImplementsContract, Contract!Spec
=============================================================================
