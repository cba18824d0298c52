-------------------------- MODULE ExecutionProofs --------------------------
(***************************************************************************)
(* Proofs about Execution, for any sets of invocations, functions and      *)
(* consumers, any payload sizes, any limits and any fault budgets.         *)
(***************************************************************************)
EXTENDS Execution, FoldLemmas

(***************************************************************************)
(* The queue counts of a broker that takes back the deliveries of a dead   *)
(* process stay natural numbers, because a service has finitely many       *)
(* consumers.                                                              *)
(***************************************************************************)
LEMMA TakenBackIsFinite ==
    ASSUME NEW i
    PROVE  Q!Cardinality({c \in Consumers : owned[c] /\ job[c] = i}) \in Nat
<1>1. IsFiniteSet({c \in Consumers : owned[c] /\ job[c] = i})
  BY ExecutionAssumption, FS_Subset DEF ExecutionAssumption
<1>2. Q!Cardinality({c \in Consumers : owned[c] /\ job[c] = i})
        = Cardinality({c \in Consumers : owned[c] /\ job[c] = i})
  BY DEF Q!Cardinality, Cardinality
<1>3. QED
  BY <1>1, <1>2, FS_CardinalityType

\* The initial state has the right shape.
LEMMA InitTypeOK == Init => TypeOK
BY ExecutionAssumption, BudgetsAssumption
DEF ExecutionAssumption, BudgetsAssumption, Init, TypeOK, PlatformInit,
    PlatformTypeOK, VmStates, Q!Init, Q!TypeOK, Q!Stages, Statuses,
    RequestStages, Steps

\* Spending a fault leaves a budget.
LEMMA SpendType ==
    ASSUME PlatformTypeOK, NEW k \in FaultKinds, Spend(k)
    PROVE  budget' \in [FaultKinds -> Nat]
BY DEF PlatformTypeOK, Spend

\* What a server's step leaves of the shapes.
LEMMA ServerTypeOK ==
    ASSUME TypeOK, ServerNext
    PROVE  TypeOK'
<1> USE SpendType DEF TypeOK, PlatformTypeOK, FaultKinds, Respond, RequestStages,
        routerVars, rowVars, platformVars, serverVars
<1>1. ASSUME NEW i \in Invocations, NEW s \in PayloadSizes, LoadFunction(i, s)
      PROVE  TypeOK'
  <2>1. s.quoted \in Nat
    BY ExecutionAssumption DEF ExecutionAssumption
  <2>2. budget' \in [FaultKinds -> Nat]
    BY <1>1 DEF LoadFunction
  <2>3. request' \in [Invocations -> RequestStages]
    BY <1>1 DEF LoadFunction
  <2>4. /\ size' \in [Invocations -> Nat]
        /\ loadedDrive' \in [Invocations -> BOOLEAN]
    BY <1>1, <2>1 DEF LoadFunction
  <2>5. UNCHANGED <<vmState, drive, rowVars, step, routerVars>>
    BY <1>1 DEF LoadFunction
  <2>6. Q!TypeOK'
    BY <2>5 DEF Q!TypeOK
  <2>7. QED
    BY <2>2, <2>3, <2>4, <2>5, <2>6
<1>2. ASSUME NEW i \in Invocations, CreateInvocation(i)
      PROVE  TypeOK'
  <2>1. budget' \in [FaultKinds -> Nat]
    BY <1>2 DEF CreateInvocation
  <2>2. request' \in [Invocations -> RequestStages]
    BY <1>2 DEF CreateInvocation
  <2>3. invStatus' \in [Invocations -> Statuses]
    BY <1>2 DEF CreateInvocation, Statuses
  <2>4. UNCHANGED <<vmState, drive, loadedDrive, size, logged, runs, step, routerVars>>
    BY <1>2 DEF CreateInvocation
  <2>5. Q!TypeOK'
    BY <2>4 DEF Q!TypeOK
  <2>6. QED
    BY <2>1, <2>2, <2>3, <2>4, <2>5
<1>3. ASSUME NEW i \in Invocations, PublishInvocation(i)
      PROVE  TypeOK'
  <2>1. budget' \in [FaultKinds -> Nat]
    BY <1>3 DEF PublishInvocation
  <2>2. request' \in [Invocations -> RequestStages]
    BY <1>3 DEF PublishInvocation
  <2>3. Q!TypeOK'
    BY <1>3 DEF PublishInvocation, Q!TypeOK, Q!PublishLimited, Q!Enqueue, Q!routerVars
  <2>4. UNCHANGED <<vmState, drive, loadedDrive, size, rowVars, step, pc>>
    BY <1>3 DEF PublishInvocation, Q!PublishLimited, Q!Enqueue, Q!routerVars
  <2>5. QED
    BY <2>1, <2>2, <2>3, <2>4
<1>4. ASSUME ServerCrash
      PROVE  TypeOK'
  <2>1. budget' \in [FaultKinds -> Nat]
    BY <1>4 DEF ServerCrash
  <2>2. request' \in [Invocations -> RequestStages]
    BY <1>4 DEF ServerCrash
  <2>3. UNCHANGED <<vmState, drive, loadedDrive, size, rowVars, step, routerVars>>
    BY <1>4 DEF ServerCrash
  <2>4. Q!TypeOK'
    BY <2>3 DEF Q!TypeOK
  <2>5. QED
    BY <2>1, <2>2, <2>3, <2>4
<1>5. QED
  BY <1>1, <1>2, <1>3, <1>4 DEF ServerNext

\* A statement of the VM service, whatever its outcome, costs at most a fault.
LEMMA StatementType ==
    ASSUME PlatformTypeOK, DbOk \/ DbRefused \/ DbReplyLost
    PROVE  budget' \in [FaultKinds -> Nat]
BY SpendType DEF PlatformTypeOK, DbOk, DbRefused, DbReplyLost, FaultKinds

\* What a step of the router leaves of the shape of the router, and which of
\* its variables the rest of the state is typed by.
LEMMA RouterTypeOK ==
    ASSUME TypeOK, NEW c \in Consumers
    PROVE  /\ Q!ReturnNil(c) \/ Q!ReturnError(c) \/ Q!StatusWritten(c) => Q!TypeOK'
           /\ \A i \in Invocations : Q!Deliver(c, i) => Q!TypeOK'
           /\ Q!DeadLetterSent(c) => Q!TypeOK'
           /\ Q!MayRetry(c, vmState = "up") /\ Q!TryAgain(c) => Q!TypeOK'
           /\ Q!Nack(c) \/ Q!Ack(c) \/ Q!ConnectionLost(c) => Q!TypeOK'
<1> USE ExecutionAssumption DEF ExecutionAssumption, TypeOK, Q!TypeOK, Q!Stages, Q!Move
<1>1. Q!ReturnNil(c) \/ Q!ReturnError(c) \/ Q!StatusWritten(c) => Q!TypeOK'
  BY DEF Q!ReturnNil, Q!ReturnError, Q!StatusWritten
<1>2. \A i \in Invocations : Q!Deliver(c, i) => Q!TypeOK'
  BY DEF Q!Deliver
<1>3. Q!DeadLetterSent(c) => Q!TypeOK'
  BY DEF Q!DeadLetterSent
<1>4. Q!MayRetry(c, vmState = "up") /\ Q!TryAgain(c) => Q!TypeOK'
  BY DEF Q!MayRetry, Q!TryAgain
<1>5. Q!Nack(c) \/ Q!Ack(c) => Q!TypeOK'
  <2>1. Q!Returned(c) \in Nat
    BY DEF Q!Returned
  <2>2. Q!Nack(c) => queue' \in [Invocations -> Nat]
    BY <2>1 DEF Q!Nack
  <2>3. Q!Ack(c) => queue' \in [Invocations -> Nat]
    BY DEF Q!Ack
  <2>4. Q!Nack(c) \/ Q!Ack(c) => Q!Released(c) /\ pc' = [pc EXCEPT ![c] = "idle"]
    BY DEF Q!Nack, Q!Ack
  <2>5. ASSUME Q!Released(c), pc' = [pc EXCEPT ![c] = "idle"]
        PROVE  /\ pc' \in [Consumers -> Q!Stages]
               /\ job' \in [Consumers -> Invocations \cup {NoJob}]
               /\ \A d \in Consumers : (pc'[d] = "idle") <=> (job'[d] = NoJob)
               /\ owned' \in [Consumers -> BOOLEAN]
               /\ \A d \in Consumers : owned'[d] => job'[d] \in Invocations
               /\ tries' \in [Consumers -> 0 .. MaxRetries]
    BY <2>5 DEF Q!Released
  <2>6. QED
    BY <2>2, <2>3, <2>4, <2>5
<1>6. Q!ConnectionLost(c) => Q!TypeOK'
  BY DEF Q!ConnectionLost
<1>7. QED
  BY <1>1, <1>2, <1>3, <1>4, <1>5, <1>6

\* A consumer's step, whichever it is, keeps the shapes.
LEMMA ConsumerTypeOK ==
    ASSUME TypeOK, NEW c \in Consumers,
           Deliver(c) \/ ConsumerStep(c) \/ ConnectionLost(c)
    PROVE  TypeOK'
<1> USE RouterTypeOK DEF platformVars, serverVars, rowVars
<1> DEFINE Unserved == UNCHANGED <<vmState, serverVars>>
           Rows == /\ invStatus' \in [Invocations -> Statuses]
                   /\ logged' \in [Invocations -> BOOLEAN]
                   /\ runs' \in [Invocations -> Nat]
           StepOK == /\ step' \in [Consumers -> Steps]
                     /\ \A d \in Consumers : pc'[d] # "handle" => step'[d] = "claim"
           BudgetOK == budget' \in [FaultKinds -> Nat]
<1>1. SUFFICES Unserved /\ Rows /\ StepOK /\ BudgetOK /\ Q!TypeOK'
  BY DEF TypeOK, PlatformTypeOK
<1>2. /\ PlatformTypeOK
      /\ \A d \in Consumers : pc[d] # "handle" => step[d] = "claim"
      /\ step \in [Consumers -> Steps]
      /\ pc \in [Consumers -> Q!Stages]
      /\ invStatus \in [Invocations -> Statuses]
      /\ logged \in [Invocations -> BOOLEAN]
      /\ runs \in [Invocations -> Nat]
      /\ job \in [Consumers -> Invocations \cup {NoJob}]
  BY DEF TypeOK, Q!TypeOK
<1> USE <1>2
<1>3. ASSUME Deliver(c)
      PROVE  Unserved /\ Rows /\ StepOK /\ BudgetOK /\ Q!TypeOK'
  <2>1. PICK i \in Invocations : Q!Deliver(c, i)
    BY <1>3 DEF Deliver
  <2>2. Q!TypeOK' /\ pc' = [pc EXCEPT ![c] = "handle"]
    BY <2>1 DEF Q!Deliver, Q!Move
  <2>3. UNCHANGED <<platformVars, serverVars, rowVars, step>>
    BY <1>3 DEF Deliver
  <2>4. QED
    BY <2>2, <2>3 DEF PlatformTypeOK
<1>4. ASSUME Discard(c)
      PROVE  Unserved /\ Rows /\ StepOK /\ BudgetOK /\ Q!TypeOK'
  BY <1>4 DEF Discard, At, Q!ReturnNil, Q!Move, PlatformTypeOK
<1>5. ASSUME Claim(c)
      PROVE  Unserved /\ Rows /\ StepOK /\ BudgetOK /\ Q!TypeOK'
  <2>1. BudgetOK
    BY <1>5, StatementType DEF Claim
  <2>2. Unserved /\ UNCHANGED <<logged, runs>>
    BY <1>5 DEF Claim
  <2>3. invStatus' \in [Invocations -> Statuses]
    BY <1>5 DEF Claim, SetStatus, Statuses
  <2>4. StepOK
    BY <1>5 DEF Claim, At, Becomes, Steps, routerVars, Q!ReturnNil, Q!ReturnError, Q!Move
  <2>5. Q!TypeOK'
    <3>1. CASE UNCHANGED routerVars
      BY <3>1 DEF routerVars, TypeOK, Q!TypeOK
    <3>2. CASE Q!ReturnNil(c) \/ Q!ReturnError(c)
      BY <3>2
    <3>3. QED
      BY <1>5, <3>1, <3>2 DEF Claim
  <2>6. QED
    BY <2>1, <2>2, <2>3, <2>4, <2>5
<1>6. ASSUME RunSucceeds(c) \/ RunFails(c)
      PROVE  Unserved /\ Rows /\ StepOK /\ BudgetOK /\ Q!TypeOK'
  <2>1. Q!TypeOK'
    BY <1>6 DEF RunSucceeds, RunFails, routerVars, TypeOK, Q!TypeOK
  <2>2. StepOK
    BY <1>6 DEF RunSucceeds, RunFails, At, Becomes, Steps, routerVars
  <2>3. Unserved /\ BudgetOK /\ Rows
    BY <1>6 DEF RunSucceeds, RunFails, PlatformTypeOK
  <2>4. QED
    BY <2>1, <2>2, <2>3
<1>7. ASSUME Reset(c) \/ Finish(c)
      PROVE  Unserved /\ Rows /\ StepOK /\ BudgetOK /\ Q!TypeOK'
  <2>1. BudgetOK
    BY <1>7, StatementType DEF Reset, Finish, SetStatusOrLog
  <2>2. Unserved /\ UNCHANGED runs
    BY <1>7 DEF Reset, Finish
  <2>3. /\ invStatus' \in [Invocations -> Statuses]
        /\ logged' \in [Invocations -> BOOLEAN]
    BY <1>7 DEF Reset, Finish, SetStatusOrLog, SetStatus, Statuses
  <2>4. StepOK
    BY <1>7 DEF Reset, Finish, At, Becomes, Steps, Q!ReturnNil, Q!ReturnError, Q!Move
  <2>5. Q!TypeOK'
    BY <1>7 DEF Reset, Finish
  <2>6. QED
    BY <2>1, <2>2, <2>3, <2>4, <2>5
<1>8. ASSUME Poison(c)
      PROVE  Unserved /\ Rows /\ StepOK /\ BudgetOK /\ Q!TypeOK'
  <2>1. BudgetOK
    BY <1>8, StatementType DEF Poison, SetStatusOrLog
  <2>2. Rows
    BY <1>8 DEF Poison, SetStatusOrLog, SetStatus, Statuses
  <2>3. Unserved /\ StepOK /\ Q!TypeOK'
    BY <1>8 DEF Poison, Q!StatusWritten, Q!Move
  <2>4. QED
    BY <2>1, <2>2, <2>3
<1>9. ASSUME DeadLetter(c) \/ Ack(c)
      PROVE  Unserved /\ Rows /\ StepOK /\ BudgetOK /\ Q!TypeOK'
  BY <1>9 DEF DeadLetter, Ack, Q!DeadLetterSent, Q!Ack, Q!Move, PlatformTypeOK
<1>10. ASSUME DeadLetterFails(c)
       PROVE  Unserved /\ Rows /\ StepOK /\ BudgetOK /\ Q!TypeOK'
  <2>1. BudgetOK
    BY <1>10, SpendType DEF DeadLetterFails, FaultKinds
  <2>2. Q!TypeOK'
    BY <1>10 DEF DeadLetterFails
  <2>3. Unserved /\ Rows /\ StepOK
    BY <1>10 DEF DeadLetterFails, Q!TryAgain, Q!Nack, Q!Move
  <2>4. QED
    BY <2>1, <2>2, <2>3
<1>11. ASSUME ConnectionLost(c)
       PROVE  Unserved /\ Rows /\ StepOK /\ BudgetOK /\ Q!TypeOK'
  BY <1>11, SpendType DEF ConnectionLost, Q!ConnectionLost, FaultKinds
<1>12. QED
  BY <1>3, <1>4, <1>5, <1>6, <1>7, <1>8, <1>9, <1>10, <1>11 DEF ConsumerStep

\* Starting, stopping and killing the service keeps the shapes.
LEMMA LifeTypeOK ==
    ASSUME TypeOK, Sigterm \/ Exit \/ Crash \/ Start
    PROVE  TypeOK'
<1> USE DEF platformVars, serverVars, rowVars, routerVars
<1>1. PlatformTypeOK'
  BY SpendType DEF TypeOK, PlatformTypeOK, VmStates, FaultKinds, Sigterm, Exit, Crash,
     Start, CancelContext, ProcessExits, ProcessCrashes, ProcessStarts
<1>2. CASE Sigterm \/ Exit \/ Start
  BY <1>1, <1>2 DEF TypeOK, Q!TypeOK, Sigterm, Exit, Start
<1>3. CASE Crash
  <2>1. Q!Die /\ step' = [c \in Consumers |-> "claim"]
    BY <1>3 DEF Crash
  <2>2. queue' \in [Invocations -> Nat]
    <3> DEFINE back(i) == Q!Cardinality({c \in Consumers : owned[c] /\ job[c] = i})
    <3>1. queue' = [i \in Invocations |-> queue[i] + back(i)]
      BY <2>1 DEF Q!Die
    <3>2. \A i \in Invocations : back(i) \in Nat
      BY TakenBackIsFinite
    <3>3. queue \in [Invocations -> Nat]
      BY DEF TypeOK, Q!TypeOK
    <3> HIDE DEF back
    <3>4. QED
      BY <3>1, <3>2, <3>3
  <2>3. Q!TypeOK'
    BY <2>1, <2>2, ExecutionAssumption DEF ExecutionAssumption, Q!Die, TypeOK, Q!TypeOK, Q!Stages
  <2>4. step' \in [Consumers -> Steps] /\ \A c \in Consumers : step'[c] = "claim"
    BY <2>1 DEF Steps
  <2>5. UNCHANGED <<serverVars, rowVars>>
    BY <1>3 DEF Crash
  <2>6. QED
    BY <1>1, <2>3, <2>4, <2>5 DEF TypeOK
<1>4. QED
  BY <1>2, <1>3

LEMMA StepTypeOK == TypeOK /\ [Next]_vars => TypeOK'
<1> SUFFICES ASSUME TypeOK, [Next]_vars
             PROVE  TypeOK'
  OBVIOUS
<1>1. ASSUME NEW f \in Functions, FunctionBuilt(f)
      PROVE  TypeOK'
  BY <1>1 DEF FunctionBuilt, TypeOK, PlatformTypeOK, Q!TypeOK, platformVars, rowVars, routerVars
<1>2. CASE UNCHANGED vars
  BY <1>2 DEF vars, TypeOK, PlatformTypeOK, Q!TypeOK, platformVars, serverVars, rowVars, routerVars
<1>3. QED
  BY <1>1, <1>2, ServerTypeOK, ConsumerTypeOK, LifeTypeOK DEF Next

(***************************************************************************)
(* Execution keeps its types: no row, request, message count or fault      *)
(* budget ever takes a value the code has no name for.                     *)
(***************************************************************************)
THEOREM TypeCorrect == Spec => []TypeOK
BY InitTypeOK, StepTypeOK, PTL DEF Spec

-----------------------------------------------------------------------------
(***************************************************************************)
(* The claim.  SingleRunner alone is not inductive: a reset or a claim     *)
(* keeps it only if no held row can be claimed, which ClaimGuards adds,    *)
(* and CompletesOnce needs the part of ClaimGuards about finished runs.    *)
(***************************************************************************)
ClaimInv == SingleRunner /\ ClaimGuards /\ CompletesOnce

LEMMA InitClaimInv == Init => ClaimInv
BY DEF Init, ClaimInv, SingleRunner, ClaimGuards, CompletesOnce, Holds

\* A step in which consumers keep or lose what they hold, no finished run is
\* added, and no held or finished row becomes claimable, keeps the invariant.
LEMMA ClaimKept ==
    ASSUME TypeOK, ClaimInv, UNCHANGED runs,
           \A d \in Consumers, i \in Invocations :
               Holds(d, i)' => Holds(d, i) /\ step'[d] = step[d],
           \A i \in Invocations :
               /\ invStatus'[i] \in {"NOROW", "PENDING"}
               /\ invStatus[i] \notin {"NOROW", "PENDING"}
               => runs[i] = 0 /\ \A d \in Consumers : ~ Holds(d, i)'
    PROVE  ClaimInv'
<1>1. SingleRunner'
  BY DEF ClaimInv, SingleRunner
<1>2. CompletesOnce'
  BY DEF ClaimInv, CompletesOnce
<1>3. ASSUME NEW i \in Invocations
      PROVE  /\ (\E d \in Consumers : Holds(d, i)')
                  => invStatus'[i] \notin {"NOROW", "PENDING"}
             /\ runs'[i] > 0 => invStatus'[i] \notin {"NOROW", "PENDING"}
             /\ runs'[i] > 0 =>
                  \A d \in Consumers : Holds(d, i)' => step'[d] = "finish"
  <2>1. runs[i] > 0 => runs[i] # 0
    OBVIOUS
  <2>2. QED
    BY <1>3, <2>1 DEF ClaimInv, ClaimGuards
<1>4. ClaimGuards'
  BY <1>3 DEF ClaimGuards
<1>5. QED
  BY <1>1, <1>2, <1>4 DEF ClaimInv

LEMMA ClaimStep == TypeOK /\ ClaimInv /\ [Next]_vars => ClaimInv'
<1> SUFFICES ASSUME TypeOK, ClaimInv, [Next]_vars
             PROVE  ClaimInv'
  OBVIOUS
<1>1. /\ step \in [Consumers -> Steps]
      /\ job \in [Consumers -> Invocations \cup {NoJob}]
      /\ invStatus \in [Invocations -> Statuses]
      /\ runs \in [Invocations -> Nat]
      /\ NoJob \notin Invocations
      /\ \A d \in Consumers : pc[d] # "handle" => step[d] = "claim"
  BY ExecutionAssumption DEF ExecutionAssumption, TypeOK, Q!TypeOK
<1>2. ASSUME UNCHANGED <<invStatus, runs, step, job>>
      PROVE  ClaimInv'
  BY <1>2 DEF ClaimInv, SingleRunner, ClaimGuards, CompletesOnce, Holds
<1>3. ASSUME NEW i \in Invocations, CreateInvocation(i)
      PROVE  ClaimInv'
  <2>1. /\ invStatus[i] = "NOROW"
        /\ \/ invStatus' = invStatus
           \/ invStatus' = [invStatus EXCEPT ![i] = "PENDING"]
    BY <1>3 DEF CreateInvocation
  <2>2. UNCHANGED <<runs, step, job>>
    BY <1>3 DEF CreateInvocation, routerVars
  <2>3. QED
    BY <1>1, <2>1, <2>2, ClaimKept DEF Holds
<1>4. ASSUME NEW c \in Consumers, Deliver(c)
      PROVE  ClaimInv'
  <2>1. PICK i \in Invocations : Q!Deliver(c, i)
    BY <1>4 DEF Deliver
  <2>2. pc[c] = "idle" /\ job' = [job EXCEPT ![c] = i]
    BY <2>1 DEF Q!Deliver, Q!Move
  <2>3. UNCHANGED <<invStatus, runs, step>>
    BY <1>4 DEF Deliver, rowVars
  <2>4. step[c] = "claim"
    BY <1>1, <2>2
  <2>5. QED
    BY <1>1, <2>2, <2>3, <2>4, ClaimKept DEF Holds
<1>5. ASSUME NEW c \in Consumers, Claim(c)
      PROVE  ClaimInv'
  <2>1. UNCHANGED <<runs, job>>
    BY <1>5 DEF Claim, routerVars, Q!ReturnNil, Q!ReturnError
  <2>2. job[c] \in Invocations /\ step[c] = "claim"
    BY <1>1, <1>5 DEF Claim, At, TypeOK, Q!TypeOK
  <2>3. CASE UNCHANGED <<invStatus, step>>
    BY <1>2, <2>1, <2>3
  <2>4. CASE /\ invStatus[job[c]] = "PENDING"
             /\ invStatus' = [invStatus EXCEPT ![job[c]] = "EXECUTING"]
             /\ step' = [step EXCEPT ![c] = "run"]
    <3>1. /\ runs[job[c]] = 0
          /\ \A d \in Consumers : ~ Holds(d, job[c])
      BY <1>1, <2>2, <2>4 DEF ClaimInv, ClaimGuards
    <3>2. SingleRunner'
      BY <1>1, <2>1, <2>2, <2>4, <3>1 DEF ClaimInv, SingleRunner, Holds
    <3>3. ClaimGuards'
      BY <1>1, <2>1, <2>2, <2>4, <3>1 DEF ClaimInv, ClaimGuards, Holds
    <3>4. CompletesOnce'
      BY <2>1 DEF ClaimInv, CompletesOnce
    <3>5. QED
      BY <3>2, <3>3, <3>4 DEF ClaimInv
  <2>5. CASE /\ UNCHANGED step
             /\ invStatus' = [invStatus EXCEPT ![job[c]] =
                  IF invStatus[job[c]] = "PENDING" THEN "EXECUTING" ELSE invStatus[job[c]]]
    BY <1>1, <2>1, <2>2, <2>5, ClaimKept DEF Holds
  <2>6. QED
    BY <1>5, <2>3, <2>4, <2>5 DEF Claim, SetStatus, Becomes
<1>6. ASSUME NEW c \in Consumers, RunSucceeds(c)
      PROVE  ClaimInv'
  <2>1. /\ step[c] = "run" /\ pc[c] = "handle"
        /\ runs' = [runs EXCEPT ![job[c]] = @ + 1]
        /\ step' = [step EXCEPT ![c] = "finish"]
        /\ UNCHANGED <<invStatus, job>>
    BY <1>6 DEF RunSucceeds, At, Becomes, routerVars
  <2>2. job[c] \in Invocations
    BY <1>1, <2>1 DEF TypeOK, Q!TypeOK
  <2>3. Holds(c, job[c])
    BY <2>1 DEF Holds
  <2>4. /\ invStatus[job[c]] \notin {"NOROW", "PENDING"}
        /\ runs[job[c]] = 0
    BY <1>1, <2>1, <2>2, <2>3 DEF ClaimInv, ClaimGuards
  <2>5. \A d \in Consumers, i \in Invocations : Holds(d, i)' <=> Holds(d, i)
    BY <1>1, <2>1 DEF Holds
  <2>6. SingleRunner'
    BY <2>5 DEF ClaimInv, SingleRunner
  <2>7. CompletesOnce'
    BY <1>1, <2>1, <2>2, <2>4 DEF ClaimInv, CompletesOnce
  <2>8. \A d \in Consumers : Holds(d, job[c]) => d = c
    BY <2>2, <2>3 DEF ClaimInv, SingleRunner
  <2>9. ClaimGuards'
    <3>1. ASSUME NEW i \in Invocations, i # job[c]
          PROVE  /\ runs'[i] = runs[i]
                 /\ \A d \in Consumers : Holds(d, i) => step'[d] = step[d]
      BY <1>1, <2>1, <2>2, <3>1 DEF Holds
    <3>2. step'[c] = "finish"
      BY <1>1, <2>1
    <3>3. QED
      BY <2>1, <2>4, <2>5, <2>8, <3>1, <3>2 DEF ClaimInv, ClaimGuards
  <2>10. QED
    BY <2>6, <2>7, <2>9 DEF ClaimInv
<1>7. ASSUME NEW c \in Consumers, RunFails(c)
      PROVE  ClaimInv'
  <2>1. /\ step[c] = "run" /\ pc[c] = "handle"
        /\ step' = [step EXCEPT ![c] = "reset"]
        /\ UNCHANGED <<invStatus, runs, job>>
    BY <1>7 DEF RunFails, At, Becomes, routerVars, rowVars
  <2>2. \A d \in Consumers, i \in Invocations : Holds(d, i)' <=> Holds(d, i)
    BY <1>1, <2>1 DEF Holds
  <2>3. SingleRunner' /\ CompletesOnce'
    BY <2>1, <2>2 DEF ClaimInv, SingleRunner, CompletesOnce
  <2>4. ClaimGuards'
    BY <1>1, <2>1, <2>2 DEF ClaimInv, ClaimGuards, Holds
  <2>5. QED
    BY <2>3, <2>4 DEF ClaimInv
<1>8. ASSUME NEW c \in Consumers, Reset(c)
      PROVE  ClaimInv'
  <2>1. /\ step[c] = "reset" /\ pc[c] = "handle"
        /\ step' = [step EXCEPT ![c] = "claim"]
        /\ UNCHANGED <<runs, job>>
        /\ \/ invStatus' = invStatus
           \/ invStatus' = [invStatus EXCEPT ![job[c]] = "PENDING"]
    BY <1>8 DEF Reset, At, Becomes, SetStatusOrLog, SetStatus, Q!ReturnError
  <2>2. job[c] \in Invocations
    BY <1>1, <2>1 DEF TypeOK, Q!TypeOK
  <2>3. Holds(c, job[c])
    BY <2>1 DEF Holds
  <2>4. runs[job[c]] = 0
    BY <1>1, <2>1, <2>2, <2>3 DEF ClaimInv, ClaimGuards
  <2>5. \A d \in Consumers : Holds(d, job[c]) => d = c
    BY <2>2, <2>3 DEF ClaimInv, SingleRunner
  <2>6. \A d \in Consumers, i \in Invocations :
          Holds(d, i)' => d # c /\ Holds(d, i) /\ step'[d] = step[d]
    BY <1>1, <2>1 DEF Holds
  <2>7. \A i \in Invocations : i # job[c] => invStatus'[i] = invStatus[i]
    BY <1>1, <2>1
  <2>8. UNCHANGED runs
    BY <2>1
  <2>9. QED
    BY <2>2, <2>4, <2>5, <2>6, <2>7, <2>8, ClaimKept
<1>9. ASSUME NEW c \in Consumers, Finish(c)
      PROVE  ClaimInv'
  <2>1. /\ step' = [step EXCEPT ![c] = "claim"]
        /\ UNCHANGED <<runs, job>>
        /\ \/ invStatus' = invStatus
           \/ invStatus' = [invStatus EXCEPT ![job[c]] = "DONE"]
    BY <1>9 DEF Finish, Becomes, SetStatus, Q!ReturnNil
  <2>2. \A d \in Consumers, i \in Invocations :
          Holds(d, i)' => Holds(d, i) /\ step'[d] = step[d]
    BY <1>1, <2>1 DEF Holds
  <2>3. QED
    BY <1>1, <2>1, <2>2, ClaimKept
<1>10. ASSUME NEW c \in Consumers, Poison(c)
       PROVE  ClaimInv'
  <2>1. /\ UNCHANGED <<runs, step, job>>
        /\ \/ invStatus' = invStatus
           \/ invStatus' = [invStatus EXCEPT ![job[c]] = "FAILED"]
    BY <1>10 DEF Poison, SetStatusOrLog, SetStatus, Q!StatusWritten
  <2>2. QED
    BY <1>1, <2>1, ClaimKept DEF Holds
<1>11. ASSUME NEW c \in Consumers, Ack(c) \/ DeadLetterFails(c)
       PROVE  ClaimInv'
  <2>1. UNCHANGED <<invStatus, runs, step>>
    BY <1>11 DEF Ack, DeadLetterFails, rowVars
  <2>2. job' = [job EXCEPT ![c] = NoJob] \/ UNCHANGED job
    BY <1>11 DEF Ack, DeadLetterFails, Q!Ack, Q!Nack, Q!Released, Q!TryAgain
  <2>3. QED
    BY <1>1, <2>1, <2>2, ClaimKept DEF Holds
<1>12. CASE Crash
  <2>1. /\ UNCHANGED <<invStatus, runs>>
        /\ step' = [d \in Consumers |-> "claim"]
    BY <1>12 DEF Crash, rowVars
  <2>2. QED
    BY <1>1, <2>1, ClaimKept DEF Holds
<1>13. ASSUME \/ \E f \in Functions : FunctionBuilt(f)
              \/ \E i \in Invocations, s \in PayloadSizes : LoadFunction(i, s)
              \/ \E i \in Invocations : PublishInvocation(i)
              \/ ServerCrash
              \/ \E c \in Consumers : Discard(c) \/ DeadLetter(c) \/ ConnectionLost(c)
              \/ Sigterm \/ Exit \/ Start
              \/ UNCHANGED vars
       PROVE  UNCHANGED <<invStatus, runs, step, job>>
  BY <1>13 DEF FunctionBuilt, LoadFunction, PublishInvocation, ServerCrash, Discard,
     DeadLetter, ConnectionLost, Sigterm, Exit, Start, vars, rowVars, routerVars,
     Q!PublishLimited, Q!Enqueue, Q!routerVars, Q!ReturnNil, Q!DeadLetterSent, Q!ConnectionLost
<1>14. QED
  BY <1>2, <1>3, <1>4, <1>5, <1>6, <1>7, <1>8, <1>9, <1>10, <1>11, <1>12, <1>13
  DEF Next, ServerNext, ConsumerStep

\* The invariant and the types together are inductive.
LEMMA ClaimInvariant == Spec => [](TypeOK /\ ClaimInv)
<1>1. Init => TypeOK /\ ClaimInv
  BY InitTypeOK, InitClaimInv
<1>2. TypeOK /\ ClaimInv /\ [Next]_vars => (TypeOK /\ ClaimInv)'
  BY StepTypeOK, ClaimStep
<1>3. QED
  BY <1>1, <1>2, PTL DEF Spec

(***************************************************************************)
(* Two microVMs never work for one invocation at a time, for any number of *)
(* consumers and any mix of redeliveries, failing statements, crashes and  *)
(* restarts (exec.go:24).                                                  *)
(***************************************************************************)
THEOREM OneRunnerAtATime == Spec => []SingleRunner
BY ClaimInvariant, PTL DEF ClaimInv

(***************************************************************************)
(* A finished run is the last one of its invocation (exec.go:24, :41).     *)
(***************************************************************************)
THEOREM FinishedRunIsLast == Spec => []CompletesOnce
BY ClaimInvariant, PTL DEF ClaimInv

(***************************************************************************)
(* No held and no finished invocation can be claimed (exec.go:24-50).      *)
(***************************************************************************)
THEOREM HeldIsNotClaimable == Spec => []ClaimGuards
BY ClaimInvariant, PTL DEF ClaimInv

-----------------------------------------------------------------------------
(***************************************************************************)
(* Who attends to an accepted invocation, as long as nothing fails but     *)
(* publishes and the connections of consumers.                             *)
(***************************************************************************)

\* The faults of the broker's side are the only ones in the budget.
OnlyBroker ==
    \A b \in Budgets : \A k \in FaultKinds \ {"amqp", "loss"} : b[k] = 0

\* No payload the server accepts is refused by decodePayload.
Quoted == {s.quoted : s \in PayloadSizes}
PayloadsFit == \A n \in Quoted \cup {0} : ~ (n + Envelope > maxPayloadBytes)

\* No message is published to a queue that is at its limit.
QueueHasRoom ==
    [][\A i \in Invocations :
         PublishInvocation(i) => ~ (Q!SumFunction(queue) >= MaxLength)]_vars

\* The service is up and stays up, and no statement fails.
Calm ==
    /\ vmState = "up"
    /\ \A k \in FaultKinds \ {"amqp", "loss"} : budget[k] = 0

\* A row is nobody's but the server's until its message has been published.
RequestInv ==
    \A i \in Invocations :
        /\ request[i] \in {"idle", "loaded"} => invStatus[i] = "NOROW"
        /\ request[i] = "created" => invStatus[i] = "PENDING"
        /\ size[i] \in Quoted \cup {0}
        /\ queue[i] > 0 => request[i] = "ok"
        /\ \A c \in Consumers : job[c] = i => request[i] = "ok"

AttendInv == Calm /\ RequestInv /\ Attended

LEMMA InitAttendInv == OnlyBroker /\ Init => AttendInv
<1> SUFFICES ASSUME OnlyBroker, Init
             PROVE  AttendInv
  OBVIOUS
<1>1. Calm
  BY DEF OnlyBroker, Init, PlatformInit, Calm
<1>2. RequestInv
  BY ExecutionAssumption DEF ExecutionAssumption, Init, RequestInv, Q!Init
<1>3. Attended
  BY DEF Init, Attended
<1>4. QED
  BY <1>1, <1>2, <1>3 DEF AttendInv

\* In the calm a statement of the service succeeds, and nothing else than a
\* publish or a connection fails.
LEMMA CalmFaults ==
    ASSUME Calm
    PROVE  /\ \A k \in FaultKinds \ {"amqp", "loss"} : ~ Spend(k)
           /\ ~ DbRefused
           /\ ~ DbReplyLost
BY DEF Calm, Spend, DbRefused, DbReplyLost, FaultKinds

LEMMA CalmStep == TypeOK /\ Calm /\ [Next]_vars => Calm'
<1> SUFFICES ASSUME TypeOK, Calm, [Next]_vars
             PROVE  Calm'
  OBVIOUS
<1> USE DEF platformVars
<1>1. SUFFICES /\ UNCHANGED vmState
               /\ UNCHANGED budget \/ Spend("amqp") \/ Spend("loss")
  BY <1>1 DEF Calm, TypeOK, PlatformTypeOK, Spend, FaultKinds
<1>2. \A k \in {"db", "crash", "sigterm"} : ~ Spend(k)
  BY CalmFaults DEF FaultKinds
<1>3. vmState = "up"
  BY DEF Calm
<1>4. ASSUME NEW i \in Invocations,
             \/ \E s \in PayloadSizes : LoadFunction(i, s)
             \/ CreateInvocation(i)
             \/ PublishInvocation(i)
      PROVE  /\ UNCHANGED vmState
             /\ UNCHANGED budget \/ Spend("amqp")
  BY <1>2, <1>4 DEF LoadFunction, CreateInvocation, PublishInvocation
<1>5. ~ ServerCrash
  BY <1>2 DEF ServerCrash
<1>6. ASSUME NEW c \in Consumers, Deliver(c) \/ ConsumerStep(c) \/ ConnectionLost(c)
      PROVE  /\ UNCHANGED vmState
             /\ UNCHANGED budget \/ Spend("amqp") \/ Spend("loss")
  BY <1>6, CalmFaults DEF Deliver, ConsumerStep, ConnectionLost, Discard, Claim, RunSucceeds,
     RunFails, Reset, Finish, Poison, DeadLetter, DeadLetterFails, Ack, SetStatusOrLog,
     DbOk, serverVars
<1>7. ~ (Sigterm \/ Exit \/ Crash \/ Start)
  BY <1>2, <1>3 DEF Sigterm, Exit, Crash, Start, CancelContext, ProcessExits, ProcessCrashes,
     ProcessStarts
<1>8. ASSUME NEW f \in Functions, FunctionBuilt(f)
      PROVE  UNCHANGED <<vmState, budget>>
  BY <1>8 DEF FunctionBuilt
<1>9. UNCHANGED vars => UNCHANGED <<vmState, budget>>
  BY DEF vars
<1>10. QED
  BY <1>4, <1>5, <1>6, <1>7, <1>8, <1>9 DEF Next, ServerNext

\* What the steps of the server do to the requests, and to whom they attend.
LEMMA ServerAttends ==
    ASSUME TypeOK, AttendInv, NEW i \in Invocations,
           \/ \E s \in PayloadSizes : LoadFunction(i, s)
           \/ CreateInvocation(i)
           \/ PublishInvocation(i) /\ ~ (Q!SumFunction(queue) >= MaxLength)
    PROVE  RequestInv' /\ Attended'
<1>1. /\ request \in [Invocations -> RequestStages]
      /\ invStatus \in [Invocations -> Statuses]
      /\ size \in [Invocations -> Nat]
      /\ queue \in [Invocations -> Nat]
  BY DEF TypeOK, Q!TypeOK
<1>2. \A k \in {"db", "crash", "sigterm"} : ~ Spend(k)
  BY CalmFaults DEF AttendInv, FaultKinds
<1>3. RequestInv /\ Attended
  BY DEF AttendInv
<1>4. ASSUME NEW s \in PayloadSizes, LoadFunction(i, s)
      PROVE  RequestInv' /\ Attended'
  <2>1. /\ request[i] = "idle"
        /\ request' = [request EXCEPT ![i] = "loaded"] \/ request' = [request EXCEPT ![i] = "error"]
        /\ size' = [size EXCEPT ![i] = s.quoted] /\ s.quoted \in Quoted
        /\ UNCHANGED <<invStatus, step, queue, pc, job>>
    BY <1>4, <1>2 DEF LoadFunction, Respond, rowVars, routerVars, Quoted
  <2>2. RequestInv'
    BY <1>1, <1>3, <2>1 DEF RequestInv
  <2>3. Attended'
    BY <1>1, <1>3, <2>1 DEF Attended, Holds, At
  <2>4. QED
    BY <2>2, <2>3
<1>5. ASSUME CreateInvocation(i)
      PROVE  RequestInv' /\ Attended'
  <2>1. /\ request[i] = "loaded"
        /\ request' = [request EXCEPT ![i] = "created"]
        /\ invStatus' = [invStatus EXCEPT ![i] = "PENDING"]
        /\ UNCHANGED <<size, step, queue, pc, job>>
    BY <1>5, <1>2 DEF CreateInvocation, Respond, routerVars
  <2>2. RequestInv'
    BY <1>1, <1>3, <2>1 DEF RequestInv
  <2>3. Attended'
    BY <1>1, <1>3, <2>1 DEF Attended, Holds, At
  <2>4. QED
    BY <2>2, <2>3
<1>6. ASSUME PublishInvocation(i), ~ (Q!SumFunction(queue) >= MaxLength)
      PROVE  RequestInv' /\ Attended'
  <2>1. /\ request[i] = "created"
        /\ UNCHANGED <<size, step, invStatus, pc, job>>
        /\ \/ /\ request' = [request EXCEPT ![i] = "ok"]
              /\ queue' = [queue EXCEPT ![i] = @ + 1]
           \/ /\ request' = [request EXCEPT ![i] = "error"]
              /\ UNCHANGED queue
    BY <1>6 DEF PublishInvocation, Respond, Q!PublishLimited, Q!Enqueue, rowVars, routerVars
  <2>2. invStatus[i] = "PENDING"
    BY <1>3, <2>1 DEF RequestInv
  <2>3. RequestInv'
    BY <1>1, <1>3, <2>1 DEF RequestInv
  <2>4. Attended'
    <3>1. ASSUME NEW g \in Invocations, request'[g] = "ok"
          PROVE  \/ g = i /\ queue'[g] > 0
                 \/ g # i /\ request[g] = "ok" /\ queue'[g] = queue[g]
      BY <1>1, <2>1, <3>1
    <3>2. QED
      BY <1>3, <2>1, <2>2, <3>1 DEF Attended, Holds, At
  <2>5. QED
    BY <2>3, <2>4
<1>7. QED
  BY <1>4, <1>5, <1>6

\* A step of a consumer that publishes nothing about a new job keeps the rows
\* that are still the server's.
LEMMA RequestKept ==
    ASSUME TypeOK, RequestInv, UNCHANGED <<request, size>>,
           \A i \in Invocations :
               /\ request[i] # "ok" => invStatus'[i] = invStatus[i]
               /\ queue'[i] > 0 => queue[i] > 0 \/ \E c \in Consumers : job[c] = i
               /\ \A c \in Consumers :
                    job'[c] = i => queue[i] > 0 \/ \E d \in Consumers : job[d] = i
    PROVE  RequestInv'
BY DEF RequestInv

\* What the consumers of the queue do to the messages.
LEMMA ConsumerKeepsRequests ==
    ASSUME TypeOK, AttendInv, NEW c \in Consumers,
           Deliver(c) \/ ConsumerStep(c) \/ ConnectionLost(c)
    PROVE  RequestInv'
<1> USE DEF serverVars, rowVars, routerVars
<1>1. /\ invStatus \in [Invocations -> Statuses]
      /\ queue \in [Invocations -> Nat]
      /\ job \in [Consumers -> Invocations \cup {NoJob}]
      /\ \A d \in Consumers : pc[d] = "idle" <=> job[d] = NoJob
      /\ \A d \in Consumers : owned[d] => job[d] \in Invocations
      /\ NoJob \notin Invocations
  BY ExecutionAssumption DEF ExecutionAssumption, TypeOK, Q!TypeOK
<1>2. RequestInv
  BY DEF AttendInv
<1>3. ASSUME NEW i \in Invocations, Q!Deliver(c, i), Deliver(c)
      PROVE  RequestInv'
  <2>1. /\ queue[i] > 0
        /\ queue' = [queue EXCEPT ![i] = @ - 1]
        /\ job' = [job EXCEPT ![c] = i]
    BY <1>3 DEF Q!Deliver
  <2>2. UNCHANGED <<request, size, invStatus>>
    BY <1>3 DEF Deliver
  <2>3. \A g \in Invocations : queue'[g] > 0 => queue[g] > 0
    BY <1>1, <2>1
  <2>4. QED
    BY <1>1, <1>2, <2>1, <2>2, <2>3, RequestKept
<1>4. ASSUME Discard(c) \/ Claim(c) \/ RunSucceeds(c) \/ RunFails(c) \/ Reset(c) \/ Finish(c)
               \/ Poison(c) \/ DeadLetter(c)
      PROVE  RequestInv'
  <2>1. pc[c] # "idle"
    BY <1>4 DEF Discard, Claim, RunSucceeds, RunFails, Reset, Finish, Poison, DeadLetter, At,
       Q!StatusWritten, Q!DeadLetterSent, Q!Move
  <2>2. UNCHANGED <<request, size, queue, job>>
    BY <1>4 DEF Discard, Claim, RunSucceeds, RunFails, Reset, Finish, Poison, DeadLetter,
       Q!ReturnNil, Q!ReturnError, Q!StatusWritten, Q!DeadLetterSent
  <2>3. \A g \in Invocations : g # job[c] => invStatus'[g] = invStatus[g]
    BY <1>1, <1>4 DEF Discard, Claim, RunSucceeds, RunFails, Reset, Finish, Poison, DeadLetter,
       SetStatusOrLog, SetStatus
  <2>4. job[c] \in Invocations /\ request[job[c]] = "ok"
    BY <1>1, <1>2, <2>1 DEF RequestInv
  <2>5. QED
    BY <1>2, <2>2, <2>3, <2>4, RequestKept
<1>5. ASSUME DeadLetterFails(c) \/ Ack(c) \/ ConnectionLost(c)
      PROVE  RequestInv'
  <2>1. UNCHANGED <<request, size, invStatus>>
    BY <1>5 DEF DeadLetterFails, Ack, ConnectionLost
  <2>2. UNCHANGED job \/ job' = [job EXCEPT ![c] = NoJob]
    BY <1>5 DEF DeadLetterFails, Ack, ConnectionLost, Q!TryAgain, Q!Nack, Q!Ack, Q!Released,
       Q!ConnectionLost
  <2>3. \A g \in Invocations : g # job[c] => queue'[g] = queue[g]
    BY <1>1, <1>5 DEF DeadLetterFails, Ack, ConnectionLost, Q!TryAgain, Q!Nack, Q!Ack,
       Q!ConnectionLost
  <2>4. QED
    BY <1>1, <1>2, <2>1, <2>2, <2>3, RequestKept
<1>6. QED
  BY <1>3, <1>4, <1>5 DEF Deliver, ConsumerStep

\* c does not leave an invocation that nobody else attends to.
LEMMA ConsumerAttends ==
    ASSUME TypeOK, AttendInv, PayloadsFit, NEW c \in Consumers,
           Deliver(c) \/ ConsumerStep(c) \/ ConnectionLost(c)
    PROVE  Attended'
<1> USE DEF serverVars, rowVars, routerVars
<1>1. /\ invStatus \in [Invocations -> Statuses]
      /\ queue \in [Invocations -> Nat]
      /\ job \in [Consumers -> Invocations \cup {NoJob}]
      /\ pc \in [Consumers -> Q!Stages]
      /\ step \in [Consumers -> Steps]
      /\ \A d \in Consumers : pc[d] = "idle" <=> job[d] = NoJob
      /\ \A d \in Consumers : pc[d] # "handle" => step[d] = "claim"
      /\ \A d \in Consumers : owned[d] => job[d] \in Invocations
      /\ NoJob \notin Invocations
  BY ExecutionAssumption DEF ExecutionAssumption, TypeOK, Q!TypeOK
<1>2. RequestInv /\ Attended /\ Calm
  BY DEF AttendInv
<1>3. ~ DbRefused /\ ~ DbReplyLost
  BY <1>2, CalmFaults
<1>4. UNCHANGED request
  BY DEF Deliver, ConsumerStep, ConnectionLost, Discard, Claim, RunSucceeds, RunFails, Reset,
     Finish, Poison, DeadLetter, DeadLetterFails, Ack
<1>5. ASSUME NEW i \in Invocations, Q!Deliver(c, i), Deliver(c)
      PROVE  Attended'
  <2>1. /\ pc[c] = "idle"
        /\ pc' = [pc EXCEPT ![c] = "handle"]
        /\ queue' = [queue EXCEPT ![i] = @ - 1]
        /\ job' = [job EXCEPT ![c] = i]
    BY <1>5 DEF Q!Deliver, Q!Move
  <2>2. UNCHANGED <<invStatus, step>>
    BY <1>5 DEF Deliver
  <2>3. step[c] = "claim" /\ job[c] = NoJob
    BY <1>1, <2>1
  <2>4. ASSUME NEW g \in Invocations, request[g] = "ok", invStatus[g] = "PENDING"
        PROVE  \/ queue'[g] > 0
               \/ \E d \in Consumers : job'[d] = g /\ (At(d, "claim")' \/ pc'[d] = "poison")
    BY <1>1, <1>2, <2>1, <2>2, <2>3, <2>4 DEF Attended, At
  <2>5. ASSUME NEW g \in Invocations, NEW d \in Consumers, Holds(d, g)
        PROVE  Holds(d, g)'
    BY <1>1, <2>1, <2>2, <2>3, <2>5 DEF Holds
  <2>6. QED
    BY <1>2, <1>4, <2>2, <2>4, <2>5 DEF Attended
<1>6. ~ Discard(c)
  <2>1. ASSUME Discard(c)
        PROVE  FALSE
    <3>1. job[c] \in Invocations /\ TooLarge(job[c])
      BY <1>1, <2>1 DEF Discard, At
    <3>2. size[job[c]] \in Quoted \cup {0}
      BY <1>2, <3>1 DEF RequestInv
    <3>3. QED
      BY <3>1, <3>2 DEF PayloadsFit, TooLarge
  <2>2. QED
    BY <2>1

<1>7. ASSUME Claim(c)
      PROVE  Attended'
  <2>1. /\ pc[c] = "handle" /\ step[c] = "claim"
        /\ UNCHANGED <<queue, job>>
    BY <1>3, <1>7 DEF Claim, At, Q!ReturnNil
  <2>2. job[c] \in Invocations
    BY <1>1, <2>1
  <2>3. CASE /\ invStatus' = [invStatus EXCEPT ![job[c]] = "EXECUTING"]
             /\ step' = [step EXCEPT ![c] = "run"]
             /\ UNCHANGED pc
    <3>1. step'[c] # "claim" /\ job'[c] = job[c]
      BY <1>1, <2>1, <2>3
    <3>2. \A d \in Consumers, g \in Invocations : Holds(d, g) => Holds(d, g)'
      BY <1>1, <2>1, <2>3 DEF Holds
    <3>3. \A d \in Consumers : d # c /\ At(d, "claim") => At(d, "claim")'
      BY <1>1, <2>3 DEF At
    <3>4. ASSUME NEW g \in Invocations, g # job[c]
          PROVE  invStatus'[g] = invStatus[g]
      BY <1>1, <2>3, <3>4
    <3>5. invStatus'[job[c]] = "EXECUTING"
      BY <1>1, <2>2, <2>3
    <3>6. ASSUME NEW g \in Invocations, request[g] = "ok"
          PROVE  /\ invStatus'[g] = "PENDING" =>
                      \/ queue'[g] > 0
                      \/ \E d \in Consumers : job'[d] = g /\ (At(d, "claim")' \/ pc'[d] = "poison")
                 /\ invStatus'[g] = "EXECUTING" => \E d \in Consumers : Holds(d, g)'
      <4>1. CASE g = job[c]
        BY <3>1, <3>5, <4>1 DEF Holds
      <4>2. CASE g # job[c]
        BY <1>2, <2>1, <2>3, <3>2, <3>3, <3>4, <3>6, <4>2 DEF Attended
      <4>3. QED
        BY <4>1, <4>2
    <3>7. QED
      BY <1>4, <3>6 DEF Attended
  <2>4. CASE /\ invStatus[job[c]] # "PENDING"
             /\ pc' = [pc EXCEPT ![c] = "settle"]
             /\ UNCHANGED <<invStatus, step>>
    <3>1. \A d \in Consumers, g \in Invocations : Holds(d, g) => Holds(d, g)'
      BY <2>1, <2>4 DEF Holds
    <3>2. ASSUME NEW d \in Consumers, NEW g \in Invocations, invStatus[g] = "PENDING",
                 job[d] = g, At(d, "claim") \/ pc[d] = "poison"
          PROVE  At(d, "claim")' \/ pc'[d] = "poison"
      BY <1>1, <2>4, <3>2 DEF At
    <3>3. QED
      BY <1>2, <1>4, <2>1, <2>4, <3>1, <3>2 DEF Attended
  <2>5. QED
    BY <1>3, <1>7, <2>3, <2>4 DEF Claim, SetStatus, Becomes, Q!ReturnNil, Q!Move
<1>8. ASSUME RunSucceeds(c) \/ RunFails(c)
      PROVE  Attended'
  <2>1. /\ step[c] = "run"
        /\ step' = [step EXCEPT ![c] = "finish"] \/ step' = [step EXCEPT ![c] = "reset"]
        /\ UNCHANGED <<invStatus, queue, pc, job>>
    BY <1>8 DEF RunSucceeds, RunFails, At, Becomes
  <2>2. \A d \in Consumers, g \in Invocations : Holds(d, g) => Holds(d, g)'
    BY <1>1, <2>1 DEF Holds
  <2>3. \A d \in Consumers : At(d, "claim") => At(d, "claim")'
    BY <1>1, <2>1 DEF At
  <2>4. QED
    BY <1>2, <1>4, <2>1, <2>2, <2>3 DEF Attended
<1>9. ASSUME Reset(c)
      PROVE  Attended'
  <2>1. /\ pc[c] = "handle" /\ step[c] = "reset"
        /\ pc' = [pc EXCEPT ![c] = "poison"]
        /\ step' = [step EXCEPT ![c] = "claim"]
        /\ invStatus' = [invStatus EXCEPT ![job[c]] = "PENDING"]
        /\ UNCHANGED <<queue, job>>
    BY <1>3, <1>9 DEF Reset, At, Becomes, SetStatusOrLog, SetStatus, Q!ReturnError, Q!Move
  <2>2. \A d \in Consumers, g \in Invocations : Holds(d, g) /\ g # job[c] => Holds(d, g)'
    BY <1>1, <2>1 DEF Holds
  <2>3. \A d \in Consumers :
          At(d, "claim") \/ pc[d] = "poison" => At(d, "claim")' \/ pc'[d] = "poison"
    BY <1>1, <2>1 DEF At
  <2>4. pc'[c] = "poison" /\ job'[c] = job[c]
    BY <1>1, <2>1
  <2>5. \A g \in Invocations :
          /\ g # job[c] => invStatus'[g] = invStatus[g]
          /\ g = job[c] => invStatus'[g] = "PENDING"
    BY <1>1, <2>1
  <2>6. QED
    BY <1>2, <1>4, <2>1, <2>2, <2>3, <2>4, <2>5 DEF Attended
<1>10. ASSUME Finish(c)
       PROVE  Attended'
  <2>1. /\ pc[c] = "handle" /\ step[c] = "finish"
        /\ pc' = [pc EXCEPT ![c] = "settle"]
        /\ step' = [step EXCEPT ![c] = "claim"]
        /\ invStatus' = [invStatus EXCEPT ![job[c]] = "DONE"]
        /\ UNCHANGED <<queue, job>>
    BY <1>3, <1>10 DEF Finish, At, Becomes, SetStatus, Q!ReturnNil, Q!Move
  <2>2. \A d \in Consumers, g \in Invocations : Holds(d, g) /\ g # job[c] => Holds(d, g)'
    BY <1>1, <2>1 DEF Holds
  <2>3. \A d \in Consumers :
          At(d, "claim") \/ pc[d] = "poison" => At(d, "claim")' \/ pc'[d] = "poison"
    BY <1>1, <2>1 DEF At
  <2>4. \A g \in Invocations :
          /\ g # job[c] => invStatus'[g] = invStatus[g]
          /\ g = job[c] => invStatus'[g] = "DONE"
    BY <1>1, <2>1
  <2>5. QED
    BY <1>2, <1>4, <2>1, <2>2, <2>3, <2>4 DEF Attended
<1>11. ASSUME Poison(c)
       PROVE  Attended'
  <2>1. /\ invStatus' = [invStatus EXCEPT ![job[c]] = "FAILED"]
        /\ pc' = [pc EXCEPT ![c] = "dlq"]
        /\ UNCHANGED <<queue, job, step>>
    BY <1>3, <1>11 DEF Poison, SetStatusOrLog, SetStatus, Q!StatusWritten, Q!Move
  <2>2. pc[c] = "poison"
    BY <1>11 DEF Poison, Q!StatusWritten, Q!Move
  <2>3. \A d \in Consumers, g \in Invocations : Holds(d, g) => Holds(d, g)'
    BY <2>1 DEF Holds
  <2>4. \A d \in Consumers :
          /\ d # c
          /\ At(d, "claim") \/ pc[d] = "poison"
          => At(d, "claim")' \/ pc'[d] = "poison"
    BY <1>1, <2>1 DEF At
  <2>5. \A g \in Invocations :
          /\ g # job[c] => invStatus'[g] = invStatus[g]
          /\ g = job[c] => invStatus'[g] = "FAILED"
    BY <1>1, <2>1
  <2>6. QED
    BY <1>2, <1>4, <2>1, <2>3, <2>4, <2>5 DEF Attended
<1>12. ASSUME DeadLetter(c) \/ DeadLetterFails(c) \/ Ack(c)
       PROVE  Attended'
  <2>1. /\ pc[c] \in {"dlq", "settle"}
        /\ UNCHANGED <<invStatus, step>>
        /\ \A d \in Consumers : d # c => pc'[d] = pc[d] /\ job'[d] = job[d]
    BY <1>1, <1>12 DEF DeadLetter, DeadLetterFails, Ack, Q!DeadLetterSent, Q!TryAgain, Q!Nack,
       Q!Ack, Q!Released, Q!Move
  <2>2. \A g \in Invocations : queue[g] > 0 => queue'[g] > 0
    <3>1. Q!Returned(c) \in Nat
      BY DEF Q!Returned
    <3>2. queue' = queue \/ queue' = [queue EXCEPT ![job[c]] = @ + Q!Returned(c)]
      BY <1>12 DEF DeadLetter, DeadLetterFails, Ack, Q!DeadLetterSent, Q!TryAgain, Q!Nack, Q!Ack
    <3>3. QED
      BY <1>1, <3>1, <3>2
  <2>3. step[c] = "claim"
    BY <1>1, <2>1
  <2>4. \A d \in Consumers, g \in Invocations : Holds(d, g) => Holds(d, g)'
    BY <2>1, <2>3 DEF Holds
  <2>5. ASSUME NEW d \in Consumers, NEW g \in Invocations, job[d] = g,
               At(d, "claim") \/ pc[d] = "poison"
        PROVE  job'[d] = g /\ (At(d, "claim")' \/ pc'[d] = "poison")
    BY <2>1, <2>5 DEF At
  <2>6. QED
    BY <1>2, <1>4, <2>1, <2>2, <2>4, <2>5 DEF Attended
<1>13. ASSUME ConnectionLost(c)
       PROVE  Attended'
  <2>1. /\ UNCHANGED <<invStatus, step, pc, job>>
        /\ queue' = [queue EXCEPT ![job[c]] = @ + 1]
    BY <1>13 DEF ConnectionLost, Q!ConnectionLost
  <2>2. \A g \in Invocations : queue[g] > 0 => queue'[g] > 0
    BY <1>1, <2>1
  <2>3. QED
    BY <1>2, <1>4, <2>1, <2>2 DEF Attended, Holds, At
<1>14. QED
  BY <1>5, <1>6, <1>7, <1>8, <1>9, <1>10, <1>11, <1>12, <1>13 DEF Deliver, ConsumerStep

LEMMA StepAttendInv ==
    ASSUME PayloadsFit, TypeOK, AttendInv, [Next]_vars,
           [\A i \in Invocations :
              PublishInvocation(i) => ~ (Q!SumFunction(queue) >= MaxLength)]_vars
    PROVE  AttendInv'
<1>1. Calm'
  BY CalmStep DEF AttendInv
<1>2. SUFFICES RequestInv' /\ Attended'
  BY <1>1 DEF AttendInv
<1>3. RequestInv /\ Attended
  BY DEF AttendInv
<1>4. ASSUME UNCHANGED <<request, size, invStatus, step, queue, pc, job>>
      PROVE  RequestInv' /\ Attended'
  BY <1>3, <1>4 DEF RequestInv, Attended, Holds, At
<1>5. UNCHANGED vars => UNCHANGED <<request, size, invStatus, step, queue, pc, job>>
  BY DEF vars, serverVars, rowVars, routerVars
<1>6. ASSUME NEW f \in Functions, FunctionBuilt(f)
      PROVE  UNCHANGED <<request, size, invStatus, step, queue, pc, job>>
  BY <1>6 DEF FunctionBuilt, rowVars, routerVars
<1>7. ASSUME NEW i \in Invocations, PublishInvocation(i), ~ UNCHANGED vars
      PROVE  RequestInv' /\ Attended'
  BY <1>7, ServerAttends
<1>8. ~ (ServerCrash \/ Sigterm \/ Exit \/ Crash \/ Start)
  BY CalmFaults DEF AttendInv, Calm, FaultKinds, ServerCrash, Sigterm, Exit, Crash, Start,
     CancelContext, ProcessExits, ProcessCrashes, ProcessStarts
<1>9. ASSUME NEW c \in Consumers, Deliver(c) \/ ConsumerStep(c) \/ ConnectionLost(c)
      PROVE  RequestInv' /\ Attended'
  BY <1>9, ConsumerKeepsRequests, ConsumerAttends
<1>10. QED
  BY <1>4, <1>5, <1>6, <1>7, <1>8, <1>9, ServerAttends DEF Next, ServerNext

(***************************************************************************)
(* An accepted invocation is attended to until it settles, for any number  *)
(* of invocations and consumers: no connection a consumer loses and no     *)
(* dead letter that cannot be published leaves its row behind, as long as  *)
(* the statements succeed, the processes live, the payloads fit and the    *)
(* queue has room for what is published (execute.go:42-78, exec.go:24-50,  *)
(* handler.go:58-113).                                                     *)
(***************************************************************************)
THEOREM AcceptedIsAttended ==
    OnlyBroker /\ PayloadsFit => (Spec /\ QueueHasRoom => []Attended)
<1> SUFFICES ASSUME OnlyBroker, PayloadsFit
             PROVE  Spec /\ QueueHasRoom => []Attended
  OBVIOUS
<1>1. Init => TypeOK /\ AttendInv
  BY InitTypeOK, InitAttendInv
<1>2. /\ TypeOK /\ AttendInv /\ [Next]_vars
      /\ [\A i \in Invocations :
            PublishInvocation(i) => ~ (Q!SumFunction(queue) >= MaxLength)]_vars
      => (TypeOK /\ AttendInv)'
  BY StepTypeOK, StepAttendInv
<1>3. AttendInv => Attended
  BY DEF AttendInv
<1>4. QED
  BY <1>1, <1>2, <1>3, PTL DEF Spec, QueueHasRoom

-----------------------------------------------------------------------------
(***************************************************************************)
(* The queue and its limit.  However often connections are lost, handlers  *)
(* retried and processes killed, the broker has one message per invocation *)
(* at most: the one it is waiting for an answer to, or the ready one.      *)
(***************************************************************************)
OneMessage(i) ==
    /\ queue[i] \in {0, 1}
    /\ \A c \in Consumers : owned[c] /\ job[c] = i => queue[i] = 0
    /\ \A c, d \in Consumers : owned[c] /\ owned[d] /\ job[c] = i /\ job[d] = i => c = d
    /\ request[i] # "ok" => queue[i] = 0 /\ \A c \in Consumers : ~ (owned[c] /\ job[c] = i)

MessageInv == \A i \in Invocations : OneMessage(i)

LEMMA InitMessages == Init => MessageInv
BY DEF Init, MessageInv, OneMessage, Q!Init

LEMMA TakenBack ==
    ASSUME NEW i \in Invocations, TypeOK, OneMessage(i)
    PROVE  LET n == Q!Cardinality({c \in Consumers : owned[c] /\ job[c] = i})
           IN  n \in {0, 1} /\ (n = 1 => \E c \in Consumers : owned[c] /\ job[c] = i)
<1> DEFINE S == {c \in Consumers : owned[c] /\ job[c] = i}
<1>1. Q!Cardinality(S) = Cardinality(S)
  BY DEF Q!Cardinality, Cardinality
<1>2. CASE S = {}
  BY <1>1, <1>2, FS_EmptySet
<1>3. CASE S # {}
  <2>1. PICK c \in Consumers : owned[c] /\ job[c] = i
    BY <1>3
  <2>2. S = {c}
    BY <2>1 DEF OneMessage
  <2>3. Cardinality(S) = 1
    BY <2>2, FS_Singleton
  <2> QED BY <1>1, <2>1, <2>3
<1> QED BY <1>2, <1>3

LEMMA StepMessages == TypeOK /\ MessageInv /\ [Next]_vars => MessageInv'
<1> SUFFICES ASSUME TypeOK, MessageInv, [Next]_vars
             PROVE  MessageInv'
  OBVIOUS
<1>1. /\ queue \in [Invocations -> Nat]
      /\ job \in [Consumers -> Invocations \cup {NoJob}]
      /\ owned \in [Consumers -> BOOLEAN]
      /\ request \in [Invocations -> RequestStages]
      /\ \A c \in Consumers : owned[c] => job[c] \in Invocations
      /\ \A c \in Consumers : (pc[c] = "idle") <=> (job[c] = NoJob)
      /\ NoJob \notin Invocations
  BY ExecutionAssumption DEF ExecutionAssumption, TypeOK, Q!TypeOK
<1>2. ASSUME UNCHANGED <<queue, job, owned>>,
             \A i \in Invocations : request[i] = "ok" => request'[i] = "ok"
      PROVE  MessageInv'
  BY <1>2 DEF MessageInv, OneMessage
<1>3. ASSUME NEW i \in Invocations, PublishInvocation(i)
      PROVE  MessageInv'
  <2>1. /\ request[i] = "created" /\ UNCHANGED <<job, owned>>
        /\ \/ /\ request' = [request EXCEPT ![i] = "ok"]
              /\ queue' = queue \/ queue' = [queue EXCEPT ![i] = @ + 1]
           \/ /\ request' = [request EXCEPT ![i] = "error"]
              /\ UNCHANGED queue
    BY <1>3 DEF PublishInvocation, Respond, Q!PublishLimited, Q!Enqueue, Q!routerVars, routerVars
  <2>2. queue[i] = 0 /\ \A c \in Consumers : ~ (owned[c] /\ job[c] = i)
    BY <2>1 DEF MessageInv, OneMessage
  <2> QED BY <1>1, <2>1, <2>2 DEF MessageInv, OneMessage
<1>4. ASSUME ServerNext, \A i \in Invocations : ~ PublishInvocation(i)
      PROVE  MessageInv'
  <2>1. UNCHANGED <<queue, job, owned>>
    BY <1>4 DEF ServerNext, LoadFunction, CreateInvocation, ServerCrash, routerVars
  <2>2. \A i \in Invocations : request[i] = "ok" => request'[i] = "ok"
    BY <1>1, <1>4 DEF ServerNext, LoadFunction, CreateInvocation, ServerCrash, Respond
  <2> QED BY <1>2, <2>1, <2>2
<1>5. ASSUME NEW c \in Consumers, Deliver(c)
      PROVE  MessageInv'
  <2>1. PICK i \in Invocations : Q!Deliver(c, i)
    BY <1>5 DEF Deliver
  <2>2. /\ pc[c] = "idle" /\ queue[i] > 0 /\ request' = request
        /\ queue' = [queue EXCEPT ![i] = @ - 1]
        /\ job' = [job EXCEPT ![c] = i]
        /\ owned' = [owned EXCEPT ![c] = TRUE]
    BY <1>5, <2>1 DEF Deliver, Q!Deliver, Q!Move, serverVars
  <2>3. /\ queue[i] = 1 /\ request[i] = "ok" /\ ~ owned[c]
        /\ \A d \in Consumers : ~ (owned[d] /\ job[d] = i)
    BY <1>1, <2>2 DEF MessageInv, OneMessage
  <2>4. ASSUME NEW j \in Invocations
        PROVE  OneMessage(j)'
    BY <1>1, <2>2, <2>3 DEF MessageInv, OneMessage
  <2> QED BY <2>4 DEF MessageInv
<1>6. ASSUME NEW c \in Consumers, Q!Nack(c) \/ Q!Ack(c), UNCHANGED request
      PROVE  MessageInv'
  <2>1. /\ job' = [job EXCEPT ![c] = NoJob]
        /\ owned' = [owned EXCEPT ![c] = FALSE]
        /\ \/ queue' = queue
           \/ owned[c] /\ queue' = [queue EXCEPT ![job[c]] = @ + 1]
    BY <1>1, <1>6 DEF Q!Nack, Q!Ack, Q!Move, Q!Released, Q!Returned
  <2>2. owned[c] => /\ job[c] \in Invocations /\ queue[job[c]] = 0 /\ request[job[c]] = "ok"
                    /\ \A d \in Consumers : owned[d] /\ job[d] = job[c] => d = c
    BY <1>1 DEF MessageInv, OneMessage
  <2>3. ASSUME NEW j \in Invocations
        PROVE  OneMessage(j)'
    BY <1>1, <1>6, <2>1, <2>2 DEF MessageInv, OneMessage
  <2> QED BY <2>3 DEF MessageInv
<1>7. ASSUME NEW c \in Consumers, ConnectionLost(c)
      PROVE  MessageInv'
  <2>1. /\ owned[c] /\ owned' = [owned EXCEPT ![c] = FALSE] /\ UNCHANGED <<job, request>>
        /\ queue' = [queue EXCEPT ![job[c]] = @ + 1]
    BY <1>7 DEF ConnectionLost, Q!ConnectionLost, serverVars
  <2>2. /\ job[c] \in Invocations /\ queue[job[c]] = 0 /\ request[job[c]] = "ok"
        /\ \A d \in Consumers : owned[d] /\ job[d] = job[c] => d = c
    BY <1>1, <2>1 DEF MessageInv, OneMessage
  <2>3. ASSUME NEW j \in Invocations
        PROVE  OneMessage(j)'
    BY <1>1, <2>1, <2>2 DEF MessageInv, OneMessage
  <2> QED BY <2>3 DEF MessageInv
<1>8. ASSUME NEW c \in Consumers, ConsumerStep(c)
      PROVE  MessageInv'
  <2>1. UNCHANGED request
    BY <1>8 DEF ConsumerStep, Discard, Claim, RunSucceeds, RunFails, Reset, Finish, Poison,
       DeadLetter, DeadLetterFails, Ack, serverVars
  <2>2. CASE Ack(c)
    BY <1>6, <2>1, <2>2 DEF Ack
  <2>3. CASE DeadLetterFails(c)
    <3>1. CASE Q!Nack(c)
      BY <1>6, <2>1, <3>1
    <3>2. CASE Q!TryAgain(c)
      BY <1>2, <2>1, <3>2 DEF Q!TryAgain
    <3> QED BY <2>3, <3>1, <3>2 DEF DeadLetterFails
  <2>4. CASE Discard(c) \/ Claim(c) \/ RunSucceeds(c) \/ RunFails(c) \/ Reset(c) \/ Finish(c)
             \/ Poison(c) \/ DeadLetter(c)
    <3>1. UNCHANGED <<queue, job, owned>>
      BY <2>4 DEF Discard, Claim, RunSucceeds, RunFails, Reset, Finish, Poison, DeadLetter,
         Q!ReturnNil, Q!ReturnError, Q!StatusWritten, Q!DeadLetterSent, routerVars
    <3> QED BY <1>2, <2>1, <3>1
  <2> QED BY <1>8, <2>2, <2>3, <2>4 DEF ConsumerStep
<1>9. CASE Crash
  <2>1. /\ \A i \in Invocations : queue'[i] =
             queue[i] + Q!Cardinality({c \in Consumers : owned[c] /\ job[c] = i})
        /\ \A c \in Consumers : ~ owned'[c]
        /\ request' = request
    BY <1>9 DEF Crash, Q!Die, serverVars
  <2>2. ASSUME NEW i \in Invocations
        PROVE  OneMessage(i)'
    <3> DEFINE n == Q!Cardinality({c \in Consumers : owned[c] /\ job[c] = i})
    <3>1. n \in {0, 1} /\ (n = 1 => \E c \in Consumers : owned[c] /\ job[c] = i)
      BY TakenBack DEF MessageInv
    <3>2. queue'[i] = queue[i] + n
      BY <2>1
    <3> HIDE DEF n
    <3>3. OneMessage(i)
      BY DEF MessageInv
    <3> QED BY <1>1, <2>1, <3>1, <3>2, <3>3 DEF OneMessage
  <2> QED BY <2>2 DEF MessageInv
<1>10. ASSUME \/ \E f \in Functions : FunctionBuilt(f)
              \/ Sigterm \/ Exit \/ Start \/ UNCHANGED vars
       PROVE  MessageInv'
  BY <1>2, <1>10 DEF FunctionBuilt, Sigterm, Exit, Start, vars, serverVars, routerVars
<1> QED BY <1>3, <1>4, <1>5, <1>7, <1>8, <1>9, <1>10 DEF Next

\* What is ready in the queue, added up over the invocations, when one of them
\* has no message.
LEMMA SumOfMessages ==
    ASSUME NEW I, IsFiniteSet(I), NEW f \in [I -> {0, 1}], NEW i \in I, f[i] = 0
    PROVE  Q!SumFunction(f) \in Nat /\ Q!SumFunction(f) < Cardinality(I)
<1> DEFINE op == [p \in I \X Nat |-> f[p[1]] + p[2]]
           pick == [s \in SUBSET I |-> CHOOSE x \in s : TRUE]
           Rec(g) == g = [s \in SUBSET I |->
                            IF s = {} THEN 0
                            ELSE f[CHOOSE x \in s : TRUE] + g[s \ {CHOOSE x \in s : TRUE}]]
           sum == CHOOSE g : Rec(g)
<1>1. op \in [I \X Nat -> Nat]
  OBVIOUS
<1>2. \A s \in SUBSET I : s # {} => pick[s] \in s
  OBVIOUS
<1>3. PICK g \in [SUBSET I -> Nat] : FoldsOver(g, I, 0, op, pick)
  <2>1. 0 \in Nat /\ IsFiniteSet(I)
    OBVIOUS
  <2> HIDE DEF op, pick, Rec, sum
  <2> QED BY <1>1, <1>2, <2>1, FoldExists
<1>4. \A s \in SUBSET I : g[s] =
        IF s = {} THEN 0 ELSE f[CHOOSE x \in s : TRUE] + g[s \ {CHOOSE x \in s : TRUE}]
  <2> SUFFICES ASSUME NEW s \in SUBSET I
               PROVE  g[s] = IF s = {} THEN 0
                             ELSE f[CHOOSE x \in s : TRUE] + g[s \ {CHOOSE x \in s : TRUE}]
    OBVIOUS
  <2>1. g[s] = IF s = {} THEN 0 ELSE op[<<pick[s], g[s \ {pick[s]}]>>]
    BY <1>3 DEF FoldsOver
  <2>2. s # {} => pick[s] \in I /\ g[s \ {pick[s]}] \in Nat
    BY <1>2, <1>3
  <2> QED BY <2>1, <2>2
<1>5. Rec(g)
  BY <1>3, <1>4
<1>6. Rec(sum)
  <2> HIDE DEF Rec
  <2> QED BY <1>5
<1>7. Q!SumFunction(f) = sum[I]
  <2>1. DOMAIN f = I
    OBVIOUS
  <2> QED BY Zenon, <2>1 DEF Q!SumFunction, Q!SumFunctionOnSet, Q!FoldFunctionOnSet, Q!MapThenFoldSet
<1> HIDE DEF sum
<1>8. \A s \in SUBSET I : sum[s] =
        IF s = {} THEN 0 ELSE f[CHOOSE x \in s : TRUE] + sum[s \ {CHOOSE x \in s : TRUE}]
  BY <1>6
<1> HIDE DEF op, pick, Rec
<1> DEFINE Bound(s) == sum[s] \in Nat /\ sum[s] <= Cardinality(s \ {i})
           T == {n \in Nat : \A s \in SUBSET I : Cardinality(s) = n => Bound(s)}
<1>9. \A s \in SUBSET I : IsFiniteSet(s) /\ Cardinality(s) \in Nat /\ IsFiniteSet(s \ {i})
                          /\ Cardinality(s \ {i}) \in Nat
  BY FS_Subset, FS_CardinalityType
<1>10. 0 \in T
  <2>1. \A s \in SUBSET I : Cardinality(s) = 0 => s = {}
    BY <1>9, FS_EmptySet
  <2>2. sum[{}] = 0
    BY <1>8
  <2>3. Bound({})
    BY <1>9, <2>2
  <2> QED BY <2>1, <2>3
<1>11. ASSUME NEW n \in Nat, n \in T
       PROVE  n + 1 \in T
  <2>1. ASSUME NEW s \in SUBSET I, Cardinality(s) = n + 1
        PROVE  Bound(s)
    <3>1. s # {}
      BY <2>1, FS_EmptySet
    <3> DEFINE x == CHOOSE x \in s : TRUE
    <3>2. x \in s
      BY <3>1
    <3>3. sum[s] = f[x] + sum[s \ {x}]
      BY <1>8, <3>1
    <3> HIDE DEF x
    <3>4. s \ {x} \in SUBSET I /\ Cardinality(s \ {x}) = n
      <4>1. IsFiniteSet(s)
        BY <1>9
      <4>2. Cardinality(s \ {x}) = Cardinality(s) - 1
        BY <3>2, <4>1, FS_RemoveElement
      <4> QED BY <2>1, <4>2
    <3>5. sum[s \ {x}] \in Nat /\ sum[s \ {x}] <= Cardinality((s \ {x}) \ {i})
      BY <1>11, <3>4
    <3>6. f[x] \in {0, 1} /\ (x = i => f[x] = 0)
      BY <3>2
    <3>7. CASE x = i
      <4>1. (s \ {x}) \ {i} = s \ {i}
        BY <3>7
      <4>2. sum[s] = sum[s \ {x}]
        BY <3>3, <3>5, <3>6, <3>7
      <4>3. Cardinality((s \ {x}) \ {i}) = Cardinality(s \ {i})
        BY <4>1
      <4> QED BY <3>5, <4>2, <4>3
    <3>8. CASE x # i
      <4>1. (s \ {x}) \ {i} = (s \ {i}) \ {x} /\ x \in s \ {i}
        BY <3>2, <3>8
      <4>2. Cardinality((s \ {x}) \ {i}) = Cardinality(s \ {i}) - 1
        <5>1. IsFiniteSet(s \ {i})
          BY <1>9
        <5>2. Cardinality((s \ {i}) \ {x}) = Cardinality(s \ {i}) - 1
          BY <4>1, <5>1, FS_RemoveElement
        <5> QED BY <4>1, <5>2
      <4>3. Cardinality(s \ {i}) \in Nat
        BY <1>9
      <4> QED BY <3>3, <3>5, <3>6, <4>2, <4>3
    <3> QED BY <3>7, <3>8
  <2> QED BY <2>1
<1>12. \A n \in Nat : n \in T
  <2>1. \A n \in Nat : n \in T => n + 1 \in T
    BY <1>11
  <2> HIDE DEF T
  <2> QED BY <1>10, <2>1, NatSetInduction
<1>13. Bound(I)
  BY <1>9, <1>12
<1>14. Cardinality(I \ {i}) = Cardinality(I) - 1 /\ Cardinality(I) \in Nat
  BY FS_RemoveElement, FS_CardinalityType
<1> QED BY <1>7, <1>13, <1>14

\* There are no more invocations than the queue can hold.
RoomForAll == IsFiniteSet(Invocations) /\ Cardinality(Invocations) <= MaxLength

\* While there is room for a message of each invocation, the queue never
\* rejects one, whatever is redelivered (vm/queue/config.go:53-57).
THEOREM QueueNeverRejects == RoomForAll => (Spec => QueueHasRoom)
<1> SUFFICES ASSUME RoomForAll
             PROVE  Spec => QueueHasRoom
  OBVIOUS
<1>1. Init => TypeOK /\ MessageInv
  BY InitTypeOK, InitMessages
<1>2. TypeOK /\ MessageInv /\ [Next]_vars => (TypeOK /\ MessageInv)'
  BY StepTypeOK, StepMessages
<1>3. TypeOK /\ MessageInv =>
        \A i \in Invocations : PublishInvocation(i) => ~ (Q!SumFunction(queue) >= MaxLength)
  <2> SUFFICES ASSUME TypeOK, MessageInv, NEW i \in Invocations, PublishInvocation(i)
               PROVE  ~ (Q!SumFunction(queue) >= MaxLength)
    OBVIOUS
  <2>1. queue[i] = 0
    BY DEF MessageInv, OneMessage, PublishInvocation, Respond
  <2>2. queue \in [Invocations -> {0, 1}]
    BY DEF MessageInv, OneMessage, TypeOK, Q!TypeOK
  <2>3. Q!SumFunction(queue) \in Nat /\ Q!SumFunction(queue) < Cardinality(Invocations)
    BY <2>1, <2>2, SumOfMessages DEF RoomForAll
  <2>4. Cardinality(Invocations) \in Nat /\ MaxLength \in Nat
    BY FS_CardinalityType, ExecutionAssumption DEF RoomForAll, ExecutionAssumption
  <2> QED BY <2>3, <2>4 DEF RoomForAll
<1> QED BY <1>1, <1>2, <1>3, PTL DEF Spec, QueueHasRoom

\* With both: an accepted invocation is attended to until it settles, whatever
\* becomes of the connections of the consumers and of the dead letters.
THEOREM AcceptedIsAttendedInRoom ==
    OnlyBroker /\ PayloadsFit /\ RoomForAll => (Spec => []Attended)
<1> SUFFICES ASSUME OnlyBroker, PayloadsFit, RoomForAll
             PROVE  Spec => []Attended
  OBVIOUS
<1>1. Spec => QueueHasRoom
  BY QueueNeverRejects
<1>2. Spec /\ QueueHasRoom => []Attended
  BY AcceptedIsAttended
<1> QED BY <1>1, <1>2
=============================================================================
