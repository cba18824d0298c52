-------------------------- MODULE VmServiceProofs ---------------------------
(***************************************************************************)
(* Proofs about VmService: for any consumers of both queues, any width of  *)
(* the counter of context ids, any number of machines and any faults.      *)
(***************************************************************************)
EXTENDS VmService, ExecutionProofs

-----------------------------------------------------------------------------
(* Arithmetic of the counter. *)

\* A number is its remainder and a multiple of the divisor.
LEMMA Remainder ==
    ASSUME NEW C \in Nat, C > 0, NEW a \in Nat
    PROVE  /\ a % C \in 0 .. C - 1
           /\ a \div C \in Nat
           /\ a = C * (a \div C) + (a % C)
OBVIOUS

\* A positive multiple of a number is no less than the number.
LEMMA Multiple ==
    ASSUME NEW C \in Nat, C > 0, NEW k \in Int, k >= 1
    PROVE  C * k >= C
<1>1. (k - 1) \in Nat /\ C * (k - 1) >= 0
  OBVIOUS
<1>2. C * k = C * (k - 1) + C
  OBVIOUS
<1>3. QED
  BY <1>1, <1>2

\* The remainder is the only one below the divisor.
LEMMA OneRemainder ==
    ASSUME NEW C \in Nat, C > 0, NEW a \in Nat,
           NEW q \in Nat, NEW r \in 0 .. C - 1, a = C * q + r
    PROVE  a % C = r
<1> DEFINE p == a \div C
           s == a % C
<1>1. p \in Nat /\ s \in 0 .. C - 1 /\ a = C * p + s
  BY Remainder
<1> HIDE DEF p, s
<1>2. C * (q - p) = s - r /\ C * (p - q) = r - s
  BY <1>1
<1>3. ~ (q - p >= 1)
  BY <1>1, <1>2, Multiple
<1>4. ~ (p - q >= 1)
  BY <1>1, <1>2, Multiple
<1>5. p = q
  BY <1>1, <1>3, <1>4
<1>6. s = r
  BY <1>1, <1>5
<1>7. QED
  BY <1>6 DEF s

\* Counting on from a remainder is counting on from the number.
LEMMA NextRemainder ==
    ASSUME NEW C \in Nat, C > 0, NEW a \in Nat
    PROVE  ((a % C) + 1) % C = (a + 1) % C
<1> DEFINE q == a \div C
           r == a % C
<1>1. q \in Nat /\ r \in 0 .. C - 1 /\ a = C * q + r
  BY Remainder
<1> HIDE DEF q, r
<1>2. CASE r + 1 < C
  <2>1. (r + 1) % C = r + 1
    BY <1>1, <1>2
  <2>2. a + 1 = C * q + (r + 1) /\ r + 1 \in 0 .. C - 1
    BY <1>1, <1>2
  <2>3. (a + 1) % C = r + 1
    BY <1>1, <2>2, OneRemainder
  <2>4. QED
    BY <2>1, <2>3 DEF r
<1>3. CASE r + 1 = C
  <2>1. r + 1 = C * 1 + 0 /\ a + 1 = C * (q + 1) + 0
    BY <1>1, <1>3
  <2>2. (r + 1) % C = 0
    BY <1>1, <2>1, OneRemainder
  <2>3. (a + 1) % C = 0
    BY <1>1, <2>1, OneRemainder
  <2>4. QED
    BY <2>2, <2>3 DEF r
<1>4. QED
  BY <1>1, <1>2, <1>3

\* Two numbers with one remainder are a multiple of the divisor apart.
LEMMA SameRemainder ==
    ASSUME NEW C \in Nat, C > 0, NEW a \in Nat, NEW b \in Nat,
           a < b, a % C = b % C
    PROVE  b - a >= C
<1> DEFINE p == a \div C
           q == b \div C
           r == a % C
<1>1. /\ p \in Nat /\ q \in Nat /\ r \in 0 .. C - 1
      /\ a = C * p + r /\ b = C * q + r
  BY Remainder
<1> HIDE DEF p, q, r
<1>2. b - a = C * (q - p)
  BY <1>1
<1>3. q - p >= 1
  <2>1. CASE q = p
    BY <1>1, <2>1
  <2>2. CASE p - q >= 1
    <3>1. C * (p - q) >= C
      BY <1>1, <2>2, Multiple
    <3>2. a - b = C * (p - q)
      BY <1>1
    <3>3. QED
      BY <3>1, <3>2
  <2>3. QED
    BY <1>1, <2>1, <2>2
<1>4. QED
  BY <1>1, <1>2, <1>3, Multiple

-----------------------------------------------------------------------------
(* Machines come on top of Execution, and what is proved of it stays true. *)

\* A step of the service with its machines is one of Execution, or changes
\* nothing that Execution has.
LEMMA StepOfExecution == [VmServiceNext]_vmVars => [Next]_vars
<1> SUFFICES ASSUME [VmServiceNext]_vmVars
             PROVE  [Next]_vars
  OBVIOUS
<1>1. ASSUME NEW c \in Consumers,
             StartMachine(c) \/ StartFails(c) \/ FinishedRun(c) \/ FailedRun(c)
      PROVE  [Next]_vars
  BY <1>1 DEF StartMachine, StartFails, FinishedRun, FailedRun, Next, ConsumerStep
<1>2. ASSUME NEW c \in Consumers, OtherStep(c)
      PROVE  [Next]_vars
  BY <1>2 DEF OtherStep, Next, ConsumerStep
<1>3. ASSUME NEW b \in Builders, BuildMachine(b) \/ BuildEnds(b)
      PROVE  [Next]_vars
  BY <1>3 DEF BuildMachine, BuildEnds
<1>4. CASE MachineEnds \/ UNCHANGED vmVars
  BY <1>4 DEF MachineEnds, vmVars
<1>5. CASE VmServiceCrash \/ VmServiceExit \/ VmServiceStart
  BY <1>5 DEF VmServiceCrash, VmServiceExit, VmServiceStart, Next
<1>6. CASE \/ \E f \in Functions : FunctionBuilt(f)
           \/ ServerNext
           \/ Sigterm
  BY <1>6 DEF Next
<1>7. QED
  BY <1>1, <1>2, <1>3, <1>4, <1>5, <1>6 DEF VmServiceNext

(***************************************************************************)
(* The rows, the queue and the consumers of the service with its machines  *)
(* behave as Execution says: a machine never takes part in a decision of   *)
(* the handlers but by how its run ended (exec.go:29-50).                  *)
(***************************************************************************)
THEOREM MachinesOnTop == VmServiceSpec => Spec
<1>1. VmServiceInit => Init
  BY DEF VmServiceInit
<1>2. QED
  BY <1>1, StepOfExecution, PTL DEF VmServiceSpec, Spec

\* The invariant of the claim, which OneMachineAtWork rests on.
LEMMA ClaimedHere == VmServiceSpec => [](TypeOK /\ ClaimInv)
BY MachinesOnTop, ClaimInvariant, PTL

-----------------------------------------------------------------------------
\* What a start does to the counter and to the machines.
LEMMA BootEffect ==
    ASSUME VmServiceTypeOK, NEW w \in Consumers \cup Builders,
           NEW i \in Invocations \cup {NoJob},
           Boot(w, i) \/ BootFails(w)
    PROVE  /\ nextCid' = (nextCid + 1) % CidSpace
           /\ nextCid' \in 0 .. CidSpace - 1
           /\ starts' = starts + 1
           /\ UNCHANGED before
           /\ \/ UNCHANGED machines
              \/ \E m \in Machines :
                    /\ m.no = starts /\ m.cid = nextCid /\ m.by = w /\ m.of = i
                    /\ m.life = "run" /\ m.own
                    /\ Boot(w, i)
                    /\ machines' = machines \cup {m}
<1>1. nextCid + 1 \in Nat /\ CidSpace \in Nat /\ CidSpace > 3
  BY VmServiceAssumption DEF VmServiceAssumption, VmServiceTypeOK
<1>2. (nextCid + 1) % CidSpace \in 0 .. CidSpace - 1
  BY <1>1, Remainder
<1>3. AllocateCid
  BY DEF Boot, BootFails
<1>4. CASE BootFails(w)
  BY <1>2, <1>3, <1>4 DEF AllocateCid, BootFails
<1>5. CASE Boot(w, i)
  <2> DEFINE m == [no |-> starts, cid |-> nextCid, by |-> w, of |-> i,
                   life |-> "run", own |-> TRUE]
  <2>1. m \in Machines
    BY DEF Machines, VmServiceTypeOK
  <2>2. machines' = machines \cup {m}
    BY <1>5 DEF Boot
  <2>3. QED
    BY <1>2, <1>3, <1>5, <2>1, <2>2 DEF AllocateCid
<1>6. QED
  BY <1>4, <1>5

\* What any other step does to them: machines go, or change their life or
\* their owner, and none is added.
Fewer ==
    \A m \in machines' : m \in Machines /\
        \E k \in machines :
            /\ m.no = k.no /\ m.cid = k.cid /\ m.by = k.by /\ m.of = k.of
            /\ m.life = "run" => k.life = "run"
            /\ m.own => k.own

Starting ==
    \/ \E c \in Consumers : StartMachine(c) \/ StartFails(c)
    \/ \E b \in Builders : BuildMachine(b)

LEMMA FewerOtherwise ==
    ASSUME VmServiceTypeOK, [VmServiceNext]_vmVars, ~ Starting
    PROVE  /\ Fewer
           /\ \/ UNCHANGED counterVars
              \/ VmServiceStart
<1> USE DEF VmServiceTypeOK, Fewer
<1>1. ASSUME UNCHANGED machines
      PROVE  Fewer
  BY <1>1
<1>2. ASSUME NEW w \in Consumers \cup Builders, Stopped(w)
      PROVE  Fewer
  BY <1>2 DEF Stopped, Machines
<1>3. ASSUME NEW w \in Consumers \cup Builders, GuardCalled(w)
      PROVE  Fewer
  BY <1>3 DEF GuardCalled, MachineOf, Machines
<1>4. ASSUME Abandoned
      PROVE  Fewer
  <2>1. PICK left \in SUBSET machines : machines' = {[m EXCEPT !.own = FALSE] : m \in left}
    BY <1>4 DEF Abandoned
  <2> DEFINE orphan(m) == [m EXCEPT !.own = FALSE]
  <2>2. ASSUME NEW m \in Machines
        PROVE  /\ orphan(m) \in Machines
               /\ orphan(m).no = m.no /\ orphan(m).cid = m.cid
               /\ orphan(m).by = m.by /\ orphan(m).of = m.of
               /\ orphan(m).life = m.life /\ ~ orphan(m).own
    BY DEF Machines
  <2>3. machines' = {orphan(m) : m \in left}
    BY <2>1
  <2> HIDE DEF orphan
  <2>4. QED
    BY <2>2, <2>3
<1>5. ASSUME MachineEnds
      PROVE  Fewer
  BY <1>5 DEF MachineEnds, Machines
<1>6. Fewer
  BY <1>1, <1>2, <1>3, <1>4, <1>5
  DEF VmServiceNext, Starting, FinishedRun, FailedRun, BuildEnds, VmServiceCrash,
      VmServiceExit, VmServiceStart, vmVars
<1>7. UNCHANGED counterVars \/ VmServiceStart
  BY DEF VmServiceNext, Starting, FinishedRun, FailedRun, BuildEnds, VmServiceCrash,
      VmServiceExit, MachineEnds, vmVars, counterVars
<1>8. QED
  BY <1>6, <1>7

-----------------------------------------------------------------------------
\* Of the steps, those that start a machine, with what a start does.
LEMMA StartingEffect ==
    ASSUME VmServiceTypeOK, Starting
    PROVE  \E w \in Consumers \cup Builders, i \in Invocations \cup {NoJob} :
              /\ Boot(w, i) \/ BootFails(w)
              /\ \/ w \in Consumers /\ i = job[w] /\ i \in Invocations /\ At(w, "run")
                 \/ w \in Builders /\ i = NoJob
              /\ Boot(w, i) => UNCHANGED vars
<1>1. ASSUME NEW c \in Consumers, StartMachine(c) \/ StartFails(c)
      PROVE  /\ Boot(c, job[c]) \/ BootFails(c)
             /\ job[c] \in Invocations
             /\ At(c, "run")
             /\ Boot(c, job[c]) => UNCHANGED vars
  <2>1. At(c, "run")
    BY <1>1 DEF StartMachine, StartFails, RunFails
  <2>2. job[c] \in Invocations
    BY <2>1 DEF At, VmServiceTypeOK, TypeOK, Q!TypeOK
  <2>3. Boot(c, job[c]) => ~ BootFails(c)
    <3> DEFINE m == [no |-> starts, cid |-> nextCid, by |-> c, of |-> job[c],
                     life |-> "run", own |-> TRUE]
    <3>1. Boot(c, job[c]) => m \in machines' /\ MachineOf(c) = {}
      BY DEF Boot
    <3>2. m \in machines => m \in MachineOf(c)
      BY DEF MachineOf
    <3>3. QED
      BY <3>1, <3>2 DEF BootFails
  <2>4. QED
    BY <1>1, <2>1, <2>2, <2>3 DEF StartMachine, StartFails
<1>2. ASSUME NEW b \in Builders, BuildMachine(b)
      PROVE  /\ Boot(b, NoJob) \/ BootFails(b)
             /\ UNCHANGED vars
  BY <1>2 DEF BuildMachine
<1>3. QED
  BY <1>1, <1>2 DEF Starting

LEMMA MachineTypes == VmServiceTypeOK /\ [VmServiceNext]_vmVars => VmServiceTypeOK'
<1> SUFFICES ASSUME VmServiceTypeOK, [VmServiceNext]_vmVars
             PROVE  VmServiceTypeOK'
  OBVIOUS
<1>1. TypeOK'
  BY StepOfExecution, StepTypeOK DEF VmServiceTypeOK
<1>2. CASE Starting
  <2>1. /\ nextCid' \in 0 .. CidSpace - 1
        /\ starts' = starts + 1 /\ UNCHANGED before
        /\ machines' \subseteq Machines
    BY <1>2, StartingEffect, BootEffect DEF VmServiceTypeOK
  <2>2. QED
    BY <1>1, <2>1 DEF VmServiceTypeOK
<1>3. CASE ~ Starting
  <2>1. machines' \subseteq Machines
    BY <1>3, FewerOtherwise DEF Fewer
  <2>2. CASE UNCHANGED counterVars
    BY <1>1, <2>1, <2>2 DEF VmServiceTypeOK, counterVars
  <2>3. CASE VmServiceStart
    BY <1>1, <2>1, <2>3, VmServiceAssumption
    DEF VmServiceTypeOK, VmServiceStart, FirstCid, VmServiceAssumption
  <2>4. QED
    BY <1>3, <2>2, <2>3, FewerOtherwise
<1>4. QED
  BY <1>2, <1>3

(***************************************************************************)
(* Machines, counter, rows and consumers keep their shapes.                *)
(***************************************************************************)
THEOREM VmServiceTypeCorrect == VmServiceSpec => []VmServiceTypeOK
<1>1. VmServiceInit => VmServiceTypeOK
  BY InitTypeOK, VmServiceAssumption
  DEF VmServiceInit, VmServiceTypeOK, FirstCid, VmServiceAssumption
<1>2. QED
  BY <1>1, MachineTypes, PTL DEF VmServiceSpec

-----------------------------------------------------------------------------
(***************************************************************************)
(* While the service is down it has no handler, and no machine is its own. *)
(***************************************************************************)
DownInv == vmState = "down" =>
    /\ \A c \in Consumers : pc[c] = "idle"
    /\ \A m \in machines : ~ m.own

\* Only its exit and its death take the service down.
LEMMA DownByLife ==
    ASSUME [VmServiceNext]_vmVars, vmState # "down", vmState' = "down"
    PROVE  VmServiceCrash \/ VmServiceExit
<1> USE DEF platformVars
<1>1. ASSUME NEW c \in Consumers,
             OtherStep(c) \/ StartMachine(c) \/ StartFails(c) \/ FinishedRun(c) \/ FailedRun(c)
      PROVE  UNCHANGED vmState
  BY <1>1 DEF OtherStep, StartMachine, StartFails, FinishedRun, FailedRun, Deliver, Discard,
     Claim, RunSucceeds, RunFails, Reset, Finish, Poison, DeadLetter, DeadLetterFails, Ack,
     ConnectionLost, vars
<1>2. ASSUME ServerNext
      PROVE  UNCHANGED vmState
  BY <1>2 DEF ServerNext, LoadFunction, CreateInvocation, PublishInvocation, ServerCrash
<1>3. QED
  BY <1>1, <1>2 DEF VmServiceNext, FunctionBuilt, Sigterm, CancelContext, BuildMachine,
     BuildEnds, MachineEnds, VmServiceStart, Start, ProcessStarts, vmVars, vars

LEMMA DownStep ==
    VmServiceTypeOK /\ DownInv /\ [VmServiceNext]_vmVars => DownInv'
<1> SUFFICES ASSUME VmServiceTypeOK, DownInv, [VmServiceNext]_vmVars, vmState' = "down"
             PROVE  /\ \A c \in Consumers : pc'[c] = "idle"
                    /\ \A m \in machines' : ~ m.own
  BY DEF DownInv
<1>1. CASE vmState = "down"
  <2>1. UNCHANGED pc
    <3>1. \A c \in Consumers : pc[c] = "idle"
      BY <1>1 DEF DownInv
    <3>2. \A c \in Consumers : ~ Deliver(c) /\ ~ ConsumerStep(c)
      BY <1>1, <3>1 DEF Deliver, ConsumerStep, Discard, Claim, RunSucceeds, RunFails, Reset,
         Finish, Poison, DeadLetter, DeadLetterFails, Ack, At, Q!StatusWritten,
         Q!DeadLetterSent, Q!TryAgain, Q!Nack, Q!Ack, Q!Move
    <3>3. ASSUME ServerNext
          PROVE  UNCHANGED pc
      BY <3>3 DEF ServerNext, LoadFunction, CreateInvocation, PublishInvocation, ServerCrash,
         routerVars, Q!PublishLimited, Q!Enqueue, Q!routerVars
    <3>4. ~ Sigterm /\ ~ Exit /\ ~ Crash
      BY <1>1 DEF Sigterm, Exit, Crash, CancelContext, ProcessExits, ProcessCrashes
    <3>5. QED
      BY <3>2, <3>3, <3>4, StepOfExecution
      DEF Next, FunctionBuilt, ConnectionLost, Q!ConnectionLost, Start, vars, routerVars
  <2>2. ~ Starting
    BY <1>1 DEF Starting, StartMachine, StartFails, RunFails, BuildMachine, At, DownInv
  <2>3. Fewer
    BY <2>2, FewerOtherwise
  <2>4. QED
    BY <1>1, <2>1, <2>3 DEF DownInv, Fewer
<1>2. CASE vmState # "down"
  <2>1. VmServiceCrash \/ VmServiceExit
    BY <1>2, DownByLife
  <2>2. \A c \in Consumers : pc'[c] = "idle"
    BY <2>1 DEF VmServiceCrash, VmServiceExit, Crash, Exit, Q!Die, Q!AllIdle, routerVars
  <2>3. Abandoned
    BY <2>1 DEF VmServiceCrash, VmServiceExit
  <2>4. PICK left \in SUBSET machines : machines' = {[m EXCEPT !.own = FALSE] : m \in left}
    BY <2>3 DEF Abandoned
  <2>5. \A m \in Machines : ~ [m EXCEPT !.own = FALSE].own
    BY DEF Machines
  <2>6. QED
    BY <2>2, <2>4, <2>5 DEF VmServiceTypeOK
<1>3. QED
  BY <1>1, <1>2

-----------------------------------------------------------------------------
(***************************************************************************)
(* Context ids.  The counter holds the remainder of what it has counted    *)
(* since the process began, and a machine the remainder of its own number. *)
(***************************************************************************)
CidOf(n) == (FirstCid + (n - before)) % CidSpace

CidInv ==
    /\ nextCid = CidOf(starts)
    /\ \A m \in machines : m.own =>
          /\ before <= m.no /\ m.no < starts
          /\ m.cid = CidOf(m.no)

LEMMA CidStep ==
    VmServiceTypeOK /\ DownInv /\ CidInv /\ [VmServiceNext]_vmVars => CidInv'
<1> SUFFICES ASSUME VmServiceTypeOK, DownInv, CidInv, [VmServiceNext]_vmVars
             PROVE  CidInv'
  OBVIOUS
<1> USE VmServiceAssumption DEF VmServiceAssumption
<1>1. starts \in Nat /\ before \in 0 .. starts /\ machines \subseteq Machines
  BY DEF VmServiceTypeOK
<1>2. \A m \in machines : m.no \in Nat
  BY <1>1 DEF Machines
<1>3. CASE Starting
  <2>1. /\ nextCid' = (nextCid + 1) % CidSpace
        /\ starts' = starts + 1 /\ UNCHANGED before
        /\ \/ UNCHANGED machines
           \/ \E m \in Machines : /\ m.no = starts /\ m.cid = nextCid
                                  /\ machines' = machines \cup {m}
    BY <1>3, StartingEffect, BootEffect
  <2> DEFINE n == FirstCid + (starts - before)
  <2>2. n \in Nat
    BY <1>1 DEF FirstCid
  <2>3. nextCid = n % CidSpace
    BY DEF CidInv, CidOf
  <2>4. FirstCid + (starts' - before') = n + 1
    BY <1>1, <2>1 DEF FirstCid
  <2>5. nextCid' = CidOf(starts)'
    <3>1. ((n % CidSpace) + 1) % CidSpace = (n + 1) % CidSpace
      <4>1. CidSpace > 0
        OBVIOUS
      <4> HIDE DEF n
      <4>2. QED
        BY <2>2, <4>1, NextRemainder
    <3>2. CidOf(starts)' = (n + 1) % CidSpace
      BY <2>4 DEF CidOf, FirstCid
    <3> HIDE DEF n
    <3>3. QED
      BY <2>1, <2>3, <3>1, <3>2
  <2>6. \A k : CidOf(k)' = CidOf(k)
    BY <2>1 DEF CidOf
  <2>7. ASSUME NEW m \in machines', m.own
        PROVE  before' <= m.no /\ m.no < starts' /\ m.cid = CidOf(m.no)'
    <3>1. CASE m \in machines
      BY <1>1, <1>2, <2>1, <2>6, <2>7, <3>1 DEF CidInv
    <3>2. CASE m.no = starts /\ m.cid = nextCid
      BY <1>1, <2>1, <2>6, <3>2 DEF CidInv
    <3>3. QED
      BY <2>1, <3>1, <3>2
  <2>8. QED
    BY <2>5, <2>7 DEF CidInv
<1>4. CASE ~ Starting
  <2>1. Fewer /\ (UNCHANGED counterVars \/ VmServiceStart)
    BY <1>4, FewerOtherwise
  <2>2. CASE UNCHANGED counterVars
    <3>1. \A n : CidOf(n)' = CidOf(n)
      BY <2>2 DEF CidOf, counterVars
    <3>2. QED
      BY <2>1, <2>2, <3>1 DEF CidInv, Fewer, counterVars
  <2>3. CASE VmServiceStart
    <3>1. /\ nextCid' = FirstCid /\ before' = starts
          /\ UNCHANGED <<starts, machines>>
      BY <2>3 DEF VmServiceStart
    <3>2. CidOf(starts)' = FirstCid
      <4>1. CidOf(starts)' = FirstCid % CidSpace
        BY <1>1, <3>1 DEF CidOf, FirstCid
      <4>2. FirstCid = CidSpace * 0 + FirstCid /\ FirstCid \in 0 .. CidSpace - 1
        BY DEF FirstCid
      <4>3. QED
        BY <4>1, <4>2, OneRemainder DEF FirstCid
    <3>3. \A m \in machines : ~ m.own
      BY <2>3 DEF DownInv, VmServiceStart, Start, ProcessStarts
    <3>4. QED
      BY <3>1, <3>2, <3>3 DEF CidInv
  <2>4. QED
    BY <2>1, <2>2, <2>3
<1>5. QED
  BY <1>3, <1>4

-----------------------------------------------------------------------------
(***************************************************************************)
(* Who a machine works for.  A machine at full work belongs to the         *)
(* consumer that waits for its run, or to none that is left; and what a    *)
(* machine without a service works for is neither held nor claimable.      *)
(***************************************************************************)
Unclaimable(i) ==
    /\ invStatus[i] \notin {"NOROW", "PENDING"}
    /\ \A c \in Consumers : ~ Holds(c, i)

WorkInv ==
    /\ \A m \in machines : m.life = "run" /\ m.of # NoJob => m.by \in Consumers
    /\ \A m \in machines : m.own /\ m.life = "run" /\ m.by \in Consumers =>
          At(m.by, "run") /\ job[m.by] = m.of
    /\ \A m, k \in machines :
          m.own /\ k.own /\ m.life = "run" /\ k.life = "run" /\ m.by = k.by => m = k
    /\ \A m \in machines : ~ m.own /\ m.life = "run" /\ m.of # NoJob => Unclaimable(m.of)
    /\ OneMachineAtWork

\* What nobody holds and nobody can claim stays so.
LEMMA UnclaimableStays ==
    ASSUME TypeOK, ClaimInv, NEW i \in Invocations, Unclaimable(i), [Next]_vars
    PROVE  Unclaimable(i)'
<1>1. /\ step \in [Consumers -> Steps]
      /\ job \in [Consumers -> Invocations \cup {NoJob}]
      /\ invStatus \in [Invocations -> Statuses]
      /\ NoJob \notin Invocations
      /\ \A d \in Consumers : pc[d] # "handle" => step[d] = "claim"
      /\ \A d \in Consumers : (pc[d] = "idle") <=> (job[d] = NoJob)
  BY ExecutionAssumption DEF ExecutionAssumption, TypeOK, Q!TypeOK
<1>2. /\ invStatus[i] \notin {"NOROW", "PENDING"}
      /\ \A d \in Consumers : job[d] = i => step[d] = "claim"
  BY DEF Unclaimable, Holds
<1>3. ASSUME UNCHANGED <<invStatus, step, job>>
      PROVE  Unclaimable(i)'
  BY <1>2, <1>3 DEF Unclaimable, Holds
<1>4. ASSUME NEW j \in Invocations, CreateInvocation(j)
      PROVE  Unclaimable(i)'
  BY <1>1, <1>2, <1>4 DEF Unclaimable, Holds, CreateInvocation, routerVars
<1>5. ASSUME NEW c \in Consumers, Deliver(c)
      PROVE  Unclaimable(i)'
  BY <1>1, <1>2, <1>5 DEF Unclaimable, Holds, Deliver, Q!Deliver, Q!Move, rowVars
<1>6. ASSUME NEW c \in Consumers, Claim(c)
      PROVE  Unclaimable(i)'
  BY <1>1, <1>2, <1>6
  DEF Unclaimable, Holds, Claim, At, Becomes, SetStatus, routerVars, Q!ReturnNil, Q!ReturnError
<1>7. ASSUME NEW c \in Consumers, RunSucceeds(c) \/ RunFails(c)
      PROVE  Unclaimable(i)'
  BY <1>1, <1>2, <1>7 DEF Unclaimable, Holds, RunSucceeds, RunFails, At, Becomes, routerVars, rowVars
<1>8. ASSUME NEW c \in Consumers, Reset(c) \/ Finish(c)
      PROVE  Unclaimable(i)'
  BY <1>1, <1>2, <1>8
  DEF Unclaimable, Holds, Reset, Finish, At, Becomes, SetStatus, SetStatusOrLog, Q!ReturnNil,
      Q!ReturnError
<1>9. ASSUME NEW c \in Consumers, Poison(c)
      PROVE  Unclaimable(i)'
  BY <1>1, <1>2, <1>9 DEF Unclaimable, Holds, Poison, SetStatus, SetStatusOrLog, Q!StatusWritten
<1>10. ASSUME NEW c \in Consumers, Ack(c) \/ DeadLetterFails(c)
       PROVE  Unclaimable(i)'
  BY <1>1, <1>2, <1>10
  DEF Unclaimable, Holds, Ack, DeadLetterFails, rowVars, Q!Ack, Q!Nack, Q!Released, Q!TryAgain
<1>11. CASE Crash
  BY <1>2, <1>11 DEF Unclaimable, Holds, Crash, rowVars
<1>12. ASSUME \/ \E f \in Functions : FunctionBuilt(f)
              \/ \E j \in Invocations, s \in PayloadSizes : LoadFunction(j, s)
              \/ \E j \in Invocations : PublishInvocation(j)
              \/ ServerCrash
              \/ \E c \in Consumers : Discard(c) \/ DeadLetter(c) \/ ConnectionLost(c)
              \/ Sigterm \/ Exit \/ Start
              \/ UNCHANGED vars
       PROVE  UNCHANGED <<invStatus, step, job>>
  BY <1>12 DEF FunctionBuilt, LoadFunction, PublishInvocation, ServerCrash, Discard,
     DeadLetter, ConnectionLost, Sigterm, Exit, Start, vars, rowVars, routerVars,
     Q!PublishLimited, Q!Enqueue, Q!routerVars, Q!ReturnNil, Q!DeadLetterSent, Q!ConnectionLost
<1>13. QED
  BY <1>3, <1>4, <1>5, <1>6, <1>7, <1>8, <1>9, <1>10, <1>11, <1>12
  DEF Next, ServerNext, ConsumerStep

\* A consumer at a run stays at it while consumers do anything but end its run.
LEMMA RunStays ==
    ASSUME TypeOK, NEW c \in Consumers, At(c, "run"), NEW d \in Consumers,
           OtherStep(d) \/ (d # c /\ (RunSucceeds(d) \/ RunFails(d)))
    PROVE  At(c, "run")' /\ job'[c] = job[c]
<1>1. /\ step \in [Consumers -> Steps]
      /\ pc \in [Consumers -> Q!Stages]
      /\ job \in [Consumers -> Invocations \cup {NoJob}]
      /\ pc[c] = "handle" /\ step[c] = "run"
  BY DEF TypeOK, Q!TypeOK, At
<1>2. CASE d # c
  BY <1>1, <1>2
  DEF OtherStep, At, Discard, Claim, RunSucceeds, RunFails, Reset, Finish, Poison, Deliver,
      DeadLetter, DeadLetterFails, Ack, ConnectionLost, Becomes, rowVars, routerVars,
      Q!ReturnNil, Q!ReturnError, Q!StatusWritten, Q!DeadLetterSent, Q!TryAgain, Q!Nack,
      Q!Ack, Q!Released, Q!Deliver, Q!ConnectionLost, Q!Move
<1>3. CASE d = c
  <2>1. ConnectionLost(c)
    BY <1>1, <1>3
    DEF OtherStep, At, Discard, Claim, Reset, Finish, Poison, Deliver, DeadLetter,
        DeadLetterFails, Ack, Q!StatusWritten, Q!DeadLetterSent, Q!TryAgain, Q!Nack,
        Q!Ack, Q!Deliver, Q!Move
  <2>2. QED
    BY <1>1, <2>1 DEF ConnectionLost, Q!ConnectionLost, At
<1>4. QED
  BY <1>2, <1>3

\* Servers, builders and the life of the service but its death leave consumers alone.
LEMMA ConsumersLeftAlone ==
    ASSUME \/ \E f \in Functions : FunctionBuilt(f)
           \/ ServerNext
           \/ Sigterm \/ Exit \/ Start
           \/ UNCHANGED vars
    PROVE  UNCHANGED <<step, pc, job>>
BY DEF FunctionBuilt, ServerNext, LoadFunction, CreateInvocation, PublishInvocation,
   ServerCrash, Sigterm, Exit, Start, vars, rowVars, routerVars,
   Q!PublishLimited, Q!Enqueue, Q!routerVars

\* A machine at full work after a step that starts none was there before it,
\* with the same owner unless the service has gone.
LEMMA RunningKept ==
    ASSUME VmServiceTypeOK, [VmServiceNext]_vmVars, ~ VmServiceCrash, ~ VmServiceExit,
           ~ (Starting /\ ~ UNCHANGED machines)
    PROVE  \A m \in machines' : m.life = "run" => m \in machines
<1>1. ASSUME NEW w, GuardCalled(w)
      PROVE  \A m \in machines' : m.life = "run" => m \in machines
  BY <1>1 DEF GuardCalled, MachineOf, VmServiceTypeOK, Machines
<1>2. ASSUME NEW w, Stopped(w)
      PROVE  \A m \in machines' : m.life = "run" => m \in machines
  BY <1>2 DEF Stopped
<1>3. QED
  BY <1>1, <1>2
  DEF VmServiceNext, Starting, FinishedRun, FailedRun, BuildEnds, MachineEnds, VmServiceStart,
      vmVars

\* No step of the machines breaks what is said of the work they do.
LEMMA WorkStep ==
    VmServiceTypeOK /\ ClaimInv /\ WorkInv /\ [VmServiceNext]_vmVars => WorkInv'
<1> SUFFICES ASSUME VmServiceTypeOK, ClaimInv, WorkInv, [VmServiceNext]_vmVars
             PROVE  WorkInv'
  OBVIOUS
<1>1. TypeOK /\ [Next]_vars /\ machines \subseteq Machines
  BY StepOfExecution DEF VmServiceTypeOK
<1>2. NoJob \notin Invocations /\ Builders \cap Consumers = {}
  BY ExecutionAssumption, VmServiceAssumption DEF ExecutionAssumption, VmServiceAssumption
<1>3. \A m \in Machines : m.of # NoJob => m.of \in Invocations
  BY DEF Machines
<1>4. \A i \in Invocations : Unclaimable(i) => Unclaimable(i)'
  BY <1>1, UnclaimableStays
<1>5. ASSUME NEW w \in Consumers \cup Builders, NEW i \in Invocations \cup {NoJob},
             NEW n \in Machines, Boot(w, i), UNCHANGED vars,
             n.by = w, n.of = i, n.life = "run", n.own, machines' = machines \cup {n},
             \/ w \in Consumers /\ i = job[w] /\ i \in Invocations /\ At(w, "run")
             \/ w \in Builders /\ i = NoJob
      PROVE  WorkInv'
  <2>1. \A m \in machines : ~ (m.own /\ m.life = "run" /\ m.by = w)
    BY <1>5 DEF Boot, MachineOf
  <2>2. \A c \in Consumers : (At(c, "run")' <=> At(c, "run")) /\ job'[c] = job[c]
    BY <1>5 DEF vars, routerVars, At
  <2>3. ASSUME i # NoJob, NEW m \in machines, m.life = "run", m.of = i
        PROVE  FALSE
    <3>1. w \in Consumers /\ i = job[w] /\ i \in Invocations /\ At(w, "run")
      BY <1>5, <2>3
    <3>2. Holds(w, i)
      BY <3>1 DEF Holds, At
    <3>3. m.own
      BY <2>3, <3>1, <3>2 DEF WorkInv, Unclaimable
    <3>4. At(m.by, "run") /\ job[m.by] = i /\ m.by \in Consumers
      BY <2>3, <3>3 DEF WorkInv
    <3>5. Holds(m.by, i)
      BY <3>4 DEF Holds, At
    <3>6. m.by = w
      BY <3>1, <3>2, <3>4, <3>5 DEF ClaimInv, SingleRunner
    <3>7. QED
      BY <2>1, <2>3, <3>3, <3>6
  <2>4. OneMachineAtWork'
    <3>1. ASSUME NEW m \in machines', NEW k \in machines', m.of = k.of, m.of # NoJob,
                 m.life = "run", k.life = "run"
          PROVE  m = k
      BY <1>5, <2>3, <3>1 DEF WorkInv, OneMachineAtWork
    <3>2. QED
      BY <3>1 DEF OneMachineAtWork
  <2>5. \A m \in machines' : m.life = "run" /\ m.of # NoJob => m.by \in Consumers
    BY <1>5 DEF WorkInv
  <2>6. \A m \in machines' : m.own /\ m.life = "run" /\ m.by \in Consumers =>
          At(m.by, "run")' /\ job'[m.by] = m.of
    BY <1>2, <1>5, <2>2 DEF WorkInv
  <2>7. \A m, k \in machines' :
          m.own /\ k.own /\ m.life = "run" /\ k.life = "run" /\ m.by = k.by => m = k
    BY <1>5, <2>1 DEF WorkInv
  <2>8. \A m \in machines' : ~ m.own /\ m.life = "run" /\ m.of # NoJob => Unclaimable(m.of)'
    BY <1>1, <1>3, <1>4, <1>5 DEF WorkInv
  <2>9. QED
    BY <2>4, <2>5, <2>6, <2>7, <2>8 DEF WorkInv
<1>6. ASSUME \A m \in machines' : m.life = "run" => m \in machines,
             \A m \in machines' : m.own /\ m.life = "run" /\ m.by \in Consumers =>
                At(m.by, "run")' /\ job'[m.by] = job[m.by]
      PROVE  WorkInv'
  <2>1. \A m \in machines' : ~ m.own /\ m.life = "run" /\ m.of # NoJob => Unclaimable(m.of)'
    BY <1>1, <1>3, <1>4, <1>6 DEF WorkInv
  <2>2. OneMachineAtWork'
    BY <1>6 DEF WorkInv, OneMachineAtWork
  <2>3. QED
    BY <1>6, <2>1, <2>2 DEF WorkInv
<1>7. ASSUME VmServiceCrash \/ VmServiceExit
      PROVE  WorkInv'
  <2> DEFINE orphan(m) == [m EXCEPT !.own = FALSE]
  <2>1. PICK left \in SUBSET machines : machines' = {orphan(m) : m \in left}
    BY <1>7 DEF VmServiceCrash, VmServiceExit, Abandoned
  <2>2. ASSUME NEW m \in Machines
        PROVE  /\ orphan(m).by = m.by /\ orphan(m).of = m.of
               /\ orphan(m).life = m.life /\ ~ orphan(m).own
    BY DEF Machines
  <2> HIDE DEF orphan
  <2>3. ASSUME NEW m \in machines, m.life = "run", m.of # NoJob
        PROVE  Unclaimable(m.of)'
    <3>1. m.by \in Consumers /\ m.of \in Invocations
      BY <1>1, <1>3, <2>3 DEF WorkInv
    <3>2. CASE ~ m.own
      BY <1>4, <2>3, <3>1, <3>2 DEF WorkInv
    <3>3. CASE m.own
      <4>1. At(m.by, "run") /\ job[m.by] = m.of
        BY <2>3, <3>1, <3>3 DEF WorkInv
      <4>2. Holds(m.by, m.of)
        BY <4>1 DEF At, Holds
      <4>3. invStatus[m.of] \notin {"NOROW", "PENDING"}
        BY <3>1, <4>2 DEF ClaimInv, ClaimGuards
      <4>4. ~ VmServiceExit
        BY <3>1, <4>1 DEF VmServiceExit, Exit, Q!AllIdle, At
      <4>5. Crash
        BY <1>7, <4>4 DEF VmServiceCrash
      <4>6. UNCHANGED invStatus /\ \A c \in Consumers : ~ Holds(c, m.of)'
        BY <4>5 DEF Crash, rowVars, Holds
      <4>7. QED
        BY <4>3, <4>6 DEF Unclaimable
    <3>4. QED
      BY <3>2, <3>3
  <2>4. \A m \in machines' : \E k \in machines :
           m = orphan(k) /\ m.by = k.by /\ m.of = k.of /\ m.life = k.life /\ ~ m.own
    BY <1>1, <2>1, <2>2
  <2>5. OneMachineAtWork'
    BY <2>4 DEF WorkInv, OneMachineAtWork
  <2>6. QED
    BY <2>3, <2>4, <2>5 DEF WorkInv
<1>8. ASSUME Starting, ~ UNCHANGED machines
      PROVE  WorkInv'
  BY <1>5, <1>8, StartingEffect, BootEffect
<1>9. ASSUME ~ VmServiceCrash, ~ VmServiceExit, ~ (Starting /\ ~ UNCHANGED machines),
             NEW m \in machines', m.own, m.life = "run", m.by \in Consumers
      PROVE  At(m.by, "run")' /\ job'[m.by] = job[m.by]
  <2>1. m \in machines
    BY <1>9, RunningKept
  <2>2. At(m.by, "run")
    BY <1>9, <2>1 DEF WorkInv
  <2>3. ASSUME NEW d \in Consumers, OtherStep(d)
        PROVE  At(m.by, "run")' /\ job'[m.by] = job[m.by]
    BY <1>1, <1>9, <2>2, <2>3, RunStays
  <2>4. ASSUME NEW d \in Consumers, StartFails(d) \/ FinishedRun(d) \/ FailedRun(d)
        PROVE  At(m.by, "run")' /\ job'[m.by] = job[m.by]
    <3>1. m \in MachineOf(m.by)
      BY <1>9, <2>1 DEF MachineOf
    <3>2. d # m.by
      <4>1. CASE StartFails(d)
        BY <3>1, <4>1 DEF StartFails, BootFails
      <4>2. CASE FinishedRun(d)
        BY <1>9, <3>1, <4>2 DEF FinishedRun, Stopped
      <4>3. CASE FailedRun(d)
        BY <1>1, <1>9, <3>1, <4>3 DEF FailedRun, GuardCalled, MachineOf, Machines
      <4>4. QED
        BY <2>4, <4>1, <4>2, <4>3
    <3>3. RunSucceeds(d) \/ RunFails(d)
      BY <2>4 DEF StartFails, FinishedRun, FailedRun
    <3>4. QED
      BY <1>1, <1>9, <2>2, <3>2, <3>3, RunStays
  <2>5. ASSUME UNCHANGED <<step, pc, job>>
        PROVE  At(m.by, "run")' /\ job'[m.by] = job[m.by]
    BY <2>2, <2>5 DEF At
  <2>6. CASE \/ \E f \in Functions : FunctionBuilt(f)
             \/ ServerNext
             \/ Sigterm \/ VmServiceStart
             \/ MachineEnds
             \/ \E b \in Builders : BuildMachine(b) \/ BuildEnds(b)
             \/ \E c \in Consumers : StartMachine(c)
             \/ UNCHANGED vmVars
    BY <2>5, <2>6, ConsumersLeftAlone
    DEF VmServiceStart, MachineEnds, BuildMachine, BuildEnds, StartMachine, vmVars
  <2>7. QED
    BY <1>9, <2>3, <2>4, <2>6 DEF VmServiceNext
<1>10. QED
  BY <1>6, <1>7, <1>8, <1>9, RunningKept

-----------------------------------------------------------------------------
\* The invariants hold together, on top of that of the claim.
LEMMA MachinesInvariant == VmServiceSpec => [](DownInv /\ CidInv /\ WorkInv)
<1>1. VmServiceInit => DownInv /\ CidInv /\ WorkInv
  <2> SUFFICES ASSUME VmServiceInit
               PROVE  DownInv /\ CidInv /\ WorkInv
    OBVIOUS
  <2>1. machines = {} /\ nextCid = FirstCid /\ starts = 0 /\ before = 0
    BY DEF VmServiceInit
  <2>2. DownInv
    BY <2>1 DEF DownInv, VmServiceInit, Init, Q!Init
  <2>3. CidInv
    <3>1. FirstCid = CidSpace * 0 + FirstCid /\ FirstCid \in 0 .. CidSpace - 1
      BY VmServiceAssumption DEF VmServiceAssumption, FirstCid
    <3>2. FirstCid % CidSpace = FirstCid
      BY <3>1, VmServiceAssumption, OneRemainder DEF VmServiceAssumption, FirstCid
    <3>3. FirstCid + (starts - before) = FirstCid
      BY <2>1 DEF FirstCid
    <3>4. QED
      BY <2>1, <3>2, <3>3 DEF CidInv, CidOf
  <2>4. WorkInv
    BY <2>1 DEF WorkInv, OneMachineAtWork
  <2>5. QED
    BY <2>2, <2>3, <2>4
<1>2. /\ VmServiceTypeOK /\ TypeOK /\ ClaimInv
      /\ DownInv /\ CidInv /\ WorkInv
      /\ [VmServiceNext]_vmVars
      => (DownInv /\ CidInv /\ WorkInv)'
  BY DownStep, CidStep, WorkStep
<1>3. QED
  BY <1>1, <1>2, VmServiceTypeCorrect, ClaimedHere, PTL DEF VmServiceSpec

(***************************************************************************)
(* Context ids are apart, however wide the counter and however many        *)
(* machines there have been: two machines of one process share an id only  *)
(* when the counter has gone round in between, and a reserved id comes     *)
(* only after the last of the others (cid.go:11-25, vm.go:77).             *)
(***************************************************************************)
THEOREM CidsAreApart == VmServiceSpec => []CidsApart
<1>1. VmServiceTypeOK /\ CidInv => CidsApart
  <2> SUFFICES ASSUME VmServiceTypeOK, CidInv,
                      NEW m \in machines, NEW k \in machines,
                      m.own, k.own, m.no < k.no
               PROVE  /\ m.cid = k.cid => k.no - m.no >= CidSpace
                      /\ k.cid < 3 => k.no + 3 >= before + CidSpace
    BY DEF CidsApart
  <2> DEFINE a == FirstCid + (m.no - before)
             b == FirstCid + (k.no - before)
  <2>1. /\ CidSpace \in Nat /\ CidSpace > 0 /\ CidSpace > 3
        /\ before \in Nat /\ m.no \in Nat /\ k.no \in Nat
    BY VmServiceAssumption DEF VmServiceAssumption, VmServiceTypeOK, Machines
  <2>2. before <= m.no /\ m.cid = CidOf(m.no) /\ k.cid = CidOf(k.no)
    BY DEF CidInv
  <2>3. /\ a \in Nat /\ b \in Nat /\ a < b /\ b - a = k.no - m.no
        /\ b >= 3 /\ b = 3 + (k.no - before)
    BY <2>1, <2>2 DEF FirstCid
  <2>4. m.cid = a % CidSpace /\ k.cid = b % CidSpace
    BY <2>2 DEF CidOf
  <2> HIDE DEF a, b
  <2>5. ASSUME m.cid = k.cid
        PROVE  k.no - m.no >= CidSpace
    <3>1. a % CidSpace = b % CidSpace
      BY <2>4, <2>5
    <3>2. b - a >= CidSpace
      BY <2>1, <2>3, <3>1, SameRemainder
    <3>3. QED
      BY <2>3, <3>2
  <2>6. ASSUME b < CidSpace
        PROVE  k.cid >= 3
    <3>1. b = CidSpace * 0 + b /\ b \in 0 .. CidSpace - 1
      BY <2>1, <2>3, <2>6
    <3>2. (b % CidSpace) = b
      BY <2>1, <2>3, <3>1, OneRemainder
    <3>3. QED
      BY <2>3, <2>4, <3>2
  <2>7. k.cid \in Nat
    BY VmServiceAssumption DEF VmServiceTypeOK, Machines, VmServiceAssumption
  <2>8. k.cid < 3 => k.no + 3 >= before + CidSpace
    BY <2>1, <2>3, <2>6, <2>7
  <2>9. QED
    BY <2>5, <2>8
<1>2. QED
  BY <1>1, VmServiceTypeCorrect, MachinesInvariant, PTL

(***************************************************************************)
(* Never do two machines work for one invocation, also across restarts of  *)
(* the service that leave machines behind (exec.go:24, :41, vm.go:166).    *)
(***************************************************************************)
THEOREM OneMachineWorks == VmServiceSpec => []OneMachineAtWork
<1>1. WorkInv => OneMachineAtWork
  BY DEF WorkInv
<1>2. QED
  BY <1>1, MachinesInvariant, PTL

(***************************************************************************)
(* Every machine at full work has a handler that waits for it, and every   *)
(* consumer at most one such machine (vm.go:166, exec.go:63).              *)
(***************************************************************************)
THEOREM WorkIsLookedAfter == VmServiceSpec => []WorkIsAttended
<1>1. WorkInv => WorkIsAttended
  BY DEF WorkInv, WorkIsAttended
<1>2. QED
  BY <1>1, MachinesInvariant, PTL
=============================================================================
