----------------------------- MODULE VmService ------------------------------
(***************************************************************************)
(* The microVMs of the VM service while its consumers come and go: the     *)
(* runs of Execution get a machine each (vm/vm/exec.go, vm/vm/vm.go), the  *)
(* build consumers start machines beside them, and both take their context *)
(* ids from one counter (vm/vm/cid.go).  MAX_CONCURRENT_VMS is read and    *)
(* looked at by nobody: the consumers alone limit how many machines run.   *)
(*                                                                         *)
(* A machine outlives its run: the guard of StartMachine tears it down in  *)
(* a goroutine nobody waits for, and a Firecracker process may outlive the *)
(* service that started it.                                                *)
(***************************************************************************)
EXTENDS Execution

CONSTANTS
    Builders,           \* MAX_CONCURRENT_BUILDS consumers of the build queue
    CidSpace,           \* how many values the counter of cid.go has: 2^32 in the code
    MaxStarts           \* bound: machines started in a behaviour

ASSUME VmServiceAssumption ==
    /\ CidSpace \in Nat /\ CidSpace > 3
    /\ MaxStarts \in Nat
    /\ Builders \cap Consumers = {}

VARIABLES
    nextCid,            \* the counter of cid.go
    starts,             \* how many context ids have been given out so far
    before,             \* those given out before the process that is up began
    machines            \* the machines that are alive

counterVars == <<nextCid, starts, before>>
vmVars == <<vars, counterVars, machines>>

FirstCid == 3

Machines ==
    [no : Nat, cid : 0 .. CidSpace - 1, by : Consumers \cup Builders,
     of : Invocations \cup {NoJob},
     life : {"run", "stop"},        \* stop: its guard has been called
     own : BOOLEAN]                 \* was it started by the process that is up?

VmServiceInit ==
    /\ Init
    /\ nextCid = FirstCid
    /\ starts = 0
    /\ before = 0
    /\ machines = {}

MachineOf(w) == {m \in machines : m.by = w /\ m.life = "run" /\ m.own}

\* Mutant of AllocateCid: the first id that no run is using is given out again.
AllocateFreeCid ==
    /\ starts < MaxStarts
    /\ starts' = starts + 1
    /\ nextCid' \in {k \in 0 .. CidSpace - 1 :
                        \A m \in machines' : m.life = "run" => m.cid # k}
    /\ UNCHANGED before

(***************************************************************************)
(* StartMachine: the id is taken before Firecracker is asked, and is not   *)
(* given back when it refuses.  The context is not looked at.              *)
(***************************************************************************)
AllocateCid ==
    /\ starts < MaxStarts
    /\ starts' = starts + 1
    /\ nextCid' = (nextCid + 1) % CidSpace
    /\ UNCHANGED before

Boot(w, i) ==
    /\ MachineOf(w) = {}
    /\ machines' = machines \cup {[no |-> starts, cid |-> nextCid, by |-> w, of |-> i,
                                   life |-> "run", own |-> TRUE]}
    /\ AllocateCid

\* Firecracker refuses to be configured or to start.
BootFails(w) ==
    /\ MachineOf(w) = {}
    /\ UNCHANGED machines
    /\ AllocateCid

\* A good run has stopped its machine before it returns.
Stopped(w) == machines' = machines \ MachineOf(w)

\* Mutant of GuardCalled: the guard waits for the machine alone, not for the context.
GuardNotCalled(w) == UNCHANGED machines

\* The deferred cancel ends the machine's context, and its guard calls Stop.
GuardCalled(w) ==
    machines' = (machines \ MachineOf(w))
                \cup {[m EXCEPT !.life = "stop"] : m \in MachineOf(w)}

StartMachine(c) ==
    /\ At(c, "run")
    /\ Boot(c, job[c])
    /\ UNCHANGED vars

StartFails(c) ==
    /\ RunFails(c)
    /\ BootFails(c)

FinishedRun(c) ==
    /\ MachineOf(c) # {}
    /\ RunSucceeds(c)
    /\ Stopped(c)
    /\ UNCHANGED counterVars

FailedRun(c) ==
    /\ RunFails(c)
    /\ GuardCalled(c)
    /\ UNCHANGED counterVars

\* What the build consumers do with machines; Build has the rest of it.
BuildMachine(b) ==
    /\ vmState # "down"
    /\ Boot(b, NoJob) \/ BootFails(b)
    /\ UNCHANGED vars

BuildEnds(b) ==
    /\ MachineOf(b) # {}
    /\ \/ vmState = "up" /\ Stopped(b)
       \/ GuardCalled(b)
    /\ UNCHANGED <<vars, counterVars>>

\* Stop returns.  A machine without its service ends when its function does.
MachineEnds ==
    /\ \E m \in machines :
          /\ m.life = "stop" \/ ~ m.own
          /\ machines' = machines \ {m}
    /\ UNCHANGED <<vars, counterVars>>

\* The Firecracker processes may die with the service, or stay behind.
Abandoned == \E left \in SUBSET machines :
    machines' = {[m EXCEPT !.own = FALSE] : m \in left}

VmServiceCrash ==
    /\ Crash
    /\ Abandoned
    /\ UNCHANGED counterVars

\* main returns when both queues' handlers have; nobody waits for the guards.
VmServiceExit ==
    /\ Exit
    /\ \A b \in Builders : MachineOf(b) = {}
    /\ Abandoned
    /\ UNCHANGED counterVars

VmServiceStart ==
    /\ Start
    /\ nextCid' = FirstCid
    /\ before' = starts
    /\ UNCHANGED <<starts, machines>>

OtherStep(c) ==
    \/ Deliver(c) \/ Discard(c) \/ Claim(c) \/ Reset(c) \/ Finish(c)
    \/ Poison(c) \/ DeadLetter(c) \/ DeadLetterFails(c) \/ Ack(c)
    \/ ConnectionLost(c)

VmServiceNext ==
    \/ /\ \/ \E f \in Functions : FunctionBuilt(f)
          \/ ServerNext
          \/ Sigterm
          \/ \E c \in Consumers : OtherStep(c)
       /\ UNCHANGED <<counterVars, machines>>
    \/ \E c \in Consumers : StartMachine(c) \/ StartFails(c) \/ FinishedRun(c) \/ FailedRun(c)
    \/ \E b \in Builders : BuildMachine(b) \/ BuildEnds(b)
    \/ MachineEnds
    \/ VmServiceCrash \/ VmServiceExit \/ VmServiceStart

VmServiceSpec == VmServiceInit /\ [][VmServiceNext]_vmVars

-----------------------------------------------------------------------------
\* The shapes of the machines, and of all Execution has.
VmServiceTypeOK ==
    /\ TypeOK
    /\ nextCid \in 0 .. CidSpace - 1
    /\ starts \in Nat /\ before \in 0 .. starts
    /\ machines \subseteq Machines

(***************************************************************************)
(* Two machines of one process have the same context id only if all ids    *)
(* there are have been given out in between, and none has a reserved id    *)
(* (0 to 2) before that: neither a machine that is still being torn down   *)
(* nor a start that failed gives its id back (cid.go:11, vm.go:77).  On    *)
(* the code's 32 bits that takes one machine to outlive 2^32 others.       *)
(***************************************************************************)
CidsApart ==
    \A m, k \in machines : m.own /\ k.own /\ m.no < k.no =>
        /\ m.cid = k.cid => k.no - m.no >= CidSpace
        /\ k.cid < 3 => k.no + 3 >= before + CidSpace

(***************************************************************************)
(* Of the machines that work for one invocation, all but one have had      *)
(* their guard called: a retry may begin while the machine of the failed   *)
(* run is still going down, but a machine that a dead process left behind  *)
(* at full work never gets company, for its row stays EXECUTING (exec.go   *)
(* :24, :41, vm.go:166).                                                   *)
(***************************************************************************)
OneMachineAtWork ==
    \A m, k \in machines :
        m.of = k.of /\ m.of # NoJob /\ m.life = "run" /\ k.life = "run" => m = k

(***************************************************************************)
(* No machine of this process works unattended: a run that has returned,   *)
(* whatever ended it, leaves a machine that is stopped or whose guard has  *)
(* been called.  So no more machines work than there are consumers, which  *)
(* is the only limit on them (vm.go:166, exec.go:63, config.go:44).        *)
(***************************************************************************)
WorkIsAttended ==
    \A m \in machines : m.own /\ m.life = "run" =>
        /\ m.by \in Consumers => At(m.by, "run") /\ job[m.by] = m.of
        /\ \A k \in machines : k.own /\ k.life = "run" /\ k.by = m.by => k = m
=============================================================================
