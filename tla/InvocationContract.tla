------------------------- MODULE InvocationContract -------------------------
(***************************************************************************)
(* What the platform promises about one row of the invocations table,      *)
(* seen by a client that polls it: it appears as PENDING, is worked on by  *)
(* one worker at a time, may be put back any number of times, and ends     *)
(* either DONE after exactly one finished run or FAILED after none.        *)
(***************************************************************************)
EXTENDS Naturals

CONSTANT Invocations

VARIABLES
    status,         \* the status a client reads
    finished,       \* how many runs of the function finished
    worked          \* is a worker at it?

vars == <<status, finished, worked>>

Init ==
    /\ status = [i \in Invocations |-> "NOROW"]
    /\ finished = [i \in Invocations |-> 0]
    /\ worked = [i \in Invocations |-> FALSE]

Becomes(i, from, to) ==
    /\ status[i] \in from
    /\ status' = [status EXCEPT ![i] = to]

Create(i) ==
    /\ Becomes(i, {"NOROW"}, "PENDING")
    /\ UNCHANGED <<finished, worked>>

\* A worker whose claim was applied but not confirmed does not start.
Claim(i) ==
    /\ Becomes(i, {"PENDING"}, "EXECUTING")
    /\ worked' \in {worked, [worked EXCEPT ![i] = TRUE]}
    /\ UNCHANGED finished

FinishRun(i) ==
    /\ worked[i]
    /\ finished[i] = 0
    /\ finished' = [finished EXCEPT ![i] = 1]
    /\ UNCHANGED <<status, worked>>

\* The worker lets go: the row is put back, or its last write is lost.
PutBack(i) ==
    /\ worked[i] /\ finished[i] = 0
    /\ status' \in {status, [status EXCEPT ![i] = "PENDING"]}
    /\ worked' = [worked EXCEPT ![i] = FALSE]
    /\ UNCHANGED finished

Complete(i) ==
    /\ worked[i] /\ finished[i] = 1
    /\ status[i] = "EXECUTING"
    /\ status' \in {status, [status EXCEPT ![i] = "DONE"]}
    /\ worked' = [worked EXCEPT ![i] = FALSE]
    /\ UNCHANGED finished

GiveUp(i) ==
    /\ Becomes(i, {"PENDING", "EXECUTING"}, "FAILED")
    /\ ~ worked[i] /\ finished[i] = 0
    /\ UNCHANGED <<finished, worked>>

\* Workers die together; their rows stay as they are.
WorkersDie ==
    /\ worked' = [i \in Invocations |-> FALSE]
    /\ UNCHANGED <<status, finished>>

Next ==
    \/ WorkersDie
    \/ \E i \in Invocations :
         \/ Create(i)
         \/ Claim(i)
         \/ FinishRun(i)
         \/ PutBack(i)
         \/ Complete(i)
         \/ GiveUp(i)

Spec == Init /\ [][Next]_vars
=============================================================================
