------------------------------ MODULE Platform ------------------------------
(***************************************************************************)
(* What every service of oblak stands on: the life of the VM service       *)
(* process (cmd/vm/main.go), and the faults of its environment.  A         *)
(* behaviour begins with a fault budget taken from Budgets; each fault     *)
(* spends one unit of its kind, so a run of TLC explores exactly the fault *)
(* profiles its configuration lists.                                       *)
(***************************************************************************)
EXTENDS Naturals

CONSTANT Budgets        \* the fault profiles a behaviour may start with

VARIABLES
    vmState,            \* the VM service process: "up", "stopping" or "down"
    budget              \* how many faults of each kind may still happen

platformVars == <<vmState, budget>>

(***************************************************************************)
(* db:          a statement of a service on Postgres fails                 *)
(* minio:       a transfer of MinIO fails, or its answer is lost            *)
(* amqp:        a publish, or the dial before it, fails                    *)
(* loss:        a consumer of the VM service loses its connection          *)
(* redelivery:  the Ack of the analyzer is lost with its connection        *)
(* tool:        a tool of the analyzer cannot be run                       *)
(* crash:       a process dies without warning                             *)
(* sigterm:     the VM service is asked to stop                            *)
(***************************************************************************)
FaultKinds ==
    {"db", "minio", "amqp", "loss", "redelivery", "tool", "crash", "sigterm"}

ASSUME BudgetsAssumption == Budgets \subseteq [FaultKinds -> Nat]

VmStates == {"up", "stopping", "down"}

PlatformTypeOK ==
    /\ vmState \in VmStates
    /\ budget \in [FaultKinds -> Nat]

PlatformInit ==
    /\ vmState = "up"
    /\ budget \in Budgets

Spend(kind) ==
    /\ budget[kind] > 0
    /\ budget' = [budget EXCEPT ![kind] = @ - 1]

(***************************************************************************)
(* The outcomes of one SQL statement that a handler of the VM service runs *)
(* under msg.Context().  That context dies with the SIGTERM context, after *)
(* which pgx refuses the statement before sending it.                      *)
(***************************************************************************)
DbOk == vmState = "up" /\ UNCHANGED budget

DbRefused ==
    \/ vmState = "up" /\ Spend("db")
    \/ vmState = "stopping" /\ UNCHANGED budget

\* Postgres applied the statement, but the caller sees an error.
DbReplyLost == vmState = "up" /\ Spend("db")

\* The signal handler cancels the context that main gave to the router.
CancelContext ==
    /\ vmState = "up"
    /\ Spend("sigterm")
    /\ vmState' = "stopping"

ProcessExits ==
    /\ vmState = "stopping"
    /\ vmState' = "down"
    /\ UNCHANGED budget

ProcessCrashes ==
    /\ vmState # "down"
    /\ Spend("crash")
    /\ vmState' = "down"

ProcessStarts ==
    /\ vmState = "down"
    /\ vmState' = "up"
    /\ UNCHANGED budget
=============================================================================
