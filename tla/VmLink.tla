------------------------------- MODULE VmLink -------------------------------
(***************************************************************************)
(* What the goroutines of one microVM run and the agent in the guest       *)
(* share: the run's context, the machine, and the vsock connection, which  *)
(* Firecracker proxies to a Unix socket (vm/vm/vm.go, agentproto).         *)
(***************************************************************************)
EXTENDS Naturals, Sequences

CONSTANTS
    Lines,              \* how many lines the child may write
    WireSize            \* messages that fit between the agent and the host

ASSUME LinkAssumption == Lines \in Nat /\ WireSize \in Nat \ {0}

VARIABLES
    kind,               \* "exec" or "build"
    ctx,                \* execCtx: "live", or "done" by time limit or cancellation
    machine,            \* "none", "running", "dying" (signalled) or "stopped"
    conn,               \* the host's end: "none", "open" or "closed"
    command,            \* whether the command has reached the agent's socket
    wire                \* messages on their way to the host

linkVars == <<kind, ctx, machine, conn, command, wire>>

Output == {"stdout", "stderr"}
Channels == Output \cup {"system"}

\* The n-th line of a channel, and the end of the job with an exit code.
Line(channel, n) == [type |-> "output", of |-> channel, n |-> n]
DoneMessage(code) == [type |-> "done", of |-> "system", n |-> code]

ExitCodes == {0, 1}
Messages == [type : {"output"}, of : Channels, n : 1..(Lines + 2)]
            \cup {DoneMessage(code) : code \in ExitCodes}

LinkTypeOK ==
    /\ kind \in {"exec", "build"}
    /\ ctx \in {"live", "done"}
    /\ machine \in {"none", "running", "dying", "stopped"}
    /\ conn \in {"none", "open", "closed"}
    /\ command \in BOOLEAN
    /\ wire \in Seq(Messages) /\ Len(wire) <= WireSize

LinkInit ==
    /\ kind \in {"exec", "build"}
    /\ ctx = "live"
    /\ machine = "none"
    /\ conn = "none"
    /\ command = FALSE
    /\ wire = <<>>

GuestRuns == machine \in {"running", "dying"}

\* Conn.Send in the guest: it waits for room, and its errors are dropped.
AgentSends(m) ==
    /\ \/ conn = "open" /\ Len(wire) < WireSize /\ wire' = Append(wire, m)
       \/ conn = "closed" /\ UNCHANGED wire
    /\ UNCHANGED <<kind, ctx, machine, conn, command>>

CloseConn == conn' = "closed"
=============================================================================
