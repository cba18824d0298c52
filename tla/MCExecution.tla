---------------------------- MODULE MCExecution ----------------------------
(* Small instances of Execution for TLC. *)
EXTENDS Execution, TLC

CONSTANTS i1, i2, c1, c2, f1

MCFunctionOf == [i \in Invocations |-> f1]

Symmetry == Permutations(Invocations) \cup Permutations(Consumers)

NoFaults == [k \in FaultKinds |-> 0]

\* Every kind of fault, each once.
AnyFaults == {[k \in FaultKinds |-> 1]}

\* No connection is lost, and no process dies where statements may fail.
RowFaults ==
    {[NoFaults EXCEPT !["db"] = 2, !["amqp"] = 2, !["sigterm"] = 1],
     [NoFaults EXCEPT !["crash"] = 2, !["amqp"] = 1, !["sigterm"] = 1]}

\* What a healthy service has to get over: broker trouble, but no lost write.
BrokerFaults == {[NoFaults EXCEPT !["amqp"] = 2, !["loss"] = 2]}

OneSigterm == {[NoFaults EXCEPT !["sigterm"] = 1]}
Calm == {NoFaults}

\* A small payload; one with so many quotes in it that its message is beyond the
\* limit of the VM service; and one beyond the limit of the server.
Payload(sent, quoted) == [sent |-> sent, quoted |-> quoted]
Small == {Payload(2, 2)}
Taken == Small \cup {Payload(maxPayloadBytes \div 2, maxPayloadBytes)}
Refused == Taken \cup {Payload(MaxPayloadSize + 1, MaxPayloadSize + 1)}
=============================================================================
