----------------------------- MODULE MCPipeline -----------------------------
(* Small instances of FunctionPipeline for TLC. *)
EXTENDS FunctionPipeline, TLC

CONSTANTS f1, f2, b1, b2

Symmetry == Permutations(Functions) \cup Permutations(Builders)

NoFaults == [k \in FaultKinds |-> 0]

\* Every kind of fault, each once, but a shutdown and a lost connection, which meet
\* without the others.
Each == [k \in FaultKinds |-> 1]
AnyFaults ==
    {[Each EXCEPT !["sigterm"] = 0], [Each EXCEPT !["loss"] = 0],
     [NoFaults EXCEPT !["loss"] = 1, !["redelivery"] = 1, !["sigterm"] = 1]}

\* No statement fails and no message is delivered twice.
RowFaults ==
    {[NoFaults EXCEPT !["minio"] = 1, !["amqp"] = 1, !["crash"] = 2,
                      !["tool"] = 1, !["sigterm"] = 1]}

\* A lost connection, with its message that comes back while its handler goes on.
Redeliveries == {[NoFaults EXCEPT !["loss"] = 1]}

Calm == {NoFaults}
=============================================================================
