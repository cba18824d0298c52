SPECIFICATION VmServiceSpec
CONSTANTS
    i1 = i1  i2 = i2  c1 = c1  c2 = c2  f1 = f1  b1 = b1
    NoJob = NoJob
    Invocations = {i1}
    Consumers = {c1, c2}
    Builders = {b1}
    Functions = {f1}
    FunctionOf <- MCFunctionOf
    Budgets <- AnyFaults
    PayloadSizes <- Small
    MaxLength = 1
    MaxRetries = 1
    CidSpace = 4
    MaxStarts = 3
CHECK_DEADLOCK FALSE
SYMMETRY Symmetry
INVARIANT VmServiceTypeOK
INVARIANT SingleRunner
INVARIANT CompletesOnce
INVARIANT CidsApart
INVARIANT OneMachineAtWork
INVARIANT WorkIsAttended
