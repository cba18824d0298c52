SPECIFICATION Spec
CONSTANTS
    i1 = i1  i2 = i2  c1 = c1  c2 = c2  f1 = f1
    NoJob = NoJob
    Invocations = {i1, i2}
    Consumers = {c1, c2}
    Functions = {f1}
    FunctionOf <- MCFunctionOf
    Budgets <- RowFaults
    PayloadSizes <- Refused
    MaxLength = 1
    MaxRetries = 1
CHECK_DEADLOCK FALSE
INVARIANT DoneHasLog
INVARIANT FailureIsHonest
PROPERTY ImplementsContract
