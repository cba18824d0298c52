SPECIFICATION FairSpec
CONSTANTS
    i1 = i1  i2 = i2  c1 = c1  c2 = c2  f1 = f1
    NoJob = NoJob
    Invocations = {i1}
    Consumers = {c1}
    Functions = {f1}
    FunctionOf <- MCFunctionOf
    Budgets <- OneSigterm
    PayloadSizes <- Taken
    MaxLength = 2
    MaxRetries = 1
CHECK_DEADLOCK FALSE
PROPERTY AcceptedSettles
