SPECIFICATION FairSpec
CONSTANTS
    i1 = i1  i2 = i2  c1 = c1  c2 = c2  f1 = f1
    NoJob = NoJob
    Invocations = {i1, i2}
    Consumers = {c1, c2}
    Functions = {f1}
    FunctionOf <- MCFunctionOf
    Budgets <- BrokerFaults
    PayloadSizes <- Small
    MaxLength = 2
    MaxRetries = 1
CHECK_DEADLOCK FALSE
INVARIANT Attended
PROPERTY AcceptedSettles
