SPECIFICATION CliFairSpec
CONSTANTS
    f1 = f1  f2 = f2  b1 = b1  b2 = b2
    NoFunction = NoFunction
    Functions = {f1, f2}
    Builders = {b1, b2}
    Budgets <- Redeliveries
    BusCapacity = 2
    MaxRetries = 1
CHECK_DEADLOCK FALSE
INVARIANT NobodyIsForgotten
INVARIANT OneBuilder
PROPERTY PollingEnds
PROPERTY SafeIsBuilt
