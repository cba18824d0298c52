SPECIFICATION CliSpec
CONSTANTS
    f1 = f1  f2 = f2  b1 = b1  b2 = b2
    NoFunction = NoFunction
    Functions = {f1}
    Builders = {b1}
    Budgets <- Calm
    BusCapacity = 1
    MaxRetries = 1
CHECK_DEADLOCK FALSE
INVARIANT FinalIsFinal
