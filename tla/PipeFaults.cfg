SPECIFICATION CliSpec
CONSTANTS
    f1 = f1  f2 = f2  b1 = b1  b2 = b2
    NoFunction = NoFunction
    Functions = {f1}
    Builders = {b1, b2}
    Budgets <- AnyFaults
    BusCapacity = 1
    MaxRetries = 1
SYMMETRY Symmetry
CHECK_DEADLOCK FALSE
INVARIANT CliTypeOK
INVARIANT OnlySafeIsBuilt
INVARIANT ReadyIsInvokable
INVARIANT ArchiveIsSomewhere
INVARIANT WorkspaceIsClean
