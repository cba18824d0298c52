SPECIFICATION FairSpec
CONSTANTS
    Lines = 2
    WireSize = 1
    PipeSize = 1
    LongLines = TRUE
CHECK_DEADLOCK FALSE
INVARIANT TypeOK
INVARIANT DetailsTellAll
INVARIANT SavedDriveIsFinal
INVARIANT GoodRunIsStopped
PROPERTY NothingHangs
