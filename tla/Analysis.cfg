SPECIFICATION FairSpec
CONSTANTS
    MaxTotalSize = 2
    MaxFiles = 2
    MaxAllowedBytes = 4
    MaxEntries = 3
    MaxRuns = 2
    MaxFindings = 1
    Faults <- EachOnce
    Archives <- SmallArchives
CHECK_DEADLOCK FALSE
INVARIANT TypeOK
INVARIANT NothingIsCutSilently
INVARIANT PassedIsUnpacked
INVARIANT SamplesAreStopped
INVARIANT BehaviorIsOurs
PROPERTY DetonationEnds
PROPERTY ImplementsContract
