SPECIFICATION FairSpec
CONSTANTS
    Readers = {r1, r2}
    MaxCommits = 2
    MaxHandles = 3
    MaxFaults = 2
    MaxCrashes = 1
INVARIANTS
    LeakIsReported
PROPERTIES
    ImplementsAtomicStore
    WedgedForGood
    ReadsReturn
CHECK_DEADLOCK FALSE
