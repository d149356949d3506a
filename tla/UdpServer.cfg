SPECIFICATION FairSpec
CONSTANTS
    NumCpus = 5
    MaxPackets = 4
INVARIANTS
    QueueWellFormed
    PoppedInOrder
    NoUseAfterFree
    SomeWorkerAwake
PROPERTY EveryPacketHandled
CHECK_DEADLOCK FALSE
