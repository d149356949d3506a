SPECIFICATION Spec
CONSTANTS
    Sessions = {s1, s2}
    MaxMsgs = 2
    MaxChat = 1
SYMMETRY Symmetry
INVARIANTS
    SkippedForRepeated
    OneWriteAtATime
    DeliveredInOrder
    NoFreedSession
CHECK_DEADLOCK FALSE
