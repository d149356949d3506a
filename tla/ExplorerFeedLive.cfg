SPECIFICATION FairSpec
CONSTANTS
    Sessions = {s1}
    MaxMsgs = 2
    MaxChat = 1
PROPERTIES
    PostedIsDelivered
    FailedSessionLeaves
CHECK_DEADLOCK FALSE
