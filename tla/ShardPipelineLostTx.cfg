SPECIFICATION Spec
CONSTANTS
    MaxTx = 3
    MaxTorn = 1
INVARIANT AcceptedNotLost
