\* The assertion in userDisconnectCallback.
CONSTANTS
    NumServers = 2
    NConns = 2
    Commands = {c1, c2}
    preConnection = TRUE
    NDEBUG = TRUE
SPECIFICATION HiredisSpec
INVARIANT DisconnectFindsBusySlot
\* A failed assertion ends the process.
CHECK_DEADLOCK FALSE
