\* Three answers of three units each against every close and partial write.
CONSTANTS
    MsgLen = 3
    MaxSends = 3
SPECIFICATION FairTcpSpec
INVARIANTS BareThisIsSafe DataBeforeFin
PROPERTIES ClosedIsDestroyed ShutdownTakesEffect
\* A connection comes to its end.
CHECK_DEADLOCK FALSE
