\* With and without I/O threads; four clients, of which two fit.
CONSTANTS
    ThreadNums = {0, 2}
    MaxClients = 4
    FdLimit = 3
    MaxOthers = 1
    MaxStarts = 2
SPECIFICATION FairServerSpec
INVARIANTS MapMatchesFunctors ReserveIsKept
PROPERTIES BacklogDrains ClosedIsForgotten
\* All clients have come and gone.
CHECK_DEADLOCK FALSE
