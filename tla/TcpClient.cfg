\* Two TcpConnection objects, one more than are undestroyed at once; three delays.
CONSTANTS
    Conns = {1, 2}
    kInitRetryDelayMs = 1
    kMaxRetryDelayMs = 3
SPECIFICATION FairClientSpec
INVARIANTS ConnectorNeverAborts SocketsAccounted StopStops
PROPERTY EventuallyConnects
\* A stopped client without a connection has nothing to do.
CHECK_DEADLOCK FALSE
