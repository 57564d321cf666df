\* main.cc starts the server with one I/O thread: the message outlived by its reader.
CONSTANTS
    c1 = c1
    c2 = c2
    r1 = r1
    r2 = r2
    r3 = r3
    NumServers = 2
    NConns = 1
    Commands = {r1, r2, r3}
    preConnection = TRUE
    NDEBUG = TRUE
    Clients = {c1, c2}
    connOf <- MCconnOf
    serverOf <- MCtwoServers
    Queries = {r1, r3}
    Malformed = {}
    numThreads = 1
    Word = 16
    NoClient = NoClient
    NoRequest = NoRequest
SPECIFICATION Spec
INVARIANT ServedWithOwnMessage
\* A failed assertion ends the process.
CHECK_DEADLOCK FALSE
