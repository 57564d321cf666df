\* One thread; three requests compete for the two connections of one server.
CONSTANTS
    c1 = c1
    c2 = c2
    r1 = r1
    r2 = r2
    r3 = r3
    NumServers = 1
    NConns = 2
    Commands = {r1, r2, r3}
    preConnection = TRUE
    NDEBUG = TRUE
    Clients = {c1, c2}
    connOf <- MCconnOf
    serverOf <- MCsameServer
    Queries = {r1, r3}
    Malformed = {r2}
    numThreads = 0
    Word = 16
    NoClient = NoClient
    NoRequest = NoRequest
SPECIFICATION FairSpec
INVARIANTS SlotInOneMap OnePending ChannelBacksInterest CallbacksFindTheirSlot
PROPERTY PendingAnswered
\* A failed assertion ends the process.
CHECK_DEADLOCK FALSE
