----------------------------- MODULE TcpServer -----------------------------
(***************************************************************************)
(* muduo::net::TcpServer with its Acceptor and EventLoopThreadPool: the    *)
(* base loop accepts and keeps the map of connections, I/O loops serve     *)
(* them, and both meet only through functors.  Descriptors are a limited   *)
(* resource of the process; the Acceptor keeps one in reserve (idleFd_) so *)
(* that it can refuse a connection when there are none left.               *)
(*                                                                         *)
(* Loop 0 is the base loop; 1 .. numThreads_ are the I/O loops.  With no   *)
(* I/O threads the base loop serves the connections, and every runInLoop   *)
(* is a direct call.                                                       *)
(***************************************************************************)
EXTENDS Naturals, Sequences, FiniteSets, FiniteSetsExt

CONSTANTS
    ThreadNums,     \* the values given to setThreadNum
    MaxClients,     \* bound on the clients that ever connect, and on nextConnId_
    FdLimit,        \* descriptors left to this server and to MaxOthers
    MaxOthers,      \* descriptors other threads of the process open
    MaxStarts       \* calls of start()

ASSUME ServerAssumption ==
    /\ ThreadNums \subseteq Nat
    /\ {MaxClients, FdLimit, MaxOthers, MaxStarts} \subseteq Nat
    /\ FdLimit > 0

VARIABLES
    numThreads_,
    starts,         \* calls of start() so far
    listenning_,
    backlog,        \* clients the kernel has queued on the listening socket
    clients,        \* clients that have come so far
    base,           \* the base thread: "idle", in start(), or in handleRead's EMFILE branch
    idleFd_,        \* "null device", "socket" (just accepted) or "none" (-1)
    others,         \* descriptors opened by other threads
    taken,          \* another thread opened one while the reserve was given up
    nextConnId_,
    next_,          \* EventLoopThreadPool::next_, counted from 0
    connections_,   \* ids of the connections in the map
    conn,           \* id -> [loop, state]; "held" is destroyed but still pointed to
    queue           \* loop -> its pending functors

serverVars == <<numThreads_, starts, listenning_, backlog, clients, base, idleFd_, others, taken,
                nextConnId_, next_, connections_, conn, queue>>

ConnIds == 1 .. MaxClients

ServerInit ==
    /\ numThreads_ \in ThreadNums
    /\ starts = 0
    /\ listenning_ = FALSE
    /\ backlog = 0
    /\ clients = 0
    /\ base = "idle"
    /\ idleFd_ = "null device"
    /\ others = 0
    /\ taken = FALSE
    /\ nextConnId_ = 1
    /\ next_ = 0
    /\ connections_ = {}
    /\ conn = [c \in ConnIds |-> [loop |-> 0, state |-> "none"]]
    /\ queue = [l \in 0 .. numThreads_ |-> <<>>]

\* Descriptors in use: the reserve, the connections' sockets, the others.
SocketsOpen == {c \in ConnIds : conn[c].state # "none"}
Used == others + Cardinality(SocketsOpen) + (IF idleFd_ = "none" THEN 0 ELSE 1)
FdsLeft == Used < FdLimit

Functor(name, c) == [name |-> name, conn |-> c]

SetState(c, s) == [conn EXCEPT ![c].state = s]

-----------------------------------------------------------------------------
(* The world outside                                                       *)

ClientConnects ==
    /\ listenning_
    /\ clients < MaxClients
    /\ clients' = clients + 1
    /\ backlog' = backlog + 1
    /\ UNCHANGED <<numThreads_, starts, listenning_, base, idleFd_, others, taken, nextConnId_, next_,
                   connections_, conn, queue>>

\* A queued client gives up before it is accepted.
ClientAborts ==
    /\ backlog > 0
    /\ backlog' = backlog - 1
    /\ UNCHANGED <<numThreads_, starts, listenning_, clients, base, idleFd_, others, taken,
                   nextConnId_, next_, connections_, conn, queue>>

OtherOpens ==
    /\ FdsLeft
    /\ others < MaxOthers
    /\ others' = others + 1
    /\ taken' = (taken \/ base \notin {"idle", "starting"})
    /\ UNCHANGED <<numThreads_, starts, listenning_, backlog, clients, base, idleFd_, nextConnId_,
                   next_, connections_, conn, queue>>

OtherCloses ==
    /\ others > 0
    /\ others' = others - 1
    /\ UNCHANGED <<numThreads_, starts, listenning_, backlog, clients, base, idleFd_, taken,
                   nextConnId_, next_, connections_, conn, queue>>

-----------------------------------------------------------------------------
(* The base loop: TcpServer and Acceptor                                   *)

\* start(), first called in the base thread (threadPool_->start asserts it): the
\* I/O threads are started ...
Start ==
    /\ starts = 0 /\ MaxStarts > 0
    /\ starts' = 1
    /\ base' = "starting"
    /\ UNCHANGED <<numThreads_, listenning_, backlog, clients, idleFd_, others, taken, nextConnId_,
                   next_, connections_, conn, queue>>

\* ... and runInLoop calls listen() at once.
StartListens ==
    /\ base = "starting"
    /\ base' = "idle"
    /\ listenning_' = TRUE
    /\ UNCHANGED <<numThreads_, starts, backlog, clients, idleFd_, others, taken, nextConnId_, next_,
                   connections_, conn, queue>>

\* Another thread calls start() too; before anything listens it queues listen().
StartAgain ==
    /\ starts \in 1 .. MaxStarts - 1
    /\ starts' = starts + 1
    /\ queue' = IF listenning_ THEN queue
                ELSE [queue EXCEPT ![0] = Append(@, Functor("listen", 0))]
    /\ UNCHANGED <<numThreads_, listenning_, backlog, clients, base, idleFd_, others, taken,
                   nextConnId_, next_, connections_, conn>>

\* getNextLoop advances its index round robin.
NextAfter(n) == IF n + 1 >= numThreads_ THEN 0 ELSE n + 1

GetNextLoop == IF numThreads_ = 0 THEN 0 ELSE next_ + 1

\* newConnection: pick a loop, enter the map, and have the loop establish it.
NewConnection ==
    LET c == nextConnId_
        l == GetNextLoop
    IN  /\ nextConnId_' = nextConnId_ + 1
        /\ next_' = IF numThreads_ = 0 THEN next_ ELSE NextAfter(next_)
        /\ connections_' = connections_ \cup {c}
        /\ IF l = 0
           THEN conn' = [conn EXCEPT ![c] = [loop |-> 0, state |-> "up"]] /\ UNCHANGED queue
           ELSE /\ conn' = [conn EXCEPT ![c] = [loop |-> l, state |-> "connecting"]]
                /\ queue' = [queue EXCEPT ![l] = Append(@, Functor("connectEstablished", c))]

\* Acceptor::handleRead with a descriptor left.
Accept ==
    /\ listenning_ /\ base = "idle"
    /\ backlog > 0
    /\ FdsLeft
    /\ backlog' = backlog - 1
    /\ NewConnection
    /\ UNCHANGED <<numThreads_, starts, listenning_, clients, base, idleFd_, others, taken>>

\* Mutant of GiveUpReserve: the reserve is not closed before the next accept().
GiveUpReserveKeeps ==
    /\ listenning_ /\ base = "idle"
    /\ backlog > 0 /\ ~FdsLeft
    /\ base' = "reserve closed"
    /\ UNCHANGED <<numThreads_, starts, listenning_, backlog, clients, idleFd_, others, taken,
                   nextConnId_, next_, connections_, conn, queue>>

\* accept() fails with EMFILE: close(idleFd_) ...
GiveUpReserve ==
    /\ listenning_ /\ base = "idle"
    /\ backlog > 0
    /\ ~FdsLeft
    /\ base' = "reserve closed"
    /\ idleFd_' = "none"
    /\ UNCHANGED <<numThreads_, starts, listenning_, backlog, clients, others, taken, nextConnId_, next_,
                   connections_, conn, queue>>

\* ... idleFd_ = accept(): fails when the client has gone or the slot is taken ...
AcceptIntoReserve ==
    /\ base = "reserve closed"
    /\ base' = "accepted"
    /\ IF backlog > 0 /\ FdsLeft
       THEN backlog' = backlog - 1 /\ idleFd_' = "socket"
       ELSE UNCHANGED <<backlog, idleFd_>>
    /\ UNCHANGED <<numThreads_, starts, listenning_, clients, others, taken, nextConnId_, next_,
                   connections_, conn, queue>>

\* ... close(idleFd_) ...
CloseRefused ==
    /\ base = "accepted"
    /\ base' = "refused"
    /\ idleFd_' = "none"
    /\ UNCHANGED <<numThreads_, starts, listenning_, backlog, clients, others, taken, nextConnId_, next_,
                   connections_, conn, queue>>

\* Mutant of RestoreReserve: the reserve is not opened again.
RestoreReserveForgotten ==
    /\ base = "refused" /\ base' = "idle"
    /\ UNCHANGED <<numThreads_, starts, listenning_, backlog, clients, idleFd_, others, taken,
                   nextConnId_, next_, connections_, conn, queue>>

\* ... idleFd_ = open("/dev/null"), which may fail.
RestoreReserve ==
    /\ base = "refused"
    /\ base' = "idle"
    /\ idleFd_' = IF FdsLeft THEN "null device" ELSE "none"
    /\ UNCHANGED <<numThreads_, starts, listenning_, backlog, clients, others, taken, nextConnId_, next_,
                   connections_, conn, queue>>

-----------------------------------------------------------------------------
(* All loops                                                               *)

\* Mutant of RemoveConnectionInLoop: the base loop destroys the connection by
\* a functor of its own queue only when it serves it.
RemoveConnectionInLoopLocal(c, q) ==
    /\ connections_' = connections_ \ {c}
    /\ queue' = IF conn[c].loop # 0 THEN q
                ELSE [q EXCEPT ![0] = Append(@, Functor("connectDestroyed", c))]

\* removeConnectionInLoop, in the base loop; q are the queues it finds.
RemoveConnectionInLoop(c, q) ==
    /\ connections_' = connections_ \ {c}
    /\ queue' = [q EXCEPT ![conn[c].loop] = Append(@, Functor("connectDestroyed", c))]

\* Mutant of RemoveConnection: an I/O loop takes the map's part for done.
RemoveConnectionSkipsMap(c) ==
    /\ queue' = [queue EXCEPT ![conn[c].loop] = Append(@, Functor("connectDestroyed", c))]
    /\ UNCHANGED connections_

\* removeConnection: through the base loop, which may be this one.
RemoveConnection(c) ==
    IF conn[c].loop = 0
    THEN RemoveConnectionInLoop(c, queue)
    ELSE /\ queue' = [queue EXCEPT ![0] = Append(@, Functor("removeConnectionInLoop", c))]
         /\ UNCHANGED connections_

\* A connection's handleClose, in its own loop.
HandleClose(c) ==
    /\ conn[c].state = "up"
    /\ conn[c].loop = 0 => base = "idle"
    /\ conn' = SetState(c, "closed")
    /\ RemoveConnection(c)
    /\ UNCHANGED <<numThreads_, starts, listenning_, backlog, clients, base, idleFd_, others, taken,
                   nextConnId_, next_>>

\* The next functor of loop l.
RunFunctor(l) ==
    /\ l \in DOMAIN queue
    /\ l = 0 => base = "idle"
    /\ queue[l] # <<>>
    /\ LET f    == Head(queue[l])
           rest == [queue EXCEPT ![l] = Tail(@)]
       IN  \/ /\ f.name = "listen"
              /\ listenning_' = TRUE
              /\ queue' = rest
              /\ UNCHANGED <<connections_, conn>>
           \/ /\ f.name = "connectEstablished"
              /\ conn' = SetState(f.conn, "up")
              /\ queue' = rest
              /\ UNCHANGED <<listenning_, connections_>>
           \/ /\ f.name = "removeConnectionInLoop"
              /\ RemoveConnectionInLoop(f.conn, rest)
              /\ UNCHANGED <<listenning_, conn>>
           \/ /\ f.name = "connectDestroyed"
              /\ conn' = SetState(f.conn, "held")
              /\ queue' = rest
              /\ UNCHANGED <<listenning_, connections_>>
    /\ UNCHANGED <<numThreads_, starts, backlog, clients, base, idleFd_, others, taken, nextConnId_,
                   next_>>

\* The last TcpConnectionPtr goes (the proxy's messages hold some): ~Socket
\* closes the descriptor.
LastPointerDropped(c) ==
    /\ conn[c].state = "held"
    /\ conn' = SetState(c, "none")
    /\ UNCHANGED <<numThreads_, starts, listenning_, backlog, clients, base, idleFd_, others, taken,
                   nextConnId_, next_, connections_, queue>>

-----------------------------------------------------------------------------
HandleRead == Accept \/ GiveUpReserve \/ AcceptIntoReserve \/ CloseRefused \/ RestoreReserve

ServerNext ==
    \/ ClientConnects \/ ClientAborts \/ OtherOpens \/ OtherCloses
    \/ Start \/ StartListens \/ StartAgain \/ HandleRead
    \/ \E l \in DOMAIN queue : RunFunctor(l)
    \/ \E c \in ConnIds : HandleClose(c) \/ LastPointerDropped(c)

ServerSpec == ServerInit /\ [][ServerNext]_serverVars

\* Every loop runs its functors, the base loop between any two of its events;
\* it keeps polling the listening socket; pointers to dead connections are dropped.  Nobody has to connect,
\* to close or to free a descriptor.
ServerFairness ==
    /\ WF_serverVars(HandleRead)
    /\ SF_serverVars(RunFunctor(0))
    /\ \A l \in 1 .. Max(ThreadNums) : WF_serverVars(RunFunctor(l))
    /\ \A c \in ConnIds : WF_serverVars(LastPointerDropped(c))

FairServerSpec == ServerSpec /\ ServerFairness

-----------------------------------------------------------------------------
(* Properties                                                              *)

\* The map and the functors agree on every connection: it is in the map until
\* exactly one removeConnectionInLoop takes it out (assert(n == 1), TcpServer.cc
\* 163), and it is destroyed by one functor, never before it was established.
MapMatchesFunctors ==
    \A c \in ConnIds :
        LET queued(name) == UNION {{<<l, i>> : i \in {j \in DOMAIN queue[l] :
                                        queue[l][j] = Functor(name, c)}} : l \in DOMAIN queue}
        IN  /\ c \in connections_ <=>
                   \/ conn[c].state \in {"connecting", "up"}
                   \/ queued("removeConnectionInLoop") # {}
            /\ Cardinality(queued("removeConnectionInLoop") \cup queued("connectDestroyed")) =
                   (IF conn[c].state = "closed" THEN 1 ELSE 0)
            /\ conn[c].state = "connecting" <=> queued("connectEstablished") # {}

\* The descriptors never exceed the limit, and the Acceptor has its reserve
\* whenever it waits, unless another thread took the slot inside the EMFILE branch.
ReserveIsKept ==
    /\ Used <= FdLimit
    /\ base = "idle" /\ idleFd_ # "null device" => idleFd_ = "none" /\ taken

\* Waiting clients are accepted or refused even when every descriptor is in use,
\* unless another thread took the reserve's slot: the base loop does not spin on
\* EMFILE, and no socket that accept() returned keeps it from its reserve.
BacklogDrains ==
    (backlog > 0) ~> (backlog = 0 \/ taken)

\* A connection that closed leaves the map, is destroyed in its own loop, and
\* its descriptor comes back.
ClosedIsForgotten ==
    \A c \in ConnIds : (conn[c].state = "closed") ~> (c \notin connections_ /\ conn[c].state = "none")

=============================================================================
