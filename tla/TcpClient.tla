----------------------------- MODULE TcpClient -----------------------------
(***************************************************************************)
(* muduo::net::TcpClient over its Connector: the loop's thread runs the    *)
(* Connector's events, retry timers and queued functors and makes and      *)
(* closes the connections; another thread calls connect() once, and then   *)
(* stop() and disconnect(), each in the steps other threads can see.       *)
(***************************************************************************)
EXTENDS Connector, FiniteSets

CONSTANTS
    Conns       \* TcpConnection objects; one is reused once it is destroyed

ASSUME ConnsAssumption == Conns # {} /\ Conns \subseteq Nat \ {0}

VARIABLES
    connector_,     \* the Connector
    retry_,         \* reconnect when a connection is lost
    connect_,       \* TcpClient::connect_
    connection_,    \* the current TcpConnection, 0 for none
    conn,           \* TcpConnection -> "none", "up", "closed" (connectDestroyed is queued)
    phase,          \* the loop: "poll", "handled" an event, or running "functors"
    batch,          \* the functors of the batch
    restarting,     \* removeConnection has passed its test and is about to restart()
    user,           \* the thread that calls connect() and stop()
    disconnector,   \* the thread that calls disconnect()
    alive,          \* ~TcpClient has not run
    keepAlive,      \* its runAfter(1, removeConnector) holds the Connector
    overtaken       \* a restart() that had passed its test ran after stop() had begun

clientVars == <<connector_, retry_, connect_, connection_, conn, phase, batch, restarting, user,
                disconnector, alive, keepAlive, overtaken>>

lifeVars == <<alive, keepAlive>>

\* Nothing holds a ConnectorPtr any more: not the client, not the functor of its
\* destructor, not a retry timer.
ConnectorGone == ~alive /\ ~keepAlive /\ connector_.timers = 0

\* A functor other than connectDestroyed has the Connector's bare this.
BareThis(q) == \E i \in DOMAIN q : q[i].name # "connectDestroyed"

\* ~Connector has run while channel_ was set, which its assertion forbids, or while
\* a functor with a bare this was still to run.  Nothing is said of what follows.
Dangling ==
    ConnectorGone /\ (connector_.channel_ # "null" \/ BareThis(connector_.queue) \/ BareThis(batch))

ClientInit ==
    /\ connector_ = NewConnector
    /\ retry_ \in BOOLEAN
    /\ connect_ = TRUE
    /\ connection_ = 0
    /\ conn = [c \in Conns |-> "none"]
    /\ phase = "poll"
    /\ batch = <<>>
    /\ restarting = FALSE
    /\ user = "new"
    /\ disconnector = "new"
    /\ alive = TRUE
    /\ keepAlive = FALSE
    /\ overtaken = FALSE

-----------------------------------------------------------------------------
(* Other threads                                                           *)

\* connect(): nothing of this client runs yet, so its steps need no telling apart.
UserConnect ==
    /\ user = "new"
    /\ user' = "started"
    /\ connect_' = TRUE
    /\ connector_' = Queue([connector_ EXCEPT !.connect_ = TRUE], "startInLoop", 0)
    /\ UNCHANGED <<lifeVars, retry_, connection_, conn, phase, batch, restarting, disconnector, overtaken>>

\* stop(): TcpClient's flag, the Connector's flag, the functor.
UserStop ==
    /\ alive
    /\ \/ /\ user = "started" /\ user' = "stop client"
          /\ connect_' = FALSE
          /\ UNCHANGED connector_
       \/ /\ user = "stop client" /\ user' = "stop connector"
          /\ connector_' = [connector_ EXCEPT !.connect_ = FALSE]
          /\ UNCHANGED connect_
       \/ /\ user = "stop connector" /\ user' = "stopped"
          /\ connector_' = Queue(connector_, "stopInLoop", 0)
          /\ UNCHANGED connect_
    /\ UNCHANGED <<lifeVars, retry_, connection_, conn, phase, batch, restarting, disconnector, overtaken>>

\* disconnect(): the flag, then shutdown() of the current connection, which
\* reaches the loop as the peer closing it.
Disconnect ==
    /\ user # "new" /\ alive
    /\ disconnector = "new" /\ disconnector' = "done"
    /\ connect_' = FALSE
    /\ UNCHANGED <<lifeVars, connector_, retry_, connection_, conn, phase, batch, restarting, user, overtaken>>

-----------------------------------------------------------------------------
(* The loop's thread                                                       *)

\* At most one of this client's events is ready in one iteration: a retry
\* timer, a connecting socket and a connection never exist at the same time.
Event == phase = "poll" /\ phase' = "handled"

\* The retry timer.  Timing assumption: its delay, half a second at least, is
\* longer than the loop takes to come to the resetChannel queued before it.
TimerFires(result) ==
    /\ Event
    /\ connector_.timers > 0
    /\ connector_.channel_ # "removed"
    /\ connector_' = StartInLoop([connector_ EXCEPT !.timers = @ - 1], result)
    /\ UNCHANGED <<lifeVars, retry_, connect_, connection_, conn, batch, restarting, user, disconnector,
                   overtaken>>

\* The socket is writable and has an error, or is connected to itself; POLLERR
\* may come alone or with POLLOUT, handleError first.
AttemptFails(events) ==
    /\ Event
    /\ connector_.channel_ = "watched"
    /\ connector_' = CASE events = {"err"} -> HandleError(connector_)
                       [] events = {"out"} -> HandleWriteFailed(connector_)
                       [] OTHER            -> HandleWriteFailed(HandleError(connector_))
    /\ UNCHANGED <<lifeVars, retry_, connect_, connection_, conn, batch, restarting, user, disconnector,
                   overtaken>>

\* handleWrite on a connected socket, with newConnection() when it is wanted.
AttemptSucceeds ==
    /\ Event
    /\ connector_.channel_ = "watched"
    /\ connector_.state_ = "kConnecting"
    /\ connector_' = HandleWriteConnected(connector_)
    /\ IF connector_.connect_
       THEN LET c == CHOOSE x \in Conns : conn[x] = "none" IN
            /\ conn' = [conn EXCEPT ![c] = "up"]
            /\ connection_' = c
       ELSE UNCHANGED <<conn, connection_>>
    /\ UNCHANGED <<lifeVars, retry_, connect_, batch, restarting, user, disconnector, overtaken>>

\* handleClose of a connection calls removeConnection, up to its test of connect_;
\* once the client is destroyed, detail::removeConnection, which only queues.
RemoveConnection(c) ==
    /\ Event
    /\ conn[c] = "up"
    /\ conn' = [conn EXCEPT ![c] = "closed"]
    /\ connection_' = 0
    /\ connector_' = Queue(Assert(connector_, alive => connection_ = c), "connectDestroyed", c)
    /\ restarting' = (alive /\ retry_ /\ connect_)
    /\ UNCHANGED <<lifeVars, retry_, connect_, batch, user, disconnector, overtaken>>

\* ... and the restart().
RemoveConnectionRestarts(result) ==
    /\ restarting
    /\ restarting' = FALSE
    /\ connector_' = Restart(connector_, result)
    /\ overtaken' = (overtaken \/ user \notin {"new", "started"})
    /\ UNCHANGED <<lifeVars, retry_, connect_, connection_, conn, phase, batch, user, disconnector>>

\* ~TcpClient anywhere in the loop's thread: in a handler of its own, in one that
\* follows in the same iteration, at the end of newConnection() in the client's own
\* connectionCallback_, or in a functor before or between those of the batch; no
\* other thread is inside a call.  With a connection the Connector is let go at
\* once; without one it is stopped and held for another second.
Destroy ==
    /\ ~restarting
    /\ phase' = IF phase = "poll" THEN "handled" ELSE phase
    /\ alive /\ alive' = FALSE
    /\ user \in {"started", "stopped"}
    /\ IF connection_ # 0
       THEN UNCHANGED <<connector_, keepAlive>>
       ELSE /\ connector_' = StopInLoop([connector_ EXCEPT !.connect_ = FALSE])
            /\ keepAlive' = TRUE
    /\ UNCHANGED <<retry_, connect_, connection_, conn, batch, restarting, user, disconnector,
                   overtaken>>

\* That second is over, long after the functors queued before it have run.
RemoveConnector ==
    /\ Event
    /\ keepAlive /\ keepAlive' = FALSE
    /\ connector_.channel_ # "removed" /\ connector_.queue = <<>>
    /\ UNCHANGED <<connector_, retry_, connect_, connection_, conn, batch, restarting, user,
                   disconnector, alive, overtaken>>

\* doPendingFunctors: the queue becomes the batch ...
DoPendingFunctors ==
    /\ ~restarting
    /\ phase = "handled" \/ (phase = "poll" /\ connector_.queue # <<>>)
    /\ phase' = "functors"
    /\ batch' = connector_.queue
    /\ connector_' = [connector_ EXCEPT !.queue = <<>>]
    /\ UNCHANGED <<lifeVars, retry_, connect_, connection_, conn, restarting, user, disconnector, overtaken>>

\* ... and is run in order; what the functors queue waits for the next batch.
RunFunctor(result) ==
    /\ phase = "functors"
    /\ batch # <<>>
    /\ LET f == Head(batch) IN
        /\ connector_' = CASE f.name = "startInLoop"      -> StartInLoop(connector_, result)
                           [] f.name = "stopInLoop"       -> StopInLoop(connector_)
                           [] f.name = "resetChannel"     -> ResetChannel(connector_)
                           [] f.name = "connectDestroyed" -> [connector_ EXCEPT !.sockets = @ - 1]
        /\ conn' = [c \in Conns |-> IF f.conn = c THEN "none" ELSE conn[c]]
    /\ batch' = Tail(batch)
    /\ UNCHANGED <<lifeVars, retry_, connect_, connection_, phase, restarting, user, disconnector, overtaken>>

FunctorsDone ==
    /\ phase = "functors"
    /\ batch = <<>>
    /\ phase' = "poll"
    /\ UNCHANGED <<lifeVars, connector_, retry_, connect_, connection_, conn, batch, restarting, user,
                   disconnector, overtaken>>

-----------------------------------------------------------------------------
Functors == DoPendingFunctors \/ FunctorsDone \/ \E r \in ConnectResults : RunFunctor(r)

Running == ~connector_.aborted /\ ~Dangling

ClientNext ==
    /\ Running
    /\ \/ UserConnect \/ UserStop \/ Disconnect
       \/ \E r \in ConnectResults : TimerFires(r) \/ RemoveConnectionRestarts(r)
       \/ \E events \in {{"err"}, {"out"}, {"err", "out"}} : AttemptFails(events)
       \/ AttemptSucceeds
       \/ \E c \in Conns : RemoveConnection(c)
       \/ Destroy \/ RemoveConnector
       \/ Functors

ClientSpec == ClientInit /\ [][ClientNext]_clientVars

\* The loop keeps running, timers fire, a pending ::connect is answered one way
\* or the other, and the server is reachable: of infinitely many retries one is
\* not refused at once, of infinitely many attempts one succeeds.  The users need
\* not do anything.
ClientFairness ==
    /\ WF_clientVars(Running /\ Functors)
    /\ WF_clientVars(\E r \in ConnectResults : TimerFires(r) \/ RemoveConnectionRestarts(r))
    /\ SF_clientVars(TimerFires("in progress"))
    /\ SF_clientVars(AttemptSucceeds)

FairClientSpec == ClientSpec /\ ClientFairness

-----------------------------------------------------------------------------
(* Properties                                                              *)

\* With one connect(), whatever stop(), disconnect(), lost connections, retry
\* timers and errors do, the assertions about the Connector's state hold: an
\* attempt starts only when there is none, and only after resetChannel has run
\* (Connector.cc 52, 135, 204, 211; TcpClient.cc 170).
\* And no path of retry timers, stop() and the second removeConnector waits lets
\* the Connector go (39) too early: only ~TcpClient with a connection does, which
\* does not wait for the resetChannel that newConnection() ran ahead of, or for a
\* stopInLoop; even then the poller has no channel that leads to the Connector.
ConnectorNeverAborts ==
    /\ ~connector_.aborted
    /\ Dangling =>
        /\ connection_ # 0 /\ connector_.channel_ # "watched"
        /\ \A q \in {connector_.queue, batch} : \A i \in DOMAIN q : q[i].name # "startInLoop"

\* Every open socket belongs to the attempt under way or to a connection whose
\* connectDestroyed has not run: no path through retries and stop leaks one.
SocketsAccounted ==
    connector_.sockets = (IF connector_.channel_ = "watched" THEN 1 ELSE 0)
                         + Cardinality({c \in Conns : conn[c] # "none"})

\* Once stop() has returned and stopInLoop has run there is no attempt and there
\* never is one again, though retry timers are not cancelled ("FIXME: cancel
\* timer"): the exception is a restart() that overtook stop().
StopStops ==
    (/\ user = "stopped" /\ ~overtaken
     /\ \A i \in DOMAIN batch : batch[i].name # "stopInLoop"
     /\ \A i \in DOMAIN connector_.queue : connector_.queue[i].name # "stopInLoop")
        => connector_.state_ # "kConnecting" /\ connector_.channel_ # "watched"

\* A client that is started, or lost its connection and restarts, gets one,
\* through any number of failed attempts and growing delays, unless it is
\* stopped or destroyed or ::connect fails for good.
EventuallyConnects ==
    (user = "started" /\ connector_.state_ # "kConnected")
        ~> (connection_ # 0 \/ user # "started" \/ connector_.gaveUp \/ ~alive)

=============================================================================
