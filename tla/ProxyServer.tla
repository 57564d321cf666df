---------------------------- MODULE ProxyServer ----------------------------
(***************************************************************************)
(* The redis proxy: ProxyServer over HiredisPool.  Clients connect and     *)
(* send requests (Query, Set); each is handed to the base event loop,      *)
(* which sends a redis command on a free connection of the server the key  *)
(* hashes to and remembers, in clientConns_, which client that connection  *)
(* is working for.  When hiredis reports the reply, the client found there *)
(* gets it and its connection is shut down.                                *)
(*                                                                         *)
(* A member of Commands is one request, as an occurrence: it is read once, *)
(* from the client connOf[r].  Its key and value are left out but for what *)
(* they decide: serverOf[r] is the redis server the key hashes to, and     *)
(* Malformed holds the requests whose text hiredis refuses to format.      *)
(***************************************************************************)
EXTENDS Hiredis

CONSTANTS
    Clients,        \* client connections, each used once
    connOf,         \* the client that sends a request
    serverOf,       \* hashFun_(key) % poolSize_
    Queries,        \* the requests that are Query messages; the rest are Set
    Malformed,
    numThreads,     \* the third argument of ProxyServer::ProxyServer
    Word,           \* 2^32 in the code: the stride of genUniqueConId
    NoClient,
    NoRequest

ASSUME ClientsAssumption ==
    /\ connOf \in [Commands -> Clients]
    /\ serverOf \in [Commands -> Servers]
    /\ Queries \subseteq Commands
    /\ Malformed \subseteq Commands
    /\ NoClient \notin Clients
    /\ NoRequest \notin Commands
ASSUME ThreadsAssumption == numThreads \in {0, 1}
\* A connection id fits in the low half of a 64-bit id.
ASSUME WordAssumption == Word \in Nat /\ NConns <= Word /\ Word > 0

VARIABLES
    clientConns_,       \* ProxyServer::clientConns_; NoClient where it has no entry
    pendingFunctors_,   \* requests queued for the base loop by runInLoop
    dispatching,        \* the request whose callback is on the I/O thread's stack
    received,           \* requests the I/O thread has read so far
    text,               \* the request whose key and value a request was served with
    connState,          \* TcpConnection::state_ of every client
    delivered           \* the requests whose reply was handed to a client's send()

queues == <<pendingFunctors_, dispatching, received>>
proxyVars == <<clientConns_, queues, text, connState, delivered>>
vars == <<hiredisVars, proxyVars>>

\* Mutants of genUniqueConId: cut to 32 bits, and the connection left out.
genUniqueConIdCut(serverId, conId) == conId
\* db::genUniqueConId: a negative connId is sign extended to 64 bits and the
\* bits of the server id are lost in it.
genUniqueConId(serverId, conId) ==
    IF conId < 0 THEN conId ELSE serverId * Word + conId

UniqueConIds == {genUniqueConId(s, c) : s \in Servers, c \in ConnIds \cup {-1}}

ConnStates == {"kConnecting", "kConnected", "kDisconnecting", "kDisconnected"}

TypeOK ==
    /\ HiredisTypeOK
    /\ clientConns_ \in [UniqueConIds -> Clients \cup {NoClient}]
    /\ pendingFunctors_ \in Seq(Commands)
    /\ dispatching \in Commands \cup {NoRequest}
    /\ received \subseteq Commands
    /\ text \in [Commands -> Commands \cup {NoRequest}]
    /\ connState \in [Clients -> ConnStates]
    /\ delivered \in [Clients -> Seq(Commands)]

Init ==
    /\ HiredisInit
    /\ clientConns_ = [id \in UniqueConIds |-> NoClient]
    /\ pendingFunctors_ = <<>>
    /\ dispatching = NoRequest
    /\ received = {}
    /\ text = [r \in Commands |-> NoRequest]
    /\ connState = [c \in Clients |-> "kConnecting"]
    /\ delivered = [c \in Clients |-> <<>>]

-----------------------------------------------------------------------------
(* The client side, in the I/O thread (the base loop's when numThreads = 0) *)

\* The I/O thread is between two events.
IoIdle == Alive /\ dispatching = NoRequest

\* TcpServer::newConnection and connectEstablished; onConnection only logs.
\* The server listens once start() has connected the back end.
OnConnection(c) ==
    /\ IoIdle
    /\ started
    /\ connState[c] = "kConnecting"
    /\ connState' = [connState EXCEPT ![c] = "kConnected"]
    /\ UNCHANGED <<hiredisVars, clientConns_, queues, text, delivered>>

\* The client closes, or the connection fails: TcpConnection::handleClose.
OnClose(c) ==
    /\ IoIdle
    /\ connState[c] \in {"kConnected", "kDisconnecting"}
    /\ connState' = [connState EXCEPT ![c] = "kDisconnected"]
    /\ UNCHANGED <<hiredisVars, clientConns_, queues, text, delivered>>

\* ProtobufCodec::defaultErrorCallback: a frame that does not parse.
OnCodecError(c) ==
    /\ IoIdle
    /\ connState[c] = "kConnected"
    /\ connState' = [connState EXCEPT ![c] = "kDisconnecting"]
    /\ UNCHANGED <<hiredisVars, clientConns_, queues, text, delivered>>

-----------------------------------------------------------------------------
(* Requests                                                                *)

\* queryInLoop and setInLoop for request r, reading its key and value from
\* the message of request q: command() picks a connection, or none and leaves
\* conId at -1, and the client is recorded under the id either way (what
\* command() returned is not looked at).
RequestInLoop(r, q) ==
    LET serverId == serverOf[q] IN
    /\ \/ \E conId \in ConnIds :
            /\ Command(<<serverId, conId>>, r, q \notin Malformed)
            /\ clientConns_' = [clientConns_ EXCEPT
                                  ![genUniqueConId(serverId, conId)] = connOf[r]]
       \/ /\ CommandRefused(serverId)
          /\ clientConns_' = [clientConns_ EXCEPT
                                ![genUniqueConId(serverId, -1)] = connOf[r]]
    /\ text' = [text EXCEPT ![r] = q]

\* ProtobufCodec::onMessage has a whole request of a client and dispatches it.
\* runInLoop calls the handler at once in the loop's own thread; from the I/O
\* thread it queues it with the connection by value and the message by
\* reference (std::ref(message)).
OnRequest(r) ==
    /\ IoIdle
    /\ r \notin received
    /\ connState[connOf[r]] \in {"kConnected", "kDisconnecting"}
    /\ received' = received \cup {r}
    /\ IF numThreads = 0
       THEN RequestInLoop(r, r) /\ UNCHANGED <<pendingFunctors_, dispatching>>
       ELSE /\ pendingFunctors_' = Append(pendingFunctors_, r)
            /\ dispatching' = r
            /\ UNCHANGED <<hiredisVars, clientConns_, text>>
    /\ UNCHANGED <<connState, delivered>>

OnQuery(r) == r \in Queries /\ OnRequest(r)

OnSet(r) == r \notin Queries /\ OnRequest(r)

\* CallbackT::onMessage returns: concrete, the shared pointer the queued
\* handler refers to, is destroyed.
OnMessageReturn ==
    /\ Alive
    /\ dispatching # NoRequest
    /\ dispatching' = NoRequest
    /\ UNCHANGED <<hiredisVars, clientConns_, pendingFunctors_, received, text,
                   connState, delivered>>

\* The base loop takes the functor it calls out of the queue.
TakeFunctor == pendingFunctors_' = Tail(pendingFunctors_)

\* EventLoop::doPendingFunctors in the base loop.  While the dispatch is still
\* on the I/O thread's stack the handler finds its own message; afterwards the
\* stack slot holds whatever the thread left there: its own or another
\* request's pointer, or something that ends the process.
RunFunctor ==
    /\ Alive
    /\ pendingFunctors_ # <<>>
    /\ LET r == Head(pendingFunctors_) IN
       \/ /\ \E q \in received : (dispatching = r => q = r) /\ RequestInLoop(r, q)
          /\ TakeFunctor
       \/ /\ dispatching # r
          /\ Fail("message")
          /\ UNCHANGED <<clientConns_, pendingFunctors_, text>>
    /\ UNCHANGED <<dispatching, received, connState, delivered>>

-----------------------------------------------------------------------------
(* Replies                                                                 *)

\* Mutant of CommandCallback: the connection is not shut down.
CommandCallbackKeepsOpen(x) ==
    LET c == clientConns_[genUniqueConId(x[1], x[2])] IN
    /\ delivered' = IF c # NoClient /\ connState[c] = "kConnected"
                    THEN [delivered EXCEPT ![c] = Append(@, Head(replies[x]))]
                    ELSE delivered
    /\ UNCHANGED connState

\* ProxyServer::commandCallback for the command waiting on slot x: send the
\* reply to the client recorded for the connection (TcpConnection::send only
\* sends while connected) and shut that connection down.
CommandCallback(x) ==
    LET c == clientConns_[genUniqueConId(x[1], x[2])] IN
    IF c # NoClient /\ connState[c] = "kConnected"
    THEN /\ delivered' = [delivered EXCEPT ![c] = Append(@, Head(replies[x]))]
         /\ connState' = [connState EXCEPT ![c] = "kDisconnecting"]
    ELSE UNCHANGED <<delivered, connState>>

OnReply(x) ==
    /\ HandleReply(x)
    /\ CommandCallback(x)
    /\ UNCHANGED <<clientConns_, queues, text>>

\* A redis connection goes down; a command waiting on it is answered with an
\* empty reply (redisReplyToString(NULL)) before the disconnect is reported.
OnRedisDisconnect(x) ==
    /\ HandleDisconnect(x)
    /\ IF replies[x] # <<>> THEN CommandCallback(x) ELSE UNCHANGED <<delivered, connState>>
    /\ UNCHANGED <<clientConns_, queues, text>>

\* ProxyServer::start and the channel events no client notices.
RedisEvent ==
    /\ \/ Connect
       \/ ConnectError
       \/ \E x \in Slots : \/ HandleConnect(x)
                           \/ HandleConnectFailed(x)
                           \/ DestroyChannelInHandler(x)
                           \/ HandleWrite(x)
    /\ UNCHANGED proxyVars

Next ==
    \/ \E c \in Clients : OnConnection(c) \/ OnClose(c) \/ OnCodecError(c)
    \/ \E r \in Commands : OnQuery(r) \/ OnSet(r)
    \/ OnMessageReturn
    \/ RunFunctor
    \/ \E x \in Slots : OnReply(x) \/ OnRedisDisconnect(x)
    \/ RedisEvent

Spec == Init /\ [][Next]_vars

\* Both loops keep running, and redis answers or drops what it was sent.
Fairness ==
    /\ WF_vars(OnMessageReturn)
    /\ WF_vars(RunFunctor)
    /\ \A x \in Slots : /\ WF_vars(HandleWrite(x) /\ UNCHANGED proxyVars)
                        /\ WF_vars(OnReply(x))

FairSpec == Spec /\ Fairness

-----------------------------------------------------------------------------
(* Properties                                                              *)

\* While a command waits on a redis connection, clientConns_ names the client
\* that sent it: later requests, refused ones included, never redirect the
\* reply (ProxyServer.cc 58 looks the client up by the connection alone).
ReplyRouting ==
    \A x \in Slots : replies[x] # <<>> =>
        clientConns_[genUniqueConId(x[1], x[2])] = connOf[Head(replies[x])]

\* A client is only ever sent replies to its own requests, and at most one.
OwnReplyOnce ==
    \A c \in Clients :
        /\ Len(delivered[c]) <= 1
        /\ \A i \in 1 .. Len(delivered[c]) : connOf[delivered[c][i]] = c

\* Every request is served with its own key and value (the message a handler
\* run by the base loop refers to is the one it was queued with).
ServedWithOwnMessage ==
    /\ fault # "message"
    /\ \A r \in Commands : text[r] \in {r, NoRequest}

\* The requests in the base loop's queue, those waiting at redis, and the
\* refinement mapping to ReplyRouter.
Queued == {pendingFunctors_[i] : i \in 1 .. Len(pendingFunctors_)}
AtRedis == {Head(replies[x]) : x \in {y \in Slots : replies[y] # <<>>}}
Router == INSTANCE ReplyRouter WITH
              accepted <- received,
              outstanding <- Queued \cup AtRedis

\* The proxy keeps the promise of ReplyRouter: whatever redis, the clients and
\* the two threads do, every accepted request is answered or dropped once, and
\* only the client that asked gets the answer (ProxyServer.cc 49-63, 96-150).
ImplementsRouter == Router!Spec

\* The pool inside the proxy does nothing the pool on its own would not do.
ImplementsHiredis == HiredisSpec

\* The client whose command redis has taken is answered: its connection is
\* shut down after the reply, unless it closed first or the process ends.
TakenIsAnswered ==
    \A x \in Slots, c \in Clients :
        (replies[x] # <<>> /\ connOf[Head(replies[x])] = c /\ connState[c] = "kConnected")
            ~> (connState[c] # "kConnected" \/ ~Alive)

=============================================================================
