------------------------------ MODULE Hiredis ------------------------------
(***************************************************************************)
(* The redis side of the proxy: db::HiredisPool (one db::Hiredis per redis *)
(* server) and db::Hiredis (nconns_ connections to its server).  A slot    *)
(* <<serverId, connId>> stands for one ServerConn object.                   *)
(*                                                                         *)
(* Every method below runs in the thread of the base event loop, so a      *)
(* handler is one atomic step.  The hiredis library is external: it is     *)
(* modelled by the callbacks it makes, in the order redisAsyncHandleWrite, *)
(* redisAsyncHandleRead and the tear-down of a context make them.          *)
(***************************************************************************)
EXTENDS Integers, Sequences, FiniteSets

CONSTANTS
    NumServers,     \* serverAddrs_.size(), poolSize_
    NConns,         \* conf_->getPerServerConnNum(), nconns_
    Commands,       \* the commands callers hand to command()
    preConnection,  \* Configure::preConnect()
    NDEBUG          \* TRUE when assert() is compiled out

ASSUME NumServersAssumption == NumServers \in Nat \ {0}
ASSUME NConnsAssumption == NConns \in Nat
ASSUME BuildAssumption == preConnection \in BOOLEAN /\ NDEBUG \in BOOLEAN

Servers == 0 .. NumServers - 1
ConnIds == 0 .. NConns - 1
Slots == Servers \X ConnIds

VARIABLES
    started,            \* ProxyServer::start() has called HiredisPool::connect()
    inactiveConns_,     \* the three maps of Hiredis, as sets of slots
    activeFreeConns_,
    activeBusyConn_,
    context,            \* state of the redisAsyncContext of a slot
    channel,            \* slots whose scon->channel is not null
    reading,            \* slots whose channel watches for input
    writing,            \* slots whose channel watches for output
    replies,            \* hiredis' queue of callbacks waiting for a reply
    fault               \* the assertion that stopped the process, or "none"

maps == <<inactiveConns_, activeFreeConns_, activeBusyConn_>>
channels == <<channel, reading, writing>>
hiredisVars == <<started, maps, context, channels, replies, fault>>

\* The places where an assertion (or the undefined behaviour behind it, when
\* assertions are compiled out) can end the process.
Faults == {"none", "redisAsyncConnect", "~Channel", "userConnectCallback",
           "commandCallback", "userDisconnectCallback", "message"}

HiredisTypeOK ==
    /\ started \in BOOLEAN
    /\ inactiveConns_ \subseteq Slots
    /\ activeFreeConns_ \subseteq Slots
    /\ activeBusyConn_ \subseteq Slots
    /\ context \in [Slots -> {"null", "connecting", "connected", "freed"}]
    /\ channel \subseteq Slots
    /\ reading \subseteq Slots
    /\ writing \subseteq Slots
    /\ replies \in [Slots -> Seq(Commands)]
    /\ fault \in Faults

\* HiredisPool::HiredisPool creates the Hiredis objects; none has a connection.
HiredisInit ==
    /\ started = FALSE
    /\ inactiveConns_ = {}
    /\ activeFreeConns_ = {}
    /\ activeBusyConn_ = {}
    /\ context = [x \in Slots |-> "null"]
    /\ channel = {}
    /\ reading = {}
    /\ writing = {}
    /\ replies = [x \in Slots |-> <<>>]
    /\ fault = "none"

Alive == fault = "none"

Fail(where) ==
    /\ fault' = where
    /\ UNCHANGED <<started, maps, context, channels, replies>>

-----------------------------------------------------------------------------
(* Channels and maps                                                       *)

\* Mutant of addRead: the channel is never asked to watch for input.
addReadForgotten(x) == UNCHANGED reading

\* addRead, called by hiredis to watch the connection for input.
addRead(x) == reading' = reading \cup {x}

\* Mutant of removeChannel: disableAll() is not called.
removeChannelOnly(x) == channel' = channel \ {x} /\ UNCHANGED <<reading, writing>>

\* removeChannel: disableAll(), remove() and reset() of scon->channel.
removeChannel(x) ==
    /\ channel' = channel \ {x}
    /\ reading' = reading \ {x}
    /\ writing' = writing \ {x}

\* Mutants of ToBusy: the connection is not erased from activeFreeConns_, or
\* not entered into activeBusyConn_.
ToBusyStillFree(x) == activeBusyConn_' = activeBusyConn_ \cup {x} /\ UNCHANGED activeFreeConns_
ToBusyLost(x) == activeFreeConns_' = activeFreeConns_ \ {x} /\ UNCHANGED activeBusyConn_

\* From activeFreeConns_ to activeBusyConn_ in command() ...
ToBusy(x) ==
    /\ activeFreeConns_' = activeFreeConns_ \ {x}
    /\ activeBusyConn_' = activeBusyConn_ \cup {x}

\* Mutant of ToFree: the connection is not erased from activeBusyConn_.
ToFreeStillBusy(x) == activeFreeConns_' = activeFreeConns_ \cup {x} /\ UNCHANGED activeBusyConn_

\* ... and back in commandCallback.
ToFree(x) ==
    /\ activeFreeConns_' = activeFreeConns_ \cup {x}
    /\ activeBusyConn_' = activeBusyConn_ \ {x}

-----------------------------------------------------------------------------
(* Connecting                                                              *)

\* The connections Hiredis::connect makes: for (int i = 0; i < nconns_; ++i)
NewConns == Slots

\* HiredisPool::connect, and Hiredis::connect for every server: open nconns_
\* connections, give each a channel (setChannel) and register the connect
\* callback, which makes hiredis ask for the first write event (addWrite).
\* With preconnection off no connection is ever opened.
Connect ==
    /\ Alive
    /\ ~started
    /\ started' = TRUE
    /\ IF preConnection
       THEN /\ inactiveConns_' = NewConns
            /\ context' = [x \in NewConns |-> "connecting"]
            /\ channel' = NewConns
            /\ writing' = NewConns
       ELSE UNCHANGED <<inactiveConns_, context, channel, writing>>
    /\ UNCHANGED <<activeFreeConns_, activeBusyConn_, reading, replies, fault>>

\* redisAsyncConnect can fail at once (no route, refused).  Hiredis::connect
\* does not look at context->err: it watches descriptor -1, epoll_ctl refuses
\* it and EPollPoller::update ends the process.
ConnectError ==
    /\ Alive
    /\ ~started
    /\ preConnection
    /\ Slots # {}
    /\ Fail("redisAsyncConnect")

\* A write event on a slot whose connect(2) succeeded.  Hiredis::handleWrite
\* removes the channel, redisAsyncHandleWrite reports the connection to
\* userConnectCallback, which files the slot under activeFreeConns_ and gives
\* it a new channel; hiredis then drops write and adds read interest.
HandleConnect(x) ==
    /\ Alive
    /\ NDEBUG
    /\ context[x] = "connecting"
    /\ x \in channel \cap writing
    /\ IF x \in inactiveConns_
       THEN /\ activeFreeConns_' = activeFreeConns_ \cup {x}
            /\ inactiveConns_' = inactiveConns_ \ {x}
            /\ context' = [context EXCEPT ![x] = "connected"]
            /\ channel' = channel \cup {x}
            /\ writing' = writing \ {x}
            /\ addRead(x)
            /\ UNCHANGED <<started, activeBusyConn_, replies, fault>>
       ELSE Fail("userConnectCallback")

\* The same event when connect(2) failed: userConnectCallback only logs, the
\* slot stays in inactiveConns_ without a channel, hiredis frees the context.
HandleConnectFailed(x) ==
    /\ Alive
    /\ NDEBUG
    /\ context[x] = "connecting"
    /\ x \in channel \cap writing
    /\ context' = [context EXCEPT ![x] = "freed"]
    /\ removeChannel(x)
    /\ UNCHANGED <<started, maps, replies, fault>>

\* removeChannel resets the only reference to the channel whose handleEvent is
\* on the stack (it queues channel_, which is null, instead of scon->channel):
\* ~Channel asserts !eventHandling_, and a build without assertions goes on to
\* write to the freed channel, which may or may not end the process.
DestroyChannelInHandler(x) ==
    /\ Alive
    /\ x \in channel
    /\ \/ context[x] = "connecting" /\ x \in writing
       \/ context[x] = "connected" /\ x \in reading \cup writing
    /\ Fail("~Channel")

-----------------------------------------------------------------------------
(* Commands                                                                *)

Connected(s) == \E c \in ConnIds : <<s, c>> \in activeFreeConns_ \cup activeBusyConn_

\* activeFreeConns_.begin() of server s: the free slot with the least connId.
FirstFree(x) ==
    /\ x \in activeFreeConns_
    /\ \A c \in ConnIds : <<x[1], c>> \in activeFreeConns_ => x[2] <= c

\* Hiredis::command when a connection is free: the slot moves to busy before
\* redisvAsyncCommand is called, and stays there when it refuses the command
\* (formatted is FALSE: redisvFormatCommand rejects the text).
Command(x, r, formatted) ==
    /\ Alive
    /\ FirstFree(x)
    /\ ToBusy(x)
    /\ IF formatted
       THEN /\ replies' = [replies EXCEPT ![x] = Append(@, r)]
            /\ writing' = writing \cup {x}
       ELSE UNCHANGED <<replies, writing>>
    /\ UNCHANGED <<started, inactiveConns_, context, channel, reading, fault>>

\* Hiredis::command when it returns without sending: not connected(), or
\* "No active connection to use."  The caller's connId is -1.
CommandRefused(s) ==
    /\ Alive
    /\ ~Connected(s) \/ \A c \in ConnIds : <<s, c>> \notin activeFreeConns_
    /\ UNCHANGED hiredisVars

\* handleWrite on a connected slot: hiredis writes out the command, stops
\* watching for output and watches for input.
HandleWrite(x) ==
    /\ Alive
    /\ context[x] = "connected"
    /\ x \in channel \cap writing
    /\ writing' = writing \ {x}
    /\ addRead(x)
    /\ UNCHANGED <<started, maps, context, channel, replies, fault>>

\* handleRead when a reply is there: hiredis calls commandCallback, which runs
\* the user's callback and moves the slot from busy back to free.
HandleReply(x) ==
    /\ Alive
    /\ context[x] = "connected"
    /\ x \in channel \cap reading
    /\ x \notin writing
    /\ replies[x] # <<>>
    /\ IF x \in activeBusyConn_ /\ x \notin activeFreeConns_
       THEN /\ replies' = [replies EXCEPT ![x] = Tail(@)]
            /\ ToFree(x)
            /\ UNCHANGED <<started, inactiveConns_, context, channels, fault>>
       ELSE Fail("commandCallback")

\* The peer closes the connection (or a read or write fails).  Before the
\* disconnect callback hiredis runs every waiting command callback with a null
\* reply, and that moves the slot from busy to free; userDisconnectCallback
\* then looks for the slot in activeBusyConn_ only.
HandleDisconnect(x) ==
    /\ Alive
    /\ NDEBUG
    /\ context[x] = "connected"
    /\ x \in channel \cap (reading \cup writing)
    /\ removeChannel(x)
    /\ IF replies[x] = <<>> /\ x \in activeBusyConn_
       THEN /\ inactiveConns_' = inactiveConns_ \cup {x}
            /\ activeBusyConn_' = activeBusyConn_ \ {x}
            /\ context' = [context EXCEPT ![x] = "freed"]
            /\ UNCHANGED <<started, activeFreeConns_, replies, fault>>
       ELSE /\ fault' = "userDisconnectCallback"
            /\ replies' = [replies EXCEPT ![x] = <<>>]
            /\ ToFree(x)
            /\ UNCHANGED <<started, inactiveConns_, context>>

-----------------------------------------------------------------------------
(* The component on its own: any caller, any command, at any time          *)

HandleSlot(x) ==
    \/ HandleConnect(x)
    \/ HandleConnectFailed(x)
    \/ DestroyChannelInHandler(x)
    \/ HandleWrite(x)
    \/ HandleReply(x)
    \/ HandleDisconnect(x)

CallCommand ==
    \/ \E x \in Slots, r \in Commands, formatted \in BOOLEAN : Command(x, r, formatted)
    \/ \E s \in Servers : CommandRefused(s)

\* The program around the pool can end the process for reasons of its own.
CallerFails == Alive /\ Fail("message")

HiredisNext ==
    \/ Connect
    \/ ConnectError
    \/ \E x \in Slots : HandleSlot(x)
    \/ CallCommand
    \/ CallerFails

HiredisSpec == HiredisInit /\ [][HiredisNext]_hiredisVars

\* The event loop keeps delivering the events of a slot, and redis answers
\* the command it was sent (or closes the connection).
RedisFairness ==
    \A x \in Slots : WF_hiredisVars(HandleWrite(x)) /\ WF_hiredisVars(HandleReply(x))

FairHiredisSpec == HiredisSpec /\ RedisFairness

-----------------------------------------------------------------------------
(* Properties                                                              *)

\* Once connect() has run, every ServerConn is filed under exactly one of the
\* three maps, whatever callbacks hiredis makes and in whatever order: no
\* connection is lost and none can be given out twice (Hiredis.cc 180-183,
\* 207-211, 261-265, 295-299).
SlotInOneMap ==
    started /\ preConnection =>
        /\ inactiveConns_ \cup activeFreeConns_ \cup activeBusyConn_ = Slots
        /\ inactiveConns_ \cap activeFreeConns_ = {}
        /\ inactiveConns_ \cap activeBusyConn_ = {}
        /\ activeFreeConns_ \cap activeBusyConn_ = {}

\* A connection command() may take from activeFreeConns_ is usable: connected,
\* with a channel that watches for input, and no earlier command waiting for
\* its reply on it (so the next reply belongs to the next command).
FreeIsIdle ==
    Alive => \A x \in activeFreeConns_ :
        /\ context[x] = "connected"
        /\ x \in channel \cap reading
        /\ x \notin writing
        /\ replies[x] = <<>>

\* A command is outstanding only on a busy connection, and never two on one:
\* commandCallback(ac, ...) identifies the caller by the connection alone.
OnePending ==
    \A x \in Slots :
        /\ Len(replies[x]) <= 1
        /\ replies[x] # <<>> => x \in activeBusyConn_

\* addRead, delRead, addWrite and delWrite dereference scon->channel: interest
\* is only ever held by a connection that has a channel, and a connection
\* without one is in inactiveConns_ for good.
ChannelBacksInterest ==
    /\ reading \cup writing \subseteq channel
    /\ Alive /\ started /\ preConnection => Slots \ channel \subseteq inactiveConns_

\* userConnectCallback and commandCallback always find the connection in the
\* map they look in (the assertions of Hiredis.cc 181, 296 and 297).
CallbacksFindTheirSlot == fault \notin {"userConnectCallback", "commandCallback"}

\* The assertion of Hiredis.cc 208: the connection a disconnect is reported
\* for is in activeBusyConn_.
DisconnectFindsBusySlot == fault # "userDisconnectCallback"

\* A command that was accepted does not stay outstanding for ever: its callback
\* runs, with redis' reply or with a null one, or the process ends.
PendingAnswered == \A x \in Slots : replies[x] # <<>> ~> (replies[x] = <<>> \/ ~Alive)

=============================================================================
