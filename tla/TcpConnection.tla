--------------------------- MODULE TcpConnection ---------------------------
(***************************************************************************)
(* One muduo::net::TcpConnection of a TcpServer with an I/O thread, as the *)
(* proxy uses it: the base thread answers (send, then shutdown) while the  *)
(* I/O thread reads, writes, notices the peer's close and runs the         *)
(* functors queued for it.  state_ is shared and not protected: send() and *)
(* shutdown() look at it in one step and act in a later one.  channel_ and *)
(* outputBuffer_ belong to the I/O thread alone.                           *)
(*                                                                         *)
(* Data is counted in units; a message has MsgLen of them, and the kernel  *)
(* takes any part of what it is given.                                     *)
(***************************************************************************)
EXTENDS Integers, Sequences

CONSTANTS
    MsgLen,         \* units in a message
    MaxSends        \* bound on the answers the base thread gives

ASSUME TcpAssumption == MsgLen \in Nat \ {0} /\ MaxSends \in Nat

VARIABLES
    state_,
    events,             \* channel_->events()
    outputBuffer_,      \* units not yet written
    ioFunctors,         \* pendingFunctors_ of the I/O loop
    baseFunctors,       \* removeConnectionInLoop calls queued for the base loop
    inServer,           \* connections_ holds the connection
    base,               \* how far the base thread is in send and shutdown
    sends,              \* answers begun so far
    accepted,           \* units send() has passed on to sendInLoop
    wire,               \* units the kernel has taken
    finSent,            \* socket_->shutdownWrite() was called
    errorShutdown,      \* the I/O thread itself shut the connection down
    peerClosed,
    destroyed,          \* connectDestroyed has run: only shared pointers keep the object
    fault

tcpVars == <<state_, events, outputBuffer_, ioFunctors, baseFunctors, inServer, base,
             sends, accepted, wire, finSent, errorShutdown, peerClosed, destroyed, fault>>

IoFunctors == {"connectEstablished", "sendInLoop", "shutdownInLoop", "connectDestroyed"}

TcpTypeOK ==
    /\ state_ \in {"kConnecting", "kConnected", "kDisconnecting", "kDisconnected"}
    /\ events \subseteq {"read", "write"}
    /\ outputBuffer_ \in 0 .. MaxSends * MsgLen
    /\ ioFunctors \in Seq(IoFunctors)
    /\ baseFunctors \in Nat
    /\ base \in {"idle", "sendQueue", "shutdownCheck", "shutdownSet", "shutdownQueue"}
    /\ sends \in 0 .. MaxSends
    /\ accepted \in 0 .. MaxSends * MsgLen
    /\ wire \in 0 .. accepted
    /\ {inServer, finSent, errorShutdown, peerClosed, destroyed} \subseteq BOOLEAN
    /\ fault \in {"none", "handleClose", "removeConnectionInLoop", "Channel::remove"}

\* TcpServer::newConnection, in the base thread.
TcpInit ==
    /\ state_ = "kConnecting"
    /\ events = {}
    /\ outputBuffer_ = 0
    /\ ioFunctors = <<"connectEstablished">>
    /\ baseFunctors = 0
    /\ inServer = TRUE
    /\ base = "idle"
    /\ sends = 0
    /\ accepted = 0
    /\ wire = 0
    /\ finSent = FALSE
    /\ errorShutdown = FALSE
    /\ peerClosed = FALSE
    /\ destroyed = FALSE
    /\ fault = "none"

Alive == fault = "none"

\* The next functor of the I/O loop is f, and it is taken off the queue.
Runs(f) ==
    /\ Alive
    /\ ioFunctors # <<>>
    /\ Head(ioFunctors) = f
    /\ ioFunctors' = Tail(ioFunctors)

-----------------------------------------------------------------------------
(* The peer                                                                *)

PeerClose ==
    /\ Alive
    /\ state_ # "kConnecting"
    /\ ~peerClosed
    /\ peerClosed' = TRUE
    /\ UNCHANGED <<state_, events, outputBuffer_, ioFunctors, baseFunctors, inServer, base,
                   sends, accepted, wire, finSent, errorShutdown, destroyed, fault>>

-----------------------------------------------------------------------------
(* The I/O thread                                                          *)

ConnectEstablished ==
    /\ Runs("connectEstablished")
    /\ state_' = "kConnected"
    /\ events' = {"read"}
    /\ UNCHANGED <<outputBuffer_, baseFunctors, inServer, base, sends, accepted, wire,
                   finSent, errorShutdown, peerClosed, destroyed, fault>>

\* Mutant of shutdownInLoop: isWriting() is not looked at.
shutdownAtOnce == finSent' = TRUE

\* shutdownInLoop: while data waits the FIN has to wait too.
shutdownInLoop == finSent' = (finSent \/ "write" \notin events)

\* The message callback rejects what it read and calls shutdown(), which in
\* this thread runs shutdownInLoop() at once.
ShutdownOnError ==
    /\ Alive
    /\ "read" \in events
    /\ state_ = "kConnected"
    /\ state_' = "kDisconnecting"
    /\ errorShutdown' = TRUE
    /\ shutdownInLoop
    /\ UNCHANGED <<events, outputBuffer_, ioFunctors, baseFunctors, inServer, base, sends,
                   accepted, wire, peerClosed, destroyed, fault>>

\* Mutants of removeConnection: the I/O thread takes the connection down
\* itself, or nobody does (closeCallback_ is not set).
removeConnectionHere ==
    /\ inServer' = FALSE
    /\ ioFunctors' = Append(ioFunctors, "connectDestroyed")
    /\ UNCHANGED baseFunctors
removeConnectionNever == UNCHANGED <<baseFunctors, inServer, ioFunctors>>

\* TcpServer::removeConnection: connections_ belongs to the base thread.
removeConnection ==
    /\ baseFunctors' = baseFunctors + 1
    /\ UNCHANGED <<inServer, ioFunctors>>

\* A read of zero bytes, or POLLHUP: handleClose, and through closeCallback_
\* TcpServer::removeConnection.
HandleClose ==
    /\ Alive
    /\ peerClosed
    /\ events # {}
    /\ IF state_ \in {"kConnected", "kDisconnecting"}
       THEN /\ state_' = "kDisconnected"
            /\ events' = {}
            /\ removeConnection
            /\ UNCHANGED fault
       ELSE /\ fault' = "handleClose"
            /\ UNCHANGED <<state_, events, baseFunctors, inServer, ioFunctors>>
    /\ UNCHANGED <<outputBuffer_, base, sends, accepted, wire, finSent, errorShutdown,
                   peerClosed, destroyed>>

\* Mutant of WriteComplete: a pending shutdown is forgotten.
WriteCompleteOnly == events' = events \ {"write"} /\ UNCHANGED finSent

\* The output buffer is empty: disableWriting(), and shutdownInLoop() when a
\* shutdown had to wait.
WriteComplete ==
    /\ events' = events \ {"write"}
    /\ finSent' = (finSent \/ state_ = "kDisconnecting")

\* The kernel takes n more units; once all are out, writing stops and a
\* shutdown that had to wait is made up for.  While the channel is reading,
\* the peer's close is handled before the write event (handleEventWithGuard).
HandleWrite(n) ==
    /\ Alive
    /\ "write" \in events
    /\ peerClosed => "read" \notin events
    /\ n \in 1 .. outputBuffer_
    /\ outputBuffer_' = outputBuffer_ - n
    /\ wire' = wire + n
    /\ IF n = outputBuffer_
       THEN WriteComplete
       ELSE UNCHANGED <<events, finSent>>
    /\ UNCHANGED <<state_, ioFunctors, baseFunctors, inServer, base, sends, accepted,
                   errorShutdown, peerClosed, destroyed, fault>>

\* sendInLoop gives up when disconnected, and when the direct write fails
\* with EPIPE (the peer, or this side, has shut the direction down).
SendInLoopDrops ==
    /\ Runs("sendInLoop")
    /\ \/ state_ = "kDisconnected"
       \/ /\ "write" \notin events
          /\ outputBuffer_ = 0
          /\ peerClosed \/ finSent
    /\ UNCHANGED <<state_, events, outputBuffer_, baseFunctors, inServer, base, sends,
                   accepted, wire, finSent, errorShutdown, peerClosed, destroyed, fault>>

\* What a direct write of n units leaves to be buffered.
remaining(n) == MsgLen - n

\* sendInLoop writes directly when nothing is waiting; what the kernel does
\* not take (all of it after EWOULDBLOCK, and after a reset by the peer, which is
\* not EPIPE) is buffered and watched for.
SendInLoop(n) ==
    /\ Runs("sendInLoop")
    /\ state_ # "kDisconnected"
    /\ IF "write" \notin events /\ outputBuffer_ = 0
       THEN ~finSent /\ n \in 0 .. MsgLen
       ELSE n = 0
    /\ wire' = wire + n
    /\ outputBuffer_' = outputBuffer_ + remaining(n)
    /\ events' = IF remaining(n) > 0 THEN events \cup {"write"} ELSE events
    /\ UNCHANGED <<state_, baseFunctors, inServer, base, sends, accepted, finSent,
                   errorShutdown, peerClosed, destroyed, fault>>

ShutdownInLoop ==
    /\ Runs("shutdownInLoop")
    /\ shutdownInLoop
    /\ UNCHANGED <<state_, events, outputBuffer_, baseFunctors, inServer, base, sends,
                   accepted, wire, errorShutdown, peerClosed, destroyed, fault>>

\* connectDestroyed, and Channel::remove, which asserts isNoneEvent().
ConnectDestroyed ==
    /\ Runs("connectDestroyed")
    /\ LET up == state_ = "kConnected" IN
       /\ state_' = IF up THEN "kDisconnected" ELSE state_
       /\ events' = IF up THEN {} ELSE events
       /\ IF up \/ events = {}
          THEN destroyed' = TRUE /\ UNCHANGED fault
          ELSE fault' = "Channel::remove" /\ UNCHANGED destroyed
    /\ UNCHANGED <<outputBuffer_, baseFunctors, inServer, base, sends, accepted, wire,
                   finSent, errorShutdown, peerClosed>>

-----------------------------------------------------------------------------
(* The base thread                                                         *)

BaseUnchanged == UNCHANGED <<events, outputBuffer_, baseFunctors, inServer, wire, finSent,
                             errorShutdown, peerClosed, destroyed, fault>>

\* send(): if (state_ == kConnected) ...
Send ==
    /\ Alive
    /\ base = "idle"
    /\ state_ # "kConnecting"
    /\ sends < MaxSends
    /\ sends' = sends + 1
    /\ base' = IF state_ = "kConnected" THEN "sendQueue" ELSE "shutdownCheck"
    /\ UNCHANGED <<state_, ioFunctors, accepted>>
    /\ BaseUnchanged

\* ... runInLoop(bind(&TcpConnection::sendInLoop, this, message)).
SendQueue ==
    /\ Alive
    /\ base = "sendQueue"
    /\ base' = "shutdownCheck"
    /\ ioFunctors' = Append(ioFunctors, "sendInLoop")
    /\ accepted' = accepted + MsgLen
    /\ UNCHANGED <<state_, sends>>
    /\ BaseUnchanged

\* shutdown(): if (state_ == kConnected) ...
Shutdown ==
    /\ Alive
    /\ base = "shutdownCheck"
    /\ base' = IF state_ = "kConnected" THEN "shutdownSet" ELSE "idle"
    /\ UNCHANGED <<state_, ioFunctors, sends, accepted>>
    /\ BaseUnchanged

\* ... setState(kDisconnecting), whatever state_ is by now ...
ShutdownSet ==
    /\ Alive
    /\ base = "shutdownSet"
    /\ base' = "shutdownQueue"
    /\ state_' = "kDisconnecting"
    /\ UNCHANGED <<ioFunctors, sends, accepted>>
    /\ BaseUnchanged

\* ... runInLoop(bind(&TcpConnection::shutdownInLoop, this)).
ShutdownQueue ==
    /\ Alive
    /\ base = "shutdownQueue"
    /\ base' = "idle"
    /\ ioFunctors' = Append(ioFunctors, "shutdownInLoop")
    /\ UNCHANGED <<state_, sends, accepted>>
    /\ BaseUnchanged

\* TcpServer::removeConnectionInLoop.
RemoveConnectionInLoop ==
    /\ Alive
    /\ base = "idle"
    /\ baseFunctors > 0
    /\ baseFunctors' = baseFunctors - 1
    /\ IF inServer
       THEN /\ inServer' = FALSE
            /\ ioFunctors' = Append(ioFunctors, "connectDestroyed")
            /\ UNCHANGED fault
       ELSE fault' = "removeConnectionInLoop" /\ UNCHANGED <<inServer, ioFunctors>>
    /\ UNCHANGED <<state_, events, outputBuffer_, base, sends, accepted, wire, finSent,
                   errorShutdown, peerClosed, destroyed>>

-----------------------------------------------------------------------------
IoThread ==
    \/ ConnectEstablished
    \/ ShutdownOnError
    \/ HandleClose
    \/ \E n \in 1 .. MaxSends * MsgLen : HandleWrite(n)
    \/ SendInLoopDrops
    \/ \E n \in 0 .. MsgLen : SendInLoop(n)
    \/ ShutdownInLoop
    \/ ConnectDestroyed

BaseThread ==
    Send \/ SendQueue \/ Shutdown \/ ShutdownSet \/ ShutdownQueue \/ RemoveConnectionInLoop

TcpNext == PeerClose \/ IoThread \/ BaseThread

TcpSpec == TcpInit /\ [][TcpNext]_tcpVars

\* Both threads run; neither has to answer, and no peer has to misbehave or
\* to close, but it reads what it is sent.
TcpFairness ==
    /\ WF_tcpVars(\/ ConnectEstablished \/ SendInLoopDrops \/ ShutdownInLoop \/ ConnectDestroyed
                  \/ \E n \in 0 .. MsgLen : SendInLoop(n))
    /\ WF_tcpVars(HandleClose)
    /\ WF_tcpVars(\E n \in 1 .. MaxSends * MsgLen : HandleWrite(n))
    /\ WF_tcpVars(SendQueue \/ Shutdown \/ ShutdownSet \/ ShutdownQueue \/ RemoveConnectionInLoop)

FairTcpSpec == TcpSpec /\ TcpFairness

-----------------------------------------------------------------------------
(* Properties                                                              *)

\* send() and shutdown() queue functors that hold a bare this pointer.  None
\* is ever behind connectDestroyed, the last functor that keeps the object:
\* the "FIXME: shared_from_this()?" of TcpConnection.cc 213 is not needed for
\* calls from the server's base thread.
BareThisIsSafe ==
    /\ \A i, j \in 1 .. Len(ioFunctors) :
          ioFunctors[i] = "connectDestroyed" /\ i < j => FALSE
    /\ destroyed => ioFunctors = <<>>
    /\ ~inServer => base \notin {"sendQueue", "shutdownSet", "shutdownQueue"}

\* The direction is not shut down while data waits: what was accepted by
\* send() is on the wire before the FIN, unless the peer is gone or the I/O
\* thread gave the connection up itself.
DataBeforeFin ==
    finSent =>
        /\ ~peerClosed => outputBuffer_ = 0
        /\ ~peerClosed /\ ~errorShutdown => wire = accepted

\* A closed connection is taken down: connectDestroyed runs, or the process
\* ends on an assertion.  That does happen: shutdown() tests and sets state_ in two
\* steps, so a connection closed in between may be closed a second time, and
\* removeConnectionInLoop no longer finds it (TcpServer.cc 163).
ClosedIsDestroyed == (state_ = "kDisconnected") ~> (destroyed \/ ~Alive)

\* shutdown() takes effect: the FIN is sent, or the peer has closed.
ShutdownTakesEffect == (state_ = "kDisconnecting") ~> (finSent \/ peerClosed \/ ~Alive)

=============================================================================
