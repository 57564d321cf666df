----------------------------- MODULE Connector -----------------------------
(***************************************************************************)
(* muduo::net::Connector: one attempt at a time to connect a socket,       *)
(* retried with a growing delay and stopped from another thread.  The      *)
(* Connector is a record and its member functions map it to the next one;  *)
(* TcpClient composes them with the loop and with the users' threads.      *)
(***************************************************************************)
EXTENDS Naturals, Sequences

CONSTANTS
    kInitRetryDelayMs,  \* the first delay
    kMaxRetryDelayMs    \* the longest delay

ASSUME ConnectorAssumption ==
    /\ kInitRetryDelayMs \in Nat \ {0}
    /\ kMaxRetryDelayMs \in Nat
    /\ kInitRetryDelayMs <= kMaxRetryDelayMs

\* channel_ is null, watched by the poller, or removed from it and not yet reset;
\* timers counts the pending runAfter(startInLoop); queue is what the Connector
\* and its users have queued in the loop (conn is 0 but for connectDestroyed);
\* sockets counts the open ones.
NewConnector ==
    [connect_ |-> FALSE, state_ |-> "kDisconnected", channel_ |-> "null",
     retryDelayMs_ |-> kInitRetryDelayMs, timers |-> 0, queue |-> <<>>, sockets |-> 0,
     gaveUp |-> FALSE, aborted |-> FALSE]

\* How ::connect can end, by what the switch in connect() does with it.
ConnectResults == {"in progress", "try again", "hopeless"}

Queue(k, functor, c) == [k EXCEPT !.queue = Append(@, [name |-> functor, conn |-> c])]

Assert(k, holds) == [k EXCEPT !.aborted = @ \/ ~holds]

Backoff(delay) == IF 2 * delay < kMaxRetryDelayMs THEN 2 * delay ELSE kMaxRetryDelayMs

\* Mutant of Retry: no timer once the delay has reached its maximum.
RetryUntilMax(k) ==
    LET closed == [k EXCEPT !.sockets = @ - 1, !.state_ = "kDisconnected"] IN
    IF k.connect_ /\ k.retryDelayMs_ < kMaxRetryDelayMs
    THEN [closed EXCEPT !.timers = @ + 1, !.retryDelayMs_ = Backoff(@)] ELSE closed

\* Mutant of Retry: the timer is set although the Connector was stopped.
RetryAlways(k) ==
    [k EXCEPT !.sockets = @ - 1, !.state_ = "kDisconnected", !.connect_ = TRUE,
              !.timers = @ + 1, !.retryDelayMs_ = Backoff(@)]

Retry(k) ==
    LET closed == [k EXCEPT !.sockets = @ - 1, !.state_ = "kDisconnected"] IN
    IF k.connect_
    THEN [closed EXCEPT !.timers = @ + 1, !.retryDelayMs_ = Backoff(@)]
    ELSE closed

Connecting(k) ==
    [Assert(k, k.channel_ = "null") EXCEPT !.state_ = "kConnecting", !.channel_ = "watched"]

\* connect(): a new socket, then the three groups of the switch.
Connect(k, result) ==
    LET opened == [k EXCEPT !.sockets = @ + 1] IN
    CASE result = "in progress" -> Connecting(opened)
      [] result = "try again"   -> Retry(opened)
      [] result = "hopeless"    -> [opened EXCEPT !.sockets = @ - 1, !.gaveUp = TRUE]

StartInLoop(k, result) ==
    LET checked == Assert(k, k.state_ = "kDisconnected") IN
    IF k.connect_ THEN Connect(checked, result) ELSE checked

\* Mutant of Restart: the state of the old connection is kept.
RestartKeepsState(k, result) ==
    StartInLoop([k EXCEPT !.retryDelayMs_ = kInitRetryDelayMs, !.connect_ = TRUE], result)

Restart(k, result) ==
    StartInLoop([k EXCEPT !.state_ = "kDisconnected", !.retryDelayMs_ = kInitRetryDelayMs,
                          !.connect_ = TRUE], result)

\* Out of the poller at once; the Channel object goes later, from a functor,
\* because its handleEvent may be on the stack.
RemoveAndResetChannel(k) == Queue([k EXCEPT !.channel_ = "removed"], "resetChannel", 0)

ResetChannel(k) == [k EXCEPT !.channel_ = "null"]

StopInLoop(k) ==
    IF k.state_ = "kConnecting"
    THEN Retry(RemoveAndResetChannel([k EXCEPT !.state_ = "kDisconnected"]))
    ELSE k

\* handleWrite when SO_ERROR is set or the socket is connected to itself.
HandleWriteFailed(k) ==
    IF k.state_ = "kConnecting" THEN Retry(RemoveAndResetChannel(k))
    ELSE Assert(k, k.state_ = "kDisconnected")

\* Mutant of HandleWriteConnected: a socket nobody wants any more stays open.
HandleWriteLeaks(k) == [RemoveAndResetChannel(k) EXCEPT !.state_ = "kConnected"]

\* handleWrite when the socket is connected; with connect_ it is the new
\* connection's from here on, else it is closed.
HandleWriteConnected(k) ==
    [RemoveAndResetChannel(k) EXCEPT !.state_ = "kConnected",
                                     !.sockets = IF k.connect_ THEN @ ELSE @ - 1]

HandleError(k) ==
    Retry(RemoveAndResetChannel(Assert(k, k.state_ = "kConnecting")))

=============================================================================
