-------------------------- MODULE TcpClientProofs --------------------------
(***************************************************************************)
(* Proofs about the Connector and the TcpClient that uses it, for any      *)
(* delays, any number of TcpConnection objects and any order of connect(), *)
(* stop(), disconnect(), errors, retries and lost connections.             *)
(***************************************************************************)
EXTENDS TcpClient, FiniteSetTheorems, TLAPS

Names == {"startInLoop", "stopInLoop", "resetChannel", "connectDestroyed"}
LoopFunctors == [name : Names, conn : Conns \cup {0}]
Connectors ==
    [connect_ : BOOLEAN, state_ : {"kDisconnected", "kConnecting", "kConnected"},
     channel_ : {"null", "watched", "removed"}, retryDelayMs_ : Nat, timers : Nat,
     queue : Seq(LoopFunctors), sockets : Nat, gaveUp : BOOLEAN, aborted : BOOLEAN]

ClientTypeOK ==
    /\ connector_ \in Connectors
    /\ retry_ \in BOOLEAN /\ connect_ \in BOOLEAN /\ restarting \in BOOLEAN
    /\ connection_ \in Conns \cup {0}
    /\ conn \in [Conns -> {"none", "up", "closed"}]
    /\ phase \in {"poll", "handled", "functors"}
    /\ batch \in Seq(LoopFunctors)
    /\ user \in {"new", "started", "stop client", "stop connector", "stopped"}
    /\ alive \in BOOLEAN /\ keepAlive \in BOOLEAN /\ overtaken \in BOOLEAN

\* A functor of this name waits in q; no name waits there twice.
Has(q, n) == \E i \in DOMAIN q : q[i].name = n
Once(q)   == \A i, j \in DOMAIN q : q[i].name = q[j].name => i = j

\* A connectDestroyed in q is about a connection that closed, the others about none.
AboutClosed(q) ==
    \A i \in DOMAIN q : IF q[i].name = "connectDestroyed"
                        THEN q[i].conn \in Conns /\ conn[q[i].conn] = "closed"
                        ELSE q[i].conn = 0

Queued(n) == Has(connector_.queue, n) \/ Has(batch, n)

\* Every functor waits once at most, and finds the Connector as it expects it.
FunctorsOK ==
    /\ Once(connector_.queue) /\ Once(batch)
    /\ \A n \in Names : ~(Has(connector_.queue, n) /\ Has(batch, n))
    /\ AboutClosed(connector_.queue) /\ AboutClosed(batch)
    /\ phase # "functors" => batch = <<>>
    /\ Has(connector_.queue, "connectDestroyed") => phase = "handled"
    /\ Queued("stopInLoop") => user = "stopped"
    /\ Queued("startInLoop") =>
          connector_.state_ = "kDisconnected" /\ connector_.channel_ = "null" /\ connector_.timers = 0
    /\ Queued("resetChannel") <=> connector_.channel_ = "removed"

\* The Connector does one thing at a time: it waits for a timer or a functor, or
\* for a socket to connect, or it has handed the socket to a connection.
OneAtATime ==
    /\ ~connector_.aborted
    /\ connector_.channel_ = "watched" <=> connector_.state_ = "kConnecting"
    /\ connector_.timers <= 1
    /\ connector_.timers = 1 => connector_.state_ = "kDisconnected"
    /\ connection_ # 0 => connector_.state_ = "kConnected"
    /\ connection_ # 0 /\ Has(connector_.queue, "resetChannel") => phase = "handled"
    /\ restarting => /\ phase = "handled" /\ connection_ = 0
                     /\ connector_.state_ = "kConnected" /\ connector_.channel_ = "null"

Attempts    == IF connector_.channel_ = "watched" THEN 1 ELSE 0
Connections == IF \E c \in Conns : conn[c] # "none" THEN 1 ELSE 0

\* One connection at most is not destroyed; it is the current one or its
\* connectDestroyed waits.
ConnsOK ==
    /\ \A c \in Conns : conn[c] = "up" <=> connection_ = c
    /\ \A c, d \in Conns : conn[c] # "none" /\ conn[d] # "none" => c = d
    /\ \A c \in Conns : conn[c] = "closed" => Queued("connectDestroyed")
    /\ connector_.sockets = Attempts + Connections

\* Before connect() nothing happens.
NotConnected ==
    user = "new" => /\ connector_ = NewConnector /\ phase = "poll" /\ connection_ = 0
                    /\ alive /\ ~overtaken

\* A Connector that was stopped starts nothing; what it had started is taken back
\* by the stopInLoop that waits.
StopOK ==
    ~overtaken =>
        /\ user \in {"stop connector", "stopped"} => ~connector_.connect_
        /\ user = "stopped" /\ connector_.state_ = "kConnecting" => Queued("stopInLoop")

\* After ~TcpClient the Connector starts nothing; when it is let go nothing of it is
\* left, unless it was let go because there was a connection.
GoneOK ==
    /\ keepAlive => ~alive
    /\ ~alive => /\ user \in {"started", "stopped"} /\ ~restarting
                 /\ connector_.state_ # "kConnecting"
                 /\ Queued("startInLoop") \/ connector_.timers > 0 => ~connector_.connect_
    /\ ~alive /\ ~keepAlive =>
          /\ ~Queued("startInLoop")
          /\ connection_ # 0 \/ (connector_.channel_ = "null" /\ ~Queued("stopInLoop"))

CInv ==
    /\ ClientTypeOK
    /\ FunctorsOK
    /\ OneAtATime
    /\ ConnsOK
    /\ NotConnected
    /\ StopOK
    /\ GoneOK

-----------------------------------------------------------------------------
(* Queues of functors                                                      *)

\* R is the queue Q with f behind it, which is not like any functor there.
Appended(Q, R, f) ==
    /\ R \in Seq(LoopFunctors) /\ Once(R)
    /\ \A n : Has(R, n) <=> Has(Q, n) \/ n = f.name
    /\ \A i \in DOMAIN R : R[i] = f \/ \E j \in DOMAIN Q : R[i] = Q[j]

LEMMA QueueAppend ==
    ASSUME NEW Q \in Seq(LoopFunctors), NEW f \in LoopFunctors, Once(Q), ~Has(Q, f.name)
    PROVE  Appended(Q, Append(Q, f), f)
<1> DEFINE R == Append(Q, f)
<1>1. /\ R \in Seq(LoopFunctors) /\ DOMAIN R = 1 .. Len(Q) + 1 /\ DOMAIN Q = 1 .. Len(Q)
      /\ \A i \in DOMAIN Q : i \in DOMAIN R /\ R[i] = Q[i] /\ i # Len(Q) + 1
      /\ Len(Q) + 1 \in DOMAIN R /\ R[Len(Q) + 1] = f
  OBVIOUS
<1>2. \A i \in DOMAIN R : i \in DOMAIN Q \/ i = Len(Q) + 1
  BY <1>1
<1> HIDE DEF R
<1>3. \A i \in DOMAIN R : R[i] = f \/ \E j \in DOMAIN Q : R[i] = Q[j]
  BY <1>1, <1>2
<1>4. ASSUME NEW n, Has(R, n) PROVE Has(Q, n) \/ n = f.name
  BY <1>3, <1>4 DEF Has
<1>5. ASSUME NEW n, Has(Q, n) \/ n = f.name PROVE Has(R, n)
  BY <1>1, <1>5 DEF Has
<1>6. Once(R)
  <2> SUFFICES ASSUME NEW i \in DOMAIN R, NEW j \in DOMAIN R, R[i].name = R[j].name PROVE i = j
    BY DEF Once
  <2>1. CASE i \in DOMAIN Q /\ j \in DOMAIN Q
    BY <1>1, <2>1 DEF Once
  <2>2. CASE i \in DOMAIN Q /\ j = Len(Q) + 1
    BY <1>1, <2>2 DEF Has
  <2>3. CASE j \in DOMAIN Q /\ i = Len(Q) + 1
    BY <1>1, <2>3 DEF Has
  <2> QED BY <1>2, <2>1, <2>2, <2>3
<1> QED BY <1>1, <1>3, <1>4, <1>5, <1>6 DEF Appended, R

\* R is the queue Q without its first functor.
Taken(Q, R) ==
    /\ R \in Seq(LoopFunctors) /\ Once(R)
    /\ Head(Q) \in LoopFunctors /\ 1 \in DOMAIN Q /\ Q[1] = Head(Q)
    /\ \A n : Has(Q, n) <=> Has(R, n) \/ n = Head(Q).name
    /\ ~Has(R, Head(Q).name)
    /\ \A i \in DOMAIN R : \E j \in DOMAIN Q : R[i] = Q[j]

LEMMA QueueTail ==
    ASSUME NEW Q \in Seq(LoopFunctors), Q # <<>>, Once(Q)
    PROVE  Taken(Q, Tail(Q))
<1> DEFINE R == Tail(Q)
<1>1. /\ R \in Seq(LoopFunctors) /\ Head(Q) \in LoopFunctors
      /\ 1 \in DOMAIN Q /\ Q[1] = Head(Q)
      /\ Len(R) = Len(Q) - 1 /\ DOMAIN R = 1 .. Len(Q) - 1 /\ DOMAIN Q = 1 .. Len(Q)
      /\ \A i \in DOMAIN R : R[i] = Q[i + 1]
  OBVIOUS
<1>2. ASSUME NEW i \in DOMAIN R PROVE i + 1 \in DOMAIN Q /\ i + 1 # 1 /\ R[i] = Q[i + 1]
  BY <1>1
<1>3. ASSUME NEW i \in DOMAIN Q, i # 1 PROVE i - 1 \in DOMAIN R /\ R[i - 1] = Q[i]
  <2>1. i - 1 \in DOMAIN R /\ (i - 1) + 1 = i
    BY <1>1, <1>3
  <2> QED BY <2>1, <1>1
<1>4. \A i, j \in DOMAIN R : i + 1 = j + 1 => i = j
  BY <1>1
<1> HIDE DEF R
<1>5. Once(R)
  BY <1>2, <1>4 DEF Once
<1>6. \A i \in DOMAIN R : \E j \in DOMAIN Q : R[i] = Q[j]
  BY <1>2
<1>7. ASSUME NEW n, Has(R, n) \/ n = Head(Q).name PROVE Has(Q, n)
  BY <1>1, <1>6, <1>7 DEF Has
<1>8. ASSUME NEW n, Has(Q, n) PROVE Has(R, n) \/ n = Head(Q).name
  BY <1>1, <1>3, <1>8 DEF Has
<1>9. ASSUME Has(R, Head(Q).name) PROVE FALSE
  BY <1>1, <1>2, <1>9 DEF Has, Once
<1> QED BY <1>1, <1>5, <1>6, <1>7, <1>8, <1>9 DEF Taken, R

-----------------------------------------------------------------------------
(* The Connector's member functions                                        *)

\* n is the Connector k after it has given its attempt up.
Dropped(k, n) ==
    /\ n \in Connectors
    /\ n.connect_ = k.connect_ /\ n.aborted = k.aborted
    /\ n.state_ = "kDisconnected" /\ n.channel_ = "removed"
    /\ n.queue = Append(k.queue, [name |-> "resetChannel", conn |-> 0])
    /\ n.sockets = k.sockets - 1
    /\ n.timers = IF k.connect_ THEN k.timers + 1 ELSE k.timers

LEMMA ResetIsFunctor == [name |-> "resetChannel", conn |-> 0] \in LoopFunctors
  BY DEF LoopFunctors, Names

LEMMA BackoffType == \A d \in Nat : Backoff(d) \in Nat
  BY ConnectorAssumption DEF Backoff

\* retry() after the channel was taken out of the poller.
LEMMA RetryDrops ==
    ASSUME NEW k \in Connectors, k.sockets > 0
    PROVE  Dropped(k, Retry(RemoveAndResetChannel(k)))
<1> DEFINE r == RemoveAndResetChannel(k)
           c == [r EXCEPT !.sockets = @ - 1, !.state_ = "kDisconnected"]
           n == Retry(r)
<1>1. /\ k.queue \in Seq(LoopFunctors) /\ k.sockets \in Nat /\ k.timers \in Nat
      /\ k.retryDelayMs_ \in Nat /\ k.connect_ \in BOOLEAN
  BY DEF Connectors
<1>2. Append(k.queue, [name |-> "resetChannel", conn |-> 0]) \in Seq(LoopFunctors)
  BY <1>1, ResetIsFunctor
<1>3. /\ r = [k EXCEPT !.channel_ = "removed",
                       !.queue = Append(k.queue, [name |-> "resetChannel", conn |-> 0])]
      /\ r.connect_ = k.connect_
  BY DEF RemoveAndResetChannel, Queue, Connectors
<1>4. k.sockets - 1 \in Nat /\ k.timers + 1 \in Nat /\ Backoff(k.retryDelayMs_) \in Nat
  <2>1. \A x \in Nat : x > 0 => x - 1 \in Nat
    OBVIOUS
  <2>2. k.sockets - 1 \in Nat
    BY <1>1, <2>1
  <2>3. \A x \in Nat : x + 1 \in Nat
    OBVIOUS
  <2>4. k.timers + 1 \in Nat
    BY ONLY <1>1, <2>3
  <2>5. Backoff(k.retryDelayMs_) \in Nat
    BY <1>1, BackoffType
  <2> QED BY ONLY <2>2, <2>4, <2>5
<1>5. c = [k EXCEPT !.channel_ = "removed", !.sockets = k.sockets - 1, !.state_ = "kDisconnected",
                    !.queue = Append(k.queue, [name |-> "resetChannel", conn |-> 0])]
  BY <1>3 DEF Connectors
<1>6. n = IF k.connect_
          THEN [c EXCEPT !.timers = k.timers + 1, !.retryDelayMs_ = Backoff(k.retryDelayMs_)] ELSE c
  BY <1>3, <1>5 DEF Retry, Connectors
<1> HIDE DEF c, n
<1>7. n \in Connectors
  BY <1>2, <1>4, <1>5, <1>6 DEF Connectors
<1> QED BY <1>5, <1>6, <1>7 DEF Dropped, Connectors, n

\* stopInLoop() and the error paths of handleWrite() and handleError() give the
\* attempt up; their assertions hold.
LEMMA StopDrops ==
    ASSUME NEW k \in Connectors, k.state_ = "kConnecting" => k.sockets > 0
    PROVE  /\ k.state_ = "kConnecting" => Dropped(k, StopInLoop(k))
           /\ k.state_ # "kConnecting" => StopInLoop(k) = k
<1> DEFINE d == [k EXCEPT !.state_ = "kDisconnected"]
<1>1. CASE k.state_ = "kConnecting"
  <2>1. /\ d \in Connectors /\ d.sockets = k.sockets /\ d.connect_ = k.connect_
        /\ d.aborted = k.aborted /\ d.queue = k.queue /\ d.timers = k.timers
    BY DEF Connectors
  <2> HIDE DEF d
  <2>2. Dropped(d, Retry(RemoveAndResetChannel(d)))
    BY <1>1, <2>1, RetryDrops
  <2>3. StopInLoop(k) = Retry(RemoveAndResetChannel(d))
    BY <1>1 DEF StopInLoop, d
  <2> QED BY <1>1, <2>1, <2>2, <2>3 DEF Dropped
<1>2. CASE k.state_ # "kConnecting"
  BY <1>2 DEF StopInLoop
<1> QED BY <1>1, <1>2

LEMMA FailuresDrop ==
    ASSUME NEW k \in Connectors, k.state_ = "kConnecting", k.sockets > 0
    PROVE  /\ Dropped(k, HandleError(k))
           /\ Dropped(k, HandleWriteFailed(k))
           /\ HandleWriteFailed(HandleError(k)) = HandleError(k)
<1>1. Assert(k, TRUE) = k
  BY DEF Assert, Connectors
<1>2. HandleError(k) = Retry(RemoveAndResetChannel(k))
  BY <1>1 DEF HandleError
<1>3. Dropped(k, HandleError(k))
  BY <1>2, RetryDrops
<1>4. Dropped(k, HandleWriteFailed(k))
  BY RetryDrops DEF HandleWriteFailed
<1>5. HandleWriteFailed(HandleError(k)) = HandleError(k)
  <2> DEFINE n == HandleError(k)
  <2>1. n \in Connectors /\ n.state_ = "kDisconnected"
    BY <1>3 DEF Dropped
  <2> HIDE DEF n
  <2>2. HandleWriteFailed(n) = Assert(n, TRUE)
    BY <2>1 DEF HandleWriteFailed
  <2>3. Assert(n, TRUE) = n
    BY <2>1 DEF Assert, Connectors
  <2> QED BY <2>2, <2>3 DEF n
<1> QED BY <1>3, <1>4, <1>5

\* n is the Connector k after startInLoop(): an attempt, a timer for the next one,
\* or neither.
Started(k, n) ==
    /\ n \in Connectors
    /\ n.connect_ = k.connect_ /\ n.aborted = k.aborted /\ n.queue = k.queue
    /\ \/ /\ n.state_ = k.state_ /\ n.channel_ = k.channel_ /\ n.sockets = k.sockets
          /\ n.timers = k.timers
       \/ /\ k.connect_
          /\ n.state_ = k.state_ /\ n.channel_ = k.channel_ /\ n.sockets = k.sockets
          /\ n.timers = k.timers + 1
       \/ /\ k.connect_
          /\ n.state_ = "kConnecting" /\ n.channel_ = "watched" /\ n.sockets = k.sockets + 1
          /\ n.timers = k.timers

LEMMA StartStarts ==
    ASSUME NEW k \in Connectors, NEW result \in ConnectResults,
           k.state_ = "kDisconnected", k.channel_ = "null" \/ ~k.connect_
    PROVE  Started(k, StartInLoop(k, result))
<1> DEFINE opened == [k EXCEPT !.sockets = @ + 1]
           n == StartInLoop(k, result)
<1> SUFFICES Started(k, n)
  OBVIOUS
<1>1. /\ k.sockets \in Nat /\ k.timers \in Nat /\ k.retryDelayMs_ \in Nat
      /\ k.connect_ \in BOOLEAN /\ k.gaveUp \in BOOLEAN /\ k.aborted \in BOOLEAN
  BY DEF Connectors
<1>2. /\ k.sockets + 1 \in Nat /\ (k.sockets + 1) - 1 = k.sockets /\ k.timers + 1 \in Nat
      /\ Backoff(k.retryDelayMs_) \in Nat
  BY <1>1, BackoffType
<1>3. Assert(k, TRUE) = k /\ n = IF k.connect_ THEN Connect(k, result) ELSE k
  <2>1. Assert(k, TRUE) = k
    BY DEF Assert, Connectors
  <2> QED BY <2>1 DEF StartInLoop
<1>4. CASE ~k.connect_
  BY <1>3, <1>4 DEF Started
<1>5. CASE k.connect_ /\ result = "in progress"
  <2>1. n = Connecting(opened)
    BY <1>3, <1>5 DEF Connect
  <2>2. opened = [k EXCEPT !.sockets = k.sockets + 1] /\ opened.channel_ = "null"
    BY <1>5 DEF Connectors
  <2>3. Assert(opened, TRUE) = opened
    BY <1>2 DEF Assert, Connectors
  <2>4. n = [k EXCEPT !.sockets = k.sockets + 1, !.state_ = "kConnecting", !.channel_ = "watched"]
    BY <2>1, <2>2, <2>3 DEF Connecting, Connectors
  <2> HIDE DEF n
  <2> QED BY <1>2, <1>5, <2>4 DEF Started, Connectors
<1>6. CASE k.connect_ /\ result = "try again"
  <2>1. n = Retry(opened)
    BY <1>3, <1>6 DEF Connect
  <2>2. n = [k EXCEPT !.state_ = "kDisconnected", !.timers = k.timers + 1,
                      !.retryDelayMs_ = Backoff(k.retryDelayMs_)]
    BY <1>2, <1>6, <2>1 DEF Retry, Connectors
  <2> HIDE DEF n
  <2> QED BY <1>2, <1>6, <2>2 DEF Started, Connectors
<1>7. CASE k.connect_ /\ result = "hopeless"
  <2>1. n = [k EXCEPT !.gaveUp = TRUE]
    BY <1>2, <1>3, <1>7 DEF Connect, Connectors
  <2> HIDE DEF n
  <2> QED BY <1>7, <2>1 DEF Started, Connectors
<1> QED BY <1>1, <1>4, <1>5, <1>6, <1>7 DEF ConnectResults

-----------------------------------------------------------------------------
(* The invariant, action by action                                         *)

\* The types, one by one.
LEMMA Typed ==
    ASSUME ClientTypeOK
    PROVE  /\ connector_ \in Connectors /\ connector_.queue \in Seq(LoopFunctors)
           /\ batch \in Seq(LoopFunctors)
           /\ connector_.sockets \in Nat /\ connector_.timers \in Nat
           /\ 0 \notin Conns
  BY ConnsAssumption DEF ClientTypeOK, Connectors

\* Nothing the invariant is about changes.
LEMMA InvKept ==
    ASSUME CInv, connect_' \in BOOLEAN,
           UNCHANGED <<connector_, retry_, connection_, conn, phase, batch, restarting, user, alive,
                       keepAlive, overtaken>>
    PROVE  CInv'
<1>1. ClientTypeOK'
  BY DEF CInv, ClientTypeOK
<1>2. FunctorsOK'
  BY DEF CInv, FunctorsOK, AboutClosed, Queued
<1>3. OneAtATime'
  BY DEF CInv, OneAtATime
<1>4. ConnsOK'
  BY DEF CInv, ConnsOK, Queued, Attempts, Connections
<1>5. NotConnected' /\ StopOK' /\ GoneOK'
  BY DEF CInv, NotConnected, StopOK, GoneOK, Queued
<1> QED BY <1>1, <1>2, <1>3, <1>4, <1>5 DEF CInv

LEMMA InvDisconnect == ASSUME CInv, Disconnect PROVE CInv'
<1>1. /\ connect_' \in BOOLEAN
      /\ UNCHANGED <<connector_, retry_, connection_, conn, phase, batch, restarting, user, alive,
                     keepAlive, overtaken>>
  BY DEF Disconnect, lifeVars
<1> QED BY <1>1, InvKept

\* The Connector is let go after its channel is gone and no functor waits.
LEMMA InvRemoveConnector == ASSUME CInv, RemoveConnector PROVE CInv'
<1>1. /\ UNCHANGED <<connector_, retry_, connect_, connection_, conn, batch, restarting, user, alive,
                     overtaken>>
      /\ keepAlive' = FALSE /\ phase' = "handled" /\ phase = "poll"
      /\ connector_.channel_ # "removed" /\ connector_.queue = <<>>
  BY DEF RemoveConnector, Event
<1>2. ~restarting /\ batch = <<>> /\ \A n : ~Queued(n)
  BY <1>1 DEF CInv, OneAtATime, FunctorsOK, Queued, Has
<1>3. ClientTypeOK'
  BY <1>1 DEF CInv, ClientTypeOK
<1>4. FunctorsOK'
  BY <1>1, <1>2 DEF CInv, FunctorsOK, AboutClosed, Queued
<1>5. OneAtATime'
  BY <1>1, <1>2 DEF CInv, OneAtATime, Queued
<1>6. ConnsOK'
  BY <1>1 DEF CInv, ConnsOK, Queued, Attempts, Connections
<1>7. NotConnected' /\ StopOK'
  <2>1. keepAlive
    BY DEF RemoveConnector
  <2>2. user # "new"
    BY <2>1 DEF CInv, GoneOK
  <2> QED BY <1>1, <2>2 DEF CInv, NotConnected, StopOK, Queued
<1>8. GoneOK'
  <2>1. connector_.channel_ \in {"null", "watched", "removed"}
    BY DEF CInv, ClientTypeOK, Connectors
  <2> QED BY <1>1, <1>2, <2>1 DEF CInv, GoneOK, OneAtATime, Queued
<1> QED BY <1>3, <1>4, <1>5, <1>6, <1>7, <1>8 DEF CInv

LEMMA InvFunctorsDone == ASSUME CInv, FunctorsDone PROVE CInv'
<1>1. /\ UNCHANGED <<connector_, retry_, connect_, connection_, conn, batch, restarting, user, alive,
                     keepAlive, overtaken>>
      /\ phase' = "poll" /\ phase = "functors" /\ batch = <<>>
  BY DEF FunctorsDone, lifeVars
<1>2. ~restarting
  BY <1>1 DEF CInv, OneAtATime
<1>3. ClientTypeOK'
  BY <1>1 DEF CInv, ClientTypeOK
<1>4. FunctorsOK'
  BY <1>1 DEF CInv, FunctorsOK, AboutClosed, Queued
<1>5. OneAtATime'
  BY <1>1, <1>2 DEF CInv, OneAtATime, Queued
<1>6. ConnsOK'
  BY <1>1 DEF CInv, ConnsOK, Queued, Attempts, Connections
<1>7. NotConnected' /\ StopOK'
  BY <1>1 DEF CInv, NotConnected, StopOK, Queued
<1>8. GoneOK'
  BY <1>1 DEF CInv, GoneOK, Queued
<1> QED BY <1>3, <1>4, <1>5, <1>6, <1>7, <1>8 DEF CInv

\* The queue becomes the batch.
LEMMA InvDoPendingFunctors == ASSUME CInv, DoPendingFunctors PROVE CInv'
<1>1. /\ UNCHANGED <<retry_, connect_, connection_, conn, restarting, user, alive, keepAlive,
                     overtaken>>
      /\ ~restarting /\ phase' = "functors"
      /\ phase = "handled" \/ (phase = "poll" /\ connector_.queue # <<>>)
      /\ batch' = connector_.queue /\ connector_' = [connector_ EXCEPT !.queue = <<>>]
  BY DEF DoPendingFunctors, lifeVars
<1>2. /\ connector_ \in Connectors /\ connector_.queue \in Seq(LoopFunctors)
  BY Typed DEF CInv
<1>3. /\ connector_'.queue = <<>> /\ connector_' \in Connectors
      /\ connector_'.connect_ = connector_.connect_ /\ connector_'.state_ = connector_.state_
      /\ connector_'.channel_ = connector_.channel_ /\ connector_'.timers = connector_.timers
      /\ connector_'.sockets = connector_.sockets /\ connector_'.aborted = connector_.aborted
  <2>1. <<>> \in Seq(LoopFunctors) /\ connector_' = [connector_ EXCEPT !.queue = <<>>]
    BY <1>1
  <2> QED BY <1>2, <2>1 DEF Connectors
<1>4. batch = <<>>
  BY <1>1 DEF CInv, FunctorsOK
<1>5. /\ \A n : ~Has(connector_'.queue, n) /\ ~Has(batch, n)
      /\ \A n : Has(batch', n) <=> Has(connector_.queue, n)
  BY <1>1, <1>3, <1>4 DEF Has
<1>6. \A n : Queued(n)' <=> Queued(n)
  BY <1>5 DEF Queued
<1>7. ClientTypeOK'
  BY <1>1, <1>2, <1>3 DEF CInv, ClientTypeOK
<1>8. FunctorsOK'
  <2>1. Once(connector_'.queue) /\ AboutClosed(connector_.queue)' /\ Once(batch')
    BY <1>1, <1>3 DEF Once, AboutClosed, CInv, FunctorsOK
  <2>2. AboutClosed(batch)'
    BY <1>1 DEF CInv, FunctorsOK, AboutClosed
  <2> QED BY <1>1, <1>3, <1>5, <1>6, <2>1, <2>2 DEF CInv, FunctorsOK
<1>9. OneAtATime'
  BY <1>1, <1>3, <1>5 DEF CInv, OneAtATime
<1>10. ConnsOK'
  BY <1>1, <1>3, <1>6 DEF CInv, ConnsOK, Attempts, Connections
<1>11. user # "new"
  BY <1>1 DEF CInv, NotConnected, NewConnector
<1>12. NotConnected' /\ StopOK'
  BY <1>1, <1>3, <1>6, <1>11 DEF CInv, NotConnected, StopOK
<1>13. GoneOK'
  BY <1>1, <1>3, <1>6 DEF CInv, GoneOK
<1> QED BY <1>7, <1>8, <1>9, <1>10, <1>12, <1>13 DEF CInv

\* connect(): the first functor of a new client.
LEMMA InvUserConnect == ASSUME CInv, UserConnect PROVE CInv'
<1> DEFINE f == [name |-> "startInLoop", conn |-> 0]
<1>1. /\ user = "new" /\ user' = "started" /\ connect_' = TRUE
      /\ connector_' = Queue([connector_ EXCEPT !.connect_ = TRUE], "startInLoop", 0)
      /\ UNCHANGED <<retry_, connection_, conn, phase, batch, restarting, alive, keepAlive, overtaken>>
  BY DEF UserConnect, lifeVars
<1>2. connector_ = NewConnector /\ phase = "poll" /\ connection_ = 0 /\ alive /\ batch = <<>>
  BY <1>1 DEF CInv, NotConnected, FunctorsOK
<1>3. f \in LoopFunctors /\ Append(<<>>, f) = <<f>> /\ <<f>> \in Seq(LoopFunctors)
  BY DEF LoopFunctors, Names
<1>4. /\ connector_' = [NewConnector EXCEPT !.connect_ = TRUE, !.queue = <<f>>]
      /\ connector_'.queue = <<f>> /\ connector_'.state_ = "kDisconnected"
      /\ connector_'.channel_ = "null" /\ connector_'.timers = 0 /\ connector_'.sockets = 0
      /\ ~connector_'.aborted
  BY <1>1, <1>2, <1>3 DEF Queue, NewConnector
<1>5. connector_' \in Connectors
  BY <1>3, <1>4, ConnectorAssumption DEF Connectors, NewConnector
<1>6. /\ \A n : ~Queued(n)
      /\ \A n : Has(connector_'.queue, n) <=> n = "startInLoop"
      /\ \A n : ~Has(batch, n)
  <2>1. connector_.queue = <<>> /\ DOMAIN <<f>> = {1} /\ <<f>>[1].name = "startInLoop"
    BY <1>2 DEF NewConnector
  <2> QED BY <1>2, <1>4, <2>1 DEF Has, Queued
<1>7. ClientTypeOK'
  BY <1>1, <1>5 DEF CInv, ClientTypeOK
<1>8. FunctorsOK'
  <2>1. Once(connector_'.queue) /\ AboutClosed(connector_.queue)'
    BY <1>4 DEF Once, AboutClosed
  <2>2. Once(batch') /\ AboutClosed(batch)' /\ phase' # "functors"
    BY <1>1, <1>2 DEF CInv, FunctorsOK, AboutClosed
  <2> QED BY <1>1, <1>2, <1>4, <1>6, <2>1, <2>2 DEF FunctorsOK, Queued
<1>9. ~restarting
  BY <1>2 DEF CInv, OneAtATime
<1>10. OneAtATime'
  BY <1>1, <1>2, <1>4, <1>9 DEF OneAtATime
<1>11. ConnsOK'
  <2>1. \A c \in Conns : conn[c] = "none"
    BY <1>2, <1>6, ConnsAssumption DEF CInv, ConnsOK, ClientTypeOK
  <2> QED BY <1>1, <1>2, <1>4, <2>1, ConnsAssumption DEF ConnsOK, Attempts, Connections
<1>12. NotConnected' /\ StopOK'
  BY <1>1, <1>4 DEF NotConnected, StopOK
<1>13. GoneOK'
  BY <1>1, <1>2 DEF CInv, GoneOK
<1> QED BY <1>7, <1>8, <1>10, <1>11, <1>12, <1>13 DEF CInv

LEMMA InvUserStop == ASSUME CInv, UserStop PROVE CInv'
<1>1. /\ alive
      /\ UNCHANGED <<retry_, connection_, conn, phase, batch, restarting, alive, keepAlive, overtaken>>
  BY DEF UserStop, lifeVars
<1>2. connector_ \in Connectors /\ connector_.queue \in Seq(LoopFunctors)
  BY Typed DEF CInv
<1>3. CASE user = "started" /\ user' = "stop client" /\ connect_' = FALSE /\ UNCHANGED connector_
  <2>1. ClientTypeOK'
    BY <1>1, <1>3 DEF CInv, ClientTypeOK
  <2>2. FunctorsOK'
    BY <1>1, <1>3 DEF CInv, FunctorsOK, AboutClosed, Queued
  <2>3. OneAtATime' /\ ConnsOK'
    BY <1>1, <1>3 DEF CInv, OneAtATime, ConnsOK, Queued, Attempts, Connections
  <2>4. NotConnected' /\ StopOK' /\ GoneOK'
    BY <1>1, <1>3 DEF CInv, NotConnected, StopOK, GoneOK, Queued
  <2> QED BY <2>1, <2>2, <2>3, <2>4 DEF CInv
<1>4. CASE /\ user = "stop client" /\ user' = "stop connector"
           /\ connector_' = [connector_ EXCEPT !.connect_ = FALSE] /\ UNCHANGED connect_
  <2>1. /\ connector_' \in Connectors /\ connector_'.queue = connector_.queue
        /\ connector_'.state_ = connector_.state_ /\ connector_'.channel_ = connector_.channel_
        /\ connector_'.timers = connector_.timers /\ connector_'.sockets = connector_.sockets
        /\ connector_'.aborted = connector_.aborted /\ connector_'.connect_ = FALSE
    BY <1>2, <1>4 DEF Connectors
  <2>2. ClientTypeOK'
    BY <1>1, <1>4, <2>1 DEF CInv, ClientTypeOK
  <2>3. FunctorsOK'
    BY <1>1, <1>4, <2>1 DEF CInv, FunctorsOK, AboutClosed, Queued
  <2>4. OneAtATime' /\ ConnsOK'
    BY <1>1, <1>4, <2>1 DEF CInv, OneAtATime, ConnsOK, Queued, Attempts, Connections
  <2>5. NotConnected' /\ StopOK' /\ GoneOK'
    BY <1>1, <1>4, <2>1 DEF CInv, NotConnected, StopOK, GoneOK, Queued
  <2> QED BY <2>2, <2>3, <2>4, <2>5 DEF CInv
<1>5. CASE /\ user = "stop connector" /\ user' = "stopped"
           /\ connector_' = Queue(connector_, "stopInLoop", 0) /\ UNCHANGED connect_
  <2> DEFINE f == [name |-> "stopInLoop", conn |-> 0]
  <2>1. connector_' = [connector_ EXCEPT !.queue = Append(connector_.queue, f)]
    BY <1>2, <1>5 DEF Queue, Connectors
  <2>2. f \in LoopFunctors /\ f.name = "stopInLoop"
    BY DEF LoopFunctors, Names
  <2>3. ~Queued("stopInLoop") /\ Once(connector_.queue)
    BY <1>5 DEF CInv, FunctorsOK
  <2>4. Appended(connector_.queue, Append(connector_.queue, f), f)
    BY <1>2, <2>2, <2>3, QueueAppend DEF Queued
  <2>5. /\ connector_' \in Connectors /\ connector_'.queue = Append(connector_.queue, f)
        /\ connector_'.state_ = connector_.state_ /\ connector_'.channel_ = connector_.channel_
        /\ connector_'.timers = connector_.timers /\ connector_'.sockets = connector_.sockets
        /\ connector_'.aborted = connector_.aborted /\ connector_'.connect_ = connector_.connect_
    BY <1>2, <2>1, <2>4 DEF Connectors, Appended
  <2> HIDE DEF f
  <2>6. Appended(connector_.queue, connector_'.queue, f)
    BY <2>4, <2>5
  <2>7. /\ \A n : n # "stopInLoop" => (Has(connector_'.queue, n) <=> Has(connector_.queue, n))
        /\ Has(connector_'.queue, "stopInLoop")
        /\ Once(connector_'.queue)
    BY <2>2, <2>6 DEF Appended
  <2>8. AboutClosed(connector_.queue)'
    BY <1>1, <2>6 DEF CInv, FunctorsOK, AboutClosed, Appended, f
  <2>9. ClientTypeOK'
    BY <1>1, <1>5, <2>5 DEF CInv, ClientTypeOK
  <2>10. FunctorsOK'
    <3>1. AboutClosed(batch)' /\ Once(batch')
      BY <1>1 DEF CInv, FunctorsOK, AboutClosed
    <3> QED BY <1>1, <1>5, <2>3, <2>5, <2>7, <2>8, <3>1 DEF CInv, FunctorsOK, Queued
  <2>11. OneAtATime' /\ ConnsOK'
    BY <1>1, <2>5, <2>7 DEF CInv, OneAtATime, ConnsOK, Queued, Attempts, Connections
  <2>12. NotConnected' /\ StopOK' /\ GoneOK'
    BY <1>1, <1>5, <2>5, <2>7 DEF CInv, NotConnected, StopOK, GoneOK, Queued
  <2> QED BY <2>9, <2>10, <2>11, <2>12 DEF CInv
<1> QED BY <1>3, <1>4, <1>5 DEF UserStop

\* An attempt may start from k: the Connector has nothing under way.
MayStart(k) ==
    /\ k \in Connectors
    /\ k.state_ = "kDisconnected" /\ k.channel_ = "null" /\ k.timers = 0
    /\ k.queue = connector_.queue /\ k.sockets = connector_.sockets /\ ~k.aborted
    /\ connector_.channel_ = "null" /\ connection_ = 0 /\ user # "new"
    /\ alive \/ ~k.connect_

\* What startInLoop() makes of it keeps the invariant.
LEMMA InvStarted ==
    ASSUME CInv, NEW k, MayStart(k), Started(k, connector_'),
           UNCHANGED <<retry_, connect_, connection_, conn, user, alive, keepAlive>>,
           overtaken' \in BOOLEAN, overtaken => overtaken', restarting' = FALSE,
           ~overtaken' => k.connect_ = connector_.connect_ \/ user = "started",
           phase' \in {"handled", "functors"}, phase' # "functors" => batch' = <<>>,
           Has(connector_.queue, "connectDestroyed") => phase' = "handled",
           batch' \in Seq(LoopFunctors), Once(batch'), AboutClosed(batch)',
           \A n : Has(batch', n) => Has(batch, n),
           \A n : n # "startInLoop" /\ Has(batch, n) => Has(batch', n),
           ~Queued("startInLoop")'
    PROVE  CInv'
<1>1. /\ connector_' \in Connectors
      /\ connector_'.connect_ = k.connect_ /\ ~connector_'.aborted
      /\ connector_'.queue = connector_.queue
      /\ connector_'.channel_ = "watched" <=> connector_'.state_ = "kConnecting"
      /\ connector_'.channel_ # "removed" /\ connector_'.state_ # "kConnected"
      /\ connector_'.state_ = "kConnecting" => k.connect_ /\ connector_'.timers = 0
      /\ connector_'.timers = 0 \/ (connector_'.timers = 1 /\ k.connect_)
      /\ connector_'.sockets = IF connector_'.channel_ = "watched" THEN connector_.sockets + 1
                               ELSE connector_.sockets
  BY DEF MayStart, Started
<1>2. /\ \A n : n # "startInLoop" => (Queued(n)' <=> Queued(n))
      /\ ~Queued("resetChannel")
  BY <1>1 DEF Queued, CInv, FunctorsOK, MayStart
<1>3. ClientTypeOK'
  BY <1>1 DEF CInv, ClientTypeOK
<1>4. FunctorsOK'
  <2>1. Once(connector_'.queue) /\ AboutClosed(connector_.queue)'
    BY <1>1 DEF CInv, FunctorsOK, AboutClosed
  <2> QED BY <1>1, <1>2, <2>1 DEF CInv, FunctorsOK
<1>5. OneAtATime'
  <2>1. connection_' = 0 /\ ~restarting'
    BY DEF MayStart
  <2>2. connector_'.timers <= 1 /\ (connector_'.timers = 1 => connector_'.state_ = "kDisconnected")
    <3>1. connector_'.state_ \in {"kDisconnected", "kConnecting", "kConnected"}
      BY <1>1 DEF Connectors
    <3> QED BY <1>1, <3>1
  <2> QED BY <1>1, <2>1, <2>2 DEF OneAtATime
<1>6. ConnsOK'
  <2>1. Attempts' = (IF connector_'.channel_ = "watched" THEN 1 ELSE 0) /\ Attempts = 0
        /\ Connections' = Connections /\ Connections \in {0, 1}
    BY DEF Attempts, Connections, MayStart
  <2>2. connector_'.sockets = Attempts' + Connections'
    BY <1>1, <2>1 DEF CInv, ConnsOK
  <2> QED BY <1>2, <2>2 DEF CInv, ConnsOK
<1>7. NotConnected'
  BY DEF NotConnected, MayStart
<1>8. StopOK'
  BY <1>1, <1>2 DEF CInv, StopOK, MayStart
<1>9. GoneOK'
  <2>1. connector_'.channel_ \in {"null", "watched", "removed"}
    BY <1>1 DEF Connectors
  <2>2. ~alive => ~k.connect_
    BY DEF MayStart
  <2> QED BY <1>1, <1>2, <2>1, <2>2 DEF CInv, GoneOK
<1> QED BY <1>3, <1>4, <1>5, <1>6, <1>7, <1>8, <1>9 DEF CInv

LEMMA InvTimerFires ==
    ASSUME CInv, NEW result \in ConnectResults, TimerFires(result) PROVE CInv'
<1> DEFINE k == [connector_ EXCEPT !.timers = @ - 1]
<1>1. /\ phase = "poll" /\ phase' = "handled"
      /\ connector_.timers > 0 /\ connector_.channel_ # "removed"
      /\ connector_' = StartInLoop(k, result)
      /\ UNCHANGED <<retry_, connect_, connection_, conn, batch, restarting, user, alive, keepAlive,
                     overtaken>>
  BY DEF TimerFires, Event, lifeVars
<1>2. connector_ \in Connectors /\ connector_.timers \in Nat /\ batch \in Seq(LoopFunctors)
  BY Typed DEF CInv
<1>3. connector_.timers = 1 /\ 1 - 1 = 0
  BY <1>1, <1>2 DEF CInv, OneAtATime
<1>4. k = [connector_ EXCEPT !.timers = 0]
  BY <1>2, <1>3
<1>5. /\ connector_.state_ = "kDisconnected" /\ connector_.channel_ = "null" /\ connection_ = 0
      /\ ~restarting /\ ~connector_.aborted
  <2>1. connector_.channel_ \in {"null", "watched", "removed"}
    BY <1>2 DEF Connectors
  <2> QED BY <1>1, <1>3, <2>1 DEF CInv, OneAtATime
<1>6. user # "new"
  BY <1>3 DEF CInv, NotConnected, NewConnector
<1>7. alive \/ ~connector_.connect_
  BY <1>1 DEF CInv, GoneOK
<1>8. MayStart(k) /\ k.connect_ = connector_.connect_
  BY <1>2, <1>4, <1>5, <1>6, <1>7 DEF MayStart, Connectors
<1> HIDE DEF k
<1>9. Started(k, connector_')
  BY <1>1, <1>8, StartStarts DEF MayStart
<1>10. batch' = <<>> /\ batch' = batch /\ ~Queued("startInLoop")
  BY <1>1, <1>3 DEF CInv, FunctorsOK
<1>11. ~Queued("startInLoop")'
  BY <1>8, <1>9, <1>10 DEF Queued, Started, MayStart
<1>12. Once(batch') /\ AboutClosed(batch)'
  BY <1>1 DEF CInv, FunctorsOK, AboutClosed
<1>13. overtaken' \in BOOLEAN /\ restarting' = FALSE
  BY <1>1, <1>5 DEF CInv, ClientTypeOK
<1> QED BY <1>1, <1>2, <1>8, <1>9, <1>10, <1>11, <1>12, <1>13, InvStarted

LEMMA InvRestarts ==
    ASSUME CInv, NEW result \in ConnectResults, RemoveConnectionRestarts(result) PROVE CInv'
<1> DEFINE k == [connector_ EXCEPT !.state_ = "kDisconnected",
                                   !.retryDelayMs_ = kInitRetryDelayMs, !.connect_ = TRUE]
<1>1. /\ restarting /\ restarting' = FALSE
      /\ connector_' = StartInLoop(k, result)
      /\ overtaken' = (overtaken \/ user \notin {"new", "started"})
      /\ UNCHANGED <<retry_, connect_, connection_, conn, phase, batch, user, alive, keepAlive>>
  BY DEF RemoveConnectionRestarts, Restart, lifeVars
<1>2. connector_ \in Connectors /\ connector_.timers \in Nat /\ batch \in Seq(LoopFunctors)
  BY Typed DEF CInv
<1>3. /\ phase = "handled" /\ connection_ = 0 /\ connector_.state_ = "kConnected"
      /\ connector_.channel_ = "null" /\ ~connector_.aborted
  BY <1>1 DEF CInv, OneAtATime
<1>4. connector_.timers = 0
  <2>1. connector_.timers # 1 /\ connector_.timers <= 1
    BY <1>3 DEF CInv, OneAtATime
  <2> QED BY <1>2, <2>1
<1>5. user # "new" /\ alive
  BY <1>1, <1>3 DEF CInv, NotConnected, NewConnector, GoneOK
<1>6. kInitRetryDelayMs \in Nat
  BY ConnectorAssumption
<1>7. MayStart(k)
  BY <1>2, <1>3, <1>4, <1>5, <1>6 DEF MayStart, Connectors
<1> HIDE DEF k
<1>8. Started(k, connector_')
  BY <1>1, <1>7, StartStarts DEF MayStart
<1>9. batch' = <<>> /\ batch' = batch /\ ~Queued("startInLoop")
  BY <1>1, <1>3 DEF CInv, FunctorsOK
<1>10. ~Queued("startInLoop")'
  BY <1>7, <1>8, <1>9 DEF Queued, Started, MayStart
<1>11. Once(batch') /\ AboutClosed(batch)'
  BY <1>1 DEF CInv, FunctorsOK, AboutClosed
<1>12. overtaken' \in BOOLEAN /\ (overtaken => overtaken')
  BY <1>1 DEF CInv, ClientTypeOK
<1>13. ~overtaken' => user = "started"
  BY <1>1, <1>5
<1> QED BY <1>1, <1>2, <1>3, <1>7, <1>8, <1>9, <1>10, <1>11, <1>12, <1>13, InvStarted

\* k is the Connector whose attempt is about to be given up; ~TcpClient has
\* cleared its connect_ before.
MayDrop(k) ==
    /\ k \in Connectors
    /\ k.queue = connector_.queue /\ k.sockets = connector_.sockets
    /\ k.timers = connector_.timers /\ ~k.aborted
    /\ ~connector_.connect_ => ~k.connect_
    /\ connector_.state_ = "kConnecting"

\* An attempt under way has a socket, and nothing else is under way.
LEMMA AttemptFacts ==
    ASSUME CInv, connector_.state_ = "kConnecting"
    PROVE  /\ connector_.channel_ = "watched" /\ connector_.timers = 0
           /\ connector_.sockets = 1 + Connections /\ Connections \in {0, 1}
           /\ connector_.sockets > 0
           /\ connection_ = 0 /\ ~restarting /\ alive /\ user # "new"
           /\ ~Queued("startInLoop") /\ ~Queued("resetChannel")
           /\ ~connector_.aborted
<1>1. connector_.channel_ = "watched" /\ connection_ = 0 /\ ~restarting /\ ~connector_.aborted
  BY DEF CInv, OneAtATime
<1>2. connector_.timers = 0
  <2>1. connector_.timers # 1 /\ connector_.timers <= 1 /\ connector_.timers \in Nat
    BY Typed DEF CInv, OneAtATime
  <2> QED BY <2>1
<1>3. connector_.sockets = 1 + Connections /\ Connections \in {0, 1}
  BY <1>1 DEF CInv, ConnsOK, Attempts, Connections
<1>4. connector_.sockets > 0
  BY <1>3
<1>5. alive /\ user # "new"
  BY DEF CInv, GoneOK, NotConnected, NewConnector
<1>6. ~Queued("startInLoop") /\ ~Queued("resetChannel")
  BY <1>1 DEF CInv, FunctorsOK
<1> QED BY <1>1, <1>2, <1>3, <1>4, <1>5, <1>6

LEMMA InvDropped ==
    ASSUME CInv, NEW k, MayDrop(k), Dropped(k, connector_'),
           UNCHANGED <<retry_, connect_, connection_, conn, restarting, user, overtaken>>,
           phase' \in {"handled", "functors"}, phase' # "functors" => batch' = <<>>,
           Has(connector_.queue, "connectDestroyed") => phase' = "handled",
           batch' \in Seq(LoopFunctors), Once(batch'), AboutClosed(batch)',
           \A n : Has(batch', n) => Has(batch, n),
           \A n : n # "stopInLoop" /\ Has(batch, n) => Has(batch', n),
           alive' \in BOOLEAN, keepAlive' \in BOOLEAN, keepAlive' => ~alive',
           ~alive' => keepAlive' /\ ~k.connect_ /\ user \in {"started", "stopped"}
    PROVE  CInv'
<1> DEFINE f == [name |-> "resetChannel", conn |-> 0]
<1>1. /\ connector_.channel_ = "watched" /\ connector_.timers = 0
      /\ connector_.sockets = 1 + Connections /\ Connections \in {0, 1}
      /\ connection_ = 0 /\ ~restarting /\ user # "new"
      /\ ~Queued("startInLoop") /\ ~Queued("resetChannel")
  BY AttemptFacts DEF MayDrop
<1>2. /\ connector_' \in Connectors
      /\ connector_'.connect_ = k.connect_ /\ ~connector_'.aborted
      /\ connector_'.state_ = "kDisconnected" /\ connector_'.channel_ = "removed"
      /\ connector_'.queue = Append(connector_.queue, f)
      /\ connector_'.sockets = Connections
      /\ connector_'.timers = IF k.connect_ THEN 1 ELSE 0
  BY <1>1 DEF MayDrop, Dropped
<1>3. Appended(connector_.queue, connector_'.queue, f)
  BY <1>1, <1>2, ResetIsFunctor, QueueAppend, Typed DEF CInv, FunctorsOK, Queued
<1>4. f.name = "resetChannel" /\ f.conn = 0
  OBVIOUS
<1> HIDE DEF f
<1>5. /\ Once(connector_'.queue)
      /\ \A n : Has(connector_'.queue, n) <=> Has(connector_.queue, n) \/ n = "resetChannel"
  BY <1>3, <1>4 DEF Appended
<1>6. /\ \A n : n \notin {"stopInLoop", "resetChannel"} => (Queued(n)' <=> Queued(n))
      /\ Queued("stopInLoop")' => Queued("stopInLoop")
      /\ Queued("resetChannel")'
  BY <1>5 DEF Queued
<1>7. ClientTypeOK'
  BY <1>2 DEF CInv, ClientTypeOK
<1>8. FunctorsOK'
  <2>1. AboutClosed(connector_.queue)'
    BY <1>3, <1>4 DEF CInv, FunctorsOK, AboutClosed, Appended
  <2>2. \A n \in Names : ~(Has(connector_'.queue, n) /\ Has(batch', n))
    BY <1>1, <1>5 DEF CInv, FunctorsOK, Queued
  <2> QED BY <1>1, <1>2, <1>5, <1>6, <2>1, <2>2 DEF CInv, FunctorsOK
<1>9. OneAtATime'
  BY <1>1, <1>2 DEF OneAtATime
<1>10. ConnsOK'
  <2>1. Attempts' = 0 /\ Connections' = Connections
    BY <1>2 DEF Attempts, Connections
  <2>2. connector_'.sockets = Attempts' + Connections'
    BY <1>1, <1>2, <2>1
  <2> QED BY <1>6, <2>2 DEF CInv, ConnsOK
<1>11. NotConnected'
  BY <1>1 DEF NotConnected
<1>12. StopOK'
  BY <1>2 DEF CInv, StopOK, MayDrop
<1>13. GoneOK'
  BY <1>1, <1>2, <1>6 DEF CInv, GoneOK
<1> QED BY <1>7, <1>8, <1>9, <1>10, <1>11, <1>12, <1>13 DEF CInv

LEMMA InvAttemptFails ==
    ASSUME CInv, NEW events \in {{"err"}, {"out"}, {"err", "out"}}, AttemptFails(events) PROVE CInv'
<1>1. /\ phase = "poll" /\ phase' = "handled" /\ connector_.channel_ = "watched"
      /\ UNCHANGED <<retry_, connect_, connection_, conn, batch, restarting, user, alive, keepAlive,
                     overtaken>>
      /\ connector_' \in {HandleError(connector_), HandleWriteFailed(connector_),
                          HandleWriteFailed(HandleError(connector_))}
  BY DEF AttemptFails, Event, lifeVars
<1>2. connector_.state_ = "kConnecting"
  BY <1>1 DEF CInv, OneAtATime
<1>3. connector_ \in Connectors /\ connector_.sockets > 0 /\ alive /\ ~connector_.aborted
  BY <1>2, AttemptFacts, Typed DEF CInv
<1>4. Dropped(connector_, connector_')
  BY <1>1, <1>2, <1>3, FailuresDrop
<1>5. MayDrop(connector_)
  BY <1>2, <1>3 DEF MayDrop
<1>6. batch' = <<>> /\ batch' \in Seq(LoopFunctors) /\ Once(batch') /\ AboutClosed(batch)'
  BY <1>1, Typed DEF CInv, FunctorsOK, AboutClosed
<1>7. alive' /\ alive' \in BOOLEAN /\ keepAlive' \in BOOLEAN /\ (keepAlive' => ~alive')
  BY <1>1, <1>3 DEF CInv, ClientTypeOK, GoneOK
<1> QED BY <1>1, <1>4, <1>5, <1>6, <1>7, InvDropped

\* n is the Connector k after its socket was connected.
Connected(k, n) ==
    /\ n \in Connectors
    /\ n.connect_ = k.connect_ /\ n.aborted = k.aborted /\ n.timers = k.timers
    /\ n.state_ = "kConnected" /\ n.channel_ = "removed"
    /\ n.queue = Append(k.queue, [name |-> "resetChannel", conn |-> 0])
    /\ n.sockets = IF k.connect_ THEN k.sockets ELSE k.sockets - 1

LEMMA HandleWriteConnects ==
    ASSUME NEW k \in Connectors, k.sockets > 0
    PROVE  Connected(k, HandleWriteConnected(k))
<1> DEFINE q == Append(k.queue, [name |-> "resetChannel", conn |-> 0])
           m == IF k.connect_ THEN k.sockets ELSE k.sockets - 1
<1>1. /\ k.queue \in Seq(LoopFunctors) /\ k.sockets \in Nat /\ k.connect_ \in BOOLEAN
  BY DEF Connectors
<1>2. q \in Seq(LoopFunctors)
  BY <1>1, ResetIsFunctor
<1>3. m \in Nat
  <2>1. \A x \in Nat : x > 0 => x - 1 \in Nat
    OBVIOUS
  <2> QED BY <1>1, <2>1
<1>4. RemoveAndResetChannel(k) = [k EXCEPT !.channel_ = "removed", !.queue = q]
  BY DEF RemoveAndResetChannel, Queue, Connectors
<1>5. HandleWriteConnected(k) = [k EXCEPT !.channel_ = "removed", !.queue = q,
                                          !.state_ = "kConnected", !.sockets = m]
  BY <1>4 DEF HandleWriteConnected, Connectors
<1> HIDE DEF q, m
<1>6. Connected(k, [k EXCEPT !.channel_ = "removed", !.queue = q, !.state_ = "kConnected",
                             !.sockets = m])
  BY <1>2, <1>3 DEF Connected, Connectors, q, m
<1> QED BY <1>5, <1>6

LEMMA InvAttemptSucceeds == ASSUME CInv, AttemptSucceeds PROVE CInv'
<1> DEFINE f == [name |-> "resetChannel", conn |-> 0]
<1>1. /\ phase = "poll" /\ phase' = "handled" /\ connector_.state_ = "kConnecting"
      /\ connector_' = HandleWriteConnected(connector_)
      /\ UNCHANGED <<retry_, connect_, batch, restarting, user, alive, keepAlive, overtaken>>
  BY DEF AttemptSucceeds, Event, lifeVars
<1>2. /\ connector_.channel_ = "watched" /\ connector_.timers = 0
      /\ connector_.sockets = 1 + Connections /\ connector_.sockets > 0
      /\ connection_ = 0 /\ ~restarting /\ alive /\ user # "new"
      /\ ~Queued("startInLoop") /\ ~Queued("resetChannel")
      /\ ~connector_.aborted
  BY <1>1, AttemptFacts
<1>3. connector_ \in Connectors /\ connector_.queue \in Seq(LoopFunctors) /\ 0 \notin Conns
  BY Typed DEF CInv
<1>4. batch = <<>> /\ ~Queued("connectDestroyed")
  BY <1>1 DEF CInv, FunctorsOK, Queued, Has
<1>5. \A c \in Conns : conn[c] = "none"
  BY <1>2, <1>3, <1>4 DEF CInv, ConnsOK, ClientTypeOK
<1>6. Connections = 0 /\ connector_.sockets = 1 /\ 1 - 1 = 0
  BY <1>2, <1>5 DEF Connections
<1>7. /\ connector_' \in Connectors
      /\ connector_'.connect_ = connector_.connect_ /\ ~connector_'.aborted
      /\ connector_'.timers = 0 /\ connector_'.state_ = "kConnected"
      /\ connector_'.channel_ = "removed" /\ connector_'.queue = Append(connector_.queue, f)
      /\ connector_'.sockets = IF connector_.connect_ THEN 1 ELSE 0
  BY <1>1, <1>2, <1>3, <1>6, HandleWriteConnects DEF Connected
\* Who has the socket now.
<1>8. \/ /\ connector_.connect_
         /\ \E c \in Conns : connection_' = c /\ conn' = [conn EXCEPT ![c] = "up"]
      \/ ~connector_.connect_ /\ UNCHANGED <<conn, connection_>>
  <2>1. (CHOOSE x \in Conns : conn[x] = "none") \in Conns
    BY <1>5, ConnsAssumption
  <2> QED BY <2>1 DEF AttemptSucceeds
<1>9. Appended(connector_.queue, connector_'.queue, f)
  BY <1>2, <1>3, <1>7, ResetIsFunctor, QueueAppend DEF CInv, FunctorsOK, Queued
<1>10. f.name = "resetChannel" /\ f.conn = 0
  OBVIOUS
<1> HIDE DEF f
<1>11. /\ Once(connector_'.queue)
       /\ \A n : Has(connector_'.queue, n) <=> Has(connector_.queue, n) \/ n = "resetChannel"
       /\ \A n : ~Has(batch', n)
  BY <1>1, <1>4, <1>9, <1>10 DEF Appended, Has
<1>12. /\ \A n : n # "resetChannel" => (Queued(n)' <=> Queued(n))
       /\ Queued("resetChannel")'
  BY <1>1, <1>11 DEF Queued
<1>13. conn' \in [Conns -> {"none", "up", "closed"}] /\ connection_' \in Conns \cup {0}
       /\ \A c \in Conns : /\ conn'[c] \in {"none", "up"}
                           /\ conn'[c] = "up" <=> connection_' = c
  BY <1>2, <1>3, <1>5, <1>8 DEF CInv, ClientTypeOK
<1>14. ClientTypeOK'
  BY <1>1, <1>7, <1>13 DEF CInv, ClientTypeOK
<1>15. FunctorsOK'
  <2>1. AboutClosed(connector_.queue)'
    <3>1. \A i \in DOMAIN connector_.queue :
              connector_.queue[i].name # "connectDestroyed" /\ connector_.queue[i].conn = 0
      BY <1>4 DEF CInv, FunctorsOK, AboutClosed, Queued, Has
    <3> QED BY <1>9, <1>10, <3>1 DEF AboutClosed, Appended, f
  <2>2. AboutClosed(batch)' /\ Once(batch')
    BY <1>1, <1>4 DEF AboutClosed, Once
  <2> QED BY <1>1, <1>2, <1>7, <1>11, <1>12, <2>1, <2>2 DEF CInv, FunctorsOK
<1>16. OneAtATime'
  BY <1>1, <1>2, <1>7 DEF OneAtATime
<1>17. ConnsOK'
  <2>1. connector_'.sockets = Attempts' + Connections'
    <3>1. Attempts' = 0
      BY <1>7 DEF Attempts
    <3>2. Connections' = IF connector_.connect_ THEN 1 ELSE 0
      <4>1. CASE connector_.connect_
        BY <1>8, <1>13, <4>1 DEF Connections
      <4>2. CASE ~connector_.connect_
        BY <1>5, <1>8, <4>2 DEF Connections
      <4> QED BY <4>1, <4>2
    <3> QED BY <1>7, <3>1, <3>2
  <2> QED BY <1>13, <2>1 DEF ConnsOK
<1>18. NotConnected' /\ StopOK' /\ GoneOK'
  BY <1>1, <1>2, <1>7 DEF CInv, NotConnected, StopOK, GoneOK
<1> QED BY <1>14, <1>15, <1>16, <1>17, <1>18 DEF CInv

\* What is true of a Connector that has handed its socket on, between two batches.
LEMMA ConnectedFacts ==
    ASSUME CInv, connection_ # 0, phase = "poll"
    PROVE  /\ connector_.state_ = "kConnected" /\ connector_.channel_ = "null"
           /\ connector_.timers = 0 /\ ~restarting /\ batch = <<>>
           /\ \A n \in {"startInLoop", "resetChannel", "connectDestroyed"} : ~Queued(n)
           /\ user # "new" /\ ~connector_.aborted
<1>1. connector_.state_ = "kConnected" /\ ~restarting /\ ~connector_.aborted
      /\ connector_.timers \in Nat /\ connector_.timers <= 1 /\ connector_.timers # 1
  BY Typed DEF CInv, OneAtATime
<1>2. connector_.timers = 0
  BY <1>1
<1>3. batch = <<>> /\ \A n : ~Has(batch, n)
  BY DEF CInv, FunctorsOK, Has
<1>4. \A n \in {"startInLoop", "resetChannel", "connectDestroyed"} : ~Queued(n)
  BY <1>1, <1>3 DEF CInv, FunctorsOK, OneAtATime, Queued
<1>5. connector_.channel_ = "null"
  <2>1. connector_.channel_ \in {"null", "watched", "removed"}
    BY Typed DEF CInv, Connectors
  <2> QED BY <1>1, <1>4, <2>1 DEF CInv, FunctorsOK, OneAtATime
<1>6. user # "new"
  BY DEF CInv, NotConnected
<1> QED BY <1>1, <1>2, <1>3, <1>4, <1>5, <1>6

\* It is let go only when the client is destroyed, and is not in use any more.
LEMMA InvRemoveConnection ==
    ASSUME CInv, ~Dangling, NEW c \in Conns, RemoveConnection(c) PROVE CInv'
<1> DEFINE f == [name |-> "connectDestroyed", conn |-> c]
<1>1. /\ phase = "poll" /\ phase' = "handled" /\ conn[c] = "up"
      /\ conn' = [conn EXCEPT ![c] = "closed"] /\ connection_' = 0
      /\ connector_' = Queue(Assert(connector_, alive => connection_ = c), "connectDestroyed", c)
      /\ restarting' = (alive /\ retry_ /\ connect_)
      /\ UNCHANGED <<retry_, connect_, batch, user, alive, keepAlive, overtaken>>
  BY DEF RemoveConnection, Event, lifeVars
<1>2. connection_ = c /\ connection_ # 0
  BY <1>1, Typed DEF CInv, ConnsOK
<1>3. /\ connector_.state_ = "kConnected" /\ connector_.channel_ = "null"
      /\ connector_.timers = 0 /\ ~restarting /\ batch = <<>>
      /\ \A n \in {"startInLoop", "resetChannel", "connectDestroyed"} : ~Queued(n)
      /\ user # "new" /\ ~connector_.aborted
  BY <1>1, <1>2, ConnectedFacts
<1>4. connector_ \in Connectors /\ connector_.queue \in Seq(LoopFunctors)
  BY Typed DEF CInv
<1>5. connector_' = [connector_ EXCEPT !.queue = Append(connector_.queue, f)]
  <2>1. (alive => connection_ = c) = TRUE
    BY <1>2
  <2>2. Assert(connector_, TRUE) = connector_
    BY <1>4 DEF Assert, Connectors
  <2> QED BY <1>1, <1>4, <2>1, <2>2 DEF Queue, Connectors
<1>6. f \in LoopFunctors /\ f.name = "connectDestroyed" /\ f.conn = c
  BY DEF LoopFunctors, Names
<1>7. Appended(connector_.queue, Append(connector_.queue, f), f)
  BY <1>3, <1>4, <1>6, QueueAppend DEF CInv, FunctorsOK, Queued
<1>8. /\ connector_' \in Connectors /\ connector_'.queue = Append(connector_.queue, f)
      /\ connector_'.state_ = "kConnected" /\ connector_'.channel_ = "null"
      /\ connector_'.timers = 0 /\ connector_'.sockets = connector_.sockets
      /\ ~connector_'.aborted /\ connector_'.connect_ = connector_.connect_
  BY <1>3, <1>4, <1>5, <1>7 DEF Connectors, Appended
<1> HIDE DEF f
<1>9. Appended(connector_.queue, connector_'.queue, f)
  BY <1>7, <1>8
<1>10. /\ Once(connector_'.queue)
       /\ \A n : Has(connector_'.queue, n) <=> Has(connector_.queue, n) \/ n = "connectDestroyed"
       /\ \A n : ~Has(batch', n)
  BY <1>1, <1>3, <1>6, <1>9 DEF Appended, Has
<1>11. /\ \A n : n # "connectDestroyed" => (Queued(n)' <=> Queued(n))
       /\ Queued("connectDestroyed")'
  BY <1>1, <1>10 DEF Queued
<1>12. /\ conn' \in [Conns -> {"none", "up", "closed"}] /\ conn'[c] = "closed"
       /\ \A d \in Conns : d # c => conn[d] = "none" /\ conn'[d] = "none"
  BY <1>1 DEF CInv, ClientTypeOK, ConnsOK
<1>13. ClientTypeOK'
  BY <1>1, <1>8, <1>12 DEF CInv, ClientTypeOK
<1>14. FunctorsOK'
  <2>1. AboutClosed(connector_.queue)'
    <3>1. \A i \in DOMAIN connector_.queue :
              connector_.queue[i].name # "connectDestroyed" /\ connector_.queue[i].conn = 0
      BY <1>3 DEF CInv, FunctorsOK, AboutClosed, Queued, Has
    <3> QED BY <1>6, <1>9, <1>12, <3>1 DEF AboutClosed, Appended
  <2>2. AboutClosed(batch)' /\ Once(batch')
    BY <1>1, <1>3 DEF AboutClosed, Once
  <2> QED BY <1>1, <1>3, <1>8, <1>10, <1>11, <2>1, <2>2 DEF CInv, FunctorsOK
<1>15. OneAtATime'
  BY <1>1, <1>8 DEF OneAtATime
<1>16. ConnsOK'
  <2>1. Attempts' = Attempts /\ Connections' = Connections
    BY <1>1, <1>3, <1>8, <1>12 DEF Attempts, Connections
  <2>2. connector_'.sockets = Attempts' + Connections'
    BY <1>8, <2>1 DEF CInv, ConnsOK
  <2> QED BY <1>1, <1>11, <1>12, <2>2, Typed DEF CInv, ConnsOK
<1>17. NotConnected' /\ StopOK'
  BY <1>1, <1>3, <1>8, <1>11 DEF CInv, NotConnected, StopOK
<1>18. GoneOK'
  <2>1. ~alive /\ ~keepAlive => ~Queued("stopInLoop")
    BY <1>3 DEF Dangling, ConnectorGone, BareThis, Queued, Has
  <2> QED BY <1>1, <1>3, <1>8, <1>11, <2>1 DEF CInv, GoneOK
<1> QED BY <1>13, <1>14, <1>15, <1>16, <1>17, <1>18 DEF CInv

\* ~TcpClient leaves nothing running: with a connection the Connector has no attempt
\* and no timer, without one it is stopped.
LEMMA InvDestroy == ASSUME CInv, Destroy PROVE CInv'
<1> DEFINE k == [connector_ EXCEPT !.connect_ = FALSE]
<1>1. /\ phase' = (IF phase = "poll" THEN "handled" ELSE phase) /\ alive /\ alive' = FALSE
      /\ user \in {"started", "stopped"} /\ ~restarting
      /\ UNCHANGED <<retry_, connect_, connection_, conn, batch, restarting, user, overtaken>>
  BY DEF Destroy
<1>2. /\ ~connector_.aborted /\ ~keepAlive
      /\ phase' \in {"handled", "functors"} /\ (phase' # "functors" => batch = <<>>)
      /\ Has(connector_.queue, "connectDestroyed") => phase' = "handled"
  BY <1>1 DEF CInv, FunctorsOK, OneAtATime, GoneOK, ClientTypeOK
<1>3. connector_ \in Connectors /\ connector_.queue \in Seq(LoopFunctors)
  BY Typed DEF CInv
<1>4. CASE connection_ # 0
  <2>1. UNCHANGED <<connector_, keepAlive>>
    BY <1>4 DEF Destroy
  <2>2. /\ connector_.state_ = "kConnected" /\ connector_.timers = 0
        /\ ~Queued("startInLoop")
    <3>1. connector_.state_ = "kConnected" /\ connector_.timers \in Nat
          /\ connector_.timers <= 1 /\ connector_.timers # 1
      BY <1>4, Typed DEF CInv, OneAtATime
    <3> QED BY <3>1 DEF CInv, FunctorsOK
  <2>3. ClientTypeOK'
    BY <1>1, <1>2, <2>1 DEF CInv, ClientTypeOK
  <2>4. FunctorsOK'
    BY <1>1, <1>2, <2>1 DEF CInv, FunctorsOK, AboutClosed, Queued
  <2>5. OneAtATime'
    BY <1>1, <1>2, <2>1 DEF CInv, OneAtATime
  <2>6. ConnsOK'
    BY <1>1, <2>1 DEF CInv, ConnsOK, Queued, Attempts, Connections
  <2>7. NotConnected' /\ StopOK'
    BY <1>1, <2>1 DEF CInv, NotConnected, StopOK, Queued
  <2>8. GoneOK'
    BY <1>1, <1>2, <1>4, <2>1, <2>2 DEF GoneOK, Queued
  <2> QED BY <2>3, <2>4, <2>5, <2>6, <2>7, <2>8 DEF CInv
<1>5. CASE connection_ = 0 /\ connector_.state_ = "kConnecting"
  <2>1. /\ k \in Connectors /\ k.queue = connector_.queue /\ k.sockets = connector_.sockets
        /\ k.timers = connector_.timers /\ k.aborted = connector_.aborted /\ k.connect_ = FALSE
        /\ k.state_ = connector_.state_
    BY <1>3 DEF Connectors
  <2>2. connector_' = StopInLoop(k) /\ keepAlive' = TRUE
    BY <1>5 DEF Destroy
  <2> HIDE DEF k
  <2>3. k.sockets > 0
    BY <1>5, <2>1, AttemptFacts
  <2>4. Dropped(k, connector_')
    BY <1>5, <2>1, <2>2, <2>3, StopDrops
  <2>5. MayDrop(k)
    BY <1>2, <1>5, <2>1 DEF MayDrop
  <2>6. batch' \in Seq(LoopFunctors) /\ Once(batch') /\ AboutClosed(batch)'
    BY <1>1, Typed DEF CInv, FunctorsOK, AboutClosed
  <2> QED BY <1>1, <1>2, <2>1, <2>2, <2>4, <2>5, <2>6, InvDropped
<1>6. CASE connection_ = 0 /\ connector_.state_ # "kConnecting"
  <2>1. /\ k \in Connectors /\ k.queue = connector_.queue /\ k.sockets = connector_.sockets
        /\ k.timers = connector_.timers /\ k.aborted = connector_.aborted /\ k.connect_ = FALSE
        /\ k.state_ = connector_.state_ /\ k.channel_ = connector_.channel_
    BY <1>3 DEF Connectors
  <2>2. connector_' = k /\ keepAlive' = TRUE
    BY <1>6, <2>1 DEF Destroy, StopInLoop
  <2> HIDE DEF k
  <2>3. ClientTypeOK'
    BY <1>1, <1>2, <2>1, <2>2 DEF CInv, ClientTypeOK
  <2>4. FunctorsOK'
    BY <1>1, <1>2, <2>1, <2>2 DEF CInv, FunctorsOK, AboutClosed, Queued
  <2>5. OneAtATime'
    BY <1>1, <1>2, <2>1, <2>2 DEF CInv, OneAtATime
  <2>6. ConnsOK'
    BY <1>1, <2>1, <2>2 DEF CInv, ConnsOK, Queued, Attempts, Connections
  <2>7. NotConnected' /\ StopOK'
    BY <1>1, <2>1, <2>2 DEF CInv, NotConnected, StopOK, Queued
  <2>8. GoneOK'
    BY <1>1, <1>2, <1>6, <2>1, <2>2 DEF GoneOK, Queued
  <2> QED BY <2>3, <2>4, <2>5, <2>6, <2>7, <2>8 DEF CInv
<1> QED BY <1>4, <1>5, <1>6

\* What is true when the first functor of the batch is run, whichever it is.
LEMMA RunFacts ==
    ASSUME CInv, NEW result \in ConnectResults, RunFunctor(result)
    PROVE  /\ UNCHANGED <<retry_, connect_, connection_, restarting, user, overtaken, alive, keepAlive>>
           /\ phase = "functors" /\ phase' = "functors" /\ ~restarting /\ user # "new"
           /\ Taken(batch, batch') /\ Queued(Head(batch).name) /\ Head(batch).name \in Names
           /\ ~Has(connector_.queue, Head(batch).name) /\ ~Has(connector_.queue, "connectDestroyed")
           /\ batch' \in Seq(LoopFunctors) /\ Once(batch')
           /\ \A n : Has(batch', n) => Has(batch, n)
           /\ \A n : n # Head(batch).name /\ Has(batch, n) => Has(batch', n)
           /\ ~Has(batch', Head(batch).name)
           /\ IF Head(batch).name = "connectDestroyed"
              THEN Head(batch).conn \in Conns /\ conn[Head(batch).conn] = "closed"
              ELSE UNCHANGED conn /\ AboutClosed(batch)'
<1>1. /\ UNCHANGED <<retry_, connect_, connection_, restarting, user, overtaken, alive, keepAlive>>
      /\ phase = "functors" /\ phase' = "functors" /\ batch # <<>> /\ batch' = Tail(batch)
      /\ conn' = [c \in Conns |-> IF Head(batch).conn = c THEN "none" ELSE conn[c]]
  BY DEF RunFunctor, lifeVars
<1>2. Taken(batch, batch')
  BY <1>1, QueueTail, Typed DEF CInv, FunctorsOK
<1>3. /\ Head(batch) \in LoopFunctors /\ 1 \in DOMAIN batch /\ batch[1] = Head(batch)
      /\ \A n : Has(batch, n) <=> Has(batch', n) \/ n = Head(batch).name
      /\ ~Has(batch', Head(batch).name) /\ batch' \in Seq(LoopFunctors) /\ Once(batch')
      /\ \A i \in DOMAIN batch' : \E j \in DOMAIN batch : batch'[i] = batch[j]
  BY <1>2 DEF Taken
<1>4. Head(batch).name \in Names /\ Queued(Head(batch).name)
  BY <1>3 DEF LoopFunctors, Queued
<1>5. ~Has(connector_.queue, Head(batch).name) /\ ~Has(connector_.queue, "connectDestroyed")
  BY <1>1, <1>3, <1>4 DEF CInv, FunctorsOK
<1>6. ~restarting /\ user # "new"
  BY <1>1 DEF CInv, OneAtATime, NotConnected
<1>7. IF Head(batch).name = "connectDestroyed"
      THEN Head(batch).conn \in Conns /\ conn[Head(batch).conn] = "closed"
      ELSE Head(batch).conn = 0
  BY <1>3 DEF CInv, FunctorsOK, AboutClosed
<1>8. ASSUME Head(batch).name # "connectDestroyed"
      PROVE  UNCHANGED conn /\ AboutClosed(batch)'
  <2>1. conn' = conn
    BY <1>1, <1>7, <1>8, Typed DEF CInv, ClientTypeOK
  <2> QED BY <1>3, <2>1 DEF CInv, FunctorsOK, AboutClosed
<1> QED BY <1>1, <1>2, <1>3, <1>4, <1>5, <1>6, <1>7, <1>8

LEMMA InvRunStart ==
    ASSUME CInv, NEW result \in ConnectResults, RunFunctor(result), Head(batch).name = "startInLoop"
    PROVE  CInv'
<1>1. connector_' = StartInLoop(connector_, result)
  BY DEF RunFunctor
<1>2. /\ UNCHANGED <<retry_, connect_, connection_, conn, restarting, user, overtaken, alive, keepAlive>>
      /\ phase' = "functors" /\ ~restarting /\ user # "new"
      /\ Queued("startInLoop") /\ ~Has(connector_.queue, "startInLoop")
      /\ ~Has(connector_.queue, "connectDestroyed")
      /\ batch' \in Seq(LoopFunctors) /\ Once(batch') /\ AboutClosed(batch)'
      /\ \A n : Has(batch', n) => Has(batch, n)
      /\ \A n : n # "startInLoop" /\ Has(batch, n) => Has(batch', n)
      /\ ~Has(batch', "startInLoop")
  BY RunFacts
<1>3. /\ connector_.state_ = "kDisconnected" /\ connector_.channel_ = "null"
      /\ connector_.timers = 0 /\ connection_ = 0 /\ ~connector_.aborted
      /\ alive \/ ~connector_.connect_
  BY <1>2 DEF CInv, FunctorsOK, OneAtATime, GoneOK
<1>4. MayStart(connector_)
  BY <1>2, <1>3, Typed DEF CInv, MayStart
<1>5. Started(connector_, connector_')
  BY <1>1, <1>4, StartStarts DEF MayStart
<1>6. ~Queued("startInLoop")'
  BY <1>2, <1>5 DEF Queued, Started
<1>7. restarting' = FALSE /\ overtaken' \in BOOLEAN
  BY <1>2 DEF CInv, ClientTypeOK
<1> QED BY <1>2, <1>4, <1>5, <1>6, <1>7, InvStarted

LEMMA InvRunStop ==
    ASSUME CInv, NEW result \in ConnectResults, RunFunctor(result), Head(batch).name = "stopInLoop"
    PROVE  CInv'
<1>1. connector_' = StopInLoop(connector_)
  BY DEF RunFunctor
<1>2. /\ UNCHANGED <<retry_, connect_, connection_, conn, restarting, user, overtaken, alive, keepAlive>>
      /\ phase = "functors" /\ phase' = "functors" /\ ~restarting /\ user # "new"
      /\ Queued("stopInLoop") /\ ~Has(connector_.queue, "stopInLoop")
      /\ ~Has(connector_.queue, "connectDestroyed")
      /\ batch' \in Seq(LoopFunctors) /\ Once(batch') /\ AboutClosed(batch)'
      /\ \A n : Has(batch', n) => Has(batch, n)
      /\ \A n : n # "stopInLoop" /\ Has(batch, n) => Has(batch', n)
      /\ ~Has(batch', "stopInLoop")
  BY RunFacts
<1>3. /\ connector_ \in Connectors /\ user = "stopped" /\ ~connector_.aborted
      /\ alive' \in BOOLEAN /\ keepAlive' \in BOOLEAN /\ (keepAlive' => ~alive')
  BY <1>2 DEF CInv, ClientTypeOK, FunctorsOK, GoneOK, OneAtATime
<1>4. CASE connector_.state_ = "kConnecting"
  <2>1. MayDrop(connector_)
    BY <1>3, <1>4 DEF MayDrop
  <2>2. Dropped(connector_, connector_')
    BY <1>1, <1>3, <1>4, AttemptFacts, StopDrops
  <2>3. alive'
    BY <1>2, <1>4, AttemptFacts
  <2> QED BY <1>2, <1>3, <2>1, <2>2, <2>3, InvDropped
<1>5. CASE connector_.state_ # "kConnecting"
  <2>1. UNCHANGED connector_
    BY <1>1, <1>5 DEF StopInLoop
  <2>2. /\ \A n : n # "stopInLoop" => (Queued(n)' <=> Queued(n))
        /\ ~Queued("stopInLoop")'
    BY <1>2, <2>1 DEF Queued
  <2>3. ClientTypeOK'
    BY <1>2, <2>1 DEF CInv, ClientTypeOK
  <2>4. FunctorsOK'
    <3>1. Once(connector_'.queue) /\ AboutClosed(connector_.queue)'
      BY <1>2, <2>1 DEF CInv, FunctorsOK, AboutClosed
    <3> QED BY <1>2, <2>1, <2>2, <3>1 DEF CInv, FunctorsOK
  <2>5. OneAtATime'
    BY <1>2, <2>1 DEF CInv, OneAtATime
  <2>6. ConnsOK'
    BY <1>2, <2>1, <2>2 DEF CInv, ConnsOK, Attempts, Connections
  <2>7. NotConnected' /\ StopOK'
    BY <1>2, <1>5, <2>1, <2>2 DEF CInv, NotConnected, StopOK
  <2>8. GoneOK'
    BY <1>2, <2>1, <2>2 DEF CInv, GoneOK
  <2> QED BY <2>3, <2>4, <2>5, <2>6, <2>7, <2>8 DEF CInv
<1> QED BY <1>4, <1>5

LEMMA InvRunReset ==
    ASSUME CInv, NEW result \in ConnectResults, RunFunctor(result), Head(batch).name = "resetChannel"
    PROVE  CInv'
<1>1. connector_' = ResetChannel(connector_)
  BY DEF RunFunctor
<1>2. /\ UNCHANGED <<retry_, connect_, connection_, conn, restarting, user, overtaken, alive, keepAlive>>
      /\ phase = "functors" /\ phase' = "functors" /\ ~restarting /\ user # "new"
      /\ Queued("resetChannel") /\ ~Has(connector_.queue, "resetChannel")
      /\ ~Has(connector_.queue, "connectDestroyed")
      /\ batch' \in Seq(LoopFunctors) /\ Once(batch') /\ AboutClosed(batch)'
      /\ \A n : Has(batch', n) => Has(batch, n)
      /\ \A n : n # "resetChannel" /\ Has(batch, n) => Has(batch', n)
      /\ ~Has(batch', "resetChannel")
  BY RunFacts
<1>3. connector_ \in Connectors
  BY Typed DEF CInv
<1>4. /\ connector_' \in Connectors /\ connector_'.channel_ = "null"
      /\ connector_'.queue = connector_.queue /\ connector_'.connect_ = connector_.connect_
      /\ connector_'.state_ = connector_.state_ /\ connector_'.timers = connector_.timers
      /\ connector_'.sockets = connector_.sockets /\ connector_'.aborted = connector_.aborted
  BY <1>1, <1>3 DEF ResetChannel, Connectors
<1>5. connector_.channel_ = "removed" /\ connector_.state_ # "kConnecting"
  BY <1>2 DEF CInv, FunctorsOK, OneAtATime
<1>6. /\ \A n : n # "resetChannel" => (Queued(n)' <=> Queued(n))
      /\ ~Queued("resetChannel")'
  BY <1>2, <1>4 DEF Queued
<1>7. ClientTypeOK'
  BY <1>2, <1>4 DEF CInv, ClientTypeOK
<1>8. FunctorsOK'
  <2>1. Once(connector_'.queue) /\ AboutClosed(connector_.queue)'
    BY <1>2, <1>4 DEF CInv, FunctorsOK, AboutClosed
  <2> QED BY <1>2, <1>4, <1>6, <2>1 DEF CInv, FunctorsOK
<1>9. OneAtATime'
  BY <1>2, <1>4, <1>5 DEF CInv, OneAtATime
<1>10. ConnsOK'
  <2>1. Attempts' = Attempts /\ Connections' = Connections
    BY <1>2, <1>4, <1>5 DEF Attempts, Connections
  <2> QED BY <1>2, <1>4, <1>6, <2>1 DEF CInv, ConnsOK
<1>11. NotConnected' /\ StopOK'
  BY <1>2, <1>4, <1>6 DEF CInv, NotConnected, StopOK
<1>12. GoneOK'
  BY <1>2, <1>4, <1>6 DEF CInv, GoneOK
<1> QED BY <1>7, <1>8, <1>9, <1>10, <1>11, <1>12 DEF CInv

\* The connection that is destroyed is the only one there was.
LEMMA InvRunDestroyed ==
    ASSUME CInv, NEW result \in ConnectResults, RunFunctor(result),
           Head(batch).name = "connectDestroyed"
    PROVE  CInv'
<1>1. /\ connector_' = [connector_ EXCEPT !.sockets = connector_.sockets - 1]
      /\ conn' = [c \in Conns |-> IF Head(batch).conn = c THEN "none" ELSE conn[c]]
  BY DEF RunFunctor
<1>2. /\ UNCHANGED <<retry_, connect_, connection_, restarting, user, overtaken, alive, keepAlive>>
      /\ phase = "functors" /\ phase' = "functors" /\ ~restarting /\ user # "new"
      /\ ~Has(connector_.queue, "connectDestroyed")
      /\ batch' \in Seq(LoopFunctors) /\ Once(batch')
      /\ \A n : Has(batch', n) => Has(batch, n)
      /\ \A n : n # "connectDestroyed" /\ Has(batch, n) => Has(batch', n)
      /\ ~Has(batch', "connectDestroyed") /\ Taken(batch, batch')
      /\ Head(batch).conn \in Conns /\ conn[Head(batch).conn] = "closed"
  BY RunFacts
<1>3. /\ connector_ \in Connectors /\ connector_.sockets \in Nat /\ 0 \notin Conns
  BY Typed DEF CInv
<1>4. \A c \in Conns : conn'[c] = "none"
  BY <1>1, <1>2 DEF CInv, ConnsOK
<1>5. connection_ = 0
  BY <1>2, <1>3 DEF CInv, ConnsOK, ClientTypeOK
<1>6. Connections = 1 /\ Connections' = 0 /\ Attempts \in {0, 1}
  BY <1>2, <1>4 DEF Connections, Attempts
<1>7. connector_.sockets - 1 = Attempts /\ connector_.sockets - 1 \in Nat
  <2>1. connector_.sockets = Attempts + 1
    BY <1>6 DEF CInv, ConnsOK
  <2>2. \A n : n \in {0, 1} => (n + 1) - 1 = n /\ n \in Nat
    OBVIOUS
  <2> QED BY <1>6, <2>1, <2>2
<1>8. /\ connector_' \in Connectors /\ connector_'.channel_ = connector_.channel_
      /\ connector_'.queue = connector_.queue /\ connector_'.connect_ = connector_.connect_
      /\ connector_'.state_ = connector_.state_ /\ connector_'.timers = connector_.timers
      /\ connector_'.sockets = Attempts /\ connector_'.aborted = connector_.aborted
  BY <1>1, <1>3, <1>7 DEF Connectors
<1>9. /\ \A n : n # "connectDestroyed" => (Queued(n)' <=> Queued(n))
      /\ ~Queued("connectDestroyed")'
  BY <1>2, <1>8 DEF Queued
<1>10. ClientTypeOK'
  <2>1. conn' \in [Conns -> {"none", "up", "closed"}]
    BY <1>1 DEF CInv, ClientTypeOK
  <2> QED BY <1>2, <1>8, <2>1 DEF CInv, ClientTypeOK
<1>11. FunctorsOK'
  <2>1. Once(connector_'.queue) /\ AboutClosed(connector_.queue)'
    BY <1>2, <1>8 DEF CInv, FunctorsOK, AboutClosed, Has
  <2>2. AboutClosed(batch)'
    <3>1. \A i \in DOMAIN batch' : batch'[i].name # "connectDestroyed"
      BY <1>2 DEF Has
    <3>2. \A i \in DOMAIN batch' : \E j \in DOMAIN batch : batch'[i] = batch[j]
      BY <1>2 DEF Taken
    <3> QED BY <3>1, <3>2 DEF CInv, FunctorsOK, AboutClosed
  <2> QED BY <1>2, <1>8, <1>9, <2>1, <2>2 DEF CInv, FunctorsOK
<1>12. OneAtATime'
  BY <1>2, <1>8 DEF CInv, OneAtATime
<1>13. ConnsOK'
  <2>1. connector_'.sockets = Attempts' + Connections'
    BY <1>6, <1>8 DEF Attempts
  <2> QED BY <1>2, <1>3, <1>4, <1>5, <2>1 DEF ConnsOK
<1>14. NotConnected' /\ StopOK'
  BY <1>2, <1>8, <1>9 DEF CInv, NotConnected, StopOK
<1>15. GoneOK'
  BY <1>2, <1>8, <1>9 DEF CInv, GoneOK
<1> QED BY <1>10, <1>11, <1>12, <1>13, <1>14, <1>15 DEF CInv

LEMMA InvRunFunctor ==
    ASSUME CInv, NEW result \in ConnectResults, RunFunctor(result) PROVE CInv'
  BY RunFacts, InvRunStart, InvRunStop, InvRunReset, InvRunDestroyed DEF Names

-----------------------------------------------------------------------------
(* The theorems                                                            *)

LEMMA InvInit == ASSUME ClientInit PROVE CInv
<1>1. NewConnector \in Connectors
  BY ConnectorAssumption DEF NewConnector, Connectors
<1>2. /\ connector_.queue = <<>> /\ batch = <<>> /\ phase = "poll" /\ connector_.sockets = 0
      /\ connector_.state_ = "kDisconnected" /\ connector_.channel_ = "null"
      /\ connector_.timers = 0 /\ ~connector_.aborted
  BY DEF ClientInit, NewConnector
<1>3. \A n : ~Queued(n)
  BY <1>2 DEF Queued, Has
<1>4. ClientTypeOK
  <2>1. <<>> \in Seq(LoopFunctors)
    OBVIOUS
  <2>2. connector_ \in Connectors /\ batch \in Seq(LoopFunctors)
    BY <1>1, <2>1 DEF ClientInit
  <2>3. conn \in [Conns -> {"none", "up", "closed"}]
    BY DEF ClientInit
  <2> QED BY <2>2, <2>3 DEF ClientInit, ClientTypeOK
<1>5. FunctorsOK
  BY <1>2, <1>3 DEF FunctorsOK, Once, AboutClosed, Queued
<1>6. OneAtATime
  BY <1>2 DEF ClientInit, OneAtATime
<1>7. ConnsOK
  <2>1. connection_ = 0 /\ 0 \notin Conns /\ \A c \in Conns : conn[c] = "none"
    BY <1>4, Typed DEF ClientInit
  <2> QED BY <1>2, <2>1 DEF ConnsOK, Attempts, Connections
<1>8. NotConnected /\ StopOK /\ GoneOK
  BY DEF ClientInit, NotConnected, StopOK, GoneOK
<1> QED BY <1>4, <1>5, <1>6, <1>7, <1>8 DEF CInv

LEMMA InvStutter == ASSUME CInv, UNCHANGED clientVars PROVE CInv'
<1>1. /\ connect_' \in BOOLEAN
      /\ UNCHANGED <<connector_, retry_, connection_, conn, phase, batch, restarting, user, alive,
                     keepAlive, overtaken>>
  BY DEF clientVars, CInv, ClientTypeOK
<1> QED BY <1>1, InvKept

LEMMA InvNext == ASSUME CInv, [ClientNext]_clientVars PROVE CInv'
<1>1. CASE UserConnect
  BY <1>1, InvUserConnect
<1>2. CASE UserStop
  BY <1>2, InvUserStop
<1>3. CASE Disconnect
  BY <1>3, InvDisconnect
<1>4. CASE \E r \in ConnectResults : TimerFires(r)
  BY <1>4, InvTimerFires
<1>5. CASE \E r \in ConnectResults : RemoveConnectionRestarts(r)
  BY <1>5, InvRestarts
<1>6. CASE \E events \in {{"err"}, {"out"}, {"err", "out"}} : AttemptFails(events)
  BY <1>6, InvAttemptFails
<1>7. CASE AttemptSucceeds
  BY <1>7, InvAttemptSucceeds
<1>8. CASE ~Dangling /\ \E c \in Conns : RemoveConnection(c)
  BY <1>8, InvRemoveConnection
<1>9. CASE Destroy
  BY <1>9, InvDestroy
<1>10. CASE RemoveConnector
  BY <1>10, InvRemoveConnector
<1>11. CASE Functors
  BY <1>11, InvDoPendingFunctors, InvFunctorsDone, InvRunFunctor DEF Functors
<1>12. CASE UNCHANGED clientVars
  BY <1>12, InvStutter
<1> QED BY <1>1, <1>2, <1>3, <1>4, <1>5, <1>6, <1>7, <1>8, <1>9, <1>10, <1>11, <1>12 DEF ClientNext, Running

\* With one connect(), whatever other threads, the server and the timers do, each
\* functor finds the Connector as it expects it and the Connector does one thing
\* at a time (Connector.cc 43-238, TcpClient.cc 77-182).
THEOREM ClientInvariant == ClientSpec => []CInv
<1>1. ClientInit => CInv
  BY InvInit
<1>2. CInv /\ [ClientNext]_clientVars => CInv'
  BY InvNext
<1> QED BY <1>1, <1>2, PTL DEF ClientSpec

\* The assertions about the Connector's state hold (Connector.cc 52, 135, 204, 211;
\* TcpClient.cc 170).  Of all the places that drop the last ConnectorPtr only
\* ~TcpClient with a connection (TcpClient.cc 85-93) can leave the Connector's
\* channel or a functor of it behind (Connector.cc 39), and never a channel the
\* poller watches or a startInLoop.
THEOREM NeverAbortsTheorem == ClientSpec => []ConnectorNeverAborts
<1>1. ASSUME CInv PROVE ConnectorNeverAborts
  <2>1. ~connector_.aborted
    BY <1>1 DEF CInv, OneAtATime
  <2> SUFFICES ASSUME Dangling
               PROVE  /\ connection_ # 0 /\ connector_.channel_ # "watched"
                      /\ ~Queued("startInLoop")
    BY <2>1 DEF ConnectorNeverAborts, Queued, Has
  <2>2. ~alive /\ ~keepAlive
    BY DEF Dangling, ConnectorGone
  <2>3. ~Queued("startInLoop") /\ connector_.channel_ # "watched"
    BY <1>1, <2>2 DEF CInv, GoneOK, OneAtATime
  <2>4. ASSUME connection_ = 0 PROVE FALSE
    <3>1. connector_.channel_ = "null" /\ ~Queued("stopInLoop") /\ ~Queued("resetChannel")
      BY <1>1, <2>2, <2>4 DEF CInv, GoneOK, FunctorsOK
    <3>2. \A q \in Seq(LoopFunctors) : \A i \in DOMAIN q : q[i].name \in Names
      <4>1. \A q \in Seq(LoopFunctors) : \A i \in DOMAIN q : q[i] \in LoopFunctors
        OBVIOUS
      <4> QED BY <4>1 DEF LoopFunctors
    <3>3. connector_.queue \in Seq(LoopFunctors) /\ batch \in Seq(LoopFunctors)
      BY <1>1, Typed DEF CInv
    <3>4. ~BareThis(connector_.queue) /\ ~BareThis(batch)
      BY <2>3, <3>1, <3>2, <3>3 DEF BareThis, Queued, Has, Names
    <3> QED BY <3>1, <3>4 DEF Dangling
  <2> QED BY <2>3, <2>4
<1> QED BY <1>1, ClientInvariant, PTL

\* Connector and TcpClient leak no socket: each open one is the attempt's under
\* way or a connection's whose connectDestroyed has not run (Connector.cc 81-238;
\* TcpClient.cc 126-182).
THEOREM SocketsTheorem == ClientSpec => []SocketsAccounted
<1>1. ASSUME CInv PROVE SocketsAccounted
  <2> DEFINE S == {c \in Conns : conn[c] # "none"}
  <2>1. Cardinality(S) = Connections
    <3>1. CASE S = {}
      BY <3>1, FS_EmptySet DEF Connections
    <3>2. CASE S # {}
      <4>1. PICK c \in S : TRUE
        BY <3>2
      <4>2. S = {c}
        BY <1>1, <4>1 DEF CInv, ConnsOK
      <4> QED BY <4>1, <4>2, FS_Singleton DEF Connections
    <3> QED BY <3>1, <3>2
  <2> QED BY <1>1, <2>1 DEF CInv, ConnsOK, SocketsAccounted, Attempts
<1> QED BY <1>1, ClientInvariant, PTL

\* stop() stops: once stopInLoop has run nothing tries to connect, though the
\* retry timers are left running (Connector.cc 63-79), unless a restart() of
\* removeConnection overtook it (TcpClient.cc 175-181).
THEOREM StopTheorem == ClientSpec => []StopStops
<1>1. ASSUME CInv PROVE StopStops
  BY <1>1 DEF CInv, StopOK, OneAtATime, StopStops, Queued, Has
<1> QED BY <1>1, ClientInvariant, PTL

=============================================================================
