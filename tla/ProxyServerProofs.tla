------------------------- MODULE ProxyServerProofs -------------------------
(***************************************************************************)
(* Proofs about the redis connection pool and the proxy on top of it, for  *)
(* any number of servers, connections, clients and requests, every order   *)
(* of hiredis' callbacks, with and without a separate I/O thread.          *)
(***************************************************************************)
EXTENDS ProxyServer, TLAPS

-----------------------------------------------------------------------------
(* The pool: Hiredis and HiredisPool                                       *)

\* Which map a slot is in, as far as the stage of its context tells.
StageOK ==
    \A x \in Slots :
        /\ context[x] = "null" => ~started \/ ~preConnection
        /\ ~started => context[x] = "null"
        /\ context[x] = "connecting" => x \in inactiveConns_ /\ (Alive => x \in channel)
        /\ context[x] = "connected" => x \in activeFreeConns_ \cup activeBusyConn_
        /\ context[x] = "freed" => x \in inactiveConns_
        /\ x \in inactiveConns_ => context[x] \in {"connecting", "freed"}
        /\ x \in reading => context[x] = "connected"
        /\ x \in activeFreeConns_ \cup activeBusyConn_ => context[x] = "connected"

\* No slot is free and busy.
FreeOrBusy == activeFreeConns_ \cap activeBusyConn_ = {}

\* A command waits only on a busy slot, alone.
PendingOK ==
    \A x \in Slots :
        \/ replies[x] = <<>>
        \/ x \in activeBusyConn_ /\ \E r \in Commands : replies[x] = <<r>>

\* While the process lives, a slot in use has its channel, and watches it.
UsedIsWatched ==
    Alive => \A x \in activeFreeConns_ \cup activeBusyConn_ : x \in channel \cap reading

FreeIsQuiet == Alive => activeFreeConns_ \cap writing = {}

InterestOK == reading \cup writing \subseteq channel

IInv ==
    /\ HiredisTypeOK
    /\ StageOK
    /\ FreeOrBusy
    /\ PendingOK
    /\ UsedIsWatched
    /\ FreeIsQuiet
    /\ InterestOK
    /\ CallbacksFindTheirSlot

\* The constructor's empty pool satisfies IInv.
LEMMA InitIInv == HiredisInit => IInv
<1> SUFFICES ASSUME HiredisInit PROVE IInv
  OBVIOUS
<1>1. HiredisTypeOK
  <2>1. <<>> \in Seq(Commands)
    OBVIOUS
  <2>2. replies \in [Slots -> Seq(Commands)]
    BY <2>1 DEF HiredisInit
  <2>3. context \in [Slots -> {"null", "connecting", "connected", "freed"}]
    BY DEF HiredisInit
  <2> QED
    BY <2>2, <2>3 DEF HiredisInit, HiredisTypeOK, Faults
<1>2. StageOK /\ FreeOrBusy /\ PendingOK
  BY DEF HiredisInit, StageOK, FreeOrBusy, PendingOK
<1>3. UsedIsWatched /\ FreeIsQuiet /\ InterestOK /\ CallbacksFindTheirSlot
  BY DEF HiredisInit, UsedIsWatched, FreeIsQuiet, InterestOK, CallbacksFindTheirSlot
<1> QED
  BY <1>1, <1>2, <1>3 DEF IInv

\* A failed assertion, other than those of the two callbacks, changes nothing
\* else (abort() inside a handler).
LEMMA FailKeeps ==
  ASSUME IInv, NEW where \in Faults \ {"none", "userConnectCallback", "commandCallback"},
         Fail(where)
  PROVE  IInv'
  BY DEF Fail, IInv, HiredisTypeOK, StageOK, FreeOrBusy, PendingOK, UsedIsWatched,
         FreeIsQuiet, InterestOK, CallbacksFindTheirSlot, Faults, Alive, maps, channels

\* HiredisPool::connect files every new connection under inactiveConns_.
LEMMA ConnectKeeps == IInv /\ Connect => IInv'
<1> SUFFICES ASSUME IInv, Connect PROVE IInv'
  OBVIOUS
<1>0. /\ activeFreeConns_ = {} /\ activeBusyConn_ = {} /\ inactiveConns_ = {}
      /\ reading = {}
  BY DEF Connect, NewConns, IInv, StageOK, HiredisTypeOK
<1>1. HiredisTypeOK'
  BY DEF Connect, NewConns, IInv, HiredisTypeOK
<1>2. StageOK'
  BY <1>0 DEF Connect, NewConns, IInv, StageOK, HiredisTypeOK, InterestOK, Alive
<1>3. FreeOrBusy' /\ PendingOK'
  BY DEF Connect, NewConns, IInv, FreeOrBusy, PendingOK
<1>4. UsedIsWatched' /\ FreeIsQuiet' /\ CallbacksFindTheirSlot'
  BY <1>0 DEF Connect, NewConns, IInv, UsedIsWatched, FreeIsQuiet, CallbacksFindTheirSlot
<1>5. InterestOK'
  BY <1>0 DEF Connect, NewConns, IInv, InterestOK, HiredisTypeOK
<1> QED
  BY <1>1, <1>2, <1>3, <1>4, <1>5 DEF IInv

\* userConnectCallback finds its connection in inactiveConns_.
LEMMA HandleConnectKeeps ==
  ASSUME IInv, NEW x \in Slots, HandleConnect(x)
  PROVE  IInv'
  BY DEF HandleConnect, addRead, Fail, IInv, HiredisTypeOK, StageOK, FreeOrBusy, PendingOK,
         UsedIsWatched, FreeIsQuiet, InterestOK, CallbacksFindTheirSlot, Faults, Alive,
         maps, channels

\* A connection that could not be made stays in inactiveConns_.
LEMMA HandleConnectFailedKeeps ==
  ASSUME IInv, NEW x \in Slots, HandleConnectFailed(x)
  PROVE  IInv'
  BY DEF HandleConnectFailed, removeChannel, IInv, HiredisTypeOK, StageOK, FreeOrBusy, PendingOK,
         UsedIsWatched, FreeIsQuiet, InterestOK, CallbacksFindTheirSlot, Faults, Alive,
         maps

\* command() takes an idle connection, so its command waits there alone.
LEMMA CommandKeeps ==
  ASSUME IInv, NEW x \in Slots, NEW r \in Commands, NEW formatted \in BOOLEAN,
         Command(x, r, formatted)
  PROVE  IInv'
<1>1. /\ x \in activeFreeConns_ /\ x \notin activeBusyConn_
      /\ replies[x] = <<>> /\ context[x] = "connected" /\ x \in channel
  BY DEF Command, ToBusy, FirstFree, IInv, FreeOrBusy, PendingOK, StageOK, UsedIsWatched
<1>2. Append(replies[x], r) = <<r>> /\ <<r>> \in Seq(Commands)
  BY <1>1
<1>3. HiredisTypeOK'
  BY <1>2 DEF Command, ToBusy, IInv, HiredisTypeOK
<1>4. StageOK' /\ FreeOrBusy'
  BY <1>1 DEF Command, ToBusy, IInv, StageOK, FreeOrBusy, HiredisTypeOK, Alive
<1>5. PendingOK'
  BY <1>1, <1>2 DEF Command, ToBusy, IInv, PendingOK, HiredisTypeOK
<1>6. UsedIsWatched' /\ FreeIsQuiet' /\ InterestOK' /\ CallbacksFindTheirSlot'
  BY <1>1 DEF Command, ToBusy, IInv, UsedIsWatched, FreeIsQuiet, InterestOK,
              CallbacksFindTheirSlot, Alive
<1> QED
  BY <1>3, <1>4, <1>5, <1>6 DEF IInv

\* Writing a command out disturbs no map.
LEMMA HandleWriteKeeps ==
  ASSUME IInv, NEW x \in Slots, HandleWrite(x)
  PROVE  IInv'
  BY DEF HandleWrite, addRead, IInv, HiredisTypeOK, StageOK, FreeOrBusy, PendingOK,
         UsedIsWatched, FreeIsQuiet, InterestOK, CallbacksFindTheirSlot, Faults, Alive,
         maps

\* commandCallback finds its connection busy, and leaves it idle.
LEMMA HandleReplyKeeps ==
  ASSUME IInv, NEW x \in Slots, HandleReply(x)
  PROVE  IInv'
<1>1. x \in activeBusyConn_ /\ x \notin activeFreeConns_
  BY DEF HandleReply, ToFree, IInv, PendingOK, FreeOrBusy
<1>2. Tail(replies[x]) = <<>>
  <2>1. PICK r \in Commands : replies[x] = <<r>>
    BY DEF HandleReply, ToFree, IInv, PendingOK
  <2> QED
    BY <2>1
<1>3. replies' = [replies EXCEPT ![x] = <<>>]
  BY <1>1, <1>2 DEF HandleReply
<1> QED
  BY <1>1, <1>3
  DEF HandleReply, ToFree, IInv, HiredisTypeOK, StageOK, FreeOrBusy, PendingOK, UsedIsWatched,
      FreeIsQuiet, InterestOK, CallbacksFindTheirSlot, Faults, Alive, channels

\* A disconnect leaves the maps consistent, also when userDisconnectCallback
\* fails its assertion.
LEMMA HandleDisconnectKeeps ==
  ASSUME IInv, NEW x \in Slots, HandleDisconnect(x)
  PROVE  IInv'
<1>1. CASE replies[x] = <<>> /\ x \in activeBusyConn_
  BY <1>1
  DEF HandleDisconnect, removeChannel, ToFree, IInv, HiredisTypeOK, StageOK, FreeOrBusy, PendingOK, UsedIsWatched,
      FreeIsQuiet, InterestOK, CallbacksFindTheirSlot, Faults, Alive
<1>2. CASE ~(replies[x] = <<>> /\ x \in activeBusyConn_)
  <2>1. /\ x \in activeFreeConns_ \cup activeBusyConn_
        /\ context[x] = "connected" /\ x \notin inactiveConns_
    BY DEF HandleDisconnect, removeChannel, ToFree, IInv, StageOK
  <2>2. /\ fault' = "userDisconnectCallback"
        /\ replies' = [replies EXCEPT ![x] = <<>>]
        /\ activeFreeConns_' = activeFreeConns_ \cup {x}
        /\ activeBusyConn_' = activeBusyConn_ \ {x}
        /\ channel' = channel \ {x}
        /\ reading' = reading \ {x}
        /\ writing' = writing \ {x}
        /\ UNCHANGED <<started, inactiveConns_, context>>
    BY <1>2 DEF HandleDisconnect, removeChannel, ToFree
  <2>3. HiredisTypeOK'
    BY <2>2 DEF IInv, HiredisTypeOK, Faults
  <2>4. StageOK' /\ FreeOrBusy'
    BY <2>1, <2>2 DEF IInv, StageOK, FreeOrBusy, Alive, HiredisTypeOK
  <2>5. PendingOK'
    BY <2>2 DEF IInv, PendingOK, HiredisTypeOK
  <2>6. UsedIsWatched' /\ FreeIsQuiet' /\ InterestOK' /\ CallbacksFindTheirSlot'
    BY <2>2 DEF IInv, UsedIsWatched, FreeIsQuiet, InterestOK, CallbacksFindTheirSlot, Alive
  <2> QED
    BY <2>3, <2>4, <2>5, <2>6 DEF IInv
<1> QED
  BY <1>1, <1>2

\* IInv is inductive.
LEMMA NextIInv == IInv /\ [HiredisNext]_hiredisVars => IInv'
<1> SUFFICES ASSUME IInv, [HiredisNext]_hiredisVars PROVE IInv'
  OBVIOUS
<1>1. CASE Connect
  BY <1>1, ConnectKeeps
<1>2. CASE ConnectError
  BY <1>2, FailKeeps DEF ConnectError, Faults
<1>3. ASSUME NEW x \in Slots, HandleSlot(x) PROVE IInv'
  <2>1. CASE DestroyChannelInHandler(x)
    BY <2>1, FailKeeps DEF DestroyChannelInHandler, Faults
  <2> QED
    BY <1>3, <2>1, HandleConnectKeeps, HandleConnectFailedKeeps, HandleWriteKeeps,
       HandleReplyKeeps, HandleDisconnectKeeps DEF HandleSlot
<1>4. CASE CallerFails
  BY <1>4, FailKeeps DEF CallerFails, Faults
<1>5. CASE UNCHANGED hiredisVars
  BY <1>5 DEF hiredisVars, maps, channels, IInv, HiredisTypeOK, StageOK, FreeOrBusy,
     PendingOK, UsedIsWatched, FreeIsQuiet, InterestOK, CallbacksFindTheirSlot, Alive
<1>6. CASE CallCommand
  BY <1>5, <1>6, CommandKeeps DEF CallCommand, CommandRefused
<1> QED
  BY <1>1, <1>2, <1>3, <1>4, <1>5, <1>6 DEF HiredisNext

\* IInv holds in every state of the pool.
THEOREM InductiveInvariant == HiredisSpec => []IInv
  BY InitIInv, NextIInv, PTL DEF HiredisSpec

-----------------------------------------------------------------------------

\* Every variable of the pool keeps its type, however the callbacks interleave.
THEOREM TypeCorrect == HiredisSpec => []HiredisTypeOK
<1>1. IInv => HiredisTypeOK
  BY DEF IInv
<1> QED
  BY <1>1, InductiveInvariant, PTL

\* Every connection is in exactly one of the three maps, for any number of
\* servers and connections: the bookkeeping of Hiredis.cc loses none and
\* hands none out twice.
THEOREM SlotAccounting == HiredisSpec => []SlotInOneMap
<1>1. IInv => SlotInOneMap
  BY DEF IInv, SlotInOneMap, StageOK, FreeOrBusy, HiredisTypeOK
<1> QED
  BY <1>1, InductiveInvariant, PTL

\* What command() takes from activeFreeConns_ is connected, watched and has
\* no command of someone else waiting on it.
THEOREM FreeConnectionsAreIdle == HiredisSpec => []FreeIsIdle
<1>1. IInv => FreeIsIdle
  BY DEF IInv, FreeIsIdle, StageOK, FreeOrBusy, PendingOK, UsedIsWatched, FreeIsQuiet,
         HiredisTypeOK
<1> QED
  BY <1>1, InductiveInvariant, PTL

\* At most one command waits on a connection, and only on a busy one.
THEOREM AtMostOnePending == HiredisSpec => []OnePending
<1>1. IInv => OnePending
  <2> SUFFICES ASSUME IInv, NEW x \in Slots
               PROVE  Len(replies[x]) <= 1 /\ (replies[x] # <<>> => x \in activeBusyConn_)
    BY DEF OnePending
  <2>1. CASE replies[x] = <<>>
    BY <2>1
  <2>2. ASSUME x \in activeBusyConn_, NEW r \in Commands, replies[x] = <<r>>
        PROVE  Len(replies[x]) <= 1
    BY <2>2
  <2> QED
    BY <2>1, <2>2 DEF IInv, PendingOK
<1> QED
  BY <1>1, InductiveInvariant, PTL

\* The assertions of userConnectCallback and commandCallback never fail.
THEOREM CallbackAssertionsHold == HiredisSpec => []CallbacksFindTheirSlot
<1>1. IInv => CallbacksFindTheirSlot
  BY DEF IInv
<1> QED
  BY <1>1, InductiveInvariant, PTL

\* hiredis' addRead, delRead, addWrite and delWrite never meet a null channel,
\* and a connection without a channel is out of service for good.
THEOREM InterestHasChannel == HiredisSpec => []ChannelBacksInterest
<1>1. IInv => ChannelBacksInterest
  BY DEF IInv, ChannelBacksInterest, InterestOK, StageOK, UsedIsWatched, HiredisTypeOK
<1> QED
  BY <1>1, InductiveInvariant, PTL

-----------------------------------------------------------------------------
(* The ids under which clients are recorded                                *)

\* A larger server id makes a larger unique id, whatever the connections.
LEMMA IdsGrow ==
  ASSUME NEW s \in Nat, NEW t \in Nat, s < t, NEW c \in 0 .. Word - 1, NEW d \in 0 .. Word - 1
  PROVE  s * Word + c < t * Word + d
<1>1. Word \in Nat /\ Word > 0
  BY WordAssumption
<1> DEFINE k == t - s - 1
<1>2. k \in Nat /\ t = s + 1 + k
  OBVIOUS
<1>3. t * Word = s * Word + Word + k * Word
  BY <1>1, <1>2
<1>4. k * Word \in Nat /\ s * Word \in Nat
  BY <1>1, <1>2
<1> QED
  BY <1>1, <1>3, <1>4

\* Two connections never share an id, and no connection has the id that
\* stands for "no connection": genUniqueConId separates what it has to.
LEMMA IdsInjective ==
  ASSUME NEW x \in Slots, NEW y \in Slots,
         genUniqueConId(x[1], x[2]) = genUniqueConId(y[1], y[2])
  PROVE  x = y
<1>1. /\ x[1] \in Nat /\ y[1] \in Nat
      /\ x[2] \in 0 .. Word - 1 /\ y[2] \in 0 .. Word - 1
      /\ x = <<x[1], x[2]>> /\ y = <<y[1], y[2]>>
  BY WordAssumption, NumServersAssumption, NConnsAssumption DEF Slots, Servers, ConnIds
<1>2. x[1] * Word + x[2] = y[1] * Word + y[2]
  BY <1>1 DEF genUniqueConId
<1>3. ~(x[1] < y[1]) /\ ~(y[1] < x[1])
  BY <1>1, <1>2, IdsGrow, WordAssumption
<1>4. x[1] = y[1]
  BY <1>1, <1>3
<1>5. x[2] = y[2]
  BY <1>1, <1>2, <1>4, WordAssumption
<1> QED
  BY <1>1, <1>4, <1>5

\* The id a refused request is recorded under is no connection's.
LEMMA IdsNonNegative ==
  ASSUME NEW x \in Slots
  PROVE  genUniqueConId(x[1], x[2]) # genUniqueConId(0, -1)
<1>1. x[1] \in Nat /\ x[2] \in Nat /\ Word \in Nat
  BY WordAssumption, NumServersAssumption, NConnsAssumption DEF Slots, Servers, ConnIds
<1>2. x[1] * Word \in Nat
  BY <1>1
<1> QED
  BY <1>1, <1>2 DEF genUniqueConId

-----------------------------------------------------------------------------
(* The pool inside the proxy                                               *)

\* queryInLoop and setInLoop use the pool only through Hiredis::command.
LEMMA RequestIsCommandCall ==
  ASSUME NEW r \in Commands, NEW q \in Commands, RequestInLoop(r, q)
  PROVE  CallCommand
<1>1. serverOf[q] \in Servers /\ (q \notin Malformed) \in BOOLEAN
  BY ClientsAssumption
<1>2. ASSUME NEW conId \in ConnIds, Command(<<serverOf[q], conId>>, r, q \notin Malformed)
      PROVE  CallCommand
  BY <1>1, <1>2 DEF CallCommand, Slots
<1> QED
  BY <1>1, <1>2 DEF RequestInLoop, CallCommand

\* A step of the proxy is a step of the pool or leaves the pool alone.
LEMMA StepOfPool == TypeOK /\ [Next]_vars => [HiredisNext]_hiredisVars
<1> SUFFICES ASSUME TypeOK, [Next]_vars PROVE [HiredisNext]_hiredisVars
  OBVIOUS
<1>1. ASSUME NEW c \in Clients, OnConnection(c) \/ OnClose(c) \/ OnCodecError(c)
      PROVE  UNCHANGED hiredisVars
  BY <1>1 DEF OnConnection, OnClose, OnCodecError
<1>2. ASSUME NEW r \in Commands, OnQuery(r) \/ OnSet(r)
      PROVE  [HiredisNext]_hiredisVars
  <2>1. CASE numThreads = 0
    BY <1>2, <2>1, RequestIsCommandCall DEF OnQuery, OnSet, OnRequest, HiredisNext
  <2>2. CASE numThreads # 0
    BY <1>2, <2>2 DEF OnQuery, OnSet, OnRequest
  <2> QED
    BY <2>1, <2>2
<1>3. CASE OnMessageReturn
  BY <1>3 DEF OnMessageReturn
<1>4. CASE RunFunctor
  <2>1. Head(pendingFunctors_) \in Commands /\ received \subseteq Commands
    BY <1>4 DEF RunFunctor, TakeFunctor, TypeOK
  <2>2. ASSUME NEW q \in received, RequestInLoop(Head(pendingFunctors_), q)
        PROVE  HiredisNext
    BY <2>1, <2>2, RequestIsCommandCall DEF HiredisNext
  <2>3. ASSUME Fail("message") PROVE HiredisNext
    BY <1>4, <2>3 DEF RunFunctor, TakeFunctor, CallerFails, HiredisNext
  <2> QED
    BY <1>4, <2>2, <2>3 DEF RunFunctor, TakeFunctor
<1>5. ASSUME NEW x \in Slots, OnReply(x) \/ OnRedisDisconnect(x)
      PROVE  HiredisNext
  BY <1>5 DEF OnReply, OnRedisDisconnect, HiredisNext, HandleSlot
<1>6. CASE RedisEvent
  BY <1>6 DEF RedisEvent, HiredisNext, HandleSlot
<1>7. CASE UNCHANGED vars
  BY <1>7 DEF vars
<1> QED
  BY <1>1, <1>2, <1>3, <1>4, <1>5, <1>6, <1>7 DEF Next

-----------------------------------------------------------------------------
(* Types                                                                   *)

\* The part of TypeOK that is about the proxy's own variables.
ProxyTypes ==
    /\ clientConns_ \in [UniqueConIds -> Clients \cup {NoClient}]
    /\ pendingFunctors_ \in Seq(Commands)
    /\ dispatching \in Commands \cup {NoRequest}
    /\ received \subseteq Commands
    /\ text \in [Commands -> Commands \cup {NoRequest}]
    /\ connState \in [Clients -> ConnStates]
    /\ delivered \in [Clients -> Seq(Commands)]

\* A request keeps the types of what it writes.
LEMMA RequestTypes ==
  ASSUME ProxyTypes, NEW r \in Commands, NEW q \in Commands, RequestInLoop(r, q)
  PROVE  /\ clientConns_' \in [UniqueConIds -> Clients \cup {NoClient}]
         /\ text' \in [Commands -> Commands \cup {NoRequest}]
  BY ClientsAssumption DEF RequestInLoop, ProxyTypes

\* ProxyServer::commandCallback keeps the types of what it writes.
LEMMA CallbackTypes ==
  ASSUME ProxyTypes, HiredisTypeOK, NEW x \in Slots, replies[x] # <<>>, CommandCallback(x)
  PROVE  /\ connState' \in [Clients -> ConnStates]
         /\ delivered' \in [Clients -> Seq(Commands)]
<1>1. Head(replies[x]) \in Commands
  BY DEF HiredisTypeOK
<1> DEFINE c == clientConns_[genUniqueConId(x[1], x[2])]
<1>2. CASE c # NoClient /\ connState[c] = "kConnected"
  <2>1. genUniqueConId(x[1], x[2]) \in UniqueConIds
    BY DEF UniqueConIds, Slots
  <2>2. c \in Clients
    BY <1>2, <2>1 DEF ProxyTypes
  <2>3. Append(delivered[c], Head(replies[x])) \in Seq(Commands)
    BY <1>1, <2>2 DEF ProxyTypes
  <2> QED
    BY <1>2, <2>2, <2>3 DEF CommandCallback, ProxyTypes, ConnStates
<1>3. CASE ~(c # NoClient /\ connState[c] = "kConnected")
  BY <1>3 DEF CommandCallback, ProxyTypes
<1> QED
  BY <1>2, <1>3

\* Every step keeps the types of the proxy's own variables.
LEMMA TypesKept == ProxyTypes /\ HiredisTypeOK /\ [Next]_vars => ProxyTypes'
<1> SUFFICES ASSUME ProxyTypes, HiredisTypeOK, [Next]_vars PROVE ProxyTypes'
  OBVIOUS
<1>1. ASSUME NEW c \in Clients, OnConnection(c) \/ OnClose(c) \/ OnCodecError(c)
      PROVE  ProxyTypes'
  BY <1>1 DEF OnConnection, OnClose, OnCodecError, ProxyTypes, ConnStates, queues
<1>2. ASSUME NEW r \in Commands, OnQuery(r) \/ OnSet(r)
      PROVE  ProxyTypes'
  <2>1. CASE numThreads = 0
    BY <1>2, <2>1, RequestTypes DEF OnQuery, OnSet, OnRequest, ProxyTypes
  <2>2. CASE numThreads # 0
    <3>1. Append(pendingFunctors_, r) \in Seq(Commands)
      BY DEF ProxyTypes
    <3>2. /\ pendingFunctors_' = Append(pendingFunctors_, r)
          /\ dispatching' = r
          /\ received' = received \cup {r}
          /\ UNCHANGED <<clientConns_, text, connState, delivered>>
      BY <1>2, <2>2 DEF OnQuery, OnSet, OnRequest
    <3> QED
      BY <3>1, <3>2 DEF ProxyTypes
  <2> QED
    BY <2>1, <2>2
<1>3. CASE OnMessageReturn
  BY <1>3 DEF OnMessageReturn, ProxyTypes
<1>4. CASE RunFunctor
  <2>1. Head(pendingFunctors_) \in Commands /\ Tail(pendingFunctors_) \in Seq(Commands)
    BY <1>4 DEF RunFunctor, TakeFunctor, ProxyTypes
  <2>2. ASSUME NEW q \in received, RequestInLoop(Head(pendingFunctors_), q),
               pendingFunctors_' = Tail(pendingFunctors_)
        PROVE  ProxyTypes'
    <3>1. q \in Commands
      BY DEF ProxyTypes
    <3> QED
      BY <1>4, <2>1, <2>2, <3>1, RequestTypes DEF RunFunctor, TakeFunctor, ProxyTypes
  <2>3. ASSUME UNCHANGED <<clientConns_, pendingFunctors_, text>> PROVE ProxyTypes'
    BY <1>4, <2>3 DEF RunFunctor, TakeFunctor, ProxyTypes
  <2> QED
    BY <1>4, <2>2, <2>3 DEF RunFunctor, TakeFunctor
<1>5. ASSUME NEW x \in Slots, OnReply(x) \/ OnRedisDisconnect(x)
      PROVE  ProxyTypes'
  <2>1. CASE CommandCallback(x) /\ replies[x] # <<>>
    BY <1>5, <2>1, CallbackTypes DEF OnReply, OnRedisDisconnect, ProxyTypes, queues
  <2>2. CASE UNCHANGED <<delivered, connState>>
    BY <1>5, <2>2 DEF OnReply, OnRedisDisconnect, ProxyTypes, queues
  <2> QED
    BY <1>5, <2>1, <2>2 DEF OnReply, OnRedisDisconnect, HandleReply
<1>6. CASE UNCHANGED proxyVars
  BY <1>6 DEF proxyVars, queues, ProxyTypes
<1> QED
  BY <1>1, <1>2, <1>3, <1>4, <1>5, <1>6 DEF Next, RedisEvent, vars

-----------------------------------------------------------------------------
(* Routing                                                                 *)

\* Handlers other than command() only ever take waiting commands away.
OnlyDrops ==
    /\ UNCHANGED clientConns_
    /\ \A y \in Slots : replies'[y] = replies[y] \/ replies'[y] = <<>>

\* A step that only takes commands off the connections redirects no reply.
LEMMA DropsKeepRouting == ReplyRouting /\ OnlyDrops => ReplyRouting'
  BY DEF ReplyRouting, OnlyDrops

\* Replies and disconnects only take commands off the connections.
LEMMA ReplyDrops ==
  ASSUME IInv, NEW x \in Slots, HandleReply(x) \/ HandleDisconnect(x)
  PROVE  \A y \in Slots : replies'[y] = replies[y] \/ replies'[y] = <<>>
<1>1. CASE HandleDisconnect(x)
  BY <1>1 DEF HandleDisconnect, IInv, HiredisTypeOK
<1>2. CASE HandleReply(x)
  <2>1. PICK r \in Commands : replies[x] = <<r>>
    BY <1>2 DEF HandleReply, IInv, PendingOK
  <2>2. Tail(replies[x]) = <<>>
    BY <2>1
  <2>3. replies' = replies \/ replies' = [replies EXCEPT ![x] = <<>>]
    BY <1>2, <2>2 DEF HandleReply, Fail
  <2> QED
    BY <2>3 DEF IInv, HiredisTypeOK
<1> QED
  BY <1>1, <1>2

\* Recording a client under the id of the connection that took its command
\* leaves the entries of all other connections alone.
LEMMA RequestKeepsRouting ==
  ASSUME TypeOK, IInv, ReplyRouting, NEW r \in Commands, NEW q \in Commands,
         RequestInLoop(r, q)
  PROVE  ReplyRouting'
<1> DEFINE s == serverOf[q]
           id(x) == genUniqueConId(x[1], x[2])
<1>1. s \in Servers
  BY ClientsAssumption
<1>2. \A x \in Slots : id(x) \in UniqueConIds
  BY DEF UniqueConIds, Slots
<1>3. ASSUME NEW conId \in ConnIds,
             Command(<<s, conId>>, r, q \notin Malformed),
             clientConns_' = [clientConns_ EXCEPT ![genUniqueConId(s, conId)] = connOf[r]]
      PROVE  ReplyRouting'
  <2> DEFINE x == <<s, conId>>
  <2>1. x \in Slots /\ x[1] = s /\ x[2] = conId
    BY <1>1 DEF Slots
  <2>2. replies[x] = <<>>
    BY <1>3, <2>1 DEF Command, FirstFree, IInv, PendingOK, FreeOrBusy
  <2>3. replies' = replies \/ replies' = [replies EXCEPT ![x] = <<r>>]
    <3>1. Append(replies[x], r) = <<r>>
      BY <2>2
    <3> QED
      BY <1>3, <3>1 DEF Command
  <2>4. clientConns_'[id(x)] = connOf[r]
    BY <1>2, <1>3, <2>1 DEF TypeOK
  <2>5. ASSUME NEW y \in Slots, y # x
        PROVE  clientConns_'[id(y)] = clientConns_[id(y)] /\ replies'[y] = replies[y]
    <3>1. id(y) # id(x)
      BY <2>1, <2>5, IdsInjective
    <3>2. clientConns_'[id(y)] = clientConns_[id(y)]
      BY <1>2, <1>3, <2>1, <3>1 DEF TypeOK
    <3> QED
      BY <2>3, <2>5, <3>2 DEF TypeOK, HiredisTypeOK
  <2>6. replies'[x] = <<>> \/ replies'[x] = <<r>>
    BY <2>1, <2>2, <2>3 DEF TypeOK, HiredisTypeOK
  <2>7. Head(<<r>>) = r
    OBVIOUS
  <2> QED
    <3> SUFFICES ASSUME NEW y \in Slots, replies'[y] # <<>>
                 PROVE  clientConns_'[id(y)] = connOf[Head(replies'[y])]
      BY DEF ReplyRouting
    <3>1. CASE y = x
      BY <2>4, <2>6, <2>7, <3>1
    <3>2. CASE y # x
      BY <2>5, <3>2 DEF ReplyRouting
    <3> QED
      BY <3>1, <3>2
<1>4. ASSUME CommandRefused(s),
             clientConns_' = [clientConns_ EXCEPT ![genUniqueConId(s, -1)] = connOf[r]]
      PROVE  ReplyRouting'
  <2>1. \A y \in Slots : id(y) # genUniqueConId(s, -1)
    BY IdsNonNegative DEF genUniqueConId
  <2>2. \A y \in Slots : clientConns_'[id(y)] = clientConns_[id(y)]
    BY <1>2, <1>4, <2>1 DEF TypeOK
  <2>3. UNCHANGED replies
    BY <1>4 DEF CommandRefused, hiredisVars
  <2> QED
    BY <2>2, <2>3 DEF ReplyRouting
<1> QED
  BY <1>3, <1>4 DEF RequestInLoop

\* Every step keeps the routing of outstanding replies.
LEMMA RoutingKept ==
  ASSUME TypeOK, IInv, ReplyRouting, [Next]_vars
  PROVE  ReplyRouting'
<1>1. ASSUME NEW c \in Clients, OnConnection(c) \/ OnClose(c) \/ OnCodecError(c)
      PROVE  ReplyRouting'
  BY <1>1 DEF OnConnection, OnClose, OnCodecError, hiredisVars, ReplyRouting
<1>2. ASSUME NEW r \in Commands, OnQuery(r) \/ OnSet(r)
      PROVE  ReplyRouting'
  <2>1. CASE numThreads = 0
    BY <1>2, <2>1, RequestKeepsRouting DEF OnQuery, OnSet, OnRequest
  <2>2. CASE numThreads # 0
    BY <1>2, <2>2 DEF OnQuery, OnSet, OnRequest, hiredisVars, ReplyRouting
  <2> QED
    BY <2>1, <2>2
<1>3. CASE OnMessageReturn
  BY <1>3 DEF OnMessageReturn, hiredisVars, ReplyRouting
<1>4. CASE RunFunctor
  <2>1. Head(pendingFunctors_) \in Commands /\ received \subseteq Commands
    BY <1>4 DEF RunFunctor, TakeFunctor, TypeOK
  <2>2. ASSUME NEW q \in received, RequestInLoop(Head(pendingFunctors_), q)
        PROVE  ReplyRouting'
    BY <2>1, <2>2, RequestKeepsRouting
  <2>3. ASSUME Fail("message"), UNCHANGED clientConns_ PROVE ReplyRouting'
    BY <2>3 DEF Fail, ReplyRouting
  <2> QED
    BY <1>4, <2>2, <2>3 DEF RunFunctor, TakeFunctor
<1>5. ASSUME NEW x \in Slots, OnReply(x) \/ OnRedisDisconnect(x)
      PROVE  ReplyRouting'
  BY <1>5, ReplyDrops, DropsKeepRouting DEF OnReply, OnRedisDisconnect, OnlyDrops
<1>6. CASE RedisEvent
  <2>1. UNCHANGED replies
    BY <1>6 DEF RedisEvent, Connect, ConnectError, HandleConnect, HandleConnectFailed,
                DestroyChannelInHandler, HandleWrite, Fail
  <2> QED
    BY <1>6, <2>1 DEF RedisEvent, proxyVars, ReplyRouting
<1>7. CASE UNCHANGED vars
  BY <1>7 DEF vars, hiredisVars, proxyVars, ReplyRouting
<1> QED
  BY <1>1, <1>2, <1>3, <1>4, <1>5, <1>6, <1>7 DEF Next

-----------------------------------------------------------------------------
(* One answer, and to the right client                                     *)

\* A client has no answer, or exactly one: to a request of its own, after
\* which its connection is no longer up.
AnswerOK ==
    \A c \in Clients :
        \/ delivered[c] = <<>>
        \/ /\ \E r \in Commands : delivered[c] = <<r>> /\ connOf[r] = c
           /\ connState[c] \in {"kDisconnecting", "kDisconnected"}

\* The callback answers only the client that asked, which had no answer yet.
LEMMA CallbackKeepsAnswers ==
  ASSUME TypeOK, ReplyRouting, AnswerOK, NEW x \in Slots, replies[x] # <<>>,
         CommandCallback(x)
  PROVE  AnswerOK'
<1> DEFINE c == clientConns_[genUniqueConId(x[1], x[2])]
           r == Head(replies[x])
<1>1. r \in Commands /\ c = connOf[r] /\ c \in Clients
  BY ClientsAssumption DEF TypeOK, HiredisTypeOK, ReplyRouting
<1>2. CASE c # NoClient /\ connState[c] = "kConnected"
  <2>1. delivered[c] = <<>>
    BY <1>1, <1>2 DEF AnswerOK
  <2>2. Append(delivered[c], r) = <<r>>
    BY <2>1
  <2>3. /\ delivered' = [delivered EXCEPT ![c] = <<r>>]
        /\ connState' = [connState EXCEPT ![c] = "kDisconnecting"]
    BY <1>2, <2>2 DEF CommandCallback
  <2> QED
    BY <1>1, <2>3 DEF AnswerOK, TypeOK
<1>3. CASE ~(c # NoClient /\ connState[c] = "kConnected")
  BY <1>3 DEF CommandCallback, AnswerOK
<1> QED
  BY <1>2, <1>3

\* Every step keeps what is known of the answers given.
LEMMA AnswersKept ==
  ASSUME TypeOK, ReplyRouting, AnswerOK, [Next]_vars
  PROVE  AnswerOK'
<1>1. ASSUME NEW c \in Clients, OnConnection(c) \/ OnClose(c) \/ OnCodecError(c)
      PROVE  AnswerOK'
  BY <1>1 DEF OnConnection, OnClose, OnCodecError, AnswerOK, TypeOK
<1>2. ASSUME NEW x \in Slots, OnReply(x) \/ OnRedisDisconnect(x)
      PROVE  AnswerOK'
  <2>1. CASE CommandCallback(x) /\ replies[x] # <<>>
    BY <2>1, CallbackKeepsAnswers
  <2>2. CASE UNCHANGED <<delivered, connState>>
    BY <2>2 DEF AnswerOK
  <2> QED
    BY <1>2, <2>1, <2>2 DEF OnReply, OnRedisDisconnect, HandleReply
<1>3. ASSUME UNCHANGED <<delivered, connState>> PROVE AnswerOK'
  BY <1>3 DEF AnswerOK
<1> QED
  BY <1>1, <1>2, <1>3
  DEF Next, vars, proxyVars, OnQuery, OnSet, OnRequest, OnMessageReturn, RunFunctor, RedisEvent

-----------------------------------------------------------------------------
(* The theorems                                                            *)

ProxyInv == ProxyTypes /\ IInv /\ ReplyRouting /\ AnswerOK

\* TypeOK from its two halves.
LEMMA TypeOKSplit == ProxyTypes /\ IInv => TypeOK
  BY DEF ProxyTypes, IInv, TypeOK

\* The proxy starts in ProxyInv.
LEMMA InitProxyInv == Init => ProxyInv
<1> SUFFICES ASSUME Init PROVE ProxyInv
  OBVIOUS
<1>1. IInv
  BY InitIInv DEF Init
<1>2. <<>> \in Seq(Commands)
  OBVIOUS
<1>3. ProxyTypes
  BY <1>2 DEF Init, ProxyTypes, ConnStates
<1>4. ReplyRouting /\ AnswerOK
  BY DEF Init, HiredisInit, ReplyRouting, AnswerOK
<1> QED
  BY <1>1, <1>3, <1>4 DEF ProxyInv

\* ProxyInv is inductive.
LEMMA NextProxyInv == ProxyInv /\ [Next]_vars => ProxyInv'
<1> SUFFICES ASSUME ProxyInv, [Next]_vars PROVE ProxyInv'
  OBVIOUS
<1>1. TypeOK /\ HiredisTypeOK
  BY TypeOKSplit DEF ProxyInv, TypeOK
<1>2. IInv'
  BY <1>1, StepOfPool, NextIInv DEF ProxyInv
<1>3. ProxyTypes'
  BY <1>1, TypesKept DEF ProxyInv
<1>4. ReplyRouting' /\ AnswerOK'
  BY <1>1, RoutingKept, AnswersKept DEF ProxyInv
<1> QED
  BY <1>2, <1>3, <1>4 DEF ProxyInv

\* ProxyInv holds in every state of the proxy.
THEOREM ProxyInvariant == Spec => []ProxyInv
  BY InitProxyInv, NextProxyInv, PTL DEF Spec

\* Every variable of the proxy keeps its type.
THEOREM ProxyTypeCorrect == Spec => []TypeOK
<1>1. ProxyInv => TypeOK
  BY TypeOKSplit DEF ProxyInv
<1> QED
  BY <1>1, ProxyInvariant, PTL

\* The pool inside the proxy is the pool on its own: every step of the proxy,
\* of either thread, is a step of Hiredis or does not touch it, so all that
\* is proved of HiredisSpec holds in the proxy.
THEOREM ProxyImplementsHiredis == Spec => ImplementsHiredis
<1>1. Init => HiredisInit
  BY DEF Init
<1>2. ProxyInv /\ [Next]_vars => [HiredisNext]_hiredisVars
  BY TypeOKSplit, StepOfPool DEF ProxyInv
<1> QED
  BY <1>1, <1>2, ProxyInvariant, PTL DEF Spec, HiredisSpec, ImplementsHiredis

\* The reply of a redis connection always goes to the client whose command
\* waits on it (ProxyServer.cc 58), for any number of servers, connections,
\* clients and requests.
THEOREM RepliesAreRouted == Spec => []ReplyRouting
<1>1. ProxyInv => ReplyRouting
  BY DEF ProxyInv
<1> QED
  BY <1>1, ProxyInvariant, PTL

\* A client is answered at most once, and only a request of its own.
THEOREM OneOwnReply == Spec => []OwnReplyOnce
<1>1. ProxyInv => OwnReplyOnce
  <2> SUFFICES ASSUME ProxyInv, NEW c \in Clients
               PROVE  /\ Len(delivered[c]) <= 1
                      /\ \A i \in 1 .. Len(delivered[c]) : connOf[delivered[c][i]] = c
    BY DEF OwnReplyOnce
  <2>1. CASE delivered[c] = <<>>
    BY <2>1
  <2>2. ASSUME NEW r \in Commands, delivered[c] = <<r>>, connOf[r] = c
        PROVE  /\ Len(delivered[c]) <= 1
               /\ \A i \in 1 .. Len(delivered[c]) : connOf[delivered[c][i]] = c
    BY <2>2
  <2> QED
    BY <2>1, <2>2 DEF ProxyInv, AnswerOK
<1> QED
  BY <1>1, ProxyInvariant, PTL

-----------------------------------------------------------------------------
(* The proxy implements ReplyRouter                                        *)

\* The elements of a sequence, and that none is repeated.
Elements(s) == {s[i] : i \in 1 .. Len(s)}
NoRepeats(s) == \A i, j \in 1 .. Len(s) : s[i] = s[j] => i = j

\* A request is in one place: once in the base loop's queue, or on one
\* connection, and it was received.
OnePlace ==
    /\ NoRepeats(pendingFunctors_)
    /\ \A x, y \in Slots :
          replies[x] # <<>> /\ replies[y] # <<>> /\ Head(replies[x]) = Head(replies[y]) => x = y
    /\ Queued \cap AtRedis = {}
    /\ Queued \cup AtRedis \subseteq received

\* queueInLoop appends: one more element, none repeated.
LEMMA AppendElements ==
  ASSUME NEW S, NEW s \in Seq(S), NEW e \in S, NoRepeats(s), e \notin Elements(s)
  PROVE  Elements(Append(s, e)) = Elements(s) \cup {e} /\ NoRepeats(Append(s, e))
  BY DEF Elements, NoRepeats

\* doPendingFunctors takes the head: it is gone from the elements.
LEMMA TailElements ==
  ASSUME NEW S, NEW s \in Seq(S), s # <<>>, NoRepeats(s)
  PROVE  /\ Elements(Tail(s)) = Elements(s) \ {Head(s)} /\ NoRepeats(Tail(s))
         /\ Head(s) \in Elements(s)
<1>1. Len(s) \in Nat /\ Len(s) > 0 /\ Len(Tail(s)) = Len(s) - 1 /\ Head(s) = s[1]
  OBVIOUS
<1>2. \A i \in 1 .. Len(Tail(s)) : Tail(s)[i] = s[i + 1]
  OBVIOUS
<1>3. NoRepeats(Tail(s))
  BY <1>1, <1>2 DEF NoRepeats
<1>4. Elements(Tail(s)) \subseteq Elements(s) \ {Head(s)}
  BY <1>1, <1>2 DEF Elements, NoRepeats
<1>5. ASSUME NEW i \in 1 .. Len(s), s[i] # Head(s) PROVE s[i] \in Elements(Tail(s))
  <2>1. i - 1 \in 1 .. Len(Tail(s)) /\ Tail(s)[i - 1] = s[i]
    BY <1>1, <1>2, <1>5
  <2> QED
    BY <2>1 DEF Elements
<1>6. Elements(s) \ {Head(s)} \subseteq Elements(Tail(s))
  BY <1>5 DEF Elements
<1>7. Head(s) \in Elements(s)
  BY <1>1 DEF Elements
<1> QED
  BY <1>3, <1>4, <1>6, <1>7

\* A free connection takes command r: r is at redis as well.
LEMMA TakenAtRedis ==
  ASSUME HiredisTypeOK, NEW x \in Slots, NEW r \in Commands, replies[x] = <<>>,
         replies' = [replies EXCEPT ![x] = <<r>>]
  PROVE  AtRedis' = AtRedis \cup {r}
<1>1. Head(<<r>>) = r /\ <<r>> # <<>>
  OBVIOUS
<1>2. replies'[x] = <<r>> /\ \A y \in Slots : y # x => replies'[y] = replies[y]
  BY DEF HiredisTypeOK
<1> QED
  BY <1>1, <1>2 DEF AtRedis

\* The command of connection x is answered or lost: it is at redis no more.
LEMMA GoneFromRedis ==
  ASSUME HiredisTypeOK, OnePlace, NEW x \in Slots, replies[x] # <<>>,
         replies' = [replies EXCEPT ![x] = <<>>]
  PROVE  AtRedis' = AtRedis \ {Head(replies[x])} /\ Head(replies[x]) \in AtRedis
<1>1. replies'[x] = <<>> /\ \A y \in Slots : y # x => replies'[y] = replies[y]
  BY DEF HiredisTypeOK
<1> QED
  BY <1>1 DEF AtRedis, OnePlace

\* What a reply or a disconnect does to the connection's waiting command.
LEMMA ReplyTakesCommand ==
  ASSUME IInv, NEW x \in Slots, HandleReply(x) \/ HandleDisconnect(x)
  PROVE  (replies' = replies /\ replies[x] = <<>>) \/ replies' = [replies EXCEPT ![x] = <<>>]
<1>1. CASE HandleDisconnect(x)
  <2>1. CASE replies[x] = <<>> /\ x \in activeBusyConn_
    BY <1>1, <2>1 DEF HandleDisconnect
  <2>2. CASE ~(replies[x] = <<>> /\ x \in activeBusyConn_)
    BY <1>1, <2>2 DEF HandleDisconnect
  <2> QED
    BY <2>1, <2>2
<1>2. CASE HandleReply(x)
  <2>1. PICK r \in Commands : replies[x] = <<r>> /\ x \in activeBusyConn_
    BY <1>2 DEF HandleReply, IInv, PendingOK
  <2>2. Tail(replies[x]) = <<>>
    BY <2>1
  <2>3. x \notin activeFreeConns_
    BY <2>1 DEF IInv, FreeOrBusy
  <2> QED
    BY <1>2, <2>1, <2>2, <2>3 DEF HandleReply
<1> QED
  BY <1>1, <1>2

\* What a request does to the waiting commands: it waits on a connection that
\* was idle, or it is dropped.
LEMMA RequestTakesSlot ==
  ASSUME IInv, NEW r \in Commands, NEW q \in Commands, RequestInLoop(r, q)
  PROVE  \/ UNCHANGED replies
         \/ \E x \in Slots : replies[x] = <<>> /\ replies' = [replies EXCEPT ![x] = <<r>>]
<1>1. ASSUME NEW c \in ConnIds, Command(<<serverOf[q], c>>, r, q \notin Malformed)
      PROVE  \/ UNCHANGED replies
             \/ \E x \in Slots : replies[x] = <<>> /\ replies' = [replies EXCEPT ![x] = <<r>>]
  <2> DEFINE x == <<serverOf[q], c>>
  <2>1. x \in Slots
    BY ClientsAssumption DEF Slots
  <2>2. replies[x] = <<>>
    BY <1>1, <2>1 DEF Command, FirstFree, IInv, PendingOK, FreeOrBusy
  <2>3. Append(replies[x], r) = <<r>>
    BY <2>2
  <2> QED
    BY <1>1, <2>1, <2>2, <2>3 DEF Command
<1>2. ASSUME CommandRefused(serverOf[q]) PROVE UNCHANGED replies
  BY <1>2 DEF CommandRefused, hiredisVars
<1> QED
  BY <1>1, <1>2 DEF RequestInLoop

\* OnRequest: the request is accepted, or accepted and dropped at once.
LEMMA RequestRefines ==
  ASSUME ProxyInv, OnePlace, NEW r \in Commands, OnRequest(r)
  PROVE  OnePlace' /\ Router!Next
<1>1. /\ r \notin received /\ received' = received \cup {r} /\ UNCHANGED delivered
      /\ r \notin Queued /\ r \notin AtRedis
  BY DEF OnRequest, OnePlace
<1>2. HiredisTypeOK /\ pendingFunctors_ \in Seq(Commands)
  BY DEF ProxyInv, IInv, ProxyTypes
<1>3. CASE numThreads = 0
  <2>1. RequestInLoop(r, r) /\ UNCHANGED pendingFunctors_
    BY <1>3 DEF OnRequest
  <2>2. Queued' = Queued
    BY <2>1 DEF Queued
  <2>3. CASE UNCHANGED replies
    <3>1. AtRedis' = AtRedis
      BY <2>3 DEF AtRedis
    <3>2. OnePlace'
      BY <1>1, <2>1, <2>2, <2>3, <3>1 DEF OnePlace
    <3>3. Router!Reject(r)
      BY <1>1, <2>2, <3>1 DEF Router!Reject
    <3> QED
      BY <3>2, <3>3 DEF Router!Next
  <2>4. ASSUME NEW x \in Slots, replies[x] = <<>>, replies' = [replies EXCEPT ![x] = <<r>>]
        PROVE  OnePlace' /\ Router!Next
    <3>1. AtRedis' = AtRedis \cup {r}
      BY <1>2, <2>4, TakenAtRedis
    <3>2. \A y, z \in Slots :
            replies'[y] # <<>> /\ replies'[z] # <<>> /\ Head(replies'[y]) = Head(replies'[z]) => y = z
      <4>1. Head(<<r>>) = r
        OBVIOUS
      <4> QED
        BY <1>1, <1>2, <2>4, <4>1 DEF OnePlace, AtRedis, HiredisTypeOK
    <3>3. OnePlace'
      BY <1>1, <2>1, <2>2, <3>1, <3>2 DEF OnePlace
    <3>4. Router!Accept(r)
      BY <1>1, <2>2, <3>1 DEF Router!Accept
    <3> QED
      BY <3>3, <3>4 DEF Router!Next
  <2> QED
    BY <2>1, <2>3, <2>4, RequestTakesSlot DEF ProxyInv
<1>4. CASE numThreads # 0
  <2>1. pendingFunctors_' = Append(pendingFunctors_, r) /\ UNCHANGED replies
    BY <1>4 DEF OnRequest, hiredisVars
  <2>2. Queued' = Queued \cup {r} /\ NoRepeats(pendingFunctors_')
    BY <1>1, <1>2, <2>1, AppendElements DEF Queued, Elements, OnePlace
  <2>3. AtRedis' = AtRedis
    BY <2>1 DEF AtRedis
  <2>4. OnePlace'
    BY <1>1, <2>1, <2>2, <2>3 DEF OnePlace
  <2>5. Router!Accept(r)
    BY <1>1, <2>2, <2>3 DEF Router!Accept
  <2> QED
    BY <2>4, <2>5 DEF Router!Next
<1> QED
  BY <1>3, <1>4

\* RunFunctor: the request moves on to redis, is dropped, or the process ends.
LEMMA FunctorRefines ==
  ASSUME ProxyInv, OnePlace, RunFunctor
  PROVE  OnePlace' /\ [Router!Next]_Router!routerVars
<1> DEFINE r == Head(pendingFunctors_)
<1>1. HiredisTypeOK /\ pendingFunctors_ \in Seq(Commands) /\ pendingFunctors_ # <<>>
  BY DEF ProxyInv, IInv, ProxyTypes, RunFunctor
<1>2. r \in Commands /\ UNCHANGED <<received, delivered>> /\ received \subseteq Commands
  BY <1>1 DEF RunFunctor, ProxyInv, ProxyTypes
<1>3. ASSUME Fail("message"), UNCHANGED pendingFunctors_
      PROVE  OnePlace' /\ UNCHANGED Router!routerVars
  BY <1>2, <1>3 DEF Fail, OnePlace, Queued, AtRedis, Router!routerVars
<1>4. ASSUME NEW q \in received, RequestInLoop(r, q), TakeFunctor
      PROVE  OnePlace' /\ [Router!Next]_Router!routerVars
  <2>1. /\ Queued' = Queued \ {r} /\ NoRepeats(pendingFunctors_') /\ r \in Queued
    BY <1>1, <1>4, TailElements DEF TakeFunctor, Queued, Elements, OnePlace
  <2>2. r \notin AtRedis /\ r \in received
    BY <2>1 DEF OnePlace
  <2>3. CASE UNCHANGED replies
    <3>1. AtRedis' = AtRedis
      BY <2>3 DEF AtRedis
    <3>2. OnePlace'
      BY <1>2, <2>1, <2>3, <3>1 DEF OnePlace
    <3>3. Router!Drop(r)
      BY <1>2, <2>1, <2>2, <3>1 DEF Router!Drop
    <3> QED
      BY <1>2, <3>2, <3>3 DEF Router!Next
  <2>4. ASSUME NEW x \in Slots, replies[x] = <<>>, replies' = [replies EXCEPT ![x] = <<r>>]
        PROVE  OnePlace' /\ UNCHANGED Router!routerVars
    <3>1. AtRedis' = AtRedis \cup {r}
      BY <1>1, <1>2, <2>4, TakenAtRedis
    <3>2. \A y, z \in Slots :
            replies'[y] # <<>> /\ replies'[z] # <<>> /\ Head(replies'[y]) = Head(replies'[z]) => y = z
      <4>1. Head(<<r>>) = r
        OBVIOUS
      <4> QED
        BY <1>1, <2>2, <2>4, <4>1 DEF OnePlace, AtRedis, HiredisTypeOK
    <3>3. OnePlace'
      BY <1>2, <2>1, <2>2, <3>1, <3>2 DEF OnePlace
    <3>4. (Queued \cup AtRedis)' = Queued \cup AtRedis
      BY <2>1, <3>1
    <3> QED
      BY <1>2, <3>3, <3>4 DEF Router!routerVars
  <2> QED
    BY <1>2, <1>4, <2>3, <2>4, RequestTakesSlot DEF ProxyInv
<1> QED
  BY <1>3, <1>4 DEF RunFunctor

\* A reply or a disconnect: the client that asked is answered, or the request is
\* dropped because that client is gone, or nothing waited.
LEMMA ReplyRefines ==
  ASSUME ProxyInv, OnePlace, NEW x \in Slots, OnReply(x) \/ OnRedisDisconnect(x)
  PROVE  OnePlace' /\ [Router!Next]_Router!routerVars
<1> DEFINE c == clientConns_[genUniqueConId(x[1], x[2])]
           r == Head(replies[x])
<1>1. IInv /\ HiredisTypeOK /\ UNCHANGED <<received, pendingFunctors_>>
  BY DEF ProxyInv, IInv, OnReply, OnRedisDisconnect, queues
<1>2. Queued' = Queued
  BY <1>1 DEF Queued
<1>3. \/ replies' = replies /\ replies[x] = <<>>
      \/ replies' = [replies EXCEPT ![x] = <<>>]
  BY <1>1, ReplyTakesCommand DEF OnReply, OnRedisDisconnect
<1>4. CASE replies[x] = <<>>
  <2>1. replies' = replies
    BY <1>1, <1>3, <1>4 DEF HiredisTypeOK
  <2>2. UNCHANGED delivered
    BY <1>4 DEF OnReply, HandleReply, OnRedisDisconnect
  <2> QED
    BY <1>1, <1>2, <2>1, <2>2 DEF OnePlace, AtRedis, Router!routerVars
<1>5. CASE replies[x] # <<>>
  <2>1. replies' = [replies EXCEPT ![x] = <<>>] /\ CommandCallback(x)
    BY <1>3, <1>5 DEF OnReply, OnRedisDisconnect
  <2>2. AtRedis' = AtRedis \ {r} /\ r \in AtRedis
    BY <1>1, <1>5, <2>1, GoneFromRedis
  <2>3. \A y, z \in Slots :
          replies'[y] # <<>> /\ replies'[z] # <<>> /\ Head(replies'[y]) = Head(replies'[z]) => y = z
    BY <1>1, <2>1 DEF OnePlace, HiredisTypeOK
  <2>4. OnePlace'
    BY <1>1, <1>2, <2>2, <2>3 DEF OnePlace
  <2>5. r \in Commands /\ c = connOf[r] /\ c \in Clients
    BY <1>1, <1>5, ClientsAssumption DEF HiredisTypeOK, ProxyInv, ReplyRouting
  <2>6. (Queued \cup AtRedis)' = (Queued \cup AtRedis) \ {r}
    BY <1>2, <2>2 DEF OnePlace
  <2>7. CASE connState[c] = "kConnected"
    <3>1. c # NoClient
      BY <2>5, ClientsAssumption
    <3>2. delivered[c] = <<>>
      BY <2>5, <2>7 DEF ProxyInv, AnswerOK
    <3>3. Append(delivered[c], r) = <<r>>
      BY <3>2
    <3>4. delivered' = [delivered EXCEPT ![c] = <<r>>]
      BY <2>1, <2>7, <3>1, <3>3 DEF CommandCallback
    <3>5. Router!Answer(r)
      BY <1>1, <2>2, <2>5, <2>6, <3>2, <3>4 DEF Router!Answer
    <3> QED
      BY <2>4, <2>5, <3>5 DEF Router!Next
  <2>8. CASE connState[c] # "kConnected"
    <3>1. UNCHANGED delivered
      BY <2>1, <2>8 DEF CommandCallback
    <3>2. Router!Drop(r)
      BY <1>1, <2>2, <2>6, <3>1 DEF Router!Drop
    <3> QED
      BY <2>4, <2>5, <3>2 DEF Router!Next
  <2> QED
    BY <2>7, <2>8
<1> QED
  BY <1>4, <1>5

\* Every step of the proxy keeps OnePlace and is a step of ReplyRouter or none.
LEMMA StepRefines == ProxyInv /\ OnePlace /\ [Next]_vars => OnePlace' /\ [Router!Next]_Router!routerVars
<1> SUFFICES ASSUME ProxyInv, OnePlace, [Next]_vars
             PROVE  OnePlace' /\ [Router!Next]_Router!routerVars
  OBVIOUS
<1>1. ASSUME UNCHANGED <<replies, pendingFunctors_, received, delivered>>
      PROVE  OnePlace' /\ UNCHANGED Router!routerVars
  BY <1>1 DEF OnePlace, Queued, AtRedis, Router!routerVars
<1>2. ASSUME NEW c \in Clients, OnConnection(c) \/ OnClose(c) \/ OnCodecError(c)
      PROVE  UNCHANGED <<replies, pendingFunctors_, received, delivered>>
  BY <1>2 DEF OnConnection, OnClose, OnCodecError, hiredisVars, queues
<1>3. CASE OnMessageReturn \/ UNCHANGED vars
  BY <1>1, <1>3 DEF OnMessageReturn, vars, proxyVars, hiredisVars, queues
<1>4. CASE RedisEvent
  <2>1. UNCHANGED replies
    BY <1>4 DEF RedisEvent, Connect, ConnectError, HandleConnect, HandleConnectFailed,
                DestroyChannelInHandler, HandleWrite, Fail
  <2> QED
    BY <1>1, <1>4, <2>1 DEF RedisEvent, proxyVars, queues
<1> QED
  BY <1>1, <1>2, <1>3, <1>4, RequestRefines, FunctorRefines, ReplyRefines DEF Next, OnQuery, OnSet

\* The proxy keeps the promise of ReplyRouter to its clients, for any number of
\* servers, connections, clients and requests, with and without an I/O thread:
\* whatever redis and the clients do, an accepted request is answered or dropped
\* once, and only the client that asked is answered (ProxyServer.cc 49-63, 96-150).
THEOREM ProxyImplementsRouter == Spec => ImplementsRouter
<1>1. Init => Router!Init /\ OnePlace
  BY DEF Init, HiredisInit, Router!Init, OnePlace, NoRepeats, Queued, AtRedis
<1> QED
  BY <1>1, StepRefines, ProxyInvariant, PTL DEF Spec, Router!Spec, ImplementsRouter

=============================================================================
