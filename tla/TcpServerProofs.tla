-------------------------- MODULE TcpServerProofs --------------------------
(***************************************************************************)
(* Proofs about the TcpServer and its Acceptor, for any number of I/O      *)
(* threads, clients, descriptors and calls of start().                     *)
(***************************************************************************)
EXTENDS TcpServer, FiniteSetTheorems, TLAPS

ConnStates   == {"none", "connecting", "up", "closed", "held"}
ConnFunctors == {"connectEstablished", "removeConnectionInLoop", "connectDestroyed"}
AllFunctors  == [name : ConnFunctors, conn : ConnIds] \cup {Functor("listen", 0)}
Loops        == 0 .. numThreads_
BaseStates   == {"idle", "starting", "reserve closed", "accepted", "refused"}

ServerTypeOK ==
    /\ numThreads_ \in Nat
    /\ starts \in Nat /\ listenning_ \in BOOLEAN
    /\ backlog \in Nat /\ clients \in 0 .. MaxClients
    /\ base \in BaseStates
    /\ idleFd_ \in {"null device", "socket", "none"}
    /\ others \in Nat
    /\ taken \in BOOLEAN
    /\ nextConnId_ \in Nat \ {0}
    /\ next_ \in Nat /\ (numThreads_ > 0 => next_ < numThreads_)
    /\ conn \in [ConnIds -> [loop : Loops, state : ConnStates]]
    /\ queue \in [Loops -> Seq(AllFunctors)]

\* Every connection has a client of its own.
IdsOK ==
    /\ nextConnId_ + backlog <= clients + 1
    /\ \A c \in ConnIds : c >= nextConnId_ => conn[c].state = "none"

\* Functor f waits in the queue q; none waits there twice.
Has(q, f) == \E i \in DOMAIN q : q[i] = f
Once(q)   == \A i, j \in DOMAIN q : q[i] = q[j] /\ q[i].conn # 0 => i = j

Establishes(c) == Functor("connectEstablished", c)
Removes(c)     == Functor("removeConnectionInLoop", c)
Destroys(c)    == Functor("connectDestroyed", c)

\* A queued functor finds its connection as it expects it.
FunctorsOK ==
    \A l \in Loops : Once(queue[l]) /\ \A c \in ConnIds :
        /\ Has(queue[l], Establishes(c)) => l = conn[c].loop /\ conn[c].state = "connecting"
        /\ Has(queue[l], Removes(c)) => l = 0 /\ conn[c].state = "closed" /\ c \in connections_
        /\ Has(queue[l], Destroys(c)) =>
              l = conn[c].loop /\ conn[c].state = "closed" /\ c \notin connections_

\* A connection that waits for a functor has one queued, and the map has the
\* connections that removeConnectionInLoop has not taken out.
ConnsOK ==
    \A c \in ConnIds :
        /\ conn[c].state = "connecting" => Has(queue[conn[c].loop], Establishes(c))
        /\ conn[c].state = "closed" =>
              Has(queue[0], Removes(c)) \/ Has(queue[conn[c].loop], Destroys(c))
        /\ conn[c].state \in {"connecting", "up"} => c \in connections_
        /\ c \in connections_ =>
              conn[c].state \in {"connecting", "up"} \/ Has(queue[0], Removes(c))

\* Descriptors in use but for the reserve.
Held == others + Cardinality(SocketsOpen)

\* While the reserve is given up its slot is kept for it, unless it was taken.
FdsOK ==
    /\ Used <= FdLimit
    /\ base \in {"idle", "starting"} => idleFd_ = "null device" \/ (idleFd_ = "none" /\ taken)
    /\ base \in {"reserve closed", "refused"} => idleFd_ = "none"
    /\ base = "accepted" => idleFd_ # "null device"
    /\ base \in {"reserve closed", "accepted", "refused"} /\ ~taken => Held < FdLimit

\* Before start() nothing happens.
NotStarted ==
    starts = 0 =>
        /\ base = "idle" /\ ~listenning_ /\ backlog = 0
        /\ \A l \in Loops : queue[l] = <<>>
        /\ \A c \in ConnIds : conn[c].state = "none"

VInv ==
    /\ ServerTypeOK
    /\ IdsOK
    /\ FunctorsOK
    /\ ConnsOK
    /\ NotStarted
    /\ FdsOK

-----------------------------------------------------------------------------
(* Queues of functors                                                      *)

\* What waits in a queue after a functor was added.
LEMMA HasAppend ==
    ASSUME NEW S, NEW q \in Seq(S), NEW f \in S
    PROVE  /\ Append(q, f) \in Seq(S)
           /\ \A g : Has(Append(q, f), g) <=> Has(q, g) \/ g = f
<1>1. Append(q, f) \in Seq(S)
  OBVIOUS
<1>2. ASSUME NEW g, Has(Append(q, f), g) PROVE Has(q, g) \/ g = f
  BY <1>2 DEF Has
<1>3. ASSUME NEW g, Has(q, g) PROVE Has(Append(q, f), g)
  <2>1. PICK i \in DOMAIN q : q[i] = g
    BY <1>3 DEF Has
  <2>2. i \in DOMAIN Append(q, f) /\ Append(q, f)[i] = g
    BY <2>1
  <2> QED BY <2>2 DEF Has
<1>4. Has(Append(q, f), f)
  <2>1. Len(q) + 1 \in DOMAIN Append(q, f) /\ Append(q, f)[Len(q) + 1] = f
    OBVIOUS
  <2> QED BY <2>1 DEF Has
<1> QED BY <1>1, <1>2, <1>3, <1>4

\* A functor that was not in the queue may be added to it.
LEMMA OnceAppend ==
    ASSUME NEW S, NEW q \in Seq(S), NEW f \in S, Once(q), f.conn = 0 \/ ~Has(q, f)
    PROVE  Once(Append(q, f))
<1> DEFINE a == Append(q, f)
<1> SUFFICES ASSUME NEW i \in DOMAIN a, NEW j \in DOMAIN a, a[i] = a[j], a[i].conn # 0
             PROVE  i = j
  BY DEF Once
<1>1. CASE i \in DOMAIN q /\ j \in DOMAIN q
  <2>1. a[i] = q[i] /\ a[j] = q[j]
    BY <1>1
  <2> QED BY <1>1, <2>1 DEF Once
<1>2. CASE i \in DOMAIN q /\ j = Len(q) + 1
  <2>1. q[i] = f /\ a[i] = f
    BY <1>2
  <2> QED BY <1>2, <2>1 DEF Has
<1>3. CASE j \in DOMAIN q /\ i = Len(q) + 1
  <2>1. q[j] = f /\ a[i] = f
    BY <1>3
  <2> QED BY <1>3, <2>1 DEF Has
<1>4. DOMAIN a = 1 .. Len(q) + 1 /\ DOMAIN q = 1 .. Len(q)
  OBVIOUS
<1> QED BY <1>1, <1>2, <1>3, <1>4

\* What waits in a queue after its first functor was taken.
LEMMA HasTail ==
    ASSUME NEW S, NEW q \in Seq(S), q # <<>>, Once(q)
    PROVE  /\ Tail(q) \in Seq(S) /\ Head(q) \in S /\ Has(q, Head(q))
           /\ \A g : Has(Tail(q), g) => Has(q, g)
           /\ \A g : Has(q, g) => Has(Tail(q), g) \/ g = Head(q)
           /\ Head(q).conn # 0 => ~Has(Tail(q), Head(q))
           /\ Once(Tail(q))
<1> DEFINE t == Tail(q)
<1>1. /\ t \in Seq(S) /\ Head(q) \in S
      /\ 1 \in DOMAIN q /\ q[1] = Head(q)
      /\ Len(t) = Len(q) - 1 /\ DOMAIN t = 1 .. Len(q) - 1 /\ DOMAIN q = 1 .. Len(q)
      /\ \A i \in DOMAIN t : t[i] = q[i + 1]
  OBVIOUS
<1>2. ASSUME NEW i \in DOMAIN t PROVE i + 1 \in DOMAIN q /\ i + 1 # 1 /\ t[i] = q[i + 1]
  BY <1>1
<1>3. ASSUME NEW i \in DOMAIN q, i # 1 PROVE i - 1 \in DOMAIN t /\ t[i - 1] = q[i]
  <2>1. i - 1 \in DOMAIN t /\ (i - 1) + 1 = i
    BY <1>1, <1>3
  <2> QED BY <2>1, <1>1
<1> HIDE DEF t
<1>4. ASSUME NEW g, Has(t, g) PROVE Has(q, g)
  BY <1>2, <1>4 DEF Has
<1>5. ASSUME NEW g, Has(q, g) PROVE Has(t, g) \/ g = Head(q)
  BY <1>1, <1>3, <1>5 DEF Has
<1>6. ASSUME Head(q).conn # 0, Has(t, Head(q)) PROVE FALSE
  <2>1. PICK i \in DOMAIN t : t[i] = Head(q)
    BY <1>6 DEF Has
  <2>2. i + 1 \in DOMAIN q /\ i + 1 # 1 /\ q[i + 1] = q[1]
    BY <2>1, <1>1, <1>2
  <2> QED BY <2>2, <1>1, <1>6 DEF Once
<1>7. ASSUME NEW i \in DOMAIN t, NEW j \in DOMAIN t, t[i] = t[j], t[i].conn # 0 PROVE i = j
  <2>1. i + 1 = j + 1
    BY <1>7, <1>2 DEF Once
  <2> QED BY <2>1, <1>1
<1>8. Has(q, Head(q))
  BY <1>1 DEF Has
<1>9. Once(t)
  BY <1>7 DEF Once
<1> QED BY <1>1, <1>4, <1>5, <1>6, <1>8, <1>9 DEF t

\* R are the queues Q with f added to queue l.
Appended(Q, R, l, f) ==
    /\ R \in [Loops -> Seq(AllFunctors)]
    /\ \A m \in Loops : Once(R[m])
    /\ \A m \in Loops : \A g : Has(R[m], g) <=> Has(Q[m], g) \/ (m = l /\ g = f)

\* R are the queues Q without the first functor of queue l.
Taken(Q, R, l) ==
    /\ R \in [Loops -> Seq(AllFunctors)]
    /\ Head(Q[l]) \in AllFunctors
    /\ Has(Q[l], Head(Q[l]))
    /\ \A m \in Loops : Once(R[m])
    /\ \A m \in Loops : \A g : Has(R[m], g) => Has(Q[m], g)
    /\ \A m \in Loops : \A g : Has(Q[m], g) => Has(R[m], g) \/ (m = l /\ g = Head(Q[l]))
    /\ Head(Q[l]).conn # 0 => ~Has(R[l], Head(Q[l]))

\* A functor is added to queue l of the loops' queues.
LEMMA QueuesAppend ==
    ASSUME NEW Q \in [Loops -> Seq(AllFunctors)], NEW l \in Loops, NEW f \in AllFunctors,
           NEW R, R = [Q EXCEPT ![l] = Append(@, f)], \A m \in Loops : Once(Q[m]),
           f.conn = 0 \/ ~Has(Q[l], f)
    PROVE  Appended(Q, R, l, f)
<1>1. \A m \in Loops : R[m] = IF m = l THEN Append(Q[l], f) ELSE Q[m]
  OBVIOUS
<1>2. Q[l] \in Seq(AllFunctors)
  OBVIOUS
<1> QED BY <1>1, <1>2, HasAppend, OnceAppend DEF Appended

\* The first functor of queue l is taken.
LEMMA QueuesTail ==
    ASSUME NEW Q \in [Loops -> Seq(AllFunctors)], NEW l \in Loops, Q[l] # <<>>,
           NEW R, R = [Q EXCEPT ![l] = Tail(@)], \A m \in Loops : Once(Q[m])
    PROVE  Taken(Q, R, l)
<1>1. \A m \in Loops : R[m] = IF m = l THEN Tail(Q[l]) ELSE Q[m]
  OBVIOUS
<1>2. Q[l] \in Seq(AllFunctors)
  OBVIOUS
<1>3. Tail(Q[l]) \in Seq(AllFunctors)
  BY <1>2, HasTail
<1>4. R \in [Loops -> Seq(AllFunctors)]
  BY <1>1, <1>3
<1> QED BY <1>1, <1>2, <1>4, HasTail DEF Taken

\* Functors differ in what they do or for whom.
LEMMA FunctorFacts ==
    /\ \A c \in ConnIds : /\ {Establishes(c), Removes(c), Destroys(c)} \subseteq AllFunctors
                          /\ Establishes(c).conn = c /\ Removes(c).conn = c
                          /\ Destroys(c).conn = c /\ c # 0
                          /\ c \in Nat
    /\ Functor("listen", 0) \in AllFunctors /\ Functor("listen", 0).conn = 0
    /\ \A c, d \in ConnIds :
          /\ Establishes(c) = Establishes(d) => c = d
          /\ Removes(c) = Removes(d) => c = d
          /\ Destroys(c) = Destroys(d) => c = d
          /\ Establishes(c) # Removes(d) /\ Establishes(c) # Destroys(d)
          /\ Removes(c) # Destroys(d)
          /\ Functor("listen", 0) \notin {Establishes(c), Removes(c), Destroys(c)}
    /\ \A f \in AllFunctors :
          \/ f = Functor("listen", 0)
          \/ f.conn \in ConnIds /\ f \in {Establishes(f.conn), Removes(f.conn), Destroys(f.conn)}
<1> USE DEF Establishes, Removes, Destroys, Functor, AllFunctors, ConnFunctors
<1>1. \A c \in ConnIds : c # 0 /\ c \in Nat
  BY ServerAssumption DEF ConnIds
<1>2. ASSUME NEW f \in AllFunctors
      PROVE  \/ f = Functor("listen", 0)
             \/ f.conn \in ConnIds /\ f \in {Establishes(f.conn), Removes(f.conn), Destroys(f.conn)}
  OBVIOUS
<1> HIDE DEF AllFunctors
<1>3. \A c \in ConnIds : {Establishes(c), Removes(c), Destroys(c)} \subseteq AllFunctors
  BY DEF AllFunctors
<1>4. Functor("listen", 0) \in AllFunctors
  BY DEF AllFunctors
<1>5. \A c, d \in ConnIds :
          /\ Establishes(c) = Establishes(d) => c = d
          /\ Removes(c) = Removes(d) => c = d
          /\ Destroys(c) = Destroys(d) => c = d
          /\ Establishes(c) # Removes(d) /\ Establishes(c) # Destroys(d)
          /\ Removes(c) # Destroys(d)
          /\ Functor("listen", 0) \notin {Establishes(c), Removes(c), Destroys(c)}
  OBVIOUS
<1>6. \A c \in ConnIds : Establishes(c).conn = c /\ Removes(c).conn = c /\ Destroys(c).conn = c
  OBVIOUS
<1>7. Functor("listen", 0).conn = 0
  OBVIOUS
<1> QED BY ONLY <1>1, <1>2, <1>3, <1>4, <1>5, <1>6, <1>7

-----------------------------------------------------------------------------
(* The map, the functors and the connections' states                       *)

Books == ServerTypeOK /\ IdsOK /\ FunctorsOK /\ ConnsOK

LEMMA Bounds ==
    MaxClients \in Nat /\ MaxStarts \in Nat /\ FdLimit \in Nat /\ MaxOthers \in Nat /\ FdLimit > 0
  BY ServerAssumption

\* What the types say, one by one.
LEMMA Typed ==
    ASSUME ServerTypeOK
    PROVE  /\ numThreads_ \in Nat /\ starts \in Nat /\ backlog \in Nat /\ others \in Nat
           /\ clients \in Nat /\ clients <= MaxClients /\ nextConnId_ \in Nat /\ nextConnId_ > 0
           /\ 0 \in Loops
           /\ queue \in [Loops -> Seq(AllFunctors)]
           /\ \A c \in ConnIds : conn[c].loop \in Loops /\ conn[c].state \in ConnStates
<1>1. numThreads_ \in Nat /\ starts \in Nat /\ backlog \in Nat /\ others \in Nat
  BY DEF ServerTypeOK
<1>2. clients \in 0 .. MaxClients /\ nextConnId_ \in Nat \ {0}
  BY DEF ServerTypeOK
<1>3. clients \in Nat /\ clients <= MaxClients /\ nextConnId_ \in Nat /\ nextConnId_ > 0
  BY <1>2, Bounds
<1>4. 0 \in Loops
  BY <1>1 DEF Loops
<1>5. queue \in [Loops -> Seq(AllFunctors)]
  BY DEF ServerTypeOK
<1>6. conn \in [ConnIds -> [loop : Loops, state : ConnStates]]
  BY DEF ServerTypeOK
<1>7. \A c \in ConnIds : conn[c].loop \in Loops /\ conn[c].state \in ConnStates
  BY <1>6
<1> QED BY <1>1, <1>3, <1>4, <1>5, <1>7

LEMMA BooksInit == ASSUME ServerInit PROVE Books
<1>1. numThreads_ \in Nat
  <2>1. numThreads_ \in ThreadNums
    BY DEF ServerInit
  <2> QED BY <2>1, ServerAssumption
<1>2. 0 \in Loops
  BY <1>1 DEF Loops
<1>3. conn = [c \in ConnIds |-> [loop |-> 0, state |-> "none"]] /\ queue = [l \in Loops |-> <<>>]
  BY DEF ServerInit, Loops
<1>4. conn \in [ConnIds -> [loop : Loops, state : ConnStates]] /\ queue \in [Loops -> Seq(AllFunctors)]
  BY <1>2, <1>3 DEF ConnStates
<1>5. /\ starts \in Nat /\ listenning_ \in BOOLEAN /\ backlog \in Nat /\ clients \in 0 .. MaxClients
      /\ base \in BaseStates /\ idleFd_ \in {"null device", "socket", "none"} /\ others \in Nat
      /\ taken \in BOOLEAN /\ nextConnId_ \in Nat \ {0} /\ next_ = 0
  <2>1. /\ starts = 0 /\ listenning_ = FALSE /\ backlog = 0 /\ clients = 0 /\ base = "idle"
        /\ idleFd_ = "null device" /\ others = 0 /\ taken = FALSE /\ nextConnId_ = 1 /\ next_ = 0
    BY DEF ServerInit
  <2>2. 0 \in 0 .. MaxClients /\ 1 \in Nat \ {0}
    BY Bounds
  <2> QED BY <2>1, <2>2 DEF BaseStates
<1>6. ServerTypeOK
  BY <1>1, <1>4, <1>5 DEF ServerTypeOK
<1>7. IdsOK
  <2>1. nextConnId_ = 1 /\ backlog = 0 /\ clients = 0
    BY DEF ServerInit
  <2> QED BY <1>3, <2>1 DEF IdsOK
<1>8. \A l \in Loops : Once(queue[l]) /\ \A g : ~Has(queue[l], g)
  BY <1>3 DEF Has, Once
<1>9. FunctorsOK
  BY <1>8 DEF FunctorsOK
<1>10. connections_ = {}
  BY DEF ServerInit
<1>11. ConnsOK
  BY <1>3, <1>10 DEF ConnsOK
<1> QED BY <1>6, <1>7, <1>9, <1>11 DEF Books

\* Connections and waiting clients never outnumber the clients that came.
LEMMA Fewer ==
    \A n, b, c, bb, cc \in Nat : n + b <= c + 1 /\ bb - cc <= b - c => n + bb <= cc + 1
  OBVIOUS

\* Steps that leave the connections and the queues alone.
LEMMA BooksUntouched ==
    ASSUME Books, ServerTypeOK', UNCHANGED <<numThreads_, conn, queue, connections_, nextConnId_>>,
           backlog' - clients' <= backlog - clients
    PROVE  Books'
<1>1. IdsOK'
  <2>1. backlog \in Nat /\ clients \in Nat /\ nextConnId_ \in Nat /\ nextConnId_' = nextConnId_
    BY Typed DEF Books
  <2>4. clients' \in 0 .. MaxClients
    BY DEF ServerTypeOK
  <2>5. backlog' \in Nat /\ clients' \in Nat
    <3>1. backlog' \in Nat
      BY DEF ServerTypeOK
    <3> QED BY ONLY <2>4, <3>1, Bounds
  <2>6. backlog' - clients' <= backlog - clients
    OBVIOUS
  <2>2. nextConnId_ + backlog <= clients + 1
    BY DEF Books, IdsOK
  <2>3. nextConnId_' + backlog' <= clients' + 1
    BY ONLY <2>1, <2>2, <2>5, <2>6, Fewer
  <2> QED BY <2>3 DEF Books, IdsOK
<1>2. FunctorsOK'
  BY DEF Books, FunctorsOK, Loops
<1>3. ConnsOK'
  BY DEF Books, ConnsOK
<1> QED BY <1>1, <1>2, <1>3 DEF Books

\* The world outside, the Acceptor's EMFILE branch and the start of the server.
Quiet ==
    \/ ClientConnects \/ ClientAborts \/ OtherOpens \/ OtherCloses \/ Start \/ StartListens
    \/ GiveUpReserve \/ AcceptIntoReserve \/ CloseRefused \/ RestoreReserve

LEMMA BooksQuiet == ASSUME Books, Quiet PROVE Books'
<1>1. UNCHANGED <<numThreads_, conn, queue, connections_, nextConnId_, next_>>
  BY DEF Quiet, ClientConnects, ClientAborts, OtherOpens, OtherCloses, Start, StartListens,
         GiveUpReserve, AcceptIntoReserve, CloseRefused, RestoreReserve
<1>2. \/ clients < MaxClients /\ clients' = clients + 1 /\ backlog' = backlog + 1
      \/ backlog > 0 /\ backlog' = backlog - 1 /\ clients' = clients
      \/ UNCHANGED <<backlog, clients>>
  BY DEF Quiet, ClientConnects, ClientAborts, OtherOpens, OtherCloses, Start, StartListens,
         GiveUpReserve, AcceptIntoReserve, CloseRefused, RestoreReserve
<1>3. /\ others' = others \/ others' = others + 1 \/ (others > 0 /\ others' = others - 1)
      /\ starts' = starts \/ starts' = 1
  BY DEF Quiet, ClientConnects, ClientAborts, OtherOpens, OtherCloses, Start, StartListens,
         GiveUpReserve, AcceptIntoReserve, CloseRefused, RestoreReserve
<1>4. clients' \in 0 .. MaxClients /\ backlog' \in Nat /\ backlog' - clients' <= backlog - clients
  BY <1>2, Typed, Bounds DEF Books
<1>5. others' \in Nat /\ starts' \in Nat
  BY <1>3, Typed DEF Books
<1>6. taken' \in BOOLEAN /\ listenning_' \in BOOLEAN
  BY Zenon DEF Books, ServerTypeOK, Quiet, ClientConnects, ClientAborts, OtherOpens, OtherCloses,
         Start, StartListens, GiveUpReserve, AcceptIntoReserve, CloseRefused, RestoreReserve
<1>7. base' \in BaseStates /\ idleFd_' \in {"null device", "socket", "none"}
  BY DEF Books, ServerTypeOK, BaseStates, Quiet, ClientConnects, ClientAborts, OtherOpens,
         OtherCloses, Start, StartListens, GiveUpReserve, AcceptIntoReserve, CloseRefused,
         RestoreReserve
<1>8. ServerTypeOK'
  BY <1>1, <1>4, <1>5, <1>6, <1>7 DEF Books, ServerTypeOK, Loops
<1> QED BY <1>1, <1>4, <1>8, BooksUntouched

\* No connection has a functor more or less.
LEMMA BooksSame ==
    ASSUME Books, ServerTypeOK', IdsOK', UNCHANGED <<numThreads_, conn, connections_>>,
           \A m \in Loops : Once(queue'[m]),
           \A c \in ConnIds : \A g \in {Establishes(c), Removes(c), Destroys(c)} :
               \A m \in Loops : Has(queue'[m], g) <=> Has(queue[m], g)
    PROVE  Books'
<1>1. Loops' = Loops /\ 0 \in Loops /\ \A c \in ConnIds : conn[c].loop \in Loops
  BY Typed DEF Books, Loops
<1>2. FunctorsOK'
  BY <1>1 DEF Books, FunctorsOK
<1>3. ConnsOK'
  BY <1>1 DEF Books, ConnsOK
<1> QED BY <1>2, <1>3 DEF Books

LEMMA BooksStartAgain == ASSUME Books, StartAgain PROVE Books'
<1>1. /\ UNCHANGED <<numThreads_, listenning_, backlog, clients, base, idleFd_, others, taken,
                     nextConnId_, next_, connections_, conn>>
      /\ Loops' = Loops
      /\ starts' \in Nat
  <2>1. starts' = starts + 1
    BY DEF StartAgain
  <2> QED BY <2>1, Typed DEF Books, StartAgain, Loops
<1>2. CASE listenning_
  <2>1. queue' = queue
    BY <1>2 DEF StartAgain
  <2>2. ServerTypeOK'
    BY <1>1, <2>1 DEF Books, ServerTypeOK
  <2>3. backlog \in Nat /\ clients \in Nat
    BY Typed DEF Books
  <2> QED BY <1>1, <2>1, <2>2, <2>3, BooksUntouched
<1>3. CASE ~listenning_
  <2> DEFINE f == Functor("listen", 0)
  <2>1. 0 \in Loops /\ queue \in [Loops -> Seq(AllFunctors)] /\ \A m \in Loops : Once(queue[m])
    BY Typed DEF Books, FunctorsOK
  <2>2. queue' = [queue EXCEPT ![0] = Append(@, f)]
    BY <1>3 DEF StartAgain
  <2>3. f \in AllFunctors /\ f.conn = 0
    BY FunctorFacts
  <2> HIDE DEF f
  <2>11. Appended(queue, queue', 0, f)
    BY <2>1, <2>2, <2>3, QueuesAppend
  <2>4. /\ queue' \in [Loops -> Seq(AllFunctors)]
        /\ \A m \in Loops : Once(queue'[m])
        /\ \A m \in Loops : \A g : Has(queue'[m], g) <=> Has(queue[m], g) \/ (m = 0 /\ g = f)
    BY <2>11 DEF Appended
  <2>5. ServerTypeOK'
    BY <1>1, <2>4 DEF Books, ServerTypeOK
  <2>6. IdsOK'
    BY <1>1 DEF Books, IdsOK
  <2>7. \A c \in ConnIds : \A g \in {Establishes(c), Removes(c), Destroys(c)} :
            \A m \in Loops : Has(queue'[m], g) <=> Has(queue[m], g)
    BY <2>4, FunctorFacts DEF f
  <2> QED BY <1>1, <2>4, <2>5, <2>6, <2>7, BooksSame
<1> QED BY <1>2, <1>3

\* One connection goes to state s in loop k; the queues and the map follow it.
Moves(c, k, s) ==
    /\ conn' = [conn EXCEPT ![c] = [loop |-> k, state |-> s]]
    /\ \A d \in ConnIds \ {c} : d \in connections_' <=> d \in connections_
    /\ \A m \in Loops : Once(queue'[m])
    /\ \A d \in ConnIds \ {c} : \A g \in {Establishes(d), Removes(d), Destroys(d)} :
           \A m \in Loops : Has(queue'[m], g) <=> Has(queue[m], g)
    /\ \A m \in Loops :
           /\ Has(queue'[m], Establishes(c)) <=> m = k /\ s = "connecting"
           /\ Has(queue'[m], Removes(c)) <=> m = 0 /\ s = "closed" /\ c \in connections_'
           /\ Has(queue'[m], Destroys(c)) <=> m = k /\ s = "closed" /\ c \notin connections_'
    /\ s \in {"connecting", "up"} => c \in connections_'
    /\ c \in connections_' => s \in {"connecting", "up", "closed"}

LEMMA BooksMove ==
    ASSUME Books, NEW c \in ConnIds, NEW s \in ConnStates, NEW k \in Loops,
           ServerTypeOK', IdsOK', UNCHANGED numThreads_, Moves(c, k, s)
    PROVE  Books'
<1>1. /\ Loops' = Loops /\ 0 \in Loops
      /\ \A d \in ConnIds : conn[d].loop \in Loops
      /\ conn'[c].loop = k /\ conn'[c].state = s
      /\ \A d \in ConnIds \ {c} : conn'[d] = conn[d] /\ (d \in connections_' <=> d \in connections_)
  <2>1. conn \in [ConnIds -> [loop : Loops, state : ConnStates]] /\ Loops' = Loops
    BY DEF Books, ServerTypeOK, Loops
  <2> QED BY <2>1, Typed DEF Books, Moves
<1>2. FunctorsOK'
  <2> SUFFICES ASSUME NEW l \in Loops, NEW d \in ConnIds
               PROVE  /\ Has(queue'[l], Establishes(d)) =>
                            l = conn'[d].loop /\ conn'[d].state = "connecting"
                      /\ Has(queue'[l], Removes(d)) =>
                            l = 0 /\ conn'[d].state = "closed" /\ d \in connections_'
                      /\ Has(queue'[l], Destroys(d)) =>
                            l = conn'[d].loop /\ conn'[d].state = "closed" /\ d \notin connections_'
    BY <1>1 DEF FunctorsOK, Moves
  <2>1. CASE d = c
    BY <1>1, <2>1 DEF Moves
  <2>2. CASE d # c
    BY <1>1, <2>2 DEF Books, FunctorsOK, Moves
  <2> QED BY <2>1, <2>2
<1>3. ConnsOK'
  <2> SUFFICES ASSUME NEW d \in ConnIds
               PROVE  /\ conn'[d].state = "connecting" => Has(queue'[conn'[d].loop], Establishes(d))
                      /\ conn'[d].state = "closed" =>
                            \/ Has(queue'[0], Removes(d))
                            \/ Has(queue'[conn'[d].loop], Destroys(d))
                      /\ conn'[d].state \in {"connecting", "up"} => d \in connections_'
                      /\ d \in connections_' =>
                            \/ conn'[d].state \in {"connecting", "up"}
                            \/ Has(queue'[0], Removes(d))
    BY DEF ConnsOK
  <2>1. CASE d = c
    BY <1>1, <2>1 DEF Moves
  <2>2. CASE d # c
    BY <1>1, <2>2 DEF Books, ConnsOK, Moves
  <2> QED BY <2>1, <2>2
<1> QED BY <1>2, <1>3 DEF Books

\* The functor's name says what it is.
LEMMA NameIs ==
    ASSUME NEW f \in AllFunctors
    PROVE  /\ f.name = "listen" => f = Functor("listen", 0)
           /\ f.name = "connectEstablished" => f = Establishes(f.conn) /\ f.conn \in ConnIds
           /\ f.name = "removeConnectionInLoop" => f = Removes(f.conn) /\ f.conn \in ConnIds
           /\ f.name = "connectDestroyed" => f = Destroys(f.conn) /\ f.conn \in ConnIds
  BY DEF AllFunctors, ConnFunctors, Functor, Establishes, Removes, Destroys

\* An established connection, or one that is only pointed to, has no functor, and
\* a connection has one of them at most.
LEMMA NoFunctors ==
    ASSUME Books, NEW c \in ConnIds
    PROVE  /\ conn[c].state \notin {"connecting", "closed"} =>
                 \A m \in Loops : \A g \in {Establishes(c), Removes(c), Destroys(c)} :
                     ~Has(queue[m], g)
           /\ conn[c].state = "connecting" =>
                 \A m \in Loops : /\ ~Has(queue[m], Removes(c)) /\ ~Has(queue[m], Destroys(c))
                                  /\ m # conn[c].loop => ~Has(queue[m], Establishes(c))
           /\ conn[c].state = "closed" =>
                 \A m \in Loops : /\ ~Has(queue[m], Establishes(c))
                                  /\ m # 0 \/ c \notin connections_ => ~Has(queue[m], Removes(c))
                                  /\ m # conn[c].loop \/ c \in connections_ =>
                                        ~Has(queue[m], Destroys(c))
           /\ conn[c].state \in {"up", "connecting"} => c \in connections_
           /\ conn[c].state \in {"none", "held"} => c \notin connections_
<1>1. 0 \in Loops
  BY Typed DEF Books
<1> QED BY <1>1 DEF Books, FunctorsOK, ConnsOK

\* A connection's record is its loop and its state.
LEMMA SetStateIs ==
    ASSUME ServerTypeOK, NEW c \in ConnIds, NEW s \in ConnStates
    PROVE  /\ SetState(c, s) = [conn EXCEPT ![c] = [loop |-> conn[c].loop, state |-> s]]
           /\ conn = [conn EXCEPT ![c] = [loop |-> conn[c].loop, state |-> conn[c].state]]
<1>1. conn \in [ConnIds -> [loop : Loops, state : ConnStates]]
  BY DEF ServerTypeOK
<1>2. conn[c] = [loop |-> conn[c].loop, state |-> conn[c].state]
  BY <1>1
<1>3. SetState(c, s) = [conn EXCEPT ![c] = [loop |-> conn[c].loop, state |-> s]]
  <2>1. [conn[c] EXCEPT !.state = s] = [loop |-> conn[c].loop, state |-> s]
    BY <1>2
  <2>2. SetState(c, s) = [conn EXCEPT ![c] = [conn[c] EXCEPT !.state = s]]
    BY DEF SetState
  <2> QED BY <2>1, <2>2
<1>4. conn = [conn EXCEPT ![c] = conn[c]]
  BY <1>1
<1> QED BY <1>2, <1>3, <1>4

\* A connection that exists moves, and nothing else but the queues does.
LEMMA MoveTypes ==
    ASSUME Books, NEW c \in ConnIds, NEW s \in ConnStates, NEW k \in Loops,
           conn' = [conn EXCEPT ![c] = [loop |-> k, state |-> s]], conn[c].state # "none",
           queue' \in [Loops -> Seq(AllFunctors)], listenning_' \in BOOLEAN,
           UNCHANGED <<numThreads_, starts, backlog, clients, base, idleFd_, others, taken,
                       nextConnId_, next_>>
    PROVE  ServerTypeOK' /\ IdsOK'
<1>1. conn' \in [ConnIds -> [loop : Loops, state : ConnStates]]
  BY DEF Books, ServerTypeOK
<1>2. ServerTypeOK'
  BY <1>1 DEF Books, ServerTypeOK, Loops
<1>3. \A d \in ConnIds : d # c => conn'[d] = conn[d]
  BY DEF Books, ServerTypeOK
<1>4. IdsOK'
  BY <1>3 DEF Books, IdsOK
<1> QED BY <1>2, <1>4

\* A functor about c is not about another connection.
LEMMA OtherFunctors ==
    ASSUME NEW c \in ConnIds, NEW d \in ConnIds \ {c},
           NEW f \in {Establishes(c), Removes(c), Destroys(c)},
           NEW g \in {Establishes(d), Removes(d), Destroys(d)}
    PROVE  f # g
  BY DEF Establishes, Removes, Destroys, Functor

LEMMA BooksHandleClose == ASSUME Books, NEW c \in ConnIds, HandleClose(c) PROVE Books'
<1> DEFINE k == conn[c].loop
<1>1. conn[c].state = "up" /\ k \in Loops /\ 0 \in Loops /\ "closed" \in ConnStates
  BY Typed DEF Books, HandleClose, ConnStates
<1>2. conn' = [conn EXCEPT ![c] = [loop |-> k, state |-> "closed"]]
  BY <1>1, SetStateIs DEF Books, HandleClose
<1>3. UNCHANGED <<numThreads_, starts, listenning_, backlog, clients, base, idleFd_, others, taken,
                  nextConnId_, next_>>
  BY DEF HandleClose
<1>4. /\ \A m \in Loops : \A g \in {Establishes(c), Removes(c), Destroys(c)} : ~Has(queue[m], g)
      /\ c \in connections_
  BY <1>1, NoFunctors
<1>5. queue \in [Loops -> Seq(AllFunctors)] /\ \A m \in Loops : Once(queue[m])
  BY Typed DEF Books, FunctorsOK
<1>6. CASE k = 0
  <2>1. connections_' = connections_ \ {c} /\ queue' = [queue EXCEPT ![0] = Append(@, Destroys(c))]
    BY <1>6 DEF HandleClose, RemoveConnection, RemoveConnectionInLoop, Destroys
  <2>2. Appended(queue, queue', 0, Destroys(c))
    BY <1>1, <1>4, <1>5, <2>1, FunctorFacts, QueuesAppend
  <2>3. ServerTypeOK' /\ IdsOK'
    BY <1>1, <1>2, <1>3, <2>2, MoveTypes DEF Appended, Books, ServerTypeOK
  <2>4. \A d \in ConnIds \ {c} : \A g \in {Establishes(d), Removes(d), Destroys(d)} :
            \A m \in Loops : Has(queue'[m], g) <=> Has(queue[m], g)
    BY <2>2, OtherFunctors DEF Appended
  <2>5. \A m \in Loops : /\ ~Has(queue'[m], Establishes(c)) /\ ~Has(queue'[m], Removes(c))
                         /\ Has(queue'[m], Destroys(c)) <=> m = k
    BY <1>4, <1>6, <2>2, FunctorFacts DEF Appended
  <2>6. \A m \in Loops : Once(queue'[m])
    BY <2>2 DEF Appended
  <2>7. (\A d \in ConnIds \ {c} : d \in connections_' <=> d \in connections_) /\ c \notin connections_'
    BY <2>1
  <2>8. Moves(c, k, "closed")
    BY <1>2, <2>4, <2>5, <2>6, <2>7 DEF Moves
  <2> QED BY <1>1, <1>3, <2>3, <2>8, BooksMove
<1>7. CASE k # 0
  <2>1. connections_' = connections_ /\ queue' = [queue EXCEPT ![0] = Append(@, Removes(c))]
    BY <1>7 DEF HandleClose, RemoveConnection, Removes
  <2>2. Appended(queue, queue', 0, Removes(c))
    BY <1>1, <1>4, <1>5, <2>1, FunctorFacts, QueuesAppend
  <2>3. ServerTypeOK' /\ IdsOK'
    BY <1>1, <1>2, <1>3, <2>2, MoveTypes DEF Appended, Books, ServerTypeOK
  <2>4. \A d \in ConnIds \ {c} : \A g \in {Establishes(d), Removes(d), Destroys(d)} :
            \A m \in Loops : Has(queue'[m], g) <=> Has(queue[m], g)
    BY <2>2, OtherFunctors DEF Appended
  <2>5. \A m \in Loops : /\ ~Has(queue'[m], Establishes(c)) /\ ~Has(queue'[m], Destroys(c))
                         /\ Has(queue'[m], Removes(c)) <=> m = 0
    BY <1>4, <2>2, FunctorFacts DEF Appended
  <2>6. \A m \in Loops : Once(queue'[m])
    BY <2>2 DEF Appended
  <2>7. Moves(c, k, "closed")
    BY <1>2, <1>4, <2>1, <2>4, <2>5, <2>6 DEF Moves
  <2> QED BY <1>1, <1>3, <2>3, <2>7, BooksMove
<1> QED BY <1>6, <1>7

LEMMA BooksLastPointerDropped ==
    ASSUME Books, NEW c \in ConnIds, LastPointerDropped(c) PROVE Books'
<1> DEFINE k == conn[c].loop
<1>1. conn[c].state = "held" /\ k \in Loops /\ "none" \in ConnStates
  BY Typed DEF Books, LastPointerDropped, ConnStates
<1>2. conn' = [conn EXCEPT ![c] = [loop |-> k, state |-> "none"]]
  BY <1>1, SetStateIs DEF Books, LastPointerDropped
<1>3. UNCHANGED <<numThreads_, starts, listenning_, backlog, clients, base, idleFd_, others, taken,
                  nextConnId_, next_, connections_, queue>>
  BY DEF LastPointerDropped
<1>4. /\ \A m \in Loops : \A g \in {Establishes(c), Removes(c), Destroys(c)} : ~Has(queue[m], g)
      /\ c \notin connections_
  BY <1>1, NoFunctors
<1>5. \A m \in Loops : Once(queue'[m])
  BY <1>3 DEF Books, FunctorsOK
<1>6. ServerTypeOK' /\ IdsOK'
  <2>1. queue' \in [Loops -> Seq(AllFunctors)] /\ listenning_' \in BOOLEAN
    BY <1>3 DEF Books, ServerTypeOK
  <2> QED BY <1>1, <1>2, <1>3, <2>1, MoveTypes
<1>7. Moves(c, k, "none")
  BY <1>2, <1>3, <1>4, <1>5 DEF Moves
<1> QED BY <1>1, <1>3, <1>6, <1>7, BooksMove

LEMMA BooksRunFunctor == ASSUME Books, NEW l \in Loops, RunFunctor(l) PROVE Books'
<1> DEFINE f    == Head(queue[l])
           rest == [queue EXCEPT ![l] = Tail(@)]
           c    == f.conn
           k    == conn[c].loop
<1>1. /\ 0 \in Loops /\ queue \in [Loops -> Seq(AllFunctors)] /\ \A m \in Loops : Once(queue[m])
      /\ queue[l] # <<>>
      /\ \A d \in ConnIds : conn[d].loop \in Loops
  BY Typed DEF Books, FunctorsOK, RunFunctor
<1>2. Taken(queue, rest, l)
  BY <1>1, QueuesTail
<1>3. UNCHANGED <<numThreads_, starts, backlog, clients, base, idleFd_, others, taken, nextConnId_,
                  next_>>
  BY DEF RunFunctor
<1>4. f \in AllFunctors /\ Has(queue[l], f)
  BY <1>2 DEF Taken
<1>5. listenning_ \in BOOLEAN
  BY DEF Books, ServerTypeOK
<1>6. {"up", "held", "closed"} \subseteq ConnStates
  BY DEF ConnStates
<1>7. \/ /\ f.name = "listen"
         /\ listenning_' = TRUE /\ queue' = rest /\ UNCHANGED <<connections_, conn>>
      \/ /\ f.name = "connectEstablished"
         /\ conn' = SetState(c, "up") /\ queue' = rest /\ UNCHANGED <<listenning_, connections_>>
      \/ /\ f.name = "removeConnectionInLoop"
         /\ RemoveConnectionInLoop(c, rest) /\ UNCHANGED <<listenning_, conn>>
      \/ /\ f.name = "connectDestroyed"
         /\ conn' = SetState(c, "held") /\ queue' = rest /\ UNCHANGED <<listenning_, connections_>>
  BY DEF RunFunctor
<1> HIDE DEF f, rest
<1>8. CASE f.name = "listen"
  <2>1. /\ listenning_' = TRUE /\ queue' = rest /\ UNCHANGED <<connections_, conn>>
        /\ f = Functor("listen", 0)
    BY <1>4, <1>7, <1>8, NameIs
  <2>2. ServerTypeOK'
    BY <1>2, <1>3, <2>1 DEF Taken, Books, ServerTypeOK, Loops
  <2>3. IdsOK'
    BY <1>3, <2>1 DEF Books, IdsOK
  <2>4. \A d \in ConnIds : \A g \in {Establishes(d), Removes(d), Destroys(d)} :
            \A m \in Loops : Has(queue'[m], g) <=> Has(queue[m], g)
    BY <1>2, <2>1, FunctorFacts DEF Taken, f
  <2>5. \A m \in Loops : Once(queue'[m])
    BY <1>2, <2>1 DEF Taken
  <2> QED BY <1>3, <2>1, <2>2, <2>3, <2>4, <2>5, BooksSame
\* What the queues hold about other connections, and about c, without f.
<1>9. ASSUME f \in {Establishes(c), Removes(c), Destroys(c)}, c \in ConnIds
      PROVE  /\ \A d \in ConnIds \ {c} : \A g \in {Establishes(d), Removes(d), Destroys(d)} :
                    \A m \in Loops : Has(rest[m], g) <=> Has(queue[m], g)
             /\ ~Has(rest[l], f)
             /\ \A m \in Loops : \A g : Has(rest[m], g) => Has(queue[m], g)
  <2>1. f.conn # 0
    BY <1>9, FunctorFacts
  <2> QED BY <1>2, <1>9, <2>1, OtherFunctors DEF Taken, f
<1>10. CASE f.name = "connectEstablished"
  <2>1. /\ conn' = SetState(c, "up") /\ queue' = rest /\ UNCHANGED <<listenning_, connections_>>
        /\ f = Establishes(c) /\ c \in ConnIds
    BY <1>4, <1>7, <1>10, NameIs
  <2>2. l = k /\ conn[c].state = "connecting"
    BY <1>4, <2>1 DEF Books, FunctorsOK
  <2>3. conn' = [conn EXCEPT ![c] = [loop |-> k, state |-> "up"]] /\ k \in Loops
    BY <1>1, <1>6, <2>1, SetStateIs DEF Books
  <2>4. \A m \in Loops : \A g \in {Establishes(c), Removes(c), Destroys(c)} : ~Has(queue'[m], g)
    BY <1>9, <2>1, <2>2, NoFunctors
  <2>5. c \in connections_
    BY <2>1, <2>2, NoFunctors
  <2>6. Moves(c, k, "up")
    BY <1>2, <1>9, <2>1, <2>3, <2>4, <2>5 DEF Moves, Taken
  <2>7. ServerTypeOK' /\ IdsOK'
    <3>1. queue' \in [Loops -> Seq(AllFunctors)] /\ listenning_' \in BOOLEAN /\ conn[c].state # "none"
      BY <1>2, <1>5, <2>1, <2>2 DEF Taken
    <3> QED BY <1>3, <1>6, <2>1, <2>3, <3>1, MoveTypes
  <2> QED BY <1>3, <1>6, <2>1, <2>3, <2>6, <2>7, BooksMove
<1>11. CASE f.name = "removeConnectionInLoop"
  <2>1. /\ connections_' = connections_ \ {c}
        /\ queue' = [rest EXCEPT ![k] = Append(@, Destroys(c))]
        /\ UNCHANGED <<listenning_, conn>>
        /\ f = Removes(c) /\ c \in ConnIds
    BY <1>4, <1>7, <1>11, NameIs DEF RemoveConnectionInLoop, Destroys
  <2>2. l = 0 /\ conn[c].state = "closed" /\ c \in connections_
    BY <1>4, <2>1 DEF Books, FunctorsOK
  <2>3. conn' = [conn EXCEPT ![c] = [loop |-> k, state |-> "closed"]] /\ k \in Loops
    BY <1>1, <1>6, <2>1, <2>2, SetStateIs DEF Books
  <2>4. \A m \in Loops : \A g \in {Establishes(c), Removes(c), Destroys(c)} : ~Has(rest[m], g)
    <3>1. \A m \in Loops : ~Has(queue[m], Establishes(c)) /\ ~Has(queue[m], Destroys(c))
      BY <2>1, <2>2, NoFunctors
    <3>2. \A m \in Loops : m # l => ~Has(queue[m], Removes(c))
      BY <2>1, <2>2, NoFunctors
    <3>3. ~Has(rest[l], Removes(c))
      BY <1>9, <2>1
    <3> QED BY <1>9, <2>1, <3>1, <3>2, <3>3
  <2>5. Appended(rest, queue', k, Destroys(c))
    <3>1. rest \in [Loops -> Seq(AllFunctors)] /\ \A m \in Loops : Once(rest[m])
      BY <1>2 DEF Taken
    <3> QED BY <2>1, <2>3, <2>4, <3>1, FunctorFacts, QueuesAppend
  <2>6. \A d \in ConnIds \ {c} : \A g \in {Establishes(d), Removes(d), Destroys(d)} :
            \A m \in Loops : Has(queue'[m], g) <=> Has(queue[m], g)
    BY <1>9, <2>1, <2>5, OtherFunctors DEF Appended
  <2>7. \A m \in Loops : /\ ~Has(queue'[m], Establishes(c)) /\ ~Has(queue'[m], Removes(c))
                         /\ Has(queue'[m], Destroys(c)) <=> m = k
    BY <2>1, <2>4, <2>5, FunctorFacts DEF Appended
  <2>8. \A m \in Loops : Once(queue'[m])
    BY <2>5 DEF Appended
  <2>9. (\A d \in ConnIds \ {c} : d \in connections_' <=> d \in connections_) /\ c \notin connections_'
    BY <2>1
  <2>10. Moves(c, k, "closed")
    BY <2>3, <2>6, <2>7, <2>8, <2>9 DEF Moves
  <2>11. ServerTypeOK' /\ IdsOK'
    <3>1. queue' \in [Loops -> Seq(AllFunctors)] /\ listenning_' \in BOOLEAN /\ conn[c].state # "none"
      BY <1>5, <2>1, <2>2, <2>5 DEF Appended
    <3> QED BY <1>3, <1>6, <2>1, <2>3, <3>1, MoveTypes
  <2> QED BY <1>3, <1>6, <2>1, <2>3, <2>10, <2>11, BooksMove
<1>12. CASE f.name = "connectDestroyed"
  <2>1. /\ conn' = SetState(c, "held") /\ queue' = rest /\ UNCHANGED <<listenning_, connections_>>
        /\ f = Destroys(c) /\ c \in ConnIds
    BY <1>4, <1>7, <1>12, NameIs
  <2>2. l = k /\ conn[c].state = "closed" /\ c \notin connections_
    BY <1>4, <2>1 DEF Books, FunctorsOK
  <2>3. conn' = [conn EXCEPT ![c] = [loop |-> k, state |-> "held"]] /\ k \in Loops
    BY <1>1, <1>6, <2>1, SetStateIs DEF Books
  <2>4. \A m \in Loops : \A g \in {Establishes(c), Removes(c), Destroys(c)} : ~Has(queue'[m], g)
    BY <1>9, <2>1, <2>2, NoFunctors
  <2>5. Moves(c, k, "held")
    BY <1>2, <1>9, <2>1, <2>2, <2>3, <2>4 DEF Moves, Taken
  <2>6. ServerTypeOK' /\ IdsOK'
    <3>1. queue' \in [Loops -> Seq(AllFunctors)] /\ listenning_' \in BOOLEAN /\ conn[c].state # "none"
      BY <1>2, <1>5, <2>1, <2>2 DEF Taken
    <3> QED BY <1>3, <1>6, <2>1, <2>3, <3>1, MoveTypes
  <2> QED BY <1>3, <1>6, <2>1, <2>3, <2>5, <2>6, BooksMove
<1> QED BY <1>7, <1>8, <1>10, <1>11, <1>12

\* A waiting client finds an unused connection id, and getNextLoop a loop.
LEMMA NewIds ==
    ASSUME Books, backlog > 0
    PROVE  /\ nextConnId_ \in ConnIds /\ conn[nextConnId_].state = "none"
           /\ GetNextLoop \in Loops
           /\ numThreads_ # 0 => NextAfter(next_) \in Nat /\ NextAfter(next_) < numThreads_
<1>1. /\ nextConnId_ \in Nat /\ nextConnId_ > 0 /\ backlog \in Nat /\ clients \in Nat
      /\ clients <= MaxClients /\ MaxClients \in Nat /\ nextConnId_ + backlog <= clients + 1
  BY Typed, Bounds DEF Books, IdsOK
<1>2. \A n, b, c, x \in Nat : n + b <= c + 1 /\ b > 0 /\ c <= x => n <= x
  OBVIOUS
<1>3. nextConnId_ <= MaxClients
  BY <1>1, <1>2
<1>4. nextConnId_ \in ConnIds
  BY <1>1, <1>3 DEF ConnIds
<1>5. conn[nextConnId_].state = "none"
  BY <1>1, <1>4 DEF Books, IdsOK
<1>6. numThreads_ \in Nat /\ next_ \in Nat /\ (numThreads_ > 0 => next_ < numThreads_)
  BY DEF Books, ServerTypeOK
<1>7. GetNextLoop \in Loops
  BY <1>6 DEF GetNextLoop, Loops
<1>8. numThreads_ # 0 => NextAfter(next_) \in Nat /\ NextAfter(next_) < numThreads_
  BY <1>6 DEF NextAfter
<1> QED BY <1>4, <1>5, <1>7, <1>8

LEMMA BooksAccept == ASSUME Books, Accept PROVE Books'
<1> DEFINE c == nextConnId_
           k == GetNextLoop
<1>1. backlog > 0 /\ backlog' = backlog - 1
  BY DEF Accept
<1>2. /\ c \in ConnIds /\ conn[c].state = "none" /\ k \in Loops
      /\ numThreads_ # 0 => NextAfter(next_) \in Nat /\ NextAfter(next_) < numThreads_
  BY <1>1, NewIds
<1>3. /\ UNCHANGED <<numThreads_, starts, listenning_, clients, base, idleFd_, others, taken>>
      /\ nextConnId_' = c + 1
      /\ next_' = IF numThreads_ = 0 THEN next_ ELSE NextAfter(next_)
      /\ connections_' = connections_ \cup {c}
  BY DEF Accept, NewConnection
<1>4. /\ k = 0 => conn' = [conn EXCEPT ![c] = [loop |-> k, state |-> "up"]] /\ queue' = queue
      /\ k # 0 => /\ conn' = [conn EXCEPT ![c] = [loop |-> k, state |-> "connecting"]]
                  /\ queue' = [queue EXCEPT ![k] = Append(@, Establishes(c))]
  BY DEF Accept, NewConnection, Establishes
<1>5. queue \in [Loops -> Seq(AllFunctors)] /\ \A m \in Loops : Once(queue[m])
  BY Typed DEF Books, FunctorsOK
<1>6. \A m \in Loops : \A g \in {Establishes(c), Removes(c), Destroys(c)} : ~Has(queue[m], g)
  BY <1>2, NoFunctors
<1>7. /\ nextConnId_ \in Nat /\ nextConnId_ > 0 /\ backlog \in Nat /\ clients \in Nat
      /\ numThreads_ \in Nat /\ next_ \in Nat
      /\ nextConnId_ + backlog <= clients + 1
  BY Typed DEF Books, IdsOK, ServerTypeOK
<1>8. c \in connections_' /\ \A d \in ConnIds \ {c} : d \in connections_' <=> d \in connections_
  BY <1>3
<1> HIDE DEF c, k
\* Of the types and the ids only this much depends on the loop.
<1>9. ASSUME NEW s \in ConnStates, conn' = [conn EXCEPT ![c] = [loop |-> k, state |-> s]],
             queue' \in [Loops -> Seq(AllFunctors)]
      PROVE  ServerTypeOK' /\ IdsOK'
  <2>1. conn' \in [ConnIds -> [loop : Loops, state : ConnStates]]
    BY <1>2, <1>9 DEF Books, ServerTypeOK
  <2>2. backlog' \in Nat /\ nextConnId_' \in Nat \ {0}
    BY <1>1, <1>3, <1>7 DEF c
  <2>3. next_' \in Nat /\ (numThreads_ > 0 => next_' < numThreads_)
    BY <1>2, <1>3, <1>7 DEF Books, ServerTypeOK
  <2>4. ServerTypeOK'
    BY <1>3, <1>9, <2>1, <2>2, <2>3 DEF Books, ServerTypeOK, Loops
  <2>5. nextConnId_' + backlog' <= clients' + 1
    <3>1. \A n, b, m \in Nat : n + b <= m + 1 => (n + 1) + (b - 1) <= m + 1
      OBVIOUS
    <3> QED BY <1>1, <1>3, <1>7, <3>1 DEF c
  <2>6. \A d \in ConnIds : d >= nextConnId_' => d >= nextConnId_ /\ d # c
    BY <1>3, <1>7, Bounds DEF c, ConnIds
  <2>7. \A d \in ConnIds : d # c => conn'[d] = conn[d]
    BY <1>9 DEF Books, ServerTypeOK
  <2>8. IdsOK'
    BY <2>5, <2>6, <2>7 DEF Books, IdsOK
  <2> QED BY <2>4, <2>8
<1>10. "up" \in ConnStates /\ "connecting" \in ConnStates
  BY DEF ConnStates
<1>11. CASE k = 0
  <2>1. conn' = [conn EXCEPT ![c] = [loop |-> k, state |-> "up"]] /\ queue' = queue
    BY <1>4, <1>11
  <2>2. ServerTypeOK' /\ IdsOK'
    BY <1>5, <1>9, <1>10, <2>1
  <2>3. Moves(c, k, "up")
    BY <1>5, <1>6, <1>8, <2>1 DEF Moves
  <2> QED BY <1>2, <1>3, <1>10, <2>2, <2>3, BooksMove
<1>12. CASE k # 0
  <2>1. /\ conn' = [conn EXCEPT ![c] = [loop |-> k, state |-> "connecting"]]
        /\ queue' = [queue EXCEPT ![k] = Append(@, Establishes(c))]
    BY <1>4, <1>12
  <2>2. Appended(queue, queue', k, Establishes(c))
    BY <1>2, <1>5, <1>6, <2>1, FunctorFacts, QueuesAppend
  <2>3. ServerTypeOK' /\ IdsOK'
    BY <1>9, <1>10, <2>1, <2>2 DEF Appended
  <2>4. \A d \in ConnIds \ {c} : \A g \in {Establishes(d), Removes(d), Destroys(d)} :
            \A m \in Loops : Has(queue'[m], g) <=> Has(queue[m], g)
    BY <1>2, <2>2, OtherFunctors DEF Appended
  <2>5. \A m \in Loops : /\ ~Has(queue'[m], Removes(c)) /\ ~Has(queue'[m], Destroys(c))
                         /\ Has(queue'[m], Establishes(c)) <=> m = k
    BY <1>2, <1>6, <2>2, FunctorFacts DEF Appended
  <2>6. Moves(c, k, "connecting")
    BY <1>8, <2>1, <2>2, <2>4, <2>5 DEF Moves, Appended
  <2> QED BY <1>2, <1>3, <1>10, <2>3, <2>6, BooksMove
<1> QED BY <1>11, <1>12

-----------------------------------------------------------------------------
(* Descriptors                                                             *)

\* Sets of connections are finite; one more or less counts for one.
LEMMA Counted ==
    ASSUME NEW S \in SUBSET ConnIds, NEW c \in ConnIds
    PROVE  /\ Cardinality(S) \in Nat
           /\ c \notin S => Cardinality(S \cup {c}) = Cardinality(S) + 1
           /\ c \in S => Cardinality(S \ {c}) = Cardinality(S) - 1
<1>1. IsFiniteSet(S)
  <2>1. IsFiniteSet(ConnIds)
    BY Bounds, FS_Interval DEF ConnIds
  <2> QED BY <2>1, FS_Subset
<1> QED BY <1>1, FS_CardinalityType, FS_AddElement, FS_RemoveElement

\* How many of the connections have their descriptor open.
LEMMA HeldTypes ==
    ASSUME ServerTypeOK
    PROVE  /\ SocketsOpen \in SUBSET ConnIds /\ Cardinality(SocketsOpen) \in Nat /\ Held \in Nat
           /\ Used = Held + (IF idleFd_ = "none" THEN 0 ELSE 1)
<1>1. SocketsOpen \in SUBSET ConnIds
  BY DEF SocketsOpen
<1>2. Cardinality(SocketsOpen) \in Nat
  <2>1. CASE ConnIds = {}
    <3>1. SocketsOpen = {}
      BY <1>1, <2>1
    <3> QED BY <3>1, FS_EmptySet
  <2>2. CASE ConnIds # {}
    BY <1>1, <2>2, Counted
  <2> QED BY <2>1, <2>2
<1>3. others \in Nat
  BY Typed
<1>4. Held \in Nat
  BY <1>2, <1>3 DEF Held
<1>5. Used = Held + (IF idleFd_ = "none" THEN 0 ELSE 1)
  BY DEF Used, Held
<1> QED BY <1>1, <1>2, <1>4, <1>5

\* Held after a step that opens or closes at most one connection's descriptor.
LEMMA HeldSame ==
    ASSUME others' = others,
           \A c \in ConnIds : conn'[c].state = "none" <=> conn[c].state = "none"
    PROVE  Held' = Held
<1>1. SocketsOpen' = SocketsOpen
  BY DEF SocketsOpen
<1> QED BY <1>1 DEF Held

LEMMA HeldOneMore ==
    ASSUME ServerTypeOK, others' = others, NEW c \in ConnIds, conn[c].state = "none",
           conn'[c].state # "none", \A d \in ConnIds \ {c} : conn'[d] = conn[d]
    PROVE  Held' = Held + 1
<1>1. SocketsOpen' = SocketsOpen \cup {c} /\ c \notin SocketsOpen /\ SocketsOpen \in SUBSET ConnIds
  BY DEF SocketsOpen
<1>2. /\ Cardinality(SocketsOpen') = Cardinality(SocketsOpen) + 1
      /\ Cardinality(SocketsOpen) \in Nat /\ others \in Nat
  BY <1>1, Counted, Typed
<1>3. \A o, n \in Nat : o + (n + 1) = (o + n) + 1
  OBVIOUS
<1> QED BY <1>2, <1>3 DEF Held

LEMMA HeldOneLess ==
    ASSUME ServerTypeOK, others' = others, NEW c \in ConnIds, conn[c].state # "none",
           conn'[c].state = "none", \A d \in ConnIds \ {c} : conn'[d] = conn[d]
    PROVE  Held' \in Nat /\ Held' <= Held
<1>1. SocketsOpen' = SocketsOpen \ {c} /\ c \in SocketsOpen /\ SocketsOpen \in SUBSET ConnIds
  BY DEF SocketsOpen
<1>2. /\ Cardinality(SocketsOpen') = Cardinality(SocketsOpen) - 1
      /\ Cardinality(SocketsOpen) \in Nat /\ others \in Nat
      /\ Cardinality(SocketsOpen') \in Nat
  <2>1. SocketsOpen' \in SUBSET ConnIds
    BY <1>1
  <2> QED BY <1>1, <2>1, Counted, Typed
<1>3. \A o, n \in Nat : n - 1 \in Nat => o + (n - 1) \in Nat /\ o + (n - 1) <= o + n
  OBVIOUS
<1> QED BY <1>2, <1>3 DEF Held

\* What FdsOK says, in terms of Held.
FdsBound(h, b, i, t) ==
    /\ h + (IF i = "none" THEN 0 ELSE 1) <= FdLimit
    /\ b \in {"idle", "starting"} => i = "null device" \/ (i = "none" /\ t)
    /\ b \in {"reserve closed", "refused"} => i = "none"
    /\ b = "accepted" => i # "null device"
    /\ b \in {"reserve closed", "accepted", "refused"} /\ ~t => h < FdLimit

LEMMA FdsIs ==
    /\ ServerTypeOK => (FdsOK <=> FdsBound(Held, base, idleFd_, taken))
    /\ FdsBound(Held, base, idleFd_, taken)' => FdsOK'
<1>1. ServerTypeOK => (FdsOK <=> FdsBound(Held, base, idleFd_, taken))
  BY HeldTypes DEF FdsOK, FdsBound
<1>2. Used' = Held' + (IF idleFd_' = "none" THEN 0 ELSE 1)
  BY DEF Used, Held
<1>3. FdsBound(Held, base, idleFd_, taken)' => FdsOK'
  BY <1>2 DEF FdsOK, FdsBound
<1> QED BY <1>1, <1>3

\* No descriptor more is held: nothing is lost.
LEMMA FdsFewer ==
    \A h, hh \in Nat : \A b, i, t : hh <= h /\ FdsBound(h, b, i, t) => FdsBound(hh, b, i, t)
<1> SUFFICES ASSUME NEW h \in Nat, NEW hh \in Nat, NEW b, NEW i, NEW t, hh <= h,
                    FdsBound(h, b, i, t)
             PROVE  FdsBound(hh, b, i, t)
  OBVIOUS
<1>1. \A k \in {0, 1} : h + k <= FdLimit => hh + k <= FdLimit
  BY Bounds
<1>2. h < FdLimit => hh < FdLimit
  BY Bounds
<1> QED BY <1>1, <1>2 DEF FdsBound

\* Steps that open no descriptor.
LEMMA FdsKept ==
    ASSUME VInv, Held' \in Nat, Held' <= Held, UNCHANGED <<base, idleFd_, taken>>
    PROVE  FdsOK'
<1>1. Held \in Nat /\ FdsBound(Held, base, idleFd_, taken)
  BY HeldTypes, FdsIs DEF VInv
<1>2. FdsBound(Held', base, idleFd_, taken)
  BY <1>1, FdsFewer
<1>3. FdsBound(Held, base, idleFd_, taken)'
  BY <1>2
<1> QED BY <1>3, FdsIs

LEMMA FdsInit == ASSUME ServerInit PROVE FdsOK
<1>1. \A c \in ConnIds : conn[c].state = "none"
  BY DEF ServerInit
<1>2. SocketsOpen = {}
  BY <1>1 DEF SocketsOpen
<1>3. others = 0 /\ base = "idle" /\ idleFd_ = "null device"
  BY DEF ServerInit
<1>4. Cardinality(SocketsOpen) = 0
  BY <1>2, FS_EmptySet
<1>5. Used = 1 /\ 1 <= FdLimit
  <2>1. Used = 0 + 0 + 1
    BY <1>3, <1>4 DEF Used
  <2> QED BY <2>1, Bounds
<1> QED BY <1>3, <1>5 DEF FdsOK

\* The connections' steps.
LEMMA FdsConns ==
    ASSUME VInv,
           \/ \E l \in Loops : RunFunctor(l)
           \/ \E c \in ConnIds : HandleClose(c) \/ LastPointerDropped(c)
    PROVE  FdsOK'
<1>1. Held \in Nat /\ ServerTypeOK /\ Books
  BY HeldTypes DEF VInv, Books
<1>2. conn \in [ConnIds -> [loop : Loops, state : ConnStates]]
  BY <1>1 DEF ServerTypeOK
<1>3. ASSUME NEW l \in Loops, RunFunctor(l) PROVE FdsOK'
  <2> DEFINE f == Head(queue[l])
  <2>1. UNCHANGED <<base, idleFd_, taken, others>> /\ queue[l] # <<>>
    BY <1>3 DEF RunFunctor
  <2>2. f \in AllFunctors /\ Has(queue[l], f)
    <3>1. queue \in [Loops -> Seq(AllFunctors)] /\ \A m \in Loops : Once(queue[m])
      BY <1>1, Typed DEF Books, FunctorsOK
    <3>2. Taken(queue, [queue EXCEPT ![l] = Tail(@)], l)
      BY <2>1, <3>1, QueuesTail
    <3> QED BY <3>2 DEF Taken
  <2>3. \/ conn' = conn
        \/ f.name = "connectEstablished" /\ conn' = SetState(f.conn, "up")
        \/ f.name = "connectDestroyed" /\ conn' = SetState(f.conn, "held")
    BY <1>3 DEF RunFunctor
  <2> HIDE DEF f
  <2>4. f.name \in {"connectEstablished", "connectDestroyed"} =>
            f.conn \in ConnIds /\ conn[f.conn].state # "none"
    BY <1>1, <2>2, NameIs DEF Books, FunctorsOK
  <2>5. \A c \in ConnIds : conn'[c].state = "none" <=> conn[c].state = "none"
    BY <1>2, <2>3, <2>4 DEF SetState
  <2> QED BY <1>1, <2>1, <2>5, HeldSame, FdsKept
<1>4. ASSUME NEW c \in ConnIds, HandleClose(c) PROVE FdsOK'
  <2>1. UNCHANGED <<base, idleFd_, taken, others>> /\ conn[c].state = "up"
        /\ conn' = SetState(c, "closed")
    BY <1>4 DEF HandleClose
  <2>2. \A d \in ConnIds : conn'[d].state = "none" <=> conn[d].state = "none"
    BY <1>2, <2>1 DEF SetState
  <2> QED BY <1>1, <2>1, <2>2, HeldSame, FdsKept
<1>5. ASSUME NEW c \in ConnIds, LastPointerDropped(c) PROVE FdsOK'
  <2>1. UNCHANGED <<base, idleFd_, taken, others>> /\ conn[c].state = "held"
        /\ conn' = SetState(c, "none")
    BY <1>5 DEF LastPointerDropped
  <2>2. conn'[c].state = "none" /\ \A d \in ConnIds \ {c} : conn'[d] = conn[d]
    BY <1>2, <2>1 DEF SetState
  <2>3. Held' \in Nat /\ Held' <= Held
    BY <1>1, <2>1, <2>2, HeldOneLess
  <2> QED BY <2>1, <2>3, FdsKept
<1> QED BY <1>3, <1>4, <1>5

LEMMA FdsAccept == ASSUME VInv, Accept PROVE FdsOK'
<1> DEFINE c == nextConnId_
<1>1. /\ UNCHANGED <<base, idleFd_, taken, others>> /\ backlog > 0 /\ base = "idle" /\ FdsLeft
  BY DEF Accept
<1>2. ServerTypeOK /\ Books
  BY DEF VInv, Books
<1>3. c \in ConnIds /\ conn[c].state = "none"
  BY <1>1, <1>2, NewIds
<1>4. conn \in [ConnIds -> [loop : Loops, state : ConnStates]]
  BY <1>2 DEF ServerTypeOK
<1>5. \E k : \E s \in {"up", "connecting"} : conn' = [conn EXCEPT ![c] = [loop |-> k, state |-> s]]
  BY DEF Accept, NewConnection
<1>6. conn'[c].state # "none" /\ \A d \in ConnIds \ {c} : conn'[d] = conn[d]
  BY <1>3, <1>4, <1>5
<1>7. Held' = Held + 1
  BY <1>1, <1>2, <1>3, <1>6, HeldOneMore
<1>8. Held \in Nat /\ Held + (IF idleFd_ = "none" THEN 0 ELSE 1) < FdLimit
  BY <1>1, <1>2, HeldTypes DEF FdsLeft
<1>9. \A h \in Nat, k \in {0, 1} : h + k < FdLimit => (h + 1) + k <= FdLimit
  BY Bounds
<1>10. Held' + (IF idleFd_ = "none" THEN 0 ELSE 1) <= FdLimit
  BY <1>7, <1>8, <1>9
<1>11. idleFd_ = "null device" \/ (idleFd_ = "none" /\ taken)
  BY <1>1 DEF VInv, FdsOK
<1>12. FdsBound(Held, base, idleFd_, taken)'
  BY <1>1, <1>10, <1>11 DEF FdsBound
<1> QED BY <1>12, FdsIs

\* The Acceptor's EMFILE branch, the start and the other threads.
LEMMA FdsQuiet == ASSUME VInv, Quiet PROVE FdsOK'
<1> DEFINE h == Held
<1>1. Held \in Nat /\ FdsBound(Held, base, idleFd_, taken)
  BY HeldTypes, FdsIs DEF VInv
<1>2. FdsLeft <=> Held + (IF idleFd_ = "none" THEN 0 ELSE 1) < FdLimit
  BY HeldTypes DEF VInv, FdsLeft
<1>3. /\ \A n \in Nat : n < FdLimit => n + 1 <= FdLimit /\ (n <= FdLimit) /\ n + 0 <= FdLimit
      /\ \A n \in Nat, k \in {0, 1} : n + k < FdLimit => (n + 1) + k <= FdLimit
      /\ \A n \in Nat : n + 1 <= FdLimit => n < FdLimit /\ n + 0 <= FdLimit
      /\ \A n \in Nat : n + 0 <= FdLimit /\ ~(n + 0 < FdLimit) => ~(n < FdLimit)
  BY Bounds
<1>4. ASSUME ClientConnects \/ ClientAborts PROVE FdsOK'
  <2>1. UNCHANGED <<conn, others, base, idleFd_, taken>>
    BY <1>4 DEF ClientConnects, ClientAborts
  <2>2. Held' = Held
    BY <2>1, HeldSame
  <2> QED BY <1>1, <2>1, <2>2, FdsKept
<1>5. CASE OtherOpens
  <2>1. /\ others' = others + 1 /\ UNCHANGED <<conn, base, idleFd_>> /\ FdsLeft
        /\ taken' = (taken \/ base \notin {"idle", "starting"})
    BY <1>5 DEF OtherOpens
  <2>2. Held' = Held + 1
    <3>1. SocketsOpen' = SocketsOpen
      BY <2>1 DEF SocketsOpen
    <3>2. others \in Nat /\ Cardinality(SocketsOpen) \in Nat
      BY HeldTypes, Typed DEF VInv
    <3>3. \A o, n \in Nat : (o + 1) + n = (o + n) + 1
      OBVIOUS
    <3> QED BY <2>1, <3>1, <3>2, <3>3 DEF Held
  <2>3. Held' + (IF idleFd_ = "none" THEN 0 ELSE 1) <= FdLimit
    BY <1>1, <1>2, <1>3, <2>1, <2>2
  <2>4. FdsBound(Held, base, idleFd_, taken)'
    BY <1>1, <2>1, <2>3, Zenon DEF FdsBound
  <2> QED BY <2>4, FdsIs
<1>6. CASE OtherCloses
  <2>1. others > 0 /\ others' = others - 1 /\ UNCHANGED <<conn, base, idleFd_, taken>>
    BY <1>6 DEF OtherCloses
  <2>2. Held' \in Nat /\ Held' <= Held
    <3>1. SocketsOpen' = SocketsOpen
      BY <2>1 DEF SocketsOpen
    <3>2. others \in Nat /\ Cardinality(SocketsOpen) \in Nat
      BY HeldTypes, Typed DEF VInv
    <3>3. \A o, n \in Nat : o > 0 => (o - 1) + n \in Nat /\ (o - 1) + n <= o + n
      OBVIOUS
    <3> QED BY <2>1, <3>1, <3>2, <3>3 DEF Held
  <2> QED BY <2>1, <2>2, FdsKept
<1>7. ASSUME UNCHANGED <<conn, others, taken>> PROVE Held' = Held /\ taken' = taken
  BY <1>7, HeldSame
<1>8. CASE Start
  <2>1. UNCHANGED <<conn, others, taken, idleFd_>> /\ base' = "starting" /\ base = "idle"
    BY <1>8 DEF Start, VInv, NotStarted
  <2>2. FdsBound(Held, base, idleFd_, taken)'
    BY <1>1, <1>7, <2>1 DEF FdsBound
  <2> QED BY <2>2, FdsIs
<1>9. CASE StartListens
  <2>1. UNCHANGED <<conn, others, taken, idleFd_>> /\ base' = "idle" /\ base = "starting"
    BY <1>9 DEF StartListens
  <2>2. FdsBound(Held, base, idleFd_, taken)'
    BY <1>1, <1>7, <2>1 DEF FdsBound
  <2> QED BY <2>2, FdsIs
<1>10. CASE GiveUpReserve
  <2>1. /\ UNCHANGED <<conn, others, taken>> /\ base = "idle" /\ base' = "reserve closed"
        /\ idleFd_' = "none" /\ ~FdsLeft
    BY <1>10 DEF GiveUpReserve
  <2>2. Held + 0 <= FdLimit /\ (~taken => Held < FdLimit)
    BY <1>1, <1>3, <2>1 DEF FdsBound
  <2>3. FdsBound(Held, base, idleFd_, taken)'
    BY <1>7, <2>1, <2>2 DEF FdsBound
  <2> QED BY <2>3, FdsIs
<1>11. CASE AcceptIntoReserve
  <2>1. /\ UNCHANGED <<conn, others, taken>> /\ base = "reserve closed" /\ base' = "accepted"
        /\ (FdsLeft /\ idleFd_' = "socket") \/ idleFd_' = idleFd_
    BY <1>11 DEF AcceptIntoReserve
  <2>2. idleFd_ = "none" /\ (~taken => Held < FdLimit) /\ Held + 0 <= FdLimit
    BY <1>1, <2>1 DEF FdsBound
  <2>3. FdsLeft => Held + 0 < FdLimit
    BY <1>2, <2>2
  <2>4. FdsLeft => Held + 1 <= FdLimit
    BY <1>1, <1>3, <2>3
  <2>5. FdsBound(Held, base, idleFd_, taken)'
    BY <1>7, <2>1, <2>2, <2>4 DEF FdsBound
  <2> QED BY <2>5, FdsIs
<1>12. CASE CloseRefused
  <2>1. /\ UNCHANGED <<conn, others, taken>> /\ base = "accepted" /\ base' = "refused"
        /\ idleFd_' = "none"
    BY <1>12 DEF CloseRefused
  <2>2. (~taken => Held < FdLimit) /\ Held + 0 <= FdLimit
    BY <1>1, <1>3, <2>1 DEF FdsBound
  <2>3. FdsBound(Held, base, idleFd_, taken)'
    BY <1>7, <2>1, <2>2 DEF FdsBound
  <2> QED BY <2>3, FdsIs
<1>13. CASE RestoreReserve
  <2>1. /\ UNCHANGED <<conn, others, taken>> /\ base = "refused" /\ base' = "idle"
        /\ idleFd_' = IF FdsLeft THEN "null device" ELSE "none"
    BY <1>13 DEF RestoreReserve
  <2>2. idleFd_ = "none" /\ (~taken => Held < FdLimit) /\ Held + 0 <= FdLimit
    BY <1>1, <2>1 DEF FdsBound
  <2>3. FdsLeft <=> Held + 0 < FdLimit
    BY <1>2, <2>2
  <2>4. (FdsLeft => Held + 1 <= FdLimit) /\ (~FdsLeft => taken)
    BY <1>1, <1>3, <2>2, <2>3
  <2>5. FdsBound(Held, base, idleFd_, taken)'
    BY <1>7, <2>1, <2>2, <2>4 DEF FdsBound
  <2> QED BY <2>5, FdsIs
<1> QED BY <1>4, <1>5, <1>6, <1>8, <1>9, <1>10, <1>11, <1>12, <1>13 DEF Quiet

-----------------------------------------------------------------------------
(* The invariant and the theorems                                          *)

LEMMA NotStartedStep == ASSUME VInv, ServerNext PROVE NotStarted'
<1>1. starts \in Nat
  BY Typed DEF VInv
<1>2. CASE starts # 0
  <2>1. starts' \in {starts, starts + 1, 1}
    BY DEF ServerNext, ClientConnects, ClientAborts, OtherOpens, OtherCloses, Start, StartListens,
           StartAgain, HandleRead, Accept, GiveUpReserve, AcceptIntoReserve, CloseRefused,
           RestoreReserve, RunFunctor, HandleClose, LastPointerDropped
  <2>2. starts' # 0
    BY <1>1, <1>2, <2>1
  <2> QED BY <2>2 DEF NotStarted
<1>3. CASE starts = 0
  <2>1. /\ base = "idle" /\ ~listenning_ /\ backlog = 0 /\ DOMAIN queue = Loops
        /\ \A l \in Loops : queue[l] = <<>>
        /\ \A c \in ConnIds : conn[c].state = "none"
    BY <1>3, Typed DEF VInv, NotStarted
  <2>2. ~ClientConnects /\ ~ClientAborts /\ ~StartListens /\ ~StartAgain /\ ~HandleRead
    BY <1>3, <2>1 DEF ClientConnects, ClientAborts, StartListens, StartAgain, HandleRead, Accept,
         GiveUpReserve, AcceptIntoReserve, CloseRefused, RestoreReserve
  <2>3. \A l \in DOMAIN queue : ~RunFunctor(l)
    BY <2>1 DEF RunFunctor
  <2>4. \A c \in ConnIds : ~HandleClose(c) /\ ~LastPointerDropped(c)
    BY <2>1 DEF HandleClose, LastPointerDropped
  <2>5. OtherOpens \/ OtherCloses \/ Start
    BY <2>2, <2>3, <2>4 DEF ServerNext
  <2>6. CASE Start
    BY <2>6 DEF Start, NotStarted
  <2>7. CASE OtherOpens \/ OtherCloses
    <3>1. UNCHANGED <<numThreads_, base, listenning_, backlog, queue, conn>>
      BY <2>7 DEF OtherOpens, OtherCloses
    <3> QED BY <2>1, <3>1 DEF NotStarted, Loops
  <2> QED BY <2>5, <2>6, <2>7
<1> QED BY <1>2, <1>3

LEMMA BooksStep == ASSUME VInv, ServerNext PROVE Books'
<1>1. Books /\ DOMAIN queue = Loops
  BY Typed DEF VInv, Books
<1> QED BY <1>1, BooksQuiet, BooksStartAgain, BooksAccept, BooksRunFunctor, BooksHandleClose,
           BooksLastPointerDropped DEF ServerNext, HandleRead, Quiet

LEMMA FdsStep == ASSUME VInv, ServerNext PROVE FdsOK'
<1>1. DOMAIN queue = Loops
  BY Typed DEF VInv
<1>2. ASSUME StartAgain PROVE FdsOK'
  <2>1. UNCHANGED <<conn, others, base, idleFd_, taken>>
    BY <1>2 DEF StartAgain
  <2>2. Held' = Held /\ Held \in Nat
    BY <2>1, HeldSame, HeldTypes DEF VInv
  <2> QED BY <2>1, <2>2, FdsKept
<1> QED BY <1>1, <1>2, FdsQuiet, FdsConns, FdsAccept DEF ServerNext, HandleRead, Quiet

LEMMA VInvStep == VInv /\ [ServerNext]_serverVars => VInv'
<1> SUFFICES ASSUME VInv, [ServerNext]_serverVars PROVE VInv'
  OBVIOUS
<1>1. CASE ServerNext
  BY <1>1, BooksStep, NotStartedStep, FdsStep DEF VInv, Books
<1>2. CASE UNCHANGED serverVars
  <2>1. /\ UNCHANGED <<numThreads_, starts, listenning_, backlog, clients, base, idleFd_, others>>
        /\ UNCHANGED <<taken, nextConnId_, next_, connections_, conn, queue>>
    BY <1>2 DEF serverVars
  <2>2. ServerTypeOK' /\ IdsOK' /\ NotStarted'
    BY <2>1 DEF VInv, ServerTypeOK, IdsOK, NotStarted, Loops
  <2>3. FunctorsOK' /\ ConnsOK'
    BY <2>1 DEF VInv, FunctorsOK, ConnsOK, Loops
  <2>4. FdsOK'
    BY <2>1 DEF VInv, FdsOK, Used, Held, SocketsOpen
  <2> QED BY <2>2, <2>3, <2>4 DEF VInv
<1> QED BY <1>1, <1>2

\* The server's inductive invariant: every connection has exactly the functors
\* its state calls for (newConnection, removeConnectionInLoop), and the slot of
\* the given-up reserve is kept free for it (Acceptor::handleRead).
THEOREM ServerInvariant == ServerSpec => []VInv
<1>1. ServerInit => VInv
  <2> SUFFICES ASSUME ServerInit PROVE VInv
    OBVIOUS
  <2>1. NotStarted
    <3>1. /\ base = "idle" /\ listenning_ = FALSE /\ backlog = 0
          /\ \A l \in Loops : queue[l] = <<>>
          /\ \A c \in ConnIds : conn[c].state = "none"
      BY DEF ServerInit, Loops
    <3> QED BY <3>1 DEF NotStarted
  <2> QED BY <2>1, BooksInit, FdsInit DEF VInv, Books
<1> QED BY <1>1, VInvStep, PTL DEF ServerSpec

\* Where functor f waits.
Places(f) ==
    UNION {{<<l, i>> : i \in {j \in DOMAIN queue[l] : queue[l][j] = f}} : l \in DOMAIN queue}

LEMMA PlacesHas ==
    ASSUME VInv, NEW f
    PROVE  /\ Places(f) # {} <=> \E l \in Loops : Has(queue[l], f)
           /\ \A l \in Loops :
                 /\ Has(queue[l], f) /\ f.conn # 0
                 /\ \A m \in Loops : Has(queue[m], f) => m = l
                 => Cardinality(Places(f)) = 1
<1>1. DOMAIN queue = Loops
  BY Typed DEF VInv
<1>2. \A l, i : <<l, i>> \in Places(f) <=> l \in Loops /\ i \in DOMAIN queue[l] /\ queue[l][i] = f
  BY <1>1 DEF Places
<1>3. \A p \in Places(f) : p = <<p[1], p[2]>>
  BY DEF Places
<1>4. Places(f) # {} <=> \E l \in Loops : Has(queue[l], f)
  <2>1. ASSUME Places(f) # {} PROVE \E l \in Loops : Has(queue[l], f)
    <3>1. PICK p : p \in Places(f)
      BY <2>1
    <3>2. p = <<p[1], p[2]>>
      BY <1>3, <3>1
    <3>3. p[1] \in Loops /\ p[2] \in DOMAIN queue[p[1]] /\ queue[p[1]][p[2]] = f
      BY <1>2, <3>1, <3>2
    <3> QED BY <3>3 DEF Has
  <2>2. ASSUME NEW l \in Loops, Has(queue[l], f) PROVE Places(f) # {}
    <3>1. PICK i \in DOMAIN queue[l] : queue[l][i] = f
      BY <2>2 DEF Has
    <3> QED BY <1>2, <3>1
  <2> QED BY <2>1, <2>2
<1>5. ASSUME NEW l \in Loops, Has(queue[l], f), f.conn # 0,
             \A m \in Loops : Has(queue[m], f) => m = l
      PROVE  Cardinality(Places(f)) = 1
  <2>1. PICK i \in DOMAIN queue[l] : queue[l][i] = f
    BY <1>5 DEF Has
  <2>2. \A j \in DOMAIN queue[l] : queue[l][j] = f => j = i
    BY <1>5, <2>1 DEF VInv, FunctorsOK, Once
  <2>3. \A p \in Places(f) : p = <<l, i>>
    BY <1>2, <1>3, <1>5, <2>2 DEF Has
  <2>4. Places(f) = {<<l, i>>}
    BY <1>2, <2>1, <2>3
  <2> QED BY <2>4, FS_Singleton
<1> QED BY <1>4, <1>5

LEMMA VInvMap == VInv => MapMatchesFunctors
<1> SUFFICES ASSUME VInv, NEW c \in ConnIds
             PROVE  /\ c \in connections_ <=>
                          conn[c].state \in {"connecting", "up"} \/ Places(Removes(c)) # {}
                    /\ Cardinality(Places(Removes(c)) \cup Places(Destroys(c))) =
                          (IF conn[c].state = "closed" THEN 1 ELSE 0)
                    /\ conn[c].state = "connecting" <=> Places(Establishes(c)) # {}
  BY DEF MapMatchesFunctors, Places, Removes, Destroys, Establishes
<1>1. /\ Books /\ 0 \in Loops /\ conn[c].loop \in Loops
      /\ Removes(c).conn # 0 /\ Destroys(c).conn # 0
  BY Typed, FunctorFacts DEF VInv, Books
<1>2. c \in connections_ <=>
          conn[c].state \in {"connecting", "up"} \/ Places(Removes(c)) # {}
  BY <1>1, PlacesHas DEF VInv, FunctorsOK, ConnsOK
<1>3. conn[c].state = "connecting" <=> Places(Establishes(c)) # {}
  BY <1>1, PlacesHas DEF VInv, FunctorsOK, ConnsOK
<1>4. CASE conn[c].state # "closed"
  <2>1. Places(Removes(c)) = {} /\ Places(Destroys(c)) = {}
    BY <1>1, <1>4, PlacesHas DEF VInv, FunctorsOK
  <2> QED BY <1>2, <1>3, <1>4, <2>1, FS_EmptySet
<1>5. CASE conn[c].state = "closed" /\ c \in connections_
  <2>1. Places(Destroys(c)) = {}
    BY <1>1, <1>5, PlacesHas DEF VInv, FunctorsOK
  <2>2. Has(queue[0], Removes(c)) /\ \A m \in Loops : Has(queue[m], Removes(c)) => m = 0
    BY <1>1, <1>5 DEF VInv, FunctorsOK, ConnsOK
  <2>3. Cardinality(Places(Removes(c))) = 1
    BY <1>1, <2>2, PlacesHas
  <2>4. Places(Removes(c)) \cup Places(Destroys(c)) = Places(Removes(c))
    BY <2>1
  <2> QED BY <1>2, <1>3, <1>5, <2>3, <2>4
<1>6. CASE conn[c].state = "closed" /\ c \notin connections_
  <2>1. Places(Removes(c)) = {}
    BY <1>1, <1>6, PlacesHas DEF VInv, FunctorsOK
  <2>2. /\ Has(queue[conn[c].loop], Destroys(c))
        /\ \A m \in Loops : Has(queue[m], Destroys(c)) => m = conn[c].loop
    BY <1>1, <1>6 DEF VInv, FunctorsOK, ConnsOK
  <2>3. Cardinality(Places(Destroys(c))) = 1
    BY <1>1, <2>2, PlacesHas
  <2>4. Places(Removes(c)) \cup Places(Destroys(c)) = Places(Destroys(c))
    BY <2>1
  <2> QED BY <1>2, <1>3, <1>6, <2>3, <2>4
<1> QED BY <1>4, <1>5, <1>6

\* A connection is in the server's map until exactly one removeConnectionInLoop
\* takes it out, and exactly one connectDestroyed follows (assert(n == 1)), for
\* any number of loops, clients and orders of accepting and closing.
THEOREM MapTheorem == ServerSpec => []MapMatchesFunctors
  BY ServerInvariant, VInvMap, PTL

\* Descriptors stay within the limit, and the Acceptor waits with its reserve open
\* unless another thread took the slot while it was closed (Acceptor::handleRead).
THEOREM ReserveTheorem == ServerSpec => []ReserveIsKept
<1>1. VInv => ReserveIsKept
  BY DEF VInv, FdsOK, ReserveIsKept
<1> QED BY <1>1, ServerInvariant, PTL

=============================================================================
