-------------------------- MODULE ConnectionProofs --------------------------
(***************************************************************************)
(* Proofs about one connection.  First its output and its end, in two      *)
(* threads: TcpConnection, for any number and size of answers.  Then its   *)
(* input: Buffer and the framing of ProtobufCodec, for any stream of       *)
(* frames, any cut into reads and any size of the buffer.                  *)
(***************************************************************************)
EXTENDS TcpConnection, ProtobufCodec, FiniteSetTheorems, SequenceTheorems,
        WellFoundedInduction, TLAPS

Positions == 1 .. Len(ioFunctors)

\* Functor f is queued for the I/O loop.
Pending(f) == \E i \in Positions : ioFunctors[i] = f

\* connectDestroyed is last, and the one answer is ahead of the shutdown.
QueueOrder ==
    /\ \A i \in Positions : ioFunctors[i] = "connectDestroyed" => i = Len(ioFunctors)
    /\ \A i, j \in Positions :
          ioFunctors[i] = "shutdownInLoop" /\ i < j => ioFunctors[j] # "sendInLoop"
    /\ \A i, j \in Positions :
          ioFunctors[i] = "sendInLoop" /\ ioFunctors[j] = "sendInLoop" => i = j

\* Before connectEstablished has run nobody else knows the connection, and it
\* runs once.
BeforeEstablished ==
    /\ state_ = "kConnecting" =>
          /\ ioFunctors = <<"connectEstablished">>
          /\ base = "idle" /\ baseFunctors = 0 /\ inServer
          /\ accepted = 0 /\ ~finSent /\ ~errorShutdown /\ ~peerClosed
    /\ state_ # "kConnecting" => ~Pending("connectEstablished")

\* A connection goes down only because the peer closed, and never comes up again.
GoingDown ==
    /\ state_ = "kDisconnected" => peerClosed
    /\ baseFunctors > 0 \/ ~inServer =>
          peerClosed /\ state_ \in {"kDisconnecting", "kDisconnected"}

\* The last functor that keeps the object is queued last: the base thread is
\* done with the connection when it is taken out of the map.
LastFunctor ==
    /\ inServer => ~destroyed /\ ~Pending("connectDestroyed")
    /\ ~inServer => base \in {"idle", "shutdownCheck"}
    /\ destroyed => ioFunctors = <<>>

\* One answer at most is passed on, because it is followed by shutdown(), and
\* the shutdown comes after it in the thread and in the queue.
OneAnswer ==
    /\ accepted \in {0, MsgLen}
    /\ base = "sendQueue" => accepted = 0 /\ sends > 0
    /\ base = "idle" /\ state_ = "kConnected" => accepted = 0
    /\ base = "shutdownCheck" /\ state_ = "kConnected" => accepted = MsgLen
    /\ base \in {"shutdownSet", "shutdownQueue"} => accepted = MsgLen
    /\ base = "shutdownQueue" => state_ \in {"kDisconnecting", "kDisconnected"}
    /\ accepted = MsgLen => sends > 0
    /\ Pending("shutdownInLoop") => accepted = MsgLen /\ state_ # "kConnected"

\* Where the units of the answer are: in the queued functor, in the buffer, or
\* on the wire.
UnitsAccounted ==
    /\ wire + outputBuffer_ <= accepted
    /\ Pending("sendInLoop") => accepted = MsgLen /\ wire = 0 /\ outputBuffer_ = 0
    /\ ~peerClosed => ("write" \in events <=> outputBuffer_ > 0)
    /\ ~peerClosed /\ ~finSent /\ accepted = MsgLen =>
          Pending("sendInLoop") \/ wire + outputBuffer_ = MsgLen

\* Who shut the direction down, and what had been written by then.
FinOK ==
    /\ finSent /\ ~peerClosed => outputBuffer_ = 0
    /\ finSent /\ ~peerClosed /\ ~errorShutdown =>
          accepted = MsgLen /\ wire = MsgLen /\ ~Pending("sendInLoop")
    /\ state_ = "kDisconnecting" /\ ~errorShutdown /\ ~peerClosed =>
          accepted = MsgLen /\ base # "sendQueue"
    /\ finSent /\ ~peerClosed => state_ # "kConnected"

\* The types that do not follow from the accounting.
TypesOK ==
    /\ state_ \in {"kConnecting", "kConnected", "kDisconnecting", "kDisconnected"}
    /\ events \subseteq {"read", "write"}
    /\ outputBuffer_ \in Nat
    /\ ioFunctors \in Seq(IoFunctors)
    /\ baseFunctors \in Nat
    /\ base \in {"idle", "sendQueue", "shutdownCheck", "shutdownSet", "shutdownQueue"}
    /\ sends \in 0 .. MaxSends
    /\ wire \in Nat
    /\ inServer \in BOOLEAN /\ finSent \in BOOLEAN /\ errorShutdown \in BOOLEAN
    /\ peerClosed \in BOOLEAN /\ destroyed \in BOOLEAN
    /\ fault \in {"none", "handleClose", "removeConnectionInLoop", "Channel::remove"}

TInv ==
    /\ TypesOK
    /\ QueueOrder
    /\ BeforeEstablished
    /\ GoingDown
    /\ LastFunctor
    /\ OneAnswer
    /\ UnitsAccounted
    /\ FinOK

-----------------------------------------------------------------------------
(* The functor queue                                                       *)

\* What queueInLoop leaves: the old functors in their places, and the new one
\* behind them.
LEMMA Queued ==
    ASSUME ioFunctors \in Seq(IoFunctors), NEW f \in IoFunctors,
           ioFunctors' = Append(ioFunctors, f)
    PROVE  /\ ioFunctors' \in Seq(IoFunctors)
           /\ Len(ioFunctors) \in Nat
           /\ Len(ioFunctors') = Len(ioFunctors) + 1
           /\ \A i \in Positions : ioFunctors'[i] = ioFunctors[i]
           /\ ioFunctors'[Len(ioFunctors) + 1] = f
           /\ \A i \in Positions' : i \in Positions \/ i = Len(ioFunctors')
           /\ \A g \in IoFunctors : Pending(g)' <=> Pending(g) \/ g = f
<1>1. /\ ioFunctors' \in Seq(IoFunctors)
      /\ Len(ioFunctors) \in Nat
      /\ Len(ioFunctors') = Len(ioFunctors) + 1
      /\ \A i \in Positions : ioFunctors'[i] = ioFunctors[i]
      /\ ioFunctors'[Len(ioFunctors) + 1] = f
      /\ \A i \in Positions' : i \in Positions \/ i = Len(ioFunctors')
  BY DEF Positions
<1>2. \A g \in IoFunctors : Pending(g)' <=> Pending(g) \/ g = f
  BY <1>1 DEF Positions, Pending
<1> QED BY <1>1, <1>2

\* What running the next functor leaves: the others, one place further on.
LEMMA Taken ==
    ASSUME ioFunctors \in Seq(IoFunctors), NEW f \in IoFunctors, Runs(f)
    PROVE  /\ ioFunctors' \in Seq(IoFunctors)
           /\ Len(ioFunctors) \in Nat \ {0}
           /\ Len(ioFunctors') = Len(ioFunctors) - 1
           /\ ioFunctors[1] = f
           /\ 1 \in Positions
           /\ \A i \in Positions' : i + 1 \in Positions /\ ioFunctors'[i] = ioFunctors[i + 1]
           /\ Pending(f)
           /\ \A g \in IoFunctors : Pending(g)' => Pending(g)
           /\ \A g \in IoFunctors : Pending(g) /\ g # f => Pending(g)'
<1>1. /\ ioFunctors' \in Seq(IoFunctors)
      /\ Len(ioFunctors) \in Nat \ {0}
      /\ Len(ioFunctors') = Len(ioFunctors) - 1
      /\ ioFunctors[1] = f
      /\ 1 \in Positions
      /\ \A i \in Positions' : i + 1 \in Positions /\ ioFunctors'[i] = ioFunctors[i + 1]
  BY DEF Positions, Runs
<1>2. \A g \in IoFunctors : Pending(g)' => Pending(g)
  BY <1>1 DEF Pending
<1>3. ASSUME NEW g \in IoFunctors, Pending(g), g # f
      PROVE  Pending(g)'
  <2>1. PICK i \in Positions : ioFunctors[i] = g
    BY <1>3 DEF Pending
  <2>2. i # 1
    BY <2>1, <1>1, <1>3
  <2>3. i - 1 \in Positions' /\ (i - 1) + 1 = i
    BY <2>2, <1>1 DEF Positions
  <2>4. ioFunctors'[i - 1] = g
    BY <2>1, <2>3, <1>1
  <2> QED BY <2>3, <2>4 DEF Pending
<1>4. Pending(f)
  BY <1>1 DEF Pending
<1> QED BY <1>1, <1>2, <1>3, <1>4

\* A step that leaves the queue alone leaves what is pending alone.
LEMMA QueueKept ==
    ASSUME UNCHANGED ioFunctors
    PROVE  /\ \A g : Pending(g)' <=> Pending(g)
           /\ QueueOrder => QueueOrder'
BY DEF Positions, Pending, QueueOrder

\* Taking the next functor keeps the order of the others.
LEMMA TakenKeepsOrder ==
    ASSUME ioFunctors \in Seq(IoFunctors), NEW f \in IoFunctors, Runs(f), QueueOrder
    PROVE  QueueOrder'
<1>1. /\ Len(ioFunctors) \in Nat /\ Len(ioFunctors') = Len(ioFunctors) - 1
      /\ \A i \in Positions' : i + 1 \in Positions /\ ioFunctors'[i] = ioFunctors[i + 1]
  BY Taken
<1>2. Positions' \subseteq Nat
  BY <1>1 DEF Positions
<1>3. \A i \in Positions' : ioFunctors'[i] = "connectDestroyed" => i = Len(ioFunctors')
  BY <1>1, <1>2 DEF QueueOrder
<1>4. \A i, j \in Positions' :
         ioFunctors'[i] = "shutdownInLoop" /\ i < j => ioFunctors'[j] # "sendInLoop"
  BY <1>1, <1>2 DEF QueueOrder
<1>5. \A i, j \in Positions' :
         ioFunctors'[i] = "sendInLoop" /\ ioFunctors'[j] = "sendInLoop" => i = j
  BY <1>1, <1>2 DEF QueueOrder
<1> QED BY <1>3, <1>4, <1>5 DEF QueueOrder

\* So does a new functor behind them, as long as connectDestroyed is not there
\* yet and an answer has neither an answer nor a shutdown ahead of it.
LEMMA QueuedKeepsOrder ==
    ASSUME ioFunctors \in Seq(IoFunctors), NEW f \in IoFunctors,
           ioFunctors' = Append(ioFunctors, f), QueueOrder, ~Pending("connectDestroyed"),
           f = "sendInLoop" => ~Pending("sendInLoop") /\ ~Pending("shutdownInLoop")
    PROVE  QueueOrder'
<1>1. /\ Len(ioFunctors) \in Nat /\ Len(ioFunctors') = Len(ioFunctors) + 1
      /\ \A i \in Positions : ioFunctors'[i] = ioFunctors[i]
      /\ ioFunctors'[Len(ioFunctors) + 1] = f
      /\ \A i \in Positions' : i \in Positions \/ i = Len(ioFunctors')
  BY Queued
<1>2. \A i \in Positions : i \in Nat /\ i <= Len(ioFunctors)
  BY <1>1 DEF Positions
<1>3. \A i \in Positions' : ioFunctors'[i] = "connectDestroyed" => i = Len(ioFunctors')
  BY <1>1, <1>2 DEF Pending
<1>4. \A i, j \in Positions' :
         ioFunctors'[i] = "shutdownInLoop" /\ i < j => ioFunctors'[j] # "sendInLoop"
  <2> SUFFICES ASSUME NEW i \in Positions', NEW j \in Positions',
                      ioFunctors'[i] = "shutdownInLoop", i < j, ioFunctors'[j] = "sendInLoop"
               PROVE  FALSE
    OBVIOUS
  <2>1. i \in Positions
    BY <1>1, <1>2
  <2>2. ioFunctors[i] = "shutdownInLoop"
    BY <1>1, <2>1
  <2>3. CASE j \in Positions
    BY <1>1, <2>1, <2>2, <2>3 DEF QueueOrder
  <2>4. CASE j = Len(ioFunctors')
    BY <1>1, <2>1, <2>2, <2>4 DEF Pending
  <2> QED BY <2>3, <2>4, <1>1
<1>5. \A i, j \in Positions' :
         ioFunctors'[i] = "sendInLoop" /\ ioFunctors'[j] = "sendInLoop" => i = j
  BY <1>1, <1>2 DEF QueueOrder, Pending
<1> QED BY <1>3, <1>4, <1>5 DEF QueueOrder

\* What the order says of the functor that runs next.
LEMMA OneSendOnly ==
    ASSUME ioFunctors \in Seq(IoFunctors), Runs("sendInLoop"), QueueOrder
    PROVE  ~Pending("sendInLoop")'
<1>1. /\ ioFunctors[1] = "sendInLoop" /\ 1 \in Positions
      /\ \A i \in Positions' : i + 1 \in Positions /\ ioFunctors'[i] = ioFunctors[i + 1]
      /\ Len(ioFunctors') = Len(ioFunctors) - 1 /\ Len(ioFunctors) \in Nat
  BY Taken DEF IoFunctors
<1>2. \A i \in Positions' : i \in Nat \ {0}
  BY <1>1 DEF Positions
<1> QED BY <1>1, <1>2 DEF QueueOrder, Pending

LEMMA NoSendBehind ==
    ASSUME ioFunctors \in Seq(IoFunctors), Runs("shutdownInLoop"), QueueOrder
    PROVE  ~Pending("sendInLoop")
<1>1. /\ ioFunctors[1] = "shutdownInLoop" /\ 1 \in Positions
      /\ Len(ioFunctors) \in Nat
  BY Taken DEF IoFunctors
<1>2. \A i \in Positions : i = 1 \/ 1 < i
  BY <1>1 DEF Positions
<1> QED BY <1>1, <1>2 DEF QueueOrder, Pending

LEMMA LastIsLast ==
    ASSUME ioFunctors \in Seq(IoFunctors), Runs("connectDestroyed"), QueueOrder
    PROVE  ioFunctors' = <<>>
<1>1. /\ ioFunctors[1] = "connectDestroyed" /\ 1 \in Positions
      /\ ioFunctors' \in Seq(IoFunctors) /\ Len(ioFunctors') = Len(ioFunctors) - 1
  BY Taken DEF IoFunctors
<1>2. Len(ioFunctors') = 0
  BY <1>1 DEF QueueOrder
<1> QED BY <1>1, <1>2

-----------------------------------------------------------------------------
(* Every step keeps the invariant                                          *)

LEMMA TcpInitInv == TcpInit => TInv
<1> SUFFICES ASSUME TcpInit PROVE TInv
  OBVIOUS
<1>1. /\ ioFunctors \in Seq(IoFunctors)
      /\ Len(ioFunctors) = 1 /\ Positions = {1} /\ ioFunctors[1] = "connectEstablished"
  BY DEF TcpInit, Positions, IoFunctors
<1>3. \A f \in IoFunctors : Pending(f) => f = "connectEstablished"
  BY <1>1 DEF Pending
<1>4. TypesOK
  <2>1. 0 \in 0 .. MaxSends
    BY TcpAssumption
  <2> QED BY <1>1, <2>1 DEF TcpInit, TypesOK
<1>5. QueueOrder
  BY <1>1 DEF QueueOrder
<1>6. BeforeEstablished /\ GoingDown
  BY DEF TcpInit, BeforeEstablished, GoingDown
<1>7. LastFunctor
  BY <1>3 DEF TcpInit, LastFunctor, IoFunctors
<1>8. OneAnswer
  BY <1>3, TcpAssumption DEF TcpInit, OneAnswer, IoFunctors
<1>9. UnitsAccounted /\ FinOK
  BY <1>3, TcpAssumption DEF TcpInit, UnitsAccounted, FinOK, IoFunctors
<1> QED BY <1>4, <1>5, <1>6, <1>7, <1>8, <1>9 DEF TInv

LEMMA PeerCloseInv ==
    ASSUME TInv, PeerClose
    PROVE  TInv'
<1>1. /\ UNCHANGED ioFunctors /\ QueueOrder'
      /\ \A g : Pending(g)' <=> Pending(g)
  BY QueueKept DEF PeerClose, TInv
<1>3. TypesOK'
  BY <1>1, TcpAssumption DEF TInv, TypesOK, UnitsAccounted, OneAnswer, PeerClose
<1>4. BeforeEstablished'
  BY <1>1, TcpAssumption DEF TInv, BeforeEstablished, TypesOK, PeerClose
<1>5. GoingDown'
  BY <1>1, TcpAssumption DEF TInv, BeforeEstablished, GoingDown, TypesOK, LastFunctor, PeerClose
<1>6. LastFunctor'
  BY <1>1, TcpAssumption DEF TInv, LastFunctor, TypesOK, GoingDown, BeforeEstablished, PeerClose
<1>7. OneAnswer'
  BY <1>1, TcpAssumption DEF TInv, TypesOK, BeforeEstablished, OneAnswer, LastFunctor, GoingDown, PeerClose
<1>8. UnitsAccounted'
  BY <1>1, TcpAssumption DEF TInv, TypesOK, BeforeEstablished, OneAnswer, UnitsAccounted, GoingDown, LastFunctor, FinOK, PeerClose
<1>10. FinOK'
  BY <1>1, TcpAssumption DEF TInv, TypesOK, BeforeEstablished, OneAnswer, UnitsAccounted, GoingDown, FinOK, LastFunctor, PeerClose
<1> QED BY <1>1, <1>3, <1>4, <1>5, <1>6, <1>7, <1>8, <1>10 DEF TInv

LEMMA ConnectEstablishedInv ==
    ASSUME TInv, ConnectEstablished
    PROVE  TInv'
<1> USE DEF IoFunctors
<1>1. ioFunctors \in Seq(IoFunctors) /\ Runs("connectEstablished") /\ QueueOrder
  BY DEF TInv, TypesOK, ConnectEstablished
<1>2. /\ ioFunctors' \in Seq(IoFunctors) /\ ioFunctors # <<>>
      /\ QueueOrder'
      /\ Pending("connectEstablished")
      /\ \A g \in IoFunctors : Pending(g)' => Pending(g)
      /\ \A g \in IoFunctors : Pending(g) /\ g # "connectEstablished" => Pending(g)'
  BY <1>1, Taken, TakenKeepsOrder DEF Runs
<1>0. state_ = "kConnecting" /\ ioFunctors' = <<>>
  BY <1>1, <1>2 DEF TInv, TypesOK, BeforeEstablished, Runs
<1>9. ~Pending("connectEstablished")'
  BY <1>0 DEF Pending, Positions
<1>3. TypesOK'
  BY <1>2, TcpAssumption DEF TInv, TypesOK, UnitsAccounted, OneAnswer, ConnectEstablished
<1>4. BeforeEstablished'
  BY <1>2, <1>0, <1>9, TcpAssumption DEF TInv, BeforeEstablished, TypesOK, ConnectEstablished
<1>5. GoingDown'
  BY <1>2, TcpAssumption DEF TInv, BeforeEstablished, GoingDown, TypesOK, LastFunctor, ConnectEstablished
<1>6. LastFunctor'
  BY <1>2, TcpAssumption DEF TInv, LastFunctor, TypesOK, GoingDown, BeforeEstablished, ConnectEstablished
<1>7. OneAnswer'
  BY <1>2, TcpAssumption DEF TInv, TypesOK, BeforeEstablished, OneAnswer, LastFunctor, GoingDown, ConnectEstablished
<1>8. UnitsAccounted'
  BY <1>2, TcpAssumption DEF TInv, TypesOK, BeforeEstablished, OneAnswer, UnitsAccounted, GoingDown, LastFunctor, FinOK, ConnectEstablished
<1>10. FinOK'
  BY <1>2, TcpAssumption DEF TInv, TypesOK, BeforeEstablished, OneAnswer, UnitsAccounted, GoingDown, FinOK, LastFunctor, ConnectEstablished
<1> QED BY <1>2, <1>3, <1>4, <1>5, <1>6, <1>7, <1>8, <1>10 DEF TInv

LEMMA ShutdownOnErrorInv ==
    ASSUME TInv, ShutdownOnError
    PROVE  TInv'
<1>1. /\ UNCHANGED ioFunctors /\ QueueOrder'
      /\ \A g : Pending(g)' <=> Pending(g)
  BY QueueKept DEF ShutdownOnError, shutdownInLoop, TInv
<1>3. TypesOK'
  BY <1>1, TcpAssumption DEF TInv, TypesOK, UnitsAccounted, OneAnswer, ShutdownOnError, shutdownInLoop
<1>4. BeforeEstablished'
  BY <1>1, TcpAssumption DEF TInv, BeforeEstablished, TypesOK, ShutdownOnError, shutdownInLoop
<1>5. GoingDown'
  BY <1>1, TcpAssumption DEF TInv, BeforeEstablished, GoingDown, TypesOK, LastFunctor, ShutdownOnError, shutdownInLoop
<1>6. LastFunctor'
  BY <1>1, TcpAssumption DEF TInv, LastFunctor, TypesOK, GoingDown, BeforeEstablished, ShutdownOnError, shutdownInLoop
<1>7. OneAnswer'
  BY <1>1, TcpAssumption DEF TInv, TypesOK, BeforeEstablished, OneAnswer, LastFunctor, GoingDown, ShutdownOnError, shutdownInLoop
<1>8. UnitsAccounted'
  BY <1>1, TcpAssumption DEF TInv, TypesOK, BeforeEstablished, OneAnswer, UnitsAccounted, GoingDown, LastFunctor, FinOK, ShutdownOnError, shutdownInLoop
<1>10. FinOK'
  BY <1>1, TcpAssumption DEF TInv, TypesOK, BeforeEstablished, OneAnswer, UnitsAccounted, GoingDown, FinOK, LastFunctor, ShutdownOnError, shutdownInLoop
<1> QED BY <1>1, <1>3, <1>4, <1>5, <1>6, <1>7, <1>8, <1>10 DEF TInv

LEMMA HandleCloseInv ==
    ASSUME TInv, HandleClose
    PROVE  TInv'
<1>1. /\ UNCHANGED ioFunctors /\ QueueOrder'
      /\ \A g : Pending(g)' <=> Pending(g)
  BY QueueKept DEF HandleClose, removeConnection, TInv
<1>3. TypesOK'
  <2>1. CASE state_ \in {"kConnected", "kDisconnecting"}
    BY <1>1, <2>1 DEF TInv, TypesOK, HandleClose, removeConnection
  <2>2. CASE state_ \notin {"kConnected", "kDisconnecting"}
    BY <1>1, <2>2 DEF TInv, TypesOK, HandleClose
  <2> QED BY <2>1, <2>2
<1>4. BeforeEstablished'
  BY <1>1, TcpAssumption DEF TInv, BeforeEstablished, TypesOK, HandleClose, removeConnection
<1>5. GoingDown'
  BY <1>1, TcpAssumption DEF TInv, BeforeEstablished, GoingDown, TypesOK, LastFunctor, HandleClose, removeConnection
<1>6. LastFunctor'
  BY <1>1, TcpAssumption DEF TInv, LastFunctor, TypesOK, GoingDown, BeforeEstablished, HandleClose, removeConnection
<1>7. OneAnswer'
  BY <1>1, TcpAssumption DEF TInv, TypesOK, BeforeEstablished, OneAnswer, LastFunctor, GoingDown, HandleClose, removeConnection
<1>8. UnitsAccounted'
  BY <1>1, TcpAssumption DEF TInv, TypesOK, BeforeEstablished, OneAnswer, UnitsAccounted, GoingDown, LastFunctor, FinOK, HandleClose, removeConnection
<1>10. FinOK'
  BY <1>1, TcpAssumption DEF TInv, TypesOK, BeforeEstablished, OneAnswer, UnitsAccounted, GoingDown, FinOK, LastFunctor, HandleClose, removeConnection
<1> QED BY <1>1, <1>3, <1>4, <1>5, <1>6, <1>7, <1>8, <1>10 DEF TInv

LEMMA HandleWriteInv ==
    ASSUME TInv, NEW n \in 1 .. MaxSends * MsgLen, HandleWrite(n)
    PROVE  TInv'
<1>1. /\ UNCHANGED ioFunctors /\ QueueOrder'
      /\ \A g : Pending(g)' <=> Pending(g)
  BY QueueKept DEF HandleWrite, WriteComplete, TInv
<1>3. TypesOK'
  <2>1. outputBuffer_' \in Nat /\ wire' \in Nat
    BY DEF TInv, TypesOK, HandleWrite
  <2>2. events' \subseteq {"read", "write"} /\ finSent' \in BOOLEAN
    BY DEF TInv, TypesOK, HandleWrite, WriteComplete
  <2> QED BY <1>1, <2>1, <2>2 DEF TInv, TypesOK, HandleWrite
<1>4. BeforeEstablished'
  BY <1>1, TcpAssumption DEF TInv, BeforeEstablished, TypesOK, HandleWrite, WriteComplete
<1>5. GoingDown'
  BY <1>1, TcpAssumption DEF TInv, BeforeEstablished, GoingDown, TypesOK, LastFunctor, HandleWrite, WriteComplete
<1>6. LastFunctor'
  BY <1>1, TcpAssumption DEF TInv, LastFunctor, TypesOK, GoingDown, BeforeEstablished, HandleWrite, WriteComplete
<1>7. OneAnswer'
  BY <1>1, TcpAssumption DEF TInv, TypesOK, BeforeEstablished, OneAnswer, LastFunctor, GoingDown, HandleWrite, WriteComplete
<1>8. UnitsAccounted'
  BY <1>1, TcpAssumption DEF TInv, TypesOK, BeforeEstablished, OneAnswer, UnitsAccounted, GoingDown, LastFunctor, FinOK, HandleWrite, WriteComplete
<1>10. FinOK'
  BY <1>1, TcpAssumption DEF TInv, TypesOK, BeforeEstablished, OneAnswer, UnitsAccounted, GoingDown, FinOK, LastFunctor, HandleWrite, WriteComplete
<1> QED BY <1>1, <1>3, <1>4, <1>5, <1>6, <1>7, <1>8, <1>10 DEF TInv

LEMMA SendInLoopDropsInv ==
    ASSUME TInv, SendInLoopDrops
    PROVE  TInv'
<1> USE DEF IoFunctors
<1>1. ioFunctors \in Seq(IoFunctors) /\ Runs("sendInLoop") /\ QueueOrder
  BY DEF TInv, TypesOK, SendInLoopDrops
<1>2. /\ ioFunctors' \in Seq(IoFunctors) /\ ioFunctors # <<>>
      /\ QueueOrder'
      /\ Pending("sendInLoop")
      /\ \A g \in IoFunctors : Pending(g)' => Pending(g)
      /\ \A g \in IoFunctors : Pending(g) /\ g # "sendInLoop" => Pending(g)'
  BY <1>1, Taken, TakenKeepsOrder DEF Runs
<1>0. state_ # "kConnecting"
  BY <1>1 DEF TInv, BeforeEstablished, Runs
<1>3. TypesOK'
  BY <1>2, TcpAssumption DEF TInv, TypesOK, UnitsAccounted, OneAnswer, SendInLoopDrops
<1>4. BeforeEstablished'
  BY <1>2, <1>0, TcpAssumption DEF TInv, BeforeEstablished, TypesOK, SendInLoopDrops
<1>5. GoingDown'
  BY <1>2, <1>0, TcpAssumption DEF TInv, BeforeEstablished, GoingDown, TypesOK, LastFunctor, SendInLoopDrops
<1>6. LastFunctor'
  BY <1>2, TcpAssumption DEF TInv, LastFunctor, TypesOK, GoingDown, BeforeEstablished, SendInLoopDrops
<1>7. OneAnswer'
  BY <1>2, TcpAssumption DEF TInv, TypesOK, BeforeEstablished, OneAnswer, LastFunctor, GoingDown, SendInLoopDrops
<1>8. UnitsAccounted'
  BY <1>2, <1>0, TcpAssumption DEF TInv, TypesOK, BeforeEstablished, OneAnswer, UnitsAccounted, GoingDown, LastFunctor, FinOK, SendInLoopDrops
<1>10. FinOK'
  BY <1>2, <1>0, TcpAssumption DEF TInv, TypesOK, BeforeEstablished, OneAnswer, UnitsAccounted, GoingDown, FinOK, LastFunctor, SendInLoopDrops
<1> QED BY <1>2, <1>3, <1>4, <1>5, <1>6, <1>7, <1>8, <1>10 DEF TInv

LEMMA SendInLoopInv ==
    ASSUME TInv, NEW n \in 0 .. MsgLen, SendInLoop(n)
    PROVE  TInv'
<1> USE DEF IoFunctors
<1>1. ioFunctors \in Seq(IoFunctors) /\ Runs("sendInLoop") /\ QueueOrder
  BY DEF TInv, TypesOK, SendInLoop
<1>2. /\ ioFunctors' \in Seq(IoFunctors) /\ ioFunctors # <<>>
      /\ QueueOrder'
      /\ Pending("sendInLoop")
      /\ \A g \in IoFunctors : Pending(g)' => Pending(g)
      /\ \A g \in IoFunctors : Pending(g) /\ g # "sendInLoop" => Pending(g)'
  BY <1>1, Taken, TakenKeepsOrder DEF Runs
<1>0. state_ # "kConnecting"
  BY <1>1 DEF TInv, BeforeEstablished, Runs
<1>9. ~Pending("sendInLoop")'
  BY <1>1, OneSendOnly
<1>3. TypesOK'
  BY <1>2, TcpAssumption DEF TInv, TypesOK, UnitsAccounted, OneAnswer, SendInLoop, remaining
<1>4. BeforeEstablished'
  BY <1>2, <1>0, TcpAssumption DEF TInv, BeforeEstablished, TypesOK, SendInLoop, remaining
<1>5. GoingDown'
  BY <1>2, <1>0, TcpAssumption DEF TInv, BeforeEstablished, GoingDown, TypesOK, LastFunctor, SendInLoop, remaining
<1>6. LastFunctor'
  BY <1>2, TcpAssumption DEF TInv, LastFunctor, TypesOK, GoingDown, BeforeEstablished, SendInLoop, remaining
<1>7. OneAnswer'
  BY <1>2, TcpAssumption DEF TInv, TypesOK, BeforeEstablished, OneAnswer, LastFunctor, GoingDown, SendInLoop, remaining
<1>8. UnitsAccounted'
  BY <1>2, <1>9, <1>0, TcpAssumption DEF TInv, TypesOK, BeforeEstablished, OneAnswer, UnitsAccounted, GoingDown, LastFunctor, FinOK, SendInLoop, remaining
<1>10. FinOK'
  BY <1>2, <1>0, TcpAssumption DEF TInv, TypesOK, BeforeEstablished, OneAnswer, UnitsAccounted, GoingDown, FinOK, LastFunctor, SendInLoop, remaining
<1> QED BY <1>2, <1>3, <1>4, <1>5, <1>6, <1>7, <1>8, <1>10 DEF TInv

LEMMA ShutdownInLoopInv ==
    ASSUME TInv, ShutdownInLoop
    PROVE  TInv'
<1> USE DEF IoFunctors
<1>1. ioFunctors \in Seq(IoFunctors) /\ Runs("shutdownInLoop") /\ QueueOrder
  BY DEF TInv, TypesOK, ShutdownInLoop
<1>2. /\ ioFunctors' \in Seq(IoFunctors) /\ ioFunctors # <<>>
      /\ QueueOrder'
      /\ Pending("shutdownInLoop")
      /\ \A g \in IoFunctors : Pending(g)' => Pending(g)
      /\ \A g \in IoFunctors : Pending(g) /\ g # "shutdownInLoop" => Pending(g)'
  BY <1>1, Taken, TakenKeepsOrder DEF Runs
<1>0. state_ # "kConnecting"
  BY <1>1 DEF TInv, BeforeEstablished, Runs
<1>9. ~Pending("sendInLoop")
  BY <1>1, NoSendBehind
<1>3. TypesOK'
  BY <1>2, TcpAssumption DEF TInv, TypesOK, UnitsAccounted, OneAnswer, ShutdownInLoop, shutdownInLoop
<1>4. BeforeEstablished'
  BY <1>2, <1>0, TcpAssumption DEF TInv, BeforeEstablished, TypesOK, ShutdownInLoop, shutdownInLoop
<1>5. GoingDown'
  BY <1>2, <1>0, TcpAssumption DEF TInv, BeforeEstablished, GoingDown, TypesOK, LastFunctor, ShutdownInLoop, shutdownInLoop
<1>6. LastFunctor'
  BY <1>2, TcpAssumption DEF TInv, LastFunctor, TypesOK, GoingDown, BeforeEstablished, ShutdownInLoop, shutdownInLoop
<1>7. OneAnswer'
  BY <1>2, TcpAssumption DEF TInv, TypesOK, BeforeEstablished, OneAnswer, LastFunctor, GoingDown, ShutdownInLoop, shutdownInLoop
<1>8. UnitsAccounted'
  BY <1>2, <1>0, TcpAssumption DEF TInv, TypesOK, BeforeEstablished, OneAnswer, UnitsAccounted, GoingDown, LastFunctor, FinOK, ShutdownInLoop, shutdownInLoop
<1>10. FinOK'
  BY <1>2, <1>9, <1>0, TcpAssumption DEF TInv, TypesOK, BeforeEstablished, OneAnswer, UnitsAccounted, GoingDown, FinOK, LastFunctor, ShutdownInLoop, shutdownInLoop
<1> QED BY <1>2, <1>3, <1>4, <1>5, <1>6, <1>7, <1>8, <1>10 DEF TInv

LEMMA ConnectDestroyedInv ==
    ASSUME TInv, ConnectDestroyed
    PROVE  TInv'
<1> USE DEF IoFunctors
<1>1. ioFunctors \in Seq(IoFunctors) /\ Runs("connectDestroyed") /\ QueueOrder
  BY DEF TInv, TypesOK, ConnectDestroyed
<1>2. /\ ioFunctors' \in Seq(IoFunctors) /\ ioFunctors # <<>>
      /\ QueueOrder'
      /\ Pending("connectDestroyed")
      /\ \A g \in IoFunctors : Pending(g)' => Pending(g)
      /\ \A g \in IoFunctors : Pending(g) /\ g # "connectDestroyed" => Pending(g)'
  BY <1>1, Taken, TakenKeepsOrder DEF Runs
<1>0. state_ # "kConnecting"
  BY <1>1 DEF TInv, BeforeEstablished, Runs
<1>9. ioFunctors' = <<>>
  BY <1>1, LastIsLast
<1>3. TypesOK'
  BY <1>2, TcpAssumption DEF TInv, TypesOK, UnitsAccounted, OneAnswer, ConnectDestroyed
<1>4. BeforeEstablished'
  BY <1>2, <1>0, TcpAssumption DEF TInv, BeforeEstablished, TypesOK, ConnectDestroyed
<1>5. GoingDown'
  BY <1>2, <1>0, TcpAssumption DEF TInv, BeforeEstablished, GoingDown, TypesOK, LastFunctor, ConnectDestroyed
<1>6. LastFunctor'
  BY <1>2, <1>9, TcpAssumption DEF TInv, LastFunctor, TypesOK, GoingDown, BeforeEstablished, ConnectDestroyed
<1>7. OneAnswer'
  BY <1>2, TcpAssumption DEF TInv, TypesOK, BeforeEstablished, OneAnswer, LastFunctor, GoingDown, ConnectDestroyed
<1>8. UnitsAccounted'
  BY <1>2, <1>0, TcpAssumption DEF TInv, TypesOK, BeforeEstablished, OneAnswer, UnitsAccounted, GoingDown, LastFunctor, FinOK, ConnectDestroyed
<1>10. FinOK'
  BY <1>2, <1>0, TcpAssumption DEF TInv, TypesOK, BeforeEstablished, OneAnswer, UnitsAccounted, GoingDown, FinOK, LastFunctor, ConnectDestroyed
<1> QED BY <1>2, <1>3, <1>4, <1>5, <1>6, <1>7, <1>8, <1>10 DEF TInv

LEMMA SendInv ==
    ASSUME TInv, Send
    PROVE  TInv'
<1>1. /\ UNCHANGED ioFunctors /\ QueueOrder'
      /\ \A g : Pending(g)' <=> Pending(g)
  BY QueueKept DEF Send, BaseUnchanged, TInv
<1>3. TypesOK'
  BY <1>1, TcpAssumption DEF TInv, TypesOK, UnitsAccounted, OneAnswer, Send, BaseUnchanged
<1>4. BeforeEstablished'
  BY <1>1, TcpAssumption DEF TInv, BeforeEstablished, TypesOK, Send, BaseUnchanged
<1>5. GoingDown'
  BY <1>1, TcpAssumption DEF TInv, BeforeEstablished, GoingDown, TypesOK, LastFunctor, Send, BaseUnchanged
<1>6. LastFunctor'
  BY <1>1, TcpAssumption DEF TInv, LastFunctor, TypesOK, GoingDown, BeforeEstablished, Send, BaseUnchanged
<1>7. OneAnswer'
  BY <1>1, TcpAssumption DEF TInv, TypesOK, BeforeEstablished, OneAnswer, LastFunctor, GoingDown, Send, BaseUnchanged
<1>8. UnitsAccounted'
  BY <1>1, TcpAssumption DEF TInv, TypesOK, BeforeEstablished, OneAnswer, UnitsAccounted, GoingDown, LastFunctor, FinOK, Send, BaseUnchanged
<1>10. FinOK'
  BY <1>1, TcpAssumption DEF TInv, TypesOK, BeforeEstablished, OneAnswer, UnitsAccounted, GoingDown, FinOK, LastFunctor, Send, BaseUnchanged
<1> QED BY <1>1, <1>3, <1>4, <1>5, <1>6, <1>7, <1>8, <1>10 DEF TInv

LEMMA SendQueueInv ==
    ASSUME TInv, SendQueue
    PROVE  TInv'
<1> USE DEF IoFunctors
<1>1. ioFunctors \in Seq(IoFunctors) /\ ioFunctors' = Append(ioFunctors, "sendInLoop")
  BY DEF TInv, TypesOK, SendQueue
<1>2. /\ ioFunctors' \in Seq(IoFunctors)
      /\ \A g \in IoFunctors : Pending(g)' <=> Pending(g) \/ g = "sendInLoop"
  BY <1>1, Queued
<1>0. QueueOrder /\ ~Pending("connectDestroyed") /\ ~Pending("sendInLoop")
      /\ ~Pending("shutdownInLoop")
  BY TcpAssumption DEF TInv, LastFunctor, OneAnswer, UnitsAccounted, SendQueue
<1>9. QueueOrder'
  BY <1>0, <1>1, QueuedKeepsOrder
<1>3. TypesOK'
  BY <1>2, TcpAssumption DEF TInv, TypesOK, UnitsAccounted, OneAnswer, SendQueue, BaseUnchanged
<1>4. BeforeEstablished'
  BY <1>2, TcpAssumption DEF TInv, BeforeEstablished, TypesOK, SendQueue, BaseUnchanged
<1>5. GoingDown'
  BY <1>2, TcpAssumption DEF TInv, BeforeEstablished, GoingDown, TypesOK, LastFunctor, SendQueue, BaseUnchanged
<1>6. LastFunctor'
  BY <1>2, TcpAssumption DEF TInv, LastFunctor, TypesOK, GoingDown, BeforeEstablished, SendQueue, BaseUnchanged
<1>7. OneAnswer'
  BY <1>2, TcpAssumption DEF TInv, TypesOK, BeforeEstablished, OneAnswer, LastFunctor, GoingDown, SendQueue, BaseUnchanged
<1>8. UnitsAccounted'
  BY <1>2, TcpAssumption DEF TInv, TypesOK, BeforeEstablished, OneAnswer, UnitsAccounted, GoingDown, LastFunctor, FinOK, SendQueue, BaseUnchanged
<1>10. FinOK'
  BY <1>2, TcpAssumption DEF TInv, TypesOK, BeforeEstablished, OneAnswer, UnitsAccounted, GoingDown, FinOK, LastFunctor, SendQueue, BaseUnchanged
<1> QED BY <1>9, <1>3, <1>4, <1>5, <1>6, <1>7, <1>8, <1>10 DEF TInv

LEMMA ShutdownInv ==
    ASSUME TInv, Shutdown
    PROVE  TInv'
<1>1. /\ UNCHANGED ioFunctors /\ QueueOrder'
      /\ \A g : Pending(g)' <=> Pending(g)
  BY QueueKept DEF Shutdown, BaseUnchanged, TInv
<1>3. TypesOK'
  BY <1>1, TcpAssumption DEF TInv, TypesOK, UnitsAccounted, OneAnswer, Shutdown, BaseUnchanged
<1>4. BeforeEstablished'
  BY <1>1, TcpAssumption DEF TInv, BeforeEstablished, TypesOK, Shutdown, BaseUnchanged
<1>5. GoingDown'
  BY <1>1, TcpAssumption DEF TInv, BeforeEstablished, GoingDown, TypesOK, LastFunctor, Shutdown, BaseUnchanged
<1>6. LastFunctor'
  BY <1>1, TcpAssumption DEF TInv, LastFunctor, TypesOK, GoingDown, BeforeEstablished, Shutdown, BaseUnchanged
<1>7. OneAnswer'
  BY <1>1, TcpAssumption DEF TInv, TypesOK, BeforeEstablished, OneAnswer, LastFunctor, GoingDown, Shutdown, BaseUnchanged
<1>8. UnitsAccounted'
  BY <1>1, TcpAssumption DEF TInv, TypesOK, BeforeEstablished, OneAnswer, UnitsAccounted, GoingDown, LastFunctor, FinOK, Shutdown, BaseUnchanged
<1>10. FinOK'
  BY <1>1, TcpAssumption DEF TInv, TypesOK, BeforeEstablished, OneAnswer, UnitsAccounted, GoingDown, FinOK, LastFunctor, Shutdown, BaseUnchanged
<1> QED BY <1>1, <1>3, <1>4, <1>5, <1>6, <1>7, <1>8, <1>10 DEF TInv

LEMMA ShutdownSetInv ==
    ASSUME TInv, ShutdownSet
    PROVE  TInv'
<1>1. /\ UNCHANGED ioFunctors /\ QueueOrder'
      /\ \A g : Pending(g)' <=> Pending(g)
  BY QueueKept DEF ShutdownSet, BaseUnchanged, TInv
<1>3. TypesOK'
  BY <1>1, TcpAssumption DEF TInv, TypesOK, UnitsAccounted, OneAnswer, ShutdownSet, BaseUnchanged
<1>4. BeforeEstablished'
  BY <1>1, TcpAssumption DEF TInv, BeforeEstablished, TypesOK, ShutdownSet, BaseUnchanged
<1>5. GoingDown'
  BY <1>1, TcpAssumption DEF TInv, BeforeEstablished, GoingDown, TypesOK, LastFunctor, ShutdownSet, BaseUnchanged
<1>6. LastFunctor'
  BY <1>1, TcpAssumption DEF TInv, LastFunctor, TypesOK, GoingDown, BeforeEstablished, ShutdownSet, BaseUnchanged
<1>7. OneAnswer'
  BY <1>1, TcpAssumption DEF TInv, TypesOK, BeforeEstablished, OneAnswer, LastFunctor, GoingDown, ShutdownSet, BaseUnchanged
<1>8. UnitsAccounted'
  BY <1>1, TcpAssumption DEF TInv, TypesOK, BeforeEstablished, OneAnswer, UnitsAccounted, GoingDown, LastFunctor, FinOK, ShutdownSet, BaseUnchanged
<1>10. FinOK'
  BY <1>1, TcpAssumption DEF TInv, TypesOK, BeforeEstablished, OneAnswer, UnitsAccounted, GoingDown, FinOK, LastFunctor, ShutdownSet, BaseUnchanged
<1> QED BY <1>1, <1>3, <1>4, <1>5, <1>6, <1>7, <1>8, <1>10 DEF TInv

LEMMA ShutdownQueueInv ==
    ASSUME TInv, ShutdownQueue
    PROVE  TInv'
<1> USE DEF IoFunctors
<1>1. ioFunctors \in Seq(IoFunctors) /\ ioFunctors' = Append(ioFunctors, "shutdownInLoop")
  BY DEF TInv, TypesOK, ShutdownQueue
<1>2. /\ ioFunctors' \in Seq(IoFunctors)
      /\ \A g \in IoFunctors : Pending(g)' <=> Pending(g) \/ g = "shutdownInLoop"
  BY <1>1, Queued
<1>0. QueueOrder /\ ~Pending("connectDestroyed")
  BY DEF TInv, LastFunctor, ShutdownQueue, BaseUnchanged
<1>9. QueueOrder'
  BY <1>0, <1>1, QueuedKeepsOrder
<1>3. TypesOK'
  BY <1>2, TcpAssumption DEF TInv, TypesOK, UnitsAccounted, OneAnswer, ShutdownQueue, BaseUnchanged
<1>4. BeforeEstablished'
  BY <1>2, TcpAssumption DEF TInv, BeforeEstablished, TypesOK, ShutdownQueue, BaseUnchanged
<1>5. GoingDown'
  BY <1>2, TcpAssumption DEF TInv, BeforeEstablished, GoingDown, TypesOK, LastFunctor, ShutdownQueue, BaseUnchanged
<1>6. LastFunctor'
  BY <1>2, TcpAssumption DEF TInv, LastFunctor, TypesOK, GoingDown, BeforeEstablished, ShutdownQueue, BaseUnchanged
<1>7. OneAnswer'
  BY <1>2, TcpAssumption DEF TInv, TypesOK, BeforeEstablished, OneAnswer, LastFunctor, GoingDown, ShutdownQueue, BaseUnchanged
<1>8. UnitsAccounted'
  BY <1>2, TcpAssumption DEF TInv, TypesOK, BeforeEstablished, OneAnswer, UnitsAccounted, GoingDown, LastFunctor, FinOK, ShutdownQueue, BaseUnchanged
<1>10. FinOK'
  BY <1>2, TcpAssumption DEF TInv, TypesOK, BeforeEstablished, OneAnswer, UnitsAccounted, GoingDown, FinOK, LastFunctor, ShutdownQueue, BaseUnchanged
<1> QED BY <1>9, <1>3, <1>4, <1>5, <1>6, <1>7, <1>8, <1>10 DEF TInv

LEMMA RemoveConnectionInLoopInv ==
    ASSUME TInv, RemoveConnectionInLoop
    PROVE  TInv'
<1> USE DEF IoFunctors
<1>1. CASE inServer
  <2>1. ioFunctors \in Seq(IoFunctors) /\ ioFunctors' = Append(ioFunctors, "connectDestroyed")
    BY <1>1 DEF TInv, TypesOK, RemoveConnectionInLoop
  <2>2. /\ ioFunctors' \in Seq(IoFunctors)
        /\ \A g \in IoFunctors : Pending(g)' <=> Pending(g) \/ g = "connectDestroyed"
    BY <2>1, Queued
  <2>3. QueueOrder /\ ~Pending("connectDestroyed")
    BY <1>1 DEF TInv, LastFunctor
  <2>4. QueueOrder'
    BY <2>1, <2>3, QueuedKeepsOrder
  <2>5. TypesOK'
    <3>1. baseFunctors' \in Nat
      BY DEF TInv, TypesOK, RemoveConnectionInLoop
    <3>2. inServer' \in BOOLEAN /\ UNCHANGED fault
      BY <1>1 DEF RemoveConnectionInLoop
    <3> QED BY <2>2, <3>1, <3>2 DEF TInv, TypesOK, RemoveConnectionInLoop
  <2>6. BeforeEstablished'
    BY <2>2 DEF TInv, TypesOK, BeforeEstablished, RemoveConnectionInLoop
  <2>7. GoingDown'
    BY <1>1 DEF TInv, TypesOK, GoingDown, RemoveConnectionInLoop
  <2>8. LastFunctor'
    BY <1>1 DEF TInv, LastFunctor, RemoveConnectionInLoop
  <2>9. OneAnswer'
    BY <2>2 DEF TInv, OneAnswer, RemoveConnectionInLoop
  <2>10. UnitsAccounted' /\ FinOK'
    BY <2>2 DEF TInv, UnitsAccounted, FinOK, RemoveConnectionInLoop
  <2> QED BY <2>4, <2>5, <2>6, <2>7, <2>8, <2>9, <2>10 DEF TInv
<1>2. CASE ~inServer
  <2>1. /\ UNCHANGED ioFunctors /\ QueueOrder'
        /\ \A g : Pending(g)' <=> Pending(g)
    BY <1>2, QueueKept DEF RemoveConnectionInLoop, TInv
  <2>2. TypesOK'
    BY <1>2, <2>1 DEF TInv, TypesOK, RemoveConnectionInLoop
  <2>3. BeforeEstablished' /\ GoingDown' /\ LastFunctor'
    BY <1>2, <2>1 DEF TInv, TypesOK, BeforeEstablished, GoingDown, LastFunctor,
                      RemoveConnectionInLoop
  <2>4. OneAnswer' /\ UnitsAccounted' /\ FinOK'
    BY <2>1 DEF TInv, OneAnswer, UnitsAccounted, FinOK, RemoveConnectionInLoop
  <2> QED BY <2>1, <2>2, <2>3, <2>4 DEF TInv
<1> QED BY <1>1, <1>2 DEF TInv, TypesOK

-----------------------------------------------------------------------------
(* The theorems                                                            *)

\* The invariant holds in every reachable state.
THEOREM TcpInvariant == TcpSpec => []TInv
<1>1. TInv /\ [TcpNext]_tcpVars => TInv'
  <2> SUFFICES ASSUME TInv, [TcpNext]_tcpVars PROVE TInv'
    OBVIOUS
  <2>1. ASSUME IoThread PROVE TInv'
    BY <2>1, ConnectEstablishedInv, ShutdownOnErrorInv, HandleCloseInv, HandleWriteInv,
       SendInLoopDropsInv, SendInLoopInv, ShutdownInLoopInv, ConnectDestroyedInv DEF IoThread
  <2>2. ASSUME BaseThread PROVE TInv'
    BY <2>2, SendInv, SendQueueInv, ShutdownInv, ShutdownSetInv, ShutdownQueueInv,
       RemoveConnectionInLoopInv DEF BaseThread
  <2>3. ASSUME UNCHANGED tcpVars PROVE TInv'
    <3>1. QueueOrder' /\ \A g : Pending(g)' <=> Pending(g)
      BY <2>3, QueueKept DEF tcpVars, TInv
    <3>2. TypesOK' /\ BeforeEstablished' /\ GoingDown' /\ LastFunctor'
      BY <2>3, <3>1 DEF tcpVars, TInv, TypesOK, BeforeEstablished, GoingDown, LastFunctor
    <3>3. OneAnswer' /\ UnitsAccounted' /\ FinOK'
      BY <2>3, <3>1 DEF tcpVars, TInv, OneAnswer, UnitsAccounted, FinOK
    <3> QED BY <3>1, <3>2, <3>3 DEF TInv
  <2> QED BY <2>1, <2>2, <2>3, PeerCloseInv DEF TcpNext
<1> QED BY <1>1, TcpInitInv, PTL DEF TcpSpec

\* One answer is at most all of them.
LEMMA OneOfMany ==
    ASSUME NEW k \in Nat, NEW m \in Nat, m > 0
    PROVE  k <= m * k
<1>1. m * k = (m - 1) * k + k
  OBVIOUS
<1>2. (m - 1) * k >= 0
  OBVIOUS
<1>3. (m - 1) * k \in Int /\ m * k \in Int
  OBVIOUS
<1> QED BY <1>1, <1>2, <1>3

\* Every variable keeps its type; in particular no more units are buffered,
\* accepted or written than the answers given hold.
THEOREM TcpTypes == TcpSpec => []TcpTypeOK
<1>1. TInv => TcpTypeOK
  <2> SUFFICES ASSUME TInv PROVE TcpTypeOK
    OBVIOUS
  <2>1. accepted \in 0 .. MaxSends * MsgLen
    <3>1. CASE accepted = 0
      BY <3>1, TcpAssumption, MaxSends * MsgLen \in Nat
    <3>2. CASE accepted = MsgLen
      <4>1. MaxSends > 0
        BY <3>2, TcpAssumption DEF TInv, OneAnswer, TypesOK
      <4>2. MsgLen <= MaxSends * MsgLen
        BY <4>1, OneOfMany, TcpAssumption
      <4> QED BY <3>2, <4>2, TcpAssumption, MaxSends * MsgLen \in Nat
    <3> QED BY <3>1, <3>2 DEF TInv, OneAnswer
  <2>2. wire \in 0 .. accepted /\ outputBuffer_ \in 0 .. MaxSends * MsgLen
    <3>1. /\ wire \in Nat /\ outputBuffer_ \in Nat /\ accepted \in Nat
          /\ wire <= accepted /\ outputBuffer_ <= accepted
      BY TcpAssumption DEF TInv, TypesOK, OneAnswer, UnitsAccounted
    <3> DEFINE all == MaxSends * MsgLen
    <3>2. all \in Nat /\ accepted <= all
      BY <2>1, TcpAssumption
    <3> HIDE DEF all
    <3>3. wire \in 0 .. accepted /\ outputBuffer_ \in 0 .. all
      BY <3>1, <3>2
    <3> QED BY <3>3 DEF all
  <2>3. {inServer, finSent, errorShutdown, peerClosed, destroyed} \subseteq BOOLEAN
    BY DEF TInv, TypesOK
  <2> QED BY <2>1, <2>2, <2>3 DEF TInv, TypesOK, TcpTypeOK
<1> QED BY <1>1, TcpInvariant, PTL

\* No functor with a bare this pointer outlives the connection: nothing of
\* send() and shutdown() is queued, or about to be, behind connectDestroyed.
THEOREM BareThisTheorem == TcpSpec => []BareThisIsSafe
<1>1. TInv => BareThisIsSafe
  <2> SUFFICES ASSUME TInv PROVE BareThisIsSafe
    OBVIOUS
  <2>1. ASSUME NEW i \in 1 .. Len(ioFunctors), NEW j \in 1 .. Len(ioFunctors),
               ioFunctors[i] = "connectDestroyed", i < j
        PROVE  FALSE
    <3>1. i = Len(ioFunctors) /\ Len(ioFunctors) \in Nat
      BY <2>1 DEF TInv, TypesOK, QueueOrder, Positions
    <3> QED BY <2>1, <3>1
  <2>2. destroyed => ioFunctors = <<>>
    BY DEF TInv, LastFunctor
  <2>3. ~inServer => base \notin {"sendQueue", "shutdownSet", "shutdownQueue"}
    BY DEF TInv, LastFunctor
  <2> QED BY <2>1, <2>2, <2>3 DEF BareThisIsSafe
<1> QED BY <1>1, TcpInvariant, PTL

\* The FIN comes after the data, whatever part of it the kernel takes at a
\* time, unless the peer is gone or the I/O thread gave the connection up.
THEOREM DataBeforeFinTheorem == TcpSpec => []DataBeforeFin
<1>1. TInv => DataBeforeFin
  BY DEF TInv, FinOK, DataBeforeFin
<1> QED BY <1>1, TcpInvariant, PTL

-----------------------------------------------------------------------------
(* Buffer: what the operations leave of the content                        *)

Buffers == [buffer_ : Seq(Nat), readerIndex_ : Nat, writerIndex_ : Nat]

\* The two indexes are in order and the cheap prepend is kept free.
IsBuffer(b) ==
    /\ b \in Buffers
    /\ kCheapPrepend <= b.readerIndex_
    /\ b.readerIndex_ <= b.writerIndex_
    /\ b.writerIndex_ <= Len(b.buffer_)

LEMMA Sizes == {kCheapPrepend, kInitialSize, kExtraSize} \subseteq Nat
BY BufferAssumption

LEMMA ZerosIs ==
    ASSUME NEW n \in Nat
    PROVE  Zeros(n) \in Seq(Nat) /\ Len(Zeros(n)) = n /\ \A i \in 1 .. n : Zeros(n)[i] = 0
BY DEF Zeros

\* Equality of sequences, element by element.
LEMMA SameSeq ==
    ASSUME NEW s \in Seq(Nat), NEW t \in Seq(Nat), Len(s) = Len(t),
           \A i \in 1 .. Len(s) : s[i] = t[i]
    PROVE  s = t
OBVIOUS

LEMMA SubSeqFacts ==
    ASSUME NEW s \in Seq(Nat), NEW m \in Nat, NEW n \in Nat, m <= n, n <= Len(s)
    PROVE  /\ SubSeq(s, m + 1, n) \in Seq(Nat) /\ Len(SubSeq(s, m + 1, n)) = n - m
           /\ \A i \in 1 .. n - m : SubSeq(s, m + 1, n)[i] = s[m + i]
<1>1. \A i \in m + 1 .. n : s[i] \in Nat
  OBVIOUS
<1> DEFINE k == m + 1
           t == SubSeq(s, k, n)
<1>2. k \in Int /\ n \in Int /\ k = m + 1
  OBVIOUS
<1>3. /\ t \in Seq(Nat) /\ Len(t) = IF k <= n THEN n - k + 1 ELSE 0
      /\ \A i \in 1 .. n - k + 1 : t[i] = s[k + i - 1]
  <2> HIDE DEF k
  <2> QED BY <1>1, <1>2, SubSeqProperties
<1> HIDE DEF k, t
<1>4. n - k + 1 = n - m /\ (~(k <= n) => n - m = 0) /\ \A i \in 1 .. n - m : k + i - 1 = m + i
  BY <1>2
<1>5. t \in Seq(Nat) /\ Len(t) = n - m /\ \A i \in 1 .. n - m : t[i] = s[m + i]
  BY <1>3, <1>4
<1> QED BY <1>5 DEF k, t

LEMMA CopyToIs ==
    ASSUME NEW bytes \in Seq(Nat), NEW at \in Nat, NEW data \in Seq(Nat),
           at + Len(data) <= Len(bytes)
    PROVE  /\ CopyTo(bytes, at, data) \in Seq(Nat)
           /\ Len(CopyTo(bytes, at, data)) = Len(bytes)
           /\ \A i \in 1 .. Len(bytes) :
                CopyTo(bytes, at, data)[i] =
                    IF i > at /\ i <= at + Len(data) THEN data[i - at] ELSE bytes[i]
<1> DEFINE first == SubSeq(bytes, 1, at)
           rest == SubSeq(bytes, at + Len(data) + 1, Len(bytes))
<1>1. Len(data) \in Nat /\ Len(bytes) \in Nat
  OBVIOUS
<1>2. first \in Seq(Nat) /\ Len(first) = at /\ \A i \in 1 .. at : first[i] = bytes[i]
  BY <1>1
<1>3. /\ rest \in Seq(Nat) /\ Len(rest) = Len(bytes) - at - Len(data)
      /\ \A i \in 1 .. Len(bytes) - at - Len(data) : rest[i] = bytes[at + Len(data) + i]
  <2> DEFINE m == at + Len(data)
  <2>1. m \in Nat /\ m <= Len(bytes) /\ Len(bytes) - m = Len(bytes) - at - Len(data)
    BY <1>1
  <2> HIDE DEF m
  <2>2. /\ SubSeq(bytes, m + 1, Len(bytes)) \in Seq(Nat)
        /\ Len(SubSeq(bytes, m + 1, Len(bytes))) = Len(bytes) - m
        /\ \A i \in 1 .. Len(bytes) - m : SubSeq(bytes, m + 1, Len(bytes))[i] = bytes[m + i]
    <3>1. Len(bytes) <= Len(bytes)
      BY <1>1
    <3> QED BY <1>1, <2>1, <3>1, SubSeqFacts
  <2> QED BY <2>1, <2>2 DEF m
<1> HIDE DEF first, rest
<1> DEFINE upTo == first \o data
<1>4. /\ upTo \in Seq(Nat) /\ Len(upTo) = at + Len(data)
      /\ \A i \in 1 .. at + Len(data) : upTo[i] = IF i > at THEN data[i - at] ELSE bytes[i]
  <2>1. /\ upTo \in Seq(Nat) /\ Len(upTo) = at + Len(data)
        /\ \A i \in 1 .. at + Len(data) :
             upTo[i] = IF i <= at THEN first[i] ELSE data[i - at]
    BY <1>2, ConcatProperties
  <2> HIDE DEF upTo
  <2> QED BY <1>1, <1>2, <2>1
<1> HIDE DEF upTo
<1>5. /\ upTo \o rest \in Seq(Nat) /\ Len(upTo \o rest) = Len(bytes)
      /\ \A i \in 1 .. Len(bytes) :
           (upTo \o rest)[i] = IF i <= at + Len(data) THEN upTo[i] ELSE rest[i - at - Len(data)]
  <2>1. /\ upTo \o rest \in Seq(Nat) /\ Len(upTo \o rest) = Len(upTo) + Len(rest)
        /\ \A i \in 1 .. Len(upTo) + Len(rest) :
             (upTo \o rest)[i] = IF i <= Len(upTo) THEN upTo[i] ELSE rest[i - Len(upTo)]
    <3>1. upTo \in Seq(Nat) /\ rest \in Seq(Nat)
      BY <1>3, <1>4
    <3> QED BY <3>1, ConcatProperties
  <2>2. Len(upTo) + Len(rest) = Len(bytes) /\ Len(upTo) = at + Len(data)
    BY <1>1, <1>3, <1>4
  <2>3. \A i \in 1 .. Len(bytes) : i - (at + Len(data)) = i - at - Len(data)
    BY <1>1
  <2> QED BY <2>1, <2>2, <2>3
<1>6. CopyTo(bytes, at, data) = upTo \o rest
  BY DEF CopyTo, upTo, first, rest
<1>7. \A i \in 1 .. Len(bytes) : i > at + Len(data) => rest[i - at - Len(data)] = bytes[i]
  BY <1>1, <1>3
<1>8. ASSUME NEW i \in 1 .. Len(bytes)
      PROVE  (upTo \o rest)[i] =
                IF i > at /\ i <= at + Len(data) THEN data[i - at] ELSE bytes[i]
  <2>1. CASE i <= at + Len(data)
    <3>1. i \in 1 .. at + Len(data)
      BY <1>1, <2>1
    <3> QED BY <1>4, <1>5, <2>1, <3>1
  <2>2. CASE ~(i <= at + Len(data))
    <3>1. i > at + Len(data)
      BY <1>1, <2>2
    <3> QED BY <1>5, <1>7, <2>2, <3>1
  <2> QED BY <2>1, <2>2
<1> QED BY <1>5, <1>6, <1>8

LEMMA ContentIs ==
    ASSUME NEW b, IsBuffer(b)
    PROVE  /\ Content(b) \in Seq(Nat)
           /\ Len(Content(b)) = readableBytes(b) /\ readableBytes(b) \in Nat
           /\ writableBytes(b) \in Nat
           /\ \A i \in 1 .. readableBytes(b) : Content(b)[i] = b.buffer_[b.readerIndex_ + i]
<1> DEFINE q == b.buffer_
           r == b.readerIndex_
           w == b.writerIndex_
<1>1. q \in Seq(Nat) /\ r \in Nat /\ w \in Nat /\ r <= w /\ w <= Len(q) /\ Len(q) \in Nat
  BY DEF IsBuffer, Buffers
<1> HIDE DEF q, r, w
<1>2. /\ SubSeq(q, r + 1, w) \in Seq(Nat) /\ Len(SubSeq(q, r + 1, w)) = w - r
      /\ \A i \in 1 .. w - r : SubSeq(q, r + 1, w)[i] = q[r + i]
  BY <1>1
<1>3. /\ Content(b) = SubSeq(q, r + 1, w) /\ readableBytes(b) = w - r
      /\ writableBytes(b) = Len(q) - w
  BY DEF Content, readableBytes, writableBytes, q, r, w
<1>4. \A i \in 1 .. readableBytes(b) : Content(b)[i] = q[r + i]
  BY <1>2, <1>3
<1>5. \A i \in 1 .. readableBytes(b) : Content(b)[i] = b.buffer_[b.readerIndex_ + i]
  BY <1>4 DEF q, r
<1>6. Len(q) - w \in Nat /\ w - r \in Nat
  BY <1>1
<1> QED BY <1>2, <1>3, <1>5, <1>6

LEMMA NewBufferIs == IsBuffer(NewBuffer) /\ Content(NewBuffer) = <<>>
<1>1. kCheapPrepend \in Nat /\ kInitialSize \in Nat /\ kCheapPrepend + kInitialSize \in Nat
  BY Sizes
<1>2. /\ Zeros(kCheapPrepend + kInitialSize) \in Seq(Nat)
      /\ Len(Zeros(kCheapPrepend + kInitialSize)) = kCheapPrepend + kInitialSize
  BY <1>1, ZerosIs
<1>3. IsBuffer(NewBuffer)
  BY <1>1, <1>2 DEF NewBuffer, IsBuffer, Buffers
<1>4. readableBytes(NewBuffer) = 0
  BY <1>1 DEF NewBuffer, readableBytes
<1> QED BY <1>3, <1>4, ContentIs

LEMMA WrittenIs ==
    ASSUME NEW b \in Buffers, NEW data
    PROVE  Written(b, data) = [buffer_ |-> CopyTo(b.buffer_, b.writerIndex_, data),
                               readerIndex_ |-> b.readerIndex_,
                               writerIndex_ |-> b.writerIndex_ + Len(data)]
<1>1. Written(b, data) \in [buffer_ : {CopyTo(b.buffer_, b.writerIndex_, data)},
                             readerIndex_ : {b.readerIndex_},
                             writerIndex_ : {b.writerIndex_ + Len(data)}]
  BY DEF Written, Buffers
<1> QED BY <1>1

\* Bytes written in place follow the content.
LEMMA WrittenAppends ==
    ASSUME NEW b, IsBuffer(b), NEW data \in Seq(Nat), Len(data) <= writableBytes(b)
    PROVE  /\ IsBuffer(Written(b, data))
           /\ Content(Written(b, data)) = Content(b) \o data
           /\ Written(b, data).readerIndex_ = b.readerIndex_
<1> DEFINE q == b.buffer_
           r == b.readerIndex_
           w == b.writerIndex_
           p == CopyTo(q, w, data)
           c == Written(b, data)
           old == Content(b)
           new == Content(c)
<1>1. /\ q \in Seq(Nat) /\ r \in Nat /\ w \in Nat /\ kCheapPrepend <= r /\ r <= w
      /\ Len(data) \in Nat /\ Len(q) \in Nat /\ w + Len(data) <= Len(q)
  BY DEF IsBuffer, Buffers, writableBytes
<1>2. c = [buffer_ |-> p, readerIndex_ |-> r, writerIndex_ |-> w + Len(data)]
  BY WrittenIs DEF IsBuffer
<1>3. /\ old \in Seq(Nat) /\ Len(old) = w - r /\ \A i \in 1 .. w - r : old[i] = q[r + i]
  BY ContentIs DEF readableBytes
<1> HIDE DEF q, r, w, c, p, old
<1>4. /\ p \in Seq(Nat) /\ Len(p) = Len(q)
      /\ \A i \in 1 .. Len(q) :
           p[i] = IF i > w /\ i <= w + Len(data) THEN data[i - w] ELSE q[i]
  BY <1>1, CopyToIs DEF p
<1>5. IsBuffer(c)
  BY <1>1, <1>2, <1>4 DEF IsBuffer, Buffers
<1>6. /\ new \in Seq(Nat) /\ Len(new) = (w + Len(data)) - r
      /\ \A i \in 1 .. (w + Len(data)) - r : new[i] = p[r + i]
  <2>1. /\ new \in Seq(Nat) /\ Len(new) = readableBytes(c)
        /\ \A i \in 1 .. readableBytes(c) : new[i] = c.buffer_[c.readerIndex_ + i]
    BY <1>5, ContentIs DEF new
  <2>2. readableBytes(c) = (w + Len(data)) - r /\ c.buffer_ = p /\ c.readerIndex_ = r
    <3>1. /\ c.buffer_ = p /\ c.readerIndex_ = r /\ c.writerIndex_ = w + Len(data)
      BY <1>2
    <3> QED BY <3>1 DEF readableBytes
  <2> QED BY <2>1, <2>2
<1> HIDE DEF new
<1>7. /\ old \o data \in Seq(Nat) /\ Len(old \o data) = (w + Len(data)) - r
      /\ \A i \in 1 .. (w + Len(data)) - r :
           (old \o data)[i] = IF i <= w - r THEN old[i] ELSE data[i - (w - r)]
  <2>1. /\ old \o data \in Seq(Nat) /\ Len(old \o data) = Len(old) + Len(data)
        /\ \A i \in 1 .. Len(old) + Len(data) :
             (old \o data)[i] = IF i <= Len(old) THEN old[i] ELSE data[i - Len(old)]
    BY <1>3, ConcatProperties
  <2>2. (w - r) + Len(data) = (w + Len(data)) - r
    BY <1>1
  <2> QED BY <1>3, <2>1, <2>2
<1>8. ASSUME NEW i \in 1 .. (w + Len(data)) - r PROVE new[i] = (old \o data)[i]
  <2>1. r + i \in 1 .. Len(q) /\ (i <= w - r <=> ~(r + i > w)) /\ new[i] = p[r + i]
    <3>1. i \in Nat /\ i >= 1 /\ i <= (w + Len(data)) - r
      BY <1>1
    <3>2. r + i \in 1 .. Len(q) /\ (i <= w - r <=> ~(r + i > w))
      BY <1>1, <3>1
    <3> QED BY <1>6, <3>2
  <2>2. CASE i <= w - r
    <3>1. i \in 1 .. w - r
      BY <1>1, <2>2
    <3>2. p[r + i] = q[r + i]
      BY <1>4, <2>1, <2>2
    <3> QED BY <1>3, <1>7, <2>1, <2>2, <3>1, <3>2
  <2>3. CASE ~(i <= w - r)
    <3>1. r + i > w /\ r + i <= w + Len(data) /\ (r + i) - w = i - (w - r)
      BY <1>1, <2>3
    <3>2. \A k \in 1 .. Len(q) : k > w /\ k <= w + Len(data) => p[k] = data[k - w]
      BY <1>4
    <3>3. p[r + i] = data[(r + i) - w]
      BY <2>1, <3>1, <3>2
    <3> QED BY <1>7, <2>1, <2>3, <3>1, <3>3
  <2> QED BY <2>2, <2>3
<1>9. new = old \o data
  BY <1>6, <1>7, <1>8, SameSeq
<1>10. c.readerIndex_ = r
  BY <1>2
<1> QED BY <1>5, <1>9, <1>10 DEF c, old, new, r

\* Growing and moving leave the content alone and make room.
LEMMA MakeSpaceKeeps ==
    ASSUME NEW b, IsBuffer(b), NEW n \in Nat, writableBytes(b) < n
    PROVE  /\ IsBuffer(makeSpace(b, n))
           /\ Content(makeSpace(b, n)) = Content(b)
           /\ n <= writableBytes(makeSpace(b, n))
<1> DEFINE q == b.buffer_
           r == b.readerIndex_
           w == b.writerIndex_
           c == makeSpace(b, n)
           old == Content(b)
           new == Content(c)
<1>1. /\ q \in Seq(Nat) /\ r \in Nat /\ w \in Nat /\ kCheapPrepend <= r /\ r <= w
      /\ Len(q) \in Nat /\ w <= Len(q) /\ kCheapPrepend \in Nat
      /\ b = [buffer_ |-> q, readerIndex_ |-> r, writerIndex_ |-> w]
  BY Sizes DEF IsBuffer, Buffers
<1>2. /\ old \in Seq(Nat) /\ Len(old) = w - r /\ \A i \in 1 .. w - r : old[i] = q[r + i]
  BY ContentIs DEF readableBytes
<1>3. /\ readableBytes(b) = w - r /\ writableBytes(b) = Len(q) - w /\ prependableBytes(b) = r
  BY DEF readableBytes, writableBytes, prependableBytes
<1>4. CASE writableBytes(b) + prependableBytes(b) < n + kCheapPrepend
  <2> DEFINE more == Zeros((w + n) - Len(q))
  <2>1. c = [buffer_ |-> q \o more, readerIndex_ |-> r, writerIndex_ |-> w]
    <3>1. c = [b EXCEPT !.buffer_ = q \o Zeros(w + n - Len(q))]
      BY <1>4 DEF makeSpace
    <3>2. w + n - Len(q) = (w + n) - Len(q)
      BY <1>1
    <3> HIDE DEF q, r, w, c
    <3> QED BY <1>1, <3>1, <3>2
  <2> HIDE DEF q, r, w, c, old
  <2>2. (w + n) - Len(q) \in Nat
    BY <1>1, <1>3
  <2>3. more \in Seq(Nat) /\ Len(more) = (w + n) - Len(q)
    BY <2>2, ZerosIs
  <2> HIDE DEF more
  <2>4. /\ q \o more \in Seq(Nat) /\ Len(q \o more) = w + n
        /\ \A i \in 1 .. Len(q) : (q \o more)[i] = q[i]
    <3>1. /\ q \o more \in Seq(Nat) /\ Len(q \o more) = Len(q) + Len(more)
          /\ \A i \in 1 .. Len(q) + Len(more) :
               (q \o more)[i] = IF i <= Len(q) THEN q[i] ELSE more[i - Len(q)]
      BY <1>1, <2>3, ConcatProperties
    <3> QED BY <1>1, <2>2, <2>3, <3>1
  <2>5. IsBuffer(c)
    BY <1>1, <2>1, <2>4 DEF IsBuffer, Buffers
  <2>6. readableBytes(c) = w - r /\ c.buffer_ = q \o more /\ c.readerIndex_ = r
        /\ writableBytes(c) = (w + n) - w
    BY <2>1, <2>4 DEF readableBytes, writableBytes
  <2>7. new \in Seq(Nat) /\ Len(new) = w - r /\ \A i \in 1 .. w - r : new[i] = (q \o more)[r + i]
    <3>1. /\ new \in Seq(Nat) /\ Len(new) = readableBytes(c)
          /\ \A i \in 1 .. readableBytes(c) : new[i] = c.buffer_[c.readerIndex_ + i]
      BY <2>5, ContentIs
    <3> QED BY <2>6, <3>1
  <2> HIDE DEF new
  <2>8. \A i \in 1 .. w - r : r + i \in 1 .. Len(q)
    BY <1>1
  <2>9. new = old
    BY <1>2, <2>4, <2>7, <2>8, SameSeq
  <2> QED BY <1>1, <2>5, <2>6, <2>9 DEF c, old, new
<1>5. CASE ~(writableBytes(b) + prependableBytes(b) < n + kCheapPrepend)
  <2> DEFINE p == CopyTo(q, kCheapPrepend, old)
  <2>1. c = [buffer_ |-> p, readerIndex_ |-> kCheapPrepend,
             writerIndex_ |-> kCheapPrepend + (w - r)]
    BY <1>3, <1>5 DEF makeSpace
  <2> HIDE DEF q, r, w, c, old
  <2>2. kCheapPrepend + Len(old) <= Len(q) /\ kCheapPrepend + (w - r) \in Nat
    BY <1>1, <1>2
  <2>3. /\ p \in Seq(Nat) /\ Len(p) = Len(q)
        /\ \A i \in 1 .. Len(q) : p[i] = IF i > kCheapPrepend /\ i <= kCheapPrepend + Len(old)
                                         THEN old[i - kCheapPrepend] ELSE q[i]
    BY <1>1, <1>2, <2>2, CopyToIs
  <2> HIDE DEF p
  <2>4. IsBuffer(c)
    BY <1>1, <1>2, <2>1, <2>2, <2>3 DEF IsBuffer, Buffers
  <2>5. readableBytes(c) = w - r /\ c.buffer_ = p /\ c.readerIndex_ = kCheapPrepend
        /\ writableBytes(c) = Len(q) - (kCheapPrepend + (w - r))
    BY <1>1, <2>1, <2>3 DEF readableBytes, writableBytes
  <2>6. new \in Seq(Nat) /\ Len(new) = w - r /\ \A i \in 1 .. w - r : new[i] = p[kCheapPrepend + i]
    <3>1. /\ new \in Seq(Nat) /\ Len(new) = readableBytes(c)
          /\ \A i \in 1 .. readableBytes(c) : new[i] = c.buffer_[c.readerIndex_ + i]
      BY <2>4, ContentIs
    <3> QED BY <2>5, <3>1
  <2> HIDE DEF new
  <2>7. \A k \in 1 .. Len(q) : k > kCheapPrepend /\ k <= kCheapPrepend + Len(old)
                                  => p[k] = old[k - kCheapPrepend]
    BY <2>3
  <2>8. ASSUME NEW i \in 1 .. w - r PROVE new[i] = old[i]
    <3>1. /\ kCheapPrepend + i \in 1 .. Len(q) /\ kCheapPrepend + i > kCheapPrepend
          /\ kCheapPrepend + i <= kCheapPrepend + Len(old)
          /\ (kCheapPrepend + i) - kCheapPrepend = i
      <4>1. i \in Nat /\ i >= 1 /\ i <= Len(old) /\ Len(old) \in Nat
        BY <1>1, <1>2
      <4> QED BY <1>1, <2>2, <4>1
    <3> QED BY <2>6, <2>7, <3>1
  <2>9. new = old
    BY <1>2, <2>6, <2>8, SameSeq
  <2>10. n <= writableBytes(c)
    BY <1>1, <1>3, <1>5, <2>5
  <2> QED BY <2>4, <2>9, <2>10 DEF c, old, new
<1> QED BY <1>4, <1>5

LEMMA EnsureKeeps ==
    ASSUME NEW b, IsBuffer(b), NEW n \in Nat
    PROVE  /\ IsBuffer(ensureWritableBytes(b, n))
           /\ Content(ensureWritableBytes(b, n)) = Content(b)
           /\ n <= writableBytes(ensureWritableBytes(b, n))
<1>1. writableBytes(b) \in Nat
  BY ContentIs
<1>2. CASE writableBytes(b) < n
  BY <1>2, MakeSpaceKeeps DEF ensureWritableBytes
<1>3. CASE ~(writableBytes(b) < n)
  BY <1>1, <1>3 DEF ensureWritableBytes
<1> QED BY <1>2, <1>3

\* append() puts its bytes after the content, whatever it had to move.
LEMMA AppendAppends ==
    ASSUME NEW b, IsBuffer(b), NEW data \in Seq(Nat)
    PROVE  IsBuffer(append(b, data)) /\ Content(append(b, data)) = Content(b) \o data
<1>1. Len(data) \in Nat
  OBVIOUS
<1> QED BY <1>1, EnsureKeeps, WrittenAppends DEF append

\* readFd() appends what the kernel delivered, in one block or in two.
LEMMA ReadAppends ==
    ASSUME NEW b, IsBuffer(b), NEW data \in Seq(Nat)
    PROVE  IsBuffer(readFd(b, data)) /\ Content(readFd(b, data)) = Content(b) \o data
<1> DEFINE n == writableBytes(b)
           one == SubSeq(data, 1, n)
           two == SubSeq(data, n + 1, Len(data))
<1>1. n \in Nat /\ Len(data) \in Nat /\ Content(b) \in Seq(Nat)
  BY ContentIs
<1>2. CASE Len(data) <= n
  BY <1>2, WrittenAppends DEF readFd
<1>3. CASE ~(Len(data) <= n)
  <2> DEFINE c == Written(b, one)
  <2>1. readFd(b, data) = append(c, two)
    BY <1>3 DEF readFd
  <2> HIDE DEF n
  <2>2. one \in Seq(Nat) /\ two \in Seq(Nat) /\ Len(one) = n
    BY <1>1, <1>3
  <2>3. data = one \o two
    <3>1. 1 \in 1 .. Len(data) + 1 /\ n \in 1 - 1 .. Len(data) /\ Len(data) \in n .. Len(data)
      BY <1>1, <1>3
    <3>2. one \o two = SubSeq(data, 1, Len(data))
      BY <3>1, ConcatAdjacentSubSeq
    <3> QED BY <3>2, SubSeqFull
  <2> HIDE DEF one, two
  <2>4. IsBuffer(c) /\ Content(c) = Content(b) \o one
    BY <1>1, <2>2, WrittenAppends DEF n
  <2>5. IsBuffer(append(c, two)) /\ Content(append(c, two)) = (Content(b) \o one) \o two
    BY <2>2, <2>4, AppendAppends
  <2>6. (Content(b) \o one) \o two = Content(b) \o data
    BY <1>1, <2>2, <2>3, ConcatAssociative
  <2> QED BY <2>1, <2>5, <2>6
<1> QED BY <1>2, <1>3

\* retrieve() takes bytes from the front.
LEMMA RetrieveTakes ==
    ASSUME NEW b, IsBuffer(b), NEW n \in 0 .. readableBytes(b)
    PROVE  /\ IsBuffer(retrieve(b, n))
           /\ Content(retrieve(b, n)) = SubSeq(Content(b), n + 1, readableBytes(b))
<1> DEFINE q == b.buffer_
           r == b.readerIndex_
           w == b.writerIndex_
           c == retrieve(b, n)
           old == Content(b)
<1>1. /\ q \in Seq(Nat) /\ r \in Nat /\ w \in Nat /\ kCheapPrepend <= r /\ r <= w
      /\ Len(q) \in Nat /\ w <= Len(q) /\ kCheapPrepend \in Nat
      /\ b = [buffer_ |-> q, readerIndex_ |-> r, writerIndex_ |-> w]
      /\ readableBytes(b) = w - r
  BY Sizes DEF IsBuffer, Buffers, readableBytes
<1>2. /\ old \in Seq(Nat) /\ Len(old) = w - r /\ \A i \in 1 .. w - r : old[i] = q[r + i]
  BY ContentIs DEF readableBytes
<1>3. CASE n < readableBytes(b)
  <2>1. c = [b EXCEPT !.readerIndex_ = r + n]
    BY <1>3 DEF retrieve
  <2> HIDE DEF q, r, w, c, old
  <2>2. c = [buffer_ |-> q, readerIndex_ |-> r + n, writerIndex_ |-> w]
    BY <1>1, <2>1
  <2>3. n \in Nat /\ r + n \in Nat /\ r + n <= w /\ kCheapPrepend <= r + n
    BY <1>1, <1>3
  <2>4. IsBuffer(c)
    BY <1>1, <2>2, <2>3 DEF IsBuffer, Buffers
  <2>5. Content(c) = SubSeq(q, (r + n) + 1, w) /\ old = SubSeq(q, r + 1, w)
    BY <1>1, <2>2 DEF Content, old
  <2>6. /\ SubSeq(q, (r + n) + 1, w) \in Seq(Nat) /\ Len(SubSeq(q, (r + n) + 1, w)) = w - (r + n)
        /\ \A i \in 1 .. w - (r + n) : SubSeq(q, (r + n) + 1, w)[i] = q[(r + n) + i]
    BY <1>1, <2>3, SubSeqFacts
  <2>7. /\ SubSeq(old, n + 1, w - r) \in Seq(Nat) /\ Len(SubSeq(old, n + 1, w - r)) = (w - r) - n
        /\ \A i \in 1 .. (w - r) - n : SubSeq(old, n + 1, w - r)[i] = old[n + i]
    <3>1. w - r \in Nat /\ n <= w - r /\ w - r <= Len(old)
      BY <1>1, <1>2, <1>3
    <3> QED BY <1>2, <2>3, <3>1, SubSeqFacts
  <2>8. w - (r + n) = (w - r) - n /\ \A i \in 1 .. w - (r + n) : n + i \in 1 .. w - r /\ (r + n) + i = r + (n + i)
    BY <1>1, <2>3
  <2>9. \A i \in 1 .. w - (r + n) : SubSeq(q, (r + n) + 1, w)[i] = SubSeq(old, n + 1, w - r)[i]
    BY <1>2, <2>6, <2>7, <2>8
  <2>10. SubSeq(q, (r + n) + 1, w) = SubSeq(old, n + 1, w - r)
    BY <2>6, <2>7, <2>8, <2>9, SameSeq
  <2> QED BY <1>1, <2>4, <2>5, <2>10 DEF c, old
<1>4. CASE ~(n < readableBytes(b))
  <2>1. n = readableBytes(b)
    BY <1>1, <1>4
  <2>2. c = retrieveAll(b)
    BY <1>4 DEF retrieve
  <2> HIDE DEF q, r, w, old, c
  <2>3. c = [buffer_ |-> q, readerIndex_ |-> kCheapPrepend, writerIndex_ |-> kCheapPrepend]
    BY <1>1, <2>2 DEF retrieveAll
  <2>4. IsBuffer(c)
    BY <1>1, <2>3 DEF IsBuffer, Buffers
  <2>5. readableBytes(c) = 0
    BY <1>1, <2>3 DEF readableBytes
  <2>6. Content(c) = <<>>
    BY <2>4, <2>5, ContentIs
  <2>7. SubSeq(old, n + 1, n) = <<>>
    BY <1>1, <2>1, SubSeqEmpty
  <2> QED BY <2>1, <2>4, <2>6, <2>7 DEF c, old
<1> QED BY <1>3, <1>4

-----------------------------------------------------------------------------
(* Frames and the stream                                                   *)

LEMMA LenSizes == kHeaderLen = 4 /\ kMinMessageLen = 10
BY DEF kHeaderLen, kMinMessageLen

LEMMA AppendGrows ==
    ASSUME NEW b, IsBuffer(b), NEW data \in Seq(Nat)
    PROVE  /\ IsBuffer(append(b, data))
           /\ readableBytes(append(b, data)) = readableBytes(b) + Len(data)
<1>1. IsBuffer(append(b, data)) /\ Content(append(b, data)) = Content(b) \o data
  BY AppendAppends
<1>2. Content(b) \in Seq(Nat) /\ Len(Content(b)) = readableBytes(b)
  BY ContentIs
<1>3. Len(Content(b) \o data) = readableBytes(b) + Len(data)
  BY <1>2, ConcatProperties
<1> QED BY <1>1, <1>3, ContentIs

\* What fillEmptyBuffer makes, parse() takes apart again.
LEMMA FilledParses ==
    ASSUME NEW nameSize \in Nat \ {0}, NEW byte_size \in Nat, NEW f,
           f = fillEmptyBuffer(nameSize, byte_size)
    PROVE  /\ f.len = (nameSize + 1) + byte_size + 2 * kHeaderLen
           /\ f.size = kHeaderLen + f.len
           /\ f.len >= kMinMessageLen
           /\ parse(f) = "kNoError"
<1> DEFINE nameLen == nameSize + 1
           sized == append(NewBuffer, Zeros(kHeaderLen))
           named == append(sized, Zeros(nameLen))
           roomy == ensureWritableBytes(named, byte_size)
           serialized == Written(roomy, Zeros(byte_size))
           summed == append(serialized, Zeros(kHeaderLen))
           framed == prepend(summed, Zeros(kHeaderLen))
<1>1. /\ kHeaderLen \in Nat /\ nameLen \in Nat /\ byte_size \in Nat
      /\ \A n \in Nat : Zeros(n) \in Seq(Nat) /\ Len(Zeros(n)) = n
  BY LenSizes, ZerosIs
<1>2. IsBuffer(NewBuffer) /\ readableBytes(NewBuffer) = 0
  BY NewBufferIs, ContentIs
<1> HIDE DEF nameLen
<1>3. IsBuffer(sized) /\ readableBytes(sized) = kHeaderLen
  <2>1. IsBuffer(sized) /\ readableBytes(sized) = readableBytes(NewBuffer) + Len(Zeros(kHeaderLen))
    BY <1>1, <1>2, AppendGrows
  <2> HIDE DEF sized
  <2> QED BY <1>1, <1>2, <2>1
<1> HIDE DEF sized
<1>4. IsBuffer(named) /\ readableBytes(named) = kHeaderLen + nameLen
  BY <1>1, <1>3, AppendGrows
<1> HIDE DEF named
<1>5. IsBuffer(roomy) /\ readableBytes(roomy) = kHeaderLen + nameLen
      /\ byte_size <= writableBytes(roomy)
  BY <1>1, <1>4, EnsureKeeps, ContentIs
<1> HIDE DEF roomy
<1>6. IsBuffer(serialized) /\ readableBytes(serialized) = kHeaderLen + nameLen + byte_size
  <2>1. /\ IsBuffer(serialized) /\ Content(serialized) = Content(roomy) \o Zeros(byte_size)
        /\ Content(roomy) \in Seq(Nat) /\ Len(Content(roomy)) = kHeaderLen + nameLen
    BY <1>1, <1>5, WrittenAppends, ContentIs
  <2>2. Len(Content(serialized)) = (kHeaderLen + nameLen) + byte_size
    BY <1>1, <2>1, ConcatProperties
  <2> QED BY <2>1, <2>2, ContentIs
<1> HIDE DEF serialized
<1>7. IsBuffer(summed) /\ readableBytes(summed) = nameLen + byte_size + 2 * kHeaderLen
  <2>1. IsBuffer(summed) /\ readableBytes(summed) = readableBytes(serialized) + kHeaderLen
    BY <1>1, <1>6, AppendGrows
  <2> QED BY <1>1, <1>6, <2>1, LenSizes
<1> HIDE DEF summed
<1>8. readableBytes(framed) = kHeaderLen + readableBytes(summed)
  <2>1. summed \in Buffers /\ summed.readerIndex_ \in Nat /\ summed.writerIndex_ \in Nat
    BY <1>7 DEF IsBuffer, Buffers
  <2>2. /\ framed.readerIndex_ = summed.readerIndex_ - kHeaderLen
        /\ framed.writerIndex_ = summed.writerIndex_
    BY <1>1, <2>1 DEF prepend, Buffers
  <2> HIDE DEF framed
  <2>3. /\ readableBytes(framed) = summed.writerIndex_ - (summed.readerIndex_ - kHeaderLen)
        /\ readableBytes(summed) = summed.writerIndex_ - summed.readerIndex_
    BY <2>2 DEF readableBytes
  <2>4. \A x, y, h \in Nat : y - (x - h) = h + (y - x)
    OBVIOUS
  <2> DEFINE x == summed.readerIndex_
             y == summed.writerIndex_
  <2>5. x \in Nat /\ y \in Nat /\ readableBytes(framed) = y - (x - kHeaderLen)
        /\ readableBytes(summed) = y - x
    BY <2>1, <2>3
  <2> HIDE DEF x, y
  <2> QED BY <1>1, <2>4, <2>5
<1> HIDE DEF framed
<1>9. f = [len |-> readableBytes(summed), nameLen |-> nameLen, sum |-> TRUE, known |-> TRUE,
           body |-> byte_size, size |-> readableBytes(framed), intact |-> TRUE]
  BY DEF fillEmptyBuffer, framed, summed, serialized, roomy, named, sized, nameLen
<1>10. /\ f.len = nameLen + byte_size + 2 * kHeaderLen /\ f.size = kHeaderLen + f.len
       /\ f.nameLen = nameLen /\ f.sum = TRUE /\ f.known = TRUE /\ f.body = byte_size
  BY <1>7, <1>8, <1>9
<1>11. nameLen >= 2 /\ nameLen = nameSize + 1
  BY DEF nameLen
<1>12. /\ f.nameLen >= 2 /\ f.nameLen <= f.len - 2 * kHeaderLen
       /\ f.len - f.nameLen - 2 * kHeaderLen = f.body /\ f.len >= kMinMessageLen
  BY <1>1, <1>10, <1>11, LenSizes
<1>13. parse(f) = "kNoError"
  BY <1>10, <1>12 DEF parse
<1> QED BY <1>10, <1>11, <1>12, <1>13

LEMMA FrameTypes ==
    ASSUME NEW s \in Seq(Frames), NEW i \in 1 .. Len(s)
    PROVE  /\ s[i].size \in Nat /\ s[i].len \in Int /\ s[i].nameLen \in Int
           /\ s[i].intact \in BOOLEAN
<1>1. s[i] \in Frames
  OBVIOUS
<1> QED BY <1>1 DEF Frames

\* A non-empty set of places in a stream has a first one.
LEMMA FirstOne ==
    ASSUME NEW n \in Nat, NEW Bad \in SUBSET (0 .. n), Bad # {}
    PROVE  \E k \in Bad : \A m \in Bad : k <= m
<1> DEFINE R == {q \in Nat \X Nat : q[1] < q[2]}
<1>1. IsWellFoundedOn(R, Nat)
  BY NatLessThanWellFounded DEF OpToRel
<1>2. PICK k \in Bad : \A m \in Bad : ~(<<m, k>> \in R)
  <2> HIDE DEF R
  <2>1. Bad \subseteq Nat
    OBVIOUS
  <2> QED BY <1>1, <2>1, WFMin
<1>3. ASSUME NEW m \in Bad PROVE k <= m
  <2>1. k \in Nat /\ m \in Nat /\ <<m, k>> \notin R
    BY <1>2
  <2> QED BY <2>1
<1> QED BY <1>3

\* The recursion behind End() has a solution.
LEMMA EndExists ==
    ASSUME NEW s \in Seq(Frames)
    PROVE  \E g \in [0 .. Len(s) -> Nat] :
              g = [i \in 0 .. Len(s) |-> IF i = 0 THEN 0 ELSE g[i - 1] + s[i].size]
<1> DEFINE P(n) == \E g \in [0 .. n -> Nat] :
                      g = [i \in 0 .. n |-> IF i = 0 THEN 0 ELSE g[i - 1] + s[i].size]
           Bad == {n \in 0 .. Len(s) : ~P(n)}
<1>1. P(0)
  <2> DEFINE g == [i \in 0 .. 0 |-> 0]
  <2>1. g \in [0 .. 0 -> Nat]
    OBVIOUS
  <2>2. g = [i \in 0 .. 0 |-> IF i = 0 THEN 0 ELSE g[i - 1] + s[i].size]
    OBVIOUS
  <2> HIDE DEF g
  <2> QED BY <2>1, <2>2
<1>2. ASSUME NEW n \in 1 .. Len(s), P(n - 1) PROVE P(n)
  <2> DEFINE m == n - 1
  <2>1. m \in Nat /\ n = m + 1 /\ n \in Nat /\ s[n].size \in Nat
    BY FrameTypes
  <2>2. PICK g \in [0 .. m -> Nat] :
            g = [i \in 0 .. m |-> IF i = 0 THEN 0 ELSE g[i - 1] + s[i].size]
    BY <1>2
  <2> HIDE DEF m
  <2> DEFINE h == [i \in 0 .. n |-> IF i = n THEN g[m] + s[n].size ELSE g[i]]
  <2>3. g[m] \in Nat /\ \A i \in 0 .. m : g[i] \in Nat /\ g[i] = IF i = 0 THEN 0 ELSE g[i - 1] + s[i].size
    BY <2>1, <2>2
  <2>4. \A i \in 0 .. n : i # n => i \in 0 .. m /\ (i # 0 => i - 1 \in 0 .. m)
    BY <2>1
  <2>5. h \in [0 .. n -> Nat]
    BY <2>1, <2>3, <2>4
  <2>6. ASSUME NEW i \in 0 .. n PROVE h[i] = IF i = 0 THEN 0 ELSE h[i - 1] + s[i].size
    <3>1. CASE i = n
      <4>1. i # 0 /\ i - 1 = m /\ m \in 0 .. n /\ m # n
        BY <2>1, <3>1
      <4>2. h[i] = g[m] + s[n].size /\ h[m] = g[m]
        BY <3>1, <4>1
      <4> QED BY <3>1, <4>1, <4>2
    <3>2. CASE i # n
      <4>1. h[i] = g[i] /\ (i # 0 => i - 1 \in 0 .. n /\ i - 1 # n /\ h[i - 1] = g[i - 1])
        BY <2>1, <2>4, <3>2
      <4> HIDE DEF h
      <4> QED BY <2>3, <2>4, <3>2, <4>1
    <3> QED BY <3>1, <3>2
  <2> HIDE DEF h
  <2>7. h = [i \in 0 .. n |-> IF i = 0 THEN 0 ELSE h[i - 1] + s[i].size]
    BY <2>5, <2>6
  <2> QED BY <2>5, <2>7
<1> HIDE DEF P
<1>3. Bad = {}
  <2>1. ASSUME Bad # {} PROVE FALSE
    <3>1. Bad \in SUBSET (0 .. Len(s)) /\ Len(s) \in Nat
      OBVIOUS
    <3>2. PICK n \in Bad : \A k \in Bad : n <= k
      BY <2>1, <3>1, FirstOne
    <3>3. n # 0 /\ n \in 0 .. Len(s) /\ ~P(n)
      BY <1>1, <3>2
    <3>4. n \in 1 .. Len(s) /\ n - 1 \in 0 .. Len(s) /\ ~(n <= n - 1)
      BY <3>3
    <3>5. P(n - 1)
      BY <3>2, <3>4
    <3> QED BY <1>2, <3>3, <3>4, <3>5
  <2> QED BY <2>1
<1>4. P(Len(s))
  <2>1. Len(s) \in 0 .. Len(s)
    OBVIOUS
  <2> QED BY <1>3, <2>1
<1> QED BY <1>4 DEF P

LEMMA EndIs ==
    ASSUME NEW s \in Seq(Frames)
    PROVE  /\ End(s)[0] = 0
           /\ \A i \in 0 .. Len(s) : End(s)[i] \in Nat
           /\ \A i \in 1 .. Len(s) : End(s)[i] = End(s)[i - 1] + s[i].size
<1> DEFINE P(e) == e = [i \in 0 .. Len(s) |-> IF i = 0 THEN 0 ELSE e[i - 1] + s[i].size]
<1>1. \E e : P(e)
  BY EndExists
<1>2. End(s) = CHOOSE e : P(e)
  BY Zenon DEF End
<1>3. (\E e : P(e)) => P(CHOOSE e : P(e))
  BY Zenon
<1>4. P(End(s))
  BY <1>1, <1>2, <1>3, Zenon
<1>5. \A i \in 0 .. Len(s) : End(s)[i] = IF i = 0 THEN 0 ELSE End(s)[i - 1] + s[i].size
  BY <1>4, Zenon
<1> DEFINE Bad == {n \in 0 .. Len(s) : End(s)[n] \notin Nat}
<1>6. End(s)[0] = 0
  BY <1>5
<1>7. \A i \in 1 .. Len(s) : End(s)[i] = End(s)[i - 1] + s[i].size /\ s[i].size \in Nat
  BY <1>5, FrameTypes
<1>8. ASSUME Bad # {} PROVE FALSE
  <2>0. Bad \in SUBSET (0 .. Len(s)) /\ Len(s) \in Nat
    OBVIOUS
  <2>1. PICK n \in Bad : \A k \in Bad : n <= k
    BY <1>8, <2>0, FirstOne
  <2>2. n # 0 /\ n \in 0 .. Len(s) /\ End(s)[n] \notin Nat
    BY <1>6, <2>1
  <2>3. n \in 1 .. Len(s) /\ n - 1 \in 0 .. Len(s) /\ ~(n <= n - 1)
    BY <2>2
  <2>4. End(s)[n - 1] \in Nat
    BY <2>1, <2>3
  <2> QED BY <1>7, <2>2, <2>3, <2>4
<1> QED BY <1>6, <1>7, <1>8

\* Later frames end later.
LEMMA EndGrows ==
    ASSUME NEW s \in Seq(Frames), NEW i \in 0 .. Len(s), NEW j \in 0 .. Len(s), i <= j
    PROVE  End(s)[i] <= End(s)[j]
<1> DEFINE Bad == {n \in 0 .. Len(s) : i <= n /\ ~(End(s)[i] <= End(s)[n])}
<1>1. /\ \A n \in 0 .. Len(s) : End(s)[n] \in Nat
      /\ \A n \in 1 .. Len(s) : End(s)[n] = End(s)[n - 1] + s[n].size /\ s[n].size \in Nat
  BY EndIs, FrameTypes
<1>2. ASSUME Bad # {} PROVE FALSE
  <2>0. Bad \in SUBSET (0 .. Len(s)) /\ Len(s) \in Nat
    OBVIOUS
  <2>1. PICK n \in Bad : \A k \in Bad : n <= k
    BY <1>2, <2>0, FirstOne
  <2>2. n # i /\ n \in 0 .. Len(s) /\ i <= n /\ ~(End(s)[i] <= End(s)[n])
    BY <1>1, <2>1
  <2>3. n \in 1 .. Len(s) /\ n - 1 \in 0 .. Len(s) /\ ~(n <= n - 1) /\ i <= n - 1
    BY <2>2
  <2>4. End(s)[i] <= End(s)[n - 1]
    BY <2>1, <2>3
  <2>5. End(s)[i] \in Nat /\ End(s)[n - 1] \in Nat /\ s[n].size \in Nat
        /\ End(s)[n] = End(s)[n - 1] + s[n].size
    BY <1>1, <2>3
  <2> QED BY <2>2, <2>4, <2>5
<1> QED BY <1>2

-----------------------------------------------------------------------------
(* The invariant                                                           *)

\* What StreamsAssumption says of one frame.
LEMMA FrameKinds ==
    ASSUME NEW s \in Streams, NEW i \in 1 .. Len(s)
    PROVE  /\ s \in Seq(Frames)
           /\ s[i].intact => /\ s[i].len \in kMinMessageLen .. kMaxMessageLen
                             /\ s[i].size = kHeaderLen + s[i].len
                             /\ parse(s[i]) = "kNoError"
           /\ ~s[i].intact => \/ s[i].len \notin kMinMessageLen .. kMaxMessageLen
                              \/ s[i].size = kHeaderLen + s[i].len /\ parse(s[i]) # "kNoError"
<1>1. s \in Seq(Frames)
  BY StreamsAssumption
<1>2. s[i].len \in Int /\ kMaxMessageLen \in Nat
  BY <1>1, FrameTypes, StreamsAssumption
<1>3. ASSUME s[i].intact
      PROVE  /\ s[i].len \in kMinMessageLen .. kMaxMessageLen
             /\ s[i].size = kHeaderLen + s[i].len /\ parse(s[i]) = "kNoError"
  <2>1. s[i].len <= kMaxMessageLen
    BY <1>3, StreamsAssumption
  <2>2. PICK nameSize \in 1 .. s[i].len, byte_size \in 0 .. s[i].len :
            s[i] = fillEmptyBuffer(nameSize, byte_size)
    BY <1>3, StreamsAssumption
  <2>3. nameSize \in Nat \ {0} /\ byte_size \in Nat
    OBVIOUS
  <2>4. /\ s[i].size = kHeaderLen + s[i].len /\ s[i].len >= kMinMessageLen
        /\ parse(s[i]) = "kNoError"
    BY <2>2, <2>3, FilledParses
  <2> QED BY <1>2, <2>1, <2>4, LenSizes
<1>4. ASSUME ~s[i].intact
      PROVE  \/ s[i].len \notin kMinMessageLen .. kMaxMessageLen
             \/ s[i].size = kHeaderLen + s[i].len /\ parse(s[i]) # "kNoError"
  <2>1. s[i].len \notin kMinMessageLen .. kMaxMessageLen \/ DamagedInside(s[i])
    BY <1>4, StreamsAssumption
  <2>2. ASSUME DamagedInside(s[i])
        PROVE  s[i].size = kHeaderLen + s[i].len /\ parse(s[i]) # "kNoError"
    <3>1. s[i].nameLen \in Int
      BY <1>1, FrameTypes
    <3>2. ~s[i].sum => parse(s[i]) = "kCheckSumError"
      BY DEF parse
    <3>3. parse(s[i]) = "kNoError" =>
             /\ s[i].nameLen >= 2 /\ s[i].nameLen <= s[i].len - 2 * kHeaderLen
             /\ s[i].known /\ s[i].len - s[i].nameLen - 2 * kHeaderLen = s[i].body
      BY DEF parse
    <3> QED BY <1>2, <2>2, <3>1, <3>2, <3>3, LenSizes DEF DamagedInside
  <2> QED BY <2>1, <2>2
<1> QED BY <1>1, <1>3, <1>4

CountersOK ==
    /\ stream \in Streams
    /\ next \in 1 .. Len(stream) + 1
    /\ arrived \in Nat /\ arrived <= End(stream)[Len(stream)]
    /\ retrieved = End(stream)[next - 1] /\ retrieved <= arrived
    /\ errorCode \in ErrorCodes /\ {connected, inOnMessage} \subseteq BOOLEAN

\* Dispatched are the frames before the front one, all of them intact.
DispatchedOK ==
    /\ dispatched = [k \in 1 .. next - 1 |-> k]
    /\ \A j \in 1 .. next - 1 : stream[j].intact

\* Between two reads nothing more can be taken, or the connection is shut down.
QuietOK == ~inOnMessage /\ EnoughToLook => ~connected \/ (LengthOK /\ ~WholeFrame)

\* The connection is only shut down for a damaged front frame.
ShutOK == ~connected => next <= Len(stream) /\ ~stream[next].intact

FInv ==
    /\ IsBuffer(inputBuffer_) /\ BufferHoldsStream
    /\ CountersOK
    /\ DispatchedOK
    /\ QuietOK
    /\ ShutOK

LEMMA Basics ==
    ASSUME FInv
    PROVE  /\ stream \in Seq(Frames) /\ Len(stream) \in Nat
           /\ next \in Nat \ {0} /\ next - 1 \in 0 .. Len(stream)
           /\ retrieved \in Nat /\ arrived \in Nat
           /\ readableBytes(inputBuffer_) = arrived - retrieved
           /\ next = Len(stream) + 1 => ~EnoughToLook
<1>1. stream \in Seq(Frames) /\ next \in 1 .. Len(stream) + 1
  BY StreamsAssumption DEF FInv, CountersOK
<1>2. Len(stream) \in Nat /\ next \in Nat \ {0} /\ next - 1 \in 0 .. Len(stream)
  BY <1>1
<1>3. retrieved \in Nat /\ arrived \in Nat /\ retrieved <= arrived
  BY <1>1, <1>2, EndIs DEF FInv, CountersOK
<1>4. readableBytes(inputBuffer_) = arrived - retrieved
  <2>1. Len(Content(inputBuffer_)) = readableBytes(inputBuffer_)
    BY ContentIs DEF FInv
  <2>2. Content(inputBuffer_) = [i \in 1 .. arrived - retrieved |-> retrieved + i]
    BY DEF FInv, BufferHoldsStream
  <2>3. arrived - retrieved \in Nat
    BY <1>3
  <2>4. Len([i \in 1 .. arrived - retrieved |-> retrieved + i]) = arrived - retrieved
    BY <2>3
  <2> QED BY <2>1, <2>2, <2>4
<1>5. ASSUME next = Len(stream) + 1 PROVE ~EnoughToLook
  <2>1. next - 1 = Len(stream)
    BY <1>2, <1>5
  <2>2. arrived <= retrieved
    BY <2>1 DEF FInv, CountersOK
  <2> QED BY <1>3, <1>4, <2>2, LenSizes DEF EnoughToLook
<1> QED BY <1>1, <1>2, <1>3, <1>4, <1>5

\* The front frame, when there is enough to look at.
LEMMA FrontFrame ==
    ASSUME FInv, EnoughToLook
    PROVE  /\ next \in 1 .. Len(stream) /\ Front.len \in Int
           /\ LengthOK <=> Front.len \in kMinMessageLen .. kMaxMessageLen
           /\ End(stream)[next] = retrieved + Front.size
           /\ Front.intact => /\ LengthOK /\ Front.size = kHeaderLen + Front.len
                              /\ parse(Front) = "kNoError"
           /\ ~Front.intact => \/ ~LengthOK
                               \/ Front.size = kHeaderLen + Front.len /\ parse(Front) # "kNoError"
<1>1. next \in 1 .. Len(stream)
  BY Basics DEF FInv, CountersOK
<1>2. stream \in Streams /\ stream \in Seq(Frames) /\ retrieved = End(stream)[next - 1]
  BY Basics DEF FInv, CountersOK
<1>3. Front.len \in Int /\ kMaxMessageLen \in Nat
  BY <1>1, <1>2, FrameTypes, StreamsAssumption DEF Front
<1>4. LengthOK <=> Front.len \in kMinMessageLen .. kMaxMessageLen
  BY <1>3, LenSizes DEF LengthOK
<1>5. End(stream)[next] = retrieved + Front.size
  BY <1>1, <1>2, EndIs DEF Front
<1> QED BY <1>1, <1>2, <1>3, <1>4, <1>5, FrameKinds DEF Front

-----------------------------------------------------------------------------
(* The steps                                                               *)

LEMMA FInit == ASSUME CodecInit PROVE FInv
<1>1. stream \in Streams /\ stream \in Seq(Frames) /\ Len(stream) \in Nat
  BY StreamsAssumption DEF CodecInit
<1>2. End(stream)[0] = 0 /\ End(stream)[Len(stream)] \in Nat
  <2>1. Len(stream) \in 0 .. Len(stream)
    BY <1>1
  <2> QED BY <1>1, <2>1, EndIs
<1>3. IsBuffer(inputBuffer_) /\ BufferHoldsStream
  <2>1. [i \in 1 .. 0 - 0 |-> 0 + i] = <<>>
    OBVIOUS
  <2> QED BY <2>1, NewBufferIs DEF CodecInit, BufferHoldsStream
<1>4. CountersOK
  <2>1. next \in 1 .. Len(stream) + 1 /\ next - 1 = 0
    BY <1>1 DEF CodecInit
  <2>2. arrived \in Nat /\ arrived <= End(stream)[Len(stream)] /\ retrieved = 0 /\ arrived = 0
    BY <1>2 DEF CodecInit
  <2>3. errorCode \in ErrorCodes /\ {connected, inOnMessage} \subseteq BOOLEAN
    BY DEF CodecInit, ErrorCodes
  <2> QED BY <1>1, <1>2, <2>1, <2>2, <2>3 DEF CountersOK
<1>5. DispatchedOK
  <2>1. [k \in 1 .. 1 - 1 |-> k] = <<>> /\ 1 .. 1 - 1 = {}
    OBVIOUS
  <2> QED BY <2>1 DEF CodecInit, DispatchedOK
<1>6. ~EnoughToLook
  <2>1. readableBytes(inputBuffer_) = 0
    BY NewBufferIs, ContentIs DEF CodecInit
  <2> QED BY <2>1, LenSizes DEF EnoughToLook
<1>7. QuietOK /\ ShutOK
  BY <1>6 DEF CodecInit, QuietOK, ShutOK
<1> QED BY <1>3, <1>4, <1>5, <1>7 DEF FInv

LEMMA LeastOfThree ==
    ASSUME NEW x \in Nat, NEW y \in Nat, NEW z \in Nat
    PROVE  /\ Min({x, y, z}) \in Nat
           /\ Min({x, y, z}) <= x /\ Min({x, y, z}) <= y /\ Min({x, y, z}) <= z
<1> DEFINE S == {x, y, z}
<1>1. \E m \in S : \A k \in S : m <= k
  OBVIOUS
<1>2. Min(S) \in S /\ \A k \in S : Min(S) <= k
  BY <1>1 DEF Min
<1> QED BY <1>2

\* The bytes of a read follow those that wait, at their places in the stream.
LEMMA FReceive == ASSUME FInv, NEW n \in Chunks, Receive(n) PROVE FInv'
<1> DEFINE left == End(stream)[Len(stream)] - arrived
           read == Min({n, left, ReadLimit(inputBuffer_)})
           data == [i \in 1 .. read |-> arrived + i]
<1>1. /\ inputBuffer_' = readFd(inputBuffer_, data) /\ arrived' = arrived + read /\ inOnMessage' = TRUE
      /\ UNCHANGED <<stream, retrieved, next, dispatched, errorCode, connected>>
      /\ arrived < End(stream)[Len(stream)]
  BY DEF Receive
<1>2. /\ stream \in Seq(Frames) /\ Len(stream) \in Nat
      /\ retrieved \in Nat /\ arrived \in Nat /\ retrieved <= arrived
      /\ IsBuffer(inputBuffer_)
  BY Basics DEF FInv, CountersOK
<1>3. End(stream)[Len(stream)] \in Nat
  <2>1. Len(stream) \in 0 .. Len(stream)
    BY <1>2
  <2> QED BY <1>2, <2>1, EndIs
<1>4. left \in Nat /\ n \in Nat
  BY <1>1, <1>2, <1>3, StreamsAssumption
<1>5. ReadLimit(inputBuffer_) \in Nat
  BY <1>2, ContentIs, Sizes DEF ReadLimit
<1>6. read \in Nat /\ read <= left
  <2> HIDE DEF left
  <2> QED BY <1>4, <1>5, LeastOfThree
<1> HIDE DEF read
<1>7. data \in Seq(Nat) /\ Len(data) = read
  BY <1>2, <1>6
<1>8. IsBuffer(inputBuffer_') /\ Content(inputBuffer_') = Content(inputBuffer_) \o data
  <2> HIDE DEF data
  <2> QED BY <1>1, <1>2, <1>7, ReadAppends
<1>9. BufferHoldsStream'
  <2> DEFINE old == [i \in 1 .. arrived - retrieved |-> retrieved + i]
             all == [i \in 1 .. (arrived + read) - retrieved |-> retrieved + i]
  <2>1. Content(inputBuffer_) = old
    BY DEF FInv, BufferHoldsStream
  <2>2. arrived - retrieved \in Nat /\ (arrived + read) - retrieved = (arrived - retrieved) + read
    BY <1>2, <1>6
  <2>3. /\ old \in Seq(Nat) /\ Len(old) = arrived - retrieved
        /\ all \in Seq(Nat) /\ Len(all) = (arrived - retrieved) + read
    BY <1>2, <1>6, <2>2
  <2>4. /\ \A i \in 1 .. arrived - retrieved : old[i] = retrieved + i
        /\ \A i \in 1 .. (arrived - retrieved) + read : all[i] = retrieved + i
        /\ \A i \in 1 .. read : data[i] = arrived + i
    BY <2>2
  <2> HIDE DEF old, all, data
  <2>5. /\ old \o data \in Seq(Nat) /\ Len(old \o data) = Len(old) + Len(data)
        /\ \A i \in 1 .. Len(old) + Len(data) :
             (old \o data)[i] = IF i <= Len(old) THEN old[i] ELSE data[i - Len(old)]
    BY <1>7, <2>3, ConcatProperties
  <2>6. ASSUME NEW i \in 1 .. (arrived - retrieved) + read PROVE (old \o data)[i] = all[i]
    <3>1. CASE i <= arrived - retrieved
      <4>1. i \in 1 .. arrived - retrieved
        BY <2>2, <3>1
      <4>2. (old \o data)[i] = old[i]
        BY <1>7, <2>3, <2>5, <3>1
      <4> QED BY <2>4, <4>1, <4>2
    <3>2. CASE ~(i <= arrived - retrieved)
      <4>1. i - (arrived - retrieved) \in 1 .. read
        BY <1>6, <2>2, <3>2
      <4>2. (old \o data)[i] = data[i - (arrived - retrieved)]
        BY <1>7, <2>3, <2>5, <3>2
      <4>3. data[i - (arrived - retrieved)] = arrived + (i - (arrived - retrieved))
        BY <2>4, <4>1
      <4>4. arrived + (i - (arrived - retrieved)) = retrieved + i
        BY <1>2, <1>6, <2>2
      <4> QED BY <2>4, <4>2, <4>3, <4>4
    <3> QED BY <3>1, <3>2
  <2>7. old \o data = all
    BY <1>7, <2>3, <2>5, <2>6, SameSeq
  <2> QED BY <1>1, <1>8, <2>1, <2>7 DEF BufferHoldsStream, all
<1>10. CountersOK'
  <2>1. arrived' \in Nat /\ arrived' <= End(stream)[Len(stream)] /\ retrieved <= arrived'
    BY <1>1, <1>2, <1>3, <1>6
  <2> QED BY <1>1, <2>1 DEF FInv, CountersOK
<1>11. DispatchedOK' /\ QuietOK' /\ ShutOK'
  BY <1>1 DEF FInv, DispatchedOK, QuietOK, ShutOK
<1> QED BY <1>8, <1>9, <1>10, <1>11 DEF FInv

\* A rejected front frame is damaged.
LEMMA FReject ==
    ASSUME FInv, NEW code \in ErrorCodes, Reject(code), EnoughToLook,
           ~LengthOK \/ parse(Front) # "kNoError"
    PROVE  FInv'
<1>1. /\ errorCode' = code /\ connected' = FALSE /\ inOnMessage' = FALSE
      /\ UNCHANGED <<stream, inputBuffer_, arrived, retrieved, next, dispatched>>
  BY DEF Reject
<1>2. next \in 1 .. Len(stream) /\ ~Front.intact
  BY FrontFrame
<1>3. BufferHoldsStream' /\ IsBuffer(inputBuffer_')
  BY <1>1 DEF FInv, BufferHoldsStream
<1>4. CountersOK'
  BY <1>1 DEF FInv, CountersOK
<1>5. DispatchedOK' /\ QuietOK'
  BY <1>1 DEF FInv, DispatchedOK, QuietOK
<1>6. ShutOK'
  BY <1>1, <1>2, Basics DEF ShutOK, Front
<1> QED BY <1>3, <1>4, <1>5, <1>6 DEF FInv

LEMMA FInvalidLength == ASSUME FInv, InvalidLength PROVE FInv'
BY FReject DEF InvalidLength, ErrorCodes

LEMMA FParseFailed == ASSUME FInv, ParseFailed PROVE FInv'
<1>1. parse(Front) \in ErrorCodes
  BY DEF parse, ErrorCodes
<1> QED BY <1>1, FReject DEF ParseFailed

\* A dispatched frame is intact, and its bytes leave the buffer.
LEMMA FDispatch == ASSUME FInv, Dispatch PROVE FInv'
<1> DEFINE len == kHeaderLen + Front.len
<1>1. /\ inOnMessage /\ EnoughToLook /\ LengthOK /\ WholeFrame /\ parse(Front) = "kNoError"
      /\ dispatched' = Append(dispatched, next) /\ next' = next + 1
      /\ inputBuffer_' = retrieve(inputBuffer_, len) /\ retrieved' = retrieved + kHeaderLen + Front.len
      /\ UNCHANGED <<stream, arrived, errorCode, connected, inOnMessage>>
  BY DEF Dispatch, Retrieve
<1>2. /\ next \in 1 .. Len(stream) /\ Front.len \in kMinMessageLen .. kMaxMessageLen
      /\ Front.intact /\ Front.size = len /\ End(stream)[next] = retrieved + len
  BY <1>1, FrontFrame
<1>3. /\ stream \in Seq(Frames) /\ Len(stream) \in Nat /\ next \in Nat \ {0}
      /\ retrieved \in Nat /\ arrived \in Nat /\ retrieved <= arrived
      /\ readableBytes(inputBuffer_) = arrived - retrieved
      /\ IsBuffer(inputBuffer_) /\ kMaxMessageLen \in Nat
  BY Basics, StreamsAssumption DEF FInv, CountersOK
<1>4. len \in Nat /\ len <= arrived - retrieved /\ Front.len \in Nat /\ retrieved' = retrieved + len
  <2>1. Front.len \in Nat /\ kHeaderLen \in Nat
    BY <1>2, <1>3, LenSizes
  <2>2. arrived - retrieved >= Front.len + kHeaderLen
    BY <1>1, <1>3 DEF WholeFrame
  <2> DEFINE k == Front.len
  <2>3. k \in Nat /\ retrieved' = retrieved + kHeaderLen + k /\ len = kHeaderLen + k
        /\ arrived - retrieved >= k + kHeaderLen
    BY <1>1, <2>1, <2>2
  <2> HIDE DEF k, len
  <2>4. len \in Nat /\ len <= arrived - retrieved /\ retrieved' = retrieved + len
    BY <1>3, <2>1, <2>3
  <2> QED BY <2>1, <2>4
<1> HIDE DEF len
<1>5. /\ IsBuffer(inputBuffer_')
      /\ Content(inputBuffer_') = SubSeq(Content(inputBuffer_), len + 1, arrived - retrieved)
  <2>1. len \in 0 .. readableBytes(inputBuffer_)
    BY <1>3, <1>4
  <2> QED BY <1>1, <1>3, <2>1, RetrieveTakes
<1>6. BufferHoldsStream'
  <2> DEFINE old == [i \in 1 .. arrived - retrieved |-> retrieved + i]
             rest == [i \in 1 .. arrived - (retrieved + len) |-> (retrieved + len) + i]
             m == arrived - retrieved
  <2>1. Content(inputBuffer_) = old
    BY DEF FInv, BufferHoldsStream
  <2>2. m \in Nat /\ len <= m /\ arrived - (retrieved + len) = m - len /\ m - len \in Nat
    BY <1>3, <1>4
  <2>3. /\ old \in Seq(Nat) /\ Len(old) = m /\ rest \in Seq(Nat) /\ Len(rest) = m - len
        /\ \A i \in 1 .. m : old[i] = retrieved + i
        /\ \A i \in 1 .. m - len : rest[i] = (retrieved + len) + i
    BY <1>3, <1>4, <2>2
  <2> HIDE DEF old, rest, m
  <2>4. /\ SubSeq(old, len + 1, m) \in Seq(Nat) /\ Len(SubSeq(old, len + 1, m)) = m - len
        /\ \A i \in 1 .. m - len : SubSeq(old, len + 1, m)[i] = old[len + i]
    <3>1. m <= Len(old)
      BY <2>2, <2>3
    <3> QED BY <1>4, <2>2, <2>3, <3>1, SubSeqFacts
  <2>5. \A i \in 1 .. m - len : len + i \in 1 .. m /\ retrieved + (len + i) = (retrieved + len) + i
    BY <1>3, <1>4, <2>2
  <2>6. SubSeq(old, len + 1, m) = rest
    <3>1. \A i \in 1 .. m - len : SubSeq(old, len + 1, m)[i] = rest[i]
      BY <2>3, <2>4, <2>5
    <3> QED BY <2>3, <2>4, <3>1, SameSeq
  <2> QED BY <1>1, <1>4, <1>5, <2>1, <2>6 DEF BufferHoldsStream, m, rest
<1>7. CountersOK'
  <2>1. /\ next' \in 1 .. Len(stream) + 1 /\ next' - 1 = next
        /\ retrieved' = End(stream)[next] /\ retrieved' <= arrived
    BY <1>1, <1>2, <1>3, <1>4
  <2> QED BY <1>1, <2>1 DEF FInv, CountersOK
<1>8. DispatchedOK'
  <2>1. dispatched = [k \in 1 .. next - 1 |-> k] /\ next - 1 \in Nat /\ (next - 1) + 1 = next
    BY <1>3 DEF FInv, DispatchedOK
  <2>2. Append(dispatched, next) = [k \in 1 .. next |-> k]
    <3>1. /\ dispatched \in Seq(Nat) /\ Len(dispatched) = next - 1
          /\ \A k \in 1 .. next - 1 : dispatched[k] = k
      BY <2>1
    <3>2. /\ Append(dispatched, next) \in Seq(Nat) /\ Len(Append(dispatched, next)) = next
          /\ \A k \in 1 .. next : Append(dispatched, next)[k] = k
      BY <1>3, <2>1, <3>1
    <3>3. /\ [k \in 1 .. next |-> k] \in Seq(Nat) /\ Len([k \in 1 .. next |-> k]) = next
      BY <1>3
    <3> QED BY <3>2, <3>3, SameSeq
  <2>3. \A j \in 1 .. next : j # next => j \in 1 .. next - 1
    BY <1>3
  <2>4. \A j \in 1 .. next : stream[j].intact
    BY <1>2, <2>3 DEF FInv, DispatchedOK, Front
  <2>5. next' - 1 = next
    BY <1>1, <1>3
  <2> QED BY <1>1, <2>2, <2>4, <2>5 DEF DispatchedOK
<1>9. QuietOK'
  BY <1>1 DEF QuietOK
<1>10. ShutOK'
  <2>1. connected
    BY <1>2 DEF FInv, ShutOK, CountersOK, Front
  <2> QED BY <1>1, <2>1 DEF ShutOK
<1> QED BY <1>5, <1>6, <1>7, <1>8, <1>9, <1>10 DEF FInv

LEMMA FBreak == ASSUME FInv, Break PROVE FInv'
<1>1. /\ EnoughToLook => LengthOK /\ ~WholeFrame
      /\ inOnMessage' = FALSE
      /\ UNCHANGED <<stream, inputBuffer_, arrived, retrieved, next, dispatched, errorCode, connected>>
  BY DEF Break
<1>2. QuietOK'
  BY <1>1 DEF QuietOK, EnoughToLook, LengthOK, WholeFrame, Front
<1>3. BufferHoldsStream' /\ CountersOK' /\ DispatchedOK' /\ ShutOK' /\ IsBuffer(inputBuffer_')
  BY <1>1 DEF FInv, BufferHoldsStream, CountersOK, DispatchedOK, ShutOK
<1> QED BY <1>2, <1>3 DEF FInv

LEMMA FNext == ASSUME FInv, [CodecNext]_codecVars PROVE FInv'
<1>1. CASE \E n \in Chunks : Receive(n)
  BY <1>1, FReceive
<1>2. CASE InvalidLength
  BY <1>2, FInvalidLength
<1>3. CASE Dispatch
  BY <1>3, FDispatch
<1>4. CASE ParseFailed
  BY <1>4, FParseFailed
<1>5. CASE Break
  BY <1>5, FBreak
<1>6. CASE UNCHANGED codecVars
  <2>1. BufferHoldsStream' /\ CountersOK' /\ DispatchedOK' /\ ShutOK' /\ IsBuffer(inputBuffer_')
    BY <1>6 DEF FInv, BufferHoldsStream, CountersOK, DispatchedOK, ShutOK, codecVars
  <2>2. QuietOK'
    BY <1>6 DEF FInv, QuietOK, EnoughToLook, LengthOK, WholeFrame, Front, codecVars
  <2> QED BY <2>1, <2>2 DEF FInv
<1> QED BY <1>1, <1>2, <1>3, <1>4, <1>5, <1>6 DEF CodecNext

-----------------------------------------------------------------------------
(* The theorems                                                            *)

\* Whatever the peer sends and however the stream is cut, the buffer, the counters
\* and what was dispatched fit each other (ProtobufCodec.cc 103-129, Buffer.cc 28-58).
THEOREM CodecInvariant == CodecSpec => []FInv
<1>1. CodecInit => FInv
  BY FInit
<1>2. FInv /\ [CodecNext]_codecVars => FInv'
  BY FNext
<1> QED BY <1>1, <1>2, PTL DEF CodecSpec

\* The codec's variables keep their types; the buffer's indexes stay in order.
THEOREM CodecTypes == CodecSpec => []CodecTypeOK
<1>1. ASSUME FInv PROVE CodecTypeOK
  <2>1. /\ stream \in Streams /\ next \in 1 .. Len(stream) + 1 /\ arrived \in Nat
        /\ retrieved \in Nat /\ retrieved <= arrived /\ next \in Nat /\ Len(stream) \in Nat
        /\ errorCode \in ErrorCodes /\ {connected, inOnMessage} \subseteq BOOLEAN
    BY <1>1, Basics DEF FInv, CountersOK
  <2>2. /\ inputBuffer_.readerIndex_ \in kCheapPrepend .. inputBuffer_.writerIndex_
        /\ inputBuffer_.writerIndex_ \in 0 .. Len(inputBuffer_.buffer_)
    <3>1. /\ inputBuffer_.readerIndex_ \in Nat /\ inputBuffer_.writerIndex_ \in Nat
          /\ Len(inputBuffer_.buffer_) \in Nat /\ kCheapPrepend \in Nat
      BY <1>1, Sizes DEF FInv, IsBuffer, Buffers
    <3> QED BY <1>1, <3>1 DEF FInv, IsBuffer
  <2>3. dispatched \in Seq(1 .. Len(stream))
    <3>1. dispatched = [k \in 1 .. next - 1 |-> k] /\ next - 1 \in Nat
      BY <1>1, <2>1 DEF FInv, DispatchedOK
    <3>2. dispatched \in [1 .. next - 1 -> 1 .. Len(stream)]
      BY <2>1, <3>1
    <3> QED BY <3>1, <3>2
  <2>4. retrieved \in 0 .. arrived
    BY <2>1
  <2> QED BY <2>1, <2>2, <2>3, <2>4 DEF CodecTypeOK
<1> QED BY <1>1, CodecInvariant, PTL

\* The input buffer holds the bytes read and not yet retrieved, in order, through
\* every growth and move of its vector (Buffer.h, Buffer.cc 28-58).
THEOREM BufferTheorem == CodecSpec => []BufferHoldsStream
<1>1. FInv => BufferHoldsStream
  BY DEF FInv
<1> QED BY <1>1, CodecInvariant, PTL

\* An intact front frame that has arrived in full is not left in the buffer.
LEMMA FrontWaits ==
    ASSUME FInv, ~inOnMessage, next <= Len(stream), stream[next].intact
    PROVE  ~(End(stream)[next] <= arrived)
<1>1. SUFFICES ASSUME End(stream)[next] <= arrived PROVE FALSE
  OBVIOUS
<1>2. /\ next \in 1 .. Len(stream) /\ stream \in Streams /\ retrieved = End(stream)[next - 1]
      /\ stream \in Seq(Frames) /\ retrieved \in Nat /\ arrived \in Nat /\ connected \in BOOLEAN
      /\ readableBytes(inputBuffer_) = arrived - retrieved
  BY Basics DEF FInv, CountersOK
<1>3. /\ Front.len \in kMinMessageLen .. kMaxMessageLen /\ Front.size = kHeaderLen + Front.len
      /\ End(stream)[next] = retrieved + Front.size /\ kMaxMessageLen \in Nat
  BY <1>2, FrameKinds, EndIs, StreamsAssumption DEF Front
<1>4. Front.len \in Nat /\ Front.len >= 10 /\ kHeaderLen = 4 /\ kMinMessageLen = 10
  BY <1>3, LenSizes
<1>5. EnoughToLook /\ WholeFrame
  <2> DEFINE k == Front.len
             n == readableBytes(inputBuffer_)
  <2>1. retrieved + (kHeaderLen + k) <= arrived /\ n = arrived - retrieved
    BY <1>1, <1>2, <1>3
  <2>2. k \in Nat /\ k >= 10
    BY <1>4
  <2> HIDE DEF k, n
  <2>3. n >= k + kHeaderLen /\ n >= kMinMessageLen + kHeaderLen
    BY <1>2, <1>4, <2>1, <2>2
  <2> QED BY <2>3 DEF EnoughToLook, WholeFrame, k, n
<1>6. connected
  BY DEF FInv, ShutOK
<1> QED BY <1>5, <1>6 DEF FInv, QuietOK

\* How the stream is cut into reads makes no difference: between two reads the
\* intact frames that have arrived in full are dispatched, each once and in order,
\* up to the first damaged one (ProtobufCodec.cc 103-129).
THEOREM ChunkingTheorem == CodecSpec => []ChunkingDoesNotMatter
<1>1. ASSUME FInv, ~inOnMessage
      PROVE  LET due == {i \in Sound : End(stream)[i] <= arrived}
             IN  dispatched = [k \in 1 .. Cardinality(due) |-> k]
  <2> DEFINE due == {i \in Sound : End(stream)[i] <= arrived}
  <2>1. /\ stream \in Seq(Frames) /\ Len(stream) \in Nat /\ next \in Nat \ {0}
        /\ next - 1 \in 0 .. Len(stream) /\ retrieved \in Nat /\ arrived \in Nat
        /\ retrieved = End(stream)[next - 1] /\ retrieved <= arrived
    BY <1>1, Basics DEF FInv, CountersOK
  <2>2. ASSUME NEW i \in 1 .. next - 1 PROVE i \in due
    <3>1. i \in 1 .. Len(stream) /\ i \in 0 .. Len(stream) /\ i <= next - 1
      BY <2>1
    <3>2. \A j \in 1 .. i : j \in 1 .. next - 1
      BY <2>1
    <3>3. i \in Sound
      BY <1>1, <3>1, <3>2 DEF FInv, DispatchedOK, Sound
    <3>4. End(stream)[i] <= End(stream)[next - 1] /\ End(stream)[i] \in Nat
      BY <2>1, <3>1, EndGrows, EndIs
    <3> QED BY <2>1, <3>3, <3>4
  <2>3. ASSUME NEW i \in due, i \notin 1 .. next - 1 PROVE FALSE
    <3>1. /\ i \in 1 .. Len(stream) /\ \A j \in 1 .. i : stream[j].intact
          /\ End(stream)[i] <= arrived
      BY DEF Sound
    <3>2. next <= i /\ next \in 1 .. i /\ next \in 0 .. Len(stream) /\ next <= Len(stream)
          /\ i \in 0 .. Len(stream)
      BY <2>1, <2>3, <3>1
    <3>3. stream[next].intact
      BY <3>1, <3>2
    <3>4. ~(End(stream)[next] <= arrived)
      BY <1>1, <3>2, <3>3, FrontWaits
    <3>5. /\ End(stream)[next] <= End(stream)[i]
          /\ End(stream)[next] \in Nat /\ End(stream)[i] \in Nat
      BY <2>1, <3>2, EndGrows, EndIs
    <3> QED BY <2>1, <3>1, <3>4, <3>5
  <2>4. due = 1 .. next - 1
    BY <2>2, <2>3
  <2>5. Cardinality(1 .. next - 1) = next - 1
    <3>1. 1 \in Int /\ next - 1 \in Int /\ (1 <= next - 1 \/ next - 1 = 0)
      BY <2>1
    <3>2. Cardinality(1 .. next - 1) = IF 1 > next - 1 THEN 0 ELSE (next - 1) - 1 + 1
      BY <3>1, FS_Interval
    <3> QED BY <2>1, <3>1, <3>2
  <2> HIDE DEF due
  <2>6. dispatched = [k \in 1 .. Cardinality(due) |-> k]
    BY <1>1, <2>4, <2>5 DEF FInv, DispatchedOK
  <2> QED BY <2>6 DEF due
<1>2. FInv => ChunkingDoesNotMatter
  BY <1>1 DEF ChunkingDoesNotMatter
<1> QED BY <1>2, CodecInvariant, PTL

\* A connection is shut down for a damaged frame and for nothing else, and always
\* when that frame has arrived (ProtobufCodec.cc 110-123, 146-183).
THEOREM ClosesTheorem == CodecSpec => []ClosesForDamage
<1>1. ASSUME FInv, ~connected PROVE Cardinality(Sound) < Len(stream)
  <2>1. next \in 1 .. Len(stream) /\ ~stream[next].intact /\ Len(stream) \in Nat
    BY <1>1, Basics DEF FInv, ShutOK, CountersOK
  <2>2. next \notin Sound
    BY <2>1 DEF Sound
  <2>3. IsFiniteSet(1 .. Len(stream)) /\ Cardinality(1 .. Len(stream)) = Len(stream)
    <3>1. /\ IsFiniteSet(1 .. Len(stream))
          /\ Cardinality(1 .. Len(stream)) = IF 1 > Len(stream) THEN 0 ELSE Len(stream) - 1 + 1
      BY <2>1, FS_Interval
    <3> QED BY <2>1, <3>1
  <2>4. Sound \subseteq 1 .. Len(stream) /\ Sound # 1 .. Len(stream)
    BY <2>1, <2>2 DEF Sound
  <2>5. /\ Cardinality(Sound) <= Cardinality(1 .. Len(stream))
        /\ Cardinality(Sound) # Cardinality(1 .. Len(stream))
        /\ Cardinality(Sound) \in Nat
    BY <2>3, <2>4, FS_Subset, FS_CardinalityType
  <2> QED BY <2>1, <2>3, <2>5
<1>2. ASSUME FInv, ~inOnMessage, NEW i \in 1 .. Len(stream),
             \A j \in 1 .. i - 1 : stream[j].intact, ~stream[i].intact,
             arrived >= End(stream)[i],
             arrived - End(stream)[i - 1] >= kMinMessageLen + kHeaderLen
      PROVE  ~connected
  <2>1. /\ stream \in Seq(Frames) /\ Len(stream) \in Nat /\ next \in Nat \ {0}
        /\ next - 1 \in 0 .. Len(stream) /\ retrieved \in Nat /\ arrived \in Nat
        /\ retrieved = End(stream)[next - 1] /\ connected \in BOOLEAN
        /\ readableBytes(inputBuffer_) = arrived - retrieved
    BY <1>2, Basics DEF FInv, CountersOK
  <2>2. ~(i <= next - 1)
    <3>1. i <= next - 1 => i \in 1 .. next - 1
      BY <2>1
    <3> QED BY <1>2, <3>1 DEF FInv, DispatchedOK
  <2>3. ~(next <= i - 1)
    <3>1. SUFFICES ASSUME next <= i - 1 PROVE FALSE
      OBVIOUS
    <3>2. /\ next \in 1 .. i - 1 /\ next <= Len(stream) /\ next \in 0 .. Len(stream)
          /\ i \in 0 .. Len(stream) /\ next <= i
      BY <2>1, <3>1
    <3>3. ~(End(stream)[next] <= arrived)
      BY <1>2, <3>2, FrontWaits
    <3>4. /\ End(stream)[next] <= End(stream)[i]
          /\ End(stream)[next] \in Nat /\ End(stream)[i] \in Nat
      BY <2>1, <3>2, EndGrows, EndIs
    <3> QED BY <1>2, <2>1, <3>3, <3>4
  <2>4. next = i
    BY <2>1, <2>2, <2>3
  <2>5. EnoughToLook
    BY <1>2, <2>1, <2>4 DEF EnoughToLook
  <2>6. /\ End(stream)[next] = retrieved + Front.size /\ Front.len \in Int
        /\ ~LengthOK \/ Front.size = kHeaderLen + Front.len
    BY <1>2, <2>4, <2>5, FrontFrame DEF Front
  <2>7. LengthOK => WholeFrame
    BY <1>2, <2>1, <2>4, <2>6, LenSizes DEF WholeFrame
  <2> QED BY <1>2, <2>5, <2>7 DEF FInv, QuietOK
<1>3. FInv => ClosesForDamage
  BY <1>1, <1>2 DEF ClosesForDamage
<1> QED BY <1>3, CodecInvariant, PTL

=============================================================================
