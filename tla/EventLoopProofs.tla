-------------------------- MODULE EventLoopProofs --------------------------
(***************************************************************************)
(* Proofs about muduo's event loop, for any set of threads and functors:   *)
(* no wakeup is lost, and functors run once each in the order of the       *)
(* pushes.                                                                 *)
(***************************************************************************)
EXTENDS EventLoop, SequenceTheorems, TLAPS

\* Where the loop is heading for poll() without another look at the queue, a
\* functor in the queue has its wakeup.  After "handle" the queue is taken,
\* so there it needs none.
WakeupPending ==
    pc \in {"constructed", "check", "poll", "run"} /\ pendingFunctors_ # <<>> =>
        wakeupFd_ \/ \E t \in Threads : caller[t] = "pushed"

\* The flag queueInLoop reads is up exactly while functors can be running.
FlagOK == callingPendingFunctors_ <=> pc \in {"swap", "run"}

BatchOK == functors # <<>> => pc = "run"

LInv == LoopTypeOK /\ WakeupPending /\ FlagOK /\ BatchOK /\ FifoOnce

-----------------------------------------------------------------------------
(* Sequences                                                               *)

\* The queue's three parts in order: called, being called, waiting.
Joined(s, t, u) == (s \o t) \o u

\* Pushing at the end of the last of three sequences.
LEMMA PushJoined ==
  \A s, t, u \in Seq(Functors), e \in Functors :
      Append(Joined(s, t, u), e) = Joined(s, t, Append(u, e))
<1> TAKE s, t, u \in Seq(Functors), e \in Functors
<1> DEFINE st == s \o t
<1>1. st \in Seq(Functors)
  BY ConcatProperties
<1> HIDE DEF st
<1>2. st \o u \in Seq(Functors) /\ <<e>> \in Seq(Functors)
  BY <1>1, ConcatProperties
<1>3. Append(st \o u, e) = (st \o u) \o <<e>>
  BY <1>2, AppendIsConcat
<1>4. Append(u, e) = u \o <<e>>
  BY AppendIsConcat
<1>5. (st \o u) \o <<e>> = st \o (u \o <<e>>)
  BY <1>1, <1>2, ConcatAssociative
<1>6. Append(st \o u, e) = st \o Append(u, e)
  BY <1>3, <1>4, <1>5
<1> QED
  BY <1>6 DEF st, Joined

\* Moving the head of one sequence to the end of the one before it.
LEMMA MoveHead ==
  ASSUME NEW S, NEW s \in Seq(S), NEW t \in Seq(S), t # <<>>
  PROVE  Append(s, Head(t)) \o Tail(t) = s \o t
<1>1. Head(t) \in S /\ Tail(t) \in Seq(S) /\ <<Head(t)>> \in Seq(S)
  BY HeadTailProperties
<1>2. Append(s, Head(t)) = s \o <<Head(t)>>
  BY <1>1, AppendIsConcat
<1>3. <<Head(t)>> \o Tail(t) = t
  OBVIOUS
<1> QED
  BY <1>1, <1>2, <1>3, ConcatAssociative

-----------------------------------------------------------------------------
(* The steps                                                               *)

\* A loop that was just constructed satisfies LInv.
LEMMA InitLInv == LoopInit => LInv
<1> SUFFICES ASSUME LoopInit PROVE LInv
  OBVIOUS
<1>1. LoopTypeOK
  <2>1. <<>> \in Seq(Functors)
    OBVIOUS
  <2>2. caller \in [Threads -> {"idle", "pushed", "quitting"}]
    BY DEF LoopInit
  <2> QED
    BY <2>1, <2>2 DEF LoopInit, LoopTypeOK, Places
<1>2. WakeupPending /\ FlagOK /\ BatchOK
  BY DEF LoopInit, WakeupPending, FlagOK, BatchOK
<1>3. FifoOnce
  BY DEF LoopInit, FifoOnce
<1> QED
  BY <1>1, <1>2, <1>3 DEF LInv

\* What a push does, whoever makes it.
LEMMA PushKeeps ==
  ASSUME LInv, NEW f \in Functors, Push(f), UNCHANGED <<functors, executed>>
  PROVE  /\ pendingFunctors_' \in Seq(Functors)
         /\ queued' \in Seq(Functors)
         /\ FifoOnce'
<1>1. /\ executed \in Seq(Functors) /\ functors \in Seq(Functors)
      /\ pendingFunctors_ \in Seq(Functors)
  BY DEF LInv, LoopTypeOK
<1>2. Append(queued, f) = (executed \o functors) \o Append(pendingFunctors_, f)
  <2>1. queued = Joined(executed, functors, pendingFunctors_)
    BY DEF LInv, FifoOnce, Joined
  <2>2. Append(queued, f) = Joined(executed, functors, Append(pendingFunctors_, f))
    BY <1>1, <2>1, PushJoined
  <2> QED
    BY <2>2 DEF Joined
<1>3. Append(queued, f) \in Seq(Functors) /\ Append(pendingFunctors_, f) \in Seq(Functors)
  BY AppendProperties DEF LInv, LoopTypeOK
<1> QED
  BY <1>2, <1>3 DEF Push, FifoOnce

\* Steps that touch neither the queue nor the batch.
LEMMA QuietKeeps ==
  ASSUME LInv,
         \/ Loop \/ CheckQuit \/ (\E io \in BOOLEAN : Poll(io)) \/ HandleRead
         \/ HandleEvent \/ QuitInLoopThread \/ BeginPendingFunctors
         \/ EndPendingFunctors \/ \E t \in Threads : Quit(t) \/ Wakeup(t)
  PROVE  LInv'
<1>1. UNCHANGED <<pendingFunctors_, functors, queued, executed>>
  BY DEF Loop, CheckQuit, Poll, HandleRead, HandleEvent, QuitInLoopThread,
         BeginPendingFunctors, EndPendingFunctors, Quit, Wakeup
<1>2. FifoOnce'
  BY <1>1 DEF LInv, FifoOnce
<1>3. LoopTypeOK'
  BY <1>1 DEF LInv, LoopTypeOK, Places, Loop, CheckQuit, Poll, HandleRead, HandleEvent,
     QuitInLoopThread, BeginPendingFunctors, EndPendingFunctors, Quit, Wakeup
<1>4. FlagOK' /\ BatchOK'
  BY <1>1 DEF LInv, FlagOK, BatchOK, Loop, CheckQuit, Poll, HandleRead, HandleEvent,
     QuitInLoopThread, BeginPendingFunctors, EndPendingFunctors, Quit, Wakeup
<1>5. WakeupPending'
  BY <1>1 DEF LInv, LoopTypeOK, WakeupPending, Loop, CheckQuit, Poll, HandleRead,
     HandleEvent, QuitInLoopThread, BeginPendingFunctors, EndPendingFunctors, Quit, Wakeup
<1> QED
  BY <1>2, <1>3, <1>4, <1>5 DEF LInv

\* queueInLoop in an event handler needs no wakeup: the batch is still to come.
LEMMA QueueFromHandlerKeeps ==
  ASSUME LInv, NEW f \in Functors, QueueFromHandler(f)
  PROVE  LInv'
<1>1. pendingFunctors_' \in Seq(Functors) /\ queued' \in Seq(Functors) /\ FifoOnce'
  BY PushKeeps DEF QueueFromHandler
<1> QED
  BY <1>1 DEF LInv, LoopTypeOK, WakeupPending, FlagOK, BatchOK, QueueFromHandler, WakeupNeeded

\* queueInLoop in another thread owes a wakeup from the push on.
LEMMA QueueInLoopKeeps ==
  ASSUME LInv, NEW t \in Threads, NEW f \in Functors, QueueInLoop(t, f)
  PROVE  LInv'
<1>1. pendingFunctors_' \in Seq(Functors) /\ queued' \in Seq(Functors) /\ FifoOnce'
  BY PushKeeps DEF QueueInLoop
<1>2. LoopTypeOK' /\ FlagOK' /\ BatchOK'
  BY <1>1 DEF LInv, LoopTypeOK, FlagOK, BatchOK, QueueInLoop
<1>3. caller'[t] = "pushed"
  BY DEF LInv, LoopTypeOK, QueueInLoop
<1> QED
  BY <1>1, <1>2, <1>3 DEF LInv, WakeupPending

\* doPendingFunctors takes the whole queue, in order.
LEMMA SwapKeeps ==
  ASSUME LInv, Swap
  PROVE  LInv'
<1>1. functors = <<>>
  BY DEF LInv, BatchOK, Swap
<1>2. FifoOnce'
  <2>1. executed \o functors = executed
    BY <1>1, ConcatEmptySeq DEF LInv, LoopTypeOK
  <2>2. executed \o pendingFunctors_ \in Seq(Functors)
    BY ConcatProperties DEF LInv, LoopTypeOK
  <2>3. (executed \o pendingFunctors_) \o <<>> = executed \o pendingFunctors_
    BY <2>2, ConcatEmptySeq
  <2> QED
    BY <2>1, <2>3 DEF LInv, FifoOnce, Swap
<1>3. LoopTypeOK'
  BY DEF LInv, LoopTypeOK, Places, Swap
<1> QED
  BY <1>2, <1>3 DEF LInv, WakeupPending, FlagOK, BatchOK, Swap

\* The call of one functor, before what it queues itself.
LEMMA CallKeepsOrder ==
  ASSUME LInv, functors # <<>>
  PROVE  /\ Head(functors) \in Functors
         /\ Tail(functors) \in Seq(Functors)
         /\ Append(executed, Head(functors)) \in Seq(Functors)
         /\ Append(executed, Head(functors)) \o Tail(functors) = executed \o functors
<1>1. Head(functors) \in Functors /\ Tail(functors) \in Seq(Functors)
  BY HeadTailProperties DEF LInv, LoopTypeOK
<1>2. Append(executed, Head(functors)) \in Seq(Functors)
  BY <1>1, AppendProperties DEF LInv, LoopTypeOK
<1> QED
  BY <1>1, <1>2, MoveHead DEF LInv, LoopTypeOK

\* Calling a functor keeps the order, and what it queues raises the wakeup.
LEMMA RunFunctorKeeps ==
  ASSUME LInv, RunFunctor
  PROVE  LInv'
<1> DEFINE f == Head(functors)
<1>1. functors # <<>> /\ callingPendingFunctors_ /\ pc = "run"
  BY DEF RunFunctor, CallFunctor, LInv, FlagOK
<1>2. /\ f \in Functors
      /\ Tail(functors) \in Seq(Functors)
      /\ Append(executed, f) \in Seq(Functors)
      /\ Append(executed, f) \o Tail(functors) = executed \o functors
  BY <1>1, CallKeepsOrder
<1>3. executed' \o functors' = executed \o functors
  BY <1>2 DEF RunFunctor, CallFunctor
<1>4. CASE nested[f] = NoFunctor
  <2>1. FifoOnce'
    BY <1>3, <1>4 DEF RunFunctor, CallFunctor, LInv, FifoOnce
  <2> QED
    BY <1>1, <1>2, <1>4, <2>1
    DEF RunFunctor, CallFunctor, LInv, LoopTypeOK, WakeupPending, FlagOK, BatchOK
<1>5. CASE nested[f] # NoFunctor
  <2>1. nested[f] \in Functors
    BY <1>2, <1>5, FunctorsAssumption
  <2>2. Push(nested[f]) /\ wakeupFd_' = TRUE
    BY <1>1, <1>5 DEF RunFunctor, CallFunctor, WakeupNeeded
  <2>3. /\ executed \in Seq(Functors) /\ functors \in Seq(Functors)
        /\ pendingFunctors_ \in Seq(Functors)
        /\ queued = Joined(executed, functors, pendingFunctors_)
    BY DEF LInv, LoopTypeOK, FifoOnce, Joined
  <2>4. Append(queued, nested[f]) = (executed \o functors) \o Append(pendingFunctors_, nested[f])
    <3>1. Append(queued, nested[f])
            = Joined(executed, functors, Append(pendingFunctors_, nested[f]))
      BY <2>1, <2>3, PushJoined
    <3> QED
      BY <3>1 DEF Joined
  <2>5. FifoOnce'
    BY <1>3, <2>2, <2>4 DEF Push, FifoOnce
  <2>6. LoopTypeOK'
    <3>1. /\ Append(queued, nested[f]) \in Seq(Functors)
          /\ Append(pendingFunctors_, nested[f]) \in Seq(Functors)
      BY <2>1, AppendProperties DEF LInv, LoopTypeOK
    <3> QED
      BY <1>2, <2>2, <3>1 DEF RunFunctor, CallFunctor, Push, LInv, LoopTypeOK
  <2> QED
    BY <1>1, <2>2, <2>5, <2>6 DEF RunFunctor, CallFunctor, LInv, WakeupPending, FlagOK, BatchOK
<1> QED
  BY <1>4, <1>5

\* LInv is inductive.
LEMMA NextLInv == LInv /\ [LoopNext]_loopVars => LInv'
<1> SUFFICES ASSUME LInv, [LoopNext]_loopVars PROVE LInv'
  OBVIOUS
<1>1. CASE UNCHANGED loopVars
  BY <1>1 DEF loopVars, LInv, LoopTypeOK, WakeupPending, FlagOK, BatchOK, FifoOnce
<1>2. CASE LoopThread
  BY <1>2, QuietKeeps, QueueFromHandlerKeeps, SwapKeeps, RunFunctorKeeps DEF LoopThread
<1>3. CASE QuitInLoopThread
  BY <1>3, QuietKeeps
<1>4. CASE OtherThreads
  BY <1>4, QuietKeeps, QueueInLoopKeeps DEF OtherThreads
<1>5. ASSUME NEW t \in Threads, Quit(t) PROVE LInv'
  BY <1>5, QuietKeeps
<1> QED
  BY <1>1, <1>2, <1>3, <1>4, <1>5 DEF LoopNext

\* The inductive invariant holds in every reachable state.
THEOREM LoopInvariant == LoopSpec => []LInv
  BY InitLInv, NextLInv, PTL DEF LoopSpec

-----------------------------------------------------------------------------

\* Every variable of the loop keeps its type.
THEOREM LoopTypeCorrect == LoopSpec => []LoopTypeOK
<1>1. LInv => LoopTypeOK
  BY DEF LInv
<1> QED
  BY <1>1, LoopInvariant, PTL

\* The loop never blocks in poll() on a functor nobody will wake it for.
THEOREM WakeupsAreNotLost == LoopSpec => []NoLostWakeup
<1>1. LInv => NoLostWakeup
  BY DEF LInv, WakeupPending, NoLostWakeup
<1> QED
  BY <1>1, LoopInvariant, PTL

\* Functors are called once each, in the order of the pushes of all threads.
THEOREM FunctorsRunInOrder == LoopSpec => []FifoOnce
<1>1. LInv => FifoOnce
  BY DEF LInv
<1> QED
  BY <1>1, LoopInvariant, PTL

=============================================================================
