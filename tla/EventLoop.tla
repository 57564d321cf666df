----------------------------- MODULE EventLoop -----------------------------
(***************************************************************************)
(* muduo::net::EventLoop: one thread runs loop(); any thread may hand it a *)
(* functor (queueInLoop) or ask it to stop (quit).  The functor queue is   *)
(* guarded by mutex_, everything else by the order of the steps: a caller  *)
(* pushes, then writes to the wakeup descriptor; the loop polls, handles   *)
(* the active channels, takes the whole queue and runs it.                 *)
(*                                                                         *)
(* A member of Functors is one call of queueInLoop, so it is queued once.  *)
(* nested[f] is the functor that f itself queues while it runs.            *)
(***************************************************************************)
EXTENDS Integers, Sequences

CONSTANTS
    Threads,        \* the threads other than the loop's own
    Functors,
    nested,
    NoFunctor

ASSUME FunctorsAssumption ==
    /\ NoFunctor \notin Functors
    /\ nested \in [Functors -> Functors \cup {NoFunctor}]

VARIABLES
    pc,                         \* where the loop's thread is
    quit_,
    callingPendingFunctors_,
    pendingFunctors_,
    functors,                   \* the local vector of doPendingFunctors
    wakeupFd_,                  \* the eventfd holds a nonzero count
    activeChannels_,            \* what poll() returned and is still to be handled
    caller,                     \* how far another thread is in queueInLoop or quit
    queued,                     \* history: the order of the pushes
    executed                    \* history: the order of the calls

loopVars == <<pc, quit_, callingPendingFunctors_, pendingFunctors_, functors,
              wakeupFd_, activeChannels_, caller, queued, executed>>

Places == {"constructed", "check", "poll", "handle", "swap", "run", "stopped"}

LoopTypeOK ==
    /\ pc \in Places
    /\ quit_ \in BOOLEAN
    /\ callingPendingFunctors_ \in BOOLEAN
    /\ pendingFunctors_ \in Seq(Functors)
    /\ functors \in Seq(Functors)
    /\ wakeupFd_ \in BOOLEAN
    /\ activeChannels_ \subseteq {"wakeup", "io"}
    /\ caller \in [Threads -> {"idle", "pushed", "quitting"}]
    /\ queued \in Seq(Functors)
    /\ executed \in Seq(Functors)

LoopInit ==
    /\ pc = "constructed"
    /\ quit_ = FALSE
    /\ callingPendingFunctors_ = FALSE
    /\ pendingFunctors_ = <<>>
    /\ functors = <<>>
    /\ wakeupFd_ = FALSE
    /\ activeChannels_ = {}
    /\ caller = [t \in Threads |-> "idle"]
    /\ queued = <<>>
    /\ executed = <<>>

\* f has not been handed to the loop, and is not one that another functor queues.
Fresh(f) ==
    /\ \A i \in 1 .. Len(queued) : queued[i] # f
    /\ \A g \in Functors : nested[g] # f

Push(f) ==
    /\ pendingFunctors_' = Append(pendingFunctors_, f)
    /\ queued' = Append(queued, f)

-----------------------------------------------------------------------------
(* The loop's thread                                                       *)

\* Mutant of Loop: the queue is cleared with quit_.
LoopClearsQueue ==
    /\ pc = "constructed"
    /\ pc' = "check"
    /\ quit_' = FALSE
    /\ pendingFunctors_' = <<>>
    /\ UNCHANGED <<callingPendingFunctors_, functors, wakeupFd_, activeChannels_, caller,
                   queued, executed>>

\* loop() begins by clearing quit_.
Loop ==
    /\ pc = "constructed"
    /\ pc' = "check"
    /\ quit_' = FALSE
    /\ UNCHANGED <<callingPendingFunctors_, pendingFunctors_, functors, wakeupFd_,
                   activeChannels_, caller, queued, executed>>

\* while (!quit_)
CheckQuit ==
    /\ pc = "check"
    /\ pc' = IF quit_ THEN "stopped" ELSE "poll"
    /\ UNCHANGED <<quit_, callingPendingFunctors_, pendingFunctors_, functors,
                   wakeupFd_, activeChannels_, caller, queued, executed>>

\* poll() returns the descriptors that are ready; none when it times out.
Poll(io) ==
    /\ pc = "poll"
    /\ pc' = "handle"
    /\ activeChannels_' = {ch \in {"wakeup", "io"} : (ch = "wakeup" /\ wakeupFd_)
                                                   \/ (ch = "io" /\ io)}
    /\ UNCHANGED <<quit_, callingPendingFunctors_, pendingFunctors_, functors,
                   wakeupFd_, caller, queued, executed>>

\* EventLoop::handleRead empties the eventfd.
HandleRead ==
    /\ pc = "handle"
    /\ "wakeup" \in activeChannels_
    /\ activeChannels_' = activeChannels_ \ {"wakeup"}
    /\ wakeupFd_' = FALSE
    /\ UNCHANGED <<pc, quit_, callingPendingFunctors_, pendingFunctors_, functors,
                   caller, queued, executed>>

\* An event handler of some other channel returns, having queued nothing.
HandleEvent ==
    /\ pc = "handle"
    /\ "io" \in activeChannels_
    /\ activeChannels_' = activeChannels_ \ {"io"}
    /\ UNCHANGED <<pc, quit_, callingPendingFunctors_, pendingFunctors_, functors,
                   wakeupFd_, caller, queued, executed>>

\* Mutant of WakeupNeeded: only other threads wake the loop up.
WakeupNever == FALSE

\* queueInLoop in the loop's thread: wake up only when called by a functor.
WakeupNeeded == callingPendingFunctors_

QueueFromHandler(f) ==
    /\ pc = "handle"
    /\ "io" \in activeChannels_
    /\ Fresh(f)
    /\ Push(f)
    /\ wakeupFd_' = (wakeupFd_ \/ WakeupNeeded)
    /\ UNCHANGED <<pc, quit_, callingPendingFunctors_, functors, activeChannels_,
                   caller, executed>>

\* quit() in the loop's thread, from an event handler or a functor: no wakeup.
QuitInLoopThread ==
    /\ pc = "run" \/ (pc = "handle" /\ "io" \in activeChannels_)
    /\ quit_' = TRUE
    /\ UNCHANGED <<pc, callingPendingFunctors_, pendingFunctors_, functors, wakeupFd_,
                   activeChannels_, caller, queued, executed>>

\* All active channels are handled; doPendingFunctors() raises its flag ...
BeginPendingFunctors ==
    /\ pc = "handle"
    /\ activeChannels_ = {}
    /\ pc' = "swap"
    /\ callingPendingFunctors_' = TRUE
    /\ UNCHANGED <<quit_, pendingFunctors_, functors, wakeupFd_, activeChannels_,
                   caller, queued, executed>>

\* Mutant of Swap: functors = pendingFunctors_ in place of the swap.
SwapCopies ==
    /\ pc = "swap"
    /\ pc' = "run"
    /\ functors' = pendingFunctors_
    /\ UNCHANGED <<quit_, callingPendingFunctors_, pendingFunctors_, wakeupFd_,
                   activeChannels_, caller, queued, executed>>

\* ... takes the queue under mutex_ ...
Swap ==
    /\ pc = "swap"
    /\ pc' = "run"
    /\ functors' = pendingFunctors_
    /\ pendingFunctors_' = <<>>
    /\ UNCHANGED <<quit_, callingPendingFunctors_, wakeupFd_, activeChannels_,
                   caller, queued, executed>>

\* What a functor does to the loop: nothing, or queueInLoop.
CallFunctor(f) ==
    IF nested[f] = NoFunctor
    THEN UNCHANGED <<pendingFunctors_, queued, wakeupFd_>>
    ELSE Push(nested[f]) /\ wakeupFd_' = (wakeupFd_ \/ WakeupNeeded)

\* ... calls the functors in order, some of which queue another ...
RunFunctor ==
    /\ pc = "run"
    /\ functors # <<>>
    /\ functors' = Tail(functors)
    /\ executed' = Append(executed, Head(functors))
    /\ CallFunctor(Head(functors))
    /\ UNCHANGED <<pc, quit_, callingPendingFunctors_, activeChannels_, caller>>

\* ... and lowers the flag again.
EndPendingFunctors ==
    /\ pc = "run"
    /\ functors = <<>>
    /\ pc' = "check"
    /\ callingPendingFunctors_' = FALSE
    /\ UNCHANGED <<quit_, pendingFunctors_, functors, wakeupFd_, activeChannels_,
                   caller, queued, executed>>

-----------------------------------------------------------------------------
(* Other threads                                                           *)

\* queueInLoop: the push, under mutex_.
QueueInLoop(t, f) ==
    /\ caller[t] = "idle"
    /\ Fresh(f)
    /\ Push(f)
    /\ caller' = [caller EXCEPT ![t] = "pushed"]
    /\ UNCHANGED <<pc, quit_, callingPendingFunctors_, functors, wakeupFd_,
                   activeChannels_, executed>>

\* quit: the flag.
Quit(t) ==
    /\ caller[t] = "idle"
    /\ quit_' = TRUE
    /\ caller' = [caller EXCEPT ![t] = "quitting"]
    /\ UNCHANGED <<pc, callingPendingFunctors_, pendingFunctors_, functors, wakeupFd_,
                   activeChannels_, queued, executed>>

\* Both end with wakeup().
Wakeup(t) ==
    /\ caller[t] \in {"pushed", "quitting"}
    /\ wakeupFd_' = TRUE
    /\ caller' = [caller EXCEPT ![t] = "idle"]
    /\ UNCHANGED <<pc, quit_, callingPendingFunctors_, pendingFunctors_, functors,
                   activeChannels_, queued, executed>>

-----------------------------------------------------------------------------
LoopThread ==
    \/ Loop
    \/ CheckQuit
    \/ \E io \in BOOLEAN : Poll(io)
    \/ HandleRead
    \/ HandleEvent
    \/ \E f \in Functors : QueueFromHandler(f)
    \/ BeginPendingFunctors
    \/ Swap
    \/ RunFunctor
    \/ EndPendingFunctors

OtherThreads ==
    \E t \in Threads : \/ \E f \in Functors : QueueInLoop(t, f)
                       \/ Wakeup(t)

LoopNext ==
    \/ LoopThread
    \/ QuitInLoopThread
    \/ OtherThreads
    \/ \E t \in Threads : Quit(t)

LoopSpec == LoopInit /\ [][LoopNext]_loopVars

\* The scheduler runs every thread that can run.  poll() is only sure to
\* return when the wakeup descriptor is readable: neither its ten second
\* time-out nor other traffic is relied on.
LoopProgress ==
    \/ Loop
    \/ CheckQuit
    \/ wakeupFd_ /\ \E io \in BOOLEAN : Poll(io)
    \/ HandleRead
    \/ HandleEvent
    \/ BeginPendingFunctors
    \/ Swap
    \/ RunFunctor
    \/ EndPendingFunctors

LoopFairness ==
    /\ WF_loopVars(LoopProgress)
    /\ \A t \in Threads : WF_loopVars(Wakeup(t))

FairLoopSpec == LoopSpec /\ LoopFairness

-----------------------------------------------------------------------------
(* Properties                                                              *)

\* A wakeup is never lost: whenever the loop is about to poll, or polling,
\* with a functor in the queue, the wakeup descriptor is readable or some
\* thread is just about to write to it (queueInLoop, EventLoop.cc 162-176).
NoLostWakeup ==
    pc \in {"check", "poll"} /\ pendingFunctors_ # <<>> =>
        wakeupFd_ \/ \E t \in Threads : caller[t] = "pushed"

\* Functors are called once each, in the order in which they were pushed,
\* whichever thread pushed them and however the batches fall.
FifoOnce == queued = executed \o functors \o pendingFunctors_

=============================================================================
