-------------------------- MODULE EventLoopThread --------------------------
(***************************************************************************)
(* muduo::net::EventLoopThread: the owner starts a thread, the thread      *)
(* builds an EventLoop on its own stack, publishes its address and runs    *)
(* loop(); the owner's destructor asks the loop to quit and joins.         *)
(***************************************************************************)
EXTENDS EventLoop

VARIABLES
    owner,      \* how far the thread that owns the EventLoopThread is
    loop_       \* loop_ is not NULL

threadVars == <<loopVars, owner, loop_>>

ThreadTypeOK ==
    /\ LoopTypeOK
    /\ owner \in {"new", "waiting", "running", "quitting", "joining", "joined"}
    /\ loop_ \in BOOLEAN

ThreadInit ==
    /\ LoopInit
    /\ owner = "new"
    /\ loop_ = FALSE

\* startLoop: start the thread, then wait for loop_ under mutex_.
StartLoop ==
    /\ owner = "new"
    /\ owner' = "waiting"
    /\ UNCHANGED <<loopVars, loop_>>

\* threadFunc: the loop is built, the init callback has run; publish, notify.
Publish ==
    /\ owner # "new"
    /\ ~loop_
    /\ loop_' = TRUE
    /\ UNCHANGED <<loopVars, owner>>

StartLoopReturn ==
    /\ owner = "waiting"
    /\ loop_
    /\ owner' = "running"
    /\ UNCHANGED <<loopVars, loop_>>

\* threadFunc calls loop.loop().
ThreadFunc ==
    /\ loop_
    /\ LoopThread
    /\ UNCHANGED <<owner, loop_>>

\* Users of the loop: from startLoop's return until the owner destroys it.
Users ==
    /\ owner = "running"
    /\ OtherThreads
    /\ UNCHANGED <<owner, loop_>>

\* ~EventLoopThread: loop_->quit() sets the flag ...
Destroy ==
    /\ owner = "running"
    /\ \A t \in Threads : caller[t] = "idle"
    /\ owner' = "quitting"
    /\ quit_' = TRUE
    /\ UNCHANGED <<pc, callingPendingFunctors_, pendingFunctors_, functors, wakeupFd_,
                   activeChannels_, caller, queued, executed, loop_>>

\* Mutant of DestroyWakeup: quit() without the wakeup().
DestroyNoWakeup == owner = "quitting" /\ owner' = "joining" /\ UNCHANGED <<loopVars, loop_>>

\* ... and writes to the wakeup descriptor; when loop() has returned meanwhile
\* the EventLoop is gone, and the write reaches no loop ...
DestroyWakeup ==
    /\ owner = "quitting"
    /\ owner' = "joining"
    /\ wakeupFd_' = (wakeupFd_ \/ pc # "stopped")
    /\ UNCHANGED <<pc, quit_, callingPendingFunctors_, pendingFunctors_, functors,
                   activeChannels_, caller, queued, executed, loop_>>

\* ... and thread_.join().
Join ==
    /\ owner = "joining"
    /\ pc = "stopped"
    /\ owner' = "joined"
    /\ UNCHANGED <<loopVars, loop_>>

OwnerStep == StartLoop \/ StartLoopReturn \/ Destroy \/ DestroyWakeup \/ Join

ThreadNext == OwnerStep \/ Publish \/ ThreadFunc \/ Users

ThreadSpec == ThreadInit /\ [][ThreadNext]_threadVars

\* Every thread keeps running; the owner need not ever destroy its loop.
ThreadFairness ==
    /\ WF_threadVars(StartLoop \/ StartLoopReturn \/ DestroyWakeup \/ Join)
    /\ WF_threadVars(Publish)
    /\ WF_threadVars(loop_ /\ LoopProgress /\ UNCHANGED <<owner, loop_>>)
    /\ \A t \in Threads : WF_threadVars(Wakeup(t) /\ Users)

FairThreadSpec == ThreadSpec /\ ThreadFairness

-----------------------------------------------------------------------------
(* Properties                                                              *)

\* A functor that is queued once startLoop has returned is called even when
\* the thread has not entered loop() yet, unless the owner stops the loop.
QueuedBeforeLoopIsCalled ==
    \A f \in Functors :
        (owner = "running" /\ \E i \in 1 .. Len(pendingFunctors_) : pendingFunctors_[i] = f)
            ~> (owner # "running" \/ \E i \in 1 .. Len(executed) : executed[i] = f)

\* If the thread is inside loop() when the owner sets quit_, it leaves loop()
\* and the owner's join() returns.
QuitInsideLoopJoins ==
    (owner = "quitting" /\ quit_ /\ pc # "constructed") ~> (owner = "joined")

=============================================================================
