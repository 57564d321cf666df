----------------------------- MODULE ThreadPool -----------------------------
(***************************************************************************)
(* muduo::ThreadPool: workers wait on one condition variable for tasks;    *)
(* run() queues one, stop() ends the workers and joins them.  What a task  *)
(* does is left to the module that extends this one: a worker in "task"    *)
(* is running one.  The tasks of the sender's pool are all the same        *)
(* callback, so the queue is its length.                                   *)
(***************************************************************************)
EXTENDS Naturals, FiniteSets

CONSTANTS
    Workers,    \* the pool's threads; run() calls the task itself when there are none
    MaxQueue    \* bound on the queued tasks

ASSUME PoolAssumption == IsFiniteSet(Workers) /\ Workers # {} /\ MaxQueue \in Nat \ {0}

VARIABLES
    running_,
    queue_,     \* tasks queued
    worker,     \* "test" running_, "take", "waiting", "woken", in a "task" or "done"
    stopper     \* stop(): "no", "joining" or "joined"

poolVars == <<running_, queue_, worker, stopper>>

PoolInit ==
    /\ running_ = TRUE
    /\ queue_ = 0
    /\ worker = [w \in Workers |-> "test"]
    /\ stopper = "no"

Waiting == {w \in Workers : worker[w] = "waiting"}

\* Mutant of Notify: only the first task of an empty queue wakes a worker.
NotifyWhenEmpty ==
    IF Waiting = {} \/ queue_ > 0
    THEN UNCHANGED worker
    ELSE \E w \in Waiting : worker' = [worker EXCEPT ![w] = "woken"]

\* cond_.notify(): one of the waiting workers.
Notify ==
    IF Waiting = {}
    THEN UNCHANGED worker
    ELSE \E w \in Waiting : worker' = [worker EXCEPT ![w] = "woken"]

\* run(), under the mutex.
Run ==
    /\ queue_ < MaxQueue
    /\ queue_' = queue_ + 1
    /\ Notify
    /\ UNCHANGED <<running_, stopper>>

\* runInThread: while (running_), read without the mutex.
TestRunning(w) ==
    /\ worker[w] = "test"
    /\ worker' = [worker EXCEPT ![w] = IF running_ THEN "take" ELSE "done"]
    /\ UNCHANGED <<running_, queue_, stopper>>

\* take(), under the mutex from its entry or from the return of wait() on.
Take(w) ==
    /\ worker[w] \in {"take", "woken"}
    /\ \/ /\ queue_ = 0 /\ running_
          /\ worker' = [worker EXCEPT ![w] = "waiting"]
          /\ UNCHANGED queue_
       \/ /\ queue_ > 0
          /\ worker' = [worker EXCEPT ![w] = "task"]
          /\ queue_' = queue_ - 1
       \/ /\ queue_ = 0 /\ ~running_
          /\ worker' = [worker EXCEPT ![w] = "test"]
          /\ UNCHANGED queue_
    /\ UNCHANGED <<running_, stopper>>

\* pthread_cond_wait may return for no reason.
SpuriousWakeup(w) ==
    /\ worker[w] = "waiting"
    /\ worker' = [worker EXCEPT ![w] = "woken"]
    /\ UNCHANGED <<running_, queue_, stopper>>

\* The task returns.
TaskReturns(w) ==
    /\ worker[w] = "task"
    /\ worker' = [worker EXCEPT ![w] = "test"]
    /\ UNCHANGED <<running_, queue_, stopper>>

\* Mutant of NotifyAll: one worker is woken, not all.
NotifyOne == Notify

NotifyAll == worker' = [w \in Workers |-> IF w \in Waiting THEN "woken" ELSE worker[w]]

\* stop(): the flag and notifyAll under the mutex ...
Stop ==
    /\ stopper = "no"
    /\ stopper' = "joining"
    /\ running_' = FALSE
    /\ NotifyAll
    /\ UNCHANGED queue_

\* ... then join every thread.
Join ==
    /\ stopper = "joining"
    /\ \A w \in Workers : worker[w] = "done"
    /\ stopper' = "joined"
    /\ UNCHANGED <<running_, queue_, worker>>

WorkerStep(w) == TestRunning(w) \/ Take(w)

-----------------------------------------------------------------------------
(* Properties                                                              *)

\* No task waits while a worker sleeps: there are as many woken workers as
\* queued tasks as long as any worker is waiting, although workers that were
\* never woken may take a task first and wakeups may be spurious.
NoTaskWaitsForSleeper == Waiting # {} => queue_ <= Cardinality({w \in Workers : worker[w] = "woken"})

\* stop() returns: every worker notices running_ and ends, whether it is
\* waiting, in a task or between the two.
StopJoins == (stopper = "joining") ~> (stopper = "joined")

=============================================================================
