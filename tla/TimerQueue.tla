----------------------------- MODULE TimerQueue -----------------------------
(***************************************************************************)
(* muduo::net::TimerQueue with the timer calls of EventLoop: timers are    *)
(* heap objects known to their users as an address and a sequence number,  *)
(* one timerfd is armed for the earliest of them, and callbacks, functors  *)
(* and another thread add and cancel timers at any time.                   *)
(*                                                                         *)
(* Time is counted in steps of the 100 microseconds that resetTimerfd      *)
(* never goes below.  The clock saturates: Horizon stands for every later  *)
(* time, and a timer that is due then is due at once.                      *)
(***************************************************************************)
EXTENDS Naturals, Sequences, FiniteSets, FiniteSetsExt

CONSTANTS
    Addresses,      \* where Timer objects can lie; reused after delete
    NoTimer,        \* no pointer
    MaxTimers,      \* bound on the timers ever created
    Intervals,      \* 0 for a one-shot timer, else the period
    Horizon         \* the last clock value that is told apart

ASSUME TimerAssumption ==
    /\ MaxTimers \in Nat
    /\ Horizon \in Nat \ {0}
    /\ Intervals \subseteq Nat
    /\ IsFiniteSet(Addresses) /\ NoTimer \notin Addresses

VARIABLES
    clock,                  \* Timestamp::now()
    s_numCreated_,          \* Timer: sequence numbers given out
    heap,                   \* address -> the Timer there, sequence 0 when free
    timers_,                \* set of <<expiration, address>>
    activeTimers_,          \* set of <<address, sequence>>
    cancelingTimers_,       \* ids cancelled while callbacks run
    timerfd_,               \* when the descriptor becomes readable, 0 when disarmed
    calling,                \* callingExpiredTimers_
    expired,                \* handleRead's batch, set of <<expiration, address>>
    toRun,                  \* the part of it whose callbacks have not run
    handledAt,              \* the time handleRead took
    pendingFunctors_,       \* the loop's queued addTimerInLoop and cancelInLoop
    adder,                  \* the other thread's addTimer: its step and its Timer*
    ids,                    \* TimerIds that addTimer returned
    fate                    \* sequence -> "unborn", "in", "cancelled" or "done"

timerVars == <<clock, s_numCreated_, heap, timers_, activeTimers_, cancelingTimers_, timerfd_,
               calling, expired, toRun, handledAt, pendingFunctors_, adder, ids, fate>>

Times       == 1 .. Horizon
SequenceNos == 1 .. MaxTimers
Free        == [sequence |-> 0, expiration |-> 0, interval |-> 0]
NoAdder     == [step |-> "idle", timer |-> NoTimer, sequence |-> 0]

Saturate(t) == IF t > Horizon THEN Horizon ELSE t

TimerInit ==
    /\ clock = 1
    /\ s_numCreated_ = 0
    /\ heap = [a \in Addresses |-> Free]
    /\ timers_ = {}
    /\ activeTimers_ = {}
    /\ cancelingTimers_ = {}
    /\ timerfd_ = 0
    /\ calling = FALSE
    /\ expired = {}
    /\ toRun = {}
    /\ handledAt = 0
    /\ pendingFunctors_ = <<>>
    /\ adder = NoAdder
    /\ ids = {}
    /\ fate = [s \in SequenceNos |-> "unborn"]

Tick ==
    /\ clock < Horizon
    /\ clock' = clock + 1
    /\ UNCHANGED <<s_numCreated_, heap, timers_, activeTimers_, cancelingTimers_, timerfd_, calling,
                   expired, toRun, handledAt, pendingFunctors_, adder, ids, fate>>

-----------------------------------------------------------------------------
(* Timer objects and the timerfd                                           *)

\* new Timer at a free address, with the next sequence number.
NewTimer(when, interval) ==
    [sequence |-> s_numCreated_ + 1, expiration |-> when, interval |-> interval]

CanCreate(a) == heap[a] = Free /\ s_numCreated_ < MaxTimers

\* resetTimerfd: never sooner than one step from now.
ArmedFor(expiration) ==
    IF expiration > clock THEN expiration ELSE Saturate(clock + 1)

Earliest(list) == Min({e[1] : e \in list})

\* Mutant of EarliestChanged: only an empty list makes the new timer the earliest.
EarliestChangedWhenEmpty(when) == timers_ = {}

\* insert() returns whether the new timer is the first to expire.
EarliestChanged(when) == timers_ = {} \/ when < Earliest(timers_)

-----------------------------------------------------------------------------
(* The loop's thread                                                       *)

\* addTimerInLoop with insert: both sets, and the timerfd when it must fire sooner.
AddTimerInLoop(a, timer) ==
    /\ timers_' = timers_ \cup {<<timer.expiration, a>>}
    /\ activeTimers_' = activeTimers_ \cup {<<a, timer.sequence>>}
    /\ timerfd_' = IF EarliestChanged(timer.expiration)
                   THEN ArmedFor(timer.expiration) ELSE timerfd_
    /\ fate' = [fate EXCEPT ![timer.sequence] = "in"]

\* Mutant of Found: the address alone decides.
FoundByAddress(id) == \E t \in activeTimers_ : t[1] = id[1]

Found(id) == id \in activeTimers_

\* Mutant of CancelInLoop: the timer leaves both sets but is not deleted.
CancelInLoopLeaks(id) ==
    /\ timers_' = {e \in timers_ : e[2] # id[1] \/ ~Found(id)}
    /\ activeTimers_' = activeTimers_ \ {id}
    /\ cancelingTimers_' = cancelingTimers_ \cup (IF calling /\ ~Found(id) THEN {id} ELSE {})
    /\ UNCHANGED <<heap, fate>>

\* cancelInLoop: an active timer is taken out of both sets and deleted; one whose
\* callback may be running is remembered; any other is ignored.
CancelInLoop(id) ==
    LET a == id[1] IN
    /\ IF Found(id)
       THEN /\ timers_' = timers_ \ {<<heap[a].expiration, a>>}
            /\ activeTimers_' = {t \in activeTimers_ : t[1] # a}
            /\ heap' = [heap EXCEPT ![a] = Free]
            /\ UNCHANGED cancelingTimers_
       ELSE /\ cancelingTimers_' = cancelingTimers_ \cup (IF calling THEN {id} ELSE {})
            /\ UNCHANGED <<timers_, activeTimers_, heap>>
    /\ fate' = [s \in SequenceNos |->
            IF id = <<a, s>> /\ heap[a].sequence = s /\ fate[s] = "in"
            THEN "cancelled" ELSE fate[s]]

\* addTimer called in the loop's thread: by a handler, a functor or a callback.
AddTimer(a, when, interval) ==
    /\ CanCreate(a)
    /\ s_numCreated_' = s_numCreated_ + 1
    /\ heap' = [heap EXCEPT ![a] = NewTimer(when, interval)]
    /\ AddTimerInLoop(a, NewTimer(when, interval))
    /\ ids' = ids \cup {<<a, s_numCreated_ + 1>>}
    /\ UNCHANGED <<clock, cancelingTimers_, calling, expired, toRun, handledAt, pendingFunctors_,
                   adder>>

Cancel(id) ==
    /\ CancelInLoop(id)
    /\ ids' = ids \ {id}
    /\ UNCHANGED <<clock, s_numCreated_, timerfd_, calling, expired, toRun, handledAt,
                   pendingFunctors_, adder>>

\* doPendingFunctors: never while timer callbacks run.
RunFunctor ==
    /\ ~calling
    /\ pendingFunctors_ # <<>>
    /\ LET f == Head(pendingFunctors_) IN
        IF f.name = "addTimerInLoop"
        THEN AddTimerInLoop(f.timer[1], heap[f.timer[1]]) /\ UNCHANGED <<heap, cancelingTimers_>>
        ELSE CancelInLoop(f.timer) /\ UNCHANGED timerfd_
    /\ pendingFunctors_' = Tail(pendingFunctors_)
    /\ UNCHANGED <<clock, s_numCreated_, calling, expired, toRun, handledAt, adder, ids>>

\* handleRead up to the first callback: read the timerfd, take what has expired.
HandleRead ==
    /\ ~calling
    /\ timerfd_ # 0 /\ timerfd_ <= clock
    /\ handledAt' = clock
    /\ timerfd_' = 0
    /\ expired' = {e \in timers_ : e[1] <= clock}
    /\ toRun' = expired'
    /\ timers_' = timers_ \ expired'
    /\ activeTimers_' = {t \in activeTimers_ : \A e \in expired' : e[2] # t[1]}
    /\ calling' = TRUE
    /\ cancelingTimers_' = {}
    /\ UNCHANGED <<clock, s_numCreated_, heap, pendingFunctors_, adder, ids, fate>>

\* One callback, in the order of expiration.  What it adds or cancels are the
\* AddTimer and Cancel steps that follow.
RunTimer ==
    /\ calling
    /\ \E e \in toRun :
        /\ e[1] = Earliest(toRun)
        /\ toRun' = toRun \ {e}
        /\ fate' = [fate EXCEPT ![heap[e[2]].sequence] =
                IF heap[e[2]].interval = 0 THEN "done" ELSE @]
    /\ UNCHANGED <<clock, s_numCreated_, heap, timers_, activeTimers_, cancelingTimers_, timerfd_,
                   calling, expired, handledAt, pendingFunctors_, adder, ids>>

\* Mutant of Restarts: a repeated timer comes back although it was cancelled.
RestartsAll == {e[2] : e \in {x \in expired : heap[x[2]].interval > 0}}

\* reset() restarts the repeated timers of the batch that were not cancelled.
Restarts ==
    {a \in {e[2] : e \in expired} :
        heap[a].interval > 0 /\ <<a, heap[a].sequence>> \notin cancelingTimers_}

Rearm(list) == IF list = {} THEN timerfd_ ELSE ArmedFor(Earliest(list))

\* The last callback has returned: reset().
Reset ==
    LET next(a) == Saturate(handledAt + heap[a].interval)
        batch   == {e[2] : e \in expired}
    IN  /\ calling
        /\ toRun = {}
        /\ calling' = FALSE
        /\ expired' = {}
        /\ heap' = [a \in Addresses |->
                IF a \in Restarts THEN [heap[a] EXCEPT !.expiration = next(a)]
                ELSE IF a \in batch THEN Free ELSE heap[a]]
        /\ timers_' = timers_ \cup {<<next(a), a>> : a \in Restarts}
        /\ activeTimers_' = activeTimers_ \cup {<<a, heap[a].sequence>> : a \in Restarts}
        /\ timerfd_' = Rearm(timers_')
        /\ handledAt' = 0
        /\ UNCHANGED <<clock, s_numCreated_, cancelingTimers_, toRun, pendingFunctors_, adder, ids,
                       fate>>

-----------------------------------------------------------------------------
(* Another thread                                                          *)

\* addTimer: new Timer ...
OtherNew(a, when, interval) ==
    /\ adder.step = "idle"
    /\ CanCreate(a)
    /\ s_numCreated_' = s_numCreated_ + 1
    /\ heap' = [heap EXCEPT ![a] = NewTimer(when, interval)]
    /\ adder' = [step |-> "created", timer |-> a, sequence |-> s_numCreated_ + 1]
    /\ UNCHANGED <<clock, timers_, activeTimers_, cancelingTimers_, timerfd_, calling, expired, toRun,
                   handledAt, pendingFunctors_, ids, fate>>

\* ... queueInLoop ...
OtherQueueAdd ==
    /\ adder.step = "created"
    /\ pendingFunctors_' = Append(pendingFunctors_,
            [name |-> "addTimerInLoop", timer |-> <<adder.timer, 0>>])
    /\ adder' = [adder EXCEPT !.step = "queued"]
    /\ UNCHANGED <<clock, s_numCreated_, heap, timers_, activeTimers_, cancelingTimers_, timerfd_,
                   calling, expired, toRun, handledAt, ids, fate>>

\* ... and timer->sequence().  By now the loop may have run and deleted the
\* timer: the memory then holds the old number, rubbish (0) or another timer.
OtherReturnId ==
    /\ adder.step = "queued"
    /\ LET a == adder.timer IN
        \E s \in IF heap[a] = Free THEN {0, adder.sequence} ELSE {heap[a].sequence} :
            ids' = ids \cup {<<a, s>>}
    /\ adder' = NoAdder
    /\ UNCHANGED <<clock, s_numCreated_, heap, timers_, activeTimers_, cancelingTimers_, timerfd_,
                   calling, expired, toRun, handledAt, pendingFunctors_, fate>>

OtherCancel(id) ==
    /\ pendingFunctors_' = Append(pendingFunctors_, [name |-> "cancelInLoop", timer |-> id])
    /\ ids' = ids \ {id}
    /\ UNCHANGED <<clock, s_numCreated_, heap, timers_, activeTimers_, cancelingTimers_, timerfd_,
                   calling, expired, toRun, handledAt, adder, fate>>

-----------------------------------------------------------------------------
TimerNext ==
    \/ Tick
    \/ RunFunctor \/ HandleRead \/ RunTimer \/ Reset
    \/ OtherQueueAdd \/ OtherReturnId
    \/ \E a \in Addresses, when \in Times, interval \in Intervals :
           AddTimer(a, when, interval) \/ OtherNew(a, when, interval)
    \/ \E id \in ids : Cancel(id) \/ OtherCancel(id)

TimerSpec == TimerInit /\ [][TimerNext]_timerVars

-----------------------------------------------------------------------------
(* Properties                                                              *)

\* Whenever the loop polls with timers in the list, the timerfd is armed no
\* later than the earliest of them, or for the next step when that is overdue:
\* insertions, cancellations and restarts never leave it set too late.
ArmedForEarliest ==
    ~calling /\ timers_ # {} =>
        timerfd_ # 0 /\ timerfd_ <= Max({Earliest(timers_), Saturate(clock + 1)})

\* timers_ and activeTimers_ hold the same Timer objects, each under its current
\* expiration and sequence, so the erase in cancelInLoop finds what it looks for
\* (TimerQueue.cc 160); and every Timer is owned exactly once: no leak, no
\* second delete, although addresses are reused.
TimersOwnedOnce ==
    LET listed  == {e[2] : e \in timers_}
        batch   == {e[2] : e \in expired}
        queued  == {pendingFunctors_[i].timer[1] : i \in {j \in DOMAIN pendingFunctors_ :
                        pendingFunctors_[j].name = "addTimerInLoop"}}
        created == IF adder.step = "created" THEN {adder.timer} ELSE {}
    IN  /\ timers_ = {<<heap[a].expiration, a>> : a \in listed}
        /\ activeTimers_ = {<<a, heap[a].sequence>> : a \in listed}
        /\ Cardinality(listed) + Cardinality(batch) + Cardinality(queued) + Cardinality(created)
               = Cardinality({a \in Addresses : heap[a] # Free})
        /\ {a \in Addresses : heap[a] # Free} = listed \cup batch \cup queued \cup created

\* A timer that was inserted is dropped only by its own end: its one shot ran,
\* or a cancel named its sequence.  A stale TimerId for a reused address must
\* not take another timer with it.
NothingLost ==
    \A s \in SequenceNos : fate[s] = "in" =>
        \/ \E t \in activeTimers_ : t[2] = s
        \/ \E e \in expired : heap[e[2]].sequence = s

\* A timer that was cancelled after it was inserted is not in the list once the
\* callbacks are done, though it may have been cancelled from its own callback.
CancelledStaysOut ==
    ~calling => \A t \in activeTimers_ : fate[t[2]] # "cancelled"

=============================================================================
