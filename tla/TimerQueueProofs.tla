-------------------------- MODULE TimerQueueProofs --------------------------
(***************************************************************************)
(* Proofs about the TimerQueue, for any number of timers, addresses,       *)
(* intervals and clock values.                                             *)
(***************************************************************************)
EXTENDS TimerQueue, FiniteSetTheorems, WellFoundedInduction, TLAPS

Timers   == [sequence : Nat, expiration : Nat, interval : Nat]
TimerIds == Addresses \X Nat
Entries  == Nat \X Addresses
Functors == [name : {"addTimerInLoop", "cancelInLoop"}, timer : TimerIds]
Adders   == [step : {"idle", "created", "queued"}, timer : Addresses \cup {NoTimer}, sequence : Nat]

TimerTypeOK ==
    /\ clock \in Times
    /\ s_numCreated_ \in 0 .. MaxTimers
    /\ heap \in [Addresses -> Timers]
    /\ timers_ \subseteq Entries
    /\ activeTimers_ \subseteq TimerIds
    /\ cancelingTimers_ \subseteq TimerIds
    /\ timerfd_ \in Nat
    /\ calling \in BOOLEAN
    /\ expired \subseteq Entries
    /\ toRun \subseteq expired
    /\ ~calling => expired = {}
    /\ handledAt \in Nat
    /\ pendingFunctors_ \in Seq(Functors)
    /\ adder \in Adders
    /\ adder.step # "idle" => adder.timer \in Addresses
    /\ ids \subseteq TimerIds
    /\ fate \in [SequenceNos -> {"unborn", "in", "cancelled", "done"}]

\* Who owns a Timer object: the list, the batch whose callbacks run, a queued
\* addTimerInLoop, or the thread that has just created it.
Used    == {a \in Addresses : heap[a] # Free}
Listed  == {e[2] : e \in timers_}
Batch   == {e[2] : e \in expired}
Adds    == {i \in DOMAIN pendingFunctors_ : pendingFunctors_[i].name = "addTimerInLoop"}
AddOf(i) == pendingFunctors_[i].timer[1]
Queued  == {AddOf(i) : i \in Adds}
Created == IF adder.step = "created" THEN {adder.timer} ELSE {}

\* Sequence numbers tell the living timers apart, whatever address they have.
HeapOK ==
    /\ \A a \in Addresses : heap[a].sequence <= s_numCreated_
    /\ \A a \in Addresses : heap[a].sequence = 0 <=> heap[a] = Free
    /\ \A a, b \in Addresses : heap[a].sequence = heap[b].sequence /\ heap[a] # Free => a = b

\* Both sets hold the listed timers under their current values.
ListsOK ==
    /\ \A e \in timers_ : e[1] = heap[e[2]].expiration
    /\ activeTimers_ = {<<a, heap[a].sequence>> : a \in Listed}

DistinctAdds ==
    \A i, j \in Adds : AddOf(i) = AddOf(j) => i = j

OwnersOK ==
    /\ Used = Listed \cup Batch \cup Queued \cup Created
    /\ Listed \cap Batch = {} /\ Listed \cap Queued = {} /\ Listed \cap Created = {}
    /\ Batch \cap Queued = {} /\ Batch \cap Created = {} /\ Queued \cap Created = {}
    /\ DistinctAdds

\* What is known of a timer by its place: a listed one was not cancelled; in the
\* batch, the cancelled ones are remembered and the one-shots that ran are done.
FatesOK ==
    /\ \A s \in SequenceNos : fate[s] = "in" =>
          \E a \in Listed \cup Batch : heap[a].sequence = s
    /\ \A a \in Listed : fate[heap[a].sequence] # "cancelled"
    /\ \A a \in Batch :
          /\ fate[heap[a].sequence] = "cancelled" => <<a, heap[a].sequence>> \in cancelingTimers_
          /\ <<a, heap[a].sequence>> \in cancelingTimers_ => fate[heap[a].sequence] # "in"
    /\ \A e \in expired : e \notin toRun /\ heap[e[2]].interval = 0 =>
          fate[heap[e[2]].sequence] # "in"

\* The timerfd is armed in time for every listed timer.
FdOK ==
    ~calling => \A e \in timers_ :
        timerfd_ # 0 /\ (timerfd_ <= e[1] \/ timerfd_ <= Saturate(clock + 1))

QInv ==
    /\ TimerTypeOK
    /\ HeapOK
    /\ ListsOK
    /\ OwnersOK
    /\ FatesOK
    /\ FdOK

-----------------------------------------------------------------------------
(* The earliest of a list, and the timerfd                                 *)

LEMMA MinOfNats ==
    ASSUME NEW S \in SUBSET Nat, S # {}
    PROVE  Min(S) \in S /\ \A y \in S : Min(S) <= y
<1> DEFINE R == {ss \in Nat \X Nat : ss[1] < ss[2]}
<1>1. IsWellFoundedOn(R, Nat)
  BY NatLessThanWellFounded DEF OpToRel
<1>2. \E x \in S : \A y \in S : <<y, x>> \notin R
  <2> HIDE DEF R
  <2> QED BY <1>1, WFMin
<1>3. ASSUME NEW x \in Nat, NEW y \in Nat, <<y, x>> \notin R
      PROVE  x <= y
  BY <1>3
<1>4. \E x \in S : \A y \in S : x <= y
  BY <1>2, <1>3
<1> QED BY <1>4 DEF Min

LEMMA EarliestOfEntries ==
    ASSUME NEW L \in SUBSET Entries, L # {}
    PROVE  /\ Earliest(L) \in Nat
           /\ \E e \in L : e[1] = Earliest(L)
           /\ \A e \in L : Earliest(L) <= e[1]
<1> DEFINE S == {e[1] : e \in L}
<1>1. S \in SUBSET Nat /\ S # {}
  BY DEF Entries
<1>2. Min(S) \in S /\ \A y \in S : Min(S) <= y
  BY <1>1, MinOfNats
<1>3. Earliest(L) = Min(S)
  BY DEF Earliest
<1> QED BY <1>1, <1>2, <1>3

\* resetTimerfd arms for the expiration, or for the next step.
LEMMA ArmedInTime ==
    ASSUME clock \in Times, NEW x \in Nat
    PROVE  /\ Saturate(clock + 1) \in Times
           /\ ArmedFor(x) \in Nat \ {0}
           /\ ArmedFor(x) <= x \/ ArmedFor(x) <= Saturate(clock + 1)
BY TimerAssumption DEF Times, Saturate, ArmedFor

-----------------------------------------------------------------------------
(* Facts about states                                                      *)

\* A timer that somebody owns has a sequence number that was given out.
LEMMA OwnedHasSequence ==
    ASSUME QInv, NEW a \in Used
    PROVE  a \in Addresses /\ heap[a].sequence \in SequenceNos
<1>1. a \in Addresses /\ heap[a] # Free
  BY DEF Used
<1>2. heap[a].sequence \in Nat /\ heap[a].sequence # 0 /\ heap[a].sequence <= s_numCreated_
  BY <1>1 DEF QInv, TimerTypeOK, HeapOK, Timers
<1>3. s_numCreated_ \in 0 .. MaxTimers
  BY DEF QInv, TimerTypeOK
<1> QED BY <1>1, <1>2, <1>3, TimerAssumption DEF SequenceNos

\* Listed timers and active ids are the same timers.
LEMMA ActiveIsListed ==
    ASSUME QInv
    PROVE  /\ \A id \in TimerIds :
                 id \in activeTimers_ <=> id[1] \in Listed /\ id[2] = heap[id[1]].sequence
           /\ \A a \in Listed : a \in Addresses /\ <<heap[a].expiration, a>> \in timers_
           /\ Listed \subseteq Used /\ Batch \subseteq Used
<1>1. Listed \subseteq Used /\ Batch \subseteq Used
  BY DEF QInv, OwnersOK
<1>2. \A a \in Listed : a \in Addresses /\ <<heap[a].expiration, a>> \in timers_
  <2> TAKE a \in Listed
  <2>1. PICK e \in timers_ : e[2] = a
    BY DEF Listed
  <2>2. e = <<e[1], e[2]>> /\ e[1] = heap[a].expiration /\ a \in Addresses
    BY <2>1 DEF QInv, TimerTypeOK, ListsOK, Entries
  <2> QED BY <2>1, <2>2
<1>3. \A id \in TimerIds :
         id \in activeTimers_ <=> id[1] \in Listed /\ id[2] = heap[id[1]].sequence
  <2> TAKE id \in TimerIds
  <2>1. id = <<id[1], id[2]>>
    BY DEF TimerIds
  <2>2. id \in activeTimers_ <=> \E a \in Listed : id = <<a, heap[a].sequence>>
    BY DEF QInv, ListsOK
  <2> QED BY <2>1, <2>2
<1> QED BY <1>1, <1>2, <1>3

\* A timer's sequence number finds it.
LEMMA SameSequence ==
    ASSUME QInv, NEW a \in Used, NEW b \in Used, heap[a].sequence = heap[b].sequence
    PROVE  a = b
BY DEF QInv, HeapOK, Used

-----------------------------------------------------------------------------
(* The loop's queue                                                        *)

\* What is queued is behind the rest, and adds to the queued timers when it is
\* an addTimerInLoop.
LEMMA QueuedGrows ==
    ASSUME pendingFunctors_ \in Seq(Functors), NEW f \in Functors,
           pendingFunctors_' = Append(pendingFunctors_, f), DistinctAdds,
           f.name = "addTimerInLoop" => f.timer[1] \notin Queued
    PROVE  /\ pendingFunctors_' \in Seq(Functors)
           /\ Queued' = Queued \cup (IF f.name = "addTimerInLoop" THEN {f.timer[1]} ELSE {})
           /\ DistinctAdds'
<1>0. PICK n \in Nat : n = Len(pendingFunctors_) + 1
  OBVIOUS
<1>1. /\ pendingFunctors_' \in Seq(Functors) /\ n \in Nat
      /\ DOMAIN pendingFunctors_ = 1 .. n - 1 /\ DOMAIN pendingFunctors_' = 1 .. n
      /\ pendingFunctors_'[n] = f
      /\ \A i \in DOMAIN pendingFunctors_ : pendingFunctors_'[i] = pendingFunctors_[i]
  BY <1>0
<1>2. DOMAIN pendingFunctors_' = DOMAIN pendingFunctors_ \cup {n} /\ n \notin DOMAIN pendingFunctors_
  BY <1>1
<1>3. Adds' = Adds \cup (IF f.name = "addTimerInLoop" THEN {n} ELSE {})
  BY <1>1, <1>2 DEF Adds
<1>4. \A i \in Adds : AddOf(i)' = AddOf(i) /\ i # n
  BY <1>1, <1>2 DEF Adds, AddOf
<1>5. AddOf(n)' = f.timer[1]
  BY <1>1 DEF AddOf
<1>6. Queued' = {AddOf(i)' : i \in Adds'} /\ Queued = {AddOf(i) : i \in Adds}
  BY DEF Queued
<1>7. CASE f.name = "addTimerInLoop"
  <2>1. Queued' = Queued \cup {f.timer[1]}
    BY <1>3, <1>4, <1>5, <1>6, <1>7
  <2>2. \A i \in Adds : AddOf(i)' # AddOf(n)'
    BY <1>4, <1>5, <1>6, <1>7
  <2>3. DistinctAdds'
    BY <1>3, <1>4, <1>7, <2>2 DEF DistinctAdds
  <2> QED BY <1>1, <1>7, <2>1, <2>3
<1>8. CASE f.name # "addTimerInLoop"
  <2>1. Adds' = Adds
    BY <1>3, <1>8
  <2>2. Queued' = Queued /\ DistinctAdds'
    BY <1>4, <1>6, <2>1 DEF DistinctAdds
  <2> QED BY <1>1, <1>8, <2>2
<1> QED BY <1>7, <1>8

\* Taking the next functor takes its timer from the queued ones.
LEMMA QueuedShrinks ==
    ASSUME pendingFunctors_ \in Seq(Functors), pendingFunctors_ # <<>>,
           pendingFunctors_' = Tail(pendingFunctors_), DistinctAdds
    PROVE  /\ pendingFunctors_' \in Seq(Functors)
           /\ Head(pendingFunctors_) \in Functors
           /\ Head(pendingFunctors_).name = "addTimerInLoop" =>
                 /\ Head(pendingFunctors_).timer[1] \in Queued
                 /\ Queued' = Queued \ {Head(pendingFunctors_).timer[1]}
           /\ Head(pendingFunctors_).name # "addTimerInLoop" => Queued' = Queued
           /\ DistinctAdds'
<1> DEFINE f == Head(pendingFunctors_)
<1>1. /\ pendingFunctors_' \in Seq(Functors) /\ f \in Functors
      /\ f = pendingFunctors_[1] /\ 1 \in DOMAIN pendingFunctors_
      /\ DOMAIN pendingFunctors_ \subseteq Nat \ {0}
      /\ \A i \in DOMAIN pendingFunctors_' :
            i + 1 \in DOMAIN pendingFunctors_ /\ pendingFunctors_'[i] = pendingFunctors_[i + 1]
      /\ \A i \in DOMAIN pendingFunctors_ : i # 1 => i - 1 \in DOMAIN pendingFunctors_'
      /\ DOMAIN pendingFunctors_' \subseteq Nat \ {0}
  OBVIOUS
<1> HIDE DEF f
<1>2. \A i \in Adds' : i \in Nat /\ i + 1 \in Adds /\ i + 1 # 1 /\ AddOf(i)' = AddOf(i + 1)
  BY <1>1 DEF Adds, AddOf
<1>3. \A i \in Adds : i # 1 => i - 1 \in Adds' /\ AddOf(i - 1)' = AddOf(i)
  BY <1>1 DEF Adds, AddOf
<1>4. (1 \in Adds <=> f.name = "addTimerInLoop") /\ AddOf(1) = f.timer[1]
  BY <1>1 DEF Adds, AddOf
<1>5. DistinctAdds'
  <2> SUFFICES ASSUME NEW i \in Adds', NEW j \in Adds', AddOf(i)' = AddOf(j)'
               PROVE  i = j
    BY DEF DistinctAdds
  <2>1. i + 1 = j + 1
    BY <1>2 DEF DistinctAdds
  <2> QED BY <1>2, <2>1
<1>6. Queued = {AddOf(i) : i \in Adds} /\ Queued' = {AddOf(i)' : i \in Adds'}
  BY DEF Queued
<1>7. Queued' \subseteq Queued
  BY <1>2, <1>6
<1>8. ASSUME f.name = "addTimerInLoop"
      PROVE  f.timer[1] \in Queued /\ Queued' = Queued \ {f.timer[1]}
  <2>1. 1 \in Adds /\ f.timer[1] \in Queued
    BY <1>4, <1>6, <1>8
  <2>2. f.timer[1] \notin Queued'
    BY <1>2, <1>4, <1>6, <2>1 DEF DistinctAdds
  <2>3. \A a \in Queued : a # f.timer[1] => a \in Queued'
    BY <1>3, <1>4, <1>6
  <2> QED BY <1>7, <2>1, <2>2, <2>3
<1>9. ASSUME f.name # "addTimerInLoop"
      PROVE  Queued' = Queued
  BY <1>3, <1>4, <1>6, <1>7, <1>9
<1> QED BY <1>1, <1>5, <1>8, <1>9 DEF f

LEMMA QueueUnchanged ==
    ASSUME UNCHANGED pendingFunctors_
    PROVE  Queued' = Queued /\ (DistinctAdds => DistinctAdds')
BY DEF Queued, Adds, AddOf, DistinctAdds

-----------------------------------------------------------------------------
(* addTimerInLoop and cancelInLoop                                         *)

LEMMA AddKeeps ==
    ASSUME QInv, NEW a \in Addresses, NEW timer \in Timers, timer.sequence \in SequenceNos,
           AddTimerInLoop(a, timer), heap' = [heap EXCEPT ![a] = timer],
           a \notin Listed, a \notin Batch,
           \A b \in Listed \cup Batch : heap[b].sequence # timer.sequence,
           UNCHANGED <<clock, cancelingTimers_, calling, expired, toRun>>
    PROVE  /\ timers_' \subseteq Entries /\ activeTimers_' \subseteq TimerIds
           /\ timerfd_' \in Nat
           /\ fate' \in [SequenceNos -> {"unborn", "in", "cancelled", "done"}]
           /\ Listed' = Listed \cup {a} /\ Batch' = Batch
           /\ ListsOK' /\ FatesOK' /\ FdOK'
<1>1. /\ timers_ \subseteq Entries /\ clock \in Times /\ heap \in [Addresses -> Timers]
      /\ expired \subseteq Entries /\ timerfd_ \in Nat /\ activeTimers_ \subseteq TimerIds
      /\ fate \in [SequenceNos -> {"unborn", "in", "cancelled", "done"}]
  BY DEF QInv, TimerTypeOK
<1>2. timer.expiration \in Nat /\ timer.sequence \in Nat
  BY DEF Timers
<1>3. /\ timers_' = timers_ \cup {<<timer.expiration, a>>}
      /\ activeTimers_' = activeTimers_ \cup {<<a, timer.sequence>>}
      /\ fate' = [fate EXCEPT ![timer.sequence] = "in"]
      /\ timerfd_' = IF EarliestChanged(timer.expiration) THEN ArmedFor(timer.expiration)
                     ELSE timerfd_
  BY DEF AddTimerInLoop
<1>4. /\ timers_' \subseteq Entries /\ activeTimers_' \subseteq TimerIds
      /\ fate' \in [SequenceNos -> {"unborn", "in", "cancelled", "done"}]
      /\ timerfd_' \in Nat
  BY <1>1, <1>2, <1>3, ArmedInTime DEF Entries, TimerIds
<1>5. Listed' = Listed \cup {a} /\ Batch' = Batch
  <2>1. <<timer.expiration, a>>[2] = a
    OBVIOUS
  <2>2. Listed' = {e[2] : e \in timers_'} /\ Batch' = {e[2] : e \in expired'}
    BY DEF Listed, Batch
  <2> QED BY <1>3, <2>1, <2>2 DEF Listed, Batch
<1>6. /\ heap'[a] = timer
      /\ \A b \in Listed \cup Batch : b \in Addresses /\ b # a /\ heap'[b] = heap[b]
  BY <1>1, ActiveIsListed DEF Used
<1>7. \A e \in timers_ \cup expired : e[2] \in Listed \cup Batch
  BY DEF Listed, Batch
<1>8. ListsOK'
  <2>1. \A e \in timers_' : e[1] = heap'[e[2]].expiration
    BY <1>3, <1>6, <1>7 DEF QInv, ListsOK
  <2>2. activeTimers_' = {<<b, heap'[b].sequence>> : b \in Listed'}
    BY <1>3, <1>5, <1>6 DEF QInv, ListsOK
  <2> QED BY <2>1, <2>2 DEF ListsOK
<1>9. FatesOK'
  <2>1. \A b \in Listed \cup Batch : /\ heap[b].sequence \in SequenceNos
                                     /\ heap'[b].sequence = heap[b].sequence
                                     /\ fate'[heap[b].sequence] = fate[heap[b].sequence]
    BY <1>1, <1>3, <1>6, ActiveIsListed, OwnedHasSequence
  <2>2. fate'[timer.sequence] = "in"
    BY <1>1, <1>3
  <2>3. ASSUME NEW q \in SequenceNos, fate'[q] = "in"
        PROVE  \E b \in Listed' \cup Batch' : heap'[b].sequence = q
    <3>1. CASE q = timer.sequence
      BY <3>1, <1>5, <1>6
    <3>2. CASE q # timer.sequence
      <4>1. fate[q] = "in"
        BY <3>2, <2>3, <1>1, <1>3
      <4>2. \E b \in Listed \cup Batch : heap[b].sequence = q
        BY <4>1 DEF QInv, FatesOK
      <4> QED BY <4>2, <2>1, <1>5
    <3> QED BY <3>1, <3>2
  <2>4. \A b \in Listed' : fate'[heap'[b].sequence] # "cancelled"
    BY <1>5, <1>6, <2>1, <2>2 DEF QInv, FatesOK
  <2>5. \A b \in Batch' :
           /\ fate'[heap'[b].sequence] = "cancelled" => <<b, heap'[b].sequence>> \in cancelingTimers_'
           /\ <<b, heap'[b].sequence>> \in cancelingTimers_' => fate'[heap'[b].sequence] # "in"
    BY <1>5, <2>1 DEF QInv, FatesOK
  <2>6. \A e \in expired' : e \notin toRun' /\ heap'[e[2]].interval = 0 =>
           fate'[heap'[e[2]].sequence] # "in"
    <3>1. \A e \in expired : e[2] \in Batch
      BY DEF Batch
    <3> QED BY <3>1, <1>6, <2>1 DEF QInv, FatesOK
  <2> QED BY <2>3, <2>4, <2>5, <2>6 DEF FatesOK
<1>10. FdOK'
  <2> SUFFICES ASSUME ~calling, NEW e \in timers_'
               PROVE  timerfd_' # 0 /\ (timerfd_' <= e[1] \/ timerfd_' <= Saturate(clock + 1))
    BY DEF FdOK, Saturate
  <2>1. Saturate(clock + 1) \in Nat /\ e[1] \in Nat
    BY <1>1, <1>4, ArmedInTime DEF Times, Entries
  <2>2. timers_ # {} => /\ Earliest(timers_) \in Nat
                        /\ \E x \in timers_ : x[1] = Earliest(timers_)
                        /\ \A x \in timers_ : Earliest(timers_) <= x[1]
    BY <1>1, EarliestOfEntries
  <2>3. e \in timers_ \/ e[1] = timer.expiration
    BY <1>3
  <2>4. CASE EarliestChanged(timer.expiration)
    <3>1. timerfd_' = ArmedFor(timer.expiration)
      BY <1>3, <2>4
    <3>2. timer.expiration <= e[1]
      BY <1>2, <2>1, <2>2, <2>3, <2>4 DEF EarliestChanged
    <3> QED BY <1>1, <1>2, <2>1, <3>1, <3>2, ArmedInTime
  <2>5. CASE ~EarliestChanged(timer.expiration)
    <3>1. timerfd_' = timerfd_ /\ timers_ # {} /\ Earliest(timers_) <= timer.expiration
      BY <1>2, <1>3, <2>2, <2>5 DEF EarliestChanged
    <3>2. PICK x \in timers_ : x[1] = Earliest(timers_)
      BY <2>2, <3>1
    <3>3. /\ timerfd_ # 0 /\ (timerfd_ <= x[1] \/ timerfd_ <= Saturate(clock + 1))
          /\ e \in timers_ => timerfd_ <= e[1] \/ timerfd_ <= Saturate(clock + 1)
      BY DEF QInv, FdOK
    <3> QED BY <1>1, <1>2, <2>1, <2>2, <2>3, <3>1, <3>2, <3>3
  <2> QED BY <2>4, <2>5
<1> QED BY <1>4, <1>5, <1>8, <1>9, <1>10

\* The timer that cancelInLoop takes out of the list.
Taken(id) == IF Found(id) THEN {id[1]} ELSE {}

LEMMA CancelKeeps ==
    ASSUME QInv, NEW id \in TimerIds, CancelInLoop(id),
           UNCHANGED <<clock, s_numCreated_, timerfd_, calling, expired, toRun>>
    PROVE  /\ heap' \in [Addresses -> Timers]
           /\ timers_' \subseteq Entries /\ activeTimers_' \subseteq TimerIds
           /\ cancelingTimers_' \subseteq TimerIds
           /\ fate' \in [SequenceNos -> {"unborn", "in", "cancelled", "done"}]
           /\ Taken(id) \subseteq Listed
           /\ Used' = Used \ Taken(id) /\ Listed' = Listed \ Taken(id) /\ Batch' = Batch
           /\ HeapOK' /\ ListsOK' /\ FatesOK' /\ FdOK'
<1>1. /\ timers_ \subseteq Entries /\ clock \in Times /\ heap \in [Addresses -> Timers]
      /\ expired \subseteq Entries /\ timerfd_ \in Nat /\ activeTimers_ \subseteq TimerIds
      /\ cancelingTimers_ \subseteq TimerIds /\ (~calling => expired = {})
      /\ fate \in [SequenceNos -> {"unborn", "in", "cancelled", "done"}]
  BY DEF QInv, TimerTypeOK
<1>2. PICK a \in Addresses, q \in Nat : id = <<a, q>> /\ id[1] = a /\ id[2] = q
  BY DEF TimerIds
<1>3. fate' = [s \in SequenceNos |->
          IF id = <<a, s>> /\ heap[a].sequence = s /\ fate[s] = "in" THEN "cancelled" ELSE fate[s]]
  BY <1>2 DEF CancelInLoop
<1>4. fate' \in [SequenceNos -> {"unborn", "in", "cancelled", "done"}]
  BY <1>1, <1>3
<1>5. \A s \in SequenceNos : fate'[s] # fate[s] =>
          s = q /\ heap[a].sequence = q /\ fate[s] = "in" /\ fate'[s] = "cancelled"
  BY <1>1, <1>2, <1>3
<1>6. /\ \A b \in Listed : b \in Addresses /\ <<heap[b].expiration, b>> \in timers_
      /\ Listed \subseteq Used /\ Batch \subseteq Used /\ Listed \cap Batch = {}
  BY ActiveIsListed DEF QInv, OwnersOK
<1>7. Batch' = Batch
  BY DEF Batch
<1>8. \A b \in Used : b \in Addresses /\ heap[b].sequence \in SequenceNos
  BY OwnedHasSequence
<1>9. CASE Found(id)
  <2>1. /\ timers_' = timers_ \ {<<heap[a].expiration, a>>}
        /\ activeTimers_' = {t \in activeTimers_ : t[1] # a}
        /\ heap' = [heap EXCEPT ![a] = Free]
        /\ UNCHANGED cancelingTimers_
    BY <1>2, <1>9 DEF CancelInLoop
  <2>2. a \in Listed /\ q = heap[a].sequence
    BY <1>2, <1>9, ActiveIsListed DEF Found
  <2>3. Taken(id) = {a} /\ Taken(id) \subseteq Listed
    BY <1>2, <1>9, <2>2 DEF Taken
  <2>4. \A e \in timers_ : e[2] = a <=> e = <<heap[a].expiration, a>>
    BY <1>1 DEF QInv, ListsOK, Entries
  <2>5. Listed' = Listed \ {a}
    <3>1. Listed' = {e[2] : e \in timers_'}
      BY DEF Listed
    <3> QED BY <2>1, <2>4, <3>1 DEF Listed
  <2>6. Free \in Timers /\ heap' \in [Addresses -> Timers]
    BY <1>1, <2>1 DEF Free, Timers
  <2>7. /\ heap'[a] = Free
        /\ \A b \in Addresses : b # a => heap'[b] = heap[b]
    BY <1>1, <2>1
  <2>8. Used' = Used \ {a}
    BY <2>7 DEF Used
  <2>9. HeapOK'
    <3>1. Free.sequence = 0 /\ s_numCreated_ \in Nat
      BY DEF Free, QInv, TimerTypeOK
    <3>2. \A b \in Addresses : heap'[b].sequence <= s_numCreated_'
      BY <2>7, <3>1 DEF QInv, HeapOK
    <3>3. \A b \in Addresses : heap'[b].sequence = 0 <=> heap'[b] = Free
      BY <2>7, <3>1 DEF QInv, HeapOK
    <3>4. \A b, c \in Addresses : heap'[b].sequence = heap'[c].sequence /\ heap'[b] # Free => b = c
      BY <2>7, <3>1, <3>3 DEF QInv, HeapOK
    <3> QED BY <3>2, <3>3, <3>4 DEF HeapOK
  <2>10. ListsOK'
    <3>1. \A e \in timers_' : e[2] # a /\ e[2] \in Addresses /\ e[1] = heap'[e[2]].expiration
      BY <1>1, <2>1, <2>4, <2>7 DEF QInv, ListsOK, Entries
    <3>2. activeTimers_' = {<<b, heap[b].sequence>> : b \in Listed'}
      BY <2>1, <2>5 DEF QInv, ListsOK
    <3>3. \A b \in Listed' : heap'[b] = heap[b]
      BY <1>6, <2>5, <2>7
    <3>4. activeTimers_' = {<<b, heap'[b].sequence>> : b \in Listed'}
      BY <3>2, <3>3
    <3> QED BY <3>1, <3>4 DEF ListsOK
  <2>11. \A b \in Listed' \cup Batch' : /\ b # a /\ heap'[b] = heap[b] /\ heap[b].sequence # q
                                       /\ fate'[heap[b].sequence] = fate[heap[b].sequence]
    <3> TAKE b \in Listed' \cup Batch'
    <3>1. b # a /\ b \in Used /\ a \in Used
      BY <1>6, <1>7, <2>2, <2>5
    <3>2. heap[b].sequence # q
      BY <2>2, <3>1, SameSequence
    <3> QED BY <1>5, <1>8, <2>7, <3>1, <3>2
  <2>12. FatesOK'
    <3>1. ASSUME NEW s \in SequenceNos, fate'[s] = "in"
          PROVE  \E b \in Listed' \cup Batch' : heap'[b].sequence = s
      <4>1. fate[s] = "in" /\ s # q
        BY <1>2, <1>3, <1>5, <2>2, <3>1
      <4>2. PICK b \in Listed \cup Batch : heap[b].sequence = s
        BY <4>1 DEF QInv, FatesOK
      <4>3. b # a
        BY <2>2, <4>1, <4>2
      <4> QED BY <1>7, <2>5, <2>11, <4>2, <4>3
    <3>2. \A b \in Listed' : fate'[heap'[b].sequence] # "cancelled"
      BY <2>5, <2>11 DEF QInv, FatesOK
    <3>3. \A b \in Batch' :
             /\ fate'[heap'[b].sequence] = "cancelled" => <<b, heap'[b].sequence>> \in cancelingTimers_'
             /\ <<b, heap'[b].sequence>> \in cancelingTimers_' => fate'[heap'[b].sequence] # "in"
      BY <1>7, <2>1, <2>11 DEF QInv, FatesOK
    <3>4. \A e \in expired' : e \notin toRun' /\ heap'[e[2]].interval = 0 =>
             fate'[heap'[e[2]].sequence] # "in"
      <4>1. \A e \in expired : e[2] \in Batch'
        BY <1>7 DEF Batch
      <4> QED BY <2>11, <4>1 DEF QInv, FatesOK
    <3> QED BY <3>1, <3>2, <3>3, <3>4 DEF FatesOK
  <2>13. FdOK'
    BY <2>1 DEF QInv, FdOK, Saturate
  <2>14. timers_' \subseteq Entries /\ activeTimers_' \subseteq TimerIds
         /\ cancelingTimers_' \subseteq TimerIds
    BY <1>1, <2>1
  <2> QED BY <1>4, <1>7, <2>3, <2>5, <2>6, <2>8, <2>9, <2>10, <2>12, <2>13, <2>14
<1>10. CASE ~Found(id)
  <2>1. /\ cancelingTimers_' = cancelingTimers_ \cup (IF calling THEN {id} ELSE {})
        /\ UNCHANGED <<timers_, activeTimers_, heap>>
    BY <1>10 DEF CancelInLoop
  <2>2. Taken(id) = {} /\ Listed' = Listed /\ Used' = Used
    BY <1>10, <2>1 DEF Taken, Listed, Used
  <2>3. ~(a \in Listed /\ q = heap[a].sequence)
    BY <1>2, <1>10, ActiveIsListed DEF Found
  <2>4. \A b \in Listed : fate'[heap[b].sequence] = fate[heap[b].sequence]
    <3> TAKE b \in Listed
    <3>1. b \in Used /\ heap[b].sequence \in SequenceNos
      BY <1>6, <1>8
    <3>2. ASSUME heap[b].sequence = q, heap[a].sequence = q PROVE FALSE
      <4>1. a \in Used
        BY <1>2, <1>8, <3>1, <3>2 DEF Used, QInv, HeapOK
      <4> QED BY <2>3, <3>1, <3>2, <4>1, SameSequence
    <3> QED BY <1>5, <3>1, <3>2
  <2>5. FatesOK'
    <3>1. ASSUME NEW s \in SequenceNos, fate'[s] = "in"
          PROVE  \E b \in Listed' \cup Batch' : heap'[b].sequence = s
      BY <1>5, <1>7, <2>1, <2>2, <3>1 DEF QInv, FatesOK
    <3>2. \A b \in Listed' : fate'[heap'[b].sequence] # "cancelled"
      BY <2>1, <2>2, <2>4 DEF QInv, FatesOK
    <3>3. ASSUME NEW b \in Batch'
          PROVE
             /\ fate'[heap'[b].sequence] = "cancelled" => <<b, heap'[b].sequence>> \in cancelingTimers_'
             /\ <<b, heap'[b].sequence>> \in cancelingTimers_' => fate'[heap'[b].sequence] # "in"
      <4> DEFINE s == heap[b].sequence
      <4>1. b \in Batch /\ s \in SequenceNos /\ b \in Used /\ b \in Addresses /\ heap' = heap
        BY <1>6, <1>7, <1>8, <2>1, <3>3
      <4>2. calling
        BY <1>1, <4>1 DEF Batch
      <4>3. cancelingTimers_' = cancelingTimers_ \cup {<<a, q>>}
        BY <1>2, <2>1, <4>2
      <4>4. /\ fate[s] = "cancelled" => <<b, s>> \in cancelingTimers_
            /\ <<b, s>> \in cancelingTimers_ => fate[s] # "in"
        BY <4>1 DEF QInv, FatesOK
      <4>5. CASE <<a, q>> = <<b, s>>
        BY <1>2, <1>3, <4>1, <4>3, <4>4, <4>5
      <4>6. CASE <<a, q>> # <<b, s>>
        <5>1. ASSUME fate'[s] # fate[s] PROVE FALSE
          <6>1. s = q /\ heap[a].sequence = s
            BY <1>5, <4>1, <5>1
          <6>2. a \in Used
            BY <1>2, <4>1, <6>1 DEF Used, QInv, HeapOK
          <6> QED BY <4>1, <4>6, <6>1, <6>2, SameSequence
        <5> QED BY <4>1, <4>3, <4>4, <4>6, <5>1
      <4> QED BY <4>5, <4>6
    <3>4. \A e \in expired' : e \notin toRun' /\ heap'[e[2]].interval = 0 =>
             fate'[heap'[e[2]].sequence] # "in"
      <4>1. \A e \in expired : e[2] \in Batch
        BY DEF Batch
      <4> QED BY <1>5, <1>6, <1>8, <2>1, <4>1 DEF QInv, FatesOK
    <3> QED BY <3>1, <3>2, <3>3, <3>4 DEF FatesOK
  <2>6. HeapOK' /\ ListsOK' /\ FdOK'
    BY <2>1, <2>2 DEF QInv, HeapOK, ListsOK, FdOK, Saturate
  <2>7. cancelingTimers_' \subseteq TimerIds
    BY <1>1, <2>1
  <2> QED BY <1>1, <1>4, <1>7, <2>1, <2>2, <2>5, <2>6, <2>7
<1> QED BY <1>9, <1>10

\* new Timer: a free address and a sequence number that no timer has had.
LEMMA NewKeepsHeap ==
    ASSUME QInv, NEW a \in Addresses, NEW when \in Times, NEW interval \in Intervals,
           CanCreate(a), s_numCreated_' = s_numCreated_ + 1,
           heap' = [heap EXCEPT ![a] = NewTimer(when, interval)]
    PROVE  /\ NewTimer(when, interval) \in Timers
           /\ NewTimer(when, interval).sequence = s_numCreated_ + 1
           /\ s_numCreated_ + 1 \in SequenceNos /\ s_numCreated_' \in 0 .. MaxTimers
           /\ \A b \in Used : heap[b].sequence # s_numCreated_ + 1 /\ heap'[b] = heap[b]
           /\ heap' \in [Addresses -> Timers] /\ a \notin Used /\ Used' = Used \cup {a}
           /\ HeapOK'
<1>1. /\ s_numCreated_ \in 0 .. MaxTimers /\ heap \in [Addresses -> Timers]
      /\ s_numCreated_ < MaxTimers /\ heap[a] = Free
  BY DEF QInv, TimerTypeOK, CanCreate
<1>2. /\ NewTimer(when, interval) \in Timers
      /\ NewTimer(when, interval).sequence = s_numCreated_ + 1
      /\ s_numCreated_ + 1 \in SequenceNos /\ s_numCreated_' \in 0 .. MaxTimers
  BY <1>1, TimerAssumption DEF NewTimer, Timers, Times, SequenceNos
<1>3. PICK timer \in Timers : timer = NewTimer(when, interval)
  BY <1>2
<1>4. /\ heap' \in [Addresses -> Timers] /\ heap'[a] = timer
      /\ \A b \in Addresses : b # a => heap'[b] = heap[b]
      /\ timer.sequence = s_numCreated_ + 1
  BY <1>1, <1>2, <1>3
<1>5. Free.sequence = 0
  BY DEF Free
<1>6. \A b \in Addresses : heap[b].sequence <= s_numCreated_ /\ heap[b].sequence \in Nat
                           /\ s_numCreated_ \in Nat
  BY <1>1 DEF QInv, HeapOK, Timers
<1>7. a \notin Used /\ \A b \in Used : heap[b].sequence # s_numCreated_ + 1 /\ heap'[b] = heap[b]
  BY <1>1, <1>4, <1>6 DEF Used
<1>8. timer # Free
  BY <1>4, <1>5, <1>6
<1>9. Used' = Used \cup {a}
  BY <1>4, <1>8 DEF Used
<1>10. HeapOK'
  <2>1. \A b \in Addresses : heap'[b].sequence <= s_numCreated_'
    BY <1>4, <1>6
  <2>2. \A b \in Addresses : heap'[b].sequence = 0 <=> heap'[b] = Free
    BY <1>4, <1>6, <1>8 DEF QInv, HeapOK
  <2>3. \A b, c \in Addresses : heap'[b].sequence = heap'[c].sequence /\ heap'[b] # Free => b = c
    BY <1>4, <1>6 DEF QInv, HeapOK
  <2> QED BY <2>1, <2>2, <2>3 DEF HeapOK
<1> QED BY <1>2, <1>4, <1>7, <1>9, <1>10

-----------------------------------------------------------------------------
(* Every step keeps the invariant                                          *)

LEMMA TickInv ==
    ASSUME QInv, Tick
    PROVE  QInv'
<1>1. /\ clock' = clock + 1 /\ clock < Horizon /\ clock \in Times
      /\ UNCHANGED <<s_numCreated_, heap, timers_, activeTimers_, cancelingTimers_, timerfd_,
                     calling, expired, toRun, handledAt, pendingFunctors_, adder, ids, fate>>
  BY DEF QInv, TimerTypeOK, Tick
<1>2. TimerTypeOK'
  <2>1. clock' \in Times
    BY <1>1, TimerAssumption DEF Times
  <2> QED BY <1>1, <2>1 DEF QInv, TimerTypeOK
<1>3. Used' = Used /\ Listed' = Listed /\ Batch' = Batch /\ Created' = Created
  BY <1>1 DEF Used, Listed, Batch, Created
<1>4. Queued' = Queued /\ (DistinctAdds => DistinctAdds')
  BY <1>1, QueueUnchanged
<1>5. HeapOK' /\ ListsOK'
  BY <1>1, <1>3 DEF QInv, HeapOK, ListsOK
<1>6. OwnersOK' /\ FatesOK'
  BY <1>1, <1>3, <1>4 DEF QInv, OwnersOK, FatesOK
<1>7. FdOK'
  <2>1. /\ Saturate(clock + 1) \in Nat /\ Saturate(clock' + 1) \in Nat
        /\ Saturate(clock + 1) <= Saturate(clock' + 1)
    BY <1>1, TimerAssumption DEF Saturate, Times
  <2>2. timerfd_ \in Nat
    BY DEF QInv, TimerTypeOK
  <2>3. \A e \in timers_ : timerfd_ <= Saturate(clock + 1) => timerfd_ <= Saturate(clock' + 1)
    BY <2>1, <2>2
  <2>4. FdOK' <=> (~calling => \A e \in timers_ :
                      timerfd_ # 0 /\ (timerfd_ <= e[1] \/ timerfd_ <= Saturate(clock' + 1)))
    BY <1>1 DEF FdOK, Saturate
  <2> QED BY <2>3, <2>4 DEF QInv, FdOK
<1> QED BY <1>2, <1>5, <1>6, <1>7 DEF QInv

LEMMA AddTimerInv ==
    ASSUME QInv, NEW a \in Addresses, NEW when \in Times, NEW interval \in Intervals,
           AddTimer(a, when, interval)
    PROVE  QInv'
<1>1. PICK timer : timer = NewTimer(when, interval)
  OBVIOUS
<1>2. /\ CanCreate(a) /\ s_numCreated_' = s_numCreated_ + 1
      /\ heap' = [heap EXCEPT ![a] = timer] /\ AddTimerInLoop(a, timer)
      /\ ids' = ids \cup {<<a, s_numCreated_ + 1>>}
      /\ UNCHANGED <<clock, cancelingTimers_, calling, expired, toRun, handledAt, pendingFunctors_,
                     adder>>
  BY <1>1 DEF AddTimer
<1>3. /\ timer \in Timers /\ timer.sequence = s_numCreated_ + 1
      /\ s_numCreated_ + 1 \in SequenceNos /\ s_numCreated_' \in 0 .. MaxTimers
      /\ \A b \in Used : heap[b].sequence # s_numCreated_ + 1
      /\ heap' \in [Addresses -> Timers] /\ a \notin Used /\ Used' = Used \cup {a}
      /\ HeapOK'
  BY <1>1, <1>2, NewKeepsHeap
<1>4. Listed \subseteq Used /\ Batch \subseteq Used
  BY ActiveIsListed
<1>5. /\ timers_' \subseteq Entries /\ activeTimers_' \subseteq TimerIds
      /\ timerfd_' \in Nat
      /\ fate' \in [SequenceNos -> {"unborn", "in", "cancelled", "done"}]
      /\ Listed' = Listed \cup {a} /\ Batch' = Batch
      /\ ListsOK' /\ FatesOK' /\ FdOK'
  BY <1>2, <1>3, <1>4, AddKeeps
<1>6. Queued' = Queued /\ (DistinctAdds => DistinctAdds') /\ Created' = Created
  BY <1>2, QueueUnchanged DEF Created
<1>7. OwnersOK'
  BY <1>3, <1>5, <1>6 DEF QInv, OwnersOK
<1>8. ids' \subseteq TimerIds
  BY <1>2, <1>3 DEF QInv, TimerTypeOK, TimerIds, SequenceNos
<1>9. TimerTypeOK'
  BY <1>2, <1>3, <1>5, <1>8 DEF QInv, TimerTypeOK
<1> QED BY <1>3, <1>5, <1>7, <1>9 DEF QInv

LEMMA CancelInv ==
    ASSUME QInv, NEW id \in ids, Cancel(id)
    PROVE  QInv'
<1>1. /\ id \in TimerIds /\ CancelInLoop(id) /\ ids' = ids \ {id}
      /\ UNCHANGED <<clock, s_numCreated_, timerfd_, calling, expired, toRun, handledAt,
                     pendingFunctors_, adder>>
  BY DEF QInv, TimerTypeOK, Cancel
<1>2. /\ heap' \in [Addresses -> Timers]
      /\ timers_' \subseteq Entries /\ activeTimers_' \subseteq TimerIds
      /\ cancelingTimers_' \subseteq TimerIds
      /\ fate' \in [SequenceNos -> {"unborn", "in", "cancelled", "done"}]
      /\ Taken(id) \subseteq Listed
      /\ Used' = Used \ Taken(id) /\ Listed' = Listed \ Taken(id) /\ Batch' = Batch
      /\ HeapOK' /\ ListsOK' /\ FatesOK' /\ FdOK'
  BY <1>1, CancelKeeps
<1>3. Queued' = Queued /\ (DistinctAdds => DistinctAdds') /\ Created' = Created
  BY <1>1, QueueUnchanged DEF Created
<1>4. OwnersOK'
  BY <1>2, <1>3 DEF QInv, OwnersOK
<1>5. TimerTypeOK'
  BY <1>1, <1>2 DEF QInv, TimerTypeOK
<1> QED BY <1>2, <1>4, <1>5 DEF QInv

LEMMA RunFunctorInv ==
    ASSUME QInv, RunFunctor
    PROVE  QInv'
<1>1. PICK f : f = Head(pendingFunctors_)
  OBVIOUS
<1>2. /\ pendingFunctors_ \in Seq(Functors) /\ pendingFunctors_ # <<>> /\ DistinctAdds
      /\ pendingFunctors_' = Tail(pendingFunctors_) /\ ~calling
      /\ UNCHANGED <<clock, s_numCreated_, calling, expired, toRun, handledAt, adder, ids>>
  BY DEF QInv, TimerTypeOK, OwnersOK, RunFunctor
<1>3. /\ pendingFunctors_' \in Seq(Functors) /\ f \in Functors
      /\ f.name = "addTimerInLoop" => f.timer[1] \in Queued /\ Queued' = Queued \ {f.timer[1]}
      /\ f.name # "addTimerInLoop" => Queued' = Queued
      /\ DistinctAdds'
  BY <1>1, <1>2, QueuedShrinks
<1>4. Created' = Created
  BY <1>2 DEF Created
<1>5. CASE f.name = "addTimerInLoop"
  <2>1. PICK a : a = f.timer[1]
    OBVIOUS
  <2>2. a \in Queued /\ Queued' = Queued \ {a}
    BY <1>3, <1>5, <2>1
  <2>3. /\ a \in Used /\ a \notin Listed /\ a \notin Batch
        /\ Listed \subseteq Used /\ Batch \subseteq Used
    BY <2>2 DEF QInv, OwnersOK
  <2>4. a \in Addresses /\ heap[a].sequence \in SequenceNos
    BY <2>3, OwnedHasSequence
  <2>5. AddTimerInLoop(a, heap[a]) /\ UNCHANGED <<heap, cancelingTimers_>>
    BY <1>1, <1>5, <2>1 DEF RunFunctor
  <2>6. PICK timer : timer = heap[a]
    OBVIOUS
  <2>7. heap \in [Addresses -> Timers] /\ timer \in Timers /\ heap' = [heap EXCEPT ![a] = timer]
    BY <2>4, <2>5, <2>6 DEF QInv, TimerTypeOK
  <2>8. \A b \in Listed \cup Batch : heap[b].sequence # timer.sequence
    BY <2>3, <2>6, SameSequence
  <2>9. /\ timers_' \subseteq Entries /\ activeTimers_' \subseteq TimerIds
        /\ timerfd_' \in Nat
        /\ fate' \in [SequenceNos -> {"unborn", "in", "cancelled", "done"}]
        /\ Listed' = Listed \cup {a} /\ Batch' = Batch
        /\ ListsOK' /\ FatesOK' /\ FdOK'
    BY <1>2, <2>3, <2>4, <2>5, <2>6, <2>7, <2>8, AddKeeps
  <2>10. Used' = Used /\ HeapOK'
    BY <1>2, <2>5 DEF Used, QInv, HeapOK
  <2>11. OwnersOK'
    BY <1>3, <1>4, <2>2, <2>9, <2>10 DEF QInv, OwnersOK
  <2>12. TimerTypeOK'
    BY <1>2, <1>3, <2>5, <2>9 DEF QInv, TimerTypeOK
  <2> QED BY <2>9, <2>10, <2>11, <2>12 DEF QInv
<1>6. CASE f.name # "addTimerInLoop"
  <2>1. PICK id : id = f.timer
    OBVIOUS
  <2>2. id \in TimerIds /\ CancelInLoop(id) /\ UNCHANGED timerfd_
    BY <1>1, <1>3, <1>6, <2>1 DEF RunFunctor, Functors
  <2>3. /\ heap' \in [Addresses -> Timers]
        /\ timers_' \subseteq Entries /\ activeTimers_' \subseteq TimerIds
        /\ cancelingTimers_' \subseteq TimerIds
        /\ fate' \in [SequenceNos -> {"unborn", "in", "cancelled", "done"}]
        /\ Taken(id) \subseteq Listed
        /\ Used' = Used \ Taken(id) /\ Listed' = Listed \ Taken(id) /\ Batch' = Batch
        /\ HeapOK' /\ ListsOK' /\ FatesOK' /\ FdOK'
    BY <1>2, <2>2, CancelKeeps
  <2>4. OwnersOK'
    BY <1>3, <1>4, <1>6, <2>3 DEF QInv, OwnersOK
  <2>5. TimerTypeOK'
    BY <1>2, <1>3, <2>2, <2>3 DEF QInv, TimerTypeOK
  <2> QED BY <2>3, <2>4, <2>5 DEF QInv
<1> QED BY <1>5, <1>6

LEMMA HandleReadInv ==
    ASSUME QInv, HandleRead
    PROVE  QInv'
<1>1. /\ ~calling /\ calling' = TRUE /\ handledAt' = clock /\ timerfd_' = 0
      /\ expired' = {e \in timers_ : e[1] <= clock}
      /\ toRun' = expired' /\ timers_' = timers_ \ expired'
      /\ activeTimers_' = {t \in activeTimers_ : \A e \in expired' : e[2] # t[1]}
      /\ cancelingTimers_' = {}
      /\ UNCHANGED <<clock, s_numCreated_, heap, pendingFunctors_, adder, ids, fate>>
  BY DEF HandleRead
<1>2. /\ timers_ \subseteq Entries /\ activeTimers_ \subseteq TimerIds /\ clock \in Times
      /\ expired = {}
  BY <1>1 DEF QInv, TimerTypeOK
<1>3. TimerTypeOK'
  BY <1>1, <1>2 DEF QInv, TimerTypeOK, Times
<1>4. Batch = {}
  BY <1>2 DEF Batch
<1>5. \A e, x \in timers_ : e[2] = x[2] => e = x
  BY <1>2 DEF QInv, ListsOK, Entries
<1>6. Listed' = {e[2] : e \in timers_'} /\ Batch' = {e[2] : e \in expired'}
  BY DEF Listed, Batch
<1>7. Listed = Listed' \cup Batch' /\ Listed' \cap Batch' = {}
  BY <1>1, <1>5, <1>6 DEF Listed
<1>8. Used' = Used /\ Queued' = Queued /\ Created' = Created /\ (DistinctAdds => DistinctAdds')
  BY <1>1, QueueUnchanged DEF Used, Created
<1>9. OwnersOK'
  BY <1>4, <1>7, <1>8 DEF QInv, OwnersOK
<1>10. HeapOK'
  BY <1>1 DEF QInv, HeapOK
<1>11. ListsOK'
  <2>1. \A e \in timers_' : e[1] = heap[e[2]].expiration
    BY <1>1 DEF QInv, ListsOK
  <2>2. activeTimers_ = {<<b, heap[b].sequence>> : b \in Listed}
    BY DEF QInv, ListsOK
  <2>3. activeTimers_' = {t \in activeTimers_ : t[1] \notin Batch'}
    BY <1>1, <1>6
  <2>4. activeTimers_' = {<<b, heap[b].sequence>> : b \in Listed'}
    BY <1>7, <2>2, <2>3
  <2> QED BY <1>1, <2>1, <2>4 DEF ListsOK
<1>12. FatesOK'
  <2>1. \A s \in SequenceNos : fate'[s] = "in" => \E a \in Listed' \cup Batch' : heap'[a].sequence = s
    BY <1>1, <1>4, <1>7 DEF QInv, FatesOK
  <2>2. \A a \in Listed' \cup Batch' : fate'[heap'[a].sequence] # "cancelled"
    BY <1>1, <1>7 DEF QInv, FatesOK
  <2> QED BY <1>1, <2>1, <2>2 DEF FatesOK
<1>13. FdOK'
  BY <1>1 DEF FdOK
<1> QED BY <1>3, <1>9, <1>10, <1>11, <1>12, <1>13 DEF QInv

LEMMA RunTimerInv ==
    ASSUME QInv, RunTimer
    PROVE  QInv'
<1>1. PICK e \in toRun :
         /\ toRun' = toRun \ {e}
         /\ fate' = [fate EXCEPT ![heap[e[2]].sequence] =
                 IF heap[e[2]].interval = 0 THEN "done" ELSE @]
  BY DEF RunTimer
<1>2. UNCHANGED <<clock, s_numCreated_, heap, timers_, activeTimers_, cancelingTimers_, timerfd_,
                  calling, expired, handledAt, pendingFunctors_, adder, ids>>
  BY DEF RunTimer
<1>3. /\ fate \in [SequenceNos -> {"unborn", "in", "cancelled", "done"}]
      /\ toRun \subseteq expired
  BY DEF QInv, TimerTypeOK
<1>4. PICK a : a = e[2]
  OBVIOUS
<1>5. /\ a \in Batch /\ a \in Used /\ heap[a].sequence \in SequenceNos
      /\ Listed \subseteq Used /\ Batch \subseteq Used /\ a \notin Listed
  BY <1>1, <1>3, <1>4, ActiveIsListed, OwnedHasSequence DEF Batch, QInv, OwnersOK
<1>6. TimerTypeOK'
  <2>1. fate' \in [SequenceNos -> {"unborn", "in", "cancelled", "done"}]
    BY <1>1, <1>3, <1>4, <1>5
  <2>2. toRun' \subseteq expired'
    BY <1>1, <1>2, <1>3
  <2> QED BY <1>2, <2>1, <2>2 DEF QInv, TimerTypeOK
<1>7. Used' = Used /\ Listed' = Listed /\ Batch' = Batch /\ Created' = Created
      /\ Queued' = Queued /\ (DistinctAdds => DistinctAdds')
  BY <1>2, QueueUnchanged DEF Used, Listed, Batch, Created
<1>8. HeapOK' /\ ListsOK' /\ OwnersOK' /\ FdOK'
  BY <1>2, <1>7 DEF QInv, HeapOK, ListsOK, OwnersOK, FdOK, Saturate
<1>9. /\ heap[a].interval = 0 => fate'[heap[a].sequence] = "done"
      /\ heap[a].interval # 0 => fate' = fate
      /\ \A b \in Used : b # a => fate'[heap[b].sequence] = fate[heap[b].sequence]
      /\ \A s \in SequenceNos : fate'[s] = "in" => fate[s] = "in"
      /\ \A s \in SequenceNos : fate'[s] = "cancelled" => fate[s] = "cancelled"
  <2>1. fate' = [fate EXCEPT ![heap[a].sequence] = IF heap[a].interval = 0 THEN "done" ELSE @]
    BY <1>1, <1>4
  <2>2. \A b \in Used : b # a => heap[b].sequence # heap[a].sequence
    BY <1>5, SameSequence
  <2>3. \A b \in Used : heap[b].sequence \in SequenceNos
    BY OwnedHasSequence
  <2> QED BY <1>3, <1>5, <2>1, <2>2, <2>3
<1>10. FatesOK'
  <2>1. \A b \in Listed \cup Batch : b \in Used /\ heap[b].sequence \in SequenceNos
    BY <1>5, OwnedHasSequence
  <2>2. \A s \in SequenceNos : fate'[s] = "in" => \E b \in Listed' \cup Batch' : heap'[b].sequence = s
    BY <1>2, <1>7, <1>9 DEF QInv, FatesOK
  <2>3. \A b \in Listed' : fate'[heap'[b].sequence] # "cancelled"
    BY <1>2, <1>7, <1>9, <2>1 DEF QInv, FatesOK
  <2>4. \A b \in Batch' :
           /\ fate'[heap'[b].sequence] = "cancelled" => <<b, heap'[b].sequence>> \in cancelingTimers_'
           /\ <<b, heap'[b].sequence>> \in cancelingTimers_' => fate'[heap'[b].sequence] # "in"
    BY <1>2, <1>7, <1>9, <2>1 DEF QInv, FatesOK
  <2>5. \A x \in expired' : x \notin toRun' /\ heap'[x[2]].interval = 0 =>
           fate'[heap'[x[2]].sequence] # "in"
    <3>1. \A x \in expired : x[2] \in Batch
      BY DEF Batch
    <3> QED BY <1>1, <1>2, <1>4, <1>9, <2>1, <3>1 DEF QInv, FatesOK
  <2> QED BY <2>2, <2>3, <2>4, <2>5 DEF FatesOK
<1> QED BY <1>6, <1>8, <1>10 DEF QInv

LEMMA ResetInv ==
    ASSUME QInv, Reset
    PROVE  QInv'
<1> DEFINE next(a) == Saturate(handledAt + heap[a].interval)
<1>1. /\ calling /\ toRun = {} /\ calling' = FALSE /\ expired' = {} /\ handledAt' = 0
      /\ heap' = [a \in Addresses |->
              IF a \in Restarts THEN [heap[a] EXCEPT !.expiration = next(a)]
              ELSE IF a \in Batch THEN Free ELSE heap[a]]
      /\ timers_' = timers_ \cup {<<next(a), a>> : a \in Restarts}
      /\ activeTimers_' = activeTimers_ \cup {<<a, heap[a].sequence>> : a \in Restarts}
      /\ timerfd_' = IF timers_' = {} THEN timerfd_ ELSE ArmedFor(Earliest(timers_'))
      /\ UNCHANGED <<clock, s_numCreated_, cancelingTimers_, toRun, pendingFunctors_, adder, ids,
                     fate>>
  BY DEF Reset, Rearm, Batch
<1>2. /\ timers_ \subseteq Entries /\ activeTimers_ \subseteq TimerIds /\ clock \in Times
      /\ heap \in [Addresses -> Timers] /\ handledAt \in Nat /\ timerfd_ \in Nat
  BY DEF QInv, TimerTypeOK
<1>3. /\ Restarts \subseteq Batch /\ Batch \subseteq Used /\ Used \subseteq Addresses
      /\ Listed \subseteq Used /\ Listed \cap Batch = {}
      /\ \A a \in Batch : a \in Restarts <=>
             heap[a].interval > 0 /\ <<a, heap[a].sequence>> \notin cancelingTimers_
  BY ActiveIsListed DEF Restarts, Batch, Used, QInv, OwnersOK
<1>4. \A a \in Addresses : next(a) \in Nat
  BY <1>2, TimerAssumption DEF Saturate, Timers
<1> HIDE DEF next
<1>5. /\ \A a \in Restarts : /\ heap'[a].expiration = next(a) /\ heap'[a].sequence = heap[a].sequence
                            /\ heap'[a].interval = heap[a].interval /\ heap'[a] \in Timers
      /\ \A a \in Batch : a \notin Restarts => heap'[a] = Free
      /\ \A a \in Addresses : a \notin Batch => heap'[a] = heap[a]
  BY <1>1, <1>2, <1>3, <1>4 DEF Timers
<1>6. Free.sequence = 0 /\ Free \in Timers
  BY DEF Free, Timers
<1>7. heap' \in [Addresses -> Timers]
  <2>1. \A a \in Addresses : heap'[a] \in Timers
    BY <1>2, <1>5, <1>6
  <2> QED BY <1>1, <2>1
<1>8. timers_' \subseteq Entries
  BY <1>1, <1>2, <1>3, <1>4 DEF Entries
<1>9. timerfd_' \in Nat
  BY <1>1, <1>2, <1>8, EarliestOfEntries, ArmedInTime
<1>10. activeTimers_' \subseteq TimerIds
  <2>1. \A a \in Restarts : a \in Addresses /\ heap[a].sequence \in Nat
    BY <1>2, <1>3 DEF Timers
  <2> QED BY <1>1, <1>2, <2>1 DEF TimerIds
<1>11. TimerTypeOK'
  BY <1>1, <1>7, <1>8, <1>9, <1>10 DEF QInv, TimerTypeOK
<1>12. Batch' = {}
  BY <1>1 DEF Batch
<1>13. Listed' = Listed \cup Restarts
  <2>1. Listed' = {e[2] : e \in timers_'}
    BY DEF Listed
  <2>2. \A a \in Restarts : <<next(a), a>>[2] = a
    OBVIOUS
  <2> QED BY <1>1, <2>1, <2>2 DEF Listed
<1>14. \A a \in Used : heap[a].sequence \in SequenceNos /\ heap[a].sequence # 0
  BY OwnedHasSequence DEF SequenceNos
<1>15. Used' = Used \ (Batch \ Restarts)
  <2>1. \A a \in Restarts : heap'[a] # Free
    BY <1>3, <1>5, <1>6, <1>14
  <2> QED BY <1>3, <1>5, <2>1 DEF Used
<1>16. Queued' = Queued /\ Created' = Created /\ (DistinctAdds => DistinctAdds')
  BY <1>1, QueueUnchanged DEF Created
<1>17. OwnersOK'
  BY <1>3, <1>12, <1>13, <1>15, <1>16 DEF QInv, OwnersOK
<1>18. HeapOK'
  <2>1. \A a \in Addresses : heap'[a] = Free \/ heap'[a].sequence = heap[a].sequence
    BY <1>5
  <2>2. \A a \in Addresses : heap'[a] # Free => heap[a] # Free
    BY <1>3, <1>5 DEF Used
  <2>3. \A a \in Addresses : heap'[a].sequence <= s_numCreated_'
    BY <1>1, <1>6, <2>1 DEF QInv, HeapOK, TimerTypeOK
  <2>4. \A a \in Addresses : heap'[a].sequence = 0 <=> heap'[a] = Free
    BY <1>6, <2>1, <2>2 DEF QInv, HeapOK
  <2>5. \A a, b \in Addresses : heap'[a].sequence = heap'[b].sequence /\ heap'[a] # Free => a = b
    BY <2>1, <2>2, <2>4 DEF QInv, HeapOK
  <2> QED BY <2>3, <2>4, <2>5 DEF HeapOK
<1>19. ListsOK'
  <2>1. \A a \in Listed : heap'[a] = heap[a]
    BY <1>3, <1>5
  <2>2. \A e \in timers_ : e[1] = heap'[e[2]].expiration
    BY <2>1 DEF QInv, ListsOK, Listed
  <2>3. \A e \in timers_' : e[1] = heap'[e[2]].expiration
    <3> SUFFICES ASSUME NEW a \in Restarts, NEW e \in timers_', e = <<next(a), a>>
                 PROVE  e[1] = heap'[e[2]].expiration
      BY <1>1, <2>2
    <3>1. e[1] = next(a) /\ e[2] = a
      OBVIOUS
    <3> QED BY <1>5, <3>1
  <2>4. activeTimers_ = {<<a, heap[a].sequence>> : a \in Listed}
    BY DEF QInv, ListsOK
  <2>5. \A a \in Listed' : heap'[a].sequence = heap[a].sequence
    BY <1>5, <1>13, <2>1
  <2>6. activeTimers_' = {<<a, heap[a].sequence>> : a \in Listed'}
    BY <1>1, <1>13, <2>4
  <2>7. activeTimers_' = {<<a, heap'[a].sequence>> : a \in Listed'}
    BY <2>5, <2>6
  <2> QED BY <2>3, <2>7 DEF ListsOK
<1>20. FatesOK'
  <2>1. \A a \in Listed' : heap'[a].sequence = heap[a].sequence
    BY <1>3, <1>5, <1>13
  <2>2. ASSUME NEW s \in SequenceNos, fate'[s] = "in"
        PROVE  \E a \in Listed' \cup Batch' : heap'[a].sequence = s
    <3>1. fate[s] = "in"
      BY <1>1, <2>2
    <3>2. PICK a \in Listed \cup Batch : heap[a].sequence = s
      BY <3>1 DEF QInv, FatesOK
    <3>3. CASE a \in Listed
      BY <1>13, <2>1, <3>2, <3>3
    <3>4. CASE a \in Batch
      <4>1. <<a, heap[a].sequence>> \notin cancelingTimers_
        BY <3>1, <3>2, <3>4 DEF QInv, FatesOK
      <4>2. heap[a].interval # 0
        <5>1. PICK e \in expired : e[2] = a
          BY <3>4 DEF Batch
        <5> QED BY <1>1, <3>1, <3>2, <5>1 DEF QInv, FatesOK
      <4>3. heap[a].interval \in Nat
        BY <1>2, <1>3, <3>4 DEF Timers
      <4> QED BY <1>3, <1>13, <2>1, <3>2, <3>4, <4>1, <4>2, <4>3
    <3> QED BY <3>2, <3>3, <3>4
  <2>3. \A a \in Listed' : fate'[heap'[a].sequence] # "cancelled"
    BY <1>1, <1>3, <1>13, <2>1 DEF QInv, FatesOK
  <2> QED BY <1>1, <1>12, <2>2, <2>3 DEF FatesOK
<1>21. FdOK'
  <2> SUFFICES ASSUME NEW e \in timers_'
               PROVE  timerfd_' # 0 /\ (timerfd_' <= e[1] \/ timerfd_' <= Saturate(clock + 1))
    BY <1>1 DEF FdOK, Saturate
  <2>1. timerfd_' = ArmedFor(Earliest(timers_'))
    BY <1>1
  <2>2. Earliest(timers_') \in Nat /\ Earliest(timers_') <= e[1] /\ e[1] \in Nat
    BY <1>8, EarliestOfEntries DEF Entries
  <2>3. PICK x \in Nat : x = Earliest(timers_')
    BY <2>2
  <2>4. timerfd_' = ArmedFor(x) /\ x <= e[1]
    BY <2>1, <2>2, <2>3
  <2> QED BY <1>2, <2>2, <2>4, ArmedInTime DEF Times
<1> QED BY <1>11, <1>17, <1>18, <1>19, <1>20, <1>21 DEF QInv

LEMMA OtherNewInv ==
    ASSUME QInv, NEW a \in Addresses, NEW when \in Times, NEW interval \in Intervals,
           OtherNew(a, when, interval)
    PROVE  QInv'
<1>1. /\ adder.step = "idle" /\ CanCreate(a) /\ s_numCreated_' = s_numCreated_ + 1
      /\ heap' = [heap EXCEPT ![a] = NewTimer(when, interval)]
      /\ adder' = [step |-> "created", timer |-> a, sequence |-> s_numCreated_ + 1]
      /\ UNCHANGED <<clock, timers_, activeTimers_, cancelingTimers_, timerfd_, calling, expired,
                     toRun, handledAt, pendingFunctors_, ids, fate>>
  BY DEF OtherNew
<1>2. /\ s_numCreated_ + 1 \in SequenceNos /\ s_numCreated_' \in 0 .. MaxTimers
      /\ \A b \in Used : heap'[b] = heap[b]
      /\ heap' \in [Addresses -> Timers] /\ a \notin Used /\ Used' = Used \cup {a}
      /\ HeapOK'
  BY <1>1, NewKeepsHeap
<1>3. TimerTypeOK'
  <2>1. adder' \in Adders /\ adder'.timer = a
    BY <1>1, <1>2 DEF Adders, SequenceNos
  <2> QED BY <1>1, <1>2, <2>1 DEF QInv, TimerTypeOK
<1>4. Created = {} /\ Created' = {a} /\ Listed' = Listed /\ Batch' = Batch
  BY <1>1 DEF Created, Listed, Batch
<1>5. Queued' = Queued /\ (DistinctAdds => DistinctAdds')
  BY <1>1, QueueUnchanged
<1>6. OwnersOK'
  BY <1>2, <1>4, <1>5 DEF QInv, OwnersOK
<1>7. \A b \in Listed \cup Batch : heap'[b] = heap[b]
  BY <1>2, ActiveIsListed
<1>8. (\A e \in timers_ : e[2] \in Listed) /\ (\A e \in expired : e[2] \in Batch)
  BY DEF Listed, Batch
<1>9. ListsOK'
  BY <1>1, <1>4, <1>7, <1>8 DEF QInv, ListsOK
<1>10. FatesOK'
  BY <1>1, <1>4, <1>7, <1>8 DEF QInv, FatesOK
<1>11. FdOK'
  BY <1>1 DEF QInv, FdOK, Saturate
<1> QED BY <1>2, <1>3, <1>6, <1>9, <1>10, <1>11 DEF QInv

\* The other thread's steps between new Timer and the return of addTimer, and
\* its cancel(), move no timer but the one it created.
LEMMA OtherKeeps ==
    ASSUME QInv,
           UNCHANGED <<clock, s_numCreated_, heap, timers_, activeTimers_, cancelingTimers_,
                       timerfd_, calling, expired, toRun, handledAt, fate>>
    PROVE  /\ Used' = Used /\ Listed' = Listed /\ Batch' = Batch
           /\ HeapOK' /\ ListsOK' /\ FatesOK' /\ FdOK'
<1>1. Used' = Used /\ Listed' = Listed /\ Batch' = Batch
  BY DEF Used, Listed, Batch
<1> QED BY <1>1 DEF QInv, HeapOK, ListsOK, FatesOK, FdOK, Saturate

LEMMA OtherQueueAddInv ==
    ASSUME QInv, OtherQueueAdd
    PROVE  QInv'
<1>1. /\ adder.step = "created"
      /\ pendingFunctors_' = Append(pendingFunctors_,
             [name |-> "addTimerInLoop", timer |-> <<adder.timer, 0>>])
      /\ adder' = [adder EXCEPT !.step = "queued"]
      /\ UNCHANGED <<clock, s_numCreated_, heap, timers_, activeTimers_, cancelingTimers_,
                     timerfd_, calling, expired, toRun, handledAt, ids, fate>>
  BY DEF OtherQueueAdd
<1>2. PICK a \in Addresses : a = adder.timer
  BY <1>1 DEF QInv, TimerTypeOK
<1>3. Created = {a} /\ a \notin Queued
  BY <1>1, <1>2 DEF Created, QInv, OwnersOK
<1>4. PICK f \in Functors : /\ f = [name |-> "addTimerInLoop", timer |-> <<a, 0>>]
                           /\ f.name = "addTimerInLoop" /\ f.timer[1] = a
  <2> DEFINE f == [name |-> "addTimerInLoop", timer |-> <<a, 0>>]
  <2>1. f \in Functors
    BY DEF Functors, TimerIds
  <2>2. f.name = "addTimerInLoop" /\ f.timer[1] = a
    OBVIOUS
  <2> QED BY <2>1, <2>2
<1>5. pendingFunctors_ \in Seq(Functors) /\ DistinctAdds /\ adder \in Adders
  BY DEF QInv, TimerTypeOK, OwnersOK
<1>6. pendingFunctors_' \in Seq(Functors) /\ Queued' = Queued \cup {a} /\ DistinctAdds'
  BY <1>1, <1>2, <1>3, <1>4, <1>5, QueuedGrows
<1>7. adder' \in Adders /\ adder'.step = "queued" /\ adder'.timer = a
  BY <1>1, <1>2, <1>5 DEF Adders
<1>8. Created' = {}
  BY <1>7 DEF Created
<1>9. /\ Used' = Used /\ Listed' = Listed /\ Batch' = Batch
      /\ HeapOK' /\ ListsOK' /\ FatesOK' /\ FdOK'
  BY <1>1, OtherKeeps
<1>10. OwnersOK'
  BY <1>3, <1>6, <1>8, <1>9 DEF QInv, OwnersOK
<1>11. TimerTypeOK'
  BY <1>1, <1>6, <1>7 DEF QInv, TimerTypeOK
<1> QED BY <1>9, <1>10, <1>11 DEF QInv

LEMMA OtherReturnIdInv ==
    ASSUME QInv, OtherReturnId
    PROVE  QInv'
<1>1. /\ adder.step = "queued" /\ adder' = NoAdder
      /\ UNCHANGED <<clock, s_numCreated_, heap, timers_, activeTimers_, cancelingTimers_,
                     timerfd_, calling, expired, toRun, handledAt, pendingFunctors_, fate>>
  BY DEF OtherReturnId
<1>2. PICK a \in Addresses : a = adder.timer
  BY <1>1 DEF QInv, TimerTypeOK
<1>3. PICK s \in Nat : ids' = ids \cup {<<a, s>>}
  <2>1. adder.sequence \in Nat /\ heap[a].sequence \in Nat
    BY DEF QInv, TimerTypeOK, Adders, Timers
  <2> QED BY <1>2, <2>1 DEF OtherReturnId
<1>4. adder' \in Adders /\ adder'.step = "idle"
  BY <1>1 DEF NoAdder, Adders
<1>5. Created = {} /\ Created' = {}
  BY <1>1, <1>4 DEF Created
<1>6. Queued' = Queued /\ (DistinctAdds => DistinctAdds')
  BY <1>1, QueueUnchanged
<1>7. /\ Used' = Used /\ Listed' = Listed /\ Batch' = Batch
      /\ HeapOK' /\ ListsOK' /\ FatesOK' /\ FdOK'
  BY <1>1, OtherKeeps
<1>8. OwnersOK'
  BY <1>5, <1>6, <1>7 DEF QInv, OwnersOK
<1>9. ids' \subseteq TimerIds
  BY <1>3 DEF QInv, TimerTypeOK, TimerIds
<1>10. TimerTypeOK'
  BY <1>1, <1>4, <1>9 DEF QInv, TimerTypeOK
<1> QED BY <1>7, <1>8, <1>10 DEF QInv

LEMMA OtherCancelInv ==
    ASSUME QInv, NEW id \in ids, OtherCancel(id)
    PROVE  QInv'
<1>1. /\ pendingFunctors_' = Append(pendingFunctors_, [name |-> "cancelInLoop", timer |-> id])
      /\ ids' = ids \ {id} /\ id \in TimerIds
      /\ UNCHANGED <<clock, s_numCreated_, heap, timers_, activeTimers_, cancelingTimers_,
                     timerfd_, calling, expired, toRun, handledAt, adder, fate>>
  BY DEF OtherCancel, QInv, TimerTypeOK
<1>2. PICK f \in Functors : f = [name |-> "cancelInLoop", timer |-> id] /\ f.name = "cancelInLoop"
  BY <1>1 DEF Functors
<1>3. pendingFunctors_ \in Seq(Functors) /\ DistinctAdds
  BY DEF QInv, TimerTypeOK, OwnersOK
<1>4. pendingFunctors_' \in Seq(Functors) /\ Queued' = Queued /\ DistinctAdds'
  BY <1>1, <1>2, <1>3, QueuedGrows
<1>5. /\ Used' = Used /\ Listed' = Listed /\ Batch' = Batch
      /\ HeapOK' /\ ListsOK' /\ FatesOK' /\ FdOK'
  BY <1>1, OtherKeeps
<1>6. Created' = Created
  BY <1>1 DEF Created
<1>7. OwnersOK'
  BY <1>4, <1>5, <1>6 DEF QInv, OwnersOK
<1>8. TimerTypeOK'
  BY <1>1, <1>4 DEF QInv, TimerTypeOK
<1> QED BY <1>5, <1>7, <1>8 DEF QInv

-----------------------------------------------------------------------------
(* The theorems                                                            *)

LEMMA TimerInitInv == TimerInit => QInv
<1> SUFFICES ASSUME TimerInit PROVE QInv
  OBVIOUS
<1>1. /\ s_numCreated_ = 0 /\ heap = [a \in Addresses |-> Free] /\ timers_ = {}
      /\ activeTimers_ = {} /\ expired = {} /\ toRun = {} /\ pendingFunctors_ = <<>>
      /\ adder = NoAdder /\ fate = [s \in SequenceNos |-> "unborn"]
  BY DEF TimerInit
<1>2. Free \in Timers /\ Free.sequence = 0 /\ NoAdder \in Adders /\ NoAdder.step = "idle"
  BY DEF Free, Timers, NoAdder, Adders
<1>3. TimerTypeOK
  <2>1. clock \in Times /\ s_numCreated_ \in 0 .. MaxTimers
    BY TimerAssumption DEF TimerInit, Times
  <2>2. heap \in [Addresses -> Timers] /\ pendingFunctors_ \in Seq(Functors)
        /\ fate \in [SequenceNos -> {"unborn", "in", "cancelled", "done"}]
    BY <1>1, <1>2
  <2> QED BY <1>1, <1>2, <2>1, <2>2 DEF TimerInit, TimerTypeOK
<1>4. Used = {} /\ Listed = {} /\ Batch = {} /\ Created = {}
  BY <1>1, <1>2 DEF Used, Listed, Batch, Created
<1>5. Adds = {} /\ Queued = {} /\ DistinctAdds
  <2>1. Adds = {}
    BY <1>1 DEF Adds
  <2> QED BY <2>1 DEF Queued, DistinctAdds
<1>6. OwnersOK
  BY <1>4, <1>5 DEF OwnersOK
<1>7. HeapOK /\ ListsOK /\ FatesOK /\ FdOK
  BY <1>1, <1>2, <1>4 DEF HeapOK, ListsOK, FatesOK, FdOK
<1> QED BY <1>3, <1>6, <1>7 DEF QInv

\* The invariant holds in every reachable state.
THEOREM TimerInvariant == TimerSpec => []QInv
<1>1. QInv /\ [TimerNext]_timerVars => QInv'
  <2> SUFFICES ASSUME QInv, [TimerNext]_timerVars PROVE QInv'
    OBVIOUS
  <2>1. CASE UNCHANGED timerVars
    <3>1. UNCHANGED <<clock, s_numCreated_, heap, timers_, activeTimers_, cancelingTimers_, timerfd_,
                      calling, expired, toRun, handledAt, pendingFunctors_, adder, ids, fate>>
      BY <2>1 DEF timerVars
    <3>2. /\ Used' = Used /\ Listed' = Listed /\ Batch' = Batch /\ Created' = Created
          /\ HeapOK' /\ ListsOK' /\ FatesOK' /\ FdOK'
      BY <3>1, OtherKeeps DEF Created
    <3>3. OwnersOK'
      BY <3>1, <3>2, QueueUnchanged DEF QInv, OwnersOK
    <3>4. TimerTypeOK'
      BY <3>1 DEF QInv, TimerTypeOK
    <3> QED BY <3>2, <3>3, <3>4 DEF QInv
  <2>2. CASE RunFunctor \/ HandleRead \/ RunTimer \/ Reset
    BY <2>2, RunFunctorInv, HandleReadInv, RunTimerInv, ResetInv
  <2>3. CASE Tick \/ OtherQueueAdd \/ OtherReturnId
    BY <2>3, TickInv, OtherQueueAddInv, OtherReturnIdInv
  <2>4. ASSUME NEW a \in Addresses, NEW when \in Times, NEW interval \in Intervals,
               AddTimer(a, when, interval) \/ OtherNew(a, when, interval)
        PROVE  QInv'
    BY <2>4, AddTimerInv, OtherNewInv
  <2>5. ASSUME NEW id \in ids, Cancel(id) \/ OtherCancel(id)
        PROVE  QInv'
    BY <2>5, CancelInv, OtherCancelInv
  <2> QED BY <2>1, <2>2, <2>3, <2>4, <2>5 DEF TimerNext
<1> QED BY <1>1, TimerInitInv, PTL DEF TimerSpec

\* A timer that was inserted stays in the list or in the batch until its one
\* shot ran or a cancel named it: a stale TimerId takes no other timer with it.
THEOREM NothingLostTheorem == TimerSpec => []NothingLost
<1>1. QInv => NothingLost
  <2> SUFFICES ASSUME QInv, NEW s \in SequenceNos, fate[s] = "in"
               PROVE  \/ \E t \in activeTimers_ : t[2] = s
                      \/ \E e \in expired : heap[e[2]].sequence = s
    BY DEF NothingLost
  <2>1. PICK a \in Listed \cup Batch : heap[a].sequence = s
    BY DEF QInv, FatesOK
  <2>2. CASE a \in Listed
    <3>1. <<a, s>> \in activeTimers_ /\ <<a, s>>[2] = s
      BY <2>1, <2>2 DEF QInv, ListsOK
    <3> QED BY <3>1
  <2>3. CASE a \in Batch
    BY <2>1, <2>3 DEF Batch
  <2> QED BY <2>1, <2>2, <2>3
<1> QED BY <1>1, TimerInvariant, PTL

\* A timer that was cancelled, in its own callback too, does not come back.
THEOREM CancelledStaysOutTheorem == TimerSpec => []CancelledStaysOut
<1>1. QInv => CancelledStaysOut
  <2> SUFFICES ASSUME QInv, NEW t \in activeTimers_ PROVE fate[t[2]] # "cancelled"
    BY DEF CancelledStaysOut
  <2>1. t \in TimerIds
    BY DEF QInv, TimerTypeOK
  <2>2. t[1] \in Listed /\ t[2] = heap[t[1]].sequence
    BY <2>1, ActiveIsListed
  <2> QED BY <2>2 DEF QInv, FatesOK
<1> QED BY <1>1, TimerInvariant, PTL

\* The timerfd is armed in time for the earliest timer whenever the loop polls.
THEOREM ArmedTheorem == TimerSpec => []ArmedForEarliest
<1>1. QInv => ArmedForEarliest
  <2> SUFFICES ASSUME QInv, ~calling, timers_ # {}
               PROVE  timerfd_ # 0 /\ timerfd_ <= Max({Earliest(timers_), Saturate(clock + 1)})
    BY DEF ArmedForEarliest
  <2>1. timers_ \subseteq Entries /\ clock \in Times /\ timerfd_ \in Nat
    BY DEF QInv, TimerTypeOK
  <2>2. PICK x \in Nat, y \in Nat : x = Earliest(timers_) /\ y = Saturate(clock + 1)
    BY <2>1, EarliestOfEntries, ArmedInTime DEF Times
  <2>3. PICK e \in timers_ : e[1] = x
    BY <2>1, <2>2, EarliestOfEntries
  <2>4. timerfd_ # 0 /\ (timerfd_ <= x \/ timerfd_ <= y)
    BY <2>2, <2>3 DEF QInv, FdOK
  <2>5. Max({x, y}) \in {x, y} /\ \A z \in {x, y} : Max({x, y}) >= z
    <3>1. \E m \in {x, y} : \A z \in {x, y} : m >= z
      OBVIOUS
    <3> QED BY <3>1 DEF Max
  <2>6. timerfd_ <= Max({x, y})
    BY <2>1, <2>4, <2>5
  <2> QED BY <2>2, <2>4, <2>6
<1> QED BY <1>1, TimerInvariant, PTL

\* Disjoint finite sets have as many elements as their union.
LEMMA FourParts ==
    ASSUME NEW A, NEW B, NEW C, NEW D, IsFiniteSet(A \cup B \cup C \cup D),
           A \cap B = {}, A \cap C = {}, A \cap D = {}, B \cap C = {}, B \cap D = {}, C \cap D = {}
    PROVE  Cardinality(A) + Cardinality(B) + Cardinality(C) + Cardinality(D)
               = Cardinality(A \cup B \cup C \cup D)
<1>1. IsFiniteSet(A) /\ IsFiniteSet(B) /\ IsFiniteSet(C) /\ IsFiniteSet(D)
  BY FS_Subset
<1>2. ASSUME NEW S, NEW T, IsFiniteSet(S), IsFiniteSet(T), S \cap T = {}
      PROVE  IsFiniteSet(S \cup T) /\ Cardinality(S \cup T) = Cardinality(S) + Cardinality(T)
  <2>1. Cardinality(S) \in Nat /\ Cardinality(T) \in Nat
    BY <1>2, FS_CardinalityType
  <2>2. Cardinality(S \cap T) = 0
    BY <1>2, FS_EmptySet
  <2>3. IsFiniteSet(S \cup T)
    BY <1>2, FS_Union
  <2>4. Cardinality(S \cup T) = Cardinality(S) + Cardinality(T) - Cardinality(S \cap T)
    BY <1>2, FS_Union
  <2> QED BY <2>1, <2>2, <2>3, <2>4
<1>3. IsFiniteSet(A \cup B) /\ Cardinality(A \cup B) = Cardinality(A) + Cardinality(B)
  BY <1>1, <1>2
<1>4. (A \cup B) \cap C = {} /\ (A \cup B \cup C) \cap D = {}
  OBVIOUS
<1>5. IsFiniteSet(A \cup B \cup C)
      /\ Cardinality(A \cup B \cup C) = Cardinality(A \cup B) + Cardinality(C)
  BY <1>1, <1>2, <1>3, <1>4
<1>6. Cardinality(A \cup B \cup C \cup D) = Cardinality(A \cup B \cup C) + Cardinality(D)
  BY <1>1, <1>2, <1>4, <1>5
<1> QED BY <1>3, <1>5, <1>6

\* Every Timer object is owned once: no leak, no second delete, and the two
\* sets agree, however often addresses are reused.
THEOREM OwnedOnceTheorem == TimerSpec => []TimersOwnedOnce
<1>1. QInv => TimersOwnedOnce
  <2> SUFFICES ASSUME QInv PROVE TimersOwnedOnce
    OBVIOUS
  <2>1. Queued = {pendingFunctors_[i].timer[1] : i \in {j \in DOMAIN pendingFunctors_ :
                      pendingFunctors_[j].name = "addTimerInLoop"}}
    BY DEF Queued, AddOf, Adds
  <2>2. timers_ = {<<heap[a].expiration, a>> : a \in Listed}
    <3>1. \A e \in timers_ : e = <<heap[e[2]].expiration, e[2]>>
      BY DEF QInv, TimerTypeOK, ListsOK, Entries
    <3>2. \A a \in Listed : <<heap[a].expiration, a>> \in timers_
      BY ActiveIsListed
    <3> QED BY <3>1, <3>2 DEF Listed
  <2>3. activeTimers_ = {<<a, heap[a].sequence>> : a \in Listed}
    BY DEF QInv, ListsOK
  <2>4. Used = Listed \cup Batch \cup Queued \cup Created
    BY DEF QInv, OwnersOK
  <2>5. IsFiniteSet(Used)
    BY TimerAssumption, FS_Subset DEF Used
  <2>6. Cardinality(Listed) + Cardinality(Batch) + Cardinality(Queued) + Cardinality(Created)
           = Cardinality(Used)
    <3>1. IsFiniteSet(Listed \cup Batch \cup Queued \cup Created)
      BY <2>4, <2>5
    <3> QED BY <2>4, <3>1, FourParts DEF QInv, OwnersOK
  <2> QED BY <2>1, <2>2, <2>3, <2>4, <2>6 DEF TimersOwnedOnce, Used, Listed, Batch, Created
<1> QED BY <1>1, TimerInvariant, PTL

=============================================================================
