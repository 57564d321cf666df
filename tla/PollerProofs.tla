---------------------------- MODULE PollerProofs ----------------------------
(***************************************************************************)
(* Proofs about the channels and both pollers, for any channels,           *)
(* descriptors and legal sequence of channel operations.                   *)
(***************************************************************************)
EXTENDS Poller, FiniteSetTheorems, TLAPS

Entries == [fd : Int, events : SUBSET Events]

Registered == {c \in Channels : life[c] = "registered"}
InUse      == {c \in Channels : life[c] \in {"fresh", "registered"}}

\* The map has the registered channels, each under its own descriptor.
MapOK ==
    /\ \A c, d \in InUse : fd_[c] = fd_[d] => c = d
    /\ \A c \in Registered : channels_[fd_[c]] = c
    /\ \A f \in Fds : channels_[f] # NoChannel =>
          channels_[f] \in Registered /\ fd_[channels_[f]] = f
    /\ \A c \in Channels : life[c] = "fresh" => index_[c] = kNew /\ events_[c] = {}

\* The kernel's list has the added channels and nothing else.
EPollOK ==
    /\ pollfds_ = <<>>
    /\ \A c \in Registered :
          \/ index_[c] = kAdded /\ epollfd_[fd_[c]] = [ptr |-> c, events |-> events_[c]]
          \/ index_[c] = kDeleted /\ epollfd_[fd_[c]] = NoEntry /\ events_[c] = {}
    /\ \A f \in Fds : channels_[f] = NoChannel => epollfd_[f] = NoEntry

\* The entry at c's index is c's.
HasEntry(c) ==
    /\ InPollfds(c)
    /\ Pfd(c).fd \in {fd_[c], Ignored(fd_[c])} /\ Pfd(c).events = events_[c]
    /\ events_[c] = {} => Pfd(c).fd = Ignored(fd_[c])
    /\ c \notin lapsed => Pfd(c).fd = fd_[c]

\* pollfds_ has an entry of every registered channel and nothing else.
PollOK ==
    /\ epollfd_ = [f \in Fds |-> NoEntry]
    /\ \A c \in Registered : HasEntry(c)
    /\ \A i \in DOMAIN pollfds_ : \E c \in Registered : index_[c] = i - 1

\* A channel is reported once, and is registered until its handler runs.
ActiveOK ==
    /\ \A i \in DOMAIN activeChannels_ : i > 1 => life[activeChannels_[i]] = "registered"
    /\ \A i, j \in DOMAIN activeChannels_ : activeChannels_[i] = activeChannels_[j] => i = j
    /\ phase # "handle" => activeChannels_ = <<>>

PInv ==
    /\ PollerTypeOK /\ ~aborted
    /\ MapOK
    /\ usePoll => PollOK
    /\ ~usePoll => EPollOK
    /\ ActiveOK

-----------------------------------------------------------------------------
(* What the assertions rest on                                             *)

\* Every entry of pollfds_ belongs to one channel.
LEMMA IndexUnique ==
    ASSUME PInv, usePoll, NEW c \in Registered, NEW d \in Registered, index_[c] = index_[d]
    PROVE  c = d
<1>1. /\ Pfd(c).fd \in {fd_[c], -fd_[c] - 1} /\ Pfd(c).fd \in {fd_[d], -fd_[d] - 1}
      /\ c \in InUse /\ d \in InUse
  BY DEF PInv, PollOK, HasEntry, Pfd, Ignored, Registered, InUse
<1>2. fd_[c] \in Nat /\ fd_[d] \in Nat
  BY PollerAssumption DEF PInv, PollerTypeOK, Registered
<1>3. \A m, n \in Nat : \A x : x \in {m, -m - 1} /\ x \in {n, -n - 1} => m = n
  OBVIOUS
<1>4. fd_[c] = fd_[d]
  BY <1>1, <1>2, <1>3
<1> QED BY <1>1, <1>4 DEF PInv, MapOK

\* The place in pollfds_ a channel's index names.
LEMMA EntryPlace ==
    ASSUME PInv, NEW c \in Channels, InPollfds(c)
    PROVE  /\ index_[c] \in Nat /\ ~(index_[c] < 0)
           /\ index_[c] + 1 \in DOMAIN pollfds_ /\ Pfd(c) \in Entries
<1>1. pollfds_ \in Seq(Entries) /\ index_[c] \in Int
  BY DEF PInv, PollerTypeOK, Entries
<1>2. index_[c] \in Nat /\ index_[c] + 1 \in 1 .. Len(pollfds_)
  BY <1>1 DEF InPollfds
<1>3. index_[c] + 1 \in DOMAIN pollfds_
  BY <1>1, <1>2
<1> QED BY <1>1, <1>2, <1>3 DEF Pfd

\* An entry of the kernel's list, and one of pollfds_ that is not marked, lead to
\* a registered channel.
LEMMA EntriesAreRegistered ==
    ASSUME PInv, ~usePoll, NEW f \in Fds, epollfd_[f] # NoEntry
    PROVE  epollfd_[f].ptr \in Registered /\ fd_[epollfd_[f].ptr] = f
<1>1. channels_[f] \in Registered /\ fd_[channels_[f]] = f
  BY DEF PInv, EPollOK, MapOK
<1>2. epollfd_[f] = [ptr |-> channels_[f], events |-> events_[channels_[f]]]
  BY <1>1 DEF PInv, EPollOK
<1>3. epollfd_[f].ptr = channels_[f]
  BY <1>2
<1> QED BY <1>1, <1>3

LEMMA PlacesAreRegistered ==
    ASSUME PInv, usePoll, NEW i \in DOMAIN pollfds_, pollfds_[i].fd >= 0
    PROVE  /\ channels_[pollfds_[i].fd] \in Registered
           /\ index_[channels_[pollfds_[i].fd]] = i - 1
<1>1. PICK c \in Registered : index_[c] = i - 1
  BY DEF PInv, PollOK
<1>2. HasEntry(c) /\ channels_[fd_[c]] = c /\ fd_[c] \in Nat
  BY PollerAssumption DEF PInv, PollOK, MapOK, PollerTypeOK, Registered
<1>3. Pfd(c) = pollfds_[i]
  <2>1. i \in Nat
    BY DEF PInv, PollerTypeOK
  <2>2. (i - 1) + 1 = i
    BY <2>1
  <2> QED BY <1>1, <2>2 DEF Pfd
<1>4. pollfds_[i].fd \in {fd_[c], -fd_[c] - 1}
  BY <1>2, <1>3 DEF HasEntry, Ignored
<1>5. \A f \in Nat : \A x : x \in {f, -f - 1} /\ x >= 0 => x = f
  OBVIOUS
<1>6. pollfds_[i].fd = fd_[c]
  BY <1>2, <1>4, <1>5
<1> QED BY <1>1, <1>2, <1>6

\* The head of updateChannel() holds for every channel in use.
LEMMA UpdateAssertsHold == ASSUME PInv, NEW c \in InUse PROVE UpdateAsserts(c)
<1>1. CASE life[c] = "fresh"
  <2>1. index_[c] = kNew /\ fd_[c] \in Fds /\ c \notin Registered
    BY <1>1 DEF PInv, MapOK, PollerTypeOK, InUse, Registered
  <2>2. channels_[fd_[c]] = NoChannel
    BY <2>1 DEF PInv, MapOK, InUse, Registered
  <2> QED BY <2>1, <2>2 DEF UpdateAsserts, kNew
<1>2. CASE c \in Registered
  <2>1. channels_[fd_[c]] = c
    BY <1>2 DEF PInv, MapOK
  <2>2. CASE usePoll
    <3>1. HasEntry(c)
      BY <1>2, <2>2 DEF PInv, PollOK
    <3>2. ~(index_[c] < 0)
      BY <3>1, EntryPlace DEF HasEntry, InUse
    <3> QED BY <2>1, <2>2, <3>1, <3>2 DEF UpdateAsserts, HasEntry
  <2>3. CASE ~usePoll
    <3>1. index_[c] \in {kAdded, kDeleted}
      BY <1>2, <2>3 DEF PInv, EPollOK
    <3>2. index_[c] # kNew
      BY <3>1 DEF kNew, kAdded, kDeleted
    <3> QED BY <2>1, <2>3, <3>2 DEF UpdateAsserts
  <2> QED BY <2>2, <2>3
<1> QED BY <1>1, <1>2 DEF InUse, Registered

\* So does the head of removeChannel() for a registered one without interest.
LEMMA RemoveAssertsHold ==
    ASSUME PInv, NEW c \in Registered, events_[c] = {} PROVE RemoveAsserts(c)
<1>1. channels_[fd_[c]] = c
  BY DEF PInv, MapOK
<1>2. CASE usePoll
  <2>1. HasEntry(c)
    BY <1>2 DEF PInv, PollOK
  <2>2. Pfd(c) \in Entries
    BY <2>1, EntryPlace DEF HasEntry, Registered
  <2>3. Pfd(c) = [fd |-> Ignored(fd_[c]), events |-> events_[c]]
    BY <2>1, <2>2 DEF HasEntry, Entries
  <2> QED BY <1>1, <1>2, <2>1, <2>3 DEF RemoveAsserts, HasEntry
<1>3. CASE ~usePoll
  BY <1>1, <1>3 DEF PInv, EPollOK, RemoveAsserts
<1> QED BY <1>2, <1>3

\* The books of the pollers speak of the channels, not of the loop.
LEMMA BooksKept ==
    ASSUME PInv,
           UNCHANGED <<usePoll, life, fd_, events_, index_, channels_, epollfd_, pollfds_, lapsed>>
    PROVE  MapOK' /\ (usePoll => PollOK') /\ (~usePoll => EPollOK')
<1>1. Registered' = Registered /\ InUse' = InUse
  BY DEF Registered, InUse
<1>2. MapOK'
  BY <1>1 DEF PInv, MapOK
<1>3. ASSUME usePoll PROVE PollOK'
  BY <1>1, <1>3 DEF PInv, PollOK, HasEntry, InPollfds, Pfd, Ignored
<1>4. ASSUME ~usePoll PROVE EPollOK'
  BY <1>1, <1>4 DEF PInv, EPollOK
<1> QED BY <1>2, <1>3, <1>4

-----------------------------------------------------------------------------
(* updateChannel()                                                         *)

\* What an update leaves under both pollers.
LEMMA UpdateFacts ==
    ASSUME PInv, NEW c \in InUse, NEW ev \in SUBSET Events, Update(c, ev)
    PROVE  /\ events_' = [events_ EXCEPT ![c] = ev]
           /\ life' = [life EXCEPT ![c] = "registered"]
           /\ lapsed' = IF ev = {} THEN lapsed \cup {c} ELSE lapsed
           /\ UNCHANGED <<usePoll, fd_, eventListSize, phase, activeChannels_>>
           /\ IF usePoll THEN PollUpdate(c, ev) ELSE EPollUpdate(c, ev)
           /\ Registered' = Registered \cup {c} /\ InUse' = InUse
           /\ \A d \in Channels : d # c => life'[d] = life[d] /\ events_'[d] = events_[d]
           /\ life'[c] = "registered" /\ events_'[c] = ev
           /\ c \in Channels /\ fd_[c] \in Fds
           /\ index_ \in [Channels -> Int]
<1>1. /\ events_' = [events_ EXCEPT ![c] = ev]
      /\ life' = [life EXCEPT ![c] = "registered"]
      /\ lapsed' = IF ev = {} THEN lapsed \cup {c} ELSE lapsed
      /\ UNCHANGED <<usePoll, fd_, eventListSize, phase, activeChannels_>>
      /\ IF usePoll THEN PollUpdate(c, ev) ELSE EPollUpdate(c, ev)
  BY UpdateAssertsHold DEF Update
<1>2. c \in Channels /\ fd_[c] \in Fds /\ index_ \in [Channels -> Int]
      /\ events_ \in [Channels -> SUBSET Events]
      /\ life \in [Channels -> {"none", "fresh", "registered", "removed"}]
  BY DEF PInv, PollerTypeOK, InUse
<1>3. /\ \A d \in Channels : d # c => life'[d] = life[d] /\ events_'[d] = events_[d]
      /\ life'[c] = "registered" /\ events_'[c] = ev
  BY <1>1, <1>2
<1>4. Registered' = Registered \cup {c} /\ InUse' = InUse
  BY <1>2, <1>3 DEF Registered, InUse
<1> QED BY <1>1, <1>2, <1>3, <1>4

\* The map and the rest after an update that wrote c under its descriptor.
LEMMA UpdateKeepsRest ==
    ASSUME PInv, NEW c \in InUse, NEW ev \in SUBSET Events, Update(c, ev),
           channels_' = [channels_ EXCEPT ![fd_[c]] = c],
           \A d \in Channels : d # c => index_'[d] = index_[d]
    PROVE  MapOK' /\ ActiveOK'
<1>1. /\ Registered' = Registered \cup {c} /\ InUse' = InUse
      /\ \A d \in Channels : d # c => life'[d] = life[d] /\ events_'[d] = events_[d]
      /\ life'[c] = "registered" /\ c \in Channels /\ fd_[c] \in Fds
      /\ UNCHANGED <<fd_, phase, activeChannels_>>
  BY UpdateFacts
<1>2. \A f \in Fds : channels_'[f] = IF f = fd_[c] THEN c ELSE channels_[f]
  BY <1>1 DEF PInv, PollerTypeOK
<1>3. MapOK'
  <2>1. \A d, e \in InUse' : fd_'[d] = fd_'[e] => d = e
    BY <1>1 DEF PInv, MapOK
  <2>2. ASSUME NEW d \in Registered' PROVE channels_'[fd_'[d]] = d
    <3>1. d \in InUse /\ fd_[d] \in Fds
      BY <1>1 DEF Registered, InUse, PInv, PollerTypeOK
    <3>2. CASE d = c
      BY <1>1, <1>2, <3>2
    <3>3. CASE d # c
      <4>1. fd_[d] # fd_[c] /\ d \in Registered
        BY <1>1, <3>1, <3>3 DEF PInv, MapOK
      <4> QED BY <1>1, <1>2, <3>1, <4>1 DEF PInv, MapOK
    <3> QED BY <3>2, <3>3
  <2>3. \A f \in Fds : channels_'[f] # NoChannel =>
           channels_'[f] \in Registered' /\ fd_'[channels_'[f]] = f
    BY <1>1, <1>2 DEF PInv, MapOK
  <2>4. \A d \in Channels : life'[d] = "fresh" => index_'[d] = kNew /\ events_'[d] = {}
    BY <1>1 DEF PInv, MapOK
  <2> QED BY <2>1, <2>2, <2>3, <2>4 DEF MapOK
<1>4. ActiveOK'
  <2>1. \A i \in DOMAIN activeChannels_ : activeChannels_[i] \in Channels
    BY DEF PInv, PollerTypeOK
  <2> QED BY <1>1, <2>1 DEF PInv, ActiveOK
<1> QED BY <1>3, <1>4

LEMMA InvEPollUpdate ==
    ASSUME PInv, ~usePoll, NEW c \in InUse, NEW ev \in SUBSET Events, Update(c, ev) PROVE PInv'
<1>1. /\ events_' = [events_ EXCEPT ![c] = ev]
      /\ life' = [life EXCEPT ![c] = "registered"]
      /\ lapsed' = IF ev = {} THEN lapsed \cup {c} ELSE lapsed
      /\ UNCHANGED <<usePoll, fd_, eventListSize, phase, activeChannels_>>
      /\ Registered' = Registered \cup {c} /\ InUse' = InUse
      /\ \A d \in Channels : d # c => life'[d] = life[d] /\ events_'[d] = events_[d]
      /\ life'[c] = "registered" /\ events_'[c] = ev
      /\ c \in Channels /\ fd_[c] \in Fds /\ index_ \in [Channels -> Int]
  BY UpdateFacts
<1>2. EPollUpdate(c, ev)
  BY UpdateFacts
<1>3. channels_' = [channels_ EXCEPT ![fd_[c]] = c] /\ pollfds_' = pollfds_
  BY <1>2 DEF EPollUpdate
\* The kernel's entry of a new or deleted channel is free, of an added one its own.
<1>4. \/ index_[c] \in {kNew, kDeleted} /\ epollfd_[fd_[c]] = NoEntry
      \/ index_[c] = kAdded /\ epollfd_[fd_[c]].ptr = c
  <2>1. CASE life[c] = "fresh"
    <3>1. index_[c] = kNew /\ channels_[fd_[c]] = NoChannel
      BY <1>1, <2>1 DEF PInv, MapOK, InUse, Registered
    <3> QED BY <1>1, <3>1 DEF PInv, EPollOK
  <2>2. CASE c \in Registered
    <3>1. \/ index_[c] = kAdded /\ epollfd_[fd_[c]] = [ptr |-> c, events |-> events_[c]]
          \/ index_[c] = kDeleted /\ epollfd_[fd_[c]] = NoEntry
      BY <2>2 DEF PInv, EPollOK
    <3>2. epollfd_[fd_[c]] = [ptr |-> c, events |-> events_[c]] => epollfd_[fd_[c]].ptr = c
      OBVIOUS
    <3> QED BY <3>1, <3>2
  <2> QED BY <2>1, <2>2 DEF InUse, Registered
<1>5. epollfd_ \in [Fds -> [ptr : Channels \cup {NoChannel}, events : SUBSET Events]]
      /\ NoChannel \notin Channels
  BY PollerAssumption DEF PInv, PollerTypeOK
<1>6. /\ index_' \in [Channels -> Int] /\ \A d \in Channels : d # c => index_'[d] = index_[d]
      /\ epollfd_' \in [Fds -> [ptr : Channels \cup {NoChannel}, events : SUBSET Events]]
      /\ \A f \in Fds : f # fd_[c] => epollfd_'[f] = epollfd_[f]
      /\ \/ index_'[c] = kAdded /\ epollfd_'[fd_[c]] = [ptr |-> c, events |-> ev]
         \/ index_'[c] = kDeleted /\ epollfd_'[fd_[c]] = NoEntry /\ ev = {}
      /\ aborted' = FALSE
  <2>1. CASE index_[c] \in {kNew, kDeleted} /\ epollfd_[fd_[c]] = NoEntry
    <3>1. index_' = [index_ EXCEPT ![c] = kAdded] /\ EpollCtl("ADD", c, ev)
      BY <1>2, <2>1 DEF EPollUpdate
    <3>2. epollfd_' = [epollfd_ EXCEPT ![fd_[c]] = [ptr |-> c, events |-> ev]] /\ aborted' = FALSE
      BY <2>1, <3>1 DEF EpollCtl
    <3> QED BY <1>1, <1>5, <3>1, <3>2 DEF kAdded
  <2>2. CASE index_[c] = kAdded /\ epollfd_[fd_[c]].ptr = c /\ ev = {}
    <3>1. index_' = [index_ EXCEPT ![c] = kDeleted] /\ EpollCtl("DEL", c, ev)
      BY <1>2, <2>2 DEF EPollUpdate, kNew, kAdded, kDeleted
    <3>2. epollfd_' = [epollfd_ EXCEPT ![fd_[c]] = NoEntry] /\ aborted' = FALSE
      BY <3>1 DEF EpollCtl
    <3> QED BY <1>1, <1>5, <2>2, <3>1, <3>2 DEF kDeleted, NoEntry
  <2>3. CASE index_[c] = kAdded /\ epollfd_[fd_[c]].ptr = c /\ ev # {}
    <3>1. index_' = [index_ EXCEPT ![c] = kAdded] /\ EpollCtl("MOD", c, ev)
      BY <1>2, <2>3 DEF EPollUpdate, kNew, kAdded, kDeleted
    <3>2. epollfd_[fd_[c]] # NoEntry
      BY <1>1, <1>5, <2>3 DEF NoEntry
    <3>3. epollfd_' = [epollfd_ EXCEPT ![fd_[c]] = [ptr |-> c, events |-> ev]] /\ aborted' = FALSE
      BY <3>1, <3>2 DEF EpollCtl
    <3> QED BY <1>1, <1>5, <3>1, <3>3 DEF kAdded
  <2> QED BY <1>4, <2>1, <2>2, <2>3
<1>7. PollerTypeOK'
  <2>1. channels_' \in [Fds -> Channels \cup {NoChannel}]
    BY <1>1, <1>3 DEF PInv, PollerTypeOK
  <2> QED BY <1>1, <1>3, <1>6, <2>1 DEF PInv, PollerTypeOK
<1>8. MapOK' /\ ActiveOK'
  BY <1>3, <1>6, UpdateKeepsRest
<1>9. EPollOK'
  <2>1. ASSUME NEW d \in Registered'
        PROVE  \/ index_'[d] = kAdded /\ epollfd_'[fd_'[d]] = [ptr |-> d, events |-> events_'[d]]
               \/ index_'[d] = kDeleted /\ epollfd_'[fd_'[d]] = NoEntry /\ events_'[d] = {}
    <3>1. CASE d = c
      BY <1>1, <1>6, <3>1
    <3>2. CASE d # c
      <4>1. d \in Registered /\ d \in Channels /\ fd_[d] \in Fds /\ fd_[d] # fd_[c]
        BY <1>1, <3>2 DEF PInv, MapOK, PollerTypeOK, Registered, InUse
      <4> QED BY <1>1, <1>6, <3>2, <4>1 DEF PInv, EPollOK
    <3> QED BY <3>1, <3>2
  <2>2. ASSUME NEW f \in Fds, channels_'[f] = NoChannel PROVE epollfd_'[f] = NoEntry
    <3>1. f # fd_[c] /\ channels_[f] = NoChannel
      BY <1>1, <1>3, <1>5, <2>2 DEF PInv, PollerTypeOK
    <3> QED BY <1>6, <3>1 DEF PInv, EPollOK
  <2> QED BY <1>3, <2>1, <2>2 DEF EPollOK, PInv
<1> QED BY <1>1, <1>6, <1>7, <1>8, <1>9 DEF PInv

\* An entry is appended for a new channel.
LEMMA InvPollAppend ==
    ASSUME PInv, usePoll, NEW c \in InUse, c \notin Registered,
           NEW ev \in SUBSET Events, ev # {}, Update(c, ev) PROVE PInv'
<1> DEFINE e == [fd |-> fd_[c], events |-> ev]
<1>1. /\ UNCHANGED <<usePoll, fd_, eventListSize, phase, activeChannels_>>
      /\ events_' = [events_ EXCEPT ![c] = ev] /\ life' = [life EXCEPT ![c] = "registered"]
      /\ lapsed' = lapsed
      /\ Registered' = Registered \cup {c}
      /\ \A d \in Channels : d # c => life'[d] = life[d] /\ events_'[d] = events_[d]
      /\ events_'[c] = ev
      /\ c \in Channels /\ fd_[c] \in Fds /\ index_ \in [Channels -> Int]
  BY UpdateFacts
<1>2. index_[c] < 0
  <2>1. index_[c] = -1
    BY <1>1 DEF PInv, MapOK, InUse, Registered, kNew
  <2> QED BY <2>1
<1>3. /\ pollfds_' = Append(pollfds_, e)
      /\ index_' = [index_ EXCEPT ![c] = Len(pollfds_)]
      /\ channels_' = [channels_ EXCEPT ![fd_[c]] = c]
      /\ UNCHANGED <<epollfd_, aborted>>
  BY <1>2, UpdateFacts DEF PollUpdate
<1>4. /\ pollfds_ \in Seq(Entries) /\ Len(pollfds_) \in Nat /\ e \in Entries
      /\ \A d \in Channels : fd_[d] \in Fds
  <2>1. pollfds_ \in Seq(Entries) /\ \A d \in Channels : fd_[d] \in Fds
    BY DEF PInv, PollerTypeOK, Entries
  <2>2. e \in Entries
    <3>1. fd_[c] \in Nat
      BY <1>1, PollerAssumption
    <3> QED BY <3>1 DEF Entries
  <2> HIDE DEF e
  <2> QED BY <2>1, <2>2
<1>5. /\ pollfds_' \in Seq(Entries) /\ Len(pollfds_') = Len(pollfds_) + 1
      /\ \A i \in 1 .. Len(pollfds_) : pollfds_'[i] = pollfds_[i]
      /\ pollfds_'[Len(pollfds_) + 1] = e
      /\ DOMAIN pollfds_' = 1 .. Len(pollfds_) + 1 /\ DOMAIN pollfds_ = 1 .. Len(pollfds_)
  BY <1>3, <1>4
<1> HIDE DEF e
<1>6. /\ index_' \in [Channels -> Int] /\ index_'[c] = Len(pollfds_)
      /\ \A d \in Channels : d # c => index_'[d] = index_[d]
  BY <1>1, <1>3, <1>4
<1>7. PollerTypeOK'
  <2>1. channels_' \in [Fds -> Channels \cup {NoChannel}]
    BY <1>1, <1>3 DEF PInv, PollerTypeOK
  <2> QED BY <1>1, <1>3, <1>5, <1>6, <2>1 DEF PInv, PollerTypeOK, Entries
<1>8. MapOK' /\ ActiveOK'
  BY <1>3, <1>6, UpdateKeepsRest
<1>9. PollOK'
  <2>1. ASSUME NEW d \in Registered PROVE HasEntry(d)'
    <3>1. /\ HasEntry(d) /\ d # c /\ d \in Channels /\ index_'[d] = index_[d] /\ fd_'[d] = fd_[d]
          /\ events_'[d] = events_[d]
      BY <1>1, <1>6 DEF PInv, PollOK, Registered
    <3>2. InPollfds(d)' /\ Pfd(d)' = Pfd(d)
      BY <1>4, <1>5, <3>1, EntryPlace DEF HasEntry, InPollfds, Pfd
    <3> QED BY <1>1, <3>1, <3>2 DEF HasEntry, Ignored
  <2>2. HasEntry(c)'
    <3>1. InPollfds(c)' /\ Pfd(c)' = e
      BY <1>4, <1>5, <1>6 DEF InPollfds, Pfd
    <3> QED BY <1>1, <3>1 DEF HasEntry, e
  <2>3. ASSUME NEW i \in DOMAIN pollfds_' PROVE \E d \in Registered' : index_'[d] = i - 1
    <3>1. CASE i = Len(pollfds_) + 1
      BY <1>1, <1>4, <1>6, <3>1
    <3>2. CASE i # Len(pollfds_) + 1
      <4>1. i \in DOMAIN pollfds_
        BY <1>4, <1>5, <2>3, <3>2
      <4>2. PICK d \in Registered : index_[d] = i - 1
        BY <4>1 DEF PInv, PollOK
      <4> QED BY <1>1, <1>6, <4>2 DEF Registered
    <3> QED BY <3>1, <3>2
  <2> QED BY <1>1, <1>3, <2>1, <2>2, <2>3 DEF PollOK, PInv
<1> QED BY <1>1, <1>3, <1>7, <1>8, <1>9 DEF PInv

\* An existing entry takes the new events.
LEMMA InvPollModify ==
    ASSUME PInv, usePoll, NEW c \in Registered, NEW ev \in SUBSET Events, Update(c, ev) PROVE PInv'
<1> DEFINE p == index_[c] + 1
           e == [fd |-> IF ev = {} THEN Ignored(fd_[c]) ELSE pollfds_[p].fd, events |-> ev]
<1>1. c \in InUse
  BY DEF InUse, Registered
<1>2. /\ UNCHANGED <<usePoll, fd_, eventListSize, phase, activeChannels_>>
      /\ events_' = [events_ EXCEPT ![c] = ev] /\ life' = [life EXCEPT ![c] = "registered"]
      /\ lapsed' = IF ev = {} THEN lapsed \cup {c} ELSE lapsed
      /\ Registered' = Registered
      /\ \A d \in Channels : d # c => life'[d] = life[d] /\ events_'[d] = events_[d]
      /\ events_'[c] = ev
      /\ c \in Channels /\ fd_[c] \in Fds /\ index_ \in [Channels -> Int]
  <2>1. Registered \cup {c} = Registered
    OBVIOUS
  <2> QED BY <1>1, <2>1, UpdateFacts
<1>3. HasEntry(c)
  BY DEF PInv, PollOK
<1>4. ~(index_[c] < 0) /\ p \in DOMAIN pollfds_ /\ pollfds_[p] = Pfd(c) /\ Pfd(c) \in Entries
  BY <1>2, <1>3, EntryPlace DEF HasEntry, Pfd
<1>5. pollfds_' = [pollfds_ EXCEPT ![p] = e] /\ UNCHANGED <<index_, channels_, epollfd_, aborted>>
  BY <1>1, <1>4, UpdateFacts DEF PollUpdate
<1>6. fd_[c] \in Nat /\ Ignored(fd_[c]) \in Int /\ e \in Entries
  <2>1. fd_[c] \in Nat
    BY <1>2, PollerAssumption
  <2>2. Ignored(fd_[c]) \in Int
    BY <2>1 DEF Ignored
  <2> QED BY <1>4, <2>1, <2>2 DEF Entries
<1>7. pollfds_ \in Seq(Entries)
  BY DEF PInv, PollerTypeOK, Entries
<1> HIDE DEF e, p
<1>8. /\ pollfds_' \in Seq(Entries) /\ Len(pollfds_') = Len(pollfds_)
      /\ DOMAIN pollfds_' = DOMAIN pollfds_ /\ pollfds_'[p] = e
      /\ \A i \in DOMAIN pollfds_ : i # p => pollfds_'[i] = pollfds_[i]
  BY <1>4, <1>5, <1>6, <1>7
<1>9. PollerTypeOK'
  BY <1>2, <1>5, <1>8 DEF PInv, PollerTypeOK, Entries
<1>10. MapOK' /\ ActiveOK'
  <2>1. channels_[fd_[c]] = c
    BY DEF PInv, MapOK
  <2>2. channels_' = [channels_ EXCEPT ![fd_[c]] = c]
    BY <1>2, <1>5, <2>1 DEF PInv, PollerTypeOK
  <2> QED BY <1>1, <1>5, <2>2, UpdateKeepsRest
<1>11. PollOK'
  <2>1. ASSUME NEW d \in Registered, d # c PROVE HasEntry(d)'
    <3>1. /\ HasEntry(d) /\ d \in Channels /\ fd_'[d] = fd_[d] /\ events_'[d] = events_[d]
          /\ (d \in lapsed' <=> d \in lapsed)
      BY <1>2, <2>1 DEF PInv, PollOK, Registered
    <3>2. index_[d] + 1 # p /\ index_[d] + 1 \in DOMAIN pollfds_
      <4>1. index_[d] # index_[c] /\ index_[d] \in Int /\ index_[c] \in Int
        BY <1>2, <2>1, <3>1, IndexUnique
      <4>2. index_[d] + 1 # index_[c] + 1
        BY <4>1
      <4> QED BY <3>1, <4>2, EntryPlace DEF HasEntry, p
    <3>3. InPollfds(d)' /\ Pfd(d)' = Pfd(d)
      BY <1>5, <1>8, <3>1, <3>2 DEF HasEntry, InPollfds, Pfd
    <3> QED BY <3>1, <3>3 DEF HasEntry, Ignored
  <2>2. HasEntry(c)'
    <3>1. InPollfds(c)' /\ Pfd(c)' = e
      BY <1>3, <1>5, <1>8 DEF HasEntry, InPollfds, Pfd, p
    <3>2. /\ e.events = ev
          /\ e.fd = IF ev = {} THEN Ignored(fd_[c]) ELSE Pfd(c).fd
      BY <1>4 DEF e
    <3> QED BY <1>2, <1>3, <3>1, <3>2 DEF HasEntry, Ignored
  <2>3. \A i \in DOMAIN pollfds_' : \E d \in Registered' : index_'[d] = i - 1
    BY <1>2, <1>5, <1>8 DEF PInv, PollOK
  <2> QED BY <1>2, <1>5, <2>1, <2>2, <2>3 DEF PollOK, PInv
<1> QED BY <1>2, <1>5, <1>9, <1>10, <1>11 DEF PInv

LEMMA InvUpdate ==
    ASSUME PInv, NEW c \in InUse, NEW ev \in SUBSET Events, Update(c, ev),
           usePoll /\ c \notin Registered => ev # {}
    PROVE  PInv'
<1>1. CASE ~usePoll
  BY <1>1, InvEPollUpdate
<1>2. CASE usePoll /\ c \notin Registered
  BY <1>2, InvPollAppend
<1>3. CASE usePoll /\ c \in Registered
  BY <1>3, InvPollModify
<1> QED BY <1>1, <1>2, <1>3

-----------------------------------------------------------------------------
(* removeChannel()                                                         *)

\* What a removal leaves under both pollers.
LEMMA RemoveFacts ==
    ASSUME PInv, NEW c \in Channels, RemoveChannel(c)
    PROVE  /\ c \in Registered /\ events_[c] = {}
           /\ life' = [life EXCEPT ![c] = "removed"]
           /\ lapsed' = lapsed \ {c}
           /\ UNCHANGED <<usePoll, fd_, events_, eventListSize, phase, activeChannels_>>
           /\ IF usePoll THEN PollRemove(c) ELSE EPollRemove(c)
           /\ Registered' = Registered \ {c} /\ InUse' = InUse \ {c}
           /\ \A d \in Channels : d # c => life'[d] = life[d]
           /\ life'[c] = "removed"
           /\ fd_[c] \in Fds /\ index_ \in [Channels -> Int]
<1>1. c \in Registered /\ events_[c] = {}
  BY DEF RemoveChannel, Registered
<1>2. /\ life' = [life EXCEPT ![c] = "removed"] /\ lapsed' = lapsed \ {c}
      /\ UNCHANGED <<usePoll, fd_, events_, eventListSize, phase, activeChannels_>>
      /\ IF usePoll THEN PollRemove(c) ELSE EPollRemove(c)
  BY <1>1, RemoveAssertsHold DEF RemoveChannel
<1>3. fd_[c] \in Fds /\ index_ \in [Channels -> Int]
      /\ life \in [Channels -> {"none", "fresh", "registered", "removed"}]
  BY DEF PInv, PollerTypeOK
<1>4. (\A d \in Channels : d # c => life'[d] = life[d]) /\ life'[c] = "removed"
  BY <1>2, <1>3
<1>5. Registered' = Registered \ {c} /\ InUse' = InUse \ {c}
  BY <1>4 DEF Registered, InUse
<1> QED BY <1>1, <1>2, <1>3, <1>4, <1>5

\* The map and the rest after a removal that keeps the index of new channels.
LEMMA RemoveKeepsRest ==
    ASSUME PInv, NEW c \in Channels, RemoveChannel(c),
           channels_' = [channels_ EXCEPT ![fd_[c]] = NoChannel],
           \A d \in Channels : life[d] = "fresh" => index_'[d] = index_[d]
    PROVE  MapOK' /\ ActiveOK'
<1>1. /\ Registered' = Registered \ {c} /\ InUse' = InUse \ {c} /\ c \in Registered
      /\ \A d \in Channels : d # c => life'[d] = life[d]
      /\ life'[c] = "removed" /\ fd_[c] \in Fds
      /\ UNCHANGED <<fd_, events_, phase, activeChannels_>>
  BY RemoveFacts
<1>2. \A f \in Fds : channels_'[f] = IF f = fd_[c] THEN NoChannel ELSE channels_[f]
  BY <1>1 DEF PInv, PollerTypeOK
<1>3. MapOK'
  <2>1. \A d, e \in InUse' : fd_'[d] = fd_'[e] => d = e
    BY <1>1 DEF PInv, MapOK
  <2>2. ASSUME NEW d \in Registered' PROVE channels_'[fd_'[d]] = d
    <3>1. d \in Registered /\ d # c /\ d \in InUse /\ c \in InUse /\ fd_[d] \in Fds
      BY <1>1 DEF Registered, InUse, PInv, PollerTypeOK
    <3>2. fd_[d] # fd_[c]
      BY <3>1 DEF PInv, MapOK
    <3> QED BY <1>1, <1>2, <3>1, <3>2 DEF PInv, MapOK
  <2>3. ASSUME NEW f \in Fds, channels_'[f] # NoChannel
        PROVE  channels_'[f] \in Registered' /\ fd_'[channels_'[f]] = f
    <3>1. f # fd_[c] /\ channels_'[f] = channels_[f]
      BY <1>2, <2>3
    <3>2. channels_[f] \in Registered /\ fd_[channels_[f]] = f
      BY <2>3, <3>1 DEF PInv, MapOK
    <3> QED BY <1>1, <3>1, <3>2
  <2>4. \A d \in Channels : life'[d] = "fresh" => index_'[d] = kNew /\ events_'[d] = {}
    BY <1>1 DEF PInv, MapOK
  <2> QED BY <2>1, <2>2, <2>3, <2>4 DEF MapOK
<1>4. ActiveOK'
  <2>1. \A i \in DOMAIN activeChannels_ : activeChannels_[i] \in Channels
    BY DEF PInv, PollerTypeOK
  \* Only the current channel is removed while handlers are still to come.
  <2>2. ASSUME NEW i \in DOMAIN activeChannels_, i > 1 PROVE activeChannels_[i] # c
    <3>1. activeChannels_ # <<>> /\ 1 \in DOMAIN activeChannels_ /\ i # 1
      BY <2>2 DEF PInv, PollerTypeOK
    <3>2. activeChannels_[1] = c
      BY <3>1 DEF PInv, ActiveOK, RemoveChannel
    <3> QED BY <3>1, <3>2 DEF PInv, ActiveOK
  <2> QED BY <1>1, <2>1, <2>2 DEF PInv, ActiveOK
<1> QED BY <1>3, <1>4

LEMMA InvEPollRemove ==
    ASSUME PInv, ~usePoll, NEW c \in Channels, RemoveChannel(c) PROVE PInv'
<1>1. /\ c \in Registered
      /\ life' = [life EXCEPT ![c] = "removed"] /\ lapsed' = lapsed \ {c}
      /\ UNCHANGED <<usePoll, fd_, events_, eventListSize, phase, activeChannels_>>
      /\ Registered' = Registered \ {c} /\ fd_[c] \in Fds /\ index_ \in [Channels -> Int]
  BY RemoveFacts
<1>2. EPollRemove(c)
  BY RemoveFacts
<1>3. /\ channels_' = [channels_ EXCEPT ![fd_[c]] = NoChannel]
      /\ index_' = [index_ EXCEPT ![c] = kNew] /\ pollfds_' = pollfds_
  BY <1>2 DEF EPollRemove
<1>4. epollfd_ \in [Fds -> [ptr : Channels \cup {NoChannel}, events : SUBSET Events]]
      /\ NoEntry \in [ptr : Channels \cup {NoChannel}, events : SUBSET Events]
  BY DEF PInv, PollerTypeOK, NoEntry
<1>5. /\ epollfd_' = [epollfd_ EXCEPT ![fd_[c]] = NoEntry] /\ aborted' = FALSE
  <2>1. CASE index_[c] = kAdded
    BY <1>2, <2>1 DEF EPollRemove, EpollCtl
  <2>2. CASE index_[c] # kAdded
    <3>1. epollfd_[fd_[c]] = NoEntry
      BY <1>1, <2>2 DEF PInv, EPollOK
    <3>2. UNCHANGED <<epollfd_, aborted>>
      BY <1>2, <2>2 DEF EPollRemove
    <3>3. aborted \in BOOLEAN /\ ~aborted
      BY DEF PInv, PollerTypeOK
    <3> QED BY <1>1, <1>4, <3>1, <3>2, <3>3
  <2> QED BY <2>1, <2>2
<1>6. /\ index_' \in [Channels -> Int] /\ \A d \in Channels : d # c => index_'[d] = index_[d]
      /\ epollfd_' \in [Fds -> [ptr : Channels \cup {NoChannel}, events : SUBSET Events]]
      /\ \A f \in Fds : epollfd_'[f] = IF f = fd_[c] THEN NoEntry ELSE epollfd_[f]
      /\ channels_' \in [Fds -> Channels \cup {NoChannel}]
      /\ \A f \in Fds : channels_'[f] = IF f = fd_[c] THEN NoChannel ELSE channels_[f]
  BY <1>1, <1>3, <1>4, <1>5 DEF kNew, PInv, PollerTypeOK
<1>7. PollerTypeOK'
  BY <1>1, <1>3, <1>5, <1>6 DEF PInv, PollerTypeOK
<1>8. MapOK' /\ ActiveOK'
  <2>1. \A d \in Channels : life[d] = "fresh" => index_'[d] = index_[d]
    BY <1>1, <1>6 DEF Registered
  <2> QED BY <1>3, <2>1, RemoveKeepsRest
<1>9. EPollOK'
  <2>1. ASSUME NEW d \in Registered'
        PROVE  \/ index_'[d] = kAdded /\ epollfd_'[fd_'[d]] = [ptr |-> d, events |-> events_'[d]]
               \/ index_'[d] = kDeleted /\ epollfd_'[fd_'[d]] = NoEntry /\ events_'[d] = {}
    <3>1. d \in Registered /\ d # c /\ d \in Channels /\ fd_[d] \in Fds /\ fd_[d] # fd_[c]
      BY <1>1 DEF PInv, MapOK, PollerTypeOK, Registered, InUse
    <3> QED BY <1>1, <1>6, <3>1 DEF PInv, EPollOK
  <2>2. \A f \in Fds : channels_'[f] = NoChannel => epollfd_'[f] = NoEntry
    BY <1>6 DEF PInv, EPollOK
  <2> QED BY <1>3, <2>1, <2>2 DEF EPollOK, PInv
<1> QED BY <1>1, <1>5, <1>7, <1>8, <1>9 DEF PInv

\* q when its last entry takes the place of entry p.
LastTakes(q, p) == Front([q EXCEPT ![p] = Last(q)])

LEMMA EntryTaken ==
    ASSUME NEW q \in Seq(Entries), NEW p \in DOMAIN q
    PROVE  /\ LastTakes(q, p) \in Seq(Entries) /\ Len(LastTakes(q, p)) = Len(q) - 1
           /\ DOMAIN LastTakes(q, p) = 1 .. Len(q) - 1
           /\ \A i \in 1 .. Len(q) - 1 : LastTakes(q, p)[i] = IF i = p THEN q[Len(q)] ELSE q[i]
<1> DEFINE t == [q EXCEPT ![p] = q[Len(q)]]
<1>1. p \in 1 .. Len(q) /\ Len(q) \in Nat /\ q[Len(q)] \in Entries
  OBVIOUS
<1>2. /\ t \in Seq(Entries) /\ Len(t) = Len(q)
      /\ \A i \in 1 .. Len(q) : t[i] = IF i = p THEN q[Len(q)] ELSE q[i]
  BY <1>1
<1> HIDE DEF t
<1>3. /\ SubSeq(t, 1, Len(t) - 1) \in Seq(Entries)
      /\ Len(SubSeq(t, 1, Len(t) - 1)) = Len(q) - 1
      /\ \A i \in 1 .. Len(q) - 1 : SubSeq(t, 1, Len(t) - 1)[i] = t[i]
  BY <1>1, <1>2
<1>4. LastTakes(q, p) = SubSeq(t, 1, Len(t) - 1)
  BY DEF LastTakes, Front, Last, t
<1> QED BY <1>1, <1>2, <1>3, <1>4

LEMMA InvPollRemove ==
    ASSUME PInv, usePoll, NEW c \in Channels, RemoveChannel(c) PROVE PInv'
<1> DEFINE n == Len(pollfds_)
           p == index_[c] + 1
<1>1. /\ c \in Registered
      /\ life' = [life EXCEPT ![c] = "removed"] /\ lapsed' = lapsed \ {c}
      /\ UNCHANGED <<usePoll, fd_, events_, eventListSize, phase, activeChannels_>>
      /\ Registered' = Registered \ {c} /\ fd_[c] \in Fds /\ index_ \in [Channels -> Int]
  BY RemoveFacts
<1>2. PollRemove(c)
  BY RemoveFacts
<1>3. pollfds_ \in Seq(Entries) /\ n \in Nat /\ DOMAIN pollfds_ = 1 .. n
  BY DEF PInv, PollerTypeOK, Entries
\* Every registered channel has a place of its own.
<1>4. ASSUME NEW d \in Registered
      PROVE  /\ d \in Channels /\ fd_[d] \in Nat /\ HasEntry(d)
             /\ index_[d] + 1 \in 1 .. n /\ Pfd(d) = pollfds_[index_[d] + 1]
             /\ index_[d] \in Nat
  <2>1. HasEntry(d) /\ d \in Channels /\ fd_[d] \in Nat
    BY PollerAssumption DEF PInv, PollOK, PollerTypeOK, Registered
  <2> QED BY <1>3, <2>1, EntryPlace DEF HasEntry, Pfd
<1>5. p \in 1 .. n
  BY <1>1, <1>4
<1>6. PICK w \in Registered : index_[w] = n - 1
  <2>1. n \in DOMAIN pollfds_
    BY <1>3, <1>5
  <2> QED BY <2>1 DEF PInv, PollOK
<1>7. /\ pollfds_' \in Seq(Entries) /\ Len(pollfds_') = n - 1 /\ DOMAIN pollfds_' = 1 .. n - 1
      /\ \A i \in 1 .. n - 1 : pollfds_'[i] = IF i = p THEN pollfds_[n] ELSE pollfds_[i]
  <2>1. pollfds_' = LastTakes(pollfds_, p)
    BY <1>2 DEF PollRemove, LastTakes
  <2>2. p \in DOMAIN pollfds_
    BY <1>3, <1>5
  <2> HIDE DEF p
  <2> QED BY <1>3, <2>1, <2>2, EntryTaken
<1>8. /\ channels_' = [channels_ EXCEPT ![fd_[c]] = NoChannel] /\ UNCHANGED <<epollfd_, aborted>>
  BY <1>2 DEF PollRemove
\* The moved entry names the channel at the end, marked or not.
<1>9. index_' = IF w = c THEN index_ ELSE [index_ EXCEPT ![w] = index_[c]]
  <2>1. index_[c] = n - 1 <=> w = c
    BY <1>1, <1>6, IndexUnique
  <2>2. pollfds_[n].fd \in {fd_[w], -fd_[w] - 1} /\ fd_[w] \in Nat
    <3>1. Pfd(w) = pollfds_[n]
      BY <1>3, <1>4, <1>6
    <3> QED BY <1>4, <3>1 DEF HasEntry, Ignored
  <2>3. \A f \in Nat : \A x : x \in {f, -f - 1} => (IF x < 0 THEN -x - 1 ELSE x) = f
    OBVIOUS
  <2>4. (IF Last(pollfds_).fd < 0 THEN Ignored(Last(pollfds_).fd) ELSE Last(pollfds_).fd) = fd_[w]
    BY <2>2, <2>3 DEF Last, Ignored
  <2>5. channels_[fd_[w]] = w
    BY DEF PInv, MapOK
  <2> QED BY <1>2, <2>1, <2>4, <2>5 DEF PollRemove
<1>10. index_' \in [Channels -> Int] /\ \A d \in Channels : d # w => index_'[d] = index_[d]
  BY <1>1, <1>9
<1> HIDE DEF n, p
\* ... so that every other channel is at its index again.
<1>11. ASSUME NEW d \in Registered, d # c
       PROVE  /\ index_'[d] \in 0 .. n - 2
              /\ pollfds_'[index_'[d] + 1] = Pfd(d)
  <2>1. /\ index_[d] \in Nat /\ index_[d] + 1 \in 1 .. n /\ Pfd(d) = pollfds_[index_[d] + 1]
        /\ index_[d] # index_[c] /\ index_[c] \in Nat
    BY <1>1, <1>4, <1>11, IndexUnique
  <2>2. CASE d = w
    <3>1. index_'[d] = index_[c] /\ index_[d] = n - 1
      BY <1>1, <1>6, <1>9, <1>11, <2>2 DEF Registered
    <3>2. index_[c] \in 0 .. n - 2 /\ index_[c] + 1 \in 1 .. n - 1 /\ index_[d] + 1 = n
      BY <1>3, <1>5, <2>1, <3>1 DEF p, n
    <3> QED BY <1>7, <2>1, <3>1, <3>2 DEF p
  <2>3. CASE d # w
    <3>1. index_'[d] = index_[d] /\ index_[d] # n - 1
      BY <1>4, <1>6, <1>10, <2>3, IndexUnique
    <3>2. index_[d] \in 0 .. n - 2 /\ index_[d] + 1 \in 1 .. n - 1 /\ index_[d] + 1 # p
      BY <1>3, <2>1, <3>1 DEF p, n
    <3> QED BY <1>7, <2>1, <3>1, <3>2
  <2> QED BY <2>2, <2>3
<1>12. PollerTypeOK'
  <2>1. channels_' \in [Fds -> Channels \cup {NoChannel}]
    BY <1>1, <1>8 DEF PInv, PollerTypeOK
  <2> QED BY <1>1, <1>7, <1>8, <1>10, <2>1 DEF PInv, PollerTypeOK, Entries
<1>13. MapOK' /\ ActiveOK'
  <2>1. \A d \in Channels : life[d] = "fresh" => index_'[d] = index_[d]
    BY <1>6, <1>10 DEF Registered
  <2> QED BY <1>8, <2>1, RemoveKeepsRest
<1>14. PollOK'
  <2>1. ASSUME NEW d \in Registered' PROVE HasEntry(d)'
    <3>1. d \in Registered /\ d # c /\ HasEntry(d) /\ (d \in lapsed' <=> d \in lapsed)
      BY <1>1, <1>4
    <3>2. InPollfds(d)' /\ Pfd(d)' = Pfd(d)
      <4>1. index_'[d] \in 0 .. (n - 1) - 1
        BY <1>3, <1>11, <3>1 DEF n
      <4> QED BY <1>7, <1>11, <3>1, <4>1 DEF InPollfds, Pfd
    <3> QED BY <1>1, <3>1, <3>2 DEF HasEntry, Ignored
  <2>2. ASSUME NEW i \in DOMAIN pollfds_' PROVE \E d \in Registered' : index_'[d] = i - 1
    <3>1. i \in 1 .. n - 1 /\ i \in DOMAIN pollfds_
      BY <1>3, <1>7, <2>2 DEF n
    <3>2. CASE i = p
      <4>1. index_[c] = i - 1 /\ i - 1 # n - 1
        BY <1>1, <1>3, <1>4, <3>1, <3>2 DEF p, n
      <4>2. w # c /\ index_'[w] = i - 1
        BY <1>6, <1>9, <1>10, <1>1, <4>1 DEF Registered
      <4> QED BY <1>1, <4>2
    <3>3. CASE i # p
      <4>1. PICK d \in Registered : index_[d] = i - 1
        BY <3>1 DEF PInv, PollOK
      <4>2. index_[d] # n - 1 /\ index_[d] # index_[c]
        BY <1>1, <1>3, <1>4, <3>1, <3>3, <4>1 DEF p, n
      <4>3. d # w /\ d # c /\ d \in Channels
        BY <1>6, <4>2 DEF Registered
      <4> QED BY <1>1, <1>10, <4>1, <4>3
    <3> QED BY <3>2, <3>3
  <2> QED BY <1>8, <2>1, <2>2 DEF PollOK, PInv
<1> QED BY <1>1, <1>8, <1>12, <1>13, <1>14 DEF PInv

LEMMA InvRemoveChannel == ASSUME PInv, NEW c \in Channels, RemoveChannel(c) PROVE PInv'
  BY InvEPollRemove, InvPollRemove

-----------------------------------------------------------------------------
(* The other actions                                                       *)

LEMMA InvEnable ==
    ASSUME PInv, NEW c \in Channels, NEW e \in Events, Enable(c, e) PROVE PInv'
<1>1. c \in InUse /\ Update(c, events_[c] \cup {e})
  BY DEF Enable, InUse
<1>2. events_[c] \cup {e} \in SUBSET Events /\ events_[c] \cup {e} # {}
  BY DEF PInv, PollerTypeOK
<1> QED BY <1>1, <1>2, InvUpdate

LEMMA InvDisableWriting == ASSUME PInv, NEW c \in Channels, DisableWriting(c) PROVE PInv'
<1>1. c \in InUse /\ c \in Registered /\ Update(c, events_[c] \ {"write"})
  BY DEF DisableWriting, InUse, Registered
<1>2. events_[c] \ {"write"} \in SUBSET Events
  BY DEF PInv, PollerTypeOK
<1> QED BY <1>1, <1>2, InvUpdate

LEMMA InvDisableAll == ASSUME PInv, NEW c \in Channels, DisableAll(c) PROVE PInv'
<1>1. c \in InUse /\ (usePoll => c \in Registered) /\ Update(c, {})
  BY DEF DisableAll, InUse, Registered
<1> QED BY <1>1, InvUpdate

\* A change of a channel that is not registered leaves the books of the pollers.
LEMMA InvUnregistered ==
    ASSUME PInv, NEW c \in Channels, life[c] # "registered",
           life' \in [Channels -> {"none", "fresh", "registered", "removed"}],
           life'[c] # "registered",
           fd_' \in [Channels -> Fds], events_' \in [Channels -> SUBSET Events],
           index_' \in [Channels -> Int],
           \A d \in Channels : d # c => /\ life'[d] = life[d] /\ fd_'[d] = fd_[d]
                                        /\ events_'[d] = events_[d] /\ index_'[d] = index_[d],
           life'[c] = "fresh" => /\ index_'[c] = kNew /\ events_'[c] = {}
                                 /\ \A d \in InUse : d # c => fd_[d] # fd_'[c],
           UNCHANGED <<usePoll, channels_, epollfd_, eventListSize, pollfds_, lapsed, phase,
                       activeChannels_, aborted>>
    PROVE  PInv'
<1>1. /\ Registered' = Registered /\ \A d \in Registered : d # c /\ d \in Channels
      /\ \A d \in InUse' : d = c \/ d \in InUse
      /\ c \in InUse' => life'[c] = "fresh"
  BY DEF Registered, InUse
<1>2. PollerTypeOK'
  BY DEF PInv, PollerTypeOK
<1>3. MapOK'
  <2>1. ASSUME NEW d \in InUse', NEW e \in InUse', fd_'[d] = fd_'[e] PROVE d = e
    BY <1>1, <2>1 DEF PInv, MapOK, InUse
  <2>2. \A d \in Registered' : channels_'[fd_'[d]] = d
    BY <1>1 DEF PInv, MapOK
  <2>3. \A f \in Fds : channels_'[f] # NoChannel =>
           channels_'[f] \in Registered' /\ fd_'[channels_'[f]] = f
    BY <1>1 DEF PInv, MapOK
  <2>4. \A d \in Channels : life'[d] = "fresh" => index_'[d] = kNew /\ events_'[d] = {}
    BY DEF PInv, MapOK
  <2> QED BY <2>1, <2>2, <2>3, <2>4 DEF MapOK
<1>4. ASSUME usePoll PROVE PollOK'
  <2>1. ASSUME NEW d \in Registered PROVE HasEntry(d)'
    BY <1>1, <1>4 DEF PInv, PollOK, HasEntry, InPollfds, Pfd, Ignored
  <2>2. \A i \in DOMAIN pollfds_' : \E d \in Registered' : index_'[d] = i - 1
    BY <1>1, <1>4 DEF PInv, PollOK
  <2> QED BY <1>1, <1>4, <2>1, <2>2 DEF PInv, PollOK
<1>5. ASSUME ~usePoll PROVE EPollOK'
  <2>1. EPollOK /\ pollfds_' = pollfds_ /\ epollfd_' = epollfd_ /\ channels_' = channels_
    BY <1>5 DEF PInv
  <2>2. \A d \in Registered : index_'[d] = index_[d] /\ fd_'[d] = fd_[d] /\ events_'[d] = events_[d]
    BY <1>1
  <2> QED BY <1>1, <2>1, <2>2 DEF EPollOK
<1>6. ActiveOK'
  <2>1. \A i \in DOMAIN activeChannels_ : activeChannels_[i] \in Channels
    BY DEF PInv, PollerTypeOK
  <2>2. \A i \in DOMAIN activeChannels_ : i > 1 => activeChannels_[i] # c
    BY DEF PInv, ActiveOK
  <2> QED BY <2>1, <2>2 DEF PInv, ActiveOK
<1> QED BY <1>2, <1>3, <1>4, <1>5, <1>6 DEF PInv

LEMMA InvNewChannel ==
    ASSUME PInv, NEW c \in Channels, NEW f \in Fds, NewChannel(c, f) PROVE PInv'
<1>1. /\ life \in [Channels -> {"none", "fresh", "registered", "removed"}]
      /\ fd_ \in [Channels -> Fds] /\ events_ \in [Channels -> SUBSET Events]
      /\ index_ \in [Channels -> Int] /\ kNew \in Int
  BY DEF PInv, PollerTypeOK, kNew
<1>2. /\ life[c] = "none" /\ life' = [life EXCEPT ![c] = "fresh"] /\ fd_' = [fd_ EXCEPT ![c] = f]
      /\ events_' = [events_ EXCEPT ![c] = {}] /\ index_' = [index_ EXCEPT ![c] = kNew]
      /\ \A d \in InUse : fd_[d] # f
      /\ UNCHANGED <<usePoll, channels_, epollfd_, eventListSize, pollfds_, lapsed, phase,
                     activeChannels_, aborted>>
  BY DEF NewChannel, InUse
<1>3. /\ life' \in [Channels -> {"none", "fresh", "registered", "removed"}] /\ life'[c] = "fresh"
      /\ fd_' \in [Channels -> Fds] /\ events_' \in [Channels -> SUBSET Events]
      /\ index_' \in [Channels -> Int] /\ index_'[c] = kNew /\ events_'[c] = {} /\ fd_'[c] = f
      /\ \A d \in Channels : d # c => /\ life'[d] = life[d] /\ fd_'[d] = fd_[d]
                                      /\ events_'[d] = events_[d] /\ index_'[d] = index_[d]
  BY <1>1, <1>2
<1> QED BY <1>2, <1>3, InvUnregistered

LEMMA InvDestroy == ASSUME PInv, NEW c \in Channels, Destroy(c) PROVE PInv'
<1>1. /\ life \in [Channels -> {"none", "fresh", "registered", "removed"}]
      /\ fd_ \in [Channels -> Fds] /\ events_ \in [Channels -> SUBSET Events]
      /\ index_ \in [Channels -> Int] /\ kNew \in Int
  BY DEF PInv, PollerTypeOK, kNew
<1>2. AnyFd \in Fds
  BY PollerAssumption DEF AnyFd
<1>3. /\ life[c] # "registered"
      /\ life' = [life EXCEPT ![c] = "none"] /\ fd_' = [fd_ EXCEPT ![c] = AnyFd]
      /\ index_' = [index_ EXCEPT ![c] = kNew]
      /\ UNCHANGED <<usePoll, events_, channels_, epollfd_, eventListSize, pollfds_, lapsed,
                     phase, activeChannels_, aborted>>
  BY DEF Destroy
<1>4. /\ life' \in [Channels -> {"none", "fresh", "registered", "removed"}] /\ life'[c] = "none"
      /\ fd_' \in [Channels -> Fds] /\ index_' \in [Channels -> Int]
      /\ \A d \in Channels : d # c => /\ life'[d] = life[d] /\ fd_'[d] = fd_[d]
                                      /\ events_'[d] = events_[d] /\ index_'[d] = index_[d]
  BY <1>1, <1>2, <1>3
<1> QED BY <1>1, <1>3, <1>4, InvUnregistered

\* What epoll_wait() and poll() report are registered channels.
LEMMA EPollReports ==
    ASSUME PInv, EPollWait
    PROVE  /\ activeChannels_' \in Seq(Channels)
           /\ \A i \in DOMAIN activeChannels_' : life[activeChannels_'[i]] = "registered"
           /\ \A i, j \in DOMAIN activeChannels_' : activeChannels_'[i] = activeChannels_'[j] => i = j
           /\ eventListSize' \in Nat \ {0}
<1>1. ~usePoll
  BY DEF EPollWait
<1>2. PICK ready \in SUBSET {f \in Fds : epollfd_[f] # NoEntry} :
        /\ \E order \in SetToSeqs({epollfd_[f].ptr : f \in ready}) : activeChannels_' = order
        /\ eventListSize' = IF Cardinality(ready) = eventListSize
                            THEN 2 * eventListSize ELSE eventListSize
  BY DEF EPollWait
<1> DEFINE P == {epollfd_[f].ptr : f \in ready}
<1>3. \A f \in ready : epollfd_[f].ptr \in Registered
  BY <1>1, EntriesAreRegistered
<1>4. P \subseteq Registered /\ Registered \subseteq Channels
  BY <1>3 DEF Registered
<1>5. IsFiniteSet(P)
  <2>1. IsFiniteSet(ready)
    BY PollerAssumption, FS_Subset
  <2> DEFINE g == [f \in ready |-> epollfd_[f].ptr]
  <2>2. g \in Surjection(ready, P)
    BY DEF Surjection
  <2> HIDE DEF g, P
  <2> QED BY <2>1, <2>2, FS_Surjection
<1>6. Cardinality(P) \in Nat
  BY <1>5, FS_CardinalityType
<1> HIDE DEF P
<1>7. /\ activeChannels_' \in [1 .. Cardinality(P) -> P]
      /\ \A i, j \in 1 .. Cardinality(P) : i # j => activeChannels_'[i] # activeChannels_'[j]
  BY <1>2 DEF SetToSeqs, P
<1>8. activeChannels_' \in Seq(Channels)
  BY <1>4, <1>6, <1>7
<1>9. \A i \in DOMAIN activeChannels_' : life[activeChannels_'[i]] = "registered"
  BY <1>4, <1>7 DEF Registered
<1>10. eventListSize' \in Nat \ {0}
  <2>1. \A m \in Nat \ {0} : 2 * m \in Nat \ {0}
    OBVIOUS
  <2>2. eventListSize \in Nat \ {0}
    BY DEF PInv, PollerTypeOK
  <2> QED BY <1>2, <2>1, <2>2
<1> QED BY <1>7, <1>8, <1>9, <1>10

LEMMA PollReports ==
    ASSUME PInv, PollWait
    PROVE  /\ activeChannels_' \in Seq(Channels)
           /\ \A i \in DOMAIN activeChannels_' : life[activeChannels_'[i]] = "registered"
           /\ \A i, j \in DOMAIN activeChannels_' : activeChannels_'[i] = activeChannels_'[j] => i = j
           /\ eventListSize' \in Nat \ {0}
<1>1. usePoll /\ eventListSize' = eventListSize
  BY DEF PollWait
<1>0. PICK ready \in SUBSET {i \in DOMAIN pollfds_ : pollfds_[i].fd >= 0} :
        \E order \in SetToSeqs(ready) :
          activeChannels_' = [k \in DOMAIN order |-> channels_[pollfds_[order[k]].fd]]
  BY DEF PollWait
<1>2. PICK order \in SetToSeqs(ready) :
        activeChannels_' = [k \in DOMAIN order |-> channels_[pollfds_[order[k]].fd]]
  BY <1>0
<1>3. \A i \in ready : /\ channels_[pollfds_[i].fd] \in Registered
                        /\ index_[channels_[pollfds_[i].fd]] = i - 1
  BY <1>1, PlacesAreRegistered
<1>4. IsFiniteSet(ready) /\ Cardinality(ready) \in Nat
  <2>1. pollfds_ \in Seq([fd : Int, events : SUBSET Events])
    BY DEF PInv, PollerTypeOK
  <2>2. ready \subseteq 1 .. Len(pollfds_) /\ Len(pollfds_) \in Nat
    BY <2>1
  <2>3. IsFiniteSet(1 .. Len(pollfds_))
    BY <2>2, FS_Interval
  <2>4. IsFiniteSet(ready)
    BY <2>2, <2>3, FS_Subset
  <2> QED BY <2>4, FS_CardinalityType
<1>5. /\ order \in [1 .. Cardinality(ready) -> ready]
      /\ \A i, j \in 1 .. Cardinality(ready) : i # j => order[i] # order[j]
  BY DEF SetToSeqs
<1>6. /\ DOMAIN activeChannels_' = 1 .. Cardinality(ready)
      /\ \A k \in 1 .. Cardinality(ready) : activeChannels_'[k] \in Registered
      /\ activeChannels_' = [k \in 1 .. Cardinality(ready) |-> activeChannels_'[k]]
  BY <1>2, <1>3, <1>5
<1>7. activeChannels_' \in Seq(Channels)
  BY <1>4, <1>6 DEF Registered
<1>8. eventListSize' \in Nat \ {0}
  BY <1>1 DEF PInv, PollerTypeOK
\* Two entries are of two channels, for their indexes differ.
<1>9. ASSUME NEW i \in 1 .. Cardinality(ready), NEW j \in 1 .. Cardinality(ready),
             activeChannels_'[i] = activeChannels_'[j]
      PROVE  i = j
  <2>1. order[i] - 1 = order[j] - 1 /\ order[i] \in Nat /\ order[j] \in Nat
    <3>1. order[i] \in ready /\ order[j] \in ready
      BY <1>5
    <3>2. /\ activeChannels_'[i] = channels_[pollfds_[order[i]].fd]
          /\ activeChannels_'[j] = channels_[pollfds_[order[j]].fd]
      BY <1>2, <1>5
    <3>3. ready \subseteq Nat
      BY DEF PInv, PollerTypeOK
    <3> QED BY <1>3, <1>9, <3>1, <3>2, <3>3
  <2>2. order[i] = order[j]
    BY <2>1
  <2> QED BY <1>5, <2>2
<1> QED BY <1>6, <1>7, <1>8, <1>9 DEF Registered

LEMMA InvPoll == ASSUME PInv, Poll PROVE PInv'
<1>1. /\ phase' = "handle"
      /\ UNCHANGED <<usePoll, life, fd_, events_, index_, channels_, epollfd_, pollfds_,
                     lapsed, aborted>>
  BY DEF Poll
<1>2. /\ activeChannels_' \in Seq(Channels)
      /\ \A i \in DOMAIN activeChannels_' : life[activeChannels_'[i]] = "registered"
      /\ \A i, j \in DOMAIN activeChannels_' : activeChannels_'[i] = activeChannels_'[j] => i = j
      /\ eventListSize' \in Nat \ {0}
  BY EPollReports, PollReports DEF Poll
<1>3. PollerTypeOK'
  BY <1>1, <1>2 DEF PInv, PollerTypeOK
<1>4. ActiveOK'
  BY <1>1, <1>2 DEF ActiveOK
<1> QED BY <1>1, <1>3, <1>4, BooksKept DEF PInv

LEMMA InvHandleEventReturn == ASSUME PInv, HandleEventReturn PROVE PInv'
<1>1. /\ phase = "handle"
      /\ UNCHANGED <<usePoll, life, fd_, events_, index_, channels_, epollfd_, eventListSize,
                     pollfds_, lapsed, aborted>>
  BY DEF HandleEventReturn
<1>2. activeChannels_ \in Seq(Channels)
  BY DEF PInv, PollerTypeOK
<1>3. PollerTypeOK' /\ ActiveOK'
  <2>1. CASE activeChannels_ = <<>>
    BY <1>1, <2>1 DEF HandleEventReturn, PInv, PollerTypeOK, ActiveOK
  <2>2. CASE activeChannels_ # <<>>
    <3>1. activeChannels_' = Tail(activeChannels_) /\ phase' = "handle"
      BY <1>1, <2>2 DEF HandleEventReturn
    <3>2. /\ activeChannels_' \in Seq(Channels)
          /\ \A i \in DOMAIN activeChannels_' :
                i + 1 \in DOMAIN activeChannels_ /\ activeChannels_'[i] = activeChannels_[i + 1]
      BY <1>2, <2>2, <3>1
    <3>3. DOMAIN activeChannels_' \subseteq Nat \ {0}
      BY <3>2
    <3>4. ActiveOK'
      <4>1. \A i \in DOMAIN activeChannels_' : i > 1 => life'[activeChannels_'[i]] = "registered"
        <5>1. \A i \in DOMAIN activeChannels_' : i + 1 > 1
          BY <3>3
        <5> QED BY <1>1, <3>2, <5>1 DEF PInv, ActiveOK
      <4>2. ASSUME NEW i \in DOMAIN activeChannels_', NEW j \in DOMAIN activeChannels_',
                   activeChannels_'[i] = activeChannels_'[j]
            PROVE  i = j
        <5>1. i + 1 = j + 1
          BY <3>2, <4>2 DEF PInv, ActiveOK
        <5> QED BY <3>3, <5>1
      <4> QED BY <3>1, <4>1, <4>2 DEF ActiveOK
    <3> QED BY <1>1, <3>1, <3>2, <3>4 DEF PInv, PollerTypeOK
  <2> QED BY <2>1, <2>2
<1> QED BY <1>1, <1>3, BooksKept DEF PInv

LEMMA InvFunctorsDone == ASSUME PInv, FunctorsDone PROVE PInv'
<1>1. /\ phase = "functors" /\ phase' = "poll"
      /\ UNCHANGED <<usePoll, life, fd_, events_, index_, channels_, epollfd_, eventListSize,
                     pollfds_, lapsed, activeChannels_, aborted>>
  BY DEF FunctorsDone
<1>2. PollerTypeOK' /\ ActiveOK'
  BY <1>1 DEF PInv, PollerTypeOK, ActiveOK
<1> QED BY <1>1, <1>2, BooksKept DEF PInv

-----------------------------------------------------------------------------
(* The theorems                                                            *)

LEMMA InvInit == ASSUME PollerInit PROVE PInv
<1>1. AnyFd \in Fds
  BY PollerAssumption DEF AnyFd
<1>2. PollerTypeOK
  <2>1. NoEntry \in [ptr : Channels \cup {NoChannel}, events : SUBSET Events]
    BY DEF NoEntry
  <2>2. kNew \in Int /\ eventListSize \in Nat \ {0}
    BY PollerAssumption DEF kNew, PollerInit
  <2>3. /\ channels_ \in [Fds -> Channels \cup {NoChannel}]
        /\ epollfd_ \in [Fds -> [ptr : Channels \cup {NoChannel}, events : SUBSET Events]]
    BY <2>1 DEF PollerInit
  <2>4. /\ life \in [Channels -> {"none", "fresh", "registered", "removed"}]
        /\ fd_ \in [Channels -> Fds] /\ events_ \in [Channels -> SUBSET Events]
        /\ index_ \in [Channels -> Int]
    BY <1>1, <2>2 DEF PollerInit
  <2>5. pollfds_ \in Seq([fd : Int, events : SUBSET Events]) /\ activeChannels_ \in Seq(Channels)
    BY DEF PollerInit
  <2> QED BY <2>2, <2>3, <2>4, <2>5 DEF PollerInit, PollerTypeOK
<1>3. Registered = {} /\ InUse = {} /\ \A c \in Channels : life[c] = "none"
  BY DEF PollerInit, Registered, InUse
<1>4. MapOK
  BY <1>3 DEF PollerInit, MapOK
<1>5. PollOK /\ EPollOK /\ ActiveOK
  BY <1>3 DEF PollerInit, PollOK, EPollOK, ActiveOK
<1> QED BY <1>2, <1>4, <1>5 DEF PInv, PollerInit

LEMMA InvNext == ASSUME PInv, [PollerNext]_pollVars PROVE PInv'
<1>1. CASE \E c \in Channels : \E f \in Fds : NewChannel(c, f)
  BY <1>1, InvNewChannel
<1>2. CASE \E c \in Channels : \E e \in Events : Enable(c, e)
  BY <1>2, InvEnable
<1>3. CASE \E c \in Channels : DisableWriting(c)
  BY <1>3, InvDisableWriting
<1>4. CASE \E c \in Channels : DisableAll(c)
  BY <1>4, InvDisableAll
<1>5. CASE \E c \in Channels : RemoveChannel(c)
  BY <1>5, InvRemoveChannel
<1>6. CASE \E c \in Channels : Destroy(c)
  BY <1>6, InvDestroy
<1>7. CASE Poll
  BY <1>7, InvPoll
<1>8. CASE HandleEventReturn
  BY <1>8, InvHandleEventReturn
<1>9. CASE FunctorsDone
  BY <1>9, InvFunctorsDone
<1>10. CASE UNCHANGED pollVars
  <2>1. PollerTypeOK' /\ ActiveOK'
    BY <1>10 DEF PInv, PollerTypeOK, ActiveOK, pollVars
  <2> QED BY <1>10, <2>1, BooksKept DEF PInv, pollVars
<1> QED BY <1>1, <1>2, <1>3, <1>4, <1>5, <1>6, <1>7, <1>8, <1>9, <1>10 DEF PollerNext

\* Whatever the users of the channels do, the map, the indexes and the kernel's
\* list or pollfds_ tell the same (EPollPoller.cc 101-182, PollPoller.cc 71-140).
THEOREM PollerInvariant == PollerSpec => []PInv
<1>1. PollerInit => PInv
  BY InvInit
<1>2. PInv /\ [PollerNext]_pollVars => PInv'
  BY InvNext
<1> QED BY <1>1, <1>2, PTL DEF PollerSpec

\* No assertion of updateChannel() and removeChannel() fails and epoll_ctl() is
\* not refused (EPollPoller.cc 112-152 and 179, PollPoller.cc 79-121), though
\* descriptors and the addresses of channels are reused.
THEOREM PollersNeverAbort == PollerSpec => []NeverAborts
<1>1. PInv => NeverAborts
  BY DEF PInv, NeverAborts
<1> QED BY <1>1, PollerInvariant, PTL

\* What a channel asks for is what is watched, under its own entry, also after
\* PollPoller::removeChannel() has moved entries (PollPoller.cc 111-140).
THEOREM WatchedTheorem == PollerSpec => []InterestIsWatched
<1>1. ASSUME PInv, NEW c \in Channels, life[c] = "registered"
      PROVE  /\ channels_[fd_[c]] = c
             /\ IF usePoll
                THEN /\ InPollfds(c)
                     /\ Pfd(c).events = events_[c]
                     /\ c \notin lapsed => Pfd(c).fd = fd_[c]
                ELSE IF events_[c] = {}
                     THEN epollfd_[fd_[c]].events = {}
                     ELSE epollfd_[fd_[c]] = [ptr |-> c, events |-> events_[c]]
  <2>1. c \in Registered
    BY <1>1 DEF Registered
  <2>2. channels_[fd_[c]] = c
    BY <1>1, <2>1 DEF PInv, MapOK
  <2>3. CASE usePoll
    BY <1>1, <2>1, <2>2, <2>3 DEF PInv, PollOK, HasEntry
  <2>4. CASE ~usePoll
    <3>1. CASE epollfd_[fd_[c]] = [ptr |-> c, events |-> events_[c]]
      BY <2>2, <2>4, <3>1
    <3>2. CASE epollfd_[fd_[c]] = NoEntry /\ events_[c] = {}
      BY <2>2, <2>4, <3>2 DEF NoEntry
    <3> QED BY <1>1, <2>1, <2>4, <3>1, <3>2 DEF PInv, EPollOK
  <2> QED BY <2>3, <2>4
<1>2. PInv => InterestIsWatched
  BY <1>1 DEF InterestIsWatched
<1> QED BY <1>2, PollerInvariant, PTL

\* poll() reports live channels only (EPollPoller.cc 83-99, PollPoller.cc 51-69),
\* and a channel stays registered until its handler is called (EventLoop.cc
\* 122-127), though owners delete channels in functors and inside handlers, the
\* channel's own included.
THEOREM AliveTheorem == PollerSpec => []ReportedIsAlive
<1>1. ASSUME PInv PROVE ReportedIsAlive
  <2>1. ASSUME NEW f \in Fds, epollfd_[f] # NoEntry
        PROVE  life[epollfd_[f].ptr] = "registered" /\ fd_[epollfd_[f].ptr] = f
    <3>1. ~usePoll
      BY <1>1, <2>1 DEF PInv, PollOK, PollerTypeOK
    <3> QED BY <1>1, <2>1, <3>1, EntriesAreRegistered DEF Registered
  <2>2. ASSUME NEW i \in DOMAIN pollfds_, pollfds_[i].fd >= 0
        PROVE  life[channels_[pollfds_[i].fd]] = "registered"
    <3>1. usePoll
      BY <1>1, <2>2 DEF PInv, EPollOK
    <3> QED BY <1>1, <2>2, <3>1, PlacesAreRegistered DEF Registered
  <2> QED BY <1>1, <2>1, <2>2 DEF ReportedIsAlive, PInv, ActiveOK
<1> QED BY <1>1, PollerInvariant, PTL

=============================================================================
