------------------------------- MODULE Poller -------------------------------
(***************************************************************************)
(* muduo's Channel, EPollPoller and PollPoller under one EventLoop: who is *)
(* registered, what the kernel watches, and the bookkeeping that leads     *)
(* from a ready descriptor back to the Channel object it belongs to.       *)
(*                                                                         *)
(* All of it runs in the loop's thread: poll(), then one handler per       *)
(* active channel, then the pending functors.  Handlers and functors are   *)
(* the users of the channels (TcpConnection, Connector, Acceptor, Hiredis, *)
(* TimerQueue, the wakeup descriptor); they make, enable, disable, remove  *)
(* and destroy channels in any order those classes can produce.            *)
(***************************************************************************)
EXTENDS Integers, Sequences, FiniteSets, SequencesExt

CONSTANTS
    Channels,               \* addresses of Channel objects, reused after delete
    Fds,                    \* descriptors, reused after close; 0 is one of them
    NoChannel,              \* no pointer
    kInitEventListSize      \* how many events the first epoll_wait can return

ASSUME PollerAssumption ==
    /\ Fds \subseteq Nat /\ IsFiniteSet(Fds) /\ Fds # {}
    /\ NoChannel \notin Channels
    /\ kInitEventListSize \in Nat \ {0}

VARIABLES
    usePoll,            \* MUDUO_USE_POLL was set when the loop was built
    life,               \* Channel -> "none", "fresh", "registered" or "removed"
    fd_,                \* Channel -> its descriptor
    events_,            \* Channel -> what it is interested in
    index_,             \* Channel -> EPollPoller's state or place in pollfds_
    channels_,          \* fd -> the channel registered for it
    epollfd_,           \* the kernel's interest list: fd -> entry
    eventListSize,      \* EPollPoller: events_.size()
    pollfds_,           \* PollPoller: the array passed to poll()
    lapsed,             \* channels that had no interest at some point while registered
    phase,              \* what the loop is doing: "poll", "handle" or "functors"
    activeChannels_,    \* the channels whose handlers are still to run, the current first
    aborted             \* an assertion or LOG_SYSFATAL of a poller was hit

pollVars == <<usePoll, life, fd_, events_, index_, channels_, epollfd_, eventListSize,
              pollfds_, lapsed, phase, activeChannels_, aborted>>
kernelVars == <<epollfd_, pollfds_, channels_, index_>>

kNew     == -1
kAdded   == 1
kDeleted == 2

Events == {"read", "write"}

NoEntry == [ptr |-> NoChannel, events |-> {}]

\* PollPoller marks an ignored entry by a negative fd that still names it.
Ignored(fd) == -fd - 1

\* The members of a Channel that does not exist.
AnyFd == CHOOSE f \in Fds : TRUE

PollerTypeOK ==
    /\ usePoll \in BOOLEAN
    /\ life \in [Channels -> {"none", "fresh", "registered", "removed"}]
    /\ fd_ \in [Channels -> Fds]
    /\ events_ \in [Channels -> SUBSET Events]
    /\ index_ \in [Channels -> Int]
    /\ channels_ \in [Fds -> Channels \cup {NoChannel}]
    /\ epollfd_ \in [Fds -> [ptr : Channels \cup {NoChannel}, events : SUBSET Events]]
    /\ eventListSize \in Nat \ {0}
    /\ pollfds_ \in Seq([fd : Int, events : SUBSET Events])
    /\ lapsed \subseteq Channels
    /\ phase \in {"poll", "handle", "functors"}
    /\ activeChannels_ \in Seq(Channels)
    /\ aborted \in BOOLEAN

PollerInit ==
    /\ usePoll \in BOOLEAN
    /\ life = [c \in Channels |-> "none"]
    /\ fd_ = [c \in Channels |-> AnyFd]
    /\ events_ = [c \in Channels |-> {}]
    /\ index_ = [c \in Channels |-> kNew]
    /\ channels_ = [f \in Fds |-> NoChannel]
    /\ epollfd_ = [f \in Fds |-> NoEntry]
    /\ eventListSize = kInitEventListSize
    /\ pollfds_ = <<>>
    /\ lapsed = {}
    /\ phase = "functors"
    /\ activeChannels_ = <<>>
    /\ aborted = FALSE

-----------------------------------------------------------------------------
(* The assertions at the head of updateChannel() and removeChannel()       *)

Pfd(c) == pollfds_[index_[c] + 1]

InPollfds(c) == index_[c] \in 0 .. Len(pollfds_) - 1

UpdateAsserts(c) ==
    IF (IF usePoll THEN index_[c] < 0 ELSE index_[c] = kNew)
    THEN channels_[fd_[c]] = NoChannel
    ELSE /\ channels_[fd_[c]] = c
         /\ usePoll => InPollfds(c) /\ Pfd(c).fd \in {fd_[c], Ignored(fd_[c])}

RemoveAsserts(c) ==
    /\ channels_[fd_[c]] = c
    /\ events_[c] = {}
    /\ IF usePoll
       THEN InPollfds(c) /\ Pfd(c) = [fd |-> Ignored(fd_[c]), events |-> events_[c]]
       ELSE index_[c] \in {kAdded, kDeleted}

-----------------------------------------------------------------------------
(* EPollPoller                                                             *)

\* update(): epoll_ctl.  ADD of a watched fd and MOD of an unwatched one fail,
\* and LOG_SYSFATAL aborts; a failing DEL is only logged.
EpollCtl(operation, c, ev) ==
    LET f == fd_[c] IN
    /\ epollfd_' = [epollfd_ EXCEPT ![f] =
            IF operation = "DEL" THEN NoEntry ELSE [ptr |-> c, events |-> ev]]
    /\ aborted' = \/ operation = "ADD" /\ epollfd_[f] # NoEntry
                  \/ operation = "MOD" /\ epollfd_[f] = NoEntry

EPollUpdate(c, ev) ==
    /\ channels_' = [channels_ EXCEPT ![fd_[c]] = c]
    /\ IF index_[c] \in {kNew, kDeleted}
       THEN /\ index_' = [index_ EXCEPT ![c] = kAdded]
            /\ EpollCtl("ADD", c, ev)
       ELSE /\ index_' = [index_ EXCEPT ![c] = IF ev = {} THEN kDeleted ELSE kAdded]
            /\ EpollCtl(IF ev = {} THEN "DEL" ELSE "MOD", c, ev)
    /\ UNCHANGED pollfds_

\* Mutant of EPollRemove: the entry is left in the kernel's interest list.
EPollRemoveKeepsEntry(c) ==
    /\ channels_' = [channels_ EXCEPT ![fd_[c]] = NoChannel]
    /\ index_' = [index_ EXCEPT ![c] = kNew]
    /\ UNCHANGED <<epollfd_, pollfds_, aborted>>

EPollRemove(c) ==
    /\ channels_' = [channels_ EXCEPT ![fd_[c]] = NoChannel]
    /\ IF index_[c] = kAdded THEN EpollCtl("DEL", c, {}) ELSE UNCHANGED <<epollfd_, aborted>>
    /\ index_' = [index_ EXCEPT ![c] = kNew]
    /\ UNCHANGED pollfds_

-----------------------------------------------------------------------------
(* PollPoller                                                              *)

\* A new channel is appended.  An existing entry takes the new events; without
\* interest it is also marked, and nothing ever unmarks it.
PollUpdate(c, ev) ==
    /\ IF index_[c] < 0
       THEN /\ pollfds_' = Append(pollfds_, [fd |-> fd_[c], events |-> ev])
            /\ index_' = [index_ EXCEPT ![c] = Len(pollfds_)]
            /\ channels_' = [channels_ EXCEPT ![fd_[c]] = c]
       ELSE /\ pollfds_' = [pollfds_ EXCEPT ![index_[c] + 1] =
                    [fd |-> IF ev = {} THEN Ignored(fd_[c]) ELSE @.fd, events |-> ev]]
            /\ UNCHANGED <<index_, channels_>>
    /\ UNCHANGED <<epollfd_, aborted>>

\* Mutant of PollRemove: the moved entry's channel keeps its old index.
PollRemoveForgetsIndex(c) ==
    /\ pollfds_' = Front([pollfds_ EXCEPT ![index_[c] + 1] = Last(pollfds_)])
    /\ channels_' = [channels_ EXCEPT ![fd_[c]] = NoChannel]
    /\ UNCHANGED <<index_, epollfd_, aborted>>

\* The last entry takes the removed one's place; the channel the moved entry
\* names learns its new index.  The removed channel keeps its own.
PollRemove(c) ==
    LET last  == Last(pollfds_)
        atEnd == IF last.fd < 0 THEN Ignored(last.fd) ELSE last.fd
    IN  /\ channels_' = [channels_ EXCEPT ![fd_[c]] = NoChannel]
        /\ pollfds_' = Front([pollfds_ EXCEPT ![index_[c] + 1] = last])
        /\ index_' = IF index_[c] = Len(pollfds_) - 1
                     THEN index_
                     ELSE [index_ EXCEPT ![channels_[atEnd]] = index_[c]]
        /\ UNCHANGED <<epollfd_, aborted>>

-----------------------------------------------------------------------------
(* Channel and EventLoop                                                   *)

Abort == aborted' = TRUE /\ UNCHANGED kernelVars

\* Channel::update: EventLoop::updateChannel, then the poller's.
Update(c, ev) ==
    /\ events_' = [events_ EXCEPT ![c] = ev]
    /\ life' = [life EXCEPT ![c] = "registered"]
    /\ lapsed' = IF ev = {} THEN lapsed \cup {c} ELSE lapsed
    /\ IF ~UpdateAsserts(c) THEN Abort
       ELSE IF usePoll THEN PollUpdate(c, ev) ELSE EPollUpdate(c, ev)
    /\ UNCHANGED <<usePoll, fd_, eventListSize, phase, activeChannels_>>

\* Handlers and functors run user code.
UserCode == phase = "functors" \/ (phase = "handle" /\ activeChannels_ # <<>>)

\* A removed channel's descriptor may already have been handed on: Connector
\* gives it to a TcpConnection before its own channel is destroyed.
NewChannel(c, f) ==
    /\ UserCode
    /\ life[c] = "none"
    /\ \A d \in Channels : life[d] \in {"fresh", "registered"} => fd_[d] # f
    /\ life' = [life EXCEPT ![c] = "fresh"]
    /\ fd_' = [fd_ EXCEPT ![c] = f]
    /\ events_' = [events_ EXCEPT ![c] = {}]
    /\ index_' = [index_ EXCEPT ![c] = kNew]
    /\ UNCHANGED <<usePoll, channels_, epollfd_, eventListSize, pollfds_, lapsed, phase,
                   activeChannels_, aborted>>

\* enableReading and enableWriting.
Enable(c, event) ==
    /\ UserCode
    /\ life[c] \in {"fresh", "registered"}
    /\ Update(c, events_[c] \cup {event})

\* disableWriting.
DisableWriting(c) ==
    /\ UserCode
    /\ life[c] = "registered"
    /\ Update(c, events_[c] \ {"write"})

\* disableAll.  An Acceptor destroyed before listen() calls it on a channel that
\* was never enabled: PollPoller::removeChannel then fails its assertion on
\* pfd.fd, so under poll only channels that were enabled are disabled here.
DisableAll(c) ==
    /\ UserCode
    /\ life[c] = "registered" \/ (life[c] = "fresh" /\ ~usePoll)
    /\ Update(c, {})

\* remove(): in the channel's own handler or in a functor, after disableAll.
RemoveChannel(c) ==
    /\ phase = "functors" \/ (phase = "handle" /\ activeChannels_ # <<>>
                                               /\ Head(activeChannels_) = c)
    /\ life[c] = "registered"
    /\ events_[c] = {}
    /\ life' = [life EXCEPT ![c] = "removed"]
    /\ lapsed' = lapsed \ {c}
    /\ IF ~RemoveAsserts(c) THEN Abort
       ELSE IF usePoll THEN PollRemove(c) ELSE EPollRemove(c)
    /\ UNCHANGED <<usePoll, fd_, events_, eventListSize, phase, activeChannels_>>

\* Mutant of Destroy: the owner deletes a channel it has not removed.
DestroyRegistered(c) ==
    /\ UserCode
    /\ life[c] # "none"
    /\ life' = [life EXCEPT ![c] = "none"]
    /\ fd_' = [fd_ EXCEPT ![c] = AnyFd]
    /\ index_' = [index_ EXCEPT ![c] = kNew]
    /\ UNCHANGED <<usePoll, events_, channels_, epollfd_, eventListSize, pollfds_, lapsed,
                   phase, activeChannels_, aborted>>

\* ~Channel.  From a functor (Connector::resetChannel, connectDestroyed), or in a
\* handler: Hiredis::removeChannel resets the pointer inside the channel's own,
\* where assert(!eventHandling_) forbids it.  The build has NDEBUG, so the
\* program goes on, and setChannel() may get the same address again.
Destroy(c) ==
    /\ UserCode
    /\ life[c] \in {"fresh", "removed"}
    /\ life' = [life EXCEPT ![c] = "none"]
    /\ fd_' = [fd_ EXCEPT ![c] = AnyFd]
    /\ index_' = [index_ EXCEPT ![c] = kNew]
    /\ UNCHANGED <<usePoll, events_, channels_, epollfd_, eventListSize, pollfds_, lapsed,
                   phase, activeChannels_, aborted>>

-----------------------------------------------------------------------------
(* The loop                                                                *)

\* epoll_wait fills at most eventListSize entries; a full list is doubled.
EPollWait ==
    /\ ~usePoll
    /\ \E ready \in SUBSET {f \in Fds : epollfd_[f] # NoEntry} :
        /\ Cardinality(ready) <= eventListSize
        /\ \E order \in SetToSeqs({epollfd_[f].ptr : f \in ready}) : activeChannels_' = order
        /\ eventListSize' = IF Cardinality(ready) = eventListSize
                            THEN 2 * eventListSize ELSE eventListSize

\* poll: the entries that are not ignored, in the order of the array, each
\* turned into a channel through channels_.
PollWait ==
    /\ usePoll
    /\ \E ready \in SUBSET {i \in DOMAIN pollfds_ : pollfds_[i].fd >= 0} :
        \E order \in SetToSeqs(ready) :
            /\ \A j, k \in DOMAIN order : j < k => order[j] < order[k]
            /\ activeChannels_' = [k \in DOMAIN order |-> channels_[pollfds_[order[k]].fd]]
    /\ UNCHANGED eventListSize

Poll ==
    /\ phase = "poll"
    /\ phase' = "handle"
    /\ EPollWait \/ PollWait
    /\ UNCHANGED <<usePoll, life, fd_, events_, index_, channels_, epollfd_, pollfds_,
                   lapsed, aborted>>

\* handleEvent of the current channel returns; after the last one the functors run.
HandleEventReturn ==
    /\ phase = "handle"
    /\ IF activeChannels_ = <<>>
       THEN phase' = "functors" /\ UNCHANGED activeChannels_
       ELSE activeChannels_' = Tail(activeChannels_) /\ UNCHANGED phase
    /\ UNCHANGED <<usePoll, life, fd_, events_, index_, channels_, epollfd_, eventListSize,
                   pollfds_, lapsed, aborted>>

FunctorsDone ==
    /\ phase = "functors"
    /\ phase' = "poll"
    /\ UNCHANGED <<usePoll, life, fd_, events_, index_, channels_, epollfd_, eventListSize,
                   pollfds_, lapsed, activeChannels_, aborted>>

PollerNext ==
    /\ ~aborted
    /\ \/ \E c \in Channels :
            \/ \E f \in Fds : NewChannel(c, f)
            \/ \E e \in Events : Enable(c, e)
            \/ DisableWriting(c) \/ DisableAll(c) \/ RemoveChannel(c) \/ Destroy(c)
       \/ Poll \/ HandleEventReturn \/ FunctorsDone

PollerSpec == PollerInit /\ [][PollerNext]_pollVars

-----------------------------------------------------------------------------
(* Properties                                                              *)

\* No legal sequence of channel operations hits an assertion of a poller or
\* makes epoll_ctl fail (EPollPoller.cc 112-152 and 179, PollPoller.cc 79-121):
\* descriptors and Channel addresses are reused, and a Connector's removed
\* channel lives beside the TcpConnection's channel for the same descriptor.
NeverAborts == ~aborted

\* A registered channel is watched for exactly the events it asked for, by the
\* entry its index names: after PollPoller's swap with the last entry too.
\* Under PollPoller this holds until the channel is disabled once, because
\* updateChannel never restores pfd.fd.
InterestIsWatched ==
    \A c \in Channels : life[c] = "registered" =>
        /\ channels_[fd_[c]] = c
        /\ IF usePoll
           THEN /\ InPollfds(c)
                /\ Pfd(c).events = events_[c]
                /\ c \notin lapsed => Pfd(c).fd = fd_[c]
           ELSE IF events_[c] = {}
                THEN epollfd_[fd_[c]].events = {}
                ELSE epollfd_[fd_[c]] = [ptr |-> c, events |-> events_[c]]

\* Whatever the next poll() or the rest of this one reports belongs to a live
\* Channel object: no entry, in the kernel or in pollfds_, and no handler still to
\* be called outlives its channel.  Of the channel whose handler is running this is
\* not so: Hiredis::removeChannel deletes it (Hiredis.cc 122-129), against the
\* assertion of ~Channel (Channel.cc 38) and before handleEventWithGuard's last
\* write to it (117).
ReportedIsAlive ==
    /\ \A f \in Fds : epollfd_[f] # NoEntry =>
           life[epollfd_[f].ptr] = "registered" /\ fd_[epollfd_[f].ptr] = f
    /\ \A i \in DOMAIN pollfds_ : pollfds_[i].fd >= 0 =>
           life[channels_[pollfds_[i].fd]] = "registered"
    /\ \A i \in DOMAIN activeChannels_ : i > 1 => life[activeChannels_[i]] = "registered"

=============================================================================
