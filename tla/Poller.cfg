\* Three channels over three descriptors, so that an entry in the middle of
\* pollfds_ is removed, and an event list that is full at once.
CONSTANTS
    Channels = {c1, c2, c3}
    Fds = {0, 1, 2}
    NoChannel = NoChannel
    kInitEventListSize = 2
SPECIFICATION PollerSpec
INVARIANTS NeverAborts InterestIsWatched ReportedIsAlive
SYMMETRY Perms
