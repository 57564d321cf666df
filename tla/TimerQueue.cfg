\* Two addresses for three timers, so that one is reused; two of the three
\* clock values are in the future of a timer made at the start.
CONSTANTS
    Addresses = {a1, a2}
    NoTimer = NoTimer
    MaxTimers = 3
    Intervals = {0, 1}
    Horizon = 3
SYMMETRY Perms
SPECIFICATION TimerSpec
INVARIANTS ArmedForEarliest TimersOwnedOnce NothingLost CancelledStaysOut
\* Nothing is left to do when MaxTimers timers have ended.
CHECK_DEADLOCK FALSE
