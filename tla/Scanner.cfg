\* Two workers, two queued checks, a file that is replaced twice.
CONSTANTS
    Workers = {w1, w2}
    MaxQueue = 2
    MaxVersions = 2
SPECIFICATION FairScanSpec
INVARIANTS NoTaskWaitsForSleeper LoadedIsTheFile
PROPERTY StopJoins
\* A stopped pool has nothing to do.
CHECK_DEADLOCK FALSE
