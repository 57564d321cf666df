\* An owner starts and destroys the thread while two others use its loop.
CONSTANTS
    f1 = f1
    f2 = f2
    f3 = f3
    f4 = f4
    Threads = {t1, t2}
    Functors = {f1, f2, f3, f4}
    nested <- MCnested
    NoFunctor = NoFunctor
SPECIFICATION FairThreadSpec
INVARIANTS NoLostWakeup FifoOnce
PROPERTIES QueuedBeforeLoopIsCalled QuitInsideLoopJoins
\* The thread ends when its loop is told to quit.
CHECK_DEADLOCK FALSE
