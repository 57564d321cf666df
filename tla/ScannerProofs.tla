--------------------------- MODULE ScannerProofs ---------------------------
(***************************************************************************)
(* Proofs about the thread pool and about the dictionary it loads, for any *)
(* number of workers, queued checks and replacements of the file.          *)
(***************************************************************************)
EXTENDS Scanner, FiniteSetTheorems, TLAPS

WorkerStates == {"test", "take", "waiting", "woken", "task", "done"}
TaskSteps == {"idle", "compare", "stamp", "fetch", "swap", "transfer"}
Files == [version : Nat, ctime : Nat, newline : BOOLEAN, readable : BOOLEAN]

\* What the pool's members and the queue can be.
PoolTypeOK ==
    /\ running_ \in BOOLEAN
    /\ queue_ \in Nat
    /\ worker \in [Workers -> WorkerStates]

\* What the dictionary's members and the workers' local variables can be.
ScanTypeOK ==
    /\ file \in Files
    /\ lastUpdateTimestamp_ \in Nat
    /\ step \in [Workers -> TaskSteps]
    /\ seen \in [Workers -> Nat]
    /\ read \in [Workers -> Nat]
    /\ overlapped \in BOOLEAN
    /\ sameSecond \in BOOLEAN

\* Unless checks overlapped, one worker at most is between stat() and return.
OneChecker ==
    ~overlapped => \A v, w \in Workers : step[v] # "idle" /\ step[w] # "idle" => v = w

\* No change time is ahead of the file's.
TimesOK ==
    /\ file.version = 0 => file.ctime = 0
    /\ lastUpdateTimestamp_ <= file.ctime
    /\ \A w \in Workers : seen[w] <= file.ctime

\* A worker that has stamped this file's time and read rows has read this
\* file's: one that was replaced meanwhile has a later time.
ReadIsTheFile ==
    ~overlapped /\ ~sameSecond =>
        \A w \in Workers :
            step[w] = "swap" /\ lastUpdateTimestamp_ = file.ctime => read[w] = file.version

\* The rows in memory are the file's, except between the stamp and the swap.
LoadedAfterSwap ==
    (/\ \A w \in Workers : step[w] \notin {"fetch", "swap"}
     /\ file.readable /\ lastUpdateTimestamp_ = file.ctime
     /\ ~overlapped /\ ~sameSecond /\ lastFetch = "ok")
        => datas_ = file.version /\ isSuccess_

DicInv ==
    /\ ScanTypeOK
    /\ OneChecker
    /\ TimesOK
    /\ ReadIsTheFile
    /\ LoadedAfterSwap

-----------------------------------------------------------------------------
(* The pool: counting the woken workers                                    *)

Woken == {w \in Workers : worker[w] = "woken"}

PoolInv == PoolTypeOK /\ NoTaskWaitsForSleeper

LEMMA WokenCounted == IsFiniteSet(Woken) /\ Cardinality(Woken) \in Nat
<1>1. IsFiniteSet(Woken)
  BY PoolAssumption, FS_Subset DEF Woken
<1> QED BY <1>1, FS_CardinalityType

\* A worker that is woken, by notify() or for no reason, is one more.
LEMMA OneMoreWoken ==
    ASSUME PoolTypeOK, NEW w \in Workers, worker[w] # "woken",
           worker' = [worker EXCEPT ![w] = "woken"]
    PROVE  Cardinality(Woken') = Cardinality(Woken) + 1
<1>1. Woken' = Woken \cup {w} /\ w \notin Woken
  BY DEF Woken, PoolTypeOK
<1> QED BY <1>1, WokenCounted, FS_AddElement

\* A worker that goes to sleep, to work or to the end is one less at most.
LEMMA OneLessWoken ==
    ASSUME PoolTypeOK, NEW w \in Workers, NEW s \in WorkerStates, s # "woken",
           worker' = [worker EXCEPT ![w] = s]
    PROVE  /\ Cardinality(Woken') \in Nat
           /\ Cardinality(Woken') >= Cardinality(Woken) - 1
           /\ worker[w] # "woken" => Cardinality(Woken') = Cardinality(Woken)
<1>1. Woken' = Woken \ {w}
  BY DEF Woken, PoolTypeOK
<1>2. CASE w \in Woken
  <2>1. Cardinality(Woken') = Cardinality(Woken) - 1
    BY <1>1, <1>2, WokenCounted, FS_RemoveElement
  <2>2. IsFiniteSet(Woken') /\ Cardinality(Woken') \in Nat
    BY <1>1, WokenCounted, FS_RemoveElement, FS_CardinalityType
  <2> QED BY <1>2, <2>1, <2>2, WokenCounted DEF Woken
<1>3. CASE w \notin Woken
  <2>1. Woken' = Woken
    BY <1>1, <1>3
  <2> QED BY <1>3, <2>1, WokenCounted
<1> QED BY <1>2, <1>3

\* run() brings a task and, when somebody sleeps, a worker for it.
LEMMA RunKeepsPool ==
    ASSUME PoolInv, Run
    PROVE  PoolInv'
<1>1. queue_' = queue_ + 1 /\ UNCHANGED running_ /\ queue_ \in Nat
  BY DEF PoolInv, PoolTypeOK, Run
<1>2. CASE Waiting = {}
  <2>1. UNCHANGED worker
    BY <1>2 DEF Run, Notify
  <2> QED BY <1>1, <1>2, <2>1 DEF PoolInv, PoolTypeOK, NoTaskWaitsForSleeper, Waiting
<1>3. CASE Waiting # {}
  <2>1. PICK w \in Waiting : worker' = [worker EXCEPT ![w] = "woken"]
    BY <1>3 DEF Run, Notify
  <2>2. w \in Workers /\ worker[w] # "woken"
    BY DEF Waiting
  <2>3. Cardinality(Woken') = Cardinality(Woken) + 1
    BY <2>1, <2>2, OneMoreWoken DEF PoolInv
  <2>4. queue_ <= Cardinality(Woken)
    BY <1>3 DEF PoolInv, NoTaskWaitsForSleeper, Woken
  <2>5. queue_' <= Cardinality(Woken')
    BY <1>1, <2>3, <2>4, WokenCounted
  <2>6. worker' \in [Workers -> WorkerStates]
    BY <2>1 DEF PoolInv, PoolTypeOK, WorkerStates
  <2> QED BY <1>1, <2>5, <2>6 DEF PoolInv, PoolTypeOK, NoTaskWaitsForSleeper, Woken
<1> QED BY <1>2, <1>3

\* A worker that sees running_ or leaves a task was not woken and does not sleep.
LEMMA BusyKeepsPool ==
    ASSUME PoolInv, NEW w \in Workers, TestRunning(w) \/ TaskReturns(w)
    PROVE  PoolInv'
<1>1. PICK s \in {"take", "done", "test"} : worker' = [worker EXCEPT ![w] = s]
  BY DEF TestRunning, TaskReturns
<1>2. /\ UNCHANGED <<running_, queue_>> /\ worker[w] \in {"test", "task"}
  BY DEF TestRunning, TaskReturns
<1>3. Cardinality(Woken') = Cardinality(Woken)
  BY <1>1, <1>2, OneLessWoken DEF PoolInv, WorkerStates
<1>4. Waiting' = Waiting /\ worker' \in [Workers -> WorkerStates]
  BY <1>1, <1>2 DEF PoolInv, PoolTypeOK, Waiting, WorkerStates
<1> QED BY <1>2, <1>3, <1>4 DEF PoolInv, PoolTypeOK, NoTaskWaitsForSleeper, Woken

\* take(): a worker that uses up a wakeup uses up a task, and it sleeps only
\* when there is none.
LEMMA TakeKeepsPool ==
    ASSUME PoolInv, NEW w \in Workers, Take(w)
    PROVE  PoolInv'
<1>1. PICK s \in {"waiting", "task", "test"} :
         /\ worker' = [worker EXCEPT ![w] = s]
         /\ s = "waiting" => queue_ = 0 /\ queue_' = 0
         /\ s = "task" => queue_ > 0 /\ queue_' = queue_ - 1
         /\ s = "test" => queue_ = 0 /\ queue_' = 0
  BY DEF Take
<1>2. /\ Cardinality(Woken') \in Nat /\ Cardinality(Woken') >= Cardinality(Woken) - 1
      /\ queue_ \in Nat /\ UNCHANGED running_
  BY <1>1, OneLessWoken DEF PoolInv, PoolTypeOK, WorkerStates, Take
<1>3. worker' \in [Workers -> WorkerStates]
  BY <1>1 DEF PoolInv, PoolTypeOK, WorkerStates
<1>4. NoTaskWaitsForSleeper'
  <2>1. CASE s \in {"waiting", "test"}
    BY <1>1, <1>2, <2>1 DEF NoTaskWaitsForSleeper, Woken
  <2>2. CASE s = "task"
    <3>1. Waiting' \subseteq Waiting
      BY <1>1, <2>2 DEF Waiting, PoolInv, PoolTypeOK
    <3>2. Waiting # {} => queue_ <= Cardinality(Woken)
      BY DEF PoolInv, NoTaskWaitsForSleeper, Woken
    <3>3. Waiting' # {} => queue_' <= Cardinality(Woken')
      BY <1>1, <1>2, <2>2, <3>1, <3>2, WokenCounted
    <3> QED BY <3>3 DEF NoTaskWaitsForSleeper, Woken
  <2> QED BY <2>1, <2>2
<1>5. queue_' \in Nat
  BY <1>1, <1>2
<1> QED BY <1>2, <1>3, <1>4, <1>5 DEF PoolInv, PoolTypeOK

LEMMA SpuriousKeepsPool ==
    ASSUME PoolInv, NEW w \in Workers, SpuriousWakeup(w)
    PROVE  PoolInv'
<1>1. Cardinality(Woken') = Cardinality(Woken) + 1
  BY OneMoreWoken DEF PoolInv, SpuriousWakeup
<1>2. Waiting # {} /\ UNCHANGED <<running_, queue_>> /\ queue_ \in Nat
  BY DEF SpuriousWakeup, Waiting, PoolInv, PoolTypeOK
<1>3. queue_ <= Cardinality(Woken)
  BY <1>2 DEF PoolInv, NoTaskWaitsForSleeper, Woken
<1>4. queue_' <= Cardinality(Woken')
  BY <1>1, <1>2, <1>3, WokenCounted
<1>5. worker' \in [Workers -> WorkerStates]
  BY DEF PoolInv, PoolTypeOK, SpuriousWakeup, WorkerStates
<1> QED BY <1>2, <1>4, <1>5 DEF PoolInv, PoolTypeOK, NoTaskWaitsForSleeper, Woken

\* notifyAll() leaves nobody asleep; join() changes no worker.
LEMMA StopKeepsPool ==
    ASSUME PoolInv, Stop \/ Join
    PROVE  PoolInv'
<1>1. CASE Stop
  <2>1. worker' \in [Workers -> WorkerStates] /\ Waiting' = {}
    BY <1>1 DEF PoolInv, PoolTypeOK, Stop, NotifyAll, Waiting, WorkerStates
  <2>2. running_' \in BOOLEAN /\ UNCHANGED queue_
    BY <1>1 DEF Stop
  <2> QED BY <2>1, <2>2 DEF PoolInv, PoolTypeOK, NoTaskWaitsForSleeper
<1>2. CASE Join
  BY <1>2 DEF PoolInv, PoolTypeOK, NoTaskWaitsForSleeper, Waiting, Join
<1> QED BY <1>1, <1>2

LEMMA PoolKept ==
    ASSUME PoolInv, UNCHANGED poolVars
    PROVE  PoolInv'
BY DEF poolVars, PoolInv, PoolTypeOK, NoTaskWaitsForSleeper, Waiting

\* A step of the pool, alone or inside a step of the dictionary.
LEMMA ScanKeepsPool ==
    ASSUME PoolInv, [ScanNext]_scanVars
    PROVE  PoolInv'
<1>1. CASE ReplaceFile
  BY <1>1, PoolKept DEF ReplaceFile
<1>2. CASE IsNewDictArrived \/ StopPool
  BY <1>2, RunKeepsPool, StopKeepsPool DEF IsNewDictArrived, StopPool
<1>3. ASSUME NEW w \in Workers, PoolStep(w) PROVE PoolInv'
  BY <1>3, BusyKeepsPool, TakeKeepsPool, SpuriousKeepsPool DEF PoolStep, WorkerStep
<1>4. ASSUME NEW w \in Workers, Fetch(w) PROVE PoolInv'
  <2>1. UNCHANGED poolVars \/ TaskReturns(w)
    BY <1>4 DEF Fetch, Stat, Compare, Stamp, FetcherData, Swap, TransferData, Return
  <2> QED BY <2>1, PoolKept, BusyKeepsPool
<1>5. CASE UNCHANGED scanVars
  BY <1>5, PoolKept DEF scanVars
<1> QED BY <1>1, <1>2, <1>3, <1>4, <1>5 DEF ScanNext

\* A queued task has a worker to run it: as long as any worker sleeps, as many
\* have been woken as there are tasks, whatever wakes them and whoever takes
\* the tasks.
THEOREM PoolWakesEnough == ScanSpec => []NoTaskWaitsForSleeper
<1>1. ScanInit => PoolInv
  BY DEF ScanInit, PoolInit, PoolInv, PoolTypeOK, NoTaskWaitsForSleeper, Waiting, WorkerStates
<1>2. PoolInv /\ [ScanNext]_scanVars => PoolInv'
  BY ScanKeepsPool
<1>3. PoolInv => NoTaskWaitsForSleeper
  BY DEF PoolInv
<1> QED BY <1>1, <1>2, <1>3, PTL DEF ScanSpec

-----------------------------------------------------------------------------
(* The dictionary                                                          *)

\* Steps that touch neither the file nor the dictionary.
LEMMA DicKept ==
    ASSUME DicInv, UNCHANGED <<file, dicVars, step, overlapped, sameSecond>>
    PROVE  DicInv'
BY DEF DicInv, ScanTypeOK, OneChecker, TimesOK, ReadIsTheFile, LoadedAfterSwap, dicVars

\* A new file has a later change time than any that was seen, or sameSecond is set.
LEMMA ReplaceKeepsDic ==
    ASSUME DicInv, ReplaceFile
    PROVE  DicInv'
<1>1. PICK newline \in BOOLEAN, readable \in BOOLEAN, later \in {0, 1} :
         /\ file' = [version |-> file.version + 1, newline |-> newline, readable |-> readable,
                     ctime |-> IF file.version = 0 THEN 1 ELSE file.ctime + later]
         /\ sameSecond' = (sameSecond \/ (file.version > 0 /\ later = 0))
  BY DEF ReplaceFile
<1>2. file.version \in Nat /\ file.ctime \in Nat
  BY DEF DicInv, ScanTypeOK, Files
<1>3. UNCHANGED <<lastUpdateTimestamp_, datas_, isSuccess_, step, seen, read, lastFetch, overlapped>>
  BY DEF ReplaceFile, dicVars
<1>4. /\ file'.version = file.version + 1
      /\ file'.ctime = IF file.version = 0 THEN 1 ELSE file.ctime + later
      /\ file' \in Files
  BY <1>1, <1>2 DEF Files
<1>5. sameSecond' \in BOOLEAN
  BY <1>1
<1>6. file'.ctime >= file.ctime /\ (~sameSecond' => file'.ctime > file.ctime)
  <2>1. file.version = 0 => file.ctime = 0
    BY DEF DicInv, TimesOK
  <2>2. ~sameSecond' => file.version = 0 \/ later = 1
    <3>1. ~sameSecond' => ~(file.version > 0 /\ later = 0)
      BY <1>1, Zenon
    <3> QED BY <1>2, <3>1
  <2>3. file'.ctime >= file.ctime
    BY <1>2, <1>4, <2>1
  <2>4. file.version = 0 \/ later = 1 => file'.ctime > file.ctime
    BY <1>2, <1>4, <2>1
  <2> QED BY <2>2, <2>3, <2>4
<1>7. ScanTypeOK' /\ OneChecker'
  BY <1>3, <1>4, <1>5 DEF DicInv, ScanTypeOK, OneChecker
<1>8. TimesOK'
  BY <1>2, <1>3, <1>4, <1>6 DEF DicInv, ScanTypeOK, TimesOK
<1>9. ~sameSecond' => lastUpdateTimestamp_' # file'.ctime
  BY <1>2, <1>3, <1>4, <1>6 DEF DicInv, ScanTypeOK, TimesOK
<1>10. ReadIsTheFile' /\ LoadedAfterSwap'
  BY <1>9 DEF ReadIsTheFile, LoadedAfterSwap
<1> QED BY <1>7, <1>8, <1>10 DEF DicInv

LEMMA StatKeepsDic ==
    ASSUME DicInv, NEW w \in Workers, Stat(w)
    PROVE  DicInv'
<1>1. PICK st \in {"compare", "idle"}, ct \in Nat :
         /\ step' = [step EXCEPT ![w] = st] /\ seen' = [seen EXCEPT ![w] = ct]
         /\ ct <= file.ctime
  <2>1. seen[w] \in Nat /\ seen[w] <= file.ctime /\ file.ctime \in Nat
        /\ seen = [seen EXCEPT ![w] = seen[w]]
    BY DEF DicInv, ScanTypeOK, TimesOK, Files
  <2> QED BY <2>1 DEF Stat, Return
<1>2. step[w] = "idle"
      /\ UNCHANGED <<file, lastUpdateTimestamp_, datas_, isSuccess_, read, lastFetch, sameSecond>>
      /\ overlapped' = (overlapped \/ \E v \in Workers \ {w} : step[v] # "idle")
  BY DEF Stat
<1>3. ScanTypeOK'
  BY <1>1, <1>2 DEF DicInv, ScanTypeOK, TaskSteps
<1>4. OneChecker'
  BY <1>1, <1>2 DEF DicInv, ScanTypeOK, OneChecker
<1>5. TimesOK'
  BY <1>1, <1>2 DEF DicInv, ScanTypeOK, TimesOK
<1>6. \A v \in Workers : step'[v] \in {"fetch", "swap"} <=> step[v] \in {"fetch", "swap"}
  BY <1>1, <1>2 DEF DicInv, ScanTypeOK
<1>7. \A v \in Workers : step'[v] = "swap" => step[v] = "swap"
  BY <1>1, <1>2 DEF DicInv, ScanTypeOK
<1>8. ReadIsTheFile' /\ LoadedAfterSwap'
  BY <1>2, <1>6, <1>7 DEF DicInv, ReadIsTheFile, LoadedAfterSwap
<1> QED BY <1>3, <1>4, <1>5, <1>8 DEF DicInv

\* A step of the worker that is already in the task, which neither reads nor
\* loads anything.
LEMMA MoveKeepsDic ==
    ASSUME DicInv, NEW w \in Workers, step[w] \in {"compare", "transfer"},
           NEW st \in {"idle", "stamp"}, step' = [step EXCEPT ![w] = st],
           UNCHANGED <<file, dicVars, overlapped, sameSecond>>
    PROVE  DicInv'
<1>1. UNCHANGED <<lastUpdateTimestamp_, datas_, isSuccess_, seen, read, lastFetch>>
  BY DEF dicVars
<1>2. ScanTypeOK'
  BY <1>1 DEF DicInv, ScanTypeOK, TaskSteps
<1>3. OneChecker'
  BY DEF DicInv, ScanTypeOK, OneChecker
<1>4. TimesOK'
  BY <1>1 DEF DicInv, TimesOK
<1>5. \A v \in Workers : /\ step'[v] \in {"fetch", "swap"} <=> step[v] \in {"fetch", "swap"}
                         /\ step'[v] = "swap" => step[v] = "swap"
  BY DEF DicInv, ScanTypeOK
<1>6. ReadIsTheFile' /\ LoadedAfterSwap'
  BY <1>1, <1>5 DEF DicInv, ReadIsTheFile, LoadedAfterSwap
<1> QED BY <1>2, <1>3, <1>4, <1>6 DEF DicInv

LEMMA StampKeepsDic ==
    ASSUME DicInv, NEW w \in Workers, Stamp(w)
    PROVE  DicInv'
<1>1. /\ step[w] = "stamp" /\ step' = [step EXCEPT ![w] = "fetch"]
      /\ lastUpdateTimestamp_' = seen[w]
      /\ UNCHANGED <<file, datas_, isSuccess_, seen, read, lastFetch, overlapped, sameSecond>>
  BY DEF Stamp
<1>2. step'[w] = "fetch"
  BY <1>1 DEF DicInv, ScanTypeOK
<1>3. ScanTypeOK'
  BY <1>1 DEF DicInv, ScanTypeOK, TaskSteps
<1>4. OneChecker'
  BY <1>1 DEF DicInv, ScanTypeOK, OneChecker
<1>5. TimesOK'
  BY <1>1 DEF DicInv, TimesOK
<1>6. ReadIsTheFile'
  BY <1>1, <1>2, <1>4 DEF ReadIsTheFile, OneChecker
<1>7. LoadedAfterSwap'
  BY <1>2 DEF LoadedAfterSwap
<1> QED BY <1>3, <1>4, <1>5, <1>6, <1>7 DEF DicInv

LEMMA FetcherKeepsDic ==
    ASSUME DicInv, NEW w \in Workers, FetcherData(w)
    PROVE  DicInv'
<1>1. /\ step[w] = "fetch"
      /\ UNCHANGED <<file, lastUpdateTimestamp_, datas_, seen, overlapped, sameSecond>>
  BY DEF FetcherData
<1>2. CASE /\ step' = [step EXCEPT ![w] = "transfer"] /\ lastFetch' # "ok" /\ UNCHANGED read
  <2>1. ScanTypeOK'
    BY <1>1, <1>2 DEF DicInv, ScanTypeOK, TaskSteps
  <2>2. OneChecker' /\ TimesOK'
    BY <1>1, <1>2 DEF DicInv, ScanTypeOK, OneChecker, TimesOK
  <2>3. \A v \in Workers : step'[v] = "swap" => step[v] = "swap"
    BY <1>2 DEF DicInv, ScanTypeOK
  <2>4. ReadIsTheFile' /\ LoadedAfterSwap'
    BY <1>1, <1>2, <2>3 DEF DicInv, ReadIsTheFile, LoadedAfterSwap
  <2> QED BY <2>1, <2>2, <2>4 DEF DicInv
<1>3. CASE /\ step' = [step EXCEPT ![w] = "swap"]
           /\ read' = [read EXCEPT ![w] = file.version] /\ UNCHANGED <<isSuccess_, lastFetch>>
  <2>1. step'[w] = "swap" /\ read'[w] = file.version /\ file.version \in Nat
    BY <1>3 DEF DicInv, ScanTypeOK, Files
  <2>2. ScanTypeOK'
    BY <1>1, <1>3, <2>1 DEF DicInv, ScanTypeOK, TaskSteps
  <2>3. OneChecker' /\ TimesOK'
    BY <1>1, <1>3 DEF DicInv, ScanTypeOK, OneChecker, TimesOK
  <2>4. ReadIsTheFile'
    BY <1>1, <2>1, <2>3 DEF ReadIsTheFile, OneChecker
  <2>5. LoadedAfterSwap'
    BY <2>1 DEF LoadedAfterSwap
  <2> QED BY <2>2, <2>3, <2>4, <2>5 DEF DicInv
<1> QED BY <1>2, <1>3 DEF FetcherData

LEMMA SwapKeepsDic ==
    ASSUME DicInv, NEW w \in Workers, Swap(w)
    PROVE  DicInv'
<1>1. /\ step[w] = "swap" /\ step' = [step EXCEPT ![w] = "transfer"]
      /\ datas_' = read[w] /\ read' = [read EXCEPT ![w] = 0] /\ isSuccess_' = TRUE
      /\ UNCHANGED <<file, lastUpdateTimestamp_, seen, overlapped, sameSecond>>
  BY DEF Swap
<1>2. ScanTypeOK'
  BY <1>1 DEF DicInv, ScanTypeOK, TaskSteps
<1>3. OneChecker' /\ TimesOK'
  BY <1>1 DEF DicInv, ScanTypeOK, OneChecker, TimesOK
<1>4. ~overlapped => \A v \in Workers : step'[v] # "swap"
  BY <1>1 DEF DicInv, ScanTypeOK, OneChecker
<1>5. ReadIsTheFile'
  BY <1>1, <1>4 DEF ReadIsTheFile
<1>6. LoadedAfterSwap'
  BY <1>1 DEF DicInv, ReadIsTheFile, LoadedAfterSwap
<1> QED BY <1>2, <1>3, <1>5, <1>6 DEF DicInv

LEMMA ScanKeepsDic ==
    ASSUME DicInv, [ScanNext]_scanVars
    PROVE  DicInv'
<1>1. CASE ReplaceFile
  BY <1>1, ReplaceKeepsDic
<1>2. CASE IsNewDictArrived \/ StopPool
  BY <1>2, DicKept DEF IsNewDictArrived, StopPool
<1>3. ASSUME NEW w \in Workers, PoolStep(w) PROVE DicInv'
  BY <1>3, DicKept DEF PoolStep
<1>4. ASSUME NEW w \in Workers, Fetch(w) PROVE DicInv'
  <2>1. CASE Compare(w) \/ TransferData(w)
    BY <2>1, MoveKeepsDic DEF Compare, TransferData, Return
  <2> QED BY <1>4, <2>1, StatKeepsDic, StampKeepsDic, FetcherKeepsDic, SwapKeepsDic DEF Fetch
<1>5. CASE UNCHANGED scanVars
  BY <1>5, DicKept DEF scanVars, dicVars
<1> QED BY <1>1, <1>2, <1>3, <1>4, <1>5 DEF ScanNext

\* The rows in memory are the file's whenever the file was noticed, unless one
\* of the cases the code does not handle has occurred.
THEOREM DictionaryIsLoaded == ScanSpec => []LoadedIsTheFile
<1>1. ScanInit => DicInv
  <2> SUFFICES ASSUME ScanInit PROVE DicInv
    OBVIOUS
  <2>1. ScanTypeOK
    BY DEF ScanInit, ScanTypeOK, NoFile, Files, TaskSteps
  <2>2. OneChecker /\ TimesOK
    BY DEF ScanInit, OneChecker, TimesOK, NoFile
  <2>3. ReadIsTheFile /\ LoadedAfterSwap
    BY DEF ScanInit, ReadIsTheFile, LoadedAfterSwap
  <2> QED BY <2>1, <2>2, <2>3 DEF DicInv
<1>2. DicInv /\ [ScanNext]_scanVars => DicInv'
  BY ScanKeepsDic
<1>3. DicInv => LoadedIsTheFile
  BY DEF DicInv, LoadedAfterSwap, LoadedIsTheFile
<1> QED BY <1>1, <1>2, <1>3, PTL DEF ScanSpec

=============================================================================
