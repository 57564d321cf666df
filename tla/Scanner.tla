------------------------------ MODULE Scanner ------------------------------
(***************************************************************************)
(* The sender's Scanner and PreRankScoreDic over a ThreadPool: a timer     *)
(* queues a check of the dictionary file every few seconds, and workers    *)
(* compare its change time with the last one, read it and swap it in.      *)
(* Nothing protects the dictionary's members from two workers.             *)
(*                                                                         *)
(* The sender does not compile as it stands (missing commas, members used  *)
(* under two names); what is modelled is what its statements say, with     *)
(* file_name, name and rank_file taken for name_, isSuccess for isSuccess_ *)
(* and the task bound in IsNewDictArrived for IsNewDictArrivedAndFetcher.  *)
(* setMaxQueueSize has no counterpart in the vendored ThreadPool, whose    *)
(* queue has no limit.  The constructor enters loop.loop(), an undeclared  *)
(* name, and would never return: the model starts after StartPool() and    *)
(* RegisterMonitor(), with monitorLoop_ running its timer.  A file's       *)
(* content is its version and whether its last row ends in a newline.      *)
(***************************************************************************)
EXTENDS ThreadPool

CONSTANTS
    MaxVersions     \* bound on how often the file is replaced

ASSUME ScannerAssumption == MaxVersions \in Nat

VARIABLES
    file,                   \* the dictionary file: [version, ctime, newline, readable]
    lastUpdateTimestamp_,
    datas_,                 \* version the rows in memory come from, 0 for none
    isSuccess_,
    step,                   \* worker -> where it is in IsNewDictArrivedAndFetcher
    seen,                   \* worker -> the change time that stat() gave it
    read,                   \* worker -> the version it has read, 0 for none
    lastFetch,              \* how the last FetcherData ended
    overlapped,             \* two workers were in the task at once
    sameSecond              \* the file was replaced without a newer change time

scanVars == <<poolVars, file, lastUpdateTimestamp_, datas_, isSuccess_, step, seen, read, lastFetch,
              overlapped, sameSecond>>
dicVars == <<lastUpdateTimestamp_, datas_, isSuccess_, seen, read, lastFetch>>

NoFile == [version |-> 0, ctime |-> 0, newline |-> FALSE, readable |-> FALSE]

ScanInit ==
    /\ PoolInit
    /\ file = NoFile
    /\ lastUpdateTimestamp_ = 0
    /\ datas_ = 0
    /\ isSuccess_ = FALSE
    /\ step = [w \in Workers |-> "idle"]
    /\ seen = [w \in Workers |-> 0]
    /\ read = [w \in Workers |-> 0]
    /\ lastFetch = "none"
    /\ overlapped = FALSE
    /\ sameSecond = FALSE

-----------------------------------------------------------------------------
(* The file                                                                *)

\* A new file is moved into place, perhaps within the second of the last one.
ReplaceFile ==
    /\ file.version < MaxVersions
    /\ \E newline, readable \in BOOLEAN, later \in {0, 1} :
        /\ file' = [version |-> file.version + 1, newline |-> newline, readable |-> readable,
                    ctime |-> IF file.version = 0 THEN 1 ELSE file.ctime + later]
        /\ sameSecond' = (sameSecond \/ (file.version > 0 /\ later = 0))
    /\ UNCHANGED <<poolVars, dicVars, step, overlapped>>

-----------------------------------------------------------------------------
(* The pool                                                                *)

\* runEvery(3, IsNewDictArrived) queues the task, after StopPool() too.
IsNewDictArrived ==
    /\ Run
    /\ UNCHANGED <<file, dicVars, step, overlapped, sameSecond>>

\* StopPool.
StopPool ==
    /\ Stop \/ Join
    /\ UNCHANGED <<file, dicVars, step, overlapped, sameSecond>>

PoolStep(w) ==
    /\ WorkerStep(w) \/ SpuriousWakeup(w)
    /\ UNCHANGED <<file, dicVars, step, overlapped, sameSecond>>

-----------------------------------------------------------------------------
(* IsNewDictArrivedAndFetcher                                              *)

InTask(w) == worker[w] = "task"

\* The worker leaves the task, here and by every early return.
Return(w) == step' = [step EXCEPT ![w] = "idle"] /\ TaskReturns(w)

\* access() and stat(): an unreadable file ends the task.
Stat(w) ==
    /\ InTask(w) /\ step[w] = "idle"
    /\ overlapped' = (overlapped \/ \E v \in Workers \ {w} : step[v] # "idle")
    /\ IF file.readable
       THEN /\ step' = [step EXCEPT ![w] = "compare"]
            /\ seen' = [seen EXCEPT ![w] = file.ctime]
            /\ UNCHANGED poolVars
       ELSE Return(w) /\ UNCHANGED seen
    /\ UNCHANGED <<file, lastUpdateTimestamp_, datas_, isSuccess_, read, lastFetch, sameSecond>>

\* if (current_update_time <= lastUpdateTimestamp_) return.
Compare(w) ==
    /\ InTask(w) /\ step[w] = "compare"
    /\ IF seen[w] <= lastUpdateTimestamp_
       THEN Return(w)
       ELSE step' = [step EXCEPT ![w] = "stamp"] /\ UNCHANGED poolVars
    /\ UNCHANGED <<file, dicVars, overlapped, sameSecond>>

Stamp(w) ==
    /\ InTask(w) /\ step[w] = "stamp"
    /\ step' = [step EXCEPT ![w] = "fetch"]
    /\ lastUpdateTimestamp_' = seen[w]
    /\ UNCHANGED <<poolVars, file, datas_, isSuccess_, seen, read, lastFetch, overlapped, sameSecond>>

\* FetcherData up to the swap.  A file without read permission, and an error
\* while reading, leave without success.  A file whose last row ends in a
\* newline makes the getline after it throw at eof: the rows read are dropped,
\* yet the fetch counts as a success.  Any other file is swapped in, without
\* its last row, which meets eof() before it is parsed; rows without five
\* fields are skipped.
FetcherData(w) ==
    /\ InTask(w) /\ step[w] = "fetch"
    /\ \/ /\ step' = [step EXCEPT ![w] = "transfer"]
          /\ lastFetch' = "failed"
          /\ UNCHANGED <<isSuccess_, read>>
       \/ /\ file.readable /\ file.newline
          /\ step' = [step EXCEPT ![w] = "transfer"]
          /\ lastFetch' = "dropped"
          /\ isSuccess_' = TRUE
          /\ UNCHANGED read
       \/ /\ file.readable /\ ~file.newline
          /\ step' = [step EXCEPT ![w] = "swap"]
          /\ read' = [read EXCEPT ![w] = file.version]
          /\ UNCHANGED <<isSuccess_, lastFetch>>
    /\ UNCHANGED <<poolVars, file, lastUpdateTimestamp_, datas_, seen, overlapped, sameSecond>>

\* Mutant of Swap: rows are only swapped into an empty dictionary.
SwapIntoEmpty(w) ==
    /\ InTask(w) /\ step[w] = "swap"
    /\ step' = [step EXCEPT ![w] = "transfer"]
    /\ datas_' = IF datas_ = 0 THEN read[w] ELSE datas_
    /\ read' = [read EXCEPT ![w] = 0]
    /\ isSuccess_' = TRUE
    /\ lastFetch' = "ok"
    /\ UNCHANGED <<poolVars, file, lastUpdateTimestamp_, seen, overlapped, sameSecond>>

\* datas_.swap(datas), and isSuccess_ = true, which nothing ever resets.
Swap(w) ==
    /\ InTask(w) /\ step[w] = "swap"
    /\ step' = [step EXCEPT ![w] = "transfer"]
    /\ datas_' = read[w]
    /\ read' = [read EXCEPT ![w] = 0]
    /\ isSuccess_' = TRUE
    /\ lastFetch' = "ok"
    /\ UNCHANGED <<poolVars, file, lastUpdateTimestamp_, seen, overlapped, sameSecond>>

\* TransferData: nothing to send, or DoTransfer, which has no action for
\* CMD_RANK_SCORE; either way the task returns and nothing changes.
TransferData(w) ==
    /\ InTask(w) /\ step[w] = "transfer"
    /\ Return(w)
    /\ UNCHANGED <<file, dicVars, overlapped, sameSecond>>

Fetch(w) == Stat(w) \/ Compare(w) \/ Stamp(w) \/ FetcherData(w) \/ Swap(w) \/ TransferData(w)

-----------------------------------------------------------------------------
ScanNext ==
    \/ ReplaceFile \/ IsNewDictArrived \/ StopPool
    \/ \E w \in Workers : PoolStep(w) \/ Fetch(w)

ScanSpec == ScanInit /\ [][ScanNext]_scanVars

\* Every worker keeps running, tasks end, and a stop() that was begun goes on.
\* No wakeup is spurious for ever, and nobody has to stop the pool.
ScanFairness ==
    /\ \A w \in Workers : WF_scanVars((WorkerStep(w) /\ PoolStep(w)) \/ Fetch(w))
    /\ WF_scanVars(stopper = "joining" /\ StopPool)

FairScanSpec == ScanSpec /\ ScanFairness

-----------------------------------------------------------------------------
(* Properties                                                              *)

\* When no check is under way and the file was noticed, the rows in memory are
\* the file's, except for what this code does not handle: checks that overlapped
\* (the slower may swap older rows in), a file replaced within one second, a
\* fetch that failed after the time stamp had been advanced, and rows dropped
\* for their final newline.
LoadedIsTheFile ==
    (/\ \A w \in Workers : step[w] = "idle"
     /\ file.readable /\ lastUpdateTimestamp_ = file.ctime
     /\ ~overlapped /\ ~sameSecond /\ lastFetch = "ok")
        => datas_ = file.version /\ isSuccess_

=============================================================================
