------------------------------ MODULE FtlLock ------------------------------
(***************************************************************************)
(* The locking of ftl.c with several tasks.  ftl_mutex_lock serialises     *)
(* saves and loads and is waited for at most 100 ms; ftl_sem is a          *)
(* recursive mutex, waited for without limit, that ftl_write and           *)
(* ftl_page_garbage_collect take: a save that rolls over to the last free  *)
(* page collects inside its write, and the collection writes the records   *)
(* it copies, so a task holds ftl_sem up to three times.                   *)
(*                                                                         *)
(* What the calls do to the flash is in module Ftl; here only the lock     *)
(* operations and the paths between them are kept.                         *)
(***************************************************************************)
EXTENDS Integers

CONSTANTS
    Task,
    NoTask,
    MaxLeaks       \* how many failures of ftl_page_format are looked at while
                   \* one task holds ftl_sem

ASSUME LockAssumption ==
    /\ NoTask \notin Task
    /\ MaxLeaks \in Nat

VARIABLES
    mutex,    \* the holder of ftl_mutex_lock
    sem,      \* the holder of ftl_sem
    depth,    \* how many times it holds it
    doing,    \* g_doingGarbageCollection
    leaked,   \* has ftl_write returned FTL_WRITE_ERROR_ERASE_FAIL?
    job,      \* the call each task is in
    at        \* and where it stands in it

vars == <<mutex, sem, depth, doing, leaked, job, at>>

Init ==
    /\ mutex = NoTask /\ sem = NoTask /\ depth = 0 /\ doing = FALSE
    /\ leaked = FALSE
    /\ job = [t \in Task |-> "none"]
    /\ at = [t \in Task |-> "out"]

Inside == {"writing", "collecting", "copying"}

\* How many times the calls that task t is in have taken ftl_sem.
Taken(t) ==
    (IF at[t] \in Inside THEN 1 ELSE 0)
    + (IF at[t] = "copying" THEN 1 ELSE 0)
    + (IF job[t] = "save" /\ at[t] \in {"collect", "collecting", "copying"}
       THEN 1 ELSE 0)

\* A write that fails leaves ftl_sem taken.
Leak(t) == depth - Taken(t) < MaxLeaks /\ leaked' = TRUE

Goto(t, label) == at' = [at EXCEPT ![t] = label]

\* xSemaphoreTakeRecursive and xSemaphoreGiveRecursive on ftl_sem
\* (SemTimedOut is a mutant of SemFree: the take gives up waiting and its result
\* is not looked at.)
SemTimedOut(t) == TRUE

SemFree(t) == sem \in {NoTask, t}
TakeSem(t) == SemFree(t) /\ sem' = t /\ depth' = depth + 1

\* Mutants of GiveSem: a give releases all the takes, or the last one releases
\* nothing.
GiveSemWhole(t) == sem = t /\ depth' = 0 /\ sem' = NoTask

GiveSemNever(t) == sem = t /\ depth' = depth - 1 /\ sem' = t

GiveSem(t) == /\ sem = t
              /\ depth' = depth - 1
              /\ sem' = IF depth = 1 THEN NoTask ELSE t
-----------------------------------------------------------------------------
(* ftl_save_to_storage and ftl_load_from_storage *)

Call(t) ==
    /\ at[t] = "out"
    /\ \E j \in {"save", "load", "collect"} :
          /\ job' = [job EXCEPT ![t] = j]
          /\ Goto(t, IF j = "collect" THEN "collect" ELSE "lock")
    /\ UNCHANGED <<mutex, sem, depth, doing, leaked>>

Lock(t) ==
    /\ at[t] = "lock" /\ mutex = NoTask
    /\ mutex' = t
    /\ Goto(t, IF job[t] = "save" THEN "write" ELSE "unlock")
    /\ UNCHANGED <<sem, depth, doing, leaked, job>>

\* ERROR_MUTEX_GET_TIMEOUT
Timeout(t) ==
    /\ at[t] = "lock" /\ mutex # NoTask
    /\ job' = [job EXCEPT ![t] = "none"] /\ Goto(t, "out")
    /\ UNCHANGED <<mutex, sem, depth, doing, leaked>>

Unlock(t) ==
    /\ at[t] = "unlock"
    /\ mutex' = NoTask
    /\ job' = [job EXCEPT ![t] = "none"] /\ Goto(t, "out")
    /\ UNCHANGED <<sem, depth, doing, leaked>>
-----------------------------------------------------------------------------
(* ftl_write of a save *)

Write(t) ==
    /\ at[t] = "write"
    /\ TakeSem(t)
    /\ Goto(t, "writing")
    /\ UNCHANGED <<mutex, doing, leaked, job>>

\* Mutant of Written: the give before the return is missing.
WrittenLeaks(t) ==
    /\ at[t] = "writing"
    /\ \E l \in {"write", "unlock"} : Goto(t, l)
    /\ UNCHANGED <<mutex, sem, depth, doing, leaked, job>>

\* The record is written; the save has more words or is done.
Written(t) ==
    /\ at[t] = "writing"
    /\ GiveSem(t)
    /\ \E l \in {"write", "unlock"} : Goto(t, l)
    /\ UNCHANGED <<mutex, doing, leaked, job>>

\* The page is full and the last free page was formatted: collect, then retry.
Rollover(t) ==
    /\ at[t] = "writing" /\ ~doing
    /\ Goto(t, "collect")
    /\ UNCHANGED <<mutex, sem, depth, doing, leaked, job>>

\* return FTL_WRITE_ERROR_ERASE_FAIL; the save breaks off.
WriteFails(t) ==
    /\ at[t] = "writing" /\ Leak(t)
    /\ Goto(t, "unlock")
    /\ UNCHANGED <<mutex, sem, depth, doing, job>>
-----------------------------------------------------------------------------
(* ftl_page_garbage_collect *)

Collect(t) ==
    /\ at[t] = "collect"
    /\ TakeSem(t)
    /\ doing' = TRUE
    /\ Goto(t, "collecting")
    /\ UNCHANGED <<mutex, job, leaked>>

\* ftl_write of a live record; no collection inside it as doing is set.
Copy(t) ==
    /\ at[t] = "collecting"
    /\ TakeSem(t)
    /\ Goto(t, "copying")
    /\ UNCHANGED <<mutex, doing, leaked, job>>

Copied(t) ==
    /\ at[t] = "copying"
    /\ GiveSem(t)
    /\ Goto(t, "collecting")
    /\ UNCHANGED <<mutex, doing, leaked, job>>

CopyFails(t) ==
    /\ at[t] = "copying" /\ Leak(t)
    /\ Goto(t, "collecting")
    /\ UNCHANGED <<mutex, sem, depth, doing, job>>

Collected(t) ==
    /\ at[t] = "collecting"
    /\ GiveSem(t)
    /\ doing' = FALSE
    /\ IF job[t] = "save"
       THEN Goto(t, "writing") /\ job' = job
       ELSE Goto(t, "out") /\ job' = [job EXCEPT ![t] = "none"]
    /\ UNCHANGED <<mutex, leaked>>
-----------------------------------------------------------------------------
Next ==
    \E t \in Task :
        \/ Call(t) \/ Lock(t) \/ Timeout(t) \/ Unlock(t)
        \/ Write(t) \/ Written(t) \/ Rollover(t) \/ WriteFails(t)
        \/ Collect(t) \/ Copy(t) \/ Copied(t) \/ CopyFails(t) \/ Collected(t)

Spec == Init /\ [][Next]_vars

\* A task in a call runs on, and takes ftl_sem if it goes on being free; a save and
\* a collection come to an end.  Who is served when ftl_sem is given back is left
\* open: FreeRTOS wakes a waiting task by its priority and hands it nothing over.
Fairness ==
    \A t \in Task :
        /\ WF_vars(Lock(t) \/ Timeout(t) \/ Unlock(t) \/ Copied(t))
        /\ WF_vars(Write(t)) /\ WF_vars(Collect(t))
        /\ SF_vars(Written(t) /\ at'[t] = "unlock") /\ SF_vars(Collected(t))

FairSpec == Spec /\ Fairness
-----------------------------------------------------------------------------
TypeOK ==
    /\ mutex \in Task \cup {NoTask} /\ sem \in Task \cup {NoTask}
    /\ depth \in 0 .. 3 + MaxLeaks /\ doing \in BOOLEAN /\ leaked \in BOOLEAN
    /\ job \in [Task -> {"none", "save", "load", "collect"}]
    /\ at \in [Task -> {"out", "lock", "unlock", "write", "collect"} \cup Inside]

\* Two tasks never write to the log, or collect it, at the same time, although
\* only some of the callers hold ftl_mutex_lock.
OneWriter == \A t, u \in Task : at[t] \in Inside /\ at[u] \in Inside => t = u

\* Unless a format has failed, ftl_sem is held exactly as often as the calls
\* under way will give it back: a call that returns has given back all it took.
SemBalanced ==
    ~leaked =>
        /\ sem = NoTask => depth = 0
        /\ \A t \in Task : Taken(t) = IF sem = t THEN depth ELSE 0

\* A call of ftl_page_garbage_collect from outside ftl.c, which takes ftl_sem without
\* ftl_mutex_lock
CallsCollect == \E t \in Task : job[t] = "none" /\ job'[t] = "collect"

\* Another task than t keeps ftl_sem that a failed format has leaked to it.
ShutOut(t) == leaked /\ ~SemFree(t)

\* Unless collections are asked for for ever, a task that got ftl_mutex_lock gives
\* it back, whichever of the waiting tasks gets ftl_sem each time; a failed format
\* shuts it out only if it was another task's.
MutexComesBack ==
    <>[][~CallsCollect]_vars =>
        \A t \in Task : mutex = t ~> (mutex # t \/ ShutOut(t))
=============================================================================
