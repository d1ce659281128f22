----------------------------- MODULE FtlReader -----------------------------
(***************************************************************************)
(* A task that loads a word while the calls of module Ftl run.             *)
(*                                                                         *)
(* ftl_load_from_storage and ftl_save_to_storage hold ftl_mutex_lock;      *)
(* ftl_write and ftl_page_garbage_collect hold ftl_sem, ftl_read neither.  *)
(* So a load excludes a save, with the collection inside it, and nothing   *)
(* else: not a collection in the idle task or in ftl_ioctl.                *)
(***************************************************************************)
EXTENDS FtlLog

VARIABLE rd               \* the load under way

allVars == <<vars, rd>>

NoLoad == [at |-> "out", addr |-> 0, phy |-> 0,
           res |-> [ret |-> "none", val |-> Blank]]

ReaderInit == Init /\ rd = NoLoad

\* ftl_mutex_lock is taken and the mapping table is read.
Load(a) ==
    /\ rd = NoLoad /\ Mounted /\ op.kind # "save"
    /\ rd' = [NoLoad EXCEPT !.addr = a, !.phy = map[a],
                            !.at = IF map[a] = 0 THEN "done" ELSE "key"]
    /\ UNCHANGED vars

\* The key word the table pointed to is read and checked.
LoadKey ==
    /\ rd.at = "key"
    /\ LET key == cell[PageOf(rd.phy)][IndexOf(rd.phy) + 1]
       IN  rd' = IF key = KeyOf(rd.addr)
                 THEN [rd EXCEPT !.at = "data"]
                 ELSE [rd EXCEPT !.at = "done", !.res.ret = "error"]
    /\ UNCHANGED vars

LoadData ==
    /\ rd.at = "data"
    /\ rd' = [rd EXCEPT !.at = "done",
                        !.res = [ret |-> "ok",
                                 val |-> cell[PageOf(rd.phy)][IndexOf(rd.phy)]]]
    /\ UNCHANGED vars

\* The load returns, and ftl_mutex_lock is free again.
LoadReturns == rd.at = "done" /\ rd' = NoLoad /\ UNCHANGED vars

\* Mutant of SaveWaits: a save does not take ftl_mutex_lock.
SaveGoesOn == TRUE

\* A save waits for ftl_mutex_lock.
SaveWaits == op.kind # "save" /\ op'.kind = "save" => rd = NoLoad

ReaderNext ==
    \/ (Step \/ Request) /\ SaveWaits /\ UNCHANGED rd
    \/ PowerLoss /\ rd' = NoLoad
    \/ \E a \in Addr : Load(a)
    \/ LoadKey \/ LoadData \/ LoadReturns

ReaderSpec == ReaderInit /\ [][ReaderNext]_allVars
-----------------------------------------------------------------------------
\* A load returns the stored word: nothing moves or erases the record between
\* the look-up, the check of its key and the read of its data.
LoadIsCurrent ==
    rd.at = "done" =>
        rd.res = IF LogValue[rd.addr] = None
                 THEN [ret |-> "none", val |-> Blank]
                 ELSE [ret |-> "ok", val |-> LogValue[rd.addr]]

\* What a load returns with success is the stored word (it may fail).
LoadIsNeverWrong ==
    rd.at = "done" /\ rd.res.ret = "ok" => rd.res.val = LogValue[rd.addr]
=============================================================================
