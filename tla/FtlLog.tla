------------------------------- MODULE FtlLog -------------------------------
(***************************************************************************)
(* What the flash contents of module Ftl mean - the words a boot would     *)
(* recover from them - and the properties of Ftl that are stated in terms  *)
(* of it.                                                                  *)
(***************************************************************************)
EXTENDS Ftl

CONSTANT None             \* no word is stored

\* The mark of no word is not a word of the flash.
ASSUME LogAssumption == None \notin Word

\* Page p is valid and i pages of the ring before it, with i consecutive
\* sequence numbers, lead up to it.
Follows(p, i) ==
    /\ Valid(p)
    /\ \A j \in 1 .. i : /\ Valid(Back(p, j))
                        /\ seq[Back(p, j)] = (seq[p] + SeqMod - j) % SeqMod

\* The newest pages of the log, those that no page continues.  There is one,
\* unless a clear is under way or was cut short.
Newest == {p \in Page : Valid(p) /\ ~Follows((p + 1) % N, 1)}

\* The complete records of address a in the log that ends with page p: pairs
\* of a number of pages back and the index of a key word.
Records(p, a) ==
    UNION {{i} \X {k \in Cell : k % 2 = 1 /\ cell[Back(p, i)][k] = KeyOf(a)} :
              i \in {j \in 0 .. N - 1 : Follows(p, j)}}

Later(r, s) == r[1] < s[1] \/ (r[1] = s[1] /\ r[2] >= s[2])

\* The words a boot should recover: the last complete record of each address.
\* (p ranges over one page; binding it this way has TLC compute it once.)
LogFrom(p) ==
    [a \in Addr |->
        LET records == Records(p, a)
            r == CHOOSE r \in records : \A s \in records : Later(r, s)
        IN  IF records = {} THEN None ELSE cell[Back(p, r[1])][r[2] - 1]]

LogValue == IF Newest = {} THEN [a \in Addr |-> None]
            ELSE CHOOSE v \in {LogFrom(p) : p \in Newest} : TRUE

Mounted == pc # "off" /\ op.kind \notin {"boot", "wipe"}
-----------------------------------------------------------------------------
\* Refinement: the FTL is a durable store, whatever page rolls over, whatever
\* is collected, and wherever power is lost.
Store == INSTANCE FtlStore WITH
    store   <- LogValue,
    pend    <- CASE op.kind = "save" -> [kind |-> "save", addr |-> op.wr.addr,
                                         val |-> op.wr.val]
                 [] op.kind = "clear" -> [kind |-> "clear"]
                 [] OTHER -> [kind |-> "none"],
    up      <- Mounted,
    MayFail <- EraseFaults

\* The FTL implements FtlStore: a save commits with the flash write of its key
\* word and not before, and no step of a rollover, a collection, a sweep or a
\* boot - nor power lost in the middle of one - changes a stored word.
StoreSpec == Store!Spec

\* ftl_read goes through the mapping table in RAM only.  What it returns is
\* what a boot would recover, at every step of every call (save the clearing
\* of the whole store): the RAM table never lags behind, or points at a record
\* that a collection moved or erased.
ReadsAgreeWithLog ==
    Mounted /\ op.kind # "clear" =>
        LET log == LogValue
        IN  \A a \in Addr :
                ReadResult(a) = IF log[a] = None
                                THEN [ret |-> "none", val |-> Blank]
                                ELSE [ret |-> "ok", val |-> log[a]]
=============================================================================
