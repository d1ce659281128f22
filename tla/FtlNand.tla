------------------------------ MODULE FtlNand ------------------------------
(***************************************************************************)
(* Bad-block management of the NAND flash under the FTL and the file       *)
(* systems: src/component/file_system/ftl_common/ftl_nand_api.c.           *)
(*                                                                         *)
(* Logical blocks are the physical blocks below rba_offset.  One that goes *)
(* bad is entered in a table and replaced by a block of the reserve; the   *)
(* table is kept in RAM and, in two copies, in the last blocks.  Calls are *)
(* serialised by ftl_lock; power may be lost at every flash operation, so  *)
(* each page that is programmed and each block that is erased is a step.   *)
(* To erase a block is to remove its mark too.                             *)
(***************************************************************************)
EXTENDS Integers, FiniteSets, FiniteSetsExt

CONSTANTS
    D, R, T,      \* numbers of data, reserve and table blocks
    P,            \* page_per_blk
    Offsets,      \* places in a page: a write fills one of them
    Val, Blank,   \* words, and the erased word
    Words,        \* those that calls write
    Junk,         \* what a failed program leaves
    Unknown,      \* no value: see want
    FactoryBad,   \* blocks marked bad in their spare area when new
    Breakable,    \* blocks whose programs and erases may fail
    TagFails,     \* may the erase and the mark of a bad block fail?
    FTL_MAX_RETRY

Data == 0 .. D - 1
Reserve == D .. D + R - 1                          \* from rba_offset
TableBlock == D + R .. D + R + T - 1               \* from bbmt_offset
Block == 0 .. D + R + T - 1
Pages == 0 .. P - 1

\* pbbt_size exceeds the number of blocks that go bad.
ASSUME NandAssumption ==
    /\ D \in Nat /\ D > 0 /\ R \in Nat /\ R > 0 /\ T \in Nat /\ T > 0
    /\ P \in Nat /\ P > 0
    /\ 0 \in Offsets
    /\ Words \subseteq Val \cup {Blank}
    /\ Blank \notin Val /\ Junk \notin Val \cup {Blank}
    /\ Unknown \notin Val \cup {Blank, Junk}
    /\ FactoryBad \subseteq Block /\ Breakable \subseteq Block
    /\ TagFails \in BOOLEAN
    /\ FTL_MAX_RETRY \in Nat /\ FTL_MAX_RETRY > 0

\* An entry of pbbt: a block without one is good, and the remap_block of a bad
\* one may be 0xffff.
Good == -1
Unmapped == -2
NoBlock == -1
Tables == [Block -> Reserve \cup {Good, Unmapped}]
NoTable == <<>>

BlankPage == [o \in Offsets |-> Blank]
JunkPage == [o \in Offsets |-> Junk]
BlankBlock == [p \in Pages |-> BlankPage]
Content == [Pages -> [Offsets -> Val \cup {Blank, Junk}]]

VARIABLES
    data,     \* the pages of the data and reserve blocks
    tag,      \* blocks with a mark in the spare area of their first page
    copies,   \* what is in the table blocks
    tbl,      \* bbm_info->pbbt
    buf,      \* bbm_info->block_buf
    pc,       \* where the running call stands
    req,      \* its arguments
    to,       \* the physical block it works on
    next,     \* the next page or table block of a loop
    count,    \* the retries made, or the copies written
    want      \* what a read of each place must return, for all that the code
              \* promises: a history variable, see Unknown

flash == <<data, tag, copies>>
vars == <<data, tag, copies, tbl, buf, pc, req, to, next, count, want>>

\* A place that may have been lost: power was lost in a call that writes its
\* block, or when the saved table did not say where its block is, or the code
\* returned success although it gave the write up, erased a block without knowing
\* where it is, or blanked the page by an erase that failed.
UnknownPage == [o \in Offsets |-> Unknown]
UnknownBlock == [p \in Pages |-> UnknownPage]

NoReq == [block |-> NoBlock, page |-> 0, off |-> 0, val |-> Blank]
-----------------------------------------------------------------------------
IsBad(t, b) == t[b] # Good                          \* bbm_is_bad_block

\* Mutant: a reserve block in use is taken for free.
FreeReserveUsed(t) == {r \in Reserve : ~IsBad(t, r)}

\* bbm_find_free_block
FreeReserve(t) == {r \in Reserve : ~IsBad(t, r) /\ \A b \in Block : t[b] # r}

\* Mutant: a reserve block that went bad itself is not replaced.
FindRemapBad(t, b) ==
    IF t[b] \in Reserve THEN t[b]
    ELSE IF FreeReserve(t) = {} THEN NoBlock
    ELSE Min(FreeReserve(t))

\* bbm_find_remap_block for a bad block: the block it returns...
FindRemap(t, b) ==
    IF t[b] \in Reserve /\ ~IsBad(t, t[b]) THEN t[b]
    ELSE IF FreeReserve(t) = {} THEN NoBlock
    ELSE Min(FreeReserve(t))

\* Mutant: the block found is not entered in the table.
RemappedNowhere(t, b) == t

\* ...and the table it leaves in RAM.
Remapped(t, b) ==
    IF FindRemap(t, b) = NoBlock THEN t ELSE [t EXCEPT ![b] = FindRemap(t, b)]

\* Where a read or an erase of block b goes: remap_block stays 0 if there is no
\* block left.
Where(t, b) ==
    IF ~IsBad(t, b) THEN b
    ELSE IF FindRemap(t, b) = NoBlock THEN 0
    ELSE FindRemap(t, b)

\* bbm_mark_bad_block, before the block is tagged
MarkBad(b) == tbl' = [tbl EXCEPT ![b] = IF IsBad(tbl, b) THEN @ ELSE Unmapped]

\* The table that ftl_init_nand starts with: that of the first table block
\* without a mark, or a new one made of the marks.
NewTable == [b \in Block |-> IF b \in tag THEN Unmapped ELSE Good]
Loaded ==
    LET first == Min(TableBlock \ tag)
    IN  IF TableBlock \subseteq tag THEN NoTable ELSE copies[first]
Saved == IF Loaded = NoTable THEN NewTable ELSE Loaded
-----------------------------------------------------------------------------
Init ==
    /\ data = [b \in Data \cup Reserve |-> BlankBlock]
    /\ tag = FactoryBad
    /\ copies = [c \in TableBlock |-> NoTable]
    /\ tbl = [b \in Block |-> Good]
    /\ buf = BlankBlock
    /\ pc = "off" /\ req = NoReq /\ to = 0 /\ next = 0 /\ count = 0
    /\ want = [b \in Data |-> IF b \in FactoryBad THEN UnknownBlock ELSE BlankBlock]

\* bbm_update_table starts at the first table block.
StartUpdate == pc' = "update" /\ next' = D + R /\ count' = 0

\* bbm_check_is_init, or bbm_create_nand and the writing of its table
Boot ==
    /\ pc = "off"
    /\ tbl' = Saved
    /\ IF Loaded = NoTable THEN StartUpdate
                           ELSE pc' = "idle" /\ UNCHANGED <<next, count>>
    /\ UNCHANGED <<data, tag, copies, buf, req, to, want>>

Crash ==
    /\ pc # "off"
    /\ want' = [b \in Data |->
                 IF b = req.block \/ Saved[b] # tbl[b] \/ Saved[b] = Unmapped
                 THEN UnknownBlock ELSE want[b]]
    /\ tbl' = [b \in Block |-> Good] /\ buf' = BlankBlock
    /\ pc' = "off" /\ req' = NoReq /\ to' = 0 /\ next' = 0 /\ count' = 0
    /\ UNCHANGED <<data, tag, copies>>

Return ==
    /\ pc' = "idle" /\ req' = NoReq /\ to' = 0 /\ next' = 0 /\ count' = 0
    /\ buf' = BlankBlock
-----------------------------------------------------------------------------
(* ftl_read_nand and ftl_erase_nand *)

\* A read changes nothing but the table in RAM.  So does an erase whose every try
\* fails: the block is not marked.
Read(b) ==
    /\ pc = "idle" /\ IsBad(tbl, b)
    /\ tbl' = Remapped(tbl, b) /\ tbl' # tbl
    /\ UNCHANGED <<data, tag, copies, buf, pc, req, to, next, count, want>>

Erase(b) ==
    /\ pc = "idle"
    /\ tbl' = IF IsBad(tbl, b) THEN Remapped(tbl, b) ELSE tbl
    /\ data' = [data EXCEPT ![Where(tbl, b)] = BlankBlock]
    /\ tag' = tag \ {Where(tbl, b)}
    /\ want' = IF IsBad(tbl, b) /\ FindRemap(tbl, b) = NoBlock
               THEN [want EXCEPT ![b] = UnknownBlock, ![0] = UnknownBlock]
               ELSE [want EXCEPT ![b] = BlankBlock]
    /\ UNCHANGED <<copies, buf, pc, req, to, next, count>>
-----------------------------------------------------------------------------
(* ftl_write_nand *)

Write(b, p, o, v) ==
    /\ pc = "idle"
    /\ req' = [block |-> b, page |-> p, off |-> o, val |-> v]
    /\ want' = [want EXCEPT ![b][p][o] = v]
    /\ IF ~IsBad(tbl, b) THEN pc' = "write" /\ to' = b /\ tbl' = tbl
       ELSE /\ tbl' = Remapped(tbl, b)
            /\ to' = FindRemap(tbl, b)
            /\ pc' = IF to' = NoBlock THEN "retry" ELSE "write"
    /\ UNCHANGED <<data, tag, copies, buf, next, count>>

PageFree == data[to][req.page] = BlankPage          \* bbm_nand_is_free

\* bbm_nand_write on a blank page: bbm_nand_write_direct
WriteDirect ==
    /\ pc = "write" /\ PageFree
    /\ data' = [data EXCEPT ![to][req.page][req.off] = req.val]
    /\ Return
    /\ UNCHANGED <<tag, copies, tbl, want>>

\* It fails.  The block is read and what was to be written is put into the
\* copy, whatever its offset, at the start of the page.
DirectFails ==
    /\ pc = "write" /\ PageFree /\ req.val # Blank /\ to \in Breakable
    /\ data' = [data EXCEPT ![to][req.page] = JunkPage]
    /\ buf' = [data'[to] EXCEPT ![req.page][0] = req.val]
    /\ MarkBad(to)
    /\ pc' = "tag"
    /\ UNCHANGED <<tag, copies, req, to, next, count, want>>

\* nand_erase_cb, whose result is not looked at, before bbm_nand_write_block, which
\* skips the blank pages of content
StartBlock(block, content) ==
    /\ \/ /\ data' = [data EXCEPT ![block] = BlankBlock] /\ tag' = tag \ {block}
          /\ want' = want
       \/ /\ block \in Breakable /\ UNCHANGED <<data, tag>>
          /\ want' = [want EXCEPT ![req.block] = [p \in Pages |->
                        IF content[p] = BlankPage /\ data[block][p] # BlankPage
                        THEN UnknownPage ELSE @[p]]]
    /\ next' = 0

\* bbm_nand_write on a used page: read the block, change the copy, and write it
Rewrite ==
    /\ pc = "write" /\ ~PageFree
    /\ buf' = [data[to] EXCEPT ![req.page][req.off] = req.val]
    /\ StartBlock(to, buf') /\ pc' = "program"
    /\ UNCHANGED <<copies, tbl, req, to, count>>

\* bbm_nand_write_block skips blank pages.
Unwritten == {p \in Pages : p >= next /\ buf[p] # BlankPage}

\* A page reads back as programmed if it was erased.
ProgramPage ==
    /\ pc \in {"program", "reprogram"} /\ Unwritten # {}
    /\ LET p == Min(Unwritten)
       IN  /\ data[to][p] \in {BlankPage, buf[p]}
           /\ data' = [data EXCEPT ![to][p] = buf[p]]
           /\ next' = p + 1
    /\ UNCHANGED <<tag, copies, tbl, buf, pc, req, to, count, want>>

Programmed ==
    /\ pc = "program" /\ Unwritten = {}
    /\ Return
    /\ UNCHANGED <<data, tag, copies, tbl, want>>

Spoil == to \in Breakable /\ data' = [data EXCEPT ![to][Min(Unwritten)] = JunkPage]

ProgramFails ==
    /\ pc = "program" /\ Unwritten # {}
    /\ Spoil /\ MarkBad(to)
    /\ pc' = "tag"
    /\ UNCHANGED <<tag, copies, buf, req, to, next, count, want>>

\* bbm_mark_tag_block: the block is erased, if it still can be, and its mark is
\* written.
Tag ==
    /\ pc = "tag"
    /\ data' \in {[data EXCEPT ![to] = BlankBlock]} \cup (IF TagFails THEN {data} ELSE {})
    /\ tag' \in {tag \cup {to}} \cup (IF TagFails THEN {tag, tag \ {to}} ELSE {})
    /\ pc' = "retry" /\ count' = 0
    /\ UNCHANGED <<copies, tbl, buf, req, to, next, want>>
-----------------------------------------------------------------------------
(* The recovery in ftl_write_nand: the copy is written to a reserve block. *)

Retry ==
    /\ pc = "retry" /\ FindRemap(tbl, req.block) # NoBlock
    /\ to' = FindRemap(tbl, req.block)
    /\ tbl' = Remapped(tbl, req.block)
    /\ StartBlock(to', buf) /\ pc' = "reprogram"
    /\ UNCHANGED <<copies, buf, req, count>>

\* No reserve block is left: the write is given up, but not reported to fail.
NoReserve ==
    /\ pc = "retry" /\ FindRemap(tbl, req.block) = NoBlock
    /\ want' = [want EXCEPT ![req.block] = UnknownBlock]
    /\ StartUpdate
    /\ UNCHANGED <<data, tag, copies, tbl, buf, req, to>>

\* Mutant: the table is not saved when the recovery has succeeded.
ReprogrammedUnsaved ==
    /\ pc = "reprogram" /\ Unwritten = {}
    /\ Return
    /\ UNCHANGED <<data, tag, copies, tbl, want>>

Reprogrammed ==
    /\ pc = "reprogram" /\ Unwritten = {}
    /\ StartUpdate
    /\ UNCHANGED <<data, tag, copies, tbl, buf, req, to, want>>

\* Mutant: the retries are not counted.
ReprogramFailsAgain ==
    /\ pc = "reprogram" /\ Unwritten # {}
    /\ Spoil
    /\ pc' = "retry" /\ count' = count + 1
    /\ UNCHANGED <<tag, copies, tbl, buf, req, to, next, want>>

\* The same block is tried again, until the write is given up.
ReprogramFails ==
    /\ pc = "reprogram" /\ Unwritten # {}
    /\ Spoil
    /\ IF count + 1 < FTL_MAX_RETRY
       THEN pc' = "retry" /\ count' = count + 1 /\ UNCHANGED <<next, want>>
       ELSE StartUpdate /\ want' = [want EXCEPT ![req.block] = UnknownBlock]
    /\ UNCHANGED <<tag, copies, tbl, buf, req, to>>
-----------------------------------------------------------------------------
(* bbm_update_table: the table is written to two of the table blocks. *)

Usable == {c \in TableBlock : c >= next /\ ~IsBad(tbl, c)}
Updating == pc = "update" /\ count < 2 /\ Usable # {}

EraseCopy ==
    /\ Updating
    /\ copies[Min(Usable)] # NoTable
    /\ copies' = [copies EXCEPT ![Min(Usable)] = NoTable]
    /\ tag' = tag \ {Min(Usable)}
    /\ UNCHANGED <<data, tbl, buf, pc, req, to, next, count, want>>

WriteCopy ==
    /\ Updating
    /\ copies[Min(Usable)] = NoTable
    /\ copies' = [copies EXCEPT ![Min(Usable)] = tbl]
    /\ next' = Min(Usable) + 1 /\ count' = count + 1
    /\ UNCHANGED <<data, tag, tbl, buf, pc, req, to, want>>

\* The block is marked bad, and the loop goes on with the next one.
CopyFails ==
    LET c == Min(Usable)
    IN  /\ Updating /\ c \in Breakable
        /\ copies' \in {[copies EXCEPT ![c] = NoTable]} \cup (IF TagFails THEN {copies} ELSE {})
        /\ MarkBad(c)
        /\ tag' \in {tag \cup {c}} \cup (IF TagFails THEN {tag, tag \ {c}} ELSE {})
        /\ next' = c + 1
        /\ UNCHANGED <<data, buf, pc, req, to, count, want>>

\* What is returned is the result of the last table write.
Updated ==
    /\ pc = "update" /\ ~Updating
    /\ Return
    /\ UNCHANGED <<data, tag, copies, tbl, want>>
-----------------------------------------------------------------------------
Next ==
    \/ Boot \/ Crash
    \/ \E b \in Data : Read(b) \/ Erase(b)
    \/ \E b \in Data, p \in Pages, o \in Offsets, v \in Words : Write(b, p, o, v)
    \/ WriteDirect \/ DirectFails \/ Rewrite \/ ProgramPage \/ Programmed
    \/ ProgramFails \/ Tag
    \/ Retry \/ NoReserve \/ Reprogrammed \/ ReprogramFails
    \/ EraseCopy \/ WriteCopy \/ CopyFails \/ Updated

Spec == Init /\ [][Next]_vars
-----------------------------------------------------------------------------
TypeOK ==
    /\ data \in [Data \cup Reserve -> Content]
    /\ tag \subseteq Block
    /\ copies \in [TableBlock -> Tables \cup {NoTable}]
    /\ tbl \in Tables
    /\ buf \in Content
    /\ pc \in {"off", "idle", "write", "program", "tag", "retry", "reprogram", "update"}
    /\ req \in [block : Data \cup {NoBlock}, page : Pages, off : Offsets, val : Val \cup {Blank}]
    /\ to \in Data \cup Reserve \cup {NoBlock}
    /\ next \in 0 .. D + R + T + P /\ count \in 0 .. FTL_MAX_RETRY + 2
    /\ want \in [Data -> [Pages -> [Offsets -> Val \cup {Blank, Unknown}]]]

\* No two bad blocks are replaced by the same reserve block, in RAM and in every
\* table that may be loaded: a write to one logical block never changes another.
NoSharedReserve ==
    \A t \in {tbl} \cup ({copies[c] : c \in TableBlock} \ {NoTable}) :
        \A a, b \in Block : t[a] \in Reserve /\ t[a] = t[b] => a = b

\* No block found bad is erased or programmed to hold data.
WritesGoodBlocks ==
    pc \in {"write", "program", "reprogram"} => ~IsBad(tbl, to)

\* Between two calls a read returns what was written last, also to a block that
\* went bad in a write and in every restart since: a power loss costs at most the
\* block that is being written and those whose place was not saved.
ReadsBack ==
    pc = "idle" => \A b \in Data, p \in Pages, o \in Offsets :
        want[b][p][o] \in {Unknown, data[Where(tbl, b)][p][o]}

\* Between two calls every bad block in the table in RAM, other than a table
\* block, is bad in the table that a restart loads.
BadBlocksSurvive ==
    pc = "idle" => \A b \in Data \cup Reserve : IsBad(tbl, b) => IsBad(Saved, b)

\* "Use the remap block" (ftl_nand_api.c:394): a restart between two calls changes
\* what is read nowhere.
RestartKeepsData ==
    pc = "idle" => \A b \in Data : data[Where(Saved, b)] = data[Where(tbl, b)]
=============================================================================
