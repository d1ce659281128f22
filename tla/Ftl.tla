--------------------------------- MODULE Ftl ---------------------------------
(***************************************************************************)
(* The flash translation layer of src/component/file_system/ftl/ftl.c: a   *)
(* log of (data word, key word) records over a ring of erasable pages,     *)
(* with the mapping table, garbage collection and power-loss recovery      *)
(* (FTL_USE_MAPPING_TABLE = 1, FTL_ONLY_GC_IN_IDLE = 0).                   *)
(*                                                                         *)
(* Every word the code writes to flash and every sector it erases is one   *)
(* step, because power may be lost between any two of them.  What runs     *)
(* between two flash operations is part of the step that precedes it.      *)
(***************************************************************************)
EXTENDS Integers, FiniteSets, FiniteSetsExt

CONSTANTS
    N,            \* g_PAGE_num, pages given to ftl_init
    E,            \* PAGE_element, words in a page
    SeqMod,       \* page sequence numbers are kept modulo SeqMod (256)
    Addr,         \* logical addresses of single words
    Value,        \* words an application saves
    Saves,        \* what it may save: a set of <<address, word>>
    Blank,        \* WRITABLE_32BIT, the erased word
    Requests,     \* requests made of a mounted FTL
    GcPages,      \* page thresholds of a requested garbage collection
    GcCells,      \* its cell thresholds
    TornCrash,    \* may power be lost between the two words of a record?
    ClearCrash,   \* may power be lost during FTL_IOCTL_CLEAR_ALL?
    Cuts,         \* places in a sector where power may be lost while the sector
                  \* is programmed again to write one word (CONFIG_FTL_EN); {}
                  \* if the flash writes single words
    EraseFaults   \* may the mark written after an erase fail its read-back?

RecordsPerPage == (E \div 2) - 1                 \* PAGE_element_data

\* The mapping table keeps 12 bits of half a word index: N * E <= 2 * 2^12.
\* The rounds of a collection are counted in an int8_t: N <= 128.
\* A collection is only asked for by callers whose page threshold is below N, so
\* that some page is valid when it starts.
\* A key word (a record value here) is never the erased word.
ASSUME FtlAssumption ==
    /\ N \in Nat /\ N >= 3 /\ N <= 128
    /\ E \in Nat /\ E >= 4 /\ E % 2 = 0
    /\ N * E <= 8192
    /\ SeqMod \in Nat /\ SeqMod > N /\ SeqMod <= 256
    /\ IsFiniteSet(Addr) /\ Cardinality(Addr) <= RecordsPerPage * (N - 1) - 1
    /\ Saves \subseteq Addr \X Value
    /\ Blank \notin [addr : Addr]
    /\ Requests \subseteq {"save", "collect", "clear", "sweep"}
    /\ GcPages \subseteq 0 .. N - 1 /\ GcCells \subseteq Nat
    /\ TornCrash \in BOOLEAN /\ ClearCrash \in BOOLEAN /\ Cuts \subseteq 0 .. E
    /\ EraseFaults \in BOOLEAN

Page == 0 .. N - 1
Cell == 2 .. E - 1                    \* indices from INFO_size to the last one
KeyOf(a) == [addr |-> a]              \* ftl_key_init with BIT_VALID written
Key == [addr : Addr]
Word == Value \cup Key \cup {Blank}
Writes == [addr : Addr, val : Word]   \* what ftl_write is given
Entry == 0 .. (N * E) \div 2 - 1      \* of the mapping table

VARIABLES
    status,   \* what INFO_beg of each page says: "blank", "erased" (VER02),
              \* "dead" (0x0) or "valid" (VER01, BIT_VALID cleared)
    seq,      \* sequence number in INFO_beg of a valid page, else 0
    fin,      \* INFO_end: the end position, 0 while unwritten
    cell,     \* the other words of each page
    cur,      \* g_cur_pageID
    free,     \* g_free_cell_index
    freePages,\* g_free_page_count, a uint8_t
    map,      \* ftl_mapping_table: half a word index, 0 for none
    gcing,    \* g_doingGarbageCollection
    pc,       \* where the running call stands
    op,       \* the request being served
    wr,       \* arguments of the ftl_write under way
    gc,       \* locals of the garbage collection or recovery under way
    era,      \* page being erased, and who asked
    idx       \* index of the page loop under way

flash == <<status, seq, fin, cell>>
ram   == <<cur, free, freePages, map>>
call  == <<gcing, pc, op, wr, gc, era, idx>>
vars  == <<flash, ram, call>>

NoWrite == [addr |-> 0, val |-> Blank]
NoGc    == [page |-> 0, key |-> 0, recycled |-> FALSE, retry |-> 0]
NoErase == [page |-> 0, by |-> "none"]
NoOp    == [kind |-> "none", wr |-> NoWrite]
-----------------------------------------------------------------------------
(* Pages *)

Valid(p) == status[p] = "valid"                  \* ftl_page_is_valid() == 0

\* ftl_get_free_page_count: the invalid pages that follow page c in the ring,
\* given the page states st.
FreeCount(st, c) ==
    Max({n \in 0 .. N : \A i \in 1 .. n : st[(c + i) % N] # "valid"})

\* ftl_page_get_oldest: the page at the other end of the used stretch, which is
\* N - FreeCount - 1 pages before page c.
Oldest(st, c) == (c + FreeCount(st, c) + 1) % N

NextPage == (cur + 1) % N
Back(c, i) == (c + N - i) % N                    \* i pages before page c

\* Mutant of HasPrev: the branch for a wrapped sequence number is missing.
HasPrevUnwrapped(p) == Valid(Back(p, 1)) /\ seq[Back(p, 1)] + 1 = seq[p]

\* ftl_get_prev_page succeeds on page p.
HasPrev(p) == LET q == Back(p, 1)
              IN  /\ Valid(q)
                  /\ IF seq[p] # 0 THEN seq[q] + 1 = seq[p]
                                   ELSE seq[q] = SeqMod - 1

\* Mutant of LastKey: the end position is taken for the cell after the last key.
LastKeyBelow(p) == IF fin[p] # 0 THEN fin[p] - 2 ELSE E - 1

\* Where a scan of page p for keys begins.
LastKey(p) == IF fin[p] # 0 THEN fin[p] ELSE E - 1

\* for (; key_index >= 3; key_index -= 2)
ScanFrom(k) == {i \in 3 .. E - 1 : i <= k /\ (k - i) % 2 = 0}
-----------------------------------------------------------------------------
(* The mapping table *)

\* Mutant of Phy: the cell index is stored whole.
PhyWhole(p, c) == p * E + c

Phy(p, c) == (p * E + c) \div 2
PageOf(phy) == (2 * phy) \div E
IndexOf(phy) == (2 * phy) % E

\* Mutant of CanDrop: superseded records are copied too.
CanDropNever(a, p) == FALSE

\* ftl_page_can_addr_drop
CanDrop(a, p) == map[a] # 0 /\ PageOf(map[a]) # p

\* ftl_read through the mapping table: the word, "none" or "error".
ReadResult(a) ==
    LET p == PageOf(map[a])
        i == IndexOf(map[a])
    IN  IF map[a] = 0 THEN [ret |-> "none", val |-> Blank]
        ELSE IF cell[p][i + 1] = KeyOf(a) THEN [ret |-> "ok", val |-> cell[p][i]]
        ELSE [ret |-> "error", val |-> Blank]

\* ftl_mapping_table_init with page c current and f its free cell: pages are
\* walked back from c while ftl_get_prev_page succeeds, the keys of a page from
\* the last one down, and the first key found for an address is kept.
ChainLength(c) ==
    Max({n \in 0 .. N - 1 : \A i \in 0 .. n - 1 : HasPrev(Back(c, i))})

KeysAt(c, f, i, a) ==
    {k \in ScanFrom(IF i = 0 THEN f - 1 ELSE LastKey(Back(c, i))) :
        cell[Back(c, i)][k] = KeyOf(a)}

\* Mutant of MapInit: each key found overwrites the entry, so the oldest stays.
MapInitOldest(c, f) ==
    [a \in Addr |->
        LET hits == {i \in 0 .. ChainLength(c) : KeysAt(c, f, i, a) # {}}
        IN  IF hits = {} THEN 0
            ELSE Phy(Back(c, Max(hits)), Min(KeysAt(c, f, Max(hits), a)) - 1)]

MapInit(c, f) ==
    [a \in Addr |->
        LET hits == {i \in 0 .. ChainLength(c) : KeysAt(c, f, i, a) # {}}
            i == Min(hits)
        IN  IF hits = {} THEN 0
                         ELSE Phy(Back(c, i), Max(KeysAt(c, f, i, a)) - 1)]

\* Mutant of FreeCell: the cell found is taken for the free one.
FreeCellUsed(c) == Max({2} \cup {i \in Cell : cell[c][i] # Blank})

\* ftl_init, find free CELL from bottom.
FreeCell(c) == LET used == {i \in Cell : cell[c][i] # Blank}
               IN  IF used = {} THEN 2 ELSE Max(used) + 1
-----------------------------------------------------------------------------
Init ==
    /\ status = [p \in Page |-> "blank"]
    /\ seq = [p \in Page |-> 0]
    /\ fin = [p \in Page |-> 0]
    /\ cell = [p \in Page |-> [i \in Cell |-> Blank]]
    /\ cur = 0 /\ free = 2 /\ freePages = 0
    /\ map = [a \in Addr |-> 0]
    /\ gcing = FALSE /\ pc = "off" /\ op = NoOp /\ wr = NoWrite
    /\ gc = NoGc /\ era = NoErase /\ idx = 0
-----------------------------------------------------------------------------
(* ftl_write *)

\* A return of ftl_write to whoever called it.  The garbage collector and the
\* recovery ignore what it returns.
Return ==
    /\ wr' = NoWrite
    /\ IF gcing THEN pc' = "scan" /\ op' = op
       ELSE IF op.kind = "boot" THEN pc' = "recover" /\ op' = op
       ELSE pc' = "idle" /\ op' = NoOp

\* One word of ftl_save_to_storage_i.
Save(a, v) ==
    /\ pc = "idle" /\ "save" \in Requests
    /\ wr' = [addr |-> a, val |-> v]
    /\ op' = [kind |-> "save", wr |-> wr']
    /\ pc' = "write"
    /\ UNCHANGED <<flash, ram, gcing, gc, era, idx>>

Full == free + 1 >= E

WriteData ==
    /\ pc = "write" /\ ~Full
    /\ cell' = [cell EXCEPT ![cur][free] = wr.val]
    /\ pc' = "key"
    /\ UNCHANGED <<status, seq, fin, ram, gcing, op, wr, gc, era, idx>>

WriteKey ==
    /\ pc = "key"
    /\ cell' = [cell EXCEPT ![cur][free + 1] = KeyOf(wr.addr)]
    /\ map' = [map EXCEPT ![wr.addr] = Phy(cur, free)]
    /\ free' = free + 2
    /\ Return
    /\ UNCHANGED <<status, seq, fin, cur, freePages, gcing, gc, era, idx>>

\* ftl_set_page_end_position, once per page
SetEnd ==
    /\ pc = "write" /\ Full /\ fin[cur] = 0
    /\ fin' = [fin EXCEPT ![cur] = free - 1]
    /\ UNCHANGED <<status, seq, cell, ram, call>>

\* Mutant of BeginFormat: a page marked invalid is not erased again.
BeginFormatDead(p) ==
    /\ era' = [page |-> p, by |-> "format"]
    /\ pc' = IF status[p] \in {"erased", "dead"} THEN "stamp" ELSE "erase"

\* ftl_page_format(p) up to its first flash operation: ftl_page_erase is a
\* no-op on a page already marked erased.
BeginFormat(p) ==
    /\ era' = [page |-> p, by |-> "format"]
    /\ pc' = IF status[p] = "erased" THEN "stamp" ELSE "erase"

\* Find an invalid page to go on with, or fail with OUT_OF_SPACE.
FindFreePage ==
    /\ pc = "write" /\ Full /\ fin[cur] # 0
    /\ IF Valid(NextPage) THEN Return /\ UNCHANGED era
                          ELSE BeginFormat(NextPage) /\ UNCHANGED <<op, wr>>
    /\ UNCHANGED <<flash, ram, gcing, gc, idx>>
-----------------------------------------------------------------------------
(* ftl_page_erase and ftl_page_format *)

EraseSector ==
    /\ pc = "erase"
    /\ status' = [status EXCEPT ![era.page] = "blank"]
    /\ seq' = [seq EXCEPT ![era.page] = 0]
    /\ fin' = [fin EXCEPT ![era.page] = 0]
    /\ cell' = [cell EXCEPT ![era.page] = [i \in Cell |-> Blank]]
    /\ pc' = "mark"
    /\ UNCHANGED <<ram, gcing, op, wr, gc, era, idx>>

\* The word VER02 is written and reads back.
MarkErased ==
    /\ pc = "mark"
    /\ status' = [status EXCEPT ![era.page] = "erased"]
    /\ UNCHANGED <<seq, fin, cell>>

\* The word VER02 does not read back: ftl_page_erase returns FALSE.
MarkFails ==
    /\ pc = "mark" /\ EraseFaults
    /\ UNCHANGED flash

MarkFormat ==
    /\ era.by = "format" /\ MarkErased
    /\ pc' = "stamp"
    /\ UNCHANGED <<ram, gcing, op, wr, gc, era, idx>>

\* ftl_write returns FTL_WRITE_ERROR_ERASE_FAIL, ftl_ioctl 1; ftl_init gives up.
FormatFails ==
    /\ era.by = "format" /\ MarkFails
    /\ era' = NoErase /\ idx' = 0
    /\ CASE op.kind = "boot" -> pc' = "off" /\ op' = NoOp /\ wr' = NoWrite
         [] op.kind \in {"clear", "wipe"} -> pc' = "idle" /\ op' = NoOp /\ wr' = NoWrite
         [] OTHER             -> Return
    /\ UNCHANGED <<ram, gcing, gc>>

StartGc(st, c) ==
    LET n == FreeCount(st, c)
        p == Oldest(st, c)
    IN  /\ gcing' = TRUE
        /\ gc' = [page |-> p, key |-> LastKey(p), recycled |-> FALSE,
                  retry |-> N - n - 1]
        /\ pc' = "scan"

\* The last word of ftl_page_format makes page p valid, with sequence number s.
StampPage(p, s) ==
    /\ pc = "stamp"
    /\ status' = [status EXCEPT ![p] = "valid"]
    /\ seq' = [seq EXCEPT ![p] = s]
    /\ cur' = p /\ free' = 2
    /\ era' = NoErase
    /\ UNCHANGED <<fin, cell, map>>

\* ftl_write moves to the page; if it was the last free one, it collects.
StampNext ==
    /\ op.kind \in {"save", "collect"}
    /\ StampPage(era.page, (seq[cur] + 1) % SeqMod)
    /\ freePages' = (freePages + 255) % 256
    /\ IF ~gcing /\ freePages' = 0
       THEN StartGc(status', cur') /\ wr' = NoWrite
       ELSE pc' = "write" /\ UNCHANGED <<gcing, gc, wr>>
    /\ UNCHANGED <<op, idx>>

\* The end of FTL_IOCTL_CLEAR_ALL, and of a first ftl_init.
StampFirst ==
    /\ op.kind \in {"boot", "clear", "wipe"}
    /\ StampPage(era.page, 0)
    /\ freePages' = FreeCount(status', cur')
    /\ pc' = "idle" /\ op' = NoOp /\ idx' = 0
    /\ UNCHANGED <<gcing, wr, gc>>
-----------------------------------------------------------------------------
(* ftl_page_garbage_collect *)

\* From FTL_IOCTL_DO_GC_IN_APP and ftl_garbage_collect_in_idle.
Collect(pageThres, cellThres) ==
    /\ pc = "idle" /\ "collect" \in Requests
    /\ freePages <= pageThres /\ free <= cellThres
    /\ StartGc(status, cur)
    /\ op' = [kind |-> "collect", wr |-> NoWrite]
    /\ UNCHANGED <<flash, ram, wr, era, idx>>

\* The keys still to be scanned in the page that are not dropped.
LiveKeys ==
    {k \in ScanFrom(gc.key) :
        \E a \in Addr : cell[gc.page][k] = KeyOf(a) /\ ~CanDrop(a, gc.page)}

\* Scan down to the next live record and call ftl_write with it.
CopyNext ==
    LET k == Max(LiveKeys)
    IN  /\ LiveKeys # {}
        /\ wr' = [addr |-> cell[gc.page][k].addr, val |-> cell[gc.page][k - 1]]
        /\ gc' = [gc EXCEPT !.key = k - 2,
                            !.recycled = @ \/ \E i \in ScanFrom(gc.key) : i > k]
        /\ pc' = "write"
        /\ UNCHANGED <<flash, ram, gcing, op, era, idx>>

CopyLive == pc = "scan" /\ CopyNext

\* Nothing left to copy: erase the page.
CollectPage ==
    /\ pc = "scan" /\ LiveKeys = {}
    /\ gc' = [gc EXCEPT !.recycled = @ \/ ScanFrom(gc.key) # {}]
    /\ era' = [page |-> gc.page, by |-> "collect"]
    /\ pc' = "erase"
    /\ UNCHANGED <<flash, ram, gcing, op, wr, idx>>

\* Mutant of EndGc: g_free_page_count is not counted again.
EndGcStale(st) ==
    /\ freePages' = freePages
    /\ gcing' = FALSE /\ gc' = NoGc /\ era' = NoErase
    /\ wr' = op.wr
    /\ IF op.kind = "save" THEN pc' = "write" /\ op' = op
                           ELSE pc' = "idle" /\ op' = NoOp

\* Back from ftl_page_garbage_collect: to the L_retry of the ftl_write that
\* called it, or to the application.
EndGc(st) ==
    /\ freePages' = FreeCount(st, cur)
    /\ gcing' = FALSE /\ gc' = NoGc /\ era' = NoErase
    /\ wr' = op.wr
    /\ IF op.kind = "save" THEN pc' = "write" /\ op' = op
                           ELSE pc' = "idle" /\ op' = NoOp

\* A round that only copied is followed by another one, on the next page.
MarkCollected ==
    /\ era.by = "collect" /\ MarkErased
    /\ IF ~gc.recycled /\ gc.retry > 0
       THEN LET p == Oldest(status', cur)
            IN  /\ gc' = [page |-> p, key |-> LastKey(p), recycled |-> FALSE,
                          retry |-> gc.retry - 1]
                /\ pc' = "scan" /\ era' = NoErase
                /\ UNCHANGED <<freePages, gcing, op, wr>>
       ELSE EndGc(status')
    /\ UNCHANGED <<cur, free, map, idx>>

CollectFails ==
    /\ era.by = "collect" /\ MarkFails
    /\ EndGc(status)
    /\ UNCHANGED <<cur, free, map, idx>>
-----------------------------------------------------------------------------
(* ftl_ioctl: CLEAR_ALL and ERASE_INVALID_PAGE *)

ClearAll ==
    /\ pc = "idle" /\ "clear" \in Requests
    /\ op' = [kind |-> "clear", wr |-> NoWrite]
    /\ pc' = "clear"
    /\ UNCHANGED <<flash, ram, gcing, wr, gc, era, idx>>

ClearPage ==
    /\ pc = "clear" /\ idx < N
    /\ status' = [status EXCEPT ![idx] = "dead"]
    /\ seq' = [seq EXCEPT ![idx] = 0]
    /\ idx' = idx + 1
    /\ UNCHANGED <<fin, cell, ram, gcing, pc, op, wr, gc, era>>

\* Mutant of ClearTable: the loop stops before the last page.
ClearTableEarly ==
    /\ pc = "clear" /\ idx = N - 1
    /\ map' = [a \in Addr |-> 0]
    /\ cur' = 0 /\ free' = 2
    /\ freePages' = FreeCount(status, 0)
    /\ BeginFormat(0)
    /\ UNCHANGED <<flash, gcing, op, wr, gc, idx>>

ClearTable ==
    /\ pc = "clear" /\ idx = N
    /\ map' = [a \in Addr |-> 0]
    /\ cur' = 0 /\ free' = 2
    /\ freePages' = FreeCount(status, 0)
    /\ BeginFormat(0)
    /\ UNCHANGED <<flash, gcing, op, wr, gc, idx>>

\* Mutant of Unswept: the index of the sweep does not advance.
UnsweptAgain(st, i) == 1 .. FreeCount(st, cur)

\* The invalid pages after the i-th that follow the current one and are not
\* marked erased yet.
Unswept(st, i) ==
    {j \in i + 1 .. FreeCount(st, cur) : st[(cur + j) % N] # "erased"}

\* Go on to the next page of the sweep, or return.
SweepOn(st, i) ==
    IF Unswept(st, i) # {}
    THEN LET j == Min(Unswept(st, i))
         IN  /\ era' = [page |-> (cur + j) % N, by |-> "sweep"]
             /\ idx' = j
             /\ pc' = "erase" /\ op' = [kind |-> "sweep", wr |-> NoWrite]
    ELSE era' = NoErase /\ idx' = 0 /\ pc' = "idle" /\ op' = NoOp

Sweep ==
    /\ pc = "idle" /\ "sweep" \in Requests
    /\ Unswept(status, 0) # {}
    /\ SweepOn(status, 0)
    /\ UNCHANGED <<flash, ram, gcing, wr, gc>>

MarkSwept ==
    /\ era.by = "sweep" /\ MarkErased
    /\ SweepOn(status', idx)
    /\ UNCHANGED <<ram, gcing, wr, gc>>

SweepFails ==
    /\ era.by = "sweep" /\ MarkFails
    /\ SweepOn(status, idx)
    /\ UNCHANGED <<ram, gcing, wr, gc>>
-----------------------------------------------------------------------------
(* ftl_init, and the loss of power *)

\* The page search of ftl_init: best[i] is the newest page found among the
\* first i, -1 for none.  Page p takes over from page b if it is the first valid
\* one or carries the next sequence number.
Newer(p, b) ==
    /\ Valid(p)
    /\ \/ b = -1
       \/ seq[p] = seq[b] + 1
       \/ seq[p] = 0 /\ seq[b] = SeqMod - 1

Search ==
    {best \in [0 .. N -> -1 .. N - 1] :
        /\ best[0] = -1
        /\ \A i \in 1 .. N : best[i] = IF Newer(i - 1, best[i - 1]) THEN i - 1
                                                            ELSE best[i - 1]}

BootOp == [kind |-> "boot", wr |-> NoWrite]

FormatFirst ==
    /\ pc = "off"
    /\ \E best \in Search : best[N] = -1
    /\ op' = BootOp /\ BeginFormat(0)
    /\ UNCHANGED <<flash, ram, gcing, wr, gc, idx>>

\* Free cell, mapping table, and ftl_recover_from_power_lost if no page is free.
Mount ==
    /\ pc = "off"
    /\ \E best \in Search : best[N] # -1 /\ cur' = best[N]
    /\ free' = FreeCell(cur') /\ map' = MapInit(cur', free')
    /\ freePages' = FreeCount(status, cur')
    /\ IF freePages' = 0
       THEN LET p == Oldest(status, cur')
            IN  /\ gc' = [page |-> p, key |-> LastKey(p), recycled |-> FALSE,
                          retry |-> 0]
                /\ pc' = "recover" /\ op' = BootOp
       ELSE gc' = gc /\ pc' = "idle" /\ op' = NoOp
    /\ UNCHANGED <<flash, gcing, wr, era, idx>>

RecoverCopy == pc = "recover" /\ ~Full /\ CopyNext

\* Records are left over when the current page is full: clear everything.
RecoverEnd ==
    /\ pc = "recover" /\ (Full \/ LiveKeys = {})
    /\ status' = [status EXCEPT ![gc.page] = "dead"]
    /\ seq' = [seq EXCEPT ![gc.page] = 0]
    /\ gc' = NoGc
    /\ IF LiveKeys # {}
       THEN /\ pc' = "clear" /\ op' = [kind |-> "wipe", wr |-> NoWrite]
            /\ UNCHANGED freePages
       ELSE /\ pc' = "idle" /\ op' = NoOp
            /\ freePages' = FreeCount(status', cur)
    /\ UNCHANGED <<fin, cell, cur, free, map, gcing, wr, era, idx>>

LoseRam ==
    /\ cur' = 0 /\ free' = 2 /\ freePages' = 0
    /\ map' = [a \in Addr |-> 0]
    /\ gcing' = FALSE /\ pc' = "off" /\ op' = NoOp /\ wr' = NoWrite
    /\ gc' = NoGc /\ era' = NoErase /\ idx' = 0

Clearing == op.kind \in {"clear", "wipe"}

\* Power is lost between two writes: flash survives, RAM does not.
Crash ==
    /\ pc # "off"
    /\ pc = "key" => TornCrash \/ wr.val = Blank
    /\ Clearing => ClearCrash
    /\ LoseRam
    /\ UNCHANGED flash

\* Page p when only its first k words are programmed again.
Restored(p, k) ==
    /\ status' = [status EXCEPT ![p] = IF k = 0 THEN "blank" ELSE @]
    /\ seq' = [seq EXCEPT ![p] = IF k = 0 THEN 0 ELSE @]
    /\ fin' = [fin EXCEPT ![p] = IF k <= 1 THEN 0 ELSE IF Full THEN free - 1 ELSE @]
    /\ cell' = [cell EXCEPT ![p] = [i \in Cell |-> IF i < k THEN cell[p][i] ELSE Blank]]

\* Power is lost inside ftl_common_write, which reads a sector, erases it and
\* programs it again to write one word of it: a word of a record or of the end
\* position, or the first word of a page.
CutWrite ==
    /\ Clearing => ClearCrash
    /\ \E k \in Cuts :
          \/ /\ pc \in {"write", "key"} /\ (Full => fin[cur] = 0) /\ k <= free
             /\ Restored(cur, k)
          \/ pc = "stamp" /\ k = 0 /\ Restored(era.page, k)
          \/ pc = "clear" /\ idx < N /\ k = 0 /\ Restored(idx, k)
          \/ pc = "recover" /\ (Full \/ LiveKeys = {}) /\ k = 0 /\ Restored(gc.page, k)
    /\ LoseRam
-----------------------------------------------------------------------------
Step == \* what the running call does next
    \/ WriteData \/ WriteKey \/ SetEnd \/ FindFreePage
    \/ EraseSector \/ MarkFormat \/ FormatFails \/ StampNext \/ StampFirst
    \/ CopyLive \/ CollectPage \/ MarkCollected \/ CollectFails
    \/ ClearPage \/ ClearTable \/ MarkSwept \/ SweepFails
    \/ FormatFirst \/ Mount
    \/ RecoverCopy \/ RecoverEnd

Request ==
    \/ \E s \in Saves : Save(s[1], s[2])
    \/ \E pages \in GcPages, cells \in GcCells : Collect(pages, cells)
    \/ ClearAll
    \/ Sweep

PowerLoss == Crash \/ CutWrite

Next == Step \/ Request \/ PowerLoss

Spec == Init /\ [][Next]_vars

\* The task that is in a call, or boots, goes on; it need not make requests.
FairSpec == Spec /\ WF_vars(Step)
-----------------------------------------------------------------------------
Ops == [kind : {"none", "boot", "save", "collect", "clear", "sweep", "wipe"},
        wr : Writes \cup {NoWrite}]
Locals == [page : Page, key : 0 .. E - 1, recycled : BOOLEAN, retry : -1 .. N]
Erasing == [page : Page, by : {"none", "format", "collect", "sweep"}]

FlashType ==
    /\ status \in [Page -> {"blank", "erased", "dead", "valid"}]
    /\ seq \in [Page -> 0 .. SeqMod - 1]
    /\ fin \in [Page -> 0 .. E - 1]
    /\ cell \in [Page -> [Cell -> Word]]

RamType ==
    /\ cur \in Page /\ free \in 2 .. E /\ freePages \in 0 .. 255
    /\ map \in [Addr -> Entry]

CallType ==
    /\ gcing \in BOOLEAN
    /\ pc \in {"off", "recover", "idle", "write", "key", "erase",
               "mark", "stamp", "scan", "clear"}
    /\ op \in Ops
    /\ wr \in Writes \cup {NoWrite}
    /\ gc \in Locals
    /\ era \in Erasing
    /\ idx \in 0 .. N

TypeOK == FlashType /\ RamType /\ CallType
-----------------------------------------------------------------------------
(* Properties *)

\* The write cursor is on a record boundary ("8 bytes aligned" in
\* write_mapping_table), on every page and after every boot: keys are looked for
\* at odd indices and the mapping table drops the low bit of a cell index.
RecordsAligned == free % 2 = 0

\* The FTL_ASSERTs of ftl_write: the two cells a record goes to are blank.
WritesBlankCells ==
    pc = "write" /\ ~Full => cell[cur][free] = Blank /\ cell[cur][free + 1] = Blank

\* ftl_write never runs out of space (its FTL_ASSERT(0)), however the live
\* records are spread: a collection, or the recovery at a boot, begins while all
\* that it may have to copy still fits.
NeverOutOfSpace == pc = "write" /\ Full /\ fin[cur] # 0 => ~Valid(NextPage)

\* Between two calls, and after every boot, a page is free and g_free_page_count
\* is the number of free pages: the next rollover has a page to go to.
FreePageWhenIdle == pc = "idle" => freePages > 0 /\ freePages = FreeCount(status, cur)

\* Between two calls the valid pages are exactly those a boot walks back
\* through, across the wrap of their sequence numbers too: none holds records
\* that a boot would miss.
NoOrphanPage ==
    pc = "idle" =>
        /\ \A p \in Page : Valid(p) <=> \E i \in 0 .. ChainLength(cur) : p = Back(cur, i)
        /\ \A best \in Search : best[N] = cur

\* ftl_recover_from_power_lost always finds room for the records it copies: it
\* never clears the store.
NeverWipes == op.kind # "wipe"

\* "drop or copy it": a page is collected once none of its records is the last
\* one of its address.
CollectedPageIsDead ==
    pc = "erase" /\ era.by = "collect" =>
        \A a \in Addr : map[a] # 0 => PageOf(map[a]) # era.page

\* Unless power is lost again and again, every call returns and every boot
\* completes: a collection does not go round in circles.
ReturnsToCaller == <>[][~PowerLoss]_vars => []<>(pc = "idle")
=============================================================================
