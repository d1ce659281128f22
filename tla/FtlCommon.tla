----------------------------- MODULE FtlCommon -----------------------------
(***************************************************************************)
(* ftl_common_api.c: reads and writes of any address and size, cut into    *)
(* pieces of a page, on the NAND or the NOR flash the board boots from.    *)
(* ftl_lock serialises the tasks; its mutex is created by the first call.  *)
(* A piece of a write reads the erase unit of the page into the one buffer *)
(* of the backend, erases the unit and programs it back with the new bytes *)
(* (ftl_write_nor, bbm_nand_write; module FtlNand has the detail).         *)
(***************************************************************************)
EXTENDS Integers, Sequences, FiniteSets

CONSTANTS
    Task,
    None,        \* the NULL of ftl_mutex, of a mutex without holder
    NandPage,    \* bytes of a NAND page
    Sector,      \* bytes of a NOR sector (NOR_FLASH_SECTOR)
    BlockPages,  \* pages of a NAND block
    Size,        \* bytes of the flash
    Requests,    \* the calls made: records of op, address and size
    MaxCalls     \* bound: how many of them

CommonAssumption ==
    /\ None \notin Task /\ Requests # {}
    /\ {NandPage, Sector, BlockPages, Size, MaxCalls} \subseteq Nat \ {0}
    /\ \A r \in Requests :
          /\ r.op \in {"read", "write", "erase", "wipe"}
          /\ r.address \in Nat /\ r.size \in Nat
          /\ r.address + r.size <= Size

VARIABLES
    boot,      \* sys_get_boot_sel()
    cell,      \* the bytes of the flash
    pbuf,      \* the bytes of the unit being written, by address
    pointed,   \* has ftl_mutex been set to &_ftl_mutex?
    handle,    \* the mutex in _ftl_mutex, named after the task that created it
    holder,    \* who holds each mutex ever created
    raced,     \* did the first calls of two tasks overlap?
    up,        \* FALSE once a configASSERT has stopped the system
    place,     \* where each task stands
    req,       \* the call it is in
    todo,      \* the times it has yet to take the lock
    left,      \* the pieces it has yet to read or write under the lock
    got,       \* the buffer of a read, by offset
    before,    \* the flash when its pieces began
    hurt,      \* the bytes of its pieces that failed
    made       \* how many calls have been made

flash == <<boot, cell, pbuf>>
lock == <<pointed, handle, holder, raced, up>>
calls == <<req, got, before, hurt, made>>
vars == <<flash, lock, place, todo, left, calls>>

Address == 0 .. Size - 1
Blank == <<"0xff">>
Junk == <<"unreadable">>

PageSize == IF boot = "nand" THEN NandPage ELSE Sector
EraseSize == IF boot = "nand" THEN NandPage * BlockPages ELSE Sector
Unit(a) == {b \in Address : b \div EraseSize = a \div EraseSize}

\* What task t writes as byte i of its request.
Sent(t, i) == IF req[t].op = "write" THEN <<t, i>> ELSE Blank

\* The pieces of a request: bytes address .. address + size - 1 of the flash are
\* bytes at .. of the buffer.  What precedes the first page border, the whole
\* pages, and the rest.
Head1(r) == IF r.address % PageSize = 0 THEN 0
            ELSE LET room == PageSize - (r.address % PageSize)
                 IN  IF r.size < room THEN r.size ELSE room

WholePages(r) == (r.size - Head1(r)) \div PageSize
Rest(r) == (r.size - Head1(r)) % PageSize

\* Mutant of ReadSkew: every read has it.
ReadSkewAlways(r, i) == IF r.op = "read" THEN i * i ELSE i

\* buf + i * i * page_size, when a read begins on a page border
ReadSkew(r, i) == IF r.op = "read" /\ Head1(r) = 0 THEN i * i ELSE i

Piece(r, done, size, at) == [address |-> r.address + done, size |-> size, at |-> at]

\* Mutant of Pieces: the buffer does not advance past the first piece.
PiecesBehind(r) ==
    LET h == Head1(r)
        n == WholePages(r)
    IN  (IF h > 0 THEN <<Piece(r, 0, h, 0)>> ELSE <<>>)
        \o [i \in 1 .. n |-> Piece(r, h + (i - 1) * PageSize, PageSize,
                                   ReadSkew(r, i - 1) * PageSize)]
        \o (IF Rest(r) > 0
            THEN <<Piece(r, h + n * PageSize, Rest(r), n * PageSize)>>
            ELSE <<>>)

Pieces(r) ==
    LET h == Head1(r)
        n == WholePages(r)
    IN  (IF h > 0 THEN <<Piece(r, 0, h, 0)>> ELSE <<>>)
        \o [i \in 1 .. n |-> Piece(r, h + (i - 1) * PageSize, PageSize,
                                   h + ReadSkew(r, i - 1) * PageSize)]
        \o (IF Rest(r) > 0
            THEN <<Piece(r, h + n * PageSize, Rest(r), h + n * PageSize)>>
            ELSE <<>>)

\* The bytes an erase of r.address takes: none when it is not on a border.
Erased(r) == IF r.address % EraseSize = 0 THEN Unit(r.address) ELSE {}

\* ftl_erase_sector on NAND is a write of 0xff, refused off a sector border.
Misaligned(r) == r.op = "wipe" /\ r.address % Sector # 0

Phases(r) ==
    IF Misaligned(r) THEN <<"init">>
    ELSE CASE r.op = "erase" -> <<"body">>
           [] r.op = "wipe" /\ boot = "nor" -> <<"init", "body">>
           [] r.op = "wipe" /\ boot = "nand" -> <<"init", "info", "body">>
           [] OTHER -> <<"info", "body">>

IsErase(r) == r.op = "erase" \/ (r.op = "wipe" /\ boot = "nor")
-----------------------------------------------------------------------------
Init ==
    /\ boot \in {"nand", "nor"}
    /\ cell = [a \in Address |-> <<"old", a>>]
    /\ pbuf = <<>>
    /\ pointed = FALSE /\ handle = None
    /\ holder = [t \in Task |-> None]
    /\ raced = FALSE /\ up = TRUE
    /\ place = [t \in Task |-> "out"]
    /\ req \in [Task -> {CHOOSE r \in Requests : TRUE}]
    /\ todo = [t \in Task |-> <<>>]
    /\ left = [t \in Task |-> <<>>]
    /\ got = [t \in Task |-> <<>>]
    /\ before = [t \in Task |-> <<>>]
    /\ hurt = [t \in Task |-> {}]
    /\ made = 0

Goto(t, p) == place' = [place EXCEPT ![t] = p]

Call(t) ==
    /\ up /\ place[t] = "out" /\ made < MaxCalls
    /\ made' = made + 1
    /\ \E r \in Requests :
          /\ req' = [req EXCEPT ![t] = r]
          /\ todo' = [todo EXCEPT ![t] = Phases(r)]
    /\ got' = [got EXCEPT ![t] = <<>>]
    /\ hurt' = [hurt EXCEPT ![t] = {}]
    /\ Goto(t, "test")
    /\ UNCHANGED <<flash, lock, left, before>>
-----------------------------------------------------------------------------
(* ftl_lock *)

\* if (ftl_mutex == NULL).  The first calls of two tasks race when both find it
\* NULL, or one finds it set before the mutex exists.
Test(t) ==
    /\ up /\ place[t] = "test"
    /\ Goto(t, IF pointed THEN "take" ELSE "point")
    /\ raced' = \/ raced
                \/ (~pointed /\ \E u \in Task : place[u] = "point")
                \/ (pointed /\ handle = None)
    /\ UNCHANGED <<flash, pointed, handle, holder, up, todo, left, calls>>

Point(t) ==
    /\ up /\ place[t] = "point"
    /\ pointed' = TRUE
    /\ Goto(t, "create")
    /\ UNCHANGED <<flash, handle, holder, raced, up, todo, left, calls>>

\* rtw_mutex_init
Create(t) ==
    /\ up /\ place[t] = "create"
    /\ handle' = t
    /\ Goto(t, "take")
    /\ UNCHANGED <<flash, pointed, holder, raced, up, todo, left, calls>>

\* rtw_mutex_get of a mutex that does not exist: the configASSERT of FreeRTOS
TakeNothing(t) ==
    /\ up /\ place[t] = "take" /\ handle = None
    /\ up' = FALSE
    /\ UNCHANGED <<flash, pointed, handle, holder, raced, place, todo, left, calls>>

\* Mutant of HolderFree: the wait gives up and the task goes on without the mutex.
HolderTimeout(t) == TRUE

HolderFree(t) == holder[handle] = None

Take(t) ==
    /\ up /\ place[t] = "take" /\ handle # None
    /\ HolderFree(t)
    /\ holder' = [holder EXCEPT ![handle] = t]
    /\ IF Head(todo[t]) = "body"
       THEN /\ before' = [before EXCEPT ![t] = cell]
            /\ left' = [left EXCEPT ![t] = IF IsErase(req[t]) THEN <<"erase">>
                                           ELSE Pieces(req[t])]
       ELSE UNCHANGED <<before, left>>
    /\ Goto(t, "in")
    /\ UNCHANGED <<flash, pointed, handle, raced, up, todo, req, got, hurt, made>>

\* ftl_unlock.  A mutex is given back by whoever holds it: FreeRTOS asserts
\* otherwise.  When the flash cannot be set up, the call returns.
Release(t) ==
    /\ holder' = [holder EXCEPT ![handle] = None]
    /\ up' = (holder[handle] \in {t, None})

Leave(t) ==
    /\ up /\ place[t] = "in" /\ left[t] = <<>>
    /\ Release(t)
    /\ \/ todo' = [todo EXCEPT ![t] = Tail(todo[t])]
       \/ todo' = [todo EXCEPT ![t] = <<>>]
    /\ Goto(t, IF todo'[t] = <<>> THEN "out" ELSE "test")
    /\ UNCHANGED <<flash, pointed, handle, raced, left, calls>>
-----------------------------------------------------------------------------
(* _ftl_common_read, _ftl_common_write and the erases, under the lock *)

Working(t) == up /\ ~raced /\ place[t] = "in" /\ left[t] # <<>>
NextPiece(t) == left' = [left EXCEPT ![t] = Tail(left[t])]

\* Two tasks may be inside after a race of the first calls: what they do to the
\* flash and the buffer is not followed, and no property speaks of it.
Untracked(t) ==
    /\ up /\ raced /\ place[t] = "in" /\ left[t] # <<>>
    /\ left' = [left EXCEPT ![t] = <<>>]
    /\ UNCHANGED <<flash, lock, place, todo, calls>>

\* The flash copies the piece to its place in the buffer, or fails.
ReadPiece(t) ==
    /\ Working(t) /\ req[t].op = "read"
    /\ LET p == left[t][1]
           bytes == p.at .. p.at + p.size - 1
       IN  \/ /\ got' = [got EXCEPT ![t] =
                    [o \in DOMAIN got[t] \cup bytes |->
                        IF o \in bytes THEN cell[p.address + o - p.at]
                        ELSE got[t][o]]]
              /\ hurt' = hurt
           \/ /\ hurt' = [hurt EXCEPT ![t] = @ \cup
                            (p.address .. p.address + p.size - 1)]
              /\ got' = got
    /\ NextPiece(t)
    /\ UNCHANGED <<flash, lock, place, todo, req, before, made>>

\* The unit of the piece is read and erased ...
WriteBegins(t) ==
    /\ Working(t) /\ req[t].op # "read" /\ ~IsErase(req[t]) /\ pbuf = <<>>
    /\ LET unit == Unit(left[t][1].address)
       IN  /\ pbuf' = [a \in unit |-> cell[a]]
           /\ cell' = [a \in Address |-> IF a \in unit THEN Blank ELSE cell[a]]
    /\ UNCHANGED <<boot, lock, place, todo, left, calls>>

\* ... and programmed with the new bytes in it, or the flash fails.
WriteEnds(t) ==
    /\ Working(t) /\ req[t].op # "read" /\ ~IsErase(req[t]) /\ pbuf # <<>>
    /\ LET p == left[t][1]
           New(a) == IF a \in p.address .. p.address + p.size - 1
                     THEN Sent(t, p.at + a - p.address) ELSE pbuf[a]
       IN  \/ /\ cell' = [a \in Address |->
                            IF a \in DOMAIN pbuf THEN New(a) ELSE cell[a]]
              /\ hurt' = hurt
           \/ /\ cell' = [a \in Address |->
                            IF a \in DOMAIN pbuf THEN Junk ELSE cell[a]]
              /\ hurt' = [hurt EXCEPT ![t] = @ \cup DOMAIN pbuf]
    /\ pbuf' = <<>>
    /\ NextPiece(t)
    /\ UNCHANGED <<boot, lock, place, todo, req, got, before, made>>

\* An erase, done or failed.
EraseUnit(t) ==
    /\ Working(t) /\ IsErase(req[t])
    /\ \E x \in {Blank, Junk} :
          cell' = [a \in Address |-> IF a \in Erased(req[t]) THEN x ELSE cell[a]]
    /\ NextPiece(t)
    /\ UNCHANGED <<boot, pbuf, lock, place, todo, calls>>
-----------------------------------------------------------------------------
\* Nothing more happens: the system has stopped, or all the calls are made.
Stopped ==
    /\ \/ ~up
       \/ made = MaxCalls /\ \A t \in Task : place[t] = "out"
    /\ UNCHANGED vars

Next ==
    \/ \E t \in Task :
          \/ Call(t) \/ Test(t) \/ Point(t) \/ Create(t) \/ TakeNothing(t) \/ Take(t)
          \/ Untracked(t) \/ ReadPiece(t) \/ WriteBegins(t) \/ WriteEnds(t)
          \/ EraseUnit(t) \/ Leave(t)
    \/ Stopped

Spec == Init /\ [][Next]_vars
-----------------------------------------------------------------------------
TypeOK ==
    /\ boot \in {"nand", "nor"}
    /\ pointed \in BOOLEAN /\ raced \in BOOLEAN /\ up \in BOOLEAN
    /\ handle \in Task \cup {None}
    /\ holder \in [Task -> Task \cup {None}]
    /\ place \in [Task -> {"out", "test", "point", "create", "take", "in"}]
    /\ DOMAIN cell = Address
    /\ req \in [Task -> Requests]

\* Once the mutex exists, at most one task is past ftl_lock: the flash, and the
\* one buffer of its backend, are never worked on by two tasks.
OneHolder ==
    ~raced => \A t, u \in Task : place[t] = "in" /\ place[u] = "in" => t = u

Bytes(r) == r.address .. r.address + r.size - 1

Writing(t) == /\ place[t] = "in" /\ Head(todo[t]) = "body"
              /\ req[t].op # "read" /\ ~IsErase(req[t])

\* At every moment of a write the bytes of the request are the old or the new
\* ones, those before the first piece still to do are new, and no other byte has
\* changed; only the unit of the piece under way, and the units of pieces that
\* failed, may hold anything else.  A loss of power hurts one unit.
WriteIsWhole ==
    ~raced =>
    \A t \in {u \in Task : Writing(u)} :
        LET r == req[t]
            first == IF left[t] = <<>> THEN r.address + r.size ELSE left[t][1].address
        IN  \A a \in Address \ (DOMAIN pbuf \cup hurt[t]) :
               cell[a] = IF a \in Bytes(r) /\ a < first
                         THEN Sent(t, a - r.address) ELSE before[t][a]

\* The third page of an aligned read, and those after it, go to the wrong place.
Skewed(r) == Head1(r) = 0 /\ WholePages(r) > 2

\* When a read is done, byte i of its buffer is byte address + i of the flash,
\* and nothing was put outside the buffer.
ReadIsExact ==
    ~raced =>
    \A t \in Task :
        place[t] = "in" /\ Head(todo[t]) = "body" /\ req[t].op = "read"
        /\ left[t] = <<>> /\ ~Skewed(req[t])
        => LET r == req[t] IN
           /\ DOMAIN got[t] = {i \in 0 .. r.size - 1 : r.address + i \notin hurt[t]}
           /\ \A i \in DOMAIN got[t] : got[t][i] = cell[r.address + i]
=============================================================================
