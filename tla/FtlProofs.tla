----------------------------- MODULE FtlProofs ------------------------------
(*****************************************************************************)
(* Invariants of Ftl for every number and size of pages, every set of        *)
(* addresses and every set of words.                                         *)
(*                                                                           *)
(* First the types and the write cursor.                                     *)
(*                                                                           *)
(* Then the ring of pages: a free page is there for whoever needs one,       *)
(* whatever is saved, cleared, collected or swept, whatever erase fails,     *)
(* and wherever the power is lost.  The invariant: a format is of the next   *)
(* page, a collection is of the oldest one, and what is left to scan of it   *)
(* fits in the rest of the current page and in the free ones.                *)
(*                                                                           *)
(* Last the log written round it: a record goes to blank cells, and a page   *)
(* is only collected when the mapping table is done with it.  The            *)
(* invariant: the table points at records in valid pages, those that a       *)
(* scan has passed are found elsewhere, and a round that drops nothing       *)
(* fills the current page before it gets there.                              *)
(*****************************************************************************)
EXTENDS Ftl, NatExtrema, TLAPS

LEMMA FreeCountType ==
    ASSUME NEW st, NEW c PROVE FreeCount(st, c) \in 0 .. N
  <1> DEFINE S == {n \in 0 .. N : \A i \in 1 .. n : st[(c + i) % N] # "valid"}
  <1>1. S \in SUBSET (0 .. N) /\ 0 \in S
    BY FtlAssumption
  <1>2. FreeCount(st, c) = Max(S)
    BY DEF FreeCount
  <1> HIDE DEF S
  <1>3. S # {} /\ 0 \in Nat /\ N \in Nat
    BY <1>1, FtlAssumption
  <1>4. Max(S) \in 0 .. N
    BY <1>1, <1>3, MaxInRange
  <1> QED BY <1>2, <1>4

LEMMA PageArithmetic ==
    ASSUME NEW c \in Page, NEW i \in 0 .. N
    PROVE  (c + i) % N \in Page /\ Back(c, i) \in Page /\ (c + i + 1) % N \in Page
  BY FtlAssumption DEF Page, Back

LEMMA PhyType ==
    ASSUME NEW p \in Page, NEW c \in 2 .. E - 2
    PROVE  Phy(p, c) \in Entry
  <1>1. p * E <= (N - 1) * E /\ p * E >= 0
    BY FtlAssumption DEF Page
  <1>2. p * E + c <= N * E - 2 /\ p * E + c \in Nat /\ N * E \in Nat
    BY <1>1, FtlAssumption DEF Page
  <1> QED BY <1>2, FtlAssumption DEF Phy, Entry

LEMMA OldestType ==
    ASSUME NEW st, NEW c \in Page PROVE Oldest(st, c) \in Page
  BY FreeCountType, PageArithmetic DEF Oldest

LEMMA LastKeyType ==
    ASSUME fin \in [Page -> 0 .. E - 1], NEW p \in Page
    PROVE  LastKey(p) \in 0 .. E - 1
  BY FtlAssumption DEF LastKey

LEMMA FreeCellType ==
    ASSUME NEW c \in Page PROVE FreeCell(c) \in 2 .. E
  <1> DEFINE used == {i \in Cell : cell[c][i] # Blank}
  <1>1. used \in SUBSET (2 .. E - 1) /\ E - 1 \in Nat /\ 2 \in Nat
    BY FtlAssumption DEF Cell
  <1>2. FreeCell(c) = IF used = {} THEN 2 ELSE Max(used) + 1
    BY DEF FreeCell
  <1> HIDE DEF used
  <1>3. CASE used = {}
    BY <1>2, <1>3, FtlAssumption
  <1>4. CASE used # {}
    <2>1. Max(used) \in 2 .. E - 1
      BY <1>1, <1>4, MaxInRange
    <2> QED BY <1>2, <1>4, <2>1, FtlAssumption
  <1> QED BY <1>3, <1>4

LEMMA ChainLengthType ==
    ASSUME NEW c PROVE ChainLength(c) \in 0 .. N - 1
  <1> DEFINE S == {n \in 0 .. N - 1 : \A i \in 0 .. n - 1 : HasPrev(Back(c, i))}
  <1>1. S \in SUBSET (0 .. N - 1) /\ 0 \in S
    BY FtlAssumption
  <1>2. ChainLength(c) = Max(S)
    BY DEF ChainLength
  <1> HIDE DEF S
  <1>3. S # {} /\ 0 \in Nat /\ N - 1 \in Nat
    BY <1>1, FtlAssumption
  <1>4. Max(S) \in 0 .. N - 1
    BY <1>1, <1>3, MaxInRange
  <1> QED BY <1>2, <1>4

LEMMA ScanFromType ==
    ASSUME NEW k PROVE ScanFrom(k) \in SUBSET (3 .. E - 1)
  BY DEF ScanFrom

LEMMA KeysAtType ==
    ASSUME NEW c, NEW f, NEW i, NEW a, KeysAt(c, f, i, a) # {}
    PROVE  Max(KeysAt(c, f, i, a)) \in 3 .. E - 1
  <1>1. KeysAt(c, f, i, a) \in SUBSET (3 .. E - 1)
    BY ScanFromType DEF KeysAt
  <1>2. 3 \in Nat /\ E - 1 \in Nat
    BY FtlAssumption
  <1> QED BY <1>1, <1>2, MaxInRange

LEMMA MapInitType ==
    ASSUME NEW c \in Page, NEW f
    PROVE  MapInit(c, f) \in [Addr -> Entry]
  <1> DEFINE hits(a) == {i \in 0 .. ChainLength(c) : KeysAt(c, f, i, a) # {}}
             phy(a) == LET i == Min(hits(a))
                       IN  Phy(Back(c, i), Max(KeysAt(c, f, i, a)) - 1)
  <1>1. 0 \in Entry
    <2>1. N * E >= 3 * E /\ N * E \in Nat
      BY FtlAssumption
    <2> QED BY <2>1, FtlAssumption DEF Entry
  <1>2. ASSUME NEW a \in Addr, hits(a) # {}
        PROVE  phy(a) \in Entry
    <2> DEFINE S == hits(a)
               i == Min(S)
               K == KeysAt(c, f, i, a)
    <2>1. S \in SUBSET (0 .. N - 1) /\ 0 \in Nat /\ N - 1 \in Nat
      BY ChainLengthType, FtlAssumption
    <2>2. S # {} /\ \A j \in S : KeysAt(c, f, j, a) # {}
      BY <1>2
    <2>3. phy(a) = Phy(Back(c, i), Max(K) - 1)
      OBVIOUS
    <2> HIDE DEF S, hits, phy
    <2>4. i \in S /\ i \in 0 .. N - 1
      BY <2>1, <2>2, MinInRange
    <2>5. K # {}
      BY <2>2, <2>4
    <2>6. Max(K) \in 3 .. E - 1
      BY <2>5, KeysAtType
    <2> HIDE DEF i, K
    <2>7. Max(K) - 1 \in 2 .. E - 2
      BY <2>6, FtlAssumption
    <2>8. Back(c, i) \in Page
      BY <2>4, PageArithmetic, FtlAssumption
    <2> QED BY <2>3, <2>7, <2>8, PhyType
  <1>3. MapInit(c, f) = [a \in Addr |-> IF hits(a) = {} THEN 0 ELSE phy(a)]
    BY DEF MapInit
  <1> HIDE DEF hits, phy
  <1> QED BY <1>1, <1>2, <1>3

LEMMA LiveKeysType ==
    ASSUME LiveKeys # {}
    PROVE  /\ Max(LiveKeys) \in 3 .. E - 1
           /\ Max(LiveKeys) \in ScanFrom(gc.key)
           /\ \E a \in Addr : cell[gc.page][Max(LiveKeys)] = KeyOf(a)
  <1>1. LiveKeys \in SUBSET (3 .. E - 1) /\ 3 \in Nat /\ E - 1 \in Nat
    BY ScanFromType, FtlAssumption DEF LiveKeys
  <1>2. Max(LiveKeys) \in LiveKeys /\ Max(LiveKeys) \in 3 .. E - 1
    BY <1>1, MaxInRange
  <1>3. \A k \in LiveKeys : k \in ScanFrom(gc.key)
                           /\ \E a \in Addr : cell[gc.page][k] = KeyOf(a)
    BY DEF LiveKeys
  <1> QED BY <1>2, <1>3

LEMMA UnsweptType ==
    ASSUME NEW st, NEW i \in 0 .. N, Unswept(st, i) # {}
    PROVE  Min(Unswept(st, i)) \in 1 .. N
  <1>1. Unswept(st, i) \in SUBSET (1 .. N) /\ 1 \in Nat /\ N \in Nat
    BY FreeCountType, FtlAssumption DEF Unswept
  <1> QED BY <1>1, MinInRange
-----------------------------------------------------------------------------
(* Type correctness *)

\* Where the arguments of a write are needed, they are there: TypeOK alone lets
\* wr be NoWrite at any time.
WritePending ==
    /\ pc \in {"write", "key"} => wr \in Writes
    /\ op.kind = "save" => op.wr \in Writes
    /\ pc \in {"erase", "mark", "stamp"} /\ era.by = "format"
          /\ op.kind \in {"save", "collect"} => wr \in Writes

\* And the call stands where its request can have brought it.
CallOK ==
    /\ pc = "stamp" => era.by = "format"
    /\ pc = "clear" => op.kind \in {"clear", "wipe"}
    /\ pc = "key" => ~Full

Typed == TypeOK /\ WritePending /\ CallOK

LEMMA Bounds ==
    /\ N \in Nat /\ E \in Nat /\ SeqMod \in Nat /\ SeqMod > N
    /\ N >= 3 /\ E >= 4 /\ N <= 255 /\ SeqMod <= 256
  BY FtlAssumption

LEMMA Members ==
    /\ 0 \in Page /\ 0 \in Entry /\ Blank \in Word
    /\ 0 \in 0 .. SeqMod - 1 /\ 0 \in 0 .. E - 1 /\ 2 \in 2 .. E
    /\ 0 \in 0 .. N /\ 0 \in 0 .. 255 /\ 0 .. N \subseteq 0 .. 255
    /\ NoGc \in Locals /\ NoErase \in Erasing
    /\ NoOp \in Ops /\ BootOp \in Ops
  <1>1. N * E >= 3 * E /\ N * E \in Nat
    BY FtlAssumption
  <1>2. 0 \in Page /\ 0 \in Entry
    BY <1>1, Bounds DEF Page, Entry
  <1>3. NoGc \in Locals
    BY <1>2, Bounds DEF NoGc, Locals
  <1>4. NoErase \in Erasing
    BY <1>2 DEF NoErase, Erasing
  <1>5. NoOp \in Ops /\ BootOp \in Ops
    BY DEF NoOp, BootOp, Ops
  <1> QED BY <1>2, <1>3, <1>4, <1>5, Bounds DEF Word

LEMMA SeqType ==
    ASSUME NEW s \in 0 .. SeqMod - 1
    PROVE  (s + 1) % SeqMod \in 0 .. SeqMod - 1
  BY FtlAssumption

\* The locals a collection or a recovery starts with, and those it goes on with
\* after a record.
LEMMA StartType ==
    ASSUME FlashType, NEW c \in Page, NEW st, NEW r \in -1 .. N
    PROVE  [page |-> Oldest(st, c), key |-> LastKey(Oldest(st, c)),
            recycled |-> FALSE, retry |-> r] \in Locals
  <1>1. Oldest(st, c) \in Page
    BY OldestType
  <1>2. LastKey(Oldest(st, c)) \in 0 .. E - 1
    BY <1>1, LastKeyType DEF FlashType
  <1> QED BY <1>1, <1>2 DEF Locals

LEMMA CopyType ==
    ASSUME Typed, CopyNext
    PROVE  wr' \in Writes /\ gc' \in Locals
  <1> DEFINE k == Max(LiveKeys)
             r == gc.recycled \/ \E i \in ScanFrom(gc.key) : i > k
  <1>1. /\ wr' = [addr |-> cell[gc.page][k].addr, val |-> cell[gc.page][k - 1]]
        /\ gc' = [gc EXCEPT !.key = k - 2, !.recycled = r]
        /\ LiveKeys # {}
    BY DEF CopyNext
  <1>2. k \in 3 .. E - 1 /\ \E a \in Addr : cell[gc.page][k] = KeyOf(a)
    BY <1>1, LiveKeysType
  <1>3. r \in BOOLEAN
    OBVIOUS
  <1>4. gc \in Locals /\ cell \in [Page -> [Cell -> Word]]
    BY DEF Typed, TypeOK, CallType, FlashType
  <1> HIDE DEF k, r
  <1>5. k - 1 \in Cell /\ k - 2 \in 0 .. E - 1
    BY <1>2, Bounds DEF Cell
  <1>6. cell[gc.page][k].addr \in Addr
    BY <1>2 DEF KeyOf
  <1>7. cell[gc.page][k - 1] \in Word
    BY <1>4, <1>5 DEF Locals
  <1> QED BY <1>1, <1>3, <1>4, <1>5, <1>6, <1>7 DEF Writes, Locals

\* The next page of a sweep.
LEMMA SweepType ==
    ASSUME NEW st, NEW i \in 0 .. N, Unswept(st, i) # {}, cur \in Page
    PROVE  /\ Min(Unswept(st, i)) \in 0 .. N
           /\ [page |-> (cur + Min(Unswept(st, i))) % N, by |-> "sweep"] \in Erasing
  <1>1. Min(Unswept(st, i)) \in 1 .. N
    BY UnsweptType
  <1>2. (cur + Min(Unswept(st, i))) % N \in Page
    BY <1>1, PageArithmetic, Bounds
  <1> QED BY <1>1, <1>2 DEF Erasing

LEMMA TypedInit == Init => Typed
  <1> SUFFICES ASSUME Init PROVE Typed
    OBVIOUS
  <1>1. FlashType
    BY Members DEF Init, FlashType
  <1>2. RamType
    BY Members DEF Init, RamType
  <1>3. CallType
    BY Members DEF Init, CallType
  <1>4. WritePending /\ CallOK
    BY DEF Init, WritePending, CallOK, NoOp
  <1> QED BY <1>1, <1>2, <1>3, <1>4 DEF Typed, TypeOK

LEMMA WriteDataTyped ==
    ASSUME Typed, WriteData PROVE Typed'
  <1> USE DEF WriteData
  <1>5. free \in Cell /\ cur \in Page /\ wr.val \in Word /\ ~Full
    BY Bounds DEF Typed, TypeOK, RamType, WritePending, Writes, Cell, Full
  <1>1. FlashType'
    BY <1>5 DEF Typed, TypeOK, FlashType
  <1>2. RamType'
    BY Members, FreeCountType DEF Typed, TypeOK, RamType, CallType, ram
  <1>3. CallType'
    BY Members, Bounds DEF Typed, TypeOK, RamType, CallType, Ops, Erasing
  <1>4. WritePending' /\ CallOK'
    BY <1>5 DEF Typed, WritePending, CallOK, Full, ram
  <1> QED BY <1>1, <1>2, <1>3, <1>4 DEF Typed, TypeOK

LEMMA WriteKeyTyped ==
    ASSUME Typed, WriteKey PROVE Typed'
  <1> USE DEF WriteKey, Return
  <1>5. wr.addr \in Addr /\ cur \in Page /\ free \in 2 .. E - 2
    BY Bounds DEF Typed, TypeOK, RamType, WritePending, CallOK, Writes, Full
  <1>6. KeyOf(wr.addr) \in Word /\ free + 1 \in Cell /\ free + 2 \in 2 .. E
    BY <1>5, Bounds DEF KeyOf, Key, Word, Cell
  <1>7. Phy(cur, free) \in Entry
    BY <1>5, PhyType
  <1>1. FlashType'
    BY <1>5, <1>6 DEF Typed, TypeOK, FlashType
  <1>2. RamType'
    BY <1>5, <1>6, <1>7 DEF Typed, TypeOK, RamType
  <1>3. CallType'
    BY Members, Bounds DEF Typed, TypeOK, RamType, CallType, Ops, Erasing
  <1>4. WritePending' /\ CallOK'
    BY DEF Typed, WritePending, CallOK, NoOp, BootOp
  <1> QED BY <1>1, <1>2, <1>3, <1>4 DEF Typed, TypeOK

LEMMA SetEndTyped ==
    ASSUME Typed, SetEnd PROVE Typed'
  <1> USE DEF SetEnd
  <1>5. free - 1 \in 0 .. E - 1
    BY Bounds DEF Typed, TypeOK, RamType
  <1>1. FlashType'
    BY <1>5 DEF Typed, TypeOK, FlashType
  <1>2. RamType'
    BY DEF Typed, TypeOK, RamType, ram
  <1>3. CallType'
    BY DEF Typed, TypeOK, CallType, call
  <1>4. WritePending' /\ CallOK'
    BY DEF Typed, WritePending, CallOK, Full, ram, call
  <1> QED BY <1>1, <1>2, <1>3, <1>4 DEF Typed, TypeOK

LEMMA FindFreePageTyped ==
    ASSUME Typed, FindFreePage PROVE Typed'
  <1> USE DEF FindFreePage, Return, BeginFormat, NextPage, Page
  <1>1. FlashType'
    BY DEF Typed, TypeOK, FlashType, flash
  <1>2. RamType'
    BY DEF Typed, TypeOK, RamType, ram
  <1>3. CallType'
    BY Members, Bounds DEF Typed, TypeOK, RamType, CallType, Ops, Erasing
  <1>4. WritePending' /\ CallOK'
    BY DEF Typed, WritePending, CallOK, NoOp, BootOp
  <1> QED BY <1>1, <1>2, <1>3, <1>4 DEF Typed, TypeOK

LEMMA EraseSectorTyped ==
    ASSUME Typed, EraseSector PROVE Typed'
  <1> USE DEF EraseSector
  <1>1. FlashType'
    BY Members DEF Typed, TypeOK, FlashType, RamType, CallType
  <1>2. RamType'
    BY Members, FreeCountType DEF Typed, TypeOK, RamType, CallType, ram
  <1>3. CallType'
    BY Members, Bounds DEF Typed, TypeOK, RamType, CallType, Ops, Erasing
  <1>4. WritePending' /\ CallOK'
    BY DEF Typed, WritePending, CallOK, NoOp, BootOp
  <1> QED BY <1>1, <1>2, <1>3, <1>4 DEF Typed, TypeOK

LEMMA MarkFormatTyped ==
    ASSUME Typed, MarkFormat PROVE Typed'
  <1> USE DEF MarkFormat, MarkErased
  <1>1. FlashType'
    BY Members DEF Typed, TypeOK, FlashType, RamType, CallType
  <1>2. RamType'
    BY Members, FreeCountType DEF Typed, TypeOK, RamType, CallType, ram
  <1>3. CallType'
    BY Members, Bounds DEF Typed, TypeOK, RamType, CallType, Ops, Erasing
  <1>4. WritePending' /\ CallOK'
    BY DEF Typed, WritePending, CallOK, NoOp, BootOp
  <1> QED BY <1>1, <1>2, <1>3, <1>4 DEF Typed, TypeOK

LEMMA FormatFailsTyped ==
    ASSUME Typed, FormatFails PROVE Typed'
  <1> USE DEF FormatFails, MarkFails, Return
  <1>1. FlashType'
    BY DEF Typed, TypeOK, FlashType, flash
  <1>2. RamType'
    BY DEF Typed, TypeOK, RamType, ram
  <1>3. CallType'
    BY Members, Bounds DEF Typed, TypeOK, RamType, CallType, Ops, Erasing
  <1>4. WritePending' /\ CallOK'
    BY DEF Typed, WritePending, CallOK, NoOp, BootOp
  <1> QED BY <1>1, <1>2, <1>3, <1>4 DEF Typed, TypeOK

LEMMA StampNextTyped ==
    ASSUME Typed, StampNext PROVE Typed'
  <1> USE DEF StampNext, StampPage, StartGc
  <1>5. era.page \in Page /\ (seq[cur] + 1) % SeqMod \in 0 .. SeqMod - 1
    BY SeqType DEF Typed, TypeOK, FlashType, RamType, CallType, Erasing
  <1>6. N - FreeCount(status', era.page) - 1 \in -1 .. N
    BY FreeCountType, Bounds
  <1>1. FlashType'
    BY <1>5 DEF Typed, TypeOK, FlashType
  <1>2. RamType'
    BY <1>5, Members DEF Typed, TypeOK, RamType
  <1>3. CallType'
    <2>1. gcing' \in BOOLEAN /\ gc' \in Locals
      BY <1>5, <1>6, StartType DEF Typed, TypeOK, CallType
    <2> QED BY <2>1, Members DEF Typed, TypeOK, CallType
  <1>4. WritePending' /\ CallOK'
    BY DEF Typed, WritePending, CallOK, NoOp, BootOp
  <1> QED BY <1>1, <1>2, <1>3, <1>4 DEF Typed, TypeOK

LEMMA StampFirstTyped ==
    ASSUME Typed, StampFirst PROVE Typed'
  <1> USE DEF StampFirst, StampPage
  <1>5. era.page \in Page
    BY DEF Typed, TypeOK, CallType, Erasing
  <1>1. FlashType'
    BY Members DEF Typed, TypeOK, FlashType, RamType, CallType
  <1>2. RamType'
    BY <1>5, Members, FreeCountType DEF Typed, TypeOK, RamType, CallType
  <1>3. CallType'
    BY Members, Bounds DEF Typed, TypeOK, RamType, CallType, Ops, Erasing
  <1>4. WritePending' /\ CallOK'
    BY DEF Typed, WritePending, CallOK, NoOp, BootOp
  <1> QED BY <1>1, <1>2, <1>3, <1>4 DEF Typed, TypeOK

LEMMA CopyLiveTyped ==
    ASSUME Typed, CopyLive PROVE Typed'
  <1> USE DEF CopyLive, CopyNext
  <1>1. FlashType'
    BY DEF Typed, TypeOK, FlashType, flash
  <1>2. RamType'
    BY DEF Typed, TypeOK, RamType, ram
  <1>3. CallType'
    <2>1. wr' \in Writes /\ gc' \in Locals
      BY CopyType
    <2> QED BY <2>1 DEF Typed, TypeOK, CallType
  <1>4. WritePending' /\ CallOK'
    BY CopyType DEF Typed, WritePending, CallOK
  <1> QED BY <1>1, <1>2, <1>3, <1>4 DEF Typed, TypeOK

LEMMA RecoverCopyTyped ==
    ASSUME Typed, RecoverCopy PROVE Typed'
  <1> USE DEF RecoverCopy, CopyNext
  <1>1. FlashType'
    BY DEF Typed, TypeOK, FlashType, flash
  <1>2. RamType'
    BY DEF Typed, TypeOK, RamType, ram
  <1>3. CallType'
    <2>1. wr' \in Writes /\ gc' \in Locals
      BY CopyType
    <2> QED BY <2>1 DEF Typed, TypeOK, CallType
  <1>4. WritePending' /\ CallOK'
    BY CopyType DEF Typed, WritePending, CallOK
  <1> QED BY <1>1, <1>2, <1>3, <1>4 DEF Typed, TypeOK

LEMMA CollectPageTyped ==
    ASSUME Typed, CollectPage PROVE Typed'
  <1> USE DEF CollectPage
  <1>1. FlashType'
    BY DEF Typed, TypeOK, FlashType, flash
  <1>2. RamType'
    BY DEF Typed, TypeOK, RamType, ram
  <1>3. CallType'
    <2> DEFINE r == gc.recycled \/ ScanFrom(gc.key) # {}
    <2>1. r \in BOOLEAN /\ gc' = [gc EXCEPT !.recycled = r]
      OBVIOUS
    <2> HIDE DEF r
    <2>2. gc' \in Locals /\ era' \in Erasing
      BY <2>1 DEF Typed, TypeOK, CallType, Locals, Erasing
    <2> QED BY <2>2 DEF Typed, TypeOK, CallType
  <1>4. WritePending' /\ CallOK'
    BY DEF Typed, WritePending, CallOK, NoOp, BootOp
  <1> QED BY <1>1, <1>2, <1>3, <1>4 DEF Typed, TypeOK

LEMMA MarkCollectedTyped ==
    ASSUME Typed, MarkCollected PROVE Typed'
  <1> USE DEF MarkCollected, MarkErased, EndGc
  <1>1. FlashType'
    BY Members DEF Typed, TypeOK, FlashType, RamType, CallType
  <1>2. RamType'
    BY Members, FreeCountType DEF Typed, TypeOK, RamType, CallType, ram
  <1>3. CallType'
    <2>1. gc' \in Locals
      <3>1. CASE ~gc.recycled /\ gc.retry > 0
        <4>1. gc.retry - 1 \in -1 .. N /\ cur \in Page
          BY <3>1, Bounds DEF Typed, TypeOK, RamType, CallType, Locals
        <4> QED BY <3>1, <4>1, StartType DEF Typed, TypeOK
      <3>2. CASE ~(~gc.recycled /\ gc.retry > 0)
        BY <3>2, Members
      <3> QED BY <3>1, <3>2
    <2>2. era' \in Erasing
      BY Members
    <2>3. wr' \in Writes \cup {NoWrite} /\ op' \in Ops
      BY Members DEF Typed, TypeOK, CallType, Ops
    <2> QED BY <2>1, <2>2, <2>3 DEF Typed, TypeOK, CallType
  <1>4. WritePending' /\ CallOK'
    BY DEF Typed, WritePending, CallOK, NoOp, BootOp
  <1> QED BY <1>1, <1>2, <1>3, <1>4 DEF Typed, TypeOK

LEMMA CollectFailsTyped ==
    ASSUME Typed, CollectFails PROVE Typed'
  <1> USE DEF CollectFails, MarkFails, EndGc
  <1>1. FlashType'
    BY DEF Typed, TypeOK, FlashType, flash
  <1>2. RamType'
    BY Members, FreeCountType DEF Typed, TypeOK, RamType, CallType, ram
  <1>3. CallType'
    <2>1. gc' \in Locals /\ era' \in Erasing
      BY Members
    <2>2. wr' \in Writes \cup {NoWrite} /\ op' \in Ops
      BY Members DEF Typed, TypeOK, CallType, Ops
    <2> QED BY <2>1, <2>2 DEF Typed, TypeOK, CallType
  <1>4. WritePending' /\ CallOK'
    BY DEF Typed, WritePending, CallOK, NoOp, BootOp
  <1> QED BY <1>1, <1>2, <1>3, <1>4 DEF Typed, TypeOK

LEMMA ClearPageTyped ==
    ASSUME Typed, ClearPage PROVE Typed'
  <1> USE DEF ClearPage
  <1>1. FlashType'
    BY Members DEF Typed, TypeOK, FlashType, RamType, CallType
  <1>2. RamType'
    BY Members, FreeCountType DEF Typed, TypeOK, RamType, CallType, ram
  <1>3. CallType'
    BY Members, Bounds DEF Typed, TypeOK, RamType, CallType, Ops, Erasing
  <1>4. WritePending' /\ CallOK'
    BY DEF Typed, WritePending, CallOK, NoOp, BootOp
  <1> QED BY <1>1, <1>2, <1>3, <1>4 DEF Typed, TypeOK

LEMMA ClearTableTyped ==
    ASSUME Typed, ClearTable PROVE Typed'
  <1> USE DEF ClearTable, BeginFormat
  <1>1. FlashType'
    BY DEF Typed, TypeOK, FlashType, flash
  <1>2. RamType'
    BY Members, FreeCountType DEF Typed, TypeOK, RamType, CallType, ram
  <1>3. CallType'
    BY Members, Bounds DEF Typed, TypeOK, RamType, CallType, Ops, Erasing
  <1>4. WritePending' /\ CallOK'
    BY DEF Typed, WritePending, CallOK, NoOp, BootOp
  <1> QED BY <1>1, <1>2, <1>3, <1>4 DEF Typed, TypeOK

LEMMA MarkSweptTyped ==
    ASSUME Typed, MarkSwept PROVE Typed'
  <1> USE DEF MarkSwept, MarkErased, SweepOn
  <1>1. FlashType'
    BY Members DEF Typed, TypeOK, FlashType, RamType, CallType
  <1>2. RamType'
    BY Members, FreeCountType DEF Typed, TypeOK, RamType, CallType, ram
  <1>3. CallType'
    <2>1. CASE Unswept(status', idx) # {}
      <3>1. idx \in 0 .. N /\ 0 \in 0 .. N /\ cur \in Page
        BY Members DEF Typed, TypeOK, RamType, CallType
      <3>2. idx' \in 0 .. N /\ era' \in Erasing
        BY <2>1, <3>1, SweepType
      <3> QED BY <2>1, <3>2 DEF Typed, TypeOK, CallType, Ops
    <2>2. CASE Unswept(status', idx) = {}
      BY <2>2, Members DEF Typed, TypeOK, CallType
    <2> QED BY <2>1, <2>2
  <1>4. WritePending' /\ CallOK'
    BY DEF Typed, WritePending, CallOK, NoOp, BootOp
  <1> QED BY <1>1, <1>2, <1>3, <1>4 DEF Typed, TypeOK

LEMMA SweepFailsTyped ==
    ASSUME Typed, SweepFails PROVE Typed'
  <1> USE DEF SweepFails, MarkFails, SweepOn
  <1>1. FlashType'
    BY DEF Typed, TypeOK, FlashType, flash
  <1>2. RamType'
    BY DEF Typed, TypeOK, RamType, ram
  <1>3. CallType'
    <2>1. CASE Unswept(status, idx) # {}
      <3>1. idx \in 0 .. N /\ 0 \in 0 .. N /\ cur \in Page
        BY Members DEF Typed, TypeOK, RamType, CallType
      <3>2. idx' \in 0 .. N /\ era' \in Erasing
        BY <2>1, <3>1, SweepType
      <3> QED BY <2>1, <3>2 DEF Typed, TypeOK, CallType, Ops
    <2>2. CASE Unswept(status, idx) = {}
      BY <2>2, Members DEF Typed, TypeOK, CallType
    <2> QED BY <2>1, <2>2
  <1>4. WritePending' /\ CallOK'
    BY DEF Typed, WritePending, CallOK, NoOp, BootOp
  <1> QED BY <1>1, <1>2, <1>3, <1>4 DEF Typed, TypeOK

LEMMA FormatFirstTyped ==
    ASSUME Typed, FormatFirst PROVE Typed'
  <1> USE DEF FormatFirst, BeginFormat
  <1>1. FlashType'
    BY DEF Typed, TypeOK, FlashType, flash
  <1>2. RamType'
    BY DEF Typed, TypeOK, RamType, ram
  <1>3. CallType'
    BY Members, Bounds DEF Typed, TypeOK, RamType, CallType, Ops, Erasing
  <1>4. WritePending' /\ CallOK'
    BY DEF Typed, WritePending, CallOK, NoOp, BootOp
  <1> QED BY <1>1, <1>2, <1>3, <1>4 DEF Typed, TypeOK

LEMMA MountTyped ==
    ASSUME Typed, Mount PROVE Typed'
  <1> USE DEF Mount
  <1>5. cur' \in Page
    <2>1. PICK best \in Search : best[N] # -1 /\ cur' = best[N]
      OBVIOUS
    <2>2. best[N] \in -1 .. N - 1
      BY <2>1, Bounds DEF Search
    <2> QED BY <2>1, <2>2, Bounds DEF Page
  <1>6. free' \in 2 .. E /\ map' \in [Addr -> Entry] /\ freePages' \in 0 .. 255
    BY <1>5, FreeCellType, MapInitType, FreeCountType, Members
  <1>1. FlashType'
    BY DEF Typed, TypeOK, FlashType, flash
  <1>2. RamType'
    BY <1>5, <1>6 DEF RamType
  <1>3. CallType'
    <2>1. 0 \in -1 .. N
      BY Bounds
    <2>2. gc' \in Locals
      BY <1>5, <2>1, StartType DEF Typed, TypeOK, CallType
    <2> QED BY <2>2, Members DEF Typed, TypeOK, CallType
  <1>4. WritePending' /\ CallOK'
    BY DEF Typed, WritePending, CallOK, NoOp, BootOp
  <1> QED BY <1>1, <1>2, <1>3, <1>4 DEF Typed, TypeOK

LEMMA RecoverEndTyped ==
    ASSUME Typed, RecoverEnd PROVE Typed'
  <1> USE DEF RecoverEnd
  <1>1. FlashType'
    BY Members DEF Typed, TypeOK, FlashType, RamType, CallType
  <1>2. RamType'
    BY Members, FreeCountType DEF Typed, TypeOK, RamType, CallType, ram
  <1>3. CallType'
    BY Members, Bounds DEF Typed, TypeOK, RamType, CallType, Ops, Erasing
  <1>4. WritePending' /\ CallOK'
    BY DEF Typed, WritePending, CallOK, NoOp, BootOp
  <1> QED BY <1>1, <1>2, <1>3, <1>4 DEF Typed, TypeOK

LEMMA ClearAllTyped ==
    ASSUME Typed, ClearAll PROVE Typed'
  <1> USE DEF ClearAll
  <1>1. FlashType'
    BY DEF Typed, TypeOK, FlashType, flash
  <1>2. RamType'
    BY DEF Typed, TypeOK, RamType, ram
  <1>3. CallType'
    BY Members, Bounds DEF Typed, TypeOK, RamType, CallType, Ops, Erasing
  <1>4. WritePending' /\ CallOK'
    BY DEF Typed, WritePending, CallOK, NoOp, BootOp
  <1> QED BY <1>1, <1>2, <1>3, <1>4 DEF Typed, TypeOK

LEMMA SweepTyped ==
    ASSUME Typed, Sweep PROVE Typed'
  <1> USE DEF Sweep, SweepOn
  <1>1. FlashType'
    BY DEF Typed, TypeOK, FlashType, flash
  <1>2. RamType'
    BY DEF Typed, TypeOK, RamType, ram
  <1>3. CallType'
    <2>1. CASE Unswept(status, 0) # {}
      <3>1. idx \in 0 .. N /\ 0 \in 0 .. N /\ cur \in Page
        BY Members DEF Typed, TypeOK, RamType, CallType
      <3>2. idx' \in 0 .. N /\ era' \in Erasing
        BY <2>1, <3>1, SweepType
      <3> QED BY <2>1, <3>2 DEF Typed, TypeOK, CallType, Ops
    <2>2. CASE Unswept(status, 0) = {}
      BY <2>2, Members DEF Typed, TypeOK, CallType
    <2> QED BY <2>1, <2>2
  <1>4. WritePending' /\ CallOK'
    BY DEF Typed, WritePending, CallOK, NoOp, BootOp
  <1> QED BY <1>1, <1>2, <1>3, <1>4 DEF Typed, TypeOK

LEMMA CrashTyped ==
    ASSUME Typed, Crash PROVE Typed'
  <1> USE DEF Crash, LoseRam
  <1>1. FlashType'
    BY DEF Typed, TypeOK, FlashType, flash
  <1>2. RamType'
    BY Members, FreeCountType DEF Typed, TypeOK, RamType, CallType, ram
  <1>3. CallType'
    BY Members, Bounds DEF Typed, TypeOK, RamType, CallType, Ops, Erasing
  <1>4. WritePending' /\ CallOK'
    BY DEF Typed, WritePending, CallOK, NoOp, BootOp
  <1> QED BY <1>1, <1>2, <1>3, <1>4 DEF Typed, TypeOK

LEMMA RestoredTyped ==
    ASSUME Typed, NEW p \in Page, NEW k \in Cuts, Restored(p, k) PROVE FlashType'
  <1>1. k \in 0 .. E /\ 0 \in 0 .. SeqMod - 1 /\ 0 \in 0 .. E - 1 /\ Blank \in Word
    BY Bounds, FtlAssumption DEF Word
  <1>2. free - 1 \in 0 .. E - 1
    BY Bounds DEF Typed, TypeOK, RamType
  <1>3. status' \in [Page -> {"blank", "erased", "dead", "valid"}]
    BY DEF Restored, Typed, TypeOK, FlashType
  <1>4. seq' \in [Page -> 0 .. SeqMod - 1] /\ fin' \in [Page -> 0 .. E - 1]
    BY <1>1, <1>2 DEF Restored, Typed, TypeOK, FlashType
  <1>5. [i \in Cell |-> IF i < k THEN cell[p][i] ELSE Blank] \in [Cell -> Word]
    BY <1>1 DEF Typed, TypeOK, FlashType
  <1>6. cell' \in [Page -> [Cell -> Word]]
    BY <1>5 DEF Restored, Typed, TypeOK, FlashType
  <1> QED BY <1>3, <1>4, <1>6 DEF FlashType

LEMMA CutWriteTyped ==
    ASSUME Typed, CutWrite PROVE Typed'
  <1>1. PICK k \in Cuts, p \in Page : Restored(p, k)
    <2>1. pc = "clear" /\ idx < N => idx \in Page
      BY Bounds DEF Typed, TypeOK, CallType, Page
    <2>2. cur \in Page /\ era.page \in Page /\ gc.page \in Page
      BY DEF Typed, TypeOK, RamType, CallType, Erasing, Locals
    <2> QED BY <2>1, <2>2 DEF CutWrite
  <1>2. FlashType'
    BY <1>1, RestoredTyped
  <1> USE DEF LoseRam, CutWrite
  <1>3. RamType'
    BY Members DEF Typed, TypeOK, RamType
  <1>4. CallType'
    BY Members, Bounds DEF CallType, Ops
  <1>5. WritePending' /\ CallOK'
    BY DEF WritePending, CallOK, NoOp
  <1> QED BY <1>2, <1>3, <1>4, <1>5 DEF Typed, TypeOK

LEMMA SaveTyped ==
    ASSUME Typed, NEW s \in Saves, Save(s[1], s[2]) PROVE Typed'
  <1> USE DEF Save
  <1>1. FlashType'
    BY DEF Typed, TypeOK, FlashType, flash
  <1>2. RamType'
    BY DEF Typed, TypeOK, RamType, ram
  <1>3. s[1] \in Addr /\ s[2] \in Word
    BY FtlAssumption DEF Word
  <1>4. wr' \in Writes
    BY <1>3 DEF Writes
  <1>5. op' \in Ops
    BY <1>4 DEF Ops
  <1>6. CallType'
    BY <1>4, <1>5 DEF Typed, TypeOK, CallType
  <1>7. WritePending' /\ CallOK'
    BY <1>4 DEF WritePending, CallOK
  <1> QED BY <1>1, <1>2, <1>6, <1>7 DEF Typed, TypeOK

LEMMA CollectTyped ==
    ASSUME Typed, NEW m, NEW n, Collect(m, n) PROVE Typed'
  <1> USE DEF Collect, StartGc
  <1>1. FlashType'
    BY DEF Typed, TypeOK, FlashType, flash
  <1>2. RamType'
    BY DEF Typed, TypeOK, RamType, ram
  <1>3. N - FreeCount(status, cur) - 1 \in -1 .. N
    BY FreeCountType, Bounds
  <1>4. gc' \in Locals
    BY <1>3, StartType DEF Typed, TypeOK, RamType
  <1>5. CallType'
    BY <1>4 DEF Typed, TypeOK, CallType, Ops
  <1>6. WritePending' /\ CallOK'
    BY DEF Typed, WritePending, CallOK
  <1> QED BY <1>1, <1>2, <1>5, <1>6 DEF Typed, TypeOK

LEMMA StutterTyped ==
    ASSUME Typed, UNCHANGED vars PROVE Typed'
  <1> USE DEF vars, flash, ram, call
  <1>1. FlashType' /\ RamType' /\ CallType'
    BY DEF Typed, TypeOK, FlashType, RamType, CallType
  <1>2. WritePending' /\ CallOK'
    BY DEF Typed, WritePending, CallOK, Full
  <1> QED BY <1>1, <1>2 DEF Typed, TypeOK

LEMMA TypedNext ==
    ASSUME Typed, [Next]_vars PROVE Typed'
  BY SaveTyped, CollectTyped, StutterTyped, WriteDataTyped,
     WriteKeyTyped, SetEndTyped, FindFreePageTyped, EraseSectorTyped,
     MarkFormatTyped, FormatFailsTyped, StampNextTyped,
     StampFirstTyped, CopyLiveTyped, RecoverCopyTyped,
     CollectPageTyped, MarkCollectedTyped, CollectFailsTyped,
     ClearPageTyped, ClearTableTyped, MarkSweptTyped, SweepFailsTyped,
     FormatFirstTyped, MountTyped, RecoverEndTyped, ClearAllTyped,
     SweepTyped, CrashTyped, CutWriteTyped
     DEF Next, Step, Request, PowerLoss

\* Every variable keeps its type: page, cell and mapping-table indices stay in
\* range and g_free_page_count in its uint8_t, for any number and size of pages
\* the mapping table can hold, with any losses of power and failing erases.
THEOREM TypeCorrect == Spec => []TypeOK
  <1>1. Spec => []Typed
    BY TypedInit, TypedNext, PTL DEF Spec
  <1>2. Typed => TypeOK
    BY DEF Typed
  <1> QED BY <1>1, <1>2, PTL

-----------------------------------------------------------------------------
(* Records stay aligned *)

\* Cell i of page p holds a data word whose key is not written.
HalfRecord(p, i) ==
    i % 2 = 0 /\ i + 1 \in Cell /\ cell[p][i] # Blank /\ cell[p][i + 1] = Blank

\* Only the record being written is without its key.
Aligned ==
    /\ RecordsAligned
    /\ \A p \in Page, i \in Cell : HalfRecord(p, i) => pc = "key" /\ p = cur /\ i = free
    /\ pc = "key" => cell[cur][free] = wr.val

LEMMA Parity ==
    /\ 2 % 2 = 0
    /\ \A i \in Nat : i % 2 = 0 => (i + 2) % 2 = 0 /\ (i + 1) % 2 # 0
    /\ \A i \in Nat : i % 2 # 0 => (i + 1) % 2 = 0
    /\ \A i \in Cell : i % 2 = 0 => i + 1 \in Cell
  BY FtlAssumption DEF Cell

\* After a boot the free cell follows the last used one, so it is even if that
\* one is a key.
LEMMA FreeCellAligned ==
    ASSUME NEW c \in Page, \A i \in Cell : ~HalfRecord(c, i)
    PROVE  FreeCell(c) % 2 = 0
  <1> DEFINE used == {i \in Cell : cell[c][i] # Blank}
             m == Max(used)
  <1>1. FreeCell(c) = IF used = {} THEN 2 ELSE m + 1
    BY DEF FreeCell
  <1>2. CASE used = {}
    BY <1>1, <1>2, Parity
  <1>3. CASE used # {}
    <2>1. used \in SUBSET (2 .. E - 1) /\ E - 1 \in Nat /\ 2 \in Nat
      BY FtlAssumption DEF Cell
    <2> HIDE DEF used
    <2>2. m \in used /\ m \in 2 .. E - 1
      BY <1>3, <2>1, MaxInRange
    <2>3. \A x \in used : x <= m
      <3>1. used \in SUBSET Nat /\ \A x \in used : x <= E - 1
        BY <2>1
      <3> QED BY <1>3, <2>1, <3>1, MaxIsGreatest
    <2> HIDE DEF m
    <2>4. m \in Cell /\ cell[c][m] # Blank
      BY <2>2 DEF used, Cell
    <2>5. m + 1 \in Cell => cell[c][m + 1] = Blank
      <3>1. m + 1 \notin used
        BY <2>2, <2>3
      <3> QED BY <3>1 DEF used
    <2>6. m % 2 # 0
      BY <2>4, <2>5, Parity DEF HalfRecord
    <2>7. (m + 1) % 2 = 0
      BY <2>2, <2>6, Parity, FtlAssumption
    <2> QED BY <1>1, <1>3, <2>7
  <1> QED BY <1>2, <1>3

LEMMA AlignedInit == Init => Aligned
  BY Parity DEF Init, Aligned, RecordsAligned, HalfRecord

\* The steps that write no word of a record and leave the cursor alone.
LEMMA AlignedElsewhere ==
    ASSUME Aligned, UNCHANGED <<cell, free>>, pc # "key", pc' # "key"
    PROVE  Aligned'
  BY DEF Aligned, RecordsAligned, HalfRecord

\* The steps that start a page.
LEMMA AlignedNewPage ==
    ASSUME Aligned, UNCHANGED cell, free' = 2, pc # "key", pc' # "key"
    PROVE  Aligned'
  BY Parity DEF Aligned, RecordsAligned, HalfRecord

LEMMA AlignedWriteData ==
    ASSUME Typed, Aligned, WriteData PROVE Aligned'
  <1>1. /\ cur \in Page /\ free \in Cell /\ free % 2 = 0 /\ free \in Nat
        /\ cell' = [cell EXCEPT ![cur][free] = wr.val]
        /\ pc = "write" /\ pc' = "key" /\ UNCHANGED <<cur, free, wr>>
    BY Bounds DEF WriteData, Full, ram, Typed, TypeOK, RamType, Aligned, RecordsAligned, Cell
  <1>2. cell'[cur][free] = wr.val
    BY <1>1 DEF Typed, TypeOK, FlashType
  <1>3. ASSUME NEW p \in Page, NEW i \in Cell, HalfRecord(p, i)', ~(p = cur /\ i = free)
        PROVE  FALSE
    <2>1. i % 2 = 0 /\ i + 1 # free /\ i + 1 \in Cell
      BY <1>1, <1>3, Parity DEF HalfRecord, Cell
    <2>2. cell'[p][i] = cell[p][i] /\ cell'[p][i + 1] = cell[p][i + 1]
      BY <1>1, <1>3, <2>1 DEF Typed, TypeOK, FlashType
    <2>3. HalfRecord(p, i)
      BY <1>3, <2>2 DEF HalfRecord
    <2> QED BY <1>1, <2>3 DEF Aligned
  <1> QED BY <1>1, <1>2, <1>3 DEF Aligned, RecordsAligned

LEMMA AlignedWriteKey ==
    ASSUME Typed, Aligned, WriteKey PROVE Aligned'
  <1>1. /\ cur \in Page /\ free \in 2 .. E - 2 /\ free % 2 = 0 /\ free \in Nat
        /\ cell' = [cell EXCEPT ![cur][free + 1] = KeyOf(wr.addr)]
        /\ pc = "key" /\ pc' # "key" /\ free' = free + 2 /\ cur' = cur
    BY Bounds DEF WriteKey, Return, Full, Typed, TypeOK, RamType, CallOK, Aligned, RecordsAligned
  <1>2. KeyOf(wr.addr) # Blank /\ free + 1 \in Cell
    BY <1>1, FtlAssumption DEF KeyOf, Typed, WritePending, Writes, Cell
  <1>3. free' % 2 = 0
    BY <1>1, Parity
  <1>4. cell'[cur][free + 1] # Blank
    BY <1>1, <1>2 DEF Typed, TypeOK, FlashType
  <1>5. ASSUME NEW p \in Page, NEW i \in Cell, HalfRecord(p, i)'
        PROVE  FALSE
    <2>1. i % 2 = 0 /\ i # free + 1 /\ i + 1 \in Cell
      BY <1>1, <1>5, Parity DEF HalfRecord
    <2>2. cell'[p][i] = cell[p][i]
      BY <1>1, <2>1 DEF Typed, TypeOK, FlashType
    <2>3. ~(p = cur /\ i = free)
      BY <1>4, <1>5 DEF HalfRecord
    <2>4. cell'[p][i + 1] = cell[p][i + 1]
      BY <1>1, <2>1, <2>3 DEF Typed, TypeOK, FlashType, Cell
    <2>5. HalfRecord(p, i)
      BY <1>5, <2>2, <2>4 DEF HalfRecord
    <2> QED BY <2>3, <2>5 DEF Aligned
  <1> QED BY <1>1, <1>3, <1>5 DEF Aligned, RecordsAligned

LEMMA AlignedErase ==
    ASSUME Typed, Aligned, EraseSector PROVE Aligned'
  <1>1. /\ era.page \in Page /\ UNCHANGED free /\ pc # "key" /\ pc' # "key"
        /\ cell' = [cell EXCEPT ![era.page] = [i \in Cell |-> Blank]]
    BY DEF EraseSector, ram, Typed, TypeOK, CallType, Erasing
  <1>2. ASSUME NEW p \in Page, NEW i \in Cell, HalfRecord(p, i)' PROVE FALSE
    <2>1. p # era.page
      BY <1>1, <1>2 DEF HalfRecord, Typed, TypeOK, FlashType
    <2>2. cell'[p] = cell[p]
      BY <1>1, <2>1 DEF Typed, TypeOK, FlashType
    <2>3. HalfRecord(p, i)
      BY <1>2, <2>2 DEF HalfRecord
    <2> QED BY <1>1, <2>3 DEF Aligned
  <1> QED BY <1>1, <1>2 DEF Aligned, RecordsAligned

LEMMA AlignedMount ==
    ASSUME Typed, Aligned, Mount PROVE Aligned'
  <1>1. cur' \in Page /\ free' = FreeCell(cur') /\ pc = "off" /\ pc' # "key" /\ cell' = cell
    <2>1. cur' \in Page
      BY MountTyped DEF Typed, TypeOK, RamType
    <2> QED BY <2>1 DEF Mount, flash
  <1>2. \A p \in Page, i \in Cell : ~HalfRecord(p, i)
    BY <1>1 DEF Aligned
  <1>3. free' % 2 = 0
    BY <1>1, <1>2, FreeCellAligned
  <1> QED BY <1>1, <1>2, <1>3 DEF Aligned, RecordsAligned, HalfRecord

\* Power is never lost with half of a record written.
WholeRecords == TornCrash = FALSE /\ \A k \in Cuts : k % 2 = 0

\* Power is lost between the two words of a record only if the first one was
\* blank, which leaves no half of a record.
LEMMA AlignedCrash ==
    ASSUME WholeRecords, Typed, Aligned, Crash PROVE Aligned'
  <1>1. /\ free' = 2 /\ pc' = "off" /\ cell' = cell
        /\ pc = "key" => wr.val = Blank
    BY DEF WholeRecords, Crash, LoseRam, flash
  <1>2. \A p \in Page, i \in Cell : ~HalfRecord(p, i)
    BY <1>1 DEF Aligned, HalfRecord
  <1> QED BY <1>1, <1>2, Parity DEF Aligned, RecordsAligned, HalfRecord

\* A sector cut between two records has no half of one, not even that of the
\* record being written.
LEMMA AlignedCutWrite ==
    ASSUME WholeRecords, Typed, Aligned, CutWrite PROVE Aligned'
  <1>1. PICK k \in Cuts, q \in Page :
            /\ Restored(q, k)
            /\ pc = "key" => q = cur /\ k <= free
    <2>1. pc = "clear" /\ idx < N => idx \in Page
      BY Bounds DEF Typed, TypeOK, CallType, Page
    <2>2. cur \in Page /\ era.page \in Page /\ gc.page \in Page
      BY DEF Typed, TypeOK, RamType, CallType, Erasing, Locals
    <2> QED BY <2>1, <2>2 DEF CutWrite
  <1>2. k \in Nat /\ k % 2 = 0 /\ free \in Nat
    BY FtlAssumption, Bounds DEF WholeRecords, Typed, TypeOK, RamType
  <1>3. ASSUME NEW p \in Page, NEW i \in Cell, HalfRecord(p, i)' PROVE FALSE
    <2>1. i % 2 = 0 /\ i + 1 \in Cell /\ i \in Nat
      BY <1>3 DEF HalfRecord, Cell
    <2>2. CASE p # q
      <3>1. cell'[p] = cell[p]
        BY <1>1, <2>2 DEF Restored, Typed, TypeOK, FlashType
      <3>2. HalfRecord(p, i)
        BY <1>3, <3>1 DEF HalfRecord
      <3> QED BY <1>1, <2>2, <3>2 DEF Aligned
    <2>3. CASE p = q
      <3>1. \A j \in Cell : cell'[p][j] = IF j < k THEN cell[p][j] ELSE Blank
        BY <1>1, <2>3 DEF Restored, Typed, TypeOK, FlashType
      <3>2. i < k
        BY <1>3, <3>1 DEF HalfRecord
      <3>3. i + 1 < k
        BY <1>2, <2>1, <3>2
      <3>4. HalfRecord(p, i)
        BY <1>3, <2>1, <3>1, <3>2, <3>3 DEF HalfRecord
      <3>5. i = free /\ k <= free
        BY <1>1, <3>4 DEF Aligned
      <3> QED BY <1>2, <2>1, <3>2, <3>5
    <2> QED BY <2>2, <2>3
  <1>4. free' = 2 /\ pc' = "off"
    BY DEF CutWrite, LoseRam
  <1> QED BY <1>3, <1>4, Parity DEF Aligned, RecordsAligned

LEMMA AlignedNext ==
    ASSUME WholeRecords, Typed, Aligned, [Next]_vars PROVE Aligned'
  <1>1. CASE StampNext \/ StampFirst
    <2>1. pc = "stamp" /\ pc' # "key" /\ free' = 2 /\ UNCHANGED cell
      BY <1>1 DEF StampNext, StampFirst, StampPage, StartGc
    <2> QED BY <2>1, AlignedNewPage
  <1>2. CASE ClearTable
    <2>1. pc = "clear" /\ pc' # "key" /\ free' = 2 /\ UNCHANGED cell
      BY <1>2 DEF ClearTable, BeginFormat, flash
    <2> QED BY <2>1, AlignedNewPage
  <1>3. CASE FindFreePage \/ SetEnd \/ CopyLive \/ RecoverCopy
    <2>1. pc # "key" /\ pc' # "key" /\ UNCHANGED <<cell, free>>
      BY <1>3 DEF FindFreePage, SetEnd, Return, BeginFormat, CopyLive, RecoverCopy, CopyNext, flash, ram, call
    <2> QED BY <2>1, AlignedElsewhere
  <1>4. CASE MarkFormat \/ MarkCollected \/ MarkSwept \/ FormatFails
               \/ CollectFails \/ SweepFails
    <2>1. pc # "key" /\ pc' # "key" /\ UNCHANGED <<cell, free>>
      BY <1>4 DEF MarkFormat, MarkCollected, MarkSwept, FormatFails, CollectFails, SweepFails, MarkErased, MarkFails, EndGc, SweepOn, Return, flash, ram
    <2> QED BY <2>1, AlignedElsewhere
  <1>5. CASE CollectPage \/ ClearPage \/ FormatFirst \/ RecoverEnd
    <2>1. pc # "key" /\ pc' # "key" /\ UNCHANGED <<cell, free>>
      BY <1>5 DEF CollectPage, ClearPage, FormatFirst, RecoverEnd, BeginFormat, flash, ram
    <2> QED BY <2>1, AlignedElsewhere
  <1>6. CASE Request
    <2>1. pc # "key" /\ pc' # "key" /\ UNCHANGED <<cell, free>>
      BY <1>6 DEF Request, Save, Collect, ClearAll, Sweep, SweepOn, StartGc, flash, ram
    <2> QED BY <2>1, AlignedElsewhere
  <1>7. CASE UNCHANGED vars
    BY <1>7 DEF vars, flash, ram, call, Aligned, RecordsAligned, HalfRecord
  <1> QED
    BY <1>1, <1>2, <1>3, <1>4, <1>5, <1>6, <1>7, AlignedWriteData, AlignedWriteKey,
       AlignedErase, AlignedMount, AlignedCrash, AlignedCutWrite
    DEF Next, Step, PowerLoss

\* If power is never lost with half of a record in the flash - not between its
\* two words, and not while a sector is programmed again up to the middle of one
\* - the write cursor is on a record boundary, after every boot too ("8 bytes
\* aligned").
THEOREM AlignedCorrect == WholeRecords => (Spec => []RecordsAligned)
  <1> SUFFICES ASSUME WholeRecords PROVE Spec => []RecordsAligned
    OBVIOUS
  <1>1. Init => Typed /\ Aligned
    BY TypedInit, AlignedInit
  <1>2. Typed /\ Aligned /\ [Next]_vars => (Typed /\ Aligned)'
    BY TypedNext, AlignedNext
  <1>3. Typed /\ Aligned => RecordsAligned
    BY DEF Aligned
  <1> QED BY <1>1, <1>2, <1>3, PTL DEF Spec

-----------------------------------------------------------------------------
(* The ring of pages *)

\* Going round the ring.
LEMMA Wraps ==
    ASSUME NEW x \in 0 .. 2 * N - 1
    PROVE  x % N = IF x < N THEN x ELSE x - N
  BY Bounds

LEMMA RingPage ==
    ASSUME NEW c \in Page, NEW i \in 0 .. N
    PROVE  (c + i) % N = IF c + i < N THEN c + i ELSE c + i - N
  <1> DEFINE x == c + i
  <1>1. x \in 0 .. 2 * N - 1
    BY Bounds DEF Page
  <1> HIDE DEF x
  <1>2. x % N = IF x < N THEN x ELSE x - N
    BY <1>1, Wraps
  <1> QED BY <1>1, <1>2, Bounds DEF x, Page

LEMMA RingApart ==
    ASSUME NEW c \in Page, NEW i \in 1 .. N - 1
    PROVE  (c + i) % N # c
  <1>1. (c + i) % N = IF c + i < N THEN c + i ELSE c + i - N
    BY RingPage, Bounds
  <1> QED BY <1>1, Bounds DEF Page

\* The page i + 1 after c is the page i after the one that follows c.
LEMMA RingStep ==
    ASSUME NEW c \in Page, NEW i \in 0 .. N - 1
    PROVE  (((c + 1) % N) + i) % N = (c + (i + 1)) % N
  <1>1. /\ (c + 1) % N = IF c + 1 < N THEN c + 1 ELSE c + 1 - N
        /\ (c + (i + 1)) % N = IF c + (i + 1) < N THEN c + (i + 1) ELSE c + (i + 1) - N
    BY RingPage, Bounds
  <1>2. (c + 1) % N \in Page
    BY PageArithmetic, Bounds
  <1>3. (((c + 1) % N) + i) % N
           = IF ((c + 1) % N) + i < N THEN ((c + 1) % N) + i ELSE ((c + 1) % N) + i - N
    BY <1>2, RingPage, Bounds
  <1> HIDE DEF Page
  <1>4. c \in 0 .. N - 1
    BY DEF Page
  <1>5. CASE c + 1 < N
    <2>1. (c + 1) % N = c + 1
      BY <1>1, <1>5
    <2>2. c + 1 + i = c + (i + 1)
      BY <1>4, Bounds
    <2> QED BY <1>1, <1>3, <2>1, <2>2
  <1>6. CASE c + 1 = N
    <2>1. (c + 1) % N = 0
      BY <1>1, <1>6, Bounds
    <2>2. 0 + i < N /\ 0 + i = i /\ c + (i + 1) = N + i
      BY <1>4, <1>6, Bounds
    <2>3. ~(c + (i + 1) < N) /\ c + (i + 1) - N = i
      BY <1>4, <2>2, Bounds
    <2> QED BY <1>1, <1>3, <2>1, <2>2, <2>3
  <1> QED BY <1>4, <1>5, <1>6, Bounds

LEMMA RingWhole ==
    ASSUME NEW c \in Page
    PROVE  (c + N) % N = c
  BY Wraps, Bounds DEF Page

\* What ftl_get_free_page_count counts: the page after those counted is valid.
LEMMA FreeCountCounts ==
    ASSUME NEW st, NEW c \in Page
    PROVE  LET n == FreeCount(st, c)
           IN  /\ n \in 0 .. N
               /\ \A i \in 1 .. n : st[(c + i) % N] # "valid"
               /\ n < N => st[(c + (n + 1)) % N] = "valid"
  <1> DEFINE S == {n \in 0 .. N : \A i \in 1 .. n : st[(c + i) % N] # "valid"}
             m == Max(S)
  <1>1. FreeCount(st, c) = m
    BY DEF FreeCount
  <1>2. S \in SUBSET (0 .. N) /\ 0 \in S /\ N \in Nat
    BY Bounds
  <1>3. m \in S /\ \A x \in S : x <= m
    <2> HIDE DEF S
    <2>1. S \in SUBSET Nat /\ S # {} /\ \A x \in S : x <= N
      BY <1>2
    <2> QED BY <1>2, <2>1, MaxIsGreatest
  <1> HIDE DEF m
  <1>4. ASSUME m < N, st[(c + (m + 1)) % N] # "valid"
        PROVE  FALSE
    <2>1. \A i \in 1 .. m + 1 : st[(c + i) % N] # "valid"
      BY <1>3, <1>4
    <2>2. m + 1 \in S
      BY <1>2, <1>3, <1>4, <2>1
    <2> QED BY <1>2, <1>3, <2>2
  <1> QED BY <1>1, <1>3, <1>4

\* And nothing else has these properties.
LEMMA FreeCountIs ==
    ASSUME NEW st, NEW c \in Page, NEW n \in 0 .. N,
           \A i \in 1 .. n : st[(c + i) % N] # "valid",
           n < N => st[(c + (n + 1)) % N] = "valid"
    PROVE  FreeCount(st, c) = n
  <1> DEFINE m == FreeCount(st, c)
  <1>1. /\ m \in 0 .. N
        /\ \A i \in 1 .. m : st[(c + i) % N] # "valid"
        /\ m < N => st[(c + (m + 1)) % N] = "valid"
    BY FreeCountCounts
  <1> HIDE DEF m
  <1>2. m < n => FALSE
    <2>1. m < n => m + 1 \in 1 .. n /\ m < N
      BY <1>1, Bounds
    <2> QED BY <1>1, <2>1
  <1>3. n < m => FALSE
    <2>1. n < m => n + 1 \in 1 .. m /\ n < N
      BY <1>1, Bounds
    <2> QED BY <1>1, <2>1
  <1>4. m = n
    BY <1>1, <1>2, <1>3, Bounds
  <1> QED BY <1>4 DEF m

\* The count depends on which pages are valid only.
LEMMA FreeCountSame ==
    ASSUME NEW st, NEW st2, NEW c \in Page,
           \A p \in Page : st2[p] = "valid" <=> st[p] = "valid"
    PROVE  FreeCount(st2, c) = FreeCount(st, c)
  <1> DEFINE n == FreeCount(st, c)
  <1>1. /\ n \in 0 .. N
        /\ \A i \in 1 .. n : st[(c + i) % N] # "valid"
        /\ n < N => st[(c + (n + 1)) % N] = "valid"
    BY FreeCountCounts
  <1> HIDE DEF n
  <1>2. \A i \in 1 .. n : (c + i) % N \in Page
    BY <1>1, PageArithmetic, Bounds
  <1>3. n < N => (c + (n + 1)) % N \in Page
    BY <1>1, PageArithmetic, Bounds
  <1>4. FreeCount(st2, c) = n
    BY <1>1, <1>2, <1>3, FreeCountIs
  <1> QED BY <1>4 DEF n

LEMMA FreeCountPositive ==
    ASSUME NEW st, NEW c \in Page
    PROVE  FreeCount(st, c) > 0 <=> st[(c + 1) % N] # "valid"
  <1> DEFINE n == FreeCount(st, c)
  <1>1. /\ n \in 0 .. N
        /\ \A i \in 1 .. n : st[(c + i) % N] # "valid"
        /\ n < N => st[(c + (n + 1)) % N] = "valid"
    BY FreeCountCounts
  <1> HIDE DEF n
  <1>2. n > 0 => st[(c + 1) % N] # "valid"
    BY <1>1
  <1>3. n = 0 => st[(c + 1) % N] = "valid"
    BY <1>1, Bounds
  <1> QED BY <1>1, <1>2, <1>3, Bounds DEF n

\* A page is found at the other end of the free ones unless all are free.
LEMMA OldestValid ==
    ASSUME NEW st, NEW c \in Page, FreeCount(st, c) < N
    PROVE  st[Oldest(st, c)] = "valid"
  <1> DEFINE n == FreeCount(st, c)
  <1>1. n \in 0 .. N /\ (n < N => st[(c + (n + 1)) % N] = "valid")
    BY FreeCountCounts
  <1>2. Oldest(st, c) = (c + n + 1) % N
    BY DEF Oldest
  <1> HIDE DEF n
  <1>3. c + n + 1 = c + (n + 1)
    BY <1>1, Bounds DEF Page
  <1> QED BY <1>1, <1>2, <1>3 DEF n

\* Moving to the next page takes one of the free ones and leaves the oldest one.
LEMMA FreeCountStamp ==
    ASSUME NEW st, NEW c \in Page, FreeCount(st, c) > 0,
           NEW st2, NEW q, q = (c + 1) % N,
           st2[q] = "valid", \A p \in Page : p # q => st2[p] = st[p]
    PROVE  /\ FreeCount(st2, q) = FreeCount(st, c) - 1
           /\ Oldest(st2, q) = Oldest(st, c)
  <1> DEFINE n == FreeCount(st, c)
  <1>1. /\ n \in 1 .. N
        /\ \A i \in 1 .. n : st[(c + i) % N] # "valid"
        /\ n < N => st[(c + (n + 1)) % N] = "valid"
    BY FreeCountCounts, Bounds
  <1>2. q \in Page
    BY PageArithmetic, Bounds
  <1>3. Oldest(st, c) = (c + n + 1) % N /\ Oldest(st2, q) = (q + FreeCount(st2, q) + 1) % N
    BY DEF Oldest
  <1>4. st2[q] = "valid" /\ \A p \in Page : p # q => st2[p] = st[p]
    BY <1>2
  <1>5. \A i \in 0 .. N - 1 : (q + i) % N = (c + (i + 1)) % N
    BY RingStep
  <1> HIDE DEF n
  <1>6. ASSUME NEW i \in 1 .. n - 1 PROVE st2[(q + i) % N] # "valid"
    <2>1. i \in 0 .. N - 1 /\ i + 1 \in 1 .. n /\ i \in 1 .. N - 1
      BY <1>1, Bounds
    <2>2. (q + i) % N # q
      BY <1>2, <2>1, RingApart
    <2>3. (q + i) % N \in Page
      BY <1>2, <2>1, PageArithmetic, Bounds
    <2>4. st2[(q + i) % N] = st[(c + (i + 1)) % N]
      BY <1>4, <1>5, <2>1, <2>2, <2>3
    <2> QED BY <1>1, <2>1, <2>4
  <1>7. st2[(q + n) % N] = "valid"
    <2>1. CASE n = N
      BY <1>2, <1>4, <2>1, RingWhole
    <2>2. CASE n < N
      <3>1. n \in 1 .. N - 1 /\ n \in 0 .. N - 1 /\ n \in 0 .. N
        BY <1>1, <2>2, Bounds
      <3>2. (q + n) % N # q /\ (q + n) % N \in Page
        BY <1>2, <3>1, RingApart, PageArithmetic
      <3>3. (q + n) % N = (c + (n + 1)) % N
        BY <1>5, <3>1
      <3> QED BY <1>1, <1>4, <2>2, <3>2, <3>3
    <2> QED BY <1>1, <2>1, <2>2, Bounds
  <1>8. FreeCount(st2, q) = n - 1
    <2> DEFINE m == n - 1
    <2>1. m \in 0 .. N /\ m + 1 = n
      BY <1>1, Bounds
    <2>2. \A i \in 1 .. m : st2[(q + i) % N] # "valid"
      BY <1>6
    <2>3. st2[(q + (m + 1)) % N] = "valid"
      BY <1>7, <2>1
    <2> HIDE DEF m
    <2>4. FreeCount(st2, q) = m
      BY <1>2, <2>1, <2>2, <2>3, FreeCountIs
    <2> QED BY <2>4 DEF m
  <1>9. Oldest(st2, q) = Oldest(st, c)
    <2>1. q + (n - 1) + 1 = q + n /\ c + n + 1 = c + (n + 1)
      BY <1>1, <1>2, Bounds DEF Page
    <2>2. CASE n = N
      <3>1. (q + n) % N = q
        BY <1>2, <2>2, RingWhole
      <3>2. (c + n + 1) % N = q
        <4>1. (c + N + 1) % N = (c + 1) % N
          BY Bounds DEF Page
        <4> QED BY <2>2, <4>1
      <3> QED BY <1>3, <1>8, <2>1, <3>1, <3>2
    <2>3. CASE n < N
      <3>1. n \in 0 .. N - 1
        BY <1>1, <2>3, Bounds
      <3> QED BY <1>3, <1>5, <1>8, <2>1, <3>1
    <2> QED BY <1>1, <2>2, <2>3, Bounds
  <1> QED BY <1>8, <1>9 DEF n

\* A page is free once the oldest one is not valid any more.
LEMMA FreeCountErase ==
    ASSUME NEW st, NEW st2, NEW c \in Page,
           st2[Oldest(st, c)] # "valid",
           \A p \in Page : st2[p] = "valid" => st[p] = "valid"
    PROVE  FreeCount(st2, c) > 0
  <1> DEFINE n == FreeCount(st, c)
             q == (c + 1) % N
  <1>1. n \in 0 .. N /\ Oldest(st, c) = (c + n + 1) % N
    BY FreeCountCounts DEF Oldest
  <1>2. q \in Page
    BY PageArithmetic, Bounds
  <1>3. n > 0 <=> st[q] # "valid"
    BY FreeCountPositive
  <1> HIDE DEF n, q
  <1>4. CASE n = 0
    <2>1. c + n + 1 = c + 1
      BY <1>4, Bounds DEF Page
    <2>2. st2[q] # "valid"
      BY <1>1, <2>1 DEF q
    <2> QED BY <2>2, FreeCountPositive DEF q
  <1>5. CASE n > 0
    <2>1. st2[q] # "valid"
      BY <1>2, <1>3, <1>5
    <2> QED BY <2>1, FreeCountPositive DEF q
  <1> QED BY <1>1, <1>4, <1>5, Bounds

-----------------------------------------------------------------------------
(* A free page for every rollover *)

FreeNow == FreeCount(status, cur)
NoneValid == \A p \in Page : ~Valid(p)

\* Records that still fit in the log: in the current page, and in the free ones.
Room == (E - free) \div 2 + RecordsPerPage * FreeNow

\* The request under way, for each place a call can stand.
InRequest ==
    /\ pc \in {"off", "idle"} => op.kind = "none"
    /\ pc = "recover" => op.kind = "boot"
    /\ pc = "scan" => gcing
    /\ pc \in {"write", "key"} =>
          op.kind \in {"boot", "save"} \/ (op.kind = "collect" /\ gcing)
    /\ pc \in {"erase", "mark", "stamp"} =>
          CASE era.by = "collect" -> gcing
            [] era.by = "sweep"   -> op.kind = "sweep"
            [] era.by = "format"  -> op.kind \in {"save", "boot", "clear", "wipe"}
                                     \/ (op.kind = "collect" /\ gcing)
            [] OTHER -> FALSE
    /\ gcing => op.kind \in {"save", "collect"}
    /\ gcing => pc \in {"scan", "write", "key", "erase", "mark", "stamp"}
    /\ op.kind \notin {"clear", "wipe", "sweep"} => idx = 0

Erases == pc \in {"erase", "mark", "stamp"}

\* Outside a collection and a boot a page is free, and the count is right.
Serving ==
    ~gcing /\ op.kind \in {"none", "save", "sweep"} /\ pc # "off" =>
        freePages = FreeNow /\ FreeNow > 0

\* A page is only formatted or swept while it is free.
ErasesFree ==
    /\ Erases /\ era.by = "format" /\ op.kind \in {"save", "collect"} =>
          era.page = NextPage /\ ~Valid(NextPage) /\ Full
    /\ Erases /\ era.by = "sweep" => ~Valid(era.page)
    /\ Erases /\ op.kind \in {"boot", "clear", "wipe"} => era.page = 0 /\ NoneValid
    /\ Erases /\ op.kind \in {"clear", "wipe"} => cur = 0 /\ freePages = FreeNow
    /\ pc = "clear" => \A p \in Page : p < idx => ~Valid(p)

\* The page being collected is the oldest one, until it is erased.
CollectsOldest ==
    gcing =>
        IF era.by = "collect" /\ pc = "mark" THEN FreeNow > 0
        ELSE /\ gc.page = Oldest(status, cur)
             /\ era.by = "collect" /\ pc = "erase" => era.page = gc.page

\* What is left to scan in it fits, with the record being copied.
CopiesFit ==
    gcing /\ ~(Erases /\ era.by = "collect") =>
        /\ (gc.key - 1) \div 2 + (IF pc = "scan" THEN 0 ELSE 1) <= Room
        /\ pc # "scan" => gc.key > 0

Recovers ==
    pc = "recover" \/ (pc \in {"write", "key"} /\ op.kind = "boot") =>
        /\ FreeNow = 0 /\ gc.page = Oldest(status, cur)
        /\ pc = "write" => ~Full

SpaceInv ==
    /\ InRequest /\ Serving /\ ErasesFree /\ CollectsOldest /\ CopiesFit /\ Recovers

LEMMA SpaceInit == Init => SpaceInv
  BY DEF Init, SpaceInv, InRequest, Serving, ErasesFree, CollectsOldest, CopiesFit,
         Recovers, Erases, NoOp

\* What the steps that make no page valid or invalid keep.
LEMMA SameRing ==
    ASSUME Typed, cur' = cur, \A p \in Page : Valid(p)' <=> Valid(p)
    PROVE  /\ FreeNow' = FreeNow /\ Oldest(status, cur)' = Oldest(status, cur)
           /\ NextPage' = NextPage /\ NoneValid' = NoneValid /\ Valid(NextPage)' = Valid(NextPage)
  <1>1. cur \in Page /\ NextPage \in Page
    BY PageArithmetic, Bounds DEF Typed, TypeOK, RamType, NextPage
  <1>2. FreeCount(status', cur) = FreeCount(status, cur)
    BY <1>1, FreeCountSame DEF Valid
  <1> QED BY <1>1, <1>2 DEF FreeNow, Oldest, NextPage, NoneValid, Valid

LEMMA FreeNowType ==
    ASSUME Typed
    PROVE  /\ FreeNow \in 0 .. N /\ cur \in Page /\ NextPage \in Page
           /\ FreeNow > 0 <=> ~Valid(NextPage)
  <1>1. cur \in Page /\ NextPage \in Page
    BY PageArithmetic, Bounds DEF Typed, TypeOK, RamType, NextPage
  <1> QED BY <1>1, FreeCountType, FreeCountPositive DEF FreeNow, Valid, NextPage

LEMMA RoomArithmetic ==
    ASSUME Typed
    PROVE  /\ RecordsPerPage \in Nat /\ RecordsPerPage >= 1
           /\ RecordsPerPage = (E - 2) \div 2
           /\ (E - free) \div 2 \in Nat
           /\ Full => (E - free) \div 2 = 0
           /\ RecordsPerPage * FreeNow \in Nat
           /\ FreeNow = 0 => RecordsPerPage * FreeNow = 0
           /\ FreeNow > 0 => RecordsPerPage * FreeNow >= RecordsPerPage
           /\ RecordsPerPage + RecordsPerPage * (FreeNow - 1) = RecordsPerPage * FreeNow
           /\ Room \in Nat
  <1>1. FreeNow \in Nat
    BY FreeNowType, Bounds
  <1>2. RecordsPerPage \in Nat /\ RecordsPerPage >= 1 /\ RecordsPerPage = (E - 2) \div 2
    BY Bounds DEF RecordsPerPage
  <1>3. (E - free) \div 2 \in Nat /\ (Full => (E - free) \div 2 = 0)
    BY Bounds DEF Full, Typed, TypeOK, RamType
  <1> DEFINE r == RecordsPerPage
             f == FreeNow
  <1> HIDE DEF r, f
  <1>4. r \in Nat /\ f \in Nat
    BY <1>1, <1>2 DEF r, f
  <1>5. /\ r * f \in Nat /\ (f = 0 => r * f = 0) /\ (f > 0 => r * f >= r)
        /\ r + r * (f - 1) = r * f
    BY <1>4
  <1> QED BY <1>2, <1>3, <1>5 DEF r, f, Room

LEMMA WriteDataSpace ==
    ASSUME Typed, SpaceInv, WriteData PROVE SpaceInv'
  <1>1. FreeNow' = FreeNow /\ Oldest(status, cur)' = Oldest(status, cur)
    BY SameRing DEF WriteData, ram, Valid
  <1> QED BY <1>1 DEF WriteData, ram, SpaceInv, InRequest, Serving, ErasesFree,
            CollectsOldest, CopiesFit, Recovers, Erases, Room, Full

LEMMA WriteKeySpace ==
    ASSUME Typed, SpaceInv, WriteKey PROVE SpaceInv'
  <1> USE DEF WriteKey, Return
  <1>1. FreeNow' = FreeNow /\ Oldest(status, cur)' = Oldest(status, cur)
    BY SameRing DEF Valid
  <1>2. Room' = Room - 1 /\ Room \in Nat
    <2> DEFINE x == E - free
               y == E - (free + 2)
    <2>1. x \in Int /\ y = x - 2 /\ free' = free + 2
      BY Bounds DEF Typed, TypeOK, RamType
    <2>2. /\ Room = x \div 2 + RecordsPerPage * FreeNow
          /\ Room' = y \div 2 + RecordsPerPage * FreeNow
      BY <1>1 DEF Room
    <2>3. RecordsPerPage * FreeNow \in Nat /\ Room \in Nat
      BY RoomArithmetic
    <2> DEFINE z == RecordsPerPage * FreeNow
    <2> HIDE DEF x, y, z
    <2>4. x \div 2 = y \div 2 + 1 /\ y \div 2 \in Int
      BY <2>1
    <2>5. Room = x \div 2 + z /\ Room' = y \div 2 + z /\ z \in Nat
      BY <2>2, <2>3 DEF z
    <2> QED BY <2>3, <2>4, <2>5
  <1>3. InRequest' /\ Serving' /\ ErasesFree' /\ Recovers'
    BY <1>1 DEF SpaceInv, InRequest, Serving, ErasesFree, Recovers, Erases, NoOp
  <1>4. CollectsOldest'
    BY <1>1 DEF SpaceInv, InRequest, CollectsOldest
  <1>5. CopiesFit'
    <2>1. gc.key \in Nat /\ (gc.key - 1) \div 2 \in Int
      BY Bounds DEF Typed, TypeOK, CallType, Locals
    <2> QED BY <1>2, <2>1 DEF SpaceInv, InRequest, CopiesFit, Erases
  <1> QED BY <1>3, <1>4, <1>5 DEF SpaceInv

LEMMA SetEndSpace ==
    ASSUME Typed, SpaceInv, SetEnd PROVE SpaceInv'
  <1>1. FreeNow' = FreeNow /\ Oldest(status, cur)' = Oldest(status, cur)
    BY SameRing DEF SetEnd, ram, Valid
  <1> QED BY <1>1 DEF SetEnd, ram, call, SpaceInv, InRequest, Serving, ErasesFree,
            CollectsOldest, CopiesFit, Recovers, Erases, Room, Full

\* The write that finds its page full has a free one to go on with.
LEMMA SpaceForWrite ==
    ASSUME Typed, SpaceInv, pc = "write", Full
    PROVE  ~Valid(NextPage) /\ op.kind \in {"save", "collect"}
  <1>1. op.kind \in {"save", "collect"}
    BY DEF SpaceInv, InRequest, Recovers
  <1>2. FreeNow > 0
    <2>1. CASE gcing
      <3>1. gc.key \in Nat /\ gc.key > 0 /\ (gc.key - 1) \div 2 + 1 <= Room
        BY <2>1, Bounds DEF SpaceInv, CopiesFit, Erases, Typed, TypeOK, CallType, Locals
      <3>2. Room >= 1
        BY <3>1, RoomArithmetic
      <3> QED BY <3>2, RoomArithmetic, FreeNowType DEF Room
    <2>2. CASE ~gcing
      BY <1>1, <2>2 DEF SpaceInv, InRequest, Serving
    <2> QED BY <2>1, <2>2
  <1> QED BY <1>1, <1>2, FreeNowType

LEMMA FindFreePageSpace ==
    ASSUME Typed, SpaceInv, FindFreePage PROVE SpaceInv'
  <1> USE DEF FindFreePage, BeginFormat
  <1>1. /\ FreeNow' = FreeNow /\ Oldest(status, cur)' = Oldest(status, cur)
        /\ NextPage' = NextPage /\ Valid(NextPage)' = Valid(NextPage)
    BY SameRing DEF flash, ram, Valid
  <1>2. ~Valid(NextPage) /\ op.kind \in {"save", "collect"}
    BY SpaceForWrite
  <1>3. InRequest' /\ Serving' /\ Recovers'
    BY <1>1, <1>2 DEF SpaceInv, InRequest, Serving, ErasesFree, Recovers, Erases, ram
  <1>4. ErasesFree'
    BY <1>1, <1>2 DEF SpaceInv, ErasesFree, Erases, ram, Full
  <1>5. CollectsOldest' /\ CopiesFit'
    BY <1>1, <1>2 DEF SpaceInv, CollectsOldest, CopiesFit, Erases, Room, ram
  <1> QED BY <1>3, <1>4, <1>5 DEF SpaceInv

LEMMA EraseSectorSpace ==
    ASSUME Typed, SpaceInv, EraseSector PROVE SpaceInv'
  <1> USE DEF EraseSector
  <1>0. /\ era.page \in Page /\ Valid(era.page)' = FALSE
        /\ \A p \in Page : p # era.page => Valid(p)' = Valid(p)
        /\ UNCHANGED <<cur, free, freePages, gcing, op, gc, era, idx>>
    BY DEF Typed, TypeOK, FlashType, CallType, Erasing, Valid, ram
  <1>1. CASE era.by # "collect"
    <2>1. ~Valid(era.page)
      <3>1. CASE era.by = "sweep"
        BY <3>1 DEF SpaceInv, ErasesFree, Erases
      <3>2. CASE era.by = "format" /\ op.kind \in {"save", "collect"}
        BY <3>2 DEF SpaceInv, ErasesFree, Erases
      <3>3. CASE era.by = "format" /\ op.kind \in {"boot", "clear", "wipe"}
        BY <1>0, <3>3 DEF SpaceInv, ErasesFree, Erases, NoneValid
      <3> QED BY <1>1, <3>1, <3>2, <3>3 DEF SpaceInv, InRequest
    <2>2. \A p \in Page : Valid(p)' <=> Valid(p)
      BY <1>0, <2>1
    <2>3. /\ FreeNow' = FreeNow /\ Oldest(status, cur)' = Oldest(status, cur)
          /\ NextPage' = NextPage /\ NoneValid' = NoneValid /\ Valid(NextPage)' = Valid(NextPage)
      BY <1>0, <2>2, SameRing
    <2>4. InRequest' /\ Serving' /\ Recovers'
      BY <1>0, <2>3 DEF SpaceInv, InRequest, Serving, Recovers
    <2>5. ErasesFree'
      BY <1>0, <2>1, <2>3 DEF SpaceInv, ErasesFree, Erases, Full
    <2>6. CollectsOldest' /\ CopiesFit'
      BY <1>0, <1>1, <2>3 DEF SpaceInv, CollectsOldest, CopiesFit, Erases, Room
    <2> QED BY <2>4, <2>5, <2>6 DEF SpaceInv
  <1>2. CASE era.by = "collect"
    <2>1. gcing /\ era.page = Oldest(status, cur) /\ op.kind \in {"save", "collect"}
      BY <1>2 DEF SpaceInv, InRequest, CollectsOldest
    <2>2. FreeNow' > 0
      <3>1. /\ cur \in Page /\ status'[Oldest(status, cur)] # "valid"
            /\ \A p \in Page : status'[p] = "valid" => status[p] = "valid"
        BY <1>0, <2>1, FreeNowType DEF Valid
      <3>2. FreeCount(status', cur) > 0
        BY <3>1, FreeCountErase
      <3> QED BY <1>0, <3>2 DEF FreeNow
    <2>3. InRequest' /\ Serving' /\ Recovers'
      BY <1>0, <1>2, <2>1 DEF SpaceInv, InRequest, Serving, Recovers
    <2>4. ErasesFree' /\ CollectsOldest' /\ CopiesFit'
      BY <1>0, <1>2, <2>1, <2>2 DEF ErasesFree, CollectsOldest, CopiesFit, Erases
    <2> QED BY <2>3, <2>4 DEF SpaceInv
  <1> QED BY <1>1, <1>2

\* The word after an erase changes no page that is valid.
LEMMA MarkKeepsRing ==
    ASSUME Typed, SpaceInv, pc = "mark", era.by \in {"format", "sweep"},
           MarkErased \/ UNCHANGED flash, UNCHANGED cur
    PROVE  /\ FreeNow' = FreeNow /\ Oldest(status, cur)' = Oldest(status, cur)
           /\ NextPage' = NextPage /\ NoneValid' = NoneValid /\ Valid(NextPage)' = Valid(NextPage)
           /\ \A p \in Page : Valid(p)' <=> Valid(p)
  <1>1. era.page \in Page
    BY DEF Typed, TypeOK, CallType, Erasing
  <1>2. ~Valid(era.page)
    <3>1. CASE era.by = "sweep"
      BY <3>1 DEF SpaceInv, ErasesFree, Erases
    <3>2. CASE era.by = "format" /\ op.kind \in {"save", "collect"}
      BY <3>2 DEF SpaceInv, ErasesFree, Erases
    <3>3. CASE era.by = "format" /\ op.kind \in {"boot", "clear", "wipe"}
      BY <1>1, <3>3 DEF SpaceInv, ErasesFree, Erases, NoneValid
    <3> QED BY <3>1, <3>2, <3>3 DEF SpaceInv, InRequest
  <1>3. \A p \in Page : Valid(p)' <=> Valid(p)
    BY <1>1, <1>2 DEF MarkErased, Valid, flash, Typed, TypeOK, FlashType
  <1> QED BY <1>3, SameRing

LEMMA MarkFormatSpace ==
    ASSUME Typed, SpaceInv, MarkFormat PROVE SpaceInv'
  <1>1. /\ FreeNow' = FreeNow /\ Oldest(status, cur)' = Oldest(status, cur)
        /\ NextPage' = NextPage /\ NoneValid' = NoneValid /\ Valid(NextPage)' = Valid(NextPage)
        /\ pc = "mark" /\ era.by = "format" /\ pc' = "stamp"
        /\ UNCHANGED <<ram, gcing, op, wr, gc, era, idx>>
    BY MarkKeepsRing DEF MarkFormat, MarkErased, ram
  <1>2. InRequest' /\ Serving' /\ Recovers'
    BY <1>1 DEF SpaceInv, InRequest, Serving, Recovers, ram
  <1>3. ErasesFree'
    BY <1>1 DEF SpaceInv, ErasesFree, Erases, Full, ram
  <1>4. CollectsOldest' /\ CopiesFit'
    BY <1>1 DEF SpaceInv, CollectsOldest, CopiesFit, Erases, Room, ram
  <1> QED BY <1>2, <1>3, <1>4 DEF SpaceInv

\* Where a write was under way when the format of its page failed.
LEMMA FormatFailsSpace ==
    ASSUME Typed, SpaceInv, FormatFails PROVE SpaceInv'
  <1>1. /\ FreeNow' = FreeNow /\ Oldest(status, cur)' = Oldest(status, cur)
        /\ NoneValid' = NoneValid
        /\ pc = "mark" /\ era.by = "format" /\ era' = NoErase /\ idx' = 0
        /\ UNCHANGED <<ram, gcing, gc>>
    BY MarkKeepsRing DEF FormatFails, MarkFails, ram
  <1>2. CASE op.kind \in {"boot", "clear", "wipe"}
    <2>1. NoneValid /\ ~gcing
      BY <1>1, <1>2 DEF SpaceInv, InRequest, ErasesFree, Erases
    <2>2. FreeNow > 0
      BY <2>1, FreeNowType DEF NoneValid
    <2>3. pc' \in {"off", "idle"} /\ op' = NoOp /\ (pc' = "off" <=> op.kind = "boot")
      BY <1>2 DEF FormatFails
    <2>4. freePages = FreeNow \/ op.kind = "boot"
      BY <1>1, <1>2 DEF SpaceInv, ErasesFree, Erases
    <2> QED BY <1>1, <2>1, <2>2, <2>3, <2>4 DEF SpaceInv, InRequest, Serving, ErasesFree,
              CollectsOldest, CopiesFit, Recovers, Erases, NoOp, ram
  <1>3. CASE op.kind \in {"save", "collect"}
    <2>1. /\ IF gcing THEN pc' = "scan" /\ op' = op ELSE pc' = "idle" /\ op' = NoOp
          /\ op.kind = "collect" => gcing
      BY <1>1, <1>3 DEF FormatFails, Return, SpaceInv, InRequest
    <2>2. InRequest' /\ Serving' /\ Recovers' /\ ErasesFree' /\ CollectsOldest'
      BY <1>1, <1>3, <2>1 DEF SpaceInv, InRequest, Serving, ErasesFree,
              CollectsOldest, Recovers, Erases, NoOp, ram
    <2>3. CopiesFit'
      <3>1. Room' = Room /\ Room \in Nat
        BY <1>1, RoomArithmetic DEF Room, ram
      <3>2. gc.key \in Nat /\ (gc.key - 1) \div 2 \in Int
        BY Bounds DEF Typed, TypeOK, CallType, Locals
      <3> QED BY <1>1, <2>1, <3>1, <3>2 DEF SpaceInv, CopiesFit, Erases, NoErase
    <2> QED BY <2>2, <2>3 DEF SpaceInv
  <1>4. op.kind \in {"save", "collect", "boot", "clear", "wipe"}
    BY <1>1 DEF SpaceInv, InRequest
  <1> QED BY <1>2, <1>3, <1>4

\* What is left to scan in a page when its collection starts.
LEMMA StartFits ==
    ASSUME Typed, NEW st, NEW c \in Page
    PROVE  LET k == LastKey(Oldest(st, c))
           IN  k \in Nat /\ (k - 1) \div 2 <= RecordsPerPage
  <1> DEFINE k == LastKey(Oldest(st, c))
  <1>1. k \in 0 .. E - 1
    BY OldestType, LastKeyType DEF Typed, TypeOK, FlashType
  <1> HIDE DEF k
  <1>2. RecordsPerPage = (E - 2) \div 2
    BY RoomArithmetic
  <1>3. (k - 1) \div 2 <= (E - 2) \div 2
    BY <1>1, Bounds
  <1> QED BY <1>1, <1>2, <1>3, Bounds DEF k

LEMMA StampNextSpace ==
    ASSUME Typed, SpaceInv, StampNext PROVE SpaceInv'
  <1>1. /\ pc = "stamp" /\ era.by = "format" /\ op.kind \in {"save", "collect"}
        /\ era.page = NextPage /\ ~Valid(NextPage) /\ Full
    <2>1. pc = "stamp" /\ era.by = "format" /\ op.kind \in {"save", "collect"}
      BY DEF StampNext, StampPage, Typed, CallOK
    <2> QED BY <2>1 DEF SpaceInv, ErasesFree, Erases
  <1>2. /\ status' = [status EXCEPT ![NextPage] = "valid"] /\ cur' = NextPage /\ free' = 2
        /\ freePages' = (freePages + 255) % 256 /\ op' = op /\ idx' = idx
    BY <1>1 DEF StampNext, StampPage
  <1>3. /\ FreeNow \in 1 .. N /\ cur \in Page /\ NextPage \in Page
        /\ FreeNow' = FreeNow - 1 /\ Oldest(status, cur)' = Oldest(status, cur)
    <2>1. FreeNow \in 1 .. N /\ cur \in Page /\ NextPage \in Page
      BY <1>1, FreeNowType, Bounds
    <2>2. status \in [Page -> {"blank", "erased", "dead", "valid"}]
      BY DEF Typed, TypeOK, FlashType
    <2>3. FreeCount(status, cur) > 0 /\ cur' = (cur + 1) % N
      BY <1>2, <2>1 DEF FreeNow, NextPage
    <2>4. status'[cur'] = "valid" /\ \A p \in Page : p # cur' => status'[p] = status[p]
      BY <1>2, <2>1, <2>2
    <2>5. /\ FreeCount(status', cur') = FreeCount(status, cur) - 1
          /\ Oldest(status', cur') = Oldest(status, cur)
      BY <2>1, <2>2, <2>3, <2>4, FreeCountStamp
    <2> QED BY <2>1, <2>5 DEF FreeNow
  <1>4. Room' = Room /\ Room' >= RecordsPerPage
    <2> DEFINE r == RecordsPerPage
               f == FreeNow
    <2>1. (E - 2) \div 2 = r /\ (E - free) \div 2 = 0 /\ r \in Nat
      BY <1>1, RoomArithmetic
    <2>2. Room = 0 + r * f /\ Room' = r + r * (f - 1)
      BY <1>2, <1>3, <2>1 DEF Room
    <2>3. r * f >= r /\ r + r * (f - 1) = r * f /\ r * f \in Nat
      BY <1>3, RoomArithmetic
    <2> HIDE DEF r, f
    <2>4. Room = r * f /\ Room' = r * f
      BY <2>2, <2>3
    <2> QED BY <2>3, <2>4 DEF r
  <1>5. InRequest'
    BY <1>1, <1>2 DEF StampNext, StartGc, SpaceInv, InRequest
  <1>6. CASE gcing
    <2>1. pc' = "write" /\ UNCHANGED <<gcing, gc, op>> /\ era' = NoErase
      BY <1>6 DEF StampNext, StampPage
    <2>2. Serving' /\ ErasesFree' /\ Recovers' /\ CollectsOldest'
      BY <1>1, <1>3, <1>6, <2>1 DEF SpaceInv, Serving, ErasesFree, CollectsOldest, Recovers,
             Erases, NoErase
    <2>3. CopiesFit'
      BY <1>1, <1>4, <1>6, <2>1 DEF SpaceInv, CopiesFit, Erases, NoErase
    <2> QED BY <1>5, <2>2, <2>3 DEF SpaceInv
  <1>7. CASE ~gcing
    <2>1. op.kind = "save" /\ freePages = FreeNow
      BY <1>1, <1>7 DEF SpaceInv, InRequest, Serving
    <2>2. freePages' = FreeNow'
      BY <1>2, <1>3, <2>1, Bounds
    <2>3. CASE freePages' = 0
      <3>1. /\ gcing' /\ pc' = "scan" /\ op' = op /\ era' = NoErase
            /\ gc'.page = Oldest(status, cur)' /\ gc'.key = LastKey(Oldest(status', cur'))
        BY <1>7, <2>3 DEF StampNext, StampPage, StartGc
      <3>2. gc'.key \in Nat /\ (gc'.key - 1) \div 2 <= RecordsPerPage
        BY <1>2, <1>3, <3>1, StartFits
      <3>3. Serving' /\ ErasesFree' /\ Recovers' /\ CollectsOldest'
        BY <1>1, <1>3, <2>1, <3>1 DEF Serving, ErasesFree, CollectsOldest, Recovers,
             Erases, NoErase
      <3>4. CopiesFit'
        <4>1. (gc'.key - 1) \div 2 <= Room'
          BY <1>4, <3>2, RoomArithmetic
        <4>2. (gc'.key - 1) \div 2 \in Int
          BY <3>2
        <4> QED BY <3>1, <4>1, <4>2 DEF CopiesFit, Erases, NoErase
      <3> QED BY <1>5, <3>3, <3>4 DEF SpaceInv
    <2>4. CASE freePages' # 0
      <3>1. pc' = "write" /\ ~gcing' /\ op' = op /\ era' = NoErase
        BY <1>7, <2>4 DEF StampNext, StampPage
      <3> QED BY <1>3, <1>5, <2>1, <2>2, <2>4, <3>1, Bounds DEF SpaceInv, Serving, ErasesFree,
             CollectsOldest, CopiesFit, Recovers, Erases, NoErase
    <2> QED BY <2>3, <2>4
  <1> QED BY <1>6, <1>7

LEMMA StampFirstSpace ==
    ASSUME Typed, SpaceInv, StampFirst PROVE SpaceInv'
  <1>1. era.page = 0 /\ NoneValid /\ ~gcing
    BY DEF StampFirst, StampPage, SpaceInv, InRequest, ErasesFree, Erases
  <1>2. /\ status' = [status EXCEPT ![0] = "valid"] /\ cur' = 0 /\ pc' = "idle" /\ op' = NoOp
        /\ freePages' = FreeNow' /\ idx' = 0 /\ ~gcing'
    BY <1>1 DEF StampFirst, StampPage, FreeNow
  <1>3. FreeNow' > 0
    <2>1. 0 \in Page /\ 1 \in Page /\ (0 + 1) % N = 1
      BY Bounds, Wraps DEF Page
    <2>2. status'[1] # "valid"
      BY <1>1, <1>2, <2>1 DEF NoneValid, Valid, Typed, TypeOK, FlashType
    <2>3. FreeCount(status', 0) > 0
      BY <2>1, <2>2, FreeCountPositive
    <2> QED BY <1>2, <2>3 DEF FreeNow
  <1> QED BY <1>2, <1>3 DEF SpaceInv, InRequest, Serving, ErasesFree, CollectsOldest,
            CopiesFit, Recovers, Erases, NoOp

LEMMA CopyLiveSpace ==
    ASSUME Typed, SpaceInv, CopyLive PROVE SpaceInv'
  <1> USE DEF CopyLive
  <1>1. /\ FreeNow' = FreeNow /\ Oldest(status, cur)' = Oldest(status, cur)
        /\ Room' = Room /\ pc = "scan" /\ pc' = "write"
        /\ UNCHANGED <<flash, ram, gcing, op, era, idx>>
    BY SameRing DEF CopyNext, flash, ram, Valid, Room
  <1>2. \E k \in ScanFrom(gc.key) : gc'.page = gc.page /\ gc'.key = k - 2
    <2>1. Max(LiveKeys) \in ScanFrom(gc.key)
      BY LiveKeysType DEF CopyNext
    <2>2. gc \in Locals
      BY DEF Typed, TypeOK, CallType
    <2> QED BY <2>1, <2>2 DEF CopyNext, Locals
  <1>3. gcing /\ op.kind \in {"save", "collect"}
    BY <1>1 DEF SpaceInv, InRequest
  <1>4. InRequest' /\ Serving' /\ ErasesFree' /\ Recovers' /\ CollectsOldest'
    BY <1>1, <1>2, <1>3 DEF SpaceInv, InRequest, Serving, ErasesFree,
          CollectsOldest, Recovers, Erases
  <1>5. CopiesFit'
    <2>1. PICK k \in ScanFrom(gc.key) : gc'.page = gc.page /\ gc'.key = k - 2
      BY <1>2
    <2>2. gc.key \in Nat /\ k \in Nat /\ k >= 3 /\ k <= gc.key
      BY Bounds DEF ScanFrom, Typed, TypeOK, CallType, Locals
    <2>3. ((k - 2) - 1) \div 2 + 1 <= (gc.key - 1) \div 2 /\ k - 2 > 0
      BY <2>2
    <2>4. Room \in Nat /\ (gc.key - 1) \div 2 \in Int
      BY <2>2, RoomArithmetic
    <2>5. (gc.key - 1) \div 2 <= Room
      BY <1>1, <1>3, <2>4 DEF SpaceInv, CopiesFit, Erases
    <2> QED BY <1>1, <2>1, <2>2, <2>3, <2>4, <2>5 DEF CopiesFit
  <1> QED BY <1>4, <1>5 DEF SpaceInv

LEMMA CollectPageSpace ==
    ASSUME Typed, SpaceInv, CollectPage PROVE SpaceInv'
  <1> USE DEF CollectPage
  <1>1. /\ FreeNow' = FreeNow /\ Oldest(status, cur)' = Oldest(status, cur)
    BY SameRing DEF flash, ram, Valid
  <1>2. gcing /\ op.kind \in {"save", "collect"}
    BY DEF SpaceInv, InRequest
  <1>3. gc'.page = gc.page /\ era'.page = gc.page /\ era'.by = "collect"
    BY DEF Typed, TypeOK, CallType, Locals
  <1> QED BY <1>1, <1>2, <1>3 DEF SpaceInv, InRequest, Serving, ErasesFree,
          CollectsOldest, CopiesFit, Recovers, Erases

\* The page of a round that is over is free, whether or not it could be marked.
LEMMA RoundOver ==
    ASSUME Typed, SpaceInv, pc = "mark", era.by = "collect",
           MarkErased \/ UNCHANGED flash, UNCHANGED <<cur, free>>
    PROVE  /\ FreeNow' > 0 /\ gcing /\ op.kind \in {"save", "collect"} /\ idx = 0
           /\ Room' \in Nat /\ RecordsPerPage <= Room'
  <1>1. gcing /\ op.kind \in {"save", "collect"} /\ FreeNow > 0 /\ idx = 0
    BY DEF SpaceInv, InRequest, CollectsOldest
  <1>2. ~Valid(NextPage) /\ cur \in Page /\ NextPage \in Page
    BY <1>1, FreeNowType
  <1>3. status'[NextPage] # "valid"
    BY <1>2 DEF MarkErased, Valid, flash, Typed, TypeOK, FlashType
  <1>4. FreeNow' > 0
    BY <1>2, <1>3, FreeCountPositive DEF FreeNow, NextPage
  <1>5. FreeNow' \in 0 .. N
    BY FreeCountType DEF FreeNow
  <1>6. Room' \in Nat /\ RecordsPerPage <= Room'
    <2> DEFINE r == RecordsPerPage
               f == FreeNow'
               s == (E - free) \div 2
    <2>1. r \in Nat /\ s \in Nat /\ f \in Nat /\ f > 0
      BY <1>4, <1>5, RoomArithmetic, Bounds
    <2>2. Room' = s + r * f
      BY DEF Room
    <2> HIDE DEF r, f, s
    <2>3. r * f >= r /\ r * f \in Nat
      BY <2>1
    <2> QED BY <2>1, <2>2, <2>3 DEF r
  <1> QED BY <1>1, <1>4, <1>6

LEMMA EndGcSpace ==
    ASSUME Typed, SpaceInv, NEW st, EndGc(st), st = status',
           FreeNow' > 0, op.kind \in {"save", "collect"}, idx' = 0, cur' = cur
    PROVE  SpaceInv'
  <1>1. /\ freePages' = FreeNow' /\ ~gcing' /\ era' = NoErase
        /\ \/ pc' = "write" /\ op' = op /\ op.kind = "save"
           \/ pc' = "idle" /\ op' = NoOp
    BY DEF EndGc, FreeNow
  <1> QED BY <1>1 DEF SpaceInv, InRequest, Serving, ErasesFree, CollectsOldest,
            CopiesFit, Recovers, Erases, NoErase, NoOp

LEMMA MarkCollectedSpace ==
    ASSUME Typed, SpaceInv, MarkCollected PROVE SpaceInv'
  <1> USE DEF MarkCollected
  <1>1. pc = "mark" /\ era.by = "collect" /\ MarkErased /\ UNCHANGED <<cur, free, idx>>
    BY DEF MarkErased
  <1>2. /\ FreeNow' > 0 /\ gcing /\ op.kind \in {"save", "collect"} /\ idx' = 0
        /\ Room' \in Nat /\ RecordsPerPage <= Room'
    BY <1>1, RoundOver
  <1>3. CASE ~gc.recycled /\ gc.retry > 0
    <2>1. /\ gc'.page = Oldest(status', cur) /\ gc'.key = LastKey(Oldest(status', cur))
          /\ pc' = "scan" /\ era' = NoErase /\ UNCHANGED <<freePages, gcing, op, wr>>
      BY <1>3
    <2>2. gc'.key \in Nat /\ (gc'.key - 1) \div 2 <= RecordsPerPage
      BY <2>1, StartFits DEF Typed, TypeOK, RamType
    <2>3. (gc'.key - 1) \div 2 <= Room' /\ (gc'.key - 1) \div 2 \in Int
      BY <1>2, <2>2, RoomArithmetic
    <2>4. CopiesFit'
      BY <2>1, <2>3 DEF CopiesFit, Erases, NoErase
    <2> QED BY <1>1, <1>2, <2>1, <2>4 DEF SpaceInv, InRequest, Serving, ErasesFree,
            CollectsOldest, Recovers, Erases, NoErase
  <1>4. CASE ~(~gc.recycled /\ gc.retry > 0)
    BY <1>1, <1>2, <1>4, EndGcSpace
  <1> QED BY <1>3, <1>4

LEMMA CollectFailsSpace ==
    ASSUME Typed, SpaceInv, CollectFails PROVE SpaceInv'
  <1>1. /\ pc = "mark" /\ era.by = "collect" /\ UNCHANGED flash /\ UNCHANGED <<cur, free, idx>>
        /\ EndGc(status) /\ status' = status
    BY DEF CollectFails, MarkFails, flash
  <1>2. FreeNow' > 0 /\ op.kind \in {"save", "collect"} /\ idx' = 0
    BY <1>1, RoundOver
  <1> QED BY <1>1, <1>2, EndGcSpace

LEMMA ClearPageSpace ==
    ASSUME Typed, SpaceInv, ClearPage PROVE SpaceInv'
  <1>1. \A p \in Page : p < idx' => ~Valid(p)'
    BY Bounds DEF ClearPage, SpaceInv, ErasesFree, Valid, Typed, TypeOK, FlashType, CallType, Page
  <1>2. pc = "clear" /\ pc' = "clear" /\ op' = op /\ op.kind \in {"clear", "wipe"} /\ ~gcing /\ ~gcing'
    BY DEF ClearPage, SpaceInv, InRequest, Typed, CallOK
  <1> QED BY <1>1, <1>2 DEF SpaceInv, InRequest, Serving, ErasesFree, CollectsOldest,
            CopiesFit, Recovers, Erases

LEMMA ClearTableSpace ==
    ASSUME Typed, SpaceInv, ClearTable PROVE SpaceInv'
  <1>1. NoneValid' /\ NoneValid
    BY Bounds DEF ClearTable, SpaceInv, ErasesFree, Valid, NoneValid, flash, Page
  <1>2. /\ op' = op /\ op.kind \in {"clear", "wipe"} /\ ~gcing /\ ~gcing' /\ cur' = 0
        /\ freePages' = FreeNow' /\ era'.page = 0 /\ era'.by = "format" /\ pc' \in {"stamp", "erase"}
    BY DEF ClearTable, BeginFormat, SpaceInv, InRequest, Typed, CallOK, flash, FreeNow
  <1> QED BY <1>1, <1>2 DEF SpaceInv, InRequest, Serving, ErasesFree, CollectsOldest,
            CopiesFit, Recovers, Erases

\* The sweep goes on to a free page.
LEMMA SweepOnSpace ==
    ASSUME Typed, NEW st, NEW i \in 0 .. N, SweepOn(st, i), st = status',
           op.kind \in {"none", "sweep"}, ~gcing', UNCHANGED <<cur, freePages>>,
           freePages = FreeNow', FreeNow' > 0
    PROVE  SpaceInv'
  <1>1. CASE Unswept(st, i) # {}
    <2> DEFINE j == Min(Unswept(st, i))
    <2>1. /\ era'.page = (cur + j) % N /\ era'.by = "sweep" /\ pc' = "erase"
          /\ op'.kind = "sweep"
      BY <1>1 DEF SweepOn
    <2>2. j \in 1 .. FreeCount(st, cur)
      <3>1. Unswept(st, i) \in SUBSET (1 .. FreeCount(st, cur))
        BY FreeCountType, Bounds DEF Unswept
      <3>2. 1 \in Nat /\ FreeCount(st, cur) \in Nat
        BY FreeCountType, Bounds
      <3> QED BY <1>1, <3>1, <3>2, MinInRange
    <2> HIDE DEF j
    <2>3. st[(cur + j) % N] # "valid"
      BY <2>2, FreeCountCounts DEF Typed, TypeOK, RamType
    <2> QED BY <2>1, <2>3 DEF SpaceInv, InRequest, Serving, ErasesFree, CollectsOldest,
            CopiesFit, Recovers, Erases, Valid
  <1>2. CASE Unswept(st, i) = {}
    <2>1. era' = NoErase /\ idx' = 0 /\ pc' = "idle" /\ op' = NoOp
      BY <1>2 DEF SweepOn
    <2> QED BY <2>1 DEF SpaceInv, InRequest, Serving, ErasesFree, CollectsOldest,
            CopiesFit, Recovers, Erases, NoOp
  <1> QED BY <1>1, <1>2

LEMMA MarkSweptSpace ==
    ASSUME Typed, SpaceInv, MarkSwept \/ SweepFails PROVE SpaceInv'
  <1>1. /\ pc = "mark" /\ era.by = "sweep" /\ (MarkErased \/ UNCHANGED flash)
        /\ UNCHANGED <<ram, gcing>> /\ SweepOn(status', idx)
    BY DEF MarkSwept, SweepFails, MarkErased, MarkFails, flash
  <1>2. op.kind = "sweep" /\ ~gcing /\ freePages = FreeNow /\ FreeNow > 0
    BY <1>1 DEF SpaceInv, InRequest, Serving
  <1>3. FreeNow' = FreeNow
    BY <1>1, MarkKeepsRing DEF ram
  <1>4. idx \in 0 .. N
    BY DEF Typed, TypeOK, CallType
  <1> QED BY <1>1, <1>2, <1>3, <1>4, SweepOnSpace DEF ram

LEMMA SweepSpace ==
    ASSUME Typed, SpaceInv, Sweep PROVE SpaceInv'
  <1>1. /\ pc = "idle" /\ UNCHANGED <<flash, ram, gcing>> /\ SweepOn(status', 0)
    BY DEF Sweep, flash
  <1>2. op.kind = "none" /\ ~gcing /\ freePages = FreeNow /\ FreeNow > 0
    BY <1>1 DEF SpaceInv, InRequest, Serving
  <1>3. FreeNow' = FreeNow
    BY <1>1, SameRing DEF flash, ram, Valid
  <1>4. 0 \in 0 .. N
    BY Bounds
  <1> QED BY <1>1, <1>2, <1>3, <1>4, SweepOnSpace DEF ram

\* ftl_init formats the first page only if it finds no valid one.
LEMMA SearchFindsNone ==
    ASSUME NEW best \in Search, best[N] = -1
    PROVE  NoneValid
  <1> SUFFICES ASSUME NEW p \in Page, Valid(p) PROVE FALSE
    BY DEF NoneValid
  <1> DEFINE S == {i \in p + 1 .. N : best[i] = -1}
  <1>1. N \in S /\ S \in SUBSET Nat /\ p \in Nat /\ p + 1 \in 1 .. N
    BY Bounds DEF Page
  <1>2. PICK m \in S : \A x \in S : m <= x
    BY <1>1, LeastNatural
  <1>3. m \in 1 .. N /\ m >= p + 1 /\ best[m] = -1 /\ m - 1 \in Page
    BY <1>1, Bounds DEF Page
  <1>4. best[m] = IF Newer(m - 1, best[m - 1]) THEN m - 1 ELSE best[m - 1]
    BY <1>3 DEF Search
  <1>5. best[m - 1] = -1 /\ ~Newer(m - 1, -1)
    BY <1>3, <1>4, Bounds DEF Page
  <1>6. CASE m = p + 1
    BY <1>1, <1>5, <1>6 DEF Newer
  <1>7. CASE m > p + 1
    <2>1. m - 1 \in S
      BY <1>1, <1>3, <1>5, <1>7, Bounds
    <2> QED BY <1>2, <1>3, <2>1
  <1> QED BY <1>1, <1>3, <1>6, <1>7

LEMMA FormatFirstSpace ==
    ASSUME Typed, SpaceInv, FormatFirst PROVE SpaceInv'
  <1>1. NoneValid /\ NoneValid'
    BY SearchFindsNone DEF FormatFirst, flash, NoneValid, Valid
  <1>2. /\ op'.kind = "boot" /\ ~gcing' /\ era'.page = 0 /\ era'.by = "format"
        /\ pc' \in {"stamp", "erase"} /\ idx' = 0
    BY DEF FormatFirst, BeginFormat, BootOp, SpaceInv, InRequest
  <1> QED BY <1>1, <1>2 DEF SpaceInv, InRequest, Serving, ErasesFree, CollectsOldest,
            CopiesFit, Recovers, Erases

LEMMA MountSpace ==
    ASSUME Typed, SpaceInv, Mount PROVE SpaceInv'
  <1>1. /\ pc = "off" /\ freePages' = FreeNow' /\ idx' = 0 /\ ~gcing' /\ status' = status
    BY DEF Mount, FreeNow, flash, SpaceInv, InRequest
  <1>2. FreeNow' \in 0 .. N
    BY FreeCountType DEF FreeNow
  <1>3. CASE freePages' = 0
    <2>1. pc' = "recover" /\ op'.kind = "boot" /\ gc'.page = Oldest(status', cur')
      BY <1>1, <1>3 DEF Mount, BootOp
    <2> QED BY <1>1, <1>3, <2>1 DEF SpaceInv, InRequest, Serving, ErasesFree, CollectsOldest,
            CopiesFit, Recovers, Erases
  <1>4. CASE freePages' # 0
    <2>1. pc' = "idle" /\ op' = NoOp
      BY <1>4 DEF Mount
    <2> QED BY <1>1, <1>2, <1>4, <2>1, Bounds DEF SpaceInv, InRequest, Serving, ErasesFree,
            CollectsOldest, CopiesFit, Recovers, Erases, NoOp
  <1> QED BY <1>3, <1>4

LEMMA RecoverCopySpace ==
    ASSUME Typed, SpaceInv, RecoverCopy PROVE SpaceInv'
  <1> USE DEF RecoverCopy
  <1>1. FreeNow' = FreeNow /\ Oldest(status, cur)' = Oldest(status, cur)
    BY SameRing DEF CopyNext, flash, ram, Valid
  <1>2. gc'.page = gc.page /\ pc' = "write" /\ UNCHANGED <<flash, ram, gcing, op, era, idx>>
    BY DEF CopyNext, Typed, TypeOK, CallType, Locals
  <1>3. op.kind = "boot" /\ ~gcing
    BY DEF SpaceInv, InRequest
  <1> QED BY <1>1, <1>2, <1>3 DEF SpaceInv, InRequest, Serving, ErasesFree, CollectsOldest,
            CopiesFit, Recovers, Erases, ram, Full

\* The page that the recovery has emptied, or given up, is free.
LEMMA RecoverEndSpace ==
    ASSUME Typed, SpaceInv, RecoverEnd PROVE SpaceInv'
  <1>1. /\ op.kind = "boot" /\ ~gcing /\ idx = 0 /\ gc.page = Oldest(status, cur) /\ gc.page \in Page
        /\ cur \in Page
    BY DEF RecoverEnd, SpaceInv, InRequest, Recovers, Typed, TypeOK, CallType, RamType, Locals
  <1>2. /\ status' = [status EXCEPT ![gc.page] = "dead"] /\ cur' = cur /\ ~gcing' /\ idx' = 0
    BY <1>1 DEF RecoverEnd
  <1>3. FreeNow' > 0
    <2>1. /\ status'[Oldest(status, cur)] # "valid"
          /\ \A p \in Page : status'[p] = "valid" => status[p] = "valid"
      BY <1>1, <1>2 DEF Typed, TypeOK, FlashType
    <2>2. FreeCount(status', cur) > 0
      BY <1>1, <2>1, FreeCountErase
    <2> QED BY <1>2, <2>2 DEF FreeNow
  <1>4. CASE LiveKeys # {}
    <2>1. pc' = "clear" /\ op'.kind = "wipe"
      BY <1>4 DEF RecoverEnd
    <2> QED BY <1>2, <2>1 DEF SpaceInv, InRequest, Serving, ErasesFree, CollectsOldest,
            CopiesFit, Recovers, Erases, Page
  <1>5. CASE LiveKeys = {}
    <2>1. pc' = "idle" /\ op' = NoOp /\ freePages' = FreeNow'
      BY <1>2, <1>5 DEF RecoverEnd, FreeNow
    <2> QED BY <1>2, <1>3, <2>1 DEF SpaceInv, InRequest, Serving, ErasesFree, CollectsOldest,
            CopiesFit, Recovers, Erases, NoOp
  <1> QED BY <1>4, <1>5

LEMMA SaveSpace ==
    ASSUME Typed, SpaceInv, NEW a, NEW v, Save(a, v) PROVE SpaceInv'
  <1>1. FreeNow' = FreeNow
    BY SameRing DEF Save, flash, ram, Valid
  <1> QED BY <1>1 DEF Save, SpaceInv, InRequest, Serving, ErasesFree, CollectsOldest,
            CopiesFit, Recovers, Erases, ram

LEMMA ClearAllSpace ==
    ASSUME Typed, SpaceInv, ClearAll PROVE SpaceInv'
  <1>1. idx' = 0 /\ op'.kind = "clear" /\ pc' = "clear" /\ ~gcing'
    BY DEF ClearAll, SpaceInv, InRequest
  <1> QED BY <1>1 DEF SpaceInv, InRequest, Serving, ErasesFree, CollectsOldest,
            CopiesFit, Recovers, Erases, Page

LEMMA CollectSpace ==
    ASSUME Typed, SpaceInv, NEW m, NEW n, Collect(m, n) PROVE SpaceInv'
  <1>1. FreeNow' = FreeNow /\ Room' = Room /\ cur' = cur /\ status' = status /\ idx' = 0
    BY SameRing DEF Collect, flash, ram, Valid, Room, SpaceInv, InRequest
  <1>2. FreeNow > 0 /\ cur \in Page
    BY FreeNowType DEF Collect, SpaceInv, InRequest, Serving
  <1>3. /\ gcing' /\ op'.kind = "collect" /\ pc' = "scan" /\ gc'.page = Oldest(status, cur)
        /\ gc'.key = LastKey(Oldest(status, cur))
    BY DEF Collect, StartGc
  <1>4. gc'.key \in Nat /\ (gc'.key - 1) \div 2 <= RecordsPerPage
    BY <1>2, <1>3, StartFits
  <1>5. Room' >= RecordsPerPage
    <2> DEFINE s == (E - free) \div 2
               t == RecordsPerPage * FreeNow
    <2>1. s \in Nat /\ t \in Nat /\ t >= RecordsPerPage /\ RecordsPerPage \in Nat
      BY <1>2, RoomArithmetic
    <2>2. Room = s + t
      BY DEF Room
    <2> HIDE DEF s, t
    <2> QED BY <1>1, <2>1, <2>2
  <1>6. CopiesFit'
    <2>1. (gc'.key - 1) \div 2 \in Int /\ Room' \in Nat
      BY <1>1, <1>4, RoomArithmetic
    <2>2. (gc'.key - 1) \div 2 <= Room'
      BY <1>4, <1>5, <2>1, RoomArithmetic
    <2> QED BY <1>3, <2>1, <2>2 DEF CopiesFit
  <1> QED BY <1>1, <1>3, <1>6 DEF SpaceInv, InRequest, Serving, ErasesFree, CollectsOldest,
            Recovers, Erases

LEMMA PowerLossSpace ==
    ASSUME PowerLoss PROVE SpaceInv'
  <1>1. pc' = "off" /\ op' = NoOp /\ ~gcing' /\ idx' = 0
    BY DEF PowerLoss, Crash, CutWrite, LoseRam
  <1> QED BY <1>1 DEF SpaceInv, InRequest, Serving, ErasesFree, CollectsOldest,
            CopiesFit, Recovers, Erases, NoOp

LEMMA StutterSpace ==
    ASSUME SpaceInv, UNCHANGED vars PROVE SpaceInv'
  BY DEF vars, flash, ram, call, SpaceInv, InRequest, Serving, ErasesFree, CollectsOldest,
            CopiesFit, Recovers, Erases, FreeNow, NoneValid, Room, NextPage, Valid, Full

LEMMA SpaceNext ==
    ASSUME Typed, SpaceInv, [Next]_vars PROVE SpaceInv'
  BY WriteDataSpace, WriteKeySpace, SetEndSpace, FindFreePageSpace, EraseSectorSpace,
     MarkFormatSpace, FormatFailsSpace, StampNextSpace, StampFirstSpace, CopyLiveSpace,
     CollectPageSpace, MarkCollectedSpace, CollectFailsSpace, ClearPageSpace,
     ClearTableSpace, MarkSweptSpace, FormatFirstSpace, MountSpace, RecoverCopySpace,
     RecoverEndSpace, SaveSpace, CollectSpace, ClearAllSpace, SweepSpace, PowerLossSpace,
     StutterSpace
     DEF Next, Step, Request

LEMMA SpaceAlways == Spec => [](Typed /\ SpaceInv)
  <1>1. Init => Typed /\ SpaceInv
    BY TypedInit, SpaceInit
  <1>2. Typed /\ SpaceInv /\ [Next]_vars => (Typed /\ SpaceInv)'
    BY TypedNext, SpaceNext
  <1> QED BY <1>1, <1>2, PTL DEF Spec

\* Between two calls, and after every boot, a page is free and
\* g_free_page_count is the number of free pages, wherever power is lost and
\* whatever erase fails, for any thresholds of the collections asked for.
THEOREM FreePageAlways == Spec => []FreePageWhenIdle
  <1>1. Typed /\ SpaceInv => FreePageWhenIdle
    <2> SUFFICES ASSUME Typed, SpaceInv, pc = "idle"
                 PROVE  freePages > 0 /\ freePages = FreeCount(status, cur)
      BY DEF FreePageWhenIdle
    <2>1. op.kind = "none" /\ ~gcing
      BY DEF SpaceInv, InRequest
    <2> QED BY <2>1 DEF SpaceInv, Serving, FreeNow
  <1> QED BY <1>1, SpaceAlways, PTL

\* ftl_write never gets to its FTL_ASSERT(0): a write, be it of the application,
\* of a collection or of the recovery, that finds its page full has a free one
\* to go on with.
THEOREM NeverOutOfSpaceCorrect == Spec => []NeverOutOfSpace
  <1>1. Typed /\ SpaceInv => NeverOutOfSpace
    BY SpaceForWrite DEF NeverOutOfSpace
  <1> QED BY <1>1, SpaceAlways, PTL

-----------------------------------------------------------------------------
(* The mapping table points at records, and collections empty pages *)

LEMMA DivMod ==
    ASSUME NEW d \in Nat, d > 0, NEW q \in Nat, NEW r \in 0 .. d - 1
    PROVE  (q * d + r) \div d = q /\ (q * d + r) % d = r
  BY SMT

\* An entry of the mapping table says which page and which cell, if the record
\* is aligned.
LEMMA PhyInverse ==
    ASSUME NEW p \in Page, NEW i \in Cell, i % 2 = 0
    PROVE  PageOf(Phy(p, i)) = p /\ IndexOf(Phy(p, i)) = i /\ Phy(p, i) # 0
  <1>1. PICK h \in Nat : E = 2 * h
    BY FtlAssumption
  <1>2. PICK j \in Nat : i = 2 * j
    BY Bounds DEF Cell
  <1>3. p \in Nat /\ p * h \in Nat /\ p * E = 2 * (p * h)
    BY <1>1, Bounds DEF Page
  <1> DEFINE q == p * h
  <1>4. q \in Nat /\ p * E = 2 * q
    BY <1>3
  <1> HIDE DEF q
  <1>5. Phy(p, i) = q + j
    BY <1>2, <1>4 DEF Phy
  <1>6. 2 * Phy(p, i) = p * E + i
    BY <1>2, <1>4, <1>5
  <1>7. (p * E + i) \div E = p /\ (p * E + i) % E = i
    <2>1. i \in 0 .. E - 1 /\ E \in Nat /\ E > 0
      BY Bounds DEF Cell
    <2> QED BY <1>3, <2>1, DivMod
  <1>8. Phy(p, i) # 0
    BY <1>2, <1>4, <1>5, Bounds DEF Cell
  <1> QED BY <1>6, <1>7, <1>8 DEF PageOf, IndexOf

\* Any other page is some pages further round the ring.
LEMMA RingReach ==
    ASSUME NEW c \in Page, NEW p \in Page, p # c
    PROVE  \E i \in 1 .. N - 1 : p = (c + i) % N
  <1> DEFINE i == IF p > c THEN p - c ELSE p - c + N
  <1>1. i \in 1 .. N - 1
    BY Bounds DEF Page
  <1>2. c + i = IF p > c THEN p ELSE p + N
    BY Bounds DEF Page
  <1>3. (c + i) % N = IF c + i < N THEN c + i ELSE c + i - N
    BY <1>1, RingPage, Bounds
  <1> HIDE DEF i
  <1>4. (c + i) % N = p
    BY <1>1, <1>2, <1>3, Bounds DEF Page
  <1> QED BY <1>1, <1>4

\* A valid page is not counted as free, and is the oldest one only if it is
\* alone.
LEMMA CurrentCounts ==
    ASSUME NEW st, NEW c \in Page, st[c] = "valid"
    PROVE  /\ FreeCount(st, c) \in 0 .. N - 1
           /\ st[Oldest(st, c)] = "valid" /\ Oldest(st, c) \in Page
           /\ FreeCount(st, c) < N - 1 => Oldest(st, c) # c
           /\ Oldest(st, c) = c => \A p \in Page : p # c => st[p] # "valid"
  <1> DEFINE n == FreeCount(st, c)
  <1>1. n \in 0 .. N /\ \A i \in 1 .. n : st[(c + i) % N] # "valid"
    BY FreeCountCounts
  <1>2. (c + N) % N = c
    BY RingWhole
  <1>3. Oldest(st, c) = (c + n + 1) % N
    BY DEF Oldest
  <1> HIDE DEF n
  <1>4. n # N
    BY <1>1, <1>2, Bounds
  <1>5. n \in 0 .. N - 1
    BY <1>1, <1>4, Bounds
  <1>6. st[Oldest(st, c)] = "valid"
    BY <1>5, OldestValid, Bounds DEF n
  <1>7. Oldest(st, c) = c <=> n = N - 1
    <2>1. c + n + 1 = c + (n + 1)
      BY <1>5, Bounds DEF Page
    <2>2. n < N - 1 => (c + (n + 1)) % N # c
      BY <1>5, RingApart, Bounds
    <2>3. n = N - 1 => (c + (n + 1)) % N = c
      BY <1>2, Bounds
    <2> QED BY <1>3, <1>5, <2>1, <2>2, <2>3, Bounds
  <1>8. n = N - 1 => \A p \in Page : p # c => st[p] # "valid"
    BY <1>1, RingReach
  <1> QED BY <1>5, <1>6, <1>7, <1>8, OldestType, Bounds DEF n

Clean(p) == fin[p] = 0 /\ \A i \in Cell : cell[p][i] = Blank

\* A call has the log in hand, and does not clear it.
InUse == pc # "off" /\ ~Clearing /\ ~(op.kind = "boot" /\ Erases)

\* A page marked erased, or about to be, is blank.
ErasedIsClean ==
    \A p \in Page :
        status[p] = "erased" \/ (pc \in {"mark", "stamp"} /\ p = era.page) => Clean(p)

MarksFree == pc = "mark" => ~Valid(era.page)

EndsLast == \A p \in Page : fin[p] \in {0, E - 1}

\* The current page is valid, and blank from the cursor on.
CursorClear ==
    InUse =>
        /\ Valid(cur)
        /\ \A i \in Cell : i > free \/ (i = free /\ pc # "key") => cell[cur][i] = Blank

\* The record at cell i of page p is one of address a.
RecordAt(p, i, a) == Valid(p) /\ i % 2 = 0 /\ i + 1 \in Cell /\ cell[p][i + 1] = KeyOf(a)

\* A record is where the mapping table says, in a valid page.
MapPoints ==
    InUse => \A a \in Addr : map[a] # 0 => RecordAt(PageOf(map[a]), IndexOf(map[a]), a)

\* The table is empty before it is built, and while the first page is made.
EmptyTable ==
    pc = "off" \/ (Erases /\ op.kind \in {"boot", "clear", "wipe"}) =>
        \A a \in Addr : map[a] = 0

\* A page is being scanned, by a collection or by the recovery; a record found
\* in it is being written.
Emptying == Erases /\ era.by = "collect"
Scans == (gcing /\ ~Emptying) \/ (op.kind = "boot" /\ pc \in {"recover", "write", "key"})
Copying == Scans /\ pc \notin {"scan", "recover"}

\* The keys that a scan has passed are those of records found elsewhere.
Scanned ==
    Scans =>
        /\ gc.key % 2 = 1
        /\ \A k \in ScanFrom(E - 1), a \in Addr :
              k > gc.key /\ cell[gc.page][k] = KeyOf(a) /\ ~(Copying /\ wr.addr = a)
                  => CanDrop(a, gc.page)

Left == (gc.key - 1) \div 2 + (IF Copying THEN 1 ELSE 0)
OnlyTwo == \A p \in Page : Valid(p) => p \in {cur, gc.page}

\* The last record of the current page is the one the table has.
LastLive ==
    /\ free - 1 \in Cell
    /\ \E a \in Addr : cell[cur][free - 1] = KeyOf(a) /\ map[a] = Phy(cur, free - 2)

\* A collection comes to the current page only when all others are empty, and
\* then the page is full of the records just copied to it: none is dropped before
\* the first one has moved on to another page.
CurrentLast ==
    /\ (Scans /\ gc.page = cur) => Full /\ (pc \in {"scan", "recover"} => LiveKeys # {})
    /\ (gcing /\ Emptying) => era.page = gc.page /\ gc.page # cur

\* As long as no record has been dropped in a round, what is left to copy fills
\* the current page, if that is the only other one.
RoundFills ==
    gcing /\ ~gc.recycled =>
        IF Emptying THEN OnlyTwo => Full /\ LastLive
        ELSE IF gc.page = cur THEN RecordsPerPage <= Left
        ELSE OnlyTwo => /\ (E - free) \div 2 <= Left
                        /\ Left < RecordsPerPage => LastLive

LogInv ==
    /\ ErasedIsClean /\ MarksFree /\ EndsLast /\ CursorClear /\ MapPoints /\ EmptyTable
    /\ Scanned
    /\ CurrentLast /\ RoundFills /\ CollectedPageIsDead

\* Where an entry of the table points to.
LEMMA MapPlaces ==
    ASSUME Typed, NEW a \in Addr
    PROVE  PageOf(map[a]) \in Page /\ IndexOf(map[a]) \in 0 .. E - 1
  <1> DEFINE m == map[a]
  <1>1. m \in Nat /\ m <= (N * E) \div 2 - 1 /\ N * E \in Nat
    BY Bounds DEF Typed, TypeOK, RamType, Entry
  <1>2. 2 * m < N * E /\ 2 * m \in Nat
    BY <1>1
  <1> HIDE DEF m
  <1> DEFINE x == 2 * m
  <1>3. x \in Nat /\ x < N * E
    BY <1>2
  <1> HIDE DEF x
  <1>4. x \div E \in Nat /\ x % E \in 0 .. E - 1 /\ x = (x \div E) * E + (x % E)
    BY <1>3, Bounds
  <1> DEFINE q == x \div E
  <1> DEFINE r == x % E
  <1>5. q \in Nat /\ q * E <= x
    <2>1. q \in Nat /\ r \in Nat /\ x = q * E + r /\ E \in Nat
      BY <1>4, Bounds
    <2> HIDE DEF q, r
    <2> QED BY <2>1
  <1> HIDE DEF q, r
  <1>6. q * E < N * E
    BY <1>3, <1>5, Bounds
  <1>7. q < N
    BY <1>5, <1>6, Bounds
  <1> QED BY <1>4, <1>5, <1>7, Bounds DEF q, x, m, PageOf, IndexOf, Page

\* The conditions under which nothing is lost: power does not go inside a
\* record, erased sectors take their mark, and a collection asked for starts
\* with a page to collect beside the current one.
Orderly == WholeRecords /\ EraseFaults = FALSE /\ GcPages \subseteq 0 .. N - 2

Sound == Typed /\ Aligned /\ SpaceInv /\ LogInv

LEMMA LogInit == Init => LogInv
  <1> SUFFICES ASSUME Init PROVE LogInv
    OBVIOUS
  <1>1. ErasedIsClean /\ EndsLast /\ ~InUse
    BY Bounds DEF Init, ErasedIsClean, EndsLast, InUse
  <1> QED BY <1>1 DEF Init, LogInv, CursorClear, MapPoints, EmptyTable, MarksFree, Scanned, Scans, CurrentLast,
            RoundFills, CollectedPageIsDead, NoOp

LEMMA UseFacts ==
    ASSUME Typed, SpaceInv
    PROVE  /\ pc \in {"idle", "write", "key", "scan", "recover"} => InUse
           /\ gcing => InUse
           /\ Scans => InUse
           /\ Emptying => InUse /\ gcing
           /\ Erases /\ era.by = "sweep" => InUse
           /\ Erases /\ op.kind \in {"save", "collect"} => InUse
  BY DEF SpaceInv, InRequest, InUse, Clearing, Scans, Emptying, Erases

\* The page that a scan empties is the oldest one, and is not being written.
LEMMA ScanFacts ==
    ASSUME Typed, SpaceInv, LogInv, Scans
    PROVE  /\ InUse /\ Valid(cur) /\ cur \in Page /\ gc.page \in Page /\ Valid(gc.page)
           /\ gc.page = Oldest(status, cur)
           /\ op.kind = "boot" => gc.page # cur
           /\ pc = "key" => gc.page # cur
  <1>1. InUse /\ Valid(cur) /\ cur \in Page /\ gc.page \in Page
    BY UseFacts DEF LogInv, CursorClear, Typed, TypeOK, RamType, CallType, Locals
  <1>2. gc.page = Oldest(status, cur) /\ (op.kind = "boot" => FreeNow = 0)
    BY DEF Scans, Emptying, Erases, SpaceInv, CollectsOldest, Recovers, InRequest
  <1>3. Valid(gc.page) /\ (op.kind = "boot" => gc.page # cur)
    BY <1>1, <1>2, CurrentCounts, Bounds DEF Valid, FreeNow
  <1>4. pc = "key" => gc.page # cur
    BY DEF LogInv, CurrentLast, Typed, CallOK
  <1> QED BY <1>1, <1>2, <1>3, <1>4

LEMMA LeftArithmetic ==
    ASSUME Typed
    PROVE  gc.key \in Nat /\ (gc.key - 1) \div 2 \in Int /\ Left \in Int
           /\ Left = IF Copying THEN (gc.key - 1) \div 2 + 1 ELSE (gc.key - 1) \div 2
  <1>1. gc.key \in Nat
    BY Bounds DEF Typed, TypeOK, CallType, Locals
  <1>2. (gc.key - 1) \div 2 \in Int
    BY <1>1
  <1> QED BY <1>1, <1>2 DEF Left

\* What the steps that leave the flash and the table alone keep.
LEMMA QuietLog ==
    ASSUME Typed, SpaceInv, LogInv, UNCHANGED <<flash, cur, free, map>>, InUse' => InUse,
           pc # "key", pc' # "key",
           pc' \in {"mark", "stamp"} => \/ status[era'.page] = "erased"
                                        \/ pc \in {"mark", "stamp"} /\ era' = era
    PROVE  ErasedIsClean' /\ EndsLast' /\ CursorClear' /\ MapPoints'
  <1>1. ErasedIsClean'
    BY DEF LogInv, ErasedIsClean, Clean, flash
  <1>2. EndsLast' /\ CursorClear' /\ MapPoints'
    BY DEF LogInv, EndsLast, CursorClear, MapPoints, RecordAt, flash, Valid
  <1> QED BY <1>1, <1>2

LEMMA WriteDataLog ==
    ASSUME Sound, WriteData PROVE LogInv'
  <1> USE DEF Sound
  <1>1. /\ cur \in Page /\ free \in Cell /\ free + 1 \in Cell /\ free % 2 = 0 /\ free \in Nat
        /\ cell' = [cell EXCEPT ![cur][free] = wr.val]
        /\ pc = "write" /\ pc' = "key" /\ ~Full
        /\ UNCHANGED <<status, seq, fin, cur, free, freePages, map, gcing, op, wr, gc, era, idx>>
    BY Bounds DEF WriteData, Full, ram, Typed, TypeOK, RamType, Aligned, RecordsAligned, Cell
  <1>2. InUse /\ InUse' /\ Valid(cur)
    BY <1>1, UseFacts DEF InUse, Clearing, Erases, LogInv, CursorClear
  <1>3. \A p \in Page, i \in Cell : ~(p = cur /\ i = free) => cell'[p][i] = cell[p][i]
    BY <1>1 DEF Typed, TypeOK, FlashType
  <1>4. ErasedIsClean'
    BY <1>1, <1>2, <1>3 DEF LogInv, ErasedIsClean, Clean, Valid
  <1>5. EndsLast' /\ CursorClear' /\ CollectedPageIsDead'
    BY <1>1, <1>2, <1>3 DEF LogInv, EndsLast, CursorClear, Valid, CollectedPageIsDead, Cell
  <1>6. \A i \in Cell : i % 2 = 0 => i + 1 # free
    BY <1>1, Parity DEF Cell
  <1>7. MapPoints'
    <2> SUFFICES ASSUME NEW a \in Addr, map[a] # 0
                 PROVE  RecordAt(PageOf(map[a]), IndexOf(map[a]), a)'
      BY <1>1 DEF MapPoints
    <2> DEFINE p == PageOf(map[a])
               i == IndexOf(map[a])
    <2>1. Valid(p) /\ i % 2 = 0 /\ i + 1 \in Cell /\ cell[p][i + 1] = KeyOf(a)
      BY <1>2 DEF LogInv, MapPoints, RecordAt
    <2>2. p \in Page /\ i \in Nat
      BY <1>2, MapPlaces DEF LogInv
    <2>3. i + 1 # free
      BY <1>1, <2>1, <2>2, Parity
    <2> QED BY <1>1, <1>3, <2>1, <2>2, <2>3 DEF Valid, RecordAt
  <1>8. Scans => gc.page # cur /\ gc.page \in Page
    BY <1>1, ScanFacts DEF LogInv, CurrentLast
  <1>9. Scans' = Scans /\ Copying' = Copying /\ Left' = Left /\ Emptying' = Emptying /\ Full' = Full
    BY <1>1 DEF Scans, Copying, Left, Emptying, Erases, Full
  <1>10. Scanned'
    <2>1. Scans => cell'[gc.page] = cell[gc.page]
      BY <1>1, <1>8 DEF Typed, TypeOK, FlashType
    <2> QED BY <1>1, <1>9, <2>1 DEF LogInv, Scanned, CanDrop
  <1>11. CurrentLast'
    BY <1>1, <1>8, <1>9 DEF LogInv, CurrentLast
  <1>12. RoundFills'
    <2>1. LastLive => LastLive'
      BY <1>1, <1>3 DEF LastLive
    <2>2. OnlyTwo' = OnlyTwo
      BY <1>1 DEF OnlyTwo, Valid
    <2> QED BY <1>1, <1>9, <2>1, <2>2 DEF LogInv, RoundFills
  <1>13. EmptyTable' /\ MarksFree'
    BY <1>1 DEF EmptyTable, MarksFree, Erases
  <1> QED BY <1>4, <1>5, <1>7, <1>10, <1>11, <1>12, <1>13 DEF LogInv


LEMMA WriteKeyLog ==
    ASSUME Sound, WriteKey PROVE LogInv'
  <1> USE DEF Sound
  <1>1. /\ cur \in Page /\ free \in Cell /\ free + 1 \in Cell /\ free % 2 = 0 /\ free \in Nat
        /\ (free + 1) % 2 # 0 /\ wr.addr \in Addr
        /\ cell' = [cell EXCEPT ![cur][free + 1] = KeyOf(wr.addr)]
        /\ map' = [map EXCEPT ![wr.addr] = Phy(cur, free)]
        /\ pc = "key" /\ pc' \in {"scan", "recover", "idle"} /\ free' = free + 2
        /\ UNCHANGED <<status, seq, fin, cur, freePages, gcing, gc, era, idx>>
    BY Bounds, Parity DEF WriteKey, Return, Full, Typed, TypeOK, RamType, Aligned, RecordsAligned,
          Cell, CallOK, WritePending, Writes
  <1>2. InUse /\ Valid(cur) /\ KeyOf(wr.addr) # Blank
    BY <1>1, UseFacts, FtlAssumption DEF LogInv, CursorClear, KeyOf
  <1>3. /\ \A p \in Page, i \in Cell : ~(p = cur /\ i = free + 1) => cell'[p][i] = cell[p][i]
        /\ cell'[cur][free + 1] = KeyOf(wr.addr) /\ cell[cur][free + 1] = Blank
    BY <1>1, <1>2 DEF Typed, TypeOK, FlashType, LogInv, CursorClear
  <1>4. ErasedIsClean'
    BY <1>1, <1>2, <1>3 DEF LogInv, ErasedIsClean, Clean, Valid
  <1>5. EndsLast' /\ CursorClear' /\ CollectedPageIsDead'
    BY <1>1, <1>2, <1>3 DEF LogInv, EndsLast, CursorClear, Valid, CollectedPageIsDead, Cell
  <1>6. PageOf(Phy(cur, free)) = cur /\ IndexOf(Phy(cur, free)) = free
    BY <1>1, PhyInverse
  <1>7. MapPoints'
    <2> SUFFICES ASSUME NEW a \in Addr, map'[a] # 0
                 PROVE  RecordAt(PageOf(map[a]), IndexOf(map[a]), a)'
      BY DEF MapPoints
    <2>1. CASE a = wr.addr
      <3>1. map'[a] = Phy(cur, free)
        BY <1>1, <2>1 DEF Typed, TypeOK, RamType
      <3> QED BY <1>1, <1>2, <1>3, <1>6, <2>1, <3>1 DEF Valid, RecordAt
    <2>2. CASE a # wr.addr
      <3> DEFINE p == PageOf(map[a])
                 i == IndexOf(map[a])
      <3>1. map'[a] = map[a]
        BY <1>1, <2>2 DEF Typed, TypeOK, RamType
      <3>2. Valid(p) /\ i % 2 = 0 /\ i + 1 \in Cell /\ cell[p][i + 1] = KeyOf(a)
        BY <1>2, <3>1 DEF LogInv, MapPoints, RecordAt
      <3>3. p \in Page /\ KeyOf(a) # Blank
        BY MapPlaces, FtlAssumption DEF KeyOf
      <3>4. ~(p = cur /\ i + 1 = free + 1)
        BY <1>3, <3>2, <3>3
      <3>5. cell'[p][i + 1] = KeyOf(a)
        BY <1>3, <3>2, <3>3, <3>4
      <3> QED BY <1>1, <3>1, <3>2, <3>5 DEF Valid, RecordAt
    <2> QED BY <2>1, <2>2
  <1>8. Scans => gc.page # cur /\ gc.page \in Page
    BY <1>1, ScanFacts
  <1>9. /\ Scans' => Scans /\ Copying /\ ~Copying'
        /\ Emptying' = Emptying /\ ~Emptying /\ (gcing => Scans)
    BY <1>1 DEF WriteKey, Return, Scans, Copying, Emptying, Erases, NoOp
  <1>10. Scanned'
    <2>1. Scans => cell'[gc.page] = cell[gc.page]
      BY <1>1, <1>8 DEF Typed, TypeOK, FlashType
    <2>2. Scans => map'[wr.addr] # 0 /\ PageOf(map'[wr.addr]) # gc.page
      <3>1. map'[wr.addr] = Phy(cur, free)
        BY <1>1 DEF Typed, TypeOK, RamType
      <3>2. Phy(cur, free) # 0
        BY <1>1, PhyInverse
      <3> QED BY <1>6, <1>8, <3>1, <3>2
    <2>3. \A a \in Addr : a # wr.addr => map'[a] = map[a]
      BY <1>1 DEF Typed, TypeOK, RamType
    <2> QED BY <1>1, <1>9, <2>1, <2>2, <2>3 DEF LogInv, Scanned, CanDrop
  <1>11. CurrentLast'
    BY <1>1, <1>8, <1>9 DEF LogInv, CurrentLast
  <1>12. RoundFills'
    <2> SUFFICES ASSUME gcing, ~gc.recycled, OnlyTwo
                 PROVE  /\ (E - free') \div 2 <= Left'
                        /\ LastLive'
      BY <1>1, <1>8, <1>9 DEF RoundFills, OnlyTwo, Valid
    <2>1. (E - free) \div 2 <= Left
      BY <1>1, <1>8, <1>9 DEF LogInv, RoundFills
    <2>2. Left' = Left - 1 /\ Left \in Int
      <3>1. (gc.key - 1) \div 2 \in Int
        BY LeftArithmetic
      <3>2. Left = (gc.key - 1) \div 2 + 1 /\ Left' = (gc.key - 1) \div 2 + 0
        BY <1>1, <1>9 DEF Left, Scans
      <3> QED BY <3>1, <3>2
    <2>3. (E - free') \div 2 = (E - free) \div 2 - 1
      BY <1>1, Bounds
    <2>4. LastLive'
      <3>1. /\ free' - 1 = free + 1 /\ free' - 2 = free
            /\ map'[wr.addr] = Phy(cur, free)
        BY <1>1 DEF Typed, TypeOK, RamType
      <3> QED BY <1>1, <1>3, <3>1 DEF LastLive
    <2>5. (E - free) \div 2 \in Int
      BY <1>1, Bounds
    <2> QED BY <2>1, <2>2, <2>3, <2>4, <2>5
  <1>13. EmptyTable' /\ MarksFree'
    BY <1>1 DEF EmptyTable, MarksFree, Erases
  <1> QED BY <1>4, <1>5, <1>7, <1>10, <1>11, <1>12, <1>13 DEF LogInv

LEMMA SetEndLog ==
    ASSUME Sound, SetEnd PROVE LogInv'
  <1> USE DEF Sound
  <1>1. /\ pc = "write" /\ Full /\ fin' = [fin EXCEPT ![cur] = free - 1]
        /\ UNCHANGED <<status, seq, cell, ram, call>>
    BY DEF SetEnd
  <1>2. free = E /\ cur \in Page /\ InUse /\ Valid(cur)
    BY <1>1, UseFacts, Bounds, FtlAssumption
    DEF Full, Aligned, RecordsAligned, Typed, TypeOK, RamType, LogInv, CursorClear
  <1>3. ErasedIsClean' /\ EndsLast'
    BY <1>1, <1>2 DEF LogInv, ErasedIsClean, EndsLast, Clean, Typed, TypeOK, FlashType, Valid, ram, call
  <1>4. CursorClear' /\ MapPoints' /\ Scanned' /\ CurrentLast' /\ CollectedPageIsDead'
    BY <1>1 DEF LogInv, CursorClear, MapPoints, RecordAt, Scanned, CurrentLast, CollectedPageIsDead,
            ram, call, InUse, Clearing, Erases, Valid, Scans, Copying, Emptying, CanDrop, LiveKeys, Full
  <1>5. RoundFills'
    BY <1>1 DEF LogInv, RoundFills, ram, call, Erases, Valid, Scans, Copying, Emptying, Left,
            OnlyTwo, LastLive, Full
  <1> QED BY <1>1, <1>3, <1>4, <1>5 DEF LogInv, EmptyTable, MarksFree, Erases, call

LEMMA FindFreePageLog ==
    ASSUME Sound, FindFreePage PROVE LogInv'
  <1> USE DEF Sound
  <1>1. /\ pc = "write" /\ Full /\ era'.by = "format" /\ era'.page = NextPage
        /\ pc' = (IF status[NextPage] = "erased" THEN "stamp" ELSE "erase")
        /\ UNCHANGED <<flash, ram, gcing, op, wr, gc, idx>>
        /\ op.kind \in {"save", "collect"}
    BY SpaceForWrite DEF FindFreePage, BeginFormat
  <1>2. InUse /\ InUse'
    BY <1>1, UseFacts DEF InUse, Clearing
  <1>3. ErasedIsClean' /\ EndsLast' /\ CursorClear' /\ MapPoints'
    BY <1>1, <1>2, QuietLog DEF ram
  <1>4. Scans' = Scans /\ Copying' = Copying /\ Left' = Left /\ ~Emptying' /\ ~Emptying
        /\ Full' /\ LastLive' = LastLive /\ OnlyTwo' = OnlyTwo
    BY <1>1 DEF Scans, Copying, Left, Emptying, Erases, Full, LastLive, OnlyTwo, ram, flash, Valid
  <1>5. Scanned' /\ CurrentLast' /\ CollectedPageIsDead'
    BY <1>1, <1>4 DEF LogInv, Scanned, CurrentLast, CollectedPageIsDead, CanDrop, ram, flash
  <1>6. RoundFills'
    BY <1>1, <1>4 DEF LogInv, RoundFills, ram
  <1> QED BY <1>1, <1>3, <1>5, <1>6 DEF LogInv, EmptyTable, MarksFree, Erases

\* A page is never erased while it is written to, nor while its records are
\* the last ones.
LEMMA ErasedApart ==
    ASSUME Sound, pc \in {"erase", "mark"}, InUse
    PROVE  /\ era.page \in Page /\ cur \in Page /\ era.page # cur
           /\ Scans => ~Emptying /\ gc.page \in Page /\ gc.page # era.page
           /\ pc = "erase" => \A a \in Addr : map[a] # 0 => PageOf(map[a]) # era.page
  <1> USE DEF Sound
  <1>1. era.page \in Page /\ cur \in Page /\ Valid(cur)
    BY DEF Typed, TypeOK, RamType, CallType, Erasing, LogInv, CursorClear
  <1>2. CASE era.by = "collect"
    BY <1>1, <1>2, UseFacts DEF LogInv, CurrentLast, CollectedPageIsDead, Emptying, Erases, Scans
  <1>3. CASE era.by # "collect"
    <2>1. ~Valid(era.page)
      BY <1>3 DEF SpaceInv, InRequest, ErasesFree, Erases, InUse, Clearing
    <2>2. \A a \in Addr : map[a] # 0 => PageOf(map[a]) # era.page
      BY <2>1 DEF LogInv, MapPoints, RecordAt
    <2>3. Scans => gc.page \in Page /\ Valid(gc.page)
      BY ScanFacts
    <2> QED BY <1>1, <1>3, <2>1, <2>2, <2>3 DEF Emptying
  <1> QED BY <1>2, <1>3

LEMMA EraseSectorLog ==
    ASSUME Sound, EraseSector PROVE LogInv'
  <1> USE DEF Sound
  <1>1. /\ pc = "erase" /\ pc' = "mark" /\ era.page \in Page
        /\ status' = [status EXCEPT ![era.page] = "blank"]
        /\ fin' = [fin EXCEPT ![era.page] = 0]
        /\ cell' = [cell EXCEPT ![era.page] = [i \in Cell |-> Blank]]
        /\ UNCHANGED <<ram, gcing, op, wr, gc, era, idx>>
    BY DEF EraseSector, Typed, TypeOK, CallType, Erasing
  <1>2. /\ \A p \in Page : p # era.page => /\ status'[p] = status[p] /\ fin'[p] = fin[p]
                                           /\ cell'[p] = cell[p]
        /\ status'[era.page] = "blank" /\ fin'[era.page] = 0
        /\ \A i \in Cell : cell'[era.page][i] = Blank
    BY <1>1 DEF Typed, TypeOK, FlashType
  <1>3. ErasedIsClean' /\ EndsLast'
    BY <1>1, <1>2 DEF LogInv, ErasedIsClean, EndsLast, Clean
  <1>4. /\ InUse' = InUse /\ Emptying' = Emptying /\ Scans' = Scans /\ Copying' = Copying
        /\ Left' = Left /\ Full' = Full
    BY <1>1 DEF InUse, Clearing, Emptying, Scans, Copying, Erases, Left, Full, ram
  <1>5. CursorClear'
    BY <1>1, <1>2, <1>4, ErasedApart DEF LogInv, CursorClear, Valid, ram
  <1>6. MapPoints'
    <2> SUFFICES ASSUME InUse, NEW a \in Addr, map[a] # 0
                 PROVE  RecordAt(PageOf(map[a]), IndexOf(map[a]), a)'
      BY <1>1, <1>4 DEF MapPoints, ram
    <2>1. PageOf(map[a]) \in Page /\ PageOf(map[a]) # era.page
      BY <1>1, MapPlaces, ErasedApart
    <2> QED BY <1>1, <1>2, <2>1 DEF LogInv, MapPoints, RecordAt, Valid, ram
  <1>7. Scanned' /\ CollectedPageIsDead'
    <2>1. Scans => InUse
      BY UseFacts
    <2>2. Scans => gc.page \in Page /\ cell'[gc.page] = cell[gc.page]
      BY <1>1, <1>2, <2>1, ErasedApart
    <2> QED BY <1>1, <1>4, <2>2 DEF LogInv, Scanned, CanDrop, CollectedPageIsDead, ram
  <1>8. CurrentLast'
    BY <1>1, <1>4 DEF LogInv, CurrentLast, ram
  <1>9. RoundFills'
    <2> SUFFICES ASSUME gcing, ~gc.recycled PROVE RoundFills'
      BY <1>1 DEF RoundFills
    <2>1. InUse /\ era.page # cur /\ cur \in Page
      BY <1>1, UseFacts, ErasedApart
    <2>2. LastLive => LastLive'
      BY <1>1, <1>2, <2>1 DEF LastLive, ram
    <2>3. OnlyTwo' => OnlyTwo
      <3>1. Emptying => gc.page = era.page
        BY DEF LogInv, CurrentLast
      <3>2. ~Emptying => ~Valid(era.page)
        BY <1>1, <2>1 DEF SpaceInv, InRequest, ErasesFree, Erases, InUse, Clearing, Emptying
      <3> QED BY <1>1, <1>2, <3>1, <3>2 DEF OnlyTwo, Valid, ram
    <2> QED BY <1>1, <1>4, <2>2, <2>3 DEF LogInv, RoundFills, ram
  <1>10. EmptyTable' /\ MarksFree'
    BY <1>1, <1>2 DEF LogInv, EmptyTable, MarksFree, Valid, Erases, ram
  <1> QED BY <1>3, <1>5, <1>6, <1>7, <1>8, <1>9, <1>10 DEF LogInv


\* The steps after which no log is in hand.
LEMMA NotInUse ==
    ASSUME ErasedIsClean', EndsLast', EmptyTable', ~InUse', ~Scans', ~gcing',
           pc' # "mark", pc' = "erase" => era'.by # "collect"
    PROVE  LogInv'
  BY DEF LogInv, MarksFree, CursorClear, MapPoints, Scanned, CurrentLast, RoundFills,
         CollectedPageIsDead

\* The word after an erase: the page is marked and blank.
LEMMA MarkLog ==
    ASSUME Sound, pc = "mark", MarkErased, UNCHANGED <<cur, free, map>>
    PROVE  /\ EndsLast' /\ UNCHANGED <<seq, fin, cell>>
           /\ \A p \in Page : status'[p] = "erased" => Clean(p)'
           /\ Clean(era.page) /\ \A p \in Page : Clean(p)' <=> Clean(p)
           /\ era.page \in Page
           /\ \A p \in Page : Valid(p)' <=> Valid(p)
           /\ InUse => /\ \A i \in Cell : i >= free => cell'[cur][i] = Blank
                       /\ \A a \in Addr : map[a] # 0
                            => RecordAt(PageOf(map[a]), IndexOf(map[a]), a)'
  <1> USE DEF Sound
  <1>1. /\ era.page \in Page /\ UNCHANGED <<seq, fin, cell>> /\ ~Valid(era.page)
        /\ status' = [status EXCEPT ![era.page] = "erased"]
    BY DEF MarkErased, Typed, TypeOK, CallType, Erasing, LogInv, MarksFree
  <1>2. Clean(era.page) /\ \A p \in Page : Clean(p)' <=> Clean(p)
    BY <1>1 DEF LogInv, ErasedIsClean, Clean
  <1>3. \A p \in Page : p # era.page => status'[p] = status[p]
    BY <1>1 DEF Typed, TypeOK, FlashType
  <1>4. EndsLast' /\ \A p \in Page : status'[p] = "erased" => Clean(p)'
    BY <1>1, <1>2, <1>3 DEF LogInv, EndsLast, ErasedIsClean
  <1>5. \A p \in Page : Valid(p)' <=> Valid(p)
    BY <1>1 DEF Typed, TypeOK, FlashType, Valid
  <1>6. ASSUME InUse
        PROVE  \A i \in Cell : i >= free => cell'[cur][i] = Blank
    <2>1. \A i \in Cell : i >= free => i > free \/ i = free
      BY Bounds DEF Typed, TypeOK, RamType, Cell
    <2> QED BY <1>1, <1>6, <2>1 DEF LogInv, CursorClear
  <1>7. ASSUME InUse, NEW a \in Addr, map[a] # 0
        PROVE  RecordAt(PageOf(map[a]), IndexOf(map[a]), a)'
    <2>1. RecordAt(PageOf(map[a]), IndexOf(map[a]), a) /\ PageOf(map[a]) \in Page
      BY <1>7, MapPlaces DEF LogInv, MapPoints
    <2> QED BY <1>1, <1>5, <2>1 DEF RecordAt
  <1> QED BY <1>1, <1>2, <1>4, <1>5, <1>6, <1>7

LEMMA MarkFormatLog ==
    ASSUME Sound, MarkFormat PROVE LogInv'
  <1> USE DEF Sound
  <1>1. /\ pc = "mark" /\ pc' = "stamp" /\ era.by = "format" /\ MarkErased
        /\ UNCHANGED <<ram, gcing, op, wr, gc, era, idx>>
    BY DEF MarkFormat, MarkErased
  <1>2. UNCHANGED <<cur, free, map>>
    BY <1>1 DEF ram
  <1>3. /\ InUse' = InUse /\ ~Emptying /\ ~Emptying' /\ Scans' = Scans /\ Copying' = Copying
        /\ Left' = Left /\ Full' = Full
    BY <1>1, <1>2 DEF InUse, Clearing, Emptying, Scans, Copying, Erases, Left, Full
  <1>4. ErasedIsClean' /\ EndsLast' /\ CursorClear' /\ MapPoints'
    <2>1. InUse' => Valid(cur)'
      BY <1>1, <1>2, <1>3, MarkLog DEF LogInv, CursorClear, Typed, TypeOK, RamType, Valid
    <2>2. \A i \in Cell : i > free \/ i = free => i >= free
      BY Bounds DEF Typed, TypeOK, RamType, Cell
    <2>3. CursorClear' /\ MapPoints'
      BY <1>1, <1>2, <1>3, <2>1, <2>2, MarkLog DEF CursorClear, MapPoints
    <2> QED BY <1>1, <1>2, <2>3, MarkLog DEF ErasedIsClean
  <1>5. Scanned' /\ CurrentLast' /\ CollectedPageIsDead' /\ EmptyTable' /\ MarksFree'
    BY <1>1, <1>2, <1>3, MarkLog DEF LogInv, Scanned, CurrentLast, CollectedPageIsDead, CanDrop,
            EmptyTable, MarksFree, Erases
  <1>6. RoundFills'
    <2>1. OnlyTwo' = OnlyTwo /\ LastLive' = LastLive
      BY <1>1, <1>2, MarkLog DEF OnlyTwo, LastLive
    <2> QED BY <1>1, <1>2, <1>3, <2>1 DEF LogInv, RoundFills
  <1> QED BY <1>4, <1>5, <1>6 DEF LogInv

\* A sweep changes nothing but free pages.
LEMMA SweepOnLog ==
    ASSUME Sound, NEW st, NEW i, SweepOn(st, i), UNCHANGED <<cur, free, map, gcing>>,
           ~gcing, pc' # "key",
           \A p \in Page : status'[p] = "erased" => Clean(p)', EndsLast',
           Valid(cur)', \A j \in Cell : j >= free => cell'[cur][j] = Blank,
           \A a \in Addr : map[a] # 0 => RecordAt(PageOf(map[a]), IndexOf(map[a]), a)'
    PROVE  LogInv'
  <1> USE DEF Sound
  <1>1. \/ pc' = "erase" /\ op'.kind = "sweep" /\ era'.by = "sweep"
        \/ pc' = "idle" /\ op' = NoOp
    BY DEF SweepOn
  <1>2. ~Scans' /\ ~gcing' /\ InUse'
    BY <1>1 DEF Scans, InUse, Clearing, NoOp
  <1>3. ErasedIsClean' /\ EmptyTable' /\ MarksFree'
    BY <1>1 DEF ErasedIsClean, EmptyTable, MarksFree, Erases, NoOp
  <1>4. CursorClear'
    <2>1. \A j \in Cell : j > free \/ j = free => j >= free
      BY Bounds DEF Typed, TypeOK, RamType, Cell
    <2> QED BY <1>1, <2>1 DEF CursorClear
  <1>5. MapPoints' /\ Scanned' /\ CurrentLast' /\ RoundFills' /\ CollectedPageIsDead'
    BY <1>1, <1>2 DEF MapPoints, Scanned, CurrentLast, RoundFills, CollectedPageIsDead
  <1> QED BY <1>3, <1>4, <1>5 DEF LogInv

LEMMA MarkSweptLog ==
    ASSUME Sound, MarkSwept PROVE LogInv'
  <1> USE DEF Sound
  <1>1. /\ pc = "mark" /\ era.by = "sweep" /\ MarkErased /\ SweepOn(status', idx)
        /\ UNCHANGED <<ram, gcing, wr, gc>>
    BY DEF MarkSwept, MarkErased
  <1>2. InUse /\ ~gcing /\ Valid(cur) /\ cur \in Page /\ UNCHANGED <<cur, free, map, gcing>>
    BY <1>1, UseFacts DEF SpaceInv, InRequest, Erases, LogInv, CursorClear, Typed, TypeOK,
          RamType, ram
  <1>3. pc' \in {"erase", "idle"}
    BY <1>1 DEF SweepOn
  <1>4. Valid(cur)'
    BY <1>1, <1>2, MarkLog DEF Valid
  <1> QED BY <1>1, <1>2, <1>3, <1>4, MarkLog, SweepOnLog

LEMMA SweepLog ==
    ASSUME Sound, Sweep PROVE LogInv'
  <1> USE DEF Sound
  <1>1. /\ pc = "idle" /\ SweepOn(status, 0) /\ UNCHANGED <<flash, ram, gcing, wr, gc>>
    BY DEF Sweep
  <1>2. InUse /\ ~gcing /\ Valid(cur) /\ cur \in Page /\ UNCHANGED <<cur, free, map, gcing>>
    BY <1>1, UseFacts DEF SpaceInv, InRequest, Erases, LogInv, CursorClear, Typed, TypeOK,
          RamType, ram
  <1>3. pc' \in {"erase", "idle"} /\ Valid(cur)' /\ EndsLast'
        /\ \A p \in Page : status'[p] = "erased" => Clean(p)'
    BY <1>1, <1>2 DEF SweepOn, Valid, flash, LogInv, EndsLast, ErasedIsClean, Clean
  <1>4. \A j \in Cell : j >= free => cell'[cur][j] = Blank
    <2>1. \A j \in Cell : j >= free => j > free \/ j = free
      BY Bounds DEF Typed, TypeOK, RamType, Cell
    <2> QED BY <1>1, <1>2, <2>1 DEF LogInv, CursorClear, flash
  <1>5. \A a \in Addr : map[a] # 0 => RecordAt(PageOf(map[a]), IndexOf(map[a]), a)'
    BY <1>1, <1>2 DEF LogInv, MapPoints, RecordAt, Valid, flash
  <1> QED BY <1>1, <1>2, <1>3, <1>4, <1>5, SweepOnLog

\* A collection begins at the last key of a page.
LEMMA StartsAtEnd ==
    ASSUME Typed, EndsLast, NEW p \in Page
    PROVE  LastKey(p) = E - 1 /\ (E - 1) % 2 = 1
  <1>1. fin[p] \in {0, E - 1}
    BY DEF EndsLast
  <1> QED BY <1>1, Bounds, FtlAssumption DEF LastKey

LEMMA StampNextLog ==
    ASSUME Sound, StampNext PROVE LogInv'
  <1> USE DEF Sound
  <1>1. /\ pc = "stamp" /\ op.kind \in {"save", "collect"} /\ era.by = "format" /\ era.page \in Page
        /\ status' = [status EXCEPT ![era.page] = "valid"]
        /\ cur' = era.page /\ free' = 2 /\ UNCHANGED <<fin, cell, map, op>>
    BY DEF StampNext, StampPage, Typed, TypeOK, CallOK, CallType, Erasing
  <1>2. InUse /\ Valid(cur) /\ cur \in Page /\ ~Valid(era.page) /\ Full /\ Clean(era.page)
    BY <1>1, UseFacts DEF SpaceInv, InRequest, ErasesFree, Erases, InUse, Clearing, LogInv,
          CursorClear, Typed, TypeOK, RamType, ErasedIsClean
  <1>3. /\ \A p \in Page : p # era.page => status'[p] = status[p]
        /\ status'[era.page] = "valid"
    BY <1>1 DEF Typed, TypeOK, FlashType
  <1>4. \/ /\ gcing \/ freePages' # 0
           /\ pc' = "write" /\ UNCHANGED <<gcing, gc>>
        \/ ~gcing /\ StartGc(status', cur')
    BY DEF StampNext
  <1>5. pc' \in {"write", "scan"} /\ InUse'
    BY <1>1, <1>2, <1>4 DEF StartGc, InUse, Clearing, Erases
  <1>6. ErasedIsClean' /\ EndsLast' /\ CollectedPageIsDead' /\ MarksFree' /\ EmptyTable'
    BY <1>1, <1>3, <1>5 DEF LogInv, ErasedIsClean, EndsLast, CollectedPageIsDead, MarksFree,
          EmptyTable, Erases, Clean
  <1>7. CursorClear'
    BY <1>1, <1>2, <1>3, <1>5 DEF CursorClear, Clean, Valid
  <1>8. MapPoints'
    <2> SUFFICES ASSUME NEW a \in Addr, map[a] # 0
                 PROVE  RecordAt(PageOf(map[a]), IndexOf(map[a]), a)'
      BY <1>1 DEF MapPoints
    <2>1. RecordAt(PageOf(map[a]), IndexOf(map[a]), a) /\ PageOf(map[a]) \in Page
      BY <1>2, MapPlaces DEF LogInv, MapPoints
    <2> QED BY <1>1, <1>3, <2>1 DEF RecordAt, Valid
  <1>9. RecordsPerPage \in Nat /\ (E - 2) \div 2 = RecordsPerPage
    BY RoomArithmetic
  <1>10. ASSUME gcing \/ freePages' # 0, pc' = "write", UNCHANGED <<gcing, gc>>
         PROVE  Scanned' /\ CurrentLast' /\ RoundFills'
    <2> DEFINE rest == (gc.key - 1) \div 2
    <2> HIDE DEF rest
    <2>10. ~Emptying /\ ~Emptying' /\ op.kind # "boot" /\ op'.kind # "boot"
      BY <1>1, <1>10 DEF Emptying, Erases
    <2>11. (Scans <=> gcing) /\ (Scans' <=> gcing)
      BY <1>10, <2>10 DEF Scans
    <2>12. (Copying <=> gcing) /\ (Copying' <=> gcing)
      BY <1>1, <1>10, <2>11 DEF Copying
    <2>13. (gc'.key - 1) \div 2 = rest
      BY <1>10 DEF rest
    <2>14. gcing => Left' = Left
      BY <2>12, <2>13 DEF Left, rest
    <2>1. (Scans <=> gcing) /\ (Scans' <=> gcing) /\ ~Emptying /\ ~Emptying'
          /\ (gcing => Copying /\ Copying') /\ (gcing => Left' = Left)
      BY <2>10, <2>11, <2>12, <2>14
    <2>2. gcing => gc.page \in Page /\ Valid(gc.page) /\ gc.page # era.page
      BY <1>2, <2>1, ScanFacts
    <2>3. Scanned'
      <3> SUFFICES ASSUME gcing PROVE Scanned'
        BY <2>1 DEF Scanned
      <3>1. \A a \in Addr : CanDrop(a, gc.page)' <=> CanDrop(a, gc.page)
        BY <1>1, <1>10 DEF CanDrop
      <3>2. wr' = wr
        BY <1>4, <3>1 DEF StampNext, StartGc
      <3> QED BY <1>1, <1>10, <2>1, <3>1, <3>2 DEF LogInv, Scanned
    <2>4. CurrentLast'
      BY <1>1, <1>10, <2>1, <2>2 DEF CurrentLast
    <2>5. ASSUME gcing, ~gc.recycled, OnlyTwo' PROVE RecordsPerPage <= Left
      <3>1. cur = gc.page
        BY <1>1, <1>2, <1>3, <1>10, <2>5 DEF OnlyTwo, Valid
      <3> QED BY <2>1, <2>5, <3>1 DEF LogInv, RoundFills
    <2>6. Left \in Int
      BY LeftArithmetic
    <2> QED BY <1>1, <1>9, <1>10, <2>1, <2>2, <2>3, <2>4, <2>5, <2>6 DEF RoundFills
  <1>11. ASSUME ~gcing, StartGc(status', cur')
         PROVE  Scanned' /\ CurrentLast' /\ RoundFills'
    <2> DEFINE p == Oldest(status', cur')
    <2>1. p \in Page /\ p # cur'
      <3>1. status'[cur] = "valid" /\ status'[cur'] = "valid" /\ cur # cur' /\ cur' \in Page
        BY <1>1, <1>2, <1>3 DEF Valid
      <3> QED BY <1>2, <3>1, CurrentCounts
    <2>2. LastKey(p) = E - 1 /\ (E - 1) % 2 = 1
      BY <1>1, <2>1, StartsAtEnd DEF LastKey, LogInv
    <2>3. gcing' /\ gc'.page = p /\ gc'.key = E - 1 /\ ~gc'.recycled /\ pc' = "scan"
      BY <1>11, <2>2 DEF StartGc
    <2>4. ~Emptying' /\ ~Copying' /\ Scans'
      BY <2>3 DEF Emptying, Erases, Copying, Scans
    <2>5. Scanned'
      BY <2>2, <2>3, <2>4, Bounds DEF Scanned, ScanFrom
    <2>6. CurrentLast'
      BY <2>1, <2>3, <2>4 DEF CurrentLast
    <2>7. Left' = RecordsPerPage
      <3>1. (gc'.key - 1) \div 2 = RecordsPerPage
        BY <1>9, <2>3, Bounds
      <3> QED BY <1>9, <2>4, <3>1 DEF Left
    <2> QED BY <1>1, <1>9, <2>1, <2>3, <2>4, <2>5, <2>6, <2>7 DEF RoundFills
  <1>12. Scanned' /\ CurrentLast' /\ RoundFills'
    BY <1>4, <1>10, <1>11
  <1> QED BY <1>6, <1>7, <1>8, <1>12 DEF LogInv

LEMMA StampFirstLog ==
    ASSUME Sound, StampFirst PROVE LogInv'
  <1> USE DEF Sound
  <1>1. /\ pc = "stamp" /\ op.kind \in {"boot", "clear", "wipe"} /\ era.page \in Page
        /\ status' = [status EXCEPT ![era.page] = "valid"]
        /\ cur' = era.page /\ free' = 2 /\ UNCHANGED <<fin, cell, map, gcing>>
        /\ pc' = "idle" /\ op' = NoOp
    BY DEF StampFirst, StampPage, Typed, TypeOK, CallType, Erasing
  <1>2. Clean(era.page) /\ ~gcing /\ \A a \in Addr : map[a] = 0
    BY <1>1 DEF LogInv, ErasedIsClean, EmptyTable, Erases, SpaceInv, InRequest
  <1>3. /\ \A p \in Page : p # era.page => status'[p] = status[p]
        /\ status'[era.page] = "valid"
    BY <1>1 DEF Typed, TypeOK, FlashType
  <1>4. ErasedIsClean' /\ EndsLast'
    BY <1>1, <1>3 DEF LogInv, ErasedIsClean, EndsLast, Clean
  <1>5. CursorClear'
    BY <1>1, <1>2, <1>3 DEF CursorClear, Clean, Valid
  <1>6. ~gcing' /\ ~Scans'
    BY <1>1, <1>2 DEF Scans, NoOp
  <1> QED BY <1>1, <1>2, <1>4, <1>5, <1>6 DEF LogInv, MapPoints, CollectedPageIsDead, MarksFree,
             EmptyTable, Erases, Scanned, CurrentLast, RoundFills

\* A scan goes down to the last key that is not dropped.
LEMMA NextKey ==
    ASSUME Typed, LiveKeys # {}, gc.key % 2 = 1
    PROVE  \E k \in LiveKeys :
              /\ k = Max(LiveKeys) /\ \A j \in LiveKeys : j <= k
              /\ k \in 3 .. E - 1 /\ k <= gc.key /\ k % 2 = 1 /\ (k - 2) % 2 = 1
  <1>1. LiveKeys \in SUBSET (3 .. E - 1) /\ 3 \in Nat /\ E - 1 \in Nat /\ gc.key \in Nat
    BY ScanFromType, Bounds DEF LiveKeys, Typed, TypeOK, CallType, Locals
  <1>2. Max(LiveKeys) \in LiveKeys /\ \A j \in LiveKeys : j <= Max(LiveKeys)
    <2>1. LiveKeys \in SUBSET Nat /\ E - 1 \in Nat /\ \A j \in LiveKeys : j <= E - 1
      BY <1>1
    <2> QED BY <2>1, MaxIsGreatest
  <1>3. \A k \in LiveKeys : k \in 3 .. E - 1 /\ k <= gc.key /\ (gc.key - k) % 2 = 0
    BY DEF LiveKeys, ScanFrom
  <1>4. \A k \in LiveKeys : k % 2 = 1 /\ (k - 2) % 2 = 1
    BY <1>1, <1>3
  <1> QED BY <1>2, <1>3, <1>4

\* The keys of a page above an odd one, down from the last.
LEMMA OddKeys ==
    ASSUME NEW j \in ScanFrom(E - 1)
    PROVE  /\ j \in 3 .. E - 1 /\ j % 2 = 1
           /\ \A k \in Nat : k % 2 = 1 /\ j <= k => j \in ScanFrom(k)
  BY FtlAssumption DEF ScanFrom

LEMMA CopyNextLog ==
    ASSUME Sound, CopyNext, pc \in {"scan", "recover"} PROVE LogInv'
  <1> USE DEF Sound
  <1>1. /\ LiveKeys # {} /\ pc' = "write"
        /\ UNCHANGED <<flash, ram, gcing, op, era, idx>>
    BY DEF CopyNext
  <1>2. /\ ~Emptying /\ ~Emptying' /\ Scans /\ Scans' /\ ~Copying /\ Copying'
        /\ (op.kind = "boot" => ~gcing) /\ (gcing => pc = "scan")
    BY <1>1 DEF Emptying, Erases, Scans, Copying, SpaceInv, InRequest
  <1>3. PICK k \in LiveKeys :
              /\ k = Max(LiveKeys) /\ \A j \in LiveKeys : j <= k
              /\ k \in 3 .. E - 1 /\ k <= gc.key /\ k % 2 = 1 /\ (k - 2) % 2 = 1
    BY <1>1, <1>2, NextKey DEF LogInv, Scanned
  <1>4. gc \in Locals /\ gc.key \in Nat /\ gc.key % 2 = 1 /\ k \in Nat
    BY <1>2, <1>3, Bounds DEF LogInv, Scanned, Typed, TypeOK, CallType, Locals
  <1>5. /\ gc'.page = gc.page /\ gc'.key = k - 2
        /\ gc'.recycled = (gc.recycled \/ \E i \in ScanFrom(gc.key) : i > k)
        /\ wr'.addr = cell[gc.page][k].addr
    BY <1>3, <1>4 DEF CopyNext, Locals
  <1>6. PICK a \in Addr : cell[gc.page][k] = KeyOf(a)
    BY <1>3 DEF LiveKeys
  <1>7. wr'.addr = a
    BY <1>5, <1>6 DEF KeyOf
  <1>8. ErasedIsClean' /\ EndsLast' /\ CursorClear' /\ MapPoints'
    <2>1. InUse /\ UNCHANGED <<flash, cur, free, map>>
      BY <1>1, <1>2, UseFacts DEF ram
    <2> QED BY <1>1, <2>1, QuietLog
  <1>9. Scanned'
    <2> SUFFICES ASSUME NEW j \in ScanFrom(E - 1), NEW b \in Addr, j > k - 2,
                        cell[gc.page][j] = KeyOf(b), b # a
                 PROVE  CanDrop(b, gc.page)
      <3>1. \A b \in Addr : CanDrop(b, gc.page)' <=> CanDrop(b, gc.page)
        BY <1>1, <1>5 DEF CanDrop, ram
      <3> QED BY <1>1, <1>2, <1>3, <1>5, <1>7, <3>1 DEF Scanned, flash
    <2>1. j \in 3 .. E - 1 /\ j % 2 = 1 /\ (j <= gc.key => j \in ScanFrom(gc.key))
      BY <1>4, OddKeys
    <2>2. j # k
      BY <1>6 DEF KeyOf
    <2>3. j > k
      BY <1>3, <2>1, <2>2
    <2>4. CASE j > gc.key
      BY <1>2, <2>4 DEF LogInv, Scanned
    <2>5. CASE j <= gc.key
      <3>1. j \notin LiveKeys /\ j \in ScanFrom(gc.key)
        BY <1>3, <1>4, <2>1, <2>3, <2>5
      <3> QED BY <3>1 DEF LiveKeys
    <2> QED BY <1>4, <2>1, <2>4, <2>5
  <1>10. CurrentLast'
    BY <1>1, <1>2, <1>5 DEF LogInv, CurrentLast, ram, Full
  <1>11. RoundFills'
    <2> SUFFICES ASSUME gcing, ~gc'.recycled PROVE RoundFills'
      BY <1>1 DEF RoundFills
    <2>1. ~gc.recycled /\ k = gc.key
      <3>1. gc.key \in ScanFrom(gc.key)
        BY <1>3, <1>4, Bounds DEF ScanFrom, Locals
      <3>2. ~gc.recycled /\ ~(gc.key > k)
        BY <1>5, <3>1
      <3>3. k <= gc.key
        BY <1>3
      <3> QED BY <1>4, <3>2, <3>3
    <2>2. Left' = Left
      <3>1. ((k - 2) - 1) \div 2 + 1 = (k - 1) \div 2 + 0
        BY <1>3, <1>4
      <3> QED BY <1>2, <1>5, <2>1, <3>1 DEF Left
    <2>3. OnlyTwo' = OnlyTwo /\ LastLive' = LastLive
      BY <1>1, <1>5 DEF OnlyTwo, LastLive, flash, ram, Valid
    <2> QED BY <1>1, <1>2, <1>5, <2>1, <2>2, <2>3 DEF LogInv, RoundFills, ram
  <1> QED BY <1>1, <1>8, <1>9, <1>10, <1>11 DEF LogInv, MarksFree, EmptyTable, Erases,
             CollectedPageIsDead

\* When nothing is left to copy, no record of the page is the last one.
LEMMA NothingLeft ==
    ASSUME Sound, Scans, ~Copying, LiveKeys = {}, NEW a \in Addr, map[a] # 0
    PROVE  PageOf(map[a]) # gc.page
  <1> USE DEF Sound
  <1> DEFINE i == IndexOf(map[a])
  <1>1. i \in 0 .. E - 1 /\ i % 2 = 0 /\ i + 1 \in Cell
        /\ cell[PageOf(map[a])][i + 1] = KeyOf(a)
    BY UseFacts, MapPlaces DEF LogInv, MapPoints, RecordAt
  <1> HIDE DEF i
  <1>2. gc.key \in Nat /\ gc.key % 2 = 1
    BY Bounds DEF LogInv, Scanned, Typed, TypeOK, CallType, Locals
  <1>3. i + 1 \in ScanFrom(E - 1) /\ (i + 1 <= gc.key => i + 1 \in ScanFrom(gc.key))
    BY <1>1, <1>2, Bounds, FtlAssumption DEF ScanFrom, Cell
  <1>4. CASE i + 1 > gc.key
    BY <1>1, <1>3, <1>4 DEF LogInv, Scanned, CanDrop
  <1>5. CASE i + 1 <= gc.key
    BY <1>1, <1>3, <1>5 DEF LiveKeys, CanDrop
  <1> QED BY <1>1, <1>2, <1>4, <1>5, Bounds DEF Cell

\* A page is given up when each of its records is found elsewhere.
LEMMA CollectPageLog ==
    ASSUME Sound, CollectPage PROVE LogInv'
  <1> USE DEF Sound
  <1>1. /\ pc = "scan" /\ LiveKeys = {} /\ pc' = "erase" /\ gcing
        /\ era' = [page |-> gc.page, by |-> "collect"]
        /\ op.kind \in {"save", "collect"}
        /\ UNCHANGED <<flash, ram, gcing, op, wr, idx>>
    BY DEF CollectPage, SpaceInv, InRequest
  <1>2. gc \in Locals /\ gc.key \in Nat
    BY Bounds DEF Typed, TypeOK, CallType, Locals
  <1>3. /\ gc'.page = gc.page /\ gc'.key = gc.key
        /\ gc'.recycled = (gc.recycled \/ ScanFrom(gc.key) # {})
    BY <1>2 DEF CollectPage, Locals
  <1>4. /\ ~Emptying /\ Emptying' /\ Scans /\ ~Scans' /\ ~Copying /\ InUse
    BY <1>1, UseFacts DEF Emptying, Erases, Scans, Copying
  <1>5. gc.key % 2 = 1
    BY <1>4 DEF LogInv, Scanned
  <1>6. ErasedIsClean' /\ EndsLast' /\ CursorClear' /\ MapPoints'
    <2>1. UNCHANGED <<flash, cur, free, map>>
      BY <1>1 DEF ram
    <2> QED BY <1>1, <1>4, <2>1, QuietLog
  <1>7. CollectedPageIsDead'
    BY <1>1, <1>4, NothingLeft DEF CollectedPageIsDead, ram
  <1>8. gc.page # cur
    BY <1>1, <1>4 DEF LogInv, CurrentLast
  <1>9. CurrentLast'
    BY <1>1, <1>3, <1>4, <1>8 DEF CurrentLast, ram
  <1>10. RoundFills'
    <2> SUFFICES ASSUME ~gc'.recycled, OnlyTwo' PROVE Full' /\ LastLive'
      BY <1>4 DEF RoundFills
    <2>1. ~gc.recycled /\ ScanFrom(gc.key) = {}
      BY <1>3
    <2>2. gc.key = 1
      <3>1. gc.key \notin ScanFrom(gc.key)
        BY <2>1
      <3> QED BY <1>2, <1>5, <3>1, Bounds DEF ScanFrom, Locals
    <2>3. Left = 0
      <3>1. (gc.key - 1) \div 2 = 0
        BY <2>2
      <3> QED BY <1>4, <3>1 DEF Left
    <2>4. OnlyTwo /\ (LastLive => LastLive') /\ (Full => Full')
      BY <1>1, <1>3 DEF OnlyTwo, LastLive, Full, flash, ram, Valid
    <2>5. (E - free) \div 2 <= 0 /\ LastLive
      BY <1>1, <1>4, <1>8, <2>1, <2>3, <2>4, RoomArithmetic DEF LogInv, RoundFills
    <2>6. Full
      BY <2>5, Bounds DEF Full, Typed, TypeOK, RamType
    <2> QED BY <2>4, <2>5, <2>6
  <1>11. Scanned' /\ MarksFree' /\ EmptyTable'
    BY <1>1, <1>4 DEF Scanned, MarksFree, EmptyTable
  <1> QED BY <1>6, <1>7, <1>9, <1>10, <1>11 DEF LogInv

\* The table is right after the mark of a page that is not in use.
LEMMA MarkedUse ==
    ASSUME Sound, pc = "mark", MarkErased, UNCHANGED <<cur, free, map>>, InUse,
           pc' \notin {"key", "mark", "stamp"}
    PROVE  ErasedIsClean' /\ EndsLast' /\ CursorClear' /\ MapPoints'
  <1> USE DEF Sound
  <1>1. Valid(cur)'
    BY MarkLog DEF LogInv, CursorClear, Typed, TypeOK, RamType, Valid
  <1>2. \A i \in Cell : i > free \/ i = free => i >= free
    BY Bounds DEF Typed, TypeOK, RamType, Cell
  <1>3. CursorClear' /\ MapPoints'
    BY <1>1, <1>2, MarkLog DEF CursorClear, MapPoints
  <1> QED BY <1>3, MarkLog DEF ErasedIsClean

\* A collection begins, or goes on with another page: nothing has been scanned.
LEMMA NewScan ==
    ASSUME Sound, gcing', pc' = "scan", ~gc'.recycled, gc'.key = E - 1, UNCHANGED <<cur, free>>,
           (gc'.page = cur /\ Full => LiveKeys' # {}), gc'.page = cur => Full
    PROVE  Scanned' /\ CurrentLast' /\ RoundFills'
  <1> USE DEF Sound
  <1>1. ~Emptying' /\ ~Copying' /\ Scans'
    BY DEF Emptying, Erases, Copying, Scans
  <1>2. (E - 1) % 2 = 1 /\ (E - 1 - 1) \div 2 = RecordsPerPage /\ RecordsPerPage \in Nat
    BY RoomArithmetic, FtlAssumption
  <1>3. Scanned'
    BY <1>1, <1>2, Bounds DEF Scanned, ScanFrom
  <1>4. CurrentLast'
    BY <1>1 DEF CurrentLast, Full
  <1>5. Left' = RecordsPerPage
    BY <1>1, <1>2 DEF Left
  <1>6. (E - free') \div 2 <= RecordsPerPage
    BY <1>2, Bounds DEF Typed, TypeOK, RamType
  <1> QED BY <1>1, <1>2, <1>3, <1>4, <1>5, <1>6 DEF RoundFills

LEMMA MarkCollectedLog ==
    ASSUME Sound, MarkCollected PROVE LogInv'
  <1> USE DEF Sound
  <1>1. /\ pc = "mark" /\ era.by = "collect" /\ MarkErased /\ UNCHANGED <<cur, free, map, fin, cell>>
    BY DEF MarkCollected, MarkErased
  <1>2. gcing /\ op.kind \in {"save", "collect"} /\ Emptying /\ InUse
    BY <1>1, UseFacts DEF SpaceInv, InRequest, Emptying, Erases
  <1>3. era.page = gc.page /\ gc.page # cur /\ cur \in Page /\ Valid(cur)
    BY <1>2 DEF LogInv, CurrentLast, CursorClear, Typed, TypeOK, RamType
  <1>4. \A p \in Page : Valid(p)' <=> Valid(p)
    BY <1>1, MarkLog
  <1>5. CASE ~gc.recycled /\ gc.retry > 0
    <2> DEFINE p == Oldest(status', cur)
    <2>1. /\ gc' = [page |-> p, key |-> LastKey(p), recycled |-> FALSE, retry |-> gc.retry - 1]
          /\ pc' = "scan" /\ era' = NoErase /\ UNCHANGED <<gcing, op>>
      BY <1>5 DEF MarkCollected
    <2>2. status'[cur] = "valid"
      BY <1>3, <1>4 DEF Valid
    <2>3. p \in Page /\ (p = cur => \A q \in Page : q # cur => status'[q] # "valid")
      BY <1>3, <2>2, CurrentCounts
    <2>4. LastKey(p) = E - 1
      BY <2>3, StartsAtEnd DEF LogInv
    <2>5. ASSUME p = cur PROVE Full /\ LiveKeys' # {}
      <3>1. OnlyTwo
        BY <1>4, <2>3, <2>5 DEF OnlyTwo, Valid
      <3>2. Full /\ LastLive
        BY <1>2, <1>5, <3>1 DEF LogInv, RoundFills
      <3>3. free = E
        BY <3>2, Bounds, FtlAssumption DEF Full, Aligned, RecordsAligned, Typed, TypeOK, RamType
      <3>4. PICK a \in Addr : cell[cur][E - 1] = KeyOf(a) /\ map[a] = Phy(cur, E - 2)
        BY <3>2, <3>3 DEF LastLive
      <3>5. E - 2 \in Cell /\ (E - 2) % 2 = 0 /\ E - 1 \in ScanFrom(E - 1)
        BY FtlAssumption DEF Cell, ScanFrom
      <3>6. ~CanDrop(a, cur)'
        BY <1>1, <1>3, <3>4, <3>5, PhyInverse DEF CanDrop
      <3>7. E - 1 \in LiveKeys'
        BY <1>1, <2>1, <2>4, <2>5, <3>4, <3>5, <3>6 DEF LiveKeys
      <3> QED BY <3>2, <3>7
    <2>6. Scanned' /\ CurrentLast' /\ RoundFills'
      BY <1>1, <1>2, <2>1, <2>4, <2>5, NewScan
    <2> QED BY <1>1, <1>2, <2>1, <2>6, MarkedUse DEF LogInv, MarksFree, EmptyTable, Erases,
               CollectedPageIsDead
  <1>6. CASE ~(~gc.recycled /\ gc.retry > 0)
    <2>1. ~gcing' /\ pc' \in {"write", "idle"} /\ op'.kind \in {"save", "none"}
      BY <1>6 DEF MarkCollected, EndGc, NoOp
    <2>2. ~Scans'
      BY <2>1 DEF Scans
    <2> QED BY <1>1, <1>2, <2>1, <2>2, MarkedUse DEF LogInv, MarksFree, EmptyTable, Erases,
               CollectedPageIsDead, Scanned, CurrentLast, RoundFills
  <1> QED BY <1>5, <1>6

LEMMA SaveLog ==
    ASSUME Sound, NEW a, NEW v, Save(a, v) PROVE LogInv'
  <1> USE DEF Sound
  <1>1. /\ pc = "idle" /\ pc' = "write" /\ op'.kind = "save" /\ ~gcing'
        /\ UNCHANGED <<flash, cur, free, map>>
    BY DEF Save, SpaceInv, InRequest, ram
  <1>2. InUse /\ ~Scans'
    BY <1>1, UseFacts DEF Scans
  <1>3. ErasedIsClean' /\ EndsLast' /\ CursorClear' /\ MapPoints'
    BY <1>1, <1>2, QuietLog
  <1> QED BY <1>1, <1>2, <1>3 DEF LogInv, MarksFree, EmptyTable, Erases,
             CollectedPageIsDead, Scanned, CurrentLast, RoundFills

\* A collection that is asked for does not begin with the current page.
LEMMA CollectLog ==
    ASSUME Sound, Orderly, NEW m \in GcPages, NEW n, Collect(m, n) PROVE LogInv'
  <1> USE DEF Sound
  <1> DEFINE p == Oldest(status, cur)
  <1>1. /\ pc = "idle" /\ pc' = "scan" /\ gcing' /\ op'.kind = "collect"
        /\ gc'.page = p /\ gc'.key = LastKey(p) /\ ~gc'.recycled
        /\ freePages <= m /\ UNCHANGED <<flash, cur, free, map>>
    BY DEF Collect, StartGc, ram
  <1>2. InUse /\ Valid(cur) /\ cur \in Page /\ freePages = FreeNow
    BY <1>1, UseFacts DEF LogInv, CursorClear, SpaceInv, InRequest, Serving, Typed, TypeOK, RamType
  <1>3. FreeNow < N - 1
    <2>1. m \in Int /\ m <= N - 2
      BY Bounds DEF Orderly
    <2> QED BY <1>1, <1>2, <2>1, FreeNowType, Bounds
  <1>4. p \in Page /\ p # cur
    BY <1>2, <1>3, CurrentCounts DEF Valid, FreeNow
  <1>5. LastKey(p) = E - 1
    BY <1>4, StartsAtEnd DEF LogInv
  <1>6. Scanned' /\ CurrentLast' /\ RoundFills'
    BY <1>1, <1>4, <1>5, NewScan
  <1>7. ErasedIsClean' /\ EndsLast' /\ CursorClear' /\ MapPoints'
    BY <1>1, <1>2, QuietLog
  <1> QED BY <1>1, <1>6, <1>7 DEF LogInv, MarksFree, EmptyTable, Erases, CollectedPageIsDead

LEMMA ClearAllLog ==
    ASSUME Sound, ClearAll PROVE LogInv'
  <1> USE DEF Sound
  <1>1. /\ pc = "idle" /\ pc' = "clear" /\ op'.kind = "clear" /\ ~gcing'
        /\ UNCHANGED <<flash, ram>>
    BY DEF ClearAll, SpaceInv, InRequest
  <1>2. ~InUse' /\ ~Scans'
    BY <1>1 DEF InUse, Clearing, Scans
  <1>3. ErasedIsClean' /\ EndsLast' /\ EmptyTable'
    BY <1>1 DEF LogInv, ErasedIsClean, EndsLast, EmptyTable, Clean, Erases, flash
  <1> QED BY <1>1, <1>2, <1>3, NotInUse

LEMMA ClearPageLog ==
    ASSUME Sound, ClearPage PROVE LogInv'
  <1> USE DEF Sound
  <1>1. /\ pc = "clear" /\ pc' = "clear" /\ op.kind \in {"clear", "wipe"} /\ ~gcing /\ ~gcing'
        /\ status' = [status EXCEPT ![idx] = "dead"] /\ UNCHANGED <<fin, cell, op>>
    BY DEF ClearPage, SpaceInv, InRequest, Typed, CallOK
  <1>2. ~InUse' /\ ~Scans'
    BY <1>1 DEF InUse, Clearing, Scans
  <1>3. \A p \in Page : status'[p] = "erased" => status[p] = "erased"
    BY <1>1 DEF Typed, TypeOK, FlashType
  <1>4. ErasedIsClean' /\ EndsLast' /\ EmptyTable'
    BY <1>1, <1>3 DEF LogInv, ErasedIsClean, EndsLast, EmptyTable, Clean, Erases
  <1> QED BY <1>1, <1>2, <1>4, NotInUse

\* The first page is formatted, with an empty table.
LEMMA FirstFormat ==
    ASSUME Sound, BeginFormat(0), UNCHANGED flash, ~gcing',
           op'.kind \in {"boot", "clear", "wipe"}, \A a \in Addr : map'[a] = 0
    PROVE  LogInv'
  <1> USE DEF Sound
  <1>1. /\ pc' \in {"stamp", "erase"} /\ era'.page = 0 /\ era'.by = "format"
        /\ pc' = "stamp" => status[0] = "erased"
    BY DEF BeginFormat
  <1>2. ~InUse' /\ ~Scans'
    BY <1>1 DEF InUse, Clearing, Erases, Scans
  <1>3. ErasedIsClean' /\ EndsLast' /\ EmptyTable'
    BY <1>1 DEF LogInv, ErasedIsClean, EndsLast, EmptyTable, Clean, flash
  <1> QED BY <1>1, <1>2, <1>3, NotInUse

LEMMA ClearTableLog ==
    ASSUME Sound, ClearTable PROVE LogInv'
  <1>1. /\ op'.kind \in {"clear", "wipe"} /\ ~gcing' /\ BeginFormat(0) /\ UNCHANGED flash
        /\ \A a \in Addr : map'[a] = 0
    BY DEF ClearTable, Sound, SpaceInv, InRequest, Typed, CallOK
  <1> QED BY <1>1, FirstFormat

LEMMA FormatFirstLog ==
    ASSUME Sound, FormatFirst PROVE LogInv'
  <1>1. /\ op'.kind = "boot" /\ ~gcing' /\ BeginFormat(0) /\ UNCHANGED flash
        /\ \A a \in Addr : map'[a] = 0
    BY DEF FormatFirst, BootOp, Sound, SpaceInv, InRequest, LogInv, EmptyTable, ram
  <1> QED BY <1>1, FirstFormat

\* The recovery gives up a page that has nothing left, or everything.
LEMMA RecoverEndLog ==
    ASSUME Sound, RecoverEnd PROVE LogInv'
  <1> USE DEF Sound
  <1>1. /\ pc = "recover" /\ op.kind = "boot" /\ ~gcing /\ ~gcing'
        /\ status' = [status EXCEPT ![gc.page] = "dead"]
        /\ UNCHANGED <<fin, cell, cur, free, map>>
    BY DEF RecoverEnd, SpaceInv, InRequest
  <1>2. Scans /\ ~Copying
    BY <1>1 DEF Scans, Copying
  <1>3. /\ gc.page \in Page /\ gc.page # cur /\ cur \in Page /\ Valid(cur) /\ InUse
    BY <1>1, <1>2, ScanFacts
  <1>4. /\ \A p \in Page : p # gc.page => status'[p] = status[p]
        /\ status'[gc.page] = "dead"
    BY <1>1, <1>3 DEF Typed, TypeOK, FlashType
  <1>5. pc' \in {"clear", "idle"}
    BY DEF RecoverEnd
  <1>6. ErasedIsClean' /\ EndsLast' /\ EmptyTable'
    BY <1>1, <1>4, <1>5 DEF LogInv, ErasedIsClean, EndsLast, EmptyTable, Clean, Erases
  <1>7. CASE LiveKeys # {}
    <2>1. pc' = "clear" /\ op'.kind = "wipe"
      BY <1>7 DEF RecoverEnd
    <2>2. ~InUse' /\ ~Scans'
      BY <1>1, <2>1 DEF InUse, Clearing, Scans
    <2> QED BY <1>1, <1>6, <2>1, <2>2, NotInUse
  <1>8. CASE LiveKeys = {}
    <2>1. pc' = "idle" /\ op' = NoOp
      BY <1>8 DEF RecoverEnd
    <2>2. ~Scans'
      BY <1>1, <2>1 DEF Scans, NoOp
    <2>3. CursorClear'
      BY <1>1, <1>3, <1>4, <2>1 DEF LogInv, CursorClear, Valid
    <2>4. MapPoints'
      <3> SUFFICES ASSUME NEW a \in Addr, map[a] # 0
                   PROVE  RecordAt(PageOf(map[a]), IndexOf(map[a]), a)'
        BY <1>1 DEF MapPoints
      <3>1. RecordAt(PageOf(map[a]), IndexOf(map[a]), a) /\ PageOf(map[a]) \in Page
        BY <1>3, MapPlaces DEF LogInv, MapPoints
      <3>2. PageOf(map[a]) # gc.page
        BY <1>2, <1>8, NothingLeft
      <3> QED BY <1>1, <1>4, <3>1, <3>2 DEF RecordAt, Valid
    <2> QED BY <1>1, <1>6, <2>1, <2>2, <2>3, <2>4 DEF LogInv, MarksFree, Erases,
               CollectedPageIsDead, Scanned, CurrentLast, RoundFills
  <1> QED BY <1>7, <1>8

\* The page that ftl_init finds is valid.
LEMMA SearchFindsValid ==
    ASSUME NEW best \in Search, best[N] # -1
    PROVE  best[N] \in Page /\ Valid(best[N])
  <1> DEFINE S == {i \in 0 .. N : best[i] = best[N]}
  <1>1. N \in S /\ S \in SUBSET Nat
    BY Bounds
  <1>2. PICK m \in S : \A x \in S : m <= x
    BY <1>1, LeastNatural
  <1>3. m \in 0 .. N /\ best[m] = best[N]
    BY <1>2
  <1>4. m # 0
    BY <1>3 DEF Search
  <1>5. m \in 1 .. N /\ m - 1 \in 0 .. N /\ m - 1 \in Page /\ ~(m <= m - 1)
    BY <1>3, <1>4, Bounds DEF Page
  <1>6. best[m] = IF Newer(m - 1, best[m - 1]) THEN m - 1 ELSE best[m - 1]
    BY <1>5 DEF Search
  <1>7. best[m - 1] # best[N]
    BY <1>2, <1>5
  <1>8. Newer(m - 1, best[m - 1]) /\ best[N] = m - 1
    BY <1>3, <1>6, <1>7
  <1> QED BY <1>5, <1>8 DEF Newer

\* The pages that a boot walks back through are valid.
LEMMA ChainValid ==
    ASSUME NEW c \in Page, Valid(c), NEW i \in 0 .. ChainLength(c)
    PROVE  Back(c, i) \in Page /\ Valid(Back(c, i))
  <1> DEFINE S == {n \in 0 .. N - 1 : \A j \in 0 .. n - 1 : HasPrev(Back(c, j))}
  <1>1. S \in SUBSET (0 .. N - 1) /\ 0 \in S /\ N - 1 \in Nat /\ 0 \in Nat
    BY Bounds
  <1>2. ChainLength(c) = Max(S)
    BY DEF ChainLength
  <1>3. Max(S) \in S
    <2> HIDE DEF S
    <2> QED BY <1>1, MaxInRange
  <1>4. /\ ChainLength(c) \in 0 .. N - 1
        /\ \A j \in 0 .. ChainLength(c) - 1 : HasPrev(Back(c, j))
    BY <1>2, <1>3
  <1>5. i \in 0 .. N - 1 /\ Back(c, i) \in Page
    <2>1. i \in 0 .. N - 1
      <3> DEFINE n == ChainLength(c)
      <3>1. n \in 0 .. N - 1 /\ i \in 0 .. n
        BY <1>4
      <3> HIDE DEF n
      <3> QED BY <3>1, Bounds
    <2> QED BY <2>1, PageArithmetic, Bounds
  <1>6. CASE i = 0
    BY <1>6, Bounds DEF Back, Page
  <1>7. CASE i > 0
    <2>1. i - 1 \in 0 .. ChainLength(c) - 1
      BY <1>4, <1>7, Bounds
    <2>2. Valid(Back(Back(c, i - 1), 1))
      BY <1>4, <2>1 DEF HasPrev
    <2>3. Back(Back(c, i - 1), 1) = Back(c, i)
      BY <1>5, <1>7, FtlAssumption DEF Back, Page
    <2> QED BY <1>5, <2>2, <2>3
  <1> QED BY <1>5, <1>6, <1>7

\* Above the free cell that ftl_init finds, the page is blank.
LEMMA FreeCellClear ==
    ASSUME NEW c \in Page
    PROVE  /\ FreeCell(c) \in 2 .. E
           /\ \A i \in Cell : i >= FreeCell(c) => cell[c][i] = Blank
  <1> DEFINE used == {i \in Cell : cell[c][i] # Blank}
  <1>1. FreeCell(c) = IF used = {} THEN 2 ELSE Max(used) + 1
    BY DEF FreeCell
  <1>2. ASSUME NEW i \in Cell, i \in used PROVE i < FreeCell(c)
    <2>1. used \in SUBSET Nat /\ E - 1 \in Nat /\ \A x \in used : x <= E - 1
      BY Bounds DEF Cell
    <2>2. Max(used) \in used /\ i <= Max(used)
      <3> HIDE DEF used
      <3> QED BY <1>2, <2>1, MaxIsGreatest
    <2>3. Max(used) \in Nat /\ i \in Nat /\ FreeCell(c) = Max(used) + 1
      BY <1>1, <1>2, <2>1, <2>2
    <2> QED BY <2>2, <2>3
  <1>3. FreeCell(c) \in 2 .. E
    BY FreeCellType
  <1>4. ASSUME NEW i \in Cell, i >= FreeCell(c) PROVE cell[c][i] = Blank
    <2>1. i \notin used
      BY <1>2, <1>3, <1>4, Bounds DEF Cell
    <2> QED BY <2>1
  <1> QED BY <1>3, <1>4

\* The table that ftl_init builds points to records of valid pages.
LEMMA MapInitPoints ==
    ASSUME Typed, EndsLast, NEW c \in Page, Valid(c), NEW f \in 2 .. E, f % 2 = 0,
           NEW a \in Addr, MapInit(c, f)[a] # 0
    PROVE  RecordAt(PageOf(MapInit(c, f)[a]), IndexOf(MapInit(c, f)[a]), a)
  <1> DEFINE hits == {i \in 0 .. ChainLength(c) : KeysAt(c, f, i, a) # {}}
             n == Min(hits)
             keys == KeysAt(c, f, n, a)
             k == Max(keys)
  <1>1. hits # {} /\ MapInit(c, f)[a] = Phy(Back(c, n), k - 1)
    BY DEF MapInit
  <1>2. n \in hits
    <2>1. hits \in SUBSET (0 .. N - 1) /\ 0 \in Nat /\ N - 1 \in Nat
      BY ChainLengthType, Bounds
    <2> HIDE DEF hits
    <2> QED BY <1>1, <2>1, MinInRange
  <1>3. n \in 0 .. ChainLength(c) /\ keys # {}
    BY <1>2
  <1> HIDE DEF hits, n
  <1>4. keys \in SUBSET (3 .. E - 1) /\ 3 \in Nat /\ E - 1 \in Nat
    BY ScanFromType, Bounds DEF KeysAt
  <1>5. k \in keys
    <2> HIDE DEF keys
    <2> QED BY <1>3, <1>4, MaxInRange
  <1>6. Back(c, n) \in Page /\ Valid(Back(c, n))
    BY <1>3, ChainValid
  <1>7. cell[Back(c, n)][k] = KeyOf(a)
    BY <1>5 DEF KeysAt
  <1>8. k \in 3 .. E - 1 /\ k % 2 = 1
    <2>1. \E l \in Nat : l % 2 = 1 /\ k \in ScanFrom(l)
      <3>1. CASE n = 0
        <4>1. k \in ScanFrom(f - 1)
          BY <1>5, <3>1 DEF KeysAt
        <4>2. f - 1 \in Nat /\ (f - 1) % 2 = 1
          BY Bounds
        <4> QED BY <4>1, <4>2
      <3>2. CASE n # 0
        <4>1. k \in ScanFrom(LastKey(Back(c, n)))
          BY <1>5, <3>2 DEF KeysAt
        <4>2. LastKey(Back(c, n)) = E - 1 /\ (E - 1) % 2 = 1
          BY <1>6, StartsAtEnd
        <4> QED BY <1>4, <4>1, <4>2
      <3> QED BY <3>1, <3>2
    <2> HIDE DEF k
    <2> QED BY <2>1, Bounds DEF ScanFrom
  <1> HIDE DEF k
  <1>9. k - 1 \in Cell /\ (k - 1) % 2 = 0 /\ (k - 1) + 1 = k /\ k \in Cell
    BY <1>8, Bounds DEF Cell
  <1>10. PageOf(Phy(Back(c, n), k - 1)) = Back(c, n) /\ IndexOf(Phy(Back(c, n), k - 1)) = k - 1
    BY <1>6, <1>9, PhyInverse
  <1> QED BY <1>1, <1>6, <1>7, <1>9, <1>10 DEF RecordAt

LEMMA MountLog ==
    ASSUME Sound, WholeRecords, Mount PROVE LogInv'
  <1> USE DEF Sound
  <1>1. PICK best \in Search : best[N] # -1 /\ cur' = best[N]
    BY DEF Mount
  <1>2. cur' \in Page /\ Valid(cur')
    BY <1>1, SearchFindsValid
  <1>3. /\ pc = "off" /\ free' = FreeCell(cur') /\ map' = MapInit(cur', free')
        /\ ~gcing' /\ UNCHANGED flash /\ pc' \in {"recover", "idle"}
    BY DEF Mount, SpaceInv, InRequest
  <1>4. free' \in 2 .. E /\ free' % 2 = 0
    <2>1. free' % 2 = 0
      BY AlignedMount DEF Aligned, RecordsAligned
    <2> QED BY <1>2, <1>3, <2>1, FreeCellClear
  <1>5. ErasedIsClean' /\ EndsLast'
    BY <1>3 DEF LogInv, ErasedIsClean, EndsLast, Clean, flash
  <1>6. CursorClear'
    <2>1. \A i \in Cell : i > free' \/ i = free' => cell[cur'][i] = Blank
      <3>1. \A i \in Cell : i > free' \/ i = free' => i >= free'
        BY <1>4, Bounds DEF Cell
      <3> QED BY <1>2, <1>3, <3>1, FreeCellClear
    <2> QED BY <1>2, <1>3, <2>1 DEF CursorClear, flash, Valid
  <1>7. MapPoints'
    <2> SUFFICES ASSUME NEW a \in Addr, map'[a] # 0
                 PROVE  RecordAt(PageOf(map[a]), IndexOf(map[a]), a)'
      BY DEF MapPoints
    <2>1. RecordAt(PageOf(map'[a]), IndexOf(map'[a]), a)
      BY <1>2, <1>3, <1>4, MapInitPoints DEF LogInv
    <2> QED BY <1>3, <2>1 DEF RecordAt, Valid, flash
  <1>8. CASE freePages' = 0
    <2> DEFINE p == Oldest(status, cur')
    <2>1. pc' = "recover" /\ op'.kind = "boot" /\ gc'.page = p /\ gc'.key = LastKey(p)
          /\ FreeCount(status, cur') = 0
      BY <1>8 DEF Mount, BootOp
    <2>2. p \in Page /\ p # cur'
      BY <1>2, <2>1, CurrentCounts, Bounds DEF Valid
    <2>3. LastKey(p) = E - 1 /\ (E - 1) % 2 = 1
      BY <2>2, StartsAtEnd DEF LogInv
    <2>4. ~Copying'
      BY <2>1 DEF Copying
    <2>5. Scanned' /\ CurrentLast' /\ RoundFills'
      BY <1>3, <2>1, <2>2, <2>3, <2>4, Bounds DEF Scanned, ScanFrom, CurrentLast, RoundFills
    <2> QED BY <1>3, <1>5, <1>6, <1>7, <2>1, <2>5 DEF LogInv, MarksFree, EmptyTable, Erases,
               CollectedPageIsDead
  <1>9. CASE freePages' # 0
    <2>1. pc' = "idle" /\ op' = NoOp
      BY <1>9 DEF Mount
    <2>2. ~Scans'
      BY <1>3, <2>1 DEF Scans, NoOp
    <2> QED BY <1>3, <1>5, <1>6, <1>7, <2>1, <2>2 DEF LogInv, MarksFree, EmptyTable, Erases,
               CollectedPageIsDead, Scanned, CurrentLast, RoundFills
  <1> QED BY <1>8, <1>9

\* Power may be lost anywhere; a page that is cut is not marked erased.
LEMMA PowerLossLog ==
    ASSUME Sound, PowerLoss PROVE LogInv'
  <1> USE DEF Sound
  <1>1. LoseRam
    BY DEF PowerLoss, Crash, CutWrite
  <1>2. ~InUse' /\ ~Scans' /\ ~gcing' /\ EmptyTable' /\ pc' = "off"
    BY <1>1 DEF LoseRam, InUse, Scans, EmptyTable, NoOp
  <1>3. CASE UNCHANGED flash
    <2>1. ErasedIsClean' /\ EndsLast'
      BY <1>2, <1>3 DEF LogInv, ErasedIsClean, EndsLast, Clean, flash
    <2> QED BY <1>2, <2>1, NotInUse
  <1>4. ASSUME NEW k \in Cuts, NEW q \in Page, Restored(q, k), k = 0 \/ Valid(q),
               k >= 2 /\ Full => free - 1 = E - 1
        PROVE  LogInv'
    <2>1. \A p \in Page : p # q => status'[p] = status[p] /\ fin'[p] = fin[p] /\ cell'[p] = cell[p]
      BY <1>4 DEF Restored, Typed, TypeOK, FlashType
    <2>2. status'[q] # "erased"
      BY <1>4 DEF Restored, Typed, TypeOK, FlashType, Valid
    <2>3. fin'[q] \in {0, E - 1}
      <3>1. fin[q] \in {0, E - 1}
        BY DEF LogInv, EndsLast
      <3>2. fin'[q] = IF k <= 1 THEN 0 ELSE IF Full THEN free - 1 ELSE fin[q]
        BY <1>4 DEF Restored, Typed, TypeOK, FlashType
      <3>3. k \in Nat
        BY FtlAssumption, Bounds
      <3> QED BY <1>4, <3>1, <3>2, <3>3
    <2>4. ErasedIsClean' /\ EndsLast'
      BY <1>2, <2>1, <2>2, <2>3 DEF LogInv, ErasedIsClean, EndsLast, Clean
    <2> QED BY <1>2, <2>4, NotInUse
  <1>5. CASE CutWrite
    <2>1. pc \in {"write", "key"} => cur \in Page /\ Valid(cur) /\ (Full => free - 1 = E - 1)
      <3>1. Full => free = E
        BY Bounds, FtlAssumption DEF Full, Aligned, RecordsAligned, Typed, TypeOK, RamType
      <3> QED BY <3>1, UseFacts, Bounds DEF LogInv, CursorClear, Typed, TypeOK, RamType
    <2>2. pc = "clear" /\ idx < N => idx \in Page
      BY Bounds DEF Typed, TypeOK, CallType, Page
    <2>3. era.page \in Page /\ gc.page \in Page
      BY DEF Typed, TypeOK, CallType, Erasing, Locals
    <2>4. \E k \in Cuts, q \in Page :
              Restored(q, k) /\ (k = 0 \/ Valid(q)) /\ (k >= 2 /\ Full => free - 1 = E - 1)
      BY <1>5, <2>1, <2>2, <2>3 DEF CutWrite
    <2> QED BY <1>4, <2>4
  <1> QED BY <1>3, <1>5 DEF PowerLoss, Crash

-----------------------------------------------------------------------------
(* The log: every step, and what follows *)

LEMMA StutterLog ==
    ASSUME LogInv, UNCHANGED vars PROVE LogInv'
  BY DEF vars, flash, ram, call, LogInv, ErasedIsClean, Clean, MarksFree, EndsLast,
         CursorClear, InUse, Clearing, Erases, MapPoints, RecordAt, Valid, EmptyTable,
         Scanned, Scans, Emptying, Copying, ScanFrom, CanDrop, CurrentLast, Full, LiveKeys,
         RoundFills, OnlyTwo, LastLive, Left, CollectedPageIsDead

LEMMA LogNext ==
    ASSUME Orderly, Sound, [Next]_vars PROVE LogInv'
  <1>1. CASE CopyLive \/ RecoverCopy
    BY <1>1, CopyNextLog DEF CopyLive, RecoverCopy
  <1>2. ~FormatFails /\ ~CollectFails /\ ~SweepFails
    BY DEF Orderly, FormatFails, CollectFails, SweepFails, MarkFails
  <1>3. CASE Mount
    BY <1>3, MountLog DEF Orderly
  <1>4. CASE Request
    BY <1>4, SaveLog, CollectLog, ClearAllLog, SweepLog DEF Request
  <1>5. CASE UNCHANGED vars
    BY <1>5, StutterLog DEF Sound
  <1> QED
    BY <1>1, <1>2, <1>3, <1>4, <1>5, WriteDataLog, WriteKeyLog, SetEndLog, FindFreePageLog,
       EraseSectorLog, MarkFormatLog, StampNextLog, StampFirstLog, CollectPageLog,
       MarkCollectedLog, ClearPageLog, ClearTableLog, MarkSweptLog, FormatFirstLog,
       RecoverEndLog, PowerLossLog
       DEF Next, Step

LEMMA SoundAlways == Orderly => (Spec => []Sound)
  <1> SUFFICES ASSUME Orderly PROVE Spec => []Sound
    OBVIOUS
  <1>1. Init => Sound
    BY TypedInit, AlignedInit, SpaceInit, LogInit DEF Sound
  <1>2. Sound /\ [Next]_vars => Sound'
    <2> SUFFICES ASSUME Sound, [Next]_vars PROVE Sound'
      OBVIOUS
    <2>1. Typed' /\ Aligned' /\ SpaceInv'
      BY TypedNext, AlignedNext, SpaceNext DEF Sound, Orderly
    <2> QED BY <2>1, LogNext DEF Sound
  <1> QED BY <1>1, <1>2, PTL DEF Spec

\* The FTL_ASSERTs of ftl_write, if the faults are those of Orderly: the two
\* cells that a record goes to are blank, whoever writes it - the application, a
\* collection or the recovery - and whatever power losses the boots recovered
\* from.
THEOREM BlankCellsAlways == Orderly => (Spec => []WritesBlankCells)
  <1> SUFFICES ASSUME Orderly PROVE Spec => []WritesBlankCells
    OBVIOUS
  <1>1. Sound => WritesBlankCells
    <2> SUFFICES ASSUME Sound, pc = "write", ~Full
                 PROVE  cell[cur][free] = Blank /\ cell[cur][free + 1] = Blank
      BY DEF WritesBlankCells
    <2>1. \A i \in Cell : i > free \/ i = free => cell[cur][i] = Blank
      BY UseFacts DEF Sound, LogInv, CursorClear
    <2>2. free \in Cell /\ free + 1 \in Cell
      <3>1. free \in 2 .. E /\ free # E /\ free % 2 = 0
        BY DEF Sound, Typed, TypeOK, RamType, Full, Aligned, RecordsAligned
      <3> QED BY <3>1, Bounds, FtlAssumption DEF Cell
    <2>3. free + 1 > free
      BY <2>2, Bounds DEF Cell
    <2> QED BY <2>1, <2>2, <2>3
  <1> QED BY <1>1, SoundAlways, PTL

\* "drop or copy it", under the same faults: when ftl_page_garbage_collect comes
\* to erase a page, the mapping table has no record of it left, in whatever order
\* the records were written and however the pages follow each other.
THEOREM DeadPageAlways == Orderly => (Spec => []CollectedPageIsDead)
  <1> SUFFICES ASSUME Orderly PROVE Spec => []CollectedPageIsDead
    OBVIOUS
  <1>1. Sound => CollectedPageIsDead
    BY DEF Sound, LogInv
  <1> QED BY <1>1, SoundAlways, PTL
=============================================================================
