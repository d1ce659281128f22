--------------------------- MODULE FtlNandProofs ---------------------------
(***************************************************************************)
(* Invariants of FtlNand for every geometry of the flash and every set of  *)
(* factory-bad and of breakable blocks: types, reserve and bad blocks,     *)
(* whether or not the erase and the mark of a bad block may fail; then,    *)
(* under the hypotheses FewFail and WholePages, that no bad block is       *)
(* forgotten and that what was written is read back.                       *)
(***************************************************************************)
EXTENDS FtlNand, NatExtrema, TLAPS

Phys == Data \cup Reserve

LEMMA Ranges ==
    /\ D \in Nat /\ D > 0 /\ R \in Nat /\ T \in Nat /\ P \in Nat /\ P > 0
    /\ Block \subseteq Nat /\ Phys \subseteq Block /\ Reserve \subseteq Block
    /\ Data \subseteq Block /\ TableBlock \subseteq Block /\ Pages \subseteq Nat
    /\ 0 \in Data /\ 0 \in Pages /\ 0 \in Offsets
    /\ Good \notin Reserve /\ Unmapped \notin Reserve /\ Good # Unmapped
    /\ NoBlock \notin Block
    /\ FTL_MAX_RETRY \in Nat /\ FTL_MAX_RETRY > 0 /\ FactoryBad \subseteq Block
    /\ Words \subseteq Val \cup {Blank}
  BY NandAssumption DEF Phys, Data, Reserve, TableBlock, Block, Pages, Good,
     Unmapped, NoBlock

\* A reserve block is only taken if it is good and no bad block is sent there.
LEMMA FreeReserveIsFree ==
    ASSUME NEW t \in Tables, FreeReserve(t) # {}
    PROVE  /\ Min(FreeReserve(t)) \in Reserve
           /\ t[Min(FreeReserve(t))] = Good
           /\ \A b \in Block : t[b] # Min(FreeReserve(t))
  <1>1. FreeReserve(t) \in SUBSET Nat
    BY Ranges DEF FreeReserve
  <1>2. Min(FreeReserve(t)) \in FreeReserve(t)
    BY <1>1, MinIsLeast
  <1> QED BY <1>2 DEF FreeReserve, IsBad

LEMMA FindRemapIsGood ==
    ASSUME NEW t \in Tables, NEW b \in Block, FindRemap(t, b) # NoBlock
    PROVE  FindRemap(t, b) \in Reserve /\ ~IsBad(t, FindRemap(t, b))
  BY FreeReserveIsFree DEF FindRemap, IsBad

NoSharedIn(t) ==
    \A a, b \in Block : t[a] \in Reserve /\ t[a] = t[b] => a = b

\* The search keeps a table free of shared reserve blocks.
LEMMA RemappedTable ==
    ASSUME NEW t \in Tables, NEW b \in Block
    PROVE  /\ Remapped(t, b) \in Tables
           /\ NoSharedIn(t) => NoSharedIn(Remapped(t, b))
           /\ \A c \in Block : c # b => Remapped(t, b)[c] = t[c]
           /\ FindRemap(t, b) # NoBlock => Remapped(t, b)[b] = FindRemap(t, b)
  <1>1. CASE FindRemap(t, b) = NoBlock
    BY <1>1 DEF Remapped
  <1>2. CASE FindRemap(t, b) # NoBlock
    <2> DEFINE r == FindRemap(t, b)
    <2>1. Remapped(t, b) = [t EXCEPT ![b] = r]
      BY <1>2 DEF Remapped
    <2>2. r \in Reserve /\ (t[b] = r \/ \A c \in Block : t[c] # r)
      BY <1>2, FreeReserveIsFree DEF FindRemap
    <2> HIDE DEF r
    <2>3. [t EXCEPT ![b] = r] \in Tables
      BY <2>2 DEF Tables
    <2>4. NoSharedIn(t) => NoSharedIn([t EXCEPT ![b] = r])
      BY <2>2 DEF NoSharedIn, Tables
    <2>5. \A c \in Block : [t EXCEPT ![b] = r][c] = IF c = b THEN r ELSE t[c]
      BY DEF Tables
    <2> QED BY <2>1, <2>3, <2>4, <2>5 DEF r
  <1> QED BY <1>1, <1>2

\* A remapped bad block is on a good block still after the search.
LEMMA RemappedIsGood ==
    ASSUME NEW t \in Tables, NEW b \in Block, IsBad(t, b), FindRemap(t, b) # NoBlock
    PROVE  ~IsBad(Remapped(t, b), FindRemap(t, b))
  <1>1. FindRemap(t, b) \in Reserve /\ ~IsBad(t, FindRemap(t, b))
    BY FindRemapIsGood
  <1>2. FindRemap(t, b) # b
    BY <1>1
  <1> QED BY <1>1, <1>2, RemappedTable, Ranges DEF IsBad

LEMMA RemappedStaysBad ==
    ASSUME NEW t \in Tables, NEW b \in Block, IsBad(t, b)
    PROVE  IsBad(Remapped(t, b), b)
  <1>1. CASE FindRemap(t, b) = NoBlock
    BY <1>1 DEF Remapped
  <1>2. CASE FindRemap(t, b) # NoBlock
    BY <1>2, FindRemapIsGood, RemappedTable, Ranges DEF IsBad
  <1> QED BY <1>1, <1>2

LEMMA MarkedTable ==
    ASSUME NEW b \in Block, tbl \in Tables, MarkBad(b)
    PROVE  tbl' \in Tables /\ (NoSharedIn(tbl) => NoSharedIn(tbl'))
  <1>1. tbl' \in Tables
    BY DEF MarkBad, Tables, IsBad
  <1>2. \A c \in Block : tbl'[c] \in {tbl[c], Unmapped}
    BY DEF MarkBad, Tables, IsBad
  <1>3. ASSUME NoSharedIn(tbl) PROVE NoSharedIn(tbl')
    BY <1>2, <1>3, Ranges DEF NoSharedIn
  <1> QED BY <1>1, <1>3

\* Where a good or a remapped block is.
LEMMA WhereIsPhysical ==
    ASSUME NEW t \in Tables, NEW b \in Data
    PROVE  Where(t, b) \in Phys
  BY FindRemapIsGood, Ranges DEF Where, Phys

LEMMA FirstUnwritten ==
    ASSUME Unwritten # {}
    PROVE  Min(Unwritten) \in Pages /\ buf[Min(Unwritten)] # BlankPage
  <1>1. Unwritten \in SUBSET Nat
    BY Ranges DEF Unwritten
  <1>2. Min(Unwritten) \in Unwritten
    BY <1>1, MinIsLeast
  <1> QED BY <1>2 DEF Unwritten

LEMMA FirstUsable ==
    ASSUME Usable # {}
    PROVE  Min(Usable) \in TableBlock
  <1>1. Usable \in SUBSET Nat
    BY Ranges DEF Usable
  <1>2. Min(Usable) \in Usable
    BY <1>1, MinIsLeast
  <1> QED BY <1>2 DEF Usable

-----------------------------------------------------------------------------
(* The inductive invariant *)

\* The call under way is one on a data block, and works on it or, if it is bad, on a
\* physical block in its place; the recovery is only for a bad block.
CallOK ==
    /\ pc \in {"write", "program", "tag", "retry", "reprogram"} => req.block \in Data
    /\ pc \in {"write", "program", "tag", "reprogram"} => to \in Phys
    /\ pc \in {"write", "program"} => to = req.block \/ IsBad(tbl, req.block)
    /\ pc \in {"tag", "retry", "reprogram"} => IsBad(tbl, req.block)

Inv == TypeOK /\ CallOK /\ NoSharedReserve /\ WritesGoodBlocks

\* NoSharedReserve in terms of NoSharedIn
LEMMA NoSharedReserveIn ==
    NoSharedReserve <=> /\ NoSharedIn(tbl)
                        /\ \A c \in TableBlock : copies[c] # NoTable => NoSharedIn(copies[c])
  BY DEF NoSharedReserve, NoSharedIn

LEMMA Blanks ==
    /\ BlankPage \in [Offsets -> Val \cup {Blank, Junk}]
    /\ JunkPage \in [Offsets -> Val \cup {Blank, Junk}]
    /\ BlankBlock \in Content
    /\ BlankBlock \in [Pages -> [Offsets -> Val \cup {Blank, Unknown}]]
    /\ UnknownBlock \in [Pages -> [Offsets -> Val \cup {Blank, Unknown}]]
    /\ UnknownPage \in [Offsets -> Val \cup {Blank, Unknown}]
  BY DEF BlankPage, JunkPage, BlankBlock, Content, UnknownBlock, UnknownPage

\* A table that a boot finds is a table, and it has no shared reserve block.
LEMMA SavedTable ==
    ASSUME TypeOK, NoSharedReserve
    PROVE  Saved \in Tables /\ NoSharedIn(Saved)
  <1>1. NewTable \in Tables /\ NoSharedIn(NewTable)
    <2>1. NewTable \in Tables
      BY DEF NewTable, Tables
    <2>2. \A b \in Block : NewTable[b] \notin Reserve
      BY Ranges DEF NewTable
    <2> QED BY <2>1, <2>2 DEF NoSharedIn
  <1>2. ASSUME Loaded # NoTable
        PROVE  Loaded \in Tables /\ NoSharedIn(Loaded)
    <2> DEFINE S == TableBlock \ tag
    <2>1. S \in SUBSET Nat /\ S # {}
      BY <1>2, Ranges DEF Loaded
    <2>2. Min(S) \in S
      BY <2>1, MinIsLeast
    <2>3. Loaded = copies[Min(S)] /\ Min(S) \in TableBlock
      BY <1>2, <2>2 DEF Loaded
    <2> QED BY <1>2, <2>3, NoSharedReserveIn DEF TypeOK
  <1> QED BY <1>1, <1>2 DEF Saved

LEMMA InitInv == Init => Inv
  <1> SUFFICES ASSUME Init PROVE Inv
    OBVIOUS
  <1>1. TypeOK
    <2>1. data \in [Data \cup Reserve -> Content] /\ buf \in Content
      BY Blanks DEF Init
    <2>2. tag \subseteq Block /\ copies \in [TableBlock -> Tables \cup {NoTable}] /\ tbl \in Tables
      BY Ranges DEF Init, Tables
    <2>3. req \in [block : Data \cup {NoBlock}, page : Pages, off : Offsets, val : Val \cup {Blank}]
      BY Ranges DEF Init, NoReq
    <2>4. want \in [Data -> [Pages -> [Offsets -> Val \cup {Blank, Unknown}]]]
      BY Blanks DEF Init
    <2> QED BY <2>1, <2>2, <2>3, <2>4, Ranges DEF Init, TypeOK
  <1>2. CallOK /\ WritesGoodBlocks
    BY DEF Init, CallOK, WritesGoodBlocks
  <1>3. NoSharedReserve
    BY Ranges, NoSharedReserveIn DEF Init, NoSharedIn
  <1> QED BY <1>1, <1>2, <1>3 DEF Inv

-----------------------------------------------------------------------------
(* Types: one lemma for each action *)

LEMMA ReturnTyped ==
    ASSUME TypeOK, Return
    PROVE  /\ buf' \in Content /\ pc' = "idle" /\ to' \in Phys \cup {NoBlock}
           /\ req' \in [block : Data \cup {NoBlock}, page : Pages, off : Offsets,
                        val : Val \cup {Blank}]
           /\ next' \in 0 .. D + R + T + P /\ count' \in 0 .. FTL_MAX_RETRY + 2
  BY Ranges, Blanks DEF Return, NoReq, Phys

LEMMA UpdateTyped ==
    ASSUME StartUpdate
    PROVE  pc' = "update" /\ next' \in 0 .. D + R + T + P /\ count' \in 0 .. FTL_MAX_RETRY + 2
  BY Ranges DEF StartUpdate

LEMMA StartBlockTyped ==
    ASSUME TypeOK, NEW b \in Phys, NEW content, req.block \in Data, StartBlock(b, content)
    PROVE  /\ data' \in [Phys -> Content] /\ next' \in 0 .. D + R + T + P /\ tag' \subseteq Block
           /\ want' \in [Data -> [Pages -> [Offsets -> Val \cup {Blank, Unknown}]]]
  <1>1. data' \in [Phys -> Content]
    BY Blanks DEF StartBlock, TypeOK, Phys
  <1> DEFINE W == [Pages -> [Offsets -> Val \cup {Blank, Unknown}]]
             skip(p) == content[p] = BlankPage /\ data[b][p] # BlankPage
             w == [p \in Pages |-> IF skip(p) THEN UnknownPage ELSE want[req.block][p]]
  <1>2. want \in [Data -> W]
    BY DEF TypeOK
  <1>3. w \in W
    BY <1>2, Blanks
  <1>4. want' = want \/ want' = [want EXCEPT ![req.block] = w]
    BY DEF StartBlock
  <1> HIDE DEF w, W
  <1>5. want' \in [Data -> W]
    BY <1>2, <1>3, <1>4
  <1>6. tag' \subseteq Block /\ next' = 0
    BY DEF StartBlock, TypeOK
  <1> QED BY <1>1, <1>5, <1>6, Ranges DEF W

LEMMA SpoilTyped ==
    ASSUME TypeOK, to \in Phys, Unwritten # {}, Spoil
    PROVE  data' \in [Phys -> Content]
  <1>1. Min(Unwritten) \in Pages
    BY FirstUnwritten
  <1> QED BY <1>1, Blanks DEF Spoil, TypeOK, Phys, Content

LEMMA BootTyped == ASSUME Inv, Boot PROVE TypeOK'
  <1>1. tbl' \in Tables
    BY SavedTable DEF Inv, Boot
  <1>2. CASE Loaded = NoTable
    BY <1>1, <1>2, UpdateTyped DEF Inv, Boot, TypeOK
  <1>3. CASE Loaded # NoTable
    BY <1>1, <1>3 DEF Inv, Boot, TypeOK
  <1> QED BY <1>2, <1>3

LEMMA CrashTyped == ASSUME Inv, Crash PROVE TypeOK'
  <1>1. tbl' \in Tables
    BY DEF Crash, Tables
  <1>2. want' \in [Data -> [Pages -> [Offsets -> Val \cup {Blank, Unknown}]]]
    BY Blanks DEF Crash, Inv, TypeOK
  <1> QED BY <1>1, <1>2, Ranges, Blanks DEF Crash, Inv, TypeOK, NoReq

LEMMA ReadTyped == ASSUME Inv, NEW b \in Data, Read(b) PROVE TypeOK'
  BY RemappedTable, Ranges DEF Read, Inv, TypeOK

LEMMA EraseTyped == ASSUME Inv, NEW b \in Data, Erase(b) PROVE TypeOK'
  <1>1. tbl' \in Tables
    BY RemappedTable, Ranges DEF Erase, Inv, TypeOK
  <1>2. data' \in [Data \cup Reserve -> Content]
    BY Blanks DEF Erase, Inv, TypeOK
  <1>3. want' \in [Data -> [Pages -> [Offsets -> Val \cup {Blank, Unknown}]]]
    BY Blanks DEF Erase, Inv, TypeOK
  <1> QED BY <1>1, <1>2, <1>3 DEF Erase, Inv, TypeOK

LEMMA WriteTyped ==
    ASSUME Inv, NEW b \in Data, NEW p \in Pages, NEW o \in Offsets,
           NEW v \in Words, Write(b, p, o, v)
    PROVE  TypeOK'
  <1>1. tbl' \in Tables /\ to' \in Phys \cup {NoBlock}
    BY RemappedTable, FindRemapIsGood, Ranges DEF Write, Inv, TypeOK, Phys
  <1>2. want' \in [Data -> [Pages -> [Offsets -> Val \cup {Blank, Unknown}]]]
    BY Ranges DEF Write, Inv, TypeOK
  <1> QED BY <1>1, <1>2, Ranges DEF Write, Inv, TypeOK, Phys

LEMMA WriteDirectTyped == ASSUME Inv, WriteDirect PROVE TypeOK'
  <1>1. data' \in [Phys -> Content]
    BY DEF WriteDirect, Inv, TypeOK, CallOK, Phys, Content
  <1> QED BY <1>1, ReturnTyped DEF WriteDirect, Inv, TypeOK, Phys

LEMMA DirectFailsTyped == ASSUME Inv, DirectFails PROVE TypeOK'
  <1>1. to \in Phys
    BY DEF DirectFails, Inv, CallOK
  <1>2. data' \in [Phys -> Content]
    BY <1>1, Blanks DEF DirectFails, Inv, TypeOK, Phys, Content
  <1>3. buf' \in Content
    BY <1>1, <1>2, Ranges DEF DirectFails, Inv, TypeOK, Content
  <1>4. tbl' \in Tables
    BY <1>1, MarkedTable, Ranges DEF DirectFails, Inv, TypeOK
  <1> QED BY <1>2, <1>3, <1>4 DEF DirectFails, Inv, TypeOK, Phys

LEMMA RewriteTyped == ASSUME Inv, Rewrite PROVE TypeOK'
  <1>1. to \in Phys /\ req.block \in Data
    BY DEF Rewrite, Inv, CallOK
  <1>2. buf' \in Content
    BY <1>1 DEF Rewrite, Inv, TypeOK, Phys, Content
  <1> QED BY <1>1, <1>2, StartBlockTyped DEF Rewrite, Inv, TypeOK, Phys

LEMMA ProgramPageTyped == ASSUME Inv, ProgramPage PROVE TypeOK'
  <1> DEFINE p == Min(Unwritten)
  <1>1. p \in Pages /\ to \in Phys
    BY FirstUnwritten DEF ProgramPage, Inv, CallOK
  <1>2. data' = [data EXCEPT ![to][p] = buf[p]] /\ next' = p + 1
    BY DEF ProgramPage
  <1> HIDE DEF p
  <1>3. data' \in [Phys -> Content]
    BY <1>1, <1>2 DEF Inv, TypeOK, Phys, Content
  <1>4. next' \in 0 .. D + R + T + P
    BY <1>1, <1>2, Ranges DEF Pages
  <1> QED BY <1>3, <1>4 DEF ProgramPage, Inv, TypeOK, Phys

LEMMA ProgrammedTyped == ASSUME Inv, Programmed PROVE TypeOK'
  BY ReturnTyped DEF Programmed, Inv, TypeOK, Phys

LEMMA ProgramFailsTyped == ASSUME Inv, ProgramFails PROVE TypeOK'
  <1>1. to \in Phys
    BY DEF ProgramFails, Inv, CallOK
  <1>2. data' \in [Phys -> Content]
    BY <1>1, SpoilTyped DEF ProgramFails, Inv
  <1>3. tbl' \in Tables
    BY <1>1, MarkedTable, Ranges DEF ProgramFails, Inv, TypeOK
  <1> QED BY <1>2, <1>3 DEF ProgramFails, Inv, TypeOK, Phys

LEMMA TagTyped == ASSUME Inv, Tag PROVE TypeOK'
  <1>1. to \in Phys
    BY DEF Tag, Inv, CallOK
  <1>2. data' \in [Phys -> Content] /\ tag' \subseteq Block
    BY <1>1, Blanks, Ranges DEF Tag, Inv, TypeOK, Phys
  <1> QED BY <1>2, Ranges DEF Tag, Inv, TypeOK, Phys

LEMMA RetryTyped == ASSUME Inv, Retry PROVE TypeOK'
  <1>1. req.block \in Data /\ FindRemap(tbl, req.block) # NoBlock
    BY DEF Retry, Inv, CallOK
  <1>2. tbl' \in Tables /\ to' \in Phys
    BY <1>1, RemappedTable, FindRemapIsGood, Ranges DEF Retry, Inv, TypeOK, Phys
  <1> QED BY <1>1, <1>2, StartBlockTyped DEF Retry, Inv, TypeOK, Phys

LEMMA NoReserveTyped == ASSUME Inv, NoReserve PROVE TypeOK'
  BY UpdateTyped, Blanks DEF NoReserve, Inv, TypeOK

LEMMA ReprogrammedTyped == ASSUME Inv, Reprogrammed PROVE TypeOK'
  BY UpdateTyped DEF Reprogrammed, Inv, TypeOK

LEMMA ReprogramFailsTyped == ASSUME Inv, ReprogramFails PROVE TypeOK'
  <1>1. to \in Phys
    BY DEF ReprogramFails, Inv, CallOK
  <1>2. data' \in [Phys -> Content]
    BY <1>1, SpoilTyped DEF ReprogramFails, Inv
  <1>3. CASE count + 1 < FTL_MAX_RETRY
    BY <1>2, <1>3, Ranges DEF ReprogramFails, Inv, TypeOK, Phys
  <1>4. CASE ~(count + 1 < FTL_MAX_RETRY)
    BY <1>2, <1>4, UpdateTyped, Blanks DEF ReprogramFails, Inv, TypeOK, Phys
  <1> QED BY <1>3, <1>4

LEMMA EraseCopyTyped == ASSUME Inv, EraseCopy PROVE TypeOK'
  BY DEF EraseCopy, Inv, TypeOK

LEMMA WriteCopyTyped == ASSUME Inv, WriteCopy PROVE TypeOK'
  <1> DEFINE c == Min(Usable)
  <1>1. c \in TableBlock
    BY FirstUsable DEF WriteCopy, Updating
  <1>2. copies' = [copies EXCEPT ![c] = tbl] /\ next' = c + 1 /\ count' = count + 1 /\ count < 2
    BY DEF WriteCopy, Updating
  <1> HIDE DEF c
  <1>3. next' \in 0 .. D + R + T + P /\ count' \in 0 .. FTL_MAX_RETRY + 2
    BY <1>1, <1>2, Ranges DEF TableBlock, Inv, TypeOK
  <1> QED BY <1>1, <1>2, <1>3 DEF WriteCopy, Inv, TypeOK

LEMMA CopyFailsTyped == ASSUME Inv, CopyFails PROVE TypeOK'
  <1> DEFINE c == Min(Usable)
  <1>1. c \in TableBlock
    BY FirstUsable DEF CopyFails, Updating
  <1>2. /\ copies' \in {copies, [copies EXCEPT ![c] = NoTable]}
        /\ MarkBad(c) /\ next' = c + 1 /\ tag' \in {tag, tag \cup {c}, tag \ {c}}
    BY DEF CopyFails
  <1> HIDE DEF c
  <1>3. tbl' \in Tables
    BY <1>1, <1>2, MarkedTable, Ranges DEF Inv, TypeOK
  <1>4. next' \in 0 .. D + R + T + P
    BY <1>1, <1>2, Ranges DEF TableBlock
  <1> QED BY <1>1, <1>2, <1>3, <1>4, Ranges DEF CopyFails, Inv, TypeOK

LEMMA UpdatedTyped == ASSUME Inv, Updated PROVE TypeOK'
  BY ReturnTyped DEF Updated, Inv, TypeOK, Phys

-----------------------------------------------------------------------------
(* The steps preserve the invariant. *)

LEMMA NextTyped == ASSUME Inv, Next PROVE TypeOK'
  BY BootTyped, CrashTyped, ReadTyped, EraseTyped, WriteTyped, WriteDirectTyped,
     DirectFailsTyped, RewriteTyped, ProgramPageTyped, ProgrammedTyped,
     ProgramFailsTyped, TagTyped, RetryTyped, NoReserveTyped, ReprogrammedTyped,
     ReprogramFailsTyped, EraseCopyTyped, WriteCopyTyped, CopyFailsTyped,
     UpdatedTyped DEF Next

LEMMA TablesStayApart ==
    ASSUME NoSharedReserve, NoSharedIn(tbl)',
           \A c \in TableBlock : copies'[c] \in {copies[c], tbl, NoTable}
    PROVE  NoSharedReserve'
  <1>1. NoSharedIn(tbl) /\ \A c \in TableBlock : copies[c] # NoTable => NoSharedIn(copies[c])
    BY NoSharedReserveIn
  <1>2. \A c \in TableBlock : copies'[c] # NoTable => NoSharedIn(copies'[c])
    BY <1>1
  <1> QED BY <1>2 DEF NoSharedReserve, NoSharedIn

\* Only the restarts, the searches and the marks change the table in RAM, and only
\* bbm_update_table its copies.
LEMMA NextNoShared == ASSUME Inv, Next PROVE NoSharedReserve'
  <1>1. /\ tbl \in Tables /\ NoSharedIn(tbl) /\ NoSharedReserve
        /\ copies \in [TableBlock -> Tables \cup {NoTable}]
    BY NoSharedReserveIn DEF Inv, TypeOK
  <1>2. ASSUME UNCHANGED <<tbl, copies>> PROVE NoSharedReserve'
    BY <1>1, <1>2 DEF NoSharedReserve
  <1>3. ASSUME NoSharedIn(tbl)', copies' = copies PROVE NoSharedReserve'
    BY <1>1, <1>3, TablesStayApart
  <1>4. ASSUME NEW b \in Data, tbl' = Remapped(tbl, b) PROVE NoSharedIn(tbl)'
    BY <1>1, <1>4, RemappedTable, Ranges DEF NoSharedIn
  <1>5. ASSUME NEW b \in Block, MarkBad(b) PROVE NoSharedIn(tbl)'
    BY <1>1, <1>5, MarkedTable DEF NoSharedIn
  <1>6. CASE Boot
    BY <1>1, <1>3, <1>6, SavedTable DEF Inv, Boot, NoSharedIn
  <1>7. CASE Crash
    BY <1>3, <1>7, Ranges DEF Crash, NoSharedIn
  <1>8. ASSUME NEW b \in Data, Read(b) PROVE NoSharedReserve'
    BY <1>3, <1>4, <1>8 DEF Read
  <1>9. ASSUME NEW b \in Data, Erase(b) PROVE NoSharedReserve'
    BY <1>2, <1>3, <1>4, <1>9 DEF Erase
  <1>10. ASSUME NEW b \in Data, NEW p \in Pages, NEW o \in Offsets,
                NEW v \in Words, Write(b, p, o, v)
         PROVE  NoSharedReserve'
    BY <1>2, <1>3, <1>4, <1>10 DEF Write
  <1>11. CASE WriteDirect \/ Rewrite \/ ProgramPage \/ Programmed \/ Tag \/ NoReserve
              \/ Reprogrammed \/ ReprogramFails \/ Updated
    BY <1>2, <1>11 DEF WriteDirect, Rewrite, ProgramPage, Programmed, Tag, NoReserve,
       Reprogrammed, ReprogramFails, Updated
  <1>12. CASE DirectFails \/ ProgramFails
    <2>1. to \in Block
      BY <1>12, Ranges DEF DirectFails, ProgramFails, Inv, CallOK
    <2> QED BY <1>3, <1>5, <1>12, <2>1 DEF DirectFails, ProgramFails
  <1>13. CASE Retry
    <2>1. req.block \in Data /\ tbl' = Remapped(tbl, req.block) /\ copies' = copies
      BY <1>13 DEF Retry, Inv, CallOK
    <2> QED BY <1>3, <1>4, <2>1
  <1>14. CASE EraseCopy \/ WriteCopy
    <2>1. \A c \in TableBlock : copies'[c] \in {copies[c], tbl, NoTable}
      BY <1>1, <1>14 DEF EraseCopy, WriteCopy
    <2>2. NoSharedIn(tbl)'
      BY <1>1, <1>14 DEF EraseCopy, WriteCopy, NoSharedIn
    <2> QED BY <1>1, <2>1, <2>2, TablesStayApart
  <1>15. CASE CopyFails
    <2>1. Min(Usable) \in Block
      BY <1>15, FirstUsable, Ranges DEF CopyFails, Updating
    <2>2. NoSharedIn(tbl)'
      BY <1>5, <1>15, <2>1 DEF CopyFails
    <2>3. \A c \in TableBlock : copies'[c] \in {copies[c], tbl, NoTable}
      BY <1>1, <1>15 DEF CopyFails
    <2> QED BY <1>1, <2>2, <2>3, TablesStayApart
  <1> QED BY <1>6, <1>7, <1>8, <1>9, <1>10, <1>11, <1>12, <1>13, <1>14, <1>15
          DEF Inv, Next

\* A call takes a good block, and a block is marked when the call leaves it.
LEMMA NextCall == ASSUME Inv, Next PROVE CallOK' /\ WritesGoodBlocks'
  <1>1. CASE Boot \/ Crash \/ WriteDirect \/ Programmed \/ NoReserve \/ Reprogrammed
             \/ EraseCopy \/ WriteCopy \/ CopyFails \/ Updated
    BY <1>1 DEF Boot, Crash, WriteDirect, Programmed, NoReserve, Reprogrammed, EraseCopy,
       WriteCopy, CopyFails, Updated, Updating, Return, StartUpdate, CallOK, WritesGoodBlocks
  <1>2. ASSUME NEW b \in Data, Read(b) \/ Erase(b) PROVE CallOK' /\ WritesGoodBlocks'
    BY <1>2 DEF Read, Erase, CallOK, WritesGoodBlocks
  <1>3. ASSUME NEW b \in Data, NEW p \in Pages, NEW o \in Offsets,
               NEW v \in Words, Write(b, p, o, v)
        PROVE  CallOK' /\ WritesGoodBlocks'
    <2>1. req'.block = b /\ tbl \in Tables /\ b \in Block
      BY <1>3, Ranges DEF Write, Inv, TypeOK
    <2>2. CASE ~IsBad(tbl, b)
      BY <1>3, <2>1, <2>2 DEF Write, CallOK, WritesGoodBlocks, IsBad, Phys
    <2>3. CASE IsBad(tbl, b) /\ FindRemap(tbl, b) = NoBlock
      BY <1>3, <2>1, <2>3, RemappedStaysBad DEF Write, CallOK, WritesGoodBlocks, IsBad
    <2>4. CASE IsBad(tbl, b) /\ FindRemap(tbl, b) # NoBlock
      <3>1. FindRemap(tbl, b) \in Phys /\ ~IsBad(Remapped(tbl, b), FindRemap(tbl, b))
        BY <2>1, <2>4, FindRemapIsGood, RemappedIsGood DEF Phys
      <3>2. IsBad(Remapped(tbl, b), b)
        BY <2>1, <2>4, RemappedStaysBad
      <3>3. /\ tbl' = Remapped(tbl, b) /\ to' = FindRemap(tbl, b) /\ pc' = "write"
        BY <1>3, <2>4 DEF Write
      <3> QED BY <2>1, <3>1, <3>2, <3>3 DEF CallOK, WritesGoodBlocks, IsBad
    <2> QED BY <2>2, <2>3, <2>4
  <1>4. CASE Rewrite \/ ProgramPage \/ DirectFails \/ ProgramFails \/ Tag
    <2>1. CASE Rewrite \/ ProgramPage \/ Tag
      BY <2>1 DEF Rewrite, ProgramPage, Tag, Inv, CallOK, WritesGoodBlocks, IsBad
    <2>2. CASE DirectFails \/ ProgramFails
      <3>1. /\ to \in Block /\ req.block \in Block /\ tbl \in Tables /\ MarkBad(to)
            /\ to = req.block \/ IsBad(tbl, req.block)
        BY <2>2, Ranges DEF DirectFails, ProgramFails, Inv, CallOK, TypeOK
      <3>2. IsBad(tbl', req.block)
        BY <3>1, Ranges DEF MarkBad, IsBad, Tables
      <3> QED BY <2>2, <3>2 DEF DirectFails, ProgramFails, Inv, CallOK, WritesGoodBlocks, IsBad
    <2> QED BY <1>4, <2>1, <2>2
  <1>5. CASE ReprogramFails
    BY <1>5 DEF ReprogramFails, StartUpdate, Inv, CallOK, WritesGoodBlocks
  <1>6. CASE Retry
    <2> DEFINE b == req.block
    <2>1. /\ b \in Data /\ b \in Block /\ FindRemap(tbl, b) # NoBlock /\ tbl \in Tables
          /\ to' = FindRemap(tbl, b) /\ tbl' = Remapped(tbl, b) /\ req' = req
          /\ pc' = "reprogram" /\ pc = "retry"
      BY <1>6, Ranges DEF Retry, Inv, CallOK, TypeOK
    <2>2. IsBad(tbl, b)
      BY <2>1 DEF Inv, CallOK
    <2>3. IsBad(tbl', b)
      BY <2>1, <2>2, RemappedStaysBad
    <2>4. to' \in Phys /\ ~IsBad(tbl', to')
      BY <2>1, <2>2, FindRemapIsGood, RemappedIsGood DEF Phys
    <2> QED BY <2>1, <2>3, <2>4 DEF CallOK, WritesGoodBlocks, IsBad
  <1> QED BY <1>1, <1>2, <1>3, <1>4, <1>5, <1>6 DEF Next

LEMMA StutterInv == ASSUME Inv, UNCHANGED vars PROVE Inv'
  BY DEF Inv, TypeOK, CallOK, NoSharedReserve, WritesGoodBlocks, IsBad, vars

LEMMA InvNext == ASSUME Inv, [Next]_vars PROVE Inv'
  BY NextTyped, NextNoShared, NextCall, StutterInv DEF Inv

\* The invariant of a call and of the tables holds in every state.
THEOREM InvCorrect == Spec => []Inv
  BY InitInv, InvNext, PTL DEF Spec

\* Every state the bad-block management reaches has the stated types: among others
\* no access of a call leaves the data and reserve blocks.
THEOREM TypeCorrect == Spec => []TypeOK
  BY InvCorrect, PTL DEF Inv

\* bbm_find_free_block gives a reserve block to one bad block only, in RAM and in
\* every saved table, for any geometry, failures and power losses.
THEOREM NoSharedReserveCorrect == Spec => []NoSharedReserve
  BY InvCorrect, PTL DEF Inv

\* bbm_nand_write never works on a block that the table calls bad.
THEOREM WritesGoodBlocksCorrect == Spec => []WritesGoodBlocks
  BY InvCorrect, PTL DEF Inv
-----------------------------------------------------------------------------
(* The tables: what is in RAM, in the copies and in the marks *)

Has(c) == copies[c] # NoTable

\* The bad blocks among the data and reserve blocks are the same in the table t as
\* in the one in RAM.
AsInRam(t) == \A b \in Phys : IsBad(t, b) <=> IsBad(tbl, b)

\* The first block without a mark.
First(u) == u \in TableBlock \ tag /\ \A c \in TableBlock \ tag : u <= c

\* A table block that the table in RAM calls bad has its mark.
BadMarked == pc # "off" => \A c \in TableBlock : IsBad(tbl, c) => c \in tag

\* A reserve block has its mark from when it is bad in RAM, but for the step between.
ReserveMarked ==
    /\ pc # "off" => \A r \in Reserve : IsBad(tbl, r) => r \in tag \/ (pc = "tag" /\ to = r)
    /\ \A c \in TableBlock \ tag, r \in Reserve : Has(c) /\ IsBad(copies[c], r) => r \in tag

\* A copy is written to a block that it calls good, and it knows of no mark that
\* the later blocks do not have.
CopyGood ==
    \A c \in TableBlock : Has(c) =>
        /\ ~IsBad(copies[c], c)
        /\ c \notin tag => \A x \in TableBlock \ tag : c < x => ~IsBad(copies[c], x)

\* What bbm_update_table has written, in the blocks before the next one.
Written ==
    pc = "update" =>
        \A c \in TableBlock : c < next /\ ~IsBad(tbl, c) =>
            /\ Has(c) /\ AsInRam(copies[c])
            /\ \A x \in TableBlock : IsBad(copies[c], x) => IsBad(tbl, x)

\* Of two copies that may be loaded, the later one knows no more of the reserve;
\* and none knows more than the table in RAM.
CopiesAge ==
    /\ \A c, d \in TableBlock \ tag, r \in Reserve :
          c < d /\ Has(c) /\ Has(d) /\ IsBad(copies[d], r) => IsBad(copies[c], r)
    /\ pc # "off" =>
          \A c \in TableBlock \ tag, r \in Reserve :
              Has(c) /\ IsBad(copies[c], r) => IsBad(tbl, r)

TablesInv == BadMarked /\ ReserveMarked /\ CopyGood /\ Written /\ CopiesAge

\* The three parts of the flash
LEMMA Apart ==
    /\ Phys \cap TableBlock = {} /\ Data \cap Reserve = {} /\ Phys \cup TableBlock = Block
    /\ TableBlock \in SUBSET Nat /\ \A c \in TableBlock : D + R <= c
  BY NandAssumption DEF Phys, Data, Reserve, TableBlock, Block

\* A search changes no block from bad to good or back.
LEMMA RemappedBad ==
    ASSUME NEW t \in Tables, NEW b \in Block, IsBad(t, b)
    PROVE  \A c \in Block : IsBad(Remapped(t, b), c) <=> IsBad(t, c)
  BY RemappedTable, RemappedStaysBad DEF IsBad

LEMMA WhereIsGood ==
    ASSUME NEW t \in Tables, NEW b \in Data
    PROVE  Where(t, b) \in Data \/ (Where(t, b) \in Reserve /\ ~IsBad(t, Where(t, b)))
  BY FindRemapIsGood, Ranges DEF Where

LEMMA MarkBadMarks ==
    ASSUME NEW b \in Block, tbl \in Tables, MarkBad(b)
    PROVE  \A c \in Block : IsBad(tbl', c) <=> IsBad(tbl, c) \/ c = b
  BY Ranges DEF MarkBad, IsBad, Tables

\* The blocks that are bad, and the marks of the table blocks, stay as they are.
LEMMA TablesKept ==
    ASSUME Inv, TablesInv, copies' = copies, pc \notin {"off", "tag"}, pc' \notin {"off", "tag"},
           \A b \in Block : IsBad(tbl', b) <=> IsBad(tbl, b),
           \A c \in TableBlock : c \in tag' <=> c \in tag,
           \A r \in Reserve : IsBad(tbl, r) /\ r \in tag => r \in tag',
           pc' = "update" => next' = D + R
    PROVE  TablesInv'
  <1> USE DEF TablesInv
  <1>1. BadMarked'
    BY Ranges DEF BadMarked
  <1>2. \A r \in Reserve : IsBad(tbl, r) => r \in tag'
    BY DEF ReserveMarked
  <1>3. CopiesAge'
    BY Ranges DEF CopiesAge, Has
  <1>4. ReserveMarked'
    BY <1>2, Ranges DEF ReserveMarked, CopiesAge, Has
  <1>5. CopyGood'
    BY DEF CopyGood, Has
  <1>6. Written'
    BY Apart, Ranges DEF Written
  <1> QED BY <1>1, <1>3, <1>4, <1>5, <1>6

LEMMA StartBlockMarks ==
    ASSUME NEW b \in Phys, NEW content, StartBlock(b, content)
    PROVE  /\ \A c \in TableBlock : c \in tag' <=> c \in tag
           /\ \A r \in Reserve : r # b /\ r \in tag => r \in tag'
  BY Apart DEF StartBlock

LEMMA CallTables ==
    ASSUME Inv, TablesInv,
           \/ WriteDirect \/ Rewrite \/ ProgramPage \/ Programmed \/ Retry \/ NoReserve
           \/ Reprogrammed \/ ReprogramFails \/ Updated
    PROVE  TablesInv'
  <1>1. CASE WriteDirect \/ ProgramPage \/ Programmed \/ NoReserve \/ Reprogrammed
             \/ ReprogramFails \/ Updated
    <2>1. UNCHANGED <<tag, copies, tbl>> /\ pc \notin {"off", "tag"} /\ pc' \notin {"off", "tag"}
          /\ (pc' = "update" => next' = D + R)
      BY <1>1 DEF WriteDirect, ProgramPage, Programmed, NoReserve, Reprogrammed, ReprogramFails,
         Updated, Return, StartUpdate
    <2> QED BY <2>1, TablesKept
  <1>2. CASE Rewrite
    <2>1. /\ UNCHANGED <<copies, tbl>> /\ pc = "write" /\ pc' = "program" /\ StartBlock(to, buf')
          /\ to \in Phys /\ ~IsBad(tbl, to)
      BY <1>2 DEF Rewrite, Inv, CallOK, WritesGoodBlocks
    <2> QED BY <2>1, StartBlockMarks, TablesKept
  <1>3. CASE Retry
    <2> DEFINE b == req.block
    <2>1. /\ copies' = copies /\ pc = "retry" /\ pc' = "reprogram" /\ StartBlock(to', buf)
          /\ tbl' = Remapped(tbl, b) /\ to' = FindRemap(tbl, b) /\ FindRemap(tbl, b) # NoBlock
      BY <1>3 DEF Retry
    <2>2. b \in Block /\ IsBad(tbl, b) /\ tbl \in Tables
      BY <2>1, Ranges DEF Inv, CallOK, TypeOK
    <2>3. to' \in Phys /\ ~IsBad(tbl, to')
      BY <2>1, <2>2, FindRemapIsGood DEF Phys
    <2>4. \A c \in Block : IsBad(tbl', c) <=> IsBad(tbl, c)
      BY <2>1, <2>2, RemappedBad
    <2> QED BY <2>1, <2>3, <2>4, StartBlockMarks, TablesKept
  <1> QED BY <1>1, <1>2, <1>3

LEMMA ServeTables ==
    ASSUME Inv, TablesInv, NEW b \in Data,
           \/ Read(b) \/ Erase(b)
           \/ \E p \in Pages, o \in Offsets, v \in Words : Write(b, p, o, v)
    PROVE  TablesInv'
  <1>1. tbl \in Tables /\ b \in Block
    BY Ranges DEF Inv, TypeOK
  <1>2. copies' = copies /\ pc = "idle" /\ pc' \in {"idle", "write", "retry"}
    BY DEF Read, Erase, Write
  <1>3. \A c \in Block : IsBad(tbl', c) <=> IsBad(tbl, c)
    <2>1. tbl' = tbl \/ (IsBad(tbl, b) /\ tbl' = Remapped(tbl, b))
      BY DEF Read, Erase, Write
    <2> QED BY <1>1, <2>1, RemappedBad
  <1>4. /\ \A c \in TableBlock : c \in tag' <=> c \in tag
        /\ \A r \in Reserve : IsBad(tbl, r) /\ r \in tag => r \in tag'
    <2>1. tag' \in {tag, tag \ {Where(tbl, b)}}
      BY DEF Read, Erase, Write
    <2>2. Where(tbl, b) \in Data \/ (Where(tbl, b) \in Reserve /\ ~IsBad(tbl, Where(tbl, b)))
      BY <1>1, WhereIsGood
    <2> QED BY <2>1, <2>2, Apart DEF Phys
  <1> QED BY <1>2, <1>3, <1>4, TablesKept

LEMMA FailTables ==
    ASSUME Inv, TablesInv, DirectFails \/ ProgramFails PROVE TablesInv'
  <1> USE DEF TablesInv
  <1>1. /\ to \in Phys /\ to \in Block /\ tbl \in Tables /\ MarkBad(to) /\ pc' = "tag" /\ to' = to
        /\ UNCHANGED <<tag, copies>> /\ pc \notin {"off", "tag"}
    BY Ranges DEF DirectFails, ProgramFails, Inv, CallOK, TypeOK
  <1>2. \A c \in Block : IsBad(tbl', c) <=> IsBad(tbl, c) \/ c = to
    BY <1>1, MarkBadMarks
  <1>3. BadMarked'
    BY <1>1, <1>2, Apart, Ranges DEF BadMarked
  <1>4. ReserveMarked'
    BY <1>1, <1>2, Ranges DEF ReserveMarked, Has
  <1>5. CopyGood' /\ Written' /\ CopiesAge'
    BY <1>1, <1>2, Ranges DEF CopyGood, Written, CopiesAge, Has
  <1> QED BY <1>3, <1>4, <1>5

LEMMA TagTables ==
    ASSUME Inv, TablesInv, Tag, TagFails = FALSE PROVE TablesInv'
  <1> USE DEF TablesInv
  <1>1. /\ to \in Phys /\ pc = "tag" /\ pc' = "retry" /\ tag' = tag \cup {to}
        /\ UNCHANGED <<copies, tbl>>
    BY DEF Tag, Inv, CallOK
  <1>2. BadMarked' /\ ReserveMarked'
    BY <1>1 DEF BadMarked, ReserveMarked, Has
  <1>3. CopyGood' /\ Written' /\ CopiesAge'
    BY <1>1, Apart DEF CopyGood, Written, CopiesAge, Has
  <1> QED BY <1>2, <1>3

\* A boot reads the copy in the first table block without a mark.
LEMMA SavedIs ==
    /\ Loaded = NoTable => Saved = NewTable
    /\ Loaded # NoTable => \E u \in TableBlock : First(u) /\ Has(u) /\ Saved = copies[u]
    /\ \A u \in TableBlock : First(u) => Loaded = copies[u]
  <1>1. ASSUME NEW u \in TableBlock, First(u) PROVE Min(TableBlock \ tag) = u /\ Loaded = copies[u]
    <2>1. TableBlock \ tag \in SUBSET Nat /\ u \in TableBlock \ tag
      BY <1>1, Apart DEF First
    <2>2. Min(TableBlock \ tag) \in TableBlock \ tag /\ \A x \in TableBlock \ tag : Min(TableBlock \ tag) <= x
      BY <2>1, MinIsLeast
    <2>3. Min(TableBlock \ tag) = u
      BY <1>1, <2>1, <2>2 DEF First
    <2> QED BY <2>1, <2>3 DEF Loaded
  <1>2. ASSUME Loaded # NoTable PROVE \E u \in TableBlock : First(u) /\ Has(u) /\ Saved = copies[u]
    <2> DEFINE u == Min(TableBlock \ tag)
    <2>1. TableBlock \ tag \in SUBSET Nat /\ TableBlock \ tag # {}
      BY <1>2, Apart DEF Loaded
    <2>2. u \in TableBlock \ tag /\ \A x \in TableBlock \ tag : u <= x
      BY <2>1, MinIsLeast
    <2>3. Loaded = copies[u]
      BY <2>2 DEF Loaded
    <2>4. First(u) /\ Has(u) /\ Saved = copies[u]
      BY <1>2, <2>2, <2>3 DEF First, Has, Saved
    <2> QED BY <2>2, <2>4
  <1>3. Loaded = NoTable => Saved = NewTable
    BY DEF Saved
  <1> QED BY <1>1, <1>2, <1>3

LEMMA BootTables ==
    ASSUME Inv, TablesInv, Boot PROVE TablesInv'
  <1> USE DEF TablesInv
  <1>1. /\ pc = "off" /\ tbl' = Saved /\ UNCHANGED <<tag, copies>> /\ pc' \in {"update", "idle"}
        /\ (pc' = "update" => next' = D + R)
    BY DEF Boot, StartUpdate
  <1>2. CopyGood' /\ Written'
    <2>1. CopyGood'
      BY <1>1 DEF CopyGood, Has
    <2>2. \A c \in TableBlock : ~(c < D + R)
      BY Apart, Ranges
    <2> QED BY <1>1, <2>1, <2>2 DEF Written
  <1>3. CASE Saved = NewTable
    <2>1. \A b \in Block : IsBad(tbl', b) <=> b \in tag
      BY <1>1, <1>3, Ranges DEF IsBad, NewTable
    <2>2. BadMarked' /\ ReserveMarked' /\ CopiesAge'
      BY <1>1, <2>1, Ranges DEF BadMarked, ReserveMarked, CopiesAge, Has
    <2> QED BY <1>2, <2>2
  <1>4. ASSUME NEW u \in TableBlock, First(u), Has(u), Saved = copies[u]
        PROVE  TablesInv'
    <2>1. u \in TableBlock \ tag /\ \A c \in TableBlock \ tag : u = c \/ u < c
      BY <1>4, Apart DEF First
    <2>2. BadMarked'
      <3>1. ASSUME NEW c \in TableBlock, IsBad(copies[u], c) PROVE c \in tag
        BY <1>4, <2>1, <3>1 DEF CopyGood
      <3> QED BY <1>1, <1>4, <3>1 DEF BadMarked
    <2>3. ReserveMarked'
      BY <1>1, <1>4, <2>1 DEF ReserveMarked, Has
    <2>4. CopiesAge'
      BY <1>1, <1>4, <2>1 DEF CopiesAge, Has
    <2> QED BY <1>2, <2>2, <2>3, <2>4
  <1> QED BY <1>3, <1>4, SavedIs

LEMMA CrashTables ==
    ASSUME TablesInv, Crash PROVE TablesInv'
  BY DEF Crash, TablesInv, BadMarked, ReserveMarked, CopyGood, Written, CopiesAge, Has

\* The block that bbm_update_table comes to next.
LEMMA NextCopy ==
    ASSUME Inv, Updating
    PROVE  /\ Min(Usable) \in TableBlock /\ ~IsBad(tbl, Min(Usable)) /\ next <= Min(Usable)
           /\ \A c \in TableBlock : c < Min(Usable) /\ ~IsBad(tbl, c) => c < next
  <1>1. Usable \in SUBSET Nat /\ Usable # {}
    BY Ranges DEF Usable, Updating
  <1>2. Min(Usable) \in Usable /\ \A c \in Usable : Min(Usable) <= c
    BY <1>1, MinIsLeast
  <1> DEFINE m == Min(Usable)
  <1>3. m \in TableBlock /\ ~IsBad(tbl, m) /\ next <= m
    BY <1>2 DEF Usable
  <1>5. \A c \in Usable : m <= c
    BY <1>2
  <1> HIDE DEF m
  <1>4. ASSUME NEW c \in TableBlock, c < m, ~IsBad(tbl, c) PROVE c < next
    <2>1. c \notin Usable
      BY <1>3, <1>4, <1>5, Apart
    <2>2. c \in Nat /\ next \in Int
      BY Apart DEF Inv, TypeOK
    <2> QED BY <1>4, <2>1, <2>2 DEF Usable
  <1> QED BY <1>3, <1>4 DEF m

LEMMA NoTableIsNone == \A t \in Tables : t # NoTable
  <1>1. SUFFICES ASSUME NEW t \in Tables, t = NoTable PROVE FALSE
    OBVIOUS
  <1>2. DOMAIN t = Block /\ 0 \in Block
    BY Ranges DEF Tables
  <1>3. DOMAIN NoTable = {}
    BY DEF NoTable
  <1> QED BY <1>1, <1>2, <1>3

LEMMA EraseCopyTables ==
    ASSUME Inv, TablesInv, EraseCopy PROVE TablesInv'
  <1> USE DEF TablesInv
  <1> DEFINE m == Min(Usable)
  <1>1. /\ m \in TableBlock /\ ~IsBad(tbl, m) /\ next <= m
        /\ \A c \in TableBlock : c < m /\ ~IsBad(tbl, c) => c < next
    BY NextCopy DEF EraseCopy
  <1>2. /\ pc = "update" /\ UNCHANGED <<pc, tbl, next, to>> /\ tag' = tag \ {m}
        /\ copies' = [copies EXCEPT ![m] = NoTable]
    BY DEF EraseCopy, Updating
  <1> HIDE DEF m
  <1>3. \A c \in TableBlock : Has(c)' => c # m /\ Has(c) /\ copies'[c] = copies[c]
    BY <1>1, <1>2 DEF Has, Inv, TypeOK
  <1>4. BadMarked' /\ ReserveMarked'
    <2>1. BadMarked'
      BY <1>1, <1>2 DEF BadMarked
    <2>2. m \notin Reserve
      BY <1>1, Apart DEF Phys
    <2> QED BY <1>2, <1>3, <2>1, <2>2 DEF ReserveMarked
  <1>5. CopyGood'
    <2>1. ASSUME NEW c \in TableBlock, Has(c)', c \notin tag', NEW x \in TableBlock \ tag', c < x
          PROVE  ~IsBad(copies'[c], x)
      <3>1. c # m /\ c \notin tag /\ Has(c) /\ copies'[c] = copies[c]
        BY <1>2, <1>3, <2>1
      <3>2. CASE x # m
        BY <1>2, <2>1, <3>1, <3>2 DEF CopyGood
      <3>3. CASE x = m
        <4>1. ~IsBad(tbl, c)
          BY <1>2, <3>1 DEF BadMarked
        <4> QED BY <1>1, <1>2, <2>1, <3>1, <3>3, <4>1 DEF Written
      <3> QED BY <3>2, <3>3
    <2>2. \A c \in TableBlock : Has(c)' => ~IsBad(copies'[c], c)
      BY <1>3 DEF CopyGood
    <2> QED BY <2>1, <2>2 DEF CopyGood
  <1>6. Written'
    <2>1. \A c \in TableBlock : c < next => c # m
      BY <1>1, Apart DEF Inv, TypeOK
    <2>2. \A c \in TableBlock : c # m => copies'[c] = copies[c]
      BY <1>1, <1>2 DEF Inv, TypeOK
    <2> QED BY <1>2, <2>1, <2>2 DEF Written, Has, AsInRam
  <1>7. CopiesAge'
    BY <1>2, <1>3 DEF CopiesAge
  <1> QED BY <1>4, <1>5, <1>6, <1>7

LEMMA WriteCopyTables ==
    ASSUME Inv, TablesInv, WriteCopy PROVE TablesInv'
  <1> USE DEF TablesInv
  <1> DEFINE m == Min(Usable)
  <1>1. /\ m \in TableBlock /\ ~IsBad(tbl, m) /\ next <= m
        /\ \A c \in TableBlock : c < m /\ ~IsBad(tbl, c) => c < next
    BY NextCopy DEF WriteCopy
  <1>2. /\ pc = "update" /\ UNCHANGED <<pc, tbl, tag, to>> /\ next' = m + 1
        /\ copies' = [copies EXCEPT ![m] = tbl]
    BY DEF WriteCopy, Updating
  <1> HIDE DEF m
  <1>3. /\ copies'[m] = tbl
        /\ \A c \in TableBlock : c # m => copies'[c] = copies[c] /\ (Has(c)' <=> Has(c))
    BY <1>1, <1>2 DEF Inv, TypeOK, Has
  <1>4. \A r \in Reserve : IsBad(tbl, r) => r \in tag
    BY <1>2 DEF ReserveMarked
  <1>5. BadMarked' /\ ReserveMarked'
    BY <1>2, <1>3, <1>4 DEF BadMarked, ReserveMarked
  <1>6. CopyGood'
    BY <1>1, <1>2, <1>3 DEF CopyGood, BadMarked
  <1>7. ASSUME NEW c \in TableBlock, c < m, ~IsBad(tbl, c)
        PROVE  /\ Has(c) /\ AsInRam(copies[c]) /\ c # m
               /\ \A x \in TableBlock : IsBad(copies[c], x) => IsBad(tbl, x)
    BY <1>1, <1>2, <1>7, Apart DEF Written
  <1>8. Written'
    <2>1. \A c \in TableBlock : c < m + 1 => c < m \/ c = m
      BY <1>1, Apart
    <2>2. copies'[m] # NoTable
      BY <1>3, NoTableIsNone DEF Inv, TypeOK
    <2>3. ASSUME NEW c \in TableBlock, c < next', ~IsBad(tbl', c)
          PROVE  /\ Has(c)' /\ AsInRam(copies[c])'
                 /\ \A x \in TableBlock : IsBad(copies'[c], x) => IsBad(tbl', x)
      <3>1. CASE c = m
        <4>1. copies'[c] = tbl /\ tbl' = tbl /\ Has(c)'
          BY <1>2, <1>3, <2>2, <3>1 DEF Has
        <4> QED BY <4>1 DEF AsInRam
      <3>2. CASE c < m
        BY <1>2, <1>3, <1>7, <2>3, <3>2 DEF AsInRam
      <3> QED BY <1>2, <2>1, <2>3, <3>1, <3>2
    <2> QED BY <2>3 DEF Written
  <1>9. CopiesAge'
    <2>1. \A c \in TableBlock \ tag, r \in Reserve : Has(c)' /\ IsBad(copies'[c], r) => IsBad(tbl, r)
      BY <1>2, <1>3 DEF CopiesAge
    <2>2. ASSUME NEW c \in TableBlock \ tag, NEW d \in TableBlock \ tag, NEW r \in Reserve,
                 c < d, Has(c)', Has(d)', IsBad(copies'[d], r)
          PROVE  IsBad(copies'[c], r)
      <3>1. c # d
        BY <2>2, Apart
      <3>2. CASE c = m
        BY <1>3, <2>1, <2>2, <3>2
      <3>3. CASE d = m
        <4>1. ~IsBad(tbl, c)
          BY <1>2 DEF BadMarked
        <4>2. AsInRam(copies[c])
          BY <1>7, <2>2, <3>3, <4>1
        <4> QED BY <1>3, <2>2, <3>1, <3>3, <4>2 DEF AsInRam, Phys
      <3>4. CASE c # m /\ d # m
        BY <1>3, <2>2, <3>4 DEF CopiesAge
      <3> QED BY <3>2, <3>3, <3>4
    <2> QED BY <1>2, <2>1, <2>2 DEF CopiesAge
  <1> QED BY <1>5, <1>6, <1>8, <1>9

LEMMA CopyFailsTables ==
    ASSUME Inv, TablesInv, CopyFails, TagFails = FALSE PROVE TablesInv'
  <1> USE DEF TablesInv
  <1> DEFINE m == Min(Usable)
  <1>1. /\ m \in TableBlock /\ ~IsBad(tbl, m) /\ next <= m
        /\ \A c \in TableBlock : c < m /\ ~IsBad(tbl, c) => c < next
    BY NextCopy DEF CopyFails
  <1>2. /\ pc = "update" /\ UNCHANGED <<pc, to>> /\ next' = m + 1 /\ MarkBad(m)
        /\ tag' = tag \cup {m} /\ copies' = [copies EXCEPT ![m] = NoTable]
    BY DEF CopyFails, Updating
  <1> HIDE DEF m
  <1>3. \A c \in Block : IsBad(tbl', c) <=> IsBad(tbl, c) \/ c = m
    BY <1>1, <1>2, MarkBadMarks, Ranges DEF Inv, TypeOK
  <1>4. \A c \in TableBlock : /\ Has(c)' => Has(c) /\ c # m /\ copies'[c] = copies[c]
                              /\ c # m => copies'[c] = copies[c]
    BY <1>1, <1>2 DEF Has, Inv, TypeOK
  <1>5. m \notin Phys
    BY <1>1, Apart
  <1>6. BadMarked' /\ ReserveMarked'
    BY <1>2, <1>3, <1>4, <1>5, Ranges DEF BadMarked, ReserveMarked, Phys
  <1>7. CopyGood'
    BY <1>2, <1>4 DEF CopyGood
  <1>8. Written'
    <2>1. ASSUME NEW c \in TableBlock, c < next', ~IsBad(tbl', c)
          PROVE  /\ Has(c)' /\ AsInRam(copies[c])'
                 /\ \A x \in TableBlock : IsBad(copies'[c], x) => IsBad(tbl', x)
      <3>1. c # m /\ c < m /\ ~IsBad(tbl, c)
        BY <1>1, <1>2, <1>3, <2>1, Apart, Ranges
      <3>2. Has(c) /\ AsInRam(copies[c]) /\ \A x \in TableBlock : IsBad(copies[c], x) => IsBad(tbl, x)
        BY <1>1, <1>2, <3>1 DEF Written
      <3>3. copies'[c] = copies[c] /\ Phys \subseteq Block /\ TableBlock \subseteq Block
        BY <1>4, <3>1, Ranges
      <3> QED BY <1>3, <1>5, <3>2, <3>3 DEF Has, AsInRam
    <2> QED BY <2>1 DEF Written
  <1>9. CopiesAge'
    BY <1>2, <1>3, <1>4, Ranges DEF CopiesAge
  <1> QED BY <1>6, <1>7, <1>8, <1>9

LEMMA TablesInit == Init => TablesInv
  BY DEF Init, TablesInv, BadMarked, ReserveMarked, CopyGood, Written, CopiesAge, Has

LEMMA TablesStutter ==
    ASSUME TablesInv, UNCHANGED vars PROVE TablesInv'
  BY DEF vars, TablesInv, BadMarked, ReserveMarked, CopyGood, Written, CopiesAge, Has, AsInRam

\* Every step keeps the tables, if the marks of bad blocks can be written.
LEMMA TablesNext ==
    ASSUME TagFails = FALSE, Inv, TablesInv, [Next]_vars PROVE TablesInv'
  BY BootTables, CrashTables, ServeTables, CallTables, FailTables, TagTables, EraseCopyTables,
     WriteCopyTables, CopyFailsTables, TablesStutter DEF Next

-----------------------------------------------------------------------------
(* BadBlocksSurvive *)

\* The marks that bad blocks get can be written; no more than two table blocks
\* fail, and not all.
FewFail ==
    /\ TagFails = FALSE
    /\ \E c \in TableBlock : c \notin FactoryBad \cup Breakable
    /\ \E x, y \in Block : TableBlock \cap Breakable \subseteq {x, y}

\* A table block has its mark from the factory or because it failed.
Marks ==
    /\ TableBlock \cap tag \subseteq FactoryBad \cup Breakable
    /\ \A f \in TableBlock \cap FactoryBad :
          /\ f \in tag /\ (pc # "off" => IsBad(tbl, f))
          /\ \A c \in TableBlock : Has(c) => IsBad(copies[c], f)

\* As many blocks before the next one are good as have been written.
Counted ==
    pc = "update" =>
        LET before == {c \in TableBlock : c < next /\ ~IsBad(tbl, c)}
        IN  /\ count = 0 => before = {}
            /\ count = 1 => before # {} /\ \A c, d \in before : c = d
            /\ count >= 2 => \E c, d \in before : c # d

\* A copy is the first or the second good one of the table blocks it knows.
SecondAtMost ==
    \A c \in TableBlock : Has(c) =>
        \A d, e \in TableBlock :
            d < c /\ e < c /\ ~IsBad(copies[c], d) /\ ~IsBad(copies[c], e) => d = e

\* Of two blocks with a mark that the table in RAM calls good, one comes after a
\* block without.
NotTwo ==
    pc # "off" =>
        \A d, e \in TableBlock \cap tag :
            d # e /\ ~IsBad(tbl, d) /\ ~IsBad(tbl, e) =>
                \E v \in TableBlock \ tag : v < d \/ v < e

\* The copy that a boot would load knows the bad blocks.
Fresh ==
    pc \in {"idle", "write", "program"} =>
        \A u \in TableBlock : First(u) => Has(u) /\ \A b \in Phys : IsBad(tbl, b) => IsBad(copies[u], b)

SurviveInv == Marks /\ Counted /\ SecondAtMost /\ NotTwo /\ Fresh

LEMMA FirstExists ==
    ASSUME FewFail, Marks
    PROVE  \E u \in TableBlock : First(u)
  <1>1. PICK c \in TableBlock : c \notin tag
    BY DEF FewFail, Marks
  <1>2. TableBlock \ tag \in SUBSET Nat /\ TableBlock \ tag # {}
    BY <1>1, Apart
  <1> QED BY <1>2, MinIsLeast DEF First

\* At the first table block nothing has been written.
LEMMA StartsCounted ==
    ASSUME pc' = "update" => next' = D + R /\ count' = 0 PROVE Counted'
  <1>1. SUFFICES ASSUME pc' = "update" PROVE Counted'
    BY DEF Counted
  <1> DEFINE before == {c \in TableBlock : c < next' /\ ~IsBad(tbl', c)}
  <1>2. \A c \in TableBlock : ~(c < D + R)
    BY Apart, Ranges
  <1>3. before = {} /\ count' = 0
    BY <1>1, <1>2
  <1> HIDE DEF before
  <1>4. /\ count' = 0 => before = {}
        /\ count' = 1 => before # {} /\ \A c, d \in before : c = d
        /\ count' >= 2 => \E c, d \in before : c # d
    BY <1>3
  <1> QED BY <1>4 DEF Counted, before

LEMMA SurviveKept ==
    ASSUME Inv, SurviveInv, copies' = copies, pc # "off", pc' # "off",
           \A b \in Block : IsBad(tbl', b) <=> IsBad(tbl, b),
           \A c \in TableBlock : c \in tag' <=> c \in tag,
           pc' = "update" => next' = D + R /\ count' = 0,
           pc' \in {"idle", "write", "program"} => pc \in {"idle", "write", "program"}
    PROVE  SurviveInv'
  <1> USE DEF SurviveInv
  <1>1. Marks' /\ SecondAtMost' /\ NotTwo'
    <2>1. Marks'
      BY Ranges DEF Marks, Has
    <2>2. SecondAtMost'
      BY DEF SecondAtMost, Has
    <2>3. NotTwo'
      BY Ranges DEF NotTwo
    <2> QED BY <2>1, <2>2, <2>3
  <1>2. Counted'
    BY StartsCounted
  <1>3. Fresh'
    BY Ranges, Apart DEF Fresh, First, Has
  <1> QED BY <1>1, <1>2, <1>3

LEMMA CallSurvive ==
    ASSUME Inv, SurviveInv,
           \/ WriteDirect \/ Rewrite \/ ProgramPage \/ Programmed \/ Retry \/ NoReserve
           \/ Reprogrammed \/ ReprogramFails
    PROVE  SurviveInv'
  <1>1. CASE WriteDirect \/ ProgramPage \/ Programmed \/ NoReserve \/ Reprogrammed \/ ReprogramFails
    <2>1. UNCHANGED <<tag, copies, tbl>> /\ pc # "off" /\ pc' # "off"
          /\ (pc' = "update" => next' = D + R /\ count' = 0)
          /\ (pc' \in {"idle", "write", "program"} => pc \in {"idle", "write", "program"})
      BY <1>1 DEF WriteDirect, ProgramPage, Programmed, NoReserve, Reprogrammed, ReprogramFails,
         Return, StartUpdate
    <2> QED BY <2>1, SurviveKept
  <1>2. CASE Rewrite
    <2>1. /\ UNCHANGED <<copies, tbl>> /\ pc = "write" /\ pc' = "program" /\ StartBlock(to, buf')
          /\ to \in Phys
      BY <1>2 DEF Rewrite, Inv, CallOK
    <2> QED BY <2>1, StartBlockMarks, SurviveKept
  <1>3. CASE Retry
    <2> DEFINE b == req.block
    <2>1. /\ copies' = copies /\ pc = "retry" /\ pc' = "reprogram" /\ StartBlock(to', buf)
          /\ tbl' = Remapped(tbl, b) /\ to' = FindRemap(tbl, b) /\ FindRemap(tbl, b) # NoBlock
      BY <1>3 DEF Retry
    <2>2. b \in Block /\ IsBad(tbl, b) /\ tbl \in Tables
      BY <2>1, Ranges DEF Inv, CallOK, TypeOK
    <2>3. to' \in Phys
      BY <2>1, <2>2, FindRemapIsGood DEF Phys
    <2>4. \A c \in Block : IsBad(tbl', c) <=> IsBad(tbl, c)
      BY <2>1, <2>2, RemappedBad
    <2> QED BY <2>1, <2>3, <2>4, StartBlockMarks, SurviveKept
  <1> QED BY <1>1, <1>2, <1>3

LEMMA ServeSurvive ==
    ASSUME Inv, SurviveInv, NEW b \in Data,
           \/ Read(b) \/ Erase(b)
           \/ \E p \in Pages, o \in Offsets, v \in Words : Write(b, p, o, v)
    PROVE  SurviveInv'
  <1>1. tbl \in Tables /\ b \in Block
    BY Ranges DEF Inv, TypeOK
  <1>2. copies' = copies /\ pc = "idle" /\ pc' \in {"idle", "write", "retry"}
    BY DEF Read, Erase, Write
  <1>3. \A c \in Block : IsBad(tbl', c) <=> IsBad(tbl, c)
    <2>1. tbl' = tbl \/ (IsBad(tbl, b) /\ tbl' = Remapped(tbl, b))
      BY DEF Read, Erase, Write
    <2> QED BY <1>1, <2>1, RemappedBad
  <1>4. \A c \in TableBlock : c \in tag' <=> c \in tag
    <2>1. tag' \in {tag, tag \ {Where(tbl, b)}}
      BY DEF Read, Erase, Write
    <2>2. Where(tbl, b) \in Phys
      BY <1>1, WhereIsPhysical
    <2> QED BY <2>1, <2>2, Apart
  <1> QED BY <1>2, <1>3, <1>4, SurviveKept

LEMMA FailSurvive ==
    ASSUME Inv, SurviveInv, DirectFails \/ ProgramFails PROVE SurviveInv'
  <1> USE DEF SurviveInv
  <1>1. /\ to \in Phys /\ to \in Block /\ tbl \in Tables /\ MarkBad(to) /\ pc' = "tag"
        /\ UNCHANGED <<tag, copies>> /\ pc # "off"
    BY Ranges DEF DirectFails, ProgramFails, Inv, CallOK, TypeOK
  <1>2. \A c \in TableBlock : IsBad(tbl', c) <=> IsBad(tbl, c)
    BY <1>1, MarkBadMarks, Ranges, Apart
  <1>3. Marks'
    BY <1>1, <1>2 DEF Marks, Has
  <1>4. Counted' /\ SecondAtMost' /\ Fresh'
    BY <1>1 DEF Counted, SecondAtMost, Fresh, Has
  <1>5. NotTwo'
    BY <1>1, <1>2 DEF NotTwo
  <1> QED BY <1>3, <1>4, <1>5

LEMMA TagSurvive ==
    ASSUME Inv, SurviveInv, Tag, TagFails = FALSE PROVE SurviveInv'
  <1>1. /\ to \in Phys /\ pc = "tag" /\ pc' = "retry" /\ tag' = tag \cup {to}
        /\ UNCHANGED <<copies, tbl>>
    BY DEF Tag, Inv, CallOK
  <1>2. \A c \in TableBlock : c \in tag' <=> c \in tag
    BY <1>1, Apart
  <1> QED BY <1>1, <1>2, SurviveKept

LEMMA BootSurvive ==
    ASSUME Inv, SurviveInv, Boot PROVE SurviveInv'
  <1> USE DEF SurviveInv
  <1>1. /\ pc = "off" /\ tbl' = Saved /\ UNCHANGED <<tag, copies>> /\ pc' \in {"update", "idle"}
        /\ (pc' = "update" => next' = D + R /\ count' = 0)
        /\ (pc' = "idle" => Loaded # NoTable)
    BY DEF Boot, StartUpdate
  <1>2. Counted'
    BY <1>1, StartsCounted
  <1>3. SecondAtMost'
    BY <1>1 DEF SecondAtMost, Has
  <1>4. ASSUME Saved = NewTable PROVE Marks' /\ NotTwo'
    <2>1. \A b \in Block : IsBad(tbl', b) <=> b \in tag
      BY <1>1, <1>4, Ranges DEF IsBad, NewTable
    <2>2. Marks'
      BY <1>1, <2>1, Ranges DEF Marks, Has
    <2>3. NotTwo'
      BY <1>1, <2>1, Ranges DEF NotTwo
    <2> QED BY <2>2, <2>3
  <1>5. ASSUME NEW u \in TableBlock, First(u), Has(u), Saved = copies[u]
        PROVE  Marks' /\ NotTwo'
    <2>1. Marks'
      BY <1>1, <1>5 DEF Marks, Has
    <2>2. ASSUME NEW d \in TableBlock \cap tag, NEW e \in TableBlock \cap tag, d # e,
                 ~IsBad(copies[u], d), ~IsBad(copies[u], e)
          PROVE  u < d \/ u < e
      <3>1. u # d /\ u # e
        BY <1>5 DEF First
      <3>2. ~(d < u /\ e < u)
        BY <1>5, <2>2 DEF SecondAtMost
      <3> QED BY <3>1, <3>2, Apart
    <2>3. u \in TableBlock \ tag
      BY <1>5 DEF First
    <2> QED BY <1>1, <1>5, <2>1, <2>2, <2>3 DEF NotTwo
  <1>6. Marks' /\ NotTwo'
    BY <1>4, <1>5, SavedIs
  <1>7. Fresh'
    <2>1. ASSUME NEW u \in TableBlock, First(u), pc' = "idle"
          PROVE  Has(u) /\ copies[u] = Saved
      BY <1>1, <2>1, SavedIs DEF Has, Saved
    <2>2. \A u \in TableBlock : (First(u)' <=> First(u)) /\ (Has(u)' <=> Has(u))
      BY <1>1 DEF First, Has
    <2> QED BY <1>1, <2>1, <2>2 DEF Fresh
  <1> QED BY <1>2, <1>3, <1>6, <1>7

LEMMA CrashSurvive ==
    ASSUME SurviveInv, Crash PROVE SurviveInv'
  BY DEF Crash, SurviveInv, Marks, Counted, SecondAtMost, NotTwo, Fresh, Has

LEMMA EraseCopySurvive ==
    ASSUME Inv, SurviveInv, EraseCopy PROVE SurviveInv'
  <1> USE DEF SurviveInv
  <1> DEFINE m == Min(Usable)
  <1>1. m \in TableBlock /\ ~IsBad(tbl, m)
    BY NextCopy DEF EraseCopy
  <1>2. /\ pc = "update" /\ UNCHANGED <<pc, tbl, next, count>> /\ tag' = tag \ {m}
        /\ copies' = [copies EXCEPT ![m] = NoTable]
    BY DEF EraseCopy, Updating
  <1> HIDE DEF m
  <1>3. \A c \in TableBlock : Has(c)' => Has(c) /\ copies'[c] = copies[c]
    BY <1>1, <1>2 DEF Has, Inv, TypeOK
  <1>4. Marks'
    BY <1>1, <1>2, <1>3 DEF Marks
  <1>5. Counted' /\ Fresh'
    BY <1>2 DEF Counted, Fresh
  <1>6. SecondAtMost'
    BY <1>3 DEF SecondAtMost
  <1>7. NotTwo'
    <2>1. \A c \in TableBlock : (c \in tag' => c \in tag) /\ (c \notin tag => c \notin tag')
      BY <1>2
    <2> QED BY <1>2, <2>1 DEF NotTwo
  <1> QED BY <1>4, <1>5, <1>6, <1>7

LEMMA WriteCopySurvive ==
    ASSUME Inv, SurviveInv, WriteCopy PROVE SurviveInv'
  <1> USE DEF SurviveInv
  <1> DEFINE m == Min(Usable)
  <1>1. /\ m \in TableBlock /\ ~IsBad(tbl, m) /\ next <= m
        /\ \A c \in TableBlock : c < m /\ ~IsBad(tbl, c) => c < next
    BY NextCopy DEF WriteCopy
  <1>2. /\ pc = "update" /\ UNCHANGED <<pc, tbl, tag>> /\ next' = m + 1
        /\ copies' = [copies EXCEPT ![m] = tbl] /\ count < 2 /\ count' = count + 1
    BY DEF WriteCopy, Updating
  <1> HIDE DEF m
  <1>3. /\ copies'[m] = tbl
        /\ \A c \in TableBlock : c # m => copies'[c] = copies[c] /\ (Has(c)' <=> Has(c))
    BY <1>1, <1>2 DEF Inv, TypeOK, Has
  <1>4. count \in {0, 1} /\ next \in Int /\ m \in Int
    BY <1>1, <1>2, Apart, Ranges DEF Inv, TypeOK
  <1>5. Marks'
    BY <1>2, <1>3 DEF Marks
  <1> DEFINE before == {c \in TableBlock : c < next /\ ~IsBad(tbl, c)}
  <1>6. count = 0 => before = {}
    BY <1>2 DEF Counted
  <1>7. count = 1 => before # {} /\ \A c, d \in before : c = d
    BY <1>2 DEF Counted
  <1>8. \A c \in TableBlock : c < m /\ ~IsBad(tbl, c) => c \in before
    BY <1>1
  <1>9. \A c \in before : c \in TableBlock /\ ~IsBad(tbl, c) /\ c < m /\ c < m + 1
    BY <1>1, <1>4, Apart
  <1>10. SecondAtMost'
    <2>1. ASSUME NEW d \in TableBlock, NEW e \in TableBlock, d < m, e < m, ~IsBad(tbl, d), ~IsBad(tbl, e)
          PROVE  d = e
      <3>1. d \in before /\ e \in before
        BY <1>8, <2>1
      <3> HIDE DEF before
      <3> QED BY <1>4, <1>6, <1>7, <3>1
    <2> QED BY <1>3, <2>1 DEF SecondAtMost
  <1>11. Counted'
    <2> DEFINE after == {c \in TableBlock : c < next' /\ ~IsBad(tbl', c)}
    <2>1. after = before \cup {m}
      <3>1. \A c \in TableBlock : c < m + 1 <=> c < m \/ c = m
        BY <1>4, Apart
      <3> QED BY <1>1, <1>2, <1>8, <1>9, <3>1
    <2>2. m \notin before
      BY <1>4, <1>9
    <2> HIDE DEF before, after
    <2>3. count = 0 => count' = 1 /\ after = {m}
      BY <1>2, <1>6, <2>1
    <2>4. count = 1 => count' = 2 /\ \E c, d \in after : c # d
      BY <1>2, <1>7, <2>1, <2>2
    <2>5. /\ count' = 0 => after = {}
          /\ count' = 1 => after # {} /\ \A c, d \in after : c = d
          /\ count' >= 2 => \E c, d \in after : c # d
      BY <1>4, <2>3, <2>4
    <2> QED BY <2>5 DEF Counted, after
  <1>12. NotTwo' /\ Fresh'
    BY <1>2 DEF NotTwo, Fresh
  <1> QED BY <1>5, <1>10, <1>11, <1>12

LEMMA CopyFailsSurvive ==
    ASSUME FewFail, Inv, SurviveInv, CopyFails PROVE SurviveInv'
  <1> USE DEF SurviveInv
  <1> DEFINE m == Min(Usable)
  <1>1. /\ m \in TableBlock /\ ~IsBad(tbl, m) /\ next <= m
        /\ \A c \in TableBlock : c < m /\ ~IsBad(tbl, c) => c < next
    BY NextCopy DEF CopyFails
  <1>2. /\ pc = "update" /\ UNCHANGED <<pc, count>> /\ next' = m + 1 /\ MarkBad(m)
        /\ tag' = tag \cup {m} /\ copies' = [copies EXCEPT ![m] = NoTable] /\ m \in Breakable
    BY DEF CopyFails, Updating, FewFail
  <1> HIDE DEF m
  <1>3. \A c \in TableBlock : IsBad(tbl', c) <=> IsBad(tbl, c) \/ c = m
    BY <1>1, <1>2, MarkBadMarks, Ranges DEF Inv, TypeOK
  <1>4. \A c \in TableBlock : Has(c)' => Has(c) /\ copies'[c] = copies[c]
    BY <1>1, <1>2 DEF Has, Inv, TypeOK
  <1>5. Marks'
    BY <1>2, <1>3, <1>4 DEF Marks
  <1>6. SecondAtMost' /\ Fresh'
    BY <1>2, <1>4 DEF SecondAtMost, Fresh
  <1>7. Counted'
    <2>1. next \in Int /\ m \in Int
      BY <1>1, Apart, Ranges DEF Inv, TypeOK
    <2>2. \A c \in TableBlock : c < next' /\ ~IsBad(tbl', c) <=> c < next /\ ~IsBad(tbl, c)
      BY <1>1, <1>2, <1>3, <2>1, Apart
    <2>3. {c \in TableBlock : c < next' /\ ~IsBad(tbl', c)}
            = {c \in TableBlock : c < next /\ ~IsBad(tbl, c)}
      BY <2>2
    <2> QED BY <1>2, <2>3 DEF Counted
  <1>8. NotTwo'
    <2>1. ASSUME NEW d \in TableBlock \cap tag', NEW e \in TableBlock \cap tag', d # e,
                 ~IsBad(tbl', d), ~IsBad(tbl', e)
          PROVE  FALSE
      <3>1. d # m /\ e # m /\ d \in tag /\ e \in tag /\ ~IsBad(tbl, d) /\ ~IsBad(tbl, e)
        BY <1>2, <1>3, <2>1
      <3>2. d \in Breakable /\ e \in Breakable
        BY <1>2, <3>1 DEF Marks
      <3> QED BY <1>1, <1>2, <2>1, <3>1, <3>2 DEF FewFail
    <2> QED BY <2>1 DEF NotTwo
  <1> QED BY <1>5, <1>6, <1>7, <1>8

\* The table has been written to the first block without a mark.
LEMMA UpdatedSurvive ==
    ASSUME Inv, TablesInv, SurviveInv, Updated PROVE SurviveInv'
  <1> USE DEF SurviveInv
  <1>1. pc = "update" /\ pc' = "idle" /\ UNCHANGED <<tag, copies, tbl>> /\ (count >= 2 \/ Usable = {})
    BY Ranges DEF Updated, Updating, Return, Inv, TypeOK
  <1>2. ASSUME NEW u \in TableBlock, First(u)
        PROVE  Has(u) /\ \A b \in Phys : IsBad(tbl, b) => IsBad(copies[u], b)
    <2>1. ~IsBad(tbl, u)
      BY <1>1, <1>2 DEF First, TablesInv, BadMarked
    <2>2. u < next
      <3>1. SUFFICES ASSUME ~(u < next) PROVE FALSE
        OBVIOUS
      <3>2. u \in Int /\ next \in Int /\ u \in Usable
        BY <2>1, <3>1, Apart DEF Usable, Inv, TypeOK
      <3>3. PICK d, e \in TableBlock : d # e /\ d < next /\ e < next /\ ~IsBad(tbl, d) /\ ~IsBad(tbl, e)
        BY <1>1, <3>2 DEF Counted
      <3>4. d < u /\ e < u /\ d \in tag /\ e \in tag
        BY <1>2, <3>1, <3>2, <3>3, Apart DEF First
      <3>5. PICK v \in TableBlock \ tag : v < d \/ v < e
        BY <1>1, <3>3, <3>4 DEF NotTwo
      <3> QED BY <1>2, <3>4, <3>5, Apart DEF First
    <2> QED BY <1>1, <2>1, <2>2 DEF TablesInv, Written, AsInRam
  <1>3. Fresh'
    <2>1. \A u \in TableBlock : (First(u)' <=> First(u)) /\ (Has(u)' <=> Has(u))
      BY <1>1 DEF First, Has
    <2> QED BY <1>1, <1>2, <2>1 DEF Fresh
  <1>4. Marks' /\ Counted' /\ SecondAtMost' /\ NotTwo'
    BY <1>1 DEF Marks, Counted, SecondAtMost, NotTwo, Has
  <1> QED BY <1>3, <1>4

LEMMA SurviveInit == Init => SurviveInv
  BY Ranges DEF Init, SurviveInv, Marks, Counted, SecondAtMost, NotTwo, Fresh, Has

LEMMA SurviveStutter ==
    ASSUME SurviveInv, UNCHANGED vars PROVE SurviveInv'
  BY DEF vars, SurviveInv, Marks, Counted, SecondAtMost, NotTwo, Fresh, Has, First

\* Every step keeps the copy that a boot would load no older than it has to be.
LEMMA SurviveNext ==
    ASSUME FewFail, Inv, TablesInv, SurviveInv, [Next]_vars PROVE SurviveInv'
  BY BootSurvive, CrashSurvive, ServeSurvive, CallSurvive, FailSurvive, TagSurvive,
     EraseCopySurvive, WriteCopySurvive, CopyFailsSurvive, UpdatedSurvive, SurviveStutter
     DEF Next, FewFail

\* No bad block is forgotten: between two calls the table that a restart would load
\* has all of them, for any geometry and wherever power was lost, if bad blocks take
\* their mark and at most two table blocks fail.
THEOREM BadBlocksAlwaysSurvive == FewFail => (Spec => []BadBlocksSurvive)
  <1> SUFFICES ASSUME FewFail PROVE Spec => []BadBlocksSurvive
    OBVIOUS
  <1> DEFINE IInv == Inv /\ TablesInv /\ SurviveInv
  <1>1. Init => IInv
    BY InitInv, TablesInit, SurviveInit
  <1>2. IInv /\ [Next]_vars => IInv'
    BY InvNext, TablesNext, SurviveNext DEF FewFail
  <1>3. IInv => BadBlocksSurvive
    <2> SUFFICES ASSUME IInv, pc = "idle" PROVE \A b \in Phys : IsBad(tbl, b) => IsBad(Saved, b)
      BY DEF BadBlocksSurvive, Phys
    <2>1. PICK u \in TableBlock : First(u)
      BY FirstExists DEF SurviveInv
    <2>2. Has(u) /\ \A b \in Phys : IsBad(tbl, b) => IsBad(copies[u], b)
      BY <2>1 DEF SurviveInv, Fresh
    <2>3. Saved = copies[u]
      BY <2>1, <2>2, SavedIs DEF Has, Saved
    <2> QED BY <2>2, <2>3
  <1> QED BY <1>1, <1>2, <1>3, PTL DEF Spec

-----------------------------------------------------------------------------
(* ReadsBack *)

\* What is written is a whole page, and the marks that bad blocks get can be written.
WholePages == TagFails = FALSE /\ Offsets = {0}

\* Something is known of the content w of a block; a page holds what is known of it.
Known(w) == \E p \in Pages, o \in Offsets : w[p][o] # Unknown
Agree(w, page) == \A o \in Offsets : w[o] \in {Unknown, page[o]}

\* Block b is good, or on a good reserve block.
Settled(t, b) == IsBad(t, b) => t[b] \in Reserve /\ ~IsBad(t, t[b])

\* The table that counts: the one in RAM, or without power the one that a boot loads.
Current == IF pc = "off" THEN Saved ELSE tbl

InCall == pc \in {"write", "program", "tag", "retry", "reprogram"}

\* What is known of a block that no call is writing is where a read looks for it.
Kept ==
    \A b \in Data : ~(InCall /\ b = req.block) /\ Known(want[b]) =>
        /\ Settled(Current, b)
        /\ \A p \in Pages : Agree(want[b][p], data[Where(Current, b)][p])

\* The block that is written: a call works on its place, which is bad once a program
\* has failed there...
InPlace ==
    /\ pc \in {"write", "program", "reprogram"} =>
          Settled(tbl, req.block) /\ to = Where(tbl, req.block)
    /\ pc = "tag" => IsBad(tbl, to)

\* ...with all that is known of the block on the flash or in the copy.
InHand ==
    LET w == want[req.block]
    IN  /\ pc = "write" =>
              \A p \in Pages, o \in Offsets :
                  w[p][o] \in {Unknown, IF p = req.page /\ o = req.off THEN req.val
                                        ELSE data[to][p][o]}
        /\ pc \in {"program", "tag", "reprogram"}
           \/ (pc = "retry" /\ FindRemap(tbl, req.block) # NoBlock) =>
              \A p \in Pages : Agree(w[p], buf[p])
        /\ pc \in {"program", "reprogram"} =>
              \A p \in Pages \ Unwritten : Agree(w[p], data[to][p])

DataInv == Kept /\ InPlace /\ InHand

\* What holds between the table t and the blocks it has a place for
LEMMA SettledWhere ==
    ASSUME NEW t \in Tables, NEW b \in Block, Settled(t, b)
    PROVE  /\ ~IsBad(t, b) => Where(t, b) = b
           /\ IsBad(t, b) => /\ t[b] \in Reserve /\ ~IsBad(t, t[b]) /\ Where(t, b) = t[b]
                             /\ FindRemap(t, b) = t[b] /\ FindRemap(t, b) # NoBlock
                             /\ Remapped(t, b) = t
           /\ ~IsBad(t, Where(t, b))
  <1>1. CASE ~IsBad(t, b)
    BY <1>1 DEF Where
  <1>2. CASE IsBad(t, b)
    <2>1. t[b] \in Reserve /\ ~IsBad(t, t[b]) /\ FindRemap(t, b) = t[b] /\ t[b] # NoBlock
      BY <1>2, Ranges DEF Settled, FindRemap
    <2>2. [t EXCEPT ![b] = t[b]] = t
      BY DEF Tables
    <2> QED BY <1>2, <2>1, <2>2 DEF Where, Remapped
  <1> QED BY <1>1, <1>2

\* No two blocks have the same place.
LEMMA PlacesApart ==
    ASSUME NEW t \in Tables, NoSharedIn(t), NEW a \in Data, NEW b \in Data, a # b,
           Settled(t, a), Settled(t, b)
    PROVE  Where(t, a) # Where(t, b)
  <1>1. a \in Block /\ b \in Block /\ a \notin Reserve /\ b \notin Reserve
    BY Ranges, Apart
  <1> QED BY <1>1, SettledWhere DEF NoSharedIn

\* A search for block b takes no place from another block...
LEMMA RemappedApart ==
    ASSUME NEW t \in Tables, NoSharedIn(t), NEW a \in Data, NEW b \in Data, a # b,
           Settled(t, a), IsBad(t, b)
    PROVE  /\ Settled(Remapped(t, b), a) /\ Where(Remapped(t, b), a) = Where(t, a)
           /\ FindRemap(t, b) # NoBlock => FindRemap(t, b) # Where(t, a)
  <1>1. a \in Block /\ b \in Block /\ Remapped(t, b) \in Tables /\ Remapped(t, b)[a] = t[a]
    BY Ranges, RemappedTable
  <1>2. \A c \in Block : IsBad(Remapped(t, b), c) <=> IsBad(t, c)
    BY <1>1, RemappedBad
  <1>3. Settled(Remapped(t, b), a)
    BY <1>1, <1>2, Ranges DEF Settled
  <1>4. Where(Remapped(t, b), a) = Where(t, a)
    BY <1>1, <1>2, <1>3, SettledWhere
  <1>5. ASSUME FindRemap(t, b) # NoBlock PROVE FindRemap(t, b) # Where(t, a)
    <2>1. FindRemap(t, b) \in Reserve /\ (FindRemap(t, b) = t[b] \/ \A c \in Block : t[c] # FindRemap(t, b))
      BY <1>1, <1>5, FreeReserveIsFree, FindRemapIsGood DEF FindRemap
    <2>2. Where(t, a) \in {a, t[a]} /\ a \notin Reserve
      BY <1>1, SettledWhere, Apart
    <2> QED BY <1>1, <2>1, <2>2 DEF NoSharedIn
  <1> QED BY <1>3, <1>4, <1>5

\* ...and gives b one, if there is a free reserve block.
LEMMA RemappedSettled ==
    ASSUME NEW t \in Tables, NEW b \in Data, IsBad(t, b), FindRemap(t, b) # NoBlock
    PROVE  /\ Settled(Remapped(t, b), b)
           /\ Where(Remapped(t, b), b) = FindRemap(t, b) /\ Where(t, b) = FindRemap(t, b)
  <1>1. b \in Block /\ Remapped(t, b) \in Tables /\ Remapped(t, b)[b] = FindRemap(t, b)
    BY Ranges, RemappedTable
  <1>2. FindRemap(t, b) \in Reserve /\ ~IsBad(Remapped(t, b), FindRemap(t, b)) /\ IsBad(Remapped(t, b), b)
    BY <1>1, FindRemapIsGood, RemappedIsGood, RemappedStaysBad
  <1>3. Settled(Remapped(t, b), b)
    BY <1>1, <1>2 DEF Settled
  <1> QED BY <1>1, <1>2, <1>3, SettledWhere DEF Where

\* The mark of another block leaves a block its place.
LEMMA MarkedApart ==
    ASSUME tbl \in Tables, NEW a \in Data, Settled(tbl, a), NEW m \in Block, MarkBad(m),
           m # Where(tbl, a), m # a
    PROVE  Settled(tbl', a) /\ Where(tbl', a) = Where(tbl, a)
  <1>1. tbl' \in Tables /\ a \in Block /\ tbl'[a] = tbl[a]
    BY MarkedTable, Ranges DEF MarkBad, Tables
  <1>2. \A c \in Block : IsBad(tbl', c) <=> IsBad(tbl, c) \/ c = m
    BY MarkBadMarks
  <1>3. Settled(tbl', a)
    BY <1>1, <1>2, SettledWhere, Ranges DEF Settled
  <1> QED BY <1>1, <1>2, <1>3, SettledWhere

\* A step leaves block a and its place alone...
Undisturbed(a) ==
    /\ ~(InCall /\ a = req.block) /\ want'[a] = want[a]
    /\ Settled(tbl, a) => /\ Settled(tbl', a) /\ Where(tbl', a) = Where(tbl, a)
                          /\ data'[Where(tbl, a)] = data[Where(tbl, a)]

\* ...or it ends with what is known of the block where a read will look for it.
KeptAfter(a) ==
    ~(InCall' /\ a = req'.block) /\ Known(want'[a]) =>
        /\ Settled(tbl', a)
        /\ \A p \in Pages : Agree(want'[a][p], data'[Where(tbl', a)][p])

LEMMA StepKeeps ==
    ASSUME Kept, pc # "off", pc' # "off", \A a \in Data : Undisturbed(a) \/ KeptAfter(a)
    PROVE  Kept'
  <1>1. Current = tbl /\ Current' = tbl'
    BY DEF Current
  <1>2. ASSUME NEW a \in Data PROVE KeptAfter(a)
    BY <1>1 DEF Kept, Undisturbed, KeptAfter
  <1> QED BY <1>1, <1>2 DEF Kept, KeptAfter

LEMMA TablesOK == ASSUME Inv PROVE tbl \in Tables /\ NoSharedIn(tbl)
  BY NoSharedReserveIn DEF Inv, TypeOK

\* The place that a call works on is no other block's.
LEMMA ToApart ==
    ASSUME Inv, InPlace, pc \in {"write", "program", "tag", "reprogram"}, NEW a \in Data,
           a # req.block, Settled(tbl, a)
    PROVE  to # Where(tbl, a) /\ (pc # "tag" => to # a)
  <1>1. tbl \in Tables /\ NoSharedIn(tbl) /\ req.block \in Data /\ a \in Block /\ a \notin Reserve
        /\ req.block \in Block
    BY TablesOK, Apart, Ranges DEF Inv, CallOK
  <1>2. CASE pc = "tag"
    BY <1>1, <1>2, SettledWhere DEF InPlace
  <1>3. CASE pc # "tag"
    <2>1. Settled(tbl, req.block) /\ to = Where(tbl, req.block)
      BY <1>3 DEF InPlace
    <2>2. to # a
      BY <1>1, <2>1, SettledWhere
    <2> QED BY <1>1, <2>1, <2>2, PlacesApart
  <1> QED BY <1>2, <1>3

LEMMA BootData == ASSUME DataInv, Boot PROVE DataInv'
  <1>1. /\ pc = "off" /\ tbl' = Saved /\ pc' \in {"update", "idle"}
        /\ UNCHANGED <<data, tag, copies, req, want>>
    BY DEF Boot, StartUpdate
  <1>2. Current' = Current
    BY <1>1 DEF Current
  <1>3. Kept'
    BY <1>1, <1>2 DEF DataInv, Kept, InCall
  <1> QED BY <1>1, <1>3 DEF DataInv, InPlace, InHand

\* The table that a boot will load has the same place for a block whose entry in it is
\* that in RAM, unless the block has no place.
LEMMA CrashData ==
    ASSUME Inv, TablesInv, DataInv, Crash PROVE DataInv'
  <1>1. /\ pc # "off" /\ pc' = "off" /\ UNCHANGED <<data, tag, copies>>
        /\ want' = [b \in Data |-> IF b = req.block \/ Saved[b] # tbl[b] \/ Saved[b] = Unmapped
                                   THEN UnknownBlock ELSE want[b]]
    BY DEF Crash
  <1>2. Current = tbl /\ Current' = Saved
    BY <1>1 DEF Current, Saved, Loaded, NewTable
  <1>3. Saved \in Tables /\ tbl \in Tables
    BY SavedTable DEF Inv, TypeOK
  <1>4. ASSUME NEW b \in Data, Known(want'[b])
        PROVE  /\ Settled(Saved, b)
               /\ \A p \in Pages : Agree(want'[b][p], data[Where(Saved, b)][p])
    <2>1. /\ b # req.block /\ Saved[b] = tbl[b] /\ Saved[b] # Unmapped /\ want'[b] = want[b]
          /\ b \in Block
      BY <1>1, <1>4, Ranges DEF Known, UnknownBlock, UnknownPage
    <2>2. Settled(tbl, b) /\ \A p \in Pages : Agree(want[b][p], data[Where(tbl, b)][p])
      BY <1>2, <1>4, <2>1 DEF DataInv, Kept
    <2>3. CASE ~IsBad(tbl, b)
      <3>1. ~IsBad(Saved, b)
        BY <2>1, <2>3 DEF IsBad
      <3> QED BY <2>1, <2>2, <2>3, <3>1 DEF Where, Settled
    <2>4. CASE IsBad(tbl, b)
      <3>1. tbl[b] \in Reserve /\ ~IsBad(tbl, tbl[b]) /\ IsBad(Saved, b) /\ Saved[b] \in Reserve
        BY <2>1, <2>2, <2>4 DEF Settled, IsBad
      <3>2. Saved # NewTable
        BY <2>1, <3>1, Ranges DEF NewTable
      <3>3. PICK u \in TableBlock : First(u) /\ Has(u) /\ Saved = copies[u]
        BY <3>2, SavedIs
      <3>4. ~IsBad(Saved, tbl[b])
        BY <1>1, <3>1, <3>3 DEF TablesInv, CopiesAge, First
      <3>5. Settled(Saved, b)
        BY <2>1, <3>1, <3>4 DEF Settled
      <3>6. Where(Saved, b) = Where(tbl, b)
        BY <1>3, <2>1, <2>2, <2>4, <3>1, <3>5, SettledWhere
      <3> QED BY <2>1, <2>2, <3>5, <3>6
    <2> QED BY <2>3, <2>4
  <1>5. Kept'
    BY <1>1, <1>2, <1>4 DEF Kept
  <1> QED BY <1>1, <1>5 DEF DataInv, InPlace, InHand

\* A read of a bad block without a place, of which nothing is known, may give it one.
LEMMA ReadData ==
    ASSUME Inv, DataInv, NEW b \in Data, Read(b) PROVE DataInv'
  <1>1. /\ pc = "idle" /\ pc' = pc /\ IsBad(tbl, b) /\ tbl' = Remapped(tbl, b) /\ tbl' # tbl
        /\ UNCHANGED <<data, want, req>> /\ tbl \in Tables /\ NoSharedIn(tbl)
    BY TablesOK DEF Read
  <1>2. b \in Block /\ ~Settled(tbl, b)
    BY <1>1, SettledWhere, Ranges
  <1>3. ~Known(want[b])
    BY <1>1, <1>2 DEF DataInv, Kept, InCall, Current
  <1>4. \A a \in Data \ {b} : Settled(tbl, a) => Settled(tbl', a) /\ Where(tbl', a) = Where(tbl, a)
    BY <1>1, RemappedApart
  <1>5. \A a \in Data : Undisturbed(a) \/ KeptAfter(a)
    BY <1>1, <1>3, <1>4 DEF InCall, Undisturbed, KeptAfter
  <1>6. Kept'
    BY <1>1, <1>5, StepKeeps DEF DataInv
  <1> QED BY <1>1, <1>6 DEF DataInv, InPlace, InHand

LEMMA EraseData ==
    ASSUME Inv, DataInv, NEW b \in Data, Erase(b) PROVE DataInv'
  <1> DEFINE w == Where(tbl, b)
  <1>1. /\ pc = "idle" /\ pc' = pc /\ UNCHANGED <<req>> /\ tbl \in Tables /\ NoSharedIn(tbl)
        /\ data' = [data EXCEPT ![w] = BlankBlock]
        /\ want \in [Data -> [Pages -> [Offsets -> Val \cup {Blank, Unknown}]]]
        /\ data \in [Phys -> Content]
    BY TablesOK DEF Erase, Inv, TypeOK, Phys
  <1>2. \A x \in Phys : data'[x] = IF x = w THEN BlankBlock ELSE data[x]
    BY <1>1
  <1>3. \A a \in Data : Where(tbl, a) \in Phys /\ a \in Block /\ a \notin Reserve
    BY <1>1, WhereIsPhysical, Ranges, Apart
  <1>4. CASE IsBad(tbl, b) /\ FindRemap(tbl, b) = NoBlock
    <2>1. tbl' = tbl /\ want' = [want EXCEPT ![b] = UnknownBlock, ![0] = UnknownBlock] /\ w = 0
      BY <1>4 DEF Erase, Remapped, Where
    <2> HIDE DEF w
    <2>2. \A a \in {b, 0} : ~Known(want'[a])
      BY <1>1, <2>1, Ranges DEF Known, UnknownBlock, UnknownPage
    <2>3. \A a \in Data \ {b, 0} : want'[a] = want[a]
      BY <1>1, <2>1
    <2>4. \A a \in Data \ {b, 0} : Settled(tbl, a) => Where(tbl, a) # 0
      BY <1>1, <1>3, SettledWhere, Ranges, Apart
    <2>5. \A a \in Data : Undisturbed(a) \/ KeptAfter(a)
      BY <1>1, <1>2, <1>3, <2>1, <2>2, <2>3, <2>4 DEF InCall, Undisturbed, KeptAfter
    <2>6. Kept'
      BY <1>1, <2>5, StepKeeps DEF DataInv
    <2> QED BY <1>1, <2>6 DEF DataInv, InPlace, InHand
  <1>5. CASE ~(IsBad(tbl, b) /\ FindRemap(tbl, b) = NoBlock)
    <2>1. /\ tbl' = (IF IsBad(tbl, b) THEN Remapped(tbl, b) ELSE tbl)
          /\ want' = [want EXCEPT ![b] = BlankBlock]
      BY <1>5 DEF Erase
    <2>2. Settled(tbl', b) /\ Where(tbl', b) = w
      BY <1>1, <1>5, <2>1, RemappedSettled DEF Settled, Where
    <2>3. \A a \in Data \ {b} : Settled(tbl, a) =>
              Settled(tbl', a) /\ Where(tbl', a) = Where(tbl, a) /\ w # Where(tbl, a)
      <3>1. CASE IsBad(tbl, b)
        BY <1>1, <1>5, <2>1, <3>1, RemappedApart, RemappedSettled
      <3>2. CASE ~IsBad(tbl, b)
        BY <1>1, <2>1, <3>2, PlacesApart DEF Settled
      <3> QED BY <3>1, <3>2
    <2>4. w \in Phys
      BY <1>3
    <2> HIDE DEF w
    <2>5. \A p \in Pages : Agree(want'[b][p], data'[Where(tbl', b)][p])
      BY <1>1, <1>2, <2>1, <2>2, <2>4 DEF Agree, BlankBlock
    <2>6. \A a \in Data \ {b} : want'[a] = want[a]
      BY <1>1, <2>1
    <2>7. \A a \in Data : Undisturbed(a) \/ KeptAfter(a)
      BY <1>1, <1>2, <1>3, <2>2, <2>3, <2>5, <2>6 DEF InCall, Undisturbed, KeptAfter
    <2>8. Kept'
      BY <1>1, <2>7, StepKeeps DEF DataInv
    <2> QED BY <1>1, <2>8 DEF DataInv, InPlace, InHand
  <1> QED BY <1>4, <1>5

LEMMA WriteData ==
    ASSUME Inv, DataInv, NEW b \in Data, NEW p \in Pages, NEW o \in Offsets,
           NEW v \in Words, Write(b, p, o, v)
    PROVE  DataInv'
  <1>1. /\ pc = "idle" /\ req' = [block |-> b, page |-> p, off |-> o, val |-> v]
        /\ want' = [want EXCEPT ![b][p][o] = v] /\ data' = data
        /\ tbl \in Tables /\ NoSharedIn(tbl)
        /\ want \in [Data -> [Pages -> [Offsets -> Val \cup {Blank, Unknown}]]]
    BY TablesOK DEF Write, Inv, TypeOK
  <1>2. /\ req'.block = b /\ req'.page = p /\ req'.off = o /\ req'.val = v
        /\ \A a \in Data \ {b} : want'[a] = want[a]
        /\ \A q \in Pages, x \in Offsets : want'[b][q][x] = IF q = p /\ x = o THEN v ELSE want[b][q][x]
    BY <1>1
  <1>3. CASE IsBad(tbl, b) /\ FindRemap(tbl, b) = NoBlock
    <2>1. pc' = "retry" /\ tbl' = tbl
      BY <1>3 DEF Write, Remapped
    <2>2. \A a \in Data : Undisturbed(a) \/ KeptAfter(a)
      BY <1>1, <1>2, <2>1 DEF InCall, Undisturbed, KeptAfter
    <2>3. Kept'
      BY <1>1, <2>1, <2>2, StepKeeps DEF DataInv
    <2> QED BY <1>2, <1>3, <2>1, <2>3 DEF DataInv, InPlace, InHand
  <1>4. CASE ~(IsBad(tbl, b) /\ FindRemap(tbl, b) = NoBlock)
    <2>1. /\ pc' = "write" /\ tbl' = (IF IsBad(tbl, b) THEN Remapped(tbl, b) ELSE tbl)
          /\ to' = Where(tbl, b)
      BY <1>4 DEF Write, Where
    <2>2. Settled(tbl', b) /\ Where(tbl', b) = to'
      BY <1>1, <1>4, <2>1, RemappedSettled DEF Settled, Where
    <2>3. \A a \in Data \ {b} : Settled(tbl, a) => Settled(tbl', a) /\ Where(tbl', a) = Where(tbl, a)
      BY <1>1, <2>1, RemappedApart
    <2>4. Kept'
      <3>1. \A a \in Data : Undisturbed(a) \/ KeptAfter(a)
        BY <1>1, <1>2, <2>1, <2>3 DEF InCall, Undisturbed, KeptAfter
      <3> QED BY <1>1, <2>1, <3>1, StepKeeps DEF DataInv
    <2>5. \A q \in Pages, x \in Offsets : want[b][q][x] \in {Unknown, data[Where(tbl, b)][q][x]}
      <3>1. CASE Known(want[b])
        BY <1>1, <3>1 DEF DataInv, Kept, InCall, Current, Agree
      <3>2. CASE ~Known(want[b])
        BY <3>2 DEF Known
      <3> QED BY <3>1, <3>2
    <2>6. InHand'
      BY <1>1, <1>2, <2>1, <2>5 DEF InHand
    <2>7. InPlace'
      BY <1>2, <2>1, <2>2 DEF InPlace
    <2> QED BY <2>4, <2>6, <2>7 DEF DataInv
  <1> QED BY <1>3, <1>4

\* The block that the running call writes, and its place
LEMMA CallPlace ==
    ASSUME Inv, InPlace, pc \in {"write", "program", "tag", "reprogram"}
    PROVE  /\ req.block \in Data /\ req.block \in Block /\ to \in Phys /\ to \in Block
           /\ req.page \in Pages /\ req.off \in Offsets /\ req.val \in Val \cup {Blank}
           /\ tbl \in Tables /\ data \in [Phys -> Content] /\ buf \in Content
           /\ want \in [Data -> [Pages -> [Offsets -> Val \cup {Blank, Unknown}]]]
           /\ \A a \in Data : /\ Where(tbl, a) \in Phys
                              /\ a # req.block /\ Settled(tbl, a) => to # Where(tbl, a)
  BY ToApart, WhereIsPhysical, Ranges DEF Inv, CallOK, TypeOK, Phys

\* Where only the page or block at the call's place changes, the others are kept.
LEMMA AtPlace ==
    ASSUME Inv, Kept, InPlace, pc \in {"write", "program", "tag", "reprogram"}, pc' # "off",
           tbl' = tbl, \A x \in Phys : x # to => data'[x] = data[x],
           \A a \in Data : a # req.block => want'[a] = want[a],
           KeptAfter(req.block)
    PROVE  Kept'
  <1>1. \A a \in Data : Where(tbl, a) \in Phys /\ (a # req.block /\ Settled(tbl, a) => to # Where(tbl, a))
    BY CallPlace
  <1>2. \A a \in Data : a # req.block => Undisturbed(a)
    BY <1>1 DEF Undisturbed
  <1> QED BY <1>2, StepKeeps

\* So they are when that place goes bad.
LEMMA AtBadPlace ==
    ASSUME Inv, Kept, InPlace, pc \in {"write", "program"}, pc' = "tag", req' = req,
           MarkBad(to), \A x \in Phys : x # to => data'[x] = data[x], want' = want
    PROVE  Kept'
  <1>1. /\ \A a \in Data : Where(tbl, a) \in Phys
        /\ \A a \in Data : a # req.block /\ Settled(tbl, a) => to # Where(tbl, a) /\ to # a
        /\ tbl \in Tables /\ to \in Block
    BY CallPlace, ToApart
  <1>2. \A a \in Data : a # req.block => Undisturbed(a)
    BY <1>1, MarkedApart DEF Undisturbed
  <1>3. KeptAfter(req.block)
    BY DEF KeptAfter, InCall
  <1> QED BY <1>2, <1>3, StepKeeps

\* The copy with what is to be written in its place in the page
LEMMA Changed ==
    ASSUME Inv, InPlace, InHand, pc = "write",
           NEW c, c = [data[to] EXCEPT ![req.page][req.off] = req.val]
    PROVE  c \in Content /\ \A p \in Pages : Agree(want[req.block][p], c[p])
  <1>1. data[to] \in Content /\ req.page \in Pages /\ req.off \in Offsets /\ req.val \in Val \cup {Blank}
    BY CallPlace
  <1>2. c \in Content
    BY <1>1 DEF Content
  <1>3. \A p \in Pages, o \in Offsets :
            c[p][o] = IF p = req.page /\ o = req.off THEN req.val ELSE data[to][p][o]
    BY <1>1 DEF Content
  <1> QED BY <1>2, <1>3 DEF InHand, Agree

LEMMA WriteDirectData ==
    ASSUME Inv, DataInv, WriteDirect PROVE DataInv'
  <1> USE DEF DataInv
  <1> DEFINE c == [data[to] EXCEPT ![req.page][req.off] = req.val]
  <1>1. /\ pc = "write" /\ pc' = "idle" /\ UNCHANGED <<tbl, want>>
        /\ data' = [data EXCEPT ![to][req.page][req.off] = req.val]
    BY DEF WriteDirect, Return
  <1>2. req.block \in Data /\ to \in Phys /\ data \in [Phys -> Content]
    BY <1>1, CallPlace
  <1>3. data' = [data EXCEPT ![to] = c]
    BY <1>1
  <1>4. \A p \in Pages : Agree(want[req.block][p], c[p])
    BY <1>1, Changed
  <1> HIDE DEF c
  <1>5. data'[to] = c /\ \A x \in Phys : x # to => data'[x] = data[x]
    BY <1>2, <1>3
  <1>6. KeptAfter(req.block)
    BY <1>1, <1>4, <1>5 DEF KeptAfter, InPlace
  <1>7. Kept'
    BY <1>1, <1>5, <1>6, AtPlace
  <1> QED BY <1>1, <1>7 DEF InPlace, InHand

LEMMA DirectFailsData ==
    ASSUME WholePages, Inv, DataInv, DirectFails PROVE DataInv'
  <1> USE DEF DataInv
  <1>1. /\ pc = "write" /\ pc' = "tag" /\ UNCHANGED <<want, req, to>> /\ MarkBad(to)
        /\ data' = [data EXCEPT ![to][req.page] = JunkPage]
        /\ buf' = [data'[to] EXCEPT ![req.page][0] = req.val]
    BY DEF DirectFails
  <1>2. /\ req.block \in Data /\ to \in Phys /\ to \in Block /\ tbl \in Tables
        /\ data \in [Phys -> Content] /\ req.page \in Pages /\ req.off = 0 /\ Offsets = {0}
    BY <1>1, CallPlace DEF WholePages
  <1>3. /\ \A x \in Phys : x # to => data'[x] = data[x]
        /\ data'[to] = [data[to] EXCEPT ![req.page] = JunkPage]
    BY <1>1, <1>2
  <1>4. Kept'
    BY <1>1, <1>3, AtBadPlace
  <1>5. \A p \in Pages, o \in Offsets :
            buf'[p][o] = IF p = req.page /\ o = req.off THEN req.val ELSE data[to][p][o]
    <2>1. data'[to] \in Content /\ \A p \in Pages : p # req.page => data'[to][p] = data[to][p]
      BY <1>2, <1>3, Blanks DEF Content
    <2> QED BY <1>1, <1>2, <2>1 DEF Content
  <1>6. InHand'
    <2>1. ASSUME NEW p \in Pages, NEW o \in Offsets
          PROVE  want[req.block][p][o] \in {Unknown, buf'[p][o]}
      <3>1. want[req.block][p][o] \in
                {Unknown, IF p = req.page /\ o = req.off THEN req.val ELSE data[to][p][o]}
        BY <1>1 DEF InHand
      <3>2. buf'[p][o] = IF p = req.page /\ o = req.off THEN req.val ELSE data[to][p][o]
        BY <1>5
      <3> QED BY <3>1, <3>2
    <2>2. \A p \in Pages : Agree(want'[req'.block][p], buf'[p])
      BY <1>1, <2>1 DEF Agree
    <2> QED BY <1>1, <2>2 DEF InHand
  <1>7. InPlace'
    BY <1>1, <1>2, MarkBadMarks DEF InPlace
  <1> QED BY <1>4, <1>6, <1>7

\* The erase that is not looked at: it works, and every page is as the blank pages of
\* the copy, or it fails, and nothing is known of the pages that are then skipped.
LEMMA StartBlockAgrees ==
    ASSUME data \in [Phys -> Content], req.block \in Data,
           want \in [Data -> [Pages -> [Offsets -> Val \cup {Blank, Unknown}]]],
           NEW b \in Phys, NEW c \in Content, StartBlock(b, c),
           \A p \in Pages : Agree(want[req.block][p], c[p])
    PROVE  /\ \A p \in Pages : /\ Agree(want'[req.block][p], c[p])
                               /\ c[p] = BlankPage => Agree(want'[req.block][p], data'[b][p])
           /\ \A a \in Data : a # req.block => want'[a] = want[a]
           /\ \A x \in Phys : x # b => data'[x] = data[x]
           /\ next' = 0
  <1> DEFINE skip(p) == c[p] = BlankPage /\ data[b][p] # BlankPage
             w == [p \in Pages |-> IF skip(p) THEN UnknownPage ELSE want[req.block][p]]
  <1>1. CASE data' = [data EXCEPT ![b] = BlankBlock] /\ want' = want
    BY <1>1 DEF StartBlock, BlankBlock
  <1>2. CASE data' = data /\ want' = [want EXCEPT ![req.block] = w]
    <2>1. want'[req.block] = w /\ \A a \in Data : a # req.block => want'[a] = want[a]
      BY <1>2
    <2>2. ASSUME NEW p \in Pages
          PROVE  /\ Agree(w[p], c[p])
                 /\ c[p] = BlankPage => Agree(w[p], data[b][p])
      BY DEF Agree, UnknownPage
    <2> HIDE DEF w
    <2> QED BY <1>2, <2>1, <2>2 DEF StartBlock
  <1> QED BY <1>1, <1>2 DEF StartBlock

LEMMA RewriteData ==
    ASSUME Inv, DataInv, Rewrite PROVE DataInv'
  <1> USE DEF DataInv
  <1>1. /\ pc = "write" /\ pc' = "program" /\ UNCHANGED <<tbl, req, to>> /\ StartBlock(to, buf')
        /\ buf' = [data[to] EXCEPT ![req.page][req.off] = req.val]
    BY DEF Rewrite
  <1>2. /\ req.block \in Data /\ to \in Phys /\ data \in [Phys -> Content]
        /\ want \in [Data -> [Pages -> [Offsets -> Val \cup {Blank, Unknown}]]]
    BY <1>1, CallPlace
  <1>3. buf' \in Content /\ \A p \in Pages : Agree(want[req.block][p], buf'[p])
    BY <1>1, Changed
  <1>4. /\ \A p \in Pages : /\ Agree(want'[req.block][p], buf'[p])
                            /\ buf'[p] = BlankPage => Agree(want'[req.block][p], data'[to][p])
        /\ \A a \in Data : a # req.block => want'[a] = want[a]
        /\ \A x \in Phys : x # to => data'[x] = data[x]
        /\ next' = 0
    BY <1>1, <1>2, <1>3, StartBlockAgrees
  <1>5. Kept'
    <2>1. KeptAfter(req.block)
      BY <1>1 DEF KeptAfter, InCall
    <2> QED BY <1>1, <1>4, <2>1, AtPlace
  <1>6. InHand'
    <2>1. ASSUME NEW p \in Pages, buf'[p] # BlankPage PROVE p \in Unwritten'
      <3>1. next' = 0 /\ p \in Nat
        BY <1>4, Ranges
      <3>2. p >= next'
        BY <3>1
      <3> QED BY <2>1, <3>2 DEF Unwritten
    <2> QED BY <1>1, <1>4, <2>1 DEF InHand
  <1>7. InPlace'
    BY <1>1 DEF InPlace
  <1> QED BY <1>5, <1>6, <1>7

LEMMA NextPage ==
    ASSUME Inv, Unwritten # {}
    PROVE  /\ Min(Unwritten) \in Pages /\ Min(Unwritten) \in Unwritten
           /\ \A q \in Unwritten : Min(Unwritten) <= q
  <1>1. Unwritten \in SUBSET Nat
    BY Ranges DEF Unwritten
  <1>2. Min(Unwritten) \in Unwritten /\ \A q \in Unwritten : Min(Unwritten) <= q
    BY <1>1, MinIsLeast
  <1> QED BY <1>2 DEF Unwritten

LEMMA ProgramPageData ==
    ASSUME Inv, DataInv, ProgramPage PROVE DataInv'
  <1> USE DEF DataInv
  <1> DEFINE p == Min(Unwritten)
  <1>1. /\ pc \in {"program", "reprogram"} /\ UNCHANGED <<pc, tbl, req, to, want, buf>>
        /\ data' = [data EXCEPT ![to][p] = buf[p]] /\ next' = p + 1 /\ Unwritten # {}
    BY DEF ProgramPage
  <1>2. req.block \in Data /\ to \in Phys /\ data \in [Phys -> Content]
    BY <1>1, CallPlace
  <1>3. p \in Pages /\ p \in Unwritten /\ \A q \in Unwritten : p <= q
    BY <1>1, NextPage
  <1> HIDE DEF p
  <1>4. /\ \A x \in Phys : x # to => data'[x] = data[x]
        /\ data'[to] = [data[to] EXCEPT ![p] = buf[p]]
    BY <1>1, <1>2
  <1>5. Kept'
    <2>1. KeptAfter(req.block)
      BY <1>1 DEF KeptAfter, InCall
    <2> QED BY <1>1, <1>4, <2>1, AtPlace
  <1>6. \A q \in Pages \ Unwritten' : Agree(want[req.block][q], data'[to][q])
    <2>1. ASSUME NEW q \in Pages \ Unwritten', q # p PROVE q \notin Unwritten
      <3>1. q \in Nat /\ p \in Nat
        BY <1>3, Ranges
      <3> QED BY <1>1, <1>3, <2>1, <3>1 DEF Unwritten
    <2>2. \A q \in Pages : data'[to][q] = IF q = p THEN buf[p] ELSE data[to][q]
      BY <1>2, <1>4 DEF Content
    <2> QED BY <1>1, <2>1, <2>2 DEF InHand
  <1>7. InHand' /\ InPlace'
    BY <1>1, <1>6 DEF InHand, InPlace
  <1> QED BY <1>5, <1>7

LEMMA ProgramFailsData ==
    ASSUME Inv, DataInv, ProgramFails PROVE DataInv'
  <1> USE DEF DataInv
  <1>1. /\ pc = "program" /\ pc' = "tag" /\ UNCHANGED <<want, req, to, buf>> /\ MarkBad(to)
        /\ data' = [data EXCEPT ![to][Min(Unwritten)] = JunkPage]
    BY DEF ProgramFails, Spoil
  <1>2. to \in Phys /\ to \in Block /\ tbl \in Tables /\ data \in [Phys -> Content]
    BY <1>1, CallPlace
  <1>3. \A x \in Phys : x # to => data'[x] = data[x]
    BY <1>1, <1>2
  <1>4. Kept'
    BY <1>1, <1>3, AtBadPlace
  <1>5. InHand'
    BY <1>1 DEF InHand
  <1>6. InPlace'
    BY <1>1, <1>2, MarkBadMarks DEF InPlace
  <1> QED BY <1>4, <1>5, <1>6

LEMMA TagData ==
    ASSUME WholePages, Inv, DataInv, Tag PROVE DataInv'
  <1> USE DEF DataInv
  <1>1. /\ pc = "tag" /\ pc' = "retry" /\ UNCHANGED <<tbl, want, req, to, buf>>
        /\ data' = [data EXCEPT ![to] = BlankBlock]
    BY DEF Tag, WholePages
  <1>2. to \in Phys /\ data \in [Phys -> Content]
    BY <1>1, CallPlace
  <1>3. \A x \in Phys : x # to => data'[x] = data[x]
    BY <1>1, <1>2
  <1>4. KeptAfter(req.block)
    BY <1>1 DEF KeptAfter, InCall
  <1>5. Kept'
    BY <1>1, <1>3, <1>4, AtPlace
  <1> QED BY <1>1, <1>5 DEF InHand, InPlace

\* The copy goes to a reserve block that is no other block's.
LEMMA RetryData ==
    ASSUME Inv, DataInv, Retry PROVE DataInv'
  <1> USE DEF DataInv
  <1> DEFINE b == req.block
  <1>1. /\ pc = "retry" /\ pc' = "reprogram" /\ UNCHANGED <<req, buf>> /\ StartBlock(to', buf)
        /\ FindRemap(tbl, b) # NoBlock /\ to' = FindRemap(tbl, b) /\ tbl' = Remapped(tbl, b)
    BY DEF Retry
  <1>2. /\ b \in Data /\ IsBad(tbl, b) /\ tbl \in Tables /\ NoSharedIn(tbl)
        /\ data \in [Phys -> Content] /\ buf \in Content
        /\ want \in [Data -> [Pages -> [Offsets -> Val \cup {Blank, Unknown}]]]
    BY <1>1, TablesOK DEF Inv, CallOK, TypeOK, Phys
  <1>3. to' \in Phys /\ Settled(tbl', b) /\ Where(tbl', b) = to'
    BY <1>1, <1>2, RemappedSettled, WhereIsPhysical
  <1>4. \A p \in Pages : Agree(want[b][p], buf[p])
    BY <1>1 DEF InHand
  <1>5. /\ \A p \in Pages : /\ Agree(want'[b][p], buf[p])
                            /\ buf[p] = BlankPage => Agree(want'[b][p], data'[to'][p])
        /\ \A a \in Data : a # b => want'[a] = want[a]
        /\ \A x \in Phys : x # to' => data'[x] = data[x]
        /\ next' = 0
    BY <1>1, <1>2, <1>3, <1>4, StartBlockAgrees
  <1>6. Kept'
    <2>1. \A a \in Data : /\ Where(tbl, a) \in Phys
                          /\ a # b /\ Settled(tbl, a) =>
                                 Settled(tbl', a) /\ Where(tbl', a) = Where(tbl, a) /\ to' # Where(tbl, a)
      BY <1>1, <1>2, RemappedApart, WhereIsPhysical
    <2>2. \A a \in Data : a # b => Undisturbed(a)
      BY <1>5, <2>1 DEF Undisturbed
    <2>3. KeptAfter(b)
      BY <1>1 DEF KeptAfter, InCall
    <2> QED BY <1>1, <2>2, <2>3, StepKeeps
  <1>7. InHand'
    <2>1. ASSUME NEW p \in Pages, buf[p] # BlankPage PROVE p \in Unwritten'
      <3>1. next' = 0 /\ p \in Nat /\ buf' = buf
        BY <1>1, <1>5, Ranges
      <3>2. p >= next'
        BY <3>1
      <3> QED BY <2>1, <3>1, <3>2 DEF Unwritten
    <2> QED BY <1>1, <1>5, <2>1 DEF InHand
  <1>8. InPlace'
    BY <1>1, <1>3 DEF InPlace
  <1> QED BY <1>6, <1>7, <1>8

\* The write is given up: nothing is known of the block.
LEMMA GivenUp ==
    ASSUME Inv, pc \in {"retry", "reprogram"}, want' = [want EXCEPT ![req.block] = UnknownBlock]
    PROVE  /\ ~Known(want'[req.block])
           /\ \A a \in Data : a # req.block => want'[a] = want[a]
  <1>1. req.block \in Data /\ DOMAIN want = Data
    BY DEF Inv, CallOK, TypeOK
  <1> QED BY <1>1 DEF Known, UnknownBlock, UnknownPage

LEMMA NoReserveData ==
    ASSUME Inv, DataInv, NoReserve PROVE DataInv'
  <1> USE DEF DataInv
  <1>1. /\ pc = "retry" /\ pc' = "update" /\ UNCHANGED <<data, tbl, req>>
        /\ want' = [want EXCEPT ![req.block] = UnknownBlock]
    BY DEF NoReserve, StartUpdate
  <1>2. \A a \in Data : Undisturbed(a) \/ KeptAfter(a)
    BY <1>1, GivenUp DEF Undisturbed, KeptAfter
  <1>3. Kept'
    BY <1>1, <1>2, StepKeeps
  <1> QED BY <1>1, <1>3 DEF InHand, InPlace

\* The block is written whole.
LEMMA DoneData ==
    ASSUME Inv, DataInv, Programmed \/ Reprogrammed PROVE DataInv'
  <1> USE DEF DataInv
  <1>1. /\ pc \in {"program", "reprogram"} /\ pc' \in {"idle", "update"} /\ UNCHANGED <<data, tbl, want>>
        /\ Unwritten = {}
    BY DEF Programmed, Reprogrammed, Return, StartUpdate
  <1>2. KeptAfter(req.block)
    BY <1>1 DEF KeptAfter, InHand, InPlace
  <1>3. Kept'
    BY <1>1, <1>2, AtPlace
  <1> QED BY <1>1, <1>3 DEF InHand, InPlace

LEMMA ReprogramFailsData ==
    ASSUME Inv, DataInv, ReprogramFails PROVE DataInv'
  <1> USE DEF DataInv
  <1>1. /\ pc = "reprogram" /\ UNCHANGED <<tbl, buf, req, to>> /\ Spoil
        /\ \/ pc' = "retry" /\ want' = want
           \/ pc' = "update" /\ want' = [want EXCEPT ![req.block] = UnknownBlock]
    BY DEF ReprogramFails, StartUpdate
  <1>2. to \in Phys /\ data \in [Phys -> Content]
    BY <1>1, CallPlace
  <1>3. \A x \in Phys : x # to => data'[x] = data[x]
    BY <1>1, <1>2 DEF Spoil
  <1>4. Kept'
    <2>1. KeptAfter(req.block) /\ \A a \in Data : a # req.block => want'[a] = want[a]
      BY <1>1, GivenUp DEF KeptAfter, InCall
    <2> QED BY <1>1, <1>3, <2>1, AtPlace
  <1>5. InHand' /\ InPlace'
    BY <1>1 DEF InHand, InPlace
  <1> QED BY <1>4, <1>5

\* The table blocks hold no data, and those that fail are no block's place.
LEMMA UpdateData ==
    ASSUME Inv, DataInv, EraseCopy \/ WriteCopy \/ CopyFails \/ Updated PROVE DataInv'
  <1> USE DEF DataInv
  <1>1. pc = "update" /\ pc' \in {"update", "idle"} /\ UNCHANGED <<data, want>>
    BY DEF EraseCopy, WriteCopy, CopyFails, Updated, Updating, Return
  <1>2. tbl \in Tables /\ \A a \in Data : Where(tbl, a) \in Phys
    BY TablesOK, WhereIsPhysical
  <1>3. ASSUME NEW a \in Data, Settled(tbl, a)
        PROVE  Settled(tbl', a) /\ Where(tbl', a) = Where(tbl, a)
    <2>1. CASE tbl' = tbl
      BY <1>3, <2>1
    <2>2. CASE CopyFails
      <3>1. MarkBad(Min(Usable)) /\ Min(Usable) \in TableBlock
        BY <2>2, NextCopy DEF CopyFails
      <3>2. Min(Usable) \in Block /\ Min(Usable) # Where(tbl, a) /\ Min(Usable) # a
        BY <1>2, <3>1, Apart, Ranges DEF Phys
      <3> QED BY <1>2, <1>3, <3>1, <3>2, MarkedApart
    <2> QED BY <2>1, <2>2 DEF EraseCopy, WriteCopy, Updated
  <1>4. \A a \in Data : Undisturbed(a)
    BY <1>1, <1>3 DEF Undisturbed, InCall
  <1>5. Kept'
    BY <1>1, <1>4, StepKeeps
  <1> QED BY <1>1, <1>5 DEF InHand, InPlace

LEMMA DataInit == Init => DataInv
  <1> SUFFICES ASSUME Init PROVE DataInv
    OBVIOUS
  <1>1. /\ pc = "off" /\ tag = FactoryBad /\ data = [b \in Phys |-> BlankBlock]
        /\ want = [b \in Data |-> IF b \in FactoryBad THEN UnknownBlock ELSE BlankBlock]
    BY DEF Init, Phys
  <1>2. Current = NewTable
    <2>1. \A c \in TableBlock : ~Has(c)
      BY DEF Init, Has
    <2> QED BY <1>1, <2>1, SavedIs DEF Current
  <1>3. ASSUME NEW b \in Data, Known(want[b])
        PROVE  /\ Settled(Current, b)
               /\ \A p \in Pages : Agree(want[b][p], data[Where(Current, b)][p])
    <2>1. b \notin FactoryBad /\ want[b] = BlankBlock /\ b \in Block /\ b \in Phys
      BY <1>1, <1>3, Ranges DEF Known, UnknownBlock, UnknownPage, Phys
    <2>2. ~IsBad(Current, b)
      BY <1>1, <1>2, <2>1 DEF NewTable, IsBad
    <2> QED BY <1>1, <2>1, <2>2 DEF Settled, Where, Agree, BlankBlock
  <1> QED BY <1>1, <1>3 DEF DataInv, Kept, InPlace, InHand

LEMMA DataStutter == ASSUME DataInv, UNCHANGED vars PROVE DataInv'
  <1>1. Current' = Current
    BY DEF vars, Current, Saved, Loaded, NewTable
  <1> QED BY <1>1 DEF vars, DataInv, Kept, InPlace, InHand, InCall, Unwritten

\* Every step keeps what is known of each block in its place or in the copy.
LEMMA DataNext ==
    ASSUME WholePages, Inv, TablesInv, DataInv, [Next]_vars PROVE DataInv'
  BY BootData, CrashData, ReadData, EraseData, WriteData, WriteDirectData, DirectFailsData,
     RewriteData, ProgramPageData, ProgramFailsData, TagData, RetryData, NoReserveData, DoneData,
     ReprogramFailsData, UpdateData, DataStutter DEF Next

\* Between two calls a read returns what was written last, on a flash of any size with
\* any blocks bad or breaking, wherever power was lost, if whole pages are written and
\* bad blocks take their mark.
THEOREM AlwaysReadsBack == WholePages => (Spec => []ReadsBack)
  <1> SUFFICES ASSUME WholePages PROVE Spec => []ReadsBack
    OBVIOUS
  <1> DEFINE IInv == Inv /\ TablesInv /\ DataInv
  <1>1. Init => IInv
    BY InitInv, TablesInit, DataInit
  <1>2. IInv /\ [Next]_vars => IInv'
    BY InvNext, TablesNext, DataNext DEF WholePages
  <1>3. IInv => ReadsBack
    <2> SUFFICES ASSUME IInv, pc = "idle", NEW b \in Data, NEW p \in Pages, NEW o \in Offsets
                 PROVE  want[b][p][o] \in {Unknown, data[Where(tbl, b)][p][o]}
      BY DEF ReadsBack
    <2>1. CASE Known(want[b])
      BY <2>1 DEF DataInv, Kept, InCall, Current, Agree
    <2>2. CASE ~Known(want[b])
      BY <2>2 DEF Known
    <2> QED BY <2>1, <2>2
  <1> QED BY <1>1, <1>2, <1>3, PTL DEF Spec
=============================================================================
