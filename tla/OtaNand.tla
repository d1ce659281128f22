------------------------------ MODULE OtaNand ------------------------------
(***************************************************************************)
(* The firmware update of ota_8735b.c on a NAND flash, beside the calls of *)
(* sys_api.c that switch between the two images.  The partition table says *)
(* which blocks an image has and whether its magic number is set; it is    *)
(* written to two of the blocks kept for its copies, one after the other.  *)
(* The boot loader, like fwfs.c, takes the first copy that is readable; it *)
(* starts any image with a magic number.                                   *)
(***************************************************************************)
EXTENDS Naturals, Sequences

CONSTANTS
    Version, NoVersion,
    Length,       \* of an image, in blocks
    Copies,       \* the blocks for copies of the table
    Blocks,       \* the blocks for data
    Commands,     \* the switches that are used: a subset of {"clear", "recover"}
    MaxFails      \* how often a block fails while it is programmed

OtaNandAssumption ==
    /\ Length \in Nat \ {0} /\ Copies \in Nat \ {0, 1} /\ MaxFails \in Nat
    /\ Blocks \in Nat /\ Blocks >= 2 * Length
    /\ Commands \subseteq {"clear", "recover"}

VARIABLES
    copies,
    content,      \* of each data block: a version and its place in it, or NoVersion
    running,      \* hal_sys_get_ld_fw_idx(), 0 when nothing could be started
    lock,         \* who holds RT_DEV_LOCK_FLASH
    writer,       \* the loop that its holder writes the table in
    ota,          \* update_ota_local_task, and the statics of ota_flash_NAND
    tool,         \* the task in sys_clear_ota_signature or sys_recover_ota_signature
    events,       \* what has happened of the events below
    fails

nandOtaVars ==
    <<copies, content, running, lock, writer, ota, tool, events, fails>>

Fw == 1 .. 2
Other(i) == 3 - i
Target == Other(running)

\* The records of an image, as one
NoRecord == [magic |-> FALSE, blocks |-> <<>>]
NoTable == [i \in Fw |-> NoRecord]
Taken(t) == UNION {{t[i].blocks[k] : k \in DOMAIN t[i].blocks} : i \in Fw}

\* A copy is blank, marked bad or a table.
Blank == [tag |-> "blank", table |-> NoTable]
Bad == [tag |-> "bad", table |-> NoTable]
Copy(t) == [tag |-> "table", table |-> t]

ValidCopies == {i \in 1 .. Copies : copies[i].tag = "table"}
Least(S) == CHOOSE i \in S : \A j \in S : i <= j
TwoCopies == ValidCopies # {} /\ ValidCopies \ {Least(ValidCopies)} # {}

Bootable(i) ==
    ValidCopies # {} /\ copies[Least(ValidCopies)].table[i].magic
Booted == IF \E i \in Fw : Bootable(i) THEN {i \in Fw : Bootable(i)} ELSE {0}

WholeRecord(r, v) ==
    /\ Len(r.blocks) = Length
    /\ \A k \in 1 .. Length : content[r.blocks[k]] = <<v, k>>

\* stale: an update took a table without the image that runs
\* failed: a copy failed, which leaves an older one behind the two that are written
\* lone: a switch wrote the table when one copy only was readable
Event == {"stale", "failed", "lone"}

NoWriter == [pc |-> "off", i |-> 0, success |-> 0, table |-> NoTable]
Idle ==
    [pc |-> "idle", version |-> NoVersion, cur |-> 0, data |-> NoVersion, sum |-> TRUE,
     block |-> 0, table |-> NoTable]
NoTool == [pc |-> "idle", table |-> NoTable]

\* Two copies of the factory's table, with one image or two
Init ==
    /\ \E v \in Version, two \in BOOLEAN :
          LET image(i) == [magic |-> TRUE, blocks |-> [k \in 1 .. Length |-> (i - 1) * Length + k]]
              table == [i \in Fw |-> IF i = 1 \/ two THEN image(i) ELSE NoRecord]
          IN  /\ copies = [i \in 1 .. Copies |-> IF i <= 2 THEN Copy(table) ELSE Blank]
              /\ content = [b \in 1 .. Blocks |->
                               IF b <= Length THEN <<v, b>>
                               ELSE IF two /\ b <= 2 * Length THEN <<v, b - Length>>
                               ELSE NoVersion]
    /\ running = 1 /\ lock = "none" /\ writer = NoWriter /\ ota = Idle /\ tool = NoTool
    /\ events = {} /\ fails = 0
-----------------------------------------------------------------------------
(* Writing the table, under the lock *)

WriteTable(who, table) ==
    /\ lock = "none"
    /\ lock' = who
    /\ writer' = [pc |-> "erase", i |-> 1, success |-> 0, table |-> table]

EraseCopy ==
    /\ writer.pc = "erase"
    /\ copies' = [copies EXCEPT ![writer.i] = Blank]
    /\ writer' = [writer EXCEPT !.pc = "program"]
    /\ UNCHANGED <<content, running, lock, ota, tool, events, fails>>

\* Where the writer's task goes on
WriterDone ==
    /\ writer' = NoWriter /\ lock' = "none"
    /\ IF lock = "tool"
          THEN tool' = NoTool /\ UNCHANGED ota
          ELSE /\ ota' = [ota EXCEPT !.pc = IF ota.pc = "first" THEN "data" ELSE "reset"]
               /\ UNCHANGED tool

Enough == 2

\* A copy that does not read back is marked bad, and the next block tried.
ProgramCopy ==
    /\ writer.pc = "program"
    /\ \E ok \in {TRUE} \cup {fails = MaxFails} :
          LET success == IF ok THEN writer.success + 1 ELSE writer.success
          IN  /\ copies' = [copies EXCEPT ![writer.i] = IF ok THEN Copy(writer.table) ELSE Bad]
              /\ fails' = IF ok THEN fails ELSE fails + 1
              /\ events' = IF ok THEN events ELSE events \cup {"failed"}
              /\ IF success = Enough \/ writer.i = Copies
                    THEN WriterDone
                    ELSE /\ writer' = [writer EXCEPT !.pc = "erase", !.i = @ + 1,
                                                     !.success = success]
                         /\ UNCHANGED <<lock, ota, tool>>
    /\ UNCHANGED <<content, running>>
-----------------------------------------------------------------------------
(* update_ota_local_task and ota_flash_NAND *)

\* A second update is not started (TaskOTA).  An update beside a switch, which would
\* write back the table it read, is left out.
Start(v) ==
    /\ ota.pc = "idle" /\ tool.pc = "idle" /\ running # 0
    /\ ota' = [Idle EXCEPT !.pc = "receive", !.version = v, !.cur = 1]
    /\ UNCHANGED <<copies, content, running, lock, writer, tool, events, fails>>

Receive ==
    /\ ota.pc = "receive"
    /\ \E d \in {ota.version, NoVersion} :
          ota' = [ota EXCEPT !.data = d,
                             !.pc = IF ota.cur = 1 THEN "table" ELSE "data"]
    /\ UNCHANGED <<copies, content, running, lock, writer, tool, events, fails>>

\* The connection breaks: ret still tells of the block before.
Broken ==
    /\ ota.pc = "receive"
    /\ ota' = IF ota.cur = 1 THEN Idle ELSE [ota EXCEPT !.pc = "reset", !.cur = 0]
    /\ UNCHANGED <<copies, content, running, lock, writer, tool, events, fails>>

\* Mutant of Cleared: the record of the target stays.
ClearedNot(t) == t

\* The table without the record of the image to be replaced
Cleared(t) == [t EXCEPT ![Target] = NoRecord]

\* The loop reads up to the second readable copy and keeps that one.
ReadTable ==
    /\ ota.pc = "table" /\ lock = "none" /\ TwoCopies
    /\ LET table == copies[Least(ValidCopies \ {Least(ValidCopies)})].table
       IN  /\ ota' = [ota EXCEPT !.pc = "first", !.table = Cleared(table)]
           /\ events' = IF table[running].magic THEN events ELSE events \cup {"stale"}
    /\ UNCHANGED <<copies, content, running, lock, writer, tool, fails>>

\* With one copy or none it runs into the last block, and keeps the lock.
ReadTableFails ==
    /\ ota.pc = "table" /\ lock = "none" /\ ~TwoCopies
    /\ lock' = "ota" /\ ota' = Idle
    /\ UNCHANGED <<copies, content, running, writer, tool, events, fails>>

OtaWriteTable ==
    /\ ota.pc \in {"first", "final"}
    /\ WriteTable("ota", ota.table)
    /\ UNCHANGED <<copies, content, running, ota, tool, events, fails>>

\* Mutant of Free: the blocks of the image that runs are not looked at.
FreeOwn(t) == 1 .. Blocks \ {t[Target].blocks[k] : k \in DOMAIN t[Target].blocks}

Free(t) == 1 .. Blocks \ Taken(t)

\* The first free block from that of the last attempt on
Candidates == {b \in Free(ota.table) : b > ota.block}

EraseData ==
    /\ ota.pc = "data" /\ lock = "none" /\ Candidates # {}
    /\ LET b == Least(Candidates)
       IN  /\ content' = [content EXCEPT ![b] = NoVersion]
           /\ ota' = [ota EXCEPT !.pc = "pages", !.block = b]
    /\ lock' = "ota"
    /\ UNCHANGED <<copies, running, writer, tool, events, fails>>

NoBlock ==
    /\ ota.pc = "data" /\ Candidates = {}
    /\ ota' = Idle
    /\ UNCHANGED <<copies, content, running, lock, writer, tool, events, fails>>

\* The table in RAM when a block is in the flash; the last one sets the magic number.
Recorded(last) ==
    [ota.table EXCEPT ![Target] = [magic |-> last, blocks |-> Append(@.blocks, ota.block)]]

\* The pages are compared as they are written; the sum is that of what arrived.
ProgramData ==
    /\ ota.pc = "pages"
    /\ LET sum == ota.sum /\ ota.data = ota.version
           last == ota.cur = Length
       IN  /\ content' = [content EXCEPT ![ota.block] =
                             IF ota.data = ota.version THEN <<ota.version, ota.cur>>
                             ELSE NoVersion]
           /\ ota' = IF last /\ ~sum THEN Idle
                     ELSE [ota EXCEPT !.table = Recorded(last), !.sum = sum, !.data = NoVersion,
                                      !.block = 0,
                                      !.cur = IF last THEN @ ELSE @ + 1,
                                      !.pc = IF last THEN "final" ELSE "receive"]
    /\ lock' = "none"
    /\ UNCHANGED <<copies, running, writer, tool, events, fails>>

\* A block that fails is marked, and the next one tried.
DataFails ==
    /\ ota.pc = "pages" /\ fails < MaxFails
    /\ fails' = fails + 1 /\ lock' = "none"
    /\ ota' = [ota EXCEPT !.pc = "data"]
    /\ UNCHANGED <<copies, content, running, writer, tool, events>>
-----------------------------------------------------------------------------
(* sys_clear_ota_signature and sys_recover_ota_signature *)

\* Mutant of Switches: the other image is not looked at.
SwitchesAny(command, t) == TRUE

\* Clearing needs a magic number of the other image, recovering a record of it.
Switches(command, t) ==
    IF command = "clear" THEN t[Target].magic ELSE t[Target] # NoRecord

\* The first copy that is not bad is taken, a blank one too.
Command(command) ==
    /\ tool.pc = "idle" /\ ota.pc = "idle" /\ running # 0 /\ lock = "none"
    /\ LET t == copies[Least({i \in 1 .. Copies : copies[i].tag # "bad"})].table
       IN  tool' = IF ~Switches(command, t) THEN NoTool
                   ELSE [pc |-> "write",
                         table |-> IF command = "clear"
                                      THEN [t EXCEPT ![running].magic = FALSE]
                                      ELSE [t EXCEPT ![Target].magic = TRUE]]
    /\ UNCHANGED <<copies, content, running, lock, writer, ota, events, fails>>

ToolWriteTable ==
    /\ tool.pc = "write"
    /\ WriteTable("tool", tool.table)
    /\ events' = IF TwoCopies THEN events ELSE events \cup {"lone"}
    /\ UNCHANGED <<copies, content, running, ota, tool, fails>>
-----------------------------------------------------------------------------
\* A reset by the update or by the user, or a loss of power, at any time.
Restart ==
    /\ running' \in Booted
    /\ lock' = "none" /\ writer' = NoWriter /\ ota' = Idle /\ tool' = NoTool
    /\ UNCHANGED <<copies, content, events, fails>>

Next ==
    \/ EraseCopy \/ ProgramCopy
    \/ \E v \in Version : Start(v)
    \/ Receive \/ Broken \/ ReadTable \/ ReadTableFails \/ OtaWriteTable
    \/ EraseData \/ NoBlock \/ ProgramData \/ DataFails
    \/ \E command \in Commands : Command(command)
    \/ ToolWriteTable
    \/ Restart

Spec == Init /\ [][Next]_nandOtaVars
-----------------------------------------------------------------------------
Table == [Fw -> [magic : BOOLEAN, blocks : Seq(1 .. Blocks)]]

TypeOK ==
    /\ \A i \in 1 .. Copies :
          copies[i].tag \in {"blank", "bad", "table"} /\ copies[i].table \in Table
    /\ content \in [1 .. Blocks -> {NoVersion} \cup Version \X (1 .. Length)]
    /\ running \in 0 .. 2 /\ lock \in {"none", "ota", "tool"}
    /\ writer.pc \in {"off", "erase", "program"} /\ writer.table \in Table
    /\ ota.pc \in {"idle", "receive", "table", "first", "data", "pages", "final", "reset"}
    /\ ota.table \in Table /\ tool.table \in Table
    /\ tool.pc \in {"idle", "write"}
    /\ events \subseteq Event /\ fails \in 0 .. MaxFails

\* The image of a magic number in the table that is booted from is complete,
\* wherever the power is lost and whatever arrives.
NoTornImage ==
    events # {} \/
    \A i \in Fw : Bootable(i) =>
        \E v \in Version : WholeRecord(copies[Least(ValidCopies)].table[i], v)

\* There is an image to start at any time, unless an update has taken a table that
\* lacks the one that runs, or the copies left were fewer or older.
SomeImageBoots == events # {} \/ \E i \in Fw : Bootable(i)

\* When all blocks have arrived and the task announces the reboot, the image that it
\* announces is bootable and complete.
SuccessIsBootable ==
    ota.pc = "reset" /\ ota.cur = Length =>
        /\ Bootable(Target)
        /\ WholeRecord(copies[Least(ValidCopies)].table[Target], ota.version)

\* "clear fw1 record in partition table", "clear fw2 record in partition table"
\* (ota_8735b.c:192, 200): an update takes away the record of its target, so that
\* the image that runs can be started until the new one can.
NeverBricked == \E i \in Fw : Bootable(i)
=============================================================================
