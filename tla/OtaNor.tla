------------------------------- MODULE OtaNor -------------------------------
(***************************************************************************)
(* The firmware update of ota_8735b.c on a NOR flash, beside the calls of  *)
(* sys_api.c that switch between the two images.  An image is valid if its *)
(* label, the first eight bytes of its first block, is right; the update   *)
(* programs the label last.  The boot loader, which is not in the          *)
(* repository, starts any valid image.                                     *)
(***************************************************************************)
EXTENDS Naturals

CONSTANTS
    Version,      \* the images that a server offers
    NoVersion,
    Length,       \* of each version, in blocks
    Room,         \* of a partition, in blocks
    Commands      \* the switches that are used: a subset of {"clear", "recover"}

OtaNorAssumption ==
    /\ Length \in [Version -> Nat \ {0}]
    /\ Room \in Nat \ {0}
    /\ Commands \subseteq {"clear", "recover"}

VARIABLES
    label,        \* of each image, as it is in the flash
    content,      \* the version each block belongs to, NoVersion when it is damaged
    running,      \* hal_sys_get_ld_fw_idx(), 0 when nothing could be started
    lock,         \* who holds RT_DEV_LOCK_FLASH
    ota,          \* update_ota_local_task, and the statics of ota_flash_NOR
    tool,         \* the task in sys_clear_ota_signature or sys_recover_ota_signature
    crossed       \* have a switch and an update met in one run of the system?

otaVars == <<label, content, running, lock, ota, tool, crossed>>

Fw == 1 .. 2
Other(i) == 3 - i

\* A label keeps apart its first byte, which the switches invert, and the others.
Label == [first : {"right", "inverted", "blank", "zero"}, rest : {"right", "blank"}]
Erased == [first |-> "blank", rest |-> "blank"]
Right == [first |-> "right", rest |-> "right"]

\* pbuf[0] = ~pbuf[0]
Inverted(l) ==
    [l EXCEPT !.first = CASE l.first = "right" -> "inverted"
                          [] l.first = "inverted" -> "right"
                          [] l.first = "blank" -> "zero"
                          [] OTHER -> "blank"]

\* Programming the right label clears bits and sets none.
Programmed(l) ==
    [first |-> IF l.first \in {"blank", "right"} THEN "right" ELSE "zero", rest |-> "right"]

Valid(i) == label[i] = Right
WholeImage(i, v) == Length[v] <= Room /\ \A b \in 1 .. Length[v] : content[i][b] = v

Idle == [pc |-> "idle", version |-> NoVersion, cur |-> 0, data |-> NoVersion, sum |-> TRUE]
NoTool == [pc |-> "idle", fw |-> 0, label |-> Erased, block |-> NoVersion]

\* Image 1 comes from the factory, image 2 may have never been written.
Init ==
    /\ \E v \in Version, two \in BOOLEAN :
          /\ Length[v] <= Room
          /\ label = [i \in Fw |-> IF i = 1 \/ two THEN Right ELSE Erased]
          /\ content = [i \in Fw |-> [b \in 1 .. Room |->
                           IF (i = 1 \/ two) /\ b <= Length[v] THEN v ELSE NoVersion]]
    /\ running = 1 /\ lock = "none" /\ ota = Idle /\ tool = NoTool /\ crossed = FALSE
-----------------------------------------------------------------------------
(* update_ota_local_task *)

Target == Other(running)

\* A second update is not started (TaskOTA).
Start(v) ==
    /\ ota.pc = "idle" /\ running # 0
    /\ ota' = [Idle EXCEPT !.pc = "receive", !.version = v, !.cur = 1]
    /\ crossed' = (crossed \/ tool.pc # "idle" \/ ~Valid(running))
    /\ UNCHANGED <<label, content, running, lock, tool>>

\* A block arrives, as it was sent or damaged; the first tells if there is room.
Receive ==
    /\ ota.pc = "receive"
    /\ IF ota.cur = 1 /\ Length[ota.version] > Room
          THEN ota' = Idle
          ELSE \E d \in {ota.version, NoVersion} :
                  ota' = [ota EXCEPT !.pc = "erase", !.data = d]
    /\ UNCHANGED <<label, content, running, lock, tool, crossed>>

\* The connection breaks: ret still tells of the block before.
Broken ==
    /\ ota.pc = "receive"
    /\ ota' = IF ota.cur = 1 THEN Idle ELSE [ota EXCEPT !.pc = "reset"]
    /\ UNCHANGED <<label, content, running, lock, tool, crossed>>

EraseBlock ==
    /\ ota.pc = "erase" /\ lock = "none"
    /\ lock' = "ota"
    /\ content' = [content EXCEPT ![Target][ota.cur] = NoVersion]
    /\ label' = IF ota.cur = 1 THEN [label EXCEPT ![Target] = Erased] ELSE label
    /\ ota' = [ota EXCEPT !.pc = "program"]
    /\ UNCHANGED <<running, tool, crossed>>

\* Mutant of FirstLabel: the label is programmed with the first block.
FirstLabelRight == Right

\* What the first block is programmed with in place of the label
FirstLabel == Erased

ProgramBlock ==
    /\ ota.pc = "program"
    /\ lock' = "none"
    /\ \/ /\ content' = [content EXCEPT ![Target][ota.cur] = ota.data]
          /\ label' = IF ota.cur = 1 THEN [label EXCEPT ![Target] = FirstLabel] ELSE label
          /\ ota' = [ota EXCEPT !.pc = "sum"]
       \/ ota' = Idle /\ UNCHANGED <<label, content>>
    /\ UNCHANGED <<running, tool, crossed>>

\* Mutant of SumMatches: the checksum of the file is not compared.
SumMatchesAlways(sum) == TRUE

SumMatches(sum) == sum

\* The block is read back into the sum, which the last one compares.
Sum ==
    /\ ota.pc = "sum" /\ lock = "none"
    /\ LET sum == ota.sum /\ content[Target][ota.cur] = ota.version
       IN  ota' = IF ota.cur < Length[ota.version]
                     THEN [ota EXCEPT !.pc = "receive", !.cur = @ + 1, !.sum = sum]
                     ELSE IF SumMatches(sum) THEN [ota EXCEPT !.pc = "label"] ELSE Idle
    /\ UNCHANGED <<label, content, running, lock, tool, crossed>>

\* The label is read back, and printed only.
ProgramLabel ==
    /\ ota.pc = "label" /\ lock = "none"
    /\ \/ /\ label' = [label EXCEPT ![Target] = Programmed(@)]
          /\ ota' \in {[ota EXCEPT !.pc = "reset", !.cur = @ + 1], Idle}
       \/ ota' = Idle /\ UNCHANGED label
    /\ UNCHANGED <<content, running, lock, tool, crossed>>
-----------------------------------------------------------------------------
(* sys_clear_ota_signature and sys_recover_ota_signature *)

\* Mutant of Switches: the label of the other image is not looked at.
SwitchesAny(command) == TRUE

\* Clearing needs another image to start, recovering one that is not valid.
Switches(command) == (command = "clear") <=> Valid(Other(running))

\* Which image the command changes
Switched(command) == IF command = "clear" THEN running ELSE Other(running)

Command(command) ==
    /\ tool.pc = "idle" /\ running # 0 /\ lock = "none"
    /\ tool' = IF Switches(command)
                  THEN [NoTool EXCEPT !.pc = "erase", !.fw = Switched(command)]
                  ELSE NoTool
    /\ crossed' = (crossed \/ ota.pc # "idle")
    /\ UNCHANGED <<label, content, running, lock, ota>>

CommandErase ==
    /\ tool.pc = "erase" /\ lock = "none"
    /\ lock' = "tool"
    /\ tool' = [tool EXCEPT !.pc = "program", !.label = Inverted(label[tool.fw]),
                            !.block = content[tool.fw][1]]
    /\ label' = [label EXCEPT ![tool.fw] = Erased]
    /\ content' = [content EXCEPT ![tool.fw][1] = NoVersion]
    /\ UNCHANGED <<running, ota, crossed>>

\* The result of the write is not looked at.
CommandProgram ==
    /\ tool.pc = "program"
    /\ lock' = "none" /\ tool' = NoTool
    /\ \/ /\ label' = [label EXCEPT ![tool.fw] = tool.label]
          /\ content' = [content EXCEPT ![tool.fw][1] = tool.block]
       \/ UNCHANGED <<label, content>>
    /\ UNCHANGED <<running, ota, crossed>>
-----------------------------------------------------------------------------
\* A reset by the update or by the user, or a loss of power, at any time.
Restart ==
    /\ running' \in IF \E i \in Fw : Valid(i) THEN {i \in Fw : Valid(i)} ELSE {0}
    /\ lock' = "none" /\ ota' = Idle /\ tool' = NoTool
    /\ UNCHANGED <<label, content, crossed>>

Next ==
    \/ \E v \in Version : Start(v)
    \/ Receive \/ Broken \/ EraseBlock \/ ProgramBlock \/ Sum \/ ProgramLabel
    \/ \E command \in Commands : Command(command)
    \/ CommandErase \/ CommandProgram
    \/ Restart

Spec == Init /\ [][Next]_otaVars
-----------------------------------------------------------------------------
TypeOK ==
    /\ label \in [Fw -> Label]
    /\ content \in [Fw -> [1 .. Room -> Version \cup {NoVersion}]]
    /\ running \in 0 .. 2
    /\ lock \in {"none", "ota", "tool"}
    /\ ota.pc \in {"idle", "receive", "erase", "program", "sum", "label", "reset"}
    /\ tool.pc \in {"idle", "erase", "program"} /\ tool.fw \in 0 .. 2

\* The image of a valid label is complete, wherever the power is lost and whatever
\* arrives: the label is programmed last and after the checksum.
NoTornImage == crossed \/ \A i \in Fw : Valid(i) => \E v \in Version : WholeImage(i, v)

\* There is always an image to start: an update writes beside the running image, and
\* a switch invalidates it only for another one.
SomeImageBoots == crossed \/ \E i \in Fw : Valid(i)

\* When all blocks have arrived and the task announces the reboot, the image that it
\* announces is in the flash and valid.
SuccessIsBootable ==
    ~crossed /\ ota.pc = "reset" /\ ota.cur > Length[ota.version] =>
        Valid(Target) /\ WholeImage(Target, ota.version)
=============================================================================
