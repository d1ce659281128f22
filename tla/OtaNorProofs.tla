---------------------------- MODULE OtaNorProofs ----------------------------
(***************************************************************************)
(* An update beside the running image and a switch between the two leave  *)
(* a complete image to start, for any number, length and room of images.   *)
(***************************************************************************)
EXTENDS OtaNor, TLAPS

Known == Version \cup {NoVersion}

OtaType ==
    [pc : {"idle", "receive", "erase", "program", "sum", "label", "reset"},
     version : Known, cur : Nat, data : Known, sum : BOOLEAN]

Types ==
    /\ label \in [Fw -> Label]
    /\ content \in [Fw -> [1 .. Room -> Known]]
    /\ running \in 0 .. 2
    /\ lock \in {"none", "ota", "tool"}
    /\ ota \in OtaType
    /\ tool \in [pc : {"idle", "erase", "program"}, fw : 0 .. 2, label : Label,
                 block : Known]
    /\ tool.pc # "idle" => tool.fw \in Fw
    /\ crossed \in BOOLEAN

\* The lock is held between the erase and the program of a block.
Locked ==
    /\ lock = "ota" <=> ota.pc = "program"
    /\ lock = "tool" <=> tool.pc = "program"

\* How far an update is, whatever else happens
Position ==
    ota.pc # "idle" =>
        /\ running \in Fw /\ ota.version \in Version /\ ota.cur # 0
        /\ ota.pc # "receive" \/ ota.cur > 1 => Length[ota.version] <= Room
        /\ ota.pc # "reset" => ota.cur <= Length[ota.version]
        /\ ota.pc = "label" => ota.cur = Length[ota.version]

\* Once the first block is erased the label is, until all blocks are there.
LabelGone ==
    /\ ota.pc \in {"program", "sum", "label"} => label[Target] = Erased
    /\ ota.pc \in {"receive", "erase"} /\ ota.cur > 1 => label[Target] = Erased

\* The blocks before the one at hand are those of the version if the sum says so.
SumIsTrue ==
    ota.pc \in {"receive", "erase", "program", "sum"} /\ ota.sum =>
        \A b \in 1 .. ota.cur - 1 : content[Target][b] = ota.version

\* The sum was right when the label is programmed, and when the reset follows.
SumWasRight ==
    ota.pc = "label" \/ (ota.pc = "reset" /\ ota.cur > Length[ota.version]) =>
        WholeImage(Target, ota.version)

LabelRight == ota.pc = "reset" /\ ota.cur > Length[ota.version] => Valid(Target)

Updating ==
    /\ ota.pc # "idle" => tool.pc = "idle" /\ Valid(running)
    /\ LabelGone /\ SumIsTrue /\ SumWasRight /\ LabelRight

\* A label that is right, or would be after one more switch
Marked(l) == l.rest = "right" /\ l.first \in {"right", "inverted"}

MarkedIsWhole == \A i \in Fw : Marked(label[i]) => \E v \in Version : WholeImage(i, v)

\* A switch changes one image while the other is valid, and puts back what it erased.
Switching ==
    /\ tool.pc # "idle" => Valid(Other(tool.fw))
    /\ tool.pc = "program" /\ Marked(tool.label) =>
          \E v \in Version :
             /\ Length[v] <= Room /\ tool.block = v
             /\ \A b \in 2 .. Length[v] : content[tool.fw][b] = v

Images == Updating /\ MarkedIsWhole /\ Switching /\ \E i \in Fw : Valid(i)

IInv == Types /\ Locked /\ Position /\ (~crossed => Images)

LEMMA OtherFw ==
    ASSUME NEW i \in Fw
    PROVE  /\ Other(i) \in Fw /\ Other(i) # i /\ Other(Other(i)) = i
           /\ \A j \in Fw : j = i \/ j = Other(i)
  BY DEF Fw, Other

LEMMA LabelFacts ==
    /\ Right \in Label /\ Erased \in Label /\ Right # Erased
    /\ Marked(Right) /\ ~Marked(Erased)
    /\ Programmed(Erased) = Right
  BY DEF Right, Erased, Label, Marked, Programmed

LEMMA InvertedFacts ==
    ASSUME NEW l \in Label
    PROVE  Inverted(l) \in Label /\ (Marked(Inverted(l)) => Marked(l))
  <1> DEFINE f == CASE l.first = "right" -> "inverted"
                    [] l.first = "inverted" -> "right"
                    [] l.first = "blank" -> "zero"
                    [] OTHER -> "blank"
  <1>0. Inverted(l) = [first |-> f, rest |-> l.rest]
    BY DEF Inverted, Label
  <1>1. CASE l.first = "right"
    BY <1>0, <1>1 DEF Label, Marked
  <1>2. CASE l.first = "inverted"
    BY <1>0, <1>2 DEF Label, Marked
  <1>3. CASE l.first = "blank"
    BY <1>0, <1>3 DEF Label, Marked
  <1>4. CASE l.first = "zero"
    BY <1>0, <1>4 DEF Label, Marked
  <1> QED BY <1>1, <1>2, <1>3, <1>4 DEF Label

LEMMA ProgrammedType == ASSUME NEW l \in Label PROVE Programmed(l) \in Label
  BY DEF Programmed, Label

LEMMA InitHolds == ASSUME OtaNorAssumption, Init PROVE IInv
  <1>1. PICK v \in Version, two \in BOOLEAN :
           /\ Length[v] <= Room
           /\ label = [i \in Fw |-> IF i = 1 \/ two THEN Right ELSE Erased]
           /\ content = [i \in Fw |-> [b \in 1 .. Room |->
                            IF (i = 1 \/ two) /\ b <= Length[v] THEN v ELSE NoVersion]]
    BY DEF Init
  <1>2. /\ running = 1 /\ lock = "none" /\ ota = Idle /\ tool = NoTool
        /\ crossed = FALSE
    BY DEF Init
  <1>3. ota.pc = "idle" /\ tool.pc = "idle"
    BY <1>2 DEF Idle, NoTool
  <1>4. Types
    <2>1. label \in [Fw -> Label]
      BY <1>1, LabelFacts
    <2>2. content \in [Fw -> [1 .. Room -> Known]]
      BY <1>1 DEF Known
    <2>3. /\ NoVersion \in Known /\ Erased \in Label
          /\ running \in 0 .. 2 /\ 0 \in 0 .. 2
      BY <1>2, LabelFacts DEF Known
    <2>4. /\ ota \in OtaType
          /\ tool \in [pc : {"idle", "erase", "program"}, fw : 0 .. 2, label : Label,
                       block : Known]
      BY <1>2, <2>3 DEF OtaType, Idle, NoTool
    <2> QED BY <1>2, <1>3, <2>1, <2>2, <2>3, <2>4 DEF Types
  <1>5. Locked /\ Position
    BY <1>2, <1>3 DEF Locked, Position
  <1>6. Updating /\ Switching
    BY <1>3 DEF Updating, LabelGone, SumIsTrue, SumWasRight, LabelRight, Switching
  <1>7. MarkedIsWhole
    <2> SUFFICES ASSUME NEW i \in Fw, Marked(label[i]) PROVE WholeImage(i, v)
      BY DEF MarkedIsWhole
    <2>1. i = 1 \/ two
      BY <1>1, LabelFacts
    <2>2. Length[v] \in Nat
      BY DEF OtaNorAssumption
    <2> QED BY <1>1, <2>1, <2>2 DEF WholeImage, OtaNorAssumption
  <1>8. \E i \in Fw : Valid(i)
    BY <1>1 DEF Valid, Fw
  <1> QED BY <1>4, <1>5, <1>6, <1>7, <1>8 DEF IInv, Images

\* What a task that is idle next promises of an update: nothing.
LEMMA IdleNext ==
    ASSUME ota'.pc = "idle"
    PROVE  Position' /\ Updating'
  BY DEF Position, Updating, LabelGone, SumIsTrue, SumWasRight, LabelRight

LEMMA IdleType ==
    /\ Idle.pc = "idle"
    /\ Idle \in OtaType
  BY DEF Idle, OtaType, Known

LEMMA NextBlockType ==
    ASSUME Types, NEW sum \in BOOLEAN
    PROVE  /\ [ota EXCEPT !.pc = "receive", !.cur = ota.cur + 1, !.sum = sum] \in OtaType
           /\ [ota EXCEPT !.pc = "reset", !.cur = ota.cur + 1] \in OtaType
  <1>1. ota.cur + 1 \in Nat
    BY DEF Types, OtaType
  <1> QED BY <1>1 DEF Types, OtaType

\* A step that leaves the flash and the switches alone keeps what is said of them.
LEMMA FlashKept ==
    ASSUME UNCHANGED <<label, content, tool>>
    PROVE  /\ MarkedIsWhole => MarkedIsWhole'
           /\ Switching => Switching'
           /\ (\E i \in Fw : Valid(i)) => (\E i \in Fw : Valid(i))'
  <1>1. MarkedIsWhole => MarkedIsWhole'
    BY DEF MarkedIsWhole, WholeImage
  <1>2. Switching => Switching'
    BY DEF Switching, Valid
  <1>3. (\E i \in Fw : Valid(i)) => (\E i \in Fw : Valid(i))'
    BY DEF Valid
  <1> QED BY <1>1, <1>2, <1>3

LEMMA StartKeeps ==
    ASSUME OtaNorAssumption, IInv, NEW v \in Version, Start(v)
    PROVE  IInv'
  <1>1. /\ UNCHANGED <<label, content, running, lock, tool>>
        /\ crossed' = (crossed \/ tool.pc # "idle" \/ ~Valid(running))
        /\ ota.pc = "idle" /\ running # 0
    BY DEF Start
  <1>2. ota' = [pc |-> "receive", version |-> v, cur |-> 1, data |-> NoVersion,
                sum |-> TRUE]
    BY DEF Start, Idle
  <1>3. Length[v] \in Nat \ {0}
    BY DEF OtaNorAssumption
  <1>4. Types'
    BY <1>1, <1>2 DEF IInv, Types, OtaType, Known
  <1>5. Locked'
    BY <1>1, <1>2 DEF IInv, Locked
  <1>6. Position'
    BY <1>1, <1>2, <1>3 DEF IInv, Types, Position, Fw
  <1>7. ~crossed' => Images'
    <2> SUFFICES ASSUME ~crossed' PROVE Images'
      OBVIOUS
    <2>1. Images /\ tool.pc = "idle" /\ Valid(running)
      BY <1>1 DEF IInv
    <2>2. Updating'
      BY <1>1, <1>2, <2>1
      DEF Updating, LabelGone, SumIsTrue, SumWasRight, LabelRight, Valid
    <2> QED BY <1>1, <2>1, <2>2, FlashKept DEF Images
  <1> QED BY <1>4, <1>5, <1>6, <1>7 DEF IInv

LEMMA ReceiveKeeps ==
    ASSUME OtaNorAssumption, IInv, Receive
    PROVE  IInv'
  <1>1. /\ UNCHANGED <<label, content, running, lock, tool, crossed>>
        /\ ota.pc = "receive"
    BY DEF Receive
  <1>2. CASE ota' = Idle
    <2>1. Types' /\ Locked'
      BY <1>1, <1>2, IdleType DEF IInv, Types, Locked
    <2>2. ~crossed' => Images'
      BY <1>1, <1>2, IdleType, IdleNext, FlashKept DEF IInv, Images
    <2> QED BY <1>2, <2>1, <2>2, IdleType, IdleNext DEF IInv
  <1>3. CASE ~(ota.cur = 1 /\ Length[ota.version] > Room)
    <2>1. PICK d \in {ota.version, NoVersion} :
             ota' = [ota EXCEPT !.pc = "erase", !.data = d]
      BY <1>3 DEF Receive
    <2>2. ota.version \in Version /\ Length[ota.version] \in Nat \ {0} /\ Room \in Nat
      BY <1>1 DEF IInv, Position, OtaNorAssumption
    <2>3. Types'
      BY <1>1, <2>1, <2>2 DEF IInv, Types, OtaType, Known
    <2>4. /\ ota'.pc = "erase" /\ ota'.version = ota.version /\ ota'.cur = ota.cur
          /\ ota'.sum = ota.sum
      BY <2>1 DEF IInv, Types
    <2>5. Locked'
      BY <1>1, <2>4 DEF IInv, Locked
    <2>6. Position'
      BY <1>1, <1>3, <2>2, <2>4 DEF IInv, Types, OtaType, Position
    <2>7. ~crossed' => Images'
      <3> SUFFICES ASSUME ~crossed' PROVE Images'
        OBVIOUS
      <3>1. Images
        BY <1>1 DEF IInv
      <3>2. Updating'
        BY <1>1, <2>4, <3>1 DEF Images, Updating, LabelGone, SumIsTrue, SumWasRight,
                                LabelRight, Valid, Target
      <3> QED BY <1>1, <3>1, <3>2, FlashKept DEF Images
    <2> QED BY <2>3, <2>5, <2>6, <2>7 DEF IInv
  <1> QED BY <1>2, <1>3 DEF Receive

LEMMA BrokenKeeps ==
    ASSUME OtaNorAssumption, IInv, Broken
    PROVE  IInv'
  <1>1. /\ UNCHANGED <<label, content, running, lock, tool, crossed>>
        /\ ota.pc = "receive"
    BY DEF Broken
  <1>2. CASE ota.cur = 1
    <2>0. ota' = Idle
      BY <1>2 DEF Broken
    <2>1. Types' /\ Locked'
      BY <1>1, <2>0, IdleType DEF IInv, Types, Locked
    <2>2. ~crossed' => Images'
      BY <1>1, <2>0, IdleType, IdleNext, FlashKept DEF IInv, Images
    <2> QED BY <2>0, <2>1, <2>2, IdleType, IdleNext DEF IInv
  <1>3. CASE ota.cur # 1
    <2>1. ota' = [ota EXCEPT !.pc = "reset"]
      BY <1>3 DEF Broken
    <2>2. /\ ota.version \in Version /\ Length[ota.version] \in Nat
          /\ ota.cur \in Nat /\ ota.cur > 1 /\ ota.cur <= Length[ota.version]
      BY <1>1, <1>3 DEF IInv, Types, OtaType, Position, OtaNorAssumption
    <2>3. Types'
      BY <1>1, <2>1 DEF IInv, Types, OtaType
    <2>4. ota'.pc = "reset" /\ ota'.version = ota.version /\ ota'.cur = ota.cur
      BY <2>1 DEF IInv, Types
    <2>5. Locked'
      BY <1>1, <2>4 DEF IInv, Locked
    <2>6. Position'
      BY <1>1, <2>2, <2>4 DEF IInv, Position
    <2>7. ~crossed' => Images'
      <3> SUFFICES ASSUME ~crossed' PROVE Images'
        OBVIOUS
      <3>1. Images
        BY <1>1 DEF IInv
      <3>2. Updating'
        BY <1>1, <2>2, <2>4, <3>1 DEF Images, Updating, LabelGone, SumIsTrue,
                                      SumWasRight, LabelRight, Valid
      <3> QED BY <1>1, <3>1, <3>2, FlashKept DEF Images
    <2> QED BY <2>3, <2>5, <2>6, <2>7 DEF IInv
  <1> QED BY <1>2, <1>3

\* A step that changes the other image only, which is then unmarked or whole
LEMMA TargetOnly ==
    ASSUME running \in Fw, tool'.pc = "idle", Valid(running), MarkedIsWhole,
           label'[running] = label[running], content'[running] = content[running],
           \/ ~Marked(label'[Target])
           \/ \E v \in Version :
                 /\ Length[v] <= Room
                 /\ \A b \in 1 .. Length[v] : content'[Target][b] = v
    PROVE  MarkedIsWhole' /\ Switching' /\ (\E i \in Fw : Valid(i))'
  <1>1. (\E i \in Fw : Valid(i))'
    BY DEF Valid
  <1>2. Switching'
    BY DEF Switching
  <1>3. MarkedIsWhole'
    <2> SUFFICES ASSUME NEW i \in Fw, Marked(label'[i])
                 PROVE  \E v \in Version : WholeImage(i, v)'
      BY DEF MarkedIsWhole
    <2>1. CASE i = running
      BY <2>1 DEF MarkedIsWhole, WholeImage
    <2>2. CASE i = Target
      BY <2>2 DEF WholeImage
    <2> QED BY <2>1, <2>2, OtherFw DEF Target
  <1> QED BY <1>1, <1>2, <1>3

LEMMA EraseBlockKeeps ==
    ASSUME OtaNorAssumption, IInv, EraseBlock
    PROVE  IInv'
  <1>1. /\ UNCHANGED <<running, tool, crossed>>
        /\ ota.pc = "erase" /\ lock = "none" /\ lock' = "ota"
        /\ content' = [content EXCEPT ![Target][ota.cur] = NoVersion]
        /\ label' = IF ota.cur = 1 THEN [label EXCEPT ![Target] = Erased] ELSE label
        /\ ota' = [ota EXCEPT !.pc = "program"]
    BY DEF EraseBlock
  <1>2. /\ ota.version \in Version /\ Length[ota.version] \in Nat
        /\ ota.cur \in Nat /\ ota.cur # 0
        /\ running \in Fw /\ Target \in Fw /\ Target # running /\ Target' = Target
        /\ NoVersion \in Known
    BY <1>1, OtherFw DEF IInv, Types, OtaType, Position, OtaNorAssumption, Target, Known
  <1>3. /\ ota'.pc = "program" /\ ota'.version = ota.version /\ ota'.cur = ota.cur
        /\ ota'.sum = ota.sum
    BY <1>1 DEF IInv, Types
  <1>4. Types'
    <2>1. content' \in [Fw -> [1 .. Room -> Known]]
      BY <1>1, <1>2 DEF IInv, Types
    <2>2. label' \in [Fw -> Label]
      BY <1>1, <1>2, LabelFacts DEF IInv, Types
    <2> QED BY <1>1, <2>1, <2>2 DEF IInv, Types, OtaType
  <1>5. Locked'
    BY <1>1, <1>3 DEF IInv, Locked
  <1>6. Position'
    BY <1>1, <1>2, <1>3 DEF IInv, Position
  <1>7. ~crossed' => Images'
    <2> SUFFICES ASSUME ~crossed' PROVE Images'
      OBVIOUS
    <2>1. Images /\ tool.pc = "idle" /\ Valid(running)
      BY <1>1 DEF IInv, Images, Updating
    <2>2. label'[Target] = Erased /\ label'[running] = label[running]
      BY <1>1, <1>2, <2>1 DEF IInv, Types, Images, Updating, LabelGone
    <2>3. /\ content'[running] = content[running]
          /\ \A b \in 1 .. ota.cur - 1 : content'[Target][b] = content[Target][b]
      BY <1>1, <1>2 DEF IInv, Types
    <2>4. MarkedIsWhole' /\ Switching' /\ (\E i \in Fw : Valid(i))'
      BY <1>1, <1>2, <2>1, <2>2, <2>3, TargetOnly, LabelFacts DEF Images
    <2>5. SumIsTrue'
      BY <1>1, <1>2, <1>3, <2>1, <2>3 DEF Images, Updating, SumIsTrue
    <2>6. Updating'
      BY <1>1, <1>2, <1>3, <2>1, <2>2, <2>5
      DEF Updating, LabelGone, SumWasRight, LabelRight, Valid
    <2> QED BY <2>4, <2>6 DEF Images
  <1> QED BY <1>4, <1>5, <1>6, <1>7 DEF IInv

LEMMA ProgramBlockKeeps ==
    ASSUME OtaNorAssumption, IInv, ProgramBlock
    PROVE  IInv'
  <1>1. /\ UNCHANGED <<running, tool, crossed>>
        /\ ota.pc = "program" /\ lock' = "none"
        /\ tool.pc # "program"
    BY DEF ProgramBlock, IInv, Locked
  <1>2. /\ ota.version \in Version /\ Length[ota.version] \in Nat
        /\ ota.cur \in Nat /\ ota.cur # 0
        /\ running \in Fw /\ Target \in Fw /\ Target # running /\ Target' = Target
        /\ ota.data \in Known
    BY <1>1, OtherFw DEF IInv, Types, OtaType, Position, OtaNorAssumption, Target
  <1>3. CASE ota' = Idle /\ UNCHANGED <<label, content>>
    <2>1. Types' /\ Locked'
      BY <1>1, <1>3, IdleType DEF IInv, Types, Locked
    <2>2. ~crossed' => Images'
      BY <1>1, <1>3, IdleType, IdleNext, FlashKept DEF IInv, Images
    <2> QED BY <1>3, <2>1, <2>2, IdleType, IdleNext DEF IInv
  <1>4. CASE /\ content' = [content EXCEPT ![Target][ota.cur] = ota.data]
             /\ label' = IF ota.cur = 1 THEN [label EXCEPT ![Target] = FirstLabel]
                                       ELSE label
             /\ ota' = [ota EXCEPT !.pc = "sum"]
    <2>1. /\ ota'.pc = "sum" /\ ota'.version = ota.version /\ ota'.cur = ota.cur
          /\ ota'.sum = ota.sum
      BY <1>4 DEF IInv, Types
    <2>2. Types'
      <3>1. content' \in [Fw -> [1 .. Room -> Known]]
        BY <1>2, <1>4 DEF IInv, Types
      <3>2. label' \in [Fw -> Label]
        BY <1>2, <1>4, LabelFacts DEF IInv, Types, FirstLabel
      <3> QED BY <1>1, <1>4, <3>1, <3>2 DEF IInv, Types, OtaType
    <2>3. Locked'
      BY <1>1, <2>1 DEF IInv, Locked
    <2>4. Position'
      BY <1>1, <1>2, <2>1 DEF IInv, Position
    <2>5. ~crossed' => Images'
      <3> SUFFICES ASSUME ~crossed' PROVE Images'
        OBVIOUS
      <3>1. Images /\ tool.pc = "idle" /\ Valid(running)
        BY <1>1 DEF IInv, Images, Updating
      <3>2. label'[Target] = Erased /\ label'[running] = label[running]
        BY <1>1, <1>2, <1>4, <3>1
        DEF IInv, Types, Images, Updating, LabelGone, FirstLabel
      <3>3. /\ content'[running] = content[running]
            /\ \A b \in 1 .. ota.cur - 1 : content'[Target][b] = content[Target][b]
        BY <1>2, <1>4 DEF IInv, Types
      <3>4. MarkedIsWhole' /\ Switching' /\ (\E i \in Fw : Valid(i))'
        BY <1>1, <1>2, <3>1, <3>2, <3>3, TargetOnly, LabelFacts DEF Images
      <3>5. SumIsTrue'
        BY <1>1, <1>2, <2>1, <3>1, <3>3 DEF Images, Updating, SumIsTrue
      <3>6. Updating'
        BY <1>1, <1>2, <2>1, <3>1, <3>2, <3>5
        DEF Updating, LabelGone, SumWasRight, LabelRight, Valid
      <3> QED BY <3>4, <3>6 DEF Images
    <2> QED BY <2>2, <2>3, <2>4, <2>5 DEF IInv
  <1> QED BY <1>3, <1>4 DEF ProgramBlock

LEMMA SumKeeps ==
    ASSUME OtaNorAssumption, IInv, Sum
    PROVE  IInv'
  <1> DEFINE sum == ota.sum /\ content[Target][ota.cur] = ota.version
  <1>1. /\ UNCHANGED <<label, content, running, lock, tool, crossed>>
        /\ ota.pc = "sum" /\ Target' = Target
        /\ ota' = IF ota.cur < Length[ota.version]
                     THEN [ota EXCEPT !.pc = "receive", !.cur = @ + 1, !.sum = sum]
                     ELSE IF sum THEN [ota EXCEPT !.pc = "label"] ELSE Idle
    BY DEF Sum, SumMatches, Target
  <1>2. /\ ota.version \in Version /\ Length[ota.version] \in Nat
        /\ ota.cur \in Nat /\ ota.cur # 0 /\ ota.cur <= Length[ota.version]
        /\ Length[ota.version] <= Room
        /\ sum \in BOOLEAN
    BY <1>1 DEF IInv, Types, OtaType, Position, OtaNorAssumption
  <1>3. CASE ota' = Idle
    <2>1. Types' /\ Locked'
      BY <1>1, <1>3, IdleType DEF IInv, Types, Locked
    <2>2. ~crossed' => Images'
      BY <1>1, <1>3, IdleType, IdleNext, FlashKept DEF IInv, Images
    <2> QED BY <1>3, <2>1, <2>2, IdleType, IdleNext DEF IInv
  <1>4. CASE /\ ota.cur < Length[ota.version]
             /\ ota' = [ota EXCEPT !.pc = "receive", !.cur = ota.cur + 1, !.sum = sum]
    <2>1. /\ ota'.pc = "receive" /\ ota'.version = ota.version
          /\ ota'.cur = ota.cur + 1 /\ ota'.sum = sum
      BY <1>4 DEF IInv, Types
    <2>2. Types'
      BY <1>1, <1>2, <1>4, NextBlockType DEF IInv, Types
    <2>3. Locked' /\ Position'
      BY <1>1, <1>2, <1>4, <2>1 DEF IInv, Types, Locked, Position
    <2>4. ~crossed' => Images'
      <3> SUFFICES ASSUME ~crossed' PROVE Images'
        OBVIOUS
      <3>1. Images
        BY <1>1 DEF IInv
      <3>2. SumIsTrue'
        <4> SUFFICES ASSUME ota'.sum, NEW b \in 1 .. ota.cur
                     PROVE  content'[Target][b] = ota.version
          BY <1>1, <1>2, <2>1 DEF SumIsTrue
        <4>1. CASE b = ota.cur
          BY <1>1, <2>1, <4>1
        <4>2. CASE b \in 1 .. ota.cur - 1
          BY <1>1, <2>1, <3>1, <4>2 DEF Images, Updating, SumIsTrue
        <4> QED BY <1>2, <4>1, <4>2
      <3>3. Updating'
        BY <1>1, <2>1, <3>1, <3>2 DEF Images, Updating, LabelGone, SumWasRight,
                                      LabelRight, Valid
      <3> QED BY <1>1, <3>1, <3>3, FlashKept DEF Images
    <2> QED BY <2>2, <2>3, <2>4 DEF IInv
  <1>5. CASE /\ ota.cur >= Length[ota.version] /\ sum
             /\ ota' = [ota EXCEPT !.pc = "label"]
    <2>1. /\ ota'.pc = "label" /\ ota'.version = ota.version /\ ota'.cur = ota.cur
          /\ ota.cur = Length[ota.version]
      BY <1>2, <1>5 DEF IInv, Types
    <2>2. Types'
      BY <1>1, <1>5 DEF IInv, Types, OtaType
    <2>3. Locked' /\ Position'
      BY <1>1, <1>2, <2>1 DEF IInv, Types, Locked, Position
    <2>4. ~crossed' => Images'
      <3> SUFFICES ASSUME ~crossed' PROVE Images'
        OBVIOUS
      <3>1. Images
        BY <1>1 DEF IInv
      <3>2. WholeImage(Target, ota.version)
        <4> SUFFICES ASSUME NEW b \in 1 .. Length[ota.version]
                     PROVE  content[Target][b] = ota.version
          BY <1>2 DEF WholeImage
        <4>1. CASE b = ota.cur
          BY <1>5, <4>1
        <4>2. CASE b \in 1 .. ota.cur - 1
          BY <1>1, <1>5, <3>1, <4>2 DEF Images, Updating, SumIsTrue
        <4> QED BY <1>2, <2>1, <4>1, <4>2
      <3>3. SumWasRight'
        BY <1>1, <2>1, <3>2 DEF SumWasRight, WholeImage, Target
      <3>4. Updating'
        BY <1>1, <2>1, <3>1, <3>3 DEF Images, Updating, LabelGone, SumIsTrue,
                                      LabelRight, Valid
      <3> QED BY <1>1, <3>1, <3>4, FlashKept DEF Images
    <2> QED BY <2>2, <2>3, <2>4 DEF IInv
  <1>6. CASE ota.cur < Length[ota.version]
    BY <1>1, <1>4, <1>6
  <1>7. CASE ~(ota.cur < Length[ota.version])
    <2>1. ota.cur >= Length[ota.version]
      BY <1>2, <1>7
    <2> QED BY <1>1, <1>3, <1>5, <1>7, <2>1
  <1> QED BY <1>6, <1>7

LEMMA ProgramLabelKeeps ==
    ASSUME OtaNorAssumption, IInv, ProgramLabel
    PROVE  IInv'
  <1>1. /\ UNCHANGED <<content, running, lock, tool, crossed>>
        /\ ota.pc = "label" /\ lock = "none" /\ Target' = Target
    BY DEF ProgramLabel, Target
  <1>2. /\ ota.version \in Version /\ Length[ota.version] \in Nat
        /\ ota.cur = Length[ota.version] /\ Length[ota.version] <= Room
        /\ running \in Fw /\ Target \in Fw /\ Target # running
    BY <1>1, OtherFw DEF IInv, Types, Position, OtaNorAssumption, Target
  <1>3. CASE label' = label /\ ota' = Idle
    <2>1. Types' /\ Locked'
      BY <1>1, <1>3, IdleType DEF IInv, Types, Locked
    <2>2. ~crossed' => Images'
      BY <1>1, <1>3, IdleType, IdleNext, FlashKept DEF IInv, Images
    <2> QED BY <1>3, <2>1, <2>2, IdleType, IdleNext DEF IInv
  <1>4. CASE /\ label' = [label EXCEPT ![Target] = Programmed(label[Target])]
             /\ ota' \in {[ota EXCEPT !.pc = "reset", !.cur = ota.cur + 1], Idle}
    <2>1. label' \in [Fw -> Label]
      BY <1>2, <1>4, ProgrammedType DEF IInv, Types
    <2>2. \/ ota' = Idle
          \/ /\ ota'.pc = "reset" /\ ota'.version = ota.version
             /\ ota'.cur = ota.cur + 1
      BY <1>4 DEF IInv, Types, OtaType
    <2>3. Types'
      BY <1>1, <1>4, <2>1, IdleType, NextBlockType DEF IInv, Types
    <2>4. Locked'
      BY <1>1, <2>2, IdleType DEF IInv, Locked
    <2>5. Position'
      BY <1>1, <1>2, <2>2, IdleType DEF Position
    <2>6. ~crossed' => Images'
      <3> SUFFICES ASSUME ~crossed' PROVE Images'
        OBVIOUS
      <3>1. /\ Images /\ tool.pc = "idle" /\ Valid(running)
            /\ label[Target] = Erased /\ WholeImage(Target, ota.version)
        BY <1>1 DEF IInv, Images, Updating, LabelGone, SumWasRight
      <3>2. label'[Target] = Right /\ label'[running] = label[running]
        BY <1>2, <1>4, <3>1, LabelFacts DEF IInv, Types
      <3>3. \A b \in 1 .. Length[ota.version] : content'[Target][b] = ota.version
        BY <1>1, <3>1 DEF WholeImage
      <3>4. MarkedIsWhole' /\ Switching' /\ (\E i \in Fw : Valid(i))'
        BY <1>1, <1>2, <3>1, <3>2, <3>3, TargetOnly DEF Images
      <3>5. Updating'
        <4>1. CASE ota' = Idle
          BY <4>1, IdleType, IdleNext
        <4>2. CASE ota'.pc = "reset" /\ ota'.version = ota.version
          BY <1>1, <1>2, <3>1, <3>2, <3>3, <4>2
          DEF Updating, LabelGone, SumIsTrue, SumWasRight, LabelRight, WholeImage, Valid
        <4> QED BY <2>2, <4>1, <4>2
      <3> QED BY <3>4, <3>5 DEF Images
    <2> QED BY <2>3, <2>4, <2>5, <2>6 DEF IInv
  <1>5. \/ /\ label' = [label EXCEPT ![Target] = Programmed(label[Target])]
           /\ ota' \in {[ota EXCEPT !.pc = "reset", !.cur = ota.cur + 1], Idle}
        \/ ota' = Idle /\ UNCHANGED label
    BY DEF ProgramLabel
  <1> QED BY <1>3, <1>4, <1>5

\* What a switch that is over promises: nothing.
LEMMA NoToolFacts ==
    /\ NoTool.pc = "idle"
    /\ NoTool \in [pc : {"idle", "erase", "program"}, fw : 0 .. 2, label : Label,
                   block : Known]
  <1>1. NoVersion \in Known /\ 0 \in 0 .. 2
    BY DEF Known
  <1> QED BY <1>1, LabelFacts DEF NoTool

LEMMA CommandKeeps ==
    ASSUME OtaNorAssumption, IInv, NEW command \in Commands, Command(command)
    PROVE  IInv'
  <1>1. /\ UNCHANGED <<label, content, running, lock, ota>>
        /\ crossed' = (crossed \/ ota.pc # "idle")
        /\ tool.pc = "idle" /\ running \in Fw
    BY DEF Command, IInv, Types, Fw
  <1>2. command \in {"clear", "recover"}
    BY DEF OtaNorAssumption
  <1>3. Position'
    BY <1>1 DEF IInv, Position
  <1>4. ~crossed' => Updating' /\ MarkedIsWhole' /\ (\E i \in Fw : Valid(i))'
    <2> SUFFICES ASSUME ~crossed'
                 PROVE  Updating' /\ MarkedIsWhole' /\ (\E i \in Fw : Valid(i))'
      OBVIOUS
    <2>1. Images /\ ota'.pc = "idle"
      BY <1>1 DEF IInv
    <2>2. Updating'
      BY <2>1, IdleNext
    <2>3. MarkedIsWhole'
      BY <1>1, <2>1 DEF Images, MarkedIsWhole, WholeImage
    <2> QED BY <1>1, <2>1, <2>2, <2>3 DEF Images, Valid
  <1>5. CASE tool' = NoTool
    <2>1. Types' /\ Locked'
      BY <1>1, <1>5, NoToolFacts DEF IInv, Types, Locked
    <2>2. Switching'
      BY <1>5, NoToolFacts DEF Switching
    <2> QED BY <1>3, <1>4, <2>1, <2>2 DEF IInv, Images
  <1>6. CASE /\ Switches(command)
             /\ tool' = [NoTool EXCEPT !.pc = "erase", !.fw = Switched(command)]
    <2>1. Switched(command) \in Fw
      BY <1>1, <1>2, OtherFw DEF Switched
    <2>2. /\ tool'.pc = "erase" /\ tool'.fw = Switched(command)
          /\ tool' \in [pc : {"idle", "erase", "program"}, fw : 0 .. 2, label : Label,
                        block : Known]
      <3>1. tool' = [pc |-> "erase", fw |-> Switched(command), label |-> Erased,
                     block |-> NoVersion]
        BY <1>6 DEF NoTool
      <3>2. Switched(command) \in 0 .. 2 /\ Erased \in Label /\ NoVersion \in Known
        BY <2>1, LabelFacts DEF Fw, Known
      <3> QED BY <3>1, <3>2
    <2>3. Types'
      BY <1>1, <2>1, <2>2 DEF IInv, Types
    <2>4. Locked'
      BY <1>1, <2>2 DEF IInv, Locked
    <2>5. ~crossed' => Switching'
      <3> SUFFICES ASSUME ~crossed' PROVE Valid(Other(Switched(command)))
        BY <1>1, <2>2 DEF Switching, Valid
      <3>1. \E i \in Fw : Valid(i)
        BY <1>1 DEF IInv, Images
      <3>2. CASE command = "clear"
        BY <1>6, <3>2 DEF Switches, Switched
      <3>3. CASE command = "recover"
        <4>1. ~Valid(Other(running))
          BY <1>6, <3>3 DEF Switches
        <4>2. Valid(running)
          BY <1>1, <3>1, <4>1, OtherFw
        <4> QED BY <1>1, <3>3, <4>2, OtherFw DEF Switched
      <3> QED BY <1>2, <3>2, <3>3
    <2> QED BY <1>3, <1>4, <2>3, <2>4, <2>5 DEF IInv, Images
  <1> QED BY <1>5, <1>6 DEF Command

\* An update waits while an image is switched, unless the two have met.
LEMMA SwitchAlone ==
    ASSUME IInv, tool.pc # "idle", ~crossed
    PROVE  /\ Images /\ ota.pc = "idle"
           /\ tool.fw \in Fw /\ Other(tool.fw) \in Fw /\ Other(tool.fw) # tool.fw
           /\ Valid(Other(tool.fw))
  <1>1. Images /\ tool.fw \in Fw
    BY DEF IInv, Types
  <1> QED BY <1>1, OtherFw DEF Images, Updating, Switching

LEMMA CommandEraseKeeps ==
    ASSUME OtaNorAssumption, IInv, CommandErase
    PROVE  IInv'
  <1> DEFINE fw == tool.fw
  <1>1. /\ UNCHANGED <<running, ota, crossed>>
        /\ tool.pc = "erase" /\ lock = "none" /\ lock' = "tool"
        /\ tool' = [tool EXCEPT !.pc = "program", !.label = Inverted(label[fw]),
                               !.block = content[fw][1]]
        /\ label' = [label EXCEPT ![fw] = Erased]
        /\ content' = [content EXCEPT ![fw][1] = NoVersion]
    BY DEF CommandErase
  <1>2. /\ fw \in Fw /\ 1 \in 1 .. Room /\ NoVersion \in Known
        /\ Inverted(label[fw]) \in Label /\ content[fw][1] \in Known
    BY <1>1, InvertedFacts DEF IInv, Types, OtaNorAssumption, Known
  <1>3. /\ tool'.pc = "program" /\ tool'.fw = fw
        /\ tool'.label = Inverted(label[fw]) /\ tool'.block = content[fw][1]
    BY <1>1 DEF IInv, Types
  <1>4. Types'
    <2>1. content' \in [Fw -> [1 .. Room -> Known]]
      BY <1>1, <1>2 DEF IInv, Types
    <2>2. label' \in [Fw -> Label]
      BY <1>1, <1>2, LabelFacts DEF IInv, Types
    <2>3. tool' \in [pc : {"idle", "erase", "program"}, fw : 0 .. 2, label : Label,
                    block : Known]
      BY <1>1, <1>2 DEF IInv, Types
    <2> QED BY <1>1, <1>2, <1>3, <2>1, <2>2, <2>3 DEF IInv, Types
  <1>5. Locked' /\ Position'
    BY <1>1, <1>3 DEF IInv, Locked, Position
  <1>6. ~crossed' => Images'
    <2> SUFFICES ASSUME ~crossed' PROVE Images'
      OBVIOUS
    <2>1. /\ Images /\ ota.pc = "idle" /\ Other(fw) \in Fw /\ Other(fw) # fw
          /\ Valid(Other(fw))
      BY <1>1, SwitchAlone
    <2>2. label'[fw] = Erased /\ label'[Other(fw)] = label[Other(fw)]
      BY <1>1, <1>2, <2>1 DEF IInv, Types
    <2>3. content'[Other(fw)] = content[Other(fw)]
      BY <1>1, <1>2, <2>1 DEF IInv, Types
    <2>4. Updating'
      BY <1>1, <2>1, IdleNext
    <2>5. MarkedIsWhole'
      <3> SUFFICES ASSUME NEW i \in Fw, Marked(label'[i])
                   PROVE  (\E v \in Version : WholeImage(i, v))'
        BY DEF MarkedIsWhole
      <3>1. i = Other(fw)
        BY <1>2, <2>2, LabelFacts, OtherFw
      <3> QED BY <2>1, <2>2, <2>3, <3>1 DEF Images, MarkedIsWhole, WholeImage
    <2>6. Switching'
      <3>1. Valid(Other(tool.fw))'
        BY <1>3, <2>1, <2>2 DEF Valid
      <3>2. ASSUME Marked(Inverted(label[fw]))
            PROVE  \E v \in Version :
                      /\ Length[v] <= Room /\ content[fw][1] = v
                      /\ \A b \in 2 .. Length[v] : content'[fw][b] = v
        <4>1. Marked(label[fw])
          BY <1>2, <3>2, InvertedFacts DEF IInv, Types
        <4>2. PICK v \in Version : WholeImage(fw, v)
          BY <1>2, <2>1, <4>1 DEF Images, MarkedIsWhole
        <4>3. Length[v] \in Nat \ {0} /\ Room \in Nat
          BY DEF OtaNorAssumption
        <4>4. content[fw][1] = v
          BY <4>2, <4>3 DEF WholeImage
        <4>5. ASSUME NEW b \in 2 .. Length[v] PROVE content'[fw][b] = v
          <5>1. b \in 1 .. Room /\ b # 1 /\ b \in 1 .. Length[v]
            BY <4>2, <4>3 DEF WholeImage
          <5>2. content'[fw][b] = content[fw][b]
            BY <1>1, <1>2, <5>1 DEF IInv, Types
          <5> QED BY <4>2, <5>1, <5>2 DEF WholeImage
        <4> QED BY <4>2, <4>4, <4>5 DEF WholeImage
      <3> QED BY <1>3, <3>1, <3>2 DEF Switching
    <2> QED BY <2>1, <2>2, <2>4, <2>5, <2>6 DEF Images, Valid
  <1> QED BY <1>4, <1>5, <1>6 DEF IInv

LEMMA CommandProgramKeeps ==
    ASSUME OtaNorAssumption, IInv, CommandProgram
    PROVE  IInv'
  <1> DEFINE fw == tool.fw
  <1>1. /\ UNCHANGED <<running, ota, crossed>>
        /\ tool.pc = "program" /\ lock' = "none" /\ tool' = NoTool
        /\ ota.pc # "program"
    BY DEF CommandProgram, IInv, Locked
  <1>2. fw \in Fw /\ 1 \in 1 .. Room /\ tool.block \in Known /\ tool.label \in Label
    BY <1>1 DEF IInv, Types, OtaNorAssumption
  <1>3. Locked' /\ Position'
    BY <1>1, NoToolFacts DEF IInv, Locked, Position
  <1>4. Switching'
    BY <1>1, NoToolFacts DEF Switching
  <1>5. CASE UNCHANGED <<label, content>>
    <2>1. Types'
      BY <1>1, <1>5, NoToolFacts DEF IInv, Types
    <2>2. ~crossed' => Images'
      <3> SUFFICES ASSUME ~crossed' PROVE Images'
        OBVIOUS
      <3>1. Images /\ ota.pc = "idle"
        BY <1>1, SwitchAlone
      <3>2. MarkedIsWhole'
        BY <1>5, <3>1 DEF Images, MarkedIsWhole, WholeImage
      <3> QED BY <1>1, <1>4, <1>5, <3>1, <3>2, IdleNext DEF Images, Valid
    <2> QED BY <1>3, <2>1, <2>2 DEF IInv
  <1>6. CASE /\ label' = [label EXCEPT ![fw] = tool.label]
             /\ content' = [content EXCEPT ![fw][1] = tool.block]
    <2>1. Types'
      <3>1. content' \in [Fw -> [1 .. Room -> Known]]
        BY <1>2, <1>6 DEF IInv, Types
      <3>2. label' \in [Fw -> Label]
        BY <1>2, <1>6 DEF IInv, Types
      <3> QED BY <1>1, <3>1, <3>2, NoToolFacts DEF IInv, Types
    <2>2. ~crossed' => Images'
      <3> SUFFICES ASSUME ~crossed' PROVE Images'
        OBVIOUS
      <3>1. /\ Images /\ ota.pc = "idle" /\ Other(fw) \in Fw /\ Other(fw) # fw
            /\ Valid(Other(fw))
        BY <1>1, SwitchAlone
      <3>2. /\ label'[fw] = tool.label /\ label'[Other(fw)] = label[Other(fw)]
            /\ content'[Other(fw)] = content[Other(fw)]
        BY <1>2, <1>6, <3>1 DEF IInv, Types
      <3>3. ASSUME Marked(tool.label)
            PROVE  \E v \in Version :
                      /\ Length[v] <= Room
                      /\ \A b \in 1 .. Length[v] : content'[fw][b] = v
        <4>1. PICK v \in Version :
                 /\ Length[v] <= Room /\ tool.block = v
                 /\ \A b \in 2 .. Length[v] : content[fw][b] = v
          BY <1>1, <3>1, <3>3 DEF Images, Switching
        <4>2. Length[v] \in Nat \ {0} /\ Room \in Nat
          BY DEF OtaNorAssumption
        <4>3. ASSUME NEW b \in 1 .. Length[v] PROVE content'[fw][b] = v
          <5>1. CASE b = 1
            BY <1>2, <1>6, <4>1, <5>1 DEF IInv, Types
          <5>2. CASE b # 1
            <6>1. b \in 2 .. Length[v] /\ b \in 1 .. Room
              BY <4>1, <4>2, <5>2
            <6> QED BY <1>2, <1>6, <4>1, <5>2, <6>1 DEF IInv, Types
          <5> QED BY <5>1, <5>2
        <4> QED BY <4>1, <4>3
      <3>4. MarkedIsWhole'
        <4> SUFFICES ASSUME NEW i \in Fw, Marked(label'[i])
                     PROVE  (\E v \in Version : WholeImage(i, v))'
          BY DEF MarkedIsWhole
        <4>1. CASE i = fw
          BY <3>2, <3>3, <4>1 DEF WholeImage
        <4>2. CASE i = Other(fw)
          BY <3>1, <3>2, <4>2 DEF Images, MarkedIsWhole, WholeImage
        <4> QED BY <1>2, <4>1, <4>2, OtherFw
      <3> QED BY <1>1, <1>4, <3>1, <3>2, <3>4, IdleNext DEF Images, Valid
    <2> QED BY <1>3, <2>1, <2>2 DEF IInv
  <1> QED BY <1>5, <1>6 DEF CommandProgram

LEMMA RestartKeeps ==
    ASSUME OtaNorAssumption, IInv, Restart
    PROVE  IInv'
  <1>1. /\ UNCHANGED <<label, content, crossed>>
        /\ lock' = "none" /\ ota' = Idle /\ tool' = NoTool
        /\ running' \in 0 .. 2
    BY DEF Restart, Fw
  <1>2. Types' /\ Locked'
    BY <1>1, IdleType, NoToolFacts DEF IInv, Types, Locked
  <1>3. ~crossed' => Images'
    <2> SUFFICES ASSUME ~crossed' PROVE Images'
      OBVIOUS
    <2>1. Images
      BY <1>1 DEF IInv
    <2>2. Switching'
      BY <1>1, NoToolFacts DEF Switching
    <2>3. MarkedIsWhole'
      BY <1>1, <2>1 DEF Images, MarkedIsWhole, WholeImage
    <2> QED BY <1>1, <2>1, <2>2, <2>3, IdleType, IdleNext DEF Images, Valid
  <1> QED BY <1>1, <1>2, <1>3, IdleType, IdleNext DEF IInv

LEMMA StutterKeeps == ASSUME IInv, UNCHANGED otaVars PROVE IInv'
  <1>1. Types' /\ Locked' /\ Position'
    BY DEF IInv, otaVars, Types, Locked, Position
  <1>2. Updating => Updating'
    BY DEF otaVars, Updating, LabelGone, SumIsTrue, SumWasRight, LabelRight, WholeImage,
           Valid, Target
  <1> QED BY <1>1, <1>2, FlashKept DEF IInv, Images, otaVars

LEMMA Inductive == ASSUME OtaNorAssumption, IInv, [Next]_otaVars PROVE IInv'
  BY StartKeeps, ReceiveKeeps, BrokenKeeps, EraseBlockKeeps, ProgramBlockKeeps, SumKeeps,
     ProgramLabelKeeps, CommandKeeps, CommandEraseKeeps, CommandProgramKeeps,
     RestartKeeps, StutterKeeps DEF Next

LEMMA Strong ==
    ASSUME OtaNorAssumption, IInv
    PROVE  TypeOK /\ NoTornImage /\ SomeImageBoots /\ SuccessIsBootable
  <1>1. TypeOK
    BY DEF IInv, Types, OtaType, TypeOK, Known
  <1>2. NoTornImage
    <2> SUFFICES ASSUME ~crossed, NEW i \in Fw, Valid(i)
                 PROVE  \E v \in Version : WholeImage(i, v)
      BY DEF NoTornImage
    <2> QED BY LabelFacts DEF IInv, Images, MarkedIsWhole, Valid
  <1>3. SomeImageBoots
    BY DEF IInv, Images, SomeImageBoots
  <1>4. SuccessIsBootable
    BY DEF IInv, Images, Updating, SumWasRight, LabelRight, SuccessIsBootable
  <1> QED BY <1>1, <1>2, <1>3, <1>4

LEMMA Always == ASSUME OtaNorAssumption PROVE Spec => []IInv
  BY InitHolds, Inductive, PTL DEF Spec

\* For every number and length of versions and every room: a valid label stands for a
\* complete image, wherever update_ota_local_task or a switch is cut short.
THEOREM NoTornImageAlways ==
    ASSUME OtaNorAssumption PROVE Spec => [](TypeOK /\ NoTornImage)
  BY Always, Strong, PTL

\* One of the two images can always be started: the update writes beside the running
\* one, and sys_clear_ota_signature looks at the other one first.
THEOREM SomeImageAlwaysBoots ==
    ASSUME OtaNorAssumption PROVE Spec => []SomeImageBoots
  BY Always, Strong, PTL

\* When the task resets after the last block, the version it received is complete and
\* valid in the flash.
THEOREM SuccessAlwaysBootable ==
    ASSUME OtaNorAssumption PROVE Spec => []SuccessIsBootable
  BY Always, Strong, PTL
=============================================================================
