------------------------------ MODULE MCParts ------------------------------
(***************************************************************************)
(* The components that stand by themselves, in one run: part says which of *)
(* them moves, the others stay as they began.                              *)
(***************************************************************************)
EXTENDS FtlTable, Sequences, TLC

CONSTANTS
    Task, None,
    Device,                                                     \* DeviceLock
    NandPage, Sector, BlockPages, Size, Requests, MaxCalls,     \* FtlCommon
    Client, NoClient, Rows, Width, PoolStart, PoolEnd, Local,   \* Dhcps
    Timer, Handle, NoHandle,                                    \* TimerService
    Version, NoVersion, Small, Big, Room, Commands,             \* OtaNor
    Length, Copies, Blocks, MaxFails,                           \* OtaNand
    Streams, Blocking, MaxStarts, MaxSetups, MaxTokens          \* Rtsp

VARIABLES
    part,
    boot, cell, pbuf, pointed, handle, holder, raced, up, place, req, todo, left,
    got, before, hurt, made,
    mutex_init, device_mutex, owner, step, wants,
    state, request_ip, allocated, marked, mac, ip, joined, lease, address, dropped,
    strayed,
    timer_hdl, timer_table, existing, armed, commands, at, arming, quiet, called,
    content, running, lock, ota, tool, label, crossed,          \* OtaNor
    copies, writer, events, fails,                              \* OtaNand has the first five too
    rtsp_state, server, castMode, setup_done, nb_streams_setup, stalled, restarted,
    start_rtp_sema, is_rtp_start, sender, media, input_queue, output_queue, ready,
    rtp_input_sema, rtp_output_sema

Off == "off"

C == INSTANCE FtlCommon
D == INSTANCE DeviceLock
S == INSTANCE Dhcps
T == INSTANCE TimerService

\* The lengths of the images for a NOR flash: one has no room.
Versions == Version \cup {Small, Big}
Lengths == [v \in Versions |-> IF v = Small THEN 1 ELSE IF v = Big THEN Room + 1 ELSE Room]

N == INSTANCE OtaNor WITH Version <- Versions, Length <- Lengths
O == INSTANCE OtaNand
R == INSTANCE Rtsp WITH state <- rtsp_state

ASSUME CommonHolds == C!CommonAssumption
ASSUME DeviceHolds == D!DeviceLockAssumption
ASSUME DhcpsHolds == S!DhcpsAssumption
ASSUME TimerHolds == T!TimerAssumption
ASSUME OtaNorHolds == N!OtaNorAssumption
ASSUME OtaNandHolds == O!OtaNandAssumption
ASSUME RtspHolds == R!RtspAssumption

\* The server treats its clients alike, the updates the versions of a length.
Alike == Permutations(Client) \cup Permutations(Version)

\* Places whose entries set and clear every nibble of the table.
SomePlaces == {<<0, 2>>, <<3, 340>>, <<5, 682>>, <<7, 1022>>}

\* Reads and writes across sectors and blocks, erases on and off their borders.
SomeRequests ==
    {[op |-> "read", address |-> 0, size |-> 6],
     [op |-> "read", address |-> 3, size |-> 8],
     [op |-> "write", address |-> 3, size |-> 6],
     [op |-> "write", address |-> 4, size |-> 2],
     [op |-> "erase", address |-> 4, size |-> 4],
     [op |-> "erase", address |-> 2, size |-> 0],
     [op |-> "wipe", address |-> 4, size |-> 4],
     [op |-> "wipe", address |-> 2, size |-> 4]}

commonVars ==
    <<boot, cell, pbuf, pointed, handle, holder, raced, up, place, req, todo, left,
      got, before, hurt, made>>
deviceVars == <<mutex_init, device_mutex, owner, step, wants>>
dhcpsVars ==
    <<state, request_ip, allocated, marked, mac, ip, joined, lease, address, dropped,
      strayed>>
timerVars ==
    <<timer_hdl, timer_table, existing, armed, commands, at, arming, quiet, called>>

otaVars == <<content, running, lock, ota, tool>>
norVars == <<label, crossed>>
nandVars == <<copies, writer, events, fails>>
updateVars == <<otaVars, norVars, nandVars>>
rtspVars ==
    <<rtsp_state, server, castMode, setup_done, nb_streams_setup, stalled, restarted,
      start_rtp_sema, is_rtp_start, sender, media, input_queue, output_queue, ready,
      rtp_input_sema, rtp_output_sema>>

vars ==
    <<part, table, commonVars, deviceVars, dhcpsVars, timerVars, updateVars, rtspVars>>

\* A part that is not the one that moves
CommonOff ==
    /\ boot = Off /\ cell = Off /\ pbuf = Off /\ pointed = Off /\ handle = Off
    /\ holder = Off /\ raced = Off /\ up = Off /\ place = Off /\ req = Off
    /\ todo = Off /\ left = Off /\ got = Off /\ before = Off /\ hurt = Off
    /\ made = Off

DeviceOff ==
    /\ mutex_init = Off /\ device_mutex = Off /\ owner = Off /\ step = Off
    /\ wants = Off

DhcpsOff ==
    /\ state = Off /\ request_ip = Off /\ allocated = Off /\ marked = Off
    /\ mac = Off /\ ip = Off /\ joined = Off /\ lease = Off /\ address = Off
    /\ dropped = Off /\ strayed = Off

TimerOff ==
    /\ timer_hdl = Off /\ timer_table = Off /\ existing = Off /\ armed = Off
    /\ commands = Off /\ at = Off /\ arming = Off /\ quiet = Off /\ called = Off

OtaOff == content = Off /\ running = Off /\ lock = Off /\ ota = Off /\ tool = Off
NorOff == label = Off /\ crossed = Off
NandOff == copies = Off /\ writer = Off /\ events = Off /\ fails = Off
UpdateOff == OtaOff /\ NorOff /\ NandOff

RtspOff ==
    /\ rtsp_state = Off /\ server = Off /\ castMode = Off /\ setup_done = Off
    /\ nb_streams_setup = Off /\ stalled = Off /\ restarted = Off
    /\ start_rtp_sema = Off /\ is_rtp_start = Off
    /\ sender = Off /\ media = Off /\ input_queue = Off /\ output_queue = Off
    /\ ready = Off /\ rtp_input_sema = Off /\ rtp_output_sema = Off

PartsInit ==
    /\ Init
    /\ \/ /\ part = "table"
          /\ CommonOff /\ DeviceOff /\ DhcpsOff /\ TimerOff /\ UpdateOff /\ RtspOff
       \/ /\ part = "common" /\ C!Init
          /\ DeviceOff /\ DhcpsOff /\ TimerOff /\ UpdateOff /\ RtspOff
       \/ /\ part = "device" /\ D!Init
          /\ CommonOff /\ DhcpsOff /\ TimerOff /\ UpdateOff /\ RtspOff
       \/ /\ part = "dhcps" /\ S!Init
          /\ CommonOff /\ DeviceOff /\ TimerOff /\ UpdateOff /\ RtspOff
       \/ /\ part = "timer" /\ T!Init
          /\ CommonOff /\ DeviceOff /\ DhcpsOff /\ UpdateOff /\ RtspOff
       \/ /\ part = "nor" /\ N!Init
          /\ CommonOff /\ DeviceOff /\ DhcpsOff /\ TimerOff /\ NandOff /\ RtspOff
       \/ /\ part = "nand" /\ O!Init
          /\ CommonOff /\ DeviceOff /\ DhcpsOff /\ TimerOff /\ NorOff /\ RtspOff
       \/ /\ part = "rtsp" /\ R!Init
          /\ CommonOff /\ DeviceOff /\ DhcpsOff /\ TimerOff /\ UpdateOff

PartsNext ==
    /\ UNCHANGED part
    /\ \/ /\ part = "table" /\ Next
          /\ UNCHANGED <<commonVars, deviceVars, dhcpsVars, timerVars, updateVars, rtspVars>>
       \/ /\ part = "common" /\ C!Next
          /\ UNCHANGED <<table, deviceVars, dhcpsVars, timerVars, updateVars, rtspVars>>
       \/ /\ part = "device" /\ D!Next
          /\ UNCHANGED <<table, commonVars, dhcpsVars, timerVars, updateVars, rtspVars>>
       \/ /\ part = "dhcps" /\ S!Next
          /\ UNCHANGED <<table, commonVars, deviceVars, timerVars, updateVars, rtspVars>>
       \/ /\ part = "timer" /\ T!Next
          /\ UNCHANGED <<table, commonVars, deviceVars, dhcpsVars, updateVars, rtspVars>>
       \/ /\ part = "nor" /\ N!Next
          /\ UNCHANGED <<table, commonVars, deviceVars, dhcpsVars, timerVars, nandVars, rtspVars>>
       \/ /\ part = "nand" /\ O!Next
          /\ UNCHANGED <<table, commonVars, deviceVars, dhcpsVars, timerVars, norVars, rtspVars>>
       \/ /\ part = "rtsp" /\ R!Next
          /\ UNCHANGED <<table, commonVars, deviceVars, dhcpsVars, timerVars, updateVars>>

PartsSpec == PartsInit /\ [][PartsNext]_vars

TypesOK ==
    CASE part = "common" -> C!TypeOK
      [] part = "device" -> D!TypeOK
      [] part = "dhcps" -> S!TypeOK
      [] part = "timer" -> T!TypeOK
      [] part = "nor" -> N!TypeOK
      [] part = "nand" -> O!TypeOK
      [] part = "rtsp" -> R!TypeOK
      [] OTHER -> TRUE

\* The properties of the parts, stated in their modules.
WriteIsWhole == part = "common" => C!WriteIsWhole
ReadIsExact == part = "common" => C!ReadIsExact
OneHolder ==
    CASE part = "common" -> C!OneHolder [] part = "device" -> D!OneHolder [] OTHER -> TRUE
NoSharedAddress == part = "dhcps" => S!NoSharedAddress
RecordedIsMarked == part = "dhcps" => S!RecordedIsMarked
NoDeadHandle == part = "timer" => T!NoDeadHandle
QuietIsQuiet == part = "timer" => T!QuietIsQuiet
OneEntry == part = "timer" => T!OneEntry
NoTornImage ==
    CASE part = "nor" -> N!NoTornImage [] part = "nand" -> O!NoTornImage [] OTHER -> TRUE
SomeImageBoots ==
    CASE part = "nor" -> N!SomeImageBoots [] part = "nand" -> O!SomeImageBoots [] OTHER -> TRUE
SuccessIsBootable ==
    CASE part = "nor" -> N!SuccessIsBootable [] part = "nand" -> O!SuccessIsBootable [] OTHER -> TRUE
SendsInSession == part = "rtsp" => R!SendsInSession
NoLostWakeup == part = "rtsp" => R!NoLostWakeup
RenewKeepsAddress == [][part = "dhcps" => S!KeepsAddress]_vars
=============================================================================
