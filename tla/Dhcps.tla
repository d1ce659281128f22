------------------------------- MODULE Dhcps -------------------------------
(***************************************************************************)
(* dhcps.c: the DHCP server of the access point.  One set of globals       *)
(* serves all clients: the state of the exchange, the address last         *)
(* requested, the address last offered.  An address given out is marked in *)
(* a bit map for ever, and recorded with its client in a table with a row  *)
(* for each station the access point admits.                               *)
(*                                                                         *)
(* Packets are handled one at a time, in the thread of the IP stack; any   *)
(* answer can be lost.  The clients are those of RFC 2131.  An address is  *)
(* its last byte, and 0 none.                                              *)
(***************************************************************************)
EXTENDS Integers, FiniteSets

CONSTANTS
    Client,
    NoClient,              \* the MAC of an empty row
    Rows,                  \* AP_STA_NUM
    Width,                 \* bits of a word of ip_range: 32 in the code
    PoolStart, PoolEnd,    \* DHCP_POOL_START, DHCP_POOL_END
    Local                  \* the server's own address, and the gateway's

DhcpsAssumption ==
    /\ NoClient \notin Client
    /\ {Rows, Width, PoolStart, PoolEnd, Local} \subseteq Nat \ {0}
    /\ PoolStart <= PoolEnd /\ Local \notin PoolStart .. PoolEnd

VARIABLES
    state,       \* dhcp_server_state_machine, between packets
    request_ip,  \* client_request_ip
    allocated,   \* dhcps_allocated_client_address
    marked,      \* the bits of ip_table.ip_range
    mac, ip,     \* ip_table.client_mac and ip_addr4, by row
    joined,      \* the stations associated with the access point
    lease,       \* what each client believes: init, offered, bound
    address,     \* and of which address
    dropped,     \* has the record of a lease found no row?
    strayed      \* has another message than a DISCOVER got an offer?

server == <<state, request_ip, allocated, marked, mac, ip, dropped, strayed>>
clients == <<joined, lease, address>>
dhcpsVars == <<server, clients>>

Pool == PoolStart .. PoolEnd
Row == 1 .. Rows

\* MARK_RANGE5_IP_BIT shifts by d - 1 where the others shift by the offset in
\* their word.  A shift of 32 or more gives 0 on the Cortex-M: the mark is lost.
Fifth == 4 * Width + 1 .. 5 * Width
Mark(d) == IF d \in Fifth THEN marked ELSE marked \cup {d}

\* Elsewhere the bit of address d is bit d % 32 - 1 of word d / 32: for the last
\* address of a word a shift by -1, which gives 0 too.
Bits(d) == IF d % Width = 0 THEN {} ELSE {d}

\* The lowest of a set of rows or addresses
First(S) == CHOOSE x \in S : \A y \in S : x <= y

\* Mutant of SearchNext: the start of the pool is missed by one.
SearchNextEarly ==
    IF PoolStart - 1 .. PoolEnd \subseteq marked THEN 0
    ELSE First((PoolStart - 1 .. PoolEnd) \ marked)

\* search_next_ip: the first address of the pool without a mark
SearchNext == IF Pool \subseteq marked THEN 0 ELSE First(Pool \ marked)

\* check_client_request_ip: what the client had before, if still marked
Before(c) ==
    LET rows == {r \in Row : mac[r] = c /\ Bits(ip[r]) \cap marked # {}}
    IN  IF rows = {} THEN 0 ELSE ip[First(rows)]

\* Mutant of Direct: other clients' rows are not compared.
DirectAny(c, d) == IF d \in Pool THEN d ELSE 0

\* check_client_direct_request_ip: d, unless the table gives it to another
Direct(c, d) ==
    IF d \in Pool /\ \A r \in Row : ip[r] = d => mac[r] = c THEN d ELSE 0
-----------------------------------------------------------------------------
Init ==
    /\ state = "idle" /\ request_ip = 0 /\ allocated = 0
    /\ marked = {Local}
    /\ mac = [r \in Row |-> NoClient] /\ ip = [r \in Row |-> 0]
    /\ joined = {}
    /\ lease = [c \in Client |-> "init"] /\ address = [c \in Client |-> 0]
    /\ dropped = FALSE /\ strayed = FALSE

\* The client hears of it, or does not.
Hears(c, l, d) ==
    \/ lease' = [lease EXCEPT ![c] = l] /\ address' = [address EXCEPT ![c] = d]
    \/ UNCHANGED <<lease, address>>

\* The requested address stays until an ACK, for whoever comes next.
Requested(option) == request_ip' = IF option = 0 THEN request_ip ELSE option

Choice(c) == IF Before(c) # 0 THEN Before(c) ELSE SearchNext

\* dhcps_send_offer.  The address is offered even when it is 0.
Discover(c) ==
    /\ c \in joined /\ lease[c] # "bound"
    /\ \E option \in {0, address[c]} : Requested(option)
    /\ state' = "offer"
    /\ allocated' = Choice(c)
    /\ Hears(c, "offered", Choice(c))
    /\ UNCHANGED <<marked, mac, ip, joined, dropped, strayed>>

\* The rows of stations that have left
Stale == {r \in Row : mac[r] \notin joined}

\* Mutant of SaveClient: the address to free is read after the row is written.
SaveClientLate(c, d) ==
    LET fits == {r \in Row : ip[r] \in {0, d}}
        rows == IF fits # {} THEN fits ELSE Stale
        Put(r) == /\ mac' = [mac EXCEPT ![r] = c]
                  /\ ip' = [ip EXCEPT ![r] = d]
    IN  \/ rows # {} /\ Put(First(rows)) /\ dropped' = dropped
           /\ marked' = Mark(d) \ (IF fits # {} THEN {} ELSE Bits(d))
        \/ rows = {} /\ UNCHANGED <<mac, ip>> /\ dropped' = TRUE
           /\ marked' = Mark(d)

\* save_client_addr: the first row that is empty or has the address; else the
\* first one whose station has left, whose address becomes free.
SaveClient(c, d) ==
    LET fits == {r \in Row : ip[r] \in {0, d}}
        rows == IF fits # {} THEN fits ELSE Stale
        Put(r) == /\ mac' = [mac EXCEPT ![r] = c]
                  /\ ip' = [ip EXCEPT ![r] = d]
    IN  \/ rows # {} /\ Put(First(rows)) /\ dropped' = dropped
           /\ marked' = Mark(d) \ (IF fits # {} THEN {} ELSE Bits(ip[First(rows)]))
        \/ rows = {} /\ UNCHANGED <<mac, ip>> /\ dropped' = TRUE
           /\ marked' = Mark(d)

\* dhcps_send_ack and what follows it
Ack(c, d) ==
    /\ SaveClient(c, d)
    /\ request_ip' = 0 /\ allocated' = 0
    /\ Hears(c, "bound", d)

\* dhcps_send_nak: neither address is cleared.
Nak(c, d) ==
    /\ request_ip' = d
    /\ UNCHANGED <<allocated, marked, mac, ip, dropped>>
    /\ Hears(c, "init", 0)

\* The client asks for what was offered last, to whomever.
Confirmed(d) == state = "offer" /\ allocated # 0 /\ allocated = d

\* Mutant of Wanted: ciaddr is not looked at.
WantedOption(option, ciaddr) == IF option # 0 THEN option ELSE request_ip

\* The address of the option, of an earlier message, or of ciaddr ("for renew")
Wanted(option, ciaddr) ==
    IF option # 0 THEN option
    ELSE IF request_ip # 0 THEN request_ip ELSE ciaddr

Request(c, option, ciaddr) ==
    LET d == Wanted(option, ciaddr) IN
    /\ IF Direct(c, d) # 0 \/ Confirmed(d) THEN Ack(c, d) ELSE Nak(c, d)
    /\ state' = "idle"
    /\ UNCHANGED <<joined, strayed>>

\* SELECTING, and INIT-REBOOT with the address of an earlier lease
Select(c) == c \in joined /\ lease[c] = "offered" /\ Request(c, address[c], 0)

Reboot(c) ==
    /\ c \in joined /\ lease[c] = "init" /\ address[c] # 0
    /\ Request(c, address[c], 0)

\* RENEWING
Renew(c) == c \in joined /\ lease[c] = "bound" /\ Request(c, 0, address[c])

\* DHCPDECLINE names the address in an option, DHCPRELEASE in ciaddr; neither
\* frees it.
Forget(c, option) ==
    /\ c \in joined /\ lease[c] = "bound"
    /\ Requested(option)
    /\ state' = "idle"
    /\ lease' = [lease EXCEPT ![c] = "init"] /\ address' = [address EXCEPT ![c] = 0]
    /\ UNCHANGED <<allocated, marked, mac, ip, joined, dropped, strayed>>

Decline(c) == Forget(c, address[c])
Release(c) == Forget(c, 0)

\* Any other message, a DHCPINFORM say, is answered with an offer while one is
\* open.
Inform(c) ==
    /\ c \in joined /\ lease[c] = "bound" /\ state = "offer"
    /\ allocated' = Choice(c)
    /\ strayed' = TRUE
    /\ UNCHANGED <<state, request_ip, marked, mac, ip, clients, dropped>>

\* A station comes, while there is room, or goes; it gives up its lease and may
\* ask for the address again.
Join(c) ==
    /\ c \notin joined /\ Cardinality(joined) < Rows
    /\ joined' = joined \cup {c}
    /\ UNCHANGED <<server, lease, address>>

Part(c) ==
    /\ c \in joined
    /\ joined' = joined \ {c}
    /\ lease' = [lease EXCEPT ![c] = "init"]
    /\ UNCHANGED <<server, address>>

\* dhcps_init, when the access point starts again: the table is empty, the
\* globals are not.
Restart ==
    /\ marked' = {Local}
    /\ mac' = [r \in Row |-> NoClient] /\ ip' = [r \in Row |-> 0]
    /\ joined' = {} /\ lease' = [c \in Client |-> "init"]
    /\ dropped' = FALSE /\ strayed' = FALSE
    /\ UNCHANGED <<state, request_ip, allocated, address>>

Next ==
    \/ \E c \in Client :
          \/ Discover(c) \/ Select(c) \/ Reboot(c) \/ Renew(c) \/ Decline(c)
          \/ Release(c) \/ Inform(c) \/ Join(c) \/ Part(c)
    \/ Restart

Spec == Init /\ [][Next]_dhcpsVars
-----------------------------------------------------------------------------
TypeOK ==
    /\ state \in {"idle", "offer"}
    /\ {request_ip, allocated} \subseteq Pool \cup {0}
    /\ marked \subseteq Pool \cup {Local}
    /\ mac \in [Row -> Client \cup {NoClient}] /\ ip \in [Row -> Pool \cup {0}]
    /\ joined \subseteq Client /\ Cardinality(joined) <= Rows
    /\ lease \in [Client -> {"init", "offered", "bound"}]
    /\ address \in [Client -> Pool \cup {0}]
    /\ dropped \in BOOLEAN /\ strayed \in BOOLEAN

\* Two stations never use one address, as long as the table has had a row for
\* every lease and only a DISCOVER has been offered an address, and but for the
\* addresses whose marks are lost.
NoSharedAddress ==
    ~dropped /\ ~strayed =>
    \A c, d \in joined :
        /\ lease[c] = "bound" /\ lease[d] = "bound"
        /\ address[c] = address[d] /\ address[c] \notin Fifth
        => c = d

\* An address that the table gives to a client is not offered to another one: it
\* is marked, and is in one row only.
RecordedIsMarked ==
    \A r \in Row :
        ip[r] # 0 => /\ ip[r] \in marked \/ ip[r] \in Fifth
                     /\ \A s \in Row : ip[s] = ip[r] => s = r

\* A client that renews a recorded lease keeps its address, unless the address
\* another client asked for is still in client_request_ip.
KeepsAddress ==
    \A c \in Client :
        /\ Renew(c)
        /\ request_ip = 0
        /\ \E r \in Row : mac[r] = c /\ ip[r] = address[c]
        => lease'[c] = "bound" /\ address'[c] = address[c]

RenewKeepsAddress == [][KeepsAddress]_dhcpsVars
=============================================================================
