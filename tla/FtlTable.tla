------------------------------ MODULE FtlTable ------------------------------
(***************************************************************************)
(* The packed mapping table of ftl.c: LOGIC_ADDR_MAP_BIT_NUM = 12 bits for *)
(* each logical word, two entries to three bytes.  Module Ftl keeps the    *)
(* table as a function from addresses to entries; this module shows that   *)
(* the bytes implement one.                                                *)
(***************************************************************************)
EXTENDS Integers

CONSTANTS
    E,        \* PAGE_element
    Words,    \* MAX_logical_address_size / 4
    Places,   \* <<page, cell>> where records are written
    Beyond    \* what may be found in the byte after the table

ASSUME TableAssumption ==
    /\ E \in Nat /\ E > 0
    /\ Words \in Nat /\ Words > 0
    /\ Places \subseteq Nat \X Nat
    /\ \A p \in Places : p[1] * E + p[2] < 8192 /\ (p[1] * E + p[2]) % 2 = 0
    /\ Beyond # {} /\ Beyond \subseteq 0 .. 255

VARIABLE table    \* the bytes of ftl_mapping_table, and the one after them:
                  \* MAPPING_TABLE_SIZE rounds down, and if Words is odd the
                  \* last entry ends in that byte

MAPPING_TABLE_SIZE == (Words * 12) \div 8
Byte == 0 .. 255
Addr == 0 .. Words - 1            \* logical_addr / 4

byte_index(a) == (a * 12) \div 8
byte_offset(a) == (a * 12) % 8

\* read_mapping_table: the bits from byte_offset up, doubled.
Read(a) ==
    LET word == table[byte_index(a)] + 256 * table[byte_index(a) + 1]
    IN  2 * (IF byte_offset(a) = 0 THEN word % 4096 ELSE word \div 16)

phy_addr_offset(page, cell) == (page * E + cell) \div 2

\* Mutant of Write: the nibble of the neighbour is not masked in.
WriteOver(a, page, cell) ==
    LET phy == phy_addr_offset(page, cell)
        i   == byte_index(a)
    IN  \/ /\ byte_offset(a) = 4
           /\ table' = [table EXCEPT ![i] = 16 * (phy % 16),
                                     ![i + 1] = (phy \div 16) % 256]
        \/ /\ byte_offset(a) = 0
           /\ table' = [table EXCEPT ![i] = phy % 256,
                                     ![i + 1] = (phy \div 256) % 16]

\* write_mapping_table
Write(a, page, cell) ==
    LET phy == phy_addr_offset(page, cell)
        i   == byte_index(a)
    IN  \/ /\ byte_offset(a) = 4
           /\ table' = [table EXCEPT ![i] = (@ % 16) + 16 * (phy % 16),
                                     ![i + 1] = (phy \div 16) % 256]
        \/ /\ byte_offset(a) = 0
           /\ table' = [table EXCEPT ![i] = phy % 256,
                                     ![i + 1] = 16 * (@ \div 16) + ((phy \div 256) % 16)]

\* Mutant of Clear: the size in words is taken for the size in bytes.
ClearWords == table' = [i \in DOMAIN table |-> IF i < Words THEN 0 ELSE table[i]]

\* FTL_IOCTL_CLEAR_ALL clears what was allocated.
Clear == table' = [i \in DOMAIN table |-> IF i < MAPPING_TABLE_SIZE THEN 0 ELSE table[i]]

\* rtw_zmalloc clears what it was asked for.
Init ==
    \E b \in Beyond :
        table = [i \in 0 .. MAPPING_TABLE_SIZE |-> IF i = MAPPING_TABLE_SIZE THEN b ELSE 0]

Next == Clear \/ \E a \in Addr, p \in Places : Write(a, p[1], p[2])

Spec == Init /\ [][Next]_table
-----------------------------------------------------------------------------
\* A write stores the place of the record, to the last bit, and leaves every
\* other address alone, although neighbours share a byte.
WritesOneEntry ==
    [][Clear \/ \E a \in Addr, p \in Places :
          \A b \in Addr : Read(b)' = IF b = a THEN 2 * phy_addr_offset(p[1], p[2])
                                    ELSE Read(b)]_table

\* The entry whose four high bits are in the byte after the table, as there are an
\* odd number of words
Cut(a) == a = Words - 1 /\ Words % 2 = 1

\* "clear ftl_mapping_table": no address is found after a clear, but of the last one of
\* an odd number of words the four high bits stay.
ClearLeavesOneNibble ==
    [][Clear => \A a \in Addr : Read(a)' = IF Cut(a) THEN 512 * (Read(a) \div 512) ELSE 0]_table
=============================================================================
