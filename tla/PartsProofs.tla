---------------------------- MODULE PartsProofs ----------------------------
(***************************************************************************)
(* The components that stand by themselves, for every value of their       *)
(* constants: the packed table of ftl.c, the mutexes of device_lock.c, the *)
(* leases of dhcps.c, the timers of timer_service, the pieces that         *)
(* ftl_common_api.c cuts reads and writes into, the update of ota_8735b.c  *)
(* on a NAND flash; then, in the run of all of them, what the modules      *)
(* OtaNorProofs and RtspProofs prove of the others.                        *)
(***************************************************************************)
EXTENDS MCParts, NatExtrema, FiniteSetTheorems, SequenceTheorems, TLAPS

-----------------------------------------------------------------------------
(* The packed table                                                        *)

\* Two entries fill three bytes.
Even(a, k) == a = 2 * k /\ byte_index(a) = 3 * k /\ byte_offset(a) = 0
Odd(a, k) == a = 2 * k + 1 /\ byte_index(a) = 3 * k + 1 /\ byte_offset(a) = 4

\* The bytes of the m-th pair that the entry of b uses are in the table.
Spans(b, m) ==
    /\ Even(b, m) \/ Odd(b, m)
    /\ Even(b, m) => 3 * m \in 0 .. MAPPING_TABLE_SIZE /\ 3 * m + 1 \in 0 .. MAPPING_TABLE_SIZE
    /\ Odd(b, m) => 3 * m + 1 \in 0 .. MAPPING_TABLE_SIZE /\ 3 * m + 2 \in 0 .. MAPPING_TABLE_SIZE

\* Floor division, in the form the layout needs.
LEMMA DivLower ==
    ASSUME NEW n \in Nat, NEW q \in Nat, n >= 8 * q PROVE n \div 8 >= q
  OBVIOUS

\* Every address has an entry, and its two bytes are in the table.
LEMMA Layout ==
    ASSUME NEW a \in Addr
    PROVE  /\ \E k \in Nat : Even(a, k) \/ Odd(a, k)
           /\ byte_index(a) \in 0 .. MAPPING_TABLE_SIZE
           /\ byte_index(a) + 1 \in 0 .. MAPPING_TABLE_SIZE
  <1>1. a \in Nat /\ a <= Words - 1 /\ Words \in Nat
    BY TableAssumption DEF Addr
  <1>2. PICK k \in Nat : a = 2 * k \/ a = 2 * k + 1
    <2>1. a \div 2 \in Nat /\ (a = 2 * (a \div 2) \/ a = 2 * (a \div 2) + 1)
      BY <1>1
    <2> QED BY <2>1
  <1>3. CASE a = 2 * k
    <2>1. a * 12 = 8 * (3 * k)
      BY <1>3
    <2>2. Even(a, k)
      BY <2>1, <1>3 DEF Even, byte_index, byte_offset
    <2>3. 3 * k + 1 <= MAPPING_TABLE_SIZE /\ MAPPING_TABLE_SIZE \in Nat
      <3> DEFINE n == Words * 12
                 q == 3 * k + 1
      <3>1. n \in Nat /\ q \in Nat /\ n >= 8 * q
        BY <1>1, <1>3
      <3>2. MAPPING_TABLE_SIZE = n \div 8
        BY DEF MAPPING_TABLE_SIZE
      <3> HIDE DEF n
      <3>3. n \div 8 >= q /\ n \div 8 \in Nat
        BY <3>1, DivLower
      <3> HIDE DEF q
      <3>4. q <= MAPPING_TABLE_SIZE /\ MAPPING_TABLE_SIZE \in Nat
        BY <3>1, <3>2, <3>3
      <3> QED BY <3>4 DEF q
    <2> QED BY <2>2, <2>3 DEF Even
  <1>4. CASE a = 2 * k + 1
    <2>1. a * 12 = 8 * (3 * k + 1) + 4
      BY <1>4
    <2>2. Odd(a, k)
      BY <2>1, <1>4 DEF Odd, byte_index, byte_offset
    <2>3. 3 * k + 2 <= MAPPING_TABLE_SIZE /\ MAPPING_TABLE_SIZE \in Nat
      <3> DEFINE n == Words * 12
                 q == 3 * k + 2
      <3>1. n \in Nat /\ q \in Nat /\ n >= 8 * q
        BY <1>1, <1>4
      <3>2. MAPPING_TABLE_SIZE = n \div 8
        BY DEF MAPPING_TABLE_SIZE
      <3> HIDE DEF n
      <3>3. n \div 8 >= q /\ n \div 8 \in Nat
        BY <3>1, DivLower
      <3> HIDE DEF q
      <3>4. q <= MAPPING_TABLE_SIZE /\ MAPPING_TABLE_SIZE \in Nat
        BY <3>1, <3>2, <3>3
      <3> QED BY <3>4 DEF q
    <2> QED BY <2>2, <2>3 DEF Odd
  <1> QED BY <1>2, <1>3, <1>4

Table == [0 .. MAPPING_TABLE_SIZE -> Byte]

\* The halves of an entry.
Nibble == 0 .. 15
Entry == 0 .. 4095

\* The two bytes of an entry, either way round.
LEMMA Split ==
    ASSUME NEW phy \in Entry
    PROVE  /\ phy % 256 \in Byte
           /\ (phy \div 256) % 16 = phy \div 256
           /\ phy \div 256 \in Nibble
           /\ phy % 16 \in Nibble
           /\ phy \div 16 \in Byte
           /\ (phy \div 16) % 256 = phy \div 16
           /\ (phy % 256) + 256 * (phy \div 256) = phy
           /\ (phy % 16) + 16 * (phy \div 16) = phy
  <1>0. phy \in 0 .. 4095
    BY DEF Entry
  <1>1. phy % 256 \in 0 .. 255
    BY <1>0
  <1>2. phy \div 256 \in 0 .. 15
    BY <1>0
  <1>3. phy % 16 \in 0 .. 15
    BY <1>0
  <1>4. phy \div 16 \in 0 .. 255
    <2> DEFINE d == phy \div 16
    <2>1. d \in Int /\ 16 * d <= phy /\ phy <= 16 * d + 15
      BY <1>0
    <2>2. phy \in Int /\ 0 <= phy /\ phy <= 4095
      BY <1>0
    <2> HIDE DEF d
    <2>3. 0 <= d
      BY <2>1, <2>2
    <2>4. d <= 255
      BY <2>1, <2>2
    <2> QED BY <2>1, <2>3, <2>4 DEF d
  <1>5. (phy % 256) + 256 * (phy \div 256) = phy
    BY <1>0
  <1>6. (phy % 16) + 16 * (phy \div 16) = phy
    BY <1>0
  <1> DEFINE a == phy \div 256
             b == phy \div 16
  <1>7. a % 16 = a
    <2> HIDE DEF a
    <2>1. a \in 0 .. 15
      BY <1>2 DEF a
    <2> QED BY <2>1
  <1>8. b % 256 = b
    <2> HIDE DEF b
    <2>1. b \in 0 .. 255
      BY <1>4 DEF b
    <2> QED BY <2>1
  <1> QED BY ONLY <1>1, <1>2, <1>3, <1>4, <1>5, <1>6, <1>7, <1>8, Zenon DEF Byte, Nibble

\* A byte shared by two entries.
LEMMA Join ==
    ASSUME NEW y \in Byte, NEW n \in Nibble
    PROVE  /\ 16 * (y \div 16) + n \in Byte
           /\ (16 * (y \div 16) + n) \div 16 = y \div 16
           /\ (16 * (y \div 16) + n) % 16 = n
           /\ (y % 16) + 16 * n \in Byte
           /\ ((y % 16) + 16 * n) \div 16 = n
           /\ ((y % 16) + 16 * n) % 16 = y % 16
  <1> DEFINE h == y \div 16
             l == y % 16
  <1>1. h \in 0 .. 15 /\ l \in 0 .. 15 /\ n \in 0 .. 15
    BY DEF Byte, Nibble
  <1> HIDE DEF h, l
  <1>2. 16 * h + n \in 0 .. 255 /\ l + 16 * n \in 0 .. 255
    BY <1>1
  <1>3. (16 * h + n) \div 16 = h
    BY <1>1
  <1>4. (16 * h + n) % 16 = n
    BY <1>1
  <1>5. (l + 16 * n) \div 16 = n
    BY <1>1
  <1>6. (l + 16 * n) % 16 = l
    BY <1>1
  <1> QED BY <1>2, <1>3, <1>4, <1>5, <1>6, Zenon DEF Byte, h, l

\* The neighbours: an even entry sees only the low nibble of its second byte,
\* an odd one only the high nibble of its first.
LEMMA Reads ==
    ASSUME NEW x \in Byte, NEW y \in Byte
    PROVE  /\ (x + 256 * y) % 4096 = x + 256 * (y % 16)
           /\ (x + 256 * y) \div 16 = (x \div 16) + 16 * y
  BY DEF Byte

\* A place fits 12 bits.
LEMMA PlaceType ==
    ASSUME NEW p \in Places PROVE phy_addr_offset(p[1], p[2]) \in Entry
  <1> DEFINE s == p[1] * E + p[2]
  <1>1. s \in Nat /\ s < 8192
    BY TableAssumption
  <1>2. phy_addr_offset(p[1], p[2]) = s \div 2
    BY DEF phy_addr_offset
  <1> HIDE DEF s
  <1> QED BY <1>1, <1>2 DEF Entry

\* What an address reads in table t, by the two bytes of its entry.
ReadOf(t, b) ==
    LET word == t[byte_index(b)] + 256 * t[byte_index(b) + 1]
    IN  2 * (IF byte_offset(b) = 0 THEN word % 4096 ELSE word \div 16)
ReadEven(x, y) == 2 * (x + 256 * (y % 16))
ReadOdd(x, y) == 2 * ((x \div 16) + 16 * y)

\* read_mapping_table in terms of the pair of entries.
LEMMA ReadBytes ==
    ASSUME NEW t \in Table, NEW b \in Addr, NEW k \in Nat
    PROVE  /\ Even(b, k) => ReadOf(t, b) = ReadEven(t[3 * k], t[3 * k + 1])
           /\ Odd(b, k) => ReadOf(t, b) = ReadOdd(t[3 * k + 1], t[3 * k + 2])
  <1> DEFINE i == byte_index(b)
             x == t[i]
             y == t[i + 1]
  <1>1. x \in Byte /\ y \in Byte
    BY Layout DEF Table
  <1>2. ReadOf(t, b) = 2 * (IF byte_offset(b) = 0 THEN (x + 256 * y) % 4096
                                                 ELSE (x + 256 * y) \div 16)
    BY DEF ReadOf
  <1> HIDE DEF x, y
  <1>3. /\ (x + 256 * y) % 4096 = x + 256 * (y % 16)
        /\ (x + 256 * y) \div 16 = (x \div 16) + 16 * y
    BY <1>1, Reads
  <1>4. ASSUME Even(b, k) PROVE ReadOf(t, b) = ReadEven(t[3 * k], t[3 * k + 1])
    <2>1. x = t[3 * k] /\ y = t[3 * k + 1] /\ byte_offset(b) = 0
      BY <1>4 DEF Even, x, y
    <2> QED BY <1>1, <1>2, <1>3, <2>1 DEF ReadEven
  <1>5. ASSUME Odd(b, k) PROVE ReadOf(t, b) = ReadOdd(t[3 * k + 1], t[3 * k + 2])
    <2>1. byte_index(b) = 3 * k + 1 /\ (3 * k + 1) + 1 = 3 * k + 2 /\ byte_offset(b) = 4
      BY <1>5 DEF Odd
    <2>2. x = t[3 * k + 1] /\ y = t[3 * k + 2] /\ byte_offset(b) # 0
      BY <2>1 DEF x, y
    <2> QED BY <1>1, <1>2, <1>3, <2>2 DEF ReadOdd
  <1> QED BY <1>4, <1>5

\* The bytes an even entry writes, and an odd one.
LEMMA WriteEven ==
    ASSUME table \in Table, NEW a \in Addr, NEW p \in Places, Write(a, p[1], p[2]),
           NEW k \in Nat, Even(a, k), NEW phy, phy = phy_addr_offset(p[1], p[2])
    PROVE  /\ table' \in Table /\ table'[3 * k] = phy % 256
           /\ table'[3 * k + 1] % 16 = phy \div 256
           /\ table'[3 * k + 1] \div 16 = table[3 * k + 1] \div 16
           /\ \A j \in 0 .. MAPPING_TABLE_SIZE :
                 j # 3 * k /\ j # 3 * k + 1 => table'[j] = table[j]
  <1> DEFINE i == 3 * k
             y == table[i + 1]
             n == (phy \div 256) % 16
             lo == phy % 256
             hi == 16 * (y \div 16) + n
  <1>1. /\ i \in 0 .. MAPPING_TABLE_SIZE /\ i + 1 \in 0 .. MAPPING_TABLE_SIZE
        /\ i # i + 1 /\ byte_index(a) = i /\ byte_offset(a) = 0
    BY Layout DEF Even
  <1>2. table' = [table EXCEPT ![i] = lo, ![i + 1] = 16 * (@ \div 16) + n]
    BY <1>1 DEF Write
  <1>3. phy \in Entry
    BY PlaceType
  <1> HIDE DEF i
  <1>4. lo \in Byte /\ n \in Nibble /\ n = phy \div 256
    BY <1>3, Split
  <1>5. y \in Byte
    BY <1>1 DEF Table
  <1>6. table' = [table EXCEPT ![i] = lo, ![i + 1] = hi]
    BY <1>1, <1>2 DEF Table
  <1> HIDE DEF n, y
  <1>7. hi \in Byte /\ hi \div 16 = y \div 16 /\ hi % 16 = n
    BY <1>4, <1>5, Join
  <1> HIDE DEF lo, hi
  <1>8. /\ table' \in Table
        /\ table'[i] = lo /\ table'[i + 1] = hi
        /\ \A j \in 0 .. MAPPING_TABLE_SIZE : j # i /\ j # i + 1 => table'[j] = table[j]
    BY <1>1, <1>4, <1>6, <1>7 DEF Table
  <1>9. table'[i] = phy % 256
    BY <1>8 DEF lo
  <1>10. table'[i + 1] % 16 = phy \div 256 /\ table'[i + 1] \div 16 = table[i + 1] \div 16
    BY <1>4, <1>7, <1>8 DEF y
  <1> QED BY <1>8, <1>9, <1>10 DEF i

LEMMA WriteOdd ==
    ASSUME table \in Table, NEW a \in Addr, NEW p \in Places, Write(a, p[1], p[2]),
           NEW k \in Nat, Odd(a, k), NEW phy, phy = phy_addr_offset(p[1], p[2])
    PROVE  /\ table' \in Table /\ table'[3 * k + 2] = phy \div 16
           /\ table'[3 * k + 1] \div 16 = phy % 16
           /\ table'[3 * k + 1] % 16 = table[3 * k + 1] % 16
           /\ \A j \in 0 .. MAPPING_TABLE_SIZE :
                 j # 3 * k + 1 /\ j # 3 * k + 2 => table'[j] = table[j]
  <1> DEFINE i == 3 * k + 1
             x == table[i]
             n == phy % 16
             hi == (phy \div 16) % 256
             lo == (x % 16) + 16 * n
  <1>1. /\ i \in 0 .. MAPPING_TABLE_SIZE /\ i + 1 \in 0 .. MAPPING_TABLE_SIZE
        /\ i # i + 1 /\ byte_index(a) = i /\ byte_offset(a) = 4 /\ i + 1 = 3 * k + 2
    BY Layout DEF Odd
  <1>2. table' = [table EXCEPT ![i] = (@ % 16) + 16 * n, ![i + 1] = hi]
    BY <1>1 DEF Write
  <1>3. phy \in Entry
    BY PlaceType
  <1>4. 3 * k + 1 = i /\ 3 * k + 2 = i + 1
    BY <1>1
  <1> HIDE DEF i
  <1>5. hi \in Byte /\ n \in Nibble /\ hi = phy \div 16
    BY <1>3, Split
  <1>6. x \in Byte
    BY <1>1 DEF Table
  <1>7. table' = [table EXCEPT ![i] = lo, ![i + 1] = hi]
    BY <1>1, <1>2 DEF Table
  <1> HIDE DEF n, x
  <1>8. lo \in Byte /\ lo \div 16 = n /\ lo % 16 = x % 16
    BY <1>5, <1>6, Join
  <1> HIDE DEF lo, hi
  <1>9. /\ table' \in Table
        /\ table'[i] = lo /\ table'[i + 1] = hi
        /\ \A j \in 0 .. MAPPING_TABLE_SIZE : j # i /\ j # i + 1 => table'[j] = table[j]
    BY <1>1, <1>5, <1>7, <1>8 DEF Table
  <1>10. table'[i + 1] = phy \div 16
    BY <1>5, <1>9
  <1>11. table'[i] \div 16 = phy % 16 /\ table'[i] % 16 = table[i] % 16
    BY <1>8, <1>9 DEF x, n
  <1> QED BY <1>4, <1>9, <1>10, <1>11

\* A write, seen by every address.
LEMMA WriteOne ==
    ASSUME table \in Table, NEW a \in Addr, NEW p \in Places, Write(a, p[1], p[2])
    PROVE  /\ table' \in Table
           /\ \A b \in Addr : ReadOf(table', b) =
                 IF b = a THEN 2 * phy_addr_offset(p[1], p[2]) ELSE ReadOf(table, b)
  <1> DEFINE phy == phy_addr_offset(p[1], p[2])
  <1>1. PICK k \in Nat : Even(a, k) \/ Odd(a, k)
    BY Layout
  <1>2. phy \in Entry
    BY PlaceType
  <1> HIDE DEF phy
  <1>3. (phy % 256) + 256 * (phy \div 256) = phy /\ (phy % 16) + 16 * (phy \div 16) = phy
    BY <1>2, Split
  <1>4. \A b \in Addr : \E m \in Nat : Spans(b, m)
    <2> TAKE b \in Addr
    <2>1. PICK m \in Nat : Even(b, m) \/ Odd(b, m)
      BY Layout
    <2>2. /\ byte_index(b) \in 0 .. MAPPING_TABLE_SIZE
          /\ byte_index(b) + 1 \in 0 .. MAPPING_TABLE_SIZE
      BY Layout
    <2>3. 3 * m + 1 + 1 = 3 * m + 2
      OBVIOUS
    <2> QED BY <2>1, <2>2, <2>3 DEF Even, Odd, Spans
  <1>5. CASE Even(a, k)
    <2>1. /\ table' \in Table /\ table'[3 * k] = phy % 256
          /\ table'[3 * k + 1] % 16 = phy \div 256
          /\ table'[3 * k + 1] \div 16 = table[3 * k + 1] \div 16
          /\ \A j \in 0 .. MAPPING_TABLE_SIZE :
                j # 3 * k /\ j # 3 * k + 1 => table'[j] = table[j]
      BY <1>5, WriteEven DEF phy
    <2>2. ASSUME NEW b \in Addr
          PROVE  ReadOf(table', b) = IF b = a THEN 2 * phy ELSE ReadOf(table, b)
      <3>1. PICK m \in Nat : Spans(b, m)
        BY <1>4
      <3>2. CASE Even(b, m) /\ m = k
        <4>1. b = a
          BY <1>5, <3>2 DEF Even
        <4>2. ReadOf(table', b) = ReadEven(table'[3 * k], table'[3 * k + 1])
          BY <2>1, <3>2, ReadBytes
        <4> QED BY <4>1, <4>2, <2>1, <1>3 DEF ReadEven
      <3>3. CASE Even(b, m) /\ m # k
        <4>1. b # a /\ 3 * m # 3 * k /\ 3 * m # 3 * k + 1 /\ 3 * m + 1 # 3 * k /\ 3 * m + 1 # 3 * k + 1
          BY <1>5, <3>3 DEF Even
        <4>2. /\ ReadOf(table', b) = ReadEven(table'[3 * m], table'[3 * m + 1])
              /\ ReadOf(table, b) = ReadEven(table[3 * m], table[3 * m + 1])
          BY <2>1, <3>3, ReadBytes
        <4> QED BY <4>1, <4>2, <2>1, <3>1, <3>3 DEF Spans
      <3>4. CASE Odd(b, m)
        <4>1. b # a /\ 3 * m + 2 # 3 * k /\ 3 * m + 2 # 3 * k + 1
          BY <1>5, <3>4 DEF Even, Odd
        <4>2. /\ ReadOf(table', b) = ReadOdd(table'[3 * m + 1], table'[3 * m + 2])
              /\ ReadOf(table, b) = ReadOdd(table[3 * m + 1], table[3 * m + 2])
          BY <2>1, <3>4, ReadBytes
        <4>3. table'[3 * m + 2] = table[3 * m + 2]
          BY <4>1, <2>1, <3>1, <3>4 DEF Spans
        <4>4. table'[3 * m + 1] \div 16 = table[3 * m + 1] \div 16
          <5>1. CASE m = k
            BY <5>1, <2>1
          <5>2. CASE m # k
            <6>1. 3 * m + 1 # 3 * k /\ 3 * m + 1 # 3 * k + 1
              BY <5>2
            <6> QED BY <6>1, <2>1, <3>1, <3>4 DEF Spans
          <5> QED BY <5>1, <5>2
        <4> QED BY <4>1, <4>2, <4>3, <4>4 DEF ReadOdd
      <3> QED BY <3>1, <3>2, <3>3, <3>4 DEF Spans
    <2> QED BY <2>1, <2>2 DEF phy
  <1>6. CASE Odd(a, k)
    <2>1. /\ table' \in Table /\ table'[3 * k + 2] = phy \div 16
          /\ table'[3 * k + 1] \div 16 = phy % 16
          /\ table'[3 * k + 1] % 16 = table[3 * k + 1] % 16
          /\ \A j \in 0 .. MAPPING_TABLE_SIZE :
                j # 3 * k + 1 /\ j # 3 * k + 2 => table'[j] = table[j]
      BY <1>6, WriteOdd DEF phy
    <2>2. ASSUME NEW b \in Addr
          PROVE  ReadOf(table', b) = IF b = a THEN 2 * phy ELSE ReadOf(table, b)
      <3>1. PICK m \in Nat : Spans(b, m)
        BY <1>4
      <3>2. CASE Odd(b, m) /\ m = k
        <4>1. b = a
          BY <1>6, <3>2 DEF Odd
        <4>2. ReadOf(table', b) = ReadOdd(table'[3 * k + 1], table'[3 * k + 2])
          BY <2>1, <3>2, ReadBytes
        <4> QED BY <4>1, <4>2, <2>1, <1>3 DEF ReadOdd
      <3>3. CASE Odd(b, m) /\ m # k
        <4>1. /\ b # a /\ 3 * m + 1 # 3 * k + 1 /\ 3 * m + 1 # 3 * k + 2
              /\ 3 * m + 2 # 3 * k + 1 /\ 3 * m + 2 # 3 * k + 2
          BY <1>6, <3>3 DEF Odd
        <4>2. /\ ReadOf(table', b) = ReadOdd(table'[3 * m + 1], table'[3 * m + 2])
              /\ ReadOf(table, b) = ReadOdd(table[3 * m + 1], table[3 * m + 2])
          BY <2>1, <3>3, ReadBytes
        <4> QED BY <4>1, <4>2, <2>1, <3>1, <3>3 DEF Spans
      <3>4. CASE Even(b, m)
        <4>1. b # a /\ 3 * m # 3 * k + 1 /\ 3 * m # 3 * k + 2
          BY <1>6, <3>4 DEF Even, Odd
        <4>2. /\ ReadOf(table', b) = ReadEven(table'[3 * m], table'[3 * m + 1])
              /\ ReadOf(table, b) = ReadEven(table[3 * m], table[3 * m + 1])
          BY <2>1, <3>4, ReadBytes
        <4>3. table'[3 * m] = table[3 * m]
          BY <4>1, <2>1, <3>1, <3>4 DEF Spans
        <4>4. table'[3 * m + 1] % 16 = table[3 * m + 1] % 16
          <5>1. CASE m = k
            BY <5>1, <2>1
          <5>2. CASE m # k
            <6>1. 3 * m + 1 # 3 * k + 1 /\ 3 * m + 1 # 3 * k + 2
              BY <5>2
            <6> QED BY <6>1, <2>1, <3>1, <3>4 DEF Spans
          <5> QED BY <5>1, <5>2
        <4> QED BY <4>1, <4>2, <4>3, <4>4 DEF ReadEven
      <3> QED BY <3>1, <3>2, <3>3, <3>4 DEF Spans
    <2> QED BY <2>1, <2>2 DEF phy
  <1> QED BY <1>1, <1>5, <1>6

\* The table keeps its size, and its cells are bytes.
LEMMA TableType == Spec => [](table \in Table)
  <1>1. Init => table \in Table
    <2> SUFFICES ASSUME NEW b \in Beyond,
                        table = [i \in 0 .. MAPPING_TABLE_SIZE |->
                                    IF i = MAPPING_TABLE_SIZE THEN b ELSE 0]
                 PROVE  table \in Table
      BY DEF Init
    <2>1. b \in Byte /\ 0 \in Byte
      BY TableAssumption DEF Byte
    <2> QED BY <2>1 DEF Table
  <1>2. table \in Table /\ [Next]_table => (table \in Table)'
    <2> SUFFICES ASSUME table \in Table, [Next]_table PROVE (table \in Table)'
      OBVIOUS
    <2>0. MAPPING_TABLE_SIZE' = MAPPING_TABLE_SIZE
      OBVIOUS
    <2>1. CASE Clear
      BY <2>1 DEF Clear, Table, Byte, MAPPING_TABLE_SIZE
    <2>2. ASSUME NEW a \in Addr, NEW p \in Places, Write(a, p[1], p[2])
          PROVE  (table \in Table)'
      BY <2>2, WriteOne DEF Table, Byte, MAPPING_TABLE_SIZE
    <2>3. CASE UNCHANGED table
      BY <2>3 DEF Table, Byte, MAPPING_TABLE_SIZE
    <2> QED BY <2>1, <2>2, <2>3 DEF Next
  <1> QED BY <1>1, <1>2, PTL DEF Spec
-----------------------------------------------------------------------------
\* The mapping table implements a function from addresses to places, for every
\* page size, number of addresses and set of places: write_mapping_table stores
\* an entry to the last bit and disturbs no other address.
THEOREM TableCorrect == Spec => WritesOneEntry
  <1>1. table \in Table /\ [Next]_table =>
          [Clear \/ \E a \in Addr, p \in Places :
             \A b \in Addr : Read(b)' = IF b = a THEN 2 * phy_addr_offset(p[1], p[2])
                                       ELSE Read(b)]_table
    <2> SUFFICES ASSUME table \in Table, Next
                 PROVE Clear \/ \E a \in Addr, p \in Places :
                   \A b \in Addr : Read(b)' = IF b = a THEN 2 * phy_addr_offset(p[1], p[2])
                                             ELSE Read(b)
      OBVIOUS
    <2>1. ASSUME NEW a \in Addr, NEW p \in Places, Write(a, p[1], p[2]), NEW b \in Addr
          PROVE  Read(b)' = IF b = a THEN 2 * phy_addr_offset(p[1], p[2]) ELSE Read(b)
      <3>1. Read(b) = ReadOf(table, b) /\ Read(b)' = ReadOf(table', b)
        BY DEF Read, ReadOf, byte_index, byte_offset
      <3> QED BY <2>1, <3>1, WriteOne
    <2> QED BY <2>1 DEF Next
  <1> QED BY <1>1, TableType, PTL DEF Spec, WritesOneEntry

\* Only the last of an odd number of words has an entry that reaches the byte which
\* MAPPING_TABLE_SIZE rounds away.
LEMMA Inside ==
    ASSUME NEW a \in Addr
    PROVE  /\ byte_index(a) \in 0 .. MAPPING_TABLE_SIZE - 1
           /\ Cut(a) => byte_offset(a) = 0 /\ byte_index(a) + 1 = MAPPING_TABLE_SIZE
           /\ ~Cut(a) => byte_index(a) + 1 \in 0 .. MAPPING_TABLE_SIZE - 1
  <1>1. PICK k \in Nat : Even(a, k) \/ Odd(a, k)
    BY Layout
  <1>2. a \in Nat /\ a <= Words - 1 /\ Words \in Nat
    BY TableAssumption DEF Addr
  <1>3. byte_index(a) = 3 * k \/ byte_index(a) = 3 * k + 1
    BY <1>1 DEF Even, Odd
  <1>4. PICK h \in Nat : Words = 2 * h \/ Words = 2 * h + 1
    <2>1. Words \div 2 \in Nat /\ (Words = 2 * (Words \div 2) \/ Words = 2 * (Words \div 2) + 1)
      BY <1>2
    <2> QED BY <2>1
  <1>5. CASE Words = 2 * h
    <2>1. Words * 12 = 8 * (3 * h)
      BY <1>5
    <2>2. MAPPING_TABLE_SIZE = 3 * h
      BY <2>1 DEF MAPPING_TABLE_SIZE
    <2>3. 3 * k + 3 <= 3 * h
      BY <1>1, <1>2, <1>5 DEF Even, Odd
    <2>4. ~Cut(a)
      BY <1>5 DEF Cut
    <2> QED BY <1>3, <2>2, <2>3, <2>4
  <1>6. CASE Words = 2 * h + 1
    <2>1. Words * 12 = 8 * (3 * h + 1) + 4
      BY <1>6
    <2>2. MAPPING_TABLE_SIZE = 3 * h + 1
      BY <2>1 DEF MAPPING_TABLE_SIZE
    <2>3. Cut(a) <=> a = 2 * h
      BY <1>2, <1>6 DEF Cut
    <2>4. CASE a = 2 * h
      <3>1. k = h /\ Even(a, k)
        BY <1>1, <2>4 DEF Even, Odd
      <3> QED BY <2>2, <2>3, <2>4, <3>1 DEF Even
    <2>5. CASE a # 2 * h
      <3>1. 3 * k + 3 <= 3 * h
        BY <1>1, <1>2, <1>6, <2>5 DEF Even, Odd
      <3> QED BY <1>3, <2>2, <2>3, <2>5, <3>1
    <2> QED BY <2>4, <2>5
  <1> QED BY <1>4, <1>5, <1>6

\* The bytes of an entry after a clear
LEMMA ClearedBytes ==
    ASSUME table \in Table, Clear, NEW i \in 0 .. MAPPING_TABLE_SIZE
    PROVE  table' \in Table /\ table'[i] = IF i = MAPPING_TABLE_SIZE THEN table[i] ELSE 0
  <1>1. MAPPING_TABLE_SIZE \in Int
    BY TableAssumption DEF MAPPING_TABLE_SIZE
  <1> QED BY <1>1 DEF Clear, Table, Byte

\* The high bits of an even entry, which are in its second byte
LEMMA HighBits ==
    ASSUME NEW x \in Byte, NEW y \in Byte
    PROVE  ReadEven(0, y) = 512 * (ReadEven(x, y) \div 512)
  <1> DEFINE q == y % 16
             r == 2 * x
  <1>1. q \in Nat /\ r \in 0 .. 511 /\ ReadEven(x, y) = 512 * q + r /\ ReadEven(0, y) = 512 * q
    BY DEF Byte, ReadEven
  <1> HIDE DEF q, r
  <1>2. (512 * q + r) \div 512 = q
    BY <1>1
  <1> QED BY <1>1, <1>2

\* FTL_IOCTL_CLEAR_ALL (ftl.c:1197) leaves no address with a place, for every number of
\* words, except that the last of an odd number keeps the four high bits of its entry:
\* they are in the byte that MAPPING_TABLE_SIZE (89) rounds away.
THEOREM ClearLeaves == Spec => ClearLeavesOneNibble
  <1>1. ASSUME table \in Table, Clear, NEW a \in Addr
        PROVE  Read(a)' = IF Cut(a) THEN 512 * (Read(a) \div 512) ELSE 0
    <2>1. Read(a) = ReadOf(table, a) /\ Read(a)' = ReadOf(table', a)
      BY DEF Read, ReadOf, byte_index, byte_offset
    <2>2. PICK k \in Nat : Even(a, k) \/ Odd(a, k)
      BY Layout
    <2>3. /\ byte_index(a) \in 0 .. MAPPING_TABLE_SIZE /\ byte_index(a) # MAPPING_TABLE_SIZE
          /\ byte_index(a) + 1 \in 0 .. MAPPING_TABLE_SIZE
          /\ Cut(a) => Even(a, k) /\ 3 * k + 1 = MAPPING_TABLE_SIZE
          /\ ~Cut(a) => byte_index(a) + 1 # MAPPING_TABLE_SIZE
      BY <2>2, Layout, Inside DEF Even, Odd
    <2>4. table' \in Table /\ table'[byte_index(a)] = 0
      BY <1>1, <2>3, ClearedBytes
    <2>5. CASE Cut(a)
      <3> DEFINE x == table[3 * k]
                 y == table[3 * k + 1]
      <3>1. byte_index(a) = 3 * k /\ 3 * k + 1 \in 0 .. MAPPING_TABLE_SIZE
        BY <2>3, <2>5 DEF Even
      <3>2. x \in Byte /\ y \in Byte
        BY <1>1, <2>3, <3>1 DEF Table
      <3>3. table'[3 * k] = 0 /\ table'[3 * k + 1] = y
        BY <1>1, <2>3, <2>4, <2>5, <3>1, ClearedBytes
      <3>4. ReadOf(table, a) = ReadEven(x, y)
        BY <1>1, <2>3, <2>5, ReadBytes
      <3>5. ReadOf(table', a) = ReadEven(0, y)
        BY <2>3, <2>4, <2>5, <3>3, ReadBytes
      <3> HIDE DEF x, y
      <3> QED BY <2>1, <2>5, <3>2, <3>4, <3>5, HighBits
    <2>6. CASE ~Cut(a)
      <3>1. table'[byte_index(a) + 1] = 0
        BY <1>1, <2>3, <2>6, ClearedBytes
      <3>2. ReadOf(table', a) = 2 * (IF byte_offset(a) = 0 THEN 0 % 4096 ELSE 0 \div 16)
        BY <2>4, <3>1 DEF ReadOf
      <3> QED BY <2>1, <2>6, <3>2
    <2> QED BY <2>5, <2>6
  <1>2. table \in Table /\ [Next]_table =>
          [Clear => \A a \in Addr : Read(a)' = IF Cut(a) THEN 512 * (Read(a) \div 512) ELSE 0]_table
    BY <1>1
  <1> QED BY <1>2, TableType, PTL DEF Spec, ClearLeavesOneNibble

-----------------------------------------------------------------------------
(* The mutexes of the devices *)

\* A mutex exists if the bit is set, and who is past the critical section found it.
MutexCreated ==
    /\ \A d \in Device : d \in mutex_init <=> device_mutex[d] # None
    /\ \A t \in Task : step[t] \in {"get", "in"} => wants[t] \in mutex_init

\* Who is inside holds the mutex that the device has now, not an earlier one.
HolderIsIn == \A t \in Task : step[t] = "in" => D!Holder(wants[t]) = t

DeviceInv == D!TypeOK /\ MutexCreated /\ HolderIsIn

LEMMA DeviceInit == ASSUME D!DeviceLockAssumption, D!Init PROVE DeviceInv
  <1>1. D!TypeOK
    BY DEF D!DeviceLockAssumption, D!Init, D!TypeOK
  <1>2. MutexCreated
    BY DEF D!Init, MutexCreated
  <1>3. HolderIsIn
    BY DEF D!Init, HolderIsIn
  <1> QED BY <1>1, <1>2, <1>3 DEF DeviceInv

\* The bit is never cleared and the mutex of a device never replaced, so that a
\* task which does not move stays where it was.
LEMMA EnterKeeps ==
    ASSUME D!DeviceLockAssumption, DeviceInv, NEW t \in Task, D!Enter(t)
    PROVE  DeviceInv'
  <1> USE DEF DeviceInv
  <1>1. PICK d \in Device :
           /\ wants' = [wants EXCEPT ![t] = d]
           /\ step' = [step EXCEPT ![t] = IF d \in mutex_init THEN "get" ELSE "critical"]
    BY DEF D!Enter
  <1>2. UNCHANGED <<mutex_init, device_mutex, owner>>
    BY DEF D!Enter
  <1>3. D!TypeOK'
    BY <1>1, <1>2 DEF D!TypeOK
  <1>4. MutexCreated'
    BY <1>1, <1>2 DEF MutexCreated, D!TypeOK
  <1>5. HolderIsIn'
    <2> SUFFICES ASSUME NEW u \in Task, step'[u] = "in"
                 PROVE  D!Holder(wants[u])' = u
      BY DEF HolderIsIn
    <2>1. u # t
      BY <1>1 DEF D!TypeOK
    <2>2. step[u] = "in" /\ wants'[u] = wants[u]
      BY <1>1, <2>1 DEF D!TypeOK
    <2> QED BY <1>2, <2>2 DEF HolderIsIn, D!Holder
  <1> QED BY <1>3, <1>4, <1>5

LEMMA CreateOnceKeeps ==
    ASSUME D!DeviceLockAssumption, DeviceInv, NEW t \in Task, D!CreateOnce(t)
    PROVE  DeviceInv'
  <1> USE DEF DeviceInv
  <1>1. wants[t] \in Device /\ t # None
    BY DEF D!TypeOK, D!DeviceLockAssumption
  <1>2. /\ step' = [step EXCEPT ![t] = "get"]
        /\ owner' = owner /\ wants' = wants
    BY DEF D!CreateOnce
  <1>3. /\ mutex_init' = mutex_init \cup {wants[t]}
        /\ device_mutex' \in {device_mutex, [device_mutex EXCEPT ![wants[t]] = t]}
        /\ wants[t] \in mutex_init => device_mutex' = device_mutex
        /\ wants[t] \notin mutex_init =>
              device_mutex' = [device_mutex EXCEPT ![wants[t]] = t]
    BY DEF D!CreateOnce, D!MustCreate
  <1>4. D!TypeOK'
    BY <1>1, <1>2, <1>3 DEF D!TypeOK
  <1>5. MutexCreated'
    BY <1>1, <1>2, <1>3 DEF MutexCreated, D!TypeOK
  <1>6. HolderIsIn'
    <2> SUFFICES ASSUME NEW u \in Task, step'[u] = "in"
                 PROVE  D!Holder(wants[u])' = u
      BY <1>2 DEF HolderIsIn
    <2>1. step[u] = "in"
      BY <1>2 DEF D!TypeOK
    <2>2. wants[u] \in mutex_init /\ wants[u] \in Device
      BY <2>1 DEF MutexCreated, D!TypeOK
    <2>3. device_mutex'[wants[u]] = device_mutex[wants[u]]
      BY <1>1, <1>3, <2>2 DEF D!TypeOK
    <2> QED BY <1>2, <2>1, <2>3 DEF HolderIsIn, D!Holder
  <1> QED BY <1>4, <1>5, <1>6

LEMMA GetKeeps ==
    ASSUME D!DeviceLockAssumption, DeviceInv, NEW t \in Task, D!Get(t)
    PROVE  DeviceInv'
  <1> USE DEF DeviceInv
  <1> DEFINE m == device_mutex[wants[t]]
  <1>1. wants[t] \in Device /\ wants[t] \in mutex_init /\ m \in Task
    BY DEF D!Get, MutexCreated, D!TypeOK
  <1>2. /\ step' = [step EXCEPT ![t] = "in"]
        /\ owner' = [owner EXCEPT ![m][wants[t]] = t]
        /\ UNCHANGED <<mutex_init, device_mutex, wants>>
        /\ step[t] = "get" /\ D!Holder(wants[t]) = None
    BY DEF D!Get
  <1>3. D!TypeOK'
    BY <1>1, <1>2 DEF D!TypeOK
  <1>4. MutexCreated'
    BY <1>1, <1>2 DEF MutexCreated, D!TypeOK
  <1>5. HolderIsIn'
    <2> SUFFICES ASSUME NEW u \in Task, step'[u] = "in"
                 PROVE  owner'[device_mutex[wants[u]]][wants[u]] = u
      BY <1>2 DEF HolderIsIn, D!Holder
    <2>1. CASE u = t
      BY <1>1, <1>2, <2>1 DEF D!TypeOK
    <2>2. CASE u # t
      <3>1. step[u] = "in" /\ D!Holder(wants[u]) = u /\ wants[u] \in mutex_init
        BY <1>2, <2>2 DEF D!TypeOK, HolderIsIn, MutexCreated
      <3>2. wants[u] # wants[t]
        BY <1>2, <3>1 DEF D!DeviceLockAssumption
      <3>3. wants[u] \in Device /\ device_mutex[wants[u]] \in Task
        BY <3>1 DEF D!TypeOK, MutexCreated
      <3> QED BY <1>1, <1>2, <3>1, <3>2, <3>3 DEF D!TypeOK, D!Holder
    <2> QED BY <2>1, <2>2
  <1> QED BY <1>3, <1>4, <1>5

LEMMA PutKeeps ==
    ASSUME D!DeviceLockAssumption, DeviceInv, NEW t \in Task, D!Put(t)
    PROVE  DeviceInv'
  <1> USE DEF DeviceInv
  <1> DEFINE m == device_mutex[wants[t]]
  <1>1. wants[t] \in Device /\ wants[t] \in mutex_init /\ m \in Task
    BY DEF D!Put, MutexCreated, D!TypeOK
  <1>2. /\ step' = [step EXCEPT ![t] = "out"]
        /\ owner' = [owner EXCEPT ![m][wants[t]] = None]
        /\ UNCHANGED <<mutex_init, device_mutex, wants>>
        /\ step[t] = "in"
    BY DEF D!Put
  <1>3. D!TypeOK'
    BY <1>1, <1>2 DEF D!TypeOK
  <1>4. MutexCreated'
    BY <1>1, <1>2 DEF MutexCreated, D!TypeOK
  <1>5. HolderIsIn'
    <2> SUFFICES ASSUME NEW u \in Task, step'[u] = "in"
                 PROVE  owner'[device_mutex[wants[u]]][wants[u]] = u
      BY <1>2 DEF HolderIsIn, D!Holder
    <2>1. u # t
      BY <1>2 DEF D!TypeOK
    <2>2. step[u] = "in" /\ D!Holder(wants[u]) = u /\ D!Holder(wants[t]) = t
      BY <1>2, <2>1 DEF D!TypeOK, HolderIsIn
    <2>3. wants[u] # wants[t] /\ wants[u] \in Device /\ device_mutex[wants[u]] \in Task
      BY <2>1, <2>2 DEF D!TypeOK, MutexCreated
    <2> QED BY <1>1, <1>2, <2>2, <2>3 DEF D!TypeOK, D!Holder
  <1> QED BY <1>3, <1>4, <1>5

LEMMA DeviceSafe == ASSUME DeviceInv PROVE D!TypeOK /\ D!OneHolder
  BY DEF DeviceInv, HolderIsIn, D!OneHolder

LEMMA DeviceNext == ASSUME D!DeviceLockAssumption, DeviceInv, D!Next PROVE DeviceInv'
  BY EnterKeeps, CreateOnceKeeps, GetKeeps, PutKeeps DEF D!Next

LEMMA DeviceStill == ASSUME DeviceInv, UNCHANGED D!vars PROVE DeviceInv'
  BY DEF D!vars, DeviceInv, D!TypeOK, MutexCreated, HolderIsIn, D!Holder

\* The cardinality of module Dhcps and that of this one
LEMMA SameCount == \A X : S!Cardinality(X) = Cardinality(X)
  BY DEF Cardinality, S!Cardinality
-----------------------------------------------------------------------------
(* The DHCP server *)

\* The rows in use are the first ones: save_client_addr (dhcps.c:280) takes the
\* first empty row, and only dhcps_init empties one.
RowsFirst == \A r, s \in S!Row : r < s /\ ip[r] = 0 => ip[s] = 0

\* Who is bound is a station of the access point, to an address of the pool.
BoundJoined ==
    \A c \in Client : lease[c] = "bound" => c \in joined /\ address[c] \in S!Pool

\* The table has the lease of every client that believes in one ...
LeaseRecorded ==
    \A c \in Client :
        lease[c] = "bound" /\ address[c] \notin S!Fifth
            => \E r \in S!Row : mac[r] = c /\ ip[r] = address[c]

\* ... and what is on offer is nobody's.
OfferIsFree ==
    state = "offer" =>
        \A c \in Client :
            ~(lease[c] = "bound" /\ address[c] = allocated /\ allocated \notin S!Fifth)

DhcpsInv ==
    /\ S!TypeOK /\ IsFiniteSet(joined) /\ RowsFirst /\ BoundJoined /\ S!RecordedIsMarked
    /\ ~dropped /\ ~strayed => LeaseRecorded /\ OfferIsFree

LEMMA DhcpsInit == ASSUME S!DhcpsAssumption, S!Init PROVE DhcpsInv
  <1>1. joined = {} /\ Cardinality(joined) = 0 /\ IsFiniteSet(joined)
    BY FS_EmptySet DEF S!Init
  <1>2. Cardinality(joined) <= Rows
    BY <1>1 DEF S!DhcpsAssumption
  <1>3. S!TypeOK
    BY <1>1, <1>2, SameCount DEF S!Init, S!TypeOK
  <1> QED BY <1>1, <1>3 DEF S!Init, DhcpsInv, RowsFirst, BoundJoined, S!RecordedIsMarked,
                       LeaseRecorded, OfferIsFree

LEMMA FirstOfRows ==
    ASSUME NEW Q \in SUBSET S!Row, Q # {}
    PROVE  S!First(Q) \in Q /\ \A r \in Q : S!First(Q) <= r
  <1>1. Q \in SUBSET Nat
    BY DEF S!Row
  <1> QED BY <1>1, LeastNatural DEF S!First

\* What is offered is an address of the pool that no other client has.
LEMMA ChoiceIsFree ==
    ASSUME S!DhcpsAssumption, DhcpsInv, NEW c \in Client, lease[c] # "bound"
    PROVE  /\ S!Choice(c) \in S!Pool \cup {0}
           /\ ~dropped /\ ~strayed =>
                 \A d \in Client :
                    ~(lease[d] = "bound" /\ address[d] = S!Choice(c) /\ S!Choice(c) \notin S!Fifth)
  <1> USE DEF DhcpsInv
  <1>1. CASE S!Before(c) # 0
    <2> DEFINE Q == {r \in S!Row : mac[r] = c /\ S!Bits(ip[r]) \cap marked # {}}
    <2>1. Q # {} /\ S!Before(c) = ip[S!First(Q)]
      BY <1>1 DEF S!Before
    <2>2. S!First(Q) \in Q
      BY <2>1, FirstOfRows
    <2>3. PICK r \in S!Row : mac[r] = c /\ S!Choice(c) = ip[r] /\ ip[r] # 0
      BY <1>1, <2>1, <2>2 DEF S!Choice
    <2>4. ASSUME ~dropped, ~strayed, NEW d \in Client, lease[d] = "bound",
                 address[d] = S!Choice(c), S!Choice(c) \notin S!Fifth
          PROVE  FALSE
      <3>1. PICK s \in S!Row : mac[s] = d /\ ip[s] = address[d]
        BY <2>4 DEF LeaseRecorded
      <3>2. s = r
        BY <2>3, <2>4, <3>1 DEF S!RecordedIsMarked
      <3> QED BY <2>3, <2>4, <3>1, <3>2
    <2> QED BY <2>3, <2>4 DEF S!TypeOK
  <1>2. CASE S!Before(c) = 0
    <2>1. S!Choice(c) = S!SearchNext
      BY <1>2 DEF S!Choice
    <2>2. CASE S!Pool \subseteq marked
      <3>1. S!Choice(c) = 0 /\ 0 \notin S!Pool
        BY <2>1, <2>2 DEF S!SearchNext, S!Pool, S!DhcpsAssumption
      <3> QED BY <3>1 DEF BoundJoined
    <2>3. CASE ~(S!Pool \subseteq marked)
      <3>1. S!Pool \ marked # {} /\ S!Pool \ marked \in SUBSET Nat
        BY <2>3 DEF S!Pool, S!DhcpsAssumption
      <3>2. S!Choice(c) \in S!Pool \ marked
        BY <2>1, <2>3, <3>1, LeastNatural DEF S!SearchNext, S!First
      <3>3. ASSUME ~dropped, ~strayed, NEW d \in Client, lease[d] = "bound",
                   address[d] = S!Choice(c), S!Choice(c) \notin S!Fifth
            PROVE  FALSE
        <4>1. PICK s \in S!Row : mac[s] = d /\ ip[s] = address[d]
          BY <3>3 DEF LeaseRecorded
        <4>2. address[d] # 0
          BY <3>3 DEF BoundJoined, S!Pool, S!DhcpsAssumption
        <4> QED BY <3>2, <3>3, <4>1, <4>2 DEF S!RecordedIsMarked
      <3> QED BY <3>2, <3>3
    <2> QED BY <2>2, <2>3
  <1> QED BY <1>1, <1>2

LEMMA DiscoverKeeps ==
    ASSUME S!DhcpsAssumption, DhcpsInv, NEW c \in Client, S!Discover(c) PROVE DhcpsInv'
  <1> USE DEF DhcpsInv
  <1>1. /\ UNCHANGED <<marked, mac, ip, joined, dropped, strayed>>
        /\ allocated' = S!Choice(c) /\ state' = "offer"
        /\ request_ip' \in S!Pool \cup {0}
        /\ S!Hears(c, "offered", S!Choice(c)) /\ lease[c] # "bound"
    BY DEF S!Discover, S!Requested, S!TypeOK
  <1>2. /\ lease' \in [Client -> {"init", "offered", "bound"}]
        /\ address' \in [Client -> S!Pool \cup {0}]
        /\ \A d \in Client : lease'[d] = "bound" => lease[d] = "bound" /\ address'[d] = address[d]
    BY <1>1, ChoiceIsFree DEF S!Hears, S!TypeOK
  <1>3. S!TypeOK'
    BY <1>1, <1>2, ChoiceIsFree DEF S!TypeOK
  <1>4. RowsFirst' /\ BoundJoined' /\ S!RecordedIsMarked'
    BY <1>1, <1>2 DEF RowsFirst, BoundJoined, S!RecordedIsMarked
  <1>5. (~dropped /\ ~strayed => LeaseRecorded /\ OfferIsFree)'
    BY <1>1, <1>2, ChoiceIsFree DEF LeaseRecorded, OfferIsFree
  <1> QED BY <1>1, <1>3, <1>4, <1>5

\* The table after an address is given out
LEMMA SaveClientKeeps ==
    ASSUME S!DhcpsAssumption, DhcpsInv, NEW c \in Client, NEW d \in S!Pool, S!SaveClient(c, d),
           \/ \A r \in S!Row : ip[r] = d => mac[r] = c
           \/ ~dropped /\ ~strayed =>
                 \A x \in Client : ~(lease[x] = "bound" /\ address[x] = d /\ d \notin S!Fifth)
    PROVE  /\ marked' \subseteq S!Pool \cup {Local}
           /\ mac' \in [S!Row -> Client \cup {NoClient}] /\ ip' \in [S!Row -> S!Pool \cup {0}]
           /\ RowsFirst' /\ S!RecordedIsMarked' /\ dropped' \in {dropped, TRUE}
           /\ ~dropped' => \E r \in S!Row : mac'[r] = c /\ ip'[r] = d
           /\ ~dropped' /\ ~strayed =>
                 \A x \in Client : lease[x] = "bound" /\ address[x] \notin S!Fifth
                    => \E r \in S!Row : mac'[r] = x /\ ip'[r] = address[x]
  <1> USE DEF DhcpsInv
  <1> DEFINE fits == {r \in S!Row : ip[r] \in {0, d}}
             rows == IF fits # {} THEN fits ELSE S!Stale
             f == S!First(rows)
  <1>1. d # 0 /\ d \in Nat /\ S!Row \in SUBSET Nat /\ S!Mark(d) \subseteq S!Pool \cup {Local}
    BY DEF S!DhcpsAssumption, S!Pool, S!Row, S!Mark, S!TypeOK
  <1>2. CASE rows = {}
    <2>1. UNCHANGED <<mac, ip>> /\ dropped' = TRUE /\ marked' = S!Mark(d)
      BY <1>2 DEF S!SaveClient
    <2>2. marked \subseteq marked'
      BY <2>1 DEF S!Mark
    <2> QED BY <1>1, <2>1, <2>2 DEF S!TypeOK, RowsFirst, S!RecordedIsMarked
  <1>3. CASE rows # {}
    <2>1. f \in rows /\ rows \in SUBSET S!Row /\ \A r \in rows : f <= r
      BY <1>3, FirstOfRows DEF S!Stale
    <2>2. /\ mac' = [mac EXCEPT ![f] = c] /\ ip' = [ip EXCEPT ![f] = d] /\ dropped' = dropped
          /\ marked' = S!Mark(d) \ (IF fits # {} THEN {} ELSE S!Bits(ip[f]))
      BY <1>3 DEF S!SaveClient
    <2>3. f \in S!Row /\ mac'[f] = c /\ ip'[f] = d
          /\ \A r \in S!Row : r # f => mac'[r] = mac[r] /\ ip'[r] = ip[r]
      BY <2>1, <2>2 DEF S!TypeOK
    <2>4. mac' \in [S!Row -> Client \cup {NoClient}] /\ ip' \in [S!Row -> S!Pool \cup {0}]
          /\ marked' \subseteq S!Pool \cup {Local}
      BY <1>1, <2>2 DEF S!TypeOK
    <2>5. ASSUME NEW r \in S!Row, r # f PROVE ip[r] # d
      <3>1. CASE fits = {}
        BY <3>1
      <3>2. CASE fits # {}
        <4>1. ip[f] = 0 \/ ip[f] = d
          BY <2>1, <3>2
        <4>2. CASE ip[f] = d
          BY <1>1, <2>3, <2>5, <4>2 DEF S!RecordedIsMarked
        <4>3. CASE ip[f] = 0 /\ ip[r] = d
          <5>1. r \in fits
            BY <4>3
          <5>2. f <= r
            BY <2>1, <3>2, <5>1
          <5>3. f \in Nat /\ r \in Nat /\ f < r
            <6>1. f \in Nat /\ r \in Nat
              BY <1>1, <2>3, <2>5
            <6> QED BY <2>5, <5>2, <6>1
          <5>4. ip[r] = 0
            BY <2>3, <4>3, <5>3 DEF RowsFirst
          <5> QED BY <1>1, <4>3, <5>4
        <4> QED BY <4>1, <4>2, <4>3
      <3> QED BY <3>1, <3>2
    <2>6. RowsFirst'
      <3> SUFFICES ASSUME NEW r \in S!Row, NEW s \in S!Row, r < s, ip'[r] = 0 PROVE ip'[s] = 0
        BY DEF RowsFirst
      <3>1. r # f /\ ip[r] = 0
        BY <1>1, <2>3
      <3>2. r \in fits
        BY <3>1
      <3>3. f <= r
        BY <2>1, <3>2
      <3>4. s # f
        <4>1. f \in Nat /\ r \in Nat
          BY <1>1, <2>3
        <4> QED BY <3>3, <4>1
      <3> QED BY <2>3, <3>1, <3>4 DEF RowsFirst
    <2>7. S!RecordedIsMarked'
      <3> SUFFICES ASSUME NEW r \in S!Row, ip'[r] # 0
                   PROVE  /\ ip'[r] \in marked' \/ ip'[r] \in S!Fifth
                          /\ \A s \in S!Row : ip'[s] = ip'[r] => s = r
        BY DEF S!RecordedIsMarked, S!Fifth
      <3>1. CASE r = f
        <4>1. d \in S!Mark(d) \/ d \in S!Fifth
          BY DEF S!Mark
        <4>2. fits = {} => d \notin S!Bits(ip[f])
          BY <2>3 DEF S!Bits
        <4> QED BY <2>2, <2>3, <2>5, <3>1, <4>1, <4>2
      <3>2. CASE r # f
        <4>1. ip[r] # 0 /\ ip[r] # d
          BY <2>3, <2>5, <3>2
        <4>2. ip[r] \in S!Mark(d) \/ ip[r] \in S!Fifth
          BY <4>1 DEF S!RecordedIsMarked, S!Mark
        <4>3. ip[r] # ip[f]
          BY <2>3, <3>2, <4>1 DEF S!RecordedIsMarked
        <4>4. ip[r] \notin S!Bits(ip[f])
          BY <4>3 DEF S!Bits
        <4>5. \A s \in S!Row : ip'[s] = ip'[r] => s = r
          BY <2>3, <3>2, <4>1 DEF S!RecordedIsMarked
        <4> QED BY <2>2, <2>3, <3>2, <4>2, <4>4, <4>5
      <3> QED BY <3>1, <3>2
    <2>8. ASSUME ~dropped, ~strayed, NEW x \in Client, lease[x] = "bound",
                 address[x] \notin S!Fifth
          PROVE  \E r \in S!Row : mac'[r] = x /\ ip'[r] = address[x]
      <3>1. PICK r \in S!Row : mac[r] = x /\ ip[r] = address[x]
        BY <2>8 DEF LeaseRecorded
      <3>2. CASE r # f
        BY <2>3, <3>1, <3>2
      <3>3. CASE r = f
        <4>1. fits # {}
          BY <2>1, <2>8, <3>1, <3>3 DEF S!Stale, BoundJoined
        <4>2. address[x] = d
          BY <1>1, <2>1, <2>8, <3>1, <3>3, <4>1 DEF BoundJoined, S!Pool, S!DhcpsAssumption
        <4>3. x = c
          BY <2>8, <3>1, <4>2
        <4> QED BY <2>3, <4>2, <4>3
      <3> QED BY <3>2, <3>3
    <2> QED BY <2>2, <2>3, <2>4, <2>6, <2>7, <2>8
  <1> QED BY <1>2, <1>3

LEMMA RequestKeeps ==
    ASSUME S!DhcpsAssumption, DhcpsInv, NEW c \in joined, NEW option \in S!Pool \cup {0},
           NEW ciaddr \in S!Pool \cup {0}, S!Request(c, option, ciaddr)
    PROVE  DhcpsInv'
  <1> USE DEF DhcpsInv
  <1> DEFINE d == S!Wanted(option, ciaddr)
  <1>1. c \in Client /\ UNCHANGED <<joined, strayed>> /\ state' = "idle" /\ 0 \notin S!Pool
    BY DEF S!Request, S!TypeOK, S!Pool, S!DhcpsAssumption
  <1>2. d \in S!Pool \cup {0}
    BY DEF S!Wanted, S!TypeOK
  <1>3. OfferIsFree'
    BY <1>1 DEF OfferIsFree
  <1>4. CASE S!Nak(c, d)
    <2>1. /\ UNCHANGED <<allocated, marked, mac, ip, dropped>> /\ request_ip' = d
          /\ S!Hears(c, "init", 0)
      BY <1>4 DEF S!Nak
    <2>2. /\ lease' \in [Client -> {"init", "offered", "bound"}]
          /\ address' \in [Client -> S!Pool \cup {0}]
          /\ \A x \in Client :
                lease'[x] = "bound" => lease[x] = "bound" /\ address'[x] = address[x]
      BY <2>1 DEF S!Hears, S!TypeOK
    <2>3. S!TypeOK' /\ RowsFirst' /\ BoundJoined' /\ S!RecordedIsMarked'
      BY <1>1, <1>2, <2>1, <2>2 DEF S!TypeOK, RowsFirst, BoundJoined, S!RecordedIsMarked
    <2>4. (~dropped /\ ~strayed => LeaseRecorded)'
      BY <1>1, <2>1, <2>2 DEF LeaseRecorded
    <2> QED BY <1>1, <1>3, <2>3, <2>4
  <1>5. CASE ~S!Nak(c, d)
    <2>1. S!Ack(c, d) /\ (S!Direct(c, d) # 0 \/ S!Confirmed(d))
      BY <1>5 DEF S!Request
    <2>2. /\ d \in S!Pool
          /\ \/ \A r \in S!Row : ip[r] = d => mac[r] = c
             \/ ~dropped /\ ~strayed =>
                   \A x \in Client :
                       ~(lease[x] = "bound" /\ address[x] = d /\ d \notin S!Fifth)
      BY <1>2, <2>1 DEF S!Direct, S!Confirmed, OfferIsFree
    <2>3. /\ S!SaveClient(c, d) /\ request_ip' = 0 /\ allocated' = 0 /\ S!Hears(c, "bound", d)
      BY <2>1 DEF S!Ack
    <2> HIDE DEF d
    <2>4. /\ marked' \subseteq S!Pool \cup {Local}
          /\ mac' \in [S!Row -> Client \cup {NoClient}] /\ ip' \in [S!Row -> S!Pool \cup {0}]
          /\ RowsFirst' /\ S!RecordedIsMarked' /\ dropped' \in {dropped, TRUE}
          /\ ~dropped' => \E r \in S!Row : mac'[r] = c /\ ip'[r] = d
          /\ ~dropped' /\ ~strayed =>
                \A x \in Client : lease[x] = "bound" /\ address[x] \notin S!Fifth
                   => \E r \in S!Row : mac'[r] = x /\ ip'[r] = address[x]
      BY <1>1, <2>2, <2>3, SaveClientKeeps
    <2>5. /\ lease' \in [Client -> {"init", "offered", "bound"}]
          /\ address' \in [Client -> S!Pool \cup {0}]
          /\ \A x \in Client :
                x # c => lease'[x] = lease[x] /\ address'[x] = address[x]
          /\ \/ lease'[c] = "bound" /\ address'[c] = d
             \/ lease'[c] = lease[c] /\ address'[c] = address[c]
      BY <1>1, <2>2, <2>3 DEF S!Hears, S!TypeOK
    <2>6. S!TypeOK' /\ BoundJoined'
      BY <1>1, <2>2, <2>3, <2>4, <2>5 DEF S!TypeOK, BoundJoined
    <2>7. ASSUME ~dropped', ~strayed' PROVE LeaseRecorded'
      <3> SUFFICES ASSUME NEW x \in Client, lease'[x] = "bound", address'[x] \notin S!Fifth
                   PROVE  \E r \in S!Row : mac'[r] = x /\ ip'[r] = address'[x]
        BY DEF LeaseRecorded, S!Fifth
      <3>1. CASE x # c
        BY <1>1, <2>4, <2>5, <2>7, <3>1
      <3>2. CASE x = c /\ address'[c] = d
        BY <2>4, <2>7, <3>2
      <3>3. CASE x = c /\ lease'[c] = lease[c] /\ address'[c] = address[c]
        BY <1>1, <2>4, <2>7, <3>3
      <3> QED BY <2>5, <3>1, <3>2, <3>3
    <2> QED BY <1>1, <1>3, <2>4, <2>6, <2>7
  <1> QED BY <1>4, <1>5

LEMMA ForgetKeeps ==
    ASSUME S!DhcpsAssumption, DhcpsInv, NEW c \in Client, NEW option \in S!Pool \cup {0},
           S!Forget(c, option)
    PROVE  DhcpsInv'
  <1> USE DEF DhcpsInv
  <1>1. /\ UNCHANGED <<allocated, marked, mac, ip, joined, dropped, strayed>>
        /\ request_ip' \in S!Pool \cup {0} /\ state' = "idle"
        /\ lease' = [lease EXCEPT ![c] = "init"] /\ address' = [address EXCEPT ![c] = 0]
    BY DEF S!Forget, S!Requested, S!TypeOK
  <1>2. \A x \in Client :
           lease'[x] = "bound" => lease[x] = "bound" /\ address'[x] = address[x]
    BY <1>1 DEF S!TypeOK
  <1>3. S!TypeOK'
    BY <1>1 DEF S!TypeOK
  <1> QED BY <1>1, <1>2, <1>3 DEF RowsFirst, BoundJoined, S!RecordedIsMarked, LeaseRecorded,
                             OfferIsFree

LEMMA InformKeeps ==
    ASSUME S!DhcpsAssumption, DhcpsInv, NEW c \in Client, S!Inform(c)
    PROVE  DhcpsInv'
  <1> USE DEF DhcpsInv
  <1>1. /\ UNCHANGED <<state, request_ip, marked, mac, ip, joined, lease, address, dropped>>
        /\ strayed' = TRUE /\ allocated' = S!Choice(c)
    BY DEF S!Inform, S!clients
  <1>2. S!Choice(c) \in S!Pool \cup {0}
    <2>1. S!Before(c) \in S!Pool \cup {0}
      <3> DEFINE Q == {r \in S!Row : mac[r] = c /\ S!Bits(ip[r]) \cap marked # {}}
      <3>1. Q # {} => S!First(Q) \in S!Row
        BY FirstOfRows
      <3> QED BY <3>1 DEF S!Before, S!TypeOK
    <2>2. S!SearchNext \in S!Pool \cup {0}
      <3>1. S!Pool \ marked \in SUBSET Nat
        BY DEF S!Pool, S!DhcpsAssumption
      <3> QED BY <3>1, LeastNatural DEF S!SearchNext, S!First
    <2> QED BY <2>1, <2>2 DEF S!Choice
  <1>3. S!TypeOK'
    BY <1>1, <1>2 DEF S!TypeOK
  <1> QED BY <1>1, <1>3 DEF RowsFirst, BoundJoined, S!RecordedIsMarked

LEMMA StationKeeps ==
    ASSUME S!DhcpsAssumption, DhcpsInv, NEW c \in Client, S!Join(c) \/ S!Part(c)
    PROVE  DhcpsInv'
  <1> USE DEF DhcpsInv
  <1>1. /\ UNCHANGED <<S!server, address>>
        /\ joined' \in SUBSET Client /\ lease' \in [Client -> {"init", "offered", "bound"}]
        /\ \A x \in Client : lease'[x] = "bound" => lease[x] = "bound" /\ x \in joined'
    BY DEF S!Join, S!Part, S!TypeOK, BoundJoined
  <1>2. IsFiniteSet(joined') /\ Cardinality(joined') <= Rows
    <2>1. Cardinality(joined) \in Nat /\ Rows \in Nat
      BY FS_CardinalityType DEF S!DhcpsAssumption
    <2>2. CASE S!Join(c)
      <3>1. c \notin joined /\ Cardinality(joined) < Rows /\ joined' = joined \cup {c}
        BY <2>2, SameCount DEF S!Join
      <3>2. /\ IsFiniteSet(joined \cup {c})
            /\ Cardinality(joined \cup {c}) = Cardinality(joined) + 1
        BY <3>1, FS_AddElement
      <3> QED BY <2>1, <3>1, <3>2
    <2>3. CASE S!Part(c)
      <3>1. c \in joined /\ joined' = joined \ {c} /\ Cardinality(joined) <= Rows
        BY <2>3, SameCount DEF S!Part, S!TypeOK
      <3>2. /\ IsFiniteSet(joined \ {c})
            /\ Cardinality(joined \ {c}) = Cardinality(joined) - 1
        BY <3>1, FS_RemoveElement
      <3> QED BY <2>1, <3>1, <3>2
    <2> QED BY <2>2, <2>3
  <1>3. S!TypeOK'
    BY <1>1, <1>2, SameCount DEF S!TypeOK, S!server
  <1> QED BY <1>1, <1>2, <1>3 DEF S!server, RowsFirst, BoundJoined, S!RecordedIsMarked,
                             LeaseRecorded, OfferIsFree

LEMMA RestartKeeps ==
    ASSUME S!DhcpsAssumption, DhcpsInv, S!Restart
    PROVE  DhcpsInv'
  <1> USE DEF DhcpsInv
  <1>1. /\ UNCHANGED <<state, request_ip, allocated, address>>
        /\ joined' = {} /\ lease' = [c \in Client |-> "init"] /\ marked' = {Local}
        /\ mac' = [r \in S!Row |-> NoClient] /\ ip' = [r \in S!Row |-> 0]
        /\ dropped' = FALSE /\ strayed' = FALSE
    BY DEF S!Restart
  <1>2. IsFiniteSet(joined') /\ Cardinality(joined') <= Rows
    BY <1>1, FS_EmptySet DEF S!DhcpsAssumption
  <1>3. S!TypeOK'
    BY <1>1, <1>2, SameCount DEF S!TypeOK
  <1> QED BY <1>1, <1>2, <1>3 DEF RowsFirst, BoundJoined, S!RecordedIsMarked,
                             LeaseRecorded, OfferIsFree

LEMMA DhcpsNext == ASSUME S!DhcpsAssumption, DhcpsInv, S!Next PROVE DhcpsInv'
  <1> USE DEF DhcpsInv
  <1>1. \A c \in Client : address[c] \in S!Pool \cup {0} /\ 0 \in S!Pool \cup {0}
    BY DEF S!TypeOK
  <1>2. CASE \E c \in Client : S!Discover(c)
    BY <1>2, DiscoverKeeps
  <1>3. CASE \E c \in Client : S!Select(c) \/ S!Reboot(c) \/ S!Renew(c)
    <2>1. PICK c \in Client : S!Select(c) \/ S!Reboot(c) \/ S!Renew(c)
      BY <1>3
    <2>2. c \in joined /\ (S!Request(c, address[c], 0) \/ S!Request(c, 0, address[c]))
      BY <2>1 DEF S!Select, S!Reboot, S!Renew
    <2> QED BY <1>1, <2>2, RequestKeeps
  <1>4. CASE \E c \in Client : S!Decline(c) \/ S!Release(c)
    BY <1>1, <1>4, ForgetKeeps DEF S!Decline, S!Release
  <1>5. CASE \E c \in Client : S!Inform(c)
    BY <1>5, InformKeeps
  <1>6. CASE \E c \in Client : S!Join(c) \/ S!Part(c)
    BY <1>6, StationKeeps
  <1>7. CASE S!Restart
    BY <1>7, RestartKeeps
  <1> QED BY <1>2, <1>3, <1>4, <1>5, <1>6, <1>7 DEF S!Next

LEMMA DhcpsSafe ==
    ASSUME S!DhcpsAssumption, DhcpsInv
    PROVE  S!TypeOK /\ S!RecordedIsMarked /\ S!NoSharedAddress
  <1> USE DEF DhcpsInv
  <1>1. ASSUME ~dropped, ~strayed, NEW c \in joined, NEW d \in joined,
               lease[c] = "bound", lease[d] = "bound", address[c] = address[d],
               address[c] \notin S!Fifth
        PROVE  c = d
    <2>1. c \in Client /\ d \in Client /\ address[c] # 0
      BY <1>1 DEF S!TypeOK, BoundJoined, S!Pool, S!DhcpsAssumption
    <2>2. PICK r \in S!Row : mac[r] = c /\ ip[r] = address[c]
      BY <1>1, <2>1 DEF LeaseRecorded
    <2>3. PICK s \in S!Row : mac[s] = d /\ ip[s] = address[d]
      BY <1>1, <2>1 DEF LeaseRecorded
    <2>4. s = r
      BY <1>1, <2>1, <2>2, <2>3 DEF S!RecordedIsMarked
    <2> QED BY <2>2, <2>3, <2>4
  <1> QED BY <1>1 DEF S!NoSharedAddress

\* A recorded lease that is renewed stays: its row is in the way of no request of
\* its own client.
LEMMA RenewKeeps == ASSUME S!DhcpsAssumption, DhcpsInv PROVE S!KeepsAddress
  <1> USE DEF DhcpsInv
  <1> SUFFICES ASSUME NEW c \in Client, S!Renew(c), request_ip = 0,
                      NEW r \in S!Row, mac[r] = c, ip[r] = address[c]
               PROVE  lease'[c] = "bound" /\ address'[c] = address[c]
    BY DEF S!KeepsAddress
  <1> DEFINE d == address[c]
  <1>1. /\ lease[c] = "bound" /\ S!Request(c, 0, d) /\ S!Wanted(0, d) = d
    BY DEF S!Renew, S!Wanted
  <1>2. d \in S!Pool /\ d # 0
    BY <1>1 DEF BoundJoined, S!Pool, S!DhcpsAssumption
  <1>3. S!Direct(c, d) # 0
    BY <1>2 DEF S!RecordedIsMarked, S!Direct
  <1>4. S!Hears(c, "bound", d)
    BY <1>1, <1>3 DEF S!Request, S!Ack
  <1> QED BY <1>1, <1>4 DEF S!Hears, S!TypeOK

LEMMA DhcpsStill == ASSUME DhcpsInv, UNCHANGED S!dhcpsVars PROVE DhcpsInv'
  <1>1. UNCHANGED <<state, request_ip, allocated, marked, mac, ip, joined, lease, address,
                    dropped, strayed>>
    BY DEF S!dhcpsVars, S!server, S!clients
  <1> QED BY <1>1 DEF DhcpsInv, S!TypeOK, RowsFirst, BoundJoined, S!RecordedIsMarked,
                      LeaseRecorded, OfferIsFree

-----------------------------------------------------------------------------
(* The timers *)

\* A timer owns its handle until it has sent the command that frees it.
Owner(t) == timer_hdl[t] # NoHandle /\ at[t] # "deleted"

\* The command in the queue is c, for the handle of t.
Pends(c, t) ==
    commands # <<>> /\ Head(commands).command = c /\ Head(commands).handle = timer_hdl[t]

Silent(t) == timer_hdl[t] \notin armed /\ ~Pends("start", t)

\* The tasks wait for the daemon: there is one command at most.
OneCommand ==
    commands # <<>> =>
        /\ Tail(commands) = <<>> /\ DOMAIN commands = {1} /\ Head(commands) = commands[1]
        /\ Head(commands).handle \in existing

OwnersAlive ==
    \A t \in Timer :
        /\ at[t] # "out" => timer_hdl[t] # NoHandle
        /\ Owner(t) => timer_hdl[t] \in existing

OwnersApart ==
    \A t, u \in Timer : Owner(t) /\ Owner(u) /\ timer_hdl[t] = timer_hdl[u] => t = u

\* A handle that is about to be freed is nobody's any more.
DyingIsNobodys == \A t \in Timer : Pends("delete", t) => at[t] = "deleted"

ListedOwn == \A t \in timer_table : Owner(t) /\ at[t] \notin {"alloc", "delete"}

\* A quiet timer is not armed and will not be; one that is being cancelled is
\* about to be stopped.
QuietIsSilent ==
    \A t \in Timer :
        /\ t \in quiet /\ Owner(t) => Silent(t)
        /\ at[t] = "cancelled" => Silent(t) \/ Pends("stop", t)
        /\ at[t] = "period" \/ (at[t] \in {"stop", "alloc"} /\ arming[t]) => t \notin quiet

TimerInv ==
    /\ T!TypeOK /\ OneCommand /\ OwnersAlive /\ OwnersApart /\ DyingIsNobodys /\ ListedOwn
    /\ QuietIsSilent /\ T!QuietIsQuiet

LEMMA TimerInit == ASSUME T!TimerAssumption, T!Init PROVE TimerInv
  BY DEF T!TimerAssumption, T!Init, TimerInv, T!TypeOK, OneCommand, OwnersAlive,
     OwnersApart, DyingIsNobodys, ListedOwn, QuietIsSilent, T!QuietIsQuiet, Owner, Pends

LEMMA Sends ==
    ASSUME NEW c, NEW t, T!Send(c, t)
    PROVE  /\ commands' # <<>> /\ Tail(commands') = <<>> /\ DOMAIN commands' = {1}
           /\ Head(commands') = commands'[1]
           /\ Head(commands').command = c /\ Head(commands').handle = timer_hdl[t]
  BY DEF T!Send

\* A step of a task that sends nothing and keeps its handle
LEMMA MoveKeeps ==
    ASSUME T!TimerAssumption, TimerInv, NEW t \in Timer,
           T!Insert(t) \/ T!Test(t) \/ T!Cancel(t) \/ T!Cancelled(t) \/ T!Delete(t)
    PROVE  TimerInv'
  <1> USE DEF TimerInv
  <1>1. /\ UNCHANGED <<timer_hdl, existing, armed, commands>> /\ commands = <<>>
        /\ called' = {} /\ timer_hdl[t] # NoHandle /\ at[t] \notin {"delete", "deleted"}
    BY DEF T!Insert, T!Test, T!Cancel, T!Cancelled, T!Delete, T!Moves, T!kernel, T!timers,
       OwnersAlive
  <1>2. /\ T!TypeOK'
        /\ at'[t] \notin {"alloc", "deleted"} /\ \A u \in Timer : u # t => at'[u] = at[u]
    BY DEF T!Insert, T!Test, T!Cancel, T!Cancelled, T!Delete, T!Moves, T!kernel, T!timers,
       T!TypeOK, T!Ready, T!Removed
  <1>3. /\ \A u \in Timer : Owner(u)' <=> Owner(u)
        /\ \A u \in Timer, c \in {"start", "stop", "delete"} : ~Pends(c, u) /\ ~Pends(c, u)'
        /\ \A u \in Timer : Silent(u)' <=> Silent(u)
    BY <1>1, <1>2 DEF Owner, Pends, Silent
  <1>4. OneCommand' /\ OwnersAlive' /\ OwnersApart' /\ DyingIsNobodys' /\ T!QuietIsQuiet'
    BY <1>1, <1>2, <1>3 DEF OneCommand, OwnersAlive, OwnersApart, DyingIsNobodys,
                            T!QuietIsQuiet
  <1>5. ListedOwn'
    <2>1. CASE T!Delete(t)
      <3>1. PICK u \in T!Entries(timer_hdl[t]) : timer_table' = timer_table \ {u}
        BY <2>1 DEF T!Delete, T!Removed
      <3>2. u = t
        BY <1>1, <3>1 DEF T!Entries, ListedOwn, OwnersApart, Owner, T!TypeOK
      <3> QED BY <1>2, <1>3, <3>1, <3>2 DEF ListedOwn, T!TypeOK
    <2>2. CASE ~T!Delete(t)
      <3>1. at'[t] # "delete" /\ timer_table' \subseteq timer_table \cup {t}
        BY <2>2 DEF T!Insert, T!Test, T!Cancel, T!Cancelled, T!Moves, T!timers, T!Ready,
           T!TypeOK
      <3> QED BY <1>1, <1>2, <1>3, <3>1 DEF ListedOwn, T!TypeOK, Owner
    <2> QED BY <2>1, <2>2
  <1>6. QuietIsSilent'
    <2>1. /\ \A u \in Timer : u # t => arming'[u] = arming[u] /\ (u \in quiet' <=> u \in quiet)
          /\ t \in quiet' => t \in quiet \/ Silent(t)
      BY <1>3 DEF T!Insert, T!Test, T!Cancel, T!Cancelled, T!Delete, T!Moves, T!TypeOK,
         QuietIsSilent
    <2>2. /\ at'[t] # "cancelled"
          /\ at'[t] = "period" \/ (at'[t] \in {"stop", "alloc"} /\ arming'[t]) => t \notin quiet'
      BY DEF T!Insert, T!Test, T!Cancel, T!Cancelled, T!Delete, T!Moves, T!TypeOK,
         QuietIsSilent, T!Ready
    <2> QED BY <1>2, <1>3, <2>1, <2>2 DEF QuietIsSilent
  <1> QED BY <1>2, <1>4, <1>5, <1>6

\* A step that sends a command
LEMMA SendKeeps ==
    ASSUME T!TimerAssumption, TimerInv, NEW t \in Timer,
           T!NoMemory(t) \/ T!Stop(t) \/ T!ChangePeriod(t) \/ T!CancelStop(t) \/ T!DeleteHandle(t)
    PROVE  TimerInv'
  <1> USE DEF TimerInv
  <1>1. /\ UNCHANGED <<timer_hdl, timer_table, existing, armed, arming, quiet>>
        /\ commands = <<>> /\ called' = {} /\ Owner(t)
        /\ at[t] \in {"alloc", "stop", "period", "cancel", "delete"}
    BY DEF T!NoMemory, T!Stop, T!ChangePeriod, T!CancelStop, T!DeleteHandle, T!Moves,
       T!timers, OwnersAlive, Owner
  <1>2. PICK c \in {"start", "stop", "delete"} : T!Send(c, t) /\
           /\ c = "delete" <=> at'[t] = "deleted"
           /\ c = "start" <=> at[t] = "period"
           /\ c = "delete" => at[t] \in {"alloc", "delete"}
           /\ at'[t] = "cancelled" => c = "stop"
           /\ at'[t] \in {"deleted", "out", "period", "cancelled"}
           /\ at'[t] = "period" => at[t] = "stop" /\ arming[t]
    BY DEF T!NoMemory, T!Stop, T!ChangePeriod, T!CancelStop, T!DeleteHandle, T!Moves,
       T!TypeOK, T!Ready
  <1>3. T!TypeOK' /\ \A u \in Timer : u # t => at'[u] = at[u]
    BY <1>1 DEF T!NoMemory, T!Stop, T!ChangePeriod, T!CancelStop, T!DeleteHandle, T!Moves,
       T!TypeOK, T!Ready
  <1>4. /\ commands' # <<>> /\ Tail(commands') = <<>> /\ DOMAIN commands' = {1}
        /\ Head(commands') = commands'[1]
        /\ Head(commands').command = c /\ Head(commands').handle = timer_hdl[t]
    BY <1>2, Sends
  <1>5. /\ \A u \in Timer : Owner(u)' => Owner(u)
        /\ \A u \in Timer, x \in {"start", "stop", "delete"} :
              Pends(x, u)' <=> x = c /\ timer_hdl[u] = timer_hdl[t]
        /\ \A u \in Timer, x \in {"start", "stop", "delete"} : ~Pends(x, u)
    BY <1>1, <1>2, <1>3, <1>4 DEF Owner, Pends
  <1>6. OneCommand' /\ OwnersAlive' /\ OwnersApart'
    BY <1>1, <1>3, <1>4, <1>5 DEF OneCommand, OwnersAlive, OwnersApart, Owner
  <1>7. DyingIsNobodys'
    BY <1>1, <1>2, <1>3, <1>5 DEF DyingIsNobodys, OwnersAlive, OwnersApart, Owner
  <1>8. ListedOwn' /\ T!QuietIsQuiet'
    BY <1>1, <1>2, <1>3 DEF ListedOwn, T!QuietIsQuiet, Owner, T!TypeOK
  <1>9. QuietIsSilent'
    <2> SUFFICES ASSUME NEW u \in Timer
                 PROVE  /\ u \in quiet /\ Owner(u)' => Silent(u)'
                        /\ at'[u] = "cancelled" => Silent(u)' \/ Pends("stop", u)'
                        /\ at'[u] = "period" \/ (at'[u] \in {"stop", "alloc"} /\ arming[u])
                              => u \notin quiet
      BY <1>1 DEF QuietIsSilent
    <2>1. CASE u = t
      BY <1>1, <1>2, <1>5, <2>1 DEF QuietIsSilent, Silent
    <2>2. CASE u # t
      <3>1. Owner(u) => timer_hdl[u] # timer_hdl[t]
        BY <1>1, <2>2 DEF OwnersApart
      <3>2. Owner(u) => (Silent(u)' <=> Silent(u))
        BY <1>1, <1>5, <3>1 DEF Silent
      <3>3. at[u] = "cancelled" => Owner(u) /\ Silent(u)
        BY <1>5 DEF QuietIsSilent, OwnersAlive, Owner
      <3> QED BY <1>1, <1>3, <1>5, <2>2, <3>2, <3>3 DEF QuietIsSilent
    <2> QED BY <2>1, <2>2
  <1> QED BY <1>3, <1>6, <1>7, <1>8, <1>9

LEMMA TimerCreateKeeps ==
    ASSUME T!TimerAssumption, TimerInv, NEW t \in Timer, T!Create(t)
    PROVE  TimerInv'
  <1> USE DEF TimerInv
  <1>1. PICK h \in Handle \ existing :
           /\ timer_hdl' = [timer_hdl EXCEPT ![t] = h] /\ existing' = existing \cup {h}
    BY DEF T!Create
  <1>2. /\ UNCHANGED <<timer_table, armed, commands>> /\ commands = <<>> /\ called' = {}
        /\ timer_hdl[t] = NoHandle /\ at' = [at EXCEPT ![t] = "alloc"] /\ at[t] = "out"
    BY DEF T!Create, T!Moves
  <1>3. PICK mod \in BOOLEAN :
           /\ arming' = [arming EXCEPT ![t] = mod]
           /\ quiet' = IF mod THEN quiet \ {t} ELSE quiet
    BY DEF T!Create
  <1>4. T!TypeOK'
    BY <1>1, <1>2, <1>3 DEF T!TypeOK
  <1>5. /\ timer_hdl'[t] = h /\ at'[t] = "alloc" /\ h # NoHandle
        /\ \A u \in Timer : u # t => timer_hdl'[u] = timer_hdl[u] /\ at'[u] = at[u]
                                     /\ (Owner(u)' <=> Owner(u))
    BY <1>1, <1>2 DEF T!TypeOK, Owner, T!TimerAssumption
  <1>6. \A u \in Timer, c \in {"start", "stop", "delete"} : ~Pends(c, u) /\ ~Pends(c, u)'
    BY <1>2 DEF Pends
  <1>7. t \notin timer_table
    BY <1>2 DEF ListedOwn, Owner
  <1>8. OneCommand' /\ OwnersAlive' /\ OwnersApart' /\ DyingIsNobodys' /\ ListedOwn'
        /\ T!QuietIsQuiet'
    BY <1>1, <1>2, <1>5, <1>6, <1>7 DEF OneCommand, OwnersAlive, OwnersApart,
          DyingIsNobodys, ListedOwn, T!QuietIsQuiet, T!TypeOK
  <1>9. QuietIsSilent'
    <2>1. Silent(t)' /\ \A u \in Timer : u # t => (Silent(u)' <=> Silent(u))
      BY <1>1, <1>2, <1>5, <1>6 DEF Silent, T!TypeOK
    <2> QED BY <1>2, <1>3, <1>5, <1>6, <2>1 DEF QuietIsSilent, T!TypeOK
  <1> QED BY <1>4, <1>8, <1>9

LEMMA DeletedKeeps ==
    ASSUME T!TimerAssumption, TimerInv, NEW t \in Timer, T!Deleted(t)
    PROVE  TimerInv'
  <1> USE DEF TimerInv
  <1>1. /\ UNCHANGED <<timer_table, existing, armed, commands, arming>>
        /\ commands = <<>> /\ called' = {}
        /\ timer_hdl' = [timer_hdl EXCEPT ![t] = NoHandle] /\ quiet' = quiet \cup {t}
        /\ at[t] = "deleted" /\ at' = [at EXCEPT ![t] = "out"]
    BY DEF T!Deleted, T!Moves, T!NewHandle, T!kernel
  <1>2. T!TypeOK'
    BY <1>1 DEF T!TypeOK
  <1>3. /\ timer_hdl'[t] = NoHandle /\ at'[t] = "out" /\ ~Owner(t)' /\ ~Owner(t)
        /\ \A u \in Timer : u # t => timer_hdl'[u] = timer_hdl[u] /\ at'[u] = at[u]
                                     /\ (Owner(u)' <=> Owner(u))
    BY <1>1 DEF T!TypeOK, Owner
  <1>4. \A u \in Timer, c \in {"start", "stop", "delete"} : ~Pends(c, u) /\ ~Pends(c, u)'
    BY <1>1 DEF Pends
  <1>5. OneCommand' /\ OwnersAlive' /\ OwnersApart' /\ DyingIsNobodys' /\ ListedOwn'
        /\ T!QuietIsQuiet'
    BY <1>1, <1>3, <1>4 DEF OneCommand, OwnersAlive, OwnersApart, DyingIsNobodys, ListedOwn,
          T!QuietIsQuiet, T!TypeOK
  <1>6. QuietIsSilent'
    BY <1>1, <1>3, <1>4 DEF QuietIsSilent, Silent
  <1> QED BY <1>2, <1>5, <1>6

LEMMA ExecuteKeeps == ASSUME T!TimerAssumption, TimerInv, T!Execute PROVE TimerInv'
  <1> USE DEF TimerInv
  <1> DEFINE h == Head(commands).handle
             c == Head(commands).command
  <1>1. /\ commands # <<>> /\ commands' = <<>> /\ h \in existing
        /\ armed' = (IF c = "start" THEN armed \cup {h} ELSE armed \ {h})
        /\ existing' = (IF c = "delete" THEN existing \ {h} ELSE existing)
        /\ called' = {} /\ UNCHANGED <<timer_hdl, timer_table, at, arming, quiet>>
    BY DEF T!Execute, T!timers, T!tasks, OneCommand
  <1>2. T!TypeOK'
    BY <1>1 DEF T!TypeOK
  <1>3. \A t \in Timer : /\ Owner(t)' <=> Owner(t)
                         /\ \A x \in {"start", "stop", "delete"} : ~Pends(x, t)'
                         /\ Pends(c, t) <=> timer_hdl[t] = h
    BY <1>1 DEF Owner, Pends
  <1>4. OneCommand' /\ DyingIsNobodys' /\ ListedOwn' /\ T!QuietIsQuiet' /\ OwnersApart'
    BY <1>1, <1>3 DEF OneCommand, DyingIsNobodys, ListedOwn, T!QuietIsQuiet, OwnersApart,
       T!TypeOK
  <1>5. OwnersAlive'
    BY <1>1, <1>3 DEF OwnersAlive, DyingIsNobodys, Owner
  <1>6. QuietIsSilent'
    <2>1. \A t \in Timer : Silent(t) => Silent(t)'
      BY <1>1, <1>3 DEF Silent
    <2>2. \A t \in Timer : Pends("stop", t) => Silent(t)'
      BY <1>1, <1>3 DEF Silent, Pends
    <2> QED BY <1>1, <1>3, <2>1, <2>2 DEF QuietIsSilent
  <1> QED BY <1>2, <1>4, <1>5, <1>6

LEMMA ExpireKeeps ==
    ASSUME T!TimerAssumption, TimerInv, NEW h \in Handle, T!Expire(h)
    PROVE  TimerInv'
  <1> USE DEF TimerInv
  <1>1. /\ commands = <<>> /\ h \in armed /\ armed' = armed \ {h}
        /\ UNCHANGED <<timer_hdl, timer_table, existing, at, arming>>
    BY DEF T!Expire, T!timers
  <1>2. /\ \A u \in Timer : Owner(u)' <=> Owner(u)
        /\ \A u \in Timer, x \in {"start", "stop", "delete"} : ~Pends(x, u)
    BY <1>1 DEF Owner, Pends
  <1>3. CASE called' = {} /\ UNCHANGED <<commands, quiet>>
    <2>1. T!TypeOK' /\ OneCommand' /\ OwnersAlive' /\ OwnersApart' /\ DyingIsNobodys'
          /\ ListedOwn' /\ T!QuietIsQuiet'
      BY <1>1, <1>2, <1>3 DEF T!TypeOK, OneCommand, OwnersAlive, OwnersApart,
         DyingIsNobodys, ListedOwn, T!QuietIsQuiet, Pends
    <2>2. QuietIsSilent'
      BY <1>1, <1>2, <1>3 DEF QuietIsSilent, Silent, Pends
    <2> QED BY <2>1, <2>2
  <1>4. CASE \E t \in T!Found(h) : /\ called' = {t}
                                 /\ \/ UNCHANGED <<commands, quiet>>
                                    \/ T!Send("start", t) /\ quiet' = quiet \ {t}
    <2>1. PICK t \in T!Found(h) : /\ called' = {t}
                                /\ \/ UNCHANGED <<commands, quiet>>
                                   \/ T!Send("start", t) /\ quiet' = quiet \ {t}
      BY <1>4
    <2>2. t \in timer_table /\ timer_hdl[t] = h /\ t \in Timer /\ Owner(t)
      BY DEF T!Found, T!Entries, T!TypeOK, ListedOwn
    <2>3. t \notin quiet /\ at[t] # "cancelled" /\ quiet' = quiet
      BY <1>1, <1>2, <2>1, <2>2 DEF QuietIsSilent, Silent
    <2>4. \A u \in Timer : u # t => ~(Owner(u) /\ timer_hdl[u] = h)
      BY <2>2 DEF OwnersApart
    <2>5. commands' = <<>> \/ (/\ commands' # <<>> /\ Tail(commands') = <<>>
                               /\ DOMAIN commands' = {1} /\ Head(commands') = commands'[1]
                               /\ Head(commands').command = "start"
                               /\ Head(commands').handle = h)
      BY <1>1, <2>1, <2>2, Sends
    <2>6. /\ \A u \in Timer : ~Pends("stop", u)' /\ ~Pends("delete", u)'
          /\ \A u \in Timer : Pends("start", u)' => timer_hdl[u] = h
      BY <1>1, <2>5 DEF Pends
    <2>7. T!TypeOK' /\ OneCommand' /\ OwnersAlive' /\ OwnersApart' /\ DyingIsNobodys'
          /\ ListedOwn' /\ T!QuietIsQuiet'
      BY <1>1, <1>2, <2>1, <2>2, <2>3, <2>5, <2>6 DEF T!TypeOK, OneCommand, OwnersAlive,
            OwnersApart, DyingIsNobodys, ListedOwn, T!QuietIsQuiet
    <2>8. QuietIsSilent'
      <3>1. \A u \in Timer : u # t /\ Owner(u) /\ Silent(u) => Silent(u)'
        BY <1>1, <2>4, <2>6 DEF Silent
      <3>2. \A u \in Timer : at[u] = "cancelled" => Owner(u) /\ Silent(u) /\ u # t
        BY <1>2, <2>3 DEF QuietIsSilent, OwnersAlive, Owner
      <3> QED BY <1>1, <1>2, <2>3, <3>1, <3>2 DEF QuietIsSilent
    <2> QED BY <2>7, <2>8
  <1> QED BY <1>3, <1>4 DEF T!Expire

LEMMA TimerNext == ASSUME T!TimerAssumption, TimerInv, T!Next PROVE TimerInv'
  <1>1. CASE T!Execute
    BY <1>1, ExecuteKeeps
  <1>2. CASE \E h \in Handle : T!Expire(h)
    BY <1>2, ExpireKeeps
  <1> QED BY <1>1, <1>2, MoveKeeps, SendKeeps, TimerCreateKeeps, DeletedKeeps DEF T!Next

LEMMA TimerSafe ==
    ASSUME T!TimerAssumption, TimerInv
    PROVE  T!TypeOK /\ T!NoDeadHandle /\ T!QuietIsQuiet /\ T!OneEntry
  <1> USE DEF TimerInv
  <1>1. T!NoDeadHandle
    BY DEF T!NoDeadHandle, OneCommand, OwnersAlive, Owner
  <1>2. T!OneEntry
    BY DEF T!OneEntry, ListedOwn, OwnersApart, T!TypeOK
  <1> QED BY <1>1, <1>2

LEMMA TimerStill == ASSUME TimerInv, UNCHANGED T!timerVars PROVE TimerInv'
  <1>1. UNCHANGED <<timer_hdl, timer_table, existing, armed, commands, at, arming, quiet, called>>
    BY DEF T!timerVars, T!timers, T!kernel, T!tasks
  <1>2. T!TypeOK' /\ OneCommand'
    BY <1>1 DEF TimerInv, T!TypeOK, OneCommand
  <1>3. OwnersAlive' /\ OwnersApart' /\ ListedOwn'
    BY <1>1 DEF TimerInv, OwnersAlive, OwnersApart, ListedOwn, Owner
  <1>4. DyingIsNobodys' /\ QuietIsSilent'
    BY <1>1 DEF TimerInv, DyingIsNobodys, QuietIsSilent, Pends, Owner, Silent
  <1>5. T!QuietIsQuiet'
    BY <1>1 DEF TimerInv, T!QuietIsQuiet
  <1> QED BY <1>2, <1>3, <1>4, <1>5 DEF TimerInv

-----------------------------------------------------------------------------
(* The flash backend: its lock *)

\* Where the first call stands, as long as no other one overlapped it
FirstCall ==
    /\ ~pointed => /\ handle = None
                   /\ \A t \in Task : place[t] \in {"out", "test", "point"}
                   /\ \A t, u \in Task : place[t] = "point" /\ place[u] = "point" => t = u
    /\ pointed /\ handle = None =>
          /\ \A t \in Task : place[t] \in {"out", "test", "create"}
          /\ \A t, u \in Task : place[t] = "create" /\ place[u] = "create" => t = u
    /\ handle # None => pointed /\ \A t \in Task : place[t] \notin {"point", "create"}

InHolds == \A t \in Task : place[t] = "in" => handle # None /\ holder[handle] = t

LockInv == C!TypeOK /\ (~raced => FirstCall /\ InHolds)

LEMMA CallTypes ==
    ASSUME C!CommonAssumption, C!TypeOK, [C!Next]_C!vars PROVE C!TypeOK'
  <1>1. CASE UNCHANGED C!vars
    BY <1>1 DEF C!TypeOK, C!vars, C!flash, C!lock, C!calls
  <1>2. CASE \E t \in Task : C!Call(t)
    BY <1>2 DEF C!Call, C!TypeOK, C!flash, C!lock, C!Goto
  <1>3. CASE \E t \in Task : C!Test(t) \/ C!Point(t) \/ C!Create(t) \/ C!TakeNothing(t)
    BY <1>3 DEF C!Test, C!Point, C!Create, C!TakeNothing, C!TypeOK, C!flash, C!lock,
       C!calls, C!Goto
  <1>4. CASE \E t \in Task : C!Take(t)
    BY <1>4 DEF C!Take, C!TypeOK, C!flash, C!Goto
  <1>5. CASE \E t \in Task : C!Untracked(t) \/ C!ReadPiece(t)
    BY <1>5 DEF C!Untracked, C!ReadPiece, C!TypeOK, C!flash, C!lock, C!calls
  <1>6. CASE \E t \in Task : C!WriteBegins(t) \/ C!WriteEnds(t) \/ C!EraseUnit(t)
    <2>1. PICK t \in Task : C!WriteBegins(t) \/ C!WriteEnds(t) \/ C!EraseUnit(t)
      BY <1>6
    <2>2. DOMAIN cell' = C!Address
      BY <2>1 DEF C!WriteBegins, C!WriteEnds, C!EraseUnit
    <2>3. UNCHANGED <<boot, C!lock, place, req>>
      BY <2>1 DEF C!WriteBegins, C!WriteEnds, C!EraseUnit, C!calls
    <2> QED BY <2>2, <2>3 DEF C!TypeOK, C!lock, C!Address
  <1>7. CASE \E t \in Task : C!Leave(t)
    <2>1. PICK t \in Task : C!Leave(t)
      BY <1>7
    <2>2. UNCHANGED <<boot, cell, pointed, handle, raced, req>>
      BY <2>1 DEF C!Leave, C!flash, C!calls
    <2>3. up' \in BOOLEAN
      BY <2>1 DEF C!Leave, C!Release
    <2>4. holder' \in [Task -> Task \cup {None}]
      BY <2>1 DEF C!Leave, C!Release, C!TypeOK
    <2>5. \E p \in {"out", "test"} : place' = [place EXCEPT ![t] = p]
      BY <2>1 DEF C!Leave, C!Goto
    <2> QED BY <2>2, <2>3, <2>4, <2>5 DEF C!TypeOK, C!Address
  <1>8. CASE C!Stopped
    BY <1>8 DEF C!Stopped, C!TypeOK, C!vars, C!flash, C!lock, C!calls
  <1> QED BY <1>1, <1>2, <1>3, <1>4, <1>5, <1>6, <1>7, <1>8 DEF C!Next

LEMMA LockKeeps ==
    ASSUME C!CommonAssumption, LockInv, [C!Next]_C!vars PROVE LockInv'
  <1> USE DEF LockInv
  <1>1. C!TypeOK'
    BY CallTypes
  <1> SUFFICES ASSUME ~raced' PROVE FirstCall' /\ InHolds'
    BY <1>1
  <1>2. CASE UNCHANGED C!vars \/ C!Stopped
    BY <1>2 DEF C!Stopped, C!vars, C!lock, FirstCall, InHolds
  <1>3. CASE \E t \in Task : C!Call(t)
    BY <1>3 DEF C!Call, C!lock, FirstCall, InHolds, C!Goto, C!TypeOK
  <1>4. CASE \E t \in Task : C!Test(t)
    BY <1>4 DEF C!Test, FirstCall, InHolds, C!Goto, C!TypeOK
  <1>5. CASE \E t \in Task : C!Point(t)
    BY <1>5 DEF C!Point, FirstCall, InHolds, C!Goto, C!TypeOK
  <1>6. CASE \E t \in Task : C!Create(t)
    BY <1>6 DEF C!Create, FirstCall, InHolds, C!Goto, C!TypeOK, C!CommonAssumption
  <1>7. CASE \E t \in Task : C!TakeNothing(t)
    BY <1>7 DEF C!TakeNothing, FirstCall, InHolds, C!Goto, C!TypeOK
  <1>8. CASE \E t \in Task : C!Take(t)
    BY <1>8 DEF C!Take, C!HolderFree, FirstCall, InHolds, C!Goto, C!TypeOK,
       C!CommonAssumption
  <1>9. CASE \E t \in Task : C!Untracked(t) \/ C!ReadPiece(t) \/ C!WriteBegins(t) \/ C!WriteEnds(t)
                             \/ C!EraseUnit(t)
    <2>1. UNCHANGED <<pointed, handle, holder, raced, place>>
      BY <1>9 DEF C!Untracked, C!ReadPiece, C!WriteBegins, C!WriteEnds, C!EraseUnit, C!lock
    <2> QED BY <2>1 DEF FirstCall, InHolds
  <1>10. CASE \E t \in Task : C!Leave(t)
    <2>1. PICK t \in Task : C!Leave(t)
      BY <1>10
    <2>2. /\ UNCHANGED <<pointed, handle, raced>> /\ place[t] = "in" /\ handle # None
          /\ holder' = [holder EXCEPT ![handle] = None] /\ holder[handle] = t
          /\ \E p \in {"out", "test"} : place' = [place EXCEPT ![t] = p]
      BY <2>1 DEF C!Leave, C!Release, C!Goto, InHolds
    <2> QED BY <2>2 DEF FirstCall, InHolds, C!TypeOK
  <1> QED BY <1>2, <1>3, <1>4, <1>5, <1>6, <1>7, <1>8, <1>9, <1>10 DEF C!Next

LEMMA LockSafe == ASSUME LockInv PROVE C!TypeOK /\ C!OneHolder
  BY DEF LockInv, InHolds, C!OneHolder
-----------------------------------------------------------------------------
(* The flash backend: what is read and written *)

\* Division with remainder, in the form the pieces need
LEMMA DivRest ==
    ASSUME NEW d \in Nat, d > 0, NEW q \in Nat, NEW r \in 0 .. d - 1
    PROVE  (q * d + r) \div d = q /\ (q * d + r) % d = r
  BY SMT

LEMMA DivBack ==
    ASSUME NEW d \in Nat, d > 0, NEW n \in Nat
    PROVE  /\ n \div d \in Nat /\ n % d \in 0 .. d - 1
           /\ n = (n \div d) * d + (n % d)
  BY SMT

LEMMA Scale ==
    ASSUME NEW x \in Nat, NEW y \in Nat, NEW d \in Nat
    PROVE  /\ (x + y) * d = x * d + y * d /\ x * d \in Nat
           /\ x <= y => x * d <= y * d
  <1>1. (x + y) * d = x * d + y * d /\ x * d \in Nat
    OBVIOUS
  <1>2. ASSUME x <= y PROVE x * d <= y * d
    <2>1. PICK z \in Nat : y = x + z
      <3>1. y - x \in Nat /\ y = x + (y - x)
        BY <1>2
      <3> QED BY <3>1
    <2>2. (x + z) * d = x * d + z * d /\ z * d \in Nat /\ x * d \in Nat
      OBVIOUS
    <2> QED BY <2>1, <2>2
  <1> QED BY <1>1, <1>2

\* A page lies in one unit of erasure.
LEMMA PageInUnit ==
    ASSUME C!CommonAssumption, boot \in {"nand", "nor"},
           NEW m \in Nat, NEW x \in Nat, NEW y \in Nat,
           m * C!PageSize <= x, x < m * C!PageSize + C!PageSize,
           m * C!PageSize <= y, y < m * C!PageSize + C!PageSize
    PROVE  x \div C!EraseSize = y \div C!EraseSize
  <1> DEFINE P == C!PageSize
  <1>1. P \in Nat /\ P > 0 /\ BlockPages \in Nat /\ BlockPages > 0
    BY DEF C!CommonAssumption, C!PageSize
  <1> HIDE DEF P
  <1>2. \A z \in {x, y} : z - m * P \in 0 .. P - 1 /\ z = m * P + (z - m * P)
    <2>1. m * P \in Nat
      BY <1>1
    <2> QED BY <1>1, <2>1 DEF P
  <1>3. CASE boot = "nor"
    <2>1. C!EraseSize = P
      BY <1>3 DEF C!EraseSize, C!PageSize, P
    <2>2. ASSUME NEW z \in {x, y} PROVE z \div P = m
      <3> DEFINE r == z - m * P
      <3>1. r \in 0 .. P - 1 /\ z = m * P + r
        BY <1>2
      <3> HIDE DEF r
      <3> QED BY <1>1, <3>1, DivRest
    <2> QED BY <2>1, <2>2
  <1>4. CASE boot = "nand"
    <2> DEFINE B == BlockPages
               e == m \div B
               f == m % B
               BlockSize == B * P
    <2>1. C!EraseSize = BlockSize
      BY <1>1, <1>4 DEF C!EraseSize, C!PageSize, P
    <2>2. e \in Nat /\ f \in 0 .. B - 1 /\ m = e * B + f
      BY <1>1, DivBack
    <2>3. BlockSize \in Nat /\ BlockSize > 0
      BY <1>1
    <2> HIDE DEF e, f
    <2>4. m * P = e * BlockSize + f * P
      <3>1. e * B \in Nat /\ f \in Nat
        BY <1>1, <2>2
      <3>2. m * P = (e * B) * P + f * P
        BY <1>1, <2>2, <3>1, Scale
      <3>3. (e * B) * P = e * BlockSize
        BY <1>1, <2>2
      <3> QED BY <3>2, <3>3
    <2>5. f * P \in Nat /\ f * P + P <= BlockSize
      <3>1. f \in Nat /\ f + 1 \in Nat /\ f + 1 <= B
        BY <1>1, <2>2
      <3>2. (f + 1) * P <= B * P /\ (f + 1) * P = f * P + 1 * P /\ f * P \in Nat
        BY <1>1, <3>1, Scale
      <3> QED BY <1>1, <3>2
    <2>6. ASSUME NEW z \in {x, y} PROVE z \div BlockSize = e
      <3> DEFINE r == f * P + (z - m * P)
      <3>1. e * BlockSize \in Nat
        BY <2>2, <2>3
      <3>2. r \in 0 .. BlockSize - 1
        BY <1>1, <1>2, <2>3, <2>5
      <3>3. z = e * BlockSize + r
        BY <1>2, <2>4, <2>5, <3>1
      <3> HIDE DEF r, BlockSize
      <3> QED BY <2>2, <2>3, <3>2, <3>3, DivRest
    <2> QED BY <2>1, <2>6
  <1> QED BY <1>3, <1>4

\* A piece of a request lies in the request and in a unit of erasure; it is
\* taken from where it belongs in the buffer, unless a read is skewed.
PieceFits(r, p) ==
    /\ p.address \in Nat /\ p.size \in Nat \ {0} /\ p.at \in Nat
    /\ r.address <= p.address /\ p.address + p.size <= r.address + r.size
    /\ \A a \in p.address .. p.address + p.size - 1 : a \in C!Unit(p.address)
    /\ p.at = p.address - r.address \/ (r.op = "read" /\ C!Skewed(r))

\* Where a list of pieces begins
Begins(r, s) == IF s = <<>> THEN r.address + r.size ELSE s[1].address

\* The pieces follow each other up to the end of the request.
Fits(r, s) ==
    /\ s \in Seq([address : Nat, size : Nat, at : Nat])
    /\ \A k \in 1 .. Len(s) : PieceFits(r, s[k])
    /\ \A k \in 1 .. Len(s) :
          s[k].address + s[k].size = IF k = Len(s) THEN r.address + r.size
                                     ELSE s[k + 1].address

\* A piece in a page, and its place in the request
LEMMA PieceInPage ==
    ASSUME C!CommonAssumption, boot \in {"nand", "nor"}, NEW r \in Requests,
           NEW done \in Nat, NEW size \in Nat \ {0}, NEW at_ \in Nat, NEW m \in Nat,
           done + size <= r.size,
           at_ = done \/ (r.op = "read" /\ C!Skewed(r)),
           m * C!PageSize <= r.address + done,
           r.address + done + size <= m * C!PageSize + C!PageSize
    PROVE  /\ PieceFits(r, C!Piece(r, done, size, at_))
           /\ C!Piece(r, done, size, at_) \in [address : Nat, size : Nat, at : Nat]
           /\ C!Piece(r, done, size, at_).address = r.address + done
           /\ C!Piece(r, done, size, at_).size = size
  <1> DEFINE p == C!Piece(r, done, size, at_)
  <1>1. r.address \in Nat /\ r.size \in Nat /\ r.address + r.size <= Size /\ Size \in Nat
    BY DEF C!CommonAssumption
  <1>2. p.address = r.address + done /\ p.size = size /\ p.at = at_
        /\ p \in [address : Nat, size : Nat, at : Nat]
    BY <1>1 DEF C!Piece
  <1>3. ASSUME NEW a \in p.address .. p.address + p.size - 1 PROVE a \in C!Unit(p.address)
    <2>1. a \in Nat /\ a \in C!Address /\ C!PageSize \in Nat /\ m * C!PageSize \in Nat
      BY <1>1, <1>2, <1>3 DEF C!Address, C!CommonAssumption, C!PageSize
    <2>2. /\ m * C!PageSize <= a /\ a < m * C!PageSize + C!PageSize
          /\ m * C!PageSize <= p.address /\ p.address < m * C!PageSize + C!PageSize
      BY <1>1, <1>2, <1>3, <2>1
    <2>3. a \div C!EraseSize = p.address \div C!EraseSize
      BY <1>1, <1>2, <2>1, <2>2, PageInUnit
    <2> QED BY <2>1, <2>3 DEF C!Unit
  <1> HIDE DEF p
  <1>4. PieceFits(r, p)
    BY <1>1, <1>2, <1>3 DEF PieceFits
  <1> QED BY <1>2, <1>4 DEF p

LEMMA PiecesFit ==
    ASSUME C!CommonAssumption, boot \in {"nand", "nor"}, NEW r \in Requests
    PROVE  Fits(r, C!Pieces(r)) /\ Begins(r, C!Pieces(r)) = r.address
  <1> DEFINE P == C!PageSize
             h == C!Head1(r)
             n == C!WholePages(r)
             q == C!Rest(r)
             m == (r.address + h) \div P
             a == IF h > 0 THEN 1 ELSE 0
             c == IF q > 0 THEN 1 ELSE 0
             at_(i) == h + C!ReadSkew(r, i - 1) * P
             AnyPiece == [address : Nat, size : Nat, at : Nat]
             first == C!Piece(r, 0, h, 0)
             whole(i) == C!Piece(r, h + (i - 1) * P, P, at_(i))
             last == C!Piece(r, h + n * P, q, h + n * P)
             A == IF h > 0 THEN <<first>> ELSE <<>>
             W == [i \in 1 .. n |-> whole(i)]
             L == IF q > 0 THEN <<last>> ELSE <<>>
  <1>1. P \in Nat /\ P > 0 /\ r.address \in Nat /\ r.size \in Nat
    BY DEF C!CommonAssumption, C!PageSize
  <1>2. /\ h \in Nat /\ h <= r.size
        /\ h > 0 => \E k \in Nat : k * P <= r.address /\ r.address + h <= k * P + P
        /\ h < r.size \/ h = 0 => (r.address + h) % P = 0 \/ r.size = 0
    <2> DEFINE k == r.address \div P
               f == r.address % P
    <2>1. k \in Nat /\ f \in 0 .. P - 1 /\ r.address = k * P + f /\ k * P \in Nat
      BY <1>1, DivBack
    <2>2. h = IF f = 0 THEN 0 ELSE IF r.size < P - f THEN r.size ELSE P - f
      BY DEF C!Head1
    <2> HIDE DEF k, f, P
    <2>3. h \in Nat /\ h <= r.size /\ (h > 0 => r.address + h <= k * P + P)
      BY <1>1, <2>1, <2>2
    <2>4. CASE f = 0
      <3>1. h = 0 /\ (k * P + 0) % P = 0
        BY <1>1, <2>1, <2>2, <2>4, DivRest
      <3> QED BY <1>1, <2>1, <2>3, <2>4, <3>1
    <2>5. CASE f # 0 /\ r.size < P - f
      <3>1. h = r.size
        BY <2>2, <2>5
      <3>2. k * P <= r.address
        BY <1>1, <2>1
      <3>3. h < r.size \/ h = 0 => r.size = 0
        BY <1>1, <3>1
      <3> HIDE DEF h
      <3> QED BY <2>1, <2>3, <3>2, <3>3
    <2>6. CASE f # 0 /\ ~(r.size < P - f)
      <3>1. h = P - f /\ r.address + h = (k + 1) * P + 0
        <4>1. (k + 1) * P = k * P + 1 * P
          BY <1>1, <2>1, Scale
        <4> QED BY <1>1, <2>1, <2>2, <2>6, <4>1
      <3>2. ((k + 1) * P + 0) % P = 0
        <4>1. k + 1 \in Nat
          BY <2>1
        <4> QED BY <1>1, <4>1, DivRest
      <3> QED BY <2>1, <2>3, <3>1, <3>2
    <2> QED BY <2>4, <2>5, <2>6
  <1>3. n \in Nat /\ q \in 0 .. P - 1 /\ r.size = h + n * P + q /\ n * P \in Nat
    <2>1. r.size - h \in Nat
      BY <1>1, <1>2
    <2>2. n \in Nat /\ q \in 0 .. P - 1 /\ r.size - h = n * P + q
      BY <1>1, <2>1, DivBack DEF C!WholePages, C!Rest
    <2>3. n * P \in Nat
      BY <1>1, <2>2, Scale
    <2> DEFINE e == n * P
    <2>4. e \in Nat /\ r.size - h = e + q
      BY <2>2, <2>3
    <2>5. r.size = h + e + q
      <3> HIDE DEF n, q, h, P, e
      <3> QED BY <1>1, <1>2, <2>2, <2>4
    <2> QED BY <2>2, <2>4, <2>5
  <1>4. m \in Nat /\ (n > 0 \/ q > 0 => r.address + h = m * P)
    <2>1. r.address + h \in Nat
      BY <1>1, <1>2
    <2>2. m \in Nat /\ r.address + h = m * P + ((r.address + h) % P)
      BY <1>1, <2>1, DivBack
    <2>3. n > 0 \/ q > 0 => h < r.size
      <3> HIDE DEF n, q, h, P
      <3>1. n > 0 => n * P >= 1 * P
        BY <1>1, <1>3, Scale
      <3> QED BY <1>1, <1>2, <1>3, <3>1
    <2> QED BY <1>1, <1>2, <2>2, <2>3
  <1>5. h > 0 => /\ PieceFits(r, first) /\ first \in AnyPiece
                 /\ first.address = r.address /\ first.size = h
    <2> SUFFICES ASSUME h > 0
                 PROVE  /\ PieceFits(r, first) /\ first \in AnyPiece
                        /\ first.address = r.address /\ first.size = h
      OBVIOUS
    <2>1. PICK k \in Nat : k * P <= r.address /\ r.address + h <= k * P + P
      BY <1>2
    <2>2. r.address + 0 = r.address
      BY <1>1
    <2> QED BY <1>1, <1>2, <2>1, <2>2, PieceInPage
  <1>6. ASSUME NEW i \in 1 .. n
        PROVE  /\ PieceFits(r, whole(i)) /\ whole(i) \in AnyPiece
               /\ whole(i).address = r.address + h + (i - 1) * P /\ whole(i).size = P
    <2> DEFINE j == i - 1
    <2>1. j \in Nat /\ j + 1 <= n
      BY <1>3
    <2>2. j * P \in Nat /\ (j + 1) * P = j * P + P /\ (j + 1) * P <= n * P
      <3>1. (j + 1) * P = j * P + 1 * P /\ j * P \in Nat
        BY <1>1, <2>1, Scale
      <3>2. j + 1 \in Nat /\ (j + 1) * P <= n * P
        BY <1>1, <1>3, <2>1, Scale
      <3> HIDE DEF j, P
      <3> QED BY <1>1, <3>1, <3>2
    <2>3. r.address + h = m * P /\ m * P \in Nat /\ (m + j) * P = m * P + j * P /\ m + j \in Nat
      BY <1>1, <1>3, <1>4, <2>1, Scale
    <2>4. at_(i) \in Nat /\ (at_(i) = h + j * P \/ (r.op = "read" /\ C!Skewed(r)))
      <3>1. CASE ~(r.op = "read" /\ h = 0)
        <4>1. C!ReadSkew(r, j) = j
          BY <3>1 DEF C!ReadSkew
        <4> QED BY <1>2, <2>2, <4>1
      <3>2. CASE r.op = "read" /\ h = 0
        <4>1. C!ReadSkew(r, j) = j * j /\ j * j \in Nat
          BY <2>1, <3>2 DEF C!ReadSkew
        <4>2. (j * j) * P \in Nat
          BY <1>1, <4>1, Scale
        <4>3. C!Skewed(r) \/ j = 0 \/ j = 1
          BY <1>3, <2>1, <3>2 DEF C!Skewed
        <4>4. C!Skewed(r) \/ j * j = j
          BY <4>3
        <4> QED BY <1>2, <3>2, <4>1, <4>2, <4>4
      <3> QED BY <3>1, <3>2
    <2> DEFINE d == h + j * P
               g == m + j
    <2>5. d \in Nat /\ d + P <= r.size /\ r.address + d = g * P
      <3> DEFINE w == j * P
                 e == n * P
      <3>1. w \in Nat /\ w + P <= e /\ r.address + h + w = g * P /\ d = h + w
        BY <2>2, <2>3
      <3>2. r.size = h + e + q /\ e \in Nat
        BY <1>3
      <3> HIDE DEF h, P, n, q, m, j, w, e, d, g
      <3> QED BY <1>1, <1>2, <1>3, <3>1, <3>2
    <2>6. whole(i) = C!Piece(r, d, P, at_(i))
      OBVIOUS
    <2>7. at_(i) = d \/ (r.op = "read" /\ C!Skewed(r))
      BY <2>4
    <2>8. g \in Nat /\ g * P <= r.address + d
          /\ r.address + d + P <= g * P + P /\ P \in Nat \ {0}
      <3>1. g \in Nat
        BY <2>3
      <3> HIDE DEF h, P, n, q, m, d, g
      <3> QED BY <1>1, <2>5, <3>1
    <2> HIDE DEF d, at_, j, m, g, whole
    <2> DEFINE o == at_(i)
               p == C!Piece(r, d, P, o)
    <2>11. o \in Nat /\ (o = d \/ (r.op = "read" /\ C!Skewed(r))) /\ d \in Nat
           /\ d + P <= r.size
      BY <2>4, <2>5, <2>7
    <2> HIDE DEF o
    <2>9. PieceFits(r, p) /\ p \in AnyPiece /\ p.address = r.address + d /\ p.size = P
      <3> DEFINE z == P
      <3>1. /\ z \in Nat \ {0} /\ d + z <= r.size
            /\ g * C!PageSize <= r.address + d /\ r.address + d + z <= g * C!PageSize + C!PageSize
        BY <2>8, <2>11
      <3> HIDE DEF z
      <3>2. /\ PieceFits(r, C!Piece(r, d, z, o)) /\ C!Piece(r, d, z, o) \in AnyPiece
            /\ C!Piece(r, d, z, o).address = r.address + d /\ C!Piece(r, d, z, o).size = z
        BY <2>8, <2>11, <3>1, PieceInPage
      <3> QED BY <3>2 DEF z
    <2>10. r.address + d = r.address + h + (i - 1) * P
      <3>1. d = h + (i - 1) * P /\ (i - 1) * P \in Nat
        BY <2>2 DEF d, j
      <3> HIDE DEF h, P
      <3> QED BY <1>1, <1>2, <3>1
    <2> QED BY <2>6, <2>9, <2>10 DEF o
  <1>7. q > 0 => /\ PieceFits(r, last) /\ last \in AnyPiece
                 /\ last.address = r.address + h + n * P /\ last.size = q
    <2> SUFFICES ASSUME q > 0
                 PROVE  /\ PieceFits(r, last) /\ last \in AnyPiece
                        /\ last.address = r.address + h + n * P /\ last.size = q
      OBVIOUS
    <2>1. r.address + h = m * P /\ m * P \in Nat /\ (m + n) * P = m * P + n * P /\ m + n \in Nat
      BY <1>1, <1>3, <1>4, Scale
    <2> DEFINE d == h + n * P
    <2>2. /\ d \in Nat /\ d + q <= r.size /\ q \in Nat \ {0}
          /\ (m + n) * P <= r.address + d /\ r.address + d + q <= (m + n) * P + P
          /\ r.address + d = r.address + h + n * P
      <3> HIDE DEF h, P, n, q, m
      <3> QED BY <1>1, <1>2, <1>3, <2>1
    <2> HIDE DEF d, q, m
    <2>3. /\ PieceFits(r, C!Piece(r, d, q, d)) /\ C!Piece(r, d, q, d) \in AnyPiece
          /\ C!Piece(r, d, q, d).address = r.address + d /\ C!Piece(r, d, q, d).size = q
      BY <2>1, <2>2, PieceInPage
    <2> QED BY <2>2, <2>3 DEF d
  <1> HIDE DEF P, h, n, q, m, first, whole, last, AnyPiece
  <1>8. A \in Seq(AnyPiece) /\ Len(A) = a /\ (h > 0 => A[1] = first)
    BY <1>5
  <1>9. W \in Seq(AnyPiece) /\ Len(W) = n /\ \A i \in 1 .. n : W[i] = whole(i)
    BY <1>3, <1>6
  <1>10. L \in Seq(AnyPiece) /\ Len(L) = c /\ (q > 0 => L[1] = last)
    BY <1>7
  <1> DEFINE s == C!Pieces(r)
  <1>11. s = (A \o W) \o L
    BY DEF C!Pieces, P, h, n, q, first, whole, last
  <1>18. a \in {0, 1} /\ (a = 1 <=> h > 0) /\ c \in {0, 1} /\ (c = 1 <=> q > 0)
    OBVIOUS
  <1> HIDE DEF A, W, L, s, a, c
  <1>12. /\ A \o W \in Seq(AnyPiece) /\ Len(A \o W) = a + n
         /\ \A i \in 1 .. a + n : (A \o W)[i] = IF i <= a THEN A[i] ELSE W[i - a]
    BY <1>8, <1>9, ConcatProperties
  <1> DEFINE X == A \o W
             e == a + n
  <1>19. e \in Nat /\ X \in Seq(AnyPiece) /\ Len(X) = e /\ s = X \o L
    BY <1>3, <1>11, <1>12, <1>18
  <1> HIDE DEF X, e
  <1>20. /\ s \in Seq(AnyPiece) /\ Len(s) = e + c
         /\ \A i \in 1 .. e + c : s[i] = IF i <= e THEN X[i] ELSE L[i - e]
    BY <1>10, <1>19, ConcatProperties
  <1>13. /\ s \in Seq(AnyPiece) /\ Len(s) = (a + n) + c
         /\ \A i \in 1 .. (a + n) + c :
               s[i] = IF i <= a + n THEN (A \o W)[i] ELSE L[i - (a + n)]
    BY <1>20 DEF X, e
  <1>14. /\ s \in Seq(AnyPiece) /\ Len(s) = a + n + c
         /\ h > 0 => s[1] = first
         /\ \A i \in 1 .. n : s[a + i] = whole(i)
         /\ q > 0 => s[a + n + 1] = last
    <2>1. h > 0 => s[1] = first
      BY <1>18, <1>3, <1>8, <1>12, <1>13
    <2>2. ASSUME NEW i \in 1 .. n PROVE s[a + i] = whole(i)
      <3>1. a + i \in 1 .. (a + n) + c /\ a + i <= a + n /\ ~(a + i <= a) /\ (a + i) - a = i
            /\ a + i \in 1 .. a + n
        BY <1>3, <1>18
      <3>2. s[a + i] = (A \o W)[a + i]
        BY <1>13, <3>1
      <3>3. (A \o W)[a + i] = W[(a + i) - a]
        BY <1>12, <3>1
      <3> QED BY <1>9, <3>1, <3>2, <3>3
    <2>3. ASSUME q > 0 PROVE s[a + n + 1] = last
      <3>1. /\ a + n + 1 \in 1 .. (a + n) + c /\ ~(a + n + 1 <= a + n)
            /\ (a + n + 1) - (a + n) = 1
        BY <1>3, <1>18, <2>3
      <3>2. s[a + n + 1] = L[(a + n + 1) - (a + n)]
        BY <1>13, <3>1
      <3> QED BY <1>10, <2>3, <3>1, <3>2
    <2> QED BY <1>13, <2>1, <2>2, <2>3
  <1>15. ASSUME NEW k \in 1 .. Len(s)
         PROVE  /\ PieceFits(r, s[k])
                /\ s[k].address + s[k].size = IF k = Len(s) THEN r.address + r.size
                                              ELSE s[k + 1].address
    <2>1. CASE h > 0 /\ k = 1
      <3>1. s[k] = first /\ a = 1
        BY <1>18, <1>14, <2>1
      <3>2. CASE n > 0
        <4>1. 1 \in 1 .. n /\ (1 - 1) * P = 0
          BY <1>1, <1>3, <3>2
        <4>2. s[2] = whole(1) /\ whole(1).address = r.address + h /\ k # Len(s)
          <5>1. a + 1 = 2 /\ k # Len(s)
            BY <1>3, <1>14, <1>18, <2>1, <3>1, <3>2
          <5>2. s[a + 1] = whole(1) /\ whole(1).address = r.address + h + (1 - 1) * P
            BY <1>6, <1>14, <4>1
          <5> QED BY <1>1, <1>2, <4>1, <5>1, <5>2
        <4> QED BY <1>5, <2>1, <3>1, <4>2
      <3>3. CASE n = 0 /\ q > 0
        <4>1. s[2] = last /\ last.address = r.address + h /\ k # Len(s)
          <5>1. 0 * P = 0
            BY <1>1
          <5>2. a + n + 1 = 2 /\ k # Len(s)
            BY <1>3, <1>14, <1>18, <2>1, <3>1, <3>3
          <5>3. s[2] = last
            BY <1>14, <3>3, <5>2
          <5>4. last.address = r.address + h
            BY <1>1, <1>2, <1>3, <1>7, <3>3, <5>1
          <5> QED BY <5>2, <5>3, <5>4
        <4> QED BY <1>5, <2>1, <3>1, <4>1
      <3>4. CASE n = 0 /\ q = 0
        <4>1. k = Len(s) /\ r.size = h
          <5>1. 0 * P = 0
            BY <1>1
          <5> QED BY <1>18, <1>1, <1>2, <1>3, <1>14, <2>1, <3>1, <3>4, <5>1
        <4> QED BY <1>5, <2>1, <3>1, <4>1
      <3> QED BY <1>3, <3>2, <3>3, <3>4
    <2>2. CASE k > a /\ k <= a + n
      <3> DEFINE i == k - a
      <3>1. i \in 1 .. n /\ k = a + i
        BY <1>18, <1>3, <2>2
      <3> HIDE DEF i
      <3>2. s[k] = whole(i) /\ i - 1 \in Nat /\ i \in Nat
        BY <1>18, <1>14, <3>1
      <3>3. i * P = (i - 1) * P + P /\ (i - 1) * P \in Nat
        <4>1. ((i - 1) + 1) * P = (i - 1) * P + 1 * P /\ (i - 1) * P \in Nat
          BY <1>1, <3>2, Scale
        <4>2. (i - 1) + 1 = i /\ 1 * P = P
          BY <1>1, <3>2
        <4> QED BY <4>1, <4>2
      <3>4. whole(i).address + whole(i).size = r.address + h + i * P
        BY <1>1, <1>2, <1>6, <3>1, <3>3
      <3>5. CASE i < n
        <4>1. i + 1 \in 1 .. n /\ (i + 1) - 1 = i /\ k + 1 = a + (i + 1)
          BY <1>3, <1>18, <3>1, <3>5
        <4>2. whole(i + 1).address = r.address + h + i * P
          BY <1>6, <4>1
        <4>3. s[k + 1] = whole(i + 1)
          BY <1>14, <4>1
        <4>4. k # Len(s)
          BY <1>3, <1>14, <1>18, <3>1, <3>5
        <4> QED BY <1>6, <3>1, <3>2, <3>4, <4>2, <4>3, <4>4
      <3>6. CASE i = n /\ q > 0
        <4>1. s[k + 1] = last /\ k # Len(s)
          BY <1>18, <1>3, <1>14, <3>1, <3>6
        <4> QED BY <1>6, <1>7, <3>1, <3>2, <3>4, <3>6, <4>1
      <3>7. CASE i = n /\ q = 0
        <4>1. k = Len(s) /\ r.size = h + i * P
          BY <1>18, <1>1, <1>2, <1>3, <1>14, <3>1, <3>7
        <4>2. r.address + r.size = r.address + h + i * P
          BY <1>1, <1>2, <3>3, <4>1
        <4> QED BY <1>6, <3>1, <3>2, <3>4, <4>1, <4>2
      <3> QED BY <1>3, <3>1, <3>5, <3>6, <3>7
    <2>3. CASE k > a + n
      <3>1. q > 0 /\ k = a + n + 1 /\ k = Len(s) /\ s[k] = last
        BY <1>18, <1>3, <1>14, <2>3
      <3>2. last.address + last.size = r.address + r.size
        BY <1>1, <1>2, <1>3, <1>7, <3>1
      <3> QED BY <1>7, <3>1, <3>2
    <2> QED BY <1>3, <1>14, <1>18, <2>1, <2>2, <2>3
  <1>16. Fits(r, s)
    BY <1>14, <1>15 DEF Fits, AnyPiece
  <1>17. Begins(r, s) = r.address
    <2>1. CASE s = <<>>
      <3>1. a + n + c = 0
        BY <1>18, <1>14, <2>1
      <3>2. h = 0 /\ n = 0 /\ q = 0
        BY <1>18, <1>2, <1>3, <3>1
      <3>3. r.size = 0
        BY <1>1, <1>3, <3>2
      <3> QED BY <1>1, <2>1, <3>3 DEF Begins
    <2>2. CASE s # <<>> /\ h > 0
      BY <1>5, <1>14, <2>2 DEF Begins
    <2>3. CASE s # <<>> /\ h = 0 /\ n > 0
      <3>1. 1 \in 1 .. n /\ (1 - 1) * P = 0 /\ a + 1 = 1
        BY <1>18, <1>1, <1>3, <2>3
      <3> QED BY <1>1, <1>6, <1>14, <2>3, <3>1 DEF Begins
    <2>4. CASE s # <<>> /\ h = 0 /\ n = 0
      <3>1. Len(s) # 0 /\ 0 * P = 0
        BY <1>1, <1>14, <2>4
      <3>2. q > 0 /\ a + n + 1 = 1
        BY <1>18, <1>3, <1>14, <2>4, <3>1
      <3> QED BY <1>1, <1>7, <1>14, <2>4, <3>1, <3>2 DEF Begins
    <2> QED BY <1>2, <1>3, <2>1, <2>2, <2>3, <2>4
  <1> QED BY <1>16, <1>17 DEF s

LEMMA FitsTail ==
    ASSUME NEW r, NEW s, Fits(r, s), s # <<>>
    PROVE  /\ PieceFits(r, s[1]) /\ Fits(r, Tail(s))
           /\ Begins(r, Tail(s)) = s[1].address + s[1].size
  <1> DEFINE AnyPiece == [address : Nat, size : Nat, at : Nat]
             u == Tail(s)
  <1>1. /\ s \in Seq(AnyPiece) /\ u \in Seq(AnyPiece) /\ Len(s) \in Nat /\ Len(s) >= 1
        /\ Len(u) = Len(s) - 1 /\ \A i \in 1 .. Len(u) : u[i] = s[i + 1]
    <2>1. s \in Seq(AnyPiece)
      BY DEF Fits
    <2>2. Len(s) \in Nat /\ Len(s) >= 1
      BY <2>1
    <2> HIDE DEF AnyPiece
    <2>3. /\ Tail(s) \in Seq(AnyPiece) /\ Len(Tail(s)) = Len(s) - 1
          /\ \A i \in 1 .. Len(Tail(s)) : Tail(s)[i] = s[i + 1]
      BY <2>1, HeadTailProperties
    <2> QED BY <2>1, <2>2, <2>3
  <1> HIDE DEF AnyPiece, u
  <1>2. PieceFits(r, s[1])
    BY <1>1 DEF Fits
  <1>3. ASSUME NEW k \in 1 .. Len(u)
        PROVE  /\ PieceFits(r, u[k])
               /\ u[k].address + u[k].size = IF k = Len(u) THEN r.address + r.size
                                             ELSE u[k + 1].address
    <2>1. k + 1 \in 1 .. Len(s) /\ u[k] = s[k + 1] /\ (k = Len(u) <=> k + 1 = Len(s))
      BY <1>1
    <2>2. k # Len(u) => u[k + 1] = s[(k + 1) + 1]
      BY <1>1
    <2> QED BY <2>1, <2>2 DEF Fits
  <1>4. Fits(r, u)
    BY <1>1, <1>3 DEF Fits, AnyPiece
  <1>5. Begins(r, u) = s[1].address + s[1].size
    <2>1. 1 \in 1 .. Len(s)
      BY <1>1
    <2>2. CASE u = <<>>
      <3>1. Len(s) = 1
        BY <1>1, <2>2
      <3> QED BY <2>1, <2>2, <3>1 DEF Fits, Begins
    <2>3. CASE u # <<>>
      <3>1. Len(u) # 0
        BY <1>1, <2>3
      <3>2. 1 # Len(s) /\ u[1] = s[1 + 1]
        BY <1>1, <3>1
      <3> QED BY <2>1, <2>3, <3>2 DEF Fits, Begins
    <2> QED BY <2>2, <2>3
  <1> QED BY <1>2, <1>4, <1>5 DEF u

\* What is left of the stages of a call: the last one does the work.
Stages ==
    {<<>>, <<"init">>, <<"body">>, <<"init", "body">>, <<"info", "body">>,
     <<"init", "info", "body">>}

LEMMA StagesEnd ==
    ASSUME NEW s \in Stages, s # <<>>
    PROVE  Tail(s) \in Stages /\ (Head(s) = "body" => Tail(s) = <<>>)
  <1>1. s = <<"init">> => Tail(s) = <<>> /\ Head(s) = "init"
    OBVIOUS
  <1>2. s = <<"body">> => Tail(s) = <<>> /\ Head(s) = "body"
    OBVIOUS
  <1>3. s = <<"init", "body">> => Tail(s) = <<"body">> /\ Head(s) = "init"
    OBVIOUS
  <1>4. s = <<"info", "body">> => Tail(s) = <<"body">> /\ Head(s) = "info"
    OBVIOUS
  <1>5. s = <<"init", "info", "body">> => Tail(s) = <<"info", "body">> /\ Head(s) = "init"
    OBVIOUS
  <1>6. {<<>>, <<"body">>, <<"info", "body">>} \subseteq Stages
    BY DEF Stages
  <1> QED BY <1>1, <1>2, <1>3, <1>4, <1>5, <1>6 DEF Stages

LEMMA PhasesStages ==
    ASSUME C!CommonAssumption, boot \in {"nand", "nor"}, NEW r \in Requests
    PROVE  C!Phases(r) \in Stages /\ C!Phases(r) # <<>>
  BY DEF C!Phases, Stages, C!CommonAssumption

\* The task that does the work of its call, under the lock
Body(t) == place[t] = "in" /\ Head(todo[t]) = "body"
Reading(t) == Body(t) /\ req[t].op = "read"
First(t) == Begins(req[t], left[t])

\* What byte a of the flash should be while t writes
Now(t, a) ==
    IF a \in C!Bytes(req[t]) /\ a < First(t) THEN C!Sent(t, a - req[t].address) ELSE before[t][a]

InStages == \A t \in Task : todo[t] \in Stages /\ (place[t] # "out" => todo[t] # <<>>)

\* Before the work nothing is done, and after it nothing is left.
WorkOnce ==
    \A t \in Task :
        /\ ~Body(t) => left[t] = <<>>
        /\ ~Body(t) /\ place[t] # "out" => hurt[t] = {} /\ got[t] = <<>>
        /\ Body(t) /\ ~C!IsErase(req[t]) => Fits(req[t], left[t])

\* The buffer of the backend is that of the one task that writes.
BufferOwned ==
    pbuf # <<>> =>
        \E t \in Task : C!Writing(t) /\ left[t] # <<>> /\ DOMAIN pbuf = C!Unit(left[t][1].address)

WrittenSoFar ==
    \A t \in Task : C!Writing(t) =>
        \A a \in C!Address \ hurt[t] :
            IF a \in DOMAIN pbuf THEN pbuf[a] = Now(t, a) ELSE cell[a] = Now(t, a)

ReadSoFar ==
    \A t \in Task : Reading(t) /\ ~C!Skewed(req[t]) =>
        /\ DOMAIN got[t] = {i \in 0 .. req[t].size - 1 : req[t].address + i < First(t)
                                                         /\ req[t].address + i \notin hurt[t]}
        /\ \A i \in DOMAIN got[t] : got[t][i] = cell[req[t].address + i]
        /\ \A i \in 0 .. req[t].size - 1 :
              req[t].address + i >= First(t) => req[t].address + i \notin hurt[t]

WorkInv == InStages /\ WorkOnce /\ BufferOwned /\ WrittenSoFar /\ ReadSoFar

\* The variables without a type in TypeOK have a value for every task.
Tables ==
    /\ DOMAIN todo = Task /\ DOMAIN left = Task /\ DOMAIN got = Task
    /\ DOMAIN before = Task /\ DOMAIN hurt = Task

CommonInv == LockInv /\ Tables /\ (~raced => WorkInv)

LEMMA TablesKeep == ASSUME Tables, [C!Next]_C!vars PROVE Tables'
  <1>1. CASE \E t \in Task : C!Call(t) \/ C!Test(t) \/ C!Point(t) \/ C!Create(t) \/ C!TakeNothing(t)
    BY <1>1 DEF Tables, C!Call, C!Test, C!Point, C!Create, C!TakeNothing, C!calls
  <1>2. CASE \E t \in Task : C!Take(t) \/ C!Leave(t)
    BY <1>2 DEF Tables, C!Take, C!Leave, C!calls
  <1>3. CASE \E t \in Task : C!Untracked(t) \/ C!ReadPiece(t) \/ C!WriteBegins(t) \/ C!WriteEnds(t)
                             \/ C!EraseUnit(t)
    BY <1>3 DEF Tables, C!Untracked, C!ReadPiece, C!WriteBegins, C!WriteEnds, C!EraseUnit,
       C!NextPiece, C!calls
  <1> QED BY <1>1, <1>2, <1>3 DEF C!Next, C!Stopped, C!vars, C!calls, Tables

LEMMA OneIn ==
    ASSUME LockInv, ~raced, NEW t \in Task, NEW u \in Task, place[t] = "in", place[u] = "in"
    PROVE  t = u
  BY DEF LockInv, InHolds

LEMMA CommonInit == ASSUME C!CommonAssumption, C!Init PROVE CommonInv
  <1>1. (CHOOSE r \in Requests : TRUE) \in Requests
    BY DEF C!CommonAssumption
  <1>2. C!TypeOK
    BY <1>1 DEF C!Init, C!TypeOK
  <1>3. LockInv
    BY <1>2 DEF C!Init, LockInv, FirstCall, InHolds
  <1>4. WorkInv
    BY DEF C!Init, WorkInv, InStages, Stages, WorkOnce, BufferOwned, WrittenSoFar,
       ReadSoFar, Body, Reading, C!Writing
  <1>5. Tables
    BY DEF C!Init, Tables
  <1> QED BY <1>3, <1>4, <1>5 DEF CommonInv

\* A step that no one inside takes: the flash and the buffer stay, and so does
\* whoever is inside; t comes nearer, or begins a call.
LEMMA WorkApart ==
    ASSUME C!CommonAssumption, CommonInv, ~raced, NEW t \in Task,
           UNCHANGED <<boot, cell, pbuf, left, before>>, place[t] # "in", place'[t] # "in",
           \A u \in Task : u # t => /\ place'[u] = place[u] /\ req'[u] = req[u]
                                    /\ todo'[u] = todo[u] /\ got'[u] = got[u]
                                    /\ hurt'[u] = hurt[u],
           todo'[t] \in Stages /\ (place'[t] # "out" => todo'[t] # <<>>),
           place'[t] # "out" => hurt'[t] = {} /\ got'[t] = <<>>
    PROVE  WorkInv'
  <1> USE DEF CommonInv, WorkInv
  <1>1. InStages'
    BY DEF InStages
  <1>2. /\ \A u \in Task : u # t => /\ Body(u)' <=> Body(u)
                                    /\ C!Writing(u)' <=> C!Writing(u)
                                    /\ Reading(u)' <=> Reading(u)
                                    /\ First(u)' = First(u)
                                    /\ C!IsErase(req[u])' <=> C!IsErase(req[u])
                                    /\ C!Skewed(req[u])' <=> C!Skewed(req[u])
                                    /\ \A a \in C!Address : Now(u, a)' = Now(u, a)
        /\ ~Body(t)' /\ ~C!Writing(t)' /\ ~Reading(t)' /\ ~Body(t) /\ ~C!Writing(t)
    BY DEF Body, C!Writing, Reading, First, Begins, C!IsErase, C!Skewed, Now, C!Sent,
       C!Bytes, C!Head1, C!WholePages, C!PageSize
  <1>3. \A u \in Task : u # t => (Fits(req[u], left[u])' <=> Fits(req[u], left[u]))
    <2>1. \A a : C!Unit(a)' = C!Unit(a)
      BY DEF C!Unit, C!EraseSize
    <2>2. \A r : C!Skewed(r)' <=> C!Skewed(r)
      BY DEF C!Skewed, C!Head1, C!WholePages, C!PageSize
    <2>3. \A r, p : PieceFits(r, p)' <=> PieceFits(r, p)
      BY <2>1, <2>2 DEF PieceFits
    <2> QED BY <2>3 DEF Fits
  <1>4. WorkOnce'
    BY <1>2, <1>3 DEF WorkOnce
  <1>5. BufferOwned'
    <2>1. \A u \in Task : left[u] # <<>> => C!Unit(left[u][1].address)' = C!Unit(left[u][1].address)
      BY DEF C!Unit, C!EraseSize
    <2> QED BY <1>2, <2>1 DEF BufferOwned
  <1>6. WrittenSoFar'
    BY <1>2 DEF WrittenSoFar
  <1>7. ReadSoFar'
    BY <1>2 DEF ReadSoFar
  <1> QED BY <1>1, <1>4, <1>5, <1>6, <1>7

\* A step of the one task that is inside, or comes in
LEMMA WorkOnly ==
    ASSUME C!CommonAssumption, CommonInv, ~raced, NEW t \in Task, boot' = boot,
           \A u \in Task : u # t =>
              /\ place[u] # "in" /\ place'[u] = place[u] /\ req'[u] = req[u]
              /\ todo'[u] = todo[u] /\ left'[u] = left[u] /\ got'[u] = got[u]
              /\ hurt'[u] = hurt[u],
           todo'[t] \in Stages, place'[t] # "out" => todo'[t] # <<>>,
           ~Body(t)' => left'[t] = <<>>,
           ~Body(t)' /\ place'[t] # "out" => hurt'[t] = {} /\ got'[t] = <<>>,
           Body(t)' /\ ~C!IsErase(req[t])' => Fits(req[t], left[t])',
           pbuf' # <<>> => /\ C!Writing(t)' /\ left'[t] # <<>>
                           /\ DOMAIN pbuf' = C!Unit(left[t][1].address)',
           C!Writing(t)' =>
              \A a \in C!Address \ hurt'[t] :
                 IF a \in DOMAIN pbuf' THEN pbuf'[a] = Now(t, a)' ELSE cell'[a] = Now(t, a)',
           Reading(t)' /\ ~C!Skewed(req[t])' =>
              /\ DOMAIN got'[t] = {i \in 0 .. req'[t].size - 1 :
                                      req'[t].address + i < First(t)'
                                      /\ req'[t].address + i \notin hurt'[t]}
              /\ \A i \in DOMAIN got'[t] : got'[t][i] = cell'[req'[t].address + i]
              /\ \A i \in 0 .. req'[t].size - 1 :
                    req'[t].address + i >= First(t)' => req'[t].address + i \notin hurt'[t]
    PROVE  WorkInv'
  <1> USE DEF CommonInv, WorkInv
  <1>1. \A u \in Task : u # t => ~Body(u) /\ ~Body(u)' /\ ~C!Writing(u)' /\ ~Reading(u)'
    BY DEF Body, C!Writing, Reading
  <1>2. InStages'
    BY DEF InStages
  <1>3. WorkOnce'
    BY <1>1 DEF WorkOnce
  <1>4. BufferOwned'
    BY DEF BufferOwned
  <1>5. WrittenSoFar'
    <2> SUFFICES ASSUME NEW u \in Task, C!Writing(u)', NEW a \in C!Address \ hurt'[u]
                 PROVE  IF a \in DOMAIN pbuf' THEN pbuf'[a] = Now(u, a)'
                        ELSE cell'[a] = Now(u, a)'
      BY DEF WrittenSoFar, C!Address
    <2>1. u = t
      BY <1>1
    <2> QED BY <2>1
  <1>6. ReadSoFar'
    <2> SUFFICES ASSUME NEW u \in Task, Reading(u)', ~C!Skewed(req[u])'
                 PROVE  /\ DOMAIN got'[u] = {i \in 0 .. req'[u].size - 1 :
                                                req'[u].address + i < First(u)'
                                                /\ req'[u].address + i \notin hurt'[u]}
                        /\ \A i \in DOMAIN got'[u] : got'[u][i] = cell'[req'[u].address + i]
                        /\ \A i \in 0 .. req'[u].size - 1 :
                              req'[u].address + i >= First(u)'
                              => req'[u].address + i \notin hurt'[u]
      BY DEF ReadSoFar
    <2>1. u = t
      BY <1>1
    <2> QED BY <2>1
  <1> QED BY <1>2, <1>3, <1>4, <1>5, <1>6

LEMMA OutsideKeeps ==
    ASSUME C!CommonAssumption, CommonInv, ~raced', NEW t \in Task,
           C!Call(t) \/ C!Test(t) \/ C!Point(t) \/ C!Create(t) \/ C!TakeNothing(t)
    PROVE  WorkInv'
  <1> USE DEF CommonInv
  <1>0. ~raced
    BY DEF C!Call, C!Test, C!Point, C!Create, C!TakeNothing, C!lock
  <1>1. ~raced /\ InStages /\ WorkOnce /\ C!TypeOK
    BY <1>0 DEF WorkInv, LockInv
  <1>2. /\ UNCHANGED <<boot, cell, pbuf, left, before>> /\ place[t] # "in" /\ place'[t] # "in"
        /\ place'[t] # "out"
        /\ \A u \in Task : u # t => place'[u] = place[u]
    BY <1>1 DEF C!Call, C!Test, C!Point, C!Create, C!TakeNothing, C!TypeOK, C!Goto,
       C!flash, C!calls
  <1>3. CASE C!Call(t)
    <2>1. PICK r \in Requests : /\ req' = [req EXCEPT ![t] = r]
                                /\ todo' = [todo EXCEPT ![t] = C!Phases(r)]
                                /\ got' = [got EXCEPT ![t] = <<>>]
                                /\ hurt' = [hurt EXCEPT ![t] = {}]
      BY <1>3 DEF C!Call
    <2>2. C!Phases(r) \in Stages /\ C!Phases(r) # <<>>
      BY <1>1, PhasesStages DEF C!TypeOK
    <2>3. t \in DOMAIN todo /\ t \in DOMAIN got /\ t \in DOMAIN hurt /\ t \in DOMAIN req
      BY <1>1 DEF C!TypeOK, Tables
    <2>4. \A u \in Task : u # t => /\ req'[u] = req[u] /\ todo'[u] = todo[u]
                                   /\ got'[u] = got[u] /\ hurt'[u] = hurt[u]
      BY <2>1
    <2>5. todo'[t] = C!Phases(r) /\ got'[t] = <<>> /\ hurt'[t] = {}
      BY <2>1, <2>3
    <2> QED BY <1>1, <1>2, <2>2, <2>4, <2>5, WorkApart
  <1>4. CASE ~C!Call(t)
    <2>1. UNCHANGED <<todo, req, got, hurt>> /\ place[t] # "out" /\ ~Body(t)
      BY <1>2, <1>4 DEF C!Test, C!Point, C!Create, C!TakeNothing, C!calls, Body
    <2>2. todo[t] \in Stages /\ todo[t] # <<>> /\ hurt[t] = {} /\ got[t] = <<>>
      BY <1>1, <2>1 DEF InStages, WorkOnce
    <2> QED BY <1>1, <1>2, <2>1, <2>2, WorkApart
  <1> QED BY <1>3, <1>4

LEMMA TakeKeeps ==
    ASSUME C!CommonAssumption, CommonInv, ~raced', NEW t \in Task, C!Take(t)
    PROVE  WorkInv'
  <1> USE DEF CommonInv
  <1>1. /\ ~raced /\ WorkInv /\ C!TypeOK /\ place[t] = "take" /\ handle # None
        /\ holder[handle] = None /\ t # None
        /\ UNCHANGED <<boot, cell, pbuf, todo, req, got, hurt>>
        /\ place' = [place EXCEPT ![t] = "in"]
    BY DEF C!Take, C!HolderFree, LockInv, C!flash, C!Goto, C!CommonAssumption
  <1>2. \A u \in Task : place[u] # "in"
    BY <1>1 DEF LockInv, InHolds, C!CommonAssumption
  <1>3. pbuf = <<>>
    BY <1>1, <1>2 DEF WorkInv, BufferOwned, C!Writing
  <1>4. /\ place'[t] = "in" /\ \A u \in Task : u # t => place'[u] = place[u]
        /\ todo[t] \in Stages /\ todo[t] # <<>> /\ left[t] = <<>> /\ hurt[t] = {}
        /\ got[t] = <<>>
    BY <1>1 DEF C!TypeOK, WorkInv, InStages, WorkOnce, Body
  <1>5. CASE Head(todo[t]) # "body"
    <2>1. UNCHANGED <<before, left>>
      BY <1>5 DEF C!Take
    <2>2. ~Body(t)' /\ ~C!Writing(t)' /\ ~Reading(t)'
      BY <1>1, <1>5 DEF Body, C!Writing, Reading
    <2> QED BY <1>1, <1>2, <1>3, <1>4, <2>1, <2>2, WorkOnly
  <1>6. CASE Head(todo[t]) = "body"
    <2>1. /\ before' = [before EXCEPT ![t] = cell]
          /\ left' = [left EXCEPT ![t] = IF C!IsErase(req[t]) THEN <<"erase">>
                                         ELSE C!Pieces(req[t])]
      BY <1>6 DEF C!Take
    <2>2. t \in DOMAIN before /\ t \in DOMAIN left
      BY DEF Tables
    <2>3. /\ before'[t] = cell
          /\ left'[t] = IF C!IsErase(req[t]) THEN <<"erase">> ELSE C!Pieces(req[t])
          /\ \A u \in Task : u # t => left'[u] = left[u]
      BY <2>1, <2>2
    <2>4. req[t] \in Requests /\ boot \in {"nand", "nor"}
      BY <1>1 DEF C!TypeOK
    <2>5. Body(t)'
      BY <1>1, <1>4, <1>6 DEF Body
    <2>6. (C!IsErase(req[t])' <=> C!IsErase(req[t]))
      BY <1>1 DEF C!IsErase
    <2>7. Fits(req[t], C!Pieces(req[t])) /\ Begins(req[t], C!Pieces(req[t])) = req[t].address
      BY <2>4, PiecesFit
    <2>8. ~C!IsErase(req[t]) => Fits(req[t], left[t])' /\ First(t)' = req[t].address
      <3>1. \A a : C!Unit(a)' = C!Unit(a)
        BY <1>1 DEF C!Unit, C!EraseSize
      <3>2. \A r : C!Skewed(r)' <=> C!Skewed(r)
        BY <1>1 DEF C!Skewed, C!Head1, C!WholePages, C!PageSize
      <3>3. \A r, p : PieceFits(r, p)' <=> PieceFits(r, p)
        BY <3>1, <3>2 DEF PieceFits
      <3> QED BY <1>1, <2>3, <2>7, <3>3 DEF Fits, First, Begins
    <2>9. req[t].address \in Nat /\ req[t].size \in Nat /\ req[t].address + req[t].size <= Size
      BY <2>4 DEF C!CommonAssumption
    <2>10. C!Writing(t)' => \A a \in C!Address : cell'[a] = Now(t, a)'
      <3> SUFFICES ASSUME C!Writing(t)', NEW a \in C!Address PROVE cell'[a] = Now(t, a)'
        OBVIOUS
      <3>1. ~C!IsErase(req[t])
        BY <2>6 DEF C!Writing
      <3>2. ~(a \in C!Bytes(req[t])' /\ a < First(t)')
        BY <1>1, <2>8, <2>9, <3>1 DEF C!Bytes, C!Address
      <3> QED BY <1>1, <2>3, <3>2 DEF Now
    <2>11. Reading(t)' => {i \in 0 .. req'[t].size - 1 :
                            req'[t].address + i < First(t)'
                            /\ req'[t].address + i \notin hurt'[t]} = {}
      <3>1. Reading(t)' => ~C!IsErase(req[t])
        BY <1>1 DEF Reading, C!IsErase
      <3> QED BY <1>1, <2>8, <2>9, <3>1
    <2>12. DOMAIN got'[t] = {} /\ DOMAIN pbuf' = {}
      BY <1>1, <1>3, <1>4
    <2> QED BY <1>1, <1>2, <1>3, <1>4, <2>3, <2>5, <2>6, <2>8, <2>10, <2>11, <2>12, WorkOnly
  <1> QED BY <1>5, <1>6

\* One of the pieces is under way: whose it is, and what it is
LEMMA AtWork ==
    ASSUME C!CommonAssumption, CommonInv, ~raced, NEW t \in Task,
           place[t] = "in", left[t] # <<>>
    PROVE  /\ C!TypeOK /\ WorkInv /\ Body(t)
           /\ \A u \in Task : u # t => place[u] # "in"
           /\ todo[t] \in Stages /\ todo[t] # <<>>
           /\ req[t] \in Requests /\ boot \in {"nand", "nor"}
           /\ t \in DOMAIN left /\ t \in DOMAIN hurt /\ t \in DOMAIN got
           /\ ~C!IsErase(req[t]) =>
                 /\ Fits(req[t], left[t]) /\ PieceFits(req[t], left[t][1])
                 /\ Fits(req[t], Tail(left[t]))
                 /\ First(t) = left[t][1].address
                 /\ Begins(req[t], Tail(left[t])) = left[t][1].address + left[t][1].size
  <1> USE DEF CommonInv
  <1>1. C!TypeOK /\ WorkInv
    BY DEF LockInv
  <1>2. Body(t)
    BY <1>1 DEF WorkInv, WorkOnce
  <1>3. \A u \in Task : u # t => place[u] # "in"
    BY OneIn
  <1>4. todo[t] \in Stages /\ todo[t] # <<>>
    BY <1>1 DEF WorkInv, InStages
  <1>5. /\ req[t] \in Requests /\ boot \in {"nand", "nor"}
        /\ t \in DOMAIN left /\ t \in DOMAIN hurt /\ t \in DOMAIN got
    BY <1>1 DEF C!TypeOK, Tables
  <1>6. ASSUME ~C!IsErase(req[t])
        PROVE  /\ Fits(req[t], left[t]) /\ PieceFits(req[t], left[t][1])
               /\ Fits(req[t], Tail(left[t]))
               /\ First(t) = left[t][1].address
               /\ Begins(req[t], Tail(left[t])) = left[t][1].address + left[t][1].size
    <2>1. Fits(req[t], left[t])
      BY <1>1, <1>2, <1>6 DEF WorkInv, WorkOnce
    <2>2. First(t) = left[t][1].address
      BY DEF First, Begins
    <2> QED BY <2>1, <2>2, FitsTail
  <1> QED BY <1>1, <1>2, <1>3, <1>4, <1>5, <1>6

\* What the geometry of the flash says does not change.
LEMMA SameGeometry ==
    ASSUME boot' = boot
    PROVE  /\ \A a : C!Unit(a)' = C!Unit(a)
           /\ \A r : (C!Skewed(r)' <=> C!Skewed(r)) /\ (C!IsErase(r)' <=> C!IsErase(r))
           /\ \A r, s : Fits(r, s)' <=> Fits(r, s)
  <1>1. \A a : C!Unit(a)' = C!Unit(a)
    BY DEF C!Unit, C!EraseSize
  <1>2. \A r : (C!Skewed(r)' <=> C!Skewed(r)) /\ (C!IsErase(r)' <=> C!IsErase(r))
    BY DEF C!Skewed, C!Head1, C!WholePages, C!PageSize, C!IsErase
  <1>3. \A r, p : PieceFits(r, p)' <=> PieceFits(r, p)
    BY <1>1, <1>2 DEF PieceFits
  <1> QED BY <1>1, <1>2, <1>3 DEF Fits

LEMMA EraseKeeps ==
    ASSUME C!CommonAssumption, CommonInv, ~raced, NEW t \in Task, C!EraseUnit(t)
    PROVE  WorkInv'
  <1>1. /\ place[t] = "in" /\ left[t] # <<>> /\ C!IsErase(req[t])
        /\ left' = [left EXCEPT ![t] = Tail(left[t])]
        /\ UNCHANGED <<boot, pbuf, place, todo, req, got, before, hurt>>
    BY DEF C!EraseUnit, C!Working, C!NextPiece, C!lock, C!calls
  <1>2. /\ WorkInv /\ Body(t) /\ todo[t] \in Stages /\ todo[t] # <<>>
        /\ \A u \in Task : u # t => place[u] # "in"
        /\ t \in DOMAIN left
    BY <1>1, AtWork
  <1>3. Body(t)' /\ C!IsErase(req[t])' /\ ~C!Writing(t)' /\ ~Reading(t)'
    BY <1>1, <1>2 DEF Body, C!IsErase, C!Writing, Reading
  <1>4. pbuf = <<>>
    <2>1. ~C!Writing(t)
      BY <1>1 DEF C!Writing
    <2>2. \A u \in Task : ~C!Writing(u)
      BY <1>2, <2>1 DEF C!Writing
    <2> QED BY <1>2, <2>2 DEF WorkInv, BufferOwned
  <1>5. \A u \in Task : u # t => left'[u] = left[u]
    BY <1>1
  <1> QED BY <1>1, <1>2, <1>3, <1>4, <1>5, WorkOnly

LEMMA ReadKeeps ==
    ASSUME C!CommonAssumption, CommonInv, ~raced, NEW t \in Task, C!ReadPiece(t)
    PROVE  WorkInv'
  <1> DEFINE p == left[t][1]
             bytes == p.at .. p.at + p.size - 1
             where == p.address .. p.address + p.size - 1
  <1>1. /\ place[t] = "in" /\ left[t] # <<>> /\ req[t].op = "read"
        /\ left' = [left EXCEPT ![t] = Tail(left[t])]
        /\ UNCHANGED <<boot, cell, pbuf, place, todo, req, before>>
    BY DEF C!ReadPiece, C!Working, C!NextPiece, C!lock, C!flash
  <1>2. ~C!IsErase(req[t]) /\ ~C!Writing(t)
    BY <1>1 DEF C!IsErase, C!Writing
  <1>3. /\ WorkInv /\ Body(t) /\ todo[t] \in Stages /\ todo[t] # <<>>
        /\ \A u \in Task : u # t => place[u] # "in"
        /\ req[t] \in Requests
        /\ t \in DOMAIN left /\ t \in DOMAIN got /\ t \in DOMAIN hurt
        /\ PieceFits(req[t], p) /\ Fits(req[t], Tail(left[t]))
        /\ First(t) = p.address
        /\ Begins(req[t], Tail(left[t])) = p.address + p.size
    BY <1>1, <1>2, AtWork
  <1>4. /\ left'[t] = Tail(left[t]) /\ \A u \in Task : u # t => left'[u] = left[u]
        /\ First(t)' = p.address + p.size
    BY <1>1, <1>3 DEF First, Begins
  <1>5. Body(t)' /\ ~C!Writing(t)' /\ (Reading(t)' <=> Reading(t)) /\ Reading(t)
    BY <1>1, <1>3 DEF Body, C!Writing, Reading
  <1>6. pbuf = <<>>
    <2>1. \A u \in Task : ~C!Writing(u)
      BY <1>2, <1>3 DEF C!Writing
    <2> QED BY <1>3, <2>1 DEF WorkInv, BufferOwned
  <1>7. Fits(req[t], left[t])' /\ (C!Skewed(req[t])' <=> C!Skewed(req[t]))
    BY <1>1, <1>3, <1>4, SameGeometry
  <1>8. \A u \in Task : u # t => got'[u] = got[u] /\ hurt'[u] = hurt[u]
    <2>1. (\E f : got' = [got EXCEPT ![t] = f]) \/ got' = got
      BY DEF C!ReadPiece
    <2>2. (\E f : hurt' = [hurt EXCEPT ![t] = f]) \/ hurt' = hurt
      BY DEF C!ReadPiece
    <2>3. DOMAIN got = Task /\ DOMAIN hurt = Task
      BY DEF CommonInv, Tables
    <2>4. \A u \in Task : u # t => got'[u] = got[u]
      BY <2>1, <2>3
    <2>5. \A u \in Task : u # t => hurt'[u] = hurt[u]
      BY <2>2, <2>3
    <2> QED BY <2>4, <2>5
  <1>9. \/ got'[t] = [o \in DOMAIN got[t] \cup bytes |->
                        IF o \in bytes THEN cell[p.address + o - p.at] ELSE got[t][o]]
           /\ hurt'[t] = hurt[t]
        \/ got'[t] = got[t] /\ hurt'[t] = hurt[t] \cup where
    BY <1>3 DEF C!ReadPiece
  <1>10. ASSUME ~C!Skewed(req[t])
         PROVE  /\ DOMAIN got'[t] = {i \in 0 .. req[t].size - 1 :
                                       req[t].address + i < p.address + p.size
                                       /\ req[t].address + i \notin hurt'[t]}
                /\ \A i \in DOMAIN got'[t] : got'[t][i] = cell[req[t].address + i]
                /\ \A i \in 0 .. req[t].size - 1 :
                      req[t].address + i >= p.address + p.size
                      => req[t].address + i \notin hurt'[t]
    <2>1. /\ req[t].address \in Nat /\ req[t].size \in Nat
          /\ p.address \in Nat /\ p.size \in Nat \ {0} /\ p.at = p.address - req[t].address
          /\ req[t].address <= p.address /\ p.at \in Nat
          /\ p.address + p.size <= req[t].address + req[t].size
      BY <1>3, <1>10 DEF PieceFits, C!CommonAssumption
    <2>2. /\ DOMAIN got[t] = {i \in 0 .. req[t].size - 1 :
                                req[t].address + i < p.address
                                /\ req[t].address + i \notin hurt[t]}
          /\ \A i \in DOMAIN got[t] : got[t][i] = cell[req[t].address + i]
          /\ \A i \in 0 .. req[t].size - 1 :
                req[t].address + i >= p.address => req[t].address + i \notin hurt[t]
      BY <1>3, <1>5, <1>10 DEF WorkInv, ReadSoFar
    <2> HIDE DEF p
    <2>3. CASE got'[t] = got[t] /\ hurt'[t] = hurt[t] \cup where
      <3>1. DOMAIN got[t] = {i \in 0 .. req[t].size - 1 :
                               req[t].address + i < p.address + p.size
                               /\ req[t].address + i \notin hurt'[t]}
        BY <2>1, <2>2, <2>3
      <3>2. \A i \in 0 .. req[t].size - 1 :
               req[t].address + i >= p.address + p.size
               => req[t].address + i \notin hurt[t] /\ req[t].address + i \notin where
        BY <2>1, <2>2
      <3> QED BY <2>2, <2>3, <3>1, <3>2
    <2>4. CASE /\ got'[t] = [o \in DOMAIN got[t] \cup bytes |->
                              IF o \in bytes THEN cell[p.address + o - p.at] ELSE got[t][o]]
               /\ hurt'[t] = hurt[t]
      <3>1. DOMAIN got'[t] = {i \in 0 .. req[t].size - 1 :
                               req[t].address + i < p.address + p.size
                               /\ req[t].address + i \notin hurt'[t]}
        BY <2>1, <2>2, <2>4
      <3>2. \A i \in bytes : i \in Nat /\ p.address + i - p.at = req[t].address + i
        BY <2>1
      <3>3. \A i \in DOMAIN got'[t] : got'[t][i] = cell[req[t].address + i]
        BY <2>2, <2>4, <3>2
      <3> QED BY <2>1, <2>2, <2>4, <3>1, <3>3
    <2> QED BY <1>9, <2>3, <2>4
  <1> HIDE DEF p
  <1> QED BY <1>1, <1>3, <1>4, <1>5, <1>6, <1>7, <1>8, <1>10, WorkOnly

LEMMA BeginKeeps ==
    ASSUME C!CommonAssumption, CommonInv, ~raced, NEW t \in Task, C!WriteBegins(t)
    PROVE  WorkInv'
  <1> DEFINE unit == C!Unit(left[t][1].address)
  <1>1. /\ place[t] = "in" /\ left[t] # <<>> /\ req[t].op # "read" /\ ~C!IsErase(req[t])
        /\ pbuf = <<>>
        /\ pbuf' = [a \in unit |-> cell[a]]
        /\ cell' = [a \in C!Address |-> IF a \in unit THEN C!Blank ELSE cell[a]]
        /\ UNCHANGED <<boot, place, todo, left, req, got, before, hurt>>
    BY DEF C!WriteBegins, C!Working, C!lock, C!calls
  <1>2. /\ WorkInv /\ Body(t) /\ todo[t] \in Stages /\ todo[t] # <<>>
        /\ \A u \in Task : u # t => place[u] # "in"
        /\ Fits(req[t], left[t])
    BY <1>1, AtWork
  <1>3. Body(t)' /\ C!Writing(t)' /\ C!Writing(t) /\ ~Reading(t)'
    BY <1>1, <1>2 DEF Body, C!Writing, Reading, C!IsErase
  <1>4. Fits(req[t], left[t])' /\ C!Unit(left[t][1].address)' = unit
    BY <1>1, <1>2, SameGeometry
  <1>5. \A a \in C!Address \ hurt[t] :
           IF a \in DOMAIN pbuf' THEN pbuf'[a] = Now(t, a)' ELSE cell'[a] = Now(t, a)'
    <2>1. \A a \in C!Address \ hurt[t] : cell[a] = Now(t, a)
      BY <1>1, <1>2, <1>3 DEF WorkInv, WrittenSoFar
    <2>2. \A a \in C!Address : Now(t, a)' = Now(t, a)
      BY <1>1 DEF Now, C!Bytes, First, Begins, C!Sent
    <2> QED BY <1>1, <2>1, <2>2
  <1> HIDE DEF unit
  <1>6. DOMAIN pbuf' = unit
    BY <1>1
  <1> QED BY <1>1, <1>2, <1>3, <1>4, <1>5, <1>6, WorkOnly

LEMMA EndKeeps ==
    ASSUME C!CommonAssumption, CommonInv, ~raced, NEW t \in Task, C!WriteEnds(t)
    PROVE  WorkInv'
  <1> DEFINE p == left[t][1]
             New(a) == IF a \in p.address .. p.address + p.size - 1
                       THEN C!Sent(t, p.at + a - p.address) ELSE pbuf[a]
  <1>1. /\ place[t] = "in" /\ left[t] # <<>> /\ req[t].op # "read" /\ ~C!IsErase(req[t])
        /\ pbuf # <<>> /\ pbuf' = <<>>
        /\ left' = [left EXCEPT ![t] = Tail(left[t])]
        /\ UNCHANGED <<boot, place, todo, req, got, before>>
    BY DEF C!WriteEnds, C!Working, C!NextPiece, C!lock
  <1>2. /\ WorkInv /\ Body(t) /\ todo[t] \in Stages /\ todo[t] # <<>>
        /\ \A u \in Task : u # t => place[u] # "in"
        /\ req[t] \in Requests
        /\ t \in DOMAIN left /\ t \in DOMAIN hurt
        /\ PieceFits(req[t], p) /\ Fits(req[t], Tail(left[t]))
        /\ First(t) = p.address
        /\ Begins(req[t], Tail(left[t])) = p.address + p.size
    BY <1>1, AtWork
  <1>3. /\ left'[t] = Tail(left[t]) /\ \A u \in Task : u # t => left'[u] = left[u]
        /\ First(t)' = p.address + p.size
    BY <1>1, <1>2 DEF First, Begins
  <1>4. Body(t)' /\ C!Writing(t)' /\ C!Writing(t) /\ ~Reading(t)' /\ DOMAIN pbuf' = {}
    BY <1>1, <1>2 DEF Body, C!Writing, Reading, C!IsErase
  <1>5. Fits(req[t], left[t])'
    BY <1>1, <1>2, <1>3, SameGeometry
  <1>6. \A u \in Task : u # t => hurt'[u] = hurt[u]
    <2>1. (\E f : hurt' = [hurt EXCEPT ![t] = f]) \/ hurt' = hurt
      BY DEF C!WriteEnds
    <2>2. DOMAIN hurt = Task
      BY DEF CommonInv, Tables
    <2> QED BY <2>1, <2>2
  <1>7. DOMAIN pbuf = C!Unit(p.address)
    <2>1. PICK u \in Task : C!Writing(u) /\ left[u] # <<>> /\ DOMAIN pbuf = C!Unit(left[u][1].address)
      BY <1>1, <1>2 DEF WorkInv, BufferOwned
    <2>2. u = t
      BY <1>2, <2>1 DEF C!Writing
    <2> QED BY <2>1, <2>2
  <1>8. /\ req[t].address \in Nat /\ req[t].size \in Nat
        /\ p.address \in Nat /\ p.size \in Nat \ {0} /\ p.at = p.address - req[t].address
        /\ req[t].address <= p.address /\ p.at \in Nat
        /\ p.address + p.size <= req[t].address + req[t].size
        /\ \A a \in p.address .. p.address + p.size - 1 : a \in C!Unit(p.address)
    BY <1>1, <1>2 DEF PieceFits, C!CommonAssumption
  <1>9. \A a \in C!Address \ hurt[t] :
           IF a \in DOMAIN pbuf THEN pbuf[a] = Now(t, a) ELSE cell[a] = Now(t, a)
    BY <1>2, <1>4 DEF WorkInv, WrittenSoFar
  <1>10. \/ /\ cell' = [a \in C!Address |-> IF a \in DOMAIN pbuf THEN New(a) ELSE cell[a]]
            /\ hurt'[t] = hurt[t]
         \/ /\ cell' = [a \in C!Address |-> IF a \in DOMAIN pbuf THEN C!Junk ELSE cell[a]]
            /\ hurt'[t] = hurt[t] \cup DOMAIN pbuf
    BY <1>2 DEF C!WriteEnds
  <1> HIDE DEF p
  <1>11. \A a \in C!Address :
            Now(t, a)' = IF a \in p.address .. p.address + p.size - 1
                         THEN C!Sent(t, a - req[t].address) ELSE Now(t, a)
    <2> SUFFICES ASSUME NEW a \in C!Address
                 PROVE  Now(t, a)' = IF a \in p.address .. p.address + p.size - 1
                                     THEN C!Sent(t, a - req[t].address) ELSE Now(t, a)
      OBVIOUS
    <2>1. a \in Int
      BY DEF C!Address
    <2>2. /\ C!Bytes(req[t])' = C!Bytes(req[t]) /\ before'[t] = before[t]
          /\ C!Sent(t, a - req[t].address)' = C!Sent(t, a - req[t].address)
      BY <1>1 DEF C!Bytes, C!Sent
    <2>3. a \in p.address .. p.address + p.size - 1 <=>
             (a \in C!Bytes(req[t]) /\ a < p.address + p.size /\ ~(a < p.address))
      BY <1>8, <2>1 DEF C!Bytes
    <2>4. a < p.address => a < p.address + p.size
      BY <1>8, <2>1
    <2>5. Now(t, a) = IF a \in C!Bytes(req[t]) /\ a < p.address
                      THEN C!Sent(t, a - req[t].address) ELSE before[t][a]
      BY <1>2 DEF Now
    <2>6. Now(t, a)' = IF a \in C!Bytes(req[t]) /\ a < p.address + p.size
                       THEN C!Sent(t, a - req[t].address) ELSE before[t][a]
      BY <1>1, <1>3, <2>2 DEF Now
    <2> QED BY <2>3, <2>4, <2>5, <2>6
  <1>12. \A a \in C!Address \ hurt'[t] : cell'[a] = Now(t, a)'
    <2> SUFFICES ASSUME NEW a \in C!Address, a \notin hurt'[t] PROVE cell'[a] = Now(t, a)'
      OBVIOUS
    <2>1. a \notin hurt[t] /\ a \in Int
      BY <1>10 DEF C!Address
    <2>2. CASE a \in DOMAIN pbuf
      <3>1. cell'[a] = New(a)
        BY <1>10, <2>2
      <3>2. a \in p.address .. p.address + p.size - 1 => p.at + a - p.address = a - req[t].address
        BY <1>8, <2>1
      <3>3. pbuf[a] = Now(t, a)
        BY <1>9, <2>1, <2>2
      <3> QED BY <1>11, <3>1, <3>2, <3>3
    <2>3. CASE a \notin DOMAIN pbuf
      <3>1. cell'[a] = cell[a] /\ cell[a] = Now(t, a)
        BY <1>9, <1>10, <2>1, <2>3
      <3>2. a \notin p.address .. p.address + p.size - 1
        BY <1>7, <1>8, <2>3
      <3> QED BY <1>11, <3>1, <3>2
    <2> QED BY <2>2, <2>3
  <1> QED BY <1>1, <1>2, <1>3, <1>4, <1>5, <1>6, <1>12, WorkOnly

LEMMA LeaveKeeps ==
    ASSUME C!CommonAssumption, CommonInv, ~raced, NEW t \in Task, C!Leave(t)
    PROVE  WorkInv'
  <1> USE DEF CommonInv
  <1>1. /\ place[t] = "in" /\ left[t] = <<>>
        /\ \/ todo' = [todo EXCEPT ![t] = Tail(todo[t])]
           \/ todo' = [todo EXCEPT ![t] = <<>>]
        /\ place' = [place EXCEPT ![t] = IF todo'[t] = <<>> THEN "out" ELSE "test"]
        /\ UNCHANGED <<boot, cell, pbuf, left, req, got, before, hurt>>
    BY DEF C!Leave, C!Goto, C!flash, C!calls
  <1>2. /\ WorkInv /\ todo[t] \in Stages /\ todo[t] # <<>> /\ C!TypeOK
        /\ t \in DOMAIN todo /\ t \in DOMAIN place
        /\ \A u \in Task : u # t => place[u] # "in"
    BY <1>1, OneIn DEF LockInv, WorkInv, InStages, C!TypeOK, Tables
  <1>3. Tail(todo[t]) \in Stages /\ (Head(todo[t]) = "body" => Tail(todo[t]) = <<>>)
        /\ <<>> \in Stages
    BY <1>2, StagesEnd DEF Stages
  <1>4. /\ todo'[t] \in {Tail(todo[t]), <<>>}
        /\ place'[t] = IF todo'[t] = <<>> THEN "out" ELSE "test"
        /\ \A u \in Task : u # t => todo'[u] = todo[u] /\ place'[u] = place[u]
    BY <1>1, <1>2 DEF Tables, C!TypeOK
  <1>5. ~Body(t)' /\ ~C!Writing(t)' /\ ~Reading(t)'
    BY <1>4 DEF Body, C!Writing, Reading
  <1>6. pbuf = <<>>
    <2>1. \A u \in Task : ~(C!Writing(u) /\ left[u] # <<>>)
      BY <1>1, <1>2 DEF C!Writing
    <2> QED BY <1>2, <2>1 DEF WorkInv, BufferOwned
  <1>7. place'[t] # "out" => hurt[t] = {} /\ got[t] = <<>>
    <2>1. place'[t] # "out" => ~Body(t)
      BY <1>3, <1>4 DEF Body
    <2> QED BY <1>1, <1>2, <2>1 DEF WorkInv, WorkOnce
  <1> QED BY <1>1, <1>2, <1>3, <1>4, <1>5, <1>6, <1>7, WorkOnly

\* Every step keeps the invariant.
LEMMA CommonNext ==
    ASSUME C!CommonAssumption, CommonInv, [C!Next]_C!vars PROVE CommonInv'
  <1>1. LockInv' /\ Tables'
    BY LockKeeps, TablesKeep DEF CommonInv
  <1>2. ASSUME ~raced' PROVE WorkInv'
    <2>1. CASE UNCHANGED C!vars \/ C!Stopped
      <3>1. UNCHANGED <<C!flash, C!lock, place, todo, left, C!calls>>
        BY <2>1 DEF C!Stopped, C!vars
      <3>2. WorkInv
        BY <1>2, <3>1 DEF CommonInv, C!lock
      <3>3. UNCHANGED <<boot, cell, pbuf, place, todo, left, req, got, before, hurt>>
        BY <3>1 DEF C!flash, C!lock, C!calls
      <3>4. InStages'
        BY <3>2, <3>3 DEF WorkInv, InStages
      <3>5. WorkOnce'
        <4>1. \A u \in Task : /\ Body(u)' <=> Body(u)
                              /\ C!IsErase(req[u])' <=> C!IsErase(req[u])
                              /\ Fits(req[u], left[u])' <=> Fits(req[u], left[u])
          BY <3>3, SameGeometry DEF Body
        <4> QED BY <3>2, <3>3, <4>1 DEF WorkInv, WorkOnce
      <3>6. \A u \in Task : /\ C!Writing(u)' <=> C!Writing(u)
                            /\ Reading(u)' <=> Reading(u)
                            /\ C!Skewed(req[u])' <=> C!Skewed(req[u])
                            /\ First(u)' = First(u)
                            /\ C!Unit(left[u][1].address)' = C!Unit(left[u][1].address)
                            /\ \A a \in C!Address : Now(u, a)' = Now(u, a)
        BY <3>3, SameGeometry DEF C!Writing, Reading, Body, First, Begins, Now, C!Bytes,
           C!Sent, C!IsErase
      <3>7. BufferOwned'
        BY <3>2, <3>3, <3>6 DEF WorkInv, BufferOwned
      <3>8. WrittenSoFar'
        BY <3>2, <3>3, <3>6 DEF WorkInv, WrittenSoFar
      <3>9. ReadSoFar'
        BY <3>2, <3>3, <3>6 DEF WorkInv, ReadSoFar
      <3> QED BY <3>4, <3>5, <3>7, <3>8, <3>9 DEF WorkInv
    <2>2. CASE \E t \in Task : C!Call(t) \/ C!Test(t) \/ C!Point(t) \/ C!Create(t) \/ C!TakeNothing(t)
      BY <1>2, <2>2, OutsideKeeps
    <2>3. CASE \E t \in Task : C!Take(t)
      BY <1>2, <2>3, TakeKeeps
    <2>4. CASE \E t \in Task : C!Untracked(t)
      BY <1>2, <2>4 DEF C!Untracked, C!lock
    <2>5. CASE \E t \in Task : C!ReadPiece(t) \/ C!WriteBegins(t) \/ C!WriteEnds(t) \/ C!EraseUnit(t)
      <3>1. ~raced
        BY <2>5 DEF C!ReadPiece, C!WriteBegins, C!WriteEnds, C!EraseUnit, C!Working
      <3> QED BY <2>5, <3>1, ReadKeeps, BeginKeeps, EndKeeps, EraseKeeps
    <2>6. CASE \E t \in Task : C!Leave(t)
      <3>1. ~raced
        BY <1>2, <2>6 DEF C!Leave
      <3> QED BY <2>6, <3>1, LeaveKeeps
    <2> QED BY <2>1, <2>2, <2>3, <2>4, <2>5, <2>6 DEF C!Next
  <1> QED BY <1>1, <1>2 DEF CommonInv

LEMMA CommonSafe ==
    ASSUME C!CommonAssumption, CommonInv
    PROVE  C!TypeOK /\ C!OneHolder /\ C!WriteIsWhole /\ C!ReadIsExact
  <1>1. C!TypeOK /\ C!OneHolder
    BY LockSafe DEF CommonInv
  <1>2. ASSUME ~raced, NEW t \in Task, C!Writing(t),
               NEW a \in C!Address, a \notin DOMAIN pbuf, a \notin hurt[t]
        PROVE  cell[a] = IF a \in C!Bytes(req[t])
                            /\ a < (IF left[t] = <<>> THEN req[t].address + req[t].size
                                    ELSE left[t][1].address)
                         THEN C!Sent(t, a - req[t].address) ELSE before[t][a]
    <2>1. cell[a] = Now(t, a)
      BY <1>2 DEF CommonInv, WorkInv, WrittenSoFar
    <2> QED BY <2>1 DEF Now, First, Begins
  <1>3. C!WriteIsWhole
    BY <1>2 DEF C!WriteIsWhole
  <1>4. ASSUME ~raced, NEW t \in Task, place[t] = "in", Head(todo[t]) = "body",
               req[t].op = "read", left[t] = <<>>, ~C!Skewed(req[t])
        PROVE  /\ DOMAIN got[t] = {i \in 0 .. req[t].size - 1 :
                                     req[t].address + i \notin hurt[t]}
               /\ \A i \in DOMAIN got[t] : got[t][i] = cell[req[t].address + i]
    <2>1. Reading(t) /\ First(t) = req[t].address + req[t].size
      BY <1>4 DEF Reading, Body, First, Begins
    <2>2. /\ DOMAIN got[t] = {i \in 0 .. req[t].size - 1 :
                                req[t].address + i < First(t)
                                /\ req[t].address + i \notin hurt[t]}
          /\ \A i \in DOMAIN got[t] : got[t][i] = cell[req[t].address + i]
      BY <1>4, <2>1 DEF CommonInv, WorkInv, ReadSoFar
    <2>3. req[t].address \in Nat /\ req[t].size \in Nat
      BY <1>1 DEF C!TypeOK, C!CommonAssumption
    <2>4. \A i \in 0 .. req[t].size - 1 : req[t].address + i < First(t)
      BY <2>1, <2>3
    <2> QED BY <2>2, <2>4
  <1>5. C!ReadIsExact
    BY <1>4 DEF C!ReadIsExact
  <1> QED BY <1>1, <1>3, <1>5

-----------------------------------------------------------------------------
(* The update on a NAND flash                                              *)

\* A record stands for no image or for a whole one; of a good table an image
\* can be started.
Complete(c, r) ==
    \/ r = O!NoRecord
    \/ /\ Len(r.blocks) = Length
       /\ \E v \in Version : \A k \in 1 .. Length : c[r.blocks[k]] = <<v, k>>
Good(c, t) == (\E i \in O!Fw : t[i].magic) /\ \A i \in O!Fw : Complete(c, t[i])

BadCopies == {i \in 1 .. Copies : copies[i].tag = "bad"}

CopyStates == [tag : {"blank", "bad", "table"}, table : O!Table]
WriterStates == [pc : {"off", "erase", "program"}, i : 0 .. Copies, success : 0 .. 1, table : O!Table]
OtaStates ==
    [pc : {"idle", "receive", "table", "first", "data", "pages", "final", "reset"},
     version : Version \cup {NoVersion}, cur : 0 .. Length, data : Version \cup {NoVersion},
     sum : BOOLEAN, block : 0 .. Blocks, table : O!Table]
ToolStates == [pc : {"idle", "write"}, table : O!Table]
BlockStates == {NoVersion} \cup Version \X (1 .. Length)

NandTypes ==
    /\ copies \in [1 .. Copies -> CopyStates]
    /\ \A i \in 1 .. Copies : copies[i].tag = "blank" => copies[i].table = O!NoTable
    /\ content \in [1 .. Blocks -> BlockStates]
    /\ running \in 0 .. 2 /\ lock \in {"none", "ota", "tool"}
    /\ writer \in WriterStates /\ ota \in OtaStates /\ tool \in ToolStates
    /\ events \subseteq O!Event /\ fails \in 0 .. MaxFails

FewBad == Cardinality(BadCopies) <= fails

\* Who writes the table has the lock; one of the two tasks works, and an update
\* only when an image runs.
WriterOwned ==
    /\ writer.pc # "off" =>
          \/ lock = "tool" /\ tool.pc = "write" /\ writer.table = tool.table
          \/ lock = "ota" /\ ota.pc \in {"first", "final"} /\ writer.table = ota.table
    /\ tool.pc # "idle" => ota.pc = "idle"
    /\ ota.pc # "idle" => running \in O!Fw /\ ota.version \in Version

\* What the loop has done so far: a block that failed is marked, the others have
\* the table.
CopiesWritten ==
    writer.pc # "off" =>
        /\ writer.i \in 1 .. Copies
        /\ \A j \in 1 .. writer.i - 1 : copies[j] \in {O!Bad, O!Copy(writer.table)}
        /\ IF writer.success = 0 THEN fails >= writer.i - 1
           ELSE \E j \in 1 .. writer.i - 1 : copies[j] = O!Copy(writer.table)

\* The update has taken a table and the image before the block it is at is in it
Started ==
    \/ ota.pc \in {"first", "data", "pages", "final"}
    \/ ota.pc = "receive" /\ ota.cur > 1
    \/ ota.pc = "reset" /\ ota.cur > 0
Ended == ota.pc \in {"final", "reset"}
NewBlocks == ota.table[O!Target].blocks

Position ==
    /\ ota.pc \in {"receive", "data", "pages"} => ota.cur > 0
    /\ ota.pc \in {"table", "first"} => ota.cur = 1
    /\ ota.pc = "final" => ota.cur = Length
    /\ ota.pc = "pages" => ota.block \in O!Free(ota.table)

Received ==
    Started =>
        /\ Len(NewBlocks) = IF Ended THEN Length ELSE ota.cur - 1
        /\ ota.table[O!Target].magic <=> Ended
        /\ Ended => ota.sum
        /\ ota.sum => \A k \in 1 .. Len(NewBlocks) : content[NewBlocks[k]] = <<ota.version, k>>

\* Once the table is written with the whole image, the boot loader finds it.
Announced ==
    ota.pc = "reset" /\ ota.cur > 0 /\ MaxFails < Copies =>
        O!ValidCopies # {} /\ copies[O!Least(O!ValidCopies)].table = ota.table

\* As long as nothing of events has happened: the copies are in the first two
\* blocks, each of them is good, and one can be read while the other is rewritten.
GoodCopies ==
    events = {} =>
        /\ BadCopies = {} /\ O!ValidCopies # {} /\ O!ValidCopies \subseteq {1, 2}
        /\ \A i \in O!ValidCopies : Good(content, copies[i].table)
        /\ tool.pc = "write" => Good(content, tool.table)
        /\ ota.pc \in {"first", "final"} => Good(content, ota.table)

OneStands ==
    events = {} =>
        /\ writer.pc # "off" => /\ writer.i \in {1, 2} /\ writer.success = writer.i - 1
                                /\ 3 - writer.i \in O!ValidCopies
        /\ writer.pc = "off" /\ Started => {1, 2} \subseteq O!ValidCopies

\* While blocks are written, both copies have the image that runs and nothing else.
OldOnly ==
    events = {} /\ writer.pc = "off" /\ Started /\ ota.pc \notin {"first", "reset"} =>
        \A i \in {1, 2} : copies[i].table = [ota.table EXCEPT ![O!Target] = O!NoRecord]

\* With every block bad there is no table to read.
Readable == events = {} \/ MaxFails < Copies

NandSafe ==
    /\ NandTypes /\ FewBad /\ WriterOwned /\ CopiesWritten /\ Position /\ Received /\ Announced
    /\ GoodCopies /\ OneStands /\ OldOnly

NandInv == Readable => NandSafe

LEMMA NoTableType == O!NoRecord \in [magic : BOOLEAN, blocks : Seq(1 .. Blocks)] /\ O!NoTable \in O!Table
  BY EmptySeq DEF O!NoTable, O!NoRecord, O!Table

LEMMA RestTypes ==
    O!OtaNandAssumption =>
        /\ O!NoWriter \in WriterStates /\ O!Idle \in OtaStates /\ O!NoTool \in ToolStates
        /\ O!Blank \in CopyStates /\ O!Bad \in CopyStates
        /\ \A t \in O!Table : O!Copy(t) \in CopyStates
  BY NoTableType DEF O!NoWriter, O!Idle, O!NoTool, O!Blank, O!Bad, O!Copy, WriterStates,
     OtaStates, ToolStates, CopyStates, O!OtaNandAssumption

LEMMA LeastIs ==
    ASSUME NEW M \in SUBSET (1 .. Copies), M # {}, O!OtaNandAssumption
    PROVE  O!Least(M) \in M /\ \A j \in M : O!Least(M) <= j
  <1>1. M \in SUBSET Nat
    BY DEF O!OtaNandAssumption
  <1>2. \E i \in M : \A j \in M : i <= j
    BY <1>1, LeastNatural
  <1> QED BY <1>2 DEF O!Least

\* The first copies that can be read, while there are no others than the first two
LEMMA LeastOfTwo ==
    ASSUME O!OtaNandAssumption, O!ValidCopies \subseteq {1, 2}, O!ValidCopies # {}
    PROVE  /\ O!Least(O!ValidCopies) \in O!ValidCopies
           /\ 1 \in O!ValidCopies => O!Least(O!ValidCopies) = 1
           /\ O!TwoCopies => /\ 1 \in O!ValidCopies /\ 2 \in O!ValidCopies
                           /\ O!Least(O!ValidCopies \ {O!Least(O!ValidCopies)}) = 2
  <1> DEFINE M == O!ValidCopies
             m == O!Least(M)
  <1>1. M \in SUBSET (1 .. Copies)
    BY DEF O!ValidCopies
  <1>2. m \in M /\ \A j \in M : m <= j
    BY <1>1, LeastIs
  <1>3. m \in {1, 2}
    BY <1>2
  <1>4. M \subseteq {1, 2} /\ (O!TwoCopies => \E j \in M : j # m)
    BY DEF O!TwoCopies
  <1> HIDE DEF m, M
  <1>5. 1 \in M => m = 1
    BY <1>2, <1>3
  <1>6. ASSUME O!TwoCopies PROVE 1 \in M /\ 2 \in M /\ O!Least(M \ {m}) = 2
    <2>1. PICK j \in M : j # m
      BY <1>4, <1>6
    <2>2. 1 \in M /\ 2 \in M
      BY <1>2, <1>3, <1>4, <2>1
    <2>3. M = {1, 2} /\ m = 1
      BY <1>4, <1>5, <2>2
    <2>5. M \ {m} = {2}
      BY <2>3
    <2>4. O!Least({2}) = 2
      BY DEF O!Least
    <2> QED BY <2>2, <2>4, <2>5
  <1> QED BY <1>2, <1>5, <1>6 DEF m, M

\* A table is as good as the blocks of its images.
LEMMA GoodKeeps ==
    ASSUME O!OtaNandAssumption, NEW t, NEW c, NEW e, Good(c, t), t \in O!Table,
           \A i \in O!Fw : \A k \in DOMAIN t[i].blocks : e[t[i].blocks[k]] = c[t[i].blocks[k]]
    PROVE  Good(e, t)
  <1>1. ASSUME NEW i \in O!Fw, Complete(c, t[i]) PROVE Complete(e, t[i])
    <2>1. t[i].blocks \in Seq(1 .. Blocks)
      BY DEF O!Table
    <2>2. Len(t[i].blocks) = Length => \A k \in 1 .. Length : k \in DOMAIN t[i].blocks
      BY <2>1
    <2> QED BY <1>1, <2>2 DEF Complete
  <1> QED BY <1>1 DEF Good

\* Not every block for copies has failed.
LEMMA SomeNotBad ==
    ASSUME O!OtaNandAssumption, NandTypes, FewBad, Readable, GoodCopies
    PROVE  {i \in 1 .. Copies : copies[i].tag # "bad"} # {}
  <1>1. CASE events = {}
    BY <1>1 DEF GoodCopies, BadCopies, O!OtaNandAssumption
  <1>2. CASE MaxFails < Copies
    <2>1. SUFFICES ASSUME \A i \in 1 .. Copies : copies[i].tag = "bad" PROVE FALSE
      OBVIOUS
    <2>2. BadCopies = 1 .. Copies
      BY <2>1 DEF BadCopies
    <2>3. Cardinality(1 .. Copies) = Copies
      BY FS_Interval DEF O!OtaNandAssumption
    <2> QED BY <1>2, <2>2, <2>3 DEF NandTypes, FewBad, O!OtaNandAssumption
  <1> QED BY <1>1, <1>2 DEF Readable

LEMMA BadFinite == O!OtaNandAssumption => IsFiniteSet(BadCopies)
  <1>1. O!OtaNandAssumption => IsFiniteSet(1 .. Copies)
    BY FS_Interval DEF O!OtaNandAssumption
  <1>2. BadCopies \subseteq 1 .. Copies
    BY DEF BadCopies
  <1> QED BY <1>1, <1>2, FS_Subset

LEMMA NandBegin == ASSUME O!OtaNandAssumption, O!Init PROVE NandSafe
  <1>1. PICK v \in Version, two \in BOOLEAN :
          LET image(i) == [magic |-> TRUE, blocks |-> [k \in 1 .. Length |-> (i - 1) * Length + k]]
              t == [i \in O!Fw |-> IF i = 1 \/ two THEN image(i) ELSE O!NoRecord]
          IN  /\ copies = [i \in 1 .. Copies |-> IF i <= 2 THEN O!Copy(t) ELSE O!Blank]
              /\ content = [b \in 1 .. Blocks |->
                               IF b <= Length THEN <<v, b>>
                               ELSE IF two /\ b <= 2 * Length THEN <<v, b - Length>>
                               ELSE NoVersion]
    BY DEF O!Init
  <1> DEFINE first == [k \in 1 .. Length |-> k]
             second == [k \in 1 .. Length |-> Length + k]
             r1 == [magic |-> TRUE, blocks |-> first]
             r2 == [magic |-> TRUE, blocks |-> second]
             t == [i \in O!Fw |-> IF i = 1 THEN r1 ELSE IF two THEN r2 ELSE O!NoRecord]
  <1>2. /\ copies = [i \in 1 .. Copies |-> IF i <= 2 THEN O!Copy(t) ELSE O!Blank]
        /\ O!Fw = {1, 2}
    <2> DEFINE image(i) == [magic |-> TRUE, blocks |-> [k \in 1 .. Length |-> (i - 1) * Length + k]]
    <2>1. (1 - 1) * Length = 0 /\ (2 - 1) * Length = Length
      BY DEF O!OtaNandAssumption
    <2>2. [k \in 1 .. Length |-> (1 - 1) * Length + k] = first
      BY <2>1 DEF O!OtaNandAssumption
    <2>3. [k \in 1 .. Length |-> (2 - 1) * Length + k] = second
      BY <2>1
    <2>4. image(1) = r1 /\ image(2) = r2
      BY <2>2, <2>3
    <2> HIDE DEF image, r1, r2
    <2>5. [i \in O!Fw |-> IF i = 1 \/ two THEN image(i) ELSE O!NoRecord] = t
      BY <2>4 DEF O!Fw
    <2>6. copies = [i \in 1 .. Copies |->
                      IF i <= 2 THEN O!Copy([j \in O!Fw |-> IF j = 1 \/ two THEN image(j) ELSE O!NoRecord])
                      ELSE O!Blank]
      BY <1>1 DEF image
    <2> QED BY <2>5, <2>6 DEF O!Fw
  <1>3. first \in Seq(1 .. Blocks) /\ second \in Seq(1 .. Blocks) /\ Len(first) = Length /\ Len(second) = Length
    BY DEF O!OtaNandAssumption
  <1>4. t \in O!Table
    BY <1>2, <1>3, NoTableType DEF O!Table
  <1>5. Complete(content, r1) /\ (two => Complete(content, r2)) /\ r1.magic
    <2>1. \A k \in 1 .. Length : /\ k \in 1 .. Blocks /\ k <= Length
                                 /\ Length + k \in 1 .. Blocks /\ ~(Length + k <= Length)
                                 /\ Length + k <= 2 * Length /\ (Length + k) - Length = k
      BY DEF O!OtaNandAssumption
    <2>2. \A k \in 1 .. Length : content[r1.blocks[k]] = <<v, k>>
      BY <1>1, <2>1
    <2>3. two => \A k \in 1 .. Length : content[r2.blocks[k]] = <<v, k>>
      BY <1>1, <2>1
    <2> QED BY <1>3, <2>2, <2>3 DEF Complete
  <1>6. Good(content, t)
    BY <1>2, <1>5 DEF Good, Complete
  <1> HIDE DEF t
  <1>7. BadCopies = {} /\ O!ValidCopies = {1, 2}
    BY <1>2 DEF BadCopies, O!ValidCopies, O!Copy, O!Blank, O!OtaNandAssumption
  <1>8. content \in [1 .. Blocks -> BlockStates]
    BY <1>1 DEF O!OtaNandAssumption, BlockStates
  <1>9. NandTypes /\ FewBad
    <2>1. copies \in [1 .. Copies -> CopyStates]
      BY <1>2, <1>4, NoTableType DEF O!Copy, O!Blank, CopyStates
    <2>2. \A i \in 1 .. Copies : copies[i].tag = "blank" => copies[i].table = O!NoTable
      BY <1>2 DEF O!Copy, O!Blank
    <2>3. Cardinality(BadCopies) = 0
      BY <1>7, FS_EmptySet
    <2>4. /\ running \in 0 .. 2 /\ lock \in {"none", "ota", "tool"} /\ events \subseteq O!Event
          /\ fails = 0 /\ 0 \in 0 .. MaxFails /\ writer = O!NoWriter /\ ota = O!Idle /\ tool = O!NoTool
      BY DEF O!Init, O!OtaNandAssumption
    <2> QED BY <1>8, <2>1, <2>2, <2>3, <2>4, RestTypes DEF NandTypes, FewBad
  <1>10. GoodCopies
    <2>1. \A i \in O!ValidCopies : copies[i].table = t
      BY <1>2, <1>7 DEF O!Copy, O!OtaNandAssumption
    <2> QED BY <1>6, <1>7, <2>1 DEF GoodCopies, O!Init, O!Idle, O!NoTool
  <1>11. WriterOwned /\ CopiesWritten /\ Position /\ Received /\ Announced /\ OneStands /\ OldOnly
    BY DEF O!Init, WriterOwned, CopiesWritten, Position, Received, Announced, OneStands,
       OldOnly, Started, O!NoWriter, O!Idle, O!NoTool
  <1> QED BY <1>9, <1>10, <1>11 DEF NandSafe
LEMMA NandEraseCopy ==
    ASSUME O!OtaNandAssumption, NandSafe, O!EraseCopy, Readable
    PROVE  NandSafe'
  <1>1. NandTypes'
    <2>1. copies' \in [1 .. Copies -> CopyStates]
      BY RestTypes DEF NandSafe, NandTypes, O!EraseCopy
    <2>2. writer' \in WriterStates
      BY DEF NandSafe, NandTypes, O!EraseCopy, WriterStates
    <2>3. \A i \in 1 .. Copies : copies'[i].tag = "blank" => copies'[i].table = O!NoTable
      BY DEF NandSafe, NandTypes, O!EraseCopy, O!Blank
    <2> QED BY <2>1, <2>2, <2>3, RestTypes DEF NandSafe, NandTypes, O!EraseCopy
  <1>2. FewBad'
    <2>1. BadCopies' \subseteq BadCopies
      BY DEF NandSafe, NandTypes, O!EraseCopy, BadCopies, O!Blank
    <2>2. /\ IsFiniteSet(BadCopies) /\ Cardinality(BadCopies) \in Nat
          /\ Cardinality(BadCopies') \in Nat /\ Cardinality(BadCopies') <= Cardinality(BadCopies)
      BY <2>1, BadFinite, FS_Subset, FS_CardinalityType
    <2> QED BY <2>2 DEF NandSafe, NandTypes, FewBad, O!EraseCopy, O!OtaNandAssumption
  <1>3. WriterOwned'
    BY DEF NandSafe, WriterOwned, O!EraseCopy
  <1>4. CopiesWritten'
    BY DEF NandSafe, CopiesWritten, O!EraseCopy
  <1>5. Position'
    BY DEF NandSafe, Position, O!EraseCopy
  <1>6. Received'
    BY DEF NandSafe, Received, Started, Ended, NewBlocks, O!Target, O!Other, O!EraseCopy
  <1>7. Announced'
    BY DEF NandSafe, Announced, O!ValidCopies, NandTypes, OtaStates, WriterOwned,
       O!EraseCopy
  <1>8. GoodCopies'
    <2> SUFFICES ASSUME events = {} PROVE GoodCopies'
      BY DEF GoodCopies, O!EraseCopy
    <2>1. BadCopies' = {} /\ O!ValidCopies' = O!ValidCopies \ {writer.i}
      BY DEF NandSafe, NandTypes, GoodCopies, O!EraseCopy, BadCopies, O!ValidCopies, O!Blank
    <2>2. O!ValidCopies' # {}
      BY <2>1 DEF NandSafe, NandTypes, OneStands, O!EraseCopy
    <2>3. \A i \in O!ValidCopies' : copies'[i] = copies[i] /\ i \in O!ValidCopies
      BY <2>1 DEF NandSafe, NandTypes, O!EraseCopy, O!ValidCopies
    <2> QED BY <2>1, <2>2, <2>3 DEF NandSafe, GoodCopies, O!EraseCopy
  <1>9. OneStands'
    BY DEF NandSafe, OneStands, Started, O!ValidCopies, O!EraseCopy
  <1>10. OldOnly'
    BY DEF NandSafe, OldOnly, O!EraseCopy
  <1> QED BY <1>1, <1>2, <1>3, <1>4, <1>5, <1>6, <1>7, <1>8, <1>9, <1>10 DEF NandSafe

LEMMA NandProgramCopy ==
    ASSUME O!OtaNandAssumption, NandSafe, O!ProgramCopy, Readable
    PROVE  NandSafe'
  <1>1. PICK ok \in BOOLEAN :
           LET success == IF ok THEN writer.success + 1 ELSE writer.success
           IN  /\ ~ok => fails < MaxFails
               /\ copies' = [copies EXCEPT ![writer.i] = IF ok THEN O!Copy(writer.table) ELSE O!Bad]
               /\ fails' = IF ok THEN fails ELSE fails + 1
               /\ events' = IF ok THEN events ELSE events \cup {"failed"}
               /\ IF success = O!Enough \/ writer.i = Copies
                     THEN O!WriterDone
                     ELSE /\ writer' = [writer EXCEPT !.pc = "erase", !.i = @ + 1,
                                                      !.success = success]
                          /\ UNCHANGED <<lock, ota, tool>>
    <2>1. PICK ok \in {TRUE} \cup {fails = MaxFails} :
            LET success == IF ok THEN writer.success + 1 ELSE writer.success
            IN  /\ copies' = [copies EXCEPT ![writer.i] = IF ok THEN O!Copy(writer.table) ELSE O!Bad]
                /\ fails' = IF ok THEN fails ELSE fails + 1
                /\ events' = IF ok THEN events ELSE events \cup {"failed"}
                /\ IF success = O!Enough \/ writer.i = Copies
                      THEN O!WriterDone
                      ELSE /\ writer' = [writer EXCEPT !.pc = "erase", !.i = @ + 1,
                                                       !.success = success]
                           /\ UNCHANGED <<lock, ota, tool>>
      BY DEF O!ProgramCopy
    <2>2. ok \in BOOLEAN /\ (~ok => fails # MaxFails)
      OBVIOUS
    <2>3. ~ok => fails < MaxFails
      BY <2>2 DEF NandSafe, NandTypes, O!OtaNandAssumption
    <2> QED BY <2>1, <2>2, <2>3
  <1> DEFINE i == writer.i
             new == writer.table
             success == IF ok THEN writer.success + 1 ELSE writer.success
             done == success = 2 \/ i = Copies
  <1>2. /\ i \in 1 .. Copies /\ writer.success \in {0, 1} /\ new \in O!Table
        /\ fails \in 0 .. MaxFails /\ (~ok => fails < MaxFails) /\ Copies \in Nat /\ MaxFails \in Nat
        /\ copies \in [1 .. Copies -> CopyStates]
    BY <1>1 DEF O!ProgramCopy, NandSafe, NandTypes, WriterStates, CopiesWritten,
       O!OtaNandAssumption
  <1>3. /\ copies' = [copies EXCEPT ![i] = IF ok THEN O!Copy(new) ELSE O!Bad]
        /\ fails' = IF ok THEN fails ELSE fails + 1
        /\ events' = IF ok THEN events ELSE events \cup {"failed"}
        /\ content' = content /\ running' = running
    BY <1>1 DEF O!ProgramCopy
  <1>4. ASSUME done
        PROVE  /\ writer' = O!NoWriter /\ lock' = "none" /\ writer'.pc = "off"
               /\ IF lock = "tool" THEN tool' = O!NoTool /\ ota' = ota
                  ELSE /\ ota' = [ota EXCEPT !.pc = IF ota.pc = "first" THEN "data" ELSE "reset"]
                       /\ tool' = tool
    BY <1>1, <1>4 DEF O!WriterDone, O!Enough, O!NoWriter
  <1>5. ASSUME ~done
        PROVE  /\ writer' = [writer EXCEPT !.pc = "erase", !.i = @ + 1, !.success = success]
               /\ lock' = lock /\ ota' = ota /\ tool' = tool
    BY <1>1, <1>5 DEF O!Enough
  <1>6. ~done => /\ writer'.pc = "erase" /\ writer'.i = i + 1 /\ writer'.success = success
                 /\ writer'.table = new /\ success \in {0, 1} /\ i + 1 \in 1 .. Copies
    <2>1. success \in {0, 1, 2}
      BY <1>2
    <2> SUFFICES ASSUME ~done
                 PROVE  /\ writer'.pc = "erase" /\ writer'.i = i + 1 /\ writer'.success = success
                        /\ writer'.table = new /\ success \in {0, 1} /\ i + 1 \in 1 .. Copies
      OBVIOUS
    <2>2. writer \in WriterStates
      BY DEF NandSafe, NandTypes
    <2>3. success \in {0, 1} /\ i + 1 \in 1 .. Copies
      BY <1>2, <2>1
    <2> QED BY <1>5, <2>2, <2>3 DEF WriterStates
  <1>7. /\ copies'[i] = IF ok THEN O!Copy(new) ELSE O!Bad
        /\ \A j \in 1 .. Copies : j # i => copies'[j] = copies[j]
    BY <1>2, <1>3
  <1>8. \/ lock = "tool" /\ tool.pc = "write" /\ ota.pc = "idle" /\ new = tool.table
        \/ lock = "ota" /\ ota.pc \in {"first", "final"} /\ tool.pc = "idle" /\ new = ota.table
    BY DEF O!ProgramCopy, NandSafe, NandTypes, ToolStates, OtaStates, WriterOwned
  <1>9. done /\ lock # "tool" =>
           /\ ota'.pc = IF ota.pc = "first" THEN "data" ELSE "reset"
           /\ ota'.table = ota.table /\ ota'.cur = ota.cur /\ ota'.sum = ota.sum
           /\ ota'.version = ota.version /\ ota'.block = ota.block /\ tool'.pc = "idle"
    BY <1>4, <1>8 DEF NandSafe, NandTypes, OtaStates
  <1>10. done /\ lock = "tool" => ota' = ota /\ tool'.pc = "idle" /\ ota'.pc = "idle"
    BY <1>4, <1>8 DEF O!NoTool
  <1>11. \A j \in 1 .. i - 1 : copies[j] \in {O!Bad, O!Copy(new)} /\ j \in 1 .. Copies /\ copies'[j] = copies[j]
    BY <1>2, <1>7 DEF O!ProgramCopy, NandSafe, CopiesWritten
  <1>12. IF writer.success = 0 THEN fails >= i - 1
         ELSE \E j \in 1 .. i - 1 : copies[j] = O!Copy(new)
    BY DEF O!ProgramCopy, NandSafe, CopiesWritten
  <1>13. events' = {} => events = {} /\ ok
    BY <1>3
  <1>14. events = {} => /\ i \in {1, 2} /\ writer.success = i - 1 /\ 3 - i \in O!ValidCopies
    BY DEF O!ProgramCopy, NandSafe, OneStands
  <1>15. events' = {} => (done <=> i = 2)
    BY <1>2, <1>13, <1>14 DEF O!OtaNandAssumption
  <1>16. events' = {} => BadCopies' = {} /\ O!ValidCopies' = O!ValidCopies \cup {i}
    <2> SUFFICES ASSUME events' = {} PROVE BadCopies' = {} /\ O!ValidCopies' = O!ValidCopies \cup {i}
      OBVIOUS
    <2>1. BadCopies = {} /\ copies'[i].tag = "table"
      BY <1>7, <1>13 DEF NandSafe, GoodCopies, O!Copy
    <2> HIDE DEF i
    <2> QED BY <1>2, <1>7, <2>1 DEF BadCopies, O!ValidCopies
  <1>17. events' = {} /\ done => O!ValidCopies' = {1, 2} /\ copies'[1] = O!Copy(new) /\ copies'[2] = O!Copy(new)
    <2> SUFFICES ASSUME events' = {}, done
                 PROVE O!ValidCopies' = {1, 2} /\ copies'[1] = O!Copy(new) /\ copies'[2] = O!Copy(new)
      OBVIOUS
    <2>1. i = 2 /\ writer.success = 1 /\ 1 \in O!ValidCopies
      BY <1>13, <1>14, <1>15
    <2>2. copies[1] = O!Copy(new) /\ copies'[1] = copies[1]
      BY <1>2, <1>11, <1>12, <2>1
    <2>3. O!ValidCopies \subseteq {1, 2}
      BY <1>13 DEF NandSafe, GoodCopies
    <2> QED BY <1>7, <1>13, <1>16, <2>1, <2>2, <2>3
  <1> HIDE DEF i, new, done, success
  <1>18. NandTypes'
    <2>1. (IF ok THEN O!Copy(new) ELSE O!Bad) \in CopyStates
      BY <1>2, RestTypes
    <2>2. copies' \in [1 .. Copies -> CopyStates]
      BY <1>2, <1>3, <2>1
    <2>3. \A j \in 1 .. Copies : copies'[j].tag = "blank" => copies'[j].table = O!NoTable
      BY <1>2, <1>7 DEF NandSafe, NandTypes, O!Copy, O!Bad
    <2>4. writer' \in WriterStates
      <3>1. writer \in WriterStates /\ (i + 1 \in 1 .. Copies => i + 1 \in 0 .. Copies)
        BY <1>2 DEF NandSafe, NandTypes
      <3>2. CASE ~done
        <4>1. writer.i + 1 \in 0 .. Copies /\ success \in 0 .. 1
          BY <1>2, <1>6, <3>2 DEF i
        <4> QED BY <1>5, <3>1, <3>2, <4>1 DEF WriterStates
      <3> QED BY <1>4, <3>2, RestTypes
    <2>5. ota' \in OtaStates
      BY <1>4, <1>5 DEF NandSafe, NandTypes, OtaStates
    <2>6. tool' \in ToolStates /\ lock' \in {"none", "ota", "tool"}
      BY <1>4, <1>5, RestTypes DEF NandSafe, NandTypes
    <2>7. events' \subseteq O!Event /\ fails' \in 0 .. MaxFails
      BY <1>2, <1>3 DEF NandSafe, NandTypes, O!Event
    <2> QED BY <1>3, <2>2, <2>3, <2>4, <2>5, <2>6, <2>7 DEF NandSafe, NandTypes
  <1>19. FewBad'
    <2>1. IsFiniteSet(BadCopies) /\ Cardinality(BadCopies) \in Nat
      BY BadFinite, FS_CardinalityType
    <2>2. CASE ok
      <3>1. BadCopies' \subseteq BadCopies
        BY <1>2, <1>7, <2>2 DEF BadCopies, O!Copy
      <3>2. Cardinality(BadCopies') \in Nat /\ Cardinality(BadCopies') <= Cardinality(BadCopies)
        BY <2>1, <3>1, FS_Subset, FS_CardinalityType
      <3> QED BY <1>2, <1>3, <2>1, <2>2, <3>2 DEF NandSafe, FewBad
    <2>3. CASE ~ok
      <3>1. BadCopies' = BadCopies \cup {i}
        BY <1>2, <1>7, <2>3 DEF BadCopies, O!Bad
      <3>2. Cardinality(BadCopies') <= Cardinality(BadCopies) + 1 /\ Cardinality(BadCopies') \in Nat
        <4>1. /\ IsFiniteSet(BadCopies \cup {i})
              /\ Cardinality(BadCopies \cup {i}) = IF i \in BadCopies THEN Cardinality(BadCopies)
                                                   ELSE Cardinality(BadCopies) + 1
          BY <2>1, FS_AddElement
        <4> QED BY <2>1, <3>1, <4>1
      <3> QED BY <1>2, <1>3, <2>1, <2>3, <3>2 DEF NandSafe, FewBad
    <2> QED BY <2>2, <2>3
  <1>20. WriterOwned'
    <2>1. CASE done
      BY <1>3, <1>4, <1>8, <1>9, <1>10, <2>1 DEF NandSafe, WriterOwned
    <2>2. CASE ~done
      BY <1>3, <1>5, <1>6, <1>8, <2>2 DEF NandSafe, WriterOwned
    <2> QED BY <2>1, <2>2
  <1>21. CopiesWritten'
    <2>1. CASE done
      BY <1>4, <2>1 DEF CopiesWritten
    <2>2. CASE ~done
      <3>1. writer'.i - 1 = i /\ \A j \in 1 .. i : j = i \/ j \in 1 .. i - 1
        BY <1>2, <1>6, <2>2
      <3>2. \A j \in 1 .. i : copies'[j] \in {O!Bad, O!Copy(new)}
        BY <1>7, <1>11, <3>1
      <3>3. success = 0 => fails' >= i
        BY <1>2, <1>3, <1>12 DEF success
      <3>4. success # 0 => \E j \in 1 .. i : copies'[j] = O!Copy(new)
        <4>1. CASE ok
          BY <1>2, <1>7, <4>1
        <4>2. CASE ~ok
          BY <1>2, <1>11, <1>12, <4>2 DEF success
        <4> QED BY <4>1, <4>2
      <3> QED BY <1>6, <2>2, <3>1, <3>2, <3>3, <3>4 DEF CopiesWritten
    <2> QED BY <2>1, <2>2
  <1>22. Position'
    <2>1. CASE done
      BY <1>8, <1>9, <1>10, <2>1 DEF NandSafe, Position
    <2>2. CASE ~done
      BY <1>5, <2>2 DEF NandSafe, Position, O!Free, O!Taken
    <2> QED BY <2>1, <2>2
  <1>23. Received'
    <2>1. CASE done /\ lock # "tool"
      <3>1. Started /\ (Ended <=> Ended') /\ NewBlocks' = NewBlocks /\ O!Target' = O!Target
        BY <1>3, <1>8, <1>9, <2>1 DEF Started, Ended, NewBlocks, O!Target
      <3> QED BY <1>3, <1>9, <2>1, <3>1 DEF NandSafe, Received
    <2>2. CASE done /\ lock = "tool"
      BY <1>10, <2>2 DEF Received, Started
    <2>3. CASE ~done
      BY <1>3, <1>5, <2>3 DEF NandSafe, Received, Started, Ended, NewBlocks, O!Target
    <2> QED BY <2>1, <2>2, <2>3
  <1>24. Announced'
    <2> SUFFICES ASSUME ota'.pc = "reset", MaxFails < Copies
                 PROVE  O!ValidCopies' # {} /\ copies'[O!Least(O!ValidCopies')].table = ota'.table
      BY DEF Announced
    <2>1. done /\ lock # "tool" /\ ota'.table = new
      BY <1>5, <1>8, <1>9, <1>10
    <2>2. \A j \in 1 .. i : copies'[j] \in {O!Bad, O!Copy(new)}
      <3>1. \A j \in 1 .. i : j = i \/ j \in 1 .. i - 1
        BY <1>2
      <3> QED BY <1>7, <1>11, <3>1
    <2>3. \E j \in 1 .. i : copies'[j] = O!Copy(new)
      <3>1. CASE ok
        BY <1>2, <1>7, <3>1
      <3>2. CASE ~ok /\ writer.success # 0
        BY <1>2, <1>11, <1>12, <3>2
      <3>3. CASE ~ok /\ writer.success = 0
        <4>1. i = Copies /\ fails >= i - 1 /\ fails < MaxFails
          BY <1>2, <1>12, <2>1, <3>3 DEF done, success
        <4> QED BY <1>2, <4>1
      <3> QED BY <3>1, <3>2, <3>3
    <2>4. PICK j \in 1 .. i : copies'[j] = O!Copy(new)
      BY <2>3
    <2>5. O!ValidCopies' \in SUBSET (1 .. Copies) /\ j \in O!ValidCopies'
      BY <1>2, <2>4 DEF O!ValidCopies, O!Copy
    <2>6. /\ O!Least(O!ValidCopies') \in O!ValidCopies' /\ O!Least(O!ValidCopies') \in 1 .. Copies
          /\ O!Least(O!ValidCopies') <= j
      BY <2>5, LeastIs
    <2>7. copies'[O!Least(O!ValidCopies')].tag = "table" /\ O!Least(O!ValidCopies') \in 1 .. i
      BY <1>2, <2>5, <2>6 DEF O!ValidCopies
    <2> QED BY <2>1, <2>2, <2>5, <2>7 DEF O!Bad, O!Copy
  <1>25. GoodCopies'
    <2> SUFFICES ASSUME events' = {} PROVE GoodCopies'
      BY DEF GoodCopies
    <2>1. Good(content, new)
      BY <1>8, <1>13 DEF NandSafe, GoodCopies
    <2>2. O!ValidCopies' \subseteq {1, 2} /\ O!ValidCopies' # {} /\ BadCopies' = {}
      BY <1>13, <1>14, <1>16 DEF NandSafe, GoodCopies
    <2>3. ASSUME NEW j \in O!ValidCopies' PROVE Good(content, copies'[j].table)
      <3>1. CASE j = i
        BY <1>7, <1>13, <2>1, <3>1 DEF O!Copy
      <3>2. CASE j # i
        <4>1. j \in O!ValidCopies /\ j \in 1 .. Copies
          BY <1>16, <2>3, <3>2 DEF O!ValidCopies
        <4> QED BY <1>7, <1>13, <3>2, <4>1 DEF NandSafe, GoodCopies
      <3> QED BY <3>1, <3>2
    <2>4. tool'.pc # "write" \/ tool' = tool
      BY <1>5, <1>9, <1>10
    <2>5. ota'.pc \notin {"first", "final"} \/ ota' = ota
      BY <1>5, <1>9, <1>10
    <2> QED BY <1>3, <1>13, <2>2, <2>3, <2>4, <2>5 DEF NandSafe, GoodCopies
  <1>26. OneStands'
    <2> SUFFICES ASSUME events' = {} PROVE OneStands'
      BY DEF OneStands
    <2>1. CASE done
      BY <1>4, <1>17, <2>1 DEF OneStands
    <2>2. CASE ~done
      <3>1. i = 1 /\ writer.success = 0 /\ ok
        BY <1>13, <1>14, <1>15, <2>2
      <3>2. writer'.i = 2 /\ writer'.success = 1 /\ 1 \in O!ValidCopies'
        BY <1>6, <1>16, <2>2, <3>1 DEF success
      <3> QED BY <1>6, <2>2, <3>2 DEF OneStands
    <2> QED BY <2>1, <2>2
  <1>27. OldOnly'
    <2> SUFFICES ASSUME events' = {}, writer'.pc = "off", Started', ota'.pc \notin {"first", "reset"}
                 PROVE  \A j \in {1, 2} : copies'[j].table = [ota'.table EXCEPT ![O!Target'] = O!NoRecord]
      BY DEF OldOnly
    <2>1. done
      BY <1>6
    <2>2. lock # "tool" /\ ota.pc = "first" /\ ota'.table = new /\ new = ota.table
      BY <1>8, <1>9, <1>10, <2>1 DEF Started
    <2>3. O!Target' = O!Target /\ O!Target \in O!Fw
      BY <1>3, <2>2 DEF NandSafe, WriterOwned, O!Target, O!Other, O!Fw
    <2>4. new[O!Target] = O!NoRecord
      <3>1. new[O!Target].magic = FALSE /\ Len(new[O!Target].blocks) = 0
        <4>1. Started /\ ~Ended /\ ota.cur = 1 /\ NewBlocks = new[O!Target].blocks
          BY <2>2 DEF NandSafe, Position, Started, Ended, NewBlocks
        <4>2. Len(NewBlocks) = 0 /\ ~new[O!Target].magic
          BY <2>2, <4>1 DEF NandSafe, Received
        <4>3. new[O!Target].magic \in BOOLEAN
          BY <1>2, <2>3 DEF O!Table
        <4> QED BY <4>1, <4>2, <4>3
      <3>2. new[O!Target] \in [magic : BOOLEAN, blocks : Seq(1 .. Blocks)]
        BY <1>2, <2>3 DEF O!Table
      <3>3. new[O!Target].blocks = <<>>
        BY <3>1, <3>2, EmptySeq
      <3> QED BY <3>1, <3>2, <3>3 DEF O!NoRecord
    <2>5. [new EXCEPT ![O!Target] = O!NoRecord] = new
      BY <1>2, <2>3, <2>4 DEF O!Table
    <2> QED BY <1>17, <2>1, <2>2, <2>3, <2>5 DEF O!Copy
  <1> QED BY <1>18, <1>19, <1>20, <1>21, <1>22, <1>23, <1>24, <1>25, <1>26, <1>27 DEF
             NandSafe

LEMMA NandStart ==
    ASSUME O!OtaNandAssumption, NandSafe, NEW v \in Version, O!Start(v), Readable
    PROVE  NandSafe'
  <1>1. NandTypes'
    <2>1. ota \in OtaStates /\ O!Idle \in OtaStates /\ 0 \in 0 .. Length /\ 1 \in 0 .. Length
      BY RestTypes DEF NandSafe, NandTypes, O!OtaNandAssumption
    <2>2. ota' \in OtaStates
      BY <2>1 DEF O!Start, OtaStates
    <2> QED BY <2>1, <2>2, RestTypes DEF NandSafe, NandTypes, O!Start
  <1>2. FewBad'
    BY DEF NandSafe, FewBad, BadCopies, O!Start
  <1>3. WriterOwned'
    BY DEF NandSafe, NandTypes, WriterOwned, O!Start, O!Idle, OtaStates, O!Fw
  <1>4. CopiesWritten'
    BY DEF NandSafe, CopiesWritten, O!Start
  <1>5. Position'
    BY DEF NandSafe, Position, O!Start
  <1>6. Received'
    BY DEF NandSafe, Received, Started, Ended, NewBlocks, O!Target, O!Other, O!Start
  <1>7. Announced'
    BY DEF NandSafe, Announced, O!Start
  <1>8. GoodCopies'
    BY DEF NandSafe, GoodCopies, BadCopies, O!ValidCopies, O!Start
  <1>9. OneStands'
    BY DEF NandSafe, OneStands, Started, O!ValidCopies, O!Start
  <1>10. OldOnly'
    BY DEF NandSafe, OldOnly, Started, O!Target, O!Other, O!Start
  <1> QED BY <1>1, <1>2, <1>3, <1>4, <1>5, <1>6, <1>7, <1>8, <1>9, <1>10 DEF NandSafe

LEMMA NandReceive ==
    ASSUME O!OtaNandAssumption, NandSafe, O!Receive, Readable
    PROVE  NandSafe'
  <1>1. NandTypes'
    BY RestTypes DEF NandSafe, NandTypes, CopyStates, OtaStates, O!Receive
  <1>2. FewBad'
    BY DEF NandSafe, FewBad, BadCopies, O!Receive
  <1>3. WriterOwned'
    BY DEF NandSafe, WriterOwned, O!Receive
  <1>4. CopiesWritten'
    BY DEF NandSafe, CopiesWritten, O!Receive
  <1>5. Position'
    BY DEF NandSafe, Position, O!Receive
  <1>6. Received'
    <2>1. Started' => Started /\ ~Ended /\ ~Ended'
      BY DEF NandSafe, NandTypes, OtaStates, Position, O!Receive, Started, Ended,
         O!OtaNandAssumption
    <2> QED BY <2>1 DEF NandSafe, NandTypes, OtaStates, Received, O!Receive, NewBlocks,
               O!Target, O!Other, Ended
  <1>7. Announced'
    BY DEF NandSafe, Announced, O!Receive
  <1>8. GoodCopies'
    BY DEF NandSafe, GoodCopies, BadCopies, O!ValidCopies, O!Receive
  <1>9. OneStands'
    <2>1. Started' => Started /\ ~Ended /\ ~Ended'
      BY DEF NandSafe, NandTypes, OtaStates, Position, O!Receive, Started, Ended,
         O!OtaNandAssumption
    <2> QED BY <2>1 DEF NandSafe, OneStands, O!Receive, O!ValidCopies
  <1>10. OldOnly'
    <2>1. Started' => Started /\ ~Ended /\ ~Ended'
      BY DEF NandSafe, NandTypes, OtaStates, Position, O!Receive, Started, Ended,
         O!OtaNandAssumption
    <2> QED BY <2>1 DEF NandSafe, NandTypes, OtaStates, OldOnly, O!Receive, O!Target,
               O!Other, Started
  <1> QED BY <1>1, <1>2, <1>3, <1>4, <1>5, <1>6, <1>7, <1>8, <1>9, <1>10 DEF NandSafe

LEMMA NandBroken ==
    ASSUME O!OtaNandAssumption, NandSafe, O!Broken, Readable
    PROVE  NandSafe'
  <1>1. NandTypes'
    <2>1. ota \in OtaStates /\ O!Idle \in OtaStates /\ 0 \in 0 .. Length /\ 1 \in 0 .. Length
      BY RestTypes DEF NandSafe, NandTypes, O!OtaNandAssumption
    <2>2. ota' \in OtaStates
      BY <2>1 DEF O!Broken, OtaStates
    <2> QED BY <2>1, <2>2, RestTypes DEF NandSafe, NandTypes, O!Broken
  <1>2. FewBad'
    BY DEF NandSafe, FewBad, BadCopies, O!Broken
  <1>3. WriterOwned'
    BY DEF NandSafe, WriterOwned, O!Broken, O!NoWriter, O!Idle, O!NoTool
  <1>4. CopiesWritten'
    BY DEF NandSafe, CopiesWritten, O!Broken
  <1>5. Position'
    BY DEF NandSafe, Position, O!Broken, O!NoWriter, O!Idle, O!NoTool
  <1>6. Received'
    BY DEF NandSafe, Received, Started, Ended, NewBlocks, O!Target, O!Other, O!Broken,
       O!NoWriter, O!Idle, O!NoTool
  <1>7. Announced'
    BY DEF NandSafe, Announced, O!Broken, O!NoWriter, O!Idle, O!NoTool
  <1>8. GoodCopies'
    BY DEF NandSafe, GoodCopies, BadCopies, O!ValidCopies, O!Broken, O!NoWriter, O!Idle,
       O!NoTool
  <1>9. OneStands'
    BY DEF NandSafe, OneStands, Started, O!ValidCopies, O!Broken, O!NoWriter, O!Idle,
       O!NoTool
  <1>10. OldOnly'
    BY DEF NandSafe, OldOnly, Started, O!Target, O!Other, O!Broken, O!NoWriter, O!Idle,
       O!NoTool
  <1> QED BY <1>1, <1>2, <1>3, <1>4, <1>5, <1>6, <1>7, <1>8, <1>9, <1>10 DEF NandSafe

LEMMA NandReadTable ==
    ASSUME O!OtaNandAssumption, NandSafe, O!ReadTable, Readable
    PROVE  NandSafe'
  <1> DEFINE t == copies[O!Least(O!ValidCopies \ {O!Least(O!ValidCopies)})].table
  <1>1. t \in O!Table /\ O!Target \in O!Fw /\ running \in O!Fw /\ O!Target # running
    <2>1. O!ValidCopies \in SUBSET (1 .. Copies)
      BY DEF O!ValidCopies
    <2>2. O!ValidCopies \ {O!Least(O!ValidCopies)} # {}
      BY DEF O!ReadTable, O!TwoCopies
    <2>3. O!Least(O!ValidCopies \ {O!Least(O!ValidCopies)}) \in 1 .. Copies
      BY <2>1, <2>2, LeastIs
    <2> QED BY <2>3 DEF NandSafe, NandTypes, CopyStates, WriterOwned, O!ReadTable, O!Target,
               O!Other, O!Fw
  <1> HIDE DEF t
  <1>2. ota' = [ota EXCEPT !.pc = "first", !.table = [t EXCEPT ![O!Target] = O!NoRecord]]
    BY DEF O!ReadTable, O!Cleared, t
  <1>3. NandTypes'
    <2>1. [t EXCEPT ![O!Target] = O!NoRecord] \in O!Table
      BY <1>1, NoTableType DEF O!Table
    <2>2. ota' \in OtaStates
      BY <1>2, <2>1 DEF NandSafe, NandTypes, OtaStates
    <2>3. events' \subseteq O!Event
      BY DEF O!ReadTable, O!Event, NandSafe, NandTypes
    <2> QED BY <2>1, <2>2, <2>3, RestTypes DEF NandSafe, NandTypes, O!ReadTable
  <1>4. FewBad'
    BY DEF NandSafe, FewBad, BadCopies, O!ReadTable, O!Cleared
  <1>5. WriterOwned'
    BY DEF NandSafe, WriterOwned, O!ReadTable
  <1>6. CopiesWritten'
    BY DEF NandSafe, CopiesWritten, O!ReadTable
  <1>7. Position'
    BY DEF NandSafe, Position, O!ReadTable
  <1>8. Received'
    <2>1. ota'.pc = "first" /\ ota'.table[O!Target] = O!NoRecord /\ ota'.cur = ota.cur /\ ota.cur = 1
      BY <1>1, <1>2 DEF NandSafe, NandTypes, OtaStates, Position, O!ReadTable, O!Table
    <2>2. NewBlocks' = <<>> /\ ~ota'.table[O!Target'].magic /\ ~Ended'
      BY <2>1 DEF NewBlocks, O!Target, O!Other, O!NoRecord, Ended, O!ReadTable
    <2>3. Len(NewBlocks') = 0 /\ 1 .. Len(NewBlocks') = {}
      BY <2>2
    <2> QED BY <2>1, <2>2, <2>3 DEF Received
  <1>9. Announced'
    BY DEF NandSafe, Announced, O!ReadTable
  <1>10. GoodCopies'
    <2> SUFFICES ASSUME events' = {} PROVE GoodCopies'
      BY DEF GoodCopies
    <2>1. events = {} /\ t[running].magic
      BY DEF O!ReadTable, t
    <2>2. Good(content, t)
      BY <2>1, LeastOfTwo DEF NandSafe, GoodCopies, O!ReadTable, t
    <2>3. Good(content, [t EXCEPT ![O!Target] = O!NoRecord])
      BY <1>1, <2>1, <2>2 DEF Good, Complete, O!Table
    <2>4. ota'.pc = "first" /\ ota'.table = [t EXCEPT ![O!Target] = O!NoRecord]
      BY <1>2 DEF NandSafe, NandTypes, OtaStates
    <2> QED BY <2>1, <2>3, <2>4 DEF NandSafe, GoodCopies, O!ReadTable, BadCopies,
               O!ValidCopies
  <1>11. OneStands'
    <2>1. events' = {} => events = {} /\ {1, 2} \subseteq O!ValidCopies
      BY LeastOfTwo DEF NandSafe, GoodCopies, O!ReadTable
    <2> QED BY <2>1 DEF NandSafe, OneStands, O!ReadTable, O!ValidCopies
  <1>12. OldOnly'
    BY DEF NandSafe, OldOnly, O!ReadTable
  <1> QED BY <1>3, <1>4, <1>5, <1>6, <1>7, <1>8, <1>9, <1>10, <1>11, <1>12 DEF NandSafe

LEMMA NandReadTableFails ==
    ASSUME O!OtaNandAssumption, NandSafe, O!ReadTableFails, Readable
    PROVE  NandSafe'
  <1>1. NandTypes'
    BY RestTypes DEF NandSafe, NandTypes, O!ReadTableFails
  <1>2. FewBad'
    BY DEF NandSafe, FewBad, BadCopies, O!ReadTableFails
  <1>3. WriterOwned'
    BY DEF NandSafe, WriterOwned, O!ReadTableFails, O!NoWriter, O!Idle, O!NoTool
  <1>4. CopiesWritten'
    BY DEF NandSafe, CopiesWritten, O!ReadTableFails
  <1>5. Position'
    BY DEF NandSafe, Position, O!ReadTableFails, O!NoWriter, O!Idle, O!NoTool
  <1>6. Received'
    BY DEF NandSafe, Received, Started, Ended, NewBlocks, O!Target, O!Other,
       O!ReadTableFails, O!NoWriter, O!Idle, O!NoTool
  <1>7. Announced'
    BY DEF NandSafe, Announced, O!ReadTableFails, O!NoWriter, O!Idle, O!NoTool
  <1>8. GoodCopies'
    BY DEF NandSafe, GoodCopies, BadCopies, O!ValidCopies, O!ReadTableFails, O!NoWriter,
       O!Idle, O!NoTool
  <1>9. OneStands'
    BY DEF NandSafe, OneStands, Started, O!ValidCopies, O!ReadTableFails, O!NoWriter,
       O!Idle, O!NoTool
  <1>10. OldOnly'
    BY DEF NandSafe, OldOnly, Started, O!Target, O!Other, O!ReadTableFails, O!NoWriter,
       O!Idle, O!NoTool
  <1> QED BY <1>1, <1>2, <1>3, <1>4, <1>5, <1>6, <1>7, <1>8, <1>9, <1>10 DEF NandSafe

LEMMA NandOtaWriteTable ==
    ASSUME O!OtaNandAssumption, NandSafe, O!OtaWriteTable, Readable
    PROVE  NandSafe'
  <1>1. NandTypes'
    <2>1. writer' \in WriterStates
      BY DEF NandSafe, NandTypes, O!OtaWriteTable, O!WriteTable, WriterStates, OtaStates,
         O!OtaNandAssumption
    <2> QED BY <2>1, RestTypes DEF NandSafe, NandTypes, O!OtaWriteTable, O!WriteTable
  <1>2. FewBad'
    BY DEF NandSafe, FewBad, BadCopies, O!OtaWriteTable, O!WriteTable
  <1>3. WriterOwned'
    BY DEF NandSafe, WriterOwned, O!OtaWriteTable, O!WriteTable
  <1>4. CopiesWritten'
    <2>1. writer'.i = 1 /\ writer'.success = 0 /\ 1 .. writer'.i - 1 = {} /\ fails' = fails
      BY DEF O!OtaWriteTable, O!WriteTable
    <2> QED BY <2>1 DEF NandSafe, NandTypes, CopiesWritten, O!OtaNandAssumption
  <1>5. Position'
    BY DEF NandSafe, Position, O!OtaWriteTable
  <1>6. Received'
    BY DEF NandSafe, Received, Started, Ended, NewBlocks, O!Target, O!Other,
       O!OtaWriteTable, O!WriteTable
  <1>7. Announced'
    BY DEF NandSafe, Announced, O!OtaWriteTable
  <1>8. GoodCopies'
    BY DEF NandSafe, GoodCopies, BadCopies, O!ValidCopies, O!OtaWriteTable, O!WriteTable
  <1>9. OneStands'
    BY DEF NandSafe, OneStands, Started, O!ValidCopies, NandTypes, OtaStates, WriterOwned,
       O!OtaWriteTable, O!WriteTable
  <1>10. OldOnly'
    BY DEF NandSafe, OldOnly, O!OtaWriteTable, O!WriteTable
  <1> QED BY <1>1, <1>2, <1>3, <1>4, <1>5, <1>6, <1>7, <1>8, <1>9, <1>10 DEF NandSafe

LEMMA NandEraseData ==
    ASSUME O!OtaNandAssumption, NandSafe, O!EraseData, Readable
    PROVE  NandSafe'
  <1> DEFINE b == O!Least(O!Candidates)
  <1>1. b \in O!Free(ota.table) /\ b \in 1 .. Blocks
    <2>1. O!Candidates \in SUBSET Nat /\ O!Candidates \subseteq 1 .. Blocks /\ O!Candidates # {}
      BY DEF O!Candidates, O!Free, O!EraseData
    <2>2. \E i \in O!Candidates : \A j \in O!Candidates : i <= j
      BY <2>1, LeastNatural
    <2>3. b \in O!Candidates
      BY <2>2 DEF O!Least
    <2> QED BY <2>1, <2>3 DEF O!Candidates
  <1> HIDE DEF b
  <1>2. /\ content' = [content EXCEPT ![b] = NoVersion]
        /\ ota' = [ota EXCEPT !.pc = "pages", !.block = b]
    BY DEF O!EraseData, b
  <1>3. /\ running \in O!Fw /\ O!Target \in O!Fw /\ ota.table \in O!Table /\ O!Target' = O!Target
        /\ ota'.pc = "pages" /\ ota'.block = b /\ ota'.table = ota.table
        /\ ota'.cur = ota.cur /\ ota'.sum = ota.sum /\ ota'.version = ota.version
    <2>1. ota \in OtaStates /\ running \in O!Fw /\ running' = running
      BY DEF NandSafe, NandTypes, WriterOwned, O!EraseData
    <2> QED BY <1>2, <2>1 DEF OtaStates, O!Target, O!Other, O!Fw
  <1>4. \A i \in O!Fw : \A k \in DOMAIN ota.table[i].blocks :
           content'[ota.table[i].blocks[k]] = content[ota.table[i].blocks[k]]
    BY <1>1, <1>2 DEF NandSafe, NandTypes, O!Free, O!Taken
  <1>5. NandTypes'
    <2>1. ota \in OtaStates /\ b \in 0 .. Blocks
      BY <1>1 DEF NandSafe, NandTypes, O!OtaNandAssumption
    <2>2. ota' \in OtaStates
      BY <1>2, <2>1 DEF OtaStates
    <2>3. content' \in [1 .. Blocks -> BlockStates]
      BY <1>1, <1>2 DEF NandSafe, NandTypes, BlockStates
    <2> QED BY <2>1, <2>2, <2>3, RestTypes DEF NandSafe, NandTypes, O!EraseData
  <1>6. FewBad'
    BY DEF NandSafe, FewBad, BadCopies, O!EraseData, O!Candidates
  <1>7. WriterOwned'
    BY DEF NandSafe, WriterOwned, O!EraseData
  <1>8. CopiesWritten'
    BY DEF NandSafe, CopiesWritten, O!EraseData
  <1>9. Position'
    BY <1>1, <1>3 DEF NandSafe, NandTypes, OtaStates, Position, O!EraseData, O!Free
  <1>10. Received'
    <2>1. Started /\ ~Ended /\ ~Ended' /\ NewBlocks' = NewBlocks
      BY <1>3 DEF Started, Ended, O!EraseData, NewBlocks
    <2>2. \A k \in 1 .. Len(NewBlocks) : content'[NewBlocks[k]] = content[NewBlocks[k]]
      <3>1. NewBlocks \in Seq(1 .. Blocks)
        BY <1>3 DEF NewBlocks, O!Table
      <3> QED BY <1>3, <1>4, <3>1 DEF NewBlocks
    <2> QED BY <1>3, <2>1, <2>2 DEF NandSafe, Received
  <1>11. Announced'
    BY DEF NandSafe, Announced, O!EraseData
  <1>12. GoodCopies'
    <2> SUFFICES ASSUME events = {} PROVE GoodCopies'
      BY DEF GoodCopies, O!EraseData
    <2>1. O!ValidCopies = {1, 2}
      BY DEF NandSafe, GoodCopies, OneStands, WriterOwned, O!EraseData, Started
    <2>2. \A i \in {1, 2} : copies[i].table = [ota.table EXCEPT ![O!Target] = O!NoRecord]
      BY DEF NandSafe, OldOnly, WriterOwned, O!EraseData, Started
    <2>3. ASSUME NEW i \in {1, 2} PROVE Good(content', copies[i].table)
      <3> DEFINE t == [ota.table EXCEPT ![O!Target] = O!NoRecord]
      <3>1. t \in O!Table /\ Good(content, t)
        BY <1>3, <2>1, <2>2, NoTableType DEF NandSafe, GoodCopies, O!Table
      <3>2. \A j \in O!Fw : t[j] = ota.table[j] \/ t[j] = O!NoRecord
        BY <1>3 DEF O!Table
      <3>3. DOMAIN O!NoRecord.blocks = {}
        BY DEF O!NoRecord
      <3> HIDE DEF t
      <3>4. \A j \in O!Fw : \A k \in DOMAIN t[j].blocks : content'[t[j].blocks[k]] = content[t[j].blocks[k]]
        BY <1>4, <3>2, <3>3
      <3>5. Good(content', t)
        BY <3>1, <3>4, GoodKeeps
      <3> QED BY <2>2, <3>5 DEF t
    <2> QED BY <1>3, <2>1, <2>3 DEF NandSafe, GoodCopies, O!EraseData, WriterOwned,
               BadCopies, O!ValidCopies
  <1>13. OneStands'
    BY DEF NandSafe, OneStands, Started, O!ValidCopies, O!EraseData, O!Candidates
  <1>14. OldOnly'
    BY DEF NandSafe, OldOnly, Started, O!Target, O!Other, O!EraseData, O!Candidates
  <1> QED BY <1>5, <1>6, <1>7, <1>8, <1>9, <1>10, <1>11, <1>12, <1>13, <1>14 DEF NandSafe

LEMMA NandNoBlock ==
    ASSUME O!OtaNandAssumption, NandSafe, O!NoBlock, Readable
    PROVE  NandSafe'
  <1>1. NandTypes'
    BY RestTypes DEF NandSafe, NandTypes, O!NoBlock
  <1>2. FewBad'
    BY DEF NandSafe, FewBad, BadCopies, O!NoBlock
  <1>3. WriterOwned'
    BY DEF NandSafe, WriterOwned, O!NoBlock, O!NoWriter, O!Idle, O!NoTool
  <1>4. CopiesWritten'
    BY DEF NandSafe, CopiesWritten, O!NoBlock
  <1>5. Position'
    BY DEF NandSafe, Position, O!NoBlock, O!NoWriter, O!Idle, O!NoTool
  <1>6. Received'
    BY DEF NandSafe, Received, Started, Ended, NewBlocks, O!Target, O!Other, O!NoBlock,
       O!NoWriter, O!Idle, O!NoTool
  <1>7. Announced'
    BY DEF NandSafe, Announced, O!NoBlock, O!NoWriter, O!Idle, O!NoTool
  <1>8. GoodCopies'
    BY DEF NandSafe, GoodCopies, BadCopies, O!ValidCopies, O!NoBlock, O!NoWriter, O!Idle,
       O!NoTool
  <1>9. OneStands'
    BY DEF NandSafe, OneStands, Started, O!ValidCopies, O!NoBlock
  <1>10. OldOnly'
    BY DEF NandSafe, OldOnly, Started, O!Target, O!Other, O!NoBlock, O!NoWriter, O!Idle,
       O!NoTool
  <1> QED BY <1>1, <1>2, <1>3, <1>4, <1>5, <1>6, <1>7, <1>8, <1>9, <1>10 DEF NandSafe

LEMMA NandProgramData ==
    ASSUME O!OtaNandAssumption, NandSafe, O!ProgramData, Readable
    PROVE  NandSafe'
  <1> DEFINE sum == ota.sum /\ ota.data = ota.version
             last == ota.cur = Length
             b == ota.block
             word == IF ota.data = ota.version THEN <<ota.version, ota.cur>> ELSE NoVersion
             old == ota.table[O!Target]
             new == [magic |-> last, blocks |-> Append(old.blocks, b)]
             t == [ota.table EXCEPT ![O!Target] = new]
  <1>1. /\ running \in O!Fw /\ O!Target \in O!Fw /\ ota.table \in O!Table /\ O!Target' = O!Target
        /\ b \in O!Free(ota.table) /\ b \in 1 .. Blocks /\ ota.cur \in 1 .. Length
        /\ ota.version \in Version /\ ota.sum \in BOOLEAN
    BY DEF NandSafe, NandTypes, OtaStates, WriterOwned, Position, O!Free, O!ProgramData,
       O!Target, O!Other, O!Fw
  <1>2. /\ content' = [content EXCEPT ![b] = word]
        /\ ota' = IF last /\ ~sum THEN O!Idle
                  ELSE [ota EXCEPT !.table = t, !.sum = sum, !.data = NoVersion, !.block = 0,
                                   !.cur = IF last THEN @ ELSE @ + 1,
                                   !.pc = IF last THEN "final" ELSE "receive"]
    BY <1>1 DEF O!ProgramData, O!Recorded
  <1>3. /\ old.blocks \in Seq(1 .. Blocks) /\ new.blocks \in Seq(1 .. Blocks)
        /\ Len(new.blocks) = Len(old.blocks) + 1
        /\ \A k \in 1 .. Len(old.blocks) : new.blocks[k] = old.blocks[k]
        /\ new.blocks[Len(old.blocks) + 1] = b
    BY <1>1 DEF O!Table
  <1>4. t \in O!Table
    BY <1>1, <1>3 DEF O!Table
  <1>5. \A i \in O!Fw : \A k \in DOMAIN ota.table[i].blocks :
           content'[ota.table[i].blocks[k]] = content[ota.table[i].blocks[k]]
    BY <1>1, <1>2 DEF NandSafe, NandTypes, O!Free, O!Taken
  <1>6. content'[b] = word
    BY <1>1, <1>2 DEF NandSafe, NandTypes
  <1>7. t[O!Target] = new /\ \A i \in O!Fw : i # O!Target => t[i] = ota.table[i]
    BY <1>1 DEF O!Table
  <1> HIDE DEF t, new, old, sum, last, word
  <1>8. ~(last /\ ~sum) =>
            /\ ota'.table = t /\ ota'.sum = sum /\ ota'.version = ota.version
            /\ ota'.pc = IF last THEN "final" ELSE "receive"
            /\ ota'.cur = IF last THEN ota.cur ELSE ota.cur + 1
    BY <1>2 DEF NandSafe, NandTypes, OtaStates
  <1>9. last /\ ~sum => ota'.pc = "idle"
    BY <1>2 DEF O!Idle
  <1>10. NandTypes'
    <2>1. content' \in [1 .. Blocks -> BlockStates]
      BY <1>1, <1>2 DEF NandSafe, NandTypes, BlockStates, word
    <2>2. sum \in BOOLEAN /\ last \in BOOLEAN
      BY DEF sum, last
    <2>3. ota \in OtaStates /\ (IF last THEN ota.cur ELSE ota.cur + 1) \in 0 .. Length /\ 0 \in 0 .. Blocks
      BY <1>1 DEF NandSafe, NandTypes, O!OtaNandAssumption, last
    <2>4. ota' \in OtaStates
      BY <1>2, <1>4, <2>2, <2>3, RestTypes DEF OtaStates
    <2> QED BY <2>1, <2>2, <2>3, <2>4, RestTypes DEF NandSafe, NandTypes, O!ProgramData
  <1>11. FewBad'
    BY DEF NandSafe, FewBad, BadCopies, O!ProgramData, O!Recorded
  <1>12. WriterOwned'
    BY DEF NandSafe, WriterOwned, O!ProgramData, O!Recorded, O!NoWriter, O!Idle, O!NoTool
  <1>13. CopiesWritten'
    BY DEF NandSafe, CopiesWritten, O!ProgramData
  <1>14. Position'
    BY DEF NandSafe, Position, O!Free, O!Taken, O!Target, O!Other, NandTypes, OtaStates,
       CopyStates, ToolStates, WriterStates, WriterOwned, O!ProgramData, O!Recorded, O!NoWriter,
       O!Idle, O!NoTool
  <1>15. Received'
    <2> SUFFICES ASSUME Started' PROVE Received'
      BY DEF Received
    <2>1. ~(last /\ ~sum) /\ (Ended' <=> last) /\ NewBlocks' = new.blocks /\ ota'.table[O!Target'] = new
      BY <1>1, <1>7, <1>8, <1>9 DEF Started, Ended, NewBlocks
    <2>2. Started /\ ~Ended
      BY DEF O!ProgramData, Started, Ended
    <2>3. Len(old.blocks) = ota.cur - 1
      BY <2>2 DEF NandSafe, Received, NewBlocks, old
    <2>4. Len(NewBlocks') = IF Ended' THEN Length ELSE ota'.cur - 1
      BY <1>1, <1>3, <1>8, <2>1, <2>3 DEF last, O!OtaNandAssumption
    <2>5. ota'.table[O!Target'].magic <=> Ended'
      BY <2>1 DEF new
    <2>6. Ended' => ota'.sum
      BY <1>8, <2>1
    <2>7. ASSUME ota'.sum, NEW k \in 1 .. Len(NewBlocks')
          PROVE  content'[NewBlocks'[k]] = <<ota'.version, k>>
      <3>1. sum /\ ota'.version = ota.version
        BY <1>8, <2>1, <2>7
      <3>2. CASE k = ota.cur
        <4>1. NewBlocks'[k] = b
          BY <1>1, <1>3, <2>1, <2>3, <3>2
        <4> QED BY <1>6, <3>1, <3>2, <4>1 DEF word, sum
      <3>3. CASE k # ota.cur
        <4>1. k \in 1 .. Len(old.blocks) /\ k \in DOMAIN old.blocks
          BY <1>1, <1>3, <2>1, <2>3, <2>7, <3>3
        <4>2. content[old.blocks[k]] = <<ota.version, k>>
          BY <2>2, <3>1, <4>1 DEF NandSafe, Received, NewBlocks, old, sum
        <4>3. content'[old.blocks[k]] = content[old.blocks[k]]
          BY <1>1, <1>5, <4>1 DEF old
        <4> QED BY <1>3, <2>1, <3>1, <4>1, <4>2, <4>3
      <3> QED BY <3>2, <3>3
    <2> QED BY <2>4, <2>5, <2>6, <2>7 DEF Received
  <1>16. Announced'
    BY DEF NandSafe, Announced, O!ProgramData, O!Recorded, O!NoWriter, O!Idle, O!NoTool
  <1>17. GoodCopies'
    <2> SUFFICES ASSUME events = {} PROVE GoodCopies'
      BY DEF GoodCopies, O!ProgramData
    <2>1. O!ValidCopies = {1, 2}
      BY DEF NandSafe, GoodCopies, OneStands, WriterOwned, O!ProgramData, Started
    <2>2. \A i \in {1, 2} : copies[i].table = [ota.table EXCEPT ![O!Target] = O!NoRecord]
      BY DEF NandSafe, OldOnly, WriterOwned, O!ProgramData, Started
    <2>3. ASSUME NEW i \in {1, 2} PROVE Good(content', copies[i].table)
      <3> DEFINE u == [ota.table EXCEPT ![O!Target] = O!NoRecord]
      <3>1. u \in O!Table /\ Good(content, u)
        BY <1>1, <2>1, <2>2, NoTableType DEF NandSafe, GoodCopies, O!Table
      <3>2. \A j \in O!Fw : u[j] = ota.table[j] \/ u[j] = O!NoRecord
        BY <1>1 DEF O!Table
      <3>3. DOMAIN O!NoRecord.blocks = {}
        BY DEF O!NoRecord
      <3> HIDE DEF u
      <3>4. \A j \in O!Fw : \A k \in DOMAIN u[j].blocks : content'[u[j].blocks[k]] = content[u[j].blocks[k]]
        BY <1>5, <3>2, <3>3
      <3>5. Good(content', u)
        BY <3>1, <3>4, GoodKeeps
      <3> QED BY <2>2, <3>5 DEF u
    <2>4. ASSUME ota'.pc = "final" PROVE Good(content', ota'.table)
      <3>1. last /\ sum /\ ota'.table = t /\ ota.cur = Length
        BY <1>8, <1>9, <2>4 DEF last
      <3>2. Complete(content', t[O!Target])
        <4>1. Started' /\ Ended' /\ ota'.sum /\ NewBlocks' = new.blocks
          BY <1>1, <1>7, <1>8, <2>4, <3>1 DEF Started, Ended, NewBlocks
        <4>2. Len(new.blocks) = Length
          BY <1>14, <1>15, <4>1 DEF Received
        <4>3. \A k \in 1 .. Length : content'[new.blocks[k]] = <<ota'.version, k>>
          BY <1>15, <4>1, <4>2 DEF Received
        <4> QED BY <1>1, <1>7, <1>8, <3>1, <4>2, <4>3 DEF Complete
      <3>3. ASSUME NEW i \in O!Fw, i # O!Target PROVE Complete(content', t[i])
        <4>1. copies[1].table[i] = ota.table[i] /\ t[i] = ota.table[i]
          BY <1>1, <1>7, <2>2, <3>3 DEF O!Table
        <4> QED BY <2>3, <4>1 DEF Good
      <3>4. t[O!Target].magic
        BY <1>7, <3>1 DEF new
      <3> QED BY <1>1, <3>1, <3>2, <3>3, <3>4 DEF Good
    <2> QED BY <1>8, <1>9, <2>1, <2>3, <2>4 DEF NandSafe, GoodCopies, O!ProgramData,
               WriterOwned, BadCopies, O!ValidCopies
  <1>18. OneStands'
    BY DEF NandSafe, OneStands, Started, O!ValidCopies, O!ProgramData, O!Recorded
  <1>19. OldOnly'
    <2> SUFFICES ASSUME events = {}, Started' PROVE OldOnly'
      BY DEF OldOnly, O!ProgramData
    <2>1. \A i \in {1, 2} : copies[i].table = [ota.table EXCEPT ![O!Target] = O!NoRecord]
      BY DEF NandSafe, OldOnly, WriterOwned, O!ProgramData, Started
    <2>2. ota'.table = t
      BY <1>8, <1>9 DEF Started
    <2>3. [t EXCEPT ![O!Target] = O!NoRecord] = [ota.table EXCEPT ![O!Target] = O!NoRecord]
      BY <1>1 DEF t, O!Table
    <2> QED BY <1>1, <2>1, <2>2, <2>3 DEF OldOnly, O!ProgramData
  <1> QED BY <1>10, <1>11, <1>12, <1>13, <1>14, <1>15, <1>16, <1>17, <1>18, <1>19 DEF
             NandSafe

LEMMA NandDataFails ==
    ASSUME O!OtaNandAssumption, NandSafe, O!DataFails, Readable
    PROVE  NandSafe'
  <1>1. NandTypes'
    <2>1. ota' \in OtaStates
      BY DEF NandSafe, NandTypes, O!DataFails, OtaStates
    <2>2. fails' \in 0 .. MaxFails
      BY DEF NandSafe, NandTypes, O!DataFails, O!OtaNandAssumption
    <2> QED BY <2>1, <2>2, RestTypes DEF NandSafe, NandTypes, O!DataFails
  <1>2. FewBad'
    <2>1. BadCopies' = BadCopies
      BY DEF BadCopies, O!DataFails
    <2>2. Cardinality(BadCopies) \in Nat
      BY BadFinite, FS_CardinalityType
    <2> QED BY <2>1, <2>2 DEF NandSafe, NandTypes, FewBad, O!DataFails, O!OtaNandAssumption
  <1>3. WriterOwned'
    BY DEF NandSafe, WriterOwned, O!DataFails
  <1>4. CopiesWritten'
    BY DEF NandSafe, CopiesWritten, NandTypes, O!DataFails
  <1>5. Position'
    BY DEF NandSafe, Position, O!DataFails
  <1>6. Received'
    <2>1. Started /\ ~Ended /\ ~Ended' /\ NewBlocks' = NewBlocks /\ O!Target' = O!Target
      BY DEF NandSafe, NandTypes, OtaStates, O!DataFails, Started, Ended, NewBlocks,
         O!Target
    <2> QED BY <2>1 DEF NandSafe, NandTypes, OtaStates, Received, O!DataFails
  <1>7. Announced'
    BY DEF NandSafe, Announced, O!DataFails
  <1>8. GoodCopies'
    BY DEF NandSafe, GoodCopies, BadCopies, O!ValidCopies, O!DataFails
  <1>9. OneStands'
    BY DEF NandSafe, OneStands, Started, O!ValidCopies, O!DataFails
  <1>10. OldOnly'
    BY DEF NandSafe, OldOnly, Started, O!Target, O!Other, O!DataFails
  <1> QED BY <1>1, <1>2, <1>3, <1>4, <1>5, <1>6, <1>7, <1>8, <1>9, <1>10 DEF NandSafe

LEMMA NandCommand ==
    ASSUME O!OtaNandAssumption, NandSafe, NEW command \in Commands, O!Command(command), Readable
    PROVE  NandSafe'
  <1> DEFINE usable == {i \in 1 .. Copies : copies[i].tag # "bad"}
             t == copies[O!Least(usable)].table
             u == IF command = "clear" THEN [t EXCEPT ![running].magic = FALSE]
                  ELSE [t EXCEPT ![O!Target].magic = TRUE]
  <1>1. O!Least(usable) \in usable /\ usable \subseteq 1 .. Copies
    <2>1. usable \in SUBSET (1 .. Copies) /\ usable # {}
      BY SomeNotBad DEF NandSafe
    <2> HIDE DEF usable
    <2> QED BY <2>1, LeastIs
  <1>2. /\ t \in O!Table /\ running \in O!Fw /\ O!Target \in O!Fw /\ O!Target # running
        /\ O!Fw = {running, O!Target}
    BY <1>1 DEF NandSafe, NandTypes, CopyStates, O!Command, O!Target, O!Other, O!Fw
  <1>3. /\ tool' = IF ~O!Switches(command, t) THEN O!NoTool ELSE [pc |-> "write", table |-> u]
        /\ UNCHANGED <<copies, content, running, lock, writer, ota, events, fails>>
    BY DEF O!Command
  <1> HIDE DEF t
  <1>4. t[running] \in [magic : BOOLEAN, blocks : Seq(1 .. Blocks)]
        /\ t[O!Target] \in [magic : BOOLEAN, blocks : Seq(1 .. Blocks)]
    BY <1>2 DEF O!Table
  <1>5. ASSUME command = "clear"
        PROVE  /\ u \in O!Table /\ u[O!Target] = t[O!Target]
               /\ u[running] = [magic |-> FALSE, blocks |-> t[running].blocks]
    BY <1>2, <1>4, <1>5 DEF O!Table
  <1>6. ASSUME command # "clear"
        PROVE  /\ u \in O!Table /\ u[running] = t[running]
               /\ u[O!Target] = [magic |-> TRUE, blocks |-> t[O!Target].blocks]
    BY <1>2, <1>4, <1>6 DEF O!Table
  <1> HIDE DEF u, usable
  <1>7. NandTypes'
    <2>1. tool' \in ToolStates
      BY <1>3, <1>5, <1>6, RestTypes DEF ToolStates
    <2> QED BY <2>1, RestTypes DEF NandSafe, NandTypes, O!Command
  <1>8. FewBad'
    BY DEF NandSafe, FewBad, BadCopies, O!Command, O!Switches
  <1>9. WriterOwned'
    BY DEF NandSafe, WriterOwned, O!Command
  <1>10. CopiesWritten'
    BY DEF NandSafe, CopiesWritten, O!Command
  <1>11. Position'
    BY DEF NandSafe, Position, O!Command
  <1>12. Received'
    BY DEF NandSafe, Received, Started, Ended, NewBlocks, O!Target, O!Other, O!Command,
       O!Switches
  <1>13. Announced'
    BY DEF NandSafe, Announced, O!Command
  <1>14. GoodCopies'
    <2> SUFFICES ASSUME events = {}, O!Switches(command, t) PROVE GoodCopies'
      BY <1>3 DEF NandSafe, GoodCopies, BadCopies, O!ValidCopies, O!NoTool
    <2>1. O!Least(usable) \in O!ValidCopies
      <3>1. t # O!NoTable
        <4>1. O!NoTable[O!Target] = O!NoRecord /\ ~O!NoRecord.magic
          BY <1>2 DEF O!NoTable, O!NoRecord
        <4> QED BY <4>1 DEF O!Switches
      <3> QED BY <1>1, <3>1 DEF NandSafe, NandTypes, CopyStates, O!ValidCopies, t, usable
    <2>2. Good(content, t)
      BY <2>1 DEF NandSafe, GoodCopies, t
    <2>3. Complete(content, t[running]) /\ Complete(content, t[O!Target])
      BY <1>2, <2>2 DEF Good
    <2>4. ASSUME command = "clear" PROVE Good(content, u)
      <3>1. u[O!Target].magic
        BY <1>5, <2>4 DEF O!Switches
      <3>2. Complete(content, u[running])
        <4>1. t[running] = O!NoRecord => u[running] = O!NoRecord
          BY <1>5, <2>4 DEF O!NoRecord
        <4>2. u[running].blocks = t[running].blocks
          BY <1>5, <2>4
        <4> QED BY <2>3, <4>1, <4>2 DEF Complete
      <3>3. Complete(content, u[O!Target])
        BY <1>5, <2>3, <2>4
      <3> QED BY <1>2, <3>1, <3>2, <3>3 DEF Good
    <2>5. ASSUME command # "clear" PROVE Good(content, u)
      <3>1. u[O!Target].magic
        BY <1>6, <2>5
      <3>2. Complete(content, u[O!Target])
        <4>1. t[O!Target] # O!NoRecord
          BY <2>5 DEF O!Switches
        <4>2. u[O!Target].blocks = t[O!Target].blocks
          BY <1>6, <2>5
        <4> QED BY <2>3, <4>1, <4>2 DEF Complete
      <3>3. Complete(content, u[running])
        BY <1>6, <2>3, <2>5
      <3> QED BY <1>2, <3>1, <3>2, <3>3 DEF Good
    <2>6. tool'.table = u
      BY <1>3
    <2> QED BY <1>3, <2>4, <2>5, <2>6 DEF NandSafe, GoodCopies, BadCopies, O!ValidCopies
  <1>15. OneStands'
    BY DEF NandSafe, OneStands, Started, O!ValidCopies, O!Command, O!Switches
  <1>16. OldOnly'
    BY DEF NandSafe, OldOnly, Started, O!Target, O!Other, O!Command, O!Switches
  <1> QED BY <1>7, <1>8, <1>9, <1>10, <1>11, <1>12, <1>13, <1>14, <1>15, <1>16 DEF NandSafe

LEMMA NandToolWriteTable ==
    ASSUME O!OtaNandAssumption, NandSafe, O!ToolWriteTable, Readable
    PROVE  NandSafe'
  <1>1. NandTypes'
    <2>1. writer' \in WriterStates
      BY DEF NandSafe, NandTypes, O!ToolWriteTable, O!WriteTable, WriterStates, ToolStates,
         O!OtaNandAssumption
    <2>2. events' \subseteq O!Event
      BY DEF O!ToolWriteTable, O!Event, NandSafe, NandTypes
    <2> QED BY <2>1, <2>2, RestTypes DEF NandSafe, NandTypes, O!ToolWriteTable, O!WriteTable
  <1>2. FewBad'
    BY DEF NandSafe, FewBad, BadCopies, O!ToolWriteTable, O!WriteTable
  <1>3. WriterOwned'
    BY DEF NandSafe, WriterOwned, O!ToolWriteTable, O!WriteTable
  <1>4. CopiesWritten'
    <2>1. writer'.i = 1 /\ writer'.success = 0 /\ 1 .. writer'.i - 1 = {} /\ fails' = fails
      BY DEF O!ToolWriteTable, O!WriteTable
    <2> QED BY <2>1 DEF NandSafe, NandTypes, CopiesWritten, O!OtaNandAssumption
  <1>5. Position'
    BY DEF NandSafe, Position, O!ToolWriteTable
  <1>6. Received'
    BY DEF NandSafe, Received, Started, Ended, NewBlocks, O!Target, O!Other,
       O!ToolWriteTable, O!WriteTable
  <1>7. Announced'
    BY DEF NandSafe, Announced, O!ValidCopies, O!ToolWriteTable, O!WriteTable
  <1>8. GoodCopies'
    BY DEF NandSafe, GoodCopies, BadCopies, O!ValidCopies, O!ToolWriteTable, O!WriteTable
  <1>9. OneStands'
    <2>1. events' = {} => events = {} /\ {1, 2} \subseteq O!ValidCopies
      BY LeastOfTwo DEF NandSafe, GoodCopies, O!ToolWriteTable
    <2> QED BY <2>1 DEF NandSafe, OneStands, O!ToolWriteTable, O!WriteTable, O!ValidCopies
  <1>10. OldOnly'
    BY DEF NandSafe, OldOnly, O!ToolWriteTable, O!WriteTable
  <1> QED BY <1>1, <1>2, <1>3, <1>4, <1>5, <1>6, <1>7, <1>8, <1>9, <1>10 DEF NandSafe

LEMMA NandRestart ==
    ASSUME O!OtaNandAssumption, NandSafe, O!Restart, Readable
    PROVE  NandSafe'
  <1>1. NandTypes'
    <2>1. running' \in 0 .. 2
      BY DEF O!Restart, O!Booted, O!Fw
    <2> QED BY <2>1, RestTypes DEF NandSafe, NandTypes, O!Restart
  <1>2. FewBad'
    BY DEF NandSafe, FewBad, BadCopies, O!Restart, O!Booted
  <1>3. WriterOwned'
    BY DEF NandSafe, WriterOwned, O!Restart, O!Booted, O!NoWriter, O!Idle, O!NoTool
  <1>4. CopiesWritten'
    BY DEF NandSafe, CopiesWritten, O!Restart, O!Booted, O!NoWriter, O!Idle, O!NoTool
  <1>5. Position'
    BY DEF NandSafe, Position, O!Restart, O!Booted, O!NoWriter, O!Idle, O!NoTool
  <1>6. Received'
    BY DEF NandSafe, Received, Started, Ended, NewBlocks, O!Target, O!Other, O!Restart,
       O!Booted, O!NoWriter, O!Idle, O!NoTool
  <1>7. Announced'
    BY DEF NandSafe, Announced, O!Restart, O!Booted, O!NoWriter, O!Idle, O!NoTool
  <1>8. GoodCopies'
    BY DEF NandSafe, GoodCopies, BadCopies, O!ValidCopies, O!Restart, O!Booted,
       O!NoWriter, O!Idle, O!NoTool
  <1>9. OneStands'
    BY DEF NandSafe, OneStands, Started, O!ValidCopies, O!Restart, O!Booted, O!NoWriter,
       O!Idle, O!NoTool
  <1>10. OldOnly'
    BY DEF NandSafe, OldOnly, Started, O!Target, O!Other, O!Restart, O!Booted, O!NoWriter,
       O!Idle, O!NoTool
  <1> QED BY <1>1, <1>2, <1>3, <1>4, <1>5, <1>6, <1>7, <1>8, <1>9, <1>10 DEF NandSafe

LEMMA NandStill == ASSUME NandSafe, UNCHANGED O!nandOtaVars PROVE NandSafe'
  <1>1. /\ copies' = copies /\ content' = content /\ running' = running /\ lock' = lock
        /\ writer' = writer /\ ota' = ota /\ tool' = tool /\ events' = events /\ fails' = fails
    BY DEF O!nandOtaVars
  <1>2. /\ BadCopies' = BadCopies /\ O!ValidCopies' = O!ValidCopies /\ O!Target' = O!Target
        /\ (Started' <=> Started) /\ (Ended' <=> Ended) /\ NewBlocks' = NewBlocks
    BY <1>1 DEF BadCopies, O!ValidCopies, O!Target, Started, Ended, NewBlocks
  <1> QED BY <1>1, <1>2 DEF NandSafe, NandTypes, FewBad, WriterOwned, CopiesWritten,
             Position, Received, Announced, GoodCopies, OneStands, OldOnly

LEMMA NandStep == ASSUME O!OtaNandAssumption, NandInv, [O!Next]_O!nandOtaVars PROVE NandInv'
  <1> SUFFICES ASSUME Readable' PROVE NandSafe'
    BY DEF NandInv
  <1>1. events \subseteq events'
    BY DEF O!Next, O!nandOtaVars, O!EraseCopy, O!ProgramCopy, O!Start, O!Receive,
       O!Broken, O!ReadTable, O!ReadTableFails, O!OtaWriteTable, O!EraseData, O!NoBlock,
       O!ProgramData, O!DataFails, O!Command, O!ToolWriteTable, O!Restart
  <1>2. Readable /\ NandSafe
    BY <1>1 DEF Readable, NandInv
  <1>3. CASE O!EraseCopy \/ O!ProgramCopy
    BY <1>2, <1>3, NandEraseCopy, NandProgramCopy
  <1>4. CASE (\E v \in Version : O!Start(v)) \/ O!Receive \/ O!Broken
    BY <1>2, <1>4, NandStart, NandReceive, NandBroken
  <1>5. CASE O!ReadTable \/ O!ReadTableFails \/ O!OtaWriteTable
    BY <1>2, <1>5, NandReadTable, NandReadTableFails, NandOtaWriteTable
  <1>6. CASE O!EraseData \/ O!NoBlock \/ O!ProgramData \/ O!DataFails
    BY <1>2, <1>6, NandEraseData, NandNoBlock, NandProgramData, NandDataFails
  <1>7. CASE (\E command \in Commands : O!Command(command)) \/ O!ToolWriteTable \/ O!Restart
    BY <1>2, <1>7, NandCommand, NandToolWriteTable, NandRestart
  <1>8. CASE UNCHANGED O!nandOtaVars
    BY <1>2, <1>8, NandStill
  <1> QED BY <1>3, <1>4, <1>5, <1>6, <1>7, <1>8 DEF O!Next

LEMMA NandNotTorn == ASSUME O!OtaNandAssumption, NandInv PROVE O!NoTornImage /\ O!SomeImageBoots
  <1> SUFFICES ASSUME events = {} PROVE O!NoTornImage /\ O!SomeImageBoots
    BY DEF O!NoTornImage, O!SomeImageBoots
  <1> DEFINE t == copies[O!Least(O!ValidCopies)].table
  <1>1. NandSafe
    BY DEF NandInv, Readable
  <1>2. O!ValidCopies # {} /\ Good(content, t)
    BY <1>1, LeastOfTwo DEF NandSafe, GoodCopies
  <1> HIDE DEF t
  <1>3. \A i \in O!Fw : O!Bootable(i) <=> t[i].magic
    BY <1>2 DEF O!Bootable, t
  <1>4. ASSUME NEW i \in O!Fw, t[i].magic PROVE \E v \in Version : O!WholeRecord(t[i], v)
    <2>1. t[i] # O!NoRecord
      BY <1>4 DEF O!NoRecord
    <2> QED BY <1>2, <2>1 DEF Good, Complete, O!WholeRecord
  <1> QED BY <1>2, <1>3, <1>4 DEF Good, O!NoTornImage, O!SomeImageBoots, t

LEMMA NandSucceeds ==
    ASSUME O!OtaNandAssumption, NandInv, MaxFails < Copies
    PROVE  O!SuccessIsBootable /\ O!TypeOK
  <1>1. NandSafe
    BY DEF NandInv, Readable
  <1>2. ASSUME ota.pc = "reset", ota.cur = Length
        PROVE  O!Bootable(O!Target) /\ O!WholeRecord(copies[O!Least(O!ValidCopies)].table[O!Target], ota.version)
    <2>1. ota.cur > 0 /\ Started /\ Ended
      BY <1>2 DEF O!OtaNandAssumption, Started, Ended
    <2>2. O!ValidCopies # {} /\ copies[O!Least(O!ValidCopies)].table = ota.table
      BY <1>1, <1>2, <2>1 DEF NandSafe, Announced
    <2>3. /\ Len(NewBlocks) = Length /\ ota.table[O!Target].magic
          /\ \A k \in 1 .. Length : content[NewBlocks[k]] = <<ota.version, k>>
      BY <1>1, <2>1 DEF NandSafe, Received
    <2> QED BY <2>2, <2>3 DEF O!Bootable, O!WholeRecord, NewBlocks
  <1>3. O!TypeOK
    BY <1>1 DEF NandSafe, NandTypes, CopyStates, WriterStates, OtaStates, ToolStates,
       BlockStates, O!TypeOK
  <1> QED BY <1>2, <1>3 DEF O!SuccessIsBootable

-----------------------------------------------------------------------------
(* All of them in one run: the part that moves keeps its invariant.        *)

NP == INSTANCE OtaNorProofs WITH Version <- Versions, Length <- Lengths
RP == INSTANCE RtspProofs WITH state <- rtsp_state

\* The modules of the proofs say the same of a step as those of the components.
LEMMA NorIsNor ==
    /\ N!OtaNorAssumption => NP!OtaNorAssumption
    /\ N!Init => NP!Init
    /\ [N!Next]_N!otaVars => [NP!Next]_NP!otaVars
    /\ NP!TypeOK /\ NP!NoTornImage /\ NP!SomeImageBoots /\ NP!SuccessIsBootable =>
          N!TypeOK /\ N!NoTornImage /\ N!SomeImageBoots /\ N!SuccessIsBootable
  BY DEF N!Broken, NP!Broken, N!Command, NP!Command, N!CommandErase, NP!CommandErase,
         N!CommandProgram, NP!CommandProgram, N!EraseBlock, NP!EraseBlock, N!Erased,
         NP!Erased, N!FirstLabel, NP!FirstLabel, N!FirstLabelRight, NP!FirstLabelRight,
         N!Fw, NP!Fw, N!Idle, NP!Idle, N!Init, NP!Init, N!Inverted, NP!Inverted,
         N!Label, NP!Label, N!Next, NP!Next, N!NoTool, NP!NoTool, N!NoTornImage,
         NP!NoTornImage, N!OtaNorAssumption, NP!OtaNorAssumption, N!Other, NP!Other,
         N!ProgramBlock, NP!ProgramBlock, N!ProgramLabel, NP!ProgramLabel, N!Programmed,
         NP!Programmed, N!Receive, NP!Receive, N!Restart, NP!Restart, N!Right, NP!Right,
         N!SomeImageBoots, NP!SomeImageBoots, N!Spec, NP!Spec, N!Start, NP!Start,
         N!SuccessIsBootable, NP!SuccessIsBootable, N!Sum, NP!Sum, N!SumMatches,
         NP!SumMatches, N!SumMatchesAlways, NP!SumMatchesAlways, N!Switched,
         NP!Switched, N!Switches, NP!Switches, N!SwitchesAny, NP!SwitchesAny, N!Target,
         NP!Target, N!TypeOK, NP!TypeOK, N!Valid, NP!Valid, N!WholeImage, NP!WholeImage,
         N!otaVars, NP!otaVars

LEMMA RtspIsRtsp ==
    /\ R!RtspAssumption => RP!RtspAssumption
    /\ R!Init => RP!Init
    /\ [R!Next]_R!rtspVars => [RP!Next]_RP!rtspVars
    /\ RP!TypeOK /\ RP!SendsInSession /\ RP!NoLostWakeup =>
          R!TypeOK /\ R!SendsInSession /\ R!NoLostWakeup
  BY DEF R!Accept, RP!Accept, R!AtRest, RP!AtRest, R!Back, RP!Back, R!Bind, RP!Bind,
         R!Close, RP!Close, R!Socket, RP!Socket, R!WaitOn, RP!WaitOn,
         R!Connected, RP!Connected, R!Default, RP!Default, R!Delayed, RP!Delayed,
         R!Down, RP!Down, R!Exit, RP!Exit, R!Fill, RP!Fill, R!Filled, RP!Filled,
         R!Frame, RP!Frame, R!Get, RP!Get, R!Init, RP!Init, R!Leave, RP!Leave, R!Next,
         RP!Next, R!NextStream, RP!NextStream, R!NoLostWakeup, RP!NoLostWakeup, R!Out,
         RP!Out, R!Pause, RP!Pause, R!Play, RP!Play, R!Put, RP!Put, R!Quiet, RP!Quiet,
         R!RtspAssumption, RP!RtspAssumption, R!Scan, RP!Scan, R!SendsInSession,
         RP!SendsInSession, R!Sent, RP!Sent, R!Setup, RP!Setup, R!Spec, RP!Spec,
         R!StartRtp, RP!StartRtp, R!StillSending, RP!StillSending, R!StillSendingNever,
         RP!StillSendingNever, R!Stop, RP!Stop, R!Stream, RP!Stream, R!Take, RP!Take,
         R!TypeOK, RP!TypeOK, R!Up, RP!Up, R!Ups, RP!Ups, R!UpsOnce, RP!UpsOnce,
         R!queues, RP!queues, R!rtspVars, RP!rtspVars, R!session, RP!session, R!starts,
         RP!starts

PartsInv ==
    /\ part = "common" => CommonInv
    /\ part = "device" => DeviceInv
    /\ part = "dhcps" => DhcpsInv
    /\ part = "timer" => TimerInv
    /\ part = "nor" => NP!IInv
    /\ part = "nand" => NandInv
    /\ part = "rtsp" => RP!IInv /\ RP!Counts /\ RP!Tokens

LEMMA PartsBegin == PartsInit => PartsInv
  <1> SUFFICES ASSUME PartsInit PROVE PartsInv
    OBVIOUS
  <1>1. CASE part = "common"
    BY <1>1, CommonHolds, CommonInit DEF PartsInit, PartsInv
  <1>2. CASE part = "device"
    BY <1>2, DeviceHolds, DeviceInit DEF PartsInit, PartsInv
  <1>3. CASE part = "dhcps"
    BY <1>3, DhcpsHolds, DhcpsInit DEF PartsInit, PartsInv
  <1>4. CASE part = "timer"
    BY <1>4, TimerHolds, TimerInit DEF PartsInit, PartsInv
  <1>5. CASE part = "nor"
    BY <1>5, OtaNorHolds, NorIsNor, NP!InitHolds DEF PartsInit, PartsInv
  <1>6. CASE part = "rtsp"
    BY <1>6, RtspHolds, RtspIsRtsp, RP!RtspInit, RP!CountsBegin DEF PartsInit, PartsInv
  <1>7. CASE part = "nand"
    BY <1>7, OtaNandHolds, NandBegin DEF PartsInit, PartsInv, NandInv
  <1> QED BY <1>1, <1>2, <1>3, <1>4, <1>5, <1>6, <1>7 DEF PartsInv

\* A step of the whole is a step of the part that moves, or none.
LEMMA PartsStep == PartsInv /\ [PartsNext]_vars => PartsInv'
  <1> SUFFICES ASSUME PartsInv, [PartsNext]_vars PROVE PartsInv'
    OBVIOUS
  <1>1. part' = part
    BY DEF PartsNext, vars
  <1>2. CASE part = "common"
    <2>1. [C!Next]_C!vars
      BY <1>2 DEF PartsNext, vars, commonVars, C!vars, C!flash, C!lock, C!calls
    <2> QED BY <1>1, <1>2, <2>1, CommonHolds, CommonNext DEF PartsInv
  <1>3. CASE part = "device"
    <2>1. [D!Next]_D!vars
      BY <1>3 DEF PartsNext, vars, deviceVars, D!vars
    <2> QED BY <1>1, <1>3, <2>1, DeviceHolds, DeviceNext, DeviceStill DEF PartsInv
  <1>4. CASE part = "dhcps"
    <2>1. [S!Next]_S!dhcpsVars
      BY <1>4 DEF PartsNext, vars, dhcpsVars, S!dhcpsVars, S!server, S!clients
    <2> QED BY <1>1, <1>4, <2>1, DhcpsHolds, DhcpsNext, DhcpsStill DEF PartsInv
  <1>5. CASE part = "timer"
    <2>1. [T!Next]_T!timerVars
      BY <1>5 DEF PartsNext, vars, timerVars, T!timerVars, T!timers, T!kernel, T!tasks
    <2> QED BY <1>1, <1>5, <2>1, TimerHolds, TimerNext, TimerStill DEF PartsInv
  <1>6. CASE part = "nor"
    <2>1. [N!Next]_N!otaVars
      BY <1>6 DEF PartsNext, vars, updateVars, otaVars, norVars, N!otaVars
    <2> QED BY <1>1, <1>6, <2>1, OtaNorHolds, NorIsNor, NP!Inductive DEF PartsInv
  <1>7. CASE part = "rtsp"
    <2>1. [R!Next]_R!rtspVars
      BY <1>7 DEF PartsNext, vars, rtspVars, R!rtspVars, R!session, R!starts, R!queues
    <2>2. RP!RtspAssumption /\ [RP!Next]_RP!rtspVars
      BY <2>1, RtspHolds, RtspIsRtsp
    <2>3. (RP!IInv /\ RP!Counts /\ RP!Tokens)'
      BY <1>7, <2>2, RP!RtspStep, RP!CountsKept, RP!TokensKept DEF PartsInv, RP!IInv
    <2> QED BY <1>1, <1>7, <2>3 DEF PartsInv
  <1>8. CASE part = "nand"
    <2>1. [O!Next]_O!nandOtaVars
      BY <1>8 DEF PartsNext, vars, updateVars, otaVars, nandVars, O!nandOtaVars
    <2> QED BY <1>1, <1>8, <2>1, OtaNandHolds, NandStep DEF PartsInv
  <1> QED BY <1>1, <1>2, <1>3, <1>4, <1>5, <1>6, <1>7, <1>8 DEF PartsInv

LEMMA PartsAlways == PartsSpec => []PartsInv
  BY PartsBegin, PartsStep, PTL DEF PartsSpec

\* What the invariants of the other modules say of their parts
LEMMA NorSound ==
    ASSUME NP!IInv
    PROVE  N!TypeOK /\ N!NoTornImage /\ N!SomeImageBoots /\ N!SuccessIsBootable
  BY OtaNorHolds, NorIsNor, NP!Strong

LEMMA RtspSound ==
    ASSUME RP!IInv, RP!Counts, RP!Tokens
    PROVE  R!TypeOK /\ R!SendsInSession /\ R!NoLostWakeup
  BY RtspHolds, RtspIsRtsp, RP!RtspSafe, RP!RtspTyped

\* Past ftl_lock there is one task, unless the first calls raced; past
\* device_mutex_lock there is one for each device.
THEOREM OneHolderAlways == PartsSpec => []OneHolder
  <1>1. PartsInv => OneHolder
    BY CommonHolds, CommonSafe, DeviceSafe DEF PartsInv, OneHolder
  <1> QED BY <1>1, PartsAlways, PTL

\* _ftl_common_write leaves old or new bytes in the request and old ones around it,
\* but for the unit under way, for every page, block, address and size.
THEOREM WriteIsWholeAlways == PartsSpec => []WriteIsWhole
  <1>1. PartsInv => WriteIsWhole
    BY CommonHolds, CommonSafe DEF PartsInv, WriteIsWhole
  <1> QED BY <1>1, PartsAlways, PTL

\* _ftl_common_read returns the bytes it was asked for and no others, unless it reads
\* more than two whole pages from a page border on.
THEOREM ReadIsExactAlways == PartsSpec => []ReadIsExact
  <1>1. PartsInv => ReadIsExact
    BY CommonHolds, CommonSafe DEF PartsInv, ReadIsExact
  <1> QED BY <1>1, PartsAlways, PTL

\* What the table of the DHCP server records is marked in its bit map, but for the
\* addresses whose mark is lost.
THEOREM RecordedAlwaysMarked == PartsSpec => []RecordedIsMarked
  <1>1. PartsInv => RecordedIsMarked
    BY DhcpsHolds, DhcpsSafe DEF PartsInv, RecordedIsMarked
  <1> QED BY <1>1, PartsAlways, PTL

\* No two clients of the DHCP server believe they hold the same address, for any pool,
\* any number of rows and of clients, as long as every lease has found a row and only a
\* DISCOVER has been offered an address, and but for the addresses whose mark is lost.
THEOREM NoSharedAddressAlways == PartsSpec => []NoSharedAddress
  <1>1. PartsInv => NoSharedAddress
    BY DhcpsHolds, DhcpsSafe DEF PartsInv, NoSharedAddress
  <1> QED BY <1>1, PartsAlways, PTL

\* A client that renews its lease keeps its address, unless the one that another client
\* asked for is still in client_request_ip (dhcps.c:739).
THEOREM RenewAlwaysKeepsAddress == PartsSpec => RenewKeepsAddress
  <1>1. PartsInv => (part = "dhcps" => S!KeepsAddress)
    BY DhcpsHolds, RenewKeeps DEF PartsInv
  <1> QED BY <1>1, PartsAlways, PTL DEF RenewKeepsAddress

\* No command is given to a timer that has been deleted.
THEOREM NoDeadHandleAlways == PartsSpec => []NoDeadHandle
  <1>1. PartsInv => NoDeadHandle
    BY TimerHolds, TimerSafe DEF PartsInv, NoDeadHandle
  <1> QED BY <1>1, PartsAlways, PTL

\* A callback does not run once its timer has been stopped and has not been started again.
THEOREM QuietIsQuietAlways == PartsSpec => []QuietIsQuiet
  <1>1. PartsInv => QuietIsQuiet
    BY TimerHolds, TimerSafe DEF PartsInv, QuietIsQuiet
  <1> QED BY <1>1, PartsAlways, PTL

\* A timer is in the table once, and no longer than it exists.
THEOREM OneEntryAlways == PartsSpec => []OneEntry
  <1>1. PartsInv => OneEntry
    BY TimerHolds, TimerSafe DEF PartsInv, OneEntry
  <1> QED BY <1>1, PartsAlways, PTL

\* Nothing is sent while the server has no client (rtsp_api.c:1795-1798), and unless a
\* PLAY was repeated (1724) RTP over TCP goes to the client that asked for it.
THEOREM SendsInSessionAlways == PartsSpec => []SendsInSession
  <1>1. PartsInv => SendsInSession
    BY RtspSound DEF PartsInv, SendsInSession
  <1> QED BY <1>1, PartsAlways, PTL

\* No task waits for the semaphore of an object that is there (rtsp_api.c:1873 and
\* 2061), although one semaphore serves all streams.
THEOREM NoLostWakeupAlways == PartsSpec => []NoLostWakeup
  <1>1. PartsInv => NoLostWakeup
    BY RtspSound DEF PartsInv, NoLostWakeup
  <1> QED BY <1>1, PartsAlways, PTL

\* An image that the boot loader takes is whole, for any number of blocks and of
\* versions and after any fall of the power, unless an event that the property excepts
\* has come first.
THEOREM NoTornImageAlways == PartsSpec => []NoTornImage
  <1>1. PartsInv => NoTornImage
    BY OtaNandHolds, NorSound, NandNotTorn DEF PartsInv, NoTornImage
  <1> QED BY <1>1, PartsAlways, PTL

\* There is an image to start at all times, also while it is replaced.
THEOREM SomeImageAlwaysBoots == PartsSpec => []SomeImageBoots
  <1>1. PartsInv => SomeImageBoots
    BY OtaNandHolds, NorSound, NandNotTorn DEF PartsInv, SomeImageBoots
  <1> QED BY <1>1, PartsAlways, PTL

\* What an update that reports success has written starts. On a NAND flash a copy of the
\* table has to be written for that: fewer blocks go bad than there are for copies.
THEOREM SuccessAlwaysBootable == ASSUME MaxFails < Copies PROVE PartsSpec => []SuccessIsBootable
  <1>1. PartsInv => SuccessIsBootable
    BY OtaNandHolds, NorSound, NandSucceeds DEF PartsInv, SuccessIsBootable
  <1> QED BY <1>1, PartsAlways, PTL

\* The variables of each part keep to their types, with the bounds of their counters:
\* among them that rtp_output_sema counts no more objects than there are streams.
THEOREM TypesCorrect == ASSUME MaxFails < Copies PROVE PartsSpec => []TypesOK
  <1>1. ASSUME PartsInv PROVE TypesOK
    <2>1. part = "common" => C!TypeOK
      BY <1>1, CommonHolds, CommonSafe DEF PartsInv
    <2>2. part = "device" => D!TypeOK
      BY <1>1, DeviceSafe DEF PartsInv
    <2>3. part = "dhcps" => S!TypeOK
      BY <1>1, DhcpsHolds, DhcpsSafe DEF PartsInv
    <2>4. part = "timer" => T!TypeOK
      BY <1>1, TimerHolds, TimerSafe DEF PartsInv
    <2>5. part = "nor" => N!TypeOK
      BY <1>1, NorSound DEF PartsInv
    <2>6. part = "nand" => O!TypeOK
      BY <1>1, OtaNandHolds, NandSucceeds DEF PartsInv
    <2>7. part = "rtsp" => R!TypeOK
      BY <1>1, RtspSound DEF PartsInv
    <2> QED BY <2>1, <2>2, <2>3, <2>4, <2>5, <2>6, <2>7 DEF TypesOK
  <1> QED BY <1>1, PartsAlways, PTL
=============================================================================
