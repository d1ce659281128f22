---------------------------- MODULE FtlLogProofs ----------------------------
(*****************************************************************************)
(* What the log of Ftl means, for every number and size of pages, every      *)
(* set of addresses and every set of words.                                  *)
(*                                                                           *)
(* The sequence numbers chain the valid pages to the current one, or to      *)
(* one page while no call has it in hand, so no valid page is lost to a      *)
(* boot (NoOrphanAlways).  With it the mapping table is the log: a load      *)
(* reads what a boot would recover (ReadsAlwaysAgree).  A boot has room      *)
(* for what it must copy and never clears the log (NeverWipesAlways).  So    *)
(* Ftl implements FtlStore (StoreImplemented), and a load beside saves and   *)
(* sweeps returns the stored word (LoadAlwaysCurrent).                       *)
(*****************************************************************************)
EXTENDS FtlProofs, FtlReader

-----------------------------------------------------------------------------
(* The chain of sequence numbers *)

After(p) == (p + 1) % N

\* Each valid page but the last one, c, is continued by the next page.
Chain(c) ==
    /\ Valid(c)
    /\ \A p \in Page : Valid(p) /\ p # c =>
          Valid(After(p)) /\ seq[After(p)] = (seq[p] + 1) % SeqMod

\* The log ends with the current page; while no call has it in hand, there is
\* one page it ends with, or none at all.
ChainInv ==
    /\ InUse => Chain(cur)
    /\ pc = "off" => NoneValid \/ \E c \in Page : Chain(c)

\* Going back from page to page.
LEMMA BackIs ==
    ASSUME NEW c \in Page, NEW d \in 0 .. N - 1
    PROVE  /\ Back(c, d) = IF d <= c THEN c - d ELSE c + N - d
           /\ Back(c, d) \in Page
  <1> DEFINE x == c + N - d
  <1>1. x \in 0 .. 2 * N - 1 /\ x = c + N - d
    BY Bounds DEF Page
  <1>2. x % N = IF x < N THEN x ELSE x - N
    BY <1>1, Wraps
  <1>3. Back(c, d) = x % N
    BY DEF Back
  <1> HIDE DEF x
  <1> QED BY <1>1, <1>2, <1>3, Bounds DEF Page

LEMMA AfterIs ==
    ASSUME NEW p \in Page
    PROVE  After(p) = (IF p + 1 < N THEN p + 1 ELSE 0) /\ After(p) \in Page
  BY Wraps, Bounds DEF After, Page

LEMMA AfterBack ==
    ASSUME NEW c \in Page, NEW d \in 1 .. N - 1
    PROVE  /\ After(Back(c, d)) = Back(c, d - 1)
           /\ Back(c, d) # c
           /\ Back(Back(c, d - 1), 1) = Back(c, d)
  <1>1. d - 1 \in 0 .. N - 1 /\ 1 \in 0 .. N - 1 /\ d \in 0 .. N - 1
    BY Bounds
  <1>2. /\ Back(c, d) = IF d <= c THEN c - d ELSE c + N - d
        /\ Back(c, d - 1) = IF d - 1 <= c THEN c - (d - 1) ELSE c + N - (d - 1)
        /\ Back(c, d) \in Page /\ Back(c, d - 1) \in Page
    BY <1>1, BackIs
  <1>3. After(Back(c, d)) = IF Back(c, d) + 1 < N THEN Back(c, d) + 1 ELSE 0
    BY <1>2, AfterIs
  <1>4. Back(Back(c, d - 1), 1) = IF 1 <= Back(c, d - 1) THEN Back(c, d - 1) - 1
                                                       ELSE Back(c, d - 1) + N - 1
    BY <1>1, <1>2, BackIs
  <1> QED BY <1>2, <1>3, <1>4, Bounds DEF Page

LEMMA BackFinds ==
    ASSUME NEW c \in Page, NEW p \in Page
    PROVE  \E d \in 0 .. N - 1 : p = Back(c, d) /\ (p # c => d >= 1)
  <1> DEFINE d == IF p <= c THEN c - p ELSE c + N - p
  <1>1. d \in 0 .. N - 1 /\ (p # c => d >= 1)
    BY Bounds DEF Page
  <1>2. d = IF p <= c THEN c - p ELSE c + N - p
    OBVIOUS
  <1> HIDE DEF d
  <1>3. Back(c, d) = IF d <= c THEN c - d ELSE c + N - d
    BY <1>1, BackIs
  <1>4. Back(c, d) = p
    BY <1>1, <1>2, <1>3, Bounds DEF Page
  <1> QED BY <1>1, <1>4

\* Sequence numbers wrap at SeqMod.
LEMMA SeqModulo ==
    ASSUME NEW x \in 0 .. 2 * SeqMod - 1
    PROVE  x % SeqMod = IF x < SeqMod THEN x ELSE x - SeqMod
  BY Bounds

LEMMA SeqWraps ==
    ASSUME NEW s \in 0 .. SeqMod - 1, NEW i \in 0 .. SeqMod
    PROVE  (s + i) % SeqMod = IF s + i < SeqMod THEN s + i ELSE s + i - SeqMod
  <1> DEFINE x == s + i
  <1>1. x \in 0 .. 2 * SeqMod - 1
    BY Bounds
  <1> HIDE DEF x
  <1>2. x % SeqMod = IF x < SeqMod THEN x ELSE x - SeqMod
    BY <1>1, SeqModulo
  <1> QED BY <1>1, <1>2, Bounds DEF x

LEMMA SeqStep ==
    ASSUME NEW s \in 0 .. SeqMod - 1, NEW i \in 0 .. SeqMod - 1
    PROVE  (((s + i) % SeqMod) + 1) % SeqMod = (s + (i + 1)) % SeqMod
  <1> DEFINE t == (s + i) % SeqMod
             j == i + 1
  <1>1. t = (IF s + i < SeqMod THEN s + i ELSE s + i - SeqMod) /\ t \in 0 .. SeqMod - 1
    <2>1. i \in 0 .. SeqMod
      BY Bounds
    <2>2. t = (IF s + i < SeqMod THEN s + i ELSE s + i - SeqMod)
      BY <2>1, SeqWraps
    <2> HIDE DEF t
    <2> QED BY <2>2, Bounds
  <1>2. j \in 0 .. SeqMod /\ 1 \in 0 .. SeqMod /\ j = i + 1
    BY Bounds
  <1> HIDE DEF t, j
  <1>3. (s + j) % SeqMod = IF s + j < SeqMod THEN s + j ELSE s + j - SeqMod
    BY <1>2, SeqWraps
  <1>4. (t + 1) % SeqMod = IF t + 1 < SeqMod THEN t + 1 ELSE t + 1 - SeqMod
    BY <1>1, <1>2, SeqWraps
  <1>5. (t + 1) % SeqMod = (s + j) % SeqMod
    BY <1>1, <1>2, <1>3, <1>4, Bounds
  <1> QED BY <1>5 DEF t, j

\* From a valid page up to the end of the log all pages are valid, and their
\* sequence numbers follow each other.
LEMMA ChainSolid ==
    ASSUME FlashType, NEW c \in Page, Chain(c), NEW d \in 0 .. N - 1, Valid(Back(c, d)),
           NEW j \in 0 .. d
    PROVE  /\ Valid(Back(c, j))
           /\ seq[Back(c, j)] = (seq[Back(c, d)] + (d - j)) % SeqMod
  <1> DEFINE Good(i) == /\ Valid(Back(c, d - i))
                        /\ seq[Back(c, d - i)] = (seq[Back(c, d)] + i) % SeqMod
             S == {i \in 0 .. d : ~Good(i)}
             s == seq[Back(c, d)]
  <1>1. s \in 0 .. SeqMod - 1 /\ d \in Nat /\ d - 0 = d
    BY BackIs, Bounds DEF FlashType
  <1>2. Good(0)
    <2>1. (s + 0) % SeqMod = s
      BY <1>1, Bounds
    <2> QED BY <1>1, <2>1
  <1>3. ASSUME NEW i \in 0 .. d, i > 0, Good(i - 1) PROVE Good(i)
    <2> DEFINE e == d - (i - 1)
               p == Back(c, e)
    <2>1. e \in 1 .. N - 1 /\ e - 1 = d - i /\ i - 1 \in Nat
      BY <1>1, <1>3, Bounds
    <2>2. p \in Page /\ p # c /\ After(p) = Back(c, d - i)
      BY <2>1, BackIs, AfterBack
    <2>3. Valid(p) /\ seq[p] = (s + (i - 1)) % SeqMod
      BY <1>3
    <2>4. Valid(Back(c, d - i)) /\ seq[Back(c, d - i)] = (seq[p] + 1) % SeqMod
      BY <2>2, <2>3 DEF Chain
    <2>5. (((s + (i - 1)) % SeqMod) + 1) % SeqMod = (s + i) % SeqMod
      <3>1. i - 1 \in 0 .. SeqMod - 1 /\ (i - 1) + 1 = i
        BY <1>1, <1>3, <2>1, Bounds
      <3> HIDE DEF s
      <3> QED BY <1>1, <3>1, SeqStep
    <2> QED BY <2>3, <2>4, <2>5
  <1>4. S = {}
    <2> SUFFICES ASSUME S # {} PROVE FALSE
      OBVIOUS
    <2>1. S \in SUBSET Nat
      BY <1>1
    <2>2. PICK m \in S : \A x \in S : m <= x
      BY <2>1, LeastNatural
    <2>3. m \in 0 .. d /\ m # 0 /\ ~Good(m)
      BY <1>2, <2>2
    <2>4. m - 1 \in 0 .. d /\ m - 1 \notin S
      BY <1>1, <2>2, <2>3
    <2> QED BY <1>3, <2>3, <2>4
  <1>5. d - j \in 0 .. d /\ d - (d - j) = j
    BY <1>1
  <1>6. Good(d - j)
    BY <1>4, <1>5
  <1> QED BY <1>5, <1>6

\* ftl_init finds the page that the log ends with, wherever in the ring it is.
LEMMA SearchFindsLast ==
    ASSUME FlashType, NEW c \in Page, Chain(c), NEW best \in Search
    PROVE  best[N] = c
  <1>1. ASSUME NEW i \in 1 .. N
        PROVE  best[i] = IF Newer(i - 1, best[i - 1]) THEN i - 1 ELSE best[i - 1]
    BY DEF Search
  <1> DEFINE Low(i) == \/ best[i] = -1 /\ \A p \in Page : p < i => ~Valid(p)
                       \/ i > 0 /\ best[i] = i - 1 /\ Valid(i - 1)
  <1>2. Low(0)
    BY Bounds DEF Search, Page
  <1>3. ASSUME NEW i \in 0 .. c, Low(i) PROVE Low(i + 1)
    <2>1. i \in Page /\ i + 1 \in 1 .. N /\ (i + 1) - 1 = i
      BY Bounds DEF Page
    <2>2. best[i + 1] = IF Newer(i, best[i]) THEN i ELSE best[i]
      BY <1>1, <2>1
    <2>3. CASE best[i] = -1 /\ \A p \in Page : p < i => ~Valid(p)
      BY <2>1, <2>2, <2>3, Bounds DEF Newer, Page
    <2>4. CASE i > 0 /\ best[i] = i - 1 /\ Valid(i - 1)
      <3>1. i - 1 \in Page /\ i - 1 # c /\ After(i - 1) = i
        BY <2>1, <2>4, AfterIs, Bounds DEF Page
      <3>2. Valid(i) /\ seq[i] = (seq[i - 1] + 1) % SeqMod
        BY <2>4, <3>1 DEF Chain
      <3>3. seq[i - 1] \in 0 .. SeqMod - 1
        BY <3>1 DEF FlashType
      <3>4. Newer(i, i - 1)
        BY <3>2, <3>3, Bounds DEF Newer
      <3> QED BY <2>1, <2>2, <2>4, <3>2, <3>4
    <2> QED BY <1>3, <2>3, <2>4
  <1>4. ASSUME NEW i \in c + 1 .. N - 1, best[i] = c PROVE best[i + 1] = c
    <2>1. i \in Page /\ i + 1 \in 1 .. N /\ (i + 1) - 1 = i /\ i # c /\ i > c
      BY Bounds DEF Page
    <2>2. best[i + 1] = IF Newer(i, c) THEN i ELSE c
      BY <1>1, <1>4, <2>1
    <2>3. ~Newer(i, c)
      <3> SUFFICES ASSUME Valid(i) PROVE ~Newer(i, c)
        BY DEF Newer
      <3> DEFINE d == c + N - i
      <3>1. d \in 1 .. N - 1 /\ Back(c, d) = i /\ d - 0 = d /\ Back(c, 0) = c
        BY <2>1, BackIs, Bounds DEF Page
      <3> HIDE DEF d
      <3>2. seq[c] = (seq[i] + d) % SeqMod
        BY <3>1, ChainSolid
      <3>3. seq[i] \in 0 .. SeqMod - 1 /\ seq[c] \in 0 .. SeqMod - 1
        BY <2>1 DEF FlashType
      <3>4. d + 1 <= SeqMod - 1 /\ d \in Nat
        BY <3>1, Bounds
      <3>5. seq[c] = IF seq[i] + d < SeqMod THEN seq[i] + d ELSE seq[i] + d - SeqMod
        <4>1. d \in 0 .. SeqMod
          BY <3>4, Bounds
        <4> QED BY <3>2, <3>3, <4>1, SeqWraps
      <3> QED BY <2>1, <3>1, <3>3, <3>4, <3>5, Bounds DEF Newer, Page
    <2> QED BY <2>2, <2>3
  <1> HIDE DEF Low
  <1>5. Low(c + 1)
    <2> DEFINE S == {i \in 0 .. c + 1 : ~Low(i)}
    <2> SUFFICES ASSUME S # {} PROVE FALSE
      BY Bounds DEF Page
    <2>1. S \in SUBSET Nat
      OBVIOUS
    <2>2. PICK m \in S : \A x \in S : m <= x
      BY <2>1, LeastNatural
    <2>3. m \in 0 .. c + 1 /\ m # 0
      BY <1>2, <2>2
    <2>4. m - 1 \in 0 .. c /\ m - 1 \notin S /\ (m - 1) + 1 = m
      BY <2>2, <2>3, Bounds DEF Page
    <2>5. m - 1 \in 0 .. c + 1
      BY <2>4, Bounds DEF Page
    <2> QED BY <1>3, <2>2, <2>4, <2>5
  <1>6. best[c + 1] = c
    BY <1>5, Bounds DEF Low, Chain, Page
  <1>7. ASSUME best[N] # c PROVE FALSE
    <2> DEFINE S == {i \in c + 1 .. N : best[i] # c}
    <2>1. S \in SUBSET Nat /\ N \in S
      BY <1>7, Bounds DEF Page
    <2>2. PICK m \in S : \A x \in S : m <= x
      BY <2>1, LeastNatural
    <2>3. m \in c + 1 .. N /\ m # c + 1
      BY <1>6, <2>2
    <2>4. m - 1 \in c + 1 .. N - 1 /\ m - 1 \notin S /\ (m - 1) + 1 = m
      BY <2>2, <2>3, Bounds DEF Page
    <2>5. best[m - 1] = c
      BY <2>4, Bounds DEF Page
    <2> QED BY <1>4, <2>2, <2>4, <2>5
  <1> QED BY <1>7

\* A boot walks back through all of the log.
LEMMA ChainReaches ==
    ASSUME FlashType, NEW c \in Page, Chain(c), NEW d \in 0 .. N - 1, Valid(Back(c, d))
    PROVE  d \in 0 .. ChainLength(c)
  <1> DEFINE S == {n \in 0 .. N - 1 : \A j \in 0 .. n - 1 : HasPrev(Back(c, j))}
  <1>1. S \in SUBSET Nat /\ N - 1 \in Nat /\ \A x \in S : x <= N - 1
    BY Bounds
  <1>2. ASSUME NEW j \in 0 .. d - 1 PROVE HasPrev(Back(c, j))
    <2>1. j + 1 \in 1 .. N - 1 /\ (j + 1) - 1 = j /\ j + 1 \in 0 .. d
      BY Bounds
    <2>2. /\ Back(c, j) = After(Back(c, j + 1)) /\ Back(Back(c, j), 1) = Back(c, j + 1)
          /\ Back(c, j + 1) # c
      BY <2>1, AfterBack
    <2>3. Back(c, j + 1) \in Page
      BY <2>1, BackIs, Bounds
    <2>4. Valid(Back(c, j + 1))
      BY <2>1, ChainSolid
    <2>5. seq[Back(c, j)] = (seq[Back(c, j + 1)] + 1) % SeqMod
      BY <2>2, <2>3, <2>4 DEF Chain
    <2>6. seq[Back(c, j + 1)] \in 0 .. SeqMod - 1
      BY <2>3 DEF FlashType
    <2> QED BY <2>2, <2>4, <2>5, <2>6, Bounds DEF HasPrev
  <1>3. d \in S
    BY <1>2
  <1>4. ChainLength(c) = Max(S) /\ Max(S) \in S /\ d <= Max(S)
    <2>1. ChainLength(c) = Max(S)
      BY DEF ChainLength
    <2> HIDE DEF S
    <2> QED BY <1>1, <1>3, <2>1, MaxIsGreatest
  <1>5. ChainLength(c) \in 0 .. N - 1
    BY <1>4
  <1> HIDE DEF S
  <1> QED BY <1>4, <1>5, Bounds

\* What changes no valid page changes no chain.
LEMMA SameChain ==
    ASSUME NEW c \in Page, Chain(c),
           \A p \in Page : (Valid(p)' <=> Valid(p)) /\ (Valid(p) => seq'[p] = seq[p])
    PROVE  Chain(c)'
  BY AfterIs DEF Chain, After

\* The oldest page leaves the log.
LEMMA DropOldest ==
    ASSUME NEW c \in Page, Chain(c), NEW o \in Page, o # c, ~Valid(o)',
           ~Valid(o) \/ o = Oldest(status, c),
           \A p \in Page : p # o => (Valid(p)' <=> Valid(p)) /\ seq'[p] = seq[p]
    PROVE  Chain(c)'
  <1>1. ASSUME NEW p \in Page, Valid(p), p # c PROVE After(p) # o
    <2>1. CASE ~Valid(o)
      BY <1>1, <2>1 DEF Chain
    <2>2. CASE o = Oldest(status, c)
      <3> DEFINE n == FreeCount(status, c)
      <3>1. n \in 0 .. N /\ \A i \in 1 .. n : ~Valid((c + i) % N)
        BY FreeCountCounts DEF Valid
      <3>2. o = (c + n + 1) % N
        BY <2>2 DEF Oldest
      <3> HIDE DEF n
      <3>3. n # N
        <4>1. (c + N) % N = c
          BY RingWhole
        <4> QED BY <3>1, <4>1, Bounds DEF Chain
      <3>4. n + 1 \in 0 .. N /\ n \in 0 .. N /\ c + n + 1 = c + (n + 1)
        BY <3>1, <3>3, Bounds DEF Page
      <3>5. /\ o = IF c + (n + 1) < N THEN c + (n + 1) ELSE c + (n + 1) - N
            /\ (c + n) % N = IF c + n < N THEN c + n ELSE c + n - N
        BY <3>2, <3>4, RingPage
      <3> SUFFICES ASSUME After(p) = o PROVE FALSE
        OBVIOUS
      <3>6. After(p) = IF p + 1 < N THEN p + 1 ELSE 0
        BY <1>1, AfterIs
      <3>7. p = (c + n) % N
        BY <3>3, <3>4, <3>5, <3>6, Bounds DEF Page
      <3>8. CASE n = 0
        BY <1>1, <3>5, <3>7, <3>8, Bounds DEF Page
      <3>9. CASE n > 0
        <4>1. n \in 1 .. n
          BY <3>1, <3>9, Bounds
        <4> QED BY <1>1, <3>1, <3>7, <4>1
      <3> QED BY <3>1, <3>8, <3>9, Bounds
    <2> QED BY <2>1, <2>2
  <1>2. ASSUME NEW p \in Page, Valid(p)', p # c
        PROVE  Valid(After(p))' /\ seq'[After(p)] = (seq'[p] + 1) % SeqMod
    <2>1. p # o /\ Valid(p) /\ seq'[p] = seq[p]
      BY <1>2
    <2>2. After(p) \in Page /\ After(p) # o
      BY <1>1, <1>2, <2>1, AfterIs
    <2> QED BY <1>2, <2>1, <2>2 DEF Chain
  <1> QED BY <1>2 DEF Chain, After

\* The last page is lost: the log ends with the one before it.
LEMMA DropLast ==
    ASSUME NEW c \in Page, Chain(c), ~Valid(c)',
           \A p \in Page : p # c => (Valid(p)' <=> Valid(p)) /\ seq'[p] = seq[p]
    PROVE  NoneValid' \/ \E b \in Page : Chain(b)'
  <1> SUFFICES ASSUME ~NoneValid' PROVE \E b \in Page : Chain(b)'
    OBVIOUS
  <1> DEFINE b == Back(c, 1)
             S == {d \in 1 .. N - 1 : Valid(Back(c, d))}
  <1>1. b \in Page /\ b # c /\ After(b) = c
    <2>1. 1 \in 1 .. N - 1 /\ 1 - 1 = 0 /\ 1 \in 0 .. N - 1 /\ 0 \in 0 .. N - 1
      BY Bounds
    <2>2. Back(c, 0) = c
      BY <2>1, BackIs, Bounds DEF Page
    <2> QED BY <2>1, <2>2, BackIs, AfterBack
  <1>2. PICK p \in Page : Valid(p) /\ p # c
    BY DEF NoneValid
  <1>3. S # {}
    BY <1>2, BackFinds
  <1>4. PICK m \in S : \A x \in S : m <= x
    <2>1. S \in SUBSET Nat
      OBVIOUS
    <2> QED BY <1>3, <2>1, LeastNatural
  <1>5. m = 1
    <2> SUFFICES ASSUME m # 1 PROVE FALSE
      OBVIOUS
    <2>1. /\ m \in 1 .. N - 1 /\ Valid(Back(c, m)) /\ m - 1 \in 1 .. N - 1
          /\ m \in 0 .. N - 1 /\ m - 1 \in 0 .. N - 1
      BY <1>4, Bounds
    <2>2. Back(c, m) \in Page /\ Back(c, m) # c /\ After(Back(c, m)) = Back(c, m - 1)
      BY <2>1, BackIs, AfterBack, Bounds
    <2>3. Valid(Back(c, m - 1))
      BY <2>1, <2>2 DEF Chain
    <2> QED BY <1>4, <2>1, <2>3, Bounds
  <1>6. Valid(b)
    BY <1>4, <1>5
  <1>7. \A q \in Page : q # b => After(q) # c
    BY <1>1, AfterIs, Bounds DEF Page
  <1>8. Chain(b)'
    <2>1. ASSUME NEW q \in Page, Valid(q)', q # b
          PROVE  Valid(After(q))' /\ seq'[After(q)] = (seq'[q] + 1) % SeqMod
      <3>1. q # c /\ Valid(q) /\ After(q) # c /\ After(q) \in Page
        BY <1>7, <2>1, AfterIs
      <3> QED BY <3>1 DEF Chain
    <2>2. Valid(b)'
      BY <1>1, <1>6
    <2> QED BY <2>1, <2>2 DEF Chain, b, Back, After
  <1> QED BY <1>1, <1>8

\* The page that follows the last one continues the log.
LEMMA AddLast ==
    ASSUME NEW c \in Page, Chain(c), NEW q \in Page, q = After(c), ~Valid(q), Valid(q)',
           seq'[q] = (seq[c] + 1) % SeqMod,
           \A p \in Page : p # q => (Valid(p)' <=> Valid(p)) /\ seq'[p] = seq[p]
    PROVE  Chain(q)'
  <1>1. ASSUME NEW p \in Page, Valid(p)', p # q
        PROVE  Valid(After(p))' /\ seq'[After(p)] = (seq'[p] + 1) % SeqMod
    <2>1. Valid(p) /\ seq'[p] = seq[p]
      BY <1>1
    <2>2. CASE p = c
      BY <2>1, <2>2
    <2>3. CASE p # c
      BY <2>1, <2>3, AfterIs DEF Chain
    <2> QED BY <2>2, <2>3
  <1> QED BY <1>1 DEF Chain, After

LEMMA ChainInit == Init => ChainInv
  BY DEF Init, ChainInv, InUse, NoneValid, Valid

\* The steps that stay on their page and make no page valid or invalid.
LEMMA QuietChain ==
    ASSUME Sound, ChainInv, pc' # "off", InUse' => InUse /\ cur' = cur,
           \A p \in Page : (Valid(p)' <=> Valid(p)) /\ (Valid(p) => seq'[p] = seq[p])
    PROVE  ChainInv'
  <1>1. CASE InUse'
    <2>1. cur \in Page /\ Chain(cur) /\ cur' = cur
      BY <1>1 DEF ChainInv, Sound, Typed, TypeOK, RamType
    <2>2. Chain(cur)'
      BY <2>1, SameChain DEF Chain
    <2> QED BY <2>2 DEF ChainInv
  <1> QED BY <1>1 DEF ChainInv

\* Those that leave the flash alone too.
LEMMA FlashChain ==
    ASSUME Sound, ChainInv, pc' # "off", InUse' => InUse, cur' = cur, UNCHANGED <<status, seq>>
    PROVE  ChainInv'
  BY QuietChain DEF Valid

LEMMA CallChain ==
    ASSUME Sound, ChainInv,
           \/ WriteData \/ WriteKey \/ SetEnd \/ FindFreePage \/ CopyLive \/ RecoverCopy
           \/ CollectPage \/ Sweep \/ ClearAll
           \/ (\E s \in Saves : Save(s[1], s[2]))
           \/ (\E m \in GcPages, n \in GcCells : Collect(m, n))
    PROVE  ChainInv'
  <1>1. pc' # "off" /\ cur' = cur /\ UNCHANGED <<status, seq>>
    BY DEF WriteData, WriteKey, Return, SetEnd, FindFreePage, BeginFormat, CopyLive, RecoverCopy,
           CopyNext, CollectPage, Sweep, SweepOn, ClearAll, Save, Collect, StartGc, flash, ram, call
  <1>2. InUse
    <2>1. CollectPage => pc = "scan"
      BY DEF CollectPage
    <2>2. pc \in {"idle", "write", "key", "scan", "recover"}
      BY DEF WriteData, WriteKey, SetEnd, FindFreePage, CopyLive, RecoverCopy, CollectPage,
             Sweep, ClearAll, Save, Collect
    <2> QED BY <2>2, UseFacts DEF Sound
  <1> QED BY <1>1, <1>2, FlashChain

LEMMA MarkChain ==
    ASSUME Sound, ChainInv, MarkFormat \/ MarkCollected \/ MarkSwept
    PROVE  ChainInv'
  <1>1. /\ pc = "mark" /\ MarkErased /\ UNCHANGED <<cur, free, map>> /\ pc' # "off"
        /\ \/ op' = op /\ pc' = "stamp"
           \/ era.by = "collect" \/ era.by = "sweep"
    BY DEF MarkFormat, MarkCollected, MarkSwept, EndGc, SweepOn, ram, MarkErased
  <1>2. \A p \in Page : (Valid(p)' <=> Valid(p)) /\ seq'[p] = seq[p]
    BY <1>1, MarkLog
  <1>3. InUse' => InUse
    <2>1. era.by \in {"collect", "sweep"} => InUse
      BY <1>1, UseFacts DEF Sound, SpaceInv, InRequest, Erases
    <2>2. op' = op /\ pc' = "stamp" /\ InUse' => InUse
      BY <1>1 DEF InUse, Clearing, Erases
    <2> QED BY <1>1, <2>1, <2>2
  <1> QED BY <1>1, <1>2, <1>3, QuietChain

\* A sector is erased that no valid page leads to.
LEMMA EraseChain ==
    ASSUME Sound, ChainInv, EraseSector PROVE ChainInv'
  <1> USE DEF Sound
  <1>1. /\ pc = "erase" /\ pc' = "mark" /\ era.page \in Page /\ UNCHANGED <<ram, op, era>>
        /\ status'[era.page] # "valid"
        /\ \A p \in Page : p # era.page => (Valid(p)' <=> Valid(p)) /\ seq'[p] = seq[p]
    BY DEF EraseSector, Typed, TypeOK, FlashType, CallType, Erasing, Valid
  <1>2. CASE InUse'
    <2>1. InUse /\ Chain(cur) /\ cur \in Page /\ cur' = cur /\ era.page # cur
      <3>1. InUse
        BY <1>1, <1>2 DEF InUse, Clearing, Erases
      <3> QED BY <1>1, <3>1, ErasedApart DEF ChainInv, ram
    <2>2. ~Valid(era.page) \/ era.page = Oldest(status, cur)
      <3>1. CASE era.by = "collect"
        BY <1>1, <2>1, <3>1 DEF SpaceInv, InRequest, CollectsOldest, Erases
      <3>2. CASE era.by # "collect"
        BY <1>1, <2>1, <3>2 DEF SpaceInv, InRequest, ErasesFree, Erases, InUse, Clearing
      <3> QED BY <3>1, <3>2
    <2>3. Chain(cur)'
      <3>1. PICK c \in Page : c = cur
        BY <2>1
      <3>2. PICK o \in Page : o = era.page
        BY <1>1
      <3>3. ~Valid(o)'
        BY <1>1, <3>2 DEF Valid
      <3>4. Chain(c)'
        BY <1>1, <2>1, <2>2, <3>1, <3>2, <3>3, DropOldest
      <3>5. cur' = c
        BY <2>1, <3>1
      <3> QED BY <3>4, <3>5 DEF Chain
    <2> QED BY <1>1, <2>3 DEF ChainInv
  <1> QED BY <1>1, <1>2 DEF ChainInv

LEMMA StampChain ==
    ASSUME Sound, ChainInv, StampNext \/ StampFirst PROVE ChainInv'
  <1> USE DEF Sound
  <1>1. /\ pc = "stamp" /\ era.by = "format" /\ era.page \in Page /\ pc' # "off"
        /\ cur' = era.page /\ status'[era.page] = "valid"
        /\ \A p \in Page : p # era.page => (Valid(p)' <=> Valid(p)) /\ seq'[p] = seq[p]
    BY DEF StampNext, StampFirst, StampPage, StartGc, Typed, TypeOK, FlashType, CallOK, CallType,
           Erasing, Valid
  <1>2. CASE StampNext
    <2>1. /\ op.kind \in {"save", "collect"}
          /\ seq'[era.page] = (seq[cur] + 1) % SeqMod
      BY <1>1, <1>2 DEF StampNext, StampPage, Typed, TypeOK, FlashType
    <2>2. InUse /\ cur \in Page /\ Chain(cur) /\ era.page = After(cur) /\ ~Valid(era.page)
      BY <1>1, <2>1, UseFacts DEF SpaceInv, ErasesFree, Erases, ChainInv, Typed, TypeOK, RamType,
         After, NextPage
    <2>3. PICK c \in Page : c = cur
      BY <2>2
    <2>4. PICK q \in Page : q = era.page
      BY <1>1
    <2>5. Valid(q)'
      BY <1>1, <2>4 DEF Valid
    <2>6. Chain(q)'
      BY <1>1, <2>1, <2>2, <2>3, <2>4, <2>5, AddLast
    <2>7. cur' = q
      BY <1>1, <2>4
    <2>8. Chain(cur)'
      BY <2>6, <2>7 DEF Chain
    <2> QED BY <1>1, <2>8 DEF ChainInv
  <1>3. CASE StampFirst
    <2>1. NoneValid /\ op.kind \in {"boot", "clear", "wipe"}
      BY <1>1, <1>3 DEF StampFirst, SpaceInv, ErasesFree, Erases
    <2>2. \A p \in Page : Valid(p)' <=> p = cur'
      BY <1>1, <2>1 DEF NoneValid, Valid
    <2>3. Chain(cur)'
      BY <1>1, <2>2 DEF Chain
    <2> QED BY <1>1, <2>3 DEF ChainInv
  <1> QED BY <1>2, <1>3

LEMMA ClearChain ==
    ASSUME Sound, ChainInv, ClearPage \/ ClearTable \/ FormatFirst PROVE ChainInv'
  <1>1. ~InUse'
    <2>1. CASE ClearPage \/ ClearTable
      <3>1. op.kind \in {"clear", "wipe"} /\ op' = op
        BY <2>1 DEF ClearPage, ClearTable, Sound, Typed, CallOK
      <3> QED BY <3>1 DEF InUse, Clearing
    <2>2. CASE FormatFirst
      BY <2>2 DEF FormatFirst, BeginFormat, BootOp, InUse, Erases
    <2> QED BY <2>1, <2>2
  <1>2. pc' # "off"
    BY DEF ClearPage, ClearTable, FormatFirst, BeginFormat
  <1> QED BY <1>1, <1>2 DEF ChainInv

LEMMA MountChain ==
    ASSUME Sound, ChainInv, Mount PROVE ChainInv'
  <1>1. PICK best \in Search : best[N] # -1 /\ cur' = best[N]
    BY DEF Mount
  <1>2. pc = "off" /\ pc' # "off" /\ UNCHANGED <<status, seq>>
    BY DEF Mount, flash
  <1>3. cur' \in Page /\ Valid(cur')
    BY <1>1, SearchFindsValid
  <1>4. PICK c \in Page : Chain(c)
    BY <1>2, <1>3 DEF ChainInv, NoneValid
  <1>5. cur' = c
    BY <1>1, <1>4, SearchFindsLast DEF Sound, Typed, TypeOK
  <1>6. Chain(cur)'
    BY <1>2, <1>4, <1>5 DEF Chain, Valid
  <1> QED BY <1>2, <1>6 DEF ChainInv

LEMMA RecoverEndChain ==
    ASSUME Sound, ChainInv, RecoverEnd PROVE ChainInv'
  <1> USE DEF Sound
  <1>1. /\ pc = "recover" /\ op.kind = "boot" /\ pc' # "off" /\ cur' = cur
        /\ status' = [status EXCEPT ![gc.page] = "dead"] /\ seq' = [seq EXCEPT ![gc.page] = 0]
    BY DEF RecoverEnd, SpaceInv, InRequest
  <1>2. Scans /\ InUse /\ gc.page \in Page /\ gc.page # cur /\ cur \in Page
        /\ gc.page = Oldest(status, cur)
    BY <1>1, ScanFacts DEF Scans
  <1>3. PICK c \in Page : c = cur
    BY <1>2
  <1>4. PICK o \in Page : o = gc.page
    BY <1>2
  <1>5. /\ ~Valid(o)'
        /\ \A p \in Page : p # o => (Valid(p)' <=> Valid(p)) /\ seq'[p] = seq[p]
    BY <1>1, <1>4 DEF Typed, TypeOK, FlashType, Valid
  <1>6. Chain(c)'
    BY <1>2, <1>3, <1>4, <1>5, DropOldest DEF ChainInv
  <1>7. Chain(cur)'
    BY <1>1, <1>3, <1>6 DEF Chain
  <1> QED BY <1>1, <1>7 DEF ChainInv

\* Wherever power is lost, the log has one last page, or no page at all.
LEMMA PowerLossChain ==
    ASSUME Sound, ChainInv, ClearCrash = FALSE, PowerLoss PROVE ChainInv'
  <1> USE DEF Sound
  <1>1. pc' = "off" /\ ~InUse' /\ pc # "off" /\ ~Clearing
    <2>1. LoseRam
      BY DEF PowerLoss, Crash, CutWrite
    <2> QED BY <2>1 DEF LoseRam, InUse, PowerLoss, Crash, CutWrite
  <1>2. InUse \/ NoneValid
    BY <1>1 DEF InUse, Clearing, SpaceInv, ErasesFree
  <1>3. PICK c \in Page : c = cur
    BY DEF Typed, TypeOK, RamType
  <1>4. InUse => Chain(c)
    BY <1>3 DEF ChainInv
  <1> SUFFICES NoneValid' \/ \E b \in Page : Chain(b)'
    BY <1>1 DEF ChainInv
  <1>5. CASE UNCHANGED <<status, seq>>
    BY <1>2, <1>4, <1>5 DEF NoneValid, Chain, Valid
  <1>6. ASSUME NEW k \in Cuts, NEW q \in Page, Restored(q, k),
               k = 0 => ~Valid(q) \/ q = c \/ (q # c /\ q = Oldest(status, c))
        PROVE  NoneValid' \/ \E b \in Page : Chain(b)'
    <2>1. CASE k # 0
      <3>1. UNCHANGED <<status, seq>>
        BY <1>6, <2>1 DEF Restored, Typed, TypeOK, FlashType
      <3> QED BY <1>5, <3>1
    <2>2. CASE k = 0
      <3>1. /\ ~Valid(q)'
            /\ \A p \in Page : p # q => (Valid(p)' <=> Valid(p)) /\ seq'[p] = seq[p]
        BY <1>6, <2>2 DEF Restored, Typed, TypeOK, FlashType, Valid
      <3>2. CASE NoneValid
        BY <3>1, <3>2 DEF NoneValid
      <3>3. CASE InUse /\ q = c
        BY <1>4, <3>1, <3>3, DropLast
      <3>4. CASE InUse /\ q # c
        BY <1>4, <1>6, <2>2, <3>1, <3>4, DropOldest
      <3> QED BY <1>2, <3>2, <3>3, <3>4
    <2> QED BY <2>1, <2>2
  <1>7. CASE CutWrite
    <2>1. PICK k \in Cuts :
            \/ pc \in {"write", "key"} /\ Restored(cur, k)
            \/ pc = "stamp" /\ Restored(era.page, k)
            \/ pc = "recover" /\ Restored(gc.page, k)
      BY <1>1, <1>7 DEF CutWrite, Typed, CallOK, Clearing
    <2>2. pc = "stamp" => era.page \in Page /\ ~Valid(era.page)
      BY <1>1 DEF Typed, TypeOK, CallType, Erasing, CallOK, SpaceInv, InRequest, ErasesFree, Erases,
         NoneValid
    <2>3. pc = "recover" => gc.page \in Page /\ gc.page # c /\ gc.page = Oldest(status, c)
      BY <1>3, ScanFacts DEF Scans, SpaceInv, InRequest
    <2> QED BY <1>3, <1>6, <2>1, <2>2, <2>3
  <1>8. CASE Crash
    BY <1>5, <1>8 DEF Crash, flash
  <1> QED BY <1>7, <1>8 DEF PowerLoss

LEMMA ChainNext ==
    ASSUME Orderly, ClearCrash = FALSE, Sound, ChainInv, [Next]_vars PROVE ChainInv'
  <1>1. ~FormatFails /\ ~CollectFails /\ ~SweepFails
    BY DEF Orderly, FormatFails, CollectFails, SweepFails, MarkFails
  <1>2. CASE UNCHANGED vars
    BY <1>2 DEF vars, flash, ram, call, ChainInv, InUse, Clearing, Erases, Chain, Valid, NoneValid
  <1> QED
    BY <1>1, <1>2, CallChain, MarkChain, EraseChain, StampChain, ClearChain, MountChain,
       RecoverEndChain, PowerLossChain DEF Next, Step, Request

\* No power loss during a clear, which would leave a log with a gap.
Undisturbed == Orderly /\ ClearCrash = FALSE

LEMMA ChainAlways == Undisturbed => (Spec => [](Sound /\ ChainInv))
  <1> SUFFICES ASSUME Undisturbed PROVE Spec => [](Sound /\ ChainInv)
    OBVIOUS
  <1>1. Init => ChainInv
    BY ChainInit
  <1>2. Sound /\ ChainInv /\ [Next]_vars => ChainInv'
    BY ChainNext DEF Undisturbed
  <1>3. Orderly
    BY DEF Undisturbed
  <1> QED BY <1>1, <1>2, <1>3, SoundAlways, PTL DEF Spec

\* Between two calls, if the faults are those of Orderly and no clear is cut
\* short: the valid pages are the ones that ftl_get_prev_page leads back to from
\* the current one, across the end of the ring and the wrap of the sequence
\* numbers, and the page search of ftl_init would come to the current page -
\* however many pages were collected, swept, cut or recovered before.
THEOREM NoOrphanAlways == Undisturbed => (Spec => []NoOrphanPage)
  <1> SUFFICES ASSUME Undisturbed PROVE Spec => []NoOrphanPage
    OBVIOUS
  <1>1. Sound /\ ChainInv => NoOrphanPage
    <2> SUFFICES ASSUME Sound, ChainInv, pc = "idle"
                 PROVE  /\ \A p \in Page : Valid(p) <=> \E i \in 0 .. ChainLength(cur) : p = Back(cur, i)
                        /\ \A best \in Search : best[N] = cur
      BY DEF NoOrphanPage
    <2>1. cur \in Page /\ Chain(cur) /\ Valid(cur) /\ FlashType
      BY UseFacts DEF Sound, ChainInv, Chain, Typed, TypeOK, RamType
    <2>2. \A i \in 0 .. ChainLength(cur) : Valid(Back(cur, i))
      BY <2>1, ChainValid
    <2>3. ASSUME NEW p \in Page, Valid(p)
          PROVE  \E i \in 0 .. ChainLength(cur) : p = Back(cur, i)
      BY <2>1, <2>3, BackFinds, ChainReaches
    <2>4. \A best \in Search : best[N] = cur
      BY <2>1, SearchFindsLast
    <2> QED BY <2>2, <2>3, <2>4
  <1> QED BY <1>1, ChainAlways, PTL

-----------------------------------------------------------------------------
(* The table and the log *)

\* The cells that hold keys.
Keys == ScanFrom(E - 1)

\* The table has the last record of each address, counted back from the current
\* page and down from the end of a page.
LatestInv ==
    InUse =>
        \A a \in Addr, i \in 0 .. N - 1, k \in Keys :
            Valid(Back(cur, i)) /\ cell[Back(cur, i)][k] = KeyOf(a)
                => /\ map[a] # 0
                   /\ \E j \in 0 .. i : /\ PageOf(map[a]) = Back(cur, j)
                                        /\ j = i => k <= IndexOf(map[a]) + 1

LEMMA KeyCells ==
    /\ \A k \in Keys : k \in 3 .. E - 1 /\ k \in Cell /\ k % 2 = 1 /\ k - 1 \in Cell /\ (k - 1) % 2 = 0
    /\ \A k \in Cell : k % 2 = 1 => k \in Keys
    /\ \A i \in Cell : i % 2 = 0 /\ i + 1 \in Cell => i + 1 \in Keys
  <1>1. ASSUME NEW k \in Keys
        PROVE  k \in 3 .. E - 1 /\ k \in Cell /\ k % 2 = 1 /\ k - 1 \in Cell /\ (k - 1) % 2 = 0
    <2>1. k \in 3 .. E - 1 /\ k % 2 = 1
      BY OddKeys DEF Keys
    <2> QED BY <2>1, Bounds DEF Cell
  <1>2. ASSUME NEW k \in Cell, k % 2 = 1 PROVE k \in Keys
    BY <1>2, FtlAssumption DEF Cell, Keys, ScanFrom
  <1>3. ASSUME NEW i \in Cell, i % 2 = 0, i + 1 \in Cell PROVE i + 1 \in Keys
    BY <1>2, <1>3, Bounds DEF Cell
  <1> QED BY <1>1, <1>2, <1>3

LEMMA BackFirst ==
    ASSUME NEW c \in Page
    PROVE  Back(c, 0) = c /\ \A i \in 1 .. N - 1 : Back(c, i) # c
  BY BackIs, AfterBack, Bounds DEF Page

LEMMA LatestInit == Init => LatestInv
  BY DEF Init, LatestInv, InUse

\* The steps that leave the keys of the valid pages, and the table, alone.
LEMMA QuietLatest ==
    ASSUME Sound, LatestInv, InUse' => InUse, UNCHANGED <<cur, map>>,
           \A p \in Page : Valid(p)' => Valid(p) /\ \A k \in Keys : cell'[p][k] = cell[p][k]
    PROVE  LatestInv'
  <1> SUFFICES ASSUME InUse', NEW a \in Addr, NEW i \in 0 .. N - 1, NEW k \in Keys,
                      Valid(Back(cur, i))', cell'[Back(cur, i)][k] = KeyOf(a)
               PROVE  /\ map[a] # 0
                      /\ \E j \in 0 .. i : /\ PageOf(map[a]) = Back(cur, j)
                                           /\ j = i => k <= IndexOf(map[a]) + 1
    BY DEF LatestInv, Back
  <1>1. Back(cur, i) \in Page /\ cur' = cur
    BY BackIs DEF Sound, Typed, TypeOK, RamType
  <1>2. Valid(Back(cur, i)) /\ cell[Back(cur, i)][k] = KeyOf(a)
    BY <1>1 DEF Valid, Back
  <1> QED BY <1>2 DEF LatestInv

LEMMA CallLatest ==
    ASSUME Sound, LatestInv,
           \/ SetEnd \/ FindFreePage \/ CopyLive \/ RecoverCopy \/ CollectPage \/ Sweep
           \/ ClearAll \/ (\E s \in Saves : Save(s[1], s[2]))
           \/ (\E m \in GcPages, n \in GcCells : Collect(m, n))
    PROVE  LatestInv'
  <1>1. UNCHANGED <<status, cell, cur, map>>
    BY DEF SetEnd, FindFreePage, CopyLive, RecoverCopy, CopyNext, CollectPage, Sweep, ClearAll,
           Save, Collect, StartGc, flash, ram, call
  <1>2. InUse
    <2>1. pc \in {"idle", "write", "key", "scan", "recover"}
      BY DEF SetEnd, FindFreePage, CopyLive, RecoverCopy, CollectPage, Sweep, ClearAll, Save, Collect
    <2> QED BY <2>1, UseFacts DEF Sound
  <1> QED BY <1>1, <1>2, QuietLatest DEF Valid

LEMMA MarkLatest ==
    ASSUME Sound, LatestInv, MarkFormat \/ MarkCollected \/ MarkSwept
    PROVE  LatestInv'
  <1>1. /\ pc = "mark" /\ MarkErased /\ UNCHANGED <<cur, free, map>>
        /\ \/ op' = op /\ pc' = "stamp"
           \/ era.by = "collect" \/ era.by = "sweep"
    BY DEF MarkFormat, MarkCollected, MarkSwept, EndGc, SweepOn, ram, MarkErased
  <1>2. /\ \A p \in Page : Valid(p)' <=> Valid(p)
        /\ cell' = cell
    BY <1>1, MarkLog
  <1>3. InUse' => InUse
    <2>1. era.by \in {"collect", "sweep"} => InUse
      BY <1>1, UseFacts DEF Sound, SpaceInv, InRequest, Erases
    <2>2. op' = op /\ pc' = "stamp" /\ InUse' => InUse
      BY <1>1 DEF InUse, Clearing, Erases
    <2> QED BY <1>1, <2>1, <2>2
  <1> QED BY <1>1, <1>2, <1>3, QuietLatest

LEMMA EraseLatest ==
    ASSUME Sound, LatestInv, EraseSector PROVE LatestInv'
  <1>1. /\ pc = "erase" /\ pc' = "mark" /\ op' = op /\ UNCHANGED <<cur, map>>
        /\ \A p \in Page : p # era.page => status'[p] = status[p] /\ cell'[p] = cell[p]
        /\ era.page \in Page /\ status'[era.page] # "valid"
    BY DEF EraseSector, ram, Sound, Typed, TypeOK, FlashType, CallType, Erasing
  <1>2. InUse' => InUse
    BY <1>1 DEF InUse, Clearing, Erases
  <1>3. \A p \in Page : Valid(p)' => Valid(p) /\ \A k \in Keys : cell'[p][k] = cell[p][k]
    BY <1>1 DEF Valid
  <1> QED BY <1>1, <1>2, <1>3, QuietLatest

LEMMA RecoverEndLatest ==
    ASSUME Sound, LatestInv, RecoverEnd PROVE LatestInv'
  <1>1. /\ pc = "recover" /\ status' = [status EXCEPT ![gc.page] = "dead"]
        /\ UNCHANGED <<cur, map, cell>>
    BY DEF RecoverEnd
  <1>2. InUse
    BY <1>1, UseFacts DEF Sound
  <1>3. \A p \in Page : Valid(p)' => Valid(p)
    BY <1>1 DEF Valid, Sound, Typed, TypeOK, FlashType
  <1> QED BY <1>1, <1>2, <1>3, QuietLatest

LEMMA WriteDataLatest ==
    ASSUME Sound, LatestInv, WriteData PROVE LatestInv'
  <1>1. /\ pc = "write" /\ UNCHANGED <<status, cur, map>>
        /\ cell' = [cell EXCEPT ![cur][free] = wr.val] /\ free % 2 = 0
    BY DEF WriteData, ram, Sound, Aligned, RecordsAligned
  <1>2. \A k \in Keys : k # free
    BY <1>1, KeyCells, Parity
  <1>3. \A p \in Page, k \in Keys : cell'[p][k] = cell[p][k]
    BY <1>1, <1>2, KeyCells DEF Sound, Typed, TypeOK, FlashType
  <1>4. InUse
    BY <1>1, UseFacts DEF Sound
  <1> QED BY <1>1, <1>3, <1>4, QuietLatest DEF Valid

LEMMA WriteKeyLatest ==
    ASSUME Sound, LatestInv, WriteKey PROVE LatestInv'
  <1> USE DEF Sound
  <1>1. /\ cur \in Page /\ free \in Cell /\ free + 1 \in Cell /\ free % 2 = 0 /\ free \in Nat
        /\ wr.addr \in Addr /\ pc = "key"
        /\ cell' = [cell EXCEPT ![cur][free + 1] = KeyOf(wr.addr)]
        /\ map' = [map EXCEPT ![wr.addr] = Phy(cur, free)]
        /\ UNCHANGED <<status, cur>>
    BY Bounds DEF WriteKey, Return, Full, Typed, TypeOK, RamType, Aligned, RecordsAligned,
          Cell, CallOK, WritePending, Writes
  <1>2. InUse /\ \A i \in Cell : i > free + 1 => cell[cur][i] = Blank
    <2>1. InUse /\ \A i \in Cell : i > free => cell[cur][i] = Blank
      BY <1>1, UseFacts DEF LogInv, CursorClear
    <2>2. \A i \in Cell : i > free + 1 => i > free
      BY <1>1, Bounds DEF Cell
    <2> QED BY <2>1, <2>2
  <1>3. /\ PageOf(Phy(cur, free)) = cur /\ IndexOf(Phy(cur, free)) = free
        /\ Phy(cur, free) # 0
    BY <1>1, PhyInverse
  <1> SUFFICES ASSUME NEW a \in Addr, NEW i \in 0 .. N - 1, NEW k \in Keys,
                      Valid(Back(cur, i)), cell'[Back(cur, i)][k] = KeyOf(a)
               PROVE  /\ map'[a] # 0
                      /\ \E j \in 0 .. i : /\ PageOf(map'[a]) = Back(cur, j)
                                           /\ j = i => k <= IndexOf(map'[a]) + 1
    BY <1>1 DEF LatestInv, Back, Valid, PageOf, IndexOf
  <1>4. k \in Cell /\ KeyOf(a) # Blank /\ Back(cur, i) \in Page
    BY <1>1, KeyCells, BackIs, FtlAssumption DEF KeyOf
  <1>5. CASE a = wr.addr
    <2>1. map'[a] = Phy(cur, free)
      BY <1>1, <1>5 DEF Typed, TypeOK, RamType
    <2>2. 0 \in 0 .. i /\ Back(cur, 0) = cur
      BY <1>1, BackFirst
    <2>3. 0 = i => k <= free + 1
      <3> SUFFICES ASSUME 0 = i, k > free + 1 PROVE FALSE
        BY <1>1, <1>4, Bounds DEF Cell
      <3>1. cell'[cur][k] = cell[cur][k]
        BY <1>1, <1>4 DEF Typed, TypeOK, FlashType
      <3> QED BY <1>2, <1>4, <2>2, <3>1
    <2> QED BY <1>3, <2>1, <2>2, <2>3
  <1>6. CASE a # wr.addr
    <2>1. map'[a] = map[a]
      BY <1>1, <1>6 DEF Typed, TypeOK, RamType
    <2>2. ~(Back(cur, i) = cur /\ k = free + 1)
      <3> SUFFICES ASSUME Back(cur, i) = cur, k = free + 1 PROVE FALSE
        OBVIOUS
      <3>1. cell'[cur][free + 1] = KeyOf(wr.addr)
        BY <1>1 DEF Typed, TypeOK, FlashType
      <3> QED BY <1>6, <3>1 DEF KeyOf
    <2>3. cell[Back(cur, i)][k] = KeyOf(a)
      BY <1>1, <1>4, <2>2 DEF Typed, TypeOK, FlashType
    <2> QED BY <1>2, <2>1, <2>3 DEF LatestInv
  <1> QED BY <1>5, <1>6

\* From the new current page, the others are one page further back.
LEMMA StampNextLatest ==
    ASSUME Sound, LatestInv, StampNext PROVE LatestInv'
  <1> USE DEF Sound
  <1>1. /\ pc = "stamp" /\ op.kind \in {"save", "collect"} /\ era.by = "format" /\ era.page \in Page
        /\ cur' = era.page /\ UNCHANGED <<cell, map>>
        /\ \A p \in Page : p # era.page => status'[p] = status[p]
    BY DEF StampNext, StampPage, Typed, TypeOK, FlashType, CallOK, CallType, Erasing
  <1>2. /\ InUse /\ cur \in Page /\ era.page = After(cur) /\ Clean(era.page)
    BY <1>1, UseFacts DEF SpaceInv, ErasesFree, Erases, Typed, TypeOK, RamType, After, NextPage,
       LogInv, ErasedIsClean
  <1>3. PICK q \in Page : q = era.page /\ cur' = q
    BY <1>1
  <1>4. ASSUME NEW i \in 1 .. N - 1
        PROVE  Back(q, i) = Back(cur, i - 1) /\ i - 1 \in 0 .. N - 1 /\ Back(q, i) # q
               /\ Back(q, i) \in Page
    <2>1. i - 1 \in 0 .. N - 1 /\ i \in 0 .. N - 1 /\ cur \in Page
      BY <1>2, Bounds
    <2>2. q = IF cur + 1 < N THEN cur + 1 ELSE 0
      BY <1>2, <1>3, AfterIs
    <2>3. /\ Back(q, i) = IF i <= q THEN q - i ELSE q + N - i
          /\ Back(q, i) \in Page
      BY <2>1, BackIs
    <2>4. Back(cur, i - 1) = IF i - 1 <= cur THEN cur - (i - 1) ELSE cur + N - (i - 1)
      BY <2>1, BackIs
    <2>5. Back(q, i) # q
      BY AfterBack
    <2> QED BY <2>1, <2>2, <2>3, <2>4, <2>5, Bounds DEF Page
  <1> SUFFICES ASSUME NEW a \in Addr, NEW i \in 0 .. N - 1, NEW k \in Keys,
                      Valid(Back(q, i))', cell[Back(q, i)][k] = KeyOf(a)
               PROVE  /\ map[a] # 0
                      /\ \E j \in 0 .. i : /\ PageOf(map[a]) = Back(q, j)
                                           /\ j = i => k <= IndexOf(map[a]) + 1
    BY <1>1, <1>3 DEF LatestInv, Back, PageOf, IndexOf
  <1>5. i # 0
    <2> SUFFICES ASSUME i = 0 PROVE FALSE
      OBVIOUS
    <2>1. Back(q, i) = q
      BY BackFirst
    <2>2. cell[q][k] = Blank /\ KeyOf(a) # Blank
      BY <1>2, <1>3, KeyCells, FtlAssumption DEF Clean, KeyOf
    <2> QED BY <2>1, <2>2
  <1>6. /\ i \in 1 .. N - 1 /\ i - 1 \in 0 .. N - 1
        /\ Back(q, i) = Back(cur, i - 1) /\ Back(q, i) # q /\ Back(q, i) \in Page
    BY <1>4, <1>5
  <1>7. Valid(Back(cur, i - 1)) /\ cell[Back(cur, i - 1)][k] = KeyOf(a)
    BY <1>1, <1>3, <1>6 DEF Valid
  <1>8. map[a] # 0 /\ \E j \in 0 .. i - 1 : /\ PageOf(map[a]) = Back(cur, j)
                                            /\ j = i - 1 => k <= IndexOf(map[a]) + 1
    BY <1>2, <1>6, <1>7 DEF LatestInv
  <1>9. PICK j \in 0 .. i - 1 : /\ PageOf(map[a]) = Back(cur, j)
                                /\ j = i - 1 => k <= IndexOf(map[a]) + 1
    BY <1>8
  <1>10. j + 1 \in 1 .. N - 1 /\ (j + 1) - 1 = j /\ j + 1 \in 0 .. i /\ (j + 1 = i => j = i - 1)
    BY Bounds
  <1>11. PageOf(map[a]) = Back(q, j + 1)
    BY <1>4, <1>9, <1>10
  <1> QED BY <1>8, <1>9, <1>10, <1>11

LEMMA StampFirstLatest ==
    ASSUME Sound, LatestInv, StampFirst PROVE LatestInv'
  <1> USE DEF Sound
  <1>1. /\ pc = "stamp" /\ op.kind \in {"boot", "clear", "wipe"} /\ era.page \in Page
        /\ cur' = era.page /\ cell' = cell
        /\ \A p \in Page : p # era.page => status'[p] = status[p]
    BY DEF StampFirst, StampPage, Typed, TypeOK, FlashType, CallType, Erasing
  <1>2. NoneValid /\ Clean(era.page)
    BY <1>1 DEF LogInv, ErasedIsClean, Erases, SpaceInv, ErasesFree
  <1>3. \A p \in Page : Valid(p)' => \A k \in Keys : cell'[p][k] = Blank
    BY <1>1, <1>2, KeyCells DEF NoneValid, Valid, Clean
  <1>4. \A a \in Addr : KeyOf(a) # Blank
    BY FtlAssumption DEF KeyOf
  <1>5. cur' \in Page /\ \A i \in 0 .. N - 1 : Back(cur', i) \in Page
    BY <1>1, BackIs
  <1> QED BY <1>3, <1>4, <1>5 DEF LatestInv, Valid, Back

\* write_mapping_table keeps the first key that it finds for an address, and it
\* looks from the newest record to the oldest one.
LEMMA MapInitLatest ==
    ASSUME Typed, EndsLast, NEW c \in Page, Chain(c), FreeCell(c) % 2 = 0,
           NEW a \in Addr, NEW i \in 0 .. N - 1, NEW k \in Keys,
           Valid(Back(c, i)), cell[Back(c, i)][k] = KeyOf(a)
    PROVE  LET m == MapInit(c, FreeCell(c))[a]
           IN  /\ m # 0
               /\ \E j \in 0 .. i : PageOf(m) = Back(c, j) /\ (j = i => k <= IndexOf(m) + 1)
  <1> DEFINE f == FreeCell(c)
             hits == {j \in 0 .. ChainLength(c) : KeysAt(c, f, j, a) # {}}
             n == Min(hits)
             keys == KeysAt(c, f, n, a)
             top == Max(keys)
             m == MapInit(c, f)[a]
  <1>1. hits # {} => m = Phy(Back(c, n), top - 1)
    BY DEF MapInit
  <1>2. f \in 2 .. E /\ f % 2 = 0 /\ \A j \in Cell : j >= f => cell[c][j] = Blank
    BY FreeCellClear
  <1> HIDE DEF f
  <1>3. k \in KeysAt(c, f, i, a)
    <2>1. k \in 3 .. E - 1 /\ k \in Cell /\ k % 2 = 1 /\ k \in ScanFrom(E - 1)
      BY KeyCells DEF Keys
    <2>2. CASE i = 0
      <3>1. Back(c, i) = c /\ KeyOf(a) # Blank
        BY <2>2, BackFirst, FtlAssumption DEF KeyOf
      <3>2. ~(k >= f)
        BY <1>2, <2>1, <3>1
      <3>3. f - 1 \in Nat /\ (f - 1) % 2 = 1 /\ k <= f - 1
        BY <1>2, <2>1, <3>2, Bounds
      <3>4. k \in ScanFrom(f - 1)
        BY <2>1, <3>3, OddKeys
      <3> QED BY <2>2, <3>4 DEF KeysAt
    <2>3. CASE i # 0
      <3>1. LastKey(Back(c, i)) = E - 1
        BY BackIs, StartsAtEnd
      <3> QED BY <2>1, <2>3, <3>1 DEF KeysAt
    <2> QED BY <2>2, <2>3
  <1>4. i \in hits
    BY <1>3, ChainReaches DEF Typed, TypeOK
  <1>5. n \in hits /\ n <= i
    <2>1. hits \in SUBSET Nat
      <3>1. ChainLength(c) \in 0 .. N - 1
        BY ChainLengthType
      <3> QED BY <3>1
    <2> HIDE DEF hits
    <2> QED BY <1>4, <2>1, MinIsLeast
  <1>6. n \in 0 .. i /\ n \in 0 .. N - 1 /\ keys # {} /\ hits # {}
    <2>1. n \in Nat
      BY <1>5
    <2> HIDE DEF n
    <2> QED BY <1>4, <1>5, <2>1, Bounds
  <1> HIDE DEF hits, n
  <1>7. keys \in SUBSET Nat /\ E - 1 \in Nat /\ \A x \in keys : x <= E - 1 /\ x \in 3 .. E - 1
    BY ScanFromType, Bounds DEF KeysAt
  <1>8. top \in keys /\ \A x \in keys : x <= top
    <2> HIDE DEF keys
    <2> QED BY <1>6, <1>7, MaxIsGreatest
  <1>9. top \in 3 .. E - 1 /\ top % 2 = 1
    <2>1. \E l \in Nat : l % 2 = 1 /\ top \in ScanFrom(l)
      <3>1. CASE n = 0
        <4>1. top \in ScanFrom(f - 1)
          BY <1>8, <3>1 DEF KeysAt
        <4>2. f - 1 \in Nat /\ (f - 1) % 2 = 1
          BY <1>2, Bounds
        <4> QED BY <4>1, <4>2
      <3>2. CASE n # 0
        <4>1. top \in ScanFrom(LastKey(Back(c, n)))
          BY <1>8, <3>2 DEF KeysAt
        <4>2. LastKey(Back(c, n)) = E - 1 /\ (E - 1) % 2 = 1
          BY <1>6, BackIs, StartsAtEnd
        <4> QED BY <1>7, <4>1, <4>2
      <3> QED BY <3>1, <3>2
    <2>2. top \in 3 .. E - 1
      BY <1>7, <1>8
    <2> HIDE DEF top
    <2> QED BY <2>1, <2>2, Bounds DEF ScanFrom
  <1>10. n = i => k <= top
    BY <1>3, <1>8
  <1> HIDE DEF keys, top
  <1>11. top - 1 \in Cell /\ (top - 1) % 2 = 0 /\ (top - 1) + 1 = top
    BY <1>9, Bounds DEF Cell
  <1>12. /\ m = Phy(Back(c, n), top - 1) /\ m # 0
         /\ PageOf(m) = Back(c, n) /\ IndexOf(m) = top - 1
    BY <1>1, <1>6, <1>11, BackIs, PhyInverse
  <1> QED BY <1>6, <1>10, <1>11, <1>12 DEF f

LEMMA MountLatest ==
    ASSUME Sound, LatestInv, WholeRecords, Mount, Chain(cur)', cur' \in Page PROVE LatestInv'
  <1> USE DEF Sound
  <1>1. /\ free' = FreeCell(cur') /\ map' = MapInit(cur', free') /\ UNCHANGED flash
    BY DEF Mount
  <1>2. free' % 2 = 0
    BY AlignedMount DEF Aligned, RecordsAligned
  <1>3. PICK c \in Page : c = cur'
    OBVIOUS
  <1>4. Chain(c)
    BY <1>1, <1>3 DEF Chain, Valid, flash
  <1>5. ASSUME NEW a \in Addr, NEW i \in 0 .. N - 1, NEW k \in Keys,
               Valid(Back(c, i)), cell[Back(c, i)][k] = KeyOf(a)
        PROVE  /\ map'[a] # 0
               /\ \E j \in 0 .. i : /\ PageOf(map'[a]) = Back(c, j)
                                    /\ j = i => k <= IndexOf(map'[a]) + 1
    BY <1>1, <1>2, <1>3, <1>4, <1>5, MapInitLatest DEF LogInv
  <1>6. UNCHANGED <<status, cell>>
    BY <1>1 DEF flash
  <1> QED BY <1>3, <1>5, <1>6 DEF LatestInv, Valid, Back, PageOf, IndexOf

LEMMA LatestNext ==
    ASSUME Undisturbed, Sound, ChainInv, ChainInv', Typed', LatestInv, [Next]_vars
    PROVE  LatestInv'
  <1>1. ~FormatFails /\ ~CollectFails /\ ~SweepFails
    BY DEF Undisturbed, Orderly, FormatFails, CollectFails, SweepFails, MarkFails
  <1>2. CASE UNCHANGED vars
    <2>1. InUse' = InUse /\ UNCHANGED <<status, cell, cur, map>>
      BY <1>2 DEF vars, flash, ram, call, InUse, Clearing, Erases
    <2> QED BY <2>1, QuietLatest DEF Valid
  <1>3. CASE ClearPage \/ ClearTable \/ FormatFirst \/ PowerLoss
    <2>1. CASE ClearPage \/ ClearTable
      <3>1. op.kind \in {"clear", "wipe"} /\ op' = op
        BY <2>1 DEF ClearPage, ClearTable, Sound, Typed, CallOK
      <3> QED BY <3>1 DEF InUse, Clearing, LatestInv
    <2>2. CASE FormatFirst
      BY <2>2 DEF FormatFirst, BeginFormat, BootOp, InUse, Erases, LatestInv
    <2>3. CASE PowerLoss
      <3>1. pc' = "off"
        BY <2>3 DEF PowerLoss, Crash, CutWrite, LoseRam
      <3> QED BY <3>1 DEF InUse, LatestInv
    <2> QED BY <1>3, <2>1, <2>2, <2>3
  <1>4. CASE Mount
    <2>1. pc' \in {"recover", "idle"} /\ WholeRecords /\ cur' \in Page
      BY <1>4, SearchFindsValid DEF Mount, Undisturbed, Orderly
    <2>2. InUse'
      BY <1>4, <2>1 DEF Mount, InUse, Clearing, BootOp, NoOp, Erases
    <2> QED BY <1>4, <2>1, <2>2, MountLatest DEF ChainInv
  <1> QED
    BY <1>1, <1>2, <1>3, <1>4, CallLatest, MarkLatest, EraseLatest, RecoverEndLatest,
       WriteDataLatest, WriteKeyLatest, StampNextLatest, StampFirstLatest
       DEF Next, Step, Request

Logged == Sound /\ ChainInv /\ LatestInv

LEMMA LoggedAlways == Undisturbed => (Spec => []Logged)
  <1> SUFFICES ASSUME Undisturbed PROVE Spec => []Logged
    OBVIOUS
  <1>1. Init => LatestInv
    BY LatestInit
  <1>2. Sound /\ ChainInv /\ Sound' /\ ChainInv' /\ LatestInv /\ [Next]_vars => LatestInv'
    BY LatestNext DEF Sound
  <1>3. Logged <=> Sound /\ ChainInv /\ LatestInv
    BY DEF Logged
  <1> QED BY <1>1, <1>2, <1>3, ChainAlways, PTL DEF Spec

-----------------------------------------------------------------------------
(* What a boot would recover *)

\* One step back in the sequence numbers.
LEMMA SeqBefore ==
    ASSUME NEW s \in 0 .. SeqMod - 1, NEW d \in 0 .. N - 1
    PROVE  (((s + d) % SeqMod) + SeqMod - d) % SeqMod = s
  <1> DEFINE t == (s + d) % SeqMod
             x == t + SeqMod - d
  <1>1. d \in 0 .. SeqMod /\ d <= SeqMod - 1
    BY Bounds
  <1>2. t = IF s + d < SeqMod THEN s + d ELSE s + d - SeqMod
    BY <1>1, SeqWraps
  <1> HIDE DEF t
  <1>3. x \in 0 .. 2 * SeqMod - 1 /\ x = (IF s + d < SeqMod THEN s + SeqMod ELSE s)
    BY <1>1, <1>2, Bounds
  <1> HIDE DEF x
  <1>4. x % SeqMod = IF x < SeqMod THEN x ELSE x - SeqMod
    BY <1>3, SeqModulo
  <1>5. x % SeqMod = s
    BY <1>3, <1>4, Bounds
  <1> QED BY <1>5 DEF x, t

\* The pages of the log are the valid ones.
LEMMA FollowsValid ==
    ASSUME FlashType, NEW c \in Page, Chain(c), NEW i \in 0 .. N - 1
    PROVE  Follows(c, i) <=> Valid(Back(c, i))
  <1>1. ASSUME Follows(c, i) PROVE Valid(Back(c, i))
    <2>1. CASE i = 0
      BY <2>1, BackFirst DEF Chain
    <2>2. CASE i # 0
      BY <1>1, <2>2 DEF Follows
    <2> QED BY <2>1, <2>2
  <1>2. ASSUME Valid(Back(c, i)), NEW j \in 1 .. i
        PROVE  Valid(Back(c, j)) /\ seq[Back(c, j)] = (seq[c] + SeqMod - j) % SeqMod
    <2>1. j \in 0 .. i /\ j \in 0 .. N - 1 /\ 0 \in 0 .. j /\ j - 0 = j
      BY Bounds
    <2>2. Valid(Back(c, j))
      BY <1>2, <2>1, ChainSolid
    <2>3. seq[c] = (seq[Back(c, j)] + j) % SeqMod
      BY <2>1, <2>2, ChainSolid, BackFirst
    <2>4. seq[Back(c, j)] \in 0 .. SeqMod - 1
      BY <2>1, BackIs DEF FlashType
    <2> QED BY <2>1, <2>2, <2>3, <2>4, SeqBefore
  <1> QED BY <1>1, <1>2 DEF Follows, Chain

\* No page continues the last one, and every other page is continued.
LEMMA NewestIs ==
    ASSUME FlashType, NEW c \in Page, Chain(c)
    PROVE  Newest = {c}
  <1>1. ASSUME NEW p \in Page, Valid(p), p # c PROVE p \notin Newest
    <2> DEFINE q == After(p)
    <2>1. Valid(q) /\ seq[q] = (seq[p] + 1) % SeqMod
      BY <1>1 DEF Chain
    <2>2. Back(q, 1) = p
      <3>1. q \in Page /\ 1 \in 0 .. N - 1 /\ q = IF p + 1 < N THEN p + 1 ELSE 0
        BY AfterIs, Bounds
      <3> HIDE DEF q
      <3>2. Back(q, 1) = IF 1 <= q THEN q - 1 ELSE q + N - 1
        BY <3>1, BackIs
      <3> QED BY <3>1, <3>2, Bounds DEF Page
    <2>3. seq[p] \in 0 .. SeqMod - 1 /\ 1 \in 0 .. N - 1
      BY Bounds DEF FlashType
    <2>4. seq[p] = (seq[q] + SeqMod - 1) % SeqMod
      BY <2>1, <2>3, SeqBefore
    <2>5. \A j \in 1 .. 1 : j = 1
      OBVIOUS
    <2>6. Follows(q, 1)
      BY <1>1, <2>1, <2>2, <2>4, <2>5 DEF Follows
    <2> QED BY <2>6 DEF Newest, After
  <1>2. c \in Newest
    <2> DEFINE q == After(c)
    <2> SUFFICES ASSUME Follows(q, 1) PROVE FALSE
      BY DEF Newest, Chain, After
    <2>1. N - 1 \in 0 .. N - 1 /\ 0 \in 0 .. N - 1 /\ N - 1 \in 1 .. N - 1 /\ 1 \in 0 .. N - 1
          /\ 0 \in 0 .. N - 1 /\ (N - 1) - 0 = N - 1
      BY Bounds
    <2>2. q \in Page /\ q = Back(c, N - 1)
      <3>1. q \in Page /\ q = IF c + 1 < N THEN c + 1 ELSE 0
        BY AfterIs
      <3>2. Back(c, N - 1) = IF N - 1 <= c THEN c - (N - 1) ELSE c + N - (N - 1)
        BY <2>1, BackIs
      <3> HIDE DEF q
      <3> QED BY <3>1, <3>2, Bounds DEF Page
    <2>3. Valid(q) /\ seq[Back(q, 1)] = (seq[q] + SeqMod - 1) % SeqMod
      BY DEF Follows
    <2>4. Back(q, 1) = c
      <3>1. q = IF c + 1 < N THEN c + 1 ELSE 0
        BY AfterIs
      <3> HIDE DEF q
      <3>2. Back(q, 1) = IF 1 <= q THEN q - 1 ELSE q + N - 1
        BY <2>1, <2>2, BackIs
      <3> QED BY <3>1, <3>2, Bounds DEF Page
    <2>5. seq[c] = (seq[q] + (N - 1)) % SeqMod
      BY <2>1, <2>2, <2>3, ChainSolid, BackFirst
    <2> DEFINE s == seq[q]
    <2>6. s \in 0 .. SeqMod - 1 /\ seq[c] \in 0 .. SeqMod - 1
      BY <2>2 DEF FlashType
    <2>7. seq[c] = (s + (N - 1)) % SeqMod /\ seq[c] = (s + SeqMod - 1) % SeqMod
      BY <2>3, <2>4, <2>5
    <2> HIDE DEF s
    <2> DEFINE d == N - 1
               e == SeqMod - 1
    <2>8. d \in 0 .. SeqMod /\ e \in 0 .. SeqMod /\ d < e /\ e = SeqMod - 1 /\ d >= 0
      BY Bounds
    <2>9. s + SeqMod - 1 = s + e
      BY <2>6, Bounds
    <2> HIDE DEF d, e
    <2>10. /\ (s + d) % SeqMod = IF s + d < SeqMod THEN s + d ELSE s + d - SeqMod
           /\ (s + e) % SeqMod = IF s + e < SeqMod THEN s + e ELSE s + e - SeqMod
      BY <2>6, <2>8, SeqWraps
    <2>11. (s + d) % SeqMod = (s + e) % SeqMod
      BY <2>7, <2>9 DEF d
    <2> QED BY <2>6, <2>8, <2>10, <2>11, Bounds
  <1> QED BY <1>1, <1>2 DEF Newest

\* The complete records of an address.
LEMMA RecordsAre ==
    ASSUME FlashType, NEW c \in Page, Chain(c), NEW a \in Addr
    PROVE  /\ \A r \in Records(c, a) : \E i \in 0 .. N - 1, k \in Keys :
                 r = <<i, k>> /\ Valid(Back(c, i)) /\ cell[Back(c, i)][k] = KeyOf(a)
           /\ \A i \in 0 .. N - 1, k \in Keys :
                 Valid(Back(c, i)) /\ cell[Back(c, i)][k] = KeyOf(a) => <<i, k>> \in Records(c, a)
  <1> DEFINE At(i) == {i} \X {k \in Cell : k % 2 = 1 /\ cell[Back(c, i)][k] = KeyOf(a)}
             Back0 == {j \in 0 .. N - 1 : Follows(c, j)}
  <1>1. Records(c, a) = UNION {At(i) : i \in Back0}
    BY DEF Records
  <1>2. ASSUME NEW r \in Records(c, a)
        PROVE  \E i \in 0 .. N - 1, k \in Keys :
                 r = <<i, k>> /\ Valid(Back(c, i)) /\ cell[Back(c, i)][k] = KeyOf(a)
    <2>1. PICK i \in Back0 : r \in At(i)
      BY <1>1, <1>2
    <2>2. PICK k \in Cell : r = <<i, k>> /\ k % 2 = 1 /\ cell[Back(c, i)][k] = KeyOf(a)
      BY <2>1
    <2>3. k \in Keys /\ i \in 0 .. N - 1 /\ Valid(Back(c, i))
      BY <2>1, <2>2, KeyCells, FollowsValid
    <2> QED BY <2>2, <2>3
  <1>3. ASSUME NEW i \in 0 .. N - 1, NEW k \in Keys,
               Valid(Back(c, i)), cell[Back(c, i)][k] = KeyOf(a)
        PROVE  <<i, k>> \in Records(c, a)
    <2>1. i \in Back0
      BY <1>3, FollowsValid
    <2>2. <<i, k>> \in At(i)
      BY <1>3, KeyCells
    <2> QED BY <1>1, <2>1, <2>2
  <1> QED BY <1>2, <1>3

LEMMA BackOnce ==
    ASSUME NEW c \in Page, NEW h \in 0 .. N - 1, NEW j \in 0 .. N - 1, Back(c, h) = Back(c, j)
    PROVE  h = j
  <1>1. /\ Back(c, h) = IF h <= c THEN c - h ELSE c + N - h
        /\ Back(c, j) = IF j <= c THEN c - j ELSE c + N - j
    BY BackIs
  <1>2. c \in 0 .. N - 1 /\ N \in Nat
    BY Bounds DEF Page
  <1>3. (IF h <= c THEN c - h ELSE c + N - h) = (IF j <= c THEN c - j ELSE c + N - j)
    BY <1>1
  <1> HIDE DEF Page
  <1>4. CASE h <= c /\ j <= c
    BY <1>2, <1>3, <1>4
  <1>5. CASE h > c /\ j > c
    BY <1>2, <1>3, <1>5
  <1>6. CASE (h <= c /\ j > c) \/ (h > c /\ j <= c)
    BY <1>2, <1>3, <1>6
  <1> QED BY <1>2, <1>4, <1>5, <1>6

\* The words that the table leads to.
Mapped == [a \in Addr |-> IF map[a] = 0 THEN None
                          ELSE cell[PageOf(map[a])][IndexOf(map[a])]]

\* None is none of them.
LEMMA MappedIsWord ==
    ASSUME Sound, InUse, NEW a \in Addr, map[a] # 0
    PROVE  Mapped[a] \in Word /\ Mapped[a] # None
  <1> USE DEF Sound
  <1> DEFINE i == IndexOf(map[a])
  <1>1. PageOf(map[a]) \in Page /\ i \in 0 .. E - 1 /\ i % 2 = 0 /\ i + 1 \in 2 .. E - 1
    BY MapPlaces DEF LogInv, MapPoints, RecordAt, Cell
  <1> HIDE DEF i
  <1>2. i \in 2 .. E - 1
    BY <1>1, Bounds
  <1>3. cell[PageOf(map[a])][IndexOf(map[a])] \in Word
    BY <1>1, <1>2 DEF i, Cell, Typed, TypeOK, FlashType
  <1> QED BY <1>3, LogAssumption DEF Mapped

LEMMA LogOfChain ==
    ASSUME FlashType, NEW c \in Page, Chain(c)
    PROVE  LogValue = LogFrom(c)
  <1>1. Newest = {c}
    BY NewestIs
  <1>2. {LogFrom(p) : p \in Newest} = {LogFrom(c)}
    BY <1>1
  <1> QED BY <1>1, <1>2 DEF LogValue

\* They are the last ones in the log.
LEMMA TableIsLog ==
    ASSUME Logged, InUse
    PROVE  LogValue = Mapped
  <1> USE DEF Logged, Sound
  <1>1. cur \in Page /\ Chain(cur) /\ FlashType
    BY DEF ChainInv, Typed, TypeOK, RamType
  <1>2. ASSUME NEW a \in Addr
        PROVE  LogFrom(cur)[a] = IF map[a] = 0 THEN None
                                 ELSE cell[PageOf(map[a])][IndexOf(map[a])]
    <2> DEFINE R == Records(cur, a)
               Last(r) == \A s \in R : Later(r, s)
               r0 == CHOOSE r \in R : Last(r)
    <2>1. LogFrom(cur)[a] = IF R = {} THEN None ELSE cell[Back(cur, r0[1])][r0[2] - 1]
      BY DEF LogFrom
    <2>2. \A r \in R : \E i \in 0 .. N - 1, k \in Keys :
              r = <<i, k>> /\ Valid(Back(cur, i)) /\ cell[Back(cur, i)][k] = KeyOf(a)
      BY <1>1, RecordsAre
    <2>3. \A i \in 0 .. N - 1, k \in Keys :
              Valid(Back(cur, i)) /\ cell[Back(cur, i)][k] = KeyOf(a) => <<i, k>> \in R
      BY <1>1, RecordsAre
    <2> HIDE DEF R
    <2>4. ASSUME NEW i \in 0 .. N - 1, NEW k \in Keys,
                 Valid(Back(cur, i)), cell[Back(cur, i)][k] = KeyOf(a)
          PROVE  map[a] # 0 /\ \E j \in 0 .. i : /\ PageOf(map[a]) = Back(cur, j)
                                                 /\ j = i => k <= IndexOf(map[a]) + 1
      BY <2>4 DEF LatestInv
    <2>5. CASE map[a] = 0
      BY <2>1, <2>2, <2>4, <2>5
    <2>6. CASE map[a] # 0
      <3> DEFINE p == PageOf(map[a])
                 k == IndexOf(map[a]) + 1
      <3>1. Valid(p) /\ p \in Page /\ k \in Keys /\ cell[p][k] = KeyOf(a)
            /\ k - 1 = IndexOf(map[a])
        <4>1. /\ Valid(p) /\ IndexOf(map[a]) % 2 = 0 /\ k \in Cell /\ cell[p][k] = KeyOf(a)
              /\ p \in Page /\ IndexOf(map[a]) \in 0 .. E - 1
          BY <2>6, MapPlaces DEF LogInv, MapPoints, RecordAt
        <4>2. k % 2 = 1
          <5> DEFINE i == IndexOf(map[a])
          <5>1. i \in 0 .. E - 1 /\ i % 2 = 0
            BY <4>1
          <5> HIDE DEF i
          <5>2. (i + 1) % 2 = 1
            BY <5>1, Bounds
          <5> QED BY <5>2 DEF i
        <4>3. k \in Keys
          BY <4>1, <4>2, KeyCells
        <4> QED BY <4>1, <4>3, Bounds
      <3>2. PICK j \in 0 .. N - 1 : p = Back(cur, j)
        BY <1>1, <3>1, BackFinds
      <3> HIDE DEF p, k
      <3>3. <<j, k>> \in R
        BY <2>3, <3>1, <3>2
      <3>4. ASSUME NEW s \in R PROVE Later(<<j, k>>, s)
        <4>1. PICK i \in 0 .. N - 1, l \in Keys :
                  s = <<i, l>> /\ Valid(Back(cur, i)) /\ cell[Back(cur, i)][l] = KeyOf(a)
          BY <2>2
        <4>2. PICK h \in 0 .. i : p = Back(cur, h) /\ (h = i => l <= k)
          BY <2>4, <4>1 DEF p, k
        <4>3. h = j
          <5>1. h \in 0 .. N - 1 /\ Back(cur, h) = Back(cur, j)
            BY <3>2, <4>2, Bounds
          <5> QED BY <1>1, <5>1, BackOnce
        <4>4. j < i \/ (j = i /\ k >= l)
          BY <3>1, <4>1, <4>2, <4>3, KeyCells, Bounds
        <4> QED BY <4>1, <4>4 DEF Later
      <3>5. ASSUME NEW r \in R, Last(r) PROVE r = <<j, k>>
        <4>1. PICK i \in 0 .. N - 1, l \in Keys : r = <<i, l>>
          BY <2>2
        <4>2. Later(<<i, l>>, <<j, k>>) /\ Later(<<j, k>>, <<i, l>>)
          BY <3>3, <3>4, <3>5, <4>1
        <4>3. /\ i < j \/ (i = j /\ l >= k)
              /\ j < i \/ (j = i /\ k >= l)
          BY <4>2 DEF Later
        <4>4. i = j /\ l = k
          BY <3>1, <4>3, KeyCells, Bounds
        <4> QED BY <4>1, <4>4
      <3>6. r0 = <<j, k>>
        <4>1. \E r \in R : Last(r)
          BY <3>3, <3>4
        <4>2. r0 \in R /\ Last(r0)
          BY <4>1
        <4> QED BY <3>5, <4>2
      <3>7. r0[1] = j /\ r0[2] = k
        <4> HIDE DEF r0
        <4> QED BY <3>6
      <3> QED BY <2>1, <2>6, <3>1, <3>2, <3>3, <3>7 DEF p
    <2> QED BY <2>5, <2>6
  <1>3. LogFrom(cur) = [a \in Addr |-> LogFrom(cur)[a]]
    BY DEF LogFrom
  <1>4. LogFrom(cur) = Mapped
    BY <1>2, <1>3 DEF Mapped
  <1> QED BY <1>1, <1>4, LogOfChain

\* ftl_read through the table in RAM returns what a boot would recover from the
\* flash, at every step of every save, collection and sweep, after every loss of
\* power and every recovery: the table never lags behind the log, and never
\* points at a record that was moved, superseded or erased.
THEOREM ReadsAlwaysAgree == Undisturbed => (Spec => []ReadsAgreeWithLog)
  <1> SUFFICES ASSUME Undisturbed PROVE Spec => []ReadsAgreeWithLog
    OBVIOUS
  <1>1. Logged => ReadsAgreeWithLog
    <2> SUFFICES ASSUME Logged, Mounted, op.kind # "clear", NEW a \in Addr
                 PROVE  ReadResult(a) = IF LogValue[a] = None
                                        THEN [ret |-> "none", val |-> Blank]
                                        ELSE [ret |-> "ok", val |-> LogValue[a]]
      BY DEF ReadsAgreeWithLog
    <2> USE DEF Logged, Sound
    <2>1. InUse
      BY DEF Mounted, InUse, Clearing
    <2>2. LogValue[a] = IF map[a] = 0 THEN None ELSE cell[PageOf(map[a])][IndexOf(map[a])]
      BY <2>1, TableIsLog DEF Mapped
    <2>3. CASE map[a] = 0
      BY <2>2, <2>3 DEF ReadResult
    <2>4. CASE map[a] # 0
      <3>1. cell[PageOf(map[a])][IndexOf(map[a]) + 1] = KeyOf(a)
        BY <2>1, <2>4 DEF LogInv, MapPoints, RecordAt
      <3>2. LogValue[a] # None
        BY <2>1, <2>2, <2>4, MappedIsWord DEF Mapped
      <3> QED BY <2>2, <2>4, <3>1, <3>2 DEF ReadResult
    <2> QED BY <2>3, <2>4
  <1> QED BY <1>1, LoggedAlways, PTL

-----------------------------------------------------------------------------
(* Room for a recovery *)

\* With cell f of page c for its free one, the record whose key is at cell k of
\* the oldest page is found in another page, too.
Superseded(c, f, k) ==
    \E p \in Page, j \in Keys :
        p # After(c) /\ (p = c => j < f) /\ cell[p][j] = cell[After(c)][k]

\* When all pages are in use, what is left to copy of the oldest one fits in the
\* rest of page c, and would have at each earlier time that it was cut back to.
Fits(c, top) ==
    (\A p \in Page : Valid(p)) =>
        \A f \in 2 .. top, k \in Keys, a \in Addr :
            f % 2 = 0 /\ cell[After(c)][k] = KeyOf(a) /\ ~Superseded(c, f, k) => k - 1 <= E - f

RoomInv ==
    /\ InUse => Fits(cur, free)
    /\ pc = "off" => \A c \in Page : Chain(c) => Fits(c, FreeCell(c))
    /\ op.kind = "boot" /\ pc \in {"write", "key"} => gc.key + 1 <= E - free
    /\ NeverWipes

LEMMA RoomInit == Init => RoomInv
  <1> SUFFICES ASSUME Init PROVE RoomInv
    OBVIOUS
  <1>1. ~InUse /\ op.kind = "none" /\ \A c \in Page : ~Chain(c)
    BY DEF Init, InUse, NoOp, Chain, Valid
  <1> QED BY <1>1 DEF RoomInv, NeverWipes

LEMMA FitsAtFirst ==
    ASSUME NEW c PROVE Fits(c, 2)
  BY KeyCells, Bounds DEF Fits

\* With no page invalid, the page after the current one is the oldest one.
LEMMA AllValidOldest ==
    ASSUME Sound, InUse, \A p \in Page : Valid(p)
    PROVE  /\ cur \in Page /\ After(cur) \in Page /\ After(cur) # cur
           /\ Oldest(status, cur) = After(cur) /\ FreeNow = 0
  <1>1. cur \in Page /\ NextPage \in Page /\ FreeNow = 0
    BY FreeNowType, Bounds DEF Sound
  <1>2. Oldest(status, cur) = (cur + 0 + 1) % N
    BY <1>1 DEF Oldest, FreeNow
  <1>3. cur + 0 + 1 = cur + 1
    BY <1>1 DEF Page
  <1>4. After(cur) \in Page /\ After(cur) # cur
    BY <1>1, AfterIs, Bounds DEF Page
  <1> QED BY <1>1, <1>2, <1>3, <1>4 DEF After

LEMMA NoneFreeAllValid ==
    ASSUME Logged, InUse, FreeNow = 0, NEW p \in Page
    PROVE  Valid(p)
  <1> USE DEF Logged, Sound
  <1>1. cur \in Page /\ Chain(cur) /\ FlashType /\ Valid(NextPage)
    BY FreeNowType, Bounds DEF ChainInv, Typed, TypeOK, RamType
  <1>2. N - 1 \in 0 .. N - 1 /\ Back(cur, N - 1) = NextPage
    <2>1. N - 1 \in 0 .. N - 1
      BY Bounds
    <2>2. Back(cur, N - 1) = IF N - 1 <= cur THEN cur - (N - 1) ELSE cur + N - (N - 1)
      BY <1>1, <2>1, BackIs
    <2>3. NextPage = IF cur + 1 < N THEN cur + 1 ELSE 0
      BY <1>1, AfterIs DEF After, NextPage
    <2> QED BY <1>1, <2>1, <2>2, <2>3, Bounds DEF Page
  <1>3. PICK d \in 0 .. N - 1 : p = Back(cur, d)
    BY <1>1, BackFinds
  <1> QED BY <1>1, <1>2, <1>3, ChainSolid

\* A record that the table does not have elsewhere is not elsewhere.
LEMMA LiveAlone ==
    ASSUME Logged, InUse, \A p \in Page : Valid(p), NEW a \in Addr, NEW k \in Keys,
           cell[After(cur)][k] = KeyOf(a), ~CanDrop(a, After(cur))
    PROVE  ~Superseded(cur, free, k)
  <1> USE DEF Logged
  <1>1. cur \in Page /\ After(cur) \in Page
    BY AllValidOldest
  <1> SUFFICES ASSUME NEW p \in Page, NEW j \in Keys, p # After(cur), cell[p][j] = KeyOf(a)
               PROVE  FALSE
    BY DEF Superseded
  <1>2. PICK i \in 0 .. N - 1 : p = Back(cur, i)
    BY <1>1, BackFinds
  <1>3. map[a] # 0 /\ \E h \in 0 .. i : PageOf(map[a]) = Back(cur, h)
    BY <1>2 DEF LatestInv
  <1>4. PICK h \in 0 .. i : After(cur) = Back(cur, h)
    BY <1>3 DEF CanDrop
  <1>5. /\ Back(cur, i) = IF i <= cur THEN cur - i ELSE cur + N - i
        /\ Back(cur, h) = IF h <= cur THEN cur - h ELSE cur + N - h
        /\ h \in 0 .. N - 1
    BY <1>1, BackIs, Bounds
  <1>6. After(cur) = IF cur + 1 < N THEN cur + 1 ELSE 0
    BY <1>1, AfterIs
  <1>7. h = N - 1
    BY <1>1, <1>4, <1>5, <1>6, Bounds DEF Page
  <1>8. i = h
    BY <1>7, Bounds
  <1> QED BY <1>2, <1>4, <1>8

\* And one that it has elsewhere is.
LEMMA DropElsewhere ==
    ASSUME Sound, InUse, pc = "key", NEW o \in Page, NEW a \in Addr, CanDrop(a, o)
    PROVE  \E p \in Page, j \in Keys : /\ p # o /\ cell[p][j] = KeyOf(a)
                                       /\ p = cur => j < free + 1
  <1> USE DEF Sound
  <1> DEFINE p == PageOf(map[a])
             i == IndexOf(map[a])
  <1>1. map[a] # 0 /\ p # o
    BY DEF CanDrop
  <1>2. /\ p \in Page /\ i \in 0 .. E - 1 /\ i % 2 = 0 /\ i + 1 \in Cell
        /\ cell[p][i + 1] = KeyOf(a)
    BY <1>1, MapPlaces DEF LogInv, MapPoints, RecordAt
  <1> HIDE DEF p, i
  <1>3. (i + 1) % 2 = 1
    BY <1>2, Bounds
  <1>4. i + 1 \in Keys
    BY <1>2, <1>3, KeyCells
  <1>5. ASSUME p = cur PROVE i + 1 < free + 1
    <2>1. ~(i + 1 > free)
      <3> SUFFICES ASSUME i + 1 > free PROVE FALSE
        OBVIOUS
      <3>1. cell[cur][i + 1] = Blank
        BY <1>2 DEF LogInv, CursorClear
      <3> QED BY <1>2, <1>5, <3>1, FtlAssumption DEF KeyOf
    <2> QED BY <1>2, <2>1, Bounds DEF Typed, TypeOK, RamType
  <1> QED BY <1>1, <1>2, <1>4, <1>5

\* The steps that leave the keys, the cursor and the log alone.
LEMMA QuietRoom ==
    ASSUME Sound, RoomInv, pc' # "off", InUse' => InUse, UNCHANGED <<cur, free>>, NeverWipes',
           \A p \in Page : Valid(p)' => Valid(p) /\ \A k \in Keys : cell'[p][k] = cell[p][k],
           op'.kind = "boot" /\ pc' \in {"write", "key"} => gc'.key + 1 <= E - free
    PROVE  RoomInv'
  <1>1. CASE InUse' /\ \A p \in Page : Valid(p)'
    <2>1. Fits(cur, free) /\ cur \in Page /\ After(cur) \in Page
      BY <1>1, AfterIs DEF RoomInv, Sound, Typed, TypeOK, RamType
    <2>2. \A p \in Page : Valid(p) /\ \A k \in Keys : cell'[p][k] = cell[p][k]
      BY <1>1
    <2>3. PICK c \in Page : c = cur
      BY <2>1
    <2>4. After(c) \in Page /\ Fits(c, free)
      BY <2>1, <2>3
    <2>5. ASSUME NEW f \in 2 .. free, NEW k \in Keys, NEW a \in Addr,
                 f % 2 = 0, cell'[After(c)][k] = KeyOf(a), ~Superseded(c, f, k)'
          PROVE  k - 1 <= E - f
      <3>1. cell[After(c)][k] = KeyOf(a)
        BY <2>2, <2>4, <2>5
      <3>2. ~Superseded(c, f, k)
        BY <2>2, <2>4, <2>5 DEF Superseded, After
      <3> QED BY <2>2, <2>4, <2>5, <3>1, <3>2 DEF Fits
    <2>6. Fits(c, free)'
      BY <2>5 DEF Fits, After
    <2>7. Fits(cur, free)'
      BY <2>3, <2>6 DEF Fits, Superseded, After
    <2> QED BY <2>7 DEF RoomInv
  <1>2. CASE ~InUse' \/ \E p \in Page : ~Valid(p)'
    BY <1>2 DEF RoomInv, Fits
  <1> QED BY <1>1, <1>2

LEMMA CallRoom ==
    ASSUME Sound, RoomInv,
           \/ WriteData \/ SetEnd \/ FindFreePage \/ CopyLive \/ CollectPage \/ Sweep
           \/ ClearAll \/ (\E s \in Saves : Save(s[1], s[2]))
           \/ (\E m \in GcPages, n \in GcCells : Collect(m, n))
    PROVE  RoomInv'
  <1> USE DEF Sound
  <1>1. UNCHANGED <<status, cur, free>>
    BY DEF WriteData, SetEnd, FindFreePage, CopyLive, CopyNext, CollectPage, Sweep, ClearAll,
           Save, Collect, StartGc, flash, ram, call
  <1>2. InUse
    <2>1. pc \in {"idle", "write", "key", "scan", "recover"}
      BY DEF WriteData, SetEnd, FindFreePage, CopyLive, CollectPage, Sweep, ClearAll, Save, Collect
    <2> QED BY <2>1, UseFacts
  <1>3. \A p \in Page : \A k \in Keys : cell'[p][k] = cell[p][k]
    <2>1. CASE WriteData
      <3>1. cell' = [cell EXCEPT ![cur][free] = wr.val] /\ \A k \in Keys : k # free
        BY <2>1, KeyCells, Parity DEF WriteData, Aligned, RecordsAligned
      <3> QED BY <3>1, KeyCells DEF Typed, TypeOK, FlashType
    <2>2. CASE ~WriteData
      <3>1. cell' = cell
        BY <2>2 DEF SetEnd, FindFreePage, CopyLive, CopyNext, CollectPage, Sweep, ClearAll,
           Save, Collect, StartGc, flash
      <3> QED BY <3>1
    <2> QED BY <2>1, <2>2
  <1>4. /\ pc' # "off" /\ op'.kind # "wipe"
        /\ op'.kind = "boot" /\ pc' \in {"write", "key"} => gc'.key + 1 <= E - free
    <2>1. CASE WriteData \/ SetEnd
      <3>1. op' = op /\ gc' = gc /\ pc = "write" /\ pc' \in {"write", "key"}
        BY <2>1 DEF WriteData, SetEnd, call
      <3> QED BY <3>1 DEF RoomInv, NeverWipes
    <2>2. CASE FindFreePage
      BY <2>2 DEF FindFreePage, Return, BeginFormat, NoOp, RoomInv, NeverWipes
    <2>3. CASE CopyLive
      <3>1. op' = op /\ op.kind \in {"save", "collect"} /\ pc' = "write"
        BY <2>3 DEF CopyLive, CopyNext, SpaceInv, InRequest
      <3> QED BY <3>1
    <2>4. CASE CollectPage
      BY <2>4 DEF CollectPage, RoomInv, NeverWipes
    <2>5. CASE Sweep
      BY <2>5 DEF Sweep, SweepOn, NoOp
    <2>6. CASE ClearAll \/ (\E s \in Saves : Save(s[1], s[2]))
                        \/ (\E m \in GcPages, n \in GcCells : Collect(m, n))
      <3>1. op'.kind \in {"clear", "save", "collect"} /\ pc' \in {"clear", "write", "scan"}
        BY <2>6 DEF ClearAll, Save, Collect, StartGc
      <3> QED BY <3>1
    <2> QED BY <2>1, <2>2, <2>3, <2>4, <2>5, <2>6
  <1> QED BY <1>1, <1>2, <1>3, <1>4, QuietRoom DEF Valid, NeverWipes

LEMMA MarkRoom ==
    ASSUME Sound, RoomInv, MarkFormat \/ MarkCollected \/ MarkSwept
    PROVE  RoomInv'
  <1> USE DEF Sound
  <1>1. /\ pc = "mark" /\ MarkErased /\ UNCHANGED <<cur, free, map>> /\ pc' # "off"
        /\ \/ op' = op /\ pc' = "stamp"
           \/ era.by = "collect" \/ era.by = "sweep"
    BY DEF MarkFormat, MarkCollected, MarkSwept, EndGc, SweepOn, ram, MarkErased
  <1>2. /\ \A p \in Page : Valid(p)' <=> Valid(p)
        /\ cell' = cell
    BY <1>1, MarkLog
  <1>3. InUse' => InUse
    <2>1. era.by \in {"collect", "sweep"} => InUse
      BY <1>1, UseFacts DEF SpaceInv, InRequest, Erases
    <2>2. op' = op /\ pc' = "stamp" /\ InUse' => InUse
      BY <1>1 DEF InUse, Clearing, Erases
    <2> QED BY <1>1, <2>1, <2>2
  <1>4. op'.kind # "wipe" /\ ~(op'.kind = "boot" /\ pc' \in {"write", "key"})
    <2>1. CASE MarkFormat
      BY <2>1 DEF MarkFormat, RoomInv, NeverWipes
    <2>2. CASE MarkCollected
      BY <2>2 DEF MarkCollected, EndGc, NoOp, RoomInv, NeverWipes
    <2>3. CASE MarkSwept
      BY <2>3 DEF MarkSwept, SweepOn, NoOp
    <2> QED BY <2>1, <2>2, <2>3
  <1> QED BY <1>1, <1>2, <1>3, <1>4, QuietRoom DEF NeverWipes

\* An invalid page is room enough.
LEMMA InvalidRoom ==
    ASSUME NEW q \in Page, ~Valid(q)', pc' # "off", NeverWipes',
           ~(op'.kind = "boot" /\ pc' \in {"write", "key"})
    PROVE  RoomInv'
  BY DEF RoomInv, Fits

LEMMA EraseRoom ==
    ASSUME Sound, RoomInv, EraseSector PROVE RoomInv'
  <1>1. /\ era.page \in Page /\ pc' = "mark" /\ op' = op /\ status'[era.page] = "blank"
    BY DEF EraseSector, Sound, Typed, TypeOK, FlashType, CallType, Erasing
  <1>2. PICK q \in Page : q = era.page
    BY <1>1
  <1>3. ~Valid(q)'
    BY <1>1, <1>2 DEF Valid
  <1> QED BY <1>1, <1>3, InvalidRoom DEF RoomInv, NeverWipes

\* A page just begun has as much room as a page can have.
LEMMA StampRoom ==
    ASSUME Sound, RoomInv, StampNext \/ StampFirst PROVE RoomInv'
  <1>1. free' = 2 /\ pc' # "off" /\ op'.kind # "wipe" /\ op'.kind # "boot"
    BY DEF StampNext, StampFirst, StampPage, StartGc, NoOp
  <1>2. \A c : Fits(c, 2)'
    <2> SUFFICES ASSUME NEW c PROVE Fits(c, 2)'
      OBVIOUS
    <2> QED BY KeyCells, Bounds DEF Fits
  <1>3. Fits(cur, free)'
    BY <1>1, <1>2 DEF Fits, Superseded
  <1> QED BY <1>1, <1>3 DEF RoomInv, NeverWipes

LEMMA ClearRoom ==
    ASSUME Sound, RoomInv, ClearPage \/ ClearTable \/ FormatFirst PROVE RoomInv'
  <1>1. ~InUse' /\ pc' # "off" /\ op'.kind # "wipe" /\ ~(op'.kind = "boot" /\ pc' \in {"write", "key"})
    <2>1. CASE ClearPage \/ ClearTable
      <3>1. op.kind \in {"clear", "wipe"} /\ op' = op
        BY <2>1 DEF ClearPage, ClearTable, Sound, Typed, CallOK
      <3>2. pc' # "off"
        BY <2>1 DEF ClearPage, ClearTable, BeginFormat
      <3> QED BY <3>1, <3>2 DEF InUse, Clearing, RoomInv, NeverWipes
    <2>2. CASE FormatFirst
      BY <2>2 DEF FormatFirst, BeginFormat, BootOp, InUse, Erases
    <2> QED BY <2>1, <2>2
  <1> QED BY <1>1 DEF RoomInv, NeverWipes

\* With no page free, a record is only written to empty the oldest page, and
\* what is left of that page fits behind it.
LEMMA KeyFits ==
    ASSUME Logged, RoomInv, pc = "key", \A p \in Page : Valid(p)
    PROVE  /\ Copying /\ gc.page = After(cur)
           /\ gc.key \in Nat /\ gc.key + 1 <= E - free
  <1> USE DEF Logged, Sound
  <1>1. InUse
    BY UseFacts
  <1>2. FreeNow = 0 /\ Oldest(status, cur) = After(cur)
    BY <1>1, AllValidOldest
  <1>3. Scans /\ (gcing \/ op.kind = "boot")
    BY <1>2, Bounds DEF SpaceInv, InRequest, Serving, Scans, Emptying, Erases, CallOK
  <1>4. Copying /\ gc.page = After(cur) /\ gc.key \in Nat /\ free \in Nat /\ free % 2 = 0
    BY <1>2, <1>3, ScanFacts, Bounds DEF Copying, Typed, TypeOK, RamType, CallType, Locals, Aligned,
       RecordsAligned
  <1>5. CASE op.kind = "boot"
    BY <1>4, <1>5 DEF RoomInv
  <1>6. CASE gcing
    <2>1. (gc.key - 1) \div 2 + 1 <= Room /\ gc.key > 0 /\ gc.key % 2 = 1
      BY <1>3, <1>6 DEF SpaceInv, CopiesFit, Erases, Scanned, LogInv
    <2>2. Room = (E - free) \div 2
      <3> DEFINE y == (E - free) \div 2
                 r == RecordsPerPage
      <3>1. E - free \in Int /\ r \in Int
        BY <1>4, Bounds DEF RecordsPerPage
      <3>2. y \in Int
        BY <3>1
      <3>3. Room = y + r * 0
        BY <1>2 DEF Room
      <3> HIDE DEF y, r
      <3>4. Room = y
        BY <3>1, <3>2, <3>3
      <3> QED BY <3>4 DEF y
    <2> DEFINE x == E - free
               g == gc.key
    <2>3. x \in Int /\ x % 2 = 0 /\ g \in Nat /\ g % 2 = 1
      <3>1. E \in Nat /\ E % 2 = 0
        BY FtlAssumption
      <3>2. (E - free) % 2 = 0
        <4>1. \A u, v \in Nat : u % 2 = 0 /\ v % 2 = 0 => (u - v) % 2 = 0
          OBVIOUS
        <4> QED BY <1>4, <3>1, <4>1
      <3> QED BY <1>4, <2>1, <3>1, <3>2
    <2>4. (g - 1) \div 2 + 1 <= x \div 2
      BY <2>1, <2>2
    <2> HIDE DEF x, g
    <2>5. g + 1 <= x
      BY <2>3, <2>4
    <2> QED BY <1>4, <2>5 DEF x, g
  <1> QED BY <1>3, <1>4, <1>5, <1>6

LEMMA WriteKeyRoom ==
    ASSUME Logged, RoomInv, WriteKey PROVE RoomInv'
  <1> USE DEF Logged, Sound
  <1>1. /\ cur \in Page /\ free \in Cell /\ free + 1 \in Cell /\ free % 2 = 0 /\ free \in Nat
        /\ wr.addr \in Addr /\ pc = "key" /\ InUse
        /\ cell' = [cell EXCEPT ![cur][free + 1] = KeyOf(wr.addr)]
        /\ UNCHANGED <<status, cur>> /\ free' = free + 2
        /\ pc' \in {"scan", "recover", "idle"} /\ op' \in {op, NoOp}
    BY UseFacts, Bounds DEF WriteKey, Return, Full, Typed, TypeOK, RamType, Aligned, RecordsAligned,
          Cell, CallOK, WritePending, Writes
  <1>2. SUFFICES ASSUME \A p \in Page : Valid(p)
                 PROVE  Fits(cur, free)'
    BY <1>1 DEF RoomInv, NeverWipes, NoOp, Fits, Valid
  <1> DEFINE o == After(cur)
  <1>3. o \in Page /\ o # cur /\ Fits(cur, free)
    BY <1>1, <1>2, AllValidOldest DEF RoomInv
  <1> HIDE DEF o
  <1>4. /\ cell'[cur][free + 1] = KeyOf(wr.addr)
        /\ \A p \in Page, j \in Keys : p # cur \/ j # free + 1 => cell'[p][j] = cell[p][j]
    BY <1>1, KeyCells DEF Typed, TypeOK, FlashType
  <1>5. \A a, b \in Addr : KeyOf(a) = KeyOf(b) => a = b
    BY DEF KeyOf
  <1> SUFFICES ASSUME NEW f \in 2 .. free + 2, NEW k \in Keys, NEW a \in Addr,
                      f % 2 = 0, cell'[o][k] = KeyOf(a),
                      ~\E p \in Page, j \in Keys :
                          p # o /\ (p = cur => j < f) /\ cell'[p][j] = cell'[o][k]
               PROVE  k - 1 <= E - f
    BY <1>1 DEF Fits, Superseded, After, o
  <1>6. cell[o][k] = KeyOf(a)
    BY <1>3, <1>4
  <1>7. CASE f <= free
    <2>1. ~Superseded(cur, f, k)
      <3> SUFFICES ASSUME NEW p \in Page, NEW j \in Keys,
                          p # o, p = cur => j < f, cell[p][j] = cell[o][k]
                   PROVE  FALSE
        BY DEF Superseded, o
      <3>1. p # cur \/ j # free + 1
        BY <1>1, <1>7, KeyCells, Bounds
      <3>2. cell'[p][j] = cell'[o][k]
        BY <1>3, <1>4, <3>1
      <3> QED BY <3>2
    <2>2. f \in 2 .. free
      BY <1>1, <1>7
    <2> QED BY <1>2, <1>3, <1>6, <2>1, <2>2 DEF Fits, o
  <1>8. CASE f > free
    <2>1. f = free + 2
      BY <1>1, <1>8
    <2>2. free + 1 \in Keys /\ free + 1 < f
      BY <1>1, <2>1, KeyCells
    <2>3. a # wr.addr
      BY <1>1, <1>3, <1>4, <2>2
    <2>4. Copying /\ gc.page = o /\ gc.key \in Nat /\ gc.key + 1 <= E - free
      BY <1>1, <1>2, KeyFits DEF o
    <2>5. ~(k > gc.key)
      <3> SUFFICES ASSUME k > gc.key PROVE FALSE
        OBVIOUS
      <3>1. CanDrop(a, o)
        BY <1>6, <2>3, <2>4 DEF Keys, Copying, Scanned, LogInv
      <3>2. PICK p \in Page, j \in Keys : p # o /\ cell[p][j] = KeyOf(a) /\ (p = cur => j < free + 1)
        BY <1>1, <1>3, <3>1, DropElsewhere
      <3>3. cell'[p][j] = cell'[o][k] /\ (p = cur => j < f)
        <4>1. j \in Nat /\ free \in Nat
          BY <1>1, KeyCells
        <4>2. p # cur \/ j # free + 1
          BY <3>2, <4>1
        <4>3. p = cur => j < f
          BY <2>1, <3>2, <4>1
        <4> QED BY <1>4, <1>6, <3>2, <4>2, <4>3
      <3> QED BY <3>2, <3>3
    <2>6. k \in Nat /\ k <= gc.key /\ E \in Nat
      BY <2>4, <2>5, KeyCells, Bounds
    <2> QED BY <1>1, <2>1, <2>4, <2>6
  <1> QED BY <1>1, <1>7, <1>8

\* The recovery begins with a record that fits, and leaves one fewer.
LEMMA RecoverCopyRoom ==
    ASSUME Logged, RoomInv, RecoverCopy PROVE RoomInv'
  <1> USE DEF Logged, Sound
  <1>1. /\ pc = "recover" /\ op.kind = "boot" /\ Scans /\ InUse /\ FreeNow = 0 /\ LiveKeys # {}
        /\ UNCHANGED <<status, cell, cur, free, op>> /\ pc' = "write"
        /\ gc'.key = Max(LiveKeys) - 2
        /\ gc.page = Oldest(status, cur)
    BY UseFacts DEF RecoverCopy, CopyNext, SpaceInv, InRequest, Recovers, Scans, flash, ram,
       Typed, TypeOK, CallType, Locals
  <1>2. \A p \in Page : Valid(p)
    BY <1>1, NoneFreeAllValid
  <1>3. gc.page = After(cur) /\ cur \in Page
    BY <1>1, <1>2, AllValidOldest
  <1>4. gc.key % 2 = 1 /\ gc.key \in Nat
    BY <1>1, Bounds DEF LogInv, Scanned, Typed, TypeOK, CallType, Locals
  <1>5. PICK k \in LiveKeys : k = Max(LiveKeys) /\ k \in 3 .. E - 1 /\ k % 2 = 1
    BY <1>1, <1>4, NextKey
  <1>6. PICK a \in Addr : cell[gc.page][k] = KeyOf(a) /\ ~CanDrop(a, gc.page)
    BY DEF LiveKeys
  <1>7. k \in Keys
    BY <1>5, KeyCells DEF Cell
  <1>8. ~Superseded(cur, free, k)
    BY <1>1, <1>2, <1>3, <1>6, <1>7, LiveAlone
  <1>9. k - 1 <= E - free
    <2>1. free \in 2 .. free /\ free % 2 = 0
      BY Bounds DEF Typed, TypeOK, RamType, Aligned, RecordsAligned
    <2> QED BY <1>1, <1>2, <1>3, <1>6, <1>7, <1>8, <2>1 DEF RoomInv, Fits
  <1>10. gc'.key + 1 <= E - free
    BY <1>1, <1>5, <1>7, <1>9, KeyCells, Bounds DEF Typed, TypeOK, RamType
  <1> QED BY <1>1, <1>10, QuietRoom DEF Valid, RoomInv, NeverWipes

\* It ends with all records copied: one left over would fit in the page that is
\* full.
LEMMA RecoverEndRoom ==
    ASSUME Logged, RoomInv, RecoverEnd PROVE RoomInv'
  <1> USE DEF Logged, Sound
  <1>1. /\ pc = "recover" /\ op.kind = "boot" /\ Scans /\ InUse /\ FreeNow = 0
        /\ gc.page \in Page /\ gc.page = Oldest(status, cur)
        /\ status' = [status EXCEPT ![gc.page] = "dead"]
        /\ Full \/ LiveKeys = {}
        /\ LiveKeys = {} => pc' = "idle" /\ op' = NoOp
    BY UseFacts DEF RecoverEnd, SpaceInv, InRequest, Recovers, Scans, Typed, TypeOK, CallType, Locals
  <1>2. LiveKeys = {}
    <2> SUFFICES ASSUME LiveKeys # {}, Full PROVE FALSE
      BY <1>1
    <2>1. \A p \in Page : Valid(p)
      BY <1>1, NoneFreeAllValid
    <2>2. gc.page = After(cur)
      BY <1>1, <2>1, AllValidOldest
    <2>3. gc.key % 2 = 1
      BY <1>1 DEF LogInv, Scanned
    <2>4. PICK k \in LiveKeys : k \in 3 .. E - 1 /\ k % 2 = 1
      BY <2>3, NextKey
    <2>5. PICK a \in Addr : cell[gc.page][k] = KeyOf(a) /\ ~CanDrop(a, gc.page)
      BY DEF LiveKeys
    <2>6. k \in Keys
      BY <2>4, KeyCells DEF Cell
    <2>7. ~Superseded(cur, free, k)
      BY <1>1, <2>1, <2>2, <2>5, <2>6, LiveAlone
    <2>8. free = E /\ free \in 2 .. free /\ free % 2 = 0
      BY FtlAssumption DEF Full, Typed, TypeOK, RamType, Aligned, RecordsAligned
    <2>9. k - 1 <= E - free
      BY <1>1, <2>1, <2>2, <2>5, <2>6, <2>7, <2>8 DEF RoomInv, Fits
    <2> QED BY <2>4, <2>8, <2>9, Bounds
  <1>3. PICK q \in Page : q = gc.page
    BY <1>1
  <1>4. ~Valid(q)'
    BY <1>1, <1>3 DEF Valid, Typed, TypeOK, FlashType
  <1>5. pc' # "off" /\ op'.kind = "none"
    BY <1>1, <1>2 DEF NoOp
  <1> QED BY <1>4, <1>5, InvalidRoom DEF NeverWipes

LEMMA MountRoom ==
    ASSUME Logged, RoomInv, Mount PROVE RoomInv'
  <1> USE DEF Logged, Sound
  <1>1. PICK best \in Search : best[N] # -1 /\ cur' = best[N]
    BY DEF Mount
  <1>2. /\ pc = "off" /\ pc' \in {"recover", "idle"} /\ UNCHANGED <<status, cell>>
        /\ free' = FreeCell(cur') /\ op'.kind \in {"boot", "none"}
    BY DEF Mount, flash, BootOp, NoOp
  <1>3. cur' \in Page /\ Valid(cur')
    BY <1>1, SearchFindsValid
  <1>4. PICK c \in Page : Chain(c)
    BY <1>2, <1>3 DEF ChainInv, NoneValid
  <1>5. cur' = c
    BY <1>1, <1>4, SearchFindsLast DEF Typed, TypeOK
  <1>6. Fits(c, FreeCell(c))
    BY <1>2, <1>4 DEF RoomInv
  <1>7. Fits(cur, free)'
    BY <1>2, <1>5, <1>6 DEF Fits, Superseded, After, Valid
  <1> QED BY <1>2, <1>7 DEF RoomInv, NeverWipes

\* Power is lost: the current page keeps its first words, up to the cursor at most.
LEMMA CutRoom ==
    ASSUME Logged, RoomInv, pc' = "off", op'.kind = "none", InUse, UNCHANGED <<status, seq>>,
           NEW t \in 2 .. free,
           \A p \in Page : p # cur => cell'[p] = cell[p],
           \A j \in Cell : j < t => cell'[cur][j] = cell[cur][j],
           \A j \in Cell : j >= t => cell'[cur][j] = Blank
    PROVE  RoomInv'
  <1> USE DEF Logged, Sound
  <1>1. PICK c \in Page : c = cur
    BY DEF Typed, TypeOK, RamType
  <1>2. Chain(c) /\ Fits(c, free)
    BY <1>1 DEF ChainInv, RoomInv
  <1>3. ASSUME NEW b \in Page, Chain(b)' PROVE b = c
    <2>1. Chain(b)
      BY <1>3 DEF Chain, Valid
    <2>2. Newest = {b} /\ Newest = {c}
      BY <1>2, <2>1, NewestIs DEF Typed, TypeOK
    <2> QED BY <2>2
  <1>4. FreeCell(c)' <= t /\ FreeCell(c)' \in Nat
    <2> DEFINE used == {i \in Cell : cell'[c][i] # Blank}
               m == Max(used)
    <2>1. FreeCell(c)' = IF used = {} THEN 2 ELSE m + 1
      BY DEF FreeCell
    <2>2. \A i \in used : i \in 2 .. t - 1
      <3>1. t \in Nat /\ t >= 2
        BY Bounds DEF Typed, TypeOK, RamType
      <3> QED BY <1>1, <3>1, Bounds DEF Cell
    <2>3. used \in SUBSET (2 .. t - 1) /\ t - 1 \in Nat /\ t \in Nat /\ 2 \in Nat /\ t >= 2
      BY <2>2, Bounds DEF Typed, TypeOK, RamType
    <2> HIDE DEF used
    <2>4. used # {} => m \in 2 .. t - 1
      BY <2>3, MaxInRange
    <2> HIDE DEF m
    <2> QED BY <2>1, <2>3, <2>4
  <1>5. ASSUME NEW f \in 2 .. FreeCell(c)', NEW k \in Keys, NEW a \in Addr,
               f % 2 = 0, cell'[After(c)][k] = KeyOf(a), ~Superseded(c, f, k)',
               \A p \in Page : Valid(p)
        PROVE  k - 1 <= E - f
    <2>1. f \in 2 .. free /\ f <= t
      BY <1>4, Bounds DEF Typed, TypeOK, RamType
    <2>2. After(c) \in Page /\ After(c) # c
      BY <1>1, <1>5, AllValidOldest
    <2>3. cell[After(c)][k] = KeyOf(a)
      BY <1>1, <1>5, <2>2
    <2>4. ~Superseded(c, f, k)
      <3> SUFFICES ASSUME NEW p \in Page, NEW j \in Keys, p # After(c), p = c => j < f,
                          cell[p][j] = cell[After(c)][k]
                   PROVE  FALSE
        BY DEF Superseded
      <3>1. j \in Cell /\ (p = c => j < t)
        BY <2>1, KeyCells, Bounds DEF Typed, TypeOK, RamType
      <3>2. cell'[p][j] = cell'[After(c)][k]
        BY <1>1, <1>5, <2>2, <2>3, <3>1
      <3> QED BY <1>5, <3>2 DEF Superseded, After
    <2> QED BY <1>2, <1>5, <2>1, <2>3, <2>4 DEF Fits
  <1>6. Fits(c, FreeCell(c))'
    BY <1>5 DEF Fits, After, Valid
  <1> QED BY <1>1, <1>3, <1>6 DEF RoomInv, InUse, NeverWipes

LEMMA PowerLossRoom ==
    ASSUME Logged, RoomInv, Undisturbed, PowerLoss PROVE RoomInv'
  <1> USE DEF Logged, Sound
  <1>1. pc' = "off" /\ op'.kind = "none" /\ pc # "off" /\ ~Clearing
    <2>1. LoseRam
      BY DEF PowerLoss, Crash, CutWrite
    <2> QED BY <2>1 DEF LoseRam, PowerLoss, Crash, CutWrite, NoOp, Undisturbed
  <1>2. InUse \/ NoneValid
    BY <1>1 DEF InUse, Clearing, SpaceInv, ErasesFree
  <1>3. cur \in Page /\ free \in 2 .. E /\ free \in 2 .. free
    BY Bounds DEF Typed, TypeOK, RamType
  <1>4. ASSUME UNCHANGED flash, pc = "key" => wr.val = Blank PROVE RoomInv'
    <2>1. CASE NoneValid
      <3>1. \A b \in Page : ~Chain(b)'
        BY <1>4, <2>1 DEF NoneValid, Chain, Valid, flash
      <3> QED BY <1>1, <3>1 DEF RoomInv, InUse, NeverWipes
    <2>2. CASE InUse
      <3>1. \A j \in Cell : j >= free => cell[cur][j] = Blank
        <4>1. \A j \in Cell : j > free \/ (j = free /\ pc # "key") => cell[cur][j] = Blank
          BY <2>2 DEF LogInv, CursorClear
        <4>2. pc = "key" => cell[cur][free] = Blank
          BY <1>4 DEF Aligned
        <4> QED BY <1>3, <4>1, <4>2, Bounds DEF Cell
      <3> QED BY <1>1, <1>3, <1>4, <2>2, <3>1, CutRoom DEF flash
    <2> QED BY <1>2, <2>1, <2>2
  <1>5. ASSUME NEW q \in Page, Restored(q, 0) PROVE RoomInv'
    <2>1. ~Valid(q)'
      BY <1>5 DEF Restored, Valid, Typed, TypeOK, FlashType
    <2> QED BY <1>1, <2>1 DEF RoomInv, Fits, InUse, NeverWipes
  <1>6. CASE CutWrite
    <2>1. PICK k \in Cuts :
            \/ pc \in {"write", "key"} /\ k <= free /\ Restored(cur, k)
            \/ pc = "stamp" /\ k = 0 /\ Restored(era.page, k)
            \/ pc = "recover" /\ k = 0 /\ Restored(gc.page, k)
      BY <1>1, <1>6 DEF CutWrite, Typed, CallOK, Clearing
    <2>2. CASE k = 0
      BY <1>3, <1>5, <2>1, <2>2 DEF Typed, TypeOK, CallType, Erasing, Locals
    <2>3. CASE k # 0
      <3>1. k \in 2 .. free /\ pc \in {"write", "key"} /\ Restored(cur, k)
        BY <1>3, <2>1, <2>3, FtlAssumption DEF Undisturbed, Orderly, WholeRecords
      <3>2. /\ UNCHANGED <<status, seq>> /\ InUse
            /\ \A p \in Page : p # cur => cell'[p] = cell[p]
            /\ \A j \in Cell : j < k => cell'[cur][j] = cell[cur][j]
            /\ \A j \in Cell : j >= k => cell'[cur][j] = Blank
        BY <1>3, <2>3, <3>1, UseFacts, FtlAssumption DEF Restored, Typed, TypeOK, FlashType, Cell
      <3> QED BY <1>1, <3>1, <3>2, CutRoom
    <2> QED BY <2>2, <2>3
  <1>7. CASE Crash
    BY <1>4, <1>7 DEF Crash, Undisturbed, Orderly, WholeRecords
  <1> QED BY <1>6, <1>7 DEF PowerLoss

LEMMA RoomNext ==
    ASSUME Undisturbed, Logged, RoomInv, [Next]_vars PROVE RoomInv'
  <1>1. ~FormatFails /\ ~CollectFails /\ ~SweepFails
    BY DEF Undisturbed, Orderly, FormatFails, CollectFails, SweepFails, MarkFails
  <1>2. CASE UNCHANGED vars
    BY <1>2 DEF vars, flash, ram, call, RoomInv, Fits, Superseded, After, FreeCell, InUse,
       Clearing, Erases, Chain, Valid, NeverWipes
  <1> QED
    BY <1>1, <1>2, CallRoom, MarkRoom, EraseRoom, StampRoom, ClearRoom, WriteKeyRoom,
       RecoverCopyRoom, RecoverEndRoom, MountRoom, PowerLossRoom
       DEF Logged, Next, Step, Request

LEMMA RoomAlways == Undisturbed => (Spec => []RoomInv)
  <1> SUFFICES ASSUME Undisturbed PROVE Spec => []RoomInv
    OBVIOUS
  <1>1. Init => RoomInv
    BY RoomInit
  <1>2. Logged /\ RoomInv /\ [Next]_vars => RoomInv'
    BY RoomNext
  <1> QED BY <1>1, <1>2, LoggedAlways, PTL DEF Spec

\* ftl_recover_from_power_lost never clears the store: whenever power is lost -
\* in the middle of a collection too, and again in the recovery from that -
\* what is left to copy of the oldest page fits in the current one.
THEOREM NeverWipesAlways == Undisturbed => (Spec => []NeverWipes)
  <1> SUFFICES ASSUME Undisturbed PROVE Spec => []NeverWipes
    OBVIOUS
  <1>1. RoomInv => NeverWipes
    BY DEF RoomInv
  <1> QED BY <1>1, RoomAlways, PTL

-----------------------------------------------------------------------------
(* The store that the log implements *)

\* Words are not lost to a sector that is programmed again, either.
Durable == Undisturbed /\ Cuts = {}

\* A record is being written, or a page made for it.
Writing ==
    \/ pc \in {"write", "key"}
    \/ Erases /\ era.by = "format" /\ op.kind \in {"save", "collect"}

\* All data words are words that were saved.
ValueInv ==
    /\ \A p \in Page, k \in Keys : cell[p][k] \in Key => cell[p][k - 1] \in Value
    /\ Writing => wr.val \in Value
    /\ op.kind = "save" => op.wr.val \in Value

\* A save writes what it was asked to, and a copy what the table leads to.
WriteInv ==
    /\ Writing /\ op.kind = "save" /\ ~gcing => wr = op.wr
    /\ Copying => map[wr.addr] # 0 /\ cell[PageOf(map[wr.addr])][IndexOf(map[wr.addr])] = wr.val

LEMMA StoreInit == Init => ValueInv /\ WriteInv
  <1> SUFFICES ASSUME Init PROVE ValueInv /\ WriteInv
    OBVIOUS
  <1>1. \A p \in Page, k \in Keys : cell[p][k] = Blank
    BY KeyCells DEF Init
  <1>2. Blank \notin Key
    BY FtlAssumption DEF Key
  <1>3. op.kind = "none" /\ pc = "off" /\ ~gcing
    BY DEF Init, NoOp
  <1> QED BY <1>1, <1>2, <1>3 DEF ValueInv, WriteInv, Writing, Erases, Copying, Scans

\* The keys that are there, or are written, follow a word that was saved.
LEMMA ValueCells ==
    ASSUME Sound, ValueInv, UNCHANGED cell \/ WriteData \/ WriteKey \/ EraseSector
    PROVE  \A p \in Page, k \in Keys : cell'[p][k] \in Key => cell'[p][k - 1] \in Value
  <1> USE DEF Sound
  <1> SUFFICES ASSUME NEW p \in Page, NEW k \in Keys, cell'[p][k] \in Key
               PROVE  cell'[p][k - 1] \in Value
    OBVIOUS
  <1>1. k \in Cell /\ k - 1 \in Cell /\ k \in Nat /\ k % 2 = 1
    BY KeyCells DEF Cell
  <1>2. free \in Nat /\ free % 2 = 0 /\ cur \in Page
    BY Bounds DEF Typed, TypeOK, RamType, Aligned, RecordsAligned
  <1>3. CASE UNCHANGED cell
    BY <1>3 DEF ValueInv
  <1>4. CASE WriteData
    <2>1. cell' = [cell EXCEPT ![cur][free] = wr.val] /\ wr.val \in Value
      BY <1>4 DEF WriteData, ValueInv, Writing
    <2>2. k # free
      BY <1>1, <1>2
    <2>3. cell'[p][k] = cell[p][k]
      BY <1>1, <2>1, <2>2 DEF Typed, TypeOK, FlashType
    <2>4. cell'[p][k - 1] = cell[p][k - 1] \/ cell'[p][k - 1] = wr.val
      BY <1>1, <2>1 DEF Typed, TypeOK, FlashType
    <2> QED BY <2>1, <2>3, <2>4 DEF ValueInv
  <1>5. CASE WriteKey
    <2>1. /\ cell' = [cell EXCEPT ![cur][free + 1] = KeyOf(wr.addr)] /\ wr.val \in Value
          /\ cell[cur][free] = wr.val
      BY <1>5 DEF WriteKey, ValueInv, Writing, Aligned
    <2>2. k - 1 # free + 1
      BY <1>1, <1>2
    <2>3. cell'[p][k - 1] = cell[p][k - 1]
      BY <1>1, <2>1, <2>2 DEF Typed, TypeOK, FlashType
    <2>4. CASE p = cur /\ k = free + 1
      <3>1. k - 1 = free
        BY <1>2, <2>4
      <3> QED BY <2>1, <2>3, <2>4, <3>1
    <2>5. CASE ~(p = cur /\ k = free + 1)
      <3>1. cell'[p][k] = cell[p][k]
        BY <1>1, <2>1, <2>5 DEF Typed, TypeOK, FlashType
      <3> QED BY <2>3, <3>1 DEF ValueInv
    <2> QED BY <2>4, <2>5
  <1>6. CASE EraseSector
    <2>1. cell' = [cell EXCEPT ![era.page] = [i \in Cell |-> Blank]]
      BY <1>6 DEF EraseSector
    <2>2. p # era.page
      BY <1>1, <2>1, FtlAssumption DEF Key, Typed, TypeOK, FlashType
    <2>3. cell'[p] = cell[p]
      BY <2>1, <2>2 DEF Typed, TypeOK, FlashType
    <2> QED BY <2>3 DEF ValueInv
  <1> QED BY <1>3, <1>4, <1>5, <1>6

\* What a copy writes is what the table leads to.
LEMMA CopiedIsMapped ==
    ASSUME Logged, Scans, pc \in {"scan", "recover"}, LiveKeys # {}, NEW k \in LiveKeys, k = Max(LiveKeys)
    PROVE  /\ k \in Keys /\ gc.page \in Page /\ cell[gc.page][k] \in Key
           /\ LET a == cell[gc.page][k].addr
              IN  /\ a \in Addr /\ map[a] # 0
                  /\ PageOf(map[a]) = gc.page /\ IndexOf(map[a]) = k - 1
  <1> USE DEF Logged, Sound
  <1>1. /\ InUse /\ gc.page \in Page /\ Valid(gc.page) /\ cur \in Page
        /\ gc.key % 2 = 1 /\ gc.key \in Nat /\ gc.key <= E - 1
    BY ScanFacts, Bounds DEF LogInv, Scanned, Typed, TypeOK, CallType, Locals
  <1>2. k \in 3 .. E - 1 /\ k % 2 = 1 /\ \A j \in LiveKeys : j <= k
    BY <1>1, NextKey
  <1>3. k \in Keys
    BY <1>2, KeyCells DEF Cell
  <1>4. PICK a \in Addr : cell[gc.page][k] = KeyOf(a) /\ ~CanDrop(a, gc.page)
    BY DEF LiveKeys
  <1>5. cell[gc.page][k] \in Key /\ cell[gc.page][k].addr = a
    BY <1>4 DEF KeyOf, Key
  <1>6. PICK i \in 0 .. N - 1 : gc.page = Back(cur, i)
    BY <1>1, BackFinds
  <1>7. /\ map[a] # 0
        /\ \E j \in 0 .. i : PageOf(map[a]) = Back(cur, j) /\ (j = i => k <= IndexOf(map[a]) + 1)
    BY <1>1, <1>3, <1>4, <1>6 DEF LatestInv
  <1>8. PageOf(map[a]) = gc.page
    BY <1>4, <1>7 DEF CanDrop
  <1> DEFINE t == IndexOf(map[a])
             l == t + 1
  <1>9. k <= l
    <2>1. PICK j \in 0 .. i : PageOf(map[a]) = Back(cur, j) /\ (j = i => k <= IndexOf(map[a]) + 1)
      BY <1>7
    <2>2. j \in 0 .. N - 1 /\ Back(cur, j) = Back(cur, i)
      BY <1>6, <1>8, <2>1, Bounds
    <2>3. j = i
      BY <1>1, <2>2, BackOnce
    <2> QED BY <2>1, <2>3
  <1>10. t \in 0 .. E - 1 /\ t % 2 = 0 /\ l \in Cell /\ cell[gc.page][l] = KeyOf(a)
    BY <1>1, <1>7, <1>8, MapPlaces DEF LogInv, MapPoints, RecordAt
  <1> HIDE DEF t
  <1>11. l \in Nat /\ l % 2 = 1 /\ l \in Keys /\ t = l - 1
    <2>1. l % 2 = 1 /\ l \in Nat /\ t = l - 1
      BY <1>10, Bounds
    <2> QED BY <1>10, <2>1, KeyCells
  <1> HIDE DEF l
  <1>12. l <= gc.key
    <2> SUFFICES ASSUME l > gc.key PROVE FALSE
      BY <1>1, <1>11
    <2>1. ~(Copying /\ wr.addr = a)
      BY DEF Copying
    <2> QED BY <1>4, <1>10, <1>11, <2>1 DEF LogInv, Scanned, Keys
  <1>13. l \in LiveKeys
    <2>1. l \in ScanFrom(gc.key)
      BY <1>1, <1>11, <1>12, OddKeys DEF Keys
    <2> QED BY <1>4, <1>10, <2>1 DEF LiveKeys
  <1>14. l = k
    BY <1>2, <1>9, <1>11, <1>13
  <1> QED BY <1>1, <1>3, <1>5, <1>7, <1>8, <1>11, <1>14 DEF t

LEMMA ValueNext ==
    ASSUME Durable, Logged, ValueInv, [Next]_vars PROVE ValueInv'
  <1> USE DEF Logged, Sound
  <1>1. /\ pc \in {"write", "key"} => Writing
        /\ Writing => wr.val \in Value
        /\ op.kind = "save" => op.wr.val \in Value
    BY DEF ValueInv, Writing
  <1>2. CASE WriteData \/ SetEnd
    <2>1. pc = "write" /\ pc' \in {"write", "key"} /\ UNCHANGED <<op, wr>>
      BY <1>2 DEF WriteData, SetEnd, call
    <2> QED BY <1>1, <1>2, <2>1, ValueCells DEF ValueInv, SetEnd, Writing
  <1>3. CASE WriteKey
    <2>1. pc' \in {"scan", "recover", "idle"} /\ op' \in {op, NoOp}
      BY <1>3 DEF WriteKey, Return
    <2> QED BY <1>1, <1>3, <2>1, ValueCells DEF ValueInv, Writing, Erases, NoOp
  <1>4. CASE FindFreePage
    <2>1. /\ pc = "write" /\ cell' = cell
          /\ \/ pc' \in {"scan", "recover", "idle"} /\ op' \in {op, NoOp}
             \/ UNCHANGED <<op, wr>>
      BY <1>4 DEF FindFreePage, Return, BeginFormat, flash
    <2> QED BY <1>1, <2>1, ValueCells DEF ValueInv, Writing, Erases, NoOp
  <1>5. CASE EraseSector \/ MarkFormat
    <2>1. UNCHANGED <<op, wr, era>> /\ pc' \in {"mark", "stamp"} /\ Erases
      BY <1>5 DEF EraseSector, MarkFormat, MarkErased, Erases
    <2>2. Writing' => Writing
      BY <2>1 DEF Writing, Erases
    <2>3. cell' = cell \/ EraseSector
      BY <1>5 DEF MarkFormat, MarkErased
    <2> QED BY <1>1, <2>1, <2>2, <2>3, ValueCells DEF ValueInv
  <1>6. CASE StampNext
    <2>1. /\ Writing /\ cell' = cell /\ op' = op
          /\ pc' = "scan" \/ wr' = wr
      BY <1>6 DEF StampNext, StampPage, StartGc, Writing, Erases, Typed, CallOK
    <2> QED BY <1>1, <2>1, ValueCells DEF ValueInv, Writing, Erases
  <1>7. CASE CopyLive \/ RecoverCopy
    <2>1. pc \in {"scan", "recover"} /\ CopyNext /\ Scans
      BY <1>7 DEF CopyLive, RecoverCopy, Scans, Emptying, Erases, SpaceInv, InRequest
    <2>2. cell' = cell /\ op' = op /\ LiveKeys # {} /\ wr'.val = cell[gc.page][Max(LiveKeys) - 1]
      BY <2>1 DEF CopyNext, flash
    <2>3. gc.key % 2 = 1
      BY <2>1 DEF LogInv, Scanned
    <2>4. PICK k \in LiveKeys : k = Max(LiveKeys)
      BY <2>2, <2>3, NextKey
    <2>5. k \in Keys /\ gc.page \in Page /\ cell[gc.page][k] \in Key
      BY <2>1, <2>2, <2>4, CopiedIsMapped
    <2>6. wr'.val \in Value
      BY <2>2, <2>4, <2>5 DEF ValueInv
    <2> QED BY <1>1, <2>2, <2>6, ValueCells DEF ValueInv
  <1>8. CASE MarkCollected
    <2>1. /\ cell' = cell /\ pc' \in {"scan", "write", "idle"} /\ op' \in {op, NoOp}
          /\ pc' = "write" => op.kind = "save" /\ wr' = op.wr
      BY <1>8 DEF MarkCollected, MarkErased, EndGc
    <2> QED BY <1>1, <2>1, ValueCells DEF ValueInv, Writing, Erases, NoOp
  <1>9. CASE \E s \in Saves : Save(s[1], s[2])
    <2>1. PICK s \in Saves : Save(s[1], s[2])
      BY <1>9
    <2>2. s[2] \in Value
      BY FtlAssumption
    <2>3. wr'.val = s[2] /\ op'.wr = wr' /\ cell' = cell
      BY <2>1 DEF Save, flash
    <2> QED BY <2>2, <2>3, ValueCells DEF ValueInv
  <1>10. CASE \/ CollectPage \/ Sweep \/ MarkSwept \/ ClearAll \/ StampFirst \/ ClearPage
              \/ ClearTable \/ FormatFirst \/ Mount \/ RecoverEnd \/ Crash
              \/ (\E m \in GcPages, n \in GcCells : Collect(m, n))
    <2>1. cell' = cell
      BY <1>10 DEF CollectPage, Sweep, MarkSwept, MarkErased, ClearAll, StampFirst, StampPage,
         ClearPage, ClearTable, FormatFirst, Mount, RecoverEnd, Crash, Collect, flash
    <2>2. CASE CollectPage
      BY <1>1, <2>1, <2>2, ValueCells DEF CollectPage, ValueInv, Writing, Erases
    <2>3. CASE Sweep \/ MarkSwept
      <3>1. op'.kind # "save" /\ pc' \in {"erase", "idle"} /\ op'.kind # "collect"
        BY <2>3 DEF Sweep, MarkSwept, SweepOn, NoOp
      <3> QED BY <2>1, <3>1, ValueCells DEF ValueInv, Writing, Erases
    <2>4. CASE ClearPage \/ ClearTable
      <3>1. op.kind \in {"clear", "wipe"} /\ op' = op /\ pc' \notin {"write", "key"}
        BY <2>4 DEF ClearPage, ClearTable, BeginFormat, Typed, CallOK
      <3> QED BY <2>1, <3>1, ValueCells DEF ValueInv, Writing
    <2>5. CASE \/ ClearAll \/ StampFirst \/ FormatFirst \/ Mount \/ RecoverEnd \/ Crash
               \/ (\E m \in GcPages, n \in GcCells : Collect(m, n))
      <3>1. op'.kind # "save" /\ pc' \notin {"write", "key"}
        BY <2>5 DEF ClearAll, StampFirst, FormatFirst, BeginFormat, BootOp, Mount, RecoverEnd,
           Crash, LoseRam, Collect, StartGc, NoOp
      <3>2. Erases' => op'.kind # "collect"
        BY <2>5 DEF ClearAll, StampFirst, FormatFirst, BeginFormat, BootOp, Mount, RecoverEnd,
           Crash, LoseRam, Collect, StartGc, NoOp, Erases
      <3> QED BY <2>1, <3>1, <3>2, ValueCells DEF ValueInv, Writing
    <2> QED BY <1>10, <2>2, <2>3, <2>4, <2>5
  <1>11. CASE UNCHANGED vars
    BY <1>11 DEF vars, flash, ram, call, ValueInv, Writing, Erases
  <1>12. ~FormatFails /\ ~CollectFails /\ ~SweepFails /\ ~CutWrite
    BY DEF Durable, Undisturbed, Orderly, FormatFails, CollectFails, SweepFails, MarkFails, CutWrite
  <1> QED
    BY <1>2, <1>3, <1>4, <1>5, <1>6, <1>7, <1>8, <1>9, <1>10, <1>11, <1>12
       DEF Next, Step, Request, PowerLoss

\* The words that the table leads to are not written over, nor erased.
LEMMA MapKept ==
    ASSUME Sound, InUse, WriteData \/ EraseSector \/ UNCHANGED cell, NEW a \in Addr, map[a] # 0
    PROVE  cell'[PageOf(map[a])][IndexOf(map[a])] = cell[PageOf(map[a])][IndexOf(map[a])]
  <1> USE DEF Sound
  <1> DEFINE p == PageOf(map[a])
             i == IndexOf(map[a])
  <1>1. /\ p \in Page /\ i \in 0 .. E - 1 /\ Valid(p) /\ i % 2 = 0 /\ i + 1 \in Cell
        /\ cell[p][i + 1] = KeyOf(a)
    BY MapPlaces DEF LogInv, MapPoints, RecordAt
  <1> HIDE DEF p, i
  <1>2. CASE WriteData
    <2>1. cell' = [cell EXCEPT ![cur][free] = wr.val] /\ pc = "write" /\ free \in Nat
      BY <1>2, Bounds DEF WriteData, Typed, TypeOK, RamType
    <2>2. ~(p = cur /\ i = free)
      <3> SUFFICES ASSUME p = cur, i = free PROVE FALSE
        OBVIOUS
      <3>1. free + 1 \in Cell /\ free + 1 > free
        BY <1>1, <2>1
      <3>2. cell[cur][free + 1] = Blank
        BY <2>1, <3>1 DEF LogInv, CursorClear
      <3> QED BY <1>1, <3>2, FtlAssumption DEF KeyOf
    <2>3. i \in Cell
      BY <1>1, Bounds DEF Cell
    <2>4. cell'[p][i] = cell[p][i]
      BY <1>1, <2>1, <2>2, <2>3 DEF Typed, TypeOK, FlashType
    <2> QED BY <2>4 DEF p, i
  <1>3. CASE EraseSector
    <2>1. /\ pc = "erase" /\ \A q \in Page : q # era.page => cell'[q] = cell[q]
      BY <1>3 DEF EraseSector, Typed, TypeOK, FlashType
    <2>2. p # era.page
      <3>1. CASE era.by = "collect"
        BY <2>1, <3>1 DEF LogInv, CollectedPageIsDead, p
      <3>2. CASE era.by # "collect"
        <4>1. ~Valid(era.page)
          BY <2>1, <3>2 DEF SpaceInv, InRequest, ErasesFree, Erases, InUse, Clearing
        <4> QED BY <1>1, <4>1
      <3> QED BY <3>1, <3>2
    <2> QED BY <1>1, <2>1, <2>2 DEF p
  <1> QED BY <1>2, <1>3

LEMMA WriteNext ==
    ASSUME Durable, Logged, SpaceInv', WriteInv, [Next]_vars PROVE WriteInv'
  <1> USE DEF Logged, Sound
  <1>1. CASE WriteData \/ SetEnd \/ EraseSector \/ MarkFormat
    <2>1. /\ UNCHANGED <<op, wr, era, map, gcing>>
          /\ WriteData \/ EraseSector \/ UNCHANGED cell
          /\ \/ pc = "write" /\ pc' \in {"write", "key"}
             \/ Erases /\ pc' \in {"mark", "stamp"}
      BY <1>1 DEF WriteData, SetEnd, EraseSector, MarkFormat, MarkErased, ram, call, Erases
    <2>2. (Writing' => Writing) /\ (Copying' => Copying)
      BY <2>1 DEF Writing, Copying, Scans, Emptying, Erases
    <2>3. CASE Copying
      <3>1. InUse /\ wr.addr \in Addr
        BY <2>1, <2>3, UseFacts DEF Copying, Scans, Emptying, Typed, WritePending, Writes, Erases,
           SpaceInv, InRequest
      <3> QED BY <2>1, <2>2, <2>3, <3>1, MapKept DEF WriteInv, PageOf, IndexOf
    <2> QED BY <2>1, <2>2, <2>3 DEF WriteInv
  <1>2. CASE WriteKey
    <2>1. pc' \in {"scan", "recover", "idle"}
      BY <1>2 DEF WriteKey, Return
    <2>2. ~Writing' /\ ~Copying'
      BY <2>1 DEF Writing, Erases, Copying, Scans, SpaceInv, InRequest
    <2> QED BY <2>2 DEF WriteInv
  <1>3. CASE FindFreePage
    <2>1. \/ pc' \in {"scan", "recover", "idle"}
          \/ UNCHANGED <<op, wr, gcing>> /\ pc' \in {"erase", "stamp"} /\ era'.by = "format"
      BY <1>3 DEF FindFreePage, Return, BeginFormat
    <2>2. UNCHANGED <<map, cell>> /\ pc = "write"
      BY <1>3 DEF FindFreePage, flash, ram
    <2>3. CASE pc' \in {"scan", "recover", "idle"}
      <3>1. ~Writing' /\ ~Copying'
        BY <2>3 DEF Writing, Erases, Copying, Scans, SpaceInv, InRequest
      <3> QED BY <3>1 DEF WriteInv
    <2>4. CASE UNCHANGED <<op, wr, gcing>> /\ pc' \in {"erase", "stamp"}
      <3>1. Writing /\ (Copying' => Copying)
        BY <2>2, <2>4 DEF Writing, Copying, Scans, Emptying, Erases
      <3> QED BY <2>2, <2>4, <3>1 DEF WriteInv, PageOf, IndexOf
    <2> QED BY <2>1, <2>3, <2>4
  <1>4. CASE StampNext
    <2>1. /\ UNCHANGED <<op, map, cell>> /\ pc = "stamp" /\ era.by = "format"
          /\ op.kind \in {"save", "collect"}
          /\ pc' = "scan" \/ (pc' = "write" /\ UNCHANGED <<gcing, wr>>)
      BY <1>4 DEF StampNext, StampPage, StartGc, Typed, CallOK
    <2>2. Writing /\ (Copying' => Copying) /\ (pc' = "scan" => ~Writing' /\ ~Copying')
      BY <2>1 DEF Writing, Copying, Scans, Emptying, Erases
    <2> QED BY <2>1, <2>2 DEF WriteInv, PageOf, IndexOf
  <1>5. CASE CopyLive \/ RecoverCopy
    <2>1. pc \in {"scan", "recover"} /\ CopyNext /\ Scans /\ (gcing \/ op.kind = "boot")
      BY <1>5 DEF CopyLive, RecoverCopy, Scans, Emptying, Erases, SpaceInv, InRequest
    <2>2. /\ UNCHANGED <<cell, map, op, gcing>> /\ LiveKeys # {}
          /\ wr' = [addr |-> cell[gc.page][Max(LiveKeys)].addr,
                    val |-> cell[gc.page][Max(LiveKeys) - 1]]
      BY <2>1 DEF CopyNext, flash, ram
    <2>3. gc.key % 2 = 1
      BY <2>1 DEF LogInv, Scanned
    <2>4. PICK k \in LiveKeys : k = Max(LiveKeys)
      BY <2>2, <2>3, NextKey
    <2>5. LET a == cell[gc.page][k].addr
          IN  map[a] # 0 /\ PageOf(map[a]) = gc.page /\ IndexOf(map[a]) = k - 1
      BY <2>1, <2>2, <2>4, CopiedIsMapped
    <2>6. /\ wr'.addr = cell[gc.page][k].addr /\ wr'.val = cell[gc.page][k - 1]
      BY <2>2, <2>4
    <2>7. map'[wr'.addr] # 0 /\ cell'[PageOf(map[wr'.addr])][IndexOf(map[wr'.addr])] = wr'.val
      BY <2>2, <2>5, <2>6
    <2> QED BY <2>1, <2>2, <2>7 DEF WriteInv, PageOf, IndexOf
  <1>6. CASE MarkCollected
    <2>1. /\ pc' \in {"scan", "write", "idle"} /\ op' \in {op, NoOp}
          /\ pc' = "write" => op' = op /\ op.kind = "save" /\ wr' = op.wr /\ ~gcing'
      BY <1>6 DEF MarkCollected, EndGc
    <2>2. ~Copying'
      BY <2>1 DEF Copying, Scans, SpaceInv, InRequest
    <2> QED BY <2>1, <2>2 DEF WriteInv, Writing, Erases
  <1>7. CASE \E s \in Saves : Save(s[1], s[2])
    <2>1. pc = "idle" /\ gcing' = gcing /\ op'.wr = wr' /\ op'.kind = "save"
      BY <1>7 DEF Save
    <2>2. ~Copying'
      BY <2>1 DEF Copying, Scans, SpaceInv, InRequest
    <2> QED BY <2>1, <2>2 DEF WriteInv
  <1>8. CASE CollectPage
    <2>1. /\ pc' = "erase" /\ era'.by = "collect" /\ op' = op /\ gcing' = gcing /\ pc = "scan"
      BY <1>8 DEF CollectPage
    <2>2. ~Copying' /\ ~Writing'
      BY <2>1 DEF Copying, Scans, Emptying, Erases, Writing
    <2> QED BY <2>2 DEF WriteInv
  <1>9. CASE \/ Sweep \/ MarkSwept \/ ClearAll \/ StampFirst \/ ClearPage
             \/ ClearTable \/ FormatFirst \/ Mount \/ RecoverEnd \/ Crash
             \/ (\E m \in GcPages, n \in GcCells : Collect(m, n))
    <2>1. op'.kind # "save" /\ pc' \notin {"write", "key"}
      <3>1. CASE ClearPage \/ ClearTable
        BY <3>1 DEF ClearPage, ClearTable, BeginFormat, Typed, CallOK
      <3>2. CASE ~(ClearPage \/ ClearTable)
        BY <1>9, <3>2 DEF Sweep, MarkSwept, SweepOn, ClearAll, StampFirst, FormatFirst,
           BeginFormat, BootOp, Mount, RecoverEnd, Crash, LoseRam, Collect, StartGc, NoOp
      <3> QED BY <3>1, <3>2
    <2>2. (op'.kind = "collect" => pc' = "scan")
      <3>1. CASE ClearPage \/ ClearTable
        BY <3>1 DEF ClearPage, ClearTable, BeginFormat, Typed, CallOK
      <3>2. CASE ~(ClearPage \/ ClearTable)
        BY <1>9, <3>2 DEF Sweep, MarkSwept, SweepOn, ClearAll, StampFirst, FormatFirst,
           BeginFormat, BootOp, Mount, RecoverEnd, Crash, LoseRam, Collect, StartGc, NoOp
      <3> QED BY <3>1, <3>2
    <2>3. ~Copying'
      BY <2>1, <2>2 DEF Copying, Scans, SpaceInv, InRequest
    <2> QED BY <2>1, <2>3 DEF WriteInv
  <1>10. CASE UNCHANGED vars
    BY <1>10 DEF vars, flash, ram, call, WriteInv, Writing, Copying, Scans, Emptying, Erases,
       PageOf, IndexOf
  <1>11. ~FormatFails /\ ~CollectFails /\ ~SweepFails /\ ~CutWrite
    BY DEF Durable, Undisturbed, Orderly, FormatFails, CollectFails, SweepFails, MarkFails, CutWrite
  <1> QED
    BY <1>1, <1>2, <1>3, <1>4, <1>5, <1>6, <1>7, <1>8, <1>9, <1>10, <1>11
       DEF Next, Step, Request, PowerLoss

\* A log of saved words is a map of saved words.
LEMMA LogTyped ==
    ASSUME FlashType, ValueInv
    PROVE  LogValue \in [Addr -> Value \cup {None}]
  <1>1. ASSUME NEW p \in Page, NEW a \in Addr
        PROVE  LogFrom(p)[a] \in Value \cup {None}
    <2> DEFINE R == Records(p, a)
               Last(r) == \A s \in R : Later(r, s)
               r0 == CHOOSE r \in R : Last(r)
    <2>1. LogFrom(p)[a] = IF R = {} THEN None ELSE cell[Back(p, r0[1])][r0[2] - 1]
      BY DEF LogFrom
    <2>2. ASSUME NEW r \in R
          PROVE  \E i \in 0 .. N - 1, k \in Keys : r = <<i, k>> /\ cell[Back(p, i)][k] = KeyOf(a)
      <3> DEFINE At(i) == {i} \X {k \in Cell : k % 2 = 1 /\ cell[Back(p, i)][k] = KeyOf(a)}
                 B == {j \in 0 .. N - 1 : Follows(p, j)}
      <3>1. R = UNION {At(i) : i \in B}
        BY DEF Records
      <3>2. PICK i \in B : r \in At(i)
        BY <3>1
      <3>3. PICK k \in Cell : r = <<i, k>> /\ k % 2 = 1 /\ cell[Back(p, i)][k] = KeyOf(a)
        BY <3>2
      <3> QED BY <3>3, KeyCells
    <2> HIDE DEF R
    <2>3. CASE R # {}
      <3> DEFINE I == {i \in 0 .. N - 1 : \E k \in Keys : <<i, k>> \in R}
      <3>1. I # {} /\ I \in SUBSET Nat
        BY <2>2, <2>3
      <3>2. PICK i \in I : \A j \in I : i <= j
        BY <3>1, LeastNatural
      <3> DEFINE K == {k \in Keys : <<i, k>> \in R}
      <3>3. K # {} /\ K \in SUBSET Nat /\ E - 1 \in Nat /\ \A k \in K : k <= E - 1
        BY <3>2, KeyCells, Bounds
      <3>4. PICK k \in K : k = Max(K)
        <4> HIDE DEF K
        <4> QED BY <3>3, MaxIsGreatest
      <3>5. \A l \in K : l <= k
        <4> HIDE DEF K
        <4> QED BY <3>3, <3>4, MaxIsGreatest
      <3>6. <<i, k>> \in R
        OBVIOUS
      <3>7. ASSUME NEW s \in R PROVE Later(<<i, k>>, s)
        <4>1. PICK j \in 0 .. N - 1, l \in Keys : s = <<j, l>>
          BY <2>2
        <4>2. j \in I /\ i <= j /\ (j = i => l <= k)
          BY <3>2, <3>5, <4>1
        <4>3. i < j \/ (i = j /\ k >= l)
          BY <3>1, <4>2, KeyCells
        <4> QED BY <4>1, <4>3 DEF Later
      <3>8. r0 \in R
        BY <3>6, <3>7
      <3>9. PICK j \in 0 .. N - 1, l \in Keys : r0 = <<j, l>> /\ cell[Back(p, j)][l] = KeyOf(a)
        BY <2>2, <3>8
      <3>10. Back(p, j) \in Page /\ KeyOf(a) \in Key
        BY BackIs DEF KeyOf, Key
      <3>11. cell[Back(p, j)][l - 1] \in Value
        BY <3>9, <3>10 DEF ValueInv
      <3>12. r0[1] = j /\ r0[2] = l
        <4> HIDE DEF r0
        <4> QED BY <3>9
      <3> QED BY <2>1, <2>3, <3>11, <3>12
    <2> QED BY <2>1, <2>3
  <1>2. \A p \in Page : LogFrom(p) \in [Addr -> Value \cup {None}]
    <2> TAKE p \in Page
    <2>1. LogFrom(p) = [a \in Addr |-> LogFrom(p)[a]]
      BY DEF LogFrom
    <2> QED BY <1>1, <2>1
  <1>3. CASE Newest = {}
    BY <1>3 DEF LogValue
  <1>4. CASE Newest # {}
    <2> DEFINE S == {LogFrom(p) : p \in Newest}
    <2>1. LogValue = CHOOSE v \in S : TRUE
      BY <1>4 DEF LogValue
    <2>2. S # {} /\ S \subseteq [Addr -> Value \cup {None}]
      BY <1>2, <1>4 DEF Newest
    <2> HIDE DEF S
    <2> QED BY <2>1, <2>2
  <1> QED BY <1>3, <1>4

Nothing == [a \in Addr |-> None]

LEMMA EmptyLog == NoneValid => LogValue = Nothing
  BY DEF NoneValid, LogValue, Newest, Nothing

\* The log is what is in the flash, and nothing else.
LEMMA SameLog ==
    ASSUME UNCHANGED <<status, seq, cell>> PROVE LogValue' = LogValue
  BY DEF LogValue, LogFrom, Records, Newest, Follows, Valid, Later, Back

Stored == Logged /\ RoomInv /\ ValueInv /\ WriteInv

\* What the log is worth, call by call.
LogFacts ==
    /\ InUse => LogValue = Mapped
    /\ NoneValid => LogValue = Nothing
    /\ LogValue \in [Addr -> Value \cup {None}]

LEMMA StoredFacts == Stored => LogFacts
  BY TableIsLog, EmptyLog, LogTyped DEF Stored, LogFacts, Logged, Sound, Typed, TypeOK

\* The request that has not returned yet.
Pend ==
    CASE op.kind = "save" -> [kind |-> "save", addr |-> op.wr.addr, val |-> op.wr.val]
      [] op.kind = "clear" -> [kind |-> "clear"]
      [] OTHER -> [kind |-> "none"]

LEMMA PendIs ==
    /\ op.kind = "save" => Pend = [kind |-> "save", addr |-> op.wr.addr, val |-> op.wr.val]
    /\ op.kind = "clear" => Pend = [kind |-> "clear"]
    /\ op.kind \notin {"save", "clear"} => Pend = [kind |-> "none"]
  BY DEF Pend

LEMMA LogKept ==
    ASSUME Sound, LogFacts, LogFacts', InUse, InUse', map' = map,
           WriteData \/ EraseSector \/ UNCHANGED cell
    PROVE  LogValue' = LogValue
  <1>1. \A a \in Addr : map[a] # 0 =>
            cell'[PageOf(map[a])][IndexOf(map[a])] = cell[PageOf(map[a])][IndexOf(map[a])]
    BY MapKept
  <1>2. Mapped' = Mapped
    BY <1>1 DEF Mapped, PageOf, IndexOf
  <1> QED BY <1>2 DEF LogFacts

\* The steps of a call that the caller cannot see.
Hidden == LogValue' = LogValue /\ Pend' = Pend /\ Mounted' = Mounted

\* In each lemma of what a step shows: the invariants hold before and after it.
LEMMA QuietShown ==
    ASSUME Stored, LogFacts, Stored', LogFacts',
           \/ WriteData \/ SetEnd \/ FindFreePage \/ StampNext \/ CopyLive \/ RecoverCopy
           \/ CollectPage \/ MarkCollected \/ MarkSwept \/ Sweep
           \/ (InUse /\ (EraseSector \/ MarkFormat))
           \/ (\E m \in GcPages, n \in GcCells : Collect(m, n))
    PROVE  Hidden
  <1> USE DEF Stored, Logged, Sound
  <1>1. map' = map /\ (WriteData \/ EraseSector \/ UNCHANGED cell)
    BY DEF SetEnd, FindFreePage, StampNext, StampPage, CopyLive, RecoverCopy, CopyNext, CollectPage,
       MarkCollected, MarkSwept, MarkFormat, MarkErased, EraseSector, Sweep, Collect, WriteData,
       flash, ram
  <1>2. InUse
    <2>1. CASE StampNext
      BY <2>1, UseFacts DEF StampNext, StampPage, Erases
    <2>2. CASE MarkCollected \/ MarkSwept
      <3>1. pc = "mark" /\ era.by \in {"collect", "sweep"}
        BY <2>2 DEF MarkCollected, MarkSwept, MarkErased
      <3> QED BY <3>1, UseFacts DEF SpaceInv, InRequest, Erases
    <2>3. CASE ~(StampNext \/ MarkCollected \/ MarkSwept)
      <3>1. InUse \/ pc \in {"idle", "write", "key", "scan", "recover"}
        BY <2>3 DEF WriteData, SetEnd, FindFreePage, CopyLive, RecoverCopy, CollectPage, Sweep, Collect
      <3> QED BY <3>1, UseFacts
    <2> QED BY <2>1, <2>2, <2>3
  <1>3. /\ pc' # "off"
        /\ \/ op' = op
           \/ op.kind \in {"none", "collect", "sweep"} /\ op'.kind \in {"none", "collect", "sweep"}
    <2>1. CASE FindFreePage
      BY <2>1, SpaceForWrite DEF FindFreePage, BeginFormat
    <2>2. CASE MarkCollected
      <3>1. op.kind \in {"save", "collect"}
        BY <2>2 DEF MarkCollected, MarkErased, SpaceInv, InRequest
      <3> QED BY <2>2, <3>1 DEF MarkCollected, EndGc, NoOp
    <2>3. CASE MarkSwept
      <3>1. op.kind = "sweep"
        BY <2>3 DEF MarkSwept, MarkErased, SpaceInv, InRequest
      <3> QED BY <2>3, <3>1 DEF MarkSwept, SweepOn, NoOp
    <2>4. CASE Sweep \/ (\E m \in GcPages, n \in GcCells : Collect(m, n))
      <3>1. op.kind = "none"
        BY <2>4 DEF Sweep, Collect, SpaceInv, InRequest
      <3> QED BY <2>4, <3>1 DEF Sweep, SweepOn, NoOp, Collect, StartGc
    <2>5. CASE WriteData \/ SetEnd \/ StampNext \/ CopyLive \/ RecoverCopy \/ CollectPage
               \/ EraseSector \/ MarkFormat
      BY <2>5 DEF WriteData, SetEnd, StampNext, StartGc, CopyLive, RecoverCopy, CopyNext,
         CollectPage, EraseSector, MarkFormat, call
    <2> QED BY <2>1, <2>2, <2>3, <2>4, <2>5
  <1>4. InUse'
    <2>1. op'.kind \notin {"clear", "wipe"}
      BY <1>2, <1>3 DEF InUse, Clearing
    <2>2. ~(op'.kind = "boot" /\ Erases')
      <3> SUFFICES ASSUME op'.kind = "boot", Erases' PROVE FALSE
        OBVIOUS
      <3>1. op.kind = "boot" /\ ~Erases
        BY <1>2, <1>3 DEF InUse
      <3>2. pc' \in {"erase", "mark", "stamp"}
        BY DEF Erases
      <3>3. FindFreePage \/ CollectPage
        <4>1. ~(StampNext \/ MarkCollected \/ MarkSwept \/ EraseSector \/ MarkFormat)
          BY <3>1 DEF StampNext, StampPage, MarkCollected, MarkSwept, MarkErased, EraseSector,
             MarkFormat, Erases
        <4>2. ~(WriteData \/ SetEnd \/ CopyLive \/ RecoverCopy)
          BY <3>2 DEF WriteData, SetEnd, CopyLive, RecoverCopy, CopyNext, call
        <4>3. ~(Sweep \/ (\E m \in GcPages, n \in GcCells : Collect(m, n)))
          BY <3>1, <3>2 DEF Sweep, SweepOn, Collect, StartGc, SpaceInv, InRequest
        <4> QED BY <4>1, <4>2, <4>3
      <3>4. CASE FindFreePage
        BY <3>1, <3>4, SpaceForWrite DEF FindFreePage
      <3>5. CASE CollectPage
        BY <3>1, <3>5 DEF CollectPage, SpaceInv, InRequest
      <3> QED BY <3>3, <3>4, <3>5
    <2> QED BY <1>3, <2>1, <2>2 DEF InUse, Clearing
  <1>5. LogValue' = LogValue
    BY <1>1, <1>2, <1>4, LogKept
  <1>6. Pend' = Pend
    BY <1>3 DEF Pend
  <1>7. Mounted' = Mounted
    BY <1>2, <1>3, <1>4 DEF Mounted, InUse, Clearing
  <1> QED BY <1>5, <1>6, <1>7 DEF Hidden

\* The key word of a record commits a save; that of a copy changes nothing.
LEMMA WriteKeyShown ==
    ASSUME Stored, LogFacts, Stored', LogFacts', WriteKey
    PROVE  \/ Hidden
           \/ /\ Pend.kind = "save" /\ Pend' = [kind |-> "none"]
              /\ LogValue' = [LogValue EXCEPT ![Pend.addr] = Pend.val]
              /\ Mounted' = Mounted
  <1> USE DEF Stored, Logged, Sound
  <1>1. /\ cur \in Page /\ free \in Cell /\ free + 1 \in Cell /\ free % 2 = 0 /\ free \in Nat
        /\ wr.addr \in Addr /\ pc = "key" /\ InUse
        /\ cell' = [cell EXCEPT ![cur][free + 1] = KeyOf(wr.addr)]
        /\ map' = [map EXCEPT ![wr.addr] = Phy(cur, free)]
        /\ cell[cur][free] = wr.val
    BY UseFacts, Bounds DEF WriteKey, Full, Typed, TypeOK, RamType, Aligned, RecordsAligned,
          Cell, CallOK, WritePending, Writes
  <1>2. /\ pc' \in {"scan", "recover", "idle"}
        /\ IF gcing \/ op.kind = "boot" THEN op' = op ELSE op' = NoOp
    BY DEF WriteKey, Return
  <1>3. InUse' /\ Mounted' = Mounted
    BY <1>1, <1>2 DEF InUse, Clearing, Mounted, NoOp, Erases
  <1>4. ASSUME NEW a \in Addr
        PROVE  Mapped'[a] = IF a = wr.addr THEN wr.val ELSE Mapped[a]
    <2>1. CASE a = wr.addr
      <3>1. map'[a] = Phy(cur, free)
        BY <1>1, <2>1 DEF Typed, TypeOK, RamType
      <3>2. /\ PageOf(Phy(cur, free)) = cur /\ IndexOf(Phy(cur, free)) = free
            /\ Phy(cur, free) # 0
        BY <1>1, PhyInverse
      <3>3. free # free + 1
        BY <1>1
      <3>4. cell'[cur][free] = wr.val
        BY <1>1, <3>3 DEF Typed, TypeOK, FlashType
      <3> QED BY <2>1, <3>1, <3>2, <3>4 DEF Mapped, PageOf, IndexOf
    <2>2. CASE a # wr.addr
      <3>1. map'[a] = map[a]
        BY <1>1, <2>2 DEF Typed, TypeOK, RamType
      <3>2. CASE map[a] = 0
        BY <2>2, <3>1, <3>2 DEF Mapped
      <3>3. CASE map[a] # 0
        <4> DEFINE p == PageOf(map[a])
                   i == IndexOf(map[a])
        <4>1. p \in Page /\ i \in 0 .. E - 1 /\ i % 2 = 0 /\ i + 1 \in Cell
          BY <1>1, <3>3, MapPlaces DEF LogInv, MapPoints, RecordAt
        <4> HIDE DEF p, i
        <4>2. i \in Cell /\ i # free + 1
          BY <1>1, <4>1, Bounds DEF Cell
        <4>3. cell'[p][i] = cell[p][i]
          BY <1>1, <4>1, <4>2 DEF Typed, TypeOK, FlashType
        <4> QED BY <2>2, <3>1, <3>3, <4>3 DEF Mapped, p, i, PageOf, IndexOf
      <3> QED BY <3>2, <3>3
    <2> QED BY <2>1, <2>2
  <1>5. Mapped' = [Mapped EXCEPT ![wr.addr] = wr.val]
    <2>1. Mapped' = [a \in Addr |-> Mapped'[a]]
      BY DEF Mapped
    <2>2. Mapped = [a \in Addr |-> Mapped[a]]
      BY DEF Mapped
    <2> HIDE DEF Mapped
    <2>3. Mapped' = [a \in Addr |-> IF a = wr.addr THEN wr.val ELSE Mapped[a]]
      BY <1>4, <2>1
    <2> QED BY <2>2, <2>3
  <1>6. LogValue = Mapped /\ LogValue' = Mapped'
    BY <1>1, <1>3 DEF LogFacts
  <1>7. CASE Copying
    <2>1. Mapped[wr.addr] = wr.val
      BY <1>1, <1>7 DEF WriteInv, Mapped
    <2>2. Mapped = [a \in Addr |-> Mapped[a]]
      BY DEF Mapped
    <2>3. Mapped' = Mapped
      <3> HIDE DEF Mapped
      <3> QED BY <1>1, <1>5, <2>1, <2>2
    <2>4. gcing \/ op.kind = "boot"
      BY <1>7 DEF Copying, Scans
    <2>5. Pend' = Pend
      BY <1>2, <2>4 DEF Pend
    <2> QED BY <1>3, <1>6, <2>3, <2>5 DEF Hidden
  <1>8. CASE ~Copying
    <2>1. op.kind = "save" /\ ~gcing
      BY <1>1, <1>8 DEF Copying, Scans, Emptying, Erases, SpaceInv, InRequest
    <2>2. wr = op.wr
      BY <1>1, <2>1 DEF WriteInv, Writing
    <2>3. /\ Pend = [kind |-> "save", addr |-> wr.addr, val |-> wr.val]
          /\ Pend' = [kind |-> "none"]
      BY <1>2, <2>1, <2>2 DEF Pend, NoOp
    <2> QED BY <1>3, <1>5, <1>6, <2>3
  <1> QED BY <1>7, <1>8

\* A request is made of a mounted FTL that serves no other.
LEMMA RequestShown ==
    ASSUME Stored, LogFacts, Stored', LogFacts',
           ClearAll \/ \E s \in Saves : Save(s[1], s[2])
    PROVE  /\ Mounted /\ Mounted' /\ Pend = [kind |-> "none"] /\ LogValue' = LogValue
           /\ \/ Pend' = [kind |-> "clear"]
              \/ \E a \in Addr, v \in Value : Pend' = [kind |-> "save", addr |-> a, val |-> v]
  <1> USE DEF Stored, Logged, Sound
  <1>1. pc = "idle" /\ UNCHANGED <<status, seq, cell>> /\ pc' # "off"
    BY DEF ClearAll, Save, flash
  <1>2. op.kind = "none"
    BY <1>1 DEF SpaceInv, InRequest
  <1>3. Mounted /\ Pend = [kind |-> "none"] /\ LogValue' = LogValue
    BY <1>1, <1>2, SameLog, PendIs DEF Mounted
  <1>4. CASE ClearAll
    <2>1. op'.kind = "clear"
      BY <1>4 DEF ClearAll
    <2> QED BY <1>1, <1>3, <2>1 DEF Mounted, Pend
  <1>5. CASE \E s \in Saves : Save(s[1], s[2])
    <2>1. PICK s \in Saves : Save(s[1], s[2])
      BY <1>5
    <2>2. s[1] \in Addr /\ s[2] \in Value
      BY FtlAssumption
    <2>3. /\ op'.kind = "save" /\ op'.wr.addr = s[1] /\ op'.wr.val = s[2]
      BY <2>1 DEF Save
    <2>4. Pend' = [kind |-> "save", addr |-> s[1], val |-> s[2]]
      BY <2>3 DEF Pend
    <2> QED BY <1>1, <1>3, <2>2, <2>3, <2>4 DEF Mounted
  <1> QED BY <1>4, <1>5

\* While the store is cleared, it holds words that were saved, or none.
LEMMA ClearShown ==
    ASSUME Stored, LogFacts, Stored', LogFacts', Clearing,
           ClearPage \/ ClearTable \/ EraseSector \/ MarkFormat
    PROVE  /\ Pend = [kind |-> "clear"] /\ Pend' = Pend /\ Mounted' = Mounted
           /\ LogValue' \in [Addr -> Value \cup {None}]
  <1>1. op.kind = "clear" /\ op' = op
    BY DEF Stored, RoomInv, NeverWipes, Clearing, ClearPage, ClearTable, EraseSector, MarkFormat
  <1>2. pc # "off" /\ pc' # "off"
    BY <1>1 DEF ClearPage, ClearTable, BeginFormat, EraseSector, MarkFormat, MarkErased
  <1> QED BY <1>1, <1>2 DEF Pend, Mounted, LogFacts

\* The first page is stamped: the store is empty.
LEMMA StampFirstShown ==
    ASSUME Stored, LogFacts, Stored', LogFacts', StampFirst
    PROVE  /\ LogValue' = Nothing /\ Pend' = [kind |-> "none"] /\ Mounted'
           /\ \/ Mounted /\ Pend = [kind |-> "clear"]
              \/ ~Mounted /\ Pend = [kind |-> "none"] /\ LogValue = Nothing
  <1> USE DEF Stored, Logged, Sound
  <1>1. /\ pc = "stamp" /\ op.kind \in {"boot", "clear"} /\ map' = map
        /\ pc' = "idle" /\ op' = NoOp
    BY DEF StampFirst, StampPage, RoomInv, NeverWipes
  <1>2. (\A a \in Addr : map[a] = 0) /\ NoneValid
    BY <1>1 DEF LogInv, EmptyTable, Erases, SpaceInv, ErasesFree
  <1>3. InUse'
    BY <1>1 DEF InUse, NoOp, Clearing
  <1>4. LogValue' = Nothing
    BY <1>1, <1>2, <1>3 DEF LogFacts, Mapped, Nothing
  <1> QED BY <1>1, <1>2, <1>4, PendIs DEF LogFacts, Pend, Mounted, NoOp

\* Up to its last step, a boot changes nothing; then the FTL is mounted.
LEMMA BootShown ==
    ASSUME Stored, LogFacts, Stored', LogFacts',
           \/ FormatFirst \/ Mount \/ RecoverEnd
           \/ (op.kind = "boot" /\ (EraseSector \/ MarkFormat))
    PROVE  /\ Pend = [kind |-> "none"] /\ Pend' = Pend
           /\ LogValue' = LogValue /\ ~Mounted
  <1> USE DEF Stored, Logged, Sound
  <1>1. CASE op.kind = "boot" /\ (EraseSector \/ MarkFormat)
    <2>1. op' = op /\ Erases /\ Erases'
      BY <1>1 DEF EraseSector, MarkFormat, MarkErased, Erases
    <2>2. NoneValid /\ NoneValid'
      BY <1>1, <2>1 DEF SpaceInv, ErasesFree
    <2> QED BY <1>1, <2>1, <2>2, PendIs DEF LogFacts, Pend, Mounted, Nothing
  <1>2. CASE FormatFirst \/ Mount
    <2>1. UNCHANGED <<status, seq, cell>> /\ op.kind = "none" /\ op'.kind \in {"boot", "none"}
      BY <1>2 DEF FormatFirst, Mount, BootOp, NoOp, flash, SpaceInv, InRequest
    <2> QED BY <1>2, <2>1, SameLog, PendIs DEF FormatFirst, Mount, Mounted, Pend
  <1>3. CASE RecoverEnd
    <2>1. /\ pc = "recover" /\ op.kind = "boot" /\ UNCHANGED <<cell, map>>
          /\ pc' \in {"clear", "idle"} /\ op'.kind \in {"wipe", "none"}
      BY <1>3 DEF RecoverEnd, SpaceInv, InRequest, NoOp
    <2>2. InUse /\ InUse'
      BY <2>1, UseFacts DEF RoomInv, NeverWipes, InUse, Clearing
    <2>3. LogValue' = LogValue
      BY <2>1, <2>2, LogKept
    <2> QED BY <2>1, <2>3, PendIs DEF Mounted, Pend
  <1> QED BY <1>1, <1>2, <1>3

\* Power is lost: what is in the log stays there.
LEMMA CrashShown ==
    ASSUME Durable, Stored, LogFacts, Stored', LogFacts', Crash
    PROVE  /\ LogValue' = LogValue /\ Pend' = [kind |-> "none"] /\ ~Mounted'
           /\ ~Mounted => Pend = [kind |-> "none"]
  <1>1. UNCHANGED <<status, seq, cell>> /\ pc' = "off" /\ op' = NoOp /\ pc # "off"
    BY DEF Crash, LoseRam, flash
  <1>2. op.kind # "clear"
    BY DEF Crash, Clearing, Durable, Undisturbed
  <1> QED BY <1>1, <1>2, SameLog, PendIs DEF Mounted, Pend, NoOp

LEMMA StoreSteps ==
    ASSUME Durable, Stored, LogFacts, Stored', LogFacts', [Next]_vars
    PROVE  [Store!Next]_(Store!vars)
  <1>1. ASSUME UNCHANGED <<LogValue, Pend, Mounted>> PROVE [Store!Next]_(Store!vars)
    BY <1>1 DEF Store!vars, Pend
  <1>2. CASE \/ WriteData \/ SetEnd \/ FindFreePage \/ StampNext \/ CopyLive \/ RecoverCopy
             \/ CollectPage \/ MarkCollected \/ MarkSwept \/ Sweep
             \/ (InUse /\ (EraseSector \/ MarkFormat))
             \/ (\E m \in GcPages, n \in GcCells : Collect(m, n))
    BY <1>1, <1>2, QuietShown DEF Hidden
  <1>3. CASE WriteKey
    <2>1. CASE Hidden
      BY <1>1, <2>1 DEF Hidden
    <2>2. CASE /\ Pend.kind = "save" /\ Pend' = [kind |-> "none"]
               /\ LogValue' = [LogValue EXCEPT ![Pend.addr] = Pend.val]
               /\ Mounted' = Mounted
      <3>1. Store!Commit
        BY <2>2 DEF Store!Commit, Store!Idle, Pend
      <3> QED BY <3>1 DEF Store!Next
    <2> QED BY <1>3, <2>1, <2>2, WriteKeyShown
  <1>4. CASE ClearAll \/ \E s \in Saves : Save(s[1], s[2])
    <2>1. /\ Mounted /\ Mounted' /\ Pend = [kind |-> "none"] /\ LogValue' = LogValue
          /\ \/ Pend' = [kind |-> "clear"]
             \/ \E a \in Addr, v \in Value : Pend' = [kind |-> "save", addr |-> a, val |-> v]
      BY <1>4, RequestShown
    <2>2. CASE Pend' = [kind |-> "clear"]
      <3>1. Store!Clear
        BY <2>1, <2>2 DEF Store!Clear, Store!Idle, Pend, Mounted
      <3> QED BY <3>1 DEF Store!Next
    <2>3. CASE \E a \in Addr, v \in Value : Pend' = [kind |-> "save", addr |-> a, val |-> v]
      <3>1. PICK a \in Addr, v \in Value : Pend' = [kind |-> "save", addr |-> a, val |-> v]
        BY <2>3
      <3>2. Store!Save(a, v)
        BY <2>1, <3>1 DEF Store!Save, Store!Idle, Pend, Mounted
      <3> QED BY <3>2 DEF Store!Next
    <2> QED BY <2>1, <2>2, <2>3
  <1>5. CASE Clearing /\ (ClearPage \/ ClearTable \/ EraseSector \/ MarkFormat)
    <2>1. /\ Pend = [kind |-> "clear"] /\ Pend' = Pend /\ Mounted' = Mounted
          /\ LogValue' \in [Addr -> Value \cup {None}]
      BY <1>5, ClearShown
    <2>2. Store!Scramble
      BY <2>1 DEF Store!Scramble, Pend
    <2> QED BY <2>2 DEF Store!Next
  <1>6. CASE StampFirst
    <2>1. /\ LogValue' = Nothing /\ Pend' = [kind |-> "none"] /\ Mounted'
          /\ \/ Mounted /\ Pend = [kind |-> "clear"]
             \/ ~Mounted /\ Pend = [kind |-> "none"] /\ LogValue = Nothing
      BY <1>6, StampFirstShown
    <2>2. CASE Mounted /\ Pend = [kind |-> "clear"]
      <3>1. Mounted' = Mounted
        BY <2>1, <2>2 DEF Mounted
      <3>2. Store!Cleared
        BY <2>1, <2>2, <3>1 DEF Store!Cleared, Store!Idle, Pend, Nothing
      <3> QED BY <3>2 DEF Store!Next
    <2>3. CASE ~Mounted /\ Pend = [kind |-> "none"] /\ LogValue = Nothing
      <3>1. Mounted' = TRUE
        BY <2>1 DEF Mounted
      <3>2. Store!PowerUp
        BY <2>1, <2>3, <3>1 DEF Store!PowerUp, Pend
      <3> QED BY <3>2 DEF Store!Next
    <2> QED BY <2>1, <2>2, <2>3
  <1>7. CASE \/ FormatFirst \/ Mount \/ RecoverEnd
             \/ (op.kind = "boot" /\ (EraseSector \/ MarkFormat))
    <2>1. Pend' = Pend /\ LogValue' = LogValue /\ ~Mounted
      BY <1>7, BootShown
    <2>2. CASE Mounted'
      <3>1. Mounted' = TRUE
        BY <2>2 DEF Mounted
      <3>2. Store!PowerUp
        BY <2>1, <3>1 DEF Store!PowerUp, Pend
      <3> QED BY <3>2 DEF Store!Next
    <2>3. CASE ~Mounted'
      <3>1. Mounted' = Mounted
        BY <2>1, <2>3 DEF Mounted
      <3> QED BY <1>1, <2>1, <3>1
    <2> QED BY <2>2, <2>3
  <1>8. CASE Crash
    <2>1. /\ LogValue' = LogValue /\ Pend' = [kind |-> "none"] /\ ~Mounted'
          /\ ~Mounted => Pend = [kind |-> "none"]
      BY <1>8, CrashShown
    <2>2. Mounted' = FALSE
      BY <2>1 DEF Mounted
    <2>3. CASE Mounted
      <3>1. Store!PowerLoss
        BY <2>1, <2>2, <2>3 DEF Store!PowerLoss, Store!Idle, Pend
      <3> QED BY <3>1 DEF Store!Next
    <2>4. CASE ~Mounted
      <3>1. Mounted' = Mounted
        BY <2>2, <2>4 DEF Mounted
      <3> QED BY <1>1, <2>1, <2>4, <3>1
    <2> QED BY <2>3, <2>4
  <1>9. CASE UNCHANGED vars
    BY <1>1, <1>9, SameLog DEF vars, flash, ram, call, Pend, Mounted
  <1>10. InUse \/ Clearing \/ op.kind = "boot" \/ ~(EraseSector \/ MarkFormat)
    BY DEF InUse, EraseSector, MarkFormat, MarkErased
  <1>11. ClearPage \/ ClearTable => Clearing
    BY DEF ClearPage, ClearTable, Clearing, Stored, Logged, Sound, Typed, CallOK
  <1>12. ~FormatFails /\ ~CollectFails /\ ~SweepFails /\ ~CutWrite
    BY DEF Durable, Undisturbed, Orderly, FormatFails, CollectFails, SweepFails, MarkFails, CutWrite
  <1> QED
    BY <1>2, <1>3, <1>4, <1>5, <1>6, <1>7, <1>8, <1>9, <1>10, <1>11, <1>12
       DEF Next, Step, Request, PowerLoss

LEMMA StoredAlways == Durable => (Spec => [](Stored /\ LogFacts))
  <1> SUFFICES ASSUME Durable PROVE Spec => [](Stored /\ LogFacts)
    OBVIOUS
  <1>1. Undisturbed
    BY DEF Durable
  <1>2. Init => ValueInv /\ WriteInv
    BY StoreInit
  <1>3. Logged /\ Logged' /\ ValueInv /\ WriteInv /\ [Next]_vars => ValueInv' /\ WriteInv'
    BY ValueNext, WriteNext DEF Logged, Sound
  <1>4. Stored <=> Logged /\ RoomInv /\ ValueInv /\ WriteInv
    BY DEF Stored
  <1> QED BY <1>1, <1>2, <1>3, <1>4, LoggedAlways, RoomAlways, StoredFacts, PTL DEF Spec

\* The FTL implements FtlStore, if no sector is programmed again to write one
\* word, power never goes inside a record or a clear, and erased sectors take
\* their mark.  Step by step: a save takes effect with the flash write of its
\* key word and not before; no step of a rollover, a collection, a sweep or a
\* boot changes a stored word; and a loss of power at any of them leaves all
\* words stored that were, for the next boot to find.
THEOREM StoreImplemented == Durable => (Spec => StoreSpec)
  <1> SUFFICES ASSUME Durable PROVE Spec => StoreSpec
    OBVIOUS
  <1>1. Init => Store!Init
    <2> SUFFICES ASSUME Init PROVE Store!Init
      OBVIOUS
    <2>1. NoneValid /\ op.kind = "none" /\ pc = "off"
      BY DEF Init, NoneValid, Valid, NoOp
    <2>2. LogValue = Nothing
      BY <2>1, EmptyLog
    <2> QED BY <2>1, <2>2 DEF Store!Init, Store!Idle, Nothing, Mounted
  <1>2. Stored /\ LogFacts /\ (Stored /\ LogFacts)' /\ [Next]_vars => [Store!Next]_(Store!vars)
    BY StoreSteps
  <1> QED BY <1>1, <1>2, StoredAlways, PTL DEF Spec, StoreSpec, Store!Spec

-----------------------------------------------------------------------------
(* A load beside the calls *)

\* A load is under way only outside a save.  It goes by the table as it is, and
\* no page is collected or cleared.
ReaderInv ==
    /\ op.kind \in {"none", "boot", "save", "sweep"}
    /\ rd # NoLoad =>
          /\ Mounted /\ op.kind # "save"
          /\ rd.addr \in Addr /\ rd.phy = map[rd.addr] /\ rd.at \in {"key", "data", "done"}
          /\ rd.at # "done" => rd.phy # 0 /\ rd.res = NoLoad.res
          /\ rd.at = "done" =>
                rd.res = IF rd.phy = 0 THEN NoLoad.res
                         ELSE [ret |-> "ok", val |-> Mapped[rd.addr]]

LEMMA ReaderInitial == ReaderInit => ReaderInv
  BY DEF ReaderInit, Init, NoOp, ReaderInv

\* Beside a load, only a sweep goes on.
LEMMA SweepGoesOn ==
    ASSUME Undisturbed, Requests \subseteq {"save", "sweep"}, Logged, Logged', RoomInv, RoomInv',
           ReaderInv, Step \/ Request, SaveWaits, UNCHANGED rd
    PROVE  ReaderInv'
  <1> USE DEF Logged, Sound
  <1>1. op'.kind \in {"none", "boot", "save", "sweep"}
    <2>1. ~ClearAll /\ ~(\E m \in GcPages, n \in GcCells : Collect(m, n))
      BY DEF ClearAll, Collect
    <2>2. op'.kind \in {op.kind, "none", "boot", "save", "sweep", "wipe"}
      BY <2>1 DEF Step, Request, WriteData, WriteKey, Return, SetEnd, FindFreePage, BeginFormat,
         EraseSector, MarkFormat, FormatFails, StampNext, StartGc, StampFirst, CopyLive, CopyNext,
         CollectPage, MarkCollected, EndGc, CollectFails, ClearPage, ClearTable, MarkSwept, SweepFails,
         SweepOn, FormatFirst, Mount, RecoverCopy, RecoverEnd, Save, Sweep, BootOp, NoOp, call
    <2> QED BY <2>2 DEF ReaderInv, RoomInv, NeverWipes
  <1>2. CASE rd # NoLoad
    <2>1. /\ Mounted /\ op.kind \in {"none", "sweep"} /\ rd.addr \in Addr
          /\ rd.phy = map[rd.addr]
      BY <1>2 DEF ReaderInv, Mounted
    <2>2. op'.kind # "save"
      BY <1>2, <2>1 DEF SaveWaits
    <2>3. EraseSector \/ MarkSwept \/ Sweep
      <3>1. pc \in {"idle", "erase", "mark"} /\ ~gcing /\ (pc # "idle" => era.by = "sweep")
            /\ (pc = "idle" <=> op.kind = "none")
        BY <2>1 DEF SpaceInv, InRequest, Typed, CallOK, TypeOK, CallType, Mounted
      <3>2. ~FormatFails /\ ~CollectFails /\ ~SweepFails
        BY DEF Undisturbed, Orderly, FormatFails, CollectFails, SweepFails, MarkFails
      <3>3. ~MarkFormat /\ ~MarkCollected
        BY <3>1 DEF MarkFormat, MarkCollected, MarkErased
      <3>4. ~ClearAll /\ ~(\E m \in GcPages, n \in GcCells : Collect(m, n))
        BY DEF ClearAll, Collect
      <3>5. ~\E s \in Saves : Save(s[1], s[2])
        BY <2>2 DEF Save
      <3>6. ~(\/ WriteData \/ WriteKey \/ SetEnd \/ FindFreePage \/ StampNext \/ StampFirst
              \/ CopyLive \/ CollectPage \/ ClearPage \/ ClearTable \/ FormatFirst \/ Mount
              \/ RecoverCopy \/ RecoverEnd)
        BY <3>1 DEF WriteData, WriteKey, SetEnd, FindFreePage, StampNext, StampFirst, StampPage,
           CopyLive, CollectPage, ClearPage, ClearTable, FormatFirst, Mount, RecoverCopy, RecoverEnd
      <3> QED BY <3>2, <3>3, <3>4, <3>5, <3>6 DEF Step, Request
    <2>4. map' = map /\ pc' # "off" /\ (EraseSector \/ UNCHANGED cell)
      BY <2>3 DEF EraseSector, MarkSwept, MarkErased, Sweep, SweepOn, ram, flash
    <2>5. Mounted'
      BY <1>1, <2>1, <2>2, <2>3, <2>4 DEF Mounted, EraseSector, MarkSwept, Sweep, SweepOn, NoOp
    <2>6. InUse
      BY <2>1 DEF Mounted, InUse, Clearing
    <2>7. rd.phy # 0 => Mapped'[rd.addr] = Mapped[rd.addr]
      <3>1. CASE rd.phy # 0
        <4>1. cell'[PageOf(map[rd.addr])][IndexOf(map[rd.addr])]
                = cell[PageOf(map[rd.addr])][IndexOf(map[rd.addr])]
          BY <2>1, <2>4, <2>6, <3>1, MapKept
        <4> QED BY <2>1, <2>4, <4>1 DEF Mapped, PageOf, IndexOf
      <3> QED BY <3>1
    <2> QED BY <1>1, <1>2, <2>1, <2>2, <2>4, <2>5, <2>7 DEF ReaderInv, NoLoad
  <1>3. CASE rd = NoLoad
    BY <1>1, <1>3 DEF ReaderInv, NoLoad
  <1> QED BY <1>2, <1>3

LEMMA LoadSteps ==
    ASSUME Logged, ReaderInv, (\E a \in Addr : Load(a)) \/ LoadKey \/ LoadData \/ LoadReturns
    PROVE  ReaderInv'
  <1> USE DEF Logged, Sound
  <1>1. UNCHANGED <<cell, map, op, pc>>
    BY DEF Load, LoadKey, LoadData, LoadReturns, vars, flash, ram, call
  <1>2. Mapped' = Mapped /\ Mounted' = Mounted
    BY <1>1 DEF Mapped, PageOf, IndexOf, Mounted
  <1>3. CASE \E a \in Addr : Load(a)
    <2>1. PICK a \in Addr : Load(a)
      BY <1>3
    <2>2. /\ rd'.addr = a /\ rd'.phy = map[a] /\ rd'.res = NoLoad.res
          /\ rd'.at = IF map[a] = 0 THEN "done" ELSE "key"
      BY <2>1 DEF Load, NoLoad
    <2> QED BY <1>1, <1>2, <2>1, <2>2 DEF ReaderInv, Load, NoLoad
  <1>4. CASE LoadKey
    <2>1. rd # NoLoad /\ rd.at = "key"
      BY <1>4 DEF LoadKey, NoLoad
    <2>2. rd.addr \in Addr /\ map[rd.addr] # 0 /\ rd.phy = map[rd.addr] /\ Mounted
      BY <2>1 DEF ReaderInv
    <2>3. cell[PageOf(rd.phy)][IndexOf(rd.phy) + 1] = KeyOf(rd.addr)
      BY <2>2 DEF LogInv, MapPoints, RecordAt, Mounted, InUse, Clearing, ReaderInv
    <2>4. rd' = [rd EXCEPT !.at = "data"]
      BY <1>4, <2>3 DEF LoadKey
    <2>5. rd'.at = "data" /\ rd'.addr = rd.addr /\ rd'.phy = rd.phy /\ rd'.res = rd.res
      BY <2>1, <2>4, <2>2 DEF LoadKey, ReaderInv
    <2> QED BY <1>1, <1>2, <2>1, <2>5 DEF ReaderInv, NoLoad
  <1>5. CASE LoadData
    <2>1. rd # NoLoad /\ rd.at = "data"
      BY <1>5 DEF LoadData, NoLoad
    <2>2. rd.addr \in Addr /\ map[rd.addr] # 0 /\ rd.phy = map[rd.addr]
      BY <2>1 DEF ReaderInv
    <2>3. /\ rd'.at = "done" /\ rd'.addr = rd.addr /\ rd'.phy = rd.phy
          /\ rd'.res = [ret |-> "ok", val |-> Mapped[rd.addr]]
      BY <1>5, <2>2 DEF LoadData, Mapped
    <2> QED BY <1>1, <1>2, <2>1, <2>2, <2>3 DEF ReaderInv, NoLoad
  <1>6. CASE LoadReturns
    BY <1>1, <1>6 DEF LoadReturns, ReaderInv
  <1> QED BY <1>3, <1>4, <1>5, <1>6

LEMMA ReaderSteps ==
    ASSUME Undisturbed, Requests \subseteq {"save", "sweep"}, Logged, Logged', RoomInv, RoomInv',
           ReaderInv, [ReaderNext]_allVars
    PROVE  ReaderInv'
  <1>1. CASE PowerLoss /\ rd' = NoLoad
    <2>1. op' = NoOp
      BY <1>1 DEF PowerLoss, Crash, CutWrite, LoseRam
    <2> QED BY <1>1, <2>1 DEF ReaderInv, NoOp, NoLoad
  <1>2. CASE UNCHANGED allVars
    BY <1>2 DEF allVars, vars, flash, ram, call, ReaderInv, Mapped, PageOf, IndexOf, Mounted, NoLoad
  <1> QED BY <1>1, <1>2, SweepGoesOn, LoadSteps DEF ReaderNext

\* A load that runs beside saves and sweeps, with power lost at any of their
\* steps, returns the word that a boot would find: between its look-up in the
\* table, its check of the key and its read of the data, nothing moves or erases
\* the record.  (With a collection beside it, it does not: LoadIsNeverWrong.)
THEOREM LoadAlwaysCurrent ==
    Undisturbed /\ Requests \subseteq {"save", "sweep"} => (ReaderSpec => []LoadIsCurrent)
  <1> SUFFICES ASSUME Undisturbed, Requests \subseteq {"save", "sweep"}
               PROVE  ReaderSpec => []LoadIsCurrent
    OBVIOUS
  <1>1. ReaderInit => Init
    BY DEF ReaderInit
  <1>2. [ReaderNext]_allVars => [Next]_vars
    BY DEF ReaderNext, allVars, Next, Load, LoadKey, LoadData, LoadReturns
  <1>3. ReaderSpec => Spec
    BY <1>1, <1>2, PTL DEF ReaderSpec, Spec
  <1>4. ReaderInit => ReaderInv
    BY ReaderInitial
  <1>5. Logged /\ Logged' /\ RoomInv /\ RoomInv' /\ ReaderInv /\ [ReaderNext]_allVars => ReaderInv'
    BY ReaderSteps
  <1>6. Logged /\ ReaderInv => LoadIsCurrent
    <2> SUFFICES ASSUME Logged, ReaderInv, rd.at = "done"
                 PROVE  rd.res = IF LogValue[rd.addr] = None
                                 THEN [ret |-> "none", val |-> Blank]
                                 ELSE [ret |-> "ok", val |-> LogValue[rd.addr]]
      BY DEF LoadIsCurrent
    <2>1. /\ Mounted /\ rd.addr \in Addr /\ rd.phy = map[rd.addr] /\ op.kind # "clear"
          /\ rd.res = IF rd.phy = 0 THEN NoLoad.res ELSE [ret |-> "ok", val |-> Mapped[rd.addr]]
      BY DEF ReaderInv, NoLoad
    <2>2. InUse
      BY <2>1 DEF Mounted, InUse, Clearing
    <2>3. LogValue[rd.addr] = Mapped[rd.addr]
      BY <2>2, TableIsLog
    <2>4. ASSUME map[rd.addr] # 0 PROVE Mapped[rd.addr] # None
      <3>1. Sound
        BY DEF Logged
      <3> QED BY <2>1, <2>2, <2>4, <3>1, MappedIsWord
    <2> QED BY <2>1, <2>3, <2>4 DEF Mapped, NoLoad
  <1> QED BY <1>3, <1>4, <1>5, <1>6, LoggedAlways, RoomAlways, PTL DEF ReaderSpec
=============================================================================
