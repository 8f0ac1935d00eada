------------------------- MODULE StripedIO_proofs -------------------------
(***************************************************************************)
(* Proofs about StripedIO, for any clients, calls, layout, stripe size and *)
(* failing server.  The arithmetic of heads, tails and stripes comes       *)
(* first: the requests of a call cover its bytes and no others             *)
(* (Covers), and two bytes never share a place (StripesApart, HomesApart). *)
(* Then each copy of a byte always holds a write that no returned one has  *)
(* replaced (Kept), and what a reader has received is what it may see      *)
(* (Sees).  Last comes the size: the sum of the answers (Sums), the bytes  *)
(* of an extent and their places in it (Counted), and that a copy ends     *)
(* neither before nor behind the last byte written to it (SizeInv).        *)
(***************************************************************************)
EXTENDS StripedIO, TLAPS, WellFoundedInduction, SequenceTheorems, FiniteSetTheorems

-----------------------------------------------------------------------------
(* Stripes *)

LEMMA Sizes ==
    /\ StripeSize \in Nat \ {0} /\ StripeCnt \in Nat \ {0} /\ MaxSize \in Nat \ {0}
    /\ Len(Layout) = 2 * StripeCnt /\ Layout \in Seq([srv : DataServers, hdl : Nat])
<1>1. Layout \in Seq([srv : DataServers, hdl : Nat]) /\ Len(Layout) = 2 * StripeCnt
      /\ StripeCnt > 0 /\ MaxSize \in Nat \ {0}
  BY IOAssumption
<1>2. Len(Layout) \in Nat
  BY <1>1
<1>3. StripeCnt \in Int
  BY <1>2 DEF StripeCnt
<1> QED BY <1>1, <1>3, DataAssumption

LEMMA Remainder ==
    ASSUME NEW a \in Nat, NEW b \in Nat \ {0}
    PROVE  a % b \in 0..b - 1 /\ a \div b \in Nat /\ a = b * (a \div b) + (a % b)
  OBVIOUS

LEMMA Product == ASSUME NEW a \in Nat, NEW b \in Nat PROVE a * b \in Nat /\ a * b = b * a
  OBVIOUS

LEMMA Times == ASSUME NEW b \in Nat, NEW x \in Int, NEW y \in Int, x <= y
               PROVE  b * x <= b * y /\ b * x \in Int /\ b * y \in Int
  OBVIOUS

LEMMA TimesNext == ASSUME NEW b \in Nat, NEW x \in Int, NEW y \in Int, x < y
                   PROVE  b * x + b <= b * y /\ b * x \in Int /\ b * y \in Int
<1>1. x + 1 <= y /\ x + 1 \in Int
  OBVIOUS
<1>2. b * (x + 1) <= b * y /\ b * x \in Int /\ b * y \in Int
  BY <1>1, Times
<1>3. b * (x + 1) = b * x + b
  OBVIOUS
<1> QED BY <1>2, <1>3

\* Two ways to divide are one.
LEMMA OneDivision ==
    ASSUME NEW b \in Nat \ {0}, NEW x \in Int, NEW y \in Int, NEW r \in 0..b - 1, NEW s \in 0..b - 1,
           b * x + r = b * y + s
    PROVE  x = y /\ r = s
<1>1. ~(x < y)
  <2> SUFFICES ASSUME x < y PROVE FALSE
    OBVIOUS
  <2>1. b * x + b <= b * y /\ b * x \in Int /\ b * y \in Int
    BY TimesNext
  <2> QED BY <2>1
<1>2. ~(y < x)
  <2> SUFFICES ASSUME y < x PROVE FALSE
    OBVIOUS
  <2>1. b * y + b <= b * x /\ b * x \in Int /\ b * y \in Int
    BY TimesNext
  <2> QED BY <2>1
<1>3. x = y
  BY <1>1, <1>2
<1>4. b * x \in Int
  OBVIOUS
<1> QED BY <1>3, <1>4

LEMMA DivisionOrder ==
    ASSUME NEW a \in Nat, NEW e \in Nat, NEW b \in Nat \ {0}, a <= e
    PROVE  a \div b <= e \div b
<1> DEFINE x == a \div b
           y == e \div b
<1>1. x \in Nat /\ a % b \in 0..b - 1 /\ a = b * x + (a % b)
  BY Remainder
<1>2. y \in Nat /\ e % b \in 0..b - 1 /\ e = b * y + (e % b)
  BY Remainder
<1> HIDE DEF x, y
<1>3. ~(y < x)
  <2> SUFFICES ASSUME y < x PROVE FALSE
    OBVIOUS
  <2>1. b * y + b <= b * x /\ b * x \in Int /\ b * y \in Int
    BY <1>1, <1>2, TimesNext
  <2> QED BY <1>1, <1>2, <2>1
<1>4. x <= y
  BY <1>1, <1>2, <1>3
<1> QED BY <1>4 DEF x, y

-----------------------------------------------------------------------------
(* The parts of a call *)

Accesses(e) == e.offset \in Nat /\ e.size \in Nat \ {0} /\ e.offset + e.size <= MaxSize

\* The call begins in its first stripe, behind the head, and ends in its last,
\* which is full or has a tail.
LEMMA Ends ==
    ASSUME NEW e, Accesses(e)
    PROVE  LET last == First(e) + Stripes(e) - 1
               head == e.offset % StripeSize
           IN /\ First(e) \in Nat /\ Stripes(e) \in Nat \ {0} /\ last \in Nat
              /\ head \in 0..StripeSize - 1 /\ TailSize(e) \in 1..StripeSize
              /\ e.offset = StripeSize * First(e) + head
              /\ e.offset + e.size = StripeSize * last + TailSize(e)
<1> DEFINE S == StripeSize
           o == e.offset
           z == e.size
           f == o \div S
           g == (o + z - 1) \div S
           u == (o + z - 1) % S
<1>1. S \in Nat \ {0} /\ o \in Nat /\ z \in Nat \ {0} /\ o + z - 1 \in Nat /\ o <= o + z - 1
  BY Sizes DEF Accesses
<1> HIDE DEF S, o, z
<1>2. f \in Nat /\ o % S \in 0..S - 1 /\ o = S * f + (o % S)
  BY <1>1, Remainder
<1>3. g \in Nat /\ u \in 0..S - 1 /\ o + z - 1 = S * g + u
  BY <1>1, Remainder
<1>4. f <= g
  BY <1>1, DivisionOrder
<1>5. First(e) = f /\ Stripes(e) = g - f + 1
  BY DEF First, Stripes, S, o, z
<1> HIDE DEF f, g, u
<1>6. First(e) + Stripes(e) - 1 = g
  BY <1>2, <1>3, <1>5
<1>7. TailSize(e) = u + 1
  <2>1. TailSize(e) = IF (o + z) % S = 0 THEN S ELSE (o + z) % S
    BY DEF TailSize, S, o, z
  <2> DEFINE q == (o + z) \div S
             t == (o + z) % S
  <2>2. q \in Nat /\ t \in 0..S - 1 /\ o + z = S * q + t
    <3>1. o + z \in Nat
      BY <1>1
    <3> QED BY <1>1, <3>1, Remainder
  <2> HIDE DEF q, t
  <2>3. S * g \in Int /\ S * q \in Int
    BY <1>1, <1>3, <2>2
  <2>4. CASE u + 1 < S
    <3>1. S * q + t = S * g + (u + 1) /\ u + 1 \in 0..S - 1
      BY <1>1, <1>3, <2>2, <2>3, <2>4
    <3>2. t = u + 1
      <4>1. ASSUME NEW s \in 0..S - 1, s = u + 1 PROVE t = s
        <5>1. S \in Nat \ {0} /\ q \in Int /\ g \in Int /\ t \in 0..S - 1 /\ S * q + t = S * g + s
          BY <1>1, <1>3, <2>2, <3>1, <4>1
        <5> QED BY <5>1, OneDivision
      <4> QED BY <3>1, <4>1
    <3> QED BY <1>3, <2>1, <3>2 DEF t
  <2>5. CASE u + 1 = S
    <3>1. S * (g + 1) = S * g + S
      BY <1>1, <1>3
    <3>2. S * q + t = S * (g + 1) + 0 /\ 0 \in 0..S - 1 /\ g + 1 \in Int
      BY <1>1, <1>3, <2>2, <2>3, <2>5, <3>1
    <3>3. t = 0
      <4>1. ASSUME NEW s \in 0..S - 1, NEW y \in Int, s = 0, y = g + 1 PROVE t = s
        <5>1. S \in Nat \ {0} /\ q \in Int /\ t \in 0..S - 1 /\ S * q + t = S * y + s
          BY <1>1, <2>2, <3>2, <4>1
        <5> QED BY <5>1, OneDivision
      <4> QED BY <3>2, <4>1
    <3> QED BY <2>1, <2>5, <3>3 DEF t
  <2> QED BY <1>1, <1>3, <2>4, <2>5
<1>8. S * g \in Int
  BY <1>1, <1>3
<1>9. o + z = S * g + (u + 1)
  BY <1>1, <1>3, <1>8
<1>10. /\ f \in Nat /\ g - f + 1 \in Nat \ {0} /\ g \in Nat
       /\ o % S \in 0..S - 1 /\ u + 1 \in 1..S /\ o = S * f + (o % S)
  BY <1>1, <1>2, <1>3, <1>4
<1>11. o = e.offset /\ z = e.size /\ S = StripeSize
  BY DEF o, z, S
<1> QED BY <1>5, <1>6, <1>7, <1>9, <1>10, <1>11

\* Heads, tails and whole stripes: the requests of a call cover its bytes, and
\* no others.
LEMMA Covers ==
    ASSUME NEW e, Accesses(e), NEW i \in 0..Stripes(e) - 1
    PROVE  /\ From(e, i) \in Nat /\ Count(e, i) \in Nat \ {0} /\ From(e, i) + Count(e, i) <= StripeSize
           /\ \A r \in 0..StripeSize - 1 :
                 LET p == StripeSize * (First(e) + i) + r
                 IN (e.offset <= p /\ p < e.offset + e.size)
                        <=> (From(e, i) <= r /\ r < From(e, i) + Count(e, i))
<1> DEFINE S == StripeSize
           o == e.offset
           z == e.size
           f == First(e)
           n == Stripes(e)
           t == TailSize(e)
           h == o % S
           last == f + n - 1
<1>1. S \in Nat \ {0} /\ o \in Nat /\ z \in Nat \ {0}
  BY Sizes DEF Accesses
<1>2. f \in Nat /\ n \in Nat \ {0} /\ last \in Nat /\ h \in 0..S - 1 /\ t \in 1..S
      /\ o = S * f + h /\ o + z = S * last + t
  BY Ends
<1>3. From(e, i) = IF i = 0 THEN h ELSE 0
  BY DEF From
<1>4. Count(e, i) = IF i = 0 THEN IF S - h < z THEN S - h ELSE z
                    ELSE IF i = n - 1 THEN t ELSE S
  BY <1>3 DEF Count
<1>5. i \in 0..n - 1
  OBVIOUS
<1> HIDE DEF S, o, z, f, n, t, h
<1>6. S * f \in Int /\ S * last \in Int /\ S * (f + i) \in Int
  BY <1>1, <1>2, <1>5
<1>7. /\ From(e, i) \in Nat /\ Count(e, i) \in Nat \ {0} /\ From(e, i) + Count(e, i) <= S
  BY <1>1, <1>2, <1>3, <1>4, <1>5
<1>8. ASSUME NEW r \in 0..S - 1
      PROVE  (o <= S * (f + i) + r /\ S * (f + i) + r < o + z)
                 <=> (From(e, i) <= r /\ r < From(e, i) + Count(e, i))
  <2>1. CASE i = 0
    <3>1. f + i = f
      BY <1>2, <2>1
    <3>2. From(e, i) = h /\ Count(e, i) = IF S - h < z THEN S - h ELSE z
      BY <1>3, <1>4, <2>1
    <3>3. S * (f + i) = S * f
      BY <3>1
    <3> DEFINE a == S * f
    <3>4. a \in Int /\ o = a + h
      BY <1>2, <1>6
    <3> HIDE DEF a
    <3>5. (o <= a + r /\ a + r < o + z) <=> (h <= r /\ r < h + IF S - h < z THEN S - h ELSE z)
      BY <1>1, <1>2, <3>4
    <3> QED BY <3>2, <3>3, <3>5 DEF a
  <2>2. CASE i # 0
    <3>1. f < f + i /\ f + i \in Int /\ f + i <= last
      BY <1>2, <1>5, <2>2
    <3>2. S * f + S <= S * (f + i)
      BY <1>1, <1>2, <3>1, TimesNext
    <3> DEFINE a == S * (f + i)
               b == S * f
               k == S * last
    <3>3. a \in Int /\ b \in Int /\ k \in Int /\ o = b + h /\ o + z = k + t /\ b + S <= a
      BY <1>2, <1>6, <3>2
    <3>4. From(e, i) = 0
      BY <1>3, <2>2
    <3>5. CASE i = n - 1
      <4>1. f + i = last
        BY <1>2, <3>5
      <4>2. a = k /\ Count(e, i) = t
        BY <1>4, <2>2, <3>5, <4>1
      <4> HIDE DEF a, b, k
      <4> QED BY <1>1, <1>2, <3>3, <3>4, <4>2 DEF a
    <3>6. CASE i # n - 1
      <4>1. f + i < last
        BY <1>2, <1>5, <3>6
      <4>2. a + S <= k
        BY <1>1, <1>2, <3>1, <4>1, TimesNext
      <4>3. Count(e, i) = S
        BY <1>4, <2>2, <3>6
      <4> HIDE DEF a, b, k
      <4> QED BY <1>1, <1>2, <3>3, <3>4, <4>2, <4>3 DEF a
    <3> QED BY <3>5, <3>6
  <2> QED BY <2>1, <2>2
<1> QED BY <1>7, <1>8 DEF S, o, z, f

-----------------------------------------------------------------------------
(* Places *)

ByteAt(data, n) == IF n < Len(data) THEN data[n + 1] ELSE 0
Home(n, k) == Layout[1 + Extent(n) + k * StripeCnt]

LEMMA Stripe ==
    ASSUME NEW n \in Nat
    PROVE  /\ Extent(n) \in 0..StripeCnt - 1 /\ StripeOf(n) \in Nat
           /\ n = StripeCnt * StripeOf(n) + Extent(n)
  BY Sizes, Remainder DEF Extent, StripeOf

LEMMA Byte ==
    ASSUME NEW p \in Nat
    PROVE  /\ p \div StripeSize \in Nat /\ p % StripeSize \in 0..StripeSize - 1
           /\ p = StripeSize * (p \div StripeSize) + (p % StripeSize)
  BY Sizes, Remainder

\* hfsRaid5GetBlockMapping: the stripes of one extent are apart.
LEMMA StripesApart ==
    ASSUME NEW n \in Nat, NEW m \in Nat, Extent(n) = Extent(m), n # m
    PROVE  StripeOf(n) < StripeOf(m) \/ StripeOf(m) < StripeOf(n)
<1>1. /\ StripeOf(n) \in Nat /\ n = StripeCnt * StripeOf(n) + Extent(n)
      /\ StripeOf(m) \in Nat /\ m = StripeCnt * StripeOf(m) + Extent(m)
  BY Stripe
<1>2. StripeOf(n) # StripeOf(m)
  BY <1>1
<1> QED BY <1>1, <1>2

LEMMA Homes ==
    ASSUME NEW n \in Nat, NEW k \in {0, 1}
    PROVE  Home(n, k) \in [srv : DataServers, hdl : Nat]
           /\ 1 + Extent(n) + k * StripeCnt \in 1..Len(Layout)
<1>1. /\ StripeCnt \in Nat \ {0} /\ Len(Layout) = 2 * StripeCnt /\ Extent(n) \in 0..StripeCnt - 1
      /\ Layout \in Seq([srv : DataServers, hdl : Nat])
  BY Sizes, Stripe
<1>2. k * StripeCnt = IF k = 0 THEN 0 ELSE StripeCnt
  BY <1>1
<1>3. 1 + Extent(n) + k * StripeCnt \in 1..Len(Layout)
  BY <1>1, <1>2
<1>4. ASSUME NEW T, Layout \in Seq(T), NEW i \in 1..Len(Layout) PROVE Layout[i] \in T
  BY <1>4
<1>5. ASSUME NEW i, i = 1 + Extent(n) + k * StripeCnt PROVE Layout[i] \in [srv : DataServers, hdl : Nat]
  <2>1. i \in 1..Len(Layout)
    BY <1>3, <1>5
  <2> QED BY <1>1, <1>4, <2>1
<1> QED BY <1>3, <1>5 DEF Home

LEMMA HomesApart ==
    ASSUME NEW n \in Nat, NEW k \in {0, 1}, NEW m \in Nat, NEW l \in {0, 1}, Home(n, k) = Home(m, l)
    PROVE  Extent(n) = Extent(m) /\ k = l
<1> DEFINE x == 1 + Extent(n) + k * StripeCnt
           y == 1 + Extent(m) + l * StripeCnt
<1>1. x \in 1..Len(Layout) /\ y \in 1..Len(Layout)
  BY Homes
<1>2. Layout[x] = Layout[y]
  BY DEF Home
<1> HIDE DEF x, y
<1>3. x = y
  BY <1>1, <1>2, IOAssumption
<1>4. StripeCnt \in Nat \ {0} /\ Extent(n) \in 0..StripeCnt - 1 /\ Extent(m) \in 0..StripeCnt - 1
  BY Sizes, Stripe
<1>5. k * StripeCnt = (IF k = 0 THEN 0 ELSE StripeCnt) /\ l * StripeCnt = IF l = 0 THEN 0 ELSE StripeCnt
  BY <1>4
<1>6. 1 + Extent(n) + (IF k = 0 THEN 0 ELSE StripeCnt)
        = 1 + Extent(m) + IF l = 0 THEN 0 ELSE StripeCnt
  BY <1>3, <1>5 DEF x, y
<1> QED BY <1>4, <1>6

\* hfs_create_alloc_data_handle: the copies of a stripe have different servers.
LEMMA CopiesApart == ASSUME NEW n \in Nat PROVE Home(n, 0).srv # Home(n, 1).srv
<1>1. StripeCnt \in Nat \ {0} /\ Extent(n) \in 0..StripeCnt - 1
  BY Sizes, Stripe
<1> DEFINE x == 1 + Extent(n)
<1>2. x \in 1..StripeCnt /\ 1 + Extent(n) + 0 * StripeCnt = x
      /\ 1 + Extent(n) + 1 * StripeCnt = x + StripeCnt
  BY <1>1
<1>3. Layout[x].srv # Layout[x + StripeCnt].srv
  BY <1>2, IOAssumption
<1> QED BY <1>2, <1>3 DEF Home

\* srvWriteStripe: what lies outside of what is written reads as before.
Longer(old, bytes, pos) == IF pos + Len(bytes) > Len(old) THEN pos + Len(bytes) ELSE Len(old)
Overlay(old, bytes, pos) ==
    [i \in 1..Longer(old, bytes, pos) |->
        IF i > pos /\ i <= pos + Len(bytes) THEN bytes[i - pos]
        ELSE IF i <= Len(old) THEN old[i] ELSE 0]

Replaces(new, old, bytes, pos) ==
    \A q \in Nat : ByteAt(new, q) = IF pos <= q /\ q < pos + Len(bytes)
                                    THEN bytes[q - pos + 1] ELSE ByteAt(old, q)

LEMMA Overwritten ==
    ASSUME NEW old \in Seq(Nat), NEW bytes \in Seq(Nat), NEW pos \in Nat,
           NEW size, size = Longer(old, bytes, pos), NEW new, new = Overlay(old, bytes, pos)
    PROVE  new \in Seq(Nat) /\ Len(new) = size /\ Replaces(new, old, bytes, pos)
<1> DEFINE n == Len(bytes)
           m == Len(old)
<1>1. n \in Nat /\ m \in Nat /\ (\A i \in 1..n : bytes[i] \in Nat) /\ (\A i \in 1..m : old[i] \in Nat)
  OBVIOUS
<1>2. size = IF pos + n > m THEN pos + n ELSE m
  BY DEF Longer
<1>3. new = [i \in 1..size |-> IF i > pos /\ i <= pos + n THEN bytes[i - pos]
                                ELSE IF i <= m THEN old[i] ELSE 0]
  BY DEF Overlay
<1> HIDE DEF n, m
<1>4. size \in Nat /\ size >= m /\ size >= pos + n
  BY <1>1, <1>2
<1>5. ASSUME NEW i \in 1..size PROVE new[i] \in Nat
  <2>1. CASE i > pos /\ i <= pos + n
    <3>1. i - pos \in 1..n
      BY <1>1, <1>4, <2>1
    <3> QED BY <1>1, <1>3, <2>1, <3>1
  <2>2. CASE ~(i > pos /\ i <= pos + n)
    <3>1. new[i] = IF i <= m THEN old[i] ELSE 0
      BY <1>3, <2>2
    <3>2. i <= m => i \in 1..m
      BY <1>1, <1>4
    <3> QED BY <1>1, <3>1, <3>2
  <2> QED BY <2>1, <2>2
<1>6. new \in [1..size -> Nat]
  BY <1>3, <1>5
<1>7. new \in Seq(Nat) /\ Len(new) = size
  <2>1. ASSUME NEW z \in Nat, NEW x \in [1..z -> Nat] PROVE x \in Seq(Nat) /\ Len(x) = z
    OBVIOUS
  <2> QED BY <1>4, <1>6, <2>1
<1>8. ASSUME NEW q \in Nat
      PROVE  ByteAt(new, q) = IF pos <= q /\ q < pos + n THEN bytes[q - pos + 1] ELSE ByteAt(old, q)
  <2>1. ByteAt(new, q) = IF q < size THEN new[q + 1] ELSE 0
    BY <1>7 DEF ByteAt
  <2>2. ByteAt(old, q) = IF q < m THEN old[q + 1] ELSE 0
    BY DEF ByteAt, m
  <2>3. q < size => new[q + 1] = IF q + 1 > pos /\ q + 1 <= pos + n THEN bytes[(q + 1) - pos]
                                 ELSE IF q + 1 <= m THEN old[q + 1] ELSE 0
    BY <1>3, <1>4
  <2>4. (q + 1) - pos = q - pos + 1
    OBVIOUS
  <2>5. CASE pos <= q /\ q < pos + n
    <3>1. q < size /\ q + 1 > pos /\ q + 1 <= pos + n
      BY <1>1, <1>4, <2>5
    <3> QED BY <2>1, <2>3, <2>4, <2>5, <3>1
  <2>6. CASE ~(pos <= q /\ q < pos + n) /\ q < m
    <3>1. q < size /\ ~(q + 1 > pos /\ q + 1 <= pos + n) /\ q + 1 <= m
      BY <1>1, <1>4, <2>6
    <3> QED BY <2>1, <2>2, <2>3, <2>6, <3>1
  <2>7. CASE ~(pos <= q /\ q < pos + n) /\ ~(q < m)
    <3>1. ~(q + 1 > pos /\ q + 1 <= pos + n) /\ ~(q + 1 <= m)
      BY <1>1, <1>4, <2>7
    <3>2. ByteAt(new, q) = 0
      BY <2>1, <2>3, <3>1
    <3> QED BY <2>2, <2>7, <3>2
  <2> QED BY <2>5, <2>6, <2>7
<1> QED BY <1>7, <1>8 DEF n, Replaces

Files ==
    /\ DOMAIN file = DataServers
    /\ \A i \in 1..Len(Layout) : Layout[i].hdl \in DOMAIN file[Layout[i].srv]
    /\ \A d \in DataServers : \A h \in DOMAIN file[d] :
          file[d][h] \in Seq(Nat) /\ Len(file[d][h]) <= Share

LEMMA FileWritten ==
    ASSUME Files, NEW d \in DataServers, NEW h \in DOMAIN file[d], NEW stripe \in Nat,
           NEW offset \in Nat, NEW bytes \in Seq(Nat), WriteStripe(d, h, stripe, offset, bytes),
           NEW pos, pos = stripe * StripeSize + offset
    PROVE  /\ DOMAIN file' = DataServers /\ pos \in Nat
           /\ \A e \in DataServers : DOMAIN file'[e] = DOMAIN file[e]
           /\ \A e \in DataServers : \A g \in DOMAIN file[e] :
                 e # d \/ g # h => file'[e][g] = file[e][g]
           /\ file'[d][h] \in Seq(Nat)
           /\ Len(file'[d][h]) = IF pos + Len(bytes) > Len(file[d][h]) THEN pos + Len(bytes)
                                 ELSE Len(file[d][h])
           /\ Replaces(file'[d][h], file[d][h], bytes, pos)
<1> DEFINE old == file[d][h]
           size == IF pos + Len(bytes) > Len(old) THEN pos + Len(bytes) ELSE Len(old)
           new == [i \in 1..size |-> IF i > pos /\ i <= pos + Len(bytes) THEN bytes[i - pos]
                                     ELSE IF i <= Len(old) THEN old[i] ELSE 0]
<1>1. file' = [file EXCEPT ![d][h] = new]
  BY DEF WriteStripe
<1>2. old \in Seq(Nat)
  BY DEF Files
<1>3. pos \in Nat
  <2>1. stripe * StripeSize \in Nat
    BY Sizes, Product
  <2> QED BY <2>1
<1>4. /\ new \in Seq(Nat) /\ Len(new) = size
      /\ Replaces(new, old, bytes, pos)
  <2> HIDE DEF old
  <2>1. size = Longer(old, bytes, pos) /\ new = Overlay(old, bytes, pos)
    BY DEF Longer, Overlay
  <2> HIDE DEF size, new
  <2>2. new \in Seq(Nat) /\ Len(new) = size /\ Replaces(new, old, bytes, pos)
    BY <1>2, <1>3, <2>1, Overwritten
  <2> QED BY <2>2
<1> HIDE DEF new
<1>5. DOMAIN file = DataServers
  BY DEF Files
<1>6. /\ DOMAIN file' = DataServers /\ file'[d][h] = new
      /\ \A e \in DataServers : DOMAIN file'[e] = DOMAIN file[e]
      /\ \A e \in DataServers : \A g \in DOMAIN file[e] : e # d \/ g # h => file'[e][g] = file[e][g]
  BY <1>1, <1>5
<1> QED BY <1>3, <1>4, <1>6

\* A request's bytes, and no others, are written, to one copy.
WriteCopy(n, k, offset, bytes) ==
    WriteStripe(Home(n, k).srv, Home(n, k).hdl, StripeOf(n), offset, bytes)
WithWritten(p, l, n, k, offset, bytes) ==
    IF l = k /\ p \div StripeSize = n
         /\ offset <= p % StripeSize /\ p % StripeSize < offset + Len(bytes)
    THEN bytes[(p % StripeSize) - offset + 1] ELSE Stored(p, l)

LEMMA CopyWritten ==
    ASSUME Files, NEW n \in Nat, NEW k \in {0, 1}, NEW offset \in Nat, NEW bytes \in Seq(Nat),
           offset + Len(bytes) <= StripeSize, WriteCopy(n, k, offset, bytes),
           NEW p \in Nat, NEW l \in {0, 1}
    PROVE  Stored(p, l)' = WithWritten(p, l, n, k, offset, bytes)
<1> DEFINE S == StripeSize
           m == p \div S
           r == p % S
           d == Home(n, k).srv
           h == Home(n, k).hdl
           e == Home(m, l).srv
           g == Home(m, l).hdl
           pos == StripeOf(n) * S + offset
           q == StripeOf(m) * S + r
           j == Len(bytes)
<1>1. S \in Nat \ {0} /\ j \in Nat /\ offset + j <= S /\ m \in Nat /\ r \in 0..S - 1
  <2>1. j \in Nat
    OBVIOUS
  <2>2. m \in Nat /\ r \in 0..S - 1
    BY Byte
  <2> HIDE DEF j, m, r
  <2> QED BY <2>1, <2>2, Sizes DEF j
<1>2. StripeOf(n) \in Nat /\ StripeOf(m) \in Nat
  BY <1>1, Stripe
<1>3. /\ Home(n, k) \in [srv : DataServers, hdl : Nat] /\ 1 + Extent(n) + k * StripeCnt \in 1..Len(Layout)
      /\ Home(m, l) \in [srv : DataServers, hdl : Nat] /\ 1 + Extent(m) + l * StripeCnt \in 1..Len(Layout)
  BY <1>1, Homes
<1>4. d \in DataServers /\ h \in DOMAIN file[d] /\ e \in DataServers /\ g \in DOMAIN file[e]
  BY <1>3 DEF Files, Home
<1>5. (d = e /\ h = g) => Home(n, k) = Home(m, l)
  BY <1>3
<1>6. Stored(p, l) = ByteAt(file[e][g], q)
  BY DEF Stored, ByteAt, Home
<1>7. Stored(p, l)' = ByteAt(file'[e][g], q)
  BY DEF Stored, ByteAt, Home
<1> HIDE DEF S, m, r, d, h, e, g, j
<1>8. StripeOf(n) * S \in Nat /\ StripeOf(m) * S \in Nat /\ q \in Nat /\ pos \in Nat
  <2>1. StripeOf(n) * S \in Nat /\ StripeOf(m) * S \in Nat
    BY <1>1, <1>2, Product
  <2> QED BY <1>1, <2>1
<1>9. WriteStripe(d, h, StripeOf(n), offset, bytes)
  BY DEF WriteCopy, d, h
<1>10. /\ \A y \in DataServers : \A x \in DOMAIN file[y] : y # d \/ x # h => file'[y][x] = file[y][x]
       /\ \A x \in Nat : ByteAt(file'[d][h], x) = IF pos <= x /\ x < pos + j
                                                   THEN bytes[x - pos + 1] ELSE ByteAt(file[d][h], x)
  <2>1. PICK stripe, z : stripe = StripeOf(n) /\ z = stripe * StripeSize + offset
    OBVIOUS
  <2>2. stripe \in Nat /\ WriteStripe(d, h, stripe, offset, bytes) /\ z = pos
    BY <1>2, <1>9, <2>1 DEF S
  <2>3. /\ \A y \in DataServers : \A x \in DOMAIN file[y] : y # d \/ x # h => file'[y][x] = file[y][x]
        /\ Replaces(file'[d][h], file[d][h], bytes, z)
    BY <1>4, <2>1, <2>2, FileWritten
  <2> HIDE DEF pos
  <2> QED BY <2>2, <2>3 DEF Replaces, j
<1>11. CASE d = e /\ h = g
  <2>1. Extent(n) = Extent(m) /\ k = l
    BY <1>1, <1>5, <1>11, HomesApart
  <2>2. Stored(p, l)' = IF pos <= q /\ q < pos + j THEN bytes[q - pos + 1] ELSE Stored(p, l)
    BY <1>6, <1>7, <1>8, <1>10, <1>11
  <2>3. CASE m = n
    <3>1. (pos <= q /\ q < pos + j) <=> (offset <= r /\ r < offset + j)
      BY <1>1, <1>8, <2>3
    <3>2. q - pos + 1 = r - offset + 1
      BY <1>1, <1>8, <2>3
    <3> QED BY <2>1, <2>2, <2>3, <3>1, <3>2 DEF WithWritten, m, r, j, S
  <2>4. CASE m # n
    <3>1. StripeOf(n) < StripeOf(m) \/ StripeOf(m) < StripeOf(n)
      BY <1>1, <2>1, <2>4, StripesApart
    <3> DEFINE x == StripeOf(n)
               y == StripeOf(m)
    <3>8. x \in Nat /\ y \in Nat
      BY <1>2
    <3>2. S * x = x * S /\ S * y = y * S
      BY <1>1, <3>8, Product
    <3>3. x < y => x * S + S <= y * S
      <4> HIDE DEF x, y
      <4>1. x < y => S * x + S <= S * y
        BY <1>1, <3>8, TimesNext
      <4> QED BY <3>2, <4>1
    <3>4. y < x => y * S + S <= x * S
      <4> HIDE DEF x, y
      <4>1. y < x => S * y + S <= S * x
        BY <1>1, <3>8, TimesNext
      <4> QED BY <3>2, <4>1
    <3> DEFINE u == x * S
               v == y * S
    <3>5. u \in Nat /\ v \in Nat /\ pos = u + offset /\ q = v + r
      BY <1>8
    <3>6. u + S <= v \/ v + S <= u
      BY <3>1, <3>3, <3>4
    <3>7. ~(pos <= q /\ q < pos + j)
      <4> HIDE DEF u, v, pos, q
      <4> QED BY <1>1, <3>5, <3>6
    <3> QED BY <2>2, <2>4, <3>7 DEF WithWritten, m, S
  <2> QED BY <2>3, <2>4
<1>12. CASE ~(d = e /\ h = g)
  <2>1. file'[e][g] = file[e][g]
    BY <1>4, <1>10, <1>12
  <2>2. ~(l = k /\ m = n)
    BY <1>12 DEF d, h, e, g
  <2> QED BY <1>6, <1>7, <2>1, <2>2 DEF WithWritten, m, S
<1> QED BY <1>11, <1>12

-----------------------------------------------------------------------------
(* The invariant *)

Calls == {e \in UNION {Range(Scenarios[s].calls[c]) : s \in DOMAIN Scenarios, c \in Clients} :
             LegalCall(e)}
Vals == [call : Nat, val : Nat, done : BOOLEAN]

\* Shapes, and that what a write writes tells it from the other writes to come.
Scripts ==
    /\ scenario \in DOMAIN Scenarios
    /\ DOMAIN script = Clients /\ DOMAIN req = Clients /\ DOMAIN over = Clients
    /\ DOMAIN seen = Clients /\ DOMAIN writes = Bytes
    /\ \A c \in Clients : DOMAIN over[c] = Bytes /\ DOMAIN seen[c] = Bytes
    /\ \A c \in Clients : script[c] \in Seq(Calls)
    /\ \A c, d \in Clients : \A m \in DOMAIN script[c], n \in DOMAIN script[d] :
          (/\ script[c][m].op = "write" /\ script[d][n].op = "write"
           /\ script[c][m].val = script[d][n].val) => c = d /\ m = n

Faults ==
    /\ dead \subseteq Given.mortal /\ \A d, f \in dead : d = f
    /\ errors \in 0..Given.errors

\* No write that has still to return is complete, or overwritten by another.
Fresh ==
    /\ \A p \in Bytes : writes[p] \subseteq Vals
    /\ \A c \in Clients : \A n \in DOMAIN script[c] : script[c][n].op = "write" =>
          \A p \in Bytes :
             /\ \A w \in writes[p] : w.call = script[c][n].val => ~w.done
             /\ \A d \in Clients : \A w \in over[d][p] : w.call # script[c][n].val

\* A request of a read was sent to the first copy, and to the second if that failed.
AskedOne(c) ==
    /\ \A i \in 0..Stripes(Call(c)) - 1 : <<i, 0>> \in DOMAIN req[c]
    /\ \A x \in DOMAIN req[c] : x[2] = 1 =>
          <<x[1], 0>> \in DOMAIN req[c] /\ req[c][<<x[1], 0>>].st = "failed"

\* A request of a write carries the bytes that are on record for it.
Carries(c, x) ==
    LET e == Call(c)
        data == req[c][x].data
    IN /\ data \in Seq(Nat) /\ Len(data) = Count(e, x[1])
       /\ \A p \in BytesOf(e) : p \div StripeSize = First(e) + x[1] =>
             [call |-> e.val, val |-> data[(p % StripeSize) - From(e, x[1]) + 1], done |-> FALSE]
                \in writes[p]
AskedBoth(c) ==
    /\ DOMAIN req[c] = (0..Stripes(Call(c)) - 1) \X {0, 1}
    /\ \A x \in DOMAIN req[c] : Carries(c, x)

Became(c, x) ==
    /\ req[c][x].st \in {"queued", "ok", "failed", "refused"}
    /\ req[c][x].st = "failed" => errors # 0 \/ Handle(c, x[1], x[2]).srv \in dead
    /\ req[c][x].st = "refused" => errors # 0
Asked(c) ==
    InCall(c) =>
        /\ script[c] # <<>>
        /\ DOMAIN req[c] \subseteq Nat \X {0, 1}
        /\ \A x \in DOMAIN req[c] : Became(c, x)
        /\ Call(c).op = "read" => AskedOne(c)
        /\ Call(c).op = "write" => AskedBoth(c)

\* A copy holds, of each byte, a write that no write it has served replaces.
Replaced(c, p, k) ==
    /\ Writing(c) /\ p \in BytesOf(Call(c))
    /\ req[c][<<(p \div StripeSize) - First(Call(c)), k>>].st = "ok"
Holds(p, k) ==
    \E w \in writes[p] :
        w.val = Stored(p, k) /\ \A c \in Clients : Replaced(c, p, k) => w \notin over[c][p]
Kept ==
    errors = 0 =>
        \A p \in Bytes : \A k \in {0, 1} : Home(p \div StripeSize, k).srv \notin dead => Holds(p, k)

\* A reader may see what it has received, and what it may still receive.
Received(c, x) ==
    \A p \in BytesOf(Call(c)) : p \div StripeSize = First(Call(c)) + x[1] =>
        ByteAt(req[c][x].data, p % StripeSize) \in seen[c][p]
Sees(c) ==
    Doing(c, "read") =>
        /\ \A p \in Bytes : \A w \in writes[p] : w.val \in seen[c][p]
        /\ errors = 0 => \A x \in DOMAIN req[c] : req[c][x].st = "ok" => Received(c, x)

IOInv == /\ Files /\ Scripts /\ Faults /\ Fresh /\ Kept
         /\ \A c \in Clients : Asked(c) /\ Sees(c)

-----------------------------------------------------------------------------
(* Calls and their bytes *)

LEMMA Legal ==
    ASSUME NEW e \in Calls
    PROVE  /\ LegalCall(e) /\ e.op \in {"read", "write", "size"}
           /\ e.op # "size" => Accesses(e)
           /\ e.op = "write" => e.val \in Nat \ {0}
  BY DEF Calls, LegalCall, Accesses

LEMMA Current ==
    ASSUME Scripts, NEW c \in Clients, script[c] # <<>>
    PROVE  Call(c) \in Calls /\ 1 \in DOMAIN script[c] /\ Call(c) = script[c][1]
<1>1. script[c] \in Seq(Calls)
  BY DEF Scripts
<1>2. ASSUME NEW s \in Seq(Calls), s # <<>> PROVE Head(s) \in Calls /\ 1 \in DOMAIN s /\ Head(s) = s[1]
  BY <1>2
<1> QED BY <1>1, <1>2 DEF Call

LEMMA InBytesOf ==
    ASSUME NEW e, Accesses(e), e.op # "size", NEW p
    PROVE  p \in BytesOf(e) <=> p \in Nat /\ e.offset <= p /\ p < e.offset + e.size
<1>1. e.offset \in Nat /\ e.size \in Nat \ {0}
  BY DEF Accesses
<1>2. BytesOf(e) = {e.offset + n : n \in 0..e.size - 1}
  BY DEF BytesOf
<1> DEFINE o == e.offset
           z == e.size
<1> HIDE DEF o, z
<1>3. o \in Nat /\ z \in Nat \ {0} /\ BytesOf(e) = {o + n : n \in 0..z - 1}
  BY <1>1, <1>2 DEF o, z
<1>4. ASSUME p \in Nat, o <= p, p < o + z PROVE p \in BytesOf(e)
  <2>1. p - o \in 0..z - 1 /\ o + (p - o) = p
    BY <1>3, <1>4
  <2> QED BY <1>3, <2>1
<1>5. ASSUME p \in BytesOf(e) PROVE p \in Nat /\ o <= p /\ p < o + z
  <2>1. PICK n \in 0..z - 1 : p = o + n
    BY <1>3, <1>5
  <2> QED BY <1>3, <2>1
<1> QED BY <1>4, <1>5 DEF o, z

\* A byte of a call belongs to one of its requests.
LEMMA Part ==
    ASSUME NEW e, Accesses(e), e.op # "size", NEW p \in BytesOf(e)
    PROVE  LET i == (p \div StripeSize) - First(e)
               r == p % StripeSize
           IN /\ p \in Bytes /\ i \in 0..Stripes(e) - 1 /\ p \div StripeSize = First(e) + i
              /\ r \in 0..StripeSize - 1 /\ From(e, i) <= r /\ r < From(e, i) + Count(e, i)
<1> DEFINE S == StripeSize
           o == e.offset
           z == e.size
           n == p \div S
           i == n - First(e)
           r == p % S
           last == First(e) + Stripes(e) - 1
<1>1. p \in Nat /\ o <= p /\ p < o + z /\ o \in Nat /\ z \in Nat \ {0} /\ o + z <= MaxSize /\ MaxSize \in Nat
  BY InBytesOf, Sizes DEF Accesses
<1>2. S \in Nat \ {0} /\ n \in Nat /\ r \in 0..S - 1 /\ p = S * n + r
  BY <1>1, Byte, Sizes
<1>3. /\ First(e) \in Nat /\ Stripes(e) \in Nat \ {0}
      /\ First(e) = o \div S /\ last = (o + z - 1) \div S
  <2>1. First(e) \in Nat /\ Stripes(e) \in Nat \ {0}
    BY Ends
  <2>2. Stripes(e) = (o + z - 1) \div S - First(e) + 1 /\ First(e) = o \div S
    BY DEF First, Stripes
  <2>3. (o + z - 1) \div S \in Nat
    <3>1. o + z - 1 \in Nat
      BY <1>1
    <3> QED BY <1>2, <3>1, Remainder
  <2> QED BY <2>1, <2>2, <2>3
<1>4. o \div S <= p \div S
  BY <1>1, <1>2, DivisionOrder
<1>5. p \div S <= (o + z - 1) \div S
  <2>1. o + z - 1 \in Nat /\ p <= o + z - 1
    BY <1>1
  <2> QED BY <1>1, <1>2, <2>1, DivisionOrder
<1>6. First(e) <= n /\ n <= last
  BY <1>3, <1>4, <1>5
<1> HIDE DEF n
<1>7. i \in 0..Stripes(e) - 1 /\ n = First(e) + i
  BY <1>2, <1>3, <1>6
<1> HIDE DEF i, r
<1>8. From(e, i) <= r /\ r < From(e, i) + Count(e, i)
  <2>1. p = StripeSize * (First(e) + i) + r
    BY <1>2, <1>7
  <2>2. r \in 0..StripeSize - 1
    BY <1>2
  <2> QED BY <1>1, <1>7, <2>1, <2>2, Covers
<1>9. p \in Bytes
  BY <1>1 DEF Bytes
<1> QED BY <1>2, <1>7, <1>8, <1>9 DEF i, n, r

\* Where a request's part of a stripe is, the call has a byte.
LEMMA Within ==
    ASSUME NEW e, Accesses(e), e.op # "size", NEW i \in 0..Stripes(e) - 1, NEW p \in Nat,
           p \div StripeSize = First(e) + i,
           From(e, i) <= p % StripeSize, p % StripeSize < From(e, i) + Count(e, i)
    PROVE  p \in BytesOf(e)
<1>1. p % StripeSize \in 0..StripeSize - 1 /\ p = StripeSize * (First(e) + i) + (p % StripeSize)
  BY Byte
<1>2. e.offset <= p /\ p < e.offset + e.size
  BY <1>1, Covers
<1> QED BY <1>2, InBytesOf

LEMMA Grouped == ASSUME NEW a \in Nat, NEW b \in Nat, NEW c \in Nat PROVE a * (b * c) = (a * b) * c
  OBVIOUS

LEMMA Spread == ASSUME NEW a \in Nat, NEW b \in Nat, NEW c \in Nat PROVE a * (b + c) = a * b + a * c
  OBVIOUS

\* No part of the file lies beyond its share of an extent.
LEMMA ShareHolds ==
    ASSUME NEW p \in Nat, p < MaxSize
    PROVE  /\ StripeOf(p \div StripeSize) * StripeSize + (p % StripeSize) + 1 <= Share
           /\ Share \in Nat
<1> DEFINE S == StripeSize
           C == StripeCnt
           M == MaxSize
           n == p \div S
           r == p % S
           q == StripeOf(n)
           x == Extent(n)
           K == S * C
           D == (M + K - 1) \div K
<1>1. S \in Nat \ {0} /\ C \in Nat \ {0} /\ M \in Nat \ {0}
  BY Sizes
<1>2. n \in Nat /\ r \in 0..S - 1 /\ p = S * n + r
  BY Byte
<1>3. q \in Nat /\ x \in 0..C - 1 /\ n = C * q + x
  BY <1>2, Stripe
<1>4. Share = D * S
  BY DEF Share
<1>0. p < M
  OBVIOUS
<1> HIDE DEF S, C, M, n, r, q, x
<1>5. K \in Nat /\ K > 0
  BY <1>1
<1>6. S * n = K * q + S * x /\ K * q \in Nat /\ S * x \in Nat
  <2>1. C * q \in Nat
    BY <1>1, <1>3
  <2>2. S * (C * q + x) = S * (C * q) + S * x
    BY <1>1, <1>3, <2>1, Spread
  <2>3. S * (C * q) = K * q
    BY <1>1, <1>3, Grouped
  <2>4. K * q \in Nat /\ S * x \in Nat
    <3> HIDE DEF K
    <3> QED BY <1>1, <1>3, <1>5, Product
  <2> QED BY <1>3, <2>2, <2>3, <2>4
<1> HIDE DEF K
<1>7. M + K - 1 \in Nat /\ D \in Nat /\ (M + K - 1) % K \in 0..K - 1
      /\ M + K - 1 = K * D + ((M + K - 1) % K)
  <2>1. M + K - 1 \in Nat
    BY <1>1, <1>5
  <2>2. ASSUME NEW a \in Nat, a = M + K - 1 PROVE a \div K \in Nat /\ a % K \in 0..K - 1 /\ a = K * (a \div K) + (a % K)
    BY <1>5, Remainder
  <2> QED BY <2>1, <2>2
<1> HIDE DEF D
<1>8. q < D
  <2> SUFFICES ASSUME D <= q PROVE FALSE
    BY <1>3, <1>7
  <2>1. K * D <= K * q /\ K * D \in Int
    BY <1>3, <1>5, <1>7, Times
  <2>2. p >= K * q
    BY <1>1, <1>2, <1>6
  <2> QED BY <1>0, <1>1, <1>2, <1>5, <1>6, <1>7, <2>1, <2>2
<1>9. S * q + S <= S * D /\ S * q = q * S /\ S * D = D * S /\ q * S \in Nat /\ D * S \in Nat
  BY <1>1, <1>3, <1>7, <1>8, TimesNext, Product
<1>10. q * S + r + 1 <= D * S
  BY <1>1, <1>2, <1>9
<1> QED BY <1>4, <1>9, <1>10 DEF q, n, r, S

LEMMA InShare ==
    ASSUME NEW e, Accesses(e), e.op # "size", NEW i \in 0..Stripes(e) - 1
    PROVE  StripeOf(First(e) + i) * StripeSize + From(e, i) + Count(e, i) <= Share
<1> DEFINE S == StripeSize
           n == First(e) + i
           r == From(e, i) + Count(e, i) - 1
           p == S * n + r
<1>1. S \in Nat \ {0}
  BY Sizes
<1>2. n \in Nat
  BY Ends
<1>3. From(e, i) \in Nat /\ Count(e, i) \in Nat \ {0} /\ From(e, i) + Count(e, i) <= S
  BY Covers
<1>4. r \in 0..S - 1 /\ From(e, i) <= r /\ r < From(e, i) + Count(e, i)
  BY <1>1, <1>3
<1>5. S * n \in Nat
  BY <1>1, <1>2, Product
<1>6. p \in Nat
  BY <1>4, <1>5
<1>7. e.offset <= p /\ p < e.offset + e.size
  BY <1>4, Covers
<1>8. p < MaxSize
  BY <1>6, <1>7, Sizes DEF Accesses
<1>9. p \div S = n /\ p % S = r
  <2>1. p \div S \in Nat /\ p % S \in 0..S - 1 /\ p = S * (p \div S) + (p % S)
    BY <1>6, Byte
  <2>2. ASSUME NEW y \in Nat, NEW t \in 0..S - 1, p = S * y + t PROVE y = n /\ t = r
    <3>1. S * n + r = S * y + t
      BY <2>2
    <3> HIDE DEF n, r, S
    <3> QED BY <1>1, <1>2, <1>4, <3>1, OneDivision
  <2> HIDE DEF p
  <2> QED BY <2>1, <2>2
<1> HIDE DEF p
<1>10. StripeOf(p \div S) * S + (p % S) + 1 <= Share
  BY <1>6, <1>8, ShareHolds
<1>11. StripeOf(n) * S + r + 1 <= Share
  BY <1>9, <1>10
<1> HIDE DEF r
<1>12. StripeOf(n) * S \in Nat
  BY <1>1, <1>2, Stripe, Product
<1>13. r + 1 = From(e, i) + Count(e, i)
  BY <1>3 DEF r
<1> QED BY <1>3, <1>4, <1>11, <1>12, <1>13

-----------------------------------------------------------------------------
(* The initial states *)

LEMMA InitHolds == Init => IOInv
<1> SUFFICES ASSUME Init PROVE IOInv
  OBVIOUS
<1>1. Files
  <2>1. DOMAIN file = DataServers
    BY DEF Init
  <2>2. ASSUME NEW i \in 1..Len(Layout) PROVE Layout[i].hdl \in DOMAIN file[Layout[i].srv]
    <3>1. Layout[i].srv \in DataServers
      <4>1. ASSUME NEW T, Layout \in Seq(T) PROVE Layout[i] \in T
        BY <4>1
      <4> QED BY <4>1, Sizes
    <3>2. DOMAIN file[Layout[i].srv]
             = {Layout[n].hdl : n \in {j \in 1..Len(Layout) : Layout[j].srv = Layout[i].srv}}
      BY <3>1 DEF Init
    <3> QED BY <3>2
  <2>3. ASSUME NEW d \in DataServers, NEW h \in DOMAIN file[d]
        PROVE  file[d][h] \in Seq(Nat) /\ Len(file[d][h]) <= Share
    <3>1. file[d][h] = <<>>
      BY DEF Init
    <3>2. Share \in Nat
      <4>1. ASSUME NEW p \in Nat, p < MaxSize PROVE Share \in Nat
        BY <4>1, ShareHolds
      <4> QED BY <4>1, Sizes
    <3> QED BY <3>1, <3>2
  <2> QED BY <2>1, <2>2, <2>3 DEF Files
<1>2. scenario \in DOMAIN Scenarios /\ script = Scenarios[scenario].calls
  BY DEF Init, Given
<1>3. DOMAIN script = Clients
  BY <1>2, IOAssumption
<1>4. ASSUME NEW c \in Clients PROVE script[c] \in Seq(Calls)
  <2>1. script[c] \in Seq({e \in Range(script[c]) : LegalCall(e)})
    BY <1>2, IOAssumption
  <2>2. Range(script[c]) \subseteq UNION {Range(Scenarios[s].calls[d]) : s \in DOMAIN Scenarios, d \in Clients}
    BY <1>2
  <2>3. {e \in Range(script[c]) : LegalCall(e)} \subseteq Calls
    BY <2>2 DEF Calls
  <2>4. ASSUME NEW T, NEW U, T \subseteq U, NEW s \in Seq(T) PROVE s \in Seq(U)
    <3>1. \A i \in 1..Len(s) : s[i] \in U
      BY <2>4
    <3> QED BY <3>1
  <2> QED BY <2>1, <2>3, <2>4
<1>5. Scripts
  <2>1. \A c, d \in Clients : \A m \in DOMAIN script[c], n \in DOMAIN script[d] :
          (/\ script[c][m].op = "write" /\ script[d][n].op = "write"
           /\ script[c][m].val = script[d][n].val) => c = d /\ m = n
    BY <1>2, IOAssumption
  <2>2. /\ DOMAIN req = Clients /\ DOMAIN over = Clients
        /\ DOMAIN seen = Clients /\ DOMAIN writes = Bytes
        /\ \A c \in Clients : DOMAIN over[c] = Bytes /\ DOMAIN seen[c] = Bytes
    BY DEF Init, Empty
  <2> QED BY <1>2, <1>3, <1>4, <2>1, <2>2 DEF Scripts
<1>6. Faults
  <2>1. Given.errors \in Nat
    BY <1>2, IOAssumption DEF Given
  <2> QED BY <2>1 DEF Init, Faults
<1>7. Fresh
  <2>1. ASSUME NEW p \in Bytes PROVE writes[p] = {Nothing}
    BY DEF Init
  <2>2. Nothing \in Vals /\ Nothing.call = 0
    BY DEF Nothing, Vals
  <2>3. ASSUME NEW c \in Clients, NEW n \in DOMAIN script[c], script[c][n].op = "write"
        PROVE  script[c][n].val # 0
    <3>1. ASSUME NEW T, NEW s \in Seq(T), NEW m \in DOMAIN s PROVE s[m] \in T
      OBVIOUS
    <3>2. script[c][n] \in Calls
      BY <1>4, <3>1
    <3> QED BY <2>3, <3>2, Legal
  <2>4. ASSUME NEW d \in Clients, NEW p \in Bytes PROVE over[d][p] = {}
    BY DEF Init, Empty
  <2> QED BY <2>1, <2>2, <2>3, <2>4 DEF Fresh
<1>8. Kept
  <2>1. ASSUME NEW p \in Bytes, NEW k \in {0, 1} PROVE Holds(p, k)
    <3>1. p \in Nat
      BY Sizes DEF Bytes
    <3>2. p \div StripeSize \in Nat
      BY <3>1, Byte
    <3> DEFINE y == Home(p \div StripeSize, k)
               q == StripeOf(p \div StripeSize) * StripeSize + (p % StripeSize)
    <3>3. y.srv \in DataServers /\ y.hdl \in DOMAIN file[y.srv]
      <4>1. /\ y \in [srv : DataServers, hdl : Nat]
            /\ 1 + Extent(p \div StripeSize) + k * StripeCnt \in 1..Len(Layout)
        BY <3>2, Homes
      <4> QED BY <1>1, <4>1 DEF Files, Home
    <3>4. file[y.srv][y.hdl] = <<>>
      <4> HIDE DEF y
      <4> QED BY <3>3 DEF Init
    <3>5. Stored(p, k) = ByteAt(file[y.srv][y.hdl], q)
      BY DEF Stored, ByteAt, Home
    <3>6. q \in Nat
      <4>1. StripeOf(p \div StripeSize) \in Nat
        BY <3>2, Stripe
      <4>3. StripeSize \in Nat /\ p % StripeSize \in Nat
        BY <3>1, Byte, Sizes
      <4>2. StripeOf(p \div StripeSize) * StripeSize \in Nat
        BY <4>1, <4>3, Product
      <4> QED BY <4>2, <4>3
    <3> HIDE DEF y, q
    <3>7. Stored(p, k) = 0
      BY <3>4, <3>5, <3>6 DEF ByteAt
    <3>8. Nothing \in writes[p] /\ Nothing.val = 0
      BY DEF Init, Nothing
    <3>9. \A c \in Clients : over[c][p] = {}
      BY DEF Init, Empty
    <3> QED BY <3>7, <3>8, <3>9 DEF Holds
  <2> QED BY <2>1 DEF Kept
<1>9. ASSUME NEW c \in Clients PROVE ~InCall(c)
  BY DEF Init, InCall
<1> QED BY <1>1, <1>5, <1>6, <1>7, <1>8, <1>9 DEF IOInv, Asked, Sees, Doing

-----------------------------------------------------------------------------
(* An answer *)

Others == \A d \in Clients : Asked(d) /\ Sees(d)

\* What an answer must be, whatever it does to the servers.
LEMMA Answered ==
    ASSUME Scripts, Faults, Fresh, Others,
           NEW c \in Clients, NEW x \in DOMAIN req[c], InCall(c), req[c][x].st = "queued",
           NEW st \in {"ok", "failed", "refused"}, NEW data, Answer(c, x, st, data),
           UNCHANGED <<scenario, dead, script, writes, over, seen>>,
           errors' \in 0..Given.errors, errors' = 0 => errors = 0,
           st = "failed" => errors' # 0 \/ Handle(c, x[1], x[2]).srv \in dead,
           st = "refused" => errors' # 0,
           Call(c).op = "write" => data = req[c][x].data,
           Call(c).op = "read" /\ errors' = 0 /\ st = "ok" =>
               \A p \in BytesOf(Call(c)) : p \div StripeSize = First(Call(c)) + x[1] =>
                   ByteAt(data, p % StripeSize) \in seen[c][p]
    PROVE  Scripts' /\ Faults' /\ Fresh' /\ Others'
<1>1. /\ scenario' = scenario /\ dead' = dead /\ script' = script
      /\ writes' = writes /\ over' = over /\ seen' = seen
  OBVIOUS
<1>2. DOMAIN req = Clients
  BY DEF Scripts
<1>3. /\ DOMAIN req' = Clients /\ DOMAIN req'[c] = DOMAIN req[c]
      /\ \A d \in Clients : d # c => req'[d] = req[d]
      /\ \A y \in DOMAIN req[c] : y # x => req'[c][y] = req[c][y]
      /\ req'[c][x] = [st |-> st, data |-> data]
  BY <1>2 DEF Answer
<1>4. req'[c][x].st = st /\ req'[c][x].data = data
  BY <1>3
<1>5. Scripts'
  BY <1>1, <1>3 DEF Scripts
<1>6. Faults'
  BY <1>1 DEF Faults, Given
<1>7. Fresh'
  BY <1>1 DEF Fresh
<1>8. ASSUME NEW d \in Clients PROVE Call(d)' = Call(d) /\ (InCall(d)' => InCall(d))
  BY <1>1, <1>3 DEF Call, InCall
<1>9. ASSUME NEW d \in Clients, NEW i, NEW k PROVE Handle(d, i, k)' = Handle(d, i, k)
  BY <1>8 DEF Handle
<1>10. ASSUME NEW d \in Clients PROVE Asked(d)'
  <2> SUFFICES ASSUME InCall(d)' PROVE Asked(d)'
    BY DEF Asked
  <2>1. InCall(d) /\ Call(d)' = Call(d)
    BY <1>8
  <2>2. /\ script[d] # <<>> /\ DOMAIN req[d] \subseteq Nat \X {0, 1}
        /\ \A y \in DOMAIN req[d] : Became(d, y)
        /\ Call(d).op = "read" => AskedOne(d)
        /\ Call(d).op = "write" => AskedBoth(d)
    BY <2>1 DEF Others, Asked
  <2>3. DOMAIN req'[d] = DOMAIN req[d]
    BY <1>3
  <2>4. ASSUME NEW y \in DOMAIN req[d] PROVE Became(d, y)'
    <3>1. CASE d # c \/ y # x
      <4>1. req'[d][y] = req[d][y]
        BY <1>3, <3>1
      <4>2. Became(d, y)
        BY <2>2
      <4> QED BY <1>1, <1>9, <4>1, <4>2 DEF Became
    <3>2. CASE d = c /\ y = x
      <4>1. req'[d][y].st = st
        BY <1>4, <3>2
      <4> QED BY <1>1, <1>9, <3>2, <4>1 DEF Became
    <3> QED BY <3>1, <3>2
  <2>5. ASSUME Call(d).op = "read" PROVE AskedOne(d)'
    <3>1. AskedOne(d)
      BY <2>2, <2>5
    <3>2. ASSUME NEW y \in DOMAIN req[d], y[2] = 1
          PROVE  <<y[1], 0>> \in DOMAIN req[d] /\ req'[d][<<y[1], 0>>].st = "failed"
      <4>1. <<y[1], 0>> \in DOMAIN req[d] /\ req[d][<<y[1], 0>>].st = "failed"
        BY <3>1, <3>2 DEF AskedOne
      <4>2. d = c => <<y[1], 0>> # x
        BY <4>1
      <4> QED BY <1>3, <4>1, <4>2
    <3> QED BY <2>1, <2>3, <3>1, <3>2 DEF AskedOne
  <2>6. ASSUME Call(d).op = "write" PROVE AskedBoth(d)'
    <3>1. AskedBoth(d)
      BY <2>2, <2>6
    <3>2. ASSUME NEW y \in DOMAIN req[d] PROVE req'[d][y].data = req[d][y].data
      BY <1>3, <1>4, <2>6
    <3>3. ASSUME NEW y \in DOMAIN req[d] PROVE Carries(d, y)'
      <4>1. Carries(d, y)
        BY <3>1 DEF AskedBoth
      <4> QED BY <1>1, <2>1, <3>2, <4>1 DEF Carries
    <3> QED BY <2>1, <2>3, <3>1, <3>3 DEF AskedBoth
  <2> QED BY <1>1, <2>1, <2>2, <2>3, <2>4, <2>5, <2>6 DEF Asked
<1>11. ASSUME NEW d \in Clients PROVE Sees(d)'
  <2> SUFFICES ASSUME Doing(d, "read")' PROVE Sees(d)'
    BY DEF Sees
  <2>1. Doing(d, "read") /\ Call(d)' = Call(d) /\ Call(d).op = "read"
    BY <1>8 DEF Doing
  <2>2. /\ \A p \in Bytes : \A w \in writes[p] : w.val \in seen[d][p]
        /\ errors = 0 => \A y \in DOMAIN req[d] : req[d][y].st = "ok" => Received(d, y)
    BY <2>1 DEF Others, Sees
  <2>3. ASSUME errors' = 0, NEW y \in DOMAIN req'[d], req'[d][y].st = "ok" PROVE Received(d, y)'
    <3>1. y \in DOMAIN req[d]
      BY <1>3
    <3>2. CASE d # c \/ y # x
      <4>1. req'[d][y] = req[d][y]
        BY <1>3, <3>1, <3>2
      <4>2. Received(d, y)
        BY <2>2, <2>3, <3>1, <4>1
      <4> QED BY <1>1, <2>1, <4>1, <4>2 DEF Received
    <3>3. CASE d = c /\ y = x
      <4>1. req'[d][y].data = data /\ st = "ok"
        BY <1>4, <2>3, <3>3
      <4>2. \A p \in BytesOf(Call(d)) : p \div StripeSize = First(Call(d)) + y[1] =>
                   ByteAt(data, p % StripeSize) \in seen[d][p]
        BY <2>1, <2>3, <3>3, <4>1
      <4> QED BY <1>1, <2>1, <4>1, <4>2 DEF Received
    <3> QED BY <3>2, <3>3
  <2> QED BY <1>1, <2>2, <2>3 DEF Sees
<1> QED BY <1>5, <1>6, <1>7, <1>10, <1>11 DEF Others

\* Nothing is lost while the copies stay as they are.
LEMMA Keeps ==
    ASSUME Scripts, Kept, UNCHANGED file, errors' = 0 => errors = 0, dead \subseteq dead',
           \A p \in Bytes : writes[p] \subseteq writes'[p],
           \A d \in Clients : \A p \in Bytes : \A k \in {0, 1} :
               Replaced(d, p, k)' => Replaced(d, p, k) /\ over'[d] = over[d]
    PROVE  Kept'
<1> SUFFICES ASSUME errors' = 0, NEW p \in Bytes, NEW k \in {0, 1},
                    Home(p \div StripeSize, k).srv \notin dead'
             PROVE  Holds(p, k)'
  BY DEF Kept
<1>1. PICK w \in writes[p] : /\ w.val = Stored(p, k)
                             /\ \A c \in Clients : Replaced(c, p, k) => w \notin over[c][p]
  BY DEF Kept, Holds
<1>2. Stored(p, k)' = Stored(p, k)
  BY DEF Stored
<1>3. w \in writes'[p]
  BY <1>1
<1>4. \A c \in Clients : Replaced(c, p, k)' => w \notin over'[c][p]
  BY <1>1
<1> QED BY <1>1, <1>2, <1>3, <1>4 DEF Holds

LEMMA HandleIsHome ==
    ASSUME NEW c, Call(c) \in Calls, Call(c).op # "size", NEW i \in Nat, NEW k \in {0, 1}
    PROVE  Handle(c, i, k) = Home(First(Call(c)) + i, k) /\ First(Call(c)) + i \in Nat
<1>1. First(Call(c)) \in Nat
  BY Legal, Ends
<1>2. First(Call(c)) + i \in Nat
  BY <1>1
<1> DEFINE x == Extent(First(Call(c)) + i)
<1>3. x \in Nat /\ StripeCnt \in Nat
  BY <1>2, Stripe, Sizes
<1>4. Handle(c, i, k) = Layout[1 + (IF k = 0 THEN x ELSE x + StripeCnt)]
  BY DEF Handle, Backup
<1>5. Home(First(Call(c)) + i, k) = Layout[1 + x + k * StripeCnt]
  BY DEF Home
<1> HIDE DEF x
<1>6. 1 + (IF k = 0 THEN x ELSE x + StripeCnt) = 1 + x + k * StripeCnt
  BY <1>3
<1> QED BY <1>2, <1>4, <1>5, <1>6

\* srvReadStripe: what lies behind the end of an extent reads as zeros.
UpTo(f, q) == IF q + StripeSize < Len(f) THEN q + StripeSize ELSE Len(f)

LEMMA StripeRead ==
    ASSUME NEW f \in Seq(Nat), NEW q \in Nat, NEW to, to = UpTo(f, q), NEW r \in 0..StripeSize - 1
    PROVE  ByteAt(SubSeq(f, q + 1, to), r) = ByteAt(f, q + r)
<1>0. to = IF q + StripeSize < Len(f) THEN q + StripeSize ELSE Len(f)
  BY DEF UpTo
<1>1. StripeSize \in Nat /\ Len(f) \in Nat /\ to \in Nat /\ to <= Len(f)
  BY <1>0, Sizes
<1>2. \A i \in q + 1..to : f[i] \in Nat
  <2>1. \A i \in 1..Len(f) : f[i] \in Nat
    OBVIOUS
  <2> QED BY <1>1, <2>1
<1> DEFINE s == SubSeq(f, q + 1, to)
<1>3. /\ s \in Seq(Nat) /\ Len(s) = IF q + 1 <= to THEN to - (q + 1) + 1 ELSE 0
      /\ \A i \in 1..to - (q + 1) + 1 : s[i] = f[q + 1 + i - 1]
  <2>1. ASSUME NEW m \in Int, NEW n \in Int, \A i \in m..n : f[i] \in Nat
        PROVE  /\ SubSeq(f, m, n) \in Seq(Nat)
               /\ Len(SubSeq(f, m, n)) = IF m <= n THEN n - m + 1 ELSE 0
               /\ \A i \in 1..n - m + 1 : SubSeq(f, m, n)[i] = f[m + i - 1]
    BY <2>1, SubSeqProperties
  <2>2. q + 1 \in Int /\ to \in Int
    BY <1>1
  <2>3. PICK m \in Int : m = q + 1
    BY <2>2
  <2>4. /\ SubSeq(f, m, to) \in Seq(Nat)
        /\ Len(SubSeq(f, m, to)) = IF m <= to THEN to - m + 1 ELSE 0
        /\ \A i \in 1..to - m + 1 : SubSeq(f, m, to)[i] = f[m + i - 1]
    BY <1>2, <2>1, <2>2, <2>3
  <2> QED BY <2>3, <2>4
<1> HIDE DEF s
<1>4. ByteAt(s, r) = IF r < Len(s) THEN s[r + 1] ELSE 0
  BY DEF ByteAt
<1>5. ByteAt(f, q + r) = IF q + r < Len(f) THEN f[q + r + 1] ELSE 0
  BY DEF ByteAt
<1>6. r < Len(s) <=> q + r < Len(f)
  BY <1>0, <1>1, <1>3
<1>7. r < Len(s) => s[r + 1] = f[q + r + 1]
  <2> SUFFICES ASSUME r < Len(s) PROVE s[r + 1] = f[q + r + 1]
    OBVIOUS
  <2>1. r + 1 \in 1..to - (q + 1) + 1
    BY <1>1, <1>3
  <2>2. q + 1 + (r + 1) - 1 = q + r + 1
    BY <1>1
  <2> QED BY <1>3, <2>1, <2>2
<1> QED BY <1>4, <1>5, <1>6, <1>7 DEF s

\* What a copy answers is what it holds.
LEMMA CopyRead ==
    ASSUME Files, NEW n \in Nat, NEW k \in {0, 1}, NEW p \in Nat, p \div StripeSize = n,
           NEW d, d = Home(n, k).srv, NEW h, h = Home(n, k).hdl
    PROVE  ByteAt(ReadStripe(d, h, StripeOf(n)), p % StripeSize) = Stored(p, k)
<1> DEFINE q == StripeOf(n) * StripeSize
           f == file[d][h]
           r == p % StripeSize
<1>1. StripeOf(n) \in Nat /\ r \in 0..StripeSize - 1 /\ StripeSize \in Nat
  <2>1. StripeOf(n) \in Nat
    BY Stripe
  <2>2. r \in 0..StripeSize - 1
    BY Byte
  <2> QED BY <2>1, <2>2, Sizes
<1>2. q \in Nat
  BY <1>1, Product
<1>3. f \in Seq(Nat)
  <2>1. Home(n, k) \in [srv : DataServers, hdl : Nat] /\ 1 + Extent(n) + k * StripeCnt \in 1..Len(Layout)
    BY Homes
  <2> QED BY <2>1 DEF Files, Home
<1>4. ReadStripe(d, h, StripeOf(n)) = SubSeq(f, q + 1, UpTo(f, q))
  BY DEF ReadStripe, UpTo
<1>5. Stored(p, k) = ByteAt(f, q + r)
  BY DEF Stored, ByteAt, Home
<1> HIDE DEF q, f, r
<1>6. ByteAt(SubSeq(f, q + 1, UpTo(f, q)), r) = ByteAt(f, q + r)
  BY <1>1, <1>2, <1>3, StripeRead
<1> QED BY <1>4, <1>5, <1>6 DEF r

LEMMA InHand ==
    ASSUME Scripts, NEW c \in Clients, Asked(c), InCall(c)
    PROVE  /\ Call(c) \in Calls
           /\ \A x \in DOMAIN req[c] : x[1] \in Nat /\ x[2] \in {0, 1} /\ x = <<x[1], x[2]>>
<1>1. script[c] # <<>> /\ DOMAIN req[c] \subseteq Nat \X {0, 1}
  BY DEF Asked
<1>2. Call(c) \in Calls
  BY <1>1, Current
<1>3. ASSUME NEW x \in Nat \X {0, 1} PROVE x[1] \in Nat /\ x[2] \in {0, 1} /\ x = <<x[1], x[2]>>
  OBVIOUS
<1> QED BY <1>1, <1>2, <1>3

\* A writer has a request for each copy of each of its bytes.
LEMMA PartAsked ==
    ASSUME Scripts, NEW c \in Clients, Asked(c), Writing(c), NEW p \in BytesOf(Call(c)), NEW k \in {0, 1}
    PROVE  /\ p \in Bytes /\ (p \div StripeSize) - First(Call(c)) \in 0..Stripes(Call(c)) - 1
           /\ <<(p \div StripeSize) - First(Call(c)), k>> \in DOMAIN req[c]
<1>1. InCall(c) /\ Call(c).op = "write"
  BY DEF Writing, Doing
<1>2. Call(c) \in Calls /\ DOMAIN req[c] = (0..Stripes(Call(c)) - 1) \X {0, 1}
  BY <1>1, InHand DEF Asked, AskedBoth
<1>3. Accesses(Call(c)) /\ Call(c).op # "size"
  BY <1>1, <1>2, Legal
<1> DEFINE i == (p \div StripeSize) - First(Call(c))
<1>4. p \in Bytes /\ i \in 0..Stripes(Call(c)) - 1
  <2>1. ASSUME NEW e, e = Call(c), Accesses(e), e.op # "size", p \in BytesOf(e)
        PROVE  p \in Bytes /\ (p \div StripeSize) - First(e) \in 0..Stripes(e) - 1
    BY <2>1, Part
  <2> QED BY <1>3, <2>1
<1> HIDE DEF i
<1>5. <<i, k>> \in DOMAIN req[c]
  BY <1>2, <1>4
<1> QED BY <1>4, <1>5 DEF i

\* Unless a write was served, an answer leaves every copy as it was.
LEMMA AnsweredKept ==
    ASSUME Scripts, Kept, Others, NEW c \in Clients, NEW x \in DOMAIN req[c], InCall(c),
           NEW st, NEW data, Answer(c, x, st, data), Call(c).op = "write" => st # "ok",
           UNCHANGED <<file, script, writes, over, dead>>, errors' = 0 => errors = 0
    PROVE  Kept'
<1>1. /\ file' = file /\ script' = script /\ dead' = dead /\ writes' = writes /\ over' = over
  OBVIOUS
<1>2. DOMAIN req = Clients
  BY DEF Scripts
<1>3. /\ DOMAIN req' = Clients
      /\ \A d \in Clients : d # c => req'[d] = req[d]
      /\ \A y \in DOMAIN req[c] : y # x => req'[c][y] = req[c][y]
      /\ req'[c][x] = [st |-> st, data |-> data]
  BY <1>2 DEF Answer
<1>4. req'[c][x].st = st
  BY <1>3
<1>5. ASSUME NEW d \in Clients PROVE Call(d)' = Call(d) /\ (InCall(d)' => InCall(d))
  BY <1>1, <1>3 DEF Call, InCall
<1>6. ASSUME NEW d \in Clients, NEW p \in Bytes, NEW k \in {0, 1}, Replaced(d, p, k)'
      PROVE  Replaced(d, p, k) /\ over'[d] = over[d]
  <2>1. Call(d)' = Call(d) /\ InCall(d) /\ Call(d).op = "write" /\ Writing(d)
    BY <1>5, <1>6 DEF Replaced, Writing, Doing
  <2> DEFINE z == <<(p \div StripeSize) - First(Call(d)), k>>
  <2>2. p \in BytesOf(Call(d)) /\ req'[d][z].st = "ok"
    BY <1>6, <2>1 DEF Replaced
  <2>3. z \in DOMAIN req[d]
    BY <2>1, <2>2, PartAsked DEF Others
  <2> HIDE DEF z
  <2>4. req[d][z].st = "ok"
    <3>1. CASE d # c \/ z # x
      BY <1>3, <2>2, <2>3, <3>1
    <3>2. CASE d = c /\ z = x
      BY <1>4, <2>1, <2>2, <3>2
    <3> QED BY <3>1, <3>2
  <2> QED BY <1>1, <2>1, <2>2, <2>4 DEF Replaced, z
<1>7. \A p \in Bytes : writes[p] \subseteq writes'[p]
  BY <1>1
<1> QED BY <1>1, <1>6, <1>7, Keeps

LEMMA FilesStay == ASSUME Files, file' = file PROVE Files'
  BY DEF Files

LEMMA ReadServed ==
    ASSUME IOInv, NEW c \in Clients, NEW x \in DOMAIN req[c], ServeRead(c, x)
    PROVE  IOInv'
<1>1. /\ InCall(c) /\ Call(c).op = "read" /\ req[c][x].st = "queued" /\ Handle(c, x[1], x[2]).srv \notin dead
  BY DEF ServeRead, Doing, Outstanding, Alive
<1>2. /\ file' = file /\ scenario' = scenario /\ dead' = dead /\ script' = script /\ writes' = writes
      /\ over' = over /\ seen' = seen /\ errors' = errors
  BY DEF ServeRead, dataVars, faults, history
<1>3. Files /\ Scripts /\ Faults /\ Fresh /\ Kept /\ Others /\ Asked(c) /\ Sees(c)
  BY DEF IOInv, Others
<1>4. Call(c) \in Calls /\ x[1] \in Nat /\ x[2] \in {0, 1}
  BY <1>1, <1>3, InHand
<1> DEFINE n == First(Call(c)) + x[1]
           h == Handle(c, x[1], x[2])
           data == ReadStripe(h.srv, h.hdl, StripeOf(n))
<1>5. h = Home(n, x[2]) /\ n \in Nat
  BY <1>1, <1>4, HandleIsHome
<1>6. Answer(c, x, "ok", data)
  BY DEF ServeRead
<1>7. h.srv \notin dead
  BY <1>1
<1>8. ASSUME errors = 0, NEW p \in BytesOf(Call(c)), p \div StripeSize = n
      PROVE  ByteAt(data, p % StripeSize) \in seen[c][p]
  <2>1. p \in Bytes /\ p \in Nat
    <3>1. Accesses(Call(c)) /\ Call(c).op # "size"
      BY <1>1, <1>4, Legal
    <3>2. p \in Nat
      BY <3>1, InBytesOf
    <3>3. ASSUME NEW e, e = Call(c), Accesses(e), e.op # "size", p \in BytesOf(e) PROVE p \in Bytes
      BY <3>3, Part
    <3> QED BY <3>1, <3>2, <3>3
  <2>2. ByteAt(data, p % StripeSize) = Stored(p, x[2])
    <3>1. ASSUME NEW d, d = h.srv, NEW g, g = h.hdl, NEW k, k = x[2], NEW m, m = n
          PROVE  ByteAt(ReadStripe(d, g, StripeOf(m)), p % StripeSize) = Stored(p, k)
      <4>1. k \in {0, 1} /\ m \in Nat /\ d = Home(m, k).srv /\ g = Home(m, k).hdl /\ p \div StripeSize = m
        BY <1>4, <1>5, <1>8, <3>1
      <4> QED BY <1>3, <2>1, <4>1, CopyRead
    <3> QED BY <3>1
  <2> HIDE DEF n, data, h
  <2>3. Holds(p, x[2])
    <3>1. Home(p \div StripeSize, x[2]).srv \notin dead
      BY <1>5, <1>7, <1>8
    <3> QED BY <1>3, <1>4, <1>8, <2>1, <3>1 DEF Kept
  <2>4. PICK w \in writes[p] : w.val = Stored(p, x[2])
    BY <2>3 DEF Holds
  <2>5. w.val \in seen[c][p]
    BY <1>1, <1>3, <2>1, <2>4 DEF Sees, Doing
  <2> QED BY <2>2, <2>4, <2>5
<1>9. Kept' /\ Files'
  <2> HIDE DEF data, h
  <2> QED BY <1>1, <1>2, <1>3, <1>6, AnsweredKept, FilesStay
<1>10. errors \in 0..Given.errors
  BY <1>3 DEF Faults
<1>11. Scripts' /\ Faults' /\ Fresh' /\ Others'
  <2>1. \A p \in BytesOf(Call(c)) : errors = 0 /\ p \div StripeSize = First(Call(c)) + x[1] =>
                   ByteAt(data, p % StripeSize) \in seen[c][p]
    BY <1>8
  <2> HIDE DEF data, h
  <2> QED BY <1>1, <1>2, <1>3, <1>6, <1>10, <2>1, Answered
<1> QED BY <1>9, <1>11 DEF IOInv, Others

LEMMA SizeServed ==
    ASSUME IOInv, NEW c \in Clients, NEW x \in DOMAIN req[c], ServeSize(c, x)
    PROVE  IOInv'
<1>1. InCall(c) /\ Call(c).op = "size" /\ req[c][x].st = "queued"
  BY DEF ServeSize, Doing, Outstanding
<1>2. /\ file' = file /\ scenario' = scenario /\ dead' = dead /\ script' = script /\ writes' = writes
      /\ over' = over /\ seen' = seen /\ errors' = errors
  BY DEF ServeSize, dataVars, faults, history
<1>3. Files /\ Scripts /\ Faults /\ Fresh /\ Kept /\ Others
  BY DEF IOInv, Others
<1>4. PICK data : Answer(c, x, "ok", data)
  BY DEF ServeSize
<1>5. Kept' /\ Files'
  BY <1>1, <1>2, <1>3, <1>4, AnsweredKept, FilesStay
<1>6. errors \in 0..Given.errors
  BY <1>3 DEF Faults
<1>7. Scripts' /\ Faults' /\ Fresh' /\ Others'
  BY <1>1, <1>2, <1>3, <1>4, <1>6, Answered
<1> QED BY <1>5, <1>7 DEF IOInv, Others

\* A refusal, or a failed send to a living server.
LEMMA Refused ==
    ASSUME IOInv, NEW c \in Clients, NEW x \in DOMAIN req[c], Refuse(c, x) \/ SendIsCut(c, x)
    PROVE  IOInv'
<1>1. InCall(c) /\ req[c][x].st = "queued"
  BY DEF Refuse, SendIsCut, Outstanding
<1>2. /\ file' = file /\ scenario' = scenario /\ dead' = dead /\ script' = script /\ writes' = writes
      /\ over' = over /\ seen' = seen
  BY DEF Refuse, SendIsCut, dataVars, history
<1>3. Files /\ Scripts /\ Faults /\ Fresh /\ Kept /\ Others
  BY DEF IOInv, Others
<1>4. PICK data, st : /\ data = req[c][x].data /\ Answer(c, x, st, data)
                      /\ st \in {"refused", "failed"}
  BY DEF Refuse, SendIsCut
<1>5. errors' \in 0..Given.errors /\ errors' # 0
  <2>1. Given.errors \in Nat
    BY <1>3, IOAssumption DEF Scripts, Given
  <2> QED BY <1>3, <2>1 DEF Refuse, SendIsCut, Faults
<1>6. Kept' /\ Files'
  BY <1>1, <1>2, <1>3, <1>4, <1>5, AnsweredKept, FilesStay
<1>7. Scripts' /\ Faults' /\ Fresh' /\ Others'
  BY <1>1, <1>2, <1>3, <1>4, <1>5, Answered
<1> QED BY <1>6, <1>7 DEF IOInv, Others

LEMMA SendFailed ==
    ASSUME IOInv, NEW c \in Clients, NEW x \in DOMAIN req[c], SendFails(c, x)
    PROVE  IOInv'
<1>1. InCall(c) /\ req[c][x].st = "queued" /\ Handle(c, x[1], x[2]).srv \in dead
  BY DEF SendFails, Outstanding, Alive
<1>2. /\ file' = file /\ scenario' = scenario /\ dead' = dead /\ script' = script /\ writes' = writes
      /\ over' = over /\ seen' = seen /\ errors' = errors
  BY DEF SendFails, dataVars, faults, history
<1>3. Files /\ Scripts /\ Faults /\ Fresh /\ Kept /\ Others
  BY DEF IOInv, Others
<1>4. PICK data : data = req[c][x].data /\ Answer(c, x, "failed", data)
  BY DEF SendFails
<1>5. errors \in 0..Given.errors
  BY <1>3 DEF Faults
<1>6. Kept' /\ Files'
  BY <1>1, <1>2, <1>3, <1>4, AnsweredKept, FilesStay
<1>7. Scripts' /\ Faults' /\ Fresh' /\ Others'
  BY <1>1, <1>2, <1>3, <1>4, <1>5, Answered
<1> QED BY <1>6, <1>7 DEF IOInv, Others

LEMMA WriteServed ==
    ASSUME IOInv, NEW c \in Clients, NEW x \in DOMAIN req[c], ServeWrite(c, x)
    PROVE  IOInv'
<1>1. /\ InCall(c) /\ Writing(c) /\ Call(c).op = "write" /\ req[c][x].st = "queued"
  BY DEF ServeWrite, Writing, Doing, Outstanding
<1>2. /\ scenario' = scenario /\ dead' = dead /\ script' = script /\ writes' = writes
      /\ over' = over /\ seen' = seen /\ errors' = errors
  BY DEF ServeWrite, faults, history
<1>3. Files /\ Scripts /\ Faults /\ Fresh /\ Kept /\ Others /\ Asked(c)
  BY DEF IOInv, Others
<1>4. Call(c) \in Calls /\ x[1] \in Nat /\ x[2] \in {0, 1} /\ x = <<x[1], x[2]>>
  BY <1>1, <1>3, InHand
<1>5. PICK e : e = Call(c)
  OBVIOUS
<1>6. PICK i, k : i = x[1] /\ k = x[2]
  OBVIOUS
<1>7. PICK data : data = req[c][x].data
  OBVIOUS
<1>8. PICK n : n = First(e) + i
  OBVIOUS
<1>9. e \in Calls /\ Accesses(e) /\ e.op = "write" /\ First(e) \in Nat /\ k \in {0, 1} /\ x = <<i, k>>
  BY <1>1, <1>4, <1>5, <1>6, Legal, Ends
<1>10. i \in 0..Stripes(e) - 1 /\ n \in Nat
  <2>1. DOMAIN req[c] = (0..Stripes(e) - 1) \X {0, 1}
    BY <1>1, <1>3, <1>5 DEF Asked, AskedBoth
  <2> QED BY <1>4, <1>6, <1>8, <1>9, <2>1
<1>11. Carries(c, x)
  BY <1>1, <1>3 DEF Asked, AskedBoth
<1>12. data \in Seq(Nat) /\ Len(data) = Count(e, i)
  BY <1>5, <1>6, <1>7, <1>11 DEF Carries
<1>13. From(e, i) \in Nat /\ Count(e, i) \in Nat /\ From(e, i) + Count(e, i) <= StripeSize
  BY <1>9, <1>10, Covers
<1>14. Handle(c, x[1], x[2]) = Home(n, k)
  BY <1>1, <1>4, <1>5, <1>6, <1>8, HandleIsHome
<1>15. /\ WriteStripe(Home(n, k).srv, Home(n, k).hdl, StripeOf(n), From(e, i), data)
       /\ Answer(c, x, "ok", data)
  BY <1>5, <1>6, <1>7, <1>8, <1>14 DEF ServeWrite
<1>16. Files'
  <2>1. PICK d, h : d = Home(n, k).srv /\ h = Home(n, k).hdl
    OBVIOUS
  <2>2. d \in DataServers /\ h \in DOMAIN file[d]
    <3>1. Home(n, k) \in [srv : DataServers, hdl : Nat] /\ 1 + Extent(n) + k * StripeCnt \in 1..Len(Layout)
      BY <1>9, <1>10, Homes
    <3> QED BY <1>3, <2>1, <3>1 DEF Files, Home
  <2>3. StripeOf(n) \in Nat
    BY <1>10, Stripe
  <2>4. PICK pos : pos = StripeOf(n) * StripeSize + From(e, i)
    OBVIOUS
  <2>5. WriteStripe(d, h, StripeOf(n), From(e, i), data)
    BY <1>15, <2>1
  <2>6. /\ DOMAIN file' = DataServers /\ pos \in Nat
        /\ \A y \in DataServers : DOMAIN file'[y] = DOMAIN file[y]
        /\ \A y \in DataServers : \A g \in DOMAIN file[y] : y # d \/ g # h => file'[y][g] = file[y][g]
        /\ file'[d][h] \in Seq(Nat)
        /\ Len(file'[d][h]) = IF pos + Len(data) > Len(file[d][h]) THEN pos + Len(data)
                              ELSE Len(file[d][h])
    BY <1>3, <1>12, <1>13, <2>2, <2>3, <2>4, <2>5, FileWritten
  <2>7. pos + Len(data) <= Share
    <3>1. e.op # "size"
      BY <1>9
    <3>2. StripeOf(First(e) + i) * StripeSize + From(e, i) + Count(e, i) <= Share
      BY <1>9, <1>10, <3>1, InShare
    <3> QED BY <1>8, <1>12, <2>4, <3>2
  <2>8. Len(file'[d][h]) <= Share
    <3>1. Len(file[d][h]) <= Share
      BY <1>3, <2>2 DEF Files
    <3> QED BY <2>6, <2>7, <3>1
  <2>9. \A y \in DataServers : \A g \in DOMAIN file'[y] : file'[y][g] \in Seq(Nat) /\ Len(file'[y][g]) <= Share
    BY <1>3, <2>6, <2>8 DEF Files
  <2>10. \A j \in 1..Len(Layout) : Layout[j].hdl \in DOMAIN file'[Layout[j].srv]
    <3>1. \A j \in 1..Len(Layout) : Layout[j].srv \in DataServers
      <4>1. ASSUME NEW T, Layout \in Seq(T), NEW j \in 1..Len(Layout) PROVE Layout[j] \in T
        BY <4>1
      <4>2. \A j \in 1..Len(Layout) : Layout[j] \in [srv : DataServers, hdl : Nat]
        BY <4>1, Sizes
      <4> QED BY <4>2
    <3> QED BY <1>3, <2>6, <3>1 DEF Files
  <2> QED BY <2>6, <2>9, <2>10 DEF Files
<1>17. Scripts' /\ Faults' /\ Fresh' /\ Others'
  <2>1. errors \in 0..Given.errors
    BY <1>3 DEF Faults
  <2> QED BY <1>1, <1>2, <1>3, <1>7, <1>15, <2>1, Answered
<1>18. Kept'
  <2> SUFFICES ASSUME errors = 0, NEW p \in Bytes, NEW l \in {0, 1},
                      Home(p \div StripeSize, l).srv \notin dead
               PROVE  Holds(p, l)'
    BY <1>2 DEF Kept
  <2>1. p \in Nat
    BY Sizes DEF Bytes
  <2>2. PICK w \in writes[p] : /\ w.val = Stored(p, l)
                               /\ \A d \in Clients : Replaced(d, p, l) => w \notin over[d][p]
    BY <1>3 DEF Kept, Holds
  <2>3. Stored(p, l)' = IF l = k /\ p \div StripeSize = n
                             /\ From(e, i) <= p % StripeSize /\ p % StripeSize < From(e, i) + Len(data)
                        THEN data[(p % StripeSize) - From(e, i) + 1] ELSE Stored(p, l)
    <3>1. PICK o : o = From(e, i)
      OBVIOUS
    <3>2. o \in Nat /\ o + Len(data) <= StripeSize
      BY <1>12, <1>13, <3>1
    <3>3. WriteCopy(n, k, o, data)
      BY <1>15, <3>1 DEF WriteCopy
    <3>4. Stored(p, l)' = WithWritten(p, l, n, k, o, data)
      BY <1>3, <1>9, <1>10, <1>12, <2>1, <3>2, <3>3, CopyWritten
    <3> QED BY <3>1, <3>4 DEF WithWritten
  <2>4. CASE l = k /\ p \div StripeSize = n
             /\ From(e, i) <= p % StripeSize /\ p % StripeSize < From(e, i) + Len(data)
    <3>1. p \in BytesOf(e)
      BY <1>8, <1>9, <1>10, <1>12, <2>1, <2>4, Within
    <3> DEFINE v == [call |-> e.val, val |-> data[(p % StripeSize) - From(e, i) + 1], done |-> FALSE]
    <3>2. v \in writes[p]
      BY <1>5, <1>6, <1>7, <1>8, <1>11, <2>4, <3>1 DEF Carries
    <3>3. v.val = Stored(p, l)' /\ v.call = e.val
      BY <2>3, <2>4
    <3> HIDE DEF v
    <3>4. \A d \in Clients : v \notin over[d][p]
      <4>1. 1 \in DOMAIN script[c] /\ e = script[c][1]
        BY <1>1, <1>3, <1>5, Current DEF Asked
      <4> QED BY <1>3, <1>9, <3>3, <4>1 DEF Fresh
    <3> QED BY <1>2, <3>2, <3>3, <3>4 DEF Holds
  <2>5. CASE ~(l = k /\ p \div StripeSize = n
               /\ From(e, i) <= p % StripeSize /\ p % StripeSize < From(e, i) + Len(data))
    <3>1. Stored(p, l)' = Stored(p, l)
      BY <2>3, <2>5
    <3>2. ASSUME NEW d \in Clients, Replaced(d, p, l)' PROVE w \notin over'[d][p]
      <4>1. DOMAIN req = Clients
        BY <1>3 DEF Scripts
      <4>2. /\ \A b \in Clients : b # c => req'[b] = req[b]
            /\ \A y \in DOMAIN req[c] : y # x => req'[c][y] = req[c][y]
        BY <1>15, <4>1 DEF Answer
      <4>3. CASE d # c
        <5>1. req'[d] = req[d]
          BY <4>2, <4>3
        <5>2. Replaced(d, p, l)
          BY <1>2, <3>2, <5>1 DEF Replaced, Writing, Doing, InCall, Call
        <5> QED BY <1>2, <2>2, <5>2
      <4>4. CASE d = c
        <5> DEFINE z == <<(p \div StripeSize) - First(e), l>>
        <5>1. p \in BytesOf(e) /\ req'[c][z].st = "ok"
          BY <1>2, <1>5, <3>2, <4>4 DEF Replaced, Call
        <5>2. z \in DOMAIN req[c]
          BY <1>1, <1>3, <1>5, <5>1, PartAsked
        <5>3. e.op # "size"
          BY <1>9
        <5>4. /\ p \div StripeSize = First(e) + ((p \div StripeSize) - First(e))
              /\ From(e, (p \div StripeSize) - First(e)) <= p % StripeSize
              /\ p % StripeSize < From(e, (p \div StripeSize) - First(e))
                                    + Count(e, (p \div StripeSize) - First(e))
          BY <1>9, <5>1, <5>3, Part
        <5>5. z # x
          <6> SUFFICES ASSUME z = x PROVE FALSE
            OBVIOUS
          <6>1. (p \div StripeSize) - First(e) = i /\ l = k
            BY <1>9
          <6>2. p \div StripeSize = n
            BY <1>8, <5>4, <6>1
          <6> QED BY <1>12, <2>5, <5>4, <6>1, <6>2
        <5>6. req[c][z].st = "ok"
          BY <4>2, <5>1, <5>2, <5>5
        <5>7. Replaced(c, p, l)
          BY <1>1, <1>5, <5>1, <5>6 DEF Replaced
        <5> QED BY <1>2, <2>2, <4>4, <5>7
      <4> QED BY <4>3, <4>4
    <3> QED BY <1>2, <2>2, <3>1, <3>2 DEF Holds
  <2> QED BY <2>4, <2>5
<1> QED BY <1>16, <1>17, <1>18 DEF IOInv, Others

-----------------------------------------------------------------------------
(* What other clients do to one *)

LEMMA Bystander ==
    ASSUME Scripts, NEW d \in Clients, Asked(d), Sees(d), req'[d] = req[d], script'[d] = script[d],
           dead \subseteq dead', errors' = 0 => errors = 0,
           Writing(d) => \A p \in Bytes : \A w \in writes[p] :
                            w.call = Call(d).val /\ ~w.done => w \in writes'[p],
           Doing(d, "read") => \A p \in Bytes : /\ seen[d][p] \subseteq seen'[d][p]
                                                /\ \A w \in writes'[p] : w.val \in seen'[d][p]
    PROVE  Asked(d)' /\ Sees(d)'
<1>1. InCall(d)' = InCall(d) /\ Call(d)' = Call(d)
  BY DEF InCall, Call
<1>2. ASSUME NEW i, NEW k PROVE Handle(d, i, k)' = Handle(d, i, k)
  BY <1>1 DEF Handle
<1>3. ASSUME NEW p \in BytesOf(Call(d)), InCall(d) PROVE p \in Bytes
  <2>1. Call(d) \in Calls
    BY <1>3, InHand
  <2>2. Call(d).op # "size"
    BY DEF BytesOf
  <2>3. ASSUME NEW e, e = Call(d), Accesses(e), e.op # "size", p \in BytesOf(e) PROVE p \in Bytes
    BY <2>3, Part
  <2> QED BY <2>1, <2>2, <2>3, Legal
<1>4. Asked(d)'
  <2> SUFFICES ASSUME InCall(d) PROVE Asked(d)'
    BY <1>1 DEF Asked
  <2>1. /\ script[d] # <<>> /\ DOMAIN req[d] \subseteq Nat \X {0, 1}
        /\ \A y \in DOMAIN req[d] : Became(d, y)
        /\ Call(d).op = "read" => AskedOne(d)
        /\ Call(d).op = "write" => AskedBoth(d)
    BY DEF Asked
  <2>2. ASSUME NEW y \in DOMAIN req[d] PROVE Became(d, y)'
    <3>1. Became(d, y)
      BY <2>1
    <3> QED BY <1>2, <3>1 DEF Became
  <2>3. Call(d).op = "read" => AskedOne(d)'
    BY <1>1, <2>1 DEF AskedOne
  <2>4. ASSUME Call(d).op = "write" PROVE AskedBoth(d)'
    <3>1. AskedBoth(d) /\ Writing(d)
      BY <2>1, <2>4 DEF Writing, Doing
    <3>2. ASSUME NEW y \in DOMAIN req[d] PROVE Carries(d, y)'
      <4>1. Carries(d, y)
        BY <3>1 DEF AskedBoth
      <4>2. PICK e, data : e = Call(d) /\ data = req[d][y].data
        OBVIOUS
      <4>3. data \in Seq(Nat) /\ Len(data) = Count(e, y[1])
        BY <4>1, <4>2 DEF Carries
      <4>4. ASSUME NEW p \in BytesOf(e), p \div StripeSize = First(e) + y[1]
            PROVE  [call |-> e.val, val |-> data[(p % StripeSize) - From(e, y[1]) + 1], done |-> FALSE]
                      \in writes'[p]
        <5>1. PICK v : v = [call |-> e.val, val |-> data[(p % StripeSize) - From(e, y[1]) + 1], done |-> FALSE]
          OBVIOUS
        <5>2. v \in writes[p] /\ v.call = Call(d).val /\ ~v.done /\ p \in Bytes
          BY <1>3, <4>1, <4>2, <4>4, <5>1 DEF Carries
        <5> QED BY <3>1, <5>1, <5>2
      <4>5. Call(d)' = e /\ req'[d][y].data = data
        BY <1>1, <4>2
      <4> QED BY <4>3, <4>4, <4>5 DEF Carries
    <3> QED BY <1>1, <3>1, <3>2 DEF AskedBoth
  <2> QED BY <1>1, <2>1, <2>2, <2>3, <2>4 DEF Asked
<1>5. Sees(d)'
  <2> SUFFICES ASSUME Doing(d, "read") PROVE Sees(d)'
    BY <1>1 DEF Sees, Doing
  <2>1. ASSUME errors' = 0, NEW y \in DOMAIN req[d], req[d][y].st = "ok" PROVE Received(d, y)'
    <3>1. Received(d, y)
      BY <2>1 DEF Sees
    <3>2. ASSUME NEW p \in BytesOf(Call(d)), p \div StripeSize = First(Call(d)) + y[1]
          PROVE  ByteAt(req[d][y].data, p % StripeSize) \in seen'[d][p]
      <4>1. p \in Bytes
        BY <1>3 DEF Doing
      <4> QED BY <3>1, <3>2, <4>1 DEF Received
    <3> QED BY <1>1, <3>2 DEF Received
  <2> QED BY <2>1 DEF Sees
<1> QED BY <1>4, <1>5

LEMMA Died == ASSUME IOInv, NEW d \in DataServers, Die(d) PROVE IOInv'
<1>1. /\ file' = file /\ scenario' = scenario /\ script' = script /\ req' = req /\ writes' = writes
      /\ over' = over /\ seen' = seen /\ errors' = errors
  BY DEF Die, dataVars, history
<1>2. dead = {} /\ dead' = {d} /\ d \in Given.mortal
  BY DEF Die
<1>3. Files' /\ Scripts' /\ Fresh'
  BY <1>1 DEF IOInv, Files, Scripts, Fresh
<1>4. Faults'
  BY <1>1, <1>2 DEF IOInv, Faults, Given
<1>5. Kept'
  <2>1. \A c \in Clients : \A p \in Bytes : \A k \in {0, 1} : Replaced(c, p, k)' => Replaced(c, p, k)
    BY <1>1 DEF Replaced, Writing, Doing, InCall, Call
  <2>2. \A p \in Bytes : writes[p] \subseteq writes'[p]
    BY <1>1
  <2> QED BY <1>1, <1>2, <2>1, <2>2, Keeps DEF IOInv
<1>6. ASSUME NEW c \in Clients PROVE Asked(c)' /\ Sees(c)'
  <2>1. Doing(c, "read") => \A p \in Bytes : \A w \in writes[p] : w.val \in seen[c][p]
    BY DEF IOInv, Sees
  <2>2. Scripts /\ Asked(c) /\ Sees(c)
    BY DEF IOInv
  <2> QED BY <1>1, <1>2, <2>1, <2>2, Bystander
<1> QED BY <1>3, <1>4, <1>5, <1>6 DEF IOInv

-----------------------------------------------------------------------------
(* Retries, and the beginning of a call *)

LEMMA Least ==
    ASSUME NEW S, S \subseteq Nat, S # {}
    PROVE  \E n \in S : \A m \in S : n <= m
<1>1. \A x, y \in Nat : x < y => <<x, y>> \in OpToRel(<, Nat)
  BY DEF OpToRel
<1>2. ASSUME NEW R, IsWellFoundedOn(R, Nat), \A x, y \in Nat : x < y => <<x, y>> \in R
      PROVE  \E n \in S : \A m \in S : n <= m
  <2>1. PICK n \in S : \A m \in S : <<m, n>> \notin R
    <3>1. IsWellFoundedOn(R, Nat) /\ S \subseteq Nat /\ S # {}
      BY <1>2
    <3> QED BY <3>1, WFMin, ZenonT(60)
  <2>2. \A m \in S : ~(m < n)
    BY <1>2, <2>1
  <2> QED BY <2>2
<1> QED BY <1>1, <1>2, NatLessThanWellFounded, Zenon

\* Of the others, nothing but what they share with c has changed.
LEMMA OthersStay ==
    ASSUME Scripts, Others, NEW c \in Clients,
           \A d \in Clients : d # c => req'[d] = req[d] /\ script'[d] = script[d],
           UNCHANGED <<dead, errors>>,
           \A d \in Clients : d # c /\ Writing(d) => \A p \in Bytes : \A w \in writes[p] :
               w.call = Call(d).val /\ ~w.done => w \in writes'[p],
           \A d \in Clients : d # c /\ Doing(d, "read") => \A p \in Bytes :
               /\ seen[d][p] \subseteq seen'[d][p]
               /\ \A w \in writes'[p] : w.val \in seen'[d][p]
    PROVE  \A d \in Clients : d # c => Asked(d)' /\ Sees(d)'
<1> SUFFICES ASSUME NEW d \in Clients, d # c PROVE Asked(d)' /\ Sees(d)'
  OBVIOUS
<1>1. Asked(d) /\ Sees(d)
  BY DEF Others
<1> QED BY <1>1, Bystander

\* Quiet for the others: the record does not change.
LEMMA OthersQuiet ==
    ASSUME Scripts, Others, NEW c \in Clients,
           \A d \in Clients : d # c => req'[d] = req[d] /\ script'[d] = script[d] /\ seen'[d] = seen[d],
           UNCHANGED <<dead, errors, writes>>
    PROVE  \A d \in Clients : d # c => Asked(d)' /\ Sees(d)'
<1>1. \A d \in Clients : Doing(d, "read") => \A p \in Bytes : \A w \in writes[p] : w.val \in seen[d][p]
  BY DEF Others, Sees
<1> QED BY <1>1, OthersStay

LEMMA Degraded == ASSUME IOInv, NEW c \in Clients, Degrade(c) PROVE IOInv'
<1>1. /\ file' = file /\ scenario' = scenario /\ script' = script /\ dead' = dead /\ writes' = writes
      /\ over' = over /\ seen' = seen /\ errors' = errors
  BY DEF Degrade, dataVars, faults, history
<1>2. InCall(c) /\ Call(c).op # "write" /\ Failed(c) # {}
  BY DEF Degrade, Doing
<1>3. Files /\ Scripts /\ Faults /\ Fresh /\ Kept /\ Others /\ Asked(c) /\ Sees(c)
  BY DEF IOInv, Others
<1>4. /\ Call(c) \in Calls
      /\ \A x \in DOMAIN req[c] : x[1] \in Nat /\ x[2] \in {0, 1} /\ x = <<x[1], x[2]>>
  BY <1>2, <1>3, InHand
<1>5. PICK i : /\ i = CHOOSE n \in {x[1] : x \in Failed(c)} : \A x \in Failed(c) : n <= x[1]
               /\ req' = [req EXCEPT ![c] =
                     [x \in DOMAIN @ \cup {<<i, 1>>} |-> IF x = <<i, 1>> THEN Queued(<<>>) ELSE @[x]]]
  BY DEF Degrade
<1>6. i \in Nat /\ <<i, 0>> \in DOMAIN req[c] /\ req[c][<<i, 0>>].st = "failed"
      /\ <<i, 1>> \notin DOMAIN req[c]
  <2> DEFINE indices == {x[1] : x \in Failed(c)}
  <2>1. indices \subseteq Nat /\ indices # {}
    BY <1>2, <1>4 DEF Failed
  <2> HIDE DEF indices
  <2>2. \E n \in indices : \A m \in indices : n <= m
    BY <2>1, Least
  <2>3. \E n \in indices : \A x \in Failed(c) : n <= x[1]
    BY <2>2 DEF indices
  <2>4. i \in indices
    BY <1>5, <2>3 DEF indices
  <2>5. PICK x \in Failed(c) : i = x[1]
    BY <2>4 DEF indices
  <2>6. x \in DOMAIN req[c] /\ x[2] = 0 /\ req[c][x].st = "failed" /\ <<x[1], 1>> \notin DOMAIN req[c]
    BY <2>5 DEF Failed
  <2>7. x = <<i, 0>>
    BY <1>4, <2>5, <2>6
  <2> QED BY <1>4, <2>5, <2>6, <2>7
<1>7. DOMAIN req = Clients
  BY <1>3 DEF Scripts
<1>8. /\ DOMAIN req' = Clients /\ DOMAIN req'[c] = DOMAIN req[c] \cup {<<i, 1>>}
      /\ \A d \in Clients : d # c => req'[d] = req[d]
      /\ \A x \in DOMAIN req[c] : req'[c][x] = req[c][x]
      /\ req'[c][<<i, 1>>] = Queued(<<>>)
  BY <1>5, <1>6, <1>7
<1>9. req'[c][<<i, 1>>].st = "queued"
  BY <1>8 DEF Queued
<1>10. Files' /\ Scripts' /\ Faults' /\ Fresh'
  BY <1>1, <1>3, <1>8 DEF Files, Scripts, Faults, Given, Fresh
<1>11. Call(c)' = Call(c)
  BY <1>1 DEF Call
<1>12. Kept'
  <2>1. ASSUME NEW d \in Clients, NEW p \in Bytes, NEW k \in {0, 1}, Replaced(d, p, k)'
        PROVE  Replaced(d, p, k) /\ over'[d] = over[d]
    <3>1. d # c
      BY <1>2, <1>11, <2>1 DEF Replaced, Writing, Doing
    <3> QED BY <1>1, <1>8, <2>1, <3>1 DEF Replaced, Writing, Doing, InCall, Call
  <2>2. \A p \in Bytes : writes[p] \subseteq writes'[p]
    BY <1>1
  <2> QED BY <1>1, <1>3, <2>1, <2>2, Keeps
<1>13. \A d \in Clients : d # c => Asked(d)' /\ Sees(d)'
  BY <1>1, <1>3, <1>8, OthersQuiet
<1>14. Asked(c)'
  <2>1. ASSUME NEW y \in DOMAIN req'[c] PROVE Became(c, y)' /\ y \in Nat \X {0, 1}
    <3>1. CASE y = <<i, 1>>
      BY <1>6, <1>9, <3>1 DEF Became
    <3>2. CASE y \in DOMAIN req[c]
      <4>1. Became(c, y) /\ y \in Nat \X {0, 1}
        BY <1>2, <1>3, <3>2 DEF Asked
      <4>2. Handle(c, y[1], y[2])' = Handle(c, y[1], y[2])
        BY <1>11 DEF Handle
      <4> QED BY <1>1, <1>8, <3>2, <4>1, <4>2 DEF Became
    <3> QED BY <1>8, <3>1, <3>2
  <2>2. ASSUME Call(c).op = "read" PROVE AskedOne(c)'
    <3>1. AskedOne(c)
      BY <1>2, <1>3, <2>2 DEF Asked
    <3>2. \A j \in 0..Stripes(Call(c)) - 1 : <<j, 0>> \in DOMAIN req'[c]
      BY <1>8, <3>1 DEF AskedOne
    <3>3. ASSUME NEW y \in DOMAIN req'[c], y[2] = 1
          PROVE  <<y[1], 0>> \in DOMAIN req'[c] /\ req'[c][<<y[1], 0>>].st = "failed"
      <4>1. CASE y = <<i, 1>>
        <5>1. y[1] = i
          BY <4>1
        <5> QED BY <1>6, <1>8, <5>1
      <4>2. CASE y \in DOMAIN req[c]
        BY <1>8, <3>1, <3>3, <4>2 DEF AskedOne
      <4> QED BY <1>8, <4>1, <4>2
    <3> QED BY <1>11, <3>2, <3>3 DEF AskedOne
  <2>3. script'[c] # <<>>
    BY <1>1, <1>2, <1>3 DEF Asked
  <2> QED BY <1>2, <1>11, <2>1, <2>2, <2>3 DEF Asked
<1>15. Sees(c)'
  <2> SUFFICES ASSUME Call(c).op = "read" PROVE Sees(c)'
    BY <1>11 DEF Sees, Doing
  <2>1. Doing(c, "read")
    BY <1>2 DEF Doing
  <2>2. ASSUME errors' = 0, NEW y \in DOMAIN req'[c], req'[c][y].st = "ok" PROVE Received(c, y)'
    <3>1. y \in DOMAIN req[c]
      BY <1>8, <1>9, <2>2
    <3>2. Received(c, y) /\ req'[c][y] = req[c][y]
      BY <1>1, <1>3, <1>8, <2>1, <2>2, <3>1 DEF Sees
    <3> QED BY <1>1, <1>11, <3>2 DEF Received
  <2> QED BY <1>1, <1>3, <2>1, <2>2 DEF Sees
<1> QED BY <1>10, <1>12, <1>13, <1>14, <1>15 DEF IOInv

LEMMA Begun ==
    ASSUME IOInv, NEW c \in Clients, NEW requests \in Nat, script[c] # <<>>,
           Call(c).op \in {"read", "size"}, Call(c).op = "read" => requests = Stripes(Call(c)),
           Begin(c, requests)
    PROVE  IOInv'
<1>1. /\ file' = file /\ scenario' = scenario /\ script' = script /\ dead' = dead /\ writes' = writes
      /\ over' = over /\ errors' = errors
  BY DEF Begin, NoteReading, dataVars, faults
<1>2. /\ seen' = [seen EXCEPT ![c] = [p \in Bytes |-> {w.val : w \in writes[p]}]]
      /\ req' = [req EXCEPT ![c] = [x \in (0..requests - 1) \X {0} |-> Queued(<<>>)]]
  BY DEF Begin, NoteReading
<1>3. Files /\ Scripts /\ Faults /\ Fresh /\ Kept /\ Others
  BY DEF IOInv, Others
<1>4. DOMAIN req = Clients /\ DOMAIN seen = Clients
  BY <1>3 DEF Scripts
<1>5. /\ DOMAIN req' = Clients /\ DOMAIN req'[c] = (0..requests - 1) \X {0}
      /\ \A x \in (0..requests - 1) \X {0} : req'[c][x] = Queued(<<>>)
      /\ \A d \in Clients : d # c => req'[d] = req[d]
  BY <1>2, <1>4
<1>6. /\ DOMAIN seen' = Clients /\ seen'[c] = [p \in Bytes |-> {w.val : w \in writes[p]}]
      /\ \A d \in Clients : d # c => seen'[d] = seen[d]
  BY <1>2, <1>4
<1>7. ASSUME NEW x \in DOMAIN req'[c]
      PROVE  req'[c][x].st = "queued" /\ x \in Nat \X {0, 1} /\ x[2] = 0
  BY <1>5 DEF Queued
<1>8. Call(c)' = Call(c)
  BY <1>1 DEF Call
<1>9. Files' /\ Faults' /\ Fresh'
  BY <1>1, <1>3 DEF Files, Faults, Given, Fresh
<1>10. Scripts'
  <2>1. \A d \in Clients : DOMAIN seen'[d] = Bytes
    BY <1>3, <1>6 DEF Scripts
  <2> QED BY <1>1, <1>3, <1>5, <1>6, <2>1 DEF Scripts
<1>11. Kept'
  <2>1. ASSUME NEW d \in Clients, NEW p \in Bytes, NEW k \in {0, 1}, Replaced(d, p, k)'
        PROVE  Replaced(d, p, k) /\ over'[d] = over[d]
    <3>1. d # c
      BY <1>8, <2>1 DEF Replaced, Writing, Doing
    <3> QED BY <1>1, <1>5, <2>1, <3>1 DEF Replaced, Writing, Doing, InCall, Call
  <2>2. \A p \in Bytes : writes[p] \subseteq writes'[p]
    BY <1>1
  <2> QED BY <1>1, <1>3, <2>1, <2>2, Keeps
<1>12. \A d \in Clients : d # c => Asked(d)' /\ Sees(d)'
  BY <1>1, <1>3, <1>5, <1>6, OthersQuiet
<1>13. Asked(c)'
  <2>1. \A x \in DOMAIN req'[c] : Became(c, x)'
    BY <1>7 DEF Became
  <2>2. ASSUME Call(c).op = "read" PROVE AskedOne(c)'
    <3>1. \A i \in 0..requests - 1 : <<i, 0>> \in DOMAIN req'[c]
      BY <1>5
    <3> QED BY <1>7, <1>8, <2>2, <3>1 DEF AskedOne
  <2> QED BY <1>1, <1>7, <1>8, <2>1, <2>2 DEF Asked
<1>14. Sees(c)'
  BY <1>1, <1>6, <1>7 DEF Sees
<1> QED BY <1>9, <1>10, <1>11, <1>12, <1>13, <1>14 DEF IOInv

LEMMA ReadBegun == ASSUME IOInv, NEW c \in Clients, BeginRead(c) PROVE IOInv'
<1>1. script[c] # <<>> /\ Call(c).op = "read" /\ Begin(c, Stripes(Call(c)))
  BY DEF BeginRead
<1>2. Scripts
  BY DEF IOInv
<1>3. Stripes(Call(c)) \in Nat
  <2>1. Accesses(Call(c))
    BY <1>1, <1>2, Current, Legal
  <2> QED BY <2>1, Ends
<1>4. PICK n : n = Stripes(Call(c))
  OBVIOUS
<1> QED BY <1>1, <1>3, <1>4, Begun

LEMMA SizeBegun == ASSUME IOInv, NEW c \in Clients, BeginSize(c) PROVE IOInv'
<1>1. script[c] # <<>> /\ Call(c).op = "size" /\ Begin(c, StripeCnt)
  BY DEF BeginSize
<1>2. StripeCnt \in Nat
  BY Sizes
<1> QED BY <1>1, <1>2, Begun

LEMMA WriteBegun == ASSUME IOInv, NEW c \in Clients, BeginWrite(c) PROVE IOInv'
<1>1. /\ file' = file /\ scenario' = scenario /\ script' = script /\ dead' = dead
      /\ errors' = errors
  BY DEF BeginWrite, dataVars, faults
<1>2. script[c] # <<>> /\ Call(c).op = "write" /\ ~InCall(c)
  BY DEF BeginWrite
<1>3. Files /\ Scripts /\ Faults /\ Fresh /\ Kept /\ Others
  BY DEF IOInv, Others
<1> DEFINE e == Call(c)
<1>4. e = Call(c)
  OBVIOUS
<1>0. PICK zeros :
         /\ req' = [req EXCEPT ![c] =
               [x \in (0..Stripes(e) - 1) \X {0, 1} |->
                   Queued([j \in 1..Count(e, x[1]) |-> IF x[1] \in zeros THEN 0 ELSE e.val])]]
         /\ NoteWrite(c, zeros)
  BY DEF BeginWrite
<1>5. /\ req' = [req EXCEPT ![c] =
            [x \in (0..Stripes(e) - 1) \X {0, 1} |->
                Queued([j \in 1..Count(e, x[1]) |-> IF x[1] \in zeros THEN 0 ELSE e.val])]]
      /\ writes' = [p \in Bytes |-> IF p \in BytesOf(e) THEN writes[p] \cup {Entry(e, zeros, p)}
                                    ELSE writes[p]]
      /\ over' = [over EXCEPT ![c] = [p \in Bytes |->
            IF p \in BytesOf(e) THEN {w \in writes[p] : w.done} ELSE {}]]
      /\ seen' = [d \in Clients |->
            IF Doing(d, "read")
            THEN [p \in Bytes |-> IF p \in BytesOf(e) THEN seen[d][p] \cup {Put(e, zeros, p)}
                                  ELSE seen[d][p]]
            ELSE seen[d]]
  BY <1>0 DEF NoteWrite
<1> HIDE DEF e
<1>6. e \in Calls /\ 1 \in DOMAIN script[c] /\ e = script[c][1]
  BY <1>2, <1>3, <1>4, Current
<1>7. Accesses(e) /\ e.op = "write" /\ e.val \in Nat \ {0}
  BY <1>2, <1>4, <1>6, Legal
<1>8. Stripes(e) \in Nat \ {0} /\ First(e) \in Nat
  BY <1>7, Ends
<1>9. DOMAIN req = Clients /\ DOMAIN over = Clients
  BY <1>3 DEF Scripts
<1>10. /\ DOMAIN req' = Clients /\ DOMAIN req'[c] = (0..Stripes(e) - 1) \X {0, 1}
       /\ \A d \in Clients : d # c => req'[d] = req[d]
       /\ \A x \in (0..Stripes(e) - 1) \X {0, 1} :
             req'[c][x] = Queued([j \in 1..Count(e, x[1]) |-> IF x[1] \in zeros THEN 0 ELSE e.val])
  <2> DEFINE data(x) == Queued([j \in 1..Count(e, x[1]) |-> IF x[1] \in zeros THEN 0 ELSE e.val])
  <2>1. req' = [req EXCEPT ![c] = [x \in (0..Stripes(e) - 1) \X {0, 1} |-> data(x)]]
    BY <1>5
  <2> HIDE DEF data
  <2>2. /\ DOMAIN req' = Clients /\ DOMAIN req'[c] = (0..Stripes(e) - 1) \X {0, 1}
        /\ \A d \in Clients : d # c => req'[d] = req[d]
        /\ \A x \in (0..Stripes(e) - 1) \X {0, 1} : req'[c][x] = data(x)
    BY <1>9, <2>1
  <2> QED BY <2>2 DEF data
<1>11. ASSUME NEW x \in DOMAIN req'[c]
       PROVE  /\ req'[c][x].st = "queued" /\ x \in Nat \X {0, 1} /\ x[1] \in 0..Stripes(e) - 1
              /\ req'[c][x].data = [j \in 1..Count(e, x[1]) |-> IF x[1] \in zeros THEN 0 ELSE e.val]
  <2>1. PICK data : data = [j \in 1..Count(e, x[1]) |-> IF x[1] \in zeros THEN 0 ELSE e.val]
    OBVIOUS
  <2>2. x \in (0..Stripes(e) - 1) \X {0, 1} /\ req'[c][x] = Queued(data)
    BY <1>10, <2>1
  <2>3. x \in Nat \X {0, 1} /\ x[1] \in 0..Stripes(e) - 1
    BY <1>8, <2>2
  <2>4. req'[c][x].st = "queued" /\ req'[c][x].data = data
    BY <2>2 DEF Queued
  <2> QED BY <2>1, <2>3, <2>4
<1>12. /\ DOMAIN over' = Clients /\ DOMAIN over'[c] = Bytes
       /\ \A d \in Clients : d # c => over'[d] = over[d]
       /\ \A p \in Bytes : over'[c][p] \subseteq {w \in writes[p] : w.done}
  BY <1>5, <1>9
<1>13. ASSUME NEW p \in Bytes
       PROVE  writes'[p] = IF p \in BytesOf(e) THEN writes[p] \cup {Entry(e, zeros, p)} ELSE writes[p]
  BY <1>5
<1>14. \A p : Entry(e, zeros, p) \in Vals /\ Entry(e, zeros, p).call = e.val /\ ~Entry(e, zeros, p).done
              /\ Entry(e, zeros, p).val = Put(e, zeros, p)
  BY <1>7 DEF Entry, Put, Vals
<1>15. Call(c)' = e
  BY <1>1, <1>4 DEF Call
<1>16. Files' /\ Faults'
  BY <1>1, <1>3 DEF Files, Faults, Given
<1>17. Scripts'
  <2>1. ASSUME NEW d \in Clients PROVE DOMAIN over'[d] = Bytes /\ DOMAIN seen'[d] = Bytes
    <3>1. DOMAIN over[d] = Bytes /\ DOMAIN seen[d] = Bytes
      BY <1>3 DEF Scripts
    <3>2. DOMAIN over'[d] = Bytes
      BY <1>12, <3>1
    <3>3. DOMAIN seen'[d] = Bytes
      <4>1. CASE Doing(d, "read")
        BY <1>5, <4>1
      <4>2. CASE ~Doing(d, "read")
        BY <1>5, <3>1, <4>2
      <4> QED BY <4>1, <4>2
    <3> QED BY <3>2, <3>3
  <2>2. DOMAIN writes' = Bytes /\ DOMAIN seen' = Clients
    BY <1>5
  <2> QED BY <1>1, <1>3, <1>10, <1>12, <2>1, <2>2 DEF Scripts
<1>18. Fresh'
  <2>1. ASSUME NEW p \in Bytes PROVE writes'[p] \subseteq Vals
    <3>1. PICK v : v = Entry(e, zeros, p)
      OBVIOUS
    <3>2. v \in Vals /\ writes'[p] = IF p \in BytesOf(e) THEN writes[p] \cup {v} ELSE writes[p]
      BY <1>13, <1>14, <3>1
    <3>3. writes[p] \subseteq Vals
      BY <1>3 DEF Fresh
    <3> QED BY <3>2, <3>3
  <2>2. ASSUME NEW d \in Clients, NEW n \in DOMAIN script[d], script[d][n].op = "write", NEW p \in Bytes
        PROVE  /\ \A w \in writes'[p] : w.call = script[d][n].val => ~w.done
               /\ \A f \in Clients : \A w \in over'[f][p] : w.call # script[d][n].val
    <3>1. /\ \A w \in writes[p] : w.call = script[d][n].val => ~w.done
          /\ \A f \in Clients : \A w \in over[f][p] : w.call # script[d][n].val
      BY <1>3, <2>2 DEF Fresh
    <3>2. \A w \in writes'[p] : w.call = script[d][n].val => ~w.done
      <4>1. PICK v : v = Entry(e, zeros, p)
        OBVIOUS
      <4>2. ~v.done /\ writes'[p] = IF p \in BytesOf(e) THEN writes[p] \cup {v} ELSE writes[p]
        BY <1>13, <1>14, <4>1
      <4> QED BY <3>1, <4>2
    <3>3. \A w \in over'[c][p] : w.call # script[d][n].val
      BY <1>12, <3>1
    <3> QED BY <1>12, <3>1, <3>2, <3>3
  <2> QED BY <1>1, <2>1, <2>2 DEF Fresh
<1>19. Kept'
  <2>1. ASSUME NEW d \in Clients, NEW p \in Bytes, NEW k \in {0, 1}, Replaced(d, p, k)'
        PROVE  Replaced(d, p, k) /\ over'[d] = over[d]
    <3>1. d # c
      <4> SUFFICES ASSUME d = c PROVE FALSE
        OBVIOUS
      <4>1. p \in BytesOf(e) /\ req'[c][<<(p \div StripeSize) - First(e), k>>].st = "ok"
        BY <1>15, <2>1 DEF Replaced
      <4>2. (p \div StripeSize) - First(e) \in 0..Stripes(e) - 1
        <5>1. e.op # "size"
          BY <1>7
        <5> QED BY <1>7, <4>1, <5>1, Part
      <4> QED BY <1>10, <1>11, <4>1, <4>2
    <3> QED BY <1>1, <1>10, <1>12, <2>1, <3>1 DEF Replaced, Writing, Doing, InCall, Call
  <2>2. \A p \in Bytes : writes[p] \subseteq writes'[p]
    BY <1>13
  <2> QED BY <1>1, <1>3, <2>1, <2>2, Keeps
<1>20. \A d \in Clients : d # c => Asked(d)' /\ Sees(d)'
  <2>1. \A d \in Clients : Writing(d) => \A p \in Bytes : \A w \in writes[p] : w \in writes'[p]
    BY <1>13
  <2>2. ASSUME NEW d \in Clients, Doing(d, "read"), NEW p \in Bytes
        PROVE  /\ seen[d][p] \subseteq seen'[d][p]
               /\ \A w \in writes'[p] : w.val \in seen'[d][p]
    <3>1. seen'[d][p] = IF p \in BytesOf(e) THEN seen[d][p] \cup {Put(e, zeros, p)} ELSE seen[d][p]
      BY <1>5, <2>2
    <3>2. \A w \in writes[p] : w.val \in seen[d][p]
      BY <1>3, <2>2 DEF Others, Sees
    <3> QED BY <1>13, <1>14, <3>1, <3>2
  <2> QED BY <1>1, <1>3, <1>10, <2>1, <2>2, OthersStay
<1>21. Asked(c)'
  <2>1. \A x \in DOMAIN req'[c] : Became(c, x)'
    BY <1>11 DEF Became
  <2>2. ASSUME NEW x \in DOMAIN req'[c] PROVE Carries(c, x)'
    <3>1. PICK i, data : i = x[1] /\ data = req'[c][x].data
      OBVIOUS
    <3>2. /\ i \in 0..Stripes(e) - 1
          /\ data = [j \in 1..Count(e, i) |-> IF i \in zeros THEN 0 ELSE e.val]
      BY <1>11, <3>1
    <3>3. From(e, i) \in Nat /\ Count(e, i) \in Nat
      BY <1>7, <3>2, Covers
    <3>4. data \in Seq(Nat) /\ Len(data) = Count(e, i)
      <4>1. ASSUME NEW n \in Nat, NEW v \in Nat, NEW s, s = [j \in 1..n |-> v] PROVE s \in Seq(Nat) /\ Len(s) = n
        BY <4>1
      <4>2. PICK v : v = IF i \in zeros THEN 0 ELSE e.val
        OBVIOUS
      <4>3. v \in Nat /\ data = [j \in 1..Count(e, i) |-> v]
        BY <1>7, <3>2, <4>2
      <4> QED BY <3>3, <4>1, <4>3
    <3>5. ASSUME NEW p \in BytesOf(e), p \div StripeSize = First(e) + i
          PROVE  [call |-> e.val, val |-> data[(p % StripeSize) - From(e, i) + 1], done |-> FALSE]
                    \in writes'[p]
      <4>1. e.op # "size"
        BY <1>7
      <4>2. /\ p \in Bytes /\ p \div StripeSize - First(e) = i /\ p % StripeSize \in Int
            /\ From(e, i) <= p % StripeSize /\ p % StripeSize < From(e, i) + Count(e, i)
        <5>1. PICK n : n = p \div StripeSize - First(e)
          OBVIOUS
        <5>2. /\ p \in Bytes /\ n \in 0..Stripes(e) - 1 /\ p \div StripeSize = First(e) + n
              /\ p % StripeSize \in 0..StripeSize - 1
              /\ From(e, n) <= p % StripeSize /\ p % StripeSize < From(e, n) + Count(e, n)
          BY <1>7, <4>1, <5>1, Part
        <5>3. n = i
          BY <1>8, <3>2, <3>5, <5>2
        <5> QED BY <5>1, <5>2, <5>3, Sizes
      <4>3. (p % StripeSize) - From(e, i) + 1 \in 1..Count(e, i)
        BY <3>3, <4>2
      <4>4. data[(p % StripeSize) - From(e, i) + 1] = Put(e, zeros, p)
        BY <3>2, <4>2, <4>3 DEF Put
      <4> QED BY <1>13, <4>2, <4>4 DEF Entry
    <3> QED BY <1>15, <3>1, <3>4, <3>5 DEF Carries
  <2> QED BY <1>1, <1>2, <1>7, <1>10, <1>11, <1>15, <2>1, <2>2 DEF Asked, AskedBoth
<1>22. Sees(c)'
  BY <1>7, <1>15 DEF Sees, Doing
<1> QED BY <1>16, <1>17, <1>18, <1>19, <1>20, <1>21, <1>22 DEF IOInv

-----------------------------------------------------------------------------
(* The end of a call *)

\* What has to be known of a record that changes when a call ends.
LEMMA Recorded ==
    ASSUME Scripts, Fresh, NEW c \in Clients, script[c] # <<>>, Call(c).op = "write",
           NoteWritten(c), NEW p \in Bytes
    PROVE  /\ \A w \in writes'[p] : \E v \in writes[p] :
                 /\ w.call = v.call /\ w.val = v.val /\ w \in Vals
                 /\ w.call # Call(c).val => w = v
           /\ p \notin BytesOf(Call(c)) => writes'[p] = writes[p]
           /\ \A v \in writes[p] : v \notin over[c][p] =>
                 /\ v.call # Call(c).val => v \in writes'[p]
                 /\ \E w \in writes'[p] : w.call = v.call /\ w.val = v.val
<1> DEFINE e == Call(c)
           mine == {w \in writes[p] : w.call = e.val}
           end(w) == [w EXCEPT !.done = TRUE]
<1>1. writes'[p] = IF p \in BytesOf(e) THEN (writes[p] \ (over[c][p] \cup mine)) \cup {end(w) : w \in mine}
                   ELSE writes[p]
  BY DEF NoteWritten
<1>2. writes[p] \subseteq Vals
  BY DEF Fresh
<1> HIDE DEF e, mine
<1>3. ASSUME NEW w \in Vals PROVE end(w) \in Vals /\ end(w).call = w.call /\ end(w).val = w.val
  BY DEF Vals
<1> HIDE DEF end
<1>4. mine = {w \in writes[p] : w.call = e.val} /\ e = Call(c)
  BY DEF mine, e
<1>5. ASSUME NEW w \in writes'[p]
      PROVE  \E v \in writes[p] : /\ w.call = v.call /\ w.val = v.val /\ w \in Vals
                                  /\ w.call # e.val => w = v
  <2>1. CASE w \in writes[p]
    BY <1>2, <2>1
  <2>2. CASE w \notin writes[p]
    <3>1. PICK v \in mine : w = end(v)
      BY <1>1, <2>2
    <3>2. v \in writes[p] /\ v.call = e.val /\ v \in Vals
      BY <1>2, <1>4
    <3> QED BY <1>3, <3>1, <3>2
  <2> QED BY <2>1, <2>2
<1>6. ASSUME NEW v \in mine, p \in BytesOf(e) PROVE \E w \in writes'[p] : w.call = v.call /\ w.val = v.val
  <2>1. v \in Vals
    BY <1>2, <1>4
  <2>2. end(v) \in writes'[p]
    BY <1>1, <1>6
  <2> QED BY <1>3, <2>1, <2>2
<1>7. ASSUME NEW v \in writes[p], v \notin over[c][p]
      PROVE  /\ v.call # e.val => v \in writes'[p]
             /\ \E w \in writes'[p] : w.call = v.call /\ w.val = v.val
  <2>1. v.call # e.val => v \in writes'[p]
    BY <1>1, <1>4, <1>7
  <2>2. v.call = e.val => v \in mine
    BY <1>4
  <2>3. p \notin BytesOf(e) => v \in writes'[p]
    BY <1>1
  <2> QED BY <1>6, <2>1, <2>2, <2>3
<1> QED BY <1>1, <1>4, <1>5, <1>6, <1>7

\* An answered call has its answers.
LEMMA AllAnswered ==
    ASSUME Scripts, NEW c \in Clients, Asked(c), Complete(c), errors = 0, NEW x \in DOMAIN req[c]
    PROVE  req[c][x].st = "ok" \/ (req[c][x].st = "failed" /\ Handle(c, x[1], x[2]).srv \in dead)
<1>1. InCall(c) /\ Outstanding(c) = {}
  BY DEF Complete
<1>2. req[c][x].st # "queued"
  BY <1>1 DEF Outstanding
<1>3. Became(c, x)
  BY <1>1 DEF Asked
<1> QED BY <1>2, <1>3 DEF Became

LEMMA Returned == ASSUME IOInv, NEW c \in Clients, Return(c) PROVE IOInv'
<1>1. /\ file' = file /\ scenario' = scenario /\ dead' = dead /\ errors' = errors
  BY DEF Return, dataVars, faults
<1>2. /\ Complete(c) /\ req' = [req EXCEPT ![c] = NoReq] /\ script' = [script EXCEPT ![c] = Tail(@)]
      /\ seen' = [seen EXCEPT ![c] = Empty]
  BY DEF Return
<1>3. Files /\ Scripts /\ Faults /\ Fresh /\ Kept /\ Others /\ Asked(c)
  BY DEF IOInv, Others
<1>4. /\ DOMAIN req = Clients /\ DOMAIN script = Clients /\ DOMAIN seen = Clients
      /\ DOMAIN over = Clients /\ DOMAIN writes = Bytes
  BY <1>3 DEF Scripts
<1>5. /\ DOMAIN req' = Clients /\ DOMAIN script' = Clients /\ DOMAIN seen' = Clients
      /\ req'[c] = NoReq /\ script'[c] = Tail(script[c]) /\ seen'[c] = Empty
      /\ \A d \in Clients : d # c => req'[d] = req[d] /\ script'[d] = script[d] /\ seen'[d] = seen[d]
  BY <1>2, <1>4
<1>6. InCall(c) /\ script[c] # <<>> /\ Call(c) \in Calls /\ 1 \in DOMAIN script[c] /\ Call(c) = script[c][1]
  <2>1. InCall(c) /\ script[c] # <<>>
    BY <1>2, <1>3 DEF Complete, Asked
  <2> QED BY <1>3, <2>1, Current
<1>7. ~InCall(c)'
  BY <1>5 DEF InCall
<1>8. PICK e : e = Call(c)
  OBVIOUS
<1>9. IF e.op = "write" THEN NoteWritten(c) ELSE writes' = writes /\ over' = over
  BY <1>6, <1>8 DEF Return, Writing, Doing
<1>10. /\ DOMAIN writes' = Bytes /\ DOMAIN over' = Clients
       /\ \A d \in Clients : d # c => over'[d] = over[d]
       /\ DOMAIN over'[c] = Bytes
       /\ \A p \in Bytes : over'[c][p] = {} \/ over'[c] = over[c]
  <2>1. CASE e.op = "write"
    <3>1. over' = [over EXCEPT ![c] = Empty] /\ DOMAIN writes' = Bytes
      BY <1>9, <2>1 DEF NoteWritten
    <3> QED BY <1>4, <3>1 DEF Empty
  <2>2. CASE e.op # "write"
    BY <1>3, <1>4, <1>9, <2>2 DEF Scripts
  <2> QED BY <2>1, <2>2
<1>11. /\ script'[c] \in Seq(Calls)
       /\ \A n \in DOMAIN script'[c] : n + 1 \in DOMAIN script[c] /\ n # 0 /\ n \in Nat
                                         /\ script'[c][n] = script[c][n + 1]
  <2>1. ASSUME NEW s \in Seq(Calls), s # <<>>
        PROVE  /\ Tail(s) \in Seq(Calls)
               /\ \A n \in DOMAIN Tail(s) : n + 1 \in DOMAIN s /\ n # 0 /\ n \in Nat /\ Tail(s)[n] = s[n + 1]
    BY <2>1
  <2>2. script[c] \in Seq(Calls)
    BY <1>3 DEF Scripts
  <2> QED BY <1>5, <1>6, <2>1, <2>2
\* Every write to come was there before.
<1>12. ASSUME NEW d \in Clients, NEW n \in DOMAIN script'[d]
       PROVE  \E m \in DOMAIN script[d] : /\ m = (IF d = c THEN n + 1 ELSE n)
                                          /\ script'[d][n] = script[d][m] /\ (d = c => m # 1)
  BY <1>5, <1>11
<1>13. Scripts'
  <2>1. \A d \in Clients : script'[d] \in Seq(Calls)
    BY <1>3, <1>5, <1>11 DEF Scripts
  <2>2. \A d \in Clients : DOMAIN over'[d] = Bytes /\ DOMAIN seen'[d] = Bytes
    BY <1>3, <1>5, <1>10 DEF Scripts, Empty
  <2>3. ASSUME NEW d \in Clients, NEW f \in Clients, NEW m \in DOMAIN script'[d], NEW n \in DOMAIN script'[f],
               script'[d][m].op = "write", script'[f][n].op = "write", script'[d][m].val = script'[f][n].val
        PROVE  d = f /\ m = n
    <3>1. PICK i \in DOMAIN script[d] : i = (IF d = c THEN m + 1 ELSE m) /\ script'[d][m] = script[d][i]
      BY <1>12
    <3>2. PICK j \in DOMAIN script[f] : j = (IF f = c THEN n + 1 ELSE n) /\ script'[f][n] = script[f][j]
      BY <1>12
    <3>3. d = f /\ i = j
      BY <1>3, <2>3, <3>1, <3>2 DEF Scripts
    <3>4. d = c => m \in Nat /\ n \in Nat
      BY <1>11, <3>3
    <3> QED BY <3>1, <3>2, <3>3, <3>4
  <2> QED BY <1>1, <1>3, <1>5, <1>10, <2>1, <2>2, <2>3 DEF Scripts
<1>14. Files' /\ Faults'
  BY <1>1, <1>3 DEF Files, Faults, Given
\* The writes to come are not the one that ends.
<1>15. ASSUME NEW d \in Clients, NEW m \in DOMAIN script[d], script[d][m].op = "write", e.op = "write",
              d # c \/ m # 1
       PROVE  script[d][m].val # e.val
  BY <1>3, <1>6, <1>8, <1>15 DEF Scripts
<1>16. ASSUME e.op = "write", NEW p \in Bytes
       PROVE  /\ \A w \in writes'[p] : \E v \in writes[p] :
                    /\ w.call = v.call /\ w.val = v.val /\ w \in Vals
                    /\ w.call # e.val => w = v
              /\ p \notin BytesOf(e) => writes'[p] = writes[p]
              /\ \A v \in writes[p] : v \notin over[c][p] =>
                    /\ v.call # e.val => v \in writes'[p]
                    /\ \E w \in writes'[p] : w.call = v.call /\ w.val = v.val
  BY <1>3, <1>6, <1>8, <1>9, <1>16, Recorded
<1>17. Fresh'
  <2>1. ASSUME NEW p \in Bytes PROVE writes'[p] \subseteq Vals
    BY <1>3, <1>9, <1>16 DEF Fresh
  <2>2. ASSUME NEW d \in Clients, NEW n \in DOMAIN script'[d], script'[d][n].op = "write", NEW p \in Bytes
        PROVE  /\ \A w \in writes'[p] : w.call = script'[d][n].val => ~w.done
               /\ \A f \in Clients : \A w \in over'[f][p] : w.call # script'[d][n].val
    <3>1. PICK m \in DOMAIN script[d] : script'[d][n] = script[d][m] /\ (d = c => m # 1)
      BY <1>12
    <3>2. /\ \A w \in writes[p] : w.call = script[d][m].val => ~w.done
          /\ \A f \in Clients : \A w \in over[f][p] : w.call # script[d][m].val
      BY <1>3, <2>2, <3>1 DEF Fresh
    <3>3. ASSUME NEW w \in writes'[p], w.call = script[d][m].val PROVE ~w.done
      <4>1. CASE e.op = "write"
        <5>1. w.call # e.val
          BY <1>15, <2>2, <3>1, <3>3, <4>1
        <5>2. w \in writes[p]
          BY <1>16, <4>1, <5>1
        <5> QED BY <3>2, <3>3, <5>2
      <4>2. CASE e.op # "write"
        BY <1>9, <3>2, <3>3, <4>2
      <4> QED BY <4>1, <4>2
    <3>4. \A f \in Clients : \A w \in over'[f][p] : w.call # script[d][m].val
      BY <1>10, <3>2
    <3> QED BY <3>1, <3>3, <3>4
  <2> QED BY <2>1, <2>2 DEF Fresh
<1>18. \A d \in Clients : d # c => Asked(d)' /\ Sees(d)'
  <2>1. ASSUME NEW d \in Clients, d # c, Writing(d), NEW p \in Bytes, NEW w \in writes[p],
               w.call = Call(d).val, ~w.done
        PROVE  w \in writes'[p]
    <3>1. CASE e.op = "write"
      <4>1. script[d] # <<>> /\ Call(d).op = "write"
        BY <1>3, <2>1 DEF Others, Asked, Writing, Doing
      <4>2. 1 \in DOMAIN script[d] /\ Call(d) = script[d][1]
        BY <1>3, <4>1, Current
      <4>3. w \notin over[c][p]
        BY <1>3, <2>1, <4>1, <4>2 DEF Fresh
      <4>4. w.call # e.val
        BY <1>15, <2>1, <3>1, <4>1, <4>2
      <4> QED BY <1>16, <3>1, <4>3, <4>4
    <3>2. CASE e.op # "write"
      BY <1>9, <3>2
    <3> QED BY <3>1, <3>2
  <2>2. ASSUME NEW d \in Clients, d # c, Doing(d, "read"), NEW p \in Bytes
        PROVE  /\ seen[d][p] \subseteq seen'[d][p]
               /\ \A w \in writes'[p] : w.val \in seen'[d][p]
    <3>1. \A w \in writes[p] : w.val \in seen[d][p]
      BY <1>3, <2>2 DEF Others, Sees
    <3>2. ASSUME NEW w \in writes'[p] PROVE \E v \in writes[p] : w.val = v.val
      BY <1>9, <1>16
    <3> QED BY <1>5, <2>2, <3>1, <3>2
  <2> QED BY <1>1, <1>3, <1>5, <2>1, <2>2, OthersStay
<1>19. ASSUME NEW d \in Clients, NEW p \in Bytes, NEW k \in {0, 1}, Replaced(d, p, k)'
       PROVE  d # c /\ Replaced(d, p, k) /\ over'[d] = over[d]
  <2>1. d # c
    BY <1>7, <1>19 DEF Replaced, Writing, Doing
  <2> QED BY <1>5, <1>10, <1>19, <2>1 DEF Replaced, Writing, Doing, InCall, Call
<1>20. Kept'
  <2>1. CASE e.op # "write"
    <3>1. \A p \in Bytes : writes[p] \subseteq writes'[p]
      BY <1>9, <2>1
    <3> QED BY <1>1, <1>3, <1>19, <3>1, Keeps
  <2>2. CASE e.op = "write"
    <3> SUFFICES ASSUME errors = 0, NEW p \in Bytes, NEW k \in {0, 1},
                        Home(p \div StripeSize, k).srv \notin dead
                 PROVE  Holds(p, k)'
      BY <1>1 DEF Kept
    <3>1. PICK v \in writes[p] : /\ v.val = Stored(p, k)
                                 /\ \A d \in Clients : Replaced(d, p, k) => v \notin over[d][p]
      BY <1>3 DEF Kept, Holds
    <3>2. Stored(p, k)' = Stored(p, k)
      BY <1>1 DEF Stored
    <3>3. p \notin BytesOf(e) => writes'[p] = writes[p]
      BY <1>16, <2>2
    <3>4. ASSUME p \in BytesOf(e) PROVE v \notin over[c][p]
      <4> DEFINE i == (p \div StripeSize) - First(e)
      <4>1. Writing(c)
        BY <1>6, <1>8, <2>2 DEF Writing, Doing
      <4>2. i \in 0..Stripes(e) - 1 /\ <<i, k>> \in DOMAIN req[c]
        BY <1>3, <1>8, <3>4, <4>1, PartAsked
      <4>3. Handle(c, i, k) = Home(p \div StripeSize, k)
        <5>1. First(e) \in Nat
          <6>1. Accesses(e)
            BY <1>6, <1>8, <2>2, Legal
          <6> QED BY <6>1, Ends
        <5>2. p \in Nat /\ p \div StripeSize \in Int
          <6>1. p \in Nat
            BY Sizes DEF Bytes
          <6> QED BY <6>1, Byte
        <5>3. i \in Nat /\ First(e) + i = p \div StripeSize
          BY <4>2, <5>1, <5>2
        <5> HIDE DEF i
        <5> QED BY <1>6, <1>8, <2>2, <5>3, HandleIsHome
      <4> HIDE DEF i
      <4>4. req[c][<<i, k>>].st = "ok"
        <5>1. PICK x : x = <<i, k>>
          OBVIOUS
        <5>2. x[1] = i /\ x[2] = k
          BY <5>1
        <5>3. req[c][x].st = "ok" \/ Handle(c, x[1], x[2]).srv \in dead
          BY <1>2, <1>3, <4>2, <5>1, AllAnswered
        <5> QED BY <4>3, <5>1, <5>2, <5>3
      <4>5. Replaced(c, p, k)
        BY <1>8, <3>4, <4>1, <4>4 DEF Replaced, i
      <4> QED BY <3>1, <4>5
    <3>5. PICK w \in writes'[p] : w.call = v.call /\ w.val = v.val /\ (v.call # e.val => w = v)
      <4>1. CASE p \notin BytesOf(e)
        BY <3>3, <4>1
      <4>2. CASE p \in BytesOf(e)
        <5>1. /\ v.call # e.val => v \in writes'[p]
              /\ \E w \in writes'[p] : w.call = v.call /\ w.val = v.val
          BY <1>16, <2>2, <3>4, <4>2
        <5> QED BY <5>1
      <4> QED BY <4>1, <4>2
    <3>6. ASSUME NEW d \in Clients, Replaced(d, p, k)' PROVE w \notin over'[d][p]
      <4>1. d # c /\ Replaced(d, p, k) /\ over'[d] = over[d]
        BY <1>19, <3>6
      <4>2. CASE w.call = e.val
        <5>1. \A u \in over[d][p] : u.call # script[c][1].val
          BY <1>3, <1>6, <1>8, <2>2 DEF Fresh
        <5> QED BY <1>6, <1>8, <4>1, <4>2, <5>1
      <4>3. CASE w.call # e.val
        BY <3>1, <3>5, <4>1, <4>3
      <4> QED BY <4>2, <4>3
    <3> QED BY <3>1, <3>2, <3>5, <3>6 DEF Holds
  <2> QED BY <2>1, <2>2
<1>21. Asked(c)' /\ Sees(c)'
  BY <1>7 DEF Asked, Sees, Doing
<1> QED BY <1>13, <1>14, <1>17, <1>18, <1>20, <1>21 DEF IOInv

-----------------------------------------------------------------------------
(* The theorems *)

LEMMA Stepped == IOInv /\ [Next]_vars => IOInv'
<1> SUFFICES ASSUME IOInv, [Next]_vars PROVE IOInv'
  OBVIOUS
<1>1. ASSUME NEW c \in Clients, BeginRead(c) PROVE IOInv'
  BY <1>1, ReadBegun
<1>2. ASSUME NEW c \in Clients, BeginSize(c) PROVE IOInv'
  BY <1>2, SizeBegun
<1>3. ASSUME NEW c \in Clients, BeginWrite(c) PROVE IOInv'
  BY <1>3, WriteBegun
<1>4. ASSUME NEW c \in Clients, Step(c) PROVE IOInv'
  BY <1>4, Degraded, Returned, ReadServed, SizeServed, WriteServed, SendFailed, Refused DEF Step
<1>5. ASSUME NEW d \in DataServers, Die(d) PROVE IOInv'
  BY <1>5, Died
<1>6. CASE UNCHANGED vars
  <2>1. /\ file' = file /\ scenario' = scenario /\ script' = script /\ req' = req /\ dead' = dead
        /\ errors' = errors /\ writes' = writes /\ over' = over /\ seen' = seen
    BY <1>6 DEF vars, dataVars, history
  <2>2. Files' /\ Scripts' /\ Faults' /\ Fresh'
    BY <2>1 DEF IOInv, Files, Scripts, Faults, Given, Fresh
  <2>3. Kept'
    <3>1. \A c \in Clients : \A p \in Bytes : \A k \in {0, 1} : Replaced(c, p, k)' => Replaced(c, p, k)
      BY <2>1 DEF Replaced, Writing, Doing, InCall, Call
    <3>2. \A p \in Bytes : writes[p] \subseteq writes'[p]
      BY <2>1
    <3> QED BY <2>1, <3>1, <3>2, Keeps DEF IOInv
  <2>4. ASSUME NEW c \in Clients PROVE Asked(c)' /\ Sees(c)'
    <3>1. Doing(c, "read") => \A p \in Bytes : \A w \in writes[p] : w.val \in seen[c][p]
      BY DEF IOInv, Sees
    <3>2. Scripts /\ Asked(c) /\ Sees(c)
      BY DEF IOInv
    <3> QED BY <2>1, <3>1, <3>2, Bystander
  <2> QED BY <2>2, <2>3, <2>4 DEF IOInv
<1> QED BY <1>1, <1>2, <1>3, <1>4, <1>5, <1>6 DEF Next

\* At any moment, of a file that any clients write, each copy that is there
\* holds of every byte a write that no returned one replaced, and what a reader
\* has received is what it may see: as long as no system call of a server and no
\* send to a living one has failed.
THEOREM IOInvariant == Spec => []IOInv
<1>1. Init => IOInv
  BY InitHolds
<1>2. IOInv /\ [Next]_vars => IOInv'
  BY Stepped
<1> QED BY <1>1, <1>2, PTL DEF Spec

\* hfs_read, hfs_write, hfs_getISize: a client has requests only during a call,
\* every answer is one of the four, and no extent grows beyond its share of the
\* file, whatever the offsets and sizes of the calls.
THEOREM IOTyped == Spec => []TypeOK
<1>1. IOInv => TypeOK
  BY DEF IOInv, TypeOK, Asked, AskedOne, Became, Files, Faults, InCall, NoReq, Scripts
<1> QED BY <1>1, IOInvariant, PTL

\* hfs_write: a completed write is on every copy whose server is there, for
\* any overlapping of the writes of any clients, if no system call of a server and
\* no send to a living one failed.
THEOREM WritesStored == Spec => []CompletedWritesStored
<1>1. IOInv => CompletedWritesStored
  <2> SUFFICES ASSUME IOInv, errors = 0, NEW p \in Bytes, NEW w \in writes[p], writes[p] = {w},
                      NEW k \in 0..1,
                      Layout[1 + Extent(p \div StripeSize) + k * StripeCnt].srv \notin dead
               PROVE  Stored(p, k) = w.val
    BY DEF CompletedWritesStored
  <2>1. k \in {0, 1}
    OBVIOUS
  <2>2. Holds(p, k)
    BY <2>1 DEF IOInv, Kept, Home
  <2> QED BY <2>2 DEF Holds
<1> QED BY <1>1, IOInvariant, PTL

\* hfs_read: every byte a read returns is explained by a write that had not
\* been replaced when the read began, or that was made meanwhile, also when the
\* read had to turn to the second copy because a server is gone, if no system call
\* of a server and no send to a living one failed.
THEOREM ReadsAreExplained == Spec => []ReadsExplained
<1>1. IOInv => ReadsExplained
  <2> SUFFICES ASSUME IOInv, errors = 0, NEW c \in Clients, Doing(c, "read"), Complete(c),
                      NEW p \in BytesOf(Call(c))
               PROVE  Got(c, p) \in seen[c][p]
    BY DEF ReadsExplained
  <2>1. Scripts /\ Faults /\ Asked(c) /\ Sees(c) /\ InCall(c) /\ Call(c).op = "read"
    BY DEF IOInv, Doing
  <2>2. PICK e : e = Call(c)
    OBVIOUS
  <2>3. PICK i : i = p \div StripeSize - First(e)
    OBVIOUS
  <2>4. e \in Calls /\ e.op # "size" /\ Accesses(e)
    BY <2>1, <2>2, InHand, Legal
  <2>5. /\ i \in 0..Stripes(e) - 1 /\ p \div StripeSize = First(e) + i
        /\ p % StripeSize \in 0..StripeSize - 1 /\ p % StripeSize < From(e, i) + Count(e, i)
    BY <2>2, <2>3, <2>4, Part
  <2>6. AskedOne(c)
    BY <2>1 DEF Asked
  <2>7. First(e) + i \in Nat /\ \A k \in {0, 1} : Handle(c, i, k) = Home(First(e) + i, k)
    <3>1. i \in Nat
      BY <2>5
    <3> QED BY <2>1, <2>2, <2>4, <3>1, HandleIsHome
  <2>8. <<i, 0>> \in DOMAIN req[c]
    BY <2>2, <2>5, <2>6 DEF AskedOne
  <2>9. Failed(c) = {}
    BY <2>1 DEF Complete
  <2>10. ASSUME NEW k \in {0, 1}, <<i, k>> \in DOMAIN req[c]
         PROVE  req[c][<<i, k>>].st = "ok"
                  \/ (req[c][<<i, k>>].st = "failed" /\ Home(First(e) + i, k).srv \in dead)
    <3>1. PICK x : x = <<i, k>>
      OBVIOUS
    <3>2. x[1] = i /\ x[2] = k
      BY <3>1
    <3>3. req[c][x].st = "ok" \/ (req[c][x].st = "failed" /\ Handle(c, x[1], x[2]).srv \in dead)
      BY <2>1, <2>10, <3>1, AllAnswered
    <3> QED BY <2>7, <3>1, <3>2, <3>3
  <2>11. PICK k \in {0, 1} : k = IF <<i, 1>> \in DOMAIN req[c] THEN 1 ELSE 0
    OBVIOUS
  <2>12. <<i, k>> \in DOMAIN req[c] /\ Answering(c, i) = req[c][<<i, k>>]
    BY <2>8, <2>11 DEF Answering
  <2>13. req[c][<<i, k>>].st = "ok"
    <3>1. CASE <<i, 1>> \in DOMAIN req[c]
      <4>1. req[c][<<i, 0>>].st = "failed"
        <5>1. PICK x : x = <<i, 1>>
          OBVIOUS
        <5>2. x[1] = i /\ x[2] = 1
          BY <5>1
        <5>3. x \in DOMAIN req[c]
          BY <3>1, <5>1
        <5>4. req[c][<<x[1], 0>>].st = "failed"
          BY <2>6, <5>2, <5>3 DEF AskedOne
        <5> QED BY <5>2, <5>4
      <4>2. Home(First(e) + i, 0).srv \in dead
        BY <2>8, <2>10, <4>1
      <4>3. Home(First(e) + i, 1).srv \notin dead
        <5>1. Home(First(e) + i, 0).srv # Home(First(e) + i, 1).srv
          BY <2>7, CopiesApart
        <5> QED BY <2>1, <4>2, <5>1 DEF Faults
      <4> QED BY <2>10, <2>11, <3>1, <4>3
    <3>2. CASE <<i, 1>> \notin DOMAIN req[c]
      <4>1. PICK x : x = <<i, 0>>
        OBVIOUS
      <4>2. x[1] = i /\ x[2] = 0 /\ x \in DOMAIN req[c]
        BY <2>8, <4>1
      <4>3. req[c][x].st # "failed"
        BY <2>9, <3>2, <4>2 DEF Failed
      <4> QED BY <2>8, <2>10, <2>11, <3>2, <4>1, <4>3
    <3> QED BY <3>1, <3>2
  <2>14. Got(c, p) = ByteAt(req[c][<<i, k>>].data, p % StripeSize)
    <3>1. PICK r : r = req[c][<<i, k>>]
      OBVIOUS
    <3>2. Answering(c, p \div StripeSize - First(Call(c))) = r
      BY <2>2, <2>3, <2>12, <3>1
    <3>3. r.st = "ok"
      BY <2>13, <3>1
    <3>4. ~(p % StripeSize >= From(Call(c), p \div StripeSize - First(Call(c)))
                                + Count(Call(c), p \div StripeSize - First(Call(c))))
      <4>1. From(e, i) \in Nat /\ Count(e, i) \in Nat /\ StripeSize \in Nat
        BY <2>4, <2>5, Covers, Sizes
      <4>2. ~(p % StripeSize >= From(e, i) + Count(e, i))
        BY <2>5, <4>1
      <4> QED BY <2>2, <2>3, <4>2
    <3> QED BY <3>1, <3>2, <3>3, <3>4 DEF Got, ByteAt
  <2>15. Received(c, <<i, k>>)
    BY <2>1, <2>12, <2>13 DEF Sees
  <2>16. ByteAt(req[c][<<i, k>>].data, p % StripeSize) \in seen[c][p]
    <3>1. PICK x : x = <<i, k>>
      OBVIOUS
    <3>2. x[1] = i /\ Received(c, x)
      BY <2>15, <3>1
    <3> QED BY <2>2, <2>5, <3>1, <3>2 DEF Received
  <2> QED BY <2>14, <2>16
<1> QED BY <1>1, IOInvariant, PTL

-----------------------------------------------------------------------------
(* hfs_getISize: the sum over the extents *)

Extents == 0..StripeCnt - 1
Amount(c, i) == IF Answering(c, i).st = "ok" THEN Answering(c, i).data[1] ELSE 0
Summed(f, c) == f = [s \in SUBSET Extents |->
                        IF s = {} THEN 0
                        ELSE Amount(c, CHOOSE i \in s : TRUE) + f[s \ {CHOOSE i \in s : TRUE}]]
\* Of the first n bytes of the file, those of some extents.
Among(n, s) == {p \in 0..n - 1 : Extent(p \div StripeSize) \in s}

LEMMA Folded == ASSUME NEW c PROVE Size(c) = (CHOOSE f : Summed(f, c))[Extents]
  BY DEF Size, MapThenSumSet, MapThenFoldSet, Amount, Summed, Extents

LEMMA AmongApart ==
    ASSUME NEW n \in Nat, NEW s, NEW i \in s
    PROVE  /\ IsFiniteSet(Among(n, s)) /\ Cardinality(Among(n, s)) \in Nat
           /\ Cardinality(Among(n, s)) = Cardinality(Among(n, {i})) + Cardinality(Among(n, s \ {i}))
<1>1. IsFiniteSet(0..n - 1)
  BY FS_Interval
<1>2. \A t : IsFiniteSet(Among(n, t)) /\ Cardinality(Among(n, t)) \in Nat
  <2>1. ASSUME NEW t PROVE IsFiniteSet(Among(n, t)) /\ Cardinality(Among(n, t)) \in Nat
    <3>1. Among(n, t) \subseteq 0..n - 1
      BY DEF Among
    <3>2. IsFiniteSet(Among(n, t))
      BY <1>1, <3>1, FS_Subset
    <3> QED BY <3>2, FS_CardinalityType
  <2> QED BY <2>1
<1>3. /\ Among(n, s) = Among(n, {i}) \cup Among(n, s \ {i})
      /\ Among(n, {i}) \cap Among(n, s \ {i}) = {}
  BY DEF Among
<1>4. Cardinality(Among(n, {i}) \cup Among(n, s \ {i}))
         = Cardinality(Among(n, {i})) + Cardinality(Among(n, s \ {i}))
             - Cardinality(Among(n, {i}) \cap Among(n, s \ {i}))
  BY <1>2, FS_Union
<1>5. Cardinality(Among(n, {i}) \cap Among(n, s \ {i})) = 0
  BY <1>3, FS_EmptySet
<1> DEFINE a == Cardinality(Among(n, {i}))
           b == Cardinality(Among(n, s \ {i}))
<1>6. a \in Nat /\ b \in Nat
  BY <1>2
<1>7. Cardinality(Among(n, s)) = a + b - 0
  BY <1>3, <1>4, <1>5
<1> HIDE DEF a, b
<1>8. Cardinality(Among(n, s)) = a + b
  BY <1>6, <1>7
<1> QED BY <1>2, <1>8 DEF a, b

\* hfs_getISize: if the answer for each extent is the number of its bytes, the
\* sum is the number of all.
LEMMA Sums ==
    ASSUME NEW c, NEW n \in Nat, \A i \in Extents : Amount(c, i) = Cardinality(Among(n, {i}))
    PROVE  Size(c) = n
<1> DEFINE g == [s \in SUBSET Extents |-> Cardinality(Among(n, s))]
<1>1. Among(n, {}) = {} /\ Cardinality(Among(n, {})) = 0
  <2>1. Among(n, {}) = {}
    BY DEF Among
  <2> QED BY <2>1, FS_EmptySet
<1>2. ASSUME NEW s \in SUBSET Extents, s # {}
      PROVE  /\ s \ {CHOOSE i \in s : TRUE} \in SUBSET Extents
             /\ s \ {CHOOSE i \in s : TRUE} # s
             /\ Cardinality(Among(n, s)) = Amount(c, CHOOSE i \in s : TRUE)
                       + Cardinality(Among(n, s \ {CHOOSE i \in s : TRUE}))
  <2>1. PICK j : j = CHOOSE i \in s : TRUE
    OBVIOUS
  <2>2. j \in s
    BY <1>2, <2>1
  <2>3. Cardinality(Among(n, s)) = Cardinality(Among(n, {j})) + Cardinality(Among(n, s \ {j}))
    BY <2>2, AmongApart
  <2>4. Amount(c, j) = Cardinality(Among(n, {j}))
    BY <2>2
  <2> QED BY <2>1, <2>2, <2>3, <2>4
<1>3. Summed(g, c)
  <2>1. ASSUME NEW s \in SUBSET Extents
        PROVE  Cardinality(Among(n, s))
                 = IF s = {} THEN 0
                   ELSE Amount(c, CHOOSE i \in s : TRUE) + g[s \ {CHOOSE i \in s : TRUE}]
    BY <1>1, <1>2
  <2>2. g = [s \in SUBSET Extents |->
                IF s = {} THEN 0
                ELSE Amount(c, CHOOSE i \in s : TRUE) + g[s \ {CHOOSE i \in s : TRUE}]]
    BY <2>1, Zenon
  <2> HIDE DEF g
  <2> QED BY <2>2 DEF Summed
<1> HIDE DEF g
<1>4. PICK f : f = (CHOOSE h : Summed(h, c)) /\ Summed(f, c)
  <2>1. Summed(CHOOSE h : Summed(h, c), c)
    BY <1>3, Zenon
  <2> QED BY <2>1, Zenon
<1>5. \A s \in SUBSET Extents :
         f[s] = IF s = {} THEN 0
                ELSE Amount(c, CHOOSE i \in s : TRUE) + f[s \ {CHOOSE i \in s : TRUE}]
  BY <1>4, Zenon DEF Summed
<1>6. \A s \in SUBSET Extents : f[s] = Cardinality(Among(n, s))
  <2> DEFINE bad == {s \in SUBSET Extents : f[s] # Cardinality(Among(n, s))}
  <2> SUFFICES ASSUME bad # {} PROVE FALSE
    BY Zenon
  <2>1. IsFiniteSet(Extents)
    BY FS_Interval, Sizes DEF Extents
  <2>2. IsWellFoundedOn(StrictSubsetOrdering(Extents), SUBSET Extents)
    BY <2>1, FS_FiniteSubsetsOfFinite, FS_StrictSubsetOrderingWellFounded
  <2>3. PICK s \in bad : \A t \in bad : <<t, s>> \notin StrictSubsetOrdering(Extents)
    <3>1. bad \subseteq SUBSET Extents
      OBVIOUS
    <3> HIDE DEF bad
    <3> QED BY <2>2, <3>1, WFMin, ZenonT(60)
  <2>4. PICK j : j = CHOOSE i \in s : TRUE
    OBVIOUS
  <2>5. s # {}
    BY <1>1, <1>5, <2>3
  <2>6. s \ {j} \in SUBSET Extents /\ s \ {j} # s
    BY <1>2, <2>3, <2>4, <2>5
  <2>7. <<s \ {j}, s>> \in StrictSubsetOrdering(Extents)
    BY <2>3, <2>6 DEF StrictSubsetOrdering
  <2>8. f[s \ {j}] = Cardinality(Among(n, s \ {j}))
    BY <2>3, <2>6, <2>7
  <2>9. f[s] = Amount(c, j) + Cardinality(Among(n, s \ {j}))
    BY <1>5, <2>3, <2>4, <2>5, <2>8
  <2>10. Cardinality(Among(n, s)) = Amount(c, j) + Cardinality(Among(n, s \ {j}))
    BY <1>2, <2>3, <2>4, <2>5
  <2> QED BY <2>3, <2>9, <2>10
<1>7. Cardinality(Among(n, Extents)) = n
  <2>1. Among(n, Extents) = 0..n - 1
    <3>1. ASSUME NEW p \in 0..n - 1 PROVE Extent(p \div StripeSize) \in Extents
      <4>1. p \in Nat
        OBVIOUS
      <4>2. p \div StripeSize \in Nat
        BY <4>1, Byte
      <4> QED BY <4>2, Stripe DEF Extents
    <3> QED BY <3>1 DEF Among
  <2>2. Cardinality(0..n - 1) = n
    BY FS_Interval
  <2> QED BY <2>1, <2>2
<1>8. Size(c) = f[Extents]
  BY <1>4, Folded
<1> QED BY <1>6, <1>7, <1>8

-----------------------------------------------------------------------------
(* The places of an extent *)

\* The place of a byte in its extent.
Place(p) == StripeOf(p \div StripeSize) * StripeSize + (p % StripeSize)

LEMMA Placed == ASSUME NEW p \in Nat PROVE Place(p) \in Nat /\ Extent(p \div StripeSize) \in Extents
<1>1. p \div StripeSize \in Nat /\ p % StripeSize \in 0..StripeSize - 1 /\ StripeSize \in Nat
  BY Byte, Sizes
<1>2. StripeOf(p \div StripeSize) \in Nat /\ Extent(p \div StripeSize) \in Extents
  BY <1>1, Stripe DEF Extents
<1>3. StripeOf(p \div StripeSize) * StripeSize \in Nat
  BY <1>1, <1>2, Product
<1>4. p % StripeSize \in Nat
  BY <1>1
<1> QED BY <1>2, <1>3, <1>4 DEF Place

\* The bytes of an extent lie in it in their order.
LEMMA PlaceOrder ==
    ASSUME NEW p \in Nat, NEW q \in Nat, Extent(p \div StripeSize) = Extent(q \div StripeSize),
           Place(p) <= Place(q)
    PROVE  p <= q
<1> DEFINE S == StripeSize
           C == StripeCnt
           n == p \div S
           m == q \div S
           r == p % S
           t == q % S
           x == StripeOf(n)
           y == StripeOf(m)
           i == Extent(n)
<1>1. S \in Nat \ {0} /\ C \in Nat \ {0}
  BY Sizes
<1>2. n \in Nat /\ r \in 0..S - 1 /\ p = S * n + r
  BY Byte
<1>3. m \in Nat /\ t \in 0..S - 1 /\ q = S * m + t
  BY Byte
<1>4. x \in Nat /\ i \in 0..C - 1 /\ n = C * x + i
  BY <1>2, Stripe
<1>5. y \in Nat /\ m = C * y + i
  BY <1>3, Stripe
<1>6. x * S + r <= y * S + t
  BY DEF Place
<1> HIDE DEF S, C, n, m, r, t, x, y, i
<1>7. x * S = S * x /\ y * S = S * y /\ S * x \in Nat /\ S * y \in Nat
  BY <1>1, <1>4, <1>5, Product
<1>8. ~(y < x)
  <2> SUFFICES ASSUME y < x PROVE FALSE
    OBVIOUS
  <2>1. S * y + S <= S * x
    BY <1>1, <1>4, <1>5, TimesNext
  <2> QED BY <1>1, <1>2, <1>3, <1>6, <1>7, <2>1
<1>9. CASE x = y
  <2>1. n = m
    BY <1>4, <1>5, <1>9
  <2>2. r <= t
    BY <1>2, <1>3, <1>6, <1>7, <1>9
  <2>3. S * n \in Nat
    BY <1>1, <1>2, Product
  <2> QED BY <1>2, <1>3, <2>1, <2>2, <2>3
<1>10. CASE x < y
  <2>1. C * x + C <= C * y /\ C * x \in Int /\ C * y \in Int
    BY <1>1, <1>4, <1>5, <1>10, TimesNext
  <2>2. n < m
    BY <1>1, <1>4, <1>5, <2>1
  <2>3. S * n + S <= S * m /\ S * n \in Int /\ S * m \in Int
    BY <1>1, <1>2, <1>3, <2>2, TimesNext
  <2> QED BY <1>1, <1>2, <1>3, <2>3
<1> QED BY <1>4, <1>5, <1>8, <1>9, <1>10

\* Every place of an extent is that of a byte.
LEMMA PlaceTaken ==
    ASSUME NEW i \in Extents, NEW q \in Nat
    PROVE  \E p \in Nat : Extent(p \div StripeSize) = i /\ Place(p) = q
<1> DEFINE S == StripeSize
           C == StripeCnt
           x == q \div S
           r == q % S
           n == C * x + i
           p == S * n + r
<1>1. S \in Nat \ {0} /\ C \in Nat \ {0} /\ i \in 0..C - 1
  BY Sizes DEF Extents
<1>2. x \in Nat /\ r \in 0..S - 1 /\ q = S * x + r
  BY Byte
<1> HIDE DEF S, C, x, r
<1>3. C * x \in Nat /\ n \in Nat
  <2>1. C * x \in Nat
    BY <1>1, <1>2, Product
  <2> QED BY <1>1, <2>1
<1>4. StripeOf(n) = x /\ Extent(n) = i
  <2>1. StripeOf(n) \in Nat /\ Extent(n) \in 0..C - 1 /\ n = C * StripeOf(n) + Extent(n)
    BY <1>3, Stripe DEF C
  <2>2. C * StripeOf(n) + Extent(n) = C * x + i
    BY <2>1
  <2> QED BY <1>1, <1>2, <2>1, <2>2, OneDivision
<1> HIDE DEF n
<1>5. S * n \in Nat /\ p \in Nat
  <2>1. S * n \in Nat
    BY <1>1, <1>3, Product
  <2> QED BY <1>1, <1>2, <2>1
<1>6. p \div S = n /\ p % S = r
  <2>1. p \div S \in Nat /\ p % S \in 0..S - 1 /\ p = S * (p \div S) + (p % S)
    BY <1>5, Byte DEF S
  <2>2. ASSUME NEW y \in Nat, NEW t \in 0..S - 1, p = S * y + t PROVE y = n /\ t = r
    <3>1. S * y + t = S * n + r
      BY <2>2
    <3> HIDE DEF p
    <3> QED BY <1>1, <1>2, <1>3, <3>1, OneDivision
  <2> HIDE DEF p
  <2> QED BY <2>1, <2>2
<1> HIDE DEF p
<1>7. Place(p) = x * S + r
  BY <1>4, <1>6 DEF Place, S
<1>8. x * S = S * x
  BY <1>1, <1>2, Product
<1> QED BY <1>2, <1>4, <1>5, <1>6, <1>7, <1>8 DEF S

\* An extent that ends with the last of its bytes that are in the file holds as
\* many bytes as the file has there.
LEMMA Counted ==
    ASSUME NEW i \in Extents, NEW n \in Nat, NEW size \in Nat,
           \A p \in Among(n, {i}) : Place(p) < size,
           size > 0 => \E p \in Among(n, {i}) : Place(p) + 1 = size
    PROVE  Cardinality(Among(n, {i})) = size
<1>1. \A p \in Among(n, {i}) : p \in Nat /\ p < n /\ Extent(p \div StripeSize) = i /\ Place(p) \in Nat
  <2>1. ASSUME NEW p \in Among(n, {i}) PROVE p \in Nat /\ p < n /\ Extent(p \div StripeSize) = i
    BY DEF Among
  <2> QED BY <2>1, Placed
<1>2. ASSUME NEW p \in Nat, p < n, Extent(p \div StripeSize) = i PROVE p \in Among(n, {i})
  BY <1>2 DEF Among
<1> DEFINE f == [p \in Among(n, {i}) |-> Place(p)]
<1>3. f \in [Among(n, {i}) -> 0..size - 1]
  <2>1. ASSUME NEW p \in Among(n, {i}) PROVE Place(p) \in 0..size - 1
    BY <1>1
  <2> QED BY <2>1
<1>4. ASSUME NEW p \in Among(n, {i}), NEW q \in Among(n, {i}), f[p] = f[q] PROVE p = q
  <2>1. Place(p) = Place(q) /\ p \in Nat /\ q \in Nat /\ Place(p) \in Nat
        /\ Extent(p \div StripeSize) = Extent(q \div StripeSize)
    BY <1>1, <1>4
  <2>2. Place(p) <= Place(q) /\ Place(q) <= Place(p)
    BY <2>1
  <2>3. p <= q /\ q <= p
    BY <2>1, <2>2, PlaceOrder
  <2> QED BY <2>1, <2>3
<1>5. ASSUME NEW q \in 0..size - 1 PROVE \E p \in Among(n, {i}) : f[p] = q
  <2>1. PICK last \in Among(n, {i}) : Place(last) + 1 = size
    BY <1>5
  <2>2. PICK p \in Nat : Extent(p \div StripeSize) = i /\ Place(p) = q
    BY PlaceTaken
  <2>3. last \in Nat /\ last < n /\ Extent(last \div StripeSize) = i /\ Place(last) \in Nat
    BY <1>1
  <2>4. Place(p) <= Place(last)
    BY <2>1, <2>2, <2>3
  <2>5. p <= last
    BY <2>2, <2>3, <2>4, PlaceOrder
  <2>6. p \in Among(n, {i})
    <3>1. p < n
      BY <2>3, <2>5
    <3> QED BY <1>2, <2>2, <3>1
  <2> QED BY <2>2, <2>6
<1> HIDE DEF f
<1>6. ExistsBijection(Among(n, {i}), 0..size - 1)
  BY <1>3, <1>4, <1>5 DEF ExistsBijection, Bijection, Injection, Surjection, IsInjective
<1>7. IsFiniteSet(Among(n, {i})) /\ Cardinality(0..size - 1) = size
  <2>1. ASSUME NEW s, NEW j \in s PROVE IsFiniteSet(Among(n, s))
    BY <2>1, AmongApart
  <2>2. IsFiniteSet(Among(n, {i}))
    BY <2>1
  <2>3. Cardinality(0..size - 1) = size
    BY FS_Interval
  <2> QED BY <2>2, <2>3
<1>8. Cardinality(0..size - 1) = Cardinality(Among(n, {i}))
  BY <1>6, <1>7, FS_Bijection
<1> QED BY <1>7, <1>8

-----------------------------------------------------------------------------
(* What the length of an extent says *)

Of(i) == {p \in Bytes : Extent(p \div StripeSize) = i}
Copy(i, k) == Layout[1 + i + k * StripeCnt]
Length(i, k) == Len(file[Copy(i, k).srv][Copy(i, k).hdl])

\* A byte a write was made to, and one some write has reached or may reach yet.
Written(p) == Nothing \notin writes[p]
Covered(c, p) == Writing(c) /\ p \in BytesOf(Call(c))
Touched(p) == Written(p) \/ \E c \in Clients : Covered(c, p)

\* No extent ends elsewhere than behind such a byte.
EndsBehind(i, size) == size > 0 => \E p \in Of(i) : Place(p) + 1 = size /\ Touched(p)
Tight == \A i \in Extents : \A k \in {0, 1} : EndsBehind(i, Length(i, k))

\* A copy that is there reaches as far as what was written to it.
Reached ==
    errors = 0 =>
        \A p \in Bytes : \A k \in {0, 1} :
            (/\ Home(p \div StripeSize, k).srv \notin dead
             /\ Written(p) \/ \E c \in Clients : Replaced(c, p, k)) =>
                 Place(p) < Length(Extent(p \div StripeSize), k)

\* A first write overwrites nothing, and so will end it.
FirstWrites ==
    \A c \in Clients : \A p \in Bytes :
        Covered(c, p) /\ Nothing \in writes[p] => Nothing \in over[c][p]

\* While a client that is alone looks at the size, nobody writes, and what it
\* has been told is the end of what was written.
Quiet(c) == Doing(c, "size") /\ alone[c] => Active = {}
Told(i, size) ==
    size \in Nat /\ EndsBehind(i, size) /\ \A p \in Of(i) : Written(p) => Place(p) < size
Measured(c) ==
    Doing(c, "size") =>
        /\ \A i \in Extents : <<i, 0>> \in DOMAIN req[c]
        /\ \A x \in DOMAIN req[c] : x[1] \in Extents
        /\ \A x \in DOMAIN req[c] : x[2] = 1 =>
              <<x[1], 0>> \in DOMAIN req[c] /\ req[c][<<x[1], 0>>].st = "failed"
        /\ alone[c] /\ errors = 0 =>
              \A x \in DOMAIN req[c] : req[c][x].st = "ok" => Told(x[1], req[c][x].data[1])

SizeInv == /\ IOInv /\ DOMAIN alone = Clients
           /\ Tight /\ Reached /\ FirstWrites
           /\ \A c \in Clients : Quiet(c) /\ Measured(c)

LEMMA HomeIsCopy == ASSUME NEW n, NEW k PROVE Home(n, k) = Copy(Extent(n), k)
  BY DEF Home, Copy

LEMMA SizeInit == Init => SizeInv
<1> SUFFICES ASSUME Init PROVE SizeInv
  OBVIOUS
<1>1. IOInv /\ DOMAIN alone = Clients
  BY InitHolds DEF Init
<1>2. \A c \in Clients : ~InCall(c)
  BY DEF Init, InCall
<1>3. \A c \in Clients : ~Writing(c)
  BY <1>2 DEF Writing, Doing
<1>4. \A p \in Bytes : ~Written(p)
  BY DEF Init, Written
<1>5. Tight
  <2>1. ASSUME NEW i \in Extents, NEW k \in {0, 1} PROVE Length(i, k) = 0
    <3>1. PICK j : j = 1 + i + k * StripeCnt
      OBVIOUS
    <3>2. j \in 1..Len(Layout)
      <4>1. i \in 0..StripeCnt - 1 /\ StripeCnt \in Nat /\ Len(Layout) = 2 * StripeCnt
        BY Sizes DEF Extents
      <4>2. k * StripeCnt = IF k = 0 THEN 0 ELSE StripeCnt
        BY <4>1
      <4> QED BY <3>1, <4>1, <4>2
    <3>3. Layout[j].hdl \in DOMAIN file[Layout[j].srv]
      BY <1>1, <3>2 DEF IOInv, Files
    <3>4. Layout[j].srv \in DataServers
      <4>1. ASSUME NEW T, Layout \in Seq(T) PROVE Layout[j] \in T
        BY <3>2, <4>1
      <4> QED BY <4>1, Sizes
    <3>5. file[Layout[j].srv][Layout[j].hdl] = <<>>
      BY <3>3, <3>4 DEF Init
    <3>6. Copy(i, k) = Layout[j]
      BY <3>1 DEF Copy
    <3> QED BY <3>5, <3>6 DEF Length
  <2> QED BY <2>1 DEF Tight, EndsBehind
<1>6. Reached
  BY <1>3, <1>4 DEF Reached, Replaced
<1>7. FirstWrites
  BY <1>3 DEF FirstWrites, Covered
<1> QED BY <1>1, <1>2, <1>5, <1>6, <1>7 DEF SizeInv, Quiet, Measured, Doing

\* What was written stays written.
Grows ==
    /\ \A p \in Bytes : Written(p) => Written(p)'
    /\ \A p \in Bytes : Touched(p) => Touched(p)'

LEMMA EndsStay ==
    ASSUME Grows, NEW i, NEW size, EndsBehind(i, size) PROVE EndsBehind(i, size)'
<1> SUFFICES ASSUME size > 0 PROVE EndsBehind(i, size)'
  BY DEF EndsBehind
<1>1. PICK p \in Of(i) : Place(p) + 1 = size /\ Touched(p)
  BY DEF EndsBehind
<1>2. p \in Bytes
  BY DEF Of
<1> QED BY <1>1, <1>2 DEF Grows, EndsBehind

\* A client that takes no step: what it was told stays right if nothing was
\* written meanwhile.
LEMMA StillTold ==
    ASSUME NEW d \in Clients, Quiet(d), Measured(d), Grows,
           req'[d] = req[d], script'[d] = script[d], alone'[d] => alone[d],
           errors' = 0 => errors = 0,
           Doing(d, "size") /\ alone'[d] /\ Active = {} =>
               Active' = {} /\ \A p \in Bytes : Written(p)' => Written(p)
    PROVE  Quiet(d)' /\ Measured(d)'
<1> SUFFICES ASSUME Doing(d, "size")' PROVE Quiet(d)' /\ Measured(d)'
  BY DEF Quiet, Measured
<1>1. Doing(d, "size")
  BY DEF Doing, InCall, Call
<1>2. Quiet(d)'
  BY <1>1 DEF Quiet
<1>3. ASSUME alone'[d], errors' = 0, NEW x \in DOMAIN req[d], req[d][x].st = "ok"
      PROVE  Told(x[1], req[d][x].data[1])'
  <2>1. PICK i, size : i = x[1] /\ size = req[d][x].data[1]
    OBVIOUS
  <2>2. Told(i, size)
    BY <1>1, <1>3, <2>1 DEF Measured
  <2>3. \A p \in Bytes : Written(p)' => Written(p)
    BY <1>1, <1>3 DEF Quiet
  <2>4. EndsBehind(i, size)'
    BY <2>2, EndsStay DEF Told
  <2>5. \A p \in Of(i) : Written(p)' => Place(p) < size
    BY <2>2, <2>3 DEF Told, Of
  <2>6. Told(i, size)'
    BY <2>2, <2>4, <2>5 DEF Told
  <2> QED BY <2>1, <2>6
<1>4. Measured(d)'
  BY <1>1, <1>3 DEF Measured
<1> QED BY <1>2, <1>4

-----------------------------------------------------------------------------
(* The steps that write nothing *)

LEMMA Nobody == \E c : c \notin Clients
<1>1. {c \in Clients : c \notin c} \notin Clients
  OBVIOUS
<1> QED BY <1>1

\* A step that neither writes nor begins or ends a write, and of whose client
\* is known what it has been told.
LEMMA NoWrite ==
    ASSUME SizeInv, IOInv', NEW c,
           UNCHANGED <<writes, over, file>>, DOMAIN alone' = Clients,
           dead \subseteq dead', errors' = 0 => errors = 0,
           \A d \in Clients : Writing(d)' = Writing(d) /\ (Writing(d) => Call(d)' = Call(d)),
           \A d \in Clients : \A p \in Bytes : \A k \in {0, 1} : Replaced(d, p, k)' => Replaced(d, p, k),
           \A d \in Clients : d # c => /\ req'[d] = req[d] /\ script'[d] = script[d]
                                       /\ alone'[d] = alone[d],
           c \in Clients => Quiet(c)' /\ Measured(c)'
    PROVE  SizeInv'
<1>1. writes' = writes /\ over' = over /\ file' = file
  OBVIOUS
<1>2. \A p : Written(p)' = Written(p)
  BY <1>1 DEF Written
<1>3. \A d \in Clients : \A p : Covered(d, p)' = Covered(d, p)
  BY DEF Covered
<1>4. \A p : Touched(p)' = Touched(p)
  BY <1>2, <1>3 DEF Touched
<1>5. Active' = Active
  BY DEF Active
<1>6. \A i, k : Length(i, k)' = Length(i, k)
  BY <1>1 DEF Length, Copy
<1>7. Grows
  BY <1>2, <1>4 DEF Grows
<1>8. Tight'
  <2>1. ASSUME NEW i \in Extents, NEW k \in {0, 1} PROVE EndsBehind(i, Length(i, k))'
    <3>1. PICK size : size = Length(i, k)
      OBVIOUS
    <3>2. EndsBehind(i, size)
      BY <3>1 DEF SizeInv, Tight
    <3>3. EndsBehind(i, size)'
      BY <1>7, <3>2, EndsStay
    <3>4. Length(i, k)' = size
      BY <1>6, <3>1
    <3> QED BY <3>3, <3>4 DEF EndsBehind, Touched, Written, Covered, Writing, Doing, InCall, Call
  <2> QED BY <2>1 DEF Tight
<1>9. Reached'
  <2>1. Reached
    BY DEF SizeInv
  <2> QED BY <1>2, <1>6, <2>1 DEF Reached
<1>10. FirstWrites'
  BY <1>1, <1>3 DEF SizeInv, FirstWrites
<1>11. ASSUME NEW d \in Clients, d # c PROVE Quiet(d)' /\ Measured(d)'
  <2>1. Quiet(d) /\ Measured(d)
    BY DEF SizeInv
  <2> QED BY <1>2, <1>5, <1>7, <1>11, <2>1, StillTold
<1> QED BY <1>8, <1>9, <1>10, <1>11 DEF SizeInv

\* An answer that is no served write.
LEMMA SizeAnswered ==
    ASSUME SizeInv, IOInv', NEW c \in Clients, NEW x \in DOMAIN req[c], InCall(c), req[c][x].st = "queued",
           NEW st, NEW data, Answer(c, x, st, data), Call(c).op = "write" => st # "ok",
           UNCHANGED <<file, script, writes, over, dead, alone>>, errors' = 0 => errors = 0,
           Doing(c, "size") /\ alone[c] /\ errors' = 0 /\ st = "ok" => Told(x[1], data[1])
    PROVE  SizeInv'
<1>1. /\ file' = file /\ script' = script /\ dead' = dead /\ writes' = writes /\ over' = over
      /\ alone' = alone
  OBVIOUS
<1>2. DOMAIN req = Clients /\ DOMAIN alone = Clients
  BY DEF SizeInv, IOInv, Scripts
<1>3. /\ DOMAIN req' = Clients /\ DOMAIN req'[c] = DOMAIN req[c]
      /\ \A d \in Clients : d # c => req'[d] = req[d]
      /\ \A y \in DOMAIN req[c] : y # x => req'[c][y] = req[c][y]
      /\ req'[c][x] = [st |-> st, data |-> data]
  BY <1>2 DEF Answer
<1>4. req'[c][x].st = st /\ req'[c][x].data = data
  BY <1>3
<1>5. ASSUME NEW d \in Clients PROVE Call(d)' = Call(d) /\ InCall(d)' = InCall(d)
  <2>1. Call(d)' = Call(d)
    BY <1>1 DEF Call
  <2>2. CASE d # c
    BY <1>3, <2>1, <2>2 DEF InCall
  <2>3. CASE d = c
    <3>1. NoReq # req'[c]
      BY <1>3 DEF NoReq
    <3> QED BY <2>1, <2>3, <3>1 DEF InCall
  <2> QED BY <2>2, <2>3
<1>6. \A d \in Clients : Writing(d)' = Writing(d) /\ (Writing(d) => Call(d)' = Call(d))
  BY <1>5 DEF Writing, Doing
<1>7. ASSUME NEW d \in Clients, NEW p \in Bytes, NEW k \in {0, 1}, Replaced(d, p, k)'
      PROVE  Replaced(d, p, k)
  <2>1. Call(d)' = Call(d) /\ Writing(d) /\ Call(d).op = "write"
    BY <1>5, <1>6, <1>7 DEF Replaced, Writing, Doing
  <2> DEFINE z == <<(p \div StripeSize) - First(Call(d)), k>>
  <2>2. p \in BytesOf(Call(d)) /\ req'[d][z].st = "ok"
    BY <1>7, <2>1 DEF Replaced
  <2>3. z \in DOMAIN req[d]
    BY <2>1, <2>2, PartAsked DEF SizeInv, IOInv
  <2> HIDE DEF z
  <2>4. req[d][z].st = "ok"
    <3>1. CASE d # c \/ z # x
      BY <1>3, <2>2, <2>3, <3>1
    <3>2. CASE d = c /\ z = x
      BY <1>4, <2>1, <2>2, <3>2
    <3> QED BY <3>1, <3>2
  <2> QED BY <2>1, <2>2, <2>4 DEF Replaced, z
<1>8. Quiet(c)' /\ Measured(c)'
  <2> SUFFICES ASSUME Doing(c, "size") PROVE Quiet(c)' /\ Measured(c)'
    BY <1>5 DEF Quiet, Measured, Doing
  <2>1. Quiet(c) /\ Measured(c)
    BY DEF SizeInv
  <2>2. Active' = Active
    BY <1>6 DEF Active
  <2>3. Quiet(c)'
    BY <1>1, <2>1, <2>2 DEF Quiet
  <2>4. \A p \in Bytes : Written(p)' = Written(p) /\ Touched(p)' = Touched(p)
    BY <1>1, <1>6 DEF Written, Touched, Covered
  <2>5. ASSUME NEW i, NEW size, Told(i, size) PROVE Told(i, size)'
    <3>1. Grows
      BY <2>4 DEF Grows
    <3>2. EndsBehind(i, size)'
      BY <2>5, <3>1, EndsStay DEF Told
    <3> QED BY <2>4, <2>5, <3>2 DEF Told, Of
  <2>6. ASSUME alone'[c], errors' = 0, NEW y \in DOMAIN req'[c], req'[c][y].st = "ok"
        PROVE  Told(y[1], req[c][y].data[1])'
    <3>1. PICK i, size : i = y[1] /\ size = req'[c][y].data[1]
      OBVIOUS
    <3>2. Told(i, size)
      <4>1. CASE y = x
        BY <1>1, <1>4, <2>6, <3>1, <4>1
      <4>2. CASE y # x
        <5>1. req'[c][y] = req[c][y] /\ y \in DOMAIN req[c]
          BY <1>3, <4>2
        <5> QED BY <1>1, <2>1, <2>6, <3>1, <5>1 DEF Measured
      <4> QED BY <4>1, <4>2
    <3>3. Told(i, size)'
      BY <2>5, <3>2
    <3> QED BY <3>1, <3>3
  <2>7. ASSUME NEW y \in DOMAIN req[c], y[2] = 1
        PROVE  <<y[1], 0>> \in DOMAIN req'[c] /\ req'[c][<<y[1], 0>>].st = "failed"
    <3>1. <<y[1], 0>> \in DOMAIN req[c] /\ req[c][<<y[1], 0>>].st = "failed"
      BY <2>1, <2>7 DEF Measured
    <3>2. <<y[1], 0>> # x
      BY <3>1
    <3> QED BY <1>3, <3>1, <3>2
  <2>8. Measured(c)'
    BY <1>3, <2>1, <2>6, <2>7 DEF Measured
  <2> QED BY <2>3, <2>8
<1> QED BY <1>1, <1>2, <1>3, <1>6, <1>7, <1>8, NoWrite

LEMMA CopyIs ==
    ASSUME NEW i \in Extents, NEW k \in {0, 1}
    PROVE  1 + i + k * StripeCnt \in 1..Len(Layout) /\ Copy(i, k) \in [srv : DataServers, hdl : Nat]
<1>1. i \in 0..StripeCnt - 1 /\ StripeCnt \in Nat /\ Len(Layout) = 2 * StripeCnt
  BY Sizes DEF Extents
<1>2. k * StripeCnt = IF k = 0 THEN 0 ELSE StripeCnt
  BY <1>1
<1>3. PICK j : j = 1 + i + k * StripeCnt
  OBVIOUS
<1>4. j \in 1..Len(Layout)
  BY <1>1, <1>2, <1>3
<1>5. ASSUME NEW T, Layout \in Seq(T) PROVE Layout[j] \in T
  BY <1>4, <1>5
<1>6. Layout[j] \in [srv : DataServers, hdl : Nat]
  BY <1>5, Sizes
<1> QED BY <1>3, <1>4, <1>6 DEF Copy

LEMMA Lengths ==
    ASSUME Files, NEW i \in Extents, NEW k \in {0, 1}
    PROVE  /\ Length(i, k) \in Nat
           /\ Copy(i, k).srv \in DataServers /\ Copy(i, k).hdl \in DOMAIN file[Copy(i, k).srv]
<1>1. 1 + i + k * StripeCnt \in 1..Len(Layout) /\ Copy(i, k) \in [srv : DataServers, hdl : Nat]
  BY CopyIs
<1>2. Copy(i, k).srv \in DataServers /\ Copy(i, k).hdl \in DOMAIN file[Copy(i, k).srv]
  BY <1>1 DEF Files, Copy
<1>3. file[Copy(i, k).srv][Copy(i, k).hdl] \in Seq(Nat)
  BY <1>2 DEF Files
<1>4. ASSUME NEW s \in Seq(Nat) PROVE Len(s) \in Nat
  OBVIOUS
<1> QED BY <1>2, <1>3, <1>4 DEF Length

LEMMA AskedCopy ==
    ASSUME NEW c, Call(c).op = "size", NEW i \in Extents, NEW k \in {0, 1}
    PROVE  Handle(c, i, k) = Copy(i, k)
<1>1. i \in Int /\ StripeCnt \in Int
  BY Sizes DEF Extents
<1>2. 1 + (IF k = 0 THEN i ELSE i + StripeCnt) = 1 + i + k * StripeCnt
  BY <1>1
<1> QED BY <1>2 DEF Handle, Copy, Backup

\* srvGetExtentSize: what a copy that is there answers.
LEMMA SizeTold ==
    ASSUME SizeInv, errors = 0, NEW i \in Extents, NEW k \in {0, 1}, Copy(i, k).srv \notin dead
    PROVE  Told(i, Length(i, k))
<1>1. Length(i, k) \in Nat
  BY Lengths DEF SizeInv, IOInv
<1>2. EndsBehind(i, Length(i, k))
  BY DEF SizeInv, Tight
<1>3. ASSUME NEW p \in Of(i), Written(p) PROVE Place(p) < Length(i, k)
  <2>1. p \in Bytes /\ Extent(p \div StripeSize) = i
    BY DEF Of
  <2>2. Home(p \div StripeSize, k).srv \notin dead
    BY <2>1, HomeIsCopy
  <2> QED BY <1>3, <2>1, <2>2 DEF SizeInv, Reached
<1> QED BY <1>1, <1>2, <1>3 DEF Told

LEMMA MeasureServed ==
    ASSUME SizeInv, NEW c \in Clients, NEW x \in DOMAIN req[c], ServeSize(c, x)
    PROVE  SizeInv'
<1>1. IOInv'
  BY SizeServed DEF SizeInv
<1>2. /\ InCall(c) /\ Call(c).op = "size" /\ Doing(c, "size") /\ req[c][x].st = "queued"
      /\ Handle(c, x[1], x[2]).srv \notin dead
  BY DEF ServeSize, Doing, Outstanding, Alive
<1>3. /\ UNCHANGED <<file, script, writes, over, dead, alone>> /\ errors' = errors
  BY DEF ServeSize, dataVars, faults, history
<1>4. PICK h : h = Handle(c, x[1], x[2])
  OBVIOUS
<1>5. PICK data : data = <<Len(file[h.srv][h.hdl])>> /\ Answer(c, x, "ok", data)
  BY <1>4 DEF ServeSize, ExtentSize
<1>6. x[1] \in Extents /\ x[2] \in {0, 1}
  <2>1. Measured(c) /\ Scripts /\ Asked(c)
    BY DEF SizeInv, IOInv
  <2> QED BY <1>2, <2>1, InHand DEF Measured
<1>7. h = Copy(x[1], x[2])
  BY <1>2, <1>4, <1>6, AskedCopy
<1>8. data[1] = Length(x[1], x[2])
  BY <1>5, <1>7 DEF Length
<1>9. errors = 0 => Told(x[1], data[1])
  BY <1>2, <1>4, <1>6, <1>7, <1>8, SizeTold
<1> QED BY <1>1, <1>2, <1>3, <1>5, <1>9, SizeAnswered

LEMMA SizeReadServed ==
    ASSUME SizeInv, NEW c \in Clients, NEW x \in DOMAIN req[c], ServeRead(c, x)
    PROVE  SizeInv'
<1>1. IOInv'
  BY ReadServed DEF SizeInv
<1>2. /\ InCall(c) /\ Call(c).op = "read" /\ ~Doing(c, "size") /\ req[c][x].st = "queued"
  BY DEF ServeRead, Doing, Outstanding
<1>3. UNCHANGED <<file, script, writes, over, dead, alone>> /\ errors' = errors
  BY DEF ServeRead, dataVars, faults, history
<1>4. PICK data : Answer(c, x, "ok", data)
  BY DEF ServeRead
<1> QED BY <1>1, <1>2, <1>3, <1>4, SizeAnswered

LEMMA SizeRefused ==
    ASSUME SizeInv, NEW c \in Clients, NEW x \in DOMAIN req[c], Refuse(c, x) \/ SendIsCut(c, x)
    PROVE  SizeInv'
<1>1. IOInv'
  BY Refused DEF SizeInv
<1>2. InCall(c) /\ req[c][x].st = "queued"
  BY DEF Refuse, SendIsCut, Outstanding
<1>3. UNCHANGED <<file, script, writes, over, dead, alone>>
  BY DEF Refuse, SendIsCut, dataVars, history
<1>4. PICK data, st : Answer(c, x, st, data) /\ st \in {"refused", "failed"}
  BY DEF Refuse, SendIsCut
<1>5. errors' # 0
  BY DEF Refuse, SendIsCut, SizeInv, IOInv, Faults
<1> QED BY <1>1, <1>2, <1>3, <1>4, <1>5, SizeAnswered

LEMMA SizeSendFailed ==
    ASSUME SizeInv, NEW c \in Clients, NEW x \in DOMAIN req[c], SendFails(c, x)
    PROVE  SizeInv'
<1>1. IOInv'
  BY SendFailed DEF SizeInv
<1>2. InCall(c) /\ req[c][x].st = "queued"
  BY DEF SendFails, Outstanding
<1>3. UNCHANGED <<file, script, writes, over, dead, alone>> /\ errors' = errors
  BY DEF SendFails, dataVars, faults, history
<1>4. PICK data : Answer(c, x, "failed", data)
  BY DEF SendFails
<1> QED BY <1>1, <1>2, <1>3, <1>4, SizeAnswered

LEMMA SizeDied == ASSUME SizeInv, NEW d \in DataServers, Die(d) PROVE SizeInv'
<1>1. IOInv'
  BY Died DEF SizeInv
<1>2. /\ file' = file /\ script' = script /\ req' = req /\ writes' = writes /\ over' = over
      /\ alone' = alone /\ errors' = errors
  BY DEF Die, dataVars, history
<1>3. dead \subseteq dead'
  BY DEF Die
<1>4. \A c \in Clients : Writing(c)' = Writing(c) /\ Call(c)' = Call(c)
  BY <1>2 DEF Writing, Doing, InCall, Call
<1>5. \A c \in Clients : \A p \in Bytes : \A k \in {0, 1} : Replaced(c, p, k)' => Replaced(c, p, k)
  BY <1>2, <1>4 DEF Replaced
<1>6. PICK c : c \notin Clients
  BY Nobody
<1>7. DOMAIN alone' = Clients
  BY <1>2 DEF SizeInv
<1> QED BY <1>1, <1>2, <1>3, <1>4, <1>5, <1>6, <1>7, NoWrite

LEMMA SizeStutters == ASSUME SizeInv, UNCHANGED vars PROVE SizeInv'
<1>1. IOInv'
  BY Stepped DEF SizeInv
<1>2. /\ file' = file /\ script' = script /\ req' = req /\ writes' = writes /\ over' = over
      /\ alone' = alone /\ errors' = errors /\ dead' = dead
  BY DEF vars, dataVars, history
<1>3. \A c \in Clients : Writing(c)' = Writing(c) /\ Call(c)' = Call(c)
  BY <1>2 DEF Writing, Doing, InCall, Call
<1>4. \A c \in Clients : \A p \in Bytes : \A k \in {0, 1} : Replaced(c, p, k)' => Replaced(c, p, k)
  BY <1>2, <1>3 DEF Replaced
<1>5. PICK c : c \notin Clients
  BY Nobody
<1>6. DOMAIN alone' = Clients
  BY <1>2 DEF SizeInv
<1> QED BY <1>1, <1>2, <1>3, <1>4, <1>5, <1>6, NoWrite

LEMMA SizeDegraded == ASSUME SizeInv, NEW c \in Clients, Degrade(c) PROVE SizeInv'
<1>1. IOInv'
  BY Degraded DEF SizeInv
<1>2. /\ file' = file /\ script' = script /\ dead' = dead /\ writes' = writes
      /\ over' = over /\ alone' = alone /\ errors' = errors
  BY DEF Degrade, dataVars, faults, history
<1>3. InCall(c) /\ Call(c).op # "write" /\ Failed(c) # {}
  BY DEF Degrade, Doing
<1>4. /\ DOMAIN req = Clients /\ DOMAIN alone = Clients
      /\ \A x \in DOMAIN req[c] : x[1] \in Nat /\ x[2] \in {0, 1} /\ x = <<x[1], x[2]>>
  BY <1>3, InHand DEF SizeInv, IOInv, Scripts
<1>5. PICK i : /\ i = CHOOSE n \in {x[1] : x \in Failed(c)} : \A x \in Failed(c) : n <= x[1]
               /\ req' = [req EXCEPT ![c] =
                     [x \in DOMAIN @ \cup {<<i, 1>>} |-> IF x = <<i, 1>> THEN Queued(<<>>) ELSE @[x]]]
  BY DEF Degrade
<1>6. <<i, 0>> \in DOMAIN req[c] /\ req[c][<<i, 0>>].st = "failed" /\ <<i, 1>> \notin DOMAIN req[c]
  <2> DEFINE indices == {x[1] : x \in Failed(c)}
  <2>1. indices \subseteq Nat /\ indices # {}
    BY <1>3, <1>4 DEF Failed
  <2> HIDE DEF indices
  <2>2. \E n \in indices : \A m \in indices : n <= m
    BY <2>1, Least
  <2>3. \E n \in indices : \A x \in Failed(c) : n <= x[1]
    BY <2>2 DEF indices
  <2>4. i \in indices
    BY <1>5, <2>3 DEF indices
  <2>5. PICK x \in Failed(c) : i = x[1]
    BY <2>4 DEF indices
  <2>6. x \in DOMAIN req[c] /\ x[2] = 0 /\ req[c][x].st = "failed" /\ <<x[1], 1>> \notin DOMAIN req[c]
    BY <2>5 DEF Failed
  <2>7. x = <<i, 0>>
    BY <1>4, <2>5, <2>6
  <2> QED BY <2>5, <2>6, <2>7
<1>7. /\ DOMAIN req'[c] = DOMAIN req[c] \cup {<<i, 1>>}
      /\ \A d \in Clients : d # c => req'[d] = req[d]
      /\ \A x \in DOMAIN req[c] : req'[c][x] = req[c][x]
      /\ req'[c][<<i, 1>>] = Queued(<<>>)
  BY <1>4, <1>5, <1>6
<1>8. req'[c][<<i, 1>>].st = "queued"
  BY <1>7 DEF Queued
<1>9. /\ \A d \in Clients : Call(d)' = Call(d)
      /\ \A d \in Clients : InCall(d)' = InCall(d)
  <2>1. \A d \in Clients : Call(d)' = Call(d)
    BY <1>2 DEF Call
  <2>2. NoReq # req'[c]
    BY <1>7 DEF NoReq
  <2> QED BY <1>3, <1>7, <2>1, <2>2 DEF InCall
<1>10. \A d \in Clients : Writing(d)' = Writing(d)
  BY <1>9 DEF Writing, Doing
<1>11. \A d \in Clients : \A p \in Bytes : \A k \in {0, 1} : Replaced(d, p, k)' => Replaced(d, p, k)
  <2>1. ASSUME NEW d \in Clients, NEW p \in Bytes, NEW k \in {0, 1}, Replaced(d, p, k)'
        PROVE  Replaced(d, p, k)
    <3>1. d # c
      BY <1>3, <1>9, <2>1 DEF Replaced, Writing, Doing
    <3>2. req'[d] = req[d] /\ Call(d)' = Call(d) /\ Writing(d)' = Writing(d)
      BY <1>7, <1>9, <1>10, <3>1
    <3> QED BY <2>1, <3>2 DEF Replaced
  <2> QED BY <2>1
<1>12. Quiet(c)' /\ Measured(c)'
  <2> SUFFICES ASSUME Doing(c, "size") PROVE Quiet(c)' /\ Measured(c)'
    BY <1>9 DEF Quiet, Measured, Doing
  <2>1. Quiet(c) /\ Measured(c)
    BY DEF SizeInv
  <2>2. Active' = Active
    BY <1>10 DEF Active
  <2>3. Quiet(c)'
    BY <1>2, <2>1, <2>2 DEF Quiet
  <2>4. \A p \in Bytes : Written(p)' = Written(p) /\ Touched(p)' = Touched(p)
    BY <1>2, <1>9, <1>10 DEF Written, Touched, Covered
  <2>5. ASSUME NEW j, NEW size, Told(j, size) PROVE Told(j, size)'
    <3>1. Grows
      BY <2>4 DEF Grows
    <3>2. EndsBehind(j, size)'
      BY <2>5, <3>1, EndsStay DEF Told
    <3> QED BY <2>4, <2>5, <3>2 DEF Told, Of
  <2>6. ASSUME alone'[c], errors' = 0, NEW y \in DOMAIN req'[c], req'[c][y].st = "ok"
        PROVE  Told(y[1], req[c][y].data[1])' /\ y \in DOMAIN req[c]
    <3>1. y \in DOMAIN req[c] /\ req'[c][y] = req[c][y]
      BY <1>7, <1>8, <2>6
    <3>2. PICK j, size : j = y[1] /\ size = req[c][y].data[1]
      OBVIOUS
    <3>3. Told(j, size)
      BY <1>2, <2>1, <2>6, <3>1, <3>2 DEF Measured
    <3>4. Told(j, size)'
      BY <2>5, <3>3
    <3>5. size = req'[c][y].data[1]
      BY <3>1, <3>2
    <3> QED BY <3>1, <3>2, <3>4, <3>5
  <2>7. ASSUME NEW y \in DOMAIN req'[c]
        PROVE  /\ y[1] \in Extents
               /\ y[2] = 1 => <<y[1], 0>> \in DOMAIN req'[c] /\ req'[c][<<y[1], 0>>].st = "failed"
    <3>1. CASE y = <<i, 1>>
      <4>1. y[1] = i
        BY <3>1
      <4>2. i \in Extents
        <5>1. PICK z : z = <<i, 0>>
          OBVIOUS
        <5>2. z[1] = i /\ z \in DOMAIN req[c]
          BY <1>6, <5>1
        <5> QED BY <2>1, <5>2 DEF Measured
      <4> QED BY <1>6, <1>7, <4>1, <4>2
    <3>2. CASE y \in DOMAIN req[c]
      BY <1>7, <2>1, <3>2 DEF Measured
    <3> QED BY <1>7, <3>1, <3>2
  <2>8. \A j \in Extents : <<j, 0>> \in DOMAIN req'[c]
    BY <1>7, <2>1 DEF Measured
  <2>9. Measured(c)'
    BY <2>6, <2>7, <2>8 DEF Measured
  <2> QED BY <2>3, <2>9
<1>13. \A d \in Clients : Writing(d)' = Writing(d) /\ (Writing(d) => Call(d)' = Call(d))
  BY <1>9, <1>10
<1>14. DOMAIN alone' = Clients /\ \A d \in Clients : d # c => req'[d] = req[d] /\ script'[d] = script[d]
                                                            /\ alone'[d] = alone[d]
  BY <1>2, <1>4, <1>7
<1> QED BY <1>1, <1>2, <1>11, <1>12, <1>13, <1>14, NoWrite

LEMMA SizeBeginsOne ==
    ASSUME SizeInv, IOInv', NEW c \in Clients, NEW requests \in Nat, ~InCall(c),
           Call(c).op \in {"read", "size"}, Call(c).op = "size" => requests = StripeCnt,
           Begin(c, requests)
    PROVE  SizeInv'
<1>1. /\ file' = file /\ script' = script /\ dead' = dead /\ writes' = writes
      /\ over' = over /\ errors' = errors
      /\ alone' = [alone EXCEPT ![c] = (Active = {})]
  BY DEF Begin, NoteReading, dataVars, faults
<1>2. req' = [req EXCEPT ![c] = [x \in (0..requests - 1) \X {0} |-> Queued(<<>>)]]
  BY DEF Begin
<1>3. DOMAIN req = Clients /\ DOMAIN alone = Clients
  BY DEF SizeInv, IOInv, Scripts
<1>4. /\ DOMAIN req'[c] = (0..requests - 1) \X {0}
      /\ \A x \in (0..requests - 1) \X {0} : req'[c][x] = Queued(<<>>)
      /\ \A d \in Clients : d # c => req'[d] = req[d]
      /\ DOMAIN alone' = Clients /\ (alone'[c] => Active = {})
      /\ \A d \in Clients : d # c => alone'[d] = alone[d]
  BY <1>1, <1>2, <1>3
<1>5. \A d \in Clients : Call(d)' = Call(d)
  BY <1>1 DEF Call
<1>6. \A d \in Clients : Writing(d)' = Writing(d)
  <2>1. ASSUME NEW d \in Clients PROVE Writing(d)' = Writing(d)
    <3>1. CASE d = c
      BY <1>5, <3>1 DEF Writing, Doing
    <3>2. CASE d # c
      BY <1>4, <1>5, <3>2 DEF Writing, Doing, InCall
    <3> QED BY <3>1, <3>2
  <2> QED BY <2>1
<1>7. ASSUME NEW d \in Clients, NEW p \in Bytes, NEW k \in {0, 1}, Replaced(d, p, k)'
      PROVE  Replaced(d, p, k)
  <2>1. d # c
    BY <1>6, <1>7 DEF Replaced, Writing, Doing
  <2>2. req'[d] = req[d] /\ Call(d)' = Call(d) /\ Writing(d)' = Writing(d)
    BY <1>4, <1>5, <1>6, <2>1
  <2> QED BY <1>7, <2>2 DEF Replaced
<1>8. Quiet(c)'
  BY <1>4, <1>6 DEF Quiet, Active
<1>9. Measured(c)'
  <2> SUFFICES ASSUME Call(c).op = "size" PROVE Measured(c)'
    BY <1>5 DEF Measured, Doing
  <2>1. DOMAIN req'[c] = Extents \X {0}
    BY <1>4 DEF Extents
  <2>2. \A x \in DOMAIN req'[c] : req'[c][x].st = "queued" /\ x[1] \in Extents /\ x[2] = 0
    BY <1>4, <2>1 DEF Queued
  <2> QED BY <2>1, <2>2 DEF Measured
<1> QED BY <1>1, <1>4, <1>5, <1>6, <1>7, <1>8, <1>9, NoWrite

LEMMA SizeBegins ==
    ASSUME SizeInv, NEW c \in Clients, BeginRead(c) \/ BeginSize(c)
    PROVE  SizeInv'
<1>1. IOInv'
  BY ReadBegun, SizeBegun DEF SizeInv
<1>2. script[c] # <<>> /\ ~InCall(c) /\ Call(c).op \in {"read", "size"}
  BY DEF BeginRead, BeginSize
<1>3. PICK n : n = (IF Call(c).op = "size" THEN StripeCnt ELSE Stripes(Call(c)))
  OBVIOUS
<1>4. Begin(c, n)
  BY <1>3 DEF BeginRead, BeginSize
<1>5. n \in Nat
  <2>1. CASE Call(c).op = "size"
    BY <1>3, <2>1, Sizes
  <2>2. CASE Call(c).op # "size"
    <3>1. Accesses(Call(c))
      BY <1>2, <2>2, Current, Legal DEF SizeInv, IOInv
    <3>2. Stripes(Call(c)) \in Nat
      BY <3>1, Ends
    <3> QED BY <1>3, <2>2, <3>2
  <2> QED BY <2>1, <2>2
<1> QED BY <1>1, <1>2, <1>3, <1>4, <1>5, SizeBeginsOne

-----------------------------------------------------------------------------
(* The steps of a write *)

LEMMA SizeWriteBegun ==
    ASSUME SizeInv, NEW c \in Clients, BeginWrite(c)
    PROVE  SizeInv'
<1>1. IOInv'
  BY WriteBegun DEF SizeInv
<1>2. /\ file' = file /\ script' = script /\ dead' = dead /\ errors' = errors
  BY DEF BeginWrite, dataVars, faults
<1>3. script[c] # <<>> /\ Call(c).op = "write" /\ ~InCall(c)
  BY DEF BeginWrite
<1>4. /\ DOMAIN req = Clients /\ DOMAIN over = Clients /\ DOMAIN alone = Clients
      /\ \A p \in Bytes : writes[p] \subseteq Vals
  BY DEF SizeInv, IOInv, Scripts, Fresh
<1>5. PICK e : e = Call(c)
  OBVIOUS
<1>6. PICK zeros :
         /\ req' = [req EXCEPT ![c] =
               [x \in (0..Stripes(e) - 1) \X {0, 1} |->
                   Queued([j \in 1..Count(e, x[1]) |-> IF x[1] \in zeros THEN 0 ELSE e.val])]]
         /\ NoteWrite(c, zeros)
  <2>1. \E zeros :
         /\ req' = [req EXCEPT ![c] =
               [x \in (0..Stripes(Call(c)) - 1) \X {0, 1} |->
                   Queued([j \in 1..Count(Call(c), x[1]) |->
                           IF x[1] \in zeros THEN 0 ELSE Call(c).val])]]
         /\ NoteWrite(c, zeros)
    BY DEF BeginWrite
  <2> QED BY <1>5, <2>1
<1>7. /\ writes' = [p \in Bytes |-> IF p \in BytesOf(e) THEN writes[p] \cup {Entry(e, zeros, p)}
                                    ELSE writes[p]]
      /\ over' = [over EXCEPT ![c] = [p \in Bytes |->
            IF p \in BytesOf(e) THEN {w \in writes[p] : w.done} ELSE {}]]
      /\ alone' = [d \in Clients |-> IF InCall(d) THEN FALSE ELSE alone[d]]
  BY <1>5, <1>6 DEF NoteWrite
<1>8. Accesses(e) /\ e.op = "write" /\ e.val \in Nat \ {0}
  BY <1>3, <1>5, Current, Legal DEF SizeInv, IOInv
<1>9. \A d \in Clients : Call(d)' = Call(d)
  BY <1>2 DEF Call
<1>10. /\ DOMAIN req'[c] = (0..Stripes(e) - 1) \X {0, 1}
       /\ \A x \in DOMAIN req'[c] : req'[c][x].st = "queued"
       /\ \A d \in Clients : d # c => req'[d] = req[d]
  <2> DEFINE data(x) == [j \in 1..Count(e, x[1]) |-> IF x[1] \in zeros THEN 0 ELSE e.val]
  <2>1. req' = [req EXCEPT ![c] = [x \in (0..Stripes(e) - 1) \X {0, 1} |-> Queued(data(x))]]
    BY <1>6
  <2> HIDE DEF data
  <2> QED BY <1>4, <2>1 DEF Queued
<1>11. ASSUME NEW p \in Bytes PROVE Written(p)' = Written(p)
  <2>1. Nothing # Entry(e, zeros, p)
    BY <1>8 DEF Nothing, Entry
  <2> QED BY <1>7, <2>1 DEF Written
<1>12. ASSUME NEW d \in Clients, d # c
       PROVE  /\ Writing(d)' = Writing(d) /\ req'[d] = req[d] /\ script'[d] = script[d]
              /\ \A p : Covered(d, p)' = Covered(d, p)
  BY <1>2, <1>9, <1>10, <1>12 DEF Writing, Doing, InCall, Covered
<1>13. Grows
  <2>1. ~Writing(c)
    BY <1>3 DEF Writing, Doing
  <2>2. ASSUME NEW p \in Bytes, Touched(p) PROVE Touched(p)'
    BY <1>11, <1>12, <2>1, <2>2 DEF Touched, Covered
  <2> QED BY <1>11, <2>2 DEF Grows
<1>14. \A i, k : Length(i, k)' = Length(i, k)
  BY <1>2 DEF Length, Copy
<1>15. Tight'
  <2>1. ASSUME NEW i \in Extents, NEW k \in {0, 1} PROVE EndsBehind(i, Length(i, k))'
    <3>1. PICK size : size = Length(i, k)
      OBVIOUS
    <3>2. EndsBehind(i, size)
      BY <3>1 DEF SizeInv, Tight
    <3>3. EndsBehind(i, size)'
      BY <1>13, <3>2, EndsStay
    <3>4. Length(i, k)' = size
      BY <1>14, <3>1
    <3> QED BY <3>3, <3>4 DEF EndsBehind
  <2> QED BY <2>1 DEF Tight
<1>16. ASSUME NEW d \in Clients, NEW p \in Bytes, NEW k \in {0, 1}, Replaced(d, p, k)'
       PROVE  Replaced(d, p, k)
  <2>1. CASE d = c
    <3> DEFINE j == (p \div StripeSize) - First(e)
    <3>1. p \in BytesOf(e) /\ req'[c][<<j, k>>].st = "ok"
      BY <1>5, <1>9, <1>16, <2>1 DEF Replaced
    <3>2. j \in 0..Stripes(e) - 1
      <4>1. e.op # "size"
        BY <1>8
      <4> QED BY <1>8, <3>1, <4>1, Part
    <3> HIDE DEF j
    <3>3. <<j, k>> \in DOMAIN req'[c]
      BY <1>10, <3>2
    <3> QED BY <1>10, <3>1, <3>3
  <2>2. CASE d # c
    <3>1. Call(d)' = Call(d) /\ Writing(d)' = Writing(d) /\ req'[d] = req[d]
      BY <1>9, <1>12, <2>2
    <3> QED BY <1>16, <3>1 DEF Replaced
  <2> QED BY <2>1, <2>2
<1>17. Reached'
  <2>1. Reached
    BY DEF SizeInv
  <2> QED BY <1>2, <1>11, <1>14, <1>16, <2>1 DEF Reached
<1>18. FirstWrites'
  <2> SUFFICES ASSUME NEW d \in Clients, NEW p \in Bytes, Covered(d, p)', Nothing \in writes'[p]
               PROVE  Nothing \in over'[d][p]
    BY DEF FirstWrites
  <2>1. Nothing \in writes[p]
    BY <1>11 DEF Written
  <2>2. CASE d = c
    <3>1. p \in BytesOf(e)
      BY <1>5, <1>9, <2>2 DEF Covered
    <3>2. over'[c][p] = {w \in writes[p] : w.done}
      BY <1>4, <1>7, <3>1
    <3>3. Nothing.done
      BY DEF Nothing
    <3> QED BY <2>1, <2>2, <3>2, <3>3
  <2>3. CASE d # c
    <3>1. over'[d] = over[d]
      BY <1>4, <1>7, <2>3
    <3> QED BY <1>12, <2>1, <2>3, <3>1 DEF SizeInv, FirstWrites
  <2> QED BY <2>2, <2>3
<1>19. ASSUME NEW d \in Clients PROVE Quiet(d)' /\ Measured(d)'
  <2>1. CASE d = c
    BY <1>3, <1>9, <2>1 DEF Quiet, Measured, Doing
  <2>2. CASE d # c
    <3>1. Quiet(d) /\ Measured(d)
      BY DEF SizeInv
    <3>2. Doing(d, "size") => ~alone'[d]
      BY <1>7 DEF Doing
    <3>3. alone'[d] => alone[d]
      BY <1>7
    <3> QED BY <1>2, <1>12, <1>13, <2>2, <3>1, <3>2, <3>3, StillTold
  <2> QED BY <2>1, <2>2
<1>20. DOMAIN alone' = Clients
  BY <1>7
<1> QED BY <1>1, <1>15, <1>17, <1>18, <1>19, <1>20 DEF SizeInv

LEMMA CopiesDiffer ==
    ASSUME NEW i \in Extents, NEW k \in {0, 1}, NEW j \in Extents, NEW l \in {0, 1},
           Copy(i, k).srv = Copy(j, l).srv, Copy(i, k).hdl = Copy(j, l).hdl
    PROVE  i = j /\ k = l
<1>1. /\ 1 + i + k * StripeCnt \in 1..Len(Layout) /\ Copy(i, k) \in [srv : DataServers, hdl : Nat]
      /\ 1 + j + l * StripeCnt \in 1..Len(Layout) /\ Copy(j, l) \in [srv : DataServers, hdl : Nat]
  BY CopyIs
<1>2. Copy(i, k) = Copy(j, l)
  BY <1>1
<1>3. PICK x, y : x = 1 + i + k * StripeCnt /\ y = 1 + j + l * StripeCnt
  OBVIOUS
<1>4. x = y
  BY <1>1, <1>2, <1>3, IOAssumption DEF Copy
<1>5. StripeCnt \in Nat \ {0} /\ i \in 0..StripeCnt - 1 /\ j \in 0..StripeCnt - 1
  BY Sizes DEF Extents
<1>6. k * StripeCnt = (IF k = 0 THEN 0 ELSE StripeCnt) /\ l * StripeCnt = IF l = 0 THEN 0 ELSE StripeCnt
  BY <1>5
<1>7. 1 + i + (IF k = 0 THEN 0 ELSE StripeCnt) = 1 + j + IF l = 0 THEN 0 ELSE StripeCnt
  BY <1>3, <1>4, <1>6
<1> QED BY <1>5, <1>7

\* The last byte of a request, and its place.
LEMMA LastByte ==
    ASSUME NEW e, Accesses(e), e.op # "size", NEW i \in 0..Stripes(e) - 1
    PROVE  \E p \in BytesOf(e) :
              /\ p \in Of(Extent(First(e) + i))
              /\ Place(p) + 1 = StripeOf(First(e) + i) * StripeSize + From(e, i) + Count(e, i)
<1> DEFINE S == StripeSize
           n == First(e) + i
           r == From(e, i) + Count(e, i) - 1
           p == S * n + r
<1>1. S \in Nat \ {0}
  BY Sizes
<1>2. n \in Nat
  BY Ends
<1>3. From(e, i) \in Nat /\ Count(e, i) \in Nat \ {0} /\ From(e, i) + Count(e, i) <= S
  BY Covers
<1>4. r \in 0..S - 1 /\ From(e, i) <= r /\ r < From(e, i) + Count(e, i)
  BY <1>1, <1>3
<1>5. S * n \in Nat
  BY <1>1, <1>2, Product
<1>6. p \in Nat
  BY <1>4, <1>5
<1>7. p \div S = n /\ p % S = r
  <2>1. p \div S \in Nat /\ p % S \in 0..S - 1 /\ p = S * (p \div S) + (p % S)
    BY <1>6, Byte
  <2>2. ASSUME NEW y \in Nat, NEW t \in 0..S - 1, p = S * y + t PROVE y = n /\ t = r
    <3>1. S * n + r = S * y + t
      BY <2>2
    <3> HIDE DEF n, r, S
    <3> QED BY <1>1, <1>2, <1>4, <3>1, OneDivision
  <2> HIDE DEF p
  <2> QED BY <2>1, <2>2
<1> HIDE DEF p, r
<1>8. p \in BytesOf(e)
  BY <1>4, <1>6, <1>7, Within
<1>9. p \in Bytes
  BY <1>8, Part
<1>10. Place(p) = StripeOf(n) * S + r
  BY <1>7 DEF Place
<1>11. StripeOf(n) * S \in Nat
  <2>1. StripeOf(n) \in Nat
    BY <1>2, Stripe
  <2> HIDE DEF n, S
  <2> QED BY <1>1, <2>1, Product
<1>12. Place(p) + 1 = StripeOf(n) * S + From(e, i) + Count(e, i)
  <2>1. r = From(e, i) + Count(e, i) - 1
    BY DEF r
  <2> DEFINE a == StripeOf(n) * S
  <2>2. a \in Nat /\ Place(p) = a + r
    BY <1>10, <1>11
  <2> HIDE DEF a, n, S
  <2>3. Place(p) + 1 = a + From(e, i) + Count(e, i)
    BY <1>3, <2>1, <2>2
  <2> QED BY <2>3 DEF a
<1> QED BY <1>7, <1>8, <1>9, <1>12 DEF Of

LEMMA SizeWriteServed ==
    ASSUME SizeInv, NEW c \in Clients, NEW x \in DOMAIN req[c], ServeWrite(c, x)
    PROVE  SizeInv'
<1>1. IOInv'
  BY WriteServed DEF SizeInv
<1>2. /\ InCall(c) /\ Writing(c) /\ Call(c).op = "write"
  BY DEF ServeWrite, Writing, Doing
<1>3. /\ dead' = dead /\ script' = script /\ writes' = writes /\ over' = over /\ alone' = alone
      /\ errors' = errors
  BY DEF ServeWrite, faults, history
<1>4. Files /\ Scripts /\ Asked(c) /\ Tight /\ Reached /\ FirstWrites /\ DOMAIN req = Clients
      /\ DOMAIN alone = Clients
  BY DEF SizeInv, IOInv, Scripts
<1>5. PICK e : e = Call(c)
  OBVIOUS
<1>6. PICK i, k : i = x[1] /\ k = x[2]
  OBVIOUS
<1>7. PICK data : data = req[c][x].data
  OBVIOUS
<1>8. PICK n : n = First(e) + i
  OBVIOUS
<1>9. e \in Calls /\ Accesses(e) /\ e.op = "write" /\ i \in Nat /\ k \in {0, 1} /\ x = <<i, k>>
  BY <1>2, <1>4, <1>5, <1>6, InHand, Legal
<1>10. i \in 0..Stripes(e) - 1 /\ n \in Nat /\ First(e) \in Nat
  <2>1. DOMAIN req[c] = (0..Stripes(e) - 1) \X {0, 1}
    BY <1>2, <1>4, <1>5 DEF Asked, AskedBoth
  <2>2. First(e) \in Nat
    BY <1>9, Ends
  <2> QED BY <1>8, <1>9, <2>1, <2>2
<1>11. Carries(c, x)
  BY <1>2, <1>4 DEF Asked, AskedBoth
<1>12. data \in Seq(Nat) /\ Len(data) = Count(e, i)
  BY <1>5, <1>6, <1>7, <1>11 DEF Carries
<1>13. From(e, i) \in Nat /\ Count(e, i) \in Nat
  BY <1>9, <1>10, Covers
<1>14. Extent(n) \in Extents /\ StripeOf(n) \in Nat
  BY <1>10, Stripe DEF Extents
<1>15. PICK d, h : d = Copy(Extent(n), k).srv /\ h = Copy(Extent(n), k).hdl
  OBVIOUS
<1>16. WriteStripe(d, h, StripeOf(n), From(e, i), data) /\ Answer(c, x, "ok", data)
  <2>1. Handle(c, x[1], x[2]) = Home(n, k)
    BY <1>2, <1>5, <1>6, <1>8, <1>9, HandleIsHome
  <2>2. Home(n, k) = Copy(Extent(n), k)
    BY HomeIsCopy
  <2> QED BY <1>5, <1>6, <1>7, <1>8, <1>15, <2>1, <2>2 DEF ServeWrite
<1>17. d \in DataServers /\ h \in DOMAIN file[d] /\ Length(Extent(n), k) \in Nat
  BY <1>4, <1>9, <1>14, <1>15, Lengths
<1>18. PICK pos : pos = StripeOf(n) * StripeSize + From(e, i)
  OBVIOUS
<1>19. PICK end : end = pos + Len(data)
  OBVIOUS
<1>20. /\ pos \in Nat /\ end \in Nat
       /\ \A y \in DataServers : \A g \in DOMAIN file[y] : y # d \/ g # h => file'[y][g] = file[y][g]
       /\ Len(file'[d][h]) = IF end > Len(file[d][h]) THEN end ELSE Len(file[d][h])
  <2>1. /\ pos \in Nat
        /\ \A y \in DataServers : \A g \in DOMAIN file[y] : y # d \/ g # h => file'[y][g] = file[y][g]
        /\ Len(file'[d][h]) = IF pos + Len(data) > Len(file[d][h]) THEN pos + Len(data)
                              ELSE Len(file[d][h])
    BY <1>4, <1>12, <1>13, <1>14, <1>16, <1>17, <1>18, FileWritten
  <2>2. pos + Len(data) \in Nat
    BY <1>12, <1>13, <2>1
  <2> QED BY <1>19, <2>1, <2>2
<1>21. ASSUME NEW j \in Extents, NEW l \in {0, 1}, j # Extent(n) \/ l # k
       PROVE  Length(j, l)' = Length(j, l)
  <2>1. Copy(j, l).srv \in DataServers /\ Copy(j, l).hdl \in DOMAIN file[Copy(j, l).srv]
    BY <1>4, Lengths
  <2>2. Copy(j, l).srv # d \/ Copy(j, l).hdl # h
    BY <1>9, <1>14, <1>15, <1>21, CopiesDiffer
  <2> QED BY <1>20, <2>1, <2>2 DEF Length, Copy
<1>22. Length(Extent(n), k)' = IF end > Length(Extent(n), k) THEN end ELSE Length(Extent(n), k)
  BY <1>15, <1>20 DEF Length, Copy
<1>23. ASSUME NEW j \in Extents, NEW l \in {0, 1}
       PROVE  /\ Length(j, l) \in Nat /\ Length(j, l)' \in Nat /\ Length(j, l) <= Length(j, l)'
              /\ j = Extent(n) /\ l = k => end <= Length(j, l)'
  <2>1. Length(j, l) \in Nat
    BY <1>4, Lengths
  <2>2. CASE j = Extent(n) /\ l = k
    <3>1. PICK a, b : a = Length(j, l) /\ b = Length(j, l)'
      OBVIOUS
    <3>2. b = (IF end > a THEN end ELSE a) /\ a \in Nat
      BY <1>22, <2>1, <2>2, <3>1
    <3>3. b \in Nat /\ a <= b /\ end <= b
      BY <1>20, <3>2
    <3> QED BY <2>1, <3>1, <3>3
  <2>3. CASE ~(j = Extent(n) /\ l = k)
    <3>1. Length(j, l)' = Length(j, l)
      BY <1>21, <2>3
    <3> QED BY <2>1, <2>3, <3>1
  <2> QED BY <2>2, <2>3
<1>24. /\ DOMAIN req'[c] = DOMAIN req[c]
       /\ \A f \in Clients : f # c => req'[f] = req[f]
       /\ \A y \in DOMAIN req[c] : y # x => req'[c][y] = req[c][y]
  BY <1>4, <1>16 DEF Answer
<1>25. ASSUME NEW f \in Clients PROVE Call(f)' = Call(f) /\ Writing(f)' = Writing(f)
  <2>1. Call(f)' = Call(f)
    BY <1>3 DEF Call
  <2>2. CASE f # c
    BY <1>24, <2>1, <2>2 DEF Writing, Doing, InCall
  <2>3. CASE f = c
    <3>1. NoReq # req'[c]
      BY <1>24 DEF NoReq
    <3> QED BY <1>2, <2>1, <2>3, <3>1 DEF Writing, Doing, InCall
  <2> QED BY <2>1, <2>2, <2>3
<1>26. /\ \A p : Written(p)' = Written(p)
       /\ \A p : \A f \in Clients : Covered(f, p)' = Covered(f, p)
  BY <1>3, <1>25 DEF Written, Covered
<1>27. \A p : Touched(p)' = Touched(p)
  BY <1>26 DEF Touched
<1>28. Grows /\ Active' = Active
  BY <1>25, <1>26, <1>27 DEF Grows, Active
<1>29. Tight'
  <2> SUFFICES ASSUME NEW j \in Extents, NEW l \in {0, 1} PROVE EndsBehind(j, Length(j, l))'
    BY DEF Tight
  <2>1. CASE Length(j, l)' = Length(j, l)
    <3>1. PICK size : size = Length(j, l)
      OBVIOUS
    <3>2. EndsBehind(j, size)
      BY <1>4, <3>1 DEF Tight
    <3>3. EndsBehind(j, size)'
      BY <1>28, <3>2, EndsStay
    <3> QED BY <2>1, <3>1, <3>3 DEF EndsBehind
  <2>2. CASE Length(j, l)' # Length(j, l)
    <3>1. j = Extent(n) /\ l = k /\ Length(j, l)' = end
      BY <1>21, <1>22, <2>2
    <3>2. PICK p \in BytesOf(e) : p \in Of(j) /\ Place(p) + 1 = end
      <4>1. e.op # "size"
        BY <1>9
      <4>2. PICK p \in BytesOf(e) :
               /\ p \in Of(Extent(First(e) + i))
               /\ Place(p) + 1 = StripeOf(First(e) + i) * StripeSize + From(e, i) + Count(e, i)
        BY <1>9, <1>10, <4>1, LastByte
      <4> QED BY <1>8, <1>12, <1>18, <1>19, <3>1, <4>2
    <3>3. Touched(p)
      BY <1>2, <1>5, <3>2 DEF Touched, Covered
    <3> QED BY <1>27, <3>1, <3>2, <3>3 DEF EndsBehind
  <2> QED BY <2>1, <2>2
<1>30. Reached'
  <2> SUFFICES ASSUME errors = 0, NEW p \in Bytes, NEW l \in {0, 1},
                      Home(p \div StripeSize, l).srv \notin dead,
                      Written(p) \/ \E f \in Clients : Replaced(f, p, l)'
               PROVE  Place(p) < Length(Extent(p \div StripeSize), l)'
    BY <1>3, <1>26 DEF Reached
  <2>1. p \in Nat
    BY Sizes DEF Bytes
  <2>2. Place(p) \in Nat /\ Extent(p \div StripeSize) \in Extents
    BY <2>1, Placed
  <2>3. CASE Written(p) \/ \E f \in Clients : Replaced(f, p, l)
    <3>1. Place(p) < Length(Extent(p \div StripeSize), l)
      BY <1>4, <2>3 DEF Reached
    <3> QED BY <1>23, <2>2, <3>1
  <2>4. CASE ~(Written(p) \/ \E f \in Clients : Replaced(f, p, l))
    <3>1. PICK f \in Clients : Replaced(f, p, l)'
      BY <2>4
    <3>2. f = c
      <4> SUFFICES ASSUME f # c PROVE FALSE
        OBVIOUS
      <4>1. req'[f] = req[f] /\ Call(f)' = Call(f) /\ Writing(f)' = Writing(f)
        BY <1>24, <1>25
      <4> QED BY <2>4, <3>1, <4>1 DEF Replaced
    <3> DEFINE z == <<(p \div StripeSize) - First(e), l>>
    <3>3. p \in BytesOf(e) /\ req'[c][z].st = "ok"
      BY <1>5, <1>25, <3>1, <3>2 DEF Replaced
    <3>4. z \in DOMAIN req[c]
      BY <1>2, <1>4, <1>5, <3>3, PartAsked
    <3>5. z = x
      <4> SUFFICES ASSUME z # x PROVE FALSE
        OBVIOUS
      <4>1. req[c][z].st = "ok"
        BY <1>24, <3>3, <3>4
      <4>2. Replaced(c, p, l)
        BY <1>2, <1>5, <3>3, <4>1 DEF Replaced
      <4> QED BY <2>4, <4>2
    <3>6. (p \div StripeSize) - First(e) = i /\ l = k
      BY <1>9, <3>5
    <3>7. p \div StripeSize = n /\ p % StripeSize < From(e, i) + Count(e, i) /\ p % StripeSize \in Nat
      <4>1. e.op # "size"
        BY <1>9
      <4>2. /\ p \div StripeSize = First(e) + i /\ p % StripeSize \in 0..StripeSize - 1
            /\ p % StripeSize < From(e, i) + Count(e, i)
        BY <1>9, <3>3, <3>6, <4>1, Part
      <4> QED BY <1>8, <4>2
    <3>8. Place(p) < end
      <4>1. Place(p) = StripeOf(n) * StripeSize + (p % StripeSize)
        BY <3>7 DEF Place
      <4>2. StripeOf(n) * StripeSize \in Nat
        BY <1>14, Sizes, Product
      <4>3. PICK a, r : a = StripeOf(n) * StripeSize /\ r = p % StripeSize
        OBVIOUS
      <4>4. a \in Nat /\ Place(p) = a + r /\ pos = a + From(e, i) /\ r \in Nat
        BY <1>18, <3>7, <4>1, <4>2, <4>3
      <4>5. r < From(e, i) + Count(e, i)
        BY <3>7, <4>3
      <4>6. end = pos + Count(e, i)
        BY <1>12, <1>19
      <4> QED BY <1>13, <4>4, <4>5, <4>6
    <3>9. Extent(p \div StripeSize) = Extent(n)
      BY <3>7
    <3>10. end <= Length(Extent(n), k)' /\ Length(Extent(n), k)' \in Nat
      BY <1>9, <1>14, <1>23
    <3>11. Place(p) < Length(Extent(n), k)'
      BY <1>20, <2>2, <3>8, <3>10
    <3> QED BY <3>6, <3>9, <3>11
  <2> QED BY <2>3, <2>4
<1>31. FirstWrites'
  BY <1>3, <1>4, <1>26 DEF FirstWrites
<1>32. ASSUME NEW f \in Clients PROVE Quiet(f)' /\ Measured(f)'
  <2>1. CASE f = c
    BY <1>2, <1>25, <2>1 DEF Quiet, Measured, Doing
  <2>2. CASE f # c
    <3>1. Quiet(f) /\ Measured(f)
      BY DEF SizeInv
    <3>2. req'[f] = req[f] /\ script'[f] = script[f]
      BY <1>3, <1>24, <2>2
    <3> QED BY <1>3, <1>26, <1>28, <3>1, <3>2, StillTold
  <2> QED BY <2>1, <2>2
<1> QED BY <1>1, <1>3, <1>4, <1>29, <1>30, <1>31, <1>32 DEF SizeInv

\* hfs_write, at its end: what it covered is written.
LEMMA WrittenNow ==
    ASSUME Scripts, Fresh, FirstWrites, NEW c \in Clients, script[c] # <<>>, Writing(c),
           NoteWritten(c), NEW p \in Bytes
    PROVE  /\ Written(p) => Written(p)'
           /\ p \in BytesOf(Call(c)) => Written(p)'
           /\ Written(p)' => Written(p) \/ p \in BytesOf(Call(c))
<1>1. Call(c).op = "write"
  BY DEF Writing, Doing
<1>2. PICK e : e = Call(c)
  OBVIOUS
<1>3. e.val # 0
  BY <1>1, <1>2, Current, Legal
<1>4. Nothing.call = 0
  BY DEF Nothing
<1>5. Nothing \in writes'[p] => Nothing \in writes[p]
  BY <1>1, <1>2, <1>3, <1>4, Recorded
<1>6. p \notin BytesOf(e) => writes'[p] = writes[p]
  BY <1>1, <1>2, Recorded
<1>7. ASSUME p \in BytesOf(e), Nothing \in writes'[p] PROVE FALSE
  <2> DEFINE mine == {w \in writes[p] : w.call = e.val}
             end(w) == [w EXCEPT !.done = TRUE]
  <2>1. writes'[p] = (writes[p] \ (over[c][p] \cup mine)) \cup {end(w) : w \in mine}
    BY <1>2, <1>7 DEF NoteWritten
  <2>2. Nothing \in over[c][p]
    BY <1>2, <1>5, <1>7 DEF FirstWrites, Covered
  <2>3. PICK w \in mine : Nothing = end(w)
    BY <1>7, <2>1, <2>2
  <2>4. w \in Vals
    BY DEF Fresh
  <2>5. end(w).call = e.val
    BY <2>3, <2>4 DEF Vals
  <2> QED BY <1>3, <1>4, <2>3, <2>5
<1> QED BY <1>2, <1>5, <1>6, <1>7 DEF Written

LEMMA SizeReturned == ASSUME SizeInv, NEW c \in Clients, Return(c) PROVE SizeInv'
<1>1. IOInv'
  BY Returned DEF SizeInv
<1>2. /\ file' = file /\ dead' = dead /\ errors' = errors /\ Complete(c)
      /\ req' = [req EXCEPT ![c] = NoReq] /\ script' = [script EXCEPT ![c] = Tail(@)]
      /\ alone' = [alone EXCEPT ![c] = TRUE]
  BY DEF Return, dataVars, faults
<1>3. /\ Scripts /\ Fresh /\ Asked(c) /\ Tight /\ Reached /\ FirstWrites
      /\ DOMAIN req = Clients /\ DOMAIN script = Clients /\ DOMAIN alone = Clients
      /\ DOMAIN over = Clients
  BY DEF SizeInv, IOInv, Scripts
<1>4. /\ req'[c] = NoReq /\ DOMAIN alone' = Clients
      /\ \A d \in Clients : d # c => /\ req'[d] = req[d] /\ script'[d] = script[d]
                                     /\ alone'[d] = alone[d]
  BY <1>2, <1>3
<1>5. ~InCall(c)' /\ InCall(c) /\ script[c] # <<>>
  BY <1>2, <1>3, <1>4 DEF InCall, Complete, Asked
<1>6. ASSUME NEW d \in Clients, d # c
      PROVE  Call(d)' = Call(d) /\ Writing(d)' = Writing(d)
  BY <1>4, <1>6 DEF Writing, Doing, InCall, Call
<1>7. ~Writing(c)'
  BY <1>5 DEF Writing, Doing
<1>8. Quiet(c)' /\ Measured(c)'
  BY <1>5 DEF Quiet, Measured, Doing
<1>9. ASSUME NEW d \in Clients, NEW p \in Bytes, NEW k \in {0, 1}, Replaced(d, p, k)'
      PROVE  Replaced(d, p, k)
  <2>1. d # c
    BY <1>7, <1>9 DEF Replaced
  <2>2. Call(d)' = Call(d) /\ Writing(d)' = Writing(d) /\ req'[d] = req[d]
    BY <1>4, <1>6, <2>1
  <2> QED BY <1>9, <2>1, <2>2 DEF Replaced
<1>10. CASE ~Writing(c)
  <2>1. writes' = writes /\ over' = over
    BY <1>10 DEF Return
  <2>2. \A d \in Clients : Writing(d)' = Writing(d) /\ (Writing(d) => Call(d)' = Call(d))
    BY <1>6, <1>7, <1>10 DEF Writing, Doing
  <2>3. \A d \in Clients : \A p \in Bytes : \A k \in {0, 1} : Replaced(d, p, k)' => Replaced(d, p, k)
    BY <1>9
  <2>4. dead \subseteq dead' /\ (errors' = 0 => errors = 0) /\ UNCHANGED <<writes, over, file>>
    BY <1>2, <2>1
  <2> QED BY <1>1, <1>4, <1>8, <2>2, <2>3, <2>4, NoWrite
<1>11. CASE Writing(c)
  <2>1. NoteWritten(c)
    BY <1>11 DEF Return
  <2>2. PICK e : e = Call(c)
    OBVIOUS
  <2>3. ASSUME NEW p \in Bytes
        PROVE  /\ Written(p) => Written(p)'
               /\ p \in BytesOf(e) => Written(p)'
               /\ Written(p)' => Written(p) \/ p \in BytesOf(e)
    BY <1>3, <1>5, <1>11, <2>1, <2>2, WrittenNow
  <2>4. \A d \in Clients : d # c => over'[d] = over[d] /\ \A p : Covered(d, p)' = Covered(d, p)
    <3>1. over' = [over EXCEPT ![c] = Empty]
      BY <2>1 DEF NoteWritten
    <3> QED BY <1>3, <1>6, <3>1 DEF Covered
  <2>5. Grows
    <3>1. ASSUME NEW p \in Bytes, Touched(p) PROVE Touched(p)'
      <4>1. CASE Written(p)
        BY <2>3, <4>1 DEF Touched
      <4>2. CASE ~Written(p)
        <5>1. PICK d \in Clients : Covered(d, p)
          BY <3>1, <4>2 DEF Touched
        <5>2. CASE d = c
          <6>1. p \in BytesOf(e)
            BY <2>2, <5>1, <5>2 DEF Covered
          <6> QED BY <2>3, <6>1 DEF Touched
        <5>3. CASE d # c
          BY <2>4, <5>1, <5>3 DEF Touched
        <5> QED BY <5>2, <5>3
      <4> QED BY <4>1, <4>2
    <3> QED BY <2>3, <3>1 DEF Grows
  <2>6. \A i, k : Length(i, k)' = Length(i, k)
    BY <1>2 DEF Length, Copy
  <2>7. Tight'
    <3>1. ASSUME NEW i \in Extents, NEW k \in {0, 1} PROVE EndsBehind(i, Length(i, k))'
      <4>1. PICK size : size = Length(i, k)
        OBVIOUS
      <4>2. EndsBehind(i, size)
        BY <1>3, <4>1 DEF Tight
      <4>3. EndsBehind(i, size)'
        BY <2>5, <4>2, EndsStay
      <4>4. Length(i, k)' = size
        BY <2>6, <4>1
      <4> QED BY <4>3, <4>4 DEF EndsBehind
    <3> QED BY <3>1 DEF Tight
  <2>8. Reached'
    <3> SUFFICES ASSUME errors = 0, NEW p \in Bytes, NEW k \in {0, 1},
                        Home(p \div StripeSize, k).srv \notin dead,
                        Written(p)' \/ \E d \in Clients : Replaced(d, p, k)'
                 PROVE  Place(p) < Length(Extent(p \div StripeSize), k)
      BY <1>2, <2>6 DEF Reached
    <3>1. Written(p) \/ \E d \in Clients : Replaced(d, p, k)
      <4>1. CASE \E d \in Clients : Replaced(d, p, k)'
        BY <1>9, <4>1
      <4>2. CASE Written(p)' /\ ~Written(p)
        <5>1. p \in BytesOf(e)
          BY <2>3, <4>2
        <5> DEFINE i == (p \div StripeSize) - First(e)
        <5>2. i \in 0..Stripes(e) - 1 /\ <<i, k>> \in DOMAIN req[c]
          BY <1>3, <1>11, <2>2, <5>1, PartAsked
        <5>3. Handle(c, i, k) = Home(p \div StripeSize, k)
          <6>1. Call(c) \in Calls /\ Call(c).op = "write"
            BY <1>3, <1>5, <1>11, Current DEF Writing, Doing
          <6>2. First(e) \in Nat
            BY <2>2, <6>1, Legal, Ends
          <6>3. p \in Nat
            BY Sizes DEF Bytes
          <6>4. p \div StripeSize \in Int
            BY <6>3, Byte
          <6>5. i \in Nat /\ First(e) + i = p \div StripeSize
            BY <5>2, <6>2, <6>4
          <6> HIDE DEF i
          <6> QED BY <2>2, <6>1, <6>5, HandleIsHome
        <5> HIDE DEF i
        <5>4. req[c][<<i, k>>].st = "ok"
          <6>1. PICK x : x = <<i, k>>
            OBVIOUS
          <6>2. x[1] = i /\ x[2] = k
            BY <6>1
          <6>3. req[c][x].st = "ok" \/ Handle(c, x[1], x[2]).srv \in dead
            BY <1>2, <1>3, <5>2, <6>1, AllAnswered
          <6> QED BY <5>3, <6>1, <6>2, <6>3
        <5>5. Replaced(c, p, k)
          BY <1>11, <2>2, <5>1, <5>4 DEF Replaced, i
        <5> QED BY <5>5
      <4> QED BY <4>1, <4>2
    <3> QED BY <1>3, <3>1 DEF Reached
  <2>9. FirstWrites'
    <3> SUFFICES ASSUME NEW d \in Clients, NEW p \in Bytes, Covered(d, p)', Nothing \in writes'[p]
                 PROVE  Nothing \in over'[d][p]
      BY DEF FirstWrites
    <3>1. d # c
      BY <1>7 DEF Covered
    <3>2. Nothing \in writes[p]
      BY <2>3 DEF Written
    <3> QED BY <1>3, <2>4, <3>1, <3>2 DEF FirstWrites
  <2>10. ASSUME NEW d \in Clients PROVE Quiet(d)' /\ Measured(d)'
    <3>1. CASE d = c
      BY <1>8, <3>1
    <3>2. CASE d # c
      <4>1. Quiet(d) /\ Measured(d)
        BY DEF SizeInv
      <4>2. c \in Active
        BY <1>11 DEF Active
      <4> QED BY <1>2, <1>4, <2>5, <3>2, <4>1, <4>2, StillTold
    <3> QED BY <3>1, <3>2
  <2> QED BY <1>1, <1>4, <2>7, <2>8, <2>9, <2>10 DEF SizeInv
<1> QED BY <1>10, <1>11

-----------------------------------------------------------------------------
(* The size *)

LEMMA SizeStepped == SizeInv /\ [Next]_vars => SizeInv'
<1> SUFFICES ASSUME SizeInv, [Next]_vars PROVE SizeInv'
  OBVIOUS
<1>1. ASSUME NEW c \in Clients, BeginRead(c) \/ BeginSize(c) PROVE SizeInv'
  BY <1>1, SizeBegins
<1>2. ASSUME NEW c \in Clients, BeginWrite(c) PROVE SizeInv'
  BY <1>2, SizeWriteBegun
<1>3. ASSUME NEW c \in Clients, Step(c) PROVE SizeInv'
  BY <1>3, SizeDegraded, SizeReturned, SizeReadServed, MeasureServed, SizeWriteServed,
     SizeSendFailed, SizeRefused DEF Step
<1>4. ASSUME NEW d \in DataServers, Die(d) PROVE SizeInv'
  BY <1>4, SizeDied
<1>5. CASE UNCHANGED vars
  BY <1>5, SizeStutters
<1> QED BY <1>1, <1>2, <1>3, <1>4, <1>5 DEF Next

\* hfs_write, srvGetExtentSize: at any moment an extent ends where a byte was
\* written or is being written, behind everything that was written to it, and a
\* client that looks at the size while nobody writes has been told so, as long as
\* no system call of a server and no send to a living one has failed.
THEOREM SizeInvariant == Spec => []SizeInv
  BY SizeInit, SizeStepped, PTL DEF Spec

\* One of the two copies of each extent has answered, as far as its server is there.
LEMMA EachAnswered ==
    ASSUME SizeInv, errors = 0, NEW c \in Clients, Doing(c, "size"), Complete(c),
           NEW i \in Extents
    PROVE  \E x \in DOMAIN req[c] : x[1] = i /\ Answering(c, i) = req[c][x] /\ req[c][x].st = "ok"
<1>1. Scripts /\ Faults /\ Asked(c) /\ Measured(c) /\ InCall(c) /\ Call(c).op = "size"
  BY DEF SizeInv, IOInv, Doing
<1>2. <<i, 0>> \in DOMAIN req[c]
  BY <1>1 DEF Measured
<1>3. Failed(c) = {}
  BY <1>1 DEF Complete
<1>4. ASSUME NEW k \in {0, 1}, NEW x, x = <<i, k>>, x \in DOMAIN req[c]
      PROVE  x[1] = i /\ (req[c][x].st = "ok" \/ (req[c][x].st = "failed" /\ Copy(i, k).srv \in dead))
  <2>1. x[1] = i /\ x[2] = k
    BY <1>4
  <2>2. Handle(c, i, k) = Copy(i, k)
    BY <1>1, AskedCopy
  <2>3. req[c][x].st = "ok" \/ (req[c][x].st = "failed" /\ Handle(c, x[1], x[2]).srv \in dead)
    BY <1>1, <1>4, AllAnswered
  <2> QED BY <2>1, <2>2, <2>3
<1>5. PICK x, y : x = <<i, 0>> /\ y = <<i, 1>>
  OBVIOUS
<1>6. CASE y \in DOMAIN req[c]
  <2>1. y[1] = i /\ y[2] = 1
    BY <1>5
  <2>2. req[c][x].st = "failed" /\ x \in DOMAIN req[c]
    BY <1>1, <1>5, <1>6, <2>1 DEF Measured
  <2>3. Copy(i, 0).srv \in dead
    BY <1>4, <1>5, <2>2
  <2>4. Copy(i, 0).srv # Copy(i, 1).srv
    <3>1. i \in 0..StripeCnt - 1 /\ StripeCnt \in Nat
      BY Sizes DEF Extents
    <3>2. PICK j : j = 1 + i
      OBVIOUS
    <3>3. j \in 1..StripeCnt /\ 1 + i + 0 * StripeCnt = j /\ 1 + i + 1 * StripeCnt = j + StripeCnt
      BY <3>1, <3>2
    <3>4. Layout[j].srv # Layout[j + StripeCnt].srv
      BY <3>3, IOAssumption
    <3> QED BY <3>3, <3>4 DEF Copy
  <2>5. Copy(i, 1).srv \notin dead
    BY <1>1, <2>3, <2>4 DEF Faults
  <2>6. req[c][y].st = "ok"
    BY <1>4, <1>5, <1>6, <2>5
  <2> QED BY <1>5, <1>6, <2>1, <2>6 DEF Answering
<1>7. CASE y \notin DOMAIN req[c]
  <2>1. x[1] = i /\ x[2] = 0 /\ x \in DOMAIN req[c]
    BY <1>2, <1>5
  <2>2. req[c][x].st # "failed"
    BY <1>3, <1>5, <1>7, <2>1 DEF Failed
  <2>3. req[c][x].st = "ok"
    BY <1>4, <1>5, <2>1, <2>2
  <2> QED BY <1>5, <1>7, <2>1, <2>3 DEF Answering
<1> QED BY <1>6, <1>7

\* hfs_getISize: the size of a file that is written from its start without
\* holes, and that nobody writes meanwhile, is the end of what was written,
\* whatever the order in which the extents were written and answer, and also
\* when the first copies of some are gone, if no system call of a server and no
\* send to a living one failed.
THEOREM SizesAreRight == Spec => []SizeIsEnd
<1>1. SizeInv => SizeIsEnd
  <2> DEFINE written == {p \in Bytes : Nothing \notin writes[p]}
             n == Cardinality(written)
  <2> SUFFICES ASSUME SizeInv, errors = 0, NEW c \in Clients, Doing(c, "size"), Complete(c),
                      alone[c], written = 0..n - 1
               PROVE  Size(c) = n
    BY DEF SizeIsEnd
  <2>1. n \in Nat
    <3>1. IsFiniteSet(Bytes)
      BY FS_Interval, Sizes DEF Bytes
    <3>2. IsFiniteSet(written)
      BY <3>1, FS_Subset
    <3> QED BY <3>2, FS_CardinalityType
  <2>2. \A p : p \in 0..n - 1 <=> p \in Bytes /\ Written(p)
    BY DEF Written
  <2> HIDE DEF n, written
  <2>3. \A p \in Bytes : Touched(p) => Written(p)
    <3>1. Active = {}
      BY DEF SizeInv, Quiet
    <3> QED BY <3>1 DEF Touched, Covered, Active
  <2>4. ASSUME NEW i \in Extents PROVE Amount(c, i) = Cardinality(Among(n, {i}))
    <3>1. PICK x \in DOMAIN req[c] : x[1] = i /\ Answering(c, i) = req[c][x] /\ req[c][x].st = "ok"
      BY EachAnswered
    <3>2. PICK size : size = req[c][x].data[1]
      OBVIOUS
    <3>3. Amount(c, i) = size
      BY <3>1, <3>2 DEF Amount
    <3>4. Told(i, size)
      BY <3>1, <3>2 DEF SizeInv, Measured
    <3>5. \A p : p \in Among(n, {i}) <=> p \in Of(i) /\ Written(p)
      BY <2>2 DEF Among, Of
    <3>6. \A p \in Among(n, {i}) : Place(p) < size
      BY <3>4, <3>5 DEF Told
    <3>7. size > 0 => \E p \in Among(n, {i}) : Place(p) + 1 = size
      <4>1. ASSUME size > 0 PROVE \E p \in Among(n, {i}) : Place(p) + 1 = size
        <5>1. PICK p \in Of(i) : Place(p) + 1 = size /\ Touched(p)
          BY <3>4, <4>1 DEF Told, EndsBehind
        <5>2. p \in Bytes
          BY DEF Of
        <5> QED BY <2>3, <3>5, <5>1, <5>2
      <4> QED BY <4>1
    <3>8. size \in Nat
      BY <3>4 DEF Told
    <3> QED BY <2>1, <3>3, <3>6, <3>7, <3>8, Counted
  <2> QED BY <2>1, <2>4, Sums
<1> QED BY <1>1, SizeInvariant, PTL
=============================================================================
