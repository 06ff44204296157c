--------------------------- MODULE ReceiverProofs ---------------------------
(***************************************************************************)
(* The receiving half of a TCP connection (Receiver): the stream is put    *)
(* together right, and the advertised window is kept, for every size of    *)
(* the buffer, of the segments and of the stream, any number of slots, and *)
(* every sequence number to start from.                                    *)
(***************************************************************************)
EXTENDS Receiver, Sequences, WellFoundedInduction, TLAPS

-----------------------------------------------------------------------------
(* Arithmetic modulo n, the range of sequence numbers.                     *)

LEMMA ModType ==
  ASSUME NEW n \in Nat, n > 0, NEW a \in Int
  PROVE  a % n \in Int /\ 0 <= a % n /\ a % n < n
  OBVIOUS

\* The remainder, and that it is the only one.
LEMMA ModOf ==
  ASSUME NEW n \in Nat, n > 0, NEW a \in Int
  PROVE  \E q \in Int : a = n * q + (a % n)
<1>1. a \div n \in Int
  OBVIOUS
<1>2. a = n * (a \div n) + (a % n)
  OBVIOUS
<1> QED BY <1>1, <1>2, Zenon

LEMMA Multiple ==
  ASSUME NEW n \in Nat, n > 0, NEW p \in Int, NEW q \in Int, NEW r \in Int, NEW s \in Int,
         0 <= r, r < n, 0 <= s, s < n, n * p + r = n * q + s
  PROVE  r = s
<1>1. n * (p - q) = s - r
  OBVIOUS
<1> DEFINE d == p - q
<1>2. d \in Int /\ n * d = s - r
  BY <1>1
<1> HIDE DEF d
<1>3. ~(d >= 1)
  <2> SUFFICES ASSUME d >= 1 PROVE FALSE
    BY Zenon
  <2>1. n * d >= n
    BY <1>2
  <2> QED BY <1>2, <2>1
<1>4. ~(d <= -1)
  <2> SUFFICES ASSUME d <= -1 PROVE FALSE
    BY Zenon
  <2>1. n * d <= -n
    BY <1>2
  <2> QED BY <1>2, <2>1
<1>5. d = 0
  BY <1>2, <1>3, <1>4
<1> QED BY <1>2, <1>5

LEMMA ModUnique ==
  ASSUME NEW n \in Nat, n > 0, NEW a \in Int, NEW q \in Int, NEW r \in Int,
         0 <= r, r < n, a = n * q + r
  PROVE  a % n = r
<1>1. a \in Int
  BY Zenon
<1>2. PICK p \in Int : a = n * p + (a % n)
  BY <1>1, ModOf, Zenon
<1>3. a % n \in Int /\ 0 <= a % n /\ a % n < n
  BY <1>1
<1>4. a % n = r
  <2> DEFINE s == a % n
  <2>1. n * p + s = n * q + r
    BY <1>2, Zenon
  <2> HIDE DEF s
  <2>2. s \in Int /\ 0 <= s /\ s < n
    BY <1>3, Zenon DEF s
  <2>3. s = r
    BY <2>1, <2>2, Multiple, Zenon
  <2> QED BY <2>3, Zenon DEF s
<1> QED BY <1>4, Zenon

\* Indices may be reduced before a step, or after it.
LEMMA ModPlus ==
  ASSUME NEW n \in Nat, n > 0, NEW a \in Int, NEW b \in Int
  PROVE  ((a % n) + b) % n = (a + b) % n
<1>1. PICK p \in Int : a = n * p + (a % n)
  BY ModOf, Zenon
<1> DEFINE c == (a % n) + b
<1>2. c \in Int
  OBVIOUS
<1>3. PICK q \in Int : c = n * q + (c % n)
  BY <1>2, ModOf, Zenon
<1> DEFINE r == c % n
<1>4. r \in Int /\ 0 <= r /\ r < n
  BY <1>2
<1>5. a + b = n * p + c
  BY <1>1
<1> HIDE DEF c
<1>6. c = n * q + r
  BY <1>3, Zenon
<1> HIDE DEF r
<1>7. a + b = n * (p + q) + r
  BY <1>2, <1>4, <1>5, <1>6
<1>8. (a + b) % n = r
  <2>1. a + b \in Int /\ p + q \in Int
    OBVIOUS
  <2> QED BY <1>4, <1>7, <2>1, ModUnique, Zenon
<1> QED BY <1>8, Zenon DEF r, c

LEMMA ModMinus ==
  ASSUME NEW n \in Nat, n > 0, NEW a \in Int, NEW b \in Int
  PROVE  (a - (b % n)) % n = (a - b) % n
<1>1. PICK p \in Int : b = n * p + (b % n)
  BY ModOf, Zenon
<1> DEFINE c == a - (b % n)
<1>2. c \in Int
  OBVIOUS
<1>3. PICK q \in Int : c = n * q + (c % n)
  BY <1>2, ModOf, Zenon
<1> DEFINE r == c % n
<1>4. r \in Int /\ 0 <= r /\ r < n
  BY <1>2
<1>5. a - b = c - n * p
  BY <1>1
<1> HIDE DEF c
<1>6. c = n * q + r
  BY <1>3, Zenon
<1> HIDE DEF r
<1>7. a - b = n * (q - p) + r
  BY <1>2, <1>4, <1>5, <1>6
<1>8. (a - b) % n = r
  <2>1. a - b \in Int /\ q - p \in Int
    OBVIOUS
  <2> QED BY <1>4, <1>7, <2>1, ModUnique, Zenon
<1> QED BY <1>8, Zenon DEF r, c

LEMMA ModSmall ==
  ASSUME NEW n \in Nat, n > 0, NEW a \in Int, 0 <= a, a < n
  PROVE  a % n = a
  OBVIOUS

LEMMA ModWrap ==
  ASSUME NEW n \in Nat, n > 0, NEW a \in Int
  PROVE  (a + n) % n = a % n
<1>1. PICK p \in Int : a = n * p + (a % n)
  BY ModOf, Zenon
<1> DEFINE r == a % n
<1>2. r \in Int /\ 0 <= r /\ r < n
  OBVIOUS
<1>3. a = n * p + r
  BY <1>1, Zenon
<1> HIDE DEF r
<1>4. a + n = n * (p + 1) + r
  BY <1>2, <1>3
<1>5. (a + n) % n = r
  <2>1. a + n \in Int /\ p + 1 \in Int
    OBVIOUS
  <2> QED BY <1>2, <1>4, <2>1, ModUnique, Zenon
<1> QED BY <1>5, Zenon DEF r

\* Positions less than n apart have different slots.
LEMMA ModInjective ==
  ASSUME NEW n \in Nat, n > 0, NEW a \in Int, NEW b \in Int, a % n = b % n,
         a - b < n, b - a < n
  PROVE  a = b
<1>1. PICK p \in Int : a = n * p + (a % n)
  BY ModOf, Zenon
<1>2. PICK q \in Int : b = n * q + (b % n)
  BY ModOf, Zenon
<1> DEFINE r == a % n
           d == p - q
<1>3. r \in Int /\ a = n * p + r /\ b = n * q + r
  BY <1>1, <1>2
<1> HIDE DEF r
<1>4. d \in Int /\ n * d = a - b
  BY <1>3
<1> HIDE DEF d
<1>5. ~(d >= 1)
  <2> SUFFICES ASSUME d >= 1 PROVE FALSE
    BY Zenon
  <2>1. n * d >= n
    BY <1>4
  <2> QED BY <1>4, <2>1
<1>6. ~(d <= -1)
  <2> SUFFICES ASSUME d <= -1 PROVE FALSE
    BY Zenon
  <2>1. n * d <= -n
    BY <1>4
  <2> QED BY <1>4, <2>1
<1>7. d = 0
  BY <1>4, <1>5, <1>6
<1> QED BY <1>4, <1>7

-----------------------------------------------------------------------------
(* Least numbers, for loops over the slots.                                *)

LEMMA LeastNumber ==
  ASSUME NEW T, T \subseteq Nat, T # {}
  PROVE  \E m \in T : \A k \in T : m <= k
<1>1. PICK m \in T : \A y \in T : ~(<<y, m>> \in OpToRel(<, Nat))
  BY NatLessThanWellFounded, WFMin, Zenon
<1>2. ASSUME NEW k \in T, k < m PROVE <<k, m>> \in OpToRel(<, Nat)
  BY <1>2 DEF OpToRel
<1>3. \A k \in T : ~(k < m)
  BY <1>1, <1>2, Zenon
<1>4. \A k \in T : m <= k
  BY <1>3
<1> QED BY <1>4, Zenon

-----------------------------------------------------------------------------
\* Sequence numbers.

Half == Rx!Mod \div 2

LEMMA Widths ==
  /\ Rx!Mod \in Nat /\ Rx!Mod > 0 /\ Half \in Nat /\ 2 * Half <= Rx!Mod
  /\ RxIsn \in Nat /\ RxBuf \in Nat /\ RxBuf > 0 /\ RxMss \in Nat /\ RxMss > 0
  /\ RxSlots \in Nat /\ RxStream \in Nat /\ RxBack \in Nat /\ 2 * RxBuf + RxBack + 2 < Half
<1> DEFINE M == 2 ^ RxBits
<1>1. /\ M \in Nat /\ RxIsn \in 0 .. M - 1 /\ RxBuf \in Nat \ {0} /\ RxMss \in Nat \ {0}
      /\ RxSlots \in Nat /\ RxStream \in Nat /\ RxBack \in Nat
      /\ 2 * RxBuf + RxBack + 2 < M \div 2
  BY ReceiverAssumption, Zenon
<1> HIDE DEF M
<1>2. M > 0 /\ M \div 2 \in Nat /\ 2 * (M \div 2) <= M
  BY <1>1
<1>3. RxIsn \in Nat /\ RxBuf > 0 /\ RxMss > 0
  BY <1>1
<1> QED BY <1>1, <1>2, <1>3, Zenon DEF M, Rx!Mod, Half

LEMMA SeqType ==
  ASSUME NEW x \in Int
  PROVE  Rx!SeqNo(x) \in Int /\ 0 <= Rx!SeqNo(x) /\ Rx!SeqNo(x) < Rx!Mod
<1>1. RxIsn + x \in Int
  BY Widths
<1> QED BY <1>1, Widths, ModType, Zenon DEF Rx!SeqNo

\* The difference of two sequence numbers is that of the positions.
LEMMA SeqDiff ==
  ASSUME NEW x \in Int, NEW y \in Int, NEW m \in Int, NEW k \in Int
  PROVE  ((Rx!SeqNo(x) + m) - (Rx!SeqNo(y) + k)) % Rx!Mod = ((x + m) - (y + k)) % Rx!Mod
<1> DEFINE n == Rx!Mod
           a == RxIsn + x
           b == RxIsn + y
           e == (a + m) - k
<1>1. n \in Nat /\ n > 0 /\ a \in Int /\ b \in Int /\ e \in Int /\ e - b = (x + m) - (y + k)
  BY Widths
<1>2. Rx!SeqNo(x) = a % n /\ Rx!SeqNo(y) = b % n
  BY Zenon DEF Rx!SeqNo
<1> HIDE DEF n
<1>3. a % n \in Int /\ b % n \in Int
  BY <1>1, ModType, Zenon
<1> DEFINE r == a % n
           s == b % n
           t == m - (s + k)
<1>4. r \in Int /\ s \in Int
  BY <1>3
<1> HIDE DEF r, s, a, b
<1>5. t \in Int /\ r + t = (r + m) - (s + k) /\ a + t = e - s
  BY <1>1, <1>4
<1> HIDE DEF t, e
<1>6. (r + t) % n = (a + t) % n
  BY <1>1, <1>5, ModPlus, Zenon DEF r
<1>7. (e - s) % n = (e - b) % n
  BY <1>1, ModMinus, Zenon DEF s
<1> QED BY <1>1, <1>2, <1>5, <1>6, <1>7, Zenon DEF r, s, n

\* What the sign of a difference says, for positions less than half the range
\* apart.
LEMMA SignOf ==
  ASSUME NEW d \in Int, d < Half, -Half < d
  PROVE  (d % Rx!Mod >= Half <=> d < 0) /\ (d % Rx!Mod \in 1 .. Half - 1 <=> d > 0)
<1> DEFINE n == Rx!Mod
           h == Half
<1>1. n \in Nat /\ n > 0 /\ h \in Nat /\ 2 * h <= n /\ d < h /\ -h < d
  BY Widths, Zenon
<1> HIDE DEF n, h
<1>2. CASE d >= 0
  <2>1. d % n = d
    BY <1>1, <1>2, ModSmall
  <2>2. (d % n >= h <=> d < 0) /\ (d % n \in 1 .. h - 1 <=> d > 0)
    BY <1>1, <1>2, <2>1
  <2> QED BY <2>2, Zenon DEF n, h
<1>3. CASE d < 0
  <2>1. (d + n) % n = d % n
    BY <1>1, ModWrap, Zenon
  <2>2. d + n \in Int /\ 0 <= d + n /\ d + n < n
    BY <1>1, <1>3
  <2>3. (d + n) % n = d + n
    BY <1>1, <2>2, ModSmall, Zenon
  <2> DEFINE r == d % n
  <2>4. r = d + n
    BY <2>1, <2>3, Zenon
  <2> HIDE DEF r
  <2>5. (r >= h <=> d < 0) /\ (r \in 1 .. h - 1 <=> d > 0)
    BY <1>1, <1>3, <2>4
  <2> QED BY <2>5, Zenon DEF n, h, r
<1> QED BY <1>1, <1>2, <1>3

\* Positions less than half the range apart.
Near(x, y) == x \in Int /\ y \in Int /\ x - y < Half /\ -Half < x - y

LEMMA Compared ==
  ASSUME NEW x \in Int, NEW m \in Int, NEW y \in Int, NEW k \in Int, Near(x + m, y + k)
  PROVE  /\ Rx!tcp_seq_before(Rx!SeqNo(x) + m, Rx!SeqNo(y) + k) <=> x + m < y + k
         /\ Rx!tcp_seq_after(Rx!SeqNo(x) + m, Rx!SeqNo(y) + k) <=> x + m > y + k
<1> DEFINE d == (x + m) - (y + k)
           r == d % Rx!Mod
<1>1. d \in Int /\ d < Half /\ -Half < d /\ (d < 0 <=> x + m < y + k) /\ (d > 0 <=> x + m > y + k)
  <2>1. d < Half /\ -Half < d
    BY Zenon DEF Near
  <2> QED BY <2>1
<1>2. (r >= Half <=> d < 0) /\ (r \in 1 .. Half - 1 <=> d > 0)
  BY <1>1, SignOf, Zenon
<1>3. ((Rx!SeqNo(x) + m) - (Rx!SeqNo(y) + k)) % Rx!Mod = r
  BY SeqDiff
<1> HIDE DEF r, d
<1> QED BY <1>1, <1>2, <1>3, Zenon DEF Rx!tcp_seq_before, Rx!tcp_seq_after, Half

LEMMA ComparedPlain ==
  ASSUME NEW x \in Int, NEW y \in Int, NEW k \in Int, Near(x, y + k)
  PROVE  /\ Rx!tcp_seq_before(Rx!SeqNo(x), Rx!SeqNo(y) + k) <=> x < y + k
         /\ Rx!tcp_seq_after(Rx!SeqNo(x), Rx!SeqNo(y) + k) <=> x > y + k
<1>1. x + 0 = x /\ Rx!SeqNo(x) + 0 = Rx!SeqNo(x) /\ 0 \in Int
  BY SeqType
<1> QED BY <1>1, Compared

LEMMA ComparedBare ==
  ASSUME NEW x \in Int, NEW m \in Int, NEW y \in Int, Near(x + m, y)
  PROVE  /\ Rx!tcp_seq_before(Rx!SeqNo(x) + m, Rx!SeqNo(y)) <=> x + m < y
         /\ Rx!tcp_seq_after(Rx!SeqNo(x) + m, Rx!SeqNo(y)) <=> x + m > y
<1>1. y + 0 = y /\ Rx!SeqNo(y) + 0 = Rx!SeqNo(y) /\ 0 \in Int
  BY SeqType
<1> QED BY <1>1, Compared

LEMMA ComparedBoth ==
  ASSUME NEW x \in Int, NEW y \in Int, Near(x, y)
  PROVE  /\ Rx!tcp_seq_before(Rx!SeqNo(x), Rx!SeqNo(y)) <=> x < y
         /\ Rx!tcp_seq_after(Rx!SeqNo(x), Rx!SeqNo(y)) <=> x > y
<1>1. y + 0 = y /\ Rx!SeqNo(y) + 0 = Rx!SeqNo(y) /\ 0 \in Int
  BY SeqType
<1> QED BY <1>1, ComparedPlain

LEMMA SeqSame ==
  ASSUME NEW x \in Int, NEW y \in Int, Near(x, y), Rx!SeqNo(x) = Rx!SeqNo(y)
  PROVE  x = y
<1> DEFINE n == Rx!Mod
           a == RxIsn + x
           b == RxIsn + y
<1>1. /\ n \in Nat /\ n > 0 /\ Half \in Nat /\ 2 * Half <= n /\ x - y < Half /\ -Half < x - y
      /\ RxIsn \in Nat
  BY Widths, Zenon DEF Near
<1>2. a % n = b % n
  BY Zenon DEF Rx!SeqNo
<1> HIDE DEF n
<1>3. a \in Int /\ b \in Int /\ a - b < n /\ b - a < n
  BY <1>1
<1>4. a = b
  BY <1>1, <1>2, <1>3, ModInjective, Zenon
<1> QED BY <1>1, <1>4

LEMMA SeqPlus ==
  ASSUME NEW x \in Int, NEW m \in Int
  PROVE  (Rx!SeqNo(x) + m) % Rx!Mod = Rx!SeqNo(x + m)
<1> DEFINE n == Rx!Mod
           a == RxIsn + x
<1>1. n \in Nat /\ n > 0 /\ a \in Int /\ a + m = RxIsn + (x + m)
  BY Widths
<1> HIDE DEF n, a
<1>2. ((a % n) + m) % n = (a + m) % n
  BY <1>1, ModPlus, Zenon
<1> QED BY <1>1, <1>2, Zenon DEF n, a, Rx!SeqNo

-----------------------------------------------------------------------------
\* Pieces of the stream.

LEMMA BytesAre ==
  ASSUME NEW p \in Int, NEW n \in Nat
  PROVE  /\ Rx!Bytes(p, n) \in Seq(Int) /\ Len(Rx!Bytes(p, n)) = n
         /\ \A i \in 1 .. n : Rx!Bytes(p, n)[i] = p + i - 1
  BY DEF Rx!Bytes

LEMMA BytesEqual ==
  ASSUME NEW p \in Int, NEW n \in Nat, NEW s \in Seq(Int), Len(s) = n,
         \A i \in 1 .. n : s[i] = p + i - 1
  PROVE  s = Rx!Bytes(p, n)
<1>1. s = [i \in 1 .. n |-> s[i]]
  OBVIOUS
<1> QED BY <1>1, Zenon DEF Rx!Bytes

LEMMA Joined ==
  ASSUME NEW s \in Seq(Int), NEW t \in Seq(Int)
  PROVE  /\ s \o t \in Seq(Int)
         /\ Len(s \o t) = Len(s) + Len(t)
  OBVIOUS

LEMMA BytesJoin ==
  ASSUME NEW p \in Int, NEW m \in Nat, NEW n \in Nat
  PROVE  Rx!Bytes(p, m) \o Rx!Bytes(p + m, n) = Rx!Bytes(p, m + n)
<1> DEFINE s == Rx!Bytes(p, m)
           t == Rx!Bytes(p + m, n)
           u == s \o t
<1>1. s \in Seq(Int) /\ Len(s) = m /\ \A i \in 1 .. m : s[i] = p + i - 1
  BY BytesAre, Zenon
<1>2. t \in Seq(Int) /\ Len(t) = n /\ \A i \in 1 .. n : t[i] = (p + m) + i - 1
  <2>1. p + m \in Int
    OBVIOUS
  <2> QED BY <2>1, BytesAre, Zenon
<1> HIDE DEF s, t
<1>0. s \in Seq(Int) /\ t \in Seq(Int) /\ Len(s) = m /\ Len(t) = n
  BY <1>1, <1>2, Zenon
<1>3. u \in Seq(Int) /\ Len(u) = m + n
  BY <1>0, Joined, Zenon
<1>4. \A i \in 1 .. m + n : u[i] = IF i <= m THEN s[i] ELSE t[i - m]
  BY <1>1, <1>2
<1> HIDE DEF u
<1>5. ASSUME NEW i \in 1 .. m + n PROVE u[i] = p + i - 1
  <2>1. CASE i <= m
    <3>1. i \in 1 .. m
      BY <2>1
    <3> QED BY <1>1, <1>4, <2>1, <3>1, Zenon
  <2>2. CASE ~(i <= m)
    <3>1. i - m \in 1 .. n /\ (p + m) + (i - m) - 1 = p + i - 1
      BY <2>2
    <3> QED BY <1>2, <1>4, <2>2, <3>1, Zenon
  <2> QED BY <2>1, <2>2, Zenon
<1>6. m + n \in Nat
  OBVIOUS
<1>7. u = Rx!Bytes(p, m + n)
  BY <1>3, <1>5, <1>6, BytesEqual, Zenon
<1> QED BY <1>7, Zenon DEF u, s, t

LEMMA BytesCut ==
  ASSUME NEW p \in Int, NEW n \in Nat, NEW t \in Nat, t <= n
  PROVE  SubSeq(Rx!Bytes(p, n), t + 1, n) = Rx!Bytes(p + t, n - t)
<1> DEFINE s == Rx!Bytes(p, n)
           u == SubSeq(s, t + 1, n)
<1>1. s \in Seq(Int) /\ Len(s) = n /\ \A i \in 1 .. n : s[i] = p + i - 1
  BY BytesAre, Zenon
<1> HIDE DEF s
<1>2. u \in Seq(Int) /\ Len(u) = n - t
  BY <1>1
<1>3. \A i \in 1 .. n - t : u[i] = s[i + t]
  BY <1>1
<1>4. \A i \in 1 .. n - t : i + t \in 1 .. n /\ p + (i + t) - 1 = (p + t) + i - 1
  OBVIOUS
<1>5. n - t \in Nat /\ p + t \in Int
  OBVIOUS
<1> HIDE DEF u
<1>6. \A i \in 1 .. n - t : u[i] = (p + t) + i - 1
  BY <1>1, <1>3, <1>4, Zenon
<1>7. u = Rx!Bytes(p + t, n - t)
  BY <1>2, <1>5, <1>6, BytesEqual, Zenon
<1> QED BY <1>7, Zenon DEF u, s

\* The cached segment of n bytes from position p on.
Seg(p, n) == [seq |-> Rx!SeqNo(p), data |-> Rx!Bytes(p, n)]
From(s) == s.data[1]
To(s) == s.data[1] + Len(s.data)

LEMMA SegIs ==
  ASSUME NEW p \in Int, NEW n \in Nat, n >= 1
  PROVE  /\ Seg(p, n).seq = Rx!SeqNo(p) /\ Seg(p, n).data = Rx!Bytes(p, n)
         /\ Len(Seg(p, n).data) = n /\ From(Seg(p, n)) = p /\ To(Seg(p, n)) = p + n
         /\ Seg(p, n) # Rx!Unused
<1> DEFINE b == Rx!Bytes(p, n)
           s == Seg(p, n)
<1>1. s.seq = Rx!SeqNo(p) /\ s.data = b
  BY DEF Seg
<1>2. Len(b) = n /\ \A i \in 1 .. n : b[i] = p + i - 1
  BY BytesAre, Zenon
<1>3. 1 \in 1 .. n /\ p + 1 - 1 = p
  OBVIOUS
<1>4. b[1] = p
  BY <1>2, <1>3, Zenon
<1>5. Len(Rx!Unused.data) = 0 /\ n # 0
  BY DEF Rx!Unused
<1> HIDE DEF b, s
<1> QED BY <1>1, <1>2, <1>4, <1>5, Zenon DEF From, To, s, b

LEMMA UnusedIs == Rx!Unused.data = <<>> /\ Len(Rx!Unused.data) = 0
  BY DEF Rx!Unused

-----------------------------------------------------------------------------
\* The number of cached bytes.

IsTotal(f, o) == f = [k \in 0 .. RxSlots |-> IF k = 0 THEN 0 ELSE f[k - 1] + Len(o[k].data)]
Sums(o, n) == \E f \in [0 .. RxSlots -> Int] : IsTotal(f, o) /\ f[RxSlots] = n

LEMMA TotalRules ==
  ASSUME NEW o, NEW f
  PROVE  IsTotal(f, o) <=>
           /\ f = [k \in 0 .. RxSlots |-> f[k]]
           /\ \A k \in 0 .. RxSlots : f[k] = IF k = 0 THEN 0 ELSE f[k - 1] + Len(o[k].data)
  BY Zenon DEF IsTotal

LEMMA SumsTotal ==
  ASSUME NEW o, NEW n, Sums(o, n)
  PROVE  Rx!CachedBytes(o) = n
<1>1. PICK g : IsTotal(g, o) /\ g[RxSlots] = n
  BY Zenon DEF Sums
<1> DEFINE f == CHOOSE h : IsTotal(h, o)
<1>2. IsTotal(f, o)
  BY <1>1, Zenon
<1> HIDE DEF f
<1> DEFINE T == {k \in 0 .. RxSlots : f[k] # g[k]}
<1>3. ASSUME T # {} PROVE FALSE
  <2>1. T \subseteq Nat
    BY Widths
  <2>2. PICK m \in T : \A k \in T : m <= k
    BY <1>3, <2>1, LeastNumber, Zenon
  <2>3. m \in 0 .. RxSlots /\ f[m] # g[m]
    BY Zenon
  <2>4. m # 0
    BY <1>1, <1>2, <2>3, TotalRules, Zenon
  <2>5. m - 1 \in 0 .. RxSlots /\ ~(m <= m - 1)
    BY <2>3, <2>4, Widths
  <2>6. f[m - 1] = g[m - 1]
    BY <2>2, <2>5, Zenon
  <2> QED BY <1>1, <1>2, <2>3, <2>4, <2>6, TotalRules, Zenon
<1>4. RxSlots \in 0 .. RxSlots
  BY Widths
<1>5. f[RxSlots] = n
  BY <1>1, <1>3, <1>4, Zenon
<1> QED BY <1>5, Zenon DEF Rx!CachedBytes, IsTotal, f

LEMMA SumsNone ==
  ASSUME NEW o, \A i \in Rx!Slot : o[i] = Rx!Unused
  PROVE  Sums(o, 0)
<1> DEFINE g == [k \in 0 .. RxSlots |-> 0]
<1>1. g \in [0 .. RxSlots -> Int] /\ g = [k \in 0 .. RxSlots |-> g[k]] /\ \A k \in 0 .. RxSlots : g[k] = 0
  OBVIOUS
<1> HIDE DEF g
<1>2. \A k \in 0 .. RxSlots : g[k] = IF k = 0 THEN 0 ELSE g[k - 1] + Len(o[k].data)
  <2> SUFFICES ASSUME NEW k \in 0 .. RxSlots, k # 0 PROVE g[k] = g[k - 1] + Len(o[k].data)
    BY <1>1, Zenon
  <2>1. k - 1 \in 0 .. RxSlots /\ k \in Rx!Slot
    BY Widths DEF Rx!Slot
  <2>2. g[k] = 0 /\ g[k - 1] = 0 /\ Len(o[k].data) = 0
    BY <1>1, <2>1, UnusedIs, Zenon
  <2> QED BY <2>2
<1>3. RxSlots \in 0 .. RxSlots
  BY Widths
<1> QED BY <1>1, <1>2, <1>3, TotalRules, Zenon DEF Sums

LEMMA SumsPut ==
  ASSUME NEW o, NEW b \in Int, Sums(o, b), NEW i \in Rx!Slot, NEW s, NEW u,
         o = [j \in Rx!Slot |-> o[j]], u = [o EXCEPT ![i] = s],
         \A j \in Rx!Slot : Len(o[j].data) \in Int, Len(s.data) \in Int
  PROVE  Sums(u, (b - Len(o[i].data)) + Len(s.data))
<1> DEFINE old == Len(o[i].data)
           new == Len(s.data)
           e == new - old
           z == (b - old) + new
<1>1. PICK f \in [0 .. RxSlots -> Int] : IsTotal(f, o) /\ f[RxSlots] = b
  BY Zenon DEF Sums
<1>2. \A k \in 0 .. RxSlots : f[k] = IF k = 0 THEN 0 ELSE f[k - 1] + Len(o[k].data)
  BY <1>1, TotalRules, Zenon
<1>3. u[i] = s /\ \A j \in Rx!Slot : j # i => u[j] = o[j]
  BY Zenon
<1>4. i \in Nat /\ 1 <= i /\ i <= RxSlots /\ RxSlots \in Nat
  BY Widths DEF Rx!Slot
<1> DEFINE g == [k \in 0 .. RxSlots |-> IF k < i THEN f[k] ELSE f[k] + e]
<1>5. e \in Int /\ \A k \in 0 .. RxSlots : f[k] \in Int
  BY <1>1
<1> HIDE DEF e
<1>6. g \in [0 .. RxSlots -> Int] /\ g = [k \in 0 .. RxSlots |-> g[k]]
      /\ \A k \in 0 .. RxSlots : g[k] = IF k < i THEN f[k] ELSE f[k] + e
  BY <1>5
<1> HIDE DEF g
<1>7. ASSUME NEW k \in 0 .. RxSlots PROVE g[k] = IF k = 0 THEN 0 ELSE g[k - 1] + Len(u[k].data)
  <2>1. CASE k = 0
    <3>1. k < i
      BY <1>4, <2>1
    <3> QED BY <1>2, <1>6, <2>1, <3>1, Zenon
  <2>2. CASE k # 0 /\ k < i
    <3>1. k - 1 \in 0 .. RxSlots /\ k - 1 < i /\ k \in Rx!Slot /\ k # i
      BY <1>4, <2>2 DEF Rx!Slot
    <3> QED BY <1>2, <1>3, <1>6, <2>2, <3>1, Zenon
  <2>3. CASE k = i
    <3>1. k - 1 \in 0 .. RxSlots /\ k - 1 < i /\ ~(k < i) /\ k # 0
      BY <1>4, <2>3
    <3>2. g[k] = f[k] + e /\ g[k - 1] = f[k - 1] /\ f[k] = f[k - 1] + old /\ Len(u[k].data) = new
      BY <1>2, <1>3, <1>6, <2>3, <3>1, Zenon
    <3>3. f[k - 1] \in Int
      BY <1>5, <3>1, Zenon
    <3> HIDE DEF old, new
    <3>4. old \in Int /\ new \in Int
      BY Zenon DEF old, new
    <3>5. g[k] = g[k - 1] + new
      BY <3>2, <3>3, <3>4 DEF e
    <3> QED BY <3>1, <3>2, <3>5, Zenon
  <2>4. CASE k > i
    <3>1. k - 1 \in 0 .. RxSlots /\ ~(k - 1 < i) /\ ~(k < i) /\ k # 0 /\ k \in Rx!Slot /\ k # i
      BY <1>4, <2>4 DEF Rx!Slot
    <3> DEFINE l == Len(o[k].data)
    <3>2. g[k] = f[k] + e /\ g[k - 1] = f[k - 1] + e /\ f[k] = f[k - 1] + l /\ u[k] = o[k]
      BY <1>2, <1>3, <1>6, <3>1, Zenon
    <3>3. f[k] \in Int /\ f[k - 1] \in Int
      BY <1>5, <3>1, Zenon
    <3>4. l \in Int
      BY <3>1, Zenon
    <3> HIDE DEF l
    <3>5. g[k] = g[k - 1] + l
      BY <1>5, <3>2, <3>3, <3>4
    <3> QED BY <3>1, <3>2, <3>5, Zenon DEF l
  <2> QED BY <1>4, <2>1, <2>2, <2>3, <2>4
<1>8. IsTotal(g, u)
  BY <1>6, <1>7, TotalRules, Zenon
<1>9. g[RxSlots] = z
  <2>1. RxSlots \in 0 .. RxSlots /\ ~(RxSlots < i)
    BY <1>4
  <2>2. g[RxSlots] = b + e
    BY <1>1, <1>6, <2>1, Zenon
  <2> HIDE DEF old, new
  <2>3. old \in Int /\ new \in Int
    BY Zenon DEF old, new
  <2> QED BY <2>2, <2>3 DEF e
<1> QED BY <1>6, <1>8, <1>9, Zenon DEF Sums

-----------------------------------------------------------------------------
\* The segments cached ahead of sequence.

Whole(s, lo, hi) == \E p \in Int, n \in Nat : n >= 1 /\ s = Seg(p, n) /\ lo <= p /\ p + n <= hi
SlotOK(s, lo, hi) == s = Rx!Unused \/ Whole(s, lo, hi)
Clear(s, t) == To(s) <= From(t) \/ To(t) <= From(s)
Apart(o) ==
  \A i, j \in Rx!Slot : i # j /\ o[i] # Rx!Unused /\ o[j] # Rx!Unused => Clear(o[i], o[j])

\* Slots o with b bytes, of the positions from lo up to hi.
GoodCache(o, b, lo, hi) ==
  /\ o = [i \in Rx!Slot |-> o[i]]
  /\ \A i \in Rx!Slot : SlotOK(o[i], lo, hi)
  /\ Apart(o)
  /\ b \in Int /\ Sums(o, b)

LEMMA SlotLen ==
  ASSUME NEW s, NEW lo, NEW hi, SlotOK(s, lo, hi)
  PROVE  Len(s.data) \in Nat
<1>1. CASE s = Rx!Unused
  BY <1>1, UnusedIs
<1>2. ASSUME NEW p \in Int, NEW n \in Nat, n >= 1, s = Seg(p, n) PROVE Len(s.data) \in Nat
  BY <1>2, SegIs, Zenon
<1> QED BY <1>1, <1>2, Zenon DEF SlotOK, Whole

\* Segment s and the slots other than i have no byte in common.
ClearOf(o, i, s) ==
  s # Rx!Unused => \A j \in Rx!Slot : j # i /\ o[j] # Rx!Unused => Clear(s, o[j])

LEMMA CachePut ==
  ASSUME NEW o, NEW b, NEW lo, NEW hi, GoodCache(o, b, lo, hi),
         NEW i \in Rx!Slot, NEW s, SlotOK(s, lo, hi),
         ClearOf(o, i, s)
  PROVE  GoodCache([o EXCEPT ![i] = s], (b - Len(o[i].data)) + Len(s.data), lo, hi)
<1> DEFINE u == [o EXCEPT ![i] = s]
           z == (b - Len(o[i].data)) + Len(s.data)
<1>1. /\ o = [j \in Rx!Slot |-> o[j]] /\ (\A j \in Rx!Slot : SlotOK(o[j], lo, hi)) /\ Apart(o)
      /\ b \in Int /\ Sums(o, b)
  BY Zenon DEF GoodCache
<1>2. u[i] = s /\ (\A j \in Rx!Slot : j # i => u[j] = o[j]) /\ u = [j \in Rx!Slot |-> u[j]]
  BY <1>1, Zenon
<1>a. u = [o EXCEPT ![i] = s]
  OBVIOUS
<1> HIDE DEF u
<1>3. \A j \in Rx!Slot : SlotOK(u[j], lo, hi)
  BY <1>1, <1>2, Zenon
<1>4. Apart(u)
  <2> SUFFICES ASSUME NEW j \in Rx!Slot, NEW k \in Rx!Slot, j # k,
                      u[j] # Rx!Unused, u[k] # Rx!Unused
               PROVE  Clear(u[j], u[k])
    BY Zenon DEF Apart
  <2>1. CASE j = i
    BY <1>2, <2>1, Zenon DEF ClearOf
  <2>2. CASE k = i
    <3>1. Clear(s, o[j]) /\ u[j] = o[j] /\ u[k] = s
      BY <1>2, <2>2, Zenon DEF ClearOf
    <3> QED BY <3>1, Zenon DEF Clear
  <2>3. CASE j # i /\ k # i
    BY <1>1, <1>2, <2>3, Zenon DEF Apart
  <2> QED BY <2>1, <2>2, <2>3, Zenon
<1>5. (\A j \in Rx!Slot : Len(o[j].data) \in Nat) /\ Len(s.data) \in Nat
  BY <1>1, SlotLen, Zenon
<1>6. (\A j \in Rx!Slot : Len(o[j].data) \in Int) /\ Len(s.data) \in Int
  BY <1>5
<1>7. Sums(u, z)
  BY <1>1, <1>6, <1>a, SumsPut, Zenon
<1>8. z \in Int
  BY <1>1, <1>6
<1> HIDE DEF z
<1>9. GoodCache(u, z, lo, hi)
  BY <1>2, <1>3, <1>4, <1>7, <1>8, Zenon DEF GoodCache
<1> QED BY <1>9, Zenon DEF u, z

\* What lies in the cache from lo on.
LEMMA CacheFrom ==
  ASSUME NEW o, NEW b, NEW lo, NEW hi, GoodCache(o, b, lo, hi), NEW from,
         \A i \in Rx!Slot : o[i] = Rx!Unused \/ from <= From(o[i])
  PROVE  GoodCache(o, b, from, hi)
<1> SUFFICES ASSUME NEW i \in Rx!Slot PROVE SlotOK(o[i], from, hi)
  BY Zenon DEF GoodCache
<1>1. CASE o[i] = Rx!Unused
  BY <1>1, Zenon DEF SlotOK
<1>2. CASE o[i] # Rx!Unused
  <2>1. SlotOK(o[i], lo, hi)
    BY Zenon DEF GoodCache
  <2>2. PICK p \in Int, n \in Nat : n >= 1 /\ o[i] = Seg(p, n) /\ p + n <= hi
    BY <1>2, <2>1, Zenon DEF SlotOK, Whole
  <2>3. From(o[i]) = p
    BY <2>2, SegIs, Zenon
  <2> QED BY <1>2, <2>2, <2>3, Zenon DEF SlotOK, Whole
<1> QED BY <1>1, <1>2, Zenon

\* More room than before.
LEMMA CacheWider ==
  ASSUME NEW o, NEW b, NEW lo \in Int, NEW hi \in Int, GoodCache(o, b, lo, hi),
         NEW lo2 \in Int, NEW hi2 \in Int, lo2 <= lo, hi <= hi2
  PROVE  GoodCache(o, b, lo2, hi2)
<1> SUFFICES ASSUME NEW i \in Rx!Slot PROVE SlotOK(o[i], lo2, hi2)
  BY Zenon DEF GoodCache
<1>1. SlotOK(o[i], lo, hi)
  BY Zenon DEF GoodCache
<1>2. ASSUME NEW p \in Int, NEW n \in Nat, n >= 1, o[i] = Seg(p, n), lo <= p, p + n <= hi
      PROVE  SlotOK(o[i], lo2, hi2)
  <2>1. lo2 <= p /\ p + n <= hi2
    BY <1>2
  <2> QED BY <1>2, <2>1, Zenon DEF SlotOK, Whole
<1> QED BY <1>1, <1>2, Zenon DEF SlotOK, Whole

-----------------------------------------------------------------------------
\* A connection that has received the stream up to rd + Len(rxb), of which the
\* program has read rd bytes.

IsConn(c) ==
  c = [rcv_nxt |-> c.rcv_nxt, rxb |-> c.rxb, ooo |-> c.ooo, ooo_bytes |-> c.ooo_bytes]

GoodBuffer(c, rd) ==
  /\ Len(c.rxb) \in Nat /\ Len(c.rxb) <= RxBuf
  /\ c.rxb = Rx!Bytes(rd, Len(c.rxb))
  /\ c.rcv_nxt = Rx!SeqNo(rd + Len(c.rxb))

GoodConn(c, rd, lo) ==
  IsConn(c) /\ GoodBuffer(c, rd) /\ GoodCache(c.ooo, c.ooo_bytes, lo, rd + RxBuf + 1)

\* rd bytes were read, and nothing is cached from before lo.
Place(rd, lo) == rd \in Nat /\ lo \in Int /\ rd - RxBuf <= lo

LEMMA NearIs ==
  ASSUME NEW x \in Int, NEW y \in Int, NEW w \in Nat, x - y <= w, y - x <= w,
         w <= 2 * RxBuf + RxBack + 2
  PROVE  Near(x, y)
<1>1. w < Half /\ Half \in Nat
  BY Widths
<1> QED BY <1>1 DEF Near

\* What a turn of tcp_merge_ooo() for slot i makes of a connection c.
MergeStep(c, d, i, rd, lo) ==
  /\ GoodConn(d, rd, lo) /\ Len(c.rxb) <= Len(d.rxb)
  /\ \A j \in Rx!Slot : j # i => d.ooo[j] = c.ooo[j]
  /\ d.ooo[i] = Rx!Unused \/ rd + Len(c.rxb) <= From(d.ooo[i])

LEMMA DropIs ==
  ASSUME NEW c, IsConn(c), NEW i \in Rx!Slot
  PROVE  LET d == Rx!Drop(c, i) IN
         /\ IsConn(d) /\ d.rxb = c.rxb /\ d.rcv_nxt = c.rcv_nxt
         /\ d.ooo = [c.ooo EXCEPT ![i] = Rx!Unused]
         /\ d.ooo_bytes = c.ooo_bytes - Len(c.ooo[i].data)
<1>1. ASSUME NEW d, d = Rx!Drop(c, i)
      PROVE  /\ IsConn(d) /\ d.rxb = c.rxb /\ d.rcv_nxt = c.rcv_nxt
             /\ d.ooo = [c.ooo EXCEPT ![i] = Rx!Unused]
             /\ d.ooo_bytes = c.ooo_bytes - Len(c.ooo[i].data)
  BY <1>1, Zenon DEF IsConn, Rx!Drop
<1> QED BY <1>1, Zenon

LEMMA DropGood ==
  ASSUME NEW c, NEW rd, NEW lo, GoodConn(c, rd, lo), NEW i \in Rx!Slot
  PROVE  /\ GoodConn(Rx!Drop(c, i), rd, lo) /\ Rx!Drop(c, i).rxb = c.rxb
         /\ Rx!Drop(c, i).ooo[i] = Rx!Unused
         /\ \A j \in Rx!Slot : j # i => Rx!Drop(c, i).ooo[j] = c.ooo[j]
<1> DEFINE d == Rx!Drop(c, i)
           old == Len(c.ooo[i].data)
<1>1. IsConn(c) /\ GoodBuffer(c, rd) /\ GoodCache(c.ooo, c.ooo_bytes, lo, rd + RxBuf + 1)
  BY Zenon DEF GoodConn
<1>2. /\ IsConn(d) /\ d.rxb = c.rxb /\ d.rcv_nxt = c.rcv_nxt
      /\ d.ooo = [c.ooo EXCEPT ![i] = Rx!Unused] /\ d.ooo_bytes = c.ooo_bytes - old
  BY <1>1, DropIs, Zenon
<1> HIDE DEF d
<1>3. GoodBuffer(d, rd)
  BY <1>1, <1>2, Zenon DEF GoodBuffer
<1>4. c.ooo_bytes \in Int /\ old \in Nat /\ c.ooo = [j \in Rx!Slot |-> c.ooo[j]]
  BY <1>1, SlotLen, Zenon DEF GoodCache
<1> HIDE DEF old
<1>5. d.ooo_bytes = (c.ooo_bytes - old) + Len(Rx!Unused.data)
  BY <1>2, <1>4, UnusedIs
<1>6. SlotOK(Rx!Unused, lo, rd + RxBuf + 1)
  BY Zenon DEF SlotOK
<1>7. GoodCache(d.ooo, d.ooo_bytes, lo, rd + RxBuf + 1)
  <2>1. ClearOf(c.ooo, i, Rx!Unused)
    BY Zenon DEF ClearOf
  <2>2. GoodCache([c.ooo EXCEPT ![i] = Rx!Unused],
                  (c.ooo_bytes - Len(c.ooo[i].data)) + Len(Rx!Unused.data), lo, rd + RxBuf + 1)
    BY <1>1, <1>6, <2>1, CachePut, Zenon
  <2> QED BY <1>2, <1>5, <2>2, Zenon DEF old
<1>8. d.ooo[i] = Rx!Unused /\ \A j \in Rx!Slot : j # i => d.ooo[j] = c.ooo[j]
  BY <1>2, <1>4, Zenon
<1> QED BY <1>2, <1>3, <1>7, <1>8, Zenon DEF GoodConn, d

LEMMA SlotIs ==
  ASSUME NEW s, NEW lo \in Int, NEW hi \in Int, SlotOK(s, lo, hi), s # Rx!Unused
  PROVE  \E p \in Int, n \in Nat :
           /\ n >= 1 /\ s = Seg(p, n) /\ lo <= p /\ p + n <= hi
           /\ s.seq = Rx!SeqNo(p) /\ s.data = Rx!Bytes(p, n) /\ Len(s.data) = n
           /\ From(s) = p /\ To(s) = p + n
<1>1. PICK p \in Int, n \in Nat : n >= 1 /\ s = Seg(p, n) /\ lo <= p /\ p + n <= hi
  BY Zenon DEF SlotOK, Whole
<1>2. /\ s.seq = Rx!SeqNo(p) /\ s.data = Rx!Bytes(p, n) /\ Len(s.data) = n
      /\ From(s) = p /\ To(s) = p + n
  BY <1>1, SegIs, Zenon
<1> QED BY <1>1, <1>2, Zenon

LEMMA SlotFrom ==
  ASSUME NEW s, NEW lo \in Int, NEW hi \in Int, SlotOK(s, lo, hi), s # Rx!Unused
  PROVE  From(s) \in Int
<1>1. PICK p \in Int, n \in Nat : n >= 1 /\ s = Seg(p, n)
  BY Zenon DEF SlotOK, Whole
<1>2. From(s) = p
  BY <1>1, SegIs, Zenon
<1> QED BY <1>2, Zenon

\* Where the next byte, and a cached segment of a connection, may lie.
LEMMA Placed ==
  ASSUME NEW c, NEW rd, NEW lo, Place(rd, lo), GoodBuffer(c, rd)
  PROVE  /\ rd \in Nat /\ lo \in Int /\ rd + RxBuf + 1 \in Int
         /\ rd + Len(c.rxb) \in Nat
         /\ \A p \in Int : lo <= p /\ p <= rd + RxBuf + 1 => Near(p, rd + Len(c.rxb))
<1> DEFINE R == rd + Len(c.rxb)
           l == Len(c.rxb)
           w == 2 * RxBuf + 1
<1>1. /\ rd \in Nat /\ lo \in Int /\ rd - RxBuf <= lo /\ l \in Nat /\ l <= RxBuf
      /\ RxBuf \in Nat /\ RxBack \in Nat
  BY Widths, Zenon DEF Place, GoodBuffer
<1>2. R = rd + l
  OBVIOUS
<1> HIDE DEF l, R
<1>3. R \in Nat /\ rd + RxBuf + 1 \in Int
  BY <1>1, <1>2
<1>4. ASSUME NEW p \in Int, lo <= p, p <= rd + RxBuf + 1 PROVE Near(p, R)
  <2>1. R \in Int /\ w \in Nat /\ p - R <= w /\ R - p <= w /\ w <= 2 * RxBuf + RxBack + 2
    BY <1>1, <1>2, <1>4
  <2> HIDE DEF w
  <2> QED BY <2>1, NearIs, Zenon
<1> QED BY <1>1, <1>3, <1>4, Zenon DEF R

\* Slot i of c starts t bytes before rcv_nxt, and d has s in its place.
TrimmedBy(c, i, t, s, d) ==
  /\ Rx!tcp_seq_before(c.ooo[i].seq, c.rcv_nxt)
  /\ t = (c.rcv_nxt - c.ooo[i].seq) % Rx!Mod
  /\ s = [seq |-> c.rcv_nxt, data |-> SubSeq(c.ooo[i].data, t + 1, Len(c.ooo[i].data))]
  /\ d = Rx!Trim(c, i)

\* d is c with segment s in slot i and b bytes cached.
Replaced(c, d, i, s, b) ==
  /\ IsConn(d) /\ d.rxb = c.rxb /\ d.rcv_nxt = c.rcv_nxt
  /\ d.ooo = [c.ooo EXCEPT ![i] = s] /\ d.ooo_bytes = b

GoodPut(c, d, i, s, rd, lo) ==
  /\ GoodConn(d, rd, lo) /\ d.rxb = c.rxb /\ d.ooo[i] = s
  /\ \A j \in Rx!Slot : j # i => d.ooo[j] = c.ooo[j]

LEMMA ReplacedGood ==
  ASSUME NEW c, NEW rd, NEW lo, GoodConn(c, rd, lo), NEW i \in Rx!Slot, NEW s, NEW d,
         SlotOK(s, lo, rd + RxBuf + 1), ClearOf(c.ooo, i, s),
         Replaced(c, d, i, s, (c.ooo_bytes - Len(c.ooo[i].data)) + Len(s.data))
  PROVE  GoodPut(c, d, i, s, rd, lo)
<1> DEFINE z == (c.ooo_bytes - Len(c.ooo[i].data)) + Len(s.data)
<1>1. IsConn(c) /\ GoodBuffer(c, rd) /\ GoodCache(c.ooo, c.ooo_bytes, lo, rd + RxBuf + 1)
  BY Zenon DEF GoodConn
<1>2. /\ IsConn(d) /\ d.rxb = c.rxb /\ d.rcv_nxt = c.rcv_nxt
      /\ d.ooo = [c.ooo EXCEPT ![i] = s] /\ d.ooo_bytes = z
  BY Zenon DEF Replaced
<1>3. GoodCache([c.ooo EXCEPT ![i] = s], z, lo, rd + RxBuf + 1)
  BY <1>1, CachePut, Zenon
<1> HIDE DEF z
<1>4. GoodBuffer(d, rd)
  BY <1>1, <1>2, Zenon DEF GoodBuffer
<1>5. c.ooo = [j \in Rx!Slot |-> c.ooo[j]]
  BY <1>1, Zenon DEF GoodCache
<1>6. d.ooo[i] = s /\ \A j \in Rx!Slot : j # i => d.ooo[j] = c.ooo[j]
  BY <1>2, <1>5, Zenon
<1>7. GoodCache(d.ooo, d.ooo_bytes, lo, rd + RxBuf + 1)
  BY <1>2, <1>3, Zenon
<1> QED BY <1>2, <1>4, <1>6, <1>7, Zenon DEF GoodConn, GoodPut

LEMMA TrimIs ==
  ASSUME NEW c, IsConn(c), NEW i \in Rx!Slot, NEW t, NEW s, NEW d, TrimmedBy(c, i, t, s, d)
  PROVE  Replaced(c, d, i, s, c.ooo_bytes - t)
  BY Zenon DEF IsConn, Rx!Trim, TrimmedBy, Replaced

\* How far a segment from p on starts before the position r.
LEMMA TrimBy ==
  ASSUME NEW p \in Int, NEW r \in Int, p <= r, Near(p, r)
  PROVE  (Rx!SeqNo(r) - Rx!SeqNo(p)) % Rx!Mod = r - p
<1> DEFINE a == Rx!SeqNo(r)
           b == Rx!SeqNo(p)
           n == Rx!Mod
<1>1. a \in Int /\ b \in Int
  BY SeqType, Zenon
<1>2. ((a + 0) - (b + 0)) % n = ((r + 0) - (p + 0)) % n
  BY SeqDiff
<1> HIDE DEF a, b
<1>3. (a + 0) - (b + 0) = a - b /\ (r + 0) - (p + 0) = r - p
  BY <1>1
<1>4. n \in Nat /\ n > 0 /\ Half \in Nat /\ 2 * Half <= n /\ -Half < p - r
  BY Widths, Zenon DEF Near
<1> HIDE DEF n
<1>5. r - p \in Int /\ 0 <= r - p /\ r - p < n
  BY <1>4
<1>6. (r - p) % n = r - p
  BY <1>4, <1>5, ModSmall, Zenon
<1> QED BY <1>2, <1>3, <1>6, Zenon DEF a, b, n

LEMMA TrimGood ==
  ASSUME NEW c, NEW rd, NEW lo, Place(rd, lo), GoodConn(c, rd, lo), NEW i \in Rx!Slot,
         c.ooo[i] # Rx!Unused, rd + Len(c.rxb) < To(c.ooo[i])
  PROVE  /\ GoodConn(Rx!Trim(c, i), rd, lo) /\ Rx!Trim(c, i).rxb = c.rxb
         /\ Rx!Trim(c, i).ooo[i] # Rx!Unused
         /\ rd + Len(c.rxb) <= From(Rx!Trim(c, i).ooo[i])
         /\ \A j \in Rx!Slot : j # i => Rx!Trim(c, i).ooo[j] = c.ooo[j]
<1> DEFINE R == rd + Len(c.rxb)
           hi == rd + RxBuf + 1
           d == Rx!Trim(c, i)
           o == c.ooo
<1>1. IsConn(c) /\ GoodBuffer(c, rd) /\ GoodCache(o, c.ooo_bytes, lo, hi)
  BY Zenon DEF GoodConn
<1>2. /\ rd \in Nat /\ lo \in Int /\ hi \in Int /\ R \in Nat
      /\ \A p \in Int : lo <= p /\ p <= hi => Near(p, R)
  BY <1>1, Placed, Zenon
<1>3. c.rcv_nxt = Rx!SeqNo(R) /\ (\A j \in Rx!Slot : SlotOK(o[j], lo, hi)) /\ Apart(o)
      /\ c.ooo_bytes \in Int /\ o = [j \in Rx!Slot |-> o[j]]
  BY <1>1, Zenon DEF GoodBuffer, GoodCache
<1>4. R < To(o[i])
  OBVIOUS
<1> HIDE DEF R, hi, o
<1>5. PICK p \in Int, n \in Nat :
           /\ n >= 1 /\ o[i] = Seg(p, n) /\ lo <= p /\ p + n <= hi
           /\ o[i].seq = Rx!SeqNo(p) /\ o[i].data = Rx!Bytes(p, n) /\ Len(o[i].data) = n
           /\ From(o[i]) = p /\ To(o[i]) = p + n
  BY <1>2, <1>3, SlotIs, Zenon DEF o
<1>6. p <= hi
  BY <1>2, <1>5
<1>7. Near(p, R) /\ R \in Int /\ R < p + n
  BY <1>2, <1>4, <1>5, <1>6
<1>8. Rx!tcp_seq_before(o[i].seq, c.rcv_nxt) <=> p < R
  BY <1>3, <1>5, <1>7, ComparedBoth, Zenon
<1>9. CASE p < R
  <2> DEFINE t == R - p
             q == n - t
             s == Seg(R, q)
  <2>1. t \in Nat /\ t <= n /\ q \in Nat /\ q >= 1 /\ p + t = R /\ p <= R /\ R + q = p + n
    BY <1>5, <1>7, <1>9
  <2>2. (c.rcv_nxt - o[i].seq) % Rx!Mod = t
    BY <1>3, <1>5, <1>7, <2>1, TrimBy, Zenon
  <2> HIDE DEF t, q
  <2>3. SubSeq(o[i].data, t + 1, Len(o[i].data)) = Rx!Bytes(R, q)
    <3>1. SubSeq(Rx!Bytes(p, n), t + 1, n) = Rx!Bytes(p + t, n - t)
      BY <2>1, BytesCut, Zenon
    <3> QED BY <1>5, <2>1, <3>1, Zenon DEF q
  <2>4. [seq |-> c.rcv_nxt, data |-> SubSeq(o[i].data, t + 1, Len(o[i].data))] = s
    BY <1>3, <2>3, Zenon DEF Seg
  <2> HIDE DEF s
  <2>5. Replaced(c, d, i, s, c.ooo_bytes - t)
    <3>1. Rx!tcp_seq_before(c.ooo[i].seq, c.rcv_nxt)
      BY <1>8, <1>9, Zenon DEF o
    <3>2. t = (c.rcv_nxt - c.ooo[i].seq) % Rx!Mod
      BY <2>2, Zenon DEF o
    <3>3. s = [seq |-> c.rcv_nxt, data |-> SubSeq(c.ooo[i].data, t + 1, Len(c.ooo[i].data))]
      BY <2>4, Zenon DEF o
    <3>4. d = Rx!Trim(c, i)
      BY Zenon
    <3> HIDE DEF d
    <3>5. TrimmedBy(c, i, t, s, d)
      BY <3>1, <3>2, <3>3, <3>4, Zenon DEF TrimmedBy
    <3> QED BY <1>1, <3>5, TrimIs, Zenon
  <2> HIDE DEF d
  <2>6. From(s) = R /\ To(s) = p + n /\ Len(s.data) = q /\ s # Rx!Unused
    BY <1>7, <2>1, SegIs, Zenon DEF s
  <2>7. SlotOK(s, lo, hi)
    <3>1. lo <= R /\ R + q <= hi
      BY <1>2, <1>5, <1>9, <2>1
    <3> QED BY <1>7, <2>1, <3>1, Zenon DEF s, SlotOK, Whole
  <2>8. ASSUME NEW j \in Rx!Slot, j # i, o[j] # Rx!Unused PROVE Clear(s, o[j])
    <3>1. Clear(o[i], o[j])
      BY <1>3, <2>8, Zenon DEF Apart, o
    <3>2. PICK x \in Int, m \in Nat : From(o[j]) = x /\ To(o[j]) = x + m
      <4>1. SlotOK(o[j], lo, hi)
        BY <1>3, Zenon
      <4> QED BY <1>2, <2>8, <4>1, SlotIs, ZenonT(60)
    <3>3. p + n <= x \/ x + m <= p
      BY <1>5, <3>1, <3>2, Zenon DEF Clear
    <3>4. p + n <= x \/ x + m <= R
      BY <1>2, <1>5, <1>9, <3>3
    <3> QED BY <2>6, <3>2, <3>4, Zenon DEF Clear
  <2>9. c.ooo_bytes - t = (c.ooo_bytes - Len(o[i].data)) + Len(s.data)
    <3> DEFINE y == c.ooo_bytes
    <3>1. y \in Int
      BY <1>3, Zenon
    <3> HIDE DEF y
    <3>2. y - t = (y - n) + q
      BY <2>1, <3>1 DEF q
    <3> QED BY <1>5, <2>6, <3>2, Zenon DEF y
  <2>10. ClearOf(o, i, s)
    BY <2>8, Zenon DEF ClearOf
  <2>11. /\ GoodConn(d, rd, lo) /\ d.rxb = c.rxb /\ d.ooo[i] = s
         /\ \A j \in Rx!Slot : j # i => d.ooo[j] = c.ooo[j]
    <3>1. Replaced(c, d, i, s, (c.ooo_bytes - Len(c.ooo[i].data)) + Len(s.data))
      BY <2>5, <2>9, Zenon DEF o
    <3>2. SlotOK(s, lo, rd + RxBuf + 1) /\ ClearOf(c.ooo, i, s)
      BY <2>7, <2>10, Zenon DEF o, hi
    <3>3. GoodPut(c, d, i, s, rd, lo)
      BY <3>1, <3>2, ReplacedGood, Zenon
    <3> QED BY <3>3, Zenon DEF GoodPut
  <2>12. R <= R
    BY <1>2
  <2> QED BY <2>6, <2>11, <2>12, Zenon DEF d, R
<1>10. CASE ~(p < R)
  <2>1. d = c
    BY <1>8, <1>10, Zenon DEF Rx!Trim, o
  <2>2. R <= From(o[i])
    BY <1>2, <1>5, <1>10
  <2> HIDE DEF d
  <2> QED BY <2>1, <2>2, Zenon DEF d, R, o
<1> QED BY <1>9, <1>10, Zenon

LEMMA DeliverGood ==
  ASSUME NEW c, NEW rd, NEW lo, Place(rd, lo), GoodConn(c, rd, lo), NEW i \in Rx!Slot,
         c.ooo[i] # Rx!Unused, rd + Len(c.rxb) <= From(c.ooo[i])
  PROVE  MergeStep(c, Rx!Deliver(c, i), i, rd, lo)
<1> DEFINE R == rd + Len(c.rxb)
           hi == rd + RxBuf + 1
           l == Len(c.rxb)
           e == Rx!Drop(c, i)
<1>1. IsConn(c) /\ GoodBuffer(c, rd) /\ GoodCache(c.ooo, c.ooo_bytes, lo, hi)
  BY Zenon DEF GoodConn
<1>2. /\ rd \in Nat /\ lo \in Int /\ hi \in Int /\ R \in Nat
      /\ \A p \in Int : lo <= p /\ p <= hi => Near(p, R)
  BY <1>1, Placed, Zenon
<1>3. /\ c.rcv_nxt = Rx!SeqNo(R) /\ SlotOK(c.ooo[i], lo, hi)
      /\ l \in Nat /\ l <= RxBuf /\ c.rxb = Rx!Bytes(rd, l)
  BY <1>1, Zenon DEF GoodBuffer, GoodCache
<1>4. R <= From(c.ooo[i]) /\ R = rd + l
  OBVIOUS
<1> HIDE DEF R, hi, l
<1>5. l <= l
  BY <1>3
<1>6. PICK p \in Int, n \in Nat :
           /\ n >= 1 /\ c.ooo[i] = Seg(p, n) /\ lo <= p /\ p + n <= hi
           /\ c.ooo[i].seq = Rx!SeqNo(p) /\ c.ooo[i].data = Rx!Bytes(p, n) /\ Len(c.ooo[i].data) = n
           /\ From(c.ooo[i]) = p /\ To(c.ooo[i]) = p + n
  BY <1>2, <1>3, SlotIs, Zenon
<1>7. p <= hi /\ R \in Int
  BY <1>2, <1>6
<1>8. Near(p, R)
  BY <1>2, <1>6, <1>7, Zenon
<1>9. CASE c.ooo[i].seq = c.rcv_nxt /\ l + n <= RxBuf
  <2> DEFINE d == Rx!Deliver(c, i)
  <2>1. p = R
    BY <1>3, <1>6, <1>7, <1>8, <1>9, SeqSame, Zenon
  <2>2. /\ GoodConn(e, rd, lo) /\ e.rxb = c.rxb /\ e.ooo[i] = Rx!Unused
        /\ \A j \in Rx!Slot : j # i => e.ooo[j] = c.ooo[j]
    BY DropGood, Zenon
  <2>3. IsConn(e) /\ GoodBuffer(e, rd) /\ GoodCache(e.ooo, e.ooo_bytes, lo, hi)
    BY <2>2, Zenon DEF GoodConn, hi
  <2>4. e.rcv_nxt = c.rcv_nxt
    BY <1>1, DropIs, Zenon
  <2>5. d = [e EXCEPT !.rxb = @ \o c.ooo[i].data, !.rcv_nxt = (@ + Len(c.ooo[i].data)) % Rx!Mod]
    BY <1>6, <1>9, Zenon DEF Rx!Deliver, l
  <2> HIDE DEF d, e
  <2>6. /\ IsConn(d) /\ d.rxb = e.rxb \o c.ooo[i].data /\ d.ooo = e.ooo /\ d.ooo_bytes = e.ooo_bytes
        /\ d.rcv_nxt = (e.rcv_nxt + Len(c.ooo[i].data)) % Rx!Mod
    BY <2>3, <2>5, Zenon DEF IsConn
  <2>7. d.rxb = Rx!Bytes(rd, l + n)
    <3>1. Rx!Bytes(rd, l) \o Rx!Bytes(rd + l, n) = Rx!Bytes(rd, l + n)
      <4>1. rd \in Int
        BY <1>2
      <4> QED BY <1>3, <4>1, BytesJoin, Zenon
    <3> QED BY <1>3, <1>4, <1>6, <2>1, <2>2, <2>6, <3>1, Zenon
  <2>8. l + n \in Nat /\ rd \in Int /\ l <= l + n /\ rd + (l + n) = R + n
    BY <1>2, <1>3, <1>4
  <2>9. Len(d.rxb) = l + n
    BY <2>7, <2>8, BytesAre, Zenon
  <2>10. d.rcv_nxt = Rx!SeqNo(R + n)
    <3>1. n \in Int
      OBVIOUS
    <3> QED BY <1>3, <1>6, <1>7, <2>4, <2>6, <3>1, SeqPlus, ZenonT(60)
  <2>11. GoodBuffer(d, rd)
    BY <1>9, <2>7, <2>8, <2>9, <2>10, Zenon DEF GoodBuffer
  <2>12. GoodConn(d, rd, lo)
    BY <2>3, <2>6, <2>11, Zenon DEF GoodConn, hi
  <2> QED BY <2>2, <2>6, <2>8, <2>9, <2>12, Zenon DEF MergeStep, d, l
<1>10. CASE ~(c.ooo[i].seq = c.rcv_nxt /\ l + n <= RxBuf)
  <2>1. Rx!Deliver(c, i) = c
    BY <1>6, <1>10, Zenon DEF Rx!Deliver, l
  <2> QED BY <1>4, <1>5, <2>1, Zenon DEF MergeStep, R, l
<1> QED BY <1>9, <1>10, Zenon

LEMMA MergeSlotGood ==
  ASSUME NEW c, NEW rd, NEW lo, Place(rd, lo), GoodConn(c, rd, lo), NEW i \in Rx!Slot
  PROVE  MergeStep(c, Rx!MergeSlot(c, i), i, rd, lo)
<1> DEFINE R == rd + Len(c.rxb)
           hi == rd + RxBuf + 1
           l == Len(c.rxb)
<1>1. IsConn(c) /\ GoodBuffer(c, rd) /\ GoodCache(c.ooo, c.ooo_bytes, lo, hi)
  BY Zenon DEF GoodConn
<1>2. /\ rd \in Nat /\ lo \in Int /\ hi \in Int /\ R \in Nat
      /\ \A p \in Int : lo <= p /\ p <= hi => Near(p, R)
  BY <1>1, Placed, Zenon
<1>3. c.rcv_nxt = Rx!SeqNo(R) /\ SlotOK(c.ooo[i], lo, hi) /\ l \in Nat
  BY <1>1, Zenon DEF GoodBuffer, GoodCache
<1> HIDE DEF R, hi, l
<1>4. l <= l
  BY <1>3
<1>5. CASE c.ooo[i] = Rx!Unused
  <2>1. Rx!MergeSlot(c, i) = c
    BY <1>5, Zenon DEF Rx!MergeSlot
  <2> QED BY <1>4, <1>5, <2>1, Zenon DEF MergeStep, l
<1>6. CASE c.ooo[i] # Rx!Unused
  <2>1. PICK p \in Int, n \in Nat :
           /\ n >= 1 /\ c.ooo[i] = Seg(p, n) /\ lo <= p /\ p + n <= hi
           /\ c.ooo[i].seq = Rx!SeqNo(p) /\ c.ooo[i].data = Rx!Bytes(p, n) /\ Len(c.ooo[i].data) = n
           /\ From(c.ooo[i]) = p /\ To(c.ooo[i]) = p + n
    BY <1>2, <1>3, <1>6, SlotIs, ZenonT(60)
  <2>2. lo <= p + n /\ p + n \in Int /\ R \in Int /\ n \in Int
    BY <1>2, <2>1
  <2>3. Near(p + n, R)
    BY <1>2, <2>1, <2>2, Zenon
  <2>4. Rx!tcp_seq_after(c.ooo[i].seq + Len(c.ooo[i].data), c.rcv_nxt) <=> p + n > R
    BY <1>3, <2>1, <2>2, <2>3, ComparedBare, Zenon
  <2>5. CASE ~(p + n > R)
    <3> DEFINE d == Rx!Drop(c, i)
    <3>1. Rx!MergeSlot(c, i) = d
      BY <1>6, <2>4, <2>5, Zenon DEF Rx!MergeSlot
    <3>2. /\ GoodConn(d, rd, lo) /\ d.rxb = c.rxb /\ d.ooo[i] = Rx!Unused
          /\ \A j \in Rx!Slot : j # i => d.ooo[j] = c.ooo[j]
      BY DropGood, Zenon
    <3> HIDE DEF d
    <3> QED BY <1>4, <3>1, <3>2, Zenon DEF MergeStep, l
  <2>6. CASE p + n > R
    <3> DEFINE t == Rx!Trim(c, i)
               d == Rx!Deliver(t, i)
    <3>1. Rx!MergeSlot(c, i) = d
      BY <1>6, <2>4, <2>6, Zenon DEF Rx!MergeSlot
    <3>2. R < To(c.ooo[i])
      BY <1>2, <2>1, <2>6
    <3>3. /\ GoodConn(t, rd, lo) /\ t.rxb = c.rxb /\ t.ooo[i] # Rx!Unused /\ R <= From(t.ooo[i])
          /\ \A j \in Rx!Slot : j # i => t.ooo[j] = c.ooo[j]
      BY <1>6, <3>2, TrimGood, Zenon DEF R
    <3> HIDE DEF t
    <3>4. MergeStep(t, d, i, rd, lo)
      BY <3>3, DeliverGood, Zenon DEF R
    <3> HIDE DEF d
    <3> QED BY <3>1, <3>3, <3>4, Zenon DEF MergeStep
  <2> QED BY <2>5, <2>6, Zenon
<1> QED BY <1>5, <1>6, Zenon

-----------------------------------------------------------------------------
\* A pass over the slots, and the passes of tcp_merge_ooo().

IsPass(c, n, f) == f = [k \in 0 .. n |-> IF k = 0 THEN c ELSE Rx!MergeSlot(f[k - 1], k)]
IsMerge(c, n, f) == f = [k \in 0 .. n |-> IF k = 0 THEN c ELSE Rx!MergePass(f[k - 1])]

LEMMA PassExists ==
  ASSUME NEW c, NEW n \in Nat
  PROVE  \E f : IsPass(c, n, f)
<1> DEFINE T == {m \in Nat : ~ \E f : IsPass(c, m, f)}
<1>1. SUFFICES ASSUME T # {} PROVE FALSE
  BY Zenon
<1>2. PICK m \in T : \A k \in T : m <= k
  BY <1>1, LeastNumber, Zenon
<1>3. m \in Nat /\ ~ \E f : IsPass(c, m, f)
  BY Zenon
<1> HIDE DEF T
<1>4. m # 0
  <2> DEFINE g == [k \in 0 .. 0 |-> c]
  <2>1. g = [k \in 0 .. 0 |-> IF k = 0 THEN c ELSE Rx!MergeSlot(g[k - 1], k)]
    OBVIOUS
  <2> HIDE DEF g
  <2>2. IsPass(c, 0, g)
    BY <2>1, Zenon DEF IsPass
  <2> QED BY <1>3, <2>2, Zenon
<1>5. PICK f : IsPass(c, m - 1, f)
  <2>1. m - 1 \in Nat /\ ~(m <= m - 1)
    BY <1>3, <1>4
  <2> QED BY <1>2, <2>1, Zenon DEF T
<1>6. \A k \in 0 .. m - 1 : f[k] = IF k = 0 THEN c ELSE Rx!MergeSlot(f[k - 1], k)
  BY <1>5, Zenon DEF IsPass
<1> DEFINE g == [k \in 0 .. m |-> IF k = m THEN Rx!MergeSlot(f[m - 1], m) ELSE f[k]]
<1>7. \A k \in 0 .. m : g[k] = IF k = 0 THEN c ELSE Rx!MergeSlot(g[k - 1], k)
  <2> SUFFICES ASSUME NEW k \in 0 .. m
               PROVE  g[k] = IF k = 0 THEN c ELSE Rx!MergeSlot(g[k - 1], k)
    BY Zenon
  <2>1. CASE k = m
    <3>1. k # 0 /\ m - 1 \in 0 .. m /\ m - 1 # m
      BY <1>3, <1>4, <2>1
    <3> QED BY <2>1, <3>1, Zenon
  <2>2. CASE k # m
    <3>1. k \in 0 .. m - 1 /\ (k # 0 => k - 1 \in 0 .. m /\ k - 1 # m)
      BY <1>3, <2>2
    <3> QED BY <1>6, <2>2, <3>1, Zenon
  <2> QED BY <2>1, <2>2, Zenon
<1>8. g = [k \in 0 .. m |-> g[k]]
  BY Zenon
<1> HIDE DEF g
<1>9. IsPass(c, m, g)
  BY <1>7, <1>8, Zenon DEF IsPass
<1> QED BY <1>3, <1>9, Zenon

LEMMA MergeExists ==
  ASSUME NEW c, NEW n \in Nat
  PROVE  \E f : IsMerge(c, n, f)
<1> DEFINE T == {m \in Nat : ~ \E f : IsMerge(c, m, f)}
<1>1. SUFFICES ASSUME T # {} PROVE FALSE
  BY Zenon
<1>2. PICK m \in T : \A k \in T : m <= k
  BY <1>1, LeastNumber, Zenon
<1>3. m \in Nat /\ ~ \E f : IsMerge(c, m, f)
  BY Zenon
<1> HIDE DEF T
<1>4. m # 0
  <2> DEFINE g == [k \in 0 .. 0 |-> c]
  <2>1. g = [k \in 0 .. 0 |-> IF k = 0 THEN c ELSE Rx!MergePass(g[k - 1])]
    OBVIOUS
  <2> HIDE DEF g
  <2>2. IsMerge(c, 0, g)
    BY <2>1, Zenon DEF IsMerge
  <2> QED BY <1>3, <2>2, Zenon
<1>5. PICK f : IsMerge(c, m - 1, f)
  <2>1. m - 1 \in Nat /\ ~(m <= m - 1)
    BY <1>3, <1>4
  <2> QED BY <1>2, <2>1, Zenon DEF T
<1>6. \A k \in 0 .. m - 1 : f[k] = IF k = 0 THEN c ELSE Rx!MergePass(f[k - 1])
  BY <1>5, Zenon DEF IsMerge
<1> DEFINE g == [k \in 0 .. m |-> IF k = m THEN Rx!MergePass(f[m - 1]) ELSE f[k]]
<1>7. \A k \in 0 .. m : g[k] = IF k = 0 THEN c ELSE Rx!MergePass(g[k - 1])
  <2> SUFFICES ASSUME NEW k \in 0 .. m
               PROVE  g[k] = IF k = 0 THEN c ELSE Rx!MergePass(g[k - 1])
    BY Zenon
  <2>1. CASE k = m
    <3>1. k # 0 /\ m - 1 \in 0 .. m /\ m - 1 # m
      BY <1>3, <1>4, <2>1
    <3> QED BY <2>1, <3>1, Zenon
  <2>2. CASE k # m
    <3>1. k \in 0 .. m - 1 /\ (k # 0 => k - 1 \in 0 .. m /\ k - 1 # m)
      BY <1>3, <2>2
    <3> QED BY <1>6, <2>2, <3>1, Zenon
  <2> QED BY <2>1, <2>2, Zenon
<1>8. g = [k \in 0 .. m |-> g[k]]
  BY Zenon
<1> HIDE DEF g
<1>9. IsMerge(c, m, g)
  BY <1>7, <1>8, Zenon DEF IsMerge
<1> QED BY <1>3, <1>9, Zenon

\* d has received what c has, and nothing before it is cached any more.
Merged(c, d, rd) == GoodConn(d, rd, rd + Len(c.rxb)) /\ Len(c.rxb) <= Len(d.rxb)

LEMMA PassFine ==
  ASSUME NEW c, NEW rd, NEW lo, Place(rd, lo), GoodConn(c, rd, lo),
         NEW f, IsPass(c, RxSlots, f)
  PROVE  Merged(c, f[RxSlots], rd)
<1> DEFINE n == RxSlots
           R == rd + Len(c.rxb)
           hi == rd + RxBuf + 1
           Fine(k) == /\ GoodConn(f[k], rd, lo) /\ Len(c.rxb) <= Len(f[k].rxb)
                      /\ \A j \in Rx!Slot : j <= k => f[k].ooo[j] = Rx!Unused \/ R <= From(f[k].ooo[j])
           T == {k \in 0 .. n : ~Fine(k)}
<1>0. n \in Nat /\ \A k \in 0 .. n : f[k] = IF k = 0 THEN c ELSE Rx!MergeSlot(f[k - 1], k)
  <2>1. n \in Nat
    BY Widths
  <2> QED BY <2>1, Zenon DEF IsPass
<1>a. rd \in Nat /\ lo \in Int /\ hi \in Int /\ Len(c.rxb) \in Nat /\ \A j \in Rx!Slot : j \in Nat /\ j >= 1
  <2>1. GoodBuffer(c, rd)
    BY Zenon DEF GoodConn
  <2>2. rd \in Nat /\ lo \in Int /\ hi \in Int
    BY <2>1, Placed, Zenon
  <2>3. Len(c.rxb) \in Nat
    BY <2>1, Zenon DEF GoodBuffer
  <2>4. \A j \in Rx!Slot : j \in Nat /\ j >= 1
    BY <1>0 DEF Rx!Slot
  <2> QED BY <2>2, <2>3, <2>4, Zenon
<1>1. ASSUME T # {} PROVE FALSE
  <2>1. T \subseteq Nat
    BY <1>0
  <2>2. PICK m \in T : \A k \in T : m <= k
    BY <1>1, <2>1, LeastNumber, Zenon
  <2>3. m \in 0 .. n /\ ~Fine(m)
    BY Zenon
  <2>4. CASE m = 0
    <3>1. f[m] = c
      BY <1>0, <2>3, <2>4, Zenon
    <3>2. Len(c.rxb) <= Len(c.rxb) /\ \A j \in Rx!Slot : ~(j <= m)
      BY <1>a, <2>4
    <3> QED BY <2>3, <3>1, <3>2, Zenon
  <2>5. CASE m # 0
    <3>1. m - 1 \in 0 .. n /\ ~(m <= m - 1) /\ m \in Rx!Slot
      BY <1>0, <2>3, <2>5 DEF Rx!Slot
    <3>2. Fine(m - 1)
      BY <2>2, <3>1, Zenon
    <3> DEFINE t == f[m - 1]
               u == f[m]
    <3>3. u = Rx!MergeSlot(t, m)
      BY <1>0, <2>3, <2>5, Zenon
    <3>4. /\ GoodConn(t, rd, lo) /\ Len(c.rxb) <= Len(t.rxb)
          /\ \A j \in Rx!Slot : j <= m - 1 => t.ooo[j] = Rx!Unused \/ R <= From(t.ooo[j])
      BY <3>2, Zenon
    <3> HIDE DEF t
    <3>5. MergeStep(t, u, m, rd, lo)
      BY <3>1, <3>3, <3>4, MergeSlotGood, Zenon
    <3> HIDE DEF u
    <3>6. /\ GoodConn(u, rd, lo) /\ Len(t.rxb) <= Len(u.rxb)
          /\ (\A j \in Rx!Slot : j # m => u.ooo[j] = t.ooo[j])
          /\ u.ooo[m] = Rx!Unused \/ rd + Len(t.rxb) <= From(u.ooo[m])
      BY <3>5, Zenon DEF MergeStep
    <3>7. Len(t.rxb) \in Nat /\ Len(u.rxb) \in Nat
      BY <3>4, <3>6, Zenon DEF GoodConn, GoodBuffer
    <3>8. Len(c.rxb) <= Len(u.rxb)
      BY <1>a, <3>4, <3>6, <3>7
    <3>9. ASSUME NEW j \in Rx!Slot, j <= m, u.ooo[j] # Rx!Unused PROVE R <= From(u.ooo[j])
      <4>1. CASE j = m
        <5>1. SlotOK(u.ooo[m], lo, hi)
          BY <3>1, <3>6, Zenon DEF GoodConn, GoodCache
        <5> DEFINE p == From(u.ooo[m])
        <5>2. rd + Len(t.rxb) <= p
          BY <3>6, <3>9, <4>1, Zenon
        <5>3. u.ooo[m] # Rx!Unused
          BY <3>9, <4>1, Zenon
        <5>4. p \in Int
          BY <1>a, <5>1, <5>3, SlotFrom, Zenon
        <5> HIDE DEF p
        <5>5. R <= p
          BY <1>a, <3>4, <3>7, <5>2, <5>4
        <5> QED BY <4>1, <5>5, Zenon DEF p
      <4>2. CASE j # m
        <5>1. j <= m - 1
          BY <1>a, <2>3, <3>9, <4>2
        <5> QED BY <3>4, <3>6, <3>9, <4>2, <5>1, Zenon
      <4> QED BY <4>1, <4>2, Zenon
    <3> QED BY <2>3, <3>6, <3>8, <3>9, Zenon DEF u
  <2> QED BY <2>4, <2>5, Zenon
<1>2. n \in 0 .. n /\ \A j \in Rx!Slot : j <= n
  BY <1>0 DEF Rx!Slot
<1>3. Fine(n)
  BY <1>1, <1>2, Zenon
<1> DEFINE d == f[n]
<1>4. /\ GoodConn(d, rd, lo) /\ Len(c.rxb) <= Len(d.rxb)
      /\ \A j \in Rx!Slot : d.ooo[j] = Rx!Unused \/ R <= From(d.ooo[j])
  BY <1>2, <1>3, Zenon
<1> HIDE DEF d
<1>5. GoodCache(d.ooo, d.ooo_bytes, R, hi)
  <2>1. GoodCache(d.ooo, d.ooo_bytes, lo, hi)
    BY <1>4, Zenon DEF GoodConn
  <2> QED BY <1>4, <2>1, CacheFrom, Zenon
<1> QED BY <1>4, <1>5, Zenon DEF GoodConn, Merged, d

LEMMA PassGood ==
  ASSUME NEW c, NEW rd, NEW lo, Place(rd, lo), GoodConn(c, rd, lo)
  PROVE  Merged(c, Rx!MergePass(c), rd)
<1> DEFINE f == CHOOSE g : IsPass(c, RxSlots, g)
<1>1. IsPass(c, RxSlots, f)
  <2>1. \E g : IsPass(c, RxSlots, g)
    BY Widths, PassExists, Zenon
  <2> QED BY <2>1, Zenon
<1>2. Rx!MergePass(c) = f[RxSlots]
  BY DEF Rx!MergePass, IsPass
<1> HIDE DEF f
<1> QED BY <1>1, <1>2, PassFine, Zenon

LEMMA MergedAgain ==
  ASSUME NEW c, NEW d, NEW e, NEW rd \in Nat, Len(c.rxb) \in Nat,
         Merged(c, d, rd), Merged(d, e, rd)
  PROVE  Merged(c, e, rd)
<1>1. GoodConn(e, rd, rd + Len(d.rxb)) /\ Len(d.rxb) <= Len(e.rxb) /\ Len(c.rxb) <= Len(d.rxb)
  BY Zenon DEF Merged
<1>2. Len(d.rxb) \in Nat /\ Len(e.rxb) \in Nat
  BY Zenon DEF Merged, GoodConn, GoodBuffer
<1> DEFINE a == rd + Len(c.rxb)
           b == rd + Len(d.rxb)
           h == rd + RxBuf + 1
<1>3. a \in Int /\ b \in Int /\ h \in Int /\ a <= b /\ h <= h /\ Len(c.rxb) <= Len(e.rxb)
  BY <1>1, <1>2, Widths
<1>4. GoodCache(e.ooo, e.ooo_bytes, b, h)
  BY <1>1, Zenon DEF GoodConn
<1> HIDE DEF a, b, h
<1>5. GoodCache(e.ooo, e.ooo_bytes, a, h)
  BY <1>3, <1>4, CacheWider, Zenon
<1> QED BY <1>1, <1>3, <1>5, Zenon DEF Merged, GoodConn, a, h

LEMMA MergeFine ==
  ASSUME NEW c, NEW rd, NEW lo, Place(rd, lo), GoodConn(c, rd, lo),
         NEW n \in Nat, n # 0, NEW f, IsMerge(c, n, f)
  PROVE  Merged(c, f[n], rd)
<1> DEFINE Fine(k) == IF k = 0 THEN f[k] = c ELSE Merged(c, f[k], rd)
           T == {k \in 0 .. n : ~Fine(k)}
<1>0. \A k \in 0 .. n : f[k] = IF k = 0 THEN c ELSE Rx!MergePass(f[k - 1])
  BY Zenon DEF IsMerge
<1>a. rd \in Nat /\ Len(c.rxb) \in Nat
  BY Zenon DEF GoodConn, GoodBuffer, Place
<1>1. ASSUME T # {} PROVE FALSE
  <2>1. T \subseteq Nat
    BY <1>0
  <2>2. PICK m \in T : \A k \in T : m <= k
    BY <1>1, <2>1, LeastNumber, Zenon
  <2>3. m \in 0 .. n /\ ~Fine(m)
    BY Zenon
  <2>4. m # 0
    BY <1>0, <2>3, Zenon
  <2>5. m - 1 \in 0 .. n /\ ~(m <= m - 1)
    BY <2>3, <2>4
  <2>6. Fine(m - 1)
    BY <2>2, <2>5, Zenon
  <2> DEFINE t == f[m - 1]
             u == f[m]
  <2>7. u = Rx!MergePass(t)
    BY <1>0, <2>3, <2>4, Zenon
  <2>8. t = c \/ Merged(c, t, rd)
    BY <2>6, Zenon
  <2>9. ~Merged(c, u, rd)
    BY <2>3, <2>4, Zenon
  <2> HIDE DEF t, u
  <2>10. CASE t = c
    BY <2>7, <2>9, <2>10, PassGood, Zenon
  <2>11. CASE Merged(c, t, rd)
    <3> DEFINE R == rd + Len(c.rxb)
    <3>1. GoodConn(t, rd, R)
      BY <2>11, Zenon DEF Merged
    <3>2. Place(rd, R)
      BY <1>a, Widths DEF Place
    <3> HIDE DEF R
    <3>3. Merged(t, u, rd)
      BY <2>7, <3>1, <3>2, PassGood, Zenon
    <3> QED BY <1>a, <2>9, <2>11, <3>3, MergedAgain, Zenon
  <2> QED BY <2>8, <2>10, <2>11, Zenon
<1>2. n \in 0 .. n
  OBVIOUS
<1>3. Fine(n)
  BY <1>1, <1>2, Zenon
<1> QED BY <1>3, Zenon

LEMMA MergeGood ==
  ASSUME NEW c, NEW rd, NEW lo, Place(rd, lo), GoodConn(c, rd, lo)
  PROVE  Merged(c, Rx!tcp_merge_ooo(c), rd)
<1> DEFINE n == 2 * RxSlots + 1
           f == CHOOSE g : IsMerge(c, n, g)
<1>1. n \in Nat /\ n # 0
  BY Widths
<1>2. Rx!tcp_merge_ooo(c) = f[n]
  BY DEF Rx!tcp_merge_ooo, IsMerge
<1> HIDE DEF n
<1>3. IsMerge(c, n, f)
  <2>1. \E g : IsMerge(c, n, g)
    BY <1>1, MergeExists, Zenon
  <2> QED BY <2>1, Zenon
<1> HIDE DEF f
<1> QED BY <1>1, <1>2, <1>3, MergeFine, Zenon

-----------------------------------------------------------------------------
\* A segment that arrives.

\* The segment of len bytes from pos on is one the peer may send to c.
Arrives(c, rd, pos, len) ==
  /\ pos \in Nat /\ len \in Nat /\ len >= 1
  /\ (rd + Len(c.rxb)) - RxBack <= pos /\ pos + len <= rd + RxBuf + 1

\* e is c with the next n bytes of the stream in the buffer.
Appends(c, e, rd, n) ==
  e = [c EXCEPT !.rxb = @ \o Rx!Bytes(rd + Len(c.rxb), n), !.rcv_nxt = (@ + n) % Rx!Mod]

\* After that it is well-formed.
Grown(c, e, rd, lo, n) == GoodConn(e, rd, lo) /\ Len(e.rxb) = Len(c.rxb) + n

LEMMA Appended ==
  ASSUME NEW c, NEW rd \in Nat, NEW lo, GoodConn(c, rd, lo), NEW n \in Nat, Len(c.rxb) + n <= RxBuf,
         NEW e, Appends(c, e, rd, n)
  PROVE  Grown(c, e, rd, lo, n)
<1> DEFINE l == Len(c.rxb)
           R == rd + l
<1>1. IsConn(c) /\ GoodBuffer(c, rd) /\ GoodCache(c.ooo, c.ooo_bytes, lo, rd + RxBuf + 1)
  BY Zenon DEF GoodConn
<1>2. l \in Nat /\ c.rxb = Rx!Bytes(rd, l) /\ c.rcv_nxt = Rx!SeqNo(R)
  BY <1>1, Zenon DEF GoodBuffer
<1>3. /\ IsConn(e) /\ e.rxb = c.rxb \o Rx!Bytes(R, n) /\ e.ooo = c.ooo /\ e.ooo_bytes = c.ooo_bytes
      /\ e.rcv_nxt = (c.rcv_nxt + n) % Rx!Mod
  BY <1>1, Zenon DEF IsConn, Appends
<1>4. l + n <= RxBuf
  OBVIOUS
<1> HIDE DEF l
<1>5. rd \in Int /\ R \in Int /\ n \in Int /\ l + n \in Nat /\ rd + (l + n) = R + n
  BY <1>2
<1>6. e.rxb = Rx!Bytes(rd, l + n)
  <2>1. Rx!Bytes(rd, l) \o Rx!Bytes(rd + l, n) = Rx!Bytes(rd, l + n)
    BY <1>2, <1>5, BytesJoin, Zenon
  <2>2. c.rxb = Rx!Bytes(rd, l)
    BY <1>2, Zenon
  <2>3. e.rxb = c.rxb \o Rx!Bytes(rd + l, n)
    BY <1>3, Zenon
  <2>4. e.rxb = Rx!Bytes(rd, l) \o Rx!Bytes(rd + l, n)
    BY <2>2, <2>3
  <2> QED BY <2>1, <2>4
<1> HIDE DEF R
<1>7. Len(e.rxb) = l + n
  <2>1. rd \in Int /\ l + n \in Nat
    BY <1>5, Zenon
  <2>2. Len(Rx!Bytes(rd, l + n)) = l + n
    BY <2>1, BytesAre, Zenon
  <2> QED BY <1>6, <2>2
<1>8. e.rcv_nxt = Rx!SeqNo(R + n)
  BY <1>2, <1>3, <1>5, SeqPlus, Zenon
<1>9. GoodBuffer(e, rd)
  BY <1>4, <1>5, <1>6, <1>7, <1>8, Zenon DEF GoodBuffer
<1>10. GoodConn(e, rd, lo)
  BY <1>1, <1>3, <1>9, Zenon DEF GoodConn
<1> QED BY <1>7, <1>10, Zenon DEF Grown, l

\* k is the first slot that is not in use.
FirstUnused(o, k) ==
  LET unused == {i \in Rx!Slot : o[i] = Rx!Unused}
  IN  unused # {} /\ k = CHOOSE i \in unused : \A j \in unused : i <= j

LEMMA LowestUnused ==
  ASSUME NEW o, NEW k, FirstUnused(o, k)
  PROVE  k \in Rx!Slot /\ o[k] = Rx!Unused
<1> DEFINE unused == {i \in Rx!Slot : o[i] = Rx!Unused}
<1>0. unused # {} /\ k = CHOOSE i \in unused : \A j \in unused : i <= j
  BY Zenon DEF FirstUnused
<1>1. unused \subseteq Nat
  BY DEF Rx!Slot
<1>2. \E i \in unused : \A j \in unused : i <= j
  BY <1>0, <1>1, LeastNumber, Zenon
<1>3. k \in unused
  BY <1>0, <1>2, Zenon
<1> QED BY <1>3, Zenon

SameBuffer(c, d, rd, lo) == GoodConn(d, rd, lo) /\ d.rxb = c.rxb

\* A segment kept in a slot that was unused.
Keeps(c, d, k, s) == d = [c EXCEPT !.ooo[k] = s, !.ooo_bytes = @ + Len(s.data)]

LEMMA KeptGood ==
  ASSUME NEW c, NEW rd, NEW lo, GoodConn(c, rd, lo), NEW k \in Rx!Slot, c.ooo[k] = Rx!Unused,
         NEW s, SlotOK(s, lo, rd + RxBuf + 1), ClearOf(c.ooo, k, s),
         NEW d, Keeps(c, d, k, s)
  PROVE  SameBuffer(c, d, rd, lo)
<1>1. IsConn(c) /\ c.ooo_bytes \in Int
  BY Zenon DEF GoodConn, GoodCache
<1>2. Replaced(c, d, k, s, c.ooo_bytes + Len(s.data))
  BY <1>1, Zenon DEF Replaced, IsConn, Keeps
<1>3. c.ooo_bytes + Len(s.data) = (c.ooo_bytes - Len(c.ooo[k].data)) + Len(s.data)
  <2> DEFINE b == c.ooo_bytes
  <2>1. b \in Int
    BY <1>1, Zenon
  <2> HIDE DEF b
  <2>2. b - 0 = b
    BY <2>1
  <2> QED BY <2>2, UnusedIs, Zenon DEF b
<1>4. GoodPut(c, d, k, s, rd, lo)
  BY <1>2, <1>3, ReplacedGood, Zenon
<1> QED BY <1>4, Zenon DEF GoodPut, SameBuffer

\* A segment of len bytes from pos on without its first trim bytes.
CutBy(pos, len, trim) ==
  /\ pos + trim \in Int /\ len - trim \in Nat /\ len - trim >= 1
  /\ (pos + trim) + (len - trim) = pos + len
  /\ SubSeq(Rx!Bytes(pos, len), trim + 1, len) = Rx!Bytes(pos + trim, len - trim)
  /\ (Rx!SeqNo(pos) + trim) % Rx!Mod = Rx!SeqNo(pos + trim)

LEMMA CutPart ==
  ASSUME NEW pos \in Nat, NEW len \in Nat, NEW trim \in Nat, NEW R \in Int,
         trim <= len, trim # len, R <= pos + trim
  PROVE  CutBy(pos, len, trim)
<1>1. pos + trim \in Int /\ len - trim \in Nat /\ len - trim >= 1 /\ (pos + trim) + (len - trim) = pos + len
  OBVIOUS
<1>2. pos \in Int /\ trim \in Int
  OBVIOUS
<1>3. SubSeq(Rx!Bytes(pos, len), trim + 1, len) = Rx!Bytes(pos + trim, len - trim)
  BY <1>2, BytesCut, Zenon
<1>4. (Rx!SeqNo(pos) + trim) % Rx!Mod = Rx!SeqNo(pos + trim)
  BY <1>2, SeqPlus, Zenon
<1> QED BY <1>1, <1>3, <1>4, Zenon DEF CutBy

\* The trim of tcp_queue_ooo(), and what is left of the segment.
TrimAhead(c, pos, len, trim, s) ==
  /\ trim = IF Rx!tcp_seq_after(Rx!SeqNo(pos), c.rcv_nxt) THEN 0
            ELSE (c.rcv_nxt - Rx!SeqNo(pos)) % Rx!Mod
  /\ s = [seq |-> (Rx!SeqNo(pos) + trim) % Rx!Mod,
          data |-> SubSeq(Rx!Bytes(pos, len), trim + 1, len)]
Ahead(c, rd, s) ==
  \E q \in Int, m \in Nat :
    m >= 1 /\ s = Seg(q, m) /\ rd + Len(c.rxb) <= q /\ q + m <= rd + RxBuf + 1

\* What tcp_queue_ooo() keeps of a segment whose end is after rcv_nxt: the part
\* from q on.
LEMMA QueuedPart ==
  ASSUME NEW c, NEW rd, NEW lo, Place(rd, lo), GoodConn(c, rd, lo), NEW pos, NEW len,
         Arrives(c, rd, pos, len), lo <= rd + Len(c.rxb), NEW trim, NEW s,
         TrimAhead(c, pos, len, trim, s), pos + len > rd + Len(c.rxb)
  PROVE  Ahead(c, rd, s)
<1> DEFINE l == Len(c.rxb)
           R == rd + l
           hi == rd + RxBuf + 1
<1>1. /\ pos \in Nat /\ len \in Nat /\ len >= 1 /\ R - RxBack <= pos /\ pos + len <= hi
      /\ rd \in Nat /\ l \in Nat /\ l <= RxBuf /\ RxBuf \in Nat /\ RxBack \in Nat
      /\ c.rcv_nxt = Rx!SeqNo(R) /\ pos + len > R
  BY Widths, Zenon DEF Arrives, Place, GoodConn, GoodBuffer
<1> HIDE DEF l
<1>2. pos \in Int /\ R \in Int /\ hi \in Int
  BY <1>1
<1>3. Near(pos, R)
  <2> DEFINE w == RxBuf + RxBack + 1
  <2>1. w \in Nat /\ pos - R <= w /\ R - pos <= w /\ w <= 2 * RxBuf + RxBack + 2
    BY <1>1
  <2> HIDE DEF w, R
  <2> QED BY <1>2, <2>1, NearIs, Zenon
<1> HIDE DEF R, hi
<1>4. Rx!tcp_seq_after(Rx!SeqNo(pos), c.rcv_nxt) <=> pos > R
  BY <1>1, <1>2, <1>3, ComparedBoth, Zenon
<1>5. trim \in Nat /\ trim <= len /\ trim # len /\ R <= pos + trim
  <2>1. CASE pos > R
    <3>1. trim = 0
      BY <1>4, <2>1, Zenon DEF TrimAhead
    <3> QED BY <1>1, <1>2, <2>1, <3>1
  <2>2. CASE ~(pos > R)
    <3>1. pos <= R
      BY <1>2, <2>2
    <3>2. (c.rcv_nxt - Rx!SeqNo(pos)) % Rx!Mod = R - pos
      BY <1>1, <1>2, <1>3, <3>1, TrimBy, Zenon
    <3>3. trim = R - pos
      BY <1>4, <2>2, <3>2, Zenon DEF TrimAhead
    <3> QED BY <1>1, <1>2, <3>1, <3>3
  <2> QED BY <2>1, <2>2, Zenon
<1> DEFINE q == pos + trim
           m == len - trim
<1>6. /\ q \in Int /\ m \in Nat /\ m >= 1 /\ q + m = pos + len
      /\ SubSeq(Rx!Bytes(pos, len), trim + 1, len) = Rx!Bytes(q, m)
      /\ (Rx!SeqNo(pos) + trim) % Rx!Mod = Rx!SeqNo(q)
  <2>1. CutBy(pos, len, trim)
    BY <1>1, <1>2, <1>5, CutPart, Zenon
  <2> QED BY <2>1, Zenon DEF CutBy
<1>7. R <= q
  BY <1>5, Zenon
<1> HIDE DEF q, m
<1>9. s = Seg(q, m)
  BY <1>6, Zenon DEF Seg, TrimAhead
<1>10. q + m <= hi
  BY <1>1, <1>6, Zenon
<1> QED BY <1>6, <1>7, <1>9, <1>10, Zenon DEF R, hi, l, Ahead

\* Without an overlap, that part has no byte in common with a slot.
LEMMA QueuedClear ==
  ASSUME NEW c, NEW rd, NEW lo, Place(rd, lo), GoodConn(c, rd, lo), NEW q \in Int, NEW m \in Nat,
         m >= 1, rd + Len(c.rxb) <= q, q + m <= rd + RxBuf + 1, lo <= rd + Len(c.rxb),
         ~Rx!Overlaps(c, Rx!SeqNo(q), m), NEW k
  PROVE  ClearOf(c.ooo, k, Seg(q, m))
<1> SUFFICES ASSUME NEW j \in Rx!Slot, c.ooo[j] # Rx!Unused PROVE Clear(Seg(q, m), c.ooo[j])
  BY Zenon DEF ClearOf
<1> DEFINE l == Len(c.rxb)
           hi == rd + RxBuf + 1
<1>1. /\ rd \in Nat /\ l \in Nat /\ l <= RxBuf /\ RxBuf \in Nat /\ RxBack \in Nat
      /\ lo \in Int /\ rd - RxBuf <= lo /\ SlotOK(c.ooo[j], lo, hi) /\ rd + l <= q /\ q + m <= hi
  BY Widths, Zenon DEF Place, GoodConn, GoodBuffer, GoodCache
<1> HIDE DEF l
<1>2. hi \in Int
  BY <1>1
<1>3. PICK p \in Int, n \in Nat :
           /\ n >= 1 /\ c.ooo[j] = Seg(p, n) /\ lo <= p /\ p + n <= hi
           /\ c.ooo[j].seq = Rx!SeqNo(p) /\ c.ooo[j].data = Rx!Bytes(p, n) /\ Len(c.ooo[j].data) = n
           /\ From(c.ooo[j]) = p /\ To(c.ooo[j]) = p + n
  BY <1>1, <1>2, SlotIs, ZenonT(60)
<1> DEFINE w == 2 * RxBuf + 1
<1>4. /\ w \in Nat /\ w <= 2 * RxBuf + RxBack + 2 /\ p + n \in Int /\ q + m \in Int /\ n \in Int /\ m \in Int
      /\ q - (p + n) <= w /\ (p + n) - q <= w /\ p - (q + m) <= w /\ (q + m) - p <= w
  BY <1>1, <1>3
<1> HIDE DEF w, hi
<1>5. Near(q, p + n) /\ Near(p, q + m)
  BY <1>4, NearIs, Zenon
<1>6. Rx!tcp_seq_before(Rx!SeqNo(q), Rx!SeqNo(p) + n) <=> q < p + n
  BY <1>4, <1>5, ComparedPlain, Zenon
<1>7. Rx!tcp_seq_before(Rx!SeqNo(p), Rx!SeqNo(q) + m) <=> p < q + m
  BY <1>4, <1>5, ComparedPlain, Zenon
<1>8. ~(q < p + n) \/ ~(p < q + m)
  BY <1>3, <1>6, <1>7, Zenon DEF Rx!Overlaps
<1>9. p + n <= q \/ q + m <= p
  BY <1>4, <1>8
<1>10. From(Seg(q, m)) = q /\ To(Seg(q, m)) = q + m
  BY SegIs, Zenon
<1> QED BY <1>3, <1>9, <1>10, Zenon DEF Clear

LEMMA QueueGood ==
  ASSUME NEW c, NEW rd, NEW lo, Place(rd, lo), GoodConn(c, rd, lo), lo <= rd + Len(c.rxb),
         NEW pos, NEW len, Arrives(c, rd, pos, len)
  PROVE  LET d == Rx!tcp_queue_ooo(c, Rx!SeqNo(pos), Rx!Bytes(pos, len))
         IN  SameBuffer(c, d, rd, lo)
<1> DEFINE seq == Rx!SeqNo(pos)
           data == Rx!Bytes(pos, len)
           d == Rx!tcp_queue_ooo(c, seq, data)
           R == rd + Len(c.rxb)
           trim == IF Rx!tcp_seq_after(seq, c.rcv_nxt) THEN 0 ELSE (c.rcv_nxt - seq) % Rx!Mod
           s == [seq |-> (seq + trim) % Rx!Mod, data |-> SubSeq(data, trim + 1, Len(data))]
           unused == {i \in Rx!Slot : c.ooo[i] = Rx!Unused}
           k == CHOOSE i \in unused : \A j \in unused : i <= j
           e == [c EXCEPT !.ooo[k] = s, !.ooo_bytes = @ + Len(s.data)]
<1>1. \/ d = c
      \/ /\ d = e /\ Rx!tcp_seq_after(seq + Len(data), c.rcv_nxt)
         /\ ~Rx!Overlaps(c, s.seq, Len(s.data)) /\ unused # {}
  BY Zenon DEF Rx!tcp_queue_ooo
<1>2. CASE d = c
  BY <1>2, Zenon DEF SameBuffer
<1>3. CASE /\ d = e /\ Rx!tcp_seq_after(seq + Len(data), c.rcv_nxt)
           /\ ~Rx!Overlaps(c, s.seq, Len(s.data)) /\ unused # {}
  <2>1. /\ pos \in Nat /\ len \in Nat /\ len >= 1 /\ R - RxBack <= pos /\ pos + len <= rd + RxBuf + 1
        /\ rd \in Nat /\ Len(c.rxb) \in Nat /\ Len(c.rxb) <= RxBuf /\ RxBuf \in Nat /\ RxBack \in Nat
        /\ c.rcv_nxt = Rx!SeqNo(R)
    BY Widths, Zenon DEF Arrives, Place, GoodConn, GoodBuffer
  <2>2. pos \in Int /\ len \in Int /\ R \in Int /\ pos + len \in Int
    BY <2>1
  <2>3. Len(data) = len
    BY <2>1, <2>2, BytesAre, Zenon
  <2>4. Near(pos + len, R)
    <3> DEFINE w == RxBuf + RxBack + 1
    <3>1. w \in Nat /\ (pos + len) - R <= w /\ R - (pos + len) <= w /\ w <= 2 * RxBuf + RxBack + 2
      <4> DEFINE l == Len(c.rxb)
                 y == pos + len
      <4>1. R = rd + l /\ l \in Nat /\ l <= RxBuf /\ R - RxBack <= y /\ y \in Int /\ y <= rd + RxBuf + 1
        BY <2>1, <2>2
      <4> HIDE DEF l, y, R
      <4>2. w \in Nat /\ y - R <= w /\ R - y <= w /\ w <= 2 * RxBuf + RxBack + 2
        BY <2>1, <2>2, <4>1
      <4> QED BY <4>2, Zenon DEF y
    <3> HIDE DEF w, R
    <3> QED BY <2>2, <3>1, NearIs, Zenon
  <2>5. pos + len > R
    <3>1. Rx!tcp_seq_after(Rx!SeqNo(pos) + len, Rx!SeqNo(R)) <=> pos + len > R
      BY <2>2, <2>4, ComparedBare, Zenon
    <3>2. Rx!tcp_seq_after(Rx!SeqNo(pos) + len, Rx!SeqNo(R))
      BY <1>3, <2>1, <2>3, Zenon
    <3> QED BY <3>1, <3>2, Zenon
  <2>6. PICK q \in Int, m \in Nat :
           m >= 1 /\ s = Seg(q, m) /\ R <= q /\ q + m <= rd + RxBuf + 1
    <3>1. TrimAhead(c, pos, len, trim, s)
      BY <2>3, Zenon DEF TrimAhead
    <3> HIDE DEF trim, s
    <3>2. Ahead(c, rd, s)
      BY <2>5, <3>1, QueuedPart, Zenon
    <3> QED BY <3>2, Zenon DEF Ahead
  <2>7. k \in Rx!Slot /\ c.ooo[k] = Rx!Unused
    <3>1. FirstUnused(c.ooo, k)
      BY <1>3, Zenon DEF FirstUnused
    <3> HIDE DEF k
    <3> QED BY <3>1, LowestUnused, Zenon
  <2>8. Keeps(c, d, k, s)
    BY <1>3, Zenon DEF Keeps
  <2>9. ~Rx!Overlaps(c, s.seq, Len(s.data))
    BY <1>3, Zenon
  <2> HIDE DEF d, s, k
  <2>10. s.seq = Rx!SeqNo(q) /\ Len(s.data) = m
    BY <2>6, SegIs, Zenon
  <2>11. ClearOf(c.ooo, k, s)
    <3>1. ~Rx!Overlaps(c, Rx!SeqNo(q), m)
      BY <2>9, <2>10, Zenon
    <3>2. ClearOf(c.ooo, k, Seg(q, m))
      BY <2>6, <3>1, QueuedClear, Zenon
    <3> QED BY <2>6, <3>2, Zenon
  <2>12. SlotOK(s, lo, rd + RxBuf + 1)
    <3>1. lo <= q
      BY <2>2, <2>6 DEF Place
    <3> QED BY <2>6, <3>1, Zenon DEF SlotOK, Whole
  <2>13. GoodConn(d, rd, lo) /\ d.rxb = c.rxb
    <3>1. SameBuffer(c, d, rd, lo)
      BY <2>7, <2>8, <2>11, <2>12, KeptGood, Zenon
    <3> QED BY <3>1, Zenon DEF SameBuffer
  <2> QED BY <2>13, Zenon DEF d, SameBuffer
<1> QED BY <1>1, <1>2, <1>3, Zenon

\* Where the cache of a connection may start between two steps.
Floor(c, rd) == (rd + Len(c.rxb)) - RxBuf

\* A segment in sequence that fits is received.
LEMMA InSequenceGood ==
  ASSUME NEW c, NEW rd \in Nat, GoodConn(c, rd, Floor(c, rd)), NEW len \in Nat, len >= 1,
         Rx!Fits(c, len), NEW d,
         d = Rx!tcp_accept_data(c, c.rcv_nxt, Rx!Bytes(rd + Len(c.rxb), len))
  PROVE  GoodConn(d, rd, Floor(d, rd)) /\ Len(c.rxb) < Len(d.rxb)
<1> DEFINE l == Len(c.rxb)
           R == rd + l
           data == Rx!Bytes(R, len)
           lo == Floor(c, rd)
           e == [c EXCEPT !.rxb = @ \o data, !.rcv_nxt = (@ + len) % Rx!Mod]
<1>1. l \in Nat /\ l <= RxBuf /\ RxBuf \in Nat
  BY Widths, Zenon DEF GoodConn, GoodBuffer
<1>2. R \in Int /\ R \in Nat
  BY <1>1
<1>3. Len(data) = len
  BY <1>2, BytesAre, Zenon
<1>4. l + len <= RxBuf
  BY Zenon DEF Rx!Fits
<1>5. d = Rx!tcp_merge_ooo(e)
  BY <1>3, Zenon DEF Rx!tcp_accept_data
<1>6. GoodConn(e, rd, lo) /\ Len(e.rxb) = l + len
  <2>1. Appends(c, e, rd, len)
    BY Zenon DEF Appends
  <2>2. Len(c.rxb) + len <= RxBuf
    BY <1>4, Zenon
  <2>3. GoodConn(c, rd, Floor(c, rd))
    OBVIOUS
  <2> HIDE DEF e, l, R, data, lo
  <2>4. Grown(c, e, rd, Floor(c, rd), len)
    BY <2>1, <2>2, <2>3, Appended, Zenon
  <2> QED BY <2>4, Zenon DEF Grown, l, lo
<1> HIDE DEF e, l, data
<1>7. Place(rd, lo)
  <2>1. lo = R - RxBuf
    BY Zenon DEF Floor, l
  <2> HIDE DEF lo
  <2> QED BY <1>1, <2>1 DEF Place
<1> HIDE DEF lo
<1>8. Merged(e, d, rd)
  BY <1>5, <1>6, <1>7, MergeGood, Zenon
<1>9. GoodConn(d, rd, rd + (l + len)) /\ l + len <= Len(d.rxb)
  BY <1>6, <1>8, Zenon DEF Merged
<1> DEFINE m == Len(d.rxb)
           h == rd + RxBuf + 1
           a == rd + (l + len)
           f == Floor(d, rd)
<1>10. m \in Nat /\ m <= RxBuf /\ GoodCache(d.ooo, d.ooo_bytes, a, h) /\ l + len <= m
  BY <1>9, Zenon DEF GoodConn, GoodBuffer
<1>11. f = (rd + m) - RxBuf
  BY Zenon DEF Floor
<1> HIDE DEF m, f
<1>12. a \in Int /\ h \in Int /\ f \in Int /\ f <= a /\ h <= h /\ l < m
  BY <1>1, <1>10, <1>11
<1> HIDE DEF a, h
<1>13. GoodCache(d.ooo, d.ooo_bytes, f, h)
  BY <1>10, <1>12, CacheWider, Zenon
<1> QED BY <1>9, <1>12, <1>13, Zenon DEF GoodConn, f, h, l, m

LEMMA AcceptGood ==
  ASSUME NEW c, NEW rd \in Nat, GoodConn(c, rd, Floor(c, rd)), NEW pos, NEW len,
         Arrives(c, rd, pos, len), NEW d,
         d = Rx!tcp_accept_data(c, Rx!SeqNo(pos), Rx!Bytes(pos, len))
  PROVE  GoodConn(d, rd, Floor(d, rd)) /\ Len(c.rxb) <= Len(d.rxb)
<1> DEFINE l == Len(c.rxb)
           R == rd + l
           lo == Floor(c, rd)
           seq == Rx!SeqNo(pos)
           data == Rx!Bytes(pos, len)
<1>1. /\ pos \in Nat /\ len \in Nat /\ len >= 1 /\ R - RxBack <= pos /\ pos + len <= rd + RxBuf + 1
      /\ l \in Nat /\ l <= RxBuf /\ RxBuf \in Nat /\ RxBack \in Nat
      /\ c.rcv_nxt = Rx!SeqNo(R) /\ lo = R - RxBuf
  BY Widths, Zenon DEF Arrives, GoodConn, GoodBuffer, Floor
<1> HIDE DEF l, lo
<1>2. pos \in Int /\ R \in Int /\ Place(rd, lo) /\ lo <= R /\ l <= l
  BY <1>1 DEF Place
<1>3. Len(data) = len
  BY <1>1, <1>2, BytesAre, Zenon
<1>4. CASE seq # c.rcv_nxt
  <2>1. d = Rx!tcp_queue_ooo(c, Rx!SeqNo(pos), Rx!Bytes(pos, len))
    BY <1>4, Zenon DEF Rx!tcp_accept_data
  <2>2. GoodConn(d, rd, lo) /\ d.rxb = c.rxb
    <3>1. SameBuffer(c, Rx!tcp_queue_ooo(c, Rx!SeqNo(pos), Rx!Bytes(pos, len)), rd, Floor(c, rd))
      BY <1>2, QueueGood, Zenon DEF l, lo
    <3> QED BY <2>1, <3>1, Zenon DEF SameBuffer, lo
  <2> QED BY <1>2, <2>2, Zenon DEF lo, l, Floor
<1>5. CASE seq = c.rcv_nxt /\ ~Rx!Fits(c, len)
  <2>1. d = c
    BY <1>3, <1>5, Zenon DEF Rx!tcp_accept_data
  <2> QED BY <1>2, <2>1, Zenon DEF l
<1>6. CASE seq = c.rcv_nxt /\ Rx!Fits(c, len)
  <2>1. Near(pos, R)
    <3> DEFINE w == RxBuf + RxBack + 1
    <3>1. w \in Nat /\ pos - R <= w /\ R - pos <= w /\ w <= 2 * RxBuf + RxBack + 2
      BY <1>1
    <3> HIDE DEF w, R
    <3> QED BY <1>2, <3>1, NearIs, Zenon
  <2>2. pos = R
    BY <1>1, <1>2, <1>6, <2>1, SeqSame, Zenon
  <2>3. d = Rx!tcp_accept_data(c, c.rcv_nxt, Rx!Bytes(rd + Len(c.rxb), len))
    BY <1>6, <2>2, Zenon DEF l
  <2>4. GoodConn(d, rd, Floor(d, rd)) /\ Len(c.rxb) < Len(d.rxb)
    BY <1>1, <1>6, <2>3, InSequenceGood, Zenon
  <2>5. Len(c.rxb) \in Nat /\ Len(d.rxb) \in Nat
    BY <2>4, Zenon DEF GoodConn, GoodBuffer
  <2>6. Len(c.rxb) <= Len(d.rxb)
    BY <2>4, <2>5
  <2> QED BY <2>4, <2>6, Zenon
<1> QED BY <1>4, <1>5, <1>6, Zenon

-----------------------------------------------------------------------------
\* The inductive invariant.

Ended == rstate \in {"LAST_ACK", "CLOSED"}

RxInv ==
  /\ rstate \in {"ESTABLISHED", "LAST_ACK", "CLOSED", "REUSED"} /\ read \in Nat
  /\ Len(rxb) \in Nat /\ Len(rxb) <= RxBuf /\ rxb = Rx!Bytes(read, Len(rxb))
  /\ rstate = "ESTABLISHED" => rcv_nxt = Rx!SeqNo(read + Len(rxb))
  /\ Ended => rcv_nxt = Rx!SeqNo((read + Len(rxb)) + 1)
  /\ GoodCache(ooo, ooo_bytes, (read + Len(rxb)) - RxBuf, read + RxBuf + 1)
  /\ adv_win \in Nat /\ (rstate = "ESTABLISHED" => adv_win + Len(rxb) <= RxBuf)
  /\ rstate = "ESTABLISHED" /\ adv_win = 0 => Rx!tcp_advertise_window(rxb) = 0
  /\ Ended => read + Len(rxb) = RxStream

LEMMA ConnIs ==
  /\ IsConn(Rx!conn) /\ Rx!conn.rxb = rxb /\ Rx!conn.rcv_nxt = rcv_nxt
  /\ Rx!conn.ooo = ooo /\ Rx!conn.ooo_bytes = ooo_bytes
  BY DEF IsConn, Rx!conn

LEMMA ConnGood ==
  ASSUME RxInv, rstate = "ESTABLISHED"
  PROVE  GoodConn(Rx!conn, read, Floor(Rx!conn, read))
  BY ConnIs, Zenon DEF RxInv, GoodConn, GoodBuffer, Floor

LEMMA WindowIs ==
  ASSUME NEW buf, Len(buf) \in Nat, Len(buf) <= RxBuf
  PROVE  Rx!tcp_advertise_window(buf) \in Nat /\ Rx!tcp_advertise_window(buf) + Len(buf) <= RxBuf
<1> DEFINE l == Len(buf)
<1>1. l \in Nat /\ l <= RxBuf /\ RxBuf \in Nat /\ RxMss \in Nat
  BY Widths
<1>2. Rx!tcp_advertise_window(buf) = IF RxBuf - l < RxMss THEN 0 ELSE RxBuf - l
  BY DEF Rx!tcp_advertise_window
<1> HIDE DEF l
<1>3. /\ Rx!tcp_advertise_window(buf) \in Nat
      /\ Rx!tcp_advertise_window(buf) + l <= RxBuf
  BY <1>1, <1>2
<1> QED BY <1>3, Zenon DEF l

LEMMA RxInit == Rx!Init => RxInv
<1> SUFFICES ASSUME Rx!Init PROVE RxInv
  BY Zenon
<1>1. rstate = "ESTABLISHED" /\ rcv_nxt = RxIsn /\ rxb = <<>> /\ ooo = [i \in Rx!Slot |-> Rx!Unused]
      /\ ooo_bytes = 0 /\ adv_win = RxBuf /\ read = 0
  BY Zenon DEF Rx!Init
<1>2. Len(rxb) = 0 /\ Len(rxb) \in Nat /\ rxb \in Seq(Int)
  BY <1>1
<1>3. rxb = Rx!Bytes(read, Len(rxb))
  <2>1. 0 \in Int /\ 0 \in Nat /\ \A i \in 1 .. 0 : rxb[i] = 0 + i - 1
    OBVIOUS
  <2> QED BY <1>1, <1>2, <2>1, BytesEqual, ZenonT(60)
<1>4. rcv_nxt = Rx!SeqNo(read + Len(rxb))
  <2>1. RxIsn \in Int /\ 0 <= RxIsn /\ RxIsn < Rx!Mod /\ Rx!Mod \in Nat /\ Rx!Mod > 0
    <3>1. RxIsn \in 0 .. 2 ^ RxBits - 1
      BY ReceiverAssumption, Zenon
    <3>2. RxIsn \in 0 .. Rx!Mod - 1
      BY <3>1, Zenon DEF Rx!Mod
    <3> QED BY <3>2, Widths
  <2>2. RxIsn % Rx!Mod = RxIsn
    BY <2>1, ModSmall, Zenon
  <2>3. read + Len(rxb) = 0 /\ RxIsn + 0 = RxIsn
    BY <1>1, <1>2, <2>1
  <2> QED BY <1>1, <2>2, <2>3, Zenon DEF Rx!SeqNo
<1>5. ASSUME NEW lo, NEW hi PROVE GoodCache(ooo, ooo_bytes, lo, hi)
  <2>1. ooo = [i \in Rx!Slot |-> ooo[i]] /\ \A i \in Rx!Slot : ooo[i] = Rx!Unused
    BY <1>1, Zenon
  <2>2. Sums(ooo, 0)
    BY <2>1, SumsNone, Zenon
  <2>3. 0 \in Int
    OBVIOUS
  <2> QED BY <1>1, <2>1, <2>2, <2>3, Zenon DEF GoodCache, SlotOK, Apart
<1>6. adv_win \in Nat /\ adv_win + Len(rxb) <= RxBuf /\ adv_win # 0 /\ Len(rxb) <= RxBuf /\ read \in Nat
  BY <1>1, <1>2, Widths
<1>7. ~Ended
  BY <1>1 DEF Ended
<1> QED BY <1>1, <1>2, <1>3, <1>4, <1>5, <1>6, <1>7, Zenon DEF RxInv

\* A segment of the peer.
LEMMA SegmentInv ==
  ASSUME RxInv, Rx!Segment
  PROVE  RxInv'
<1>1. PICK pos \in Rx!Received - RxBack .. read + RxBuf, len \in 0 .. RxMaxLen, fin \in BOOLEAN :
           /\ pos >= 0 /\ (pos + len <= read + RxBuf \/ len = 1)
           /\ (fin => pos + len = RxStream) /\ Rx!tcp_handle(pos, len, fin)
  BY Zenon DEF Rx!Segment
<1> DEFINE c == IF len = 0 THEN Rx!conn
                ELSE Rx!tcp_accept_data(Rx!conn, Rx!SeqNo(pos), Rx!Bytes(pos, len))
           l == Len(rxb)
           R == read + l
           m == Len(c.rxb)
           eof == fin /\ Rx!InSequence(c, Rx!SeqNo(pos + len))
<1>2. /\ rstate = "ESTABLISHED" /\ read' = read
      /\ rstate' = IF eof THEN "LAST_ACK" ELSE "ESTABLISHED"
      /\ rcv_nxt' = IF eof THEN (c.rcv_nxt + 1) % Rx!Mod ELSE c.rcv_nxt
      /\ rxb' = c.rxb /\ ooo' = c.ooo /\ ooo_bytes' = c.ooo_bytes
      /\ adv_win' = Rx!tcp_advertise_window(c.rxb)
  BY <1>1, Zenon DEF Rx!tcp_handle
<1>3. /\ l \in Nat /\ l <= RxBuf /\ read \in Nat /\ RxBuf \in Nat /\ RxBack \in Nat
      /\ Rx!Received = R
  BY Widths, Zenon DEF RxInv, Rx!Received
<1>4. GoodConn(Rx!conn, read, Floor(Rx!conn, read)) /\ Rx!conn.rxb = rxb
  BY <1>2, ConnGood, ConnIs, Zenon
<1> HIDE DEF l
<1>5. /\ pos \in Nat /\ len \in Nat /\ pos + len <= read + RxBuf + 1 /\ R - RxBack <= pos
      /\ l <= l /\ R \in Nat
  <2>1. RxMaxLen \in Nat
    BY ReceiverAssumption, Zenon
  <2> QED BY <1>1, <1>3, <2>1
<1>6. GoodConn(c, read, Floor(c, read)) /\ l <= m
  <2>1. CASE len = 0
    BY <1>4, <1>5, <2>1, Zenon DEF l
  <2>2. CASE len # 0
    <3>1. Arrives(Rx!conn, read, pos, len)
      <4>1. len >= 1
        BY <1>5, <2>2
      <4> QED BY <1>4, <1>5, <4>1, Zenon DEF Arrives, l
    <3>2. c = Rx!tcp_accept_data(Rx!conn, Rx!SeqNo(pos), Rx!Bytes(pos, len))
      BY <2>2, Zenon
    <3> HIDE DEF c
    <3> QED BY <1>3, <1>4, <3>1, <3>2, AcceptGood, Zenon DEF l
  <2> QED BY <2>1, <2>2, Zenon
<1> HIDE DEF c
<1>7. /\ m \in Nat /\ m <= RxBuf /\ c.rxb = Rx!Bytes(read, m) /\ c.rcv_nxt = Rx!SeqNo(read + m)
      /\ GoodCache(c.ooo, c.ooo_bytes, (read + m) - RxBuf, read + RxBuf + 1)
  BY <1>6, Zenon DEF GoodConn, GoodBuffer, Floor
<1>8. Rx!tcp_advertise_window(c.rxb) \in Nat /\ Rx!tcp_advertise_window(c.rxb) + m <= RxBuf
  BY <1>7, WindowIs, Zenon
<1>9. Len(rxb') = m
  BY <1>2, Zenon
<1> HIDE DEF m, R
<1>10. CASE eof
  <2>1. pos + len = read + m
    <3>1. Rx!SeqNo(pos + len) = Rx!SeqNo(read + m)
      BY <1>7, <1>10, Zenon DEF Rx!InSequence
    <3> DEFINE w == 2 * RxBuf + RxBack + 2
    <3>2. /\ pos + len \in Int /\ read + m \in Int /\ w \in Nat /\ w <= w
          /\ (pos + len) - (read + m) <= w /\ (read + m) - (pos + len) <= w
      BY <1>3, <1>5, <1>6, <1>7 DEF R
    <3>3. Near(pos + len, read + m)
      BY <3>2, NearIs, Zenon
    <3> QED BY <3>1, <3>2, <3>3, SeqSame, Zenon
  <2>2. read + m = RxStream
    BY <1>1, <1>10, <2>1, Zenon
  <2>3. (c.rcv_nxt + 1) % Rx!Mod = Rx!SeqNo((read + m) + 1)
    <3>1. read + m \in Int /\ 1 \in Int
      BY <1>3, <1>7
    <3> QED BY <1>7, <3>1, SeqPlus, Zenon
  <2>4. rstate' = "LAST_ACK" /\ rstate' # "ESTABLISHED" /\ rcv_nxt' = Rx!SeqNo((read + m) + 1)
    <3>1. rstate' = "LAST_ACK" /\ rcv_nxt' = Rx!SeqNo((read + m) + 1)
      BY <1>2, <1>10, <2>3, Zenon
    <3> QED BY <3>1
  <2> QED BY <1>2, <1>3, <1>7, <1>8, <1>9, <2>2, <2>4, Zenon DEF RxInv
<1>11. CASE ~eof
  <2>1. rstate' = "ESTABLISHED" /\ ~Ended' /\ rcv_nxt' = Rx!SeqNo(read + m)
    <3>1. rstate' = "ESTABLISHED" /\ rcv_nxt' = Rx!SeqNo(read + m)
      BY <1>2, <1>7, <1>11, Zenon
    <3> QED BY <3>1 DEF Ended
  <2>2. Rx!tcp_advertise_window(rxb)' = Rx!tcp_advertise_window(c.rxb)
    BY <1>2, Zenon DEF Rx!tcp_advertise_window
  <2> QED BY <1>2, <1>3, <1>7, <1>8, <1>9, <2>1, <2>2, Zenon DEF RxInv
<1> QED BY <1>10, <1>11, Zenon

\* A read of the program.
LEMMA RecvInv ==
  ASSUME RxInv, NEW n \in 1 .. RxBuf, Rx!tcp_recv(n)
  PROVE  RxInv'
<1> DEFINE l == Len(rxb)
           k == IF n < l THEN n ELSE l
           rest == SubSeq(rxb, k + 1, l)
           nw == Rx!tcp_advertise_window(rest)
<1>1. /\ rxb' = rest /\ read' = read + k
      /\ adv_win' = IF rstate = "ESTABLISHED" /\ Rx!Reopened(nw) THEN nw ELSE adv_win
      /\ rstate' = rstate /\ rcv_nxt' = rcv_nxt /\ ooo' = ooo /\ ooo_bytes' = ooo_bytes
  BY Zenon DEF Rx!tcp_recv
<1>2. /\ l \in Nat /\ l <= RxBuf /\ read \in Nat /\ RxBuf \in Nat /\ rxb = Rx!Bytes(read, l)
      /\ GoodCache(ooo, ooo_bytes, (read + l) - RxBuf, read + RxBuf + 1)
      /\ rstate \in {"ESTABLISHED", "LAST_ACK", "CLOSED", "REUSED"} /\ adv_win \in Nat
      /\ (rstate = "ESTABLISHED" => adv_win + l <= RxBuf)
      /\ (rstate = "ESTABLISHED" => rcv_nxt = Rx!SeqNo(read + l))
      /\ (Ended => rcv_nxt = Rx!SeqNo((read + l) + 1))
      /\ (Ended => read + l = RxStream)
  BY Widths, Zenon DEF RxInv
<1> HIDE DEF l
<1>3. k \in Nat /\ k <= l /\ read \in Int
  BY <1>2
<1> HIDE DEF k
<1>4. rest = Rx!Bytes(read + k, l - k)
  BY <1>2, <1>3, BytesCut, Zenon
<1> HIDE DEF rest
<1> DEFINE m == l - k
           r == read + k
<1>5. /\ r \in Int /\ r \in Nat /\ m \in Nat /\ m <= l /\ m <= RxBuf /\ r + m = read + l
      /\ read + RxBuf + 1 \in Int /\ r + RxBuf + 1 \in Int /\ (read + l) - RxBuf \in Int
      /\ (read + l) - RxBuf <= (read + l) - RxBuf /\ read + RxBuf + 1 <= r + RxBuf + 1
  BY <1>2, <1>3
<1>6. rest = Rx!Bytes(r, m)
  BY <1>4, Zenon
<1>7. read' = r
  BY <1>1, Zenon
<1> HIDE DEF m, r
<1>8. Len(rest) = m
  BY <1>5, <1>6, BytesAre, Zenon
<1>9. GoodCache(ooo, ooo_bytes, (read + l) - RxBuf, r + RxBuf + 1)
  BY <1>2, <1>5, CacheWider, Zenon
<1>10. nw \in Nat /\ nw + m <= RxBuf
  BY <1>5, <1>8, WindowIs, Zenon
<1>11. Rx!tcp_advertise_window(rxb)' = nw
  BY <1>1, Zenon DEF Rx!tcp_advertise_window
<1> HIDE DEF nw
<1>12. adv_win' \in Nat /\ (rstate = "ESTABLISHED" => adv_win' + m <= RxBuf)
       /\ (rstate = "ESTABLISHED" /\ adv_win' = 0 => nw = 0)
  <2>1. CASE rstate = "ESTABLISHED" /\ Rx!Reopened(nw)
    <3>1. adv_win' = nw
      BY <1>1, <2>1, Zenon
    <3> QED BY <1>10, <3>1, Zenon
  <2>2. CASE ~(rstate = "ESTABLISHED" /\ Rx!Reopened(nw))
    <3>1. adv_win' = adv_win
      BY <1>1, <2>2, Zenon
    <3>2. rstate = "ESTABLISHED" => adv_win + m <= RxBuf
      BY <1>2, <1>5
    <3>3. ASSUME rstate = "ESTABLISHED", adv_win = 0 PROVE nw = 0
      <4>1. ~Rx!Reopened(nw)
        BY <2>2, <3>3, Zenon
      <4> QED BY <1>10, <3>3, <4>1 DEF Rx!Reopened
    <3> QED BY <1>2, <3>1, <3>2, <3>3, Zenon
  <2> QED BY <2>1, <2>2, Zenon
<1>13. Len(rxb') = m /\ rxb' = Rx!Bytes(r, m) /\ r + m = read + l
  BY <1>1, <1>5, <1>6, <1>8, Zenon
<1>14. Ended' = Ended
  BY <1>1, Zenon DEF Ended
<1> QED BY <1>1, <1>2, <1>5, <1>7, <1>9, <1>11, <1>12, <1>13, <1>14, Zenon DEF RxInv

\* Our FIN is acknowledged: the TCB is free, and what is in the buffer stays.
LEMMA LastAckInv ==
  ASSUME RxInv, Rx!tcp_handle_last_ack
  PROVE  RxInv'
<1>1. /\ rstate = "LAST_ACK" /\ rstate' = "CLOSED" /\ rcv_nxt' = rcv_nxt /\ rxb' = rxb /\ ooo' = ooo
      /\ ooo_bytes' = ooo_bytes /\ adv_win' = adv_win /\ read' = read
  BY DEF Rx!tcp_handle_last_ack
<1>2. Ended /\ rstate' # "ESTABLISHED"
  BY <1>1 DEF Ended
<1> QED BY <1>1, <1>2, Zenon DEF RxInv

\* A new connection takes the TCB over and empties its buffer; what is left in
\* the slots lies as near to what was read as before.
LEMMA ReusedInv ==
  ASSUME RxInv, Rx!tcp_handle_syn
  PROVE  RxInv'
<1> DEFINE l == Len(rxb)
<1>1. /\ rstate' = "REUSED" /\ rxb' = <<>> /\ rcv_nxt' = rcv_nxt /\ ooo' = ooo
      /\ ooo_bytes' = ooo_bytes /\ adv_win' = adv_win /\ read' = read
  BY DEF Rx!tcp_handle_syn
<1>2. rstate' # "ESTABLISHED" /\ ~Ended'
  BY <1>1 DEF Ended
<1>3. /\ read \in Nat /\ l \in Nat /\ RxBuf \in Nat /\ adv_win \in Nat
      /\ GoodCache(ooo, ooo_bytes, (read + l) - RxBuf, read + RxBuf + 1)
  BY Widths, Zenon DEF RxInv
<1> HIDE DEF l
<1>4. Len(rxb') = 0 /\ 0 \in Nat /\ 0 <= RxBuf
  BY <1>1, <1>3
<1>5. rxb' = Rx!Bytes(read, 0)
  BY <1>1, <1>3 DEF Rx!Bytes
<1>6. /\ (read + l) - RxBuf \in Int /\ read + RxBuf + 1 \in Int /\ (read + 0) - RxBuf \in Int
      /\ (read + 0) - RxBuf <= (read + l) - RxBuf /\ read + RxBuf + 1 <= read + RxBuf + 1
  BY <1>3
<1>7. GoodCache(ooo, ooo_bytes, (read + 0) - RxBuf, read + RxBuf + 1)
  BY <1>3, <1>6, CacheWider, Zenon
<1> QED BY <1>1, <1>2, <1>3, <1>4, <1>5, <1>7, Zenon DEF RxInv

LEMMA RxStep == RxInv /\ [Rx!Next]_Rx!vars => RxInv'
<1> SUFFICES ASSUME RxInv, [Rx!Next]_Rx!vars PROVE RxInv'
  BY Zenon
<1>1. CASE Rx!Segment
  BY <1>1, SegmentInv, Zenon
<1>2. ASSUME NEW n \in 1 .. RxBuf, Rx!tcp_recv(n) PROVE RxInv'
  BY <1>2, RecvInv, Zenon
<1>3. CASE UNCHANGED Rx!vars
  <2>1. /\ rstate' = rstate /\ rcv_nxt' = rcv_nxt /\ rxb' = rxb /\ ooo' = ooo
        /\ ooo_bytes' = ooo_bytes /\ adv_win' = adv_win /\ read' = read
    BY <1>3 DEF Rx!vars
  <2>2. Rx!tcp_advertise_window(rxb)' = Rx!tcp_advertise_window(rxb) /\ Ended' = Ended
    BY <2>1, Zenon DEF Rx!tcp_advertise_window, Ended
  <2> QED BY <2>1, <2>2, Zenon DEF RxInv
<1>4. CASE Rx!tcp_handle_last_ack
  BY <1>4, LastAckInv, Zenon
<1>5. CASE Rx!tcp_handle_syn
  BY <1>5, ReusedInv, Zenon
<1> QED BY <1>1, <1>2, <1>3, <1>4, <1>5, Zenon DEF Rx!Next

-----------------------------------------------------------------------------
\* What the invariant says of the stream and of the window.

LEMMA RxIntact == RxInv => StreamIntact
<1> SUFFICES ASSUME RxInv PROVE StreamIntact
  BY Zenon
<1> DEFINE lo == (read + Len(rxb)) - RxBuf
           hi == read + RxBuf + 1
<1>1. /\ read \in Nat /\ Len(rxb) \in Nat /\ Len(rxb) <= RxBuf /\ rxb = Rx!Bytes(read, Len(rxb))
      /\ GoodCache(ooo, ooo_bytes, lo, hi)
      /\ rstate \in {"ESTABLISHED", "LAST_ACK", "CLOSED", "REUSED"}
      /\ (rstate = "ESTABLISHED" => rcv_nxt = Rx!SeqNo(read + Len(rxb)))
      /\ (Ended => rcv_nxt = Rx!SeqNo((read + Len(rxb)) + 1))
      /\ (Ended => read + Len(rxb) = RxStream)
  BY Zenon DEF RxInv
<1>2. lo \in Int /\ hi \in Int
  BY <1>1, Widths
<1> HIDE DEF lo, hi
<1>3. rstate # "REUSED" => rcv_nxt = Rx!SeqNo(Rx!Received + IF rstate = "ESTABLISHED" THEN 0 ELSE 1)
  <2>1. CASE rstate = "ESTABLISHED"
    <3>1. (read + Len(rxb)) + 0 = read + Len(rxb)
      BY <1>1
    <3>2. rcv_nxt = Rx!SeqNo(read + Len(rxb))
      BY <1>1, <2>1, Zenon
    <3> QED BY <2>1, <3>1, <3>2, Zenon DEF Rx!Received
  <2>2. CASE rstate # "ESTABLISHED" /\ rstate # "REUSED"
    <3>1. Ended
      BY <1>1, <2>2 DEF Ended
    <3> QED BY <1>1, <2>2, <3>1, Zenon DEF Rx!Received
  <2> QED BY <2>1, <2>2, Zenon
<1>4. ASSUME NEW i \in Rx!Slot, ooo[i] # Rx!Unused
      PROVE  \E p \in Int, n \in Nat :
               /\ ooo[i].seq = Rx!SeqNo(p) /\ ooo[i].data = Rx!Bytes(p, n) /\ Len(ooo[i].data) = n
               /\ From(ooo[i]) = p /\ To(ooo[i]) = p + n
  <2>1. SlotOK(ooo[i], lo, hi)
    BY <1>1, Zenon DEF GoodCache
  <2>2. PICK p \in Int, n \in Nat :
           /\ n >= 1 /\ ooo[i] = Seg(p, n) /\ lo <= p /\ p + n <= hi
           /\ ooo[i].seq = Rx!SeqNo(p) /\ ooo[i].data = Rx!Bytes(p, n) /\ Len(ooo[i].data) = n
           /\ From(ooo[i]) = p /\ To(ooo[i]) = p + n
    BY <1>2, <1>4, <2>1, SlotIs, ZenonT(60)
  <2> QED BY <2>2, Zenon
<1>5. ASSUME NEW i \in Rx!Slot, ooo[i] # Rx!Unused
      PROVE  /\ ooo[i].data = Rx!Bytes(ooo[i].data[1], Len(ooo[i].data))
             /\ ooo[i].seq = Rx!SeqNo(ooo[i].data[1])
  <2>1. PICK p \in Int, n \in Nat :
          /\ ooo[i].seq = Rx!SeqNo(p) /\ ooo[i].data = Rx!Bytes(p, n) /\ Len(ooo[i].data) = n
          /\ From(ooo[i]) = p /\ To(ooo[i]) = p + n
    BY <1>4, <1>5, Zenon
  <2>2. ooo[i].data[1] = p
    BY <2>1, Zenon DEF From
  <2> QED BY <2>1, <2>2, Zenon
<1>6. Rx!StreamIntact
  BY <1>1, <1>3, <1>5, Zenon DEF Rx!StreamIntact
<1>7. ASSUME NEW i \in Rx!Slot, NEW j \in Rx!Slot, i # j,
             NEW x \in 1 .. Len(ooo[i].data), NEW y \in 1 .. Len(ooo[j].data)
      PROVE  ooo[i].data[x] # ooo[j].data[y]
  <2>1. ooo[i] # Rx!Unused
    <3>1. Len(ooo[i].data) # 0
      <4>1. SlotOK(ooo[i], lo, hi)
        BY <1>1, Zenon DEF GoodCache
      <4>2. Len(ooo[i].data) \in Nat
        BY <4>1, SlotLen, Zenon
      <4> QED BY <4>2
    <3> QED BY <3>1, UnusedIs, Zenon
  <2>2. ooo[j] # Rx!Unused
    <3>1. Len(ooo[j].data) # 0
      <4>1. SlotOK(ooo[j], lo, hi)
        BY <1>1, Zenon DEF GoodCache
      <4>2. Len(ooo[j].data) \in Nat
        BY <4>1, SlotLen, Zenon
      <4> QED BY <4>2
    <3> QED BY <3>1, UnusedIs, Zenon
  <2>3. PICK p \in Int, n \in Nat :
          /\ ooo[i].data = Rx!Bytes(p, n) /\ Len(ooo[i].data) = n
          /\ From(ooo[i]) = p /\ To(ooo[i]) = p + n
    BY <1>4, <2>1, Zenon
  <2>4. PICK q \in Int, m \in Nat :
          /\ ooo[j].data = Rx!Bytes(q, m) /\ Len(ooo[j].data) = m
          /\ From(ooo[j]) = q /\ To(ooo[j]) = q + m
    BY <1>4, <2>2, Zenon
  <2>5. p + n <= q \/ q + m <= p
    <3>1. Clear(ooo[i], ooo[j])
      BY <1>1, <1>7, <2>1, <2>2, Zenon DEF GoodCache, Apart
    <3> QED BY <2>3, <2>4, <3>1, Zenon DEF Clear
  <2>6. x \in 1 .. n /\ y \in 1 .. m
    BY <2>3, <2>4, Zenon
  <2>7. ooo[i].data[x] = p + x - 1 /\ ooo[j].data[y] = q + y - 1
    <3>1. Rx!Bytes(p, n)[x] = p + x - 1 /\ Rx!Bytes(q, m)[y] = q + y - 1
      BY <2>6, BytesAre, Zenon
    <3>2. ooo[i].data = Rx!Bytes(p, n) /\ ooo[j].data = Rx!Bytes(q, m)
      BY <2>3, <2>4, Zenon
    <3> QED BY <3>1, <3>2
  <2>8. p + x - 1 # q + y - 1
    BY <2>5, <2>6
  <2> QED BY <2>7, <2>8, Zenon
<1>8. ooo_bytes = Rx!CachedBytes(ooo)
  BY <1>1, SumsTotal, Zenon DEF GoodCache
<1>9. Rx!CacheAccounted
  BY <1>1, <1>7, <1>8, Zenon DEF Rx!CacheAccounted
<1>10. Rx!NoEarlyEof
  BY <1>1, Zenon DEF Rx!NoEarlyEof, Rx!Received, Ended
<1> QED BY <1>6, <1>9, <1>10, Zenon DEF StreamIntact

LEMMA RxWindow == RxInv => WindowHonoured
<1> SUFFICES ASSUME RxInv PROVE WindowHonoured
  BY Zenon
<1>1. Rx!NoClosedWindow
  BY Zenon DEF RxInv, Rx!NoClosedWindow
<1>2. ASSUME rstate = "ESTABLISHED", NEW len \in 1 .. RxMss, len <= adv_win
      PROVE  Rx!tcp_accept_data(Rx!conn, rcv_nxt, Rx!Bytes(Rx!Received, len)).rcv_nxt # rcv_nxt
  <2> DEFINE d == Rx!tcp_accept_data(Rx!conn, rcv_nxt, Rx!Bytes(Rx!Received, len))
             l == Len(rxb)
             m == Len(d.rxb)
  <2>1. /\ GoodConn(Rx!conn, read, Floor(Rx!conn, read)) /\ Rx!conn.rxb = rxb
        /\ Rx!conn.rcv_nxt = rcv_nxt
    BY <1>2, ConnGood, ConnIs, Zenon
  <2>2. /\ read \in Nat /\ l \in Nat /\ adv_win \in Nat /\ adv_win + l <= RxBuf
        /\ rcv_nxt = Rx!SeqNo(read + l) /\ RxMss \in Nat /\ RxBuf \in Nat /\ RxBack \in Nat
    BY <1>2, Widths, Zenon DEF RxInv
  <2>3. d = Rx!tcp_accept_data(Rx!conn, Rx!conn.rcv_nxt, Rx!Bytes(read + Len(Rx!conn.rxb), len))
    BY <2>1, Zenon DEF Rx!Received
  <2> HIDE DEF d, l
  <2>4. len \in Nat /\ len >= 1 /\ len <= RxMss /\ l + len <= RxBuf
    BY <1>2, <2>2
  <2>5. Rx!Fits(Rx!conn, len)
    BY <2>1, <2>4, Zenon DEF Rx!Fits, l
  <2>6. GoodConn(d, read, Floor(d, read)) /\ Len(Rx!conn.rxb) < Len(d.rxb)
    BY <2>1, <2>2, <2>3, <2>4, <2>5, InSequenceGood, Zenon
  <2>7. m \in Nat /\ m <= RxBuf /\ d.rcv_nxt = Rx!SeqNo(read + m) /\ l < m
    BY <2>1, <2>6, Zenon DEF GoodConn, GoodBuffer, l
  <2> HIDE DEF m
  <2>8. ASSUME d.rcv_nxt = rcv_nxt PROVE FALSE
    <3> DEFINE x == read + m
               y == read + l
    <3>1. x \in Int /\ y \in Int /\ x - y <= RxBuf /\ y - x <= RxBuf /\ RxBuf <= 2 * RxBuf + RxBack + 2 /\ x # y
      BY <2>2, <2>7
    <3>2. Rx!SeqNo(x) = Rx!SeqNo(y)
      BY <2>2, <2>7, <2>8, Zenon
    <3> HIDE DEF x, y
    <3>3. Near(x, y)
      BY <2>2, <3>1, NearIs, Zenon
    <3> QED BY <3>1, <3>2, <3>3, SeqSame, Zenon
  <2> QED BY <2>8, Zenon DEF d
<1>3. Rx!WindowHonoured
  BY <1>2, Zenon DEF Rx!WindowHonoured
<1> QED BY <1>1, <1>3, Zenon DEF WindowHonoured

\* tcp_accept_data(), tcp_queue_ooo() and tcp_merge_ooo(): for any buffer, slots
\* and segments, however the network repeats, reorders and cuts them, the program
\* is given the bytes of the stream in order and each once, ooo_bytes counts the
\* cached bytes, no byte is cached twice, and the end of the stream is reported
\* only after all of it.
THEOREM StreamReassembled == Rx!Spec => []StreamIntact
<1>1. Rx!Init => RxInv
  BY RxInit
<1>2. RxInv /\ [Rx!Next]_Rx!vars => RxInv'
  BY RxStep
<1>3. RxInv => StreamIntact
  BY RxIntact
<1> QED BY <1>1, <1>2, <1>3, PTL DEF Rx!Spec

\* tcp_advertise_window() and tcp_window_update_ack(): for any buffer and segment
\* size, what lies in a window that was advertised is accepted, and a closed
\* window is not left standing when there is room for a segment.
THEOREM WindowKept == Rx!Spec => []WindowHonoured
<1>1. Rx!Init => RxInv
  BY RxInit
<1>2. RxInv /\ [Rx!Next]_Rx!vars => RxInv'
  BY RxStep
<1>3. RxInv => WindowHonoured
  BY RxWindow
<1> QED BY <1>1, <1>2, <1>3, PTL DEF Rx!Spec

=============================================================================
